--------------------------- MODULE EventLogBuffer ---------------------------
(***************************************************************************)
(* python/freewill/storage/event_log.py: the engine's buffer of events,    *)
(* flushed to the staging file every flush_every events and on close.      *)
(* The engine is one thread, so a flush delays the next record; the reader *)
(* of the file sees the flush in pieces.                                   *)
(***************************************************************************)
EXTENDS StagingFile

CONSTANTS
  FlushEvery,    \* flush_every
  TornVisible,   \* whether a reader may see any prefix of a write
  MaxEvents      \* the length of the run, in events

ASSUME EventLogBufferAssumption ==
  /\ FlushEvery \in Nat \ {0}
  /\ TornVisible \in BOOLEAN
  /\ MaxEvents \in Nat

VARIABLES
  recorded,   \* events recorded so far
  pending,    \* how many of them, the last ones, are in _pending
  engine      \* what the engine is doing with the buffer

bufferVars == <<file, recorded, pending, engine>>

BufferTypeOK ==
  /\ file \in Position
  /\ recorded \in 0 .. MaxEvents
  /\ pending \in 0 .. FlushEvery
  /\ engine \in {"running", "flushing", "closing", "closed", "crashed"}

BufferInit ==
  /\ file = Start
  /\ recorded = 0
  /\ pending = 0
  /\ engine = "running"

\* Mutant: the buffer is flushed one event late.
RecordFlushesLate ==
  /\ engine = "running"
  /\ recorded < MaxEvents
  /\ recorded' = recorded + 1
  /\ pending' = pending + 1
  /\ engine' = IF pending + 1 > FlushEvery THEN "flushing" ELSE "running"
  /\ UNCHANGED file

Record ==
  /\ engine = "running"
  /\ recorded < MaxEvents
  /\ recorded' = recorded + 1
  /\ pending' = pending + 1
  /\ engine' = IF pending + 1 >= FlushEvery THEN "flushing" ELSE "running"
  /\ UNCHANGED file

\* Mutant: close does not flush.
CloseWithoutFlush ==
  /\ engine = "running"
  /\ engine' = "closed"
  /\ UNCHANGED <<file, recorded, pending>>

\* close(): a flush, which returns at once when nothing is pending.
Close ==
  /\ engine = "running"
  /\ engine' = IF pending = 0 THEN "closed" ELSE "closing"
  /\ UNCHANGED <<file, recorded, pending>>

Flushing == engine \in {"flushing", "closing"}

\* Where a write may stop.  The text layer hands whole f.write strings to the
\* file, so a write ends after a JSON text or after a newline; a reader that
\* runs during the write may see any prefix of it.
Stops == IF TornVisible THEN 0 .. LineWidth ELSE {0, LineWidth}

\* One more piece of the pending lines reaches the file.
Write ==
  /\ Flushing
  /\ \E n \in file.line .. recorded : \E k \in Stops :
       /\ Before(file, At(n, k))
       /\ n = recorded => k = 0
       /\ file' = At(n, k)
  /\ UNCHANGED <<recorded, pending, engine>>

\* The file is closed and _pending cleared.
EndFlush ==
  /\ Flushing
  /\ file = At(recorded, 0)
  /\ pending' = 0
  /\ engine' = IF engine = "flushing" THEN "running" ELSE "closed"
  /\ UNCHANGED <<file, recorded>>

\* The engine dies, or an event that cannot be serialized makes flush raise:
\* what is not in the file is lost.
Crash ==
  /\ engine \in {"running", "flushing", "closing"}
  /\ engine' = "crashed"
  /\ UNCHANGED <<file, recorded, pending>>

BufferNext == Record \/ Close \/ Write \/ EndFlush \/ Crash
=============================================================================
