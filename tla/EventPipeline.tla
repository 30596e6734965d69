--------------------------- MODULE EventPipeline ---------------------------
(***************************************************************************)
(* The path of an event from EventLogBuffer.record to the archive: the     *)
(* engine appends to the staging file, the log shipper beside it reads the *)
(* file at any time, also in the middle of a flush.                        *)
(***************************************************************************)
EXTENDS EventLogBuffer, LogShipper, FiniteSets

vars == <<bufferVars, shipperVars>>

\* Every variable keeps its type; in particular _pending never holds more than
\* flush_every events (the flush inside EventLogBuffer.record).
TypeOK == BufferTypeOK /\ ShipperTypeOK

Init == BufferInit /\ ShipperInit

Next ==
  \/ BufferNext /\ UNCHANGED shipperVars
  \/ ShipperNext /\ UNCHANGED bufferVars

Spec == Init /\ [][Next]_vars

\* The poll loop retries for ever, so the shipper's steps are weakly fair and
\* those a service may refuse get through when they are tried again and again.
\* A flush that has begun is written and ends.
Fairness ==
  /\ WF_vars(Write /\ UNCHANGED shipperVars)
  /\ WF_vars(EndFlush /\ UNCHANGED shipperVars)
  /\ WF_vars(Scan /\ UNCHANGED bufferVars)
  /\ SF_vars(FlushLogs /\ UNCHANGED bufferVars)
  /\ SF_vars(Upload /\ UNCHANGED bufferVars)

FairSpec == Spec /\ Fairness

-----------------------------------------------------------------------------
(* Properties *)

\* A crash of the process loses at most one batch of recorded events: the others are
\* whole lines of the file.  (The docstring of EventLogBuffer speaks of a crashed
\* instance; flush calls no fsync, and the disk goes with an instance that is deleted.)
BoundedCrashLoss == recorded - file.line <= FlushEvery

\* The shipper never moves past an event that parses without having archived
\* it (shipNewLines returns the new offset only after the upload), as long as
\* the reader sees writes end where the text layer ends them.
NothingSkipped ==
  \A e \in 1 .. offset.line : e \in Rejected \/ e \in Archived

\* When a reader may see any prefix of a write, the shipper does move past events:
\* the offset of a poll that ends inside a line makes the next poll start there.
\* Every object after the first costs at most one event, however often its poll is
\* repeated (the addition of bytesRead in shipNewLines).
Skipped == (1 .. offset.line) \ (Rejected \cup Archived)

OneSkipPerObject == Skipped # {} => Cardinality(Skipped) < batchSeq

\* A buffer that is closed and a shipper that finds nothing to ship mean that
\* everything is archived: the poll loop has no other way to tell that it is done.
QuietMeansArchived ==
  engine = "closed" /\ shipper = "idle" /\ Unshipped = {} =>
    (1 .. recorded) \ Rejected \subseteq Archived

\* What is archived has been received by Cloud Logging as well (Flush comes
\* before UploadObject).
ArchivedIsLogged == Archived \subseteq logged

\* While the shipper is not restarted, no event is in two objects and the
\* objects hold the events in the order of their numbers, although uploads
\* are repeated after failures that stored the object.
ArchiveIsOrdered ==
  restarts = 0 =>
    \A a, b \in archive : a.seq < b.seq =>
      \A e \in a.events, f \in b.events : e < f

\* An archived event stays archived: neither a retry nor a restart, which
\* reuses the object names from events-000000 on, replaces an object without
\* keeping its events.
ArchiveStable == [][Archived \subseteq Archived']_vars

\* After the buffer is closed, every event that parses is archived in the end,
\* unless one line is too long for the scanner, which nothing gets past.
ClosedLogIsArchived ==
  engine = "closed" /\ TooLong \cap (1 .. recorded) = {}
    ~> (1 .. recorded) \ Rejected \subseteq Archived

\* The pipeline implements the append-only log with a durable copy: whatever
\* fails and whoever restarts, the archive is at every moment complete up to
\* some event, and no upload that repeats or replaces an object takes it back.
Durable == INSTANCE DurableLog WITH length <- WholeLines, kept <- Archived

ImplementsDurableLog == Durable!Spec

\* What main.go and PRD 6.5 say of the Cloud Storage copy: the durable,
\* full-fidelity archive.  Every event behind the offset is in it.
FullFidelity == \A e \in 1 .. offset.line : e \in Archived
=============================================================================
