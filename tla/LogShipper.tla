----------------------------- MODULE LogShipper -----------------------------
(***************************************************************************)
(* go/cmd/logshipper: the sidecar that tails the staging file and ships    *)
(* what it finds, first to Cloud Logging and then to a Cloud Storage       *)
(* object named after batchSeq.  The read offset and batchSeq live in      *)
(* memory only.  One action is one step of shipNewLines between two of     *)
(* which the file may grow or a service may fail.                          *)
(***************************************************************************)
EXTENDS StagingFile

CONSTANTS
  Rejected,      \* events whose line json.Unmarshal refuses (NaN, Infinity)
  TooLong,       \* events whose line exceeds the scanner's buffer of 1 MB
  MaxRestarts    \* how often the process is restarted

ASSUME LogShipperAssumption ==
  /\ Rejected \subseteq Nat
  /\ TooLong \subseteq Nat
  /\ MaxRestarts \in Nat

VARIABLES
  offset,       \* offset in run: the bytes shipped so far
  batchSeq,     \* batchSeq in run
  shipper,      \* the next step of shipNewLines
  batch,        \* the events of the batch being shipped
  nextOffset,   \* offset + bytesRead
  logged,       \* events that Cloud Logging has received
  archive,      \* the objects under <run_id>/batches/
  restarts

shipperVars ==
  <<offset, batchSeq, shipper, batch, nextOffset, logged, archive, restarts>>

Object == [seq : Nat, events : SUBSET Nat]

ShipperTypeOK ==
  /\ offset \in Position
  /\ batchSeq \in Nat
  /\ shipper \in {"idle", "flush", "upload"}
  /\ batch \subseteq Nat
  /\ nextOffset \in Position
  /\ logged \subseteq Nat
  /\ archive \subseteq Object
  /\ restarts \in 0 .. MaxRestarts

ShipperInit ==
  /\ offset = Start
  /\ batchSeq = 0
  /\ shipper = "idle"
  /\ batch = {}
  /\ nextOffset = Start
  /\ logged = {}
  /\ archive = {}
  /\ restarts = 0

\* The first line that a scan from position p reads from its start.  When p is
\* inside a line, the rest of that line is a malformed token.
FirstLineFrom(p) == IF p.part = 0 THEN p.line + 1 ELSE p.line + 2

FirstLine == FirstLineFrom(offset)

\* The lines that parse.  The scanner also returns an unterminated last line,
\* and it parses when its JSON text is complete.
Unshipped == (FirstLine .. WholeLines) \ Rejected

\* offset + bytesRead, with one byte for a newline after every token, the
\* unterminated last one included.
AfterScan ==
  CASE file.part = 0 -> file
    [] file.part = LineWidth -> At(file.line + 1, 0)
    [] OTHER -> At(file.line, file.part + 1)

\* A line longer than the buffer ends the scan with bufio.ErrTooLong.
Jams == \E e \in TooLong : FirstLine <= e /\ e <= WholeLines

\* The scanner may meet a piece of such a line, at either end of what it reads,
\* that is long enough for the error.
MayJam ==
  \/ Jams
  \/ 0 < file.part /\ file.line + 1 \in TooLong
  \/ 0 < offset.part /\ offset.part < LineWidth /\ offset.line + 1 \in TooLong

\* scanner.Err: the poll ends with an error and the offset stays, but the lines
\* read so far were handed to the logging client, which may send them.
ScanFails ==
  /\ shipper = "idle"
  /\ MayJam
  /\ \E sent \in SUBSET Unshipped :
       /\ \A e \in sent, f \in TooLong : FirstLine <= f => e < f
       /\ logged' = logged \cup sent
  /\ UNCHANGED <<offset, batchSeq, shipper, batch, nextOffset, archive, restarts>>

\* The scan loop, which also hands every entry to the logging client.  A poll
\* that finds no line that parses changes nothing, whatever it skipped.
Scan ==
  /\ shipper = "idle"
  /\ ~Jams
  /\ Unshipped # {}
  /\ batch' = Unshipped
  /\ nextOffset' = AfterScan
  /\ shipper' = "flush"
  /\ UNCHANGED <<offset, batchSeq, logged, archive, restarts>>

\* shipNewLines returns to the poll loop and its locals are gone.
Return ==
  /\ shipper' = "idle"
  /\ batch' = {}
  /\ nextOffset' = Start

\* Mutant: the flush is left to the logging client.
FlushLogsLater ==
  /\ shipper = "flush"
  /\ shipper' = "upload"
  /\ UNCHANGED <<offset, batchSeq, batch, nextOffset, logged, archive, restarts>>

FlushLogs ==
  /\ shipper = "flush"
  /\ shipper' = "upload"
  /\ logged' = logged \cup batch
  /\ UNCHANGED <<offset, batchSeq, batch, nextOffset, archive, restarts>>

\* Flush reports an error: any part of the batch may have been received.
FlushLogsFails ==
  /\ shipper = "flush"
  /\ \E sent \in SUBSET batch : logged' = logged \cup sent
  /\ Return
  /\ UNCHANGED <<offset, batchSeq, archive, restarts>>

\* UploadObject: a second object of the same name replaces the first.
Uploaded ==
  {obj \in archive : obj.seq # batchSeq} \cup {[seq |-> batchSeq, events |-> batch]}

Upload ==
  /\ shipper = "upload"
  /\ archive' = Uploaded
  /\ offset' = nextOffset
  /\ batchSeq' = batchSeq + 1
  /\ Return
  /\ UNCHANGED <<logged, restarts>>

\* Mutant: a batch that fails to upload is counted as shipped.
UploadFailsBumpsSeq ==
  /\ shipper = "upload"
  /\ archive' \in {archive, Uploaded}
  /\ batchSeq' = batchSeq + 1
  /\ Return
  /\ UNCHANGED <<offset, logged, restarts>>

\* Mutant: the offset is moved although the upload failed.
UploadFailsMovesOffset ==
  /\ shipper = "upload"
  /\ archive' \in {archive, Uploaded}
  /\ offset' = nextOffset
  /\ Return
  /\ UNCHANGED <<batchSeq, logged, restarts>>

\* UploadObject reports an error: the object may exist all the same.  The next
\* poll scans again from the old offset, under the same batchSeq.
UploadFails ==
  /\ shipper = "upload"
  /\ archive' \in {archive, Uploaded}
  /\ Return
  /\ UNCHANGED <<offset, batchSeq, logged, restarts>>

\* Mutant: a restarted shipper starts at the end of the file.
RestartAtEnd ==
  /\ restarts < MaxRestarts
  /\ restarts' = restarts + 1
  /\ \E sent \in SUBSET batch : logged' = logged \cup sent
  /\ offset' = At(file.line, 0)
  /\ batchSeq' = 0
  /\ Return
  /\ UNCHANGED archive

\* The process dies and is started again: it ships the file from its start,
\* under the names of the first objects.
Restart ==
  /\ restarts < MaxRestarts
  /\ restarts' = restarts + 1
  /\ \E sent \in SUBSET batch : logged' = logged \cup sent
  /\ offset' = Start
  /\ batchSeq' = 0
  /\ Return
  /\ UNCHANGED archive

ShipperNext ==
  \/ Scan \/ ScanFails
  \/ FlushLogs \/ FlushLogsFails
  \/ Upload \/ UploadFails
  \/ Restart

Archived == UNION {obj.events : obj \in archive}
=============================================================================
