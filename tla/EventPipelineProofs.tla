------------------------ MODULE EventPipelineProofs ------------------------
(***************************************************************************)
(* What holds of the event pipeline for every length of the run, every     *)
(* size of the buffer, every set of rejected events, any number of         *)
(* restarts, and a reader that may see any prefix of a write.              *)
(***************************************************************************)
EXTENDS EventPipeline, FiniteSetTheorems, TLAPS

\* The buffer: what is not in the file is still in _pending, or was when the
\* engine died; the file never runs ahead of the events.
WriterInv ==
  /\ recorded - file.line <= pending
  /\ file.line <= recorded
  /\ engine = "running" => pending < FlushEvery

\* The batch in memory: whole lines behind the offset, in front of the offset
\* it will move to, at least one, and among them every archived event that the
\* shipper would ship again.
BatchInv ==
  shipper # "idle" =>
    /\ batch # {}
    /\ \A e \in batch :
         /\ FirstLine <= e
         /\ e <= WholeLines
         /\ e \notin Rejected
         /\ e < FirstLineFrom(nextOffset)
    /\ \A e \in Archived : FirstLine <= e => e \in batch

\* The archive holds whole lines only.
ArchiveInv == \A e \in Archived : 1 <= e /\ e <= WholeLines /\ e \notin Rejected

\* An archived event is in an object that the shipper will not name again, or
\* it lies behind the offset and will be shipped again.
KeptInv ==
  \A e \in Archived :
    \/ FirstLine <= e
    \/ \E obj \in archive : obj.seq < batchSeq /\ e \in obj.events

\* Cloud Logging has what is about to be archived.
LoggedInv ==
  /\ shipper = "upload" => batch \subseteq logged
  /\ Archived \subseteq logged

\* The inductive invariant.
IInv ==
  /\ TypeOK
  /\ WriterInv
  /\ BatchInv
  /\ ArchiveInv
  /\ KeptInv
  /\ LoggedInv

\* Membership in the archive, by object.
LEMMA ArchivedDef ==
  \A e : e \in Archived <=> \E obj \in archive : e \in obj.events
BY DEF Archived

\* What an upload leaves in the archive.
LEMMA UploadedDef ==
  ASSUME archive' = Uploaded
  PROVE  \A e : e \in Archived' <=>
           e \in batch \/ \E obj \in archive : obj.seq # batchSeq /\ e \in obj.events
<1>1. archive' = {obj \in archive : obj.seq # batchSeq}
                   \cup {[seq |-> batchSeq, events |-> batch]}
  BY DEF Uploaded
<1> DEFINE new == [seq |-> batchSeq, events |-> batch]
<1>2. new.events = batch
  OBVIOUS
<1>3. \A obj : obj \in archive' <=>
                (obj \in archive /\ obj.seq # batchSeq) \/ obj = new
  BY <1>1
<1>4. \A e : e \in Archived' <=> \E obj \in archive' : e \in obj.events
  BY DEF Archived
<1> HIDE DEF new
<1>5. QED
  BY <1>2, <1>3, <1>4

\* An event that an upload takes away from its object is in the new object.
LEMMA UploadKeeps ==
  ASSUME IInv, shipper = "upload", archive' = Uploaded
  PROVE  /\ Archived \subseteq Archived'
         /\ \A e \in Archived' :
              e \in batch \/ \E obj \in archive : obj.seq < batchSeq /\ e \in obj.events
<1> SUFFICES ASSUME NEW e
             PROVE  /\ e \in Archived => e \in Archived'
                    /\ e \in Archived' =>
                         e \in batch \/ \E obj \in archive :
                                          obj.seq < batchSeq /\ e \in obj.events
  OBVIOUS
<1>1. e \in Archived =>
        e \in batch \/ \E obj \in archive : obj.seq < batchSeq /\ e \in obj.events
  BY DEF IInv, BatchInv, KeptInv
<1>2. \A obj \in archive : obj.seq \in Nat /\ batchSeq \in Nat
  BY DEF IInv, TypeOK, ShipperTypeOK, Object
<1>3. \A obj \in archive : obj.seq < batchSeq => obj.seq # batchSeq
  BY <1>2
<1>4. QED
  BY <1>1, <1>3, ArchivedDef, UploadedDef

-----------------------------------------------------------------------------
(* The inductive invariant *)

\* An empty file, an empty archive and an idle shipper satisfy IInv.
LEMMA InitIInv == Init => IInv
BY EventLogBufferAssumption, LogShipperAssumption, LineWidthAssumption
   DEF Init, BufferInit, ShipperInit, Start, At, IInv, TypeOK, BufferTypeOK,
       ShipperTypeOK, Position, Object, WriterInv, BatchInv, ArchiveInv, KeptInv,
       LoggedInv, Archived, FirstLine, FirstLineFrom, WholeLines

\* A step of the buffer keeps its types and WriterInv, and the file only grows.
LEMMA BufferStep ==
  ASSUME IInv, BufferNext
  PROVE  /\ BufferTypeOK'
         /\ WriterInv'
         /\ WholeLines \in Nat
         /\ WholeLines' \in Nat
         /\ WholeLines <= WholeLines'
<1> USE LineWidthAssumption, EventLogBufferAssumption
<1> USE DEF IInv, TypeOK, BufferTypeOK, WriterInv, Position, WholeLines
<1>1. CASE Record  BY <1>1 DEF Record
<1>2. CASE Close  BY <1>2 DEF Close
<1>3. CASE Write
  <2>1. PICK n \in file.line .. recorded, k \in Stops :
          /\ Before(file, At(n, k))
          /\ n = recorded => k = 0
          /\ file' = At(n, k)
          /\ UNCHANGED <<recorded, pending, engine>>
    BY <1>3 DEF Write
  <2>2. k \in 0 .. LineWidth /\ n \in Nat
    BY DEF Stops
  <2>3. /\ file'.line = n
        /\ file'.part = k
        /\ file' \in Position
    BY <2>1, <2>2 DEF At
  <2>4. file.line < n \/ (file.line = n /\ file.part < k)
    BY <2>1 DEF Before, At
  <2>5. engine \in {"flushing", "closing"}
    BY <1>3 DEF Write, Flushing
  <2>6. QED
    BY <2>1, <2>2, <2>3, <2>4, <2>5
<1>4. CASE EndFlush  BY <1>4 DEF EndFlush, Flushing, At
<1>5. CASE Crash  BY <1>5 DEF Crash
<1>6. QED
  BY <1>1, <1>2, <1>3, <1>4, <1>5 DEF BufferNext

\* The shipper sees the buffer only through WholeLines, which may grow at any
\* moment: a batch in memory and the archive still hold whole lines.
LEMMA BufferIInv ==
  ASSUME IInv, BufferNext, UNCHANGED shipperVars
  PROVE  IInv'
<1>1. UNCHANGED <<offset, batchSeq, shipper, batch, nextOffset, logged, archive, restarts>>
  BY DEF shipperVars
<1>2. ShipperTypeOK'
  BY <1>1 DEF IInv, TypeOK, ShipperTypeOK
<1>3. UNCHANGED <<FirstLine, FirstLineFrom(nextOffset), Archived>>
  BY <1>1 DEF FirstLine, FirstLineFrom, Archived
<1>4. batch \subseteq Nat /\ Archived \subseteq Nat
  BY DEF IInv, TypeOK, ShipperTypeOK, Archived, Object
<1>5. \A e \in Nat : e <= WholeLines => e <= WholeLines'
  BY BufferStep
<1>6. BatchInv'
  BY <1>1, <1>3, <1>4, <1>5 DEF IInv, BatchInv
<1>7. ArchiveInv'
  BY <1>3, <1>4, <1>5 DEF IInv, ArchiveInv
<1>8. KeptInv' /\ LoggedInv'
  BY <1>1, <1>3 DEF IInv, KeptInv, LoggedInv
<1>9. QED
  BY <1>2, <1>6, <1>7, <1>8, BufferStep DEF IInv, TypeOK

\* A scan of the file keeps the types, and every line it reads lies in front of
\* the position it stops at.
LEMMA AfterScanBound ==
  ASSUME IInv
  PROVE  /\ AfterScan \in Position
         /\ \A e \in Nat : e <= WholeLines => e < FirstLineFrom(AfterScan)
         /\ FirstLine \in Nat \ {0}
         /\ WholeLines \in Nat
BY LineWidthAssumption
   DEF IInv, TypeOK, BufferTypeOK, ShipperTypeOK, Position, WholeLines, AfterScan,
       FirstLineFrom, FirstLine, At

\* The start of the file is a position, and a scan from it reads the first line.
LEMMA StartFacts == Start \in Position /\ FirstLineFrom(Start) = 1
BY LineWidthAssumption DEF Start, At, Position, FirstLineFrom

\* The shipper's steps, from the scan to the upload, in any order with
\* failures and restarts.
LEMMA ShipperIInv ==
  ASSUME IInv, ShipperNext, UNCHANGED bufferVars
  PROVE  IInv'
<1>1. BufferTypeOK' /\ WriterInv' /\ UNCHANGED <<WholeLines, AfterScan>>
  BY DEF bufferVars, IInv, TypeOK, BufferTypeOK, WriterInv, WholeLines, AfterScan
<1>3. Archived \subseteq Nat /\ batch \subseteq Nat
  BY DEF IInv, TypeOK, ShipperTypeOK, Archived, Object
<1>4. CASE Scan
  <2>1. /\ batch' = (FirstLine .. WholeLines) \ Rejected
        /\ nextOffset' = AfterScan
        /\ shipper' = "flush"
        /\ UNCHANGED <<offset, batchSeq, logged, archive, restarts>>
    BY <1>4 DEF Scan, Unshipped
  <2>2. UNCHANGED <<FirstLine, Archived>>
    BY <2>1 DEF FirstLine, FirstLineFrom, Archived
  <2>3. ShipperTypeOK'
    BY <2>1, AfterScanBound DEF IInv, TypeOK, ShipperTypeOK
  <2>4. ASSUME NEW e \in batch'
        PROVE  /\ FirstLine' <= e
               /\ e <= WholeLines'
               /\ e \notin Rejected
               /\ e < FirstLineFrom(nextOffset)'
    <3>1. e \in Nat /\ FirstLine <= e /\ e <= WholeLines /\ e \notin Rejected
      BY <2>1, <2>4, AfterScanBound
    <3>2. FirstLineFrom(nextOffset)' = FirstLineFrom(AfterScan)
      BY <2>1 DEF FirstLineFrom
    <3>3. QED
      BY <3>1, <3>2, <2>2, <1>1, AfterScanBound
  <2>5. ASSUME NEW e \in Archived', FirstLine' <= e
        PROVE  e \in batch'
    <3>1. e \in Nat /\ FirstLine <= e /\ e <= WholeLines /\ e \notin Rejected
      BY <2>2, <2>5, <1>3 DEF IInv, ArchiveInv
    <3>2. QED
      BY <3>1, <2>1, AfterScanBound
  <2>6. BatchInv'
    BY <2>4, <2>5, <1>4 DEF Scan, BatchInv
  <2>7. ArchiveInv' /\ KeptInv' /\ LoggedInv'
    BY <2>1, <2>2, <1>1 DEF IInv, ArchiveInv, KeptInv, LoggedInv
  <2>8. QED
    BY <1>1, <2>3, <2>6, <2>7 DEF IInv, TypeOK
<1>5. CASE FlushLogs
  <2>1. /\ shipper = "flush"
        /\ shipper' = "upload"
        /\ logged' = logged \cup batch
        /\ UNCHANGED <<offset, batchSeq, batch, nextOffset, archive, restarts>>
    BY <1>5 DEF FlushLogs
  <2>2. UNCHANGED <<FirstLine, FirstLineFrom(nextOffset), Archived>>
    BY <2>1 DEF FirstLine, FirstLineFrom, Archived
  <2>3. ShipperTypeOK'
    BY <2>1 DEF IInv, TypeOK, ShipperTypeOK
  <2>4. BatchInv'
    BY <2>1, <2>2, <1>1 DEF IInv, BatchInv
  <2>5. ArchiveInv' /\ KeptInv' /\ LoggedInv'
    BY <2>1, <2>2, <1>1 DEF IInv, ArchiveInv, KeptInv, LoggedInv
  <2>6. QED
    BY <1>1, <2>3, <2>4, <2>5 DEF IInv, TypeOK
<1>6. CASE FlushLogsFails
  <2>1. PICK sent \in SUBSET batch : logged' = logged \cup sent
    BY <1>6 DEF FlushLogsFails
  <2>2. /\ shipper' = "idle" /\ batch' = {} /\ nextOffset' = Start
        /\ UNCHANGED <<offset, batchSeq, archive, restarts>>
    BY <1>6 DEF FlushLogsFails, Return
  <2>3. UNCHANGED <<FirstLine, Archived>>
    BY <2>2 DEF FirstLine, FirstLineFrom, Archived
  <2>4. ShipperTypeOK'
    BY <2>1, <2>2, StartFacts DEF IInv, TypeOK, ShipperTypeOK
  <2>5. BatchInv' /\ ArchiveInv' /\ KeptInv' /\ LoggedInv'
    BY <2>1, <2>2, <2>3, <1>1 DEF IInv, BatchInv, ArchiveInv, KeptInv, LoggedInv
  <2>6. QED
    BY <1>1, <2>4, <2>5 DEF IInv, TypeOK
<1>7. ASSUME shipper = "upload", archive' = Uploaded
      PROVE  /\ archive' \subseteq Object
             /\ ArchiveInv'
             /\ Archived' \subseteq logged
  <2>1. [seq |-> batchSeq, events |-> batch] \in Object
    BY <1>3 DEF IInv, TypeOK, ShipperTypeOK, Object
  <2>2. archive' \subseteq Object
    BY <1>7, <2>1 DEF Uploaded, IInv, TypeOK, ShipperTypeOK
  <2>3. \A e \in Archived' : e \in batch \/ e \in Archived
    BY <1>7, UploadedDef, ArchivedDef
  <2>4. \A e \in batch : 1 <= e /\ e <= WholeLines /\ e \notin Rejected
    BY <1>3, <1>7, AfterScanBound DEF IInv, BatchInv
  <2>5. QED
    BY <2>2, <2>3, <2>4, <1>1, <1>7 DEF IInv, ArchiveInv, LoggedInv
<1>8. CASE Upload
  <2>1. /\ shipper = "upload" /\ archive' = Uploaded
        /\ offset' = nextOffset /\ batchSeq' = batchSeq + 1
        /\ shipper' = "idle" /\ batch' = {} /\ nextOffset' = Start
        /\ UNCHANGED <<logged, restarts>>
    BY <1>8 DEF Upload, Return
  <2>2. ShipperTypeOK'
    BY <1>7, <2>1, StartFacts DEF IInv, TypeOK, ShipperTypeOK
  <2>3. KeptInv'
    <3>1. SUFFICES ASSUME NEW e \in Archived'
                   PROVE  \E obj \in archive' : obj.seq < batchSeq' /\ e \in obj.events
      BY DEF KeptInv
    <3>2. batchSeq \in Nat
      BY DEF IInv, TypeOK, ShipperTypeOK
    <3>3. CASE e \in batch
      <4> DEFINE new == [seq |-> batchSeq, events |-> batch]
      <4>1. new \in archive' /\ new.seq = batchSeq /\ new.events = batch
        BY <2>1 DEF Uploaded
      <4>2. new.seq < batchSeq'
        BY <4>1, <3>2, <2>1
      <4>3. QED
        BY <4>1, <4>2, <3>3
    <3>4. CASE e \notin batch
      <4>1. PICK obj \in archive : obj.seq < batchSeq /\ e \in obj.events
        BY <3>4, <2>1, UploadKeeps
      <4>2. obj.seq \in Nat
        BY DEF IInv, TypeOK, ShipperTypeOK, Object
      <4>3. obj.seq # batchSeq /\ obj.seq < batchSeq'
        BY <4>1, <4>2, <3>2, <2>1
      <4>4. obj \in archive'
        BY <4>3, <2>1 DEF Uploaded
      <4>5. QED
        BY <4>1, <4>3, <4>4
    <3>5. QED
      BY <3>3, <3>4
  <2>4. BatchInv' /\ LoggedInv'
    BY <2>1, <1>7 DEF BatchInv, LoggedInv
  <2>5. QED
    BY <1>1, <1>7, <2>1, <2>2, <2>3, <2>4 DEF IInv, TypeOK
<1>9. CASE UploadFails
  <2>1. /\ shipper = "upload" /\ archive' \in {archive, Uploaded}
        /\ shipper' = "idle" /\ batch' = {} /\ nextOffset' = Start
        /\ UNCHANGED <<offset, batchSeq, logged, restarts>>
    BY <1>9 DEF UploadFails, Return
  <2>2. UNCHANGED FirstLine
    BY <2>1 DEF FirstLine, FirstLineFrom
  <2>3. CASE archive' = archive
    <3>1. Archived' = Archived
      BY <2>3 DEF Archived
    <3>2. ShipperTypeOK'
      BY <2>1, <2>3, StartFacts DEF IInv, TypeOK, ShipperTypeOK
    <3>3. BatchInv' /\ ArchiveInv' /\ KeptInv' /\ LoggedInv'
      BY <2>1, <2>2, <2>3, <3>1, <1>1
         DEF IInv, BatchInv, ArchiveInv, KeptInv, LoggedInv
    <3>4. QED
      BY <1>1, <3>2, <3>3 DEF IInv, TypeOK
  <2>4. CASE archive' = Uploaded
    <3>1. ShipperTypeOK'
      BY <1>7, <2>1, <2>4, StartFacts DEF IInv, TypeOK, ShipperTypeOK
    <3>2. KeptInv'
      <4>1. SUFFICES ASSUME NEW e \in Archived', ~(FirstLine <= e)
                     PROVE  \E obj \in archive' : obj.seq < batchSeq /\ e \in obj.events
        BY <2>1, <2>2 DEF KeptInv
      <4>2. e \notin batch
        BY <4>1, <2>1 DEF IInv, BatchInv
      <4>3. PICK obj \in archive : obj.seq < batchSeq /\ e \in obj.events
        BY <4>2, <2>1, <2>4, UploadKeeps
      <4>4. obj.seq \in Nat /\ batchSeq \in Nat
        BY DEF IInv, TypeOK, ShipperTypeOK, Object
      <4>5. obj \in archive'
        BY <4>3, <4>4, <2>4 DEF Uploaded
      <4>6. QED
        BY <4>3, <4>5
    <3>3. BatchInv' /\ LoggedInv'
      BY <2>1, <2>4, <1>7 DEF BatchInv, LoggedInv
    <3>4. QED
      BY <1>1, <1>7, <2>1, <2>4, <3>1, <3>2, <3>3 DEF IInv, TypeOK
  <2>5. QED
    BY <2>1, <2>3, <2>4
<1>10. CASE Restart
  <2>1. PICK sent \in SUBSET batch : logged' = logged \cup sent
    BY <1>10 DEF Restart
  <2>2. /\ restarts < MaxRestarts /\ restarts' = restarts + 1
        /\ offset' = Start /\ batchSeq' = 0
        /\ shipper' = "idle" /\ batch' = {} /\ nextOffset' = Start
        /\ UNCHANGED archive
    BY <1>10 DEF Restart, Return
  <2>3. FirstLine' = 1 /\ Archived' = Archived
    BY <2>2, StartFacts DEF FirstLine, FirstLineFrom, Archived
  <2>4. ShipperTypeOK'
    BY <2>1, <2>2, StartFacts, LogShipperAssumption DEF IInv, TypeOK, ShipperTypeOK
  <2>5. BatchInv' /\ ArchiveInv' /\ KeptInv' /\ LoggedInv'
    BY <2>1, <2>2, <2>3, <1>1 DEF IInv, BatchInv, ArchiveInv, KeptInv, LoggedInv
  <2>6. QED
    BY <1>1, <2>4, <2>5 DEF IInv, TypeOK
<1>11. CASE ScanFails
  <2>1. PICK sent \in SUBSET Unshipped : logged' = logged \cup sent
    BY <1>11 DEF ScanFails
  <2>2. /\ UNCHANGED <<offset, batchSeq, shipper, batch, nextOffset, archive, restarts>>
        /\ shipper = "idle"
    BY <1>11 DEF ScanFails
  <2>3. UNCHANGED <<FirstLine, Archived>>
    BY <2>2 DEF FirstLine, FirstLineFrom, Archived
  <2>4. Unshipped \subseteq Nat
    BY AfterScanBound DEF Unshipped
  <2>5. ShipperTypeOK'
    BY <2>1, <2>2, <2>4 DEF IInv, TypeOK, ShipperTypeOK
  <2>6. BatchInv' /\ ArchiveInv' /\ KeptInv' /\ LoggedInv'
    BY <2>1, <2>2, <2>3, <1>1 DEF IInv, BatchInv, ArchiveInv, KeptInv, LoggedInv
  <2>7. QED
    BY <1>1, <2>5, <2>6 DEF IInv, TypeOK
<1>12. QED
  BY <1>4, <1>5, <1>6, <1>8, <1>9, <1>10, <1>11 DEF ShipperNext

\* IInv is inductive.
LEMMA NextIInv == IInv /\ [Next]_vars => IInv'
<1> SUFFICES ASSUME IInv, [Next]_vars PROVE IInv'
  OBVIOUS
<1>1. CASE BufferNext /\ UNCHANGED shipperVars
  BY <1>1, BufferIInv
<1>2. CASE ShipperNext /\ UNCHANGED bufferVars
  BY <1>2, ShipperIInv
<1>3. CASE UNCHANGED vars
  <2>1. UNCHANGED bufferVars /\ UNCHANGED shipperVars
    BY <1>3 DEF vars
  <2>2. UNCHANGED <<Archived, WholeLines, FirstLine, FirstLineFrom(nextOffset)>>
    BY <2>1 DEF bufferVars, shipperVars, Archived, WholeLines, FirstLine, FirstLineFrom
  <2>3. QED
    BY <2>1, <2>2 DEF bufferVars, shipperVars, IInv, TypeOK, BufferTypeOK,
       ShipperTypeOK, WriterInv, BatchInv, ArchiveInv, KeptInv, LoggedInv
<1>4. QED
  BY <1>1, <1>2, <1>3 DEF Next

\* IInv holds in every reachable state.
THEOREM Invariance == Spec => []IInv
BY InitIInv, NextIInv, PTL DEF Spec

-----------------------------------------------------------------------------
(* The theorems *)

\* Every variable of the pipeline keeps its type; in particular _pending never
\* holds more than flush_every events.
THEOREM TypeCorrect == Spec => []TypeOK
<1>1. IInv => TypeOK  BY DEF IInv
<1>2. QED  BY <1>1, Invariance, PTL

\* What the file lacks is in _pending, which is one batch at most.
LEMMA FileLacksOneBatch == IInv => BoundedCrashLoss
BY EventLogBufferAssumption
   DEF IInv, TypeOK, BufferTypeOK, Position, WriterInv, BoundedCrashLoss

\* The death of the process at any moment, in the middle of a flush too, loses at most one
\* batch of recorded events.
THEOREM CrashLossIsBounded == Spec => []BoundedCrashLoss
BY FileLacksOneBatch, Invariance, PTL

\* What is archived has been received by Cloud Logging, whichever calls failed.
THEOREM ArchivedEventsAreLogged == Spec => []ArchivedIsLogged
<1>1. IInv => ArchivedIsLogged  BY DEF IInv, LoggedInv, ArchivedIsLogged
<1>2. QED  BY <1>1, Invariance, PTL

\* A step keeps what is archived, although an upload may replace an object.
LEMMA StepKeepsArchive ==
  ASSUME IInv, [Next]_vars
  PROVE  Archived \subseteq Archived'
<1>1. CASE UNCHANGED archive
  BY <1>1 DEF Archived
<1>2. CASE shipper = "upload" /\ archive' = Uploaded
  BY <1>2, UploadKeeps
<1>3. UNCHANGED archive \/ (shipper = "upload" /\ archive' = Uploaded)
  BY DEF Next, ShipperNext, vars, shipperVars, Scan, ScanFails, FlushLogs, FlushLogsFails,
     Upload, UploadFails, Restart
<1>4. QED
  BY <1>1, <1>2, <1>3

\* No retry and no restart takes an event out of the archive, although both
\* replace objects.
THEOREM ArchiveNeverShrinks == Spec => ArchiveStable
<1>1. IInv /\ [Next]_vars => [Archived \subseteq Archived']_vars
  BY StepKeepsArchive
<1>2. QED  BY <1>1, Invariance, PTL DEF Spec, ArchiveStable

-----------------------------------------------------------------------------
(* Nothing is skipped when no torn line is visible *)

\* Every position is at the end of a JSON text or of a line, and the batch in
\* memory is all there is to ship between the two offsets.
WholeInv ==
  /\ file.part \in {0, LineWidth}
  /\ offset.part = 0
  /\ nextOffset.part = 0
  /\ shipper # "idle" =>
       \A e \in FirstLine .. nextOffset.line : e \in Rejected \/ e \in batch
  /\ NothingSkipped

\* WholeInv holds initially.
LEMMA InitWhole == Init => WholeInv
BY DEF Init, BufferInit, ShipperInit, Start, At, WholeInv, NothingSkipped

\* A step of the buffer leaves the end of the file where the text layer does.
LEMMA BufferWhole ==
  ASSUME IInv, WholeInv, ~TornVisible, BufferNext, UNCHANGED shipperVars
  PROVE  WholeInv'
<1>1. file'.part \in {0, LineWidth}
  <2>1. CASE Write
    <3>1. PICK n \in file.line .. recorded, k \in Stops : file' = At(n, k)
      BY <2>1 DEF Write
    <3>2. QED
      BY <3>1 DEF Stops, At
  <2>2. CASE UNCHANGED file
    BY <2>2 DEF WholeInv
  <2>3. QED
    BY <2>1, <2>2 DEF BufferNext, Record, Close, EndFlush, Crash
<1>2. QED
  BY <1>1 DEF shipperVars, WholeInv, NothingSkipped, FirstLine, FirstLineFrom, Archived

\* A step of the shipper moves the offset only over events that are rejected or
\* archived.
LEMMA ShipperWhole ==
  ASSUME IInv, WholeInv, ShipperNext, UNCHANGED bufferVars
  PROVE  WholeInv'
<1>1. file'.part \in {0, LineWidth}
  BY DEF bufferVars, WholeInv
<1>2. Start.part = 0 /\ Start.line = 0
  BY DEF Start, At
<1>3. Archived \subseteq Archived'
  <2>1. CASE UNCHANGED archive
    BY <2>1 DEF Archived
  <2>2. CASE shipper = "upload" /\ archive' = Uploaded
    BY <2>2, UploadKeeps
  <2>3. QED
    BY <2>1, <2>2 DEF ShipperNext, Scan, ScanFails, FlushLogs, FlushLogsFails, Upload,
       UploadFails, Restart
<1>4. CASE Scan
  <2>1. AfterScan.part = 0 /\ AfterScan.line = WholeLines
    BY LineWidthAssumption DEF WholeInv, AfterScan, WholeLines, At
  <2>2. UNCHANGED <<offset, FirstLine>>
    BY <1>4 DEF Scan, FirstLine, FirstLineFrom
  <2>3. NothingSkipped'
    BY <2>2, <1>3 DEF WholeInv, NothingSkipped
  <2>4. QED
    BY <1>1, <1>4, <2>1, <2>2, <2>3 DEF Scan, Unshipped, WholeInv
<1>5. CASE FlushLogs
  BY <1>1, <1>3, <1>5
     DEF FlushLogs, WholeInv, NothingSkipped, FirstLine, FirstLineFrom, Archived
<1>6. CASE FlushLogsFails \/ UploadFails
  <2>1. /\ shipper' = "idle" /\ nextOffset' = Start /\ UNCHANGED offset
    BY <1>6 DEF FlushLogsFails, UploadFails, Return
  <2>2. QED
    BY <1>1, <1>2, <1>3, <2>1 DEF WholeInv, NothingSkipped
<1>7. CASE Upload
  <2>1. /\ shipper = "upload" /\ archive' = Uploaded /\ offset' = nextOffset
        /\ shipper' = "idle" /\ nextOffset' = Start
    BY <1>7 DEF Upload, Return
  <2>2. offset \in Position /\ nextOffset \in Position
    BY DEF IInv, TypeOK, ShipperTypeOK
  <2>3. ASSUME NEW e \in 1 .. nextOffset.line
        PROVE  e \in Rejected \/ e \in Archived'
    <3>1. CASE e <= offset.line
      <4>1. e \in 1 .. offset.line
        BY <2>2, <3>1 DEF Position
      <4>2. QED
        BY <4>1, <1>3 DEF WholeInv, NothingSkipped
    <3>2. CASE ~(e <= offset.line)
      <4>1. e \in FirstLine .. nextOffset.line
        BY <2>2, <3>2 DEF Position, FirstLine, FirstLineFrom, WholeInv
      <4>2. e \in Rejected \/ e \in batch
        BY <4>1, <2>1 DEF WholeInv
      <4>3. QED
        BY <4>2, <2>1, UploadedDef
    <3>3. QED
      BY <3>1, <3>2
  <2>4. NothingSkipped'
    BY <2>1, <2>3 DEF NothingSkipped
  <2>5. QED
    BY <1>1, <1>2, <2>1, <2>4 DEF WholeInv
<1>8. CASE Restart
  <2>1. shipper' = "idle" /\ nextOffset' = Start /\ offset' = Start
    BY <1>8 DEF Restart, Return
  <2>2. QED
    BY <1>1, <1>2, <2>1 DEF WholeInv, NothingSkipped
<1>9. CASE ScanFails
  BY <1>1, <1>3, <1>9
     DEF ScanFails, WholeInv, NothingSkipped, FirstLine, FirstLineFrom, Archived
<1>10. QED
  BY <1>4, <1>5, <1>6, <1>7, <1>8, <1>9 DEF ShipperNext

\* WholeInv is inductive together with IInv.
LEMMA NextWhole ==
  ASSUME ~TornVisible, IInv, WholeInv, [Next]_vars
  PROVE  WholeInv'
<1>1. CASE BufferNext /\ UNCHANGED shipperVars
  BY <1>1, BufferWhole
<1>2. CASE ShipperNext /\ UNCHANGED bufferVars
  BY <1>2, ShipperWhole
<1>3. CASE UNCHANGED vars
  BY <1>3 DEF vars, bufferVars, shipperVars, WholeInv, NothingSkipped, FirstLine,
     FirstLineFrom, Archived
<1>4. QED
  BY <1>1, <1>2, <1>3 DEF Next

\* As long as a reader sees writes end where the text layer ends them, the
\* shipper archives every event that parses before it moves past it.
THEOREM NothingIsSkipped ==
  ASSUME ~TornVisible
  PROVE  Spec => []NothingSkipped
<1>1. IInv /\ WholeInv /\ [Next]_vars => WholeInv'
  BY NextWhole
<1>2. WholeInv => NothingSkipped
  BY DEF WholeInv
<1>3. QED
  BY <1>1, <1>2, InitWhole, Invariance, PTL DEF Spec

-----------------------------------------------------------------------------
(* What is skipped when torn lines are visible *)

\* The events passed over so far, of which every object but the first has added
\* at most one, and what the next object will add: the line that the offset is in.
\* As in WholeInv, the batch is all that parses between the two offsets.
SkipInv ==
  /\ \E S : /\ IsFiniteSet(S)
            /\ S = {} \/ Cardinality(S) < batchSeq
            /\ \A e \in 1 .. offset.line : e \in Rejected \/ e \in Archived \/ e \in S
  /\ offset.part > 0 => batchSeq > 0
  /\ shipper # "idle" =>
       \A e \in FirstLine .. nextOffset.line : e \in Rejected \/ e \in batch

\* An empty set counts no element, and one more element counts for at most one.
LEMMA OneMore ==
  ASSUME NEW S, IsFiniteSet(S), NEW x, NEW n \in Nat \ {0},
         S = {} \/ Cardinality(S) < n
  PROVE  IsFiniteSet(S \cup {x}) /\ Cardinality(S \cup {x}) < n + 1
<1>1. /\ IsFiniteSet(S \cup {x})
      /\ Cardinality(S \cup {x}) \in {Cardinality(S), Cardinality(S) + 1}
      /\ Cardinality(S) \in Nat
  BY FS_AddElement, FS_CardinalityType
<1>2. Cardinality(S) < n
  BY <1>1, FS_EmptySet
<1>3. QED
  BY <1>1, <1>2

\* A scan stops behind the whole lines it has read, in the line after them at most.
LEMMA AfterScanInBatch ==
  ASSUME IInv
  PROVE  \A e \in FirstLine .. AfterScan.line :
           e \in Rejected \/ e \in (FirstLine .. WholeLines) \ Rejected
<1>1. AfterScan.line = WholeLines
  BY LineWidthAssumption
     DEF IInv, TypeOK, BufferTypeOK, Position, WholeLines, AfterScan, At
<1>2. QED
  BY <1>1, AfterScanBound

\* An upload passes over the line that the offset was in, and over no other.
LEMMA UploadSkips ==
  ASSUME IInv, SkipInv, shipper = "upload", archive' = Uploaded
  PROVE  \E S : /\ IsFiniteSet(S)
                /\ S = {} \/ Cardinality(S) < batchSeq + 1
                /\ \A e \in 1 .. nextOffset.line :
                     e \in Rejected \/ e \in Archived' \/ e \in S
<1>1. PICK S : /\ IsFiniteSet(S)
               /\ S = {} \/ Cardinality(S) < batchSeq
               /\ \A e \in 1 .. offset.line :
                    e \in Rejected \/ e \in Archived \/ e \in S
  BY DEF SkipInv
<1>2. batchSeq \in Nat /\ offset \in Position /\ nextOffset \in Position
  BY DEF IInv, TypeOK, ShipperTypeOK
<1>3. \A e \in 1 .. nextOffset.line :
        \/ e \in 1 .. offset.line
        \/ offset.part > 0 /\ e = offset.line + 1
        \/ e \in FirstLine .. nextOffset.line
  BY <1>2 DEF Position, FirstLine, FirstLineFrom
<1>4. \A e \in FirstLine .. nextOffset.line : e \in Rejected \/ e \in Archived'
  BY UploadedDef DEF SkipInv
<1>5. \A e \in 1 .. offset.line : e \in Rejected \/ e \in Archived' \/ e \in S
  BY <1>1, UploadKeeps
<1>6. CASE offset.part > 0
  <2>1. batchSeq \in Nat \ {0}
    BY <1>2, <1>6 DEF SkipInv
  <2>2. /\ IsFiniteSet(S \cup {offset.line + 1})
        /\ Cardinality(S \cup {offset.line + 1}) < batchSeq + 1
    BY <1>1, <2>1, OneMore
  <2>3. \A e \in 1 .. nextOffset.line :
          e \in Rejected \/ e \in Archived' \/ e \in S \cup {offset.line + 1}
    BY <1>3, <1>4, <1>5
  <2>4. QED
    BY <2>2, <2>3
<1>7. CASE ~(offset.part > 0)
  <2>1. S = {} \/ Cardinality(S) < batchSeq + 1
    BY <1>1, <1>2, FS_CardinalityType
  <2>2. QED
    BY <1>1, <1>3, <1>4, <1>5, <1>7, <2>1
<1>8. QED
  BY <1>6, <1>7

\* SkipInv is inductive together with IInv.
LEMMA NextSkip ==
  ASSUME IInv, SkipInv, [Next]_vars
  PROVE  SkipInv'
<1>0. Archived \subseteq Archived'
  BY StepKeepsArchive
<1>1. PICK S : /\ IsFiniteSet(S)
               /\ S = {} \/ Cardinality(S) < batchSeq
               /\ \A e \in 1 .. offset.line :
                    e \in Rejected \/ e \in Archived \/ e \in S
  BY DEF SkipInv
<1>2. ASSUME UNCHANGED <<offset, batchSeq>>,
             shipper' # "idle" =>
               \A e \in FirstLine' .. nextOffset'.line : e \in Rejected \/ e \in batch'
      PROVE  SkipInv'
  BY <1>0, <1>1, <1>2 DEF SkipInv
<1>3. CASE UNCHANGED <<offset, batchSeq, shipper, batch, nextOffset>>
  BY <1>2, <1>3 DEF SkipInv, FirstLine, FirstLineFrom
<1>4. CASE Scan
  <2>1. /\ UNCHANGED <<offset, batchSeq, FirstLine>>
        /\ nextOffset' = AfterScan
        /\ batch' = (FirstLine .. WholeLines) \ Rejected
    BY <1>4 DEF Scan, Unshipped, FirstLine, FirstLineFrom
  <2>2. QED
    BY <1>2, <2>1, AfterScanInBatch
<1>5. CASE FlushLogs
  BY <1>2, <1>5 DEF FlushLogs, SkipInv, FirstLine, FirstLineFrom
<1>6. CASE FlushLogsFails \/ UploadFails
  BY <1>2, <1>6 DEF FlushLogsFails, UploadFails, Return
<1>7. CASE Upload
  <2>1. /\ shipper = "upload" /\ archive' = Uploaded
        /\ offset' = nextOffset /\ batchSeq' = batchSeq + 1 /\ shipper' = "idle"
    BY <1>7 DEF Upload, Return
  <2>2. batchSeq' > 0
    BY <2>1 DEF IInv, TypeOK, ShipperTypeOK
  <2>3. QED
    BY <2>1, <2>2, UploadSkips DEF SkipInv
<1>8. CASE Restart
  <2>1. offset'.line = 0 /\ offset'.part = 0 /\ shipper' = "idle"
    BY <1>8 DEF Restart, Return, Start, At
  <2>2. IsFiniteSet({})
    BY FS_EmptySet
  <2>3. QED
    BY <2>1, <2>2 DEF SkipInv
<1>9. QED
  BY <1>3, <1>4, <1>5, <1>6, <1>7, <1>8
     DEF Next, ShipperNext, ScanFails, vars, shipperVars

\* SkipInv holds initially.
LEMMA InitSkip == Init => SkipInv
BY FS_EmptySet DEF Init, ShipperInit, Start, At, SkipInv

\* The set in SkipInv covers what was passed over.
LEMMA SkipsCounted ==
  ASSUME IInv, SkipInv
  PROVE  OneSkipPerObject
<1> SUFFICES ASSUME Skipped # {} PROVE Cardinality(Skipped) < batchSeq
  BY DEF OneSkipPerObject
<1>1. PICK S : /\ IsFiniteSet(S)
               /\ S = {} \/ Cardinality(S) < batchSeq
               /\ \A e \in 1 .. offset.line :
                    e \in Rejected \/ e \in Archived \/ e \in S
  BY DEF SkipInv
<1>2. Skipped \subseteq S /\ S # {}
  BY <1>1 DEF Skipped
<1>3. /\ Cardinality(Skipped) <= Cardinality(S)
      /\ Cardinality(S) \in Nat /\ Cardinality(Skipped) \in Nat
  BY <1>1, <1>2, FS_Subset, FS_CardinalityType
<1>4. batchSeq \in Nat
  BY DEF IInv, TypeOK, ShipperTypeOK
<1>5. QED
  BY <1>1, <1>2, <1>3, <1>4

\* Whatever a reader sees of a write, and however often an upload is repeated, every
\* object after the first passes over at most one event.
THEOREM SkipsAreFew == Spec => []OneSkipPerObject
<1>1. IInv /\ SkipInv /\ [Next]_vars => SkipInv'
  BY NextSkip
<1>2. IInv /\ SkipInv => OneSkipPerObject
  BY SkipsCounted
<1>3. QED
  BY <1>1, <1>2, InitSkip, Invariance, PTL DEF Spec

-----------------------------------------------------------------------------
(* What a closed buffer leaves *)

\* Between two flushes the file holds exactly what is no longer pending, and after
\* close() everything.
FlushedInv ==
  /\ engine = "running" => file = At(recorded - pending, 0)
  /\ engine = "closed" => file = At(recorded, 0)

\* Every step keeps the file and _pending in step.
LEMMA NextFlushed == IInv /\ FlushedInv /\ [Next]_vars => FlushedInv'
<1> SUFFICES ASSUME IInv, FlushedInv, [Next]_vars PROVE FlushedInv'
  OBVIOUS
<1>1. recorded \in Nat /\ pending \in Nat
  BY EventLogBufferAssumption DEF IInv, TypeOK, BufferTypeOK
<1>2. CASE Record
  <2>1. recorded' - pending' = recorded - pending
    BY <1>1, <1>2 DEF Record
  <2>2. QED
    BY <1>2, <2>1 DEF Record, FlushedInv
<1>3. CASE Close
  <2>1. pending = 0 => recorded - pending = recorded
    BY <1>1
  <2>2. QED
    BY <1>3, <2>1 DEF Close, FlushedInv
<1>4. CASE EndFlush
  <2>1. recorded' - pending' = recorded
    BY <1>1, <1>4 DEF EndFlush
  <2>2. QED
    BY <1>4, <2>1 DEF EndFlush, FlushedInv
<1>5. CASE Write \/ Crash
  BY <1>5 DEF Write, Flushing, Crash, FlushedInv
<1>6. CASE UNCHANGED bufferVars
  BY <1>6 DEF bufferVars, FlushedInv
<1>7. QED
  BY <1>2, <1>3, <1>4, <1>5, <1>6 DEF Next, BufferNext, vars

\* A shipper that has nothing left to ship from a closed buffer has archived it, as
\* long as a reader sees writes end where the text layer ends them.
THEOREM QuietPipelineIsDone ==
  ASSUME ~TornVisible
  PROVE  Spec => []QuietMeansArchived
<1>1. Init => FlushedInv
  BY DEF Init, BufferInit, FlushedInv, Start, At
<1>2. IInv /\ WholeInv /\ [Next]_vars => WholeInv'
  BY NextWhole
<1>3. IInv /\ WholeInv /\ FlushedInv => QuietMeansArchived
  <2> SUFFICES ASSUME IInv, WholeInv, FlushedInv,
                      engine = "closed", shipper = "idle", Unshipped = {},
                      NEW e \in (1 .. recorded) \ Rejected
               PROVE  e \in Archived
    BY DEF QuietMeansArchived
  <2>1. WholeLines = recorded
    BY LineWidthAssumption DEF FlushedInv, WholeLines, At
  <2>2. /\ FirstLine = offset.line + 1
        /\ offset.line \in Nat /\ recorded \in Nat
    BY EventLogBufferAssumption
       DEF WholeInv, FirstLine, FirstLineFrom, IInv, TypeOK, BufferTypeOK, ShipperTypeOK,
           Position
  <2>3. e \notin FirstLine .. WholeLines
    BY DEF Unshipped
  <2>4. e \in 1 .. offset.line
    BY <2>1, <2>2, <2>3
  <2>5. QED
    BY <2>4 DEF WholeInv, NothingSkipped
<1>4. QED
  BY <1>1, <1>2, <1>3, NextFlushed, InitWhole, Invariance, PTL DEF Spec

-----------------------------------------------------------------------------
(* The order of the archive while the shipper is not restarted *)

\* Objects that are closed hold what lies before the offset; the object under
\* the current name, left by an upload that reported an error, holds what lies
\* behind it.
OrderInv ==
  /\ restarts = 0 =>
       \A obj \in archive :
         /\ obj.seq <= batchSeq
         /\ \A e \in obj.events :
              IF obj.seq < batchSeq THEN e < FirstLine ELSE FirstLine <= e
  /\ ArchiveIsOrdered

\* The objects that an upload leaves are in order, and lie before the position
\* the offset moves to.
LEMMA UploadedOrdered ==
  ASSUME IInv, OrderInv, restarts = 0, shipper = "upload", archive' = Uploaded
  PROVE  /\ ArchiveIsOrdered'
         /\ \A obj \in archive' :
              /\ obj.seq <= batchSeq
              /\ \A e \in obj.events :
                   /\ IF obj.seq < batchSeq THEN e < FirstLine ELSE FirstLine <= e
                   /\ e < FirstLineFrom(nextOffset)
<1> DEFINE new == [seq |-> batchSeq, events |-> batch]
<1>1. \A obj \in archive' : obj = new \/ (obj \in archive /\ obj.seq # batchSeq)
  BY DEF Uploaded
<1>2. new.seq = batchSeq /\ new.events = batch
  OBVIOUS
<1> HIDE DEF new
<1>3. batchSeq \in Nat /\ \A obj \in archive : obj.seq \in Nat /\ obj.events \subseteq Nat
  BY DEF IInv, TypeOK, ShipperTypeOK, Object
<1>4. FirstLine \in Nat /\ FirstLineFrom(nextOffset) \in Nat /\ batch \subseteq Nat
  BY DEF IInv, TypeOK, ShipperTypeOK, Position, FirstLine, FirstLineFrom
<1>5. \A e \in batch : FirstLine <= e /\ e < FirstLineFrom(nextOffset)
  BY DEF IInv, BatchInv
<1>6. FirstLine <= FirstLineFrom(nextOffset)
  <2>1. PICK e \in batch : TRUE
    BY DEF IInv, BatchInv
  <2>2. QED
    BY <2>1, <1>4, <1>5
<1>7. \A obj \in archive : obj.seq # batchSeq =>
        obj.seq < batchSeq /\ \A e \in obj.events : e < FirstLine
  BY <1>3 DEF OrderInv
<1>8. \A obj \in archive' :
        /\ obj.seq <= batchSeq
        /\ \A e \in obj.events :
             /\ IF obj.seq < batchSeq THEN e < FirstLine ELSE FirstLine <= e
             /\ e < FirstLineFrom(nextOffset)
  <2> SUFFICES ASSUME NEW obj \in archive'
               PROVE  /\ obj.seq <= batchSeq
                      /\ \A e \in obj.events :
                           /\ IF obj.seq < batchSeq THEN e < FirstLine ELSE FirstLine <= e
                           /\ e < FirstLineFrom(nextOffset)
    OBVIOUS
  <2>1. CASE obj = new
    <3>1. obj.seq = batchSeq /\ obj.events = batch
      BY <2>1, <1>2
    <3>2. obj.seq <= batchSeq /\ ~(obj.seq < batchSeq)
      BY <3>1, <1>3
    <3>3. QED
      BY <3>1, <3>2, <1>5
  <2>2. CASE obj \in archive /\ obj.seq # batchSeq
    <3>1. obj.seq \in Nat /\ obj.seq < batchSeq /\ obj.events \subseteq Nat
      BY <2>2, <1>3, <1>7
    <3>2. \A e \in obj.events : e \in Nat /\ e < FirstLine
      BY <2>2, <3>1, <1>7
    <3>3. QED
      BY <3>1, <3>2, <1>3, <1>4, <1>6
  <2>3. QED
    BY <2>1, <2>2, <1>1
<1>9. ASSUME NEW a \in archive', NEW b \in archive', a.seq < b.seq,
             NEW e \in a.events, NEW f \in b.events
      PROVE  e < f
  <2>1. a \in archive /\ a.seq < batchSeq
    <3>1. a.seq # batchSeq
      <4>1. b.seq = batchSeq \/ (b.seq < batchSeq /\ b.seq \in Nat)
        BY <1>1, <1>2, <1>3, <1>7
      <4>2. QED
        BY <4>1, <1>3, <1>9
    <3>2. a # new
      BY <3>1, <1>2
    <3>3. QED
      BY <3>1, <3>2, <1>1, <1>7
  <2>2. CASE b = new
    <3>1. f \in batch
      BY <2>2, <1>2
    <3>2. FirstLine <= f /\ f \in Nat
      BY <3>1, <1>4, <1>5
    <3>3. e < FirstLine /\ e \in Nat
      BY <2>1, <1>3, <1>7
    <3>4. QED
      BY <3>2, <3>3, <1>4
  <2>3. CASE b \in archive
    BY <2>1, <2>3, <1>9 DEF OrderInv, ArchiveIsOrdered
  <2>4. QED
    BY <1>1, <2>2, <2>3
<1>10. QED
  BY <1>8, <1>9 DEF ArchiveIsOrdered

\* Every step preserves OrderInv; a restart gives up the order.
LEMMA NextOrder ==
  ASSUME IInv, OrderInv, [Next]_vars
  PROVE  OrderInv'
<1> SUFFICES ASSUME restarts' = 0 PROVE OrderInv'
  BY DEF OrderInv, ArchiveIsOrdered
<1>0. ~Restart /\ restarts = 0
  <2>1. restarts \in Nat
    BY DEF IInv, TypeOK, ShipperTypeOK
  <2>2. ~Restart
    BY <2>1 DEF Restart
  <2>3. QED
    BY <2>2 DEF Next, ShipperNext, Scan, ScanFails, FlushLogs, FlushLogsFails, Upload, UploadFails,
       vars, shipperVars
<1>1. CASE UNCHANGED <<archive, batchSeq, offset, restarts>>
  BY <1>1 DEF OrderInv, ArchiveIsOrdered, FirstLine, FirstLineFrom
<1>2. CASE Upload
  <2>1. /\ shipper = "upload" /\ archive' = Uploaded
        /\ offset' = nextOffset /\ batchSeq' = batchSeq + 1
        /\ restarts' = restarts
    BY <1>2 DEF Upload
  <2>2. FirstLine' = FirstLineFrom(nextOffset)
    BY <2>1 DEF FirstLine, FirstLineFrom
  <2>3. archive' \subseteq Object /\ batchSeq \in Nat
    <3>1. [seq |-> batchSeq, events |-> batch] \in Object
      BY DEF IInv, TypeOK, ShipperTypeOK, Object
    <3>2. QED
      BY <3>1, <2>1 DEF Uploaded, IInv, TypeOK, ShipperTypeOK
  <2>4. \A obj \in archive' : obj.seq \in Nat
    BY <2>3 DEF Object
  <2>5. \A obj \in archive' : obj.seq <= batchSeq' /\ obj.seq < batchSeq'
    BY <1>0, <2>1, <2>3, <2>4, UploadedOrdered
  <2>6. QED
    BY <1>0, <2>1, <2>2, <2>5, UploadedOrdered DEF OrderInv
<1>3. CASE UploadFails /\ archive' = Uploaded
  <2>1. shipper = "upload" /\ UNCHANGED <<offset, batchSeq, restarts, FirstLine>>
    BY <1>3 DEF UploadFails, FirstLine, FirstLineFrom
  <2>2. QED
    BY <1>0, <1>3, <2>1, UploadedOrdered DEF OrderInv
<1>4. QED
  BY <1>0, <1>1, <1>2, <1>3
     DEF Next, ShipperNext, Scan, ScanFails, FlushLogs, FlushLogsFails, UploadFails, vars,
         shipperVars

\* While the shipper is not restarted, every event is in at most one object and
\* the objects are in the order of their names, whichever uploads are repeated.
THEOREM ArchiveStaysOrdered == Spec => []ArchiveIsOrdered
<1>1. Init => OrderInv
  BY DEF Init, ShipperInit, OrderInv, ArchiveIsOrdered
<1>2. IInv /\ OrderInv /\ [Next]_vars => OrderInv'
  BY NextOrder
<1>3. OrderInv => ArchiveIsOrdered
  BY DEF OrderInv
<1>4. QED
  BY <1>1, <1>2, <1>3, Invariance, PTL DEF Spec
-----------------------------------------------------------------------------
(* The pipeline implements the durable log *)

\* The archive is complete up to some event, and so is the batch in memory from
\* the offset on.
PrefixInv ==
  /\ \E n \in 0 .. WholeLines : Archived = (1 .. n) \ Rejected
  /\ shipper # "idle" =>
       \E n \in 0 .. WholeLines : batch = (FirstLine .. n) \ Rejected

\* Before the first event, nothing is archived.
LEMMA InitEmpty == Init => PrefixInv /\ Archived = {}
<1> SUFFICES ASSUME Init PROVE PrefixInv /\ Archived = {}
  OBVIOUS
<1>1. WholeLines = 0 /\ Archived = {} /\ shipper = "idle"
  BY LineWidthAssumption
     DEF Init, BufferInit, ShipperInit, Start, At, WholeLines, Archived
<1>2. \A S : (1 .. 0) \ S = {}
  OBVIOUS
<1>3. QED
  BY <1>1, <1>2 DEF PrefixInv

\* An upload completes the archive up to the end of the batch, although it may
\* replace an object that held more than the batch's first events.
LEMMA UploadedPrefix ==
  ASSUME IInv, WholeInv, PrefixInv, shipper = "upload", archive' = Uploaded
  PROVE  \E n \in 0 .. WholeLines : Archived' = (1 .. n) \ Rejected
<1>1. PICK n \in 0 .. WholeLines : batch = (FirstLine .. n) \ Rejected
  BY DEF PrefixInv
<1>2. /\ WholeLines \in Nat /\ n \in Nat
      /\ offset.line \in Nat /\ FirstLine = offset.line + 1
  BY <1>1, AfterScanBound DEF IInv, TypeOK, ShipperTypeOK, Position, WholeInv, FirstLine,
     FirstLineFrom
<1>3. FirstLine <= n
  <2>1. PICK e \in batch : TRUE
    BY DEF IInv, BatchInv
  <2>2. QED
    BY <2>1, <1>1, <1>2
<1>4. ASSUME NEW e \in Archived'
      PROVE  e \in (1 .. n) \ Rejected
  <2>1. CASE e \in batch
    BY <2>1, <1>1, <1>2
  <2>2. CASE e \in Archived /\ e \notin batch
    <3>1. e \in Nat /\ 1 <= e /\ e \notin Rejected /\ ~(FirstLine <= e)
      BY <2>2 DEF IInv, TypeOK, ShipperTypeOK, Archived, Object, ArchiveInv, BatchInv
    <3>2. QED
      BY <3>1, <1>2, <1>3
  <2>3. QED
    BY <2>1, <2>2, <1>4, UploadedDef, ArchivedDef
<1>5. ASSUME NEW e \in (1 .. n) \ Rejected
      PROVE  e \in Archived'
  <2>1. CASE FirstLine <= e
    <3>1. e \in batch
      BY <2>1, <1>1, <1>2
    <3>2. QED
      BY <3>1, UploadedDef
  <2>2. CASE ~(FirstLine <= e)
    <3>1. e \in 1 .. offset.line
      BY <2>2, <1>2
    <3>2. e \in Archived
      BY <3>1 DEF WholeInv, NothingSkipped
    <3>3. QED
      BY <3>2, UploadKeeps
  <2>3. QED
    BY <2>1, <2>2
<1>6. Archived' = (1 .. n) \ Rejected
  BY <1>4, <1>5
<1>7. QED
  BY <1>6

\* PrefixInv is inductive together with IInv and WholeInv.
LEMMA NextPrefix ==
  ASSUME IInv, WholeInv, PrefixInv, [Next]_vars
  PROVE  PrefixInv'
<1>1. WholeLines \in Nat /\ WholeLines' \in Nat /\ WholeLines <= WholeLines'
  <2>1. CASE BufferNext
    BY <2>1, BufferStep
  <2>2. CASE UNCHANGED file
    BY <2>2, AfterScanBound DEF WholeLines
  <2>3. QED
    BY <2>1, <2>2 DEF Next, vars, bufferVars
<1>2. \A n \in 0 .. WholeLines : n \in 0 .. WholeLines'
  BY <1>1
<1>3. CASE UNCHANGED <<shipper, batch, offset, archive>>
  BY <1>2, <1>3 DEF PrefixInv, Archived, FirstLine, FirstLineFrom
<1>4. CASE Scan /\ UNCHANGED bufferVars
  <2>1. /\ batch' = (FirstLine .. WholeLines) \ Rejected
        /\ UNCHANGED <<FirstLine, Archived, WholeLines>>
    BY <1>4 DEF Scan, Unshipped, FirstLine, FirstLineFrom, Archived, bufferVars, WholeLines
  <2>2. QED
    BY <2>1, <1>1 DEF PrefixInv
<1>5. CASE FlushLogs /\ UNCHANGED bufferVars
  BY <1>2, <1>5 DEF FlushLogs, PrefixInv, Archived, FirstLine, FirstLineFrom
<1>6. CASE shipper' = "idle" /\ UNCHANGED archive
  BY <1>2, <1>6 DEF PrefixInv, Archived
<1>7. CASE shipper' = "idle" /\ shipper = "upload" /\ archive' = Uploaded
  BY <1>2, <1>7, UploadedPrefix DEF PrefixInv
<1>8. QED
  BY <1>3, <1>4, <1>5, <1>6, <1>7
     DEF Next, ShipperNext, ScanFails, FlushLogsFails, Upload, UploadFails, Restart, Return,
         vars, shipperVars

\* Every step of the pipeline is a step of the durable log or leaves it alone.
LEMMA StepImplementsDurableLog ==
  ASSUME IInv, PrefixInv', [Next]_vars
  PROVE  [Durable!Next]_<<WholeLines, Archived>>
<1>0. Archived \subseteq Archived'
  BY StepKeepsArchive
<1>1. CASE BufferNext /\ UNCHANGED shipperVars
  <2>1. UNCHANGED Archived
    BY <1>1 DEF shipperVars, Archived
  <2>2. WholeLines \in Nat /\ WholeLines' \in Nat /\ WholeLines <= WholeLines'
    BY <1>1, BufferStep
  <2>3. QED
    BY <2>1, <2>2 DEF Durable!Next, Durable!Append
<1>2. CASE UNCHANGED file
  <2>1. UNCHANGED WholeLines
    BY <1>2 DEF WholeLines
  <2>2. \E n \in 0 .. WholeLines : Archived' = (1 .. n) \ Rejected
    BY <2>1 DEF PrefixInv
  <2>3. QED
    BY <1>0, <2>1, <2>2 DEF Durable!Next, Durable!Keep
<1>3. QED
  BY <1>1, <1>2 DEF Next, vars, bufferVars

\* As long as a reader sees writes end where the text layer ends them, the
\* buffer, the file and the shipper with all its failures, retries and restarts
\* implement an append-only log with a durable copy.
THEOREM PipelineImplementsDurableLog ==
  ASSUME ~TornVisible
  PROVE  Spec => ImplementsDurableLog
<1>1. Init => Durable!Init
  BY InitEmpty, LineWidthAssumption
     DEF Durable!Init, Init, BufferInit, Start, At, WholeLines
<1>2. IInv /\ WholeInv /\ [Next]_vars => WholeInv'
  BY NextWhole
<1>3. IInv /\ WholeInv /\ PrefixInv /\ [Next]_vars => PrefixInv'
  BY NextPrefix
<1>4. IInv /\ PrefixInv' /\ [Next]_vars => [Durable!Next]_<<WholeLines, Archived>>
  BY StepImplementsDurableLog
<1>5. QED
  BY <1>1, <1>2, <1>3, <1>4, InitEmpty, InitWhole, Invariance, PTL
     DEF Spec, ImplementsDurableLog, Durable!Spec
=============================================================================
