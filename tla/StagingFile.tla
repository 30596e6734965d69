---------------------------- MODULE StagingFile ----------------------------
(***************************************************************************)
(* The local JSON-lines staging file that the engine's EventLogBuffer      *)
(* appends to and go/cmd/logshipper tails.  The n-th line of the file is   *)
(* the n-th event the engine recorded, so a byte position is a number of   *)
(* whole lines and a number of bytes of the next line: LineWidth bytes are *)
(* the JSON text, and one more is the newline.                             *)
(***************************************************************************)
EXTENDS Integers

CONSTANT LineWidth   \* bytes of the JSON text of a line

ASSUME LineWidthAssumption == LineWidth \in Nat \ {0}

VARIABLE file        \* the end of the file, as a reader sees it

At(n, k) == [line |-> n, part |-> k]

Start == At(0, 0)

Position == [line : Nat, part : 0 .. LineWidth]

Before(p, q) == p.line < q.line \/ (p.line = q.line /\ p.part < q.part)

\* The number of lines whose JSON text is complete, its newline written or not.
WholeLines == IF file.part = LineWidth THEN file.line + 1 ELSE file.line
=============================================================================
