--------------------------- MODULE MCOverflowQueue ---------------------------
(* Instances of OverflowQueue for TLC: a short and a long line.             *)
EXTENDS OverflowQueue, TLC

CONSTANTS short, long

LinesValue == {short, long}
SizeValue == (short :> 2) @@ (long :> 3)

\* Only Drain and its compaction, no Clear.
NextNoClear ==
    \/ Enqueue \/ Save \/ Submit \/ Drain \/ Compact \/ Restart

SpecNoClear == Init /\ [][NextNoClear]_vars
===============================================================================
