------------------------------- MODULE SpillLog -------------------------------
(***************************************************************************)
(* What the overflow queue promises the processor: a log to which lines are *)
(* appended and from which one reader takes them in order, each exactly     *)
(* once as long as the process lives.  A restart may move the reader back   *)
(* (lines are delivered again) but never forward (no line is passed over). *)
(***************************************************************************)
EXTENDS SpillCells

CONSTANT Restarts    \* BOOLEAN: whether the process may be restarted

VARIABLES log,       \* every cell ever written to the queue
          head,      \* how many of them the reader is past
          sent       \* the texts handed downstream, in order

alvars == <<log, head, sent>>

ALInit == log = <<>> /\ head = 0 /\ sent = <<>>

\* A line is stored whole, or a failing write leaves a part of it.
ALAppend ==
    /\ \E l \in Lines : \E n \in 0..Size[l] : log' = log \o SubSeq(Enc(l), 1, n)
    /\ UNCHANGED <<head, sent>>

\* The next line, and no other, is handed downstream or found unreadable.
ALTake ==
    /\ Reads(log, head, head')
    /\ \E d \in Decode(SubSeq(log, head + 1, head')) :
          sent' = IF d = Skip THEN sent ELSE Append(sent, d)
    /\ UNCHANGED log

ALDiscard == head' = Len(log) /\ UNCHANGED <<log, sent>>

ALRestart ==
    /\ Restarts
    /\ head' \in 0..head
    /\ UNCHANGED <<log, sent>>

ALNext == ALAppend \/ ALTake \/ ALDiscard \/ ALRestart

ALSpec == ALInit /\ [][ALNext]_alvars
===============================================================================
