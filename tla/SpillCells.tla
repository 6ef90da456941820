------------------------------ MODULE SpillCells ------------------------------
(***************************************************************************)
(* The contents of overflow.queue.  A log line is base64-encoded and        *)
(* terminated by a newline; here it is a run of Size[l] cells of which the  *)
(* last is the newline.  What one cell stands for (a byte, a base64 group)  *)
(* does not matter: offsets only have to be able to fall between two lines  *)
(* or inside one, and a write only has to be able to stop part of the way.  *)
(***************************************************************************)
EXTENDS Naturals, Sequences, FiniteSets

CONSTANTS Lines,     \* the log lines clients submit
          Size,      \* how many cells the encoded form of a line takes
          Garbage,   \* text that no client submitted
          Skip       \* the outcome of decoding that yields no text

ASSUME SpillCellsAssumption ==
    /\ Size \in [Lines -> Nat \ {0}]
    /\ Garbage \notin Lines
    /\ Skip \notin Lines \cup {Garbage}

Cell == [line : Lines, at : Nat]

\* base64 of the line and the newline; the empty line is the newline alone.
Enc(l) == [i \in 1..Size[l] |-> [line |-> l, at |-> i]]

IsNewline(c) == c.at = Size[c.line]

\* bufio's ReadString('\n') from offset from returns the cells up to offset to:
\* those up to the next newline, or up to end of file when there is none.
Reads(s, from, to) ==
    /\ from < to
    /\ to <= Len(s)
    /\ \A i \in (from + 1)..(to - 1) : ~IsNewline(s[i])
    /\ to < Len(s) => IsNewline(s[to])

\* The newlines that follow offset from.
Newlines(s, from) == {i \in (from + 1)..Len(s) : IsNewline(s[i])}

\* TrimSpace drops the newline.
Trim(raw) ==
    IF raw # <<>> /\ IsNewline(raw[Len(raw)])
    THEN SubSeq(raw, 1, Len(raw) - 1) ELSE raw

\* What decoding a raw line may give.  The encoding of a line gives that line
\* and an empty one is skipped; a piece of a line, or a piece followed by a
\* whole line, is skipped when it is no valid base64 and otherwise decodes to
\* a text nobody wrote.
Decode(raw) ==
    LET body == Trim(raw)
        whole == {l \in Lines : body = Trim(Enc(l))}
    IN IF body = <<>> THEN {Skip}
       ELSE IF whole # {} THEN whole
       ELSE {Garbage, Skip}
===============================================================================
