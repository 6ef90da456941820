------------------------- MODULE OverflowQueue_proofs -------------------------
(* Theorems about OverflowQueue, for every value of its constants.          *)
EXTENDS OverflowQueue, DataLemmas, SequenceTheorems, FiniteSetTheorems, TLAPS

USE DEF PCs

LEMMA EncProperties ==
    ASSUME NEW l \in Lines
    PROVE  /\ Size[l] \in Nat /\ Size[l] > 0
           /\ Enc(l) \in Seq(Cell)
           /\ Len(Enc(l)) = Size[l]
           /\ \A i \in 1..Size[l] : Enc(l)[i] = [line |-> l, at |-> i]
  <1>1. Size[l] \in Nat \ {0}
    BY SpillCellsAssumption
  <1>2. \A i \in 1..Size[l] : [line |-> l, at |-> i] \in Cell
    BY <1>1 DEF Cell
  <1>3. Enc(l) \in [1..Size[l] -> Cell]
    BY <1>1, <1>2 DEF Enc
  <1>4. Enc(l) \in Seq(Cell) /\ Len(Enc(l)) = Size[l]
    BY <1>1, <1>3, SeqDef, LenProperties
  <1> QED
    BY <1>1, <1>4 DEF Enc

LEMMA EncPrefix ==
    ASSUME NEW l \in Lines, NEW n \in 0..Size[l]
    PROVE  /\ SubSeq(Enc(l), 1, n) \in Seq(Cell)
           /\ Len(SubSeq(Enc(l), 1, n)) = n
  <1>1. n \in Int /\ 0 <= n /\ n <= Size[l] /\ Size[l] \in Nat
    BY EncProperties
  <1>2. \A i \in 1..n : i \in 1..Len(Enc(l))
    BY <1>1, EncProperties
  <1>3. \A i \in 1..n : Enc(l)[i] \in Cell
    BY <1>2, EncProperties, ElementOfSeq
  <1>4. /\ SubSeq(Enc(l), 1, n) \in Seq(Cell)
        /\ Len(SubSeq(Enc(l), 1, n)) = IF 1 <= n THEN n - 1 + 1 ELSE 0
    BY <1>1, <1>3, SubSeqProperties
  <1> QED
    BY <1>1, <1>4

LEMMA CountIsNat ==
    ASSUME NEW s \in Seq(Cell), NEW from \in Nat
    PROVE  /\ Cardinality(Newlines(s, from)) \in Nat
           /\ CountQueueLines(s, from) \in Nat
  <1>1. Len(s) \in Nat
    BY LenProperties
  <1>2. IsFiniteSet((from + 1)..Len(s))
    BY <1>1, FS_Interval
  <1>3. Newlines(s, from) \subseteq (from + 1)..Len(s)
    BY DEF Newlines
  <1>4. Cardinality(Newlines(s, from)) \in Nat
    BY <1>2, <1>3, FS_Subset, FS_CardinalityType
  <1> QED
    BY <1>4 DEF CountQueueLines

LEMMA WriteTyped ==
    ASSUME file \in Seq(Cell), log \in Seq(Cell), NEW cells \in Seq(Cell), Write(cells)
    PROVE  file' \in Seq(Cell) /\ log' \in Seq(Cell)
  BY ConcatProperties DEF Write

LEMMA StatsTyped ==
    /\ ZeroStats \in Stats
    /\ \A s \in Stats : /\ [s EXCEPT !.enqueued = @ + 1] \in Stats
                        /\ [s EXCEPT !.dropped = @ + 1] \in Stats
                        /\ [s EXCEPT !.writeErr = @ + 1] \in Stats
                        /\ [s EXCEPT !.dropped = @ + 1, !.writeErr = @ + 1] \in Stats
                        /\ \A n \in Nat : [s EXCEPT !.recovered = @ + n] \in Stats
  <1>1. ZeroStats \in Stats
    BY DEF ZeroStats, Stats
  <1>2. \A s \in Stats : [s EXCEPT !.enqueued = @ + 1] \in Stats
    BY DEF Stats
  <1>3. \A s \in Stats : [s EXCEPT !.dropped = @ + 1] \in Stats
    BY DEF Stats
  <1>4. \A s \in Stats : [s EXCEPT !.writeErr = @ + 1] \in Stats
    BY DEF Stats
  <1>5. ASSUME NEW s \in Stats
        PROVE  [s EXCEPT !.dropped = @ + 1, !.writeErr = @ + 1] \in Stats
    <2>1. [[s EXCEPT !.dropped = @ + 1] EXCEPT !.writeErr = @ + 1] \in Stats
      BY <1>3, <1>4
    <2>2. [s EXCEPT !.dropped = @ + 1, !.writeErr = @ + 1] =
             [[s EXCEPT !.dropped = @ + 1] EXCEPT !.writeErr = @ + 1]
      OBVIOUS
    <2> QED
      BY <2>1, <2>2
  <1>6. \A s \in Stats, n \in Nat : [s EXCEPT !.recovered = @ + n] \in Stats
    BY DEF Stats
  <1> QED
    BY <1>1, <1>2, <1>3, <1>4, <1>5, <1>6

LEMMA DrainTyped ==
    /\ NoDrain \in DrainLocals
    /\ \A n \in Nat : [NoDrain EXCEPT !.size = n] \in DrainLocals
    /\ \A d \in DrainLocals : /\ [d EXCEPT !.drained = @ + 1] \in DrainLocals
                             /\ [d EXCEPT !.skipped = @ + 1] \in DrainLocals
                             /\ d.drained \in Nat /\ d.skipped \in Nat /\ d.size \in Nat
  BY DEF NoDrain, DrainLocals

LEMMA RemovedTyped ==
    ASSUME drain \in DrainLocals
    PROVE  Removed \in Nat /\ drain.drained \in Nat /\ drain.skipped \in Nat
  BY DEF Removed, DrainLocals

LEMMA BoundsTyped ==
    ASSUME TypeOK
    PROVE  /\ Call => calls' \in 0..MaxCalls
           /\ \A kind : Fault(kind) => faults' \in [count : 0..MaxFaults, kinds : SUBSET Faults]
  BY OverflowQueueAssumption DEF Call, Fault, TypeOK

LEMMA FaultRecorded ==
    ASSUME NEW kind, Fault(kind)
    PROVE  kind \in Faults /\ ~Without(kind)'
  BY DEF Fault, Without

\* A kind of fault that a step leaves out had not happened before it.
LEMMA WithoutBefore ==
    ASSUME NEW kind, [Next]_vars, Without(kind)'
    PROVE  Without(kind)
  <1>1. CASE UNCHANGED faults
    BY <1>1 DEF Without
  <1>2. ASSUME NEW k, Fault(k) PROVE Without(kind)
    BY <1>2 DEF Fault, Without
  <1>3. CASE Enqueue
    BY <1>1, <1>2, <1>3 DEF Enqueue, EnqueueStored, EnqueueFull, EnqueueFails
  <1>4. CASE Save
    BY <1>1, <1>2, <1>4 DEF Save, SaveOpen, SaveWrite, SaveFails
  <1>5. CASE Submit
    BY <1>1, <1>5 DEF Submit, SubmitLine
  <1>6. CASE Drain
    BY <1>1, <1>2, <1>6 DEF Drain, DrainBegin, DrainEnds, DrainFails, Account, SkipLine, RefuseLine
  <1>7. CASE Compact
    BY <1>1, <1>2, <1>7 DEF Compact, CompactTruncate, CompactCopy, CompactRename, CompactFails
  <1>8. CASE Clear \/ ClearFails \/ Restart
    BY <1>1, <1>2, <1>8 DEF Clear, ClearFails, Restart
  <1>9. CASE (\E m \in Limits : SetMaxDiskMB(m)) \/ UNCHANGED vars
    BY <1>1, <1>9 DEF SetMaxDiskMB, vars
  <1> QED
    BY <1>3, <1>4, <1>5, <1>6, <1>7, <1>8, <1>9 DEF Next

LEMMA FaultsAllowed ==
    ASSUME TypeOK, NEW kind, kind \notin Faults
    PROVE  Without(kind)
  BY DEF TypeOK, Without

LEMMA UnreadProperties ==
    ASSUME file \in Seq(Cell), readOffset \in Nat
    PROVE  /\ Unread \in Seq(Cell)
           /\ readOffset <= Len(file) => Len(Unread) = Len(file) - readOffset
           /\ \A i \in 1..(Len(file) - readOffset) : Unread[i] = file[readOffset + i]
  <1>1. Len(file) \in Nat
    BY LenProperties
  <1>2. \A i \in (readOffset + 1)..Len(file) : file[i] \in Cell
    BY <1>1, ElementOfSeq
  <1>3. /\ SubSeq(file, readOffset + 1, Len(file)) \in Seq(Cell)
        /\ Len(SubSeq(file, readOffset + 1, Len(file))) =
              IF readOffset + 1 <= Len(file) THEN Len(file) - (readOffset + 1) + 1 ELSE 0
        /\ \A i \in 1..(Len(file) - (readOffset + 1) + 1) :
              SubSeq(file, readOffset + 1, Len(file))[i] = file[(readOffset + 1) + i - 1]
    BY <1>1, <1>2, SubSeqProperties
  <1>4. \A i \in 1..(Len(file) - readOffset) :
           /\ i \in 1..(Len(file) - (readOffset + 1) + 1)
           /\ (readOffset + 1) + i - 1 = readOffset + i
    BY <1>1
  <1> QED
    BY <1>1, <1>3, <1>4 DEF Unread

-------------------------------------------------------------------------------
\* Types

LEMMA InitTypeOK == Init => TypeOK
  <1> SUFFICES ASSUME Init PROVE TypeOK
    OBVIOUS
  <1>1. stats \in Stats /\ drain \in DrainLocals
    BY StatsTyped, DrainTyped DEF Init
  <1>2. <<>> \in Seq(Cell) /\ <<>> \in Seq(Lines \cup {Garbage})
    BY EmptySeq
  <1>3. /\ calls \in 0..MaxCalls
        /\ faults \in [count : 0..MaxFaults, kinds : SUBSET Faults]
    BY OverflowQueueAssumption DEF Init
  <1> QED
    BY <1>1, <1>2, <1>3 DEF Init, TypeOK

LEMMA NextTypeOK == TypeOK /\ [Next]_vars => TypeOK'
  <1> SUFFICES ASSUME TypeOK, [Next]_vars PROVE TypeOK'
    OBVIOUS
  <1> USE BoundsTyped DEF TypeOK
  <1>a. Len(file) \in Nat
    BY LenProperties
  <1>b. Removed \in Nat /\ drain.drained \in Nat
    BY RemovedTyped
  <1>1. ASSUME NEW m \in Limits, SetMaxDiskMB(m) PROVE TypeOK'
    BY <1>1 DEF SetMaxDiskMB, disk, history
  <1>2. ASSUME NEW l \in Lines, EnqueueStored(l) PROVE TypeOK'
    <2>1. file' \in Seq(Cell) /\ log' \in Seq(Cell)
      BY <1>2, EncProperties, WriteTyped DEF EnqueueStored
    <2>2. stats' \in Stats
      BY <1>2, StatsTyped DEF EnqueueStored
    <2>3. pending' \in Nat
      BY <1>2 DEF EnqueueStored
    <2> QED
      BY <1>2, <2>1, <2>2, <2>3 DEF EnqueueStored
  <1>3. ASSUME NEW l \in Lines, EnqueueFull(l) PROVE TypeOK'
    <2>1. stats' \in Stats
      BY <1>3, StatsTyped DEF EnqueueFull
    <2> QED
      BY <1>3, <2>1 DEF EnqueueFull, disk, history
  <1>4. ASSUME NEW l \in Lines, EnqueueFails(l) PROVE TypeOK'
    <2>1. file' \in Seq(Cell) /\ log' \in Seq(Cell)
      <3>1. PICK n \in 0..(Size[l] - 1) : Write(SubSeq(Enc(l), 1, n))
        BY <1>4 DEF EnqueueFails
      <3>2. Size[l] \in Nat
        BY EncProperties
      <3>3. n \in 0..Size[l]
        BY <3>2
      <3> QED
        BY <3>1, <3>3, EncPrefix, WriteTyped
    <2>2. stats' \in Stats
      BY <1>4, StatsTyped DEF EnqueueFails
    <2> QED
      BY <1>4, <2>1, <2>2 DEF EnqueueFails
  <1>5. CASE SaveOpen
    BY <1>5 DEF SaveOpen, memory, history
  <1>6. CASE SaveWrite
    BY <1>6 DEF SaveWrite, memory, history
  <1>7. CASE SaveFails
    <2>1. stats' \in Stats
      BY <1>7, StatsTyped DEF SaveFails
    <2> QED
      BY <1>7, <2>1 DEF SaveFails, disk, history
  <1>8. ASSUME NEW to \in 1..Len(file), NEW text \in Lines \cup {Garbage},
               SubmitLine(to, text)
        PROVE  TypeOK'
    <2>1. sent' \in Seq(Lines \cup {Garbage})
      BY <1>8, AppendProperties DEF SubmitLine
    <2>2. drain' \in DrainLocals
      BY <1>8, DrainTyped DEF SubmitLine
    <2>3. readOffset' \in Nat
      BY <1>8, <1>a DEF SubmitLine
    <2> QED
      BY <1>8, <2>1, <2>2, <2>3 DEF SubmitLine, disk
  <1>9. CASE DrainBegin
    <2>1. drain' \in DrainLocals
      BY <1>9, <1>a, DrainTyped DEF DrainBegin
    <2>2. readOffset' \in Nat /\ pending' \in Nat /\ pc' \in PCs
          /\ ret' \in {"idle", "read", "account"}
      BY <1>9 DEF DrainBegin
    <2> QED
      BY <1>9, <2>1, <2>2 DEF DrainBegin, disk, history
  <1>10. CASE DrainEnds
    BY <1>10 DEF DrainEnds, LeaveLoop, disk, memory, history
  <1>11. CASE DrainFails
    <2>1. stats' \in Stats
      BY <1>11, StatsTyped DEF DrainFails
    <2> QED
      BY <1>11, <2>1 DEF DrainFails, LeaveLoop, disk, history
  <1>12. CASE Account
    <2>1. PendingAfterDrain \in Nat
      <3> HIDE DEF TypeOK
      <3>1. pending \in Nat
        BY DEF TypeOK
      <3> QED
        BY <3>1, <1>b DEF PendingAfterDrain
    <2>2. stats' \in Stats
      BY <1>12, <1>b, StatsTyped DEF Account
    <2> QED
      BY <1>12, <2>1, <2>2, DrainTyped DEF Account, disk, history
  <1>13. ASSUME NEW to \in 1..Len(file), SkipLine(to) PROVE TypeOK'
    <2>1. drain' \in DrainLocals
      BY <1>13, DrainTyped DEF SkipLine
    <2>2. readOffset' \in Nat
      BY <1>13, <1>a DEF SkipLine
    <2>3. stats' \in Stats
      BY <1>13, StatsTyped DEF SkipLine
    <2> QED
      BY <1>13, <2>1, <2>2, <2>3 DEF SkipLine, disk, history
  <1>14. ASSUME NEW to \in 1..Len(file), RefuseLine(to) PROVE TypeOK'
    BY <1>14 DEF RefuseLine, OffsetAfterRefusal, LeaveLoop, disk, memory, history
  <1>15. CASE CompactTruncate
    BY <1>15, EmptySeq DEF CompactTruncate, history
  <1>16. CASE CompactCopy
    BY <1>16, UnreadProperties DEF CompactCopy, memory, history
  <1>17. CASE CompactRename
    BY <1>17, EmptySeq DEF CompactRename, history
  <1>18. CASE CompactFails
    <2>1. stats' \in Stats
      BY <1>18, StatsTyped DEF CompactFails
    <2> QED
      BY <1>18, <2>1, EmptySeq DEF CompactFails, history
  <1>19. CASE Clear
    <2>1. cleared' \in Nat
      <3>1. Cardinality(Newlines(file, readOffset)) \in Nat
        BY CountIsNat
      <3> QED
        BY <1>19, <3>1 DEF Clear
    <2> QED
      BY <1>19, <2>1, EmptySeq DEF Clear
  <1>20. CASE ClearFails
    <2>1. stats' \in Stats
      BY <1>20, StatsTyped DEF ClearFails
    <2> QED
      BY <1>20, <2>1 DEF ClearFails, disk, history
  <1>21. CASE Restart
    <2>1. RestartOffset \in Nat
      BY DEF RestartOffset
    <2> QED
      BY <1>21, <2>1, CountIsNat, StatsTyped, DrainTyped DEF Restart, disk, history
  <1>22. CASE UNCHANGED vars
    BY <1>22 DEF vars, disk, memory, history
  <1> QED
    BY <1>1, <1>2, <1>3, <1>4, <1>5, <1>6, <1>7, <1>8, <1>9, <1>10, <1>11, <1>12,
       <1>13, <1>14, <1>15, <1>16, <1>17, <1>18, <1>19, <1>20, <1>21, <1>22
    DEF Next, Enqueue, Save, Submit, Drain, Compact

\* Whatever faults the environment causes, every variable keeps its type: no
\* offset and no pending count is ever below zero.
THEOREM TypeCorrect == Spec => []TypeOK
  BY InitTypeOK, NextTypeOK, PTL DEF Spec

-------------------------------------------------------------------------------
\* Crash safety.  Restarts, torn writes and other I/O errors may strike at any
\* step; the claim holds until a save of overflow.offset fails.

LEMMA WriteKeepsFileInv ==
    ASSUME file \in Seq(Cell), log \in Seq(Cell), readOffset \in Nat, FileInv,
           NEW cells \in Seq(Cell), Write(cells), readOffset' = readOffset
    PROVE  FileInv'
  <1>1. /\ Len(file) \in Nat /\ Len(log) \in Nat /\ Len(cells) \in Nat
        /\ Len(file') = Len(file) + Len(cells)
        /\ Len(log') = Len(log) + Len(cells)
    BY LenProperties, ConcatProperties DEF Write
  <1>2. ASSUME NEW i \in 1..Len(file')
        PROVE  file'[i] = log'[Len(log') - Len(file') + i]
    <2>1. Len(log') - Len(file') + i = Len(log) - Len(file) + i
      BY <1>1
    <2>2. CASE i <= Len(file)
      <3>1. file'[i] = file[i]
        BY <1>1, <2>2, ConcatProperties DEF Write
      <3>2. /\ Len(log) - Len(file) + i \in 1..(Len(log) + Len(cells))
            /\ Len(log) - Len(file) + i <= Len(log)
        BY <1>1, <2>2 DEF FileInv
      <3>3. log'[Len(log) - Len(file) + i] = log[Len(log) - Len(file) + i]
        BY <3>2, ConcatProperties DEF Write
      <3> QED
        BY <1>1, <2>1, <2>2, <3>1, <3>3 DEF FileInv
    <2>3. CASE i > Len(file)
      <3>1. file'[i] = cells[i - Len(file)]
        BY <1>1, <2>3, ConcatProperties DEF Write
      <3>2. /\ Len(log) - Len(file) + i \in 1..(Len(log) + Len(cells))
            /\ Len(log) - Len(file) + i > Len(log)
            /\ (Len(log) - Len(file) + i) - Len(log) = i - Len(file)
        BY <1>1, <2>3 DEF FileInv
      <3>3. log'[Len(log) - Len(file) + i] = cells[i - Len(file)]
        BY <1>1, <3>2, ConcatProperties DEF Write
      <3> QED
        BY <2>1, <3>1, <3>3
    <2> QED
      BY <1>1, <2>2, <2>3
  <1> QED
    BY <1>1, <1>2 DEF FileInv

LEMMA EmptyKeepsFileInv ==
    ASSUME log' \in Seq(Cell), file' = <<>>, readOffset' = 0
    PROVE  FileInv'
  BY LenProperties, EmptySeq DEF FileInv

LEMMA AdvanceKeepsFileInv ==
    ASSUME FileInv, UNCHANGED <<file, log>>, readOffset' <= Len(file)
    PROVE  FileInv'
  BY DEF FileInv

\* The compacted file is a suffix of the log as the whole file was.
LEMMA RenameKeepsFileInv ==
    ASSUME file \in Seq(Cell), log \in Seq(Cell), readOffset \in Nat, FileInv,
           file' = Unread, log' = log, readOffset' = 0
    PROVE  FileInv' /\ Len(file') = Len(file) - readOffset
  <1>1. Len(file) \in Nat /\ Len(log) \in Nat /\ Len(file') = Len(file) - readOffset
    BY LenProperties, UnreadProperties DEF FileInv
  <1>2. ASSUME NEW i \in 1..Len(file')
        PROVE  file'[i] = log'[Len(log') - Len(file') + i]
    <2>1. i \in 1..(Len(file) - readOffset)
      BY <1>1
    <2>2. file'[i] = file[readOffset + i]
      BY <2>1, UnreadProperties
    <2>3. readOffset + i \in 1..Len(file)
      BY <1>1, <2>1
    <2>4. Len(log') - Len(file') + i = Len(log) - Len(file) + (readOffset + i)
      BY <1>1, <2>1
    <2> QED
      BY <2>2, <2>3, <2>4 DEF FileInv
  <1>3. Len(file') <= Len(log')
    BY <1>1 DEF FileInv
  <1> QED
    BY <1>1, <1>2, <1>3 DEF FileInv

LEMMA InitIInv == Init => IInv
  <1> SUFFICES ASSUME Init PROVE IInv
    OBVIOUS
  <1>1. Len(file) = 0 /\ Len(log) = 0
    BY EmptySeq DEF Init
  <1>2. FileInv
    BY <1>1 DEF Init, FileInv
  <1>3. OffsetInv /\ CompactInv
    BY DEF Init, OffsetInv, CompactInv
  <1> QED
    BY <1>2, <1>3, InitTypeOK DEF IInv

\* Where the reader is in the file, whatever faults the environment causes: a
\* restart alone may move it back, but never out of the file.
ReturnInv == pc \in {"save", "write"} => /\ ret # "read"
                                         /\ ret = "idle" => readOffset = 0

Position == TypeOK /\ FileInv /\ CompactInv /\ ReturnInv

LEMMA InitPosition == Init => Position
  <1> SUFFICES ASSUME Init PROVE Position
    OBVIOUS
  <1>1. Len(file) = 0 /\ Len(log) = 0
    BY EmptySeq DEF Init
  <1> QED
    BY <1>1, InitTypeOK DEF Init, Position, FileInv, CompactInv, ReturnInv

LEMMA NextPosition == Position /\ [Next]_vars => Position'
  <1> SUFFICES ASSUME Position, [Next]_vars PROVE FileInv' /\ CompactInv' /\ ReturnInv'
    BY NextTypeOK DEF Position
  <1>a. /\ TypeOK /\ FileInv /\ CompactInv /\ ReturnInv
        /\ file \in Seq(Cell) /\ tmp \in Seq(Cell) /\ log \in Seq(Cell)
        /\ readOffset \in Nat /\ offsetFile \in Nat
        /\ Len(file) \in Nat /\ Len(log) \in Nat
        /\ Removed \in Nat /\ drain.drained \in Nat /\ drain.skipped \in Nat
        /\ drain \in DrainLocals
    BY LenProperties, RemovedTyped DEF Position, TypeOK
  <1>1. ASSUME NEW m \in Limits, SetMaxDiskMB(m) PROVE FileInv' /\ CompactInv' /\ ReturnInv'
    BY <1>1, <1>a DEF SetMaxDiskMB, Call, disk, history,
                      FileInv, CompactInv, ReturnInv, Removed
  <1>2. ASSUME NEW l \in Lines, EnqueueStored(l)
        PROVE  FileInv' /\ CompactInv' /\ ReturnInv'
    <2>1. FileInv'
      BY <1>2, <1>a, EncProperties, WriteKeepsFileInv DEF EnqueueStored
    <2>2. CompactInv' /\ ReturnInv'
      BY <1>2, <1>a DEF EnqueueStored, Call, CompactInv, ReturnInv
    <2> QED
      BY <2>1, <2>2
  <1>3. ASSUME NEW l \in Lines, EnqueueFull(l)
        PROVE  FileInv' /\ CompactInv' /\ ReturnInv'
    BY <1>3, <1>a DEF EnqueueFull, Call, disk, history, FileInv, CompactInv, ReturnInv
  <1>4. ASSUME NEW l \in Lines, EnqueueFails(l)
        PROVE  FileInv' /\ CompactInv' /\ ReturnInv'
    <2>1. PICK n \in 0..(Size[l] - 1) : Write(SubSeq(Enc(l), 1, n))
      BY <1>4 DEF EnqueueFails
    <2>2. n \in 0..Size[l]
      BY EncProperties
    <2>3. FileInv'
      BY <1>4, <1>a, <2>1, <2>2, EncPrefix, WriteKeepsFileInv DEF EnqueueFails
    <2>4. CompactInv' /\ ReturnInv'
      BY <1>4, <1>a DEF EnqueueFails, Call, CompactInv, ReturnInv
    <2> QED
      BY <2>3, <2>4
  <1>5. CASE SaveOpen
    BY <1>5, <1>a DEF SaveOpen, memory, history, FileInv, CompactInv, ReturnInv
  <1>6. CASE SaveWrite
    BY <1>6, <1>a DEF SaveWrite, memory, history, TypeOK, FileInv, CompactInv, ReturnInv
  <1>7. CASE SaveFails
    BY <1>7, <1>a DEF SaveFails, disk, history, TypeOK, FileInv, CompactInv, ReturnInv
  <1>8. ASSUME NEW to \in 1..Len(file), NEW text, SubmitLine(to, text)
        PROVE  FileInv' /\ CompactInv' /\ ReturnInv'
    <2>1. readOffset' = to /\ readOffset < to /\ to <= Len(file)
      BY <1>8 DEF SubmitLine, Reads
    <2>2. FileInv'
      BY <1>8, <1>a, <2>1, AdvanceKeepsFileInv DEF SubmitLine, disk
    <2>3. drain'.size = drain.size /\ Removed' > 0
      BY <1>8, <1>a DEF SubmitLine, Removed, DrainLocals
    <2>4. CompactInv' /\ ReturnInv'
      BY <1>8, <1>a, <2>1, <2>3 DEF SubmitLine, disk, CompactInv, ReturnInv
    <2> QED
      BY <2>2, <2>4
  <1>9. CASE DrainBegin
    <2>1. readOffset <= Len(file)
      BY <1>a DEF FileInv
    <2>2. /\ pc = "idle" /\ pc' = "read" /\ ret' = ret
          /\ UNCHANGED <<file, offsetFile, tmp, readOffset, log>>
      BY <1>9, <1>a, <2>1 DEF DrainBegin, disk, history
    <2>3. drain'.size = Len(file)
      BY <1>9 DEF DrainBegin, NoDrain
    <2> QED
      BY <1>a, <2>2, <2>3 DEF FileInv, CompactInv, ReturnInv
  <1>10. CASE DrainEnds
    BY <1>10, <1>a DEF DrainEnds, LeaveLoop, disk, memory, history, Removed, TypeOK,
                       FileInv, CompactInv, ReturnInv
  <1>11. CASE DrainFails
    BY <1>11, <1>a DEF DrainFails, LeaveLoop, disk, history, Removed, TypeOK,
                       FileInv, CompactInv, ReturnInv
  <1>12. CASE Account
    <2>1. pc' = "compact" => Len(file) - readOffset < readOffset
      BY <1>12, <1>a DEF Account, CompactDue, CompactInv
    <2> QED
      BY <1>12, <1>a, <2>1 DEF Account, disk, history, FileInv, CompactInv, ReturnInv
  <1>13. ASSUME NEW to \in 1..Len(file), SkipLine(to)
         PROVE  FileInv' /\ CompactInv' /\ ReturnInv'
    <2>1. readOffset' = to /\ readOffset < to /\ to <= Len(file)
      BY <1>13 DEF SkipLine, Reads
    <2>2. FileInv'
      BY <1>13, <1>a, <2>1, AdvanceKeepsFileInv DEF SkipLine, disk, history
    <2>3. drain'.size = drain.size /\ Removed' > 0
      BY <1>13, <1>a DEF SkipLine, Removed, DrainLocals
    <2>4. CompactInv' /\ ReturnInv'
      BY <1>13, <1>a, <2>1, <2>3 DEF SkipLine, disk, CompactInv, ReturnInv
    <2> QED
      BY <2>2, <2>4
  <1>14. ASSUME NEW to \in 1..Len(file), RefuseLine(to)
         PROVE  FileInv' /\ CompactInv' /\ ReturnInv'
    BY <1>14, <1>a DEF RefuseLine, OffsetAfterRefusal, LeaveLoop, disk, memory, history, Removed, TypeOK,
                       FileInv, CompactInv, ReturnInv
  <1>15. CASE CompactTruncate
    <2>1. FileInv' /\ Len(file') = 0
      BY <1>15, <1>a, EmptySeq, EmptyKeepsFileInv DEF CompactTruncate, history
    <2> QED
      BY <1>15, <1>a, <2>1 DEF CompactTruncate, TypeOK, CompactInv, ReturnInv
  <1>16. CASE CompactCopy
    BY <1>16, <1>a DEF CompactCopy, memory, history, Unread, FileInv, CompactInv, ReturnInv
  <1>17. CASE CompactRename
    <2>1. FileInv' /\ Len(file') = Len(file) - readOffset
      BY <1>17, <1>a, RenameKeepsFileInv DEF CompactRename, history, CompactInv
    <2> QED
      BY <1>17, <1>a, <2>1 DEF CompactRename, TypeOK, CompactInv, ReturnInv
  <1>18. CASE CompactFails
    BY <1>18, <1>a DEF CompactFails, history, FileInv, CompactInv, ReturnInv
  <1>19. CASE Clear
    <2>1. FileInv' /\ Len(file') = 0
      BY <1>19, <1>a, EmptySeq, EmptyKeepsFileInv DEF Clear
    <2> QED
      BY <1>19, <1>a, <2>1 DEF Clear, Call, CompactInv, ReturnInv
  <1>20. CASE ClearFails
    BY <1>20, <1>a DEF ClearFails, Call, disk, history, FileInv, CompactInv, ReturnInv
  <1>21. CASE Restart
    <2>1. readOffset' <= Len(file)
      BY <1>21, <1>a DEF Restart, RestartOffset
    <2>2. FileInv'
      BY <1>21, <1>a, <2>1, AdvanceKeepsFileInv DEF Restart, disk, history
    <2> QED
      BY <1>21, <1>a, <2>2 DEF Restart, RestartOffset, disk, TypeOK, CompactInv, ReturnInv
  <1>22. CASE UNCHANGED vars
    BY <1>22, <1>a DEF vars, disk, memory, history, Removed, Unread,
                       FileInv, CompactInv, ReturnInv
  <1> QED
    BY <1>1, <1>2, <1>3, <1>4, <1>5, <1>6, <1>7, <1>8, <1>9, <1>10, <1>11, <1>12,
       <1>13, <1>14, <1>15, <1>16, <1>17, <1>18, <1>19, <1>20, <1>21, <1>22
    DEF Next, Enqueue, Save, Submit, Drain, Compact

\* What the theorems below rest on: the strengthened invariant, and where a method
\* returns to after a save.
Safe == Position /\ IInv

LEMMA NextOffset ==
    ASSUME Position, [Next]_vars, OffsetInv, Without("save")'
    PROVE  OffsetInv'
  <1>a. /\ TypeOK /\ FileInv /\ OffsetInv /\ CompactInv
        /\ file \in Seq(Cell) /\ tmp \in Seq(Cell) /\ log \in Seq(Cell)
        /\ readOffset \in Nat /\ offsetFile \in Nat
        /\ Len(file) \in Nat /\ Len(log) \in Nat
        /\ Removed \in Nat /\ drain.drained \in Nat /\ drain.skipped \in Nat
        /\ drain \in DrainLocals
    BY LenProperties, RemovedTyped DEF Position, TypeOK
  <1>b. ASSUME pc = "read", LeaveLoop, UNCHANGED <<file, offsetFile, readOffset, drain>>
        PROVE  OffsetInv'
    <2>1. offsetFile <= readOffset /\ readOffset <= Len(file)
      BY <1>a, <1>b DEF FileInv, OffsetInv
    <2>2. RestartOffset' <= readOffset'
      BY <1>a, <1>b, <2>1 DEF RestartOffset
    <2>3. CASE Removed > 0
      <3>1. pc' = "save" /\ ret' = "account"
        BY <1>b, <2>3 DEF LeaveLoop
      <3> QED
        BY <2>2, <3>1 DEF OffsetInv
    <2>4. CASE ~(Removed > 0)
      <3>1. Removed = 0 /\ offsetFile = readOffset
        BY <1>a, <1>b, <2>4 DEF OffsetInv
      <3>2. pc' = "account"
        BY <1>b, <2>4 DEF LeaveLoop
      <3> QED
        BY <1>b, <3>1, <3>2 DEF OffsetInv
    <2> QED
      BY <2>3, <2>4
  <1>1. ASSUME NEW m \in Limits, SetMaxDiskMB(m) PROVE OffsetInv'
    BY <1>1, <1>a DEF SetMaxDiskMB, Call, disk, history,
                      FileInv, OffsetInv, CompactInv, Removed
  <1>2. ASSUME NEW l \in Lines, EnqueueStored(l)
        PROVE  OffsetInv'
    <2>1. FileInv'
      BY <1>2, <1>a, EncProperties, WriteKeepsFileInv DEF EnqueueStored
    <2>2. OffsetInv'
      BY <1>2, <1>a DEF EnqueueStored, Call, OffsetInv, CompactInv
    <2> QED
      BY <2>1, <2>2
  <1>3. ASSUME NEW l \in Lines, EnqueueFull(l)
        PROVE  OffsetInv'
    BY <1>3, <1>a DEF EnqueueFull, Call, disk, history, FileInv, OffsetInv, CompactInv
  <1>4. ASSUME NEW l \in Lines, EnqueueFails(l)
        PROVE  OffsetInv'
    <2>1. PICK n \in 0..(Size[l] - 1) : Write(SubSeq(Enc(l), 1, n))
      BY <1>4 DEF EnqueueFails
    <2>2. n \in 0..Size[l]
      BY EncProperties
    <2>3. FileInv'
      BY <1>4, <1>a, <2>1, <2>2, EncPrefix, WriteKeepsFileInv DEF EnqueueFails
    <2>4. OffsetInv'
      BY <1>4, <1>a DEF EnqueueFails, Call, OffsetInv, CompactInv
    <2> QED
      BY <2>3, <2>4
  <1>5. CASE SaveOpen
    BY <1>5, <1>a DEF SaveOpen, memory, history, FileInv, OffsetInv, CompactInv
  <1>6. CASE SaveWrite
    BY <1>6, <1>a DEF SaveWrite, memory, history, TypeOK, FileInv, OffsetInv, CompactInv
  <1>7. CASE SaveFails
    BY <1>7, FaultRecorded DEF SaveFails
  <1>8. ASSUME NEW to \in 1..Len(file), NEW text, SubmitLine(to, text)
        PROVE  OffsetInv'
    <2>1. readOffset' = to /\ readOffset < to /\ to <= Len(file)
      BY <1>8 DEF SubmitLine, Reads
    <2>2. FileInv'
      BY <1>8, <1>a, <2>1, AdvanceKeepsFileInv DEF SubmitLine, disk
    <2>3. drain'.size = drain.size /\ Removed' > 0
      BY <1>8, <1>a DEF SubmitLine, Removed, DrainLocals
    <2>4. OffsetInv'
      BY <1>8, <1>a, <2>1, <2>3 DEF SubmitLine, disk, OffsetInv, CompactInv
    <2> QED
      BY <2>2, <2>4
  <1>9. CASE DrainBegin
    <2>1. readOffset <= Len(file)
      BY <1>a DEF FileInv
    <2>2. /\ pc = "idle" /\ pc' = "read" /\ ret' = ret
          /\ UNCHANGED <<file, offsetFile, tmp, readOffset, log>>
      BY <1>9, <1>a, <2>1 DEF DrainBegin, disk, history
    <2>3. drain'.size = Len(file)
      BY <1>9 DEF DrainBegin, NoDrain
    <2> QED
      BY <1>a, <2>2, <2>3 DEF FileInv, OffsetInv, CompactInv
  <1>10. CASE DrainEnds
    BY <1>10, <1>b DEF DrainEnds, disk, memory
  <1>11. CASE DrainFails
    <2>1. CASE pc = "read" /\ LeaveLoop
      BY <1>11, <1>b, <2>1 DEF DrainFails, disk
    <2>2. CASE pc = "idle" /\ UNCHANGED <<pc, ret>>
      BY <1>11, <1>a, <2>2 DEF DrainFails, disk, OffsetInv
    <2> QED
      BY <1>11, <2>1, <2>2 DEF DrainFails
  <1>12. CASE Account
    <2>1. pc' = "compact" => Len(file) - readOffset < readOffset
      BY <1>12, <1>a DEF Account, CompactDue, CompactInv
    <2> QED
      BY <1>12, <1>a, <2>1 DEF Account, disk, history, FileInv, OffsetInv, CompactInv
  <1>13. ASSUME NEW to \in 1..Len(file), SkipLine(to)
         PROVE  OffsetInv'
    <2>1. readOffset' = to /\ readOffset < to /\ to <= Len(file)
      BY <1>13 DEF SkipLine, Reads
    <2>2. FileInv'
      BY <1>13, <1>a, <2>1, AdvanceKeepsFileInv DEF SkipLine, disk, history
    <2>3. drain'.size = drain.size /\ Removed' > 0
      BY <1>13, <1>a DEF SkipLine, Removed, DrainLocals
    <2>4. OffsetInv'
      BY <1>13, <1>a, <2>1, <2>3 DEF SkipLine, disk, OffsetInv, CompactInv
    <2> QED
      BY <2>2, <2>4
  <1>14. ASSUME NEW to \in 1..Len(file), RefuseLine(to)
         PROVE  OffsetInv'
    BY <1>14, <1>b DEF RefuseLine, OffsetAfterRefusal, disk
  <1>15. CASE CompactTruncate
    <2>1. FileInv' /\ Len(file') = 0
      BY <1>15, <1>a, EmptySeq, EmptyKeepsFileInv DEF CompactTruncate, history
    <2> QED
      BY <1>15, <1>a, <2>1 DEF CompactTruncate, TypeOK, CrashSafe, RestartOffset,
                               OffsetInv, CompactInv
  <1>16. CASE CompactCopy
    BY <1>16, <1>a DEF CompactCopy, memory, history, Unread, FileInv, OffsetInv, CompactInv
  <1>17. CASE CompactRename
    <2>1. FileInv' /\ Len(file') = Len(file) - readOffset
      BY <1>17, <1>a, RenameKeepsFileInv DEF CompactRename, history, CompactInv
    <2> QED
      BY <1>17, <1>a, <2>1 DEF CompactRename, TypeOK, CrashSafe, RestartOffset,
                               OffsetInv, CompactInv
  <1>18. CASE CompactFails
    BY <1>18, <1>a DEF CompactFails, history, FileInv, OffsetInv, CompactInv
  <1>19. CASE Clear
    <2>1. FileInv' /\ Len(file') = 0
      BY <1>19, <1>a, EmptySeq, EmptyKeepsFileInv DEF Clear
    <2> QED
      BY <1>19, <1>a, <2>1 DEF Clear, Call, CrashSafe, RestartOffset, OffsetInv, CompactInv
  <1>20. CASE ClearFails
    BY <1>20, <1>a DEF ClearFails, Call, disk, history, FileInv, OffsetInv, CompactInv
  <1>21. CASE Restart
    <2>1. readOffset' <= Len(file)
      BY <1>21, <1>a DEF Restart, RestartOffset
    <2>2. FileInv'
      BY <1>21, <1>a, <2>1, AdvanceKeepsFileInv DEF Restart, disk, history
    <2> QED
      BY <1>21, <1>a, <2>2 DEF Restart, disk, TypeOK, CrashSafe, RestartOffset,
                               OffsetInv, CompactInv
  <1>22. CASE UNCHANGED vars
    BY <1>22, <1>a DEF vars, disk, memory, history, CrashSafe, RestartOffset, Removed, Unread,
                       FileInv, OffsetInv, CompactInv
  <1> QED
    BY <1>1, <1>2, <1>3, <1>4, <1>5, <1>6, <1>7, <1>8, <1>9, <1>10, <1>11, <1>12,
       <1>13, <1>14, <1>15, <1>16, <1>17, <1>18, <1>19, <1>20, <1>21, <1>22
    DEF Next, Enqueue, Save, Submit, Drain, Compact

LEMMA InitSafe == Init => Safe
  BY InitIInv, InitPosition DEF Safe

LEMMA NextSafe == Safe /\ [Next]_vars => Safe'
  <1> SUFFICES ASSUME Safe, [Next]_vars PROVE Position' /\ (Without("save")' => OffsetInv')
    BY DEF Safe, IInv, Position
  <1>1. Position'
    BY NextPosition DEF Safe
  <1>2. ASSUME Without("save")' PROVE OffsetInv'
    BY <1>2, WithoutBefore, NextOffset DEF Safe, IInv
  <1> QED
    BY <1>1, <1>2

LEMMA SafeOffset ==
    ASSUME Safe, Without("save")
    PROVE  OffsetInv /\ RestartOffset <= readOffset
  BY DEF Safe, IInv, TypeOK, FileInv, OffsetInv, RestartOffset

LEMMA SafeImpliesCrashSafe == Safe => CrashSafe
  BY SafeOffset DEF CrashSafe

\* Until a save of the offset fails, New resumes at or before the place the reader
\* had reached, whatever step the process stops at: no stored line is passed over.
THEOREM CrashSafety == Spec => [](Safe /\ CrashSafe)
  <1>1. Safe => CrashSafe
    BY SafeImpliesCrashSafe
  <1> QED
    BY <1>1, InitSafe, NextSafe, PTL DEF Spec

-------------------------------------------------------------------------------
\* The queue implements SpillLog: the cells of the file are the last ones of
\* the log, so what Drain reads at readOffset is what the log holds at head.

LEMMA FileAndLogAgree ==
    ASSUME Position, NEW to \in Nat, Reads(file, readOffset, to)
    PROVE  /\ head \in Nat
           /\ Reads(log, head, head + (to - readOffset))
           /\ SubSeq(log, head + 1, head + (to - readOffset))
                  = SubSeq(file, readOffset + 1, to)
  <1> DEFINE skew == Len(log) - Len(file)
             stop == head + (to - readOffset)
  <1>1. /\ file \in Seq(Cell) /\ log \in Seq(Cell)
        /\ Len(file) \in Nat /\ Len(log) \in Nat /\ readOffset \in Nat
        /\ skew \in Nat /\ readOffset <= Len(file)
        /\ readOffset < to /\ to <= Len(file)
    BY LenProperties DEF Position, TypeOK, FileInv, Reads
  <1>2. /\ head = skew + readOffset /\ head \in Nat
        /\ stop = skew + to /\ stop \in Nat
        /\ head < stop /\ stop <= Len(log)
        /\ stop < Len(log) => to < Len(file)
    BY <1>1 DEF head
  <1>3. \A i \in 1..Len(file) : log[skew + i] = file[i]
    BY DEF Position, FileInv
  <1>4. ASSUME NEW j \in (head + 1)..(stop - 1) PROVE ~IsNewline(log[j])
    <2>1. j - skew \in (readOffset + 1)..(to - 1) /\ j - skew \in 1..Len(file)
          /\ skew + (j - skew) = j
      BY <1>1, <1>2
    <2>2. log[j] = file[j - skew]
      BY <1>3, <2>1
    <2> QED
      BY <2>1, <2>2 DEF Reads
  <1>5. stop < Len(log) => IsNewline(log[stop])
    <2>1. to \in 1..Len(file)
      BY <1>1
    <2>2. log[stop] = file[to]
      BY <1>2, <1>3, <2>1
    <2> QED
      BY <1>2, <2>2 DEF Reads
  <1>6. Reads(log, head, stop)
    BY <1>2, <1>4, <1>5 DEF Reads
  <1>7. \A i \in (head + 1)..stop : log[i] \in Cell
    BY <1>1, <1>2, ElementOfSeq
  <1>8. \A i \in (readOffset + 1)..to : file[i] \in Cell
    BY <1>1, ElementOfSeq
  <1> DEFINE a == SubSeq(log, head + 1, stop)
             b == SubSeq(file, readOffset + 1, to)
  <1>9. /\ a \in Seq(Cell) /\ Len(a) = stop - head
        /\ \A i \in 1..(stop - head) : a[i] = log[head + i]
    <2>1. head + 1 \in Int /\ stop \in Int
      BY <1>2
    <2>2. /\ a \in Seq(Cell)
          /\ Len(a) = IF head + 1 <= stop THEN stop - (head + 1) + 1 ELSE 0
          /\ \A i \in 1..(stop - (head + 1) + 1) : a[i] = log[(head + 1) + i - 1]
      BY <1>7, <2>1, SubSeqProperties
    <2>3. \A i \in 1..(stop - head) : i \in 1..(stop - (head + 1) + 1)
                                      /\ (head + 1) + i - 1 = head + i
      BY <1>2
    <2> QED
      BY SMTT(30), <1>2, <2>2, <2>3
  <1>10. /\ b \in Seq(Cell) /\ Len(b) = to - readOffset
         /\ \A i \in 1..(to - readOffset) : b[i] = file[readOffset + i]
    <2>1. readOffset + 1 \in Int /\ to \in Int
      BY <1>1
    <2>2. /\ b \in Seq(Cell)
          /\ Len(b) = IF readOffset + 1 <= to THEN to - (readOffset + 1) + 1 ELSE 0
          /\ \A i \in 1..(to - (readOffset + 1) + 1) : b[i] = file[(readOffset + 1) + i - 1]
      BY <1>8, <2>1, SubSeqProperties
    <2>3. \A i \in 1..(to - readOffset) : i \in 1..(to - (readOffset + 1) + 1)
                                          /\ (readOffset + 1) + i - 1 = readOffset + i
      BY <1>1
    <2> QED
      BY <1>1, <2>2, <2>3
  <1>11. Len(a) = Len(b)
    BY <1>1, <1>2, <1>9, <1>10
  <1>12. ASSUME NEW i \in 1..Len(a) PROVE a[i] = b[i]
    <2>1. i \in 1..(stop - head) /\ i \in 1..(to - readOffset)
      BY <1>9, <1>10, <1>11
    <2>2. readOffset + i \in 1..Len(file) /\ skew + (readOffset + i) = head + i
      BY <1>1, <1>2, <2>1
    <2>3. log[head + i] = file[readOffset + i]
      BY <1>3, <2>2
    <2> QED
      BY <1>9, <1>10, <2>1, <2>3
  <1>13. a = b
    BY <1>9, <1>10, <1>11, <1>12, SeqEqual
  <1> QED
    BY <1>2, <1>6, <1>13

\* The cells of the abstract specification are those of this module.
LEMMA SameCells ==
    /\ \A l : Abstract!Enc(l) = Enc(l)
    /\ \A s, from, to : Abstract!Reads(s, from, to) <=> Reads(s, from, to)
    /\ \A raw : Abstract!Decode(raw) = Decode(raw)
  <1>1. \A l : Abstract!Enc(l) = Enc(l)
    BY DEF Abstract!Enc, Enc
  <1>2. \A c : Abstract!IsNewline(c) <=> IsNewline(c)
    BY DEF Abstract!IsNewline, IsNewline
  <1>3. \A raw : Abstract!Trim(raw) = Trim(raw)
    BY <1>2 DEF Abstract!Trim, Trim
  <1>4. \A s, from, to : Abstract!Reads(s, from, to) <=> Reads(s, from, to)
    BY <1>2 DEF Abstract!Reads, Reads
  <1>5. \A raw : Abstract!Decode(raw) = Decode(raw)
    BY <1>1, <1>3 DEF Abstract!Decode, Decode
  <1> QED
    BY <1>1, <1>4, <1>5

LEMMA StepSimulation ==
    ASSUME Safe, [Next]_vars, Without("save")'
    PROVE  [Abstract!ALNext]_(Abstract!alvars)
  <1>a. /\ file \in Seq(Cell) /\ log \in Seq(Cell)
        /\ Len(file) \in Nat /\ Len(log) \in Nat /\ readOffset \in Nat
        /\ readOffset <= Len(file) /\ Len(file) <= Len(log)
        /\ head \in Nat
    BY SMTT(30), LenProperties DEF Safe, Position, TypeOK, FileInv, head
  <1>b. ASSUME NEW l \in Lines, NEW n \in 0..Size[l], Write(SubSeq(Enc(l), 1, n)),
               readOffset' = readOffset, sent' = sent
        PROVE  Abstract!ALAppend
    <2>1. /\ Len(file') = Len(file) + n /\ Len(log') = Len(log) + n
          /\ n \in Nat
      BY <1>a, <1>b, EncProperties, EncPrefix, ConcatProperties DEF Write
    <2>2. head' = head
      BY <1>a, <1>b, <2>1 DEF head
    <2> QED
      BY <1>b, <2>2, SameCells DEF Abstract!ALAppend, Write
  <1>c. ASSUME NEW to \in Nat, Reads(file, readOffset, to), readOffset' = to,
               UNCHANGED <<file, log>>,
               NEW d \in Decode(SubSeq(file, readOffset + 1, to)),
               sent' = IF d = Skip THEN sent ELSE Append(sent, d)
        PROVE  Abstract!ALTake
    <2>1. head' = head + (to - readOffset)
      BY <1>a, <1>c DEF head
    <2> QED
      BY <1>c, <2>1, FileAndLogAgree, SameCells DEF Safe, Abstract!ALTake
  <1>d. ASSUME UNCHANGED <<file, readOffset, log, sent>>
        PROVE  UNCHANGED Abstract!alvars
    BY <1>d DEF head, Abstract!alvars
  <1>1. ASSUME NEW m \in Limits, SetMaxDiskMB(m) PROVE UNCHANGED Abstract!alvars
    BY <1>1, <1>d DEF SetMaxDiskMB, disk, history
  <1>2. ASSUME NEW l \in Lines, EnqueueStored(l) PROVE Abstract!ALAppend
    <2>1. SubSeq(Enc(l), 1, Size[l]) = Enc(l) /\ Size[l] \in 0..Size[l]
      BY EncProperties, SubSeqFull
    <2> QED
      BY <1>2, <1>b, <2>1 DEF EnqueueStored
  <1>3. ASSUME NEW l \in Lines, EnqueueFull(l) PROVE UNCHANGED Abstract!alvars
    BY <1>3, <1>d DEF EnqueueFull, disk, history
  <1>4. ASSUME NEW l \in Lines, EnqueueFails(l) PROVE Abstract!ALAppend
    <2>1. PICK n \in 0..(Size[l] - 1) : Write(SubSeq(Enc(l), 1, n))
      BY <1>4 DEF EnqueueFails
    <2>2. n \in 0..Size[l]
      BY EncProperties
    <2> QED
      BY <1>4, <1>b, <2>1, <2>2 DEF EnqueueFails
  <1>5. CASE Save
    BY <1>5, <1>d DEF Save, SaveOpen, SaveWrite, SaveFails, disk, memory, history
  <1>6. ASSUME NEW to \in 1..Len(file), NEW text \in Lines \cup {Garbage},
               SubmitLine(to, text)
        PROVE  Abstract!ALTake
    <2>1. /\ to \in Nat /\ Reads(file, readOffset, to) /\ readOffset' = to
          /\ UNCHANGED <<file, log>>
          /\ text \in Decode(SubSeq(file, readOffset + 1, to)) /\ text # Skip
          /\ sent' = Append(sent, text)
      BY <1>6, <1>a DEF SubmitLine, disk
    <2> QED
      BY <1>c, <2>1
  <1>7. ASSUME NEW to \in 1..Len(file), SkipLine(to) PROVE Abstract!ALTake
    <2>1. /\ to \in Nat /\ Reads(file, readOffset, to) /\ readOffset' = to
          /\ UNCHANGED <<file, log>>
          /\ Skip \in Decode(SubSeq(file, readOffset + 1, to))
          /\ sent' = sent
      BY <1>7, <1>a DEF SkipLine, disk, history
    <2> QED
      BY <1>c, <2>1
  <1>8. ASSUME NEW to \in 1..Len(file), RefuseLine(to) PROVE UNCHANGED Abstract!alvars
    BY <1>8, <1>d DEF RefuseLine, OffsetAfterRefusal, disk, memory, history
  <1>9. CASE DrainBegin
    BY <1>9, <1>a, <1>d DEF DrainBegin, disk, history
  <1>10. CASE DrainEnds \/ DrainFails \/ Account
    BY <1>10, <1>d DEF DrainEnds, DrainFails, Account, disk, memory, history
  <1>11. CASE CompactTruncate
    <2>1. Len(file') = 0
      BY <1>11, EmptySeq DEF CompactTruncate
    <2>2. head' = head
      BY <1>11, <1>a, <2>1 DEF CompactTruncate, head, history
    <2> QED
      BY <1>11, <2>2 DEF CompactTruncate, history, Abstract!alvars
  <1>12. CASE CompactCopy \/ CompactFails
    BY <1>12, <1>d DEF CompactCopy, CompactFails, memory, history
  <1>13. CASE CompactRename
    <2>1. tmp = Unread
      BY <1>13 DEF CompactRename, Safe, Position, CompactInv
    <2>2. Len(file') = Len(file) - readOffset
      BY <1>13, <1>a, <2>1, UnreadProperties DEF CompactRename
    <2>3. head' = head
      BY <1>13, <1>a, <2>2 DEF CompactRename, head, history
    <2> QED
      BY <1>13, <2>3 DEF CompactRename, history, Abstract!alvars
  <1>14. CASE Clear
    <2>1. Len(file') = 0
      BY <1>14, EmptySeq DEF Clear
    <2>2. head' = Len(log)
      BY <1>14, <1>a, <2>1 DEF Clear, head
    <2> QED
      BY <1>14, <2>2 DEF Clear, Abstract!ALDiscard, Abstract!ALNext
  <1>15. CASE ClearFails
    BY <1>15, <1>d DEF ClearFails, disk, history
  <1>16. CASE Restart
    <2>1. RestartOffset \in Nat /\ RestartOffset <= readOffset
      BY WithoutBefore, SafeOffset DEF RestartOffset, Safe, Position, TypeOK
    <2>2. head' = head - (readOffset - RestartOffset)
      BY <1>16, <1>a, <2>1 DEF Restart, disk, history, head
    <2>3. head' \in 0..head
      BY <1>a, <2>1, <2>2 DEF head
    <2> QED
      BY <1>16, <2>3 DEF Restart, Fault, history, Abstract!ALRestart, Abstract!ALNext
  <1>17. CASE UNCHANGED vars
    BY <1>17, <1>d DEF vars, disk, memory, history
  <1> QED
    BY <1>1, <1>2, <1>3, <1>4, <1>5, <1>6, <1>7, <1>8, <1>9, <1>10, <1>11, <1>12,
       <1>13, <1>14, <1>15, <1>16, <1>17
    DEF Next, Enqueue, Submit, Drain, Compact, Abstract!ALNext

\* A reader that takes the lines of an append-only log one after the other, and that
\* only a restart moves back, is all a client of the queue can see until a save of
\* the offset fails.
THEOREM Refinement == Spec => ImplementsSpillLog
  <1>1. Init => Abstract!ALInit
    <2> SUFFICES ASSUME Init PROVE Abstract!ALInit
      OBVIOUS
    <2>1. Len(file) = 0 /\ Len(log) = 0
      BY EmptySeq DEF Init
    <2> QED
      BY <2>1 DEF Init, head, Abstract!ALInit
  <1>2. Safe /\ [Next]_vars => [Without("save")' => Abstract!ALNext]_(Abstract!alvars)
    BY StepSimulation
  <1>3. Spec => []Safe
    BY CrashSafety, PTL
  <1> QED
    BY <1>1, <1>2, <1>3, PTL DEF Spec, ImplementsSpillLog
-------------------------------------------------------------------------------
\* A compaction, at whatever step it is cut short, leaves to read exactly what
\* there was to read when it began (CompactionKeepsUnread).

LEMMA CompactionStep ==
    ASSUME Safe, [Next]_vars, Compacting, Without("save")'
    PROVE  Unread' = Unread
  <1>a. /\ file \in Seq(Cell) /\ Len(file) \in Nat
        /\ readOffset \in Nat /\ readOffset <= Len(file) /\ offsetFile \in Nat
    BY LenProperties DEF Safe, Position, TypeOK, FileInv
  <1>o. OffsetInv
    BY WithoutBefore, SafeOffset
  <1>b. pc \notin {"idle", "read", "account"}
    BY DEF Compacting
  <1>c. ASSUME UNCHANGED <<file, readOffset>>
        PROVE  Unread' = Unread
    BY <1>c DEF Unread
  <1>1. CASE Save
    BY <1>1, <1>c DEF Save, SaveOpen, SaveWrite, SaveFails, disk, memory
  <1>2. CASE CompactTruncate
    <2>1. Len(Unread) = 0 /\ Unread \in Seq(Cell)
      BY <1>2, <1>a, UnreadProperties DEF CompactTruncate
    <2>2. file' = <<>> /\ readOffset' = 0 /\ Len(file') = 0 /\ file' \in Seq(Cell)
      BY <1>2, EmptySeq DEF CompactTruncate
    <2>3. SubSeq(file', 1, 0) = file'
      BY <2>2, SubSeqFull
    <2>4. Unread' = <<>>
      BY <2>2, <2>3 DEF Unread
    <2> QED
      BY <2>1, <2>4, EmptySeq
  <1>3. CASE CompactCopy \/ CompactFails
    BY <1>3, <1>c DEF CompactCopy, CompactFails, memory
  <1>4. CASE CompactRename
    <2>1. tmp = Unread /\ tmp \in Seq(Cell)
      BY <1>4 DEF CompactRename, Safe, Position, CompactInv, TypeOK
    <2>2. file' = tmp /\ readOffset' = 0
      BY <1>4 DEF CompactRename
    <2>3. SubSeq(tmp, 1, Len(tmp)) = tmp
      BY <2>1, SubSeqFull
    <2> QED
      BY <2>1, <2>2, <2>3 DEF Unread
  <1>5. CASE Restart
    <2>1. RestartOffset = readOffset
      <3>1. pc \in {"compact", "rename"} => RestartOffset = readOffset
        BY <1>a, <1>o DEF OffsetInv, RestartOffset
      <3>2. pc = "save" /\ ret = "idle" => RestartOffset = readOffset
        BY <1>a, <1>o DEF OffsetInv, RestartOffset
      <3>3. pc = "write" /\ ret = "idle" => RestartOffset = readOffset
        BY <1>a, <1>o DEF OffsetInv, RestartOffset
      <3> QED
        BY <3>1, <3>2, <3>3 DEF Compacting
    <2> QED
      BY <1>5, <1>c, <2>1 DEF Restart, disk
  <1>6. CASE UNCHANGED vars
    BY <1>6, <1>c DEF vars, disk, memory
  <1>7. CASE Submit \/ DrainBegin \/ DrainEnds \/ DrainFails \/ Account
    BY <1>7, <1>b DEF Submit, SubmitLine, DrainBegin, DrainEnds, DrainFails, Account
  <1>8. ASSUME NEW to \in 1..Len(file), SkipLine(to) \/ RefuseLine(to) PROVE FALSE
    BY <1>8, <1>b DEF SkipLine, RefuseLine
  <1>9. CASE Enqueue \/ Clear \/ ClearFails
    BY <1>9, <1>b
    DEF Enqueue, EnqueueStored, EnqueueFull, EnqueueFails, Clear, ClearFails, Call
  <1>10. ASSUME NEW m \in Limits, SetMaxDiskMB(m) PROVE FALSE
    BY <1>10, <1>b DEF SetMaxDiskMB, Call
  <1> QED
    BY <1>1, <1>2, <1>3, <1>4, <1>5, <1>6, <1>7, <1>8, <1>9, <1>10 DEF Next, Drain, Compact

\* Neither a compaction, nor an error in it, nor a restart in the middle of it
\* changes what is left to read, until a save of the offset fails.
THEOREM CompactionSafety == Spec => CompactionKeepsUnread
  <1>1. Safe /\ [Next]_vars => [Compacting /\ Without("save")' => Unread' = Unread]_vars
    BY CompactionStep
  <1>2. Spec => []Safe
    BY CrashSafety, PTL
  <1> QED
    BY <1>1, <1>2, PTL DEF Spec, CompactionKeepsUnread

-------------------------------------------------------------------------------
\* The strengthening the run checks beside CrashSafe: the offset file is exact
\* when no method is under way, behind the reader during a Drain, and beyond
\* the end of a compacted file until it is reset.
THEOREM InvariantHolds == Spec => []IInv
  <1>1. Safe => IInv
    BY DEF Safe
  <1> QED
    BY <1>1, CrashSafety, PTL

-------------------------------------------------------------------------------
\* Space.  A restart in the middle of a compaction, or a compaction that fails,
\* leaves a long consumed prefix until a later Drain; no other fault does.

LEMMA NextSpace ==
    ASSUME Position, SpaceReclaimed, [Next]_vars
    PROVE  SpaceReclaimed'
  <1> SUFFICES ASSUME pc' = "idle", Without("restart")', Without("io")' PROVE SpaceReclaimed'
    BY DEF SpaceReclaimed
  <1>w. Without("restart") /\ Without("io")
    BY WithoutBefore
  <1>a. /\ file \in Seq(Cell) /\ Len(file) \in Nat /\ readOffset \in Nat /\ pending \in Nat
        /\ CompactBelow \in Nat
        /\ Removed \in Nat /\ drain.drained \in Nat /\ drain.skipped \in Nat
    BY LenProperties, RemovedTyped, OverflowQueueAssumption DEF Position, TypeOK
  <1>b. ASSUME pc = "idle", readOffset' = readOffset, pending' \in Nat, pending' >= pending,
               Len(file') \in Nat, Len(file') >= Len(file)
        PROVE  SpaceReclaimed'
    BY <1>a, <1>b, <1>w DEF SpaceReclaimed
  <1>c. ASSUME NEW cells \in Seq(Cell), Write(cells)
        PROVE  Len(file') \in Nat /\ Len(file') >= Len(file)
    BY <1>a, <1>c, LenProperties, ConcatProperties DEF Write
  <1>1. ASSUME NEW l \in Lines, EnqueueStored(l) PROVE SpaceReclaimed'
    <2>1. Len(file') \in Nat /\ Len(file') >= Len(file)
      BY <1>1, <1>c, EncProperties DEF EnqueueStored
    <2> QED
      BY <1>1, <1>a, <1>b, <2>1 DEF EnqueueStored, Call
  <1>2. ASSUME NEW l \in Lines, EnqueueFails(l) PROVE SpaceReclaimed'
    <2>1. PICK n \in 0..(Size[l] - 1) : Write(SubSeq(Enc(l), 1, n))
      BY <1>2 DEF EnqueueFails
    <2>2. n \in 0..Size[l]
      BY EncProperties
    <2>3. Len(file') \in Nat /\ Len(file') >= Len(file)
      BY <1>c, <2>1, <2>2, EncPrefix
    <2> QED
      BY <1>2, <1>a, <1>b, <2>3 DEF EnqueueFails, Call
  <1>3. ASSUME NEW l \in Lines, EnqueueFull(l) PROVE SpaceReclaimed'
    BY <1>3, <1>a, <1>b DEF EnqueueFull, Call, disk
  <1>4. CASE Save
    <2>1. ret = "idle" /\ pc \in {"save", "write"} /\ UNCHANGED <<file, readOffset>>
      BY <1>4 DEF Save, SaveOpen, SaveWrite, SaveFails, disk, memory
    <2>2. readOffset = 0
      BY <2>1 DEF Position, ReturnInv
    <2> QED
      BY <1>a, <2>1, <2>2 DEF SpaceReclaimed
  <1>5. CASE Account
    <2>1. /\ ~(CompactDue(PendingAfterDrain) /\ readOffset > 0)
          /\ pending' = PendingAfterDrain /\ UNCHANGED <<file, readOffset>>
      BY <1>5 DEF Account, disk
    <2>2. drain.size = Len(file)
      BY <1>5 DEF Account, Position, CompactInv
    <2>3. PendingAfterDrain < CompactBelow => readOffset <= Len(file) \div 2
      BY <1>a, <2>1, <2>2 DEF CompactDue
    <2> QED
      BY <2>1, <2>3 DEF SpaceReclaimed
  <1>6. CASE DrainEnds \/ DrainFails \/ DrainBegin \/ Compact \/ Clear \/ Restart
    BY <1>6, FaultRecorded
    DEF DrainEnds, DrainFails, DrainBegin, LeaveLoop, Compact, CompactTruncate,
        CompactCopy, CompactRename, CompactFails, Clear, Restart
  <1>7. ASSUME NEW to, NEW text, SubmitLine(to, text) PROVE SpaceReclaimed'
    BY <1>7 DEF SubmitLine
  <1>8. ASSUME NEW to, SkipLine(to) \/ RefuseLine(to) PROVE SpaceReclaimed'
    BY <1>8 DEF SkipLine, RefuseLine, LeaveLoop
  <1>9. CASE ClearFails
    BY <1>9, FaultRecorded DEF ClearFails
  <1>10. ASSUME NEW m \in Limits, SetMaxDiskMB(m) PROVE SpaceReclaimed'
    BY <1>10, <1>a, <1>b DEF SetMaxDiskMB, Call, disk
  <1>11. CASE UNCHANGED vars
    BY <1>11, <1>a, <1>b DEF vars, disk, memory
  <1> QED
    BY <1>1, <1>2, <1>3, <1>4, <1>5, <1>6, <1>7, <1>8, <1>9, <1>10, <1>11
    DEF Next, Enqueue, Submit, Drain

\* Whenever no method is under way and few lines are pending, at most half of
\* the queue file is a prefix that was read: writes and offset saves that fail
\* do not let it grow, only a compaction that failed or was cut short does.
THEOREM SpaceIsReclaimed == Spec => []SpaceReclaimed
  <1>1. Init => SpaceReclaimed
    <2> SUFFICES ASSUME Init PROVE SpaceReclaimed
      OBVIOUS
    <2>1. Len(file) = 0 /\ readOffset = 0
      BY EmptySeq DEF Init
    <2> QED
      BY <2>1 DEF SpaceReclaimed
  <1>2. Position /\ SpaceReclaimed /\ [Next]_vars => SpaceReclaimed'
    BY NextSpace
  <1> QED
    BY <1>1, <1>2, InitPosition, NextPosition, PTL DEF Spec


-------------------------------------------------------------------------------
\* The count of unread lines.

LEMMA NewlinesFinite ==
    ASSUME NEW s \in Seq(Cell), NEW from \in Nat
    PROVE  IsFiniteSet(Newlines(s, from))
  <1>1. IsFiniteSet((from + 1)..Len(s))
    BY LenProperties, FS_Interval
  <1> QED
    BY <1>1, FS_Subset DEF Newlines

\* The newlines of two sequences that continue alike are as many.
LEMMA SameCount ==
    ASSUME NEW s \in Seq(Cell), NEW t \in Seq(Cell), NEW a \in Nat, NEW b \in Nat,
           Len(s) - a = Len(t) - b,
           \A i \in 1..(Len(s) - a) : s[a + i] = t[b + i]
    PROVE  Cardinality(Newlines(s, a)) = Cardinality(Newlines(t, b))
  <1> DEFINE A == Newlines(s, a)
             B == Newlines(t, b)
             f == [i \in A |-> b + (i - a)]
  <1>0. Len(s) \in Nat /\ Len(t) \in Nat
    BY LenProperties
  <1>1. ASSUME NEW i \in A PROVE b + (i - a) \in B /\ i \in Nat
    <2>1. i \in Nat /\ i - a \in 1..(Len(s) - a) /\ a + (i - a) = i
      BY <1>0 DEF Newlines
    <2>2. s[i] = t[b + (i - a)]
      BY <2>1
    <2> QED
      BY <1>0, <2>1, <2>2 DEF Newlines
  <1>2. ASSUME NEW j \in B PROVE \E i \in A : b + (i - a) = j
    <2>1. j - b \in 1..(Len(s) - a) /\ b + (j - b) = j /\ a + (j - b) \in (a + 1)..Len(s)
      BY <1>0 DEF Newlines
    <2>2. s[a + (j - b)] = t[j]
      BY <2>1
    <2>3. a + (j - b) \in A
      BY <2>1, <2>2 DEF Newlines
    <2>4. b + ((a + (j - b)) - a) = j
      BY <1>0 DEF Newlines
    <2> QED
      BY <2>3, <2>4
  <1>3. \A i, j \in A : b + (i - a) = b + (j - a) => i = j
    BY <1>1
  <1>4. f \in Bijection(A, B)
    BY <1>1, <1>2, <1>3 DEF Bijection, Injection, Surjection, IsInjective
  <1>5. ExistsBijection(A, B)
    BY <1>4 DEF ExistsBijection
  <1> QED
    BY <1>5, NewlinesFinite, FS_Bijection

\* A line that is written adds one newline, a part of a line none.
LEMMA WriteCount ==
    ASSUME NEW s \in Seq(Cell), NEW from \in Nat, from <= Len(s),
           NEW l \in Lines, NEW n \in 0..Size[l]
    PROVE  Cardinality(Newlines(s \o SubSeq(Enc(l), 1, n), from)) =
              Cardinality(Newlines(s, from)) + (IF n = Size[l] THEN 1 ELSE 0)
  <1> DEFINE c == SubSeq(Enc(l), 1, n)
             t == s \o c
  <1>1. /\ Size[l] \in Nat /\ Size[l] > 0 /\ n \in Nat /\ n <= Size[l] /\ Len(s) \in Nat
        /\ c \in Seq(Cell) /\ Len(c) = n
    BY EncProperties, EncPrefix, LenProperties
  <1>2. t \in Seq(Cell) /\ Len(t) = Len(s) + n
    BY <1>1, ConcatProperties
  <1>3. \A i \in 1..Len(s) : t[i] = s[i]
    BY <1>1, ConcatProperties
  <1>4. ASSUME NEW i \in 1..n PROVE IsNewline(t[Len(s) + i]) <=> i = Size[l]
    <2>1. c[i] = [line |-> l, at |-> i]
      <3>1. i \in 1..Size[l] /\ i \in Int /\ 1 \in Int /\ n \in Int
        BY <1>1
      <3>2. \A j \in 1..n : Enc(l)[j] \in Cell
        BY <1>1, EncProperties, ElementOfSeq
      <3>3. \A j \in 1..((n - 1) + 1) : SubSeq(Enc(l), 1, n)[j] = Enc(l)[(1 + j) - 1]
        BY <3>1, <3>2, SubSeqProperties
      <3>4. i \in 1..((n - 1) + 1) /\ (1 + i) - 1 = i
        BY <1>1
      <3> QED
        BY <3>1, <3>3, <3>4, EncProperties
    <2>2. t[Len(s) + i] = c[i]
      <3>1. Len(s) + i \in 1..(Len(s) + Len(c)) /\ ~(Len(s) + i <= Len(s))
            /\ (Len(s) + i) - Len(s) = i
        BY <1>1
      <3> QED
        BY <1>1, <3>1, ConcatProperties
    <2> QED
      BY <2>1, <2>2 DEF IsNewline
  <1>5. \A i \in (Len(s) + 1)..Len(t) : i - Len(s) \in 1..n /\ Len(s) + (i - Len(s)) = i
    BY <1>1, <1>2
  <1>6. \A i \in (Len(s) + 1)..Len(t) : IsNewline(t[i]) <=> i = Len(s) + Size[l]
    BY <1>1, <1>4, <1>5
  <1>7. Newlines(t, from) = Newlines(s, from) \cup
              (IF n = Size[l] THEN {Len(s) + Size[l]} ELSE {})
    <2>1. ASSUME NEW i \in Newlines(t, from)
          PROVE  i \in Newlines(s, from) \cup (IF n = Size[l] THEN {Len(s) + Size[l]} ELSE {})
      <3>1. CASE i <= Len(s)
        <4>1. i \in 1..Len(s) /\ i \in (from + 1)..Len(s) /\ IsNewline(t[i])
          BY <1>1, <1>2, <3>1 DEF Newlines
        <4>2. IsNewline(s[i])
          BY <1>3, <4>1
        <4> QED
          BY <4>1, <4>2 DEF Newlines
      <3>2. CASE i > Len(s)
        <4>1. i \in (Len(s) + 1)..Len(t) /\ IsNewline(t[i])
          BY <1>1, <1>2, <3>2 DEF Newlines
        <4>2. i = Len(s) + Size[l] /\ n = Size[l]
          BY <1>1, <1>2, <1>6, <4>1
        <4> QED
          BY <4>2
      <3> QED
        BY <1>1, <3>1, <3>2 DEF Newlines
    <2>2. ASSUME NEW i \in Newlines(s, from) PROVE i \in Newlines(t, from)
      <3>1. i \in 1..Len(s) /\ i \in (from + 1)..Len(t) /\ IsNewline(s[i])
        BY <1>1, <1>2 DEF Newlines
      <3>2. IsNewline(t[i])
        BY <1>3, <3>1
      <3> QED
        BY <3>1, <3>2 DEF Newlines
    <2>3. ASSUME n = Size[l] PROVE Len(s) + Size[l] \in Newlines(t, from)
      <3>1. /\ Len(s) + Size[l] \in (Len(s) + 1)..Len(t)
            /\ Len(s) + Size[l] \in (from + 1)..Len(t)
        BY <1>1, <1>2, <2>3
      <3>2. IsNewline(t[Len(s) + Size[l]])
        BY <1>6, <3>1
      <3> QED
        BY <3>1, <3>2 DEF Newlines
    <2> QED
      BY <2>1, <2>2, <2>3
  <1>8. Len(s) + Size[l] \notin Newlines(s, from)
    BY <1>1 DEF Newlines
  <1>9. IsFiniteSet(Newlines(s, from)) /\ Cardinality(Newlines(s, from)) \in Nat
    BY NewlinesFinite, CountIsNat
  <1>10. n = Size[l] => Cardinality(Newlines(t, from)) = Cardinality(Newlines(s, from)) + 1
    BY <1>7, <1>8, <1>9, FS_AddElement
  <1>11. n # Size[l] => Cardinality(Newlines(t, from)) = Cardinality(Newlines(s, from))
    <2> SUFFICES ASSUME n # Size[l] PROVE Newlines(t, from) = Newlines(s, from)
      OBVIOUS
    <2> QED
      BY Zenon, <1>7
  <1> DEFINE old == Cardinality(Newlines(s, from))
             new == Cardinality(Newlines(t, from))
  <1>12. old \in Nat /\ (n = Size[l] => new = old + 1) /\ (n # Size[l] => new = old)
    BY <1>9, <1>10, <1>11
  <1>13. new = Cardinality(Newlines(s \o SubSeq(Enc(l), 1, n), from))
    OBVIOUS
  <1> HIDE DEF new, old
  <1>14. new = old + (IF n = Size[l] THEN 1 ELSE 0)
    BY <1>12
  <1> QED
    BY <1>13, <1>14 DEF old

\* A line that is read takes its newline away; only the end of the file has none.
LEMMA ReadCount ==
    ASSUME NEW s \in Seq(Cell), NEW from \in Nat, NEW to \in Nat, Reads(s, from, to)
    PROVE  /\ IsNewline(s[to]) =>
                 /\ Cardinality(Newlines(s, from)) = Cardinality(Newlines(s, to)) + 1
                 /\ Newlines(s, from) = Newlines(s, to) \cup {to}
           /\ ~IsNewline(s[to]) => Newlines(s, from) = {} /\ Newlines(s, to) = {}
  <1>1. Len(s) \in Nat /\ from < to /\ to <= Len(s)
    BY LenProperties DEF Reads
  <1>2. \A i \in (from + 1)..(to - 1) : ~IsNewline(s[i])
    BY DEF Reads
  <1>3. \A i \in (from + 1)..Len(s) : i \in (from + 1)..(to - 1) \/ i = to \/ i \in (to + 1)..Len(s)
    BY <1>1
  <1>4. /\ \A i \in (to + 1)..Len(s) : i \in (from + 1)..Len(s)
        /\ to \in (from + 1)..Len(s)
    BY <1>1
  <1>5. IsNewline(s[to]) => Newlines(s, from) = Newlines(s, to) \cup {to}
    BY <1>2, <1>3, <1>4 DEF Newlines
  <1>6. to \notin Newlines(s, to)
    BY <1>1 DEF Newlines
  <1>7. ASSUME ~IsNewline(s[to]) PROVE Newlines(s, from) = {} /\ Newlines(s, to) = {}
    <2>1. to = Len(s)
      BY <1>1, <1>7 DEF Reads
    <2>2. Newlines(s, to) = {}
      BY <1>1, <2>1 DEF Newlines
    <2> QED
      BY <1>1, <1>2, <1>3, <1>7, <2>1, <2>2 DEF Newlines
  <1>8. IsFiniteSet(Newlines(s, to)) /\ Cardinality(Newlines(s, to)) \in Nat
    BY NewlinesFinite, CountIsNat
  <1>9. IsNewline(s[to]) => Cardinality(Newlines(s, from)) = Cardinality(Newlines(s, to)) + 1
    BY <1>5, <1>6, <1>8, FS_AddElement
  <1> QED
    BY <1>5, <1>7, <1>9


\* What pending is to be: a Drain settles it last, after the lines it took.
Left == Cardinality(Newlines(file, readOffset))
Draining == pc \in {"read", "account"} \/ ret = "account"

Counted == /\ Draining => PendingAfterDrain = Left
           /\ ~Draining => pending = Left

\* Only a write that stops short leaves the file without a final newline.
EndsWhole == Without("write") /\ Len(file) > 0 => IsNewline(file[Len(file)])

\* New counts a torn line as one, so torn writes and restarts may not both happen.
Countable == Without("restart") \/ Without("write")

LEMMA CountedExact == (Countable => Counted) /\ Position => PendingExact
  BY DEF Countable, Counted, Draining, Left, Position, CompactInv, PendingExact

LEMMA InitCounted == Init => Counted /\ EndsWhole
  <1> SUFFICES ASSUME Init PROVE Counted /\ EndsWhole
    OBVIOUS
  <1>1. Len(file) = 0
    BY EmptySeq DEF Init
  <1>2. Newlines(file, readOffset) = {}
    BY <1>1 DEF Init, Newlines
  <1>3. Left = 0
    BY <1>2, FS_EmptySet DEF Left
  <1> QED
    BY <1>1, <1>3 DEF Init, Counted, Draining, EndsWhole


\* One line taken: of the lines left, and of what the Drain will leave pending.
LEMMA TakeCounted ==
    ASSUME Position, Counted, pc = "read", NEW to \in Nat, Reads(file, readOffset, to),
           readOffset' = to, UNCHANGED <<file, pending, pc>>, Removed' = Removed + 1
    PROVE  Counted'
  <1>1. /\ file \in Seq(Cell) /\ readOffset \in Nat /\ pending \in Nat /\ Removed \in Nat
    BY RemovedTyped DEF Position, TypeOK
  <1>2. Left \in Nat /\ Left' \in Nat
    BY <1>1, CountIsNat DEF Left
  <1>3. Left = (IF Removed >= pending THEN 0 ELSE pending - Removed)
    BY DEF Counted, Draining, PendingAfterDrain
  <1>4. IsNewline(file[to]) => Left = Left' + 1
    BY <1>1, ReadCount DEF Left
  <1>5. ~IsNewline(file[to]) => Left = 0 /\ Left' = 0
    BY <1>1, ReadCount, FS_EmptySet DEF Left
  <1>6. Left' = (IF Removed' >= pending' THEN 0 ELSE pending' - Removed')
    <2>1. pending' = pending /\ Removed' = Removed + 1
      OBVIOUS
    <2>2. Left = Left' + 1 \/ (Left = 0 /\ Left' = 0)
      BY <1>4, <1>5
    <2>3. PICK p \in Nat, r \in Nat, a \in Nat, b \in Nat :
             p = pending /\ r = Removed /\ a = Left /\ b = Left'
      BY <1>1, <1>2
    <2>4. a = (IF r >= p THEN 0 ELSE p - r)
      BY Zenon, <1>3, <2>3
    <2>5. a = b + 1 \/ (a = 0 /\ b = 0)
      BY Zenon, <2>2, <2>3
    <2>6. b = (IF r + 1 >= p THEN 0 ELSE p - (r + 1))
      BY <2>4, <2>5
    <2> QED
      BY Zenon, <2>1, <2>3, <2>6
  <1> QED
    BY <1>6 DEF Counted, Draining, PendingAfterDrain

LEMMA NextCounted ==
    ASSUME Position, Position', Counted, EndsWhole, [Next]_vars, Countable'
    PROVE  Counted' /\ EndsWhole'
  <1>e. Without("write")' => Without("write")
    BY WithoutBefore
  <1> USE <1>e
  <1>a. /\ TypeOK /\ FileInv /\ CompactInv /\ ReturnInv
        /\ file \in Seq(Cell) /\ Len(file) \in Nat /\ readOffset \in Nat /\ pending \in Nat
        /\ readOffset <= Len(file)
        /\ Removed \in Nat /\ drain.drained \in Nat /\ drain.skipped \in Nat
        /\ drain \in DrainLocals
    BY LenProperties, RemovedTyped DEF Position, TypeOK, FileInv
  <1>b. ASSUME UNCHANGED <<file, readOffset, pending>>, Draining' = Draining,
               Draining => Removed' = Removed
        PROVE  Counted' /\ EndsWhole'
    <2>1. Left' = Left
      BY <1>b DEF Left
    <2>2. Draining => PendingAfterDrain' = PendingAfterDrain
      BY <1>b DEF PendingAfterDrain
    <2> QED
      BY <1>b, <2>1, <2>2 DEF Counted, EndsWhole
  <1>c. ASSUME file' = <<>>, pending' = 0, ~Draining'
        PROVE  Counted' /\ EndsWhole'
    <2>1. Len(file') = 0
      BY <1>c, EmptySeq
    <2>2. readOffset' = 0
      BY <2>1 DEF Position, TypeOK, FileInv
    <2>3. Newlines(file', readOffset') = {}
      BY <2>1, <2>2 DEF Newlines
    <2>4. Left' = 0
      BY <2>3, FS_EmptySet DEF Left
    <2> QED
      BY <1>c, <2>1, <2>4 DEF Counted, EndsWhole
  <1>d. pc = "idle" => ~Draining
    BY <1>a DEF Draining, CompactInv
  <1>1. ASSUME NEW m \in Limits, SetMaxDiskMB(m) PROVE Counted' /\ EndsWhole'
    BY <1>1, <1>b DEF SetMaxDiskMB, disk, Draining, Removed
  <1>2. ASSUME NEW l \in Lines, EnqueueStored(l) PROVE Counted' /\ EndsWhole'
    <2>1. /\ pc = "idle" /\ UNCHANGED <<pc, ret, readOffset>> /\ pending' = pending + 1
          /\ file' = file \o Enc(l)
      BY <1>2 DEF EnqueueStored, Call, Write
    <2>2. SubSeq(Enc(l), 1, Size[l]) = Enc(l) /\ Size[l] \in 0..Size[l] /\ Size[l] > 0
          /\ Enc(l) \in Seq(Cell) /\ Len(Enc(l)) = Size[l] /\ Size[l] \in Nat
      BY EncProperties, SubSeqFull
    <2>3. Cardinality(Newlines(file \o SubSeq(Enc(l), 1, Size[l]), readOffset)) =
             Cardinality(Newlines(file, readOffset)) + 1
      BY <1>a, <2>2, WriteCount
    <2>4. Left' = Left + 1
      BY <2>1, <2>2, <2>3 DEF Left
    <2>5. ~Draining /\ ~Draining'
      BY <1>d, <2>1 DEF Draining
    <2>6. Len(file') = Len(file) + Size[l] /\ file'[Len(file) + Size[l]] = Enc(l)[Size[l]]
      <3>1. Len(file) + Size[l] \in 1..(Len(file) + Len(Enc(l)))
            /\ ~(Len(file) + Size[l] <= Len(file)) /\ (Len(file) + Size[l]) - Len(file) = Size[l]
        BY <1>a, <2>2
      <3>2. /\ Len(file \o Enc(l)) = Len(file) + Len(Enc(l))
            /\ (file \o Enc(l))[Len(file) + Size[l]] = Enc(l)[(Len(file) + Size[l]) - Len(file)]
        BY <1>a, <2>2, <3>1, ConcatProperties
      <3> QED
        BY Zenon, <2>1, <2>2, <3>1, <3>2
    <2>7. IsNewline(Enc(l)[Size[l]])
      <3>1. Size[l] \in 1..Size[l]
        BY <2>2
      <3>2. Enc(l)[Size[l]] = [line |-> l, at |-> Size[l]]
        BY <3>1, EncProperties
      <3> QED
        BY <3>2 DEF IsNewline
    <2> QED
      BY <2>1, <2>4, <2>5, <2>6, <2>7 DEF Counted, EndsWhole
  <1>3. ASSUME NEW l \in Lines, EnqueueFull(l) PROVE Counted' /\ EndsWhole'
    BY <1>3, <1>b DEF EnqueueFull, disk, Draining, Removed
  <1>4. ASSUME NEW l \in Lines, EnqueueFails(l) PROVE Counted' /\ EndsWhole'
    <2>1. PICK n \in 0..(Size[l] - 1) : Write(SubSeq(Enc(l), 1, n))
      BY <1>4 DEF EnqueueFails
    <2>2. n \in 0..Size[l] /\ n # Size[l]
      BY EncProperties
    <2>3. Cardinality(Newlines(file \o SubSeq(Enc(l), 1, n), readOffset)) =
             Cardinality(Newlines(file, readOffset)) + 0
      BY <1>a, <2>2, WriteCount
    <2>4. Left \in Nat
      BY <1>a, CountIsNat DEF Left
    <2>5. Left' = Left
      BY SMTT(30), <1>4, <2>1, <2>3, <2>4 DEF Left, EnqueueFails, Write
    <2>6. /\ pc = "idle" /\ UNCHANGED <<pc, ret, pending>> /\ ~Without("write")'
      BY <1>4, FaultRecorded DEF EnqueueFails, Call
    <2>7. ~Draining /\ ~Draining'
      BY <1>d, <2>6 DEF Draining
    <2> QED
      BY <2>5, <2>6, <2>7 DEF Counted, EndsWhole
  <1>5. CASE Save
    BY <1>5, <1>a, <1>b DEF Save, SaveOpen, SaveWrite, SaveFails, disk, memory, Draining,
                            Removed, TypeOK, ReturnInv, CompactInv
  <1>6. ASSUME NEW to \in 1..Len(file), NEW text, SubmitLine(to, text)
        PROVE  Counted' /\ EndsWhole'
    <2>1. /\ pc = "read" /\ Reads(file, readOffset, to) /\ readOffset' = to
          /\ UNCHANGED <<file, pending, pc>>
      BY <1>6 DEF SubmitLine, disk
    <2>2. Removed' = Removed + 1
      BY <1>6, <1>a DEF SubmitLine, Removed, DrainLocals
    <2>3. to \in Nat
      BY <1>a
    <2> QED
      BY <2>1, <2>2, <2>3, TakeCounted DEF EndsWhole
  <1>7. ASSUME NEW to \in 1..Len(file), SkipLine(to) PROVE Counted' /\ EndsWhole'
    <2>1. /\ pc = "read" /\ Reads(file, readOffset, to) /\ readOffset' = to
          /\ UNCHANGED <<file, pending, pc>>
      BY <1>7 DEF SkipLine, disk
    <2>2. Removed' = Removed + 1
      BY <1>7, <1>a DEF SkipLine, Removed, DrainLocals
    <2>3. to \in Nat
      BY <1>a
    <2> QED
      BY <2>1, <2>2, <2>3, TakeCounted DEF EndsWhole
  <1>8. ASSUME NEW to, RefuseLine(to) PROVE Counted' /\ EndsWhole'
    BY <1>8, <1>b DEF RefuseLine, OffsetAfterRefusal, LeaveLoop, disk, Draining, Removed
  <1>9. CASE DrainBegin
    <2>1. /\ pc = "idle" /\ pc' = "read" /\ UNCHANGED <<file, readOffset, pending>>
      BY <1>9, <1>a DEF DrainBegin, disk
    <2>2. Removed' = 0
      BY <1>9 DEF DrainBegin, NoDrain, Removed
    <2>3. PendingAfterDrain' = pending
      BY <1>a, <2>1, <2>2 DEF PendingAfterDrain
    <2>4. Left' = Left /\ pending = Left
      BY <1>d, <2>1 DEF Left, Counted
    <2> QED
      BY <2>1, <2>3, <2>4 DEF Counted, Draining, EndsWhole
  <1>10. CASE DrainEnds \/ DrainFails
    BY <1>10, <1>b DEF DrainEnds, DrainFails, LeaveLoop, disk, memory, Draining, Removed
  <1>11. CASE Account
    <2>1. /\ pc = "account" /\ pc' \in {"compact", "idle"} /\ pending' = PendingAfterDrain
          /\ UNCHANGED <<file, readOffset, ret>>
      BY <1>11 DEF Account, disk
    <2>2. Draining /\ ~Draining'
      BY <1>a, <2>1 DEF Draining, CompactInv
    <2>3. Left' = Left
      BY <2>1 DEF Left
    <2> QED
      BY <2>1, <2>2, <2>3 DEF Counted, EndsWhole
  <1>12. CASE CompactTruncate \/ Clear
    BY <1>12, <1>c DEF CompactTruncate, Clear, Call, Draining
  <1>13. CASE CompactCopy \/ CompactFails
    BY <1>13, <1>b DEF CompactCopy, CompactFails, memory, Draining, Removed
  <1>14. CASE CompactRename
    <2>1. /\ pc = "rename" /\ file' = Unread /\ readOffset' = 0
          /\ pc' = "save" /\ ret' = "idle" /\ UNCHANGED pending
      BY <1>14, <1>a DEF CompactRename, CompactInv
    <2>2. /\ Unread \in Seq(Cell) /\ Len(Unread) = Len(file) - readOffset
          /\ \A i \in 1..(Len(file) - readOffset) : Unread[i] = file[readOffset + i]
      BY <1>a, UnreadProperties
    <2>3. Len(Unread) - 0 = Len(file) - readOffset
      BY <1>a, <2>2
    <2>4. \A i \in 1..(Len(Unread) - 0) : Unread[0 + i] = file[readOffset + i]
      BY <1>a, <2>2, <2>3
    <2>5. Cardinality(Newlines(Unread, 0)) = Cardinality(Newlines(file, readOffset))
      BY <1>a, <2>2, <2>3, <2>4, SameCount
    <2>6. Left' = Left
      BY <2>1, <2>5 DEF Left
    <2>7. ~Draining /\ ~Draining'
      BY <1>a, <2>1 DEF Draining, CompactInv
    <2>8. EndsWhole'
      <3> SUFFICES ASSUME Without("write")', Len(file') > 0
                   PROVE  IsNewline(file'[Len(file')])
        BY DEF EndsWhole
      <3>1. Len(file') = Len(file) - readOffset /\ Len(file) > 0
        BY <1>a, <2>1, <2>2
      <3>2. Len(file) - readOffset \in 1..(Len(file) - readOffset)
            /\ readOffset + (Len(file) - readOffset) = Len(file)
        BY <1>a, <3>1
      <3>3. file'[Len(file')] = file[Len(file)]
        BY <2>1, <2>2, <3>1, <3>2
      <3> QED
        BY <3>1, <3>3 DEF EndsWhole
    <2> QED
      BY <2>1, <2>6, <2>7, <2>8 DEF Counted
  <1>15. CASE ClearFails
    BY <1>15, <1>b DEF ClearFails, disk, Draining, Removed
  <1>16. CASE Restart
    <2>1. /\ readOffset' = RestartOffset /\ pending' = CountQueueLines(file, RestartOffset)
          /\ UNCHANGED file /\ Without("write")
          /\ pc' \in {"save", "idle"} /\ ret' = "idle"
      BY <1>16, FaultRecorded DEF Restart, Countable, disk
    <2>2. RestartOffset \in Nat
      BY <1>a DEF RestartOffset, TypeOK
    <2>3. ~(Len(file) > RestartOffset /\ ~IsNewline(file[Len(file)]))
      BY <1>a, <2>1, <2>2 DEF EndsWhole
    <2>4. Cardinality(Newlines(file, RestartOffset)) \in Nat
      BY <1>a, <2>2, CountIsNat
    <2>5. CountQueueLines(file, RestartOffset) = Cardinality(Newlines(file, RestartOffset))
      BY <2>3, <2>4 DEF CountQueueLines
    <2>6. pending' = Left'
      BY <2>1, <2>5 DEF Left
    <2>7. ~Draining'
      BY <2>1 DEF Draining
    <2> QED
      BY <2>1, <2>6, <2>7 DEF Counted, EndsWhole
  <1>17. CASE UNCHANGED vars
    BY <1>17, <1>b DEF vars, disk, memory, Draining, Removed
  <1> QED
    BY <1>1, <1>2, <1>3, <1>4, <1>5, <1>6, <1>7, <1>8, <1>9, <1>10, <1>11, <1>12, <1>13,
       <1>14, <1>15, <1>16, <1>17 DEF Next, Enqueue, Submit, Drain, Compact

\* pending is exact whenever no method is under way: a Drain that meets the end
\* of a torn file takes one line more than pending counts, and is the last.
\* Only New, which counts a torn line as one, may leave it too high.
THEOREM PendingIsExact == Spec => []PendingExact
  <1> DEFINE Inv == Position /\ (Countable => Counted) /\ EndsWhole
  <1>1. Init => Inv
    BY InitPosition, InitCounted
  <1>2. Inv /\ [Next]_vars => Inv'
    <2> SUFFICES ASSUME Inv, [Next]_vars PROVE Inv'
      OBVIOUS
    <2>1. Position'
      BY NextPosition
    <2>2. CASE Countable'
      <3>1. Countable
        BY <2>2, WithoutBefore DEF Countable
      <3> QED
        BY <2>1, <2>2, <3>1, NextCounted
    <2>3. CASE ~Countable'
      BY <2>1, <2>3 DEF Countable, EndsWhole
    <2> QED
      BY <2>2, <2>3
  <1>3. Inv => PendingExact
    BY CountedExact
  <1> QED
    BY <1>1, <1>2, <1>3, PTL DEF Spec


-------------------------------------------------------------------------------
\* Damage.  The log is a run of lines, some of them cut short: a cell follows
\* the one before it in the same line or starts a line.

TornIn(s) == {i \in 1..Len(s) : /\ ~IsNewline(s[i])
                                /\ i < Len(s) => s[i + 1].at = 1}

RunsOf(s) ==
    \A i \in 1..Len(s) :
        /\ s[i].at \in 1..Size[s[i].line]
        /\ s[i].at > 1 => i > 1 /\ s[i - 1].line = s[i].line /\ s[i - 1].at = s[i].at - 1

\* A line starts after place h, or the log ends there.
StartsAt(s, h) == h = 0 \/ (h \in 1..Len(s) /\ (IsNewline(s[h]) \/ h \in TornIn(s)))

PassedBy(s, h) == {i \in Newlines(s, 0) : i <= h}
TornBy(s, h) == {i \in TornIn(s) : i <= h}
WholeIn(t) == {i \in 1..Len(t) : t[i] \in Lines}

LEMMA DamageFinite ==
    ASSUME NEW s \in Seq(Cell), NEW h
    PROVE  /\ IsFiniteSet(PassedBy(s, h)) /\ Cardinality(PassedBy(s, h)) \in Nat
           /\ IsFiniteSet(TornBy(s, h)) /\ Cardinality(TornBy(s, h)) \in Nat
           /\ IsFiniteSet(TornIn(s)) /\ Cardinality(TornIn(s)) \in Nat
  <1>1. IsFiniteSet(1..Len(s)) /\ IsFiniteSet(Newlines(s, 0))
    BY LenProperties, FS_Interval, NewlinesFinite
  <1>2. PassedBy(s, h) \subseteq Newlines(s, 0) /\ TornBy(s, h) \subseteq TornIn(s)
        /\ TornIn(s) \subseteq 1..Len(s)
    BY DEF PassedBy, TornBy, TornIn
  <1>3. IsFiniteSet(PassedBy(s, h)) /\ IsFiniteSet(TornIn(s))
    BY <1>1, <1>2, FS_Subset
  <1>4. IsFiniteSet(TornBy(s, h))
    BY <1>2, <1>3, FS_Subset
  <1> QED
    BY <1>3, <1>4, FS_CardinalityType

LEMMA WholeFinite ==
    ASSUME NEW T, NEW t \in Seq(T)
    PROVE  IsFiniteSet(WholeIn(t)) /\ Cardinality(WholeIn(t)) \in Nat
  <1>1. IsFiniteSet(1..Len(t))
    BY LenProperties, FS_Interval
  <1>2. IsFiniteSet(WholeIn(t))
    BY <1>1, FS_Subset DEF WholeIn
  <1> QED
    BY <1>2, FS_CardinalityType

\* A text handed downstream counts if it is a line.
LEMMA WholeAppend ==
    ASSUME NEW T, NEW t \in Seq(T), NEW d \in T
    PROVE  Cardinality(WholeIn(Append(t, d))) =
              Cardinality(WholeIn(t)) + (IF d \in Lines THEN 1 ELSE 0)
  <1>1. /\ Len(t) \in Nat /\ Len(Append(t, d)) = Len(t) + 1
        /\ \A i \in 1..Len(t) : Append(t, d)[i] = t[i]
        /\ Append(t, d)[Len(t) + 1] = d
    BY LenProperties, AppendProperties
  <1>2. \A i : i \in 1..(Len(t) + 1) <=> i \in 1..Len(t) \/ i = Len(t) + 1
    BY <1>1
  <1>3. Len(t) + 1 \notin WholeIn(t)
    BY <1>1 DEF WholeIn
  <1>4. IsFiniteSet(WholeIn(t)) /\ Cardinality(WholeIn(t)) \in Nat
    BY WholeFinite
  <1>5. CASE d \in Lines
    <2>1. WholeIn(Append(t, d)) = WholeIn(t) \cup {Len(t) + 1}
      BY <1>1, <1>2, <1>5 DEF WholeIn
    <2> QED
      BY <1>3, <1>4, <1>5, <2>1, FS_AddElement
  <1>6. CASE d \notin Lines
    <2>1. WholeIn(Append(t, d)) = WholeIn(t)
      BY <1>1, <1>2, <1>6 DEF WholeIn
    <2> QED
      BY <1>4, <1>6, <2>1
  <1> QED
    BY <1>5, <1>6

\* The encoding of a line that is not empty gives that line.
LEMMA DecodeWhole ==
    ASSUME NEW l \in Lines, Size[l] > 1, NEW d \in Decode(Enc(l))
    PROVE  d \in Lines
  <1>1. /\ Size[l] \in Nat /\ Enc(l) \in Seq(Cell) /\ Len(Enc(l)) = Size[l]
        /\ Enc(l)[Size[l]] = [line |-> l, at |-> Size[l]]
    BY EncProperties
  <1>2. IsNewline(Enc(l)[Len(Enc(l))]) /\ Enc(l) # <<>>
    BY <1>1, EmptySeq DEF IsNewline
  <1>3. Trim(Enc(l)) = SubSeq(Enc(l), 1, Size[l] - 1)
    BY <1>1, <1>2 DEF Trim
  <1>4. Size[l] - 1 \in 0..Size[l]
    BY <1>1
  <1>5. Len(Trim(Enc(l))) = Size[l] - 1
    BY <1>3, <1>4, EncPrefix
  <1>6. Trim(Enc(l)) # <<>>
    BY <1>1, <1>5, EmptySeq
  <1> DEFINE whole == {k \in Lines : Trim(Enc(l)) = Trim(Enc(k))}
  <1>7. l \in whole
    OBVIOUS
  <1>8. Decode(Enc(l)) = whole
    BY <1>6, <1>7, Zenon DEF Decode
  <1> QED
    BY <1>8


\* What is read from the start of a line and holds no torn cell is that line.
LEMMA WholeSegment ==
    ASSUME NEW s \in Seq(Cell), RunsOf(s), NEW from \in Nat, NEW to \in Nat,
           Reads(s, from, to), StartsAt(s, from),
           \A j \in (from + 1)..to : j \notin TornIn(s)
    PROVE  \E l \in Lines : SubSeq(s, from + 1, to) = Enc(l)
  <1>1. Len(s) \in Nat /\ from < to /\ to <= Len(s)
    BY LenProperties DEF Reads
  <1>2. \A i \in 1..Len(s) : /\ s[i] \in Cell /\ s[i].line \in Lines /\ s[i].at \in Nat
                             /\ Size[s[i].line] \in Nat
                             /\ s[i].at >= 1 /\ s[i].at <= Size[s[i].line]
    <2>1. ASSUME NEW i \in 1..Len(s)
          PROVE  /\ s[i] \in Cell /\ s[i].line \in Lines /\ s[i].at \in Nat
                 /\ Size[s[i].line] \in Nat
                 /\ s[i].at >= 1 /\ s[i].at <= Size[s[i].line]
      <3>1. s[i] \in Cell
        BY <1>1, ElementOfSeq
      <3>2. s[i].line \in Lines /\ s[i].at \in Nat
        BY <3>1 DEF Cell
      <3>3. Size[s[i].line] \in Nat
        BY <3>2, EncProperties
      <3>4. s[i].at \in 1..Size[s[i].line]
        BY DEF RunsOf
      <3> QED
        BY <3>1, <3>2, <3>3, <3>4
    <2> QED
      BY <2>1
  <1>3. IsNewline(s[to])
    <2> SUFFICES ASSUME ~IsNewline(s[to]) PROVE FALSE
      OBVIOUS
    <2>1. to = Len(s)
      BY <1>1 DEF Reads
    <2>2. to \in TornIn(s)
      BY <1>1, <2>1 DEF TornIn
    <2> QED
      BY <1>1, <2>2
  <1>4. from + 1 \in 1..Len(s)
    BY <1>1
  <1>5. s[from + 1].at = 1
    <2> SUFFICES ASSUME s[from + 1].at > 1 PROVE FALSE
      BY <1>2, <1>4
    <2>1. /\ from + 1 > 1 /\ s[(from + 1) - 1].line = s[from + 1].line
          /\ s[(from + 1) - 1].at = s[from + 1].at - 1
      BY <1>4 DEF RunsOf
    <2>2. (from + 1) - 1 = from /\ from \in 1..Len(s) /\ from < Len(s) /\ from # 0
      BY <1>1, <2>1
    <2>3. s[from].line = s[from + 1].line /\ s[from].at = s[from + 1].at - 1
      BY <2>1, <2>2
    <2>4. CASE IsNewline(s[from])
      <3>1. s[from].at = Size[s[from].line]
        BY <2>4 DEF IsNewline
      <3> QED
        BY <1>2, <1>4, <2>3, <3>1
    <2>5. CASE from \in TornIn(s)
      BY <1>2, <1>4, <2>2, <2>5 DEF TornIn
    <2> QED
      BY <2>2, <2>4, <2>5 DEF StartsAt
  <1> DEFINE L == s[from + 1].line
             m == to - from
             Bad == {k \in 1..m : ~(s[from + k].line = L /\ s[from + k].at = k)}
  <1>6. L \in Lines /\ m \in Nat /\ m >= 1
    BY <1>1, <1>2, <1>4
  <1>7. Bad = {}
    <2> SUFFICES ASSUME Bad # {} PROVE FALSE
      OBVIOUS
    <2>1. Bad \in SUBSET Nat
      BY <1>6
    <2>2. PICK k \in Bad : \A j \in Bad : k <= j
      BY <2>1, LeastNumber
    <2>3. k \in Nat /\ k # 1 /\ k >= 1 /\ k <= m
      BY <1>5, <1>6, <2>2
    <2>4. k - 1 \in 1..m /\ k - 1 \notin Bad
      <3>1. k - 1 \in 1..m /\ ~(k <= k - 1)
        BY <1>6, <2>3
      <3> HIDE DEF Bad
      <3> QED
        BY <2>2, <3>1
    <2>5. s[from + (k - 1)].line = L /\ s[from + (k - 1)].at = k - 1
      BY <2>4
    <2>6. /\ from + (k - 1) \in (from + 1)..(to - 1) /\ from + (k - 1) \in 1..Len(s)
          /\ from + (k - 1) \in (from + 1)..to
          /\ from + (k - 1) < Len(s) /\ (from + (k - 1)) + 1 = from + k
          /\ from + k \in 1..Len(s) /\ (from + k) - 1 = from + (k - 1)
      BY <1>1, <1>6, <2>3
    <2>7. ~IsNewline(s[from + (k - 1)])
      BY <2>6 DEF Reads
    <2>8. s[from + k].at # 1
      BY <2>6, <2>7 DEF TornIn
    <2>9. s[from + k].at > 1
      BY <1>2, <2>6, <2>8
    <2>10. /\ s[(from + k) - 1].line = s[from + k].line
           /\ s[(from + k) - 1].at = s[from + k].at - 1
      BY <2>6, <2>9 DEF RunsOf
    <2>11. s[from + k].line = L
      BY <2>5, <2>6, <2>10
    <2>12. s[from + k].at - 1 = k - 1
      BY <2>5, <2>6, <2>10
    <2>13. s[from + k].at \in Nat
      BY <1>2, <2>6
    <2>14. s[from + k].at = k
      BY <2>3, <2>12, <2>13
    <2> QED
      BY <2>2, <2>11, <2>14
  <1>8. ASSUME NEW k \in 1..m PROVE s[from + k] = [line |-> L, at |-> k]
    <2>1. s[from + k].line = L /\ s[from + k].at = k
      BY <1>7
    <2>2. from + k \in 1..Len(s)
      BY <1>1, <1>6
    <2> QED
      BY <1>2, <2>1, <2>2 DEF Cell
  <1>9. Size[L] = m
    <2>1. m \in 1..m /\ from + m = to
      BY <1>1, <1>6
    <2>2. s[to].line = L /\ s[to].at = m
      BY <1>7, <2>1
    <2> QED
      BY <1>3, <2>2 DEF IsNewline
  <1> HIDE DEF L, m, Bad
  <1>10. /\ SubSeq(s, from + 1, to) \in Seq(Cell) /\ Len(SubSeq(s, from + 1, to)) = m
         /\ \A k \in 1..m : SubSeq(s, from + 1, to)[k] = s[from + k]
    <2>1. from + 1 \in Int /\ to \in Int /\ \A i \in (from + 1)..to : s[i] \in Cell
      BY <1>1, <1>2
    <2>2. /\ SubSeq(s, from + 1, to) \in Seq(Cell)
          /\ Len(SubSeq(s, from + 1, to)) = IF from + 1 <= to THEN to - (from + 1) + 1 ELSE 0
          /\ \A i \in 1..(to - (from + 1) + 1) :
                SubSeq(s, from + 1, to)[i] = s[(from + 1) + i - 1]
      BY <2>1, SubSeqProperties
    <2>3. \A k \in 1..m : k \in 1..(to - (from + 1) + 1) /\ (from + 1) + k - 1 = from + k
      BY <1>1 DEF m
    <2> QED
      BY <1>1, <2>2, <2>3 DEF m
  <1>11. /\ Enc(L) \in Seq(Cell) /\ Len(Enc(L)) = m
         /\ \A k \in 1..m : Enc(L)[k] = [line |-> L, at |-> k]
    BY <1>6, <1>9, EncProperties
  <1>12. SubSeq(s, from + 1, to) = Enc(L)
    <2>1. \A k \in 1..m : SubSeq(s, from + 1, to)[k] = Enc(L)[k]
      BY <1>8, <1>10, <1>11
    <2> QED
      BY <1>10, <1>11, <2>1, SeqEqual
  <1> QED
    BY <1>6, <1>12

\* What is written leaves the older part of the log as it was read.
LEMMA WriteRuns ==
    ASSUME NEW s \in Seq(Cell), RunsOf(s), NEW l \in Lines, NEW n \in 0..Size[l]
    PROVE  LET t == s \o SubSeq(Enc(l), 1, n)
           IN  /\ RunsOf(t)
               /\ \A h \in 0..Len(s) : /\ PassedBy(t, h) = PassedBy(s, h)
                                       /\ TornBy(t, h) = TornBy(s, h)
                                       /\ StartsAt(s, h) => StartsAt(t, h)
  <1> DEFINE c == SubSeq(Enc(l), 1, n)
             t == s \o c
  <1>1. /\ Size[l] \in Nat /\ Size[l] > 0 /\ n \in Nat /\ n <= Size[l] /\ Len(s) \in Nat
        /\ c \in Seq(Cell) /\ Len(c) = n
    BY EncProperties, EncPrefix, LenProperties
  <1>2. t \in Seq(Cell) /\ Len(t) = Len(s) + n
    BY <1>1, ConcatProperties
  <1>3. \A i \in 1..Len(s) : t[i] = s[i]
    BY <1>1, ConcatProperties
  <1>4. ASSUME NEW i \in 1..n PROVE t[Len(s) + i] = [line |-> l, at |-> i]
    <2>1. c[i] = [line |-> l, at |-> i]
      <3>1. i \in 1..Size[l] /\ i \in Int /\ 1 \in Int /\ n \in Int
        BY <1>1
      <3>2. \A j \in 1..n : Enc(l)[j] \in Cell
        BY <1>1, EncProperties, ElementOfSeq
      <3>3. \A j \in 1..((n - 1) + 1) : SubSeq(Enc(l), 1, n)[j] = Enc(l)[(1 + j) - 1]
        BY <3>1, <3>2, SubSeqProperties
      <3>4. i \in 1..((n - 1) + 1) /\ (1 + i) - 1 = i
        BY <1>1
      <3> QED
        BY <3>1, <3>3, <3>4, EncProperties
    <2>2. Len(s) + i \in 1..(Len(s) + Len(c)) /\ ~(Len(s) + i <= Len(s))
          /\ (Len(s) + i) - Len(s) = i
      BY <1>1
    <2>3. t[Len(s) + i] = c[i]
      BY <1>1, <2>2, ConcatProperties
    <2> QED
      BY <2>1, <2>3
  <1>5. RunsOf(t)
    <2> SUFFICES ASSUME NEW i \in 1..Len(t)
                 PROVE  /\ t[i].at \in 1..Size[t[i].line]
                        /\ t[i].at > 1 => /\ i > 1 /\ t[i - 1].line = t[i].line
                                          /\ t[i - 1].at = t[i].at - 1
      BY DEF RunsOf
    <2>1. CASE i <= Len(s)
      <3>1. i \in 1..Len(s) /\ t[i] = s[i] /\ (i > 1 => t[i - 1] = s[i - 1])
        BY <1>1, <1>2, <1>3, <2>1
      <3> QED
        BY <3>1 DEF RunsOf
    <2>2. CASE i > Len(s)
      <3>1. PICK k \in 1..n : i = Len(s) + k
        <4>1. i - Len(s) \in 1..n /\ i = Len(s) + (i - Len(s))
          BY <1>1, <1>2, <2>2
        <4> QED
          BY <4>1
      <3>2. t[i].line = l /\ t[i].at = k /\ k \in 1..Size[l]
        <4>1. t[Len(s) + k] = [line |-> l, at |-> k]
          BY <1>4
        <4>2. t[i] = [line |-> l, at |-> k]
          BY <3>1, <4>1
        <4>3. k \in 1..Size[l]
          BY <1>1
        <4> QED
          BY <4>2, <4>3
      <3>3. ASSUME k > 1
            PROVE  i > 1 /\ t[i - 1].line = l /\ t[i - 1].at = k - 1
        <4>1. k - 1 \in 1..n /\ i - 1 = Len(s) + (k - 1) /\ i > 1
          BY <1>1, <3>1, <3>3
        <4>2. t[Len(s) + (k - 1)] = [line |-> l, at |-> k - 1]
          BY <1>4, <4>1
        <4>3. t[i - 1] = [line |-> l, at |-> k - 1]
          BY <4>1, <4>2
        <4> QED
          BY <4>1, <4>3
      <3> QED
        BY <3>2, <3>3
    <2> QED
      BY <1>1, <1>2, <2>1, <2>2
  <1>6. ASSUME NEW i \in 1..Len(s) PROVE i \in TornIn(t) <=> i \in TornIn(s)
    <2>1. i \in 1..Len(t) /\ t[i] = s[i]
      BY <1>1, <1>2, <1>3
    <2>2. CASE i < Len(s)
      <3>1. i < Len(t) /\ t[i + 1] = s[i + 1]
        BY <1>1, <1>2, <1>3, <2>2
      <3> QED
        BY <2>1, <2>2, <3>1 DEF TornIn
    <2>3. CASE i = Len(s)
      <3>1. i < Len(t) => t[i + 1].at = 1
        <4> SUFFICES ASSUME i < Len(t) PROVE t[i + 1].at = 1
          OBVIOUS
        <4>1. 1 \in 1..n /\ i + 1 = Len(s) + 1
          BY <1>1, <1>2, <2>3
        <4>2. t[Len(s) + 1] = [line |-> l, at |-> 1]
          BY <1>4, <4>1
        <4> QED
          BY <4>1, <4>2
      <3> QED
        BY <1>1, <2>1, <2>3, <3>1 DEF TornIn
    <2> QED
      BY <1>1, <2>2, <2>3
  <1>7. ASSUME NEW h \in 0..Len(s)
        PROVE  /\ PassedBy(t, h) = PassedBy(s, h)
               /\ TornBy(t, h) = TornBy(s, h)
               /\ StartsAt(s, h) => StartsAt(t, h)
    <2>1. \A i : i \in PassedBy(t, h) => i \in 1..Len(s)
      BY <1>1, <1>2 DEF PassedBy, Newlines
    <2>2. \A i : i \in PassedBy(s, h) => i \in 1..Len(s) /\ i \in 1..Len(t)
      BY <1>1, <1>2 DEF PassedBy, Newlines
    <2>3. PassedBy(t, h) = PassedBy(s, h)
      BY <1>1, <1>2, <1>3, <2>1, <2>2 DEF PassedBy, Newlines
    <2>4. \A i : i \in TornBy(t, h) => i \in 1..Len(s) /\ i <= h
      BY <1>1, <1>2 DEF TornBy, TornIn
    <2>5. \A i : i \in TornBy(s, h) => i \in 1..Len(s) /\ i <= h
      BY <1>1 DEF TornBy, TornIn
    <2>6. TornBy(t, h) = TornBy(s, h)
      BY <1>6, <2>4, <2>5 DEF TornBy
    <2>7. StartsAt(s, h) => StartsAt(t, h)
      BY <1>1, <1>2, <1>3, <1>6 DEF StartsAt
    <2> QED
      BY <2>3, <2>6, <2>7
  <1> QED
    BY <1>5, <1>7


\* Up to place h the log holds at most w whole lines more than torn cells.
Within(s, w, h) == Cardinality(PassedBy(s, h)) <= w + Cardinality(TornBy(s, h))

LEMMA MoreWithin ==
    ASSUME NEW s \in Seq(Cell), NEW w \in Nat, NEW v \in Nat, NEW h,
           w <= v, Within(s, w, h)
    PROVE  Within(s, v, h)
  BY DamageFinite DEF Within

\* What a reader takes is a whole line handed downstream, or ends in a part of
\* the log that holds a torn cell.
LEMMA TakeWithin ==
    ASSUME NEW s \in Seq(Cell), RunsOf(s), NEW from \in Nat, NEW to \in Nat,
           Reads(s, from, to), StartsAt(s, from), \A l \in Lines : Size[l] > 1,
           NEW d \in Decode(SubSeq(s, from + 1, to)),
           NEW w \in Nat, NEW v \in Nat, v = w + (IF d \in Lines THEN 1 ELSE 0),
           \A h \in 0..from : Within(s, w, h)
    PROVE  StartsAt(s, to) /\ \A h \in 0..to : Within(s, v, h)
  <1>1. Len(s) \in Nat /\ from < to /\ to <= Len(s) /\ w <= v
    BY LenProperties DEF Reads
  <1>2. \A i \in (from + 1)..(to - 1) : ~IsNewline(s[i])
    BY DEF Reads
  <1>3. StartsAt(s, to)
    <2>1. to \in 1..Len(s)
      BY <1>1
    <2>2. ~IsNewline(s[to]) => to \in TornIn(s)
      BY <1>1, <2>1 DEF Reads, TornIn
    <2> QED
      BY <2>1, <2>2 DEF StartsAt
  <1>4. Within(s, w, from)
    BY <1>1
  <1>5. ASSUME NEW h \in (from + 1)..to
        PROVE  /\ TornBy(s, from) \subseteq TornBy(s, h)
               /\ Cardinality(TornBy(s, from)) <= Cardinality(TornBy(s, h))
    <2>1. TornBy(s, from) \subseteq TornBy(s, h)
      BY <1>1 DEF TornBy, TornIn
    <2> QED
      BY <2>1, DamageFinite, FS_Subset
  <1>6. ASSUME NEW h \in (from + 1)..to, h < to \/ ~IsNewline(s[to])
        PROVE  Within(s, v, h)
    <2>1. PassedBy(s, h) = PassedBy(s, from)
      <3>1. ASSUME NEW i \in PassedBy(s, h) PROVE i \in PassedBy(s, from)
        <4>1. i \in 1..Len(s) /\ IsNewline(s[i]) /\ i <= h
          BY DEF PassedBy, Newlines
        <4>2. i \notin (from + 1)..(to - 1) /\ i # to
          BY <1>1, <1>2, <1>6, <4>1
        <4>3. i <= from
          BY <1>1, <4>1, <4>2
        <4> QED
          BY <4>1, <4>3 DEF PassedBy, Newlines
      <3>2. ASSUME NEW i \in PassedBy(s, from) PROVE i \in PassedBy(s, h)
        BY <1>1 DEF PassedBy, Newlines
      <3> QED
        BY <3>1, <3>2
    <2>2. Cardinality(PassedBy(s, from)) <= w + Cardinality(TornBy(s, from))
      BY <1>4 DEF Within
    <2>3. Cardinality(TornBy(s, from)) <= Cardinality(TornBy(s, h))
      BY <1>5
    <2>4. /\ Cardinality(PassedBy(s, h)) \in Nat /\ Cardinality(TornBy(s, from)) \in Nat
          /\ Cardinality(TornBy(s, h)) \in Nat
      BY DamageFinite
    <2>5. Cardinality(PassedBy(s, h)) = Cardinality(PassedBy(s, from))
      BY <2>1
    <2>6. Cardinality(PassedBy(s, h)) <= v + Cardinality(TornBy(s, h))
      BY <1>1, <2>2, <2>3, <2>4, <2>5
    <2> QED
      BY <2>6 DEF Within
  <1>7. ASSUME IsNewline(s[to]) PROVE Within(s, v, to)
    <2>1. PassedBy(s, to) = PassedBy(s, from) \cup {to}
      <3>1. ASSUME NEW i \in PassedBy(s, to) PROVE i \in PassedBy(s, from) \cup {to}
        <4>1. i \in 1..Len(s) /\ IsNewline(s[i]) /\ i <= to
          BY DEF PassedBy, Newlines
        <4>2. i \notin (from + 1)..(to - 1)
          BY <1>2, <4>1
        <4>3. i <= from \/ i = to
          BY <1>1, <4>1, <4>2
        <4> QED
          BY <4>1, <4>3 DEF PassedBy, Newlines
      <3>2. ASSUME NEW i \in PassedBy(s, from) PROVE i \in PassedBy(s, to)
        BY <1>1 DEF PassedBy, Newlines
      <3>3. to \in PassedBy(s, to)
        BY <1>1, <1>7 DEF PassedBy, Newlines
      <3> QED
        BY <3>1, <3>2, <3>3
    <2>2. to \notin PassedBy(s, from)
      BY <1>1 DEF PassedBy
    <2>3. Cardinality(PassedBy(s, to)) = Cardinality(PassedBy(s, from)) + 1
      BY <2>1, <2>2, DamageFinite, FS_AddElement
    <2>4. Cardinality(PassedBy(s, from)) <= w + Cardinality(TornBy(s, from))
      BY <1>4 DEF Within
    <2>5. /\ Cardinality(PassedBy(s, from)) \in Nat /\ Cardinality(TornBy(s, from)) \in Nat
          /\ Cardinality(TornBy(s, to)) \in Nat
      BY DamageFinite
    <2>6. to \in (from + 1)..to
      BY <1>1
    <2>7. CASE \A j \in (from + 1)..to : j \notin TornIn(s)
      <3>1. PICK l \in Lines : SubSeq(s, from + 1, to) = Enc(l)
        BY <2>7, WholeSegment
      <3>2. d \in Lines
        BY <3>1, DecodeWhole
      <3>3. Cardinality(TornBy(s, from)) <= Cardinality(TornBy(s, to))
        BY <1>5, <2>6
      <3>4. Cardinality(PassedBy(s, to)) <= v + Cardinality(TornBy(s, to))
        BY <2>3, <2>4, <2>5, <3>2, <3>3
      <3> QED
        BY <3>4 DEF Within
    <2>8. ASSUME NEW j \in (from + 1)..to, j \in TornIn(s) PROVE Within(s, v, to)
      <3>1. TornBy(s, from) \cup {j} \subseteq TornBy(s, to)
        <4>1. TornBy(s, from) \subseteq TornBy(s, to)
          BY <1>5, <2>6
        <4>2. j <= to
          BY <1>1
        <4>3. j \in TornBy(s, to)
          BY <2>8, <4>2 DEF TornBy
        <4> QED
          BY <4>1, <4>3
      <3>2. j \notin TornBy(s, from)
        BY <1>1 DEF TornBy
      <3>3. /\ IsFiniteSet(TornBy(s, from) \cup {j})
            /\ Cardinality(TornBy(s, from) \cup {j}) = Cardinality(TornBy(s, from)) + 1
        BY <3>2, DamageFinite, FS_AddElement
      <3>4. Cardinality(TornBy(s, from) \cup {j}) <= Cardinality(TornBy(s, to))
        BY <3>1, DamageFinite, FS_Subset
      <3>5. Cardinality(PassedBy(s, to)) <= v + Cardinality(TornBy(s, to))
        BY <1>1, <2>3, <2>4, <2>5, <3>3, <3>4
      <3> QED
        BY <3>5 DEF Within
    <2> QED
      BY <2>7, <2>8
  <1>8. ASSUME NEW h \in 0..to PROVE Within(s, v, h)
    <2>1. CASE h <= from
      <3>1. h \in 0..from
        BY <1>1, <2>1
      <3> QED
        BY <1>1, <3>1, MoreWithin
    <2>2. CASE h > from
      <3>1. h \in (from + 1)..to /\ (h < to \/ h = to)
        BY <1>1, <2>2
      <3> QED
        BY <1>6, <1>7, <3>1
    <2> QED
      BY <1>1, <2>1, <2>2
  <1> QED
    BY <1>3, <1>8

\* What is discarded counts in full.
LEMMA DiscardWithin ==
    ASSUME NEW s \in Seq(Cell), NEW from \in Nat, from <= Len(s), NEW w \in Nat,
           \A h \in 0..from : Within(s, w, h)
    PROVE  /\ StartsAt(s, Len(s))
           /\ \A h \in 0..Len(s) : Within(s, w + Cardinality(Newlines(s, from)), h)
  <1>1. Len(s) \in Nat
    BY LenProperties
  <1>2. StartsAt(s, Len(s))
    BY <1>1 DEF StartsAt, TornIn
  <1>3. IsFiniteSet(Newlines(s, from)) /\ Cardinality(Newlines(s, from)) \in Nat
    BY NewlinesFinite, CountIsNat
  <1>4. ASSUME NEW h \in 0..Len(s), h > from
        PROVE  Within(s, w + Cardinality(Newlines(s, from)), h)
    <2>1. PassedBy(s, h) \subseteq PassedBy(s, from) \cup Newlines(s, from)
      BY <1>1 DEF PassedBy, Newlines
    <2>2. /\ IsFiniteSet(PassedBy(s, from) \cup Newlines(s, from))
          /\ Cardinality(PassedBy(s, from) \cup Newlines(s, from)) <=
                Cardinality(PassedBy(s, from)) + Cardinality(Newlines(s, from))
      <3>1. PassedBy(s, from) \cap Newlines(s, from) = {}
        BY <1>1 DEF PassedBy, Newlines
      <3>2. /\ IsFiniteSet(PassedBy(s, from) \cup Newlines(s, from))
            /\ Cardinality(PassedBy(s, from) \cup Newlines(s, from)) =
                  Cardinality(PassedBy(s, from)) + Cardinality(Newlines(s, from))
                  - Cardinality(PassedBy(s, from) \cap Newlines(s, from))
        BY <1>3, DamageFinite, FS_Union
      <3>3. Cardinality(PassedBy(s, from) \cap Newlines(s, from)) = 0
        BY <3>1, FS_EmptySet
      <3> QED
        BY <1>3, <3>2, <3>3, DamageFinite
    <2>3. Cardinality(PassedBy(s, h)) <=
             Cardinality(PassedBy(s, from) \cup Newlines(s, from))
      BY <2>1, <2>2, FS_Subset
    <2>4. TornBy(s, from) \subseteq TornBy(s, h)
      BY <1>1, <1>4 DEF TornBy, TornIn
    <2>5. Cardinality(TornBy(s, from)) <= Cardinality(TornBy(s, h))
      BY <2>4, DamageFinite, FS_Subset
    <2>6. from \in 0..from
      BY <1>1
    <2>7. Cardinality(PassedBy(s, from)) <= w + Cardinality(TornBy(s, from))
      BY <2>6 DEF Within
    <2>8. /\ Cardinality(PassedBy(s, h)) \in Nat /\ Cardinality(PassedBy(s, from)) \in Nat
          /\ Cardinality(TornBy(s, h)) \in Nat /\ Cardinality(TornBy(s, from)) \in Nat
          /\ Cardinality(PassedBy(s, from) \cup Newlines(s, from)) \in Nat
      BY <2>2, DamageFinite, FS_CardinalityType
    <2>9. Cardinality(PassedBy(s, h)) <=
             (w + Cardinality(Newlines(s, from))) + Cardinality(TornBy(s, h))
      BY <1>3, <2>2, <2>3, <2>5, <2>7, <2>8
    <2> QED
      BY <2>9 DEF Within
  <1>5. ASSUME NEW h \in 0..Len(s), h <= from
        PROVE  Within(s, w + Cardinality(Newlines(s, from)), h)
    <2>1. h \in 0..from /\ w + Cardinality(Newlines(s, from)) \in Nat
          /\ w <= w + Cardinality(Newlines(s, from))
      BY <1>1, <1>3, <1>5
    <2> QED
      BY <2>1, MoreWithin
  <1> QED
    BY <1>1, <1>2, <1>4, <1>5


\* No receiver hands an empty line on; Drain would drop it.
NoEmptyLine == \A l \in Lines : Size[l] > 1

\* The invariant.  Up to every place the reader has been, and not just the one
\* where it is, damage is bounded: a restart takes it back to an earlier one.
\* Those a restart can choose from (the start of the file, and the one the
\* offset file holds) are where a line starts.
Base == Len(log) - Len(file)
Credit == Cardinality(WholeIn(sent)) + cleared

DamageInv ==
    /\ RunsOf(log)
    /\ StartsAt(log, head) /\ StartsAt(log, Base)
    /\ Without("save") => StartsAt(log, Base + RestartOffset)
    /\ \A h \in 0..head : Within(log, Credit, h)

\* A restart with an offset that could not be saved may pass over lines.
Bounded == Without("restart") \/ Without("save")

LEMMA InitDamage == Init => DamageInv
  <1> SUFFICES ASSUME Init PROVE DamageInv
    OBVIOUS
  <1>1. /\ log = <<>> /\ Len(log) = 0 /\ Len(file) = 0 /\ head = 0 /\ Base = 0
        /\ RestartOffset = 0
    BY EmptySeq DEF Init, head, Base, RestartOffset
  <1>2. RunsOf(log) /\ StartsAt(log, 0)
    BY <1>1 DEF RunsOf, StartsAt
  <1>3. PassedBy(log, 0) = {}
    BY <1>1 DEF PassedBy, Newlines
  <1>4. log \in Seq(Cell) /\ sent \in Seq(Lines \cup {Garbage}) /\ cleared = 0
    BY <1>1, EmptySeq DEF Init
  <1>5. Credit \in Nat /\ Cardinality(TornBy(log, 0)) \in Nat
    BY <1>4, DamageFinite, WholeFinite DEF Credit
  <1>6. Cardinality(PassedBy(log, 0)) = 0
    BY <1>3, FS_EmptySet
  <1>7. Within(log, Credit, 0)
    BY <1>5, <1>6 DEF Within
  <1> QED
    BY <1>1, <1>2, <1>7 DEF DamageInv

LEMMA DamageIsBounded == Position /\ (Bounded => DamageInv) => DamageBounded
  <1> SUFFICES ASSUME Position, DamageInv PROVE DamageBounded
    BY DEF Bounded, DamageBounded
  <1>1. /\ log \in Seq(Cell) /\ sent \in Seq(Lines \cup {Garbage}) /\ cleared \in Nat
        /\ head \in Nat
    BY LenProperties DEF Position, TypeOK, FileInv, head
  <1>2. Within(log, Credit, head)
    BY <1>1 DEF DamageInv
  <1>3. Torn = TornIn(log)
    BY DEF Torn, TornIn
  <1>4. TornBy(log, head) \subseteq TornIn(log)
    BY DEF TornBy
  <1>5. Cardinality(TornBy(log, head)) <= Cardinality(TornIn(log))
    BY <1>1, <1>4, DamageFinite, FS_Subset
  <1>6. /\ Cardinality(PassedBy(log, head)) \in Nat /\ Cardinality(TornBy(log, head)) \in Nat
        /\ Cardinality(TornIn(log)) \in Nat /\ Cardinality(WholeIn(sent)) \in Nat
    BY <1>1, DamageFinite, WholeFinite
  <1>7. Cardinality(PassedBy(log, head)) <=
           Cardinality(WholeIn(sent)) + cleared + Cardinality(Torn)
    BY <1>1, <1>2, <1>3, <1>5, <1>6 DEF Within, Credit
  <1> QED
    BY <1>7 DEF DamageBounded, PassedBy, WholeIn

LEMMA NextDamage ==
    ASSUME NoEmptyLine, Safe, Safe', DamageInv, [Next]_vars, Bounded'
    PROVE  DamageInv'
  <1>p. Position /\ Position'
    BY DEF Safe
  <1> USE <1>p
  <1>a. /\ TypeOK /\ FileInv /\ CompactInv /\ ReturnInv
        /\ file \in Seq(Cell) /\ log \in Seq(Cell) /\ sent \in Seq(Lines \cup {Garbage})
        /\ Len(file) \in Nat /\ Len(log) \in Nat /\ readOffset \in Nat
        /\ offsetFile \in Nat /\ cleared \in Nat
        /\ readOffset <= Len(file) /\ Len(file) <= Len(log)
        /\ head \in Nat /\ Base \in Nat /\ head = Base + readOffset /\ head <= Len(log)
    BY SMTT(30), LenProperties DEF Position, TypeOK, FileInv, head, Base
  <1>b. /\ file' \in Seq(Cell) /\ log' \in Seq(Cell)
        /\ Len(file') \in Nat /\ Len(log') \in Nat /\ readOffset' \in Nat
        /\ offsetFile' \in Nat
        /\ readOffset' <= Len(file') /\ Len(file') <= Len(log')
        /\ head' \in Nat /\ Base' \in Nat /\ head' = Base' + readOffset'
    <2>1. /\ file' \in Seq(Cell) /\ log' \in Seq(Cell) /\ readOffset' \in Nat
          /\ offsetFile' \in Nat /\ readOffset' <= Len(file') /\ Len(file') <= Len(log')
      BY DEF Position, TypeOK, FileInv
    <2>2. Len(file') \in Nat /\ Len(log') \in Nat
      BY <2>1, LenProperties
    <2>3. Base' = Len(log') - Len(file') /\ head' = Len(log') - (Len(file') - readOffset')
      BY Zenon DEF Base, head
    <2> QED
      BY <2>1, <2>2, <2>3
  <1>c. Credit \in Nat /\ Cardinality(WholeIn(sent)) \in Nat
    BY <1>a, WholeFinite DEF Credit
  <1>r. Without("save")' => /\ Without("save") /\ OffsetInv
                            /\ RestartOffset <= readOffset /\ RestartOffset' <= readOffset'
    <2>1. Without("save")' => Without("save")
      BY WithoutBefore
    <2>2. Safe' => CrashSafe'
      BY SafeImpliesCrashSafe, PTL
    <2>3. Without("save")' => RestartOffset' <= readOffset'
      BY Zenon, <2>2 DEF CrashSafe
    <2> QED
      BY Zenon, <2>1, <2>3, SafeOffset
  <1>s. ASSUME UNCHANGED <<log, sent, cleared>>, head' <= head, StartsAt(log, head'),
               StartsAt(log, Base'),
               Without("save")' => StartsAt(log, Base' + RestartOffset')
        PROVE  DamageInv'
    <2>1. Credit' = Credit
      <3>1. sent' = sent /\ cleared' = cleared
        BY <1>s
      <3> QED
        BY Zenon, <3>1 DEF Credit
    <2>2. \A h \in 0..head' : h \in 0..head
      <3>1. PICK a \in Nat, b \in Nat : a = head /\ b = head'
        BY Zenon, <1>a, <1>b
      <3>2. b <= a
        BY Zenon, <1>s, <3>1
      <3>3. \A h \in 0..b : h \in 0..a
        BY <3>2
      <3> QED
        BY Zenon, <3>1, <3>3
    <2>3. \A h \in 0..head' : Within(log', Credit', h)
      BY <1>s, <2>1, <2>2 DEF DamageInv
    <2> QED
      BY <1>s, <2>3 DEF DamageInv
  <1>t. ASSUME UNCHANGED <<log, sent, cleared, file, readOffset, offsetFile>>
        PROVE  DamageInv'
    <2>1. head' = head /\ Base' = Base /\ RestartOffset' = RestartOffset
      BY <1>t DEF head, Base, RestartOffset
    <2> QED
      BY <1>a, <1>r, <1>s, <1>t, <2>1 DEF DamageInv
  <1>w. ASSUME NEW l \in Lines, NEW n \in 0..Size[l], Write(SubSeq(Enc(l), 1, n)),
               pc = "idle", UNCHANGED <<sent, cleared, readOffset, offsetFile>>
        PROVE  DamageInv'
    <2>1. /\ file' = file \o SubSeq(Enc(l), 1, n) /\ log' = log \o SubSeq(Enc(l), 1, n)
          /\ Len(file') = Len(file) + n /\ Len(log') = Len(log) + n /\ n \in Nat
      <3>1. /\ file' = file \o SubSeq(Enc(l), 1, n) /\ log' = log \o SubSeq(Enc(l), 1, n)
        BY <1>w DEF Write
      <3>2. SubSeq(Enc(l), 1, n) \in Seq(Cell) /\ Len(SubSeq(Enc(l), 1, n)) = n /\ n \in Nat
        BY EncProperties, EncPrefix
      <3> QED
        BY <1>a, <3>1, <3>2, ConcatProperties
    <2>2. head' = head /\ Base' = Base
      <3>1. readOffset' = readOffset
        BY <1>w
      <3>2. /\ (Len(log) + n) - (Len(file) + n) = Len(log) - Len(file)
            /\ (Len(log) + n) - ((Len(file) + n) - readOffset) = Len(log) - (Len(file) - readOffset)
        BY <1>a, <2>1
      <3> QED
        BY Zenon, <2>1, <3>1, <3>2 DEF head, Base
    <2>3. /\ RunsOf(log')
          /\ \A h \in 0..Len(log) : /\ PassedBy(log', h) = PassedBy(log, h)
                                    /\ TornBy(log', h) = TornBy(log, h)
                                    /\ StartsAt(log, h) => StartsAt(log', h)
      <3>1. RunsOf(log)
        BY DEF DamageInv
      <3> QED
        <4>1. log \in Seq(Cell) /\ log' = log \o SubSeq(Enc(l), 1, n)
          BY <1>a, <2>1
        <4> DEFINE t == log \o SubSeq(Enc(l), 1, n)
        <4>2. /\ RunsOf(t)
              /\ \A h \in 0..Len(log) : /\ PassedBy(t, h) = PassedBy(log, h)
                                        /\ TornBy(t, h) = TornBy(log, h)
                                        /\ StartsAt(log, h) => StartsAt(t, h)
          BY Zenon, <3>1, <4>1, WriteRuns
        <4> QED
          BY Zenon, <4>1, <4>2
    <2>4. head \in 0..Len(log) /\ Base \in 0..Len(log)
      BY <1>a
    <2>5. StartsAt(log', head') /\ StartsAt(log', Base')
      BY <2>2, <2>3, <2>4 DEF DamageInv
    <2>6. Without("save")' => StartsAt(log', Base' + RestartOffset')
      <3> SUFFICES ASSUME Without("save")' PROVE StartsAt(log', Base' + RestartOffset')
        OBVIOUS
      <3>1. offsetFile = readOffset
        BY <1>r, <1>w DEF OffsetInv
      <3>2. RestartOffset' = readOffset'
        BY <1>b, <1>w, <3>1 DEF RestartOffset
      <3> QED
        BY <1>b, <2>5, <3>2
    <2>7. Credit' = Credit
      BY <1>w DEF Credit
    <2>8. \A h \in 0..head' : h \in 0..head /\ h \in 0..Len(log)
      BY <1>a, <2>2
    <2>9. \A h \in 0..head' : Within(log', Credit', h)
      BY <2>3, <2>7, <2>8 DEF DamageInv, Within
    <2> QED
      BY <2>3, <2>5, <2>6, <2>9 DEF DamageInv
  <1>k. ASSUME NEW to \in Nat, Reads(file, readOffset, to), readOffset' = to,
               UNCHANGED <<file, log, offsetFile, cleared>>,
               NEW d \in Decode(SubSeq(file, readOffset + 1, to)),
               d = Skip => sent' = sent,
               d # Skip => d \in Lines \cup {Garbage} /\ sent' = Append(sent, d)
        PROVE  DamageInv'
    <2>1. head' = head + (to - readOffset) /\ Base' = Base /\ RestartOffset' = RestartOffset
      BY <1>a, <1>k DEF head, Base, RestartOffset
    <2>2. /\ Reads(log, head, head')
          /\ d \in Decode(SubSeq(log, head + 1, head'))
      BY <1>k, <2>1, FileAndLogAgree
    <2> DEFINE gain == IF d \in Lines THEN 1 ELSE 0
    <2>3. Credit' = Credit + gain
      <3>1. CASE d = Skip
        <4>1. d \notin Lines
          BY <3>1, SpillCellsAssumption
        <4> QED
          BY <1>c, <1>k, <3>1, <4>1 DEF Credit
      <3>2. CASE d # Skip
        <4>1. sent' = Append(sent, d) /\ d \in Lines \cup {Garbage}
          BY <1>k, <3>2
        <4>2. Cardinality(WholeIn(Append(sent, d))) = Cardinality(WholeIn(sent)) + gain
          BY <1>a, <4>1, WholeAppend
        <4> QED
          BY <1>a, <1>c, <1>k, <4>1, <4>2 DEF Credit
      <3> QED
        BY <3>1, <3>2
    <2>4. Credit' \in Nat
      BY <1>c, <2>3
    <2>5. StartsAt(log, head') /\ \A h \in 0..head' : Within(log, Credit', h)
      BY <1>a, <1>b, <1>c, <2>2, <2>3, <2>4, TakeWithin DEF DamageInv, NoEmptyLine
    <2> QED
      BY <1>k, <1>r, <2>1, <2>5 DEF DamageInv
  <1>d. ASSUME UNCHANGED <<log, sent, cleared>>, head' = head, readOffset' = 0, pc' = "save"
        PROVE  DamageInv'
    <2>1. Base' = head
      <3>1. head' = head /\ readOffset' = 0
        BY <1>d
      <3>2. head' = Base' + readOffset' /\ Base' \in Nat
        BY <1>b
      <3>3. \A b \in Nat : b + 0 = b
        OBVIOUS
      <3> QED
        BY Zenon, <3>1, <3>2, <3>3
    <2>2. Without("save")' => RestartOffset' = 0
      BY <1>b, <1>d, <1>r DEF RestartOffset
    <2> QED
      BY <1>a, <1>d, <1>s, <2>1, <2>2 DEF DamageInv
  <1>1. ASSUME NEW m \in Limits, SetMaxDiskMB(m) PROVE DamageInv'
    BY <1>1, <1>t DEF SetMaxDiskMB, disk, history
  <1>2. ASSUME NEW l \in Lines, EnqueueStored(l) PROVE DamageInv'
    <2>1. SubSeq(Enc(l), 1, Size[l]) = Enc(l) /\ Size[l] \in 0..Size[l]
      BY EncProperties, SubSeqFull
    <2> QED
      BY <1>2, <1>w, <2>1 DEF EnqueueStored, Call
  <1>3. ASSUME NEW l \in Lines, EnqueueFull(l) PROVE DamageInv'
    BY <1>3, <1>t DEF EnqueueFull, disk, history
  <1>4. ASSUME NEW l \in Lines, EnqueueFails(l) PROVE DamageInv'
    <2>1. PICK n \in 0..(Size[l] - 1) : Write(SubSeq(Enc(l), 1, n))
      BY <1>4 DEF EnqueueFails
    <2>2. n \in 0..Size[l]
      BY EncProperties
    <2> QED
      BY <1>4, <1>w, <2>1, <2>2 DEF EnqueueFails, Call
  <1>5. CASE SaveOpen
    <2>1. UNCHANGED <<log, sent, cleared, file, readOffset>> /\ offsetFile' = 0
      BY <1>5 DEF SaveOpen, memory, history
    <2>2. head' = head /\ Base' = Base /\ RestartOffset' = 0
      BY <1>b, <2>1 DEF head, Base, RestartOffset
    <2> QED
      BY <1>a, <1>s, <2>1, <2>2 DEF DamageInv
  <1>6. CASE SaveWrite
    <2>1. UNCHANGED <<log, sent, cleared, file, readOffset>> /\ offsetFile' = readOffset
      BY <1>6 DEF SaveWrite, memory, history
    <2>2. head' = head /\ Base' = Base /\ RestartOffset' = readOffset
      BY <1>a, <2>1 DEF head, Base, RestartOffset
    <2> QED
      BY <1>a, <1>s, <2>1, <2>2 DEF DamageInv
  <1>7. CASE SaveFails
    BY <1>7, <1>t DEF SaveFails, disk, history
  <1>8. ASSUME NEW to \in 1..Len(file), NEW text \in Lines \cup {Garbage},
               SubmitLine(to, text)
        PROVE  DamageInv'
    <2>1. /\ to \in Nat /\ Reads(file, readOffset, to) /\ readOffset' = to
          /\ UNCHANGED <<file, log, offsetFile, cleared>>
          /\ text \in Decode(SubSeq(file, readOffset + 1, to)) /\ text # Skip
          /\ sent' = Append(sent, text)
      BY <1>8, <1>a DEF SubmitLine, disk
    <2> QED
      BY <1>k, <2>1
  <1>9. ASSUME NEW to \in 1..Len(file), SkipLine(to) PROVE DamageInv'
    <2>1. /\ to \in Nat /\ Reads(file, readOffset, to) /\ readOffset' = to
          /\ UNCHANGED <<file, log, offsetFile, cleared>>
          /\ Skip \in Decode(SubSeq(file, readOffset + 1, to))
          /\ sent' = sent
      BY <1>9, <1>a DEF SkipLine, disk, history
    <2> QED
      BY <1>k, <2>1
  <1>10. ASSUME NEW to, RefuseLine(to) PROVE DamageInv'
    BY <1>10, <1>t DEF RefuseLine, OffsetAfterRefusal, disk, history
  <1>11. CASE DrainBegin
    BY <1>11, <1>a, <1>t DEF DrainBegin, disk, history
  <1>12. CASE DrainEnds \/ DrainFails \/ Account
    BY <1>12, <1>t DEF DrainEnds, DrainFails, Account, disk, memory, history
  <1>13. CASE CompactTruncate
    <2>1. /\ file' = <<>> /\ readOffset' = 0 /\ pc' = "save" /\ readOffset >= Len(file)
          /\ UNCHANGED <<log, sent, cleared>>
      BY <1>13 DEF CompactTruncate, history
    <2>2. Len(file') = 0
      BY <2>1, EmptySeq
    <2>3. head' = head
      BY <1>a, <2>1, <2>2 DEF head
    <2> QED
      BY <1>d, <2>1, <2>3
  <1>14. CASE CompactCopy \/ CompactFails
    BY <1>14, <1>t DEF CompactCopy, CompactFails, memory, history
  <1>15. CASE CompactRename
    <2>1. /\ file' = Unread /\ readOffset' = 0 /\ pc' = "save"
          /\ UNCHANGED <<log, sent, cleared>>
      BY <1>15, <1>a DEF CompactRename, CompactInv, history
    <2>2. Len(file') = Len(file) - readOffset
      BY <1>a, <2>1, UnreadProperties
    <2>3. head' = head
      BY <1>a, <2>1, <2>2 DEF head
    <2> QED
      BY <1>d, <2>1, <2>3
  <1>16. CASE Clear
    <2>1. /\ file' = <<>> /\ readOffset' = 0 /\ pc' = "save" /\ UNCHANGED <<log, sent>>
          /\ cleared' = cleared + Cardinality(Newlines(file, readOffset))
      BY <1>16 DEF Clear
    <2>2. Len(file') = 0
      BY <2>1, EmptySeq
    <2>3. head' = Len(log) /\ Base' = Len(log)
      BY <1>a, <2>1, <2>2 DEF head, Base
    <2>4. Cardinality(Newlines(log, head)) = Cardinality(Newlines(file, readOffset))
      <3>1. Len(log) - head = Len(file) - readOffset
        BY <1>a DEF Base
      <3>2. ASSUME NEW i \in 1..(Len(log) - head) PROVE log[head + i] = file[readOffset + i]
        <4>1. readOffset + i \in 1..Len(file)
              /\ (Len(log) - Len(file)) + (readOffset + i) = head + i
          BY <1>a, <3>1 DEF Base
        <4> QED
          BY <1>a, <4>1 DEF FileInv
      <3>3. \A i \in 1..(Len(log) - head) : log[head + i] = file[readOffset + i]
        BY <3>2
      <3> QED
        <4>1. log \in Seq(Cell) /\ file \in Seq(Cell) /\ head \in Nat /\ readOffset \in Nat
          BY <1>a
        <4>2. PICK s \in Seq(Cell), t \in Seq(Cell), a \in Nat, b \in Nat :
                 s = log /\ t = file /\ a = head /\ b = readOffset
          BY <4>1
        <4>3. Len(s) - a = Len(t) - b
          BY Zenon, <3>1, <4>2
        <4>4. \A i \in 1..(Len(s) - a) : s[a + i] = t[b + i]
          BY Zenon, <3>3, <4>2
        <4>5. Cardinality(Newlines(s, a)) = Cardinality(Newlines(t, b))
          BY <4>3, <4>4, SameCount
        <4> QED
          BY Zenon, <4>2, <4>5
    <2>5. Cardinality(Newlines(log, head)) \in Nat
      BY <1>a, CountIsNat
    <2>6. Credit' = Credit + Cardinality(Newlines(log, head))
      BY <1>a, <1>c, <2>1, <2>4, <2>5 DEF Credit
    <2>7. /\ StartsAt(log, Len(log))
          /\ \A h \in 0..Len(log) : Within(log, Credit', h)
      BY <1>a, <1>c, <2>6, DiscardWithin DEF DamageInv
    <2>8. Without("save")' => RestartOffset' = 0
      BY <1>b, <1>r, <2>1 DEF RestartOffset
    <2> QED
      BY <1>a, <2>1, <2>3, <2>7, <2>8 DEF DamageInv
  <1>17. CASE ClearFails
    BY <1>17, <1>t DEF ClearFails, disk, history
  <1>18. CASE Restart
    <2>1. /\ Without("save")' /\ readOffset' = RestartOffset
          /\ UNCHANGED <<file, log, sent, cleared, offsetFile>>
      BY <1>18, FaultRecorded DEF Restart, Bounded, disk, history
    <2>2. RestartOffset <= readOffset
      BY <1>r, <2>1
    <2>3. Base' = Base /\ RestartOffset' = RestartOffset /\ head' = Base + RestartOffset
      BY <1>b, <2>1 DEF Base, RestartOffset
    <2>4. head' <= head
      BY <1>a, <1>b, <2>1, <2>2, <2>3
    <2> QED
      BY <1>r, <1>s, <2>1, <2>3, <2>4 DEF DamageInv
  <1>19. CASE UNCHANGED vars
    BY <1>19, <1>t DEF vars, disk, memory, history
  <1> QED
    BY <1>1, <1>2, <1>3, <1>4, <1>5, <1>6, <1>7, <1>8, <1>9, <1>10, <1>11, <1>12, <1>13,
       <1>14, <1>15, <1>16, <1>17, <1>18, <1>19
    DEF Next, Enqueue, Save, Submit, Drain, Compact

\* Of the whole lines the reader is past, all but as many as there were writes
\* that stopped short were handed downstream intact or discarded by Clear: a
\* torn write damages at most the line stored after it.  An empty line would be
\* dropped, but no receiver hands one on.  Only a restart with an offset that could
\* not be saved may pass over more.
THEOREM DamageStaysBounded ==
    ASSUME NoEmptyLine
    PROVE  Spec => []DamageBounded
  <1> DEFINE Inv == Safe /\ (Bounded => DamageInv)
  <1>1. Init => Inv
    BY InitSafe, InitDamage
  <1>2. Inv /\ [Next]_vars => Inv'
    <2> SUFFICES ASSUME Inv, [Next]_vars, Bounded' PROVE Safe' /\ DamageInv'
      BY NextSafe
    <2>1. Bounded /\ Safe'
      BY NextSafe, WithoutBefore DEF Bounded
    <2> QED
      BY <2>1, NextDamage
  <1>3. Inv => DamageBounded
    BY DamageIsBounded DEF Safe
  <1> QED
    BY <1>1, <1>2, <1>3, PTL DEF Spec


-------------------------------------------------------------------------------
\* What the two claims the code does not keep need to hold.

LEMMA NextNotBack ==
    ASSUME "save" \notin Faults, Safe, [Next]_vars
    PROVE  [Restart => head' <= head]_vars
  <1> SUFFICES ASSUME Restart PROVE head' <= head
    OBVIOUS
  <1>1. /\ Len(file) \in Nat /\ Len(log) \in Nat /\ readOffset \in Nat /\ offsetFile \in Nat
    BY LenProperties DEF Safe, Position, TypeOK
  <1>2. RestartOffset \in Nat /\ RestartOffset <= readOffset
    BY <1>1, FaultsAllowed, SafeOffset DEF Safe, Position, RestartOffset
  <1>3. readOffset' = RestartOffset /\ UNCHANGED <<file, log>>
    BY DEF Restart, disk, history
  <1>4. head' = Len(log) - (Len(file) - RestartOffset)
    BY <1>3 DEF head
  <1> QED
    BY <1>1, <1>2, <1>4 DEF head

\* "A failed write loses no data" is true of every write but those of the offset
\* file: as long as these succeed, a restart never moves the reader forward.
THEOREM OnlyFailedSavesLose ==
    ASSUME "save" \notin Faults
    PROVE  Spec => FailedWriteLosesNothing
  <1>1. Safe /\ [Next]_vars => [Restart => head' <= head]_vars
    BY NextNotBack
  <1>2. Spec => []Safe
    BY CrashSafety, PTL
  <1> QED
    BY <1>1, <1>2, PTL DEF Spec, FailedWriteLosesNothing

LEMMA WritePassed ==
    ASSUME NEW s \in Seq(Cell), NEW l \in Lines, NEW n \in 0..Size[l], NEW h \in 0..Len(s)
    PROVE  PassedBy(s \o SubSeq(Enc(l), 1, n), h) = PassedBy(s, h)
  <1> DEFINE c == SubSeq(Enc(l), 1, n)
             t == s \o c
  <1>1. n \in Nat /\ Len(s) \in Nat /\ c \in Seq(Cell) /\ Len(c) = n
    BY EncProperties, EncPrefix, LenProperties
  <1>2. t \in Seq(Cell) /\ Len(t) = Len(s) + n /\ \A i \in 1..Len(s) : t[i] = s[i]
    BY <1>1, ConcatProperties
  <1>3. ASSUME NEW i \in PassedBy(t, h) PROVE i \in PassedBy(s, h)
    <2>1. i \in 1..Len(s) /\ IsNewline(t[i]) /\ i <= h
      BY <1>1, <1>2 DEF PassedBy, Newlines
    <2> QED
      BY <1>2, <2>1 DEF PassedBy, Newlines
  <1>4. ASSUME NEW i \in PassedBy(s, h) PROVE i \in PassedBy(t, h)
    <2>1. i \in 1..Len(s) /\ i \in 1..Len(t) /\ IsNewline(s[i]) /\ i <= h
      BY <1>1, <1>2 DEF PassedBy, Newlines
    <2> QED
      BY <1>2, <2>1 DEF PassedBy, Newlines
  <1> QED
    BY <1>3, <1>4

\* No more texts than lines the reader is past.
EachOnce == Len(sent) <= Cardinality(PassedBy(log, head))

LEMMA NextEachOnce ==
    ASSUME Faults \cap {"restart", "write"} = {}, Position, Position', EndsWhole, EachOnce,
           [Next]_vars
    PROVE  EachOnce'
  <1>f. Without("write")
    BY FaultsAllowed DEF Position
  <1> USE <1>f
  <1>a. /\ TypeOK /\ FileInv /\ CompactInv /\ ReturnInv
        /\ file \in Seq(Cell) /\ log \in Seq(Cell) /\ sent \in Seq(Lines \cup {Garbage})
        /\ Len(file) \in Nat /\ Len(log) \in Nat /\ Len(sent) \in Nat /\ readOffset \in Nat
        /\ readOffset <= Len(file) /\ Len(file) <= Len(log)
        /\ head \in Nat /\ Base \in Nat /\ head = Base + readOffset /\ head <= Len(log)
    BY SMTT(30), LenProperties DEF Position, TypeOK, FileInv, head, Base
  <1>b. Cardinality(PassedBy(log, head)) \in Nat
    BY <1>a, DamageFinite
  <1>t. ASSUME UNCHANGED <<log, sent>>, head' = head PROVE EachOnce'
    BY <1>t DEF EachOnce
  <1>u. ASSUME UNCHANGED <<log, sent, file, readOffset>> PROVE EachOnce'
    <2>1. head' = head
      BY <1>u DEF head
    <2> QED
      BY <1>t, <1>u, <2>1
  <1>w. ASSUME NEW l \in Lines, Write(Enc(l)), UNCHANGED <<sent, readOffset>>
        PROVE  EachOnce'
    <2>1. /\ SubSeq(Enc(l), 1, Size[l]) = Enc(l) /\ Size[l] \in 0..Size[l]
          /\ Enc(l) \in Seq(Cell) /\ Len(Enc(l)) = Size[l] /\ Size[l] \in Nat
      BY EncProperties, SubSeqFull
    <2>2. log' = log \o Enc(l) /\ file' = file \o Enc(l)
      BY <1>w DEF Write
    <2>3. Len(log') = Len(log) + Size[l] /\ Len(file') = Len(file) + Size[l]
      BY ZenonT(30), <1>a, <2>1, <2>2, ConcatProperties
    <2>4. head' = head
      <3>1. readOffset' = readOffset
        BY <1>w
      <3>2. (Len(log) + Size[l]) - ((Len(file) + Size[l]) - readOffset) =
               Len(log) - (Len(file) - readOffset)
        BY <1>a, <2>1
      <3> QED
        BY Zenon, <2>3, <3>1, <3>2 DEF head
    <2>5. head \in 0..Len(log)
      BY <1>a
    <2>6. PassedBy(log \o SubSeq(Enc(l), 1, Size[l]), head) = PassedBy(log, head)
      BY <1>a, <2>1, <2>5, WritePassed
    <2>7. PassedBy(log', head') = PassedBy(log, head)
      BY Zenon, <2>1, <2>2, <2>4, <2>6
    <2>8. sent' = sent
      BY <1>w
    <2> QED
      BY Zenon, <2>7, <2>8 DEF EachOnce
  <1>m. ASSUME NEW h \in Nat, head <= h
        PROVE  /\ Cardinality(PassedBy(log, h)) \in Nat
               /\ Cardinality(PassedBy(log, head)) <= Cardinality(PassedBy(log, h))
    <2>1. PassedBy(log, head) \subseteq PassedBy(log, h)
      BY <1>a, <1>m DEF PassedBy, Newlines
    <2> QED
      BY <1>a, <2>1, DamageFinite, FS_Subset
  <1>k. ASSUME NEW to \in 1..Len(file), Reads(file, readOffset, to), readOffset' = to,
               UNCHANGED <<file, log>>,
               Len(sent') \in Nat, Len(sent') <= Len(sent) + 1
        PROVE  EachOnce'
    <2>1. /\ to \in Nat /\ readOffset < to /\ to <= Len(file)
      BY <1>a, <1>k DEF Reads
    <2>2. head' = head + (to - readOffset) /\ head' \in Nat /\ head < head'
      <3>1. head' = Len(log) - (Len(file) - to)
        BY <1>k DEF head
      <3> QED
        BY <1>a, <2>1, <3>1 DEF head
    <2>3. IsNewline(file[to])
      <3>1. CASE to < Len(file)
        BY <1>k, <3>1 DEF Reads
      <3>2. CASE to = Len(file)
        BY <2>1, <3>2 DEF EndsWhole
      <3> QED
        BY <1>a, <2>1, <3>1, <3>2
    <2>4. head' \in 1..Len(log) /\ log[head'] = file[to]
      <3>1. head' = (Len(log) - Len(file)) + to /\ to \in 1..Len(file)
        BY <1>a, <2>1, <2>2 DEF Base
      <3>2. file[to] = log[(Len(log) - Len(file)) + to]
        BY <1>a, <3>1 DEF FileInv
      <3> QED
        BY <1>a, <2>1, <3>1, <3>2
    <2> DEFINE A == PassedBy(log, head)
               B == PassedBy(log, head')
    <2>5. head' \in B /\ head' \notin A /\ A \subseteq B
      BY <1>a, <2>2, <2>3, <2>4 DEF PassedBy, Newlines
    <2>6. IsFiniteSet(A) /\ IsFiniteSet(B) /\ Cardinality(A) \in Nat /\ Cardinality(B) \in Nat
      BY <1>a, DamageFinite
    <2>7. /\ IsFiniteSet(A \cup {head'})
          /\ Cardinality(A \cup {head'}) = Cardinality(A) + 1
      BY <2>5, <2>6, FS_AddElement
    <2>8. Cardinality(A \cup {head'}) <= Cardinality(B)
      BY <2>5, <2>6, FS_Subset
    <2>9. Len(sent) <= Cardinality(A)
      BY DEF EachOnce
    <2>10. Len(sent') <= Cardinality(B)
      BY <1>a, <1>k, <2>6, <2>7, <2>8, <2>9
    <2>11. log' = log
      BY <1>k
    <2> QED
      BY Zenon, <2>10, <2>11 DEF EachOnce
  <1>1. ASSUME NEW m \in Limits, SetMaxDiskMB(m) PROVE EachOnce'
    BY <1>1, <1>u DEF SetMaxDiskMB, disk, history
  <1>2. ASSUME NEW l \in Lines, EnqueueStored(l) PROVE EachOnce'
    BY <1>2, <1>w DEF EnqueueStored
  <1>3. ASSUME NEW l \in Lines, EnqueueFull(l) PROVE EachOnce'
    BY <1>3, <1>u DEF EnqueueFull, disk, history
  <1>4. ASSUME NEW l \in Lines, EnqueueFails(l) PROVE EachOnce'
    BY <1>4 DEF EnqueueFails, Fault
  <1>5. CASE Save
    BY <1>5, <1>u DEF Save, SaveOpen, SaveWrite, SaveFails, disk, memory, history
  <1>6. ASSUME NEW to \in 1..Len(file), NEW text \in Lines \cup {Garbage},
               SubmitLine(to, text)
        PROVE  EachOnce'
    <2>1. /\ Reads(file, readOffset, to) /\ readOffset' = to /\ UNCHANGED <<file, log>>
          /\ sent' = Append(sent, text)
      BY <1>6 DEF SubmitLine, disk
    <2>2. Len(sent') = Len(sent) + 1
      BY <1>a, <2>1, AppendProperties
    <2> QED
      BY <1>a, <1>k, <2>1, <2>2
  <1>7. ASSUME NEW to \in 1..Len(file), SkipLine(to) PROVE EachOnce'
    <2>1. /\ Reads(file, readOffset, to) /\ readOffset' = to /\ UNCHANGED <<file, log>>
          /\ sent' = sent
      BY <1>7 DEF SkipLine, disk, history
    <2>2. Len(sent') = Len(sent)
      BY <2>1
    <2> QED
      BY <1>a, <1>k, <2>1, <2>2
  <1>8. ASSUME NEW to, RefuseLine(to) PROVE EachOnce'
    BY <1>8, <1>u DEF RefuseLine, OffsetAfterRefusal, disk, history
  <1>9. CASE DrainBegin
    BY <1>9, <1>a, <1>u DEF DrainBegin, disk, history
  <1>10. CASE DrainEnds \/ DrainFails \/ Account
    BY <1>10, <1>u DEF DrainEnds, DrainFails, Account, disk, memory, history
  <1>11. CASE CompactTruncate
    <2>1. /\ file' = <<>> /\ readOffset' = 0 /\ readOffset >= Len(file)
          /\ UNCHANGED <<log, sent>>
      BY <1>11 DEF CompactTruncate, history
    <2>2. Len(file') = 0
      BY <2>1, EmptySeq
    <2>3. head' = head
      BY <1>a, <2>1, <2>2 DEF head
    <2> QED
      BY <1>t, <2>1, <2>3
  <1>12. CASE CompactCopy \/ CompactFails
    BY <1>12, <1>u DEF CompactCopy, CompactFails, memory, history
  <1>13. CASE CompactRename
    <2>1. file' = Unread /\ readOffset' = 0 /\ UNCHANGED <<log, sent>>
      BY <1>13, <1>a DEF CompactRename, CompactInv, history
    <2>2. Len(file') = Len(file) - readOffset
      BY <1>a, <2>1, UnreadProperties
    <2>3. head' = head
      BY <1>a, <2>1, <2>2 DEF head
    <2> QED
      BY <1>t, <2>1, <2>3
  <1>14. CASE Clear
    <2>1. file' = <<>> /\ readOffset' = 0 /\ log' = log /\ sent' = sent
      BY <1>14 DEF Clear
    <2>2. Len(file') = 0
      BY <2>1, EmptySeq
    <2>3. head' = Len(log)
      BY <1>a, <2>1, <2>2 DEF head
    <2>4. Len(sent) <= Cardinality(PassedBy(log, Len(log)))
      BY <1>a, <1>b, <1>m DEF EachOnce
    <2> QED
      BY Zenon, <2>1, <2>3, <2>4 DEF EachOnce
  <1>15. CASE ClearFails
    BY <1>15, <1>u DEF ClearFails, disk, history
  <1>16. CASE Restart
    BY <1>16 DEF Restart, Fault
  <1>17. CASE UNCHANGED vars
    BY <1>17, <1>u DEF vars, disk, memory, history
  <1> QED
    BY <1>1, <1>2, <1>3, <1>4, <1>5, <1>6, <1>7, <1>8, <1>9, <1>10, <1>11, <1>12, <1>13,
       <1>14, <1>15, <1>16, <1>17
    DEF Next, Enqueue, Submit, Drain, Compact

LEMMA EachOnceIsNoReplay == Position /\ EachOnce => NoReplay
  <1> SUFFICES ASSUME Position, EachOnce PROVE NoReplay
    OBVIOUS
  <1>1. log \in Seq(Cell) /\ sent \in Seq(Lines \cup {Garbage}) /\ Len(sent) \in Nat
    BY LenProperties DEF Position, TypeOK
  <1>2. IsFiniteSet(Newlines(log, 0)) /\ Cardinality(Newlines(log, 0)) \in Nat
    BY <1>1, NewlinesFinite, CountIsNat
  <1>3. PassedBy(log, head) \subseteq Newlines(log, 0)
    BY DEF PassedBy
  <1>4. /\ Cardinality(PassedBy(log, head)) \in Nat
        /\ Cardinality(PassedBy(log, head)) <= Cardinality(Newlines(log, 0))
    BY <1>1, <1>2, <1>3, DamageFinite, FS_Subset
  <1> QED
    BY <1>1, <1>2, <1>4 DEF EachOnce, NoReplay

\* Failed offset saves, failed compactions and Clear hand no line downstream a
\* second time: a replay takes a restart (and a torn write gives a text of its own).
THEOREM OnlyRestartsReplay ==
    ASSUME Faults \cap {"restart", "write"} = {}
    PROVE  Spec => []NoReplay
  <1> DEFINE Inv == Position /\ Counted /\ EndsWhole /\ EachOnce
  <1>1. Init => EachOnce
    <2> SUFFICES ASSUME Init PROVE EachOnce
      OBVIOUS
    <2>1. Len(sent) = 0 /\ log \in Seq(Cell)
      BY EmptySeq DEF Init
    <2> QED
      BY <2>1, DamageFinite DEF EachOnce
  <1>2. Init => Inv
    BY <1>1, InitPosition, InitCounted
  <1>3. Inv /\ [Next]_vars => Inv'
    <2> SUFFICES ASSUME Inv, [Next]_vars PROVE Inv'
      OBVIOUS
    <2>1. Position'
      BY NextPosition
    <2>2. Countable'
      BY <2>1 DEF Position, TypeOK, Without, Countable
    <2> QED
      BY <2>1, <2>2, NextCounted, NextEachOnce
  <1>4. Inv => NoReplay
    BY EachOnceIsNoReplay
  <1> QED
    BY <1>2, <1>3, <1>4, PTL DEF Spec

===============================================================================
