---------------------------- MODULE OverflowQueue ----------------------------
(***************************************************************************)
(* DiskOverflowQueue (src/internal/processor/overflow_queue.go): the file   *)
(* that takes the lines the processor's memory queue has no room for, and   *)
(* the offset file that remembers how far it has been read back.           *)
(*                                                                         *)
(* Every method holds q.mu from its first to its last step, so one program  *)
(* counter (pc) describes the method that is under way.  Enqueue makes one  *)
(* system call that changes anything and is one action; Drain, compactFile, *)
(* Clear and New make several and are one action per call, because the      *)
(* process may stop between any two of them.                               *)
(*                                                                         *)
(* A definition D_How is the form a plausible mistake would give to D,      *)
(* which follows it; the model does not use it.                            *)
(***************************************************************************)
EXTENDS SpillCells

CONSTANTS Limits,        \* the values overflow_max_disk_mb may take, in cells
          MaxBatch,      \* Drain's maxBatch
          CompactBelow,  \* pending below which Drain compacts (100 in the code)
          Faults,        \* which faults the environment causes
          MaxCalls,      \* bound: calls of Enqueue, Clear and SetMaxDiskMB
          MaxFaults      \* bound: faults

FaultKinds ==
    {"restart",   \* the process stops, at any point, and is started again
     "write",     \* a write to the queue file stops short
     "save",      \* the offset file cannot be opened or written
     "io"}        \* another file operation returns an error

ASSUME OverflowQueueAssumption ==
    /\ Limits \subseteq Nat /\ Limits # {}
    /\ MaxBatch \in Nat \ {0}
    /\ CompactBelow \in Nat
    /\ Faults \subseteq FaultKinds
    /\ MaxCalls \in Nat /\ MaxFaults \in Nat

VARIABLES
    file,         \* overflow.queue
    offsetFile,   \* overflow.offset; 0 also when missing, empty or unreadable
    tmp,          \* overflow.queue.tmp
    readOffset, pending, stats, maxBytes,   \* the fields of the struct
    pc,           \* the next step of the method that holds q.mu, or "idle"
    ret,          \* where saveOffset returns to
    drain,        \* Drain's local variables
    log,          \* history: every cell written
    sent,         \* history: every text handed to submit
    cleared,      \* history: how many whole lines Clear discarded
    calls,        \* what MaxCalls bounds
    faults        \* how many faults happened, which MaxFaults bounds, and of which kinds

disk == <<file, offsetFile, tmp>>
memory == <<readOffset, pending, stats, maxBytes>>
history == <<log, sent, cleared>>
vars == <<disk, memory, pc, ret, drain, history, calls, faults>>

PCs == {"idle", "read", "save", "write", "account", "compact", "rename"}

Stats == [enqueued : Nat, recovered : Nat, dropped : Nat, writeErr : Nat]
DrainLocals == [size : Nat, drained : Nat, skipped : Nat]

TypeOK ==
    /\ file \in Seq(Cell) /\ tmp \in Seq(Cell) /\ log \in Seq(Cell)
    /\ offsetFile \in Nat /\ readOffset \in Nat /\ pending \in Nat
    /\ stats \in Stats
    /\ maxBytes \in Limits
    /\ pc \in PCs /\ ret \in {"idle", "read", "account"}
    /\ drain \in DrainLocals
    /\ sent \in Seq(Lines \cup {Garbage})
    /\ cleared \in Nat
    /\ calls \in 0..MaxCalls
    /\ faults \in [count : 0..MaxFaults, kinds : SUBSET Faults]

ZeroStats == [enqueued |-> 0, recovered |-> 0, dropped |-> 0, writeErr |-> 0]
NoDrain == [size |-> 0, drained |-> 0, skipped |-> 0]

\* NewDiskOverflowQueue in an empty directory.
Init ==
    /\ file = <<>> /\ offsetFile = 0 /\ tmp = <<>>
    /\ readOffset = 0 /\ pending = 0 /\ stats = ZeroStats
    /\ maxBytes \in Limits
    /\ pc = "idle" /\ ret = "idle" /\ drain = NoDrain
    /\ log = <<>> /\ sent = <<>> /\ cleared = 0
    /\ calls = 0 /\ faults = [count |-> 0, kinds |-> {}]

Call == pc = "idle" /\ calls < MaxCalls /\ calls' = calls + 1
Fault(kind) ==
    /\ kind \in Faults /\ faults.count < MaxFaults
    /\ faults' = [count |-> faults.count + 1, kinds |-> faults.kinds \cup {kind}]

\* No fault of this kind has happened so far.
Without(kind) == kind \notin faults.kinds

Unread == SubSeq(file, readOffset + 1, Len(file))

\* The reader's place in the log: all but the unread cells are behind it.
head == Len(log) - (Len(file) - readOffset)

-------------------------------------------------------------------------------
\* SetMaxDiskMB

SetMaxDiskMB(m) ==
    /\ Call
    /\ maxBytes' = m
    /\ UNCHANGED <<disk, readOffset, pending, stats, pc, ret, drain, history, faults>>

-------------------------------------------------------------------------------
\* Enqueue

PendingBytes == IF Len(file) < readOffset THEN 0 ELSE Len(file) - readOffset

Fits(l) == PendingBytes + Size[l] <= maxBytes

Write(cells) == file' = file \o cells /\ log' = log \o cells

EnqueueStored(l) ==
    /\ Call
    /\ Fits(l)
    /\ Write(Enc(l))
    /\ pending' = pending + 1
    /\ stats' = [stats EXCEPT !.enqueued = @ + 1]
    /\ UNCHANGED <<offsetFile, tmp, readOffset, maxBytes, pc, ret, drain, sent, cleared, faults>>

EnqueueFull(l) ==
    /\ Call
    /\ ~Fits(l)
    /\ stats' = [stats EXCEPT !.dropped = @ + 1]
    /\ UNCHANGED <<disk, readOffset, pending, maxBytes, pc, ret, drain, history, faults>>

\* Stat or open fails before the first cell, or the write after some of them.
EnqueueFails(l) ==
    /\ Call
    /\ Fault("write")
    /\ \E n \in 0..(Size[l] - 1) :
          /\ n > 0 => Fits(l)
          /\ Write(SubSeq(Enc(l), 1, n))
    /\ stats' = [stats EXCEPT !.dropped = @ + 1, !.writeErr = @ + 1]
    /\ UNCHANGED <<offsetFile, tmp, readOffset, pending, maxBytes, pc, ret, drain, sent, cleared>>

-------------------------------------------------------------------------------
\* saveOffset: os.WriteFile truncates the file, then writes the digits.

SaveOpen ==
    /\ pc = "save"
    /\ offsetFile' = 0
    /\ pc' = "write"
    /\ UNCHANGED <<file, tmp, memory, ret, drain, history, calls, faults>>

SaveWrite ==
    /\ pc = "write"
    /\ offsetFile' = readOffset
    /\ pc' = ret /\ ret' = "idle"
    /\ UNCHANGED <<file, tmp, memory, drain, history, calls, faults>>

\* Only Drain counts the error; the other callers assign it to _.
SaveFails ==
    /\ pc \in {"save", "write"}
    /\ Fault("save")
    /\ stats' = IF ret = "account" THEN [stats EXCEPT !.writeErr = @ + 1] ELSE stats
    /\ pc' = ret /\ ret' = "idle"
    /\ UNCHANGED <<disk, readOffset, pending, maxBytes, drain, history, calls>>

-------------------------------------------------------------------------------
\* Drain

Removed == drain.drained + drain.skipped

DrainBegin_IfPending ==
    /\ pc = "idle" /\ pending > 0
    /\ drain' = [NoDrain EXCEPT !.size = Len(file)]
    /\ pc' = "read"
    /\ UNCHANGED <<disk, memory, ret, history, calls, faults>>

DrainBegin ==
    /\ pc = "idle"
    /\ drain' = [NoDrain EXCEPT !.size = Len(file)]
    /\ IF readOffset > Len(file)
       THEN readOffset' = 0 /\ pending' = 0 /\ pc' = "save" /\ ret' = "read"
       ELSE pc' = "read" /\ UNCHANGED <<readOffset, pending, ret>>
    /\ UNCHANGED <<disk, stats, maxBytes, history, calls, faults>>

\* After the loop the offset is saved if the loop consumed anything.
LeaveLoop ==
    IF Removed > 0 THEN pc' = "save" /\ ret' = "account"
                   ELSE pc' = "account" /\ UNCHANGED ret

SkipLine(to) ==
    /\ pc = "read" /\ Removed < MaxBatch
    /\ Reads(file, readOffset, to)
    /\ Skip \in Decode(SubSeq(file, readOffset + 1, to))
    /\ readOffset' = to
    /\ drain' = [drain EXCEPT !.skipped = @ + 1]
    /\ stats' = [stats EXCEPT !.dropped = @ + 1]
    /\ UNCHANGED <<disk, pending, maxBytes, pc, ret, history, calls, faults>>

SubmitLine(to, text) ==
    /\ pc = "read" /\ Removed < MaxBatch
    /\ Reads(file, readOffset, to)
    /\ text \in Decode(SubSeq(file, readOffset + 1, to)) \ {Skip}
    /\ readOffset' = to
    /\ drain' = [drain EXCEPT !.drained = @ + 1]
    /\ sent' = Append(sent, text)
    /\ UNCHANGED <<disk, pending, stats, maxBytes, pc, ret, log, cleared, calls, faults>>

OffsetAfterRefusal_Kept(to) == to
OffsetAfterRefusal(to) == readOffset

\* submit found the memory queue full: the offset is rolled back.
RefuseLine(to) ==
    /\ pc = "read" /\ Removed < MaxBatch
    /\ Reads(file, readOffset, to)
    /\ Decode(SubSeq(file, readOffset + 1, to)) # {Skip}
    /\ readOffset' = OffsetAfterRefusal(to)
    /\ LeaveLoop
    /\ UNCHANGED <<disk, pending, stats, maxBytes, drain, history, calls, faults>>

DrainEnds ==
    /\ pc = "read"
    /\ Removed >= MaxBatch \/ readOffset >= Len(file)
    /\ LeaveLoop
    /\ UNCHANGED <<disk, memory, drain, history, calls, faults>>

\* Opening, stat or seek fails (nothing is read), or a read fails.
DrainFails ==
    /\ Fault("io")
    /\ \/ pc = "idle" /\ UNCHANGED <<pc, ret>>
       \/ pc = "read" /\ LeaveLoop
    /\ stats' = [stats EXCEPT !.writeErr = @ + 1]
    /\ UNCHANGED <<disk, readOffset, pending, maxBytes, drain, history, calls>>

PendingAfterDrain_NoClamp == pending - Removed
PendingAfterDrain_NotSkipped ==
    IF drain.drained >= pending THEN 0 ELSE pending - drain.drained

PendingAfterDrain == IF Removed >= pending THEN 0 ELSE pending - Removed

CompactDue_AtHalf(left) ==
    \/ readOffset >= drain.size /\ left = 0
    \/ readOffset >= drain.size \div 2 /\ left < CompactBelow
CompactDue_OnlyWhenEmpty(left) == readOffset >= drain.size /\ left = 0

CompactDue(left) ==
    \/ readOffset >= drain.size /\ left = 0
    \/ readOffset > drain.size \div 2 /\ left < CompactBelow

Account ==
    /\ pc = "account"
    /\ pending' = PendingAfterDrain
    /\ stats' = [stats EXCEPT !.recovered = @ + drain.drained]
    /\ pc' = IF CompactDue(PendingAfterDrain) /\ readOffset > 0 THEN "compact" ELSE "idle"
    /\ drain' = NoDrain
    /\ UNCHANGED <<disk, readOffset, maxBytes, ret, history, calls, faults>>

-------------------------------------------------------------------------------
\* compactFile

CompactTruncate ==
    /\ pc = "compact" /\ readOffset >= Len(file)
    /\ file' = <<>> /\ readOffset' = 0 /\ pending' = 0
    /\ pc' = "save" /\ ret' = "idle"
    /\ UNCHANGED <<offsetFile, tmp, stats, maxBytes, drain, history, calls, faults>>

CompactCopy ==
    /\ pc = "compact" /\ readOffset < Len(file)
    /\ tmp' = Unread
    /\ pc' = "rename"
    /\ UNCHANGED <<file, offsetFile, memory, ret, drain, history, calls, faults>>

CompactRename ==
    /\ pc = "rename"
    /\ file' = tmp /\ tmp' = <<>> /\ readOffset' = 0
    /\ pc' = "save" /\ ret' = "idle"
    /\ UNCHANGED <<offsetFile, pending, stats, maxBytes, drain, history, calls, faults>>

\* An error before the rename leaves the queue file as it was.
CompactFails ==
    /\ pc \in {"compact", "rename"}
    /\ Fault("io")
    /\ tmp' = <<>>
    /\ stats' = [stats EXCEPT !.writeErr = @ + 1]
    /\ pc' = "idle"
    /\ UNCHANGED <<file, offsetFile, readOffset, pending, maxBytes, ret, drain, history, calls>>

-------------------------------------------------------------------------------
\* Clear

Clear ==
    /\ Call
    /\ file' = <<>> /\ readOffset' = 0 /\ pending' = 0
    /\ pc' = "save" /\ ret' = "idle"
    /\ cleared' = cleared + Cardinality(Newlines(file, readOffset))
    /\ UNCHANGED <<offsetFile, tmp, stats, maxBytes, drain, log, sent, faults>>

ClearFails ==
    /\ Call
    /\ Fault("io")
    /\ stats' = [stats EXCEPT !.writeErr = @ + 1]
    /\ UNCHANGED <<disk, readOffset, pending, maxBytes, pc, ret, drain, history>>

-------------------------------------------------------------------------------
\* The process stops, whatever it was doing, and NewDiskOverflowQueue opens
\* what it left on disk.

\* countQueueLines: the newlines, and what follows the last of them.
CountQueueLines(s, from) ==
    LET unfinished == Len(s) > from /\ ~IsNewline(s[Len(s)])
    IN Cardinality(Newlines(s, from)) + (IF unfinished THEN 1 ELSE 0)

RestartOffset_Unchecked == offsetFile
RestartOffset == IF offsetFile > Len(file) THEN 0 ELSE offsetFile

Restart ==
    /\ Fault("restart")
    /\ readOffset' = RestartOffset
    /\ pending' = CountQueueLines(file, RestartOffset)
    /\ stats' = ZeroStats
    /\ maxBytes' \in Limits
    /\ pc' = IF offsetFile > Len(file) THEN "save" ELSE "idle"
    /\ ret' = "idle" /\ drain' = NoDrain
    /\ UNCHANGED <<disk, history, calls>>

-------------------------------------------------------------------------------
Enqueue == \E l \in Lines : EnqueueStored(l) \/ EnqueueFull(l) \/ EnqueueFails(l)

Save == SaveOpen \/ SaveWrite \/ SaveFails

Submit == \E to \in 1..Len(file) :
              \E text \in Lines \cup {Garbage} : SubmitLine(to, text)

Drain ==
    \/ DrainBegin \/ DrainEnds \/ DrainFails \/ Account
    \/ \E to \in 1..Len(file) : SkipLine(to) \/ RefuseLine(to)

Compact == CompactTruncate \/ CompactCopy \/ CompactRename \/ CompactFails

Next ==
    \/ Enqueue \/ Save \/ Submit \/ Drain \/ Compact
    \/ Clear \/ ClearFails \/ Restart
    \/ \E m \in Limits : SetMaxDiskMB(m)

Spec == Init /\ [][Next]_vars

\* overflowDrainer calls Drain on every tick and a method that has begun runs
\* to its end; the workers keep emptying the memory queue, so a line that is
\* offered again and again is accepted some time.
Fairness == WF_vars(Save \/ Drain \/ Compact) /\ SF_vars(Submit)

FairSpec == Spec /\ Fairness

-------------------------------------------------------------------------------
\* Properties

\* Until a save of the offset fails, no crash makes the reader pass over a line it
\* has not handed downstream: whatever step the process stops at (between the
\* truncate and the write of overflow.offset, between the rename of a compacted file
\* and the reset of the offset), New resumes at or before the reader's place.
CrashSafe == Without("save") => RestartOffset <= readOffset

\* pending, which the status page and the benchmark read, is the number of unread
\* lines in the file whenever no method is under way, until a restart has counted
\* a torn line as one.
PendingExact ==
    (pc = "idle" /\ (Without("restart") \/ Without("write"))) =>
        pending = Cardinality(Newlines(file, readOffset))

\* With fewer than CompactBelow lines pending, at most half of the file is a
\* consumed prefix: Drain's compaction test never lets it grow further, unless a
\* compaction failed or was cut short by a restart.
SpaceReclaimed ==
    (pc = "idle" /\ pending < CompactBelow /\ Without("restart") /\ Without("io")) =>
        readOffset <= Len(file) \div 2

\* From the start of a compaction (or a Clear) until overflow.offset is reset,
\* no step changes what is left to read; neither does a restart in between, unless
\* a save has failed.
Compacting == pc \in {"compact", "rename"} \/ (pc \in {"save", "write"} /\ ret = "idle")

CompactionKeepsUnread == [][Compacting /\ Without("save")' => Unread' = Unread]_vars

\* The writes that stopped short: cells that are no newline and have no
\* successor of the same line.
Torn == {i \in 1..Len(log) : /\ ~IsNewline(log[i])
                             /\ i < Len(log) => log[i + 1].at = 1}

\* A write that fails half-way damages at most the one line stored after it:
\* of the whole lines the reader is past, all but as many as there were such
\* writes were handed downstream intact or discarded by Clear, unless a restart
\* found an offset that could not be saved.
DamageBounded ==
    (Without("restart") \/ Without("save")) =>
        Cardinality({i \in Newlines(log, 0) : i <= head}) <=
            Cardinality({i \in 1..Len(sent) : sent[i] \in Lines}) + cleared + Cardinality(Torn)

\* The inductive strengthening of CrashSafe.  The reader stays in the file, which is
\* the end of the log; a compaction starts beyond what the compacted file will hold.
\* Until a save fails, the offset file is exact while no method is under way, and
\* behind the reader during a Drain, so New recognises what a compaction left stale.
FileInv ==
    /\ readOffset <= Len(file)
    /\ Len(file) <= Len(log)
    /\ \A i \in 1..Len(file) : file[i] = log[Len(log) - Len(file) + i]

OffsetInv ==
    /\ pc \in {"idle", "account", "compact", "rename"} => offsetFile = readOffset
    /\ pc = "read" => /\ offsetFile <= readOffset
                      /\ Removed = 0 => offsetFile = readOffset
    /\ pc = "save" => RestartOffset <= readOffset
    /\ pc = "write" => offsetFile = 0
    /\ pc \in {"save", "write"} => /\ ret # "read"
                                   /\ ret = "idle" => readOffset = 0

CompactInv ==
    /\ ret = "account" => pc \in {"save", "write"}
    /\ pc \in {"read", "account"} \/ ret = "account" => drain.size = Len(file)
    /\ pc \in {"compact", "rename"} => Len(file) - readOffset < readOffset
    /\ pc = "rename" => tmp = Unread

IInv == TypeOK /\ FileInv /\ CompactInv /\ (Without("save") => OffsetInv)

\* Until a save fails, the queue implements the log of SpillLog.
Abstract == INSTANCE SpillLog WITH Restarts <- "restart" \in Faults

ImplementsSpillLog ==
    Abstract!ALInit /\ [][Without("save")' => Abstract!ALNext]_(Abstract!alvars)

\* Every stored line is read back: the reader catches up again and again.
ReaderCatchesUp == []<>(head = Len(log))

\* "A restarted process does not replay" (the comment on DiskOverflowQueue and
\* the README): no more texts are handed downstream than lines were stored.
NoReplay == Len(sent) <= Cardinality(Newlines(log, 0))

\* "A failed write loses no data" (same places, about compaction): a restart
\* never moves the reader past a line it has not handed downstream.
FailedWriteLosesNothing == [][Restart => head' <= head]_vars
===============================================================================
