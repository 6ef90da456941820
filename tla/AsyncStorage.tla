----------------------------- MODULE AsyncStorage -----------------------------
(***************************************************************************)
(* AsyncStorage (src/internal/storage/async_storage.go): the bounded buffer *)
(* between the goroutines that save log entries and the one goroutine,      *)
(* writeLoop, that hands them in batches to the database.                   *)
(*                                                                         *)
(* Four kinds of goroutines meet here: senders inside SaveBatch or Save,    *)
(* writeLoop, one caller of Clear and one of Close.  A channel operation is *)
(* one step, so is each critical section of as.mu and each call of the      *)
(* database: between them every interleaving is possible.                   *)
(*                                                                         *)
(* A definition D_How is the form a plausible mistake would give to D,      *)
(* which follows it; the model does not use it.                            *)
(***************************************************************************)
EXTENDS Integers, Sequences, FiniteSets, SequencesExt

CONSTANTS Senders,      \* goroutines that call SaveBatch and Save
          BufferSize,   \* capacity of the buffer channel
          BatchSize,    \* entries writeLoop collects before it flushes
          MaxEntries,   \* bound: how many entries each sender creates
          MaxClears     \* bound: calls of Clear

ASSUME AsyncStorageAssumption ==
    /\ IsFiniteSet(Senders)
    /\ BufferSize \in Nat /\ BatchSize \in Nat \ {0}
    /\ MaxEntries \in [Senders -> Nat] /\ MaxClears \in Nat

Entry == Senders \X Nat

VARIABLES
    buffer, closed,      \* the channel as.buffer
    cancelled,           \* as.ctx is done
    stats,               \* BufferedCount, FlushedCount, DroppedCount
    db, dbClosed,        \* the underlying storage: rows in order of arrival
    loop, batch,         \* writeLoop: its next step, the batch it collects,
    back, discarded,     \*   where flush returns to, entries a Clear threw away
    sender, todo,        \* per sender: its next step, the entries left to save
    clearer, closer,     \* the next step of Clear's caller and of Close's
    panicked,            \* a goroutine has sent on the closed channel
    made,                \* history: how many entries each sender created
    sent, gone,          \* history: entries sent; lost by a failed flush or cleared
    old,                 \* history: the entries sent before the Clear under way
    clears, timedOut     \* history: calls of Clear; Close gave up waiting

channel == <<buffer, closed, cancelled>>
database == <<db, dbClosed>>
writer == <<loop, batch, back, discarded>>
senders == <<sender, todo, made>>
others == <<clearer, closer, clears, timedOut, old>>
history == <<sent, gone>>
vars == <<channel, stats, database, writer, senders, others, panicked, history>>

TypeOK ==
    /\ buffer \in Seq(Entry) /\ batch \in Seq(Entry) /\ db \in Seq(Entry)
    /\ Len(buffer) <= BufferSize /\ Len(batch) <= BatchSize
    /\ stats \in [buffered : Int, flushed : Nat, dropped : Nat]
    /\ loop \in {"select", "flush", "account", "discard", "drain", "done"}
    /\ back \in {"select", "drain", "done"}
    /\ discarded \in Nat
    /\ sender \in [Senders -> {"idle", "send", "parked", "try", "count"}]
    /\ todo \in [Senders -> Seq(Entry)]
    /\ made \in [Senders -> Nat] /\ \A s \in Senders : made[s] <= MaxEntries[s]
    /\ clearer \in {"idle", "offer", "wait", "truncate"}
    /\ closer \in {"idle", "close", "wait", "dbClose", "end"}
    /\ {closed, cancelled, dbClosed, panicked, timedOut} \subseteq BOOLEAN
    /\ {sent, gone, old} \subseteq SUBSET Entry
    /\ clears \in 0..MaxClears

Init ==
    /\ buffer = <<>> /\ closed = FALSE /\ cancelled = FALSE
    /\ stats = [buffered |-> 0, flushed |-> 0, dropped |-> 0]
    /\ db = <<>> /\ dbClosed = FALSE
    /\ loop = "select" /\ batch = <<>> /\ back = "select" /\ discarded = 0
    /\ sender = [s \in Senders |-> "idle"] /\ todo = [s \in Senders |-> <<>>]
    /\ made = [s \in Senders |-> 0]
    /\ clearer = "idle" /\ closer = "idle" /\ clears = 0 /\ timedOut = FALSE
    /\ panicked = FALSE
    /\ sent = {} /\ gone = {} /\ old = {}

-------------------------------------------------------------------------------
\* SaveBatch and Save

Call(s, k, step) ==
    /\ sender[s] = "idle" /\ made[s] + k <= MaxEntries[s]
    /\ todo' = [todo EXCEPT ![s] = [i \in 1..k |-> <<s, made[s] + i>>]]
    /\ made' = [made EXCEPT ![s] = @ + k]
    /\ sender' = [sender EXCEPT ![s] = step]

SaveBatch(s, k) ==
    /\ Call(s, k, "send")
    /\ UNCHANGED <<channel, stats, database, writer, others, panicked, history>>

\* The entry goes into the buffer; the sender has yet to count it.
Put(s) ==
    /\ buffer' = Append(buffer, Head(todo[s]))
    /\ sent' = sent \cup {Head(todo[s])}
    /\ sender' = [sender EXCEPT ![s] = "count"]
    /\ UNCHANGED <<closed, cancelled, stats, database, writer, todo, made, others,
                   panicked, gone>>

HasRoom == ~closed /\ Len(buffer) < BufferSize

Send(s) == sender[s] = "send" /\ HasRoom /\ Put(s)

\* No case of the select is ready.  A goroutine that waits in a select is woken
\* by the first case that becomes ready, so cancel() reaches it before close().
Park(s) ==
    /\ sender[s] = "send" /\ ~HasRoom /\ ~closed /\ ~cancelled
    /\ sender' = [sender EXCEPT ![s] = "parked"]
    /\ UNCHANGED <<channel, stats, database, writer, todo, made, others, panicked, history>>

SendParked(s) == sender[s] = "parked" /\ ~cancelled /\ HasRoom /\ Put(s)

\* The ctx.Done case: the entries left are counted as dropped.
Remaining_OffByOne(s) == Len(todo[s]) - 1
Remaining(s) == Len(todo[s])

Interruptible_NotParked == {"send"}
Interruptible == {"send", "parked"}

SendCancelled(s) ==
    /\ sender[s] \in Interruptible /\ cancelled
    /\ stats' = [stats EXCEPT !.dropped = @ + Remaining(s)]
    /\ sender' = [sender EXCEPT ![s] = "idle"]
    /\ todo' = [todo EXCEPT ![s] = <<>>]
    /\ UNCHANGED <<channel, database, writer, made, others, panicked, history>>

\* The critical section after a send.
Count(s) ==
    /\ sender[s] = "count"
    /\ stats' = [stats EXCEPT !.buffered = @ + 1]
    /\ todo' = [todo EXCEPT ![s] = Tail(@)]
    /\ sender' = [sender EXCEPT ![s] = IF Len(todo[s]) > 1 THEN "send" ELSE "idle"]
    /\ UNCHANGED <<channel, database, writer, made, others, panicked, history>>

\* A select looks at the closed channel: a send on it is a ready case too.
SendOnClosed(s) ==
    /\ sender[s] \in {"send", "try"} /\ closed
    /\ panicked' = TRUE
    /\ UNCHANGED <<channel, stats, database, writer, senders, others, history>>

\* Save: the context is looked at once, then the send must not block.
Save(s) ==
    /\ ~cancelled
    /\ Call(s, 1, "try")
    /\ UNCHANGED <<channel, stats, database, writer, others, panicked, history>>

TrySend(s) == sender[s] = "try" /\ HasRoom /\ Put(s)

TryFull(s) ==
    /\ sender[s] = "try" /\ ~HasRoom /\ ~closed
    /\ stats' = [stats EXCEPT !.dropped = @ + 1]
    /\ sender' = [sender EXCEPT ![s] = "idle"]
    /\ todo' = [todo EXCEPT ![s] = <<>>]
    /\ UNCHANGED <<channel, database, writer, made, others, panicked, history>>

SaveCancelled(s) ==
    /\ cancelled
    /\ sender[s] = "idle" /\ made[s] < MaxEntries[s]
    /\ made' = [made EXCEPT ![s] = @ + 1]
    /\ stats' = [stats EXCEPT !.dropped = @ + 1]
    /\ UNCHANGED <<channel, database, writer, sender, todo, others, panicked, history>>

-------------------------------------------------------------------------------
\* writeLoop

Full_OffByOne(entries) == Len(entries) > BatchSize
Full(entries) == Len(entries) >= BatchSize

\* One entry is received; a full batch is flushed and the loop goes on.
Receive(from) ==
    /\ loop = from /\ buffer # <<>>
    /\ buffer' = Tail(buffer)
    /\ batch' = Append(batch, Head(buffer))
    /\ IF Full(batch') THEN loop' = "flush" /\ back' = from
                       ELSE UNCHANGED <<loop, back>>
    /\ UNCHANGED <<closed, cancelled, stats, database, discarded, senders, others,
                   panicked, history>>

\* The channel is closed and empty: the last batch is flushed, the loop ends.
Finish ==
    /\ loop \in {"select", "drain"} /\ closed /\ buffer = <<>>
    /\ IF batch # <<>> THEN loop' = "flush" /\ back' = "done"
                       ELSE loop' = "done" /\ UNCHANGED back
    /\ UNCHANGED <<channel, stats, database, batch, discarded, senders, others,
                   panicked, history>>

TickDue_Full == Full(batch)
TickDue == batch # <<>>

Tick ==
    /\ loop = "select" /\ TickDue
    /\ loop' = "flush" /\ back' = "select"
    /\ UNCHANGED <<channel, stats, database, batch, discarded, senders, others,
                   panicked, history>>

AfterCancel_IfEmptyDone == IF buffer = <<>> /\ batch = <<>> THEN "done" ELSE "drain"
AfterCancel == "drain"

\* ctx.Done: "for entry := range as.buffer", until the channel is closed.
BeginDrain ==
    /\ loop = "select" /\ cancelled
    /\ loop' = AfterCancel
    /\ UNCHANGED <<channel, stats, database, batch, back, discarded, senders, others,
                   panicked, history>>

\* flush: the database takes the batch or returns an error.
FlushStored ==
    /\ loop = "flush" /\ ~dbClosed
    /\ db' = db \o batch
    /\ loop' = "account"
    /\ UNCHANGED <<channel, stats, dbClosed, batch, back, discarded, senders, others,
                   panicked, history>>

\* After a flush a new slice is made, whatever flush returned.
FreshBatch_Reused == batch
FreshBatch == <<>>

FlushFails ==
    /\ loop = "flush"
    /\ gone' = gone \cup Range(batch)
    /\ batch' = FreshBatch /\ loop' = back /\ back' = "select"
    /\ UNCHANGED <<channel, stats, database, discarded, senders, others, panicked, sent>>

Flushed_BatchSize == BatchSize
Flushed == Len(batch)

Account ==
    /\ loop = "account"
    /\ stats' = [stats EXCEPT !.flushed = @ + Flushed, !.buffered = @ - Flushed]
    /\ batch' = FreshBatch /\ loop' = back /\ back' = "select"
    /\ UNCHANGED <<channel, database, discarded, senders, others, panicked, history>>

-------------------------------------------------------------------------------
\* Clear: the caller and writeLoop

Clear ==
    /\ clearer = "idle" /\ clears < MaxClears
    /\ clears' = clears + 1
    /\ clearer' = "offer"
    /\ old' = sent
    /\ UNCHANGED <<channel, stats, database, writer, senders, closer, timedOut,
                   panicked, history>>

BatchAfterClear_Kept == batch
BatchAfterClear == <<>>

\* Clear's caller and writeLoop meet at clearCh; the batch is thrown away.
ClearAccepted ==
    /\ clearer = "offer" /\ loop = "select"
    /\ clearer' = "wait" /\ loop' = "discard"
    /\ discarded' = Len(batch) /\ batch' = BatchAfterClear
    /\ gone' = gone \cup Range(batch)
    /\ UNCHANGED <<channel, stats, database, back, senders, closer, clears, timedOut,
                   old, panicked, sent>>

ClearCancelled ==
    /\ clearer = "offer" /\ cancelled
    /\ clearer' = "idle" /\ old' = {}
    /\ UNCHANGED <<channel, stats, database, writer, senders, closer, clears, timedOut,
                   panicked, history>>

Discard ==
    /\ loop = "discard" /\ buffer # <<>>
    /\ buffer' = Tail(buffer)
    /\ discarded' = discarded + 1
    /\ gone' = gone \cup {Head(buffer)}
    /\ UNCHANGED <<closed, cancelled, stats, database, loop, batch, back, senders,
                   others, panicked, sent>>

\* Nothing can be received: the default case.  A closed channel never gets
\* here, since receiving from it always succeeds.
BufferedAfterClear ==
    IF discarded >= stats.buffered THEN 0 ELSE stats.buffered - discarded

\* close(done) wakes the caller.
AfterDiscard_IfAny == IF discarded > 0 THEN "truncate" ELSE "wait"
AfterDiscard == "truncate"

Discarded ==
    /\ loop = "discard" /\ buffer = <<>> /\ ~closed
    /\ stats' = [stats EXCEPT !.buffered = BufferedAfterClear]
    /\ loop' = "select" /\ clearer' = AfterDiscard
    /\ discarded' = 0
    /\ UNCHANGED <<channel, database, batch, back, senders, closer, clears, timedOut,
                   old, panicked, history>>

\* storage.Clear, which may return an error.
Truncate ==
    /\ clearer = "truncate"
    /\ clearer' = "idle" /\ old' = {}
    /\ \/ ~dbClosed /\ db' = <<>> /\ gone' = gone \cup Range(db)
       \/ UNCHANGED <<db, gone>>
    /\ UNCHANGED <<channel, stats, dbClosed, writer, senders, closer, clears, timedOut,
                   panicked, sent>>

-------------------------------------------------------------------------------
\* Close, once

Cancel ==
    /\ closer = "idle"
    /\ cancelled' = TRUE /\ closer' = "close"
    /\ UNCHANGED <<buffer, closed, stats, database, writer, senders, clearer, clears,
                   timedOut, old, panicked, history>>

CloseBuffer ==
    /\ closer = "close"
    /\ closed' = TRUE /\ closer' = "wait"
    /\ UNCHANGED <<buffer, cancelled, stats, database, writer, senders, clearer, clears,
                   timedOut, old, panicked, history>>

\* writeLoop has ended, or ten seconds are over.
EndWait ==
    /\ closer = "wait"
    /\ timedOut' = (loop # "done")
    /\ closer' = "dbClose"
    /\ UNCHANGED <<channel, stats, database, writer, senders, clearer, clears, old,
                   panicked, history>>

CloseDb ==
    /\ closer = "dbClose"
    /\ dbClosed' = TRUE /\ closer' = "end"
    /\ UNCHANGED <<channel, stats, db, writer, senders, clearer, clears, timedOut, old,
                   panicked, history>>
-------------------------------------------------------------------------------
SenderStep(s) ==
    \/ Send(s) \/ Park(s) \/ SendParked(s) \/ SendCancelled(s) \/ Count(s)
    \/ TrySend(s) \/ TryFull(s) \/ SendOnClosed(s)

WriterStep ==
    \/ Receive("select") \/ Receive("drain") \/ Finish \/ Tick \/ BeginDrain
    \/ FlushStored \/ FlushFails \/ Account \/ Discard \/ Discarded

ClearStep == ClearAccepted \/ ClearCancelled \/ Truncate

CloseStep == CloseBuffer \/ EndWait \/ CloseDb

\* A panic ends the process.
Next ==
    /\ ~panicked
    /\ \/ \E s \in Senders : \/ \E k \in 1..MaxEntries[s] : SaveBatch(s, k)
                             \/ Save(s) \/ SaveCancelled(s) \/ SenderStep(s)
       \/ WriterStep
       \/ Clear \/ ClearStep
       \/ Cancel \/ CloseStep

Spec == Init /\ [][Next]_vars

\* The Go scheduler runs every goroutine that can take a step.  Nothing makes
\* anyone call SaveBatch, Save, Clear or Close.
Fairness ==
    /\ \A s \in Senders : WF_vars(SenderStep(s) /\ ~panicked)
    /\ WF_vars(WriterStep /\ ~panicked)
    /\ WF_vars(ClearStep /\ ~panicked)
    /\ WF_vars(CloseStep /\ ~panicked)

FairSpec == Spec /\ Fairness

-------------------------------------------------------------------------------
\* Properties

\* The batch while the database does not hold it yet.
Pending == IF loop = "account" THEN <<>> ELSE batch

\* The entries on their way through, in the order in which they were sent.
Stream == db \o Pending \o buffer

\* An entry that was sent is in exactly one place: stored or on its way, lost
\* by a failed flush, or thrown away by Clear; never twice in the database.
EveryEntryOnce ==
    /\ Cardinality(Range(Stream)) = Len(Stream)
    /\ Range(Stream) \cup gone = sent
    /\ Range(Stream) \cap gone = {}

\* Batching, ticks, failures and clears never reorder what one sender sends.
OrderKept ==
    \A i, j \in DOMAIN Stream :
        i < j /\ Stream[i][1] = Stream[j][1] => Stream[i][2] < Stream[j][2]

Counting == {s \in Senders : sender[s] = "count"}

\* BufferedCount, which the benchmark takes for the backlog, hides nothing:
\* apart from senders about to count, it is never below what is buffered.
BacklogNeverHidden ==
    stats.buffered + Cardinality(Counting) >= Len(buffer) + Len(batch)

\* Without a Clear it overstates the backlog by just the entries that failed
\* flushes lost, for ever.
BufferedExact ==
    clears = 0 => stats.buffered + Cardinality(Counting)
                      = Len(buffer) + Len(batch) + Cardinality(gone)

Unsent(s) == Len(todo[s]) - (IF sender[s] = "count" THEN 1 ELSE 0)

\* An entry given to SaveBatch or Save is sent, still to be sent, or counted
\* in DroppedCount, whenever its sender learns of the shutdown.
DroppedExact ==
    stats.dropped + Cardinality(sent) + SumFunction([s \in Senders |-> Unsent(s)])
        = SumFunction(made)

\* When the database is about to be truncated for a Clear, every entry sent
\* before that Clear was called is out of the buffer and of the batch.
ClearReachesAll == clearer = "truncate" => old \cap (Range(buffer) \cup Range(batch)) = {}

\* A Close that did not give up leaves nothing behind in memory.
CloseFlushes == closer = "end" /\ ~timedOut => buffer = <<>> /\ batch = <<>>

\* Back-pressure delays a sender but never for ever.
SendersReturn == \A s \in Senders : sender[s] # "idle" ~> sender[s] = "idle" \/ panicked

\* What was sent does not stay in memory, not even less than a full batch.
MemoryEmpties == <>[](panicked \/ (buffer = <<>> /\ batch = <<>>))

\* Clear returns unless a shutdown begins meanwhile.
ClearReturns == clearer # "idle" ~> clearer = "idle" \/ cancelled

\* "Now it's safe to close the buffer since no sender can write after ctx is
\* cancelled" (the comment in Close).
NoSendOnClosed == ~panicked
===============================================================================
