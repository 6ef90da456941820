------------------------------ MODULE Processor ------------------------------
(***************************************************************************)
(* Processor (src/internal/processor/processor.go): the goroutines that     *)
(* carry a submitted line to the storage.  Submit puts it into the input    *)
(* queue, or into the overflow queue when that is full; a worker parses it  *)
(* and puts it into the output queue; batchProcessor saves it in a batch;   *)
(* overflowDrainer brings what was spilled back to the input queue.  All of *)
(* them run while UpdateConfig changes the number of workers, ClearPending- *)
(* Data throws the backlog away and Stop shuts the processor down.          *)
(*                                                                         *)
(* A channel operation is one step, and so is each critical section of p.mu *)
(* and of the overflow queue's q.mu.  ProcessorStats is left out: the code   *)
(* never reads it back.  The overflow queue is what SpillLog makes it while *)
(* the process lives: whole lines, each read once and in order.             *)
(*                                                                         *)
(* A definition D_How is the form a plausible mistake would give to D,      *)
(* which follows it; the model does not use it.                            *)
(***************************************************************************)
EXTENDS Integers, Sequences, FiniteSets, SequencesExt

CONSTANTS Lines,       \* the lines submitted, each by a goroutine of its own
          Updates,     \* the calls of UpdateConfig, concurrent requests
          Configs,     \* what they may ask for, and what Start began with
          QueueSize,   \* capacity of inputChan and of outputChan
          SpillCap,    \* lines the overflow queue has room for
          StopCap,     \* capacity of workerStopChan
          DrainBatch,  \* overflow_drain_batch
          MaxClears    \* bound: calls of ClearPendingData

Config == [workers : Nat \ {0}, batchSize : Nat \ {0}, overflow : BOOLEAN]

ASSUME ProcessorAssumption ==
    /\ IsFiniteSet(Lines) /\ IsFiniteSet(Updates)
    /\ Configs \subseteq Config /\ Configs # {}
    /\ {QueueSize, StopCap, DrainBatch} \subseteq Nat \ {0}
    /\ {SpillCap, MaxClears} \subseteq Nat

VARIABLES
    config, hasOverflow,    \* p.config; p.overflow is not nil
    stopped, cancelled,     \* p.stopped; p.ctx is done
    input, output, stops,   \* the channels; stops counts the signals
    spill,                  \* the unread lines of the overflow queue
    caller,                 \* per line: the next step of its Submit
    waiting, draining,      \* workers waiting for a line: before, after ctx.Done
    emitting,               \* lines parsed by a worker that waits for outputChan
    batcher, limit, batch,  \* batchProcessor: next step, its batch size, batch
    back,                   \*   where saveBatch returns to
    drainer, drainOn, room, \* overflowDrainer: next step, its OverflowEnabled,
                            \*   how many lines this Drain may still submit
    updater,                \* per UpdateConfig: next step and local variables
    stopper,                \* the next step of Stop
    clearer, clears,        \* the next step of ClearPendingData; its calls
    gone,                   \* history: lines saved, unparsable, cleared, or
                            \*   abandoned by a worker at shutdown
    old                     \* history: lines accepted before the clear under way

settings == <<config, hasOverflow, stopped, cancelled>>
workers == <<waiting, draining, emitting>>
batching == <<batcher, limit, batch, back>>
recovery == <<drainer, drainOn, room>>
control == <<updater, stopper, clearer, clears, old>>
vars == <<settings, input, output, stops, spill, caller, workers, batching,
          recovery, control, gone>>

Emission == [line : Lines, leaving : BOOLEAN]
Update == [at : {"idle", "end"}]
              \cup [at : {"lock"}, asked : Configs, create : {"no", "ok", "fails"}]
              \cup [at : {"scale"}, diff : Int]

TypeOK ==
    /\ config \in Config
    /\ {hasOverflow, stopped, cancelled, drainOn} \subseteq BOOLEAN
    /\ {input, output, spill, batch} \subseteq Seq(Lines)
    /\ Len(input) <= QueueSize /\ Len(output) <= QueueSize
    /\ Len(spill) <= SpillCap /\ stops \in 0..StopCap
    /\ caller \in [Lines -> {"new", "select", "spill", "enqueue", "accepted", "refused"}]
    /\ waiting \in Nat /\ draining \in Nat /\ emitting \subseteq Emission
    /\ batcher \in {"select", "save", "drain", "done"}
    /\ back \in {"select", "drain", "done"} /\ limit \in Nat \ {0}
    /\ drainer \in {"select", "drain", "done"} /\ room \in 0..DrainBatch
    /\ updater \in [Updates -> Update]
    /\ stopper \in {"idle", "cancel", "wait", "end"}
    /\ clearer \in {"idle", "input", "output", "overflow"} /\ clears \in 0..MaxClears
    /\ gone \subseteq Lines /\ old \subseteq Lines

\* NewProcessor, whose overflow queue may fail to open, and Start.
Init ==
    /\ config \in Configs
    /\ hasOverflow \in {config.overflow, FALSE}
    /\ stopped = FALSE /\ cancelled = FALSE
    /\ input = <<>> /\ output = <<>> /\ stops = 0 /\ spill = <<>>
    /\ caller = [l \in Lines |-> "new"]
    /\ waiting = config.workers /\ draining = 0 /\ emitting = {}
    /\ batcher = "select" /\ limit = config.batchSize /\ batch = <<>> /\ back = "select"
    /\ drainer = "select" /\ drainOn = config.overflow /\ room = 0
    /\ updater = [u \in Updates |-> [at |-> "idle"]]
    /\ stopper = "idle" /\ clearer = "idle" /\ clears = 0
    /\ gone = {} /\ old = {}

-------------------------------------------------------------------------------
\* Submit, and trySpill when the input queue is full

SubmitTo(l, from, step) == caller[l] = from /\ caller' = [caller EXCEPT ![l] = step]

SubmitCheck(l) ==
    /\ SubmitTo(l, "new", IF stopped THEN "refused" ELSE "select")
    /\ UNCHANGED <<settings, input, output, stops, spill, workers, batching,
                   recovery, control, gone>>

SubmitQueued(l) ==
    /\ SubmitTo(l, "select", "accepted")
    /\ Len(input) < QueueSize
    /\ input' = Append(input, l)
    /\ UNCHANGED <<settings, output, stops, spill, workers, batching, recovery,
                   control, gone>>

SubmitCancelled(l) ==
    /\ SubmitTo(l, "select", "refused")
    /\ cancelled
    /\ UNCHANGED <<settings, input, output, stops, spill, workers, batching,
                   recovery, control, gone>>

SubmitFull(l) ==
    /\ SubmitTo(l, "select", "spill")
    /\ Len(input) = QueueSize /\ ~cancelled
    /\ UNCHANGED <<settings, input, output, stops, spill, workers, batching,
                   recovery, control, gone>>

MaySpill == config.overflow /\ hasOverflow

SpillCheck(l) ==
    /\ SubmitTo(l, "spill", "enqueue")
    /\ MaySpill
    /\ UNCHANGED <<settings, input, output, stops, spill, workers, batching,
                   recovery, control, gone>>

\* Drain holds q.mu.
QueueUnlocked == drainer # "drain"

SpillStored(l) ==
    /\ SubmitTo(l, "enqueue", "accepted")
    /\ QueueUnlocked /\ Len(spill) < SpillCap
    /\ spill' = Append(spill, l)
    /\ UNCHANGED <<settings, input, output, stops, workers, batching, recovery, control,
                   gone>>

\* Overflow is off, or its queue is full or cannot be written.
SubmitDropped(l) ==
    /\ \/ SubmitTo(l, "spill", "refused") /\ ~MaySpill
       \/ SubmitTo(l, "enqueue", "refused") /\ QueueUnlocked
    /\ UNCHANGED <<settings, input, output, stops, spill, workers, batching, recovery,
                   control, gone>>

-------------------------------------------------------------------------------
\* worker and processLine

\* A line is received and parsed, by a worker that has seen ctx.Done or not.
Receive(leaving) ==
    /\ IF leaving THEN draining > 0 ELSE waiting > 0
    /\ input # <<>>
    /\ input' = Tail(input)
    /\ IF leaving THEN draining' = draining - 1 /\ UNCHANGED waiting
                  ELSE waiting' = waiting - 1 /\ UNCHANGED draining
    /\ emitting' = emitting \cup {[line |-> Head(input), leaving |-> leaving]}
    /\ UNCHANGED <<settings, output, stops, spill, caller, batching, recovery, control,
                   gone>>

\* The worker is rid of its line and goes back to the loop it came from.
Finished(e) ==
    /\ e \in emitting
    /\ emitting' = emitting \ {e}
    /\ IF e.leaving THEN draining' = draining + 1 /\ UNCHANGED waiting
                    ELSE waiting' = waiting + 1 /\ UNCHANGED draining

ParseFails(e) ==
    /\ Finished(e)
    /\ gone' = gone \cup {e.line}
    /\ UNCHANGED <<settings, input, output, stops, spill, caller, batching, recovery,
                   control>>

Emit(e) ==
    /\ Finished(e)
    /\ Len(output) < QueueSize
    /\ output' = Append(output, e.line)
    /\ UNCHANGED <<settings, input, stops, spill, caller, batching, recovery, control,
                   gone>>

MayAbandon_NotLeaving(e) == cancelled /\ ~e.leaving
MayAbandon(e) == cancelled

Abandon(e) ==
    /\ Finished(e)
    /\ MayAbandon(e)
    /\ gone' = gone \cup {e.line}
    /\ UNCHANGED <<settings, input, output, stops, spill, caller, batching,
                   recovery, control>>

StopSignal ==
    /\ waiting > 0 /\ stops > 0
    /\ waiting' = waiting - 1 /\ stops' = stops - 1
    /\ UNCHANGED <<settings, input, output, spill, caller, draining, emitting,
                   batching, recovery, control, gone>>

WorkerLeaves ==
    /\ waiting > 0 /\ cancelled
    /\ waiting' = waiting - 1 /\ draining' = draining + 1
    /\ UNCHANGED <<settings, input, output, stops, spill, caller, emitting,
                   batching, recovery, control, gone>>

WorkerExits ==
    /\ draining > 0 /\ input = <<>>
    /\ draining' = draining - 1
    /\ UNCHANGED <<settings, input, output, stops, spill, caller, waiting,
                   emitting, batching, recovery, control, gone>>

-------------------------------------------------------------------------------
\* batchProcessor

\* The top of the loop reads the batch size; the select then uses what was
\* read, however long it waits.
Go(step) ==
    /\ batcher' = step
    /\ limit' = IF step = "select" THEN config.batchSize ELSE limit

SaveThen(step) == Go("save") /\ back' = step

\* An entry is received; a full batch is saved before the loop goes on.
BatchEntry ==
    /\ batcher \in {"select", "drain"} /\ output # <<>>
    /\ output' = Tail(output)
    /\ batch' = Append(batch, Head(output))
    /\ IF Len(batch') >= limit THEN SaveThen(batcher) ELSE Go(batcher) /\ UNCHANGED back
    /\ UNCHANGED <<settings, input, stops, spill, caller, workers, recovery, control,
                   gone>>

TickDue_Full == Len(batch) >= limit
TickDue == batch # <<>>

BatchTick ==
    /\ batcher = "select"
    /\ IF TickDue THEN SaveThen("select") ELSE Go("select") /\ UNCHANGED back
    /\ UNCHANGED <<settings, input, output, stops, spill, caller, workers, batch,
                   recovery, control, gone>>

BatchLeaves ==
    /\ batcher = "select" /\ cancelled
    /\ Go("drain")
    /\ UNCHANGED <<settings, input, output, stops, spill, caller, workers, batch, back,
                   recovery, control, gone>>

BatchExits ==
    /\ batcher = "drain" /\ output = <<>>
    /\ IF batch # <<>> THEN SaveThen("done") ELSE Go("done") /\ UNCHANGED back
    /\ UNCHANGED <<settings, input, output, stops, spill, caller, workers, batch,
                   recovery, control, gone>>

BatchAfterSave_Kept == batch
BatchAfterSave == <<>>

\* saveBatch: AsyncStorage has the batch; an error would only be logged.
SaveBatch ==
    /\ batcher = "save"
    /\ gone' = gone \cup Range(batch)
    /\ batch' = BatchAfterSave
    /\ Go(back) /\ back' = "select"
    /\ UNCHANGED <<settings, input, output, stops, spill, caller, workers, recovery,
                   control>>

-------------------------------------------------------------------------------
\* overflowDrainer

\* Drain's maxBatch bounds the loop "for drained+skipped < maxBatch".
BatchRoom_OneMore == DrainBatch + 1
BatchRoom == DrainBatch

\* Overflow may be off: the tick then only reads the configuration again.
DrainerTick ==
    /\ drainer = "select"
    /\ IF drainOn /\ hasOverflow
       THEN drainer' = "drain" /\ room' = BatchRoom /\ UNCHANGED drainOn
       ELSE drainOn' = config.overflow /\ UNCHANGED <<drainer, room>>
    /\ UNCHANGED <<settings, input, output, stops, spill, caller, workers, batching,
                   control, gone>>

DrainLine ==
    /\ drainer = "drain" /\ room > 0
    /\ spill # <<>> /\ Len(input) < QueueSize
    /\ input' = Append(input, Head(spill)) /\ spill' = Tail(spill)
    /\ room' = room - 1
    /\ UNCHANGED <<settings, output, stops, caller, workers, batching, drainer, drainOn,
                   control, gone>>

\* Enough lines, no more lines, or one that the input queue has no room for.
DrainEnds ==
    /\ drainer = "drain"
    /\ room = 0 \/ spill = <<>> \/ Len(input) = QueueSize
    /\ drainer' = "select" /\ room' = 0 /\ drainOn' = config.overflow
    /\ UNCHANGED <<settings, input, output, stops, spill, caller, workers, batching,
                   control, gone>>

DrainerExits ==
    /\ drainer = "select" /\ cancelled
    /\ drainer' = "done"
    /\ UNCHANGED <<settings, input, output, stops, spill, caller, workers, batching,
                   drainOn, room, control, gone>>

-------------------------------------------------------------------------------
\* UpdateConfig

\* The overflow queue is opened, when there is none, before p.mu is taken.
UpdateBegins(u, c) ==
    /\ updater[u].at = "idle"
    /\ \E r \in IF c.overflow /\ ~hasOverflow THEN {"ok", "fails"} ELSE {"no"} :
          updater' = [updater EXCEPT ![u] =
                        [at |-> "lock", asked |-> c, create |-> r]]
    /\ UNCHANGED <<settings, input, output, stops, spill, caller, workers,
                   batching, recovery, stopper, clearer, clears, old, gone>>

OldWorkerCount_Live == waiting + draining + Cardinality(emitting)
OldWorkerCount == config.workers

UpdateApplies(u) ==
    /\ updater[u].at = "lock" /\ ~stopped
    /\ LET c == updater[u].asked
           missing == c.overflow /\ ~hasOverflow
           opened == missing /\ updater[u].create = "ok"
       IN /\ hasOverflow' = (hasOverflow \/ opened)
          /\ config' = [c EXCEPT !.overflow = @ /\ (missing => opened)]
          /\ updater' = [updater EXCEPT ![u] =
                            [at |-> "scale", diff |-> c.workers - OldWorkerCount]]
    /\ UNCHANGED <<stopped, cancelled, input, output, stops, spill, caller,
                   workers, batching, recovery, stopper, clearer, clears, old, gone>>

UpdateStopped(u) ==
    /\ updater[u].at = "lock" /\ stopped
    /\ config' = updater[u].asked
    /\ updater' = [updater EXCEPT ![u] = [at |-> "end"]]
    /\ UNCHANGED <<hasOverflow, stopped, cancelled, input, output, stops, spill,
                   caller, workers, batching, recovery, stopper, clearer, clears, old,
                   gone>>

StartWorker(u) ==
    /\ updater[u].at = "scale" /\ updater[u].diff > 0
    /\ waiting' = waiting + 1
    /\ updater' = [updater EXCEPT ![u].diff = @ - 1]
    /\ UNCHANGED <<settings, input, output, stops, spill, caller, draining,
                   emitting, batching, recovery, stopper, clearer, clears, old, gone>>

SignalStop(u) ==
    /\ updater[u].at = "scale" /\ updater[u].diff < 0
    /\ stops < StopCap
    /\ stops' = stops + 1
    /\ updater' = [updater EXCEPT ![u].diff = @ + 1]
    /\ UNCHANGED <<settings, input, output, spill, caller, workers, batching,
                   recovery, stopper, clearer, clears, old, gone>>

UpdateReturns(u) ==
    /\ updater[u].at = "scale" /\ updater[u].diff = 0
    /\ updater' = [updater EXCEPT ![u] = [at |-> "end"]]
    /\ UNCHANGED <<settings, input, output, stops, spill, caller, workers,
                   batching, recovery, stopper, clearer, clears, old, gone>>

-------------------------------------------------------------------------------
\* Stop

StopBegins ==
    /\ stopper = "idle"
    /\ stopped' = TRUE /\ stopper' = "cancel"
    /\ UNCHANGED <<config, hasOverflow, cancelled, input, output, stops, spill,
                   caller, workers, batching, recovery, updater, clearer, clears, old,
                   gone>>

Cancel ==
    /\ stopper = "cancel"
    /\ cancelled' = TRUE /\ stopper' = "wait"
    /\ UNCHANGED <<config, hasOverflow, stopped, input, output, stops, spill,
                   caller, workers, batching, recovery, updater, clearer, clears, old,
                   gone>>

\* The WaitGroup is done, or five seconds are over.
StopReturns ==
    /\ stopper = "wait"
    /\ stopper' = "end"
    /\ UNCHANGED <<settings, input, output, stops, spill, caller, workers,
                   batching, recovery, updater, clearer, clears, old, gone>>

-------------------------------------------------------------------------------
\* ClearPendingData

Accepted == {l \in Lines : caller[l] = "accepted"}

ClearBegins ==
    /\ clearer = "idle" /\ clears < MaxClears
    /\ clears' = clears + 1 /\ clearer' = "input" /\ old' = Accepted
    /\ UNCHANGED <<settings, input, output, stops, spill, caller, workers,
                   batching, recovery, updater, stopper, gone>>

ClearInput ==
    /\ clearer = "input"
    /\ IF input # <<>>
       THEN input' = Tail(input) /\ gone' = gone \cup {Head(input)} /\ UNCHANGED clearer
       ELSE clearer' = "output" /\ UNCHANGED <<input, gone>>
    /\ UNCHANGED <<settings, output, stops, spill, caller, workers, batching,
                   recovery, updater, stopper, clears, old>>

ClearOutput ==
    /\ clearer = "output"
    /\ IF output # <<>>
       THEN output' = Tail(output) /\ gone' = gone \cup {Head(output)} /\ UNCHANGED clearer
       ELSE clearer' = "overflow" /\ UNCHANGED <<output, gone>>
    /\ UNCHANGED <<settings, input, stops, spill, caller, workers, batching,
                   recovery, updater, stopper, clears, old>>

\* overflow.Clear, if there is an overflow queue and its file can be truncated.
ClearOverflow ==
    /\ clearer = "overflow" /\ QueueUnlocked
    /\ clearer' = "idle" /\ old' = {}
    /\ \/ spill' = <<>> /\ gone' = gone \cup Range(spill)
       \/ UNCHANGED <<spill, gone>>
    /\ UNCHANGED <<settings, input, output, stops, caller, workers, batching,
                   recovery, updater, stopper, clears>>
-------------------------------------------------------------------------------
SubmitStep(l) ==
    \/ SubmitCheck(l) \/ SubmitQueued(l) \/ SubmitCancelled(l) \/ SubmitFull(l)
    \/ SpillCheck(l) \/ SpillStored(l) \/ SubmitDropped(l)

EmitStep(e) == Emit(e) \/ Abandon(e)

WorkerStep ==
    \/ \E leaving \in BOOLEAN : Receive(leaving)
    \/ StopSignal \/ WorkerLeaves \/ WorkerExits

BatchStep ==
    \/ BatchEntry \/ BatchTick \/ BatchLeaves \/ BatchExits \/ SaveBatch

DrainerStep ==
    \/ DrainerTick \/ DrainLine \/ DrainEnds \/ DrainerExits

UpdateStep(u) ==
    \/ UpdateApplies(u) \/ UpdateStopped(u) \/ StartWorker(u) \/ SignalStop(u)
    \/ UpdateReturns(u)

ClearStep == ClearInput \/ ClearOutput \/ ClearOverflow

Next ==
    \/ \E l \in Lines : SubmitStep(l)
    \/ \E e \in emitting : EmitStep(e) \/ ParseFails(e)
    \/ WorkerStep \/ BatchStep \/ DrainerStep
    \/ \E u \in Updates : UpdateStep(u) \/ \E c \in Configs : UpdateBegins(u, c)
    \/ StopBegins \/ Cancel \/ StopReturns
    \/ ClearBegins \/ ClearStep

Spec == Init /\ [][Next]_vars

\* The Go scheduler runs every goroutine that can take a step; and a select
\* whose cases are ready again and again takes each of them some time, so the
\* ticker cannot keep overflowDrainer from seeing ctx.Done.
Fairness ==
    /\ \A l \in Lines : WF_vars(\E e \in emitting : e.line = l /\ EmitStep(e))
    /\ WF_vars(WorkerStep) /\ WF_vars(BatchStep)
    /\ WF_vars(DrainerStep) /\ SF_vars(DrainerExits)
    /\ \A u \in Updates : WF_vars(UpdateStep(u))
    /\ WF_vars(Cancel)

FairSpec == Spec /\ Fairness

-------------------------------------------------------------------------------
\* Properties

Emitted == {e.line : e \in emitting}

\* Where a line waits to be saved.
Backlog == input \o spill \o output \o batch

Pending == Range(Backlog) \cup Emitted

\* A line for which Submit returned true is in exactly one place, whatever
\* overflows, parses, updates and shuts down meanwhile: it is never
\* lost on the way between two queues and never saved a second time.
EveryLineOnce ==
    /\ Pending \cup gone = Accepted
    /\ Pending \cap gone = {}
    /\ Cardinality(Pending) = Len(Backlog) + Cardinality(emitting)

Unscaled(u) == IF updater[u].at = "scale" THEN updater[u].diff ELSE 0

LiveWorkers == waiting + draining + Cardinality(emitting)

\* Concurrent calls of UpdateConfig never drift: counting the starts and the
\* stop signals still under way, there are as many workers as configured.
WorkersMatchConfig ==
    ~stopped => LiveWorkers - stops + SumFunction([u \in Updates |-> Unscaled(u)])
                    = config.workers

\* The number of workers becomes the configured one, and stays.
WorkersSettle == <>[](stopped \/ (LiveWorkers = config.workers /\ stops = 0))

\* An accepted line is saved, or found not to parse, or cleared, unless a
\* shutdown comes first; spilled lines wait while overflow is switched off.
AcceptedArrive ==
    \A l \in Lines :
        l \in Accepted ~> \/ l \in gone \/ stopped
                          \/ l \in Range(spill) /\ ~config.overflow

AllDone ==
    waiting = 0 /\ draining = 0 /\ emitting = {} /\ batcher = "done" /\ drainer = "done"

\* After Stop every goroutine ends, those that an UpdateConfig starts late too.
StopCompletes == stopper = "wait" ~> []AllDone

\* "Discards the backlog in the processor that has not been stored, and clears
\* the overflow queue" (the comment on ClearPendingData): when it returns, and
\* the overflow file was truncated, no line accepted before the call is pending.
ClearDropsBacklog ==
    [][ClearOverflow /\ spill' = <<>> => old \cap Pending' = {}]_vars
===============================================================================
