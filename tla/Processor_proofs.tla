---------------------------- MODULE Processor_proofs ----------------------------
(***************************************************************************)
(* Proofs about Processor, for any lines, any concurrent calls of           *)
(* UpdateConfig, any sizes of the queues and any number of clears.          *)
(*                                                                         *)
(* IInv strengthens the properties to an inductive invariant: Shutdown ties *)
(* the flags of Stop to what workers do, OneEach says where each line is.   *)
(***************************************************************************)
EXTENDS Processor, DataLemmas

\* A worker is past ctx.Done only after Stop has cancelled the context, which
\* it does after setting p.stopped.
Shutdown ==
    /\ stopped <=> stopper # "idle"
    /\ cancelled <=> stopper \in {"wait", "end"}
    /\ ~cancelled => draining = 0 /\ \A e \in emitting : ~e.leaving

\* No line is in two of the places.
Apart(I, S, O, B, E, G) ==
    /\ I \cap (S \cup O \cup B \cup E \cup G) = {}
    /\ S \cap (O \cup B \cup E \cup G) = {}
    /\ O \cap (B \cup E \cup G) = {}
    /\ B \cap (E \cup G) = {}
    /\ E \cap G = {}

\* Every accepted line is in one queue, in the batch, with one worker or gone.
OneEach ==
    /\ Distinct(input) /\ Distinct(spill) /\ Distinct(output) /\ Distinct(batch)
    /\ IsFiniteSet(emitting) /\ \A e, f \in emitting : e.line = f.line => e = f
    /\ Apart(Range(input), Range(spill), Range(output), Range(batch), Emitted, gone)
    /\ Range(input) \cup Range(spill) \cup Range(output) \cup Range(batch) \cup Emitted \cup gone
           = Accepted

IInv == TypeOK /\ Shutdown /\ OneEach /\ WorkersMatchConfig


-------------------------------------------------------------------------------
\* Types

\* TypeOK, one conjunct for each variable.
Types ==
    /\ config \in Config
    /\ hasOverflow \in BOOLEAN /\ stopped \in BOOLEAN /\ cancelled \in BOOLEAN
    /\ input \in Seq(Lines) /\ Len(input) <= QueueSize
    /\ output \in Seq(Lines) /\ Len(output) <= QueueSize
    /\ spill \in Seq(Lines) /\ Len(spill) <= SpillCap /\ stops \in 0..StopCap
    /\ caller \in [Lines -> {"new", "select", "spill", "enqueue", "accepted", "refused"}]
    /\ waiting \in Nat /\ draining \in Nat /\ emitting \subseteq Emission
    /\ batch \in Seq(Lines)
    /\ batcher \in {"select", "save", "drain", "done"}
    /\ back \in {"select", "drain", "done"} /\ limit \in Nat \ {0}
    /\ drainOn \in BOOLEAN
    /\ drainer \in {"select", "drain", "done"} /\ room \in 0..DrainBatch
    /\ updater \in [Updates -> Update]
    /\ stopper \in {"idle", "cancel", "wait", "end"}
    /\ clearer \in {"idle", "input", "output", "overflow"} /\ clears \in 0..MaxClears
    /\ gone \subseteq Lines /\ old \subseteq Lines

LEMMA SameTypes == TypeOK <=> Types
  BY DEF TypeOK, Types

\* The assumption, one conjunct for each constant.
LEMMA Constants ==
    /\ IsFiniteSet(Lines) /\ IsFiniteSet(Updates)
    /\ Configs \subseteq Config
    /\ QueueSize \in Nat \ {0} /\ StopCap \in Nat \ {0} /\ DrainBatch \in Nat \ {0}
    /\ SpillCap \in Nat /\ MaxClears \in Nat
  BY ProcessorAssumption

LEMMA ConfigFields ==
    ASSUME NEW c \in Config
    PROVE  c.workers \in Nat \ {0} /\ c.batchSize \in Nat \ {0} /\ c.overflow \in BOOLEAN
  BY DEF Config

LEMMA InitTypes == Init => Types
  <1> SUFFICES ASSUME Init PROVE Types
    OBVIOUS
  <1>1. config \in Config /\ config.workers \in Nat \ {0} /\ config.batchSize \in Nat \ {0}
        /\ config.overflow \in BOOLEAN
    BY Constants, ConfigFields DEF Init
  <1>2. <<>> \in Seq(Lines) /\ Len(<<>>) = 0
    BY EmptySeq
  <1>3. updater \in [Updates -> Update]
    BY DEF Init, Update
  <1>4. caller \in [Lines -> {"new", "select", "spill", "enqueue", "accepted", "refused"}]
    BY DEF Init
  <1>5. /\ input \in Seq(Lines) /\ Len(input) <= QueueSize
        /\ output \in Seq(Lines) /\ Len(output) <= QueueSize
        /\ spill \in Seq(Lines) /\ Len(spill) <= SpillCap /\ batch \in Seq(Lines)
    BY <1>2, Constants DEF Init
  <1>6. hasOverflow \in BOOLEAN /\ drainOn \in BOOLEAN
    BY <1>1 DEF Init
  <1>7. stops \in 0..StopCap /\ room \in 0..DrainBatch /\ clears \in 0..MaxClears
    BY Constants DEF Init
  <1>8. waiting \in Nat /\ limit \in Nat \ {0}
    BY <1>1 DEF Init
  <1> QED
    BY <1>1, <1>3, <1>4, <1>5, <1>6, <1>7, <1>8 DEF Init, Types

\* A queue after a send and after a receive.
LEMMA Sent ==
    ASSUME NEW S, NEW s \in Seq(S), NEW e \in S
    PROVE  Append(s, e) \in Seq(S) /\ Len(Append(s, e)) = Len(s) + 1 /\ Len(s) \in Nat
  BY AppendProperties

LEMMA Received ==
    ASSUME NEW S, NEW s \in Seq(S), s # <<>>
    PROVE  /\ Head(s) \in S /\ Head(s) \in Range(s) /\ Len(s) \in Nat \ {0}
           /\ Tail(s) \in Seq(S) /\ Len(Tail(s)) = Len(s) - 1
  BY HeadTailProperties, RangeTail, EmptySeq

LEMMA NextTypes == Types /\ [Next]_vars => Types'
  <1> SUFFICES ASSUME Types, [Next]_vars PROVE Types'
    OBVIOUS
  <1>1. ASSUME NEW l \in Lines, SubmitCheck(l) PROVE Types'
    BY <1>1 DEF SubmitCheck, SubmitTo, Types, settings, workers, batching, recovery, control
  <1>2. ASSUME NEW l \in Lines, SubmitQueued(l) PROVE Types'
    <2>1. input' \in Seq(Lines) /\ Len(input') <= QueueSize
      BY <1>2, Sent, Constants DEF SubmitQueued, Types
    <2> QED
      BY <1>2, <2>1 DEF SubmitQueued, SubmitTo, Types, settings, workers, batching, recovery, control
  <1>3. ASSUME NEW l \in Lines, SubmitCancelled(l) PROVE Types'
    BY <1>3 DEF SubmitCancelled, SubmitTo, Types, settings, workers, batching, recovery, control
  <1>4. ASSUME NEW l \in Lines, SubmitFull(l) PROVE Types'
    BY <1>4 DEF SubmitFull, SubmitTo, Types, settings, workers, batching, recovery, control
  <1>5. ASSUME NEW l \in Lines, SpillCheck(l) PROVE Types'
    BY <1>5 DEF SpillCheck, SubmitTo, Types, settings, workers, batching, recovery, control
  <1>6. ASSUME NEW l \in Lines, SpillStored(l) PROVE Types'
    <2>1. spill' \in Seq(Lines) /\ Len(spill') <= SpillCap
      BY <1>6, Sent, Constants DEF SpillStored, Types
    <2> QED
      BY <1>6, <2>1 DEF SpillStored, SubmitTo, Types, settings, workers, batching, recovery, control
  <1>7. ASSUME NEW l \in Lines, SubmitDropped(l) PROVE Types'
    BY <1>7 DEF SubmitDropped, SubmitTo, Types, settings, workers, batching, recovery, control
  <1>8. ASSUME NEW leaving \in BOOLEAN, Receive(leaving) PROVE Types'
    <2>1. input \in Seq(Lines) /\ input # <<>>
      BY <1>8 DEF Receive, Types
    <2>2. Head(input) \in Lines /\ Tail(input) \in Seq(Lines) /\ Len(Tail(input)) = Len(input) - 1
          /\ Len(input) \in Nat
      BY <2>1, Received
    <2>3. input' \in Seq(Lines) /\ Len(input') <= QueueSize
      BY <1>8, <2>2, Constants DEF Receive, Types
    <2>4. emitting' \subseteq Emission
      BY <1>8, <2>2 DEF Receive, Emission, Types
    <2>5. waiting' \in Nat /\ draining' \in Nat
      BY <1>8 DEF Receive, Types
    <2> QED
      BY <1>8, <2>3, <2>4, <2>5 DEF Receive, Types, settings, workers, batching, recovery, control
  <1>9. ASSUME NEW e \in emitting, ParseFails(e) PROVE Types'
    BY SMTT(30), <1>9 DEF ParseFails, Finished, Emission, Types, settings, workers, batching, recovery, control
  <1>10. ASSUME NEW e \in emitting, Emit(e) PROVE Types'
    <2>1. e.line \in Lines
      BY DEF Types, Emission
    <2>2. output' \in Seq(Lines) /\ Len(output') <= QueueSize
      BY <1>10, <2>1, Sent, Constants DEF Emit, Types
    <2>3. waiting' \in Nat /\ draining' \in Nat /\ emitting' \subseteq Emission
      BY SMTT(30), <1>10 DEF Emit, Finished, Types
    <2> QED
      BY <1>10, <2>2, <2>3 DEF Emit, Types, settings, workers, batching, recovery, control
  <1>11. ASSUME NEW e \in emitting, Abandon(e) PROVE Types'
    BY <1>11 DEF Abandon, Finished, Emission, Types, settings, workers, batching, recovery, control
  <1>12. ASSUME StopSignal PROVE Types'
    <2>1. waiting' \in Nat /\ stops' \in 0..StopCap
      BY <1>12, Constants DEF StopSignal, Types
    <2> QED
      BY <1>12, <2>1 DEF StopSignal, Types, settings, workers, batching, recovery, control
  <1>13. ASSUME WorkerLeaves PROVE Types'
    BY <1>13 DEF WorkerLeaves, Types, settings, workers, batching, recovery, control
  <1>14. ASSUME WorkerExits PROVE Types'
    BY <1>14 DEF WorkerExits, Types, settings, workers, batching, recovery, control
  <1>15. ASSUME BatchEntry PROVE Types'
    <2>1. output \in Seq(Lines) /\ output # <<>> /\ batch \in Seq(Lines)
      BY <1>15 DEF BatchEntry, Types
    <2>2. Head(output) \in Lines /\ Tail(output) \in Seq(Lines) /\ Len(Tail(output)) = Len(output) - 1
          /\ Len(output) \in Nat
      BY <2>1, Received
    <2>3. output' \in Seq(Lines) /\ Len(output') <= QueueSize
      BY <1>15, <2>2, Constants DEF BatchEntry, Types
    <2>4. batch' \in Seq(Lines)
      BY <1>15, <2>1, <2>2, Sent DEF BatchEntry
    <2>5. config.batchSize \in Nat \ {0}
      BY ConfigFields DEF Types
    <2>6. /\ batcher' \in {"select", "save", "drain", "done"} /\ limit' \in Nat \ {0}
          /\ back' \in {"select", "drain", "done"}
      BY <1>15, <2>5 DEF BatchEntry, Go, SaveThen, Types
    <2> QED
      BY <1>15, <2>3, <2>4, <2>6 DEF BatchEntry, Types, settings, workers, batching, recovery, control
  <1>16. ASSUME BatchTick PROVE Types'
    BY <1>16, ConfigFields DEF BatchTick, Go, SaveThen, Types, settings, workers, batching, recovery, control
  <1>17. ASSUME BatchLeaves PROVE Types'
    BY <1>17, ConfigFields DEF BatchLeaves, Go, SaveThen, Types, settings, workers, batching, recovery, control
  <1>18. ASSUME BatchExits PROVE Types'
    BY <1>18, ConfigFields DEF BatchExits, Go, SaveThen, Types, settings, workers, batching, recovery, control
  <1>19. ASSUME SaveBatch PROVE Types'
    <2>1. <<>> \in Seq(Lines) /\ Range(batch) \subseteq Lines
      BY RangeOfSeq DEF Types
    <2>2. config.batchSize \in Nat \ {0}
      BY ConfigFields DEF Types
    <2>3. /\ batcher' \in {"select", "save", "drain", "done"} /\ limit' \in Nat \ {0}
          /\ back' \in {"select", "drain", "done"}
      BY <1>19, <2>2 DEF SaveBatch, Go, Types
    <2>4. batch' \in Seq(Lines) /\ gone' \subseteq Lines
      BY <1>19, <2>1 DEF SaveBatch, BatchAfterSave, Types
    <2> QED
      BY <1>19, <2>3, <2>4 DEF SaveBatch, Types, settings, workers, batching, recovery, control
  <1>20. ASSUME DrainerTick PROVE Types'
    BY <1>20, ConfigFields, Constants DEF DrainerTick, BatchRoom, Types, settings, workers, batching, recovery, control
  <1>21. ASSUME DrainLine PROVE Types'
    BY <1>21, ConfigFields, Constants DEF DrainLine, BatchRoom, Types, settings, workers, batching, recovery, control
  <1>22. ASSUME DrainEnds PROVE Types'
    BY <1>22, ConfigFields, Constants DEF DrainEnds, BatchRoom, Types, settings, workers, batching, recovery, control
  <1>23. ASSUME DrainerExits PROVE Types'
    BY <1>23, ConfigFields, Constants DEF DrainerExits, BatchRoom, Types, settings, workers, batching, recovery, control
  <1>24. ASSUME NEW u \in Updates, UpdateApplies(u) PROVE Types'
    <2> DEFINE c == updater[u].asked
               missing == c.overflow /\ ~hasOverflow
               opened == missing /\ updater[u].create = "ok"
    <2>1. updater[u].at = "lock" /\ c \in Config /\ config \in Config
      <3>1. updater[u] \in Update /\ updater[u].at = "lock"
        BY <1>24 DEF UpdateApplies, Types
      <3>2. updater[u] \in [at : {"lock"}, asked : Configs, create : {"no", "ok", "fails"}]
        BY <3>1 DEF Update
      <3> QED
        BY <3>1, <3>2, Constants DEF Types
    <2>2. c.workers \in Nat /\ config.workers \in Nat
      BY <2>1, ConfigFields
    <2>3. /\ hasOverflow' = (hasOverflow \/ opened)
          /\ config' = [c EXCEPT !.overflow = @ /\ (missing => opened)]
          /\ updater' = [updater EXCEPT ![u] = [at |-> "scale", diff |-> c.workers - config.workers]]
      BY <1>24 DEF UpdateApplies, OldWorkerCount
    <2> HIDE DEF c
    <2>4. config' \in Config /\ hasOverflow' \in BOOLEAN
      BY <2>1, <2>3 DEF Config, Types
    <2>5. [at |-> "scale", diff |-> c.workers - config.workers] \in Update
      BY <2>2 DEF Update
    <2>6. updater' \in [Updates -> Update]
      BY <2>3, <2>5 DEF Types
    <2> QED
      BY <1>24, <2>4, <2>6 DEF UpdateApplies, Types, settings, workers, batching, recovery, control
  <1>25. ASSUME NEW u \in Updates, UpdateStopped(u) PROVE Types'
    BY <1>25, ConfigFields, Constants DEF UpdateStopped, Update, OldWorkerCount, Types, settings, workers, batching, recovery, control
  <1>26. ASSUME NEW u \in Updates, StartWorker(u) PROVE Types'
    <2>1. updater[u] \in Update /\ updater[u].at = "scale"
      BY <1>26 DEF StartWorker, Types
    <2>2. updater[u] \in [at : {"scale"}, diff : Int]
      BY <2>1 DEF Update
    <2>3. updater' = [updater EXCEPT ![u] = [updater[u] EXCEPT !.diff = @ - 1]]
      BY <1>26 DEF StartWorker
    <2>4. [updater[u] EXCEPT !.diff = @ - 1] \in Update
      BY <2>2 DEF Update
    <2>5. updater' \in [Updates -> Update]
      BY <2>3, <2>4 DEF Types
    <2>6. waiting' \in Nat
      BY SMTT(30), <1>26, Constants DEF StartWorker, Types
    <2> QED
      BY <1>26, <2>5, <2>6 DEF StartWorker, Types, settings, workers, batching, recovery, control
  <1>27. ASSUME NEW u \in Updates, SignalStop(u) PROVE Types'
    <2>1. updater[u] \in Update /\ updater[u].at = "scale"
      BY <1>27 DEF SignalStop, Types
    <2>2. updater[u] \in [at : {"scale"}, diff : Int]
      BY <2>1 DEF Update
    <2>3. updater' = [updater EXCEPT ![u] = [updater[u] EXCEPT !.diff = @ + 1]]
      BY <1>27 DEF SignalStop
    <2>4. [updater[u] EXCEPT !.diff = @ + 1] \in Update
      BY <2>2 DEF Update
    <2>5. updater' \in [Updates -> Update]
      BY <2>3, <2>4 DEF Types
    <2>6. stops' \in 0..StopCap
      BY SMTT(30), <1>27, Constants DEF SignalStop, Types
    <2> QED
      BY <1>27, <2>5, <2>6 DEF SignalStop, Types, settings, workers, batching, recovery, control
  <1>28. ASSUME NEW u \in Updates, UpdateReturns(u) PROVE Types'
    BY <1>28, ConfigFields, Constants DEF UpdateReturns, Update, OldWorkerCount, Types, settings, workers, batching, recovery, control
  <1>29. ASSUME NEW u \in Updates, NEW c \in Configs, UpdateBegins(u, c) PROVE Types'
    BY <1>29, Constants DEF UpdateBegins, Update, Types, settings, workers, batching, recovery, control
  <1>30. ASSUME StopBegins PROVE Types'
    BY <1>30 DEF StopBegins, Types, settings, workers, batching, recovery, control
  <1>31. ASSUME Cancel PROVE Types'
    BY <1>31 DEF Cancel, Types, settings, workers, batching, recovery, control
  <1>32. ASSUME StopReturns PROVE Types'
    BY <1>32 DEF StopReturns, Types, settings, workers, batching, recovery, control
  <1>33. ASSUME ClearBegins PROVE Types'
    <2>1. clears' \in 0..MaxClears
      BY <1>33, Constants DEF ClearBegins, Types
    <2> QED
      BY <1>33, <2>1 DEF ClearBegins, Accepted, Types, settings, workers, batching, recovery, control
  <1>34. ASSUME ClearInput PROVE Types'
    <2>1. CASE input = <<>>
      BY <1>34, <2>1 DEF ClearInput, Types, settings, workers, batching, recovery, control
    <2>2. CASE input # <<>>
      <3>1. /\ Head(input) \in Lines /\ Tail(input) \in Seq(Lines) /\ Len(input) \in Nat
            /\ Len(Tail(input)) = Len(input) - 1
        BY <2>2, Received DEF Types
      <3>2. input' \in Seq(Lines) /\ Len(input') <= QueueSize
        <4>1. input' = Tail(input)
          BY <1>34, <2>2 DEF ClearInput
        <4>2. Len(input) <= QueueSize /\ QueueSize \in Nat
          BY Constants DEF Types
        <4> QED
          BY <3>1, <4>1, <4>2
      <3>3. gone' \subseteq Lines
        BY <1>34, <2>2, <3>1 DEF ClearInput, Types
      <3> QED
        BY <1>34, <2>2, <3>2, <3>3 DEF ClearInput, Types, settings, workers, batching, recovery, control
    <2> QED
      BY <2>1, <2>2
  <1>35. ASSUME ClearOutput PROVE Types'
    <2>1. CASE output = <<>>
      BY <1>35, <2>1 DEF ClearOutput, Types, settings, workers, batching, recovery, control
    <2>2. CASE output # <<>>
      <3>1. /\ Head(output) \in Lines /\ Tail(output) \in Seq(Lines) /\ Len(output) \in Nat
            /\ Len(Tail(output)) = Len(output) - 1
        BY <2>2, Received DEF Types
      <3>2. output' \in Seq(Lines) /\ Len(output') <= QueueSize
        <4>1. output' = Tail(output)
          BY <1>35, <2>2 DEF ClearOutput
        <4>2. Len(output) <= QueueSize /\ QueueSize \in Nat
          BY Constants DEF Types
        <4> QED
          BY <3>1, <4>1, <4>2
      <3>3. gone' \subseteq Lines
        BY <1>35, <2>2, <3>1 DEF ClearOutput, Types
      <3> QED
        BY <1>35, <2>2, <3>2, <3>3 DEF ClearOutput, Types, settings, workers, batching, recovery, control
    <2> QED
      BY <2>1, <2>2
  <1>36. ASSUME ClearOverflow PROVE Types'
    <2>1. <<>> \in Seq(Lines) /\ Len(<<>>) = 0 /\ Range(spill) \subseteq Lines
      BY RangeOfSeq DEF Types
    <2>2. (spill' = <<>> /\ gone' = gone \cup Range(spill)) \/ (spill' = spill /\ gone' = gone)
      BY <1>36 DEF ClearOverflow
    <2>3. spill' \in Seq(Lines) /\ Len(spill') <= SpillCap
      <3>1. spill \in Seq(Lines) /\ Len(spill) <= SpillCap /\ 0 <= SpillCap
        BY Constants DEF Types
      <3> QED
        BY <2>1, <2>2, <3>1
    <2>4. gone' \subseteq Lines
      BY <2>1, <2>2 DEF Types
    <2> QED
      BY <1>36, <2>3, <2>4 DEF ClearOverflow, Types, settings, workers, batching, recovery, control
  <1>37. ASSUME UNCHANGED vars PROVE Types'
    BY <1>37 DEF vars, Types, settings, workers, batching, recovery, control
  <1> QED
    BY <1>1, <1>2, <1>3, <1>4, <1>5, <1>6, <1>7, <1>8, <1>9, <1>10, <1>11, <1>12, <1>13, <1>14, <1>15, <1>16, <1>17, <1>18, <1>19, <1>20, <1>21, <1>22, <1>23, <1>24, <1>25, <1>26, <1>27, <1>28, <1>29, <1>30, <1>31, <1>32, <1>33, <1>34, <1>35, <1>36, <1>37
       DEF Next, SubmitStep, EmitStep, WorkerStep, BatchStep, DrainerStep, UpdateStep, ClearStep


-------------------------------------------------------------------------------
\* Stop and the workers

LEMMA NextShutdown == Types /\ Shutdown /\ [Next]_vars => Shutdown'
  <1> SUFFICES ASSUME Types, Shutdown, [Next]_vars PROVE Shutdown'
    OBVIOUS
  <1>1. ASSUME UNCHANGED <<stopped, cancelled, stopper, draining, emitting>> PROVE Shutdown'
    BY <1>1 DEF Shutdown
  <1>2. ASSUME NEW l \in Lines, SubmitStep(l) PROVE Shutdown'
    BY <1>1, <1>2 DEF SubmitStep, SubmitCheck, SubmitQueued, SubmitCancelled, SubmitFull,
       SpillCheck, SpillStored, SubmitDropped, settings, workers, control
  <1>3. ASSUME NEW leaving \in BOOLEAN, Receive(leaving) PROVE Shutdown'
    <2>1. UNCHANGED <<stopped, cancelled, stopper>>
      BY <1>3 DEF Receive, settings, control
    <2>2. ~cancelled => draining' = 0 /\ \A e \in emitting' : ~e.leaving
      BY <1>3 DEF Receive, Shutdown, Types
    <2> QED
      BY <2>1, <2>2 DEF Shutdown
  <1>4. ASSUME NEW e \in emitting, EmitStep(e) \/ ParseFails(e) PROVE Shutdown'
    <2>1. UNCHANGED <<stopped, cancelled, stopper>> /\ Finished(e)
      BY <1>4 DEF EmitStep, Emit, Abandon, ParseFails, settings, control
    <2>2. ~cancelled => draining' = 0 /\ \A f \in emitting' : ~f.leaving
      BY <2>1 DEF Finished, Shutdown
    <2> QED
      BY <2>1, <2>2 DEF Shutdown
  <1>5. ASSUME StopSignal PROVE Shutdown'
    BY <1>1, <1>5 DEF StopSignal, settings, control
  <1>6. ASSUME WorkerLeaves \/ WorkerExits PROVE Shutdown'
    <2>1. UNCHANGED <<stopped, cancelled, stopper, emitting>>
      BY <1>6 DEF WorkerLeaves, WorkerExits, settings, control
    <2>2. cancelled
      BY <1>6 DEF WorkerLeaves, WorkerExits, Shutdown, Types
    <2> QED
      BY <2>1, <2>2 DEF Shutdown
  <1>7. ASSUME BatchStep \/ DrainerStep PROVE Shutdown'
    BY <1>1, <1>7 DEF BatchStep, BatchEntry, BatchTick, BatchLeaves, BatchExits, SaveBatch,
       DrainerStep, DrainerTick, DrainLine, DrainEnds, DrainerExits, settings, workers, control
  <1>8. ASSUME NEW u \in Updates, UpdateStep(u) \/ \E c \in Configs : UpdateBegins(u, c)
        PROVE  Shutdown'
    BY <1>1, <1>8 DEF UpdateStep, UpdateApplies, UpdateStopped, StartWorker, SignalStop,
       UpdateReturns, UpdateBegins, settings, workers
  <1>9. ASSUME StopBegins \/ Cancel \/ StopReturns PROVE Shutdown'
    BY <1>9 DEF StopBegins, Cancel, StopReturns, Shutdown, settings, workers
  <1>10. ASSUME ClearBegins \/ ClearStep PROVE Shutdown'
    BY <1>1, <1>10 DEF ClearBegins, ClearStep, ClearInput, ClearOutput, ClearOverflow,
       settings, workers
  <1>11. ASSUME UNCHANGED vars PROVE Shutdown'
    BY <1>1, <1>11 DEF vars, settings, workers, control
  <1> QED
    BY <1>2, <1>3, <1>4, <1>5, <1>6, <1>7, <1>8, <1>9, <1>10, <1>11 DEF Next, WorkerStep

-------------------------------------------------------------------------------
\* Where the lines are

\* A step that leaves every line where it is.
LEMMA NothingMoves ==
    ASSUME OneEach, UNCHANGED <<input, spill, output, batch, emitting, gone>>, Accepted' = Accepted
    PROVE  OneEach'
  BY DEF OneEach, Emitted

\* Only a line that is not in any place yet is accepted.
LEMMA AcceptNew ==
    ASSUME Types, OneEach, NEW l \in Lines, NEW from \in {"select", "enqueue"},
           SubmitTo(l, from, "accepted")
    PROVE  /\ Accepted' = Accepted \cup {l} /\ l \notin Range(input) /\ l \notin Range(spill)
           /\ l \notin Range(output) /\ l \notin Range(batch) /\ l \notin Emitted /\ l \notin gone
  <1>1. l \notin Accepted /\ Accepted' = Accepted \cup {l}
    BY DEF SubmitTo, Accepted, Types
  <1> QED
    BY <1>1 DEF OneEach

LEMMA OthersKeepAccepted ==
    ASSUME Types, NEW l \in Lines,
           SubmitCheck(l) \/ SubmitCancelled(l) \/ SubmitFull(l) \/ SpillCheck(l) \/ SubmitDropped(l)
    PROVE  Accepted' = Accepted
  BY DEF SubmitCheck, SubmitCancelled, SubmitFull, SpillCheck, SubmitDropped, SubmitTo, Accepted, Types

\* What a queue holds after a send and after a receive.
LEMMA QueueSent ==
    ASSUME NEW q \in Seq(Lines), NEW l \in Lines, Distinct(q), l \notin Range(q)
    PROVE  Distinct(Append(q, l)) /\ Range(Append(q, l)) = Range(q) \cup {l}
  BY DistinctAppend, RangeAppend

LEMMA QueueReceived ==
    ASSUME NEW q \in Seq(Lines), q # <<>>, Distinct(q)
    PROVE  /\ Distinct(Tail(q)) /\ Head(q) \in Range(q) /\ Head(q) \in Lines
           /\ Range(Tail(q)) = Range(q) \ {Head(q)}
  <1>1. Distinct(Tail(q)) /\ Head(q) \notin Range(Tail(q))
    BY DistinctTail
  <1>2. Range(q) = {Head(q)} \cup Range(Tail(q))
    BY RangeTail
  <1>3. Head(q) \in Lines
    BY Received
  <1> QED
    BY <1>1, <1>2, <1>3

\* A worker that has finished with its line.
LEMMA LineFinished ==
    ASSUME Types, OneEach, NEW e \in emitting, Finished(e)
    PROVE  /\ e.line \in Emitted /\ e.line \in Lines /\ Emitted' = Emitted \ {e.line}
           /\ IsFiniteSet(emitting') /\ \A f, g \in emitting' : f.line = g.line => f = g
           /\ Cardinality(emitting') = Cardinality(emitting) - 1
           /\ Cardinality(emitting) \in Nat
  <1>1. emitting' = emitting \ {e}
    BY DEF Finished
  <1>2. IsFiniteSet(emitting) /\ \A f, g \in emitting : f.line = g.line => f = g
    BY DEF OneEach
  <1>3. IsFiniteSet(emitting') /\ Cardinality(emitting') = Cardinality(emitting) - 1
    BY <1>1, <1>2, FS_RemoveElement
  <1>4. Emitted' = Emitted \ {e.line}
    BY <1>1, <1>2 DEF Emitted
  <1>5. e.line \in Emitted /\ e.line \in Lines
    BY DEF Emitted, Types, Emission
  <1>6. Cardinality(emitting) \in Nat
    BY <1>2, FS_CardinalityType
  <1> QED
    BY <1>1, <1>2, <1>3, <1>4, <1>5, <1>6

LEMMA NextOneEach == Types /\ OneEach /\ [Next]_vars => OneEach'
  <1> SUFFICES ASSUME Types, OneEach, [Next]_vars PROVE OneEach'
    OBVIOUS
  <1>0. /\ input \in Seq(Lines) /\ spill \in Seq(Lines) /\ output \in Seq(Lines) /\ batch \in Seq(Lines)
        /\ Distinct(input) /\ Distinct(spill) /\ Distinct(output) /\ Distinct(batch)
    BY DEF Types, OneEach
  <1>1. ASSUME NEW l \in Lines, SubmitQueued(l) PROVE OneEach'
    <2>1. /\ UNCHANGED <<spill, output, batch, emitting, gone>> /\ input' = Append(input, l)
          /\ SubmitTo(l, "select", "accepted")
      BY <1>1 DEF SubmitQueued, workers, batching
    <2>2. Emitted' = Emitted
      BY <2>1 DEF Emitted
    <2>3. /\ Accepted' = Accepted \cup {l} /\ l \notin Range(input) /\ l \notin Range(spill)
          /\ l \notin Range(output) /\ l \notin Range(batch) /\ l \notin Emitted /\ l \notin gone
      BY <2>1, AcceptNew
    <2>4. Distinct(input') /\ Range(input') = Range(input) \cup {l}
      BY <1>0, <2>1, <2>3, QueueSent
    <2> QED
      BY <2>1, <2>2, <2>3, <2>4 DEF OneEach, Apart
  <1>2. ASSUME NEW l \in Lines, SpillStored(l) PROVE OneEach'
    <2>1. /\ UNCHANGED <<input, output, batch, emitting, gone>> /\ spill' = Append(spill, l)
          /\ SubmitTo(l, "enqueue", "accepted")
      BY <1>2 DEF SpillStored, workers, batching
    <2>2. Emitted' = Emitted
      BY <2>1 DEF Emitted
    <2>3. /\ Accepted' = Accepted \cup {l} /\ l \notin Range(input) /\ l \notin Range(spill)
          /\ l \notin Range(output) /\ l \notin Range(batch) /\ l \notin Emitted /\ l \notin gone
      BY <2>1, AcceptNew
    <2>4. Distinct(spill') /\ Range(spill') = Range(spill) \cup {l}
      BY <1>0, <2>1, <2>3, QueueSent
    <2> QED
      BY <2>1, <2>2, <2>3, <2>4 DEF OneEach, Apart
  <1>3. ASSUME NEW l \in Lines,
               SubmitCheck(l) \/ SubmitCancelled(l) \/ SubmitFull(l) \/ SpillCheck(l) \/ SubmitDropped(l)
        PROVE  OneEach'
    <2>1. UNCHANGED <<input, spill, output, batch, emitting, gone>>
      BY <1>3 DEF SubmitCheck, SubmitCancelled, SubmitFull, SpillCheck, SubmitDropped, workers, batching
    <2> QED
      BY <1>3, <2>1, OthersKeepAccepted, NothingMoves
  <1>4. ASSUME NEW leaving \in BOOLEAN, Receive(leaving) PROVE OneEach'
    <2> DEFINE h == Head(input)
               e == [line |-> h, leaving |-> leaving]
    <2>1. /\ UNCHANGED <<spill, output, batch, gone, caller>> /\ input' = Tail(input) /\ input # <<>>
          /\ emitting' = emitting \cup {e}
      BY <1>4 DEF Receive, batching
    <2>2. Accepted' = Accepted
      BY <2>1 DEF Accepted
    <2>3. Distinct(input') /\ h \in Range(input) /\ Range(input') = Range(input) \ {h}
      BY <1>0, <2>1, QueueReceived
    <2>4. e.line = h
      OBVIOUS
    <2> HIDE DEF h, e
    <2>5. Emitted' = Emitted \cup {h}
      BY <2>1, <2>4 DEF Emitted
    <2>6. h \notin Emitted
      BY <2>3 DEF OneEach, Apart
    <2>7. IsFiniteSet(emitting') /\ \A f, g \in emitting' : f.line = g.line => f = g
      BY <2>1, <2>4, <2>6, FS_AddElement DEF OneEach, Emitted
    <2> QED
      BY <2>1, <2>2, <2>3, <2>5, <2>6, <2>7 DEF OneEach, Apart
  <1>5. ASSUME NEW e \in emitting, ParseFails(e) \/ Abandon(e) PROVE OneEach'
    <2>1. /\ UNCHANGED <<input, spill, output, batch, caller>> /\ gone' = gone \cup {e.line}
          /\ Finished(e)
      BY <1>5 DEF ParseFails, Abandon, batching
    <2>2. Accepted' = Accepted
      BY <2>1 DEF Accepted
    <2>3. /\ e.line \in Emitted /\ Emitted' = Emitted \ {e.line}
          /\ IsFiniteSet(emitting') /\ \A f, g \in emitting' : f.line = g.line => f = g
      BY <2>1, LineFinished
    <2> QED
      BY <2>1, <2>2, <2>3 DEF OneEach, Apart
  <1>6. ASSUME NEW e \in emitting, Emit(e) PROVE OneEach'
    <2>1. /\ UNCHANGED <<input, spill, batch, caller, gone>> /\ output' = Append(output, e.line)
          /\ Finished(e)
      BY <1>6 DEF Emit, batching
    <2>2. Accepted' = Accepted
      BY <2>1 DEF Accepted
    <2>3. /\ e.line \in Emitted /\ e.line \in Lines /\ Emitted' = Emitted \ {e.line}
          /\ IsFiniteSet(emitting') /\ \A f, g \in emitting' : f.line = g.line => f = g
      BY <2>1, LineFinished
    <2>4. e.line \notin Range(output)
      BY <2>3 DEF OneEach, Apart
    <2>5. Distinct(output') /\ Range(output') = Range(output) \cup {e.line}
      BY <1>0, <2>1, <2>3, <2>4, QueueSent
    <2> QED
      BY <2>1, <2>2, <2>3, <2>5 DEF OneEach, Apart
  <1>7. ASSUME StopSignal \/ WorkerLeaves \/ WorkerExits \/ BatchTick \/ BatchLeaves \/ BatchExits
                 \/ DrainerTick \/ DrainEnds \/ DrainerExits
        PROVE  OneEach'
    <2>1. UNCHANGED <<input, spill, output, batch, emitting, gone, caller>>
      BY <1>7 DEF StopSignal, WorkerLeaves, WorkerExits, BatchTick, BatchLeaves, BatchExits,
                  DrainerTick, DrainEnds, DrainerExits, workers, batching
    <2> QED
      BY <2>1, NothingMoves DEF Accepted
  <1>8. ASSUME BatchEntry PROVE OneEach'
    <2> DEFINE h == Head(output)
    <2>1. /\ UNCHANGED <<input, spill, emitting, gone, caller>> /\ output # <<>>
          /\ output' = Tail(output) /\ batch' = Append(batch, h)
      BY <1>8 DEF BatchEntry, workers
    <2>2. Accepted' = Accepted /\ Emitted' = Emitted
      BY <2>1 DEF Accepted, Emitted
    <2>3. /\ Distinct(output') /\ h \in Range(output) /\ Range(output') = Range(output) \ {h}
          /\ h \in Lines
      BY <1>0, <2>1, QueueReceived
    <2> HIDE DEF h
    <2>4. h \notin Range(batch)
      BY <2>3 DEF OneEach, Apart
    <2>5. Distinct(batch') /\ Range(batch') = Range(batch) \cup {h}
      BY <1>0, <2>1, <2>3, <2>4, QueueSent
    <2> QED
      BY <2>1, <2>2, <2>3, <2>5 DEF OneEach, Apart
  <1>9. ASSUME SaveBatch PROVE OneEach'
    <2>1. /\ UNCHANGED <<input, spill, output, emitting, caller>>
          /\ gone' = gone \cup Range(batch) /\ batch' = <<>>
      BY <1>9 DEF SaveBatch, BatchAfterSave, workers
    <2>2. Accepted' = Accepted /\ Emitted' = Emitted
      BY <2>1 DEF Accepted, Emitted
    <2>3. Distinct(batch') /\ Range(batch') = {}
      BY <2>1, DistinctEmpty, RangeEmpty
    <2> QED
      BY <2>1, <2>2, <2>3 DEF OneEach, Apart
  <1>10. ASSUME DrainLine PROVE OneEach'
    <2> DEFINE h == Head(spill)
    <2>1. /\ UNCHANGED <<output, batch, emitting, gone, caller>> /\ spill # <<>>
          /\ spill' = Tail(spill) /\ input' = Append(input, h)
      BY <1>10 DEF DrainLine, workers, batching
    <2>2. Accepted' = Accepted /\ Emitted' = Emitted
      BY <2>1 DEF Accepted, Emitted
    <2>3. /\ Distinct(spill') /\ h \in Range(spill) /\ Range(spill') = Range(spill) \ {h}
          /\ h \in Lines
      BY <1>0, <2>1, QueueReceived
    <2> HIDE DEF h
    <2>4. h \notin Range(input)
      BY <2>3 DEF OneEach, Apart
    <2>5. Distinct(input') /\ Range(input') = Range(input) \cup {h}
      BY <1>0, <2>1, <2>3, <2>4, QueueSent
    <2> QED
      BY <2>1, <2>2, <2>3, <2>5 DEF OneEach, Apart
  <1>11. ASSUME \/ \E u \in Updates : UpdateStep(u) \/ \E c \in Configs : UpdateBegins(u, c)
                \/ StopBegins \/ Cancel \/ StopReturns \/ ClearBegins \/ UNCHANGED vars
         PROVE  OneEach'
    <2>1. UNCHANGED <<input, spill, output, batch, emitting, gone, caller>>
      BY <1>11 DEF UpdateStep, UpdateApplies, UpdateStopped, StartWorker, SignalStop, UpdateReturns,
                   UpdateBegins, StopBegins, Cancel, StopReturns, ClearBegins, vars, workers, batching
    <2> QED
      BY <2>1, NothingMoves DEF Accepted
  <1>12. ASSUME ClearInput PROVE OneEach'
    <2>1. UNCHANGED <<spill, output, batch, emitting, caller>>
      BY <1>12 DEF ClearInput, workers, batching
    <2>2. Accepted' = Accepted /\ Emitted' = Emitted
      BY <2>1 DEF Accepted, Emitted
    <2>3. CASE input = <<>>
      BY <1>12, <2>1, <2>2, <2>3, NothingMoves DEF ClearInput
    <2>4. CASE input # <<>>
      <3>1. input' = Tail(input) /\ gone' = gone \cup {Head(input)}
        BY <1>12, <2>4 DEF ClearInput
      <3>2. /\ Distinct(input') /\ Head(input) \in Range(input)
            /\ Range(input') = Range(input) \ {Head(input)}
        BY <1>0, <2>4, <3>1, QueueReceived
      <3> QED
        BY <2>1, <2>2, <3>1, <3>2 DEF OneEach, Apart
    <2> QED
      BY <2>3, <2>4
  <1>13. ASSUME ClearOutput PROVE OneEach'
    <2>1. UNCHANGED <<input, spill, batch, emitting, caller>>
      BY <1>13 DEF ClearOutput, workers, batching
    <2>2. Accepted' = Accepted /\ Emitted' = Emitted
      BY <2>1 DEF Accepted, Emitted
    <2>3. CASE output = <<>>
      BY <1>13, <2>1, <2>2, <2>3, NothingMoves DEF ClearOutput
    <2>4. CASE output # <<>>
      <3>1. output' = Tail(output) /\ gone' = gone \cup {Head(output)}
        BY <1>13, <2>4 DEF ClearOutput
      <3>2. /\ Distinct(output') /\ Head(output) \in Range(output)
            /\ Range(output') = Range(output) \ {Head(output)}
        BY <1>0, <2>4, <3>1, QueueReceived
      <3> QED
        BY <2>1, <2>2, <3>1, <3>2 DEF OneEach, Apart
    <2> QED
      BY <2>3, <2>4
  <1>14. ASSUME ClearOverflow PROVE OneEach'
    <2>1. UNCHANGED <<input, output, batch, emitting, caller>>
      BY <1>14 DEF ClearOverflow, workers, batching
    <2>2. Accepted' = Accepted /\ Emitted' = Emitted
      BY <2>1 DEF Accepted, Emitted
    <2>3. CASE UNCHANGED <<spill, gone>>
      BY <2>1, <2>2, <2>3, NothingMoves
    <2>4. CASE spill' = <<>> /\ gone' = gone \cup Range(spill)
      <3>1. Distinct(spill') /\ Range(spill') = {}
        BY <2>4, DistinctEmpty, RangeEmpty
      <3> QED
        BY <2>1, <2>2, <2>4, <3>1 DEF OneEach, Apart
    <2> QED
      BY <1>14, <2>3, <2>4 DEF ClearOverflow
  <1> QED
    BY <1>1, <1>2, <1>3, <1>4, <1>5, <1>6, <1>7, <1>8, <1>9, <1>10, <1>11, <1>12, <1>13, <1>14
       DEF Next, SubmitStep, EmitStep, WorkerStep, BatchStep, DrainerStep, ClearStep


-------------------------------------------------------------------------------
\* The number of workers

UnscaledOf == [u \in Updates |-> Unscaled(u)]

LEMMA UnscaledFacts ==
    ASSUME Types
    PROVE  UnscaledOf \in [Updates -> Int] /\ SumFunction(UnscaledOf) \in Int
  <1>1. ASSUME NEW u \in Updates PROVE Unscaled(u) \in Int
    <2>1. CASE updater[u].at = "scale"
      <3>1. updater[u] \in Update
        BY DEF Types
      <3>2. updater[u] \in [at : {"scale"}, diff : Int]
        BY <2>1, <3>1 DEF Update
      <3> QED
        BY <3>2 DEF Unscaled
    <2>2. CASE updater[u].at # "scale"
      BY <2>2 DEF Unscaled
    <2> QED
      BY <2>1, <2>2
  <1>2. UnscaledOf \in [Updates -> Int]
    BY <1>1 DEF UnscaledOf
  <1> QED
    BY <1>2, Constants, SumIsInt

\* A step of one UpdateConfig moves the sum by what it has yet to start or stop.
LEMMA OneUpdater ==
    ASSUME Types, Types', NEW u \in Updates, NEW r, updater' = [updater EXCEPT ![u] = r],
           NEW n \in Int, n = IF r.at = "scale" THEN r.diff ELSE 0
    PROVE  /\ SumFunction(UnscaledOf) \in Int /\ Unscaled(u) \in Int
           /\ SumFunction(UnscaledOf') = SumFunction(UnscaledOf) + (n - Unscaled(u))
  <1>1. updater'[u] = r /\ \A v \in Updates \ {u} : updater'[v] = updater[v]
    BY DEF Types
  <1>2. Unscaled(u)' = n /\ \A v \in Updates \ {u} : Unscaled(v)' = Unscaled(v)
    BY <1>1 DEF Unscaled
  <1>3. UnscaledOf \in [Updates -> Int] /\ SumFunction(UnscaledOf) \in Int
    BY UnscaledFacts
  <1>4. \A v \in Updates : UnscaledOf[v] = Unscaled(v) /\ UnscaledOf'[v] = Unscaled(v)'
    BY DEF UnscaledOf
  <1>5. UnscaledOf' \in [Updates -> Int]
    <2>1. \A v \in Updates : Unscaled(v)' \in Int
      <3>1. \A v \in Updates : Unscaled(v) \in Int
        BY <1>3, <1>4
      <3> QED
        BY <1>2, <3>1
    <2> QED
      BY <2>1 DEF UnscaledOf
  <1>6. SumFunction(UnscaledOf') = SumFunction(UnscaledOf) + (UnscaledOf'[u] - UnscaledOf[u])
    <2>1. \A v \in Updates \ {u} : UnscaledOf'[v] = UnscaledOf[v]
      BY <1>2, <1>4
    <2> QED
      BY <1>3, <1>5, <2>1, Constants, SumUpdate
  <1> QED
    BY <1>2, <1>3, <1>4, <1>6

\* The balance that WorkersMatchConfig asks for.
Live == LiveWorkers - stops + SumFunction(UnscaledOf)

LEMMA SameBalance == WorkersMatchConfig <=> (~stopped => Live = config.workers)
  BY DEF WorkersMatchConfig, Live, UnscaledOf

LEMMA BalanceTypes ==
    ASSUME Types, OneEach
    PROVE  /\ waiting \in Int /\ draining \in Int /\ Cardinality(emitting) \in Int
           /\ stops \in Int /\ SumFunction(UnscaledOf) \in Int
           /\ Live = waiting + draining + Cardinality(emitting) - stops + SumFunction(UnscaledOf)
  <1>1. Cardinality(emitting) \in Int
    BY FS_CardinalityType DEF OneEach
  <1>2. waiting \in Int /\ draining \in Int /\ stops \in Int
    BY Constants DEF Types
  <1> QED
    BY <1>1, <1>2, UnscaledFacts DEF Live, LiveWorkers

\* Lines and workers move; no UpdateConfig takes a step.
Shifts(w, d, e, n) ==
    /\ UNCHANGED <<updater, stopped, config>>
    /\ waiting' = waiting + w /\ draining' = draining + d
    /\ Cardinality(emitting') = Cardinality(emitting) + e /\ stops' = stops + n

LEMMA OtherBalance ==
    ASSUME Types, OneEach, WorkersMatchConfig,
           NEW w \in Int, NEW d \in Int, NEW e \in Int, NEW n \in Int,
           Shifts(w, d, e, n), w + d + e = n
    PROVE  WorkersMatchConfig'
  <1>1. UnscaledOf' = UnscaledOf
    BY DEF UnscaledOf, Unscaled, Shifts
  <1>2. Live' = Live
    <2> DEFINE c == Cardinality(emitting)
               t == SumFunction(UnscaledOf)
    <2>1. /\ waiting \in Int /\ draining \in Int /\ c \in Int /\ stops \in Int /\ t \in Int
          /\ Live = waiting + draining + c - stops + t
      BY BalanceTypes
    <2>2. Live' = (waiting' + draining' + Cardinality(emitting')) - stops' + SumFunction(UnscaledOf')
      BY DEF Live, LiveWorkers
    <2>3. /\ waiting' = waiting + w /\ draining' = draining + d
          /\ Cardinality(emitting') = c + e /\ stops' = stops + n /\ SumFunction(UnscaledOf') = t
      BY <1>1 DEF Shifts
    <2> HIDE DEF c, t
    <2>4. (waiting + w) + (draining + d) + (c + e) - (stops + n) + t
              = waiting + draining + c - stops + t
      BY <2>1
    <2> QED
      BY <2>1, <2>2, <2>3, <2>4
  <1>3. (~stopped => Live = config.workers) => (~stopped' => Live' = config'.workers)
    BY <1>2 DEF Shifts
  <1> QED
    BY <1>3 DEF WorkersMatchConfig, Live, UnscaledOf

\* An UpdateConfig takes a step; no worker moves but those it starts.
Scales(u, next, diff, w, n) ==
    /\ stopped' = stopped /\ UNCHANGED <<draining, emitting>>
    /\ updater' = [updater EXCEPT ![u] = next]
    /\ diff = IF next.at = "scale" THEN next.diff ELSE 0
    /\ waiting' = waiting + w /\ stops' = stops + n
    /\ config'.workers = config.workers + w - n + (diff - Unscaled(u))

LEMMA UpdateBalance ==
    ASSUME Types, Types', OneEach, WorkersMatchConfig, config.workers \in Int,
           NEW u \in Updates, NEW next, NEW diff \in Int, NEW w \in Int, NEW n \in Int,
           Scales(u, next, diff, w, n)
    PROVE  WorkersMatchConfig'
  <1>1. /\ SumFunction(UnscaledOf) \in Int /\ Unscaled(u) \in Int
        /\ SumFunction(UnscaledOf') = SumFunction(UnscaledOf) + (diff - Unscaled(u))
    BY OneUpdater DEF Scales
  <1> DEFINE c == Cardinality(emitting)
             t == SumFunction(UnscaledOf)
             x == Unscaled(u)
  <1>2. /\ waiting \in Int /\ draining \in Int /\ c \in Int /\ stops \in Int /\ t \in Int
        /\ Live = waiting + draining + c - stops + t
    BY BalanceTypes
  <1>3. Live' = (waiting' + draining' + Cardinality(emitting')) - stops' + SumFunction(UnscaledOf')
    BY DEF Live, LiveWorkers
  <1>4. /\ waiting' = waiting + w /\ draining' = draining /\ Cardinality(emitting') = c
        /\ stops' = stops + n /\ SumFunction(UnscaledOf') = t + (diff - x) /\ x \in Int
        /\ config'.workers = config.workers + w - n + (diff - x) /\ stopped' = stopped
    BY <1>1 DEF Scales
  <1> HIDE DEF c, t, x
  <1>5. (waiting + w) + draining + c - (stops + n) + (t + (diff - x))
            = (waiting + draining + c - stops + t) + w - n + (diff - x)
    BY <1>2, <1>4
  <1>6. Live' = Live + w - n + (diff - x)
    BY <1>2, <1>3, <1>4, <1>5
  <1>7. (~stopped => Live = config.workers) => (~stopped' => Live' = config'.workers)
    BY <1>4, <1>6
  <1> QED
    BY <1>7 DEF WorkersMatchConfig, Live, UnscaledOf

LEMMA NextWorkers ==
    Types /\ Types' /\ Shutdown /\ OneEach /\ WorkersMatchConfig /\ [Next]_vars => WorkersMatchConfig'
  <1> SUFFICES ASSUME Types, Types', Shutdown, OneEach, WorkersMatchConfig, [Next]_vars
               PROVE  WorkersMatchConfig'
    OBVIOUS
  <1>0. /\ waiting \in Int /\ draining \in Int /\ Cardinality(emitting) \in Int /\ stops \in Int
        /\ waiting + 0 = waiting /\ draining + 0 = draining
        /\ Cardinality(emitting) + 0 = Cardinality(emitting) /\ stops + 0 = stops
    BY BalanceTypes
  <1>1. ASSUME UNCHANGED <<updater, stopped, config, waiting, draining, emitting, stops>>
        PROVE  WorkersMatchConfig'
    BY <1>1 DEF WorkersMatchConfig, LiveWorkers, Unscaled
  <1>2. ASSUME NEW l \in Lines, SubmitStep(l) PROVE WorkersMatchConfig'
    BY <1>1, <1>2 DEF SubmitStep, SubmitCheck, SubmitQueued, SubmitCancelled, SubmitFull,
       SpillCheck, SpillStored, SubmitDropped, settings, workers, control
  <1>3. ASSUME BatchStep \/ DrainerStep \/ ClearBegins \/ ClearStep \/ UNCHANGED vars
        PROVE  WorkersMatchConfig'
    <2>1. UNCHANGED <<updater, stopped, config, waiting, draining, emitting, stops>>
      BY <1>3 DEF BatchStep, BatchEntry, BatchTick, BatchLeaves, BatchExits, SaveBatch,
         DrainerStep, DrainerTick, DrainLine, DrainEnds, DrainerExits,
         ClearBegins, ClearStep, ClearInput, ClearOutput, ClearOverflow, vars,
         settings, workers, control
    <2> QED
      BY <1>1, <2>1
  <1>4. ASSUME NEW leaving \in BOOLEAN, Receive(leaving) PROVE WorkersMatchConfig'
    <2> DEFINE h == Head(input)
               e == [line |-> h, leaving |-> leaving]
    <2>1. UNCHANGED <<updater, stopped, config, stops>> /\ emitting' = emitting \cup {e} /\ input # <<>>
      BY <1>4 DEF Receive, settings, control
    <2>2. e \notin emitting
      <3>1. h \in Range(input)
        BY <2>1, Received DEF Types
      <3>2. e.line = h
        OBVIOUS
      <3> HIDE DEF e, h
      <3> QED
        BY <3>1, <3>2 DEF OneEach, Apart, Emitted
    <2> HIDE DEF h, e
    <2>3. Cardinality(emitting') = Cardinality(emitting) + 1
      BY <2>1, <2>2, FS_AddElement DEF OneEach
    <2>4. CASE leaving
      <3>1. waiting' = waiting + 0 /\ draining' = draining + -1 /\ stops' = stops + 0
        BY <1>0, <1>4, <2>1, <2>4 DEF Receive
      <3>2. 0 + -1 + 1 = 0 /\ -1 \in Int
        OBVIOUS
      <3>3. Shifts(0, -1, 1, 0)
        BY <2>1, <2>3, <3>1 DEF Shifts
      <3> QED
        BY <3>2, <3>3, OtherBalance
    <2>5. CASE ~leaving
      <3>1. waiting' = waiting + -1 /\ draining' = draining + 0 /\ stops' = stops + 0
        BY <1>0, <1>4, <2>1, <2>5 DEF Receive
      <3>2. -1 + 0 + 1 = 0 /\ -1 \in Int
        OBVIOUS
      <3>3. Shifts(-1, 0, 1, 0)
        BY <2>1, <2>3, <3>1 DEF Shifts
      <3> QED
        BY <3>2, <3>3, OtherBalance
    <2> QED
      BY <2>4, <2>5
  <1>5. ASSUME NEW e \in emitting, EmitStep(e) \/ ParseFails(e) PROVE WorkersMatchConfig'
    <2>1. UNCHANGED <<updater, stopped, config, stops>> /\ Finished(e)
      BY <1>5 DEF EmitStep, Emit, Abandon, ParseFails, settings, control
    <2>2. Cardinality(emitting') = Cardinality(emitting) + -1
      BY <1>0, <2>1, LineFinished
    <2>3. CASE e.leaving
      <3>1. waiting' = waiting + 0 /\ draining' = draining + 1 /\ stops' = stops + 0
        BY <1>0, <2>1, <2>3 DEF Finished
      <3>2. 0 + 1 + -1 = 0 /\ -1 \in Int
        OBVIOUS
      <3>3. Shifts(0, 1, -1, 0)
        BY <2>1, <2>2, <3>1 DEF Shifts
      <3> QED
        BY <3>2, <3>3, OtherBalance
    <2>4. CASE ~e.leaving
      <3>1. waiting' = waiting + 1 /\ draining' = draining + 0 /\ stops' = stops + 0
        BY <1>0, <2>1, <2>4 DEF Finished
      <3>2. 1 + 0 + -1 = 0 /\ -1 \in Int
        OBVIOUS
      <3>3. Shifts(1, 0, -1, 0)
        BY <2>1, <2>2, <3>1 DEF Shifts
      <3> QED
        BY <3>2, <3>3, OtherBalance
    <2> QED
      BY <2>3, <2>4
  <1>6. ASSUME StopSignal PROVE WorkersMatchConfig'
    <2>1. /\ UNCHANGED <<updater, stopped, config>> /\ waiting' = waiting + -1 /\ stops' = stops + -1
          /\ draining' = draining + 0 /\ Cardinality(emitting') = Cardinality(emitting) + 0
      BY <1>0, <1>6 DEF StopSignal, settings, control
    <2>2. -1 + 0 + 0 = -1 /\ -1 \in Int
      OBVIOUS
    <2>3. Shifts(-1, 0, 0, -1)
      BY <2>1 DEF Shifts
    <2> QED
      BY <2>2, <2>3, OtherBalance
  <1>7. ASSUME WorkerLeaves \/ WorkerExits PROVE WorkersMatchConfig'
    <2>1. stopped' = stopped
      BY <1>7 DEF WorkerLeaves, WorkerExits, settings
    <2>2. stopped
      BY <1>7 DEF WorkerLeaves, WorkerExits, Shutdown, Types
    <2> QED
      BY <2>1, <2>2 DEF WorkersMatchConfig
  <1>8. ASSUME StopBegins \/ Cancel \/ StopReturns PROVE WorkersMatchConfig'
    <2>1. CASE StopBegins
      BY <2>1 DEF StopBegins, WorkersMatchConfig
    <2>2. CASE Cancel \/ StopReturns
      <3>1. UNCHANGED <<updater, stopped, config, waiting, draining, emitting, stops>>
        BY <2>2 DEF Cancel, StopReturns, settings, workers
      <3> QED
        BY <1>1, <3>1
    <2> QED
      BY <1>8, <2>1, <2>2
  <1>9. config.workers \in Int
    <2>1. config \in Config
      BY DEF Types
    <2> QED
      BY <2>1, ConfigFields
  <1>10. ASSUME NEW u \in Updates, NEW c \in Configs, UpdateBegins(u, c) PROVE WorkersMatchConfig'
    <2>1. PICK r \in {"no", "ok", "fails"} :
              updater' = [updater EXCEPT ![u] = [at |-> "lock", asked |-> c, create |-> r]]
      BY <1>10 DEF UpdateBegins
    <2> DEFINE next == [at |-> "lock", asked |-> c, create |-> r]
    <2>2. next.at # "scale" /\ Unscaled(u) = 0
      BY <1>10 DEF UpdateBegins, Unscaled
    <2>3. updater' = [updater EXCEPT ![u] = next]
      BY <2>1
    <2> HIDE DEF next
    <2>4. 0 = (IF next.at = "scale" THEN next.diff ELSE 0)
      BY <2>2
    <2>5. /\ stopped' = stopped /\ UNCHANGED <<draining, emitting>>
          /\ waiting' = waiting + 0 /\ stops' = stops + 0
          /\ config'.workers = config.workers + 0 - 0 + (0 - Unscaled(u))
      BY <1>0, <1>9, <1>10, <2>2 DEF UpdateBegins, settings, workers
    <2>6. Scales(u, next, 0, 0, 0)
      BY <2>3, <2>4, <2>5 DEF Scales
    <2> QED
      BY <1>9, <2>6, UpdateBalance
  <1>11. ASSUME NEW u \in Updates, UpdateApplies(u) PROVE WorkersMatchConfig'
    <2> DEFINE c == updater[u].asked
               n == c.workers - config.workers
               next == [at |-> "scale", diff |-> n]
    <2>1. updater[u].at = "lock" /\ c \in Config
      <3>1. updater[u] \in Update /\ updater[u].at = "lock"
        BY <1>11 DEF UpdateApplies, Types
      <3>2. updater[u] \in [at : {"lock"}, asked : Configs, create : {"no", "ok", "fails"}]
        BY <3>1 DEF Update
      <3> QED
        BY <3>1, <3>2, Constants
    <2>2. c.workers \in Int /\ n \in Int
      BY <1>9, <2>1, ConfigFields
    <2>3. config'.workers = c.workers /\ updater' = [updater EXCEPT ![u] = next]
      <3> DEFINE on == c.overflow /\ (c.overflow /\ ~hasOverflow =>
                            c.overflow /\ ~hasOverflow /\ updater[u].create = "ok")
      <3>1. config' = [c EXCEPT !.overflow = on] /\ updater' = [updater EXCEPT ![u] = next]
        BY <1>11, Zenon DEF UpdateApplies, OldWorkerCount
      <3> HIDE DEF c, on, next
      <3>2. config'.workers = c.workers
        BY <2>1, <3>1 DEF Config
      <3> QED
        BY <3>1, <3>2
    <2>4. next.at = "scale" /\ next.diff = n /\ Unscaled(u) = 0
      BY <2>1 DEF Unscaled
    <2>5. /\ stopped' = stopped /\ UNCHANGED <<draining, emitting>>
          /\ waiting' = waiting + 0 /\ stops' = stops + 0
      BY <1>0, <1>11 DEF UpdateApplies, workers
    <2>6. config.workers + 0 - 0 + (n - Unscaled(u)) = c.workers
      BY <1>9, <2>2, <2>4
    <2> HIDE DEF c, n, next
    <2>7. n = (IF next.at = "scale" THEN next.diff ELSE 0)
      BY <2>4
    <2>8. Scales(u, next, n, 0, 0)
      BY <2>2, <2>3, <2>5, <2>6, <2>7 DEF Scales
    <2> QED
      BY <1>9, <2>2, <2>8, UpdateBalance
  <1>12. ASSUME NEW u \in Updates, UpdateStopped(u) PROVE WorkersMatchConfig'
    BY <1>12 DEF UpdateStopped, WorkersMatchConfig
  <1>13. ASSUME NEW u \in Updates, updater[u].at = "scale"
         PROVE  updater[u] \in [at : {"scale"}, diff : Int] /\ Unscaled(u) = updater[u].diff
    <2>1. updater[u] \in Update
      BY DEF Types
    <2> QED
      BY <1>13, <2>1 DEF Update, Unscaled
  <1>14. ASSUME NEW u \in Updates, StartWorker(u) PROVE WorkersMatchConfig'
    <2> DEFINE next == [updater[u] EXCEPT !.diff = @ - 1]
               n == updater[u].diff - 1
    <2>1. /\ updater[u] \in [at : {"scale"}, diff : Int] /\ Unscaled(u) = updater[u].diff
          /\ updater' = [updater EXCEPT ![u] = next]
      BY <1>13, <1>14 DEF StartWorker
    <2>2. next.at = "scale" /\ next.diff = n /\ n \in Int
      BY <2>1
    <2>3. /\ stopped' = stopped /\ UNCHANGED <<draining, emitting>>
          /\ waiting' = waiting + 1 /\ stops' = stops + 0 /\ config' = config
      BY <1>0, <1>14 DEF StartWorker, settings
    <2>4. config'.workers = config.workers + 1 - 0 + (n - Unscaled(u))
      BY <1>9, <2>1, <2>3
    <2> HIDE DEF next, n
    <2>5. n = (IF next.at = "scale" THEN next.diff ELSE 0)
      BY <2>2
    <2>6. Scales(u, next, n, 1, 0)
      BY <2>1, <2>2, <2>3, <2>4, <2>5 DEF Scales
    <2> QED
      BY <1>9, <2>2, <2>6, UpdateBalance
  <1>15. ASSUME NEW u \in Updates, SignalStop(u) PROVE WorkersMatchConfig'
    <2> DEFINE next == [updater[u] EXCEPT !.diff = @ + 1]
               n == updater[u].diff + 1
    <2>1. /\ updater[u] \in [at : {"scale"}, diff : Int] /\ Unscaled(u) = updater[u].diff
          /\ updater' = [updater EXCEPT ![u] = next]
      BY <1>13, <1>15 DEF SignalStop
    <2>2. next.at = "scale" /\ next.diff = n /\ n \in Int
      BY <2>1
    <2>3. /\ stopped' = stopped /\ UNCHANGED <<draining, emitting>>
          /\ waiting' = waiting + 0 /\ stops' = stops + 1 /\ config' = config
      BY <1>0, <1>15 DEF SignalStop, settings, workers
    <2>4. config'.workers = config.workers + 0 - 1 + (n - Unscaled(u))
      BY <1>9, <2>1, <2>3
    <2> HIDE DEF next, n
    <2>5. n = (IF next.at = "scale" THEN next.diff ELSE 0)
      BY <2>2
    <2>6. Scales(u, next, n, 0, 1)
      BY <2>1, <2>2, <2>3, <2>4, <2>5 DEF Scales
    <2> QED
      BY <1>9, <2>2, <2>6, UpdateBalance
  <1>16. ASSUME NEW u \in Updates, UpdateReturns(u) PROVE WorkersMatchConfig'
    <2> DEFINE next == [at |-> "end"]
    <2>1. updater' = [updater EXCEPT ![u] = next] /\ next.at # "scale"
      BY <1>16 DEF UpdateReturns
    <2>2. Unscaled(u) = 0
      BY <1>16 DEF UpdateReturns, Unscaled
    <2>3. /\ stopped' = stopped /\ UNCHANGED <<draining, emitting>>
          /\ waiting' = waiting + 0 /\ stops' = stops + 0 /\ config' = config
      BY <1>0, <1>16 DEF UpdateReturns, settings, workers
    <2>4. config'.workers = config.workers + 0 - 0 + (0 - Unscaled(u))
      BY <1>9, <2>2, <2>3
    <2> HIDE DEF next
    <2>5. 0 = (IF next.at = "scale" THEN next.diff ELSE 0)
      BY <2>1
    <2>6. Scales(u, next, 0, 0, 0)
      BY <2>1, <2>3, <2>4, <2>5 DEF Scales
    <2> QED
      BY <1>9, <2>6, UpdateBalance
  <1> QED
    BY <1>2, <1>3, <1>4, <1>5, <1>6, <1>7, <1>8, <1>10, <1>11, <1>12, <1>14, <1>15, <1>16
       DEF Next, WorkerStep, UpdateStep

-------------------------------------------------------------------------------
\* The initial states

LEMMA InitOneEach == Init => OneEach
  <1> SUFFICES ASSUME Init PROVE OneEach
    OBVIOUS
  <1>1. input = <<>> /\ spill = <<>> /\ output = <<>> /\ batch = <<>> /\ emitting = {} /\ gone = {}
    BY DEF Init
  <1>2. Emitted = {}
    BY <1>1 DEF Emitted
  <1>3. Accepted = {}
    BY DEF Init, Accepted
  <1>4. Distinct(<<>>) /\ Range(<<>>) = {} /\ IsFiniteSet({})
    BY DistinctEmpty, RangeEmpty, FS_EmptySet
  <1> QED
    BY <1>1, <1>2, <1>3, <1>4 DEF OneEach, Apart

LEMMA InitWorkers == Init => WorkersMatchConfig
  <1> SUFFICES ASSUME Init PROVE Live = config.workers
    BY SameBalance
  <1>1. UnscaledOf \in [Updates -> Int] /\ \A u \in Updates : UnscaledOf[u] = 0
    BY DEF Init, UnscaledOf, Unscaled
  <1>2. SumFunction(UnscaledOf) = 0
    BY <1>1, Constants, SumOfZeros
  <1>3. config.workers \in Int
    BY Constants, ConfigFields DEF Init
  <1>4. waiting = config.workers /\ draining = 0 /\ stops = 0 /\ Cardinality(emitting) = 0
    BY FS_EmptySet DEF Init
  <1> QED
    BY <1>2, <1>3, <1>4 DEF Live, LiveWorkers

-------------------------------------------------------------------------------
\* The theorems

\* The inductive invariant.
THEOREM InvariantHolds == Spec => []IInv
  <1>1. Init => IInv
    BY SameTypes, InitTypes, InitOneEach, InitWorkers DEF Init, Shutdown, IInv
  <1>2. IInv /\ [Next]_vars => IInv'
    <2> SUFFICES ASSUME IInv, [Next]_vars PROVE IInv'
      OBVIOUS
    <2>1. Types /\ Shutdown /\ OneEach /\ WorkersMatchConfig
      BY SameTypes DEF IInv
    <2>2. Types'
      BY <2>1, NextTypes
    <2>3. Shutdown' /\ OneEach' /\ WorkersMatchConfig'
      BY <2>1, <2>2, NextShutdown, NextOneEach, NextWorkers
    <2>4. TypeOK'
      BY <2>2 DEF TypeOK, Types
    <2> QED
      BY <2>3, <2>4 DEF IInv
  <1> QED
    BY <1>1, <1>2, PTL DEF Spec

\* TypeOK is an invariant: no queue is over its capacity, no worker count below
\* zero, no Drain submits more than overflow_drain_batch lines.
THEOREM TypesHold == Spec => []TypeOK
  <1>1. IInv => TypeOK
    BY DEF IInv
  <1> QED
    BY <1>1, InvariantHolds, PTL

\* The lines that workers hold are as many as the workers that hold one.
LEMMA OneLineEach ==
    ASSUME OneEach
    PROVE  IsFiniteSet(Emitted) /\ Cardinality(Emitted) = Cardinality(emitting)
  <1> DEFINE lineOf == [e \in emitting |-> e.line]
  <1>1. lineOf \in Bijection(emitting, Emitted)
    BY DEF OneEach, Emitted, Bijection, Injection, Surjection, IsInjective
  <1>2. IsFiniteSet(emitting)
    BY DEF OneEach
  <1> HIDE DEF lineOf
  <1> QED
    BY <1>1, <1>2, FS_Bijection DEF ExistsBijection

LEMMA Joined ==
    ASSUME NEW s \in Seq(Lines), NEW t \in Seq(Lines),
           Distinct(s), Distinct(t), Range(s) \cap Range(t) = {}
    PROVE  /\ s \o t \in Seq(Lines) /\ Distinct(s \o t)
           /\ Range(s \o t) = Range(s) \cup Range(t)
  BY RangeConcat, DistinctConcat, ConcatProperties

\* The backlog repeats no line.
LEMMA BacklogIsDistinct ==
    ASSUME Types, OneEach
    PROVE  /\ Backlog \in Seq(Lines) /\ Distinct(Backlog)
           /\ Range(Backlog) = Range(input) \cup Range(spill) \cup Range(output) \cup Range(batch)
  <1>1. input \in Seq(Lines) /\ spill \in Seq(Lines) /\ output \in Seq(Lines) /\ batch \in Seq(Lines)
    BY DEF Types
  <1>2. /\ Distinct(input) /\ Distinct(spill) /\ Distinct(output) /\ Distinct(batch)
        /\ Range(input) \cap Range(spill) = {}
        /\ (Range(input) \cup Range(spill)) \cap Range(output) = {}
        /\ (Range(input) \cup Range(spill) \cup Range(output)) \cap Range(batch) = {}
    BY DEF OneEach, Apart
  <1>3. /\ input \o spill \in Seq(Lines) /\ Distinct(input \o spill)
        /\ Range(input \o spill) = Range(input) \cup Range(spill)
    BY <1>1, <1>2, Joined
  <1>4. /\ input \o spill \o output \in Seq(Lines) /\ Distinct(input \o spill \o output)
        /\ Range(input \o spill \o output) = Range(input) \cup Range(spill) \cup Range(output)
    <2> DEFINE two == input \o spill
    <2>1. two \in Seq(Lines) /\ Distinct(two) /\ Range(two) = Range(input) \cup Range(spill)
      BY <1>3
    <2> HIDE DEF two
    <2>2. /\ two \o output \in Seq(Lines) /\ Distinct(two \o output)
          /\ Range(two \o output) = Range(input) \cup Range(spill) \cup Range(output)
      BY <1>1, <1>2, <2>1, Joined
    <2> QED
      BY <2>2 DEF two
  <1> DEFINE three == input \o spill \o output
  <1>5. /\ three \in Seq(Lines) /\ Distinct(three)
        /\ Range(three) = Range(input) \cup Range(spill) \cup Range(output)
    BY <1>4
  <1> HIDE DEF three
  <1>6. /\ three \o batch \in Seq(Lines) /\ Distinct(three \o batch)
        /\ Range(three \o batch)
              = Range(input) \cup Range(spill) \cup Range(output) \cup Range(batch)
    BY <1>1, <1>2, <1>5, Joined
  <1> QED
    BY <1>6 DEF Backlog, three

\* EveryLineOnce is an invariant: an accepted line is pending or gone, never
\* both, and pending in one place only, whatever workers, batches, overflow,
\* clears and the shutdown do to it.
THEOREM EveryLineIsOnce == Spec => []EveryLineOnce
  <1>1. IInv => EveryLineOnce
    <2> SUFFICES ASSUME IInv PROVE EveryLineOnce
      OBVIOUS
    <2>1. Types /\ OneEach
      BY SameTypes DEF IInv
    <2>2. /\ Backlog \in Seq(Lines) /\ Distinct(Backlog)
          /\ Range(Backlog) = Range(input) \cup Range(spill) \cup Range(output) \cup Range(batch)
      BY <2>1, BacklogIsDistinct
    <2>3. Pending \cup gone = Accepted /\ Pending \cap gone = {} /\ Range(Backlog) \cap Emitted = {}
      BY <2>1, <2>2 DEF OneEach, Apart, Pending
    <2>4. IsFiniteSet(Range(Backlog)) /\ Cardinality(Range(Backlog)) = Len(Backlog)
      BY <2>2, DistinctCount
    <2>5. IsFiniteSet(Emitted) /\ Cardinality(Emitted) = Cardinality(emitting)
      BY <2>1, OneLineEach
    <2>6. Cardinality(Pending)
             = Cardinality(Range(Backlog)) + Cardinality(Emitted) - Cardinality(Range(Backlog) \cap Emitted)
      BY <2>4, <2>5, FS_Union DEF Pending
    <2>7. Cardinality(Range(Backlog) \cap Emitted) = 0
      BY <2>3, FS_EmptySet
    <2>8. Len(Backlog) \in Nat /\ Cardinality(emitting) \in Nat
      BY <2>2, <2>4, <2>5, FS_CardinalityType
    <2>9. Cardinality(Pending) = Len(Backlog) + Cardinality(emitting)
      BY <2>4, <2>5, <2>6, <2>7, <2>8
    <2> QED
      BY <2>3, <2>9 DEF EveryLineOnce
  <1> QED
    BY <1>1, InvariantHolds, PTL

\* WorkersMatchConfig is an invariant: however many UpdateConfig calls are
\* under way, workers, stop signals and what is left to scale add up.
THEOREM WorkersAreMatched == Spec => []WorkersMatchConfig
  <1>1. IInv => WorkersMatchConfig
    BY DEF IInv
  <1> QED
    BY <1>1, InvariantHolds, PTL

===============================================================================
