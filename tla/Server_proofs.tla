----------------------------- MODULE Server_proofs -----------------------------
(* Theorems about Server, for every value of its constants.                 *)
EXTENDS Server, Receivers_proofs

Stages == {"idle", "merge", "store", "save", "apply", "storage", "restart", "lock", "stopping"}
Request == [op : {"none", "update", "start", "stop", "metrics"}, at : Stages,
            payload : Payloads \cup {NoPayload}, old : Configs, new : Configs]

ServerType ==
    /\ holder \in Requests \cup {NoOne} /\ running \in BOOLEAN
    /\ calls \in 0..MaxCalls
    /\ config \in Configs /\ file \in Configs
    /\ history \in [want : Configs, overlapped : BOOLEAN, failed : BOOLEAN, saved : BOOLEAN]
    /\ runtime \in [{"parser", "workers", "retention"} -> Nat]
    /\ phase \in {"serving", "receivers", "closing"}
    /\ req \in [Requests -> Request]

\* Which requests can be at which stage.
Shape(x) ==
    /\ x.op = "none" <=> x.at = "idle"
    /\ x.at \in {"merge", "store", "save", "apply", "storage", "restart"} => x.op = "update"
    /\ x.at = "lock" => x.op \in {"start", "stop", "metrics"}
    /\ x.at = "stopping" => x.op \in {"update", "stop"}
    /\ x.op = "update" => x.payload \in Payloads
Shapes == \A r \in Requests : Shape(req[r])

\* runtimeMu is held by the request that stops the current manager, and by no
\* other; main stops a manager in its shutdown only.
Lock ==
    /\ current = made
    /\ \A r \in Requests : req[r].at = "stopping" <=> holder = r
    /\ holder # NoOne => /\ running
                         /\ stopper["server"].at \in {"stop", "done"}
                         /\ stopper["server"].gen = current
    /\ holder = NoOne => stopper["server"].at = "idle"
    /\ phase = "serving" => stopper["main"].at = "idle"

AllOver(g) == \A k \in Kinds : rx[g][k].loop \in Over

\* Of the managers made so far only the current one may have loops that run, and
\* only while the receivers are marked as running and its stop is not over.
Settled ==
    /\ \A g \in Gens : g < made => AllOver(g)
    /\ ~running \/ stopper["server"].at = "done" => AllOver(made)

Phases ==
    /\ \A g \in Gens : g < made => mgr[g].phase # "started"
    /\ ~running \/ stopper["server"].at = "done" => mgr[made].phase # "started"
    /\ phase = "serving" /\ running /\ stopper["server"].at # "done" => mgr[made].phase = "started"

Control ==
    /\ RInv /\ TokensExact /\ ServerType /\ Shapes
    /\ Lock /\ Settled /\ Phases /\ SilentMeansMissed

-------------------------------------------------------------------------------
(* Configurations.                                                          *)

LEMMA ConfigFacts ==
    ASSUME NEW c \in Configs
    PROVE  /\ DOMAIN c = Fields
           /\ c["recv"] \in SUBSET Kinds
           /\ \A f \in Fields \ {"recv"} : c[f] \in Nat
  BY DEF Configs, Fields

LEMMA IsConfig ==
    ASSUME NEW c, c = [f \in Fields |-> c[f]], c["recv"] \in SUBSET Kinds,
           \A f \in Fields \ {"recv"} : c[f] \in Nat
    PROVE  c \in Configs
  BY DEF Configs, Fields

LEMMA NormaliseType ==
    ASSUME NEW c \in Configs
    PROVE  Normalise(c) \in Configs
  BY ConfigFacts, ServerAssumption DEF Normalise, Fields, Configs

LEMMA WithType ==
    ASSUME NEW c \in Configs, NEW p \in Payloads
    PROVE  With(c, p.set) \in Configs
  <1> DEFINE d == With(InitialConfig, p.set)
             e == With(c, p.set)
  <1>1. d \in Configs
    BY ServerAssumption
  <1>2. \A f \in Fields : d[f] = (IF f \in DOMAIN p.set THEN p.set[f] ELSE InitialConfig[f])
    BY DEF With
  <1>3. \A f \in Fields : e[f] = (IF f \in DOMAIN p.set THEN d[f] ELSE c[f])
    BY <1>2 DEF With
  <1>4. e = [f \in Fields |-> e[f]]
    BY DEF With
  <1> HIDE DEF d, e
  <1>5. e["recv"] \in SUBSET Kinds /\ \A f \in Fields \ {"recv"} : e[f] \in Nat
    BY <1>1, <1>3, ConfigFacts DEF Fields
  <1>6. e \in Configs
    BY <1>4, <1>5, IsConfig
  <1> QED
    BY <1>6 DEF e

LEMMA MergedType ==
    ASSUME NEW p \in Payloads, NEW old \in Configs, NEW now \in Configs
    PROVE  Merged(p, old, now) \in Configs
  <1> DEFINE w == With(now, p.set)
             t == IF "token" \notin DOMAIN p.set /\ DOMAIN p.set \cap ServerSection # {}
                  THEN old["token"] ELSE w["token"]
  <1>1. w \in Configs
    BY WithType
  <1>2. t \in Nat
    BY <1>1, ConfigFacts DEF Fields
  <1>3. Merged(p, old, now) = [w EXCEPT !["token"] = t]
    BY DEF Merged
  <1> HIDE DEF w, t
  <1>4. [w EXCEPT !["token"] = t] \in Configs
    BY <1>1, <1>2 DEF Configs
  <1> QED
    BY <1>3, <1>4

-------------------------------------------------------------------------------
(* Initial states.                                                          *)

LEMMA InitControl == Init => Control
  <1> SUFFICES ASSUME Init PROVE Control
    OBVIOUS
  <1> DEFINE c == Normalise(InitialConfig)
  <1>1. c \in Configs /\ InitialConfig \in Configs
    BY NormaliseType, ServerAssumption
  <1>2. c["recv"] \in SUBSET Kinds
    BY <1>1, ConfigFacts
  <1>3. ReceiversInit(c["recv"]) /\ running = TRUE /\ current = 1 /\ holder = NoOne
    BY DEF Init
  <1>4. RInv
    BY <1>2, <1>3, ReceiversInitRInv
  <1>5. TokensExact
    <2>1. \A g \in Gens : Open(g) = {}
      BY <1>3 DEF ReceiversInit, Idle, Open
    <2> QED
      BY <1>3, <2>1, FS_EmptySet DEF ReceiversInit, TokensExact
  <1>6. NoPayload \in Payloads \cup {NoPayload} /\ Free \in Request /\ Shape(Free) /\ Free.at = "idle"
    BY <1>1 DEF Free, Request, Shape, Stages
  <1>7. req = [r \in Requests |-> Free]
    BY DEF Init
  <1>8. ServerType
    <2>1. Applied(c) \in [{"parser", "workers", "retention"} -> Nat]
      BY <1>1, ConfigFacts DEF Applied, Fields
    <2> HIDE DEF c
    <2> QED
      BY <1>1, <1>3, <1>6, <1>7, <2>1, ServerAssumption DEF Init, ServerType, c
  <1>9. Shapes
    BY <1>6, <1>7 DEF Shapes
  <1>10. Lock
    BY <1>3, <1>6, <1>7, ServerAssumption DEF ReceiversInit, Lock
  <1>11. Settled /\ Phases /\ SilentMeansMissed
    <2>1. 1 \in Gens /\ Gens \subseteq Nat \ {0} /\ made = 1
      BY <1>3, ReceiversAssumption DEF ReceiversInit, Gens
    <2>2. /\ mgr[1].phase = "started" /\ stopper["server"].at = "idle"
          /\ \A g \in Gens, k \in Kinds : rx[g][k].loop # "failed"
      BY <1>3, <2>1, ServerAssumption DEF ReceiversInit, NoReceiver
    <2> QED
      BY <1>3, <2>1, <2>2 DEF Settled, Phases, SilentMeansMissed
  <1> QED
    BY <1>4, <1>5, <1>8, <1>9, <1>10, <1>11 DEF Control

-------------------------------------------------------------------------------
(* Steps of a request that keep away from the receivers.                    *)

LEMMA OneRequest ==
    ASSUME ServerType, Shapes, NEW r \in Requests, NEW x \in Request, Shape(x),
           req' = [req EXCEPT ![r] = x]
    PROVE  /\ req' \in [Requests -> Request] /\ Shapes'
           /\ req'[r] = x /\ \A q \in Requests \ {r} : req'[q] = req[q]
  <1>1. req' \in [Requests -> Request]
    BY DEF ServerType
  <1>2. req'[r] = x /\ \A q \in Requests \ {r} : req'[q] = req[q]
    BY DEF ServerType
  <1>3. Shapes'
    BY <1>2 DEF Shapes, Shape
  <1> QED
    BY <1>1, <1>2, <1>3

LEMMA LocalStep ==
    ASSUME Control, UNCHANGED <<rvars, holder, running, current, phase>>,
           ServerType', Shapes',
           \A q \in Requests : req'[q].at = "stopping" <=> req[q].at = "stopping"
    PROVE  Control'
  <1>1. RInv' /\ TokensExact'
    BY DEF Control, rvars, RInv, ReceiversTypeOK, Fresh, ReceiversOK, SessionsOK, StoppedIsQuiet,
           Late, TokensExact, Open
  <1>2. Lock' /\ Settled' /\ Phases' /\ SilentMeansMissed'
    BY DEF Control, rvars, Lock, Settled, AllOver, Phases, SilentMeansMissed
  <1> QED
    BY <1>1, <1>2 DEF Control

LEMMA FreeType ==
    /\ Free \in Request /\ Shape(Free)
    /\ Free.at = "idle" /\ Free.op = "none" /\ Free.payload = NoPayload
    /\ Free.old = InitialConfig /\ Free.new = InitialConfig /\ InitialConfig \in Configs
  <1>1. InitialConfig \in Configs
    BY ServerAssumption
  <1> QED
    BY <1>1 DEF Free, Request, Shape, Stages

\* A local step of r: what its request becomes, and that the rest is typed.
LocalTo(r, x) ==
    /\ x \in Request /\ Shape(x) /\ req' = [req EXCEPT ![r] = x]
    /\ req[r].at # "stopping" /\ x.at # "stopping"
    /\ UNCHANGED <<rvars, holder, running, current, phase>>

LEMMA LocalToControl ==
    ASSUME Control, NEW r \in Requests, NEW x, LocalTo(r, x),
           calls' \in 0..MaxCalls, config' \in Configs, file' \in Configs,
           history' \in [want : Configs, overlapped : BOOLEAN, failed : BOOLEAN, saved : BOOLEAN],
           runtime' \in [{"parser", "workers", "retention"} -> Nat]
    PROVE  Control'
  <1>1. /\ req' \in [Requests -> Request] /\ Shapes'
        /\ req'[r] = x /\ \A q \in Requests \ {r} : req'[q] = req[q]
    BY OneRequest DEF Control, LocalTo
  <1>2. ServerType'
    BY <1>1 DEF LocalTo, Control, ServerType
  <1>3. \A q \in Requests : req'[q].at = "stopping" <=> req[q].at = "stopping"
    BY <1>1 DEF LocalTo
  <1> QED
    BY <1>1, <1>2, <1>3, LocalStep DEF LocalTo

LEMMA BeginUpdateFacts ==
    ASSUME ServerType, Shapes, NEW r \in Requests, NEW p \in Payloads, BeginUpdate(r, p)
    PROVE  /\ req[r].at = "idle"
           /\ \E x : /\ LocalTo(r, x)
                     /\ x.op = "update" /\ x.at = "merge" /\ x.payload = p /\ x.old = config
           /\ history'.overlapped = (history.overlapped \/ \E q \in Requests : Updating(q))
           /\ history'.want = history.want
        /\ UNCHANGED <<history.failed, history.saved>>
           /\ history' \in [want : Configs, overlapped : BOOLEAN, failed : BOOLEAN, saved : BOOLEAN]
           /\ calls' \in 0..MaxCalls
           /\ UNCHANGED <<config, file, runtime>>
  <1> DEFINE x == [Free EXCEPT !.op = "update", !.at = "merge", !.payload = p, !.old = config]
  <1>1. /\ req' = [req EXCEPT ![r] = x] /\ req[r].at = "idle"
        /\ UNCHANGED <<rvars, holder, running, current, phase>>
    BY DEF BeginUpdate
  <1>2. x.op = "update" /\ x.at = "merge" /\ x.payload = p /\ x.old = config
    BY DEF Free
  <1>3. x \in Request
    BY ServerAssumption DEF Free, Request, Stages, ServerType
  <1>4. Shape(x)
    BY <1>2 DEF Shape
  <1> HIDE DEF x
  <1>5. LocalTo(r, x)
    BY <1>1, <1>2, <1>3, <1>4 DEF LocalTo
  <1>6. calls' \in 0..MaxCalls
    BY ServerAssumption DEF BeginUpdate, ServerType
  <1>7. PICK o \in BOOLEAN : o = (history.overlapped \/ \E q \in Requests : Updating(q))
    OBVIOUS
  <1>8. history' = [history EXCEPT !.overlapped = o]
    BY <1>7, Zenon DEF BeginUpdate
  <1>9. /\ history'.overlapped = o
        /\ history'.want = history.want
        /\ UNCHANGED <<history.failed, history.saved>>
        /\ history' \in [want : Configs, overlapped : BOOLEAN, failed : BOOLEAN, saved : BOOLEAN]
    BY <1>8 DEF ServerType
  <1> QED
    BY <1>1, <1>2, <1>5, <1>6, <1>7, <1>9 DEF BeginUpdate

LEMMA MergeFacts ==
    ASSUME ServerType, Shapes, NEW r \in Requests, Merge(r)
    PROVE  /\ req[r].at = "merge" /\ req[r].op = "update"
           /\ \/ LocalTo(r, Free)
              \/ \E x : /\ LocalTo(r, x)
                        /\ x.op = "update" /\ x.at = "store"
                        /\ x.payload = req[r].payload /\ x.old = req[r].old
                        /\ x.new = Merged(req[r].payload, req[r].old, config)
           /\ UNCHANGED <<calls, config, file, runtime, history>>
  <1> DEFINE m == Merged(req[r].payload, req[r].old, config)
             x == [req[r] EXCEPT !.at = "store", !.new = m]
  <1>1. /\ req[r] \in Request /\ Shape(req[r]) /\ req[r].at = "merge"
        /\ UNCHANGED <<rvars, holder, running, current, phase>>
        /\ UNCHANGED <<calls, config, file, runtime, history>>
        /\ req' = [req EXCEPT ![r] = Free] \/ req' = [req EXCEPT ![r] = x]
    BY DEF Merge, ServerType, Shapes
  <1>2. req[r].op = "update" /\ req[r].payload \in Payloads
    BY <1>1 DEF Shape
  <1>3. m \in Configs
    BY <1>1, <1>2, MergedType DEF ServerType, Request
  <1> HIDE DEF m
  <1>4. /\ x.op = "update" /\ x.at = "store" /\ x.payload = req[r].payload /\ x.old = req[r].old
        /\ x.new = m
    BY <1>1, <1>2 DEF Request
  <1>5. x \in Request
    BY <1>1, <1>3 DEF Request, Stages
  <1>6. Shape(x)
    BY <1>2, <1>4 DEF Shape
  <1> HIDE DEF x
  <1>7. CASE req' = [req EXCEPT ![r] = Free]
    BY <1>1, <1>2, <1>7, FreeType DEF LocalTo
  <1>8. CASE req' = [req EXCEPT ![r] = x]
    <2>1. LocalTo(r, x)
      BY <1>1, <1>5, <1>6, <1>4, <1>8 DEF LocalTo
    <2> QED
      BY <1>1, <1>2, <1>4, <2>1 DEF m
  <1> QED
    BY <1>1, <1>7, <1>8

\* The stage of r alone changes.
MovesTo(r, at) ==
    \E x : /\ LocalTo(r, x) /\ x.at = at
           /\ x.op = req[r].op /\ x.payload = req[r].payload
           /\ x.old = req[r].old /\ x.new = req[r].new

LEMMA Moves ==
    ASSUME ServerType, Shapes, NEW r \in Requests,
           NEW at \in {"save", "apply", "storage", "restart"},
           req[r].op = "update", req[r].at # "stopping",
           req' = [req EXCEPT ![r].at = at],
           UNCHANGED <<rvars, holder, running, current, phase>>
    PROVE  MovesTo(r, at)
  <1> DEFINE x == [req[r] EXCEPT !.at = at]
  <1>1. req' = [req EXCEPT ![r] = x] /\ req[r] \in Request /\ Shape(req[r])
    BY DEF ServerType, Shapes
  <1>2. /\ x.op = req[r].op /\ x.payload = req[r].payload
        /\ x.old = req[r].old /\ x.new = req[r].new /\ x.at = at
    BY <1>1 DEF Request
  <1>3. x \in Request
    BY <1>1 DEF Request, Stages
  <1>4. Shape(x)
    BY <1>1, <1>2 DEF Shape
  <1> HIDE DEF x
  <1> QED
    BY <1>1, <1>2, <1>3, <1>4 DEF MovesTo, LocalTo

LEMMA StoreFacts ==
    ASSUME ServerType, Shapes, NEW r \in Requests, Store(r)
    PROVE  /\ req[r].at = "store" /\ req[r].op = "update" /\ req[r].payload \in Payloads
           /\ config' = Normalise(req[r].new)
           /\ \E x : /\ LocalTo(r, x)
                     /\ x.op = "update" /\ x.at = "save"
                     /\ x.payload = req[r].payload /\ x.old = req[r].old /\ x.new = config'
           /\ history'.want = Normalise(With(history.want, req[r].payload.set))
           /\ UNCHANGED <<history.overlapped, history.failed, history.saved>>
           /\ history' \in [want : Configs, overlapped : BOOLEAN, failed : BOOLEAN, saved : BOOLEAN]
           /\ config' \in Configs
           /\ UNCHANGED <<calls, file, runtime>>
  <1> DEFINE c == Normalise(req[r].new)
             x == [req[r] EXCEPT !.at = "save", !.new = c]
             w == Normalise(With(history.want, req[r].payload.set))
  <1>1. /\ req[r] \in Request /\ Shape(req[r]) /\ req[r].at = "store"
        /\ UNCHANGED <<rvars, holder, running, current, phase>>
        /\ req' = [req EXCEPT ![r] = x] /\ config' = c
        /\ history' = [history EXCEPT !.want = w]
        /\ UNCHANGED <<calls, file, runtime>>
    BY DEF Store, ServerType, Shapes
  <1>2. req[r].op = "update" /\ req[r].payload \in Payloads
    BY <1>1 DEF Shape
  <1>3. c \in Configs
    BY <1>1, NormaliseType DEF Request
  <1>4. w \in Configs
    BY <1>2, WithType, NormaliseType DEF ServerType
  <1> HIDE DEF c, w
  <1>5. /\ x.op = "update" /\ x.at = "save" /\ x.payload = req[r].payload /\ x.old = req[r].old
        /\ x.new = c
    BY <1>1, <1>2 DEF Request
  <1>6. x \in Request
    BY <1>1, <1>3 DEF Request, Stages
  <1>7. Shape(x)
    BY <1>2, <1>5 DEF Shape
  <1> HIDE DEF x
  <1>8. LocalTo(r, x)
    BY <1>1, <1>5, <1>6, <1>7 DEF LocalTo
  <1>9. /\ history'.want = w
        /\ UNCHANGED <<history.overlapped, history.failed, history.saved>>
        /\ history' \in [want : Configs, overlapped : BOOLEAN, failed : BOOLEAN, saved : BOOLEAN]
    BY <1>1, <1>4 DEF ServerType
  <1>10. /\ \E y : /\ LocalTo(r, y)
                   /\ y.op = "update" /\ y.at = "save"
                   /\ y.payload = req[r].payload /\ y.old = req[r].old /\ y.new = config'
    BY <1>1, <1>5, <1>8
  <1> QED
    BY <1>1, <1>2, <1>3, <1>9, <1>10 DEF c, w

LEMMA SaveFacts ==
    ASSUME ServerType, Shapes, NEW r \in Requests, Save(r)
    PROVE  /\ req[r].at = "save" /\ req[r].op = "update"
           /\ MovesTo(r, "apply")
           /\ file' = config
           /\ UNCHANGED <<history.want, history.overlapped, history.failed>>
           /\ history' \in [want : Configs, overlapped : BOOLEAN, failed : BOOLEAN, saved : BOOLEAN]
           /\ UNCHANGED <<calls, config, runtime>>
  <1>1. Shape(req[r]) /\ req[r].at = "save"
    BY DEF Save, Shapes
  <1>2. req[r].op = "update"
    BY <1>1 DEF Shape
  <1>3. MovesTo(r, "apply")
    BY <1>1, <1>2, Moves DEF Save
  <1>4. /\ UNCHANGED <<history.want, history.overlapped, history.failed>>
        /\ history' \in [want : Configs, overlapped : BOOLEAN, failed : BOOLEAN, saved : BOOLEAN]
    BY DEF Save, ServerType
  <1> QED
    BY <1>1, <1>2, <1>3, <1>4 DEF Save, Saved

LEMMA SaveFailsFacts ==
    ASSUME ServerType, Shapes, NEW r \in Requests, SaveFails(r)
    PROVE  /\ req[r].at = "save" /\ req[r].op = "update"
           /\ LocalTo(r, Free)
           /\ history'.failed /\ ~history'.saved
           /\ history'.want = history.want /\ history'.overlapped = history.overlapped
           /\ history' \in [want : Configs, overlapped : BOOLEAN, failed : BOOLEAN, saved : BOOLEAN]
           /\ UNCHANGED <<calls, config, file, runtime>>
  <1>1. Shape(req[r]) /\ req[r].at = "save"
    BY DEF SaveFails, Shapes
  <1>2. /\ history'.failed /\ ~history'.saved
        /\ history'.want = history.want /\ history'.overlapped = history.overlapped
        /\ history' \in [want : Configs, overlapped : BOOLEAN, failed : BOOLEAN, saved : BOOLEAN]
    BY DEF SaveFails, ServerType
  <1> QED
    BY <1>1, <1>2, FreeType DEF SaveFails, Shape, LocalTo

LEMMA ApplyFacts ==
    ASSUME ServerType, Shapes, NEW r \in Requests, Apply(r)
    PROVE  /\ req[r].at = "apply" /\ req[r].op = "update"
           /\ MovesTo(r, "storage")
           /\ runtime' \in [{"parser", "workers", "retention"} -> Nat]
           /\ runtime'["parser"] = req[r].new["parser"]
           /\ runtime'["workers"] = req[r].new["workers"]
           /\ runtime'["retention"] = runtime["retention"]
           /\ UNCHANGED <<calls, config, file, history>>
  <1>1. req[r] \in Request /\ Shape(req[r]) /\ req[r].at = "apply"
    BY DEF Apply, Shapes, ServerType
  <1>2. req[r].op = "update"
    BY <1>1 DEF Shape
  <1>3. MovesTo(r, "storage")
    BY <1>1, <1>2, Moves DEF Apply
  <1>4. req[r].new["parser"] \in Nat /\ req[r].new["workers"] \in Nat
    BY <1>1, ConfigFacts DEF Request, Fields
  <1>5. runtime' \in [{"parser", "workers", "retention"} -> Nat]
    BY <1>4 DEF Apply, ServerType
  <1>6. /\ runtime'["parser"] = req[r].new["parser"]
        /\ runtime'["workers"] = req[r].new["workers"]
        /\ runtime'["retention"] = runtime["retention"]
    BY DEF Apply, ServerType
  <1> QED
    BY <1>1, <1>2, <1>3, <1>5, <1>6 DEF Apply

LEMMA ApplyStorageFacts ==
    ASSUME ServerType, Shapes, NEW r \in Requests, ApplyStorage(r)
    PROVE  /\ req[r].at = "storage" /\ req[r].op = "update"
           /\ \/ LocalTo(r, Free) /\ ~ReceiverChanged(r)
              \/ MovesTo(r, "restart")
           /\ runtime' \in [{"parser", "workers", "retention"} -> Nat]
           /\ runtime'["parser"] = runtime["parser"]
           /\ runtime'["workers"] = runtime["workers"]
           /\ runtime'["retention"] = StorageAfter(r)
           /\ UNCHANGED <<calls, config, file, history>>
  <1>1. req[r] \in Request /\ Shape(req[r]) /\ req[r].at = "storage"
    BY DEF ApplyStorage, Shapes, ServerType
  <1>2. req[r].op = "update"
    BY <1>1 DEF Shape
  <1>3. (LocalTo(r, Free) /\ ~ReceiverChanged(r)) \/ MovesTo(r, "restart")
    <2>1. CASE ReceiverChanged(r)
      <3>1. req' = [req EXCEPT ![r].at = "restart"]
        BY <2>1 DEF ApplyStorage
      <3> QED
        BY <1>1, <1>2, <3>1, Moves DEF ApplyStorage
    <2>2. CASE ~ReceiverChanged(r)
      BY <1>1, <2>2, FreeType DEF ApplyStorage, LocalTo
    <2> QED
      BY <2>1, <2>2
  <1>4. StorageAfter(r) \in Nat
    BY <1>1, ConfigFacts DEF StorageAfter, Request, Fields, ServerType
  <1>5. /\ runtime' \in [{"parser", "workers", "retention"} -> Nat]
        /\ runtime'["parser"] = runtime["parser"]
        /\ runtime'["workers"] = runtime["workers"]
        /\ runtime'["retention"] = StorageAfter(r)
    BY <1>4 DEF ApplyStorage, ServerType
  <1> QED
    BY <1>1, <1>2, <1>3, <1>5 DEF ApplyStorage

LEMMA CallFacts ==
    ASSUME ServerType, Shapes, NEW r \in Requests, NEW op \in {"start", "stop", "metrics"},
           Call(r, op)
    PROVE  /\ req[r].at = "idle"
           /\ \E x : LocalTo(r, x) /\ x.op = op /\ x.at = "lock"
           /\ calls' \in 0..MaxCalls
           /\ UNCHANGED <<config, file, runtime, history>>
  <1> DEFINE x == [Free EXCEPT !.op = op, !.at = "lock"]
  <1>1. x.op = op /\ x.at = "lock"
    BY DEF Free
  <1>2. x \in Request
    BY ServerAssumption DEF Free, Request, Stages
  <1>3. Shape(x)
    BY <1>1 DEF Shape
  <1>4. calls' \in 0..MaxCalls
    BY ServerAssumption DEF Call, ServerType
  <1>5. req' = [req EXCEPT ![r] = x] /\ req[r].at = "idle"
    BY DEF Call
  <1> HIDE DEF x
  <1>6. LocalTo(r, x)
    BY <1>1, <1>2, <1>3, <1>5 DEF Call, LocalTo
  <1> QED
    BY <1>1, <1>4, <1>5, <1>6 DEF Call

LEMMA AnswerFacts ==
    ASSUME ServerType, Shapes, NEW r \in Requests, AnswerAtOnce(r)
    PROVE  /\ req[r].at = "lock" /\ req[r].op # "update"
           /\ LocalTo(r, Free)
           /\ UNCHANGED <<calls, config, file, runtime, history>>
  BY FreeType DEF AnswerAtOnce, Shapes, Shape, LocalTo

LEMMA LocalStepsControl ==
    ASSUME Control, NEW r \in Requests,
           \/ \E p \in Payloads : BeginUpdate(r, p)
           \/ \E op \in {"start", "stop", "metrics"} : Call(r, op)
           \/ Merge(r) \/ Store(r) \/ Save(r) \/ SaveFails(r) \/ Apply(r) \/ ApplyStorage(r)
           \/ AnswerAtOnce(r)
    PROVE  Control'
  <1>1. /\ ServerType /\ Shapes
        /\ calls \in 0..MaxCalls /\ config \in Configs /\ file \in Configs
        /\ history \in [want : Configs, overlapped : BOOLEAN, failed : BOOLEAN, saved : BOOLEAN]
        /\ runtime \in [{"parser", "workers", "retention"} -> Nat]
    BY DEF Control, ServerType
  <1>2. ASSUME NEW p \in Payloads, BeginUpdate(r, p) PROVE Control'
    BY <1>1, <1>2, BeginUpdateFacts, LocalToControl
  <1>3. ASSUME NEW op \in {"start", "stop", "metrics"}, Call(r, op) PROVE Control'
    BY <1>1, <1>3, CallFacts, LocalToControl
  <1>4. CASE Merge(r)
    BY <1>1, <1>4, MergeFacts, LocalToControl
  <1>5. CASE Store(r)
    BY <1>1, <1>5, StoreFacts, LocalToControl
  <1>6. CASE Save(r)
    BY <1>1, <1>6, SaveFacts, LocalToControl DEF MovesTo
  <1>7. CASE SaveFails(r)
    BY <1>1, <1>7, SaveFailsFacts, LocalToControl
  <1>8. CASE Apply(r)
    BY <1>1, <1>8, ApplyFacts, LocalToControl DEF MovesTo
  <1>9. CASE ApplyStorage(r)
    BY <1>1, <1>9, ApplyStorageFacts, LocalToControl DEF MovesTo
  <1>10. CASE AnswerAtOnce(r)
    BY <1>1, <1>10, AnswerFacts, LocalToControl
  <1> QED
    BY <1>2, <1>3, <1>4, <1>5, <1>6, <1>7, <1>8, <1>9, <1>10

-------------------------------------------------------------------------------
(* Steps under runtimeMu.                                                   *)

LEMMA LockAndStopControl ==
    ASSUME Control, NEW r \in Requests, LockAndStop(r)
    PROVE  Control'
  <1> DEFINE x == [req[r] EXCEPT !.at = "stopping"]
  <1>1. /\ holder = NoOne /\ holder' = r /\ running /\ BeginStop("server", current)
        /\ req' = [req EXCEPT ![r] = x]
        /\ UNCHANGED <<made, mgr, rx, tokens, hits, session,
                       running, current, calls, config, file, runtime, phase, history>>
    BY DEF LockAndStop
  <1>2. /\ "server" \in Stoppers /\ "main" \in Stoppers /\ "server" # "main"
        /\ NoOne \notin Requests
        /\ current \in Gens /\ current = made
    BY ServerAssumption DEF Control, Lock, RInv, ReceiversTypeOK
  <1>3. RInv'
    BY <1>1, <1>2, BeginStopStep DEF Control
  <1>4. /\ stopper'["server"].at = "stop" /\ stopper'["server"].gen = current
        /\ stopper'["main"] = stopper["main"]
    BY <1>1, <1>2 DEF BeginStop, Control, RInv, ReceiversTypeOK
  <1>5. TokensExact'
    BY <1>1 DEF Control, TokensExact, Open
  <1>6. /\ req[r] \in Request /\ Shape(req[r])
        /\ x.at = "stopping" /\ x.op = req[r].op /\ x.payload = req[r].payload /\ x \in Request
    BY DEF Control, ServerType, Shapes, Request, Stages
  <1>7. req[r].at = "restart" \/ (req[r].at = "lock" /\ req[r].op = "stop")
    BY DEF LockAndStop
  <1>8. Shape(x)
    BY <1>6, <1>7 DEF Shape
  <1> HIDE DEF x
  <1>9. /\ req' \in [Requests -> Request] /\ Shapes'
        /\ req'[r] = x /\ \A q \in Requests \ {r} : req'[q] = req[q]
    BY <1>1, <1>6, <1>8, OneRequest DEF Control
  <1>10. ServerType'
    BY <1>1, <1>9 DEF Control, ServerType
  <1>11. Lock'
    BY <1>1, <1>2, <1>4, <1>6, <1>9 DEF Control, Lock
  <1>12. Settled' /\ Phases' /\ SilentMeansMissed'
    BY <1>1, <1>2, <1>4 DEF Control, Lock, Settled, AllOver, Phases, SilentMeansMissed
  <1> QED
    BY <1>3, <1>5, <1>9, <1>10, <1>11, <1>12 DEF Control

LEMMA ShutdownControl ==
    ASSUME Control, Shutdown \/ ShutdownGoesOn
    PROVE  Control'
  <1>1. /\ "server" \in Stoppers /\ "main" \in Stoppers /\ 1 \in Gens
    BY ServerAssumption, ReceiversAssumption DEF Gens
  <1>2. CASE Shutdown
    <2>1. RInv'
      BY <1>1, <1>2, BeginStopStep DEF Shutdown, Control
    <2>2. stopper'["server"] = stopper["server"] /\ phase' = "receivers"
      BY <1>1, <1>2 DEF Shutdown, BeginStop, Control, RInv, ReceiversTypeOK
    <2>3. TokensExact' /\ ServerType' /\ Shapes'
      BY <1>2, <2>2 DEF Shutdown, Control, TokensExact, Open, ServerType, Shapes, Shape
    <2>4. Lock' /\ Settled' /\ Phases' /\ SilentMeansMissed'
      BY <1>2, <2>2 DEF Shutdown, Control, Lock, Settled, AllOver, Phases, SilentMeansMissed
    <2> QED
      BY <2>1, <2>3, <2>4 DEF Control
  <1>3. CASE ShutdownGoesOn
    <2>1. /\ phase' = "closing" /\ phase # "serving"
          /\ UNCHANGED <<rvars, holder, running, current, req, calls, config, file, runtime, history>>
      BY <1>3 DEF ShutdownGoesOn
    <2>2. RInv' /\ TokensExact' /\ ServerType' /\ Shapes'
      BY <2>1 DEF Control, rvars, RInv, ReceiversTypeOK, Fresh, ReceiversOK, SessionsOK,
                  StoppedIsQuiet, Late, TokensExact, Open, ServerType, Shapes, Shape
    <2>3. Lock' /\ Settled' /\ Phases' /\ SilentMeansMissed'
      BY <2>1 DEF rvars, Control, Lock, Settled, AllOver, Phases, SilentMeansMissed
    <2> QED
      BY <2>2, <2>3 DEF Control
  <1> QED
    BY <1>2, <1>3

\* A manager replaces one whose loops are over, and nobody keeps runtimeMu.
LEMMA Replaced ==
    ASSUME Control, NEW kinds \in SUBSET Kinds,
           \/ NewManager(kinds) /\ ~running'
           \/ StartManager(kinds) /\ running',
           Install, AllOver(made), mgr[made].phase # "started",
           holder' = NoOne, stopper' \in [Stoppers -> Stopper],
           stopper'["server"].at = "idle", stopper'["main"] = stopper["main"],
           ServerType', Shapes', \A q \in Requests : req'[q].at # "stopping",
           UNCHANGED phase
    PROVE  Control'
  <1>0. UNCHANGED <<tokens, hits, session>> /\ current' = made + 1
    BY DEF Install
  <1>1. RInv'
    BY <1>0, MakeManager DEF Control, Stopper
  <1>2. /\ made \in Gens /\ made + 1 \in Gens /\ made' = made + 1 /\ Gens \subseteq Nat
        /\ NoOne \notin Requests
    BY ReceiversAssumption, ServerAssumption DEF Control, RInv, ReceiversTypeOK, Gens, NewManager, StartManager
  <1>3. /\ \A g \in Gens : g # made + 1 => mgr'[g] = mgr[g] /\ rx'[g] = rx[g]
        /\ mgr'[made + 1].phase = IF running' THEN "started" ELSE "new"
    BY <1>2 DEF Control, RInv, ReceiversTypeOK, NewManager, StartManager
  <1>4. ~running' => \A k \in Kinds : rx'[made + 1][k].loop \in Over
    <2>1. mgr[made + 1].kinds = {}
      BY <1>2 DEF Control, RInv, Fresh
    <2>2. \A k \in Kinds : rx[made + 1][k].loop = "none"
      BY <1>2, <2>1 DEF Control, RInv, Fresh
    <2>3. ~running' => rx' = rx
      BY DEF NewManager
    <2> QED
      BY <2>2, <2>3 DEF Over
  <1>5. \A k \in Kinds : rx'[made + 1][k].loop # "failed"
    <2>1. CASE running'
      <3>1. StartManager(kinds)
        BY <2>1 DEF NewManager
      <3>2. rx'[made + 1] = [k \in Kinds |-> IF k \in kinds THEN [NoReceiver EXCEPT !.loop = "begin"] ELSE NoReceiver]
        BY <1>2, <3>1 DEF Control, RInv, ReceiversTypeOK, StartManager
      <3>3. [NoReceiver EXCEPT !.loop = "begin"].loop = "begin" /\ NoReceiver.loop = "none"
        BY DEF NoReceiver
      <3> QED
        BY <3>2, <3>3
    <2>2. CASE ~running'
      <3>1. rx' = rx
        BY <2>2 DEF NewManager
      <3>2. \A k \in Kinds : rx[made + 1][k].loop = "none"
        BY <1>2 DEF Control, RInv, Fresh
      <3> QED
        BY <3>1, <3>2
    <2> QED
      BY <2>1, <2>2
  <1>6. TokensExact'
    BY <1>0 DEF Control, TokensExact, Open
  <1>7. Lock'
    BY <1>0, <1>2 DEF Control, Lock
  <1>8. Settled'
    <2>1. \A g \in Gens : g < made' => g # made + 1 /\ \A k \in Kinds : rx[g][k].loop \in Over
      BY <1>2 DEF Control, Settled, AllOver
    <2>2. \A g \in Gens : g < made' => \A k \in Kinds : rx'[g][k].loop \in Over
      BY <1>3, <2>1
    <2> QED
      BY <1>2, <1>4, <2>2 DEF Settled, AllOver
  <1>9. Phases'
    BY <1>2, <1>3 DEF Control, Phases
  <1>10. SilentMeansMissed'
    <2> SUFFICES ASSUME NEW g \in Gens, NEW k \in Kinds, rx'[g][k].loop = "failed"
                 PROVE  \E h \in 1..(g - 1) : rx'[h][k].missed
      BY DEF SilentMeansMissed
    <2>1. g # made + 1 /\ rx'[g] = rx[g]
      BY <1>3, <1>5
    <2>2. g <= made
      BY <2>1, ServingIsMade DEF Control
    <2>3. PICK h \in 1..(g - 1) : rx[h][k].missed
      BY <2>1 DEF Control, SilentMeansMissed
    <2>4. h \in Gens /\ h # made + 1
      BY <1>2, <2>2, ReceiversAssumption DEF Gens
    <2> QED
      BY <1>3, <2>3, <2>4
  <1> QED
    BY <1>1, <1>6, <1>7, <1>8, <1>9, <1>10 DEF Control

\* A request that is done.
LEMMA Done ==
    ASSUME Control, NEW r \in Requests, req' = [req EXCEPT ![r] = Free]
    PROVE  /\ req' \in [Requests -> Request] /\ Shapes'
           /\ req'[r].at = "idle" /\ req'[r] = Free /\ \A q \in Requests \ {r} : req'[q] = req[q]
  BY OneRequest, FreeType DEF Control

LEMMA RestartStoppedControl ==
    ASSUME Control, NEW r \in Requests, RestartStopped(r)
    PROVE  Control'
  <1>1. /\ req[r].new["recv"] \in SUBSET Kinds
    BY ConfigFacts DEF Control, ServerType, Request
  <1>2. /\ req' \in [Requests -> Request] /\ Shapes' /\ req'[r].at = "idle"
        /\ \A q \in Requests \ {r} : req'[q] = req[q]
    BY Done DEF RestartStopped
  <1>3. ServerType'
    BY <1>2 DEF RestartStopped, Control, ServerType
  <1>4. \A q \in Requests : req'[q].at # "stopping"
    BY <1>2, ServerAssumption DEF RestartStopped, Control, Lock
  <1>5. AllOver(made) /\ mgr[made].phase # "started"
    BY DEF RestartStopped, Control, Settled, Phases
  <1>6. stopper' \in [Stoppers -> Stopper] /\ stopper'["server"].at = "idle" /\ stopper'["main"] = stopper["main"]
    BY DEF RestartStopped, Control, Lock, RInv, ReceiversTypeOK, Stopper
  <1> QED
    BY <1>1, <1>2, <1>3, <1>4, <1>5, <1>6, Replaced DEF RestartStopped

LEMMA StartControl ==
    ASSUME Control, NEW r \in Requests, Start(r)
    PROVE  Control'
  <1>1. config["recv"] \in SUBSET Kinds
    BY ConfigFacts DEF Control, ServerType
  <1>2. /\ req' \in [Requests -> Request] /\ Shapes' /\ req'[r].at = "idle"
        /\ \A q \in Requests \ {r} : req'[q] = req[q]
    BY Done DEF Start
  <1>3. ServerType'
    BY <1>2 DEF Start, Control, ServerType
  <1>4. \A q \in Requests : req'[q].at # "stopping"
    BY <1>2, ServerAssumption DEF Start, Control, Lock
  <1>5. AllOver(made) /\ mgr[made].phase # "started"
    BY DEF Start, MayStart, Control, Settled, Phases
  <1>6. stopper' \in [Stoppers -> Stopper] /\ stopper'["server"].at = "idle" /\ stopper'["main"] = stopper["main"]
    BY DEF Start, Control, Lock, RInv, ReceiversTypeOK, Stopper
  <1> QED
    BY <1>1, <1>2, <1>3, <1>4, <1>5, <1>6, Replaced DEF Start

LEMMA UnlockStoppedControl ==
    ASSUME Control, NEW r \in Requests, UnlockStopped(r)
    PROVE  Control'
  <1>1. /\ req[r].new["recv"] \in SUBSET Kinds
    BY ConfigFacts DEF Control, ServerType, Request
  <1>2. /\ req' \in [Requests -> Request] /\ Shapes' /\ req'[r].at = "idle"
        /\ \A q \in Requests \ {r} : req'[q] = req[q]
    BY Done DEF UnlockStopped
  <1>3. /\ holder = r /\ holder' = NoOne /\ running /\ stopper["server"].at = "done"
        /\ stopper["server"].gen = made /\ current = made /\ NoOne \notin Requests
    BY ServerAssumption DEF UnlockStopped, Control, Lock
  <1>4. \A q \in Requests : req'[q].at # "stopping"
    BY <1>2, <1>3 DEF Control, Lock
  <1>5. AllOver(made) /\ mgr[made].phase # "started"
    BY <1>3 DEF Control, Settled, Phases
  <1>6. "server" \in Stoppers /\ "main" \in Stoppers /\ "server" # "main"
    BY ServerAssumption
  <1>7. stopper' \in [Stoppers -> Stopper] /\ stopper'["server"].at = "idle" /\ stopper'["main"] = stopper["main"]
    <2> DEFINE y == [stopper["server"] EXCEPT !.at = "idle"]
    <2>1. stopper \in [Stoppers -> Stopper] /\ y \in Stopper /\ y.at = "idle"
      BY <1>6 DEF Control, RInv, ReceiversTypeOK, Stopper
    <2>2. stopper' = [stopper EXCEPT !["server"] = y]
      BY DEF UnlockStopped
    <2> HIDE DEF y
    <2> QED
      BY <1>6, <2>1, <2>2
  <1>8. CASE Restarts(r)
    <2>1. StartManager(req[r].new["recv"]) /\ Install /\ running'
      BY <1>3, <1>8 DEF UnlockStopped
    <2>2. ServerType'
      BY <1>2, <1>3, <1>8 DEF UnlockStopped, Control, ServerType
    <2> QED
      BY <1>1, <1>2, <1>3, <1>4, <1>5, <1>7, <2>1, <2>2, Replaced DEF UnlockStopped
  <1>9. CASE ~Restarts(r)
    <2>1. ~running' /\ UNCHANGED <<made, mgr, rx, current, tokens, hits, session, phase>>
      BY <1>9 DEF UnlockStopped
    <2>2. ServerType'
      BY <1>2, <1>3, <1>9 DEF UnlockStopped, Control, ServerType
    <2>3. RInv' /\ TokensExact'
      BY <1>7, <2>1 DEF Control, RInv, ReceiversTypeOK, Stopper, Fresh, ReceiversOK, SessionsOK,
                        StoppedIsQuiet, Late, TokensExact, Open
    <2>4. Lock'
      BY <1>3, <1>4, <1>7, <2>1 DEF Control, Lock
    <2>5. Settled' /\ Phases' /\ SilentMeansMissed'
      BY <1>5, <1>7, <2>1 DEF Control, Settled, AllOver, Phases, SilentMeansMissed
    <2> QED
      BY <1>2, <2>2, <2>3, <2>4, <2>5 DEF Control
  <1> QED
    BY <1>8, <1>9

\* Steps of the receivers.  A port is taken by a socket of another manager: of the
\* current one only if this receiver is the one that listens; so of an earlier one,
\* whose loop is over, and which was therefore told to stop before it listened.
LEMMA ReceiversControl ==
    ASSUME Control, ReceiversNext, UNCHANGED svars
    PROVE  Control'
  <1>1. RInv' /\ TokensExact'
    BY ReceiversNextRInv, ReceiversNextTokens DEF Control
  <1>2. ServerType' /\ Shapes' /\ UNCHANGED <<holder, running, current, req, phase>>
    BY DEF svars, Control, ServerType, Shapes, Shape
  <1>3. /\ made' = made
        /\ \A g \in Gens, k \in Kinds : rx[g][k].loop \in Over => rx'[g][k].loop \in Over
        /\ \A g \in Gens, k \in Kinds : rx[g][k].missed => rx'[g][k].missed
        /\ \A w \in Stoppers :
              /\ stopper'[w].gen = stopper[w].gen
              /\ stopper[w].at = "idle" <=> stopper'[w].at = "idle"
              /\ stopper[w].at = "done" => stopper'[w].at = "done"
              /\ (stopper[w].at # "done" /\ stopper'[w].at = "done") =>
                    /\ \A k \in Kinds : rx'[stopper[w].gen][k].loop \in Over
                    /\ mgr'[stopper[w].gen].phase # "started"
        /\ \A g \in Gens :
              \/ mgr'[g].phase = mgr[g].phase
              \/ /\ mgr'[g].phase = "stopped" /\ mgr[g].phase = "started"
                 /\ \E w \in Stoppers : /\ stopper[w].at = "stop" /\ stopper[w].gen = g
                                        /\ stopper'[w].at = "done"
        /\ \A g \in Gens, k \in Kinds :
              (rx[g][k].loop # "failed" /\ rx'[g][k].loop = "failed") => ListenFails(g, k)
    BY ReceiversFrame DEF Control
  <1>4. /\ "server" \in Stoppers /\ "main" \in Stoppers /\ Stoppers = {"server", "main"}
        /\ made \in Gens
        /\ stopper \in [Stoppers -> Stopper] /\ stopper' \in [Stoppers -> Stopper]
    BY <1>1, ServerAssumption DEF Control, RInv, ReceiversTypeOK, Stopper
  <1>5. Lock'
    BY <1>2, <1>3, <1>4 DEF Control, Lock, Stopper
  <1>6. Settled'
    <2>1. \A g \in Gens : g < made' => AllOver(g)'
      BY <1>3 DEF Control, Settled, AllOver
    <2>2. ~running' => \A k \in Kinds : rx'[made][k].loop \in Over
      BY <1>2, <1>3, <1>4 DEF Control, Settled, AllOver
    <2>3. ASSUME stopper'["server"].at = "done"
          PROVE  \A k \in Kinds : rx'[made][k].loop \in Over
      <3>1. CASE stopper["server"].at = "done"
        BY <1>3, <1>4, <3>1 DEF Control, Settled, AllOver
      <3>2. CASE stopper["server"].at # "done"
        <4>1. stopper["server"].gen = made
          BY <1>3, <1>4, <2>3, <3>2 DEF Control, Lock
        <4> QED
          BY <1>3, <1>4, <2>3, <3>2, <4>1
      <3> QED
        BY <3>1, <3>2
    <2> QED
      BY <1>3, <2>1, <2>2, <2>3 DEF Settled, AllOver
  <1>7. Phases'
    <2>1. \A g \in Gens : g < made' => mgr'[g].phase # "started"
      BY <1>3 DEF Control, Phases
    <2>2. ~running' => mgr'[made'].phase # "started"
      BY <1>2, <1>3, <1>4 DEF Control, Phases
    <2>3. ASSUME stopper'["server"].at = "done" PROVE mgr'[made'].phase # "started"
      <3>1. CASE stopper["server"].at = "done"
        BY <1>3, <1>4, <3>1 DEF Control, Phases
      <3>2. CASE stopper["server"].at # "done"
        <4>1. stopper["server"].gen = made
          BY <1>3, <1>4, <2>3, <3>2 DEF Control, Lock
        <4> QED
          BY <1>3, <1>4, <2>3, <3>2, <4>1
      <3> QED
        BY <3>1, <3>2
    <2>4. ASSUME phase' = "serving", running', stopper'["server"].at # "done"
          PROVE  mgr'[made'].phase = "started"
      <3>1. mgr[made].phase = "started" /\ stopper["main"].at = "idle" /\ stopper["server"].at # "done"
        BY <1>2, <1>3, <1>4, <2>4 DEF Control, Phases, Lock
      <3> QED
        BY <1>3, <1>4, <2>4, <3>1
    <2> QED
      BY <2>1, <2>2, <2>3, <2>4 DEF Phases
  <1>8. SilentMeansMissed'
    <2> SUFFICES ASSUME NEW g \in Gens, NEW k \in Kinds, rx'[g][k].loop = "failed"
                 PROVE  \E h \in 1..(g - 1) : rx'[h][k].missed
      BY DEF SilentMeansMissed
    <2>0. Gens \subseteq Nat \ {0} /\ \A h \in 1..(g - 1) : h \in Gens
      BY ReceiversAssumption DEF Gens
    <2>1. CASE rx[g][k].loop = "failed"
      BY <1>3, <2>0, <2>1 DEF Control, SilentMeansMissed
    <2>2. CASE rx[g][k].loop # "failed"
      <3>1. /\ rx[g][k].loop \in {"begin", "created"}
        BY <1>3, <2>2 DEF ListenFails, ReadyToListen
      <3>2. PICK h \in Gens : rx[h][k].sock = "open"
        BY <1>3, <2>2 DEF ListenFails, PortFree
      <3>3. ReceiverOK(rx[h][k])
        BY DEF Control, RInv, ReceiversOK
      <3>4. g = made
        <4>1. g <= made
          BY <3>1, ServingIsMade DEF Control
        <4>2. ~(g < made)
          BY <3>1 DEF Control, Settled, AllOver, Over
        <4> QED
          BY <1>4, <2>0, <4>1, <4>2
      <3>5. rx[h][k].loop \in {"serving", "holding", "ended"}
        BY <3>2, <3>3 DEF ReceiverOK
      <3>6. h <= made /\ h # g
        BY <3>1, <3>5, ServingIsMade DEF Control
      <3>7. h < made
        BY <1>4, <2>0, <3>4, <3>6
      <3>8. rx[h][k].loop = "ended"
        BY <3>5, <3>7 DEF Control, Settled, AllOver, Over
      <3>9. rx[h][k].missed
        BY <3>2, <3>3, <3>8 DEF ReceiverOK
      <3>10. h \in 1..(g - 1)
        BY <2>0, <3>4, <3>7
      <3> QED
        BY <1>3, <3>9, <3>10
    <2> QED
      BY <2>1, <2>2
  <1> QED
    BY <1>1, <1>2, <1>5, <1>6, <1>7, <1>8 DEF Control

LEMMA StepControl == Control /\ [Next]_vars => Control'
  <1> SUFFICES ASSUME Control, [Next]_vars PROVE Control'
    OBVIOUS
  <1>1. ASSUME NEW r \in Requests,
               \/ RequestStep(r)
               \/ \E p \in Payloads : BeginUpdate(r, p)
               \/ \E op \in {"start", "stop", "metrics"} : Call(r, op)
        PROVE  Control'
    BY <1>1, LocalStepsControl, RestartStoppedControl, LockAndStopControl,
       UnlockStoppedControl, StartControl DEF RequestStep
  <1>2. CASE Shutdown \/ ShutdownGoesOn
    BY <1>2, ShutdownControl
  <1>3. CASE ReceiversNext /\ UNCHANGED svars
    BY <1>3, ReceiversControl
  <1>4. CASE UNCHANGED vars
    <2>1. UNCHANGED <<rvars, holder, running, current, phase, req, calls, config, file, runtime, history>>
      BY <1>4 DEF vars, svars
    <2> QED
      BY <2>1, LocalStep DEF Control, ServerType, Shapes, Shape
  <1> QED
    BY <1>1, <1>2, <1>3, <1>4 DEF Next

-------------------------------------------------------------------------------
(* Theorems.                                                                *)

\* What the stages of the requests, the lock, the managers and the receivers'
\* loops have to do with each other, in every reachable state.
THEOREM ControlInvariant == Spec => []Control
  <1>1. Init => Control
    BY InitControl
  <1>2. Control /\ [Next]_vars => Control'
    BY StepControl
  <1> QED
    BY <1>1, <1>2, PTL DEF Spec

\* Types of everything the server and the receivers keep; the tokens in connLimiter
\* (receiver.go) are those of the connections being served.
THEOREM TypeCorrect == Spec => []TypeOK
  <1>1. Control => TypeOK
    <2> SUFFICES ASSUME Control PROVE TypeOK
      OBVIOUS
    <2>1. ReceiversTypeOK /\ TokensExact /\ ServerType /\ current = made /\ made \in Gens
      BY DEF Control, RInv, ReceiversTypeOK, Lock
    <2>2. current \in 1..made
      BY <2>1, ReceiversAssumption DEF Gens
    <2> QED
      BY <2>1, <2>2 DEF ServerType, Request, TypeOK
  <1> QED
    BY <1>1, ControlInvariant, PTL

\* Once Manager.Stop has returned none of the manager's accept loops runs, however
\* many managers, connections and stops there are.
THEOREM StopQuiets == Spec => []StoppedIsQuiet
  <1>1. Control => StoppedIsQuiet
    BY DEF Control, RInv
  <1> QED
    BY <1>1, ControlInvariant, PTL

\* A TCP connection hands over at most one line after its receiver was told to stop.
THEOREM LateLinesBounded == Spec => []LateLines
  <1>1. Control => LateLines
    BY DEF Control, RInv, Late, LateLines
  <1> QED
    BY <1>1, ControlInvariant, PTL

\* receiverRunning (server.go) tells whether the current manager is started, and no
\* replaced manager is left started, whenever runtimeMu is free and main serves.
THEOREM RunningTrue == Spec => []RunningAgrees
  <1>1. Control => RunningAgrees
    <2> SUFFICES ASSUME Control, holder = NoOne, phase = "serving"
                 PROVE  /\ running <=> mgr[current].phase = "started"
                        /\ \A g \in Gens : mgr[g].phase = "started" => g = current
      BY DEF RunningAgrees
    <2>1. /\ current = made /\ stopper["server"].at # "done" /\ made \in Gens /\ Gens \subseteq Nat
          /\ running \in BOOLEAN
      BY ReceiversAssumption DEF Control, Lock, RInv, ReceiversTypeOK, ServerType, Gens
    <2>2. running <=> mgr[current].phase = "started"
      BY <2>1 DEF Control, Phases
    <2>3. \A g \in Gens : g > made => mgr[g].phase = "none"
      BY DEF Control, RInv, Fresh
    <2>4. \A g \in Gens : mgr[g].phase = "started" => ~(g < made) /\ ~(g > made)
      BY <2>3 DEF Control, Phases
    <2> QED
      BY <2>1, <2>2, <2>4
  <1> QED
    BY <1>1, ControlInvariant, PTL

\* A receiver finds its port taken only after an earlier Stop came too early to
\* close that receiver's socket.
THEOREM FailsOnlyWhenMissed == Spec => []SilentMeansMissed
  <1>1. Control => SilentMeansMissed
    BY DEF Control
  <1> QED
    BY <1>1, ControlInvariant, PTL

===============================================================================
