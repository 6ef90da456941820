----------------------------- MODULE Config_proofs -----------------------------
(* Theorems about the stored configuration and what follows it, for every    *)
(* value of Server's constants.                                              *)
EXTENDS Server_proofs

\* r is inside an update and has stored its configuration.
Ahead(r) == /\ req[r].op = "update"
            /\ req[r].at \in {"save", "apply", "storage", "restart", "stopping"}

LEMMA LocalToRequests ==
    ASSUME ServerType, NEW r \in Requests, NEW x, LocalTo(r, x)
    PROVE  req'[r] = x /\ \A q \in Requests \ {r} : req'[q] = req[q]
  BY DEF LocalTo, ServerType

\* Steps beside the updates: a request other than an update begins, waits or ends;
\* an update goes for the lock, or ends under it.
Aside ==
    /\ UNCHANGED <<config, file, runtime, history>>
    /\ \A q \in Requests :
          \/ req'[q] = req[q]
          \/ /\ req[q].at \in {"idle", "lock", "stopping", "restart"}
             /\ \/ req'[q].op # "update" /\ req'[q].at \in {"idle", "lock", "stopping"}
                \/ /\ req[q].op = "update" /\ req'[q].op = "update"
                   /\ req[q].at = "restart" /\ req'[q].at = "stopping"
                   /\ req'[q].old = req[q].old /\ req'[q].new = req[q].new

\* What such a step does to the receivers.
KeepsManager ==
    /\ UNCHANGED running /\ mgr'[current'].kinds = mgr[current].kinds
    /\ \A q \in Requests : Ahead(q) => Ahead(q)'
NewKinds(kinds) == mgr'[current'].kinds = kinds

LEMMA AsideRequest ==
    ASSUME Control, NEW r \in Requests,
           \/ \E op \in {"start", "stop", "metrics"} : Call(r, op)
           \/ AnswerAtOnce(r) \/ LockAndStop(r) \/ RestartStopped(r) \/ UnlockStopped(r) \/ Start(r)
    PROVE  /\ Aside
           /\ \/ KeepsManager
              \/ ~running'
              \/ NewKinds(config["recv"])
              \/ \E q \in Requests : Ahead(q) /\ NewKinds(req[q].new["recv"])
  <1>1. /\ ServerType /\ Shapes /\ Shape(req[r]) /\ req[r] \in Request
        /\ req \in [Requests -> Request] /\ mgr \in [Gens -> Mgr] /\ made \in Gens /\ current = made
        /\ Free.at = "idle" /\ Free.op = "none"
    BY FreeType DEF Control, ServerType, Shapes, RInv, ReceiversTypeOK, Mgr, Lock
  <1>2. CASE (\E op \in {"start", "stop", "metrics"} : Call(r, op)) \/ AnswerAtOnce(r)
    <2>1. PICK x : /\ LocalTo(r, x) /\ x.op # "update" /\ x.at \in {"idle", "lock"}
                   /\ req[r].op # "update" /\ req[r].at \in {"idle", "lock"}
                   /\ UNCHANGED <<config, file, runtime, history>>
      BY <1>1, <1>2, CallFacts, AnswerFacts DEF Shape
    <2>2. /\ req'[r] = x /\ \A q \in Requests \ {r} : req'[q] = req[q]
          /\ UNCHANGED <<mgr, current, running>>
      BY <1>1, <2>1, LocalToRequests DEF LocalTo, rvars
    <2> QED
      BY <2>1, <2>2 DEF Aside, KeepsManager, Ahead
  <1>3. CASE LockAndStop(r)
    <2>1. /\ UNCHANGED <<mgr, current, running, config, file, runtime, history>>
          /\ \A q \in Requests \ {r} : req'[q] = req[q]
          /\ req'[r].at = "stopping" /\ req'[r].op = req[r].op
          /\ req'[r].old = req[r].old /\ req'[r].new = req[r].new
      BY <1>1, <1>3 DEF LockAndStop, Request
    <2>2. \/ req[r].at = "restart" /\ req[r].op = "update"
          \/ req[r].at = "lock" /\ req[r].op = "stop"
      BY <1>1, <1>3 DEF LockAndStop, Shape
    <2> QED
      BY <2>1, <2>2 DEF Aside, KeepsManager, Ahead
  <1>4. CASE RestartStopped(r) \/ UnlockStopped(r) \/ Start(r)
    <2>1. /\ UNCHANGED <<config, file, runtime, history>>
          /\ req' = [req EXCEPT ![r] = Free]
          /\ req[r].at \in {"lock", "stopping", "restart"}
      BY <1>4 DEF RestartStopped, UnlockStopped, Start
    <2>2. req'[r] = Free /\ \A q \in Requests \ {r} : req'[q] = req[q]
      BY <1>1, <2>1
    <2>3. Aside
      BY <1>1, <2>1, <2>2 DEF Aside
    <2>4. ASSUME NEW kinds, StartManager(kinds), Install PROVE NewKinds(kinds)
      <3>1. made + 1 \in Gens
        BY <1>1, <2>4, ReceiversAssumption DEF StartManager, Gens
      <3>2. /\ mgr' = [mgr EXCEPT ![made + 1] = [kinds |-> kinds, phase |-> "started"]]
            /\ current' = made + 1
        BY <2>4 DEF StartManager, Install
      <3> QED
        BY <1>1, <3>1, <3>2 DEF NewKinds
    <2>5. CASE RestartStopped(r)
      BY <2>3, <2>5 DEF RestartStopped
    <2>6. CASE Start(r)
      BY <2>3, <2>4, <2>6 DEF Start
    <2>7. CASE UnlockStopped(r) /\ ~Restarts(r)
      BY <2>3, <2>7 DEF UnlockStopped
    <2>8. CASE UnlockStopped(r) /\ Restarts(r)
      <3>1. Ahead(r)
        BY <2>8 DEF UnlockStopped, Restarts, Ahead
      <3>2. NewKinds(req[r].new["recv"])
        BY <2>4, <2>8 DEF UnlockStopped
      <3> QED
        BY <2>3, <3>1, <3>2
    <2> QED
      BY <1>4, <2>5, <2>6, <2>7, <2>8
  <1> QED
    BY <1>2, <1>3, <1>4

LEMMA AsideOther ==
    ASSUME Control, Shutdown \/ ShutdownGoesOn \/ (ReceiversNext /\ UNCHANGED svars) \/ UNCHANGED vars
    PROVE  Aside /\ KeepsManager
  <1>1. UNCHANGED <<config, file, runtime, history, req, running, current>>
    BY DEF Shutdown, ShutdownGoesOn, svars, vars
  <1>2. current \in Gens
    BY DEF Control, Lock, RInv, ReceiversTypeOK
  <1>3. mgr'[current].kinds = mgr[current].kinds
    <2>1. CASE ReceiversNext
      BY <1>2, <2>1, ReceiversFrame DEF Control
    <2>2. CASE ~ReceiversNext
      BY <2>2 DEF Shutdown, ShutdownGoesOn, vars, rvars
    <2> QED
      BY <2>1, <2>2
  <1> QED
    BY <1>1, <1>3 DEF Aside, KeepsManager, Ahead

\* Every step is one of an update before its lock, or is beside the updates.
LEMMA Steps ==
    ASSUME Control, [Next]_vars
    PROVE  \/ \E r \in Requests :
                 \/ \E p \in Payloads : BeginUpdate(r, p)
                 \/ Merge(r) \/ Store(r) \/ Save(r) \/ SaveFails(r) \/ Apply(r) \/ ApplyStorage(r)
           \/ /\ Aside
              /\ \/ KeepsManager
                 \/ ~running'
                 \/ NewKinds(config["recv"])
                 \/ \E q \in Requests : Ahead(q) /\ NewKinds(req[q].new["recv"])
  BY AsideRequest, AsideOther DEF Next, RequestStep

-------------------------------------------------------------------------------
(* The file.                                                                *)

LEMMA FileStep ==
    ASSUME Control, FileMatchesStored, [Next]_vars
    PROVE  FileMatchesStored'
  <1>0. ServerType /\ Shapes
    BY DEF Control
  <1>1. CASE Aside
    BY <1>1 DEF Aside, FileMatchesStored
  <1>2. ASSUME NEW r \in Requests, NEW p \in Payloads, BeginUpdate(r, p)
        PROVE  FileMatchesStored'
    <2>1. PICK x : LocalTo(r, x) /\ x.at = "merge"
      BY <1>0, <1>2, BeginUpdateFacts
    <2>2. req[r].at = "idle" /\ UNCHANGED <<config, file>> /\ history'.saved = history.saved
      BY <1>0, <1>2, BeginUpdateFacts DEF BeginUpdate
    <2>3. req'[r] = x /\ \A q \in Requests \ {r} : req'[q] = req[q]
      BY <1>0, <2>1, LocalToRequests
    <2> QED
      BY <2>1, <2>2, <2>3 DEF FileMatchesStored
  <1>3. ASSUME NEW r \in Requests, Merge(r) PROVE FileMatchesStored'
    BY <1>0, <1>3, MergeFacts, LocalToRequests DEF FileMatchesStored
  <1>4. ASSUME NEW r \in Requests, Store(r) PROVE FileMatchesStored'
    <2>1. PICK x : LocalTo(r, x) /\ x.at = "save"
      BY <1>0, <1>4, StoreFacts
    <2>2. req'[r].at = "save"
      BY <1>0, <2>1, LocalToRequests
    <2> QED
      BY <2>2 DEF FileMatchesStored
  <1>5. ASSUME NEW r \in Requests, Save(r) PROVE FileMatchesStored'
    BY <1>0, <1>5, SaveFacts DEF FileMatchesStored
  <1>6. ASSUME NEW r \in Requests, SaveFails(r) PROVE FileMatchesStored'
    BY <1>0, <1>6, SaveFailsFacts DEF FileMatchesStored
  <1>7. ASSUME NEW r \in Requests, Apply(r) PROVE FileMatchesStored'
    BY <1>0, <1>7, ApplyFacts, LocalToRequests DEF FileMatchesStored, MovesTo
  <1>8. ASSUME NEW r \in Requests, ApplyStorage(r) PROVE FileMatchesStored'
    BY <1>0, <1>8, ApplyStorageFacts, LocalToRequests DEF FileMatchesStored, MovesTo
  <1> QED
    BY <1>1, <1>2, <1>3, <1>4, <1>5, <1>6, <1>7, <1>8, Steps

\* Once a save has succeeded, and whenever none is due and the last one to end did
\* not fail, config.json holds the stored configuration, for any number of updates
\* that overtake each other: SaveToFile (config.go) writes what is stored when it
\* runs, so the last one to run is right.  Before the first save the file holds what
\* main loaded, which normalize*Config may have changed in memory only.
THEOREM FileFollows == Spec => []FileMatchesStored
  <1>1. Init => FileMatchesStored
    BY DEF Init, FileMatchesStored
  <1>2. Control /\ FileMatchesStored /\ [Next]_vars => FileMatchesStored'
    BY FileStep
  <1> QED
    BY <1>1, <1>2, ControlInvariant, PTL DEF Spec

-------------------------------------------------------------------------------
(* Updates that do not overlap.                                             *)

Composed ==
    ~history.overlapped =>
        /\ config = history.want
        /\ \A r, q \in Requests : Updating(r) /\ Updating(q) => r = q
        /\ \A r \in Requests : req[r].at \in {"merge", "store"} => req[r].old = config
        /\ \A r \in Requests :
              req[r].at = "store" => req[r].new = With(config, req[r].payload.set)
        /\ \A r \in Requests : Ahead(r) => req[r].new = config

\* Merging over the copy the token was taken from changes the named fields alone.
LEMMA MergedOverOne ==
    ASSUME NEW p \in Payloads, NEW c \in Configs
    PROVE  Merged(p, c, c) = With(c, p.set)
  <1> DEFINE w == With(c, p.set)
             t == IF "token" \notin DOMAIN p.set /\ DOMAIN p.set \cap ServerSection # {}
                  THEN c["token"] ELSE w["token"]
  <1>1. w = [f \in Fields |-> IF f \in DOMAIN p.set THEN p.set[f] ELSE c[f]]
    BY DEF With
  <1>2. t = w["token"]
    BY <1>1 DEF Fields
  <1>3. Merged(p, c, c) = [w EXCEPT !["token"] = t]
    BY DEF Merged
  <1>4. w = [f \in Fields |-> w[f]]
    BY <1>1
  <1> HIDE DEF w, t
  <1>5. [w EXCEPT !["token"] = t] = w
    BY <1>2, <1>4
  <1> QED
    BY <1>3, <1>5 DEF w

LEMMA ComposedStep ==
    ASSUME Control, Composed, [Next]_vars
    PROVE  Composed'
  <1>0. ServerType /\ Shapes /\ \A r \in Requests : Shape(req[r])
    BY DEF Control, Shapes
  <1> SUFFICES ASSUME ~history'.overlapped PROVE Composed'
    BY DEF Composed
  <1>1. CASE Aside
    <2>1. ~history.overlapped
      BY <1>1 DEF Aside
    <2>2. \A q \in Requests : /\ Updating(q)' => Updating(q)
                              /\ req'[q].at \in {"merge", "store"} => req'[q] = req[q]
                              /\ Ahead(q)' => Ahead(q) /\ req'[q].new = req[q].new
      BY <1>0, <1>1 DEF Aside, Updating, Ahead
    <2> QED
      BY <1>1, <2>1, <2>2 DEF Composed, Aside
  <1>2. ASSUME NEW r \in Requests, NEW p \in Payloads, BeginUpdate(r, p) PROVE Composed'
    <2>1. PICK x : /\ LocalTo(r, x)
                   /\ x.op = "update" /\ x.at = "merge" /\ x.payload = p /\ x.old = config
      BY <1>0, <1>2, BeginUpdateFacts
    <2>2. req'[r] = x /\ \A q \in Requests \ {r} : req'[q] = req[q]
      BY <1>0, <2>1, LocalToRequests
    <2>3. /\ ~history.overlapped /\ \A q \in Requests : ~Updating(q)
          /\ history'.want = history.want /\ config' = config
      BY <1>0, <1>2, BeginUpdateFacts DEF Control, ServerType
    <2>4. \A q \in Requests \ {r} : ~Updating(q)' /\ ~Ahead(q)' /\ req'[q].at \notin {"merge", "store"}
      BY <1>0, <2>2, <2>3 DEF Updating, Ahead, Shape
    <2>5. ~Ahead(r)'
      BY <2>1, <2>2 DEF Ahead
    <2> QED
      BY <2>1, <2>2, <2>3, <2>4, <2>5 DEF Composed
  <1>3. ASSUME NEW r \in Requests, NEW x, LocalTo(r, x),
               Updating(r), ~history.overlapped
        PROVE  /\ req'[r] = x /\ \A q \in Requests \ {r} : req'[q] = req[q]
               /\ \A q \in Requests \ {r} :
                     ~Updating(q)' /\ ~Ahead(q)' /\ req'[q].at \notin {"merge", "store"}
    <2>1. req'[r] = x /\ \A q \in Requests \ {r} : req'[q] = req[q]
      BY <1>0, <1>3, LocalToRequests
    <2>2. \A q \in Requests \ {r} : ~Updating(q)
      BY <1>3 DEF Composed
    <2> QED
      BY <1>0, <2>1, <2>2 DEF Updating, Ahead, Shape
  <1>4. ASSUME NEW r \in Requests, Merge(r) PROVE Composed'
    <2>1. /\ req[r].at = "merge" /\ Updating(r) /\ req[r].payload \in Payloads /\ config \in Configs
          /\ UNCHANGED <<config, history>>
      BY <1>0, <1>4, MergeFacts DEF Updating, Shape, ServerType
    <2>2. req[r].old = config /\ ~history.overlapped
      BY <2>1 DEF Composed
    <2>3. PICK x : /\ LocalTo(r, x)
                   /\ \/ x = Free
                      \/ /\ x.op = "update" /\ x.at = "store"
                         /\ x.payload = req[r].payload /\ x.old = req[r].old
                         /\ x.new = Merged(req[r].payload, req[r].old, config)
      BY <1>0, <1>4, MergeFacts
    <2>4. CASE x = Free
      <3>1. req'[r].at = "idle" /\ req'[r].op = "none"
        BY <1>3, <2>1, <2>2, <2>3, <2>4, FreeType
      <3> QED
        BY <1>3, <2>1, <2>2, <2>3, <3>1 DEF Composed, Updating, Ahead
    <2>5. CASE x # Free
      <3>1. req'[r].at = "store" /\ req'[r].old = config
            /\ req'[r].new = With(config, req'[r].payload.set)
        BY <1>3, <2>1, <2>2, <2>3, <2>5, MergedOverOne
      <3> QED
        BY <1>3, <2>1, <2>2, <2>3, <3>1 DEF Composed, Ahead
    <2> QED
      BY <2>4, <2>5
  <1>5. ASSUME NEW r \in Requests, Store(r) PROVE Composed'
    <2>1. /\ req[r].at = "store" /\ Updating(r) /\ ~history.overlapped
          /\ config' = Normalise(req[r].new)
          /\ history'.want = Normalise(With(history.want, req[r].payload.set))
      BY <1>0, <1>5, StoreFacts DEF Updating
    <2>2. PICK x : LocalTo(r, x) /\ x.op = "update" /\ x.at = "save" /\ x.new = config'
      BY <1>0, <1>5, StoreFacts
    <2>3. config' = history'.want
      BY <2>1 DEF Composed
    <2> QED
      BY <1>3, <2>1, <2>2, <2>3 DEF Composed
  <1>6. ASSUME NEW r \in Requests, NEW x, LocalTo(r, x), Ahead(r),
               UNCHANGED config, history'.want = history.want, ~history.overlapped,
               \/ x = Free
               \/ /\ x.op = "update" /\ x.new = req[r].new
                  /\ x.at \in {"apply", "storage", "restart"}
        PROVE  Composed'
    <2>1. Updating(r) /\ req[r].new = config
      BY <1>6 DEF Ahead, Updating, Composed
    <2>2. Ahead(r)' => x.new = config
      BY <1>3, <1>6, <2>1, FreeType DEF Ahead
    <2>3. x.at \notin {"merge", "store"}
      BY <1>6, FreeType
    <2> QED
      BY <1>3, <1>6, <2>1, <2>2, <2>3 DEF Composed
  <1>7. ASSUME NEW r \in Requests, Save(r) \/ Apply(r) \/ ApplyStorage(r) \/ SaveFails(r)
        PROVE  Composed'
    <2>1. /\ Ahead(r) /\ UNCHANGED config /\ history'.want = history.want /\ ~history.overlapped
      BY <1>0, <1>7, SaveFacts, ApplyFacts, ApplyStorageFacts, SaveFailsFacts DEF Ahead
    <2>2. PICK x : /\ LocalTo(r, x)
                   /\ \/ x = Free
                      \/ /\ x.op = req[r].op /\ x.new = req[r].new
                         /\ x.at \in {"apply", "storage", "restart"}
      BY <1>0, <1>7, SaveFacts, ApplyFacts, ApplyStorageFacts, SaveFailsFacts DEF MovesTo
    <2> QED
      BY <1>6, <2>1, <2>2 DEF Ahead
  <1> QED
    BY <1>1, <1>2, <1>4, <1>5, <1>7, Steps

\* Updates of which none begins while another is in progress compose: each changes
\* exactly the fields its body names and keeps the write token unless it names one.
THEOREM UpdatesComposeAlways == Spec => []UpdatesCompose
  <1>1. Init => Composed
    <2> SUFFICES ASSUME Init PROVE Composed
      OBVIOUS
    <2>1. /\ config = history.want
          /\ \A r \in Requests : req[r].at = "idle" /\ req[r].op = "none"
      BY FreeType DEF Init
    <2> QED
      BY <2>1 DEF Composed, Updating, Ahead
  <1>2. Control /\ Composed /\ [Next]_vars => Composed'
    BY ComposedStep
  <1>3. Composed => UpdatesCompose
    BY DEF Composed, UpdatesCompose
  <1> QED
    BY <1>1, <1>2, <1>3, ControlInvariant, PTL DEF Spec

-------------------------------------------------------------------------------
(* What follows the stored configuration.                                   *)

Caught ==
    /\ runtime = Applied(config)
    /\ running => mgr[current].kinds = config["recv"]

\* How far r has come: which of its two copies parser, processor and storage, and
\* receivers were last given.
ParserIn(r)  == IF req[r].at \in {"save", "apply"} THEN req[r].old ELSE req[r].new
StorageIn(r) == IF req[r].at \in {"save", "apply", "storage"} THEN req[r].old ELSE req[r].new
Catching(r) ==
    /\ runtime["parser"] = ParserIn(r)["parser"] /\ runtime["workers"] = ParserIn(r)["workers"]
    /\ runtime["retention"] = StorageIn(r)["retention"]
    /\ running /\ req[r].at # "stopping" =>
          mgr[current].kinds \in {req[r].old["recv"], req[r].new["recv"]}

Followed ==
    ~history.overlapped /\ ~history.failed =>
        /\ \A r \in Requests : Ahead(r) => Catching(r)
        /\ (\A r \in Requests : ~Ahead(r)) => Caught

LEMMA RuntimeIs ==
    ASSUME ServerType, NEW c,
           runtime["parser"] = c["parser"], runtime["workers"] = c["workers"],
           runtime["retention"] = c["retention"]
    PROVE  runtime = Applied(c)
  BY DEF ServerType, Applied

LEMMA OneAhead ==
    ASSUME Control, Composed, ~history.overlapped,
           NEW r \in Requests, NEW q \in Requests, Ahead(r), Ahead(q)
    PROVE  r = q
  BY DEF Composed, Ahead, Updating

LEMMA FollowedAside ==
    ASSUME Control, Composed, Followed, Aside,
           \/ KeepsManager
           \/ ~running'
           \/ NewKinds(config["recv"])
           \/ \E q \in Requests : Ahead(q) /\ NewKinds(req[q].new["recv"])
    PROVE  Followed'
  <1> SUFFICES ASSUME ~history'.overlapped, ~history'.failed
               PROVE  /\ \A r \in Requests : Ahead(r)' => Catching(r)'
                      /\ (\A r \in Requests : ~Ahead(r)') => Caught'
    BY DEF Followed
  <1>0. /\ ~history.overlapped /\ ~history.failed
        /\ UNCHANGED <<config, runtime>> /\ ServerType
    BY DEF Aside, Control
  <1>1. \A q \in Requests : Ahead(q) => Catching(q) /\ req[q].new = config
    BY <1>0 DEF Followed, Composed
  <1>2. ASSUME NEW r \in Requests, Ahead(r)' PROVE Catching(r)'
    <2>1. /\ Ahead(r)
          /\ req'[r].old = req[r].old /\ req'[r].new = req[r].new
          /\ req'[r].at = req[r].at \/ (req[r].at = "restart" /\ req'[r].at = "stopping")
      BY <1>2 DEF Aside, Ahead
    <2>2. /\ runtime'["parser"] = ParserIn(r)'["parser"] /\ runtime'["workers"] = ParserIn(r)'["workers"]
          /\ runtime'["retention"] = StorageIn(r)'["retention"]
      BY <1>0, <1>1, <2>1 DEF Catching, ParserIn, StorageIn
    <2>3. ASSUME running', req'[r].at # "stopping"
          PROVE  mgr'[current'].kinds \in {req'[r].old["recv"], req'[r].new["recv"]}
      <3>1. CASE KeepsManager
        BY <1>1, <2>1, <2>3, <3>1 DEF KeepsManager, Catching
      <3>2. CASE NewKinds(config["recv"])
        BY <1>1, <2>1, <3>2 DEF NewKinds
      <3>3. CASE \E q \in Requests : Ahead(q) /\ NewKinds(req[q].new["recv"])
        BY <1>0, <2>1, <3>3, OneAhead DEF NewKinds
      <3> QED
        BY <2>3, <3>1, <3>2, <3>3
    <2> QED
      BY <2>2, <2>3 DEF Catching
  <1>3. ASSUME \A r \in Requests : ~Ahead(r)' PROVE Caught'
    <2>1. CASE \E r \in Requests : Ahead(r)
      <3>1. PICK r \in Requests : Ahead(r)
        BY <2>1
      <3>2. req[r].at \in {"stopping", "restart"} /\ req[r].new = config /\ Catching(r)
        BY <1>1, <1>3, <3>1 DEF Aside, Ahead
      <3>3. runtime = Applied(config)
        BY <1>0, <3>2, RuntimeIs DEF Catching, ParserIn, StorageIn
      <3>4. runtime' = Applied(config)'
        BY <1>0, <3>3 DEF Applied
      <3>5. running' => mgr'[current'].kinds = config["recv"]
        BY <1>1, <1>3, <3>1 DEF KeepsManager, NewKinds
      <3> QED
        BY <1>0, <3>4, <3>5 DEF Caught
    <2>2. CASE \A r \in Requests : ~Ahead(r)
      <3>1. Caught
        BY <1>0, <2>2 DEF Followed
      <3>2. running' => mgr'[current'].kinds = config["recv"]
        BY <2>2, <3>1 DEF Caught, KeepsManager, NewKinds
      <3> QED
        BY <1>0, <3>1, <3>2 DEF Caught, Applied
    <2> QED
      BY <2>1, <2>2
  <1> QED
    BY <1>2, <1>3

LEMMA FollowedUpdate ==
    ASSUME Control, Composed, Followed, NEW r \in Requests,
           \/ \E p \in Payloads : BeginUpdate(r, p)
           \/ Merge(r) \/ Store(r) \/ Save(r) \/ SaveFails(r) \/ Apply(r) \/ ApplyStorage(r)
    PROVE  Followed'
  <1> SUFFICES ASSUME ~history'.overlapped, ~history'.failed
               PROVE  /\ \A q \in Requests : Ahead(q)' => Catching(q)'
                      /\ (\A q \in Requests : ~Ahead(q)') => Caught'
    BY DEF Followed
  <1>0. ServerType /\ Shapes /\ Shape(req[r]) /\ config \in Configs
    BY DEF Control, ServerType, Shapes
  <1>1. PICK x : LocalTo(r, x)
    BY <1>0, BeginUpdateFacts, MergeFacts, StoreFacts, SaveFacts, SaveFailsFacts, ApplyFacts,
       ApplyStorageFacts DEF MovesTo
  <1>2. /\ req'[r] = x /\ \A q \in Requests \ {r} : req'[q] = req[q]
        /\ UNCHANGED <<running, current, mgr>>
    BY <1>0, <1>1, LocalToRequests DEF LocalTo, rvars
  <1>3. ~history.overlapped /\ ~history.failed
    BY <1>0, BeginUpdateFacts, MergeFacts, StoreFacts, SaveFacts, SaveFailsFacts, ApplyFacts,
       ApplyStorageFacts DEF ServerType
  <1>4. \A q \in Requests \ {r} : ~Ahead(q)
    <2>1. CASE \E p \in Payloads : BeginUpdate(r, p)
      BY <1>0, <2>1, BeginUpdateFacts DEF Ahead, Updating, ServerType
    <2>2. CASE ~\E p \in Payloads : BeginUpdate(r, p)
      <3>1. Updating(r)
        BY <1>0, <2>2, MergeFacts, StoreFacts, SaveFacts, SaveFailsFacts, ApplyFacts,
           ApplyStorageFacts DEF Updating
      <3> QED
        BY <1>3, <3>1 DEF Composed, Updating, Ahead
    <2> QED
      BY <2>1, <2>2
  <1>5. \A q \in Requests \ {r} : ~Ahead(q)'
    BY <1>2, <1>4 DEF Ahead
  <1>6. /\ Ahead(r) => Catching(r) /\ req[r].new = config
        /\ ~Ahead(r) => Caught
    BY <1>3, <1>4 DEF Followed, Composed
  <1>7. CASE \E p \in Payloads : BeginUpdate(r, p)
    <2>1. /\ ~Ahead(r) /\ ~Ahead(r)' /\ UNCHANGED <<config, runtime>>
      BY <1>0, <1>7, BeginUpdateFacts, LocalToRequests DEF Ahead
    <2> QED
      BY <1>2, <1>5, <1>6, <2>1 DEF Caught, Applied
  <1>8. CASE Merge(r)
    <2>1. /\ ~Ahead(r) /\ ~Ahead(r)' /\ UNCHANGED <<config, runtime>>
      BY <1>0, <1>8, MergeFacts, LocalToRequests, FreeType DEF Ahead
    <2> QED
      BY <1>2, <1>5, <1>6, <2>1 DEF Caught, Applied
  <1>9. CASE Store(r)
    <2>1. /\ ~Ahead(r) /\ req[r].old = config /\ UNCHANGED runtime
          /\ req'[r].at = "save" /\ req'[r].op = "update" /\ req'[r].old = config
      BY <1>0, <1>3, <1>9, StoreFacts, LocalToRequests DEF Ahead, Composed
    <2>2. Caught
      BY <1>6, <2>1
    <2>3. Catching(r)' /\ Ahead(r)'
      BY <1>2, <2>1, <2>2 DEF Caught, Catching, Ahead, ParserIn, StorageIn, Applied
    <2> QED
      BY <1>5, <2>3
  <1>10. ASSUME NEW at \in {"apply", "storage", "restart"}, MovesTo(r, at), UNCHANGED config
         PROVE  /\ req'[r].at = at /\ req'[r].op = req[r].op
                /\ req'[r].old = req[r].old /\ req'[r].new = req[r].new
    BY <1>0, <1>10, LocalToRequests DEF MovesTo
  <1>11. CASE Save(r)
    <2>1. /\ Ahead(r) /\ req[r].at = "save" /\ MovesTo(r, "apply") /\ UNCHANGED <<config, runtime>>
      BY <1>0, <1>11, SaveFacts DEF Ahead
    <2>2. Catching(r)' /\ Ahead(r)'
      BY <1>2, <1>6, <1>10, <2>1 DEF Catching, Ahead, ParserIn, StorageIn
    <2> QED
      BY <1>5, <2>2
  <1>12. CASE SaveFails(r)
    BY <1>0, <1>12, SaveFailsFacts
  <1>13. CASE Apply(r)
    <2>1. /\ Ahead(r) /\ req[r].at = "apply" /\ MovesTo(r, "storage") /\ UNCHANGED config
          /\ runtime'["parser"] = req[r].new["parser"]
          /\ runtime'["workers"] = req[r].new["workers"]
          /\ runtime'["retention"] = runtime["retention"]
      BY <1>0, <1>13, ApplyFacts DEF Ahead
    <2>2. Catching(r)' /\ Ahead(r)'
      BY <1>2, <1>6, <1>10, <2>1 DEF Catching, Ahead, ParserIn, StorageIn
    <2> QED
      BY <1>5, <2>2
  <1>14. CASE ApplyStorage(r)
    <2>1. /\ Ahead(r) /\ req[r].at = "storage" /\ UNCHANGED config
          /\ runtime'["parser"] = runtime["parser"]
          /\ runtime'["workers"] = runtime["workers"]
          /\ runtime'["retention"] = StorageAfter(r)
          /\ \/ LocalTo(r, Free) /\ ~ReceiverChanged(r)
             \/ MovesTo(r, "restart")
          /\ runtime' \in [{"parser", "workers", "retention"} -> Nat]
      BY <1>0, <1>14, ApplyStorageFacts DEF Ahead
    <2>2. runtime["retention"] = req[r].old["retention"]
      BY <1>6, <2>1 DEF Catching, StorageIn
    <2>3. /\ runtime'["parser"] = req[r].new["parser"]
          /\ runtime'["workers"] = req[r].new["workers"]
          /\ runtime'["retention"] = req[r].new["retention"]
      BY <1>6, <2>1, <2>2 DEF Catching, ParserIn, StorageAfter
    <2>4. CASE MovesTo(r, "restart")
      <3>1. Catching(r)' /\ Ahead(r)'
        BY <1>2, <1>6, <1>10, <2>1, <2>3, <2>4 DEF Catching, Ahead, ParserIn, StorageIn
      <3> QED
        BY <1>5, <3>1
    <2>5. CASE LocalTo(r, Free) /\ ~ReceiverChanged(r)
      <3>1. ~Ahead(r)'
        BY <1>0, <2>5, LocalToRequests, FreeType DEF Ahead
      <3>2. runtime' = Applied(config)'
        BY <1>6, <2>1, <2>3 DEF Applied
      <3>3. running' => mgr'[current'].kinds = config'["recv"]
        BY <1>2, <1>6, <2>1, <2>5 DEF Catching, ReceiverChanged
      <3> QED
        BY <1>5, <3>1, <3>2, <3>3 DEF Caught
    <2> QED
      BY <2>1, <2>4, <2>5
  <1> QED
    BY <1>7, <1>8, <1>9, <1>11, <1>12, <1>13, <1>14

\* When no request is in progress, after updates of which none overlapped and none
\* failed to save, parser, processor, storage and the running receivers have the
\* stored configuration, also after starts and stops between storing and applying.
THEOREM RuntimeFollowsAlways == Spec => []RuntimeFollows
  <1>1. Init => Composed /\ Followed
    <2> SUFFICES ASSUME Init PROVE Composed /\ Followed
      OBVIOUS
    <2>1. /\ config = history.want
          /\ \A r \in Requests : req[r].at = "idle" /\ req[r].op = "none"
      BY FreeType DEF Init
    <2>2. Caught
      <3>1. runtime = Applied(config) /\ current = 1 /\ ReceiversInit(config["recv"]) /\ 1 \in Gens
        BY ReceiversAssumption DEF Init, Gens
      <3> QED
        BY <3>1 DEF Caught, ReceiversInit
    <2> QED
      BY <2>1, <2>2 DEF Composed, Followed, Updating, Ahead
  <1>2. Control /\ Composed /\ Followed /\ [Next]_vars => Composed' /\ Followed'
    BY ComposedStep, FollowedAside, FollowedUpdate, Steps
  <1>3. Control /\ Followed => RuntimeFollows
    BY DEF Control, Followed, RuntimeFollows, Caught, Ahead
  <1> QED
    BY <1>1, <1>2, <1>3, ControlInvariant, PTL DEF Spec

===============================================================================
