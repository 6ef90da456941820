-------------------------------- MODULE Server --------------------------------
(***************************************************************************)
(* The API server's runtime control (src/internal/server/server.go), the    *)
(* stored configuration (src/internal/config/config.go) and main's shutdown *)
(* (src/cmd/server/main.go), composed with the receivers.                   *)
(*                                                                         *)
(* POST /api/config, /api/receiver/start and /stop and GET /metrics run     *)
(* on goroutines of their own.  runtimeMu covers s.receiver and             *)
(* s.receiverRunning; config.mu covers one Get, one Update or one save, and *)
(* nothing covers the three together.  main's shutdown knows neither.       *)
(*                                                                         *)
(* Of each configuration section the model keeps a field that some handler  *)
(* tells apart; port stands for the fields of "server" other than the token. *)
(***************************************************************************)
EXTENDS Receivers

CONSTANTS Requests,       \* goroutines of the API
          Payloads,       \* bodies of POST /api/config
          MaxCalls,       \* bound: requests made
          InitialConfig,  \* what config.json holds when main loads it
          Defaults        \* what normalize*Config puts for a value of zero or less

Fields == {"port", "token", "parser", "workers", "retention", "recv"}
ServerSection == {"port", "token"}
Configs == [port : Nat, token : Nat, parser : Nat, workers : Nat, retention : Nat,
            recv : SUBSET Kinds]
With(c, set) == [f \in Fields |-> IF f \in DOMAIN set THEN set[f] ELSE c[f]]
NoPayload == [set |-> <<>>, bad |-> FALSE]
NoOne == "nobody"

\* set: the fields the payload names.  bad: a section after "server" does not
\* have the type of its fields.
ASSUME ServerAssumption ==
    /\ MaxCalls \in Nat /\ MaxCalls < MaxGen /\ Stoppers = {"server", "main"}
    /\ NoOne \notin Requests
    /\ InitialConfig \in Configs
    /\ DOMAIN Defaults \subseteq Fields \ {"recv"}
    /\ \A f \in DOMAIN Defaults : Defaults[f] \in Nat \ {0}
    /\ \A p \in Payloads : /\ p.bad \in BOOLEAN /\ DOMAIN p.set \subseteq Fields
                          /\ With(InitialConfig, p.set) \in Configs

VARIABLES
    holder,    \* who holds runtimeMu
    running,   \* s.receiverRunning
    current,   \* the manager s.receiver points to
    req,       \* the requests in progress
    calls,     \* requests made so far
    config,    \* the stored configuration
    file,      \* what config.json holds
    runtime,   \* what parser and processor, and the storage, were last given
    phase,     \* main and its shutdown
    history    \* of the updates, see below

svars == <<holder, running, current, req, calls, config, file, runtime, phase, history>>
vars == <<rvars, svars>>

Free == [op |-> "none", at |-> "idle", payload |-> NoPayload,
         old |-> InitialConfig, new |-> InitialConfig]

\* normalize*Config: zero (or less) in a field that has a default is replaced.
Normalise(c) == [f \in Fields |-> IF f \in DOMAIN Defaults /\ c[f] = 0 THEN Defaults[f] ELSE c[f]]

Applied(c) == [f \in {"parser", "workers", "retention"} |-> c[f]]

\* main normalises what it loads and does not write it back.
\* history.want: what the updates accepted so far ask for, applied one after the
\* other; overlapped: two updates were in progress together; failed: a save failed;
\* saved: there was a save, and the last one to end succeeded.
Init ==
    LET c == Normalise(InitialConfig) IN
    /\ ReceiversInit(c["recv"])
    /\ holder = NoOne /\ running = TRUE /\ current = 1
    /\ req = [r \in Requests |-> Free] /\ calls = 0
    /\ config = c /\ file = InitialConfig /\ runtime = Applied(c)
    /\ phase = "serving"
    /\ history = [want |-> c, overlapped |-> FALSE, failed |-> FALSE, saved |-> FALSE]

Updating(r) == req[r].op = "update" /\ req[r].at # "idle"

-------------------------------------------------------------------------------
\* POST /api/config

\* updateConfig binds the payload and takes its first copy of the configuration.
BeginUpdate(r, p) ==
    /\ req[r].at = "idle" /\ calls < MaxCalls
    /\ calls' = calls + 1
    /\ req' = [req EXCEPT ![r] = [Free EXCEPT !.op = "update", !.at = "merge",
                                              !.payload = p, !.old = config]]
    /\ history' = [history EXCEPT !.overlapped = @ \/ \E q \in Requests : Updating(q)]
    /\ UNCHANGED <<rvars, holder, running, current, config, file, runtime, phase>>

\* The payload over a second copy; a "server" section without a token gets the
\* token of the first copy.
Merged_TokenWiped(p, old, now) ==
    [With(now, p.set) EXCEPT !["token"] =
        IF "token" \notin DOMAIN p.set /\ "port" \in DOMAIN p.set THEN 0 ELSE @]
Merged(p, old, now) ==
    [With(now, p.set) EXCEPT !["token"] =
        IF "token" \notin DOMAIN p.set /\ DOMAIN p.set \cap ServerSection # {}
        THEN old["token"] ELSE @]

Merge(r) ==
    /\ req[r].at = "merge"
    /\ req' = [req EXCEPT ![r] =
          IF req[r].payload.bad THEN Free
          ELSE [@ EXCEPT !.at = "store", !.new = Merged(req[r].payload, req[r].old, config)]]
    /\ UNCHANGED <<rvars, holder, running, current, calls, config, file, runtime, phase, history>>

\* config.Update normalises the merged copy in place and stores it.
Store(r) ==
    LET c == Normalise(req[r].new) IN
    /\ req[r].at = "store"
    /\ config' = c
    /\ req' = [req EXCEPT ![r].at = "save", ![r].new = c]
    /\ history' = [history EXCEPT !.want = Normalise(With(@, req[r].payload.set))]
    /\ UNCHANGED <<rvars, holder, running, current, calls, file, runtime, phase>>

\* SaveToFile writes the configuration as it is stored by now.
Saved_Own(r) == req[r].new
Saved(r) == config

Save(r) ==
    /\ req[r].at = "save"
    /\ file' = Saved(r)
    /\ req' = [req EXCEPT ![r].at = "apply"]
    /\ history' = [history EXCEPT !.saved = TRUE]
    /\ UNCHANGED <<rvars, holder, running, current, calls, config, runtime, phase>>

\* The file cannot be opened: the request ends, the configuration is stored but
\* not applied.
SaveFails(r) ==
    /\ req[r].at = "save"
    /\ req' = [req EXCEPT ![r] = Free]
    /\ history' = [history EXCEPT !.failed = TRUE, !.saved = FALSE]
    /\ UNCHANGED <<rvars, holder, running, current, calls, config, file, runtime, phase>>

\* parser.SetConfig, processor.UpdateConfig and SetParser.
Apply(r) ==
    /\ req[r].at = "apply"
    /\ runtime' = [runtime EXCEPT !["parser"] = req[r].new["parser"],
                                  !["workers"] = req[r].new["workers"]]
    /\ req' = [req EXCEPT ![r].at = "storage"]
    /\ UNCHANGED <<rvars, holder, running, current, calls, config, file, phase, history>>

\* compareReceiverConfig of the two copies.
ReceiverChanged(r) == req[r].old["recv"] # req[r].new["recv"]

\* The storage is told of a change only.  Unchanged receivers end the request.
StorageAfter_Old(r) == req[r].old["retention"]
StorageAfter(r) ==
    IF req[r].old["retention"] # req[r].new["retention"] THEN req[r].new["retention"]
    ELSE runtime["retention"]

ApplyStorage(r) ==
    /\ req[r].at = "storage"
    /\ runtime' = [runtime EXCEPT !["retention"] = StorageAfter(r)]
    /\ req' = [req EXCEPT ![r] = IF ReceiverChanged(r) THEN [@ EXCEPT !.at = "restart"] ELSE Free]
    /\ UNCHANGED <<rvars, holder, running, current, calls, config, file, phase, history>>

-------------------------------------------------------------------------------
\* runtimeMu: restartReceivers, start, stop and metrics

\* s.receiver = NewManager; the sessions and stops of other managers go on.
Install ==
    /\ current' = made + 1
    /\ UNCHANGED <<tokens, hits, session>>

\* restartReceivers while the receivers are stopped: a manager nobody starts.
RestartStopped(r) ==
    /\ req[r].at = "restart" /\ holder = NoOne /\ ~running
    /\ NewManager(req[r].new["recv"]) /\ Install
    /\ req' = [req EXCEPT ![r] = Free]
    /\ UNCHANGED <<stopper, holder, running, calls, config, file, runtime, phase, history>>

\* The lock is taken and Manager.Stop called: by restartReceivers or by
\* stopReceiver, if the receivers run.
LockAndStop(r) ==
    /\ req[r].at = "restart" \/ (req[r].at = "lock" /\ req[r].op = "stop")
    /\ holder = NoOne /\ running
    /\ holder' = r
    /\ BeginStop("server", current)
    /\ req' = [req EXCEPT ![r].at = "stopping"]
    /\ UNCHANGED <<made, mgr, rx, tokens, hits, session,
                   running, current, calls, config, file, runtime, phase, history>>

\* Manager.Stop has returned; restartReceivers starts the next manager before it
\* lets go of the lock.
Restarts_Always(r) == TRUE
Restarts(r) == req[r].op = "update"

UnlockStopped(r) ==
    /\ req[r].at = "stopping" /\ stopper["server"].at = "done"
    /\ stopper' = [stopper EXCEPT !["server"].at = "idle"]
    /\ holder' = NoOne
    /\ req' = [req EXCEPT ![r] = Free]
    /\ IF Restarts(r)
       THEN StartManager(req[r].new["recv"]) /\ Install /\ UNCHANGED running
       ELSE running' = FALSE /\ UNCHANGED <<made, mgr, rx, current, tokens, hits, session>>
    /\ UNCHANGED <<calls, config, file, runtime, phase, history>>

Call(r, op) ==
    /\ req[r].at = "idle" /\ calls < MaxCalls
    /\ calls' = calls + 1
    /\ req' = [req EXCEPT ![r] = [Free EXCEPT !.op = op, !.at = "lock"]]
    /\ UNCHANGED <<rvars, holder, running, current, config, file, runtime, phase, history>>

\* startReceiver, under the lock, with the configuration stored by now.
MayStart_Always == TRUE
MayStart == ~running

Start(r) ==
    /\ req[r].at = "lock" /\ req[r].op = "start" /\ holder = NoOne /\ MayStart
    /\ StartManager(config["recv"]) /\ Install
    /\ running' = TRUE
    /\ req' = [req EXCEPT ![r] = Free]
    /\ UNCHANGED <<stopper, holder, calls, config, file, runtime, phase, history>>

\* "already running", "already stopped", or the metrics.
AnswerAtOnce(r) ==
    /\ req[r].at = "lock" /\ holder = NoOne
    /\ \/ req[r].op = "start" /\ ~MayStart
       \/ req[r].op = "stop" /\ ~running
       \/ req[r].op = "metrics"
    /\ req' = [req EXCEPT ![r] = Free]
    /\ UNCHANGED <<rvars, holder, running, current, calls, config, file, runtime, phase, history>>

-------------------------------------------------------------------------------
\* main

\* A signal, or "exit" on the console: shutdown stops the manager main made, with
\* no lock and while the API goes on.
Shutdown ==
    /\ phase = "serving"
    /\ phase' = "receivers"
    /\ BeginStop("main", 1)
    /\ UNCHANGED <<made, mgr, rx, tokens, hits, session,
                   holder, running, current, req, calls, config, file, runtime, history>>

\* "[OK] receivers stopped"; the processor and the storage are stopped next.
ShutdownGoesOn ==
    /\ phase = "receivers" /\ stopper["main"].at = "done"
    /\ phase' = "closing"
    /\ UNCHANGED <<rvars, holder, running, current, req, calls, config, file, runtime, history>>

-------------------------------------------------------------------------------
RequestStep(r) ==
    \/ Merge(r) \/ Store(r) \/ Save(r) \/ SaveFails(r) \/ Apply(r) \/ ApplyStorage(r)
    \/ RestartStopped(r) \/ LockAndStop(r) \/ UnlockStopped(r) \/ Start(r) \/ AnswerAtOnce(r)

Next ==
    \/ \E r \in Requests : \/ RequestStep(r)
                           \/ \E p \in Payloads : BeginUpdate(r, p)
                           \/ \E op \in {"start", "stop", "metrics"} : Call(r, op)
    \/ Shutdown \/ ShutdownGoesOn
    \/ ReceiversNext /\ UNCHANGED svars

Spec == Init /\ [][Next]_vars

\* Every goroutine the program spawned runs; clients, API users and signals need not.
Fairness ==
    /\ \A r \in Requests : WF_vars(RequestStep(r))
    /\ \A w \in Stoppers : WF_vars(StopperStep(w) /\ UNCHANGED svars)
    /\ \A g \in Gens, k \in Kinds : WF_vars(LoopStep(g, k) /\ UNCHANGED svars)
    /\ WF_vars(ShutdownGoesOn)

FairSpec == Spec /\ Fairness

-------------------------------------------------------------------------------
\* Properties

\* Types, and the receivers' invariant on connection tokens.
TypeOK ==
    /\ ReceiversTypeOK
    /\ holder \in Requests \cup {NoOne} /\ running \in BOOLEAN /\ current \in 1..made
    /\ calls \in 0..MaxCalls
    /\ {config, file, history.want} \subseteq Configs
    /\ runtime \in [{"parser", "workers", "retention"} -> Nat]
    /\ phase \in {"serving", "receivers", "closing"}
    /\ \A r \in Requests : {req[r].old, req[r].new} \subseteq Configs
    /\ TokensExact

\* While main serves and nobody is inside runtimeMu, receiverRunning says whether
\* the current manager is started, and no replaced manager is left started,
\* whatever order starts, stops and restarts arrived in.
RunningAgrees ==
    (holder = NoOne /\ phase = "serving") =>
        /\ running <=> mgr[current].phase = "started"
        /\ \A g \in Gens : mgr[g].phase = "started" => g = current

\* Once a save has succeeded, and whenever none is due and the last one to end did
\* not fail, config.json is what is stored: updates that overtake each other between
\* storing and saving leave no older one in it.
FileMatchesStored ==
    (history.saved /\ \A r \in Requests : req[r].at # "save") => file = config

\* Updates that never overlapped compose: each changes the fields it names, to
\* what it asks for, and keeps the write token unless it names it.
UpdatesCompose == ~history.overlapped => config = history.want

\* When all is quiet, with no overlap of updates and no failed save, parser,
\* processor, storage and the running receivers have the stored configuration:
\* also after starts and stops between storing it and applying it.
RuntimeFollows ==
    (/\ \A r \in Requests : req[r].at = "idle"
     /\ ~history.overlapped /\ ~history.failed) =>
        /\ runtime = Applied(config)
        /\ running => mgr[current].kinds = config["recv"]

\* Every request is answered, unless it waits for a manager that was stopped
\* before its HTTP receiver had made its server: Stop waits for it under runtimeMu.
RequestsReturn ==
    \A r \in Requests :
        req[r].at # "idle" ~> (req[r].at = "idle" \/ \E g \in Gens : Hung(g))

\* main's log: "receivers stopped", before the processor and the storage stop.
ShutdownStopsReceivers ==
    phase = "closing" =>
        \A g \in Gens, k \in Kinds : rx[g][k].loop \notin {"serving", "holding"}
===============================================================================
