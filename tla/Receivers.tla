------------------------------- MODULE Receivers -------------------------------
(***************************************************************************)
(* The receivers (src/internal/receiver/receiver.go): managers, and in each *)
(* a TCP, a UDP and an HTTP receiver that hand lines to the processor.      *)
(*                                                                         *)
(* Every change of the receiver configuration makes a new Manager, so the   *)
(* state is a function of the manager's number (its generation).  A         *)
(* manager's Start spawns one goroutine per receiver and returns at once;   *)
(* Stop may come before that goroutine has opened its socket, and what an   *)
(* open TCP connection or an HTTP request still hands over comes after it.  *)
(* All configurations use the same port for a kind.  Lines are not modelled *)
(* themselves, only that one is handed over.                                *)
(***************************************************************************)
EXTENDS Integers, FiniteSets

CONSTANTS MaxGen,          \* bound: managers that are ever made
          Sessions,        \* bound: TCP connections and HTTP requests
          Posts,           \* the requests clients may send to /logs
          MaxConnections,  \* capacity of TCPReceiver.connLimiter
          RateLimit,       \* requests per minute and address, 0: no limit
          MaxLines,        \* lines in one request
          Stoppers         \* callers of Manager.Stop

Kinds == {"tcp", "udp", "http"}
Gens == 1..MaxGen
Post == [ip : STRING, allowed : BOOLEAN, token : BOOLEAN, fits : BOOLEAN, lines : Nat]

ASSUME ReceiversAssumption ==
    /\ MaxGen \in Nat \ {0} /\ MaxConnections \in Nat \ {0}
    /\ RateLimit \in Nat /\ MaxLines \in Nat
    /\ Posts \subseteq Post /\ IsFiniteSet(Sessions)

VARIABLES
    made,      \* managers made so far
    mgr,       \* per manager: the receivers it is configured for, its phase
    rx,        \* per manager and kind: the receiver and its goroutine
    tokens,    \* per manager: what is in connLimiter
    hits,      \* per manager: HTTPReceiver.requestCount
    session,   \* TCP connections and HTTP requests
    stopper    \* the calls of Manager.Stop

rvars == <<made, mgr, rx, tokens, hits, session, stopper>>

NoReceiver == [loop |-> "none", cancelled |-> FALSE, sock |-> "none", missed |-> FALSE]
Idle == [at |-> "idle", kind |-> "tcp", gen |-> 1, left |-> 0, late |-> 0]
Ips == {p.ip : p \in Posts}

\* loop: "begin" the goroutine has not opened its socket, "created" the HTTP
\* server is stored, "serving", "holding" a UDP datagram, "ended", or "failed"
\* to listen.  missed is history: a Stop came before there was a socket to close.
ReceiversTypeOK ==
    /\ made \in Gens
    /\ mgr \in [Gens -> [kinds : SUBSET Kinds, phase : {"none", "new", "started", "stopped"}]]
    /\ rx \in [Gens -> [Kinds ->
                [loop : {"none", "begin", "created", "serving", "holding", "ended", "failed"},
                 cancelled : BOOLEAN, sock : {"none", "open", "closed"}, missed : BOOLEAN]]]
    /\ tokens \in [Gens -> 0..MaxConnections]
    /\ hits \in [Gens -> [Ips -> Nat]]
    /\ session \in [Sessions -> [at : {"idle", "top", "read", "sending", "end"},
                                 kind : {"tcp", "http"}, gen : Gens,
                                 left : Nat, late : Nat]]
    /\ stopper \in [Stoppers -> [at : {"idle", "stop", "done"}, gen : Gens,
                                 todo : SUBSET Kinds]]

ReceiversInit(kinds) ==
    /\ made = 1
    /\ mgr = [g \in Gens |-> IF g = 1 THEN [kinds |-> kinds, phase |-> "started"]
                                      ELSE [kinds |-> {}, phase |-> "none"]]
    /\ rx = [g \in Gens |-> [k \in Kinds |->
                IF g = 1 /\ k \in kinds THEN [NoReceiver EXCEPT !.loop = "begin"]
                                        ELSE NoReceiver]]
    /\ tokens = [g \in Gens |-> 0]
    /\ hits = [g \in Gens |-> [ip \in Ips |-> 0]]
    /\ session = [s \in Sessions |-> Idle]
    /\ stopper = [w \in Stoppers |-> [at |-> "idle", gen |-> 1, todo |-> {}]]

-------------------------------------------------------------------------------
\* Manager

\* NewManager alone: the manager is not started.
NewManager(kinds) ==
    /\ made < MaxGen
    /\ made' = made + 1
    /\ mgr' = [mgr EXCEPT ![made + 1] = [kinds |-> kinds, phase |-> "new"]]
    /\ UNCHANGED rx

\* NewManager and Start: a goroutine is spawned for each enabled receiver.
StartManager(kinds) ==
    /\ made < MaxGen
    /\ made' = made + 1
    /\ mgr' = [mgr EXCEPT ![made + 1] = [kinds |-> kinds, phase |-> "started"]]
    /\ rx' = [rx EXCEPT ![made + 1] = [k \in Kinds |->
                 IF k \in kinds THEN [NoReceiver EXCEPT !.loop = "begin"] ELSE NoReceiver]]

\* Manager.Stop begins.  Cancelling the manager's context does nothing: no
\* receiver looks at it.
BeginStop(w, g) ==
    stopper' = [stopper EXCEPT ![w] =
        [at |-> "stop", gen |-> g,
         todo |-> IF mgr[g].phase = "new" THEN {} ELSE mgr[g].kinds]]

\* The receivers in the order of m.receivers.
First(kinds) == CHOOSE k \in kinds : /\ k = "http" => kinds = {"http"}
                                     /\ k = "udp" => "tcp" \notin kinds

\* The receiver's Start has stored the listener, the connection or the server.
Published(r) == r.loop \notin {"none", "begin", "failed"}

\* Stop of one receiver.  TCP and UDP: cancel and close what is stored; the loop
\* cannot tell the two apart, so they are one step.  HTTP: Shutdown, and only if
\* there is a server.  Shutdown waits at most five seconds for requests in
\* progress, which only delays the steps after it.
CloseReceiver_NotTcp(k, r) ==
    IF k = "udp" \/ (k = "http" /\ Published(r))
    THEN [r EXCEPT !.cancelled = TRUE, !.sock = IF @ = "open" THEN "closed" ELSE @]
    ELSE [r EXCEPT !.cancelled = k = "tcp"]
CloseReceiver_NotCancelled(k, r) ==
    IF Published(r) /\ k # "http"
    THEN [r EXCEPT !.sock = IF @ = "open" THEN "closed" ELSE @]
    ELSE [r EXCEPT !.cancelled = TRUE, !.missed = ~Published(r)]
CloseReceiver(k, r) ==
    IF Published(r)
    THEN [r EXCEPT !.cancelled = TRUE, !.sock = IF @ = "open" THEN "closed" ELSE @]
    ELSE [r EXCEPT !.cancelled = k # "http", !.missed = TRUE]

StopReceiver(w) ==
    LET g == stopper[w].gen
        k == First(stopper[w].todo)
    IN  /\ stopper[w].at = "stop" /\ stopper[w].todo # {}
        /\ rx' = [rx EXCEPT ![g][k] = CloseReceiver(k, @)]
        /\ stopper' = [stopper EXCEPT ![w].todo = @ \ {k}]
        /\ UNCHANGED <<made, mgr, tokens, hits, session>>

Over == {"none", "ended", "failed"}

\* m.wg: the goroutines that Start spawned, one for each receiver.
Awaited_NotHttp(g) == mgr[g].kinds \ {"http"}
Awaited(g) == mgr[g].kinds

\* wg.Wait returns; Manager.Stop is over.
StopReturns(w) ==
    /\ stopper[w].at = "stop" /\ stopper[w].todo = {}
    /\ \A k \in Awaited(stopper[w].gen) : rx[stopper[w].gen][k].loop \in Over
    /\ stopper' = [stopper EXCEPT ![w].at = "done"]
    /\ mgr' = [mgr EXCEPT ![stopper[w].gen].phase = IF @ = "started" THEN "stopped" ELSE @]
    /\ UNCHANGED <<made, rx, tokens, hits, session>>

-------------------------------------------------------------------------------
\* The goroutines of the receivers

PortFree(k) == \A g \in Gens : rx[g][k].sock # "open"

\* HTTPReceiver.Start makes and stores the server before it listens.
Create(g) ==
    /\ rx[g]["http"].loop = "begin"
    /\ rx' = [rx EXCEPT ![g]["http"].loop = "created"]
    /\ UNCHANGED <<made, mgr, tokens, hits, session, stopper>>

ReadyToListen(g, k) == rx[g][k].loop = IF k = "http" THEN "created" ELSE "begin"

\* ListenAndServe returns at once when the server has been shut down.
ShutDownFirst(g, k) == k = "http" /\ rx[g][k].cancelled

\* Listen, and the store of the listener, before anything looks at the context.
Listen(g, k) ==
    /\ ReadyToListen(g, k) /\ ~ShutDownFirst(g, k) /\ PortFree(k)
    /\ rx' = [rx EXCEPT ![g][k].loop = "serving", ![g][k].sock = "open"]
    /\ UNCHANGED <<made, mgr, tokens, hits, session, stopper>>

\* The port is taken: Start returns the error, the goroutine logs it and ends.
ListenFails(g, k) ==
    /\ ReadyToListen(g, k) /\ ~ShutDownFirst(g, k) /\ ~PortFree(k)
    /\ rx' = [rx EXCEPT ![g][k].loop = "failed"]
    /\ UNCHANGED <<made, mgr, tokens, hits, session, stopper>>

\* The loop finds the context done, at its top or after an error of the closed
\* socket (at most a second later); Serve returns ErrServerClosed.
LoopEnds(g, k) ==
    /\ rx[g][k].cancelled
    /\ rx[g][k].loop = "serving" \/ (ReadyToListen(g, k) /\ ShutDownFirst(g, k))
    /\ rx' = [rx EXCEPT ![g][k].loop = "ended"]
    /\ UNCHANGED <<made, mgr, tokens, hits, session, stopper>>

\* A listener nobody closed is closed when its manager has become unreachable
\* and is collected.  The first one is referred to by main for ever.
Collect(g, k) ==
    /\ rx[g][k].sock = "open" /\ rx[g][k].loop = "ended" /\ 1 < g /\ g < made
    /\ rx' = [rx EXCEPT ![g][k].sock = "closed"]
    /\ UNCHANGED <<made, mgr, tokens, hits, session, stopper>>

\* UDP: a datagram is read, then handed over; only then is the context looked at.
Datagram(g) ==
    /\ rx[g]["udp"].loop = "serving" /\ rx[g]["udp"].sock = "open" /\ ~rx[g]["udp"].cancelled
    /\ rx' = [rx EXCEPT ![g]["udp"].loop = "holding"]
    /\ UNCHANGED <<made, mgr, tokens, hits, session, stopper>>

HandDatagram(g) ==
    /\ rx[g]["udp"].loop = "holding"
    /\ rx' = [rx EXCEPT ![g]["udp"].loop = "serving"]
    /\ UNCHANGED <<made, mgr, tokens, hits, session, stopper>>

-------------------------------------------------------------------------------
\* TCP connections

Accepts(g, k) == rx[g][k].loop = "serving" /\ rx[g][k].sock = "open"

Limit_OneMore(g) == tokens[g] <= MaxConnections
Limit(g) == tokens[g] < MaxConnections

Connect(s, g) ==
    /\ session[s].at = "idle" /\ Accepts(g, "tcp") /\ ~rx[g]["tcp"].cancelled
    /\ IF Limit(g)
       THEN /\ session' = [session EXCEPT ![s] = [Idle EXCEPT !.at = "top", !.gen = g]]
            /\ tokens' = [tokens EXCEPT ![g] = @ + 1]
       ELSE /\ session' = [session EXCEPT ![s] = [Idle EXCEPT !.at = "end", !.gen = g]]
            /\ UNCHANGED tokens
    /\ UNCHANGED <<made, mgr, rx, hits, stopper>>

\* The context is looked at before each line only; a read has no deadline.
MustLeave_Never(s) == FALSE
MustLeave(s) == rx[session[s].gen]["tcp"].cancelled

ConnTop(s) ==
    /\ session[s].at = "top" /\ ~MustLeave(s)
    /\ session' = [session EXCEPT ![s].at = "read"]
    /\ UNCHANGED <<made, mgr, rx, tokens, hits, stopper>>

\* One line handed over: late when the receiver had been told to stop.
Hand(s) == session[s].late + (IF rx[session[s].gen][session[s].kind].cancelled THEN 1 ELSE 0)

ConnLine(s) ==
    /\ session[s].at = "read"
    /\ session' = [session EXCEPT ![s].at = "top", ![s].late = Hand(s)]
    /\ UNCHANGED <<made, mgr, rx, tokens, hits, stopper>>

\* The deferred receive from connLimiter.
TokensAfter_Kept(g) == tokens[g]
TokensAfter(g) == IF tokens[g] > 0 THEN tokens[g] - 1 ELSE 0

\* The context is done, or the client closes or breaks the connection.
ConnEnds(s) ==
    /\ \/ session[s].at = "top" /\ MustLeave(s)
       \/ session[s].at = "read"
    /\ session' = [session EXCEPT ![s].at = "end"]
    /\ tokens' = [tokens EXCEPT ![session[s].gen] = TokensAfter(session[s].gen)]
    /\ UNCHANGED <<made, mgr, rx, hits, stopper>>

-------------------------------------------------------------------------------
\* HTTP requests to /logs

\* checkRateLimit counts the request, unless there is no limit.
Counted(g, p) == IF RateLimit > 0 THEN [hits[g] EXCEPT ![p.ip] = @ + 1] ELSE hits[g]
WithinRate(h, p) == RateLimit > 0 => h[p.ip] <= RateLimit

\* handleLogs refuses a request before it hands over any line; the checks of
\* the address and of the token come before the request is counted.
Receive(s, g, p) ==
    LET known == p.allowed /\ p.token
        counted == IF known THEN Counted(g, p) ELSE hits[g]
        good == known /\ WithinRate(counted, p) /\ p.fits /\ p.lines <= MaxLines
    IN  /\ session[s].at = "idle" /\ Accepts(g, "http")
        /\ hits' = [hits EXCEPT ![g] = counted]
        /\ session' = [session EXCEPT ![s] =
                [at |-> IF good THEN "sending" ELSE "end", kind |-> "http", gen |-> g,
                 left |-> IF good THEN p.lines ELSE 0, late |-> 0]]
        /\ UNCHANGED <<made, mgr, rx, tokens, stopper>>

\* Each line goes to the handler, whose answer is not looked at.
SendLine(s) ==
    /\ session[s].at = "sending" /\ session[s].left > 0
    /\ session' = [session EXCEPT ![s].left = @ - 1, ![s].late = Hand(s)]
    /\ UNCHANGED <<made, mgr, rx, tokens, hits, stopper>>

Answer(s) ==
    /\ session[s].at = "sending" /\ session[s].left = 0
    /\ session' = [session EXCEPT ![s].at = "end"]
    /\ UNCHANGED <<made, mgr, rx, tokens, hits, stopper>>

\* A minute has passed since lastReset: the next request clears the counts.
Minute(g) ==
    /\ Accepts(g, "http") /\ \E ip \in Ips : hits[g][ip] > 0
    /\ hits' = [hits EXCEPT ![g] = [ip \in Ips |-> 0]]
    /\ UNCHANGED <<made, mgr, rx, tokens, session, stopper>>

-------------------------------------------------------------------------------
StopperStep(w) == StopReceiver(w) \/ StopReturns(w)

LoopStep(g, k) == \/ k = "http" /\ Create(g)
                  \/ Listen(g, k) \/ ListenFails(g, k) \/ LoopEnds(g, k)
                  \/ k = "udp" /\ HandDatagram(g)

HandlerStep(s) == ConnTop(s) \/ SendLine(s) \/ Answer(s)

ClientStep(s) ==
    \/ \E g \in Gens : Connect(s, g) \/ \E p \in Posts : Receive(s, g, p)
    \/ ConnLine(s) \/ ConnEnds(s)

ReceiversNext ==
    \/ \E w \in Stoppers : StopperStep(w)
    \/ \E g \in Gens, k \in Kinds : LoopStep(g, k) \/ Collect(g, k)
    \/ \E g \in Gens : Datagram(g) \/ Minute(g)
    \/ \E s \in Sessions : HandlerStep(s) \/ ClientStep(s)

-------------------------------------------------------------------------------
\* Properties

\* Connections a manager's TCP receiver serves.
Open(g) == {s \in Sessions : session[s].gen = g /\ session[s].at \in {"top", "read"}}

\* The tokens in connLimiter are those of the connections being served, over
\* every way in which handleConnection returns: the limit never shrinks for good.
TokensExact == \A g \in Gens : tokens[g] = Cardinality(Open(g))

\* Once Manager.Stop has returned, none of its accept loops runs, whenever the
\* goroutines Start spawned have come round to opening their sockets.
StoppedIsQuiet ==
    \A g \in Gens, k \in Kinds : mgr[g].phase = "stopped" => rx[g][k].loop \in Over

\* A connection that is open when its receiver stops (handleConnection is not
\* in the wait group) hands over one more line at most.
LateLines == \A s \in Sessions : session[s].kind = "tcp" => session[s].late <= 1

\* A receiver fails to listen on its own program's account only when an earlier
\* Stop came before that receiver had stored its socket, and left the port bound.
SilentMeansMissed ==
    \A g \in Gens, k \in Kinds :
        rx[g][k].loop = "failed" => \E h \in 1..(g - 1) : rx[h][k].missed

\* An HTTP receiver that was stopped before it had made its server: it serves on,
\* and its manager's Stop waits for it.
Hung(g) == /\ rx[g]["http"].missed /\ ~rx[g]["http"].cancelled
           /\ rx[g]["http"].loop \notin Over
===============================================================================
