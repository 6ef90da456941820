--------------------------- MODULE Receivers_proofs ---------------------------
(* Theorems about Receivers, for every value of its constants.              *)
EXTENDS Receivers, FiniteSetTheorems, TLAPS

Receiver ==
    [loop : {"none", "begin", "created", "serving", "holding", "ended", "failed"},
     cancelled : BOOLEAN, sock : {"none", "open", "closed"}, missed : BOOLEAN]

\* What the fields of one receiver have to do with each other.  The second
\* conjunct: a socket that is open although the receiver was told to stop was
\* opened after a Stop that found none.
ReceiverOK(r) ==
    /\ r.sock = "open" => r.loop \in {"serving", "holding", "ended"}
    /\ r.cancelled /\ (r.sock = "open" \/ r.loop = "begin") => r.missed
    /\ r.loop = "ended" => r.cancelled

\* What a step may do to the receiver of kind k.
ReceiverStep(k, a, b) ==
    /\ ReceiverOK(a) => ReceiverOK(b)
    /\ a.loop \in Over => b.loop = a.loop
    /\ k = "tcp" /\ a.cancelled => b.cancelled
    /\ a.missed => b.missed

\* Managers that are not made yet, and receivers a manager is not configured for.
Fresh ==
    /\ \A g \in Gens : g > made => mgr[g] = [kinds |-> {}, phase |-> "none"]
    /\ \A g \in Gens, k \in Kinds : k \notin mgr[g].kinds => rx[g][k].loop = "none"

ReceiversOK == \A g \in Gens, k \in Kinds : ReceiverOK(rx[g][k])

SessionsOK ==
    \A s \in Sessions :
        /\ session[s].gen <= made
        /\ session[s].at \in {"top", "read"} => session[s].kind = "tcp"
        /\ session[s].at = "sending" => session[s].kind = "http"

\* A connection in a read has handed over nothing late so far; once it has, the
\* look at the context before the next read ends it.
Late ==
    \A s \in Sessions : session[s].kind = "tcp" =>
        /\ session[s].late <= 1
        /\ session[s].at = "read" => session[s].late = 0
        /\ session[s].late > 0 => rx[session[s].gen]["tcp"].cancelled

RInv ==
    /\ ReceiversTypeOK /\ Fresh /\ ReceiversOK /\ SessionsOK
    /\ StoppedIsQuiet /\ Late

-------------------------------------------------------------------------------
(* Steps of one receiver.                                                   *)

LEMMA RxType ==
    ReceiversTypeOK <=>
        /\ made \in Gens
        /\ mgr \in [Gens -> [kinds : SUBSET Kinds, phase : {"none", "new", "started", "stopped"}]]
        /\ rx \in [Gens -> [Kinds -> Receiver]]
        /\ tokens \in [Gens -> 0..MaxConnections]
        /\ hits \in [Gens -> [Ips -> Nat]]
        /\ session \in [Sessions -> [at : {"idle", "top", "read", "sending", "end"},
                                 kind : {"tcp", "http"}, gen : Gens,
                                 left : Nat, late : Nat]]
        /\ stopper \in [Stoppers -> [at : {"idle", "stop", "done"}, gen : Gens,
                                 todo : SUBSET Kinds]]
  BY DEF ReceiversTypeOK, Receiver

\* Some receiver, and only one, makes a step; everything else of RInv's but
\* the stoppers stays.
OneReceiver ==
    /\ rx' \in [Gens -> [Kinds -> Receiver]]
    /\ \A g \in Gens, k \in Kinds : ReceiverStep(k, rx[g][k], rx'[g][k])
    /\ UNCHANGED <<made, mgr, session>>

LEMMA Changed ==
    ASSUME rx \in [Gens -> [Kinds -> Receiver]],
           NEW g \in Gens, NEW k \in Kinds, NEW x \in Receiver,
           ReceiverStep(k, rx[g][k], x),
           rx' = [rx EXCEPT ![g][k] = x],
           UNCHANGED <<made, mgr, session>>
    PROVE  OneReceiver
  <1>1. rx' \in [Gens -> [Kinds -> Receiver]]
    OBVIOUS
  <1>2. \A h \in Gens, j \in Kinds :
           rx'[h][j] = IF h = g /\ j = k THEN x ELSE rx[h][j]
    OBVIOUS
  <1>3. \A h \in Gens, j \in Kinds : ReceiverStep(j, rx[h][j], rx[h][j])
    BY DEF ReceiverStep
  <1> QED
    BY <1>1, <1>2, <1>3 DEF OneReceiver

LEMMA OneReceiverKeepsRInv ==
    ASSUME RInv, OneReceiver,
           tokens' \in [Gens -> 0..MaxConnections],
           hits' \in [Gens -> [Ips -> Nat]],
           stopper' \in [Stoppers -> [at : {"idle", "stop", "done"}, gen : Gens,
                                      todo : SUBSET Kinds]]
    PROVE  RInv'
  <1>1. ReceiversTypeOK'
    BY DEF RInv, OneReceiver, ReceiversTypeOK, Receiver
  <1>2. Fresh'
    BY DEF RInv, OneReceiver, ReceiverStep, Fresh, Over
  <1>3. ReceiversOK'
    BY DEF RInv, OneReceiver, ReceiverStep, ReceiversOK
  <1>4. SessionsOK'
    BY DEF RInv, OneReceiver, SessionsOK
  <1>5. StoppedIsQuiet'
    BY DEF RInv, OneReceiver, ReceiverStep, StoppedIsQuiet
  <1>6. Late'
    <2> SUFFICES ASSUME NEW s \in Sessions, session[s].kind = "tcp"
                 PROVE  /\ session[s].late <= 1
                        /\ session[s].at = "read" => session[s].late = 0
                        /\ session[s].late > 0 => rx'[session[s].gen]["tcp"].cancelled
      BY DEF Late, OneReceiver
    <2>1. session[s].gen \in Gens /\ "tcp" \in Kinds
      BY DEF RInv, ReceiversTypeOK, Kinds
    <2> QED
      BY <2>1 DEF RInv, Late, OneReceiver, ReceiverStep
  <1> QED
    BY <1>1, <1>2, <1>3, <1>4, <1>5, <1>6 DEF RInv

-------------------------------------------------------------------------------
(* The steps of the receivers' goroutines and of the stoppers.              *)

LEMMA LoopSteps ==
    ASSUME RInv, NEW g \in Gens, NEW k \in Kinds,
           LoopStep(g, k) \/ Collect(g, k) \/ (k = "udp" /\ Datagram(g))
    PROVE  /\ OneReceiver
           /\ UNCHANGED <<tokens, hits, stopper>>
  <1>1. /\ rx \in [Gens -> [Kinds -> Receiver]]
        /\ rx[g][k] \in Receiver /\ ReceiverOK(rx[g][k])
    BY RxType DEF RInv, ReceiversOK
  <1>2. CASE k = "http" /\ Create(g)
    <2> DEFINE x == [rx[g][k] EXCEPT !.loop = "created"]
    <2>1. x \in Receiver /\ ReceiverStep(k, rx[g][k], x)
      BY <1>1, <1>2 DEF Create, Receiver, ReceiverStep, ReceiverOK, Over
    <2>2. rx' = [rx EXCEPT ![g][k] = x] /\ UNCHANGED <<made, mgr, tokens, hits, session, stopper>>
      BY <1>1, <1>2 DEF Create
    <2> HIDE DEF x
    <2> QED
      BY <1>1, <2>1, <2>2, Changed
  <1>3. CASE Listen(g, k)
    <2> DEFINE x == [rx[g][k] EXCEPT !.loop = "serving", !.sock = "open"]
    <2>1. x \in Receiver /\ ReceiverStep(k, rx[g][k], x)
      BY <1>1, <1>3 DEF Listen, ReadyToListen, ShutDownFirst, Receiver, ReceiverStep, ReceiverOK, Over
    <2>2. rx' = [rx EXCEPT ![g][k] = x] /\ UNCHANGED <<made, mgr, tokens, hits, session, stopper>>
      BY <1>1, <1>3 DEF Listen
    <2> HIDE DEF x
    <2> QED
      BY <1>1, <2>1, <2>2, Changed
  <1>4. CASE ListenFails(g, k)
    <2> DEFINE x == [rx[g][k] EXCEPT !.loop = "failed"]
    <2>1. x \in Receiver /\ ReceiverStep(k, rx[g][k], x)
      BY <1>1, <1>4 DEF ListenFails, ReadyToListen, Receiver, ReceiverStep, ReceiverOK, Over
    <2>2. rx' = [rx EXCEPT ![g][k] = x] /\ UNCHANGED <<made, mgr, tokens, hits, session, stopper>>
      BY <1>1, <1>4 DEF ListenFails
    <2> HIDE DEF x
    <2> QED
      BY <1>1, <2>1, <2>2, Changed
  <1>5. CASE LoopEnds(g, k)
    <2> DEFINE x == [rx[g][k] EXCEPT !.loop = "ended"]
    <2>1. x \in Receiver /\ ReceiverStep(k, rx[g][k], x)
      BY <1>1, <1>5 DEF LoopEnds, ReadyToListen, ShutDownFirst, Receiver, ReceiverStep, ReceiverOK, Over
    <2>2. rx' = [rx EXCEPT ![g][k] = x] /\ UNCHANGED <<made, mgr, tokens, hits, session, stopper>>
      BY <1>1, <1>5 DEF LoopEnds
    <2> HIDE DEF x
    <2> QED
      BY <1>1, <2>1, <2>2, Changed
  <1>6. CASE k = "udp" /\ HandDatagram(g)
    <2> DEFINE x == [rx[g][k] EXCEPT !.loop = "serving"]
    <2>1. x \in Receiver /\ ReceiverStep(k, rx[g][k], x)
      BY <1>1, <1>6 DEF HandDatagram, Receiver, ReceiverStep, ReceiverOK, Over
    <2>2. rx' = [rx EXCEPT ![g][k] = x] /\ UNCHANGED <<made, mgr, tokens, hits, session, stopper>>
      BY <1>1, <1>6 DEF HandDatagram
    <2> HIDE DEF x
    <2> QED
      BY <1>1, <2>1, <2>2, Changed
  <1>7. CASE Collect(g, k)
    <2> DEFINE x == [rx[g][k] EXCEPT !.sock = "closed"]
    <2>1. x \in Receiver /\ ReceiverStep(k, rx[g][k], x)
      BY <1>1, <1>7 DEF Collect, Receiver, ReceiverStep, ReceiverOK, Over
    <2>2. rx' = [rx EXCEPT ![g][k] = x] /\ UNCHANGED <<made, mgr, tokens, hits, session, stopper>>
      BY <1>1, <1>7 DEF Collect
    <2> HIDE DEF x
    <2> QED
      BY <1>1, <2>1, <2>2, Changed
  <1>8. CASE k = "udp" /\ Datagram(g)
    <2> DEFINE x == [rx[g][k] EXCEPT !.loop = "holding"]
    <2>1. x \in Receiver /\ ReceiverStep(k, rx[g][k], x)
      BY <1>1, <1>8 DEF Datagram, Receiver, ReceiverStep, ReceiverOK, Over
    <2>2. rx' = [rx EXCEPT ![g][k] = x] /\ UNCHANGED <<made, mgr, tokens, hits, session, stopper>>
      BY <1>1, <1>8 DEF Datagram
    <2> HIDE DEF x
    <2> QED
      BY <1>1, <2>1, <2>2, Changed
  <1> QED
    BY <1>2, <1>3, <1>4, <1>5, <1>6, <1>7, <1>8 DEF LoopStep

Stopper == [at : {"idle", "stop", "done"}, gen : Gens, todo : SUBSET Kinds]
Mgr == [kinds : SUBSET Kinds, phase : {"none", "new", "started", "stopped"}]

LEMMA FirstIn ==
    ASSUME NEW kinds \in SUBSET Kinds, kinds # {}
    PROVE  First(kinds) \in kinds
  <1>1. \E k \in kinds : (k = "http" => kinds = {"http"}) /\ (k = "udp" => "tcp" \notin kinds)
    BY DEF Kinds
  <1> QED
    BY <1>1 DEF First

LEMMA StopReceiverStep ==
    ASSUME RInv, NEW w \in Stoppers, StopReceiver(w)
    PROVE  /\ OneReceiver
           /\ stopper' \in [Stoppers -> [at : {"idle", "stop", "done"}, gen : Gens,
                                         todo : SUBSET Kinds]]
           /\ UNCHANGED <<tokens, hits>>
  <1> DEFINE g == stopper[w].gen
             k == First(stopper[w].todo)
             x == CloseReceiver(k, rx[g][k])
  <1>1. g \in Gens /\ stopper[w].todo \in SUBSET Kinds /\ k \in Kinds
    BY FirstIn DEF RInv, ReceiversTypeOK, StopReceiver
  <1>2. /\ rx \in [Gens -> [Kinds -> Receiver]]
        /\ rx[g][k] \in Receiver /\ ReceiverOK(rx[g][k])
    BY <1>1, RxType DEF RInv, ReceiversOK
  <1>3. rx' = [rx EXCEPT ![g][k] = x] /\ UNCHANGED <<made, mgr, tokens, hits, session>>
    BY DEF StopReceiver
  <1>4. stopper' = [stopper EXCEPT ![w].todo = @ \ {k}]
    BY DEF StopReceiver
  <1>5. stopper' \in [Stoppers -> [at : {"idle", "stop", "done"}, gen : Gens,
                                  todo : SUBSET Kinds]]
    <2> DEFINE y == [stopper[w] EXCEPT !.todo = @ \ {k}]
    <2>0. stopper \in [Stoppers -> Stopper]
      BY DEF RInv, ReceiversTypeOK, Stopper
    <2>1. y \in Stopper /\ stopper \in [Stoppers -> Stopper]
      <3>1. stopper[w] \in Stopper /\ stopper[w].todo \ {k} \in SUBSET Kinds
        BY <1>1, <2>0
      <3> HIDE DEF k
      <3> QED
        BY <2>0, <3>1 DEF Stopper
    <2>2. stopper' = [stopper EXCEPT ![w] = y]
      BY <1>4
    <2> HIDE DEF y
    <2>3. stopper' \in [Stoppers -> Stopper]
      BY <2>1, <2>2
    <2> QED
      BY <2>3 DEF Stopper
  <1>6. x \in Receiver /\ ReceiverStep(k, rx[g][k], x)
    <2> DEFINE r == rx[g][k]
    <2>1. r \in Receiver /\ ReceiverOK(r) /\ k \in Kinds
      BY <1>1, <1>2
    <2> HIDE DEF r, k
    <2>2. CloseReceiver(k, r) \in Receiver
      BY <2>1 DEF CloseReceiver, Published, Receiver
    <2>3. ReceiverStep(k, r, CloseReceiver(k, r))
      BY <2>1 DEF CloseReceiver, Published, Receiver, ReceiverStep, ReceiverOK, Over
    <2> QED
      BY <2>2, <2>3 DEF r
  <1> HIDE DEF g, k, x
  <1> QED
    BY <1>1, <1>2, <1>3, <1>5, <1>6, Changed

\* StopReturns waits for the receivers its manager was configured for; those it was
\* not configured for have no goroutine.
LEMMA StopReturnsStep ==
    ASSUME RInv, NEW w \in Stoppers, StopReturns(w)
    PROVE  RInv'
  <1> DEFINE g == stopper[w].gen
             p == IF mgr[g].phase = "started" THEN "stopped" ELSE mgr[g].phase
  <1>1. g \in Gens
    BY DEF RInv, ReceiversTypeOK
  <1>2. /\ mgr' = [mgr EXCEPT ![g].phase = p]
        /\ stopper' = [stopper EXCEPT ![w].at = "done"]
        /\ UNCHANGED <<made, rx, tokens, hits, session>>
    BY DEF StopReturns
  <1>3. p \in {"none", "new", "started", "stopped"}
    BY <1>1 DEF RInv, ReceiversTypeOK
  <1> HIDE DEF g, p
  <1>4. ReceiversTypeOK'
    <2> DEFINE y == [stopper[w] EXCEPT !.at = "done"]
               m == [mgr[g] EXCEPT !.phase = p]
    <2>1. y \in Stopper /\ stopper \in [Stoppers -> Stopper]
      BY DEF RInv, ReceiversTypeOK, Stopper
    <2>2. m \in Mgr /\ mgr \in [Gens -> Mgr]
      <3>1. mgr \in [Gens -> Mgr]
        BY DEF RInv, ReceiversTypeOK, Mgr
      <3>2. mgr[g] \in Mgr
        BY <1>1, <3>1
      <3> QED
        BY <3>1, <3>2, <1>3 DEF Mgr
    <2>3. stopper' = [stopper EXCEPT ![w] = y] /\ mgr' = [mgr EXCEPT ![g] = m]
      BY <1>2, Zenon
    <2> HIDE DEF y, m
    <2>4. stopper' \in [Stoppers -> Stopper] /\ mgr' \in [Gens -> Mgr]
      BY <1>1, <2>1, <2>2, <2>3
    <2> QED
      BY <1>2, <2>4 DEF RInv, ReceiversTypeOK, Stopper, Mgr
  <1>5. \A h \in Gens : mgr'[h].kinds = mgr[h].kinds /\ (h # g => mgr'[h] = mgr[h])
    BY <1>1, <1>2 DEF RInv, ReceiversTypeOK
  <1>6. \A k \in Kinds : rx[g][k].loop \in Over
    <2>1. \A k \in mgr[g].kinds : rx[g][k].loop \in Over
      BY DEF StopReturns, Awaited, g
    <2> QED
      BY <1>1, <2>1 DEF RInv, Fresh, Over
  <1>7. Fresh'
    <2>1. \A h \in Gens : h > made => mgr'[h] = [kinds |-> {}, phase |-> "none"]
      <3>1. CASE g > made
        <4>1. mgr[g] = [kinds |-> {}, phase |-> "none"]
          BY <1>1, <3>1 DEF RInv, Fresh
        <4>2. mgr'[g] = mgr[g]
          BY <1>1, <1>2, <4>1 DEF p, RInv, ReceiversTypeOK
        <4> QED
          BY <1>5, <4>2 DEF RInv, Fresh
      <3>2. CASE ~(g > made)
        BY <3>2, <1>5 DEF RInv, Fresh
      <3> QED
        BY <3>1, <3>2
    <2> QED
      BY <1>2, <1>5, <2>1 DEF RInv, Fresh
  <1>8. StoppedIsQuiet'
    BY <1>2, <1>5, <1>6 DEF RInv, StoppedIsQuiet
  <1> QED
    BY <1>2, <1>4, <1>7, <1>8 DEF RInv, ReceiversOK, SessionsOK, Late

-------------------------------------------------------------------------------
(* Steps of connections and requests.                                       *)

Session == [at : {"idle", "top", "read", "sending", "end"}, kind : {"tcp", "http"},
            gen : Gens, left : Nat, late : Nat]

\* What RInv says of one session.
SessionOK(x) ==
    /\ x.gen <= made
    /\ x.at \in {"top", "read"} => x.kind = "tcp"
    /\ x.at = "sending" => x.kind = "http"
    /\ x.kind = "tcp" => /\ x.late <= 1
                         /\ x.at = "read" => x.late = 0
                         /\ x.late > 0 => rx[x.gen]["tcp"].cancelled

LEMMA OneSession ==
    ASSUME RInv, NEW s \in Sessions, NEW x \in Session, SessionOK(x),
           session' = [session EXCEPT ![s] = x],
           tokens' \in [Gens -> 0..MaxConnections],
           hits' \in [Gens -> [Ips -> Nat]],
           UNCHANGED <<made, mgr, rx, stopper>>
    PROVE  RInv'
  <1>1. ReceiversTypeOK'
    BY DEF RInv, ReceiversTypeOK, Session
  <1>2. \A z \in Sessions : session'[z] = IF z = s THEN x ELSE session[z]
    BY DEF RInv, ReceiversTypeOK
  <1>3. SessionsOK'
    BY <1>2 DEF RInv, SessionsOK, SessionOK
  <1>4. Late'
    BY <1>2 DEF RInv, Late, SessionOK
  <1> QED
    BY <1>1, <1>3, <1>4 DEF RInv, Fresh, ReceiversOK, StoppedIsQuiet

\* A receiver that serves belongs to a manager that was made.
LEMMA ServingIsMade ==
    ASSUME RInv, NEW g \in Gens, NEW k \in Kinds, rx[g][k].loop # "none"
    PROVE  g <= made
  <1>1. k \in mgr[g].kinds
    BY DEF RInv, Fresh
  <1>2. ~(g > made)
    BY <1>1 DEF RInv, Fresh
  <1> QED
    BY <1>2 DEF RInv, ReceiversTypeOK, Gens

LEMMA SessionType ==
    ASSUME RInv, NEW s \in Sessions
    PROVE  session[s] \in Session /\ SessionOK(session[s])
  BY DEF RInv, ReceiversTypeOK, Session, SessionsOK, Late, SessionOK

LEMMA HandType ==
    ASSUME RInv, NEW s \in Sessions
    PROVE  Hand(s) \in Nat
  <1>1. session[s].late \in Nat
    BY SessionType DEF Session
  <1> QED
    BY <1>1 DEF Hand

LEMMA HandlerSteps ==
    ASSUME RInv, NEW s \in Sessions, HandlerStep(s)
    PROVE  RInv'
  <1>1. session[s] \in Session /\ SessionOK(session[s])
    BY SessionType
  <1>2. tokens \in [Gens -> 0..MaxConnections] /\ hits \in [Gens -> [Ips -> Nat]]
    BY DEF RInv, ReceiversTypeOK
  <1>3. CASE ConnTop(s)
    <2> DEFINE x == [session[s] EXCEPT !.at = "read"]
    <2>1. x \in Session /\ SessionOK(x)
      BY <1>1, <1>3 DEF ConnTop, MustLeave, Session, SessionOK
    <2>2. session' = [session EXCEPT ![s] = x] /\ UNCHANGED <<made, mgr, rx, tokens, hits, stopper>>
      BY <1>3 DEF ConnTop
    <2> HIDE DEF x
    <2> QED
      BY <1>2, <2>1, <2>2, OneSession
  <1>4. CASE SendLine(s)
    <2> DEFINE x == [session[s] EXCEPT !.left = @ - 1, !.late = Hand(s)]
    <2>0. /\ Hand(s) \in Nat /\ session[s].left - 1 \in Nat
          /\ session[s].at = "sending" /\ session[s].kind = "http"
      BY <1>1, <1>4, HandType DEF SendLine, Session, SessionOK
    <2>1. x \in Session /\ SessionOK(x)
      BY <1>1, <2>0 DEF Session, SessionOK
    <2>2. session' = [session EXCEPT ![s] = x] /\ UNCHANGED <<made, mgr, rx, tokens, hits, stopper>>
      BY <1>4 DEF SendLine
    <2> HIDE DEF x
    <2> QED
      BY <1>2, <2>1, <2>2, OneSession
  <1>5. CASE Answer(s)
    <2> DEFINE x == [session[s] EXCEPT !.at = "end"]
    <2>1. x \in Session /\ SessionOK(x)
      BY <1>1, <1>5 DEF Answer, Session, SessionOK
    <2>2. session' = [session EXCEPT ![s] = x] /\ UNCHANGED <<made, mgr, rx, tokens, hits, stopper>>
      BY <1>5 DEF Answer
    <2> HIDE DEF x
    <2> QED
      BY <1>2, <2>1, <2>2, OneSession
  <1> QED
    BY <1>3, <1>4, <1>5 DEF HandlerStep

LEMMA ClientSteps ==
    ASSUME RInv, NEW s \in Sessions, ClientStep(s)
    PROVE  RInv'
  <1>1. session[s] \in Session /\ SessionOK(session[s])
    BY SessionType
  <1>2. tokens \in [Gens -> 0..MaxConnections] /\ hits \in [Gens -> [Ips -> Nat]]
    BY DEF RInv, ReceiversTypeOK
  <1>3. MaxConnections \in Nat /\ MaxConnections > 0
    BY ReceiversAssumption
  <1>4. CASE ConnLine(s)
    <2> DEFINE x == [session[s] EXCEPT !.at = "top", !.late = Hand(s)]
    <2>0. /\ Hand(s) \in Nat /\ session[s].kind = "tcp"
          /\ Hand(s) <= 1
          /\ Hand(s) > 0 => rx[session[s].gen]["tcp"].cancelled
      <3>1. session[s].at = "read" /\ session[s].kind = "tcp" /\ session[s].late = 0
        BY <1>1, <1>4 DEF ConnLine, SessionOK
      <3>2. session[s].gen \in Gens /\ "tcp" \in Kinds
        BY <1>1 DEF Session, Kinds
      <3> HIDE DEF x
      <3>3. Hand(s) = IF rx[session[s].gen]["tcp"].cancelled THEN 1 ELSE 0
        BY <3>1 DEF Hand
      <3> QED
        BY <3>1, <3>3
    <2>1. x \in Session /\ SessionOK(x)
      BY <1>1, <2>0 DEF Session, SessionOK
    <2>2. session' = [session EXCEPT ![s] = x] /\ UNCHANGED <<made, mgr, rx, tokens, hits, stopper>>
      BY <1>4 DEF ConnLine
    <2> HIDE DEF x
    <2> QED
      BY <1>2, <2>1, <2>2, OneSession
  <1>5. CASE ConnEnds(s)
    <2> DEFINE x == [session[s] EXCEPT !.at = "end"]
    <2>1. x \in Session /\ SessionOK(x)
      BY <1>1, <1>5 DEF ConnEnds, Session, SessionOK
    <2>2. session' = [session EXCEPT ![s] = x] /\ UNCHANGED <<made, mgr, rx, hits, stopper>>
      BY <1>5 DEF ConnEnds
    <2>3. tokens' \in [Gens -> 0..MaxConnections]
      BY <1>1, <1>2, <1>3, <1>5 DEF ConnEnds, TokensAfter, Session
    <2> HIDE DEF x
    <2> QED
      BY <1>2, <2>1, <2>2, <2>3, OneSession
  <1>6. ASSUME NEW g \in Gens, Connect(s, g)
        PROVE  RInv'
    <2>1. g <= made /\ "tcp" \in Kinds
      BY <1>6, ServingIsMade DEF Connect, Accepts, Kinds
    <2>2. PICK x : /\ session' = [session EXCEPT ![s] = x]
                   /\ \/ x = [Idle EXCEPT !.at = "top", !.gen = g]
                      \/ x = [Idle EXCEPT !.at = "end", !.gen = g]
      BY <1>6, Zenon DEF Connect
    <2>3. x \in Session /\ SessionOK(x)
      <3>1. CASE x = [Idle EXCEPT !.at = "top", !.gen = g]
        <4>1. x \in Session
          BY <3>1 DEF Idle, Session
        <4>2. x.at = "top" /\ x.kind = "tcp" /\ x.gen = g /\ x.late = 0
          BY <3>1 DEF Idle
        <4> QED
          BY <2>1, <4>1, <4>2 DEF SessionOK
      <3>2. CASE x = [Idle EXCEPT !.at = "end", !.gen = g]
        <4>1. x \in Session
          BY <3>2 DEF Idle, Session
        <4>2. x.at = "end" /\ x.kind = "tcp" /\ x.gen = g /\ x.late = 0
          BY <3>2 DEF Idle
        <4> QED
          BY <2>1, <4>1, <4>2 DEF SessionOK
      <3> QED
        BY <2>2, <3>1, <3>2
    <2>4. tokens' \in [Gens -> 0..MaxConnections] /\ UNCHANGED <<made, mgr, rx, hits, stopper>>
      BY <1>2, <1>3, <1>6 DEF Connect, Limit
    <2> QED
      BY <1>2, <2>2, <2>3, <2>4, OneSession
  <1>7. ASSUME NEW g \in Gens, NEW p \in Posts, Receive(s, g, p)
        PROVE  RInv'
    <2>1. p.ip \in Ips /\ p.lines \in Nat
      BY ReceiversAssumption DEF Ips, Post
    <2>2. g <= made
      BY <1>7, ServingIsMade DEF Receive, Accepts, Kinds
    <2> DEFINE known == p.allowed /\ p.token
               counted == IF known THEN Counted(g, p) ELSE hits[g]
               good == known /\ WithinRate(counted, p) /\ p.fits /\ p.lines <= MaxLines
               x == [at |-> IF good THEN "sending" ELSE "end", kind |-> "http", gen |-> g,
                     left |-> IF good THEN p.lines ELSE 0, late |-> 0]
    <2>3. session' = [session EXCEPT ![s] = x] /\ hits' = [hits EXCEPT ![g] = counted]
          /\ UNCHANGED <<made, mgr, rx, tokens, stopper>>
      BY <1>7 DEF Receive
    <2>4. hits' \in [Gens -> [Ips -> Nat]]
      BY <1>2, <2>1, <2>3 DEF Counted
    <2> HIDE DEF good
    <2>5. x \in Session /\ SessionOK(x)
      BY <2>1, <2>2 DEF Session, SessionOK
    <2> HIDE DEF x
    <2> QED
      BY <1>2, <2>3, <2>4, <2>5, OneSession
  <1> QED
    BY <1>4, <1>5, <1>6, <1>7 DEF ClientStep

\* Every step of the receivers keeps the invariant.
LEMMA ReceiversNextRInv ==
    ASSUME RInv, ReceiversNext
    PROVE  RInv'
  <1>0. /\ tokens \in [Gens -> 0..MaxConnections]
        /\ hits \in [Gens -> [Ips -> Nat]]
        /\ stopper \in [Stoppers -> [at : {"idle", "stop", "done"}, gen : Gens,
                                     todo : SUBSET Kinds]]
    BY DEF RInv, ReceiversTypeOK
  <1>1. ASSUME NEW w \in Stoppers, StopperStep(w) PROVE RInv'
    BY <1>0, <1>1, StopReceiverStep, StopReturnsStep, OneReceiverKeepsRInv DEF StopperStep
  <1>2. ASSUME NEW g \in Gens, NEW k \in Kinds, LoopStep(g, k) \/ Collect(g, k) PROVE RInv'
    BY <1>0, <1>2, LoopSteps, OneReceiverKeepsRInv
  <1>3. ASSUME NEW g \in Gens, Datagram(g) PROVE RInv'
    BY <1>0, <1>3, LoopSteps, OneReceiverKeepsRInv DEF Kinds
  <1>4. ASSUME NEW g \in Gens, Minute(g) PROVE RInv'
    BY <1>4 DEF Minute, RInv, ReceiversTypeOK, Fresh, ReceiversOK, SessionsOK, StoppedIsQuiet, Late
  <1>5. ASSUME NEW s \in Sessions, HandlerStep(s) \/ ClientStep(s) PROVE RInv'
    BY <1>5, HandlerSteps, ClientSteps
  <1> QED
    BY <1>1, <1>2, <1>3, <1>4, <1>5 DEF ReceiversNext

-------------------------------------------------------------------------------
(* What the server does with managers.                                      *)

LEMMA ReceiversInitRInv ==
    ASSUME NEW kinds \in SUBSET Kinds, ReceiversInit(kinds)
    PROVE  RInv
  <1>1. MaxGen \in Nat /\ MaxGen > 0 /\ MaxConnections \in Nat /\ 1 \in Gens
    BY ReceiversAssumption DEF Gens
  <1>2. ReceiversTypeOK
    <2>1. made \in Gens /\ mgr \in [Gens -> Mgr]
      BY <1>1 DEF ReceiversInit, Mgr
    <2>2. NoReceiver \in Receiver /\ [NoReceiver EXCEPT !.loop = "begin"] \in Receiver
      BY DEF NoReceiver, Receiver
    <2>3. rx \in [Gens -> [Kinds -> Receiver]]
      BY <2>2 DEF ReceiversInit
    <2>4. session \in [Sessions -> Session]
      BY <1>1 DEF ReceiversInit, Session, Idle
    <2>5. stopper \in [Stoppers -> Stopper]
      BY <1>1 DEF ReceiversInit, Stopper
    <2>6. tokens \in [Gens -> 0..MaxConnections] /\ hits \in [Gens -> [Ips -> Nat]]
      BY <1>1 DEF ReceiversInit
    <2> QED
      BY <2>1, <2>3, <2>4, <2>5, <2>6, RxType DEF Mgr, Session, Stopper
  <1>3. Fresh
    BY <1>1 DEF ReceiversInit, Fresh, NoReceiver, Gens
  <1>4. ReceiversOK
    BY <1>1 DEF ReceiversInit, ReceiversOK, ReceiverOK, NoReceiver
  <1>5. SessionsOK /\ Late
    BY <1>1 DEF ReceiversInit, SessionsOK, Late, Idle
  <1>6. StoppedIsQuiet
    BY <1>1 DEF ReceiversInit, StoppedIsQuiet
  <1> QED
    BY <1>2, <1>3, <1>4, <1>5, <1>6 DEF RInv

\* A manager is made, with or without being started, while the others go on.
LEMMA MakeManager ==
    ASSUME RInv, NEW kinds \in SUBSET Kinds, NewManager(kinds) \/ StartManager(kinds),
           stopper' \in [Stoppers -> [at : {"idle", "stop", "done"}, gen : Gens,
                                      todo : SUBSET Kinds]],
           UNCHANGED <<tokens, hits, session>>
    PROVE  RInv'
  <1> DEFINE g == made + 1
             old == rx[g]
             new == [k \in Kinds |-> IF k \in kinds THEN [NoReceiver EXCEPT !.loop = "begin"]
                                                   ELSE NoReceiver]
  <1>1. made \in Nat /\ MaxGen \in Nat /\ made < MaxGen /\ g \in Gens /\ made \in Gens
    BY ReceiversAssumption DEF RInv, ReceiversTypeOK, Gens, NewManager, StartManager
  <1>2. made' = g
    BY DEF NewManager, StartManager
  <1>3. PICK p \in {"new", "started"} : mgr' = [mgr EXCEPT ![g] = [kinds |-> kinds, phase |-> p]]
    BY DEF NewManager, StartManager
  <1>4. rx' = [rx EXCEPT ![g] = new] \/ rx' = [rx EXCEPT ![g] = old]
    <2>1. rx = [rx EXCEPT ![g] = old]
      BY <1>1 DEF RInv, ReceiversTypeOK
    <2> QED
      BY <2>1, Zenon DEF NewManager, StartManager
  <1>5. PICK r \in {old, new} : rx' = [rx EXCEPT ![g] = r]
    BY <1>4
  <1>6. /\ r \in [Kinds -> Receiver]
        /\ \A k \in Kinds : ReceiverOK(r[k]) /\ (k \notin kinds => r[k].loop = "none")
    <2>1. CASE r = old
      <3>1. mgr[g].kinds = {}
        BY <1>1 DEF RInv, Fresh
      <3> QED
        BY <1>1, <2>1, <3>1, RxType DEF RInv, ReceiversOK, Fresh
    <2>2. CASE r = new
      BY <2>2 DEF NoReceiver, Receiver, ReceiverOK
    <2> QED
      BY <1>5, <2>1, <2>2
  <1> HIDE DEF g, old, new
  <1>7. /\ \A h \in Gens : rx'[h] = IF h = g THEN r ELSE rx[h]
        /\ \A h \in Gens : mgr'[h] = IF h = g THEN [kinds |-> kinds, phase |-> p] ELSE mgr[h]
    BY <1>1, <1>3, <1>5 DEF RInv, ReceiversTypeOK
  <1>8. ReceiversTypeOK'
    <2>1. rx' \in [Gens -> [Kinds -> Receiver]]
      BY <1>1, <1>5, <1>6, RxType DEF RInv
    <2>2. mgr' \in [Gens -> Mgr]
      <3>1. mgr \in [Gens -> Mgr] /\ [kinds |-> kinds, phase |-> p] \in Mgr
        BY DEF RInv, ReceiversTypeOK, Mgr
      <3> QED
        BY <1>1, <1>3, <3>1
    <2> QED
      BY <1>1, <1>2, <2>1, <2>2 DEF RInv, ReceiversTypeOK, Receiver, Mgr
  <1>9. Fresh'
    BY <1>1, <1>2, <1>6, <1>7 DEF RInv, Fresh, Gens, g
  <1>10. ReceiversOK'
    BY <1>6, <1>7 DEF RInv, ReceiversOK
  <1>11. SessionsOK'
    <2>1. \A s \in Sessions : session[s].gen \in Nat
      BY <1>1 DEF RInv, ReceiversTypeOK, Gens
    <2> QED
      BY <1>1, <1>2, <2>1 DEF RInv, SessionsOK, g
  <1>12. StoppedIsQuiet'
    BY <1>7 DEF RInv, StoppedIsQuiet
  <1>13. Late'
    <2>1. \A s \in Sessions : session[s].gen \in Gens /\ session[s].gen # g
      BY <1>1 DEF RInv, ReceiversTypeOK, SessionsOK, Gens, g
    <2> QED
      BY <1>7, <2>1 DEF RInv, Late
  <1> QED
    BY <1>8, <1>9, <1>10, <1>11, <1>12, <1>13 DEF RInv

LEMMA BeginStopStep ==
    ASSUME RInv, NEW w \in Stoppers, NEW g \in Gens, BeginStop(w, g),
           UNCHANGED <<made, mgr, rx, tokens, hits, session>>
    PROVE  RInv'
  <1> DEFINE x == [at |-> "stop", gen |-> g,
                   todo |-> IF mgr[g].phase = "new" THEN {} ELSE mgr[g].kinds]
  <1>1. x \in Stopper /\ stopper' = [stopper EXCEPT ![w] = x]
    BY DEF BeginStop, Stopper, RInv, ReceiversTypeOK
  <1> HIDE DEF x
  <1>2. stopper' \in [Stoppers -> Stopper]
    BY <1>1 DEF RInv, ReceiversTypeOK, Stopper
  <1> QED
    BY <1>2 DEF RInv, ReceiversTypeOK, Stopper, Fresh, ReceiversOK, SessionsOK, StoppedIsQuiet, Late

-------------------------------------------------------------------------------
(* The tokens of the connection limit.                                      *)

LEMMA OpenIsFinite ==
    ASSUME NEW g
    PROVE  IsFiniteSet(Open(g)) /\ Cardinality(Open(g)) \in Nat
  <1>1. Open(g) \subseteq Sessions /\ IsFiniteSet(Sessions)
    BY ReceiversAssumption DEF Open
  <1> QED
    BY <1>1, FS_Subset, FS_CardinalityType

\* A step of a session that neither opens nor closes a connection.
LEMMA OpenSame ==
    ASSUME TokensExact, UNCHANGED tokens,
           \A z \in Sessions :
              \/ session'[z] = session[z]
              \/ /\ session'[z].gen = session[z].gen
                 /\ session[z].at \in {"top", "read"} /\ session'[z].at \in {"top", "read"}
              \/ /\ session[z].at \notin {"top", "read"}
                 /\ session'[z].at \notin {"top", "read"}
    PROVE  TokensExact'
  <1>1. \A g \in Gens : Open(g)' = Open(g)
    BY DEF Open
  <1> QED
    BY <1>1 DEF TokensExact

LEMMA ConnectTokens ==
    ASSUME RInv, TokensExact, NEW s \in Sessions, NEW g \in Gens, Connect(s, g)
    PROVE  TokensExact'
  <1>1. session \in [Sessions -> Session] /\ session[s].at = "idle"
    BY DEF RInv, ReceiversTypeOK, Session, Connect
  <1>2. CASE ~Limit(g)
    <2>1. session'[s].at = "end" /\ \A z \in Sessions \ {s} : session'[z] = session[z]
      BY <1>1, <1>2 DEF Connect, Idle
    <2> QED
      BY <1>1, <1>2, <2>1, OpenSame DEF Connect
  <1>3. CASE Limit(g)
    <2>1. /\ session'[s].at = "top" /\ session'[s].gen = g
          /\ \A z \in Sessions \ {s} : session'[z] = session[z]
      BY <1>1, <1>3 DEF Connect, Idle
    <2>2. Open(g)' = Open(g) \cup {s} /\ s \notin Open(g)
      BY <1>1, <2>1 DEF Open
    <2>3. \A h \in Gens \ {g} : Open(h)' = Open(h)
      BY <1>1, <2>1 DEF Open
    <2>4. Cardinality(Open(g)') = Cardinality(Open(g)) + 1
      BY <2>2, OpenIsFinite, FS_AddElement
    <2>5. /\ tokens'[g] = tokens[g] + 1
          /\ \A h \in Gens \ {g} : tokens'[h] = tokens[h]
      BY <1>3 DEF Connect, RInv, ReceiversTypeOK
    <2> QED
      BY <2>3, <2>4, <2>5 DEF TokensExact
  <1> QED
    BY <1>2, <1>3

LEMMA ConnEndsTokens ==
    ASSUME RInv, TokensExact, NEW s \in Sessions, ConnEnds(s)
    PROVE  TokensExact'
  <1>1. /\ session \in [Sessions -> Session]
        /\ session[s].at \in {"top", "read"}
    BY DEF RInv, ReceiversTypeOK, Session, ConnEnds
  <1>0. PICK g \in Gens : session[s].gen = g
    BY <1>1 DEF Session
  <1>2. session'[s].at = "end" /\ \A z \in Sessions \ {s} : session'[z] = session[z]
    BY <1>1 DEF ConnEnds, Session
  <1>3. Open(g)' = Open(g) \ {s} /\ s \in Open(g)
    BY <1>0, <1>1, <1>2 DEF Open
  <1>4. \A h \in Gens \ {g} : Open(h)' = Open(h)
    BY <1>0, <1>1, <1>2 DEF Open
  <1>5. Cardinality(Open(g)') = Cardinality(Open(g)) - 1
    BY <1>3, OpenIsFinite, FS_RemoveElement
  <1>6. Cardinality(Open(g)) > 0
    BY <1>3, OpenIsFinite, FS_EmptySet
  <1>7. tokens[g] = Cardinality(Open(g))
    BY <1>1 DEF TokensExact
  <1>8. tokens' = [tokens EXCEPT ![g] = tokens[g] - 1]
    BY <1>0, <1>6, <1>7 DEF ConnEnds, TokensAfter
  <1>9. /\ tokens'[g] = tokens[g] - 1
        /\ \A h \in Gens \ {g} : tokens'[h] = tokens[h]
    BY <1>1, <1>8 DEF RInv, ReceiversTypeOK
  <1> QED
    BY <1>4, <1>5, <1>7, <1>9 DEF TokensExact

LEMMA ReceiversNextTokens ==
    ASSUME RInv, TokensExact, ReceiversNext
    PROVE  TokensExact'
  <1>1. session \in [Sessions -> Session]
    BY DEF RInv, ReceiversTypeOK, Session
  <1>2. ASSUME NEW s \in Sessions, ConnTop(s) \/ ConnLine(s) \/ SendLine(s) \/ Answer(s)
        PROVE  TokensExact'
    <2>1. UNCHANGED tokens /\ \A z \in Sessions \ {s} : session'[z] = session[z]
      BY <1>1, <1>2 DEF ConnTop, ConnLine, SendLine, Answer
    <2>2. CASE ConnTop(s) \/ ConnLine(s)
      <3>1. /\ session'[s].gen = session[s].gen
            /\ session[s].at \in {"top", "read"} /\ session'[s].at \in {"top", "read"}
        BY <1>1, <2>2 DEF ConnTop, ConnLine, Session
      <3> QED
        BY <2>1, <3>1, OpenSame
    <2>3. CASE SendLine(s) \/ Answer(s)
      <3>1. session[s].at \notin {"top", "read"} /\ session'[s].at \notin {"top", "read"}
        BY <1>1, <2>3 DEF SendLine, Answer, Session
      <3> QED
        BY <2>1, <3>1, OpenSame
    <2> QED
      BY <1>2, <2>2, <2>3
  <1>3. ASSUME NEW s \in Sessions, NEW g \in Gens, NEW p \in Posts, Receive(s, g, p)
        PROVE  TokensExact'
    <2>1. UNCHANGED tokens /\ session[s].at = "idle" /\ \A z \in Sessions \ {s} : session'[z] = session[z]
      BY <1>1, <1>3 DEF Receive
    <2>2. session'[s].at \in {"sending", "end"}
      BY <1>1, <1>3 DEF Receive
    <2> QED
      BY <2>1, <2>2, OpenSame
  <1>4. CASE UNCHANGED <<tokens, session>>
    BY <1>4, OpenSame
  <1>5. ASSUME NEW w \in Stoppers, StopperStep(w) PROVE UNCHANGED <<tokens, session>>
    BY <1>5 DEF StopperStep, StopReceiver, StopReturns
  <1>6. ASSUME NEW g \in Gens, NEW k \in Kinds, LoopStep(g, k) \/ Collect(g, k)
        PROVE  UNCHANGED <<tokens, session>>
    BY <1>6 DEF LoopStep, Create, Listen, ListenFails, LoopEnds, HandDatagram, Collect
  <1>7. ASSUME NEW g \in Gens, Datagram(g) \/ Minute(g) PROVE UNCHANGED <<tokens, session>>
    BY <1>7 DEF Datagram, Minute
  <1> QED
    BY <1>2, <1>3, <1>4, <1>5, <1>6, <1>7, ConnectTokens, ConnEndsTokens
       DEF ReceiversNext, HandlerStep, ClientStep

-------------------------------------------------------------------------------
\* What a step of the receivers leaves alone, for whoever composes them: a loop
\* that is over stays so, a stop is over only with its manager's loops, and a
\* receiver that fails to listen found its port taken.
LEMMA ReceiversFrame ==
    ASSUME RInv, ReceiversNext
    PROVE  /\ made' = made
           /\ \A g \in Gens : mgr'[g].kinds = mgr[g].kinds
           /\ \A g \in Gens, k \in Kinds : rx[g][k].loop \in Over => rx'[g][k].loop \in Over
           /\ \A g \in Gens, k \in Kinds : rx[g][k].missed => rx'[g][k].missed
           /\ \A w \in Stoppers :
                 /\ stopper'[w].gen = stopper[w].gen
                 /\ stopper[w].at = "idle" <=> stopper'[w].at = "idle"
                 /\ stopper[w].at = "done" => stopper'[w].at = "done"
                 /\ (stopper[w].at # "done" /\ stopper'[w].at = "done") =>
                       /\ \A k \in Kinds : rx'[stopper[w].gen][k].loop \in Over
                       /\ mgr'[stopper[w].gen].phase # "started"
           /\ \A g \in Gens :
                 \/ mgr'[g].phase = mgr[g].phase
                 \/ /\ mgr'[g].phase = "stopped" /\ mgr[g].phase = "started"
                    /\ \E w \in Stoppers : /\ stopper[w].at = "stop" /\ stopper[w].gen = g
                                           /\ stopper'[w].at = "done"
           /\ \A g \in Gens, k \in Kinds :
                 (rx[g][k].loop # "failed" /\ rx'[g][k].loop = "failed") => ListenFails(g, k)
  <1> DEFINE Frame ==
           /\ made' = made
           /\ \A g \in Gens : mgr'[g].kinds = mgr[g].kinds
           /\ \A g \in Gens, k \in Kinds : rx[g][k].loop \in Over => rx'[g][k].loop \in Over
           /\ \A g \in Gens, k \in Kinds : rx[g][k].missed => rx'[g][k].missed
           /\ \A w \in Stoppers :
                 /\ stopper'[w].gen = stopper[w].gen
                 /\ stopper[w].at = "idle" <=> stopper'[w].at = "idle"
                 /\ stopper[w].at = "done" => stopper'[w].at = "done"
                 /\ (stopper[w].at # "done" /\ stopper'[w].at = "done") =>
                       /\ \A k \in Kinds : rx'[stopper[w].gen][k].loop \in Over
                       /\ mgr'[stopper[w].gen].phase # "started"
           /\ \A g \in Gens :
                 \/ mgr'[g].phase = mgr[g].phase
                 \/ /\ mgr'[g].phase = "stopped" /\ mgr[g].phase = "started"
                    /\ \E w \in Stoppers : /\ stopper[w].at = "stop" /\ stopper[w].gen = g
                                           /\ stopper'[w].at = "done"
           /\ \A g \in Gens, k \in Kinds :
                 (rx[g][k].loop # "failed" /\ rx'[g][k].loop = "failed") => ListenFails(g, k)
  <1>0. /\ mgr \in [Gens -> Mgr] /\ rx \in [Gens -> [Kinds -> Receiver]]
        /\ stopper \in [Stoppers -> Stopper]
    BY RxType DEF RInv, Mgr, Stopper
  <1>1. CASE UNCHANGED <<made, mgr, rx, stopper>>
    BY <1>1
  <1>2. ASSUME NEW w \in Stoppers, StopReceiver(w) PROVE Frame
    <2>1. /\ \A g \in Gens, k \in Kinds : ReceiverStep(k, rx[g][k], rx'[g][k])
          /\ UNCHANGED <<made, mgr>>
      BY <1>2, StopReceiverStep DEF OneReceiver
    <2>2. \A v \in Stoppers : stopper'[v].gen = stopper[v].gen /\ stopper'[v].at = stopper[v].at
      BY <1>0, <1>2 DEF StopReceiver, Stopper
    <2>3. \A g \in Gens, k \in Kinds : rx'[g][k].loop = rx[g][k].loop
      BY <1>0, <1>2 DEF StopReceiver, CloseReceiver, Receiver
    <2> QED
      BY <2>1, <2>2, <2>3 DEF ReceiverStep
  <1>3. ASSUME NEW w \in Stoppers, StopReturns(w) PROVE Frame
    <2>1. PICK g \in Gens : stopper[w].gen = g
      BY <1>0 DEF Stopper
    <2>2. stopper[w].at = "stop" /\ UNCHANGED <<made, rx>>
      BY <1>3 DEF StopReturns
    <2>3. /\ \A v \in Stoppers \ {w} : stopper'[v] = stopper[v]
          /\ stopper'[w].gen = g /\ stopper'[w].at = "done"
      BY <1>0, <1>3, <2>1 DEF StopReturns, Stopper
    <2>4. /\ \A h \in Gens \ {g} : mgr'[h] = mgr[h]
          /\ mgr'[g].kinds = mgr[g].kinds
          /\ mgr'[g].phase = IF mgr[g].phase = "started" THEN "stopped" ELSE mgr[g].phase
      BY <1>0, <1>3, <2>1 DEF StopReturns, Mgr
    <2>5. \A k \in Kinds : rx'[g][k].loop \in Over
      BY <1>3, <2>1 DEF StopReturns, Awaited, RInv, Fresh, Over
    <2> QED
      BY <2>1, <2>2, <2>3, <2>4, <2>5
  <1>4. ASSUME NEW g \in Gens, NEW k \in Kinds,
               LoopStep(g, k) \/ Collect(g, k) \/ (k = "udp" /\ Datagram(g))
        PROVE  Frame
    <2>1. /\ \A h \in Gens, j \in Kinds : ReceiverStep(j, rx[h][j], rx'[h][j])
          /\ UNCHANGED <<made, mgr, stopper>>
      BY <1>4, LoopSteps DEF OneReceiver
    <2>2. ASSUME NEW h \in Gens, NEW j \in Kinds, rx[h][j].loop # "failed", rx'[h][j].loop = "failed"
          PROVE  ListenFails(h, j)
      <3>1. CASE ListenFails(g, k)
        <4>1. \A i \in Gens, l \in Kinds : <<i, l>> # <<g, k>> => rx'[i][l] = rx[i][l]
          BY <1>0, <3>1 DEF ListenFails
        <4> QED
          BY <2>2, <3>1, <4>1
      <3>2. CASE ~ListenFails(g, k)
        <4>1. CASE Create(g)
          BY <1>0, <2>2, <4>1 DEF Create, Receiver, Kinds
        <4>2. CASE Listen(g, k)
          BY <1>0, <2>2, <4>2 DEF Listen, Receiver, Kinds
        <4>3. CASE LoopEnds(g, k)
          BY <1>0, <2>2, <4>3 DEF LoopEnds, Receiver, Kinds
        <4>4. CASE HandDatagram(g)
          BY <1>0, <2>2, <4>4 DEF HandDatagram, Receiver, Kinds
        <4>5. CASE Datagram(g)
          BY <1>0, <2>2, <4>5 DEF Datagram, Receiver, Kinds
        <4>6. CASE Collect(g, k)
          BY <1>0, <2>2, <4>6 DEF Collect, Receiver, Kinds
        <4> QED
          BY <1>4, <3>2, <4>1, <4>2, <4>3, <4>4, <4>5, <4>6 DEF LoopStep
      <3> QED
        BY <3>1, <3>2
    <2> QED
      BY <2>1, <2>2 DEF ReceiverStep
  <1>5. ASSUME NEW g \in Gens, Minute(g) PROVE Frame
    BY <1>1, <1>5 DEF Minute
  <1>6. ASSUME NEW s \in Sessions, HandlerStep(s) \/ ClientStep(s) PROVE Frame
    BY <1>1, <1>6 DEF HandlerStep, ClientStep, ConnTop, ConnLine, ConnEnds, SendLine, Answer,
                      Connect, Receive
  <1>7. "udp" \in Kinds
    BY DEF Kinds
  <1> HIDE DEF Frame
  <1>8. Frame
    BY <1>2, <1>3, <1>4, <1>5, <1>6, <1>7 DEF ReceiversNext, StopperStep
  <1> QED
    BY <1>8 DEF Frame

===============================================================================
