-------------------------- MODULE AsyncStorage_proofs --------------------------
(***************************************************************************)
(* Proofs about AsyncStorage, for any set of senders, any sizes of the      *)
(* buffer and of a batch, any number of entries and of clears.              *)
(*                                                                         *)
(* IInv strengthens the properties to an inductive invariant: Places says   *)
(* what each goroutine's next step implies for the others, Numbered that a  *)
(* sender goes through its entries in order, Flow where the entries sent    *)
(* are, and Counts and ClearReachesAll are properties of their own.         *)
(***************************************************************************)
EXTENDS AsyncStorage, DataLemmas

\* What the next step of one goroutine tells about the others.  Only a closed
\* and empty channel ends writeLoop, and nothing can be sent after that.
Places ==
    /\ loop \in {"select", "drain"} => Len(batch) < BatchSize
    /\ loop \in {"discard", "done"} => batch = <<>>
    /\ loop = "discard" <=> clearer = "wait"
    /\ loop = "done" => closed /\ buffer = <<>>
    /\ loop \in {"flush", "account"} /\ back = "done" => closed /\ buffer = <<>>
    /\ closer \in {"dbClose", "end"} /\ ~timedOut => loop = "done"
    /\ clears = 0 => clearer = "idle"

\* What a sender has yet to save are the last of the entries it made, and what
\* it has sent is older than those.
Numbered ==
    /\ \A s \in Senders :
          /\ sender[s] = "idle" <=> todo[s] = <<>>
          /\ sender[s] = "try" => Len(todo[s]) = 1
          /\ \A i \in 1..Len(todo[s]) : todo[s][i] = <<s, made[s] - Len(todo[s]) + i>>
    /\ \A e \in sent : e[2] <= made[e[1]] - Unsent(e[1])

\* The entries of one sender come in order, within a sequence ...
InOrder(entries) ==
    \A i, j \in DOMAIN entries :
        i < j /\ entries[i][1] = entries[j][1] => entries[i][2] < entries[j][2]

\* ... and from one set to another.
Before(S, T) == \A x \in S, y \in T : x[1] = y[1] => x[2] < y[2]

\* What was sent is in the database, in the batch, in the buffer or gone, each
\* entry in one place; a sender's entries go through these in order.
Flow ==
    /\ InOrder(db) /\ InOrder(Pending) /\ InOrder(buffer)
    /\ Before(Range(db), Range(Pending)) /\ Before(Range(db), Range(buffer))
    /\ Before(Range(Pending), Range(buffer))
    /\ Range(db) \cup Range(Pending) \cup Range(buffer) \cup gone = sent
    /\ gone \cap (Range(db) \cup Range(Pending) \cup Range(buffer)) = {}
    /\ old \subseteq sent /\ IsFiniteSet(sent)

Counts == BacklogNeverHidden /\ BufferedExact /\ DroppedExact

IInv == TypeOK /\ Places /\ Numbered /\ Flow /\ Counts /\ ClearReachesAll


-------------------------------------------------------------------------------
\* Sequences of entries

LEMMA InRange == \A s \in Seq(Entry) : \A i \in DOMAIN s : s[i] \in Range(s) /\ s[i] \in Entry
  BY DEF Range

LEMMA InOrderEmpty == InOrder(<<>>)
  BY DEF InOrder

LEMMA InOrderConcat ==
    ASSUME NEW s \in Seq(Entry), NEW t \in Seq(Entry),
           InOrder(s), InOrder(t), Before(Range(s), Range(t))
    PROVE  InOrder(s \o t)
  <1>1. /\ DOMAIN s = 1..Len(s) /\ Len(s) \in Nat /\ DOMAIN t = 1..Len(t) /\ Len(t) \in Nat
        /\ DOMAIN (s \o t) = 1..(Len(s) + Len(t))
        /\ \A i \in 1..(Len(s) + Len(t)) :
              (s \o t)[i] = IF i <= Len(s) THEN s[i] ELSE t[i - Len(s)]
    BY ConcatProperties
  <1> SUFFICES ASSUME NEW i \in 1..(Len(s) + Len(t)), NEW j \in 1..(Len(s) + Len(t)), i < j,
                      (s \o t)[i][1] = (s \o t)[j][1]
               PROVE  (s \o t)[i][2] < (s \o t)[j][2]
    BY <1>1 DEF InOrder
  <1>2. CASE j <= Len(s)
    <2>1. i \in DOMAIN s /\ j \in DOMAIN s /\ (s \o t)[i] = s[i] /\ (s \o t)[j] = s[j]
      BY <1>1, <1>2
    <2> QED
      BY <2>1 DEF InOrder
  <1>3. CASE i <= Len(s) /\ ~(j <= Len(s))
    <2>1. /\ i \in DOMAIN s /\ j - Len(s) \in DOMAIN t
          /\ (s \o t)[i] = s[i] /\ (s \o t)[j] = t[j - Len(s)]
      BY <1>1, <1>3
    <2> QED
      BY <2>1, InRange DEF Before
  <1>4. CASE ~(i <= Len(s))
    <2>1. /\ i - Len(s) \in DOMAIN t /\ j - Len(s) \in DOMAIN t /\ i - Len(s) < j - Len(s)
          /\ (s \o t)[i] = t[i - Len(s)] /\ (s \o t)[j] = t[j - Len(s)]
      BY <1>1, <1>4
    <2> QED
      BY <2>1 DEF InOrder
  <1> QED
    BY <1>2, <1>3, <1>4

LEMMA InOrderAppend ==
    ASSUME NEW s \in Seq(Entry), NEW e \in Entry, InOrder(s), Before(Range(s), {e})
    PROVE  InOrder(Append(s, e))
  <1>1. <<e>> \in Seq(Entry) /\ DOMAIN <<e>> = {1} /\ <<e>>[1] = e
    OBVIOUS
  <1>2. InOrder(<<e>>) /\ Range(<<e>>) = {e}
    BY <1>1 DEF InOrder, Range
  <1>3. Append(s, e) = s \o <<e>>
    BY AppendIsConcat
  <1> QED
    BY <1>1, <1>2, <1>3, InOrderConcat

LEMMA InOrderTail ==
    ASSUME NEW s \in Seq(Entry), s # <<>>, InOrder(s)
    PROVE  InOrder(Tail(s)) /\ Before({Head(s)}, Range(Tail(s)))
  <1>1. /\ DOMAIN s = 1..Len(s) /\ Len(s) \in Nat \ {0} /\ Head(s) = s[1]
        /\ DOMAIN Tail(s) = 1..(Len(s) - 1)
        /\ \A i \in 1..(Len(s) - 1) : Tail(s)[i] = s[i + 1]
    BY HeadTailProperties, EmptySeq
  <1>2. \A i \in 1..(Len(s) - 1) : i + 1 \in 1..Len(s) /\ 1 < i + 1
    BY <1>1
  <1>3. \A i, j \in 1..(Len(s) - 1) : i < j => i + 1 < j + 1
    BY <1>1
  <1>4. InOrder(Tail(s))
    BY <1>1, <1>2, <1>3 DEF InOrder
  <1>5. 1 \in 1..Len(s)
    BY <1>1
  <1>6. Before({Head(s)}, Range(Tail(s)))
    BY <1>1, <1>2, <1>5 DEF InOrder, Before, Range
  <1> QED
    BY <1>4, <1>6

\* Entries in order are all different.
LEMMA InOrderCount ==
    ASSUME NEW s \in Seq(Entry), InOrder(s)
    PROVE  IsFiniteSet(Range(s)) /\ Cardinality(Range(s)) = Len(s)
  <1>1. DOMAIN s = 1..Len(s) /\ Len(s) \in Nat
    OBVIOUS
  <1>2. ASSUME NEW i \in 1..Len(s), NEW j \in 1..Len(s), i < j PROVE s[i] # s[j]
    <2>1. s[i][1] = s[j][1] => s[i][2] < s[j][2]
      BY <1>1, <1>2 DEF InOrder
    <2>2. s[i][2] \in Nat /\ s[j][2] \in Nat
      BY <1>1, InRange DEF Entry
    <2> QED
      BY <2>1, <2>2
  <1>3. Distinct(s)
    BY <1>1, <1>2 DEF Distinct
  <1> QED
    BY <1>3, DistinctCount

-------------------------------------------------------------------------------
\* Types and places

\* TypeOK, one conjunct for each variable.
Types ==
    /\ buffer \in Seq(Entry) /\ Len(buffer) <= BufferSize
    /\ batch \in Seq(Entry) /\ Len(batch) <= BatchSize
    /\ db \in Seq(Entry)
    /\ stats \in [buffered : Int, flushed : Nat, dropped : Nat]
    /\ loop \in {"select", "flush", "account", "discard", "drain", "done"}
    /\ back \in {"select", "drain", "done"}
    /\ discarded \in Nat
    /\ sender \in [Senders -> {"idle", "send", "parked", "try", "count"}]
    /\ todo \in [Senders -> Seq(Entry)]
    /\ made \in [Senders -> Nat] /\ \A s \in Senders : made[s] <= MaxEntries[s]
    /\ clearer \in {"idle", "offer", "wait", "truncate"}
    /\ closer \in {"idle", "close", "wait", "dbClose", "end"}
    /\ closed \in BOOLEAN /\ cancelled \in BOOLEAN /\ dbClosed \in BOOLEAN
    /\ panicked \in BOOLEAN /\ timedOut \in BOOLEAN
    /\ sent \subseteq Entry /\ gone \subseteq Entry /\ old \subseteq Entry
    /\ clears \in 0..MaxClears

LEMMA SameTypes == TypeOK <=> Types
  BY DEF TypeOK, Types

LEMMA InitTypeOK == Init => Types
  <1> SUFFICES ASSUME Init PROVE Types
    OBVIOUS
  <1>1. <<>> \in Seq(Entry) /\ Len(<<>>) = 0
    BY EmptySeq
  <1>2. sender \in [Senders -> {"idle", "send", "parked", "try", "count"}]
    BY DEF Init
  <1>3. todo \in [Senders -> Seq(Entry)]
    BY <1>1 DEF Init
  <1>4. made \in [Senders -> Nat] /\ \A s \in Senders : made[s] <= MaxEntries[s]
    BY AsyncStorageAssumption DEF Init
  <1>5. stats \in [buffered : Int, flushed : Nat, dropped : Nat]
    BY DEF Init
  <1>6. buffer \in Seq(Entry) /\ batch \in Seq(Entry) /\ db \in Seq(Entry)
    BY <1>1 DEF Init
  <1>7. Len(buffer) <= BufferSize /\ Len(batch) <= BatchSize
    BY <1>1, AsyncStorageAssumption DEF Init
  <1>8. clears \in 0..MaxClears
    BY <1>1, AsyncStorageAssumption DEF Init
  <1> QED
    BY <1>1, <1>2, <1>3, <1>4, <1>5, <1>6, <1>7, <1>8 DEF Init, Types

LEMMA HeadOfTodo ==
    ASSUME Types, Places, Numbered, NEW s \in Senders, sender[s] # "idle"
    PROVE  /\ todo[s] \in Seq(Entry) /\ Len(todo[s]) \in Nat \ {0}
           /\ Head(todo[s]) = <<s, made[s] - Len(todo[s]) + 1>> /\ Head(todo[s]) \in Entry
           /\ Tail(todo[s]) \in Seq(Entry) /\ Len(Tail(todo[s])) = Len(todo[s]) - 1
           /\ \A i \in 1..(Len(todo[s]) - 1) : Tail(todo[s])[i] = todo[s][i + 1]
  <1>1. todo[s] \in Seq(Entry) /\ todo[s] # <<>>
    BY DEF Types, Numbered
  <1>2. Len(todo[s]) \in Nat \ {0} /\ Head(todo[s]) = todo[s][1]
    BY <1>1, EmptySeq, HeadTailProperties
  <1>3. todo[s][1] = <<s, made[s] - Len(todo[s]) + 1>>
    BY <1>2 DEF Numbered
  <1> QED
    BY <1>1, <1>2, <1>3, HeadTailProperties

Stats == [buffered : Int, flushed : Nat, dropped : Nat]

\* What an update of stats does to its fields.
LEMMA StatsFields ==
    ASSUME NEW r \in Stats
    PROVE  r.buffered \in Int /\ r.flushed \in Nat /\ r.dropped \in Nat
  BY DEF Stats

LEMMA BufferedUpdate ==
    ASSUME NEW r \in Stats, NEW b \in Int, NEW q, q = [r EXCEPT !.buffered = b]
    PROVE  q \in Stats /\ q.buffered = b /\ q.dropped = r.dropped
  BY DEF Stats

LEMMA DroppedUpdate ==
    ASSUME NEW r \in Stats, NEW n \in Nat, NEW q, q = [r EXCEPT !.dropped = n]
    PROVE  q \in Stats /\ q.buffered = r.buffered /\ q.dropped = n
  BY DEF Stats

LEMMA StatsStep ==
    ASSUME Types, Places, Numbered
    PROVE  /\ stats \in Stats
           /\ stats.buffered \in Int /\ stats.dropped \in Nat
           /\ \A s \in Senders :
                 SaveCancelled(s) \/ TryFull(s) =>
                     /\ stats' \in Stats /\ stats'.buffered = stats.buffered
                     /\ stats'.dropped = stats.dropped + 1
           /\ \A s \in Senders :
                 SendCancelled(s) =>
                     /\ stats' \in Stats /\ stats'.buffered = stats.buffered
                     /\ stats'.dropped = stats.dropped + Len(todo[s])
           /\ \A s \in Senders :
                 Count(s) =>
                     /\ stats' \in Stats /\ stats'.buffered = stats.buffered + 1
                     /\ stats'.dropped = stats.dropped
           /\ Account =>
                 /\ stats' \in Stats /\ stats'.buffered = stats.buffered - Len(batch)
                 /\ stats'.dropped = stats.dropped
           /\ Discarded =>
                 /\ stats' \in Stats /\ stats'.dropped = stats.dropped
                 /\ stats'.buffered = BufferedAfterClear /\ stats'.buffered >= 0
  <1>1. stats \in Stats
    BY DEF Types, Stats
  <1>2. stats.buffered \in Int /\ stats.dropped \in Nat /\ stats.flushed \in Nat
    BY <1>1, StatsFields
  <1>3. ASSUME NEW s \in Senders, SaveCancelled(s) \/ TryFull(s)
        PROVE  /\ stats' \in Stats /\ stats'.buffered = stats.buffered
               /\ stats'.dropped = stats.dropped + 1
    <2>1. stats' = [stats EXCEPT !.dropped = stats.dropped + 1]
      BY <1>3 DEF SaveCancelled, TryFull
    <2>2. stats.dropped + 1 \in Nat
      BY <1>2
    <2> QED
      BY <1>1, <2>1, <2>2, DroppedUpdate
  <1>4. ASSUME NEW s \in Senders, SendCancelled(s)
        PROVE  /\ stats' \in Stats /\ stats'.buffered = stats.buffered
               /\ stats'.dropped = stats.dropped + Len(todo[s])
    <2>1. Len(todo[s]) \in Nat
      BY DEF Types
    <2> QED
      <3>1. stats' = [stats EXCEPT !.dropped = stats.dropped + Len(todo[s])]
        BY <1>4 DEF SendCancelled, Remaining
      <3>2. stats.dropped + Len(todo[s]) \in Nat
        BY <1>2, <2>1
      <3> QED
        BY <1>1, <3>1, <3>2, DroppedUpdate
  <1>5. ASSUME NEW s \in Senders, Count(s)
        PROVE  /\ stats' \in Stats /\ stats'.buffered = stats.buffered + 1
               /\ stats'.dropped = stats.dropped
    <2>1. stats' = [stats EXCEPT !.buffered = stats.buffered + 1]
      BY <1>5 DEF Count
    <2>2. stats.buffered + 1 \in Int
      BY <1>2
    <2> QED
      BY <1>1, <2>1, <2>2, BufferedUpdate
  <1>6. ASSUME Account
        PROVE  /\ stats' \in Stats /\ stats'.buffered = stats.buffered - Len(batch)
               /\ stats'.dropped = stats.dropped
    <2>1. Len(batch) \in Nat
      BY DEF Types
    <2> DEFINE n == stats.flushed + Len(batch)
               b == stats.buffered - Len(batch)
    <2>2. stats' = [stats EXCEPT !.flushed = n, !.buffered = b]
      BY <1>6 DEF Account, Flushed
    <2>3. n \in Nat /\ b \in Int
      BY <1>2, <2>1
    <2> HIDE DEF n, b
    <2>4. stats' \in Stats /\ stats'.buffered = b /\ stats'.dropped = stats.dropped
      BY <1>1, <2>2, <2>3 DEF Stats
    <2> QED
      BY <2>4 DEF b
  <1>7. ASSUME Discarded
        PROVE  /\ stats' \in Stats /\ stats'.dropped = stats.dropped
               /\ stats'.buffered = BufferedAfterClear /\ stats'.buffered >= 0
    <2>1. discarded \in Nat
      BY DEF Types
    <2>2. BufferedAfterClear \in Nat
      BY <1>2, <2>1 DEF BufferedAfterClear
    <2> QED
      <3>1. stats' = [stats EXCEPT !.buffered = BufferedAfterClear]
        BY <1>7 DEF Discarded
      <3> QED
        BY <1>1, <2>2, <3>1, BufferedUpdate
  <1> QED
    BY <1>1, <1>2, <1>3, <1>4, <1>5, <1>6, <1>7

LEMMA CallTypes ==
    ASSUME Types, NEW s \in Senders, NEW k \in Nat, NEW step \in {"send", "try"}, Call(s, k, step)
    PROVE  /\ sender' \in [Senders -> {"idle", "send", "parked", "try", "count"}]
           /\ todo' \in [Senders -> Seq(Entry)]
           /\ made' \in [Senders -> Nat] /\ \A t \in Senders : made'[t] <= MaxEntries[t]
  <1> DEFINE entries == [i \in 1..k |-> <<s, made[s] + i>>]
  <1>1. made[s] \in Nat
    BY DEF Types
  <1>2. \A i \in 1..k : <<s, made[s] + i>> \in Entry
    BY <1>1 DEF Entry
  <1>3. entries \in Seq(Entry)
    BY <1>2
  <1>4. todo' = [todo EXCEPT ![s] = entries]
    BY DEF Call
  <1> HIDE DEF entries
  <1>5. todo' \in [Senders -> Seq(Entry)]
    BY <1>3, <1>4 DEF Types
  <1>6. sender' \in [Senders -> {"idle", "send", "parked", "try", "count"}]
    BY DEF Types, Call
  <1>7. made' \in [Senders -> Nat] /\ \A t \in Senders : made'[t] <= MaxEntries[t]
    BY SMTT(30), <1>1, AsyncStorageAssumption DEF Types, Call
  <1> QED
    BY <1>5, <1>6, <1>7

LEMMA NextTypes == Types /\ Places /\ Numbered /\ [Next]_vars => Types'
  <1> SUFFICES ASSUME Types, Places, Numbered, [Next]_vars PROVE Types'
    OBVIOUS
  <1> USE AsyncStorageAssumption
  <1>1. ASSUME NEW s \in Senders, NEW k \in 1..MaxEntries[s], SaveBatch(s, k) PROVE Types'
    <2>1. Call(s, k, "send") /\ k \in Nat
      BY <1>1 DEF SaveBatch
    <2>2. UNCHANGED <<buffer, closed, cancelled, stats, db, dbClosed, loop, batch, back, discarded,
                      clearer, closer, clears, timedOut, old, panicked, sent, gone>>
      BY <1>1 DEF SaveBatch, channel, database, writer, others, history
    <2> QED
      BY SMTT(30), <2>1, <2>2, CallTypes DEF Types
  <1>2. ASSUME NEW s \in Senders, Save(s) PROVE Types'
    <2>1. Call(s, 1, "try")
      BY <1>2 DEF Save
    <2>2. UNCHANGED <<buffer, closed, cancelled, stats, db, dbClosed, loop, batch, back, discarded,
                      clearer, closer, clears, timedOut, old, panicked, sent, gone>>
      BY <1>2 DEF Save, channel, database, writer, others, history
    <2> QED
      BY SMTT(30), <2>1, <2>2, CallTypes DEF Types
  <1>3. ASSUME NEW s \in Senders, SaveCancelled(s) PROVE Types'
    <2>1. stats' \in [buffered : Int, flushed : Nat, dropped : Nat]
      BY <1>3, StatsStep DEF Stats
    <2>2. made' \in [Senders -> Nat] /\ \A t \in Senders : made'[t] <= MaxEntries[t]
      BY SMTT(30), <1>3 DEF SaveCancelled, Types
    <2>3. UNCHANGED <<buffer, closed, cancelled, sender, todo, db, dbClosed, loop, batch, back, discarded,
                      clearer, closer, clears, timedOut, old, panicked, sent, gone>>
      BY <1>3 DEF SaveCancelled, channel, database, writer, others, history
    <2> QED
      BY SMTT(30), <2>1, <2>2, <2>3 DEF Types
  <1>4. ASSUME NEW s \in Senders, HasRoom, Put(s), sender[s] # "idle" PROVE Types'
    <2>1. Head(todo[s]) \in Entry
      BY <1>4, HeadOfTodo
    <2>2. buffer' \in Seq(Entry) /\ Len(buffer') <= BufferSize
      BY <1>4, <2>1, AppendProperties DEF Put, HasRoom, Types
    <2>3. sent' \subseteq Entry
      BY <1>4, <2>1 DEF Put, Types
    <2>4. sender' \in [Senders -> {"idle", "send", "parked", "try", "count"}]
      BY <1>4 DEF Put, Types
    <2>5. UNCHANGED <<closed, cancelled, stats, db, dbClosed, loop, batch, back, discarded, todo, made,
                      clearer, closer, clears, timedOut, old, panicked, gone>>
      BY <1>4 DEF Put, database, writer, others
    <2> QED
      BY <2>2, <2>3, <2>4, <2>5 DEF Types
  <1>5. ASSUME NEW s \in Senders, Park(s) PROVE Types'
    BY <1>5 DEF Types, Park, channel, database, writer, others, history
  <1>6. ASSUME NEW s \in Senders, SendCancelled(s) \/ Count(s) \/ TryFull(s) PROVE Types'
    <2>1. todo[s] \in Seq(Entry) /\ <<>> \in Seq(Entry) /\ Len(todo[s]) \in Nat
      BY DEF Types
    <2>2. stats' \in [buffered : Int, flushed : Nat, dropped : Nat]
      BY <1>6, StatsStep DEF Stats
    <2>3. sender' \in [Senders -> {"idle", "send", "parked", "try", "count"}]
      BY <1>6 DEF SendCancelled, Count, TryFull, Types
    <2>4. Count(s) => Tail(todo[s]) \in Seq(Entry)
      BY HeadOfTodo DEF Count
    <2>5. todo' \in [Senders -> Seq(Entry)]
      BY <1>6, <2>1, <2>4 DEF SendCancelled, Count, TryFull, Types
    <2>6. UNCHANGED <<buffer, closed, cancelled, db, dbClosed, loop, batch, back, discarded, made,
                      clearer, closer, clears, timedOut, old, panicked, sent, gone>>
      BY <1>6 DEF SendCancelled, Count, TryFull, channel, database, writer, others, history
    <2> QED
      BY SMTT(30), <2>2, <2>3, <2>5, <2>6 DEF Types
  <1>7. ASSUME NEW s \in Senders, SendOnClosed(s) PROVE Types'
    BY <1>7 DEF Types, SendOnClosed, channel, database, writer, senders, others, history
  <1>8. ASSUME NEW from \in {"select", "drain"}, Receive(from) PROVE Types'
    <2>1. Head(buffer) \in Entry /\ Tail(buffer) \in Seq(Entry) /\ Len(Tail(buffer)) = Len(buffer) - 1
      BY <1>8, HeadTailProperties DEF Receive, Types
    <2>2. /\ Append(batch, Head(buffer)) \in Seq(Entry)
          /\ Len(Append(batch, Head(buffer))) = Len(batch) + 1
      BY <2>1, AppendProperties DEF Types
    <2>3. Len(batch) < BatchSize
      BY <1>8 DEF Receive, Places
    <2>4. batch' \in Seq(Entry) /\ Len(batch') <= BatchSize
      BY <1>8, <2>2, <2>3 DEF Receive, Types
    <2>5. buffer' \in Seq(Entry) /\ Len(buffer') <= BufferSize
      BY <1>8, <2>1 DEF Receive, Types
    <2>6. /\ loop' \in {"select", "flush", "account", "discard", "drain", "done"}
          /\ back' \in {"select", "drain", "done"}
      BY <1>8 DEF Receive, Types
    <2>7. UNCHANGED <<closed, cancelled, stats, db, dbClosed, discarded, sender, todo, made,
                      clearer, closer, clears, timedOut, old, panicked, sent, gone>>
      BY <1>8 DEF Receive, database, senders, others, history
    <2> QED
      BY <2>4, <2>5, <2>6, <2>7 DEF Types
  <1>9. Finish \/ Tick \/ BeginDrain => Types'
    BY DEF Types, Finish, Tick, BeginDrain, AfterCancel, channel, database, senders, others, history
  <1>10. FlushStored => Types'
    BY ConcatProperties DEF Types, FlushStored, channel, senders, others, history
  <1>11. FlushFails => Types'
    BY RangeOfSeq DEF Types, FlushFails, FreshBatch, channel, database, senders, others
  <1>12. Account => Types'
    <2> SUFFICES ASSUME Account PROVE Types'
      OBVIOUS
    <2>1. stats' \in [buffered : Int, flushed : Nat, dropped : Nat]
      BY StatsStep DEF Stats
    <2> QED
      BY SMTT(30), <2>1 DEF Types, Account, FreshBatch, channel, database, senders, others, history
  <1>13. Clear => Types'
    BY DEF Types, Clear, channel, database, writer, senders, history
  <1>14. ClearAccepted => Types'
    BY RangeOfSeq DEF Types, ClearAccepted, BatchAfterClear, channel, database, senders
  <1>15. ClearCancelled => Types'
    BY DEF Types, ClearCancelled, channel, database, writer, senders, history
  <1>16. Discard => Types'
    <2> SUFFICES ASSUME Discard PROVE Types'
      OBVIOUS
    <2>1. Head(buffer) \in Entry /\ Tail(buffer) \in Seq(Entry) /\ Len(Tail(buffer)) = Len(buffer) - 1
      BY HeadTailProperties DEF Discard, Types
    <2>2. buffer' \in Seq(Entry) /\ Len(buffer') <= BufferSize /\ gone' \subseteq Entry
      BY <2>1 DEF Discard, Types
    <2> QED
      BY <2>2 DEF Types, Discard, database, senders, others
  <1>17. Discarded => Types'
    <2> SUFFICES ASSUME Discarded PROVE Types'
      OBVIOUS
    <2>1. stats' \in [buffered : Int, flushed : Nat, dropped : Nat]
      BY StatsStep DEF Stats
    <2>2. /\ loop' = "select" /\ clearer' = "truncate" /\ discarded' = 0
          /\ UNCHANGED <<buffer, closed, cancelled, db, dbClosed, batch, back, sender, todo, made,
                         closer, clears, timedOut, old, panicked, sent, gone>>
      BY DEF Discarded, AfterDiscard, channel, database, senders, history
    <2> QED
      BY <2>1, <2>2 DEF Types
  <1>18. Truncate => Types'
    <2> SUFFICES ASSUME Truncate PROVE Types'
      OBVIOUS
    <2>1. db' \in Seq(Entry)
      <3>1. (db' = <<>>) \/ db' = db
        BY DEF Truncate
      <3>2. <<>> \in Seq(Entry) /\ db \in Seq(Entry)
        BY DEF Types
      <3> QED
        BY <3>1, <3>2
    <2>2. Range(db) \subseteq Entry
      BY RangeOfSeq DEF Types
    <2>3. gone' \subseteq Entry
      BY <2>2 DEF Truncate, Types
    <2> QED
      BY <2>1, <2>3 DEF Types, Truncate, channel, writer, senders
  <1>19. Cancel \/ CloseBuffer \/ EndWait \/ CloseDb => Types'
    BY DEF Types, Cancel, CloseBuffer, EndWait, CloseDb, channel, database, writer, senders, history
  <1>20. UNCHANGED vars => Types'
    BY DEF Types, vars, channel, database, writer, senders, others, history
  <1> QED
    BY <1>1, <1>2, <1>3, <1>4, <1>5, <1>6, <1>7, <1>8, <1>9, <1>10, <1>11, <1>12, <1>13, <1>14,
       <1>15, <1>16, <1>17, <1>18, <1>19, <1>20
       DEF Next, SenderStep, Send, SendParked, TrySend, WriterStep, ClearStep, CloseStep

LEMMA NextPlaces == Types /\ Places /\ Numbered /\ [Next]_vars => Places'
  <1> SUFFICES ASSUME Types, Places, Numbered, [Next]_vars PROVE Places'
    OBVIOUS
  <1> USE AsyncStorageAssumption
  <1>1. ASSUME NEW s \in Senders,
               \/ \E k \in 1..MaxEntries[s] : SaveBatch(s, k)
               \/ Save(s) \/ SaveCancelled(s) \/ Park(s) \/ SendCancelled(s) \/ Count(s)
               \/ TryFull(s) \/ SendOnClosed(s)
        PROVE  Places'
    <2>1. UNCHANGED <<buffer, closed, loop, batch, back, closer, timedOut, clearer, clears>>
      BY <1>1 DEF SaveBatch, Save, SaveCancelled, Park, SendCancelled, Count, TryFull,
                  SendOnClosed, channel, writer, others
    <2> QED
      BY <2>1 DEF Places
  <1>2. ASSUME NEW s \in Senders, HasRoom, Put(s) PROVE Places'
    <2>1. UNCHANGED <<closed, loop, batch, back, closer, timedOut, clearer, clears>> /\ ~closed
      BY <1>2 DEF Put, HasRoom, writer, others
    <2> QED
      BY <2>1 DEF Places
  <1>3. ASSUME NEW from \in {"select", "drain"}, Receive(from) PROVE Places'
    <2>1. /\ Len(batch) \in Nat /\ Len(batch') \in Nat
          /\ loop = from /\ buffer # <<>>
          /\ IF Len(batch') >= BatchSize THEN loop' = "flush" /\ back' = from
                                         ELSE UNCHANGED <<loop, back>>
          /\ UNCHANGED <<closed, closer, timedOut, clearer, clears>>
      <3>1. batch' \in Seq(Entry) /\ batch \in Seq(Entry)
        BY NextTypes DEF Types
      <3>2. Len(batch) \in Nat /\ Len(batch') \in Nat
        BY <3>1
      <3> QED
        BY <1>3, <3>2 DEF Receive, Full, others
    <2> QED
      BY <1>3, <2>1 DEF Places
  <1>4. Finish \/ Tick \/ BeginDrain => Places'
    BY DEF Places, Types, Finish, Tick, TickDue, BeginDrain, AfterCancel, channel, others
  <1>5. FlushStored => Places'
    BY DEF Places, Types, FlushStored, channel, others
  <1>6. FlushFails \/ Account => Places'
    <2> SUFFICES ASSUME FlushFails \/ Account PROVE Places'
      OBVIOUS
    <2>1. Len(<<>>) = 0 /\ batch' = <<>> /\ loop' = back /\ back' = "select"
          /\ loop \in {"flush", "account"}
          /\ UNCHANGED <<buffer, closed, closer, timedOut, clearer, clears>>
      BY DEF FlushFails, Account, FreshBatch, channel, others
    <2>2. Len(batch') < BatchSize
      BY <2>1
    <2> QED
      BY <2>1, <2>2 DEF Places, Types
  <1>7. Clear => Places'
    <2> SUFFICES ASSUME Clear PROVE Places'
      OBVIOUS
    <2>1. /\ clears' # 0 /\ clearer' = "offer" /\ clearer = "idle"
          /\ UNCHANGED <<buffer, closed, closer, timedOut, loop, batch, back>>
      BY DEF Clear, Types, channel, writer
    <2> QED
      BY <2>1 DEF Places
  <1>8. ClearAccepted => Places'
    BY DEF Places, ClearAccepted, BatchAfterClear, channel
  <1>9. ClearCancelled \/ Truncate => Places'
    BY DEF Places, ClearCancelled, Truncate, channel, writer
  <1>10. Discard => Places'
    BY DEF Places, Discard, others
  <1>11. Discarded => Places'
    <2> SUFFICES ASSUME Discarded PROVE Places'
      OBVIOUS
    <2>1. /\ loop' = "select" /\ clearer' = "truncate" /\ clearer = "wait" /\ batch = <<>>
          /\ UNCHANGED <<buffer, closed, closer, timedOut, clears, batch, back>>
      BY DEF Places, Discarded, AfterDiscard, channel
    <2>2. Len(batch') < BatchSize
      BY <2>1
    <2> QED
      BY <2>1, <2>2 DEF Places, Discarded
  <1>12. Cancel \/ CloseBuffer \/ CloseDb => Places'
    BY DEF Places, Cancel, CloseBuffer, CloseDb, channel, writer
  <1>14. EndWait => Places'
    <2> SUFFICES ASSUME EndWait PROVE Places'
      OBVIOUS
    <2>1. ~timedOut' => loop = "done"
      BY DEF EndWait
    <2>2. UNCHANGED <<buffer, closed, loop, batch, back, clearer, clears>>
      BY DEF EndWait, channel, writer
    <2> QED
      BY <2>1, <2>2 DEF Places
  <1>13. UNCHANGED vars => Places'
    BY DEF Places, vars, channel, writer, others
  <1> QED
    BY <1>1, <1>2, <1>3, <1>4, <1>5, <1>6, <1>7, <1>8, <1>9, <1>10, <1>11, <1>12, <1>13, <1>14
       DEF Next, SenderStep, Send, SendParked, TrySend, WriterStep, ClearStep, CloseStep

-------------------------------------------------------------------------------
\* What a sender has left to save

\* The step of one sender leaves the others alone.
Alone(s) == \A t \in Senders \ {s} : /\ sender'[t] = sender[t]
                                     /\ todo'[t] = todo[t] /\ made'[t] = made[t]

LEMMA CallFacts ==
    ASSUME Types, Numbered, NEW s \in Senders, NEW k \in Nat \ {0},
           NEW step \in {"send", "try"}, Call(s, k, step)
    PROVE  /\ Alone(s) /\ sender[s] = "idle" /\ sender'[s] = step /\ todo[s] = <<>>
           /\ made'[s] = made[s] + k /\ todo'[s] \in Seq(Entry) /\ Len(todo'[s]) = k
           /\ \A i \in 1..k : todo'[s][i] = <<s, made[s] + i>>
  <1> DEFINE entries == [i \in 1..k |-> <<s, made[s] + i>>]
  <1>1. made[s] \in Nat /\ sender[s] = "idle" /\ todo[s] = <<>>
    BY DEF Types, Numbered, Call
  <1>2. entries \in Seq(Entry)
    <2>1. \A i \in 1..k : <<s, made[s] + i>> \in Entry
      BY <1>1 DEF Entry
    <2> QED
      BY <2>1
  <1>3. Len(entries) = k /\ \A i \in 1..k : entries[i] = <<s, made[s] + i>>
    OBVIOUS
  <1>4. todo' = [todo EXCEPT ![s] = entries]
    BY DEF Call
  <1> HIDE DEF entries
  <1>5. Alone(s) /\ todo'[s] = entries
    BY <1>4 DEF Alone, Call, Types
  <1>6. sender'[s] = step /\ made'[s] = made[s] + k
    BY DEF Call, Types
  <1> QED
    BY <1>1, <1>2, <1>3, <1>5, <1>6

LEMMA PutFacts ==
    ASSUME Types, Places, Numbered, NEW s \in Senders, sender[s] # "idle", Put(s)
    PROVE  /\ Alone(s) /\ sender'[s] = "count" /\ todo'[s] = todo[s] /\ made'[s] = made[s]
           /\ Len(todo[s]) \in Nat \ {0}
           /\ sent' = sent \cup {<<s, made[s] - Len(todo[s]) + 1>>}
           /\ buffer' = Append(buffer, <<s, made[s] - Len(todo[s]) + 1>>)
  BY HeadOfTodo DEF Put, Alone, Types

LEMMA CountFacts ==
    ASSUME Types, Places, Numbered, NEW s \in Senders, Count(s)
    PROVE  /\ Alone(s) /\ sender[s] = "count" /\ made'[s] = made[s]
           /\ todo'[s] \in Seq(Entry) /\ Len(todo[s]) \in Nat \ {0}
           /\ Len(todo'[s]) = Len(todo[s]) - 1
           /\ sender'[s] = (IF Len(todo[s]) > 1 THEN "send" ELSE "idle")
           /\ \A i \in 1..(Len(todo[s]) - 1) : todo'[s][i] = todo[s][i + 1]
  <1>1. sender[s] = "count"
    BY DEF Count
  <1>2. todo'[s] = Tail(todo[s]) /\ Alone(s) /\ made'[s] = made[s]
        /\ sender'[s] = (IF Len(todo[s]) > 1 THEN "send" ELSE "idle")
    BY DEF Count, Alone, Types
  <1> QED
    BY <1>1, <1>2, HeadOfTodo

\* SendCancelled and TryFull give up what is left; Park only waits; the sender
\* of SaveCancelled has nothing left and makes one more entry.
LEMMA OtherFacts ==
    ASSUME Types, Places, Numbered, NEW s \in Senders
    PROVE  /\ SendCancelled(s) =>
                 /\ Alone(s) /\ sender[s] \in {"send", "parked"} /\ sender'[s] = "idle"
                 /\ todo'[s] = <<>> /\ made'[s] = made[s] /\ sent' = sent
           /\ TryFull(s) =>
                 /\ Alone(s) /\ sender[s] = "try" /\ sender'[s] = "idle" /\ Len(todo[s]) = 1
                 /\ todo'[s] = <<>> /\ made'[s] = made[s] /\ sent' = sent
           /\ Park(s) =>
                 /\ Alone(s) /\ sender[s] = "send" /\ sender'[s] = "parked"
                 /\ todo'[s] = todo[s] /\ made'[s] = made[s] /\ sent' = sent
           /\ SaveCancelled(s) =>
                 /\ Alone(s) /\ sender[s] = "idle" /\ sender'[s] = "idle" /\ todo[s] = <<>>
                 /\ todo'[s] = <<>> /\ made'[s] = made[s] + 1 /\ sent' = sent
  <1>1. ASSUME SendCancelled(s)
        PROVE  /\ Alone(s) /\ sender[s] \in {"send", "parked"} /\ sender'[s] = "idle"
               /\ todo'[s] = <<>> /\ made'[s] = made[s] /\ sent' = sent
    BY <1>1 DEF SendCancelled, Interruptible, Alone, Types, history
  <1>2. ASSUME TryFull(s)
        PROVE  /\ Alone(s) /\ sender[s] = "try" /\ sender'[s] = "idle" /\ Len(todo[s]) = 1
               /\ todo'[s] = <<>> /\ made'[s] = made[s] /\ sent' = sent
    BY <1>2 DEF TryFull, Alone, Types, Numbered, history
  <1>3. ASSUME Park(s)
        PROVE  /\ Alone(s) /\ sender[s] = "send" /\ sender'[s] = "parked"
               /\ todo'[s] = todo[s] /\ made'[s] = made[s] /\ sent' = sent
    BY <1>3 DEF Park, Alone, Types, history
  <1>4. ASSUME SaveCancelled(s)
        PROVE  /\ Alone(s) /\ sender[s] = "idle" /\ sender'[s] = "idle" /\ todo[s] = <<>>
               /\ todo'[s] = <<>> /\ made'[s] = made[s] + 1 /\ sent' = sent
    BY <1>4 DEF SaveCancelled, Alone, Types, Numbered, history
  <1> QED
    BY <1>1, <1>2, <1>3, <1>4

\* How a sender's step moves the number of its entries that are not sent.
LEMMA UnsentFacts ==
    ASSUME Types, Places, Numbered, NEW s \in Senders
    PROVE  /\ Unsent(s) \in Nat /\ made[s] \in Nat
           /\ Len(todo[s]) \in Nat /\ (sender[s] = "count" => Len(todo[s]) > 0)
  <1>1. Len(todo[s]) \in Nat /\ made[s] \in Nat
    BY DEF Types
  <1>2. sender[s] = "count" => Len(todo[s]) > 0
    BY HeadOfTodo
  <1> QED
    BY <1>1, <1>2 DEF Unsent

LEMMA UnsentSteps ==
    ASSUME Types, Places, Numbered, NEW s \in Senders
    PROVE  /\ \A k \in Nat \ {0}, step \in {"send", "try"} :
                 Call(s, k, step) => Unsent(s) = 0 /\ Unsent(s)' = k
           /\ Put(s) /\ sender[s] \in {"send", "parked", "try"} =>
                 Unsent(s) = Len(todo[s]) /\ Unsent(s)' = Len(todo[s]) - 1
           /\ Count(s) => Unsent(s)' = Unsent(s)
           /\ SendCancelled(s) => Unsent(s) = Len(todo[s]) /\ Unsent(s)' = 0
           /\ TryFull(s) => Unsent(s) = 1 /\ Unsent(s)' = 0
           /\ Park(s) => Unsent(s)' = Unsent(s)
           /\ SaveCancelled(s) => Unsent(s) = 0 /\ Unsent(s)' = 0
           /\ \A t \in Senders : Alone(t) /\ s # t => Unsent(s)' = Unsent(s)
  <1>0. Len(<<>>) = 0
    OBVIOUS
  <1>1. ASSUME NEW k \in Nat \ {0}, NEW step \in {"send", "try"}, Call(s, k, step)
        PROVE  Unsent(s) = 0 /\ Unsent(s)' = k
    <2>1. /\ sender[s] # "count" /\ sender'[s] # "count" /\ todo[s] = <<>> /\ Len(todo'[s]) = k
      BY <1>1, CallFacts
    <2> QED
      BY <1>0, <2>1 DEF Unsent
  <1>2. ASSUME Put(s), sender[s] \in {"send", "parked", "try"}
        PROVE  Unsent(s) = Len(todo[s]) /\ Unsent(s)' = Len(todo[s]) - 1
    <2>1. /\ sender[s] # "count" /\ sender'[s] = "count" /\ todo'[s] = todo[s]
          /\ Len(todo[s]) \in Nat
      BY <1>2, PutFacts, UnsentFacts
    <2> QED
      BY <2>1 DEF Unsent
  <1>3. ASSUME Count(s) PROVE Unsent(s)' = Unsent(s)
    <2>1. /\ sender[s] = "count" /\ Len(todo'[s]) = Len(todo[s]) - 1
          /\ sender'[s] # "count" /\ Len(todo[s]) \in Nat
      BY <1>3, CountFacts
    <2> QED
      BY <2>1 DEF Unsent
  <1>4. ASSUME SendCancelled(s) PROVE Unsent(s) = Len(todo[s]) /\ Unsent(s)' = 0
    <2>1. /\ sender[s] # "count" /\ sender'[s] # "count" /\ todo'[s] = <<>>
          /\ Len(todo[s]) \in Nat
      BY <1>4, OtherFacts, UnsentFacts
    <2> QED
      BY <1>0, <2>1 DEF Unsent
  <1>5. ASSUME TryFull(s) PROVE Unsent(s) = 1 /\ Unsent(s)' = 0
    <2>1. /\ sender[s] # "count" /\ sender'[s] # "count" /\ todo'[s] = <<>>
          /\ Len(todo[s]) = 1
      BY <1>5, OtherFacts
    <2> QED
      BY <1>0, <2>1 DEF Unsent
  <1>6. ASSUME Park(s) PROVE Unsent(s)' = Unsent(s)
    <2>1. sender[s] # "count" /\ sender'[s] # "count" /\ todo'[s] = todo[s]
      BY <1>6, OtherFacts
    <2> QED
      BY <2>1 DEF Unsent
  <1>7. ASSUME SaveCancelled(s) PROVE Unsent(s) = 0 /\ Unsent(s)' = 0
    <2>1. /\ sender[s] # "count" /\ sender'[s] # "count" /\ todo[s] = <<>> /\ todo'[s] = <<>>
      BY <1>7, OtherFacts
    <2> QED
      BY <1>0, <2>1 DEF Unsent
  <1>8. ASSUME NEW t \in Senders, Alone(t), s # t PROVE Unsent(s)' = Unsent(s)
    <2>1. sender'[s] = sender[s] /\ todo'[s] = todo[s]
      BY <1>8 DEF Alone
    <2> QED
      BY <2>1 DEF Unsent
  <1> QED
    BY <1>1, <1>2, <1>3, <1>4, <1>5, <1>6, <1>7, <1>8

\* The step of sender s keeps Numbered when it keeps it for s.
LEMMA NumberedStep ==
    ASSUME Types, Places, Numbered, NEW s \in Senders, Alone(s),
           sender'[s] = "idle" <=> todo'[s] = <<>>,
           sender'[s] = "try" => Len(todo'[s]) = 1,
           \A i \in 1..Len(todo'[s]) : todo'[s][i] = <<s, made'[s] - Len(todo'[s]) + i>>,
           \A e \in sent' : e \in sent \/ e = <<s, made'[s] - Unsent(s)'>>,
           made[s] - Unsent(s) <= made'[s] - Unsent(s)',
           made'[s] \in Nat, Unsent(s)' \in Nat
    PROVE  Numbered'
  <1>1. ASSUME NEW t \in Senders
        PROVE  /\ sender'[t] = "idle" <=> todo'[t] = <<>>
               /\ sender'[t] = "try" => Len(todo'[t]) = 1
               /\ \A i \in 1..Len(todo'[t]) : todo'[t][i] = <<t, made'[t] - Len(todo'[t]) + i>>
    BY SMTT(30) DEF Numbered, Alone
  <1>2. ASSUME NEW e \in sent' PROVE e[2] <= made'[e[1]] - Unsent(e[1])'
    <2>1. CASE e = <<s, made'[s] - Unsent(s)'>>
      BY <2>1
    <2>2. CASE e \in sent /\ e[1] = s
      <3>1. e[2] <= made[s] - Unsent(s) /\ e[2] \in Nat
        BY <2>2 DEF Numbered, Types, Entry
      <3> QED
        BY <2>2, <3>1, UnsentFacts
    <2>3. CASE e \in sent /\ e[1] # s
      <3>1. e[1] \in Senders
        BY <2>3 DEF Types, Entry
      <3>2. Unsent(e[1])' = Unsent(e[1]) /\ made'[e[1]] = made[e[1]]
        BY <2>3, <3>1 DEF Unsent, Alone
      <3> QED
        BY <2>3, <3>2 DEF Numbered
    <2> QED
      BY <1>2, <2>1, <2>2, <2>3
  <1> QED
    BY <1>1, <1>2 DEF Numbered

LEMMA NextNumbered == Types /\ Places /\ Numbered /\ [Next]_vars => Numbered'
  <1> SUFFICES ASSUME Types, Places, Numbered, [Next]_vars PROVE Numbered'
    OBVIOUS
  <1>1. ASSUME NEW s \in Senders, NEW k \in Nat \ {0}, NEW step \in {"send", "try"},
               Call(s, k, step), step = "try" => k = 1, sent' = sent
        PROVE  Numbered'
    <2>1. /\ Alone(s) /\ sender'[s] = step
          /\ made'[s] = made[s] + k /\ todo'[s] \in Seq(Entry) /\ Len(todo'[s]) = k
          /\ \A i \in 1..k : todo'[s][i] = <<s, made[s] + i>>
      BY <1>1, CallFacts
    <2>2. Unsent(s) = 0 /\ Unsent(s)' = k /\ made[s] \in Nat
      BY <1>1, UnsentSteps, UnsentFacts
    <2>3. todo'[s] # <<>> /\ \A i \in 1..k : (made[s] + k) - k + i = made[s] + i
      BY <2>1, <2>2, EmptySeq
    <2>4. /\ sender'[s] = "idle" <=> todo'[s] = <<>>
          /\ sender'[s] = "try" => Len(todo'[s]) = 1
      BY <1>1, <2>1, <2>3
    <2>5. \A i \in 1..Len(todo'[s]) : todo'[s][i] = <<s, made'[s] - Len(todo'[s]) + i>>
      BY <2>1, <2>3
    <2>6. made[s] - Unsent(s) <= made'[s] - Unsent(s)' /\ made'[s] \in Nat /\ Unsent(s)' \in Nat
      BY <2>1, <2>2
    <2> QED
      BY <1>1, <2>1, <2>4, <2>5, <2>6, NumberedStep
  <1>2. ASSUME NEW s \in Senders, Put(s), sender[s] \in {"send", "parked", "try"} PROVE Numbered'
    <2>1. /\ Alone(s) /\ sender'[s] = "count" /\ todo'[s] = todo[s] /\ made'[s] = made[s]
          /\ Len(todo[s]) \in Nat \ {0}
          /\ sent' = sent \cup {<<s, made[s] - Len(todo[s]) + 1>>}
      BY <1>2, PutFacts
    <2>2. Unsent(s) = Len(todo[s]) /\ Unsent(s)' = Len(todo[s]) - 1 /\ made[s] \in Nat
      BY <1>2, UnsentSteps, UnsentFacts
    <2>3. made[s] - Len(todo[s]) + 1 = made'[s] - Unsent(s)'
      BY <2>1, <2>2
    <2>4. todo'[s] # <<>>
      BY <1>2, <2>1 DEF Numbered
    <2>5. \A i \in 1..Len(todo'[s]) : todo'[s][i] = <<s, made'[s] - Len(todo'[s]) + i>>
      BY <2>1 DEF Numbered
    <2>6. made[s] - Unsent(s) <= made'[s] - Unsent(s)' /\ made'[s] \in Nat /\ Unsent(s)' \in Nat
      BY <2>1, <2>2
    <2>7. \A e \in sent' : e \in sent \/ e = <<s, made'[s] - Unsent(s)'>>
      BY <2>1, <2>3
    <2> QED
      BY <2>1, <2>4, <2>5, <2>6, <2>7, NumberedStep
  <1>3. ASSUME NEW s \in Senders, Count(s) PROVE Numbered'
    <2>1. /\ Alone(s) /\ sender[s] = "count" /\ made'[s] = made[s]
          /\ todo'[s] \in Seq(Entry) /\ Len(todo[s]) \in Nat \ {0}
          /\ Len(todo'[s]) = Len(todo[s]) - 1
          /\ sender'[s] = (IF Len(todo[s]) > 1 THEN "send" ELSE "idle")
          /\ \A i \in 1..(Len(todo[s]) - 1) : todo'[s][i] = todo[s][i + 1]
      BY <1>3, CountFacts
    <2>2. Unsent(s)' = Unsent(s) /\ Unsent(s) \in Nat /\ made[s] \in Nat
      BY <1>3, UnsentSteps, UnsentFacts
    <2>3. sent' = sent
      BY <1>3 DEF Count, history
    <2>4. sender'[s] = "idle" <=> todo'[s] = <<>>
      BY <2>1, EmptySeq
    <2>5. ASSUME NEW i \in 1..Len(todo'[s])
          PROVE  todo'[s][i] = <<s, made'[s] - Len(todo'[s]) + i>>
      <3>1. i + 1 \in 1..Len(todo[s]) /\ i \in 1..(Len(todo[s]) - 1)
        BY <2>1
      <3>2. todo'[s][i] = <<s, made[s] - Len(todo[s]) + (i + 1)>>
        BY <2>1, <3>1 DEF Numbered
      <3>3. made[s] - Len(todo[s]) + (i + 1) = made'[s] - Len(todo'[s]) + i
        BY SMTT(30), <2>1, <2>2
      <3> QED
        BY <3>2, <3>3
    <2>6. made[s] - Unsent(s) <= made'[s] - Unsent(s)' /\ made'[s] \in Nat /\ Unsent(s)' \in Nat
      BY <2>1, <2>2
    <2>7. sender'[s] # "try"
      BY <2>1
    <2> QED
      BY <2>1, <2>3, <2>4, <2>5, <2>6, <2>7, NumberedStep
  <1>4. ASSUME NEW s \in Senders, SendCancelled(s) \/ TryFull(s) \/ SaveCancelled(s)
        PROVE  Numbered'
    <2>1. /\ Alone(s) /\ sender'[s] = "idle" /\ todo'[s] = <<>> /\ sent' = sent
          /\ made'[s] \in {made[s], made[s] + 1}
      BY <1>4, OtherFacts
    <2>2. Unsent(s)' = 0 /\ Unsent(s) \in Nat /\ made[s] \in Nat
      BY <1>4, UnsentSteps, UnsentFacts
    <2>3. Len(todo'[s]) = 0
      BY <2>1, EmptySeq
    <2>4. made[s] - Unsent(s) <= made'[s] - Unsent(s)' /\ made'[s] \in Nat /\ Unsent(s)' \in Nat
      BY <2>1, <2>2
    <2>5. \A i \in 1..Len(todo'[s]) : FALSE
      BY <2>3
    <2> QED
      BY <2>1, <2>4, <2>5, NumberedStep
  <1>5. ASSUME NEW s \in Senders, Park(s) PROVE Numbered'
    <2>1. /\ Alone(s) /\ sender[s] = "send" /\ sender'[s] = "parked"
          /\ todo'[s] = todo[s] /\ made'[s] = made[s] /\ sent' = sent
      BY <1>5, OtherFacts
    <2>2. Unsent(s)' = Unsent(s) /\ Unsent(s) \in Nat /\ made[s] \in Nat
      BY <1>5, UnsentSteps, UnsentFacts
    <2>3. /\ made[s] - Unsent(s) <= made'[s] - Unsent(s)' /\ made'[s] \in Nat /\ Unsent(s)' \in Nat
          /\ todo'[s] # <<>>
      BY <2>1, <2>2 DEF Numbered
    <2>4. \A i \in 1..Len(todo'[s]) : todo'[s][i] = <<s, made'[s] - Len(todo'[s]) + i>>
      BY <2>1 DEF Numbered
    <2> QED
      BY <2>1, <2>3, <2>4, NumberedStep
  <1>6. ASSUME UNCHANGED <<sender, todo, made, sent>> PROVE Numbered'
    BY <1>6 DEF Numbered, Unsent
  <1>7. ASSUME NEW s \in Senders, NEW k \in 1..MaxEntries[s], SaveBatch(s, k) PROVE Numbered'
    <2>1. Call(s, k, "send") /\ sent' = sent /\ k \in Nat \ {0}
      BY <1>7 DEF SaveBatch, history
    <2> QED
      BY <2>1, <1>1
  <1>8. ASSUME NEW s \in Senders, Save(s) PROVE Numbered'
    <2>1. Call(s, 1, "try") /\ sent' = sent
      BY <1>8 DEF Save, history
    <2> QED
      BY <2>1, <1>1
  <1>9. ASSUME NEW s \in Senders, Send(s) \/ SendParked(s) \/ TrySend(s) PROVE Numbered'
    BY <1>9, <1>2 DEF Send, SendParked, TrySend
  <1>10. (\E s \in Senders : SendOnClosed(s)) \/ WriterStep \/ Clear \/ ClearStep \/ Cancel \/ CloseStep
            \/ UNCHANGED vars
         => UNCHANGED <<sender, todo, made, sent>>
    BY DEF SendOnClosed, WriterStep, Receive, Finish, Tick, BeginDrain, FlushStored, FlushFails,
           Account, Discard, Discarded, Clear, ClearStep, ClearAccepted, ClearCancelled, Truncate,
           Cancel, CloseStep, CloseBuffer, EndWait, CloseDb, vars, senders, history
  <1> QED
    BY <1>3, <1>4, <1>5, <1>6, <1>7, <1>8, <1>9, <1>10 DEF Next, SenderStep

-------------------------------------------------------------------------------
\* Where the entries are

LEMMA FlowTypes ==
    ASSUME Types
    PROVE  /\ db \in Seq(Entry) /\ batch \in Seq(Entry) /\ buffer \in Seq(Entry)
           /\ Pending \in Seq(Entry) /\ <<>> \in Seq(Entry)
           /\ Range(db) \subseteq Entry /\ Range(Pending) \subseteq Entry
           /\ Range(buffer) \subseteq Entry /\ Range(batch) \subseteq Entry
  <1>1. /\ db \in Seq(Entry) /\ batch \in Seq(Entry) /\ buffer \in Seq(Entry)
        /\ <<>> \in Seq(Entry)
    BY DEF Types
  <1>2. Pending \in Seq(Entry)
    BY <1>1 DEF Pending
  <1> QED
    BY <1>1, <1>2, RangeOfSeq

\* An entry that is sent was not sent before, nor any later one of its sender.
LEMMA PutFresh ==
    ASSUME Types, Places, Numbered, NEW s \in Senders,
           sender[s] \in {"send", "parked", "try"}, Put(s)
    PROVE  /\ Head(todo[s]) \in Entry /\ Head(todo[s]) \notin sent
           /\ Before(sent, {Head(todo[s])})
           /\ sent' = sent \cup {Head(todo[s])} /\ buffer' = Append(buffer, Head(todo[s]))
  <1> DEFINE e == <<s, made[s] - Len(todo[s]) + 1>>
  <1>1. /\ sent' = sent \cup {e} /\ buffer' = Append(buffer, e) /\ e = Head(todo[s]) /\ e \in Entry
        /\ Unsent(s) = Len(todo[s]) /\ Len(todo[s]) \in Nat /\ made[s] \in Nat
    BY PutFacts, HeadOfTodo, UnsentSteps, UnsentFacts
  <1>2. Before(sent, {e})
    <2> SUFFICES ASSUME NEW x \in sent, x[1] = s PROVE x[2] < e[2]
      BY DEF Before
    <2>1. x[2] <= made[s] - Unsent(s)
      BY DEF Numbered
    <2>2. x[2] \in Nat /\ e[2] = made[s] - Len(todo[s]) + 1
      BY DEF Types, Entry
    <2> QED
      BY <1>1, <2>1, <2>2
  <1>3. e \notin sent
    <2>1. e[2] \in Nat
      BY <1>1 DEF Entry
    <2>2. ~(e[2] < e[2])
      BY <2>1
    <2> QED
      BY <1>2, <2>2 DEF Before
  <1> QED
    BY <1>1, <1>2, <1>3

LEMMA PutFlow ==
    ASSUME Types, Places, Numbered, Flow, NEW s \in Senders,
           sender[s] \in {"send", "parked", "try"}, Put(s)
    PROVE  Flow'
  <1> DEFINE e == Head(todo[s])
  <1>1. sent' = sent \cup {e} /\ buffer' = Append(buffer, e) /\ e \in Entry
    BY PutFresh
  <1>2. UNCHANGED <<db, Pending, gone, old>>
    BY DEF Put, database, writer, others, Pending
  <1>3. Before(sent, {e})
    BY PutFresh
  <1>4. e \notin sent
    BY PutFresh
  <1>5. buffer \in Seq(Entry)
    BY FlowTypes
  <1> HIDE DEF e
  <1>6. Range(buffer') = Range(buffer) \cup {e}
    BY <1>1, <1>5, RangeAppend
  <1>7. Range(buffer) \subseteq sent /\ Range(db) \subseteq sent /\ Range(Pending) \subseteq sent /\ gone \subseteq sent
    BY DEF Flow
  <1>8. InOrder(buffer')
    <2>1. Before(Range(buffer), {e})
      BY <1>3, <1>7 DEF Before
    <2> QED
      BY <1>1, <1>5, <2>1, InOrderAppend DEF Flow
  <1>9. InOrder(db') /\ InOrder(Pending')
    BY <1>2 DEF Flow
  <1>10. /\ Before(Range(db'), Range(Pending')) /\ Before(Range(db'), Range(buffer'))
         /\ Before(Range(Pending'), Range(buffer'))
    BY <1>2, <1>3, <1>6, <1>7 DEF Flow, Before
  <1>11. /\ Range(db') \cup Range(Pending') \cup Range(buffer') \cup gone' = sent'
         /\ gone' \cap (Range(db') \cup Range(Pending') \cup Range(buffer')) = {}
    BY <1>1, <1>2, <1>4, <1>6, <1>7 DEF Flow
  <1>12. old' \subseteq sent' /\ IsFiniteSet(sent')
    BY <1>1, <1>2, FS_AddElement DEF Flow
  <1> QED
    BY <1>8, <1>9, <1>10, <1>11, <1>12 DEF Flow

LEMMA ReceiveFlow ==
    ASSUME Types, Flow, NEW from \in {"select", "drain"}, Receive(from)
    PROVE  Flow'
  <1> DEFINE h == Head(buffer)
  <1>1. /\ buffer \in Seq(Entry) /\ buffer # <<>> /\ h \in Entry /\ Tail(buffer) \in Seq(Entry)
        /\ batch \in Seq(Entry) /\ buffer' = Tail(buffer) /\ batch' = Append(batch, h)
    BY FlowTypes, HeadTailProperties DEF Receive
  <1>2. Pending = batch /\ Pending' = batch'
    BY DEF Receive, Pending
  <1>3. UNCHANGED <<db, gone, sent, old>>
    BY DEF Receive, database, history, others
  <1> HIDE DEF h
  <1>4. Range(buffer) = {h} \cup Range(buffer')
    BY <1>1, RangeTail DEF h
  <1>5. Range(Pending') = Range(Pending) \cup {h}
    BY <1>1, <1>2, RangeAppend
  <1>6. InOrder(buffer') /\ Before({h}, Range(buffer'))
    BY <1>1, InOrderTail DEF Flow, h
  <1>7. InOrder(Pending')
    <2>1. Before(Range(batch), {h})
      BY <1>2, <1>4 DEF Flow, Before
    <2> QED
      BY <1>1, <1>2, <2>1, InOrderAppend DEF Flow
  <1>8. /\ Before(Range(db'), Range(Pending')) /\ Before(Range(db'), Range(buffer'))
        /\ Before(Range(Pending'), Range(buffer'))
    BY <1>3, <1>4, <1>5, <1>6 DEF Flow, Before
  <1>9. /\ Range(db') \cup Range(Pending') \cup Range(buffer') \cup gone' = sent'
        /\ gone' \cap (Range(db') \cup Range(Pending') \cup Range(buffer')) = {}
    BY <1>3, <1>4, <1>5 DEF Flow
  <1> QED
    BY <1>3, <1>6, <1>7, <1>8, <1>9 DEF Flow

\* Entries of one place are not in the next.
LEMMA BeforeDisjoint ==
    ASSUME NEW S \in SUBSET Entry, NEW T \in SUBSET Entry, Before(S, T)
    PROVE  S \cap T = {}
  <1> SUFFICES ASSUME NEW x \in S, x \in T PROVE FALSE
    OBVIOUS
  <1>1. x[2] \in Nat /\ x[2] < x[2]
    BY DEF Before, Entry
  <1> QED
    BY <1>1

LEMMA NextFlow == Types /\ Places /\ Numbered /\ Flow /\ [Next]_vars => Flow'
  <1> SUFFICES ASSUME Types, Places, Numbered, Flow, [Next]_vars PROVE Flow'
    OBVIOUS
  <1>0. Range(<<>>) = {} /\ InOrder(<<>>)
    BY RangeEmpty, InOrderEmpty
  <1>1. ASSUME UNCHANGED <<db, buffer, Pending, gone, sent>>, old' \subseteq sent PROVE Flow'
    BY <1>1 DEF Flow
  <1>2. ASSUME NEW s \in Senders, Send(s) \/ SendParked(s) \/ TrySend(s) PROVE Flow'
    BY <1>2, PutFlow DEF Send, SendParked, TrySend
  <1>3. ASSUME NEW s \in Senders,
               \/ \E k \in 1..MaxEntries[s] : SaveBatch(s, k)
               \/ Save(s) \/ SaveCancelled(s) \/ Park(s) \/ SendCancelled(s) \/ Count(s)
               \/ TryFull(s) \/ SendOnClosed(s)
        PROVE  Flow'
    <2>1. UNCHANGED <<db, buffer, batch, loop, gone, sent, old>>
      BY <1>3 DEF SaveBatch, Save, SaveCancelled, Park, SendCancelled, Count, TryFull,
                  SendOnClosed, channel, database, writer, others, history
    <2>2. UNCHANGED <<db, buffer, Pending, gone, sent>> /\ old' \subseteq sent
      BY <2>1 DEF Pending, Flow
    <2> QED
      BY <1>1, <2>2
  <1>4. ASSUME NEW from \in {"select", "drain"}, Receive(from) PROVE Flow'
    BY <1>4, ReceiveFlow
  <1>5. ASSUME Finish \/ Tick \/ BeginDrain \/ Discarded PROVE Flow'
    <2>1. UNCHANGED <<db, buffer, Pending, gone, sent>>
      BY <1>5 DEF Finish, Tick, BeginDrain, AfterCancel, Discarded, channel, database, history, Pending
    <2>2. old' \subseteq sent
      BY <1>5 DEF Finish, Tick, BeginDrain, Discarded, others, Flow
    <2> QED
      BY <1>1, <2>1, <2>2
  <1>6. ASSUME FlushStored PROVE Flow'
    <2>1. /\ Pending = batch /\ Pending' = <<>> /\ db' = db \o batch
          /\ UNCHANGED <<buffer, gone, sent, old>>
      BY <1>6 DEF FlushStored, Pending, channel, history, others
    <2>2. Range(db') = Range(db) \cup Range(Pending) /\ InOrder(db')
      BY <2>1, FlowTypes, RangeConcat, InOrderConcat DEF Flow
    <2>3. InOrder(Pending') /\ InOrder(buffer') /\ Range(Pending') = {}
      BY <1>0, <2>1 DEF Flow
    <2> QED
      BY <2>1, <2>2, <2>3 DEF Flow, Before
  <1>7. ASSUME FlushFails \/ ClearAccepted PROVE Flow'
    <2>1. /\ Pending = batch /\ Pending' = <<>> /\ gone' = gone \cup Range(batch)
          /\ UNCHANGED <<db, buffer, sent, old>>
      BY <1>7 DEF FlushFails, ClearAccepted, FreshBatch, BatchAfterClear, Pending, channel,
                  database, others
    <2>2. InOrder(Pending') /\ Range(Pending') = {}
      BY <1>0, <2>1
    <2>3. Range(db) \cap Range(Pending) = {} /\ Range(Pending) \cap Range(buffer) = {}
      BY FlowTypes, BeforeDisjoint DEF Flow
    <2> QED
      BY <2>1, <2>2, <2>3 DEF Flow, Before
  <1>8. ASSUME Account PROVE Flow'
    <2>1. UNCHANGED <<db, buffer, Pending, gone, sent, old>>
      BY <1>8 DEF Account, FreshBatch, channel, database, history, others, Pending
    <2> QED
      BY <1>1, <2>1 DEF Flow
  <1>9. ASSUME Clear \/ ClearCancelled PROVE Flow'
    <2>1. UNCHANGED <<db, buffer, Pending, gone, sent>> /\ old' \subseteq sent
      BY <1>9 DEF Clear, ClearCancelled, channel, database, writer, history, Pending
    <2> QED
      BY <1>1, <2>1
  <1>10. ASSUME Discard PROVE Flow'
    <2>1. /\ buffer # <<>> /\ buffer' = Tail(buffer) /\ gone' = gone \cup {Head(buffer)}
          /\ UNCHANGED <<db, Pending, sent, old>>
      BY <1>10 DEF Discard, database, others, Pending
    <2>2. Range(buffer) = {Head(buffer)} \cup Range(buffer')
      BY <2>1, FlowTypes, RangeTail
    <2>3. InOrder(buffer') /\ Before({Head(buffer)}, Range(buffer'))
      BY <2>1, FlowTypes, InOrderTail DEF Flow
    <2>4. Head(buffer) \notin Range(buffer')
      <3>1. Range(buffer') \subseteq Entry /\ {Head(buffer)} \subseteq Entry
        BY <2>2, FlowTypes
      <3> QED
        BY <2>3, <3>1, BeforeDisjoint
    <2>5. Range(db) \cap Range(buffer) = {} /\ Range(Pending) \cap Range(buffer) = {}
      BY FlowTypes, BeforeDisjoint DEF Flow
    <2>6. /\ Before(Range(db'), Range(Pending')) /\ Before(Range(db'), Range(buffer'))
          /\ Before(Range(Pending'), Range(buffer'))
      BY <2>1, <2>2 DEF Flow, Before
    <2>7. /\ Range(db') \cup Range(Pending') \cup Range(buffer') \cup gone' = sent'
          /\ gone' \cap (Range(db') \cup Range(Pending') \cup Range(buffer')) = {}
      BY <2>1, <2>2, <2>4, <2>5 DEF Flow
    <2> QED
      BY <2>1, <2>3, <2>6, <2>7 DEF Flow
  <1>11. ASSUME Truncate PROVE Flow'
    <2>1. UNCHANGED <<buffer, Pending, sent>> /\ old' = {}
      BY <1>11 DEF Truncate, channel, writer, Pending
    <2>2. CASE UNCHANGED <<db, gone>>
      BY <1>1, <2>1, <2>2
    <2>3. CASE db' = <<>> /\ gone' = gone \cup Range(db)
      <3>1. InOrder(db') /\ Range(db') = {}
        BY <1>0, <2>3
      <3>2. Range(db) \cap Range(Pending) = {} /\ Range(db) \cap Range(buffer) = {}
        BY FlowTypes, BeforeDisjoint DEF Flow
      <3> QED
        BY <2>1, <2>3, <3>1, <3>2 DEF Flow, Before
    <2> QED
      BY <1>11, <2>2, <2>3 DEF Truncate
  <1>12. ASSUME Cancel \/ CloseBuffer \/ EndWait \/ CloseDb \/ UNCHANGED vars PROVE Flow'
    <2>1. UNCHANGED <<db, buffer, Pending, gone, sent, old>>
      BY <1>12 DEF Cancel, CloseBuffer, EndWait, CloseDb, vars, channel, database, writer, history,
                   others, Pending
    <2> QED
      BY <1>1, <2>1 DEF Flow
  <1> QED
    BY <1>2, <1>3, <1>4, <1>5, <1>6, <1>7, <1>8, <1>9, <1>10, <1>11, <1>12
       DEF Next, SenderStep, WriterStep, ClearStep, CloseStep

LEMMA NextClearReachesAll ==
    Types /\ Places /\ Numbered /\ Flow /\ ClearReachesAll /\ [Next]_vars => ClearReachesAll'
  <1> SUFFICES ASSUME Types, Places, Numbered, Flow, ClearReachesAll, [Next]_vars, clearer' = "truncate"
               PROVE  old' \cap (Range(buffer') \cup Range(batch')) = {}
    BY DEF ClearReachesAll
  <1>1. ASSUME UNCHANGED clearer, old' = old,
               Range(buffer') \cup Range(batch') \subseteq Range(buffer) \cup Range(batch)
        PROVE  old' \cap (Range(buffer') \cup Range(batch')) = {}
    BY <1>1 DEF ClearReachesAll
  <1>2. ASSUME UNCHANGED <<buffer, batch, clearer, old>>
        PROVE  old' \cap (Range(buffer') \cup Range(batch')) = {}
    BY <1>1, <1>2
  <1>3. ASSUME NEW s \in Senders, Send(s) \/ SendParked(s) \/ TrySend(s)
        PROVE  old' \cap (Range(buffer') \cup Range(batch')) = {}
    <2>1. Put(s) /\ sender[s] \in {"send", "parked", "try"}
      BY <1>3 DEF Send, SendParked, TrySend
    <2>2. /\ Head(todo[s]) \notin sent /\ Head(todo[s]) \in Entry
          /\ buffer' = Append(buffer, Head(todo[s]))
      BY <2>1, PutFresh
    <2>3. UNCHANGED <<old, batch, clearer>>
      BY <2>1 DEF Put, writer, others
    <2>4. Range(buffer') = Range(buffer) \cup {Head(todo[s])}
      BY <2>2, FlowTypes, RangeAppend
    <2> QED
      BY <2>2, <2>3, <2>4 DEF Flow, ClearReachesAll
  <1>4. ASSUME NEW s \in Senders,
               \/ \E k \in 1..MaxEntries[s] : SaveBatch(s, k)
               \/ Save(s) \/ SaveCancelled(s) \/ Park(s) \/ SendCancelled(s) \/ Count(s)
               \/ TryFull(s) \/ SendOnClosed(s)
        PROVE  old' \cap (Range(buffer') \cup Range(batch')) = {}
    <2>1. UNCHANGED <<buffer, batch, clearer, old>>
      BY <1>4 DEF SaveBatch, Save, SaveCancelled, Park, SendCancelled, Count, TryFull,
                  SendOnClosed, channel, writer, others
    <2> QED
      BY <1>2, <2>1
  <1>5. ASSUME NEW from \in {"select", "drain"}, Receive(from)
        PROVE  old' \cap (Range(buffer') \cup Range(batch')) = {}
    <2>1. /\ buffer # <<>> /\ buffer' = Tail(buffer) /\ batch' = Append(batch, Head(buffer))
          /\ UNCHANGED <<clearer, old>>
      BY <1>5 DEF Receive, others
    <2>2. Head(buffer) \in Entry
      BY <2>1, FlowTypes, HeadTailProperties
    <2>3. Range(buffer) = {Head(buffer)} \cup Range(buffer')
      BY <2>1, FlowTypes, RangeTail
    <2>4. Range(batch') = Range(batch) \cup {Head(buffer)}
      BY <2>1, <2>2, FlowTypes, RangeAppend
    <2> QED
      BY <1>1, <2>1, <2>3, <2>4
  <1>6. ASSUME Finish \/ Tick \/ BeginDrain \/ FlushStored \/ Cancel \/ CloseBuffer \/ EndWait
                  \/ CloseDb \/ UNCHANGED vars
        PROVE  old' \cap (Range(buffer') \cup Range(batch')) = {}
    <2>1. UNCHANGED <<buffer, batch, clearer, old>>
      BY <1>6 DEF Finish, Tick, BeginDrain, FlushStored, Cancel, CloseBuffer, EndWait, CloseDb,
                  vars, channel, writer, others
    <2> QED
      BY <1>2, <2>1
  <1>7. ASSUME FlushFails \/ Account
        PROVE  old' \cap (Range(buffer') \cup Range(batch')) = {}
    <2>1. batch' = <<>> /\ UNCHANGED <<buffer, clearer, old>>
      BY <1>7 DEF FlushFails, Account, FreshBatch, channel, others
    <2>2. Range(batch') = {}
      BY <2>1, RangeEmpty
    <2> QED
      BY <1>1, <2>1, <2>2
  <1>8. ASSUME Discard
        PROVE  old' \cap (Range(buffer') \cup Range(batch')) = {}
    <2>1. buffer # <<>> /\ buffer' = Tail(buffer) /\ UNCHANGED <<batch, clearer, old>>
      BY <1>8 DEF Discard, others
    <2>2. Range(buffer) = {Head(buffer)} \cup Range(buffer')
      BY <2>1, FlowTypes, RangeTail
    <2> QED
      BY <1>1, <2>1, <2>2
  <1>9. ASSUME Discarded
        PROVE  old' \cap (Range(buffer') \cup Range(batch')) = {}
    <2>1. buffer' = <<>> /\ batch' = <<>>
      BY <1>9 DEF Discarded, Places, channel
    <2> QED
      BY <2>1, RangeEmpty
  <1>10. ~(Clear \/ ClearAccepted \/ ClearCancelled \/ Truncate)
    BY DEF Clear, ClearAccepted, ClearCancelled, Truncate
  <1> QED
    BY <1>3, <1>4, <1>5, <1>6, <1>7, <1>8, <1>9, <1>10
       DEF Next, SenderStep, WriterStep, ClearStep, CloseStep

-------------------------------------------------------------------------------
\* What the counters say

LEMMA CountingSteps ==
    ASSUME Types, Places, Numbered, NEW s \in Senders
    PROVE  /\ IsFiniteSet(Counting) /\ Cardinality(Counting) \in Nat
           /\ Put(s) /\ sender[s] \in {"send", "parked", "try"} =>
                 Cardinality(Counting') = Cardinality(Counting) + 1
           /\ Count(s) => Cardinality(Counting') = Cardinality(Counting) - 1
           /\ Alone(s) /\ sender[s] # "count" /\ sender'[s] # "count" => Counting' = Counting
  <1>1. IsFiniteSet(Counting) /\ Cardinality(Counting) \in Nat
    BY AsyncStorageAssumption, FS_Subset, FS_CardinalityType DEF Counting
  <1>2. ASSUME Put(s), sender[s] \in {"send", "parked", "try"}
        PROVE  Cardinality(Counting') = Cardinality(Counting) + 1
    <2>1. Alone(s) /\ sender'[s] = "count"
      BY <1>2, PutFacts
    <2>2. Counting' = Counting \cup {s} /\ s \notin Counting
      BY <1>2, <2>1 DEF Counting, Alone
    <2> QED
      BY <1>1, <2>2, FS_AddElement
  <1>3. ASSUME Count(s) PROVE Cardinality(Counting') = Cardinality(Counting) - 1
    <2>1. Alone(s) /\ sender[s] = "count" /\ sender'[s] # "count"
      BY <1>3, CountFacts
    <2>2. Counting' = Counting \ {s} /\ s \in Counting
      BY <2>1 DEF Counting, Alone
    <2> QED
      BY <1>1, <2>2, FS_RemoveElement
  <1>4. ASSUME Alone(s), sender[s] # "count", sender'[s] # "count" PROVE Counting' = Counting
    BY <1>4 DEF Counting, Alone
  <1> QED
    BY <1>1, <1>2, <1>3, <1>4

UnsentOf == [s \in Senders |-> Unsent(s)]

LEMMA SumSteps ==
    ASSUME Types, Places, Numbered, Types', NEW s \in Senders, Alone(s), Unsent(s)' \in Nat
    PROVE  /\ SumFunction(made) \in Int /\ SumFunction(UnsentOf) \in Int
           /\ SumFunction(made') = SumFunction(made) + (made'[s] - made[s])
           /\ SumFunction(UnsentOf') = SumFunction(UnsentOf) + (Unsent(s)' - Unsent(s))
  <1>1. made \in [Senders -> Int] /\ made' \in [Senders -> Int] /\ IsFiniteSet(Senders)
    <2>1. made \in [Senders -> Nat] /\ made' \in [Senders -> Nat]
      BY DEF Types
    <2> QED
      BY <2>1, AsyncStorageAssumption
  <1>2. \A t \in Senders \ {s} : made'[t] = made[t]
    BY DEF Alone
  <1>3. /\ SumFunction(made) \in Int
        /\ SumFunction(made') = SumFunction(made) + (made'[s] - made[s])
    BY <1>1, <1>2, SumUpdate
  <1>4. \A t \in Senders \ {s} : Unsent(t)' = Unsent(t)
    BY UnsentSteps
  <1>5. \A t \in Senders : Unsent(t) \in Nat /\ Unsent(t)' \in Nat
    BY <1>4, UnsentFacts
  <1>6. UnsentOf \in [Senders -> Int] /\ UnsentOf' \in [Senders -> Int]
    BY <1>5 DEF UnsentOf
  <1>7. /\ UnsentOf[s] = Unsent(s) /\ UnsentOf'[s] = Unsent(s)'
        /\ \A t \in Senders \ {s} : UnsentOf'[t] = UnsentOf[t]
    <2>1. \A t \in Senders : UnsentOf[t] = Unsent(t)
      BY DEF UnsentOf
    <2>2. \A t \in Senders : UnsentOf'[t] = Unsent(t)'
      BY DEF UnsentOf
    <2> QED
      BY <1>4, <2>1, <2>2
  <1>8. /\ SumFunction(UnsentOf) \in Int
        /\ SumFunction(UnsentOf') = SumFunction(UnsentOf) + (UnsentOf'[s] - UnsentOf[s])
    BY <1>1, <1>6, <1>7, SumUpdate
  <1> QED
    BY <1>3, <1>7, <1>8

LEMMA CountTypes ==
    ASSUME Types, Places, Numbered, Flow
    PROVE  /\ stats \in Stats /\ stats.buffered \in Int /\ stats.dropped \in Nat
           /\ Len(buffer) \in Nat /\ Len(batch) \in Nat
           /\ IsFiniteSet(Counting) /\ Cardinality(Counting) \in Nat
           /\ IsFiniteSet(sent) /\ Cardinality(sent) \in Nat
           /\ IsFiniteSet(gone) /\ Cardinality(gone) \in Nat
  <1>1. IsFiniteSet(Counting) /\ Cardinality(Counting) \in Nat
    BY AsyncStorageAssumption, FS_Subset, FS_CardinalityType DEF Counting
  <1>2. IsFiniteSet(sent) /\ gone \subseteq sent
    BY DEF Flow
  <1>3. IsFiniteSet(gone)
    BY <1>2, FS_Subset
  <1>4. Cardinality(sent) \in Nat /\ Cardinality(gone) \in Nat
    BY <1>2, <1>3, FS_CardinalityType
  <1>5. Len(buffer) \in Nat /\ Len(batch) \in Nat
    BY DEF Types
  <1> QED
    BY <1>1, <1>2, <1>3, <1>4, <1>5, StatsStep

\* The step of sender s moves the counters by these numbers.
Moves(s, sold, lost, counted, counting, room) ==
    /\ Alone(s) /\ Unsent(s)' \in Nat
    /\ lost + sold + (Unsent(s)' - Unsent(s)) = made'[s] - made[s]
    /\ stats'.dropped = stats.dropped + lost
    /\ stats'.buffered = stats.buffered + counted
    /\ Cardinality(sent') = Cardinality(sent) + sold
    /\ Cardinality(Counting') = Cardinality(Counting) + counting
    /\ Len(buffer') = Len(buffer) + room
    /\ batch' = batch /\ gone' = gone /\ clears' = clears

LEMMA SenderCounts ==
    ASSUME Types, Places, Numbered, Flow, Counts, Types', NEW s \in Senders,
           NEW sold \in Int, NEW lost \in Int, NEW counted \in Int, NEW counting \in Int,
           NEW room \in Int, Moves(s, sold, lost, counted, counting, room),
           counted + counting = room
    PROVE  Counts'
  <1>1. /\ stats.buffered \in Int /\ stats.dropped \in Int
        /\ Len(buffer) \in Int /\ Len(batch) \in Int
        /\ Cardinality(Counting) \in Int /\ Cardinality(sent) \in Int /\ Cardinality(gone) \in Int
    BY CountTypes
  <1>2. Alone(s) /\ Unsent(s)' \in Nat
    BY DEF Moves
  <1>3. /\ SumFunction(made) \in Int /\ SumFunction(UnsentOf) \in Int
        /\ SumFunction(made') = SumFunction(made) + (made'[s] - made[s])
        /\ SumFunction(UnsentOf') = SumFunction(UnsentOf) + (Unsent(s)' - Unsent(s))
    BY <1>2, SumSteps
  <1>4. Unsent(s) \in Int /\ Unsent(s)' \in Int /\ made[s] \in Int /\ made'[s] \in Int
    <2>1. made'[s] \in Int
      BY DEF Types
    <2> QED
      BY <1>2, <2>1, UnsentFacts
  <1>5. stats.dropped + Cardinality(sent) + SumFunction(UnsentOf) = SumFunction(made)
    BY DEF Counts, DroppedExact, UnsentOf
  <1>6. stats'.dropped + Cardinality(sent') + SumFunction(UnsentOf') = SumFunction(made')
    <2>1. /\ lost + sold + (Unsent(s)' - Unsent(s)) = made'[s] - made[s]
          /\ stats'.dropped = stats.dropped + lost /\ Cardinality(sent') = Cardinality(sent) + sold
      BY DEF Moves
    <2> QED
      BY <1>1, <1>3, <1>4, <1>5, <2>1
  <1>7. batch' = batch /\ gone' = gone /\ clears' = clears
    BY DEF Moves
  <1> DEFINE b == stats.buffered
             c == Cardinality(Counting)
             l == Len(buffer)
             m == Len(batch)
             g == Cardinality(gone)
  <1>8. /\ b \in Int /\ c \in Int /\ l \in Int /\ m \in Int /\ g \in Int
        /\ stats'.buffered = b + counted
        /\ Cardinality(Counting') = c + counting
        /\ Len(buffer') = l + room
    BY <1>1 DEF Moves
  <1>9. BacklogNeverHidden' /\ BufferedExact'
    <2>1. b + c >= l + m /\ (clears = 0 => b + c = l + m + g)
      BY DEF Counts, BacklogNeverHidden, BufferedExact
    <2> HIDE DEF b, c, l, m, g
    <2>2. (b + counted) + (c + counting) = (b + c) + room
      BY <1>8
    <2>3. (b + counted) + (c + counting) >= (l + room) + m
      BY <1>8, <2>1, <2>2
    <2>4. clears = 0 => (b + counted) + (c + counting) = (l + room) + m + g
      BY <1>8, <2>1, <2>2
    <2> USE DEF m, g
    <2>5. BacklogNeverHidden'
      BY <1>7, <1>8, <2>3 DEF BacklogNeverHidden
    <2> QED
      BY <1>7, <1>8, <2>4, <2>5 DEF BufferedExact
  <1>10. DroppedExact'
    BY <1>6 DEF DroppedExact, UnsentOf
  <1> QED
    BY <1>9, <1>10 DEF Counts

\* A step of another goroutine moves entries between the buffer and the batch.
LEMMA WriterCounts ==
    ASSUME Counts, UNCHANGED <<sender, todo, made, sent>>, stats'.dropped = stats.dropped,
           stats'.buffered + Cardinality(Counting) >= Len(buffer') + Len(batch'),
           clears' = 0 => stats'.buffered + Cardinality(Counting)
                              = Len(buffer') + Len(batch') + Cardinality(gone')
    PROVE  Counts'
  <1>1. Counting' = Counting
    BY DEF Counting
  <1>2. UnsentOf' = UnsentOf
    BY DEF UnsentOf, Unsent
  <1>3. stats'.dropped + Cardinality(sent') + SumFunction(UnsentOf') = SumFunction(made')
    BY <1>2 DEF Counts, DroppedExact, UnsentOf
  <1> QED
    BY <1>1, <1>3 DEF Counts, BacklogNeverHidden, BufferedExact, DroppedExact, UnsentOf

LEMMA CallCounts ==
    ASSUME Types, Places, Numbered, Flow, Counts, Types',
           NEW s \in Senders, NEW k \in Nat \ {0}, NEW step \in {"send", "try"},
           Call(s, k, step), UNCHANGED <<stats, sent, buffer, batch, gone, clears>>
    PROVE  Counts'
  <1>1. /\ Alone(s) /\ sender[s] = "idle" /\ sender'[s] = step /\ made'[s] = made[s] + k
        /\ Unsent(s) = 0 /\ Unsent(s)' = k /\ made[s] \in Nat
    BY CallFacts, UnsentSteps, UnsentFacts
  <1>2. Counting' = Counting
    BY <1>1, CountingSteps
  <1>3. 0 + 0 + (Unsent(s)' - Unsent(s)) = made'[s] - made[s]
    BY <1>1
  <1>4. /\ stats'.dropped = stats.dropped + 0 /\ stats'.buffered = stats.buffered + 0
        /\ Cardinality(sent') = Cardinality(sent) + 0
        /\ Cardinality(Counting') = Cardinality(Counting) + 0
        /\ Len(buffer') = Len(buffer) + 0
    BY <1>2, CountTypes
  <1>5. Moves(s, 0, 0, 0, 0, 0)
    BY <1>1, <1>3, <1>4 DEF Moves
  <1> QED
    BY <1>5, SenderCounts

LEMMA PutCounts ==
    ASSUME Types, Places, Numbered, Flow, Counts, Types', NEW s \in Senders,
           sender[s] \in {"send", "parked", "try"}, Put(s)
    PROVE  Counts'
  <1>1. /\ Alone(s) /\ made'[s] = made[s] /\ made[s] \in Nat /\ Len(todo[s]) \in Nat \ {0}
        /\ Unsent(s) = Len(todo[s]) /\ Unsent(s)' = Len(todo[s]) - 1
        /\ Cardinality(Counting') = Cardinality(Counting) + 1
    BY PutFacts, UnsentSteps, UnsentFacts, CountingSteps
  <1>2. /\ Head(todo[s]) \in Entry /\ Head(todo[s]) \notin sent
        /\ sent' = sent \cup {Head(todo[s])} /\ buffer' = Append(buffer, Head(todo[s]))
    BY PutFresh
  <1>3. Cardinality(sent') = Cardinality(sent) + 1
    BY <1>2, FS_AddElement DEF Flow
  <1>4. Len(buffer') = Len(buffer) + 1
    BY <1>2, FlowTypes, AppendProperties
  <1>5. batch' = batch /\ gone' = gone /\ clears' = clears /\ stats' = stats
    BY DEF Put, writer, others
  <1>6. 0 + 1 + (Unsent(s)' - Unsent(s)) = made'[s] - made[s] /\ 0 + 1 = 1 /\ Unsent(s)' \in Nat
    BY <1>1
  <1>7. stats'.dropped = stats.dropped + 0 /\ stats'.buffered = stats.buffered + 0
    BY <1>5, CountTypes
  <1>8. Moves(s, 1, 0, 0, 1, 1)
    BY <1>1, <1>3, <1>4, <1>5, <1>6, <1>7 DEF Moves
  <1> QED
    BY <1>8, SenderCounts

LEMMA CountCounts ==
    ASSUME Types, Places, Numbered, Flow, Counts, Types', NEW s \in Senders, Count(s)
    PROVE  Counts'
  <1>1. /\ Alone(s) /\ made'[s] = made[s] /\ made[s] \in Nat
        /\ Unsent(s) \in Nat /\ Unsent(s)' = Unsent(s)
        /\ Cardinality(Counting') = Cardinality(Counting) + -1
    BY CountFacts, UnsentSteps, UnsentFacts, CountingSteps, CountTypes
  <1>2. /\ stats'.buffered = stats.buffered + 1 /\ stats'.dropped = stats.dropped + 0
    BY StatsStep
  <1>3. batch' = batch /\ gone' = gone /\ clears' = clears /\ sent' = sent /\ buffer' = buffer
    BY DEF Count, channel, writer, others, history
  <1>4. Cardinality(sent') = Cardinality(sent) + 0 /\ Len(buffer') = Len(buffer) + 0
    BY <1>3, CountTypes
  <1>5. 0 + 0 + (Unsent(s)' - Unsent(s)) = made'[s] - made[s] /\ 1 + -1 = 0
    BY <1>1
  <1>6. Moves(s, 0, 0, 1, -1, 0)
    BY <1>1, <1>2, <1>3, <1>4, <1>5 DEF Moves
  <1>7. -1 \in Int /\ 1 + -1 = 0
    OBVIOUS
  <1> QED
    BY <1>6, <1>7, SenderCounts

LEMMA OtherCounts ==
    ASSUME Types, Places, Numbered, Flow, Counts, Types', NEW s \in Senders,
           SendCancelled(s) \/ TryFull(s) \/ Park(s) \/ SaveCancelled(s)
    PROVE  Counts'
  <1>1. /\ Alone(s) /\ sender[s] # "count" /\ sender'[s] # "count" /\ sent' = sent
    BY OtherFacts
  <1>2. Cardinality(Counting') = Cardinality(Counting) + 0
    BY <1>1, CountingSteps
  <1>3. batch' = batch /\ gone' = gone /\ clears' = clears /\ buffer' = buffer
    BY DEF SendCancelled, TryFull, Park, SaveCancelled, channel, writer, others, history
  <1>4. Cardinality(sent') = Cardinality(sent) + 0 /\ Len(buffer') = Len(buffer) + 0
    BY <1>1, <1>3, CountTypes
  <1>5. made[s] \in Nat /\ Unsent(s) \in Nat /\ Len(todo[s]) \in Nat
    BY UnsentFacts
  <1>6. ASSUME NEW d \in Int, stats'.dropped = stats.dropped + d, stats'.buffered = stats.buffered,
               Unsent(s)' \in Nat, d + 0 + (Unsent(s)' - Unsent(s)) = made'[s] - made[s]
        PROVE  Counts'
    <2>1. stats'.buffered = stats.buffered + 0
      BY <1>6, CountTypes
    <2>2. Moves(s, 0, d, 0, 0, 0)
      BY <1>1, <1>2, <1>3, <1>4, <1>6, <2>1 DEF Moves
    <2> QED
      BY <2>2, SenderCounts
  <1>7. CASE SendCancelled(s)
    <2>1. /\ made'[s] = made[s] /\ Unsent(s) = Len(todo[s]) /\ Unsent(s)' = 0
          /\ stats'.buffered = stats.buffered /\ stats'.dropped = stats.dropped + Len(todo[s])
      BY <1>7, OtherFacts, UnsentSteps, StatsStep
    <2>2. Len(todo[s]) + 0 + (Unsent(s)' - Unsent(s)) = made'[s] - made[s] /\ Unsent(s)' \in Nat
      BY <1>5, <2>1
    <2> QED
      BY <1>5, <1>6, <2>1, <2>2
  <1>8. CASE TryFull(s)
    <2>1. /\ made'[s] = made[s] /\ Unsent(s) = 1 /\ Unsent(s)' = 0
          /\ stats'.buffered = stats.buffered /\ stats'.dropped = stats.dropped + 1
      BY <1>8, OtherFacts, UnsentSteps, StatsStep
    <2>2. 1 + 0 + (Unsent(s)' - Unsent(s)) = made'[s] - made[s] /\ Unsent(s)' \in Nat
      BY <1>5, <2>1
    <2> QED
      BY <1>6, <2>1, <2>2
  <1>9. CASE Park(s)
    <2>1. made'[s] = made[s] /\ Unsent(s)' = Unsent(s) /\ stats' = stats
      BY <1>9, OtherFacts, UnsentSteps DEF Park
    <2>2. 0 + 0 + (Unsent(s)' - Unsent(s)) = made'[s] - made[s] /\ Unsent(s)' \in Nat
      BY <1>5, <2>1
    <2>3. stats'.dropped = stats.dropped + 0
      BY <2>1, CountTypes
    <2> QED
      BY <1>6, <2>1, <2>2, <2>3
  <1>10. CASE SaveCancelled(s)
    <2>1. /\ made'[s] = made[s] + 1 /\ Unsent(s) = 0 /\ Unsent(s)' = 0
          /\ stats'.buffered = stats.buffered /\ stats'.dropped = stats.dropped + 1
      BY <1>10, OtherFacts, UnsentSteps, StatsStep
    <2>2. 1 + 0 + (Unsent(s)' - Unsent(s)) = made'[s] - made[s] /\ Unsent(s)' \in Nat
      BY <1>5, <2>1
    <2> QED
      BY <1>6, <2>1, <2>2
  <1> QED
    BY <1>7, <1>8, <1>9, <1>10


\* A failed flush adds the whole batch to what is gone.
LEMMA BatchIsGone ==
    ASSUME Types, Places, Numbered, Flow, Pending = batch, gone' = gone \cup Range(batch)
    PROVE  Cardinality(gone') = Cardinality(gone) + Len(batch)
  <1>1. IsFiniteSet(gone) /\ Cardinality(gone) \in Nat /\ Len(batch) \in Nat
    BY CountTypes
  <1>2. IsFiniteSet(Range(batch)) /\ Cardinality(Range(batch)) = Len(batch)
    BY FlowTypes, InOrderCount DEF Flow
  <1>3. gone \cap Range(batch) = {}
    BY DEF Flow
  <1>4. Cardinality(gone \cap Range(batch)) = 0
    BY <1>3, FS_EmptySet
  <1>5. Cardinality(gone \cup Range(batch))
            = Cardinality(gone) + Cardinality(Range(batch)) - Cardinality(gone \cap Range(batch))
    BY <1>1, <1>2, FS_Union
  <1> QED
    BY <1>1, <1>2, <1>4, <1>5

LEMMA NextCounts == Types /\ Places /\ Numbered /\ Flow /\ Counts /\ Types' /\ [Next]_vars => Counts'
  <1> SUFFICES ASSUME Types, Places, Numbered, Flow, Counts, Types', [Next]_vars PROVE Counts'
    OBVIOUS
  <1>0. /\ stats.buffered \in Int /\ Len(buffer) \in Nat /\ Len(batch) \in Nat
        /\ Cardinality(Counting) \in Nat /\ Cardinality(gone) \in Nat
        /\ stats.buffered + Cardinality(Counting) >= Len(buffer) + Len(batch)
        /\ clears = 0 => stats.buffered + Cardinality(Counting)
                             = Len(buffer) + Len(batch) + Cardinality(gone)
        /\ Len(<<>>) = 0
    BY CountTypes DEF Counts, BacklogNeverHidden, BufferedExact
  <1>1. ASSUME NEW s \in Senders, NEW k \in 1..MaxEntries[s], SaveBatch(s, k) PROVE Counts'
    <2>1. Call(s, k, "send") /\ k \in Nat \ {0}
      BY <1>1, AsyncStorageAssumption DEF SaveBatch
    <2>2. UNCHANGED <<stats, sent, buffer, batch, gone, clears>>
      BY <1>1 DEF SaveBatch, channel, writer, others, history
    <2> QED
      BY <2>1, <2>2, CallCounts
  <1>2. ASSUME NEW s \in Senders, Save(s) PROVE Counts'
    <2>1. Call(s, 1, "try") /\ UNCHANGED <<stats, sent, buffer, batch, gone, clears>>
      BY <1>2 DEF Save, channel, writer, others, history
    <2> QED
      BY <2>1, CallCounts
  <1>3. ASSUME NEW s \in Senders, Send(s) \/ SendParked(s) \/ TrySend(s) PROVE Counts'
    BY <1>3, PutCounts DEF Send, SendParked, TrySend
  <1>4. ASSUME NEW s \in Senders, Count(s) PROVE Counts'
    BY <1>4, CountCounts
  <1>5. ASSUME NEW s \in Senders,
               SendCancelled(s) \/ TryFull(s) \/ Park(s) \/ SaveCancelled(s)
        PROVE  Counts'
    BY <1>5, OtherCounts
  \* No counter, no channel and no batch changes.
  <1>6. ASSUME UNCHANGED <<sender, todo, made, sent, stats, buffer, batch, gone>>,
               clears' = 0 => clears = 0
        PROVE  Counts'
    BY <1>0, <1>6, WriterCounts
  <1>7. ASSUME \E s \in Senders : SendOnClosed(s) PROVE Counts'
    <2>1. UNCHANGED <<sender, todo, made, sent, stats, buffer, batch, gone, clears>>
      BY <1>7 DEF SendOnClosed, channel, writer, senders, others, history
    <2> QED
      BY <1>6, <2>1
  <1>8. ASSUME Finish \/ Tick \/ BeginDrain \/ FlushStored \/ ClearCancelled
                 \/ Cancel \/ CloseBuffer \/ EndWait \/ CloseDb \/ UNCHANGED vars
        PROVE  Counts'
    <2>1. UNCHANGED <<sender, todo, made, sent, stats, buffer, batch, gone, clears>>
      BY <1>8 DEF Finish, Tick, BeginDrain, FlushStored, ClearCancelled, Cancel, CloseBuffer,
                  EndWait, CloseDb, vars, channel, writer, senders, others, history
    <2> QED
      BY <1>6, <2>1
  <1>9. ASSUME Clear PROVE Counts'
    <2>1. UNCHANGED <<sender, todo, made, sent, stats, buffer, batch, gone>>
      BY <1>9 DEF Clear, channel, writer, senders, history
    <2>2. clears' # 0
      BY <1>9 DEF Clear, Types
    <2> QED
      BY <1>6, <2>1, <2>2
  <1>10. ASSUME NEW from \in {"select", "drain"}, Receive(from) PROVE Counts'
    <2>1. UNCHANGED <<sender, todo, made, sent, stats, gone, clears>>
      BY <1>10 DEF Receive, senders, others, history
    <2>2. buffer # <<>> /\ buffer' = Tail(buffer) /\ batch' = Append(batch, Head(buffer))
      BY <1>10 DEF Receive
    <2>3. Len(buffer') = Len(buffer) - 1 /\ Head(buffer) \in Entry
      BY <2>2, FlowTypes, HeadTailProperties
    <2>4. Len(batch') = Len(batch) + 1
      BY <2>2, <2>3, FlowTypes, AppendProperties
    <2>5. /\ stats'.buffered + Cardinality(Counting) >= Len(buffer') + Len(batch')
          /\ clears' = 0 => stats'.buffered + Cardinality(Counting)
                                = Len(buffer') + Len(batch') + Cardinality(gone')
      BY <1>0, <2>1, <2>3, <2>4
    <2> QED
      BY <2>1, <2>5, WriterCounts
  <1>11. ASSUME Account PROVE Counts'
    <2>1. UNCHANGED <<sender, todo, made, sent, gone, clears, buffer>> /\ batch' = <<>>
      BY <1>11 DEF Account, FreshBatch, channel, senders, others, history
    <2>2. stats'.buffered = stats.buffered - Len(batch) /\ stats'.dropped = stats.dropped
      BY <1>11, StatsStep
    <2>3. /\ stats'.buffered + Cardinality(Counting) >= Len(buffer') + Len(batch')
          /\ clears' = 0 => stats'.buffered + Cardinality(Counting)
                                = Len(buffer') + Len(batch') + Cardinality(gone')
      BY <1>0, <2>1, <2>2
    <2> QED
      BY <2>1, <2>2, <2>3, WriterCounts
  <1>12. ASSUME FlushFails PROVE Counts'
    <2>1. /\ UNCHANGED <<sender, todo, made, sent, stats, clears, buffer>> /\ batch' = <<>>
          /\ gone' = gone \cup Range(batch) /\ Pending = batch
      BY <1>12 DEF FlushFails, FreshBatch, Pending, channel, senders, others
    <2>2. Cardinality(gone') = Cardinality(gone) + Len(batch)
      BY <2>1, BatchIsGone
    <2>3. /\ stats'.buffered + Cardinality(Counting) >= Len(buffer') + Len(batch')
          /\ clears' = 0 => stats'.buffered + Cardinality(Counting)
                                = Len(buffer') + Len(batch') + Cardinality(gone')
      BY <1>0, <2>1, <2>2
    <2> QED
      BY <2>1, <2>3, WriterCounts
  \* What a Clear throws away is counted only by BacklogNeverHidden.
  <1>13. ASSUME ClearAccepted \/ Discard \/ Truncate PROVE Counts'
    <2>1. clears # 0
      BY <1>13 DEF ClearAccepted, Discard, Truncate, Places
    <2>2. UNCHANGED <<sender, todo, made, sent, stats, clears>>
      BY <1>13 DEF ClearAccepted, Discard, Truncate, senders, others
    <2>3. CASE ClearAccepted
      <3>1. buffer' = buffer /\ batch' = <<>>
        BY <2>3 DEF ClearAccepted, BatchAfterClear, channel
      <3>2. stats'.buffered + Cardinality(Counting) >= Len(buffer') + Len(batch')
        BY <1>0, <2>2, <3>1
      <3> QED
        BY <2>1, <2>2, <3>2, WriterCounts
    <2>4. CASE Discard
      <3>1. buffer # <<>> /\ buffer' = Tail(buffer) /\ batch' = batch
        BY <2>4 DEF Discard
      <3>2. Len(buffer') = Len(buffer) - 1
        BY <3>1, FlowTypes, HeadTailProperties
      <3>3. stats'.buffered + Cardinality(Counting) >= Len(buffer') + Len(batch')
        BY <1>0, <2>2, <3>1, <3>2
      <3> QED
        BY <2>1, <2>2, <3>3, WriterCounts
    <2>5. CASE Truncate
      <3>1. buffer' = buffer /\ batch' = batch
        BY <2>5 DEF Truncate, channel, writer
      <3>2. stats'.buffered + Cardinality(Counting) >= Len(buffer') + Len(batch')
        BY <1>0, <2>2, <3>1
      <3> QED
        BY <2>1, <2>2, <3>2, WriterCounts
    <2> QED
      BY <1>13, <2>3, <2>4, <2>5
  <1>14. ASSUME Discarded PROVE Counts'
    <2>1. /\ clears # 0 /\ buffer' = <<>> /\ batch' = <<>>
          /\ UNCHANGED <<sender, todo, made, sent, clears>>
      BY <1>14 DEF Discarded, Places, channel, senders, history
    <2>2. stats'.buffered >= 0 /\ stats'.buffered \in Int /\ stats'.dropped = stats.dropped
      <3>1. stats' \in Stats
        BY <1>14, StatsStep
      <3> QED
        BY <1>14, <3>1, StatsStep, StatsFields
    <2>3. stats'.buffered + Cardinality(Counting) >= Len(buffer') + Len(batch')
      BY <1>0, <2>1, <2>2
    <2> QED
      BY <2>1, <2>2, <2>3, WriterCounts
  <1> QED
    BY <1>1, <1>2, <1>3, <1>4, <1>5, <1>7, <1>8, <1>9, <1>10, <1>11, <1>12, <1>13, <1>14
       DEF Next, SenderStep, WriterStep, ClearStep, CloseStep

-------------------------------------------------------------------------------
\* Initially

LEMMA InitPlaces == Init => Places /\ Numbered
  <1> SUFFICES ASSUME Init PROVE Places /\ Numbered
    OBVIOUS
  <1>0. Len(<<>>) = 0
    OBVIOUS
  <1>1. Places
    BY <1>0, AsyncStorageAssumption DEF Init, Places
  <1>2. \A s \in Senders : sender[s] = "idle" /\ todo[s] = <<>>
    BY DEF Init
  <1>3. sent = {}
    BY DEF Init
  <1> QED
    BY <1>0, <1>1, <1>2, <1>3 DEF Numbered

LEMMA InitFlow == Init => Flow /\ ClearReachesAll
  <1> SUFFICES ASSUME Init PROVE Flow /\ ClearReachesAll
    OBVIOUS
  <1>1. db = <<>> /\ batch = <<>> /\ buffer = <<>> /\ gone = {} /\ sent = {} /\ old = {}
    BY DEF Init
  <1>2. Pending = <<>>
    BY <1>1 DEF Pending
  <1>3. IsFiniteSet({})
    BY FS_EmptySet
  <1>4. Flow
    BY <1>1, <1>2, <1>3, RangeEmpty, InOrderEmpty DEF Flow, Before
  <1> QED
    BY <1>1, <1>4 DEF ClearReachesAll

LEMMA InitCounts == Init => Counts
  <1> SUFFICES ASSUME Init PROVE Counts
    OBVIOUS
  <1>0. Len(<<>>) = 0 /\ IsFiniteSet({}) /\ Cardinality({}) = 0
    BY FS_EmptySet
  <1>1. /\ stats.buffered = 0 /\ stats.dropped = 0 /\ buffer = <<>> /\ batch = <<>>
        /\ gone = {} /\ sent = {}
    BY DEF Init
  <1>2. \A s \in Senders : sender[s] = "idle" /\ todo[s] = <<>>
    BY DEF Init
  <1>3. Counting = {}
    BY <1>2 DEF Counting
  <1>4. BacklogNeverHidden /\ BufferedExact
    BY <1>0, <1>1, <1>3 DEF BacklogNeverHidden, BufferedExact
  <1>5. \A s \in Senders : Unsent(s) = 0
    BY <1>0, <1>2 DEF Unsent
  <1>6. [s \in Senders |-> Unsent(s)] = made
    BY <1>5 DEF Init
  <1>7. SumFunction(made) \in Int
    <2>1. made \in [Senders -> Int]
      BY DEF Init
    <2> QED
      BY <2>1, AsyncStorageAssumption, SumIsInt
  <1>8. DroppedExact
    BY <1>0, <1>1, <1>6, <1>7 DEF DroppedExact
  <1> QED
    BY <1>4, <1>8 DEF Counts


-------------------------------------------------------------------------------
\* The theorems

\* Every reachable state satisfies the inductive invariant.
THEOREM InvariantHolds == Spec => []IInv
  <1>1. Init => IInv
    BY InitTypeOK, SameTypes, InitPlaces, InitFlow, InitCounts DEF IInv
  <1>2. IInv /\ [Next]_vars => IInv'
    <2> SUFFICES ASSUME IInv, [Next]_vars PROVE IInv'
      OBVIOUS
    <2>1. Types /\ Places /\ Numbered /\ Flow /\ Counts /\ ClearReachesAll
      BY SameTypes DEF IInv
    <2>2. Types'
      BY <2>1, NextTypes
    <2>3. TypeOK'
      BY <2>2 DEF TypeOK, Types
    <2>4. Places' /\ Numbered' /\ Flow' /\ ClearReachesAll'
      BY <2>1, NextPlaces, NextNumbered, NextFlow, NextClearReachesAll
    <2>5. Counts'
      BY <2>1, <2>2, NextCounts
    <2> QED
      BY <2>3, <2>4, <2>5 DEF IInv
  <1> QED
    BY <1>1, <1>2, PTL DEF Spec

\* The buffer never holds more than its capacity, the batch never more than a
\* batch, whatever the goroutines do: every variable keeps its type.
THEOREM TypesHold == Spec => []TypeOK
  <1>1. IInv => TypeOK
    BY DEF IInv
  <1> QED
    BY <1>1, InvariantHolds, PTL

LEMMA StreamFlows ==
    ASSUME IInv
    PROVE  /\ Stream \in Seq(Entry) /\ InOrder(Stream)
           /\ Range(Stream) = Range(db) \cup Range(Pending) \cup Range(buffer)
  <1>1. Types /\ Flow
    BY SameTypes DEF IInv
  <1>2. db \in Seq(Entry) /\ Pending \in Seq(Entry) /\ buffer \in Seq(Entry)
    BY <1>1, FlowTypes
  <1>3. /\ db \o Pending \in Seq(Entry) /\ InOrder(db \o Pending)
        /\ Range(db \o Pending) = Range(db) \cup Range(Pending)
    BY <1>1, <1>2, RangeConcat, InOrderConcat, ConcatProperties DEF Flow
  <1>4. Before(Range(db \o Pending), Range(buffer))
    BY <1>1, <1>3 DEF Flow, Before
  <1>5. (db \o Pending) \o buffer \in Seq(Entry) /\ InOrder((db \o Pending) \o buffer)
    BY <1>1, <1>2, <1>3, <1>4, InOrderConcat, ConcatProperties DEF Flow
  <1>6. Range((db \o Pending) \o buffer) = Range(db \o Pending) \cup Range(buffer)
    <2>1. db \o Pending \in Seq(Entry) /\ buffer \in Seq(Entry)
      BY <1>2, <1>3
    <2> QED
      BY ZenonT(30), <2>1, RangeConcat
  <1> QED
    BY <1>3, <1>5, <1>6 DEF Stream

\* An entry SaveBatch or Save sent is in the database, in the batch or in the
\* buffer, once, or it was lost by a failed flush or cleared: never two of these.
THEOREM EveryEntryIsOnce == Spec => []EveryEntryOnce
  <1>1. ASSUME IInv PROVE EveryEntryOnce
    <2>1. /\ Stream \in Seq(Entry) /\ InOrder(Stream)
          /\ Range(Stream) = Range(db) \cup Range(Pending) \cup Range(buffer)
      BY <1>1, StreamFlows
    <2>2. Cardinality(Range(Stream)) = Len(Stream)
      BY <2>1, InOrderCount
    <2>3. Range(Stream) \cup gone = sent /\ Range(Stream) \cap gone = {}
      BY <1>1, <2>1 DEF IInv, Flow
    <2> QED
      BY <2>2, <2>3 DEF EveryEntryOnce
  <1> QED
    BY <1>1, InvariantHolds, PTL

\* What one sender sends is stored in the order in which it was sent, across
\* batches, failed flushes and clears.
THEOREM OrderIsKept == Spec => []OrderKept
  <1>1. ASSUME IInv PROVE OrderKept
    BY <1>1, StreamFlows DEF InOrder, OrderKept
  <1> QED
    BY <1>1, InvariantHolds, PTL

\* BufferedCount is never below the entries in memory, but for senders that
\* are about to count theirs.
THEOREM BacklogIsSeen == Spec => []BacklogNeverHidden
  <1>1. IInv => BacklogNeverHidden
    BY DEF IInv, Counts
  <1> QED
    BY <1>1, InvariantHolds, PTL

\* Without a Clear, BufferedCount exceeds the backlog by exactly the entries
\* that failed flushes lost.
THEOREM BufferedIsExact == Spec => []BufferedExact
  <1>1. IInv => BufferedExact
    BY DEF IInv, Counts
  <1> QED
    BY <1>1, InvariantHolds, PTL

\* Every entry given to SaveBatch or Save is sent, still to be sent or counted
\* in DroppedCount.
THEOREM DroppedIsExact == Spec => []DroppedExact
  <1>1. IInv => DroppedExact
    BY DEF IInv, Counts
  <1> QED
    BY <1>1, InvariantHolds, PTL

\* Before Clear truncates the database, writeLoop has taken out of memory every
\* entry that was sent before that Clear.
THEOREM ClearReaches == Spec => []ClearReachesAll
  <1>1. IInv => ClearReachesAll
    BY DEF IInv
  <1> QED
    BY <1>1, InvariantHolds, PTL

\* A Close that did not give up after ten seconds leaves no entry in memory.
THEOREM CloseIsFlushed == Spec => []CloseFlushes
  <1>1. IInv => CloseFlushes
    BY DEF IInv, Places, CloseFlushes
  <1> QED
    BY <1>1, InvariantHolds, PTL

===============================================================================
