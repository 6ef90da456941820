------------------------------- MODULE DataLemmas ------------------------------
(* Facts about sequences, numbers and sums that the proofs of several        *)
(* components use.                                                           *)
EXTENDS Integers, Sequences, FiniteSets, SequencesExt, SequenceTheorems, FiniteSetTheorems, TLAPS

-------------------------------------------------------------------------------
\* The elements of a sequence

LEMMA RangeAppend ==
    ASSUME NEW S, NEW s \in Seq(S), NEW e \in S
    PROVE  Range(Append(s, e)) = Range(s) \cup {e}
  <1>1. /\ DOMAIN s = 1..Len(s) /\ Len(s) \in Nat
        /\ DOMAIN Append(s, e) = 1..(Len(s) + 1)
    BY AppendProperties
  <1> QED
    BY <1>1, AppendProperties DEF Range

LEMMA RangeTail ==
    ASSUME NEW S, NEW s \in Seq(S), s # <<>>
    PROVE  Range(s) = {Head(s)} \cup Range(Tail(s))
  <1>1. /\ DOMAIN s = 1..Len(s) /\ Len(s) \in Nat \ {0} /\ Head(s) = s[1]
        /\ DOMAIN Tail(s) = 1..(Len(s) - 1)
        /\ \A i \in 1..(Len(s) - 1) : Tail(s)[i] = s[i + 1]
    BY HeadTailProperties, EmptySeq
  <1>2. ASSUME NEW i \in 1..Len(s), i # 1 PROVE s[i] \in Range(Tail(s))
    <2>1. i - 1 \in 1..(Len(s) - 1) /\ (i - 1) + 1 = i
      BY <1>1, <1>2
    <2>2. Tail(s)[i - 1] = s[i]
      BY <1>1, <2>1
    <2> QED
      BY <1>1, <2>1, <2>2 DEF Range
  <1>3. ASSUME NEW i \in 1..(Len(s) - 1) PROVE Tail(s)[i] \in Range(s)
    <2>1. i + 1 \in 1..Len(s) /\ Tail(s)[i] = s[i + 1]
      BY <1>1
    <2> QED
      BY <1>1, <2>1 DEF Range
  <1>4. 1 \in 1..Len(s)
    BY <1>1
  <1>5. Range(s) \subseteq {Head(s)} \cup Range(Tail(s))
    BY <1>1, <1>2 DEF Range
  <1>6. {Head(s)} \cup Range(Tail(s)) \subseteq Range(s)
    BY <1>1, <1>3, <1>4 DEF Range
  <1> QED
    BY <1>5, <1>6

LEMMA RangeConcat ==
    ASSUME NEW S, NEW s \in Seq(S), NEW t \in Seq(S)
    PROVE  Range(s \o t) = Range(s) \cup Range(t)
  <1>1. /\ DOMAIN s = 1..Len(s) /\ Len(s) \in Nat /\ DOMAIN t = 1..Len(t) /\ Len(t) \in Nat
        /\ DOMAIN (s \o t) = 1..(Len(s) + Len(t))
        /\ \A i \in 1..(Len(s) + Len(t)) :
              (s \o t)[i] = IF i <= Len(s) THEN s[i] ELSE t[i - Len(s)]
    BY ConcatProperties
  <1>2. \A i \in 1..(Len(s) + Len(t)) : i \in 1..Len(s) \/ (~(i <= Len(s)) /\ i - Len(s) \in 1..Len(t))
    BY <1>1
  <1>3. \A i \in 1..Len(t) : /\ i + Len(s) \in 1..(Len(s) + Len(t)) /\ ~(i + Len(s) <= Len(s))
                             /\ (i + Len(s)) - Len(s) = i
    BY <1>1
  <1>4. \A i \in 1..Len(s) : i \in 1..(Len(s) + Len(t)) /\ i <= Len(s)
    BY <1>1
  <1>5. Range(s) \subseteq Range(s \o t) /\ Range(t) \subseteq Range(s \o t)
    <2>1. \A i \in 1..Len(s) : s[i] = (s \o t)[i] /\ i \in DOMAIN (s \o t)
      BY <1>1, <1>4
    <2>2. \A i \in 1..Len(t) : t[i] = (s \o t)[i + Len(s)] /\ i + Len(s) \in DOMAIN (s \o t)
      BY <1>1, <1>3
    <2>3. Range(s) \subseteq Range(s \o t)
      BY <1>1, <2>1 DEF Range
    <2>4. Range(t) \subseteq Range(s \o t)
      BY ZenonT(30), <1>1, <2>2 DEF Range
    <2> QED
      BY <2>3, <2>4
  <1>6. Range(s \o t) \subseteq Range(s) \cup Range(t)
    BY <1>1, <1>2 DEF Range
  <1> QED
    BY <1>5, <1>6

LEMMA RangeEmpty == Range(<<>>) = {}
  BY DEF Range

\* What follows the first m elements.
LEMMA Rest ==
    ASSUME NEW S, NEW s \in Seq(S), NEW m \in Nat
    PROVE  /\ SubSeq(s, m + 1, Len(s)) \in Seq(S)
           /\ m <= Len(s) => Len(SubSeq(s, m + 1, Len(s))) = Len(s) - m
           /\ m > Len(s) => Len(SubSeq(s, m + 1, Len(s))) = 0
           /\ \A i \in 1..(Len(s) - m) : SubSeq(s, m + 1, Len(s))[i] = s[m + i]
  <1>1. Len(s) \in Nat
    BY LenProperties
  <1>2. \A i \in (m + 1)..Len(s) : s[i] \in S
    BY <1>1, ElementOfSeq
  <1>3. /\ SubSeq(s, m + 1, Len(s)) \in Seq(S)
        /\ Len(SubSeq(s, m + 1, Len(s))) =
              IF m + 1 <= Len(s) THEN Len(s) - (m + 1) + 1 ELSE 0
        /\ \A i \in 1..(Len(s) - (m + 1) + 1) :
              SubSeq(s, m + 1, Len(s))[i] = s[(m + 1) + i - 1]
    BY <1>1, <1>2, SubSeqProperties
  <1>4. \A i \in 1..(Len(s) - m) :
           /\ i \in 1..(Len(s) - (m + 1) + 1)
           /\ (m + 1) + i - 1 = m + i
    BY <1>1
  <1> QED
    BY <1>1, <1>3, <1>4

\* No element comes twice.
Distinct(s) == \A i, j \in DOMAIN s : s[i] = s[j] => i = j

LEMMA DistinctEmpty == Distinct(<<>>)
  BY DEF Distinct

LEMMA DistinctConcat ==
    ASSUME NEW S, NEW s \in Seq(S), NEW t \in Seq(S),
           Distinct(s), Distinct(t), Range(s) \cap Range(t) = {}
    PROVE  Distinct(s \o t)
  <1>1. /\ DOMAIN s = 1..Len(s) /\ Len(s) \in Nat /\ DOMAIN t = 1..Len(t) /\ Len(t) \in Nat
        /\ DOMAIN (s \o t) = 1..(Len(s) + Len(t))
        /\ \A i \in 1..(Len(s) + Len(t)) :
              (s \o t)[i] = IF i <= Len(s) THEN s[i] ELSE t[i - Len(s)]
    BY ConcatProperties
  <1> SUFFICES ASSUME NEW i \in 1..(Len(s) + Len(t)), NEW j \in 1..(Len(s) + Len(t)),
                      (s \o t)[i] = (s \o t)[j], i <= j
               PROVE  i = j
    <2>1. \A i, j \in 1..(Len(s) + Len(t)) : i <= j \/ j <= i
      BY <1>1
    <2> QED
      BY <1>1, <2>1 DEF Distinct
  <1>2. \A k \in 1..Len(s) : s[k] \in Range(s)
    BY <1>1 DEF Range
  <1>3. \A k \in 1..Len(t) : t[k] \in Range(t)
    BY <1>1 DEF Range
  <1>4. CASE j <= Len(s)
    <2>1. i \in 1..Len(s) /\ j \in 1..Len(s) /\ s[i] = s[j]
      BY <1>1, <1>4
    <2> QED
      BY <1>1, <2>1 DEF Distinct
  <1>5. CASE i <= Len(s) /\ ~(j <= Len(s))
    <2>1. i \in 1..Len(s) /\ j - Len(s) \in 1..Len(t) /\ s[i] = t[j - Len(s)]
      BY <1>1, <1>5
    <2> QED
      BY <1>2, <1>3, <2>1
  <1>6. CASE ~(i <= Len(s))
    <2>1. i - Len(s) \in 1..Len(t) /\ j - Len(s) \in 1..Len(t) /\ t[i - Len(s)] = t[j - Len(s)]
      BY <1>1, <1>6
    <2>2. i - Len(s) = j - Len(s)
      BY <1>1, <2>1 DEF Distinct
    <2> QED
      BY <1>1, <2>2
  <1> QED
    BY <1>4, <1>5, <1>6

LEMMA DistinctAppend ==
    ASSUME NEW S, NEW s \in Seq(S), NEW e \in S, Distinct(s), e \notin Range(s)
    PROVE  Distinct(Append(s, e))
  <1>1. <<e>> \in Seq(S) /\ DOMAIN <<e>> = {1} /\ <<e>>[1] = e
    OBVIOUS
  <1>2. Distinct(<<e>>) /\ Range(<<e>>) = {e}
    BY <1>1 DEF Distinct, Range
  <1>3. Append(s, e) = s \o <<e>>
    BY AppendIsConcat
  <1>4. Range(s) \cap Range(<<e>>) = {}
    BY <1>2
  <1> QED
    BY ZenonT(30), <1>1, <1>2, <1>3, <1>4, DistinctConcat

LEMMA DistinctTail ==
    ASSUME NEW S, NEW s \in Seq(S), s # <<>>, Distinct(s)
    PROVE  Distinct(Tail(s)) /\ Head(s) \notin Range(Tail(s))
  <1>1. /\ DOMAIN s = 1..Len(s) /\ Len(s) \in Nat \ {0} /\ Head(s) = s[1]
        /\ DOMAIN Tail(s) = 1..(Len(s) - 1)
        /\ \A i \in 1..(Len(s) - 1) : Tail(s)[i] = s[i + 1]
    BY HeadTailProperties, EmptySeq
  <1>2. \A i \in 1..(Len(s) - 1) : i + 1 \in 1..Len(s) /\ i + 1 # 1 /\ 1 \in 1..Len(s)
    BY <1>1
  <1>3. \A i, j \in 1..(Len(s) - 1) : i + 1 = j + 1 => i = j
    BY <1>1
  <1>4. Distinct(Tail(s))
    BY <1>1, <1>2, <1>3 DEF Distinct
  <1>5. \A i \in 1..(Len(s) - 1) : Tail(s)[i] # Head(s)
    BY <1>1, <1>2 DEF Distinct
  <1> QED
    BY <1>1, <1>4, <1>5 DEF Range

LEMMA DistinctCount ==
    ASSUME NEW S, NEW s \in Seq(S), Distinct(s)
    PROVE  IsFiniteSet(Range(s)) /\ Cardinality(Range(s)) = Len(s)
  <1>1. DOMAIN s = 1..Len(s) /\ Len(s) \in Nat
    OBVIOUS
  <1>2. s \in [1..Len(s) -> Range(s)]
    BY <1>1 DEF Range
  <1>3. s \in Surjection(1..Len(s), Range(s))
    BY <1>1, <1>2 DEF Range, Surjection
  <1>4. s \in Injection(1..Len(s), Range(s))
    BY <1>1, <1>2 DEF Distinct, Injection, IsInjective
  <1>5. IsFiniteSet(1..Len(s)) /\ Cardinality(1..Len(s)) = Len(s)
    BY SMTT(30), <1>1, FS_Interval
  <1> QED
    BY <1>3, <1>4, <1>5, FS_Surjection

-------------------------------------------------------------------------------
\* Numbers and sums

\* Every set of natural numbers has a least element: what follows by induction
\* on numbers is proved from it, since the provers cannot instantiate the
\* induction theorems of the library.
LEMMA LeastNumber ==
    ASSUME NEW T \in SUBSET Nat, T # {}
    PROVE  \E n \in T : \A m \in T : n <= m
  <1> DEFINE R == OpToRel(<, Nat)
  <1>1. IsWellFoundedOn(R, Nat)
    BY Zenon, NatLessThanWellFounded
  <1>2. R = {ss \in Nat \X Nat : ss[1] < ss[2]}
    BY DEF OpToRel
  <1> HIDE DEF R
  <1>3. PICK x \in T : \A y \in T : ~ (<<y, x>> \in R)
    BY <1>1, WFMin
  <1>4. ASSUME NEW y \in T PROVE x <= y
    <2>1. <<y, x>> \notin R /\ <<y, x>> \in Nat \X Nat
      BY <1>3
    <2>2. ~(y < x)
      BY <1>2, <2>1
    <2> QED
      BY <2>2
  <1> QED
    BY <1>4

\* The equation of the recursion by which SumFunction is defined.
Pick(s) == CHOOSE x \in s : TRUE
SumEquation(S, f, h) ==
    h = [s \in SUBSET S |-> IF s = {} THEN 0 ELSE f[Pick(s)] + h[s \ {Pick(s)}]]
SumOf(S, f) == CHOOSE h : SumEquation(S, f, h)

LEMMA SumIs ==
    ASSUME NEW f
    PROVE  SumFunction(f) = SumOf(DOMAIN f, f)[DOMAIN f]
  BY Zenon DEF SumFunction, SumFunctionOnSet, FoldFunctionOnSet, MapThenFoldSet,
               SumEquation, SumOf, Pick

LEMMA Smaller ==
    ASSUME NEW S, IsFiniteSet(S), NEW s \in SUBSET S, s # {}
    PROVE  /\ Pick(s) \in s /\ s \ {Pick(s)} \in SUBSET S
           /\ IsFiniteSet(s) /\ Cardinality(s) \in Nat \ {0}
           /\ Cardinality(s \ {Pick(s)}) = Cardinality(s) - 1
  <1>1. Pick(s) \in s
    BY DEF Pick
  <1>2. IsFiniteSet(s)
    BY FS_Subset
  <1>3. Cardinality(s) \in Nat /\ Cardinality(s) # 0
    BY <1>2, FS_CardinalityType, FS_EmptySet
  <1> QED
    BY <1>1, <1>2, <1>3, FS_RemoveElement

\* A solution for the sets of up to n elements extends to those of n + 1.
LEMMA SumExists ==
    ASSUME NEW S, IsFiniteSet(S), NEW f \in [S -> Int]
    PROVE  \E h : SumEquation(S, f, h)
  <1> DEFINE Level(n) == {s \in SUBSET S : Cardinality(s) <= n}
             Step(h, s) == IF s = {} THEN 0 ELSE f[Pick(s)] + h[s \ {Pick(s)}]
             Solves(n, h) == \A s \in Level(n) : h[s] = Step(h, s)
             Bad == {n \in Nat : ~ \E h \in [Level(n) -> Int] : Solves(n, h)}
  <1>1. Bad = {}
    <2> SUFFICES ASSUME Bad # {} PROVE FALSE
      OBVIOUS
    <2>1. PICK m \in Bad : \A n \in Bad : m <= n
      <3>1. Bad \in SUBSET Nat
        OBVIOUS
      <3> HIDE DEF Bad
      <3> QED
        BY <3>1, LeastNumber
    <2>2. CASE m = 0
      <3>1. \A s \in Level(0) : s = {}
        <4> SUFFICES ASSUME NEW s \in SUBSET S, Cardinality(s) <= 0, s # {} PROVE FALSE
          OBVIOUS
        <4>1. Cardinality(s) \in Nat \ {0}
          BY Smaller
        <4> QED
          BY <4>1
      <3> DEFINE h == [s \in Level(0) |-> 0]
      <3>2. h \in [Level(0) -> Int] /\ Solves(0, h)
        BY <3>1
      <3> QED
        BY <2>1, <2>2, <3>2
    <2>3. CASE m # 0
      <3>1. m - 1 \in Nat /\ m - 1 \notin Bad
        <4>1. m \in Nat
          BY <2>1
        <4> HIDE DEF Bad
        <4> QED
          BY <2>1, <2>3, <4>1
      <3>2. PICK h \in [Level(m - 1) -> Int] : Solves(m - 1, h)
        BY <3>1
      <3> DEFINE g == [s \in Level(m) |-> Step(h, s)]
      <3>3. ASSUME NEW s \in Level(m), s # {}
            PROVE  Pick(s) \in S /\ s \ {Pick(s)} \in Level(m - 1) /\ s \ {Pick(s)} \in Level(m)
        BY <3>3, <2>1, Smaller
      <3>4. g \in [Level(m) -> Int]
        BY <3>3
      <3>5. \A s \in Level(m - 1) : s \in Level(m) /\ g[s] = h[s]
        <4> SUFFICES ASSUME NEW s \in Level(m - 1) PROVE s \in Level(m) /\ g[s] = h[s]
          OBVIOUS
        <4>1. IsFiniteSet(s)
          BY FS_Subset
        <4>2. Cardinality(s) \in Nat
          BY <4>1, FS_CardinalityType
        <4>3. s \in Level(m)
          BY <4>2, <2>1
        <4> QED
          BY <3>2, <4>3
      <3>6. Solves(m, g)
        <4> SUFFICES ASSUME NEW s \in Level(m) PROVE g[s] = Step(g, s)
          OBVIOUS
        <4>1. g[s] = Step(h, s)
          OBVIOUS
        <4>2. CASE s = {}
          BY <4>2
        <4>3. CASE s # {}
          <5>1. g[s \ {Pick(s)}] = h[s \ {Pick(s)}]
            BY <3>3, <3>5, <4>3
          <5> HIDE DEF g
          <5> QED
            BY <4>1, <4>3, <5>1
        <4> HIDE DEF g
        <4> QED
          BY <4>2, <4>3
      <3> HIDE DEF g, Solves, Level
      <3> QED
        BY <2>1, <3>4, <3>6
    <2> QED
      BY <2>2, <2>3
  <1>2. Cardinality(S) \in Nat
    BY FS_CardinalityType
  <1>3. PICK h \in [Level(Cardinality(S)) -> Int] : Solves(Cardinality(S), h)
    BY <1>1, <1>2
  <1>4. Level(Cardinality(S)) = SUBSET S
    BY FS_Subset
  <1>5. DOMAIN h = SUBSET S /\ \A s \in SUBSET S : h[s] = Step(h, s)
    BY <1>3, <1>4
  <1>6. h = [s \in SUBSET S |-> Step(h, s)]
    <2>1. h = [s \in DOMAIN h |-> h[s]]
      BY <1>3
    <2> QED
      BY <1>5, <2>1
  <1>7. SumEquation(S, f, h)
    BY <1>6 DEF SumEquation
  <1> QED
    BY <1>7

LEMMA SumSolves ==
    ASSUME NEW S, IsFiniteSet(S), NEW f \in [S -> Int], NEW s \in SUBSET S
    PROVE  SumOf(S, f)[s] = IF s = {} THEN 0 ELSE f[Pick(s)] + SumOf(S, f)[s \ {Pick(s)}]
  <1>1. SumEquation(S, f, SumOf(S, f))
    BY SumExists DEF SumOf
  <1> DEFINE r == SumOf(S, f)
  <1>2. r = [t \in SUBSET S |-> IF t = {} THEN 0 ELSE f[Pick(t)] + r[t \ {Pick(t)}]]
    BY <1>1 DEF SumEquation
  <1> HIDE DEF r
  <1>3. r[s] = IF s = {} THEN 0 ELSE f[Pick(s)] + r[s \ {Pick(s)}]
    BY <1>2
  <1> QED
    BY <1>3 DEF r

\* Changing one value changes the sum by as much.
LEMMA SumUpdate ==
    ASSUME NEW S, IsFiniteSet(S), NEW f \in [S -> Int], NEW g \in [S -> Int], NEW x \in S,
           \A y \in S \ {x} : g[y] = f[y]
    PROVE  /\ SumFunction(f) \in Int
           /\ SumFunction(g) = SumFunction(f) + (g[x] - f[x])
  <1> DEFINE rf == SumOf(S, f)
             rg == SumOf(S, g)
             Good(s) == /\ rf[s] \in Int
                        /\ rg[s] = rf[s] + (IF x \in s THEN g[x] - f[x] ELSE 0)
             Bad == {n \in Nat : \E s \in SUBSET S : Cardinality(s) = n /\ ~Good(s)}
  <1>1. ASSUME NEW s \in SUBSET S
        PROVE  /\ rf[s] = IF s = {} THEN 0 ELSE f[Pick(s)] + rf[s \ {Pick(s)}]
               /\ rg[s] = IF s = {} THEN 0 ELSE g[Pick(s)] + rg[s \ {Pick(s)}]
    <2>1. rf[s] = IF s = {} THEN 0 ELSE f[Pick(s)] + rf[s \ {Pick(s)}]
      BY SumSolves
    <2>2. rg[s] = IF s = {} THEN 0 ELSE g[Pick(s)] + rg[s \ {Pick(s)}]
      BY SumSolves
    <2> QED
      BY <2>1, <2>2
  <1> HIDE DEF rf, rg
  <1>2. Bad = {}
    <2> SUFFICES ASSUME Bad # {} PROVE FALSE
      OBVIOUS
    <2>1. PICK m \in Bad : \A n \in Bad : m <= n
      <3>1. Bad \in SUBSET Nat
        OBVIOUS
      <3> HIDE DEF Bad
      <3> QED
        BY <3>1, LeastNumber
    <2>2. PICK s \in SUBSET S : Cardinality(s) = m /\ ~Good(s)
      BY <2>1
    <2>3. s # {}
      BY SMTT(30), <2>2, <1>1
    <2>4. /\ Pick(s) \in s /\ s \ {Pick(s)} \in SUBSET S
          /\ Cardinality(s) \in Nat \ {0} /\ Cardinality(s \ {Pick(s)}) = Cardinality(s) - 1
      BY <2>3, Smaller
    <2>5. Good(s \ {Pick(s)})
      <3>1. m - 1 \in Nat /\ m - 1 \notin Bad
        BY <2>1, <2>2, <2>4
      <3> HIDE DEF Good
      <3> QED
        BY <3>1, <2>2, <2>4
    <2>6. /\ rf[s] = f[Pick(s)] + rf[s \ {Pick(s)}]
          /\ rg[s] = g[Pick(s)] + rg[s \ {Pick(s)}]
      BY <1>1, <2>3
    <2>7. CASE Pick(s) = x
      <3>1. x \in s /\ x \notin s \ {Pick(s)}
        BY <2>4, <2>7
      <3>2. rg[s \ {Pick(s)}] = rf[s \ {Pick(s)}] /\ rf[s \ {Pick(s)}] \in Int
        BY <2>5, <3>1
      <3>3. f[x] \in Int /\ g[x] \in Int
        OBVIOUS
      <3> QED
        BY <2>2, <2>6, <2>7, <3>1, <3>2, <3>3
    <2>8. CASE Pick(s) # x
      <3>1. x \in s <=> x \in s \ {Pick(s)}
        BY <2>8
      <3>2. f[Pick(s)] \in Int /\ g[Pick(s)] = f[Pick(s)] /\ f[x] \in Int /\ g[x] \in Int
        BY <2>4, <2>8
      <3> QED
        BY <2>2, <2>5, <2>6, <3>1, <3>2
    <2> QED
      BY <2>7, <2>8
  <1>3. Cardinality(S) \in Nat
    BY FS_CardinalityType
  <1>4. Good(S)
    BY <1>2, <1>3
  <1>5. DOMAIN f = S /\ DOMAIN g = S
    OBVIOUS
  <1>6. SumFunction(f) = rf[S] /\ SumFunction(g) = rg[S]
    BY <1>5, SumIs DEF rf, rg
  <1> QED
    BY <1>4, <1>6

LEMMA SumIsInt ==
    ASSUME NEW S, IsFiniteSet(S), NEW f \in [S -> Int]
    PROVE  SumFunction(f) \in Int
  <1>1. CASE S = {}
    <2>1. SumOf(S, f)[S] = 0
      BY <1>1, SumSolves
    <2> QED
      BY <2>1, SumIs
  <1>2. CASE S # {}
    <2>1. PICK x \in S : TRUE
      BY <1>2
    <2> QED
      BY <2>1, SumUpdate
  <1> QED
    BY <1>1, <1>2

LEMMA SumOfZeros ==
    ASSUME NEW S, IsFiniteSet(S), NEW f \in [S -> Int], \A x \in S : f[x] = 0
    PROVE  SumFunction(f) = 0
  <1> DEFINE r == SumOf(S, f)
             Bad == {n \in Nat : \E s \in SUBSET S : Cardinality(s) = n /\ r[s] # 0}
  <1>1. \A s \in SUBSET S : r[s] = IF s = {} THEN 0 ELSE f[Pick(s)] + r[s \ {Pick(s)}]
    BY SumSolves
  <1> HIDE DEF r
  <1>2. Bad = {}
    <2> SUFFICES ASSUME Bad # {} PROVE FALSE
      OBVIOUS
    <2>1. PICK m \in Bad : \A n \in Bad : m <= n
      <3>1. Bad \in SUBSET Nat
        OBVIOUS
      <3> HIDE DEF Bad
      <3> QED
        BY <3>1, LeastNumber
    <2>2. PICK s \in SUBSET S : Cardinality(s) = m /\ r[s] # 0
      BY <2>1
    <2>3. s # {}
      BY <1>1, <2>2
    <2>4. /\ Pick(s) \in s /\ s \ {Pick(s)} \in SUBSET S
          /\ Cardinality(s) \in Nat \ {0} /\ Cardinality(s \ {Pick(s)}) = Cardinality(s) - 1
      BY <2>3, Smaller
    <2>5. m - 1 \in Nat /\ m - 1 \notin Bad
      BY <2>1, <2>2, <2>4
    <2>6. r[s \ {Pick(s)}] = 0
      BY <2>2, <2>4, <2>5
    <2>7. f[Pick(s)] = 0 /\ r[s] = f[Pick(s)] + r[s \ {Pick(s)}]
      BY <1>1, <2>3, <2>4
    <2> QED
      BY <2>2, <2>6, <2>7
  <1>3. Cardinality(S) \in Nat
    BY FS_CardinalityType
  <1>4. r[S] = 0
    BY <1>2, <1>3
  <1> QED
    BY <1>4, SumIs DEF r

===============================================================================
