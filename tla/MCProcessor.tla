---------------------------- MODULE MCProcessor ----------------------------
(* Instances of Processor for TLC.                                          *)
EXTENDS Processor, TLC

Settings(w, b, o) == [workers |-> w, batchSize |-> b, overflow |-> o]

\* One worker and overflow, or two workers without.
OneOrTwo == {Settings(1, 2, TRUE), Settings(2, 1, FALSE)}

\* One worker and batches of two, with overflow and without.
OnOff == {Settings(1, 2, TRUE), Settings(1, 2, FALSE)}

\* Batches of one and workers to start or stop two of.
OneOrThree == {Settings(1, 1, FALSE), Settings(3, 1, FALSE)}

OnOffOrWorkers == OnOff \cup OneOrThree

\* What clients, the operator and the API have asked of the processor, in the order
\* of their numbers.
Submitted == {l \in Lines : caller[l] # "new"}
Asked == {u \in Updates : updater[u].at # "idle"}

InOrder(calls) == \A n \in calls : \A k \in 1..n : k \in calls

\* An instance keeps to one of the two sets.  In the first a clear or an update meets
\* the lines; in the second two updates meet each other, or one meets a line.
Few ==
    /\ InOrder(Submitted) /\ InOrder(Asked)
    /\ \A c \in {OnOff, OneOrThree} : config \in c =>
          \A u \in Asked : updater[u].at = "lock" => updater[u].asked \in c
    /\ config \in OnOff => clears + Cardinality(Asked) <= 1
    /\ config \in OneOrThree => clears = 0 /\ Cardinality(Submitted) + Cardinality(Asked) <= 2

BoundedNext == Next /\ Few'

BoundedSpec == Init /\ [][BoundedNext]_vars
BoundedFairSpec == BoundedSpec /\ Fairness
===============================================================================
