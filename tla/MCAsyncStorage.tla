---------------------------- MODULE MCAsyncStorage ----------------------------
(* Instances of AsyncStorage for TLC.                                       *)
EXTENDS AsyncStorage, TLC

CONSTANTS s1, s2

SendersValue == {s1, s2}
TwoAndOne == (s1 :> 2) @@ (s2 :> 1)
===============================================================================
