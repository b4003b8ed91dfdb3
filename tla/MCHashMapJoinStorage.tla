------------------------ MODULE MCHashMapJoinStorage ------------------------
(***************************************************************************)
(* Instances of HashMapJoinStorage for TLC.                                *)
(***************************************************************************)
EXTENDS HashMapJoinStorage

CONSTANTS c1, c2, k1, s1

TwoCalls == {c1, c2}
OneKey == [c \in Calls |-> k1]
Sides == [c \in Calls |-> IF c = c1 THEN 0 ELSE 1]
Nobody == {}
First == {c1}
OneStopper == {s1}
ShortDeadline == {1}
NoContextDeadline == {NoDeadline}
=============================================================================
