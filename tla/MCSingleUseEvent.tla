-------------------------- MODULE MCSingleUseEvent --------------------------
(***************************************************************************)
(* Instance of SingleUseEvent for TLC: each kind of wait once.             *)
(***************************************************************************)
EXTENDS SingleUseEvent

CONSTANTS s1, s2, w1, w2, w3, w4

TwoSenders == {s1, s2}
FourWaiters == {w1, w2, w3, w4}
SomeAsync == {w1, w2}
SomeBounded == {w2, w3}
=============================================================================
