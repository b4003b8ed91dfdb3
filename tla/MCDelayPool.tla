---------------------------- MODULE MCDelayPool -----------------------------
(***************************************************************************)
(* Instances of DelayPool for TLC.                                         *)
(***************************************************************************)
EXTENDS DelayPool

CONSTANTS t1, t2, s1

TwoTasks == {t1, t2}
OneStopper == {s1}
First == {t1}
Second == {t2}

(* Due at once, soon, and never (saturated).                               *)
SomeDelays == {0, 1, 9}
=============================================================================
