---------------------- MODULE MCCooperativeSharedMutex ----------------------
(***************************************************************************)
(* Instance of CooperativeSharedMutex for TLC.                             *)
(***************************************************************************)
EXTENDS CooperativeSharedMutex

CONSTANTS r1, r2, r3, w1, w2

ThreeReaders == {r1, r2, r3}
TwoWriters == {w1, w2}
=============================================================================
