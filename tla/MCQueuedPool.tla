---------------------------- MODULE MCQueuedPool ----------------------------
(***************************************************************************)
(* Instances of QueuedPool for TLC.                                        *)
(***************************************************************************)
EXTENDS QueuedPool, TLC

CONSTANTS t1, t2, t3, s1, s2, b1, b2

TwoTasks == {t1, t2}
ThreeTasks == {t1, t2, t3}
OneStopper == {s1}
OneStarter == {b1}
TwoStarters == {b1, b2}
Nothing == {}
First == {t1}
Second == {t2}
Third == {t3}
AlreadyCancelled == {TRUE}
CancelledLater == {FALSE}

(* INT_MIN is scaled down; one ordinary priority and the extreme itself.   *)
Extreme == -1
SomePriorities == {-1, 0}
OnePriority == {0}

One == {1}
Resizes == {-1, 0, 1}   \* an invalid count, the hardware default (2), one

(* Stoppers are interchangeable; so are tasks no other constant names.     *)
Symmetry == Permutations(Stoppers)
            \cup Permutations(Tasks \ (Cancellable \cup Failing \cup SelfStoppers))
=============================================================================
