---------------------------- MODULE DrainingPool ----------------------------
(***************************************************************************)
(* What a pool promises its callers (runtime/pool/pool.hpp): a submission  *)
(* is accepted or rejected; an accepted task is executed once, unless the  *)
(* submitting call itself fails; stop() closes admission and returns only  *)
(* after everything accepted has finished.  QueuedPool and DelayPool are   *)
(* both shown to implement this specification.                             *)
(***************************************************************************)
CONSTANTS Tasks,    \* submissions
          Callers   \* calls of stop()

VARIABLES status,   \* of each submission
          closed,   \* admission is closed
          drained,  \* the drain has been announced
          caller    \* where each call of stop() is

absVars == <<status, closed, drained, caller>>

Active == {t \in Tasks : status[t] \in {"accepted", "running"}}

Init ==
  /\ status = [t \in Tasks |-> "new"]
  /\ closed = FALSE
  /\ drained = FALSE
  /\ caller = [c \in Callers |-> "idle"]

Accept(t) ==
  /\ status[t] = "new"
  /\ ~closed
  /\ status' = [status EXCEPT ![t] = "accepted"]
  /\ UNCHANGED <<closed, drained, caller>>

(* A call that throws leaves no task behind, also after its admission.     *)
Reject(t) ==
  /\ status[t] \in {"new", "accepted"}
  /\ status' = [status EXCEPT ![t] = "rejected"]
  /\ UNCHANGED <<closed, drained, caller>>

(* Some accepted tasks start, some running ones finish; the drain may be   *)
(* announced once admission is closed and nothing is active.               *)
Work ==
  /\ \E S \in SUBSET {t \in Tasks : status[t] = "accepted"},
        F \in SUBSET {t \in Tasks : status[t] = "running"} :
       status' = [t \in Tasks |-> IF t \in S THEN "running"
                                  ELSE IF t \in F THEN "finished"
                                  ELSE status[t]]
  /\ \/ drained' = drained
     \/ drained' = TRUE /\ closed /\ Active' = {}
  /\ UNCHANGED <<closed, caller>>

(* stop() from outside waits; from one of the pool's own tasks it throws.  *)
Close(c) ==
  /\ caller[c] = "idle"
  /\ caller' = [caller EXCEPT ![c] = "waiting"]
  /\ closed' = TRUE
  /\ UNCHANGED <<status, drained>>

Refuse(c) ==
  /\ caller[c] = "idle"
  /\ caller' = [caller EXCEPT ![c] = "refused"]
  /\ UNCHANGED <<status, closed, drained>>

Return(c) ==
  /\ caller[c] = "waiting"
  /\ drained
  /\ caller' = [caller EXCEPT ![c] = "returned"]
  /\ UNCHANGED <<status, closed, drained>>

Next ==
  \/ \E t \in Tasks : Accept(t) \/ Reject(t)
  \/ Work
  \/ \E c \in Callers : Close(c) \/ Refuse(c) \/ Return(c)

Spec == Init /\ [][Next]_absVars
=============================================================================
