--------------------------- MODULE SourceEndpoints ---------------------------
(***************************************************************************)
(* The requests of the data source endpoints and the results that come     *)
(* back for them.  A request registers under its stream id, hands its      *)
(* message to the graph, waits until a result callback calls done(), the   *)
(* deadline passes or the endpoint stops, shuts out further results and    *)
(* calls endRequest.  Results find the request by its stream id and run    *)
(* its callback, each in a thread of its own.                              *)
(*                                                                         *)
(* Three endpoints follow this plan with locks and orders of their own:    *)
(* "producer" (localsource/custom.hpp and, line for line the same,         *)
(* kafka/detail/endpoint.hpp), "http" (http/beast.hpp) and "grpc"          *)
(* (grpc/common.hpp with the four streaming modes).  The transport is      *)
(* chosen once, at the start.                                              *)
(***************************************************************************)
EXTENDS Naturals, FiniteSets

CONSTANTS
  Requests, Results,
  StreamIds,
  RequestId,   \* the stream id of each request
  ResultId,    \* the stream id each result carries
  Timed,       \* requests whose context has a deadline
  Limits,      \* values of Handler::concurrency
  Transports,
  None

VARIABLES
  transport,
  limit,          \* Handler::concurrency, of producer endpoints
  active,         \* active_
  stop,           \* stop(): running, closed (admission), requested (tokens), stopped
  pending,        \* pending_: the request registered under each stream id
  pc,             \* where each request is
  inserted,       \* requests that have registered
  callback,       \* requests whose result callback is registered
  completed,      \* completed, or doneSent: done() has been called
  claimed,        \* wakeSent, of producer requests
  woken,          \* the event done has been sent
  expired,        \* requests whose deadline has passed
  failed,         \* resultWaitFailed
  error,          \* requests that carry an error
  fence,          \* of each request's results: open, closing, closed, lifted
  readers,        \* results inside the fence of each request
  stage,          \* where each result is
  target,         \* the request each result found
  carrier         \* the request whose endRequest delivers the result

endpointVars == <<transport, limit, active, stop>>

requestVars == <<pc, inserted, expired, failed, error>>

doneVars == <<completed, claimed, woken>>

resultVars == <<stage, target, carrier>>

vars == <<endpointVars, requestVars, doneVars, resultVars, pending, callback, fence, readers>>

Counted == transport = "producer"   \* limited by acquire and release

Locked == transport # "http"   \* the fence is a CooperativeSharedMutex

Over == {"new", "refused", "ended"}

Init ==
  /\ transport \in Transports
  /\ limit \in IF Counted THEN Limits ELSE {0}
  /\ active = 0
  /\ stop = "running"
  /\ pending = [i \in StreamIds |-> None]
  /\ pc = [r \in Requests |-> "new"]
  /\ inserted = {} /\ callback = {} /\ expired = {} /\ failed = {} /\ error = {}
  /\ completed = {} /\ claimed = {} /\ woken = {}
  /\ fence = [r \in Requests |-> "open"]
  /\ readers = [r \in Requests |-> {}]
  /\ stage = [q \in Results |-> "idle"]
  /\ target = [q \in Results |-> None]
  /\ carrier = [q \in Results |-> None]

Cancelled(r) == r \in expired \/ (stop \in {"requested", "stopped"} /\ transport # "grpc")

Goto(r, where) == pc' = [pc EXCEPT ![r] = where]

-----------------------------------------------------------------------------
(* A request, up to its registration.                                      *)

(* Fault: the limit is tested with <=.                                     *)
SlotFreeOneMore == active <= limit

SlotFree == active < limit

(* acquire() of a producer endpoint: a call waits for a slot.              *)
Acquire(r) ==
  /\ Counted /\ pc[r] = "new"
  /\ \/ /\ stop # "running"
        /\ Goto(r, "refused")
        /\ UNCHANGED active
     \/ /\ stop = "running" /\ SlotFree
        /\ Goto(r, "admitted")
        /\ active' = active + 1
  /\ UNCHANGED <<transport, limit, stop, inserted, expired, failed, error, doneVars,
                 resultVars, pending, callback, fence, readers>>

(* admit() of an http endpoint; a grpc endpoint refuses no call.           *)
Admit(r) ==
  /\ ~Counted /\ pc[r] = "new"
  /\ Goto(r, IF transport = "http" /\ stop # "running" THEN "refused" ELSE "admitted")
  /\ UNCHANGED <<endpointVars, inserted, expired, failed, error, doneVars, resultVars,
                 pending, callback, fence, readers>>

(* release(), as the request's scope is left.                              *)
Release(r, where) ==
  /\ Goto(r, where)
  /\ active' = IF Counted THEN active - 1 ELSE active

(* beginRequest throws: the request is over, endRequest is not called.     *)
BeginFails(r) ==
  /\ pc[r] = "admitted"
  /\ Release(r, "refused")
  /\ UNCHANGED <<transport, limit, stop, inserted, expired, failed, error, doneVars,
                 resultVars, pending, callback, fence, readers>>

(* beginRequest returns and the request registers; a stream id in use is   *)
(* rejected (DuplicateKeyError) and the request goes on to its end.        *)
Register(r) ==
  /\ pc[r] = "admitted"
  /\ IF pending[RequestId[r]] = None
     THEN /\ pending' = [pending EXCEPT ![RequestId[r]] = r]
          /\ inserted' = inserted \cup {r}
          /\ Goto(r, "registered")
          /\ UNCHANGED error
     ELSE /\ error' = error \cup {r}
          /\ Goto(r, "retiring")
          /\ UNCHANGED <<pending, inserted>>
  /\ UNCHANGED <<endpointVars, expired, failed, doneVars, resultVars, callback, fence, readers>>

(* consumeMessage: the handler registers its result callback ...           *)
SetResultCallback(r) ==
  /\ pc[r] = "registered"
  /\ callback' = callback \cup {r}
  /\ Goto(r, "consuming")
  /\ UNCHANGED <<endpointVars, inserted, expired, failed, error, doneVars, resultVars,
                 pending, fence, readers>>

(* ... and returns or throws.                                              *)
Consumed(r) ==
  /\ pc[r] = "consuming"
  /\ \/ Goto(r, "waiting") /\ UNCHANGED error
     \/ Goto(r, "retiring") /\ error' = error \cup {r}
  /\ UNCHANGED <<endpointVars, inserted, expired, failed, doneVars, resultVars, pending,
                 callback, fence, readers>>

-----------------------------------------------------------------------------
(* The wait for done().                                                    *)
Fail(r) == failed' = failed \cup {r} /\ error' = error \cup {r}

(* Fault: only a wait with a deadline has the stop callback.               *)
HasStopCallbackTimed(r) == Counted /\ r \in Timed

HasStopCallback(r) == Counted

(* A producer's request: the stop callback claims and sends the wake-up.   *)
CancelWakes(r) ==
  /\ HasStopCallback(r) /\ pc[r] = "waiting"
  /\ stop = "requested"
  /\ r \notin claimed
  /\ claimed' = claimed \cup {r}
  /\ woken' = woken \cup {r}
  /\ UNCHANGED <<endpointVars, requestVars, completed, resultVars, pending, callback, fence,
                 readers>>

(* A producer's request asks after the wait whether it was cancelled.      *)
WaitReturns(r) ==
  /\ Counted /\ pc[r] = "waiting"
  /\ r \in woken
  /\ IF Cancelled(r) THEN Fail(r) ELSE UNCHANGED <<failed, error>>
  /\ Goto(r, "retiring")
  /\ UNCHANGED <<endpointVars, inserted, expired, doneVars, resultVars, pending, callback,
                 fence, readers>>

(* An http or grpc request waits with AsyncWait, which cancellation ends   *)
(* too, and fails if the event is still unsent.                            *)
AsyncWaitReturns(r) ==
  /\ ~Counted /\ pc[r] = "waiting"
  /\ r \in woken \/ Cancelled(r)
  /\ IF r \in woken THEN UNCHANGED <<failed, error>> ELSE Fail(r)
  /\ Goto(r, "retiring")
  /\ UNCHANGED <<endpointVars, inserted, expired, doneVars, resultVars, pending, callback,
                 fence, readers>>

(* Fault: the event is waited for whoever has claimed its sending.         *)
WaitTimesOutClaiming(r) ==
  /\ Counted /\ pc[r] = "waiting"
  /\ r \in expired \ woken
  /\ claimed' = claimed \cup {r}
  /\ Goto(r, "yielding")
  /\ UNCHANGED <<failed, error>>
  /\ UNCHANGED <<endpointVars, inserted, expired, completed, woken, resultVars, pending,
                 callback, fence, readers>>

(* A producer's request: WaitUntil gives up and claims the wake-up; if one *)
(* has claimed it before, that sender is waited for.                       *)
WaitTimesOut(r) ==
  /\ Counted /\ pc[r] = "waiting"
  /\ r \in expired \ woken
  /\ IF r \in claimed
     THEN Goto(r, "yielding") /\ UNCHANGED <<claimed, failed, error>>
     ELSE Goto(r, "retiring") /\ Fail(r) /\ claimed' = claimed \cup {r}
  /\ UNCHANGED <<endpointVars, inserted, expired, completed, woken, resultVars, pending,
                 callback, fence, readers>>

YieldReturns(r) ==
  /\ pc[r] = "yielding" /\ r \in woken
  /\ Fail(r)
  /\ Goto(r, "retiring")
  /\ UNCHANGED <<endpointVars, inserted, expired, doneVars, resultVars, pending, callback,
                 fence, readers>>

-----------------------------------------------------------------------------
(* The end of a request.  First results are shut out: unique_lock of       *)
(* lifetimeMutex, or retire().  Both wait for the results inside.          *)
RetireBegins(r) ==
  /\ pc[r] = "retiring"
  /\ fence' = [fence EXCEPT ![r] = "closing"]
  /\ Goto(r, "closing")
  /\ UNCHANGED <<endpointVars, inserted, expired, failed, error, doneVars, resultVars,
                 pending, callback, readers>>

(* A wait that failed is forgiven if done() was called after all.          *)
ProducerVerdict(r) == IF r \in failed \cap completed THEN error \ {r} ELSE error

(* Fault: the verdict of the wait stands.                                  *)
HttpVerdictAsWaited(r) == error

HttpVerdict(r) ==
  IF r \in error /\ r \notin failed \cap completed THEN error
  ELSE IF r \in woken THEN error \ {r} ELSE error \cup {r}

GrpcVerdict(r) == IF r \in failed \cap woken THEN error \ {r} ELSE error

Verdict(r) ==
  CASE transport = "producer" -> ProducerVerdict(r)
    [] transport = "http" -> HttpVerdict(r)
    [] transport = "grpc" -> GrpcVerdict(r)

(* Fault: the id is given up by a request that never got it.               *)
PopAny(r) == [pending EXCEPT ![RequestId[r]] = None]

Pop(r) == IF r \in inserted THEN [pending EXCEPT ![RequestId[r]] = None] ELSE pending

(* Fault: the results inside are not waited for.                           *)
QuietAlways(r) == TRUE

Quiet(r) == readers[r] = {}

RetireEnds(r) ==
  /\ pc[r] = "closing" /\ Quiet(r)
  /\ fence' = [fence EXCEPT ![r] = "closed"]
  /\ error' = Verdict(r)
  /\ pending' = IF transport = "grpc" THEN pending ELSE Pop(r)
  /\ callback' = IF transport = "http" THEN callback \ {r} ELSE callback
  /\ Goto(r, "ending")
  /\ UNCHANGED <<endpointVars, inserted, expired, failed, doneVars, resultVars, readers>>

(* endRequest is running.  The handler may in it cause a result of its own *)
(* stream to be delivered, in this same thread.                            *)
EndDelivers(r, q) ==
  /\ pc[r] = "ending"
  /\ stage[q] = "idle" /\ carrier[q] = None /\ ResultId[q] = RequestId[r]
  /\ carrier' = [carrier EXCEPT ![q] = r]
  /\ UNCHANGED <<endpointVars, requestVars, doneVars, stage, target, pending, callback,
                 fence, readers>>

Lift(r) == IF Locked THEN [fence EXCEPT ![r] = "lifted"] ELSE fence

(* endRequest returns; a grpc request gives up its id only now.            *)
End(r) ==
  /\ pc[r] = "ending"
  /\ \A q \in Results : carrier[q] = r => stage[q] = "gone"
  /\ pending' = IF transport = "grpc" THEN Pop(r) ELSE pending
  /\ fence' = Lift(r)
  /\ Release(r, "ended")
  /\ UNCHANGED <<transport, limit, stop, inserted, expired, failed, error, doneVars,
                 resultVars, callback, readers>>

-----------------------------------------------------------------------------
(* consumeResult.  Locked endpoints wait for the fence, an http endpoint   *)
(* refuses a result that finds it closed.                                  *)

(* grpc: pendingInserted, withdrawn before endRequest.                     *)
Accepts(r) == transport = "grpc" => r \in inserted /\ pc[r] \notin {"ending", "ended"}

Finds(q) == pending[ResultId[q]] # None /\ Accepts(pending[ResultId[q]])

ResultArrives(q) ==
  /\ stage[q] = "idle"
  /\ \/ /\ Finds(q)
        /\ target' = [target EXCEPT ![q] = pending[ResultId[q]]]
        /\ stage' = [stage EXCEPT ![q] = "found"]
     \/ /\ ~Finds(q)
        /\ stage' = [stage EXCEPT ![q] = "gone"]
        /\ UNCHANGED target
  /\ UNCHANGED <<endpointVars, requestVars, doneVars, carrier, pending, callback, fence, readers>>

StillCurrent(q) == pending[ResultId[q]] = target[q] /\ Accepts(target[q])

(* enter() of an http request.                                             *)
HttpEnter(q) == fence[target[q]] = "open"

Enters(q) == StillCurrent(q) /\ (Locked \/ HttpEnter(q))

Leave(q) ==
  /\ readers' = [readers EXCEPT ![target[q]] = @ \ {q}]
  /\ stage' = [stage EXCEPT ![q] = "gone"]
  /\ target' = [target EXCEPT ![q] = None]

(* Inside the fence the callback is looked up; a result for which there is *)
(* none (unknown_message_id) leaves at once.                               *)
ResultEnters(q) ==
  LET r == target[q] IN
  /\ stage[q] = "found"
  /\ Locked => fence[r] \in {"open", "lifted"}
  /\ \/ /\ Enters(q) /\ r \in callback
        /\ readers' = [readers EXCEPT ![r] = @ \cup {q}]
        /\ stage' = [stage EXCEPT ![q] = "calling"]
        /\ UNCHANGED target
     \/ /\ ~(Enters(q) /\ r \in callback)
        /\ Leave(q)
  /\ UNCHANGED <<endpointVars, requestVars, doneVars, carrier, pending, callback, fence>>

(* The callback calls done(): for a producer it sets completed and goes on *)
(* to claim the wake-up; of http and grpc calls the first goes on to Send. *)
Done(q) ==
  /\ stage[q] = "calling"
  /\ completed' = completed \cup {target[q]}
  /\ stage' = [stage EXCEPT ![q] = IF Counted THEN "completing"
                                   ELSE IF target[q] \in completed THEN "returning"
                                   ELSE "sending"]
  /\ UNCHANGED <<endpointVars, requestVars, claimed, woken, target, carrier, pending, callback,
                 fence, readers>>

DoneClaims(q) ==
  /\ stage[q] = "completing"
  /\ claimed' = claimed \cup {target[q]}
  /\ stage' = [stage EXCEPT ![q] = IF target[q] \in claimed THEN "returning" ELSE "sending"]
  /\ UNCHANGED <<endpointVars, requestVars, completed, woken, target, carrier, pending,
                 callback, fence, readers>>

DoneSends(q) ==
  /\ stage[q] = "sending"
  /\ woken' = woken \cup {target[q]}
  /\ stage' = [stage EXCEPT ![q] = "returning"]
  /\ UNCHANGED <<endpointVars, requestVars, completed, claimed, target, carrier, pending,
                 callback, fence, readers>>

(* The callback returns; if it returns true it is erased.                  *)
CallbackReturns(q) ==
  /\ stage[q] \in {"calling", "returning"}
  /\ callback' \in {callback, callback \ {target[q]}}
  /\ Leave(q)
  /\ UNCHANGED <<endpointVars, requestVars, doneVars, carrier, pending, fence>>

-----------------------------------------------------------------------------
(* The deadline of a request's context passes.  It is looked at only in the*)
(* wait, so a deadline that passed before passes as the wait begins.       *)
Expire(r) ==
  /\ r \in Timed \ expired /\ pc[r] = "waiting"
  /\ expired' = expired \cup {r}
  /\ UNCHANGED <<endpointVars, pc, inserted, failed, error, doneVars, resultVars, pending,
                 callback, fence, readers>>

(* stop().  Admission is closed first; a grpc endpoint has nothing else to *)
(* stop than the rotation of pending_.                                     *)
StopCloses ==
  /\ stop = "running"
  /\ stop' = IF transport = "grpc" THEN "stopped" ELSE "closed"
  /\ UNCHANGED <<transport, limit, active, requestVars, doneVars, resultVars, pending, callback,
                 fence, readers>>

(* request_stop() of the endpoint's token.                                 *)
StopRequests ==
  /\ stop = "closed"
  /\ stop' = "requested"
  /\ UNCHANGED <<transport, limit, active, requestVars, doneVars, resultVars, pending, callback,
                 fence, readers>>

(* A producer endpoint waits for the producer's thread and for active_ to  *)
(* be 0; http waits for nothing.                                           *)
Drained == Counted => active = 0

StopEnds ==
  /\ stop = "requested" /\ Drained
  /\ stop' = "stopped"
  /\ UNCHANGED <<transport, limit, active, requestVars, doneVars, resultVars, pending, callback,
                 fence, readers>>

RequestStep(r) ==
  \/ BeginFails(r) \/ Register(r) \/ SetResultCallback(r) \/ Consumed(r)
  \/ CancelWakes(r) \/ WaitReturns(r) \/ WaitTimesOut(r) \/ YieldReturns(r)
  \/ AsyncWaitReturns(r)
  \/ RetireBegins(r) \/ RetireEnds(r) \/ End(r)

ResultStep(q) ==
  \/ ResultEnters(q) \/ DoneClaims(q) \/ DoneSends(q) \/ CallbackReturns(q)

Next ==
  \/ \E r \in Requests : Acquire(r) \/ Admit(r) \/ RequestStep(r) \/ Expire(r)
  \/ \E r \in Requests, q \in Results : EndDelivers(r, q)
  \/ \E q \in Results : ResultArrives(q) \/ Done(q) \/ ResultStep(q)
  \/ StopCloses \/ StopRequests \/ StopEnds

(* A delivery begun by endRequest runs in its thread; threads and callbacks*)
(* are scheduled and handlers return; deadlines pass; stop() goes on.      *)
Fairness ==
  /\ \A r \in Requests : WF_vars(RequestStep(r)) /\ WF_vars(Expire(r))
  /\ \A q \in Results : WF_vars(ResultStep(q)) /\ WF_vars(carrier[q] # None /\ ResultArrives(q))
  /\ WF_vars(StopRequests) /\ WF_vars(StopEnds)

Spec == Init /\ [][Next]_vars

FairSpec == Spec /\ Fairness

-----------------------------------------------------------------------------
(* Every variable has its type.                                            *)
TypeOK ==
  /\ transport \in Transports /\ limit \in Limits \cup {0}
  /\ active \in 0 .. Cardinality(Requests)
  /\ stop \in {"running", "closed", "requested", "stopped"}
  /\ pending \in [StreamIds -> Requests \cup {None}]
  /\ pc \in [Requests -> Over \cup {"admitted", "registered", "consuming", "waiting",
                                    "yielding", "retiring", "closing", "ending"}]
  /\ \A s \in {inserted, callback, completed, claimed, woken, expired, failed, error} :
       s \subseteq Requests
  /\ fence \in [Requests -> {"open", "closing", "closed", "lifted"}]
  /\ readers \in [Requests -> SUBSET Results]
  /\ stage \in [Results -> {"idle", "found", "calling", "completing", "sending", "returning",
                            "gone"}]
  /\ target \in [Results -> Requests \cup {None}]
  /\ carrier \in [Results -> Requests \cup {None}]

(* No callback of a request runs while its endRequest runs or after it: a  *)
(* callback uses the handler's state and the response endRequest finishes. *)
FenceHolds ==
  \A q \in Results : stage[q] \in {"calling", "completing", "sending", "returning"} =>
    pc[target[q]] \notin {"ending"} \cup Over

(* A request whose wait was cut short by a deadline or a stop, but for     *)
(* which done() was called before results were shut out, ends without an   *)
(* error, in every transport.                                              *)
DoneWins ==
  \A r \in Requests : pc[r] \in {"ending", "ended"} /\ r \in failed \cap completed =>
    r \notin error

(* A request is registered under its stream id until it has shut results   *)
(* out itself: neither a rejected duplicate nor the end of another request *)
(* removes it.                                                             *)
OwnRegistration ==
  \A r \in inserted : pc[r] \notin {"ending", "ended"} => pending[RequestId[r]] = r

(* The requests of a producer endpoint between acquire() and               *)
(* release() are as many as active_ says, and never more than the handler's*)
(* concurrency.                                                            *)
ConcurrencyBound ==
  Counted => /\ active = Cardinality({r \in Requests : pc[r] \notin Over})
             /\ active <= limit

(* A request with a deadline ends, whatever becomes of its results.        *)
RequestsEnd == \A r \in Timed : pc[r] = "admitted" ~> pc[r] \in Over

(* Once stop() of a producer or http endpoint has begun it returns, and    *)
(* every request ends, with or without a deadline.                         *)
StopReturns ==
  stop = "closed" ~> stop = "stopped" /\ \A r \in Requests : pc[r] \in Over

=============================================================================
