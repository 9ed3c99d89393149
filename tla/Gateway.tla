------------------------------ MODULE Gateway ------------------------------
(***************************************************************************)
(* app/routers/chat.py: the life of a POST /v1/chat/completions, composed   *)
(* with the AdmissionController of module Admission, whose variables and    *)
(* actions it takes as they are.                                            *)
(*                                                                          *)
(* The endpoint acquires and releases its slot by hand: it awaits           *)
(* release() at five places, one of them in the finally of the generator    *)
(* that streams the response after the endpoint has returned.  A request    *)
(* that leaves by any other way keeps its slot.                             *)
(*                                                                          *)
(* stage[r] is where r's coroutine is:                                      *)
(*   new         before acquire()                                           *)
(*   waiting     in acquire()                                               *)
(*   dispatching in dispatch_with_fallback(), see module Dispatch           *)
(*   processing  non-streaming: in record_usage() of the endpoint           *)
(*   offered     streaming: the response is handed to the server, which     *)
(*               has not started its generator                              *)
(*   delivering  the generator runs                                         *)
(*   settling    in record_usage() of the generator's finally, the slot     *)
(*               released before                                            *)
(*   done        over; reply[r] tells how                                   *)
(*   raised      over, by an exception that passed every release()          *)
(*   abandoned   over, the generator and its finally never ran              *)
(***************************************************************************)
EXTENDS Admission

CONSTANT
    Hanging   \* the requests whose provider, client or Redis may stop answering

ASSUME GatewayAssumption == Hanging \subseteq Req

VARIABLES
    stage,
    reply,    \* reply[r]: the answer's status; of a stream that started whether it
              \* was "streamed" to the end, ended in an "error" event or was "cut"
    counted,  \* counted[r]: times r was counted in REQUESTS_TOTAL
    bill,     \* bill[r]: what became of its record_usage()
    lingering \* the requests whose generator was closed at a yield, while the stream
              \* it was reading is still open

\* The variables of the controller.
pool == vars

gatewayVars == <<pool, stage, reply, counted, bill, lingering>>

\* The requests between acquire() and release().
Serving == {r \in Req : stage[r] \in {"dispatching", "offered", "delivering"}}

\* The requests that may have a provider at work: those with a slot, and those that gave
\* it back before their stream was closed.  (A stream that is abandoned or raises leaves
\* its slot taken.)
Outbound == Serving \cup lingering

Over(r) == stage[r] \in {"done", "raised", "abandoned"}

\* The requests that took their slot with them, and those that lost it to a late timer.
Leaked == {r \in Req : stage[r] \in {"raised", "abandoned"}}
Lost == {r \in Req : status[r] = "lost"}

-----------------------------------------------------------------------------
GatewayInit ==
    /\ Init
    /\ stage = [r \in Req |-> "new"]
    /\ reply = [r \in Req |-> "none"]
    /\ counted = [r \in Req |-> 0]
    /\ bill = [r \in Req |-> "none"]
    /\ lingering = {}

Goto(r, s) == stage' = [stage EXCEPT ![r] = s]

\* r is over with an answer, and counted: the except clause at the end of the
\* endpoint does so for every exception it raises.
Answer(r, a) ==
    /\ Goto(r, "done")
    /\ reply' = [reply EXCEPT ![r] = a]
    /\ counted' = [counted EXCEPT ![r] = @ + 1]

\* Authentication, overrides, routing, policy, rate limit or budget say no, or
\* Redis fails them: 4xx or 500 before anything was acquired.
Refuse(r) ==
    /\ stage[r] = "new"
    /\ Answer(r, "4xx") \/ Answer(r, "5xx")
    /\ UNCHANGED <<pool, bill, lingering>>

\* Variant: the endpoint does not wait for a slot.
EnterUnadmitted(r) ==
    /\ stage[r] = "new"
    /\ AcquireFree(r) \/ UNCHANGED pool
    /\ Goto(r, "dispatching")
    /\ UNCHANGED <<reply, counted, bill, lingering>>

\* acquire() with a slot free: on to the dispatch without suspending.
Enter(r) ==
    /\ stage[r] = "new"
    /\ AcquireFree(r)
    /\ Goto(r, "dispatching")
    /\ UNCHANGED <<reply, counted, bill, lingering>>

\* acquire() with the pool full.
Wait(r, p) ==
    /\ stage[r] = "new"
    /\ AcquireQueued(r, p)
    /\ Goto(r, "waiting")
    /\ UNCHANGED <<reply, counted, bill, lingering>>

\* acquire() returns after all.
Admitted(r) ==
    /\ stage[r] = "waiting"
    /\ Resume(r)
    /\ Goto(r, "dispatching")
    /\ UNCHANGED <<reply, counted, bill, lingering>>

\* AdmissionTimeout: 503.
Shed(r) ==
    /\ stage[r] = "waiting"
    /\ Expire(r) \/ LoseGrant(r)
    /\ Answer(r, "5xx")
    /\ UNCHANGED <<bill, lingering>>

\* Variant: no release() before the 502.
DispatchFailsHolding(r) ==
    /\ stage[r] = "dispatching"
    /\ Answer(r, "5xx")
    /\ UNCHANGED <<pool, bill, lingering>>

\* No candidates (500) or AllAttemptsFailed (502): release(), then raise.
DispatchFails(r) ==
    /\ stage[r] = "dispatching"
    /\ Release(r)
    /\ Answer(r, "5xx")
    /\ UNCHANGED <<bill, lingering>>

\* Any other exception passes both except clauses: 500, counted as any other,
\* and no release().  The providers decode answers outside any try, so one that
\* is not what they expect is a ValueError, KeyError or the like.
DispatchRaises(r) ==
    /\ stage[r] = "dispatching"
    /\ Goto(r, "raised")
    /\ reply' = [reply EXCEPT ![r] = "5xx"]
    /\ counted' = [counted EXCEPT ![r] = @ + 1]
    /\ UNCHANGED <<pool, bill, lingering>>

\* Non-streaming, a candidate answered: the slot goes back before the usage is
\* recorded.
DispatchWins(r) ==
    /\ stage[r] = "dispatching"
    /\ Release(r)
    /\ Goto(r, "processing")
    /\ UNCHANGED <<reply, counted, bill, lingering>>

\* Variant: an error while recording is swallowed.
ProcessedAnyway(r) ==
    /\ stage[r] = "processing"
    /\ Answer(r, "2xx")
    /\ bill' \in {[bill EXCEPT ![r] = b] : b \in {"recorded", "failed"}}
    /\ UNCHANGED <<pool, lingering>>

\* record_usage() succeeds and the response is returned, or it raises: a 500 for
\* a request the provider has answered.
Processed(r) ==
    /\ stage[r] = "processing"
    /\ \/ Answer(r, "2xx") /\ bill' = [bill EXCEPT ![r] = "recorded"]
       \/ Answer(r, "5xx") /\ bill' = [bill EXCEPT ![r] = "failed"]
    /\ UNCHANGED <<pool, lingering>>

\* Streaming, a first chunk or an empty stream: the endpoint returns its
\* StreamingResponse and the slot stays taken.
StreamWins(r) ==
    /\ stage[r] = "dispatching"
    /\ Goto(r, "offered")
    /\ UNCHANGED <<pool, reply, counted, bill, lingering>>

\* The server sends the headers and iterates the generator.
StartStream(r) ==
    /\ stage[r] = "offered"
    /\ Goto(r, "delivering")
    /\ UNCHANGED <<pool, reply, counted, bill, lingering>>

\* The client has gone: the server cancels the response before its generator
\* ran.  The finally of a generator that was never started does not run.
Abandon(r) ==
    /\ stage[r] = "offered"
    /\ Goto(r, "abandoned")
    /\ reply' = [reply EXCEPT ![r] = "cut"]
    /\ UNCHANGED <<pool, counted, bill, lingering>>

\* Variant: the finally forgets the slot.
EndStreamHolding(r) ==
    /\ stage[r] = "delivering"
    /\ counted' = [counted EXCEPT ![r] = @ + 1]
    /\ reply' \in {[reply EXCEPT ![r] = a] : a \in {"streamed", "error", "cut"}}
    /\ Goto(r, "settling") \/ Goto(r, "done")
    /\ UNCHANGED <<pool, bill, lingering>>

\* The generator ends: after [DONE], after an error event, or closed or cancelled
\* because the client left.  Its finally releases and counts, and then records
\* usage if anything was generated.  Closed at a yield, it still holds the stream of
\* the provider, which is suspended at a yield of its own inside client.stream().
EndStream(r) ==
    /\ stage[r] = "delivering"
    /\ Release(r)
    /\ counted' = [counted EXCEPT ![r] = @ + 1]
    /\ \/ /\ reply' \in {[reply EXCEPT ![r] = a] : a \in {"streamed", "error", "cut"}}
          /\ UNCHANGED lingering
       \/ /\ reply' = [reply EXCEPT ![r] = "cut"]
          /\ lingering' = lingering \cup {r}
    /\ Goto(r, "settling") \/ Goto(r, "done")
    /\ UNCHANGED bill

\* record_usage() of the finally: done, or Redis failed, or the cancellation of
\* the response cut it short.
Settle(r) ==
    /\ stage[r] = "settling"
    /\ Goto(r, "done")
    /\ bill' \in {[bill EXCEPT ![r] = b] : b \in {"recorded", "failed"}}
    /\ UNCHANGED <<pool, reply, counted, lingering>>

\* The generator is gone, and with it the last reference to the stream: the event loop
\* closes it, and the connection to the provider.
CloseSource(r) ==
    /\ stage[r] = "done" /\ r \in lingering
    /\ lingering' = lingering \ {r}
    /\ UNCHANGED <<pool, stage, reply, counted, bill>>

\* Every request is over.
AllDone ==
    /\ \A r \in Req : Over(r)
    /\ UNCHANGED gatewayVars

\* What the endpoint does by itself once r has its slot.
Serve(r) ==
    \/ DispatchFails(r) \/ DispatchRaises(r) \/ DispatchWins(r) \/ StreamWins(r)
    \/ Processed(r) \/ StartStream(r) \/ EndStream(r) \/ Settle(r)

GatewayNext ==
    \/ \E r \in Req : \/ Refuse(r)
                      \/ Enter(r)
                      \/ \E p \in Priority : Wait(r, p)
                      \/ Admitted(r)
                      \/ Shed(r)
                      \/ Abandon(r)
                      \/ Serve(r)
                      \/ CloseSource(r)
    \/ AllDone

GatewaySpec == GatewayInit /\ [][GatewayNext]_gatewayVars

\* Ready tasks run.  That what a request waits for answers is assumed of all but those in
\* Hanging, for the code does not see to it: a timeout of the HTTP clients is one for each
\* read, so a stream that trickles has none; sending to a client that does not read has
\* none; and the Redis clients are built without one.
GatewayFairness ==
    /\ \A r \in Req : WF_gatewayVars(Admitted(r))
    /\ \A r \in Req \ Hanging : WF_gatewayVars(Serve(r))

GatewayFairSpec == GatewaySpec /\ GatewayFairness

-----------------------------------------------------------------------------
\* Every variable, the controller's included, keeps its shape.
GatewayTypeOK ==
    /\ TypeOK
    /\ stage \in [Req -> {"new", "waiting", "dispatching", "processing", "offered",
                          "delivering", "settling", "done", "raised", "abandoned"}]
    /\ reply \in [Req -> {"none", "2xx", "4xx", "5xx", "streamed", "error", "cut"}]
    /\ counted \in [Req -> Nat]
    /\ bill \in [Req -> {"none", "recorded", "failed"}]
    /\ lingering \subseteq Req

\* Of the requests whose stream was cut off, those that have given their slot back.
CutOff == {r \in Req : reply[r] = "cut" /\ status[r] = "released"}

\* What admission guarantees the providers: but for streams whose client has left, no more
\* than max_concurrent requests are with them, less by every slot that leaked or was lost.
ProviderLoadBounded ==
    Cardinality(Outbound \ CutOff) + Cardinality(Leaked \cup Lost) <= MaxConcurrent

\* No double release, and no leak but the two ways out that have no release():
\* elsewhere a request has a slot exactly from acquire() to release().
SlotHeldWhileServing ==
    \A r \in Req : status[r] = "holding" <=> r \in Serving \cup Leaked

\* Every request is counted once, on whichever path it ends, and not before; only
\* an abandoned stream is not counted at all.
CountedOnce ==
    \A r \in Req : counted[r] = (IF stage[r] \in {"settling", "done", "raised"} THEN 1 ELSE 0)

\* A client that got its answer in one piece was billed for it, and a client
\* that got a refusal or a failure was not.  (Streams may end unbilled.)
AnswerIsBilled ==
    \A r \in Req : /\ reply[r] = "2xx" => bill[r] = "recorded"
                   /\ reply[r] \in {"4xx", "5xx"} => bill[r] # "recorded"

\* Every request leaves its trace in the metrics and in the budget, once and on
\* whichever of the paths it ends.
AccountedFor == CountedOnce /\ AnswerIsBilled

\* Every slot went with a request that leaked it, or to a late timer, or is with a
\* request that may hang.
NoSlotLeft == Cardinality(Leaked \cup Lost \cup (Hanging \cap Serving)) = MaxConcurrent

\* While one slot is left no request waits for ever, although no timer is assumed to fire;
\* and what it waits for answering, it ends.
EveryRequestEnds ==
    \A r \in Req :
        stage[r] = "waiting" ~> \/ IF r \in Hanging THEN stage[r] # "waiting" ELSE Over(r)
                               \/ []NoSlotLeft

-----------------------------------------------------------------------------
\* What the documentation says and the code does not keep.

\* app/admission.py: acquiring by hand follows the same "acquire/try/release
\* pattern" as slot(), so a request that is over has given its slot back.
SlotComesBack == \A r \in Req : Over(r) => status[r] # "holding"
=============================================================================
