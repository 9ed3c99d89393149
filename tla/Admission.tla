----------------------------- MODULE Admission -----------------------------
(***************************************************************************)
(* app/admission.py: the AdmissionController, a bounded pool of provider    *)
(* call slots with a priority heap of waiters.                              *)
(*                                                                          *)
(* All gateway code runs on one event loop, and no code under               *)
(* AdmissionController._lock awaits anything, so the lock is never          *)
(* contended and each critical section is one atomic step.  The steps that  *)
(* do interleave are: the locked part of acquire(), the resumption of a     *)
(* waiter whose future got a result, its timeout, and release().            *)
(*                                                                          *)
(* A request calls acquire() once, with one asyncio future.  status[r]      *)
(* stands for both the position of r's coroutine and the state of that      *)
(* future:                                                                  *)
(*   new       acquire() not called yet                                     *)
(*   queued    suspended in wait_for(), future pending                      *)
(*   granted   suspended in wait_for(), future has its result               *)
(*   holding   acquire() returned                                           *)
(*   released  release() ran for this slot                                  *)
(*   shed      acquire() raised AdmissionTimeout; its heap entry, if still  *)
(*             there, is dead and only skipped when popped                  *)
(*   lost      acquire() raised AdmissionTimeout although its future had    *)
(*             got a result: nobody will release that slot                  *)
(***************************************************************************)
EXTENDS Integers, FiniteSets

CONSTANTS
    Req,            \* the request coroutines
    MaxConcurrent   \* admission.max_concurrent_requests

ASSUME AdmissionAssumption ==
    /\ IsFiniteSet(Req)
    /\ MaxConcurrent \in Nat

VARIABLES
    inFlight,  \* _in_flight
    heap,      \* the requests with an entry in _heap, live or dead
    seq,       \* the next value of _seq
    rank,      \* rank[r], ticket[r]: the sort_key of r's _Waiter
    ticket,
    status

vars == <<inFlight, heap, seq, rank, ticket, status>>

-----------------------------------------------------------------------------
\* team.priority; "unset" is the None an admin override {"priority": null} stores.
Priority == {"high", "standard", "low", "unset"}

\* Variants of the definitions below that slip in a plausible mistake; the
\* properties are expected to fail with them.  This one ranks unknown
\* priorities ahead of all others.
RankUnknownFirst(p) == CASE p = "high" -> 0
                         [] p = "low" -> 2
                         [] OTHER -> -1

\* PRIORITY_RANK.get(priority, PRIORITY_RANK["standard"])
PriorityRank(p) == CASE p = "high" -> 0
                     [] p = "low" -> 2
                     [] OTHER -> 1

\* The order of the min-heap: _Waiter compares by sort_key.
Before(a, b) ==
    \/ rank[a] < rank[b]
    \/ rank[a] = rank[b] /\ ticket[a] < ticket[b]

\* Heap entries whose future is not done().
Live == {r \in heap : status[r] = "queued"}

\* The requests a slot is charged to.
Owners == {r \in Req : status[r] \in {"granted", "holding", "lost"}}

\* Variant: a list used as if it were a heap hands slots out in any order.
AnyInLine(G, free) ==
    /\ G \subseteq Live
    /\ Cardinality(G) <= free
    /\ Cardinality(G) < free => G = Live

\* The live entries _admit_waiters_locked() grants when it has free slots.
IsNextInLine(G, free) ==
    /\ G \subseteq Live
    /\ Cardinality(G) <= free
    /\ Cardinality(G) < free => G = Live
    /\ \A g \in G, w \in Live \ G : Before(g, w)

\* Variant: granting the first waiter throws the whole queue away.
PoppedAll(G, free) == heap

\* The entries it pops meanwhile, dead ones included: all of them when slots
\* are left over, else those up to the last one granted.
Popped(G, free) ==
    IF Cardinality(G) < free
    THEN heap
    ELSE {h \in heap : \E g \in G : h = g \/ Before(h, g)}

-----------------------------------------------------------------------------
Init ==
    /\ inFlight = 0
    /\ heap = {}
    /\ seq = 0
    /\ rank = [r \in Req |-> 0]
    /\ ticket = [r \in Req |-> 0]
    /\ status = [r \in Req |-> "new"]

\* Variant: the test admits one request too many.
AcquireFreeOffByOne(r) ==
    /\ status[r] = "new"
    /\ inFlight <= MaxConcurrent
    /\ inFlight' = inFlight + 1
    /\ status' = [status EXCEPT ![r] = "holding"]
    /\ UNCHANGED <<heap, seq, rank, ticket>>

\* acquire(), slot free: counted under the lock.  wait_for() on a future that
\* is already done returns its result, whatever the timer does.
AcquireFree(r) ==
    /\ status[r] = "new"
    /\ inFlight < MaxConcurrent
    /\ inFlight' = inFlight + 1
    /\ status' = [status EXCEPT ![r] = "holding"]
    /\ UNCHANGED <<heap, seq, rank, ticket>>

\* acquire(), pool full: push a _Waiter and suspend in wait_for().
AcquireQueued(r, p) ==
    /\ status[r] = "new"
    /\ inFlight >= MaxConcurrent
    /\ heap' = heap \cup {r}
    /\ rank' = [rank EXCEPT ![r] = PriorityRank(p)]
    /\ ticket' = [ticket EXCEPT ![r] = seq]
    /\ seq' = seq + 1
    /\ status' = [status EXCEPT ![r] = "queued"]
    /\ UNCHANGED inFlight

\* The waiter's task runs again after its future got a result.
Resume(r) ==
    /\ status[r] = "granted"
    /\ status' = [status EXCEPT ![r] = "holding"]
    /\ UNCHANGED <<inFlight, heap, seq, rank, ticket>>

\* The timer fired and the task runs while its future is still pending:
\* wait_for() cancels the future, acquire() raises AdmissionTimeout.
Expire(r) ==
    /\ status[r] = "queued"
    /\ status' = [status EXCEPT ![r] = "shed"]
    /\ UNCHANGED <<inFlight, heap, seq, rank, ticket>>

\* From Python 3.12 on wait_for() is built on asyncio.timeout(): when the timer
\* fires between set_result() and the resumption of the task, the task is
\* cancelled all the same and acquire() raises although the slot was counted.
\* (Python 3.11, which the Dockerfile pins, returns the result instead.)
LoseGrant(r) ==
    /\ status[r] = "granted"
    /\ status' = [status EXCEPT ![r] = "lost"]
    /\ UNCHANGED <<inFlight, heap, seq, rank, ticket>>

\* Variant: the slot is given back but no waiter is woken up.
ReleaseWithoutHandOff(r) ==
    /\ status[r] = "holding"
    /\ inFlight' = inFlight - 1
    /\ status' = [status EXCEPT ![r] = "released"]
    /\ UNCHANGED <<heap, seq, rank, ticket>>

\* release(): give the slot back and hand out free slots, under one lock.
Release(r) ==
    /\ status[r] = "holding"
    /\ LET free == MaxConcurrent - (inFlight - 1) IN
       \E G \in SUBSET Live :
          /\ IsNextInLine(G, free)
          /\ inFlight' = (inFlight - 1) + Cardinality(G)
          /\ heap' = heap \ Popped(G, free)
          /\ status' = [q \in Req |-> CASE q = r -> "released"
                                        [] q \in G -> "granted"
                                        [] OTHER -> status[q]]
    /\ UNCHANGED <<seq, rank, ticket>>

\* Every request has been answered: the pool idles.
Idle ==
    /\ \A r \in Req : status[r] \in {"released", "shed", "lost"}
    /\ UNCHANGED vars

Next ==
    \/ \E r \in Req : \/ AcquireFree(r)
                      \/ \E p \in Priority : AcquireQueued(r, p)
                      \/ Resume(r)
                      \/ Expire(r)
                      \/ LoseGrant(r)
                      \/ Release(r)
    \/ Idle

Spec == Init /\ [][Next]_vars

\* The event loop runs every ready task, and a slot holder releases: that is the
\* contract of the controller's users, which Gateway looks at.  Nothing is assumed of
\* the timers: the guarantees below do not rest on shedding.
Fairness == \A r \in Req : WF_vars(Resume(r)) /\ WF_vars(Release(r))

FairSpec == Spec /\ Fairness

-----------------------------------------------------------------------------
\* Every variable keeps the shape the controller gives it.
TypeOK ==
    /\ inFlight \in Int
    /\ heap \in SUBSET Req
    /\ seq \in Nat
    /\ rank \in [Req -> Nat]
    /\ ticket \in [Req -> Nat]
    /\ status \in [Req -> {"new", "queued", "granted", "holding", "released", "shed", "lost"}]

\* The semaphore invents no slots and leaks none unnoticed: _in_flight is exactly
\* the number of requests a slot was given to and not taken back from, whatever
\* the order of grants, timeouts and releases, and never exceeds max_concurrent.
SlotConservation ==
    /\ inFlight = Cardinality(Owners)
    /\ inFlight <= MaxConcurrent

\* A request that still waits has an entry in the heap that release() will
\* find, and it waits only while the pool is full: no slot idles beside a live
\* waiter, so acquire()'s fast path can never barge past the queue.
NoIdleSlotWhileWaiting ==
    \A r \in Req : status[r] = "queued" => r \in heap /\ inFlight >= MaxConcurrent

\* "higher priority always jumps ahead of lower priority; same-priority
\* requests stay FIFO": whoever becomes an owner leaves behind no waiter that
\* should have been served first, and a newcomer leaves behind no waiter at all.
NoOvertaking ==
    [][\A r, q \in Req :
          (r \notin Owners /\ r \in Owners' /\ status[q] = "queued" /\ status'[q] = "queued")
              => status[r] = "queued" /\ Before(r, q)]_vars

\* Every slot was lost to a late timer.
AllSlotsLost == Cardinality({r \in Req : status[r] = "lost"}) = MaxConcurrent

\* No waiter is stranded: while one slot is left whose holders release it,
\* everybody who queues is served or shed, without any help from the timers.
EveryWaiterLeavesQueue ==
    \A r \in Req : status[r] = "queued" ~>
        \/ status[r] \in {"holding", "released", "shed", "lost"}
        \/ AllSlotsLost

\* The controller implements a priority semaphore, for which a lost slot is one
\* whose owner keeps it for ever.
Abstract == INSTANCE PrioritySemaphore WITH
    Slots <- MaxConcurrent,
    owners <- Owners,
    waiters <- Live,
    place <- [r \in Req |-> <<rank[r], ticket[r]>>]

\* Every behaviour of the controller is a behaviour of PrioritySemaphore: the
\* heap with its dead entries, the counter and the futures do not show.
ImplementsPrioritySemaphore == Abstract!Spec
=============================================================================
