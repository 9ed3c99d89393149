--------------------------- MODULE GatewayProofs ---------------------------
(***************************************************************************)
(* Proofs about modules Admission and Gateway, for any number of requests   *)
(* and slots.  Gateway extends Admission, and what the gateway asks of the  *)
(* controller are steps of the controller, so the theorems about the        *)
(* controller alone hold of it inside the gateway.                          *)
(***************************************************************************)
EXTENDS Gateway, FiniteSetTheorems, TLAPS

USE AdmissionAssumption

-----------------------------------------------------------------------------
(* The controller. *)

\* The entries of the heap are totally ordered: tickets are handed out once.
TicketsDistinct ==
    /\ \A q \in heap : ticket[q] < seq
    /\ \A p, q \in heap : p # q => ticket[p] # ticket[q]

\* Only a request that queued has a heap entry.
HeapIsQueuedOnce == \A q \in heap : status[q] # "new"

\* The inductive invariant.  NoIdleSlotWhileWaiting makes release() hand out at
\* most one slot, which keeps the count; the count alone is not inductive.  A slot
\* lost to a late timer stays charged to the request that lost it.
Inductive ==
    /\ TypeOK
    /\ SlotConservation
    /\ NoIdleSlotWhileWaiting
    /\ TicketsDistinct
    /\ HeapIsQueuedOnce

\* Sets of requests are finite, so their cardinalities are numbers.
LEMMA OwnersFinite == IsFiniteSet(Owners) /\ Cardinality(Owners) \in Nat
  <1>1. Owners \in SUBSET Req
    BY DEF Owners
  <1> QED
    BY <1>1, FS_Subset, FS_CardinalityType

\* A request that becomes an owner adds one to their number.
LEMMA OwnersGain ==
  ASSUME TypeOK, NEW r \in Req, NEW s \in {"granted", "holding"},
         status[r] \notin {"granted", "holding", "lost"},
         status' = [status EXCEPT ![r] = s]
  PROVE  Cardinality(Owners') = Cardinality(Owners) + 1
  <1>1. Owners' = Owners \cup {r} /\ r \notin Owners
    BY DEF Owners, TypeOK
  <1> QED
    BY <1>1, OwnersFinite, FS_AddElement

\* A request that stops being an owner takes one from their number.
LEMMA OwnersLoss ==
  ASSUME TypeOK, NEW r \in Req, NEW s, s \notin {"granted", "holding", "lost"},
         status[r] \in {"granted", "holding", "lost"},
         status' = [status EXCEPT ![r] = s]
  PROVE  Cardinality(Owners') = Cardinality(Owners) - 1
  <1>1. Owners' = Owners \ {r} /\ r \in Owners
    BY DEF Owners, TypeOK
  <1> QED
    BY <1>1, OwnersFinite, FS_RemoveElement

\* Every other change of status leaves the owners alone.
LEMMA OwnersSame ==
  ASSUME TypeOK, NEW r \in Req, NEW s,
         status[r] \in {"granted", "holding", "lost"} <=> s \in {"granted", "holding", "lost"},
         status' = [status EXCEPT ![r] = s]
  PROVE  Owners' = Owners
  BY DEF Owners, TypeOK

\* What release() does in a state of the invariant: the queue is empty and the
\* slot becomes free, or exactly one live waiter, the first, takes it over.
LEMMA ReleaseHandsOverOneSlot ==
  ASSUME Inductive, NEW r \in Req, Release(r)
  PROVE  \/ /\ Live = {}
            /\ heap' = {}
            /\ inFlight' = inFlight - 1
            /\ status' = [status EXCEPT ![r] = "released"]
         \/ \E w \in Live :
               /\ \A q \in Live \ {w} : Before(w, q)
               /\ heap' = {h \in heap : ~(h = w \/ Before(h, w))}
               /\ inFlight' = inFlight
               /\ status' = [status EXCEPT ![r] = "released", ![w] = "granted"]
  <1> DEFINE free == MaxConcurrent - (inFlight - 1)
  <1>1. PICK G \in SUBSET Live :
            /\ IsNextInLine(G, free)
            /\ inFlight' = (inFlight - 1) + Cardinality(G)
            /\ heap' = heap \ Popped(G, free)
            /\ status' = [q \in Req |-> CASE q = r -> "released"
                                          [] q \in G -> "granted"
                                          [] OTHER -> status[q]]
    BY DEF Release
  <1>2. /\ IsFiniteSet(G) /\ Cardinality(G) \in Nat
        /\ Live \subseteq heap /\ heap \subseteq Req
        /\ inFlight \in Int /\ inFlight <= MaxConcurrent
        /\ r \notin Live
    <2>1. Live \subseteq heap /\ heap \subseteq Req /\ inFlight \in Int
      BY DEF Inductive, TypeOK, Live
    <2>2. IsFiniteSet(G) /\ Cardinality(G) \in Nat
      BY <2>1, FS_Subset, FS_CardinalityType
    <2>3. inFlight <= MaxConcurrent /\ r \notin Live
      BY DEF Inductive, SlotConservation, Release, Live
    <2> QED
      BY <2>1, <2>2, <2>3
  <1>3. CASE Live = {}
    <2>1. G = {} /\ Cardinality(G) = 0
      BY <1>3, FS_EmptySet
    <2>2. Popped(G, free) = heap
      BY <1>2, <2>1 DEF Popped
    <2>3. status' = [status EXCEPT ![r] = "released"]
      BY <1>1, <2>1 DEF Inductive, TypeOK
    <2>4. heap' = {}
      BY <1>1, <2>2
    <2>5. inFlight' = inFlight - 1
      BY <1>1, <1>2, <2>1
    <2> QED
      BY <1>3, <2>3, <2>4, <2>5
  <1>4. CASE Live # {}
    <2>1. inFlight = MaxConcurrent
      <3>1. PICK q \in Live : TRUE
        BY <1>4
      <3>2. inFlight >= MaxConcurrent
        BY <1>2, <3>1 DEF Inductive, NoIdleSlotWhileWaiting, Live
      <3> QED
        BY <1>2, <3>2
    <2>2. free = 1
      BY <1>2, <2>1
    <2>3. Cardinality(G) = 1
      <3>1. Cardinality(G) <= 1
        BY <1>1, <2>2 DEF IsNextInLine
      <3>2. Cardinality(G) # 0
        <4>1. SUFFICES ASSUME Cardinality(G) = 0 PROVE FALSE
          OBVIOUS
        <4>2. G = {}
          BY <1>2, <4>1, FS_EmptySet
        <4>3. Cardinality(G) < free => G = Live
          BY <1>1 DEF IsNextInLine
        <4> QED
          BY <1>4, <2>2, <4>1, <4>2, <4>3
      <3> QED
        BY <1>2, <3>1, <3>2
    <2>4. PICK w : G = {w}
      BY <1>2, <2>3, FS_Singleton
    <2>5. w \in Live /\ w # r /\ w \in Req
      BY <1>2, <2>4
    <2>6. \A q \in Live \ {w} : Before(w, q)
      BY <1>1, <2>4 DEF IsNextInLine
    <2>7. heap' = {h \in heap : ~(h = w \/ Before(h, w))}
      <3>1. Popped(G, free) = {h \in heap : h = w \/ Before(h, w)}
        BY <2>2, <2>3, <2>4 DEF Popped
      <3> QED
        BY <1>1, <3>1
    <2>8. status' = [status EXCEPT ![r] = "released", ![w] = "granted"]
      BY <1>1, <2>4, <2>5 DEF Inductive, TypeOK
    <2>9. inFlight' = inFlight
      BY <1>1, <1>2, <2>3
    <2> QED
      BY <2>5, <2>6, <2>7, <2>8, <2>9
  <1> QED
    BY <1>3, <1>4

-----------------------------------------------------------------------------
\* The first part of the invariant needs no help.
LEMMA TypeStep == TypeOK /\ [Next]_vars => TypeOK'
  <1> SUFFICES ASSUME TypeOK, [Next]_vars PROVE TypeOK'
    OBVIOUS
  <1>1. ASSUME NEW r \in Req, AcquireFree(r) PROVE TypeOK'
    BY <1>1 DEF TypeOK, AcquireFree
  <1>2. ASSUME NEW r \in Req, NEW p \in Priority, AcquireQueued(r, p) PROVE TypeOK'
    <2>1. PriorityRank(p) \in Nat
      BY DEF PriorityRank, Priority
    <2> QED
      BY <1>2, <2>1 DEF TypeOK, AcquireQueued
  <1>3. ASSUME NEW r \in Req, Resume(r) \/ Expire(r) \/ LoseGrant(r) PROVE TypeOK'
    BY <1>3 DEF TypeOK, Resume, Expire, LoseGrant
  <1>4. ASSUME NEW r \in Req, Release(r) PROVE TypeOK'
    <2>1. PICK G \in SUBSET Live :
              /\ inFlight' = (inFlight - 1) + Cardinality(G)
              /\ heap' \subseteq heap
              /\ status' = [q \in Req |-> CASE q = r -> "released"
                                            [] q \in G -> "granted"
                                            [] OTHER -> status[q]]
      BY <1>4 DEF Release
    <2>2. Cardinality(G) \in Nat
      <3>1. G \in SUBSET Req
        BY DEF Live, TypeOK
      <3> QED
        BY <3>1, FS_Subset, FS_CardinalityType
    <2> QED
      BY <1>4, <2>1, <2>2 DEF TypeOK, Release
  <1>5. ASSUME UNCHANGED vars PROVE TypeOK'
    BY <1>5 DEF TypeOK, vars
  <1> QED
    BY <1>1, <1>2, <1>3, <1>4, <1>5 DEF Next, Idle

\* The variables keep their types, however many requests there are.
THEOREM TypeCorrect == Spec => []TypeOK
  <1>1. Init => TypeOK
    BY DEF Init, TypeOK
  <1> QED
    BY <1>1, TypeStep, PTL DEF Spec

LEMMA InductiveInit == Init => Inductive
  <1> SUFFICES ASSUME Init PROVE Inductive
    OBVIOUS
  <1>1. Owners = {}
    BY DEF Init, Owners
  <1> QED
    BY <1>1, FS_EmptySet
       DEF Init, Inductive, TypeOK, SlotConservation, NoIdleSlotWhileWaiting,
           TicketsDistinct, HeapIsQueuedOnce

\* Every step preserves the invariant.
LEMMA InductiveStep == Inductive /\ [Next]_vars => Inductive'
  <1> SUFFICES ASSUME Inductive, [Next]_vars PROVE Inductive'
    OBVIOUS
  <1> USE DEF Inductive
  <1>0. TypeOK' /\ TypeOK /\ Cardinality(Owners) \in Nat
    BY TypeStep, OwnersFinite
  <1>1. ASSUME NEW r \in Req, AcquireFree(r) PROVE Inductive'
    <2>1. Cardinality(Owners') = Cardinality(Owners) + 1
      BY <1>0, <1>1, OwnersGain DEF AcquireFree
    <2>2. SlotConservation'
      BY <1>0, <1>1, <2>1 DEF AcquireFree, SlotConservation, TypeOK
    <2>3. NoIdleSlotWhileWaiting'
      BY <1>0, <1>1 DEF AcquireFree, NoIdleSlotWhileWaiting, TypeOK
    <2>4. TicketsDistinct' /\ HeapIsQueuedOnce'
      BY <1>0, <1>1 DEF AcquireFree, TicketsDistinct, HeapIsQueuedOnce, TypeOK
    <2> QED
      BY <1>0, <2>2, <2>3, <2>4
  <1>2. ASSUME NEW r \in Req, NEW p \in Priority, AcquireQueued(r, p) PROVE Inductive'
    <2>1. Owners' = Owners
      BY <1>0, <1>2, OwnersSame DEF AcquireQueued
    <2>2. SlotConservation'
      BY <1>0, <1>2, <2>1 DEF AcquireQueued, SlotConservation
    <2>3. NoIdleSlotWhileWaiting'
      BY <1>0, <1>2 DEF AcquireQueued, NoIdleSlotWhileWaiting, TypeOK
    <2>4. r \notin heap
      BY <1>2 DEF HeapIsQueuedOnce, AcquireQueued
    <2>5. TicketsDistinct'
      BY <1>0, <1>2, <2>4 DEF AcquireQueued, TicketsDistinct, TypeOK
    <2>6. HeapIsQueuedOnce'
      BY <1>0, <1>2 DEF AcquireQueued, HeapIsQueuedOnce, TypeOK
    <2> QED
      BY <1>0, <2>2, <2>3, <2>5, <2>6
  <1>3. ASSUME NEW r \in Req, Resume(r) \/ Expire(r) \/ LoseGrant(r) PROVE Inductive'
    <2>1. Owners' = Owners
      BY <1>0, <1>3, OwnersSame DEF Resume, Expire, LoseGrant
    <2>2. SlotConservation'
      BY <1>0, <1>3, <2>1 DEF Resume, Expire, LoseGrant, SlotConservation
    <2>3. NoIdleSlotWhileWaiting'
      BY <1>0, <1>3 DEF Resume, Expire, LoseGrant, NoIdleSlotWhileWaiting, TypeOK
    <2>4. TicketsDistinct' /\ HeapIsQueuedOnce'
      BY <1>0, <1>3
         DEF Resume, Expire, LoseGrant, TicketsDistinct, HeapIsQueuedOnce, TypeOK
    <2> QED
      BY <1>0, <2>2, <2>3, <2>4
  <1>4. ASSUME NEW r \in Req, Release(r) PROVE Inductive'
    <2>0. r \in Owners /\ status[r] = "holding" /\ UNCHANGED <<seq, rank, ticket>>
      BY <1>4 DEF Release, Owners
    <2>1. CASE /\ Live = {}
               /\ heap' = {}
               /\ inFlight' = inFlight - 1
               /\ status' = [status EXCEPT ![r] = "released"]
      <3>1. Cardinality(Owners') = Cardinality(Owners) - 1
        BY <1>0, <2>0, <2>1, OwnersLoss
      <3>2. SlotConservation'
        BY <1>0, <2>1, <3>1 DEF SlotConservation, TypeOK
      <3>3. NoIdleSlotWhileWaiting'
        BY <1>0, <2>1 DEF NoIdleSlotWhileWaiting, TypeOK, Live
      <3>4. TicketsDistinct' /\ HeapIsQueuedOnce'
        BY <2>1 DEF TicketsDistinct, HeapIsQueuedOnce
      <3> QED
        BY <1>0, <3>2, <3>3, <3>4
    <2>2. ASSUME NEW w \in Live,
                 \A q \in Live \ {w} : Before(w, q),
                 heap' = {h \in heap : ~(h = w \/ Before(h, w))},
                 inFlight' = inFlight,
                 status' = [status EXCEPT ![r] = "released", ![w] = "granted"]
          PROVE  Inductive'
      <3>0. w \in Req /\ w # r /\ w \notin Owners /\ status[w] = "queued"
        BY <1>0, <2>0 DEF Live, Owners, TypeOK
      <3>1. Owners' = (Owners \ {r}) \cup {w}
        BY <1>0, <2>0, <2>2, <3>0 DEF Owners, TypeOK
      <3>2. Cardinality(Owners') = Cardinality(Owners)
        <4>1. /\ IsFiniteSet(Owners \ {r})
              /\ Cardinality(Owners \ {r}) = Cardinality(Owners) - 1
          BY <2>0, OwnersFinite, FS_RemoveElement
        <4>2. Cardinality((Owners \ {r}) \cup {w}) = Cardinality(Owners \ {r}) + 1
          BY <3>0, <4>1, FS_AddElement
        <4> QED
          BY <1>0, <3>1, <4>1, <4>2
      <3>3. SlotConservation'
        BY <2>2, <3>2 DEF SlotConservation
      <3>4. NoIdleSlotWhileWaiting'
        <4>1. SUFFICES ASSUME NEW q \in Req, status'[q] = "queued"
                       PROVE  q \in heap' /\ inFlight' >= MaxConcurrent
          BY DEF NoIdleSlotWhileWaiting
        <4>2. q # w /\ status[q] = "queued"
          BY <1>0, <2>0, <2>2, <3>0, <4>1 DEF TypeOK
        <4>3. q \in heap /\ inFlight >= MaxConcurrent
          BY <4>2 DEF NoIdleSlotWhileWaiting
        <4>4. Before(w, q)
          BY <2>2, <4>2, <4>3 DEF Live
        <4>5. ~Before(q, w)
          BY <1>0, <3>0, <4>4 DEF Before, TypeOK
        <4> QED
          BY <2>2, <4>2, <4>3, <4>5
      <3>5. TicketsDistinct'
        BY <2>0, <2>2 DEF TicketsDistinct
      <3>6. HeapIsQueuedOnce'
        BY <1>0, <2>0, <2>2, <3>0 DEF HeapIsQueuedOnce, TypeOK
      <3> QED
        BY <1>0, <3>3, <3>4, <3>5, <3>6
    <2> QED
      BY <1>4, <2>1, <2>2, ReleaseHandsOverOneSlot
  <1>5. ASSUME UNCHANGED vars PROVE Inductive'
    <2>1. Owners' = Owners
      BY <1>5 DEF Owners, vars
    <2> QED
      BY <1>0, <1>5, <2>1
         DEF SlotConservation, NoIdleSlotWhileWaiting, TicketsDistinct, HeapIsQueuedOnce, vars
  <1> QED
    BY <1>1, <1>2, <1>3, <1>4, <1>5 DEF Next, Idle

LEMMA InductiveHolds == Spec => []Inductive
  BY InductiveInit, InductiveStep, PTL DEF Spec

\* _in_flight is always the number of slots given and not taken back, at most
\* max_concurrent, whichever way wait_for() treats a late grant.
THEOREM SlotConservationHolds == Spec => []SlotConservation
  <1>1. Inductive => SlotConservation
    BY DEF Inductive
  <1> QED
    BY <1>1, InductiveHolds, PTL

\* No waiter is ever left in the queue beside a free slot, and every waiter can
\* be found there by release().
THEOREM NoIdleSlotHolds == Spec => []NoIdleSlotWhileWaiting
  <1>1. Inductive => NoIdleSlotWhileWaiting
    BY DEF Inductive
  <1> QED
    BY <1>1, InductiveHolds, PTL

-----------------------------------------------------------------------------
\* One step at a time: a new owner never overtakes.
LEMMA OneStepNoOvertaking ==
  ASSUME Inductive, [Next]_vars, NEW r \in Req, NEW q \in Req,
         r \notin Owners, r \in Owners', status[q] = "queued", status'[q] = "queued"
  PROVE  status[r] = "queued" /\ Before(r, q)
  <1>0. TypeOK /\ NoIdleSlotWhileWaiting
    BY DEF Inductive
  <1>1. ASSUME NEW s \in Req, AcquireFree(s) PROVE FALSE
    BY <1>0, <1>1 DEF AcquireFree, NoIdleSlotWhileWaiting, TypeOK
  <1>2. ASSUME NEW s \in Req,
               \/ \E p \in Priority : AcquireQueued(s, p)
               \/ Resume(s) \/ Expire(s) \/ LoseGrant(s)
        PROVE  FALSE
    BY <1>0, <1>2 DEF AcquireQueued, Resume, Expire, LoseGrant, Owners, TypeOK
  <1>3. ASSUME NEW s \in Req, Release(s) PROVE status[r] = "queued" /\ Before(r, q)
    <2>1. CASE status' = [status EXCEPT ![s] = "released"]
      BY <1>0, <2>1 DEF Owners, TypeOK
    <2>2. ASSUME NEW w \in Live,
                 \A v \in Live \ {w} : Before(w, v),
                 status' = [status EXCEPT ![s] = "released", ![w] = "granted"]
          PROVE  status[r] = "queued" /\ Before(r, q)
      <3>1. w \in Req /\ status[w] = "queued"
        BY <1>0 DEF Live, TypeOK
      <3>2. r = w
        BY <1>0, <2>2, <3>1 DEF Owners, TypeOK
      <3>3. q \in Live /\ q # w
        BY <1>0, <2>2, <3>1 DEF Live, NoIdleSlotWhileWaiting, TypeOK
      <3> QED
        BY <2>2, <3>1, <3>2, <3>3
    <2> QED
      BY <1>3, <2>1, <2>2, ReleaseHandsOverOneSlot
  <1>4. ASSUME UNCHANGED vars PROVE FALSE
    BY <1>4 DEF vars, Owners
  <1> QED
    BY <1>1, <1>2, <1>3, <1>4 DEF Next, Idle

\* Priority order with first come first served inside a rank, and no barging.
THEOREM NoOvertakingHolds == Spec => NoOvertaking
  <1>1. Inductive /\ [Next]_vars
          => [\A r, q \in Req :
                 (r \notin Owners /\ r \in Owners' /\ status[q] = "queued" /\ status'[q] = "queued")
                     => status[r] = "queued" /\ Before(r, q)]_vars
    BY OneStepNoOvertaking
  <1> QED
    BY <1>1, InductiveHolds, PTL DEF Spec, NoOvertaking

-----------------------------------------------------------------------------
\* The Cardinality of the instance is the one of this module.
LEMMA SameCardinality == Abstract!Cardinality(Owners) = Cardinality(Owners)
  BY Zenon DEF Abstract!Cardinality, Cardinality

\* Every step of the controller is a step of the semaphore or changes nothing
\* the semaphore shows.
LEMMA StepSimulation ==
  ASSUME Inductive, Inductive', [Next]_vars
  PROVE  [Abstract!Next]_(Abstract!vars)
  <1> DEFINE place == [r \in Req |-> <<rank[r], ticket[r]>>]
  <1>0. /\ TypeOK /\ TypeOK' /\ NoIdleSlotWhileWaiting /\ NoIdleSlotWhileWaiting'
        /\ inFlight = Cardinality(Owners) /\ inFlight <= MaxConcurrent
    BY DEF Inductive, SlotConservation
  <1>a. Live = {q \in Req : status[q] = "queued"}
    BY <1>0 DEF Live, NoIdleSlotWhileWaiting, TypeOK
  <1>b. Live' = {q \in Req : status'[q] = "queued"}
    BY <1>0 DEF Live, NoIdleSlotWhileWaiting, TypeOK
  <1>c. \A a, b \in Req : Before(a, b) <=> Abstract!Precedes(a, b)
    BY DEF Before, Abstract!Precedes
  <1>1. ASSUME NEW r \in Req, AcquireFree(r) PROVE Abstract!Enter(r)
    <2>1. Live = {} /\ Live' = {}
      BY <1>0, <1>1, <1>a, <1>b DEF AcquireFree, NoIdleSlotWhileWaiting, TypeOK
    <2>2. Owners' = Owners \cup {r} /\ r \notin Owners
      BY <1>0, <1>1 DEF AcquireFree, Owners, TypeOK
    <2> QED
      BY <1>0, <1>1, <2>1, <2>2, SameCardinality DEF AcquireFree, Abstract!Enter
  <1>2. ASSUME NEW r \in Req, NEW p \in Priority, AcquireQueued(r, p) PROVE Abstract!Wait(r)
    <2>1. Owners' = Owners /\ r \notin Owners
      BY <1>0, <1>2 DEF AcquireQueued, Owners, TypeOK
    <2>2. Live' = Live \cup {r} /\ r \notin Live
      BY <1>0, <1>2, <1>a, <1>b DEF AcquireQueued, TypeOK
    <2>3. Cardinality(Owners) = MaxConcurrent
      BY <1>0, <1>2 DEF AcquireQueued, TypeOK
    <2>4. place' \in [Req -> Nat \X Nat]
      BY <1>0 DEF TypeOK
    <2>5. \A q \in Req \ {r} : place'[q] = place[q]
      BY <1>0, <1>2 DEF AcquireQueued, TypeOK
    <2> QED
      BY <2>1, <2>2, <2>3, <2>4, <2>5, SameCardinality DEF Abstract!Wait
  <1>3. ASSUME NEW r \in Req, Resume(r) \/ LoseGrant(r) PROVE UNCHANGED Abstract!vars
    <2>1. Owners' = Owners /\ Live' = Live
      BY <1>0, <1>3, <1>a, <1>b DEF Resume, LoseGrant, Owners, TypeOK
    <2> QED
      BY <1>3, <2>1 DEF Resume, LoseGrant, Abstract!vars
  <1>4. ASSUME NEW r \in Req, Expire(r) PROVE Abstract!GiveUp(r)
    <2>1. Owners' = Owners /\ Live' = Live \ {r} /\ r \in Live
      BY <1>0, <1>4, <1>a, <1>b DEF Expire, Owners, TypeOK
    <2> QED
      BY <1>4, <2>1 DEF Expire, Abstract!GiveUp
  <1>5. ASSUME NEW r \in Req, Release(r) PROVE Abstract!Leave(r)
    <2>0. r \in Owners /\ status[r] = "holding" /\ place' = place
      BY <1>5 DEF Release, Owners
    <2>1. CASE Live = {} /\ status' = [status EXCEPT ![r] = "released"]
      <3>1. Live' = {} /\ Owners' = Owners \ {r}
        BY <1>0, <1>a, <1>b, <2>0, <2>1 DEF Owners, TypeOK
      <3> QED
        BY <2>0, <2>1, <3>1 DEF Abstract!Leave
    <2>2. ASSUME NEW w \in Live,
                 \A q \in Live \ {w} : Before(w, q),
                 status' = [status EXCEPT ![r] = "released", ![w] = "granted"]
          PROVE  Abstract!Leave(r)
      <3>1. w \in Req /\ w # r /\ w \notin Owners /\ status[w] = "queued"
        BY <1>a, <2>0 DEF Owners
      <3>2. Owners' = (Owners \ {r}) \cup {w}
        BY <1>0, <2>0, <2>2, <3>1 DEF Owners, TypeOK
      <3>3. Live' = Live \ {w}
        BY <1>0, <1>a, <1>b, <2>0, <2>2, <3>1 DEF TypeOK
      <3>4. \A q \in Live \ {w} : Abstract!Precedes(w, q)
        BY <1>a, <1>c, <2>2, <3>1
      <3> QED
        BY <2>0, <3>2, <3>3, <3>4 DEF Abstract!Leave
    <2> QED
      BY <1>5, <2>1, <2>2, ReleaseHandsOverOneSlot
  <1>6. ASSUME UNCHANGED vars PROVE UNCHANGED Abstract!vars
    BY <1>6 DEF vars, Abstract!vars, Owners, Live
  <1> QED
    BY <1>1, <1>2, <1>3, <1>4, <1>5, <1>6
       DEF Next, Idle, Abstract!Next

\* The controller implements the priority semaphore: heap, lazy deletion,
\* futures and counter do not show from the outside.
THEOREM Refinement == Spec => ImplementsPrioritySemaphore
  <1>1. Init => Abstract!Init
    BY DEF Init, Abstract!Init, Owners, Live
  <1>2. Inductive /\ Inductive' /\ [Next]_vars
          => [Abstract!Next]_(Abstract!vars)
    BY StepSimulation
  <1> QED
    BY <1>1, <1>2, InductiveHolds, PTL
       DEF Spec, Abstract!Spec, ImplementsPrioritySemaphore

-----------------------------------------------------------------------------
(* The gateway. *)

\* What the gateway does to its controller is one of the controller's steps.
LEMMA PoolStep == [GatewayNext]_gatewayVars => [Next]_vars
  <1> SUFFICES ASSUME [GatewayNext]_gatewayVars PROVE [Next]_vars
    OBVIOUS
  <1>1. ASSUME UNCHANGED pool PROVE UNCHANGED vars
    BY <1>1 DEF pool, vars
  <1>2. \/ UNCHANGED pool
        \/ \E r \in Req : \/ AcquireFree(r)
                          \/ \E p \in Priority : AcquireQueued(r, p)
                          \/ Resume(r)
                          \/ Expire(r) \/ LoseGrant(r)
                          \/ Release(r)
    BY DEF GatewayNext, gatewayVars, Refuse, Enter, Wait, Admitted, Shed, Abandon, Serve, AllDone,
           DispatchFails, DispatchRaises, DispatchWins, Processed, StreamWins, StartStream,
           EndStream, Settle, CloseSource
  <1> QED
    BY <1>1, <1>2 DEF Next

\* Inside the gateway the controller behaves as module Admission says.
THEOREM PoolIsController == GatewaySpec => Spec
  <1>1. GatewayInit => Init
    BY DEF GatewayInit, Init
  <1> QED
    BY <1>1, PoolStep, PTL DEF GatewaySpec, Spec

-----------------------------------------------------------------------------
\* The type invariant of the gateway's own variables.
LocalTypeOK ==
    /\ stage \in [Req -> {"new", "waiting", "dispatching", "processing", "offered",
                          "delivering", "settling", "done", "raised", "abandoned"}]
    /\ reply \in [Req -> {"none", "2xx", "4xx", "5xx", "streamed", "error", "cut"}]
    /\ counted \in [Req -> Nat]
    /\ bill \in [Req -> {"none", "recorded", "failed"}]
    /\ lingering \subseteq Req

LEMMA LocalTypeStep == LocalTypeOK /\ [GatewayNext]_gatewayVars => LocalTypeOK'
  <1> SUFFICES ASSUME LocalTypeOK, [GatewayNext]_gatewayVars PROVE LocalTypeOK'
    OBVIOUS
  <1> USE DEF LocalTypeOK, Goto
  <1>1. ASSUME NEW r \in Req, NEW a \in {"2xx", "4xx", "5xx"}, Answer(r, a)
        PROVE  UNCHANGED <<bill, lingering>> => LocalTypeOK'
    BY <1>1 DEF Answer
  <1>2. ASSUME NEW r \in Req, Refuse(r) \/ Shed(r) \/ DispatchFails(r)
        PROVE  LocalTypeOK'
    BY <1>1, <1>2 DEF Refuse, Shed, DispatchFails
  <1>3. ASSUME NEW r \in Req, Processed(r) PROVE LocalTypeOK'
    BY <1>3 DEF Processed, Answer
  <1>4. ASSUME NEW r \in Req, \/ Enter(r) \/ Admitted(r) \/ DispatchWins(r) \/ StreamWins(r)
                              \/ StartStream(r) \/ \E p \in Priority : Wait(r, p)
        PROVE  LocalTypeOK'
    BY <1>4 DEF Enter, Admitted, DispatchWins, StreamWins, StartStream, Wait
  <1>5. ASSUME NEW r \in Req, Abandon(r) \/ DispatchRaises(r) PROVE LocalTypeOK'
    BY <1>5 DEF Abandon, DispatchRaises
  <1>6. ASSUME NEW r \in Req, EndStream(r) PROVE LocalTypeOK'
    BY <1>6 DEF EndStream
  <1>7. ASSUME NEW r \in Req, Settle(r) \/ CloseSource(r) PROVE LocalTypeOK'
    BY <1>7 DEF Settle, CloseSource
  <1>8. CASE AllDone \/ UNCHANGED gatewayVars
    BY <1>8 DEF AllDone, gatewayVars
  <1> QED
    BY <1>2, <1>3, <1>4, <1>5, <1>6, <1>7, <1>8 DEF GatewayNext, Serve

LEMMA LocalTypeHolds == GatewaySpec => []LocalTypeOK
  <1>1. GatewayInit => LocalTypeOK
    BY DEF GatewayInit, LocalTypeOK
  <1> QED
    BY <1>1, LocalTypeStep, PTL DEF GatewaySpec

\* Every variable, the controller's included, keeps its shape.
THEOREM GatewayTypeCorrect == GatewaySpec => []GatewayTypeOK
  <1>1. TypeOK /\ LocalTypeOK => GatewayTypeOK
    BY DEF TypeOK, LocalTypeOK, GatewayTypeOK
  <1> QED
    BY <1>1, TypeCorrect, PoolIsController, LocalTypeHolds, PTL

-----------------------------------------------------------------------------
\* release() takes the slot of one request and leaves all others theirs.
LEMMA ReleaseHolders ==
  ASSUME NEW r \in Req, Release(r), NEW q \in Req
  PROVE  status'[q] = "holding" <=> status[q] = "holding" /\ q # r
  <1>1. PICK G \in SUBSET Live :
          status' = [s \in Req |-> CASE s = r -> "released"
                                     [] s \in G -> "granted"
                                     [] OTHER -> status[s]]
    BY DEF Release
  <1>2. q \in G => status[q] = "queued"
    BY DEF Live
  <1> QED
    BY <1>1, <1>2

\* Each step keeps slots and stages together.
LEMMA SlotStep ==
  ASSUME LocalTypeOK, TypeOK, SlotHeldWhileServing, [GatewayNext]_gatewayVars
  PROVE  SlotHeldWhileServing'
  <1>0. stage \in [Req -> {"new", "waiting", "dispatching", "processing", "offered",
                           "delivering", "settling", "done", "raised", "abandoned"}]
        /\ status \in [Req -> {"new", "queued", "granted", "holding", "released", "shed", "lost"}]
    BY DEF LocalTypeOK, TypeOK
  <1> USE <1>0 DEF SlotHeldWhileServing, Serving, Leaked, Goto
  <1>1. ASSUME NEW r \in Req, Refuse(r) PROVE SlotHeldWhileServing'
    BY <1>1 DEF Refuse, Answer, pool, vars
  <1>2. ASSUME NEW r \in Req, Enter(r) PROVE SlotHeldWhileServing'
    BY <1>2 DEF Enter, AcquireFree
  <1>3. ASSUME NEW r \in Req, NEW p \in Priority, Wait(r, p) PROVE SlotHeldWhileServing'
    BY <1>3 DEF Wait, AcquireQueued
  <1>4. ASSUME NEW r \in Req, Admitted(r) PROVE SlotHeldWhileServing'
    BY <1>4 DEF Admitted, Resume
  <1>5. ASSUME NEW r \in Req, Shed(r) PROVE SlotHeldWhileServing'
    BY <1>5 DEF Shed, Answer, Expire, LoseGrant
  <1>6. ASSUME NEW r \in Req, DispatchFails(r) \/ DispatchWins(r) \/ EndStream(r)
        PROVE  SlotHeldWhileServing'
    <2>1. Release(r)
      BY <1>6 DEF DispatchFails, DispatchWins, EndStream
    <2>2. \E s \in {"processing", "settling", "done"} : stage' = [stage EXCEPT ![r] = s]
      BY <1>6 DEF DispatchFails, DispatchWins, EndStream, Answer
    <2>3. \A q \in Req : status'[q] = "holding" <=> status[q] = "holding" /\ q # r
      BY <2>1, ReleaseHolders
    <2> QED
      BY <2>2, <2>3
  <1>7. ASSUME NEW r \in Req, DispatchRaises(r) \/ Abandon(r) PROVE SlotHeldWhileServing'
    BY <1>7 DEF DispatchRaises, Abandon, Answer, pool, vars
  <1>8. ASSUME NEW r \in Req, Processed(r) \/ Settle(r) \/ CloseSource(r)
        PROVE  SlotHeldWhileServing'
    BY <1>8 DEF Processed, Settle, CloseSource, Answer, pool, vars
  <1>9. ASSUME NEW r \in Req, StreamWins(r) \/ StartStream(r) PROVE SlotHeldWhileServing'
    BY <1>9 DEF StreamWins, StartStream, pool, vars
  <1>10. CASE AllDone \/ UNCHANGED gatewayVars
    BY <1>10 DEF AllDone, gatewayVars, pool, vars
  <1> QED
    BY <1>1, <1>2, <1>3, <1>4, <1>5, <1>6, <1>7, <1>8, <1>9, <1>10 DEF GatewayNext, Serve

LEMMA PoolTypeHolds == GatewaySpec => []TypeOK
  BY TypeCorrect, PoolIsController, PTL

\* A request has a slot exactly from acquire() to release(), and ever after if it
\* leaves by one of the two ways without a release().
THEOREM SlotHeldWhileServingHolds == GatewaySpec => []SlotHeldWhileServing
  <1>1. LocalTypeOK /\ TypeOK /\ SlotHeldWhileServing /\ [GatewayNext]_gatewayVars
          => SlotHeldWhileServing'
    BY SlotStep
  <1>2. GatewayInit => SlotHeldWhileServing
    BY DEF GatewayInit, Init, SlotHeldWhileServing, Serving, Leaked
  <1> QED
    BY <1>1, <1>2, PoolTypeHolds, LocalTypeHolds, PTL DEF GatewaySpec

\* A stream outlives its slot only when its client has left.
LingeringIsCutOff ==
    \A r \in lingering : /\ stage[r] \in {"settling", "done"}
                         /\ reply[r] = "cut" /\ status[r] = "released"

LEMMA LingeringStep ==
  ASSUME TypeOK, LocalTypeOK, LingeringIsCutOff, [GatewayNext]_gatewayVars
  PROVE  LingeringIsCutOff'
  <1>0. /\ stage \in [Req -> {"new", "waiting", "dispatching", "processing", "offered",
                              "delivering", "settling", "done", "raised", "abandoned"}]
        /\ reply \in [Req -> {"none", "2xx", "4xx", "5xx", "streamed", "error", "cut"}]
        /\ status \in [Req -> {"new", "queued", "granted", "holding", "released", "shed", "lost"}]
        /\ lingering \subseteq Req
    BY DEF LocalTypeOK, TypeOK
  <1> USE <1>0 DEF LingeringIsCutOff, Goto
  <1>1. ASSUME NEW q \in Req, Release(q)
        PROVE  \A r \in lingering : status'[r] = "released"
    <2>1. PICK G \in SUBSET Live :
            status' = [s \in Req |-> CASE s = q -> "released"
                                       [] s \in G -> "granted"
                                       [] OTHER -> status[s]]
      BY <1>1 DEF Release
    <2>2. \A r \in lingering : r \notin G
      BY DEF Live
    <2> QED
      BY <2>1, <2>2
  <1>2. ASSUME NEW q \in Req, Refuse(q) PROVE LingeringIsCutOff'
    BY <1>2 DEF Refuse, Answer, pool, vars
  <1>3. ASSUME NEW q \in Req, NEW p \in Priority, Enter(q) \/ Wait(q, p) \/ Admitted(q) \/ Shed(q)
        PROVE  LingeringIsCutOff'
    BY <1>3 DEF Enter, Wait, Admitted, Shed, Answer, AcquireFree, AcquireQueued, Resume,
                Expire, LoseGrant
  <1>4. ASSUME NEW q \in Req, DispatchFails(q) \/ DispatchWins(q) PROVE LingeringIsCutOff'
    <2>1. /\ Release(q) /\ stage[q] = "dispatching" /\ lingering' = lingering
          /\ \A r \in Req \ {q} : stage'[r] = stage[r] /\ reply'[r] = reply[r]
      BY <1>4 DEF DispatchFails, DispatchWins, Answer
    <2> QED
      BY <1>1, <2>1
  <1>5. ASSUME NEW q \in Req, EndStream(q) PROVE LingeringIsCutOff'
    <2>1. /\ Release(q) /\ stage[q] = "delivering"
          /\ \A r \in Req \ {q} : stage'[r] = stage[r] /\ reply'[r] = reply[r]
          /\ lingering' = lingering \/ (lingering' = lingering \cup {q} /\ reply'[q] = "cut")
          /\ stage'[q] \in {"settling", "done"}
      BY <1>5 DEF EndStream
    <2>2. status'[q] = "released"
      <3>1. PICK G \in SUBSET Live :
              status' = [s \in Req |-> CASE s = q -> "released"
                                         [] s \in G -> "granted"
                                         [] OTHER -> status[s]]
        BY <2>1 DEF Release
      <3>2. q \notin G
        BY <2>1 DEF Release, Live
      <3> QED
        BY <3>1, <3>2
    <2>3. q \notin lingering
      BY <2>1
    <2> QED
      BY <1>1, <2>1, <2>2, <2>3
  <1>6. ASSUME NEW q \in Req, DispatchRaises(q) \/ StreamWins(q) \/ StartStream(q) \/ Abandon(q)
        PROVE  LingeringIsCutOff'
    BY <1>6 DEF DispatchRaises, StreamWins, StartStream, Abandon, pool, vars
  <1>7. ASSUME NEW q \in Req, Processed(q) PROVE LingeringIsCutOff'
    BY <1>7 DEF Processed, Answer, pool, vars
  <1>8. ASSUME NEW q \in Req, Settle(q) \/ CloseSource(q) PROVE LingeringIsCutOff'
    BY <1>8 DEF Settle, CloseSource, pool, vars
  <1>9. CASE AllDone \/ UNCHANGED gatewayVars
    BY <1>9 DEF AllDone, gatewayVars, pool, vars
  <1> QED
    BY <1>2, <1>3, <1>4, <1>5, <1>6, <1>7, <1>8, <1>9 DEF GatewayNext, Serve, Priority

\* Of the slots, those that leaked and those that were lost to late timers serve nobody,
\* and each of the others one request, whose provider call it stands for; but for streams
\* that were cut off, no provider call is open without one.
THEOREM ProviderLoadBoundedHolds == GatewaySpec => []ProviderLoadBounded
  <1>1. TypeOK /\ LocalTypeOK /\ SlotConservation /\ SlotHeldWhileServing /\ LingeringIsCutOff
          => ProviderLoadBounded
    <2> SUFFICES ASSUME TypeOK, LocalTypeOK, SlotConservation, SlotHeldWhileServing,
                        LingeringIsCutOff
                 PROVE  ProviderLoadBounded
      OBVIOUS
    <2> DEFINE A == Outbound \ CutOff
               B == Leaked \cup Lost
    <2>1. A \subseteq Serving
      <3>1. lingering \subseteq CutOff
        BY DEF LocalTypeOK, LingeringIsCutOff, CutOff
      <3> QED
        BY <3>1 DEF Outbound
    <2>2. Serving \subseteq Owners /\ Leaked \subseteq Owners /\ Lost \subseteq Owners
      BY DEF SlotHeldWhileServing, Serving, Leaked, Lost, Owners
    <2>3. Serving \cap B = {}
      BY DEF SlotHeldWhileServing, Serving, Leaked, Lost
    <2>4. A \cup B \subseteq Owners /\ A \cap B = {} /\ Owners \subseteq Req
      BY <2>1, <2>2, <2>3 DEF Owners
    <2> HIDE DEF A, B
    <2>5. /\ IsFiniteSet(Owners) /\ IsFiniteSet(A) /\ IsFiniteSet(B) /\ IsFiniteSet(A \cup B)
          /\ Cardinality(A \cup B) <= Cardinality(Owners)
      BY <2>4, FS_Subset
    <2>6. Cardinality(Owners) \in Nat /\ Cardinality(A) \in Nat /\ Cardinality(B) \in Nat
      BY <2>5, FS_CardinalityType
    <2>7. Cardinality(A \cup B) = Cardinality(A) + Cardinality(B)
      <3>1. Cardinality(A \cup B) = Cardinality(A) + Cardinality(B) - Cardinality({})
        BY <2>4, <2>5, FS_Union
      <3> QED
        BY <2>6, <3>1, FS_EmptySet
    <2>8. inFlight = Cardinality(Owners) /\ inFlight <= MaxConcurrent
      BY DEF SlotConservation
    <2>9. Cardinality(A) + Cardinality(B) <= MaxConcurrent
      BY <2>5, <2>6, <2>7, <2>8
    <2> QED
      BY <2>9 DEF ProviderLoadBounded, A, B
  <1>2. GatewayInit => LingeringIsCutOff
    BY DEF GatewayInit, LingeringIsCutOff
  <1>3. TypeOK /\ LocalTypeOK /\ LingeringIsCutOff /\ [GatewayNext]_gatewayVars
          => LingeringIsCutOff'
    BY LingeringStep
  <1> QED
    BY <1>1, <1>2, <1>3, SlotConservationHolds, PoolIsController, PoolTypeHolds, LocalTypeHolds,
       SlotHeldWhileServingHolds, PTL DEF GatewaySpec

-----------------------------------------------------------------------------
\* Every request is counted once, except a stream that was abandoned.
THEOREM CountedOnceHolds == GatewaySpec => []CountedOnce
  <1>1. GatewayInit => CountedOnce
    BY DEF GatewayInit, CountedOnce
  <1>2. LocalTypeOK /\ CountedOnce /\ [GatewayNext]_gatewayVars => CountedOnce'
    <2> SUFFICES ASSUME LocalTypeOK, CountedOnce, [GatewayNext]_gatewayVars PROVE CountedOnce'
      OBVIOUS
    <2> USE DEF LocalTypeOK, CountedOnce, Goto
    <2>1. ASSUME NEW r \in Req, NEW a, Answer(r, a), stage[r] \notin {"settling", "done", "raised"}
          PROVE  CountedOnce'
      BY <2>1 DEF Answer
    <2>2. ASSUME NEW r \in Req, Refuse(r) \/ Shed(r) \/ DispatchFails(r) \/ Processed(r)
          PROVE  CountedOnce'
      BY <2>1, <2>2 DEF Refuse, Shed, DispatchFails, Processed
    <2>3. ASSUME NEW r \in Req, \/ Enter(r) \/ Admitted(r) \/ DispatchWins(r) \/ StreamWins(r)
                                \/ StartStream(r) \/ \E p \in Priority : Wait(r, p)
          PROVE  CountedOnce'
      BY <2>3 DEF Enter, Admitted, DispatchWins, StreamWins, StartStream, Wait
    <2>4. ASSUME NEW r \in Req, EndStream(r) PROVE CountedOnce'
      BY <2>4 DEF EndStream
    <2>5. ASSUME NEW r \in Req, Settle(r) \/ CloseSource(r) PROVE CountedOnce'
      BY <2>5 DEF Settle, CloseSource
    <2>6. ASSUME NEW r \in Req, Abandon(r) \/ DispatchRaises(r) PROVE CountedOnce'
      BY <2>6 DEF Abandon, DispatchRaises
    <2>7. CASE AllDone \/ UNCHANGED gatewayVars
      BY <2>7 DEF AllDone, gatewayVars
    <2> QED
      BY <2>2, <2>3, <2>4, <2>5, <2>6, <2>7 DEF GatewayNext, Serve
  <1> QED
    BY <1>1, <1>2, LocalTypeHolds, PTL DEF GatewaySpec

\* What a request has been answered and billed at each stage: only streams are
\* billed after they have got their answer.
BillFollowsReply ==
    \A r \in Req :
        /\ stage[r] \notin {"settling", "done", "raised", "abandoned"}
              => reply[r] = "none" /\ bill[r] = "none"
        /\ stage[r] = "settling" => reply[r] \in {"streamed", "error", "cut"} /\ bill[r] = "none"

\* An answer in one piece is billed, a refusal or failure is not, whatever leaks.
THEOREM AnswerIsBilledHolds == GatewaySpec => []AnswerIsBilled
  <1> DEFINE Both == BillFollowsReply /\ AnswerIsBilled
  <1>1. GatewayInit => Both
    BY DEF GatewayInit, BillFollowsReply, AnswerIsBilled
  <1>2. LocalTypeOK /\ Both /\ [GatewayNext]_gatewayVars => Both'
    <2> SUFFICES ASSUME LocalTypeOK, BillFollowsReply, AnswerIsBilled, [GatewayNext]_gatewayVars
                 PROVE  BillFollowsReply' /\ AnswerIsBilled'
      OBVIOUS
    <2> USE DEF LocalTypeOK, BillFollowsReply, AnswerIsBilled, Goto
    <2>1. ASSUME NEW r \in Req, NEW a \in {"4xx", "5xx"}, Answer(r, a), UNCHANGED bill,
                 stage[r] \notin {"settling", "done", "raised", "abandoned"}
          PROVE  BillFollowsReply' /\ AnswerIsBilled'
      BY <2>1 DEF Answer
    <2>2. ASSUME NEW r \in Req, Refuse(r) \/ Shed(r) \/ DispatchFails(r)
          PROVE  BillFollowsReply' /\ AnswerIsBilled'
      BY <2>1, <2>2 DEF Refuse, Shed, DispatchFails
    <2>3. ASSUME NEW r \in Req, Processed(r) PROVE BillFollowsReply' /\ AnswerIsBilled'
      BY <2>3 DEF Processed, Answer
    <2>4. ASSUME NEW r \in Req, \/ Enter(r) \/ Admitted(r) \/ DispatchWins(r) \/ StreamWins(r)
                                \/ StartStream(r) \/ \E p \in Priority : Wait(r, p)
          PROVE  BillFollowsReply' /\ AnswerIsBilled'
      BY <2>4 DEF Enter, Admitted, DispatchWins, StreamWins, StartStream, Wait
    <2>5. ASSUME NEW r \in Req, EndStream(r) PROVE BillFollowsReply' /\ AnswerIsBilled'
      BY <2>5 DEF EndStream
    <2>6. ASSUME NEW r \in Req, Settle(r) \/ CloseSource(r)
          PROVE  BillFollowsReply' /\ AnswerIsBilled'
      BY <2>6 DEF Settle, CloseSource
    <2>7. ASSUME NEW r \in Req, Abandon(r) \/ DispatchRaises(r)
          PROVE  BillFollowsReply' /\ AnswerIsBilled'
      BY <2>7 DEF Abandon, DispatchRaises
    <2>8. CASE AllDone \/ UNCHANGED gatewayVars
      BY <2>8 DEF AllDone, gatewayVars
    <2> QED
      BY <2>2, <2>3, <2>4, <2>5, <2>6, <2>7, <2>8 DEF GatewayNext, Serve
  <1>3. Both => AnswerIsBilled
    OBVIOUS
  <1> HIDE DEF Both
  <1> QED
    BY <1>1, <1>2, <1>3, LocalTypeHolds, PTL DEF GatewaySpec

\* Requests are counted once, and answers billed, together.
THEOREM AccountedForHolds == GatewaySpec => []AccountedFor
  <1>1. CountedOnce /\ AnswerIsBilled => AccountedFor
    BY DEF AccountedFor
  <1> QED
    BY <1>1, CountedOnceHolds, AnswerIsBilledHolds, PTL
=============================================================================
