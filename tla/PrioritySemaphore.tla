------------------------- MODULE PrioritySemaphore -------------------------
(***************************************************************************)
(* What app/admission.py promises to the requests that use it: a counting   *)
(* semaphore of Slots permits whose waiters are served by (priority rank,   *)
(* arrival order).  There is no heap, no future, no counter and no lazily   *)
(* deleted entry here; module Admission is shown to implement this one.     *)
(***************************************************************************)
EXTENDS Integers, FiniteSets

CONSTANTS
    Req,    \* the requests that may ask for a permit
    Slots   \* the number of permits

VARIABLES
    owners,   \* the requests that own a permit
    waiters,  \* the requests that wait for one
    place     \* place[r]: the (rank, ticket) under which r last started waiting

vars == <<owners, waiters, place>>

\* a is served before b: smaller rank first, first come first served in a rank.
Precedes(a, b) ==
    \/ place[a][1] < place[b][1]
    \/ place[a][1] = place[b][1] /\ place[a][2] < place[b][2]

Init ==
    /\ owners = {}
    /\ waiters = {}
    /\ place = [r \in Req |-> <<0, 0>>]

\* A permit is free and nobody is waiting for it: r takes it at once.
Enter(r) ==
    /\ r \notin owners \cup waiters
    /\ waiters = {}
    /\ Cardinality(owners) < Slots
    /\ owners' = owners \cup {r}
    /\ UNCHANGED <<waiters, place>>

\* Every permit is taken: r waits at the place it is given.
Wait(r) ==
    /\ r \notin owners \cup waiters
    /\ Cardinality(owners) = Slots
    /\ waiters' = waiters \cup {r}
    /\ place' \in [Req -> Nat \X Nat]
    /\ \A q \in Req \ {r} : place'[q] = place[q]
    /\ UNCHANGED owners

\* r gives its permit back; in the same step it passes to the first waiter.
Leave(r) ==
    /\ r \in owners
    /\ \/ /\ waiters = {}
          /\ owners' = owners \ {r}
          /\ UNCHANGED waiters
       \/ \E w \in waiters :
             /\ \A q \in waiters \ {w} : Precedes(w, q)
             /\ owners' = (owners \ {r}) \cup {w}
             /\ waiters' = waiters \ {w}
    /\ UNCHANGED place

\* r has waited for as long as its priority tier allows.
GiveUp(r) ==
    /\ r \in waiters
    /\ waiters' = waiters \ {r}
    /\ UNCHANGED <<owners, place>>

Next == \E r \in Req : Enter(r) \/ Wait(r) \/ Leave(r) \/ GiveUp(r)

Spec == Init /\ [][Next]_vars
=============================================================================
