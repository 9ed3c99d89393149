--------------------------- MODULE CircuitBreaker ---------------------------
(***************************************************************************)
(* app/circuit_breaker.py: the breaker of one model and the requests that   *)
(* share it.  Breakers of different models are independent of each other.   *)
(*                                                                          *)
(* check_and_reserve() and record_outcome() await nothing, so each is one   *)
(* step; any number of other requests run between the two calls a request   *)
(* makes.  A call remembers nothing of the state it was admitted in, which  *)
(* is why an outcome may arrive in a later state than its call belongs to.  *)
(***************************************************************************)
EXTENDS BreakerEntry, FiniteSets

CONSTANTS
    Caller,      \* requests that try this model
    Escaping     \* those whose call may end without record_outcome(): see Escape

ASSUME CallerAssumption == IsFiniteSet(Caller) /\ Escaping \subseteq Caller

VARIABLES
    entry,     \* _entries[key]
    call,      \* call[c]: c's provider call, "idle" when it has none
    probes,    \* history: calls admitted since the circuit opened last
    forgotten  \* history: one of these ended without record_outcome()

vars == <<entry, call, probes, forgotten>>

Init ==
    /\ entry = FreshEntry
    /\ call = [c \in Caller |-> "idle"]
    /\ probes = 0
    /\ forgotten = FALSE

\* check_and_reserve() returns: c's provider call starts.
Admit(c) ==
    /\ call[c] = "idle"
    /\ Admits(entry)
    /\ entry' = Checked(entry)
    /\ call' = [call EXCEPT ![c] = IF entry'.state = "HALF_OPEN" THEN "trial" ELSE "plain"]
    /\ probes' = IF entry'.state = "HALF_OPEN" THEN probes + 1 ELSE probes
    /\ UNCHANGED forgotten

\* check_and_reserve() raises CircuitOpenError.
Reject(c) ==
    /\ call[c] = "idle"
    /\ ~Admits(entry)
    /\ entry' = Checked(entry)
    /\ UNCHANGED <<call, probes, forgotten>>

\* The call is over, with or without success, and record_outcome() is told.
Record(c, success) ==
    /\ call[c] # "idle"
    /\ entry' = Recorded(entry, success)
    /\ call' = [call EXCEPT ![c] = "idle"]
    /\ probes' = IF entry'.state = "HALF_OPEN" THEN probes ELSE 0
    /\ forgotten' = (forgotten /\ entry'.state = "HALF_OPEN")

\* The call ends with an exception that is neither ProviderError nor
\* httpx.HTTPError: dispatch_with_fallback() lets it pass unrecorded.
Escape(c) ==
    /\ c \in Escaping
    /\ call[c] # "idle"
    /\ call' = [call EXCEPT ![c] = "idle"]
    /\ forgotten' = (forgotten \/ (call[c] = "trial" /\ entry.state = "HALF_OPEN"))
    /\ UNCHANGED <<entry, probes>>

Tick ==
    /\ entry.elapsed < Cooldown
    /\ entry' = Older(entry)
    /\ UNCHANGED <<call, probes, forgotten>>

Next ==
    \/ \E c \in Caller : \/ Admit(c)
                         \/ Reject(c)
                         \/ \E success \in BOOLEAN : Record(c, success)
                         \/ Escape(c)
    \/ Tick

Spec == Init /\ [][Next]_vars

\* Time passes, and of the callers that record their outcomes, calls end: assumed
\* of the providers, as a timeout of the HTTP clients is one for each read.
\* Nothing is assumed of the arrival of requests.
Fairness ==
    /\ WF_vars(Tick)
    /\ \A c \in Caller : WF_vars(\E success \in BOOLEAN : Record(c, success))

FairSpec == Spec /\ Fairness

-----------------------------------------------------------------------------
\* Requests whose provider call was let through as a trial and is not over.
Trials == {c \in Caller : call[c] = "trial"}

\* The entry keeps its shape and at most MaxTrials slots are ever reserved.
TypeOK ==
    /\ entry \in Entry
    /\ call \in [Caller -> {"idle", "plain", "trial"}]
    /\ probes \in Nat
    /\ forgotten \in BOOLEAN

\* "once tripped, no more traffic is sent": after the circuit opened at most
\* half_open_max_trials calls are admitted before an outcome is recorded,
\* however many requests arrive and however late older outcomes come in.
BoundedProbing ==
    /\ probes <= MaxTrials
    /\ entry.state = "OPEN" => probes = 0

\* A closed circuit is one whose failures have not reached the threshold: no
\* order of late outcomes lets the count slip past it.
ClosedBelowThreshold == entry.state = "CLOSED" => entry.failures < Threshold

\* HALF_OPEN is always about to be decided: a trial is under way, unless one got
\* lost on the way to record_outcome().  The slots do not tell: stale ones count.
HalfOpenHasTrial == entry.state = "HALF_OPEN" => Trials # {} \/ forgotten

\* An open circuit closes only through HALF_OPEN: a success that comes back late,
\* from a call admitted before the circuit tripped, does not cut the cooldown.
CooldownNotSkipped ==
    [][entry.state = "OPEN" => /\ entry'.state # "CLOSED"
                               /\ entry'.state = "HALF_OPEN" => entry.elapsed >= Cooldown]_vars

\* HALF_OPEN with every slot taken, a trial gone without its outcome, and no call
\* left whose outcome could decide.
ShutForGood ==
    /\ entry.state = "HALF_OPEN" /\ ~Admits(entry)
    /\ \A c \in Caller : call[c] = "idle"
    /\ forgotten

\* Nothing brings such a circuit back: it has no cooldown, and every request is
\* rejected before it could have an outcome to record.
StaysShut == [][ShutForGood => ShutForGood']_vars

\* A circuit that rejects requests, be it OPEN or HALF_OPEN with its slots taken,
\* lets one through after a while: no order of late outcomes and no slot they
\* return too late shuts it for good.  Only trials that end unrecorded do.
CircuitRecovers == ~Admits(entry) ~> Admits(entry) \/ ShutForGood
=============================================================================
