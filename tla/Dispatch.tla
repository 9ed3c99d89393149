------------------------------ MODULE Dispatch ------------------------------
(***************************************************************************)
(* dispatch_with_fallback() of app/fallback.py with call_with_retry() of    *)
(* app/retry.py and the circuit breakers they share: concurrent requests    *)
(* walk their candidates, each with its own retry budget.                   *)
(*                                                                          *)
(* The code awaits in two places: in the provider call and in the backoff   *)
(* sleep.  Everything between two awaits is one step, so recording an       *)
(* outcome, skipping candidates whose circuit is open and starting the next *)
(* call happen together.                                                    *)
(***************************************************************************)
EXTENDS Routing, BreakerEntry, FiniteSets, FiniteSetsExt

CONSTANTS
    Req,
    TeamOf,      \* TeamOf[r]: the team that r comes from
    MaxRetries,  \* retry_policy.max_retries
    Escaping     \* those whose provider call may raise something else than
                 \* ProviderError and httpx.HTTPError (a malformed body:
                 \* JSONDecodeError, KeyError)

ASSUME DispatchAssumption ==
    /\ IsFiniteSet(Req) /\ IsFiniteSet(Model)
    /\ TeamOf \in [Req -> Team]
    /\ MaxRetries \in Nat
    /\ Escaping \subseteq Req

VARIABLES
    entry,     \* entry[m]: the breaker entry of model m
    pc,        \* pc[r]: where r is
    cands,     \* cands[r]: what build_candidates() returned
    at,        \* at[r]: index of the candidate r is trying
    attempt,   \* attempt[r]: attempt of call_with_retry()
    failures,  \* failures[r]: the list of AttemptFailure, in order
    kind,      \* history: "trial" while r tries a candidate admitted HALF_OPEN
    probes,    \* history: probes[m], calls admitted since m's circuit opened
    forgotten, \* history: forgotten[m], one of these ended without record_outcome()
    calls      \* history: calls[r][m], provider calls r made to m (see CountUp)

vars == <<entry, pc, cands, at, attempt, failures, kind, probes, forgotten, calls>>
request == <<pc, cands, at, attempt, failures, kind, calls>>

\* r awaits its provider call, or sleeps before repeating it.
Trying(r) == pc[r] \in {"calling", "backoff"}

\* r has its answer.
Over(r) == pc[r] \in {"served", "failed", "crashed"}

\* The model r is trying.
Current(r) == cands[r][at[r]]

\* The history of calls stops counting one past the budget.
CountUp(n) == IF n <= MaxRetries + 1 THEN n + 1 ELSE n

-----------------------------------------------------------------------------
Init ==
    /\ entry = [m \in Model |-> FreshEntry]
    /\ pc = [r \in Req |-> "new"]
    /\ cands = [r \in Req |-> <<>>]
    /\ at = [r \in Req |-> 0]
    /\ attempt = [r \in Req |-> 0]
    /\ failures = [r \in Req |-> <<>>]
    /\ kind = [r \in Req |-> "plain"]
    /\ probes = [m \in Model |-> 0]
    /\ forgotten = [m \in Model |-> FALSE]
    /\ calls = [r \in Req |-> [m \in Model |-> 0]]

\* Variant: the outcome goes to the breaker of the model that was asked for.
AfterOutcomeOfFirst(r, success) == [entry EXCEPT ![cands[r][1]] = Recorded(@, success)]

\* The entries after r's candidate had the outcome success.
AfterOutcome(r, success) == [entry EXCEPT ![Current(r)] = Recorded(@, success)]

\* The histories after entries became e and the models in admitted are called.
HistoryAfter(e, admitted) ==
    /\ probes' = [m \in Model |-> IF e[m].state # "HALF_OPEN" THEN 0
                                  ELSE IF m \in admitted THEN probes[m] + 1
                                  ELSE probes[m]]
    /\ forgotten' = [m \in Model |-> forgotten[m] /\ e[m].state = "HALF_OPEN"]

\* The for loop of dispatch_with_fallback() from candidate first on, entries
\* being e: skip the candidates whose check_and_reserve() raises, then await
\* the first attempt at the one it lets through, or raise AllAttemptsFailed.
TryFrom(r, plan, first, e, failed) ==
    LET admitted == {i \in first..Len(plan) : Admits(e[plan[i]])}
        last     == IF admitted = {} THEN Len(plan) ELSE Min(admitted)
        skipped  == IF admitted = {} THEN first..last ELSE first..(last - 1)
        checked  == {plan[i] : i \in first..last}
        now      == [m \in Model |-> IF m \in checked THEN Checked(e[m]) ELSE e[m]] IN
    /\ entry' = now
    /\ failures' = [failures EXCEPT ![r] = failed \o
          [i \in 1..Cardinality(skipped) |-> [model |-> plan[first + i - 1], attempts |-> 0]]]
    /\ attempt' = [attempt EXCEPT ![r] = 0]
    /\ at' = [at EXCEPT ![r] = last]
    /\ IF admitted = {}
       THEN /\ pc' = [pc EXCEPT ![r] = "failed"]
            /\ HistoryAfter(now, {})
            /\ kind' = [kind EXCEPT ![r] = "plain"]
            /\ UNCHANGED calls
       ELSE /\ pc' = [pc EXCEPT ![r] = "calling"]
            /\ kind' = [kind EXCEPT ![r] = IF now[plan[last]].state = "HALF_OPEN"
                                           THEN "trial" ELSE "plain"]
            /\ HistoryAfter(now, {plan[last]})
            /\ calls' = [calls EXCEPT ![r][plan[last]] = CountUp(@)]

\* An authorized request reaches build_candidates() and the dispatch.
Start(r, m) ==
    /\ pc[r] = "new"
    /\ RouteStatus(TeamOf[r], m) = 200
    /\ LET plan == Candidates(TeamOf[r], m) IN
       /\ cands' = [cands EXCEPT ![r] = plan]
       /\ IF plan = <<>>
          THEN /\ pc' = [pc EXCEPT ![r] = "failed"]
               /\ UNCHANGED <<entry, at, attempt, failures, kind, probes, forgotten, calls>>
          ELSE TryFrom(r, plan, 1, entry, <<>>)

\* The provider call returns: the request is served by this candidate.
CallSucceeds(r) ==
    /\ pc[r] = "calling"
    /\ entry' = AfterOutcome(r, TRUE)
    /\ HistoryAfter(entry', {})
    /\ pc' = [pc EXCEPT ![r] = "served"]
    /\ kind' = [kind EXCEPT ![r] = "plain"]
    /\ UNCHANGED <<cands, at, attempt, failures, calls>>

\* Variant: the retry budget allows one attempt too many.
CallFailsOffByOne(r) ==
    /\ pc[r] = "calling"
    /\ attempt[r] <= MaxRetries
    /\ pc' = [pc EXCEPT ![r] = "backoff"]
    /\ UNCHANGED <<entry, cands, at, attempt, failures, kind, probes, forgotten, calls>>

\* A retryable error with budget left: sleep.
CallFails(r) ==
    /\ pc[r] = "calling"
    /\ attempt[r] < MaxRetries
    /\ pc' = [pc EXCEPT ![r] = "backoff"]
    /\ UNCHANGED <<entry, cands, at, attempt, failures, kind, probes, forgotten, calls>>

\* Variant: the attempts are not counted.
RetryUncounted(r) ==
    /\ pc[r] = "backoff"
    /\ calls' = [calls EXCEPT ![r][Current(r)] = CountUp(@)]
    /\ pc' = [pc EXCEPT ![r] = "calling"]
    /\ UNCHANGED <<entry, cands, at, attempt, failures, kind, probes, forgotten>>

\* The sleep is over: the next attempt.  The circuit breaker is not asked again.
Retry(r) ==
    /\ pc[r] = "backoff"
    /\ attempt' = [attempt EXCEPT ![r] = @ + 1]
    /\ calls' = [calls EXCEPT ![r][Current(r)] = CountUp(@)]
    /\ pc' = [pc EXCEPT ![r] = "calling"]
    /\ UNCHANGED <<entry, cands, at, failures, kind, probes, forgotten>>

\* Variant: the failed candidate is forgotten.
GiveUpUnlisted(r, reported) ==
    /\ TryFrom(r, cands[r], at[r] + 1, AfterOutcome(r, FALSE), failures[r])
    /\ UNCHANGED cands

\* The candidate is done for: record the failure and move on.
GiveUp(r, reported) ==
    /\ TryFrom(r, cands[r], at[r] + 1, AfterOutcome(r, FALSE),
               Append(failures[r], [model |-> Current(r), attempts |-> reported]))
    /\ UNCHANGED cands

\* A retryable error and no budget left: RetryExhausted.
CallExhausted(r) ==
    /\ pc[r] = "calling"
    /\ attempt[r] >= MaxRetries
    /\ GiveUp(r, attempt[r] + 1)

\* A non-retryable error, on whatever attempt it comes.
CallRefused(r) ==
    /\ pc[r] = "calling"
    /\ GiveUp(r, 1)

\* Any other exception passes through retry and fallback unhandled.
CallEscapes(r) ==
    /\ r \in Escaping
    /\ pc[r] = "calling"
    /\ pc' = [pc EXCEPT ![r] = "crashed"]
    /\ forgotten' = [forgotten EXCEPT ![Current(r)] =
          @ \/ (kind[r] = "trial" /\ entry[Current(r)].state = "HALF_OPEN")]
    /\ kind' = [kind EXCEPT ![r] = "plain"]
    /\ UNCHANGED <<entry, cands, at, attempt, failures, probes, calls>>

Tick ==
    /\ \E m \in Model : entry[m].elapsed < Cooldown
    /\ entry' = [m \in Model |-> Older(entry[m])]
    /\ UNCHANGED <<request, probes, forgotten>>

\* Every request has its answer and the clock no longer matters.
Done ==
    /\ \A r \in Req : Over(r)
    /\ UNCHANGED vars

Next ==
    \/ \E r \in Req : \/ \E m \in Model : Start(r, m)
                      \/ CallSucceeds(r)
                      \/ CallFails(r)
                      \/ Retry(r)
                      \/ CallExhausted(r)
                      \/ CallRefused(r)
                      \/ CallEscapes(r)
    \/ Tick
    \/ Done

Spec == Init /\ [][Next]_vars

\* Sleeps end, time passes, and provider calls end: assumed of the providers, as a
\* timeout of the HTTP clients is one for each read.
Fairness ==
    /\ WF_vars(Tick)
    /\ \A r \in Req : /\ WF_vars(Retry(r))
                      /\ WF_vars(\/ CallSucceeds(r) \/ CallFails(r) \/ CallExhausted(r)
                                 \/ CallRefused(r) \/ CallEscapes(r))

FairSpec == Spec /\ Fairness

-----------------------------------------------------------------------------
Failure == [model : Model, attempts : 0..(MaxRetries + 1)]

\* Every variable keeps its shape.
TypeOK ==
    /\ entry \in [Model -> Entry]
    /\ pc \in [Req -> {"new", "calling", "backoff", "served", "failed", "crashed"}]
    /\ cands \in [Req -> Seq(Model)]
    /\ at \in [Req -> Nat]
    /\ attempt \in [Req -> 0..MaxRetries]
    /\ failures \in [Req -> Seq(Failure)]
    /\ kind \in [Req -> {"plain", "trial"}]
    /\ probes \in [Model -> Nat]
    /\ forgotten \in [Model -> BOOLEAN]
    /\ calls \in [Req -> [Model -> Nat]]

\* No request, however it fails and retries, makes more than max_retries + 1
\* calls to one model, and none to a model its team may not use.
CallBudget ==
    \A r \in Req, m \in Model :
        /\ calls[r][m] <= MaxRetries + 1
        /\ calls[r][m] > 0 => Usable(TeamOf[r], m)

\* The failures a client is shown are those of the candidates before the
\* current one, each once and in order; an answer 502 means that every
\* candidate was tried or short-circuited, and zero attempts means no call.
FailuresAccountForCandidates ==
    \A r \in Req :
        LET passed == IF pc[r] = "failed" THEN Len(cands[r])
                      ELSE IF pc[r] = "new" THEN 0
                      ELSE at[r] - 1 IN
        /\ Len(failures[r]) = passed
        /\ \A i \in 1..passed : /\ failures[r][i].model = cands[r][i]
                                /\ failures[r][i].attempts = 0 <=> calls[r][cands[r][i]] = 0
        /\ \A i \in (passed + 1)..Len(cands[r]) :
              calls[r][cands[r][i]] > 0 => i = at[r] /\ pc[r] # "failed"

\* Seen from one model, the requests that walk their chains are callers of its
\* circuit breaker that keep the contract of module CircuitBreaker: every
\* admitted candidate reports one outcome, retries included, unless it escapes.
Breaker(m) == INSTANCE CircuitBreaker WITH
    Caller <- Req,
    entry <- entry[m],
    probes <- probes[m],
    forgotten <- forgotten[m],
    call <- [r \in Req |-> IF Trying(r) /\ Current(r) = m THEN kind[r] ELSE "idle"]

\* That is Breaker(m)!Spec for every model m, so whatever that module promises
\* holds of every model here.
ImplementsBreakers ==
    /\ \A m \in Model : Breaker(m)!Init
    /\ [][\A m \in Model : [Breaker(m)!Next]_(Breaker(m)!vars)]_vars

\* Every dispatch comes to an end, whatever the providers answer.
EveryDispatchEnds == \A r \in Req : Trying(r) ~> Over(r)
=============================================================================
