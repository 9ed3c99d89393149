------------------------------- MODULE Health -------------------------------
(***************************************************************************)
(* app/health.py: the loop that probes every model, the rolling window of   *)
(* results per model, and the status computed from it.                      *)
(*                                                                          *)
(* A round starts the probes of all models at once and awaits them all; a   *)
(* probe awaits its provider and records the result in the same step in     *)
(* which it gets it.  Meanwhile the APIs come and go, and the loop may be   *)
(* stopped.                                                                 *)
(***************************************************************************)
EXTENDS Providers, Sequences, FiniteSets, SequencesExt

CONSTANTS
    Model,
    ProviderOf,         \* models[m].provider, which may name no known provider
    Condition,          \* the conditions an API may be in: "fast" and "slow" are
                        \* both the answer "ok"; see Providers for the others
    FastMs, SlowMs,     \* latency of an answer, and of a slow one
    Window,             \* health_check.window_size
    DownAfter,          \* health_check.consecutive_failures_for_down
    DegradedPercent,    \* health_check.degraded_error_rate, in percent
    DegradedMs,         \* health_check.degraded_latency_ms
    MaxCounter          \* bound: consecutive failures are counted up to here

ASSUME HealthAssumption ==
    /\ IsFiniteSet(Model)
    /\ Condition \subseteq {"fast", "slow"} \cup (Answers \ {"ok"})
    /\ FastMs \in Nat /\ SlowMs \in Nat /\ DegradedMs \in Nat
    /\ FastMs < DegradedMs /\ DegradedMs <= SlowMs
    /\ Window \in Nat \ {0} /\ DownAfter \in Nat \ {0}
    /\ DegradedPercent \in 1..100
    /\ MaxCounter \in Nat /\ MaxCounter >= Window /\ MaxCounter >= DownAfter

VARIABLES
    api,          \* api[m]: how the API is that serves m
    loop,         \* the task of HealthProbeLoop: between two rounds "sleeping"
    probe,        \* probe[m]: "none", or probe_one(m) has "asked", or the API's
                  \* condition when it answered and the result is on its way
    history,      \* _history: the results, oldest first
    consecutive   \* _consecutive_failures

vars == <<api, loop, probe, history, consecutive>>

\* The models with a provider; probe_one() returns at once for the others.
Probed == {m \in Model : ProviderOf[m] \in Provider}

Outcome(m, c) == Probe(ProviderOf[m], IF c \in {"fast", "slow"} THEN "ok" ELSE c)

Result == [ok : BOOLEAN, ms : {FastMs, SlowMs}]

-----------------------------------------------------------------------------
Init ==
    /\ api \in [Probed -> Condition]
    /\ loop = "sleeping"
    /\ probe = [m \in Probed |-> "none"]
    /\ history = [m \in Probed |-> <<>>]
    /\ consecutive = [m \in Probed |-> 0]

\* The environment: an API comes, goes, slows down or gets confused.
Change(m, c) ==
    /\ api[m] # c
    /\ api' = [api EXCEPT ![m] = c]
    /\ UNCHANGED <<loop, probe, history, consecutive>>

\* _run(), at first or after its sleep: gather() starts every probe.
StartRound ==
    /\ loop = "sleeping"
    /\ loop' = "probing"
    /\ probe' = [m \in Probed |-> "asked"]
    /\ UNCHANGED <<api, history, consecutive>>

\* The API answers, or the client's timeout stands in for it.
Arrives(m) ==
    /\ probe[m] = "asked"
    /\ probe' = [probe EXCEPT ![m] = api[m]]
    /\ UNCHANGED <<api, loop, history, consecutive>>

\* Variant: a list used for the deque, which keeps one result more.
AppendedToList(h, x) == IF Len(h) <= Window THEN Append(h, x) ELSE Append(Tail(h), x)

\* append() to the deque of maxlen Window.
Appended(h, x) == IF Len(h) < Window THEN Append(h, x) ELSE Append(Tail(h), x)

\* Variant: a success makes up for one failure.
CountedDown(n, ok) ==
    IF ok THEN (IF n > 0 THEN n - 1 ELSE 0) ELSE IF n < MaxCounter THEN n + 1 ELSE n

\* The counter after a result; MaxCounter is the model's bound, not the code's.
Counted(n, ok) == IF ok THEN 0 ELSE IF n < MaxCounter THEN n + 1 ELSE n

\* probe_one() gets its result and HealthTracker.record() enters it.
Record(m) ==
    LET ok == Outcome(m, probe[m]) = "success" IN
    /\ probe[m] \notin {"none", "asked"}
    /\ Outcome(m, probe[m]) # "raise"
    /\ probe' = [probe EXCEPT ![m] = "none"]
    /\ history' = [history EXCEPT ![m] =
           Appended(@, [ok |-> ok, ms |-> IF probe[m] = "slow" THEN SlowMs ELSE FastMs])]
    /\ consecutive' = [consecutive EXCEPT ![m] = Counted(@, ok)]
    /\ UNCHANGED <<api, loop>>

\* health_check() raises: gather(return_exceptions=True) keeps it to itself.
Swallow(m) ==
    /\ probe[m] \notin {"none", "asked"}
    /\ Outcome(m, probe[m]) = "raise"
    /\ probe' = [probe EXCEPT ![m] = "none"]
    /\ UNCHANGED <<api, loop, history, consecutive>>

\* Every probe of the round is over: _run() sleeps.
EndRound ==
    /\ loop = "probing"
    /\ \A m \in Probed : probe[m] = "none"
    /\ loop' = "sleeping"
    /\ UNCHANGED <<api, probe, history, consecutive>>

\* stop(): the cancellation reaches the sleep, or gather() and through it every
\* probe that has not ended.
Stop ==
    /\ loop # "stopped"
    /\ loop' = "stopped"
    /\ probe' = [m \in Probed |-> "none"]
    /\ UNCHANGED <<api, history, consecutive>>

Step(m) == Arrives(m) \/ Record(m) \/ Swallow(m)

Next ==
    \/ \E m \in Probed : (\E c \in Condition : Change(m, c)) \/ Step(m)
    \/ StartRound \/ EndRound \/ Stop

Spec == Init /\ [][Next]_vars

\* Sleeps end, ready tasks run, and probes end, with timeout_seconds for each read.
Fairness == WF_vars(StartRound) /\ WF_vars(EndRound) /\ \A m \in Probed : WF_vars(Step(m))

FairSpec == Spec /\ Fairness

-----------------------------------------------------------------------------
Failures(h) == Len(SelectSeq(h, LAMBDA x : ~x.ok))

\* The latencies of the successes in h, summed up.
TotalMs(h) == FoldLeft(LAMBDA sum, x : IF x.ok THEN sum + x.ms ELSE sum, 0, h)

\* Too many failures in the window, or successes that are slow on average.
IsDegraded(h) ==
    LET successes == Len(h) - Failures(h) IN
    \/ 100 * Failures(h) >= DegradedPercent * Len(h)
    \/ successes > 0 /\ TotalMs(h) >= DegradedMs * successes

\* Variant: the failures in the window decide about "down".
StatusFromWindow(m) ==
    CASE history[m] = <<>> -> "unknown"
      [] Failures(history[m]) >= DownAfter -> "down"
      [] OTHER -> IF IsDegraded(history[m]) THEN "degraded" ELSE "healthy"

\* HealthTracker.snapshot(), which anyone may call at any time.
Status(m) ==
    CASE history[m] = <<>> -> "unknown"
      [] history[m] # <<>> /\ consecutive[m] >= DownAfter -> "down"
      [] OTHER -> IF IsDegraded(history[m]) THEN "degraded" ELSE "healthy"

-----------------------------------------------------------------------------
\* Every variable keeps its shape; the windows keep their length.
TypeOK ==
    /\ api \in [Probed -> Condition]
    /\ loop \in {"sleeping", "probing", "stopped"}
    /\ probe \in [Probed -> Condition \cup {"none", "asked"}]
    /\ history \in [Probed -> Seq(Result)]
    /\ \A m \in Probed : Len(history[m]) <= Window
    /\ consecutive \in [Probed -> 0..MaxCounter]
    /\ loop # "probing" => \A m \in Probed : probe[m] = "none"

\* record() keeps the failures twice, in the window and in a counter of its own
\* that outlives it: both always tell the same story.  The last results are
\* failures exactly as far back as the counter says, or the window goes.
CounterMatchesWindow ==
    \A m \in Probed :
        LET h == history[m] IN
        /\ \A i \in 1..Len(h) : i + consecutive[m] > Len(h) => ~h[i].ok
        /\ consecutive[m] < Len(h) => h[Len(h) - consecutive[m]].ok

\* What a condition that lasts should be reported as.
Expected(m, c) ==
    CASE Outcome(m, c) = "failure" -> "down"
      [] c = "slow" -> "degraded"
      [] OTHER -> "healthy"

\* Whatever the window held before, and however slow the other models' probes,
\* the status of an API that keeps its condition becomes the right one and stays,
\* unless its probes raise or the loop is stopped.
StatusFollowsApi ==
    \A m \in Probed, c \in Condition :
        Outcome(m, c) # "raise" =>
            (<>[](api[m] = c /\ loop # "stopped") => <>[](Status(m) = Expected(m, c)))
=============================================================================
