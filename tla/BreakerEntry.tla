---------------------------- MODULE BreakerEntry ----------------------------
(***************************************************************************)
(* The state machine of one model's circuit breaker in                      *)
(* app/circuit_breaker.py, as operators on its _BreakerEntry.               *)
(*                                                                          *)
(* opened_at is kept as the time passed since then: elapsed counts the      *)
(* ticks of time.time() since the circuit opened and stops at Cooldown,     *)
(* from where on the code makes no difference.                              *)
(***************************************************************************)
EXTENDS Integers

CONSTANTS
    Threshold,   \* circuit_breaker.failure_threshold
    Cooldown,    \* circuit_breaker.cooldown_seconds, in ticks
    MaxTrials    \* circuit_breaker.half_open_max_trials

ASSUME BreakerAssumption ==
    /\ Threshold \in Nat \ {0}
    /\ Cooldown \in Nat
    /\ MaxTrials \in Nat \ {0}

CircuitState == {"CLOSED", "OPEN", "HALF_OPEN"}

\* failures is only compared with Threshold and stops there.
Entry == [state    : CircuitState,
          failures : 0..Threshold,
          elapsed  : 0..Cooldown,
          trials   : 0..MaxTrials]

\* What _entry() creates on first use of a key.
FreshEntry == [state |-> "CLOSED", failures |-> 0, elapsed |-> Cooldown, trials |-> 0]

\* OPEN and short of the cooldown.
Cooling(e) == e.state = "OPEN" /\ e.elapsed < Cooldown

\* check_and_reserve() lets the caller through, that is it does not raise.
Admits(e) ==
    /\ ~Cooling(e)
    /\ e.state # "CLOSED" => e.trials < MaxTrials

\* Variants, each with a plausible mistake: the request that ends the cooldown
\* reserves no slot; the slot is counted before the limit is tested.
CheckedUncounted(e) ==
    IF e.state = "CLOSED" \/ Cooling(e) THEN e
    ELSE [e EXCEPT !.state = "HALF_OPEN",
                   !.trials = IF e.state = "HALF_OPEN" /\ @ < MaxTrials THEN @ + 1 ELSE @]

CheckedTooLate(e) ==
    IF e.state = "CLOSED" \/ Cooling(e) THEN e
    ELSE [e EXCEPT !.state = "HALF_OPEN", !.trials = @ + 1]

\* The entry check_and_reserve() leaves behind, whether it raises or not.
Checked(e) ==
    IF e.state = "CLOSED" \/ Cooling(e) THEN e
    ELSE [e EXCEPT !.state = "HALF_OPEN",
                   !.trials = IF @ < MaxTrials THEN @ + 1 ELSE @]

\* consecutive_failures += 1
OneMoreFailure(e) == IF e.failures < Threshold THEN e.failures + 1 ELSE Threshold

\* Variant: the slot of the trial is not given back.
SlotKept(e) == e.trials

\* half_open_trials_in_flight = max(0, half_open_trials_in_flight - 1)
SlotReturned(e) == IF e.trials > 0 THEN e.trials - 1 ELSE 0

\* Variant: a failed trial is counted, but the circuit is not opened again.
TrialRecordedNoReopen(e, success) ==
    IF success
    THEN [e EXCEPT !.state = "CLOSED", !.failures = 0, !.trials = SlotReturned(e)]
    ELSE [e EXCEPT !.failures = OneMoreFailure(e), !.trials = SlotReturned(e)]

\* record_outcome() in HALF_OPEN.
TrialRecorded(e, success) ==
    IF success
    THEN [e EXCEPT !.state = "CLOSED", !.failures = 0, !.trials = SlotReturned(e)]
    ELSE [e EXCEPT !.state = "OPEN", !.failures = OneMoreFailure(e), !.elapsed = 0,
                   !.trials = SlotReturned(e)]

\* One more failure opens the circuit.
Trips(e) == e.state = "CLOSED" /\ OneMoreFailure(e) >= Threshold

\* record_outcome() in CLOSED and OPEN.
CallRecorded(e, success) ==
    IF success
    THEN [e EXCEPT !.failures = 0]
    ELSE [e EXCEPT !.failures = OneMoreFailure(e),
                   !.state = IF Trips(e) THEN "OPEN" ELSE @,
                   !.elapsed = IF Trips(e) THEN 0 ELSE @]

\* Variant: every outcome is taken for the outcome of a trial.
RecordedAsTrial(e, success) == TrialRecorded(e, success)

\* The entry record_outcome() leaves behind.
Recorded(e, success) ==
    IF e.state = "HALF_OPEN" THEN TrialRecorded(e, success) ELSE CallRecorded(e, success)

\* One tick of the clock.
Older(e) == [e EXCEPT !.elapsed = IF @ < Cooldown THEN @ + 1 ELSE @]
=============================================================================
