------------------------ MODULE CircuitBreakerProofs ------------------------
(***************************************************************************)
(* Proofs about module CircuitBreaker, for every threshold, cooldown, trial *)
(* limit and set of callers.                                                *)
(***************************************************************************)
EXTENDS CircuitBreaker, TLAPS

\* Whenever the circuit is not HALF_OPEN a trial slot is free, so that every
\* cooldown ends with a trial, whatever slots were never returned before.
SlotsLeft ==
    /\ entry.state = "HALF_OPEN" => entry.trials \in 1..MaxTrials
    /\ entry.state # "HALF_OPEN" => entry.trials < MaxTrials

\* The slots and the history counter agree: in HALF_OPEN every admitted probe
\* has a slot (older probes may hold more), elsewhere no probe is counted.
ProbesHaveSlots ==
    /\ entry.state = "HALF_OPEN" => probes <= entry.trials
    /\ entry.state # "HALF_OPEN" => probes = 0

\* The inductive invariant.  The bound on the probes needs the bound on the
\* slots and the fact that every way out of HALF_OPEN gives one slot back.
Inductive ==
    /\ TypeOK
    /\ SlotsLeft
    /\ ClosedBelowThreshold
    /\ ProbesHaveSlots

USE BreakerAssumption, CallerAssumption

\* What check_and_reserve() does to an entry that it admits.
LEMMA AdmittedEntry ==
  ASSUME NEW e \in Entry, Admits(e)
  PROVE  /\ Checked(e) \in Entry
         /\ e.state = "CLOSED" => Checked(e) = e
         /\ e.state # "CLOSED" => /\ Checked(e).state = "HALF_OPEN"
                                  /\ Checked(e).trials = e.trials + 1
                                  /\ Checked(e).trials <= MaxTrials
                                  /\ e.state = "OPEN" => e.elapsed >= Cooldown
  <1>1. CASE e.state = "CLOSED"
    BY <1>1 DEF Checked
  <1>2. CASE e.state # "CLOSED"
    <2>1. e.trials < MaxTrials /\ e.trials \in 0..MaxTrials /\ ~Cooling(e)
      BY <1>2 DEF Admits, Entry
    <2>2. Checked(e) = [e EXCEPT !.state = "HALF_OPEN", !.trials = e.trials + 1]
      BY <1>2, <2>1 DEF Checked
    <2>3. e.trials + 1 \in 0..MaxTrials
      BY <2>1
    <2>4. Checked(e) \in Entry
      BY <2>2, <2>3 DEF Entry, CircuitState
    <2>5. e.state = "OPEN" => e.elapsed >= Cooldown
      BY <2>1 DEF Cooling, Entry
    <2> QED
      BY <1>2, <2>1, <2>2, <2>3, <2>4, <2>5 DEF Entry
  <1> QED
    BY <1>1, <1>2

\* A rejection leaves the entry as it is, if a slot was free whenever the
\* circuit was not HALF_OPEN.
LEMMA RejectedEntry ==
  ASSUME NEW e \in Entry, ~Admits(e), e.state # "HALF_OPEN" => e.trials < MaxTrials
  PROVE  Checked(e) = e
  BY DEF Entry, CircuitState, Admits, Checked, Cooling

\* What record_outcome() does to an entry.
LEMMA RecordedEntry ==
  ASSUME NEW e \in Entry, NEW success \in BOOLEAN
  PROVE  /\ Recorded(e, success) \in Entry
         /\ e.state = "HALF_OPEN" =>
               /\ Recorded(e, success).state \in {"CLOSED", "OPEN"}
               /\ Recorded(e, success).trials = IF e.trials > 0 THEN e.trials - 1 ELSE 0
               /\ Recorded(e, success).state = "CLOSED" => Recorded(e, success).failures = 0
         /\ e.state # "HALF_OPEN" =>
               /\ Recorded(e, success).state # "HALF_OPEN"
               /\ e.state = "OPEN" => Recorded(e, success).state = "OPEN"
               /\ Recorded(e, success).trials = e.trials
               /\ Recorded(e, success).state = "CLOSED" =>
                     Recorded(e, success).failures < Threshold \/ e.failures >= Threshold
  <1>1. OneMoreFailure(e) \in 0..Threshold
    BY DEF Entry, OneMoreFailure
  <1>2. CASE e.state = "HALF_OPEN"
    <2> DEFINE n == SlotReturned(e)
               s == IF success THEN "CLOSED" ELSE "OPEN"
               f == IF success THEN 0 ELSE OneMoreFailure(e)
    <2>1. n \in 0..MaxTrials /\ n = IF e.trials > 0 THEN e.trials - 1 ELSE 0
      BY DEF Entry, SlotReturned
    <2>2. Recorded(e, success) =
             IF success
             THEN [e EXCEPT !.state = s, !.failures = f, !.trials = n]
             ELSE [e EXCEPT !.state = s, !.failures = f, !.elapsed = 0, !.trials = n]
      BY <1>2 DEF Recorded, TrialRecorded
    <2>3. s \in {"CLOSED", "OPEN"} /\ f \in 0..Threshold /\ (s = "CLOSED" => f = 0)
      BY <1>1
    <2> HIDE DEF n, s, f
    <2>4. /\ Recorded(e, success) \in Entry
          /\ Recorded(e, success).state = s
          /\ Recorded(e, success).failures = f
          /\ Recorded(e, success).trials = n
      <3>1. CASE success
        BY <2>1, <2>2, <2>3, <3>1 DEF Entry, CircuitState
      <3>2. CASE ~success
        <4>1. Recorded(e, success) = [e EXCEPT !.state = s, !.failures = f, !.elapsed = 0, !.trials = n]
          BY <2>2, <3>2
        <4>2. Recorded(e, success) = [state |-> s, failures |-> f, elapsed |-> 0, trials |-> n]
          BY <4>1 DEF Entry
        <4>3. 0 \in 0..Cooldown
          OBVIOUS
        <4> QED
          BY <2>1, <2>3, <4>2, <4>3 DEF Entry, CircuitState
      <3> QED
        BY <3>1, <3>2
    <2> QED
      BY <1>2, <2>1, <2>3, <2>4
  <1>3. CASE e.state # "HALF_OPEN"
    <2> DEFINE s == IF Trips(e) THEN "OPEN" ELSE e.state
               f == OneMoreFailure(e)
               t == IF Trips(e) THEN 0 ELSE e.elapsed
    <2>1. Recorded(e, success) =
             IF success
             THEN [e EXCEPT !.failures = 0]
             ELSE [e EXCEPT !.failures = f, !.state = s, !.elapsed = t]
      BY <1>3 DEF Recorded, CallRecorded
    <2>2. /\ s \in {"CLOSED", "OPEN"} /\ t \in 0..Cooldown /\ f \in 0..Threshold
          /\ e.state = "OPEN" => s = "OPEN"
          /\ s = "CLOSED" => f < Threshold
      BY <1>1, <1>3 DEF Entry, CircuitState, Trips
    <2> HIDE DEF s, f, t
    <2>3. CASE success
      BY <1>3, <2>1, <2>3 DEF Entry, CircuitState
    <2>4. CASE ~success
      <3>1. /\ Recorded(e, success) \in Entry
            /\ Recorded(e, success).state = s
            /\ Recorded(e, success).failures = f
            /\ Recorded(e, success).trials = e.trials
        BY <2>1, <2>2, <2>4 DEF Entry, CircuitState
      <3> QED
        BY <1>3, <2>2, <3>1
    <2> QED
      BY <2>3, <2>4
  <1> QED
    BY <1>2, <1>3

\* A tick changes nothing but the time.
LEMMA OlderEntry ==
  ASSUME NEW e \in Entry
  PROVE  /\ Older(e) \in Entry
         /\ Older(e).state = e.state
         /\ Older(e).trials = e.trials
         /\ Older(e).failures = e.failures
  BY DEF Entry, Older

LEMMA InductiveInit == Init => Inductive
  <1> SUFFICES ASSUME Init PROVE Inductive
    OBVIOUS
  <1>1. entry \in Entry /\ call \in [Caller -> {"idle", "plain", "trial"}] /\ probes \in Nat
    BY DEF Init, FreshEntry, Entry, CircuitState
  <1>2. forgotten \in BOOLEAN
    BY DEF Init
  <1>3. SlotsLeft /\ ClosedBelowThreshold /\ ProbesHaveSlots
    BY DEF Init, SlotsLeft, ClosedBelowThreshold, ProbesHaveSlots, FreshEntry
  <1> QED
    BY <1>1, <1>2, <1>3 DEF Inductive, TypeOK

\* Every step preserves the invariant.
LEMMA InductiveStep == Inductive /\ [Next]_vars => Inductive'
  <1> SUFFICES ASSUME Inductive, [Next]_vars PROVE Inductive'
    OBVIOUS
  <1> USE DEF Inductive, TypeOK, SlotsLeft, ClosedBelowThreshold, ProbesHaveSlots
  <1>0. entry \in Entry /\ entry.state \in CircuitState /\ entry.trials \in Nat
    BY DEF Entry
  <1>1. ASSUME NEW c \in Caller, Admit(c) PROVE Inductive'
    <2>1. CASE entry.state = "CLOSED"
      BY <1>0, <1>1, <2>1, AdmittedEntry DEF Admit
    <2>2. CASE entry.state # "CLOSED"
      <3>1. /\ entry' \in Entry
            /\ entry'.state = "HALF_OPEN"
            /\ entry'.trials = entry.trials + 1
            /\ entry'.trials <= MaxTrials
        BY <1>0, <1>1, <2>2, AdmittedEntry DEF Admit
      <3>2. probes \in Nat /\ probes <= entry.trials
        BY <1>0, <2>2 DEF CircuitState
      <3> QED
        BY <1>0, <1>1, <3>1, <3>2 DEF Admit
    <2> QED
      BY <2>1, <2>2
  <1>2. ASSUME NEW c \in Caller, Reject(c) PROVE Inductive'
    BY <1>0, <1>2, RejectedEntry DEF Reject
  <1>3. ASSUME NEW c \in Caller, NEW success \in BOOLEAN, Record(c, success) PROVE Inductive'
    <2>1. entry' = Recorded(entry, success) /\ entry' \in Entry
      BY <1>0, <1>3, RecordedEntry DEF Record
    <2>2. call' \in [Caller -> {"idle", "plain", "trial"}]
      BY <1>3 DEF Record
    <2>3. CASE entry.state = "HALF_OPEN"
      <3>1. /\ entry'.state \in {"CLOSED", "OPEN"}
            /\ entry'.trials = entry.trials - 1
            /\ entry'.state = "CLOSED" => entry'.failures = 0
        BY <1>0, <2>1, <2>3, RecordedEntry
      <3> QED
        BY <1>0, <1>3, <2>1, <2>2, <2>3, <3>1 DEF Record
    <2>4. CASE entry.state # "HALF_OPEN"
      <3>1. /\ entry'.state # "HALF_OPEN"
            /\ entry.state = "OPEN" => entry'.state = "OPEN"
            /\ entry'.trials = entry.trials
            /\ entry'.state = "CLOSED" => entry'.failures < Threshold \/ entry.failures >= Threshold
        BY <1>0, <2>1, <2>4, RecordedEntry
      <3>2. entry'.state = "CLOSED" => entry'.failures < Threshold
        BY <1>0, <2>4, <3>1 DEF CircuitState, Entry
      <3> QED
        BY <1>0, <1>3, <2>1, <2>2, <2>4, <3>1, <3>2 DEF Record
    <2> QED
      BY <2>3, <2>4
  <1>4. ASSUME NEW c \in Caller, Escape(c) PROVE Inductive'
    BY <1>4 DEF Escape
  <1>5. ASSUME Tick PROVE Inductive'
    BY <1>0, <1>5, OlderEntry DEF Tick
  <1>6. ASSUME UNCHANGED vars PROVE Inductive'
    BY <1>6 DEF vars
  <1> QED
    BY <1>1, <1>2, <1>3, <1>4, <1>5, <1>6 DEF Next

LEMMA InductiveHolds == Spec => []Inductive
  BY InductiveInit, InductiveStep, PTL DEF Spec

\* The entry and the callers keep their types; never more than MaxTrials slots.
THEOREM TypeCorrect == Spec => []TypeOK
  <1>1. Inductive => TypeOK
    BY DEF Inductive
  <1> QED
    BY <1>1, InductiveHolds, PTL

\* At most half_open_max_trials calls reach a model between the moment its
\* circuit opens and the next recorded outcome, for any traffic.
THEOREM BoundedProbingHolds == Spec => []BoundedProbing
  <1>1. Inductive => BoundedProbing
    <2> SUFFICES ASSUME Inductive PROVE BoundedProbing
      OBVIOUS
    <2>1. probes \in Nat /\ entry.trials \in 0..MaxTrials
      BY DEF Inductive, TypeOK, Entry
    <2> QED
      BY <2>1 DEF Inductive, ProbesHaveSlots, BoundedProbing
  <1> QED
    BY <1>1, InductiveHolds, PTL

\* A circuit that is closed has counted fewer failures than the threshold.
THEOREM ClosedBelowThresholdHolds == Spec => []ClosedBelowThreshold
  <1>1. Inductive => ClosedBelowThreshold
    BY DEF Inductive
  <1> QED
    BY <1>1, InductiveHolds, PTL

\* No late outcome cuts a cooldown short or closes an open circuit.
THEOREM CooldownNotSkippedHolds == Spec => CooldownNotSkipped
  <1> DEFINE A == entry.state = "OPEN" => /\ entry'.state # "CLOSED"
                                          /\ entry'.state = "HALF_OPEN" => entry.elapsed >= Cooldown
  <1>1. Inductive /\ [Next]_vars => [A]_vars
    <2> SUFFICES ASSUME Inductive, Next, entry.state = "OPEN"
                 PROVE  /\ entry'.state # "CLOSED"
                        /\ entry'.state = "HALF_OPEN" => entry.elapsed >= Cooldown
      OBVIOUS
    <2>0. entry \in Entry /\ (entry.state # "HALF_OPEN" => entry.trials < MaxTrials)
      BY DEF Inductive, TypeOK, SlotsLeft
    <2>1. ASSUME NEW c \in Caller, Admit(c)
          PROVE  entry'.state = "HALF_OPEN" /\ entry.elapsed >= Cooldown
      BY <2>0, <2>1, AdmittedEntry DEF Admit
    <2>2. ASSUME NEW c \in Caller, Reject(c) \/ Escape(c) PROVE entry' = entry
      BY <2>0, <2>2, RejectedEntry DEF Reject, Escape
    <2>3. ASSUME NEW c \in Caller, NEW success \in BOOLEAN, Record(c, success)
          PROVE  entry'.state = "OPEN"
      BY <2>0, <2>3, RecordedEntry DEF Record
    <2>4. ASSUME Tick PROVE entry'.state = "OPEN"
      BY <2>0, <2>4, OlderEntry DEF Tick
    <2> QED
      BY <2>1, <2>2, <2>3, <2>4 DEF Next
  <1> QED
    BY <1>1, InductiveHolds, PTL DEF Spec, CooldownNotSkipped

\* A HALF_OPEN circuit has a trial under way, unless a trial ended unrecorded.
THEOREM HalfOpenHasTrialHolds == Spec => []HalfOpenHasTrial
  <1>1. Init => HalfOpenHasTrial
    BY DEF Init, HalfOpenHasTrial, FreshEntry
  <1>2. Inductive /\ HalfOpenHasTrial /\ [Next]_vars => HalfOpenHasTrial'
    <2> SUFFICES ASSUME Inductive, HalfOpenHasTrial, [Next]_vars PROVE HalfOpenHasTrial'
      OBVIOUS
    <2>0. /\ entry \in Entry /\ (entry.state # "HALF_OPEN" => entry.trials < MaxTrials)
          /\ call \in [Caller -> {"idle", "plain", "trial"}]
      BY DEF Inductive, TypeOK, SlotsLeft
    <2>1. ASSUME NEW c \in Caller, Admit(c) PROVE HalfOpenHasTrial'
      BY <2>0, <2>1 DEF Admit, HalfOpenHasTrial, Trials
    <2>2. ASSUME NEW c \in Caller, Reject(c) PROVE HalfOpenHasTrial'
      BY <2>0, <2>2, RejectedEntry DEF Reject, HalfOpenHasTrial, Trials
    <2>3. ASSUME NEW c \in Caller, NEW success \in BOOLEAN, Record(c, success)
          PROVE  HalfOpenHasTrial'
      BY <2>0, <2>3, RecordedEntry DEF Record, HalfOpenHasTrial
    <2>4. ASSUME Tick PROVE HalfOpenHasTrial'
      BY <2>0, <2>4, OlderEntry DEF Tick, HalfOpenHasTrial, Trials
    <2>5. ASSUME UNCHANGED vars PROVE HalfOpenHasTrial'
      BY <2>5 DEF vars, HalfOpenHasTrial, Trials
    <2>6. ASSUME NEW c \in Caller, Escape(c) PROVE HalfOpenHasTrial'
      BY <2>0, <2>6 DEF Escape, HalfOpenHasTrial, Trials
    <2> QED
      BY <2>1, <2>2, <2>3, <2>4, <2>5, <2>6 DEF Next
  <1> QED
    BY <1>1, <1>2, InductiveHolds, PTL DEF Spec

\* A circuit whose trials have all ended unrecorded is shut until the process ends:
\* no call, no request and no time changes its state.
THEOREM StaysShutHolds == Spec => StaysShut
  <1>1. TypeOK /\ [Next]_vars => [ShutForGood => ShutForGood']_vars
    <2> SUFFICES ASSUME TypeOK, [Next]_vars, ShutForGood PROVE ShutForGood'
      OBVIOUS
    <2>0. /\ entry \in Entry /\ entry.state = "HALF_OPEN" /\ ~Admits(entry)
          /\ \A c \in Caller : call[c] = "idle"
      BY DEF TypeOK, ShutForGood
    <2>1. ASSUME NEW c \in Caller PROVE ~Admit(c) /\ ~Escape(c) /\ ~ \E s \in BOOLEAN : Record(c, s)
      BY <2>0 DEF Admit, Escape, Record
    <2>2. ASSUME NEW c \in Caller, Reject(c) PROVE ShutForGood'
      BY <2>0, <2>2, RejectedEntry DEF Reject, ShutForGood
    <2>3. CASE Tick
      <3>1. entry' = [entry EXCEPT !.elapsed = @ + 1]
        BY <2>0, <2>3 DEF Tick, Older
      <3>2. entry'.state = entry.state /\ entry'.trials = entry.trials
        BY <2>0, <3>1 DEF Entry
      <3>3. ~Admits(entry')
        BY <2>0, <3>2 DEF Admits, Cooling
      <3> QED
        BY <2>0, <2>3, <3>2, <3>3 DEF Tick, ShutForGood
    <2>4. CASE UNCHANGED vars
      BY <2>4 DEF vars, ShutForGood
    <2> QED
      BY <2>1, <2>2, <2>3, <2>4 DEF Next
  <1> QED
    BY <1>1, TypeCorrect, PTL DEF Spec, StaysShut

\* When no call is under way, a circuit that rejects its requests is OPEN, and cooling
\* down, or has lost a trial: late outcomes alone never get it stuck.
THEOREM OnlyLostTrialsShut ==
  Spec => [](~Admits(entry) /\ (\A c \in Caller : call[c] = "idle") => Cooling(entry) \/ ShutForGood)
  <1>1. Inductive /\ HalfOpenHasTrial
          => (~Admits(entry) /\ (\A c \in Caller : call[c] = "idle") => Cooling(entry) \/ ShutForGood)
    <2> SUFFICES ASSUME Inductive, HalfOpenHasTrial, ~Admits(entry), ~Cooling(entry),
                        \A c \in Caller : call[c] = "idle"
                 PROVE  ShutForGood
      OBVIOUS
    <2>1. entry \in Entry /\ (entry.state # "HALF_OPEN" => entry.trials < MaxTrials)
      BY DEF Inductive, TypeOK, SlotsLeft
    <2>2. entry.state = "HALF_OPEN"
      BY <2>1 DEF Admits
    <2>3. Trials = {}
      BY DEF Trials
    <2> QED
      BY <2>2, <2>3 DEF HalfOpenHasTrial, ShutForGood
  <1> QED
    BY <1>1, InductiveHolds, HalfOpenHasTrialHolds, PTL
=============================================================================
