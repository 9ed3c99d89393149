--------------------------- MODULE DispatchProofs ---------------------------
(***************************************************************************)
(* Proofs about modules Routing and Dispatch, for every configuration of    *)
(* models, chains and teams, every set of requests and every retry budget.  *)
(***************************************************************************)
EXTENDS Dispatch, FiniteSetTheorems, TLAPS

-----------------------------------------------------------------------------
(* build_candidates(). *)

\* A set of natural numbers has a least one.
LEMMA LeastNumber ==
  ASSUME NEW T \in SUBSET Nat, T # {}
  PROVE  \E x \in T : \A y \in T : x <= y
  <1>1. PICK x \in T : \A y \in T : <<y, x>> \notin OpToRel(<, Nat)
    BY NatLessThanWellFounded, WFMin
  <1>2. \A y \in T : ~(y < x)
    BY <1>1 DEF OpToRel
  <1> QED
    BY <1>2

\* Counted from below, a set of places has one for every number up to its size.
LEMMA PlaceExists ==
  ASSUME NEW n \in Nat, NEW kept \in SUBSET (1..n), NEW k \in 1..Cardinality(kept)
  PROVE  \E i \in kept : Cardinality(kept \cap (1..i)) = k
  <1> DEFINE upTo(i) == kept \cap (1..i)
             reached == {i \in 0..n : Cardinality(upTo(i)) >= k}
  <1>1. IsFiniteSet(kept) /\ Cardinality(kept) \in Nat
    <2>1. IsFiniteSet(1..n)
      BY FS_Interval
    <2>2. IsFiniteSet(kept)
      BY <2>1, FS_Subset
    <2> QED
      BY <2>2, FS_CardinalityType
  <1>2. \A i \in 0..n : IsFiniteSet(upTo(i)) /\ Cardinality(upTo(i)) \in Nat
    BY <1>1, FS_Subset, FS_CardinalityType
  <1>3. n \in reached
    <2>1. upTo(n) = kept
      OBVIOUS
    <2> QED
      BY <1>1, <2>1
  <1>4. PICK i \in reached : \A j \in reached : i <= j
    <2>1. reached \subseteq Nat /\ reached # {}
      <3>1. reached \subseteq Nat
        OBVIOUS
      <3> QED
        BY <1>3, <3>1
    <2> HIDE DEF reached
    <2> QED
      BY <2>1, LeastNumber
  <1>5. i \in 0..n /\ Cardinality(upTo(i)) >= k
    OBVIOUS
  <1>6. i # 0
    <2>1. upTo(0) = {}
      OBVIOUS
    <2> QED
      BY <2>1, FS_EmptySet
  <1>7. i - 1 \in 0..n /\ i - 1 \notin reached
    BY <1>4, <1>6
  <1>8. Cardinality(upTo(i - 1)) < k
    <2>1. ~(Cardinality(upTo(i - 1)) >= k)
      BY <1>7
    <2>2. Cardinality(upTo(i - 1)) \in Nat
      BY <1>2, <1>7
    <2> HIDE DEF upTo
    <2> QED
      BY <2>1, <2>2
  <1>9. CASE i \in kept
    <2>1. upTo(i) = upTo(i - 1) \cup {i} /\ i \notin upTo(i - 1)
      BY <1>9
    <2>2. Cardinality(upTo(i)) = Cardinality(upTo(i - 1)) + 1
      <3> HIDE DEF upTo
      <3> QED
        BY <1>2, <1>7, <2>1, FS_AddElement
    <2>3. Cardinality(upTo(i)) = k
      <3> HIDE DEF upTo
      <3> QED
        BY <1>2, <1>5, <1>7, <1>8, <2>2
    <2> QED
      BY <1>9, <2>3
  <1>10. CASE i \notin kept
    <2>1. upTo(i) = upTo(i - 1)
      BY <1>10
    <2>2. Cardinality(upTo(i)) < k
      BY <1>8, <2>1
    <2>3. Cardinality(upTo(i)) \in Nat
      BY <1>2, <1>5
    <2> HIDE DEF upTo
    <2> QED
      BY <1>5, <2>2, <2>3
  <1> QED
    BY <1>9, <1>10

\* No entry twice.
Distinct(s) == \A i, j \in 1..Len(s) : s[i] = s[j] => i = j

\* What Picked() collects: elements at the places to keep and nothing else, and
\* none of them twice if each is the first of its name.
LEMMA PickedShape ==
  ASSUME NEW S, NEW chain \in Seq(S), NEW kept \in SUBSET (1..Len(chain)),
         \A i \in kept : FirstSeen(chain, i)
  PROVE  LET s == Picked(chain, kept) IN
         /\ s \in Seq(S)
         /\ Len(s) = Cardinality(kept)
         /\ \A k \in 1..Len(s) : \E i \in kept : s[k] = chain[i]
         /\ Distinct(s)
  <1> DEFINE n == Cardinality(kept)
             place(k) == CHOOSE i \in kept : Cardinality(kept \cap (1..i)) = k
             s == Picked(chain, kept)
  <1>1. n \in Nat
    <2>1. IsFiniteSet(1..Len(chain))
      BY FS_Interval
    <2> QED
      BY <2>1, FS_Subset, FS_CardinalityType
  <1>2. \A k \in 1..n : place(k) \in kept /\ Cardinality(kept \cap (1..place(k))) = k
    <2> SUFFICES ASSUME NEW k \in 1..n
                 PROVE  place(k) \in kept /\ Cardinality(kept \cap (1..place(k))) = k
      OBVIOUS
    <2>1. Len(chain) \in Nat
      OBVIOUS
    <2>2. \E i \in kept : Cardinality(kept \cap (1..i)) = k
      BY <2>1, PlaceExists
    <2> QED
      BY <2>2, Zenon
  <1>3. s = [k \in 1..n |-> chain[place(k)]]
    BY DEF Picked
  <1> HIDE DEF place, n, s
  <1>4. \A k \in 1..n : place(k) \in 1..Len(chain) /\ chain[place(k)] \in S
    <2>1. \A i \in kept : i \in 1..Len(chain) /\ chain[i] \in S
      OBVIOUS
    <2> QED
      BY <1>2, <2>1
  <1>5. s \in Seq(S) /\ Len(s) = n
    BY <1>1, <1>3, <1>4
  <1>6. \A k \in 1..n : s[k] = chain[place(k)]
    BY <1>3
  <1>7. ASSUME NEW i \in 1..n, NEW j \in 1..n, s[i] = s[j] PROVE i = j
    <2>1. chain[place(i)] = chain[place(j)]
      BY <1>6, <1>7
    <2>2. ~(place(i) < place(j)) /\ ~(place(j) < place(i))
      <3>1. \A p, q \in kept : p < q => chain[p] # chain[q]
        <4>1. \A p, q \in kept : p \in Nat /\ q \in Nat /\ (p < q => p \in 1..(q - 1))
          OBVIOUS
        <4> QED
          BY <4>1 DEF FirstSeen
      <3> QED
        BY <1>2, <2>1, <3>1
    <2>3. place(i) = place(j)
      BY <1>4, <2>2
    <2> QED
      BY <1>2, <2>3
  <1> QED
    BY <1>2, <1>5, <1>6, <1>7 DEF Distinct, n, s

\* build_candidates() returns models the team may use, each at most once.
THEOREM CandidatesUsableOnce ==
  ASSUME NEW t \in Team, NEW m \in Model
  PROVE  /\ Candidates(t, m) \in Seq(Model)
         /\ \A i \in 1..Len(Candidates(t, m)) : Usable(t, Candidates(t, m)[i])
         /\ Distinct(Candidates(t, m))
  <1> DEFINE chain == Chain(m)
             kept == {i \in 1..Len(chain) : FirstSeen(chain, i) /\ Usable(t, chain[i])}
             s == Picked(chain, kept)
  <1>1. Candidates(t, m) = s
    BY DEF Candidates
  <1>2. chain \in Seq(ModelName)
    BY RoutingAssumption DEF Chain, ModelName
  <1>3. /\ s \in Seq(ModelName) /\ Distinct(s)
        /\ \A k \in 1..Len(s) : \E i \in kept : s[k] = chain[i]
    <2>1. kept \in SUBSET (1..Len(chain)) /\ \A i \in kept : FirstSeen(chain, i)
      OBVIOUS
    <2> HIDE DEF chain, kept
    <2> QED
      BY <1>2, <2>1, PickedShape
  <1> HIDE DEF s, chain
  <1>4. \A k \in 1..Len(s) : Usable(t, s[k])
    BY <1>3
  <1>5. \A k \in 1..Len(s) : s[k] \in Model
    BY <1>4 DEF Usable, RouteStatus
  <1>6. s \in Seq(Model)
    BY <1>3, <1>5
  <1> QED
    BY <1>1, <1>3, <1>4, <1>6

-----------------------------------------------------------------------------
(* The steps of the dispatch. *)

\* check_and_reserve(), record_outcome() and the clock leave an entry behind.
LEMMA EntryType ==
  ASSUME NEW e \in Entry
  PROVE  /\ Checked(e) \in Entry
         /\ Older(e) \in Entry
         /\ \A success \in BOOLEAN : Recorded(e, success) \in Entry
  <1> USE BreakerAssumption
  <1>1. Checked(e) \in Entry
    <2> DEFINE n == IF e.trials < MaxTrials THEN e.trials + 1 ELSE e.trials
    <2>1. n \in 0..MaxTrials
      BY DEF Entry
    <2>2. Checked(e) \in {e, [e EXCEPT !.state = "HALF_OPEN", !.trials = n]}
      BY DEF Checked
    <2> HIDE DEF n
    <2> QED
      BY <2>1, <2>2 DEF Entry, CircuitState
  <1>2. Older(e) \in Entry
    BY DEF Older, Entry
  <1>3. ASSUME NEW success \in BOOLEAN PROVE Recorded(e, success) \in Entry
    <2>1. OneMoreFailure(e) \in 0..Threshold /\ SlotReturned(e) \in 0..MaxTrials
      BY DEF OneMoreFailure, SlotReturned, Entry
    <2>2. 0 \in 0..Cooldown /\ 0 \in 0..Threshold
      OBVIOUS
    <2>3. TrialRecorded(e, success) \in Entry
      BY <2>1, <2>2 DEF TrialRecorded, Entry, CircuitState
    <2>4. CallRecorded(e, success) \in Entry
      BY <2>1, <2>2 DEF CallRecorded, Entry, CircuitState
    <2> QED
      BY <2>3, <2>4 DEF Recorded
  <1> QED
    BY <1>1, <1>2, <1>3

\* The short-circuited candidates first to stop, as failures.
ShortCircuited(plan, first, stop) ==
    [i \in 1..(stop - first + 1) |-> [model |-> plan[first + i - 1], attempts |-> 0]]

\* The entries when candidates first to stop have been checked.
CheckedFrom(plan, first, stop, e) ==
    [m \in Model |-> IF m \in {plan[i] : i \in first..stop} THEN Checked(e[m]) ELSE e[m]]

\* The loop ran out of candidates.
RunsOut(r, plan, first, e) ==
    /\ \A i \in first..Len(plan) : ~Admits(e[plan[i]])
    /\ entry' = CheckedFrom(plan, first, Len(plan), e)
    /\ HistoryAfter(entry', {})
    /\ at' = [at EXCEPT ![r] = Len(plan)]
    /\ pc' = [pc EXCEPT ![r] = "failed"]
    /\ kind' = [kind EXCEPT ![r] = "plain"]
    /\ calls' = calls

\* The loop skips the candidates before the one at next, and calls that.
Calls(r, plan, first, next, e) ==
    /\ \A i \in first..(next - 1) : ~Admits(e[plan[i]])
    /\ Admits(e[plan[next]])
    /\ entry' = CheckedFrom(plan, first, next, e)
    /\ HistoryAfter(entry', {plan[next]})
    /\ at' = [at EXCEPT ![r] = next]
    /\ pc' = [pc EXCEPT ![r] = "calling"]
    /\ kind' = [kind EXCEPT ![r] = IF entry'[plan[next]].state = "HALF_OPEN"
                                   THEN "trial" ELSE "plain"]
    /\ calls' = [calls EXCEPT ![r][plan[next]] = CountUp(@)]

\* The two ways the loop goes on from candidate first.
LEMMA TryFromOutcomes ==
  ASSUME NEW r \in Req, NEW plan \in Seq(Model), NEW first \in 1..(Len(plan) + 1),
         NEW e, NEW failed, TryFrom(r, plan, first, e, failed)
  PROVE  /\ attempt' = [attempt EXCEPT ![r] = 0]
         /\ \/ /\ RunsOut(r, plan, first, e)
               /\ failures' = [failures EXCEPT ![r] =
                     failed \o ShortCircuited(plan, first, Len(plan))]
            \/ \E next \in first..Len(plan) :
                  /\ Calls(r, plan, first, next, e)
                  /\ failures' = [failures EXCEPT ![r] =
                        failed \o ShortCircuited(plan, first, next - 1)]
  <1> DEFINE admitted == {i \in first..Len(plan) : Admits(e[plan[i]])}
  <1>1. Len(plan) \in Nat /\ first \in Nat /\ first >= 1 /\ first <= Len(plan) + 1
    OBVIOUS
  <1>2. ASSUME NEW stop \in Nat, stop >= first - 1
        PROVE  Cardinality(first..stop) = stop - first + 1
    <2>1. Cardinality(first..stop) = IF first > stop THEN 0 ELSE stop - first + 1
      BY <1>1, <1>2, FS_Interval
    <2> QED
      BY <1>1, <1>2, <2>1
  <1>3. CASE admitted = {}
    <2>1. Cardinality(first..Len(plan)) = Len(plan) - first + 1
      BY <1>1, <1>2
    <2>2. \A i \in first..Len(plan) : ~Admits(e[plan[i]])
      BY <1>3
    <2>3. /\ RunsOut(r, plan, first, e)
          /\ failures' = [failures EXCEPT ![r] = failed \o ShortCircuited(plan, first, Len(plan))]
          /\ attempt' = [attempt EXCEPT ![r] = 0]
      BY <1>3, <2>1, <2>2 DEF TryFrom, RunsOut, ShortCircuited, CheckedFrom
    <2> QED
      BY <2>3
  <1>4. CASE admitted # {}
    <2> DEFINE next == Min(admitted)
    <2>1. next \in admitted /\ \A j \in admitted : next <= j
      <3>1. admitted \subseteq Nat
        BY <1>1
      <3>2. \E x \in admitted : \A y \in admitted : x <= y
        <4> HIDE DEF admitted
        <4> QED
          BY <1>4, <3>1, LeastNumber
      <3> QED
        BY <3>2 DEF Min
    <2> HIDE DEF next
    <2>2. next \in first..Len(plan) /\ next - 1 \in Nat /\ next - 1 >= first - 1
      BY <1>1, <2>1
    <2>3. \A i \in first..(next - 1) : ~Admits(e[plan[i]])
      BY <1>1, <2>1, <2>2
    <2>4. Cardinality(first..(next - 1)) = (next - 1) - first + 1
      BY <1>2, <2>2
    <2>5. /\ Calls(r, plan, first, next, e)
          /\ failures' = [failures EXCEPT ![r] = failed \o ShortCircuited(plan, first, next - 1)]
          /\ attempt' = [attempt EXCEPT ![r] = 0]
      BY <1>4, <2>1, <2>3, <2>4 DEF TryFrom, Calls, ShortCircuited, CheckedFrom, next
    <2> QED
      BY <2>2, <2>5
  <1> QED
    BY <1>3, <1>4

\* The failures reported grow by the candidates that were short-circuited.
LEMMA FailuresGrow ==
  ASSUME NEW plan \in Seq(Model), NEW first \in 1..(Len(plan) + 1),
         NEW stop \in (first - 1)..Len(plan), NEW failed \in Seq(Failure), Len(failed) = first - 1
  PROVE  LET fs == failed \o ShortCircuited(plan, first, stop) IN
         /\ fs \in Seq(Failure) /\ Len(fs) = stop
         /\ \A i \in 1..(first - 1) : fs[i] = failed[i]
         /\ \A i \in first..stop : fs[i] = [model |-> plan[i], attempts |-> 0]
  <1> DEFINE n == stop - first + 1
             more == ShortCircuited(plan, first, stop)
             fs == failed \o more
  <1>1. Len(plan) \in Nat /\ first \in Nat /\ stop \in Nat /\ n \in Nat
    OBVIOUS
  <1>2. more = [i \in 1..n |-> [model |-> plan[first + i - 1], attempts |-> 0]]
    BY DEF ShortCircuited
  <1>3. \A i \in 1..n : [model |-> plan[first + i - 1], attempts |-> 0] \in Failure
    <2> SUFFICES ASSUME NEW i \in 1..n PROVE plan[first + i - 1] \in Model /\ 0 \in 0..(MaxRetries + 1)
      BY DEF Failure
    <2>1. first + i - 1 \in 1..Len(plan)
      BY <1>1
    <2> QED
      BY <2>1, DispatchAssumption
  <1>4. more \in Seq(Failure) /\ Len(more) = n
    <2> HIDE DEF more, n
    <2>1. more \in [1..n -> Failure]
      BY <1>2, <1>3
    <2> QED
      BY <1>1, <2>1
  <1>5. \A i \in 1..n : more[i] = [model |-> plan[first + i - 1], attempts |-> 0]
    BY <1>2
  <1> HIDE DEF more, n
  <1>6. fs \in Seq(Failure) /\ Len(fs) = Len(failed) + n
    BY <1>4, Z3
  <1>7. \A i \in 1..Len(fs) : fs[i] = IF i <= Len(failed) THEN failed[i] ELSE more[i - Len(failed)]
    BY <1>4
  <1>8. Len(fs) = stop
    BY <1>1, <1>6 DEF n
  <1> HIDE DEF fs
  <1>9. \A i \in 1..(first - 1) : fs[i] = failed[i]
    BY <1>1, <1>7, <1>8
  <1>10. ASSUME NEW i \in first..stop PROVE fs[i] = [model |-> plan[i], attempts |-> 0]
    <2>1. i \in 1..Len(fs) /\ ~(i <= Len(failed)) /\ i - Len(failed) \in 1..n
      BY <1>1, <1>8 DEF n
    <2>2. fs[i] = [model |-> plan[first + (i - Len(failed)) - 1], attempts |-> 0]
      BY <1>5, <1>7, <2>1
    <2>3. first + (i - Len(failed)) - 1 = i
      BY <1>1
    <2> QED
      BY <2>2, <2>3
  <1> QED
    BY <1>6, <1>8, <1>9, <1>10 DEF fs, more

-----------------------------------------------------------------------------
(* The invariant. *)

\* How many candidates r has behind it.
Passed(r) == IF pc[r] = "failed" THEN Len(cands[r])
             ELSE IF pc[r] = "new" THEN 0
             ELSE at[r] - 1

\* What holds of one request: where it is in its list, whom it has called and how
\* often, and what it has to report.
Sound(r) ==
    /\ \A i \in 1..Len(cands[r]) : Usable(TeamOf[r], cands[r][i])
    /\ Distinct(cands[r])
    /\ pc[r] = "new" => cands[r] = <<>> /\ at[r] = 0
    /\ pc[r] \in {"calling", "backoff", "served", "crashed"} => at[r] \in 1..Len(cands[r])
    /\ pc[r] = "failed" => at[r] = Len(cands[r])
    /\ \A m \in Model : /\ calls[r][m] <= MaxRetries + 1
                        /\ calls[r][m] > 0 => \E i \in 1..at[r] : cands[r][i] = m
    /\ Trying(r) => calls[r][Current(r)] = attempt[r] + 1
    /\ pc[r] = "backoff" => attempt[r] < MaxRetries
    /\ Len(failures[r]) = Passed(r)
    /\ \A i \in 1..Passed(r) : /\ failures[r][i].model = cands[r][i]
                               /\ failures[r][i].attempts = 0 <=> calls[r][cands[r][i]] = 0

\* The histories of a breaker are those of its HALF_OPEN state.
HistoryOfHalfOpen ==
    \A m \in Model : entry[m].state # "HALF_OPEN" => probes[m] = 0 /\ ~forgotten[m]

\* The inductive invariant.  The two properties are about calls made and failures
\* listed; to keep them a step must know that the models ahead were not called yet,
\* which holds because no candidate comes twice.
Inductive ==
    /\ TypeOK
    /\ \A r \in Req : Sound(r)
    /\ HistoryOfHalfOpen

\* A step of another request does not matter.
LEMMA SoundFrame ==
  ASSUME NEW q \in Req, Sound(q),
         pc'[q] = pc[q], cands'[q] = cands[q], at'[q] = at[q], attempt'[q] = attempt[q],
         failures'[q] = failures[q], calls'[q] = calls[q]
  PROVE  Sound(q)'
  BY DEF Sound, Passed, Trying, Current

\* The loop, entered at candidate first with nobody called from there on, keeps
\* every part of the invariant.
LEMMA LoopKeeps ==
  ASSUME TypeOK, NEW r \in Req, NEW plan \in Seq(Model), Distinct(plan),
         \A i \in 1..Len(plan) : Usable(TeamOf[r], plan[i]),
         NEW first \in 1..(Len(plan) + 1), NEW e \in [Model -> Entry],
         NEW failed \in Seq(Failure), Len(failed) = first - 1,
         \A i \in 1..(first - 1) : /\ failed[i].model = plan[i]
                                   /\ failed[i].attempts = 0 <=> calls[r][plan[i]] = 0,
         \A m \in Model : /\ calls[r][m] <= MaxRetries + 1
                          /\ calls[r][m] > 0 => \E i \in 1..(first - 1) : plan[i] = m,
         cands' = [cands EXCEPT ![r] = plan],
         TryFrom(r, plan, first, e, failed)
  PROVE  /\ TypeOK'
         /\ Sound(r)'
         /\ HistoryOfHalfOpen'
         /\ \A q \in Req \ {r} : Sound(q) => Sound(q)'
  <1> USE DispatchAssumption
  <1>1. Len(plan) \in Nat /\ first \in Nat /\ first >= 1
    OBVIOUS
  <1>2. ASSUME NEW stop \in (first - 1)..Len(plan)
        PROVE  CheckedFrom(plan, first, stop, e) \in [Model -> Entry]
    BY EntryType DEF CheckedFrom
  <1>3. attempt' = [attempt EXCEPT ![r] = 0] /\ attempt' \in [Req -> 0..MaxRetries]
    <2>1. attempt' = [attempt EXCEPT ![r] = 0]
      BY TryFromOutcomes
    <2>2. attempt \in [Req -> 0..MaxRetries] /\ 0 \in 0..MaxRetries
      BY DEF TypeOK
    <2> QED
      BY <2>1, <2>2
  <1>4. ASSUME NEW admitted, HistoryAfter(entry', admitted), entry' \in [Model -> Entry]
        PROVE  /\ probes' \in [Model -> Nat] /\ forgotten' \in [Model -> BOOLEAN]
               /\ HistoryOfHalfOpen'
    <2>1. probes \in [Model -> Nat] /\ forgotten \in [Model -> BOOLEAN]
      BY DEF TypeOK
    <2>2. probes' \in [Model -> Nat]
      BY <1>4, <2>1 DEF HistoryAfter
    <2>3. forgotten' \in [Model -> BOOLEAN]
      BY <1>4, <2>1 DEF HistoryAfter
    <2> QED
      BY <1>4, <2>2, <2>3 DEF HistoryAfter, HistoryOfHalfOpen
  <1>5. ASSUME RunsOut(r, plan, first, e),
               failures' = [failures EXCEPT ![r] = failed \o ShortCircuited(plan, first, Len(plan))]
        PROVE  TypeOK' /\ Sound(r)' /\ HistoryOfHalfOpen'
               /\ \A q \in Req \ {r} : Sound(q) => Sound(q)'
    <2> DEFINE fs == failed \o ShortCircuited(plan, first, Len(plan))
    <2>1. /\ fs \in Seq(Failure) /\ Len(fs) = Len(plan)
          /\ \A i \in 1..(first - 1) : fs[i] = failed[i]
          /\ \A i \in first..Len(plan) : fs[i] = [model |-> plan[i], attempts |-> 0]
      <3>1. Len(plan) \in (first - 1)..Len(plan)
        BY <1>1
      <3> QED
        BY <3>1, FailuresGrow
    <2>2. failures' = [failures EXCEPT ![r] = fs]
      BY <1>5
    <2> HIDE DEF fs
    <2>3. entry' \in [Model -> Entry] /\ HistoryAfter(entry', {})
      BY <1>1, <1>2, <1>5 DEF RunsOut
    <2>4. probes' \in [Model -> Nat] /\ forgotten' \in [Model -> BOOLEAN] /\ HistoryOfHalfOpen'
      BY <1>4, <2>3
    <2>5. /\ at' = [at EXCEPT ![r] = Len(plan)] /\ pc' = [pc EXCEPT ![r] = "failed"]
          /\ kind' = [kind EXCEPT ![r] = "plain"] /\ calls' = calls
      BY <1>5 DEF RunsOut
    <2>6. TypeOK'
      BY <1>1, <1>3, <2>1, <2>2, <2>3, <2>4, <2>5 DEF TypeOK
    <2>7. /\ at'[r] = Len(plan) /\ pc'[r] = "failed" /\ calls'[r] = calls[r]
          /\ cands'[r] = plan /\ failures'[r] = fs
      BY <2>2, <2>5 DEF TypeOK
    <2>8. \A i \in 1..Len(plan) : /\ fs[i].model = plan[i]
                                  /\ fs[i].attempts = 0 <=> calls[r][plan[i]] = 0
      <3> SUFFICES ASSUME NEW i \in 1..Len(plan)
                   PROVE  /\ fs[i].model = plan[i]
                          /\ fs[i].attempts = 0 <=> calls[r][plan[i]] = 0
        OBVIOUS
      <3>1. CASE i \in 1..(first - 1)
        <4>1. fs[i] = failed[i]
          BY <2>1, <3>1
        <4>2. failed[i].model = plan[i] /\ (failed[i].attempts = 0 <=> calls[r][plan[i]] = 0)
          BY <3>1
        <4> QED
          BY <4>1, <4>2
      <3>2. CASE i \in first..Len(plan)
        <4>1. plan[i] \in Model /\ calls[r][plan[i]] \in Nat
          BY Z3T(40) DEF TypeOK
        <4>2. ~ \E j \in 1..(first - 1) : plan[j] = plan[i]
          BY <1>1, <3>2 DEF Distinct
        <4>3. calls[r][plan[i]] = 0
          BY <4>1, <4>2
        <4>4. fs[i] = [model |-> plan[i], attempts |-> 0]
          BY <2>1, <3>2
        <4> QED
          BY <4>3, <4>4
      <3> QED
        BY <1>1, <3>1, <3>2
    <2>9. \A m \in Model : /\ calls[r][m] <= MaxRetries + 1
                           /\ calls[r][m] > 0 => \E i \in 1..Len(plan) : plan[i] = m
      BY <1>1
    <2>10. Sound(r)'
      BY <2>1, <2>7, <2>8, <2>9 DEF Sound, Passed, Trying
    <2>11. \A q \in Req \ {r} : Sound(q) => Sound(q)'
      BY <1>3, <2>2, <2>5, SoundFrame DEF TypeOK
    <2> QED
      BY <2>4, <2>6, <2>10, <2>11
  <1>6. ASSUME NEW next \in first..Len(plan), Calls(r, plan, first, next, e),
               failures' = [failures EXCEPT ![r] = failed \o ShortCircuited(plan, first, next - 1)]
        PROVE  TypeOK' /\ Sound(r)' /\ HistoryOfHalfOpen'
               /\ \A q \in Req \ {r} : Sound(q) => Sound(q)'
    <2> DEFINE fs == failed \o ShortCircuited(plan, first, next - 1)
               m == plan[next]
    <2>0. /\ next \in Nat /\ next \in 1..Len(plan) /\ next - 1 \in (first - 1)..Len(plan)
          /\ m \in Model
      BY <1>1
    <2>1. /\ fs \in Seq(Failure) /\ Len(fs) = next - 1
          /\ \A i \in 1..(first - 1) : fs[i] = failed[i]
          /\ \A i \in first..(next - 1) : fs[i] = [model |-> plan[i], attempts |-> 0]
      BY <2>0, FailuresGrow
    <2>2. failures' = [failures EXCEPT ![r] = fs]
      BY <1>6
    <2> HIDE DEF fs
    <2>3. entry' \in [Model -> Entry] /\ HistoryAfter(entry', {m})
      <3>1. next \in (first - 1)..Len(plan)
        BY <1>1
      <3> QED
        BY <1>2, <1>6, <3>1 DEF Calls
    <2>4. probes' \in [Model -> Nat] /\ forgotten' \in [Model -> BOOLEAN] /\ HistoryOfHalfOpen'
      BY <1>4, <2>3
    <2>5. calls[r] \in [Model -> Nat] /\ calls[r][m] = 0 /\ CountUp(calls[r][m]) = 1
      <3>1. calls[r] \in [Model -> Nat]
        BY DEF TypeOK
      <3>2. ~ \E j \in 1..(first - 1) : plan[j] = m
        BY <1>1, <2>0 DEF Distinct
      <3>3. calls[r][m] = 0
        <4> HIDE DEF m
        <4>1. calls[r][m] \in Nat /\ ~(calls[r][m] > 0)
          BY <2>0, <3>1, <3>2
        <4> QED
          BY <4>1
      <3> QED
        BY <3>1, <3>3 DEF CountUp
    <2>6. /\ at' = [at EXCEPT ![r] = next] /\ pc' = [pc EXCEPT ![r] = "calling"]
          /\ kind' \in [Req -> {"plain", "trial"}]
          /\ calls' = [calls EXCEPT ![r] = [calls[r] EXCEPT ![m] = 1]]
      <3>1. calls' = [calls EXCEPT ![r] = [calls[r] EXCEPT ![m] = CountUp(calls[r][m])]]
        BY <1>6 DEF Calls, TypeOK
      <3>2. kind' \in [Req -> {"plain", "trial"}]
        BY <1>6 DEF Calls, TypeOK
      <3> QED
        BY <1>6, <2>5, <3>1, <3>2 DEF Calls
    <2> HIDE DEF m
    <2>7. TypeOK'
      <3>1. calls' \in [Req -> [Model -> Nat]]
        BY <2>5, <2>6 DEF TypeOK
      <3> QED
        BY <1>3, <2>0, <2>1, <2>2, <2>3, <2>4, <2>6, <3>1 DEF TypeOK
    <2>8. /\ at'[r] = next /\ pc'[r] = "calling" /\ calls'[r] = [calls[r] EXCEPT ![m] = 1]
          /\ cands'[r] = plan /\ failures'[r] = fs /\ attempt'[r] = 0
      BY <1>3, <2>2, <2>6 DEF TypeOK
    <2>9. \A i \in 1..(next - 1) : /\ fs[i].model = plan[i]
                                   /\ fs[i].attempts = 0 <=> calls'[r][plan[i]] = 0
      <3> SUFFICES ASSUME NEW i \in 1..(next - 1)
                   PROVE  /\ fs[i].model = plan[i]
                          /\ fs[i].attempts = 0 <=> calls'[r][plan[i]] = 0
        OBVIOUS
      <3>1. plan[i] \in Model /\ i \in 1..Len(plan) /\ i # next
        BY <2>0
      <3>2. plan[i] # m
        BY <2>0, <3>1 DEF Distinct, m
      <3>3. calls'[r][plan[i]] = calls[r][plan[i]] /\ calls[r][plan[i]] \in Nat
        BY <2>5, <2>8, <3>1, <3>2
      <3>4. CASE i \in 1..(first - 1)
        <4>1. fs[i] = failed[i]
          BY <2>1, <3>4
        <4>2. failed[i].model = plan[i] /\ (failed[i].attempts = 0 <=> calls[r][plan[i]] = 0)
          BY <3>4
        <4> QED
          BY <3>3, <4>1, <4>2
      <3>5. CASE i \in first..(next - 1)
        <4>1. ~ \E j \in 1..(first - 1) : plan[j] = plan[i]
          BY <1>1, <3>1, <3>5 DEF Distinct
        <4>2. calls[r][plan[i]] = 0
          BY <3>1, <3>3, <4>1, Z3T(40)
        <4>3. fs[i] = [model |-> plan[i], attempts |-> 0]
          BY <2>1, <3>5
        <4> QED
          BY <3>3, <4>2, <4>3
      <3> QED
        BY <1>1, <3>4, <3>5
    <2>10. ASSUME NEW n \in Model
           PROVE  /\ calls'[r][n] <= MaxRetries + 1
                  /\ calls'[r][n] > 0 => \E i \in 1..next : plan[i] = n
      <3>1. CASE n = m
        <4>1. calls'[r][n] = 1
          BY <2>0, <2>5, <2>8, <3>1
        <4>2. next \in 1..next /\ plan[next] = n
          BY <2>0, <3>1 DEF m
        <4> QED
          BY <4>1, <4>2
      <3>2. CASE n # m
        <4>1. calls'[r][n] = calls[r][n]
          BY <2>5, <2>8, <3>2
        <4>2. \A i \in 1..(first - 1) : i \in 1..next
          BY <1>1, <2>0
        <4> QED
          BY <4>1, <4>2
      <3> QED
        BY <3>1, <3>2
    <2>11. calls'[r][plan[next]] = attempt'[r] + 1
      BY <2>0, <2>5, <2>8 DEF m
    <2>12. Sound(r)'
      BY <2>0, <2>1, <2>8, <2>9, <2>10, <2>11, Z3 DEF Sound, Passed, Trying, Current
    <2>13. \A q \in Req \ {r} : Sound(q) => Sound(q)'
      BY <1>3, <2>2, <2>6, SoundFrame DEF TypeOK
    <2> QED
      BY <2>4, <2>7, <2>12, <2>13
  <1> QED
    BY <1>5, <1>6, TryFromOutcomes

\* Starting a dispatch.
LEMMA StartKeeps ==
  ASSUME Inductive, NEW r \in Req, NEW m \in Model, Start(r, m)
  PROVE  Inductive'
  <1> USE DispatchAssumption
  <1> DEFINE plan == Candidates(TeamOf[r], m)
  <1>1. plan \in Seq(Model) /\ Distinct(plan) /\ \A i \in 1..Len(plan) : Usable(TeamOf[r], plan[i])
    BY CandidatesUsableOnce
  <1>2. /\ pc[r] = "new" /\ cands[r] = <<>> /\ at[r] = 0 /\ Len(failures[r]) = 0
        /\ \A n \in Model : calls[r][n] = 0
    <2>1. Sound(r) /\ calls[r] \in [Model -> Nat] /\ pc[r] = "new"
      BY DEF Inductive, TypeOK, Start
    <2>2. cands[r] = <<>> /\ at[r] = 0 /\ Len(failures[r]) = 0
      BY <2>1 DEF Sound, Passed
    <2>3. \A n \in Model : ~(calls[r][n] > 0)
      BY <2>1, <2>2 DEF Sound
    <2> QED
      BY <2>1, <2>2, <2>3
  <1>3. cands' = [cands EXCEPT ![r] = plan]
    BY DEF Start
  <1> HIDE DEF plan
  <1>4. CASE plan = <<>>
    <2>1. /\ pc' = [pc EXCEPT ![r] = "failed"]
          /\ UNCHANGED <<entry, at, attempt, failures, kind, probes, forgotten, calls>>
      BY <1>4 DEF Start, plan
    <2>2. TypeOK'
      BY <1>1, <1>3, <2>1 DEF Inductive, TypeOK
    <2>3. Sound(r)'
      <3>1. /\ pc'[r] = "failed" /\ cands'[r] = <<>> /\ at'[r] = 0 /\ Len(failures'[r]) = 0
            /\ \A n \in Model : calls'[r][n] = 0
        BY <1>2, <1>3, <1>4, <2>1 DEF Inductive, TypeOK
      <3> QED
        BY <3>1 DEF Sound, Passed, Trying, Distinct
    <2>4. \A q \in Req \ {r} : Sound(q)'
      BY <1>3, <2>1, SoundFrame DEF Inductive, TypeOK
    <2> QED
      BY <2>1, <2>2, <2>3, <2>4 DEF Inductive, HistoryOfHalfOpen
  <1>5. CASE plan # <<>>
    <2>1. TryFrom(r, plan, 1, entry, <<>>)
      BY <1>5 DEF Start, plan
    <2>2. /\ TypeOK /\ entry \in [Model -> Entry] /\ 1 \in 1..(Len(plan) + 1)
          /\ <<>> \in Seq(Failure) /\ Len(<<>>) = 1 - 1
      BY <1>1 DEF Inductive, TypeOK
    <2>3. \A n \in Model : /\ calls[r][n] <= MaxRetries + 1
                           /\ calls[r][n] > 0 => \E i \in 1..(1 - 1) : plan[i] = n
      <3>1. 0 <= MaxRetries + 1 /\ ~(0 > 0)
        OBVIOUS
      <3> QED
        BY <1>2, <3>1
    <2>4. \A i \in 1..(1 - 1) : /\ <<>>[i].model = plan[i]
                                /\ <<>>[i].attempts = 0 <=> calls[r][plan[i]] = 0
      <3>1. 1..(1 - 1) = {}
        OBVIOUS
      <3> QED
        BY <3>1
    <2>5. /\ TypeOK' /\ Sound(r)' /\ HistoryOfHalfOpen'
          /\ \A q \in Req \ {r} : Sound(q) => Sound(q)'
      BY <1>1, <1>3, <2>1, <2>2, <2>3, <2>4, LoopKeeps
    <2> QED
      BY <2>5 DEF Inductive
  <1> QED
    BY <1>4, <1>5

\* Moving on from a candidate that failed.
LEMMA GiveUpKeeps ==
  ASSUME Inductive, NEW r \in Req, pc[r] = "calling", NEW reported \in 1..(MaxRetries + 1),
         GiveUp(r, reported)
  PROVE  Inductive'
  <1> USE DispatchAssumption
  <1> DEFINE plan == cands[r]
             first == at[r] + 1
             e == AfterOutcome(r, FALSE)
             last == [model |-> Current(r), attempts |-> reported]
             failed == Append(failures[r], last)
  <1>1. /\ TypeOK /\ Sound(r) /\ plan \in Seq(Model) /\ failures[r] \in Seq(Failure)
        /\ calls[r] \in [Model -> Nat] /\ attempt[r] \in 0..MaxRetries
        /\ cands' = [cands EXCEPT ![r] = plan]
    BY DEF Inductive, TypeOK, GiveUp
  <1>2. /\ Distinct(plan) /\ \A i \in 1..Len(plan) : Usable(TeamOf[r], plan[i])
        /\ at[r] \in 1..Len(plan) /\ Len(failures[r]) = at[r] - 1
        /\ calls[r][plan[at[r]]] = attempt[r] + 1
    BY <1>1 DEF Sound, Passed, Trying, Current
  <1>3. first \in 1..(Len(plan) + 1) /\ Current(r) \in Model
    <2>1. Len(plan) \in Nat /\ plan[at[r]] \in Model
      BY <1>1, <1>2
    <2> QED
      BY <1>2, <2>1 DEF Current
  <1>4. e \in [Model -> Entry]
    BY <1>1, <1>3, EntryType DEF TypeOK, AfterOutcome
  <1>5. last \in Failure
    BY <1>3 DEF Failure
  <1>6. /\ failed \in Seq(Failure) /\ Len(failed) = first - 1 /\ failed[at[r]] = last
        /\ \A i \in 1..(at[r] - 1) : failed[i] = failures[r][i]
    <2>1. at[r] \in Nat /\ Len(failures[r]) + 1 = at[r]
      BY <1>2
    <2> DEFINE fs == failures[r]
    <2> HIDE DEF last, fs
    <2>2. fs \in Seq(Failure) /\ Len(fs) + 1 = at[r] /\ failed = Append(fs, last)
      BY <1>1, <2>1 DEF fs
    <2> HIDE DEF failed
    <2>3. /\ failed \in Seq(Failure) /\ Len(failed) = Len(fs) + 1 /\ failed[Len(fs) + 1] = last
          /\ \A i \in 1..Len(fs) : failed[i] = fs[i]
      BY <1>5, <2>2
    <2> QED
      BY <2>1, <2>2, <2>3 DEF fs
  <1>7. ASSUME NEW i \in 1..(first - 1)
        PROVE  failed[i].model = plan[i] /\ (failed[i].attempts = 0 <=> calls[r][plan[i]] = 0)
    <2>1. CASE i = at[r]
      <3>1. failed[i].model = plan[i] /\ failed[i].attempts = reported
        BY <1>6, <2>1 DEF Current
      <3>2. reported # 0 /\ attempt[r] + 1 # 0
        BY <1>1
      <3>3. calls[r][plan[i]] # 0
        BY <1>2, <2>1, <3>2
      <3> QED
        BY <3>1, <3>2, <3>3
    <2>2. CASE i \in 1..(at[r] - 1)
      <3>1. failed[i] = failures[r][i]
        BY <1>6, <2>2
      <3>2. /\ failures[r][i].model = cands[r][i]
            /\ failures[r][i].attempts = 0 <=> calls[r][cands[r][i]] = 0
        BY <1>1, <2>2 DEF Sound, Passed
      <3> QED
        BY <3>1, <3>2
    <2> QED
      BY <1>2, <2>1, <2>2
  <1>8. \A n \in Model : /\ calls[r][n] <= MaxRetries + 1
                         /\ calls[r][n] > 0 => \E i \in 1..(first - 1) : plan[i] = n
    <2>1. first - 1 = at[r]
      BY <1>2
    <2> QED
      BY <1>1, <2>1 DEF Sound
  <1>9. TryFrom(r, plan, first, e, failed)
    BY DEF GiveUp
  <1> HIDE DEF plan, first, e, failed, last
  <1>10. /\ TypeOK' /\ Sound(r)' /\ HistoryOfHalfOpen'
         /\ \A q \in Req \ {r} : Sound(q) => Sound(q)'
    BY <1>1, <1>2, <1>3, <1>4, <1>6, <1>7, <1>8, <1>9, LoopKeeps, ZenonT(60)
  <1> QED
    BY <1>10 DEF Inductive

\* A call that ends the dispatch, with an answer or with an exception.
LEMMA EndKeeps ==
  ASSUME Inductive, NEW r \in Req, CallSucceeds(r) \/ CallEscapes(r)
  PROVE  Inductive'
  <1>1. /\ TypeOK /\ Sound(r) /\ pc[r] = "calling" /\ at[r] \in 1..Len(cands[r])
        /\ cands[r] \in Seq(Model)
    BY DEF Inductive, TypeOK, Sound, CallSucceeds, CallEscapes
  <1>2. Current(r) \in Model
    BY <1>1 DEF Current
  <1>3. PICK s \in {"served", "crashed"} : pc' = [pc EXCEPT ![r] = s]
    BY DEF CallSucceeds, CallEscapes
  <1>4. /\ UNCHANGED <<cands, at, attempt, failures, calls>>
        /\ kind' = [kind EXCEPT ![r] = "plain"]
    BY DEF CallSucceeds, CallEscapes
  <1>5. /\ entry' \in [Model -> Entry] /\ probes' \in [Model -> Nat]
        /\ forgotten' \in [Model -> BOOLEAN] /\ HistoryOfHalfOpen'
    <2>1. CASE CallSucceeds(r)
      <3>1. entry' \in [Model -> Entry]
        BY <1>1, <1>2, <2>1, EntryType DEF CallSucceeds, AfterOutcome, TypeOK
      <3>2. HistoryAfter(entry', {})
        BY <2>1 DEF CallSucceeds
      <3>3. probes' \in [Model -> Nat] /\ forgotten' \in [Model -> BOOLEAN]
        BY <1>1, <3>2 DEF HistoryAfter, TypeOK
      <3> QED
        BY <3>1, <3>2, <3>3 DEF HistoryAfter, HistoryOfHalfOpen
    <2>2. CASE CallEscapes(r)
      <3>1. entry' = entry /\ probes' = probes
        BY <2>2 DEF CallEscapes
      <3>2. forgotten' = [forgotten EXCEPT ![Current(r)] =
               @ \/ (kind[r] = "trial" /\ entry[Current(r)].state = "HALF_OPEN")]
        BY <2>2 DEF CallEscapes
      <3>3. forgotten' \in [Model -> BOOLEAN]
        BY <1>1, <1>2, <3>2 DEF TypeOK
      <3>4. ASSUME NEW m \in Model, entry[m].state # "HALF_OPEN" PROVE probes[m] = 0 /\ ~forgotten'[m]
        BY <1>1, <1>2, <3>2, <3>4 DEF TypeOK, Inductive, HistoryOfHalfOpen
      <3> QED
        BY <1>1, <3>1, <3>3, <3>4 DEF TypeOK, HistoryOfHalfOpen
    <2> QED
      BY <2>1, <2>2
  <1>6. TypeOK'
    BY <1>1, <1>3, <1>4, <1>5 DEF TypeOK
  <1>7. Sound(r)'
    <2>1. pc'[r] = s /\ cands'[r] = cands[r] /\ at'[r] = at[r] /\ failures'[r] = failures[r]
          /\ calls'[r] = calls[r]
      BY <1>1, <1>3, <1>4 DEF TypeOK
    <2> QED
      BY <1>1, <2>1 DEF Sound, Passed, Trying
  <1>8. \A q \in Req \ {r} : Sound(q)'
    BY <1>1, <1>3, <1>4, SoundFrame DEF Inductive, TypeOK
  <1> QED
    BY <1>5, <1>6, <1>7, <1>8 DEF Inductive

\* Going to sleep and calling again.
LEMMA RetryKeeps ==
  ASSUME Inductive, NEW r \in Req, CallFails(r) \/ Retry(r)
  PROVE  Inductive'
  <1> USE DispatchAssumption
  <1>1. /\ TypeOK /\ Sound(r) /\ Trying(r) /\ at[r] \in 1..Len(cands[r])
        /\ cands[r] \in Seq(Model) /\ attempt[r] \in 0..MaxRetries
        /\ calls[r] \in [Model -> Nat] /\ calls[r][Current(r)] = attempt[r] + 1
    BY DEF Inductive, TypeOK, Sound, CallFails, Retry, Trying
  <1>2. UNCHANGED <<entry, cands, at, failures, kind, probes, forgotten>>
    BY DEF CallFails, Retry
  <1>3. CASE CallFails(r)
    <2>1. pc' = [pc EXCEPT ![r] = "backoff"] /\ attempt' = attempt /\ calls' = calls
          /\ pc[r] = "calling" /\ attempt[r] < MaxRetries
      BY <1>3 DEF CallFails
    <2>2. TypeOK'
      BY <1>1, <1>2, <2>1 DEF TypeOK
    <2>3. Sound(r)'
      <3>1. pc'[r] = "backoff"
        BY <1>1, <2>1 DEF TypeOK
      <3> QED
        BY <1>1, <1>2, <2>1, <3>1 DEF Sound, Passed, Trying, Current
    <2>4. \A q \in Req \ {r} : Sound(q)'
      BY <1>1, <1>2, <2>1, SoundFrame DEF Inductive, TypeOK
    <2> QED
      BY <1>2, <2>2, <2>3, <2>4 DEF Inductive, HistoryOfHalfOpen
  <1>4. CASE Retry(r)
    <2> DEFINE m == Current(r)
               n == attempt[r] + 1
    <2>1. /\ pc' = [pc EXCEPT ![r] = "calling"] /\ pc[r] = "backoff"
          /\ attempt' = [attempt EXCEPT ![r] = n]
          /\ calls' = [calls EXCEPT ![r][m] = CountUp(@)]
      BY <1>4 DEF Retry
    <2>2. n \in 0..MaxRetries /\ CountUp(calls[r][m]) = n + 1 /\ m \in Model
      <3>1. attempt[r] < MaxRetries
        BY <1>1, <2>1 DEF Sound
      <3> QED
        BY <1>1, <3>1 DEF CountUp, Current
    <2>3. calls' = [calls EXCEPT ![r] = [calls[r] EXCEPT ![m] = n + 1]]
      BY <1>1, <2>1, <2>2 DEF TypeOK
    <2> HIDE DEF m, n
    <2>4. TypeOK'
      <3>1. calls' \in [Req -> [Model -> Nat]] /\ attempt' \in [Req -> 0..MaxRetries]
        <4>1. calls \in [Req -> [Model -> Nat]] /\ attempt \in [Req -> 0..MaxRetries]
          BY <1>1 DEF TypeOK
        <4>2. n + 1 \in Nat /\ [calls[r] EXCEPT ![m] = n + 1] \in [Model -> Nat]
          BY <1>1, <2>2
        <4> QED
          BY <2>1, <2>2, <2>3, <4>1, <4>2
      <3> QED
        BY <1>1, <1>2, <2>1, <3>1 DEF TypeOK
    <2>5. /\ pc'[r] = "calling" /\ attempt'[r] = n /\ calls'[r] = [calls[r] EXCEPT ![m] = n + 1]
          /\ cands'[r] = cands[r] /\ at'[r] = at[r] /\ failures'[r] = failures[r]
      BY <1>1, <1>2, <2>1, <2>3 DEF TypeOK
    <2>6. cands[r][at[r]] = m /\ calls[r][m] = n
      BY <1>1 DEF m, n, Current
    <2>7. \A c \in Model : /\ calls'[r][c] > 0 <=> calls[r][c] > 0
                           /\ calls'[r][c] = 0 <=> calls[r][c] = 0
                           /\ calls'[r][c] <= MaxRetries + 1
      <3>1. n + 1 > 0 /\ n + 1 <= MaxRetries + 1 /\ n > 0
        BY <1>1, <2>2 DEF n
      <3>2. \A c \in Model : calls[r][c] <= MaxRetries + 1
        BY <1>1 DEF Sound
      <3> QED
        BY <1>1, <2>2, <2>5, <2>6, <3>1, <3>2
    <2>8. Passed(r)' = Passed(r) /\ Passed(r) = at[r] - 1
      BY <2>1, <2>5 DEF Passed
    <2>9. \A i \in 1..Passed(r) : cands[r][i] \in Model
      BY <1>1, <2>8
    <2>10. Current(r)' = m /\ calls'[r][m] = attempt'[r] + 1
      BY <1>1, <2>2, <2>5, <2>6 DEF Current
    <2>11. Sound(r)'
      <3>1. \A i \in 1..Passed(r) : /\ failures[r][i].model = cands[r][i]
                                    /\ failures[r][i].attempts = 0 <=> calls'[r][cands[r][i]] = 0
        BY <1>1, <2>7, <2>9 DEF Sound
      <3>2. \A c \in Model : /\ calls'[r][c] <= MaxRetries + 1
                             /\ calls'[r][c] > 0 => \E i \in 1..at[r] : cands[r][i] = c
        BY <1>1, <2>7 DEF Sound
      <3> QED
        BY <1>1, <2>5, <2>8, <2>10, <3>1, <3>2 DEF Sound
    <2>12. \A q \in Req \ {r} : Sound(q)'
      BY <1>1, <1>2, <2>1, <2>3, SoundFrame DEF Inductive, TypeOK
    <2> QED
      BY <1>2, <2>4, <2>11, <2>12 DEF Inductive, HistoryOfHalfOpen
  <1> QED
    BY <1>3, <1>4

\* The clock does not change the state of a circuit.
LEMMA TickKeeps ==
  ASSUME Inductive, Tick
  PROVE  Inductive'
  <1>1. /\ entry' = [m \in Model |-> Older(entry[m])]
        /\ UNCHANGED <<pc, cands, at, attempt, failures, kind, calls, probes, forgotten>>
    BY DEF Tick, request
  <1>2. entry \in [Model -> Entry]
    BY DEF Inductive, TypeOK
  <1>3. TypeOK'
    BY <1>1, <1>2, EntryType DEF Inductive, TypeOK
  <1>4. \A r \in Req : Sound(r)'
    BY <1>1, SoundFrame DEF Inductive
  <1>5. \A m \in Model : entry'[m].state = entry[m].state
    BY <1>1, <1>2 DEF Older, Entry
  <1>6. HistoryOfHalfOpen'
    BY <1>1, <1>5 DEF Inductive, HistoryOfHalfOpen
  <1> QED
    BY <1>3, <1>4, <1>6 DEF Inductive

LEMMA InitInductive == Init => Inductive
  <1> USE BreakerAssumption, DispatchAssumption
  <1> SUFFICES ASSUME Init PROVE Inductive
    OBVIOUS
  <1>1. FreshEntry \in Entry
    BY DEF FreshEntry, Entry, CircuitState
  <1>2. TypeOK
    BY <1>1 DEF Init, TypeOK
  <1>3. ASSUME NEW r \in Req PROVE Sound(r)
    <2>1. pc[r] = "new" /\ cands[r] = <<>> /\ at[r] = 0 /\ failures[r] = <<>>
      BY DEF Init
    <2>2. \A m \in Model : calls[r][m] = 0
      BY DEF Init
    <2> QED
      BY <2>1, <2>2 DEF Sound, Passed, Trying, Distinct
  <1>4. HistoryOfHalfOpen
    BY DEF Init, HistoryOfHalfOpen
  <1> QED
    BY <1>2, <1>3, <1>4 DEF Inductive

LEMMA NextInductive == Inductive /\ [Next]_vars => Inductive'
  <1> SUFFICES ASSUME Inductive, [Next]_vars PROVE Inductive'
    OBVIOUS
  <1>1. ASSUME NEW r \in Req, NEW m \in Model, Start(r, m) PROVE Inductive'
    BY <1>1, StartKeeps
  <1>2. ASSUME NEW r \in Req, CallSucceeds(r) \/ CallEscapes(r) PROVE Inductive'
    BY <1>2, EndKeeps
  <1>3. ASSUME NEW r \in Req, CallFails(r) \/ Retry(r) PROVE Inductive'
    BY <1>3, RetryKeeps
  <1>4. ASSUME NEW r \in Req, CallExhausted(r) PROVE Inductive'
    <2>1. attempt[r] + 1 \in 1..(MaxRetries + 1)
      BY DispatchAssumption DEF Inductive, TypeOK
    <2> QED
      BY <1>4, <2>1, GiveUpKeeps DEF CallExhausted
  <1>5. ASSUME NEW r \in Req, CallRefused(r) PROVE Inductive'
    <2>1. 1 \in 1..(MaxRetries + 1)
      BY DispatchAssumption
    <2> QED
      BY <1>5, <2>1, GiveUpKeeps DEF CallRefused
  <1>6. CASE Tick
    BY <1>6, TickKeeps
  <1>7. CASE Done \/ UNCHANGED vars
    <2>1. UNCHANGED <<entry, pc, cands, at, attempt, failures, kind, calls, probes, forgotten>>
      BY <1>7 DEF Done, vars
    <2>2. TypeOK' /\ HistoryOfHalfOpen'
      BY <2>1 DEF Inductive, TypeOK, HistoryOfHalfOpen
    <2>3. \A r \in Req : Sound(r)'
      BY <2>1, SoundFrame DEF Inductive
    <2> QED
      BY <2>2, <2>3 DEF Inductive
  <1> QED
    BY <1>1, <1>2, <1>3, <1>4, <1>5, <1>6, <1>7 DEF Next

THEOREM InductiveHolds == Spec => []Inductive
  BY InitInductive, NextInductive, PTL DEF Spec

\* Every variable keeps its shape.
THEOREM TypeCorrect == Spec => []TypeOK
  <1>1. Inductive => TypeOK
    BY DEF Inductive
  <1> QED
    BY <1>1, InductiveHolds, PTL

\* The retry budget and the authorization hold per model, on whatever way through
\* the candidates.
THEOREM CallBudgetHolds == Spec => []CallBudget
  <1>1. Inductive => CallBudget
    <2> SUFFICES ASSUME Inductive, NEW r \in Req, NEW m \in Model
                 PROVE  /\ calls[r][m] <= MaxRetries + 1
                        /\ calls[r][m] > 0 => Usable(TeamOf[r], m)
      BY DEF CallBudget
    <2>1. Sound(r) /\ cands[r] \in Seq(Model) /\ at[r] \in Nat
      BY DEF Inductive, TypeOK
    <2>2. at[r] <= Len(cands[r])
      BY <2>1 DEF Inductive, TypeOK, Sound
    <2>3. ASSUME calls[r][m] > 0 PROVE Usable(TeamOf[r], m)
      <3>1. PICK i \in 1..at[r] : cands[r][i] = m
        BY <2>1, <2>3 DEF Sound
      <3>2. i \in 1..Len(cands[r])
        BY <2>1, <2>2
      <3> QED
        BY <2>1, <3>1, <3>2 DEF Sound
    <2> QED
      BY <2>1, <2>3 DEF Sound
  <1> QED
    BY <1>1, InductiveHolds, PTL

\* The failures a client is shown are those of the candidates before the current
\* one, each once and in order.
THEOREM FailuresAccountForCandidatesHolds == Spec => []FailuresAccountForCandidates
  <1>1. Inductive => FailuresAccountForCandidates
    <2> SUFFICES ASSUME Inductive, NEW r \in Req
                 PROVE  /\ Len(failures[r]) = Passed(r)
                        /\ \A i \in 1..Passed(r) :
                              /\ failures[r][i].model = cands[r][i]
                              /\ failures[r][i].attempts = 0 <=> calls[r][cands[r][i]] = 0
                        /\ \A i \in (Passed(r) + 1)..Len(cands[r]) :
                              calls[r][cands[r][i]] > 0 => i = at[r] /\ pc[r] # "failed"
      BY DEF FailuresAccountForCandidates, Passed
    <2>1. Sound(r) /\ cands[r] \in Seq(Model) /\ at[r] \in Nat
      BY DEF Inductive, TypeOK
    <2>2. ASSUME NEW i \in (Passed(r) + 1)..Len(cands[r]), calls[r][cands[r][i]] > 0
          PROVE  i = at[r] /\ pc[r] # "failed"
      <3>1. Len(cands[r]) \in Nat /\ Passed(r) \in Nat /\ at[r] <= Len(cands[r])
        BY <2>1 DEF Inductive, TypeOK, Sound, Passed
      <3>2. i \in 1..Len(cands[r]) /\ cands[r][i] \in Model
        BY <2>1, <3>1
      <3>3. PICK j \in 1..at[r] : cands[r][j] = cands[r][i]
        BY <2>1, <2>2, <3>2 DEF Sound
      <3>4. i = j
        BY <2>1, <3>1, <3>2, <3>3 DEF Sound, Distinct
      <3>5. i <= at[r] /\ i > Passed(r) /\ pc[r] # "new"
        BY <2>1, <3>1, <3>4 DEF Sound
      <3> QED
        BY <2>1, <3>1, <3>5 DEF Passed, Sound
    <2> QED
      BY <2>1, <2>2 DEF Sound
  <1> QED
    BY <1>1, InductiveHolds, PTL

-----------------------------------------------------------------------------
(* The requests are callers of each breaker. *)

\* The requests as module CircuitBreaker sees them from model m.
CallOf(m) == [q \in Req |-> IF Trying(q) /\ Current(q) = m THEN kind[q] ELSE "idle"]

\* The operators on entries are the same on both sides.
LEMMA SameOperators ==
  ASSUME NEW m, NEW e
  PROVE  /\ Breaker(m)!Admits(e) <=> Admits(e)
         /\ Breaker(m)!Checked(e) = Checked(e)
         /\ Breaker(m)!Older(e) = Older(e)
         /\ Breaker(m)!Recorded(e, TRUE) = Recorded(e, TRUE)
         /\ Breaker(m)!Recorded(e, FALSE) = Recorded(e, FALSE)
         /\ Breaker(m)!FreshEntry = FreshEntry
  <1>1. Breaker(m)!Cooling(e) <=> Cooling(e)
    BY DEF Breaker!Cooling, Cooling
  <1>2. /\ Breaker(m)!OneMoreFailure(e) = OneMoreFailure(e)
        /\ Breaker(m)!SlotReturned(e) = SlotReturned(e)
    BY DEF Breaker!OneMoreFailure, OneMoreFailure, Breaker!SlotReturned, SlotReturned
  <1>3. Breaker(m)!Admits(e) <=> Admits(e)
    BY <1>1 DEF Breaker!Admits, Admits
  <1>4. Breaker(m)!Checked(e) = Checked(e)
    BY <1>1 DEF Breaker!Checked, Checked
  <1>5. Breaker(m)!Older(e) = Older(e) /\ Breaker(m)!FreshEntry = FreshEntry
    BY DEF Breaker!Older, Older, Breaker!FreshEntry, FreshEntry
  <1>6. Breaker(m)!Trips(e) <=> Trips(e)
    BY <1>2 DEF Breaker!Trips, Trips
  <1>7. ASSUME NEW success
        PROVE  Breaker(m)!Recorded(e, success) = Recorded(e, success)
    BY <1>2, <1>6 DEF Breaker!Recorded, Recorded, Breaker!TrialRecorded, TrialRecorded,
                      Breaker!CallRecorded, CallRecorded
  <1> QED
    BY <1>3, <1>4, <1>5, <1>7

\* What it takes to be each of the steps of CircuitBreaker.
LEMMA AdmitStep ==
  ASSUME NEW m \in Model, NEW r \in Req, CallOf(m)[r] = "idle", Admits(entry[m]),
         entry'[m] = Checked(entry[m]),
         CallOf(m)' = [CallOf(m) EXCEPT ![r] = IF entry'[m].state = "HALF_OPEN"
                                               THEN "trial" ELSE "plain"],
         probes'[m] = (IF entry'[m].state = "HALF_OPEN" THEN probes[m] + 1 ELSE probes[m]),
         forgotten'[m] = forgotten[m]
  PROVE  Breaker(m)!Next
  <1>1. Breaker(m)!Admits(entry[m]) /\ entry'[m] = Breaker(m)!Checked(entry[m])
    BY SameOperators
  <1>2. Breaker(m)!Admit(r)
    BY <1>1 DEF Breaker!Admit, CallOf
  <1> QED
    BY <1>2 DEF Breaker!Next

LEMMA RejectStep ==
  ASSUME NEW m \in Model, NEW r \in Req, CallOf(m)[r] = "idle", ~Admits(entry[m]),
         entry'[m] = Checked(entry[m]), CallOf(m)' = CallOf(m),
         probes'[m] = probes[m], forgotten'[m] = forgotten[m]
  PROVE  Breaker(m)!Next
  <1>1. ~Breaker(m)!Admits(entry[m]) /\ entry'[m] = Breaker(m)!Checked(entry[m])
    BY SameOperators
  <1>2. Breaker(m)!Reject(r)
    BY <1>1 DEF Breaker!Reject, CallOf
  <1> QED
    BY <1>2 DEF Breaker!Next

LEMMA RecordStep ==
  ASSUME NEW m \in Model, NEW r \in Req, NEW success \in BOOLEAN, CallOf(m)[r] # "idle",
         entry'[m] = Recorded(entry[m], success),
         CallOf(m)' = [CallOf(m) EXCEPT ![r] = "idle"],
         probes'[m] = (IF entry'[m].state = "HALF_OPEN" THEN probes[m] ELSE 0),
         forgotten'[m] = (forgotten[m] /\ entry'[m].state = "HALF_OPEN")
  PROVE  Breaker(m)!Next
  <1>1. entry'[m] = Breaker(m)!Recorded(entry[m], success)
    BY SameOperators, ZenonT(60)
  <1>2. Breaker(m)!Record(r, success)
    BY <1>1 DEF Breaker!Record, CallOf
  <1> QED
    BY <1>2 DEF Breaker!Next

LEMMA EscapeStep ==
  ASSUME NEW m \in Model, NEW r \in Req, r \in Escaping, CallOf(m)[r] # "idle",
         entry'[m] = entry[m],
         CallOf(m)' = [CallOf(m) EXCEPT ![r] = "idle"],
         probes'[m] = probes[m],
         forgotten'[m] = (forgotten[m] \/ (CallOf(m)[r] = "trial" /\ entry[m].state = "HALF_OPEN"))
  PROVE  Breaker(m)!Next
  <1>1. Breaker(m)!Escape(r)
    BY DEF Breaker!Escape, CallOf
  <1> QED
    BY <1>1 DEF Breaker!Next

LEMMA TickStep ==
  ASSUME NEW m \in Model, entry[m].elapsed < Cooldown, entry'[m] = Older(entry[m]),
         CallOf(m)' = CallOf(m), probes'[m] = probes[m], forgotten'[m] = forgotten[m]
  PROVE  Breaker(m)!Next
  <1>1. entry'[m] = Breaker(m)!Older(entry[m])
    BY SameOperators
  <1>2. Breaker(m)!Tick
    BY <1>1 DEF Breaker!Tick, CallOf
  <1> QED
    BY <1>2 DEF Breaker!Next

LEMMA NoStep ==
  ASSUME NEW m \in Model, entry'[m] = entry[m], CallOf(m)' = CallOf(m),
         probes'[m] = probes[m], forgotten'[m] = forgotten[m]
  PROVE  UNCHANGED Breaker(m)!vars
  BY DEF Breaker!vars, CallOf

\* How the view of m changes when only r moves.
LEMMA OnlyOneMoves ==
  ASSUME TypeOK, NEW m \in Model, NEW r \in Req,
         \A q \in Req \ {r} : /\ pc'[q] = pc[q] /\ cands'[q] = cands[q] /\ at'[q] = at[q]
                              /\ kind'[q] = kind[q]
  PROVE  CallOf(m)' = [CallOf(m) EXCEPT ![r] = CallOf(m)'[r]]
  <1>1. \A q \in Req \ {r} : CallOf(m)'[q] = CallOf(m)[q]
    BY DEF CallOf, Trying, Current
  <1>2. /\ CallOf(m)' = [q \in Req |-> CallOf(m)'[q]]
        /\ CallOf(m) = [q \in Req |-> CallOf(m)[q]]
    BY DEF CallOf
  <1> HIDE DEF CallOf
  <1> QED
    BY <1>1, <1>2

\* The loop, as a model sees it that r was not calling before: r asks its breaker
\* and is admitted or rejected, or r passes it by.
LEMMA LoopRefines ==
  ASSUME TypeOK, HistoryOfHalfOpen, NEW m \in Model, NEW r \in Req,
         NEW plan \in Seq(Model), Distinct(plan), NEW first \in 1..(Len(plan) + 1),
         NEW e, NEW failed, TryFrom(r, plan, first, e, failed),
         cands' = [cands EXCEPT ![r] = plan],
         e[m] = entry[m], CallOf(m)[r] = "idle"
  PROVE  Breaker(m)!Next \/ UNCHANGED Breaker(m)!vars
  <1>1. Len(plan) \in Nat /\ first \in Nat /\ first >= 1 /\ entry[m] \in Entry
    BY DEF TypeOK
  <1>2. \/ Checked(entry[m]) = entry[m]
        \/ Checked(entry[m]).state = "HALF_OPEN"
    BY <1>1 DEF Checked, Entry
  <1>3. ASSUME NEW admitted, HistoryAfter(entry', admitted), m \notin admitted,
               entry'[m] \in {entry[m], Checked(entry[m])}
        PROVE  probes'[m] = probes[m] /\ forgotten'[m] = forgotten[m]
    <2>1. /\ probes'[m] = (IF entry'[m].state # "HALF_OPEN" THEN 0 ELSE probes[m])
          /\ forgotten'[m] = (forgotten[m] /\ entry'[m].state = "HALF_OPEN")
          /\ forgotten[m] \in BOOLEAN
      BY <1>3 DEF HistoryAfter, TypeOK
    <2>2. entry[m].state # "HALF_OPEN" => probes[m] = 0 /\ ~forgotten[m]
      BY DEF HistoryOfHalfOpen
    <2>3. entry'[m].state # "HALF_OPEN" => entry[m].state # "HALF_OPEN"
      BY <1>2, <1>3
    <2> QED
      BY <2>1, <2>2, <2>3
  <1>4. ASSUME NEW q \in Req \ {r}, \/ RunsOut(r, plan, first, e)
                                    \/ \E next \in first..Len(plan) : Calls(r, plan, first, next, e)
        PROVE  pc'[q] = pc[q] /\ cands'[q] = cands[q] /\ at'[q] = at[q] /\ kind'[q] = kind[q]
    BY <1>4 DEF RunsOut, Calls, TypeOK
  <1>5. CASE RunsOut(r, plan, first, e)
    <2>1. pc'[r] = "failed"
      BY <1>5 DEF RunsOut, TypeOK
    <2>2. CallOf(m)'[r] = "idle"
      BY <2>1 DEF CallOf, Trying
    <2>3. CallOf(m)' = CallOf(m)
      <3>1. CallOf(m)' = [CallOf(m) EXCEPT ![r] = "idle"]
        BY <1>4, <1>5, <2>2, OnlyOneMoves
      <3> QED
        BY <3>1 DEF CallOf
    <2>4. HistoryAfter(entry', {})
      BY <1>5 DEF RunsOut
    <2>5. entry'[m] = IF m \in {plan[i] : i \in first..Len(plan)} THEN Checked(entry[m]) ELSE entry[m]
      BY <1>5 DEF RunsOut, CheckedFrom
    <2>6. probes'[m] = probes[m] /\ forgotten'[m] = forgotten[m]
      BY <1>3, <2>4, <2>5
    <2>7. CASE m \in {plan[i] : i \in first..Len(plan)}
      <3>1. ~Admits(entry[m])
        BY <1>5, <2>7 DEF RunsOut
      <3> QED
        BY <2>3, <2>5, <2>6, <2>7, <3>1, RejectStep
    <2>8. CASE m \notin {plan[i] : i \in first..Len(plan)}
      BY <2>3, <2>5, <2>6, <2>8, NoStep
    <2> QED
      BY <2>7, <2>8
  <1>6. ASSUME NEW next \in first..Len(plan), Calls(r, plan, first, next, e)
        PROVE  Breaker(m)!Next \/ UNCHANGED Breaker(m)!vars
    <2>1. /\ next \in 1..Len(plan) /\ next \in Nat
          /\ pc'[r] = "calling" /\ at'[r] = next /\ cands'[r] = plan
          /\ kind'[r] = IF entry'[plan[next]].state = "HALF_OPEN" THEN "trial" ELSE "plain"
      BY <1>1, <1>6 DEF Calls, TypeOK
    <2>2. CallOf(m)'[r] = IF plan[next] = m THEN kind'[r] ELSE "idle"
      BY <2>1 DEF CallOf, Trying, Current
    <2>3. CallOf(m)' = [CallOf(m) EXCEPT ![r] = CallOf(m)'[r]]
      BY <1>4, <1>6, OnlyOneMoves
    <2>4. HistoryAfter(entry', {plan[next]})
      BY <1>6 DEF Calls
    <2>5. entry'[m] = IF m \in {plan[i] : i \in first..next} THEN Checked(entry[m]) ELSE entry[m]
      BY <1>6 DEF Calls, CheckedFrom
    <2>6. CASE plan[next] = m
      <3>1. Admits(entry[m]) /\ entry'[m] = Checked(entry[m])
        BY <1>1, <1>6, <2>1, <2>5, <2>6 DEF Calls
      <3>2. entry[m].state # "HALF_OPEN" => probes[m] = 0 /\ ~forgotten[m]
        BY DEF HistoryOfHalfOpen
      <3>3. /\ entry[m].state = "HALF_OPEN" => entry'[m].state = "HALF_OPEN"
            /\ entry[m].state = "CLOSED" => entry'[m].state = "CLOSED"
        BY <1>1, <1>2, <3>1 DEF Checked, Entry
      <3>4. probes'[m] = (IF entry'[m].state = "HALF_OPEN" THEN probes[m] + 1 ELSE probes[m])
        BY <2>4, <2>6, <3>2, <3>3 DEF HistoryAfter
      <3>5. forgotten'[m] = forgotten[m]
        BY <2>4, <3>2, <3>3 DEF HistoryAfter, TypeOK
      <3> QED
        BY <2>1, <2>2, <2>3, <2>6, <3>1, <3>4, <3>5, AdmitStep
    <2>7. CASE plan[next] # m
      <3>1. probes'[m] = probes[m] /\ forgotten'[m] = forgotten[m]
        BY <1>3, <2>4, <2>5, <2>7
      <3>2. CallOf(m)' = CallOf(m)
        BY <2>2, <2>3, <2>7 DEF CallOf
      <3>3. CASE m \in {plan[i] : i \in first..next}
        <4>1. PICK i \in first..(next - 1) : plan[i] = m
          BY <1>1, <2>1, <2>7, <3>3
        <4>2. ~Admits(entry[m])
          BY <1>6, <4>1 DEF Calls
        <4> QED
          BY <2>5, <3>1, <3>2, <3>3, <4>2, RejectStep
      <3>4. CASE m \notin {plan[i] : i \in first..next}
        BY <2>5, <3>1, <3>2, <3>4, NoStep
      <3> QED
        BY <3>3, <3>4
    <2> QED
      BY <2>6, <2>7
  <1> QED
    BY <1>5, <1>6, TryFromOutcomes

\* A request that is not trying a candidate, or another one, is idle for m.
LEMMA IdleElsewhere ==
  ASSUME NEW m \in Model, NEW r \in Req
  PROVE  /\ CallOf(m)[r] = (IF Trying(r) /\ Current(r) = m THEN kind[r] ELSE "idle")
         /\ CallOf(m)'[r] = (IF Trying(r)' /\ Current(r)' = m THEN kind'[r] ELSE "idle")
  BY DEF CallOf

LEMMA StartRefines ==
  ASSUME Inductive, NEW m \in Model, NEW r \in Req, NEW n \in Model, Start(r, n)
  PROVE  Breaker(m)!Next \/ UNCHANGED Breaker(m)!vars
  <1> DEFINE plan == Candidates(TeamOf[r], n)
  <1>1. plan \in Seq(Model) /\ Distinct(plan)
    BY CandidatesUsableOnce, DispatchAssumption
  <1>2. TypeOK /\ HistoryOfHalfOpen /\ pc[r] = "new" /\ CallOf(m)[r] = "idle"
    BY DEF Inductive, Start, CallOf, Trying
  <1>3. cands' = [cands EXCEPT ![r] = plan]
    BY DEF Start
  <1>4. CASE plan = <<>>
    <2>1. /\ pc' = [pc EXCEPT ![r] = "failed"]
          /\ UNCHANGED <<entry, at, attempt, failures, kind, probes, forgotten, calls>>
      BY <1>4 DEF Start
    <2>2. CallOf(m)'[r] = "idle"
      BY <1>2, <2>1 DEF TypeOK, CallOf, Trying
    <2>3. CallOf(m)' = [CallOf(m) EXCEPT ![r] = "idle"]
      BY <1>2, <1>3, <2>1, <2>2, OnlyOneMoves DEF TypeOK
    <2>4. CallOf(m)' = CallOf(m)
      BY <1>2, <2>3 DEF CallOf
    <2> QED
      BY <2>1, <2>4, NoStep
  <1>5. CASE plan # <<>>
    <2>1. TryFrom(r, plan, 1, entry, <<>>)
      BY <1>5 DEF Start
    <2>2. 1 \in 1..(Len(plan) + 1)
      BY <1>1
    <2> HIDE DEF plan
    <2> QED
      BY <1>1, <1>2, <1>3, <2>1, <2>2, LoopRefines
  <1> QED
    BY <1>4, <1>5

LEMMA GiveUpRefines ==
  ASSUME Inductive, NEW m \in Model, NEW r \in Req, pc[r] = "calling", NEW reported,
         GiveUp(r, reported)
  PROVE  Breaker(m)!Next \/ UNCHANGED Breaker(m)!vars
  <1> DEFINE plan == cands[r]
             first == at[r] + 1
             e == AfterOutcome(r, FALSE)
             failed == Append(failures[r], [model |-> Current(r), attempts |-> reported])
  <1>1. /\ TypeOK /\ HistoryOfHalfOpen /\ Sound(r) /\ plan \in Seq(Model)
        /\ cands' = [cands EXCEPT ![r] = plan] /\ Distinct(plan) /\ at[r] \in 1..Len(plan)
    BY DEF Inductive, TypeOK, GiveUp, Sound
  <1>2. first \in 1..(Len(plan) + 1) /\ plan[at[r]] = Current(r) /\ Current(r) \in Model
    <2>1. Len(plan) \in Nat /\ plan[at[r]] \in Model
      BY <1>1
    <2> QED
      BY <1>1, <2>1 DEF Current
  <1>3. TryFrom(r, plan, first, e, failed)
    BY DEF GiveUp
  <1>4. CASE m # Current(r)
    <2>1. e[m] = entry[m]
      BY <1>1, <1>2, <1>4 DEF AfterOutcome, TypeOK
    <2>2. CallOf(m)[r] = "idle"
      BY <1>4, IdleElsewhere
    <2> HIDE DEF plan, first, e, failed
    <2> QED
      BY <1>1, <1>2, <1>3, <2>1, <2>2, LoopRefines
  <1>5. CASE m = Current(r)
    <2>1. e[m] = Recorded(entry[m], FALSE)
      BY <1>1, <1>5 DEF AfterOutcome, TypeOK
    <2>2. CallOf(m)[r] = kind[r] /\ kind[r] # "idle"
      BY <1>1, <1>5, IdleElsewhere DEF Trying, TypeOK
    <2>3. \A i \in first..Len(plan) : plan[i] # m
      BY <1>1, <1>2, <1>5 DEF Distinct
    <2>4. ASSUME NEW q \in Req \ {r}, \/ RunsOut(r, plan, first, e)
                                      \/ \E next \in first..Len(plan) : Calls(r, plan, first, next, e)
          PROVE  pc'[q] = pc[q] /\ cands'[q] = cands[q] /\ at'[q] = at[q] /\ kind'[q] = kind[q]
      BY <1>1, <2>4 DEF RunsOut, Calls, TypeOK
    <2>5. ASSUME RunsOut(r, plan, first, e)
          PROVE  /\ CallOf(m)'[r] = "idle" /\ entry'[m] = e[m]
                 /\ \E admitted : HistoryAfter(entry', admitted) /\ m \notin admitted
      <3>1. pc'[r] = "failed"
        BY <1>1, <2>5 DEF RunsOut, TypeOK
      <3>2. CallOf(m)'[r] = "idle"
        BY <3>1 DEF CallOf, Trying
      <3>3. entry'[m] = e[m]
        BY <2>3, <2>5 DEF RunsOut, CheckedFrom
      <3>4. HistoryAfter(entry', {}) /\ m \notin {}
        BY <2>5 DEF RunsOut
      <3> QED
        BY <3>2, <3>3, <3>4
    <2>6. ASSUME NEW next \in first..Len(plan), Calls(r, plan, first, next, e)
          PROVE  /\ CallOf(m)'[r] = "idle" /\ entry'[m] = e[m]
                 /\ \E admitted : HistoryAfter(entry', admitted) /\ m \notin admitted
      <3>1. at'[r] = next /\ cands'[r] = plan /\ plan[next] # m
        BY <1>1, <2>3, <2>6 DEF Calls, TypeOK
      <3>2. CallOf(m)'[r] = "idle"
        BY <3>1 DEF CallOf, Current
      <3>3. \A i \in first..next : plan[i] # m
        BY <1>1, <1>2, <2>3
      <3>4. entry'[m] = e[m]
        BY <2>6, <3>3 DEF Calls, CheckedFrom
      <3>5. HistoryAfter(entry', {plan[next]})
        BY <2>6 DEF Calls
      <3> QED
        BY <3>1, <3>2, <3>4, <3>5
    <2> HIDE DEF plan, first, e, failed
    <2>7. \/ RunsOut(r, plan, first, e)
          \/ \E next \in first..Len(plan) : Calls(r, plan, first, next, e)
      BY <1>1, <1>2, <1>3, TryFromOutcomes
    <2>8. /\ CallOf(m)'[r] = "idle" /\ entry'[m] = Recorded(entry[m], FALSE)
          /\ \E admitted : HistoryAfter(entry', admitted) /\ m \notin admitted
      BY <2>1, <2>5, <2>6, <2>7
    <2>9. CallOf(m)' = [CallOf(m) EXCEPT ![r] = "idle"]
      BY <1>1, <2>4, <2>7, <2>8, OnlyOneMoves
    <2>10. /\ probes'[m] = (IF entry'[m].state = "HALF_OPEN" THEN probes[m] ELSE 0)
           /\ forgotten'[m] = (forgotten[m] /\ entry'[m].state = "HALF_OPEN")
      BY <2>8 DEF HistoryAfter
    <2> QED
      BY <2>2, <2>8, <2>9, <2>10, RecordStep
  <1> QED
    BY <1>4, <1>5

LEMMA EndRefines ==
  ASSUME Inductive, NEW m \in Model, NEW r \in Req, CallSucceeds(r) \/ CallEscapes(r)
  PROVE  Breaker(m)!Next \/ UNCHANGED Breaker(m)!vars
  <1>1. /\ TypeOK /\ HistoryOfHalfOpen /\ Sound(r) /\ pc[r] = "calling"
        /\ cands[r] \in Seq(Model) /\ at[r] \in 1..Len(cands[r])
    BY DEF Inductive, TypeOK, Sound, CallSucceeds, CallEscapes
  <1>2. Current(r) \in Model
    BY <1>1 DEF Current
  <1>3. PICK s \in {"served", "crashed"} : pc' = [pc EXCEPT ![r] = s]
    BY DEF CallSucceeds, CallEscapes
  <1>4. UNCHANGED <<cands, at>> /\ kind' = [kind EXCEPT ![r] = "plain"]
    BY DEF CallSucceeds, CallEscapes
  <1>5. CallOf(m)' = [CallOf(m) EXCEPT ![r] = "idle"]
    <2>1. CallOf(m)'[r] = "idle"
      BY <1>1, <1>3 DEF CallOf, Trying, TypeOK
    <2> QED
      BY <1>1, <1>3, <1>4, <2>1, OnlyOneMoves DEF TypeOK
  <1>6. CASE m # Current(r)
    <2>1. CallOf(m)' = CallOf(m)
      BY <1>5, <1>6 DEF CallOf
    <2>2. entry'[m] = entry[m]
      BY <1>1, <1>2, <1>6 DEF CallSucceeds, CallEscapes, AfterOutcome, TypeOK
    <2>3. probes'[m] = probes[m] /\ forgotten'[m] = forgotten[m]
      <3>1. CASE CallSucceeds(r)
        BY <1>1, <2>2, <3>1 DEF CallSucceeds, HistoryAfter, HistoryOfHalfOpen, TypeOK
      <3>2. CASE CallEscapes(r)
        BY <1>1, <1>2, <1>6, <3>2 DEF CallEscapes, TypeOK
      <3> QED
        BY <3>1, <3>2
    <2> QED
      BY <2>1, <2>2, <2>3, NoStep
  <1>7. CASE m = Current(r)
    <2>1. CallOf(m)[r] = kind[r] /\ kind[r] # "idle"
      BY <1>1, <1>7, IdleElsewhere DEF Trying, TypeOK
    <2>2. CASE CallSucceeds(r)
      <3>1. entry'[m] = Recorded(entry[m], TRUE)
        BY <1>1, <1>7, <2>2 DEF CallSucceeds, AfterOutcome, TypeOK
      <3>2. /\ probes'[m] = (IF entry'[m].state = "HALF_OPEN" THEN probes[m] ELSE 0)
            /\ forgotten'[m] = (forgotten[m] /\ entry'[m].state = "HALF_OPEN")
        BY <2>2 DEF CallSucceeds, HistoryAfter
      <3> QED
        BY <1>5, <2>1, <3>1, <3>2, RecordStep
    <2>3. CASE CallEscapes(r)
      <3>1. r \in Escaping /\ entry' = entry /\ probes' = probes
        BY <2>3 DEF CallEscapes
      <3>2. forgotten'[m] = (forgotten[m] \/ (kind[r] = "trial" /\ entry[m].state = "HALF_OPEN"))
        BY <1>1, <1>7, <2>3 DEF CallEscapes, TypeOK
      <3> QED
        BY <1>5, <2>1, <3>1, <3>2, EscapeStep
    <2> QED
      BY <2>2, <2>3
  <1> QED
    BY <1>6, <1>7

\* Every step of the dispatch is, for every breaker, one of its steps or none.
LEMMA StepsRefine ==
  ASSUME Inductive, [Next]_vars, NEW m \in Model
  PROVE  Breaker(m)!Next \/ UNCHANGED Breaker(m)!vars
  <1>1. ASSUME NEW r \in Req, NEW n \in Model, Start(r, n)
        PROVE  Breaker(m)!Next \/ UNCHANGED Breaker(m)!vars
    BY <1>1, StartRefines
  <1>2. ASSUME NEW r \in Req, CallSucceeds(r) \/ CallEscapes(r)
        PROVE  Breaker(m)!Next \/ UNCHANGED Breaker(m)!vars
    BY <1>2, EndRefines
  <1>3. ASSUME NEW r \in Req, CallFails(r) \/ Retry(r)
        PROVE  Breaker(m)!Next \/ UNCHANGED Breaker(m)!vars
    <2>1. /\ UNCHANGED <<entry, cands, at, kind, probes, forgotten>>
          /\ \A q \in Req : Trying(q)' <=> Trying(q)
      BY <1>3 DEF CallFails, Retry, Trying, Inductive, TypeOK
    <2>2. CallOf(m)' = CallOf(m)
      BY <2>1 DEF CallOf, Current
    <2> QED
      BY <2>1, <2>2, NoStep
  <1>4. ASSUME NEW r \in Req, CallExhausted(r) \/ CallRefused(r)
        PROVE  Breaker(m)!Next \/ UNCHANGED Breaker(m)!vars
    BY <1>4, GiveUpRefines DEF CallExhausted, CallRefused
  <1>5. CASE Tick
    <2>1. /\ UNCHANGED <<pc, cands, at, kind, probes, forgotten>>
          /\ entry'[m] = Older(entry[m]) /\ entry[m] \in Entry
      BY <1>5 DEF Tick, request, Inductive, TypeOK
    <2>2. CallOf(m)' = CallOf(m)
      BY <2>1 DEF CallOf, Trying, Current
    <2>3. CASE entry[m].elapsed < Cooldown
      BY <2>1, <2>2, <2>3, TickStep
    <2>4. CASE ~(entry[m].elapsed < Cooldown)
      <3>1. entry'[m] = entry[m]
        BY <2>1, <2>4 DEF Older, Entry
      <3> QED
        BY <2>1, <2>2, <3>1, NoStep
    <2> QED
      BY <2>3, <2>4
  <1>6. CASE Done \/ UNCHANGED vars
    <2>1. UNCHANGED <<entry, pc, cands, at, kind, probes, forgotten>>
      BY <1>6 DEF Done, vars
    <2>2. CallOf(m)' = CallOf(m)
      BY <2>1 DEF CallOf, Trying, Current
    <2> QED
      BY <2>1, <2>2, NoStep
  <1> QED
    BY <1>1, <1>2, <1>3, <1>4, <1>5, <1>6 DEF Next

LEMMA InitRefines ==
  ASSUME Init, NEW m \in Model
  PROVE  Breaker(m)!Init
  <1>1. entry[m] = FreshEntry /\ probes[m] = 0 /\ forgotten[m] = FALSE
    BY DEF Init
  <1>2. entry[m] = Breaker(m)!FreshEntry
    BY <1>1, SameOperators
  <1>3. \A r \in Req : ~Trying(r)
    BY DEF Init, Trying
  <1> QED
    BY <1>1, <1>2, <1>3 DEF Breaker!Init

\* Whatever module CircuitBreaker promises of one breaker holds of each of those the
\* requests share: they use it as its callers do, admitted once for one outcome.
THEOREM Refinement == Spec => ImplementsBreakers
  <1>1. Init => \A m \in Model : Breaker(m)!Init
    BY InitRefines
  <1>2. Inductive /\ [Next]_vars
           => [\A m \in Model : [Breaker(m)!Next]_(Breaker(m)!vars)]_vars
    BY StepsRefine
  <1> QED
    BY <1>1, <1>2, InductiveHolds, PTL DEF Spec, ImplementsBreakers
=============================================================================
