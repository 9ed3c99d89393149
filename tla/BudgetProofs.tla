---------------------------- MODULE BudgetProofs ----------------------------
(***************************************************************************)
(* What is proved of Budget for every number of tasks, every cap, every     *)
(* price and every length of the periods: that no running total forgets     *)
(* anything before its period is over, that none overshoots its cap by more *)
(* than one request for every task, that none stays in Redis for ever, and  *)
(* that up to the end of any month the months are billed what the days were *)
(* but for what lies between the two.                                       *)
(*                                                                          *)
(* Time enters only through the number of the period a date lies in, hence  *)
(* three facts about division.  The sums of a month are over sets of tasks  *)
(* and of keys: that they grow with their members is an induction, made     *)
(* with a smallest counterexample.  The rest follows from Inductive, and    *)
(* for the months from who has crossed the end of which.                    *)
(***************************************************************************)
EXTENDS Budget, FiniteSetTheorems, TLAPS

-----------------------------------------------------------------------------
\* The period of a date.
LEMMA PeriodOf ==
  ASSUME NEW d \in Nat, NEW n \in Nat \ {0}
  PROVE  d \div n \in 0..d
  OBVIOUS

\* Periods follow one another as dates do.
LEMMA PeriodsInOrder ==
  ASSUME NEW d \in Nat, NEW e \in Nat, d <= e, NEW n \in Nat \ {0}
  PROVE  d \div n <= e \div n
  OBVIOUS

\* As many days later as a period has, the next one has come.
LEMMA NextPeriod ==
  ASSUME NEW d \in Nat, NEW e \in Nat, NEW n \in Nat \ {0}, e >= d + n
  PROVE  e \div n > d \div n
  OBVIOUS

-----------------------------------------------------------------------------
(* The inductive invariant. *)

\* The number of the running period of k's kind on date d.
Current(k, d) == d \div Length[k[1]]

\* A task only bills dates that have been, and its month never before its day.
BilledBefore == \A t \in Task : billed[t]["daily"] <= billed[t]["monthly"] /\ billed[t]["monthly"] <= day

\* No key has a TTL that ends before its period does.
TTLsLast == \A k \in Key : deadline[k] # NoTTL => Current(k, deadline[k]) > k[2]

\* Not only the running period's total is kept, but those of all to come.
NothingForgotten == \A k \in Key : Current(k, day) <= k[2] => total[k] = spent[k]

\* The total of a period to come is empty.
NothingAhead == \A k \in Key : total[k] > 0 => k[2] <= Current(k, day)

\* Where record_usage() has yet to add to the total of period p.
Before(p) == IF p = "daily" THEN {<<"incr", "daily">>}
                            ELSE {<<"incr", "daily">>, <<"expire", "daily">>, <<"incr", "monthly">>}

\* The tasks that may yet add to k: those whose record_usage() is on the way to it, and
\* those still at their provider, unless k's period is over.
Owing(k) == {t \in Task : \/ step[t] = Dispatched /\ Current(k, day) <= k[2]
                          \/ step[t] \in Before(k[1]) /\ KeyAt(k[1], billed[t][k[1]]) = k}

\* Each of them may add MaxCost, and the last that passed check_budget() did so below
\* the cap.
Committed(k) == total[k] + Cardinality(Owing(k)) * MaxCost

Limit(k) == Cap[k[1]] + Cardinality(Task) * MaxCost

CommitmentBounded ==
    \A k \in Key : Committed(k) < Limit(k) \/ (total[k] = 0 /\ Owing(k) = {})

Inductive ==
    /\ TypeOK
    /\ BilledBefore
    /\ TTLsLast
    /\ NothingForgotten
    /\ NothingAhead
    /\ CommitmentBounded
    /\ TotalsExpire

-----------------------------------------------------------------------------
(* Facts about keys. *)

LEMMA LengthType == \A p \in Period : Length[p] \in Nat \ {0} /\ TTL[p] \in Nat \ {0}
  BY BudgetAssumption

LEMMA KeyType ==
  ASSUME NEW p \in Period, NEW d \in 0..LastDay
  PROVE  KeyAt(p, d) \in Key /\ KeyAt(p, d)[1] = p /\ KeyAt(p, d)[2] = d \div Length[p]
  <1>1. d \in Nat /\ d <= LastDay /\ Length[p] \in Nat \ {0}
    BY LengthType, BudgetAssumption
  <1>2. d \div Length[p] \in 0..d
    BY <1>1, PeriodOf
  <1> QED
    BY <1>1, <1>2, BudgetAssumption DEF KeyAt, Key

LEMMA KeyParts ==
  ASSUME NEW k \in Key
  PROVE  k[1] \in Period /\ k[2] \in 0..LastDay /\ k = <<k[1], k[2]>>
  BY DEF Key

\* Keys of the same kind and period are the same.
LEMMA KeyIs ==
  ASSUME NEW k \in Key, NEW p \in Period, NEW d \in 0..LastDay
  PROVE  KeyAt(p, d) = k <=> (k[1] = p /\ k[2] = Current(k, d))
  BY KeyParts DEF KeyAt, Current

\* The running period of k's kind on two dates in order.
LEMMA CurrentGrows ==
  ASSUME NEW k \in Key, NEW d \in Nat, NEW e \in Nat, d <= e
  PROVE  Current(k, d) \in Nat /\ Current(k, d) <= Current(k, e) /\ Current(k, e) \in Nat
  BY KeyParts, LengthType, PeriodOf, PeriodsInOrder DEF Current

-----------------------------------------------------------------------------
(* Type correctness. *)

LEMMA StepTypes ==
  ASSUME NEW p \in Period
  PROVE  /\ AfterIncr(p) = <<"expire", p>> /\ AfterIncr(p) \in Recording
         /\ AfterExpire(p) \in {Idle} \cup Recording
  BY DEF AfterIncr, AfterExpire, Recording, Idle, Period

LEMMA InitType == Init => TypeOK
  BY BudgetAssumption DEF Init, TypeOK, NoTTL

LEMMA NextType == TypeOK /\ [Next]_vars => TypeOK'
  <1> SUFFICES ASSUME TypeOK, [Next]_vars PROVE TypeOK'
    OBVIOUS
  <1> USE DEF TypeOK
  <1>1. ASSUME NEW t \in Task, Refuse(t) PROVE TypeOK'
    BY <1>1 DEF Refuse, vars
  <1>2. ASSUME NEW t \in Task, Check(t) PROVE TypeOK'
    BY <1>2 DEF Check
  <1>3. ASSUME NEW t \in Task, EndUnbilled(t) PROVE TypeOK'
    BY <1>3 DEF EndUnbilled
  <1>4. ASSUME NEW t \in Task, NEW cost \in Cost, Bill(t, cost) PROVE TypeOK'
    <2>1. cost \in 0..MaxCost /\ <<"incr", "daily">> \in Recording
      BY BudgetAssumption DEF Recording, Period
    <2>2. day' \in 0..LastDay
      BY <1>4 DEF Bill
    <2>3. billed' \in [Task -> [Period -> 0..LastDay]]
      BY <1>4, <2>2 DEF Bill
    <2>4. crossed' \in [Month -> SUBSET Task]
      BY <1>4 DEF Bill
    <2> QED
      BY <1>4, <2>1, <2>2, <2>3, <2>4 DEF Bill
  <1>5. ASSUME NEW t \in Task, NEW p \in Period, Incr(t, p) PROVE TypeOK'
    <2>1. KeyAt(p, billed[t][p]) \in Key /\ owed[t] \in Nat
      BY KeyType, BudgetAssumption
    <2>2. total' \in [Key -> Nat] /\ spent' \in [Key -> Nat]
      BY <1>5, <2>1 DEF Incr
    <2> QED
      BY <1>5, <2>2, StepTypes DEF Incr
  <1>6. ASSUME NEW t \in Task, NEW p \in Period, SetTTL(t, p) PROVE TypeOK'
    <2>1. KeyAt(p, billed[t][p]) \in Key /\ day + Lifetime(p) \in Nat
      BY KeyType, BudgetAssumption DEF Lifetime
    <2>2. deadline' \in [Key -> Nat \cup {NoTTL}]
      BY <1>6, <2>1 DEF SetTTL
    <2>3. owed' \in [Task -> 0..MaxCost] /\ billed' \in [Task -> [Period -> 0..LastDay]]
      <3>1. 0 \in 0..MaxCost /\ [q \in Period |-> 0] \in [Period -> 0..LastDay]
        BY BudgetAssumption
      <3> QED
        BY <1>6, <3>1 DEF SetTTL, Forget
    <2> QED
      BY <1>6, <2>2, <2>3, StepTypes DEF SetTTL
  <1>7. ASSUME NEW t \in Task, Fail(t) PROVE TypeOK'
    BY <1>7 DEF Fail
  <1>8. ASSUME NEW k \in Key, Drop(k) PROVE TypeOK'
    BY <1>8 DEF Drop
  <1>9. CASE Midnight
    BY <1>9, BudgetAssumption DEF Midnight
  <1>10. CASE UNCHANGED vars
    BY <1>10 DEF vars
  <1> QED
    BY <1>1, <1>2, <1>3, <1>4, <1>5, <1>6, <1>7, <1>8, <1>9, <1>10 DEF Next

\* Type correctness: keys, steps, costs and TTLs of record_usage() keep their shape,
\* whatever fails and however long it takes.
THEOREM TypeCorrect == Spec => []TypeOK
  <1>1. Init => TypeOK
    BY InitType
  <1>2. TypeOK /\ [Next]_vars => TypeOK'
    BY NextType
  <1> QED
    BY <1>1, <1>2, PTL DEF Spec

-----------------------------------------------------------------------------
(* Totals and their TTLs. *)

\* Midnight, on its own or between the two clock readings of record_usage().
DayPasses == day' = day + 1 /\ UNCHANGED <<total, deadline, spent>>

\* Only four kinds of step touch Redis or the calendar.
LEMMA StepKinds ==
  ASSUME [Next]_vars
  PROVE  \/ UNCHANGED <<day, total, deadline, spent>>
         \/ \E t \in Task, p \in Period : Incr(t, p)
         \/ \E t \in Task, p \in Period : SetTTL(t, p)
         \/ \E k \in Key : Drop(k)
         \/ DayPasses
  <1>1. ASSUME NEW t \in Task, NEW cost \in Cost, Bill(t, cost)
        PROVE  UNCHANGED <<day, total, deadline, spent>> \/ DayPasses
    BY <1>1 DEF Bill, DayPasses
  <1>2. Midnight => DayPasses
    BY DEF Midnight, DayPasses
  <1> QED
    BY <1>1, <1>2 DEF Next, vars, Refuse, Check, EndUnbilled, Fail

LEMMA BilledBeforeKept ==
  ASSUME TypeOK, BilledBefore, [Next]_vars
  PROVE  BilledBefore'
  <1>1. day \in Nat /\ day' \in {day, day + 1}
    <2>1. day' = day \/ day' = day + 1
      BY StepKinds DEF Incr, SetTTL, Drop, DayPasses
    <2> QED
      BY <2>1 DEF TypeOK
  <1> SUFFICES ASSUME NEW u \in Task
               PROVE  /\ billed'[u]["daily"] <= billed'[u]["monthly"]
                      /\ billed'[u]["monthly"] <= day'
    BY DEF BilledBefore
  <1>2. billed'[u] = billed[u] \/ billed'[u] = [p \in Period |-> 0]
        \/ billed'[u] = [p \in Period |-> IF p = "daily" THEN day ELSE day']
    BY DEF Next, vars, Refuse, Check, EndUnbilled, Bill, Incr, SetTTL, Forget, Fail, Drop,
           Midnight, TypeOK
  <1> QED
    BY <1>1, <1>2 DEF TypeOK, BilledBefore, Period

LEMMA BilledDate ==
  ASSUME TypeOK, BilledBefore, NEW t \in Task, NEW p \in Period
  PROVE  /\ billed[t][p] \in 0..LastDay /\ billed[t][p] \in Nat
         /\ billed[t][p] <= day /\ day \in Nat
  BY BudgetAssumption DEF TypeOK, BilledBefore, Period

LEMMA TTLsLastKept ==
  ASSUME TypeOK, BilledBefore, TTLsLast, [Next]_vars
  PROVE  TTLsLast'
  <1>1. ASSUME deadline' = deadline PROVE TTLsLast'
    BY <1>1 DEF TTLsLast, Current
  <1>2. ASSUME NEW t \in Task, NEW p \in Period, SetTTL(t, p) PROVE TTLsLast'
    <2> DEFINE k == KeyAt(p, billed[t][p])
    <2>1. /\ k \in Key /\ k[1] = p /\ k[2] = billed[t][p] \div Length[p]
          /\ billed[t][p] \in Nat /\ billed[t][p] <= day /\ day \in Nat
      BY KeyType, BilledDate
    <2>2. TTL[p] \in Nat /\ TTL[p] >= Length[p] /\ Length[p] \in Nat \ {0}
      BY BudgetAssumption, TTLAssumption
    <2>3. Current(k, day + TTL[p]) > k[2]
      BY <2>1, <2>2, NextPeriod DEF Current
    <2>4. deadline' = [deadline EXCEPT ![k] = day + TTL[p]] \/ deadline' = deadline
      BY <1>2 DEF SetTTL, Lifetime
    <2> HIDE DEF k
    <2> QED
      BY <2>1, <2>3, <2>4 DEF TTLsLast, TypeOK, Current
  <1>3. ASSUME NEW k \in Key, Drop(k) PROVE TTLsLast'
    <2>1. deadline' = [deadline EXCEPT ![k] = NoTTL]
      BY <1>3 DEF Drop
    <2> QED
      BY <2>1 DEF TTLsLast, TypeOK, Current
  <1> QED
    BY <1>1, <1>2, <1>3, StepKinds DEF Incr, DayPasses

\* A key that Redis drops belongs to a period that is over.
LEMMA DroppedIsOver ==
  ASSUME TypeOK, TTLsLast, NEW k \in Key, Drop(k)
  PROVE  Current(k, day) > k[2]
  <1>1. deadline[k] \in Nat /\ day \in Nat /\ deadline[k] <= day
    BY DEF Drop, TypeOK
  <1>2. Current(k, deadline[k]) > k[2]
    BY DEF Drop, TTLsLast
  <1>3. Current(k, deadline[k]) <= Current(k, day) /\ Current(k, deadline[k]) \in Nat
        /\ Current(k, day) \in Nat /\ k[2] \in Nat
    BY <1>1, CurrentGrows, KeyParts
  <1> QED
    BY <1>2, <1>3

LEMMA MidnightGrows ==
  ASSUME TypeOK, day' = day + 1, NEW k \in Key
  PROVE  /\ Current(k, day) \in Nat /\ Current(k, day)' \in Nat /\ k[2] \in Nat
         /\ Current(k, day) <= Current(k, day)'
  <1>1. day \in Nat /\ day' = day + 1
    BY DEF TypeOK
  <1>2. Current(k, day)' = Current(k, day')
    BY DEF Current
  <1> QED
    BY <1>1, <1>2, CurrentGrows, KeyParts

LEMMA NothingForgottenKept ==
  ASSUME TypeOK, TTLsLast, NothingForgotten, [Next]_vars
  PROVE  NothingForgotten'
  <1> USE DEF NothingForgotten, Current
  <1>1. CASE UNCHANGED <<day, total, deadline, spent>>
    BY <1>1
  <1>2. ASSUME NEW t \in Task, NEW p \in Period, Incr(t, p) PROVE NothingForgotten'
    BY <1>2 DEF Incr, TypeOK
  <1>3. ASSUME NEW t \in Task, NEW p \in Period, SetTTL(t, p) PROVE NothingForgotten'
    BY <1>3 DEF SetTTL
  <1>4. ASSUME NEW k \in Key, Drop(k) PROVE NothingForgotten'
    <2>1. total' = [total EXCEPT ![k] = 0] /\ UNCHANGED <<day, spent>>
      BY <1>4 DEF Drop
    <2>2. Current(k, day) > k[2] /\ k[2] \in Nat /\ Current(k, day) \in Nat
      BY <1>4, DroppedIsOver, CurrentGrows, KeyParts DEF TypeOK
    <2> QED
      BY <2>1, <2>2 DEF TypeOK
  <1>5. CASE DayPasses
    <2>1. UNCHANGED <<total, spent>> /\ day' = day + 1
      BY <1>5 DEF DayPasses
    <2> SUFFICES ASSUME NEW k \in Key, Current(k, day)' <= k[2] PROVE total[k] = spent[k]
      BY <2>1
    <2>2. Current(k, day) <= k[2]
      BY <2>1, MidnightGrows
    <2> QED
      BY <2>2
  <1> QED
    BY <1>1, <1>2, <1>3, <1>4, <1>5, StepKinds

LEMMA NothingAheadKept ==
  ASSUME TypeOK, BilledBefore, NothingAhead, [Next]_vars
  PROVE  NothingAhead'
  <1>1. CASE UNCHANGED <<day, total, deadline, spent>>
    BY <1>1 DEF NothingAhead, Current
  <1>2. ASSUME NEW t \in Task, NEW p \in Period, Incr(t, p) PROVE NothingAhead'
    <2> DEFINE k == KeyAt(p, billed[t][p])
    <2>1. /\ k \in Key /\ k[1] = p /\ k[2] = Current(k, billed[t][p])
          /\ billed[t][p] \in Nat /\ billed[t][p] <= day /\ day \in Nat
      BY KeyType, BilledDate DEF Current
    <2>2. k[2] <= Current(k, day)
      BY <2>1, CurrentGrows
    <2>3. total' = [total EXCEPT ![k] = @ + owed[t]] /\ day' = day
      BY <1>2 DEF Incr
    <2> HIDE DEF k
    <2> QED
      BY <2>1, <2>2, <2>3 DEF NothingAhead, TypeOK, Current
  <1>3. ASSUME NEW t \in Task, NEW p \in Period, SetTTL(t, p) PROVE NothingAhead'
    BY <1>3 DEF SetTTL, NothingAhead, Current
  <1>4. ASSUME NEW k \in Key, Drop(k) PROVE NothingAhead'
    BY <1>4 DEF Drop, NothingAhead, TypeOK, Current
  <1>5. CASE DayPasses
    <2>1. total' = total /\ day' = day + 1
      BY <1>5 DEF DayPasses
    <2> SUFFICES ASSUME NEW k \in Key, total[k] > 0 PROVE k[2] <= Current(k, day)'
      BY <2>1 DEF NothingAhead
    <2> QED
      BY <2>1, MidnightGrows DEF NothingAhead
  <1> QED
    BY <1>1, <1>2, <1>3, <1>4, <1>5, StepKinds

\* Only EXPIRE moves a task off a key without a TTL, and it gives the key one.
LEMMA TotalsExpireKept ==
  ASSUME TypeOK, TotalsExpire, [Next]_vars
  PROVE  TotalsExpire'
  <1> DEFINE Expires(t, k) == step[t] = <<"expire", k[1]>> /\ KeyAt(k[1], billed[t][k[1]]) = k
  <1>1. ASSUME UNCHANGED <<total, deadline>>,
               \A t \in Task, p \in Period :
                   step[t] = <<"expire", p>> => step'[t] = step[t] /\ billed'[t] = billed[t]
        PROVE  TotalsExpire'
    BY <1>1, KeyParts DEF TotalsExpire, KeyAt
  <1>2. ASSUME NEW t \in Task, \/ Refuse(t) \/ Check(t) \/ EndUnbilled(t) \/ Fail(t)
                               \/ \E cost \in Cost : Bill(t, cost)
        PROVE  TotalsExpire'
    BY <1>1, <1>2
    DEF TypeOK, Refuse, Check, EndUnbilled, Fail, Bill, At, Idle, Dispatched, vars
  <1>3. ASSUME NEW t \in Task, NEW p \in Period, Incr(t, p) PROVE TotalsExpire'
    <2>1. /\ step[t] = <<"incr", p>> /\ step' = [step EXCEPT ![t] = <<"expire", p>>]
          /\ UNCHANGED <<billed, deadline>>
          /\ total' = [total EXCEPT ![KeyAt(p, billed[t][p])] = @ + owed[t]]
      BY <1>3 DEF Incr, At, AfterIncr
    <2> SUFFICES ASSUME NEW k \in Key, total'[k] > 0, deadline[k] = NoTTL
                 PROVE  \E u \in Task : Expires(u, k)'
      BY <2>1 DEF TotalsExpire
    <2>2. CASE k = KeyAt(p, billed[t][p])
      <3>1. k[1] = p
        BY <2>2 DEF KeyAt
      <3> QED
        BY <2>1, <2>2, <3>1 DEF TypeOK, KeyAt
    <2>3. CASE k # KeyAt(p, billed[t][p])
      <3>1. total[k] > 0
        BY <2>1, <2>3 DEF TypeOK
      <3>2. PICK u \in Task : Expires(u, k)
        BY <3>1 DEF TotalsExpire
      <3>3. u # t
        BY <2>1, <3>2
      <3> QED
        BY <2>1, <3>2, <3>3 DEF TypeOK, KeyAt
    <2> QED
      BY <2>2, <2>3
  <1>4. ASSUME NEW t \in Task, NEW p \in Period, SetTTL(t, p) PROVE TotalsExpire'
    <2> DEFINE k0 == KeyAt(p, billed[t][p])
    <2>1. /\ step[t] = <<"expire", p>> /\ total' = total
          /\ \A u \in Task \ {t} : step'[u] = step[u] /\ billed'[u] = billed[u]
          /\ deadline' = IF total[k0] > 0 THEN [deadline EXCEPT ![k0] = day + TTL[p]] ELSE deadline
      BY <1>4 DEF SetTTL, At, Forget, TypeOK, Lifetime
    <2>2. day + TTL[p] # NoTTL
      BY LengthType DEF TypeOK, NoTTL
    <2> SUFFICES ASSUME NEW k \in Key, total[k] > 0, deadline'[k] = NoTTL
                 PROVE  \E u \in Task : Expires(u, k)'
      BY <2>1 DEF TotalsExpire
    <2> HIDE DEF k0
    <2>3. k # k0 /\ deadline[k] = NoTTL
      BY <2>1, <2>2 DEF TypeOK
    <2>4. PICK u \in Task : Expires(u, k)
      BY <2>3 DEF TotalsExpire
    <2>5. u # t
      BY <2>1, <2>3, <2>4, KeyParts DEF k0
    <2> QED
      BY <2>1, <2>4, <2>5 DEF KeyAt
  <1>5. ASSUME NEW k \in Key, Drop(k) PROVE TotalsExpire'
    <2>1. /\ total' = [total EXCEPT ![k] = 0] /\ deadline' = [deadline EXCEPT ![k] = NoTTL]
          /\ UNCHANGED <<step, billed>>
      BY <1>5 DEF Drop
    <2>2. \A l \in Key : total'[l] > 0 => total[l] > 0 /\ deadline'[l] = deadline[l]
      BY <2>1 DEF TypeOK
    <2> QED
      BY <2>1, <2>2 DEF TotalsExpire, KeyAt
  <1>6. CASE Midnight
    BY <1>1, <1>6 DEF Midnight
  <1>7. CASE UNCHANGED vars
    BY <1>1, <1>7 DEF vars
  <1> QED
    BY <1>2, <1>3, <1>4, <1>5, <1>6, <1>7 DEF Next

-----------------------------------------------------------------------------
(* What tasks may yet add. *)

LEMMA OwingType ==
  ASSUME NEW k \in Key
  PROVE  /\ IsFiniteSet(Owing(k)) /\ Cardinality(Owing(k)) \in Nat
         /\ Cardinality(Owing(k)) <= Cardinality(Task) /\ Cardinality(Task) \in Nat
  <1>1. Owing(k) \subseteq Task /\ IsFiniteSet(Task)
    BY BudgetAssumption DEF Owing
  <1> QED
    BY <1>1, FS_Subset, FS_CardinalityType

\* Fewer tasks may add no more.
LEMMA FewerOweLess ==
  ASSUME NEW a \in Nat, NEW b \in Nat, a <= b, NEW c \in Nat
  PROVE  a * c \in Nat /\ b * c \in Nat /\ a * c <= b * c
  <1>1. (b - a) * c \in Nat
    BY b - a \in Nat
  <1>2. b * c = a * c + (b - a) * c
    OBVIOUS
  <1>3. a * c \in Nat /\ b * c \in Nat
    OBVIOUS
  <1> QED
    BY <1>1, <1>2, <1>3

\* A key to which fewer may add, and which has not grown, stays within its commitment.
LEMMA Relieved ==
  ASSUME TypeOK, TypeOK', CommitmentBounded, NEW k \in Key,
         Owing(k)' \subseteq Owing(k), total'[k] <= total[k]
  PROVE  Committed(k)' < Limit(k) \/ (total'[k] = 0 /\ Owing(k)' = {})
  <1> DEFINE a == Cardinality(Owing(k)')
             b == Cardinality(Owing(k))
  <1>1. a \in Nat /\ b \in Nat /\ a <= b
    BY OwingType, FS_Subset, FS_CardinalityType
  <1>2. total[k] \in Nat /\ total'[k] \in Nat /\ MaxCost \in Nat
    BY BudgetAssumption DEF TypeOK
  <1>3. a * MaxCost \in Nat /\ b * MaxCost \in Nat /\ a * MaxCost <= b * MaxCost
    BY <1>1, <1>2, FewerOweLess
  <1>4. Committed(k) = total[k] + b * MaxCost /\ Committed(k)' = total'[k] + a * MaxCost
    BY DEF Committed
  <1>5. Limit(k) \in Int
    BY OwingType, KeyParts, BudgetAssumption DEF Limit
  <1> HIDE DEF a, b
  <1>6. CASE Committed(k) < Limit(k)
    BY <1>2, <1>3, <1>4, <1>5, <1>6
  <1>7. CASE total[k] = 0 /\ Owing(k) = {}
    BY <1>2, <1>7
  <1> QED
    BY <1>6, <1>7 DEF CommitmentBounded

\* Who owes to k changes only with the task that moves.
LEMMA OwesLess ==
  ASSUME TypeOK, NEW k \in Key, NEW t \in Task, day' \in {day, day + 1},
         \A u \in Task \ {t} : step'[u] = step[u] /\ billed'[u] = billed[u],
         t \in Owing(k)' => t \in Owing(k)
  PROVE  Owing(k)' \subseteq Owing(k)
  <1>1. Current(k, day)' <= k[2] => Current(k, day) <= k[2]
    BY MidnightGrows DEF Current
  <1> QED
    BY <1>1 DEF Owing, KeyAt

\* check_budget() lets a task through only below the cap of every running period, and
\* every other task may at worst come before it.
LEMMA CommitmentAtCheck ==
  ASSUME TypeOK, TypeOK', NothingAhead, CommitmentBounded, NEW k \in Key,
         NEW t \in Task, Check(t)
  PROVE  Committed(k)' < Limit(k) \/ (total'[k] = 0 /\ Owing(k)' = {})
  <1>1. /\ UnderCaps /\ step' = [step EXCEPT ![t] = Dispatched]
        /\ total' = total /\ day' = day /\ billed' = billed
    BY DEF Check
  <1>2. CASE Current(k, day) <= k[2]
    <2> DEFINE p == k[1]
               now == KeyAt(p, day)
               a == Cardinality(Owing(k)')
               n == Cardinality(Task)
    <2>1. now \in Key /\ p \in Period /\ total[now] < Cap[p] /\ now[2] = Current(k, day) /\ now[1] = p
      BY <1>1, KeyParts, KeyType DEF UnderCaps, TypeOK, Current
    <2>2. total[now] \in Nat /\ total[k] \in Nat /\ Cap[p] \in Nat /\ MaxCost \in Nat
      BY <2>1, BudgetAssumption DEF TypeOK
    <2>3. total[k] < Cap[p]
      <3>1. k[2] \in Nat /\ Current(k, day) \in Nat
        BY KeyParts, CurrentGrows DEF TypeOK
      <3>2. CASE k[2] = Current(k, day)
        BY <2>1, <3>2, KeyParts DEF KeyAt
      <3>3. CASE k[2] > Current(k, day)
        BY <2>1, <2>2, <3>1, <3>3 DEF NothingAhead
      <3> QED
        BY <1>2, <3>1, <3>2, <3>3
    <2>4. a \in Nat /\ n \in Nat /\ a <= n
      <3>1. Owing(k)' \subseteq Task /\ IsFiniteSet(Task)
        BY BudgetAssumption DEF Owing
      <3> QED
        BY <3>1, FS_Subset, FS_CardinalityType
    <2>5. a * MaxCost \in Nat /\ n * MaxCost \in Nat /\ a * MaxCost <= n * MaxCost
      BY <2>2, <2>4, FewerOweLess
    <2>6. Committed(k)' = total[k] + a * MaxCost /\ Limit(k) = Cap[p] + n * MaxCost
      BY <1>1 DEF Committed, Limit
    <2> HIDE DEF a, n, p
    <2> QED
      BY <2>2, <2>3, <2>5, <2>6
  <1>3. CASE ~(Current(k, day) <= k[2])
    <2>1. t \notin Owing(k)'
      <3>1. step'[t] = Dispatched /\ ~(Current(k, day) <= k[2])'
        BY <1>1, <1>3 DEF TypeOK, Current
      <3>2. Dispatched \notin Before(k[1])
        BY DEF Dispatched, Before
      <3> QED
        BY <3>1, <3>2 DEF Owing
    <2>2. Owing(k)' \subseteq Owing(k)
      BY <1>1, <2>1, OwesLess DEF TypeOK
    <2> QED
      BY <1>1, <2>2, Relieved DEF TypeOK
  <1> QED
    BY <1>2, <1>3

\* INCRBYFLOAT turns what a task may add into what it has added.
LEMMA CommitmentAtIncr ==
  ASSUME TypeOK, TypeOK', CommitmentBounded, NEW k \in Key,
         NEW t \in Task, NEW p \in Period, Incr(t, p)
  PROVE  Committed(k)' < Limit(k) \/ (total'[k] = 0 /\ Owing(k)' = {})
  <1>1. /\ step[t] = <<"incr", p>> /\ step' = [step EXCEPT ![t] = <<"expire", p>>]
        /\ day' = day /\ billed' = billed
        /\ total' = [total EXCEPT ![KeyAt(p, billed[t][p])] = @ + owed[t]]
    BY DEF Incr, At, AfterIncr
  <1>2. CASE k # KeyAt(p, billed[t][p])
    <2>1. t \in Owing(k)' => t \in Owing(k)
      BY <1>1, <1>2, KeyParts
      DEF TypeOK, Owing, Before, KeyAt, Current, Dispatched, Period
    <2> QED
      BY <1>1, <1>2, <2>1, OwesLess, Relieved DEF TypeOK
  <1>3. CASE k = KeyAt(p, billed[t][p])
    <2> DEFINE a == Cardinality(Owing(k)')
               b == Cardinality(Owing(k))
    <2>1. k[1] = p
      BY <1>3 DEF KeyAt
    <2>2. t \in Owing(k)
      BY <1>1, <1>3, <2>1 DEF Owing, Before, Period
    <2>3. t \notin Owing(k)'
      BY <1>1, <2>1 DEF TypeOK, Owing, Before, Dispatched, Period
    <2>4. Owing(k)' \subseteq Owing(k) \ {t}
      BY <1>1, <2>3, OwesLess DEF TypeOK
    <2>5. a \in Nat /\ b \in Nat /\ a <= b - 1
      BY <2>2, <2>4, OwingType, FS_Subset, FS_RemoveElement, FS_CardinalityType
    <2>6. owed[t] \in Nat /\ owed[t] <= MaxCost /\ MaxCost \in Nat /\ total[k] \in Nat
      BY BudgetAssumption DEF TypeOK
    <2>7. total'[k] = total[k] + owed[t]
      BY <1>1, <1>3 DEF TypeOK
    <2>8. (a + 1) * MaxCost <= b * MaxCost /\ (a + 1) * MaxCost = a * MaxCost + MaxCost
          /\ a * MaxCost \in Nat /\ b * MaxCost \in Nat
      BY <2>5, <2>6, FewerOweLess
    <2>9. Committed(k) = total[k] + b * MaxCost /\ Committed(k)' = total'[k] + a * MaxCost
      BY DEF Committed
    <2>10. Committed(k) < Limit(k) /\ Limit(k) \in Int
      BY <2>2, OwingType, KeyParts, BudgetAssumption DEF CommitmentBounded, Limit
    <2> HIDE DEF a, b
    <2> QED
      BY <2>6, <2>7, <2>8, <2>9, <2>10
  <1> QED
    BY <1>2, <1>3

LEMMA CommitmentKept ==
  ASSUME TypeOK, TypeOK', NothingAhead, CommitmentBounded, [Next]_vars
  PROVE  CommitmentBounded'
  <1> SUFFICES ASSUME NEW k \in Key
               PROVE  Committed(k)' < Limit(k) \/ (total'[k] = 0 /\ Owing(k)' = {})
    BY DEF CommitmentBounded, Limit
  <1>1. ASSUME day' \in {day, day + 1}, total' = total, NEW t \in Task,
               \A u \in Task \ {t} : step'[u] = step[u] /\ billed'[u] = billed[u],
               t \in Owing(k)' => t \in Owing(k)
        PROVE  Committed(k)' < Limit(k) \/ (total'[k] = 0 /\ Owing(k)' = {})
    <2>1. Owing(k)' \subseteq Owing(k)
      BY <1>1, OwesLess
    <2>2. total'[k] <= total[k]
      BY <1>1 DEF TypeOK
    <2> QED
      BY <2>1, <2>2, Relieved
  <1>2. ASSUME UNCHANGED <<step, billed>>, \/ UNCHANGED <<day, total>>
                                           \/ Midnight
                                           \/ \E l \in Key : Drop(l)
        PROVE  Committed(k)' < Limit(k) \/ (total'[k] = 0 /\ Owing(k)' = {})
    <2>1. total'[k] <= total[k]
      BY <1>2 DEF Midnight, Drop, TypeOK
    <2>2. Current(k, day)' <= k[2] => Current(k, day) <= k[2]
      BY <1>2, MidnightGrows DEF Drop, Midnight, Current
    <2>3. Owing(k)' \subseteq Owing(k)
      BY <1>2, <2>2 DEF Owing, KeyAt
    <2> QED
      BY <2>1, <2>3, Relieved
  <1>3. ASSUME NEW t \in Task, Refuse(t) \/ Fail(t)
        PROVE  Committed(k)' < Limit(k) \/ (total'[k] = 0 /\ Owing(k)' = {})
    BY <1>2, <1>3 DEF Refuse, Fail, vars
  <1>4. ASSUME NEW t \in Task, EndUnbilled(t)
        PROVE  Committed(k)' < Limit(k) \/ (total'[k] = 0 /\ Owing(k)' = {})
    <2>1. t \notin Owing(k)'
      BY <1>4 DEF EndUnbilled, TypeOK, Owing, Idle, Dispatched, Before
    <2> QED
      BY <1>1, <1>4, <2>1 DEF EndUnbilled, TypeOK
  <1>5. ASSUME NEW t \in Task, NEW cost \in Cost, Bill(t, cost)
        PROVE  Committed(k)' < Limit(k) \/ (total'[k] = 0 /\ Owing(k)' = {})
    <2>1. /\ step[t] = Dispatched /\ step'[t] = <<"incr", "daily">>
          /\ billed'[t] = [p \in Period |-> IF p = "daily" THEN day ELSE day']
          /\ day' \in {day, day + 1} /\ day \in 0..LastDay /\ day' \in 0..LastDay
      BY <1>5 DEF Bill, At, TypeOK
    <2>2. ASSUME t \in Owing(k)' PROVE t \in Owing(k)
      <3>1. KeyAt(k[1], billed'[t][k[1]]) = k
        BY <2>1, <2>2 DEF Owing, Dispatched, KeyAt
      <3>2. PICK d \in {day, day'} : KeyAt(k[1], d) = k
        BY <2>1, <3>1, KeyParts
      <3>3. d \in Nat /\ d \in 0..LastDay /\ day \in Nat /\ day <= d
        BY <2>1 DEF TypeOK
      <3>4. Current(k, day) <= k[2]
        BY <3>2, <3>3, KeyIs, KeyParts, CurrentGrows
      <3> QED
        BY <2>1, <3>4 DEF Owing
    <2> QED
      BY <1>1, <1>5, <2>1, <2>2 DEF Bill, TypeOK
  <1>6. ASSUME NEW t \in Task, NEW p \in Period, SetTTL(t, p)
        PROVE  Committed(k)' < Limit(k) \/ (total'[k] = 0 /\ Owing(k)' = {})
    <2>1. /\ step[t] = <<"expire", p>> /\ step'[t] = AfterExpire(p) /\ UNCHANGED <<day, total>>
          /\ \A u \in Task \ {t} : step'[u] = step[u] /\ billed'[u] = billed[u]
          /\ p = "daily" => billed'[t] = billed[t]
      BY <1>6 DEF SetTTL, At, Forget, TypeOK, AfterExpire, Idle
    <2>2. t \in Owing(k)' => t \in Owing(k)
      BY <2>1, KeyParts DEF Owing, Before, AfterExpire, Idle, Dispatched, KeyAt, Period
    <2> QED
      BY <1>1, <2>1, <2>2
  <1>7. ASSUME NEW l \in Key, Drop(l)
        PROVE  Committed(k)' < Limit(k) \/ (total'[k] = 0 /\ Owing(k)' = {})
    BY <1>2, <1>7 DEF Drop
  <1>8. CASE Midnight
    BY <1>2, <1>8 DEF Midnight
  <1>9. CASE UNCHANGED vars
    BY <1>2, <1>9 DEF vars
  <1> QED
    BY <1>3, <1>4, <1>5, <1>6, <1>7, <1>8, <1>9, CommitmentAtCheck, CommitmentAtIncr DEF Next

-----------------------------------------------------------------------------
(* Sums over finite sets.  They are folds, recursive functions on the subsets of the *)
(* set; what holds of them follows by looking at a smallest subset of which it does  *)
(* not.                                                                              *)

\* Of finitely many sets that are not all fine, one has only fine subsets.
LEMMA SmallestSet ==
  ASSUME NEW S, IsFiniteSet(S), NEW B \in SUBSET (SUBSET S), B # {}
  PROVE  \E s \in B : \A u \in B : u \subseteq s => u = s
  <1> DEFINE N == {Cardinality(s) : s \in B}
  <1>1. \A s \in B : IsFiniteSet(s) /\ Cardinality(s) \in Nat
    BY FS_Subset, FS_CardinalityType
  <1>2. N \in SUBSET Nat /\ N # {}
    BY <1>1
  <1>3. PICK n \in N : \A m \in N : ~(m < n)
    <2>1. PICK n \in N : \A m \in N : <<m, n>> \notin OpToRel(<, Nat)
      <3> HIDE DEF N
      <3> QED
        BY <1>2, NatLessThanWellFounded, WFMin
    <2> HIDE DEF N
    <2> QED
      BY <1>2, <2>1 DEF OpToRel
  <1>4. PICK s \in B : n = Cardinality(s)
    BY <1>3
  <1>5. ASSUME NEW u \in B, u \subseteq s PROVE u = s
    <2>1. Cardinality(u) <= Cardinality(s) /\ (Cardinality(s) = Cardinality(u) => s = u)
      BY <1>1, <1>5, FS_Subset
    <2>2. ~(Cardinality(u) < Cardinality(s))
      BY <1>3, <1>4
    <2> QED
      BY <1>1, <2>1, <2>2
  <1> QED
    BY <1>5

\* What a fold chooses next.
Choice(s) == CHOOSE x \in s : TRUE

LEMMA ChoiceIn ==
  ASSUME NEW s, s # {}
  PROVE  Choice(s) \in s
  BY DEF Choice

\* The partial sums of which the fold takes the last.
Unfolding(w, S, g) ==
    [s \in SUBSET S |-> IF s = {} THEN 0 ELSE w[Choice(s)] + g[s \ {Choice(s)}]]

LEMMA SumIs ==
  ASSUME NEW w, NEW S
  PROVE  SumFunctionOnSet(w, S) = (CHOOSE g : g = Unfolding(w, S, g))[S]
  BY DEF SumFunctionOnSet, FoldFunctionOnSet, MapThenFoldSet, Unfolding, Choice

\* Partial sums of the same numbers are the same.
LEMMA UnfoldingsAgree ==
  ASSUME NEW w, NEW v, NEW S, NEW T \in SUBSET S, IsFiniteSet(T),
         NEW g, g = Unfolding(w, S, g), NEW h, h = Unfolding(v, T, h),
         \A x \in T : w[x] = v[x]
  PROVE  \A s \in SUBSET T : g[s] = h[s]
  <1> DEFINE B == {s \in SUBSET T : g[s] # h[s]}
  <1> SUFFICES ASSUME B # {} PROVE FALSE
    OBVIOUS
  <1>1. PICK s \in B : \A u \in B : u \subseteq s => u = s
    <2>1. B \in SUBSET (SUBSET T)
      OBVIOUS
    <2> HIDE DEF B
    <2> QED
      BY <2>1, SmallestSet
  <1>2. g[s] = IF s = {} THEN 0 ELSE w[Choice(s)] + g[s \ {Choice(s)}]
    BY DEF Unfolding
  <1>3. h[s] = IF s = {} THEN 0 ELSE v[Choice(s)] + h[s \ {Choice(s)}]
    BY DEF Unfolding
  <1>4. CASE s = {}
    BY <1>2, <1>3, <1>4
  <1>5. CASE s # {}
    <2>1. Choice(s) \in s
      BY <1>5, ChoiceIn
    <2>2. s \ {Choice(s)} \notin B
      BY <1>1, <2>1
    <2>3. g[s \ {Choice(s)}] = h[s \ {Choice(s)}] /\ w[Choice(s)] = v[Choice(s)]
      BY <2>1, <2>2
    <2> QED
      BY <1>2, <1>3, <1>5, <2>3
  <1> QED
    BY <1>4, <1>5

LEMMA UnfoldingsAgreeAt ==
  ASSUME NEW w, NEW S, NEW T \in SUBSET S, IsFiniteSet(T),
         NEW g, g = Unfolding(w, S, g), NEW h, h = Unfolding(w, T, h)
  PROVE  g[T] = h[T]
  <1>1. \A s \in SUBSET T : g[s] = h[s]
    BY UnfoldingsAgree
  <1> QED
    BY <1>1

\* Every finite set has its partial sums: those of its smaller subsets extend to it.
LEMMA UnfoldingExists ==
  ASSUME NEW w, NEW S, IsFiniteSet(S)
  PROVE  \E g : g = Unfolding(w, S, g)
  <1> DEFINE B == {s \in SUBSET S : ~ \E g : g = Unfolding(w, s, g)}
  <1> SUFFICES ASSUME B # {} PROVE FALSE
    OBVIOUS
  <1>1. PICK s \in B : \A u \in B : u \subseteq s => u = s
    <2>1. B \in SUBSET (SUBSET S)
      OBVIOUS
    <2> HIDE DEF B
    <2> QED
      BY <2>1, SmallestSet
  <1> DEFINE sums(u) == CHOOSE g : g = Unfolding(w, u, g)
             h == [u \in SUBSET s |->
                      IF u = {} THEN 0
                      ELSE w[Choice(u)] + sums(u \ {Choice(u)})[u \ {Choice(u)}]]
  <1>2. ASSUME NEW u \in SUBSET s, u # s PROVE sums(u) = Unfolding(w, u, sums(u))
    <2>1. \E g : g = Unfolding(w, u, g)
      BY <1>1, <1>2
    <2> QED
      BY <2>1, Zenon
  <1> HIDE DEF sums
  <1>3. ASSUME NEW u \in SUBSET s, u # s PROVE h[u] = sums(u)[u]
    <2>1. sums(u)[u] = Unfolding(w, u, sums(u))[u]
      BY <1>2, <1>3, Zenon
    <2>2. sums(u)[u] = IF u = {} THEN 0 ELSE w[Choice(u)] + sums(u)[u \ {Choice(u)}]
      BY <2>1 DEF Unfolding
    <2>3. CASE u = {}
      BY <2>2, <2>3
    <2>4. CASE u # {}
      <3> DEFINE v == u \ {Choice(u)}
      <3>1. v \in SUBSET u /\ v \in SUBSET s /\ v # s
        BY <1>3, <2>4, ChoiceIn
      <3>2. IsFiniteSet(v)
        BY <3>1, FS_Subset
      <3>3. sums(u) = Unfolding(w, u, sums(u)) /\ sums(v) = Unfolding(w, v, sums(v))
        BY <1>2, <1>3, <3>1
      <3> DEFINE f == sums(u)
                 g == sums(v)
      <3>4. f[v] = g[v]
        <4>1. f = Unfolding(w, u, f) /\ g = Unfolding(w, v, g)
          BY <3>3
        <4> HIDE DEF v, f, g
        <4> QED
          BY <3>1, <3>2, <4>1, UnfoldingsAgreeAt
      <3>5. h[u] = w[Choice(u)] + g[v]
        BY <2>4
      <3> QED
        BY <2>2, <2>4, <3>4, <3>5
    <2> QED
      BY <2>3, <2>4
  <1>4. h = Unfolding(w, s, h)
    <2>1. ASSUME NEW u \in SUBSET s, u # {}
          PROVE  h[u \ {Choice(u)}] = sums(u \ {Choice(u)})[u \ {Choice(u)}]
      <3>1. u \ {Choice(u)} \in SUBSET s /\ u \ {Choice(u)} # s
        BY <2>1, ChoiceIn
      <3> QED
        BY <1>3, <3>1
    <2> QED
      BY <2>1 DEF Unfolding
  <1> QED
    BY <1>1, <1>4

LEMMA EmptySum ==
  ASSUME NEW w
  PROVE  SumFunctionOnSet(w, {}) = 0
  <1> DEFINE g == CHOOSE g : g = Unfolding(w, {}, g)
  <1>1. \E f : f = Unfolding(w, {}, f)
    BY UnfoldingExists, FS_EmptySet
  <1>2. g = Unfolding(w, {}, g)
    BY <1>1, Zenon
  <1> HIDE DEF g
  <1>3. g[{}] = 0
    BY <1>2 DEF Unfolding
  <1> QED
    BY <1>3, SumIs DEF g

\* A sum is what is chosen first and the sum of the rest.
LEMMA SumOfChoice ==
  ASSUME NEW w, NEW S, IsFiniteSet(S), S # {}
  PROVE  SumFunctionOnSet(w, S) = w[Choice(S)] + SumFunctionOnSet(w, S \ {Choice(S)})
  <1> DEFINE R == S \ {Choice(S)}
             g == CHOOSE g : g = Unfolding(w, S, g)
             h == CHOOSE h : h = Unfolding(w, R, h)
  <1>1. R \in SUBSET S /\ IsFiniteSet(R)
    BY FS_Subset
  <1>2. g = Unfolding(w, S, g) /\ h = Unfolding(w, R, h)
    <2>1. \E f : f = Unfolding(w, S, f)
      BY UnfoldingExists
    <2>2. \E f : f = Unfolding(w, R, f)
      BY <1>1, UnfoldingExists
    <2> QED
      BY <2>1, <2>2, Zenon
  <1>3. SumFunctionOnSet(w, S) = g[S] /\ SumFunctionOnSet(w, R) = h[R]
    BY SumIs
  <1> HIDE DEF g, h
  <1>4. g[S] = w[Choice(S)] + g[R]
    BY <1>2 DEF Unfolding
  <1>5. g[R] = h[R]
    <2> HIDE DEF R
    <2> QED
      BY <1>1, <1>2, UnfoldingsAgree
  <1> QED
    BY <1>3, <1>4, <1>5

\* Sums of the same numbers are the same.
LEMMA SameSum ==
  ASSUME NEW w, NEW v, NEW S, IsFiniteSet(S), \A x \in S : w[x] = v[x]
  PROVE  SumFunctionOnSet(w, S) = SumFunctionOnSet(v, S)
  <1> DEFINE g == CHOOSE g : g = Unfolding(w, S, g)
             h == CHOOSE h : h = Unfolding(v, S, h)
  <1>1. g = Unfolding(w, S, g) /\ h = Unfolding(v, S, h)
    <2>1. (\E f : f = Unfolding(w, S, f)) /\ (\E f : f = Unfolding(v, S, f))
      BY UnfoldingExists
    <2> QED
      BY <2>1, Zenon
  <1>2. SumFunctionOnSet(w, S) = g[S] /\ SumFunctionOnSet(v, S) = h[S]
    BY SumIs
  <1> HIDE DEF g, h
  <1>3. g[S] = h[S]
    BY <1>1, UnfoldingsAgree
  <1> QED
    BY <1>2, <1>3

LEMMA SumType ==
  ASSUME NEW w, NEW S, IsFiniteSet(S), \A x \in S : w[x] \in Nat
  PROVE  SumFunctionOnSet(w, S) \in Nat
  <1> DEFINE B == {s \in SUBSET S : SumFunctionOnSet(w, s) \notin Nat}
  <1> SUFFICES ASSUME B # {} PROVE FALSE
    OBVIOUS
  <1>1. PICK s \in B : \A u \in B : u \subseteq s => u = s
    <2>1. B \in SUBSET (SUBSET S)
      OBVIOUS
    <2> HIDE DEF B
    <2> QED
      BY <2>1, SmallestSet
  <1>2. s # {} /\ IsFiniteSet(s)
    <2>1. SumFunctionOnSet(w, s) \notin Nat /\ s \in SUBSET S
      OBVIOUS
    <2> HIDE DEF B
    <2>2. SumFunctionOnSet(w, {}) = 0
      BY EmptySum
    <2>3. SumFunctionOnSet(w, {}) \in Nat
      BY <2>2
    <2>4. s # {}
      BY <2>1, <2>3, Zenon
    <2> QED
      BY <2>1, <2>4, FS_Subset
  <1>3. Choice(s) \in s /\ w[Choice(s)] \in Nat
    BY <1>2, ChoiceIn
  <1>4. s \ {Choice(s)} \notin B
    BY <1>1, <1>3
  <1>5. SumFunctionOnSet(w, s \ {Choice(s)}) \in Nat
    BY <1>4
  <1> QED
    BY <1>2, <1>3, <1>5, SumOfChoice

\* A sum is any of its members and the sum of the rest.
LEMMA SumOfAny ==
  ASSUME NEW w, NEW S, IsFiniteSet(S), \A x \in S : w[x] \in Nat, NEW x \in S
  PROVE  SumFunctionOnSet(w, S) = w[x] + SumFunctionOnSet(w, S \ {x})
  <1> DEFINE sum(s) == SumFunctionOnSet(w, s)
             B == {s \in SUBSET S : \E y \in s : sum(s) # w[y] + sum(s \ {y})}
  <1> SUFFICES ASSUME B # {} PROVE FALSE
    OBVIOUS
  <1>1. PICK s \in B : \A u \in B : u \subseteq s => u = s
    <2>1. B \in SUBSET (SUBSET S)
      OBVIOUS
    <2> HIDE DEF B
    <2> QED
      BY <2>1, SmallestSet
  <1>2. PICK y \in s : sum(s) # w[y] + sum(s \ {y})
    OBVIOUS
  <1> DEFINE c == Choice(s)
  <1>3. c \in s /\ IsFiniteSet(s) /\ w[c] \in Nat /\ w[y] \in Nat
    BY <1>2, ChoiceIn, FS_Subset
  <1>4. sum(s) = w[c] + sum(s \ {c})
    BY <1>2, <1>3, SumOfChoice
  <1> HIDE DEF c, sum
  <1>5. c # y
    BY <1>2, <1>4
  <1>6. s \ {c} \notin B /\ s \ {y} \notin B
    BY <1>1, <1>2, <1>3
  <1>7. sum(s \ {c}) = w[y] + sum((s \ {c}) \ {y})
    BY <1>2, <1>5, <1>6
  <1>8. sum(s \ {y}) = w[c] + sum((s \ {y}) \ {c})
    BY <1>3, <1>5, <1>6
  <1>9. (s \ {c}) \ {y} = (s \ {y}) \ {c}
    OBVIOUS
  <1>10. sum((s \ {y}) \ {c}) \in Nat
    <2>1. IsFiniteSet((s \ {y}) \ {c})
      BY <1>3, FS_Subset
    <2> QED
      BY <2>1, SumType DEF sum
  <1>11. sum(s) = w[c] + (w[y] + sum((s \ {y}) \ {c}))
    BY <1>4, <1>7, <1>9
  <1> HIDE DEF B
  <1> QED
    BY <1>2, <1>3, <1>8, <1>10, <1>11

LEMMA SumOfZeros ==
  ASSUME NEW w, NEW S, IsFiniteSet(S), \A x \in S : w[x] = 0
  PROVE  SumFunctionOnSet(w, S) = 0
  <1> DEFINE B == {s \in SUBSET S : SumFunctionOnSet(w, s) # 0}
  <1> SUFFICES ASSUME B # {} PROVE FALSE
    OBVIOUS
  <1>1. PICK s \in B : \A u \in B : u \subseteq s => u = s
    <2>1. B \in SUBSET (SUBSET S)
      OBVIOUS
    <2> HIDE DEF B
    <2> QED
      BY <2>1, SmallestSet
  <1>2. SumFunctionOnSet(w, s) # 0 /\ s \in SUBSET S
    OBVIOUS
  <1>3. s # {}
    <2>1. SumFunctionOnSet(w, {}) = 0
      BY EmptySum
    <2> HIDE DEF B
    <2> QED
      BY <1>2, <2>1, Zenon
  <1>4. Choice(s) \in s /\ w[Choice(s)] = 0 /\ IsFiniteSet(s)
    BY <1>2, <1>3, ChoiceIn, FS_Subset
  <1>5. s \ {Choice(s)} \notin B
    BY <1>1, <1>4
  <1>6. SumFunctionOnSet(w, s \ {Choice(s)}) = 0
    BY <1>5
  <1> QED
    BY <1>2, <1>3, <1>4, <1>6, SumOfChoice

\* One more number in a sum.
LEMMA SumWithOneMore ==
  ASSUME NEW w, NEW S, IsFiniteSet(S), NEW x, x \notin S,
         \A y \in S \cup {x} : w[y] \in Nat
  PROVE  SumFunctionOnSet(w, S \cup {x}) = SumFunctionOnSet(w, S) + w[x]
  <1> DEFINE T == S \cup {x}
  <1>1. IsFiniteSet(T) /\ x \in T /\ T \ {x} = S
    BY FS_AddElement
  <1>2. SumFunctionOnSet(w, T) = w[x] + SumFunctionOnSet(w, T \ {x})
    <2> HIDE DEF T
    <2> QED
      BY <1>1, SumOfAny DEF T
  <1>3. SumFunctionOnSet(w, S) \in Nat /\ w[x] \in Nat
    BY SumType
  <1>4. SumFunctionOnSet(w, T) = w[x] + SumFunctionOnSet(w, S)
    BY <1>1, <1>2
  <1> QED
    BY <1>3, <1>4

\* One number of a sum grows.
LEMMA SumWithOneGrown ==
  ASSUME NEW w, NEW v, NEW S, IsFiniteSet(S), NEW x \in S, NEW c \in Nat, v[x] = w[x] + c,
         \A y \in S : w[y] \in Nat, \A y \in S \ {x} : v[y] = w[y]
  PROVE  SumFunctionOnSet(v, S) = SumFunctionOnSet(w, S) + c
  <1> DEFINE R == S \ {x}
  <1>1. IsFiniteSet(R) /\ R \subseteq S
    BY FS_Subset
  <1>2. \A y \in S : v[y] \in Nat
    OBVIOUS
  <1>3. SumFunctionOnSet(v, S) = v[x] + SumFunctionOnSet(v, R)
    BY <1>2, SumOfAny
  <1>4. SumFunctionOnSet(w, S) = w[x] + SumFunctionOnSet(w, R)
    BY SumOfAny
  <1>5. SumFunctionOnSet(v, R) = SumFunctionOnSet(w, R)
    <2> HIDE DEF R
    <2> QED
      BY <1>1, SameSum DEF R
  <1>6. SumFunctionOnSet(w, R) \in Nat
    <2> HIDE DEF R
    <2> QED
      BY <1>1, SumType
  <1> QED
    BY <1>3, <1>4, <1>5, <1>6

-----------------------------------------------------------------------------
(* The months and their days. *)

\* t adds to a day of month m or before, and to a month after m.
Straddles(t, m) == MonthOf(billed[t]["daily"]) <= m /\ m < MonthOf(billed[t]["monthly"])

\* The tasks that have yet to add to such a day.
ToStray(m) == {t \in Task : step[t] = <<"incr", "daily">> /\ Straddles(t, m)}

\* The tasks that have, now or earlier.
Strayed(m) == crossed[m] \ ToStray(m)

\* A task crosses the end of a month in one step, and never again: its next day is
\* already past it.
CrossersKnown ==
    \A m \in Month : /\ ToStray(m) \subseteq crossed[m]
                     /\ \A t \in crossed[m] : m < MonthOf(day)

\* MonthMatchesDays, counting only what has strayed.
Level(m) ==
    /\ MonthSpend(m) <= DaySpend(m)
    /\ DaySpend(m) <= MonthSpend(m) + MaxCost * Cardinality(Strayed(m))

MonthsLevel == \A m \in Month : Level(m)

LEMMA MonthOfDate ==
  ASSUME NEW d \in 0..LastDay
  PROVE  MonthOf(d) \in Month /\ MonthOf(d) \in 0..LastDay /\ d \in Nat
  <1>1. d \in Nat /\ d <= LastDay /\ Length["monthly"] \in Nat \ {0} /\ LastDay \in Nat
    BY LengthType, BudgetAssumption DEF Period
  <1>2. d \div Length["monthly"] \in 0..d
    BY <1>1, PeriodOf
  <1> QED
    BY <1>1, <1>2 DEF Month, MonthOf

LEMMA MonthsInOrder ==
  ASSUME NEW d \in Nat, NEW e \in Nat, d <= e
  PROVE  MonthOf(d) <= MonthOf(e) /\ MonthOf(d) \in Nat /\ MonthOf(e) \in Nat
  BY LengthType, PeriodOf, PeriodsInOrder DEF MonthOf, Period

LEMMA MonthIsNat == Month \subseteq 0..LastDay /\ Month \subseteq Nat
  BY MonthOfDate DEF Month

LEMMA MonthType ==
  ASSUME TypeOK, NEW t \in Task
  PROVE  /\ KeyAt("daily", billed[t]["daily"]) = <<"daily", billed[t]["daily"]>>
         /\ KeyAt("monthly", billed[t]["monthly"]) = <<"monthly", MonthOf(billed[t]["monthly"])>>
         /\ <<"daily", billed[t]["daily"]>> \in Key
         /\ <<"monthly", MonthOf(billed[t]["monthly"])>> \in Key
         /\ MonthOf(billed[t]["daily"]) \in Nat /\ MonthOf(billed[t]["monthly"]) \in Nat
  <1>1. /\ billed[t]["daily"] \in 0..LastDay /\ billed[t]["monthly"] \in 0..LastDay
        /\ "daily" \in Period /\ "monthly" \in Period
    BY DEF TypeOK, Period
  <1>2. Length["daily"] = 1
    BY BudgetAssumption
  <1>3. KeyAt("daily", billed[t]["daily"]) = <<"daily", billed[t]["daily"]>>
    BY <1>1, <1>2 DEF KeyAt
  <1>4. KeyAt("monthly", billed[t]["monthly"]) = <<"monthly", MonthOf(billed[t]["monthly"])>>
    BY DEF KeyAt, MonthOf
  <1>5. MonthOf(billed[t]["daily"]) \in Nat /\ MonthOf(billed[t]["monthly"]) \in Nat
    BY <1>1, MonthOfDate
  <1> QED
    BY <1>1, <1>3, <1>4, <1>5, KeyType

LEMMA SummandsFinite ==
  /\ \A m : IsFiniteSet(BetweenTotals(m)) /\ BetweenTotals(m) \subseteq Task
  /\ \A m : IsFiniteSet(DayKeys(m)) /\ DayKeys(m) \subseteq Key
  /\ \A m : IsFiniteSet(MonthKeys(m)) /\ MonthKeys(m) \subseteq Key
  <1>1. IsFiniteSet(Task) /\ IsFiniteSet(Period) /\ IsFiniteSet(0..LastDay)
    <2>1. IsFiniteSet({"daily"} \cup {"monthly"})
      BY FS_Singleton, FS_AddElement
    <2>2. Period = {"daily"} \cup {"monthly"}
      BY DEF Period
    <2> QED
      BY <2>1, <2>2, FS_Interval, BudgetAssumption
  <1>2. IsFiniteSet(Key)
    BY <1>1, FS_Product DEF Key
  <1> QED
    BY <1>1, <1>2, FS_Subset DEF BetweenTotals, DayKeys, MonthKeys

\* The sums of a month are of natural numbers.
LEMMA SpendType ==
  ASSUME TypeOK
  PROVE  /\ \A u \in Task : owed[u] \in Nat /\ owed[u] <= MaxCost
         /\ \A k \in Key : spent[k] \in Nat
         /\ \A m : DaySpend(m) \in Nat /\ MonthSpend(m) \in Nat
  <1>1. /\ \A u \in Task : owed[u] \in Nat /\ owed[u] <= MaxCost
        /\ \A k \in Key : spent[k] \in Nat
    BY BudgetAssumption DEF TypeOK
  <1>2. ASSUME NEW m PROVE DaySpend(m) \in Nat /\ MonthSpend(m) \in Nat
    <2>1. \A k \in DayKeys(m) \cup MonthKeys(m) : spent[k] \in Nat
      BY <1>1, SummandsFinite
    <2>2. \A u \in BetweenTotals(m) : owed[u] \in Nat
      BY <1>1, SummandsFinite
    <2>3. SumFunctionOnSet(spent, DayKeys(m)) \in Nat
      BY <2>1, SummandsFinite, SumType
    <2>4. SumFunctionOnSet(spent, MonthKeys(m)) \in Nat
      BY <2>1, SummandsFinite, SumType
    <2>5. SumFunctionOnSet(owed, BetweenTotals(m)) \in Nat
      BY <2>2, SummandsFinite, SumType
    <2> QED
      BY <2>3, <2>4, <2>5 DEF DaySpend, MonthSpend
  <1> QED
    BY <1>1, <1>2

LEMMA StrayedFinite ==
  ASSUME TypeOK, NEW m \in Month
  PROVE  /\ IsFiniteSet(crossed[m]) /\ IsFiniteSet(Strayed(m))
         /\ Cardinality(Strayed(m)) \in Nat /\ Cardinality(crossed[m]) \in Nat
         /\ Cardinality(Strayed(m)) <= Cardinality(crossed[m])
  <1>1. crossed[m] \subseteq Task /\ Strayed(m) \subseteq crossed[m] /\ IsFiniteSet(Task)
    BY BudgetAssumption DEF TypeOK, Strayed
  <1>2. IsFiniteSet(crossed[m])
    BY <1>1, FS_Subset
  <1> QED
    BY <1>1, <1>2, FS_Subset, FS_CardinalityType

\* Who has crossed a month's end is known before it adds to its day.
LEMMA CrossersKnownKept ==
  ASSUME TypeOK, TypeOK', BilledBefore, CrossersKnown, [Next]_vars
  PROVE  CrossersKnown'
  <1>1. day' \in {day, day + 1} /\ day \in Nat /\ day' \in Nat
    <2>1. day' = day \/ day' = day + 1
      BY StepKinds DEF Incr, SetTTL, Drop, DayPasses
    <2> QED
      BY <2>1 DEF TypeOK
  <1>2. MonthOf(day) <= MonthOf(day') /\ MonthOf(day) \in Nat /\ MonthOf(day') \in Nat
    BY <1>1, MonthsInOrder
  <1> SUFFICES ASSUME NEW m \in Month
               PROVE  /\ ToStray(m)' \subseteq crossed'[m]
                      /\ \A t \in crossed'[m] : m < MonthOf(day')
    BY DEF CrossersKnown, MonthOf
  <1>3. m \in Nat
    BY MonthIsNat
  <1>4. ASSUME crossed' = crossed, ToStray(m)' \subseteq ToStray(m)
        PROVE  /\ ToStray(m)' \subseteq crossed'[m]
               /\ \A t \in crossed'[m] : m < MonthOf(day')
    BY <1>2, <1>3, <1>4 DEF CrossersKnown
  <1>5. ASSUME NEW t \in Task, NEW cost \in Cost, Bill(t, cost)
        PROVE  /\ ToStray(m)' \subseteq crossed'[m]
               /\ \A u \in crossed'[m] : m < MonthOf(day')
    <2>1. /\ billed' = [billed EXCEPT ![t] = [p \in Period |-> IF p = "daily" THEN day ELSE day']]
          /\ step' = [step EXCEPT ![t] = <<"incr", "daily">>]
          /\ crossed'[m] = crossed[m] \cup (IF MonthOf(day) <= m /\ m < MonthOf(day') THEN {t} ELSE {})
      BY <1>5 DEF Bill
    <2>2. billed'[t]["daily"] = day /\ billed'[t]["monthly"] = day'
      BY <2>1 DEF TypeOK, Period
    <2>3. \A u \in Task \ {t} : u \in ToStray(m)' => u \in ToStray(m)
      BY <2>1 DEF ToStray, Straddles, MonthOf, TypeOK
    <2>4. t \in ToStray(m)' => MonthOf(day) <= m /\ m < MonthOf(day')
      BY <2>2 DEF ToStray, Straddles, MonthOf
    <2>5. ToStray(m)' \subseteq Task
      BY DEF ToStray
    <2>6. ToStray(m)' \subseteq crossed'[m]
      BY <2>1, <2>3, <2>4, <2>5 DEF CrossersKnown
    <2>7. \A u \in crossed[m] : m < MonthOf(day')
      BY <1>2, <1>3 DEF CrossersKnown
    <2> QED
      BY <2>1, <2>6, <2>7
  <1>6. ASSUME NEW t \in Task, crossed' = crossed, step'[t] # <<"incr", "daily">>,
               \A u \in Task \ {t} : step'[u] = step[u] /\ billed'[u] = billed[u]
        PROVE  /\ ToStray(m)' \subseteq crossed'[m]
               /\ \A u \in crossed'[m] : m < MonthOf(day')
    <2>1. ToStray(m)' \subseteq ToStray(m)
      BY <1>6 DEF ToStray, Straddles
    <2> QED
      BY <1>4, <1>6, <2>1
  <1>7. ASSUME UNCHANGED <<step, billed, crossed>>
        PROVE  /\ ToStray(m)' \subseteq crossed'[m]
               /\ \A u \in crossed'[m] : m < MonthOf(day')
    BY <1>4, <1>7 DEF ToStray, Straddles
  <1>8. ASSUME NEW t \in Task, Refuse(t) \/ Fail(t)
        PROVE  UNCHANGED <<step, billed, crossed>>
    BY <1>8 DEF Refuse, Fail, vars
  <1>9. ASSUME NEW t \in Task, NEW p \in Period,
               Check(t) \/ EndUnbilled(t) \/ Incr(t, p) \/ SetTTL(t, p)
        PROVE  /\ crossed' = crossed /\ step'[t] # <<"incr", "daily">>
               /\ \A u \in Task \ {t} : step'[u] = step[u] /\ billed'[u] = billed[u]
    BY <1>9 DEF Check, EndUnbilled, Incr, SetTTL, Forget, TypeOK, AfterIncr, AfterExpire,
                Idle, Dispatched
  <1>10. ASSUME \/ \E k \in Key : Drop(k)
                \/ Midnight
                \/ UNCHANGED vars
         PROVE  UNCHANGED <<step, billed, crossed>>
    BY <1>10 DEF Drop, Midnight, vars
  <1> QED
    BY <1>5, <1>6, <1>7, <1>8, <1>9, <1>10 DEF Next, Period

\* A step that adds to no total, and moves nobody between them.
LEMMA MonthUntouched ==
  ASSUME TypeOK, NEW m \in Month, Level(m), spent' = spent,
         BetweenTotals(m)' = BetweenTotals(m),
         \A t \in BetweenTotals(m) : owed'[t] = owed[t],
         Strayed(m)' = Strayed(m)
  PROVE  Level(m)'
  <1>1. SumFunctionOnSet(owed, BetweenTotals(m)) = SumFunctionOnSet(owed', BetweenTotals(m))
    BY SummandsFinite, SameSum
  <1>2. DaySpend(m)' = DaySpend(m)
    BY DEF DaySpend, DayKeys, MonthOf
  <1>3. MonthSpend(m)' = MonthSpend(m)
    BY <1>1 DEF MonthSpend, MonthKeys
  <1> QED
    BY <1>2, <1>3 DEF Level

\* INCRBYFLOAT on a daily total puts the task between it and its month's.
LEMMA SpendAtDailyIncr ==
  ASSUME TypeOK, NEW t \in Task, Incr(t, "daily"), NEW m \in Month
  PROVE  /\ DaySpend(m)' = DaySpend(m)
                + (IF MonthOf(billed[t]["daily"]) <= m THEN owed[t] ELSE 0)
         /\ MonthSpend(m)' = MonthSpend(m)
                + (IF MonthOf(billed[t]["monthly"]) <= m THEN owed[t] ELSE 0)
  <1> DEFINE d == <<"daily", billed[t]["daily"]>>
  <1>1. /\ step[t] = <<"incr", "daily">> /\ step' = [step EXCEPT ![t] = <<"expire", "daily">>]
        /\ spent' = [spent EXCEPT ![d] = @ + owed[t]]
        /\ UNCHANGED <<owed, billed>> /\ d \in Key
    BY MonthType DEF Incr, At, AfterIncr
  <1>2. /\ owed[t] \in Nat /\ (\A u \in Task : owed[u] \in Nat) /\ (\A k \in Key : spent[k] \in Nat)
        /\ DaySpend(m) \in Nat /\ MonthSpend(m) \in Nat
    BY SpendType
  <1>3. DaySpend(m)' = SumFunctionOnSet(spent', DayKeys(m))
    BY DEF DaySpend, DayKeys, MonthOf
  <1>4. SumFunctionOnSet(spent', MonthKeys(m)) = SumFunctionOnSet(spent, MonthKeys(m))
    <2>1. \A k \in MonthKeys(m) : spent[k] = spent'[k]
      BY <1>1 DEF MonthKeys, TypeOK
    <2> QED
      BY <2>1, SummandsFinite, SameSum
  <1>5. MonthSpend(m)' = SumFunctionOnSet(spent, MonthKeys(m))
                            + SumFunctionOnSet(owed, BetweenTotals(m)')
    BY <1>1, <1>4 DEF MonthSpend, MonthKeys
  <1>6. SumFunctionOnSet(spent, MonthKeys(m)) \in Nat
        /\ SumFunctionOnSet(owed, BetweenTotals(m)) \in Nat
    <2>1. (\A k \in MonthKeys(m) : spent[k] \in Nat) /\ (\A u \in BetweenTotals(m) : owed[u] \in Nat)
      BY <1>2, SummandsFinite
    <2> QED
      BY <2>1, SummandsFinite, SumType
  <1>7. DaySpend(m)' = DaySpend(m) + (IF MonthOf(billed[t]["daily"]) <= m THEN owed[t] ELSE 0)
    <2>1. CASE MonthOf(billed[t]["daily"]) <= m
      <3>1. d \in DayKeys(m)
        BY <1>1, <2>1 DEF DayKeys
      <3>2. /\ \A k \in DayKeys(m) : spent[k] \in Nat
            /\ \A k \in DayKeys(m) \ {d} : spent'[k] = spent[k]
            /\ spent'[d] = spent[d] + owed[t]
        BY <1>1, <1>2, SummandsFinite DEF TypeOK
      <3>3. SumFunctionOnSet(spent', DayKeys(m)) = SumFunctionOnSet(spent, DayKeys(m)) + owed[t]
        <4> HIDE DEF d
        <4> QED
          BY <1>2, <3>1, <3>2, SummandsFinite, SumWithOneGrown
      <3> QED
        BY <1>3, <2>1, <3>3 DEF DaySpend
    <2>2. CASE ~(MonthOf(billed[t]["daily"]) <= m)
      <3>1. \A k \in DayKeys(m) : spent[k] = spent'[k]
        BY <1>1, <2>2 DEF DayKeys, TypeOK
      <3>2. SumFunctionOnSet(spent, DayKeys(m)) = SumFunctionOnSet(spent', DayKeys(m))
        BY <3>1, SummandsFinite, SameSum
      <3> QED
        BY <1>2, <1>3, <2>2, <3>2 DEF DaySpend
    <2> QED
      BY <2>1, <2>2
  <1>8. MonthSpend(m)' = MonthSpend(m) + (IF MonthOf(billed[t]["monthly"]) <= m THEN owed[t] ELSE 0)
    <2>1. t \notin BetweenTotals(m)
      BY <1>1 DEF BetweenTotals
    <2>2. CASE MonthOf(billed[t]["monthly"]) <= m
      <3>1. BetweenTotals(m)' = BetweenTotals(m) \cup {t}
        BY <1>1, <2>2 DEF BetweenTotals, MonthOf, TypeOK
      <3>2. \A u \in BetweenTotals(m) \cup {t} : owed[u] \in Nat
        BY <1>2, SummandsFinite
      <3>3. SumFunctionOnSet(owed, BetweenTotals(m) \cup {t})
              = SumFunctionOnSet(owed, BetweenTotals(m)) + owed[t]
        BY <2>1, <3>2, SummandsFinite, SumWithOneMore
      <3> QED
        BY <1>2, <1>5, <1>6, <2>2, <3>1, <3>3 DEF MonthSpend
    <2>3. CASE ~(MonthOf(billed[t]["monthly"]) <= m)
      <3>1. BetweenTotals(m)' = BetweenTotals(m)
        BY <1>1, <2>1, <2>3 DEF BetweenTotals, MonthOf, TypeOK
      <3> QED
        BY <1>2, <1>5, <2>3, <3>1 DEF MonthSpend
    <2> QED
      BY <2>2, <2>3
  <1> QED
    BY <1>7, <1>8

\* INCRBYFLOAT on a monthly total settles what was on its way to it.
LEMMA SpendAtMonthlyIncr ==
  ASSUME TypeOK, NEW t \in Task, Incr(t, "monthly"), NEW m \in Month
  PROVE  DaySpend(m)' = DaySpend(m) /\ MonthSpend(m)' = MonthSpend(m)
  <1> DEFINE k0 == <<"monthly", MonthOf(billed[t]["monthly"])>>
  <1>1. /\ step[t] = <<"incr", "monthly">> /\ step' = [step EXCEPT ![t] = <<"expire", "monthly">>]
        /\ spent' = [spent EXCEPT ![k0] = @ + owed[t]]
        /\ UNCHANGED <<owed, billed>> /\ k0 \in Key
    BY MonthType DEF Incr, At, AfterIncr
  <1>2. /\ owed[t] \in Nat /\ (\A u \in Task : owed[u] \in Nat) /\ (\A k \in Key : spent[k] \in Nat)
        /\ DaySpend(m) \in Nat /\ MonthSpend(m) \in Nat
    BY SpendType
  <1>3. DaySpend(m)' = DaySpend(m)
    <2>1. \A k \in DayKeys(m) : spent[k] = spent'[k]
      BY <1>1 DEF DayKeys, TypeOK
    <2>2. SumFunctionOnSet(spent, DayKeys(m)) = SumFunctionOnSet(spent', DayKeys(m))
      BY <2>1, SummandsFinite, SameSum
    <2> QED
      BY <2>2 DEF DaySpend, DayKeys, MonthOf
  <1>4. MonthSpend(m)' = SumFunctionOnSet(spent', MonthKeys(m))
                            + SumFunctionOnSet(owed, BetweenTotals(m)')
    BY <1>1 DEF MonthSpend, MonthKeys
  <1>5. CASE MonthOf(billed[t]["monthly"]) <= m
    <2>1. BetweenTotals(m)' = BetweenTotals(m) \ {t} /\ t \in BetweenTotals(m)
      BY <1>1, <1>5 DEF BetweenTotals, MonthOf, TypeOK
    <2>2. k0 \in MonthKeys(m)
      BY <1>1, <1>5 DEF MonthKeys
    <2>3. /\ \A k \in MonthKeys(m) : spent[k] \in Nat
          /\ \A k \in MonthKeys(m) \ {k0} : spent'[k] = spent[k]
          /\ spent'[k0] = spent[k0] + owed[t]
      BY <1>1, <1>2, SummandsFinite DEF TypeOK
    <2>4. SumFunctionOnSet(spent', MonthKeys(m)) = SumFunctionOnSet(spent, MonthKeys(m)) + owed[t]
      <3> HIDE DEF k0
      <3> QED
        BY <1>2, <2>2, <2>3, SummandsFinite, SumWithOneGrown
    <2>5. \A u \in BetweenTotals(m) : owed[u] \in Nat
      BY <1>2, SummandsFinite
    <2>6. SumFunctionOnSet(owed, BetweenTotals(m))
            = owed[t] + SumFunctionOnSet(owed, BetweenTotals(m) \ {t})
      BY <2>1, <2>5, SummandsFinite, SumOfAny
    <2>7. SumFunctionOnSet(owed, BetweenTotals(m) \ {t}) \in Nat
      <3>1. IsFiniteSet(BetweenTotals(m) \ {t})
        BY SummandsFinite, FS_Subset
      <3> QED
        BY <2>5, <3>1, SumType
    <2>8. SumFunctionOnSet(spent, MonthKeys(m)) \in Nat
      BY <2>3, SummandsFinite, SumType
    <2> QED
      BY <1>2, <1>3, <1>4, <2>1, <2>4, <2>6, <2>7, <2>8 DEF MonthSpend
  <1>6. CASE ~(MonthOf(billed[t]["monthly"]) <= m)
    <2>1. BetweenTotals(m)' = BetweenTotals(m)
      BY <1>1, <1>6 DEF BetweenTotals, MonthOf, TypeOK
    <2>2. \A k \in MonthKeys(m) : spent[k] = spent'[k]
      BY <1>1, <1>6 DEF MonthKeys, TypeOK
    <2>3. SumFunctionOnSet(spent, MonthKeys(m)) = SumFunctionOnSet(spent', MonthKeys(m))
      BY <2>2, SummandsFinite, SameSum
    <2> QED
      BY <1>3, <1>4, <2>1, <2>3 DEF MonthSpend
  <1> QED
    BY <1>5, <1>6

\* What a task that straddles the end of month m adds to a day before it, no month up to
\* m will be billed for: it is at most MaxCost, and it has strayed.
LEMMA LevelAtDailyIncr ==
  ASSUME TypeOK, BilledBefore, CrossersKnown, NEW m \in Month, Level(m),
         NEW t \in Task, Incr(t, "daily")
  PROVE  Level(m)'
  <1>1. /\ step[t] = <<"incr", "daily">> /\ step' = [step EXCEPT ![t] = <<"expire", "daily">>]
        /\ UNCHANGED <<owed, billed, crossed>>
    BY DEF Incr, At, AfterIncr
  <1>2. /\ owed[t] \in Nat /\ owed[t] <= MaxCost /\ MaxCost \in Nat
        /\ DaySpend(m) \in Nat /\ MonthSpend(m) \in Nat
    BY SpendType, BudgetAssumption
  <1>3. /\ MonthOf(billed[t]["daily"]) <= MonthOf(billed[t]["monthly"])
        /\ MonthOf(billed[t]["daily"]) \in Nat /\ MonthOf(billed[t]["monthly"]) \in Nat
        /\ m \in Nat
    <2>1. billed[t]["daily"] \in Nat /\ billed[t]["monthly"] \in Nat
          /\ billed[t]["daily"] <= billed[t]["monthly"]
      BY DEF TypeOK, BilledBefore, Period
    <2> QED
      BY <2>1, MonthsInOrder, MonthIsNat
  <1>4. /\ IsFiniteSet(Strayed(m)) /\ Cardinality(Strayed(m)) \in Nat
        /\ Level(m)
    BY StrayedFinite
  <1>5. CASE Straddles(t, m)
    <2>1. t \in crossed[m] /\ t \in ToStray(m)
      BY <1>1, <1>5 DEF CrossersKnown, ToStray
    <2>2. ToStray(m)' = ToStray(m) \ {t}
      BY <1>1 DEF ToStray, Straddles, MonthOf, TypeOK
    <2>3. Strayed(m)' = Strayed(m) \cup {t} /\ t \notin Strayed(m)
      BY <1>1, <2>1, <2>2 DEF Strayed
    <2>4. Cardinality(Strayed(m)') = Cardinality(Strayed(m)) + 1
      BY <1>4, <2>3, FS_AddElement
    <2>5. DaySpend(m)' = DaySpend(m) + owed[t] /\ MonthSpend(m)' = MonthSpend(m)
      BY <1>2, <1>3, <1>5, SpendAtDailyIncr DEF Straddles
    <2> DEFINE a == Cardinality(Strayed(m))
    <2>6. MaxCost * (a + 1) = MaxCost * a + MaxCost /\ MaxCost * a \in Nat
      BY <1>2, <1>4
    <2>7. DaySpend(m) <= MonthSpend(m) + MaxCost * a /\ MonthSpend(m) <= DaySpend(m)
      BY DEF Level
    <2>8. MonthSpend(m)' <= DaySpend(m)'
      BY <1>2, <2>5, <2>7
    <2>9. DaySpend(m)' <= MonthSpend(m)' + MaxCost * Cardinality(Strayed(m)')
      <3> HIDE DEF a
      <3>1. MonthSpend(m)' + MaxCost * Cardinality(Strayed(m)') = MonthSpend(m) + (MaxCost * a + MaxCost)
        BY <2>4, <2>5, <2>6 DEF a
      <3> QED
        BY <1>2, <2>5, <2>6, <2>7, <3>1
    <2> QED
      BY <2>8, <2>9 DEF Level
  <1>6. CASE ~Straddles(t, m)
    <2>1. ToStray(m)' = ToStray(m)
      BY <1>1, <1>6 DEF ToStray, Straddles, MonthOf, TypeOK
    <2>2. Strayed(m)' = Strayed(m)
      BY <1>1, <2>1 DEF Strayed
    <2>3. \/ DaySpend(m)' = DaySpend(m) + owed[t] /\ MonthSpend(m)' = MonthSpend(m) + owed[t]
          \/ DaySpend(m)' = DaySpend(m) /\ MonthSpend(m)' = MonthSpend(m)
      BY <1>2, <1>3, <1>6, SpendAtDailyIncr DEF Straddles
    <2> DEFINE b == MaxCost * Cardinality(Strayed(m))
    <2>4. b \in Nat
      BY <1>2, <1>4
    <2>5. MonthSpend(m) <= DaySpend(m) /\ DaySpend(m) <= MonthSpend(m) + b
      BY DEF Level
    <2>6. MonthSpend(m)' <= DaySpend(m)' /\ DaySpend(m)' <= MonthSpend(m)' + b
      <3> HIDE DEF b
      <3> QED
        BY <1>2, <2>3, <2>4, <2>5
    <2> QED
      BY <2>2, <2>6 DEF Level
  <1> QED
    BY <1>5, <1>6

LEMMA LevelAtMonthlyIncr ==
  ASSUME TypeOK, NEW m \in Month, Level(m), NEW t \in Task, Incr(t, "monthly")
  PROVE  Level(m)'
  <1>1. /\ step[t] = <<"incr", "monthly">> /\ step' = [step EXCEPT ![t] = <<"expire", "monthly">>]
        /\ UNCHANGED <<billed, crossed>>
    BY DEF Incr, At, AfterIncr
  <1>2. Strayed(m)' = Strayed(m)
    BY <1>1 DEF Strayed, ToStray, Straddles, MonthOf, TypeOK
  <1> QED
    BY <1>2, SpendAtMonthlyIncr DEF Level

\* Computing the keys moves no money; who crosses the end of a month now never did before.
LEMMA LevelAtBill ==
  ASSUME TypeOK, CrossersKnown, NEW m \in Month, Level(m),
         NEW t \in Task, NEW cost \in Cost, Bill(t, cost)
  PROVE  Level(m)'
  <1>1. /\ step[t] = Dispatched /\ step' = [step EXCEPT ![t] = <<"incr", "daily">>]
        /\ billed' = [billed EXCEPT ![t] = [p \in Period |-> IF p = "daily" THEN day ELSE day']]
        /\ owed' = [owed EXCEPT ![t] = cost] /\ spent' = spent
        /\ crossed'[m] = crossed[m] \cup (IF MonthOf(day) <= m /\ m < MonthOf(day') THEN {t} ELSE {})
    BY DEF Bill, At
  <1>2. billed'[t]["daily"] = day /\ billed'[t]["monthly"] = day'
    BY <1>1 DEF TypeOK, Period
  <1>3. t \notin BetweenTotals(m) /\ t \notin ToStray(m)
    BY <1>1 DEF BetweenTotals, ToStray, Dispatched
  <1>4. BetweenTotals(m)' = BetweenTotals(m)
    BY <1>1, <1>3 DEF BetweenTotals, MonthOf, TypeOK
  <1>5. \A u \in BetweenTotals(m) : owed'[u] = owed[u]
    BY <1>1, <1>3, SummandsFinite DEF TypeOK
  <1>6. ToStray(m)' = ToStray(m) \cup (IF MonthOf(day) <= m /\ m < MonthOf(day') THEN {t} ELSE {})
    <2>1. \A u \in Task \ {t} : u \in ToStray(m)' <=> u \in ToStray(m)
      BY <1>1 DEF ToStray, Straddles, MonthOf, TypeOK
    <2>2. t \in ToStray(m)' <=> MonthOf(day) <= m /\ m < MonthOf(day')
      BY <1>1, <1>2 DEF ToStray, Straddles, MonthOf, TypeOK
    <2>3. ToStray(m)' \subseteq Task /\ ToStray(m) \subseteq Task
      BY DEF ToStray
    <2> QED
      BY <1>3, <2>1, <2>2, <2>3
  <1>7. MonthOf(day) <= m => t \notin crossed[m]
    <2>1. m \in Nat /\ MonthOf(day) \in Nat
      BY MonthIsNat, MonthOfDate DEF TypeOK
    <2> QED
      BY <2>1 DEF CrossersKnown
  <1>8. Strayed(m)' = Strayed(m)
    <2>1. Strayed(m)' = crossed'[m] \ ToStray(m)'
      BY DEF Strayed
    <2> QED
      BY <1>1, <1>3, <1>6, <1>7, <2>1 DEF Strayed
  <1> QED
    BY <1>1, <1>4, <1>5, <1>8, MonthUntouched

LEMMA MonthsLevelKept ==
  ASSUME TypeOK, BilledBefore, CrossersKnown, MonthsLevel, [Next]_vars
  PROVE  MonthsLevel'
  <1> SUFFICES ASSUME NEW m \in Month PROVE Level(m)'
    BY DEF MonthsLevel
  <1>1. Level(m)
    BY DEF MonthsLevel
  <1>2. ASSUME UNCHANGED <<step, owed, billed, spent, crossed>> PROVE Level(m)'
    <2>1. BetweenTotals(m)' = BetweenTotals(m) /\ Strayed(m)' = Strayed(m)
      BY <1>2 DEF BetweenTotals, Strayed, ToStray, Straddles, MonthOf
    <2> QED
      BY <1>1, <1>2, <2>1, MonthUntouched
  <1>3. ASSUME NEW t \in Task, Refuse(t) \/ Fail(t) PROVE Level(m)'
    BY <1>2, <1>3 DEF Refuse, Fail, vars
  <1>4. ASSUME NEW t \in Task, Check(t) \/ EndUnbilled(t) PROVE Level(m)'
    <2>1. /\ step[t] \in {Idle, Dispatched} /\ step'[t] \in {Idle, Dispatched}
          /\ \A u \in Task \ {t} : step'[u] = step[u]
          /\ UNCHANGED <<owed, billed, spent, crossed>>
      BY <1>4 DEF Check, EndUnbilled, At, TypeOK
    <2>2. BetweenTotals(m)' = BetweenTotals(m)
      BY <2>1 DEF BetweenTotals, MonthOf, Idle, Dispatched
    <2>3. ToStray(m)' = ToStray(m)
      BY <2>1 DEF ToStray, Straddles, MonthOf, Idle, Dispatched
    <2>4. Strayed(m)' = Strayed(m)
      BY <2>1, <2>3 DEF Strayed
    <2> QED
      BY <1>1, <2>1, <2>2, <2>4, MonthUntouched
  <1>5. ASSUME NEW t \in Task, NEW p \in Period, SetTTL(t, p) PROVE Level(m)'
    <2>1. /\ step[t] = <<"expire", p>> /\ step'[t] = AfterExpire(p)
          /\ spent' = spent /\ crossed' = crossed
          /\ \A u \in Task \ {t} : /\ step'[u] = step[u] /\ billed'[u] = billed[u]
                                   /\ owed'[u] = owed[u]
          /\ p = "daily" => billed'[t] = billed[t] /\ owed'[t] = owed[t]
      BY <1>5 DEF SetTTL, At, Forget, TypeOK, AfterExpire, Idle
    <2>2. BetweenTotals(m)' = BetweenTotals(m)
      BY <2>1 DEF BetweenTotals, MonthOf, AfterExpire, Idle, Period
    <2>3. \A u \in BetweenTotals(m) : owed'[u] = owed[u]
      BY <2>1 DEF BetweenTotals, Period
    <2>4. ToStray(m)' = ToStray(m)
      BY <2>1 DEF ToStray, Straddles, MonthOf, AfterExpire, Idle, Period
    <2>5. Strayed(m)' = Strayed(m)
      BY <2>1, <2>4 DEF Strayed
    <2> QED
      BY <1>1, <2>1, <2>2, <2>3, <2>5, MonthUntouched
  <1>6. ASSUME NEW t \in Task, NEW p \in Period, Incr(t, p) PROVE Level(m)'
    BY <1>1, <1>6, LevelAtDailyIncr, LevelAtMonthlyIncr DEF Period
  <1>7. ASSUME NEW t \in Task, NEW cost \in Cost, Bill(t, cost) PROVE Level(m)'
    BY <1>1, <1>7, LevelAtBill
  <1>8. ASSUME \/ \E k \in Key : Drop(k)
               \/ Midnight
               \/ UNCHANGED vars
        PROVE  Level(m)'
    BY <1>2, <1>8 DEF Drop, Midnight, vars
  <1> QED
    BY <1>3, <1>4, <1>5, <1>6, <1>7, <1>8 DEF Next

LEMMA InitMonths == Init => CrossersKnown /\ MonthsLevel
  <1> SUFFICES ASSUME Init, NEW m \in Month
               PROVE  ToStray(m) = {} /\ crossed[m] = {} /\ Level(m)
    BY DEF CrossersKnown, MonthsLevel
  <1>1. BetweenTotals(m) = {} /\ ToStray(m) = {} /\ crossed[m] = {}
    BY DEF Init, BetweenTotals, ToStray, Idle
  <1>2. Strayed(m) = {} /\ Cardinality({}) = 0
    BY <1>1, FS_EmptySet DEF Strayed
  <1>3. SumFunctionOnSet(owed, BetweenTotals(m)) = 0
    BY <1>1, EmptySum
  <1>4. SumFunctionOnSet(spent, DayKeys(m)) = 0
    BY SummandsFinite, SumOfZeros DEF Init
  <1>5. SumFunctionOnSet(spent, MonthKeys(m)) = 0
    BY SummandsFinite, SumOfZeros DEF Init
  <1> QED
    BY <1>1, <1>2, <1>3, <1>4, <1>5, BudgetAssumption DEF Level, DaySpend, MonthSpend

-----------------------------------------------------------------------------
(* The theorems. *)

LEMMA InitInductive == Init => Inductive
  <1> SUFFICES ASSUME Init PROVE Inductive
    OBVIOUS
  <1>1. TypeOK
    BY InitType
  <1>2. \A k \in Key : total[k] = 0 /\ spent[k] = 0 /\ deadline[k] = NoTTL
    BY DEF Init
  <1>3. \A k \in Key : Owing(k) = {}
    BY DEF Init, Owing, Idle, Dispatched, Before
  <1>4. BilledBefore
    BY DEF Init, BilledBefore, Period
  <1> QED
    BY <1>1, <1>2, <1>3, <1>4
    DEF Inductive, TTLsLast, NothingForgotten, NothingAhead, CommitmentBounded, TotalsExpire

\* The inductive invariant holds of record_usage() and check_budget() under any calendar.
THEOREM InductiveHolds == Spec => []Inductive
  <1>1. Init => Inductive
    BY InitInductive
  <1>2. Inductive /\ [Next]_vars => Inductive'
    BY NextType, BilledBeforeKept, TTLsLastKept, NothingForgottenKept, NothingAheadKept,
       CommitmentKept, TotalsExpireKept
    DEF Inductive
  <1> QED
    BY <1>1, <1>2, PTL DEF Spec

\* What check_budget() reads is all that was ever added in the running day and month:
\* no TTL, however late record_usage() sets it or if it never does, ends before them.
THEOREM RunningTotalKeptHolds == Spec => []RunningTotalKept
  <1>1. Inductive => RunningTotalKept
    <2> SUFFICES ASSUME Inductive, NEW p \in Period
                 PROVE  total[KeyAt(p, day)] = spent[KeyAt(p, day)]
      BY DEF RunningTotalKept
    <2>1. /\ KeyAt(p, day) \in Key /\ day \in Nat
          /\ Current(KeyAt(p, day), day) = KeyAt(p, day)[2]
      BY KeyType DEF Inductive, TypeOK, Current
    <2>2. Current(KeyAt(p, day), day) \in Nat
      BY <2>1, CurrentGrows
    <2> QED
      BY <2>1, <2>2 DEF Inductive, NothingForgotten
  <1> QED
    BY <1>1, InductiveHolds, PTL

\* The overshoot of checking before dispatch and adding after it: less than one request
\* for every task, however many of them pass check_budget() on the same total.
THEOREM OvershootBoundedHolds == Spec => []OvershootBounded
  <1>1. Inductive => OvershootBounded
    <2> SUFFICES ASSUME Inductive, NEW k \in Key, total[k] > 0
                 PROVE  total[k] < Limit(k)
      BY DEF OvershootBounded, Limit
    <2> DEFINE more == Cardinality(Owing(k)) * MaxCost
    <2>1. more \in Nat /\ total[k] \in Nat /\ Limit(k) \in Int
      BY OwingType, FewerOweLess, KeyParts, BudgetAssumption DEF Inductive, TypeOK, Limit
    <2>2. total[k] + more < Limit(k)
      BY <2>1 DEF Inductive, CommitmentBounded, Committed
    <2> HIDE DEF more
    <2> QED
      BY <2>1, <2>2
  <1> QED
    BY <1>1, InductiveHolds, PTL

\* A key without a TTL has a task on its way to EXPIRE, or one that died on it.
THEOREM TotalsExpireHolds == Spec => []TotalsExpire
  <1>1. Inductive => TotalsExpire
    BY DEF Inductive
  <1> QED
    BY <1>1, InductiveHolds, PTL

\* Up to the end of any month, what the months are billed and what their days are differ
\* by what is on its way or was lost on it, and by at most one request of each task that
\* computed its keys on either side of that end; no month is billed before its day.
THEOREM MonthMatchesDaysHolds == Spec => []MonthMatchesDays
  <1> DEFINE I == Inductive /\ CrossersKnown /\ MonthsLevel
  <1>1. Init => I
    BY InitInductive, InitMonths
  <1>2. I /\ [Next]_vars => I'
    BY NextType, BilledBeforeKept, TTLsLastKept, NothingForgottenKept, NothingAheadKept,
       CommitmentKept, TotalsExpireKept, CrossersKnownKept, MonthsLevelKept
    DEF Inductive
  <1>3. I => MonthMatchesDays
    <2> SUFFICES ASSUME I, NEW m \in Month
                 PROVE  /\ MonthSpend(m) <= DaySpend(m)
                        /\ DaySpend(m) <= MonthSpend(m) + MaxCost * Cardinality(crossed[m])
      BY DEF MonthMatchesDays
    <2> DEFINE a == Cardinality(Strayed(m))
               b == Cardinality(crossed[m])
    <2>1. a \in Nat /\ b \in Nat /\ a <= b /\ MaxCost \in Nat
          /\ DaySpend(m) \in Nat /\ MonthSpend(m) \in Nat
      BY StrayedFinite, SpendType, BudgetAssumption DEF Inductive
    <2>2. MonthSpend(m) <= DaySpend(m) /\ DaySpend(m) <= MonthSpend(m) + MaxCost * a
      BY DEF MonthsLevel, Level
    <2>3. a * MaxCost <= b * MaxCost /\ a * MaxCost = MaxCost * a /\ b * MaxCost = MaxCost * b
          /\ MaxCost * a \in Nat /\ MaxCost * b \in Nat
      <3> HIDE DEF a, b
      <3> QED
        BY <2>1, FewerOweLess
    <2> HIDE DEF a, b, I
    <2> QED
      BY <2>1, <2>2, <2>3 DEF b
  <1> QED
    BY <1>1, <1>2, <1>3, PTL DEF Spec

=============================================================================
