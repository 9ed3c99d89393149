------------------------------- MODULE Budget -------------------------------
(***************************************************************************)
(* app/budget.py: the running totals of one team in Redis, one per calendar *)
(* day and one per calendar month, and the gateway tasks, of one process or *)
(* of several, that check them before dispatch and add to them after it.    *)
(*                                                                          *)
(* Every Redis command is a step.  check_budget() is a single MGET, hence   *)
(* one step; record_usage() computes both keys, each from a clock reading   *)
(* of its own, and then awaits INCRBYFLOAT and EXPIRE on the daily key,     *)
(* then on the monthly one, so four steps more, with midnight, other tasks  *)
(* and failures between any two of them, and midnight between the readings. *)
(*                                                                          *)
(* Money is counted in whole units and time in days.  A key exists when its *)
(* total is positive: record_usage() never adds a cost that is not.         *)
(***************************************************************************)
EXTENDS Integers, FiniteSets, Functions

CONSTANTS
    Task,     \* the tasks that serve requests of this team
    Cap,      \* Cap["daily"], Cap["monthly"]: the limits in its BudgetConfig
    Length,   \* Length[p]: the days of a period
    TTL,      \* TTL[p]: _DAILY_KEY_TTL and _MONTHLY_KEY_TTL, in days
    Cost,     \* what requests cost, 0 for a model without pricing
    MaxCost,  \* the dearest request
    LastDay   \* bound on the calendar

Period == {"daily", "monthly"}

ASSUME BudgetAssumption ==
    /\ IsFiniteSet(Task)
    /\ Cap \in [Period -> Nat]
    /\ Length \in [Period -> Nat \ {0}]
    /\ Length["daily"] = 1
    /\ TTL \in [Period -> Nat \ {0}]
    /\ MaxCost \in Nat
    /\ Cost \subseteq 0..MaxCost
    /\ LastDay \in Nat

\* 48 hours for a day, 32 days for a month.
ASSUME TTLAssumption == \A p \in Period : TTL[p] >= Length[p]

VARIABLES
    day,       \* the UTC date
    total,     \* total[k]: the value of key k
    deadline,  \* deadline[k]: the day on which its TTL runs out, or NoTTL
    step,      \* step[t]: what t does next
    owed,      \* owed[t]: the cost t is recording, 0 if none
    billed,    \* billed[t][p]: the date for which t computed the key of p, 0 if none
    dead,      \* the tasks that failed inside record_usage(), frozen where they did
    spent,     \* history: spent[k], all that was ever added to k
    crossed    \* history: crossed[m], the tasks that once computed their daily key
               \* before the end of month m and their monthly key after it

vars == <<day, total, deadline, step, owed, billed, dead, spent, crossed>>

NoTTL == -1

Key == Period \X (0..LastDay)

\* _daily_key() and _monthly_key() on date d.
KeyAt(p, d) == <<p, d \div Length[p]>>

MonthOf(d) == d \div Length["monthly"]

Month == {MonthOf(d) : d \in 0..LastDay}

\* Where a task is: outside record_usage(), or about to send one of its commands.
Idle == <<"idle", "none">>
Dispatched == <<"dispatched", "none">>
Recording == {"incr", "expire"} \X Period

-----------------------------------------------------------------------------
Init ==
    /\ day = 0
    /\ total = [k \in Key |-> 0]
    /\ deadline = [k \in Key |-> NoTTL]
    /\ step = [t \in Task |-> Idle]
    /\ owed = [t \in Task |-> 0]
    /\ billed = [t \in Task |-> [p \in Period |-> 0]]
    /\ dead = {}
    /\ spent = [k \in Key |-> 0]
    /\ crossed = [m \in Month |-> {}]

\* t is about to do s.
At(t, s) == t \notin dead /\ step[t] = s

\* Variant: a total exactly at the cap still passes.
UnderCapsOffByOne == \A p \in Period : total[KeyAt(p, day)] <= Cap[p]

\* check_budget() raises BudgetExceeded as soon as one total is at its cap.
UnderCaps == \A p \in Period : total[KeyAt(p, day)] < Cap[p]

\* check_budget() raises: the request is answered 402 and nothing has changed.
Refuse(t) ==
    /\ At(t, Idle)
    /\ ~UnderCaps
    /\ UNCHANGED vars

\* check_budget() returns and the request goes on to its provider call.
Check(t) ==
    /\ At(t, Idle)
    /\ UnderCaps
    /\ step' = [step EXCEPT ![t] = Dispatched]
    /\ UNCHANGED <<day, total, deadline, owed, billed, dead, spent, crossed>>

\* The request ends without a cost: its dispatch failed, its stream was cut off
\* before it could be billed, or record_usage() got a cost of 0.
EndUnbilled(t) ==
    /\ At(t, Dispatched)
    /\ step' = [step EXCEPT ![t] = Idle]
    /\ UNCHANGED <<day, total, deadline, owed, billed, dead, spent, crossed>>

\* record_usage() up to its first await: it fixes the keys it will add to, the daily
\* one and then the monthly one, and midnight may fall between the two.
Bill(t, cost) ==
    /\ At(t, Dispatched)
    /\ cost > 0
    /\ day' \in {day, day + 1} \cap 0..LastDay
    /\ owed' = [owed EXCEPT ![t] = cost]
    /\ billed' = [billed EXCEPT ![t] = [p \in Period |-> IF p = "daily" THEN day ELSE day']]
    /\ step' = [step EXCEPT ![t] = <<"incr", "daily">>]
    /\ crossed' = [m \in Month |->
                      crossed[m] \cup (IF MonthOf(day) <= m /\ m < MonthOf(day') THEN {t} ELSE {})]
    /\ UNCHANGED <<total, deadline, dead, spent>>

\* Variant: the monthly key is left without a TTL.
AfterIncrDailyOnly(p) == IF p = "daily" THEN <<"expire", p>> ELSE Idle

\* What record_usage() does after INCRBYFLOAT on the key of period p.
AfterIncr(p) == <<"expire", p>>

\* Variant: the cost is taken off the total.
IncrNegated(t, p) ==
    LET k == KeyAt(p, billed[t][p]) IN
    /\ At(t, <<"incr", p>>)
    /\ total' = [total EXCEPT ![k] = @ - owed[t]]
    /\ spent' = [spent EXCEPT ![k] = @ - owed[t]]
    /\ step' = [step EXCEPT ![t] = AfterIncr(p)]
    /\ UNCHANGED <<day, deadline, owed, billed, dead, crossed>>

\* INCRBYFLOAT.
Incr(t, p) ==
    LET k == KeyAt(p, billed[t][p]) IN
    /\ At(t, <<"incr", p>>)
    /\ total' = [total EXCEPT ![k] = @ + owed[t]]
    /\ spent' = [spent EXCEPT ![k] = @ + owed[t]]
    /\ step' = [step EXCEPT ![t] = AfterIncr(p)]
    /\ UNCHANGED <<day, deadline, owed, billed, dead, crossed>>

\* The locals of record_usage() go with it.
Forget(t) ==
    /\ owed' = [owed EXCEPT ![t] = 0]
    /\ billed' = [billed EXCEPT ![t] = [p \in Period |-> 0]]

\* Variant: record_usage() forgets about the monthly total.
AfterExpireDailyOnly(p) == Idle

\* What record_usage() does after EXPIRE on the key of period p.
AfterExpire(p) == IF p = "daily" THEN <<"incr", "monthly">> ELSE Idle

\* Variant: one TTL for both keys.
LifetimeOfDay(p) == TTL["daily"]

\* The seconds passed to EXPIRE, in days.
Lifetime(p) == TTL[p]

\* EXPIRE, which does nothing to a key that is gone.  After the second one
\* record_usage() returns.
SetTTL(t, p) ==
    LET k == KeyAt(p, billed[t][p]) IN
    /\ At(t, <<"expire", p>>)
    /\ deadline' = IF total[k] > 0
                   THEN [deadline EXCEPT ![k] = day + Lifetime(p)]
                   ELSE deadline
    /\ step' = [step EXCEPT ![t] = AfterExpire(p)]
    /\ IF AfterExpire(p) = Idle THEN Forget(t) ELSE UNCHANGED <<owed, billed>>
    /\ UNCHANGED <<day, total, dead, spent, crossed>>

\* A Redis error, or the end of the process, anywhere in record_usage(): nothing
\* is undone and nobody takes over what is left to do.
Fail(t) ==
    /\ t \notin dead
    /\ step[t] \in Recording
    /\ dead' = dead \cup {t}
    /\ UNCHANGED <<day, total, deadline, step, owed, billed, spent, crossed>>

\* Redis drops a key whose TTL ran out.
Drop(k) ==
    /\ deadline[k] # NoTTL
    /\ day >= deadline[k]
    /\ total' = [total EXCEPT ![k] = 0]
    /\ deadline' = [deadline EXCEPT ![k] = NoTTL]
    /\ UNCHANGED <<day, step, owed, billed, dead, spent, crossed>>

Midnight ==
    /\ day < LastDay
    /\ day' = day + 1
    /\ UNCHANGED <<total, deadline, step, owed, billed, dead, spent, crossed>>

Next ==
    \/ \E t \in Task : \/ Refuse(t)
                       \/ Check(t)
                       \/ EndUnbilled(t)
                       \/ \E cost \in Cost : Bill(t, cost)
                       \/ \E p \in Period : Incr(t, p) \/ SetTTL(t, p)
                       \/ Fail(t)
    \/ \E k \in Key : Drop(k)
    \/ Midnight

Spec == Init /\ [][Next]_vars

-----------------------------------------------------------------------------
\* Every variable keeps its shape.
TypeOK ==
    /\ day \in 0..LastDay
    /\ total \in [Key -> Nat]
    /\ deadline \in [Key -> Nat \cup {NoTTL}]
    /\ step \in [Task -> {Idle, Dispatched} \cup Recording]
    /\ owed \in [Task -> 0..MaxCost]
    /\ billed \in [Task -> [Period -> 0..LastDay]]
    /\ dead \subseteq Task
    /\ spent \in [Key -> Nat]
    /\ crossed \in [Month -> SUBSET Task]

\* How far checking before dispatch and adding after it can overshoot a cap: by
\* less than one request for every task at work, whatever the calendar does.
OvershootBounded ==
    \A k \in Key : total[k] > 0 => total[k] < Cap[k[1]] + Cardinality(Task) * MaxCost

\* TTLs outlast their periods: until its period is over, no key forgets
\* anything that was added to it, even if it is never added to again.
RunningTotalKept ==
    \A p \in Period : total[KeyAt(p, day)] = spent[KeyAt(p, day)]

\* The tasks that have added to a daily total but not to their month's, which is m's
\* or an earlier one: on their way to it, or dead.
BetweenTotals(m) ==
    {t \in Task : /\ step[t] \in {<<"expire", "daily">>, <<"incr", "monthly">>}
                  /\ MonthOf(billed[t]["monthly"]) <= m}

\* The keys of the days, and of the months, up to the end of month m.
DayKeys(m) == {k \in Key : k[1] = "daily" /\ MonthOf(k[2]) <= m}
MonthKeys(m) == {k \in Key : k[1] = "monthly" /\ k[2] <= m}

DaySpend(m) == SumFunctionOnSet(spent, DayKeys(m))
MonthSpend(m) == SumFunctionOnSet(spent, MonthKeys(m))
                     + SumFunctionOnSet(owed, BetweenTotals(m))

\* Both totals tell the same story: up to the end of any month, the months are billed
\* what the days were, but for what is on its way or was lost on it, and for at most one
\* request of each task that computed its two keys on either side of that end: those
\* count for the last day of the month and for the month that follows.  So neither a
\* failure nor midnight ever bills a month before its day.
MonthMatchesDays ==
    \A m \in Month :
        /\ MonthSpend(m) <= DaySpend(m)
        /\ DaySpend(m) <= MonthSpend(m) + MaxCost * Cardinality(crossed[m])

\* No total stays in Redis for ever: a key without a TTL is about to get one,
\* or a task died on the way from INCRBYFLOAT to EXPIRE.
TotalsExpire ==
    \A k \in Key : total[k] > 0 /\ deadline[k] = NoTTL =>
        \E t \in Task : step[t] = <<"expire", k[1]>> /\ KeyAt(k[1], billed[t][k[1]]) = k
=============================================================================
