-------------------------- MODULE RateLimitProofs --------------------------
(***************************************************************************)
(* Proofs about module RateLimit, for every set of limits, of clients,       *)
(* length of a minute and window of time.                                   *)
(***************************************************************************)
EXTENDS RateLimit, TLAPS

USE RateLimitAssumption

-----------------------------------------------------------------------------
(* Arithmetic. *)

\* The refill of two adjoining intervals is the refill of both together.
LEMMA RefillAdds ==
  ASSUME NEW L \in Nat, NEW a \in Int, NEW b \in Int, NEW c \in Int
  PROVE  L * (a - b) + L * (b - c) = L * (a - c)
  OBVIOUS

\* A longer interval refills no less.
LEMMA RefillGrows ==
  ASSUME NEW L \in Nat, NEW a \in Int, NEW b \in Int, a <= b
  PROVE  L * a <= L * b /\ L * a \in Int /\ L * b \in Int
  <1>1. L * (b - a) \in Nat
    BY b - a \in Nat
  <1>2. L * b = L * a + L * (b - a)
    OBVIOUS
  <1> QED
    BY <1>1, <1>2

\* A larger limit gives no less in the same time.
LEMMA LimitGrows ==
  ASSUME NEW k \in Nat, NEW l \in Nat, NEW a \in Nat, k <= l
  PROVE  k * a <= l * a /\ k * a \in Nat /\ l * a \in Nat
  <1>1. (l - k) * a \in Nat
    BY l - k \in Nat
  <1>2. l * a = k * a + (l - k) * a
    OBVIOUS
  <1> QED
    BY <1>1, <1>2

-----------------------------------------------------------------------------
(* What the operators of the script return. *)

LEMMA CapacityType ==
  \A limit \in Limits, b \in Bucket :
      limit[b] \in Nat /\ Capacity(limit, b) \in Nat /\ Capacity(limit, b) = limit[b] * Minute
  BY DEF Capacity

LEMMA PriceType == \A b \in Bucket, cost \in Cost : Price(b, cost) \in Nat
  BY DEF Price

\* A pending script has a clock reading, a cost and limits.
LEMMA PendingType ==
  ASSUME TypeOK, NEW c \in Pending
  PROVE  /\ c \in Client /\ sent[c] \in Script
         /\ sent[c].now \in 0..Horizon /\ sent[c].cost \in Cost /\ sent[c].limit \in Limits
  BY DEF TypeOK, Pending, Script

\* refill() stays within the capacity and adds at most what the time allows.
LEMMA LevelBounds ==
  ASSUME TypeOK, NEW b \in Bucket, NEW script \in Script
  PROVE  LET capacity == Capacity(script.limit, b) IN
         /\ Level(b, script) \in 0..capacity
         /\ ~live[b] => Level(b, script) = capacity
         /\ live[b] => /\ Level(b, script) = capacity \/ Level(b, script) >= tokens[b]
                       /\ script.now >= ts[b] =>
                             Level(b, script) <= tokens[b] + script.limit[b] * (script.now - ts[b])
  <1> DEFINE delta == IF script.now > ts[b] THEN script.now - ts[b] ELSE 0
             refilled == tokens[b] + delta * script.limit[b]
             capacity == Capacity(script.limit, b)
  <1>1. tokens[b] \in Nat /\ ts[b] \in Nat /\ script.now \in Nat /\ script.limit \in Limits
    BY DEF TypeOK, Script
  <1>2. delta \in Nat /\ (script.now >= ts[b] => delta = script.now - ts[b])
    BY <1>1
  <1>3. capacity \in Nat /\ script.limit[b] \in Nat
    BY <1>1, CapacityType
  <1>4. Level(b, script) = IF live[b] /\ refilled < capacity THEN refilled ELSE capacity
    BY DEF Level
  <1> HIDE DEF delta, capacity
  <1>5. delta * script.limit[b] \in Nat /\ delta * script.limit[b] = script.limit[b] * delta
    BY <1>2, <1>3
  <1>6. /\ Level(b, script) \in 0..capacity
        /\ ~live[b] => Level(b, script) = capacity
        /\ live[b] => /\ Level(b, script) = capacity \/ Level(b, script) >= tokens[b]
                      /\ script.now >= ts[b] =>
                            Level(b, script) <= tokens[b] + script.limit[b] * (script.now - ts[b])
    BY <1>1, <1>2, <1>3, <1>4, <1>5
  <1> QED
    BY <1>6 DEF capacity

\* A request is charged by both buckets exactly when it is admitted, and then
\* both have enough.
LEMMA ChargedIsAdmitted ==
  ASSUME NEW script
  PROVE  /\ Answer(script) \in {"admitted", "429", "500"}
         /\ \A b \in Bucket : Charged(b, script) <=> Answer(script) = "admitted"
         /\ Answer(script) = "admitted" =>
               \A b \in Bucket : Level(b, script) >= Price(b, script.cost)
  BY DEF Answer, Charged, Enough

-----------------------------------------------------------------------------
\* What one script takes from bucket b.
Taken(b, script) == IF Charged(b, script) THEN Price(b, script.cost) ELSE 0

\* The effect of one script on one bucket.
LEMMA EvalBucket ==
  ASSUME TypeOK, NEW c \in Client, Eval(c), NEW b \in Bucket
  PROVE  /\ Taken(b, sent[c]) \in 0..Level(b, sent[c])
         /\ tokens'[b] = Level(b, sent[c]) - Taken(b, sent[c])
         /\ used'[b] = used[b] + (IF sent[c].now >= from THEN Taken(b, sent[c]) ELSE 0)
         /\ ts'[b] = sent[c].now /\ live'[b]
         /\ expires'[b] = clock + TTL(sent[c].limit, b)
  <1>1. c \in Pending /\ sent[c] \in Script /\ sent[c].cost \in Cost /\ sent[c].limit \in Limits
    BY PendingType DEF Eval
  <1>2. Price(b, sent[c].cost) \in Nat /\ Level(b, sent[c]) \in 0..Capacity(sent[c].limit, b)
    BY <1>1, PriceType, LevelBounds
  <1>3. Charged(b, sent[c]) <=> Answer(sent[c]) = "admitted"
    BY ChargedIsAdmitted
  <1>4. Charged(b, sent[c]) => Level(b, sent[c]) >= Price(b, sent[c].cost)
    BY <1>3, ChargedIsAdmitted
  <1>5. Taken(b, sent[c]) \in 0..Level(b, sent[c])
    BY <1>1, <1>2, <1>4, CapacityType DEF Taken
  <1>6. tokens'[b] = Level(b, sent[c]) - Taken(b, sent[c])
    BY DEF Eval, Taken
  <1>7. used'[b] = used[b] + (IF sent[c].now >= from THEN Taken(b, sent[c]) ELSE 0)
    BY <1>3, <1>1 DEF Eval, Taken, TypeOK
  <1> QED
    BY <1>5, <1>6, <1>7 DEF Eval

LEMMA TypeStep == TypeOK /\ [Next]_vars => TypeOK'
  <1> SUFFICES ASSUME TypeOK, [Next]_vars PROVE TypeOK'
    OBVIOUS
  <1> USE DEF TypeOK
  <1>1. ASSUME NEW c \in Client, NEW cost \in Cost, NEW limit \in Limits, ReadClock(c, cost, limit)
        PROVE  TypeOK'
    BY <1>1 DEF ReadClock, Script, buckets, window
  <1>2. ASSUME NEW c \in Client, Eval(c) PROVE TypeOK'
    <2>1. /\ c \in Pending /\ sent[c] \in Script /\ sent[c].now \in 0..Horizon
          /\ sent[c].limit \in Limits
      BY <1>2, PendingType DEF Eval
    <2>2. \A b \in Bucket : /\ Level(b, sent[c]) \in 0..Capacity(sent[c].limit, b)
                            /\ Capacity(sent[c].limit, b) \in Nat
      BY <2>1, LevelBounds, CapacityType
    <2>3. \A b \in Bucket : tokens'[b] \in 0..Capacity(sent[c].limit, b) /\ used'[b] \in Nat
      <3> SUFFICES ASSUME NEW b \in Bucket
                   PROVE  tokens'[b] \in 0..Capacity(sent[c].limit, b) /\ used'[b] \in Nat
        OBVIOUS
      <3>1. /\ Taken(b, sent[c]) \in 0..Level(b, sent[c])
            /\ tokens'[b] = Level(b, sent[c]) - Taken(b, sent[c])
            /\ used'[b] = used[b] + (IF sent[c].now >= from THEN Taken(b, sent[c]) ELSE 0)
        BY <1>2, EvalBucket
      <3> QED
        BY <2>2, <3>1
    <2>4. /\ tokens' = [b \in Bucket |-> tokens'[b]]
          /\ used' = [b \in Bucket |-> used'[b]]
          /\ expires' = [b \in Bucket |-> clock + TTL(sent[c].limit, b)]
      BY <1>2 DEF Eval
    <2>5. tokens' \in [Bucket -> Nat] /\ used' \in [Bucket -> Nat]
      BY <2>2, <2>3, <2>4
    <2>6. \A b \in Bucket : \E limit \in Limits : tokens'[b] <= Capacity(limit, b)
      BY <2>1, <2>2, <2>3
    <2>7. Answer(sent[c]) \in {"admitted", "429", "500"}
      BY ChargedIsAdmitted
    <2>8. expires' \in [Bucket -> Nat]
      <3>1. \A b \in Bucket : TTL(sent[c].limit, b) \in Nat
        BY DEF TTL
      <3> QED
        BY <2>4, <3>1
    <2>9. /\ clock' \in 0..Horizon /\ from' \in 0..Horizon
          /\ live' \in [Bucket -> BOOLEAN]
          /\ ts' \in [Bucket -> 0..Horizon]
          /\ sent' \in [Client -> Script \cup {NoScript}]
          /\ answer' \in [Client -> {"none", "admitted", "429", "500"}]
          /\ given' \subseteq Limits
      BY <1>2, <2>1, <2>7 DEF Eval
    <2> QED
      BY <2>5, <2>6, <2>8, <2>9
  <1>3. ASSUME NEW b \in Bucket, Expire(b) PROVE TypeOK'
    BY <1>3 DEF Expire, window
  <1>4. ASSUME Tick PROVE TypeOK'
    BY <1>4 DEF Tick, buckets, window
  <1>5. ASSUME UNCHANGED vars PROVE TypeOK'
    BY <1>5 DEF vars, buckets, window
  <1> QED
    BY <1>1, <1>2, <1>3, <1>4, <1>5 DEF Next

\* Buckets are never overdrawn and never overfull, in whatever order scripts run
\* and whatever their limits.
THEOREM TypeCorrect == Spec => []TypeOK
  <1>1. Init => TypeOK
    <2>1. PICK limit \in Limits : TRUE
      OBVIOUS
    <2>2. \A b \in Bucket : 0 <= Capacity(limit, b)
      BY CapacityType
    <2> QED
      BY <2>2 DEF Init, TypeOK
  <1> QED
    BY <1>1, TypeStep, PTL DEF Spec

-----------------------------------------------------------------------------
\* A refused request is charged by neither bucket, in whatever order scripts run.
THEOREM RefusalIsFreeHolds == Spec => []RefusalIsFree
  <1>1. Init => RefusalIsFree
    BY DEF Init, RefusalIsFree
  <1>2. TypeOK /\ RefusalIsFree /\ [Next]_vars => RefusalIsFree'
    <2> DEFINE Kept(b) == \E limit \in given : tokens[b] + used[b] >= Capacity(limit, b)
    <2> SUFFICES ASSUME TypeOK, RefusalIsFree, [Next]_vars,
                        NEW b \in Bucket, from' = 0, live'[b]
                 PROVE  Kept(b)'
      BY DEF RefusalIsFree
    <2>0. tokens[b] \in Nat /\ used[b] \in Nat
      BY DEF TypeOK
    <2>1. ASSUME NEW c \in Client, Eval(c) PROVE Kept(b)'
      <3> DEFINE level == Level(b, sent[c])
                 capacity == Capacity(sent[c].limit, b)
      <3>1. /\ c \in Pending /\ sent[c] \in Script /\ sent[c].now \in 0..Horizon /\ from = 0
            /\ sent[c].limit \in Limits /\ given' = given \cup {sent[c].limit}
        BY <2>1, PendingType DEF Eval
      <3>2. /\ Taken(b, sent[c]) \in 0..level
            /\ tokens'[b] = level - Taken(b, sent[c])
            /\ used'[b] = used[b] + Taken(b, sent[c])
        BY <2>1, <3>1, EvalBucket
      <3>3. level \in 0..capacity /\ capacity \in Nat
        BY <3>1, LevelBounds, CapacityType
      <3>4. tokens'[b] + used'[b] = level + used[b]
        BY <2>0, <3>2, <3>3
      <3>5. CASE level = capacity
        BY <2>0, <3>1, <3>3, <3>4, <3>5
      <3>6. CASE level # capacity
        <4>1. live[b] /\ level >= tokens[b]
          BY <3>1, <3>6, LevelBounds
        <4>2. PICK limit \in given : tokens[b] + used[b] >= Capacity(limit, b)
          BY <3>1, <4>1 DEF RefusalIsFree
        <4>3. Capacity(limit, b) \in Nat
          BY CapacityType DEF TypeOK
        <4> QED
          BY <2>0, <3>1, <3>3, <3>4, <4>1, <4>2, <4>3
      <3> QED
        BY <3>5, <3>6
    <2>2. ASSUME NEW d \in Bucket, Expire(d) PROVE Kept(b)'
      BY <2>2 DEF Expire, RefusalIsFree, TypeOK, window
    <2>3. CASE Tick \/ UNCHANGED vars
      BY <2>3 DEF Tick, vars, buckets, window, RefusalIsFree
    <2>4. ASSUME NEW c \in Client, NEW cost \in Cost, NEW limit \in Limits,
                 ReadClock(c, cost, limit)
          PROVE  Kept(b)'
      BY <2>4 DEF ReadClock, buckets, window, RefusalIsFree
    <2> QED
      BY <2>1, <2>2, <2>3, <2>4 DEF Next
  <1> QED
    BY <1>1, <1>2, TypeCorrect, PTL DEF Spec

-----------------------------------------------------------------------------
\* Scripts under way were sent recently, and not before the last one that ran; and
\* a key is dropped no sooner than two minutes after that one's reading.
ScriptsInOrder ==
    /\ \A c \in Pending : /\ sent[c].now <= clock
                          /\ sent[c].now >= clock - MaxDelay
                          /\ \A b \in Bucket : sent[c].now >= ts[b]
    /\ \A b \in Bucket : ts[b] <= clock /\ (live[b] => ts[b] + 2 * Minute <= expires[b])

\* Every script from now on reads a clock at least a minute after b was written.
RefilledBy(b) ==
    /\ clock >= ts[b] + Minute
    /\ \A c \in Pending : sent[c].now >= ts[b] + Minute

\* b has given, and may yet give, what a limit of the window allows up to ts.
Covered(b) ==
    \E limit \in given :
        used[b] + (IF live[b] THEN tokens[b] ELSE 0)
            <= Capacity(limit, b) + limit[b] * (ts[b] - from)

\* The invariant behind the window: what is left in a bucket counts as used, and
\* a key that expired belongs to a bucket that has had time to fill up.
Account(b) ==
    /\ ts[b] < from => used[b] = 0
    /\ ts[b] >= from /\ used[b] # 0 => Covered(b)
    /\ ~live[b] => used[b] = 0 \/ RefilledBy(b)

\* A task that reads the clock joins those that wait, with that reading.
LEMMA ReadClockPending ==
  ASSUME TypeOK, NEW c \in Client, NEW cost \in Cost, NEW limit \in Limits,
         ReadClock(c, cost, limit), NEW d \in Pending'
  PROVE  \/ d \in Pending /\ sent'[d] = sent[d]
         \/ d = c /\ sent'[d].now = clock
  <1>1. d \in Client /\ sent'[d] # NoScript
    BY DEF Pending
  <1>2. /\ sent' = [sent EXCEPT ![c] = [now |-> clock, cost |-> cost, limit |-> limit]]
        /\ DOMAIN sent = Client
    BY DEF ReadClock, TypeOK
  <1>3. CASE d = c
    BY <1>2, <1>3
  <1>4. CASE d # c
    <2>1. sent'[d] = sent[d]
      BY <1>1, <1>2, <1>4
    <2> QED
      BY <1>1, <2>1 DEF Pending
  <1> QED
    BY <1>3, <1>4

LEMMA OrderStep ==
  ASSUME InOrder, TypeOK, ScriptsInOrder, [Next]_vars
  PROVE  ScriptsInOrder'
  <1> USE DEF TypeOK, ScriptsInOrder, buckets, window
  <1>0. /\ clock \in Nat /\ MaxDelay \in Nat
        /\ \A b \in Bucket : ts[b] \in Nat /\ expires[b] \in Nat
        /\ \A c \in Pending : sent[c].now \in Nat
    BY PendingType
  <1>1. ASSUME NEW c \in Client, NEW cost \in Cost, NEW limit \in Limits, ReadClock(c, cost, limit)
        PROVE  ScriptsInOrder'
    <2>1. \A d \in Pending' : \/ d \in Pending /\ sent'[d] = sent[d]
                              \/ d = c /\ sent'[d].now = clock
      BY <1>1, ReadClockPending
    <2> QED
      BY <1>0, <1>1, <2>1 DEF ReadClock
  <1>2. ASSUME NEW c \in Client, Eval(c) PROVE ScriptsInOrder'
    <2>1. \A d \in Pending' : d \in Pending /\ sent'[d] = sent[d] /\ sent[d].now >= sent[c].now
      BY <1>2 DEF Eval, Pending
    <2>2. c \in Pending /\ sent[c].now <= clock
      BY <1>2 DEF Eval
    <2>3. \A b \in Bucket : TTL(sent[c].limit, b) \in Nat /\ TTL(sent[c].limit, b) >= 2 * Minute
      BY DEF TTL
    <2>4. \A b \in Bucket : ts'[b] = sent[c].now /\ expires'[b] = clock + TTL(sent[c].limit, b)
      BY <1>2 DEF Eval
    <2>5. clock' = clock
      BY <1>2 DEF Eval
    <2>6. \A b \in Bucket : ts'[b] <= clock' /\ ts'[b] + 2 * Minute <= expires'[b]
      BY <1>0, <2>2, <2>3, <2>4, <2>5
    <2>7. \A d \in Pending' : /\ sent'[d].now <= clock' /\ sent'[d].now >= clock' - MaxDelay
                              /\ \A b \in Bucket : sent'[d].now >= ts'[b]
      BY <1>0, <2>1, <2>4, <2>5
    <2> QED
      BY <2>6, <2>7
  <1>3. ASSUME NEW b \in Bucket, Expire(b) PROVE ScriptsInOrder'
    BY <1>3 DEF Expire, Pending
  <1>4. ASSUME Tick PROVE ScriptsInOrder'
    <2>1. Pending' = Pending
      BY <1>4 DEF Tick, Pending
    <2> QED
      BY <1>0, <1>4, <2>1 DEF Tick
  <1>5. ASSUME UNCHANGED vars PROVE ScriptsInOrder'
    BY <1>5 DEF vars, Pending
  <1> QED
    BY <1>1, <1>2, <1>3, <1>4, <1>5 DEF Next

\* What the largest limits so far have covered, and the refill or the fresh bucket
\* of one script more, the larger of the two covers.
LEMMA LargerCovers ==
  ASSUME NEW k \in Nat, NEW l \in Nat, NEW u \in Nat, NEW level \in Nat,
         NEW before \in Nat, NEW later \in Nat,
         \/ u + level <= k * Minute + k * before + l * later
         \/ u + level <= k * Minute + k * before + l * Minute /\ Minute <= later
  PROVE  \/ u + level <= k * Minute + k * (before + later)
         \/ u + level <= l * Minute + l * (before + later)
  <1> DEFINE m == IF k <= l THEN l ELSE k
  <1>1. m \in Nat /\ k <= m /\ l <= m
    OBVIOUS
  <1> HIDE DEF m
  <1>2. /\ k * Minute <= m * Minute /\ k * Minute \in Nat
        /\ l * Minute <= m * Minute /\ l * Minute \in Nat /\ m * Minute \in Nat
    BY <1>1, LimitGrows
  <1>3. k * before <= m * before /\ k * before \in Nat /\ m * before \in Nat
    BY <1>1, LimitGrows
  <1>4. l * later <= m * later /\ l * later \in Nat /\ m * later \in Nat
    BY <1>1, LimitGrows
  <1>5. Minute <= later => m * Minute <= m * later
    BY <1>1, RefillGrows
  <1>6. m * (before + later) = m * before + m * later
    BY <1>1
  <1>7. u + level <= m * Minute + m * (before + later)
    BY <1>2, <1>3, <1>4, <1>5, <1>6
  <1>8. m = k \/ m = l
    BY DEF m
  <1> QED
    BY <1>7, <1>8

\* One script keeps the account of a bucket.
LEMMA EvalAccount ==
  ASSUME TypeOK, ScriptsInOrder, NEW b \in Bucket, Account(b), NEW c \in Client, Eval(c)
  PROVE  Account(b)'
  <1> DEFINE n == sent[c].now
             l == sent[c].limit[b]
             taken == Taken(b, sent[c])
             level == Level(b, sent[c])
  <1>0. /\ c \in Pending /\ sent[c] \in Script /\ n \in Nat /\ n >= ts[b]
        /\ sent[c].limit \in Limits /\ given \subseteq Limits
        /\ l \in Nat /\ Capacity(sent[c].limit, b) = l * Minute /\ l * Minute \in Nat
        /\ tokens[b] \in Nat /\ used[b] \in Nat /\ ts[b] \in Nat /\ from \in Nat
        /\ from' = from /\ given' = IF n >= from THEN given \cup {sent[c].limit} ELSE given
    BY PendingType, CapacityType DEF Eval, TypeOK, ScriptsInOrder, Script
  <1>1. /\ taken \in 0..level
        /\ tokens'[b] = level - taken
        /\ used'[b] = used[b] + (IF n >= from THEN taken ELSE 0)
        /\ ts'[b] = n /\ live'[b]
    BY EvalBucket
  <1>2. level \in 0..(l * Minute) /\ level \in Nat
    BY <1>0, LevelBounds
  <1>3. CASE n < from
    <2>1. used[b] = 0
      BY <1>0, <1>3 DEF Account
    <2> QED
      BY <1>0, <1>1, <1>3, <2>1 DEF Account
  <1>4. CASE n >= from
    <2>1. l * (n - from) \in Nat
      BY <1>0, <1>4, n - from \in Nat
    <2>2. \E limit \in given' : used[b] + level <= Capacity(limit, b) + limit[b] * (n - from)
      <3>1. CASE used[b] = 0
        BY <1>0, <1>2, <1>4, <2>1, <3>1
      <3>2. CASE used[b] # 0
        <4>1. ts[b] >= from
          BY <1>0, <3>2 DEF Account
        <4>2. PICK limit \in given :
                 used[b] + (IF live[b] THEN tokens[b] ELSE 0)
                     <= Capacity(limit, b) + limit[b] * (ts[b] - from)
          BY <3>2, <4>1 DEF Account, Covered
        <4> DEFINE k == limit[b]
                   before == ts[b] - from
                   later == n - ts[b]
        <4>3. k \in Nat /\ Capacity(limit, b) = k * Minute /\ k * Minute \in Nat
          BY <1>0, <4>2, CapacityType
        <4>4. before \in Nat /\ later \in Nat /\ before + later = n - from
          BY <1>0, <4>1
        <4>5. k * before \in Nat /\ l * later \in Nat
          BY <1>0, <4>3, <4>4, LimitGrows
        <4>6. \/ used[b] + level <= k * Minute + k * before + l * later
              \/ used[b] + level <= k * Minute + k * before + l * Minute /\ Minute <= later
          <5>1. CASE live[b]
            <6>1. level <= tokens[b] + l * later
              BY <1>0, <5>1, LevelBounds
            <6> HIDE DEF k, before, later, level, l
            <6> QED
              BY <1>0, <1>2, <4>2, <4>3, <4>5, <5>1, <6>1 DEF k, before
          <5>2. CASE ~live[b]
            <6>1. Minute <= later
              BY <1>0, <3>2, <5>2 DEF Account, RefilledBy
            <6>2. used[b] <= k * Minute + k * before
              BY <1>0, <4>2, <4>3, <4>5, <5>2
            <6> HIDE DEF k, before, later, level, l
            <6> QED
              BY <1>0, <1>2, <4>3, <4>5, <6>1, <6>2
          <5> QED
            BY <5>1, <5>2
        <4>7. \/ used[b] + level <= k * Minute + k * (before + later)
              \/ used[b] + level <= l * Minute + l * (before + later)
          <5> HIDE DEF k, before, later, level, l
          <5> QED
            BY <1>0, <1>2, <4>3, <4>4, <4>6, LargerCovers
        <4> QED
          BY <1>0, <1>4, <4>2, <4>3, <4>4, <4>7
      <3> QED
        BY <3>1, <3>2
    <2>3. used'[b] + tokens'[b] = used[b] + level
      BY <1>0, <1>1, <1>2, <1>4
    <2> QED
      BY <1>0, <1>1, <1>4, <2>2, <2>3 DEF Account, Covered
  <1> QED
    BY <1>0, <1>3, <1>4

\* A key expires only after its bucket has had time to fill up.
LEMMA ExpireAccount ==
  ASSUME TypeOK, ScriptsInOrder, NEW b \in Bucket, Account(b), NEW d \in Bucket, Expire(d)
  PROVE  Account(b)'
  <1>0. /\ ts[b] \in Nat /\ expires[b] \in Nat /\ clock \in Nat /\ from \in Nat
        /\ used[b] \in Nat /\ tokens[b] \in Nat /\ given \subseteq Limits
        /\ \A c \in Pending : sent[c].now \in Nat
    BY PendingType DEF TypeOK
  <1>1. /\ UNCHANGED <<clock, ts, tokens, sent, from, used, given>> /\ Pending' = Pending
        /\ live' = [live EXCEPT ![d] = FALSE]
    BY DEF Expire, Pending, window
  <1>2. CASE b # d
    <2>1. live'[b] = live[b]
      BY <1>1, <1>2 DEF TypeOK
    <2> QED
      BY <1>1, <2>1 DEF Account, Covered, RefilledBy
  <1>3. CASE b = d
    <2>1. live[b] /\ ~live'[b] /\ clock >= expires[b]
      BY <1>1, <1>3 DEF Expire, TypeOK
    <2>2. RefilledBy(b)
      BY <1>0, <2>1 DEF RefilledBy, ScriptsInOrder
    <2>3. RefilledBy(b)'
      BY <1>1, <2>2 DEF RefilledBy
    <2>4. ASSUME Covered(b) PROVE Covered(b)'
      <3>1. PICK limit \in given :
               used[b] + tokens[b] <= Capacity(limit, b) + limit[b] * (ts[b] - from)
        BY <2>1, <2>4 DEF Covered
      <3>2. limit[b] * (ts[b] - from) \in Int /\ Capacity(limit, b) \in Nat
        BY <1>0, CapacityType
      <3>3. used[b] <= Capacity(limit, b) + limit[b] * (ts[b] - from)
        BY <1>0, <3>1, <3>2
      <3>4. (used[b] + (IF live[b] THEN tokens[b] ELSE 0))' = used[b]
        BY <1>0, <1>1, <2>1
      <3> QED
        BY <1>1, <3>3, <3>4 DEF Covered
    <2> QED
      BY <1>1, <2>3, <2>4 DEF Account
  <1> QED
    BY <1>2, <1>3

LEMMA AccountStep ==
  ASSUME TypeOK, ScriptsInOrder, [Next]_vars, NEW b \in Bucket, Account(b)
  PROVE  Account(b)'
  <1> USE DEF buckets, window
  <1>0. /\ ts[b] \in Nat /\ clock \in Nat
        /\ \A c \in Pending : sent[c].now \in Nat
    BY PendingType DEF TypeOK
  <1>1. ASSUME NEW c \in Client, NEW cost \in Cost, NEW limit \in Limits, ReadClock(c, cost, limit)
        PROVE  Account(b)'
    <2>1. \A d \in Pending' : \/ d \in Pending /\ sent'[d] = sent[d]
                              \/ d = c /\ sent'[d].now = clock
      BY <1>1, ReadClockPending
    <2> QED
      BY <1>0, <1>1, <2>1 DEF ReadClock, Account, Covered, RefilledBy
  <1>2. ASSUME Tick PROVE Account(b)'
    <2>1. Pending' = Pending
      BY <1>2 DEF Tick, Pending
    <2> QED
      BY <1>0, <1>2, <2>1 DEF Tick, Account, Covered, RefilledBy
  <1>3. ASSUME UNCHANGED vars PROVE Account(b)'
    BY <1>3 DEF vars, Account, Covered, RefilledBy, Pending
  <1> QED
    BY <1>1, <1>2, <1>3, EvalAccount, ExpireAccount DEF Next

LEMMA AccountGivesWindow ==
  ASSUME TypeOK, ScriptsInOrder, \A b \in Bucket : Account(b)
  PROVE  WindowBound
  <1> SUFFICES ASSUME NEW b \in Bucket, used[b] > 0
               PROVE  \E limit \in given :
                         used[b] <= Capacity(limit, b) + limit[b] * (clock - from)
    BY DEF WindowBound
  <1>0. /\ ts[b] \in Nat /\ clock \in Nat /\ from \in Nat /\ ts[b] <= clock
        /\ used[b] \in Nat /\ tokens[b] \in Nat /\ given \subseteq Limits
    BY DEF TypeOK, ScriptsInOrder
  <1>1. Covered(b)
    BY <1>0 DEF Account
  <1>2. PICK limit \in given :
           used[b] + (IF live[b] THEN tokens[b] ELSE 0)
               <= Capacity(limit, b) + limit[b] * (ts[b] - from)
    BY <1>1 DEF Covered
  <1>3. limit[b] \in Nat /\ Capacity(limit, b) \in Nat
    BY <1>0, CapacityType
  <1>4. /\ limit[b] * (ts[b] - from) <= limit[b] * (clock - from)
        /\ limit[b] * (ts[b] - from) \in Int /\ limit[b] * (clock - from) \in Int
    BY <1>0, <1>3, RefillGrows, ts[b] - from <= clock - from
  <1>5. used[b] <= Capacity(limit, b) + limit[b] * (clock - from)
    BY <1>0, <1>2, <1>3, <1>4
  <1> QED
    BY <1>5

\* If scripts run in the order their clocks were read, no window of time ever
\* sees more than a full bucket and its refill, by the most generous limits of the
\* window, although idle keys expire and limits change.
THEOREM WindowBoundHolds == ASSUME InOrder PROVE Spec => []WindowBound
  <1> DEFINE Accounts == \A b \in Bucket : Account(b)
  <1>1. Init => ScriptsInOrder /\ Accounts
    <2> SUFFICES ASSUME Init PROVE ScriptsInOrder /\ Accounts
      OBVIOUS
    <2>1. Pending = {}
      BY DEF Init, Pending
    <2>2. ASSUME NEW b \in Bucket PROVE Account(b)
      BY DEF Init, Account
    <2> QED
      BY <2>1, <2>2 DEF Init, ScriptsInOrder
  <1>2. InOrder /\ TypeOK /\ ScriptsInOrder /\ [Next]_vars => ScriptsInOrder'
    BY OrderStep
  <1>3. TypeOK /\ ScriptsInOrder /\ Accounts /\ [Next]_vars => Accounts'
    <2> SUFFICES ASSUME TypeOK, ScriptsInOrder, Accounts, [Next]_vars, NEW b \in Bucket
                 PROVE  Account(b)'
      OBVIOUS
    <2> QED
      BY AccountStep
  <1>4. TypeOK /\ ScriptsInOrder /\ Accounts => WindowBound
    BY AccountGivesWindow
  <1> QED
    BY <1>1, <1>2, <1>3, <1>4, TypeCorrect, PTL DEF Spec
=============================================================================
