----------------------------- MODULE RateLimit -----------------------------
(***************************************************************************)
(* app/ratelimit.py: the RPM and TPM token buckets of one team in Redis,    *)
(* and the gateway tasks, of one process or of several, that consume from   *)
(* them.                                                                    *)
(*                                                                          *)
(* check_and_consume() reads time.time() and then awaits the Lua script,    *)
(* which Redis runs as one step.  So there are two steps, and scripts may   *)
(* reach Redis in another order than their clocks were read.                *)
(*                                                                          *)
(* The limits are an argument of each call: an admin override may change    *)
(* them between any two requests, and tasks learn of it at different times, *)
(* so a script may carry any of the team's limits.                          *)
(*                                                                          *)
(* Times are ticks, Minute of them to a minute.  A bucket counts in units   *)
(* of 1/Minute token, which makes the refill per tick a whole number: the   *)
(* capacity is the limit * Minute, the refill the limit per tick, and one   *)
(* token is Minute.                                                         *)
(***************************************************************************)
EXTENDS Integers, FiniteSets

CONSTANTS
    Client,    \* the tasks that run check_and_consume() for this team
    Limits,    \* the RateLimitConfigs in force for the team at one time or another
    Minute,    \* ticks in a minute
    Cost,      \* the tpm_cost of requests
    MaxDelay,  \* ticks a script may take to reach Redis
    InOrder,   \* scripts run in the order their clocks were read
    Horizon    \* bound on the clock

Bucket == {"rpm", "tpm"}

ASSUME RateLimitAssumption ==
    /\ Limits \subseteq [Bucket -> Nat] /\ Limits # {}
    /\ Minute \in Nat \ {0}
    /\ Cost \subseteq Nat
    /\ MaxDelay \in 0..Minute
    /\ InOrder \in BOOLEAN
    /\ Horizon \in Nat

VARIABLES
    clock,    \* the time, of the gateways and of Redis
    live,     \* live[b]: the key of b exists
    tokens,   \* tokens[b], ts[b]: the fields of its hash
    ts,
    expires,  \* expires[b]: when it is due to be dropped, by the last EXPIRE
    sent,     \* sent[c]: the script c is awaiting, or NoScript
    answer,   \* answer[c]: what c's last request got
    from,     \* history: the start of a window of time, any
    used,     \* history: used[b], tokens granted to clocks read since then
    given     \* history: the limits of the scripts of these clocks

buckets == <<live, tokens, ts, expires>>
window == <<from, used, given>>
vars == <<clock, buckets, sent, answer, window>>

Script == [now : 0..Horizon, cost : Cost, limit : Limits]

NoScript == [now |-> -1]

Pending == {c \in Client : sent[c] # NoScript}

Capacity(limit, b) == limit[b] * Minute

\* What a request takes from b: 1 from the RPM bucket, tpm_cost from the other.
Price(b, cost) == IF b = "rpm" THEN Minute ELSE cost * Minute

\* rpm_ttl and tpm_ttl: max(60, 2 * 60) seconds, or an hour if nothing refills.
TTL(limit, b) == IF limit[b] > 0 THEN 2 * Minute ELSE 60 * Minute

-----------------------------------------------------------------------------
Init ==
    /\ clock = 0
    /\ live = [b \in Bucket |-> FALSE]
    /\ tokens = [b \in Bucket |-> 0]
    /\ ts = [b \in Bucket |-> 0]
    /\ expires = [b \in Bucket |-> 0]
    /\ sent = [c \in Client |-> NoScript]
    /\ answer = [c \in Client |-> "none"]
    /\ from \in 0..Horizon
    /\ used = [b \in Bucket |-> 0]
    /\ given = {}

\* Variant: a bucket may be filled above its capacity.
LevelUncapped(b, script) ==
    IF ~live[b] THEN Capacity(script.limit, b)
    ELSE tokens[b] + (IF script.now > ts[b] THEN script.now - ts[b] ELSE 0) * script.limit[b]

\* refill() in the script: the level of b.  An absent key is a full bucket; a clock
\* that is behind ts refills nothing; the time since ts refills at today's rate.
Level(b, script) ==
    LET delta    == IF script.now > ts[b] THEN script.now - ts[b] ELSE 0
        refilled == tokens[b] + delta * script.limit[b]
        capacity == Capacity(script.limit, b) IN
    IF live[b] /\ refilled < capacity THEN refilled ELSE capacity

Enough(b, script) == Level(b, script) >= Price(b, script.cost)

\* check_and_consume() up to its await.
ReadClock(c, cost, limit) ==
    /\ sent[c] = NoScript
    /\ sent' = [sent EXCEPT ![c] = [now |-> clock, cost |-> cost, limit |-> limit]]
    /\ UNCHANGED <<clock, buckets, answer, window>>

\* Variant: each bucket is charged if it has enough, whatever the other says.
ChargedAlone(b, script) == Enough(b, script)

\* The script deducts from both buckets or from none.
Charged(b, script) == \A d \in Bucket : Enough(d, script)

\* What the client is told: 429 with the seconds until the first bucket that is
\* short has refilled.  If it never refills, the script returns infinity and
\* math.ceil() of it in the endpoint raises OverflowError, a 500.
Answer(script) ==
    LET short == IF Enough("rpm", script) THEN "tpm" ELSE "rpm" IN
    IF \A b \in Bucket : Enough(b, script) THEN "admitted"
    ELSE IF script.limit[short] > 0 THEN "429"
    ELSE "500"

\* The script runs for c and c gets its result.
Eval(c) ==
    LET script == sent[c] IN
    /\ c \in Pending
    /\ InOrder => \A d \in Pending : sent[d].now >= script.now
    /\ tokens' = [b \in Bucket |->
          Level(b, script) - (IF Charged(b, script) THEN Price(b, script.cost) ELSE 0)]
    /\ ts' = [b \in Bucket |-> script.now]
    /\ expires' = [b \in Bucket |-> clock + TTL(script.limit, b)]
    /\ live' = [b \in Bucket |-> TRUE]
    /\ sent' = [sent EXCEPT ![c] = NoScript]
    /\ answer' = [answer EXCEPT ![c] = Answer(script)]
    /\ used' = [b \in Bucket |->
          IF Answer(script) = "admitted" /\ script.now >= from
          THEN used[b] + Price(b, script.cost) ELSE used[b]]
    /\ given' = IF script.now >= from THEN given \cup {script.limit} ELSE given
    /\ UNCHANGED <<clock, from>>

\* Variant: keys live no longer than the window of the limit.
ExpireEarly(b) ==
    /\ live[b]
    /\ clock + Minute >= expires[b]
    /\ live' = [live EXCEPT ![b] = FALSE]
    /\ UNCHANGED <<clock, tokens, ts, expires, sent, answer, window>>

\* Redis drops a key that was not written for its TTL.
Expire(b) ==
    /\ live[b]
    /\ clock >= expires[b]
    /\ live' = [live EXCEPT ![b] = FALSE]
    /\ UNCHANGED <<clock, tokens, ts, expires, sent, answer, window>>

Tick ==
    /\ clock < Horizon
    /\ \A c \in Pending : clock - sent[c].now < MaxDelay
    /\ clock' = clock + 1
    /\ UNCHANGED <<buckets, sent, answer, window>>

Next ==
    \/ \E c \in Client : \/ \E cost \in Cost, limit \in Limits : ReadClock(c, cost, limit)
                         \/ Eval(c)
    \/ \E b \in Bucket : Expire(b)
    \/ Tick

Spec == Init /\ [][Next]_vars

-----------------------------------------------------------------------------
\* Buckets are never overdrawn and never overfull.
TypeOK ==
    /\ clock \in 0..Horizon
    /\ live \in [Bucket -> BOOLEAN]
    /\ tokens \in [Bucket -> Nat]
    /\ \A b \in Bucket : \E limit \in Limits : tokens[b] <= Capacity(limit, b)
    /\ ts \in [Bucket -> 0..Horizon]
    /\ expires \in [Bucket -> Nat]
    /\ sent \in [Client -> Script \cup {NoScript}]
    /\ answer \in [Client -> {"none", "admitted", "429", "500"}]
    /\ from \in 0..Horizon
    /\ used \in [Bucket -> Nat]
    /\ given \subseteq Limits

\* What a limit means: in any window of time no more is granted than a full bucket
\* and what it refills during the window, expiry of idle keys included.  When the
\* limits change during the window it is the most generous of them that counts;
\* to change them back and forth gains nothing.
WindowBound ==
    \A b \in Bucket :
        used[b] > 0 => \E limit \in given :
                          used[b] <= Capacity(limit, b) + limit[b] * (clock - from)

\* A refused request costs nothing: no bucket is ever lower than what admitted
\* requests took from it, so a team short of TPM does not lose its RPM as well.
\* (When the limits change it is the strictest that a bucket is cut down to.)
RefusalIsFree ==
    \A b \in Bucket :
        from = 0 /\ live[b] => \E limit \in given : tokens[b] + used[b] >= Capacity(limit, b)
=============================================================================
