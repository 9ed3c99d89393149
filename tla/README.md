# LLM gateway: TLA+ models and proofs

This directory holds the formal model of the gateway in `src/app`: TLA+ modules
translated from its Python code, TLC configurations that model-check them on
small instances, and theorems that TLAPS proves for every value of the
constants.

Each module's header says which file it models; `PROJECT.json` maps every
definition to its lines, lists the runs, the hazards each property is for, the
mutants that show each property can fail, and the theorems.

* [The system](#the-system)
* [Modules and how they correspond to the code](#modules-and-how-they-correspond-to-the-code)
* [Runs, bounds and what they show](#runs-bounds-and-what-they-show)
* [Fairness](#fairness)
* [What is proved](#what-is-proved)
* [Where code and documentation part](#where-code-and-documentation-part)
* [What is not modelled, and why](#what-is-not-modelled-and-why)
* [Plan](#plan)

## The system

The gateway is a FastAPI application in front of several LLM providers. One
process is one asyncio event loop: Python code between two `await`s is atomic,
and everything that goes wrong between requests goes wrong at an `await`.
Several processes may share one Redis, and then every Redis command is a step
of its own.

A chat request goes through

    auth -> effective_team -> resolve_route -> policy -> rate limit -> budget
         -> admission -> fallback dispatch (breaker, retries, provider)
         -> usage and metrics -> response

| Component (`src/app/...`) | State | Operations | Hard behaviour | Correct means |
|---|---|---|---|---|
| Admission control (`admission.py`) | `_in_flight`, a heap of waiters with futures, `_seq` (process) | `acquire`, `release`, `slot` | timeouts racing hand-offs, lazily deleted heap entries, priorities | a strict priority semaphore: slots conserved, none idle beside a waiter, nobody overtaken, nobody stranded |
| Circuit breaker (`circuit_breaker.py`) | an entry per model: state, failures, time opened, trials in flight (process) | `check_and_reserve`, `record_outcome` | outcomes of calls admitted in an earlier state, outcomes that never come | no probing beyond the trials, no cooldown cut short, a circuit that rejects comes to admit again (which trials that end unrecorded defeat) |
| Routing (`routing.py`, `fallback.py`) | none | `resolve_route`, `build_candidates` | chains that loop, repeat or name unknown models | only usable models, each once |
| Dispatch and retries (`fallback.py`, `retry.py`) | per request: candidate, attempt, failures | `dispatch_with_fallback`, `call_with_retry` | requests that share breakers across `await`s | bounded calls, a failure report that accounts for every candidate, a legal use of each breaker |
| Rate limiter (`ratelimit.py`) | two hashes per team (Redis) | `check_and_consume`, `peek` | clocks read before the script runs, keys that expire, limits that change while buckets exist | no window grants more than burst plus refill; a refusal is free |
| Budget (`budget.py`) | two running totals per team with TTL (Redis) | `check_budget`, `record_usage` | check and add are apart; midnight and failures between commands | overshoot bounded, nothing forgotten early, months that match days but for requests at the turn of a month, no key without TTL |
| Chat endpoint (`routers/chat.py`) | where each request is, its slot | `chat_completions`, the stream generator | the slot is released by hand on five paths, one of them in the `finally` of a generator that runs after the endpoint returned | the slot is held from `acquire()` to `release()` and no longer, one count per request, a bill for each answer, streams of one piece |
| Admin overrides, audit (`routers/admin.py`, `admin_store.py`, `audit.py`) | one JSON value and one list (Redis), a gauge (process) | `PATCH`, `DELETE`, reads | read-modify-write over six commands, failures in between | omitted fields kept, a truthful and bounded audit trail, a gauge in step |
| Metrics (`metrics.py`) | counters and gauges | set, inc | as above | as above |
| Health probes (`health.py`) | per model a window of results and a counter of failures in a row (process) | probe loop, `record`, `snapshot`, stop | rounds that wait for the slowest, exceptions nobody sees, two accounts of one history | the accounts agree; the status follows the API |
| Provider adapters (`providers/`) | none that lasts | call, stream, `health_check` | streams that break off, report errors inside, or hold what nobody expects | errors classed as repeatable or final, chunks in order, probes that report |
| Auth, policy, tokens, tracing, schemas, configuration | none that changes | pure functions of one request | - | not modelled, see below |

How they interact: the endpoint calls all the others. Requests meet in the
admission pool, in the breaker entries, in the provider clients, and in the
Redis keys of their team; the admin API meets the chat requests in the overrides
and in the budget gauge.

## Modules and how they correspond to the code

    PrioritySemaphore <--implements-- Admission <--EXTENDS-- Gateway
    BreakerEntry --EXTENDS--> CircuitBreaker <--implements, per model-- Dispatch <--EXTENDS-- Routing
    Providers --EXTENDS--> Streaming --implements, for one request--> Gateway
    Providers --EXTENDS--> Health
    RateLimit     Budget     AdminOverrides

An arrow `implements` is a checked refinement. `MC*` modules give the constants
values, `*Proofs` modules hold theorems (`GatewayProofs` those of both `Admission`
and `Gateway`, which is built on it). Definitions introduced as a *variant*
are deliberate mistakes that stand beside the definition they would replace; no
behaviour uses them.

### Admission and PrioritySemaphore

`PrioritySemaphore` is what `admission.py` promises: owners, waiters and the
order among waiters. `Admission` is the code. `status[r]` is where the coroutine
of `r` is and what its future holds:

| status | code |
|---|---|
| `new` | `acquire()` not called |
| `queued` | in `wait_for()`, future pending |
| `granted` | in `wait_for()`, future has its result, task not resumed |
| `holding` | `acquire()` returned |
| `released` | `release()` ran |
| `shed` | `AdmissionTimeout`, its heap entry is dead |
| `lost` | `AdmissionTimeout` although the slot had been granted |

The code under `_lock` awaits nothing, so `AcquireFree`, `AcquireQueued` and
`Release` (with the hand-off of `_admit_waiters_locked()`, which pops dead
entries on its way) are one step each. `Resume`, `Expire` and `LoseGrant` are the
three ways `wait_for()` ends. `LoseGrant` exists from Python 3.12 on, where
`wait_for()` is built on `asyncio.timeout()`; the Dockerfile pins 3.11 and the
README asks for "3.11+", so the model has it. A lost slot stays charged to the
request that lost it, which is what the refinement says too.

### BreakerEntry and CircuitBreaker

`BreakerEntry` is the entry as a record with the code's functions as operators
(`Checked`, `Recorded`); `opened_at` is kept as elapsed ticks, capped at the
cooldown. `CircuitBreaker` adds the requests that share one entry: `Admit` and
`Reject` are `check_and_reserve()`, `Record` is `record_outcome()`, `Escape` a call
that ends with an exception the dispatch does not catch, so that no outcome is
recorded. `probes` and `forgotten` are history variables for the properties.
`ShutForGood` is the state such calls may lead to: HALF_OPEN, every slot taken, no
call left to report. `StaysShut` says that nothing leads out of it, and
`CircuitRecovers` that nothing else keeps a circuit shut, OPEN or HALF_OPEN.

### Routing and Dispatch

`Routing` has `resolve_route()` and `build_candidates()` as pure operators. The
loop of the latter, which keeps a set of names seen, is there as what it returns:
the places of the chain (`Chain`: the requested model, then its fallbacks) whose
name did not occur before (`FirstSeen`) and is usable, in their order (`Picked`).
`Dispatch` is `dispatch_with_fallback()` with `call_with_retry()`. The code awaits
in the provider call and in the backoff sleep only, so a step is everything
between two of these: recording an outcome, skipping candidates whose circuit is
open and starting the next call are one action. The length of the backoff is
abstracted (any number of other steps passes). Each request dispatches once and
belongs to a fixed team. `ImplementsBreakers` maps the requests, seen from each
model, to callers of `CircuitBreaker`.

### RateLimit

`check_and_consume()` is two steps, as it awaits once: `ReadClock` and the Lua
script `Eval`. Buckets count in 1/`Minute` of a token so that the refill per tick
is whole. The limits are an argument of the call, and an admin override may
change them at any time while scripts with the old ones are on their way: so a
script carries any of `Limits`. `Expire` is Redis dropping an idle key. With
`InOrder` TRUE scripts run in the order of their clock readings, as for one
process on one connection; with FALSE they may overtake one another. `from`,
`used` and `given` are a history: an arbitrary start of a window, what was granted
since, and the limits it was granted by. A team whose override removes the limit
altogether runs no script and is not in the model.

### Budget

`Refuse` and `Check` are `check_budget()` (one `MGET`); `Bill` computes both keys
of `record_usage()`, each from its own reading of the clock (`budget.py:103` and
`:104`), between which the date may change: so `billed[t]` is a date for each key.
(`check_budget()` reads the clock twice as well. There midnight in between means a
daily total read before its period is over and a monthly one of the new month: a
check made in two parts, of which each is as good as one made at its time.) `Incr`
and `SetTTL` are its commands, first for the day and
then for the month; `Fail` is a Redis error or the end of the process in the
middle, which freezes the task where it was; `Midnight` and `Drop` are the
calendar and the TTLs. Months have three days and keys live two or four days;
the TTLs outlast their periods by one day, as those of the code do (two days and
32 days). `spent` is a history variable: what was ever added to each key, expired
or not. `MonthMatchesDays` sums it over the days and over the months up to the end
of a month (`DayKeys`, `MonthKeys`) and adds what tasks between the two totals still
owe (`BetweenTotals`). What is on a day of the old month and in the total of the new
one comes from tasks whose two readings lay on either side of that end (`crossed`,
a history variable): the months are never ahead of the days, and behind by no more
than the dearest request of each such task.

### Gateway

The endpoint's coroutine and, for streams, its generator, on top of `Admission`,
whose variables (`pool`) and actions it takes as they are; definitions of which both
have one carry the module's name here (`GatewayNext`, `GatewaySpec`). `Enter`,
`Wait`, `Admitted`, `Shed` are `acquire()`, and `DispatchFails`, `DispatchWins` and `EndStream` hold the calls
of `release()`. `Refuse` stands for every refusal or failure before a slot is
asked for. The dispatch is one step here; `Dispatch` has its inside. `lingering` has
the requests whose generator was closed at a `yield`: its `finally` has released the
slot, but `agen`, suspended inside the adapter's `client.stream()`, is closed only
after the generator is gone (`CloseSource`, an action without fairness); `Outbound`
is all that may be with a provider. The requests in `Hanging` are assumed to make no
progress once they have a slot. Two ways out
pass no `release()`: `DispatchRaises`, an exception other than
`AllAttemptsFailed`, and `Abandon`, a client that leaves before the server has
started the generator, whose `finally` then never runs.

### Providers and Streaming

`Providers` is what the four adapters do, as operators: how an answer looks to
`call_with_retry()` (`Failure`), what becomes of each kind of line of a stream
(`OpenAILine`, `AnthropicLine`, `GeminiLine`, `OllamaLine`), what a probe reports
(`HttpProbe`, `OllamaProbe`). Its answers and lines are kinds, not texts.

`Streaming` is one streaming request in detail, `_get_first_chunk()` and the
generator `_stream_response()`, over a list of candidates:

| in `Streaming` | code |
|---|---|
| `call` | which candidate, which retry, how much of its stream was read, and how it ended |
| `pending` | the first chunk until the generator starts; then the event at which it stands in a `yield` |
| `relay` | the event `BaseHTTPMiddleware` is sending: one, while the generator may already stand at the next |
| `accumulated`, `finish` | the variables of these names; `accumulated` holds events where the code holds their texts |
| `got`, `present` | the client, and what it has received |
| `heard` | a history: the events of `got` that have content |
| `stage`, `slot`, `reply`, `counted`, `bill` | as in `Gateway` |

`Open` and `AttemptFails` are an attempt up to its first chunk, `ChunkLine`,
`SkipLine`, `RaiseLine`, `SourceEnds`, `SourceBreaks` what the provider's stream may
do next, `Conclude` the disclaimer and `[DONE]`, `FinishStream`, `Close` and
`RaiseLine` the three ways into the `finally`, which is `EndStream` up to its `await`
and `Settle` after it. When the client is gone, a generator that stands at a
`yield` is closed by the event loop and its `finally` runs undisturbed; one that
awaits the provider is cancelled, and the next `await` of its `finally` may be cancelled
too, which leaves the usage unrecorded. In the first case the provider's stream stays
open (`Lingering`, `CloseSource`), in the second the cancellation has ended it. The
breakers are left out: an attempt
that a breaker refuses is one that fails with no call.

### Health

The loop of `HealthProbeLoop`, a probe per model and the `HealthTracker`.
`StartRound` starts all probes of a round, `Arrives` is an API's answer (or the
timeout in its stead), `Record` the result entering the window and the counter,
`Swallow` an exception out of `health_check()`, which `gather()` keeps to itself;
`EndRound` needs every probe to be over. `Status` is `snapshot()`; latencies are
two numbers, fast and slow. A model whose provider is unknown has no probe. The
APIs change at any time (`Change`).

### AdminOverrides

One team's overrides, the audit list and the gauge. A call is six Redis commands
(`GET`, `SET` or `DEL`, `LPUSH`, `LTRIM`, `GET`, `GET`), each an action. `AnswerInvalid`
is the 500 of a stored `null` priority, which `TeamLimitsView` does not accept. `Fail` ends a call
between two commands when `MayFail`. `ChatReads` and `ChatSetsGauge` are the chat
requests that write the same gauge, `ChatRefused` those that end before they do.
`held`, `untrimmed` and `orderly` are history variables: `orderly` is TRUE as long as nothing has failed or overlapped.

## Runs, bounds and what they show

Distinct states are those of a complete TLC search.

| Run | Bounds | States | Shows |
|---|---|---|---|
| `Admission` | 4 requests, 2 slots, all priorities | 7 675 | `SlotConservation`, `NoIdleSlotWhileWaiting`, `NoOvertaking`, `ImplementsPrioritySemaphore`, `EveryWaiterLeavesQueue` |
| `Breaker` | 4 callers, two of which may escape; threshold, cooldown and trials 2 | 2 038 | `BoundedProbing`, `HalfOpenHasTrial`, `CooldownNotSkipped`, `CircuitRecovers` |
| `Dispatch` | 3 requests, one over two models, two over the first, one escaping; one retry; threshold, cooldown and trials 1 | 36 315 | `CallBudget`, `FailuresAccountForCandidates`, `ImplementsBreakers`, `EveryDispatchEnds` |
| `RateLimit` | 2 clients, limits 1 and 3 or 2 and 2 at any time, two ticks a minute, costs 1 and 3, 5 ticks, in order | 2 413 263 | `WindowBound`, `RefusalIsFree` |
| `Budget` | 2 tasks, caps 1 and 2, costs 0 to 2, 4 days | 1 026 459 | `OvershootBounded`, `RunningTotalKept`, `MonthMatchesDays`, `TotalsExpire` |
| `Gateway` | 3 requests, one of which may hang, 2 slots | 143 977 | `ProviderLoadBounded`, `SlotHeldWhileServing`, `AccountedFor`, `EveryRequestEnds` |
| `Streaming` | 4 lists of two providers each, one retry, a disclaimer, 3 lines an attempt | 378 656 | `NoSplice`, `BillCoversDelivery`, `ImplementsGateway` |
| `Health` | 2 models with two kinds of adapter and one without, 4 conditions, a window of 2, down after 3 failures | 110 288 | `CounterMatchesWindow`, `StatusFollowsApi` |
| `Admin` | 2 admins, a chat request, 3 calls that may overlap and fail, a log of two entries | 564 966 | `SequentialCallsAgree`, `LogBounded`, `AuditNeverLies` |
| `RateLimitReorder` | 3 clients, 4 ticks, any order | | violates `WindowBound` |
| `GatewayRaise` | 2 requests, 1 slot | | violates `SlotComesBack` |
| `AdminLostUpdate` | 2 admins, 2 calls | | violates `OmittedFieldsKept` |

Each passing run also checks its module's `TypeOK` (`GatewayTypeOK` for `Gateway`).

Why the bounds are enough for the interesting cases:

* `Admission`: two slots and four requests let two waiters of any two
  priorities queue behind two holders, with dead entries between live ones and a
  release that finds several. With one slot fewer no hand-off could race another.
* `Breaker`: a threshold and a trial limit of 2 tell "at the limit" from "above
  it"; four callers leave a late plain call, two trials and a newcomer together.
* `Dispatch`: the chain loops back to its start and names a model nobody may use
  and one that does not exist; the narrow team is restricted by provider. All
  breaker limits are 1 because `Breaker` covers larger ones and the refinement
  carries its results over.
* `RateLimit`: five ticks are two and a half minutes, longer than a key lives, so
  buckets drain, refill, expire and start again; a cost of 3 is the full TPM
  bucket of the one limit and more than the other lets through. The two limits
  cross, so that a change gives more requests and fewer tokens, or the reverse.
* `Budget`: four days hold a full month and the first day of the next, so a request
  may compute its keys on either side of the end of the month. A task
  that died does not come back, which is why two dead tasks on the last day may
  leave nothing to do: deadlock is not checked there (`CHECK_DEADLOCK FALSE`).
* `Gateway`: with two slots one may leak, or hang with a request, and the other still
  serve; three requests let one wait behind them, and one take the slot of a stream
  that lingers.
* `Streaming`: every adapter comes first and second in a list; three lines are a
  chunk that is heard, one that is relayed and one to hand over, which is as far
  as the generator can be ahead of the client. A bound on the lines ends no
  stream: the provider then stops or breaks off.
* `Health`: the window is shorter than the failures that make a model "down", so
  that the counter must remember what the window has forgotten; 4 is a failure
  more than the counter is asked for.
* `Admin`: three calls let one run between two commands of another and leave a
  third that follows both; a log of two has something to trim. It uses one value,
  `null`, which also reaches `AnswerInvalid`; a set and an absent field are what
  the properties tell apart.

Symmetry is used in `RateLimit`, `RateLimitReorder`, `Budget`, `Admin` and
`AdminLostUpdate`, whose tasks are interchangeable and which check no liveness.

## Fairness

Assumed is that ready tasks run, which the event loop gives, and, where it says so
below, that what a request waits for answers. The code does not see to the latter:
the timeouts of the HTTP clients are per read (`routers/chat.py:193`), so a stream
that trickles has none; sending to a client that does not read has none; and the
Redis clients are built without one (`budget.py:76`, `ratelimit.py:115`,
`admin_store.py:34`). So it is an assumption about providers and clients, and the
one property of the endpoint that needs it makes it of some requests only.

* `Admission`: a granted waiter's task runs (`Resume`), a holder releases
  (`Release`), which is the contract of the controller's users; who breaks it is the
  subject of `Gateway`. No timer is assumed to fire: `EveryWaiterLeavesQueue` does not rest
  on shedding. It holds until every slot has been lost to a late timer
  (`AllSlotsLost`), after which nothing could serve a waiter but its own timer.
* `CircuitBreaker`: time passes, and calls that do not escape end. No arrival of
  requests is assumed, so `CircuitRecovers` says that the circuit *would* admit.
* `Dispatch`: calls end, sleeps end, time passes.
* `Gateway`: granted waiters run, and requests outside `Hanging` make progress once
  they are served. `EveryRequestEnds` says that nobody waits for ever, and who is not
  in `Hanging` ends, as long as a slot is left that neither leaked nor is with a
  request that hangs (`NoSlotLeft`); in the run one of three requests may hang
  wherever it is.
* `Health`: the loop's sleep ends, probes have timeouts, and ready tasks run. The
  APIs are free to change for ever; `StatusFollowsApi` is about those that settle,
  and about a loop that is not stopped.

`Streaming`, `RateLimit`, `Budget` and `AdminOverrides` promise no progress and have no
fairness: each of their operations is a bounded number of commands, but for the
stream, which ends when its provider ends it, and each command ends if Redis answers.

## What is proved

Every safety property of every passing run is a theorem, for every value of the
constants, under the assumptions that the modules name:

| Assumption | What it asks |
|---|---|
| `AdmissionAssumption` | finitely many requests, a limit that is a natural number |
| `GatewayAssumption` | the requests that may hang are requests |
| `BreakerAssumption`, `CallerAssumption` | finitely many callers, thresholds and trial limits of at least one |
| `RoutingAssumption`, `DispatchAssumption` | chains and teams name models, known or not; finitely many requests and models |
| `RateLimitAssumption` | some limits, all of them natural numbers; a script that runs within a minute of its clock reading |
| `BudgetAssumption`, `TTLAssumption` | finitely many tasks, costs up to a largest one, days of one day; keys live at least as long as their periods, as the code's 48 hours and 32 days do |
| `StreamingAssumption` | at least one candidate (an empty list ends before any stream) |
| `HealthAssumption` | finitely many models, a window of at least one, a counter in the model that counts as far as the window and the threshold; latencies on either side of the limit for "degraded" |
| `AdminAssumption` | fields `budget` and `priority`, a log of at least one entry |

TLC evaluates each of them in the runs. An invariant is seldom inductive as it
stands; what each proof module adds to its properties, and why, is this.

* **GatewayProofs**, the controller: `TypeCorrect`, `SlotConservationHolds`,
  `NoIdleSlotHolds`, `NoOvertakingHolds`, `Refinement`. `Inductive` adds that tickets
  of entries in the heap are distinct and below `_seq`, and that each request is in
  the heap at most once and not before it queued: a release pops entries, and must
  know that they are comparable. The heart of it is that a release hands out at most
  one slot (`inFlight` is at the limit whenever somebody waits), to the least waiter.
  The refinement maps owners and live entries to the semaphore.
* **GatewayProofs**, the endpoint: `PoolIsController` shows that every step of the
  endpoint is, for the pool, a step of `Admission` or none; so the theorems about
  `Admission` hold of the pool inside the gateway. From it and from the relation of
  stages to slots follow `SlotHeldWhileServingHolds` and `ProviderLoadBoundedHolds`;
  the latter needs that whatever lingers was cut off and has released its slot
  (`LingeringIsCutOff`), which is what it excepts.
  `AccountedForHolds` follows from an invariant that ties `counted`, `bill` and
  `reply` to the stage.
* **CircuitBreakerProofs**: `TypeCorrect`, `BoundedProbingHolds`,
  `ClosedBelowThresholdHolds`, `HalfOpenHasTrialHolds`, `CooldownNotSkippedHolds`.
  The induction relates `probes` to the slots in the entry: while HALF_OPEN, a
  probe takes a slot and no slot comes back without leaving HALF_OPEN.
  `StaysShutHolds` and `OnlyLostTrialsShut` are the safety side of `CircuitRecovers`:
  `ShutForGood` is never left, and when no call is under way a circuit that rejects
  is cooling down or has got there.
* **DispatchProofs**: `CandidatesUsableOnce` is about `build_candidates()` alone,
  whatever loops and repetitions the chains have. `Inductive` says of each request
  (`Sound`) where it stands among its candidates, how often it has called each model
  and what it has recorded for each candidate it has passed. The point is that a
  model ahead has not been called yet, which holds because no candidate comes twice;
  without it neither `CallBudgetHolds` nor `FailuresAccountForCandidatesHolds` would
  survive a step to the next candidate. `Refinement` shows that every step is, for
  each model's breaker, a step of `CircuitBreaker` or none, although one step may
  record an outcome with one breaker, be rejected by others and be admitted by yet
  another; so `CircuitBreakerProofs` holds inside the dispatch. `HistoryOfHalfOpen`
  is what the mapping of the histories needs.
* **RateLimitProofs**: `TypeCorrect`, `RefusalIsFreeHolds`, and `WindowBoundHolds`
  for scripts that run in order. The argument is an account: what was granted
  since `from`, plus what the bucket holds, never exceeds a full bucket plus the
  refill up to the bucket's own time, by one of the limits seen since; in-order
  scripts keep that time from going back, a key that expires is one that had
  refilled anyway, and when a script brings other limits the larger of the old
  and the new covers both (`LargerCovers`).
* **BudgetProofs**: `TypeCorrect`, `OvershootBoundedHolds`, `RunningTotalKeptHolds`,
  `TotalsExpireHolds`, `MonthMatchesDaysHolds`. A total above its cap says nothing of
  who may still add to it, so `CommitmentBounded` charges every task on its way to a
  key with the dearest request (`Owing`, `Committed`) and bounds the whole: the last
  task that passed `check_budget()` did so below the cap. `NothingForgotten` and
  `NothingAhead` extend the property about the running period to those to come,
  which tasks cannot have billed (`BilledBefore`), and `TTLsLast` keeps a key until
  its period is over. Time enters by three facts about division. Sums over sets of
  tasks and keys need an induction on the size of a set; as the induction theorems
  are out of reach (below), it is made with a smallest counterexample
  (`SmallestSet`). `MonthMatchesDaysHolds` keeps an account of the days and months up
  to the end of each month (`MonthsLevel`): what a task adds to a day before it adds it to
  a month that begins after that end is charged to the task, which is in `crossed`
  (`CrossersKnown`), once.
* **StreamingProofs**: `TypeCorrect`, `NoSpliceHolds`, `BillCoversDeliveryHolds`,
  `Refinement`. `Stages` says what each stage of the request has open; with it every
  step is one of `Gateway` for a single request. `Flow` accounts for every event the
  generator has yielded: it is with the client, with the relay or pending, in this
  order, and all are of the attempt that is being read. `Billing` does the same for
  what is to be billed. Neither property could be kept without knowing what is
  between generator and client, which the client cannot see.
* **HealthProofs**: `TypeCorrect` and `CounterMatchesWindowHolds`. The invariant is
  inductive with the type invariant; one lemma (`RecordKeepsAgreement`) shows that
  a result entered into both keeps them in agreement, whether the window grows or
  shifts. The counter's bound in the model needs to be no smaller than the window.
* **AdminProofs**: `TypeCorrect`, `LogBoundedHolds`, `AuditNeverLiesHolds`,
  `SequentialCallsAgreeHolds`. `Counts` gives every entry of
  the log, and every failure before a trim, a call of its own, which bounds both.
  `Known` says that what a call has read or written was in force: an entry is only
  written after its overrides. `Orderly` says what holds in the middle of a call that
  nothing overlaps, where `SequentialCallsAgree` is silent: whether log and gauge
  still show the overrides before it or already those after it.

Model-checked only:

* liveness: `EveryWaiterLeavesQueue`, `CircuitRecovers`, `EveryDispatchEnds`,
  `EveryRequestEnds`, `StatusFollowsApi`. The proof system has neither fairness nor
  ENABLED.
* what the "violation" runs refute.

Out of the prover's reach besides: the induction theorems of the library, which take
an operator as a parameter. No property is left over for that reason: `Candidates`
is stated without recursion, and the sums are handled as said above.

## Where code and documentation part

Shown by a run:

* `RateLimitReorder`: the script takes its time from the gateway
  (`ratelimit.py:126`) and stores it even if it is older than the one it finds, so
  the same seconds refill a bucket twice; `ratelimit.py:17-19` claims correctness
  across processes.
* `GatewayRaise`: an exception other than `AllAttemptsFailed` ends the request
  without `release()` (`routers/chat.py:410`); `admission.py:116-119` speaks of
  the acquire/try/release pattern.
* `AdminLostUpdate`: overlapping PATCH requests undo one another
  (`routers/admin.py:156`), against `routers/admin.py:17-19`.

In the models, without a run of their own:

* `fallback.py:165`: a trial that ends in an exception the dispatch does not expect
  never reports, and its slot is gone: HALF_OPEN with all slots gone rejects for good
  (`circuit_breaker.py:117-119`), while `circuit_breaker.py:28-29` lets trials
  "through to test recovery" and `:102-104` asks the caller to record an outcome in
  any case. `CircuitRecovers` and `OnlyLostTrialsShut` say that nothing else shuts a
  circuit for good, `StaysShutHolds` that it stays shut.
* `routers/chat.py:232`: the `finally` of a generator closed at a `yield` releases the
  slot while the provider's stream stays open until the generator is gone, after the
  usage was recorded (`:260`); the next request opens its own. So there may be more
  outbound calls than the `max_concurrent` of `admission.py:21-22`;
  `ProviderLoadBounded` is what holds instead.
* `retry.py:100`: `call_with_retry()` repeats a call after its sleep without asking
  the breaker, which another request may have opened meanwhile, while
  `circuit_breaker.py:23-27` promises that a tripped model gets no more traffic
  before the cooldown is over. `CallBudget` bounds what it gets.
* `admission.py:104`: on Python 3.12 and later a late timer loses a granted slot
  (`LoseGrant`).
* `circuit_breaker.py:130`: late outcomes return slots they never took, so more
  trials than `half_open_max_trials` may be under way over time (`config.py:159`);
  `BoundedProbing` is what holds instead.
* `circuit_breaker.py:129`: an outcome of a call admitted before the circuit
  tripped decides HALF_OPEN as if it were a trial (`circuit_breaker.py:28-32`).
* `circuit_breaker.py:140`: a trial whose outcome arrives in another state does not
  return its slot.
* `fallback.py:172`: a non-retryable failure is reported as one attempt even if
  earlier attempts were retried. `FailuresAccountForCandidates` therefore only
  tells zero attempts from some.
* `routers/chat.py:333`: a limit of 0 makes `retry_after` infinite and the 429 a
  500 (`Answer` in `RateLimit`).
* `budget.py:91`: caps are exceeded by up to one request per task in flight;
  `OvershootBounded` gives the bound.
* `routers/chat.py:396`: a stream abandoned before it starts keeps its slot
  (`Abandon`).
* `routers/chat.py:337`: a chat request may set the gauge to a budget that is no
  longer in force, and it stays so until the next request; so `SequentialCallsAgree`
  speaks of calls that do not overlap.
* `providers/ollama_provider.py:136`: a body that does not decode makes
  `health_check()` raise, although `providers/base.py:58-64` says it never does;
  `gather()` swallows the exception and the model keeps its last status
  (`Swallow`).
* `providers/openai_provider.py:127`, `anthropic_provider.py:156`,
  `ollama_provider.py:105`: a line that is not JSON raises an error the generator
  does not catch, so the stream is cut without the SSE error event of
  `routers/chat.py:37-40` (`RaiseLine`). Gemini's adapter drops such a line
  instead, with its content.
* `providers/anthropic_provider.py:153`, `openai_provider.py:131`: an error event
  inside a stream is passed over, and a stream that stops without its last event
  ends like a complete one, in `[DONE]` (`SkipLine`, `SourceEnds`).
* `routers/chat.py:260`: the usage of a stream whose client left may stay
  unrecorded (`Close`, `Settle`); `BillCoversDelivery` says what holds: it was tried.
* `routers/chat.py:193`: timeouts are per read, so a stream that trickles keeps its
  slot as long as it likes; `budget.py:76`, `ratelimit.py:115`, `admin_store.py:34`:
  the Redis clients have no timeout at all, so a request may hang in `record_usage()`
  with the slot of its stream already back, or before it was asked for (`Hanging`).
* `budget.py:103`: the two keys come from two clock readings, so a request may be on
  the last day of one month and in the total of the next (`Bill`);
  `MonthMatchesDays` gives the bound.
* `routers/admin.py:118`: a `null` priority is stored and only then found invalid.

## What is not modelled, and why

* Authentication, the request policy and token estimation are functions of one
  request; their refusals are in `Refuse`, their costs are small sets. Two things
  of them are in `Streaming`: the disclaimer and the middleware as a relay.
* Of the provider adapters, the request payloads and the fields of an answer in
  one piece: only that decoding it may fail (`DispatchRaises`) matters to others.
* Tracing, hooks, schemas, the liveness endpoint and rendering of metrics change
  nothing another part reads.
* Loading of YAML: the values appear as constants.
* Start and stop run before the first and after the last request; of these only
  the stop of the probe loop meets other steps, and it is in `Health`.
* Mock providers, dashboards, Compose files surround the gateway.
* In `RateLimit`, `peek()`, a read; in `CircuitBreaker`, a clock that is set back.

## Plan

1. Done: admission, breaker, dispatch, rate limit, budget, endpoint, streams,
   provider adapters, health probes and admin overrides, modelled and checked; a
   theorem for each safety property of a passing run, and for each refinement.
2. What the theorems about one part mean inside another: the probing bounds of
   `CircuitBreaker`, stated of `Dispatch` in its own terms; the slots of `Gateway`,
   stated of `Streaming`.
3. The conditions under which the refuted claims do hold: `SlotComesBack` without
   escaping exceptions and abandoned streams, `CircuitRecovers` without its
   exception (`WindowBoundHolds` is the one for `RateLimitReorder`).
