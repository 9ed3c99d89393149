--------------------------- MODULE AdminOverrides ---------------------------
(***************************************************************************)
(* app/routers/admin.py, admin_store.py and audit.py: the PATCH and DELETE  *)
(* of one team's limits, the audit log they append to and the budget gauge  *)
(* they refresh; and the chat requests that read the overrides.             *)
(*                                                                          *)
(* The overrides are one JSON value in Redis.  A call GETs it, SETs (or     *)
(* DELs) what it has computed from it, LPUSHes an audit entry, LTRIMs the   *)
(* log, and GETs the value twice more for its answer: six Redis commands,   *)
(* each a step, with other calls between any two of them.                   *)
(*                                                                          *)
(* A field of the overrides has a value, which may be "null" for no limit,  *)
(* or is absent, written "config" as config.yaml then decides.              *)
(***************************************************************************)
EXTENDS Integers, Sequences, FiniteSets

CONSTANTS
    Admin,       \* the tasks that serve admin calls for this team
    Chat,        \* the tasks that serve chat requests of this team
    Field,       \* the fields of TeamLimitsUpdate that calls use
    Value,       \* the values they set
    MaxEntries,  \* _MAX_ENTRIES of the audit log
    MayFail,     \* Redis or a task may fail between two commands
    MaxCalls     \* bound on the number of PATCHes and DELETEs

ASSUME AdminAssumption ==
    /\ {"budget", "priority"} \subseteq Field
    /\ "config" \notin Value
    /\ MaxEntries \in Nat \ {0}
    /\ MayFail \in BOOLEAN
    /\ MaxCalls \in Nat

VARIABLES
    overrides,  \* the value in Redis
    log,        \* the Redis list of audit entries, newest first
    gauge,      \* the team's TEAM_BUDGET_USD
    call,       \* call[a]: the PATCH or DELETE a is at, or Resting
    answer,     \* answer[a]: what a's last call got
    calls,      \* PATCHes and DELETEs so far
    chat,       \* chat[c]: the budget c has read, or "none"
    held,       \* history: the values overrides has had
    untrimmed,  \* history: entries whose call failed before LTRIM, since the last one
    orderly     \* history: so far nothing has failed or overlapped

vars == <<overrides, log, gauge, call, answer, calls, chat, held, untrimmed, orderly>>

\* An absent key, or {}: every field is left to config.yaml.
NoOverrides == [f \in Field |-> "config"]

Overrides == [Field -> Value \cup {"config"}]

Resting == [step |-> "rest", kind |-> "none", patch |-> NoOverrides,
            before |-> NoOverrides, view |-> NoOverrides]

Busy == [step : {"store", "push", "trim", "view", "answer"}, kind : {"patch", "delete"},
         patch : Overrides, before : Overrides, view : Overrides]

\* overrides.update(provided), where "config" marks a field the request omits.
Merged(before, patch) ==
    [f \in Field |-> IF patch[f] = "config" THEN before[f] ELSE patch[f]]

\* The overrides a call writes, computed from those it has read.
After(c) == IF c.kind = "patch" THEN Merged(c.before, c.patch) ELSE NoOverrides

-----------------------------------------------------------------------------
Init ==
    /\ overrides = NoOverrides
    /\ log = <<>>
    /\ gauge = "config"
    /\ call = [a \in Admin |-> Resting]
    /\ answer = [a \in Admin |-> "none"]
    /\ calls = 0
    /\ chat = [c \in Chat |-> "none"]
    /\ held = {NoOverrides}
    /\ untrimmed = 0
    /\ orderly = TRUE

\* No call is under way and no chat request between its two accesses.
Quiet == (\A a \in Admin : call[a] = Resting) /\ (\A c \in Chat : chat[c] = "none")

\* update_team_limits() or clear_team_overrides() up to the answer to its first
\* GET.
Start(a, kind, patch) ==
    /\ call[a] = Resting
    /\ calls < MaxCalls
    /\ calls' = calls + 1
    /\ call' = [call EXCEPT ![a] = [step |-> "store", kind |-> kind, patch |-> patch,
                                    before |-> overrides, view |-> NoOverrides]]
    /\ orderly' = (orderly /\ Quiet)
    /\ UNCHANGED <<overrides, log, gauge, answer, chat, held, untrimmed>>

Goto(a, s) == call' = [call EXCEPT ![a].step = s]

\* set_overrides() or clear_overrides().
Store(a) ==
    /\ call[a].step = "store"
    /\ overrides' = After(call[a])
    /\ held' = held \cup {overrides'}
    /\ Goto(a, "push")
    /\ UNCHANGED <<log, gauge, answer, calls, chat, untrimmed, orderly>>

\* Variant: a call that is audited without being carried out.
PushUnstored(a) ==
    /\ call[a].step \in {"store", "push"}
    /\ log' = <<[before |-> call[a].before, after |-> After(call[a])]>> \o log
    /\ Goto(a, "trim")
    /\ UNCHANGED <<overrides, gauge, answer, calls, chat, held, untrimmed, orderly>>

\* Variant: LPUSH is repeated when its answer does not come.
PushRepeated(a) ==
    /\ call[a].step = "push"
    /\ log' = <<[before |-> call[a].before, after |-> After(call[a])]>> \o log
    /\ Goto(a, "push") \/ Goto(a, "trim")
    /\ UNCHANGED <<overrides, gauge, answer, calls, chat, held, untrimmed, orderly>>

\* LPUSH of the audit entry.
Push(a) ==
    /\ call[a].step = "push"
    /\ log' = <<[before |-> call[a].before, after |-> After(call[a])]>> \o log
    /\ Goto(a, "trim")
    /\ UNCHANGED <<overrides, gauge, answer, calls, chat, held, untrimmed, orderly>>

\* Variant: LTRIM 0 _MAX_ENTRIES, which keeps one entry more.
KeptOneMore == SubSeq(log, 1, IF Len(log) > MaxEntries + 1 THEN MaxEntries + 1 ELSE Len(log))

\* What LTRIM 0 _MAX_ENTRIES - 1 keeps.
Kept == SubSeq(log, 1, IF Len(log) > MaxEntries THEN MaxEntries ELSE Len(log))

\* LTRIM.
Trim(a) ==
    /\ call[a].step = "trim"
    /\ log' = Kept
    /\ untrimmed' = 0
    /\ Goto(a, "view")
    /\ UNCHANGED <<overrides, gauge, answer, calls, chat, held, orderly>>

\* _to_view(): effective_team().
View(a) ==
    /\ call[a].step = "view"
    /\ call' = [call EXCEPT ![a].step = "answer", ![a].view = overrides]
    /\ UNCHANGED <<overrides, log, gauge, answer, calls, chat, held, untrimmed, orderly>>

Return(a, status) ==
    /\ call' = [call EXCEPT ![a] = Resting]
    /\ answer' = [answer EXCEPT ![a] = status]

\* Variant: the answer does not refresh the gauge.
AnswerOnly(a) ==
    /\ call[a].step = "answer"
    /\ call[a].view["priority"] # "null"
    /\ Return(a, "200")
    /\ UNCHANGED <<overrides, log, gauge, calls, chat, held, untrimmed, orderly>>

\* _to_view() gets its second GET, which only tells whether there are overrides;
\* set_team_budget_gauges() takes the budget of the view.
Answer(a) ==
    /\ call[a].step = "answer"
    /\ call[a].view["priority"] # "null"
    /\ gauge' = call[a].view["budget"]
    /\ Return(a, "200")
    /\ UNCHANGED <<overrides, log, calls, chat, held, untrimmed, orderly>>

\* ... but a TeamLimitsView has no null priority: its constructor raises.
AnswerInvalid(a) ==
    /\ call[a].step = "answer"
    /\ call[a].view["priority"] = "null"
    /\ Return(a, "500")
    /\ orderly' = FALSE
    /\ UNCHANGED <<overrides, log, gauge, calls, chat, held, untrimmed>>

\* A Redis command fails, or the task ends.
Fail(a) ==
    /\ MayFail
    /\ call[a] # Resting
    /\ Return(a, "failed")
    /\ untrimmed' = IF call[a].step = "trim" THEN untrimmed + 1 ELSE untrimmed
    /\ orderly' = FALSE
    /\ UNCHANGED <<overrides, log, gauge, calls, chat, held>>

\* chat_completions(): effective_team().
ChatReads(c) ==
    /\ chat[c] = "none"
    /\ chat' = [chat EXCEPT ![c] = overrides["budget"]]
    /\ orderly' = (orderly /\ Quiet)
    /\ UNCHANGED <<overrides, log, gauge, call, answer, calls, held, untrimmed>>

\* chat_completions(), after the rate limit: set_team_budget_gauges().
ChatSetsGauge(c) ==
    /\ chat[c] # "none"
    /\ gauge' = chat[c]
    /\ chat' = [chat EXCEPT ![c] = "none"]
    /\ UNCHANGED <<overrides, log, call, answer, calls, held, untrimmed, orderly>>

\* ... or the model, the policy or the rate limit refuses it before that.
ChatRefused(c) ==
    /\ chat[c] # "none"
    /\ chat' = [chat EXCEPT ![c] = "none"]
    /\ UNCHANGED <<overrides, log, gauge, call, answer, calls, held, untrimmed, orderly>>

\* Every call has been made.
Idle ==
    /\ calls = MaxCalls
    /\ \A a \in Admin : call[a] = Resting
    /\ UNCHANGED vars

Next ==
    \/ \E a \in Admin : \/ \E patch \in Overrides : Start(a, "patch", patch)
                        \/ Start(a, "delete", NoOverrides)
                        \/ Store(a) \/ Push(a) \/ Trim(a) \/ View(a)
                        \/ Answer(a) \/ AnswerInvalid(a)
                        \/ Fail(a)
    \/ \E c \in Chat : ChatReads(c) \/ ChatSetsGauge(c) \/ ChatRefused(c)
    \/ Idle

Spec == Init /\ [][Next]_vars

-----------------------------------------------------------------------------
\* Every variable keeps its shape; a call leaves one audit entry at most.
TypeOK ==
    /\ overrides \in Overrides
    /\ log \in Seq([before : Overrides, after : Overrides])
    /\ Len(log) <= calls
    /\ gauge \in Value \cup {"config"}
    /\ call \in [Admin -> Busy \cup {Resting}]
    /\ answer \in [Admin -> {"none", "200", "500", "failed"}]
    /\ calls \in 0..MaxCalls
    /\ chat \in [Chat -> Value \cup {"config", "none"}]
    /\ held \subseteq Overrides
    /\ untrimmed \in 0..MaxCalls
    /\ orderly \in BOOLEAN

\* "omitting a field leaves any existing override for it untouched": a PATCH
\* changes the fields its request names and no others.
OmittedFieldsKept ==
    [][\A a \in Admin : call[a].step = "store" /\ call'[a].step = "push" /\ call[a].kind = "patch"
          => \A f \in Field : call[a].patch[f] = "config" => overrides'[f] = overrides[f]]_vars

\* The trail of "who changed what and when" has no gap: every change starts from
\* what the one before it left.
TrailIsContinuous ==
    \A i \in 1..(Len(log) - 1) : log[i].before = log[i + 1].after

\* As long as calls follow one another and succeed, the overrides, the audit trail
\* and the gauge tell the same story: the trail has no gap, and when nothing is
\* under way it ends in the overrides in force and the gauge shows their budget
\* ("keep the alerting metric in sync immediately").
SequentialCallsAgree ==
    orderly => /\ TrailIsContinuous
               /\ Quiet => /\ gauge = overrides["budget"]
                           /\ log # <<>> => log[1].after = overrides

\* The log tells of nothing that did not happen: whatever fails and however
\* calls overlap, what it says was in force was in force.
AuditNeverLies ==
    \A i \in 1..Len(log) : log[i].before \in held /\ log[i].after \in held

\* "a capped Redis list": it is over the cap only by the calls that have yet to
\* trim it or failed to, and the next LTRIM makes up for all of them.
LogBounded ==
    Len(log) <= MaxEntries + Cardinality({a \in Admin : call[a].step = "trim"}) + untrimmed
=============================================================================
