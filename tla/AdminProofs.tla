----------------------------- MODULE AdminProofs -----------------------------
(***************************************************************************)
(* What is proved of AdminOverrides for every number of tasks and calls and *)
(* every length of the log: that the audit log never lies and stays within  *)
(* its bound whatever overlaps or fails, and that overrides, log and gauge  *)
(* agree as long as nothing does.                                           *)
(***************************************************************************)
EXTENDS AdminOverrides, FiniteSetTheorems, TLAPS

-----------------------------------------------------------------------------
(* The inductive invariant. *)

Steps == {"store", "push", "trim", "view", "answer"}

\* Those before the entry is in the log.
Unpushed == {"store", "push"}

\* The tasks whose calls c are at one of the steps S.
At(c, S) == {a \in Admin : c[a].step \in S}

\* Every entry of the log belongs to a call of its own, and so does every failure of a
\* call that had yet to trim it.
Counts ==
    /\ IsFiniteSet(At(call, Steps))
    /\ Len(log) + Cardinality(At(call, Unpushed)) <= calls
    /\ untrimmed + Cardinality(At(call, Steps)) <= calls

\* What calls have read and written has been in force.
Known ==
    /\ overrides \in held
    /\ \A a \in Admin : call[a] # Resting =>
          /\ call[a].before \in held
          /\ call[a].step = "push" => After(call[a]) \in held

\* A call under way is the only one, and no chat request is.
Alone ==
    \A a \in Admin : call[a] # Resting => /\ \A b \in Admin : b # a => call[b] = Resting
                                          /\ \A c \in Chat : chat[c] = "none"

\* Whatever a call or a chat request has read is still in force, and so is the budget
\* that the gauge shows.
UpToDate ==
    /\ \A c \in Chat : chat[c] # "none" => chat[c] = overrides["budget"]
    /\ (\A a \in Admin : call[a] = Resting) => gauge = overrides["budget"]
    /\ \A a \in Admin : /\ call[a].step = "store" => call[a].before = overrides
                        /\ call[a].step = "push" => overrides = After(call[a])
                        /\ call[a].step = "answer" => call[a].view = overrides

\* The log ends in the overrides in force, or in those that the call which has yet to
\* push its entry has replaced.
TrailEnds ==
    log # <<>> =>
        /\ (\A a \in Admin : call[a].step # "push") => log[1].after = overrides
        /\ \A a \in Admin : call[a].step = "push" => log[1].after = call[a].before

Orderly == orderly => Alone /\ UpToDate /\ TrailEnds /\ TrailIsContinuous

Inductive == TypeOK /\ Counts /\ LogBounded /\ Known /\ AuditNeverLies /\ Orderly

-----------------------------------------------------------------------------
(* Calls and their steps. *)

CallType == [Admin -> Busy \cup {Resting}]

Entry == [before : Overrides, after : Overrides]

LEMMA Empty == NoOverrides \in Overrides /\ "budget" \in Field /\ "priority" \in Field
  BY AdminAssumption DEF NoOverrides, Overrides

LEMMA CallStep ==
  ASSUME call \in CallType, NEW a \in Admin
  PROVE  /\ call[a] = Resting <=> call[a].step = "rest"
         /\ call[a] # Resting <=> call[a].step \in Steps
         /\ call[a] # Resting => call[a] \in Busy
  <1>1. call[a] \in Busy \cup {Resting}
    BY DEF CallType
  <1>2. Resting.step = "rest"
    BY DEF Resting
  <1>3. ASSUME call[a] \in Busy PROVE call[a].step \in Steps
    BY <1>3 DEF Busy, Steps
  <1>4. "rest" \notin Steps
    BY DEF Steps
  <1> QED
    BY <1>1, <1>2, <1>3, <1>4

LEMMA AfterType ==
  ASSUME NEW c \in Busy
  PROVE  After(c) \in Overrides
  <1>1. c.patch \in Overrides /\ c.before \in Overrides
    BY DEF Busy
  <1>2. Merged(c.before, c.patch) \in Overrides
    BY <1>1 DEF Merged, Overrides
  <1> QED
    BY <1>2, Empty DEF After

\* A call goes on to its next step.
LEMMA Moved ==
  ASSUME call \in CallType, NEW a \in Admin, call[a].step \in Steps, NEW s \in Steps, Goto(a, s)
  PROVE  /\ call' \in CallType /\ call'[a] \in Busy /\ call'[a].step = s
         /\ call'[a].kind = call[a].kind /\ call'[a].patch = call[a].patch
         /\ call'[a].before = call[a].before /\ call'[a].view = call[a].view
         /\ After(call'[a]) = After(call[a])
         /\ \A b \in Admin : b # a => call'[b] = call[b]
  <1>1. call[a] \in Busy
    BY CallStep
  <1>2. call' = [call EXCEPT ![a] = [call[a] EXCEPT !.step = s]]
    BY DEF Goto
  <1>3. /\ call'[a] = [call[a] EXCEPT !.step = s]
        /\ \A b \in Admin : b # a => call'[b] = call[b]
        /\ DOMAIN call' = Admin
    BY <1>2 DEF CallType
  <1>4. /\ call'[a] \in Busy /\ call'[a].step = s
        /\ call'[a].kind = call[a].kind /\ call'[a].patch = call[a].patch
        /\ call'[a].before = call[a].before /\ call'[a].view = call[a].view
    <2>1. [call[a] EXCEPT !.step = s] \in Busy
      BY <1>1 DEF Busy, Steps
    <2> QED
      BY <1>1, <1>3, <2>1 DEF Busy
  <1>5. call' \in CallType
    BY <1>2, <1>3, <1>4 DEF CallType
  <1> QED
    BY <1>3, <1>4, <1>5 DEF After

LEMMA Returned ==
  ASSUME call \in CallType, NEW a \in Admin, NEW s, Return(a, s)
  PROVE  /\ call' \in CallType /\ call'[a] = Resting /\ call'[a].step = "rest"
         /\ \A b \in Admin : b # a => call'[b] = call[b]
         /\ answer' = [answer EXCEPT ![a] = s]
  BY DEF Return, CallType, Resting

LEMMA Viewed ==
  ASSUME call \in CallType, NEW a \in Admin, call[a].step = "view", overrides \in Overrides,
         call' = [call EXCEPT ![a].step = "answer", ![a].view = overrides]
  PROVE  /\ call' \in CallType /\ call'[a] \in Busy /\ call'[a].step = "answer"
         /\ call'[a].view = overrides /\ call'[a].before = call[a].before
         /\ \A b \in Admin : b # a => call'[b] = call[b]
  <1> DEFINE new == [step |-> "answer", kind |-> call[a].kind, patch |-> call[a].patch,
                     before |-> call[a].before, view |-> overrides]
  <1>1. call[a] \in Busy
    BY CallStep DEF Steps
  <1>2. new \in Busy /\ new.step = "answer" /\ new.view = overrides /\ new.before = call[a].before
    BY <1>1 DEF Busy
  <1>3. call' = [call EXCEPT ![a] = new]
    <2>1. /\ call'[a] = [[call[a] EXCEPT !.step = "answer"] EXCEPT !.view = overrides]
          /\ \A b \in Admin : b # a => call'[b] = call[b]
          /\ call' = [b \in Admin |-> call'[b]]
      BY DEF CallType
    <2>2. call'[a] = new
      BY <1>1, <2>1 DEF Busy
    <2> HIDE DEF new
    <2> QED
      BY <2>1, <2>2 DEF CallType
  <1> HIDE DEF new
  <1> QED
    BY <1>2, <1>3 DEF CallType

LEMMA Started ==
  ASSUME TypeOK, NEW a \in Admin, NEW kind \in {"patch", "delete"}, NEW patch \in Overrides,
         Start(a, kind, patch)
  PROVE  /\ call[a] = Resting /\ call' \in CallType /\ call'[a] \in Busy
         /\ call'[a].step = "store" /\ call'[a].before = overrides
         /\ \A b \in Admin : b # a => call'[b] = call[b]
  <1> DEFINE new == [step |-> "store", kind |-> kind, patch |-> patch,
                     before |-> overrides, view |-> NoOverrides]
  <1>1. call \in CallType /\ overrides \in Overrides
    BY DEF TypeOK, CallType
  <1>2. new \in Busy /\ new.step = "store" /\ new.before = overrides
    BY <1>1, Empty DEF Busy
  <1>3. call' = [call EXCEPT ![a] = new]
    BY DEF Start
  <1> HIDE DEF new
  <1> QED
    BY <1>1, <1>2, <1>3 DEF Start, CallType

\* How many calls are at some steps when one call moves.
LEMMA AtChanges ==
  ASSUME NEW c, NEW d, NEW a \in Admin, NEW S,
         \A b \in Admin : b # a => d[b] = c[b], IsFiniteSet(At(c, S))
  PROVE  /\ IsFiniteSet(At(d, S))
         /\ Cardinality(At(c, S)) \in Nat /\ Cardinality(At(d, S)) \in Nat
         /\ (c[a].step \in S <=> d[a].step \in S) => Cardinality(At(d, S)) = Cardinality(At(c, S))
         /\ c[a].step \notin S /\ d[a].step \in S
               => Cardinality(At(d, S)) = Cardinality(At(c, S)) + 1
         /\ c[a].step \in S /\ d[a].step \notin S
               => Cardinality(At(d, S)) = Cardinality(At(c, S)) - 1
  <1>1. CASE c[a].step \in S <=> d[a].step \in S
    <2>1. At(d, S) = At(c, S)
      BY <1>1 DEF At
    <2> QED
      BY <1>1, <2>1, FS_CardinalityType
  <1>2. CASE c[a].step \notin S /\ d[a].step \in S
    <2>1. At(d, S) = At(c, S) \cup {a} /\ a \notin At(c, S)
      BY <1>2 DEF At
    <2> QED
      BY <1>2, <2>1, FS_CardinalityType, FS_AddElement
  <1>3. CASE c[a].step \in S /\ d[a].step \notin S
    <2>1. At(d, S) = At(c, S) \ {a} /\ a \in At(c, S)
      BY <1>3 DEF At
    <2> QED
      BY <1>3, <2>1, FS_CardinalityType, FS_RemoveElement
  <1> QED
    BY <1>1, <1>2, <1>3

-----------------------------------------------------------------------------
(* Type correctness, and how calls, entries and failures count. *)

LEMMA TypeFields ==
  ASSUME TypeOK
  PROVE  /\ call \in CallType /\ overrides \in Overrides /\ log \in Seq(Entry)
         /\ calls \in Nat /\ untrimmed \in Nat /\ Len(log) \in Nat
         /\ MaxCalls \in Nat /\ MaxEntries \in Nat \ {0}
  BY AdminAssumption DEF TypeOK, CallType, Entry

\* The two numbers that Counts is about, when the call of one task moves.
LEMMA CountsMove ==
  ASSUME TypeOK, Counts, NEW a \in Admin, \A b \in Admin : b # a => call'[b] = call[b]
  PROVE  /\ IsFiniteSet(At(call', Steps))
         /\ Cardinality(At(call, Steps)) \in Nat /\ Cardinality(At(call', Steps)) \in Nat
         /\ Cardinality(At(call, Unpushed)) \in Nat /\ Cardinality(At(call', Unpushed)) \in Nat
         /\ call[a].step \in Steps /\ call'[a].step \in Steps
               => Cardinality(At(call', Steps)) = Cardinality(At(call, Steps))
         /\ call[a].step \notin Steps /\ call'[a].step \in Steps
               => Cardinality(At(call', Steps)) = Cardinality(At(call, Steps)) + 1
         /\ call[a].step \in Steps /\ call'[a].step \notin Steps
               => Cardinality(At(call', Steps)) = Cardinality(At(call, Steps)) - 1
         /\ call[a].step \in Unpushed /\ call'[a].step \in Unpushed
               => Cardinality(At(call', Unpushed)) = Cardinality(At(call, Unpushed))
         /\ call[a].step \notin Unpushed /\ call'[a].step \notin Unpushed
               => Cardinality(At(call', Unpushed)) = Cardinality(At(call, Unpushed))
         /\ call[a].step \notin Unpushed /\ call'[a].step \in Unpushed
               => Cardinality(At(call', Unpushed)) = Cardinality(At(call, Unpushed)) + 1
         /\ call[a].step \in Unpushed /\ call'[a].step \notin Unpushed
               => Cardinality(At(call', Unpushed)) = Cardinality(At(call, Unpushed)) - 1
  <1>1. IsFiniteSet(At(call, Steps))
    BY DEF Counts
  <1>2. IsFiniteSet(At(call, Unpushed))
    <2>1. At(call, Unpushed) \subseteq At(call, Steps)
      BY DEF At, Steps, Unpushed
    <2> QED
      BY <1>1, <2>1, FS_Subset
  <1>3. /\ IsFiniteSet(At(call', Steps))
        /\ Cardinality(At(call, Steps)) \in Nat /\ Cardinality(At(call', Steps)) \in Nat
        /\ (call[a].step \in Steps <=> call'[a].step \in Steps)
              => Cardinality(At(call', Steps)) = Cardinality(At(call, Steps))
        /\ call[a].step \notin Steps /\ call'[a].step \in Steps
              => Cardinality(At(call', Steps)) = Cardinality(At(call, Steps)) + 1
        /\ call[a].step \in Steps /\ call'[a].step \notin Steps
              => Cardinality(At(call', Steps)) = Cardinality(At(call, Steps)) - 1
    BY <1>1, AtChanges, Z3
  <1>4. /\ IsFiniteSet(At(call', Unpushed))
        /\ Cardinality(At(call, Unpushed)) \in Nat /\ Cardinality(At(call', Unpushed)) \in Nat
        /\ (call[a].step \in Unpushed <=> call'[a].step \in Unpushed)
              => Cardinality(At(call', Unpushed)) = Cardinality(At(call, Unpushed))
        /\ call[a].step \notin Unpushed /\ call'[a].step \in Unpushed
              => Cardinality(At(call', Unpushed)) = Cardinality(At(call, Unpushed)) + 1
        /\ call[a].step \in Unpushed /\ call'[a].step \notin Unpushed
              => Cardinality(At(call', Unpushed)) = Cardinality(At(call, Unpushed)) - 1
    BY <1>2, AtChanges, Z3
  <1> QED
    BY <1>3, <1>4

LEMMA InitType == Init => TypeOK /\ Counts
  <1> SUFFICES ASSUME Init PROVE TypeOK /\ Counts
    OBVIOUS
  <1>1. TypeOK
    BY Empty, AdminAssumption DEF Init, TypeOK
  <1>2. At(call, Steps) = {} /\ At(call, Unpushed) = {}
    BY DEF Init, At, Steps, Unpushed, Resting
  <1>3. Counts
    <2>1. calls = 0 /\ untrimmed = 0 /\ Len(log) = 0
      BY DEF Init
    <2>2. IsFiniteSet({}) /\ Cardinality({}) = 0
      BY FS_EmptySet
    <2> QED
      BY <1>2, <2>1, <2>2 DEF Counts
  <1> QED
    BY <1>1, <1>3

\* A call pushes its entry, which exists only once.
LEMMA PushedType ==
  ASSUME TypeOK, NEW a \in Admin, Push(a)
  PROVE  /\ log' \in Seq(Entry) /\ Len(log') = Len(log) + 1
         /\ log'[1] = [before |-> call[a].before, after |-> After(call[a])]
         /\ \A i \in 1..Len(log) : log'[i + 1] = log[i]
         /\ call[a] \in Busy /\ call[a].step = "push" /\ Goto(a, "trim")
  <1> DEFINE entry == [before |-> call[a].before, after |-> After(call[a])]
  <1>1. call[a].step = "push" /\ Goto(a, "trim") /\ log' = <<entry>> \o log
    BY DEF Push
  <1>2. call[a] \in Busy
    BY <1>1, TypeFields, CallStep DEF Steps
  <1>3. entry \in Entry
    BY <1>2, AfterType DEF Entry, Busy
  <1>4. log \in Seq(Entry)
    BY TypeFields
  <1> HIDE DEF entry
  <1>5. /\ log' \in Seq(Entry) /\ Len(log') = Len(log) + 1 /\ log'[1] = entry
        /\ \A i \in 1..Len(log) : log'[i + 1] = log[i]
    BY <1>1, <1>3, <1>4
  <1> QED
    BY <1>1, <1>2, <1>5 DEF entry

\* What LTRIM keeps.
LEMMA KeptType ==
  ASSUME TypeOK
  PROVE  /\ Kept \in Seq(Entry) /\ Len(Kept) <= Len(log) /\ Len(Kept) <= MaxEntries
         /\ log # <<>> <=> Kept # <<>>
         /\ \A i \in 1..Len(Kept) : Kept[i] = log[i]
  <1>1. log \in Seq(Entry) /\ Len(log) \in Nat /\ MaxEntries \in Nat \ {0}
    BY TypeFields
  <1>2. CASE Len(log) > MaxEntries
    <2>1. Kept = SubSeq(log, 1, MaxEntries)
      BY <1>2 DEF Kept
    <2>2. /\ Kept \in Seq(Entry) /\ Len(Kept) = MaxEntries
          /\ \A i \in 1..Len(Kept) : Kept[i] = log[i]
      BY <1>1, <1>2, <2>1
    <2>3. Len(log) # 0 /\ Len(Kept) # 0
      BY <1>1, <1>2, <2>2
    <2> QED
      BY <1>1, <1>2, <2>2, <2>3
  <1>3. CASE ~(Len(log) > MaxEntries)
    <2>1. Kept = SubSeq(log, 1, Len(log))
      BY <1>3 DEF Kept
    <2>2. Kept = log
      BY <1>1, <2>1
    <2> QED
      BY <1>1, <1>3, <2>2
  <1> QED
    BY <1>2, <1>3

\* The numbers after a step of one call.
LEMMA TypeFrom ==
  ASSUME TypeOK, overrides' \in Overrides, log' \in Seq(Entry), gauge' \in Value \cup {"config"},
         call' \in CallType, answer' \in [Admin -> {"none", "200", "500", "failed"}],
         calls' \in 0..MaxCalls, chat' \in [Chat -> Value \cup {"config", "none"}],
         held' \subseteq Overrides, orderly' \in BOOLEAN, untrimmed' \in Nat, Counts'
  PROVE  TypeOK'
  <1>1. calls' \in Nat /\ MaxCalls \in Nat /\ Len(log') \in Nat /\ calls' <= MaxCalls
    BY TypeFields
  <1>2. /\ Cardinality(At(call', Unpushed)) \in Nat
        /\ Cardinality(At(call', Steps)) \in Nat
    <2>1. At(call', Unpushed) \subseteq At(call', Steps) /\ IsFiniteSet(At(call', Steps))
      BY DEF At, Steps, Unpushed, Counts
    <2> QED
      BY <2>1, FS_Subset, FS_CardinalityType
  <1>3. Len(log') <= calls' /\ untrimmed' <= calls'
    BY <1>1, <1>2 DEF Counts
  <1>4. untrimmed' \in 0..MaxCalls
    BY <1>1, <1>3
  <1> QED
    BY <1>3, <1>4 DEF TypeOK, CallType, Entry

\* Steps of chat requests count nothing.
LEMMA CountsSame ==
  ASSUME Counts, UNCHANGED <<call, log, calls, untrimmed>>
  PROVE  Counts'
  BY DEF Counts

LEMMA NextType ==
  ASSUME TypeOK, Counts, [Next]_vars
  PROVE  TypeOK' /\ Counts'
  <1>1. ASSUME NEW a \in Admin, NEW kind \in {"patch", "delete"}, NEW patch \in Overrides,
               Start(a, kind, patch)
        PROVE  TypeOK' /\ Counts'
    <2>1. /\ call[a].step = "rest" /\ call' \in CallType /\ call'[a].step = "store"
          /\ \A b \in Admin : b # a => call'[b] = call[b]
      BY <1>1, Started, CallStep, TypeFields
    <2>2. calls' = calls + 1 /\ calls < MaxCalls
          /\ UNCHANGED <<overrides, log, gauge, answer, chat, held, untrimmed>>
      BY <1>1 DEF Start
    <2>3. orderly' \in BOOLEAN
      BY <1>1, Zenon DEF Start
    <2>4. Counts'
      <3>1. /\ IsFiniteSet(At(call', Steps))
            /\ Cardinality(At(call', Steps)) = Cardinality(At(call, Steps)) + 1
            /\ Cardinality(At(call', Unpushed)) = Cardinality(At(call, Unpushed)) + 1
            /\ Cardinality(At(call, Steps)) \in Nat /\ Cardinality(At(call, Unpushed)) \in Nat
        BY <2>1, CountsMove DEF Steps, Unpushed
      <3> QED
        BY <2>2, <3>1, TypeFields DEF Counts
    <2>5. calls' \in 0..MaxCalls
      BY <2>2, TypeFields
    <2> QED
      BY <2>1, <2>2, <2>3, <2>4, <2>5, TypeFrom DEF TypeOK, Entry
  <1>2. ASSUME NEW a \in Admin, Store(a) PROVE TypeOK' /\ Counts'
    <2>1. call[a].step = "store" /\ Goto(a, "push") /\ overrides' = After(call[a])
          /\ held' = held \cup {overrides'}
          /\ UNCHANGED <<log, gauge, answer, calls, chat, untrimmed, orderly>>
      BY <1>2 DEF Store
    <2>2. /\ call' \in CallType /\ call'[a].step = "push" /\ call[a] \in Busy
          /\ \A b \in Admin : b # a => call'[b] = call[b]
      BY <2>1, Moved, CallStep, TypeFields DEF Steps
    <2>3. Counts'
      <3>1. /\ IsFiniteSet(At(call', Steps))
            /\ Cardinality(At(call', Steps)) = Cardinality(At(call, Steps))
            /\ Cardinality(At(call', Unpushed)) = Cardinality(At(call, Unpushed))
        BY <2>1, <2>2, CountsMove DEF Steps, Unpushed
      <3> QED
        BY <2>1, <3>1 DEF Counts
    <2>4. overrides' \in Overrides
      BY <2>1, <2>2, AfterType
    <2> QED
      BY <2>1, <2>2, <2>3, <2>4, TypeFrom DEF TypeOK, Entry
  <1>3. ASSUME NEW a \in Admin, Push(a) PROVE TypeOK' /\ Counts'
    <2>1. /\ log' \in Seq(Entry) /\ Len(log') = Len(log) + 1 /\ call[a].step = "push"
          /\ Goto(a, "trim")
          /\ UNCHANGED <<overrides, gauge, answer, calls, chat, held, untrimmed, orderly>>
      BY <1>3, PushedType DEF Push
    <2>2. /\ call' \in CallType /\ call'[a].step = "trim"
          /\ \A b \in Admin : b # a => call'[b] = call[b]
      BY <2>1, Moved, TypeFields DEF Steps
    <2>3. Counts'
      <3>1. /\ IsFiniteSet(At(call', Steps))
            /\ Cardinality(At(call', Steps)) = Cardinality(At(call, Steps))
            /\ Cardinality(At(call', Unpushed)) = Cardinality(At(call, Unpushed)) - 1
            /\ Cardinality(At(call, Unpushed)) \in Nat
        BY <2>1, <2>2, CountsMove DEF Steps, Unpushed
      <3> QED
        BY <2>1, <3>1, TypeFields DEF Counts
    <2> QED
      BY <2>1, <2>2, <2>3, TypeFrom, TypeFields DEF TypeOK
  <1>4. ASSUME NEW a \in Admin, Trim(a) PROVE TypeOK' /\ Counts'
    <2>1. /\ call[a].step = "trim" /\ Goto(a, "view") /\ untrimmed' = 0 /\ log' = Kept
          /\ UNCHANGED <<overrides, gauge, answer, calls, chat, held, orderly>>
      BY <1>4 DEF Trim
    <2>2. /\ call' \in CallType /\ call'[a].step = "view"
          /\ \A b \in Admin : b # a => call'[b] = call[b]
      BY <2>1, Moved, TypeFields DEF Steps
    <2>3. log' \in Seq(Entry) /\ Len(log') <= Len(log) /\ Len(log') \in Nat
      BY <2>1, KeptType
    <2>4. Counts'
      <3>1. /\ IsFiniteSet(At(call', Steps))
            /\ Cardinality(At(call', Steps)) = Cardinality(At(call, Steps))
            /\ Cardinality(At(call', Unpushed)) = Cardinality(At(call, Unpushed))
            /\ Cardinality(At(call, Steps)) \in Nat /\ Cardinality(At(call, Unpushed)) \in Nat
        BY <2>1, <2>2, CountsMove DEF Steps, Unpushed
      <3>2. /\ Len(log') + Cardinality(At(call', Unpushed)) <= calls'
            /\ untrimmed' + Cardinality(At(call', Steps)) <= calls'
        BY <2>1, <2>3, <3>1, TypeFields DEF Counts
      <3> QED
        BY <3>1, <3>2 DEF Counts
    <2> QED
      BY <2>1, <2>2, <2>3, <2>4, TypeFrom, TypeFields DEF TypeOK
  <1>5. ASSUME NEW a \in Admin, View(a) PROVE TypeOK' /\ Counts'
    <2>1. /\ call[a].step = "view"
          /\ call' = [call EXCEPT ![a].step = "answer", ![a].view = overrides]
          /\ UNCHANGED <<overrides, log, gauge, answer, calls, chat, held, untrimmed, orderly>>
      BY <1>5 DEF View
    <2>2. /\ call' \in CallType /\ call'[a].step = "answer"
          /\ \A b \in Admin : b # a => call'[b] = call[b]
      BY <2>1, Viewed, TypeFields
    <2>3. Counts'
      <3>1. /\ IsFiniteSet(At(call', Steps))
            /\ Cardinality(At(call', Steps)) = Cardinality(At(call, Steps))
            /\ Cardinality(At(call', Unpushed)) = Cardinality(At(call, Unpushed))
        BY <2>1, <2>2, CountsMove DEF Steps, Unpushed
      <3> QED
        BY <2>1, <3>1 DEF Counts
    <2> QED
      BY <2>1, <2>2, <2>3, TypeFrom, TypeFields DEF TypeOK
  <1>6. ASSUME NEW a \in Admin, NEW s \in {"200", "500", "failed"}, Return(a, s),
               call[a].step \in Steps, untrimmed' \in {untrimmed, untrimmed + 1},
               gauge' \in Value \cup {"config"}, orderly' \in BOOLEAN,
               UNCHANGED <<overrides, log, calls, chat, held>>
        PROVE  TypeOK' /\ Counts'
    <2>1. /\ call' \in CallType /\ call'[a].step = "rest"
          /\ \A b \in Admin : b # a => call'[b] = call[b]
          /\ answer' \in [Admin -> {"none", "200", "500", "failed"}]
      BY <1>6, Returned, TypeFields DEF TypeOK
    <2>2. Counts' /\ untrimmed' \in Nat
      <3>1. /\ IsFiniteSet(At(call', Steps))
            /\ Cardinality(At(call', Steps)) = Cardinality(At(call, Steps)) - 1
            /\ Cardinality(At(call, Steps)) \in Nat
        BY <1>6, <2>1, CountsMove DEF Steps
      <3>2. /\ Cardinality(At(call', Unpushed)) <= Cardinality(At(call, Unpushed))
            /\ Cardinality(At(call', Unpushed)) \in Nat /\ Cardinality(At(call, Unpushed)) \in Nat
        <4>1. call'[a].step \notin Unpushed
          BY <2>1 DEF Unpushed
        <4>2. /\ Cardinality(At(call', Unpushed)) \in Nat /\ Cardinality(At(call, Unpushed)) \in Nat
              /\ \/ Cardinality(At(call', Unpushed)) = Cardinality(At(call, Unpushed))
                 \/ Cardinality(At(call', Unpushed)) = Cardinality(At(call, Unpushed)) - 1
          BY <2>1, <4>1, CountsMove
        <4> QED
          BY <4>2
      <3>3. untrimmed' \in Nat /\ untrimmed' <= untrimmed + 1
        BY <1>6, TypeFields
      <3>4. /\ Len(log) + Cardinality(At(call', Unpushed)) <= calls
            /\ untrimmed' + Cardinality(At(call', Steps)) <= calls
        BY <3>1, <3>2, <3>3, TypeFields DEF Counts
      <3> QED
        BY <1>6, <3>1, <3>3, <3>4 DEF Counts
    <2> QED
      BY <1>6, <2>1, <2>2, TypeFrom, TypeFields DEF TypeOK
  <1>7. ASSUME NEW a \in Admin, Answer(a) PROVE TypeOK' /\ Counts'
    <2>1. call[a].step = "answer" /\ call[a] \in Busy
      BY <1>7, CallStep, TypeFields DEF Answer, Steps
    <2>2. call[a].view["budget"] \in Value \cup {"config"}
      BY <2>1, Empty DEF Busy, Overrides
    <2> QED
      BY <1>6, <1>7, <2>1, <2>2 DEF Answer, Steps, TypeOK
  <1>8. ASSUME NEW a \in Admin, AnswerInvalid(a) PROVE TypeOK' /\ Counts'
    <2>1. orderly' \in BOOLEAN
      BY <1>8, Zenon DEF AnswerInvalid
    <2>2. /\ call[a].step = "answer" /\ Return(a, "500")
          /\ UNCHANGED <<overrides, log, gauge, calls, chat, held, untrimmed>>
      BY <1>8 DEF AnswerInvalid
    <2> QED
      BY <1>6, <2>1, <2>2 DEF Steps, TypeOK
  <1>9. ASSUME NEW a \in Admin, Fail(a) PROVE TypeOK' /\ Counts'
    <2>1. orderly' \in BOOLEAN
      BY <1>9, Zenon DEF Fail
    <2>2. /\ Return(a, "failed") /\ untrimmed' \in {untrimmed, untrimmed + 1}
          /\ UNCHANGED <<overrides, log, gauge, calls, chat, held>>
          /\ call[a] # Resting
      BY <1>9 DEF Fail
    <2>3. call[a].step \in Steps
      BY <2>2, CallStep, TypeFields
    <2> QED
      BY <1>6, <2>1, <2>2, <2>3 DEF TypeOK
  <1>10. ASSUME NEW c \in Chat, ChatReads(c) PROVE TypeOK' /\ Counts'
    <2>1. orderly' \in BOOLEAN
      BY <1>10, Zenon DEF ChatReads
    <2>2. /\ chat' = [chat EXCEPT ![c] = overrides["budget"]]
          /\ UNCHANGED <<overrides, log, gauge, call, answer, calls, held, untrimmed>>
      BY <1>10 DEF ChatReads
    <2>3. overrides["budget"] \in Value \cup {"config"}
      BY Empty DEF TypeOK, Overrides
    <2>4. chat' \in [Chat -> Value \cup {"config", "none"}]
      BY <2>2, <2>3 DEF TypeOK
    <2> QED
      BY <2>1, <2>2, <2>4, CountsSame DEF TypeOK
  <1>11. ASSUME NEW c \in Chat, ChatSetsGauge(c) PROVE TypeOK' /\ Counts'
    <2>1. /\ chat[c] # "none" /\ gauge' = chat[c] /\ chat' = [chat EXCEPT ![c] = "none"]
          /\ UNCHANGED <<overrides, log, call, answer, calls, held, untrimmed, orderly>>
      BY <1>11 DEF ChatSetsGauge
    <2> QED
      BY <2>1, CountsSame DEF TypeOK
  <1>12. ASSUME NEW c \in Chat, ChatRefused(c) PROVE TypeOK' /\ Counts'
    <2>1. /\ chat' = [chat EXCEPT ![c] = "none"]
          /\ UNCHANGED <<overrides, log, gauge, call, answer, calls, held, untrimmed, orderly>>
      BY <1>12 DEF ChatRefused
    <2> QED
      BY <2>1, CountsSame DEF TypeOK
  <1>13. CASE Idle \/ UNCHANGED vars
    <2>1. UNCHANGED vars
      BY <1>13 DEF Idle
    <2> QED
      BY <2>1, CountsSame DEF vars, TypeOK
  <1>14. NoOverrides \in Overrides
    BY Empty
  <1> QED
    BY <1>1, <1>2, <1>3, <1>4, <1>5, <1>7, <1>8, <1>9, <1>10, <1>11, <1>12, <1>13, <1>14 DEF Next

-----------------------------------------------------------------------------
(* The bound of the log. *)

Untrimmed == {"trim"}

LEMMA Trimming ==
  ASSUME NEW c
  PROVE  {a \in Admin : c[a].step = "trim"} = At(c, Untrimmed)
  BY DEF At, Untrimmed

LEMMA BoundMoves ==
  ASSUME TypeOK, Counts, LogBounded, NEW a \in Admin, \A b \in Admin : b # a => call'[b] = call[b],
         call[a].step # "trim", call'[a].step # "trim", UNCHANGED <<log, untrimmed>>
  PROVE  LogBounded'
  <1>1. At(call', Untrimmed) = At(call, Untrimmed)
    BY DEF At, Untrimmed
  <1>2. Len(log) <= MaxEntries + Cardinality(At(call', Untrimmed)) + untrimmed
    BY <1>1, Trimming DEF LogBounded
  <1> QED
    BY <1>2, Trimming DEF LogBounded

LEMMA BoundKept ==
  ASSUME TypeOK, Counts, LogBounded, [Next]_vars
  PROVE  LogBounded'
  <1>1. /\ IsFiniteSet(At(call, Untrimmed)) /\ Len(log) \in Nat /\ untrimmed \in Nat
        /\ MaxEntries \in Nat /\ Cardinality(At(call, Untrimmed)) \in Nat
        /\ Len(log) <= MaxEntries + Cardinality(At(call, Untrimmed)) + untrimmed
    <2>1. At(call, Untrimmed) \subseteq At(call, Steps)
      BY DEF At, Untrimmed, Steps
    <2>2. IsFiniteSet(At(call, Untrimmed))
      BY <2>1, FS_Subset DEF Counts
    <2> QED
      BY <2>2, FS_CardinalityType, TypeFields, Trimming DEF LogBounded
  <1>2. ASSUME NEW a \in Admin, NEW kind \in {"patch", "delete"}, NEW patch \in Overrides,
               Start(a, kind, patch)
        PROVE  LogBounded'
    <2>1. call[a].step = "rest" /\ call'[a].step = "store"
          /\ \A b \in Admin : b # a => call'[b] = call[b]
      BY <1>2, Started, CallStep, TypeFields
    <2> QED
      BY <1>2, <2>1, BoundMoves DEF Start
  <1>3. ASSUME NEW a \in Admin, Store(a) PROVE LogBounded'
    <2>1. call[a].step = "store" /\ Goto(a, "push") /\ UNCHANGED <<log, untrimmed>>
      BY <1>3 DEF Store
    <2>2. call'[a].step = "push" /\ \A b \in Admin : b # a => call'[b] = call[b]
      BY <2>1, Moved, TypeFields DEF Steps
    <2> QED
      BY <2>1, <2>2, BoundMoves
  <1>4. ASSUME NEW a \in Admin, Push(a) PROVE LogBounded'
    <2>1. /\ Len(log') = Len(log) + 1 /\ call[a].step = "push" /\ Goto(a, "trim")
          /\ untrimmed' = untrimmed
      BY <1>4, PushedType DEF Push
    <2>2. call'[a].step = "trim" /\ \A b \in Admin : b # a => call'[b] = call[b]
      BY <2>1, Moved, TypeFields DEF Steps
    <2>3. call[a].step \notin Untrimmed /\ call'[a].step \in Untrimmed
      BY <2>1, <2>2 DEF Untrimmed
    <2>4. Cardinality(At(call', Untrimmed)) = Cardinality(At(call, Untrimmed)) + 1
      BY <1>1, <2>2, <2>3, AtChanges
    <2>5. Len(log') <= MaxEntries + Cardinality(At(call', Untrimmed)) + untrimmed'
      BY <1>1, <2>1, <2>4
    <2> QED
      BY <2>5, Trimming DEF LogBounded
  <1>5. ASSUME NEW a \in Admin, Trim(a) PROVE LogBounded'
    <2>1. /\ call[a].step = "trim" /\ Goto(a, "view") /\ untrimmed' = 0 /\ log' = Kept
      BY <1>5 DEF Trim
    <2>2. call'[a].step = "view" /\ \A b \in Admin : b # a => call'[b] = call[b]
      BY <2>1, Moved, TypeFields DEF Steps
    <2>3. Len(log') <= MaxEntries /\ Len(log') \in Nat
      BY <2>1, KeptType
    <2>4. Cardinality(At(call', Untrimmed)) \in Nat
      BY <1>1, <2>2, AtChanges
    <2>5. Len(log') <= MaxEntries + Cardinality(At(call', Untrimmed)) + untrimmed'
      BY <1>1, <2>1, <2>3, <2>4
    <2> QED
      BY <2>5, Trimming DEF LogBounded
  <1>6. ASSUME NEW a \in Admin, View(a) PROVE LogBounded'
    <2>1. call[a].step = "view" /\ call'[a].step = "answer"
          /\ \A b \in Admin : b # a => call'[b] = call[b]
      BY <1>6, Viewed, TypeFields DEF View
    <2> QED
      BY <1>6, <2>1, BoundMoves DEF View
  <1>7. ASSUME NEW a \in Admin, NEW s, Return(a, s), call[a].step = "answer",
               UNCHANGED <<log, untrimmed>>
        PROVE  LogBounded'
    <2>1. call'[a].step = "rest" /\ \A b \in Admin : b # a => call'[b] = call[b]
      BY <1>7, Returned, TypeFields
    <2> QED
      BY <1>7, <2>1, BoundMoves
  <1>8. ASSUME NEW a \in Admin, Fail(a) PROVE LogBounded'
    <2>1. /\ Return(a, "failed") /\ log' = log
          /\ untrimmed' = IF call[a].step = "trim" THEN untrimmed + 1 ELSE untrimmed
      BY <1>8 DEF Fail
    <2>2. call'[a].step = "rest" /\ \A b \in Admin : b # a => call'[b] = call[b]
      BY <2>1, Returned, TypeFields
    <2>3. CASE call[a].step = "trim"
      <3>1. call[a].step \in Untrimmed /\ call'[a].step \notin Untrimmed
        BY <2>2, <2>3 DEF Untrimmed
      <3>2. Cardinality(At(call', Untrimmed)) = Cardinality(At(call, Untrimmed)) - 1
        <4>1. At(call', Untrimmed) = At(call, Untrimmed) \ {a} /\ a \in At(call, Untrimmed)
          BY <2>2, <3>1 DEF At
        <4> QED
          BY <1>1, <4>1, FS_RemoveElement
      <3>3. Len(log') <= MaxEntries + Cardinality(At(call', Untrimmed)) + untrimmed'
        BY <1>1, <2>1, <2>3, <3>2
      <3> QED
        BY <3>3, Trimming DEF LogBounded
    <2>4. CASE call[a].step # "trim"
      BY <2>1, <2>2, <2>4, BoundMoves
    <2> QED
      BY <2>3, <2>4
  <1>9. ASSUME UNCHANGED <<call, log, untrimmed>> PROVE LogBounded'
    BY <1>9 DEF LogBounded
  <1>10. NoOverrides \in Overrides
    BY Empty
  <1> QED
    BY <1>2, <1>3, <1>4, <1>5, <1>6, <1>7, <1>8, <1>9, <1>10
       DEF Next, Answer, AnswerInvalid, ChatReads, ChatSetsGauge, ChatRefused, Idle, vars

-----------------------------------------------------------------------------
(* The truth of the log. *)

\* What a step of a's call must not disturb.
LEMMA KnownMoves ==
  ASSUME Known, NEW a \in Admin, \A b \in Admin : b # a => call'[b] = call[b],
         held \subseteq held', overrides' \in held',
         call'[a] # Resting => /\ call'[a].before \in held'
                               /\ call'[a].step = "push" => After(call'[a]) \in held'
  PROVE  Known'
  <1>1. ASSUME NEW b \in Admin, call'[b] # Resting
        PROVE  call'[b].before \in held' /\ (call'[b].step = "push" => After(call'[b]) \in held')
    <2>1. CASE b = a
      BY <1>1, <2>1
    <2>2. CASE b # a
      <3>1. call'[b] = call[b]
        BY <2>2
      <3>2. call[b].before \in held /\ (call[b].step = "push" => After(call[b]) \in held)
        BY <1>1, <3>1 DEF Known
      <3>3. After(call'[b]) = After(call[b])
        BY <3>1
      <3> QED
        BY <3>1, <3>2, <3>3
    <2> QED
      BY <2>1, <2>2
  <1> QED
    BY <1>1 DEF Known

LEMMA AuditSame ==
  ASSUME AuditNeverLies, held \subseteq held', log' = log
  PROVE  AuditNeverLies'
  BY DEF AuditNeverLies

LEMMA KnownKept ==
  ASSUME TypeOK, Known, AuditNeverLies, [Next]_vars
  PROVE  Known' /\ AuditNeverLies'
  <1>1. ASSUME NEW a \in Admin, NEW kind \in {"patch", "delete"}, NEW patch \in Overrides,
               Start(a, kind, patch)
        PROVE  Known' /\ AuditNeverLies'
    <2>1. /\ call'[a].step = "store" /\ call'[a].before = overrides
          /\ \A b \in Admin : b # a => call'[b] = call[b]
      BY <1>1, Started
    <2>2. UNCHANGED <<overrides, log, held>> /\ overrides \in held
      BY <1>1 DEF Start, Known
    <2> QED
      BY <2>1, <2>2, KnownMoves, AuditSame
  <1>2. ASSUME NEW a \in Admin, Store(a) PROVE Known' /\ AuditNeverLies'
    <2>1. /\ call[a].step = "store" /\ Goto(a, "push") /\ overrides' = After(call[a])
          /\ held' = held \cup {overrides'} /\ log' = log
      BY <1>2 DEF Store
    <2>2. /\ call'[a].before = call[a].before /\ After(call'[a]) = After(call[a])
          /\ \A b \in Admin : b # a => call'[b] = call[b]
      BY <2>1, Moved, TypeFields DEF Steps
    <2>3. call[a].before \in held
      BY <2>1, CallStep, TypeFields DEF Known, Steps
    <2>4. /\ held \subseteq held' /\ overrides' \in held' /\ call'[a].before \in held'
          /\ After(call'[a]) \in held'
      BY <2>1, <2>2, <2>3
    <2> QED
      BY <2>1, <2>2, <2>4, KnownMoves, AuditSame
  <1>3. ASSUME NEW a \in Admin, Push(a) PROVE Known' /\ AuditNeverLies'
    <2>1. /\ call[a].step = "push" /\ Goto(a, "trim") /\ UNCHANGED <<overrides, held>>
          /\ log' \in Seq(Entry) /\ Len(log') = Len(log) + 1
          /\ log'[1] = [before |-> call[a].before, after |-> After(call[a])]
          /\ \A i \in 1..Len(log) : log'[i + 1] = log[i]
      BY <1>3, PushedType DEF Push
    <2>2. /\ call'[a].step = "trim" /\ call'[a].before = call[a].before
          /\ \A b \in Admin : b # a => call'[b] = call[b]
      BY <2>1, Moved, TypeFields DEF Steps
    <2>3. call[a].before \in held /\ After(call[a]) \in held
      BY <2>1, CallStep, TypeFields DEF Known, Steps
    <2>4. AuditNeverLies'
      <3>1. ASSUME NEW i \in 1..Len(log') PROVE log'[i].before \in held /\ log'[i].after \in held
        <4>1. CASE i = 1
          BY <2>1, <2>3, <4>1
        <4>2. CASE i # 1
          <5>1. i - 1 \in 1..Len(log) /\ (i - 1) + 1 = i
            BY <2>1, <4>2, TypeFields
          <5>2. log'[i] = log[i - 1]
            BY <2>1, <5>1
          <5> QED
            BY <5>1, <5>2 DEF AuditNeverLies
        <4> QED
          BY <4>1, <4>2
      <3> QED
        BY <2>1, <3>1 DEF AuditNeverLies
    <2>5. Known'
      BY <2>1, <2>2, <2>3, KnownMoves DEF Known
    <2> QED
      BY <2>4, <2>5
  <1>4. ASSUME NEW a \in Admin, Trim(a) PROVE Known' /\ AuditNeverLies'
    <2>1. /\ call[a].step = "trim" /\ Goto(a, "view") /\ log' = Kept /\ UNCHANGED <<overrides, held>>
      BY <1>4 DEF Trim
    <2>2. /\ call'[a].step = "view" /\ call'[a].before = call[a].before
          /\ \A b \in Admin : b # a => call'[b] = call[b]
      BY <2>1, Moved, TypeFields DEF Steps
    <2>3. call[a].before \in held
      BY <2>1, CallStep, TypeFields DEF Known, Steps
    <2>4. AuditNeverLies'
      <3>1. /\ Len(Kept) \in Nat /\ Len(Kept) <= Len(log) /\ Len(log) \in Nat
            /\ \A i \in 1..Len(Kept) : Kept[i] = log[i]
        BY KeptType, TypeFields
      <3>2. \A i \in 1..Len(Kept) : i \in 1..Len(log)
        BY <3>1
      <3>3. \A i \in 1..Len(Kept) : Kept[i].before \in held /\ Kept[i].after \in held
        BY <3>1, <3>2 DEF AuditNeverLies
      <3> QED
        BY <2>1, <3>3 DEF AuditNeverLies
    <2>5. Known'
      BY <2>1, <2>2, <2>3, KnownMoves DEF Known
    <2> QED
      BY <2>4, <2>5
  <1>5. ASSUME NEW a \in Admin, View(a) PROVE Known' /\ AuditNeverLies'
    <2>1. /\ call[a].step = "view" /\ call'[a].step = "answer" /\ call'[a].before = call[a].before
          /\ \A b \in Admin : b # a => call'[b] = call[b]
      BY <1>5, Viewed, TypeFields DEF View
    <2>2. UNCHANGED <<overrides, log, held>> /\ overrides \in held
      BY <1>5 DEF View, Known
    <2>3. call[a].before \in held
      BY <2>1, CallStep, TypeFields DEF Known, Steps
    <2> QED
      BY <2>1, <2>2, <2>3, KnownMoves, AuditSame
  <1>6. ASSUME NEW a \in Admin, NEW s, Return(a, s), UNCHANGED <<overrides, log, held>>
        PROVE  Known' /\ AuditNeverLies'
    <2>1. call'[a] = Resting /\ \A b \in Admin : b # a => call'[b] = call[b]
      BY <1>6, Returned, TypeFields
    <2>2. overrides \in held
      BY DEF Known
    <2> QED
      BY <1>6, <2>1, <2>2, KnownMoves, AuditSame
  <1>7. ASSUME UNCHANGED <<overrides, log, call, held>> PROVE Known' /\ AuditNeverLies'
    BY <1>7 DEF Known, AuditNeverLies, After, Merged
  <1>8. NoOverrides \in Overrides
    BY Empty
  <1> QED
    BY <1>1, <1>2, <1>3, <1>4, <1>5, <1>6, <1>7, <1>8
       DEF Next, Answer, AnswerInvalid, Fail, ChatReads, ChatSetsGauge, ChatRefused, Idle, vars

-----------------------------------------------------------------------------
(* Calls one after another. *)

\* A call under way when nothing has overlapped.
LEMMA InOrder ==
  ASSUME TypeOK, Orderly, orderly, NEW a \in Admin, call[a] # Resting
  PROVE  /\ \A b \in Admin : b # a => call[b] = Resting
         /\ \A c \in Chat : chat[c] = "none"
         /\ call[a].step = "store" => call[a].before = overrides
         /\ call[a].step = "push" => overrides = After(call[a])
         /\ call[a].step = "answer" => call[a].view = overrides
         /\ log # <<>> => /\ call[a].step # "push" => log[1].after = overrides
                          /\ call[a].step = "push" => log[1].after = call[a].before
         /\ TrailIsContinuous
  <1>1. Alone /\ UpToDate /\ TrailEnds /\ TrailIsContinuous
    BY DEF Orderly
  <1>2. \A b \in Admin : b # a => call[b] = Resting
    BY <1>1 DEF Alone
  <1>3. Resting.step # "push"
    BY DEF Resting
  <1>4. call[a].step # "push" => \A b \in Admin : call[b].step # "push"
    BY <1>2, <1>3
  <1> QED
    BY <1>1, <1>2, <1>4 DEF Alone, UpToDate, TrailEnds

\* What such a call must leave.
LEMMA InOrderAfter ==
  ASSUME NEW a \in Admin, \A b \in Admin : b # a => call'[b] = Resting,
         \A c \in Chat : chat'[c] = "none",
         call'[a] = Resting => gauge' = overrides'["budget"],
         call'[a].step = "store" => call'[a].before = overrides',
         call'[a].step = "push" => overrides' = After(call'[a]),
         call'[a].step = "answer" => call'[a].view = overrides',
         log' # <<>> => /\ call'[a].step # "push" => log'[1].after = overrides'
                        /\ call'[a].step = "push" => log'[1].after = call'[a].before,
         TrailIsContinuous'
  PROVE  Orderly'
  <1>1. Resting.step = "rest"
    BY DEF Resting
  <1>2. Alone'
    BY DEF Alone
  <1>3. ASSUME NEW b \in Admin
        PROVE  /\ call'[b].step = "store" => call'[b].before = overrides'
               /\ call'[b].step = "push" => overrides' = After(call'[b])
               /\ call'[b].step = "answer" => call'[b].view = overrides'
               /\ call'[b].step = "push" => b = a
    <2>1. CASE b = a
      BY <2>1
    <2>2. CASE b # a
      <3>1. call'[b].step = "rest"
        BY <1>1, <2>2
      <3> QED
        BY <3>1
    <2> QED
      BY <2>1, <2>2
  <1>4. UpToDate'
    BY <1>3 DEF UpToDate
  <1>5. TrailEnds'
    BY <1>3 DEF TrailEnds
  <1> QED
    BY <1>2, <1>4, <1>5 DEF Orderly

\* The entry of a call continues the trail.
LEMMA TrailPushed ==
  ASSUME TypeOK, Orderly, orderly, NEW a \in Admin, Push(a)
  PROVE  TrailIsContinuous'
  <1>1. /\ log' \in Seq(Entry) /\ Len(log') = Len(log) + 1 /\ Len(log) \in Nat
        /\ log'[1].before = call[a].before
        /\ \A i \in 1..Len(log) : log'[i + 1] = log[i]
        /\ call[a].step = "push"
    <2>1. /\ log' \in Seq(Entry) /\ Len(log') = Len(log) + 1 /\ call[a].step = "push"
          /\ log'[1] = [before |-> call[a].before, after |-> After(call[a])]
          /\ \A i \in 1..Len(log) : log'[i + 1] = log[i]
      BY PushedType
    <2>2. log'[1].before = call[a].before
      BY <2>1
    <2>3. Len(log) \in Nat
      BY TypeFields
    <2> QED
      BY <2>1, <2>2, <2>3
  <1>2. /\ log # <<>> => log[1].after = call[a].before
        /\ TrailIsContinuous
    <2>1. call[a] # Resting
      BY <1>1, CallStep, TypeFields DEF Steps
    <2> QED
      BY <1>1, <2>1, InOrder
  <1>3. ASSUME NEW i \in 1..(Len(log') - 1) PROVE log'[i].before = log'[i + 1].after
    <2>1. i \in 1..Len(log) /\ log'[i + 1] = log[i]
      BY <1>1
    <2>2. CASE i = 1
      <3>1. log # <<>>
        BY <2>1
      <3> QED
        BY <1>1, <1>2, <2>1, <2>2, <3>1
    <2>3. CASE i # 1
      <3>1. i - 1 \in 1..(Len(log) - 1) /\ i - 1 \in 1..Len(log) /\ (i - 1) + 1 = i
        BY <1>1, <2>1, <2>3
      <3>2. log'[i] = log[i - 1]
        BY <1>1, <3>1
      <3>3. log[i - 1].before = log[i].after
        BY <1>2, <3>1 DEF TrailIsContinuous
      <3> QED
        BY <2>1, <3>2, <3>3
    <2> QED
      BY <2>2, <2>3
  <1> QED
    BY <1>3 DEF TrailIsContinuous

LEMMA TrailTrimmed ==
  ASSUME TypeOK, TrailIsContinuous, log' = Kept
  PROVE  TrailIsContinuous'
  <1>1. /\ Len(Kept) \in Nat /\ Len(Kept) <= Len(log) /\ Len(log) \in Nat
        /\ \A i \in 1..Len(Kept) : Kept[i] = log[i]
    BY KeptType, TypeFields
  <1>2. ASSUME NEW i \in 1..(Len(Kept) - 1) PROVE Kept[i].before = Kept[i + 1].after
    <2>1. i \in 1..(Len(log) - 1) /\ i \in 1..Len(Kept) /\ i + 1 \in 1..Len(Kept)
      BY <1>1
    <2> QED
      BY <1>1, <2>1 DEF TrailIsContinuous
  <1> QED
    BY <1>2 DEF TrailIsContinuous

LEMMA OrderlyKept ==
  ASSUME TypeOK, Orderly, [Next]_vars
  PROVE  Orderly'
  <1>1. ASSUME NEW a \in Admin, NEW kind \in {"patch", "delete"}, NEW patch \in Overrides,
               Start(a, kind, patch)
        PROVE  Orderly'
    <2>1. CASE orderly /\ Quiet
      <3>1. /\ call'[a].step = "store" /\ call'[a].before = overrides /\ call'[a] # Resting
            /\ \A b \in Admin : b # a => call'[b] = call[b]
        BY <1>1, Started, CallStep DEF Resting
      <3>2. UNCHANGED <<overrides, log, chat>>
        BY <1>1 DEF Start
      <3>3. /\ \A b \in Admin : call[b] = Resting /\ call[b].step # "push"
            /\ \A c \in Chat : chat[c] = "none"
            /\ TrailEnds /\ TrailIsContinuous
        BY <2>1 DEF Quiet, Orderly, Resting
      <3>4. log # <<>> => log[1].after = overrides
        BY <3>3 DEF TrailEnds
      <3>5. TrailIsContinuous'
        BY <3>2, <3>3 DEF TrailIsContinuous
      <3> QED
        BY <3>1, <3>2, <3>3, <3>4, <3>5, InOrderAfter
    <2>2. CASE ~(orderly /\ Quiet)
      <3>1. ~orderly'
        BY <1>1, <2>2, Zenon DEF Start
      <3> QED
        BY <3>1 DEF Orderly
    <2> QED
      BY <2>1, <2>2
  <1>2. ASSUME NEW a \in Admin, Store(a), orderly PROVE Orderly'
    <2>1. /\ call[a].step = "store" /\ Goto(a, "push") /\ overrides' = After(call[a])
          /\ UNCHANGED <<log, chat>>
      BY <1>2 DEF Store
    <2>2. /\ call'[a].step = "push" /\ call'[a].before = call[a].before
          /\ After(call'[a]) = After(call[a]) /\ call'[a] # Resting
          /\ \A b \in Admin : b # a => call'[b] = call[b]
      BY <2>1, Moved, TypeFields DEF Steps, Resting
    <2>3. call[a] # Resting
      BY <2>1 DEF Resting
    <2>4. TrailIsContinuous'
      BY <1>2, <2>1, <2>3, InOrder DEF TrailIsContinuous
    <2>5. log # <<>> => log[1].after = call[a].before
      BY <1>2, <2>1, <2>3, InOrder
    <2>6. /\ \A b \in Admin : b # a => call[b] = Resting
          /\ \A c \in Chat : chat[c] = "none"
      BY <1>2, <2>3, InOrder
    <2> QED
      BY <2>1, <2>2, <2>4, <2>5, <2>6, InOrderAfter
  <1>3. ASSUME NEW a \in Admin, Push(a), orderly PROVE Orderly'
    <2>1. /\ call[a].step = "push" /\ Goto(a, "trim") /\ UNCHANGED <<overrides, chat>>
          /\ log'[1].after = After(call[a])
      BY <1>3, PushedType DEF Push
    <2>2. /\ call'[a].step = "trim" /\ call'[a] # Resting
          /\ \A b \in Admin : b # a => call'[b] = call[b]
      BY <2>1, Moved, TypeFields DEF Steps, Resting
    <2>3. call[a] # Resting
      BY <2>1 DEF Resting
    <2>4. /\ \A b \in Admin : b # a => call[b] = Resting
          /\ \A c \in Chat : chat[c] = "none" /\ overrides = After(call[a])
      BY <1>3, <2>1, <2>3, InOrder
    <2>5. overrides = After(call[a])
      BY <1>3, <2>1, <2>3, InOrder
    <2> QED
      BY <1>3, <2>1, <2>2, <2>4, <2>5, TrailPushed, InOrderAfter
  <1>4. ASSUME NEW a \in Admin, Trim(a), orderly PROVE Orderly'
    <2>1. /\ call[a].step = "trim" /\ Goto(a, "view") /\ UNCHANGED <<overrides, chat>> /\ log' = Kept
      BY <1>4 DEF Trim
    <2>2. /\ call'[a].step = "view" /\ call'[a] # Resting
          /\ \A b \in Admin : b # a => call'[b] = call[b]
      BY <2>1, Moved, TypeFields DEF Steps, Resting
    <2>3. call[a] # Resting
      BY <2>1 DEF Resting
    <2>4. /\ \A b \in Admin : b # a => call[b] = Resting
          /\ \A c \in Chat : chat[c] = "none"
          /\ log # <<>> => log[1].after = overrides
          /\ TrailIsContinuous
      BY <1>4, <2>1, <2>3, InOrder
    <2>5. log' # <<>> => log'[1].after = overrides
      <3>1. ASSUME Kept # <<>> PROVE 1 \in 1..Len(Kept) /\ log # <<>>
        BY <3>1, KeptType
      <3> QED
        BY <2>1, <2>4, <3>1, KeptType
    <2>6. TrailIsContinuous'
      BY <2>1, <2>4, TrailTrimmed
    <2> QED
      BY <2>1, <2>2, <2>4, <2>5, <2>6, InOrderAfter
  <1>5. ASSUME NEW a \in Admin, View(a), orderly PROVE Orderly'
    <2>1. /\ call[a].step = "view" /\ call'[a].step = "answer" /\ call'[a].view = overrides
          /\ call'[a] # Resting /\ \A b \in Admin : b # a => call'[b] = call[b]
      <3>1. /\ call[a].step = "view" /\ overrides \in Overrides /\ call \in CallType
            /\ call' = [call EXCEPT ![a].step = "answer", ![a].view = overrides]
        BY <1>5, TypeFields DEF View
      <3>2. /\ call'[a].step = "answer" /\ call'[a].view = overrides
            /\ \A b \in Admin : b # a => call'[b] = call[b]
        BY <3>1, Viewed
      <3>3. Resting.step = "rest"
        BY DEF Resting
      <3> QED
        BY <3>1, <3>2, <3>3
    <2>2. UNCHANGED <<overrides, log, chat>>
      BY <1>5 DEF View
    <2>3. call[a] # Resting
      BY <2>1 DEF Resting
    <2>4. /\ \A b \in Admin : b # a => call[b] = Resting
          /\ \A c \in Chat : chat[c] = "none"
          /\ log # <<>> => log[1].after = overrides
          /\ TrailIsContinuous
      BY <1>5, <2>1, <2>3, InOrder
    <2>5. TrailIsContinuous'
      BY <2>2, <2>4 DEF TrailIsContinuous
    <2> QED
      BY <2>1, <2>2, <2>4, <2>5, InOrderAfter
  <1>6. ASSUME NEW a \in Admin, Answer(a), orderly PROVE Orderly'
    <2>1. /\ call[a].step = "answer" /\ Return(a, "200") /\ gauge' = call[a].view["budget"]
          /\ UNCHANGED <<overrides, log, chat>>
      BY <1>6 DEF Answer
    <2>2. /\ call'[a].step = "rest" /\ \A b \in Admin : b # a => call'[b] = call[b]
      BY <2>1, Returned, TypeFields
    <2>3. call[a] # Resting
      BY <2>1 DEF Resting
    <2>4. /\ \A b \in Admin : b # a => call[b] = Resting
          /\ \A c \in Chat : chat[c] = "none"
          /\ log # <<>> => log[1].after = overrides
          /\ TrailIsContinuous /\ call[a].view = overrides
      BY <1>6, <2>1, <2>3, InOrder
    <2>5. TrailIsContinuous'
      BY <2>1, <2>4 DEF TrailIsContinuous
    <2> QED
      BY <2>1, <2>2, <2>4, <2>5, InOrderAfter
  <1>7. ASSUME NEW a \in Admin, AnswerInvalid(a) \/ Fail(a) PROVE Orderly'
    <2>1. ~orderly'
      BY <1>7, Zenon DEF AnswerInvalid, Fail
    <2> QED
      BY <2>1 DEF Orderly
  <1>8. ASSUME NEW c \in Chat, ChatReads(c) PROVE Orderly'
    <2>1. CASE orderly
      <3>1. /\ chat' = [chat EXCEPT ![c] = overrides["budget"]]
            /\ UNCHANGED <<overrides, log, gauge, call>>
        BY <1>8 DEF ChatReads
      <3>2. orderly' => Quiet
        BY <1>8, Zenon DEF ChatReads
      <3>3. UpToDate'
        BY <2>1, <3>1 DEF Orderly, UpToDate, TypeOK
      <3>4. Quiet => Alone'
        BY <3>1 DEF Quiet, Alone
      <3>5. TrailEnds' /\ TrailIsContinuous'
        BY <2>1, <3>1 DEF Orderly, TrailEnds, TrailIsContinuous
      <3> QED
        BY <3>2, <3>3, <3>4, <3>5 DEF Orderly
    <2>2. CASE ~orderly
      <3>1. ~orderly'
        BY <1>8, <2>2, Zenon DEF ChatReads
      <3> QED
        BY <3>1 DEF Orderly
    <2> QED
      BY <2>1, <2>2
  <1>9. ASSUME NEW c \in Chat, ChatSetsGauge(c), orderly PROVE Orderly'
    <2>1. /\ chat[c] # "none" /\ gauge' = chat[c] /\ chat' = [chat EXCEPT ![c] = "none"]
          /\ UNCHANGED <<overrides, log, call>>
      BY <1>9 DEF ChatSetsGauge
    <2>2. Alone /\ UpToDate /\ TrailEnds /\ TrailIsContinuous
      BY <1>9 DEF Orderly
    <2>3. gauge' = overrides["budget"]
      BY <2>1, <2>2 DEF UpToDate
    <2>4. Alone' /\ UpToDate'
      BY <2>1, <2>2, <2>3 DEF Alone, UpToDate, TypeOK
    <2>5. TrailEnds' /\ TrailIsContinuous'
      BY <2>1, <2>2 DEF TrailEnds, TrailIsContinuous
    <2> QED
      BY <2>4, <2>5 DEF Orderly
  <1>10. ASSUME NEW c \in Chat, ChatRefused(c), orderly PROVE Orderly'
    <2>1. /\ chat' = [chat EXCEPT ![c] = "none"]
          /\ UNCHANGED <<overrides, log, gauge, call>>
      BY <1>10 DEF ChatRefused
    <2>2. Alone /\ UpToDate /\ TrailEnds /\ TrailIsContinuous
      BY <1>10 DEF Orderly
    <2>3. Alone' /\ UpToDate'
      BY <2>1, <2>2 DEF Alone, UpToDate, TypeOK
    <2>4. TrailEnds' /\ TrailIsContinuous'
      BY <2>1, <2>2 DEF TrailEnds, TrailIsContinuous
    <2> QED
      BY <2>3, <2>4 DEF Orderly
  <1>11. CASE Idle \/ UNCHANGED vars
    <2>1. UNCHANGED <<overrides, log, gauge, call, chat, orderly>>
      BY <1>11 DEF Idle, vars
    <2> QED
      BY <2>1 DEF Orderly, Alone, UpToDate, TrailEnds, TrailIsContinuous, After, Merged
  <1>12. ASSUME ~orderly, orderly' = orderly PROVE Orderly'
    BY <1>12, Zenon DEF Orderly
  <1>13. NoOverrides \in Overrides
    BY Empty
  <1>14. /\ \A a \in Admin : Store(a) \/ Push(a) \/ Trim(a) \/ View(a) \/ Answer(a) => orderly' = orderly
         /\ \A c \in Chat : ChatSetsGauge(c) \/ ChatRefused(c) => orderly' = orderly
    BY DEF Store, Push, Trim, View, Answer, ChatSetsGauge, ChatRefused
  <1> QED
    BY <1>1, <1>2, <1>3, <1>4, <1>5, <1>6, <1>7, <1>8, <1>9, <1>10, <1>11, <1>12, <1>13, <1>14, Zenon DEF Next

-----------------------------------------------------------------------------
(* The theorems. *)

LEMMA InitInductive == Init => Inductive
  <1> SUFFICES ASSUME Init PROVE LogBounded /\ Known /\ AuditNeverLies /\ Orderly
    BY InitType DEF Inductive
  <1>1. At(call, Untrimmed) = {}
    BY DEF Init, At, Untrimmed, Resting
  <1>2. Len(log) = 0 /\ untrimmed = 0 /\ MaxEntries \in Nat
    BY AdminAssumption DEF Init
  <1>3. Len(log) <= MaxEntries + Cardinality(At(call, Untrimmed)) + untrimmed
    BY <1>1, <1>2, FS_EmptySet
  <1>4. LogBounded
    BY <1>3, Trimming DEF LogBounded
  <1>5. Known /\ AuditNeverLies
    BY DEF Init, Known, AuditNeverLies
  <1>6. Orderly
    <2>1. \A a \in Admin : call[a] = Resting
      BY DEF Init
    <2>2. Resting.step = "rest"
      BY DEF Resting
    <2>3. gauge = overrides["budget"]
      BY Empty DEF Init, NoOverrides
    <2>4. /\ log = <<>> /\ Len(log) = 0 /\ \A c \in Chat : chat[c] = "none"
      BY DEF Init
    <2> QED
      BY <2>1, <2>2, <2>3, <2>4 DEF Orderly, Alone, UpToDate, TrailEnds, TrailIsContinuous
  <1> QED
    BY <1>4, <1>5, <1>6

\* The inductive invariant: every entry and every missed trim belongs to a call, calls
\* know only what was in force, and without overlaps they know what is in force.
THEOREM InductiveHolds == Spec => []Inductive
  <1>1. Init => Inductive
    BY InitInductive
  <1>2. Inductive /\ [Next]_vars => Inductive'
    BY NextType, BoundKept, KnownKept, OrderlyKept DEF Inductive
  <1> QED
    BY <1>1, <1>2, PTL DEF Spec

\* Type correctness: calls keep their shape, and none leaves more than one entry.
THEOREM TypeCorrect == Spec => []TypeOK
  <1>1. Inductive => TypeOK
    BY DEF Inductive
  <1> QED
    BY <1>1, InductiveHolds, PTL

\* The log is longer than its cap only by the calls that have not trimmed it yet, or
\* failed before.
THEOREM LogBoundedHolds == Spec => []LogBounded
  <1>1. Inductive => LogBounded
    BY DEF Inductive
  <1> QED
    BY <1>1, InductiveHolds, PTL

\* Whatever overlaps and whatever fails, every entry of the log tells of overrides that
\* were in force.
THEOREM AuditNeverLiesHolds == Spec => []AuditNeverLies
  <1>1. Inductive => AuditNeverLies
    BY DEF Inductive
  <1> QED
    BY <1>1, InductiveHolds, PTL

\* As long as calls follow one another and succeed, the trail has no gap, ends in the
\* overrides in force, and the gauge shows their budget.
THEOREM SequentialCallsAgreeHolds == Spec => []SequentialCallsAgree
  <1>1. Inductive => SequentialCallsAgree
    <2> SUFFICES ASSUME Orderly, orderly
                 PROVE  /\ TrailIsContinuous
                        /\ Quiet => /\ gauge = overrides["budget"]
                                    /\ log # <<>> => log[1].after = overrides
      BY DEF Inductive, SequentialCallsAgree
    <2>1. UpToDate /\ TrailEnds /\ TrailIsContinuous
      BY DEF Orderly
    <2>2. ASSUME Quiet PROVE \A a \in Admin : call[a] = Resting /\ call[a].step # "push"
      BY <2>2 DEF Quiet, Resting
    <2> QED
      BY <2>1, <2>2 DEF UpToDate, TrailEnds
  <1> QED
    BY <1>1, InductiveHolds, PTL
=============================================================================
