-------------------------- MODULE StreamingProofs ---------------------------
(***************************************************************************)
(* What is proved of Streaming for every list of candidates, number of      *)
(* retries and length of a stream: that the client gets the events of one   *)
(* attempt in their order, that what it gets is billed, and that every step *)
(* is one of module Gateway.                                                *)
(***************************************************************************)
EXTENDS Streaming, FiniteSetTheorems, TLAPS

-----------------------------------------------------------------------------
(* The inductive invariant. *)

\* What each stage of the request leaves where.
Stages ==
    /\ call.chunks <= call.lines
    /\ stage \in {"new", "dispatching"} => call.chunks = 0 /\ call.source \in {"opening", "open"}
    /\ stage = "offered" => call.source \in {"open", "ended"}
    /\ call.source = "disclaimed" => Disclaimer
    /\ stage \in {"new", "dispatching", "raised", "settling", "done"} => pending = Nothing
    /\ stage \in {"new", "dispatching", "offered", "raised", "abandoned"} => relay = Nothing
    /\ slot = (IF stage = "new" THEN "new"
               ELSE IF stage \in {"settling", "done"} THEN "released" ELSE "holding")

\* What the generator has said since the last chunk of call c.
Said(c) ==
    CASE c.source = "disclaimed" -> <<"disclaimer">>
      [] c.source = "done" -> IF Disclaimer THEN <<"disclaimer", "DONE">> ELSE <<"DONE">>
      [] c.source = "failed" -> <<"error">>
      [] OTHER -> <<>>

\* The number of events it has yielded so far.
Yielded(c) == c.chunks + Len(Said(c))

\* e may be the i-th of them.
Fits(c, e, i) ==
    IF i <= c.chunks
    THEN e.kind = "chunk" /\ e.n = i /\ e.at = c.at /\ e.attempt = c.attempt
    ELSE e.kind = Said(c)[i - c.chunks]

One(e) == IF e = Nothing THEN 0 ELSE 1

\* What was yielded is with the client, in the relay or pending, in this order; once the
\* client has left, the last two do not matter.
Flow ==
    /\ Len(got) <= Yielded(call)
    /\ \A i \in 1..Len(got) : Fits(call, got[i], i)
    /\ present => /\ Len(got) + One(relay) + One(pending) = Yielded(call)
                  /\ relay # Nothing => Fits(call, relay, Len(got) + 1)
                  /\ pending # Nothing => Fits(call, pending, Yielded(call))

Content(e) == IF HasContent(e) THEN <<e>> ELSE <<>>

\* What the generator is about to hand over.
Coming == IF stage = "delivering" THEN Content(pending) ELSE <<>>

\* What is to be billed is what the client has heard, and what is on its way to it.
Billing ==
    /\ IsPrefix(heard, accumulated)
    /\ present => accumulated = (heard \o Content(relay)) \o Coming
    /\ stage \notin {"delivering", "settling", "done"} => accumulated = <<>>
    /\ stage = "done" /\ accumulated # <<>> => bill # "none"

Inductive == TypeOK /\ Stages /\ Flow /\ Billing

-----------------------------------------------------------------------------
(* Type correctness. *)

\* Every list of candidates has one.
LEMMA PlanType ==
  ASSUME plan \in Plans
  PROVE  plan \in Seq(Provider) /\ Len(plan) \in Nat \ {0}
  BY StreamingAssumption

LEMMA EventTypes ==
  /\ Nothing \in Event /\ Nothing.kind = "nothing"
  /\ \A k \in {"disclaimer", "DONE", "error"} :
        Plain(k) \in Event /\ Plain(k).kind = k /\ Plain(k) # Nothing
  /\ \A e \in ChunkEvent : e.kind = "chunk" /\ e # Nothing /\ e \in Event
  <1>1. \A k : Plain(k).kind = k
    BY DEF Plain
  <1>2. \A e \in ChunkEvent : e.kind = "chunk"
    BY DEF ChunkEvent
  <1>3. Nothing.kind = "nothing"
    BY <1>1 DEF Nothing
  <1>4. \A k \in {"nothing", "disclaimer", "DONE", "error"} : Plain(k) \in Event
    BY DEF Event
  <1> QED
    BY <1>1, <1>2, <1>3, <1>4 DEF Nothing, Event

Source == {"opening", "open", "ended", "disclaimed", "done", "failed"}

CallType == [at : 1..Len(plan), attempt : 0..MaxRetries, lines : 0..MaxLines,
             chunks : 0..MaxLines, source : Source]

Stage == {"new", "dispatching", "offered", "delivering", "settling", "done", "raised", "abandoned"}

LEMMA CallFields ==
  ASSUME TypeOK
  PROVE  /\ call \in CallType
         /\ call.at \in 1..Len(plan) /\ call.attempt \in 0..MaxRetries
         /\ call.lines \in 0..MaxLines /\ call.chunks \in 0..MaxLines /\ call.source \in Source
         /\ call = [at |-> call.at, attempt |-> call.attempt, lines |-> call.lines,
                    chunks |-> call.chunks, source |-> call.source]
         /\ MaxRetries \in Nat /\ MaxLines \in Nat
  <1>1. call \in CallType
    BY DEF TypeOK, CallType, Source
  <1> QED
    BY <1>1, StreamingAssumption DEF CallType

LEMMA AttemptType ==
  ASSUME NEW i \in 1..Len(plan), NEW n \in 0..MaxRetries
  PROVE  Attempt(i, n) \in CallType /\ Attempt(i, n).chunks = 0
         /\ Attempt(i, n).lines = 0 /\ Attempt(i, n).source = "opening"
  BY StreamingAssumption DEF Attempt, CallType, Source

\* A failed attempt is followed by another, or ends the dispatch.
LEMMA AfterFailure ==
  ASSUME TypeOK, NEW failure, AttemptFails(failure)
  PROVE  /\ UNCHANGED <<plan, wire, account>>
         /\ \/ UNCHANGED request /\ \E i \in 1..Len(plan), n \in 0..MaxRetries : call' = Attempt(i, n)
            \/ /\ call' = call /\ UNCHANGED bill /\ counted' = counted + 1 /\ reply' = "5xx"
               /\ \/ stage' = "raised" /\ slot' = slot
                  \/ stage' = "done" /\ slot' = "released"
  <1> DEFINE again == failure = "retry" /\ call.attempt < MaxRetries
             next  == failure # "escape" /\ ~again /\ call.at < Len(plan)
  <1>1. /\ call.at \in 1..Len(plan) /\ call.attempt \in 0..MaxRetries
        /\ Len(plan) \in Nat /\ MaxRetries \in Nat
    BY CallFields, PlanType DEF TypeOK
  <1>2. CASE again
    <2>1. call' = Attempt(call.at, call.attempt + 1) /\ UNCHANGED request
      BY <1>2 DEF AttemptFails
    <2>2. call.attempt + 1 \in 0..MaxRetries
      BY <1>1, <1>2
    <2> QED
      BY <1>1, <2>1, <2>2 DEF AttemptFails
  <1>3. CASE next
    <2>1. call' = Attempt(call.at + 1, 0) /\ UNCHANGED request
      BY <1>3 DEF AttemptFails
    <2>2. call.at + 1 \in 1..Len(plan) /\ 0 \in 0..MaxRetries
      BY <1>1, <1>3
    <2> QED
      BY <2>1, <2>2 DEF AttemptFails
  <1>4. CASE ~again /\ ~next
    BY <1>4 DEF AttemptFails
  <1> QED
    BY <1>2, <1>3, <1>4

\* The chunk made of a line.
LEMMA ChunkType ==
  ASSUME TypeOK, Stages, NEW line, ChunkLine(line)
  PROVE  /\ Effect(line) \in Chunks
         /\ call' \in CallType
         /\ call'.lines = call.lines + 1 /\ call'.chunks = call.chunks + 1
         /\ call'.at = call.at /\ call'.attempt = call.attempt /\ call'.source = call.source
         /\ pending' \in ChunkEvent
         /\ pending'.n = call.chunks + 1 /\ pending'.at = call.at
         /\ pending'.attempt = call.attempt /\ pending'.form = Effect(line)
  <1>1. call' = [call EXCEPT !.lines = @ + 1, !.chunks = @ + 1]
    BY DEF ChunkLine
  <1>2. /\ call.lines \in 0..MaxLines /\ call.lines < MaxLines /\ call.chunks <= call.lines
        /\ call.chunks \in 0..MaxLines /\ MaxLines \in Nat
    BY CallFields DEF ChunkLine, Stages
  <1>3. call' = [at |-> call.at, attempt |-> call.attempt, lines |-> call.lines + 1,
                 chunks |-> call.chunks + 1, source |-> call.source]
    BY <1>1, CallFields DEF CallType
  <1>4. call.lines + 1 \in 0..MaxLines /\ call.chunks + 1 \in 0..MaxLines
    BY <1>2
  <1>5. call' \in CallType
    BY <1>3, <1>4, CallFields DEF CallType
  <1>6. pending' = [kind |-> "chunk", at |-> call.at, attempt |-> call.attempt,
                    n |-> call.chunks + 1, form |-> Effect(line)] /\ Effect(line) \in Chunks
    BY <1>3 DEF ChunkLine
  <1>7. call.at \in Nat /\ call.attempt \in Nat /\ call.chunks + 1 \in Nat
    BY <1>4, CallFields, PlanType DEF TypeOK
  <1> QED
    BY <1>3, <1>5, <1>6, <1>7 DEF ChunkEvent

\* What the generator adds to the bill for an event.
LEMMA AccountedType ==
  ASSUME TypeOK, NEW e \in Event, Account(e)
  PROVE  accumulated' \in Seq(Event) /\ finish' \in BOOLEAN /\ cancelled' \in BOOLEAN
  BY DEF Account, TypeOK

LEMMA InitType == Init => TypeOK /\ Stages
  <1> SUFFICES ASSUME Init PROVE TypeOK /\ Stages
    OBVIOUS
  <1>1. plan \in Plans /\ 1 \in 1..Len(plan) /\ 0 \in 0..MaxRetries
    BY PlanType, StreamingAssumption DEF Init
  <1>2. call \in CallType /\ call.chunks = 0 /\ call.lines = 0 /\ call.source = "opening"
    BY <1>1, AttemptType DEF Init
  <1>3. TypeOK
    <2>1. pending \in Event /\ relay \in Event
      BY EventTypes DEF Init
    <2>2. got \in Seq(Event) /\ heard \in Seq(Event) /\ accumulated \in Seq(Event)
      BY DEF Init
    <2> QED
      BY <1>1, <1>2, <2>1, <2>2 DEF Init, TypeOK, CallType, Source
  <1>4. Stages
    BY <1>2 DEF Init, Stages
  <1> QED
    BY <1>3, <1>4

\* The shapes of what a step leaves, from the shapes of what it changes.
LEMMA TypeFrom ==
  ASSUME TypeOK, plan' = plan, call' \in CallType, stage' \in Stage,
         slot' \in {"new", "holding", "released"},
         pending' \in Event, relay' \in Event, got' \in Seq(Event), heard' \in Seq(Event),
         accumulated' \in Seq(Event), finish' \in BOOLEAN, present' \in BOOLEAN,
         cancelled' \in BOOLEAN, reply' \in {"none", "5xx", "streamed", "error", "cut"},
         counted' \in Nat, bill' \in {"none", "recorded", "failed"}
  PROVE  TypeOK'
  BY DEF TypeOK, CallType, Source, Stage

LEMMA FailedType ==
  ASSUME TypeOK, NEW failure, AttemptFails(failure)
  PROVE  TypeOK'
  <1>1. UNCHANGED <<plan, wire, account>> /\ bill' = bill
    BY AfterFailure DEF request
  <1>2. /\ call' \in CallType /\ stage' \in Stage /\ slot' \in {"new", "holding", "released"}
        /\ counted' \in Nat /\ reply' \in {"none", "5xx", "streamed", "error", "cut"}
    <2>1. CASE UNCHANGED request /\ \E i \in 1..Len(plan), n \in 0..MaxRetries : call' = Attempt(i, n)
      BY <2>1, AttemptType DEF request, TypeOK, Stage
    <2>2. CASE /\ call' = call /\ counted' = counted + 1 /\ reply' = "5xx"
               /\ \/ stage' = "raised" /\ slot' = slot
                  \/ stage' = "done" /\ slot' = "released"
      BY <2>2, CallFields DEF TypeOK, Stage
    <2> QED
      BY <2>1, <2>2, AfterFailure
  <1> QED
    BY <1>1, <1>2, TypeFrom DEF TypeOK, wire, account

\* The steps of the generator's finally.
LEMMA EndStreamType ==
  ASSUME TypeOK, NEW how \in {"streamed", "error", "cut"}, EndStream(how)
  PROVE  /\ stage' \in {"settling", "done"} /\ slot' = "released"
         /\ reply' = how /\ counted' \in Nat /\ bill' = bill
  BY DEF EndStream, TypeOK

\* Closing the generator ends the stream it is reading, if it does anything to it.
LEMMA ClosedCall ==
  ASSUME TypeOK, Close
  PROVE  \/ call' = call
         \/ call.source = "open" /\ call' = [call EXCEPT !.source = "ended"]
  <1>1. \/ call' = [call EXCEPT !.source = IF @ = "open" THEN "ended" ELSE @]
        \/ call' = call
    BY DEF Close
  <1>2. call = [call EXCEPT !.source = call.source]
    BY CallFields DEF CallType
  <1> QED
    BY <1>1, <1>2

LEMMA NextType ==
  ASSUME TypeOK, Stages, [Next]_vars
  PROVE  TypeOK'
  <1> USE DEF wire, account, request
  <1>1. CASE Enter
    BY <1>1, CallFields DEF Enter, TypeOK
  <1>2. ASSUME NEW answer \in Answers, Open(answer) PROVE TypeOK'
    <2>1. CASE answer = "ok"
      <3>1. call' = [call EXCEPT !.source = "open"] /\ UNCHANGED <<plan, wire, account, request>>
        BY <1>2, <2>1 DEF Open
      <3>2. call' \in CallType
        BY <3>1, CallFields DEF CallType, Source
      <3> QED
        BY <3>1, <3>2 DEF TypeOK, CallType, Source
    <2>2. CASE answer # "ok"
      BY <1>2, <2>2, FailedType DEF Open
    <2> QED
      BY <2>1, <2>2
  <1>3. ASSUME NEW line, SkipLine(line) PROVE TypeOK'
    <2>1. /\ call' = [call EXCEPT !.lines = @ + 1] /\ call.lines < MaxLines
          /\ UNCHANGED <<plan, wire, account, request>>
      BY <1>3 DEF SkipLine
    <2>2. call' \in CallType
      BY <2>1, CallFields DEF CallType
    <2> QED
      BY <2>1, <2>2 DEF TypeOK, CallType, Source
  <1>4. ASSUME NEW line, ChunkLine(line) PROVE TypeOK'
    <2>1. call' \in CallType /\ pending' \in Event
      BY <1>4, ChunkType, EventTypes
    <2>2. UNCHANGED <<plan, relay, got, heard, present, slot, reply, counted, bill>>
      BY <1>4 DEF ChunkLine
    <2>3. CASE stage = "dispatching"
      <3>1. stage' = "offered" /\ UNCHANGED account
        BY <1>4, <2>3 DEF ChunkLine
      <3> QED
        BY <2>1, <2>2, <3>1 DEF TypeOK, CallType, Source
    <2>4. CASE stage # "dispatching"
      <3>1. Account(pending') /\ UNCHANGED stage
        BY <1>4, <2>4 DEF ChunkLine
      <3>2. accumulated' \in Seq(Event) /\ finish' \in BOOLEAN /\ cancelled' \in BOOLEAN
        BY <2>1, <3>1 DEF Account, TypeOK
      <3> QED
        BY <2>1, <2>2, <3>1, <3>2 DEF TypeOK, CallType, Source
    <2> QED
      BY <2>3, <2>4
  <1>5. ASSUME NEW line, RaiseLine(line) PROVE TypeOK'
    <2>1. CASE stage = "dispatching"
      BY <1>5, <2>1, FailedType DEF RaiseLine
    <2>2. CASE stage # "dispatching"
      <3>1. /\ EndStream("cut") /\ call' = [call EXCEPT !.source = "ended"]
            /\ UNCHANGED <<plan, wire, account>>
        BY <1>5, <2>2 DEF RaiseLine
      <3>2. call' \in CallType
        BY <3>1, CallFields DEF CallType, Source
      <3> QED
        BY <3>1, <3>2, EndStreamType DEF TypeOK, CallType, Source
    <2> QED
      BY <2>1, <2>2
  <1>6. CASE SourceEnds
    <2>1. /\ call' = [call EXCEPT !.source = "ended"]
          /\ UNCHANGED <<plan, wire, account, slot, reply, counted, bill>>
          /\ stage' \in {stage, "offered"}
      BY <1>6 DEF SourceEnds
    <2>2. call' \in CallType
      BY <2>1, CallFields DEF CallType, Source
    <2> QED
      BY <2>1, <2>2 DEF TypeOK, CallType, Source
  <1>7. CASE SourceBreaks
    <2>1. CASE stage = "dispatching"
      BY <1>7, <2>1, FailedType DEF SourceBreaks
    <2>2. CASE stage # "dispatching"
      <3>1. /\ call' = [call EXCEPT !.source = "failed"] /\ pending' = Plain("error")
            /\ UNCHANGED <<plan, relay, got, heard, present, account, request>>
        BY <1>7, <2>2 DEF SourceBreaks
      <3>2. call' \in CallType /\ pending' \in Event
        BY <3>1, CallFields, EventTypes DEF CallType, Source
      <3> QED
        BY <3>1, <3>2 DEF TypeOK, CallType, Source
    <2> QED
      BY <2>1, <2>2
  <1>8. CASE StartStream
    <2>1. /\ stage' = "delivering" /\ Account(pending)
          /\ UNCHANGED <<plan, call, wire, slot, reply, counted, bill>>
      BY <1>8 DEF StartStream
    <2>2. accumulated' \in Seq(Event) /\ finish' \in BOOLEAN /\ cancelled' \in BOOLEAN
      BY <2>1, AccountedType DEF TypeOK
    <2> QED
      BY <2>1, <2>2 DEF TypeOK
  <1>9. CASE Conclude
    <2>1. /\ Account(pending') /\ UNCHANGED <<plan, relay, got, heard, present, request>>
          /\ pending' \in {Plain("disclaimer"), Plain("DONE")}
          /\ \E s \in {"done", "disclaimed"} : call' = [call EXCEPT !.source = s]
      BY <1>9 DEF Conclude
    <2>2. call' \in CallType /\ pending' \in Event
      BY <2>1, CallFields, EventTypes DEF CallType, Source
    <2>3. accumulated' \in Seq(Event) /\ finish' \in BOOLEAN /\ cancelled' \in BOOLEAN
      BY <2>1, <2>2 DEF Account, TypeOK
    <2> QED
      BY <2>1, <2>2, <2>3 DEF TypeOK, CallType, Source
  <1>10. CASE FinishStream
    <2>1. PICK how \in {"streamed", "error", "cut"} : EndStream(how)
      BY <1>10 DEF FinishStream
    <2> QED
      BY <1>10, <2>1, EndStreamType DEF FinishStream, TypeOK
  <1>11. CASE Settle
    BY <1>11 DEF Settle, TypeOK
  <1>12. CASE HandOver
    BY <1>12, EventTypes DEF HandOver, TypeOK
  <1>13. CASE Relay
    <2>1. got' \in Seq(Event) /\ heard' \in Seq(Event) /\ relay' \in Event
      BY <1>13, EventTypes DEF Relay, TypeOK
    <2> QED
      BY <1>13, <2>1 DEF Relay, TypeOK
  <1>14. CASE Leave
    <2>1. /\ UNCHANGED <<plan, call, pending, relay, got, heard, accumulated, finish, cancelled,
                        stage, slot, reply, counted, bill>>
          /\ present' = FALSE
      BY <1>14 DEF Leave
    <2>2. present' \in BOOLEAN
      BY <2>1, Zenon
    <2> QED
      BY <2>1, <2>2 DEF TypeOK
  <1>15. CASE Abandon
    BY <1>15 DEF Abandon, TypeOK
  <1>16. CASE Close
    <2>1. /\ EndStream("cut") /\ cancelled' \in BOOLEAN /\ pending' = Nothing
          /\ UNCHANGED <<plan, relay, got, heard, present, accumulated, finish>>
      BY <1>16 DEF Close
    <2>2. call' \in CallType
      BY <1>16, ClosedCall, CallFields DEF CallType, Source
    <2> QED
      BY <2>1, <2>2, EndStreamType, EventTypes DEF TypeOK, CallType, Source
  <1>17. CASE CloseSource
    <2>1. call' \in CallType
      BY <1>17, CallFields DEF CloseSource, CallType, Source
    <2> QED
      BY <1>17, <2>1 DEF CloseSource, TypeOK, CallType, Source
  <1>18. CASE Finished \/ UNCHANGED vars
    <2>1. UNCHANGED <<plan, call, pending, relay, got, heard, present, accumulated, finish, cancelled,
                     stage, slot, reply, counted, bill>>
      BY <1>18 DEF Finished, vars
    <2> QED
      BY <2>1 DEF TypeOK
  <1> QED
    BY <1>1, <1>2, <1>3, <1>4, <1>5, <1>6, <1>7, <1>8, <1>9, <1>10, <1>11, <1>12, <1>13, <1>14,
       <1>15, <1>16, <1>17, <1>18 DEF Next

-----------------------------------------------------------------------------
(* The stages. *)

LEMMA FailedStages ==
  ASSUME TypeOK, Stages, stage = "dispatching", NEW failure, AttemptFails(failure)
  PROVE  Stages'
  <1>1. UNCHANGED <<pending, relay>>
    BY AfterFailure DEF wire
  <1>2. pending = Nothing /\ relay = Nothing /\ slot = "holding"
    BY DEF Stages
  <1>3. CASE UNCHANGED request /\ \E i \in 1..Len(plan), n \in 0..MaxRetries : call' = Attempt(i, n)
    <2>1. stage' = "dispatching" /\ slot' = slot
      BY <1>3 DEF request
    <2>2. call'.chunks = 0 /\ call'.lines = 0 /\ call'.source = "opening"
      BY <1>3, AttemptType
    <2> QED
      BY <1>1, <1>2, <2>1, <2>2 DEF Stages
  <1>4. CASE /\ call' = call
             /\ \/ stage' = "raised" /\ slot' = slot
                \/ stage' = "done" /\ slot' = "released"
    BY <1>1, <1>2, <1>4 DEF Stages
  <1> QED
    BY <1>3, <1>4, AfterFailure

\* Another thing said by the generator, or a line read, changes nothing else of the call.
LEMMA SourceOnly ==
  ASSUME TypeOK, NEW s, call' = [call EXCEPT !.source = s]
  PROVE  /\ call'.source = s /\ call'.chunks = call.chunks /\ call'.lines = call.lines
         /\ call'.at = call.at /\ call'.attempt = call.attempt
  BY CallFields DEF CallType

LEMMA StagesKept ==
  ASSUME TypeOK, Stages, [Next]_vars
  PROVE  Stages'
  <1> USE DEF wire, request
  <1>1. CASE Enter
    BY <1>1 DEF Enter, Stages
  <1>2. ASSUME NEW answer \in Answers, Open(answer) PROVE Stages'
    <2>1. CASE answer = "ok"
      <3>1. /\ call' = [call EXCEPT !.source = "open"] /\ stage = "dispatching"
            /\ UNCHANGED <<pending, relay, stage, slot>>
        BY <1>2, <2>1 DEF Open
      <3>2. /\ call'.source = "open" /\ call'.chunks = call.chunks /\ call'.lines = call.lines
        BY <3>1, SourceOnly
      <3> QED
        BY <3>1, <3>2 DEF Stages
    <2>2. CASE answer # "ok"
      BY <1>2, <2>2, FailedStages DEF Open
    <2> QED
      BY <2>1, <2>2
  <1>3. ASSUME NEW line, SkipLine(line) PROVE Stages'
    <2>1. /\ call' = [call EXCEPT !.lines = @ + 1] /\ UNCHANGED <<pending, relay, stage, slot>>
      BY <1>3 DEF SkipLine
    <2>2. /\ call'.lines = call.lines + 1 /\ call'.chunks = call.chunks
          /\ call'.source = call.source /\ call.chunks <= call.lines + 1
      BY <2>1, CallFields DEF CallType, Stages
    <2> QED
      BY <2>1, <2>2 DEF Stages
  <1>4. ASSUME NEW line, ChunkLine(line) PROVE Stages'
    <2>1. /\ call'.lines = call.lines + 1 /\ call'.chunks = call.chunks + 1
          /\ call'.source = call.source /\ call.source = "open"
          /\ call.chunks \in Int /\ call.lines \in Int
      BY <1>4, ChunkType, CallFields DEF ChunkLine, Reading
    <2>2. \/ stage = "dispatching" /\ stage' = "offered"
          \/ stage = "delivering" /\ stage' = stage
      BY <1>4 DEF ChunkLine, Reading
    <2>3. UNCHANGED <<relay, slot>>
      BY <1>4 DEF ChunkLine
    <2> QED
      BY <2>1, <2>2, <2>3 DEF Stages
  <1>5. ASSUME NEW line, RaiseLine(line) PROVE Stages'
    <2>1. CASE stage = "dispatching"
      BY <1>5, <2>1, FailedStages DEF RaiseLine
    <2>2. CASE stage # "dispatching"
      <3>1. /\ EndStream("cut") /\ call' = [call EXCEPT !.source = "ended"]
            /\ UNCHANGED <<pending, relay>> /\ pending = Nothing
        BY <1>5, <2>2 DEF RaiseLine, Reading
      <3>2. call'.source = "ended" /\ call'.chunks = call.chunks /\ call'.lines = call.lines
        BY <3>1, SourceOnly
      <3> QED
        BY <3>1, <3>2, EndStreamType DEF Stages
    <2> QED
      BY <2>1, <2>2
  <1>6. CASE SourceEnds
    <2>1. /\ call' = [call EXCEPT !.source = "ended"] /\ UNCHANGED <<pending, relay, slot>>
          /\ \/ stage = "dispatching" /\ stage' = "offered"
             \/ stage = "delivering" /\ stage' = stage
      BY <1>6 DEF SourceEnds, Reading
    <2>2. /\ call'.source = "ended" /\ call'.chunks = call.chunks /\ call'.lines = call.lines
      BY <2>1, SourceOnly
    <2> QED
      BY <2>1, <2>2 DEF Stages
  <1>7. CASE SourceBreaks
    <2>1. CASE stage = "dispatching"
      BY <1>7, <2>1, FailedStages DEF SourceBreaks
    <2>2. CASE stage # "dispatching"
      <3>1. /\ call' = [call EXCEPT !.source = "failed"] /\ stage = "delivering"
            /\ UNCHANGED <<relay, stage, slot>>
        BY <1>7, <2>2 DEF SourceBreaks, Reading
      <3>2. /\ call'.source = "failed" /\ call'.chunks = call.chunks /\ call'.lines = call.lines
        BY <3>1, SourceOnly
      <3> QED
        BY <3>1, <3>2 DEF Stages
    <2> QED
      BY <2>1, <2>2
  <1>8. CASE StartStream
    BY <1>8 DEF StartStream, Stages
  <1>9. CASE Conclude
    <2>1. /\ stage = "delivering" /\ UNCHANGED <<relay, stage, slot>>
          /\ \E s \in {"done", "disclaimed"} :
                call' = [call EXCEPT !.source = s] /\ (s = "disclaimed" => Disclaimer)
      BY <1>9, EventTypes DEF Conclude
    <2>2. PICK s \in {"done", "disclaimed"} :
              call' = [call EXCEPT !.source = s] /\ (s = "disclaimed" => Disclaimer)
      BY <2>1
    <2>3. /\ call'.source = s /\ call'.chunks = call.chunks /\ call'.lines = call.lines
      BY <2>2, SourceOnly
    <2> QED
      BY <2>1, <2>2, <2>3 DEF Stages
  <1>10. CASE FinishStream
    <2>1. PICK how \in {"streamed", "error", "cut"} : EndStream(how)
      BY <1>10 DEF FinishStream
    <2> QED
      BY <1>10, <2>1, EndStreamType DEF FinishStream, Stages
  <1>11. CASE Settle
    BY <1>11 DEF Settle, Stages
  <1>12. CASE HandOver
    BY <1>12 DEF HandOver, Stages
  <1>13. CASE Relay
    BY <1>13 DEF Relay, Stages
  <1>14. CASE Leave
    <2>1. UNCHANGED <<call, pending, relay, stage, slot>>
      BY <1>14 DEF Leave
    <2> QED
      BY <2>1 DEF Stages
  <1>15. CASE Abandon
    BY <1>15 DEF Abandon, Stages
  <1>16. CASE Close
    <2>1. EndStream("cut") /\ pending' = Nothing /\ UNCHANGED relay
      BY <1>16 DEF Close
    <2>2. /\ call'.chunks = call.chunks /\ call'.lines = call.lines
          /\ call'.source \in {call.source, "ended"}
      BY <1>16, ClosedCall, SourceOnly
    <2> QED
      BY <2>1, <2>2, EndStreamType DEF Stages
  <1>17. CASE CloseSource
    <2>1. /\ call' = [call EXCEPT !.source = "ended"] /\ stage = "done"
          /\ UNCHANGED <<pending, relay, stage, slot>>
      BY <1>17 DEF CloseSource
    <2>2. /\ call'.source = "ended" /\ call'.chunks = call.chunks /\ call'.lines = call.lines
      BY <2>1, SourceOnly
    <2> QED
      BY <2>1, <2>2 DEF Stages
  <1>18. CASE Finished \/ UNCHANGED vars
    <2>1. UNCHANGED <<call, pending, relay, stage, slot>>
      BY <1>18 DEF Finished, vars
    <2> QED
      BY <2>1 DEF Stages
  <1> QED
    BY <1>1, <1>2, <1>3, <1>4, <1>5, <1>6, <1>7, <1>8, <1>9, <1>10, <1>11, <1>12, <1>13, <1>14,
       <1>15, <1>16, <1>17, <1>18 DEF Next

LEMMA StagesHold == Spec => [](TypeOK /\ Stages)
  <1>1. Init => TypeOK /\ Stages
    BY InitType
  <1>2. TypeOK /\ Stages /\ [Next]_vars => (TypeOK /\ Stages)'
    BY NextType, StagesKept
  <1> QED
    BY <1>1, <1>2, PTL DEF Spec

\* Type correctness: what the generator, the middleware and the client hold are events of
\* the stream, and attempts stay within their budget.
THEOREM TypeCorrect == Spec => []TypeOK
  BY StagesHold, PTL

-----------------------------------------------------------------------------
(* The refinement: Streaming implements Gateway for one request. *)

LEMMA NoneCounted == GW!Cardinality({}) = 0
  <1>1. GW!Cardinality({}) = Cardinality({})
    BY Zenon DEF GW!Cardinality, Cardinality
  <1> QED
    BY <1>1, FS_EmptySet

\* Nobody waits, so giving the slot back wakes nobody.
LEMMA ReleaseStep ==
  ASSUME slot = "holding", slot' = "released"
  PROVE  GW!Release("one")
  <1>1. GW!Live = {}
    BY DEF GW!Live
  <1>2. GW!IsNextInLine({}, 1)
    BY <1>1, NoneCounted DEF GW!IsNextInLine
  <1> QED
    BY <1>1, <1>2, NoneCounted DEF GW!Release

\* What the gateway's request is at changes as it does here.
LEMMA GotoStep ==
  ASSUME NEW s, stage' = s
  PROVE  GW!Goto("one", s)
  BY DEF GW!Goto

LEMMA ReplyStep ==
  /\ \A a : reply' = a =>
        [r \in {"one"} |-> reply]' = [[r \in {"one"} |-> reply] EXCEPT !["one"] = a]
  /\ \A b : bill' = b =>
        [r \in {"one"} |-> bill]' = [[r \in {"one"} |-> bill] EXCEPT !["one"] = b]
  /\ counted' = counted + 1 =>
        [r \in {"one"} |-> counted]' = [[r \in {"one"} |-> counted] EXCEPT !["one"] = @ + 1]
  OBVIOUS

LEMMA PoolKept == slot' = slot => UNCHANGED GW!pool
  BY DEF GW!pool, GW!vars

\* The requests whose stream lingers, as the gateway has them.
Lingerers == IF Lingering THEN {"one"} ELSE {}

\* A stream lingers once its slot is released, if it was cut off and is still open.
LEMMA LingerersKept ==
  ASSUME \/ slot # "released" /\ (slot' # "released" \/ reply' # "cut" \/ call'.source # "open")
         \/ UNCHANGED <<slot, reply>> /\ call'.source = call.source
  PROVE  UNCHANGED Lingerers
  BY DEF Lingerers, Lingering

\* What is not at the gateway leaves it alone.
LEMMA GatewayKept ==
  ASSUME Stages, UNCHANGED <<stage, slot, reply, counted, bill>>,
         slot # "released" \/ call'.source = call.source
  PROVE  UNCHANGED GW!gatewayVars
  <1>1. UNCHANGED Lingerers
    BY LingerersKept
  <1> QED
    BY <1>1 DEF GW!gatewayVars, GW!pool, GW!vars, Lingerers

LEMMA FailedRefines ==
  ASSUME TypeOK, Stages, stage = "dispatching", NEW failure, AttemptFails(failure)
  PROVE  GW!GatewayNext \/ UNCHANGED GW!gatewayVars
  <1> slot = "holding"
    BY DEF Stages
  <1>1. CASE UNCHANGED request
    BY <1>1, GatewayKept DEF request
  <1>2. CASE /\ UNCHANGED bill /\ counted' = counted + 1 /\ reply' = "5xx"
             /\ stage' = "raised" /\ slot' = slot
    <2>1. GW!DispatchRaises("one")
      BY <1>2, GotoStep, ReplyStep, PoolKept, LingerersKept DEF GW!DispatchRaises, Lingerers
    <2> QED
      BY <2>1 DEF GW!GatewayNext, GW!Serve
  <1>3. CASE /\ UNCHANGED bill /\ counted' = counted + 1 /\ reply' = "5xx"
             /\ stage' = "done" /\ slot' = "released"
    <2>1. GW!Release("one")
      BY <1>3, ReleaseStep DEF Stages
    <2>2. GW!DispatchFails("one")
      BY <1>3, <2>1, GotoStep, ReplyStep, LingerersKept DEF GW!DispatchFails, GW!Answer, Lingerers
    <2> QED
      BY <2>2 DEF GW!GatewayNext, GW!Serve
  <1> QED
    BY <1>1, <1>2, <1>3, AfterFailure

\* The generator's finally is the gateway's.
LEMMA EndRefines ==
  ASSUME TypeOK, Stages, stage = "delivering",
         NEW how \in {"streamed", "error", "cut"}, EndStream(how)
  PROVE  GW!GatewayNext
  <1>1. /\ stage' \in {"settling", "done"} /\ slot' = "released" /\ slot = "holding"
        /\ reply' = how /\ counted' = counted + 1 /\ bill' = bill
    BY DEF EndStream, Stages
  <1>2. GW!Release("one")
    BY <1>1, ReleaseStep
  <1>3. CASE how = "cut" /\ call'.source = "open"
    <2>1. ~Lingering /\ Lingering'
      BY <1>1, <1>3 DEF Lingering
    <2>2. Lingerers' = Lingerers \cup {"one"}
      BY <2>1 DEF Lingerers
    <2>3. GW!EndStream("one")
      BY <1>1, <1>2, <1>3, <2>2, GotoStep, ReplyStep DEF GW!EndStream, Lingerers
    <2> QED
      BY <2>3 DEF GW!GatewayNext, GW!Serve
  <1>4. CASE how # "cut" \/ call'.source # "open"
    <2>1. UNCHANGED Lingerers
      BY <1>1, <1>4, LingerersKept
    <2>2. GW!EndStream("one")
      BY <1>1, <1>2, <2>1, GotoStep, ReplyStep DEF GW!EndStream, Lingerers
    <2> QED
      BY <2>2 DEF GW!GatewayNext, GW!Serve
  <1> QED
    BY <1>3, <1>4

LEMMA OfferRefines ==
  ASSUME Stages, stage = "dispatching", stage' = "offered",
         UNCHANGED <<slot, reply, counted, bill>>
  PROVE  GW!GatewayNext
  <1>1. UNCHANGED Lingerers
    BY LingerersKept DEF Stages
  <1>2. GW!StreamWins("one")
    BY <1>1, GotoStep, PoolKept DEF GW!StreamWins, Lingerers
  <1> QED
    BY <1>2 DEF GW!GatewayNext, GW!Serve

LEMMA StepRefines ==
  ASSUME TypeOK, Stages, [Next]_vars
  PROVE  GW!GatewayNext \/ UNCHANGED GW!gatewayVars
  <1>1. stage \in {"dispatching", "offered", "delivering"} => slot = "holding"
    BY DEF Stages
  <1>2. CASE Enter
    <2>1. stage = "new" /\ slot = "new" /\ stage' = "dispatching" /\ slot' = "holding"
          /\ UNCHANGED <<reply, counted, bill>>
      BY <1>2 DEF Enter, Stages
    <2>2. GW!AcquireFree("one")
      BY <2>1 DEF GW!AcquireFree
    <2>3. GW!Enter("one")
      BY <2>1, <2>2, GotoStep, LingerersKept DEF GW!Enter, Lingerers
    <2> QED
      BY <2>3 DEF GW!GatewayNext
  <1>3. ASSUME NEW answer \in Answers, Open(answer) PROVE GW!GatewayNext \/ UNCHANGED GW!gatewayVars
    BY <1>1, <1>3, FailedRefines, GatewayKept DEF Open, request
  <1>4. ASSUME NEW line, SkipLine(line) PROVE UNCHANGED GW!gatewayVars
    BY <1>1, <1>4, GatewayKept DEF SkipLine, Reading, request
  <1>5. ASSUME NEW line, ChunkLine(line) PROVE GW!GatewayNext \/ UNCHANGED GW!gatewayVars
    <2>1. \/ stage = "dispatching" /\ stage' = "offered"
          \/ stage = "delivering" /\ stage' = stage
      BY <1>5 DEF ChunkLine, Reading
    <2>2. UNCHANGED <<slot, reply, counted, bill>>
      BY <1>5 DEF ChunkLine
    <2> QED
      BY <1>1, <2>1, <2>2, OfferRefines, GatewayKept
  <1>6. ASSUME NEW line, RaiseLine(line) PROVE GW!GatewayNext \/ UNCHANGED GW!gatewayVars
    <2>1. CASE stage = "dispatching"
      BY <1>6, <2>1, FailedRefines DEF RaiseLine
    <2>2. CASE stage # "dispatching"
      BY <1>6, <2>2, EndRefines DEF RaiseLine, Reading
    <2> QED
      BY <2>1, <2>2
  <1>7. CASE SourceEnds
    BY <1>1, <1>7, OfferRefines, GatewayKept DEF SourceEnds, Reading
  <1>8. CASE SourceBreaks
    <2>1. CASE stage = "dispatching"
      BY <1>8, <2>1, FailedRefines DEF SourceBreaks
    <2>2. CASE stage # "dispatching"
      BY <1>1, <1>8, <2>2, GatewayKept DEF SourceBreaks, Reading, request
    <2> QED
      BY <2>1, <2>2
  <1>9. CASE StartStream
    <2>1. /\ stage = "offered" /\ stage' = "delivering"
          /\ UNCHANGED <<slot, reply, counted, bill>>
      BY <1>9 DEF StartStream
    <2>2. GW!StartStream("one")
      BY <1>1, <2>1, GotoStep, PoolKept, LingerersKept DEF GW!StartStream, Lingerers
    <2> QED
      BY <2>2 DEF GW!GatewayNext, GW!Serve
  <1>10. CASE Conclude
    BY <1>1, <1>10, GatewayKept DEF Conclude, request
  <1>11. CASE FinishStream
    BY <1>11, EndRefines DEF FinishStream
  <1>12. CASE Settle
    <2>1. /\ stage = "settling" /\ stage' = "done" /\ bill' \in {"recorded", "failed"}
          /\ UNCHANGED <<slot, reply, counted, call>>
      BY <1>12 DEF Settle
    <2>2. GW!Settle("one")
      BY <2>1, GotoStep, ReplyStep, PoolKept, LingerersKept DEF GW!Settle, Lingerers
    <2> QED
      BY <2>2 DEF GW!GatewayNext, GW!Serve
  <1>13. CASE HandOver \/ Relay
    BY <1>13, GatewayKept DEF HandOver, Relay, request
  <1>14. CASE Leave
    <2>1. UNCHANGED <<stage, slot, reply, counted, bill, call>>
      BY <1>14 DEF Leave, request
    <2> QED
      BY <2>1, GatewayKept
  <1>15. CASE Abandon
    <2>1. /\ stage = "offered" /\ stage' = "abandoned" /\ reply' = "cut"
          /\ UNCHANGED <<slot, counted, bill>>
      BY <1>15 DEF Abandon
    <2>2. GW!Abandon("one")
      BY <1>1, <2>1, GotoStep, ReplyStep, PoolKept, LingerersKept DEF GW!Abandon, Lingerers
    <2> QED
      BY <2>2 DEF GW!GatewayNext
  <1>16. CASE Close
    BY <1>16, EndRefines DEF Close
  <1>17. CASE CloseSource
    <2>1. /\ Lingering /\ ~Lingering' /\ stage = "done"
          /\ UNCHANGED <<stage, slot, reply, counted, bill>>
      BY <1>17, SourceOnly DEF CloseSource, Lingering, Stages, request
    <2>2. "one" \in Lingerers /\ Lingerers' = Lingerers \ {"one"}
      BY <2>1 DEF Lingerers
    <2>3. GW!CloseSource("one")
      BY <2>1, <2>2, PoolKept DEF GW!CloseSource, Lingerers
    <2> QED
      BY <2>3 DEF GW!GatewayNext
  <1>18. CASE Finished \/ UNCHANGED vars
    <2>1. UNCHANGED <<stage, slot, reply, counted, bill, call>>
      BY <1>18 DEF Finished, vars, request
    <2> QED
      BY <2>1, GatewayKept
  <1> QED
    BY <1>2, <1>3, <1>4, <1>5, <1>6, <1>7, <1>8, <1>9, <1>10, <1>11, <1>12, <1>13, <1>14,
       <1>15, <1>16, <1>17, <1>18 DEF Next

\* Whatever the provider, the middleware and the client do, a stream takes its slot,
\* gives it back, is counted and is billed as one of the requests of module Gateway.
THEOREM Refinement == Spec => ImplementsGateway
  <1>1. Init => GW!GatewayInit
    BY DEF Init, GW!GatewayInit, GW!Init, Lingering
  <1>2. TypeOK /\ Stages /\ [Next]_vars => [GW!GatewayNext]_GW!gatewayVars
    BY StepRefines
  <1> QED
    BY <1>1, <1>2, StagesHold, PTL DEF Spec, ImplementsGateway, GW!GatewaySpec

-----------------------------------------------------------------------------
(* The order of events. *)

LEMMA SaidType ==
  ASSUME NEW c, c.chunks \in Nat, c.source \in Source
  PROVE  /\ Len(Said(c)) \in 0..2
         /\ Yielded(c) \in Nat /\ Yielded(c) = c.chunks + Len(Said(c))
         /\ c.source \in {"opening", "open", "ended"} => Said(c) = <<>>
  <1>1. Len(Said(c)) \in 0..2 /\ (c.source \in {"opening", "open", "ended"} => Said(c) = <<>>)
    BY DEF Said, Source
  <1> QED
    BY <1>1 DEF Yielded

LEMMA CallSaid ==
  ASSUME TypeOK
  PROVE  /\ call.chunks \in Nat /\ Len(Said(call)) \in Nat
         /\ Yielded(call) \in Nat /\ Yielded(call) = call.chunks + Len(Said(call))
         /\ call.source \in {"opening", "open", "ended"} => Said(call) = <<>>
  BY CallFields, SaidType

\* A step after which d is under way has yielded e: what was yielded before keeps its
\* place and e takes the next.
Yields(d, e) ==
    /\ Yielded(d) = Yielded(call) + 1
    /\ \A f : \A i \in 1..Yielded(call) : Fits(call, f, i) => Fits(d, f, i)
    /\ Fits(d, e, Yielded(d))

LEMMA ChunkYields ==
  ASSUME TypeOK, Stages, NEW line, ChunkLine(line)
  PROVE  Yields(call', pending')
  <1>1. /\ call.source = "open" /\ call'.source = "open"
        /\ call'.chunks = call.chunks + 1 /\ call'.at = call.at /\ call'.attempt = call.attempt
        /\ pending'.n = call.chunks + 1 /\ pending'.at = call.at
        /\ pending'.attempt = call.attempt /\ pending'.kind = "chunk"
    BY ChunkType, EventTypes DEF ChunkLine, Reading
  <1>2. Said(call) = <<>> /\ Said(call') = <<>>
    BY <1>1 DEF Said
  <1>3. Yielded(call) = call.chunks /\ Yielded(call') = call.chunks + 1 /\ call.chunks \in Nat
    BY <1>1, <1>2, CallSaid DEF Yielded
  <1> QED
    BY <1>1, <1>3 DEF Yields, Fits

\* The disclaimer, [DONE] and the error event come after the last chunk.
LEMMA SayYields ==
  ASSUME TypeOK, NEW d, NEW e, d.chunks = call.chunks, d.at = call.at, d.attempt = call.attempt,
         Len(Said(d)) = Len(Said(call)) + 1,
         \A j \in 1..Len(Said(call)) : Said(d)[j] = Said(call)[j],
         e.kind = Said(d)[Len(Said(call)) + 1]
  PROVE  Yields(d, e)
  <1>1. /\ call.chunks \in Nat /\ Len(Said(call)) \in Nat
        /\ Yielded(call) = call.chunks + Len(Said(call))
        /\ Yielded(d) = call.chunks + (Len(Said(call)) + 1)
    BY CallSaid DEF Yielded
  <1>2. ASSUME NEW f, NEW i \in 1..Yielded(call), Fits(call, f, i) PROVE Fits(d, f, i)
    <2>1. CASE i <= call.chunks
      BY <1>2, <2>1 DEF Fits
    <2>2. CASE ~(i <= call.chunks)
      <3>1. i - call.chunks \in 1..Len(Said(call))
        BY <1>1, <2>2
      <3> QED
        BY <1>2, <2>2, <3>1 DEF Fits
    <2> QED
      BY <2>1, <2>2
  <1>3. Fits(d, e, Yielded(d))
    <2>1. ~(Yielded(d) <= d.chunks) /\ Yielded(d) - d.chunks = Len(Said(call)) + 1
      BY <1>1
    <2> QED
      BY <2>1 DEF Fits
  <1> QED
    BY <1>1, <1>2, <1>3 DEF Yields

LEMMA FlowAfterYield ==
  ASSUME TypeOK, Flow, pending = Nothing, Yields(call', pending'), pending' # Nothing,
         UNCHANGED <<relay, got, present>>
  PROVE  Flow'
  <1>1. Len(got) \in Nat /\ Yielded(call) \in Nat /\ One(relay) \in {0, 1} /\ One(pending) = 0
        /\ One(pending') = 1
    BY CallSaid DEF TypeOK, One
  <1>2. Len(got) <= Yielded(call) /\ Yielded(call') = Yielded(call) + 1
    BY DEF Flow, Yields
  <1>3. \A i \in 1..Len(got) : Fits(call', got[i], i)
    BY <1>1, <1>2 DEF Flow, Yields
  <1>4. ASSUME present
        PROVE  /\ Len(got) + One(relay) + One(pending') = Yielded(call')
               /\ relay # Nothing => Fits(call', relay, Len(got) + 1)
               /\ Fits(call', pending', Yielded(call'))
    <2>1. Len(got) + One(relay) = Yielded(call) /\ (relay # Nothing => Fits(call, relay, Len(got) + 1))
      BY <1>1, <1>4 DEF Flow
    <2>2. relay # Nothing => Fits(call', relay, Len(got) + 1)
      <3>1. relay # Nothing => Len(got) + 1 \in 1..Yielded(call)
        BY <1>1, <2>1 DEF One
      <3> QED
        BY <2>1, <3>1 DEF Yields
    <2> QED
      BY <1>1, <1>2, <2>1, <2>2 DEF Yields
  <1>5. relay' = relay /\ got' = got /\ (present' => present)
    OBVIOUS
  <1> QED
    BY <1>1, <1>2, <1>3, <1>4, <1>5 DEF Flow

\* A step that yields nothing, moves nothing and at most loses the client.
LEMMA FlowUntouched ==
  ASSUME TypeOK, Flow, UNCHANGED <<got, relay>>, Yielded(call') = Yielded(call),
         \A f : \A i \in 1..Yielded(call) : Fits(call, f, i) => Fits(call', f, i),
         present' => present /\ pending' = pending
  PROVE  Flow'
  <1>1. Len(got) \in Nat /\ Yielded(call) \in Nat /\ One(relay) \in {0, 1} /\ One(pending) \in {0, 1}
    BY CallSaid DEF TypeOK, One
  <1>2. Len(got) <= Yielded(call) /\ \A i \in 1..Len(got) : Fits(call', got[i], i)
    BY <1>1 DEF Flow
  <1>3. ASSUME present'
        PROVE  /\ Len(got) + One(relay) + One(pending) = Yielded(call)
               /\ relay # Nothing => Fits(call', relay, Len(got) + 1)
               /\ pending # Nothing => Fits(call', pending, Yielded(call))
    <2>1. /\ Len(got) + One(relay) + One(pending) = Yielded(call)
          /\ relay # Nothing => Fits(call, relay, Len(got) + 1)
          /\ pending # Nothing => Fits(call, pending, Yielded(call))
      BY <1>3 DEF Flow
    <2>2. relay # Nothing => Len(got) + 1 \in 1..Yielded(call)
      <3>1. relay # Nothing => One(relay) = 1
        BY DEF One
      <3> QED
        BY <1>1, <2>1, <3>1
    <2>3. pending # Nothing => Yielded(call) \in 1..Yielded(call)
      <3>1. pending # Nothing => One(pending) = 1
        BY DEF One
      <3> QED
        BY <1>1, <2>1, <3>1
    <2> QED
      BY <2>1, <2>2, <2>3
  <1>4. got' = got /\ relay' = relay /\ (present' => pending' = pending)
    OBVIOUS
  <1> QED
    BY <1>1, <1>2, <1>3, <1>4 DEF Flow

\* Before the first chunk nothing has been yielded.
LEMMA FlowBefore ==
  ASSUME TypeOK, Flow, call.source \in {"opening", "open"}, call.chunks = 0,
         call'.source \in {"opening", "open", "ended"}, call'.chunks = 0, UNCHANGED wire
  PROVE  Flow'
  <1>1. Said(call) = <<>> /\ Said(call') = <<>>
    BY DEF Said
  <1>2. Yielded(call) = 0 /\ Yielded(call') = 0
    BY <1>1 DEF Yielded
  <1>3. UNCHANGED <<got, relay>> /\ (present' => present /\ pending' = pending)
    BY DEF wire
  <1> QED
    BY <1>2, <1>3, FlowUntouched

\* Nor does a line without a chunk, or the end of the source, add to what was.
LEMMA FlowAtLine ==
  ASSUME TypeOK, Flow, call.source = "open", call'.source \in {"open", "ended"},
         call'.chunks = call.chunks, call'.at = call.at, call'.attempt = call.attempt,
         UNCHANGED wire
  PROVE  Flow'
  <1>1. Said(call) = <<>> /\ Said(call') = <<>>
    BY DEF Said
  <1>2. Yielded(call') = Yielded(call) /\ Yielded(call) = call.chunks
    BY <1>1, CallFields DEF Yielded
  <1>3. \A f : \A i \in 1..Yielded(call) : Fits(call, f, i) => Fits(call', f, i)
    BY <1>2 DEF Fits
  <1>4. UNCHANGED <<got, relay>> /\ (present' => present /\ pending' = pending)
    BY DEF wire
  <1> QED
    BY <1>2, <1>3, <1>4, FlowUntouched

\* Most steps leave the events alone.
LEMMA FlowSame ==
  ASSUME TypeOK, Flow, UNCHANGED <<call, got, relay>>, present' => present /\ pending' = pending
  PROVE  Flow'
  <1>1. Yielded(call') = Yielded(call) /\ \A f : \A i : Fits(call, f, i) => Fits(call', f, i)
    OBVIOUS
  <1> QED
    BY <1>1, FlowUntouched

\* Closing an open stream once the client has gone, or when nothing is on its way.
LEMMA FlowClosed ==
  ASSUME TypeOK, Flow, UNCHANGED <<got, relay>>, present' => present /\ pending' = pending,
         call.source = "open", call' = [call EXCEPT !.source = "ended"]
  PROVE  Flow'
  <1>1. /\ call'.source = "ended" /\ call'.chunks = call.chunks
        /\ call'.at = call.at /\ call'.attempt = call.attempt
    BY SourceOnly
  <1>2. Said(call) = <<>> /\ Said(call') = <<>>
    BY <1>1 DEF Said
  <1>3. Yielded(call') = Yielded(call) /\ Yielded(call) = call.chunks
    BY <1>1, <1>2, CallFields DEF Yielded
  <1>4. \A f : \A i \in 1..Yielded(call) : Fits(call, f, i) => Fits(call', f, i)
    BY <1>1, <1>3 DEF Fits
  <1> QED
    BY <1>3, <1>4, FlowUntouched

LEMMA FlowFailed ==
  ASSUME TypeOK, Stages, Flow, stage = "dispatching", NEW failure, AttemptFails(failure)
  PROVE  Flow'
  <1>1. UNCHANGED wire
    BY AfterFailure
  <1>2. CASE \E i \in 1..Len(plan), n \in 0..MaxRetries : call' = Attempt(i, n)
    <2>1. call'.source = "opening" /\ call'.chunks = 0
      BY <1>2, AttemptType
    <2>2. call.source \in {"opening", "open"} /\ call.chunks = 0
      BY DEF Stages
    <2> QED
      BY <1>1, <2>1, <2>2, FlowBefore
  <1>3. CASE call' = call
    BY <1>1, <1>3, FlowSame DEF wire
  <1> QED
    BY <1>2, <1>3, AfterFailure

\* The middleware takes the pending event, the last one yielded.
LEMMA FlowHandOver ==
  ASSUME TypeOK, Flow, HandOver
  PROVE  Flow'
  <1>1. /\ pending # Nothing /\ relay = Nothing /\ relay' = pending /\ pending' = Nothing
        /\ call' = call /\ got' = got /\ (present' => present)
    BY DEF HandOver
  <1>2. One(pending) = 1 /\ One(relay) = 0 /\ One(relay') = 1 /\ One(pending') = 0
    BY <1>1 DEF One
  <1>3. Len(got) \in Nat /\ Yielded(call) \in Nat
    BY CallSaid DEF TypeOK
  <1>4. ASSUME present
        PROVE  Len(got) + 1 = Yielded(call) /\ Fits(call, pending, Yielded(call))
    BY <1>1, <1>2, <1>3, <1>4 DEF Flow
  <1>5. ASSUME present'
        PROVE  /\ Len(got) + One(relay') + One(pending') = Yielded(call)
               /\ Fits(call, relay', Len(got) + 1)
    BY <1>1, <1>2, <1>3, <1>4, <1>5
  <1>6. Len(got) <= Yielded(call) /\ \A i \in 1..Len(got) : Fits(call, got[i], i)
    BY DEF Flow
  <1> QED
    BY <1>1, <1>5, <1>6 DEF Flow

\* The client gets the event that comes next, or is not there.
LEMMA FlowRelay ==
  ASSUME TypeOK, Flow, Relay
  PROVE  Flow'
  <1>1. /\ relay # Nothing /\ relay' = Nothing /\ call' = call /\ pending' = pending
        /\ present' = present
    BY DEF Relay, request
  <1>2. One(relay) = 1 /\ One(relay') = 0 /\ One(pending) \in {0, 1}
    BY <1>1 DEF One
  <1>3. Len(got) \in Nat /\ Yielded(call) \in Nat /\ got \in Seq(Event) /\ relay \in Event
    BY CallSaid DEF TypeOK
  <1>4. CASE present
    <2>1. got' = Append(got, relay)
      BY <1>4 DEF Relay
    <2>2. /\ Len(got) + 1 + One(pending) = Yielded(call) /\ Fits(call, relay, Len(got) + 1)
          /\ pending # Nothing => Fits(call, pending, Yielded(call))
          /\ \A i \in 1..Len(got) : Fits(call, got[i], i)
      BY <1>1, <1>2, <1>3, <1>4 DEF Flow
    <2>3. Len(got') = Len(got) + 1 /\ got'[Len(got) + 1] = relay
          /\ \A i \in 1..Len(got) : got'[i] = got[i]
      BY <1>3, <2>1
    <2>4. \A i \in 1..Len(got') : Fits(call, got'[i], i)
      <3>1. \A i \in 1..Len(got') : i \in 1..Len(got) \/ i = Len(got) + 1
        BY <1>3, <2>3
      <3> QED
        BY <2>2, <2>3, <3>1
    <2>5. Len(got') + One(relay') + One(pending) = Yielded(call) /\ Len(got') <= Yielded(call)
      BY <1>2, <1>3, <2>2, <2>3
    <2> QED
      BY <1>1, <2>2, <2>4, <2>5 DEF Flow
  <1>5. CASE ~present
    <2>1. got' = got
      BY <1>5 DEF Relay
    <2>2. Len(got) <= Yielded(call) /\ \A i \in 1..Len(got) : Fits(call, got[i], i)
      BY DEF Flow
    <2>3. ~present'
      BY <1>1, <1>5
    <2> QED
      BY <1>1, <2>1, <2>2, <2>3 DEF Flow
  <1> QED
    BY <1>4, <1>5

\* The disclaimer or [DONE].
LEMMA FlowConclude ==
  ASSUME TypeOK, Flow, Conclude
  PROVE  Flow'
  <1>1. /\ pending = Nothing /\ UNCHANGED <<relay, got, present>>
        /\ call.source \in {"ended", "disclaimed"} /\ (call.source = "disclaimed" => Disclaimer)
        /\ pending' = Plain(IF Disclaimer /\ call.source = "ended" THEN "disclaimer" ELSE "DONE")
        /\ call' = [call EXCEPT !.source = IF pending'.kind = "DONE" THEN "done" ELSE "disclaimed"]
    BY DEF Conclude
  <1>2. CASE Disclaimer /\ call.source = "ended"
    <2>1. pending' = Plain("disclaimer") /\ pending'.kind = "disclaimer" /\ pending' # Nothing
      BY <1>1, <1>2, EventTypes
    <2>2. /\ call'.source = "disclaimed" /\ call'.chunks = call.chunks
          /\ call'.at = call.at /\ call'.attempt = call.attempt
      BY <1>1, <2>1, SourceOnly
    <2>3. Said(call) = <<>> /\ Said(call') = <<"disclaimer">>
      BY <1>2, <2>2 DEF Said
    <2>4. Yields(call', pending')
      BY <2>1, <2>2, <2>3, SayYields
    <2> QED
      BY <1>1, <2>1, <2>4, FlowAfterYield
  <1>3. CASE ~(Disclaimer /\ call.source = "ended")
    <2>1. pending' = Plain("DONE") /\ pending'.kind = "DONE" /\ pending' # Nothing
      BY <1>1, <1>3, EventTypes
    <2>2. /\ call'.source = "done" /\ call'.chunks = call.chunks
          /\ call'.at = call.at /\ call'.attempt = call.attempt
      BY <1>1, <2>1, SourceOnly
    <2>3. /\ Said(call) = IF Disclaimer THEN <<"disclaimer">> ELSE <<>>
          /\ Said(call') = IF Disclaimer THEN <<"disclaimer", "DONE">> ELSE <<"DONE">>
      BY <1>1, <1>3, <2>2 DEF Said
    <2>4. Yields(call', pending')
      BY <2>1, <2>2, <2>3, SayYields
    <2> QED
      BY <1>1, <2>1, <2>4, FlowAfterYield
  <1> QED
    BY <1>2, <1>3

\* The error event after a stream that broke off.
LEMMA FlowBreaks ==
  ASSUME TypeOK, Stages, Flow, SourceBreaks
  PROVE  Flow'
  <1>1. CASE stage = "dispatching"
    BY <1>1, FlowFailed DEF SourceBreaks
  <1>2. CASE stage # "dispatching"
    <2>1. /\ pending = Nothing /\ UNCHANGED <<relay, got, present>> /\ call.source = "open"
          /\ pending' = Plain("error") /\ call' = [call EXCEPT !.source = "failed"]
      BY <1>2 DEF SourceBreaks, Reading
    <2>2. pending'.kind = "error" /\ pending' # Nothing
      BY <2>1, EventTypes
    <2>3. /\ call'.source = "failed" /\ call'.chunks = call.chunks
          /\ call'.at = call.at /\ call'.attempt = call.attempt
      BY <2>1, SourceOnly
    <2>4. Said(call) = <<>> /\ Said(call') = <<"error">>
      BY <2>1, <2>3 DEF Said
    <2>5. Yields(call', pending')
      BY <2>2, <2>3, <2>4, SayYields
    <2> QED
      BY <2>1, <2>2, <2>5, FlowAfterYield
  <1> QED
    BY <1>1, <1>2

LEMMA FlowKept ==
  ASSUME TypeOK, Stages, Flow, [Next]_vars
  PROVE  Flow'
  <1> USE DEF wire
  <1>1. CASE Enter
    BY <1>1, FlowSame DEF Enter
  <1>2. ASSUME NEW answer \in Answers, Open(answer) PROVE Flow'
    <2>1. CASE answer = "ok"
      <3>1. /\ call' = [call EXCEPT !.source = "open"] /\ UNCHANGED wire
            /\ call.source = "opening" /\ call.chunks = 0
        BY <1>2, <2>1 DEF Open, Stages
      <3>2. call'.source = "open" /\ call'.chunks = 0
        BY <3>1, SourceOnly
      <3> QED
        BY <3>1, <3>2, FlowBefore
    <2>2. CASE answer # "ok"
      BY <1>2, <2>2, FlowFailed DEF Open
    <2> QED
      BY <2>1, <2>2
  <1>3. ASSUME NEW line, SkipLine(line) PROVE Flow'
    <2>1. call' = [call EXCEPT !.lines = @ + 1] /\ UNCHANGED wire /\ call.source = "open"
      BY <1>3 DEF SkipLine, Reading
    <2>2. /\ call'.chunks = call.chunks /\ call'.at = call.at /\ call'.attempt = call.attempt
          /\ call'.source = "open"
      BY <2>1, CallFields DEF CallType
    <2> QED
      BY <2>1, <2>2, FlowAtLine
  <1>4. ASSUME NEW line, ChunkLine(line) PROVE Flow'
    <2>1. pending = Nothing /\ UNCHANGED <<relay, got, present>>
      BY <1>4 DEF ChunkLine, Reading, Stages
    <2>2. Yields(call', pending') /\ pending' # Nothing
      BY <1>4, ChunkYields, ChunkType, EventTypes
    <2> QED
      BY <2>1, <2>2, FlowAfterYield
  <1>5. ASSUME NEW line, RaiseLine(line) PROVE Flow'
    <2>1. CASE stage = "dispatching"
      BY <1>5, <2>1, FlowFailed DEF RaiseLine
    <2>2. CASE stage # "dispatching"
      BY <1>5, <2>2, FlowClosed DEF RaiseLine, Reading
    <2> QED
      BY <2>1, <2>2
  <1>6. CASE SourceEnds
    <2>1. call' = [call EXCEPT !.source = "ended"] /\ UNCHANGED wire /\ call.source = "open"
      BY <1>6 DEF SourceEnds, Reading
    <2>2. /\ call'.chunks = call.chunks /\ call'.at = call.at /\ call'.attempt = call.attempt
          /\ call'.source = "ended"
      BY <2>1, SourceOnly
    <2> QED
      BY <2>1, <2>2, FlowAtLine
  <1>7. CASE SourceBreaks
    BY <1>7, FlowBreaks
  <1>8. CASE StartStream
    BY <1>8, FlowSame DEF StartStream
  <1>9. CASE Conclude
    BY <1>9, FlowConclude
  <1>10. CASE FinishStream
    BY <1>10, FlowSame DEF FinishStream
  <1>11. CASE Settle
    BY <1>11, FlowSame DEF Settle
  <1>12. CASE HandOver
    BY <1>12, FlowHandOver
  <1>13. CASE Relay
    BY <1>13, FlowRelay
  <1>14. CASE Leave
    <2>1. UNCHANGED <<call, got, relay>> /\ ~present'
      BY <1>14, Zenon DEF Leave
    <2> QED
      BY <2>1, FlowSame
  <1>15. CASE Abandon
    BY <1>15, FlowSame DEF Abandon
  <1>16. CASE Close
    <2>1. UNCHANGED <<got, relay>> /\ ~present'
      BY <1>16, Zenon DEF Close
    <2> QED
      BY <1>16, <2>1, ClosedCall, FlowSame, FlowClosed
  <1>17. CASE CloseSource
    BY <1>17, FlowClosed DEF CloseSource
  <1>18. CASE Finished \/ UNCHANGED vars
    <2>1. UNCHANGED <<call, got, relay, pending>> /\ (present' => present)
      BY <1>18 DEF Finished, vars
    <2> QED
      BY <2>1, FlowSame
  <1> QED
    BY <1>1, <1>2, <1>3, <1>4, <1>5, <1>6, <1>7, <1>8, <1>9, <1>10, <1>11, <1>12, <1>13, <1>14,
       <1>15, <1>16, <1>17, <1>18 DEF Next

-----------------------------------------------------------------------------
(* The bill. *)

LEMMA PrefixElements ==
  ASSUME NEW S, NEW s \in Seq(S), NEW t \in Seq(S)
  PROVE  IsPrefix(s, t) <=> Len(s) <= Len(t) /\ \A i \in 1..Len(s) : s[i] = t[i]
  <1>1. ASSUME Len(s) <= Len(t), \A i \in 1..Len(s) : s[i] = t[i]
        PROVE  SubSeq(s, 1, Len(s)) = SubSeq(t, 1, Len(s))
    BY <1>1
  <1>2. ASSUME Len(s) <= Len(t), SubSeq(s, 1, Len(s)) = SubSeq(t, 1, Len(s)), NEW i \in 1..Len(s)
        PROVE  s[i] = t[i]
    <2>1. SubSeq(s, 1, Len(s))[i] = s[i]
      OBVIOUS
    <2>2. SubSeq(t, 1, Len(s))[i] = t[i]
      BY <1>2
    <2> QED
      BY <1>2, <2>1, <2>2
  <1> QED
    BY <1>1, <1>2 DEF IsPrefix

LEMMA EmptyPrefix ==
  ASSUME NEW S, NEW t \in Seq(S)
  PROVE  IsPrefix(<<>>, t)
  <1>1. <<>> \in Seq(S) /\ Len(<<>>) = 0 /\ Len(t) \in Nat
    OBVIOUS
  <1>2. Len(<<>>) <= Len(t) /\ \A i \in 1..Len(<<>>) : <<>>[i] = t[i]
    BY <1>1
  <1> QED
    BY <1>1, <1>2, PrefixElements

LEMMA PrefixMore ==
  ASSUME NEW S, NEW s \in Seq(S), NEW t \in Seq(S), NEW u \in Seq(S), IsPrefix(s, t)
  PROVE  IsPrefix(s, t \o u)
  <1>1. Len(s) <= Len(t) /\ \A i \in 1..Len(s) : s[i] = t[i]
    BY PrefixElements
  <1>2. t \o u \in Seq(S) /\ Len(t \o u) = Len(t) + Len(u)
        /\ \A i \in 1..Len(t) : (t \o u)[i] = t[i]
    OBVIOUS
  <1>3. Len(s) <= Len(t \o u) /\ \A i \in 1..Len(s) : s[i] = (t \o u)[i]
    BY <1>1, <1>2
  <1> QED
    BY <1>2, <1>3, PrefixElements

LEMMA PrefixOfConcat ==
  ASSUME NEW S, NEW s \in Seq(S), NEW u \in Seq(S)
  PROVE  IsPrefix(s, s \o u)
  <1>1. IsPrefix(s, s)
    BY PrefixElements
  <1> QED
    BY <1>1, PrefixMore

LEMMA ContentType ==
  ASSUME NEW e \in Event
  PROVE  Content(e) \in Seq(Event) /\ Len(Content(e)) \in {0, 1}
  BY DEF Content

LEMMA NothingSaid == Content(Nothing) = <<>> /\ Content(Plain("error")) = <<>>
  <1>1. ~HasContent(Nothing) /\ ~HasContent(Plain("error"))
    BY DEF HasContent, Nothing, Plain
  <1> QED
    BY <1>1 DEF Content

LEMMA ComingType == TypeOK => Coming \in Seq(Event) /\ Len(Coming) \in {0, 1}
  BY ContentType DEF Coming, TypeOK

LEMMA AccountAppends ==
  ASSUME TypeOK, NEW e \in Event, Account(e)
  PROVE  accumulated' = accumulated \o Content(e)
  <1>1. CASE HasContent(e)
    BY <1>1 DEF Account, Content, TypeOK
  <1>2. CASE ~HasContent(e)
    BY <1>2 DEF Account, Content, TypeOK
  <1> QED
    BY <1>1, <1>2

\* Steps without a word to the client or to the bill.
LEMMA BillingSame ==
  ASSUME Billing, UNCHANGED <<heard, relay, accumulated>>,
         present' => present /\ Coming' = Coming,
         stage' \notin {"delivering", "settling", "done"} => accumulated = <<>>,
         stage' = "done" /\ accumulated # <<>> => bill' # "none"
  PROVE  Billing'
  BY DEF Billing

\* An event is accounted for when it is yielded.
LEMMA BillingYield ==
  ASSUME TypeOK, Billing, NEW e \in Event, Account(e), UNCHANGED <<heard, relay, present>>,
         Coming = <<>>, Coming' = Content(e), stage' = "delivering"
  PROVE  Billing'
  <1>1. /\ accumulated' = accumulated \o Content(e) /\ Content(e) \in Seq(Event)
        /\ Content(relay) \in Seq(Event) /\ heard \in Seq(Event) /\ accumulated \in Seq(Event)
    BY AccountAppends, ContentType DEF TypeOK
  <1>2. IsPrefix(heard, accumulated')
    BY <1>1, PrefixMore DEF Billing
  <1>3. present => accumulated' = (heard \o Content(relay)) \o Coming'
    <2>1. present => accumulated = (heard \o Content(relay)) \o <<>>
      BY DEF Billing
    <2>2. (heard \o Content(relay)) \o <<>> = heard \o Content(relay)
      BY <1>1
    <2> QED
      BY <1>1, <2>1, <2>2
  <1>4. heard' = heard /\ relay' = relay /\ (present' => present)
    OBVIOUS
  <1> QED
    BY <1>2, <1>3, <1>4 DEF Billing

LEMMA BillingFailed ==
  ASSUME Stages, Billing, stage = "dispatching", NEW failure, AttemptFails(failure), TypeOK
  PROVE  Billing'
  <1>1. UNCHANGED <<heard, relay, accumulated, present, pending>>
    BY AfterFailure DEF wire, account
  <1>2. stage' # "delivering"
    BY AfterFailure DEF request
  <1>3. Coming = <<>> /\ Coming' = <<>> /\ accumulated = <<>>
    BY <1>2 DEF Coming, Billing
  <1> QED
    BY <1>1, <1>3, BillingSame

\* The finally bills whatever there is to bill.
LEMMA BillingEnd ==
  ASSUME Stages, Billing, stage = "delivering", NEW how, EndStream(how),
         UNCHANGED <<heard, relay, accumulated>>, present' => present /\ pending = Nothing
  PROVE  Billing'
  <1>1. /\ stage' \in {"settling", "done"} /\ (stage' = "done" => accumulated = <<>>)
    BY DEF EndStream
  <1>2. Coming' = <<>> /\ (pending = Nothing => Coming = <<>>)
    BY <1>1, NothingSaid DEF Coming
  <1> QED
    BY <1>1, <1>2, BillingSame

LEMMA BillingHandOver ==
  ASSUME TypeOK, Billing, HandOver
  PROVE  Billing'
  <1>1. /\ stage = "delivering" /\ relay = Nothing /\ relay' = pending /\ pending' = Nothing
        /\ stage' = stage /\ bill' = bill /\ accumulated' = accumulated /\ heard' = heard
        /\ present' = present
    BY DEF HandOver, account, request
  <1>2. Coming = Content(pending) /\ Coming' = <<>> /\ Content(relay) = <<>>
    BY <1>1, NothingSaid DEF Coming
  <1>3. present => accumulated = (heard \o <<>>) \o Content(pending)
    BY <1>2 DEF Billing
  <1>4. heard \in Seq(Event) /\ Content(pending) \in Seq(Event)
    BY ContentType DEF TypeOK
  <1>5. (heard \o <<>>) \o Content(pending) = (heard \o Content(pending)) \o <<>>
    BY <1>4
  <1>6. present' => accumulated = (heard \o Content(relay')) \o Coming'
    BY <1>1, <1>2, <1>3, <1>5
  <1> QED
    BY <1>1, <1>6 DEF Billing

LEMMA BillingRelay ==
  ASSUME TypeOK, Billing, Relay
  PROVE  Billing'
  <1>1. /\ relay' = Nothing /\ pending' = pending /\ stage' = stage /\ bill' = bill
        /\ accumulated' = accumulated /\ present' = present
    BY DEF Relay, account, request
  <1>2. Coming' = Coming /\ Content(relay') = <<>>
    BY <1>1, NothingSaid DEF Coming
  <1>3. /\ heard \in Seq(Event) /\ accumulated \in Seq(Event) /\ relay \in Event
        /\ Content(relay) \in Seq(Event) /\ Coming \in Seq(Event)
    BY ContentType, ComingType DEF TypeOK
  <1>4. CASE present
    <2>1. heard' = heard \o Content(relay)
      <3>1. CASE HasContent(relay)
        BY <1>3, <1>4, <3>1 DEF Relay, Content
      <3>2. CASE ~HasContent(relay)
        BY <1>3, <1>4, <3>2 DEF Relay, Content
      <3> QED
        BY <3>1, <3>2
    <2>2. accumulated = (heard \o Content(relay)) \o Coming /\ heard \o Content(relay) \in Seq(Event)
      BY <1>3, <1>4 DEF Billing
    <2>3. IsPrefix(heard', accumulated)
      BY <1>3, <2>1, <2>2, PrefixOfConcat
    <2>4. accumulated = (heard' \o <<>>) \o Coming
      <3>1. heard' \o <<>> = heard'
        BY <2>1, <2>2
      <3> QED
        BY <2>1, <2>2, <3>1
    <2> QED
      BY <1>1, <1>2, <2>3, <2>4 DEF Billing
  <1>5. CASE ~present
    <2>1. heard' = heard
      BY <1>5 DEF Relay
    <2>2. ~present'
      BY <1>1, <1>5
    <2> QED
      BY <1>1, <2>1, <2>2 DEF Billing
  <1> QED
    BY <1>4, <1>5

LEMMA BillingKept ==
  ASSUME TypeOK, TypeOK', Stages, Billing, [Next]_vars
  PROVE  Billing'
  <1> USE DEF wire, account, request
  <1>1. CASE Enter
    BY <1>1, BillingSame DEF Enter, Coming, Billing
  <1>2. ASSUME NEW answer \in Answers, Open(answer) PROVE Billing'
    <2>1. CASE answer = "ok"
      BY <1>2, <2>1, BillingSame DEF Open, Coming, Billing
    <2>2. CASE answer # "ok"
      BY <1>2, <2>2, BillingFailed DEF Open
    <2> QED
      BY <2>1, <2>2
  <1>3. ASSUME NEW line, SkipLine(line) PROVE Billing'
    BY <1>3, BillingSame DEF SkipLine, Coming, Billing
  <1>4. ASSUME NEW line, ChunkLine(line) PROVE Billing'
    <2>1. UNCHANGED <<relay, heard, present, bill>>
      BY <1>4 DEF ChunkLine
    <2>2. CASE stage = "dispatching"
      <3>1. stage' = "offered" /\ accumulated' = accumulated
        BY <1>4, <2>2 DEF ChunkLine
      <3> QED
        BY <2>1, <2>2, <3>1, BillingSame DEF Coming, Billing
    <2>3. CASE stage # "dispatching"
      <3>1. /\ stage = "delivering" /\ stage' = "delivering" /\ pending = Nothing
            /\ Account(pending')
        BY <1>4, <2>3 DEF ChunkLine, Reading
      <3>2. Coming = <<>> /\ Coming' = Content(pending') /\ pending' \in Event
        BY <3>1, NothingSaid DEF Coming, TypeOK
      <3> QED
        BY <2>1, <3>1, <3>2, BillingYield
    <2> QED
      BY <2>2, <2>3
  <1>5. ASSUME NEW line, RaiseLine(line) PROVE Billing'
    <2>1. CASE stage = "dispatching"
      BY <1>5, <2>1, BillingFailed DEF RaiseLine
    <2>2. CASE stage # "dispatching"
      BY <1>5, <2>2, BillingEnd DEF RaiseLine, Reading
    <2> QED
      BY <2>1, <2>2
  <1>6. CASE SourceEnds
    <2>1. /\ UNCHANGED <<relay, heard, present, bill, accumulated, pending>>
          /\ \/ stage = "dispatching" /\ stage' = "offered"
             \/ stage' = stage
      BY <1>6 DEF SourceEnds
    <2> QED
      BY <2>1, BillingSame DEF Coming, Billing
  <1>7. CASE SourceBreaks
    <2>1. CASE stage = "dispatching"
      BY <1>7, <2>1, BillingFailed DEF SourceBreaks
    <2>2. CASE stage # "dispatching"
      <3>1. /\ UNCHANGED <<relay, heard, present, bill, accumulated, stage>>
            /\ pending = Nothing /\ pending' = Plain("error")
        BY <1>7, <2>2 DEF SourceBreaks, Reading
      <3>2. Coming' = Coming
        BY <3>1, NothingSaid DEF Coming
      <3> QED
        BY <3>1, <3>2, BillingSame DEF Billing
    <2> QED
      BY <2>1, <2>2
  <1>8. CASE StartStream
    <2>1. /\ stage = "offered" /\ stage' = "delivering" /\ Account(pending)
          /\ UNCHANGED <<relay, heard, present, pending>>
      BY <1>8 DEF StartStream
    <2>2. Coming = <<>> /\ Coming' = Content(pending) /\ pending \in Event
      BY <2>1 DEF Coming, TypeOK
    <2> QED
      BY <2>1, <2>2, BillingYield
  <1>9. CASE Conclude
    <2>1. /\ stage = "delivering" /\ stage' = "delivering" /\ Account(pending')
          /\ UNCHANGED <<relay, heard, present>> /\ pending = Nothing
      BY <1>9 DEF Conclude
    <2>2. Coming = <<>> /\ Coming' = Content(pending') /\ pending' \in Event
      BY <2>1, NothingSaid DEF Coming, TypeOK
    <2> QED
      BY <2>1, <2>2, BillingYield
  <1>10. CASE FinishStream
    <2>1. PICK how : EndStream(how)
      BY <1>10 DEF FinishStream
    <2> QED
      BY <1>10, <2>1, BillingEnd DEF FinishStream
  <1>11. CASE Settle
    <2>1. /\ stage = "settling" /\ stage' = "done" /\ bill' # "none"
          /\ UNCHANGED <<heard, relay, accumulated, present>>
      BY <1>11 DEF Settle
    <2> QED
      BY <2>1, BillingSame DEF Coming
  <1>12. CASE HandOver
    BY <1>12, BillingHandOver
  <1>13. CASE Relay
    BY <1>13, BillingRelay
  <1>14. CASE Leave
    <2>1. UNCHANGED <<heard, relay, accumulated, stage, bill>> /\ ~present'
      BY <1>14, Zenon DEF Leave
    <2> QED
      BY <2>1, BillingSame DEF Billing
  <1>15. CASE Abandon
    <2>1. /\ UNCHANGED <<heard, relay, accumulated, present>> /\ stage = "offered"
          /\ stage' = "abandoned"
      BY <1>15 DEF Abandon
    <2> QED
      BY <2>1, BillingSame DEF Coming, Billing
  <1>16. CASE Close
    <2>1. UNCHANGED <<heard, relay, accumulated>> /\ ~present' /\ stage = "delivering" /\ EndStream("cut")
      BY <1>16, Zenon DEF Close
    <2> QED
      BY <2>1, BillingEnd
  <1>17. CASE CloseSource
    <2>1. UNCHANGED <<heard, relay, accumulated, stage, bill, pending, present>>
      BY <1>17 DEF CloseSource
    <2> QED
      BY <2>1, BillingSame DEF Billing, Coming
  <1>18. CASE Finished \/ UNCHANGED vars
    <2>1. UNCHANGED <<heard, relay, accumulated, stage, bill, pending>> /\ (present' => present)
      BY <1>18 DEF Finished, vars
    <2> QED
      BY <2>1, BillingSame DEF Billing, Coming
  <1> QED
    BY <1>1, <1>2, <1>3, <1>4, <1>5, <1>6, <1>7, <1>8, <1>9, <1>10, <1>11, <1>12, <1>13, <1>14,
       <1>15, <1>16, <1>17, <1>18 DEF Next

-----------------------------------------------------------------------------
(* What the invariant implies. *)

\* The events of a proper ending.
Closings == {"disclaimer", "DONE"}

LEMMA NoSpliceInvariant == TypeOK /\ Stages /\ Flow => NoSplice
  <1> DEFINE ending == IF Disclaimer THEN <<"disclaimer", "DONE">> ELSE <<"DONE">>
             rest(n) == [i \in 1..(Len(got) - n) |-> got[n + i].kind]
             chunk(n) == \A i \in 1..n : /\ got[i].kind = "chunk" /\ got[i].n = i
                                         /\ got[i].at = call.at /\ got[i].attempt = call.attempt
  <1> SUFFICES ASSUME TypeOK, Stages, Flow
               PROVE  \E n \in 0..Len(got) :
                         /\ chunk(n)
                         /\ rest(n) = <<"error">> \/ IsPrefix(rest(n), ending)
                         /\ rest(n) # <<>> => n = call.chunks
    BY Zenon DEF NoSplice
  <1>1. /\ Len(got) \in Nat /\ call.chunks \in Nat /\ Len(Said(call)) \in Nat
        /\ Len(got) <= call.chunks + Len(Said(call))
        /\ \A i \in 1..Len(got) : Fits(call, got[i], i)
    BY CallSaid DEF TypeOK, Flow
  <1>2. ending \in Seq(Closings)
    <2>1. <<"disclaimer", "DONE">> \in Seq(Closings) /\ <<"DONE">> \in Seq(Closings)
      BY DEF Closings
    <2> QED
      BY <2>1, Zenon
  <1>3. CASE Len(got) <= call.chunks
    <2>1. chunk(Len(got))
      BY <1>1, <1>3 DEF Fits
    <2>2. rest(Len(got)) = <<>>
      BY <1>1
    <2>3. IsPrefix(<<>>, ending)
      <3> HIDE DEF ending
      <3> QED
        BY <1>2, EmptyPrefix
    <2>4. Len(got) \in 0..Len(got)
      BY <1>1
    <2> HIDE DEF ending, rest, chunk
    <2> QED
      BY <2>1, <2>2, <2>3, <2>4
  <1>4. CASE ~(Len(got) <= call.chunks)
    <2> DEFINE k == Len(got) - call.chunks
    <2>1. k \in 1..Len(Said(call)) /\ call.chunks \in 0..Len(got)
      BY <1>1, <1>4
    <2>2. chunk(call.chunks)
      BY <1>1, <1>4 DEF Fits
    <2>3. \A i \in 1..k : got[call.chunks + i].kind = Said(call)[i]
      <3> TAKE i \in 1..k
      <3>1. call.chunks + i \in 1..Len(got) /\ ~(call.chunks + i <= call.chunks)
            /\ (call.chunks + i) - call.chunks = i
        BY <1>1, <1>4, <2>1
      <3> QED
        BY <1>1, <3>1 DEF Fits
    <2>4. rest(call.chunks) = [i \in 1..k |-> Said(call)[i]]
      BY <2>3
    <2>5. /\ call.source \in {"disclaimed", "done", "failed"}
          /\ call.source = "disclaimed" => Disclaimer
      BY <2>1, CallFields, CallSaid DEF Source, Stages
    <2>6. rest(call.chunks) = <<"error">> \/ IsPrefix(rest(call.chunks), ending)
      <3>1. CASE call.source = "failed"
        <4>1. Said(call) = <<"error">>
          BY <3>1 DEF Said
        <4>2. k = 1
          BY <2>1, <4>1
        <4> QED
          BY <2>4, <4>1, <4>2
      <3>2. CASE call.source # "failed"
        <4>1. /\ Len(Said(call)) <= Len(ending) /\ ending \in Seq(Closings) /\ Said(call) \in Seq(Closings)
              /\ \A i \in 1..Len(Said(call)) : Said(call)[i] = ending[i]
          <5>1. CASE call.source = "disclaimed"
            <6>1. Said(call) = <<"disclaimer">> /\ ending = <<"disclaimer", "DONE">>
              BY <2>5, <5>1, Zenon DEF Said
            <6> HIDE DEF ending
            <6>2. Len(ending) = 2 /\ ending[1] = "disclaimer" /\ ending \in Seq(Closings)
              BY <1>2, <6>1
            <6>3. /\ Len(Said(call)) = 1 /\ Said(call)[1] = "disclaimer"
                  /\ Said(call) \in Seq(Closings)
              BY <6>1 DEF Closings
            <6> QED
              BY <6>2, <6>3
          <5>2. CASE call.source = "done"
            <6>1. Said(call) = ending
              BY <5>2 DEF Said
            <6> HIDE DEF ending
            <6>2. Len(ending) \in Nat
              BY <1>2
            <6> QED
              BY <1>2, <6>1, <6>2
          <5> QED
            BY <2>5, <3>2, <5>1, <5>2
        <4>2. rest(call.chunks) \in Seq(Closings) /\ Len(rest(call.chunks)) = k
              /\ \A i \in 1..k : rest(call.chunks)[i] = Said(call)[i]
          <5> HIDE DEF rest
          <5>1. \A i \in 1..k : Said(call)[i] \in Closings
            BY <2>1, <4>1
          <5> QED
            BY <2>1, <2>4, <5>1
        <4>3. /\ k <= Len(ending)
              /\ \A i \in 1..k : rest(call.chunks)[i] = ending[i]
          <5> HIDE DEF rest, ending
          <5> QED
            BY <1>1, <2>1, <4>1, <4>2
        <4> HIDE DEF rest, ending
        <4> QED
          BY <4>1, <4>2, <4>3, PrefixElements
      <3> QED
        BY <3>1, <3>2
    <2> HIDE DEF ending, rest, chunk
    <2> QED
      BY <2>1, <2>2, <2>6
  <1> QED
    BY <1>3, <1>4

LEMMA BillCoversDeliveryInvariant == TypeOK /\ Billing => BillCoversDelivery
  <1> SUFFICES ASSUME TypeOK, Billing PROVE BillCoversDelivery
    OBVIOUS
  <1>1. /\ heard \in Seq(Event) /\ accumulated \in Seq(Event)
        /\ Content(relay) \in Seq(Event) /\ Len(Content(relay)) \in {0, 1}
        /\ Coming \in Seq(Event) /\ Len(Coming) \in {0, 1}
    BY ContentType, ComingType DEF TypeOK
  <1>2. IsPrefix(heard, accumulated)
    BY DEF Billing
  <1>3. ASSUME present PROVE Len(accumulated) <= Len(heard) + 2
    <2>1. accumulated = (heard \o Content(relay)) \o Coming
      BY <1>3 DEF Billing
    <2>2. Len(accumulated) = Len(heard) + Len(Content(relay)) + Len(Coming)
      BY <1>1, <2>1
    <2>3. Len(heard) \in Nat
      BY <1>1
    <2>4. \A n : n \in {0, 1} => n \in Nat /\ n <= 1
      OBVIOUS
    <2>5. /\ Len(Content(relay)) \in Nat /\ Len(Content(relay)) <= 1
          /\ Len(Coming) \in Nat /\ Len(Coming) <= 1
      BY <1>1, <2>4, Zenon
    <2> QED
      BY <2>2, <2>3, <2>5
  <1>4. ASSUME stage = "done", heard # <<>> PROVE bill # "none"
    <2>1. Len(heard) <= Len(accumulated)
      BY <1>1, <1>2, PrefixElements
    <2>2. accumulated # <<>>
      BY <1>1, <1>4, <2>1
    <2> QED
      BY <1>4, <2>2 DEF Billing
  <1> QED
    BY <1>2, <1>3, <1>4 DEF BillCoversDelivery

LEMMA InitInductive == Init => Inductive
  <1> SUFFICES ASSUME Init PROVE Flow /\ Billing
    BY InitType DEF Inductive
  <1>1. Said(call) = <<>> /\ call.chunks = 0
    BY DEF Init, Said, Attempt
  <1>2. Yielded(call) = 0
    BY <1>1 DEF Yielded
  <1>3. Flow
    BY <1>2 DEF Init, Flow, One
  <1>4. Coming = <<>> /\ Content(relay) = <<>>
    BY NothingSaid DEF Init, Coming
  <1>5. IsPrefix(heard, accumulated)
    <2>1. heard = <<>> /\ accumulated = <<>>
      BY DEF Init
    <2>2. IsPrefix(<<>>, <<>>)
      BY DEF IsPrefix
    <2> QED
      BY <2>1, <2>2
  <1>6. accumulated = (heard \o <<>>) \o <<>>
    BY DEF Init
  <1>7. Billing
    BY <1>4, <1>5, <1>6 DEF Init, Billing
  <1> QED
    BY <1>3, <1>7

\* The inductive invariant: the events yielded so far are those of one attempt, shared out
\* among client, relay and generator, and the bill has the content of the same events.
THEOREM InductiveHolds == Spec => []Inductive
  <1>1. Init => Inductive
    BY InitInductive
  <1>2. Inductive /\ [Next]_vars => Inductive'
    BY NextType, StagesKept, FlowKept, BillingKept DEF Inductive
  <1> QED
    BY <1>1, <1>2, PTL DEF Spec

\* Whatever breaks, the client gets the chunks of one attempt, each once and in their
\* order, then at most one ending; and no ending before it has got them all.
THEOREM NoSpliceHolds == Spec => []NoSplice
  <1>1. Inductive => NoSplice
    BY NoSpliceInvariant DEF Inductive
  <1> QED
    BY <1>1, InductiveHolds, PTL

\* What a client has heard is on the bill, however the stream ends, and the bill is never
\* more than two events ahead of a client that is there.
THEOREM BillCoversDeliveryHolds == Spec => []BillCoversDelivery
  <1>1. Inductive => BillCoversDelivery
    BY BillCoversDeliveryInvariant DEF Inductive
  <1> QED
    BY <1>1, InductiveHolds, PTL

=============================================================================
