----------------------------- MODULE Streaming -----------------------------
(***************************************************************************)
(* One streaming request from its slot to its bill: _get_first_chunk() and  *)
(* _stream_response() of app/routers/chat.py over the streams of module     *)
(* Providers.  Three parties move: the provider, which sends lines, breaks  *)
(* off or stops; the generator, which turns lines into events; and the      *)
(* client, which may leave at any time.                                     *)
(*                                                                          *)
(* Between the generator and the client stands the BaseHTTPMiddleware of    *)
(* app/middleware/auth.py, which relays one event at a time: while it sends *)
(* one, the generator may already wait to hand over the next.               *)
(*                                                                          *)
(* The stages are those of module Gateway, which this module implements for *)
(* one request with a free slot.  The circuit breakers are left to          *)
(* Dispatch.                                                                *)
(***************************************************************************)
EXTENDS Providers, Sequences, SequencesExt

CONSTANTS
    Plans,       \* the candidate lists requests may have, as sequences of providers
    MaxRetries,  \* retry_policy.max_retries
    Disclaimer,  \* the team has a disclaimer
    MaxLines     \* bound on the lines of one attempt

ASSUME StreamingAssumption ==
    /\ Plans \subseteq Seq(Provider) \ {<<>>}
    /\ MaxRetries \in Nat /\ MaxLines \in Nat
    /\ Disclaimer \in BOOLEAN

VARIABLES
    plan,
    call,         \* the attempt under way, see Attempt
    stage, slot,
    pending,      \* the first chunk until the generator starts, then what it has
                  \* yielded and not handed over
    relay,        \* what the middleware is sending
    got,          \* history: the events the client got
    heard,        \* history: those of them with content
    accumulated,  \* the events whose content is to be billed
    finish,       \* finish_reason is set
    present,      \* the client is there
    cancelled,    \* the finally of the generator runs in a cancelled task
    reply, counted, bill

wire == <<pending, relay, got, heard, present>>
account == <<accumulated, finish, cancelled>>
request == <<stage, slot, reply, counted, bill>>
vars == <<plan, call, wire, account, request>>

\* An event on its way to the client: a chunk knows where it comes from.
Plain(kind) == [kind |-> kind]

Nothing == Plain("nothing")

ChunkEvent == [kind : {"chunk"}, at : Nat, attempt : Nat, n : Nat, form : Chunks]

Event == ChunkEvent \cup {Plain(k) : k \in {"nothing", "disclaimer", "DONE", "error"}}

\* The n-th retry of the i-th candidate: lines are those read so far, chunks those
\* made of them.  Its source is "opening", "open" or "ended", and after that the
\* last thing the generator has said: "disclaimed", "done" or "failed".
Attempt(i, n) == [at |-> i, attempt |-> n, source |-> "opening", lines |-> 0, chunks |-> 0]

-----------------------------------------------------------------------------
Init ==
    /\ plan \in Plans
    /\ call = Attempt(1, 0)
    /\ stage = "new" /\ slot = "new"
    /\ pending = Nothing /\ relay = Nothing /\ got = <<>> /\ heard = <<>>
    /\ present = TRUE
    /\ accumulated = <<>> /\ finish = FALSE /\ cancelled = FALSE
    /\ reply = "none" /\ counted = 0 /\ bill = "none"

\* The slot is taken: see Gateway for waiting and refusals.
Enter ==
    /\ stage = "new"
    /\ stage' = "dispatching" /\ slot' = "holding"
    /\ UNCHANGED <<plan, call, wire, account, reply, counted, bill>>

-----------------------------------------------------------------------------
\* The dispatch: attempts up to a first chunk.

\* Variant: one retry too many.
AttemptFailsOffByOne(failure) ==
    /\ call' = IF failure = "retry" /\ call.attempt <= MaxRetries
               THEN Attempt(call.at, call.attempt + 1)
               ELSE Attempt(call.at + 1, 0)
    /\ call'.at <= Len(plan)
    /\ UNCHANGED <<plan, wire, account, request>>

\* A failure before the first chunk: the same candidate again, the next one, or
\* 502 after release(); for an exception nobody expects 500 without.
AttemptFails(failure) ==
    LET again == failure = "retry" /\ call.attempt < MaxRetries
        next  == failure # "escape" /\ ~again /\ call.at < Len(plan) IN
    /\ call' = IF again THEN Attempt(call.at, call.attempt + 1)
               ELSE IF next THEN Attempt(call.at + 1, 0) ELSE call
    /\ IF again \/ next
       THEN UNCHANGED request
       ELSE /\ stage' = IF failure = "escape" THEN "raised" ELSE "done"
            /\ slot' = IF failure = "escape" THEN slot ELSE "released"
            /\ reply' = "5xx" /\ counted' = counted + 1
            /\ UNCHANGED bill
    /\ UNCHANGED <<plan, wire, account>>

\* The provider answers the opening of the stream, or does not.
Open(answer) ==
    /\ stage = "dispatching" /\ call.source = "opening"
    /\ IF answer = "ok"
       THEN /\ call' = [call EXCEPT !.source = "open"]
            /\ UNCHANGED <<plan, wire, account, request>>
       ELSE AttemptFails(Failure(answer))

-----------------------------------------------------------------------------
\* The generator.

\* Variant: the slot stays with a client that has gone.
EndStreamHolding(how) ==
    /\ stage' = IF accumulated # <<>> \/ finish THEN "settling" ELSE "done"
    /\ slot' = IF how = "cut" THEN slot ELSE "released"
    /\ reply' = how /\ counted' = counted + 1
    /\ UNCHANGED bill

\* Its finally, up to the await of record_usage() if there is something to bill.
EndStream(how) ==
    /\ stage' = IF accumulated # <<>> \/ finish THEN "settling" ELSE "done"
    /\ slot' = "released"
    /\ reply' = how /\ counted' = counted + 1
    /\ UNCHANGED bill

HasContent(e) == e.kind = "disclaimer" \/ (e.kind = "chunk" /\ e.form \in {"text", "last"})

\* The content and the finish reason of an event about to be yielded.
Account(e) ==
    /\ accumulated' = IF HasContent(e) THEN Append(accumulated, e) ELSE accumulated
    /\ finish' = (finish \/ (e.kind = "chunk" /\ e.form \in {"last", "finish"}))
    /\ UNCHANGED cancelled

\* Variant: the loop accounts for its chunks, and the first is forgotten.
StartStreamUncounted ==
    /\ stage = "offered"
    /\ stage' = "delivering"
    /\ UNCHANGED <<plan, call, wire, account, slot, reply, counted, bill>>

\* The server iterates the generator: the first chunk, if any, is yielded.
StartStream ==
    /\ stage = "offered"
    /\ stage' = "delivering"
    /\ Account(pending)
    /\ UNCHANGED <<plan, call, wire, slot, reply, counted, bill>>

\* The stream of the provider is read: for the first chunk, or for the next one
\* when the last has been handed over.
Reading ==
    /\ call.source = "open"
    /\ stage = "dispatching" \/ (stage = "delivering" /\ pending = Nothing)

Effect(line) == Translated(plan[call.at], line)

SkipLine(line) ==
    /\ Reading /\ call.lines < MaxLines
    /\ Effect(line) = "skip"
    /\ call' = [call EXCEPT !.lines = @ + 1]
    /\ UNCHANGED <<plan, wire, account, request>>

\* A line becomes a chunk: the first_chunk that ends the dispatch, or the next one
\* to account for and to yield.
ChunkLine(line) ==
    /\ Reading /\ call.lines < MaxLines
    /\ Effect(line) \in Chunks
    /\ call' = [call EXCEPT !.lines = @ + 1, !.chunks = @ + 1]
    /\ pending' = [kind |-> "chunk", at |-> call.at, attempt |-> call.attempt,
                   n |-> call'.chunks, form |-> Effect(line)]
    /\ IF stage = "dispatching"
       THEN stage' = "offered" /\ UNCHANGED account
       ELSE Account(pending') /\ UNCHANGED stage
    /\ UNCHANGED <<plan, relay, got, heard, present, slot, reply, counted, bill>>

\* An adapter raises what neither the dispatch nor the generator expects.
RaiseLine(line) ==
    /\ Reading /\ call.lines < MaxLines
    /\ Effect(line) = "raise"
    /\ IF stage = "dispatching"
       THEN AttemptFails("escape")
       ELSE /\ EndStream("cut")
            /\ call' = [call EXCEPT !.source = "ended"]
            /\ UNCHANGED <<plan, wire, account>>

\* [DONE], or the provider closes the connection properly.  Without a chunk it is
\* an empty stream, which counts as success.
SourceEnds ==
    /\ Reading
    /\ call' = [call EXCEPT !.source = "ended"]
    /\ stage' = IF stage = "dispatching" THEN "offered" ELSE stage
    /\ UNCHANGED <<plan, wire, account, slot, reply, counted, bill>>

\* Variant: an interrupted stream goes on with the next candidate.
SourceBreaksFallsBack ==
    /\ Reading
    /\ call.at < Len(plan)
    /\ call' = Attempt(call.at + 1, 0)
    /\ stage' = "dispatching"
    /\ UNCHANGED <<plan, wire, account, slot, reply, counted, bill>>

\* httpx.HTTPError while reading: an attempt that failed, or an error event.
SourceBreaks ==
    /\ Reading
    /\ IF stage = "dispatching"
       THEN AttemptFails("retry")
       ELSE /\ call' = [call EXCEPT !.source = "failed"]
            /\ pending' = Plain("error")
            /\ UNCHANGED <<plan, relay, got, heard, present, account, request>>

\* After the last chunk: the disclaimer, if there is one, and [DONE].
Conclude ==
    /\ stage = "delivering" /\ pending = Nothing
    /\ IF Disclaimer
       THEN call.source \in {"ended", "disclaimed"}
       ELSE call.source = "ended"
    /\ pending' = Plain(IF Disclaimer /\ call.source = "ended" THEN "disclaimer" ELSE "DONE")
    /\ Account(pending')
    /\ call' = [call EXCEPT !.source = IF pending'.kind = "DONE" THEN "done" ELSE "disclaimed"]
    /\ UNCHANGED <<plan, relay, got, heard, present, request>>

\* After [DONE] or the error event.
FinishStream ==
    /\ stage = "delivering" /\ pending = Nothing
    /\ call.source \in {"done", "failed"}
    /\ EndStream(IF call.source = "done" THEN "streamed" ELSE "error")
    /\ UNCHANGED <<plan, call, wire, account>>

\* record_usage(): done, or Redis failed, or it was cancelled.
Settle ==
    /\ stage = "settling"
    /\ stage' = "done"
    /\ bill' \in (IF cancelled THEN {"failed"} ELSE {"recorded", "failed"})
    /\ UNCHANGED <<plan, call, wire, account, slot, reply, counted>>

-----------------------------------------------------------------------------
\* The way to the client.

\* The middleware takes what the generator has yielded, which then goes on.
HandOver ==
    /\ stage = "delivering" /\ pending # Nothing /\ relay = Nothing
    /\ relay' = pending /\ pending' = Nothing
    /\ UNCHANGED <<plan, call, got, heard, present, account, request>>

\* The event reaches the client, or nobody.
Relay ==
    /\ relay # Nothing
    /\ relay' = Nothing
    /\ got' = IF present THEN Append(got, relay) ELSE got
    /\ heard' = IF present /\ HasContent(relay) THEN Append(heard, relay) ELSE heard
    /\ UNCHANGED <<plan, call, pending, present, account, request>>

Leave ==
    /\ present
    /\ present' = FALSE
    /\ UNCHANGED <<plan, call, pending, relay, got, heard, account, request>>

\* The response is cancelled before its generator ran: no finally.
Abandon ==
    /\ stage = "offered" /\ ~present
    /\ stage' = "abandoned" /\ reply' = "cut"
    /\ UNCHANGED <<plan, call, wire, account, slot, counted, bill>>

\* ... or later.  A generator at its yield is closed by the event loop, undisturbed,
\* and what it was reading stays as it is.  In an await of its own it is cancelled, and so
\* is the next await of its finally; if it was reading, that ends what it read.
Close ==
    /\ stage = "delivering" /\ ~present
    /\ EndStream("cut")
    /\ IF pending = Nothing
       THEN /\ cancelled' \in BOOLEAN
            /\ call' = [call EXCEPT !.source = IF @ = "open" THEN "ended" ELSE @]
       ELSE /\ cancelled' = FALSE
            /\ UNCHANGED call
    /\ pending' = Nothing
    /\ UNCHANGED <<plan, relay, got, heard, present, accumulated, finish>>

\* The generator is gone, and with it the last reference to a stream it left open: the
\* event loop closes that.
CloseSource ==
    /\ stage = "done" /\ reply = "cut" /\ call.source = "open"
    /\ call' = [call EXCEPT !.source = "ended"]
    /\ UNCHANGED <<plan, wire, account, request>>

Finished ==
    /\ stage \in {"done", "raised", "abandoned"} /\ relay = Nothing /\ ~present
    /\ UNCHANGED vars

Next ==
    \/ Enter
    \/ \E answer \in Answers : Open(answer)
    \/ \E line \in Lines(plan[call.at]) : SkipLine(line) \/ ChunkLine(line) \/ RaiseLine(line)
    \/ SourceEnds \/ SourceBreaks
    \/ StartStream \/ Conclude \/ FinishStream \/ Settle
    \/ HandOver \/ Relay
    \/ Leave \/ Abandon \/ Close \/ CloseSource
    \/ Finished

Spec == Init /\ [][Next]_vars

-----------------------------------------------------------------------------
\* Every variable keeps its shape; attempts stay within their budget.
TypeOK ==
    /\ plan \in Plans
    /\ call \in [at : 1..Len(plan), attempt : 0..MaxRetries, lines : 0..MaxLines,
                 chunks : 0..MaxLines,
                 source : {"opening", "open", "ended", "disclaimed", "done", "failed"}]
    /\ stage \in {"new", "dispatching", "offered", "delivering", "settling",
                  "done", "raised", "abandoned"}
    /\ slot \in {"new", "holding", "released"}
    /\ pending \in Event /\ relay \in Event
    /\ got \in Seq(Event) /\ heard \in Seq(Event) /\ accumulated \in Seq(Event)
    /\ finish \in BOOLEAN /\ present \in BOOLEAN /\ cancelled \in BOOLEAN
    /\ reply \in {"none", "5xx", "streamed", "error", "cut"}
    /\ counted \in Nat
    /\ bill \in {"none", "recorded", "failed"}

\* "once real content has started flowing [...] a failure can only be surfaced as
\* an SSE error event, not silently retried": what the client gets are the chunks
\* of one attempt, in their order and without a gap; and before it hears of the
\* end, a proper one or an error, it has got all of them.
NoSplice ==
    LET ending == IF Disclaimer THEN <<"disclaimer", "DONE">> ELSE <<"DONE">> IN
    \E n \in 0..Len(got) :
       LET rest == [i \in 1..(Len(got) - n) |-> got[n + i].kind] IN
       /\ \A i \in 1..n : /\ got[i].kind = "chunk" /\ got[i].n = i
                         /\ got[i].at = call.at /\ got[i].attempt = call.attempt
       /\ rest = <<"error">> \/ IsPrefix(rest, ending)
       /\ rest # <<>> => n = call.chunks

\* What a client has heard is on the bill, and while it is there the bill is at
\* most two pieces ahead, the one relayed and the one to hand over; and a request
\* whose client has heard something does not end without its usage recorded or
\* the attempt to do so failed.
BillCoversDelivery ==
    /\ IsPrefix(heard, accumulated)
    /\ present => Len(accumulated) <= Len(heard) + 2
    /\ stage = "done" /\ heard # <<>> => bill # "none"

\* The generator is closed, its slot is free, and the stream of the provider still open.
Lingering == reply = "cut" /\ slot = "released" /\ call.source = "open"

\* The stream is one of Gateway's requests: whatever the provider and the client do
\* it takes its slot, gives it back, outlives it, is counted and billed as Gateway has it.
GW == INSTANCE Gateway WITH
    Req           <- {"one"},
    MaxConcurrent <- 1,
    Hanging       <- {},
    inFlight      <- IF slot = "holding" THEN 1 ELSE 0,
    heap          <- {},
    seq           <- 0,
    rank          <- [r \in {"one"} |-> 0],
    ticket        <- [r \in {"one"} |-> 0],
    status        <- [r \in {"one"} |-> slot],
    stage         <- [r \in {"one"} |-> stage],
    reply         <- [r \in {"one"} |-> reply],
    counted       <- [r \in {"one"} |-> counted],
    bill          <- [r \in {"one"} |-> bill],
    lingering     <- IF Lingering THEN {"one"} ELSE {}

ImplementsGateway == GW!GatewaySpec
=============================================================================
