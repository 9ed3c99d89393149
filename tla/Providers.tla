----------------------------- MODULE Providers -----------------------------
(***************************************************************************)
(* app/providers/: what each adapter makes of the answers of its API, as    *)
(* pure operators.                                                          *)
(*                                                                          *)
(* An answer to the opening of a call is one of                             *)
(*   ok         200, and what the adapter expects                           *)
(*   transient  a status of RETRYABLE_STATUS_CODES                          *)
(*   rejected   another status from 400 on, a model that is not there, or   *)
(*              no API key to ask with                                      *)
(*   transport  no answer: httpx.HTTPError (timeouts included)              *)
(*   garbled    a body that does not decode to what is expected             *)
(***************************************************************************)
EXTENDS Integers

Provider == {"openai", "anthropic", "gemini", "ollama"}

Answers == {"ok", "transient", "rejected", "transport", "garbled"}

\* How call_with_retry() sees an answer that is not "ok": worth repeating, final
\* for this candidate, or none of the exceptions it knows.
Failure(answer) ==
    CASE answer \in {"transient", "transport"} -> "retry"
      [] answer = "rejected" -> "refuse"
      [] answer = "garbled" -> "escape"

-----------------------------------------------------------------------------
\* What a stream is made of.  A line is one of
\*   blank    empty, or an SSE field other than data
\*   text     a delta with content
\*   empty    a delta without (a role, a tool's input, a stop reason to come)
\*   last     a delta with content and a finish reason
\*   finish   a finish reason without content
\*   notice   an event that says nothing about the answer's text
\*   error    an error reported inside the stream
\*   garbled  not JSON
\*   odd      JSON, but not the object expected
\*   done     the [DONE] of an SSE stream
\* and an adapter makes of it nothing ("skip"), the end of the stream ("stop"), an
\* exception that is neither ProviderError nor httpx.HTTPError ("raise"), or a
\* chunk of the form of the line.
Chunks == {"text", "empty", "last", "finish"}

Lines(p) ==
    CASE p = "openai" -> {"blank", "text", "empty", "finish", "error", "garbled", "odd", "done"}
      [] p = "anthropic" -> {"blank", "text", "empty", "finish", "notice", "error", "garbled", "odd"}
      [] p = "gemini" -> {"blank", "text", "last", "empty", "finish", "notice", "error",
                          "garbled", "odd", "done"}
      [] p = "ollama" -> {"blank", "text", "empty", "last", "finish", "error", "garbled", "odd"}

\* An error object has no "choices", so it is passed over.
OpenAILine(line) ==
    CASE line \in {"blank", "error"} -> "skip"
      [] line = "done" -> "stop"
      [] line \in {"garbled", "odd"} -> "raise"
      [] OTHER -> line

\* Only content_block_delta and message_delta become chunks; an event of type
\* "error" is passed over like a ping.
AnthropicLine(line) ==
    CASE line \in {"blank", "notice", "error"} -> "skip"
      [] line \in {"garbled", "odd"} -> "raise"
      [] OTHER -> line

\* A line that is not JSON is dropped with whatever it held.
GeminiLine(line) ==
    CASE line \in {"blank", "notice", "error", "garbled"} -> "skip"
      [] line = "done" -> "stop"
      [] line = "odd" -> "raise"
      [] OTHER -> line

\* Every object is a chunk, an error one without content.
OllamaLine(line) ==
    CASE line = "blank" -> "skip"
      [] line \in {"garbled", "odd"} -> "raise"
      [] line = "error" -> "empty"
      [] OTHER -> line

Translated(p, line) ==
    CASE p = "openai" -> OpenAILine(line)
      [] p = "anthropic" -> AnthropicLine(line)
      [] p = "gemini" -> GeminiLine(line)
      [] p = "ollama" -> OllamaLine(line)

-----------------------------------------------------------------------------
\* GET /models/{id}: only the status counts, so a garbled body is a success.
HttpProbe(answer) == IF answer \in {"ok", "garbled"} THEN "success" ELSE "failure"

\* GET /api/tags: the body lists the models.  Decoding it is inside the try, but
\* only httpx.HTTPError is caught.
OllamaProbe(answer) ==
    CASE answer = "ok" -> "success"
      [] answer = "garbled" -> "raise"
      [] OTHER -> "failure"

Probe(p, answer) == IF p = "ollama" THEN OllamaProbe(answer) ELSE HttpProbe(answer)
=============================================================================
