------------------------------ MODULE MCHealth ------------------------------
(* A small instance of Health for TLC. *)
EXTENDS Health

\* Two providers whose probes differ, and one that is not known.
MCProviderOf == [m \in Model |-> CASE m = "gpt" -> "openai"
                                   [] m = "llama" -> "ollama"
                                   [] OTHER -> "unknown"]
=============================================================================
