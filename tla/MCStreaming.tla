---------------------------- MODULE MCStreaming ----------------------------
(* A small instance of Streaming for TLC. *)
EXTENDS Streaming

\* Every provider, first and second in line.
MCPlans == {<<"openai", "gemini">>, <<"gemini", "ollama">>,
            <<"ollama", "anthropic">>, <<"anthropic", "openai">>}
=============================================================================
