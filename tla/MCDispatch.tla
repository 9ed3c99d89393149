----------------------------- MODULE MCDispatch -----------------------------
(***************************************************************************)
(* A small configuration for TLC: two models and a third that nobody can    *)
(* use, a chain that loops back and names an unknown model, a team that is  *)
(* restricted by provider, and a provider without an implementation.  One   *)
(* request may walk both models, the other two may use the first one only.  *)
(***************************************************************************)
EXTENDS Dispatch, TLC

CONSTANTS small, large, hidden, ghost, full, narrow, r1, r2, r3

MCModel == {small, large, hidden}
MCUnknownModel == {ghost}
MCProviderOf == (small :> "openai") @@ (large :> "ollama") @@ (hidden :> "missing")
MCFallbackChain == (small :> <<large, ghost, small, hidden>>)
                   @@ (large :> <<small>>)
                   @@ (hidden :> <<>>)
MCTeam == {full, narrow}
MCReq == {r1, r2, r3}
MCTeamOf == [r \in MCReq |-> IF r = r1 THEN full ELSE narrow]
MCAllowedModels == [t \in {full, narrow} |-> IF t = full THEN {small, large, hidden} ELSE {small, large, ghost}]
MCAllowedProviders == [t \in {full, narrow} |-> IF t = full THEN {"openai", "ollama", "missing"} ELSE {"openai"}]
MCRegistered == {"openai", "ollama"}
=============================================================================
