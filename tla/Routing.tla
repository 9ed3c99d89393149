------------------------------- MODULE Routing -------------------------------
(***************************************************************************)
(* app/routing.py, app/providers/registry.py and build_candidates() of      *)
(* app/fallback.py: which models a team's request may be sent to, and in    *)
(* which order.  These are functions of the configuration, which never      *)
(* changes while the gateway runs.                                          *)
(***************************************************************************)
EXTENDS Integers, Sequences, FiniteSets

CONSTANTS
    Model,             \* the keys of config.models
    UnknownModel,      \* names that appear in requests or chains only
    ProviderOf,        \* ProviderOf[m]: config.models[m].provider
    FallbackChain,     \* FallbackChain[m]: config.models[m].fallback_chain
    Team,
    AllowedModels,     \* AllowedModels[t]: allowed_models
    AllowedProviders,  \* AllowedProviders[t]: allowed_providers, all when it is None
    Registered         \* the providers that have an instance in the registry

ModelName == Model \cup UnknownModel

ASSUME RoutingAssumption ==
    /\ Model \cap UnknownModel = {}
    /\ FallbackChain \in [Model -> Seq(ModelName)]
    /\ DOMAIN ProviderOf = Model
    /\ \A t \in Team : AllowedModels[t] \subseteq ModelName

\* resolve_route(): the status code of the RoutingError, or 200.
RouteStatus(t, m) ==
    IF m \notin Model THEN 404
    ELSE IF m \in AllowedModels[t] /\ ProviderOf[m] \in AllowedProviders[t] THEN 200
    ELSE 403

\* The model is a candidate: authorized, and registry.get(provider) finds one.
Usable(t, m) == RouteStatus(t, m) = 200 /\ ProviderOf[m] \in Registered

\* The chain of build_candidates(): the requested model first.
Chain(m) == <<m>> \o FallbackChain[m]

\* What the loop of build_candidates() collects if it keeps the places in kept.
Picked(chain, kept) ==
    [k \in 1..Cardinality(kept) |->
        chain[CHOOSE i \in kept : Cardinality(kept \cap (1..i)) = k]]

\* Not among the names seen before place i.
FirstSeen(chain, i) == \A j \in 1..(i - 1) : chain[j] # chain[i]

\* Variant: a fallback model is not checked against the team, as if authorizing
\* the requested model were enough.
CandidatesUnchecked(t, m) ==
    IF m \notin Model THEN <<>>
    ELSE Picked(Chain(m), {i \in 1..Len(Chain(m)) :
                              FirstSeen(Chain(m), i) /\ Chain(m)[i] \in Model})

\* build_candidates(): the requested model, then its fallback chain, without
\* repetitions and without the models the team may not or cannot use.
Candidates(t, m) ==
    IF m \notin Model THEN <<>>
    ELSE Picked(Chain(m), {i \in 1..Len(Chain(m)) :
                              FirstSeen(Chain(m), i) /\ Usable(t, Chain(m)[i])})
=============================================================================
