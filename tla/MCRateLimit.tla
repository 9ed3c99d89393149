---------------------------- MODULE MCRateLimit ----------------------------
(* Small instances of RateLimit for TLC. *)
EXTENDS RateLimit, TLC

Limit(rpm, tpm) == ("rpm" :> rpm) @@ ("tpm" :> tpm)

\* Before and after an override that gives more requests and fewer tokens.
MCLimits == {Limit(1, 3), Limit(2, 2)}

MCOneLimit == {Limit(2, 3)}

ClientSymmetry == Permutations(Client)
=============================================================================
