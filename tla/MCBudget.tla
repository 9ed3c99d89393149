------------------------------ MODULE MCBudget ------------------------------
(* Small instances of Budget for TLC: months of three days.  The TTLs stand to *)
(* their periods as in the code: two days for a day, a month and a day for a   *)
(* month (the code's 32 days are one more than the longest month has).         *)
EXTENDS Budget, TLC

MCCap == [p \in Period |-> IF p = "daily" THEN 1 ELSE 2]
MCLength == [p \in Period |-> IF p = "daily" THEN 1 ELSE 3]
MCTTL == [p \in Period |-> IF p = "daily" THEN 2 ELSE 4]

\* The tasks differ only in their name.
TaskSymmetry == Permutations(Task)
=============================================================================
