-------------------------- MODULE MCAdminOverrides --------------------------
(* Small instances of AdminOverrides for TLC. *)
EXTENDS AdminOverrides, TLC

\* The tasks differ only in their name.
AdminSymmetry == Permutations(Admin)
=============================================================================
