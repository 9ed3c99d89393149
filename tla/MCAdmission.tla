---------------------------- MODULE MCAdmission ----------------------------
(* The instance of Admission that TLC checks. *)
EXTENDS Admission
=============================================================================
