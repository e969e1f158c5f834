-------------------------- MODULE MCDriverLifecycle --------------------------
(* Model-checking instance of DriverLifecycle with interchangeable users. *)
EXTENDS DriverLifecycle, TLC

CONSTANTS u1, u2

MCUsers == {u1, u2}

UserSymmetry == Permutations(MCUsers)
=============================================================================
