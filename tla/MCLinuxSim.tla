----------------------------- MODULE MCLinuxSim -----------------------------
(* Model values and bounds for checking LinuxSim with TLC. *)
EXTENDS LinuxSim, TLC

CONSTANTS t1, t2, t3

MCThreads == {t1, t2, t3}
ThreadSymmetry == Permutations(MCThreads)

=============================================================================
