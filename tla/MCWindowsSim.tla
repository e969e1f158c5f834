---------------------------- MODULE MCWindowsSim ----------------------------
(* Model-checking instance of WindowsSim with interchangeable threads.    *)
EXTENDS WindowsSim, TLC

CONSTANTS t1, t2, t3

MCThreads == {t1, t2, t3}

ThreadSymmetry == Permutations(MCThreads)
=============================================================================
