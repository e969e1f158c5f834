--------------------------- MODULE MCKernelDevice ---------------------------
(* Model-checking instance of KernelDevice: three callers, a size below   *)
(* MIN_TRANSFER_SIZE, a valid one and one above MAX_TRANSFER_SIZE.        *)
EXTENDS KernelDevice, TLC

CONSTANTS t1, t2, t3

MCThreads == {t1, t2, t3}

ThreadSymmetry == Permutations(MCThreads)
=============================================================================
