---------------------------- MODULE MCWakeCoord -----------------------------
(* One app with a few callers; goroutines are interchangeable.              *)
EXTENDS WakeCoord, TLC

CallerSymmetry == Permutations(Callers)

=============================================================================
