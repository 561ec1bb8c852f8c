---------------------------- MODULE MCAutoTuner ----------------------------
(***************************************************************************)
(* Two configurations per grid.  At 10 ms per text a configuration scores  *)
(* above one that failed, at 100 ms below it.                              *)
(***************************************************************************)
EXTENDS AutoTuner, TLC

Small == [workers |-> 1, max_tokens |-> 64]
Large == [workers |-> 8, max_tokens |-> 256]

MCConfig == {Small, Large}
MCConfigs == [t \in Task |-> <<Small, Large>>]

\* The processes run the same code.
MCSymmetry == Permutations(Process)
=============================================================================
