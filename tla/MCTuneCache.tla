---------------------------- MODULE MCTuneCache ----------------------------
(* TuneCache for TLC: two machines, one model. *)
EXTENDS TuneCache, TLC

Machines == {[cpu |-> "x86", cores |-> 8], [cpu |-> "arm", cores |-> 4]}
Models == {[model_id |-> "bge", quantization |-> "Q4"]}
Symmetry == Permutations(Process) \cup Permutations(Inode) \cup Permutations(Backend)
=============================================================================
