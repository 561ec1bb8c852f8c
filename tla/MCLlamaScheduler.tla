-------------------------- MODULE MCLlamaScheduler --------------------------
(* LlamaScheduler for TLC; no symmetry, the runs check liveness. *)
EXTENDS LlamaScheduler
=============================================================================
