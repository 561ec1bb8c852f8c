------------------------- MODULE MCLlamaSessionPool -------------------------
(* LlamaSessionPool for TLC; no symmetry, the runs check liveness. *)
EXTENDS LlamaSessionPool
=============================================================================
