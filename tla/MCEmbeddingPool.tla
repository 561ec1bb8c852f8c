--------------------------- MODULE MCEmbeddingPool ---------------------------
(* EmbeddingPool for TLC; worker numbers are ordered, so no symmetry. *)
EXTENDS EmbeddingPool
=============================================================================
