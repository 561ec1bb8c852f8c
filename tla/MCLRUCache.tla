----------------------------- MODULE MCLRUCache -----------------------------
(* LRUCache for TLC; no symmetry, the runs check a temporal property. *)
EXTENDS LRUCache
=============================================================================
