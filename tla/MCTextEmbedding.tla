-------------------------- MODULE MCTextEmbedding --------------------------
(* Calls of one to four texts, with and without equal lengths. *)
EXTENDS TextEmbedding

MCTexts == {<<1>>, <<2, 1>>, <<1, 1, 2>>, <<1, 2, 1, 2>>}
=============================================================================
