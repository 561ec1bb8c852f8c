-------------------------- MODULE MCModelWrappers --------------------------
(* ModelWrappers for TLC: two documents that differ in score, terms, tokens
   and proportions, one or two of them swapped and repeated in a call, and two
   so long that the size of their resized picture wraps, below zero and above;
   a model with and one without a sequence dimension. *)
EXTENDS ModelWrappers
CONSTANTS d1, d2, d3, d4

MCVocab      == 1..2
MCScore      == (d1 :> 1) @@ (d2 :> 2) @@ (d3 :> 3) @@ (d4 :> 4)
MCActivation == (d1 :> << <<1, 0>> >>) @@ (d2 :> << <<0, 2>>, <<3, -1>> >>)
             @@ (d3 :> << <<1, 0>> >>) @@ (d4 :> << <<1, 0>> >>)
MCPadActivation == <<9, 9>>
MCPicture    == (d1 :> [w |-> 3, h |-> 7, readable |-> TRUE])
             @@ (d2 :> [w |-> 5, h |-> 2, readable |-> TRUE])
             @@ (d3 :> [w |-> 1, h |-> 7, readable |-> TRUE])
             @@ (d4 :> [w |-> 11, h |-> 1, readable |-> TRUE])
MCShapes     == {[item |-> 2, last |-> 2], [item |-> 4, last |-> 2]}
MCInfo       == [max_tokens |-> 2, dim |-> 2]
MCConfigs    == {[max_len |-> 0, dim |-> 0], [max_len |-> 1, dim |-> 2]}
MCOptions    == {[batch_size |-> 0, max_length |-> 0, dim |-> 0],
                 [batch_size |-> 1, max_length |-> 2, dim |-> 3]}
MCCalls      == {<<d1, d2>>, <<d2, d1, d1>>, <<d3>>, <<d4, d2>>, <<>>}
MCSymmetry   == Permutations(Addr) \union Permutations(Owner)
=============================================================================
