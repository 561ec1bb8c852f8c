---------------------------- MODULE MCTokenizer ----------------------------
(* Tokenizer for TLC: all texts of up to four bytes of seven classes, beside
   a short, a long and no other text, and files of both kinds. *)
EXTENDS Tokenizer

UpperCase == [c \in {"B"} |-> "b"]
LeadBytes == [c \in {"L"} |-> 2]

ShortTexts == BoundedSeq(Byte, 3)
Batches == {<<s>> : s \in BoundedSeq(Byte, 4)}
           \cup {<<s, o>> : s \in ShortTexts, o \in {<<>>, <<"a", " ", "b", ".", "a">>}}

\* Names and ids of the tokens.
Tokens == <<<<"a">>, <<"a", "b">>, <<"#", "a">>, <<"#", "b", "a">>, <<"L", "T">>, <<".">>>>
Vocab == [t \in Range(Tokens) |-> 10 + CHOOSE i \in DOMAIN Tokens : Tokens[i] = t]
BpeTokens == <<<<"a">>, <<"b">>, <<"a", "b">>, <<"a", "a">>, <<"a", "b", "a">>>>
BpeVocab == [t \in Range(BpeTokens) |-> 20 + CHOOSE i \in DOMAIN BpeTokens : BpeTokens[i] = t]

WordPieceFile ==
  [parses |-> TRUE, model |-> TRUE, type |-> "WordPiece", vocab |-> Vocab,
   unk |-> None, prefix |-> <<"#">>, merges |-> <<>>, merges_are |-> "strings",
   normalizer |-> "Bert", pad_id |-> None,
   added |-> <<[content |-> "[CLS]", token |-> <<"[", "C">>, id |-> 1],
               [content |-> "[SEP]", token |-> <<"[", "S">>, id |-> 2],
               [content |-> "<unk>", token |-> <<"[", "U">>, id |-> 3]>>]

Merges == <<<<<<"a">>, <<"b">>>>, <<<<"a">>, <<"a">>>>, <<<<"a", "b">>, <<"a">>>>,
            <<<<"L", "T">>, <<"a">>>>>>
\* Not an order of training: ab comes of b and a before it is there.
OddMerges == <<<<<<"a", "b">>, <<"a">>>>, <<<<"b">>, <<"a">>>>, <<<<"a">>, <<"b">>>>>>

BpeFile == [WordPieceFile EXCEPT !.type = "BPE", !.vocab = BpeVocab,
              !.merges = Merges, !.normalizer = "Sequence", !.pad_id = 7]

Files == {WordPieceFile, BpeFile,
          [WordPieceFile EXCEPT !.parses = FALSE],
          [WordPieceFile EXCEPT !.model = FALSE, !.normalizer = "None", !.added = <<>>],
          [BpeFile EXCEPT !.merges = OddMerges, !.normalizer = "Other", !.unk = <<"a">>],
          [BpeFile EXCEPT !.merges_are = "pairs"]}
=============================================================================
