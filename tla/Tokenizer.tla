----------------------------- MODULE Tokenizer -----------------------------
(***************************************************************************)
(* TokenizerWrapper (detail/tokenizer_impl.hpp), the tokenizer of every    *)
(* ONNX model: load_from_blob reads a tokenizer.json, encode_batch turns   *)
(* texts into rows of token ids of one length.                             *)
(*                                                                         *)
(* A text is a sequence of bytes, a byte a member of one of the classes    *)
(* basic_tokenize tells apart; a token is the bytes of its name.  A pair   *)
(* of bpe_merges_ is the pair of its halves, which the code joins with a   *)
(* space no symbol contains.                                               *)
(***************************************************************************)
EXTENDS Integers, Sequences, SequencesExt, FiniteSetsExt

CONSTANTS
  Letter,       \* ASCII that is neither space, control nor punctuation
  Upper,        \* the upper-case ones: [letter -> its lower-case form]
  Space, Punctuation,
  Lead,         \* lead bytes: [byte -> length of its character, 2..4]
  Trail,        \* every other byte from 0x80: continuation bytes
  File,         \* the tokenizer.json files there are
  MaxLength,    \* the max_length arguments, at least 1 in every caller
  Batch,        \* the batches of texts to encode
  None

Byte == Letter \cup Space \cup Punctuation \cup DOMAIN Lead \cup Trail

\* The classes are disjoint, and lower-casing a letter gives a letter.
ASSUME BytesAssumption ==
  /\ Upper \in [DOMAIN Upper -> Letter] /\ DOMAIN Upper \subseteq Letter
  /\ \A c \in DOMAIN Lead : Lead[c] \in 2..4
  /\ Letter \cap (Space \cup Punctuation \cup DOMAIN Lead \cup Trail) = {}
  /\ Space \cap (Punctuation \cup DOMAIN Lead \cup Trail) = {}
  /\ Punctuation \cap (DOMAIN Lead \cup Trail) = {}
  /\ DOMAIN Lead \cap Trail = {}
  /\ MaxLength \subseteq Nat \ {0}
  /\ Batch \subseteq Seq(Seq(Byte))
ASSUME MergesAssumption == \A f \in File : f.merges \in Seq(Seq(Byte) \X Seq(Byte))
ASSUME NoneAssumption == None \notin Nat

VARIABLES
  tok,   \* the TokenizerWrapper, or None when load_from_blob threw
  texts, \* the texts of the last call of encode_batch
  out    \* the EncodingBatch it returned, or None

vars == <<tok, texts, out>>

-----------------------------------------------------------------------------
to_lower_ascii(s) == [i \in DOMAIN s |-> IF s[i] \in DOMAIN Upper THEN Upper[s[i]] ELSE s[i]]

\* How many bytes the character at a lead byte claims; a continuation byte
\* that follows no lead byte counts as a character.
CharBytes(c) == IF c \in DOMAIN Lead THEN Lead[c] ELSE 1

\* The end of the character at i, cut off by the end of the text.
CharEnd(s, i) == LET e == i + CharBytes(s[i]) - 1 IN IF e <= Len(s) THEN e ELSE Len(s)

\* Mutant: punctuation ends no word.
basic_tokenize_glued(text) ==
  LET words[at \in (1..Len(text) + 1) \X (1..Len(text) + 1)] ==
        LET i == at[1]
            start == at[2]
            current == IF start < i THEN <<SubSeq(text, start, i - 1)>> ELSE <<>>
            e == CharEnd(text, i)
        IN  IF i > Len(text) THEN current
            ELSE IF text[i] \in Space THEN current \o words[<<i + 1, i + 1>>]
            ELSE IF text[i] \in Letter \cup Punctuation THEN words[<<i + 1, start>>]
            ELSE current \o <<SubSeq(text, i, e)>> \o words[<<e + 1, e + 1>>]
  IN  words[<<1, 1>>]

\* basic_tokenize: words[<<i, start>>] are those from i on, when the word being
\* collected began at start.
basic_tokenize(text) ==
  LET words[at \in (1..Len(text) + 1) \X (1..Len(text) + 1)] ==
        LET i == at[1]
            start == at[2]
            current == IF start < i THEN <<SubSeq(text, start, i - 1)>> ELSE <<>>
            e == CharEnd(text, i)
        IN  IF i > Len(text) THEN current
            ELSE IF text[i] \in Space THEN current \o words[<<i + 1, i + 1>>]
            ELSE IF text[i] \in Letter THEN words[<<i + 1, start>>]
            ELSE current \o <<SubSeq(text, i, e)>> \o words[<<e + 1, e + 1>>]
  IN  words[<<1, 1>>]

-----------------------------------------------------------------------------
\* The constructor's values.
TokenizerWrapper(max_length) ==
  [max_length |-> max_length, pad |-> 0, cls |-> 101, sep |-> 102, unk |-> 100,
   bpe |-> FALSE, lower |-> TRUE, vocab |-> <<>>, prefix |-> <<>>, merges |-> <<>>]

\* The normalizer: none, by its type, or a Sequence of types.  A Sequence
\* without Lowercase leaves the constructor's value, TRUE.
LowerCase(normalizer) ==
  normalizer \in {"Bert", "Lowercase", "Untyped", "Sequence", "SequenceLowercase"}

\* The id that added_tokens gives to one of two names; the last one counts.
AddedId(added, names, default) ==
  LET at == {i \in 1..Len(added) : added[i].content \in names}
  IN  IF at = {} THEN default ELSE added[Max(at)].id

\* The tokens added_tokens puts into the vocabulary, over the model's.
AddedVocab(added) ==
  [t \in {added[i].token : i \in 1..Len(added)} |->
     added[Max({i \in 1..Len(added) : added[i].token = t})].id]

Over(f, g) == [x \in DOMAIN f \cup DOMAIN g |-> IF x \in DOMAIN f THEN f[x] ELSE g[x]]

\* load_from_blob on a new wrapper; a file that does not parse throws.  Only
\* merges written as strings are read, and only for a BPE model.
load_from_blob(file, max_length) ==
  LET new == TokenizerWrapper(max_length)
      vocab == IF file.model THEN file.vocab ELSE <<>>
      unk == IF file.model /\ file.unk \in DOMAIN vocab THEN vocab[file.unk] ELSE new.unk
      pad == AddedId(file.added, {"[PAD]", "<pad>"}, new.pad)
  IN  IF ~file.parses THEN None
      ELSE [new EXCEPT
              !.bpe = file.model /\ file.type = "BPE",
              !.vocab = Over(AddedVocab(file.added), vocab),
              !.merges = IF file.model /\ file.type = "BPE" /\ file.merges_are = "strings"
                           THEN file.merges ELSE <<>>,
              !.prefix = IF file.model THEN file.prefix ELSE <<>>,
              !.lower = LowerCase(file.normalizer),
              !.cls = AddedId(file.added, {"[CLS]", "<s>"}, @),
              !.sep = AddedId(file.added, {"[SEP]", "</s>"}, @),
              !.unk = AddedId(file.added, {"[UNK]", "<unk>"}, unk),
              !.pad = IF file.pad_id # None THEN file.pad_id ELSE pad]

-----------------------------------------------------------------------------
\* wp_scratch_: a piece that does not begin the word carries the prefix.
Piece(t, word, start, end) ==
  IF start > 1 THEN t.prefix \o SubSeq(word, start, end) ELSE SubSeq(word, start, end)

\* Mutant: the shortest piece is taken.
PieceEndShortest(ends) == Min(ends)

PieceEnd(ends) == Max(ends)

\* Where a piece that begins at start may end.
PieceEnds(t, word, start) ==
  {e \in start..Len(word) : Piece(t, word, start, e) \in DOMAIN t.vocab}

\* wordpiece_tokenize: the longest piece first.  Where no piece fits, a word of
\* which nothing was found is [UNK]; of any other the rest is dropped, where the
\* comment says [UNK].
wordpiece_tokenize(t, word) ==
  LET pieces[start \in 1..Len(word) + 1] ==
        LET ends == PieceEnds(t, word, start)
            end == PieceEnd(ends)
        IN  IF start > Len(word) THEN <<>>
            ELSE IF ends = {} THEN IF start = 1 THEN <<t.unk>> ELSE <<>>
            ELSE <<t.vocab[Piece(t, word, start, end)]>> \o pieces[end + 1]
  IN  pieces[1]

\* The characters of a word.
Symbols(word) ==
  LET from[i \in 1..Len(word) + 1] ==
        IF i > Len(word) THEN <<>>
        ELSE <<SubSeq(word, i, CharEnd(word, i))>> \o from[CharEnd(word, i) + 1]
  IN  from[1]

\* bpe_ranks_: a pair that occurs twice has the rank of the last one.
Rank(t, pair) ==
  LET at == {r \in 1..Len(t.merges) : t.merges[r] = pair}
  IN  IF at = {} THEN None ELSE Max(at)

Mergeable(t, symbols) ==
  {i \in 1..Len(symbols) - 1 : Rank(t, <<symbols[i], symbols[i + 1]>>) # None}

\* Mutant: the first pair that can be merged is.
BestFirst(t, symbols) == Min(Mergeable(t, symbols))

\* The leftmost of the pairs of the lowest rank.
Best(t, symbols) ==
  LET rank(i) == Rank(t, <<symbols[i], symbols[i + 1]>>)
      lowest == Min({rank(i) : i \in Mergeable(t, symbols)})
  IN  Min({i \in Mergeable(t, symbols) : rank(i) = lowest})

MergedAt(symbols, i) ==
  SubSeq(symbols, 1, i - 1) \o <<symbols[i] \o symbols[i + 1]>>
    \o SubSeq(symbols, i + 2, Len(symbols))

\* One round of the loop.
MergeBest(t, symbols) ==
  IF Mergeable(t, symbols) = {} THEN symbols ELSE MergedAt(symbols, Best(t, symbols))

\* The loop ends after at most Len(symbols) - 1 merges.
Merged(t, symbols) ==
  LET after[n \in 0..Len(symbols)] ==
        IF n = 0 THEN symbols ELSE MergeBest(t, after[n - 1])
  IN  after[Len(symbols)]

bpe_tokenize(t, word) ==
  LET symbols == Merged(t, Symbols(word))
  IN  [i \in DOMAIN symbols |->
         IF symbols[i] \in DOMAIN t.vocab THEN t.vocab[symbols[i]] ELSE t.unk]

-----------------------------------------------------------------------------
WordIds(t, word) == IF t.bpe THEN bpe_tokenize(t, word) ELSE wordpiece_tokenize(t, word)

Processed(t, text) == IF t.lower THEN to_lower_ascii(text) ELSE text

\* The ids before truncation; add_special_tokens_ is never FALSE.
AllIds(t, text) ==
  LET words == basic_tokenize(Processed(t, text))
  IN  <<t.cls>> \o FlattenSeq([i \in DOMAIN words |-> WordIds(t, words[i])]) \o <<t.sep>>

\* Mutant: the end of a long text is cut off and that is all.
TruncatedOnly(t, ids) == SubSeq(ids, 1, t.max_length)

\* resize, then [SEP] over the last id: of one id, [CLS] is lost.
Truncated(t, ids) == Append(SubSeq(ids, 1, t.max_length - 1), t.sep)

encode_single(t, text) ==
  LET ids == AllIds(t, text)
  IN  IF Len(ids) > t.max_length THEN Truncated(t, ids) ELSE ids

\* Mutant: the batch is as long as its first text.
SeqLengthOfFirst(rows) == Len(rows[1])

\* seq_length: every row is at most max_length long already.
SeqLength(rows) == Max({Len(rows[i]) : i \in DOMAIN rows})

encode_batch(t, batch) ==
  LET rows == [i \in DOMAIN batch |-> encode_single(t, batch[i])]
      seq_length == SeqLength(rows)
      real(i, j) == j <= Len(rows[i])
  IN  [seq_length |-> seq_length,
       input_ids |-> [i \in DOMAIN batch |->
         [j \in 1..seq_length |-> IF real(i, j) THEN rows[i][j] ELSE t.pad]],
       attention_mask |-> [i \in DOMAIN batch |->
         [j \in 1..seq_length |-> IF real(i, j) THEN 1 ELSE 0]]]

Init ==
  /\ tok \in {load_from_blob(f, n) : f \in File, n \in MaxLength}
  /\ texts = <<>>
  /\ out = None

\* The method is const and clears its scratch strings before every use: one
\* call shows them all.
EncodeBatch(batch) ==
  /\ tok # None
  /\ out = None
  /\ texts' = batch
  /\ out' = encode_batch(tok, batch)
  /\ UNCHANGED tok

Next == \E batch \in Batch : EncodeBatch(batch)

Spec == Init /\ [][Next]_vars

-----------------------------------------------------------------------------
(***************************************************************************)
(* Reference definitions, by positions in the text instead of by a scan.   *)
(***************************************************************************)
Follows(c) == IF c \in Letter THEN Letter ELSE IF c \in DOMAIN Lead THEN Trail ELSE {}

\* UTF-8: every lead byte is followed by its continuation bytes, and those
\* follow nothing else.
WellFormed(s) ==
  \A i \in DOMAIN s :
    /\ s[i] \in DOMAIN Lead =>
         /\ i + Lead[s[i]] - 1 <= Len(s)
         /\ \A j \in i + 1..Len(s) : (s[j] \in Trail) = (j < i + Lead[s[i]]) \/ j > i + Lead[s[i]]
    /\ s[i] \in Trail => i > 1 /\ s[i - 1] \in Trail \cup DOMAIN Lead

Starts(s) ==
  {i \in DOMAIN s : /\ s[i] \notin Space
                    /\ i > 1 => s[i] \notin Follows(s[i - 1])
                    /\ s[i] \notin Trail}

RunFrom(s, i) ==
  SubSeq(s, i, Max({e \in i..Len(s) : \A j \in i + 1..e : s[j] \in Follows(s[i])}))

\* Places in increasing order, all those of a set.
Lists(places, S) ==
  /\ Range(places) = S
  /\ \A k, l \in DOMAIN places : k < l => places[k] < places[l]

ReferenceWords(s, words) ==
  \E starts \in [DOMAIN words -> Starts(s)] :
    /\ Lists(starts, Starts(s))
    /\ \A k \in DOMAIN words : words[k] = RunFrom(s, starts[k])

\* Where the pieces of a word may end, greedily: every piece is in the
\* vocabulary, none could be longer, and none fits behind the last.
First(ends, n) == IF n = 1 THEN 1 ELSE ends[n - 1] + 1

Known(t, word, i, e) == Piece(t, word, i, e) \in DOMAIN t.vocab

Greedy(t, word, ends) ==
  LET rest == First(ends, Len(ends) + 1)
  IN  /\ \A n \in DOMAIN ends :
           /\ ends[n] \in First(ends, n)..Len(word)
           /\ Known(t, word, First(ends, n), ends[n])
           /\ \A longer \in ends[n] + 1..Len(word) : ~Known(t, word, First(ends, n), longer)
      /\ \A e \in rest..Len(word) : ~Known(t, word, rest, e)

Segmentations(t, word) == {ends \in SeqOf(DOMAIN word, Len(word)) : Greedy(t, word, ends)}

\* Every merge in the order of the file, wherever it applies, from the left.
MergeAll(symbols, pair) ==
  LET from[i \in 1..Len(symbols) + 1] ==
        IF i > Len(symbols) THEN <<>>
        ELSE IF i < Len(symbols) /\ pair = <<symbols[i], symbols[i + 1]>>
          THEN <<pair[1] \o pair[2]>> \o from[i + 2]
          ELSE <<symbols[i]>> \o from[i + 1]
  IN  from[1]

InFileOrder(t, word) ==
  LET after[r \in 0..Len(t.merges)] ==
        IF r = 0 THEN Symbols(word) ELSE MergeAll(after[r - 1], t.merges[r])
  IN  after[Len(t.merges)]

\* Merges as a training run writes them: each joins characters or what earlier
\* merges made, and none occurs twice.
Trained(t) ==
  /\ \A r \in DOMAIN t.merges : \A half \in {1, 2} :
       LET h == t.merges[r][half]
       IN  Len(Symbols(h)) = 1 \/ \E q \in 1..r - 1 : h = t.merges[q][1] \o t.merges[q][2]
  /\ \A q, r \in DOMAIN t.merges :
       t.merges[q][1] \o t.merges[q][2] = t.merges[r][1] \o t.merges[r][2] => q = r

Rows == IF out = None THEN {} ELSE DOMAIN texts
RowIds(i) == SelectInSeq(out.attention_mask[i], LAMBDA b : b = 0)
Ids(i) == SubSeq(out.input_ids[i], 1,
                 IF RowIds(i) = 0 THEN out.seq_length ELSE RowIds(i) - 1)

\* The pieces are the word, or the word begins with them and goes on otherwise.
Whole(word, ends) == ends # <<>> /\ ends[Len(ends)] = Len(word)
PartlyKnown(word, ends) == ends # <<>> /\ ends[Len(ends)] # Len(word)

\* The ids of a word. WordPiece: it has one greedy segmentation, its pieces if
\* they are the word, and [UNK] for the entire word if none begins it. The
\* comment in wordpiece_tokenize (:380) and BERT want [UNK] for a partly known
\* word too, where the code keeps the pieces and drops the rest of the word:
\* there the code differs from the reference, and nothing is claimed of its ids.
\* BPE: the search for the best pair leaves nothing to merge and gives what the
\* merges give in the order of the file.
WordAsReference(t, word, ids) ==
  IF t.bpe
    THEN LET merged == Merged(t, Symbols(word))
         IN  /\ Mergeable(t, merged) = {}
             /\ FlattenSeq(merged) = word
             /\ Trained(t) => merged = InFileOrder(t, word)
    ELSE \E ends \in Segmentations(t, word) :
           /\ Segmentations(t, word) = {ends}
           /\ ~PartlyKnown(word, ends) =>
                ids = IF Whole(word, ends)
                        THEN [n \in DOMAIN ends |-> t.vocab[Piece(t, word, First(ends, n), ends[n])]]
                        ELSE <<t.unk>>

\* The words of a text are its runs of letters, its punctuation marks and its
\* multi-byte characters, nothing lost but spaces and nothing glued together,
\* and each is encoded as the reference definitions say, but for WordPiece
\* words of which only the beginning is in the vocabulary.
EncodedAsReference ==
  \A i \in Rows :
    LET words == basic_tokenize(Processed(tok, texts[i])) IN
    /\ WellFormed(texts[i]) => ReferenceWords(Processed(tok, texts[i]), words)
    /\ \A k \in DOMAIN words : WordAsReference(tok, words[k], WordIds(tok, words[k]))

\* Every row ends in [SEP] and begins with [CLS] if it has room for both; what
\* is between them is a prefix of what the text encodes to without a limit,
\* cut only where the row is full.
Framed ==
  \A i \in Rows :
    LET ids == Ids(i)
        n == Len(ids)
        all == AllIds(tok, texts[i])
    IN  /\ n \in 1..tok.max_length
        /\ ids[n] = tok.sep
        /\ IsPrefix(SubSeq(ids, 1, n - 1), all)
        /\ n < Len(all) => n = tok.max_length

\* A text is encoded the same whatever is in the batch with it; the mask marks
\* exactly its ids, the rest is padding, and no column is padding throughout.
RowsStandAlone ==
  /\ \A i \in Rows :
       /\ Ids(i) = encode_batch(tok, <<texts[i]>>).input_ids[1]
       /\ \A j \in Len(Ids(i)) + 1..out.seq_length :
            out.input_ids[i][j] = tok.pad /\ out.attention_mask[i][j] = 0
  /\ Rows # {} => \E i \in Rows : Len(Ids(i)) = out.seq_length
=============================================================================
