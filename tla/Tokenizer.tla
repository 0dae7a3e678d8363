------------------------------- MODULE Tokenizer -------------------------------
(***************************************************************************)
(* The tokens of a text, as the model sees them: the pipeline that follows   *)
(* the HuggingFace library (tokenizer_hf.go) and the legacy one             *)
(* (tokenizer_fast.go), both of the shipped Unigram tokenizer.json, which    *)
(* the legacy one reads as a vocabulary without normalizer, pre-tokenizer    *)
(* and scores.                                                              *)
(*                                                                         *)
(* A character, one byte long, is a value; a piece is a sequence of them     *)
(* and its own token.  The normalization map rewrites a character.  Of the   *)
(* caps on the bytes of a text and of a word only hfWordCap is kept.          *)
(***************************************************************************)
EXTENDS Integers, Sequences, FiniteSets, FiniteSetsExt, SequencesExt

CONSTANTS
  Texts,     \* the texts to tokenize
  Models,    \* the vocabularies: functions of pieces to scores
  Added,     \* added tokens: [content, lstrip, rstrip]
  Normal,    \* the charsmap: a sequence of characters for each character
  Space, Mark, \* the space and the mark Metaspace begins a word with
  MaxLen     \* the window of the model

VARIABLES
  text, scores, legacy, \* the input, the tokenizer and its pipeline
  pc, segs, words, ids, \* segments and words to encode; tokens so far
  input                 \* what the model gets

vars == <<text, scores, legacy, pc, segs, words, ids, input>>
tokenizer == <<text, scores, legacy>>

Cls == "<s>"
Sep == "</s>"
Unk == "<unk>"
Pieces == DOMAIN scores
unkScore == Min({scores[p] : p \in Pieces}) - 10

Init ==
  /\ text \in Texts /\ scores \in Models /\ legacy \in BOOLEAN
  /\ pc = "split" /\ segs = <<>> /\ words = <<>> /\ ids = <<>> /\ input = <<>>

-----------------------------------------------------------------------------
(* The added tokens, cut out of the raw text: the leftmost, then the longest. *)
MatchesAt(s, i) == {t \in Added : IsPrefix(t.content, SubSeq(s, i, Len(s)))}
matchAddedToken(s, i) ==
  CHOOSE t \in MatchesAt(s, i) :
    \A o \in MatchesAt(s, i) : Len(o.content) <= Len(t.content)

IsAdded(word) == \E t \in Added : t.content = word

TextSegment(s, from, to) ==
  IF from > to THEN <<>> ELSE <<[added |-> FALSE, chars |-> SubSeq(s, from, to)]>>

(* Mutant: the search goes on inside the token it found.                     *)
splitInside(s) ==
  LET n == Len(s)
      Rest[i \in 1 .. n + 1, emitted \in 1 .. n + 1] ==
        IF i > n THEN TextSegment(s, emitted, n)
        ELSE IF MatchesAt(s, i) = {} THEN Rest[i + 1, emitted]
        ELSE TextSegment(s, emitted, i - 1)
               \o <<[added |-> TRUE, chars |-> matchAddedToken(s, i).content]>>
               \o Rest[i + 1, i + 1]
  IN Rest[1, 1]

(* A token takes the spaces before or after it, but none already emitted.    *)
splitAddedTokens(s) ==
  LET n == Len(s)
      Rest[i \in 1 .. n + 1, emitted \in 1 .. n + 1] ==
        IF i > n THEN TextSegment(s, emitted, n)
        ELSE IF MatchesAt(s, i) = {} THEN Rest[i + 1, emitted]
        ELSE LET t == matchAddedToken(s, i)
                 over == i + Len(t.content)
                 end == IF ~t.rstrip THEN over
                        ELSE Max({k \in over .. n + 1 : \A j \in over .. k - 1 : s[j] = Space})
                 start == IF ~t.lstrip THEN i
                          ELSE Min({k \in emitted .. i : \A j \in k .. i - 1 : s[j] = Space})
             IN TextSegment(s, emitted, start - 1)
                  \o <<[added |-> TRUE, chars |-> t.content]>> \o Rest[end, end]
  IN Rest[1, 1]

normalize(s) == FoldLeft(LAMBDA out, c : out \o Normal[c], <<>>, s)

(* WhitespaceSplit, then Metaspace on each word: one mark is prefixed, and    *)
(* each mark begins a word.                                                  *)
Fields(s) ==
  LET split == FoldLeft(LAMBDA out, c : IF c = Space THEN Append(out, <<>>)
                          ELSE [out EXCEPT ![Len(out)] = Append(@, c)], <<<<>>>>, s)
  IN SelectSeq(split, LAMBDA w : w # <<>>)

apply(s) ==
  FoldLeft(LAMBDA out, c : IF c = Mark THEN Append(out, <<c>>)
                           ELSE [out EXCEPT ![Len(out)] = Append(@, c)],
           <<>>, IF s[1] = Mark THEN s ELSE <<Mark>> \o s)

preTokenizer(s) == FoldLeft(LAMBDA out, w : out \o apply(w), <<>>, Fields(s))

-----------------------------------------------------------------------------
(* Viterbi.  best[end] is the best way to reach end: its score, and where    *)
(* its last piece starts; of equals, the one that starts first.              *)
(* Mutant: the longest piece is never tried.                                 *)
ShorterPieces == Max({Len(p) : p \in Pieces}) - 1
maxPieceBytes == Max({Len(p) : p \in Pieces})

IsPiece(word, start, end) ==
  /\ end - start <= maxPieceBytes
  /\ SubSeq(word, start + 1, end) \in Pieces

Step(word, start, end) == \* what the last piece adds to a path
  IF IsPiece(word, start, end) THEN scores[SubSeq(word, start + 1, end)] ELSE unkScore

BestPath(word) ==
  LET best[end \in 0 .. Len(word)] ==
        IF end = 0 THEN [score |-> 0, start |-> 0]
        ELSE LET from == {s \in 0 .. end - 1 : s = end - 1 \/ IsPiece(word, s, end)}
                 total(s) == best[s].score + Step(word, s, end)
                 top == Max({total(s) : s \in from})
             IN [score |-> top, start |-> Min({s \in from : total(s) = top})]
  IN best

(* Runs of unknown characters fuse into one token.                           *)
encodeUnigramViterbi(word) ==
  LET best == BestPath(word)
      path[end \in 0 .. Len(word)] ==
        IF end = 0 THEN <<>>
        ELSE LET start == best[end].start
                 before == path[start] IN
             IF IsPiece(word, start, end) THEN Append(before, SubSeq(word, start + 1, end))
             ELSE IF before # <<>> /\ Last(before) = <<Unk>> THEN before
             ELSE Append(before, <<Unk>>)
  IN path[Len(word)]

(* The legacy pipeline takes the longest piece, or added token, at each place. *)
encodeUnigram(word) ==
  LET rest[pos \in 0 .. Len(word)] ==
        LET ends == {e \in pos + 1 .. Len(word) :
                      SubSeq(word, pos + 1, e) \in Pieces \/ IsAdded(SubSeq(word, pos + 1, e))} IN
        IF pos = Len(word) THEN <<>>
        ELSE IF ends = {} THEN <<<<Unk>>>> \o rest[pos + 1]
        ELSE <<SubSeq(word, pos + 1, Max(ends))>> \o rest[Max(ends)]
  IN rest[0]

-----------------------------------------------------------------------------
limit == MaxLen - 2
WordCap == MaxLen * maxPieceBytes
Cut(word, n) == SubSeq(word, 1, Min({n, Len(word)}))

TrimSpace(s) ==
  LET kept == {i \in DOMAIN s : s[i] # Space} IN
  IF kept = {} THEN <<>> ELSE SubSeq(s, Min(kept), Max(kept))

(* The legacy pipeline has one word, the text without its outer spaces.      *)
Split ==
  /\ pc = "split" /\ pc' = "encode"
  /\ IF legacy THEN words' = <<TrimSpace(text)>> /\ UNCHANGED segs
     ELSE segs' = splitAddedTokens(text) /\ UNCHANGED words
  /\ UNCHANGED <<tokenizer, ids, input>>

NextSegment ==
  /\ pc = "encode" /\ words = <<>> /\ segs # <<>> /\ Len(ids) < limit
  /\ segs' = Tail(segs)
  /\ IF Head(segs).added THEN ids' = Append(ids, Head(segs).chars) /\ UNCHANGED words
     ELSE words' = preTokenizer(normalize(Head(segs).chars)) /\ UNCHANGED ids
  /\ UNCHANGED <<tokenizer, pc, input>>

Encoded(word) ==
  IF legacy THEN IF word = <<>> THEN <<>> ELSE IF IsAdded(word) THEN <<word>> ELSE encodeUnigram(word)
  ELSE encodeUnigramViterbi(Cut(word, WordCap))

NextWord ==
  /\ pc = "encode" /\ words # <<>> /\ Len(ids) < limit
  /\ ids' = ids \o Encoded(Head(words)) /\ words' = Tail(words)
  /\ UNCHANGED <<tokenizer, pc, segs, input>>

(* Mutant: nothing is cut before the frame.                                  *)
Uncut == ids
Windowed == Cut(ids, limit)

(* The frame and the cut to the window, which the tokens leave nothing to.   *)
Frame ==
  /\ pc = "encode" /\ ((segs = <<>> /\ words = <<>>) \/ Len(ids) >= limit)
  /\ input' = Cut(<<<<Cls>>>> \o Windowed \o <<<<Sep>>>>, MaxLen) /\ pc' = "done"
  /\ UNCHANGED <<tokenizer, segs, words, ids>>

Next == Split \/ NextSegment \/ NextWord \/ Frame

TypeOK ==
  /\ pc \in {"split", "encode", "done"} /\ legacy \in BOOLEAN
  /\ \A i \in DOMAIN ids : ids[i] \in Pieces \cup {<<Unk>>} \cup {t.content : t \in Added}
  /\ Len(input) <= MaxLen

-----------------------------------------------------------------------------
(* The segmentations of a word: where it is cut.  Each part is a piece, or a  *)
(* single character that no piece covers.                                    *)
Parts(word, cuts) ==
  {p \in ({0} \cup cuts) \X (cuts \cup {Len(word)}) :
     p[1] < p[2] /\ \A c \in cuts : ~(p[1] < c /\ c < p[2])}
Known(word, p) == SubSeq(word, p[1] + 1, p[2]) \in Pieces
ScoreOf(word, cuts) ==
  MapThenSumSet(LAMBDA p : IF Known(word, p) THEN scores[SubSeq(word, p[1] + 1, p[2])] ELSE unkScore,
                Parts(word, cuts))
Segmentations(word) ==
  {cuts \in SUBSET (1 .. Len(word) - 1) :
     \A p \in Parts(word, cuts) : Known(word, p) \/ p[2] = p[1] + 1}

(* No segmentation of a word scores higher than the one that is encoded.     *)
SegmentedBest ==
  pc = "encode" /\ ~legacy /\ words # <<>> =>
    LET w == Head(words) IN
    BestPath(w)[Len(w)].score = Max({ScoreOf(w, cuts) : cuts \in Segmentations(w)})

(* The model gets the first tokens of the whole text that fit between the    *)
(* tokens that frame it, wherever the encoding stopped.                      *)
AllTokens ==
  IF legacy THEN Encoded(TrimSpace(text))
  ELSE FoldLeft(LAMBDA out, seg :
         out \o IF seg.added THEN <<seg.chars>>
                ELSE FoldLeft(LAMBDA all, w : all \o encodeUnigramViterbi(w),
                              <<>>, preTokenizer(normalize(seg.chars))),
         <<>>, splitAddedTokens(text))

FramedPrefix ==
  pc = "done" => input = <<<<Cls>>>> \o Cut(AllTokens, limit) \o <<<<Sep>>>>

(* No character of the text is lost or repeated when the added tokens are    *)
(* split out, but for spaces, and none of them is left in the text.          *)
Solid(s) == SelectSeq(s, LAMBDA c : c # Space)
SplitIsWhole ==
  pc = "split" =>
    LET parts == splitAddedTokens(text) IN
    /\ Solid(FlattenSeq([i \in DOMAIN parts |-> parts[i].chars])) = Solid(text)
    /\ \A i \in DOMAIN parts : ~parts[i].added =>
         \A j \in DOMAIN parts[i].chars : MatchesAt(parts[i].chars, j) = {}
===============================================================================
