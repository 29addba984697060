------------------------------ MODULE Analyzer ------------------------------
(***************************************************************************)
(* The analyzer facade CMA_ME_Analyzer (CMA_ME_Analyzer.cc) and the        *)
(* Sentence it fills (sentence.cpp): the options, setKnowledge, and        *)
(* runWithSentence with its N-best deduplication, stop-word filtering and  *)
(* score normalisation; runWithString; runWithStream.                      *)
(*                                                                         *)
(* The segmentation and POS taggers are not in the repository: what an     *)
(* analysis strategy returns is a nondeterministic choice among the        *)
(* segmentations of the sentence's characters, with scores from Scores and *)
(* POS tags from POSTags (AnalysisResults).  A sentence is a string of     *)
(* characters, possibly preceded by a UTF-8 byte-order mark.  A score is a *)
(* fraction [num, den]; den = 0 stands for the infinite or NaN double a    *)
(* division by zero gives.  "failed" records an out-of-range vector read   *)
(* or a null tagger dereference, after which the program is undefined.     *)
(***************************************************************************)
EXTENDS Integers, Sequences, SequencesExt

CONSTANTS
    Chars,        \* the characters of the model
    SpaceChar,    \* the space character, a member of Chars
    StopWords,    \* the words of the stop-word dictionary
    POSTags,      \* the POS tags the tagger may assign
    Scores,       \* the path scores the segmentation tagger may return
    Knowledges,   \* the knowledge objects: does each have a POS model?
    NoKnowledge,  \* knowledge_ before setKnowledge (a null pointer)
    NoPOS,        \* posCode_ = -1: no POS produced
    Sentences,    \* the sentence strings the client may pass
    NBestValues,  \* the values a client may pass for OPTION_TYPE_NBEST
    NewLine,      \* the '\n' byte of an input file
    Streams,      \* the input files runWithStream may be given
    MaxRuns       \* bound on the runs over one Sentence

ASSUME Knowledges \subseteq BOOLEAN

VARIABLES
    nbest,        \* options_[OPTION_TYPE_NBEST]
    posOpt,       \* options_[OPTION_TYPE_POS_TAGGING] > 0
    atype,        \* the strategy the member pointer "analysis" names
    knowledge,    \* knowledge_: NoKnowledge, or whether it supports POS
    sentence,     \* the Sentence: raw string, candidates_, scores_, runs
    strBuf,       \* strBuf_, the result of runWithString (its words)
    stream,       \* the input file of the last runWithStream and the lines it wrote
    failed        \* undefined behaviour has happened

vars == <<nbest, posOpt, atype, knowledge, sentence, strBuf, stream, failed>>

\* Values of OPTION_ANALYSIS_TYPE and the strategy each selects.
AnalysisTypes == 0..3
Strategy(v) == CASE v = 2 -> "fmm"
                 [] v = 3 -> "fmincover"
                 [] OTHER -> "mmmodel"

-----------------------------------------------------------------------------
(* The strategies, abstracted to what they may return *)

\* strlen(sentence) = 0.
IsEmptyString(s) == ~s.bom /\ s.chars = <<>>

\* extractCharacter: the characters after a skipped UTF-8 BOM.
ExtractCharacter(s) == s.chars

\* The words when the characters are cut before each index in cuts.
RECURSIVE Cutting(_, _)
Cutting(cs, cuts) ==
    IF cuts = {} THEN <<cs>>
    ELSE LET c == CHOOSE x \in cuts : \A y \in cuts : x <= y
         IN  <<SubSeq(cs, 1, c - 1)>> \o
             Cutting(SubSeq(cs, c, Len(cs)), {x - (c - 1) : x \in cuts \ {c}})

\* The word lists a strategy may produce: a segmentation of the characters
\* with the single-space words removed (combineRetWithTrie and the
\* isSpace filter of analysis_mmmodel both drop them).
Segmentations(cs) ==
    {SelectSeq(Cutting(cs, cuts), LAMBDA w : w # <<SpaceChar>>) :
        cuts \in SUBSET (2..Len(cs))}

\* One candidate: words, score, and POS tags if tagging is on.
Candidates(cs, score, tagPOS) ==
    UNION {{[words |-> ws, score |-> sc, tags |-> ts] :
               ts \in IF tagPOS THEN [1..Len(ws) -> POSTags] ELSE {<<>>}} :
           ws \in Segmentations(cs), sc \in score}

\* seg_sentence returns its paths best first (spec.md 4.5, top-N search).
IsBestFirst(f) == \A j, k \in DOMAIN f : j < k => f[j].score >= f[k].score

\* The strategies dereference the POS tagger knowledge_ lacks when POS
\* output is on and there are characters to tag.
TaggerMissing(s, tagPOS) == ExtractCharacter(s) # <<>> /\ tagPOS /\ ~knowledge

\* analysis_mmmodel: nothing when there are no characters; for N = 1 the
\* one path of seg_sentence_best, whose score stays 0; otherwise the up to N
\* paths of seg_sentence, best first, with the tagger's scores.
MMModelResults(cs, N, tagPOS) ==
    IF cs = <<>> THEN {<<>>}
    ELSE IF N = 1 THEN {<<c>> : c \in Candidates(cs, {0}, tagPOS)}
    ELSE {f \in UNION {[1..k -> Candidates(cs, Scores, tagPOS)] : k \in 1..N} :
            IsBestFirst(f)}

\* analysis_fmm: nothing when there are no characters; otherwise the one
\* merge of the characters with the trie, of score 1, N ignored.  Each tag
\* is the first of the word's posVec_ set or defaultPOS (a member of POSTags).
FMMResults(cs, tagPOS) ==
    IF cs = <<>> THEN {<<>>} ELSE {<<c>> : c \in Candidates(cs, {1}, tagPOS)}

\* analysis_fmincover: nothing when there are no characters; otherwise
\* segment.resize(1) with score 1 and the minimum cover parseFMinCoverString
\* makes of the characters (spec.md 4.8), tagged as in analysis_fmm.
FMinCoverResults(cs, tagPOS) ==
    IF cs = <<>> THEN {<<>>} ELSE {<<c>> : c \in Candidates(cs, {1}, tagPOS)}

\* What (this->*analysis)(sentence, N, pos, segment, printPOS) may leave in
\* segment and pos when it does not crash: the strategy setOption chose.
AnalysisResults(s, N, tagPOS) ==
    LET cs == ExtractCharacter(s) IN
    CASE Strategy(atype) = "fmm"       -> FMMResults(cs, tagPOS)
      [] Strategy(atype) = "fmincover" -> FMinCoverResults(cs, tagPOS)
      [] OTHER                         -> MMModelResults(cs, N, tagPOS)

-----------------------------------------------------------------------------
(* runWithSentence *)

\* knowledge_->isStopWord(word): the word is in stopWords_.
IsStopWord(w) == w \in StopWords

\* The MorphemeList of one candidate: stop words are skipped, posCode_
\* stays -1 unless POS tagging is on.
MorphemeList(c, printPOS) ==
    LET keep == SelectSeq([j \in 1..Len(c.words) |-> j],
                          LAMBDA j : ~IsStopWord(c.words[j]))
    IN  [k \in 1..Len(keep) |->
            [lexicon |-> c.words[keep[k]],
             posCode |-> IF printPOS THEN c.tags[keep[k]] ELSE NoPOS]]

\* isSameMorphemeList: same length and lexicons, and POS codes too when
\* POS output is on.
IsSameMorphemeList(l1, l2, printPOS) ==
    /\ Len(l1) = Len(l2)
    /\ \A k \in 1..Len(l1) :
          /\ l1[k].lexicon = l2[k].lexicon
          /\ printPOS => l1[k].posCode = l2[k].posCode

\* Mutant: the listOffset loop stops before list 0.
IsDuplicateSkipFirst(cands, l, printPOS) ==
    \E o \in 2..Len(cands) : IsSameMorphemeList(cands[o], l, printPOS)

\* The scan over the lists already in the sentence (listOffset loop).
IsDuplicate(cands, l, printPOS) ==
    \E o \in 1..Len(cands) : IsSameMorphemeList(cands[o], l, printPOS)

\* Sentence::addList: candidates_ and scores_ grow together.
AddList(st, l, score) ==
    [st EXCEPT !.cands = Append(st.cands, l), !.scores = Append(st.scores, score)]

\* The N-best loop: add every non-duplicate list with its score and sum
\* the added scores into totalScore.
RECURSIVE AddCandidates(_, _, _, _)
AddCandidates(st, segs, k, printPOS) ==
    IF k > Len(segs) THEN st
    ELSE LET l == MorphemeList(segs[k], printPOS) IN
         IF IsDuplicate(st.cands, l, printPOS)
         THEN AddCandidates(st, segs, k + 1, printPOS)
         ELSE AddCandidates(
                [AddList(st, l, [num |-> segs[k].score, den |-> 1])
                    EXCEPT !.total = st.total + segs[k].score],
                segs, k + 1, printPOS)

\* Mutant: the normalisation loop starts at j = 1.
NormaliseFromSecond(scores, total) ==
    [j \in DOMAIN scores |->
        IF j = 1 THEN scores[j]
        ELSE [num |-> scores[j].num, den |-> scores[j].den * total]]

\* Mutant: the division's operands swapped.
NormaliseInverted(scores, total) ==
    [j \in DOMAIN scores |-> [num |-> scores[j].den * total, den |-> scores[j].num]]

\* sentence.setScore(j, sentence.getScore(j) / totalScore) for every j.
Normalise(scores, total) ==
    [j \in DOMAIN scores |-> [num |-> scores[j].num, den |-> scores[j].den * total]]

\* The N <= 1 branch reads segment[0], out of range when it is empty.
RunCrashes(segs, N) == N <= 1 /\ segs = <<>>

\* The whole of runWithSentence after the strategy, for one of its results.
RunResult(s, segs, N, printPOS) ==
    IF N <= 1 THEN
        [s EXCEPT !.cands  = Append(@, MorphemeList(segs[1], printPOS)),
                  !.scores = Append(@, [num |-> 1, den |-> 1])]
    ELSE LET r == AddCandidates([cands |-> s.cands, scores |-> s.scores, total |-> 0],
                                segs, 1, printPOS)
         IN  [s EXCEPT !.cands = r.cands, !.scores = Normalise(r.scores, r.total)]

RunWithSentence ==
    /\ ~failed
    /\ knowledge # NoKnowledge
    /\ sentence.runs < MaxRuns
    /\ \/ /\ IsEmptyString(sentence.raw)
          /\ sentence' = [sentence EXCEPT !.runs = @ + 1]
          /\ UNCHANGED failed
       \/ /\ ~IsEmptyString(sentence.raw)
          /\ TaggerMissing(sentence.raw, posOpt)
          /\ failed' = TRUE
          /\ UNCHANGED sentence
       \/ /\ ~IsEmptyString(sentence.raw)
          /\ ~TaggerMissing(sentence.raw, posOpt)
          /\ \E segs \in AnalysisResults(sentence.raw, nbest, posOpt) :
                IF RunCrashes(segs, nbest)
                THEN /\ failed' = TRUE
                     /\ UNCHANGED sentence
                ELSE /\ sentence' = [RunResult(sentence, segs, nbest, posOpt)
                                        EXCEPT !.runs = @ + 1]
                     /\ UNCHANGED failed
    /\ UNCHANGED <<nbest, posOpt, atype, knowledge, strBuf, stream>>

\* runWithString: strBuf_ is cleared, then filled with the one-best words
\* without stop words (the delimiters are layout and left out).  Both
\* branches read the first segment, out of range when there is none.
RunWithString(s) ==
    /\ ~failed
    /\ knowledge # NoKnowledge
    /\ \/ /\ IsEmptyString(s)
          /\ strBuf' = <<>>
          /\ UNCHANGED failed
       \/ /\ ~IsEmptyString(s)
          /\ TaggerMissing(s, posOpt)
          /\ failed' = TRUE
          /\ UNCHANGED strBuf
       \/ /\ ~IsEmptyString(s)
          /\ ~TaggerMissing(s, posOpt)
          /\ \E segs \in AnalysisResults(s, 1, posOpt) :
                IF segs = <<>>
                THEN /\ failed' = TRUE
                     /\ UNCHANGED strBuf
                ELSE LET l == MorphemeList(segs[1], FALSE)
                     IN  /\ strBuf' = [k \in DOMAIN l |-> l[k].lexicon]
                         /\ UNCHANGED failed
    /\ UNCHANGED <<nbest, posOpt, atype, knowledge, sentence, stream>>

\* getline on what is left of the file: the bytes up to the next '\n',
\* which is consumed; eof is set when the end came first.
Getline(rest) ==
    LET nl == SelectInSeq(rest, LAMBDA c : c = NewLine)
    IN  IF nl = 0 THEN [line |-> rest, rest |-> <<>>, eof |-> TRUE]
        ELSE [line |-> SubSeq(rest, 1, nl - 1), rest |-> SubSeq(rest, nl + 1, Len(rest)),
              eof |-> FALSE]

\* The one-best words runWithStream writes: stop words are skipped.
BestWords(c) == SelectSeq(c.words, LAMBDA w : ~IsStopWord(w))

\* Mutant: an empty line always writes endl, the last one included.
EmptyLineOutUnguarded(remains) == [words |-> <<>>, endl |-> TRUE]

\* What an empty line writes: endl unless it was the last.
EmptyLineOut(remains) == [words |-> <<>>, endl |-> remains]

\* The while(remains) loop of runWithStream from the bytes not yet read:
\* the set of [out, ub] it may produce, out holding one [words, endl] per
\* line written (the delimiters are layout and left out).  Only the first
\* line carries the file's BOM.  A non-empty line is analysed with N = 1;
\* segment[0] (and pos[0]) are read whatever the strategy returned.
RECURSIVE StreamLoop(_, _, _)
StreamLoop(rest, bom, printPOS) ==
    LET g       == Getline(rest)
        line    == [bom |-> bom, chars |-> g.line]
        remains == ~g.eof
        Then(o) == IF remains
                   THEN {[out |-> <<o>> \o r.out, ub |-> r.ub] :
                            r \in StreamLoop(g.rest, FALSE, printPOS)}
                   ELSE {[out |-> <<o>>, ub |-> FALSE]}
    IN
    IF IsEmptyString(line) THEN
        LET o == EmptyLineOut(remains)
        IN  IF o.endl THEN Then(o) ELSE {[out |-> <<>>, ub |-> FALSE]}
    ELSE IF TaggerMissing(line, printPOS) THEN {[out |-> <<>>, ub |-> TRUE]}
    ELSE UNION {IF segs = <<>> THEN {[out |-> <<>>, ub |-> TRUE]}
                ELSE Then([words |-> BestWords(segs[1]), endl |-> remains]) :
                segs \in AnalysisResults(line, 1, printPOS)}

\* runWithStream(in, out): the output file holds what the loop wrote.
RunWithStream(f) ==
    /\ ~failed
    /\ knowledge # NoKnowledge
    /\ \E r \in StreamLoop(f.chars, f.bom, posOpt) :
          /\ stream' = [in |-> f, out |-> r.out]
          /\ failed' = r.ub
    /\ UNCHANGED <<nbest, posOpt, atype, knowledge, sentence, strBuf>>

-----------------------------------------------------------------------------
(* Options, knowledge, sentence *)

\* Mutant: the range check of the N-best value dropped.
SetNBestUnguarded(v) ==
    /\ ~failed
    /\ nbest' = v
    /\ UNCHANGED <<posOpt, atype, knowledge, sentence, strBuf, stream, failed>>

\* setOption(OPTION_TYPE_NBEST, v): values below 1 are ignored.
SetNBest(v) ==
    /\ ~failed
    /\ v >= 1
    /\ nbest' = v
    /\ UNCHANGED <<posOpt, atype, knowledge, sentence, strBuf, stream, failed>>

\* setOption(OPTION_TYPE_POS_TAGGING, v).
SetPOSTagging(on) ==
    /\ ~failed
    /\ posOpt' = on
    /\ UNCHANGED <<nbest, atype, knowledge, sentence, strBuf, stream, failed>>

\* setOption(OPTION_ANALYSIS_TYPE, v): stores v, which picks the strategy.
SetAnalysisType(v) ==
    /\ ~failed
    /\ atype' = v
    /\ UNCHANGED <<nbest, posOpt, knowledge, sentence, strBuf, stream, failed>>

\* setKnowledge: POS output is switched off when the knowledge has no POS
\* model.
SetKnowledge(k) ==
    /\ ~failed
    /\ knowledge' = k
    /\ posOpt' = (posOpt /\ k)
    /\ UNCHANGED <<nbest, atype, sentence, strBuf, stream, failed>>

\* Sentence::setString: a new string, and the candidates are cleared.
SetString(s) ==
    /\ ~failed
    /\ sentence' = [raw |-> s, cands |-> <<>>, scores |-> <<>>, runs |-> 0]
    /\ UNCHANGED <<nbest, posOpt, atype, knowledge, strBuf, stream, failed>>

\* The string of a Sentence built by its default constructor.
NoString == [bom |-> FALSE, chars |-> <<>>]

\* A new analyzer: N-best 1, POS output on, the model-based strategy, no
\* knowledge; a default-constructed Sentence.
Init ==
    /\ nbest = 1
    /\ posOpt = TRUE
    /\ atype = 1
    /\ knowledge = NoKnowledge
    /\ sentence = [raw |-> NoString, cands |-> <<>>, scores |-> <<>>, runs |-> 0]
    /\ strBuf = <<>>
    /\ stream = [in |-> NoString, out |-> <<>>]
    /\ failed = FALSE

Next ==
    \/ RunWithSentence
    \/ \E s \in Sentences : RunWithString(s)
    \/ \E f \in Streams : RunWithStream(f)
    \/ \E v \in NBestValues : SetNBest(v)
    \/ \E on \in BOOLEAN : SetPOSTagging(on)
    \/ \E v \in AnalysisTypes : SetAnalysisType(v)
    \/ \E k \in Knowledges : SetKnowledge(k)
    \/ \E s \in Sentences : SetString(s)

Spec == Init /\ [][Next]_vars

-----------------------------------------------------------------------------
(* Properties *)

Words == Seq(Chars)
Fraction == [num : Int, den : Int]

TypeOK ==
    /\ nbest \in Nat \ {0}
    /\ posOpt \in BOOLEAN
    /\ atype \in AnalysisTypes
    /\ knowledge \in Knowledges \cup {NoKnowledge}
    /\ sentence.raw \in Sentences \cup {NoString}
    /\ sentence.cands \in Seq(Seq([lexicon : Words, posCode : POSTags \cup {NoPOS}]))
    /\ sentence.scores \in Seq(Fraction)
    /\ Len(sentence.scores) = Len(sentence.cands)
    /\ sentence.runs \in 0..MaxRuns
    /\ strBuf \in Seq(Words)
    /\ stream.out \in Seq([words : Seq(Words), endl : BOOLEAN])
    /\ failed \in BOOLEAN

\* The sum of the scores as one fraction (den = 0: not a finite number).
AddFraction(a, b) == [num |-> a.num * b.den + b.num * a.den, den |-> a.den * b.den]
ScoreSum(scores) == FoldLeft(AddFraction, [num |-> 0, den |-> 1], scores)

\* a >= b for fractions with non-zero denominators.
FracGeq(a, b) == a.num * a.den * b.den * b.den >= b.num * b.den * a.den * a.den

\* Sentence::getOneBestIndex: the first index of a maximal score (C's
\* max_element), counted from 1 here; 0 when there are no scores.
GetOneBestIndex(scores) ==
    IF scores = <<>> THEN 0
    ELSE CHOOSE j \in DOMAIN scores :
            /\ \A k \in DOMAIN scores : FracGeq(scores[j], scores[k])
            /\ \A k \in 1..j-1 : ~FracGeq(scores[k], scores[j])

FreshRun == sentence.runs = 1 /\ ~failed

\* spec.md 4.8: after one runWithSentence on a new Sentence no two of its
\* candidate MorphemeLists are equal: same lexicons, and same POS codes
\* when POS output was on (when it was off every posCode_ is -1).  This is
\* what the isSameMorphemeList scan is for.
CandidatesDistinct ==
    FreshRun => IsInjective(sentence.cands)

\* spec.md 3 and 8.5: after one runWithSentence on a new Sentence the
\* scores of its candidates sum to 1 (the normalisation by totalScore).
ScoresSumToOne ==
    FreshRun /\ sentence.cands # <<>> =>
        LET sum == ScoreSum(sentence.scores) IN sum.den # 0 /\ sum.num = sum.den

\* spec.md 8.4: after one runWithSentence on a new Sentence the candidate
\* getOneBestIndex picks is the tagger's best path, the first candidate.
OneBestIsFirst ==
    FreshRun /\ sentence.cands # <<>> =>
        /\ \A j \in DOMAIN sentence.scores : sentence.scores[j].den # 0
        /\ GetOneBestIndex(sentence.scores) = 1

\* spec.md 7: analysis operations never fail.  Every read of segment[0],
\* pos[0] and of the POS tagger in runWithSentence, runWithString and the
\* strategies stays in range.
RunNeverFails == ~failed

\* The lines of a file as spec.md 6.4 analyze_stream reads them: the
\* pieces between '\n's, the empty piece after a final '\n' excluded.
InputLines(f) ==
    LET nls == SetToSortSeq({k \in DOMAIN f.chars : f.chars[k] = NewLine}, <)
        from(j) == IF j = 1 THEN 1 ELSE nls[j - 1] + 1
        to(j)   == IF j <= Len(nls) THEN nls[j] - 1 ELSE Len(f.chars)
        pieces  == [j \in 1..Len(nls) + 1 |-> SubSeq(f.chars, from(j), to(j))]
    IN  IF Last(pieces) = <<>> THEN Front(pieces) ELSE pieces

\* runWithStream writes one output line per input line, in order: the
\* non-stop one-best words of that line, ended by endl exactly when a
\* '\n' ended the input line (the eof-after-getline logic), nothing for
\* the empty piece after a final '\n'.
StreamMirrorsLines ==
    ~failed =>
        LET L == InputLines(stream.in) IN
        /\ Len(stream.out) = Len(L)
        /\ \A i \in DOMAIN L :
              /\ stream.out[i].endl = (i <= Cardinality({k \in DOMAIN stream.in.chars :
                                                        stream.in.chars[k] = NewLine}))
              /\ stream.out[i].words \in
                    IF L[i] = <<>> THEN {<<>>}
                    ELSE {SelectSeq(ws, LAMBDA w : w \notin StopWords) : ws \in Segmentations(L[i])}

=============================================================================
