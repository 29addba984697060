---------------------------- MODULE AnalyzerText ----------------------------
(***************************************************************************)
(* The character-level entry points of CMA_ME_Analyzer                     *)
(* (CMA_ME_Analyzer.cc): splitSentence, which cuts a paragraph into        *)
(* Sentences, and getNGramResult and getNGramArrayResult, which cut a      *)
(* string into fragments (splitToOneGram) and emit the n-grams of each     *)
(* (getNGramResultImpl).                                                   *)
(* Both push onto a vector the caller owns and never clear it; the caller  *)
(* clears it between paragraphs, as the SeggerCMD.h usage notes do.        *)
(*                                                                         *)
(* CMA_CType and its tokenizer are not in the repository.  A string is the *)
(* sequence of characters CTypeTokenizer yields; a leading UTF-8 BOM is    *)
(* the character Bom.  The character classes are constants: the base type  *)
(* getBaseType gives, and the set isSentenceSeparator accepts.  isSpace is *)
(* base type "space".                                                      *)
(***************************************************************************)
EXTENDS Integers, Sequences, SequencesExt

CONSTANTS
    Chars,        \* the characters of the model, Bom included
    Bom,          \* U+FEFF, the byte-order mark, as one character
    BaseType,     \* getBaseType: Chars -> {"number", "letter", "punc", "space", "other"}
    Separators,   \* the characters isSentenceSeparator accepts
    UTF8,         \* encodeType_ = ENCODE_TYPE_UTF8
    Paragraphs,   \* the strings a client may pass
    NValues,      \* the n a client may pass to getNGramResult
    NArrays,      \* the nArray vectors a client may pass to getNGramArrayResult
    MaxCalls      \* bound on the calls since the vectors were last cleared

IsSpace(c) == BaseType[c] = "space"

-----------------------------------------------------------------------------
(* splitSentence *)

\* Mutant: a space pushes the current sentence even when it is empty.
RECURSIVE SplitLoopKeepEmpty(_, _, _, _)
SplitLoopKeepEmpty(p, k, cur, out) ==
    IF k > Len(p) THEN IF cur # <<>> THEN Append(out, cur) ELSE out
    ELSE IF p[k] \in Separators THEN SplitLoopKeepEmpty(p, k + 1, <<>>, Append(out, Append(cur, p[k])))
    ELSE IF IsSpace(p[k]) THEN SplitLoopKeepEmpty(p, k + 1, <<>>, Append(out, cur))
    ELSE SplitLoopKeepEmpty(p, k + 1, Append(cur, p[k]), out)

\* The for loop over the tokenizer: a separator ends the sentence and is
\* kept in it; a space ends a non-empty sentence and is dropped; any other
\* character is appended.  After the loop a non-empty rest is a sentence.
RECURSIVE SplitLoop(_, _, _, _)
SplitLoop(p, k, cur, out) ==
    IF k > Len(p) THEN IF cur # <<>> THEN Append(out, cur) ELSE out
    ELSE IF p[k] \in Separators THEN SplitLoop(p, k + 1, <<>>, Append(out, Append(cur, p[k])))
    ELSE IF IsSpace(p[k]) THEN
        IF cur # <<>> THEN SplitLoop(p, k + 1, <<>>, Append(out, cur))
        ELSE SplitLoop(p, k + 1, cur, out)
    ELSE SplitLoop(p, k + 1, Append(cur, p[k]), out)

\* The Sentences splitSentence pushes for paragraph p, in order.
SplitSentence(p) == SplitLoop(p, 1, <<>>, <<>>)

-----------------------------------------------------------------------------
(* getNGramResult *)

\* splitToOneGram: a leading BOM is skipped for UTF-8; a number, letter or
\* punctuation character closes a non-empty fragment; spaces are skipped;
\* every other character is appended to the current (last) fragment.
RECURSIVE OneGramLoop(_, _, _)
OneGramLoop(s, k, out) ==
    IF k > Len(s) THEN out
    ELSE IF BaseType[s[k]] \in {"number", "letter", "punc"} THEN
        OneGramLoop(s, k + 1, IF Last(out) # <<>> THEN Append(out, <<>>) ELSE out)
    ELSE IF IsSpace(s[k]) THEN OneGramLoop(s, k + 1, out)
    ELSE OneGramLoop(s, k + 1, Append(Front(out), Append(Last(out), s[k])))

\* The three-byte BOM test of splitToOneGram, for UTF-8 only.
SkipBom(s) == IF UTF8 /\ s # <<>> /\ Head(s) = Bom THEN Tail(s) ELSE s

SplitToOneGram(s) == OneGramLoop(SkipBom(s), 1, << <<>> >>)

\* Mutant: the last start index off by one (lastIdx = size - n).
GramStartsShort(size, n) == 0..(size - n - 1)

\* The C start indices i, 0 <= i < lastIdx = size - n + 1 (none when the
\* fragment is shorter than n).
GramStarts(size, n) == 0..(size - n)

\* getNGramResultImpl: nothing for n < 1; otherwise for each fragment, in
\* order, the concatenation of n characters from each start index.
GetNGramResultImpl(frags, n) ==
    IF n < 1 THEN <<>>
    ELSE FlattenSeq([fidx \in DOMAIN frags |->
            LET f == frags[fidx]
                starts == SetToSortSeq(GramStarts(Len(f), n), <)
            IN  [k \in DOMAIN starts |-> SubSeq(f, starts[k] + 1, starts[k] + n)]])

-----------------------------------------------------------------------------
(* The analyzer's calls and the caller's vectors *)

VARIABLES
    sentVec,      \* the vector<Sentence> passed to splitSentence (their strings)
    paraLog,      \* history: the paragraphs passed since sentVec was cleared
    grams,        \* the vector<string> passed to getNGram*Result
    gramLog       \* history: the [str, ns] calls since grams was cleared

vars == <<sentVec, paraLog, grams, gramLog>>

\* splitSentence(p, sentVec).
SplitSentenceCall(p) ==
    /\ Len(paraLog) + Len(gramLog) < MaxCalls
    /\ sentVec' = sentVec \o SplitSentence(p)
    /\ paraLog' = Append(paraLog, p)
    /\ UNCHANGED <<grams, gramLog>>

\* getNGramResult(s, n, grams).
GetNGramResult(s, n) ==
    /\ Len(paraLog) + Len(gramLog) < MaxCalls
    /\ grams' = grams \o GetNGramResultImpl(SplitToOneGram(s), n)
    /\ gramLog' = Append(gramLog, [str |-> s, ns |-> <<n>>])
    /\ UNCHANGED <<sentVec, paraLog>>

\* getNGramArrayResult(s, nArray, grams): one splitToOneGram, then the
\* n-grams for each n of nArray in turn.
GetNGramArrayResult(s, ns) ==
    /\ Len(paraLog) + Len(gramLog) < MaxCalls
    /\ LET frags == SplitToOneGram(s)
       IN  grams' = grams \o FlattenSeq([j \in DOMAIN ns |-> GetNGramResultImpl(frags, ns[j])])
    /\ gramLog' = Append(gramLog, [str |-> s, ns |-> ns])
    /\ UNCHANGED <<sentVec, paraLog>>

\* The caller's sentVec.clear() before the next paragraph.
ClearSentences ==
    /\ sentVec' = <<>>
    /\ paraLog' = <<>>
    /\ UNCHANGED <<grams, gramLog>>

\* The caller's output.clear().
ClearGrams ==
    /\ grams' = <<>>
    /\ gramLog' = <<>>
    /\ UNCHANGED <<sentVec, paraLog>>

Init ==
    /\ sentVec = <<>>
    /\ paraLog = <<>>
    /\ grams = <<>>
    /\ gramLog = <<>>

Next ==
    \/ \E p \in Paragraphs : SplitSentenceCall(p)
    \/ \E s \in Paragraphs, n \in NValues : GetNGramResult(s, n)
    \/ \E s \in Paragraphs, ns \in NArrays : GetNGramArrayResult(s, ns)
    \/ ClearSentences
    \/ ClearGrams

Spec == Init /\ [][Next]_vars

-----------------------------------------------------------------------------
(* Properties *)

\* The reference split: the paragraph is cut after every separator and
\* every space; each piece loses its spaces (not a separator); the empty
\* pieces are dropped.
SpecSplit(p) ==
    LET ends == SetToSortSeq({k \in DOMAIN p : p[k] \in Separators \/ IsSpace(p[k])}
                             \cup {Len(p)}, <)
        from(j) == IF j = 1 THEN 1 ELSE ends[j - 1] + 1
        piece(j) == SelectSeq(SubSeq(p, from(j), ends[j]),
                              LAMBDA c : c \in Separators \/ ~IsSpace(c))
    IN  SelectSeq([j \in DOMAIN ends |-> piece(j)], LAMBDA x : x # <<>>)

\* The splitSentence contract the SeggerCMD.h usage relies on before it
\* calls runWithSentence on each Sentence: the vector holds, in call order,
\* the reference split of every paragraph passed since it was cleared: no
\* empty Sentence, no space kept, no character lost, a separator ending
\* the Sentence it closes.
SentencesAsSpec ==
    sentVec = FlattenSeq([i \in DOMAIN paraLog |-> SpecSplit(paraLog[i])])

\* The reference n-grams of s: drop the leading BOM (UTF-8) and the spaces,
\* then every window of n characters none of which is a number, a letter
\* or punctuation, left to right.  No n-gram for n < 1.
SpecNGrams(s, n) ==
    LET q == SelectSeq(SkipBom(s), LAMBDA c : ~IsSpace(c))
        windows == [i \in 1..(Len(q) - n + 1) |-> SubSeq(q, i, i + n - 1)]
    IN  IF n < 1 THEN <<>>
        ELSE SelectSeq(windows, LAMBDA w :
                 \A k \in DOMAIN w : BaseType[w[k]] \notin {"number", "letter", "punc"})

\* getNGramResult and getNGramArrayResult append, in call order and in the
\* order of nArray, exactly the reference n-grams: none across a number,
\* letter or punctuation character, none from a fragment shorter than n
\* (lastIdx <= 0), none lost at a fragment's end.
NGramsAreWindows ==
    grams = FlattenSeq([i \in DOMAIN gramLog |->
                FlattenSeq([j \in DOMAIN gramLog[i].ns |->
                    SpecNGrams(gramLog[i].str, gramLog[i].ns[j])])])

=============================================================================
