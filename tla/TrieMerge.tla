------------------------------ MODULE TrieMerge ------------------------------
(***************************************************************************)
(* meanainner::combineRetWithTrie and toCombine (CMA_ME_Analyzer.cc): the  *)
(* dictionary merge run on the character list (analysis_fmm) and on the    *)
(* best segmentation (analysis_mmmodel).  One step is one iteration of the *)
(* outer for loop over src; the inner loop that feeds the unit's bytes to  *)
(* the trie cursor is the operator Walk.  The loop may move i backwards    *)
(* (i = lastWordEnd) after a match is cut.                                 *)
(*                                                                         *)
(* Units and words are byte strings (sequences of bytes).                  *)
(***************************************************************************)
EXTENDS Integers, Sequences, SequencesExt

CONSTANTS
    Inputs,     \* the unit lists src the merge may be given
    Dicts,      \* the dictionaries the trie may hold
    SpaceByte   \* the byte of a space character

VARIABLES
    src,          \* the vector<string> src
    dict,         \* the words in the VTrie
    i,            \* loop index (0-based, as in the code)
    begin,        \* first unit of the match in progress, -1 if none
    lastWordEnd,  \* last unit at which the match was a word
    node,         \* the trie cursor VTrieNode
    dest,         \* the vector<string> dest
    done          \* the function has returned

vars == <<src, dict, i, begin, lastWordEnd, node, dest, done>>

LOCAL Trie == INSTANCE VTrie

n == Len(src)

Unit(k) == src[k + 1]

\* ctype->isSpace(str): the unit starts with a space character.
IsSpace(str) == str[1] = SpaceByte

\* The inner loop: for (; node.moreLong && j < strLen; ++j) trie->find(...).
\* Yields <<node, j>> after the loop.
RECURSIVE Walk(_, _, _)
Walk(nd, str, j) ==
    IF nd.moreLong /\ j < Len(str)
    THEN Walk(Trie!Find(dict, nd, str[j + 1]), str, j + 1)
    ELSE <<nd, j>>

\* toCombine(trie, type, src, b, e, dest): one unit is pushed unless it is a
\* space; a run is pushed as one word (isOK is always true).
ToCombine(d, b, e) ==
    IF b = e
    THEN IF IsSpace(Unit(b)) THEN d ELSE Append(d, Unit(b))
    ELSE Append(d, Unit(b) \o FlattenSeq(SubSeq(src, b + 2, e + 1)))

\* dest.push_back(str) unless str is a space.
PushUnit(d, k) == IF IsSpace(Unit(k)) THEN d ELSE Append(d, Unit(k))

\* Mutant: the guard "if(lastWordEnd < begin) lastWordEnd = begin" dropped.
MismatchEndUnguarded == lastWordEnd

\* The end of the cut when the unit broke off mid-way (j < strLen).
MismatchEnd == IF lastWordEnd < begin THEN begin ELSE lastWordEnd

\* Mutant: the cut taken at i whether or not unit i ends a word.
BoundaryEndAlwaysHere(nd) == i

\* The end of the cut at a unit boundary where the match cannot go on.
BoundaryEnd(nd) ==
    IF nd.data > 0 THEN i
    ELSE IF lastWordEnd < begin THEN begin ELSE lastWordEnd

\* Mutant: the "i < n - 1" test dropped, so a match reaching the last unit
\* is left to the tail toCombine after the loop.
ExtendsToEnd(nd) == nd.moreLong

\* Mutant: "i = lastWordEnd + 1", forgetting the loop's own ++i.
ResumeIndexSkip(e) == e + 2

\* After a cut ending at unit e: i = lastWordEnd, then the loop's ++i.
ResumeIndex(e) == e + 1

\* Can the match go on past unit i?
Extends(nd) == nd.moreLong /\ i < n - 1

Init ==
    /\ src \in Inputs
    /\ dict \in Dicts
    /\ i = 0
    /\ begin = -1
    /\ lastWordEnd = -1
    /\ node = Trie!Root
    /\ dest = <<>>
    /\ done = FALSE

\* The cursor left the trie before the last byte of unit i (j < strLen).
Mismatch ==
    LET w == Walk(node, Unit(i), 0)
    IN  /\ ~done /\ i < n
        /\ w[2] < Len(Unit(i))
        /\ IF begin < 0
           THEN /\ dest' = PushUnit(dest, i)
                /\ i' = i + 1
                /\ UNCHANGED <<begin, lastWordEnd>>
           ELSE /\ dest' = ToCombine(dest, begin, MismatchEnd)
                /\ lastWordEnd' = MismatchEnd
                /\ begin' = -1
                /\ i' = ResumeIndex(MismatchEnd)
        /\ node' = Trie!Root
        /\ UNCHANGED <<src, dict, done>>

\* Unit i was consumed and a longer word may follow: extend the match.
Extend ==
    LET w == Walk(node, Unit(i), 0)
    IN  /\ ~done /\ i < n
        /\ w[2] = Len(Unit(i))
        /\ Extends(w[1])
        /\ begin' = IF begin < 0 THEN i ELSE begin
        /\ lastWordEnd' = IF w[1].data > 0 THEN i ELSE lastWordEnd
        /\ node' = w[1]
        /\ i' = i + 1
        /\ UNCHANGED <<src, dict, dest, done>>

\* Unit i was consumed but the match cannot go on: cut it.
Cut ==
    LET w == Walk(node, Unit(i), 0)
    IN  /\ ~done /\ i < n
        /\ w[2] = Len(Unit(i))
        /\ ~Extends(w[1])
        /\ IF begin < 0
           THEN /\ dest' = PushUnit(dest, i)
                /\ i' = i + 1
                /\ UNCHANGED <<begin, lastWordEnd>>
           ELSE /\ dest' = ToCombine(dest, begin, BoundaryEnd(w[1]))
                /\ lastWordEnd' = BoundaryEnd(w[1])
                /\ begin' = -1
                /\ i' = ResumeIndex(BoundaryEnd(w[1]))
        /\ node' = Trie!Root
        /\ UNCHANGED <<src, dict, done>>

\* After the loop: if(begin >= 0) toCombine(trie, type, src, begin, n-1, dest).
Finish ==
    /\ ~done /\ i >= n
    /\ dest' = IF begin >= 0 THEN ToCombine(dest, begin, n - 1) ELSE dest
    /\ done' = TRUE
    /\ UNCHANGED <<src, dict, i, begin, lastWordEnd, node>>

Next == Mismatch \/ Extend \/ Cut \/ Finish

\* The loop is a plain sequential computation: it is never starved.
Spec == Init /\ [][Next]_vars /\ WF_vars(Next)

-----------------------------------------------------------------------------
(* Properties *)


TypeOK ==
    /\ i \in 0..n
    /\ begin \in -1..n - 1
    /\ lastWordEnd \in -1..n - 1
    /\ node.data \in {0, 1} /\ node.moreLong \in BOOLEAN
    /\ dest \in Seq(Seq(Nat))
    /\ done \in BOOLEAN

\* Dictionary closure (spec.md 8.2): every word the merge pushes is a unit
\* of src or a word of the trie, so toCombine's append loop only joins
\* units into dictionary words.  Breaking it needs lastWordEnd to be stale
\* or set at a non-word across the steps of one match.
DictClosure ==
    \A k \in 1..Len(dest) :
        dest[k] \in dict \/ \E u \in 0..n - 1 : dest[k] = Unit(u)

\* combineRetWithTrie implements the longest-match merge of MergeSpec: the
\* position the abstract merge has reached is the start of the match in
\* progress, or i when there is none, and dest is its output.  Each cut is
\* the longest dictionary run, i never rewinds behind the last cut, and
\* (MergeSpec being weakly fair) every unit is eventually cut although the
\* loop moves i backwards after each match.
Abs == INSTANCE MergeSpec WITH
           pos <- IF begin >= 0 THEN begin ELSE i,
           out <- dest
MergeRefinesSpec == Abs!Spec

=============================================================================
