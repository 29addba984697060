------------------------------ MODULE Knowledge ------------------------------
(***************************************************************************)
(* The loaders of CMA_ME_Knowledge (CMA_ME_Knowledge.cc): loadStatModel    *)
(* (with the ".black" words), loadPOSModel, loadStopWordDict,              *)
(* loadSystemDict and loadUserDict with their shards P, P.1, P.2, ...,     *)
(* and appendWordPOS, which gives each new dictionary word its payload:    *)
(* the index of its POS set in posVec_.  The system dictionary's records   *)
(* are read as DictRecord describes.  A call is one step: the client calls *)
(* the loaders one after another, in any order.                            *)
(*                                                                         *)
(* The trie is a function from the inserted words (byte strings) to their  *)
(* payloads.  The POSTagger constructor is not in the repository; after    *)
(* it posVec_ holds the reserved set at index 0 (spec.md 3).               *)
(***************************************************************************)
EXTENDS Integers, Sequences, SequencesExt, Functions

CONSTANTS
    SysDicts,    \* path P |-> its binary shards P, P.1, ... (index 0 is P)
    UserDicts,   \* path P |-> its text shards P, P.1, ...
    BlackFiles,  \* stat model path |-> the lines of the ".black" file next to it
    StopFiles,   \* path |-> the lines of the stop-word file
    Missing,     \* a file that does not exist
    NoModel,     \* no stat model loaded
    Garbage, MaxSize, Garbled

Record == INSTANCE DictRecord

Space == 32
Underscore == 95

VARIABLES
    trie,        \* word |-> payload, for the words in trie_
    posVec,      \* posT_->posVec_ (C index i is posVec[i + 1]); <<>> while posT_ is null
    statModel,   \* the cate segT_ was loaded from; NoModel while segT_ is 0
    blackWords,  \* blackWords_
    stopWords,   \* stopWords_
    synonyms,    \* vsynC_ # 0: a synonym dictionary is loaded
    failed       \* undefined behaviour happened

vars == <<trie, posVec, statModel, blackWords, stopWords, synonyms, failed>>

posLoaded == posVec # <<>>

-----------------------------------------------------------------------------
(* Line handling *)

\* trimSelf: the line without leading and trailing spaces.
RECURSIVE Trim(_)
Trim(l) == IF l # <<>> /\ Head(l) = Space THEN Trim(Tail(l))
           ELSE IF l # <<>> /\ Last(l) = Space THEN Trim(Front(l))
           ELSE l

\* Mutant: the lines of a word-list file kept untrimmed.
WordLinesUntrimmed(f) == {f[k] : k \in DOMAIN f} \ {<<>>}

\* The non-empty trimmed lines of a word-list file (.black, stop words).
WordLines(f) == {Trim(f[k]) : k \in DOMAIN f} \ {<<>>}

\* TOKEN_STR: the space-separated tokens of a line.
RECURSIVE Tokens(_)
Tokens(l) ==
    IF l = <<>> THEN <<>>
    ELSE IF Head(l) = Space THEN Tokens(Tail(l))
    ELSE LET firstSpace == {k \in DOMAIN l : l[k] = Space}
             e == IF firstSpace = {} THEN Len(l) + 1 ELSE Min(firstSpace)
         IN  <<SubSeq(l, 1, e - 1)>> \o Tokens(SubSeq(l, e, Len(l)))

\* replaceAll(word, "_", " ").
ReplaceUnderscores(w) == [k \in DOMAIN w |-> IF w[k] = Underscore THEN Space ELSE w[k]]

-----------------------------------------------------------------------------
(* appendWordPOS *)

\* trie_->search(word): the payload, 0 when the word is not in the trie.
Search(t, w) == IF w \in DOMAIN t THEN t[w] ELSE 0

\* Mutant: the new offset forgets that offset 0 is reserved.
NewPayloadUnreserved(st) == Len(st.posVec) - 1

\* Mutant: the size of posVec_ taken once, before the file is read.
NewPayloadStale(st) == Len(posVec)

\* node.data = posT_->posVec_.size() for a new word.
NewPayload(st) == Len(st.posVec)

\* appendWordPOS(line) on st = [trie, posVec, ub].  A word already in the
\* trie adds its POS names to posVec_[payload]; a payload past the end of
\* posVec_ is an out-of-range access.
AppendWordPOS(st, line) ==
    LET tokens == Tokens(line)
        word   == ReplaceUnderscores(tokens[1])
        data   == Search(st.trie, word)
        tags   == Range(Tail(tokens))
        loaded == st.posVec # <<>>
    IN
    IF tokens = <<>> \/ word \in blackWords THEN st
    ELSE IF data > 0 THEN
        IF ~loaded THEN st
        ELSE IF data >= Len(st.posVec) THEN [st EXCEPT !.ub = TRUE]
        ELSE [st EXCEPT !.posVec[data + 1] = @ \cup tags]
    ELSE IF loaded THEN
        [st EXCEPT !.trie   = (word :> NewPayload(st)) @@ @,
                   !.posVec = Append(@, tags)]
    ELSE [st EXCEPT !.trie = (word :> 1) @@ @]

\* The appendWordPOS calls for the lines of one file, in order.
AppendLines(st, lines) == FoldLeft(AppendWordPOS, st, lines)

-----------------------------------------------------------------------------
(* Shards *)

\* Mutant: the next shard is named after ret + 1.
NextShardSkip(ret) == ret + 1

\* The name P.ret of the shard tried after ret files were opened.
NextShard(ret) == ret

\* The shards loadSystemDict and loadUserDict open: P, then P.ret while the
\* last one opened.
RECURSIVE OpenedShards(_, _)
OpenedShards(shards, k) ==
    IF k \notin DOMAIN shards \/ shards[k] = Missing THEN <<>>
    ELSE <<shards[k]>> \o OpenedShards(shards, NextShard(k + 1))

\* The lines loadSystemDict_ passes on for each way its reads may go.
SysLoads(files) ==
    LET RECURSIVE Go(_)
        Go(k) == IF k > Len(files) THEN {[lines |-> <<>>, ub |-> FALSE]}
                 ELSE UNION {IF r.ub THEN {r}
                             ELSE {[lines |-> r.lines \o g.lines, ub |-> g.ub] : g \in Go(k + 1)} :
                             r \in Record!ReadAll(files[k])}
    IN  Go(1)

-----------------------------------------------------------------------------
(* The loaders *)

\* The words of a word-list file, none when it does not open.
FileWords(f) == IF f = Missing THEN {} ELSE WordLines(f)

\* loadStatModel(cate): asserts no stat model yet, then reads the black
\* words.
LoadStatModel(cate) ==
    /\ ~failed
    /\ statModel = NoModel
    /\ statModel' = cate
    /\ blackWords' = blackWords \cup FileWords(BlackFiles[cate])
    /\ UNCHANGED <<trie, posVec, stopWords, synonyms, failed>>

\* loadPOSModel: asserts no POS model yet; the POSTagger starts posVec_.
LoadPOSModel ==
    /\ ~failed
    /\ ~posLoaded
    /\ posVec' = <<{}>>
    /\ UNCHANGED <<trie, statModel, blackWords, stopWords, synonyms, failed>>

\* loadStopWordDict(fileName).
LoadStopWordDict(f) ==
    /\ ~failed
    /\ stopWords' = stopWords \cup FileWords(StopFiles[f])
    /\ UNCHANGED <<trie, posVec, statModel, blackWords, synonyms, failed>>

\* loadSystemDict(p): every opened shard read record by record; each
\* non-empty line through appendWordPOS.
LoadSystemDict(p) ==
    /\ ~failed
    /\ \E r \in SysLoads(OpenedShards(SysDicts[p], 0)) :
          LET st == AppendLines([trie |-> trie, posVec |-> posVec, ub |-> FALSE], r.lines)
          IN  /\ trie' = st.trie
              /\ posVec' = st.posVec
              /\ failed' = (r.ub \/ st.ub)
    /\ UNCHANGED <<statModel, blackWords, stopWords, synonyms>>

\* loadUserDict(p): every opened shard read line by line (getline), each
\* non-empty line through appendWordPOS.
LoadUserDict(p) ==
    /\ ~failed
    /\ LET lines == SelectSeq(FlattenSeq(OpenedShards(UserDicts[p], 0)), LAMBDA l : l # <<>>)
           st    == AppendLines([trie |-> trie, posVec |-> posVec, ub |-> FALSE], lines)
       IN  /\ trie' = st.trie
           /\ posVec' = st.posVec
           /\ failed' = st.ub
    /\ UNCHANGED <<statModel, blackWords, stopWords, synonyms>>

\* loadSynonymDictionary(fileName): asserts no synonym dictionary yet; the
\* VSynonymContainer it builds is not in the repository.
LoadSynonymDictionary ==
    /\ ~failed
    /\ ~synonyms
    /\ synonyms' = TRUE
    /\ UNCHANGED <<trie, posVec, statModel, blackWords, stopWords, failed>>

\* getSynonyms(word, synonym): vsynC_->get_synonyms, a null dereference
\* before loadSynonymDictionary.  After it the call only reads.
GetSynonyms ==
    /\ ~failed
    /\ ~synonyms
    /\ failed' = TRUE
    /\ UNCHANGED <<trie, posVec, statModel, blackWords, stopWords, synonyms>>

\* A new CMA_ME_Knowledge: an empty trie and no taggers.
Init ==
    /\ trie = <<>>
    /\ posVec = <<>>
    /\ statModel = NoModel
    /\ blackWords = {}
    /\ stopWords = {}
    /\ synonyms = FALSE
    /\ failed = FALSE

Next ==
    \/ \E cate \in DOMAIN BlackFiles : LoadStatModel(cate)
    \/ LoadPOSModel
    \/ \E f \in DOMAIN StopFiles : LoadStopWordDict(f)
    \/ \E p \in DOMAIN SysDicts : LoadSystemDict(p)
    \/ \E p \in DOMAIN UserDicts : LoadUserDict(p)
    \/ LoadSynonymDictionary
    \/ GetSynonyms

Spec == Init /\ [][Next]_vars

-----------------------------------------------------------------------------
(* Properties *)

Bytes == Seq(0..255)

TypeOK ==
    /\ DOMAIN trie \subseteq Bytes
    /\ \A w \in DOMAIN trie : trie[w] \in Nat \ {0}
    /\ posVec \in Seq(SUBSET Bytes)
    /\ statModel \in DOMAIN BlackFiles \cup {NoModel}
    /\ blackWords \subseteq Bytes
    /\ stopWords \subseteq Bytes
    /\ synonyms \in BOOLEAN
    /\ failed \in BOOLEAN

\* spec.md 3: once there is a POS model every payload is an index of
\* posVec_ other than the reserved 0 (what appendWordPOS hands out and
\* posVec[node.data] in analysis_fmm later reads).
PayloadsValid ==
    ~failed /\ posLoaded => \A w \in DOMAIN trie : trie[w] \in 1..Len(posVec) - 1

\* spec.md 3 ("for each dictionary word w, a set of POS strings"): once
\* there is a POS model no two words share a POS set.
POSSetsUnshared == ~failed /\ posLoaded => IsInjective(trie)

\* A line of a word list as spec.md 6.1 reads it: the word between the
\* first and the last non-space byte.
ListedWord(l) ==
    LET inner == {k \in DOMAIN l : l[k] # Space}
    IN  IF inner = {} THEN <<>> ELSE SubSeq(l, Min(inner), Max(inner))

\* spec.md 6.1: once a stat model is loaded, no word listed in its ".black"
\* file is in the trie, whichever loader and shard put it there.
BlackWordsRefused ==
    statModel # NoModel /\ BlackFiles[statModel] # Missing =>
        \A k \in DOMAIN BlackFiles[statModel] :
            ListedWord(BlackFiles[statModel][k]) \notin DOMAIN trie

\* The files P, P.1, P.2, ... up to the first missing one (spec.md 6.3).
SpecShards(shards) ==
    LET gone == {k \in DOMAIN shards : shards[k] = Missing}
        stop == IF gone = {} THEN Cardinality(DOMAIN shards) ELSE Min(gone)
    IN  [k \in 1..stop |-> shards[k - 1]]

\* spec.md 8.8: loadSystemDict over the shards leaves the trie and posVec_
\* as loading their byte concatenation as one file would.
ShardsComposeAsOneFile ==
    [][\A p \in DOMAIN SysDicts : LoadSystemDict(p) =>
         \E r \in Record!ReadAll(FlattenSeq(SpecShards(SysDicts[p]))) :
            LET st == AppendLines([trie |-> trie, posVec |-> posVec, ub |-> FALSE], r.lines)
            IN  trie' = st.trie /\ posVec' = st.posVec]_vars

\* The order the usage notes of SeggerCMD.h give: the stat model before the
\* dictionaries, and loadPOSModel "before loading XXX Dictionaries".
DocumentedOrder ==
    /\ trie' # trie => statModel # NoModel
    /\ ~posLoaded /\ posLoaded' => trie = <<>>

\* A client that follows those notes.
DocumentedSpec == Init /\ [][Next /\ DocumentedOrder]_vars

=============================================================================
