------------------------------- MODULE Trainer -------------------------------
(***************************************************************************)
(* The model trainer: beginTrain (TrainerCMD.cc) and the helpers of        *)
(* CMABasicTrainer.cc it runs.  beginTrain trains the POS model on the     *)
(* material file (unless --notrain), writes the POC material (every        *)
(* character of every word tagged B or E), trains the POC model on it and  *)
(* removes it.  train reads its file three times: word frequencies, then   *)
(* the features and the tag dictionary (cut off, saved as .dic and .pos),  *)
(* then the MaxEnt events (or the training-data file, then exit(0)).       *)
(*                                                                         *)
(* A file is the sequence of lines getline yields under                    *)
(* while(!in.eof()): a final newline gives a last, empty line.  A line is  *)
(* a sequence of characters.  pos_train, poc_train, get_context and the    *)
(* MaxEnt trainer are not in the repository: both trainings are train on a *)
(* fresh TrainerData, the context is the spec.md 4.5/4.7 template, and the *)
(* MaxEnt model is the list of events it was given.                        *)
(***************************************************************************)
EXTENDS Integers, Sequences, SequencesExt, FiniteSets, Bags, BagsExt

CONSTANTS
    Space, Sep,     \* ' ' (UNIT_SEP) and TAG_SEP
    TagB, TagE,     \* the POC tags "B" and "E" (USE_BE_TAG_SET)
    Mates,          \* the material files a user may pass
    Missing,        \* a material file that does not exist
    Extracts,       \* whether train is given an extractFile
    RareFreq,       \* rareFreq_: rarer words get no tag dictionary entry
    Cutoff          \* cutoff_: the count a feature other than curword needs

\* A file train may write: <<>> while it is not written, <<content>> after.
NoFile == <<>>
File(x) == <<x>>

-----------------------------------------------------------------------------
(* split_tag *)

\* The boost tokenizer on " ": the non-empty runs between spaces.
Tokens(l) ==
    LET starts == {k \in DOMAIN l : l[k] # Space /\ (k = 1 \/ l[k - 1] = Space)}
        End(k)  == CHOOSE e \in k..Len(l) :
                      /\ \A j \in k..e : l[j] # Space
                      /\ e = Len(l) \/ l[e + 1] = Space
        Start(i) == CHOOSE s \in starts : Cardinality({u \in starts : u < s}) = i - 1
    IN  [i \in 1..Cardinality(starts) |-> SubSeq(l, Start(i), End(Start(i)))]

\* find_last_of(TAG_SEP) as a 1-based index, 0 for npos.
LastSep(t) == SelectLastInSeq(t, LAMBDA c : c = Sep)

\* Each token is word/tag, split at its last separator; a token with no
\* separator, or one at either end, is a format error (exit(1)).  trimSelf
\* leaves a token alone: it holds no space.
SplitTag(l) ==
    LET toks == Tokens(l)
    IN  [ok    |-> \A k \in DOMAIN toks : LastSep(toks[k]) \notin {0, 1, Len(toks[k])},
         words |-> [k \in DOMAIN toks |-> SubSeq(toks[k], 1, LastSep(toks[k]) - 1)],
         tags  |-> [k \in DOMAIN toks |-> SubSeq(toks[k], LastSep(toks[k]) + 1, Len(toks[k]))]]

-----------------------------------------------------------------------------
(* Features *)

\* get_context at position i (not in the repository; the spec.md template
\* restricted to what both models share).  A feature string ctx + "_" + tag
\* is the pair <<ctx, tag>>.
Context(ws, ts, i) ==
    {[name |-> "curword", val |-> ws[i]]}
    \cup (IF i > 1 THEN {[name |-> "prevword", val |-> ws[i - 1]],
                         [name |-> "prevtag", val |-> ts[i - 1]]}
          ELSE {})

\* Mutant: a word seen exactly rareFreq times counted as rare.
IsRareWordInclusive(wf, w) == (IF w \in DOMAIN wf THEN wf[w] ELSE 0) <= RareFreq

\* is_rare_word: wordFreq_[word] < rareFreq_ (operator[] reads 0 for a new word).
IsRareWord(wf, w) == (IF w \in DOMAIN wf THEN wf[w] ELSE 0) < RareFreq

\* gather_feature on every word of a line: tagDict_[word][tag] += 1 for the
\* common words only; every feature of each word's context counted with its
\* tag.  wordFreq_ is fixed in this pass, so the order of the words does
\* not matter.
GatherFeatures(d, ws, ts) ==
    LET common   == {i \in DOMAIN ws : ~IsRareWord(d.wordFreq, ws[i])}
        Feats(i) == {<<c, ts[i]>> : c \in Context(ws, ts, i)}
        TagBag(w) == [t \in {ts[i] : i \in {j \in common : ws[j] = w}} |->
                        Cardinality({i \in common : ws[i] = w /\ ts[i] = t})]
    IN  [wordFreq |-> d.wordFreq,
         tagDict  |-> [w \in DOMAIN d.tagDict \cup {ws[i] : i \in common} |->
                         (IF w \in DOMAIN d.tagDict THEN d.tagDict[w] ELSE EmptyBag) (+) TagBag(w)],
         featDict |-> d.featDict (+) [f \in UNION {Feats(i) : i \in DOMAIN ws} |->
                                        Cardinality({i \in DOMAIN ws : f \in Feats(i)})]]

\* The count a feature needs to survive cutoff_feature: rareFreq for a
\* "curword=" feature, cutoff for the others.
Threshold(c) == IF c.name = "curword" THEN RareFreq ELSE Cutoff

\* Mutant: a feature needs one more than its threshold.
CutoffFeatureStrict(fd) == [f \in {f \in DOMAIN fd : fd[f] > Threshold(f[1])} |-> fd[f]]

\* cutoff_feature: keep the features that reach their threshold.
CutoffFeature(fd) == [f \in {f \in DOMAIN fd : fd[f] >= Threshold(f[1])} |-> fd[f]]

\* The context features of (ctx, tag) left in featDict_; add_event and
\* save_training_data emit them only when there is one.
EventFeatures(fd, ctx, t) == {c \in ctx : <<c, t>> \in DOMAIN fd}

\* save_sys_dict: each word of the tag dictionary with its tags.
SaveSysDict(td) == [w \in DOMAIN td |-> DOMAIN td[w]]

\* save_pos_list: the tags of the tag dictionary, once each.
SavePosList(td) == UNION {DOMAIN td[w] : w \in DOMAIN td}

-----------------------------------------------------------------------------
(* create_poc_meterial *)

\* trimSelf: the line from its first to its last non-space character.
Trim(l) ==
    LET inner == {k \in DOMAIN l : l[k] # Space}
    IN  IF inner = {} THEN <<>> ELSE SubSeq(l, Min(inner), Max(inner))

\* Mutant: every character after the first of a word tagged B as well.
BETagsAllB(word) == [i \in DOMAIN word |-> <<word[i], Sep, TagB>>]

\* The USE_BE_TAG_SET branch: the first character of a word is c/B, each
\* later one c/E.
BETags(word) == [i \in DOMAIN word |-> <<word[i], Sep, IF i = 1 THEN TagB ELSE TagE>>]

\* The concatenation of a sequence of sequences.
Concat(s) ==
    LET idx       == UNION {{<<k, j>> : j \in DOMAIN s[k]} : k \in DOMAIN s}
        Before(a, b) == a[1] < b[1] \/ (a[1] = b[1] /\ a[2] < b[2])
        At(p)     == CHOOSE a \in idx : Cardinality({b \in idx : Before(b, a)}) = p - 1
    IN  [p \in 1..Cardinality(idx) |-> s[At(p)[1]][At(p)[2]]]

\* The items joined by single spaces.
JoinSpace(s) == Concat([k \in DOMAIN s |-> IF k = 1 THEN s[k] ELSE <<Space>> \o s[k]])

\* The POC line written for a material line (its words are well formed).
PocLine(ws) == JoinSpace(Concat([k \in DOMAIN ws |-> BETags(ws[k])]))

\* The lines a training can read: those of the material files, and the POC
\* line written for each (used only for a well-formed line).  TLC evaluates
\* these constant definitions once; the actions look the lines up.  The
\* tokens hold no space, so the trimmed line splits as the line does.
MateLines == UNION {{m[k] : k \in DOMAIN m} : m \in Mates \ {Missing}}
PocOf == [l \in MateLines |-> PocLine(SplitTag(Trim(l)).words)]
SplitOf == [l \in MateLines \cup {PocOf[l] : l \in MateLines} \cup {<<>>} |-> SplitTag(l)]

-----------------------------------------------------------------------------
(* beginTrain and train *)

VARIABLES
    mate,       \* the material file (argv[1])
    extract,    \* train was given an extractFile
    stage,      \* "pos" (pos_train), "material" (create_poc_meterial),
                \* "poc" (poc_train), "done" (returned or exit(0)), "exit" (exit(1), abort)
    pc,         \* the pass of train: "pass1", "pass2", "pass3" or "extract"
    ln,         \* the next line getline reads
    data,       \* the TrainerData: [wordFreq, tagDict, featDict]
    events,     \* the events given to the MaxEnt trainer, or written by save_training_data
    out,        \* cate |-> the files train wrote: [dic, pos, model, training]
    poc         \* the lines written to the POC material file

vars == <<mate, extract, stage, pc, ln, data, events, out, poc>>

Cates == {"pos", "poc"}

EmptyData == [wordFreq |-> EmptyBag, tagDict |-> EmptyBag, featDict |-> EmptyBag]

NoOutput == [dic |-> NoFile, pos |-> NoFile, model |-> NoFile, training |-> NoFile]

\* The lines the current training reads: the material file, or the POC
\* file, every line of which ends with endl.
Input == IF stage = "pos" THEN mate ELSE Append(poc, <<>>)

\* The start of train: a fresh TrainerData, the first pass.
StartTrain == pc' = "pass1" /\ ln' = 1 /\ data' = EmptyData /\ events' = <<>>

Init ==
    /\ mate \in Mates
    /\ extract \in Extracts
    /\ \E trainPOS \in BOOLEAN : stage = IF trainPOS THEN "pos" ELSE "material"
    /\ pc = "pass1" /\ ln = 1 /\ data = EmptyData /\ events = <<>>
    /\ out = [c \in Cates |-> NoOutput]
    /\ poc = <<>>

\* gather_word_freq opens the material file with assert(in).
AssertFails ==
    /\ stage = "pos" /\ pc = "pass1" /\ mate = Missing
    /\ stage' = "exit"
    /\ UNCHANGED <<mate, extract, pc, ln, data, events, out, poc>>

\* gather_word_freq, one line: every word of it counted.
GatherWordFreq ==
    /\ stage \in Cates /\ pc = "pass1" /\ Input # Missing /\ ln <= Len(Input)
    /\ LET st == SplitOf[Input[ln]]
       IN  IF st.ok
           THEN /\ data' = [data EXCEPT !.wordFreq = @ (+) ToBag(st.words)]
                /\ ln' = ln + 1 /\ UNCHANGED stage
           ELSE stage' = "exit" /\ UNCHANGED <<data, ln>>
    /\ UNCHANGED <<mate, extract, pc, events, out, poc>>

\* The end of the first pass: the file is read again from the top.
EndFirstPass ==
    /\ stage \in Cates /\ pc = "pass1" /\ Input # Missing /\ ln > Len(Input)
    /\ pc' = "pass2" /\ ln' = 1
    /\ UNCHANGED <<mate, extract, stage, data, events, out, poc>>

\* extract_feature with gather_feature, one line: an empty line is skipped;
\* each word is gathered with its context.
ExtractFeature ==
    /\ stage \in Cates /\ pc = "pass2" /\ ln <= Len(Input)
    /\ LET st == SplitOf[Input[ln]]
           ws == st.words
           ts == st.tags
       IN  /\ data' = GatherFeatures(data, ws, ts)
           /\ stage' = IF st.ok THEN stage ELSE "exit"
    /\ ln' = ln + 1
    /\ UNCHANGED <<mate, extract, pc, events, out, poc>>

\* The rest of the second pass of train: cutoff_feature, the .pos list for
\* the POS model (isPOS), the .dic dictionary; then the training-data file
\* when an extractFile is given, the third pass otherwise.
EndSecondPass ==
    /\ stage \in Cates /\ pc = "pass2" /\ ln > Len(Input)
    /\ data' = [data EXCEPT !.featDict = CutoffFeature(@)]
    /\ out' = [c \in Cates |-> IF c # stage THEN out[c]
                 ELSE [out[c] EXCEPT !.dic = File(SaveSysDict(data.tagDict)),
                                     !.pos = IF stage = "pos" THEN File(SavePosList(data.tagDict)) ELSE @]]
    /\ pc' = IF extract THEN "extract" ELSE "pass3"
    /\ ln' = 1
    /\ UNCHANGED <<mate, extract, stage, events, poc>>

\* extract_feature with add_event, or with save_training_data, one line.
EventPass ==
    /\ stage \in Cates /\ pc \in {"pass3", "extract"} /\ ln <= Len(Input)
    /\ LET st == SplitOf[Input[ln]]
           ws == st.words
           ts == st.tags
           evs == [i \in DOMAIN ws |->
                     [feats |-> EventFeatures(data.featDict, Context(ws, ts, i), ts[i]), tag |-> ts[i]]]
       IN  /\ events' = events \o SelectSeq(evs, LAMBDA e : e.feats # {})
           /\ stage' = IF st.ok THEN stage ELSE "exit"
    /\ ln' = ln + 1
    /\ UNCHANGED <<mate, extract, pc, data, out, poc>>

\* The end of the third pass: the MaxEnt model trained on the events and
\* saved.  After pos_train beginTrain writes the POC material; after
\* poc_train it removes it and returns.
EndThirdPass ==
    /\ stage \in Cates /\ pc = "pass3" /\ ln > Len(Input)
    /\ out' = [out EXCEPT ![stage] = [@ EXCEPT !.model = File(events)]]
    /\ stage' = IF stage = "pos" THEN "material" ELSE "done"
    /\ ln' = 1
    /\ UNCHANGED <<mate, extract, pc, data, events, poc>>

\* The end of the training-data file: close, then exit(0).
EndExtract ==
    /\ stage \in Cates /\ pc = "extract" /\ ln > Len(Input)
    /\ out' = [out EXCEPT ![stage] = [@ EXCEPT !.training = File(events)]]
    /\ stage' = "done"
    /\ UNCHANGED <<mate, extract, pc, ln, data, events, poc>>

\* Mutant: the word/tag format check of create_poc_meterial dropped.
CreatePocLineNoExit ==
    /\ stage = "material" /\ mate # Missing /\ ln <= Len(mate)
    /\ LET l == Trim(mate[ln])
           st == SplitOf[mate[ln]]
       IN  /\ poc' = IF l = <<>> THEN poc ELSE Append(poc, PocOf[mate[ln]])
           /\ ln' = ln + 1 /\ UNCHANGED stage
    /\ UNCHANGED <<mate, extract, pc, data, events, out>>

\* create_poc_meterial, one line: trimmed, an empty line skipped, a
\* malformed token exit(1), otherwise the line of B/E-tagged characters.
\* A missing material file is never at eof: no line is ever read.
CreatePocLine ==
    /\ stage = "material" /\ mate # Missing /\ ln <= Len(mate)
    /\ LET l == Trim(mate[ln])
           st == SplitOf[mate[ln]]
       IN  IF l # <<>> /\ ~st.ok
           THEN stage' = "exit" /\ UNCHANGED <<poc, ln>>
           ELSE /\ poc' = IF l = <<>> THEN poc ELSE Append(poc, PocOf[mate[ln]])
                /\ ln' = ln + 1 /\ UNCHANGED stage
    /\ UNCHANGED <<mate, extract, pc, data, events, out>>

\* The end of the material file: poc_train on the POC file.
EndPocMaterial ==
    /\ stage = "material" /\ mate # Missing /\ ln > Len(mate)
    /\ stage' = "poc"
    /\ StartTrain
    /\ UNCHANGED <<mate, extract, out, poc>>

Next ==
    \/ AssertFails
    \/ GatherWordFreq
    \/ EndFirstPass
    \/ ExtractFeature
    \/ EndSecondPass
    \/ EventPass
    \/ EndThirdPass
    \/ EndExtract
    \/ CreatePocLine
    \/ EndPocMaterial

Spec == Init /\ [][Next]_vars /\ WF_vars(Next)

-----------------------------------------------------------------------------
(* Properties *)

\* Two functions are equal (TLC cannot compare an empty function, which it
\* holds as <<>>, with one whose domain holds sequences).
FunEq(f, g) == DOMAIN f = DOMAIN g /\ \A x \in DOMAIN f : f[x] = g[x]

\* The file each training read: the material file, or the POC file.
TrainedFile(c) == IF c = "pos" THEN mate ELSE Append(poc, <<>>)

\* Every word occurrence of a well-formed file, with its tag and context.
Occurrences(f) ==
    UNION {LET st == SplitTag(f[k])
           IN  {[line |-> k, pos |-> i, w |-> st.words[i], t |-> st.tags[i],
                 ctx |-> Context(st.words, st.tags, i)] : i \in DOMAIN st.words}
           : k \in DOMAIN f}

\* The reference dictionary: each word seen at least rareFreq times in the
\* whole file, with every tag it was seen with.
RefDic(f) ==
    LET occ == Occurrences(f)
        common == {w \in {o.w : o \in occ} :
                     Cardinality({o \in occ : o.w = w}) >= RareFreq}
    IN  [w \in common |-> {o.t : o \in {x \in occ : x.w = w}}]

\* A training writes its .dic only after the whole file was counted: the
\* dictionary holds exactly the common words, each with all its tags, so
\* the rarity the second pass applies is the one of the whole file, and the
\* POS candidate sets spec.md 3 reads from it are complete.
DicHoldsObservedTags ==
    \A c \in Cates : out[c].dic # NoFile => FunEq(out[c].dic[1], RefDic(TrainedFile(c)))

\* The reference events: for every word occurrence in file order, the
\* context features seen with its tag at least their threshold times in the
\* whole file; an occurrence with none gives no event.
RefEvents(f) ==
    LET occ == Occurrences(f)
        count(c, t) == Cardinality({o \in occ : o.t = t /\ c \in o.ctx})
        ev(o) == [feats |-> {c \in o.ctx : count(c, o.t) >= Threshold(c)}, tag |-> o.t]
        lineEvents(k) ==
            LET os == SetToSortSeq({o \in occ : o.line = k}, LAMBDA x, y : x.pos < y.pos)
            IN  SelectSeq([i \in DOMAIN os |-> ev(os[i])],
                          LAMBDA e : e.feats # {})
    IN  FlattenSeq([k \in DOMAIN f |-> lineEvents(k)])

\* The MaxEnt model (or the training-data file) of a training is trained
\* on exactly the reference events: the third pass sees the features the
\* cutoff of the second pass kept, each counted over the whole file, with
\* the rareFreq threshold for curword features and cutoff for the others.
EventsKeepFrequentFeatures ==
    \A c \in Cates :
        /\ out[c].model # NoFile => out[c].model[1] = RefEvents(TrainedFile(c))
        /\ out[c].training # NoFile => out[c].training[1] = RefEvents(TrainedFile(c))

\* The words spec.md 4.5 reads back from a tagged character line: each B
\* starts a word, the E characters after it continue it.
RECURSIVE BEWords(_, _, _)
BEWords(cs, ts, ws) ==
    IF cs = <<>> THEN ws
    ELSE IF Head(ts) = <<TagB>> \/ ws = <<>>
         THEN BEWords(Tail(cs), Tail(ts), Append(ws, Head(cs)))
         ELSE BEWords(Tail(cs), Tail(ts), Append(Front(ws), Last(ws) \o Head(cs)))

\* The POC material poc_train reads encodes the material: its j-th line,
\* read back by split_tag, is one character per token, starts with B, has
\* only B and E, and gives back the words of the j-th non-blank material
\* line; when poc_train starts, every non-blank line has its POC line.
PocEncodesWords ==
    mate # Missing =>
    LET src == SelectSeq(mate, LAMBDA l : Trim(l) # <<>>)
    IN  /\ Len(poc) <= Len(src)
        /\ \A j \in DOMAIN poc :
             LET p == SplitTag(poc[j])
             IN  /\ p.ok
                 /\ \A k \in DOMAIN p.words : Len(p.words[k]) = 1
                 /\ p.tags # <<>> /\ p.tags[1] = <<TagB>>
                 /\ \A k \in DOMAIN p.tags : p.tags[k] \in {<<TagB>>, <<TagE>>}
                 /\ BEWords(p.words, p.tags, <<>>) = SplitTag(src[j]).words
        /\ stage = "poc" => Len(poc) = Len(src)

\* A material line split_tag refuses (a token without an inner '/').
Malformed(f) == \E k \in DOMAIN f : ~SplitTag(f[k]).ok

\* spec.md 6.2 and the usage of cmactrainer: for a material file that
\* exists, beginTrain eventually finishes every training it starts and
\* returns, unless a line of the material is malformed, in which case it
\* eventually exits; the second, third and POC passes neither stop early
\* nor hang, with or without --notrain and an extractFile.
OutcomeFollowsMaterial ==
    <>(mate = Missing \/ stage = IF Malformed(mate) THEN "exit" ELSE "done")

\* beginTrain ends: the program returns, or exits.
Termination == <>(stage \in {"done", "exit"})

====
