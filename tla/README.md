# TLA+ models of the ICMA Chinese morphological analyzer

This directory holds TLA+ models of the analyzer in `src/source` (the
`CMA_ME_Analyzer` facade, the `CMA_ME_Knowledge` loaders, the encrypted
system-dictionary codec, the `Sentence` container and the trainer helpers),
the TLC configurations that check them, and `PROJECT.json`, which lists the
components, runs, mutants, the mapping from every TLA+ definition to the source
lines it models, the findings and the hazards.

## 1. Inventory

The analyzer is a single-threaded library. It runs no threads, does no I/O
during analysis and has no callbacks. What makes it hard to test is:

- long loops that move their index backwards;
- boundary values: empty input, an all-space input, a lone UTF-8 BOM, the last
  unit, a zero total score;
- the order in which a client calls the loaders and the options;
- byte-level conversions that interact with C string functions.

The components, with the state each keeps and its operations:

| Component | Source | State | Operations |
|---|---|---|---|
| Dictionary merge | `CMA_ME_Analyzer.cc` 389-501 (`combineRetWithTrie`, `toCombine`) | loop index `i`, `begin`, `lastWordEnd`, trie cursor `node`, output `dest` | one loop iteration; it may rewind `i` to `lastWordEnd` after a cut |
| Trie `VTrie` | not in `src/` (header `VTrie.h`); spec.md 4.3 | set of words with payloads; the cursor | `find(byte)`, `search(word)`, `insert` |
| Analyzer facade | `CMA_ME_Analyzer.cc` 67-339, 505-744 | options (N-best, POS on/off, analysis type), the strategy pointer `analysis`, knowledge pointer, delimiters | `setOption`, `setKnowledge`, `runWithSentence` (N-best deduplication, stop-word filtering, score normalisation), `runWithString`, `runWithStream`, `analysis_mmmodel`, `analysis_fmm`, `analysis_fmincover` |
| Sentence | `sentence.cpp` | raw string, candidate lists, scores | `setString` (clears the candidates), `addList`, `setScore`, `getOneBestIndex` |
| Sentence splitter | `CMA_ME_Analyzer.cc` 341-387 | current sentence buffer | `splitSentence` |
| N-gram extraction | `CMA_ME_Analyzer.cc` 746-806 | fragment list | `splitToOneGram`, `getNGramResultImpl` |
| Knowledge loaders | `CMA_ME_Knowledge.cc` | trie, `posVec_` (POS candidate sets, index 0 reserved), black words, stop words, the two taggers | `loadStatModel` (also loads `.black`), `loadPOSModel`, `loadSystemDict`/`loadUserDict` (shards `P`, `P.1`, ...), `appendWordPOS`, `loadStopWordDict` |
| Dictionary codec | `CMA_ME_Knowledge.cc` 190-280 | the binary file | `encodeSystemDict`, `readEncryptLine` |
| Trainer helpers | `CMABasicTrainer.cc` | feature and tag dictionaries, word frequencies | `split_tag`, `gather_feature`, `cutoff_feature`, `create_poc_meterial`, `train` |
| CLI wrappers | `TrainerCMD.cc`, `SeggerCMD.h` | the trainer's stage | argument parsing, `beginTrain` |
| Taggers, MaxEnt, char types | not in `src/` | model weights | `seg_sentence`, `tag_sentence_best`, `getCharType` |

How the components interact:

- `runWithSentence` calls the strategy through the member pointer `analysis`.
  Only `setOption(OPTION_ANALYSIS_TYPE, ...)` sets that pointer.
- `analysis_mmmodel` runs the segmentation tagger. It merges only the first
  candidate with the trie (`combineRetWithTrie`). The other candidates only
  lose their spaces.
- `analysis_fmm` runs the merge directly on the character list.
- `runWithSentence` then drops stop words, removes duplicates from the N-best
  list and divides every score by their total.
- The knowledge object is shared state. `appendWordPOS` gives each new
  dictionary word a payload, which is the index of its POS set in `posVec_`.
  The analyzer later reads `posVec_[payload]`. Whether that index is valid
  depends on the order of `loadPOSModel` and the dictionary loads.
- `setKnowledge` copies knowledge facts into the analyzer: it turns POS
  tagging off if the knowledge has no POS model. A later `setOption` can turn
  it back on.

Correctness properties by component:

- Merge:
  - every unit is cut exactly once, in order;
  - each cut is the longest dictionary run;
  - every word the merge builds from several units is a dictionary word;
  - the loop returns.
- Facade:
  - the candidate list holds no duplicates;
  - the normalised scores sum to 1;
  - empty and all-space input gives zero candidates (spec.md 8);
  - no POS lookup happens without a POS tagger.
- Knowledge:
  - every payload is a valid index into `posVec_`;
  - distinct words have distinct POS sets;
  - black-listed words never enter the trie.
- Codec: decoding an encoded file gives back its lines.
- Splitter and n-grams:
  - no sentence is empty;
  - the non-space characters are kept in order;
  - the n-grams are exactly the length-n windows of each fragment.
- Trainer:
  - the `.dic` holds exactly the common words with every tag they were seen
    with;
  - the events hold exactly the features that survive the cut-off;
  - the POC material gives the material's words back;
  - the trainer ends.

## 2. Plan

Modules, in the order they are built (most important behaviour first):

1. `VTrie` (the trie cursor, modelled from spec.md), `TrieMerge` (the merge
   loop), `MergeSpec` (the abstract longest-match merge) and `MCTrieMerge`.
   TrieMerge is shown to implement MergeSpec. **Done in this sitting.**
2. `Analyzer`: `setOption`, `setKnowledge` and `runWithSentence` with the
   `Sentence` container. The strategies are abstracted to the segment lists
   they may return. It covers deduplication, stop words, normalisation, the
   N <= 1 path and the POS on/off protocol. **Done.**
3. `Knowledge`: the load order of the stat model, the POS model, the
   dictionaries and their shards, and the payload allocation in
   `appendWordPOS`. It covers payload validity, aliasing of POS sets and
   black words. **Done.**
4. `DictCodec`: `encodeSystemDict` and `readEncryptLine` over a byte stream,
   including `fputs`/`fgets` semantics. It checks the round trip. **Done**
   (`DictRecord` holds the record format, `DictCodec` the encoder/reader).
5. `SplitSentence` and `NGram`: pure algorithms as RECURSIVE operators checked
   against reference definitions. **Done** as `AnalyzerText`, together with
   `runWithStream` in `Analyzer`.
6. `PocMaterial` and `CutoffFeature`, from the trainer: the B/E tagging of
   training words and the feature cut-off. **Done** as `Trainer`, with the
   whole `train` pipeline and `beginTrain`.
7. `Usage`: the client loop of the SeggerCMD.h usage notes, composing
   `Analyzer` and `AnalyzerText`. **Done.**

## 3. What is modelled so far

### TrieMerge (`combineRetWithTrie`, `toCombine`)

State: `src` (the `vector<string>` of units), `dict` (the words in the trie),
`i`, `begin`, `lastWordEnd`, `node` (the `VTrieNode` cursor: consumed bytes,
`data`, `moreLong`), `dest` (the pushed words) and `done`.

Units and words are byte strings (sequences of small integers; byte 0 is a
space). One step is one iteration of the outer `for` loop. `Walk` is the inner
loop that feeds the unit's bytes to `trie->find`. The three branches of the
loop body are three actions:

- `Mismatch`: the cursor died before the unit's last byte (`j < strLen`).
- `Extend`: the unit was consumed and a longer word may follow, so the match
  continues.
- `Cut`: the unit was consumed but the match cannot continue.

A cut of a match pushes `src[begin..end]` (`ToCombine`) and rewinds `i` to
`end + 1` (`ResumeIndex`). `Finish` is the `if(begin >= 0)` after the loop.

`VTrie` is not in the repository. Its cursor is modelled from spec.md: a
`find` that leaves every word gives `data = 0` and `moreLong = FALSE`.

`MergeSpec` is the promise of spec.md 4.6 and of the FMM strategy in 4.8: at
each position, cut the longest run of whole units that is a dictionary word,
or one unit if there is none, and drop a lone space.

The refinement mapping takes the abstract position to `begin` while a match is
in progress and to `i` otherwise, and the abstract output to `dest`.

Runs:

- `merge_fmm` (`MCTrieMerge.cfg`, pass). The inputs are all unit lists of up to
  4 units over `{space, 1, 2, <<3,1>>}`, where `<<3,1>>` is one two-byte
  character. The dictionary is any subset of six words:
  - one that ends inside a unit (`<<3>>`);
  - one with a space (`<<1,0,2>>`);
  - one of four units (`<<1,2,3,1,2>>`) whose prefixes keep the cursor alive
    past the shorter word `<<1,2>>`, which forces the fall-back to the last
    word seen.

  It checks:
  - `TypeOK`;
  - `DictClosure`: every pushed word is a unit or a dictionary word;
  - `MergeRefinesSpec`: TrieMerge implements MergeSpec, including MergeSpec's
    weak fairness, so every unit is eventually cut.

  There are 143,940 distinct states. Four units are the fewest that hold the
  four-unit word together with a failing unit after it.
- spec.md 8.2 says every multi-character word the ModelMM merge emits is in
  the trie. The code pushes an out-of-vocabulary segmenter word unchanged, so
  the claim only holds for FMM, whose units are characters. An earlier run
  showed this in two steps; it was retired in favour of the
  `analyzer_text` run.

Fairness: the merge is one sequential loop that nothing can preempt, so weak
fairness of `Next` is what the code gives.

### Analyzer (`setOption`, `setKnowledge`, `runWithSentence`, `runWithString`, `runWithStream`, `Sentence`)

State: the options `nbest`, `posOpt` and `atype`; the knowledge pointer
(`NoKnowledge`, or whether the knowledge has a POS model); one `Sentence`
(raw string, candidate lists, scores and the number of runs on it); the
`strBuf` that `runWithString` returns; and `failed`, set when the code reaches
undefined behaviour (an out-of-range `segment[0]`, a null POS tagger).

A string is a record: the characters `extractCharacter` yields and whether it
starts with a UTF-8 BOM (which `strlen` counts and `extractCharacter` skips).
The strategies are not in `src/`; `AnalysisResults` gives the set of segment
lists each may return (spec.md 4.8): a single list for FMM and FMinCover, N-best
lists with non-increasing scores for the model strategy. `RunWithSentence` is
the whole of `runWithSentence`: the strategy, stop-word removal, the
deduplication against the lists already kept (`IsDuplicate`) and the division
of every score by their total (`Normalise`). Scores are exact fractions.

`RunWithStream` is the whole of `runWithStream`. An input file is a
character sequence with `NewLine` characters and a BOM flag. `Getline` is
`getline` with its eof flag: set only when the end of the file came before a
newline. `StreamLoop` is the `while (remains)` loop. An empty line writes
`endl` only when more follows. A non-empty line is analysed with N = 1, and
its non-stop one-best words are written, followed by `endl` when more
follows; otherwise the loop breaks. The output is one `[words, endl]` record
per line written; the delimiters are layout. Opening failures only return 0
and are left out.

Runs (`MCAnalyzer.tla` sets the bounds: two letters and a space, one stop word,
N in {0,1,2}, scores {1,2}, one run per sentence, both kinds of knowledge,
four input files):

- `analyzer_nbest` (pass, 1,029,104 states): `TypeOK`; `CandidatesDistinct`
  (no two kept lists are the same, after stop words are removed);
  `ScoresSumToOne`; `OneBestIsFirst` (`getOneBestIndex` picks the first list,
  the one the model ranked best); `StreamMirrorsLines` (one output line per
  input line, in order, `endl` exactly where the input had a newline, nothing
  for the empty piece after a final newline). The four input files cover a
  trailing empty line, a last line without newline, a BOM before a line with
  a stop word, a first line that is only the BOM (which crashes) and an empty
  file.
- The crash on a string that is only a BOM (it passes the `strlen` check, gives
  no characters, and `segment[0]` is read out of range) is shown by
  `usage_bom_line` below, through the loop a client following the usage notes
  runs.
- `analyzer_pos_reenable` (violation of `RunNeverFails`): `setKnowledge`
  turns POS tagging off for knowledge without a POS model, a later `setOption`
  turns it on again, and the tagger pointer is null. The run's input files
  leave out the one whose first line is only a BOM, so the trace is the
  null-tagger call on a non-empty string and not the BOM crash.
- `analyzer_log_scores` (violation of `OneBestIsFirst`): with the negative
  log-probability scores spec.md 4.5 describes, dividing by their negative
  total reverses the ranking, so the one-best index names the worst list.

An all-space sentence with N <= 1 gets one empty candidate list, where
spec.md 7 and 8 expect none (line 129). No run records this; the hazard list
says so.

### AnalyzerText (`splitSentence`, `splitToOneGram`, `getNGramResult`, `getNGramArrayResult`)

These are pure loops over the characters `CTypeTokenizer` yields. Each is a
RECURSIVE operator that follows the loop branch for branch:

- `SplitLoop` is the loop of `splitSentence`, and its final flush.
- `OneGramLoop` is the loop of `splitToOneGram`, after `SkipBom`.
- `GetNGramResultImpl` emits, from each fragment, the n characters at every
  start index `GramStarts` gives (`0 <= i < size - n + 1`).

`CMA_CType` is not in `src/`, so the character classes are constants
(`BaseType`, `Separators`).

The state is the caller's two vectors and two history variables: the
paragraphs and the n-gram calls since each vector was last cleared. The
methods append to the vectors and never clear them. The caller clears them,
as the SeggerCMD.h usage does.

- `analyzer_text` (pass, 246,086 states). It checks:
  - `SentencesAsSpec`: the sentence vector equals the reference split of the
    logged paragraphs. `SpecSplit` cuts after every separator and every space,
    drops spaces and drops empty pieces.
  - `NGramsAreWindows`: the n-gram vector equals the reference. `SpecNGrams`
    takes every window of n characters of the BOM-less, space-less string
    that contains no number, letter or punctuation.

  The paragraphs are every string of up to three of Chinese, digit, space and
  separator, plus longer ones with a BOM, a letter, punctuation and runs of
  Chinese. `n` ranges over 0, 1 and 2, `nArray` over `<<2, 1>>` and `<<3>>`,
  and there are two calls between clears. So fragments shorter than, equal
  to and longer than n all occur, as do the `n < 1` return and accumulation
  across calls.

### DictRecord and DictCodec (`encodeSystemDict`, `readEncryptLine`, `loadSystemDict_`)

`DictRecord` holds the record format as operators over byte sequences: the
add-then-xor obfuscation and its inverse, the pair swap (its own inverse), the
out-of-order 4-byte length header, `fgetc` returning -1 past the end, the
header's top byte sign-extended as `char` arithmetic does, `fputs` stopping at
a 0 byte and `fgets` stopping after a newline. The unwritten tail of the VLA
`buf` is a nondeterministic choice of `Garbage` bytes; a size of 0 or less is
undefined behaviour. `ReadAll` is the `while(!feof)` loop of
`loadSystemDict_`.

`DictCodec` encodes one text and reads it back one `readEncryptLine` per step.

- `codec_roundtrip` (pass, 123,000 states): `RoundTrip` for every text of one
  or two lines over GB2312 high bytes, a space and a lowercase letter, with
  lines of up to 7 bytes. All of those texts are checked. Two hand-picked lines
  of 8 and 9 bytes are added, so the swap loop makes three swaps. Their byte 7
  is not a space. A space at byte 7 encodes to (0x20 + 7) ^ 0x27 = 0, and
  `fputs` stops there: `B0 C4 B0 C4 20 6E 6E 20` does not round-trip. That is
  the bug `codec_fputs_zero` shows. `RoundTrip` also requires that no read
  reaches undefined behaviour.
- `codec_fputs_zero` (violation): a digit line whose encoded byte is 0.
- `codec_fgets_newline` (violation): a line whose encoded byte is 0x0A. The
  line `>>` is read back as 0x10 `>`. Its last byte is then read as the next
  length header. At the end of the file `fgetc` gives -1 for the missing
  header bytes, the size is not positive, and the read has undefined
  behaviour.

### Knowledge (the loaders and `appendWordPOS`)

State: `trie` (word to payload), `posVec` (`posT_->posVec_`, empty while there
is no POS tagger), `statModel` (the stat model loaded, or `NoModel`),
`blackWords`, `stopWords`, `synonyms` (whether `vsynC_` is set), `failed`
(an out-of-range `posVec_` access, or `getSynonyms` on the null `vsynC_`
before `loadSynonymDictionary`). Each
loader is one action and takes the path it is given as input; the files are
constants (`SysDicts`, `UserDicts`, `BlackFiles`, `StopFiles`), each a
function from path to content, `Missing` for a file that does not open.
System dictionary files are the bytes `EncodeFile` writes and are read with
`DictRecord`. `OpenedShards` is the `P`, `P.ret` loop of `loadSystemDict` and
`loadUserDict`. The `POSTagger` constructor is not in `src/`: after
`loadPOSModel` `posVec_` holds the reserved set at index 0.

- `knowledge_documented_order` (pass): the loaders in every order the
  SeggerCMD.h notes allow (`DocumentedSpec`: the stat model and the POS model
  before any dictionary). Two system dictionaries (one with a missing `P.2`
  before a `P.3` that must not be read), a user dictionary with an empty line,
  `_` in a word and a word without POS, a black file with a padded line, and
  stop files. It checks `TypeOK`, `PayloadsValid`, `POSSetsUnshared`,
  `BlackWordsRefused` (against the file's lines, as spec.md 6.1 reads them)
  and the action property `ShardsComposeAsOneFile` (spec.md 8.8). The
  usage notes say nothing of synonyms, so `getSynonyms` may come first. That
  state is a dead end, and the cfg turns the deadlock check off for it.
Under `Spec` (the loaders in any order), a dictionary loaded before
`loadPOSModel` leaves payload 1 on every word, past the end of the new
`posVec_`, and TLC finds `PayloadsValid` violated. Only the SeggerCMD.h usage
notes forbid that order. This was a recorded run until the trainer's runs
took its slot.

Loading a dictionary before `loadStatModel` likewise keeps black-listed words;
TLC shows it with `BlackWordsRefused` under `Spec`, which is not a recorded run.

Bounds: one or two words per file and two shard layouts reach every branch of
`appendWordPOS` (new word with and without a POS model, known word, black
word) and both exits of the shard loop (a missing shard, the end of the
shards).

### Trainer (`beginTrain`, `train`, `create_poc_meterial`)

`beginTrain` (TrainerCMD.cc) runs these steps in order:

1. It trains the POS model on the material file, unless `--notrain` is given.
2. It writes the POC material: each character of each word becomes `c/B`
   (the first) or `c/E` (the rest). `cmacconfig.h` defines `USE_BE_TAG_SET`.
3. It trains the POC model on that file.
4. It removes the file.

`train` reads its file three times:

1. Word frequencies.
2. Features and the tag dictionary. Then come `cutoff_feature`, the `.pos`
   list (POS model only) and the `.dic`.
3. The MaxEnt events. With an `extractFile`, the training-data file is
   written instead, then `exit(0)`.

`stage` says which of the four steps runs; `pc` and `ln` give the pass and the
next line. One action is one line of a pass, or the code between two passes.
`data` is the `TrainerData` counters, as bags. `events` is what the MaxEnt
trainer or the training-data file receives. `out` is the files each training
wrote, and `poc` the POC material.

- A file is the sequence of lines `while(!in.eof()) getline` yields. A final
  newline gives a last, empty line.
- A line is a sequence of characters. `split_tag`, `Trim` and the B/E output
  work on those characters, so a word that holds `/` is tokenised as the code
  does it.
- `pos_train`, `poc_train`, `get_context` and the MaxEnt trainer are not in
  `src/`. Both trainings are `train` on a fresh `TrainerData`. The context
  (`Context`, spec-modelled) is the part of the spec.md 4.5/4.7 template that
  both models share: current word, previous word and previous tag. The model
  file is the event list it was trained on.
- A feature string `ctx + "_" + tag` is the pair `<<ctx, tag>>`.
- `gather_feature` over a line is one closed form, `GatherFeatures`.
  `wordFreq_` is fixed during the second pass and the counts add, so the
  word order does not matter.
- The tokenizer, `Trim` and the string helpers are not recursive. `SplitOf`
  and `PocOf` split each line the files can hold once, as constants. Under
  the liveness check TLC evaluates `ENABLED` without caching, and nested
  recursive helpers there took minutes for each run.

Runs (`MCTrainer.tla`: characters a, b, n, v and `/`; rareFreq 2, cutoff 1):

- `trainer_pipeline` (pass, 286 states). It runs five material files and a
  missing one, with and without `--notrain` and an `extractFile`. It checks:
  - `DicHoldsObservedTags`: each `.dic` (POS and POC) equals `RefDic`, which
    is computed over the whole file: the words seen at least rareFreq times,
    each with all of its tags.
  - `EventsKeepFrequentFeatures`: each model or training-data file equals
    `RefEvents`: for each word occurrence, the context features whose
    (feature, tag) count over the whole file reaches its threshold.
  - `PocEncodesWords`: read back by `split_tag` and by the spec.md 4.5 B/E
    reconstruction (`BEWords`), each POC line gives the words of its material
    line. Once `poc_train` starts, no line is missing.

  - `OutcomeFollowsMaterial` (liveness, under weak fairness): every run on an
    existing material file ends. It ends in exit(1) exactly when some line
    holds a malformed token, and otherwise finishes. With `--notrain` the
    only check is the one in `create_poc_meterial`. The mutant that drops it
    trains on the bad file and violates the property.

  The files give a common word with two tags, rare words, a word holding the
  separator (`a/b/n`), padded and all-space lines, a malformed token (exit(1)
  in the first pass or in the POC material) and an empty file. So every
  branch and both thresholds are reached.
- `trainer_missing_material` (violation of `Termination`, under weak fairness
  of the whole program). With `--notrain` and a missing material file,
  `create_poc_meterial` never reaches eof: `getline` on a stream that failed
  to open sets failbit, never eofbit. The model takes no step there, and TLC
  shows the behaviour that stutters forever. With POS training, the
  `assert(in)` of `gather_word_freq` aborts first.

### Usage (the SeggerCMD.h usage notes, step 3)

`SeggerCMD.h` 100-159 tells a client how to use the library. Step 3 is:
configure the options, call `setKnowledge`, then for every line read with
`getline`: `sentVec.clear()`, `splitSentence(line, sentVec)`, and
`runWithSentence` on each Sentence. `Usage` composes the two modules that
model these calls. `A == INSTANCE Analyzer` shares the analyzer's variables.
`T == INSTANCE AnalyzerText` supplies `SplitSentence`; its own variables are
substituted by constants, since the client keeps `sentVec` itself.

State: the analyzer's variables, plus `step` (`"options"`, `"loop"`, `"run"`),
`sentVec`, the index `i` and the number of lines `read`. Actions:

- `PosOff` and `NBest(v)`: the optional `setOption` calls.
- `Attach(k)`: `setKnowledge`.
- `NextLine(line)`: once the last line's Sentences are done, a new line is
  split into Sentences.
- `TakeSentence` and `RunSentence`: `runWithSentence` on `sentVec[i]`.

The two modules write a string differently. `ToSentence` converts between
them: a leading `Bom` character becomes the `bom` flag that `extractCharacter`
skips.

Run `usage_bom_line` (violation of `SentenceLoopNeverFails`): lines `x y`,
`x space y .`, `BOM space x` and `BOM`, at most two lines, N-best 1 or 2, both
kinds of knowledge. Take a line that is only a BOM, the first line of a UTF-8
file saved with one. `splitSentence` keeps the BOM as a character and pushes
a Sentence whose string is EF BB BF. `runWithSentence` then reads `segment[0]`
of an empty result. With the two BOM lines replaced by `x BOM` (a BOM
elsewhere), the same model finishes without error after 634 distinct states.
In the usage order, `setKnowledge` comes after the POS option, so the
null-tagger crash of `analyzer_pos_reenable` cannot happen. The BOM line is the
only way this loop can fail.

### Fairness

The library has no threads and no scheduler; every run above checks safety
only, except three. `merge_fmm` uses the weak fairness of a loop that nothing
can preempt. `trainer_pipeline` (for `OutcomeFollowsMaterial`) and
`trainer_missing_material` use weak fairness of the trainer's next step: it is a single sequential process, so whenever a step is possible
the process takes it.

## 4. Not modelled, and why

- The segmentation tagger, the POS tagger, the MaxEnt model and `CMA_CType`
  are not in `src/`. The model abstracts their results to nondeterministic
  choices: segment lists and character types.
- `fmincover::parseFMinCoverString` is not in `src/`.
- `analysis_dictb` has an empty segmentation loop and is unreachable, because
  `setOption` never selects it.
- Of the CLI wrappers, `tainerEntry` and `beginTrain` are modelled in
  `Trainer`. The rest only parse arguments and print usage text.
- Trainer helpers left out:
  - `fetchSegmentedFile` and `load_tag_dict` have no caller in `src/`.
  - `save_word_freq`, `save_tag_dict` and `save_features` are compiled only
    with `DEBUG_TRAINING`.
  - `get_chars` and `add_heldout_event` are never called.
  - `fetchSegmentedFile` cuts a word at its first `/`, while `split_tag` cuts
    at the last. A hazard records this.
- `save_pos_list` lists only the tags of common words, while the model is
  trained on events of rare words too. A hazard records this: the tagger that
  maps model tags to `.pos` codes is not in `src/`.
- The delimiters and output formatting of `runWithString` and `runWithStream`
  are layout; only their line handling is worth a model.
- The synonym container, `loadConfig` and the POS table: their classes
  (`VSynonymContainer`, `POSTable`) are not in `src/`. `loadSynonymDictionary`
  and `getSynonyms` are modelled only as far as `vsynC_` is set or null.
- The plan is complete.
