------------------------------- MODULE VTrie -------------------------------
(***************************************************************************)
(* The byte trie VTrie used by the analyzer (header VTrie.h, not part of   *)
(* this repository's sources; modelled from spec.md section 4.3).          *)
(*                                                                         *)
(* A dictionary is a finite set of byte strings (sequences of bytes).  A   *)
(* cursor (VTrieNode) records the bytes consumed from the root, the        *)
(* payload "data" (> 0 iff the consumed bytes are a dictionary word) and   *)
(* "moreLong" (TRUE iff some longer word extends the consumed bytes).      *)
(* A find on a byte that leaves every word leaves the cursor dead: data 0, *)
(* moreLong FALSE, as the spec's cursor invariant requires.                *)
(***************************************************************************)
LOCAL INSTANCE Sequences
LOCAL INSTANCE SequencesExt

\* The cursor VTrieNode::init() produces: the root, no word, keep going.
Root == [path |-> <<>>, data |-> 0, moreLong |-> TRUE]

\* The strings that are a prefix of some word of dict.
TriePrefixes(dict) == UNION {Prefixes(w) : w \in dict}

\* VTrie::find(ch, &node): advance the cursor by one byte.
Find(dict, node, ch) ==
    LET p == Append(node.path, ch)
    IN  IF p \in TriePrefixes(dict)
        THEN [path     |-> p,
              data     |-> IF p \in dict THEN 1 ELSE 0,
              moreLong |-> \E w \in dict : IsStrictPrefix(p, w)]
        ELSE [path |-> p, data |-> 0, moreLong |-> FALSE]

\* VTrie::search(word, &node): the payload of a whole word (0 if absent).
SearchData(dict, word) == IF word \in dict THEN 1 ELSE 0

=============================================================================
