------------------------------ MODULE MergeSpec ------------------------------
(***************************************************************************)
(* What the dictionary merge promises (spec.md 4.6 and 4.8 FMM): walking   *)
(* the unit list src left to right, it cuts at each position the longest   *)
(* run of whole units whose concatenation is a dictionary word, or a       *)
(* single unit when there is none; a single unit that is a space is        *)
(* dropped.  Units and words are byte strings.                            *)
(***************************************************************************)
EXTENDS Integers, Sequences, SequencesExt

CONSTANTS
    Inputs,     \* the unit lists the merge may be given
    Dicts,      \* the dictionaries (sets of byte strings) it may use
    SpaceByte   \* the byte of a space character

VARIABLES
    src,        \* the unit list being merged
    dict,       \* the dictionary
    pos,        \* index of the first unit not yet cut
    out         \* the words emitted so far

vars == <<src, dict, pos, out>>

\* The unit at 0-based index k.
Unit(s, k) == s[k + 1]

\* The concatenation of units lo..hi.
Word(s, lo, hi) == FlattenSeq(SubSeq(s, lo + 1, hi + 1))

IsSpaceUnit(u) == u[1] = SpaceByte

\* The last unit of the longest dictionary run starting at p.
LongestEnd(s, d, p) ==
    LET ends == {e \in p..Len(s) - 1 : e = p \/ Word(s, p, e) \in d}
    IN  CHOOSE e \in ends : \A f \in ends : f <= e

\* Emit the piece lo..hi, unless it is one space unit.
Emit(o, s, lo, hi) ==
    IF lo = hi /\ IsSpaceUnit(Unit(s, lo)) THEN o ELSE Append(o, Word(s, lo, hi))

Init ==
    /\ src \in Inputs
    /\ dict \in Dicts
    /\ pos = 0
    /\ out = <<>>

Cut ==
    /\ pos < Len(src)
    /\ LET e == LongestEnd(src, dict, pos)
       IN  /\ out' = Emit(out, src, pos, e)
           /\ pos' = e + 1
    /\ UNCHANGED <<src, dict>>

Next == Cut

Spec == Init /\ [][Next]_vars /\ WF_vars(Next)

=============================================================================
