----------------------------- MODULE MCTrieMerge -----------------------------
(***************************************************************************)
(* Model for TrieMerge.  Bytes are 0 (a space) and 1..3.  The units are    *)
(* three one-byte characters and one two-byte character <<3, 1>>, so a     *)
(* match may break off inside a unit.  The candidate words include one     *)
(* ending inside a unit (<<3>>), one holding a space (<<1, 0, 2>>) and one  *)
(* of four units whose proper prefixes keep the cursor alive past a        *)
(* shorter word, so that the merge has to fall back to the last word seen. *)
(***************************************************************************)
EXTENDS TrieMerge

\* Length bound of src.
MaxUnits == 4

MCUnits == {<<0>>, <<1>>, <<2>>, <<3, 1>>}

MCInputs == UNION {[1..k -> MCUnits] : k \in 0..MaxUnits}

MCWords == {<<1, 2>>, <<1, 2, 3, 1, 2>>, <<2, 3>>, <<3>>, <<1, 0, 2>>, <<2, 1>>}

MCDicts == SUBSET MCWords

MCSpaceByte == 0

=============================================================================
