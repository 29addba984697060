---------------------------- MODULE MCKnowledge ----------------------------
(***************************************************************************)
(* Knowledge for TLC.  Bytes 0xB0 ("A") and 0xC4 ("B") are the characters  *)
(* of the words, 0x5F is "_", 0x20 a space, 0x6E ("n") and 0x76 ("v") POS  *)
(* names.  The binary files of the system dictionaries are what           *)
(* encodeSystemDict writes for the text lines.                             *)
(***************************************************************************)
EXTENDS Knowledge

LOCAL Rec == INSTANCE DictRecord

A == 176
B == 196
N == 110
V == 118

\* "A n", "AB v", "A v", "B n", "B_A n", "B" (no POS), "AB " (black list).
LineAn   == <<A, Space, N>>
LineABv  == <<A, B, Space, V>>
LineAv   == <<A, Space, V>>
LineBn   == <<B, Space, N>>
LineBsAn == <<B, Underscore, A, Space, N>>
LineB    == <<B>>

\* Paths of the two system dictionaries: one in shards P, P.1 with a gap
\* before P.3, one single file.
MCSysDicts ==
    ("sys" :> ((0 :> Rec!EncodeFile(<<LineAn, LineABv>>)) @@ (1 :> Rec!EncodeFile(<<LineAv>>))
               @@ (2 :> Missing) @@ (3 :> Rec!EncodeFile(<<LineBn>>))))
    @@ ("sys2" :> ((0 :> Rec!EncodeFile(<<LineBn, LineAv>>)) @@ (1 :> Missing)))
MCUserDicts ==
    ("user" :> ((0 :> <<LineBsAn, <<>>, LineB>>) @@ (1 :> Missing)))
    @@ ("none" :> (0 :> Missing))
MCBlackFiles == ("cate" :> << <<A, B, Space>>, <<>> >>) @@ ("plain" :> Missing)
MCStopFiles == ("stop" :> << <<B>> >>) @@ ("stop2" :> << <<Space, A, Space>>, <<B>> >>) @@ ("nostop" :> Missing)
MCGarbage == {0}
MCMaxSize == 16
=============================================================================
