---------------------------- MODULE MCDictCodec ----------------------------
(***************************************************************************)
(* DictCodec for TLC.  The bytes: 0xB0 and 0xC4 stand for the GB2312 bytes *)
(* of Chinese words, 0x20 is the space between a word and its POS names,   *)
(* 0x6E ("n") and 0x76 ("v") are POS names, 0x34 ("4") and 0x39 ("9") are  *)
(* ASCII digits and 0x3E is ">".                                           *)
(***************************************************************************)
EXTENDS DictCodec

\* The lines of up to MaxLine bytes over the given bytes.
Lines(bytes, maxLine) == UNION {[1..n -> bytes] : n \in 1..maxLine}

\* One or two lines, the second possibly empty.
TextsOver(bytes, maxLine) ==
    {<<l>> : l \in Lines(bytes, maxLine)}
    \cup {<<l1, l2>> : l1 \in Lines(bytes, 3), l2 \in Lines(bytes, 3) \cup {<<>>}}

\* Dictionary text of Chinese words and POS names: lines of 1 to 9 bytes,
\* so the swap loop meets every size modulo 4 and sizes 8 and 9, where it
\* makes three swaps.
MCTexts == TextsOver({176, 196, 32, 110}, 7) \cup
           {<< <<176, 196, 176, 196, 32, 110, 32, 118>> >>,
            << <<196, 176, 196, 176, 196, 176, 32, 110, 118>> >>}

\* The same with ASCII digits in the words.
MCDigitTexts == TextsOver({176, 52, 57, 32}, 3)

\* Words with the ASCII character ">" (0x3E).
MCAngleTexts == TextsOver({176, 62, 32}, 3)

MCGarbage == {0, 65}
MCMaxSize == 16
=============================================================================
