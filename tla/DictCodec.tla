------------------------------ MODULE DictCodec ------------------------------
(***************************************************************************)
(* encodeSystemDict writes a text dictionary to a binary file, and          *)
(* loadSystemDict_ reads its records back one readEncryptLine at a time    *)
(* (CMA_ME_Knowledge.cc).  The record format is in DictRecord.             *)
(***************************************************************************)
EXTENDS DictRecord

CONSTANTS
    Texts       \* the text files encodeSystemDict may be given (line lists)

-----------------------------------------------------------------------------
(* The encoder followed by loadSystemDict_ *)

VARIABLES
    text,     \* the text dictionary
    file,     \* the bytes of the binary file
    pos,      \* the read offset of the FILE*
    loaded,   \* the non-empty lines loadSystemDict_ passed to appendWordPOS
    phase,    \* "encode", "read" or "done"
    failed    \* undefined behaviour in readEncryptLine

vars == <<text, file, pos, loaded, phase, failed>>

Init ==
    /\ text \in Texts
    /\ file = <<>>
    /\ pos = 0
    /\ loaded = <<>>
    /\ phase = "encode"
    /\ failed = FALSE

\* encodeSystemDict(txt, bin).
EncodeSystemDict ==
    /\ phase = "encode"
    /\ file' = EncodeFile(text)
    /\ phase' = "read"
    /\ UNCHANGED <<text, pos, loaded, failed>>

\* One iteration of while(!feof(in)): readEncryptLine, and the line kept
\* unless it is empty.
ReadEncryptLine ==
    /\ phase = "read"
    /\ ~failed
    /\ LET rest == SubSeq(file, pos + 1, Len(file)) IN
       IF ReadIsUndefined(rest)
       THEN /\ failed' = TRUE
            /\ UNCHANGED <<pos, loaded, phase>>
       ELSE \E o \in ReadResults(rest) :
               /\ pos' = pos + o.used
               /\ loaded' = IF o.line = <<>> THEN loaded ELSE Append(loaded, o.line)
               /\ phase' = IF o.eof THEN "done" ELSE "read"
               /\ UNCHANGED failed
    /\ UNCHANGED <<text, file>>

Next == EncodeSystemDict \/ ReadEncryptLine

Spec == Init /\ [][Next]_vars

-----------------------------------------------------------------------------
(* Properties *)

\* The non-empty lines of the text file, which getline delivers.
TextLines == SelectSeq(text, LAMBDA l : l # <<>>)

\* spec.md 8.7: loading the encoded file gives back, in order, exactly the
\* non-empty lines encodeSystemDict was given, and no readEncryptLine on the
\* way reaches undefined behaviour (a record size of 0 or less, or past
\* MaxSize).
RoundTrip ==
    /\ ~failed
    /\ phase = "done" => loaded = TextLines

=============================================================================
