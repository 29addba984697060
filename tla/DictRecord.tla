----------------------------- MODULE DictRecord -----------------------------
(***************************************************************************)
(* The record format of the encrypted system dictionary of                 *)
(* CMA_ME_Knowledge.cc, as operators on bytes: what encodeSystemDict       *)
(* writes for a text line (through fputs), what one readEncryptLine reads  *)
(* back (fgetc for the length, fgets for the body), and the whole read     *)
(* loop of loadSystemDict_.  Bytes are integers in 0..255; a char's        *)
(* arithmetic is modulo 256, which is what the build's 8-bit chars keep of *)
(* it.  Bytes of the stack buffer that fgets does not fill are             *)
(* uninitialized: any of Garbage.                                          *)
(***************************************************************************)
EXTENDS Integers, Sequences, SequencesExt, Bitwise

CONSTANTS
    Garbage,    \* the values an uninitialized buffer byte may hold
    MaxSize,    \* records longer than this are not decoded byte by byte
    Garbled     \* the line of such a record

NewLine == 10

-----------------------------------------------------------------------------
(* Byte-level operators *)

\* seCode[i % 4].
SeCode(i) == <<18, 52, 84, 39>>[(i % 4) + 1]

\* The amount added (encode) or subtracted (decode) at index i: the first
\* of i%2, i%3, i%5, i%7 that is zero.
Shift(i) == CASE i % 2 = 0 -> 2
              [] i % 3 = 0 -> 3
              [] i % 5 = 0 -> 5
              [] i % 7 = 0 -> 7
              [] OTHER -> 0

\* Exchange the bytes at C indices a and b.
SwapAt(buf, a, b) ==
    [k \in DOMAIN buf |-> CASE k = a + 1 -> buf[b + 1]
                             [] k = b + 1 -> buf[a + 1]
                             [] OTHER     -> buf[k]]

\* for(i = 0; i <= size/2; i += 2) swap(buf[i], buf[size-1-i]) in
\* encodeSystemDict.
RECURSIVE EncSwap(_, _)
EncSwap(buf, i) ==
    IF i <= Len(buf) \div 2
    THEN EncSwap(SwapAt(buf, i, Len(buf) - 1 - i), i + 2)
    ELSE buf

\* The add-then-xor loop of encodeSystemDict.
Obfuscate(buf) ==
    [k \in DOMAIN buf |-> ((buf[k] + Shift(k - 1)) % 256) ^^ SeCode(k - 1)]

\* Mutant: the swap loop of readEncryptLine stops before size/2.
RECURSIVE DecSwapShort(_, _)
DecSwapShort(buf, i) ==
    IF i < Len(buf) \div 2
    THEN DecSwapShort(SwapAt(buf, i, Len(buf) - 1 - i), i + 2)
    ELSE buf

\* The same swap loop in readEncryptLine.
RECURSIVE DecSwap(_, _)
DecSwap(buf, i) ==
    IF i <= Len(buf) \div 2
    THEN DecSwap(SwapAt(buf, i, Len(buf) - 1 - i), i + 2)
    ELSE buf

\* The xor-then-subtract loop of readEncryptLine.
Deobfuscate(buf) ==
    [k \in DOMAIN buf |-> ((buf[k] ^^ SeCode(k - 1)) - Shift(k - 1)) % 256]

\* What a C string function sees of buf: the bytes before the first 0.
CString(buf) ==
    IF \E k \in DOMAIN buf : buf[k] = 0
    THEN SubSeq(buf, 1, (CHOOSE k \in DOMAIN buf :
                            buf[k] = 0 /\ \A j \in 1..k-1 : buf[j] # 0) - 1)
    ELSE buf

\* The four length bytes, in the file's order.
LengthHeader(size) ==
    <<(size \div 2^8) % 256, (size \div 2^24) % 256, size % 256, (size \div 2^16) % 256>>

\* The bytes one line adds to the binary file: the header, then what
\* fputs writes of the encoded buffer.  Empty lines are skipped.
EncodeLine(line) ==
    IF line = <<>> THEN <<>>
    ELSE LengthHeader(Len(line)) \o CString(EncSwap(Obfuscate(line), 0))

\* encodeSystemDict over a whole text file.
EncodeFile(text) == FlattenSeq([k \in DOMAIN text |-> EncodeLine(text[k])])

-----------------------------------------------------------------------------
(* readEncryptLine *)

\* The top byte of a 32-bit int as the build reads it: a signed char.
SignedTop(b) == IF b >= 128 THEN b - 256 ELSE b

\* fgetc on the k-th remaining byte: -1 past the end.
Fgetc(s, k) == IF k <= Len(s) THEN s[k] ELSE -1

\* size = (lenBuf[0] << 8) + (lenBuf[1] << 24) + lenBuf[2] + (lenBuf[3] << 16),
\* wrapped to 32 bits as the build's int arithmetic does.
RecordSize(s) ==
    SignedTop(Fgetc(s, 2)) * 2^23 * 2
        + Fgetc(s, 4) * 2^16 + Fgetc(s, 1) * 2^8 + Fgetc(s, 3)

\* The bytes fgets(buf, size + 1, in) reads from body: at most size, up to
\* and including the first newline.
FgetsRead(body, size) ==
    LET lim == IF Len(body) < size THEN Len(body) ELSE size
        nl  == {k \in 1..lim : body[k] = NewLine}
    IN  IF nl = {} THEN SubSeq(body, 1, lim)
        ELSE SubSeq(body, 1, CHOOSE k \in nl : \A j \in nl : k <= j)

\* readEncryptLine has undefined behaviour when size <= 0: a negative array
\* size, or buf[-1] swapped with buf[0] when it is 0.
ReadIsUndefined(s) == s # <<>> /\ RecordSize(s) <= 0

\* The possible results of one readEncryptLine on the remaining stream s
\* when it is defined: the line, the bytes consumed, and whether end of file
\* was seen.
ReadResults(s) ==
    IF s = <<>> THEN {[line |-> <<>>, used |-> 0, eof |-> TRUE]}
    ELSE
    LET size   == RecordSize(s)
        hdr    == IF Len(s) < 4 THEN Len(s) ELSE 4
        body   == SubSeq(s, hdr + 1, Len(s))
        r      == IF size > 0 THEN FgetsRead(body, size) ELSE <<>>
        k      == Len(r)
        eof    == Len(s) < 4 \/ (k = Len(body) /\ k < size /\ (k = 0 \/ r[k] # NewLine))
        \* fgets leaves buf alone when it reads nothing, and otherwise
        \* ends what it read with a 0.
        filled == IF k = 0 THEN 0 ELSE IF k < size THEN k + 1 ELSE k
    IN
    IF size > MaxSize
    THEN {[line |-> <<Garbled>>, used |-> hdr + k, eof |-> eof]}
    ELSE {[line |-> CString(Deobfuscate(DecSwap(
                        [j \in 1..size |-> IF j <= k THEN r[j]
                                           ELSE IF j <= filled THEN 0
                                           ELSE g[j]], 0))),
           used |-> hdr + k, eof |-> eof] :
            g \in [filled + 1..size -> Garbage]}

-----------------------------------------------------------------------------
(* The read loop of loadSystemDict_ *)

\* The lines while(!feof(in)) { line = readEncryptLine(in); ... } passes on
\* (the empty ones are skipped), for each way the uninitialized bytes may
\* fall; ub is TRUE when a read had undefined behaviour.
RECURSIVE ReadAll(_)
ReadAll(s) ==
    IF ReadIsUndefined(s) THEN {[lines |-> <<>>, ub |-> TRUE]}
    ELSE UNION {
        LET kept == IF o.line = <<>> THEN <<>> ELSE <<o.line>> IN
        IF o.eof THEN {[lines |-> kept, ub |-> FALSE]}
        ELSE {[lines |-> kept \o r.lines, ub |-> r.ub] :
                 r \in ReadAll(SubSeq(s, o.used + 1, Len(s)))} :
        o \in ReadResults(s)}

=============================================================================
