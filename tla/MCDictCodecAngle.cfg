\* encodeSystemDict then loadSystemDict_ on words with the character ">".
CONSTANTS
    Texts <- MCAngleTexts
    Garbage <- MCGarbage
    MaxSize <- MCMaxSize
    Garbled = Garbled
SPECIFICATION Spec
INVARIANT RoundTrip
\* Loading returns after the last record; that state has no successor.
CHECK_DEADLOCK FALSE
