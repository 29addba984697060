\* encodeSystemDict then loadSystemDict_ on dictionaries of Chinese words.
CONSTANTS
    Texts <- MCTexts
    Garbage <- MCGarbage
    MaxSize <- MCMaxSize
    Garbled = Garbled
SPECIFICATION Spec
INVARIANT RoundTrip
\* Loading returns after the last record; that state has no successor.
CHECK_DEADLOCK FALSE
