\* The loaders in every order the usage notes of SeggerCMD.h allow.
CONSTANTS
    SysDicts <- MCSysDicts
    UserDicts <- MCUserDicts
    BlackFiles <- MCBlackFiles
    StopFiles <- MCStopFiles
    Missing = Missing
    NoModel = NoModel
    Garbage <- MCGarbage
    MaxSize <- MCMaxSize
    Garbled = Garbled
SPECIFICATION DocumentedSpec
INVARIANT TypeOK
INVARIANT PayloadsValid
INVARIANT POSSetsUnshared
INVARIANT BlackWordsRefused
PROPERTY ShardsComposeAsOneFile
\* A step that reaches undefined behaviour (getSynonyms before
\* loadSynonymDictionary) has no successor state.
CHECK_DEADLOCK FALSE
