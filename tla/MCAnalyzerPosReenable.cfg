\* POS output switched back on after setKnowledge with knowledge that has no POS model.
CONSTANTS
    Chars <- MCChars
    SpaceChar <- MCSpaceChar
    StopWords <- MCStopWords
    POSTags <- MCPOSTags
    Scores <- MCScores
    Knowledges = {FALSE}
    NoKnowledge = NoKnowledge
    NoPOS = NoPOS
    Sentences <- MCTextSentences
    NBestValues <- MCNBestValues
    NewLine <- MCNewLine
    Streams <- MCPlainStreams
    MaxRuns <- MCMaxRuns
SPECIFICATION Spec
INVARIANT RunNeverFails
\* A run that reaches undefined behaviour has no successor state.
CHECK_DEADLOCK FALSE
