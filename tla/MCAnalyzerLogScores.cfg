\* N-best with the negative path scores of a log-linear tagger.
CONSTANTS
    Chars <- MCChars
    SpaceChar <- MCSpaceChar
    StopWords <- MCStopWords
    POSTags <- MCPOSTags
    Scores <- MCLogScores
    Knowledges = {TRUE}
    NoKnowledge = NoKnowledge
    NoPOS = NoPOS
    Sentences <- MCTextSentences
    NBestValues <- MCNBestValues
    NewLine <- MCNewLine
    Streams <- MCStreams
    MaxRuns <- MCMaxRuns
SPECIFICATION Spec
INVARIANT OneBestIsFirst
\* A run that reaches undefined behaviour has no successor state.
CHECK_DEADLOCK FALSE
