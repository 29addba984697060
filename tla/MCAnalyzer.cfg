\* runWithSentence, runWithString and runWithStream over every option,
\* knowledge, sentence and input file, once per Sentence.
CONSTANTS
    Chars <- MCChars
    SpaceChar <- MCSpaceChar
    StopWords <- MCStopWords
    POSTags <- MCPOSTags
    Scores <- MCScores
    Knowledges = {TRUE, FALSE}
    NoKnowledge = NoKnowledge
    NoPOS = NoPOS
    Sentences <- MCSentences
    NBestValues <- MCNBestValues
    NewLine <- MCNewLine
    Streams <- MCStreams
    MaxRuns <- MCMaxRuns
SPECIFICATION Spec
INVARIANT TypeOK
INVARIANT CandidatesDistinct
INVARIANT ScoresSumToOne
INVARIANT OneBestIsFirst
INVARIANT StreamMirrorsLines
\* A null tagger dereference or an out-of-range read ends the program's
\* defined behaviour: such states have no successor.
CHECK_DEADLOCK FALSE
