\* The sentence loop of the usage notes over lines that may begin with a BOM.
CONSTANTS
    Chars <- MCChars
    SpaceChar = " "
    StopWords <- MCStopWords
    POSTags <- MCPOSTags
    Scores <- MCScores
    Knowledges = {TRUE, FALSE}
    NoKnowledge = NoKnowledge
    NoPOS = NoPOS
    NBestValues <- MCNBestValues
    NewLine = "NL"
    Streams = {}
    MaxRuns = 1
    Bom = "BOM"
    BaseType <- MCBaseType
    Separators = {"."}
    Lines <- MCLines
    MaxLines = 2
SPECIFICATION Spec
INVARIANT SentenceLoopNeverFails
\* A run that reaches undefined behaviour has no successor state, and the
\* client stops after MaxLines lines.
CHECK_DEADLOCK FALSE
