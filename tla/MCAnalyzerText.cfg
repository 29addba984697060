\* splitSentence and the n-gram calls, two calls between clears.
CONSTANTS
    Chars <- MCChars
    Bom <- MCBom
    BaseType <- MCBaseType
    Separators <- MCSeparators
    UTF8 = TRUE
    Paragraphs <- MCParagraphs
    NValues <- MCNValues
    NArrays <- MCNArrays
    MaxCalls <- MCMaxCalls
SPECIFICATION Spec
INVARIANT SentencesAsSpec
INVARIANT NGramsAreWindows

