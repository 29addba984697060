\* beginTrain must end.  With --notrain and a missing material file,
\* create_poc_meterial never reaches eof and never returns.
CONSTANTS
    Space = " "
    Sep = "/"
    TagB = "B"
    TagE = "E"
    Mates <- MCMatesMissing
    Missing = Missing
    Extracts = {FALSE, TRUE}
    RareFreq = 2
    Cutoff = 1
SPECIFICATION Spec
CHECK_DEADLOCK FALSE
PROPERTY Termination
