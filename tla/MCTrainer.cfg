\* beginTrain on every material file, with and without --notrain and an
\* extractFile.  The trainer ends: a final state is not a deadlock.
CONSTANTS
    Space = " "
    Sep = "/"
    TagB = "B"
    TagE = "E"
    Mates <- MCMatesMissing
    Missing = Missing
    Extracts = {FALSE, TRUE}
    RareFreq = 2
    Cutoff = 1
SPECIFICATION Spec
CHECK_DEADLOCK FALSE
INVARIANT DicHoldsObservedTags
INVARIANT EventsKeepFrequentFeatures
INVARIANT PocEncodesWords
PROPERTY OutcomeFollowsMaterial
