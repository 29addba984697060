CONSTANTS
    Inputs <- MCInputs
    Dicts <- MCDicts
    SpaceByte <- MCSpaceByte

SPECIFICATION Spec

INVARIANT TypeOK
INVARIANT DictClosure

PROPERTY MergeRefinesSpec

\* The merge returns: its final state has no successor.
CHECK_DEADLOCK FALSE
