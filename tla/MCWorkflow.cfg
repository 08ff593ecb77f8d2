SPECIFICATION FairSpec
CONSTANTS
    Workflows <- MCWorkflows
    Vars <- MCVars
    Fields = {"_value", "title", "user"}
    Branches = {b1, b2, b3, b4}
INVARIANTS
    ComputesInOrder ProgressComplete
PROPERTIES
    RunEnds
CHECK_DEADLOCK FALSE
