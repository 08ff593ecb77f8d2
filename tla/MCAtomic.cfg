SPECIFICATION FairSpec
CONSTANTS
    Requests <- MCRequests
    Pieces <- MCPieces
    Names = {"a", "b", "c"}
    Contexts = {"main", "other"}
INVARIANTS
    RunsWhatItCan AsksForTheRest
PROPERTIES
    Answers
CHECK_DEADLOCK FALSE
