\* Every driver of the graph and both engines on the same small puzzles.
CONSTANTS
    N = 3
    Cats <- TwoCats
    MaxBranch = 3
    MaxDepth = 4
    Size = 5
SPECIFICATION Spec
INVARIANTS NoSolutionLost FixpointIsStable EnginesAgree
\* Every solver ends.
CHECK_DEADLOCK FALSE
