\* A run in the background or on the loop, an edit and a new entity meanwhile.
CONSTANTS
    e1 = e1
    e2 = e2
    v1 = v1
    v2 = v2
    Ids <- TwoIds
    Props <- FourProps
    Values = {v1, v2, nil}
    Texts = {v1}
    Patches <- TwoAtOnce
    Listeners <- Cascade
    Loop = loop
    Workers = {w1}
    None = None
    Empty = nil
    Yes = v1
    MaxDepth = 2
    MaxRounds = 2
    MaxRepairs = 1
    MaxRuns = 1
    MaxEdits = 1
SPECIFICATION Spec
INVARIANTS  BannedIsComplete NoneLeftHalfway
PROPERTY Settles
CHECK_DEADLOCK FALSE
