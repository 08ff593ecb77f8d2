SPECIFICATION PagesSpec
CONSTANTS
    general = general  other = other  u1 = u1  u2 = u2  t1 = t1  t2 = t2
    Channels = {general, other}
    First = general
    Users = {u1, u2}
    None = None  Root = Root  Pchat = Pchat  Cmd = Cmd
    Threads = {t1, t2}
    Limit = 1
    MaxRequests = 3
    MaxActive = 2
    MaxSlots = 3
    MaxPages = 3
    MaxCrashes = 1
    Kinds = {"mkchannel", "cselect", "cpost", "post", "patch", "react",
             "rm", "reset", "select", "up"}
    Cols = 3  Rows = 2
    Null = Null  Refused = Refused  Raised = Raised  Blank = Blank  Torn = Torn
    Default <- MCDefault
    Requests <- MCRequests
    MaxEdits <- MCEdits  MaxDeaths = 1
INVARIANTS
    ListedIsWhole WalkSeesAll ShownIsSaved PanelsStayTree MovesItsText PickIsInnermost
PROPERTIES
    NothingOverwritten UndoTakesBack
SYMMETRY ThreadSymmetry
CONSTRAINT WalkBound
CHECK_DEADLOCK FALSE
