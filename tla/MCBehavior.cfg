SPECIFICATION Spec
CONSTANTS
    node = node  draft = draft  style = style  task = task
    temperature = temperature
    c1 = c1  c2 = c2
    Tree = Tree  None = None
    Nodes = {node}
    Paths <- MCPaths
    Owner <- MCOwner
    TreeEdits <- GlobalOnly
    Outputs <- MCOutputs
    Settings = {temperature}
    Clients = {c1, c2}
    Threads = {1}
    Runners = {1}
    HistoryCap = 2
    MergePosts = FALSE
    MaxActive = 1
    MaxEdits = 3
    MaxElements = 1
INVARIANTS
    NoLostUpdate EtagIsFresh SavedIsCurrent
PROPERTIES
    ReplacesWhatItSaw
SYMMETRY ClientSymmetry
