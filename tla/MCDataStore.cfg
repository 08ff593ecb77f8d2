SPECIFICATION Spec
CONSTANTS
    text = text  row = row  col = col  free = free
    fact = fact  fact_list = fact_list  note = note  other = other
    yes = yes  one = one  flag = flag
    RevNs = RevNs  Contracts = Contracts  Instances = Instances
    Patches = Patches  Data = Data  Meta = Meta
    Names = {text, RevNs, Contracts, Instances, Patches, Data}
    Boot <- MCBoot
    Existing = {Contracts, Instances, Patches}
    OpenNames = {text}
    Schemas <- MCSchemas
    Writes <- MCWrites
    KindOf <- MCKindOf
    Contract <- MCContract
    ListOf <- MCListOf
    Bindings <- MCBindings
    Proposals <- MCProposals
    Main = main
    Branches = {main, side}
    Threads = {1, 2}
    Starter = 0
    None = None
    MaxRequests = 3
    MaxCrashes = 1
    Kinds = {"create", "drop", "put", "remove", "schema", "artifact", "revision",
             "commit", "contract", "bind", "propose", "rollback", "checkout", "branch"}
    LastKinds = {"put", "revision", "commit", "checkout"}
INVARIANTS
    AnsweredIsOnDisk RevisionLineage
PROPERTIES
    ComesUp
CHECK_DEADLOCK FALSE
