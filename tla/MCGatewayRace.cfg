SPECIFICATION Spec
CONSTANTS
    a = a  t1 = t1  t2 = t2
    generator = generator  analyzer = analyzer  url = url  both = both
    s1 = s1  s2 = s2
    Api = Api  None = None
    Jobs <- MCJobs
    Workers = {generator, analyzer}
    Endpoints = {url}
    Slots = {s1, s2}
    WorkerOf <- MCWorkerOf
    EndpointOf <- MCEndpointOf
    Priority <- MCPriority
    Retry <- MCRetry
    Initial <- MCInitial
    Then <- MCThen
    Subs = {both}
    SubOrder <- MCSubOrder
    WaitJobs <- MCWaitJobs
    WaitFamilies <- MCWaitFamilies
    SubThen <- MCSubThen
    Raises = {}
    Cancellable = {}
    MayShutdown = FALSE
SYMMETRY SlotSymmetry
INVARIANTS
    TypeOK EndpointExclusive SoleCustody NoJobLost AttemptsBounded HighFirst ReportedIsStored
