SPECIFICATION FairSpec
CONSTANTS
    a = a  t1 = t1  t2 = t2  t3 = t3  t4 = t4
    generator = generator  analyzer = analyzer  orphan = orphan
    url = url  first = first  family = family
    Api = Api  None = None
    Jobs = {a, t1, t2, t3, t4}
    Workers = {generator}
    Endpoints = {url}
    Slots = {1}
    WorkerOf <- SoloWorkerOf
    EndpointOf <- SoloEndpointOf
    Priority <- MCPriority
    Retry <- MCRetry
    Initial <- MCInitial
    Then <- SoloThen
    Subs = {first, family}
    SubOrder <- SoloSubOrder
    WaitJobs <- SoloWaitJobs
    WaitFamilies <- SoloWaitFamilies
    SubThen <- SoloSubThen
    Raises = {}
    Cancellable = {}
    MayShutdown = FALSE
INVARIANTS
    FireOnce
PROPERTIES
    AllDoneRuns
