SPECIFICATION FairSpec
CONSTANTS
    a = a  t1 = t1  t2 = t2  t3 = t3  t4 = t4
    generator = generator  analyzer = analyzer  orphan = orphan
    url = url  first = first  family = family
    Api = Api  None = None
    Jobs = {a, t1, t2, t3}
    Workers = {generator, analyzer, orphan}
    Endpoints = {url}
    Slots = {1}
    WorkerOf <- WideWorkerOf
    EndpointOf <- WideEndpointOf
    Priority <- MCPriority
    Retry <- MCRetry
    Initial <- MCInitial
    Then <- MCThen
    Subs = {}
    SubOrder <- NoSubs
    WaitJobs <- NoSubsFun
    WaitFamilies <- NoSubsFun
    SubThen <- NoSubsFun
    Raises = {t2}
    Cancellable = {t1}
    MayShutdown = TRUE
PROPERTIES
    JobsSettle ShutdownEnds
CHECK_DEADLOCK FALSE
