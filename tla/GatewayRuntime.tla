---------------------------- MODULE GatewayRuntime ----------------------------
(***************************************************************************)
(* The workflow-v3 job gateway (src/src/kobold_sandbox/gateway_runtime.py):*)
(* jobs wait in one deque per worker, a dispatch thread per worker pops,   *)
(* runs and settles them, and every settled job fires an event whose       *)
(* handlers enqueue further jobs.  Threads interleave between any two      *)
(* statements that touch shared state: pc[t] names the next one of t.      *)
(***************************************************************************)
EXTENDS Naturals, Sequences, FiniteSets, SequencesExt

CONSTANTS
    Jobs,          \* job ids
    Workers,       \* worker roles
    Endpoints,     \* the keys of _endpoint_locks
    Slots,         \* bound: dispatch threads of one worker alive at a time
    Api,           \* the server's event-loop thread: from_yaml, cancel
    None,          \* no job, no thread, no endpoint
    WorkerOf,      \* GatewayJob.worker
    EndpointOf,    \* by role: its base URL, for the role comfyui without one that
                   \* name, None for any other role without one
    Priority,      \* GatewayJob.priority
    Retry,         \* GatewayJob.retry
    Initial,       \* the jobs: section, in order
    Then,          \* jobs the direct and wildcard handlers enqueue, by job, event
    Subs,          \* the all_done subscriptions
    SubOrder,      \* ... in the order subscribe() received them
    WaitJobs,      \* wait_for entries that name a job
    WaitFamilies,  \* wait_for entries "prefix.*", as the ids they match
    SubThen,       \* jobs an all_done handler enqueues, by subscription and job
                   \* of the event: an id ends in the suffix of that job
    Raises,        \* jobs whose template raises when instantiated
    Cancellable,   \* bound: the jobs a client may ask to cancel
    MayShutdown    \* bound: whether shutdown() is ever called

Dispatchers == Workers \X Slots
Threads == Dispatchers \cup {Api}
Statuses == {"none", "pending", "active", "done", "failed", "cancelled"}
Settled == {"done", "failed", "cancelled"}
EventTypes == {"load", "done", "failed", "cancelled"}
ApiPcs == {"idle", "fire", "handlers", "insert", "ensure", "start", "scan", "remove"}
DispatcherPcs == {"dead", "boot", "top", "pop", "activate", "acquire", "exec",
                  "finish", "store", "except", "requeue"} \cup (ApiPcs \ {"idle"})

ASSUME ThreadAssumption ==
    /\ Api \notin Dispatchers
    /\ None \notin Jobs \cup Threads \cup Endpoints
ASSUME JobAssumption ==
    /\ WorkerOf \in [Jobs -> Workers]
    /\ EndpointOf \in [Workers -> Endpoints \cup {None}]
    /\ Priority \in [Jobs -> {"high", "normal", "low"}]
    /\ Retry \in [Jobs -> Nat]
ASSUME WorkflowAssumption ==
    /\ Initial \in Seq(Jobs)
    /\ Then \in [Jobs -> [{"done", "failed", "cancelled"} -> Seq(Jobs)]]
    /\ SubOrder \in Seq(Subs)
    /\ \A m, n \in DOMAIN SubOrder : SubOrder[m] = SubOrder[n] => m = n
    /\ WaitJobs \in [Subs -> SUBSET Jobs]
    /\ WaitFamilies \in [Subs -> SUBSET SUBSET Jobs]
    /\ SubThen \in [Subs -> [Jobs -> Seq(Jobs)]]
    /\ Raises \subseteq Jobs /\ Cancellable \subseteq Jobs
    /\ MayShutdown \in BOOLEAN

\* _instantiate_template passes neither priority nor retry on to the job.
Templated == UNION ({ToSet(Then[j][e]) : j \in Jobs, e \in {"done", "failed", "cancelled"}}
                    \cup {ToSet(SubThen[s][j]) : s \in Subs, j \in Jobs})
ASSUME TemplateAssumption ==
    \A j \in Templated : Priority[j] = "normal" /\ Retry[j] = 0

VARIABLES
    status,       \* _jobs: GatewayJob.status, "none" before registration
    retriesLeft,  \* GatewayJob._retries_left
    attempts,     \* history: calls of _execute_job, per job
    queue,        \* _queues
    stored,       \* jobs whose result is in state, _wf_ctx.vars, _wf_ctx.state
    emitted,      \* the event log, as a set of <<job, type>>
    lock,         \* _endpoint_locks: the thread inside the lock, or None
    dispatch,     \* _dispatch_threads
    running,      \* _running
    loading,      \* outcome of run_workflow_v3: "loading", "started", "error"
    subs,         \* _all_done_subs
    ran,          \* history: runs of each all_done handler
    pc, cur, ev,  \* per thread: next step, its job, the event it is firing
    todo,         \* per thread: jobs the running handler has yet to enqueue
    pos, fired    \* per thread: place in _all_done_subs, and the list `fired`

jobVars == <<status, retriesLeft, attempts>>
logVars == <<stored, emitted>>
runVars == <<dispatch, running, loading>>
subVars == <<subs, ran>>
scanVars == <<pos, fired>>
vars == <<jobVars, queue, logVars, lock, runVars, subVars, pc, cur, ev, todo, scanVars>>

Init ==
    /\ status = [j \in Jobs |-> "none"]
    /\ retriesLeft = Retry
    /\ attempts = [j \in Jobs |-> 0]
    /\ queue = [w \in Workers |-> <<>>]
    /\ stored = {} /\ emitted = {}
    /\ lock = [e \in Endpoints |-> None]
    /\ dispatch = [w \in Workers |-> None]
    /\ running = TRUE /\ loading = "loading"
    /\ subs = SubOrder
    /\ ran = [s \in Subs |-> 0]
    /\ pc = [t \in Threads |-> IF t = Api THEN "handlers" ELSE "dead"]
    /\ cur = [t \in Threads |-> None]
    /\ ev = [t \in Threads |-> "load"]
    /\ todo = [t \in Threads |-> IF t = Api THEN Initial ELSE <<>>]
    /\ pos = [t \in Threads |-> 1]
    /\ fired = [t \in Threads |-> <<>>]

Goto(t, label) == pc' = [pc EXCEPT ![t] = label]
\* The key of the lock that thread d takes. A ComfyUI job is sent to the server
\* it names itself, under the lock of its role.
Endpoint(d) == EndpointOf[d[1]]
Alive(w) == dispatch[w] # None /\ pc[dispatch[w]] # "dead"

-----------------------------------------------------------------------------
(* enqueue(), run by the thread whose handler or YAML file asks for it.     *)

Target(t) == Head(todo[t])

\* An exception leaves from_yaml or cancel, is caught by the try of the
\* dispatch loop, or ends the dispatch thread when it fires "failed".
Catch(t) == IF t = Api THEN "idle"
            ELSE IF ev[t] = "done" THEN "except" ELSE "dead"

Raise(t) ==
    /\ Goto(t, Catch(t))
    /\ loading' = IF t = Api /\ ev[t] = "load" THEN "error" ELSE loading
    /\ todo' = [todo EXCEPT ![t] = <<>>]

InstantiateRaises(t) ==
    /\ pc[t] = "handlers" /\ todo[t] # <<>>
    /\ Target(t) \in Raises /\ Raise(t)
    /\ UNCHANGED <<jobVars, queue, logVars, lock, dispatch, running, subVars, cur, ev, scanVars>>

Instantiable(t) == pc[t] = "handlers" /\ todo[t] # <<>> /\ Target(t) \notin Raises

SkipKnown(t) ==
    /\ Instantiable(t) /\ status[Target(t)] # "none"
    /\ todo' = [todo EXCEPT ![t] = Tail(@)]
    /\ UNCHANGED <<jobVars, queue, logVars, lock, runVars, subVars, pc, cur, ev, scanVars>>

Register(t) ==
    /\ Instantiable(t) /\ status[Target(t)] = "none"
    /\ status' = [status EXCEPT ![Target(t)] = "pending"]
    /\ Goto(t, "insert")
    /\ UNCHANGED <<retriesLeft, attempts, queue, logVars, lock, runVars, subVars,
                   cur, ev, todo, scanVars>>

InsertedFront(q, j) == <<j>> \o q    \* faulty variant: every job jumps the queue

Inserted(q, j) == IF Priority[j] = "high" THEN <<j>> \o q ELSE Append(q, j)

Insert(t) ==
    /\ pc[t] = "insert"
    /\ queue' = [queue EXCEPT ![WorkerOf[Target(t)]] = Inserted(@, Target(t))]
    /\ Goto(t, "ensure")
    /\ UNCHANGED <<jobVars, logVars, lock, runVars, subVars, cur, ev, todo, scanVars>>

\* _ensure_dispatch_thread tests is_alive() ...
EnsureAlive(t) ==
    /\ pc[t] = "ensure"
    /\ \/ /\ Alive(WorkerOf[Target(t)])
          /\ Goto(t, "handlers")
          /\ todo' = [todo EXCEPT ![t] = Tail(@)]
       \/ /\ ~Alive(WorkerOf[Target(t)])
          /\ Goto(t, "start")
          /\ UNCHANGED todo
    /\ UNCHANGED <<jobVars, queue, logVars, lock, runVars, subVars, cur, ev, scanVars>>

\* ... and starts a thread on what it saw, even if another one just did.
StartThread(t) ==
    /\ pc[t] = "start"
    /\ \E d \in Dispatchers :
         /\ d[1] = WorkerOf[Target(t)] /\ pc[d] = "dead"
         /\ dispatch' = [dispatch EXCEPT ![d[1]] = d]
         /\ pc' = [pc EXCEPT ![t] = "handlers", ![d] = "boot"]
    /\ todo' = [todo EXCEPT ![t] = Tail(@)]
    /\ UNCHANGED <<jobVars, queue, logVars, lock, running, loading, subVars,
                   cur, ev, scanVars>>

HandlersDone(t) ==
    /\ pc[t] = "handlers" /\ todo[t] = <<>>
    /\ Goto(t, IF ev[t] = "load" THEN "idle" ELSE "scan")
    /\ loading' = IF ev[t] = "load" THEN "started" ELSE loading
    /\ UNCHANGED <<jobVars, queue, logVars, lock, dispatch, running, subVars,
                   cur, ev, todo, scanVars>>

-----------------------------------------------------------------------------
(* _fire_event(): log the event, run its handlers, then the all_done scan.  *)

\* Faulty variants that the runs must reject: the scan starts at the second
\* subscription, one member of a family is enough, a handler that fired is
\* dropped during the scan as well as after it, or never dropped.
FireOffByOne(t) ==
    /\ pc[t] = "fire"
    /\ emitted' = emitted \cup {<<cur[t], ev[t]>>}
    /\ todo' = [todo EXCEPT ![t] = Then[cur[t]][ev[t]]]
    /\ pos' = [pos EXCEPT ![t] = 2]
    /\ fired' = [fired EXCEPT ![t] = <<>>]
    /\ Goto(t, "handlers")
    /\ UNCHANGED <<jobVars, queue, stored, lock, runVars, subVars, cur, ev>>

RemoveForgets(t) ==
    /\ pc[t] = "remove" /\ fired[t] # <<>>
    /\ fired' = [fired EXCEPT ![t] = Tail(@)]
    /\ UNCHANGED <<jobVars, queue, logVars, lock, runVars, subVars, pc, cur, ev, todo, pos>>

Fire(t) ==
    /\ pc[t] = "fire"
    /\ emitted' = emitted \cup {<<cur[t], ev[t]>>}
    /\ todo' = [todo EXCEPT ![t] = Then[cur[t]][ev[t]]]
    /\ pos' = [pos EXCEPT ![t] = 1]
    /\ fired' = [fired EXCEPT ![t] = <<>>]
    /\ Goto(t, "handlers")
    /\ UNCHANGED <<jobVars, queue, stored, lock, runVars, subVars, cur, ev>>

Registered == {j \in Jobs : status[j] # "none"}
AreDone(J) == \A j \in J : status[j] = "done"

AllDone(s) ==
    /\ AreDone(WaitJobs[s])
    /\ \A f \in WaitFamilies[s] : f \cap Registered # {} /\ AreDone(f \cap Registered)

\* The loop walks the live list by index while other threads shorten it.
InScan(t) == pc[t] = "scan" /\ pos[t] <= Len(subs)

ScanRunsHandler(t) ==
    /\ InScan(t) /\ AllDone(subs[pos[t]])
    /\ todo' = [todo EXCEPT ![t] = SubThen[subs[pos[t]]][cur[t]]]
    /\ fired' = [fired EXCEPT ![t] = Append(@, subs[pos[t]])]
    /\ ran' = [ran EXCEPT ![subs[pos[t]]] = @ + 1]
    /\ pos' = [pos EXCEPT ![t] = @ + 1]
    /\ Goto(t, "handlers")
    /\ UNCHANGED <<jobVars, queue, logVars, lock, runVars, subs, cur, ev>>

ScanPasses(t) ==
    /\ InScan(t) /\ ~AllDone(subs[pos[t]])
    /\ pos' = [pos EXCEPT ![t] = @ + 1]
    /\ UNCHANGED <<jobVars, queue, logVars, lock, runVars, subVars, pc, cur, ev, todo, fired>>

\* Matching a "prefix.*" entry iterates _jobs.items(): a registration by
\* another thread meanwhile is a RuntimeError.
ScanRaises(t) ==
    /\ InScan(t) /\ WaitFamilies[subs[pos[t]]] # {}
    /\ \E u \in Threads \ {t} : Instantiable(u) /\ status[Target(u)] = "none"
    /\ Raise(t)
    /\ UNCHANGED <<jobVars, queue, logVars, lock, dispatch, running, subVars, cur, ev, scanVars>>

ScanEnds(t) ==
    /\ pc[t] = "scan" /\ pos[t] > Len(subs)
    /\ Goto(t, "remove")
    /\ UNCHANGED <<jobVars, queue, logVars, lock, runVars, subVars, cur, ev, todo, scanVars>>

RemoveFired(t) ==
    /\ pc[t] = "remove" /\ fired[t] # <<>>
    /\ \E n \in 1..Len(subs) :
         /\ subs[n] = Head(fired[t]) /\ \A k \in 1..(n - 1) : subs[k] # subs[n]
         /\ subs' = RemoveAt(subs, n)
    /\ fired' = [fired EXCEPT ![t] = Tail(@)]
    /\ UNCHANGED <<jobVars, queue, logVars, lock, runVars, ran, pc, cur, ev, todo, pos>>

\* list.remove raises ValueError when another thread removed it first.
RemoveRaises(t) ==
    /\ pc[t] = "remove" /\ fired[t] # <<>>
    /\ ~Contains(subs, Head(fired[t]))
    /\ Raise(t)
    /\ UNCHANGED <<jobVars, queue, logVars, lock, dispatch, running, subVars, cur, ev, scanVars>>

EventDone(t) ==
    /\ pc[t] = "remove" /\ fired[t] = <<>>
    /\ Goto(t, IF t = Api THEN "idle" ELSE "top")
    /\ cur' = [cur EXCEPT ![t] = None]
    /\ UNCHANGED <<jobVars, queue, logVars, lock, runVars, subVars, ev, todo, scanVars>>

-----------------------------------------------------------------------------
(* _dispatch_loop().                                                        *)

FirstPending(q, n) ==
    /\ n \in 1..Len(q) /\ status[q[n]] = "pending"
    /\ \A k \in 1..(n - 1) : status[q[k]] # "pending"

SetStatus(d, s) == status' = [status EXCEPT ![cur[d]] = s]

\* Faulty variants: the loop ignores shutdown, a pop leaves the job queued, a
\* call does not take the endpoint lock or keeps it when it raises, a
\* result is not stored, a retry is not counted or not put back, a job with
\* retries left is given up.
LoopTopForever(d) ==
    /\ pc[d] = "top" /\ Goto(d, "pop")
    /\ UNCHANGED <<jobVars, queue, logVars, lock, runVars, subVars, cur, ev, todo, scanVars>>

PopKeeps(d) ==
    /\ pc[d] = "pop"
    /\ \E n \in 1..Len(queue[d[1]]) :
         /\ FirstPending(queue[d[1]], n)
         /\ cur' = [cur EXCEPT ![d] = queue[d[1]][n]]
         /\ queue' = [queue EXCEPT ![d[1]] = SubSeq(@, n, Len(@))]
    /\ Goto(d, "activate")
    /\ UNCHANGED <<jobVars, logVars, lock, runVars, subVars, ev, todo, scanVars>>

AcquireUnlocked(d) ==
    /\ pc[d] = "acquire"
    /\ attempts' = [attempts EXCEPT ![cur[d]] = @ + 1]
    /\ Goto(d, "exec")
    /\ UNCHANGED <<status, retriesLeft, queue, logVars, lock, runVars, subVars,
                   cur, ev, todo, scanVars>>

ExecuteLeaksLock(d) ==
    /\ pc[d] = "exec"
    /\ \/ Goto(d, "finish") /\ lock' = [lock EXCEPT ![Endpoint(d)] = None]
       \/ Goto(d, "except") /\ lock' = lock
    /\ UNCHANGED <<jobVars, queue, logVars, runVars, subVars, cur, ev, todo, scanVars>>

FinishUnstored(d) ==
    /\ pc[d] = "finish"
    /\ SetStatus(d, "done")
    /\ ev' = [ev EXCEPT ![d] = "done"]
    /\ Goto(d, "fire")
    /\ UNCHANGED <<retriesLeft, attempts, queue, logVars, lock, runVars, subVars,
                   cur, todo, scanVars>>

RetryUncounted(d) ==
    /\ pc[d] = "except" /\ retriesLeft[cur[d]] > 0
    /\ SetStatus(d, "pending")
    /\ Goto(d, "requeue")
    /\ UNCHANGED <<retriesLeft, attempts, queue, logVars, lock, runVars, subVars,
                   cur, ev, todo, scanVars>>

RetryUnguarded(d) ==
    /\ pc[d] = "except"
    /\ retriesLeft' = [retriesLeft EXCEPT ![cur[d]] = @ - 1]
    /\ SetStatus(d, "pending")
    /\ Goto(d, "requeue")
    /\ UNCHANGED <<attempts, queue, logVars, lock, runVars, subVars, cur, ev, todo, scanVars>>

RequeueDrops(d) ==
    /\ pc[d] = "requeue"
    /\ cur' = [cur EXCEPT ![d] = None]
    /\ Goto(d, "top")
    /\ UNCHANGED <<jobVars, queue, logVars, lock, runVars, subVars, ev, todo, scanVars>>

GiveUpEarly(d) ==
    /\ pc[d] = "except"
    /\ SetStatus(d, "failed")
    /\ ev' = [ev EXCEPT ![d] = "failed"]
    /\ Goto(d, "fire")
    /\ UNCHANGED <<retriesLeft, attempts, queue, logVars, lock, runVars, subVars,
                   cur, todo, scanVars>>

Boot(d) ==
    /\ pc[d] = "boot"
    /\ Goto(d, IF Endpoint(d) = None THEN "dead" ELSE "top")
    /\ UNCHANGED <<jobVars, queue, logVars, lock, runVars, subVars, cur, ev, todo, scanVars>>

LoopTop(d) ==
    /\ pc[d] = "top"
    /\ Goto(d, IF running THEN "pop" ELSE "dead")
    /\ UNCHANGED <<jobVars, queue, logVars, lock, runVars, subVars, cur, ev, todo, scanVars>>

Pop(d) ==
    /\ pc[d] = "pop"
    /\ \E n \in 1..Len(queue[d[1]]) :
         /\ FirstPending(queue[d[1]], n)
         /\ cur' = [cur EXCEPT ![d] = queue[d[1]][n]]
         /\ queue' = [queue EXCEPT ![d[1]] = SubSeq(@, n + 1, Len(@))]
    /\ Goto(d, "activate")
    /\ UNCHANGED <<jobVars, logVars, lock, runVars, subVars, ev, todo, scanVars>>

PopNothing(d) ==
    /\ pc[d] = "pop"
    /\ \A n \in 1..Len(queue[d[1]]) : status[queue[d[1]][n]] # "pending"
    /\ queue' = [queue EXCEPT ![d[1]] = <<>>]
    /\ Goto(d, "top")
    /\ UNCHANGED <<jobVars, logVars, lock, runVars, subVars, cur, ev, todo, scanVars>>

Activate(d) ==
    /\ pc[d] = "activate"
    /\ SetStatus(d, "active")
    /\ Goto(d, "acquire")
    /\ UNCHANGED <<retriesLeft, attempts, queue, logVars, lock, runVars, subVars,
                   cur, ev, todo, scanVars>>

Acquire(d) ==
    /\ pc[d] = "acquire" /\ lock[Endpoint(d)] = None
    /\ lock' = [lock EXCEPT ![Endpoint(d)] = d]
    /\ attempts' = [attempts EXCEPT ![cur[d]] = @ + 1]
    /\ Goto(d, "exec")
    /\ UNCHANGED <<status, retriesLeft, queue, logVars, runVars, subVars,
                   cur, ev, todo, scanVars>>

\* _execute_job returns, or raises: HTTP errors, node errors, timeouts.
Execute(d) ==
    /\ pc[d] = "exec"
    /\ lock' = [lock EXCEPT ![Endpoint(d)] = None]
    /\ \E next \in {"finish", "except"} : Goto(d, next)
    /\ UNCHANGED <<jobVars, queue, logVars, runVars, subVars, cur, ev, todo, scanVars>>

Finish(d) ==
    /\ pc[d] = "finish"
    /\ SetStatus(d, "done")
    /\ Goto(d, "store")
    /\ UNCHANGED <<retriesLeft, attempts, queue, logVars, lock, runVars, subVars,
                   cur, ev, todo, scanVars>>

Store(d) ==
    /\ pc[d] = "store"
    /\ stored' = stored \cup {cur[d]}
    /\ ev' = [ev EXCEPT ![d] = "done"]
    /\ Goto(d, "fire")
    /\ UNCHANGED <<jobVars, queue, emitted, lock, runVars, subVars, cur, todo, scanVars>>

RetryJob(d) ==
    /\ pc[d] = "except" /\ retriesLeft[cur[d]] > 0
    /\ retriesLeft' = [retriesLeft EXCEPT ![cur[d]] = @ - 1]
    /\ SetStatus(d, "pending")
    /\ Goto(d, "requeue")
    /\ UNCHANGED <<attempts, queue, logVars, lock, runVars, subVars, cur, ev, todo, scanVars>>

Requeue(d) ==
    /\ pc[d] = "requeue"
    /\ queue' = [queue EXCEPT ![d[1]] = <<cur[d]>> \o @]
    /\ cur' = [cur EXCEPT ![d] = None]
    /\ Goto(d, "top")
    /\ UNCHANGED <<jobVars, logVars, lock, runVars, subVars, ev, todo, scanVars>>

GiveUp(d) ==
    /\ pc[d] = "except" /\ retriesLeft[cur[d]] = 0
    /\ SetStatus(d, "failed")
    /\ ev' = [ev EXCEPT ![d] = "failed"]
    /\ Goto(d, "fire")
    /\ UNCHANGED <<retriesLeft, attempts, queue, logVars, lock, runVars, subVars,
                   cur, todo, scanVars>>

-----------------------------------------------------------------------------
(* The API thread between two requests.                                     *)

Cancel(j) ==
    /\ pc[Api] = "idle" /\ loading = "started" /\ status[j] = "pending"
    /\ status' = [status EXCEPT ![j] = "cancelled"]
    /\ cur' = [cur EXCEPT ![Api] = j]
    /\ ev' = [ev EXCEPT ![Api] = "cancelled"]
    /\ Goto(Api, "fire")
    /\ UNCHANGED <<retriesLeft, attempts, queue, logVars, lock, runVars, subVars,
                   todo, scanVars>>

Shutdown ==
    /\ MayShutdown /\ pc[Api] = "idle" /\ running
    /\ running' = FALSE
    /\ UNCHANGED <<jobVars, queue, logVars, lock, dispatch, loading, subVars,
                   pc, cur, ev, todo, scanVars>>

-----------------------------------------------------------------------------
Enqueue(t) ==
    \/ InstantiateRaises(t) \/ SkipKnown(t) \/ Register(t) \/ Insert(t)
    \/ EnsureAlive(t) \/ StartThread(t) \/ HandlersDone(t)

FireEvent(t) ==
    \/ Fire(t) \/ ScanRunsHandler(t) \/ ScanPasses(t) \/ ScanRaises(t)
    \/ ScanEnds(t) \/ RemoveFired(t) \/ RemoveRaises(t) \/ EventDone(t)

DispatchLoop(d) ==
    \/ Boot(d) \/ LoopTop(d) \/ Pop(d) \/ PopNothing(d) \/ Activate(d)
    \/ Acquire(d) \/ Execute(d) \/ Finish(d) \/ Store(d)
    \/ RetryJob(d) \/ Requeue(d) \/ GiveUp(d)

Next ==
    \/ \E t \in Threads : Enqueue(t) \/ FireEvent(t)
    \/ \E d \in Dispatchers : DispatchLoop(d)
    \/ \E j \in Cancellable : Cancel(j)
    \/ Shutdown

Spec == Init /\ [][Next]_vars

\* A started thread keeps running and HTTP calls end (httpx timeouts, the
\* bounded ComfyUI poll); nothing makes a client cancel or shut down.
Fairness ==
    /\ WF_vars(Enqueue(Api) \/ FireEvent(Api))
    /\ \A d \in Dispatchers : WF_vars(Enqueue(d) \/ FireEvent(d) \/ DispatchLoop(d))

FairSpec == Spec /\ Fairness

-----------------------------------------------------------------------------
(* Properties.                                                              *)

\* Every variable has the type the code gives it.
TypeOK ==
    /\ status \in [Jobs -> Statuses]
    /\ retriesLeft \in [Jobs -> Nat]
    /\ attempts \in [Jobs -> Nat]
    /\ queue \in [Workers -> Seq(Jobs)]
    /\ stored \subseteq Jobs
    /\ emitted \subseteq Jobs \X (EventTypes \ {"load"})
    /\ lock \in [Endpoints -> Dispatchers \cup {None}]
    /\ dispatch \in [Workers -> Dispatchers \cup {None}]
    /\ running \in BOOLEAN /\ loading \in {"loading", "started", "error"}
    /\ subs \in Seq(Subs)
    /\ ran \in [Subs -> Nat]
    /\ pc \in [Threads -> ApiPcs \cup DispatcherPcs]
    /\ pc[Api] \in ApiPcs /\ \A d \in Dispatchers : pc[d] \in DispatcherPcs
    /\ cur \in [Threads -> Jobs \cup {None}]
    /\ ev \in [Threads -> EventTypes]
    /\ todo \in [Threads -> Seq(Jobs)]
    /\ pos \in [Threads -> Nat \ {0}]
    /\ fired \in [Threads -> Seq(Subs)]

\* Two dispatch threads never call the same endpoint at once, whether they
\* serve two roles on one URL or are two threads of one worker (an endpoint is
\* what a lock stands for, not the server that a ComfyUI job names).
EndpointExclusive ==
    \A d, e \in Dispatchers :
        pc[d] = "exec" /\ pc[e] = "exec" /\ Endpoint(d) = Endpoint(e) => d = e

\* A dispatch thread owns the job it popped until it goes back for the next.
Working(d) == pc[d] \notin {"dead", "boot", "top", "pop"}
Holds(d, j) == Working(d) /\ cur[d] = j
Inserts(t, j) == pc[t] = "insert" /\ Target(t) = j
Queued(j) == \E w \in Workers : \E n \in 1..Len(queue[w]) : queue[w][n] = j

QueuedOnce ==
    \A w \in Workers : \A m, n \in 1..Len(queue[w]) : queue[w][m] = queue[w][n] => m = n
OneHand(j) ==
    /\ \A d, e \in Dispatchers : Holds(d, j) /\ Holds(e, j) => d = e
    /\ \A t, u \in Threads : Inserts(t, j) /\ Inserts(u, j) => t = u
    /\ \A d \in Dispatchers, t \in Threads : ~(Holds(d, j) /\ Inserts(t, j))
    /\ \A d \in Dispatchers : ~(Holds(d, j) /\ Queued(j))
    /\ \A t \in Threads : ~(Inserts(t, j) /\ Queued(j))

\* A job is never in two hands: not twice in a deque, not in a deque while a
\* thread runs it or is about to insert it, not with two threads.
SoleCustody == QueuedOnce /\ \A j \in Jobs : OneHand(j)

\* A job that is pending or active is never lost: it waits in a deque, or
\* some thread has it.
NoJobLost ==
    \A j \in Jobs : status[j] \in {"pending", "active"} =>
        \/ Queued(j)
        \/ \E d \in Dispatchers : Holds(d, j)
        \/ \E t \in Threads : Inserts(t, j)

\* A job is executed at most once more than its `retry`, even when a handler
\* error sends a finished job through the retry path.
AttemptsBounded == \A j \in Jobs : attempts[j] + retriesLeft[j] <= Retry[j] + 1

\* Only a job that used up all its retries is given up as failed.
FailedIsExhausted ==
    \A j \in Jobs : status[j] = "failed" => attempts[j] = Retry[j] + 1

\* In a deque a high-priority job has in front of it only high ones and jobs
\* put back for a retry.
HighFirst ==
    \A w \in Workers : \A m, n \in 1..Len(queue[w]) :
        m < n /\ Priority[queue[w][n]] = "high" =>
            Priority[queue[w][m]] = "high" \/ attempts[queue[w][m]] > 0

\* A job reported "done" has its result where handlers look for it.
ReportedIsStored == \A j \in Jobs : <<j, "done">> \in emitted => j \in stored

\* An all_done handler finds the results of all the jobs it waited for (the
\* comment at gateway_runtime.py:364: stored "for ... assembly handlers").
HandlerSeesResults ==
    [][\A s \in Subs : ran'[s] # ran[s] => WaitJobs[s] \subseteq stored]_vars

\* An all_done handler runs at most once (gateway_runtime.py:555).
FireOnce == \A s \in Subs : ran[s] <= 1

\* A "prefix.*" handler runs when all entities are done, not when the ones
\* enqueued so far are (WORKFLOW_V3_SPEC_DRAFT.md:175).
RunsAfterAll ==
    \A s \in Subs : ran[s] > 0 => \A f \in WaitFamilies[s] : AreDone(f)

\* cancel() returned True: the job is never run afterwards.
CancelledIsFinal ==
    [][\A j \in Jobs : status[j] = "cancelled" => status'[j] = "cancelled"]_vars

\* Every registered job of a role with a URL is settled in the end, unless
\* the runtime is shut down first.
JobsSettle ==
    \A j \in Jobs : EndpointOf[WorkerOf[j]] # None =>
        (status[j] = "pending" ~> status[j] \in Settled \/ ~running)

\* When everything an all_done handler waits for is done, it runs.
AllDoneRuns == \A s \in Subs : AllDone(s) ~> ran[s] > 0

\* After shutdown() every dispatch thread ends, and no endpoint lock is kept.
ShutdownEnds ==
    ~running ~> (\A d \in Dispatchers : pc[d] = "dead") /\ \A e \in Endpoints : lock[e] = None
=============================================================================
