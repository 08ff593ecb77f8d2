----------------------- MODULE GatewayRuntime_proofs -----------------------
(***************************************************************************)
(* Proofs about GatewayRuntime, for any workers, URLs, jobs, priorities,   *)
(* retries, handlers and subscriptions, and any number of dispatch threads.*)
(*                                                                         *)
(* The argument: a job is in one hand at a time (SoleCustody), so the      *)
(* status and retry budget of a held job are what the place of its thread  *)
(* in _dispatch_loop says (StageInv); and the thread inside a call is the  *)
(* owner its endpoint's lock records (LockInv).  IInv conjoins these with  *)
(* the types and what each thread has at hand (ThreadInv).                 *)
(***************************************************************************)
EXTENDS GatewayRuntime, SequenceTheorems, TLAPS

\* Inside _fire_event or the enqueue() calls its handlers make.
EventPcs == {"fire", "handlers", "insert", "ensure", "start", "scan", "remove"}

\* The inductive invariant, by parts.  First the threads: what each has at hand.
TodoInv == \A t \in Threads : pc[t] \in {"insert", "ensure", "start"} => todo[t] # <<>>
ApiInv ==
    /\ ev[Api] \in {"load", "cancelled"}
    /\ ev[Api] = "load" => pc[Api] \notin {"fire", "scan", "remove"}
    /\ ev[Api] = "cancelled" /\ pc[Api] # "idle" => cur[Api] \in Jobs
HoldInv == \A d \in Dispatchers :
    Working(d) => cur[d] \in Jobs /\ WorkerOf[cur[d]] = d[1]
EventInv == \A d \in Dispatchers : pc[d] \in EventPcs => ev[d] \in {"done", "failed"}
UrlInv == \A d \in Dispatchers : pc[d] \notin {"dead", "boot"} => Endpoint(d) \in Endpoints
QueueInv == \A w \in Workers : \A n \in 1..Len(queue[w]) : WorkerOf[queue[w][n]] = w
ThreadInv == TodoInv /\ ApiInv /\ HoldInv /\ EventInv /\ UrlInv /\ QueueInv

\* Threads are the dispatch threads and the API thread; None is none of them.
LEMMA ThreadFacts ==
    /\ Api \in Threads /\ Api \notin Dispatchers /\ None \notin Dispatchers
    /\ Dispatchers \subseteq Threads /\ Threads = Dispatchers \cup {Api}
    /\ \A d \in Dispatchers : d[1] \in Workers /\ EndpointOf[d[1]] \in Endpoints \cup {None}
    /\ None \notin Jobs /\ None \notin Endpoints
BY ThreadAssumption, JobAssumption DEF Threads, Dispatchers

\* A thread inside enqueue() has a job to enqueue.
LEMMA TargetFacts ==
    ASSUME TypeOK, TodoInv, NEW t \in Threads, pc[t] \in {"insert", "ensure", "start"}
    PROVE  Target(t) \in Jobs /\ WorkerOf[Target(t)] \in Workers /\ Tail(todo[t]) \in Seq(Jobs)
BY JobAssumption DEF TypeOK, TodoInv, Target

\* A working dispatch thread holds a job of its own worker.
LEMMA HeldFacts ==
    ASSUME TypeOK, HoldInv, NEW d \in Dispatchers, Working(d)
    PROVE  cur[d] \in Jobs /\ WorkerOf[cur[d]] = d[1]
BY DEF HoldInv

\* The all_done scan looks at a subscription.
LEMMA ScanFacts ==
    ASSUME TypeOK, NEW t \in Threads, InScan(t)
    PROVE  subs[pos[t]] \in Subs /\ pos[t] + 1 \in Nat \ {0}
BY DEF TypeOK, InScan

\* A thread that fires an event, or looks for what waited for it, has its job.
LEMMA FireFacts ==
    ASSUME TypeOK, ThreadInv, NEW t \in Threads, pc[t] \in {"fire", "scan"}
    PROVE  cur[t] \in Jobs /\ ev[t] \in {"done", "failed", "cancelled"}
<1>1. CASE t = Api  BY <1>1 DEF ThreadInv, ApiInv
<1>2. CASE t \in Dispatchers
  BY <1>2 DEF ThreadInv, HoldInv, EventInv, Working, EventPcs, ApiPcs
<1>. QED  BY <1>1, <1>2, ThreadFacts

\* What stays in a deque after a pop is a sequence of the same elements.
LEMMA SuffixType ==
    ASSUME NEW S, NEW q \in Seq(S), NEW n \in 1..Len(q)
    PROVE  SubSeq(q, n + 1, Len(q)) \in Seq(S)
<1>1. \A i \in (n + 1)..Len(q) : q[i] \in S  BY ElementOfSeq
<1>. QED  BY <1>1, SubSeqProperties

\* list.remove keeps the type of the list.
LEMMA RemoveAtType ==
    ASSUME NEW S, NEW q \in Seq(S), NEW n \in 1..Len(q)
    PROVE  RemoveAt(q, n) \in Seq(S)
<1>1. SubSeq(q, 1, n - 1) \in Seq(S)
  <2>1. \A i \in 1..(n - 1) : q[i] \in S  BY ElementOfSeq
  <2>. QED  BY <2>1, SubSeqProperties
<1>. QED  BY <1>1, SuffixType, ConcatProperties DEF RemoveAt

\* appendleft: the new element first, the others one place further.
LEMMA ConsFacts ==
    ASSUME NEW S, NEW q \in Seq(S), NEW j \in S
    PROVE  /\ <<j>> \o q \in Seq(S)
           /\ Len(<<j>> \o q) = Len(q) + 1
           /\ (<<j>> \o q)[1] = j
           /\ \A n \in 2..(Len(q) + 1) : n - 1 \in 1..Len(q) /\ (<<j>> \o q)[n] = q[n - 1]
<1>1. <<j>> \in Seq(S) /\ Len(<<j>>) = 1 /\ <<j>>[1] = j /\ Len(q) \in Nat
  OBVIOUS
<1>. QED  BY <1>1, ConcatProperties

\* Popping n elements: the others move n places to the front.
LEMMA SuffixFacts ==
    ASSUME NEW S, NEW q \in Seq(S), NEW n \in 1..Len(q)
    PROVE  LET r == SubSeq(q, n + 1, Len(q)) IN
             r \in Seq(S) /\ \A i \in 1..Len(r) : i + n \in 1..Len(q) /\ r[i] = q[i + n]
<1>1. \A i \in (n + 1)..Len(q) : q[i] \in S  BY ElementOfSeq
<1>2. Len(q) \in Nat  BY LenProperties
<1>. QED  BY <1>1, <1>2, SubSeqProperties

\* enqueue() puts a high job first and any other one last.
LEMMA InsertedFacts ==
    ASSUME NEW q \in Seq(Jobs), NEW j \in Jobs
    PROVE  LET r == Inserted(q, j) IN
             /\ r \in Seq(Jobs) /\ Len(r) = Len(q) + 1
             /\ \/ /\ Priority[j] = "high" /\ r[1] = j
                   /\ \A n \in 2..(Len(q) + 1) : n - 1 \in 1..Len(q) /\ r[n] = q[n - 1]
                \/ /\ Priority[j] # "high" /\ r[Len(q) + 1] = j
                   /\ \A n \in 1..Len(q) : r[n] = q[n]
<1>1. CASE Priority[j] = "high"  BY <1>1, ConsFacts DEF Inserted
<1>2. CASE Priority[j] # "high"  BY <1>2, AppendProperties DEF Inserted
<1>. QED  BY <1>1, <1>2

\* enqueue() adds no other job than the one it was given.
LEMMA InsertedElements ==
    ASSUME NEW q \in Seq(Jobs), NEW j \in Jobs
    PROVE  \A n \in 1..Len(Inserted(q, j)) :
             Inserted(q, j)[n] = j \/ \E m \in 1..Len(q) : Inserted(q, j)[n] = q[m]
<1>. DEFINE r == Inserted(q, j)
<1>1. Len(q) \in Nat /\ Len(r) = Len(q) + 1  BY InsertedFacts, LenProperties
<1>2. CASE Priority[j] = "high"
  <2>1. r[1] = j /\ \A n \in 2..(Len(q) + 1) : n - 1 \in 1..Len(q) /\ r[n] = q[n - 1]
    BY <1>2, InsertedFacts
  <2>. QED  BY <1>1, <2>1
<1>3. CASE Priority[j] # "high"
  <2>1. r[Len(q) + 1] = j /\ \A n \in 1..Len(q) : r[n] = q[n]  BY <1>3, InsertedFacts
  <2>. QED  BY <1>1, <2>1
<1>. QED  BY <1>2, <1>3

\* enqueue() keeps every job of the deque in it.
LEMMA InsertedKeeps ==
    ASSUME NEW q \in Seq(Jobs), NEW j \in Jobs, NEW k \in 1..Len(q)
    PROVE  \E n \in 1..Len(Inserted(q, j)) : Inserted(q, j)[n] = q[k]
<1>. DEFINE r == Inserted(q, j)
<1>1. Len(q) \in Nat /\ Len(r) = Len(q) + 1  BY InsertedFacts, LenProperties
<1>2. CASE Priority[j] = "high"
  <2>1. \A n \in 2..(Len(q) + 1) : r[n] = q[n - 1]  BY <1>2, InsertedFacts
  <2>. HIDE DEF r
  <2>2. k + 1 \in 2..(Len(q) + 1) /\ k + 1 - 1 = k /\ k + 1 \in 1..Len(r)  BY <1>1
  <2>3. r[k + 1] = q[k]  BY <2>1, <2>2
  <2>. QED  BY <2>2, <2>3 DEF r
<1>3. CASE Priority[j] # "high"
  <2>1. r[k] = q[k]  BY <1>3, InsertedFacts
  <2>. QED  BY <1>1, <2>1
<1>. QED  BY <1>2, <1>3

\* Every step keeps the types.
LEMMA TypeStep == TypeOK /\ ThreadInv /\ [Next]_vars => TypeOK'
<1>. SUFFICES ASSUME TypeOK, ThreadInv, [Next]_vars PROVE TypeOK' OBVIOUS
<1>. USE DEF ThreadInv
<1>1. ASSUME NEW t \in Threads, InstantiateRaises(t) PROVE TypeOK'
  <2>1. pc' \in [Threads -> ApiPcs \cup DispatcherPcs]
    BY <1>1, ThreadFacts DEF TypeOK, InstantiateRaises, Target, Raise, Catch, Goto, ApiPcs,
         DispatcherPcs
  <2>2. pc'[Api] \in ApiPcs /\ \A e \in Dispatchers : pc'[e] \in DispatcherPcs
    BY <1>1, ThreadFacts DEF TypeOK, InstantiateRaises, Target, Raise, Catch, Goto, ApiPcs,
         DispatcherPcs
  <2>3. loading' \in {"loading", "started", "error"}
    BY <1>1, ThreadFacts DEF TypeOK, InstantiateRaises, Target, Raise, Catch, Goto
  <2>4. todo' \in [Threads -> Seq(Jobs)]
    BY <1>1, ThreadFacts DEF TypeOK, InstantiateRaises, Target, Raise, Catch, Goto
  <2>. QED
    BY <1>1, <2>1, <2>2, <2>3, <2>4 DEF TypeOK, InstantiateRaises, Target, Raise, Catch, Goto,
         jobVars, logVars, runVars, subVars, scanVars
<1>2. ASSUME NEW t \in Threads, SkipKnown(t) PROVE TypeOK'
  <2>1. todo' \in [Threads -> Seq(Jobs)]
    BY <1>2, ThreadFacts DEF TypeOK, SkipKnown, Instantiable, Target
  <2>. QED
    BY <1>2, <2>1 DEF TypeOK, SkipKnown, Instantiable, Target, jobVars, logVars, runVars,
         subVars, scanVars
<1>3. ASSUME NEW t \in Threads, Register(t) PROVE TypeOK'
  <2>1. status' \in [Jobs -> Statuses]
    BY <1>3, ThreadFacts DEF TypeOK, Register, Instantiable, Target, Goto, Statuses
  <2>2. pc' \in [Threads -> ApiPcs \cup DispatcherPcs]
    BY <1>3, ThreadFacts DEF TypeOK, Register, Instantiable, Target, Goto, ApiPcs, DispatcherPcs
  <2>3. pc'[Api] \in ApiPcs /\ \A e \in Dispatchers : pc'[e] \in DispatcherPcs
    BY <1>3, ThreadFacts DEF TypeOK, Register, Instantiable, Target, Goto, ApiPcs, DispatcherPcs
  <2>. QED
    BY <1>3, <2>1, <2>2, <2>3 DEF TypeOK, Register, Instantiable, Target, Goto, jobVars, logVars,
         runVars, subVars, scanVars
<1>4. ASSUME NEW t \in Threads, Insert(t) PROVE TypeOK'
  <2>1. queue' \in [Workers -> Seq(Jobs)]
    BY <1>4, ThreadFacts, TargetFacts, AppendProperties, ConcatProperties, SMTT(20) DEF TypeOK, Insert,
         Inserted
  <2>2. pc' \in [Threads -> ApiPcs \cup DispatcherPcs]
    BY <1>4, ThreadFacts DEF TypeOK, Insert, Target, Inserted, Goto, ApiPcs, DispatcherPcs
  <2>3. pc'[Api] \in ApiPcs /\ \A e \in Dispatchers : pc'[e] \in DispatcherPcs
    BY <1>4, ThreadFacts DEF TypeOK, Insert, Target, Inserted, Goto, ApiPcs, DispatcherPcs
  <2>. QED
    BY <1>4, <2>1, <2>2, <2>3 DEF TypeOK, Insert, Target, Inserted, Goto, jobVars, logVars,
         runVars, subVars, scanVars
<1>5. ASSUME NEW t \in Threads, EnsureAlive(t) PROVE TypeOK'
  <2>1. pc' \in [Threads -> ApiPcs \cup DispatcherPcs]
    <3>1. pc' = [pc EXCEPT ![t] = "handlers"] \/ pc' = [pc EXCEPT ![t] = "start"]
      BY <1>5 DEF EnsureAlive, Goto
    <3>. QED  BY <3>1 DEF TypeOK, ApiPcs
  <2>2. pc'[Api] \in ApiPcs /\ \A e \in Dispatchers : pc'[e] \in DispatcherPcs
    BY <1>5, ThreadFacts, ZenonT(30) DEF TypeOK, EnsureAlive, Target, Goto, ApiPcs, DispatcherPcs
  <2>3. todo' \in [Threads -> Seq(Jobs)]
    <3>1. todo' = [todo EXCEPT ![t] = Tail(todo[t])] \/ todo' = todo
      BY <1>5 DEF EnsureAlive
    <3>2. Tail(todo[t]) \in Seq(Jobs)  BY <1>5, TargetFacts DEF EnsureAlive
    <3>. QED  BY <3>1, <3>2 DEF TypeOK
  <2>. QED
    BY <1>5, <2>1, <2>2, <2>3 DEF TypeOK, EnsureAlive, Target, Goto, jobVars, logVars, runVars,
         subVars, scanVars
<1>6. ASSUME NEW t \in Threads, StartThread(t) PROVE TypeOK'
  <2>1. dispatch' \in [Workers -> Dispatchers \cup {None}]
    BY <1>6, ThreadFacts DEF TypeOK, StartThread
  <2>2. pc' \in [Threads -> ApiPcs \cup DispatcherPcs]
    BY <1>6, ThreadFacts, ZenonT(30) DEF TypeOK, StartThread, Target, ApiPcs, DispatcherPcs
  <2>3. pc'[Api] \in ApiPcs /\ \A e \in Dispatchers : pc'[e] \in DispatcherPcs
    BY <1>6, ThreadFacts DEF TypeOK, StartThread, Target, ApiPcs, DispatcherPcs
  <2>4. todo' \in [Threads -> Seq(Jobs)]
    BY <1>6, TargetFacts DEF TypeOK, StartThread
  <2>. QED
    BY <1>6, <2>1, <2>2, <2>3, <2>4 DEF TypeOK, StartThread, Target, jobVars, logVars, runVars,
         subVars, scanVars
<1>7. ASSUME NEW t \in Threads, HandlersDone(t) PROVE TypeOK'
  <2>1. pc' \in [Threads -> ApiPcs \cup DispatcherPcs]
    BY <1>7, ThreadFacts DEF TypeOK, HandlersDone, Goto, ApiPcs, DispatcherPcs
  <2>2. pc'[Api] \in ApiPcs /\ \A e \in Dispatchers : pc'[e] \in DispatcherPcs
    BY <1>7, ThreadFacts DEF TypeOK, EventInv, EventPcs, HandlersDone, Goto, ApiPcs, DispatcherPcs
  <2>3. loading' \in {"loading", "started", "error"}
    BY <1>7, ThreadFacts DEF TypeOK, HandlersDone, Goto
  <2>. QED
    BY <1>7, <2>1, <2>2, <2>3 DEF TypeOK, HandlersDone, Goto, jobVars, logVars, runVars, subVars,
         scanVars
<1>8. ASSUME NEW t \in Threads, Fire(t) PROVE TypeOK'
  <2>1. emitted' \subseteq Jobs \X (EventTypes \ {"load"})
    BY <1>8, FireFacts, SMTT(20) DEF TypeOK, EventTypes, Fire
  <2>2. todo' \in [Threads -> Seq(Jobs)]
    <3>1. Then[cur[t]][ev[t]] \in Seq(Jobs)  BY <1>8, FireFacts, WorkflowAssumption DEF Fire
    <3>. QED  BY <1>8, <3>1 DEF TypeOK, Fire
  <2>3. pos' \in [Threads -> Nat \ {0}]
    BY <1>8, ThreadFacts DEF TypeOK, Fire, Goto
  <2>4. fired' \in [Threads -> Seq(Subs)]
    BY <1>8, ThreadFacts DEF TypeOK, Fire, Goto
  <2>5. pc' \in [Threads -> ApiPcs \cup DispatcherPcs]
    BY <1>8, ThreadFacts DEF TypeOK, Fire, Goto, ApiPcs, DispatcherPcs
  <2>6. pc'[Api] \in ApiPcs /\ \A e \in Dispatchers : pc'[e] \in DispatcherPcs
    BY <1>8, ThreadFacts DEF TypeOK, Fire, Goto, ApiPcs, DispatcherPcs
  <2>. QED
    BY <1>8, <2>1, <2>2, <2>3, <2>4, <2>5, <2>6 DEF TypeOK, Fire, Goto, jobVars, logVars,
         runVars, subVars, scanVars
<1>9. ASSUME NEW t \in Threads, ScanRunsHandler(t) PROVE TypeOK'
  <2>1. todo' \in [Threads -> Seq(Jobs)]
    <3>1. cur[t] \in Jobs  BY <1>9, FireFacts DEF ScanRunsHandler, InScan
    <3>2. SubThen[subs[pos[t]]][cur[t]] \in Seq(Jobs)
      BY <1>9, <3>1, ScanFacts, WorkflowAssumption DEF ScanRunsHandler
    <3>. QED  BY <1>9, <3>2 DEF TypeOK, ScanRunsHandler
  <2>2. fired' \in [Threads -> Seq(Subs)]
    BY <1>9, ScanFacts DEF TypeOK, ScanRunsHandler
  <2>3. ran' \in [Subs -> Nat]
    <3>1. ran[subs[pos[t]]] + 1 \in Nat  BY <1>9, ScanFacts, SMTT(20) DEF TypeOK, ScanRunsHandler
    <3>. QED  BY <1>9, <3>1 DEF TypeOK, ScanRunsHandler
  <2>4. pos' \in [Threads -> Nat \ {0}]
    BY <1>9, ScanFacts DEF TypeOK, ScanRunsHandler
  <2>5. pc' \in [Threads -> ApiPcs \cup DispatcherPcs]
    BY <1>9, ThreadFacts DEF TypeOK, ScanRunsHandler, InScan, Goto, ApiPcs, DispatcherPcs
  <2>6. pc'[Api] \in ApiPcs /\ \A e \in Dispatchers : pc'[e] \in DispatcherPcs
    BY <1>9, ThreadFacts DEF TypeOK, ScanRunsHandler, InScan, Goto, ApiPcs, DispatcherPcs
  <2>. QED
    BY <1>9, <2>1, <2>2, <2>3, <2>4, <2>5, <2>6 DEF TypeOK, ScanRunsHandler, InScan, Goto,
         jobVars, logVars, runVars, subVars, scanVars
<1>10. ASSUME NEW t \in Threads, ScanPasses(t) PROVE TypeOK'
  <2>1. pos' \in [Threads -> Nat \ {0}]
    BY <1>10, ScanFacts DEF TypeOK, ScanPasses
  <2>. QED
    BY <1>10, <2>1 DEF TypeOK, ScanPasses, InScan, jobVars, logVars, runVars, subVars, scanVars
<1>11. ASSUME NEW t \in Threads, ScanRaises(t) PROVE TypeOK'
  <2>1. pc' \in [Threads -> ApiPcs \cup DispatcherPcs]
    BY <1>11, ThreadFacts DEF TypeOK, ScanRaises, InScan, Raise, Catch, Goto, ApiPcs,
         DispatcherPcs
  <2>2. pc'[Api] \in ApiPcs /\ \A e \in Dispatchers : pc'[e] \in DispatcherPcs
    BY <1>11, ThreadFacts DEF TypeOK, ScanRaises, InScan, Raise, Catch, Goto, ApiPcs,
         DispatcherPcs
  <2>3. loading' \in {"loading", "started", "error"}
    BY <1>11, ThreadFacts DEF TypeOK, ScanRaises, InScan, Raise, Catch, Goto
  <2>4. todo' \in [Threads -> Seq(Jobs)]
    BY <1>11, ThreadFacts DEF TypeOK, ScanRaises, InScan, Raise, Catch, Goto
  <2>. QED
    BY <1>11, <2>1, <2>2, <2>3, <2>4 DEF TypeOK, ScanRaises, InScan, Raise, Catch, Goto, jobVars,
         logVars, runVars, subVars, scanVars
<1>12. ASSUME NEW t \in Threads, ScanEnds(t) PROVE TypeOK'
  <2>1. pc' \in [Threads -> ApiPcs \cup DispatcherPcs]
    BY <1>12, ThreadFacts DEF TypeOK, ScanEnds, Goto, ApiPcs, DispatcherPcs
  <2>2. pc'[Api] \in ApiPcs /\ \A e \in Dispatchers : pc'[e] \in DispatcherPcs
    BY <1>12, ThreadFacts DEF TypeOK, ScanEnds, Goto, ApiPcs, DispatcherPcs
  <2>. QED
    BY <1>12, <2>1, <2>2 DEF TypeOK, ScanEnds, Goto, jobVars, logVars, runVars, subVars, scanVars
<1>13. ASSUME NEW t \in Threads, RemoveFired(t) PROVE TypeOK'
  <2>1. subs' \in Seq(Subs)
    BY <1>13, RemoveAtType DEF TypeOK, RemoveFired
  <2>2. fired' \in [Threads -> Seq(Subs)]
    BY <1>13, ThreadFacts DEF TypeOK, RemoveFired
  <2>. QED
    BY <1>13, <2>1, <2>2 DEF TypeOK, RemoveFired, jobVars, logVars, runVars, subVars, scanVars
<1>14. ASSUME NEW t \in Threads, RemoveRaises(t) PROVE TypeOK'
  <2>1. pc' \in [Threads -> ApiPcs \cup DispatcherPcs]
    BY <1>14, ThreadFacts DEF TypeOK, RemoveRaises, Raise, Catch, Goto, ApiPcs, DispatcherPcs
  <2>2. pc'[Api] \in ApiPcs /\ \A e \in Dispatchers : pc'[e] \in DispatcherPcs
    BY <1>14, ThreadFacts DEF TypeOK, RemoveRaises, Raise, Catch, Goto, ApiPcs, DispatcherPcs
  <2>3. loading' \in {"loading", "started", "error"}
    BY <1>14, ThreadFacts DEF TypeOK, RemoveRaises, Raise, Catch, Goto
  <2>4. todo' \in [Threads -> Seq(Jobs)]
    BY <1>14, ThreadFacts DEF TypeOK, RemoveRaises, Raise, Catch, Goto
  <2>. QED
    BY <1>14, <2>1, <2>2, <2>3, <2>4 DEF TypeOK, RemoveRaises, Raise, Catch, Goto, jobVars,
         logVars, runVars, subVars, scanVars
<1>15. ASSUME NEW t \in Threads, EventDone(t) PROVE TypeOK'
  <2>1. pc' \in [Threads -> ApiPcs \cup DispatcherPcs]
    BY <1>15, ThreadFacts DEF TypeOK, EventDone, Goto, ApiPcs, DispatcherPcs
  <2>2. pc'[Api] \in ApiPcs /\ \A e \in Dispatchers : pc'[e] \in DispatcherPcs
    BY <1>15, ThreadFacts DEF TypeOK, EventDone, Goto, ApiPcs, DispatcherPcs
  <2>3. cur' \in [Threads -> Jobs \cup {None}]
    BY <1>15, ThreadFacts DEF TypeOK, EventDone, Goto
  <2>. QED
    BY <1>15, <2>1, <2>2, <2>3 DEF TypeOK, EventDone, Goto, jobVars, logVars, runVars, subVars,
         scanVars
<1>16. ASSUME NEW d \in Dispatchers, Boot(d) PROVE TypeOK'
  <2>1. pc' \in [Threads -> ApiPcs \cup DispatcherPcs]
    BY <1>16, ThreadFacts DEF TypeOK, Boot, Goto, ApiPcs, DispatcherPcs
  <2>2. pc'[Api] \in ApiPcs /\ \A e \in Dispatchers : pc'[e] \in DispatcherPcs
    BY <1>16, ThreadFacts DEF TypeOK, Boot, Goto, ApiPcs, DispatcherPcs
  <2>. QED
    BY <1>16, <2>1, <2>2 DEF TypeOK, Boot, Goto, jobVars, logVars, runVars, subVars, scanVars
<1>17. ASSUME NEW d \in Dispatchers, LoopTop(d) PROVE TypeOK'
  <2>1. pc' \in [Threads -> ApiPcs \cup DispatcherPcs]
    BY <1>17, ThreadFacts DEF TypeOK, LoopTop, Goto, ApiPcs, DispatcherPcs
  <2>2. pc'[Api] \in ApiPcs /\ \A e \in Dispatchers : pc'[e] \in DispatcherPcs
    BY <1>17, ThreadFacts DEF TypeOK, LoopTop, Goto, ApiPcs, DispatcherPcs
  <2>. QED
    BY <1>17, <2>1, <2>2 DEF TypeOK, LoopTop, Goto, jobVars, logVars, runVars, subVars, scanVars
<1>18. ASSUME NEW d \in Dispatchers, Pop(d) PROVE TypeOK'
  <2>1. cur' \in [Threads -> Jobs \cup {None}]
    BY <1>18, ThreadFacts, SMTT(20) DEF TypeOK, Pop
  <2>2. queue' \in [Workers -> Seq(Jobs)]
    <3>1. d[1] \in Workers /\ queue[d[1]] \in Seq(Jobs)  BY ThreadFacts DEF TypeOK
    <3>2. PICK n \in 1..Len(queue[d[1]]) :
            queue' = [queue EXCEPT ![d[1]] = SubSeq(queue[d[1]], n + 1, Len(queue[d[1]]))]
      BY <1>18, <3>1 DEF Pop, TypeOK
    <3>3. SubSeq(queue[d[1]], n + 1, Len(queue[d[1]])) \in Seq(Jobs)  BY <3>1, SuffixType
    <3>. QED  BY <3>1, <3>2, <3>3 DEF TypeOK
  <2>3. pc' \in [Threads -> ApiPcs \cup DispatcherPcs]
    BY <1>18, ThreadFacts DEF TypeOK, Pop, Goto, FirstPending, ApiPcs, DispatcherPcs
  <2>4. pc'[Api] \in ApiPcs /\ \A e \in Dispatchers : pc'[e] \in DispatcherPcs
    BY <1>18, ThreadFacts DEF TypeOK, Pop, Goto, FirstPending, ApiPcs, DispatcherPcs
  <2>. QED
    BY <1>18, <2>1, <2>2, <2>3, <2>4 DEF TypeOK, Pop, Goto, FirstPending, jobVars, logVars,
         runVars, subVars, scanVars
<1>19. ASSUME NEW d \in Dispatchers, PopNothing(d) PROVE TypeOK'
  <2>1. queue' \in [Workers -> Seq(Jobs)]
    BY <1>19, ThreadFacts DEF TypeOK, PopNothing, Goto
  <2>2. pc' \in [Threads -> ApiPcs \cup DispatcherPcs]
    BY <1>19, ThreadFacts DEF TypeOK, PopNothing, Goto, ApiPcs, DispatcherPcs
  <2>3. pc'[Api] \in ApiPcs /\ \A e \in Dispatchers : pc'[e] \in DispatcherPcs
    BY <1>19, ThreadFacts DEF TypeOK, PopNothing, Goto, ApiPcs, DispatcherPcs
  <2>. QED
    BY <1>19, <2>1, <2>2, <2>3 DEF TypeOK, PopNothing, Goto, jobVars, logVars, runVars, subVars,
         scanVars
<1>20. ASSUME NEW d \in Dispatchers, Activate(d) PROVE TypeOK'
  <2>1. status' \in [Jobs -> Statuses]
    BY <1>20, ThreadFacts DEF TypeOK, Activate, SetStatus, Goto, Statuses
  <2>2. pc' \in [Threads -> ApiPcs \cup DispatcherPcs]
    BY <1>20, ThreadFacts DEF TypeOK, Activate, SetStatus, Goto, ApiPcs, DispatcherPcs
  <2>3. pc'[Api] \in ApiPcs /\ \A e \in Dispatchers : pc'[e] \in DispatcherPcs
    BY <1>20, ThreadFacts DEF TypeOK, Activate, SetStatus, Goto, ApiPcs, DispatcherPcs
  <2>. QED
    BY <1>20, <2>1, <2>2, <2>3 DEF TypeOK, Activate, SetStatus, Goto, jobVars, logVars, runVars,
         subVars, scanVars
<1>21. ASSUME NEW d \in Dispatchers, Acquire(d) PROVE TypeOK'
  <2>1. lock' \in [Endpoints -> Dispatchers \cup {None}]
    BY <1>21, ThreadFacts DEF TypeOK, Acquire, Goto
  <2>2. attempts' \in [Jobs -> Nat]
    <3>1. cur[d] \in Jobs  BY <1>21, HeldFacts DEF Working, Acquire
    <3>. QED  BY <1>21, <3>1 DEF TypeOK, Acquire
  <2>3. pc' \in [Threads -> ApiPcs \cup DispatcherPcs]
    BY <1>21, ThreadFacts DEF TypeOK, Acquire, Goto, ApiPcs, DispatcherPcs
  <2>4. pc'[Api] \in ApiPcs /\ \A e \in Dispatchers : pc'[e] \in DispatcherPcs
    BY <1>21, ThreadFacts DEF TypeOK, Acquire, Goto, ApiPcs, DispatcherPcs
  <2>. QED
    BY <1>21, <2>1, <2>2, <2>3, <2>4 DEF TypeOK, Acquire, Goto, jobVars, logVars, runVars,
         subVars, scanVars
<1>22. ASSUME NEW d \in Dispatchers, Execute(d) PROVE TypeOK'
  <2>1. lock' \in [Endpoints -> Dispatchers \cup {None}]
    BY <1>22, ThreadFacts DEF TypeOK, Execute, Goto
  <2>2. pc' \in [Threads -> ApiPcs \cup DispatcherPcs]
    BY <1>22, ThreadFacts DEF TypeOK, Execute, Goto, ApiPcs, DispatcherPcs
  <2>3. pc'[Api] \in ApiPcs /\ \A e \in Dispatchers : pc'[e] \in DispatcherPcs
    BY <1>22, ThreadFacts DEF TypeOK, Execute, Goto, ApiPcs, DispatcherPcs
  <2>. QED
    BY <1>22, <2>1, <2>2, <2>3 DEF TypeOK, Execute, Goto, jobVars, logVars, runVars, subVars,
         scanVars
<1>23. ASSUME NEW d \in Dispatchers, Finish(d) PROVE TypeOK'
  <2>1. status' \in [Jobs -> Statuses]
    BY <1>23, ThreadFacts DEF TypeOK, Finish, SetStatus, Goto, Statuses
  <2>2. pc' \in [Threads -> ApiPcs \cup DispatcherPcs]
    BY <1>23, ThreadFacts DEF TypeOK, Finish, SetStatus, Goto, ApiPcs, DispatcherPcs
  <2>3. pc'[Api] \in ApiPcs /\ \A e \in Dispatchers : pc'[e] \in DispatcherPcs
    BY <1>23, ThreadFacts DEF TypeOK, Finish, SetStatus, Goto, ApiPcs, DispatcherPcs
  <2>. QED
    BY <1>23, <2>1, <2>2, <2>3 DEF TypeOK, Finish, SetStatus, Goto, jobVars, logVars, runVars,
         subVars, scanVars
<1>24. ASSUME NEW d \in Dispatchers, Store(d) PROVE TypeOK'
  <2>1. stored' \subseteq Jobs
    BY <1>24, HeldFacts DEF TypeOK, Working, Store, Goto
  <2>2. ev' \in [Threads -> EventTypes]
    BY <1>24, ThreadFacts DEF TypeOK, Store, Goto, EventTypes
  <2>3. pc' \in [Threads -> ApiPcs \cup DispatcherPcs]
    BY <1>24, ThreadFacts DEF TypeOK, Store, Goto, ApiPcs, DispatcherPcs
  <2>4. pc'[Api] \in ApiPcs /\ \A e \in Dispatchers : pc'[e] \in DispatcherPcs
    BY <1>24, ThreadFacts DEF TypeOK, Store, Goto, ApiPcs, DispatcherPcs
  <2>. QED
    BY <1>24, <2>1, <2>2, <2>3, <2>4 DEF TypeOK, Store, Goto, jobVars, logVars, runVars, subVars,
         scanVars
<1>25. ASSUME NEW d \in Dispatchers, RetryJob(d) PROVE TypeOK'
  <2>1. retriesLeft' \in [Jobs -> Nat]
    <3>1. cur[d] \in Jobs  BY <1>25, HeldFacts DEF Working, RetryJob
    <3>2. retriesLeft[cur[d]] - 1 \in Nat  BY <1>25, <3>1 DEF TypeOK, RetryJob
    <3>. QED  BY <1>25, <3>2 DEF TypeOK, RetryJob
  <2>2. status' \in [Jobs -> Statuses]
    BY <1>25, ThreadFacts DEF TypeOK, RetryJob, SetStatus, Goto, Statuses
  <2>3. pc' \in [Threads -> ApiPcs \cup DispatcherPcs]
    BY <1>25, ThreadFacts DEF TypeOK, RetryJob, SetStatus, Goto, ApiPcs, DispatcherPcs
  <2>4. pc'[Api] \in ApiPcs /\ \A e \in Dispatchers : pc'[e] \in DispatcherPcs
    BY <1>25, ThreadFacts DEF TypeOK, RetryJob, SetStatus, Goto, ApiPcs, DispatcherPcs
  <2>. QED
    BY <1>25, <2>1, <2>2, <2>3, <2>4 DEF TypeOK, RetryJob, SetStatus, Goto, jobVars, logVars,
         runVars, subVars, scanVars
<1>26. ASSUME NEW d \in Dispatchers, Requeue(d) PROVE TypeOK'
  <2>1. queue' \in [Workers -> Seq(Jobs)]
    <3>1. cur[d] \in Jobs  BY <1>26, HeldFacts DEF Working, Requeue
    <3>2. d[1] \in Workers /\ queue[d[1]] \in Seq(Jobs)  BY ThreadFacts DEF TypeOK
    <3>3. <<cur[d]>> \o queue[d[1]] \in Seq(Jobs)  BY <3>1, <3>2, ConcatProperties
    <3>. QED  BY <1>26, <3>2, <3>3 DEF TypeOK, Requeue
  <2>2. cur' \in [Threads -> Jobs \cup {None}]
    BY <1>26, ThreadFacts DEF TypeOK, Requeue, Goto
  <2>3. pc' \in [Threads -> ApiPcs \cup DispatcherPcs]
    BY <1>26, ThreadFacts DEF TypeOK, Requeue, Goto, ApiPcs, DispatcherPcs
  <2>4. pc'[Api] \in ApiPcs /\ \A e \in Dispatchers : pc'[e] \in DispatcherPcs
    BY <1>26, ThreadFacts DEF TypeOK, Requeue, Goto, ApiPcs, DispatcherPcs
  <2>. QED
    BY <1>26, <2>1, <2>2, <2>3, <2>4 DEF TypeOK, Requeue, Goto, jobVars, logVars, runVars,
         subVars, scanVars
<1>27. ASSUME NEW d \in Dispatchers, GiveUp(d) PROVE TypeOK'
  <2>1. status' \in [Jobs -> Statuses]
    BY <1>27, ThreadFacts DEF TypeOK, GiveUp, SetStatus, Goto, Statuses
  <2>2. ev' \in [Threads -> EventTypes]
    BY <1>27, ThreadFacts DEF TypeOK, GiveUp, SetStatus, Goto, EventTypes
  <2>3. pc' \in [Threads -> ApiPcs \cup DispatcherPcs]
    BY <1>27, ThreadFacts DEF TypeOK, GiveUp, SetStatus, Goto, ApiPcs, DispatcherPcs
  <2>4. pc'[Api] \in ApiPcs /\ \A e \in Dispatchers : pc'[e] \in DispatcherPcs
    BY <1>27, ThreadFacts DEF TypeOK, GiveUp, SetStatus, Goto, ApiPcs, DispatcherPcs
  <2>. QED
    BY <1>27, <2>1, <2>2, <2>3, <2>4 DEF TypeOK, GiveUp, SetStatus, Goto, jobVars, logVars,
         runVars, subVars, scanVars
<1>28. ASSUME NEW j \in Cancellable, Cancel(j) PROVE TypeOK'
  <2>1. status' \in [Jobs -> Statuses]
    BY <1>28, ThreadFacts, WorkflowAssumption DEF TypeOK, Cancel, Goto, Statuses
  <2>2. cur' \in [Threads -> Jobs \cup {None}]
    BY <1>28, ThreadFacts, WorkflowAssumption DEF TypeOK, Cancel, Goto
  <2>3. ev' \in [Threads -> EventTypes]
    BY <1>28, ThreadFacts, WorkflowAssumption DEF TypeOK, Cancel, Goto, EventTypes
  <2>4. pc' \in [Threads -> ApiPcs \cup DispatcherPcs]
    BY <1>28, ThreadFacts, WorkflowAssumption DEF TypeOK, Cancel, Goto, ApiPcs, DispatcherPcs
  <2>5. pc'[Api] \in ApiPcs /\ \A e \in Dispatchers : pc'[e] \in DispatcherPcs
    BY <1>28, ThreadFacts, WorkflowAssumption DEF TypeOK, Cancel, Goto, ApiPcs, DispatcherPcs
  <2>. QED
    BY <1>28, <2>1, <2>2, <2>3, <2>4, <2>5 DEF TypeOK, Cancel, Goto, jobVars, logVars, runVars,
         subVars, scanVars
<1>29. ASSUME Shutdown PROVE TypeOK'
  <2>1. running' \in BOOLEAN
    BY <1>29 DEF Shutdown
  <2>. QED
    BY <1>29, <2>1 DEF TypeOK, Shutdown, jobVars, logVars, runVars, subVars, scanVars
<1>30. CASE UNCHANGED vars
  BY <1>30 DEF TypeOK, vars, jobVars, logVars, runVars, subVars, scanVars
<1>. QED
  BY <1>1, <1>2, <1>3, <1>4, <1>5, <1>6, <1>7, <1>8, <1>9, <1>10, <1>11, <1>12, <1>13, <1>14,
       <1>15, <1>16, <1>17, <1>18, <1>19, <1>20, <1>21, <1>22, <1>23, <1>24, <1>25, <1>26, <1>27,
       <1>28, <1>29, <1>30 DEF Next, Enqueue, FireEvent, DispatchLoop

\* What the step of another thread leaves thread u.
Kept(u) ==
    /\ cur'[u] = cur[u] /\ ev'[u] = ev[u] /\ todo'[u] = todo[u]
    /\ pc'[u] = pc[u] \/ (u \in Dispatchers /\ pc'[u] = "boot")

\* Where a thread can go from inside _fire_event and enqueue.
EventMove(t) ==
    /\ pc[t] \in EventPcs /\ ev'[t] = ev[t]
    /\ \/ pc'[t] \in (IF t = Api THEN {"idle"} ELSE {"dead", "top"})
       \/ cur'[t] = cur[t] /\ pc'[t] \in EventPcs
       \/ cur'[t] = cur[t] /\ pc'[t] = "except" /\ ev[t] = "done" /\ t # Api
    /\ pc'[t] \in {"scan", "remove"} => ev[t] # "load"
    /\ pc'[t] \notin {"fire", "exec"} /\ (pc'[t] = "insert" => Register(t))
    /\ pc'[t] \in {"insert", "ensure", "start"} => todo'[t] # <<>>

\* Where a step of _dispatch_loop can take its thread.
LoopMove(d) ==
    /\ pc'[d] \notin {"insert", "ensure", "start"}
    /\ pc'[d] \in EventPcs => ev'[d] \in {"done", "failed"}
    /\ pc'[d] \notin {"dead", "boot"} => Endpoint(d) \in Endpoints
    /\ pc'[d] \notin {"dead", "boot", "top", "pop"} =>
         /\ cur'[d] \in Jobs /\ WorkerOf[cur'[d]] = d[1]
         /\ Pop(d) \/ (Working(d) /\ cur'[d] = cur[d])
    /\ pc'[d] = "exec" => Acquire(d)

\* A step of one thread changes the program counter, job and event of another
\* dispatch thread in no way, except that it may start a dead one.
LEMMA OthersKept ==
    ASSUME TypeOK, [Next]_vars, NEW u \in Threads, ~Enqueue(u), ~FireEvent(u),
           u \in Dispatchers => ~DispatchLoop(u), u # Api \/ \A j \in Cancellable : ~Cancel(j)
    PROVE  Kept(u)
<1>1. ASSUME NEW t \in Threads, InstantiateRaises(t), t # u PROVE Kept(u)
  BY <1>1, ThreadFacts DEF TypeOK, Kept, InstantiateRaises, Raise, Goto
<1>2. ASSUME NEW t \in Threads, SkipKnown(t), t # u PROVE Kept(u)
  BY <1>2, ThreadFacts DEF TypeOK, Kept, SkipKnown
<1>3. ASSUME NEW t \in Threads, Register(t), t # u PROVE Kept(u)
  BY <1>3, ThreadFacts DEF TypeOK, Kept, Register, Goto
<1>4. ASSUME NEW t \in Threads, Insert(t), t # u PROVE Kept(u)
  BY <1>4, ThreadFacts DEF TypeOK, Kept, Insert, Goto
<1>5. ASSUME NEW t \in Threads, EnsureAlive(t), t # u PROVE Kept(u)
  BY <1>5, ThreadFacts DEF TypeOK, Kept, EnsureAlive, Goto
<1>6. ASSUME NEW t \in Threads, StartThread(t), t # u PROVE Kept(u)
  BY <1>6, ThreadFacts DEF TypeOK, Kept, StartThread
<1>7. ASSUME NEW t \in Threads, HandlersDone(t), t # u PROVE Kept(u)
  BY <1>7, ThreadFacts DEF TypeOK, Kept, HandlersDone, Goto
<1>8. ASSUME NEW t \in Threads, Fire(t), t # u PROVE Kept(u)
  BY <1>8, ThreadFacts DEF TypeOK, Kept, Fire, Goto
<1>9. ASSUME NEW t \in Threads, ScanRunsHandler(t), t # u PROVE Kept(u)
  BY <1>9, ThreadFacts DEF TypeOK, Kept, ScanRunsHandler, Goto
<1>10. ASSUME NEW t \in Threads, ScanRaises(t), t # u PROVE Kept(u)
  BY <1>10, ThreadFacts DEF TypeOK, Kept, ScanRaises, Raise, Goto
<1>11. ASSUME NEW t \in Threads, ScanEnds(t), t # u PROVE Kept(u)
  BY <1>11, ThreadFacts DEF TypeOK, Kept, ScanEnds, Goto
<1>12. ASSUME NEW t \in Threads, RemoveRaises(t), t # u PROVE Kept(u)
  BY <1>12, ThreadFacts DEF TypeOK, Kept, RemoveRaises, Raise, Goto
<1>13. ASSUME NEW t \in Threads, EventDone(t), t # u PROVE Kept(u)
  BY <1>13, ThreadFacts DEF TypeOK, Kept, EventDone, Goto
<1>14. ASSUME NEW d \in Dispatchers, Boot(d), d # u PROVE Kept(u)
  BY <1>14, ThreadFacts DEF TypeOK, Kept, Boot, Goto
<1>15. ASSUME NEW d \in Dispatchers, LoopTop(d), d # u PROVE Kept(u)
  BY <1>15, ThreadFacts DEF TypeOK, Kept, LoopTop, Goto
<1>16. ASSUME NEW d \in Dispatchers, Pop(d), d # u PROVE Kept(u)
  BY <1>16, ThreadFacts DEF TypeOK, Kept, Pop, Goto
<1>17. ASSUME NEW d \in Dispatchers, PopNothing(d), d # u PROVE Kept(u)
  BY <1>17, ThreadFacts DEF TypeOK, Kept, PopNothing, Goto
<1>18. ASSUME NEW d \in Dispatchers, Activate(d), d # u PROVE Kept(u)
  BY <1>18, ThreadFacts DEF TypeOK, Kept, Activate, Goto
<1>19. ASSUME NEW d \in Dispatchers, Acquire(d), d # u PROVE Kept(u)
  BY <1>19, ThreadFacts DEF TypeOK, Kept, Acquire, Goto
<1>20. ASSUME NEW d \in Dispatchers, Execute(d), d # u PROVE Kept(u)
  BY <1>20, ThreadFacts DEF TypeOK, Kept, Execute, Goto
<1>21. ASSUME NEW d \in Dispatchers, Finish(d), d # u PROVE Kept(u)
  BY <1>21, ThreadFacts DEF TypeOK, Kept, Finish, Goto
<1>22. ASSUME NEW d \in Dispatchers, Store(d), d # u PROVE Kept(u)
  BY <1>22, ThreadFacts DEF TypeOK, Kept, Store, Goto
<1>23. ASSUME NEW d \in Dispatchers, RetryJob(d), d # u PROVE Kept(u)
  BY <1>23, ThreadFacts DEF TypeOK, Kept, RetryJob, Goto
<1>24. ASSUME NEW d \in Dispatchers, Requeue(d), d # u PROVE Kept(u)
  BY <1>24, ThreadFacts DEF TypeOK, Kept, Requeue, Goto
<1>25. ASSUME NEW d \in Dispatchers, GiveUp(d), d # u PROVE Kept(u)
  BY <1>25, ThreadFacts DEF TypeOK, Kept, GiveUp, Goto
<1>26. ASSUME NEW j \in Cancellable, Cancel(j), Api # u PROVE Kept(u)
  BY <1>26, ThreadFacts DEF TypeOK, Kept, Cancel, Goto
<1>27. CASE \/ \E t \in Threads : ScanPasses(t) \/ RemoveFired(t)
            \/ Shutdown
            \/ UNCHANGED vars
  BY <1>27 DEF Kept, ScanPasses, RemoveFired, Shutdown, vars, jobVars, logVars, runVars, subVars,
       scanVars
<1>. QED
  BY <1>1, <1>2, <1>3, <1>4, <1>5, <1>6, <1>7, <1>8, <1>9, <1>10, <1>11, <1>12, <1>13, <1>14,
       <1>15, <1>16, <1>17, <1>18, <1>19, <1>20, <1>21, <1>22, <1>23, <1>24, <1>25, <1>26,
       <1>27 DEF Next, Enqueue, FireEvent, DispatchLoop

\* What a step of a handler or of the all_done scan does to its own thread.
LEMMA EventStep ==
    ASSUME TypeOK, ThreadInv, NEW t \in Threads, Enqueue(t) \/ FireEvent(t)
    PROVE  EventMove(t)
<1>1. ASSUME InstantiateRaises(t) PROVE EventMove(t)
  BY <1>1, ThreadFacts DEF TypeOK, EventPcs, EventMove, ThreadInv, EventInv, ApiInv,
       InstantiateRaises, Raise, Catch, Goto
<1>2. ASSUME SkipKnown(t) PROVE EventMove(t)
  BY <1>2, ThreadFacts DEF TypeOK, EventPcs, EventMove, SkipKnown, Instantiable
<1>3. ASSUME Register(t) PROVE EventMove(t)
  BY <1>3, ThreadFacts DEF TypeOK, EventPcs, EventMove, Register, Instantiable, Goto
<1>4. ASSUME Insert(t) PROVE EventMove(t)
  BY <1>4, ThreadFacts DEF TypeOK, EventPcs, EventMove, ThreadInv, TodoInv, Insert, Goto
<1>5. ASSUME EnsureAlive(t) PROVE EventMove(t)
  BY <1>5, ThreadFacts DEF TypeOK, EventPcs, EventMove, ThreadInv, TodoInv, EnsureAlive, Goto
<1>6. ASSUME StartThread(t) PROVE EventMove(t)
  BY <1>6, ThreadFacts DEF TypeOK, EventPcs, EventMove, StartThread
<1>7. ASSUME HandlersDone(t) PROVE EventMove(t)
  BY <1>7, ThreadFacts DEF TypeOK, EventPcs, EventMove, ThreadInv, EventInv, ApiInv,
       HandlersDone, Goto
<1>8. ASSUME Fire(t) PROVE EventMove(t)
  BY <1>8, ThreadFacts DEF TypeOK, EventPcs, EventMove, Fire, Goto
<1>9. ASSUME ScanRunsHandler(t) PROVE EventMove(t)
  BY <1>9, ThreadFacts DEF TypeOK, EventPcs, EventMove, ScanRunsHandler, InScan, Goto
<1>10. ASSUME ScanPasses(t) PROVE EventMove(t)
  BY <1>10, ThreadFacts DEF TypeOK, EventPcs, EventMove, ThreadInv, EventInv, ApiInv, ScanPasses,
       InScan
<1>11. ASSUME ScanRaises(t) PROVE EventMove(t)
  BY <1>11, ThreadFacts DEF TypeOK, EventPcs, EventMove, ThreadInv, EventInv, ApiInv, ScanRaises,
       InScan, Raise, Catch, Goto
<1>12. ASSUME ScanEnds(t) PROVE EventMove(t)
  BY <1>12, ThreadFacts DEF TypeOK, EventPcs, EventMove, ThreadInv, EventInv, ApiInv, ScanEnds,
       Goto
<1>13. ASSUME RemoveFired(t) PROVE EventMove(t)
  BY <1>13, ThreadFacts DEF TypeOK, EventPcs, EventMove, ThreadInv, EventInv, ApiInv, RemoveFired
<1>14. ASSUME RemoveRaises(t) PROVE EventMove(t)
  BY <1>14, ThreadFacts DEF TypeOK, EventPcs, EventMove, ThreadInv, EventInv, ApiInv,
       RemoveRaises, Raise, Catch, Goto
<1>15. ASSUME EventDone(t) PROVE EventMove(t)
  BY <1>15, ThreadFacts DEF TypeOK, EventPcs, EventMove, EventDone, Goto
<1>. QED
  BY <1>1, <1>2, <1>3, <1>4, <1>5, <1>6, <1>7, <1>8, <1>9, <1>10, <1>11, <1>12, <1>13, <1>14,
       <1>15 DEF Enqueue, FireEvent

\* What a step of the dispatch loop does to its own thread.
LEMMA LoopStep ==
    ASSUME TypeOK, ThreadInv, NEW d \in Dispatchers, DispatchLoop(d)
    PROVE  LoopMove(d)
<1>0. HoldInv /\ EventInv /\ UrlInv /\ QueueInv  BY DEF ThreadInv
<1>1. CASE Boot(d)
  BY <1>0, <1>1, ThreadFacts DEF TypeOK, LoopMove, EventPcs, Boot, Goto, Endpoint
<1>2. CASE LoopTop(d) \/ PopNothing(d) \/ Requeue(d)
  <2>1. pc'[d] \in {"dead", "top", "pop"} /\ pc[d] \notin {"dead", "boot"}
    BY <1>2, ThreadFacts DEF TypeOK, LoopTop, PopNothing, Requeue, Goto
  <2>. QED  BY <1>0, <2>1 DEF LoopMove, Working, EventPcs, UrlInv
<1>3. CASE Pop(d)
  <2>1. PICK n \in 1..Len(queue[d[1]]) : cur' = [cur EXCEPT ![d] = queue[d[1]][n]]
    BY <1>3 DEF Pop
  <2>2. queue[d[1]][n] \in Jobs /\ WorkerOf[queue[d[1]][n]] = d[1]
    BY <1>0, ThreadFacts, ElementOfSeq DEF TypeOK, QueueInv
  <2>3. cur'[d] = queue[d[1]][n] /\ pc'[d] = "activate" /\ pc[d] = "pop"
    BY <1>3, <2>1, ThreadFacts DEF TypeOK, Pop, Goto
  <2>. QED  BY <1>0, <1>3, <2>2, <2>3 DEF LoopMove, EventPcs, UrlInv
<1>4. CASE Store(d) \/ GiveUp(d)
  <2>1. /\ pc[d] \in {"store", "except"} /\ cur' = cur
        /\ pc'[d] = "fire" /\ ev'[d] \in {"done", "failed"}
    BY <1>4, ThreadFacts DEF TypeOK, Store, GiveUp, Goto
  <2>. QED  BY <1>0, <2>1 DEF LoopMove, EventPcs, UrlInv, HoldInv, Working
<1>5. CASE Activate(d) \/ Acquire(d) \/ Execute(d) \/ Finish(d) \/ RetryJob(d)
  <2>1. /\ pc[d] \in {"activate", "acquire", "exec", "finish", "except"} /\ cur' = cur
        /\ pc'[d] \in {"acquire", "exec", "finish", "except", "store", "requeue"}
        /\ pc'[d] = "exec" => Acquire(d)
    BY <1>5, ThreadFacts DEF TypeOK, Activate, Acquire, Execute, Finish, RetryJob, Goto
  <2>. QED  BY <1>0, <2>1 DEF LoopMove, EventPcs, UrlInv, HoldInv, Working
<1>. QED  BY <1>1, <1>2, <1>3, <1>4, <1>5 DEF DispatchLoop

\* Every step keeps the invariants on threads.
LEMMA ThreadStep ==
    ASSUME TypeOK, ThreadInv, [Next]_vars
    PROVE  TodoInv' /\ ApiInv' /\ HoldInv' /\ EventInv' /\ UrlInv'
<1>0. TodoInv /\ ApiInv /\ HoldInv /\ EventInv /\ UrlInv  BY DEF ThreadInv
<1>1. ASSUME NEW d \in Dispatchers
      PROVE  /\ Working(d)' => cur'[d] \in Jobs /\ WorkerOf[cur'[d]] = d[1]
             /\ pc'[d] \in EventPcs => ev'[d] \in {"done", "failed"}
             /\ pc'[d] \notin {"dead", "boot"} => Endpoint(d) \in Endpoints
             /\ pc'[d] \in {"insert", "ensure", "start"} => todo'[d] # <<>>
  <2>1. CASE Enqueue(d) \/ FireEvent(d)
    <3>1. EventMove(d) /\ d # Api  BY <2>1, EventStep, ThreadFacts
    <3>. QED  BY <1>0, <3>1 DEF EventMove, HoldInv, EventInv, UrlInv, Working, EventPcs
  <2>2. CASE DispatchLoop(d)
    <3>1. LoopMove(d)  BY <2>2, LoopStep
    <3>. QED  BY <3>1 DEF LoopMove, Working, EventPcs
  <2>3. CASE ~Enqueue(d) /\ ~FireEvent(d) /\ ~DispatchLoop(d)
    <3>1. Kept(d)  BY <2>3, OthersKept, ThreadFacts
    <3>. QED
      BY <1>0, <3>1 DEF Kept, TodoInv, HoldInv, EventInv, UrlInv, Working, EventPcs, Threads
  <2>. QED  BY <2>1, <2>2, <2>3
<1>2. /\ ApiInv'
      /\ pc'[Api] \in {"insert", "ensure", "start"} => todo'[Api] # <<>>
  <2>1. CASE Enqueue(Api) \/ FireEvent(Api)
    <3>1. EventMove(Api)  BY <2>1, EventStep, ThreadFacts
    <3>. QED  BY <1>0, <3>1 DEF EventMove, ApiInv, EventPcs
  <2>2. ASSUME NEW j \in Cancellable, Cancel(j)
        PROVE  ApiInv' /\ pc'[Api] = "fire"
    BY <2>2, ThreadFacts, WorkflowAssumption DEF TypeOK, Cancel, Goto, ApiInv
  <2>3. CASE ~Enqueue(Api) /\ ~FireEvent(Api) /\ \A j \in Cancellable : ~Cancel(j)
    <3>1. Kept(Api)  BY <2>3, OthersKept, ThreadFacts
    <3>. QED  BY <1>0, <3>1, ThreadFacts DEF Kept, TodoInv, ApiInv
  <2>. QED  BY <2>1, <2>2, <2>3
<1>. QED  BY <1>1, <1>2, ThreadFacts DEF TodoInv, HoldInv, EventInv, UrlInv, Endpoint

\* Deques change only where enqueue, the pop and the requeue change them.
LEMMA QueueKept ==
    ASSUME [Next]_vars, \A t \in Threads : ~Insert(t),
           \A d \in Dispatchers : ~Pop(d) /\ ~PopNothing(d) /\ ~Requeue(d)
    PROVE  queue' = queue
<1>1. CASE \/ \E t \in Threads : InstantiateRaises(t) \/ SkipKnown(t) \/ Register(t)
                                 \/ EnsureAlive(t) \/ StartThread(t) \/ HandlersDone(t)
                                 \/ Fire(t) \/ ScanRunsHandler(t) \/ ScanPasses(t)
                                 \/ ScanRaises(t) \/ ScanEnds(t) \/ RemoveFired(t)
                                 \/ RemoveRaises(t) \/ EventDone(t)
           \/ \E d \in Dispatchers : Boot(d) \/ LoopTop(d) \/ Activate(d) \/ Acquire(d)
                                     \/ Execute(d) \/ Finish(d) \/ Store(d) \/ RetryJob(d)
                                     \/ GiveUp(d)
           \/ \E j \in Cancellable : Cancel(j)
           \/ Shutdown
           \/ UNCHANGED vars
  BY <1>1, ZenonT(30) DEF InstantiateRaises, SkipKnown, Register, EnsureAlive, StartThread, HandlersDone,
       Fire, ScanRunsHandler, ScanPasses, ScanRaises, ScanEnds, RemoveFired, RemoveRaises,
       EventDone, Boot, LoopTop, Activate, Acquire, Execute, Finish, Store, RetryJob, GiveUp,
       Cancel, Shutdown, vars, jobVars, logVars, runVars, subVars, scanVars
<1>. QED  BY <1>1 DEF Next, Enqueue, FireEvent, DispatchLoop

\* A deque holds only jobs of its worker.
LEMMA QueueInvStep == TypeOK /\ TypeOK' /\ ThreadInv /\ [Next]_vars => QueueInv'
<1>. SUFFICES ASSUME TypeOK, TypeOK', ThreadInv, [Next]_vars PROVE QueueInv'
  OBVIOUS
<1>. USE DEF ThreadInv
<1>1. ASSUME NEW t \in Threads, Insert(t) PROVE QueueInv'
  <2>. DEFINE j == Target(t)
  <2>1. j \in Jobs /\ WorkerOf[j] \in Workers  BY <1>1, TargetFacts DEF Insert
  <2>2. queue' = [queue EXCEPT ![WorkerOf[j]] = Inserted(queue[WorkerOf[j]], j)]
    BY <1>1 DEF Insert
  <2>. DEFINE q == queue[WorkerOf[j]]
  <2>3. q \in Seq(Jobs)  BY <2>1 DEF TypeOK
  <2>4. \A n \in 1..Len(Inserted(q, j)) :
           Inserted(q, j)[n] = j \/ \E m \in 1..Len(q) : Inserted(q, j)[n] = q[m]
    BY <2>1, <2>3, InsertedElements
  <2>5. \A n \in 1..Len(Inserted(q, j)) : WorkerOf[Inserted(q, j)[n]] = WorkerOf[j]
    BY <2>1, <2>4 DEF QueueInv
  <2>. QED  BY <2>1, <2>2, <2>5 DEF TypeOK, QueueInv
<1>2. ASSUME NEW d \in Dispatchers, Pop(d) PROVE QueueInv'
  <2>1. d[1] \in Workers /\ queue[d[1]] \in Seq(Jobs)  BY ThreadFacts DEF TypeOK
  <2>2. PICK n \in 1..Len(queue[d[1]]) :
          queue' = [queue EXCEPT ![d[1]] = SubSeq(queue[d[1]], n + 1, Len(queue[d[1]]))]
    BY <1>2 DEF Pop
  <2>. DEFINE q == queue[d[1]]  r == SubSeq(q, n + 1, Len(q))
  <2>3. \A i \in 1..Len(r) : i + n \in 1..Len(q) /\ r[i] = q[i + n]
    BY <2>1, SuffixFacts
  <2>4. \A i \in 1..Len(r) : WorkerOf[r[i]] = d[1]  BY <2>1, <2>3 DEF QueueInv
  <2>5. queue'[d[1]] = r /\ \A u \in Workers : u # d[1] => queue'[u] = queue[u]
    BY <2>1, <2>2 DEF TypeOK
  <2>6. ASSUME NEW w \in Workers, NEW k \in 1..Len(queue'[w]) PROVE WorkerOf[queue'[w][k]] = w
    <3>1. CASE w = d[1]
      <4>. HIDE DEF q, r
      <4>. QED  BY <2>4, <2>5, <2>6, <3>1, Zenon
    <3>2. CASE w # d[1]  BY <2>5, <2>6, <3>2, Zenon DEF QueueInv
    <3>. QED  BY <3>1, <3>2
  <2>. QED  BY <2>6 DEF QueueInv
<1>3. ASSUME NEW d \in Dispatchers, PopNothing(d) PROVE QueueInv'
  <2>1. d[1] \in Workers /\ queue' = [queue EXCEPT ![d[1]] = <<>>]
    BY <1>3, ThreadFacts DEF PopNothing
  <2>. QED  BY <2>1, SMTT(20) DEF TypeOK, QueueInv
<1>4. ASSUME NEW d \in Dispatchers, Requeue(d) PROVE QueueInv'
  <2>1. d[1] \in Workers /\ queue[d[1]] \in Seq(Jobs)  BY ThreadFacts DEF TypeOK
  <2>2. cur[d] \in Jobs /\ WorkerOf[cur[d]] = d[1]
    BY <1>4, HeldFacts DEF Working, Requeue
  <2>3. queue' = [queue EXCEPT ![d[1]] = <<cur[d]>> \o queue[d[1]]]  BY <1>4 DEF Requeue
  <2>. DEFINE q == queue[d[1]]  r == <<cur[d]>> \o q
  <2>4. Len(r) = Len(q) + 1 /\ r[1] = cur[d]
        /\ \A n \in 2..(Len(q) + 1) : n - 1 \in 1..Len(q) /\ r[n] = q[n - 1]
    BY <2>1, <2>2, ConsFacts
  <2>5. \A n \in 1..Len(r) : WorkerOf[r[n]] = d[1]
    BY <2>1, <2>2, <2>4, LenProperties DEF QueueInv
  <2>. QED  BY <2>1, <2>3, <2>5 DEF TypeOK, QueueInv
<1>5. CASE /\ \A t \in Threads : ~Insert(t)
           /\ \A d \in Dispatchers : ~Pop(d) /\ ~PopNothing(d) /\ ~Requeue(d)
  BY <1>5, QueueKept DEF QueueInv
<1>. QED  BY <1>1, <1>2, <1>3, <1>4, <1>5

\* Only a registration gives a thread a job to insert.
LEMMA InsertsKept ==
    ASSUME TypeOK, ThreadInv, [Next]_vars, NEW u \in Threads, ~Register(u), NEW j \in Jobs,
          Inserts(u, j)'
    PROVE  Inserts(u, j)
<1>1. pc'[u] = "insert"  BY DEF Inserts
<1>2. ~Enqueue(u) /\ ~FireEvent(u)  BY <1>1, EventStep DEF EventMove
<1>3. u \in Dispatchers => ~DispatchLoop(u)  BY <1>1, LoopStep DEF LoopMove
<1>4. u # Api \/ \A i \in Cancellable : ~Cancel(i)
  BY <1>1, ThreadFacts DEF TypeOK, Cancel, Goto
<1>5. Kept(u)  BY <1>2, <1>3, <1>4, OthersKept
<1>. QED  BY <1>5 DEF Kept, Inserts, Target

\* Only a pop gives a dispatch thread a job.
LEMMA HoldsKept ==
    ASSUME TypeOK, ThreadInv, [Next]_vars, NEW d \in Dispatchers, ~Pop(d), NEW j \in Jobs,
          Holds(d, j)'
    PROVE  Holds(d, j)
<1>1. pc'[d] \notin {"dead", "boot", "top", "pop"} /\ cur'[d] = j  BY DEF Holds, Working
<1>2. CASE Enqueue(d) \/ FireEvent(d)
  <2>1. EventMove(d) /\ d # Api  BY <1>2, EventStep, ThreadFacts
  <2>. QED  BY <1>1, <2>1 DEF EventMove, Holds, Working, EventPcs
<1>3. CASE DispatchLoop(d)
  <2>1. LoopMove(d)  BY <1>3, LoopStep
  <2>. QED  BY <1>1, <2>1 DEF LoopMove, Holds
<1>4. CASE ~Enqueue(d) /\ ~FireEvent(d) /\ ~DispatchLoop(d)
  <2>1. Kept(d)  BY <1>4, OthersKept, ThreadFacts
  <2>. QED  BY <1>1, <2>1 DEF Kept, Holds, Working
<1>. QED  BY <1>2, <1>3, <1>4

\* A thread is inside a call because it was, or has just taken the lock.
LEMMA ExecEntered ==
    ASSUME TypeOK, ThreadInv, [Next]_vars, NEW d \in Dispatchers, ~Acquire(d), pc'[d] = "exec"
    PROVE  pc[d] = "exec"
<1>1. ~Enqueue(d) /\ ~FireEvent(d)  BY EventStep, ThreadFacts DEF EventMove
<1>2. ~DispatchLoop(d)  BY LoopStep DEF LoopMove
<1>3. Kept(d)  BY <1>1, <1>2, OthersKept, ThreadFacts
<1>. QED  BY <1>3 DEF Kept

\* A thread inside a call is the owner recorded in its endpoint's lock.
LockInv == \A d \in Dispatchers : pc[d] = "exec" => lock[Endpoint(d)] = d

\* The retry budget of a job that is to be executed again, and of one that
\* was executed and not put back since.
Unspent(j) == attempts[j] + retriesLeft[j] = Retry[j]
Spent(j) == attempts[j] + retriesLeft[j] = Retry[j] + 1
Waits(j) == status[j] \in {"pending", "cancelled"} /\ Unspent(j)

\* A queued job and one about to be inserted wait with a whole budget; the
\* status and budget of a held job are fixed by the place of its thread.
QueuedStage == \A j \in Jobs : Queued(j) => Waits(j)
InsertStage == \A t \in Threads, j \in Jobs : Inserts(t, j) => Waits(j)
Stage(d) ==
    /\ pc[d] \in {"activate", "requeue"} => Waits(cur[d])
    /\ pc[d] = "acquire" => status[cur[d]] = "active" /\ Unspent(cur[d])
    /\ pc[d] \in {"exec", "finish"} => status[cur[d]] = "active" /\ Spent(cur[d])
    /\ pc[d] = "except" => status[cur[d]] \in {"active", "done"} /\ Spent(cur[d])
    /\ pc[d] = "store" => status[cur[d]] = "done" /\ Spent(cur[d])
    /\ pc[d] \in EventPcs =>
         status[cur[d]] = ev[d] /\ status[cur[d]] \in {"done", "failed"} /\ Spent(cur[d])
HeldStage == \A d \in Dispatchers : Stage(d)

\* Jobs nobody registered are untouched, failed ones are exhausted.
UntouchedStage == \A j \in Jobs : status[j] = "none" => Unspent(j)
FailedStage == \A j \in Jobs : status[j] = "failed" => attempts[j] = Retry[j] + 1 /\ retriesLeft[j] = 0
StageInv == /\ QueuedStage /\ InsertStage /\ HeldStage /\ UntouchedStage /\ FailedStage
            /\ AttemptsBounded

\* The inductive invariant.
IInv == TypeOK /\ ThreadInv /\ LockInv /\ SoleCustody /\ StageInv

\* Locks change only when a call begins or ends.
LEMMA LockKept ==
    ASSUME [Next]_vars, \A d \in Dispatchers : ~Acquire(d) /\ ~Execute(d)
    PROVE  lock' = lock
<1>1. ASSUME NEW t \in Threads, Enqueue(t) \/ FireEvent(t) PROVE lock' = lock
  BY <1>1, Zenon DEF Enqueue, FireEvent, InstantiateRaises, SkipKnown, Register, Insert, EnsureAlive,
       StartThread, HandlersDone, Fire, ScanRunsHandler, ScanPasses, ScanRaises, ScanEnds,
       RemoveFired, RemoveRaises, EventDone, runVars
<1>2. ASSUME NEW d \in Dispatchers, DispatchLoop(d) PROVE lock' = lock
  BY <1>2, Zenon DEF DispatchLoop, Boot, LoopTop, Pop, PopNothing, Activate, Finish, Store,
       RetryJob, Requeue, GiveUp, runVars
<1>3. CASE (\E j \in Cancellable : Cancel(j)) \/ Shutdown \/ UNCHANGED vars
  BY <1>3, Zenon DEF Cancel, Shutdown, vars, runVars
<1>. QED  BY <1>1, <1>2, <1>3 DEF Next

\* A thread inside a call is the one recorded in the lock.
LEMMA LockInvStep ==
    ASSUME TypeOK, TypeOK', ThreadInv, LockInv, [Next]_vars
    PROVE  LockInv'
<1>1. ASSUME NEW d \in Dispatchers, Acquire(d) PROVE LockInv'
  <2>1. /\ Endpoint(d) \in Endpoints /\ lock[Endpoint(d)] = None
        /\ lock' = [lock EXCEPT ![Endpoint(d)] = d] /\ pc' = [pc EXCEPT ![d] = "exec"]
    BY <1>1 DEF Acquire, Goto, ThreadInv, UrlInv
  <2>2. ASSUME NEW e \in Dispatchers, pc'[e] = "exec" PROVE lock'[Endpoint(e)] = e
    <3>1. CASE e = d  BY <2>1, <3>1 DEF TypeOK
    <3>2. CASE e # d
      <4>1. pc[e] = "exec" /\ lock[Endpoint(e)] = e
        BY <2>1, <2>2, <3>2, ThreadFacts DEF TypeOK, LockInv
      <4>2. Endpoint(e) # Endpoint(d)  BY <2>1, <4>1, ThreadFacts
      <4>3. Endpoint(e) \in Endpoints  BY <4>1 DEF ThreadInv, UrlInv
      <4>. QED  BY <2>1, <4>1, <4>2, <4>3 DEF TypeOK
    <3>. QED  BY <3>1, <3>2
  <2>. QED  BY <2>2 DEF LockInv, Endpoint
<1>2. ASSUME NEW d \in Dispatchers, Execute(d) PROVE LockInv'
  <2>1. PICK next \in {"finish", "except"} : pc' = [pc EXCEPT ![d] = next]
    BY <1>2 DEF Execute, Goto
  <2>2. lock' = [lock EXCEPT ![Endpoint(d)] = None] /\ lock[Endpoint(d)] = d
    BY <1>2 DEF Execute, LockInv
  <2>3. ASSUME NEW e \in Dispatchers, pc'[e] = "exec" PROVE lock'[Endpoint(e)] = e
    <3>1. e # d /\ pc[e] = "exec"  BY <2>1, <2>3, ThreadFacts DEF TypeOK
    <3>2. lock[Endpoint(e)] = e /\ Endpoint(e) \in Endpoints
      BY <3>1 DEF LockInv, ThreadInv, UrlInv
    <3>. QED  BY <2>2, <3>1, <3>2 DEF TypeOK
  <2>. QED  BY <2>3 DEF LockInv, Endpoint
<1>3. CASE \A d \in Dispatchers : ~Acquire(d) /\ ~Execute(d)
  BY <1>3, ExecEntered, LockKept DEF LockInv, Endpoint
<1>. QED  BY <1>1, <1>2, <1>3

\* The steps of a dispatch thread that change the status or budget of its job.
Handles(d) == Activate(d) \/ Acquire(d) \/ Finish(d) \/ RetryJob(d) \/ GiveUp(d)

\* A step that leaves job j alone, but for its registration or cancellation.
JobSame(j) ==
    /\ attempts'[j] = attempts[j] /\ retriesLeft'[j] = retriesLeft[j]
    /\ \/ status'[j] = status[j]
       \/ status[j] = "none" /\ status'[j] = "pending"
       \/ status[j] = "pending" /\ status'[j] = "cancelled"

\* A job no dispatch thread handles in a step keeps its retry budget and, but
\* for registration and cancellation, its status.
LEMMA JobKept ==
    ASSUME TypeOK, [Next]_vars, NEW i \in Jobs,
           \A d \in Dispatchers : Handles(d) => cur[d] # i
    PROVE  JobSame(i)
<1>1. ASSUME NEW t \in Threads, Register(t) PROVE JobSame(i)
  BY <1>1 DEF TypeOK, JobSame, Register, Instantiable
<1>2. ASSUME NEW d \in Dispatchers, Activate(d) PROVE JobSame(i)
  BY <1>2 DEF TypeOK, JobSame, Handles, Activate, SetStatus
<1>3. ASSUME NEW d \in Dispatchers, Acquire(d) PROVE JobSame(i)
  BY <1>3 DEF TypeOK, JobSame, Handles, Acquire
<1>4. ASSUME NEW d \in Dispatchers, Finish(d) PROVE JobSame(i)
  BY <1>4 DEF TypeOK, JobSame, Handles, Finish, SetStatus
<1>5. ASSUME NEW d \in Dispatchers, RetryJob(d) PROVE JobSame(i)
  BY <1>5 DEF TypeOK, JobSame, Handles, RetryJob, SetStatus
<1>6. ASSUME NEW d \in Dispatchers, GiveUp(d) PROVE JobSame(i)
  BY <1>6 DEF TypeOK, JobSame, Handles, GiveUp, SetStatus
<1>7. ASSUME NEW j \in Cancellable, Cancel(j) PROVE JobSame(i)
  BY <1>7 DEF TypeOK, JobSame, Cancel
<1>8. ASSUME NEW t \in Threads, (Enqueue(t) /\ ~Register(t)) \/ FireEvent(t) PROVE JobSame(i)
  BY <1>8, Zenon DEF JobSame, Enqueue, FireEvent, InstantiateRaises, SkipKnown, Insert, EnsureAlive,
       StartThread, HandlersDone, Fire, ScanRunsHandler, ScanPasses, ScanRaises, ScanEnds,
       RemoveFired, RemoveRaises, EventDone, jobVars
<1>9. ASSUME NEW d \in Dispatchers,
             \/ Boot(d) \/ LoopTop(d) \/ Pop(d) \/ PopNothing(d) \/ Execute(d) \/ Store(d) \/ Requeue(d)
      PROVE  JobSame(i)
  BY <1>9, Zenon DEF JobSame, Boot, LoopTop, Pop, PopNothing, Execute, Store, Requeue, jobVars
<1>10. CASE Shutdown \/ UNCHANGED vars  BY <1>10 DEF JobSame, Shutdown, vars, jobVars
<1>. QED  BY <1>1, <1>2, <1>3, <1>4, <1>5, <1>6, <1>7, <1>8, <1>9, <1>10, Zenon DEF Next, Enqueue, DispatchLoop

\* The job of a working thread is in no deque and with no other thread.
LEMMA OthersJobs ==
    ASSUME TypeOK, HoldInv, SoleCustody, NEW d \in Dispatchers, Working(d)
    PROVE  /\ cur[d] \in Jobs /\ ~Queued(cur[d])
           /\ \A e \in Dispatchers : e # d /\ Working(e) => cur[e] # cur[d]
           /\ \A t \in Threads : ~Inserts(t, cur[d])
BY DEF HoldInv, SoleCustody, OneHand, Holds

\* A held job is registered.
LEMMA HeldKnown ==
    ASSUME TypeOK, HeldStage, NEW d \in Dispatchers, Working(d)
    PROVE  status[cur[d]] # "none"
BY DEF TypeOK, HeldStage, Stage, Waits, Working, DispatcherPcs, ApiPcs, EventPcs

\* A thread that changes the status or the budget of its job is working on it.
LEMMA HandlesHolds ==
    ASSUME NEW d \in Dispatchers, Handles(d)
    PROVE  Working(d) /\ pc[d] \in {"activate", "acquire", "finish", "except"}
BY DEF Handles, Activate, Acquire, Finish, RetryJob, GiveUp, Working

\* A waiting job that no dispatch thread holds keeps waiting.
LEMMA WaitsKept ==
    ASSUME IInv, [Next]_vars, NEW i \in Jobs, Waits(i), \A d \in Dispatchers : ~Holds(d, i)
    PROVE  Waits(i)'
<1>1. \A d \in Dispatchers : Handles(d) => cur[d] # i  BY HandlesHolds DEF Holds
<1>2. JobSame(i)  BY <1>1, JobKept DEF IInv, Waits
<1>. QED  BY <1>2 DEF JobSame, Waits, Unspent

\* The status and budget of a held job follow the place of its thread in the loop.
LEMMA HeldStageStep ==
    ASSUME IInv, TypeOK', [Next]_vars
    PROVE  HeldStage'
<1>. SUFFICES ASSUME NEW d \in Dispatchers PROVE Stage(d)'
  BY DEF HeldStage
<1>0. TypeOK /\ ThreadInv /\ HoldInv /\ SoleCustody /\ HeldStage /\ Stage(d)
  BY DEF IInv, StageInv, HeldStage, ThreadInv
<1>1. ASSUME ~Enqueue(d), ~FireEvent(d), ~DispatchLoop(d) PROVE Stage(d)'
  <2>1. Kept(d)  BY <1>0, <1>1, OthersKept, ThreadFacts
  <2>2. CASE Working(d)
    <3>1. \A e \in Dispatchers : Handles(e) => cur[e] # cur[d]
      <4>1. ~Handles(d)  BY <1>1 DEF DispatchLoop, Handles
      <4>. QED  BY <1>0, <2>2, <4>1, HandlesHolds, OthersJobs
    <3>2. JobSame(cur[d])  BY <1>0, <2>2, <3>1, JobKept, HeldKnown, HeldFacts
    <3>. QED  BY <1>0, <2>1, <3>2 DEF Kept, JobSame, Stage, Waits, Spent, Unspent, EventPcs
  <2>3. CASE ~Working(d)  BY <2>1, <2>3 DEF Kept, Working, Stage, EventPcs
  <2>. QED  BY <2>2, <2>3
<1>2. ASSUME Enqueue(d) \/ FireEvent(d) PROVE Stage(d)'
  <2>1. /\ pc[d] \in EventPcs /\ ev'[d] = ev[d]
        /\ \/ pc'[d] \in {"dead", "top"}
           \/ cur'[d] = cur[d] /\ pc'[d] \in EventPcs
           \/ cur'[d] = cur[d] /\ pc'[d] = "except" /\ ev[d] = "done"
    BY <1>0, <1>2, EventStep, ThreadFacts DEF EventMove
  <2>2. Working(d)  BY <2>1 DEF Working, EventPcs
  <2>3. \A e \in Dispatchers : Handles(e) => cur[e] # cur[d]
    BY <1>0, <2>1, <2>2, HandlesHolds, OthersJobs DEF EventPcs
  <2>4. JobSame(cur[d])  BY <1>0, <2>2, <2>3, JobKept, HeldKnown, HeldFacts
  <2>. QED  BY <1>0, <2>1, <2>4 DEF JobSame, Stage, Spent, EventPcs
<1>3. ASSUME DispatchLoop(d) PROVE Stage(d)'
  <2>1. CASE Boot(d) \/ LoopTop(d) \/ PopNothing(d) \/ Requeue(d)
    <3>1. pc'[d] \in {"dead", "top", "pop"}
      BY <1>0, <2>1, ThreadFacts DEF Boot, LoopTop, PopNothing, Requeue, Goto, TypeOK
    <3>. QED  BY <3>1 DEF Stage, EventPcs
  <2>2. CASE Pop(d)
    <3>1. PICK n \in 1..Len(queue[d[1]]) : cur' = [cur EXCEPT ![d] = queue[d[1]][n]]
      BY <2>2 DEF Pop
    <3>2. Queued(queue[d[1]][n]) /\ queue[d[1]][n] \in Jobs
      BY <1>0, <3>1, ThreadFacts, ElementOfSeq, ZenonT(30) DEF Queued, TypeOK
    <3>3. Waits(queue[d[1]][n])  BY <3>2 DEF IInv, StageInv, QueuedStage
    <3>4. pc'[d] = "activate" /\ UNCHANGED <<status, attempts, retriesLeft>> /\ cur'[d] = queue[d[1]][n]
      BY <1>0, <2>2, <3>1, ThreadFacts DEF Pop, Goto, TypeOK, jobVars
    <3>. QED  BY <3>3, <3>4 DEF Stage, Waits, Unspent, EventPcs
  <2>3. CASE Activate(d)
    BY <1>0, <2>3, ThreadFacts, HeldFacts DEF Activate, SetStatus, Goto, TypeOK, Stage, Waits,
         Unspent, EventPcs, Working
  <2>4. CASE Acquire(d)
    <3>1. cur[d] \in Jobs /\ status[cur[d]] = "active" /\ Unspent(cur[d])
      BY <1>0, <2>4, HeldFacts DEF Acquire, Stage, Working
    <3>2. /\ pc'[d] = "exec" /\ UNCHANGED <<cur, status, retriesLeft>>
          /\ attempts'[cur[d]] = attempts[cur[d]] + 1
      BY <1>0, <2>4, <3>1, ThreadFacts DEF Acquire, Goto, TypeOK
    <3>3. Spent(cur[d])'
      BY <1>0, <3>1, <3>2, JobAssumption DEF Spent, Unspent, TypeOK
    <3>. QED  BY <3>1, <3>2, <3>3 DEF Stage, EventPcs
  <2>5. CASE Execute(d)
    BY <1>0, <2>5, ThreadFacts DEF Execute, Goto, TypeOK, Stage, Spent, EventPcs, jobVars
  <2>6. CASE Finish(d)
    BY <1>0, <2>6, ThreadFacts, HeldFacts DEF Finish, SetStatus, Goto, TypeOK, Stage, Spent,
         EventPcs, Working
  <2>7. CASE Store(d)
    BY <1>0, <2>7, ThreadFacts, HeldFacts DEF Store, Goto, TypeOK, Stage, Spent, EventPcs, jobVars
  <2>8. CASE RetryJob(d)
    <3>1. cur[d] \in Jobs /\ Spent(cur[d])
      BY <1>0, <2>8, HeldFacts DEF RetryJob, Stage, Working
    <3>2. /\ pc'[d] = "requeue" /\ UNCHANGED <<cur, attempts>>
          /\ retriesLeft'[cur[d]] = retriesLeft[cur[d]] - 1 /\ status'[cur[d]] = "pending"
      BY <1>0, <2>8, <3>1, ThreadFacts DEF RetryJob, SetStatus, Goto, TypeOK
    <3>3. attempts[cur[d]] \in Nat /\ retriesLeft[cur[d]] \in Nat /\ Retry[cur[d]] \in Nat
      BY <1>0, <3>1, JobAssumption DEF TypeOK
    <3>4. Unspent(cur[d])'  BY <3>1, <3>2, <3>3 DEF Spent, Unspent
    <3>. QED  BY <3>2, <3>4 DEF Stage, Waits, EventPcs
  <2>9. CASE GiveUp(d)
    BY <1>0, <2>9, ThreadFacts, HeldFacts DEF GiveUp, SetStatus, Goto, TypeOK, Stage, Spent,
         EventPcs, Working
  <2>. QED  BY <1>3, <2>1, <2>2, <2>3, <2>4, <2>5, <2>6, <2>7, <2>8, <2>9 DEF DispatchLoop
<1>. QED  BY <1>1, <1>2, <1>3

\* A job is in a deque because it was, or because this step put it there.
LEMMA QueuedEffect ==
    ASSUME TypeOK, ThreadInv, [Next]_vars, NEW i \in Jobs, Queued(i)'
    PROVE  \/ Queued(i)
           \/ \E t \in Threads : Insert(t) /\ i = Target(t)
           \/ \E d \in Dispatchers : Requeue(d) /\ i = cur[d]
<1>a. PICK v \in Workers : \E k \in 1..Len(queue'[v]) : queue'[v][k] = i
  BY DEF Queued
<1>0. PICK k \in 1..Len(queue'[v]) : queue'[v][k] = i  BY <1>a
<1>1. ASSUME NEW t \in Threads, Insert(t) PROVE Queued(i) \/ i = Target(t)
  <2>. DEFINE j == Target(t)  w == WorkerOf[j]  q == queue[w]
  <2>1. j \in Jobs /\ w \in Workers /\ q \in Seq(Jobs) /\ queue' = [queue EXCEPT ![w] = Inserted(q, j)]
    BY <1>1, TargetFacts DEF Insert, TypeOK, ThreadInv
  <2>2. \A n \in 1..Len(Inserted(q, j)) :
          Inserted(q, j)[n] = j \/ \E m \in 1..Len(q) : Inserted(q, j)[n] = q[m]
    BY <2>1, InsertedElements
  <2>. QED  BY <1>0, <2>1, <2>2 DEF Queued, TypeOK
<1>2. ASSUME NEW d \in Dispatchers, Pop(d) PROVE Queued(i)
  <2>. DEFINE w == d[1]  q == queue[w]
  <2>1. w \in Workers /\ q \in Seq(Jobs)  BY ThreadFacts DEF TypeOK
  <2>2. PICK n \in 1..Len(q) : queue' = [queue EXCEPT ![w] = SubSeq(q, n + 1, Len(q))]
    BY <1>2 DEF Pop
  <2>. DEFINE r == SubSeq(q, n + 1, Len(q))
  <2>3. \A n2 \in 1..Len(r) : \E m \in 1..Len(q) : q[m] = r[n2]  BY <2>1, SuffixFacts
  <2>4. queue'[w] = r /\ \A u \in Workers : u # w => queue'[u] = queue[u]
    BY <2>1, <2>2 DEF TypeOK
  <2>5. CASE v = w
    <3>1. k \in 1..Len(r) /\ r[k] = i  BY <1>0, <2>4, <2>5
    <3>2. PICK m \in 1..Len(q) : q[m] = r[k]  BY <2>3, <3>1
    <3>. QED  BY <2>1, <3>1, <3>2 DEF Queued
  <2>6. CASE v # w  BY <1>0, <2>4, <2>6 DEF Queued
  <2>. QED  BY <2>5, <2>6
<1>3. ASSUME NEW d \in Dispatchers, PopNothing(d) PROVE Queued(i)
  BY <1>0, <1>3, ThreadFacts DEF PopNothing, Queued, TypeOK
<1>4. ASSUME NEW d \in Dispatchers, Requeue(d) PROVE Queued(i) \/ i = cur[d]
  <2>. DEFINE w == d[1]  q == queue[w]  j == cur[d]  r == <<j>> \o q
  <2>1. w \in Workers /\ q \in Seq(Jobs) /\ Len(q) \in Nat
    BY ThreadFacts, LenProperties DEF TypeOK
  <2>2. j \in Jobs /\ queue' = [queue EXCEPT ![w] = r]
    BY <1>4, HeldFacts DEF Requeue, Working, ThreadInv
  <2>3. Len(r) = Len(q) + 1 /\ r[1] = j
        /\ \A n \in 2..(Len(q) + 1) : n - 1 \in 1..Len(q) /\ r[n] = q[n - 1]
    BY <2>1, <2>2, ConsFacts
  <2>4. queue'[w] = r /\ \A u \in Workers : u # w => queue'[u] = queue[u]
    BY <2>1, <2>2 DEF TypeOK
  <2>5. \A n \in 1..Len(r) : r[n] = j \/ \E m \in 1..Len(q) : r[n] = q[m]
    BY <2>1, <2>3
  <2>6. CASE v = w
    <3>1. k \in 1..Len(r) /\ r[k] = i  BY <1>0, <2>4, <2>6
    <3>. QED  BY <2>1, <2>5, <3>1, Zenon DEF Queued
  <2>7. CASE v # w  BY <1>0, <2>4, <2>7 DEF Queued
  <2>. QED  BY <2>6, <2>7
<1>5. CASE /\ \A t \in Threads : ~Insert(t)
           /\ \A d \in Dispatchers : ~Pop(d) /\ ~PopNothing(d) /\ ~Requeue(d)
  <2>1. queue' = queue  BY <1>5, QueueKept
  <2>. QED  BY <1>0, <2>1 DEF Queued
<1>. QED  BY <1>1, <1>2, <1>3, <1>4, <1>5

\* Queued jobs wait.
LEMMA QueuedStageStep ==
    ASSUME IInv, [Next]_vars
    PROVE  QueuedStage'
<1>. SUFFICES ASSUME NEW i \in Jobs, Queued(i)' PROVE Waits(i)'
  BY DEF QueuedStage
<1>0. TypeOK /\ ThreadInv /\ HoldInv /\ SoleCustody /\ HeldStage
  BY DEF IInv, StageInv, ThreadInv
<1>1. CASE Queued(i)
  <2>1. Waits(i) /\ \A d \in Dispatchers : ~Holds(d, i)
    BY <1>1 DEF IInv, StageInv, QueuedStage, SoleCustody, OneHand
  <2>. QED  BY <2>1, WaitsKept
<1>2. ASSUME NEW t \in Threads, Insert(t), i = Target(t) PROVE Waits(i)'
  <2>1. Inserts(t, i)  BY <1>2 DEF Insert, Inserts
  <2>2. Waits(i) /\ \A d \in Dispatchers : ~Holds(d, i)
    BY <2>1 DEF IInv, StageInv, InsertStage, SoleCustody, OneHand
  <2>. QED  BY <2>2, WaitsKept
<1>3. ASSUME NEW d \in Dispatchers, Requeue(d), i = cur[d] PROVE Waits(i)'
  BY <1>0, <1>3 DEF Requeue, HeldStage, Stage, jobVars, Waits, Unspent
<1>. QED  BY <1>0, <1>1, <1>2, <1>3, QueuedEffect

\* A job not yet registered has its whole retry budget.
LEMMA UntouchedStageStep ==
    ASSUME IInv, TypeOK', [Next]_vars
    PROVE  UntouchedStage'
<1>. SUFFICES ASSUME NEW i \in Jobs, status'[i] = "none" PROVE Unspent(i)'
  BY DEF UntouchedStage
<1>0. TypeOK /\ HeldStage /\ UntouchedStage  BY DEF IInv, StageInv
<1>1. ASSUME NEW d \in Dispatchers, Handles(d), cur[d] = i PROVE FALSE
  <2>1. status[i] # "none"  BY <1>0, <1>1, HandlesHolds, HeldKnown
  <2>. QED
    BY <1>0, <1>1, <2>1 DEF Handles, Activate, Acquire, Finish, RetryJob, GiveUp, SetStatus,
         TypeOK
<1>2. JobSame(i)  BY <1>0, <1>1, JobKept
<1>. QED  BY <1>0, <1>2 DEF JobSame, UntouchedStage, Unspent

\* Jobs about to be inserted wait.
LEMMA InsertStageStep ==
    ASSUME IInv, [Next]_vars
    PROVE  InsertStage'
<1>. SUFFICES ASSUME NEW u \in Threads, NEW i \in Jobs, Inserts(u, i)' PROVE Waits(i)'
  BY DEF InsertStage
<1>1. CASE Inserts(u, i)
  <2>1. Waits(i) /\ \A d \in Dispatchers : ~Holds(d, i)
    BY <1>1 DEF IInv, StageInv, InsertStage, SoleCustody, OneHand
  <2>. QED  BY <2>1, WaitsKept
<1>2. CASE ~Inserts(u, i)
  <2>1. PICK t \in Threads : Register(t)  BY <1>2, InsertsKept DEF IInv
  <2>2. u = t /\ i = Target(t)
    BY <1>2, <2>1 DEF IInv, TypeOK, Register, Goto, Inserts, Target
  <2>3. status[i] = "none" /\ Unspent(i)
    BY <2>1, <2>2 DEF Register, IInv, StageInv, UntouchedStage
  <2>4. status'[i] = "pending" /\ UNCHANGED <<attempts, retriesLeft>>
    BY <2>1, <2>2 DEF Register, IInv, TypeOK
  <2>. QED  BY <2>3, <2>4 DEF Waits, Unspent
<1>. QED  BY <1>1, <1>2

\* A failed job has no retries left.
LEMMA FailedStageStep ==
    ASSUME IInv, TypeOK', [Next]_vars
    PROVE  FailedStage'
<1>. SUFFICES ASSUME NEW i \in Jobs, status'[i] = "failed"
              PROVE  attempts'[i] = Retry[i] + 1 /\ retriesLeft'[i] = 0
  BY DEF FailedStage
<1>0. TypeOK /\ HeldStage /\ FailedStage /\ HoldInv  BY DEF IInv, StageInv, ThreadInv
<1>1. ASSUME NEW d \in Dispatchers, Handles(d), cur[d] = i
      PROVE  attempts'[i] = Retry[i] + 1 /\ retriesLeft'[i] = 0
  <2>1. status[i] # "failed"
    BY <1>0, <1>1, HandlesHolds DEF HeldStage, Stage, Waits
  <2>2. GiveUp(d)
    BY <1>0, <1>1, <2>1 DEF Handles, Activate, Acquire, Finish, RetryJob, SetStatus, TypeOK
  <2>3. Spent(i) /\ retriesLeft[i] = 0  BY <1>0, <1>1, <2>2 DEF GiveUp, HeldStage, Stage
  <2>4. UNCHANGED <<attempts, retriesLeft>>  BY <2>2 DEF GiveUp
  <2>. QED  BY <1>0, <2>3, <2>4 DEF Spent, TypeOK
<1>2. CASE \A d \in Dispatchers : Handles(d) => cur[d] # i
  <2>1. JobSame(i)  BY <1>0, <1>2, JobKept
  <2>. QED  BY <1>0, <2>1 DEF JobSame, FailedStage
<1>. QED  BY <1>1, <1>2

\* Executions and remaining retries together never exceed retry + 1.
LEMMA AttemptsBoundedStep ==
    ASSUME IInv, TypeOK', [Next]_vars
    PROVE  AttemptsBounded'
<1>. SUFFICES ASSUME NEW i \in Jobs PROVE attempts'[i] + retriesLeft'[i] <= Retry[i] + 1
  BY DEF AttemptsBounded
<1>0. /\ TypeOK /\ HeldStage /\ attempts[i] + retriesLeft[i] <= Retry[i] + 1
      /\ attempts[i] \in Nat /\ retriesLeft[i] \in Nat /\ Retry[i] \in Nat
  BY JobAssumption DEF IInv, StageInv, TypeOK, AttemptsBounded
<1>1. ASSUME NEW d \in Dispatchers, Handles(d), cur[d] = i
      PROVE  attempts'[i] + retriesLeft'[i] <= Retry[i] + 1
  <2>1. CASE Acquire(d)
    <3>1. Unspent(i)  BY <1>0, <1>1, <2>1 DEF Acquire, HeldStage, Stage
    <3>2. attempts'[i] = attempts[i] + 1 /\ retriesLeft' = retriesLeft
      BY <1>0, <1>1, <2>1 DEF Acquire, TypeOK
    <3>. QED  BY <1>0, <3>1, <3>2 DEF Unspent
  <2>2. CASE RetryJob(d)
    <3>1. attempts' = attempts /\ retriesLeft'[i] = retriesLeft[i] - 1
      BY <1>0, <1>1, <2>2 DEF RetryJob, TypeOK
    <3>. QED  BY <1>0, <3>1
  <2>3. CASE Activate(d) \/ Finish(d) \/ GiveUp(d)
    BY <1>0, <2>3 DEF Activate, Finish, GiveUp
  <2>. QED  BY <1>1, <2>1, <2>2, <2>3 DEF Handles
<1>2. CASE \A d \in Dispatchers : Handles(d) => cur[d] # i
  BY <1>0, <1>2, JobKept DEF JobSame
<1>. QED  BY <1>1, <1>2

\* Every step keeps each job in at most one hand: the invariant that makes the
\* unlocked status changes of _dispatch_loop safe.
LEMMA SoleCustodyStep ==
    ASSUME IInv, [Next]_vars
    PROVE  SoleCustody'
<1>. USE DEF IInv, ThreadInv
<1>1. ASSUME NEW t \in Threads, Register(t) PROVE SoleCustody'
  <2>. DEFINE j == Target(t)
  <2>1. status[j] = "none" /\ queue' = queue  BY <1>1 DEF Register
  <2>2. \A i \in Jobs : Queued(i)' <=> Queued(i)  BY <2>1 DEF Queued
  <2>3. \A d \in Dispatchers, i \in Jobs : Holds(d, i)' => Holds(d, i)
    BY <1>1, ThreadFacts DEF TypeOK, Register, Instantiable, Goto, Holds, Working
  <2>4. \A u \in Threads, i \in Jobs : Inserts(u, i)' => Inserts(u, i) \/ (u = t /\ i = j)
    BY <1>1 DEF TypeOK, Register, Instantiable, Goto, Inserts, Target
  <2>5. /\ ~Queued(j)
        /\ \A u \in Threads : ~Inserts(u, j)
        /\ \A d \in Dispatchers : ~Holds(d, j)
    <3>1. j \in Jobs  BY <1>1 DEF TypeOK, Register, Instantiable, Target
    <3>2. ~Queued(j) /\ \A u \in Threads : ~Inserts(u, j)
      BY <2>1, <3>1 DEF StageInv, QueuedStage, InsertStage, Waits
    <3>3. \A d \in Dispatchers : ~Holds(d, j)  BY <2>1, HeldKnown DEF StageInv, Holds
    <3>. QED  BY <3>2, <3>3
  <2>. QED  BY <2>1, <2>2, <2>3, <2>4, <2>5 DEF SoleCustody, QueuedOnce, OneHand
<1>2. ASSUME NEW t \in Threads, Insert(t) PROVE SoleCustody'
  <2>. DEFINE j == Target(t)  w == WorkerOf[j]  q == queue[w]
  <2>1. j \in Jobs /\ w \in Workers /\ q \in Seq(Jobs) /\ Len(q) \in Nat
    BY <1>2, TargetFacts, LenProperties DEF Insert, TypeOK
  <2>2. queue' = [queue EXCEPT ![w] = Inserted(q, j)]  BY <1>2 DEF Insert
  <2>3. Inserts(t, j)  BY <1>2 DEF Insert, Inserts
  <2>4. ~Queued(j) /\ (\A d \in Dispatchers : ~Holds(d, j))
        /\ \A u \in Threads : Inserts(u, j) => u = t
    BY <2>1, <2>3 DEF SoleCustody, OneHand
  <2>5. \A i \in Jobs : Queued(i)' => Queued(i) \/ i = j
    <3>1. \A n \in 1..Len(Inserted(q, j)) :
             Inserted(q, j)[n] = j \/ \E m \in 1..Len(q) : Inserted(q, j)[n] = q[m]
      BY <2>1, InsertedElements
    <3>2. queue'[w] = Inserted(q, j) /\ \A u \in Workers : u # w => queue'[u] = queue[u]
      BY <2>1, <2>2 DEF TypeOK
    <3>3. ASSUME NEW i \in Jobs, NEW v \in Workers, NEW k \in 1..Len(queue'[v]), queue'[v][k] = i
          PROVE  Queued(i) \/ i = j
      <4>1. CASE v = w
        <5>1. k \in 1..Len(Inserted(q, j)) /\ Inserted(q, j)[k] = i  BY <3>2, <3>3, <4>1
        <5>. QED  BY <2>1, <3>1, <5>1, Zenon DEF Queued
      <4>2. CASE v # w  BY <3>2, <3>3, <4>2 DEF Queued
      <4>. QED  BY <4>1, <4>2
    <3>. QED  BY <3>3, Zenon DEF Queued
  <2>6. \A d \in Dispatchers, i \in Jobs : Holds(d, i)' => Holds(d, i)
    BY <1>2, ThreadFacts DEF TypeOK, Insert, Goto, Holds, Working
  <2>7. \A u \in Threads, i \in Jobs : Inserts(u, i)' => Inserts(u, i) /\ u # t
    BY <1>2 DEF TypeOK, Insert, Goto, Inserts, Target
  <2>8. \A m, n \in 1..Len(Inserted(q, j)) : Inserted(q, j)[m] = Inserted(q, j)[n] => m = n
    <3>1. \A m \in 1..Len(q) : q[m] # j  BY <2>1, <2>4 DEF Queued
    <3>2. \A m, n \in 1..Len(q) : q[m] = q[n] => m = n
      BY <2>1 DEF SoleCustody, QueuedOnce
    <3>. DEFINE r == Inserted(q, j)
    <3>3. Len(r) = Len(q) + 1  BY <2>1, InsertedFacts
    <3>4. CASE Priority[j] = "high"
      <4>1. r[1] = j /\ \A n \in 2..(Len(q) + 1) : n - 1 \in 1..Len(q) /\ r[n] = q[n - 1]
        BY <2>1, <3>4, InsertedFacts
      <4>. QED  BY <2>1, <3>1, <3>2, <3>3, <4>1, SMTT(20)
    <3>5. CASE Priority[j] # "high"
      <4>1. r[Len(q) + 1] = j /\ \A n \in 1..Len(q) : r[n] = q[n]
        BY <2>1, <3>5, InsertedFacts
      <4>2. \A n \in 1..Len(r) : n = Len(q) + 1 \/ n \in 1..Len(q)  BY <2>1, <3>3
      <4>. QED  BY <3>1, <3>2, <4>1, <4>2
    <3>. QED  BY <3>4, <3>5
  <2>9. QueuedOnce'
    BY <2>1, <2>2, <2>8 DEF SoleCustody, QueuedOnce, TypeOK
  <2>. QED  BY <2>3, <2>4, <2>5, <2>6, <2>7, <2>9 DEF SoleCustody, OneHand
<1>3. ASSUME NEW d \in Dispatchers, Pop(d) PROVE SoleCustody'
  <2>. DEFINE w == d[1]  q == queue[w]
  <2>1. w \in Workers /\ q \in Seq(Jobs) /\ Len(q) \in Nat
    BY ThreadFacts, LenProperties DEF TypeOK
  <2>2. PICK n \in 1..Len(q) : /\ queue' = [queue EXCEPT ![w] = SubSeq(q, n + 1, Len(q))]
                               /\ cur' = [cur EXCEPT ![d] = q[n]]
    BY <1>3 DEF Pop
  <2>. DEFINE r == SubSeq(q, n + 1, Len(q))  j == q[n]
  <2>3. \A i \in 1..Len(r) : i + n \in 1..Len(q) /\ r[i] = q[i + n]
    BY <2>1, SuffixFacts
  <2>4. j \in Jobs /\ Queued(j)  BY <2>1, ElementOfSeq DEF Queued
  <2>5. /\ \A e \in Dispatchers : ~Holds(e, j)
        /\ \A u \in Threads : ~Inserts(u, j)
    BY <2>4 DEF SoleCustody, OneHand
  <2>6. \A i \in Jobs : Queued(i)' => Queued(i) /\ i # j
    <3>1. \A i \in 1..Len(r) : r[i] # j
      <4>1. \A m \in 1..Len(q) : q[m] = q[n] => m = n
        BY <2>1 DEF SoleCustody, QueuedOnce
      <4>. QED  BY <2>1, <2>3, <4>1
    <3>2. \A v \in Workers : v # w => queue'[v] = queue[v] /\ \A k \in 1..Len(queue[v]) : queue[v][k] # j
      <4>1. WorkerOf[j] = w  BY <2>1 DEF QueueInv
      <4>2. \A v \in Workers : v # w => \A k \in 1..Len(queue[v]) : queue[v][k] # j
        BY <4>1 DEF QueueInv
      <4>. QED  BY <2>1, <2>2, <4>2 DEF TypeOK
    <3>3. queue'[w] = r  BY <2>1, <2>2 DEF TypeOK
    <3>4. \A k \in 1..Len(r) : r[k] # j /\ \E m \in 1..Len(q) : q[m] = r[k]
      BY <2>3, <3>1
    <3>5. ASSUME NEW i \in Jobs, NEW v \in Workers, NEW k \in 1..Len(queue'[v]), queue'[v][k] = i
          PROVE  Queued(i) /\ i # j
      <4>1. CASE v = w  BY <2>1, <3>3, <3>4, <3>5, <4>1 DEF Queued
      <4>2. CASE v # w  BY <3>2, <3>5, <4>2 DEF Queued
      <4>. QED  BY <4>1, <4>2
    <3>. QED  BY <3>5 DEF Queued
  <2>7. \A e \in Dispatchers, i \in Jobs : Holds(e, i)' => Holds(e, i) \/ (e = d /\ i = j)
    BY <1>3, <2>2, ThreadFacts DEF TypeOK, Pop, Goto, Holds, Working
  <2>9. \A u \in Threads, i \in Jobs : Inserts(u, i)' => Inserts(u, i)
    BY <1>3, ThreadFacts DEF TypeOK, Pop, Goto, Inserts, Target
  <2>10. QueuedOnce'
    <3>1. ASSUME NEW k \in 1..Len(r), NEW m \in 1..Len(r), r[k] = r[m] PROVE k = m
      <4>1. \A x, y \in 1..Len(q) : q[x] = q[y] => x = y
        BY <2>1 DEF SoleCustody, QueuedOnce
      <4>2. k + n \in 1..Len(q) /\ m + n \in 1..Len(q) /\ q[k + n] = q[m + n]
        BY <2>3, <3>1
      <4>3. k + n = m + n  BY <4>1, <4>2
      <4>. QED  BY <4>3
    <3>2. queue'[w] = r /\ \A v \in Workers : v # w => queue'[v] = queue[v]
      BY <2>1, <2>2 DEF TypeOK
    <3>. QED  BY <3>1, <3>2 DEF SoleCustody, QueuedOnce
  <2>11. ~Working(d)  BY <1>3 DEF Pop, Working
  <2>. QED  BY <2>4, <2>5, <2>6, <2>7, <2>9, <2>10, <2>11 DEF SoleCustody, OneHand, Holds
<1>4. ASSUME NEW d \in Dispatchers, PopNothing(d) PROVE SoleCustody'
  <2>1. d[1] \in Workers /\ queue' = [queue EXCEPT ![d[1]] = <<>>]
    BY <1>4, ThreadFacts DEF PopNothing
  <2>2. (\A i \in Jobs : Queued(i)' => Queued(i)) /\ QueuedOnce'
    BY <2>1 DEF Queued, SoleCustody, QueuedOnce, TypeOK
  <2>3. \A e \in Dispatchers, i \in Jobs : Holds(e, i)' => Holds(e, i)
    BY <1>4, ThreadFacts DEF TypeOK, PopNothing, Goto, Holds, Working
  <2>4. \A u \in Threads, i \in Jobs : Inserts(u, i)' => Inserts(u, i)
    BY <1>4, ThreadFacts DEF TypeOK, PopNothing, Goto, Inserts, Target
  <2>. QED  BY <2>2, <2>3, <2>4 DEF SoleCustody, OneHand
<1>5. ASSUME NEW d \in Dispatchers, Requeue(d) PROVE SoleCustody'
  <2>. DEFINE w == d[1]  q == queue[w]  j == cur[d]  r == <<j>> \o q
  <2>1. w \in Workers /\ q \in Seq(Jobs) /\ Len(q) \in Nat
    BY ThreadFacts, LenProperties DEF TypeOK
  <2>2. Working(d)  BY <1>5 DEF Requeue, Working
  <2>3. /\ j \in Jobs /\ ~Queued(j)
        /\ \A e \in Dispatchers : Holds(e, j) => e = d
        /\ \A u \in Threads : ~Inserts(u, j)
    BY <2>2, OthersJobs DEF Holds
  <2>4. queue' = [queue EXCEPT ![w] = r]  BY <1>5 DEF Requeue
  <2>5. Len(r) = Len(q) + 1 /\ r[1] = j
        /\ \A n \in 2..(Len(q) + 1) : n - 1 \in 1..Len(q) /\ r[n] = q[n - 1]
    BY <2>1, <2>3, ConsFacts
  <2>6. \A i \in Jobs : Queued(i)' => Queued(i) \/ i = j
    <3>1. queue'[w] = r /\ \A v \in Workers : v # w => queue'[v] = queue[v]
      BY <2>1, <2>4 DEF TypeOK
    <3>2. ASSUME NEW n \in 1..Len(r) PROVE r[n] = j \/ \E m \in 1..Len(q) : r[n] = q[m]
      <4>1. n = 1 \/ n \in 2..(Len(q) + 1)  BY <2>1, <2>5
      <4>. QED  BY <2>5, <4>1
    <3>3. ASSUME NEW i \in Jobs, NEW v \in Workers, NEW k \in 1..Len(queue'[v]), queue'[v][k] = i
          PROVE  Queued(i) \/ i = j
      <4>1. CASE v = w  BY <2>1, <3>1, <3>2, <3>3, <4>1 DEF Queued
      <4>2. CASE v # w  BY <3>1, <3>3, <4>2 DEF Queued
      <4>. QED  BY <4>1, <4>2
    <3>. QED  BY <3>3 DEF Queued
  <2>7. \A e \in Dispatchers, i \in Jobs : Holds(e, i)' => Holds(e, i) /\ e # d
    BY <1>5, ThreadFacts DEF TypeOK, Requeue, Goto, Holds, Working
  <2>8. \A u \in Threads, i \in Jobs : Inserts(u, i)' => Inserts(u, i)
    BY <1>5, ThreadFacts DEF TypeOK, Requeue, Goto, Inserts, Target
  <2>9. QueuedOnce'
    <3>1. \A m \in 1..Len(q) : q[m] # j  BY <2>1, <2>3 DEF Queued
    <3>2. \A m, n \in 1..Len(q) : q[m] = q[n] => m = n
      BY <2>1 DEF SoleCustody, QueuedOnce
    <3>3. \A m, n \in 1..Len(r) : r[m] = r[n] => m = n
      BY <2>1, <2>5, <3>1, <3>2
    <3>4. ASSUME NEW v \in Workers, NEW m \in 1..Len(queue'[v]), NEW n \in 1..Len(queue'[v]),
                 queue'[v][m] = queue'[v][n]
          PROVE  m = n
      <4>1. queue'[w] = r /\ \A u \in Workers : u # w => queue'[u] = queue[u]
        BY <2>1, <2>4 DEF TypeOK
      <4>2. CASE v = w  BY <3>3, <3>4, <4>1, <4>2, Zenon
      <4>3. CASE v # w  BY <3>4, <4>1, <4>3, Zenon DEF SoleCustody, QueuedOnce
      <4>. QED  BY <4>2, <4>3
    <3>. QED  BY <3>4 DEF QueuedOnce
  <2>. QED  BY <2>3, <2>6, <2>7, <2>8, <2>9 DEF SoleCustody, OneHand
<1>6. CASE /\ \A t \in Threads : ~Register(t) /\ ~Insert(t)
           /\ \A d \in Dispatchers : ~Pop(d) /\ ~PopNothing(d) /\ ~Requeue(d)
  <2>1. queue' = queue  BY <1>6, QueueKept
  <2>2. \A d \in Dispatchers, i \in Jobs : Holds(d, i)' => Holds(d, i)  BY <1>6, HoldsKept
  <2>3. \A u \in Threads, i \in Jobs : Inserts(u, i)' => Inserts(u, i)  BY <1>6, InsertsKept
  <2>. QED  BY <2>1, <2>2, <2>3 DEF SoleCustody, QueuedOnce, OneHand, Queued
<1>. QED  BY <1>1, <1>2, <1>3, <1>4, <1>5, <1>6

\* The invariant holds in every initial state.
LEMMA InitInv == Init => IInv
<1>. SUFFICES ASSUME Init PROVE IInv
  OBVIOUS
<1>1. TypeOK
  BY ThreadFacts, JobAssumption, WorkflowAssumption
     DEF Init, TypeOK, Statuses, EventTypes, ApiPcs, DispatcherPcs
<1>2. \A d \in Dispatchers : pc[d] = "dead"  BY ThreadFacts DEF Init
<1>3. pc[Api] = "handlers" /\ ev[Api] = "load" /\ \A t \in Threads : pc[t] \in {"handlers", "dead"}
  BY ThreadFacts DEF Init
<1>4. \A w \in Workers : queue[w] = <<>>  BY DEF Init
<1>5. ThreadInv
  BY <1>2, <1>3, <1>4
     DEF ThreadInv, TodoInv, ApiInv, HoldInv, EventInv, UrlInv, QueueInv, Working, EventPcs
<1>6. LockInv  BY <1>2 DEF LockInv
<1>7. (\A j \in Jobs : ~Queued(j)) /\ QueuedOnce  BY <1>4 DEF Queued, QueuedOnce
<1>8. /\ \A d \in Dispatchers, j \in Jobs : ~Holds(d, j)
      /\ \A t \in Threads, j \in Jobs : ~Inserts(t, j)
  BY <1>2, <1>3 DEF Holds, Working, Inserts
<1>9. SoleCustody  BY <1>7, <1>8 DEF SoleCustody, OneHand
<1>10. \A j \in Jobs : status[j] = "none" /\ Unspent(j) /\ Retry[j] \in Nat
  BY JobAssumption DEF Init, Unspent
<1>11. QueuedStage /\ InsertStage  BY <1>7, <1>8 DEF QueuedStage, InsertStage
<1>12. HeldStage  BY <1>2 DEF HeldStage, Stage, EventPcs
<1>13. UntouchedStage /\ FailedStage  BY <1>10 DEF UntouchedStage, FailedStage
<1>14. AttemptsBounded  BY <1>10 DEF AttemptsBounded, Unspent
<1>. QED
  BY <1>1, <1>5, <1>6, <1>9, <1>11, <1>12, <1>13, <1>14 DEF IInv, StageInv

\* Every step keeps it.
LEMMA NextInv == IInv /\ [Next]_vars => IInv'
<1>. SUFFICES ASSUME IInv, [Next]_vars PROVE IInv'
  OBVIOUS
<1>1. TypeOK /\ ThreadInv /\ LockInv  BY DEF IInv
<1>2. TypeOK'  BY <1>1, TypeStep
<1>3. ThreadInv'
  BY <1>1, <1>2, ThreadStep, QueueInvStep
     DEF ThreadInv
<1>4. LockInv'  BY <1>1, <1>2, LockInvStep
<1>5. SoleCustody'  BY SoleCustodyStep
<1>6. StageInv'
  BY <1>2, QueuedStageStep, InsertStageStep, HeldStageStep, UntouchedStageStep, FailedStageStep,
     AttemptsBoundedStep DEF StageInv
<1>. QED  BY <1>2, <1>3, <1>4, <1>5, <1>6 DEF IInv

\* IInv is an invariant of the specification.
LEMMA Inductive == Spec => []IInv
BY InitInv, NextInv, PTL DEF Spec

\* In every state every variable has the type the code gives it.
THEOREM TypeCorrect == Spec => []TypeOK
<1>1. IInv => TypeOK  BY DEF IInv
<1>. QED  BY <1>1, Inductive, PTL

\* Whatever the roles, URLs, jobs and retries, two dispatch threads are never
\* inside a call to the same endpoint: the lock taken at gateway_runtime.py:359
\* excludes them.
THEOREM EndpointsExclusive == Spec => []EndpointExclusive
<1>1. IInv => EndpointExclusive
  BY DEF IInv, LockInv, EndpointExclusive
<1>. QED  BY <1>1, Inductive, PTL

\* No job is ever in two hands (enqueue, _dispatch_loop): once in one deque,
\* or held by one dispatch thread, or about to be inserted by one thread.
THEOREM CustodySole == Spec => []SoleCustody
<1>1. IInv => SoleCustody  BY DEF IInv
<1>. QED  BY <1>1, Inductive, PTL

\* No job is executed more often than its retry count plus one, whatever
\* exceptions execution and handlers raise (gateway_runtime.py:370-381).
THEOREM AttemptsAreBounded == Spec => []AttemptsBounded
<1>1. IInv => AttemptsBounded  BY DEF IInv, StageInv
<1>. QED  BY <1>1, Inductive, PTL

\* A job given up as failed has used every retry it had.
THEOREM FailedExhausted == Spec => []FailedIsExhausted
<1>1. IInv => FailedIsExhausted  BY DEF IInv, StageInv, FailedStage, FailedIsExhausted
<1>. QED  BY <1>1, Inductive, PTL
-----------------------------------------------------------------------------
(***************************************************************************)
(* What the gateway delivers: no job is lost, the deques keep their        *)
(* priority order, and a job is reported "done" only when its result is    *)
(* where the handlers look for it.  IInv says in whose hands a job is and  *)
(* at which stage; each property adds the few facts it needs beside it.    *)
(***************************************************************************)

\* The result of the job whose "done" event a thread is about to fire is stored.
FireStored == \A d \in Dispatchers : pc[d] = "fire" /\ ev[d] = "done" => cur[d] \in stored

\* A job never has more retries left than it started with, and one that is
\* put back has been executed.
BudgetInv == \A j \in Jobs : retriesLeft[j] <= Retry[j]
PutBackInv == \A d \in Dispatchers : pc[d] = "requeue" => attempts[cur[d]] > 0

\* The deques in priority order, per worker.
Ordered(w) == \A m, n \in 1..Len(queue[w]) :
    m < n /\ Priority[queue[w][n]] = "high" =>
        Priority[queue[w][m]] = "high" \/ attempts[queue[w][m]] > 0

DInv == /\ IInv /\ FireStored /\ ReportedIsStored
        /\ BudgetInv /\ PutBackInv /\ HighFirst /\ NoJobLost

\* Only Fire writes the event log, only Store the results, and only a retry
\* gives up some of a budget.
LEMMA LogKept ==
    ASSUME [Next]_vars
    PROVE  /\ emitted' = emitted \/ \E t \in Threads : Fire(t)
           /\ stored' = stored \/ \E d \in Dispatchers : Store(d)
           /\ retriesLeft' = retriesLeft \/ \E d \in Dispatchers : RetryJob(d)
           /\ attempts' = attempts \/ \E d \in Dispatchers : Acquire(d)
<1>1. ASSUME NEW t \in Threads, Enqueue(t)
      PROVE  UNCHANGED <<emitted, stored, retriesLeft, attempts>>
  BY <1>1 DEF Enqueue, InstantiateRaises, SkipKnown, Register, Insert, EnsureAlive, StartThread,
       HandlersDone, jobVars, logVars
<1>2. ASSUME NEW t \in Threads, FireEvent(t), ~Fire(t)
      PROVE  UNCHANGED <<emitted, stored, retriesLeft, attempts>>
  BY <1>2 DEF FireEvent, ScanRunsHandler, ScanPasses, ScanRaises, ScanEnds, RemoveFired,
       RemoveRaises, EventDone, jobVars, logVars
<1>3. ASSUME NEW t \in Threads, Fire(t)
      PROVE  UNCHANGED <<stored, retriesLeft, attempts>>
  BY <1>3 DEF Fire, jobVars
<1>4. ASSUME NEW d \in Dispatchers, Store(d)
      PROVE  UNCHANGED <<emitted, retriesLeft, attempts>>
  BY <1>4 DEF Store, jobVars
<1>5. ASSUME NEW d \in Dispatchers, RetryJob(d)
      PROVE  UNCHANGED <<emitted, stored, attempts>>
  BY <1>5 DEF RetryJob, logVars
<1>6. ASSUME NEW d \in Dispatchers, Acquire(d)
      PROVE  UNCHANGED <<emitted, stored, retriesLeft>>
  BY <1>6 DEF Acquire, logVars
<1>7. ASSUME NEW d \in Dispatchers, DispatchLoop(d), ~Store(d), ~RetryJob(d), ~Acquire(d)
      PROVE  UNCHANGED <<emitted, stored, retriesLeft, attempts>>
  BY <1>7 DEF DispatchLoop, Boot, LoopTop, Pop, PopNothing, Activate, Execute, Finish, Requeue,
       GiveUp, jobVars, logVars
<1>8. ASSUME NEW j \in Cancellable, Cancel(j)
      PROVE  UNCHANGED <<emitted, stored, retriesLeft, attempts>>
  BY <1>8 DEF Cancel, logVars
<1>9. CASE Shutdown \/ UNCHANGED vars
  BY <1>9 DEF Shutdown, vars, jobVars, logVars
<1>. QED  BY <1>1, <1>2, <1>3, <1>4, <1>5, <1>6, <1>7, <1>8, <1>9 DEF Next

\* Results are never taken back, and executions never uncounted.
LEMMA Grows ==
    ASSUME TypeOK, HoldInv, [Next]_vars
    PROVE  /\ stored \subseteq stored'
           /\ \A j \in Jobs : attempts'[j] >= attempts[j]
           /\ \A j \in Jobs : retriesLeft'[j] <= retriesLeft[j]
<1>1. stored \subseteq stored'  BY LogKept DEF Store
<1>2. \A j \in Jobs : attempts[j] \in Nat /\ retriesLeft[j] \in Nat  BY DEF TypeOK
<1>3. \A j \in Jobs : attempts'[j] >= attempts[j]
  <2>1. ASSUME NEW d \in Dispatchers, Acquire(d), NEW j \in Jobs PROVE attempts'[j] >= attempts[j]
    BY <1>2, <2>1 DEF Acquire, TypeOK
  <2>. QED  BY <1>2, <2>1, LogKept
<1>4. \A j \in Jobs : retriesLeft'[j] <= retriesLeft[j]
  <2>1. ASSUME NEW d \in Dispatchers, RetryJob(d), NEW j \in Jobs
        PROVE  retriesLeft'[j] <= retriesLeft[j]
    BY <1>2, <2>1 DEF RetryJob, TypeOK
  <2>. QED  BY <1>2, <2>1, LogKept
<1>. QED  BY <1>1, <1>3, <1>4

\* A thread is about to fire "done" because it was, or has just stored the result.
LEMMA FireStoredStep ==
    ASSUME IInv, FireStored, [Next]_vars
    PROVE  FireStored'
<1>. SUFFICES ASSUME NEW d \in Dispatchers, pc'[d] = "fire", ev'[d] = "done"
              PROVE  cur'[d] \in stored'
  BY DEF FireStored
<1>0. TypeOK /\ ThreadInv /\ stored \subseteq stored'  BY Grows DEF IInv, ThreadInv
<1>1. ~Enqueue(d) /\ ~FireEvent(d)  BY <1>0, EventStep, ThreadFacts DEF EventMove
<1>2. CASE DispatchLoop(d)
  <2>1. ~Boot(d) /\ ~LoopTop(d) /\ ~Pop(d) /\ ~PopNothing(d) /\ ~Activate(d) /\ ~Acquire(d)
    BY <1>0, ThreadFacts
       DEF Boot, LoopTop, Pop, PopNothing, Activate, Acquire, Goto, TypeOK
  <2>2. ~Execute(d) /\ ~Finish(d) /\ ~RetryJob(d) /\ ~Requeue(d) /\ ~GiveUp(d)
    BY <1>0, ThreadFacts DEF Execute, Finish, RetryJob, Requeue, GiveUp, Goto, TypeOK
  <2>3. Store(d)  BY <1>2, <2>1, <2>2 DEF DispatchLoop
  <2>. QED  BY <2>3 DEF Store
<1>3. CASE ~DispatchLoop(d)
  <2>1. Kept(d)  BY <1>0, <1>1, <1>3, OthersKept, ThreadFacts
  <2>. QED  BY <1>0, <2>1 DEF Kept, FireStored
<1>. QED  BY <1>2, <1>3

\* What is reported is stored.
LEMMA ReportedStep ==
    ASSUME IInv, FireStored, ReportedIsStored, [Next]_vars
    PROVE  ReportedIsStored'
<1>. SUFFICES ASSUME NEW j \in Jobs, <<j, "done">> \in emitted' PROVE j \in stored'
  BY DEF ReportedIsStored
<1>0. stored \subseteq stored'  BY Grows DEF IInv, ThreadInv
<1>1. CASE <<j, "done">> \in emitted  BY <1>0, <1>1 DEF ReportedIsStored
<1>2. CASE <<j, "done">> \notin emitted
  <2>1. PICK t \in Threads : Fire(t)  BY <1>2, LogKept
  <2>2. j = cur[t] /\ ev[t] = "done" /\ pc[t] = "fire"  BY <1>2, <2>1 DEF Fire
  <2>3. t \in Dispatchers  BY <2>2, ThreadFacts DEF IInv, ThreadInv, ApiInv
  <2>. QED  BY <1>0, <2>2, <2>3 DEF FireStored
<1>. QED  BY <1>1, <1>2

\* No budget grows, and a job that is put back has been executed.
LEMMA BudgetStep ==
    ASSUME IInv, TypeOK', BudgetInv, PutBackInv, [Next]_vars
    PROVE  BudgetInv' /\ PutBackInv'
<1>0. /\ TypeOK /\ ThreadInv /\ HoldInv /\ HeldStage
      /\ \A j \in Jobs : /\ attempts[j] \in Nat /\ attempts'[j] \in Nat
                         /\ retriesLeft[j] \in Nat /\ retriesLeft'[j] \in Nat
                         /\ Retry[j] \in Nat
  BY JobAssumption DEF IInv, ThreadInv, StageInv, TypeOK
<1>1. \A j \in Jobs : attempts'[j] >= attempts[j] /\ retriesLeft'[j] <= retriesLeft[j]
  BY <1>0, Grows
<1>2. BudgetInv'  BY <1>0, <1>1 DEF BudgetInv
<1>3. ASSUME NEW d \in Dispatchers, pc'[d] = "requeue" PROVE attempts'[cur'[d]] > 0
  <2>1. ~Enqueue(d) /\ ~FireEvent(d)
    BY <1>0, <1>3, EventStep, ThreadFacts DEF EventMove, EventPcs
  <2>2. CASE DispatchLoop(d)
    <3>1. ~Boot(d) /\ ~LoopTop(d) /\ ~Pop(d) /\ ~PopNothing(d) /\ ~Activate(d) /\ ~Acquire(d)
      BY <1>0, <1>3, ThreadFacts
         DEF Boot, LoopTop, Pop, PopNothing, Activate, Acquire, Goto, TypeOK
    <3>2. ~Execute(d) /\ ~Finish(d) /\ ~Store(d) /\ ~Requeue(d) /\ ~GiveUp(d)
      BY <1>0, <1>3, ThreadFacts DEF Execute, Finish, Store, Requeue, GiveUp, Goto, TypeOK
    <3>3. RetryJob(d)  BY <2>2, <3>1, <3>2 DEF DispatchLoop
    <3>4. cur[d] \in Jobs /\ Spent(cur[d]) /\ retriesLeft[cur[d]] <= Retry[cur[d]]
      BY <1>0, <3>3, HeldFacts DEF RetryJob, Working, HeldStage, Stage, BudgetInv
    <3>5. attempts[cur[d]] > 0  BY <1>0, <3>4 DEF Spent
    <3>. QED  BY <3>3, <3>5 DEF RetryJob
  <2>3. CASE ~DispatchLoop(d)
    <3>1. Kept(d)  BY <1>0, <2>1, <2>3, OthersKept, ThreadFacts
    <3>2. pc[d] = "requeue" /\ cur'[d] = cur[d]  BY <1>3, <3>1 DEF Kept
    <3>3. cur[d] \in Jobs  BY <1>0, <3>2, HeldFacts DEF Working
    <3>. QED  BY <1>0, <1>1, <3>2, <3>3 DEF PutBackInv
  <2>. QED  BY <2>2, <2>3
<1>. QED  BY <1>2, <1>3 DEF PutBackInv

\* In front of a high-priority job there are only high ones and retried ones.
LEMMA HighFirstStep ==
    ASSUME IInv, TypeOK', PutBackInv, HighFirst, [Next]_vars
    PROVE  HighFirst'
<1>0. /\ TypeOK /\ ThreadInv /\ HoldInv /\ TodoInv
      /\ \A j \in Jobs : /\ attempts[j] \in Nat /\ attempts'[j] \in Nat
                         /\ attempts'[j] >= attempts[j]
  BY Grows DEF IInv, ThreadInv, TypeOK
<1>. DEFINE GoesFirst(j) == Priority[j] = "high" \/ attempts[j] > 0
            GoesFirstNext(j) == Priority[j] = "high" \/ attempts'[j] > 0
<1>1. \A j \in Jobs : GoesFirst(j) => GoesFirstNext(j)  BY <1>0
<1>2. ASSUME NEW w \in Workers
      PROVE  /\ queue[w] \in Seq(Jobs) /\ Len(queue[w]) \in Nat
             /\ \A n \in 1..Len(queue[w]) : queue[w][n] \in Jobs
             /\ \A m, n \in 1..Len(queue[w]) :
                  m < n /\ Priority[queue[w][n]] = "high" => GoesFirstNext(queue[w][m])
  <2>1. queue[w] \in Seq(Jobs)  BY <1>0 DEF TypeOK
  <2>2. Len(queue[w]) \in Nat /\ \A n \in 1..Len(queue[w]) : queue[w][n] \in Jobs
    BY <2>1, ElementOfSeq, LenProperties
  <2>3. \A m, n \in 1..Len(queue[w]) :
          m < n /\ Priority[queue[w][n]] = "high" => GoesFirst(queue[w][m])
    BY DEF HighFirst
  <2>. QED  BY <1>1, <2>1, <2>2, <2>3
<1>. HIDE DEF GoesFirst, GoesFirstNext
<1>. DEFINE Sorted(q) == \A m, n \in 1..Len(q) :
              m < n /\ Priority[q[n]] = "high" => GoesFirstNext(q[m])
<1>3. SUFFICES ASSUME NEW w \in Workers PROVE Sorted(queue'[w])
  BY DEF HighFirst, GoesFirstNext
<1>4. Sorted(queue[w])  BY <1>2
<1>5. ASSUME NEW t \in Threads, Insert(t) PROVE Sorted(queue'[w])
  <2>. DEFINE j == Target(t)  v == WorkerOf[j]  q == queue[v]  r == Inserted(q, j)
  <2>1. j \in Jobs /\ v \in Workers /\ queue' = [queue EXCEPT ![v] = r]
    BY <1>0, <1>5, TargetFacts DEF Insert
  <2>2. CASE w # v
    <3>1. queue'[w] = queue[w]  BY <1>0, <2>1, <2>2 DEF TypeOK
    <3>. QED  BY <1>4, <3>1
  <2>3. CASE w = v
    <3>1. queue'[w] = r  BY <1>0, <2>1, <2>3 DEF TypeOK
    <3>2. q \in Seq(Jobs) /\ Len(q) \in Nat /\ Sorted(q)  BY <1>2, <1>4, <2>3
    <3>3. Len(r) = Len(q) + 1  BY <2>1, <3>2, InsertedFacts
    <3>4. CASE Priority[j] = "high"
      <4>1. r[1] = j /\ \A n \in 2..(Len(q) + 1) : n - 1 \in 1..Len(q) /\ r[n] = q[n - 1]
        BY <2>1, <3>2, <3>4, InsertedFacts
      <4>2. GoesFirstNext(j)  BY <3>4 DEF GoesFirstNext
      <4>3. ASSUME NEW m \in 1..Len(r), NEW n \in 1..Len(r), m < n, Priority[r[n]] = "high"
            PROVE  GoesFirstNext(r[m])
        <5>1. CASE m = 1  BY <4>1, <4>2, <5>1
        <5>2. CASE m # 1
          <6>1. m \in 2..(Len(q) + 1) /\ n \in 2..(Len(q) + 1)  BY <3>2, <3>3, <4>3, <5>2
          <6>2. /\ m - 1 \in 1..Len(q) /\ r[m] = q[m - 1]
                /\ n - 1 \in 1..Len(q) /\ r[n] = q[n - 1] /\ m - 1 < n - 1
            BY <3>2, <4>1, <4>3, <6>1
          <6>. QED  BY <3>2, <4>3, <6>2
        <5>. QED  BY <5>1, <5>2
      <4>. QED  BY <3>1, <4>3
    <3>5. CASE Priority[j] # "high"
      <4>1. r[Len(q) + 1] = j /\ \A n \in 1..Len(q) : r[n] = q[n]
        BY <2>1, <3>2, <3>5, InsertedFacts
      <4>2. ASSUME NEW m \in 1..Len(r), NEW n \in 1..Len(r), m < n, Priority[r[n]] = "high"
            PROVE  GoesFirstNext(r[m])
        <5>1. n # Len(q) + 1  BY <3>5, <4>1, <4>2
        <5>2. m \in 1..Len(q) /\ n \in 1..Len(q)  BY <3>2, <3>3, <4>2, <5>1
        <5>. QED  BY <3>2, <4>1, <4>2, <5>2
      <4>. QED  BY <3>1, <4>2
    <3>. QED  BY <3>4, <3>5
  <2>. QED  BY <2>2, <2>3
<1>6. ASSUME NEW d \in Dispatchers, Pop(d) PROVE Sorted(queue'[w])
  <2>. DEFINE v == d[1]  q == queue[v]
  <2>1. v \in Workers  BY ThreadFacts
  <2>2. PICK k \in 1..Len(q) : queue' = [queue EXCEPT ![v] = SubSeq(q, k + 1, Len(q))]
    BY <1>6 DEF Pop
  <2>. DEFINE r == SubSeq(q, k + 1, Len(q))
  <2>3. CASE w # v
    <3>1. queue'[w] = queue[w]  BY <1>0, <2>2, <2>3 DEF TypeOK
    <3>. QED  BY <1>4, <3>1
  <2>4. CASE w = v
    <3>1. queue'[w] = r  BY <1>0, <2>2, <2>4 DEF TypeOK
    <3>2. q \in Seq(Jobs) /\ Len(q) \in Nat /\ Sorted(q)  BY <1>2, <1>4, <2>4
    <3>3. r \in Seq(Jobs) /\ \A i \in 1..Len(r) : i + k \in 1..Len(q) /\ r[i] = q[i + k]
      BY <3>2, SuffixFacts
    <3>4. ASSUME NEW m \in 1..Len(r), NEW n \in 1..Len(r), m < n, Priority[r[n]] = "high"
          PROVE  GoesFirstNext(r[m])
      <4>1. /\ m + k \in 1..Len(q) /\ r[m] = q[m + k]
            /\ n + k \in 1..Len(q) /\ r[n] = q[n + k] /\ m + k < n + k
        BY <3>2, <3>3, <3>4
      <4>. QED  BY <3>2, <3>4, <4>1
    <3>. QED  BY <3>1, <3>4
  <2>. QED  BY <2>3, <2>4
<1>7. ASSUME NEW d \in Dispatchers, PopNothing(d) PROVE Sorted(queue'[w])
  <2>1. queue'[w] = queue[w] \/ queue'[w] = <<>>
    BY <1>0, <1>7, ThreadFacts DEF PopNothing, TypeOK
  <2>. QED  BY <1>4, <2>1
<1>8. ASSUME NEW d \in Dispatchers, Requeue(d) PROVE Sorted(queue'[w])
  <2>. DEFINE v == d[1]  q == queue[v]  j == cur[d]  r == <<j>> \o q
  <2>1. v \in Workers /\ j \in Jobs /\ queue' = [queue EXCEPT ![v] = r]
    BY <1>0, <1>8, ThreadFacts, HeldFacts DEF Requeue, Working
  <2>2. CASE w # v
    <3>1. queue'[w] = queue[w]  BY <1>0, <2>1, <2>2 DEF TypeOK
    <3>. QED  BY <1>4, <3>1
  <2>3. CASE w = v
    <3>1. queue'[w] = r  BY <1>0, <2>1, <2>3 DEF TypeOK
    <3>2. q \in Seq(Jobs) /\ Len(q) \in Nat /\ Sorted(q)  BY <1>2, <1>4, <2>3
    <3>3. /\ Len(r) = Len(q) + 1 /\ r[1] = j
          /\ \A n \in 2..(Len(q) + 1) : n - 1 \in 1..Len(q) /\ r[n] = q[n - 1]
      BY <2>1, <3>2, ConsFacts
    <3>4. GoesFirstNext(j)
      <4>1. GoesFirst(j)  BY <1>8 DEF Requeue, PutBackInv, GoesFirst
      <4>. QED  BY <1>1, <2>1, <4>1
    <3>5. ASSUME NEW m \in 1..Len(r), NEW n \in 1..Len(r), m < n, Priority[r[n]] = "high"
          PROVE  GoesFirstNext(r[m])
      <4>1. CASE m = 1  BY <3>3, <3>4, <4>1
      <4>2. CASE m # 1
        <5>1. m \in 2..(Len(q) + 1) /\ n \in 2..(Len(q) + 1)  BY <3>2, <3>3, <3>5, <4>2
        <5>2. /\ m - 1 \in 1..Len(q) /\ r[m] = q[m - 1]
              /\ n - 1 \in 1..Len(q) /\ r[n] = q[n - 1] /\ m - 1 < n - 1
          BY <3>2, <3>3, <3>5, <5>1
        <5>. QED  BY <3>2, <3>5, <5>2
      <4>. QED  BY <4>1, <4>2
    <3>. QED  BY <3>1, <3>5
  <2>. QED  BY <2>2, <2>3
<1>9. CASE /\ \A t \in Threads : ~Insert(t)
           /\ \A d \in Dispatchers : ~Pop(d) /\ ~PopNothing(d) /\ ~Requeue(d)
  <2>1. queue' = queue  BY <1>9, QueueKept
  <2>. QED  BY <1>4, <2>1
<1>. QED  BY <1>5, <1>6, <1>7, <1>8, <1>9

\* A queued job that is pending stays in its deque until a thread pops it.
LEMMA QueuedStays ==
    ASSUME TypeOK, TypeOK', ThreadInv, [Next]_vars, NEW i \in Jobs, Queued(i), status[i] = "pending"
    PROVE  Queued(i)' \/ \E d \in Dispatchers : Holds(d, i)'
<1>0. TodoInv /\ HoldInv  BY DEF ThreadInv
<1>1. PICK v \in Workers : \E k \in 1..Len(queue[v]) : queue[v][k] = i  BY DEF Queued
<1>2. PICK k \in 1..Len(queue[v]) : queue[v][k] = i  BY <1>1
<1>3. queue[v] \in Seq(Jobs) /\ Len(queue[v]) \in Nat  BY LenProperties DEF TypeOK
<1>4. queue'[v] = queue[v] => Queued(i)'  BY <1>2 DEF Queued
<1>5. ASSUME NEW t \in Threads, Insert(t) PROVE Queued(i)'
  <2>. DEFINE j == Target(t)  w == WorkerOf[j]  r == Inserted(queue[w], j)
  <2>1. j \in Jobs /\ w \in Workers /\ queue' = [queue EXCEPT ![w] = r]
    BY <1>0, <1>5, TargetFacts DEF Insert
  <2>2. CASE v # w
    <3>1. queue'[v] = queue[v]  BY <2>1, <2>2 DEF TypeOK
    <3>. QED  BY <1>4, <3>1
  <2>3. CASE v = w
    <3>1. queue'[v] = r  BY <2>1, <2>3 DEF TypeOK
    <3>2. PICK n \in 1..Len(Inserted(queue[v], j)) : Inserted(queue[v], j)[n] = queue[v][k]
      BY <1>3, <2>1, InsertedKeeps
    <3>3. n \in 1..Len(queue'[v]) /\ queue'[v][n] = i  BY <1>2, <2>3, <3>1, <3>2
    <3>. QED  BY <3>3 DEF Queued
  <2>. QED  BY <2>2, <2>3
<1>6. ASSUME NEW d \in Dispatchers, Pop(d)
      PROVE  Queued(i)' \/ \E e \in Dispatchers : Holds(e, i)'
  <2>. DEFINE w == d[1]  q == queue[w]
  <2>1. PICK n \in 1..Len(q) : /\ FirstPending(q, n)
                               /\ cur' = [cur EXCEPT ![d] = q[n]]
                               /\ queue' = [queue EXCEPT ![w] = SubSeq(q, n + 1, Len(q))]
    BY <1>6 DEF Pop
  <2>. DEFINE r == SubSeq(q, n + 1, Len(q))
  <2>2. CASE v # w
    <3>1. queue'[v] = queue[v]  BY <2>1, <2>2 DEF TypeOK
    <3>. QED  BY <1>4, <3>1
  <2>3. CASE v = w
    <3>1. queue'[v] = r  BY <2>1, <2>3 DEF TypeOK
    <3>2. n <= k  BY <1>2, <1>3, <2>1, <2>3 DEF FirstPending
    <3>3. CASE k = n
      <4>1. cur'[d] = i /\ pc'[d] = "activate"
        BY <1>2, <1>6, <2>1, <2>3, <3>3, ThreadFacts DEF Pop, Goto, TypeOK
      <4>. QED  BY <4>1 DEF Holds, Working
    <3>4. CASE n < k
      <4>1. /\ q \in Seq(Jobs) /\ \A x \in (n + 1)..Len(q) : q[x] \in Jobs
            /\ n + 1 \in Nat \ {0} /\ Len(q) \in Nat /\ n + 1 <= Len(q)
        BY <1>3, <2>3, <3>4, ElementOfSeq
      <4>2. Len(r) = Len(q) - n /\ \A x \in 1..Len(r) : r[x] = q[n + x]
        BY <4>1, SubSeqProperties
      <4>3. k - n \in 1..Len(r) /\ n + (k - n) = k  BY <1>3, <2>3, <3>4, <4>2
      <4>4. r[k - n] = i  BY <1>2, <2>3, <4>2, <4>3
      <4>. QED  BY <3>1, <4>3, <4>4 DEF Queued
    <3>. QED  BY <1>3, <2>3, <3>2, <3>3, <3>4
  <2>. QED  BY <2>2, <2>3
<1>7. ASSUME NEW d \in Dispatchers, PopNothing(d) PROVE Queued(i)'
  <2>1. v # d[1]  BY <1>2, <1>7 DEF PopNothing
  <2>2. queue'[v] = queue[v]  BY <1>7, <2>1, ThreadFacts DEF PopNothing, TypeOK
  <2>. QED  BY <1>4, <2>2
<1>8. ASSUME NEW d \in Dispatchers, Requeue(d) PROVE Queued(i)'
  <2>. DEFINE w == d[1]  j == cur[d]  r == <<j>> \o queue[w]
  <2>1. w \in Workers /\ j \in Jobs /\ queue' = [queue EXCEPT ![w] = r]
    BY <1>0, <1>8, ThreadFacts, HeldFacts DEF Requeue, Working
  <2>2. CASE v # w
    <3>1. queue'[v] = queue[v]  BY <2>1, <2>2 DEF TypeOK
    <3>. QED  BY <1>4, <3>1
  <2>3. CASE v = w
    <3>1. queue'[v] = r  BY <2>1, <2>3 DEF TypeOK
    <3>2. /\ Len(r) = Len(queue[v]) + 1
          /\ \A n \in 2..(Len(queue[v]) + 1) : r[n] = queue[v][n - 1]
      BY <1>3, <2>1, <2>3, ConsFacts
    <3>3. k + 1 \in 2..(Len(queue[v]) + 1) /\ k + 1 - 1 = k /\ k + 1 \in 1..Len(r)
      BY <1>3, <3>2
    <3>4. r[k + 1] = i  BY <1>2, <3>2, <3>3
    <3>. QED  BY <3>1, <3>3, <3>4 DEF Queued
  <2>. QED  BY <2>2, <2>3
<1>9. CASE /\ \A t \in Threads : ~Insert(t)
           /\ \A d \in Dispatchers : ~Pop(d) /\ ~PopNothing(d) /\ ~Requeue(d)
  <2>1. queue' = queue  BY <1>9, QueueKept
  <2>. QED  BY <1>4, <2>1
<1>. QED  BY <1>5, <1>6, <1>7, <1>8, <1>9

\* A thread that put its job back has it in the deque of its worker.
LEMMA RequeuePuts ==
    ASSUME TypeOK, ThreadInv, NEW d \in Dispatchers, Requeue(d), NEW j \in Jobs, cur[d] = j
    PROVE  Queued(j)'
<1>. DEFINE w == d[1]  q == queue[w]  r == <<j>> \o q
<1>1. w \in Workers /\ j \in Jobs /\ q \in Seq(Jobs) /\ Len(q) \in Nat
  BY ThreadFacts, HeldFacts, LenProperties DEF Requeue, Working, ThreadInv, TypeOK
<1>2. queue'[w] = r  BY <1>1 DEF Requeue, TypeOK
<1>3. Len(r) = Len(q) + 1 /\ r[1] = j  BY <1>1, ConsFacts
<1>4. 1 \in 1..Len(r)  BY <1>1, <1>3
<1>5. \E u \in Workers : \E n \in 1..Len(queue'[u]) : queue'[u][n] = j
  BY <1>1, <1>2, <1>3, <1>4
<1>. QED  BY <1>5 DEF Queued

\* A thread that inserted its job has it in the deque of the job's worker.
LEMMA InsertPuts ==
    ASSUME TypeOK, ThreadInv, NEW t \in Threads, Insert(t), NEW i \in Jobs, Target(t) = i
    PROVE  Queued(i)'
<1>. DEFINE w == WorkerOf[i]  q == queue[w]  r == Inserted(q, i)
<1>1. w \in Workers /\ q \in Seq(Jobs) /\ Len(q) \in Nat
  BY JobAssumption, LenProperties DEF TypeOK
<1>2. queue'[w] = r  BY <1>1 DEF Insert, TypeOK
<1>3. Len(r) = Len(q) + 1  BY <1>1, InsertedFacts
<1>4. r[1] = i \/ r[Len(q) + 1] = i  BY <1>1, InsertedFacts
<1>5. 1 \in 1..Len(r) /\ Len(q) + 1 \in 1..Len(r)  BY <1>1, <1>3
<1>6. \E n \in 1..Len(queue'[w]) : queue'[w][n] = i  BY <1>2, <1>4, <1>5
<1>. QED  BY <1>1, <1>6 DEF Queued

\* Only StartThread boots a thread, and only one that is dead.
LEMMA BootsDead ==
    ASSUME TypeOK, [Next]_vars, NEW u \in Dispatchers, pc'[u] = "boot"
    PROVE  pc[u] \in {"boot", "dead"}
<1>1. ASSUME NEW t \in Threads, InstantiateRaises(t) PROVE pc[u] = "boot"
  BY <1>1, ThreadFacts DEF TypeOK, InstantiateRaises, Raise, Catch, Goto
<1>2. ASSUME NEW t \in Threads, ScanRaises(t) PROVE pc[u] = "boot"
  BY <1>2, ThreadFacts DEF TypeOK, ScanRaises, Raise, Catch, Goto
<1>3. ASSUME NEW t \in Threads, RemoveRaises(t) PROVE pc[u] = "boot"
  BY <1>3, ThreadFacts DEF TypeOK, RemoveRaises, Raise, Catch, Goto
<1>4. ASSUME NEW t \in Threads, StartThread(t) PROVE pc[u] \in {"boot", "dead"}
  BY <1>4, ThreadFacts DEF TypeOK, StartThread
<1>5. ASSUME NEW t \in Threads,
             Register(t) \/ Insert(t) \/ EnsureAlive(t) \/ HandlersDone(t) \/ Fire(t)
      PROVE  pc[u] = "boot"
  BY <1>5, ThreadFacts DEF TypeOK, Register, Insert, EnsureAlive, HandlersDone, Fire, Goto
<1>6. ASSUME NEW t \in Threads, ScanRunsHandler(t) \/ ScanEnds(t) \/ EventDone(t)
      PROVE  pc[u] = "boot"
  BY <1>6, ThreadFacts DEF TypeOK, ScanRunsHandler, ScanEnds, EventDone, Goto
<1>7. ASSUME NEW d \in Dispatchers,
             Boot(d) \/ LoopTop(d) \/ Pop(d) \/ PopNothing(d) \/ Activate(d) \/ Acquire(d)
      PROVE  pc[u] = "boot"
  BY <1>7, ThreadFacts DEF TypeOK, Boot, LoopTop, Pop, PopNothing, Activate, Acquire, Goto
<1>8. ASSUME NEW d \in Dispatchers,
             \/ Execute(d) \/ Finish(d) \/ Store(d) \/ RetryJob(d) \/ Requeue(d) \/ GiveUp(d)
      PROVE  pc[u] = "boot"
  BY <1>8, ThreadFacts DEF TypeOK, Execute, Finish, Store, RetryJob, Requeue, GiveUp, Goto
<1>9. ASSUME NEW j \in Cancellable, Cancel(j) PROVE pc[u] = "boot"
  BY <1>9, ThreadFacts DEF TypeOK, Cancel, Goto
<1>10. CASE \/ \E t \in Threads : SkipKnown(t) \/ ScanPasses(t) \/ RemoveFired(t)
            \/ Shutdown
            \/ UNCHANGED vars
  BY <1>10 DEF SkipKnown, ScanPasses, RemoveFired, Shutdown, vars
<1>. QED
  BY <1>1, <1>2, <1>3, <1>4, <1>5, <1>6, <1>7, <1>8, <1>9, <1>10
     DEF Next, Enqueue, FireEvent, DispatchLoop

\* A thread lets go of a job that is not settled only by putting it back.
LEMMA HoldsStays ==
    ASSUME IInv, TypeOK', [Next]_vars, NEW d \in Dispatchers, NEW i \in Jobs, Holds(d, i),
           status[i] \in {"pending", "active"}
    PROVE  Holds(d, i)' \/ Queued(i)'
<1>0. TypeOK /\ ThreadInv /\ HoldInv /\ Stage(d)  BY DEF IInv, ThreadInv, StageInv, HeldStage
<1>1. Working(d) /\ cur[d] = i  BY DEF Holds
<1>2. pc[d] \notin EventPcs  BY <1>0, <1>1 DEF Stage
<1>3. ~Enqueue(d) /\ ~FireEvent(d)  BY <1>0, <1>2, EventStep, ThreadFacts DEF EventMove
<1>4. CASE DispatchLoop(d)
  <2>1. ~Boot(d) /\ ~LoopTop(d) /\ ~Pop(d) /\ ~PopNothing(d)
    BY <1>1 DEF Working, Boot, LoopTop, Pop, PopNothing
  <2>2. CASE Requeue(d)  BY <1>0, <1>1, <2>2, RequeuePuts
  <2>3. CASE \/ Activate(d) \/ Acquire(d) \/ Execute(d) \/ Finish(d) \/ Store(d)
             \/ RetryJob(d) \/ GiveUp(d)
    <3>1. cur' = cur /\ pc'[d] \notin {"dead", "boot", "top", "pop"}
      BY <1>0, <2>3, ThreadFacts, ZenonT(40)
         DEF Activate, Acquire, Execute, Finish, Store, RetryJob, GiveUp, Goto, TypeOK
    <3>. QED  BY <1>1, <3>1 DEF Holds, Working
  <2>. QED  BY <1>4, <2>1, <2>2, <2>3 DEF DispatchLoop
<1>5. CASE ~DispatchLoop(d)
  <2>1. Kept(d)  BY <1>0, <1>3, <1>5, OthersKept, ThreadFacts
  <2>2. pc'[d] = pc[d]  BY <1>0, <1>1, <2>1, BootsDead DEF Kept, Working
  <2>. QED  BY <1>1, <2>1, <2>2 DEF Kept, Holds, Working
<1>. QED  BY <1>4, <1>5

\* A thread that is about to insert a job goes on to insert it.
LEMMA InsertsStays ==
    ASSUME TypeOK, ThreadInv, [Next]_vars, NEW t \in Threads, NEW i \in Jobs, Inserts(t, i)
    PROVE  Inserts(t, i)' \/ Queued(i)'
<1>1. pc[t] = "insert" /\ Target(t) = i  BY DEF Inserts
<1>2. CASE Insert(t)  BY <1>1, <1>2, InsertPuts
<1>3. CASE ~Insert(t)
  <2>1. ~Enqueue(t)
    BY <1>1, <1>3 DEF Enqueue, InstantiateRaises, SkipKnown, Register, Instantiable, EnsureAlive,
         StartThread, HandlersDone
  <2>2. ~FireEvent(t)
    BY <1>1 DEF FireEvent, Fire, ScanRunsHandler, ScanPasses, ScanRaises, ScanEnds, InScan,
         RemoveFired, RemoveRaises, EventDone
  <2>3. t \in Dispatchers => ~DispatchLoop(t)
    BY <1>1 DEF DispatchLoop, Boot, LoopTop, Pop, PopNothing, Activate, Acquire, Execute, Finish,
         Store, RetryJob, Requeue, GiveUp
  <2>4. t # Api \/ \A j \in Cancellable : ~Cancel(j)  BY <1>1 DEF Cancel
  <2>5. Kept(t)  BY <2>1, <2>2, <2>3, <2>4, OthersKept
  <2>6. pc'[t] = pc[t]  BY <1>1, <2>5, BootsDead DEF Kept
  <2>. QED  BY <1>1, <2>5, <2>6 DEF Kept, Inserts, Target
<1>. QED  BY <1>2, <1>3

\* A job becomes registered when a thread is about to insert it.
LEMMA RegisterInserts ==
    ASSUME TypeOK, [Next]_vars, NEW i \in Jobs, status[i] = "none", status'[i] = "pending",
           \A d \in Dispatchers : Handles(d) => cur[d] # i
    PROVE  \E t \in Threads : Inserts(t, i)'
<1>1. ASSUME NEW t \in Threads, Register(t) PROVE Inserts(t, i)'
  <2>1. Target(t) = i  BY <1>1 DEF TypeOK, Register
  <2>2. pc'[t] = "insert" /\ todo' = todo  BY <1>1 DEF TypeOK, Register, Goto
  <2>. QED  BY <2>1, <2>2 DEF Inserts, Target
<1>2. ASSUME \A t \in Threads : ~Register(t) PROVE FALSE
  <2>1. ASSUME NEW t \in Threads, Enqueue(t) PROVE status' = status
    BY <1>2, <2>1 DEF Enqueue, InstantiateRaises, SkipKnown, Insert, EnsureAlive, StartThread,
         HandlersDone, jobVars
  <2>2. ASSUME NEW t \in Threads, FireEvent(t) PROVE status' = status
    BY <2>2 DEF FireEvent, Fire, ScanRunsHandler, ScanPasses, ScanRaises, ScanEnds, RemoveFired,
         RemoveRaises, EventDone, jobVars
  <2>3. ASSUME NEW d \in Dispatchers, DispatchLoop(d), ~Handles(d) PROVE status' = status
    BY <2>3 DEF DispatchLoop, Handles, Boot, LoopTop, Pop, PopNothing, Execute, Store, Requeue,
         jobVars
  <2>4. ASSUME NEW d \in Dispatchers, Handles(d) PROVE status'[i] = status[i]
    BY <2>4 DEF TypeOK, Handles, Activate, Acquire, Finish, RetryJob, GiveUp, SetStatus
  <2>5. ASSUME NEW j \in Cancellable, Cancel(j) PROVE status'[i] = status[i]
    BY <2>5 DEF TypeOK, Cancel
  <2>6. CASE Shutdown \/ UNCHANGED vars  BY <2>6 DEF Shutdown, vars, jobVars
  <2>. QED  BY <2>1, <2>2, <2>3, <2>4, <2>5, <2>6 DEF Next
<1>. QED  BY <1>1, <1>2

\* A step that changes the status of a held job does not let go of it.
LEMMA HandlesStays ==
    ASSUME TypeOK, NEW d \in Dispatchers, Handles(d), NEW i \in Jobs, cur[d] = i
    PROVE  Holds(d, i)'
<1>1. cur' = cur  BY DEF Handles, Activate, Acquire, Finish, RetryJob, GiveUp
<1>2. pc'[d] \in {"acquire", "exec", "store", "requeue", "fire"}
  BY ThreadFacts DEF TypeOK, Handles, Activate, Acquire, Finish, RetryJob, GiveUp, Goto
<1>. QED  BY <1>1, <1>2 DEF Holds, Working

\* No step loses a job.
LEMMA NoJobLostStep ==
    ASSUME IInv, TypeOK', NoJobLost, [Next]_vars
    PROVE  NoJobLost'
<1>. DEFINE Kept2(i) == \/ Queued(i)'
                        \/ \E d \in Dispatchers : Holds(d, i)'
                        \/ \E t \in Threads : Inserts(t, i)'
<1>. SUFFICES ASSUME NEW i \in Jobs, status'[i] \in {"pending", "active"} PROVE Kept2(i)
  BY DEF NoJobLost
<1>0. TypeOK /\ ThreadInv  BY DEF IInv
<1>1. CASE status[i] \in {"pending", "active"}
  <2>1. CASE Queued(i)
    <3>1. status[i] = "pending"  BY <1>1, <2>1 DEF IInv, StageInv, QueuedStage, Waits
    <3>. QED  BY <1>0, <2>1, <3>1, QueuedStays
  <2>2. ASSUME NEW d \in Dispatchers, Holds(d, i) PROVE Kept2(i)
    BY <1>1, <2>2, HoldsStays
  <2>3. ASSUME NEW t \in Threads, Inserts(t, i) PROVE Kept2(i)
    BY <1>0, <2>3, InsertsStays
  <2>. QED  BY <1>1, <2>1, <2>2, <2>3 DEF NoJobLost
<1>2. CASE status[i] \notin {"pending", "active"}
  <2>1. ASSUME NEW d \in Dispatchers, Handles(d), cur[d] = i PROVE Kept2(i)
    BY <1>0, <2>1, HandlesStays
  <2>2. CASE \A d \in Dispatchers : Handles(d) => cur[d] # i
    <3>1. JobSame(i)  BY <1>0, <2>2, JobKept
    <3>2. status[i] = "none" /\ status'[i] = "pending"  BY <1>2, <3>1 DEF JobSame
    <3>. QED  BY <1>0, <2>2, <3>2, RegisterInserts
  <2>. QED  BY <2>1, <2>2
<1>. QED  BY <1>1, <1>2

\* The strengthened invariant holds at first.
LEMMA DeliveryInit == Init => DInv
<1>. SUFFICES ASSUME Init PROVE DInv
  OBVIOUS
<1>1. IInv  BY InitInv
<1>2. \A d \in Dispatchers : pc[d] = "dead"  BY ThreadFacts DEF Init
<1>3. FireStored /\ PutBackInv  BY <1>2 DEF FireStored, PutBackInv
<1>4. ReportedIsStored  BY DEF Init, ReportedIsStored
<1>5. \A j \in Jobs : Retry[j] \in Nat /\ retriesLeft[j] = Retry[j]  BY JobAssumption DEF Init
<1>6. BudgetInv  BY <1>5 DEF BudgetInv
<1>7. HighFirst
  <2>1. \A w \in Workers : Len(queue[w]) = 0  BY DEF Init
  <2>. QED  BY <2>1 DEF HighFirst
<1>8. NoJobLost  BY DEF Init, NoJobLost
<1>. QED  BY <1>1, <1>3, <1>4, <1>6, <1>7, <1>8 DEF DInv

\* Every step keeps it.
LEMMA DeliveryNext == DInv /\ [Next]_vars => DInv'
<1>. SUFFICES ASSUME DInv, [Next]_vars PROVE DInv'
  OBVIOUS
<1>1. IInv'  BY NextInv DEF DInv
<1>2. TypeOK'  BY <1>1 DEF IInv
<1>3. FireStored' /\ ReportedIsStored'  BY FireStoredStep, ReportedStep DEF DInv
<1>4. BudgetInv' /\ PutBackInv'  BY <1>2, BudgetStep DEF DInv
<1>5. HighFirst'  BY <1>2, HighFirstStep DEF DInv
<1>6. NoJobLost'  BY <1>2, NoJobLostStep DEF DInv
<1>. QED  BY <1>1, <1>3, <1>4, <1>5, <1>6 DEF DInv

\* DInv is an invariant of the specification.
LEMMA DeliveryInductive == Spec => []DInv
BY DeliveryInit, DeliveryNext, PTL DEF Spec

\* A job that is pending or active waits in a deque or is in the hands of a
\* thread: between the pop and the requeue, through handler errors, retries,
\* cancellations and threads started twice, enqueue and _dispatch_loop never
\* drop one (gateway_runtime.py:299-393).
THEOREM NoJobIsLost == Spec => []NoJobLost
<1>1. DInv => NoJobLost  BY DEF DInv
<1>. QED  BY <1>1, DeliveryInductive, PTL

\* In every deque a high-priority job waits behind high-priority jobs and
\* retried ones only: the appendleft of enqueue and that of the retry.
THEOREM PriorityKept == Spec => []HighFirst
<1>1. DInv => HighFirst  BY DEF DInv
<1>. QED  BY <1>1, DeliveryInductive, PTL

\* The event log says "done" of a job only when its result is stored
\* (gateway_runtime.py:363-368, in this order).
THEOREM ReportedStored == Spec => []ReportedIsStored
<1>1. DInv => ReportedIsStored  BY DEF DInv
<1>. QED  BY <1>1, DeliveryInductive, PTL
-----------------------------------------------------------------------------
(***************************************************************************)
(* How often an all_done handler runs: once, as long as one thread at a    *)
(* time goes through the list and comes to its end.                        *)
(***************************************************************************)

\* A thread in the all_done scan, or that has yet to remove what it fired in it.
Handling(t) == pc[t] \in {"scan", "remove"} \/ fired[t] # <<>>

\* Two threads do not go through the all_done handlers at once, and none leaves
\* an event with handlers run and not removed.
OneHandles == \A t, u \in Threads : Handling(t) /\ Handling(u) => t = u
NoneAbandoned == \A t \in Threads : fired[t] # <<>> => pc[t] \in EventPcs \ {"fire"}

Distinct(s) == \A m, n \in 1..Len(s) : s[m] = s[n] => m = n

\* A subscription that is still there has run only if some thread is about to
\* remove it; until it does, it is there, behind the place the thread has come to.
RanFired == \A n \in 1..Len(subs) : ran[subs[n]] > 0 =>
    \E t \in Threads : \E k \in 1..Len(fired[t]) : fired[t][k] = subs[n]
FiredBehind == \A t \in Threads : \A k \in 1..Len(fired[t]) :
    \E n \in 1..Len(subs) : subs[n] = fired[t][k] /\ (pc[t] # "remove" => n < pos[t])
HandlerInv ==
    /\ Distinct(subs) /\ \A t \in Threads : Distinct(fired[t])
    /\ RanFired /\ FiredBehind /\ FireOnce

\* list.remove: the places before stay, those behind come one nearer.
LEMMA RemoveAtFacts ==
    ASSUME NEW S, NEW q \in Seq(S), NEW n \in 1..Len(q)
    PROVE  LET r == RemoveAt(q, n) IN
             /\ r \in Seq(S) /\ Len(r) = Len(q) - 1
             /\ \A i \in 1..Len(r) : \/ i < n /\ r[i] = q[i]
                                     \/ i >= n /\ i + 1 \in 1..Len(q) /\ r[i] = q[i + 1]
<1>. DEFINE a == SubSeq(q, 1, n - 1)  b == SubSeq(q, n + 1, Len(q))
<1>0. Len(q) \in Nat /\ n \in 1..Len(q)  BY LenProperties
<1>1. a \in Seq(S) /\ Len(a) = n - 1 /\ \A i \in 1..(n - 1) : a[i] = q[i]
  <2>1. \A i \in 1..(n - 1) : q[i] \in S  BY ElementOfSeq
  <2>. QED  BY <1>0, <2>1, SubSeqProperties
<1>2. b \in Seq(S) /\ Len(b) = Len(q) - n /\ \A i \in 1..(Len(q) - n) : b[i] = q[i + n]
  <2>1. \A i \in (n + 1)..Len(q) : q[i] \in S  BY ElementOfSeq
  <2>. QED  BY <1>0, <2>1, SubSeqProperties
<1>. HIDE DEF a, b
<1>3. a \o b \in Seq(S) /\ Len(a \o b) = Len(q) - 1
      /\ \A i \in 1..(Len(q) - 1) : (a \o b)[i] = IF i <= n - 1 THEN a[i] ELSE b[i - (n - 1)]
  <2>1. /\ a \o b \in Seq(S) /\ Len(a \o b) = Len(a) + Len(b)
        /\ \A i \in 1..(Len(a) + Len(b)) : (a \o b)[i] = IF i <= Len(a) THEN a[i] ELSE b[i - Len(a)]
    BY <1>1, <1>2, ConcatProperties
  <2>2. Len(a) + Len(b) = Len(q) - 1  BY <1>0, <1>1, <1>2
  <2>. QED  BY <1>1, <2>1, <2>2
<1>4. ASSUME NEW i \in 1..(Len(q) - 1)
      PROVE  \/ i < n /\ (a \o b)[i] = q[i]
             \/ i >= n /\ i + 1 \in 1..Len(q) /\ (a \o b)[i] = q[i + 1]
  <2>1. CASE i < n  BY <1>0, <1>1, <1>3, <2>1
  <2>2. CASE ~(i < n)
    <3>1. i - (n - 1) \in 1..(Len(q) - n) /\ i - (n - 1) + n = i + 1  BY <1>0, <2>2
    <3>2. (a \o b)[i] = b[i - (n - 1)]  BY <1>0, <1>3, <2>2
    <3>. QED  BY <1>0, <1>2, <2>2, <3>1, <3>2
  <2>. QED  BY <2>1, <2>2
<1>5. RemoveAt(q, n) = a \o b  BY DEF RemoveAt, a, b
<1>. QED  BY <1>3, <1>4, <1>5

\* Which steps change the subscriptions and the lists of what was fired.
LEMMA ScanKept ==
    ASSUME [Next]_vars
    PROVE  \/ UNCHANGED <<subs, ran, fired, pos>>
           \/ \E t \in Threads : Fire(t) \/ ScanRunsHandler(t) \/ ScanPasses(t) \/ RemoveFired(t)
<1>1. ASSUME NEW t \in Threads, Enqueue(t)
      PROVE  UNCHANGED <<subs, ran, fired, pos>>
  BY <1>1 DEF Enqueue, InstantiateRaises, SkipKnown, Register, Insert, EnsureAlive, StartThread,
       HandlersDone, subVars, scanVars
<1>2. ASSUME NEW t \in Threads, ScanRaises(t) \/ ScanEnds(t) \/ RemoveRaises(t) \/ EventDone(t)
      PROVE  UNCHANGED <<subs, ran, fired, pos>>
  BY <1>2 DEF ScanRaises, ScanEnds, RemoveRaises, EventDone, subVars, scanVars
<1>3. ASSUME NEW d \in Dispatchers, DispatchLoop(d)
      PROVE  UNCHANGED <<subs, ran, fired, pos>>
  BY <1>3 DEF DispatchLoop, Boot, LoopTop, Pop, PopNothing, Activate, Acquire, Execute, Finish,
       Store, RetryJob, Requeue, GiveUp, subVars, scanVars
<1>4. ASSUME NEW j \in Cancellable, Cancel(j)
      PROVE  UNCHANGED <<subs, ran, fired, pos>>
  BY <1>4 DEF Cancel, subVars, scanVars
<1>5. CASE Shutdown \/ UNCHANGED vars
  BY <1>5 DEF Shutdown, vars, subVars, scanVars
<1>. QED  BY <1>1, <1>2, <1>3, <1>4, <1>5 DEF Next, FireEvent

\* A thread that leaves the removal leaves the event.
LEMMA RemovalLeft ==
    ASSUME TypeOK, [Next]_vars, NEW t \in Threads, pc[t] = "remove", pc'[t] # "remove"
    PROVE  pc'[t] \notin EventPcs \ {"fire"}
<1>1. CASE RemoveRaises(t)
  BY <1>1, ThreadFacts DEF RemoveRaises, Raise, Catch, Goto, TypeOK, EventPcs
<1>2. CASE EventDone(t)
  BY <1>2, ThreadFacts DEF EventDone, Goto, TypeOK, EventPcs
<1>3. CASE ~RemoveRaises(t) /\ ~EventDone(t)
  <2>1. ~Enqueue(t)
    BY DEF Enqueue, InstantiateRaises, SkipKnown, Register, Insert, EnsureAlive, StartThread,
       HandlersDone, Instantiable
  <2>2. ~RemoveFired(t)  BY DEF RemoveFired
  <2>3. ~FireEvent(t)
    BY <1>3, <2>2 DEF FireEvent, Fire, ScanRunsHandler, ScanPasses, ScanRaises, ScanEnds, InScan
  <2>4. t \in Dispatchers => ~DispatchLoop(t)
    BY DEF DispatchLoop, Boot, LoopTop, Pop, PopNothing, Activate, Acquire, Execute, Finish,
       Store, RetryJob, Requeue, GiveUp
  <2>5. t # Api \/ \A j \in Cancellable : ~Cancel(j)  BY DEF Cancel
  <2>6. Kept(t)  BY <2>1, <2>3, <2>4, <2>5, OthersKept
  <2>. QED  BY <2>6 DEF Kept, EventPcs
<1>. QED  BY <1>1, <1>2, <1>3

\* What each of the four does to them.
LEMMA FireKeeps ==
    ASSUME TypeOK, NoneAbandoned, HandlerInv, NEW t \in Threads, Fire(t)
    PROVE  HandlerInv'
<1>1. pc[t] = "fire" /\ fired[t] = <<>>  BY DEF Fire, NoneAbandoned
<1>2. subs' = subs /\ ran' = ran /\ fired' = fired
  BY <1>1 DEF Fire, subVars, TypeOK
<1>3. \A u \in Threads : u # t => pos'[u] = pos[u] /\ (pc'[u] # "remove" => pc[u] # "remove")
  BY DEF Fire, Goto, TypeOK
<1>4. \A k \in 1..Len(fired[t]) : FALSE  BY <1>1
<1>5. FiredBehind'  BY <1>2, <1>3, <1>4 DEF HandlerInv, FiredBehind
<1>. QED  BY <1>2, <1>5 DEF HandlerInv, RanFired, FireOnce, Distinct

LEMMA PassKeeps ==
    ASSUME TypeOK, HandlerInv, NEW t \in Threads, ScanPasses(t)
    PROVE  HandlerInv'
<1>1. subs' = subs /\ ran' = ran /\ fired' = fired /\ pc' = pc  BY DEF ScanPasses, subVars
<1>2. \A u \in Threads : pos'[u] \in {pos[u], pos[u] + 1} /\ pos[u] \in Nat  BY DEF ScanPasses, TypeOK
<1>3. FiredBehind'
  <2>1. ASSUME NEW u \in Threads, NEW k \in 1..Len(fired[u])
        PROVE  \E n \in 1..Len(subs) : subs[n] = fired[u][k] /\ (pc[u] # "remove" => n < pos'[u])
    <3>1. PICK n \in 1..Len(subs) : subs[n] = fired[u][k] /\ (pc[u] # "remove" => n < pos[u])
      BY DEF HandlerInv, FiredBehind
    <3>2. n \in Nat  BY DEF TypeOK
    <3>3. pc[u] # "remove" => n < pos'[u]  BY <1>2, <3>1, <3>2
    <3>. QED  BY <3>1, <3>3
  <2>. QED  BY <1>1, <2>1 DEF FiredBehind
<1>. QED  BY <1>1, <1>3 DEF HandlerInv, RanFired, FireOnce, Distinct

LEMMA RunKeeps ==
    ASSUME TypeOK, OneHandles, NoneAbandoned, HandlerInv, NEW t \in Threads, ScanRunsHandler(t)
    PROVE  HandlerInv'
<1>. DEFINE s == subs[pos[t]]  f == fired[t]
<1>0. /\ pc[t] = "scan" /\ pos[t] \in 1..Len(subs) /\ s \in Subs /\ f \in Seq(Subs)
      /\ Len(f) \in Nat /\ Len(subs) \in Nat
  BY DEF ScanRunsHandler, InScan, TypeOK
<1>1. /\ subs' = subs /\ ran' = [ran EXCEPT ![s] = @ + 1]
      /\ fired' = [fired EXCEPT ![t] = Append(f, s)] /\ pos' = [pos EXCEPT ![t] = @ + 1]
      /\ pc' = [pc EXCEPT ![t] = "handlers"]
  BY DEF ScanRunsHandler, Goto
<1>2. /\ fired'[t] = Append(f, s) /\ pos'[t] = pos[t] + 1 /\ pc'[t] # "remove"
      /\ \A u \in Threads \ {t} : fired'[u] = fired[u] /\ pos'[u] = pos[u] /\ pc'[u] = pc[u]
  BY <1>1 DEF TypeOK
<1>. HIDE DEF s, f
<1>3. Len(Append(f, s)) = Len(f) + 1 /\ Append(f, s)[Len(f) + 1] = s
      /\ \A k \in 1..Len(f) : Append(f, s)[k] = f[k]
  BY <1>0, AppendProperties
<1>4. \A k \in 1..Len(f) : \E n \in 1..Len(subs) : n < pos[t] /\ subs[n] = f[k]
  BY <1>0 DEF HandlerInv, FiredBehind, f
<1>5. \A k \in 1..Len(f) : f[k] # s
  <2>1. ASSUME NEW k \in 1..Len(f), f[k] = s  PROVE FALSE
    <3>1. PICK n \in 1..Len(subs) : n < pos[t] /\ subs[n] = f[k]  BY <1>4
    <3>2. n = pos[t]  BY <1>0, <2>1, <3>1 DEF HandlerInv, Distinct, s
    <3>. QED  BY <1>0, <3>1, <3>2
  <2>. QED  BY <2>1
<1>6. ran[s] = 0
  <2>1. ran[s] \in Nat  BY <1>0 DEF TypeOK
  <2>2. ASSUME ran[s] > 0  PROVE FALSE
    <3>1. PICK u \in Threads : \E k \in 1..Len(fired[u]) : fired[u][k] = s
      BY <1>0, <2>2 DEF HandlerInv, RanFired, s
    <3>2. fired[u] # <<>>  BY <3>1
    <3>3. u = t  BY <1>0, <3>2 DEF OneHandles, Handling
    <3>. QED  BY <1>5, <3>1, <3>3 DEF f
  <2>. QED  BY <2>1, <2>2
<1>7. ran'[s] = 1 /\ \A x \in Subs \ {s} : ran'[x] = ran[x]  BY <1>0, <1>1, <1>6 DEF TypeOK
<1>8. FireOnce'  BY <1>7 DEF HandlerInv, FireOnce
<1>9. Distinct(fired'[t])
  <2>1. ASSUME NEW m \in 1..(Len(f) + 1), NEW n \in 1..(Len(f) + 1), Append(f, s)[m] = Append(f, s)[n]
        PROVE  m = n
    <3>1. m \in 1..Len(f) \/ m = Len(f) + 1  BY <1>0
    <3>2. n \in 1..Len(f) \/ n = Len(f) + 1  BY <1>0
    <3>3. Distinct(f)  BY DEF HandlerInv, f
    <3>. QED  BY <1>3, <1>5, <2>1, <3>1, <3>2, <3>3 DEF Distinct
  <2>. QED  BY <1>2, <1>3, <2>1 DEF Distinct
<1>10. \A u \in Threads : Distinct(fired'[u])  BY <1>2, <1>9 DEF HandlerInv
<1>11. RanFired'
  <2>1. ASSUME NEW n \in 1..Len(subs), ran'[subs[n]] > 0
        PROVE  \E u \in Threads : \E k \in 1..Len(fired'[u]) : fired'[u][k] = subs[n]
    <3>1. CASE subs[n] = s
      <4>1. Len(f) + 1 \in 1..Len(fired'[t]) /\ fired'[t][Len(f) + 1] = subs[n]
        BY <1>0, <1>2, <1>3, <3>1
      <4>. QED  BY <4>1
    <3>2. CASE subs[n] # s
      <4>1. subs[n] \in Subs  BY <1>0 DEF TypeOK
      <4>2. ran[subs[n]] > 0  BY <1>7, <2>1, <3>2, <4>1
      <4>3. PICK u \in Threads : \E k \in 1..Len(fired[u]) : fired[u][k] = subs[n]
        BY <4>2 DEF HandlerInv, RanFired
      <4>k. PICK k \in 1..Len(fired[u]) : fired[u][k] = subs[n]  BY <4>3
      <4>4. CASE u = t
        <5>1. k \in 1..Len(f) /\ f[k] = subs[n]  BY <4>k, <4>4 DEF f
        <5>2. k \in 1..Len(fired'[t]) /\ fired'[t][k] = subs[n]  BY <1>0, <1>2, <1>3, <5>1
        <5>. QED  BY <5>2
      <4>5. CASE u # t
        <5>1. fired'[u] = fired[u]  BY <1>2, <4>5
        <5>. QED  BY <4>k, <5>1
      <4>. QED  BY <4>4, <4>5
    <3>. QED  BY <3>1, <3>2
  <2>. QED  BY <1>1, <2>1 DEF RanFired
<1>12. FiredBehind'
  <2>1. ASSUME NEW k \in 1..(Len(f) + 1)
        PROVE  \E n \in 1..Len(subs) : n < pos[t] + 1 /\ subs[n] = Append(f, s)[k]
    <3>1. CASE k = Len(f) + 1
      <4>1. pos[t] < pos[t] + 1 /\ subs[pos[t]] = Append(f, s)[k]  BY <1>0, <1>3, <3>1 DEF s
      <4>. QED  BY <1>0, <4>1
    <3>2. CASE k # Len(f) + 1
      <4>1. k \in 1..Len(f)  BY <1>0, <3>2
      <4>2. PICK n \in 1..Len(subs) : n < pos[t] /\ subs[n] = f[k]  BY <1>4, <4>1
      <4>3. n < pos[t] + 1 /\ subs[n] = Append(f, s)[k]  BY <1>0, <1>3, <4>1, <4>2
      <4>. QED  BY <4>3
    <3>. QED  BY <3>1, <3>2
  <2>2. ASSUME NEW u \in Threads, NEW k \in 1..Len(fired'[u])
        PROVE  \E n \in 1..Len(subs) : subs[n] = fired'[u][k] /\ (pc'[u] # "remove" => n < pos'[u])
    <3>1. CASE u = t
      <4>1. k \in 1..(Len(f) + 1) /\ fired'[u][k] = Append(f, s)[k] /\ pos'[u] = pos[t] + 1
        BY <1>2, <1>3, <3>1
      <4>. QED  BY <2>1, <4>1
    <3>2. CASE u # t  BY <1>2, <3>2 DEF HandlerInv, FiredBehind
    <3>. QED  BY <3>1, <3>2
  <2>. QED  BY <1>1, <2>2 DEF FiredBehind
<1>. QED  BY <1>1, <1>8, <1>10, <1>11, <1>12 DEF HandlerInv

LEMMA RemoveKeeps ==
    ASSUME TypeOK, OneHandles, HandlerInv, NEW t \in Threads, RemoveFired(t)
    PROVE  HandlerInv'
<1>. DEFINE f == fired[t]
<1>0. pc[t] = "remove" /\ f # <<>> /\ f \in Seq(Subs) /\ Len(f) \in Nat /\ subs \in Seq(Subs)
  BY DEF RemoveFired, TypeOK
<1>1. PICK n \in 1..Len(subs) : subs[n] = Head(f) /\ subs' = RemoveAt(subs, n)  BY DEF RemoveFired
<1>2. fired' = [fired EXCEPT ![t] = Tail(f)] /\ ran' = ran /\ pc' = pc  BY DEF RemoveFired
<1>3. fired'[t] = Tail(f) /\ \A u \in Threads \ {t} : fired'[u] = fired[u]  BY <1>2 DEF TypeOK
<1>4. \A u \in Threads \ {t} : fired[u] = <<>>  BY <1>0 DEF OneHandles, Handling
<1>. HIDE DEF f
<1>5. Len(Tail(f)) = Len(f) - 1 /\ Head(f) = f[1] /\ \A k \in 1..(Len(f) - 1) : Tail(f)[k] = f[k + 1]
  BY <1>0, HeadTailProperties
<1>6. /\ subs' \in Seq(Subs) /\ Len(subs') = Len(subs) - 1 /\ Len(subs) \in Nat
      /\ \A i \in 1..Len(subs') : \/ i < n /\ i \in 1..Len(subs) /\ subs'[i] = subs[i]
                                  \/ i >= n /\ i + 1 \in 1..Len(subs) /\ subs'[i] = subs[i + 1]
  <2>1. Len(subs) \in Nat  BY <1>0
  <2>. QED  BY <1>0, <1>1, <2>1, RemoveAtFacts
<1>7. Distinct(subs')
  <2>1. ASSUME NEW i \in 1..Len(subs'), NEW j \in 1..Len(subs'), subs'[i] = subs'[j]  PROVE i = j
    <3>1. \A a, b \in 1..Len(subs) : subs[a] = subs[b] => a = b  BY DEF HandlerInv, Distinct
    <3>2. i \in Nat /\ j \in Nat /\ n \in Nat  BY <1>6
    <3>. QED  BY <1>6, <2>1, <3>1, <3>2
  <2>. QED  BY <2>1 DEF Distinct
<1>8. Distinct(Tail(f))
  <2>1. \A a, b \in 1..Len(f) : f[a] = f[b] => a = b  BY DEF HandlerInv, Distinct, f
  <2>2. ASSUME NEW i \in 1..(Len(f) - 1), NEW j \in 1..(Len(f) - 1), Tail(f)[i] = Tail(f)[j]
        PROVE  i = j
    <3>1. i + 1 \in 1..Len(f) /\ j + 1 \in 1..Len(f) /\ f[i + 1] = f[j + 1]  BY <1>0, <1>5, <2>2
    <3>2. i + 1 = j + 1  BY <2>1, <3>1
    <3>. QED  BY <3>2
  <2>. QED  BY <1>5, <2>2 DEF Distinct
<1>9. \A u \in Threads : Distinct(fired'[u])  BY <1>3, <1>8 DEF HandlerInv
<1>10. RanFired'
  <2>1. ASSUME NEW i \in 1..Len(subs'), ran[subs'[i]] > 0
        PROVE  \E u \in Threads : \E k \in 1..Len(fired'[u]) : fired'[u][k] = subs'[i]
    <3>1. PICK j \in 1..Len(subs) : subs'[i] = subs[j] /\ j # n
      <4>1. i \in Nat /\ n \in Nat  BY <1>6
      <4>2. CASE i < n  BY <1>6, <4>1, <4>2
      <4>3. CASE ~(i < n)
        <5>1. i >= n /\ i + 1 # n  BY <4>1, <4>3
        <5>2. i + 1 \in 1..Len(subs) /\ subs'[i] = subs[i + 1]  BY <1>6, <4>3
        <5>. QED  BY <5>1, <5>2
      <4>. QED  BY <4>2, <4>3
    <3>2. PICK u \in Threads : \E k \in 1..Len(fired[u]) : fired[u][k] = subs[j]
      BY <2>1, <3>1 DEF HandlerInv, RanFired
    <3>k. PICK k \in 1..Len(fired[u]) : fired[u][k] = subs[j]  BY <3>2
    <3>3. u = t  BY <1>4, <3>2
    <3>4. k \in 1..Len(f) /\ f[k] = subs[j]  BY <3>k, <3>3 DEF f
    <3>5. k # 1
      <4>1. \A a, b \in 1..Len(subs) : subs[a] = subs[b] => a = b  BY DEF HandlerInv, Distinct
      <4>. QED  BY <1>1, <1>5, <3>1, <3>4, <4>1
    <3>6. k - 1 \in 1..(Len(f) - 1) /\ Tail(f)[k - 1] = f[k]
      <4>1. k - 1 \in 1..(Len(f) - 1) /\ (k - 1) + 1 = k  BY <1>0, <3>4, <3>5
      <4>. QED  BY <1>5, <4>1
    <3>7. k - 1 \in 1..Len(fired'[t]) /\ fired'[t][k - 1] = subs'[i]  BY <1>3, <1>5, <3>1, <3>4, <3>6
    <3>. QED  BY <3>7
  <2>. QED  BY <1>2, <2>1 DEF RanFired
<1>11. FiredBehind'
  <2>1. ASSUME NEW u \in Threads, NEW k \in 1..Len(fired'[u])
        PROVE  pc'[u] = "remove" /\ \E i \in 1..Len(subs') : subs'[i] = fired'[u][k]
    <3>1. u = t  BY <1>3, <1>4
    <3>2. k \in 1..(Len(f) - 1) /\ fired'[u][k] = f[k + 1]  BY <1>3, <1>5, <3>1
    <3>3. 1 \in 1..Len(f) /\ k + 1 \in 1..Len(f) /\ k + 1 # 1  BY <1>0, <3>2
    <3>4. f[k + 1] # f[1]
      <4>1. \A a, b \in 1..Len(f) : f[a] = f[b] => a = b  BY DEF HandlerInv, Distinct, f
      <4>. QED  BY <3>3, <4>1
    <3>5. PICK j \in 1..Len(subs) : subs[j] = f[k + 1]  BY <3>3 DEF HandlerInv, FiredBehind, f
    <3>6. j # n  BY <1>1, <1>5, <3>4, <3>5
    <3>7. \E i \in 1..Len(subs') : subs'[i] = subs[j]
      <4>1. CASE j < n
        <5>1. j \in 1..Len(subs') /\ subs'[j] = subs[j]  BY <1>6, <4>1
        <5>. QED  BY <5>1
      <4>2. CASE ~(j < n)
        <5>1. j - 1 \in 1..Len(subs') /\ ~(j - 1 < n) /\ (j - 1) + 1 = j  BY <1>6, <3>6, <4>2
        <5>2. subs'[j - 1] = subs[j]  BY <1>6, <5>1
        <5>. QED  BY <5>1, <5>2
      <4>. QED  BY <4>1, <4>2
    <3>. QED  BY <1>0, <1>2, <3>1, <3>2, <3>5, <3>7
  <2>. QED  BY <2>1 DEF FiredBehind
<1>. QED  BY <1>2, <1>7, <1>9, <1>10, <1>11 DEF HandlerInv, FireOnce

\* Every step keeps the invariant while one thread at a time handles.
LEMMA HandlerStep ==
    ASSUME TypeOK, OneHandles, NoneAbandoned, NoneAbandoned', HandlerInv, [Next]_vars
    PROVE  HandlerInv'
<1>1. ASSUME UNCHANGED <<subs, ran, fired, pos>>  PROVE HandlerInv'
  <2>1. ASSUME NEW t \in Threads, NEW k \in 1..Len(fired[t])
        PROVE  \E n \in 1..Len(subs) : subs[n] = fired[t][k] /\ (pc'[t] # "remove" => n < pos[t])
    <3>1. fired[t] # <<>>  OBVIOUS
    <3>2. pc'[t] # "remove" => pc[t] # "remove"  BY <1>1, <3>1, RemovalLeft DEF NoneAbandoned
    <3>. QED  BY <3>2 DEF HandlerInv, FiredBehind
  <2>2. FiredBehind'  BY <1>1, <2>1 DEF FiredBehind
  <2>. QED  BY <1>1, <2>2 DEF HandlerInv, RanFired, FireOnce, Distinct
<1>. QED  BY <1>1, ScanKept, FireKeeps, PassKeeps, RunKeeps, RemoveKeeps

LEMMA HandlerInit == Init => HandlerInv
<1>. SUFFICES ASSUME Init  PROVE HandlerInv
  OBVIOUS
<1>1. subs = SubOrder /\ SubOrder \in Seq(Subs) /\ DOMAIN subs = 1..Len(subs)
  BY WorkflowAssumption DEF Init
<1>2. Distinct(subs)  BY <1>1, WorkflowAssumption DEF Distinct
<1>3. \A t \in Threads : fired[t] = <<>>  BY DEF Init
<1>4. \A s \in Subs : ran[s] = 0  BY DEF Init
<1>5. \A n \in 1..Len(subs) : ran[subs[n]] = 0  BY <1>1, <1>4
<1>. QED  BY <1>2, <1>3, <1>4, <1>5 DEF HandlerInv, Distinct, RanFired, FiredBehind, FireOnce

\* An all_done handler runs at most once (gateway_runtime.py:555), unless two
\* threads go through the handlers at once or one leaves them by an exception.
THEOREM HandlersRunOnce == Spec /\ []OneHandles /\ []NoneAbandoned => []FireOnce
<1>2. TypeOK /\ OneHandles /\ NoneAbandoned /\ NoneAbandoned' /\ HandlerInv /\ [Next]_vars => HandlerInv'
  BY HandlerStep
<1>3. HandlerInv => FireOnce  BY DEF HandlerInv
<1>. QED  BY <1>2, <1>3, HandlerInit, TypeCorrect, PTL DEF Spec

\* With one dispatch thread, no cancellations and nothing that raises, both hold.
Solo ==
    /\ \E d \in Dispatchers : Dispatchers = {d}
    /\ Cancellable = {} /\ Raises = {} /\ Len(Initial) <= 1
SoloInv ==
    /\ ev[Api] = "load" /\ fired[Api] = <<>> /\ Len(todo[Api]) <= 1
    /\ \A d \in Dispatchers : pc[d] # "dead" => todo[Api] = <<>>

LEMMA SoloHandles ==
    ASSUME Solo, TypeOK, ThreadInv, SoloInv
    PROVE  OneHandles
BY ThreadFacts DEF Solo, SoloInv, OneHandles, Handling, ThreadInv, ApiInv

LEMMA SoloStep ==
    ASSUME Solo, TypeOK, TypeOK', ThreadInv, SoloInv, [Next]_vars
    PROVE  SoloInv'
<1>1. PICK d0 \in Dispatchers : Dispatchers = {d0}  BY DEF Solo
<1>2. Threads = {d0, Api} /\ d0 # Api  BY <1>1, ThreadFacts
<1>3. pc[Api] \notin {"fire", "scan", "remove"} /\ todo[Api] \in Seq(Jobs) /\ todo \in [Threads -> Seq(Jobs)]
  BY <1>2 DEF SoloInv, ThreadInv, ApiInv, TypeOK
<1>4. CASE Enqueue(Api)
  <2>1. ~InstantiateRaises(Api)  BY DEF InstantiateRaises, Solo
  <2>2. ev'[Api] = ev[Api] /\ fired'[Api] = fired[Api]
    BY <1>4, <2>1 DEF Enqueue, SkipKnown, Register, Insert, EnsureAlive, StartThread,
       HandlersDone, scanVars
  <2>3. \/ todo' = todo /\ (pc'[d0] = pc[d0])
        \/ todo[Api] # <<>> /\ todo'[Api] = Tail(todo[Api])
    <3>1. CASE SkipKnown(Api) \/ EnsureAlive(Api) \/ StartThread(Api)
      BY <1>2, <1>3, <3>1 DEF SkipKnown, EnsureAlive, StartThread, Instantiable, Goto, ThreadInv, TodoInv,
         TypeOK
    <3>2. CASE Register(Api) \/ Insert(Api) \/ HandlersDone(Api)
      BY <1>2, <3>2 DEF Register, Insert, HandlersDone, Goto, TypeOK
    <3>. QED  BY <1>4, <2>1, <3>1, <3>2 DEF Enqueue
  <2>4. todo[Api] # <<>> => Tail(todo[Api]) = <<>>  BY <1>3 DEF SoloInv
  <2>5. todo'[Api] = <<>> \/ (todo'[Api] = todo[Api] /\ pc'[d0] = pc[d0])  BY <2>3, <2>4
  <2>6. pc'[d0] # "dead" => todo'[Api] = <<>>  BY <2>5 DEF SoloInv
  <2>7. Len(todo'[Api]) <= 1
    <3>1. CASE todo'[Api] = <<>>  BY <3>1
    <3>2. CASE todo'[Api] # <<>>  BY <2>5, <3>2 DEF SoloInv
    <3>. QED  BY <3>1, <3>2
  <2>. QED  BY <1>1, <2>2, <2>6, <2>7 DEF SoloInv
<1>5. ~FireEvent(Api)
  BY <1>3 DEF FireEvent, Fire, ScanRunsHandler, ScanPasses, ScanRaises, ScanEnds, InScan, RemoveFired,
     RemoveRaises, EventDone
<1>6. CASE Enqueue(d0) \/ FireEvent(d0)
  <2>1. pc[d0] # "dead"  BY <1>2, <1>6, ThreadFacts, EventStep DEF EventMove, EventPcs
  <2>2. todo[Api] = <<>>  BY <2>1 DEF SoloInv
  <2>3. ev'[Api] = ev[Api] /\ fired'[Api] = fired[Api] /\ todo'[Api] = todo[Api]
    <3>1. CASE Enqueue(d0)
      BY <1>2, <1>3, <3>1 DEF Enqueue, InstantiateRaises, SkipKnown, Register, Insert, EnsureAlive,
         StartThread, HandlersDone, Raise, scanVars, TypeOK
    <3>2. CASE FireEvent(d0)
      BY <1>2, <1>3, <3>2 DEF FireEvent, Fire, ScanRunsHandler, ScanPasses, ScanRaises, ScanEnds,
         RemoveFired, RemoveRaises, EventDone, Raise, scanVars, TypeOK
    <3>. QED  BY <1>6, <3>1, <3>2
  <2>. QED  BY <2>2, <2>3 DEF SoloInv
<1>7. CASE DispatchLoop(d0)
  <2>1. pc[d0] # "dead"
    BY <1>7 DEF DispatchLoop, Boot, LoopTop, Pop, PopNothing, Activate, Acquire, Execute, Finish,
       Store, RetryJob, Requeue, GiveUp
  <2>2. todo[Api] = <<>>  BY <2>1 DEF SoloInv
  <2>3. ev'[Api] = ev[Api] /\ fired' = fired /\ todo' = todo
    BY <1>2, <1>7 DEF DispatchLoop, Boot, LoopTop, Pop, PopNothing, Activate, Acquire, Execute, Finish,
       Store, RetryJob, Requeue, GiveUp, scanVars, TypeOK
  <2>. QED  BY <2>2, <2>3 DEF SoloInv
<1>8. CASE Shutdown \/ UNCHANGED vars
  BY <1>8 DEF Shutdown, vars, scanVars, SoloInv
<1>9. \A j \in Cancellable : ~Cancel(j)  BY DEF Solo
<1>. QED  BY <1>1, <1>2, <1>4, <1>5, <1>6, <1>7, <1>8, <1>9 DEF Next

\* Nothing makes the dispatch thread leave an event early.
LEMMA SoloFinishes ==
    ASSUME Solo, TypeOK, TypeOK', ThreadInv, SoloInv, SoloInv', HandlerInv, NoneAbandoned, [Next]_vars
    PROVE  NoneAbandoned'
<1>1. PICK d0 \in Dispatchers : Dispatchers = {d0}  BY DEF Solo
<1>2. Threads = {d0, Api} /\ d0 # Api  BY <1>1, ThreadFacts
<1>3. SUFFICES ASSUME fired'[d0] # <<>>  PROVE pc'[d0] \in EventPcs \ {"fire"}
  BY <1>2 DEF NoneAbandoned, SoloInv
<1>4. CASE Enqueue(d0)
  <2>1. ~InstantiateRaises(d0)  BY DEF InstantiateRaises, Solo
  <2>2. ev[d0] # "load"  BY <1>1, <1>4, <1>2, EventStep DEF EventMove, ThreadInv, EventInv
  <2>3. pc'[d0] \in EventPcs \ {"fire"}
    BY <1>2, <1>4, <2>1, <2>2 DEF Enqueue, SkipKnown, Register, Insert, EnsureAlive, StartThread,
       HandlersDone, Instantiable, Goto, EventPcs, TypeOK
  <2>. QED  BY <2>3
<1>5. CASE FireEvent(d0)
  <2>1. ~ScanRaises(d0)
    <3>1. ASSUME ScanRaises(d0)  PROVE FALSE
      <4>1. pc[d0] = "scan" /\ Instantiable(Api)  BY <1>2, <3>1 DEF ScanRaises, InScan
      <4>. QED  BY <4>1 DEF Instantiable, SoloInv
    <3>. QED  BY <3>1
  <2>2. ~RemoveRaises(d0)
    <3>1. ASSUME RemoveRaises(d0)  PROVE FALSE
      <4>1. fired[d0] # <<>> /\ ~Contains(subs, Head(fired[d0]))  BY <3>1 DEF RemoveRaises
      <4>2. fired[d0] \in Seq(Subs)  BY <1>2 DEF TypeOK
      <4>3. 1 \in 1..Len(fired[d0]) /\ Head(fired[d0]) = fired[d0][1]  BY <4>1, <4>2
      <4>4. PICK n \in 1..Len(subs) : subs[n] = fired[d0][1]
        BY <1>2, <4>3 DEF HandlerInv, FiredBehind
      <4>. QED  BY <4>1, <4>3, <4>4 DEF Contains
    <3>. QED  BY <3>1
  <2>3. fired'[d0] = <<>> \/ pc'[d0] \in EventPcs \ {"fire"}
    BY <1>2, <1>5, <2>1, <2>2 DEF FireEvent, Fire, ScanRunsHandler, ScanPasses, ScanEnds, InScan,
       RemoveFired, EventDone, Goto, EventPcs, TypeOK, scanVars
  <2>. QED  BY <1>3, <2>3
<1>6. CASE DispatchLoop(d0)
  <2>1. pc[d0] \notin EventPcs /\ fired' = fired
    BY <1>6 DEF DispatchLoop, Boot, LoopTop, Pop, PopNothing, Activate, Acquire, Execute, Finish,
       Store, RetryJob, Requeue, GiveUp, scanVars, EventPcs
  <2>. QED  BY <1>2, <1>3, <2>1 DEF NoneAbandoned
<1>7. CASE ~Enqueue(d0) /\ ~FireEvent(d0) /\ ~DispatchLoop(d0)
  <2>1. Kept(d0)  BY <1>2, <1>7, OthersKept
  <2>2. pc'[d0] = pc[d0] \/ pc[d0] = "dead"
    <3>1. CASE StartThread(Api)
      BY <1>1, <1>2, <3>1 DEF StartThread, TypeOK
    <3>2. CASE ~StartThread(Api)
      <4>1. ASSUME Enqueue(Api)  PROVE pc'[d0] = pc[d0]
        BY <1>2, <3>2, <4>1 DEF Enqueue, InstantiateRaises, SkipKnown, Register, Insert, EnsureAlive,
           HandlersDone, Raise, Goto, TypeOK
      <4>2. ASSUME FireEvent(Api)  PROVE pc'[d0] = pc[d0]
        BY <1>2, <4>2 DEF FireEvent, Fire, ScanRunsHandler, ScanPasses, ScanRaises, ScanEnds,
           RemoveFired, RemoveRaises, EventDone, Raise, Goto, TypeOK
      <4>3. CASE Shutdown \/ UNCHANGED vars  BY <4>3 DEF Shutdown, vars
      <4>. QED  BY <1>1, <1>2, <1>7, <4>1, <4>2, <4>3 DEF Next, Solo
    <3>. QED  BY <3>1, <3>2
  <2>3. fired'[d0] = fired[d0]
    <3>1. ASSUME NEW t \in Threads, Fire(t) \/ ScanRunsHandler(t) \/ ScanPasses(t) \/ RemoveFired(t)
          PROVE  FALSE
      <4>1. t = Api  BY <1>2, <1>7, <3>1 DEF FireEvent
      <4>2. pc[Api] \notin {"fire", "scan", "remove"}  BY DEF SoloInv, ThreadInv, ApiInv
      <4>. QED  BY <3>1, <4>1, <4>2 DEF Fire, ScanRunsHandler, ScanPasses, RemoveFired, InScan
    <3>. QED  BY <3>1, ScanKept
  <2>. QED  BY <1>2, <1>3, <2>2, <2>3 DEF NoneAbandoned, EventPcs
<1>. QED  BY <1>4, <1>5, <1>6, <1>7

\* One dispatch thread, no cancellations, no template that raises and a list of
\* jobs that is loaded before the thread is there: every all_done handler runs at
\* most once, whatever jobs handlers enqueue and however often they are retried.
THEOREM SoloRunsOnce == Solo /\ Spec => []FireOnce
<1>. DEFINE SInv == IInv /\ SoloInv /\ NoneAbandoned /\ HandlerInv
<1>1. Solo /\ Init => SInv
  <2>. SUFFICES ASSUME Solo, Init  PROVE SInv
    OBVIOUS
  <2>1. IInv  BY InitInv
  <2>2. \A d \in Dispatchers : pc[d] = "dead"  BY ThreadFacts DEF Init
  <2>3. ev[Api] = "load" /\ fired[Api] = <<>> /\ todo[Api] = Initial  BY ThreadFacts DEF Init
  <2>4. SoloInv  BY <2>2, <2>3 DEF SoloInv, Solo
  <2>5. NoneAbandoned  BY DEF Init, NoneAbandoned
  <2>. QED  BY <2>1, <2>4, <2>5, HandlerInit
<1>2. Solo /\ SInv /\ [Next]_vars => SInv'
  <2>. SUFFICES ASSUME Solo, SInv, [Next]_vars  PROVE SInv'
    OBVIOUS
  <2>1. IInv' /\ TypeOK /\ ThreadInv /\ TypeOK'  BY NextInv DEF IInv
  <2>2. SoloInv'  BY <2>1, SoloStep
  <2>3. NoneAbandoned'  BY <2>1, <2>2, SoloFinishes
  <2>4. OneHandles  BY <2>1, SoloHandles
  <2>5. HandlerInv'  BY <2>1, <2>3, <2>4, HandlerStep
  <2>. QED  BY <2>1, <2>2, <2>3, <2>5
<1>3. SInv => FireOnce  BY DEF HandlerInv
<1>. HIDE DEF SInv
<1>4. ASSUME Solo  PROVE Spec => []SInv
  <2>1. Init => SInv  BY <1>1, <1>4
  <2>2. SInv /\ [Next]_vars => SInv'  BY <1>2, <1>4
  <2>. QED  BY <2>1, <2>2, PTL DEF Spec
<1>5. Solo => (Spec => []SInv)  BY <1>4
<1>. QED  BY <1>3, <1>5, PTL
=============================================================================
