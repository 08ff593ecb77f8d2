---------------------------- MODULE BehaviorStore -----------------------------
(* The behavior tree of one session as the HTTP routes of server.py edit it    *)
(* under optimistic concurrency control (revisions, If-Match, merge on         *)
(* conflict) and as a background run_node of behavior_orchestrator.py changes  *)
(* it. Routes run in a thread pool and runs in threads of their own, without a *)
(* lock, so each statement that reads or writes the tree is a step.            *)
(*                                                                             *)
(* A document (the tree, or one node) is its revision and the values of its    *)
(* paths; a tree document also carries the revisions of its nodes. A value is  *)
(* the number of the edit that wrote it.                                       *)
EXTENDS Naturals, FiniteSets

CONSTANTS
    Tree,        \* the tree document
    Nodes,       \* the node documents
    Paths,       \* editable leaves: a key of a node's data or of global_meta
    Owner,       \* [Paths -> Nodes \cup {Tree}]: where a path is stored
    TreeEdits,   \* the paths clients edit through the tree's route
    Outputs,     \* [Nodes -> SUBSET Paths]: what the handlers of a node write
    Settings,    \* the paths of global_meta a run request may set
    Clients,
    Threads,     \* pool threads that serve POST and PATCH
    Runners,     \* threads started by the run routes
    None,
    HistoryCap,  \* snapshots kept per document: 20 in the source
    MergePosts,  \* whether clients send POST with merge_on_conflict
    MaxActive,   \* bound: requests and runs in progress at a time
    MaxEdits,    \* bound: edits sent and written
    MaxElements  \* bound: node elements executed

Docs == Nodes \cup {Tree}

ASSUME StoreAssumption ==
    /\ Tree \notin Nodes
    /\ Owner \in [Paths -> Docs]
    /\ TreeEdits \in SUBSET Paths
    /\ Outputs \in [Nodes -> SUBSET Paths]
    /\ \A n \in Nodes : \A p \in Outputs[n] : Owner[p] = n
    /\ Settings \in SUBSET {p \in Paths : Owner[p] = Tree}
    /\ None \notin Nat
    /\ IsFiniteSet(Threads) /\ IsFiniteSet(Runners)
    /\ HistoryCap \in Nat \ {0}
    /\ MergePosts \in BOOLEAN
    /\ MaxActive \in Nat /\ MaxEdits \in Nat /\ MaxElements \in Nat

VARIABLES
    rev,      \* [Docs -> Nat]: tree.revision and node.revision
    val,      \* [Paths -> Nat]: the values held in memory
    saved,    \* [Nodes -> Document]: node.meta["serialized_node"]
    history,  \* [Docs -> revisions -> Document]: meta["_revision_history"]
    view,     \* [Clients -> last response]: its document, ETag and body
    req,      \* [Threads -> request being served]
    run,      \* [Runners -> run_node call]
    running,  \* _run_status["running"]
    edits,    \* edits numbered so far
    elements, \* node elements executed so far
    last      \* [Paths -> Nat]: the last edit that took effect on each path

vars == <<rev, val, saved, history, view, req, run, running, edits, elements, last>>
store == <<rev, val, saved, history>>
-------------------------------------------------------------------------------
(* Documents.                                                                  *)
Owned(d) == IF d = Tree THEN Paths ELSE {p \in Paths : Owner[p] = d}
Inner(d) == IF d = Tree THEN Nodes ELSE {}

DocumentsOf(d) == [rev : Nat, nrev : [Inner(d) -> Nat], val : [Owned(d) -> Nat]]

\* to_serialized_dict of document d.
Snapshot(d) ==
    [rev  |-> rev[d],
     nrev |-> [n \in Inner(d) |-> rev[n]],
     val  |-> [p \in Owned(d) |-> val[p]]]

\* The paths on which two documents differ, and the body of a request.
DiffPaths(base, other) == {p \in DOMAIN base.val : base.val[p] # other.val[p]}
Patched(doc, p, v) == [doc EXCEPT !.val = [@ EXCEPT ![p] = v]]

\* The history with document s filed under its revision, the oldest dropped.
Remember(h, s) ==
    LET known == DOMAIN h \cup {s.rev}
        kept  == {r \in known : Cardinality({x \in known : x > r}) < HistoryCap}
    IN  [r \in kept |-> IF r = s.rev THEN s ELSE h[r]]

\* refresh_from_serialized: revisions and values come from the payload s.
Refresh(d, s) ==
    /\ rev' = [x \in Docs |-> IF x = d THEN s.rev
                              ELSE IF x \in Inner(d) THEN s.nrev[x] ELSE rev[x]]
    /\ val' = [p \in Paths |-> IF p \in Owned(d) THEN s.val[p] ELSE val[p]]
    /\ UNCHANGED <<saved, history>>

\* Faulty: the tree's revision is left alone; the node is saved before its
\* revision moves.
PersistNodeAlone(n) ==
    LET s == [Snapshot(n) EXCEPT !.rev = @ + 1]
    IN  /\ rev' = [rev EXCEPT ![n] = @ + 1]
        /\ saved' = [saved EXCEPT ![n] = s]
        /\ history' = [history EXCEPT ![n] = Remember(@, s)]
        /\ UNCHANGED val

PersistNodeEarly(n) ==
    LET s == Snapshot(n)
    IN  /\ rev' = [rev EXCEPT ![n] = @ + 1, ![Tree] = @ + 1]
        /\ saved' = [saved EXCEPT ![n] = s]
        /\ history' = [history EXCEPT ![n] = Remember(@, s)]
        /\ UNCHANGED val

\* persist_node_to_meta: the tree's revision moves too, its history does not.
PersistNode(n) ==
    LET s == [Snapshot(n) EXCEPT !.rev = @ + 1]
    IN  /\ rev' = [rev EXCEPT ![n] = @ + 1, ![Tree] = @ + 1]
        /\ saved' = [saved EXCEPT ![n] = s]
        /\ history' = [history EXCEPT ![n] = Remember(@, s)]
        /\ UNCHANGED val

PersistTree ==
    LET s == [Snapshot(Tree) EXCEPT !.rev = @ + 1]
    IN  /\ rev' = [rev EXCEPT ![Tree] = @ + 1]
        /\ history' = [history EXCEPT ![Tree] = Remember(@, s)]
        /\ UNCHANGED <<val, saved>>

Idle == [pc |-> "idle"]
Off == [pc |-> "off"]
Busy == {t \in Threads : req[t] # Idle}
InRun == {r \in Runners : run[r] # Off}
Quiet == Busy = {} /\ InRun = {}
HasRoom == Cardinality(Busy) + Cardinality(InRun) < MaxActive
Waiting(c) == \E t \in Busy : req[t].client = c

\* initialize_behavior_tree_runtime_state on the reference template.
Init ==
    /\ rev = [d \in Docs |-> 0]
    /\ val = [p \in Paths |-> 0]
    /\ saved = [n \in Nodes |-> Snapshot(n)]
    /\ history = [d \in Docs |-> [r \in {0} |-> Snapshot(d)]]
    /\ view = [c \in Clients |-> None]
    /\ req = [t \in Threads |-> Idle]
    /\ run = [r \in Runners |-> Off]
    /\ running = FALSE
    /\ edits = 0 /\ elements = 0
    /\ last = [p \in Paths |-> 0]
-------------------------------------------------------------------------------
(* Requests. A client holds one response at a time and edits what it shows.    *)
Response(d) == [doc |-> d, body |-> Snapshot(d)]

Get(c, d) ==
    /\ ~Waiting(c)
    /\ view' = [view EXCEPT ![c] = Response(d)]
    /\ UNCHANGED <<store, req, run, running, edits, elements, last>>

Editable(d) == IF d = Tree THEN TreeEdits ELSE Owned(d)

Verbs == {"POST", "PATCH"}

\* body: what the payload is built on, for a POST the client's response with
\* its edit, for a PATCH the document as the route reads it. seen is kept for
\* the properties: the value the client replaces.
Send(t, c, verb, p, conditional, merge) ==
    /\ req[t] = Idle /\ HasRoom /\ ~Waiting(c)
    /\ view[c] # None /\ p \in Editable(view[c].doc)
    /\ edits < MaxEdits
    /\ merge => conditional /\ (verb = "POST" => MergePosts)
    /\ verb = "POST" => conditional
    /\ edits' = edits + 1
    /\ req' = [req EXCEPT ![t] =
                 [pc |-> IF verb = "PATCH" THEN "snapshot" ELSE "check",
                  client |-> c, verb |-> verb, doc |-> view[c].doc,
                  expected |-> IF conditional THEN view[c].body.rev ELSE None,
                  merge |-> merge, path |-> p, value |-> edits + 1,
                  body |-> view[c].body, seen |-> view[c].body.val[p]]]
    /\ UNCHANGED <<store, view, run, running, elements, last>>

Advance(t, pc) == req' = [req EXCEPT ![t].pc = pc]

\* Faulty: a PATCH applies to the document its client holds.
TakeNoSnapshot(t) ==
    /\ req[t].pc = "snapshot"
    /\ Advance(t, "check")
    /\ UNCHANGED <<store, view, run, running, edits, elements, last>>

\* A PATCH applies to the document read here, before the revision is compared.
TakeSnapshot(t) ==
    /\ req[t].pc = "snapshot"
    /\ req' = [req EXCEPT ![t].pc = "check", ![t].body = Snapshot(req[t].doc)]
    /\ UNCHANGED <<store, view, run, running, edits, elements, last>>

Payload(q) == Patched(q.body, q.path, q.value)

Conflict(q) == q.expected # None /\ q.expected # rev[q.doc]

\* Faulty: overlapping changes are merged too.
MergeableAnyway(q) == q.merge /\ q.expected \in DOMAIN history[q.doc]

\* merge_on_conflict: the snapshot of the expected revision is still kept, and
\* what the client changed since is disjoint from what others changed. The deep
\* merge of a whole payload into the current document is that payload.
Mergeable(q) ==
    /\ q.merge
    /\ q.expected \in DOMAIN history[q.doc]
    /\ LET base    == history[q.doc][q.expected]
           mine    == IF q.verb = "PATCH" THEN {q.path} ELSE DiffPaths(base, Payload(q))
           current == IF q.verb = "PATCH" THEN q.body ELSE Snapshot(q.doc)
       IN  mine \cap DiffPaths(base, current) = {}

Accept(t) ==
    /\ req[t].pc = "check"
    /\ Conflict(req[t]) => Mergeable(req[t])
    /\ Advance(t, "update")
    /\ UNCHANGED <<store, view, run, running, edits, elements, last>>

\* 409 revision_conflict.
Reject(t) ==
    /\ req[t].pc = "check"
    /\ Conflict(req[t]) /\ ~Mergeable(req[t])
    /\ req' = [req EXCEPT ![t] = Idle]
    /\ UNCHANGED <<store, view, run, running, edits, elements, last>>

\* update_tree_from_json, update_node_from_json.
Update(t) ==
    /\ req[t].pc = "update"
    /\ Refresh(req[t].doc, Payload(req[t]))
    /\ last' = [last EXCEPT ![req[t].path] = req[t].value]
    /\ Advance(t, IF req[t].doc = Tree THEN "persist_tree" ELSE "persist_node")
    /\ UNCHANGED <<view, run, running, edits, elements>>

SaveNode(t) ==
    /\ req[t].pc = "persist_node"
    /\ PersistNode(req[t].doc)
    /\ Advance(t, "persist_tree")
    /\ UNCHANGED <<view, run, running, edits, elements, last>>

SaveTree(t) ==
    /\ req[t].pc = "persist_tree"
    /\ PersistTree
    /\ Advance(t, "respond")
    /\ UNCHANGED <<view, run, running, edits, elements, last>>

\* The ETag and the body of the response are read after the update.
Respond(t) ==
    /\ req[t].pc = "respond"
    /\ view' = [view EXCEPT ![req[t].client] = Response(req[t].doc)]
    /\ req' = [req EXCEPT ![t] = Idle]
    /\ UNCHANGED <<store, run, running, edits, elements, last>>

Serve(t) ==
    \/ TakeSnapshot(t) \/ Accept(t) \/ Reject(t) \/ Update(t)
    \/ SaveNode(t) \/ SaveTree(t) \/ Respond(t)
-------------------------------------------------------------------------------
(* Runs. failed records that the handler raised.                               *)
Step(r, pc) == run' = [run EXCEPT ![r].pc = pc]

\* An edit that takes effect on path p, numbered v.
Write(p, v) ==
    /\ val' = [val EXCEPT ![p] = v]
    /\ last' = [last EXCEPT ![p] = v]

\* _apply_settings: the body of a run request may set one of the settings. It
\* is written in memory only, and before the route looks at _run_status.
ApplySettings ==
    \/ UNCHANGED <<val, last, edits>>
    \/ \E p \in Settings : /\ edits < MaxEdits
                           /\ Write(p, edits + 1)
                           /\ edits' = edits + 1

\* The route starts a thread, which will set _run_status itself.
StartRun(r, n) ==
    /\ run[r] = Off /\ HasRoom
    /\ elements < MaxElements
    /\ ApplySettings
    /\ ~running
    /\ elements' = elements + 1
    /\ run' = [run EXCEPT ![r] = [pc |-> "begin", node |-> n, failed |-> FALSE]]
    /\ UNCHANGED <<rev, saved, history, view, req, running>>

\* 409: a run is already in progress.
RefuseRun ==
    /\ running
    /\ ApplySettings
    /\ UNCHANGED <<rev, saved, history, view, req, run, running, elements>>

\* _bg_run_node
BeginRun(r) ==
    /\ run[r].pc = "begin"
    /\ running' = TRUE
    /\ Step(r, "element")
    /\ UNCHANGED <<store, view, req, edits, elements, last>>

\* refresh_node_from_meta before an element runs.
LoadNode(r) ==
    /\ run[r].pc = "element"
    /\ Refresh(run[r].node, saved[run[r].node])
    /\ Step(r, "handler")
    /\ UNCHANGED <<view, req, running, edits, elements, last>>

\* The handler of an element writes one of the node's outputs, or nothing.
HandlerWrites(r, p) ==
    /\ run[r].pc = "handler" /\ p \in Outputs[run[r].node]
    /\ edits < MaxEdits
    /\ edits' = edits + 1
    /\ Write(p, edits + 1)
    /\ UNCHANGED <<rev, saved, history, view, req, run, running, elements>>

\* It returns or raises: the node is persisted either way.
HandlerEnds(r, raises) ==
    /\ run[r].pc = "handler"
    /\ PersistNode(run[r].node)
    /\ run' = [run EXCEPT ![r].pc = "finally", ![r].failed = raises]
    /\ UNCHANGED <<view, req, running, edits, elements, last>>

\* The finally clause persists again and reloads what it persisted.
Finally(r) ==
    /\ run[r].pc = "finally"
    /\ PersistNode(run[r].node)
    /\ Step(r, "reload")
    /\ UNCHANGED <<view, req, running, edits, elements, last>>

\* An exception leaves run_node; otherwise the element's transition names
\* another element or none.
Reload(r, again) ==
    /\ run[r].pc = "reload"
    /\ Refresh(run[r].node, saved[run[r].node])
    /\ again => ~run[r].failed /\ elements < MaxElements
    /\ elements' = IF again THEN elements + 1 ELSE elements
    /\ Step(r, IF again THEN "element" ELSE IF run[r].failed THEN "ended" ELSE "save_node")
    /\ UNCHANGED <<view, req, running, edits, last>>

SaveRunNode(r) ==
    /\ run[r].pc = "save_node"
    /\ PersistNode(run[r].node)
    /\ Step(r, "save_tree")
    /\ UNCHANGED <<view, req, running, edits, elements, last>>

SaveRunTree(r) ==
    /\ run[r].pc = "save_tree"
    /\ PersistTree
    /\ Step(r, "ended")
    /\ UNCHANGED <<view, req, running, edits, elements, last>>

\* _bg_run_node returns, with or without an error.
EndRun(r) ==
    /\ run[r].pc = "ended"
    /\ run' = [run EXCEPT ![r] = Off]
    /\ running' = FALSE
    /\ UNCHANGED <<store, view, req, edits, elements, last>>

RunNode(r) ==
    \/ BeginRun(r) \/ LoadNode(r) \/ Finally(r) \/ SaveRunNode(r)
    \/ SaveRunTree(r) \/ EndRun(r)
    \/ \E p \in Paths : HandlerWrites(r, p)
    \/ \E raises \in BOOLEAN : HandlerEnds(r, raises)
    \/ \E again \in BOOLEAN : Reload(r, again)

Next ==
    \/ \E c \in Clients, d \in Docs : Get(c, d)
    \/ \E t \in Threads, c \in Clients, verb \in Verbs, p \in Paths,
          conditional, merge \in BOOLEAN : Send(t, c, verb, p, conditional, merge)
    \/ \E t \in Threads : Serve(t)
    \/ \E r \in Runners, n \in Nodes : StartRun(r, n)
    \/ RefuseRun
    \/ \E r \in Runners : RunNode(r)

Spec == Init /\ [][Next]_vars
-------------------------------------------------------------------------------
(* Properties.                                                                 *)

\* What a run request sets has no revision of its own (_apply_settings).
Versioned == Paths \ Settings
Agree(doc, other) ==
    /\ doc.nrev = other.nrev
    /\ DiffPaths(doc, other) \cap Versioned = {}

\* While nothing is being served or run, every path holds the value of the last
\* edit that took effect on it, a client's or a handler's: an edit of another
\* path, through the node or through the tree, never undoes it
\* (_deep_merge, refresh_node_from_meta).
NoLostUpdate == Quiet => \A p \in Versioned : val[p] = last[p]

\* A client whose ETag still is the document's revision holds the document as it
\* is, even when it polled in the middle of a run ("Bump tree revision so polling
\* detects changes mid-run").
EtagIsFresh ==
    Quiet => \A c \in Clients :
        (view[c] # None /\ view[c].body.rev = rev[view[c].doc])
            => Agree(view[c].body, Snapshot(view[c].doc))

\* What refresh_node_from_meta will load and what a merge will compare with is
\* the node as it stands: the last persist of the node saw every change.
SavedIsCurrent ==
    Quiet => \A n \in Nodes :
        /\ saved[n] = Snapshot(n)
        /\ rev[n] \in DOMAIN history[n]
        /\ history[n][rev[n]] = Snapshot(n)

\* A request with a revision that is accepted, directly or by a merge, replaces
\* the value its client saw.
ReplacesWhatItSaw ==
    [][\A t \in Threads :
          (Update(t) /\ req[t].expected # None /\ req[t].path \in Versioned)
              => val[req[t].path] = req[t].seen]_vars

===============================================================================
