------------------------- MODULE BehaviorStore_proofs -------------------------
(* Proofs about BehaviorStore, for any nodes, paths, clients, threads, history *)
(* and number of edits: what holds as long as the requests and runs of a       *)
(* session do not overlap, clients reach the data of a node through the route  *)
(* of the node, and only a PATCH asks for a merge. Nothing in the code imposes *)
(* any of the three; without one of them TLC finds an edit lost.               *)
EXTENDS BehaviorStore, FiniteSetTheorems, TLAPS

USE StoreAssumption

\* One request or run at a time, and what clients keep to.
Alone ==
    /\ \A t, u \in Busy : t = u
    /\ \A r, q \in InRun : r = q
    /\ Busy = {} \/ InRun = {}
Orderly == ~MergePosts /\ \A p \in TreeEdits : Owner[p] = Tree

Document == UNION {DocumentsOf(d) : d \in Docs}
Views == [doc : Docs, body : Document]
Pcs == {"snapshot", "check", "update", "persist_node", "persist_tree", "respond"}
Request == [pc : Pcs, client : Clients, verb : Verbs, doc : Docs, expected : Nat \cup {None},
            merge : BOOLEAN, path : Paths, value : Nat, body : Document, seen : Nat]
RunPcs == {"begin", "element", "handler", "finally", "reload", "save_node", "save_tree", "ended"}
Call == [pc : RunPcs, node : Nodes, failed : BOOLEAN]

TypeOK ==
    /\ rev \in [Docs -> Nat] /\ val \in [Paths -> Nat] /\ last \in [Paths -> Nat]
    /\ saved \in [Nodes -> Document]
    /\ DOMAIN history = Docs /\ history = [d \in Docs |-> history[d]]
    /\ view \in [Clients -> Views \cup {None}]
    /\ req \in [Threads -> Request \cup {Idle}]
    /\ run \in [Runners -> Call \cup {Off}]
    /\ edits \in Nat

\* The paths of d that have a revision, and a document that shows d as it is.
Kept(d) == Owned(d) \ Settings
Shows(doc, d) ==
    /\ \A n \in Inner(d) : doc.nrev[n] = rev[n]
    /\ \A p \in Kept(d) : doc.val[p] = val[p]

\* What is saved of node n is the node.
Solid(n) ==
    /\ saved[n] = Snapshot(n)
    /\ rev[n] \in DOMAIN history[n] /\ history[n][rev[n]] = Snapshot(n)

\* A response is of a revision that was; its values lie between those of that
\* revision and the present ones, for edits are numbered as they come.
Past(v) ==
    /\ v.body \in DocumentsOf(v.doc) /\ v.body.rev <= rev[v.doc]
    /\ \A p \in Kept(v.doc) :
         /\ v.body.val[p] <= val[p]
         /\ v.body.rev \in DOMAIN history[v.doc] => history[v.doc][v.body.rev].val[p] <= v.body.val[p]
Current(v) == v.body.rev = rev[v.doc] => Shows(v.body, v.doc)

\* What has changed without a revision yet: of a node, or of a document.
Unsaved(n) ==
    \/ \E r \in InRun : run[r].pc = "handler" /\ run[r].node = n
    \/ \E t \in Busy : req[t].pc = "persist_node" /\ req[t].doc = n
Dirty(d) ==
    \/ \E n \in Nodes : Unsaved(n) /\ d \in {n, Tree}
    \/ d = Tree /\ \E t \in Busy : req[t].pc = "persist_tree" /\ req[t].doc = Tree

ValInv == \A p \in Versioned : val[p] = last[p] /\ val[p] <= edits
HistInv == \A d \in Docs : \A r \in DOMAIN history[d] :
    /\ r \in Nat /\ r <= rev[d] /\ history[d][r] \in DocumentsOf(d)
    /\ \A p \in Kept(d) : history[d][r].val[p] <= val[p]
SolidInv == \A n \in Nodes : Unsaved(n) \/ Solid(n)
ViewInv == \A c \in Clients : view[c] # None =>
    Past(view[c]) /\ (Dirty(view[c].doc) \/ Current(view[c]))

\* A request on its way to the update: what it knows of its client's response,
\* of the document as read, and once accepted of the document as it is.
Unmet(q) == q.value <= edits /\ \A p \in Versioned : val[p] < q.value
FromView(q) == q.expected # None =>
    /\ view[q.client] # None /\ view[q.client].doc = q.doc
    /\ view[q.client].body.rev = q.expected /\ view[q.client].body.val[q.path] = q.seen
    /\ q.verb = "POST" => q.body = view[q.client].body
AsRead(q) == q.body.rev = rev[q.doc] /\ Shows(q.body, q.doc)
Fits(q) ==
    /\ q.path \in Editable(q.doc) /\ q.body \in DocumentsOf(q.doc)
    /\ q.verb = "POST" => q.expected # None /\ ~q.merge
    /\ q.pc = "snapshot" => q.verb = "PATCH"
    /\ q.pc \in {"snapshot", "check"} => FromView(q)
    /\ q.pc \in {"snapshot", "check", "update"} => Unmet(q)
    /\ q.pc = "check" /\ q.verb = "PATCH" => AsRead(q)
    /\ q.pc = "update" => /\ AsRead(q)
                          /\ q.expected # None /\ q.path \in Versioned => val[q.path] = q.seen
    /\ q.pc = "persist_node" => q.doc \in Nodes
ReqInv == \A t \in Busy : Fits(req[t])

Inv == TypeOK /\ ValInv /\ HistInv /\ SolidInv /\ ViewInv /\ ReqInv
-------------------------------------------------------------------------------
(* Documents.                                                                  *)
LEMMA KeptIs ==
    /\ \A d \in Docs : Kept(d) \subseteq Paths /\ Kept(d) \subseteq Versioned /\ Kept(d) \subseteq Owned(d)
    /\ \A n \in Nodes : Kept(n) = Owned(n) /\ Inner(n) = {} /\ n # Tree
    /\ \A p \in Paths : p \in Versioned => p \in Kept(Tree)
BY DEF Kept, Owned, Inner, Versioned, Docs

LEMMA SnapshotIs ==
    ASSUME TypeOK, NEW d \in Docs
    PROVE  /\ Snapshot(d) \in DocumentsOf(d) /\ Snapshot(d) \in Document
           /\ Snapshot(d).rev = rev[d] /\ Shows(Snapshot(d), d)
           /\ \A p \in Owned(d) : Snapshot(d).val[p] = val[p]
<1>1. Owned(d) \subseteq Paths /\ Inner(d) \subseteq Docs  BY DEF Owned, Inner, Docs
<1>2. Snapshot(d) \in DocumentsOf(d)  BY <1>1 DEF Snapshot, DocumentsOf, TypeOK
<1>3. /\ Snapshot(d).rev = rev[d]
      /\ \A p \in Owned(d) : Snapshot(d).val[p] = val[p]
      /\ \A n \in Inner(d) : Snapshot(d).nrev[n] = rev[n]
  BY DEF Snapshot
<1>. QED  BY <1>2, <1>3 DEF Shows, Kept, Document

\* The document as the next revision.
LEMMA NextRevision ==
    ASSUME NEW d, [n \in Inner(d) |-> rev'[n]] = [n \in Inner(d) |-> rev[n]],
           val' = val, rev'[d] = rev[d] + 1
    PROVE  [Snapshot(d) EXCEPT !.rev = @ + 1] = Snapshot(d)'
<1>1. ASSUME NEW r, NEW f, NEW g
      PROVE  [[rev |-> r, nrev |-> f, val |-> g] EXCEPT !.rev = @ + 1] = [rev |-> r + 1, nrev |-> f, val |-> g]
  OBVIOUS
<1>. DEFINE f == [n \in Inner(d) |-> rev[n]]
            g == [p \in Owned(d) |-> val[p]]
<1>2. Snapshot(d) = [rev |-> rev[d], nrev |-> f, val |-> g]  BY DEF Snapshot
<1>3. Snapshot(d)' = [rev |-> rev[d] + 1, nrev |-> f, val |-> g]  BY DEF Snapshot, Inner, Owned
<1>. HIDE DEF f, g
<1>. QED  BY <1>1, <1>2, <1>3

\* Two snapshots of a node are the same when its revision and its values are.
LEMMA SameNode ==
    ASSUME TypeOK, NEW n \in Nodes, rev'[n] = rev[n], \A p \in Owned(n) : val'[p] = val[p]
    PROVE  Snapshot(n)' = Snapshot(n)
<1>1. Inner(n) = {}  BY KeptIs
<1>. QED  BY <1>1 DEF Snapshot, Owned, Docs

\* The newest document filed is kept, and nothing but it is new.
LEMMA RememberIs ==
    ASSUME NEW h, NEW s, s.rev \in Nat, \A r \in DOMAIN h : r \in Nat /\ r < s.rev
    PROVE  LET g == Remember(h, s) IN
           /\ s.rev \in DOMAIN g /\ g[s.rev] = s
           /\ \A r \in DOMAIN g : r # s.rev => r \in DOMAIN h /\ g[r] = h[r]
<1>. DEFINE known == DOMAIN h \cup {s.rev}
            kept == {r \in known : Cardinality({x \in known : x > r}) < HistoryCap}
            newer == {x \in known : x > s.rev}
<1>1. newer = {}  OBVIOUS
<1>2. Cardinality(newer) < HistoryCap
  <2>. HIDE DEF newer
  <2>1. Cardinality(newer) = 0  BY <1>1, FS_EmptySet
  <2>. QED  BY <2>1
<1>3. s.rev \in kept  BY <1>2
<1>4. Remember(h, s) = [r \in kept |-> IF r = s.rev THEN s ELSE h[r]]  BY DEF Remember
<1>5. kept \subseteq known  OBVIOUS
<1>. HIDE DEF kept
<1>. QED  BY <1>3, <1>4, <1>5
-------------------------------------------------------------------------------
(* What the steps do to the store.                                             *)
\* Values change on the paths of P alone, to later edits; settings may change.
Changes(P) ==
    /\ UNCHANGED <<rev, saved, history>>
    /\ val' \in [Paths -> Nat] /\ last' \in [Paths -> Nat] /\ edits' \in Nat
    /\ \A p \in Versioned : /\ val'[p] = last'[p] /\ val[p] <= val'[p] /\ val'[p] <= edits'
                            /\ p \notin P => val'[p] = val[p]

LEMMA ChangesKeep ==
    ASSUME TypeOK, ValInv, HistInv, NEW P, Changes(P)
    PROVE  /\ ValInv' /\ HistInv'
           /\ \A n \in Nodes : Solid(n) /\ Owned(n) \cap P = {} => Solid(n)'
           /\ \A v \in Views : Past(v) => Past(v)'
           /\ \A v \in Views : Current(v) /\ Kept(v.doc) \cap P = {} => Current(v)'
<1>1. ValInv'  BY DEF ValInv, Changes, Versioned
<1>2. HistInv'
  <2>. SUFFICES ASSUME NEW d \in Docs, NEW r \in DOMAIN history[d], NEW p \in Kept(d)
                PROVE  history[d][r].val[p] <= val'[p]
    BY DEF HistInv, Changes, DocumentsOf, Inner, Owned
  <2>1. history[d][r].val[p] \in Nat /\ history[d][r].val[p] <= val[p]
    BY KeptIs DEF HistInv, DocumentsOf
  <2>2. val[p] <= val'[p] /\ val[p] \in Nat /\ val'[p] \in Nat  BY KeptIs DEF Changes, TypeOK
  <2>. QED  BY <2>1, <2>2
<1>3. ASSUME NEW n \in Nodes, Solid(n), Owned(n) \cap P = {} PROVE Solid(n)'
  <2>1. \A p \in Owned(n) : val'[p] = val[p]  BY <1>3, KeptIs DEF Changes, Docs
  <2>2. rev' = rev /\ saved' = saved /\ history' = history  BY DEF Changes
  <2>3. Snapshot(n)' = Snapshot(n)  BY <2>1, <2>2, SameNode
  <2>. QED  BY <1>3, <2>2, <2>3 DEF Solid
<1>4. ASSUME NEW v \in Views, Past(v) PROVE Past(v)'
  <2>1. v.doc \in Docs /\ v.body \in DocumentsOf(v.doc) /\ v.body.rev <= rev[v.doc]  BY <1>4 DEF Views, Past
  <2>2. rev' = rev /\ history' = history  BY DEF Changes
  <2>3. ASSUME NEW p \in Kept(v.doc) PROVE v.body.val[p] <= val'[p]
    <3>1. v.body.val[p] \in Nat /\ v.body.val[p] <= val[p]  BY <1>4, <2>1, KeptIs DEF Past, DocumentsOf
    <3>2. val[p] <= val'[p] /\ val[p] \in Nat /\ val'[p] \in Nat  BY <2>1, KeptIs DEF Changes, TypeOK
    <3>. QED  BY <3>1, <3>2
  <2>4. v.body \in DocumentsOf(v.doc)'  BY <2>1 DEF DocumentsOf, Inner, Owned
  <2>. QED  BY <1>4, <2>1, <2>2, <2>3, <2>4 DEF Past, Kept, Owned
<1>5. ASSUME NEW v \in Views, Current(v), Kept(v.doc) \cap P = {} PROVE Current(v)'
  <2>1. v.doc \in Docs /\ rev' = rev  BY DEF Views, Changes
  <2>2. \A p \in Kept(v.doc) : val'[p] = val[p]  BY <1>5, <2>1, KeptIs DEF Changes
  <2>. QED  BY <1>5, <2>1, <2>2 DEF Current, Shows, Kept, Owned, Inner
<1>. QED  BY <1>1, <1>2, <1>3, <1>4, <1>5

\* A document is filed under its next revision, which no response has yet.
Filed(d) == history' = [history EXCEPT ![d] = Remember(@, Snapshot(d)')]

LEMMA FiledKeeps ==
    ASSUME TypeOK, HistInv, NEW d \in Docs, Filed(d), val' = val,
           rev' \in [Docs -> Nat], rev'[d] = rev[d] + 1, \A x \in Docs : rev[x] <= rev'[x],
           Snapshot(d)' \in DocumentsOf(d)
    PROVE  /\ DOMAIN history' = Docs /\ history' = [x \in Docs |-> history'[x]]
           /\ rev'[d] \in DOMAIN history'[d] /\ history'[d][rev'[d]] = Snapshot(d)'
           /\ \A x \in Docs : x # d => history'[x] = history[x]
           /\ HistInv'
           /\ \A v \in Views : Past(v) => Past(v)'
<1>. DEFINE s == Snapshot(d)'
<1>1. s \in DocumentsOf(d) /\ s.rev = rev'[d] /\ \A p \in Owned(d) : s.val[p] = val[p]
  BY DEF Snapshot, Owned
<1>2. history' = [history EXCEPT ![d] = Remember(@, s)]  BY DEF Filed
<1>. HIDE DEF s
<1>3. \A r \in DOMAIN history[d] : r \in Nat /\ r < s.rev  BY <1>1 DEF HistInv, TypeOK
<1>4. s.rev \in Nat  BY <1>1
<1>. DEFINE g == Remember(history[d], s)
<1>5. /\ s.rev \in DOMAIN g /\ g[s.rev] = s
      /\ \A r \in DOMAIN g : r # s.rev => r \in DOMAIN history[d] /\ g[r] = history[d][r]
  BY <1>3, <1>4, RememberIs
<1>. HIDE DEF g
<1>6. /\ history'[d] = g /\ DOMAIN history' = Docs /\ history' = [x \in Docs |-> history'[x]]
      /\ \A x \in Docs : x # d => history'[x] = history[x]
  BY <1>2 DEF TypeOK, g
<1>7. ASSUME NEW x \in Docs, NEW r \in DOMAIN history'[x]
      PROVE  /\ r \in Nat /\ r <= rev'[x] /\ history'[x][r] \in DocumentsOf(x)
             /\ \A p \in Kept(x) : history'[x][r].val[p] <= val[p]
  <2>1. CASE x # d \/ r # s.rev
    <3>1. r \in DOMAIN history[x] /\ history'[x][r] = history[x][r]  BY <1>5, <1>6, <1>7, <2>1
    <3>2. r \in Nat /\ r <= rev[x] /\ rev[x] \in Nat /\ rev'[x] \in Nat /\ rev[x] <= rev'[x]
      BY <3>1 DEF HistInv, TypeOK
    <3>. QED  BY <3>1, <3>2 DEF HistInv
  <2>2. CASE x = d /\ r = s.rev
    <3>1. history'[x][r] = s  BY <1>5, <1>6, <2>2
    <3>2. \A p \in Kept(d) : s.val[p] <= val[p]  BY <1>1, KeptIs DEF TypeOK
    <3>. QED  BY <1>1, <1>4, <2>2, <3>1, <3>2
  <2>. QED  BY <2>1, <2>2
<1>8. HistInv'  BY <1>7 DEF HistInv, DocumentsOf, Kept, Owned, Inner
<1>9. ASSUME NEW v \in Views, Past(v) PROVE Past(v)'
  <2>1. v.doc \in Docs /\ v.body \in DocumentsOf(v.doc) /\ v.body.rev \in Nat
        /\ v.body.rev <= rev[v.doc]
    BY <1>9 DEF Views, Past, DocumentsOf
  <2>2. v.body.rev <= rev'[v.doc]  BY <2>1 DEF TypeOK
  <2>3. v.body.rev \in DOMAIN history'[v.doc] =>
          /\ v.body.rev \in DOMAIN history[v.doc]
          /\ history'[v.doc][v.body.rev] = history[v.doc][v.body.rev]
    <3>1. CASE v.doc # d  BY <1>6, <2>1, <3>1
    <3>2. CASE v.doc = d
      <4>1. v.body.rev # s.rev  BY <1>1, <2>1, <3>2 DEF TypeOK
      <4>. QED  BY <1>5, <1>6, <3>2, <4>1
    <3>. QED  BY <3>1, <3>2
  <2>. QED  BY <1>9, <2>1, <2>2, <2>3 DEF Past, Kept, Owned, DocumentsOf, Inner
<1>. QED  BY <1>1, <1>5, <1>6, <1>8, <1>9 DEF s

LEMMA NodeSaved ==
    ASSUME TypeOK, HistInv, NEW n \in Nodes, PersistNode(n)
    PROVE  /\ rev' \in [Docs -> Nat] /\ val' = val /\ saved' \in [Nodes -> Document]
           /\ DOMAIN history' = Docs /\ history' = [x \in Docs |-> history'[x]]
           /\ HistInv' /\ Solid(n)' /\ \A m \in Nodes : Solid(m) => Solid(m)'
           /\ \A v \in Views : Past(v) => Past(v)'
           /\ \A v \in Views : Past(v) /\ (v.doc \in {n, Tree} \/ Current(v)) => Current(v)'
<1>. DEFINE s == [Snapshot(n) EXCEPT !.rev = @ + 1]
<1>0. n \in Docs /\ Tree \in Docs /\ n # Tree /\ Inner(n) = {}  BY KeptIs DEF Docs
<1>1. /\ rev' \in [Docs -> Nat] /\ val' = val
      /\ rev'[n] = rev[n] + 1 /\ rev'[Tree] = rev[Tree] + 1
      /\ \A x \in Docs : x \notin {n, Tree} => rev'[x] = rev[x]
  BY <1>0 DEF PersistNode, TypeOK
<1>2. \A x \in Docs : rev[x] <= rev'[x]  BY <1>1 DEF TypeOK
<1>3. s = Snapshot(n)'
  <2>1. [x \in Inner(n) |-> rev'[x]] = [x \in Inner(n) |-> rev[x]]  BY <1>0
  <2>. QED  BY <1>1, <2>1, NextRevision
<1>4. s \in DocumentsOf(n) /\ s \in Document
  <2>1. Snapshot(n) \in DocumentsOf(n) /\ rev[n] + 1 \in Nat /\ Snapshot(n).rev = rev[n]
    BY <1>0, SnapshotIs DEF TypeOK
  <2>2. s \in DocumentsOf(n)  BY <2>1 DEF DocumentsOf
  <2>. QED  BY <1>0, <2>2 DEF Document
<1>5. saved' = [saved EXCEPT ![n] = s] /\ Filed(n)  BY <1>3 DEF PersistNode, Filed
<1>. HIDE DEF s
<1>6. /\ DOMAIN history' = Docs /\ history' = [x \in Docs |-> history'[x]]
      /\ rev'[n] \in DOMAIN history'[n] /\ history'[n][rev'[n]] = Snapshot(n)'
      /\ \A x \in Docs : x # n => history'[x] = history[x]
      /\ HistInv'
      /\ \A v \in Views : Past(v) => Past(v)'
  BY <1>0, <1>1, <1>2, <1>3, <1>4, <1>5, FiledKeeps
<1>7. saved' \in [Nodes -> Document]  BY <1>4, <1>5 DEF TypeOK
<1>8. Solid(n)'  BY <1>3, <1>5, <1>6 DEF Solid, TypeOK
<1>9. ASSUME NEW m \in Nodes, Solid(m) PROVE Solid(m)'
  <2>1. CASE m = n  BY <1>8, <2>1
  <2>2. CASE m # n
    <3>1. m \in Docs /\ m # Tree  BY KeptIs DEF Docs
    <3>2. rev'[m] = rev[m] /\ history'[m] = history[m] /\ saved'[m] = saved[m]
      BY <1>1, <1>5, <1>6, <2>2, <3>1 DEF TypeOK
    <3>3. Snapshot(m)' = Snapshot(m)  BY <1>1, <3>2, SameNode
    <3>. QED  BY <1>9, <3>2, <3>3 DEF Solid
  <2>. QED  BY <2>1, <2>2
<1>10. ASSUME NEW v \in Views, Past(v), v.doc \in {n, Tree} \/ Current(v) PROVE Current(v)'
  <2>1. v.doc \in Docs /\ v.body.rev \in Nat /\ v.body.rev <= rev[v.doc]
    BY <1>10 DEF Views, Past, DocumentsOf
  <2>2. CASE v.doc \in {n, Tree}
    <3>1. rev'[v.doc] = rev[v.doc] + 1 /\ rev[v.doc] \in Nat  BY <1>1, <2>1, <2>2 DEF TypeOK
    <3>2. v.body.rev # rev'[v.doc]  BY <2>1, <3>1
    <3>. QED  BY <3>2 DEF Current
  <2>3. CASE v.doc \notin {n, Tree} /\ Current(v)
    <3>1. rev'[v.doc] = rev[v.doc] /\ Inner(v.doc) = {}  BY <1>1, <2>1, <2>3 DEF Inner
    <3>. QED  BY <1>1, <2>3, <3>1 DEF Current, Shows, Kept, Owned, Inner
  <2>. QED  BY <1>10, <2>2, <2>3
<1>. QED  BY <1>1, <1>6, <1>7, <1>8, <1>9, <1>10

LEMMA TreeSaved ==
    ASSUME TypeOK, HistInv, PersistTree
    PROVE  /\ rev' \in [Docs -> Nat] /\ val' = val /\ saved' = saved
           /\ DOMAIN history' = Docs /\ history' = [x \in Docs |-> history'[x]]
           /\ HistInv' /\ \A n \in Nodes : Solid(n) => Solid(n)'
           /\ \A v \in Views : Past(v) => Past(v)'
           /\ \A v \in Views : Past(v) /\ (v.doc = Tree \/ Current(v)) => Current(v)'
<1>. DEFINE s == [Snapshot(Tree) EXCEPT !.rev = @ + 1]
<1>0. Tree \in Docs /\ Tree \notin Nodes  BY DEF Docs
<1>1. /\ rev' \in [Docs -> Nat] /\ val' = val /\ saved' = saved /\ rev'[Tree] = rev[Tree] + 1
      /\ \A x \in Docs : x # Tree => rev'[x] = rev[x]
  BY <1>0 DEF PersistTree, TypeOK
<1>2. \A x \in Docs : rev[x] <= rev'[x]  BY <1>1 DEF TypeOK
<1>3. s = Snapshot(Tree)'
  <2>1. \A n \in Inner(Tree) : rev'[n] = rev[n]  BY <1>0, <1>1 DEF Inner, Docs
  <2>2. [x \in Inner(Tree) |-> rev'[x]] = [x \in Inner(Tree) |-> rev[x]]  BY <2>1
  <2>. QED  BY <1>1, <2>2, NextRevision
<1>4. s \in DocumentsOf(Tree)
  <2>1. Snapshot(Tree) \in DocumentsOf(Tree) /\ rev[Tree] + 1 \in Nat /\ Snapshot(Tree).rev = rev[Tree]
    BY <1>0, SnapshotIs DEF TypeOK
  <2>. QED  BY <2>1 DEF DocumentsOf
<1>5. Filed(Tree)  BY <1>3 DEF PersistTree, Filed
<1>. HIDE DEF s
<1>6. /\ DOMAIN history' = Docs /\ history' = [x \in Docs |-> history'[x]]
      /\ \A x \in Docs : x # Tree => history'[x] = history[x]
      /\ HistInv'
      /\ \A v \in Views : Past(v) => Past(v)'
  BY <1>0, <1>1, <1>2, <1>3, <1>4, <1>5, FiledKeeps
<1>7. ASSUME NEW m \in Nodes, Solid(m) PROVE Solid(m)'
  <2>1. m \in Docs /\ m # Tree  BY KeptIs DEF Docs
  <2>2. rev'[m] = rev[m] /\ history'[m] = history[m]  BY <1>1, <1>6, <2>1
  <2>3. Snapshot(m)' = Snapshot(m)  BY <1>1, <2>2, SameNode
  <2>. QED  BY <1>1, <1>7, <2>2, <2>3 DEF Solid
<1>8. ASSUME NEW v \in Views, Past(v), v.doc = Tree \/ Current(v) PROVE Current(v)'
  <2>1. v.doc \in Docs /\ v.body.rev \in Nat /\ v.body.rev <= rev[v.doc]
    BY <1>8 DEF Views, Past, DocumentsOf
  <2>2. CASE v.doc = Tree
    <3>1. rev'[v.doc] = rev[v.doc] + 1 /\ rev[v.doc] \in Nat  BY <1>1, <2>1, <2>2 DEF TypeOK
    <3>2. v.body.rev # rev'[v.doc]  BY <2>1, <3>1
    <3>. QED  BY <3>2 DEF Current
  <2>3. CASE v.doc # Tree /\ Current(v)
    <3>1. rev'[v.doc] = rev[v.doc] /\ Inner(v.doc) = {}  BY <1>1, <2>1, <2>3 DEF Inner
    <3>. QED  BY <1>1, <2>3, <3>1 DEF Current, Shows, Kept, Owned, Inner
  <2>. QED  BY <1>8, <2>2, <2>3
<1>. QED  BY <1>1, <1>6, <1>7, <1>8
-------------------------------------------------------------------------------
(* Who is at work.                                                             *)
LEMMA StandStill ==
    ASSUME TypeOK, ValInv, UNCHANGED <<store, edits, last>>
    PROVE  \A P : Changes(P)
BY DEF TypeOK, ValInv, Changes, store, Versioned

\* What a request, or a run, alone has left unsaved.
OfRequest(q, n) == q.pc = "persist_node" /\ q.doc = n
OfDoc(q, d) == \/ q.pc = "persist_node" /\ d \in {q.doc, Tree}
               \/ q.pc = "persist_tree" /\ q.doc = Tree /\ d = Tree
OfRun(c, n) == c.pc = "handler" /\ c.node = n

LEMMA RequestPc == \A q \in Request : q # Idle /\ q.pc \in Pcs
BY DEF Request, Pcs, Idle
LEMMA CallPc == \A c \in Call : c # Off /\ c.pc \in RunPcs
BY DEF Call, RunPcs, Off

LEMMA RequestAlone ==
    ASSUME TypeOK, ReqInv, Alone, NEW t \in Threads, req[t] # Idle
    PROVE  /\ req[t] \in Request /\ Fits(req[t]) /\ Busy = {t} /\ InRun = {}
           /\ \A n \in Nodes : Unsaved(n) <=> OfRequest(req[t], n)
           /\ \A d \in Docs : Dirty(d) => OfDoc(req[t], d)
<1>1. t \in Busy /\ req[t] \in Request  BY DEF Busy, TypeOK
<1>2. Busy = {t} /\ InRun = {}  BY <1>1 DEF Alone
<1>3. \A n \in Nodes : Unsaved(n) <=> OfRequest(req[t], n)  BY <1>2 DEF Unsaved, OfRequest
<1>4. \A d \in Docs : Dirty(d) => OfDoc(req[t], d)  BY <1>2, <1>3 DEF Dirty, OfRequest, OfDoc
<1>. QED  BY <1>1, <1>2, <1>3, <1>4 DEF ReqInv

LEMMA RequestMoves ==
    ASSUME TypeOK, Alone, Alone', NEW t \in Threads, NEW q \in Request,
           req' = [req EXCEPT ![t] = q], run' = run, Fits(q)'
    PROVE  /\ req' \in [Threads -> Request \cup {Idle}] /\ ReqInv' /\ InRun = {}
           /\ \A n \in Nodes : Unsaved(n)' <=> OfRequest(q, n)
           /\ \A d \in Docs : OfDoc(q, d) /\ (q.pc = "persist_node" => q.doc \in Nodes) => Dirty(d)'
<1>1. req' \in [Threads -> Request \cup {Idle}] /\ req'[t] = q /\ t \in Busy'
  BY RequestPc DEF TypeOK, Busy
<1>2. Busy' = {t} /\ InRun' = {} /\ InRun = {}  BY <1>1 DEF Alone, InRun
<1>3. ReqInv'  BY <1>1, <1>2 DEF ReqInv
<1>4. \A n \in Nodes : Unsaved(n)' <=> OfRequest(q, n)  BY <1>1, <1>2 DEF Unsaved, OfRequest
<1>5. ASSUME NEW d \in Docs, OfDoc(q, d), q.pc = "persist_node" => q.doc \in Nodes PROVE Dirty(d)'
  BY <1>1, <1>2, <1>4, <1>5 DEF Dirty, OfRequest, OfDoc
<1>. QED  BY <1>1, <1>2, <1>3, <1>4, <1>5

LEMMA RequestEnds ==
    ASSUME TypeOK, Alone, NEW t \in Threads, req[t] # Idle,
           req' = [req EXCEPT ![t] = Idle], run' = run
    PROVE  /\ req' \in [Threads -> Request \cup {Idle}] /\ ReqInv'
<1>1. t \in Busy  BY DEF Busy
<1>2. Busy = {t} /\ InRun = {}  BY <1>1 DEF Alone
<1>3. req' \in [Threads -> Request \cup {Idle}] /\ Busy' = {}  BY <1>2 DEF TypeOK, Busy
<1>. QED  BY <1>3 DEF ReqInv

LEMMA RunAlone ==
    ASSUME TypeOK, Alone, NEW r \in Runners, run[r] # Off
    PROVE  /\ run[r] \in Call /\ InRun = {r} /\ Busy = {}
           /\ \A n \in Nodes : Unsaved(n) <=> OfRun(run[r], n)
           /\ \A d \in Docs : Dirty(d) <=> \E n \in Nodes : OfRun(run[r], n) /\ d \in {n, Tree}
<1>1. r \in InRun /\ run[r] \in Call  BY DEF InRun, TypeOK
<1>2. InRun = {r} /\ Busy = {}  BY <1>1 DEF Alone
<1>3. \A n \in Nodes : Unsaved(n) <=> OfRun(run[r], n)  BY <1>2 DEF Unsaved, OfRun
<1>. QED  BY <1>1, <1>2, <1>3 DEF Dirty

LEMMA RunMoves ==
    ASSUME TypeOK, Alone', NEW r \in Runners, NEW c \in Call,
           run' = [run EXCEPT ![r] = c], req' = req
    PROVE  /\ run' \in [Runners -> Call \cup {Off}] /\ ReqInv' /\ Busy = {}
           /\ \A n \in Nodes : Unsaved(n)' <=> OfRun(c, n)
           /\ \A d \in Docs : Dirty(d)' <=> \E n \in Nodes : OfRun(c, n) /\ d \in {n, Tree}
<1>1. run' \in [Runners -> Call \cup {Off}] /\ run'[r] = c /\ r \in InRun'
  BY CallPc DEF TypeOK, InRun
<1>2. InRun' = {r} /\ Busy' = {} /\ Busy = {}  BY <1>1 DEF Alone, Busy
<1>3. ReqInv'  BY <1>2 DEF ReqInv
<1>4. \A n \in Nodes : Unsaved(n)' <=> OfRun(c, n)  BY <1>1, <1>2 DEF Unsaved, OfRun
<1>. QED  BY <1>1, <1>2, <1>3, <1>4 DEF Dirty
-------------------------------------------------------------------------------
(* The store while values change, nodes and the tree are saved.                *)
LEMMA AfterChanges ==
    ASSUME TypeOK, ValInv, HistInv, SolidInv, ViewInv, NEW P, Changes(P), view' = view,
           \A n \in Nodes : Unsaved(n) \/ Owned(n) \cap P # {} => Unsaved(n)',
           \A d \in Docs : Dirty(d) \/ Kept(d) \cap P # {} => Dirty(d)'
    PROVE  ValInv' /\ HistInv' /\ SolidInv' /\ ViewInv'
<1>1. ValInv' /\ HistInv'  BY ChangesKeep
<1>2. SolidInv'  BY ChangesKeep DEF SolidInv
<1>3. ASSUME NEW c \in Clients, view[c] # None, NEW v \in Views, v = view[c]
      PROVE  Past(v)' /\ (Dirty(v.doc)' \/ Current(v)')
  <2>1. v.doc \in Docs /\ Past(v) /\ (Dirty(v.doc) \/ Current(v))  BY <1>3 DEF ViewInv, Views
  <2>2. Past(v)'  BY <2>1, ChangesKeep
  <2>3. Current(v) /\ Kept(v.doc) \cap P = {} => Current(v)'  BY ChangesKeep
  <2>. QED  BY <2>1, <2>2, <2>3
<1>4. ViewInv'
  <2>. SUFFICES ASSUME NEW c \in Clients, view'[c] # None
                PROVE  (Past(view[c]) /\ (Dirty(view[c].doc) \/ Current(view[c])))'
    BY DEF ViewInv
  <2>1. view[c] \in Views /\ view'[c] = view[c]  BY DEF TypeOK
  <2>2. PICK v \in Views : v = view[c]  BY <2>1
  <2>3. Past(v)' /\ (Dirty(v.doc)' \/ Current(v)')  BY <1>3, <2>1, <2>2
  <2>. QED  BY <2>1, <2>2, <2>3
<1>. QED  BY <1>1, <1>2, <1>4

\* The store's types.
StoreOK ==
    /\ rev \in [Docs -> Nat] /\ val \in [Paths -> Nat] /\ last \in [Paths -> Nat]
    /\ saved \in [Nodes -> Document]
    /\ DOMAIN history = Docs /\ history = [d \in Docs |-> history[d]]
    /\ edits \in Nat
OthersOK ==
    /\ view \in [Clients -> Views \cup {None}]
    /\ req \in [Threads -> Request \cup {Idle}]
    /\ run \in [Runners -> Call \cup {Off}]
LEMMA TypesAre == /\ TypeOK => StoreOK /\ OthersOK
                  /\ StoreOK' /\ OthersOK' => TypeOK'
BY DEF TypeOK, StoreOK, OthersOK

LEMMA ChangesTyped ==
    ASSUME StoreOK, NEW P, Changes(P)
    PROVE  StoreOK'
BY DEF StoreOK, Changes

\* Every response is of the past and up to date once what was unsaved is saved.
LEMMA ViewsAfter ==
    ASSUME TypeOK, ViewInv, view' = view, NEW D,
           \A v \in Views : Past(v) => Past(v)',
           \A v \in Views : Past(v) /\ (v.doc \in D \/ Current(v)) => Current(v)',
           \A d \in Docs : Dirty(d) => d \in D
    PROVE  ViewInv'
<1>1. ASSUME NEW c \in Clients, view[c] # None, NEW v \in Views, v = view[c]
      PROVE  Past(v)' /\ Current(v)'
  <2>1. v.doc \in Docs /\ Past(v) /\ (Dirty(v.doc) \/ Current(v))  BY <1>1 DEF ViewInv, Views
  <2>. QED  BY <2>1
<1>. SUFFICES ASSUME NEW c \in Clients, view'[c] # None
              PROVE  (Past(view[c]) /\ (Dirty(view[c].doc) \/ Current(view[c])))'
  BY DEF ViewInv
<1>2. view[c] \in Views /\ view'[c] = view[c]  BY DEF TypeOK
<1>3. PICK v \in Views : v = view[c]  BY <1>2
<1>4. Past(v)' /\ Current(v)'  BY <1>1, <1>2, <1>3
<1>. QED  BY <1>2, <1>3, <1>4

LEMMA AfterNodeSaved ==
    ASSUME TypeOK, ValInv, HistInv, SolidInv, ViewInv, NEW n \in Nodes, PersistNode(n),
           UNCHANGED <<view, last, edits>>,
           \A m \in Nodes : Unsaved(m) => m = n, \A d \in Docs : Dirty(d) => d \in {n, Tree}
    PROVE  StoreOK' /\ ValInv' /\ HistInv' /\ SolidInv' /\ ViewInv'
<1>1. /\ rev' \in [Docs -> Nat] /\ val' = val /\ saved' \in [Nodes -> Document]
      /\ DOMAIN history' = Docs /\ history' = [x \in Docs |-> history'[x]]
      /\ HistInv' /\ Solid(n)' /\ \A m \in Nodes : Solid(m) => Solid(m)'
  BY NodeSaved
<1>2. StoreOK' /\ ValInv'  BY <1>1 DEF StoreOK, TypeOK, ValInv
<1>3. SolidInv'  BY <1>1 DEF SolidInv
<1>4. /\ \A v \in Views : Past(v) => Past(v)'
      /\ \A v \in Views : Past(v) /\ (v.doc \in {n, Tree} \/ Current(v)) => Current(v)'
  BY NodeSaved
<1>5. ViewInv'  BY <1>4, ViewsAfter
<1>. QED  BY <1>1, <1>2, <1>3, <1>5

LEMMA AfterTreeSaved ==
    ASSUME TypeOK, ValInv, HistInv, SolidInv, ViewInv, PersistTree,
           UNCHANGED <<view, last, edits>>,
           \A n \in Nodes : ~Unsaved(n), \A d \in Docs : Dirty(d) => d = Tree
    PROVE  StoreOK' /\ ValInv' /\ HistInv' /\ SolidInv' /\ ViewInv'
<1>1. /\ rev' \in [Docs -> Nat] /\ val' = val /\ saved' = saved
      /\ DOMAIN history' = Docs /\ history' = [x \in Docs |-> history'[x]]
      /\ HistInv' /\ \A n \in Nodes : Solid(n) => Solid(n)'
  BY TreeSaved
<1>2. StoreOK' /\ ValInv'  BY <1>1 DEF StoreOK, TypeOK, ValInv
<1>3. SolidInv'  BY <1>1 DEF SolidInv
<1>4. /\ \A v \in Views : Past(v) => Past(v)'
      /\ \A v \in Views : Past(v) /\ (v.doc \in {Tree} \/ Current(v)) => Current(v)'
  BY TreeSaved
<1>5. ViewInv'  BY <1>4, ViewsAfter
<1>. QED  BY <1>1, <1>2, <1>3, <1>5

\* A new response shows the document as it is.
LEMMA ResponseIs ==
    ASSUME TypeOK, HistInv, NEW d \in Docs
    PROVE  /\ Response(d) \in Views /\ Response(d).doc = d
           /\ Past(Response(d)) /\ Current(Response(d))
<1>1. /\ Snapshot(d) \in DocumentsOf(d) /\ Snapshot(d) \in Document
      /\ Snapshot(d).rev = rev[d] /\ Shows(Snapshot(d), d)
      /\ \A p \in Owned(d) : Snapshot(d).val[p] = val[p]
  BY SnapshotIs
<1>2. Response(d).doc = d /\ Response(d).body = Snapshot(d) /\ Response(d) \in Views
  BY <1>1 DEF Response, Views
<1>3. \A p \in Kept(d) : /\ Snapshot(d).val[p] <= val[p]
                         /\ rev[d] \in DOMAIN history[d] =>
                              history[d][rev[d]].val[p] <= Snapshot(d).val[p]
  BY <1>1, KeptIs DEF HistInv, TypeOK
<1>4. rev[d] <= rev[d]  BY DEF TypeOK
<1>. QED  BY <1>1, <1>2, <1>3, <1>4 DEF Past, Current

LEMMA ViewsMove ==
    ASSUME TypeOK, ValInv, HistInv, ViewInv, NEW c \in Clients, NEW d \in Docs,
           view' = [view EXCEPT ![c] = Response(d)], Changes({}),
           \A x \in Docs : Dirty(x) => Dirty(x)'
    PROVE  view' \in [Clients -> Views \cup {None}] /\ ViewInv'
<1>1. Response(d) \in Views /\ Response(d).doc = d /\ Past(Response(d)) /\ Current(Response(d))
  BY ResponseIs
<1>2. view' \in [Clients -> Views \cup {None}]  BY <1>1 DEF TypeOK
<1>3. ASSUME NEW v \in Views, Past(v), Dirty(v.doc) \/ Current(v)
      PROVE  Past(v)' /\ (Dirty(v.doc)' \/ Current(v)')
  <2>1. Past(v)' /\ (Current(v) => Current(v)')  BY <1>3, ChangesKeep
  <2>. QED  BY <1>3, <2>1 DEF Views
<1>. SUFFICES ASSUME NEW x \in Clients, view'[x] # None
              PROVE  (Past(view[x]) /\ (Dirty(view[x].doc) \/ Current(view[x])))'
  BY <1>2 DEF ViewInv
<1>4. CASE x = c
  <2>1. PICK v \in Views : v = Response(d)  BY <1>1
  <2>2. view'[x] = v /\ Past(v) /\ Current(v)  BY <1>1, <1>4, <2>1 DEF TypeOK
  <2>. QED  BY <1>3, <2>2
<1>5. CASE x # c
  <2>1. view'[x] = view[x] /\ view[x] \in Views  BY <1>5 DEF TypeOK
  <2>2. PICK v \in Views : v = view[x]  BY <2>1
  <2>3. Past(v) /\ (Dirty(v.doc) \/ Current(v))  BY <2>1, <2>2 DEF ViewInv
  <2>. QED  BY <1>3, <2>1, <2>2, <2>3
<1>. QED  BY <1>4, <1>5

\* What a request knows stays so while no value changes.
LEMMA FitsStays ==
    ASSUME TypeOK, ValInv, Changes({}), NEW q \in Request, Fits(q), view'[q.client] = view[q.client],
           edits <= edits'
    PROVE  Fits(q)'
<1>1. \A p \in Versioned : val'[p] = val[p]  BY DEF Changes
<1>2. rev' = rev  BY DEF Changes
<1>3. q.doc \in Docs /\ q.value \in Nat  BY Zenon DEF Request
<1>4. Unmet(q) => Unmet(q)'  BY <1>1, <1>3 DEF Unmet, TypeOK, Changes, Versioned
<1>5. AsRead(q) => AsRead(q)'  BY <1>1, <1>2, <1>3, KeptIs DEF AsRead, Shows, Kept, Owned, Inner
<1>6. FromView(q) => FromView(q)'  BY DEF FromView
<1>. QED  BY <1>1, <1>4, <1>5, <1>6 DEF Fits, Editable, Owned, DocumentsOf, Inner, Versioned
-------------------------------------------------------------------------------
(* The steps of a request.                                                     *)
\* A step's context: the invariant, nothing overlaps before or after it, and
\* clients keep to their side.
Context == Inv /\ Alone /\ Alone' /\ Orderly

LEMMA AtPc ==
    ASSUME NEW q \in Request, NEW pc \in Pcs
    PROVE  LET r == [q EXCEPT !.pc = pc] IN
           /\ r \in Request /\ r.pc = pc /\ r.client = q.client /\ r.verb = q.verb /\ r.doc = q.doc
           /\ r.expected = q.expected /\ r.merge = q.merge /\ r.path = q.path /\ r.value = q.value
           /\ r.body = q.body /\ r.seen = q.seen
BY Zenon DEF Request

\* A path of a document, and that no other node has it.
LEMMA EditableIs ==
    ASSUME Orderly, NEW d \in Docs, NEW p \in Editable(d)
    PROVE  p \in Paths /\ p \in Owned(d) /\ \A n \in Nodes : n # d => p \notin Owned(n)
BY DEF Orderly, Editable, Owned, Docs

LEMMA GetKeeps ==
    ASSUME Context, NEW c \in Clients, NEW d \in Docs, Get(c, d)
    PROVE  Inv'
<1>. USE DEF Context, Inv
<1>1. Changes({}) /\ view' = [view EXCEPT ![c] = Response(d)] /\ req' = req /\ run' = run
      /\ edits' = edits
  BY StandStill DEF Get
<1>2. /\ \A n \in Nodes : Unsaved(n)' <=> Unsaved(n)
      /\ \A x \in Docs : Dirty(x)' <=> Dirty(x)
  BY <1>1 DEF Unsaved, Dirty, InRun, Busy
<1>3. view' \in [Clients -> Views \cup {None}] /\ ViewInv'  BY <1>1, <1>2, ViewsMove
<1>4. ValInv' /\ HistInv'  BY <1>1, ChangesKeep
<1>5. SolidInv'  BY <1>1, <1>2, ChangesKeep DEF SolidInv
<1>6. TypeOK'  BY <1>1, <1>3, TypesAre, ChangesTyped DEF OthersOK, TypeOK
<1>7. ASSUME NEW t \in Busy PROVE Fits(req[t])'
  <2>1. req[t] \in Request /\ Fits(req[t]) /\ req'[t] = req[t]
    BY <1>1, <1>7 DEF ReqInv, Busy, TypeOK
  <2>2. PICK q \in Request : q = req[t]  BY <2>1
  <2>3. q.client # c  BY <1>7, <2>2 DEF Get, Waiting
  <2>4. view'[q.client] = view[q.client]
    <3>1. q.client \in Clients  BY Zenon DEF Request
    <3>. QED  BY <1>1, <2>3, <3>1 DEF TypeOK
  <2>5. Fits(q)'  BY <1>1, <2>1, <2>2, <2>4, FitsStays DEF TypeOK
  <2>. QED  BY <2>1, <2>2, <2>5
<1>8. ReqInv'  BY <1>1, <1>7 DEF ReqInv, Busy
<1>. QED  BY <1>3, <1>4, <1>5, <1>6, <1>8

\* A step that moves the one request there is and leaves the store alone.
LEMMA RequestKeeps ==
    ASSUME Context, NEW t \in Threads, NEW q \in Request, req' = [req EXCEPT ![t] = q], Fits(q),
           UNCHANGED <<store, last, view, run, edits>>,
           \A n \in Nodes : ~Unsaved(n), \A d \in Docs : ~Dirty(d)
    PROVE  Inv'
<1>. USE DEF Context, Inv
<1>1. Changes({})  BY StandStill
<1>2. Fits(q)'  BY <1>1, FitsStays DEF TypeOK
<1>3. req' \in [Threads -> Request \cup {Idle}] /\ ReqInv'  BY <1>2, RequestMoves
<1>4. ValInv' /\ HistInv' /\ SolidInv' /\ ViewInv'  BY <1>1, AfterChanges
<1>5. TypeOK'  BY <1>1, <1>3, TypesAre, ChangesTyped DEF OthersOK, TypeOK
<1>. QED  BY <1>3, <1>4, <1>5

LEMMA SendKeeps ==
    ASSUME Context, NEW t \in Threads, NEW c \in Clients, NEW verb \in Verbs, NEW p \in Paths,
           NEW conditional \in BOOLEAN, NEW merge \in BOOLEAN, Send(t, c, verb, p, conditional, merge)
    PROVE  Inv'
<1>. USE DEF Context, Inv
<1>. DEFINE v == view[c]
            pc == IF verb = "PATCH" THEN "snapshot" ELSE "check"
            x == IF conditional THEN v.body.rev ELSE None
            q == [pc |-> pc, client |-> c, verb |-> verb, doc |-> v.doc, expected |-> x,
                  merge |-> merge, path |-> p, value |-> edits + 1, body |-> v.body,
                  seen |-> v.body.val[p]]
<1>1. v # None /\ v \in Views /\ p \in Editable(v.doc) /\ Past(v)
  BY DEF Send, TypeOK, ViewInv
<1>2. v.doc \in Docs /\ v.body \in Document /\ v.body \in DocumentsOf(v.doc) /\ p \in Owned(v.doc)
  BY <1>1, EditableIs DEF Views, Past
<1>3. v.body.rev \in Nat /\ v.body.val[p] \in Nat /\ edits + 1 \in Nat  BY <1>2 DEF DocumentsOf, TypeOK
<1>4. pc \in Pcs /\ x \in Nat \cup {None} /\ (verb = "POST" => x # None /\ ~merge)
      /\ (x # None => x = v.body.rev) /\ pc \in {"snapshot", "check"} /\ (pc = "check" <=> verb = "POST")
  BY <1>3 DEF Send, Pcs, Verbs, Orderly
<1>5. req' = [req EXCEPT ![t] = q]  BY DEF Send
<1>. HIDE DEF pc, x
<1>6. q \in Request  BY <1>2, <1>3, <1>4 DEF Request
<1>7. FromView(q)  BY <1>1, <1>4 DEF FromView
<1>8. edits' = edits + 1 /\ UNCHANGED <<store, last, view, run>>  BY DEF Send
<1>9. Changes({})
  <2>1. \A e \in Versioned : val[e] \in Nat /\ val[e] = last[e] /\ val[e] <= edits
    BY DEF ValInv, TypeOK, Versioned
  <2>. QED  BY <1>3, <1>8, <2>1 DEF Changes, store, TypeOK
<1>a. PICK k \in Request : k = q  BY <1>6
<1>b. /\ k.path \in Editable(k.doc) /\ k.body \in DocumentsOf(k.doc) /\ k.value = edits + 1
      /\ FromView(k) /\ k.pc \in {"snapshot", "check"} /\ (k.pc = "check" <=> k.verb = "POST")
      /\ (k.verb = "POST" => k.expected # None /\ ~k.merge) /\ (k.verb \in Verbs)
  BY <1>1, <1>2, <1>4, <1>7, <1>a
<1>c. req' = [req EXCEPT ![t] = k]  BY <1>5, <1>a
<1>. HIDE DEF q
<1>10. Fits(k)'
  <2>1. Unmet(k)'  BY <1>3, <1>8, <1>b DEF Unmet, ValInv, store, TypeOK, Versioned
  <2>2. FromView(k)'  BY <1>8, <1>b DEF FromView
  <2>3. (k.path \in Editable(k.doc) /\ k.body \in DocumentsOf(k.doc))'
    BY <1>b DEF Editable, DocumentsOf, Owned, Inner
  <2>4. k.pc = "snapshot" => k.verb = "PATCH"  BY <1>b DEF Verbs
  <2>5. ~(k.pc = "check" /\ k.verb = "PATCH")  BY <1>b
  <2>. QED  BY <1>b, <2>1, <2>2, <2>3, <2>4, <2>5 DEF Fits
<1>11. req' \in [Threads -> Request \cup {Idle}] /\ ReqInv' /\ InRun = {}  BY <1>8, <1>10, <1>c, RequestMoves
<1>12. \A n \in Nodes : ~Unsaved(n)
  <2>1. Busy = {}
    <3>1. Busy \subseteq Busy' /\ t \in Busy' /\ t \notin Busy
      BY <1>c, RequestPc DEF Busy, TypeOK, Send
    <3>. QED  BY <3>1 DEF Alone
  <2>. QED  BY <1>11, <2>1 DEF Unsaved
<1>13. \A d \in Docs : ~Dirty(d)
  <2>1. Busy = {}
    <3>1. Busy \subseteq Busy' /\ t \in Busy' /\ t \notin Busy
      BY <1>c, RequestPc DEF Busy, TypeOK, Send
    <3>. QED  BY <3>1 DEF Alone
  <2>. QED  BY <1>12, <2>1 DEF Dirty
<1>14. ValInv' /\ HistInv' /\ SolidInv' /\ ViewInv'  BY <1>8, <1>9, <1>12, <1>13, AfterChanges
<1>15. TypeOK'  BY <1>8, <1>9, <1>11, TypesAre, ChangesTyped DEF OthersOK, TypeOK
<1>. QED  BY <1>11, <1>14, <1>15

LEMMA SnapshotKeeps ==
    ASSUME Context, NEW t \in Threads, TakeSnapshot(t)
    PROVE  Inv'
<1>. USE DEF Context, Inv
<1>1. req[t].pc = "snapshot" /\ req[t] # Idle  BY DEF TakeSnapshot, Idle
<1>2. /\ req[t] \in Request /\ Fits(req[t])
      /\ \A n \in Nodes : ~Unsaved(n)
      /\ \A d \in Docs : ~Dirty(d)
  BY <1>1, RequestAlone DEF OfRequest, OfDoc
<1>3. PICK q \in Request : q = req[t]  BY <1>2
<1>. DEFINE b == Snapshot(q.doc)
            r == [q EXCEPT !.pc = "check", !.body = b]
<1>4. q.doc \in Docs  BY Zenon DEF Request
<1>5. b \in DocumentsOf(q.doc) /\ b \in Document /\ b.rev = rev[q.doc] /\ Shows(b, q.doc)
  BY <1>4, SnapshotIs
<1>6. req' = [req EXCEPT ![t] = r]
  BY <1>3 DEF TakeSnapshot, TypeOK
<1>7. UNCHANGED <<store, last, view, run, edits>>  BY DEF TakeSnapshot
<1>. HIDE DEF b
<1>8. /\ r \in Request /\ r.pc = "check" /\ r.client = q.client /\ r.verb = q.verb /\ r.doc = q.doc
      /\ r.expected = q.expected /\ r.merge = q.merge /\ r.path = q.path /\ r.value = q.value
      /\ r.body = b /\ r.seen = q.seen
  BY <1>5, Zenon DEF Request, Pcs
<1>. HIDE DEF r
<1>9. Fits(r)
  <2>1. Fits(q) /\ q.pc = "snapshot" /\ q.verb = "PATCH"  BY <1>1, <1>2, <1>3 DEF Fits
  <2>2. FromView(r)  BY <1>8, <2>1 DEF Fits, FromView
  <2>3. Unmet(r) /\ AsRead(r)  BY <1>5, <1>8, <2>1 DEF Fits, Unmet, AsRead
  <2>. QED  BY <1>5, <1>8, <2>1, <2>2, <2>3 DEF Fits
<1>. QED  BY <1>2, <1>6, <1>7, <1>8, <1>9, RequestKeeps

\* What is accepted replaces the value its client saw, and builds on the
\* document as it is.
LEMMA AcceptedFits ==
    ASSUME Inv, Orderly, NEW q \in Request, q.pc = "check", Fits(q), \A d \in Docs : ~Dirty(d),
           Conflict(q) => Mergeable(q)
    PROVE  /\ AsRead(q) /\ Unmet(q)
           /\ q.expected # None /\ q.path \in Versioned => val[q.path] = q.seen
<1>. USE DEF Inv
<1>1. /\ q.doc \in Docs /\ q.client \in Clients /\ q.verb \in Verbs /\ q.path \in Paths
      /\ q.expected \in Nat \cup {None}
  BY Zenon DEF Request
<1>2. Unmet(q) /\ FromView(q) /\ q.path \in Owned(q.doc) /\ q.body \in DocumentsOf(q.doc)
      /\ (q.verb = "PATCH" => AsRead(q)) /\ (q.verb = "POST" => q.expected # None /\ ~q.merge)
  BY <1>1, EditableIs DEF Fits
<1>. DEFINE v == view[q.client]
<1>3. ASSUME q.expected # None
      PROVE  /\ v \in Views /\ v.doc = q.doc /\ v.body.rev = q.expected /\ v.body.val[q.path] = q.seen
             /\ q.verb = "POST" => q.body = v.body
             /\ Past(v) /\ Current(v)
  BY <1>1, <1>2, <1>3 DEF FromView, ViewInv, TypeOK
<1>. HIDE DEF v
<1>4. ASSUME q.expected # None, q.expected = rev[q.doc]
      PROVE  Shows(v.body, q.doc)
  BY <1>3, <1>4 DEF Current
<1>5. CASE q.verb = "POST"
  <2>1. q.expected # None /\ q.expected = rev[q.doc]  BY <1>2, <1>5 DEF Conflict, Mergeable
  <2>2. q.body = v.body /\ AsRead(q)  BY <1>3, <1>4, <1>5, <2>1 DEF AsRead
  <2>3. q.path \in Versioned => val[q.path] = q.seen
    BY <1>2, <1>3, <2>1, <2>2 DEF AsRead, Shows, Kept, Versioned
  <2>. QED  BY <1>2, <2>2, <2>3
<1>6. CASE q.verb = "PATCH"
  <2>1. AsRead(q)  BY <1>2, <1>6
  <2>2. ASSUME q.expected # None, q.path \in Versioned PROVE val[q.path] = q.seen
    <3>1. q.path \in Kept(q.doc)  BY <1>2, <2>2 DEF Kept, Versioned
    <3>2. CASE q.expected = rev[q.doc]
      <4>1. v.body.val[q.path] = val[q.path]  BY <1>4, <2>2, <3>1, <3>2 DEF Shows
      <4>. QED  BY <1>3, <2>2, <4>1
    <3>3. CASE q.expected # rev[q.doc]
      <4>. DEFINE base == history[q.doc][q.expected]
      <4>1. q.expected \in DOMAIN history[q.doc] /\ {q.path} \cap DiffPaths(base, q.body) = {}
        BY <1>6, <2>2, <3>3 DEF Conflict, Mergeable
      <4>2. base \in DocumentsOf(q.doc)  BY <1>1, <4>1 DEF HistInv
      <4>3. base.val[q.path] = q.body.val[q.path]
        BY <1>2, <4>1, <4>2 DEF DiffPaths, DocumentsOf
      <4>4. q.body.val[q.path] = val[q.path]  BY <2>1, <3>1 DEF AsRead, Shows
      <4>5. base.val[q.path] <= q.seen /\ q.seen <= val[q.path]
        BY <1>3, <2>2, <3>1, <4>1 DEF Past
      <4>6. q.seen \in Nat /\ val[q.path] \in Nat
        <5>1. q.seen \in Nat  BY Zenon DEF Request
        <5>. QED  BY <1>1, <5>1 DEF TypeOK
      <4>. QED  BY <4>3, <4>4, <4>5, <4>6
    <3>. QED  BY <3>2, <3>3
  <2>. QED  BY <1>2, <2>1, <2>2
<1>. QED  BY <1>1, <1>5, <1>6 DEF Verbs

LEMMA AcceptKeeps ==
    ASSUME Context, NEW t \in Threads, Accept(t)
    PROVE  Inv'
<1>. USE DEF Context, Inv
<1>1. req[t].pc = "check" /\ req[t] # Idle  BY DEF Accept, Idle
<1>2. /\ req[t] \in Request /\ Fits(req[t])
      /\ \A n \in Nodes : ~Unsaved(n)
      /\ \A d \in Docs : ~Dirty(d)
  BY <1>1, RequestAlone DEF OfRequest, OfDoc
<1>3. PICK q \in Request : q = req[t]  BY <1>2
<1>. DEFINE r == [q EXCEPT !.pc = "update"]
<1>4. /\ r \in Request /\ r.pc = "update" /\ r.client = q.client /\ r.verb = q.verb /\ r.doc = q.doc
      /\ r.expected = q.expected /\ r.merge = q.merge /\ r.path = q.path /\ r.value = q.value
      /\ r.body = q.body /\ r.seen = q.seen
  BY AtPc DEF Pcs
<1>5. req' = [req EXCEPT ![t] = r]  BY <1>3 DEF Accept, Advance, TypeOK
<1>6. UNCHANGED <<store, last, view, run, edits>>  BY DEF Accept
<1>. HIDE DEF r
<1>7. /\ AsRead(q) /\ Unmet(q)
      /\ q.expected # None /\ q.path \in Versioned => val[q.path] = q.seen
  BY <1>1, <1>2, <1>3, AcceptedFits DEF Accept
<1>8. Fits(r)
  <2>1. AsRead(r) /\ Unmet(r)  BY <1>4, <1>7 DEF AsRead, Unmet
  <2>. QED  BY <1>2, <1>3, <1>4, <1>7, <2>1 DEF Fits
<1>. QED  BY <1>2, <1>4, <1>5, <1>6, <1>8, RequestKeeps

\* 409: the request is gone, the store as it was.
LEMMA RejectKeeps ==
    ASSUME Context, NEW t \in Threads, Reject(t)
    PROVE  Inv'
<1>. USE DEF Context, Inv
<1>1. req[t].pc = "check" /\ req[t] # Idle  BY DEF Reject, Idle
<1>2. /\ \A n \in Nodes : ~Unsaved(n)
      /\ \A d \in Docs : ~Dirty(d)
  BY <1>1, RequestAlone DEF OfRequest, OfDoc
<1>3. req' = [req EXCEPT ![t] = Idle] /\ UNCHANGED <<store, last, view, run, edits>>  BY DEF Reject
<1>4. Changes({})  BY <1>3, StandStill
<1>5. req' \in [Threads -> Request \cup {Idle}] /\ ReqInv'  BY <1>1, <1>3, RequestEnds
<1>6. ValInv' /\ HistInv' /\ SolidInv' /\ ViewInv'  BY <1>2, <1>3, <1>4, AfterChanges
<1>7. TypeOK'  BY <1>3, <1>4, <1>5, TypesAre, ChangesTyped DEF OthersOK, TypeOK
<1>. QED  BY <1>5, <1>6, <1>7

\* An update changes one path and no revision.
LEMMA UpdateChanges ==
    ASSUME Inv, Orderly, NEW q \in Request, q.pc = "update", Fits(q), Refresh(q.doc, Payload(q)),
           last' = [last EXCEPT ![q.path] = q.value], edits' = edits
    PROVE  Changes({q.path})
<1>. USE DEF Inv
<1>1. q.doc \in Docs /\ q.path \in Paths /\ q.value \in Nat  BY Zenon DEF Request
<1>2. /\ q.body \in DocumentsOf(q.doc) /\ q.body.rev = rev[q.doc] /\ Shows(q.body, q.doc)
      /\ q.path \in Owned(q.doc) /\ Unmet(q)
  BY <1>1, EditableIs DEF Fits, AsRead
<1>. DEFINE s == Payload(q)
            d == q.doc
<1>3. /\ s.rev = rev[d] /\ s.nrev = q.body.nrev /\ s.val \in [Owned(d) -> Nat] /\ s.val[q.path] = q.value
      /\ \A p \in Owned(d) : p # q.path => s.val[p] = q.body.val[p]
  BY <1>1, <1>2 DEF Payload, Patched, DocumentsOf
<1>4. /\ rev' = [x \in Docs |-> IF x = d THEN s.rev ELSE IF x \in Inner(d) THEN s.nrev[x] ELSE rev[x]]
      /\ val' = [p \in Paths |-> IF p \in Owned(d) THEN s.val[p] ELSE val[p]]
      /\ UNCHANGED <<saved, history>>
  BY DEF Refresh
<1>. HIDE DEF s, d
<1>5. \A x \in Inner(d) : s.nrev[x] = rev[x]  BY <1>2, <1>3 DEF Shows, d
<1>6. rev' = rev  BY <1>3, <1>4, <1>5 DEF TypeOK
<1>7. val' \in [Paths -> Nat] /\ last' \in [Paths -> Nat]  BY <1>1, <1>3, <1>4 DEF TypeOK
<1>8. ASSUME NEW p \in Versioned
      PROVE  /\ val'[p] = last'[p] /\ val[p] <= val'[p] /\ val'[p] <= edits'
             /\ p # q.path => val'[p] = val[p]
  <2>1. p \in Paths /\ val[p] \in Nat /\ val[p] = last[p] /\ val[p] <= edits /\ edits \in Nat
    BY DEF Versioned, ValInv, TypeOK
  <2>2. CASE p = q.path
    <3>1. val'[p] = q.value /\ last'[p] = q.value
      BY <1>2, <1>3, <1>4, <2>1, <2>2 DEF d, TypeOK
    <3>2. q.value <= edits /\ val[p] < q.value  BY <1>2, <2>2 DEF Unmet
    <3>. QED  BY <1>1, <2>1, <2>2, <3>1, <3>2
  <2>3. CASE p # q.path
    <3>1. last'[p] = last[p]  BY <2>1, <2>3 DEF TypeOK
    <3>2. p \in Owned(d) => s.val[p] = val[p]
      BY <1>2, <1>3, <2>3 DEF Shows, Kept, Versioned, d
    <3>3. val'[p] = val[p]  BY <1>4, <2>1, <3>2
    <3>. QED  BY <2>1, <2>3, <3>1, <3>3
  <2>. QED  BY <2>2, <2>3
<1>. QED  BY <1>4, <1>6, <1>7, <1>8 DEF Changes, TypeOK

LEMMA UpdateKeeps ==
    ASSUME Context, NEW t \in Threads, Update(t)
    PROVE  Inv'
<1>. USE DEF Context, Inv
<1>1. req[t].pc = "update" /\ req[t] # Idle  BY DEF Update, Idle
<1>2. /\ req[t] \in Request /\ Fits(req[t])
      /\ \A n \in Nodes : ~Unsaved(n)
      /\ \A d \in Docs : ~Dirty(d)
  BY <1>1, RequestAlone DEF OfRequest, OfDoc
<1>3. PICK q \in Request : q = req[t]  BY <1>2
<1>. DEFINE pc == IF q.doc = Tree THEN "persist_tree" ELSE "persist_node"
            r == [q EXCEPT !.pc = pc]
<1>4. pc \in Pcs /\ pc \notin {"snapshot", "check", "update"} /\ (pc = "persist_node" <=> q.doc # Tree)
      /\ (pc = "persist_tree" <=> q.doc = Tree)
  BY DEF Pcs
<1>5. req' = [req EXCEPT ![t] = r]  BY <1>3 DEF Update, Advance, TypeOK
<1>. HIDE DEF pc
<1>6. /\ r \in Request /\ r.pc = pc /\ r.verb = q.verb /\ r.doc = q.doc /\ r.expected = q.expected
      /\ r.merge = q.merge /\ r.path = q.path /\ r.body = q.body
  BY <1>4, AtPc
<1>. HIDE DEF r
<1>7. UNCHANGED <<view, run, edits>>  BY DEF Update
<1>8. q.doc \in Docs /\ q.path \in Editable(q.doc) /\ q.body \in DocumentsOf(q.doc) /\ Fits(q)
  BY <1>2, <1>3, Zenon DEF Request, Fits
<1>9. Changes({q.path})  BY <1>1, <1>2, <1>3, UpdateChanges DEF Update
<1>10. Fits(r)'
  <2>1. (r.path \in Editable(r.doc) /\ r.body \in DocumentsOf(r.doc))'
    BY <1>6, <1>8 DEF Editable, DocumentsOf, Owned, Inner
  <2>2. r.verb = "POST" => r.expected # None /\ ~r.merge  BY <1>6, <1>8 DEF Fits
  <2>3. r.pc = "persist_node" => r.doc \in Nodes  BY <1>4, <1>6, <1>8 DEF Docs
  <2>. QED  BY <1>4, <1>6, <2>1, <2>2, <2>3 DEF Fits
<1>11. /\ req' \in [Threads -> Request \cup {Idle}] /\ ReqInv'
       /\ \A n \in Nodes : Unsaved(n)' <=> OfRequest(r, n)
       /\ \A d \in Docs : OfDoc(r, d) => Dirty(d)'
  <2>1. r.pc = "persist_node" => r.doc \in Nodes  BY <1>4, <1>6, <1>8 DEF Docs
  <2>. QED  BY <1>5, <1>6, <1>7, <1>10, <2>1, RequestMoves
<1>12. \A n \in Nodes : Owned(n) \cap {q.path} # {} => Unsaved(n)'
  <2>1. \A n \in Nodes : n # q.doc => q.path \notin Owned(n)  BY <1>8, EditableIs
  <2>2. \A n \in Nodes : n = q.doc => OfRequest(r, n)  BY <1>4, <1>6, KeptIs DEF OfRequest
  <2>. QED  BY <1>11, <2>1, <2>2
<1>13. \A d \in Docs : Kept(d) \cap {q.path} # {} => Dirty(d)'
  <2>1. \A n \in Nodes : n # q.doc => q.path \notin Kept(n)  BY <1>8, EditableIs, KeptIs
  <2>2. OfDoc(r, q.doc) /\ OfDoc(r, Tree)  BY <1>4, <1>6 DEF OfDoc
  <2>. QED  BY <1>11, <2>1, <2>2 DEF Docs
<1>14. ValInv' /\ HistInv' /\ SolidInv' /\ ViewInv'
  BY <1>2, <1>7, <1>9, <1>12, <1>13, AfterChanges
<1>15. TypeOK'  BY <1>7, <1>9, <1>11, TypesAre, ChangesTyped DEF OthersOK, TypeOK
<1>. QED  BY <1>11, <1>14, <1>15

\* Once the value is in the store, a request only has to be saved and answered.
LEMMA SaveKeeps ==
    ASSUME Context, NEW t \in Threads, SaveNode(t) \/ SaveTree(t)
    PROVE  Inv'
<1>. USE DEF Context, Inv
<1>1. req[t].pc \in {"persist_node", "persist_tree"} /\ req[t] # Idle  BY DEF SaveNode, SaveTree, Idle
<1>2. /\ req[t] \in Request /\ Fits(req[t])
      /\ \A n \in Nodes : Unsaved(n) <=> OfRequest(req[t], n)
      /\ \A d \in Docs : Dirty(d) => OfDoc(req[t], d)
  BY <1>1, RequestAlone
<1>3. PICK q \in Request : q = req[t]  BY <1>2
<1>4. PICK pc \in {"persist_tree", "respond"} : req' = [req EXCEPT ![t].pc = pc]
  BY DEF SaveNode, SaveTree, Advance
<1>. DEFINE r == [q EXCEPT !.pc = pc]
<1>5. req' = [req EXCEPT ![t] = r] /\ pc \in Pcs  BY <1>3, <1>4 DEF TypeOK, Pcs
<1>6. /\ r \in Request /\ r.pc = pc /\ r.verb = q.verb /\ r.doc = q.doc /\ r.expected = q.expected
      /\ r.merge = q.merge /\ r.path = q.path /\ r.body = q.body
  BY <1>5, AtPc
<1>. HIDE DEF r
<1>7. UNCHANGED <<view, run, edits, last>>  BY DEF SaveNode, SaveTree
<1>8. Fits(r)'
  <2>1. Fits(q)  BY <1>2, <1>3
  <2>2. (r.path \in Editable(r.doc) /\ r.body \in DocumentsOf(r.doc))'
    BY <1>6, <2>1 DEF Fits, Editable, DocumentsOf, Owned, Inner
  <2>. QED  BY <1>6, <2>1, <2>2 DEF Fits
<1>9. req' \in [Threads -> Request \cup {Idle}] /\ ReqInv'  BY <1>5, <1>6, <1>7, <1>8, RequestMoves
<1>10. StoreOK' /\ ValInv' /\ HistInv' /\ SolidInv' /\ ViewInv'
  <2>1. CASE SaveNode(t)
    <3>1. q.doc \in Nodes /\ PersistNode(q.doc) /\ q.pc = "persist_node"
      BY <1>2, <1>3, <2>1 DEF SaveNode, Fits
    <3>2. \A m \in Nodes : Unsaved(m) => m = q.doc  BY <1>2, <1>3 DEF OfRequest
    <3>3. \A d \in Docs : Dirty(d) => d \in {q.doc, Tree}  BY <1>2, <1>3 DEF OfDoc
    <3>. QED  BY <1>7, <3>1, <3>2, <3>3, AfterNodeSaved
  <2>2. CASE SaveTree(t)
    <3>1. PersistTree /\ q.pc = "persist_tree"  BY <1>3, <2>2 DEF SaveTree
    <3>2. \A n \in Nodes : ~Unsaved(n)  BY <1>2, <1>3, <3>1 DEF OfRequest
    <3>3. \A d \in Docs : Dirty(d) => d = Tree  BY <1>2, <1>3, <3>1 DEF OfDoc
    <3>. QED  BY <1>7, <3>1, <3>2, <3>3, AfterTreeSaved
  <2>. QED  BY <2>1, <2>2
<1>11. TypeOK'  BY <1>7, <1>9, <1>10, TypesAre DEF OthersOK, TypeOK
<1>. QED  BY <1>9, <1>10, <1>11

LEMMA RespondKeeps ==
    ASSUME Context, NEW t \in Threads, Respond(t)
    PROVE  Inv'
<1>. USE DEF Context, Inv
<1>1. req[t].pc = "respond" /\ req[t] # Idle  BY DEF Respond, Idle
<1>2. /\ req[t] \in Request
      /\ \A n \in Nodes : ~Unsaved(n)
      /\ \A d \in Docs : ~Dirty(d)
  BY <1>1, RequestAlone DEF OfRequest, OfDoc
<1>3. req' = [req EXCEPT ![t] = Idle] /\ UNCHANGED <<store, last, run, edits>>
      /\ view' = [view EXCEPT ![req[t].client] = Response(req[t].doc)]
  BY DEF Respond
<1>4. req[t].client \in Clients /\ req[t].doc \in Docs  BY <1>2, Zenon DEF Request
<1>5. Changes({})  BY <1>3, StandStill
<1>6. req' \in [Threads -> Request \cup {Idle}] /\ ReqInv'  BY <1>1, <1>3, RequestEnds
<1>7. view' \in [Clients -> Views \cup {None}] /\ ViewInv'
  <2>1. PICK c \in Clients, d \in Docs : c = req[t].client /\ d = req[t].doc  BY <1>4
  <2>. QED  BY <1>2, <1>3, <1>5, <2>1, ViewsMove
<1>8. ValInv' /\ HistInv'  BY <1>5, ChangesKeep
<1>9. SolidInv'  BY <1>2, <1>5, ChangesKeep DEF SolidInv
<1>10. TypeOK'  BY <1>3, <1>5, <1>6, <1>7, TypesAre, ChangesTyped DEF OthersOK, TypeOK
<1>. QED  BY <1>6, <1>7, <1>8, <1>9, <1>10

LEMMA ServeKeeps ==
    ASSUME Context, NEW t \in Threads, Serve(t)
    PROVE  Inv'
BY SnapshotKeeps, AcceptKeeps, RejectKeeps, UpdateKeeps, SaveKeeps, RespondKeeps DEF Serve
-------------------------------------------------------------------------------
(* The steps of a run.                                                         *)
LEMMA CallAt ==
    ASSUME NEW c \in Call, NEW pc \in RunPcs, NEW f \in BOOLEAN
    PROVE  /\ [c EXCEPT !.pc = pc] \in Call /\ [c EXCEPT !.pc = pc].pc = pc
           /\ [c EXCEPT !.pc = pc].node = c.node
           /\ [c EXCEPT !.pc = pc, !.failed = f] \in Call /\ [c EXCEPT !.pc = pc, !.failed = f].pc = pc
           /\ [c EXCEPT !.pc = pc, !.failed = f].node = c.node
BY DEF Call

\* What was saved of a node is read back: nothing changes.
LEMMA RefreshIsNothing ==
    ASSUME TypeOK, ValInv, NEW n \in Nodes, Solid(n), Refresh(n, saved[n]), UNCHANGED <<last, edits>>
    PROVE  Changes({})
<1>1. saved[n] = Snapshot(n) /\ n \in Docs /\ Inner(n) = {}  BY KeptIs DEF Solid, Docs
<1>2. Snapshot(n).rev = rev[n] /\ \A p \in Owned(n) : Snapshot(n).val[p] = val[p]
  BY <1>1, SnapshotIs
<1>3. rev' = rev /\ val' = val /\ UNCHANGED <<saved, history>>
  BY <1>1, <1>2 DEF Refresh, TypeOK
<1>. QED  BY <1>3, StandStill DEF store

\* A step of the one run there is that leaves every value and revision alone.
LEMMA RunKeeps ==
    ASSUME Context, NEW r \in Runners, run[r] # Off, Changes({}), UNCHANGED <<view, req>>,
           run[r].pc # "handler",
           \/ run' = [run EXCEPT ![r] = Off]
           \/ \E c \in Call : run' = [run EXCEPT ![r] = c]
    PROVE  Inv'
<1>. USE DEF Context, Inv
<1>1. run[r] \in Call /\ Busy = {} /\ \A n \in Nodes : ~Unsaved(n)  BY RunAlone DEF OfRun
<1>2. \A d \in Docs : ~Dirty(d)  BY <1>1 DEF Dirty
<1>3. run' \in [Runners -> Call \cup {Off}]  BY DEF TypeOK
<1>4. ReqInv'  BY <1>1 DEF ReqInv, Busy
<1>5. ValInv' /\ HistInv' /\ SolidInv' /\ ViewInv'  BY <1>1, <1>2, AfterChanges
<1>6. TypeOK'  BY <1>3, TypesAre, ChangesTyped DEF OthersOK, TypeOK
<1>. QED  BY <1>4, <1>5, <1>6

LEMMA BeginEndKeep ==
    ASSUME Context, NEW r \in Runners, BeginRun(r) \/ EndRun(r)
    PROVE  Inv'
<1>. USE DEF Context, Inv
<1>1. run[r].pc \in {"begin", "ended"} /\ run[r] # Off  BY DEF BeginRun, EndRun, Off
<1>2. run[r] \in Call  BY <1>1 DEF TypeOK
<1>3. Changes({}) /\ UNCHANGED <<view, req>>  BY StandStill DEF BeginRun, EndRun
<1>4. \/ run' = [run EXCEPT ![r] = Off]
      \/ \E c \in Call : run' = [run EXCEPT ![r] = c]
  <2>1. CASE EndRun(r)  BY <2>1 DEF EndRun
  <2>2. CASE BeginRun(r)
    <3>1. run' = [run EXCEPT ![r] = [run[r] EXCEPT !.pc = "element"]]  BY <2>2 DEF BeginRun, Step, TypeOK
    <3>2. [run[r] EXCEPT !.pc = "element"] \in Call  BY <1>2, CallAt DEF RunPcs
    <3>. QED  BY <3>1, <3>2
  <2>. QED  BY <2>1, <2>2
<1>. QED  BY <1>1, <1>3, <1>4, RunKeeps

LEMMA LoadKeeps ==
    ASSUME Context, NEW r \in Runners, LoadNode(r) \/ \E again \in BOOLEAN : Reload(r, again)
    PROVE  Inv'
<1>. USE DEF Context, Inv
<1>1. run[r].pc \in {"element", "reload"} /\ run[r] # Off  BY DEF LoadNode, Reload, Off
<1>2. run[r] \in Call /\ \A n \in Nodes : ~Unsaved(n)  BY <1>1, RunAlone DEF OfRun
<1>3. run[r].node \in Nodes  BY <1>2 DEF Call
<1>4. Solid(run[r].node)  BY <1>2, <1>3 DEF SolidInv
<1>5. Refresh(run[r].node, saved[run[r].node]) /\ UNCHANGED <<view, req, edits, last>>
  BY DEF LoadNode, Reload
<1>6. PICK n \in Nodes : n = run[r].node  BY <1>3
<1>7. Changes({})  BY <1>4, <1>5, <1>6, RefreshIsNothing
<1>8. \E pc \in RunPcs : run' = [run EXCEPT ![r].pc = pc]  BY DEF LoadNode, Reload, Step, RunPcs
<1>9. \E c \in Call : run' = [run EXCEPT ![r] = c]
  <2>1. PICK pc \in RunPcs : run' = [run EXCEPT ![r].pc = pc]  BY <1>8
  <2>2. run' = [run EXCEPT ![r] = [run[r] EXCEPT !.pc = pc]]  BY <2>1 DEF TypeOK
  <2>3. [run[r] EXCEPT !.pc = pc] \in Call  BY <1>2, CallAt
  <2>. QED  BY <2>2, <2>3
<1>. QED  BY <1>1, <1>5, <1>7, <1>9, RunKeeps

\* A handler writes an output of its node, which is not yet saved.
LEMMA HandlerKeeps ==
    ASSUME Context, NEW r \in Runners, NEW p \in Paths, HandlerWrites(r, p)
    PROVE  Inv'
<1>. USE DEF Context, Inv
<1>1. run[r].pc = "handler" /\ run[r] # Off /\ p \in Outputs[run[r].node]  BY DEF HandlerWrites, Off
<1>2. run[r] \in Call /\ Busy = {} /\ run[r].node \in Nodes
  BY <1>1, RunAlone DEF Call
<1>3. PICK m \in Nodes : m = run[r].node  BY <1>2
<1>4. Owner[p] = m /\ p \in Versioned
  <2>1. Owner[p] = m /\ m # Tree  BY <1>1, <1>3, KeptIs
  <2>. QED  BY <2>1 DEF Versioned
<1>5. UNCHANGED <<rev, saved, history, view, req, run>> /\ Write(p, edits + 1) /\ edits' = edits + 1
  BY DEF HandlerWrites
<1>6. Changes({p})
  <2>1. \A x \in Versioned : x \in Paths /\ val[x] \in Nat /\ val[x] = last[x] /\ val[x] <= edits
    BY DEF Versioned, ValInv, TypeOK
  <2>2. edits + 1 \in Nat /\ edits <= edits + 1 /\ edits \in Nat  BY DEF TypeOK
  <2>3. \A x \in Versioned : /\ val'[x] = last'[x] /\ val[x] <= val'[x] /\ val'[x] <= edits'
                             /\ x \notin {p} => val'[x] = val[x]
    BY <1>5, <2>1, <2>2 DEF Write, TypeOK
  <2>. QED  BY <1>5, <2>2, <2>3 DEF Changes, Write, TypeOK
<1>7. /\ \A n \in Nodes : Unsaved(n)' <=> Unsaved(n)
      /\ \A d \in Docs : Dirty(d)' <=> Dirty(d)
  BY <1>5 DEF Unsaved, Dirty, InRun, Busy
<1>8. Unsaved(m) /\ Dirty(m) /\ Dirty(Tree)
  BY <1>1, <1>3 DEF Unsaved, Dirty, InRun
<1>9. \A n \in Nodes : Owned(n) \cap {p} # {} => n = m  BY <1>4, KeptIs DEF Owned
<1>10. \A d \in Docs : Kept(d) \cap {p} # {} => d \in {m, Tree}  BY <1>9 DEF Kept, Docs
<1>11. ValInv' /\ HistInv' /\ SolidInv' /\ ViewInv'
  BY <1>5, <1>6, <1>7, <1>8, <1>9, <1>10, AfterChanges
<1>12. TypeOK'  BY <1>5, <1>6, TypesAre, ChangesTyped DEF OthersOK, TypeOK
<1>13. ReqInv'  BY <1>2, <1>5 DEF ReqInv, Busy
<1>. QED  BY <1>11, <1>12, <1>13

\* The node, and at the end the tree, is saved.
LEMMA RunSaveKeeps ==
    ASSUME Context, NEW r \in Runners,
           (\E raises \in BOOLEAN : HandlerEnds(r, raises)) \/ Finally(r) \/ SaveRunNode(r) \/ SaveRunTree(r)
    PROVE  Inv'
<1>. USE DEF Context, Inv
<1>1. run[r].pc \in {"handler", "finally", "save_node", "save_tree"} /\ run[r] # Off
  BY DEF HandlerEnds, Finally, SaveRunNode, SaveRunTree, Off
<1>2. /\ run[r] \in Call /\ Busy = {} /\ run[r].node \in Nodes
      /\ \A n \in Nodes : Unsaved(n) <=> OfRun(run[r], n)
      /\ \A d \in Docs : Dirty(d) <=> \E n \in Nodes : OfRun(run[r], n) /\ d \in {n, Tree}
  BY <1>1, RunAlone DEF Call
<1>3. PICK m \in Nodes : m = run[r].node  BY <1>2
<1>4. (\A n \in Nodes : Unsaved(n) => n = m) /\ (\A d \in Docs : Dirty(d) => d \in {m, Tree})
  BY <1>2, <1>3 DEF OfRun
<1>5. UNCHANGED <<view, req, edits, last>>
  BY DEF HandlerEnds, Finally, SaveRunNode, SaveRunTree
<1>6. StoreOK' /\ ValInv' /\ HistInv' /\ SolidInv' /\ ViewInv'
  <2>1. CASE SaveRunTree(r)
    <3>1. PersistTree /\ run[r].pc = "save_tree"  BY <2>1 DEF SaveRunTree
    <3>2. (\A n \in Nodes : ~Unsaved(n)) /\ (\A d \in Docs : Dirty(d) => d = Tree)
      BY <1>2, <3>1 DEF OfRun
    <3>. QED  BY <1>5, <3>1, <3>2, AfterTreeSaved
  <2>2. CASE ~SaveRunTree(r)
    <3>1. PersistNode(m)  BY <1>3, <2>2 DEF HandlerEnds, Finally, SaveRunNode
    <3>. QED  BY <1>4, <1>5, <3>1, AfterNodeSaved
  <2>. QED  BY <2>1, <2>2
<1>7. \E c \in Call : run' = [run EXCEPT ![r] = c]
  <2>1. PICK pc \in RunPcs, f \in BOOLEAN :
          \/ run' = [run EXCEPT ![r].pc = pc]
          \/ run' = [run EXCEPT ![r].pc = pc, ![r].failed = f]
    BY DEF HandlerEnds, Finally, SaveRunNode, SaveRunTree, Step, RunPcs
  <2>2. \/ run' = [run EXCEPT ![r] = [run[r] EXCEPT !.pc = pc]]
        \/ run' = [run EXCEPT ![r] = [run[r] EXCEPT !.pc = pc, !.failed = f]]
    BY <2>1 DEF TypeOK
  <2>3. [run[r] EXCEPT !.pc = pc] \in Call /\ [run[r] EXCEPT !.pc = pc, !.failed = f] \in Call
    BY <1>2, CallAt
  <2>. QED  BY <2>2, <2>3
<1>8. run' \in [Runners -> Call \cup {Off}]  BY <1>7 DEF TypeOK
<1>9. TypeOK'  BY <1>5, <1>6, <1>8, TypesAre DEF OthersOK, TypeOK
<1>10. ReqInv'  BY <1>2, <1>5 DEF ReqInv, Busy
<1>. QED  BY <1>6, <1>9, <1>10

LEMMA RunNodeKeeps ==
    ASSUME Context, NEW r \in Runners, RunNode(r)
    PROVE  Inv'
BY BeginEndKeep, LoadKeeps, HandlerKeeps, RunSaveKeeps DEF RunNode

\* The settings of a request have no revision.
LEMMA SettingsChange ==
    ASSUME TypeOK, ValInv, ApplySettings, UNCHANGED <<rev, saved, history>>
    PROVE  Changes({}) /\ edits <= edits'
<1>1. \A x \in Versioned : x \in Paths /\ val[x] \in Nat /\ val[x] = last[x] /\ val[x] <= edits
  BY DEF Versioned, ValInv, TypeOK
<1>2. edits + 1 \in Nat /\ edits <= edits + 1 /\ edits \in Nat /\ edits <= edits  BY DEF TypeOK
<1>3. CASE UNCHANGED <<val, last, edits>>  BY <1>2, <1>3, StandStill DEF store
<1>4. ASSUME NEW p \in Settings, Write(p, edits + 1), edits' = edits + 1
      PROVE  Changes({}) /\ edits <= edits'
  <2>1. \A x \in Versioned : val'[x] = val[x] /\ last'[x] = last[x]
    BY <1>1, <1>4 DEF Write, Versioned, TypeOK
  <2>2. val' \in [Paths -> Nat] /\ last' \in [Paths -> Nat]  BY <1>2, <1>4 DEF Write, TypeOK
  <2>3. \A x \in Versioned : val'[x] = last'[x] /\ val[x] <= val'[x] /\ val'[x] <= edits'
    BY <1>1, <1>2, <1>4, <2>1
  <2>. QED  BY <1>2, <1>4, <2>1, <2>2, <2>3 DEF Changes
<1>. QED  BY <1>3, <1>4 DEF ApplySettings

LEMMA StartKeeps ==
    ASSUME Context, NEW r \in Runners, NEW n \in Nodes, StartRun(r, n)
    PROVE  Inv'
<1>. USE DEF Context, Inv
<1>1. UNCHANGED <<view, req>> /\ Changes({})  BY SettingsChange DEF StartRun
<1>. DEFINE c == [pc |-> "begin", node |-> n, failed |-> FALSE]
<1>2. c \in Call  BY DEF Call, RunPcs
<1>3. run' = [run EXCEPT ![r] = c] /\ run[r] = Off  BY DEF StartRun
<1>. HIDE DEF c
<1>4. run' \in [Runners -> Call \cup {Off}] /\ ReqInv' /\ Busy = {}
  BY <1>1, <1>2, <1>3, RunMoves
<1>5. InRun = {}
  <2>1. InRun \subseteq InRun' /\ r \in InRun' /\ r \notin InRun
    BY <1>2, <1>3, CallPc DEF InRun, TypeOK
  <2>. QED  BY <2>1 DEF Alone
<1>6. (\A m \in Nodes : ~Unsaved(m)) /\ (\A d \in Docs : ~Dirty(d))  BY <1>4, <1>5 DEF Unsaved, Dirty
<1>7. ValInv' /\ HistInv' /\ SolidInv' /\ ViewInv'  BY <1>1, <1>6, AfterChanges
<1>8. TypeOK'  BY <1>1, <1>4, TypesAre, ChangesTyped DEF OthersOK, TypeOK
<1>. QED  BY <1>4, <1>7, <1>8

\* Nobody moves.
LEMMA StillKeeps ==
    ASSUME Inv, UNCHANGED <<view, req, run>>, Changes({}), edits <= edits'
    PROVE  Inv'
<1>. USE DEF Inv
<1>1. UNCHANGED <<view, req, run>> /\ Changes({}) /\ edits <= edits'  OBVIOUS
<1>2. /\ \A n \in Nodes : Unsaved(n)' <=> Unsaved(n)
      /\ \A d \in Docs : Dirty(d)' <=> Dirty(d)
  BY <1>1 DEF Unsaved, Dirty, InRun, Busy
<1>3. ValInv' /\ HistInv' /\ SolidInv' /\ ViewInv'  BY <1>1, <1>2, AfterChanges
<1>4. TypeOK'  BY <1>1, TypesAre, ChangesTyped DEF OthersOK, TypeOK
<1>5. ASSUME NEW t \in Busy PROVE Fits(req[t])'
  <2>1. req[t] \in Request /\ Fits(req[t]) /\ req'[t] = req[t]
    BY <1>1, <1>5 DEF ReqInv, Busy, TypeOK
  <2>2. PICK q \in Request : q = req[t]  BY <2>1
  <2>3. Fits(q)'  BY <1>1, <2>1, <2>2, FitsStays
  <2>. QED  BY <2>1, <2>2, <2>3
<1>6. ReqInv'  BY <1>1, <1>5 DEF ReqInv, Busy
<1>. QED  BY <1>3, <1>4, <1>6
-------------------------------------------------------------------------------
(* The theorems.                                                               *)
LEMMA InitInv == Init => Inv
<1>. SUFFICES ASSUME Init PROVE Inv  OBVIOUS
<1>1. Busy = {} /\ InRun = {}  BY DEF Init, Busy, InRun
<1>2. \A d \in Docs : Owned(d) \subseteq Paths /\ Inner(d) \subseteq Docs  BY DEF Owned, Inner, Docs
<1>3. \A d \in Docs : Snapshot(d) \in DocumentsOf(d) /\ Snapshot(d) \in Document
  <2>1. \A d \in Docs : Snapshot(d) \in DocumentsOf(d)
    BY <1>2 DEF Init, Snapshot, DocumentsOf
  <2>. QED  BY <2>1 DEF Document
<1>4. TypeOK  BY <1>3 DEF Init, TypeOK, Docs
<1>5. ValInv  BY DEF Init, ValInv, Versioned
<1>6. HistInv
  <2>. SUFFICES ASSUME NEW d \in Docs
                PROVE  /\ 0 \in Nat /\ 0 <= rev[d] /\ Snapshot(d) \in DocumentsOf(d)
                       /\ \A p \in Kept(d) : Snapshot(d).val[p] <= val[p]
    BY DEF Init, HistInv
  <2>1. \A p \in Kept(d) : Snapshot(d).val[p] = val[p] /\ val[p] \in Nat
    BY <1>4, SnapshotIs, KeptIs DEF TypeOK
  <2>2. rev[d] = 0  BY DEF Init
  <2>. QED  BY <1>3, <2>1, <2>2
<1>7. SolidInv  BY DEF Init, SolidInv, Solid, Docs
<1>8. ViewInv /\ ReqInv  BY <1>1 DEF Init, ViewInv, ReqInv
<1>. QED  BY <1>4, <1>5, <1>6, <1>7, <1>8 DEF Inv

LEMMA NextInv ==
    ASSUME Orderly
    PROVE  Inv /\ Alone /\ Alone' /\ [Next]_vars => Inv'
<1>. SUFFICES ASSUME Inv, Alone, Alone', [Next]_vars PROVE Inv'  OBVIOUS
<1>1. Context  BY DEF Context
<1>2. CASE UNCHANGED vars
  <2>1. UNCHANGED <<view, req, run>> /\ UNCHANGED <<store, edits, last>>  BY <1>2 DEF vars, store
  <2>2. Changes({})  BY <2>1, StandStill DEF Inv
  <2>3. edits <= edits'  BY <2>1 DEF Inv, TypeOK
  <2>. QED  BY <2>1, <2>2, <2>3, StillKeeps
<1>3. CASE RefuseRun
  <2>1. UNCHANGED <<view, req, run>> /\ Changes({}) /\ edits <= edits'
    BY <1>3, SettingsChange DEF RefuseRun, Inv
  <2>. QED  BY <2>1, StillKeeps
<1>4. CASE Next /\ ~RefuseRun
  BY <1>1, <1>4, GetKeeps, SendKeeps, ServeKeeps, StartKeeps, RunNodeKeeps DEF Next
<1>. QED  BY <1>2, <1>3, <1>4

LEMMA Inductive ==
    ASSUME Orderly
    PROVE  Spec /\ []Alone => []Inv
BY InitInv, NextInv, PTL DEF Spec

\* With nothing in progress nothing is unsaved.
LEMMA NothingUnsaved == Quiet => (\A n \in Nodes : ~Unsaved(n)) /\ (\A d \in Docs : ~Dirty(d))
BY DEF Quiet, Unsaved, Dirty

LEMMA ShowsAgrees ==
    ASSUME TypeOK, NEW d \in Docs, NEW b \in DocumentsOf(d), Shows(b, d)
    PROVE  Agree(b, Snapshot(d))
<1>1. b.nrev \in [Inner(d) -> Nat] /\ b.val \in [Owned(d) -> Nat]  BY Zenon DEF DocumentsOf
<1>2. b.nrev = Snapshot(d).nrev  BY <1>1 DEF Shows, Snapshot
<1>3. \A p \in Owned(d) : Snapshot(d).val[p] = val[p]  BY SnapshotIs
<1>4. DiffPaths(b, Snapshot(d)) \cap Versioned = {}
  BY <1>1, <1>3 DEF DiffPaths, Shows, Kept, Versioned
<1>. QED  BY <1>2, <1>4 DEF Agree

\* No edit is undone by another, a client's or a handler's, whatever they edit
\* and through whichever route, as long as they do not overlap.
THEOREM NoEditIsLost ==
    ASSUME Orderly
    PROVE  Spec /\ []Alone => []NoLostUpdate
<1>1. Inv => NoLostUpdate  BY DEF Inv, ValInv, NoLostUpdate
<1>. QED  BY <1>1, Inductive, PTL

\* An ETag that is still the document's revision stands for the document as it
\* is, though the client may have polled in the middle of a run.
THEOREM EtagMeansCurrent ==
    ASSUME Orderly
    PROVE  Spec /\ []Alone => []EtagIsFresh
<1>1. ASSUME Inv, Quiet, NEW c \in Clients, view[c] # None, view[c].body.rev = rev[view[c].doc]
      PROVE  Agree(view[c].body, Snapshot(view[c].doc))
  <2>1. view[c].doc \in Docs /\ view[c].body \in DocumentsOf(view[c].doc)
    BY <1>1 DEF Inv, TypeOK, ViewInv, Views, Past
  <2>2. Shows(view[c].body, view[c].doc)
    BY <1>1, <2>1, NothingUnsaved DEF Inv, ViewInv, Current
  <2>. QED  BY <1>1, <2>1, <2>2, ShowsAgrees DEF Inv
<1>2. Inv => EtagIsFresh  BY <1>1 DEF EtagIsFresh
<1>. QED  BY <1>2, Inductive, PTL

\* What a run will load of a node, and a merge compare with, is the node as it
\* stands.
THEOREM SavedStaysCurrent ==
    ASSUME Orderly
    PROVE  Spec /\ []Alone => []SavedIsCurrent
<1>1. Inv => SavedIsCurrent  BY NothingUnsaved DEF Inv, SolidInv, Solid, SavedIsCurrent
<1>. QED  BY <1>1, Inductive, PTL

\* An accepted request replaces the value that its client saw, also when it is
\* merged into a later revision: values between the client's revision and the
\* present one are equal at both ends only if they never changed.
THEOREM ReplacesOnlyWhatItSaw ==
    ASSUME Orderly
    PROVE  Spec /\ []Alone => ReplacesWhatItSaw
<1>1. ASSUME Inv, NEW t \in Threads, Update(t), req[t].expected # None, req[t].path \in Versioned
      PROVE  val[req[t].path] = req[t].seen
  <2>1. req[t].pc = "update" /\ t \in Busy  BY <1>1 DEF Update, Busy, Idle
  <2>2. Fits(req[t])  BY <1>1, <2>1 DEF Inv, ReqInv
  <2>. QED  BY <1>1, <2>1, <2>2 DEF Fits
<1>2. Inv => [\A t \in Threads : (Update(t) /\ req[t].expected # None /\ req[t].path \in Versioned)
                                   => val[req[t].path] = req[t].seen]_vars
  BY <1>1
<1>. QED  BY <1>2, Inductive, PTL DEF ReplacesWhatItSaw

\* With room for one request or run in progress, none overlap.
THEOREM OneAtATime ==
    ASSUME MaxActive = 1
    PROVE  Spec => []Alone
<1>. DEFINE J == Alone /\ DOMAIN req = Threads /\ DOMAIN run = Runners
<1>1. Init => J  BY DEF Init, Alone, Busy, InRun
<1>2. HasRoom => Busy = {} /\ InRun = {}
  <2>1. Busy \subseteq Threads /\ InRun \subseteq Runners  BY DEF Busy, InRun
  <2>2. IsFiniteSet(Busy) /\ IsFiniteSet(InRun)  BY <2>1, FS_Subset
  <2>3. Cardinality(Busy) \in Nat /\ Cardinality(InRun) \in Nat  BY <2>2, FS_CardinalityType
  <2>4. HasRoom => Cardinality(Busy) = 0 /\ Cardinality(InRun) = 0  BY <2>3 DEF HasRoom
  <2>. QED  BY <2>2, <2>4, FS_EmptySet
<1>3. ASSUME J, Busy' \subseteq Busy, InRun' \subseteq InRun PROVE Alone'
  BY <1>3 DEF Alone
<1>4. ASSUME J, [Next]_vars PROVE J'
  <2>1. CASE UNCHANGED vars  BY <1>4, <2>1 DEF vars, Alone, Busy, InRun
  <2>2. ASSUME NEW c \in Clients, NEW d \in Docs, Get(c, d) PROVE J'
    BY <1>4, <2>2 DEF Get, Alone, Busy, InRun
  <2>3. CASE RefuseRun  BY <1>4, <2>3 DEF RefuseRun, Alone, Busy, InRun
  <2>4. ASSUME NEW t \in Threads, NEW c \in Clients, NEW verb \in Verbs, NEW p \in Paths,
               NEW conditional \in BOOLEAN, NEW merge \in BOOLEAN, Send(t, c, verb, p, conditional, merge)
        PROVE  J'
    <3>1. Busy = {} /\ InRun = {}  BY <1>2, <2>4 DEF Send
    <3>2. \E q : req' = [req EXCEPT ![t] = q] /\ run' = run  BY <2>4 DEF Send
    <3>3. DOMAIN req' = Threads /\ DOMAIN run' = Runners /\ InRun' = {}
      BY <1>4, <3>1, <3>2 DEF InRun
    <3>4. \A u \in Threads : u # t => req'[u] = Idle  BY <1>4, <3>1, <3>2 DEF Busy
    <3>. QED  BY <3>3, <3>4 DEF Alone, Busy
  <2>5. ASSUME NEW r \in Runners, NEW n \in Nodes, StartRun(r, n) PROVE J'
    <3>1. Busy = {} /\ InRun = {}  BY <1>2, <2>5 DEF StartRun
    <3>2. \E c : run' = [run EXCEPT ![r] = c] /\ req' = req  BY <2>5 DEF StartRun
    <3>3. DOMAIN req' = Threads /\ DOMAIN run' = Runners /\ Busy' = {}
      BY <1>4, <3>1, <3>2 DEF Busy
    <3>4. \A u \in Runners : u # r => run'[u] = Off  BY <1>4, <3>1, <3>2 DEF InRun
    <3>. QED  BY <3>3, <3>4 DEF Alone, InRun
  <2>6. ASSUME NEW t \in Threads, Serve(t) PROVE J'
    <3>1. req[t] # Idle
      BY <2>6 DEF Serve, TakeSnapshot, Accept, Reject, Update, SaveNode, SaveTree, Respond, Idle
    <3>2. run' = run
      BY <2>6 DEF Serve, TakeSnapshot, Accept, Reject, Update, SaveNode, SaveTree, Respond
    <3>3. DOMAIN req' = Threads /\ \A u \in Threads : u # t => req'[u] = req[u]
      BY <1>4, <2>6
         DEF Serve, TakeSnapshot, Accept, Reject, Update, SaveNode, SaveTree, Respond, Advance
    <3>4. Busy' \subseteq Busy /\ InRun' = InRun  BY <3>1, <3>2, <3>3 DEF Busy, InRun
    <3>. QED  BY <1>3, <1>4, <3>2, <3>3, <3>4
  <2>7. ASSUME NEW r \in Runners, RunNode(r) PROVE J'
    <3>1. run[r] # Off
      BY <2>7 DEF RunNode, BeginRun, LoadNode, Finally, SaveRunNode, SaveRunTree, EndRun,
         HandlerWrites, HandlerEnds, Reload, Off
    <3>2. req' = req
      BY <2>7 DEF RunNode, BeginRun, LoadNode, Finally, SaveRunNode, SaveRunTree, EndRun,
         HandlerWrites, HandlerEnds, Reload
    <3>3. DOMAIN run' = Runners /\ \A u \in Runners : u # r => run'[u] = run[u]
      BY <1>4, <2>7
         DEF RunNode, BeginRun, LoadNode, Finally, SaveRunNode, SaveRunTree, EndRun,
             HandlerWrites, HandlerEnds, Reload, Step
    <3>4. InRun' \subseteq InRun /\ Busy' = Busy  BY <3>1, <3>2, <3>3 DEF Busy, InRun
    <3>. QED  BY <1>3, <1>4, <3>2, <3>3, <3>4
  <2>. QED  BY <1>4, <2>1, <2>2, <2>3, <2>4, <2>5, <2>6, <2>7 DEF Next
<1>5. J => Alone  OBVIOUS
<1>. HIDE DEF J
<1>. QED  BY <1>1, <1>4, <1>5, PTL DEF Spec
===============================================================================
