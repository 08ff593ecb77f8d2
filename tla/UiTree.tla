-------------------------------- MODULE UiTree --------------------------------
(* What the layouts of the two drawing prototypes share: rectangles on a       *)
(* screen of Cols by Rows cells, and nodes kept in an ordered dictionary, each *)
(* with a rectangle and the id of its parent.  A document d has d.root,        *)
(* d.order, d.at[id] and d.parent[id].                                         *)
EXTENDS Integers, Sequences, FiniteSets
LOCAL INSTANCE SequencesExt
LOCAL INSTANCE Functions

CONSTANTS
    Cols, Rows,
    Null,       \* no parent, no selection
    Refused,    \* the error a route turns into a 400
    Raised      \* any other exception: the route answers 500

ASSUME ScreenAssumption == Cols \in Nat \ {0} /\ Rows \in Nat \ {0}

Rect(x, y, w, h) == [x |-> x, y |-> y, w |-> w, h |-> h]
Right(r) == r.x + r.w
Bottom(r) == r.y + r.h
Shift(r, dx, dy) == [r EXCEPT !.x = @ + dx, !.y = @ + dy]
Encloses(outer, inner) ==
    /\ outer.x <= inner.x /\ outer.y <= inner.y
    /\ Right(outer) >= Right(inner) /\ Bottom(outer) >= Bottom(inner)
OnScreen(r) == r.x >= 0 /\ r.y >= 0 /\ Right(r) <= Cols /\ Bottom(r) <= Rows

NodesOf(d) == Range(d.order)

\* The children of a node are the nodes that name it, in dictionary order.
ChildrenOf(d, id) == SelectSeq(d.order, LAMBDA i : d.parent[i] = id)

\* A dictionary with one key renamed, and with some keys dropped.
Rekeyed(f, old, new) ==
    [i \in (DOMAIN f \ {old}) \cup {new} |-> IF i = new THEN f[old] ELSE f[i]]
Without(f, ids) == [i \in DOMAIN f \ ids |-> f[i]]

\* The ids of the subtree of id, and whether walking it down ever ends.
RECURSIVE Below(_, _)
Below(children, ids) ==
    LET wider == ids \cup UNION {Range(children[i]) : i \in ids}
    IN  IF wider = ids THEN ids ELSE Below(children, wider)
Endless(children, id) ==
    \E i \in Below(children, {id}) : i \in Below(children, Range(children[i]))

\* The node and all it lies in; a chain of parents may run into a cycle.
RECURSIVE Above(_, _)
Above(d, ids) ==
    LET wider == ids \cup {d.parent[i] : i \in {j \in ids : d.parent[j] # Null}}
    IN  IF wider = ids THEN ids ELSE Above(d, wider)

Covers(r, x, y) == r.x <= x /\ x < Right(r) /\ r.y <= y /\ y < Bottom(r)
Area(r) == r.w * r.h
\* The smallest of some nodes, the deepest of those, any of the rest.
Picked(d, hits, depth) ==
    IF hits = {} THEN Null
    ELSE CHOOSE i \in hits : \A j \in hits :
             \/ Area(d.at[i]) < Area(d.at[j])
             \/ Area(d.at[i]) = Area(d.at[j]) /\ depth[i] >= depth[j]
===============================================================================
