------------------------------- MODULE UiLayout -------------------------------
(* The layout editor of /api/ui-proto: the patch engine and its validation,    *)
(* snapping, the console language, and the files a layout is kept in.  Kinds,  *)
(* roles, bindings and the rest of a node's metadata stand for one title and   *)
(* one mapping.                                                                *)
EXTENDS UiTree
LOCAL INSTANCE SequencesExt
LOCAL INSTANCE FiniteSetsExt
LOCAL INSTANCE Functions
LOCAL INSTANCE TLC

\* NodeMeta(): what a node without a file has.
NoMeta == [title |-> "", data |-> {}]

-------------------------------------------------------------------------------
(* The engine: an operation gives the next document or Refused.                *)

Valid(d) ==
    /\ d.root \in NodesOf(d)
    /\ \A i \in NodesOf(d) :
          /\ d.at[i].w > 0 /\ d.at[i].h > 0 /\ OnScreen(d.at[i])
          /\ d.parent[i] # Null => /\ d.parent[i] \in NodesOf(d)
                                   /\ Encloses(d.at[d.parent[i]], d.at[i])
          /\ Range(d.children[i]) \subseteq NodesOf(d)

AddNode(d, op) ==
    IF op.id \in NodesOf(d) \/ op.parent \notin NodesOf(d) THEN Refused
    ELSE [d EXCEPT !.order = Append(@, op.id),
                   !.at = op.id :> op.rect @@ @,
                   !.parent = op.id :> op.parent @@ @,
                   !.children = op.id :> << >> @@ [@ EXCEPT ![op.parent] = Append(@, op.id)],
                   !.meta = op.id :> NoMeta @@ @]

RemoveNode(d, op) ==
    LET gone == IF op.subtree THEN Below(d.children, {op.id}) ELSE {op.id}
        Kept(s) == SelectSeq(s, LAMBDA i : i \notin gone)
    IN  IF op.id \notin NodesOf(d) \/ op.id = d.root
           \/ (d.children[op.id] # << >> /\ ~op.subtree)
        THEN Refused
        ELSE [d EXCEPT !.order = Kept(@),
                       !.at = Without(@, gone),
                       !.parent = Without(@, gone),
                       !.children = [i \in DOMAIN @ \ gone |->
                                       IF i = d.parent[op.id] THEN Kept(@[i]) ELSE @[i]],
                       !.meta = Without(@, gone)]

MoveNode(d, op) ==
    IF op.id \notin NodesOf(d) THEN Refused
    ELSE [d EXCEPT !.at = [i \in DOMAIN @ |-> IF i \in Below(d.children, {op.id})
                                              THEN Shift(@[i], op.dx, op.dy) ELSE @[i]]]

SetRect(d, op) ==
    IF op.id \notin NodesOf(d) THEN Refused ELSE [d EXCEPT !.at[op.id] = op.rect]

ResizeNode(d, op) ==
    IF op.id \notin NodesOf(d) THEN Refused
    ELSE [d EXCEPT !.at[op.id] = [@ EXCEPT !.w = @ + op.dw, !.h = @ + op.dh]]

\* The new id goes to the end of the dictionary.
RenameNode(d, op) ==
    LET New(i) == IF i = op.id THEN op.new ELSE i
    IN  IF op.new \in NodesOf(d) \/ op.id \notin NodesOf(d) THEN Refused
        ELSE [d EXCEPT !.root = New(@),
                       !.order = Append(SelectSeq(@, LAMBDA i : i # op.id), op.new),
                       !.at = Rekeyed(@, op.id, op.new),
                       !.parent = [i \in DOMAIN Rekeyed(@, op.id, op.new) |->
                                     New(Rekeyed(@, op.id, op.new)[i])],
                       !.children = [i \in DOMAIN Rekeyed(@, op.id, op.new) |->
                                       LET c == Rekeyed(@, op.id, op.new)[i]
                                       IN  [n \in DOMAIN c |-> New(c[n])]],
                       !.meta = Rekeyed(@, op.id, op.new)]

\* Scalars are replaced and mappings merged: a patch takes no single key out,
\* but a null for the mapping empties it.
Merged(meta, patch) ==
    [title |-> IF patch.title = Null THEN meta.title ELSE patch.title,
     data  |-> IF patch.data = Null THEN {} ELSE meta.data \cup patch.data]
UpdateMeta(d, op) ==
    IF op.id \notin NodesOf(d) \/ ~op.patch.mapping THEN Refused
    ELSE [d EXCEPT !.meta[op.id] = Merged(@, op.patch)]

\* apply_patch_ops with the one operation a route gives it.
ApplyOp(d, op) ==
    LET next == CASE op.op = "add"    -> AddNode(d, op)
                  [] op.op = "remove" -> RemoveNode(d, op)
                  [] op.op = "move"   -> MoveNode(d, op)
                  [] op.op = "resize" -> ResizeNode(d, op)
                  [] op.op = "rect"   -> SetRect(d, op)
                  [] op.op = "rename" -> RenameNode(d, op)
                  [] op.op = "meta"   -> UpdateMeta(d, op)
    IN  IF next = Refused \/ ~Valid(next) THEN Refused ELSE next

-------------------------------------------------------------------------------
(* Snapping, for the rectangles the mouse draws.                               *)

Near(a, b) == a - b \in -1..1
Overlap(a, aEnd, b, bEnd) == Min({aEnd, bEnd}) - Max({a, b})
SnapIf(r, field, near, value) == IF near THEN [r EXCEPT ![field] = value] ELSE r

\* Each side is tried against the rectangle the sides before it left.
SnapToParent(r, p) ==
    LET left   == SnapIf(r, "x", Near(r.x, p.x), p.x)
        top    == SnapIf(left, "y", Near(left.y, p.y), p.y)
        right  == SnapIf(top, "x", Near(Right(top), Right(p)), Right(p) - r.w)
    IN  SnapIf(right, "y", Near(Bottom(right), Bottom(p)), Bottom(p) - r.h)

SnapToSibling(r, s) ==
    LET beside == Overlap(r.y, Bottom(r), s.y, Bottom(s)) >= 1
        above  == Overlap(r.x, Right(r), s.x, Right(s)) >= 1
        left   == SnapIf(r, "x", beside /\ Near(r.x, Right(s)), Right(s))
        right  == SnapIf(left, "x", beside /\ Near(Right(left), s.x), s.x - r.w)
        top    == SnapIf(right, "y", above /\ Near(right.y, Bottom(s)), Bottom(s))
    IN  SnapIf(top, "y", above /\ Near(Bottom(top), s.y), s.y - r.h)

Snapped(d, id, parent, rect) ==
    IF parent \notin NodesOf(d) THEN rect
    ELSE FoldLeft(LAMBDA r, s : SnapToSibling(r, d.at[s]),
                  SnapToParent(rect, d.at[parent]),
                  SelectSeq(d.children[parent], LAMBDA s : s # id))

-------------------------------------------------------------------------------
(* Requests.  A client draws and types in the coordinates of its focus.        *)

Focus(d, request) == IF request.focus \in NodesOf(d) THEN request.focus ELSE d.root
Global(d, request) == Shift(request.rect, d.at[Focus(d, request)].x, d.at[Focus(d, request)].y)

\* The operation a request stands for, Refused, or Null when it edits nothing.
GuiOp(d, request) ==
    LET sel == request.selected
        parent == IF request.action = "create" THEN (IF sel = Null THEN Focus(d, request) ELSE sel)
                  ELSE d.parent[sel]
        rect == Snapped(d, sel, parent, Global(d, request))
    IN  IF sel \notin NodesOf(d) /\ (request.action # "create" \/ sel # Null) THEN Refused
        ELSE CASE request.action = "move" ->
                    [op |-> "move", id |-> sel, dx |-> rect.x - d.at[sel].x,
                                                dy |-> rect.y - d.at[sel].y]
               [] request.action = "resize" -> [op |-> "rect", id |-> sel, rect |-> rect]
               [] request.action = "create" ->
                    [op |-> "add", id |-> request.id, parent |-> parent,
                     rect |-> Snapped(d, Null, parent, Global(d, request))]

\* A console line acts on the selected node.
ConsoleOp(d, request) ==
    LET sel == request.selected
        word == request.action
    IN  IF sel \notin NodesOf(d) THEN Refused
        ELSE CASE word = "add" ->
                    IF request.id \in NodesOf(d) \/ request.rect.w <= 0 \/ request.rect.h <= 0
                    THEN Refused
                    ELSE [op |-> "add", id |-> request.id, parent |-> sel,
                          rect |-> Global(d, request)]
               [] word = "shift"  -> [op |-> "move", id |-> sel,
                                      dx |-> request.dx, dy |-> request.dy]
               [] word = "grow"   -> [op |-> "resize", id |-> sel,
                                      dw |-> request.dx, dh |-> request.dy]
               [] word = "rename" -> [op |-> "rename", id |-> sel, new |-> request.id]
               [] word = "delete" -> [op |-> "remove", id |-> sel, subtree |-> request.subtree]
               [] word = "set"    -> [op |-> "meta", id |-> sel, patch |-> request.patch]

\* The meta panel sends every field of the node.
MetaOp(d, request) ==
    IF request.selected \notin NodesOf(d) \/ ~request.patch.mapping \/ request.patch.title = Null
    THEN Refused
    ELSE [op |-> "meta", id |-> request.selected, patch |-> request.patch]

OpOf(d, request) ==
    CASE request.route = "gui-action" -> GuiOp(d, request)
      [] request.route = "command"    -> ConsoleOp(d, request)
      [] request.route = "meta"       -> MetaOp(d, request)
HandleLayout(d, request) == ApplyOp(d, OpOf(d, request))

\* Faulty: of two that coincide the outer one.
PickOuter(d, focus, x, y) ==
    LET at == d.at[focus]
        hits == {i \in NodesOf(d) \ {d.root} : Covers(d.at[i], at.x + x, at.y + y)}
    IN  Picked(d, hits, [i \in hits |-> -Cardinality(Above(d, {i}))])

\* A click never picks the screen, and looks at the whole of it.
PickLayout(d, focus, x, y) ==
    LET at == d.at[focus]
        hits == {i \in NodesOf(d) \ {d.root} : Covers(d.at[i], at.x + x, at.y + y)}
    IN  Picked(d, hits, [i \in hits |-> Cardinality(Above(d, {i}))])

-------------------------------------------------------------------------------
(* Files: "layout" holds the nodes with rectangle and parent, and every node   *)
(* has a file of its own.                                                      *)

\* Depth first from the root, then what the root does not reach.
RECURSIVE Visited(_, _, _)
Visited(d, seen, todo) ==
    IF todo = << >> THEN seen
    ELSE IF Head(todo) \in Range(seen) THEN Visited(d, seen, Tail(todo))
    ELSE Visited(d, Append(seen, Head(todo)), d.children[Head(todo)] \o Tail(todo))
\* Faulty: in the order of the dictionary.
DictOrder(d) == d.order
SaveOrder(d) == Visited(d, << >>, <<d.root>> \o SetToSeq(NodesOf(d)))

\* The file names a save opens or unlinks in turn, and what it writes.
LayoutWrites(d, files) ==
    <<[name |-> "layout",
       to |-> [root |-> d.root, order |-> SaveOrder(d), at |-> d.at, parent |-> d.parent]]>>
    \o SetToSeq({[name |-> i, to |-> Null] : i \in DOMAIN files \ (NodesOf(d) \cup {"layout"})})
    \o [n \in DOMAIN d.order |-> [name |-> SaveOrder(d)[n], to |-> d.meta[SaveOrder(d)[n]]]]

\* A file cut off by a crash is empty: no layout, or the defaults of a node.
LoadLayout(files, torn) ==
    LET raw == files["layout"]
        meta == [i \in Range(raw.order) |->
                   IF i \in DOMAIN files /\ files[i] # torn THEN files[i] ELSE NoMeta]
        d == [raw EXCEPT !.root = @] @@ [meta |-> meta] @@
             [children |-> [i \in Range(raw.order) |-> ChildrenOf(raw, i)]]
    IN  IF raw = torn THEN Raised ELSE IF Valid(d) THEN d ELSE Raised
===============================================================================
