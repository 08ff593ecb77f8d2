------------------------------ MODULE UiProject -------------------------------
(* The drawing editor of /api/ui-proto2: boxes over a grid of text, edited in  *)
(* place, with the YAML of a node as one of the edits.  Names, aliases and     *)
(* metadata of a node are left out; the event script is an uninterpreted value.*)
EXTENDS UiTree
LOCAL INSTANCE SequencesExt
LOCAL INSTANCE TLC

CONSTANTS Blank   \* an empty cell of the text

Cells == (0..Cols - 1) \X (0..Rows - 1)
CellsIn(r) == {c \in Cells : /\ r.x <= c[1] /\ c[1] < Right(r)
                             /\ r.y <= c[2] /\ c[2] < Bottom(r)}
NoText == [c \in Cells |-> Blank]

\* normalize_project: children are read off the parents.
Children(p) == [i \in NodesOf(p) |-> ChildrenOf(p, i)]

\* validate_project: a rectangle the YAML left out is Null.
ValidProject(p) ==
    /\ p.root \in NodesOf(p)
    /\ \A i \in NodesOf(p) :
          /\ p.at[i] # Null
          /\ p.at[i].w > 0 /\ p.at[i].h > 0 /\ OnScreen(p.at[i])
          /\ p.parent[i] # Null => /\ p.parent[i] \in NodesOf(p)
                                   /\ p.at[p.parent[i]] # Null
                                   /\ Encloses(p.at[p.parent[i]], p.at[i])
Checked(p) == IF ValidProject(p) THEN p ELSE Refused

\* Faulty: what was drawn is cleared with the block.
ClearLast(text, r, dx, dy) ==
    LET From(c) == <<c[1] - dx, c[2] - dy>>
    IN  [c \in Cells |-> IF c \in CellsIn(r) THEN Blank
                         ELSE IF From(c) \in CellsIn(r) /\ text[From(c)] # Blank
                         THEN text[From(c)] ELSE text[c]]

\* shift_text_block: the block is copied, cleared and drawn again; blanks of
\* the block do not erase what they land on.
ShiftText(text, r, dx, dy) ==
    LET block == CellsIn(r)
        From(c) == <<c[1] - dx, c[2] - dy>>
        drawn == {c \in Cells : From(c) \in block /\ text[From(c)] # Blank}
    IN  [c \in Cells |-> CASE c \in drawn -> text[From(c)]
                           [] c \in block \ drawn -> Blank
                           [] OTHER -> text[c]]

\* A walk down a cycle of parents never returns.
Box(p, id, rect) ==
    IF id \notin NodesOf(p) \/ Endless(Children(p), id) THEN Raised
    ELSE LET dx == rect.x - p.at[id].x
             dy == rect.y - p.at[id].y
             moved == Below(Children(p), {id})
         IN  Checked([p EXCEPT !.text = ShiftText(@, p.at[id], dx, dy),
                               !.at = [i \in DOMAIN @ |-> IF i \in moved
                                         THEN Shift(@[i], dx, dy) ELSE @[i]]])

Resize(p, id, rect) ==
    IF id \notin NodesOf(p) THEN Raised ELSE Checked([p EXCEPT !.at[id] = rect])

Add(p, parent, id, rect) ==
    IF id \in NodesOf(p) THEN Refused
    ELSE Checked([p EXCEPT !.order = Append(@, id), !.at = id :> rect @@ @,
                           !.parent = id :> parent @@ @])

Delete(p, id, subtree) ==
    CASE id \notin NodesOf(p) \/ id = p.root -> Refused
      [] subtree /\ Endless(Children(p), id) -> Raised
      [] ~subtree /\ ChildrenOf(p, id) # << >> -> Refused
      [] OTHER ->
           LET gone == IF subtree THEN Below(Children(p), {id}) ELSE {id}
           IN  Checked([p EXCEPT !.order = SelectSeq(@, LAMBDA i : i \notin gone),
                                 !.at = Without(@, gone), !.parent = Without(@, gone)])

\* replace_node_from_yaml: an id the project lacks replaces nothing; a parent
\* the text leaves out is kept, one it gives is taken as it stands.
ReplaceNode(p, id, yaml) ==
    IF yaml.malformed THEN Refused
    ELSE IF id \notin NodesOf(p) THEN Checked(p)
    ELSE Checked([p EXCEPT !.at[id] = yaml.rect,
                           !.parent[id] = IF yaml.keeps THEN @ ELSE yaml.parent])

-------------------------------------------------------------------------------
(* Requests.                                                                   *)

FocusIn(p, request) == IF request.focus \in NodesOf(p) THEN request.focus ELSE p.root
GlobalIn(p, request) == Shift(request.rect, p.at[FocusIn(p, request)].x,
                                            p.at[FocusIn(p, request)].y)
OrFocus(p, request) == IF request.selected = Null THEN FocusIn(p, request) ELSE request.selected

\* next_id: the kind itself, or the first of its numbered names that is free.
FreshId(p, names) ==
    names[CHOOSE n \in DOMAIN names : /\ names[n] \notin NodesOf(p)
                                      /\ \A m \in 1..n - 1 : names[m] \in NodesOf(p)]

GuiAction(p, request) ==
    LET rect == GlobalIn(p, request)
    IN  CASE request.action = "move"   -> Box(p, OrFocus(p, request), rect)
          [] request.action = "resize" -> Resize(p, OrFocus(p, request), rect)
          [] request.action = "create" ->
               Add(p, OrFocus(p, request), FreshId(p, request.names), rect)

Command(p, request) ==
    CASE request.action = "select" -> IF request.id \in NodesOf(p) THEN p ELSE Refused
      [] request.action = "delete" ->
           IF request.selected = Null THEN Refused
           ELSE Delete(p, request.selected, request.subtree)
      [] request.action = "add" ->
           CASE request.rect = Raised  -> Raised   \* the rectangle is not YAML
             [] OTHER -> Add(p, OrFocus(p, request), request.id, GlobalIn(p, request))

HandleProject(p, request) ==
    CASE request.route = "gui-action" -> GuiAction(p, request)
      [] request.route = "command"    -> Command(p, request)
      [] request.route = "node/save"  -> ReplaceNode(p, request.selected, request.yaml)
      [] request.route = "files/save" -> [p EXCEPT !.text = request.text,
                                                   !.events = request.events]

\* A click picks a node of the focused subtree.  Climbing a cycle of parents
\* that misses the focus never ends; neither does drawing a tree in a cycle.
PickIn(p, focus, x, y) ==
    LET at == p.at[focus]
        Up(i) == Above(p, {i})
        Cyclic(i) == p.parent[i] # Null /\ i \in Up(p.parent[i])
        hits == {i \in NodesOf(p) : focus \in Up(i) /\ Covers(p.at[i], at.x + x, at.y + y)}
        endless == \/ \E i \in NodesOf(p) : focus \notin Up(i) /\ \E k \in Up(i) : Cyclic(k)
                   \/ hits # {} /\ Endless(Children(p), focus)
    IN  IF endless THEN Raised ELSE Picked(p, hits, [i \in hits |-> Cardinality(Up(i))])

-------------------------------------------------------------------------------
(* Files.                                                                      *)

\* build_base_json: what stands inside each box.
BaseJson(p) == [i \in NodesOf(p) |-> [c \in CellsIn(p.at[i]) |-> p.text[c]]]

\* save_project normalizes and validates again, then writes four files.
ProjectWrites(p) ==
    <<[name |-> "aabb", to |-> [root |-> p.root, order |-> p.order,
                                at |-> p.at, parent |-> p.parent]],
      [name |-> "base", to |-> p.text],
      [name |-> "json", to |-> BaseJson(p)],
      [name |-> "events", to |-> p.events]>>

\* A text file that is missing, or cut off by a crash, reads as no text.
LoadProject(files, torn) ==
    LET TextOf(name, empty) ==
            IF name \notin DOMAIN files \/ files[name] = torn THEN empty ELSE files[name]
        p == files["aabb"] @@ [text |-> TextOf("base", NoText)]
                           @@ [events |-> TextOf("events", Null)]
    IN  IF files["aabb"] = torn \/ ~ValidProject(p) THEN Raised ELSE p
===============================================================================
