------------------------------- MODULE UiPanels -------------------------------
(* The panel model of ui_proto_panels.py, which no route uses yet: panels that *)
(* place other panels, zones inside a panel, and operations on the tree.       *)
(* Labels, borders, actions and templates are left out; the text of a panel is *)
(* the set of its cells that are not blank.                                    *)
EXTENDS UiTree
LOCAL INSTANCE SequencesExt
LOCAL INSTANCE FiniteSetsExt
LOCAL INSTANCE Functions
LOCAL INSTANCE TLC

PanelsOf(p) == DOMAIN p.size
Placed(p) == [i \in PanelsOf(p) |-> [n \in DOMAIN p.children[i] |-> p.children[i][n].panel]]

\* validate_project: no word about cycles or about a panel placed twice.
ValidPanels(p) ==
    /\ p.root \in PanelsOf(p)
    /\ \A i \in PanelsOf(p) :
          /\ p.size[i][1] > 0 /\ p.size[i][2] > 0
          /\ \A child \in Range(p.children[i]) :
                /\ child.panel \in PanelsOf(p)
                /\ child.at[1] >= 0 /\ child.at[2] >= 0
Accepted(p) == IF ValidPanels(p) THEN p ELSE Refused

\* find_parent_panel_with_index: the first panel, in the order of the
\* dictionary, that places id, and where.
ParentOf(p, id) ==
    LET placing == SelectSeq(p.order, LAMBDA i : id \in Range(Placed(p)[i]))
    IN  IF placing = << >> THEN Null ELSE Head(placing)
PlaceOf(p, id) == Min({n \in DOMAIN p.children[ParentOf(p, id)] :
                         p.children[ParentOf(p, id)][n].panel = id})

\* The file of zones may name panels that are gone, and leave panels out.
ZonesIn(p, id) == IF id \in DOMAIN p.zones THEN p.zones[id] ELSE << >>
WithZones(p, id, zones) == [p EXCEPT !.zones = id :> zones @@ @]

NotNegative(n) == Max({0, n})
Clamped(x, y) == <<NotNegative(x), NotNegative(y)>>

AddPanel(p, parent, id, at, size) ==
    IF parent \notin PanelsOf(p) \/ id \in PanelsOf(p) \/ size[1] <= 0 \/ size[2] <= 0
    THEN Refused
    ELSE Accepted([p EXCEPT
            !.order = Append(@, id), !.size = id :> size @@ @, !.text = id :> {} @@ @,
            !.zones = @ @@ id :> << >>,
            !.children = id :> << >> @@
                [@ EXCEPT ![parent] = Append(@, [panel |-> id, at |-> Clamped(at[1], at[2])])]])

AddZone(p, id, zone, rect) ==
    IF id \notin PanelsOf(p) \/ rect.w <= 0 \/ rect.h <= 0
       \/ \E z \in Range(ZonesIn(p, id)) : z.id = zone
    THEN Refused
    ELSE WithZones(p, id, Append(ZonesIn(p, id), [id |-> zone, rect |-> rect]))

\* move_selected and resize_selected, of a panel.
MovePanel(p, id, dx, dy) ==
    IF ParentOf(p, id) = Null THEN Refused
    ELSE [p EXCEPT !.children[ParentOf(p, id)][PlaceOf(p, id)].at =
                       Clamped(@[1] + dx, @[2] + dy)]
ResizePanel(p, id, rect) ==
    IF rect.w <= 0 \/ rect.h <= 0 THEN Refused
    ELSE LET sized == [p EXCEPT !.size[id] = <<rect.w, rect.h>>]
         IN  Accepted(IF ParentOf(p, id) = Null THEN sized
                      ELSE [sized EXCEPT !.children[ParentOf(p, id)][PlaceOf(p, id)].at =
                                             Clamped(rect.x, rect.y)])

\* The same for a zone; replace_zone_yaml takes the rectangle as it stands.
SetZone(p, id, zone, rects) ==
    IF \E z \in Range(ZonesIn(p, id)) : z.id = zone
    THEN [p EXCEPT !.zones[id] = [n \in DOMAIN @ |->
             IF @[n].id = zone THEN [@[n] EXCEPT !.rect = rects[n]] ELSE @[n]]]
    ELSE Refused
MoveZone(p, id, zone, dx, dy) ==
    SetZone(p, id, zone, [n \in DOMAIN ZonesIn(p, id) |->
        [ZonesIn(p, id)[n].rect EXCEPT !.x = NotNegative(@ + dx), !.y = NotNegative(@ + dy)]])
ResizeZone(p, id, zone, rect) ==
    IF rect.w <= 0 \/ rect.h <= 0 THEN Refused
    ELSE SetZone(p, id, zone, [n \in DOMAIN ZonesIn(p, id) |->
        [rect EXCEPT !.x = NotNegative(@), !.y = NotNegative(@)]])
DeleteZone(p, id, zone) ==
    WithZones(p, id, SelectSeq(ZonesIn(p, id), LAMBDA z : z.id # zone))

\* Faulty: what the panel places stays.
DeleteAlone(p, id) ==
    LET parent == ParentOf(p, id)
    IN  IF parent = Null THEN Refused
        ELSE [p EXCEPT
                 !.order = SelectSeq(@, LAMBDA i : i # id),
                 !.size = Without(@, {id}), !.text = Without(@, {id}),
                 !.children = [i \in DOMAIN @ \ {id} |->
                     IF i = parent THEN SelectSeq(@[i], LAMBDA c : c.panel # id) ELSE @[i]]]

\* delete_selected takes a child with all it places, each found again through
\* its first parent.
RECURSIVE DeletePanel(_, _)
DeletePanel(p, id) ==
    IF p = Refused \/ id = p.root THEN Refused
    ELSE LET parent == ParentOf(p, id)
             rest == FoldLeft(DeletePanel, p, Placed(p)[id])
         IN  IF parent = Null THEN Refused
             ELSE IF rest = Refused THEN Refused
             ELSE [rest EXCEPT
                     !.order = SelectSeq(@, LAMBDA i : i # id),
                     !.size = Without(@, {id}), !.text = Without(@, {id}),
                     !.zones = Without(@, {id}),
                     !.children = [i \in DOMAIN @ \ {id} |->
                         IF i = parent THEN SelectSeq(@[i], LAMBDA c : c.panel # id) ELSE @[i]]]
Deleted(p, id) == IF Endless(Placed(p), id) THEN Raised ELSE DeletePanel(p, id)

\* tree_move_up and tree_move_down: swap with the sibling, if there is one.
Reordered(p, id, step) ==
    LET parent == ParentOf(p, id)
        n == PlaceOf(p, id)
        siblings == p.children[parent]
    IN  IF parent = Null THEN Refused
        ELSE IF n + step \notin DOMAIN siblings THEN p
        ELSE [p EXCEPT !.children[parent][n] = siblings[n + step],
                       !.children[parent][n + step] = siblings[n]]

\* tree_indent: under the sibling before it, at the origin.
Indented(p, id) ==
    LET parent == ParentOf(p, id)
        n == PlaceOf(p, id)
        under == p.children[parent][n - 1].panel
        without == [p EXCEPT !.children[parent] = RemoveAt(@, n)]
    IN  IF parent = Null THEN Refused ELSE IF n = 1 THEN Refused
        ELSE Accepted([without EXCEPT !.children[under] =
                          Append(@, [panel |-> id, at |-> <<0, 0>>])])

\* tree_outdent: behind its parent, in the parent of that.
Outdented(p, id) ==
    LET parent == ParentOf(p, id)
        grand == ParentOf(p, parent)
        n == PlaceOf(p, parent)
        without == [p EXCEPT !.children[parent] = RemoveAt(@, PlaceOf(p, id))]
    IN  IF parent = Null THEN Refused ELSE IF grand = Null THEN Refused
        ELSE Accepted([without EXCEPT !.children[grand] =
                          InsertAt(@, Min({n, Len(@)}) + 1, [panel |-> id, at |-> <<0, 0>>])])

\* extract_to_child_panel: cut a rectangle of text out into a panel of its own;
\* what the parent's text has outside the parent is cut off with it.
Extracted(p, parent, id, r) ==
    LET within == /\ r.x >= 0 /\ r.y >= 0 /\ r.w > 0 /\ r.h > 0
                  /\ Right(r) <= p.size[parent][1] /\ Bottom(r) <= p.size[parent][2]
        added == AddPanel(p, parent, id, <<r.x, r.y>>, <<r.w, r.h>>)
        cut == {c \in p.text[parent] : Encloses(r, Rect(c[1], c[2], 1, 1))}
        inside == {c \in p.text[parent] : c[1] < p.size[parent][1] /\ c[2] < p.size[parent][2]}
    IN  IF parent \notin PanelsOf(p) THEN Refused
        ELSE IF ~within \/ added = Refused THEN Refused
        ELSE [added EXCEPT !.text[id] = {<<c[1] - r.x, c[2] - r.y>> : c \in cut},
                           !.text[parent] = inside \ cut]

\* replace_panel_yaml: children the text leaves out are kept.
ReplacePanel(p, id, yaml) ==
    Accepted([p EXCEPT !.size[id] = yaml.size,
                       !.children[id] = IF yaml.keeps THEN @ ELSE yaml.children])

\* A panel the caller selected may be gone.
OperateOnStale(p, request) ==
    CASE request.op \in {"resize", "yaml"} -> Raised
      [] request.op = "deleteZone" -> DeleteZone(p, request.panel, request.zone)
      [] OTHER -> Refused

Operate(p, request) ==
    IF request.panel \notin PanelsOf(p) THEN OperateOnStale(p, request)
    ELSE CASE
         request.op = "add"     -> AddPanel(p, request.panel, request.id, request.at, request.size)
      [] request.op = "extract" -> Extracted(p, request.panel, request.id, request.rect)
      [] request.op = "zone"    -> AddZone(p, request.panel, request.zone, request.rect)
      [] request.op = "text"    -> [p EXCEPT !.text[request.panel] = request.text]
      [] request.op = "move"    -> MovePanel(p, request.panel, request.dx, request.dy)
      [] request.op = "resize"  -> ResizePanel(p, request.panel, request.rect)
      [] request.op = "moveZone" ->
           MoveZone(p, request.panel, request.zone, request.dx, request.dy)
      [] request.op = "resizeZone" ->
           ResizeZone(p, request.panel, request.zone, request.rect)
      [] request.op = "deleteZone" -> DeleteZone(p, request.panel, request.zone)
      [] request.op = "delete"  -> Deleted(p, request.panel)
      [] request.op = "up"      -> Reordered(p, request.panel, -1)
      [] request.op = "down"    -> Reordered(p, request.panel, 1)
      [] request.op = "indent"  -> Indented(p, request.panel)
      [] request.op = "outdent" -> Outdented(p, request.panel)
      [] request.op = "yaml"    -> ReplacePanel(p, request.panel, request.yaml)

\* save_project validates once more before it writes.
HandlePanels(p, request) ==
    LET next == Operate(p, request) IN IF next \in {Refused, Raised} THEN next ELSE Accepted(next)

-------------------------------------------------------------------------------
(* Files: panels.yaml, zones.yaml and a text per panel; the text of a deleted  *)
(* panel stays behind.  What is drawn and hit is compose_render.               *)

PanelWrites(p) ==
    <<[name |-> "panels", to |-> [root |-> p.root, order |-> p.order, size |-> p.size,
                                  children |-> p.children]],
      [name |-> "zones", to |-> p.zones]>>
    \o [n \in DOMAIN p.order |-> [name |-> p.order[n], to |-> p.text[p.order[n]]]]

LoadPanels(files, torn) ==
    LET panels == files["panels"]
        TextOf(i) == IF i \notin DOMAIN files \/ files[i] = torn THEN {} ELSE files[i]
        zones == IF files["zones"] = torn THEN << >> ELSE files["zones"]
    IN  IF panels = torn \/ "zones" \notin DOMAIN files THEN Raised
        ELSE LET p == panels @@ [zones |-> zones]
                             @@ [text |-> [i \in Range(panels.order) |-> TextOf(i)]]
             IN  IF ValidPanels(p) THEN p ELSE Raised
===============================================================================
