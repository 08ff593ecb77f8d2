------------------------------- MODULE UiServer -------------------------------
(* The routes of the drawing prototypes: load the files, remember the document *)
(* for undo, try the edit, save the files one after the other, answer.  mode   *)
(* says which prototype the client edits; each has files and an undo stack of  *)
(* its own.  One request is served at a time; the server may die between two   *)
(* of its steps.                                                               *)
EXTENDS UiLayout, UiProject, UiPanels
LOCAL INSTANCE SequencesExt
LOCAL INSTANCE TLC

CONSTANTS
    Torn,       \* a file opened for writing and cut off
    Default(_), \* the document a prototype starts with
    Requests(_),
    MaxEdits(_), MaxDeaths   \* bounds: edits of a prototype, crashes

VARIABLES
    mode,
    disk,       \* file name -> content, for the files that exist
    undo,       \* the stack in memory: documents as they were loaded
    job,        \* the request in progress: an edit, "undo", "start", or Null
    queue,      \* writes its save has left; << >> before the save
    target,     \* the document the save is for
    shown,      \* the document of the last answer
    past,       \* the client's: what it was shown before each of its edits
    handMade,   \* a panel's YAML has named children
    whole,      \* no crash has cut a save short since the last answer
    edits, deaths

ui == <<mode, disk, undo, job, queue, target, shown, past, handMade, whole,
        edits, deaths>>

Main == CASE mode = "layout" -> "layout" [] mode = "project" -> "aabb" [] OTHER -> "panels"
Loaded == CASE mode = "layout"  -> LoadLayout(disk, Torn)
            [] mode = "project" -> LoadProject(disk, Torn)
            [] OTHER            -> LoadPanels(disk, Torn)
Writes(d) == CASE mode = "layout"  -> LayoutWrites(d, disk)
               [] mode = "project" -> ProjectWrites(d)
               [] OTHER            -> PanelWrites(d)
Handle(d, request) == CASE mode = "layout"  -> HandleLayout(d, request)
                        [] mode = "project" -> HandleProject(d, request)
                        [] OTHER            -> HandlePanels(d, request)

\* What a route turns away before it touches the stack.
TurnedAway(d, request) ==
    \/ d = Raised
    \/ mode = "layout" /\ OpOf(d, request) = Refused

UiInit ==
    /\ mode \in {"layout", "project", "panels"}
    /\ disk = << >> /\ undo = << >> /\ queue = << >> /\ past = << >>
    /\ handMade = FALSE /\ whole = FALSE
    /\ job = Null /\ target = Null /\ shown = Null
    /\ edits = 0 /\ deaths = 0

Settled == job = Null
Ready == Settled /\ Main \in DOMAIN disk
Save(d) == queue' = Writes(d) /\ target' = d

\* The first request of all writes the default document.
Ensure ==
    /\ Settled /\ Main \notin DOMAIN disk
    /\ job' = [route |-> "start"]
    /\ Save(Default(mode))
    /\ UNCHANGED <<mode, disk, undo, shown, past, handMade, whole, edits, deaths>>

\* The document goes on the stack before the edit is tried.  Panels have no
\* undo.
Push(request) ==
    /\ Ready /\ ~TurnedAway(Loaded, request) /\ edits < MaxEdits(mode)
    /\ edits' = edits + 1 /\ job' = [route |-> "edit", request |-> request]
    /\ undo' = IF mode = "panels" THEN undo ELSE Append(undo, Loaded)
    /\ UNCHANGED <<mode, disk, queue, target, shown, past, handMade, whole, deaths>>

\* What the client has seen before the edit it gets an answer to.
Remember == past' = Append(past, IF whole THEN shown ELSE Null)
Trying == job # Null /\ job.route = "edit" /\ queue = << >>

\* Faulty: a refused edit leaves the stack as it was made for it.
KeepsRefused ==
    /\ Trying /\ Handle(Loaded, job.request) = Refused
    /\ job' = Null
    /\ UNCHANGED <<mode, disk, undo, queue, target, shown, past, handMade, whole, edits, deaths>>

\* A refusal (400) takes the document off the stack again.
Refuse ==
    /\ Trying /\ Handle(Loaded, job.request) = Refused
    /\ job' = Null
    /\ undo' = IF mode = "panels" THEN undo ELSE Front(undo)
    /\ UNCHANGED <<mode, disk, queue, target, shown, past, handMade, whole, edits, deaths>>

\* Any other exception (500) leaves it there.
Fail ==
    /\ Trying /\ Handle(Loaded, job.request) = Raised
    /\ job' = Null /\ Remember
    /\ UNCHANGED <<mode, disk, undo, queue, target, shown, handMade, whole, edits, deaths>>

Apply ==
    LET next == Handle(Loaded, job.request)
        request == job.request
    IN  /\ Trying /\ next \notin {Refused, Raised}
        /\ Save(next)
        /\ handMade' = (handMade \/ (mode = "panels" /\ request.op = "yaml"
                                     /\ ~request.yaml.keeps))
        /\ UNCHANGED <<mode, disk, undo, job, shown, past, whole, edits, deaths>>

\* The prototype of /api/ui-proto loads before it undoes, the other does not.
Undo ==
    /\ Ready /\ mode # "panels" /\ undo # << >>
    /\ mode = "layout" => Loaded # Raised
    /\ job' = [route |-> "undo"] /\ undo' = Front(undo)
    /\ Save(Last(undo))
    /\ UNCHANGED <<mode, disk, shown, past, handMade, whole, edits, deaths>>

\* What is on disk after some of the writes.
After(writes) ==
    FoldLeft(LAMBDA f, w : IF w.to = Null THEN Without(f, {w.name}) ELSE (w.name :> w.to) @@ f,
             disk, writes)
Answer ==
    /\ queue # << >>
    /\ disk' = After(queue)
    /\ job' = Null /\ queue' = << >> /\ shown' = target /\ whole' = TRUE
    /\ CASE job.route = "edit" -> Remember
         [] job.route = "undo" -> past' = Front(past)
         [] OTHER -> past' = past
    /\ UNCHANGED <<mode, undo, target, handMade, edits, deaths>>

\* The process dies when some of the writes are done; a file it has opened is
\* empty.  The stack was only in memory.
Crash ==
    /\ deaths < MaxDeaths /\ deaths' = deaths + 1
    /\ \E n \in 0..Len(queue) :
          \/ disk' = After(SubSeq(queue, 1, n))
          \/ /\ n < Len(queue) /\ queue[n + 1].to # Null
             /\ disk' = (queue[n + 1].name :> Torn) @@ After(SubSeq(queue, 1, n))
    /\ job' = Null /\ queue' = << >> /\ undo' = << >>
    /\ whole' = (whole /\ queue = << >>)
    /\ UNCHANGED <<mode, target, shown, past, handMade, edits>>

UiNext == \/ Ensure \/ Refuse \/ Fail \/ Apply \/ Undo \/ Answer \/ Crash
          \/ \E request \in Requests(mode) : Push(request)

UiSpec == UiInit /\ [][UiNext]_ui
-------------------------------------------------------------------------------
(* What a document looks like to a client: a layout without the order of its   *)
(* dictionary, which a rename changes and a reload puts back.                  *)
Look(d) == IF mode = "layout" /\ d # Raised THEN [d EXCEPT !.order = << >>] ELSE d

\* What was answered last is what the next request loads, children in the same
\* order and metadata included, with no file of a removed node left to read;
\* the exported base.json is of that document too.
ShownIsSaved ==
    Settled /\ whole =>
        /\ Look(Loaded) = Look(shown)
        /\ mode = "layout" => DOMAIN disk = {"layout"} \cup NodesOf(shown)
        /\ mode = "project" => disk["json"] = BaseJson(shown)

\* When an undo is answered, the next request loads what the client was shown
\* before the last of its edits that was not refused and not yet undone: the
\* push before the try, the pop of a refusal, the pop of an undo and a restart
\* that empties the stack agree with what the client saw, and the copy on the
\* stack survives being saved and loaded.  A client whose page a crash has
\* made stale expects nothing.
UndoTakesBack ==
    [][Answer /\ job.route = "undo" =>
         /\ past # << >>
         /\ Last(past) # Null => Look(Loaded') = Look(Last(past))]_ui

\* Unless a panel's YAML has placed panels by hand, every operation on the
\* tree leaves a tree: each panel but the root is placed once, and the root
\* reaches all of them.
PanelsStayTree ==
    mode = "panels" /\ Ready /\ ~handMade /\ Loaded # Raised =>
        LET p == Loaded
            Places(i) == {<<j, n>> \in PanelsOf(p) \X (1..Cardinality(PanelsOf(p))) :
                            n \in DOMAIN p.children[j] /\ p.children[j][n].panel = i}
        IN  /\ Below(Placed(p), {p.root}) = PanelsOf(p)
            /\ \A i \in PanelsOf(p) : Cardinality(Places(i)) = IF i = p.root THEN 0 ELSE 1

\* What a click picks has nothing of its own lying over it there.
PickIsInnermost ==
    Ready /\ mode # "panels" /\ Loaded # Raised =>
        LET d == Loaded
            Pick(focus, c) == IF mode = "layout" THEN PickLayout(d, focus, c[1], c[2])
                              ELSE PickIn(d, focus, c[1], c[2])
        IN  \A focus \in NodesOf(d), c \in Cells :
                LET i == Pick(focus, c)
                    At(j) == Covers(d.at[j], d.at[focus].x + c[1], d.at[focus].y + c[2])
                IN  i \notin {Null, Raised} => \A j \in NodesOf(d) : d.parent[j] = i => ~At(j)

\* A box that may move takes the text inside it along, whatever it lands on.
MovesItsText ==
    mode = "project" /\ Ready /\ Loaded # Raised =>
        \A request \in Requests(mode) :
            LET p == Loaded
                id == OrFocus(p, request)
                after == HandleProject(p, request)
                dx == after.at[id].x - p.at[id].x
                dy == after.at[id].y - p.at[id].y
            IN  request.route = "gui-action" /\ request.action = "move"
                /\ after \notin {Refused, Raised} =>
                    \A c \in CellsIn(p.at[id]) :
                        p.text[c] # Blank => after.text[<<c[1] + dx, c[2] + dy>>] = p.text[c]
===============================================================================
