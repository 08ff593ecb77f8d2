------------------------------- MODULE MCPages --------------------------------
(* The file-backed pages of the server, one at a time: the chat workspace with *)
(* two channels, two users and two pool threads, or a drawing prototype with a *)
(* screen of 3 by 2 cells and one client.                                      *)
EXTENDS PChat, UiServer, TLC

CONSTANTS general, other, u1, u2, t1, t2
VARIABLE page

ThreadSymmetry == Permutations(Threads)

Screen == Rect(0, 0, Cols, Rows)
R == {Rect(0, 0, 1, 1), Rect(1, 0, 2, 1), Rect(1, 1, 1, 1)}
MetaPatch(t, k) == [mapping |-> TRUE, title |-> t, data |-> k]
BadPatch == [mapping |-> FALSE, title |-> Null, data |-> {}]
MetaA == [title |-> "t", data |-> {"k1"}]

LayoutDefault == [root |-> "root", order |-> <<"root", "a">>,
                  at |-> ("root" :> Screen @@ "a" :> Rect(0, 0, 2, 1)),
                  parent |-> ("root" :> Null @@ "a" :> "root"),
                  children |-> ("root" :> <<"a">> @@ "a" :> << >>),
                  meta |-> ("root" :> NoMeta @@ "a" :> MetaA)]
Grid == [c \in Cells |-> IF c[1] = 0 /\ c[2] = 0 THEN "x" ELSE Blank]
ProjectDefault == [root |-> "root", order |-> <<"root", "a">>,
                   at |-> ("root" :> Screen @@ "a" :> Rect(0, 0, 2, 1)),
                   parent |-> ("root" :> Null @@ "a" :> "root"),
                   text |-> [c \in Cells |-> IF c[2] = 0 THEN <<"x", "y", "z">>[c[1] + 1] ELSE Blank],
                   events |-> "e0"]
PanelsDefault == [root |-> "root", order |-> <<"root", "a", "b">>,
                  size |-> [i \in {"root", "a", "b"} |-> <<2, 1>>],
                  children |-> ("root" :> <<[panel |-> "a", at |-> <<0, 0>>], [panel |-> "b", at |-> <<1, 0>>]>>
                                 @@ "a" :> << >> @@ "b" :> << >>),
                  zones |-> ("root" :> << >> @@ "a" :> <<[id |-> "z", rect |-> Rect(0, 0, 1, 1)]>> @@ "b" :> << >>),
                  text |-> ("root" :> {} @@ "a" :> {<<0, 0>>, <<1, 0>>} @@ "b" :> {})]
MCDefault(m) == CASE m = "layout" -> LayoutDefault [] m = "project" -> ProjectDefault [] OTHER -> PanelsDefault

Unit == Rect(0, 0, 1, 1)
LayoutRequests ==
    [route : {"gui-action"}, action : {"move", "resize"}, selected : {"a", "b"},
     focus : {"root"}, rect : R]
    \cup [route : {"gui-action"}, action : {"create"}, selected : {"a", Null},
          focus : {"a"}, id : {"b"}, rect : {Rect(1, 1, 1, 1), Rect(1, 0, 1, 1)}]
    \cup [route : {"command"}, action : {"add"}, selected : {"root", "a", Null},
          focus : {"a"}, id : {"b", "c"}, rect : {Unit}]
    \cup [route : {"command"}, action : {"shift", "grow"}, selected : {"root", "a"},
          dx : {1}, dy : {0}]
    \cup [route : {"command"}, action : {"rename"}, selected : {"root", "a"}, id : {"b", "c"}]
    \cup [route : {"command"}, action : {"delete"}, selected : {"root", "a", "b"},
          subtree : BOOLEAN]
    \cup [route : {"command"}, action : {"set"}, selected : {"a"},
          patch : {MetaPatch(Null, {"k2"}), MetaPatch(Null, Null), BadPatch}]
    \cup [route : {"meta"}, selected : {"a", "b"}, patch : {MetaPatch("u", {})}]

Yaml(rect, keeps, parent) ==
    [malformed |-> FALSE, rect |-> rect, keeps |-> keeps, parent |-> parent]
ProjectRequests ==
    [route : {"gui-action"}, action : {"move"}, selected : {"a", "b", Null},
     focus : {"root"}, rect : R]
    \cup [route : {"gui-action"}, action : {"resize"}, selected : {"a", "b"},
          focus : {"root"}, rect : R]
    \cup [route : {"gui-action"}, action : {"create"}, selected : {"a", Null},
          focus : {"root"}, names : {<<"a", "b", "c", "d", "e">>}, rect : {Unit}]
    \cup [route : {"command"}, action : {"select"}, id : {"a", "b"}]
    \cup [route : {"command"}, action : {"delete"}, selected : {"a", "b", Null},
          subtree : BOOLEAN]
    \cup [route : {"command"}, action : {"add"}, selected : {"a"}, focus : {"a"}, id : {"b"},
          rect : {Rect(1, 0, 1, 1), Raised}]
    \cup [route : {"node/save"}, selected : {"a"},
          yaml : {Yaml(Unit, TRUE, Null), Yaml(Unit, FALSE, "b"), Yaml(Null, TRUE, Null),
                  Yaml(Unit, FALSE, "a")}]
    \cup [route : {"files/save"}, text : {NoText}, events : {"e1"}]

Some == {"root", "a", "b", "c"}
PanelRequests ==
    [op : {"add"}, panel : {"a"}, id : {"b", "c"}, at : {<<-1, 1>>}, size : {<<1, 1>>}]
    \cup [op : {"extract"}, panel : {"a"}, id : {"c"},
          rect : {Rect(1, 0, 1, 1), Rect(1, 0, 2, 1)}]
    \cup [op : {"zone"}, panel : {"c"}, zone : {"z"}, rect : {Unit}]
    \cup [op : {"text"}, panel : {"c"}, text : {{<<0, 0>>}}]
    \cup [op : {"move"}, panel : {"a", "root"}, dx : {-1}, dy : {1}]
    \cup [op : {"resize"}, panel : {"b", "c"}, rect : {Rect(1, 0, 1, 1)}]
    \cup [op : {"moveZone", "resizeZone"}, panel : {"a", "c"}, zone : {"z"},
          dx : {-1}, dy : {1}, rect : {Rect(-1, 0, 2, 1)}]
    \cup [op : {"deleteZone"}, panel : {"a", "c"}, zone : {"z"}]
    \cup [op : {"delete", "up", "down", "indent", "outdent"}, panel : Some]
    \cup [op : {"yaml"}, panel : {"root", "a"},
          yaml : [size : {<<2, 1>>}, keeps : {FALSE},
                  children : {<< >>, <<[panel |-> "b", at |-> <<0, 0>>]>>}]
                 \cup [size : {<<3, 1>>}, keeps : {TRUE}]]
MCRequests(m) == CASE m = "layout" -> LayoutRequests [] m = "project" -> ProjectRequests [] OTHER -> PanelRequests
\* Three edits of panels, two of the drawings, which have more requests.
MCEdits(m) == IF m = "panels" THEN 3 ELSE 2
\* While a client pages, two requests have been sent at most.
WalkBound == walk.pc # "off" => sent <= 2

PagesInit ==
    /\ page \in {"chat", "ui"}
    /\ Init /\ UiInit
    /\ page = "chat" => mode = "layout"
PagesNext ==
    \/ page = "chat" /\ Next /\ UNCHANGED <<page, ui>>
    \/ page = "ui" /\ UiNext /\ UNCHANGED <<page, vars>>
PagesSpec == PagesInit /\ [][PagesNext]_<<page, vars, ui>>
===============================================================================
