-------------------------------- MODULE PChat ---------------------------------
(* The file-backed chat workspace of server.py: channels, numbered message     *)
(* directories, the log of a channel's children, the one selection every user  *)
(* shares, named console scopes and the table of messages that a client pages  *)
(* through. Routes run in a thread pool without a lock, so every read and      *)
(* write of a file is a step. Audit logs that nothing reads again and the      *)
(* contents of materialised rows are left out.                                 *)
EXTENDS Naturals, Sequences, FiniteSets, SequencesExt

CONSTANTS
    Channels,
    First,       \* the channel that exists and is selected at the start
    Users, None,
    Root, Pchat, \* the directories "root" and "pchat" a scope may stand in
    Cmd,         \* the scope users type commands in
    Threads,
    Limit,       \* rows of a page
    MaxRequests, MaxActive, MaxSlots, MaxPages, MaxCrashes,   \* bounds
    Kinds        \* the requests clients send

Slots == 1..MaxSlots

\* What _data.json and a message directory hold: what was written, for which
\* message, and whether the file is torn (empty, or two writes mixed) and will
\* not parse.
MessageData == [of : Nat, edits : Nat, deleted : BOOLEAN, reactions : SUBSET Users, torn : BOOLEAN]
MessageDir == [id : Nat, meta : BOOLEAN, data : MessageData \cup {None}]
\* A line of a channel's log: a path, and the message it was written for.
MessageRef == [channel : Channels, slot : Slots, id : Nat]

ASSUME PChatAssumption ==
    /\ First \in Channels /\ None \notin Channels \cup Users \cup MessageData \cup MessageDir \cup MessageRef
    /\ {Root, Pchat} \cap Channels = {}
    /\ Limit \in Nat \ {0} /\ MaxSlots \in Nat \ {0, 1}
    /\ Kinds \subseteq {"mkchannel", "cselect", "cpost", "post", "patch", "delete", "react",
                        "rm", "reset", "select", "up"}
    /\ MaxRequests \in Nat /\ MaxActive \in Nat /\ MaxPages \in Nat /\ MaxCrashes \in Nat

VARIABLES
    channel,   \* [Channels -> "none" | "dir" (no _meta.json yet) | "typed"]
    slot,      \* [Channels -> [Slots -> message directory or None]]
    children,  \* [Channels -> sequence of refs]: _children.jsonl
    selected,  \* channels_selector/state.json
    scope,     \* [Channels \cup {Cmd} -> cwd of "channel:<name>" and of "CMD"]
    window,    \* the pagination of current_channel_messages/state.json
    thread,    \* [Threads -> request in progress]
    walk,      \* a client that pages from the newest message to the oldest
    stamp,     \* messages created so far
    sent, pages, crashes

files == <<channel, slot, children, selected, window>>
bounds == <<sent, pages, crashes>>
vars == <<channel, slot, children, selected, window, scope, thread, walk, stamp, bounds>>

\* A message directory: which message it was made for, what is written in it.
\* data is the content, the users whose reaction it carries, and for which message.
NewSlot(id) == [id |-> id, meta |-> FALSE, data |-> None]
Whole(m) == m # None /\ m.meta /\ m.data # None
Message(id) == [of |-> id, edits |-> 0, deleted |-> FALSE, reactions |-> {}, torn |-> FALSE]
Ref(c, s, id) == [channel |-> c, slot |-> s, id |-> id]

Idle == [pc |-> "idle", kind |-> None, name |-> None, dir |-> None, slot |-> None,
         id |-> None, user |-> None, buf |-> None]
NoWalk == [pc |-> "off", channel |-> None, cursor |-> None, seen |-> << >>, must |-> {}]

Init ==
    /\ channel = [c \in Channels |-> IF c = First THEN "typed" ELSE "none"]
    /\ slot = [c \in Channels |-> [s \in Slots |->
           IF c = First /\ s <= 2 THEN [id |-> s, meta |-> TRUE, data |-> Message(s)] ELSE None]]
    /\ children = [c \in Channels |-> IF c = First THEN <<Ref(c, 1, 1), Ref(c, 2, 2)>> ELSE << >>]
    /\ selected = First
    /\ scope = [c \in Channels \cup {Cmd} |-> IF c = First THEN c ELSE Root]
    /\ window = [before |-> None, after |-> None, limit |-> Limit]
    /\ thread = [t \in Threads |-> Idle]
    /\ walk = NoWalk /\ stamp = 2 /\ sent = 0 /\ pages = 0 /\ crashes = 0
-------------------------------------------------------------------------------
(* Requests. A step of request t is one read or write of a file.               *)
At(t, pc) == thread[t].pc = pc
Go(t, pc) == thread' = [thread EXCEPT ![t].pc = pc]
Finish(t) == thread' = [thread EXCEPT ![t] = Idle]
Active == {t \in Threads : thread[t].pc # "idle"}
\* /rm and /reset free slot numbers: the model runs them alone.
Alone == {"rm", "reset"}

FirstStep == [mkchannel |-> "mkdir_channel", cselect |-> "select", cpost |-> "name",
              post |-> "slot", patch |-> "name", delete |-> "name", react |-> "name",
              rm |-> "rm", reset |-> "reset", select |-> "scope_select", up |-> "up"]
\* Commands of the root template: unknown where CMD stands in another directory.
OfRoot == {"mkchannel", "cselect", "cpost", "patch", "delete", "react"}

Begin(t) == \E k \in Kinds, c \in Channels, s \in Slots, u \in Users :
    /\ At(t, "idle") /\ sent < MaxRequests /\ Cardinality(Active) < MaxActive
    /\ (k \in Alone \/ \E x \in Active : thread[x].kind \in Alone) => Active = {}
    /\ IF k \in {"patch", "delete", "react", "rm"} THEN \E x \in Channels : slot[x][s] # None
       ELSE s = 1
    /\ k # "react" => u = CHOOSE x \in Users : TRUE
    /\ k \in {"cpost", "patch", "delete", "react", "reset", "up"} => c = First
    /\ k \in OfRoot => scope[Cmd] = Root
    /\ sent' = sent + 1
    /\ thread' = [thread EXCEPT ![t] = [Idle EXCEPT !.pc = FirstStep[k], !.kind = k,
           !.name = IF k \in {"mkchannel", "cselect", "select", "post", "rm"} THEN c ELSE None,
           !.slot = s, !.user = u]]
    /\ UNCHANGED <<files, scope, walk, stamp, pages, crashes>>

(* Channels and the selection.                                                 *)
\* mkdir of a channel that exists answers that it existed and goes on.
MakeChannel(t) ==
    /\ At(t, "mkdir_channel")
    /\ LET c == thread[t].name IN
       IF channel[c] # "none" THEN Go(t, "select") /\ UNCHANGED channel
       ELSE channel' = [channel EXCEPT ![c] = "dir"] /\ Go(t, "type")
    /\ UNCHANGED <<slot, children, selected, window, scope, walk, stamp, bounds>>

TypeChannel(t) ==
    /\ At(t, "type")
    /\ channel' = [channel EXCEPT ![thread[t].name] = "typed"]
    /\ scope' = [scope EXCEPT ![thread[t].name] = thread[t].name]
    /\ Go(t, "select")
    /\ UNCHANGED <<slot, children, selected, window, walk, stamp, bounds>>

\* The selection takes any name; a client that pages sees the channel change.
Select(t) ==
    /\ At(t, "select")
    /\ selected' = thread[t].name
    /\ walk' = IF walk.channel # selected' THEN NoWalk ELSE walk
    /\ Finish(t)
    /\ UNCHANGED <<channel, slot, children, window, scope, stamp, bounds>>

ScopeSelect(t) ==
    /\ At(t, "scope_select")
    /\ LET c == thread[t].name IN
       scope' = IF channel[c] # "none" THEN [scope EXCEPT ![c] = c] ELSE scope
    /\ Finish(t)
    /\ UNCHANGED <<files, walk, stamp, bounds>>

(* Posting. The selection is read twice, and cmd_post works in the scope.      *)
ReadName(t) ==
    /\ At(t, "name")
    /\ IF selected = None THEN Finish(t)
       ELSE thread' = [thread EXCEPT ![t].pc = "dir", ![t].name = selected]
    /\ UNCHANGED <<files, scope, walk, stamp, bounds>>

ReadDir(t) ==
    /\ At(t, "dir")
    /\ IF channel[selected] = "none" THEN Finish(t)
       ELSE thread' = [thread EXCEPT ![t].dir = selected,
               ![t].pc = IF thread[t].kind = "cpost" THEN "scope" ELSE "read"]
    /\ UNCHANGED <<files, scope, walk, stamp, bounds>>

EnterScope(t) ==
    /\ At(t, "scope")
    /\ scope' = [scope EXCEPT ![thread[t].name] = thread[t].dir]
    /\ Go(t, "slot")
    /\ UNCHANGED <<files, walk, stamp, bounds>>

Existing(c) == {s \in Slots : slot[c][s] # None}
NextSlotId(c) == IF Existing(c) = {} THEN 1 ELSE Max(Existing(c)) + 1

\* The slot is chosen in the scope's directory when messages may be put there.
ChooseSlot(t) ==
    /\ At(t, "slot")
    /\ LET c == scope[thread[t].name] IN
       IF c \notin Channels \/ (c \in Channels /\ channel[c] # "typed") THEN Finish(t)
       ELSE /\ NextSlotId(c) \in Slots
            /\ thread' = [thread EXCEPT ![t].pc = "mkdir", ![t].slot = NextSlotId(c)]
    /\ UNCHANGED <<files, scope, walk, stamp, bounds>>

\* Faulty: a directory that exists is taken over.
TakeAny(c, s) == TRUE
\* mkdir() raises when the directory exists, or its parent does not.
Free(c, s) == slot[c][s] = None

MakeSlot(t) ==
    /\ At(t, "mkdir")
    /\ LET c == scope[thread[t].name]  s == thread[t].slot IN
       IF c \in Channels /\ channel[c] # "none" /\ Free(c, s)
       THEN /\ stamp' = stamp + 1
            /\ slot' = [slot EXCEPT ![c][s] = NewSlot(stamp')]
            /\ thread' = [thread EXCEPT ![t].dir = c, ![t].id = stamp', ![t].pc = "made"]
       ELSE Finish(t) /\ UNCHANGED <<stamp, slot>>
    /\ UNCHANGED <<channel, children, selected, window, scope, walk, bounds>>

\* Faulty: the message is listed before it is written.
RefFirst == <<"made", "ref", "meta", "data">>
\* cmd_post: the files of the message, and the ref in its channel last.
PostSteps == <<"made", "meta", "data", "ref">>
\* The step that comes next when the i-th is taken; /post writes no ref.
Due(t, step) == \E i \in 1..3 : At(t, PostSteps[i]) /\ PostSteps[i + 1] = step
Final(t, step) == step = PostSteps[4] \/ (thread[t].kind = "post" /\ step = "data")
Taken(t, step) == IF Final(t, step) THEN Finish(t) ELSE Go(t, step)

WriteMeta(t) ==
    /\ Due(t, "meta")
    /\ slot' = [slot EXCEPT ![thread[t].dir][thread[t].slot].meta = TRUE]
    /\ Taken(t, "meta")
    /\ UNCHANGED <<channel, children, selected, window, scope, walk, stamp, bounds>>

WriteData(t) ==
    /\ Due(t, "data")
    /\ slot' = [slot EXCEPT ![thread[t].dir][thread[t].slot].data = Message(thread[t].id)]
    /\ Taken(t, "data")
    /\ UNCHANGED <<channel, children, selected, window, scope, walk, stamp, bounds>>

\* The ref goes to the log of the directory the scope stands in by now.
AppendRef(t) ==
    /\ Due(t, "ref") /\ thread[t].kind = "cpost"
    /\ LET c == scope[thread[t].name]
           ref == Ref(thread[t].dir, thread[t].slot, thread[t].id) IN
       children' = IF c \in Channels THEN [children EXCEPT ![c] = Append(@, ref)] ELSE children
    /\ Taken(t, "ref")
    /\ UNCHANGED <<channel, slot, selected, window, scope, walk, stamp, bounds>>

(* Edits, soft deletion and reactions: a file of a message is read, changed    *)
(* and written back; a reaction is computed from an earlier read of its own.   *)
DataOf(c, s) == IF slot[c][s].data # None THEN slot[c][s].data ELSE Message(slot[c][s].id)

\* A torn file raises in json.loads: the request ends.
TornFile(c, s) == DataOf(c, s).torn

\* A message that is not there: the patch goes to the channel's own file instead.
ReadData(t) ==
    /\ At(t, "read")
    /\ LET c == thread[t].dir  s == thread[t].slot IN
       IF slot[c][s] = None THEN Finish(t)
       ELSE IF TornFile(c, s) THEN Finish(t)
       ELSE LET old == DataOf(c, s)
                r == thread[t] IN
            thread' = [thread EXCEPT ![t].id = slot[c][s].id,
                ![t].pc = IF r.kind = "react" THEN "reread" ELSE "write",
                ![t].buf = CASE r.kind = "patch" -> [old EXCEPT !.edits = @ + 1]
                             [] r.kind = "delete" -> [old EXCEPT !.deleted = TRUE]
                             [] r.kind = "react" ->
                                  IF r.user \in old.reactions THEN old.reactions \ {r.user}
                                  ELSE old.reactions \cup {r.user}]
    /\ UNCHANGED <<files, scope, walk, stamp, bounds>>

ReadAgain(t) ==
    /\ At(t, "reread")
    /\ IF TornFile(thread[t].dir, thread[t].slot) THEN Finish(t)
       ELSE thread' = [thread EXCEPT ![t].pc = "write",
           ![t].buf = [DataOf(thread[t].dir, thread[t].slot) EXCEPT !.reactions = thread[t].buf]]
    /\ UNCHANGED <<files, scope, walk, stamp, bounds>>

\* write_text empties the file first.
OpenData(t) ==
    /\ At(t, "write")
    /\ LET c == thread[t].dir  s == thread[t].slot IN
       slot' = [slot EXCEPT ![c][s].data = [DataOf(c, s) EXCEPT !.torn = TRUE]]
    /\ Go(t, "fill")
    /\ UNCHANGED <<channel, children, selected, window, scope, walk, stamp, bounds>>

\* Over what another wrote since, a shorter text leaves the tail of the longer.
WriteBack(t) ==
    /\ At(t, "fill")
    /\ LET c == thread[t].dir  s == thread[t].slot IN
       \E mixed \in IF DataOf(c, s).torn THEN {FALSE} ELSE BOOLEAN :
          slot' = [slot EXCEPT ![c][s].data = [thread[t].buf EXCEPT !.torn = mixed]]
    /\ Finish(t)
    /\ UNCHANGED <<channel, children, selected, window, scope, walk, stamp, bounds>>

(* Removal.                                                                    *)
RemoveSlot(t) ==
    /\ At(t, "rm")
    /\ LET c == scope[thread[t].name] IN
       slot' = IF c \in Channels THEN [slot EXCEPT ![c][thread[t].slot] = None] ELSE slot
    /\ Finish(t)
    /\ UNCHANGED <<channel, children, selected, window, scope, walk, stamp, bounds>>

ScopesAfterReset == [c \in DOMAIN scope |-> Pchat]

\* /reset removes everything under pchat; the selection keeps its name.
Reset(t) ==
    /\ At(t, "reset")
    /\ channel' = [c \in Channels |-> "none"]
    /\ slot' = [c \in Channels |-> [s \in Slots |-> None]]
    /\ children' = [c \in Channels |-> << >>]
    /\ scope' = ScopesAfterReset
    /\ walk' = NoWalk
    /\ Finish(t)
    /\ UNCHANGED <<selected, window, stamp, bounds>>

Up(t) ==
    /\ At(t, "up")
    /\ scope' = [scope EXCEPT ![Cmd] = Root]
    /\ Finish(t)
    /\ UNCHANGED <<files, walk, stamp, bounds>>

\* The process ends between two steps: scopes are memory, the files stay.
Restart ==
    /\ crashes < MaxCrashes /\ crashes' = crashes + 1 /\ Active # {}
    /\ thread' = [t \in Threads |-> Idle]
    /\ scope' = [c \in DOMAIN scope |-> Root]
    /\ UNCHANGED <<files, walk, stamp, sent, pages>>
-------------------------------------------------------------------------------
(* The table of messages: load_child_log under the window of the container.    *)
Visible(r) == slot[r.channel][r.slot] # None
SamePath(q, r) == q.channel = r.channel /\ q.slot = r.slot
IndexOf(refs, r) ==
    LET found == {i \in DOMAIN refs : SamePath(refs[i], r)} IN
    IF found = {} THEN 0 ELSE Min(found)

\* Faulty: a page begins with the message it should come after.
OlderOrSame(refs, r) ==
    IF IndexOf(refs, r) = 0 THEN << >> ELSE SubSeq(refs, IndexOf(refs, r), Len(refs))
OlderThan(refs, r) ==
    IF IndexOf(refs, r) = 0 THEN << >> ELSE SubSeq(refs, IndexOf(refs, r) + 1, Len(refs))
NewerThan(refs, r) ==
    IF IndexOf(refs, r) = 0 THEN << >> ELSE SubSeq(refs, 1, IndexOf(refs, r) - 1)

\* The refs of a list whose directory is still there.
Shown(refs) ==
    LET kept[n \in 0..Len(refs)] ==
            IF n = 0 THEN << >>
            ELSE IF Visible(refs[n]) THEN Append(kept[n - 1], refs[n]) ELSE kept[n - 1]
    IN kept[Len(refs)]

LoadChildLog(c, w) ==
    LET newest == Reverse(children[c])
        inside == IF w.before # None THEN OlderThan(newest, w.before)
                  ELSE IF w.after # None THEN NewerThan(newest, w.after) ELSE newest
        shown == Shown(inside) IN
    SubSeq(shown, 1, Min({w.limit, Len(shown)}))

StartWalk ==
    /\ walk.pc = "off" /\ selected # None /\ channel[selected] # "none"
    /\ pages < MaxPages
    /\ walk' = [NoWalk EXCEPT !.pc = "ask", !.channel = selected,
           !.must = {children[selected][i] : i \in DOMAIN children[selected]}]
    /\ UNCHANGED <<files, scope, thread, stamp, bounds>>

\* container_set_table_window: before_ref and after_ref exclude each other.
SetTableWindow ==
    /\ walk.pc = "ask" /\ pages < MaxPages /\ pages' = pages + 1
    /\ window' = [window EXCEPT !.before = walk.cursor, !.after = None]
    /\ walk' = [walk EXCEPT !.pc = "load"]
    /\ UNCHANGED <<channel, slot, children, selected, scope, thread, stamp, sent, crashes>>

\* A row whose file is torn fails the page, and the client asks again.
Materialize ==
    /\ walk.pc = "load"
    /\ LET rows == IF channel[selected] = "none" THEN << >> ELSE LoadChildLog(selected, window) IN
       /\ \A i \in DOMAIN rows : ~TornFile(rows[i].channel, rows[i].slot)
       /\ walk' = IF rows = << >> THEN [walk EXCEPT !.pc = "done"]
                  ELSE [walk EXCEPT !.pc = "ask", !.seen = @ \o rows, !.cursor = rows[Len(rows)]]
    /\ UNCHANGED <<files, scope, thread, stamp, bounds>>
-------------------------------------------------------------------------------
Channel(t) == MakeChannel(t) \/ TypeChannel(t) \/ Select(t) \/ ScopeSelect(t)
Post(t) == ReadName(t) \/ ReadDir(t) \/ EnterScope(t) \/ ChooseSlot(t) \/ MakeSlot(t)
           \/ WriteMeta(t) \/ WriteData(t) \/ AppendRef(t)
Patch(t) == ReadData(t) \/ ReadAgain(t) \/ OpenData(t) \/ WriteBack(t)

Next ==
    \/ \E t \in Threads : Begin(t) \/ Channel(t) \/ Post(t) \/ Patch(t)
                          \/ RemoveSlot(t) \/ Reset(t) \/ Up(t)
    \/ StartWalk \/ SetTableWindow \/ Materialize \/ Restart

Spec == Init /\ [][Next]_vars
-------------------------------------------------------------------------------

\* A message once made is that message: no other post gets its directory, and
\* nothing another request had read of another message is written into it,
\* however posts, edits, reactions and channel switches overlap.
NothingOverwritten == [][\A c \in Channels, s \in Slots :
    slot[c][s] # None /\ slot[c][s]' # None =>
        /\ slot[c][s]'.id = slot[c][s].id
        /\ slot[c][s]'.data # None => slot[c][s]'.data.of = slot[c][s].id
        /\ slot[c][s].data # None => slot[c][s]'.data # None]_vars

\* A message that its channel's table lists has all its files, after a crash too
\* (an edit cut off leaves one of them empty); a ref whose number was freed and
\* taken again names another message.
ListedIsWhole == \A c \in Channels : \A i \in DOMAIN children[c] :
    LET r == children[c][i]  m == slot[r.channel][r.slot] IN
    m # None /\ m.id = r.id => Whole(m)

Unique(refs) == \A i, j \in DOMAIN refs : SamePath(refs[i], refs[j]) => i = j

\* A client that pages back with before_ref sees every message that was listed when
\* it began and still exists, once, newest first, whatever is posted or removed
\* between its pages; unless /rm has let a path be listed twice.
WalkSeesAll == walk.pc = "done" /\ Unique(children[walk.channel]) =>
    LET log == children[walk.channel]
        at == [i \in DOMAIN walk.seen |-> CHOOSE j \in DOMAIN log : log[j] = walk.seen[i]] IN
    /\ {r \in walk.must : Visible(r) /\ slot[r.channel][r.slot].id = r.id} \subseteq {walk.seen[i] : i \in DOMAIN walk.seen}
    /\ \A i, j \in DOMAIN at : i < j => at[i] > at[j]
===============================================================================
