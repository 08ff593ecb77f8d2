------------------------------ MODULE DataStore -------------------------------
(* The data store: namespace files and _meta.json under one workspace, the git *)
(* repository around them, and the routes that work on both: data_store/api.py *)
(* and atomic_data_revision.py. A route is a list of calls into store.py, each *)
(* a load, a change in memory and a write_text; write_text truncates the file  *)
(* before it fills it, so a crash in between leaves a file nothing can parse.  *)
(* Routes run in a thread pool without a lock.                                 *)
EXTENDS Naturals, Sequences, FiniteSets

CONSTANTS
    Names,        \* namespace names
    Meta,         \* the file _meta.json
    Boot,         \* sequence of namespaces a starting server creates when missing
    RevNs,        \* data_revision_graph
    Contracts, Instances, Patches, Data,   \* namespaces of the contract routes
    OpenNames,    \* namespaces clients create, change and delete
    Schemas,      \* target schemas clients set
    Writes,       \* what clients put: functions from keys to values
    KindOf,       \* [value -> "string" | "number" | "bool" | "null"]
    Contract,     \* the slots of a contract, a sequence of
                  \* [bind : keys, accept : {"auto", "manual"}, ds : BOOLEAN]
    ListOf,       \* [key -> the key with _list after it]
    Proposals,    \* data of proposals: sequences of [key, value], as the client sends them
    Bindings,     \* what clients bind: [slot, value], value None when there is none
    Branches, Main,
    Existing,     \* namespaces an earlier session has left
    Threads, Starter,     \* pool threads, and the thread that starts the server
    None,
    MaxRequests, MaxCrashes,   \* bounds: requests sent, crashes
    Kinds,        \* the requests clients send
    LastKinds     \* bound: what the last one may be, sent only if there was no crash

Files == Names \cup {Meta}

ASSUME DataStoreAssumption ==
    /\ Meta \notin Names
    /\ Boot \in Seq(Names) /\ \E i \in DOMAIN Boot : Boot[i] = RevNs
    /\ {Contracts, Instances, Patches, Data} \subseteq Names
    /\ OpenNames \subseteq Names /\ Existing \subseteq Names
    /\ \A p \in Proposals : IsFiniteSet(DOMAIN p)
    /\ Main \in Branches /\ Starter \notin Threads
    /\ RevNs \notin {Contracts, Instances, Patches, Data} /\ Patches # Data
    /\ Contracts \notin {Instances, Patches, Data} /\ Instances \notin {Patches, Data}
    /\ MaxRequests \in Nat /\ MaxCrashes \in Nat
    /\ Kinds \subseteq {"create", "drop", "put", "remove", "schema", "artifact", "revision",
                        "commit", "contract", "bind", "propose", "rollback", "checkout", "branch"}

VARIABLES
    disk,      \* [Files -> contents]: the working tree
    index,     \* [Files -> contents]: git's index
    commits,   \* sequence of [parent, tree]
    head,      \* the branch checked out, or None when HEAD is detached
    at,        \* the commit HEAD is at
    tip,       \* [Branches -> commit, or 0 for a branch that does not exist]
    thread,    \* [Threads \cup {Starter} -> request in progress]
    up,        \* the server has started and takes requests
    sent, crashes,
    promised,  \* [Names -> [keys -> [value, schema]]]: entries answered and not touched since
    revisions, \* answers of commit_revision
    met        \* the requests in progress another one has met (see Conflict)

git == <<index, commits, head, at, tip>>
bounds == <<sent, crashes>>
ghosts == <<promised, revisions, met>>
vars == <<disk, git, thread, up, bounds, ghosts>>
-------------------------------------------------------------------------------
(* Schemas: what a namespace is seeded with, and what set() refuses.           *)
SeedFromSchema(s) ==
    CASE s.type = "table" -> [k \in s.rows \X s.columns |-> s.default]
      [] s.type = "checklist" -> [k \in s.items |-> s.default]
      [] s.type = "record" -> [k \in DOMAIN s.fields |-> s.fields[k].default]

\* A number field takes a bool (an int in Python); enum_values are not looked at.
TypeMap == [string |-> {"string"}, number |-> {"number", "bool"}, bool |-> {"bool"},
            datetime |-> {"string"}, enum |-> {"string"}]

ValidateEntry(s, k, v) ==
    CASE s.type = "table" ->
           Len(k) = 2 => /\ k[1] \in s.rows /\ k[2] \in s.columns
                         /\ s.enum => v \in s.domain
      [] s.type = "checklist" -> s.states # {} => v \in s.states
      [] s.type = "record" -> k \in DOMAIN s.fields /\ KindOf[v] # "null"
                                => KindOf[v] \in TypeMap[s.fields[k].type]

\* A file that is not there, one that is truncated, and the list of _meta.json.
Absent == [file |-> "absent"]
Torn == [file |-> "torn"]
MetaFile(names) == [names |-> names]

\* Entries: one of them, some put over others, and all but some.
Entry(k, v) == [x \in {k} |-> v]
Over(new, old) ==
    [x \in DOMAIN new \cup DOMAIN old |-> IF x \in DOMAIN new THEN new[x] ELSE old[x]]
Without(f, S) == [x \in DOMAIN f \ S |-> f[x]]

Readable(f) == disk[f] \notin {Absent, Torn}
EmptyNamespace == [schema |-> None, entries |-> << >>]

\* Faulty: seeding replaces the entries a namespace already has.
WithSchemaSeeded(file, s) ==
    [schema |-> s, entries |-> Over(SeedFromSchema(s), file.entries)]
WithSchema(file, s) ==
    [schema |-> s, entries |-> Over(file.entries, SeedFromSchema(s))]

NewNamespace(c) ==
    IF c.do = "create" /\ c.schema # None THEN WithSchema(EmptyNamespace, c.schema)
    ELSE EmptyNamespace

\* set, set_many, delete and set_schema on the namespace they have loaded.
Changed(file, c) ==
    CASE c.do = "put" -> [file EXCEPT !.entries = Over(c.entries, @)]
      [] c.do = "remove" -> [file EXCEPT !.entries = Without(@, {c.key})]
      [] c.do = "schema" -> WithSchema(file, c.schema)

\* What makes a call raise once the file is loaded.
Refused(file, c) ==
    \/ c.do = "put" /\ file.schema # None
       /\ \E k \in DOMAIN c.entries : ~ ValidateEntry(file.schema, k, c.entries[k])
    \/ c.do = "remove" /\ c.key \notin DOMAIN file.entries
-------------------------------------------------------------------------------
(* Requests.                                                                   *)
Put(n, entries) == [do |-> "put", file |-> n, entries |-> entries]
Call(what, n) == [do |-> what, file |-> n]
Git(what) == [do |-> what, file |-> None]
EnsureContractNs(call) ==
    <<Call("ensure", Contracts), Call("ensure", Instances), Call("ensure", Patches), call>>

\* Faulty: the revision is committed before its entry is set.
CommitEarly(id) == <<Git("commit"), [do |-> "log", file |-> RevNs, id |-> id]>>
CommitRevision(id) == <<[do |-> "log", file |-> RevNs, id |-> id], Git("commit")>>

\* The calls of each route; id is the uuid or the time stamp it makes up.
Routes(id) ==
    [create    |-> {<<[do |-> "create", file |-> n, schema |-> s]>> :
                        n \in OpenNames, s \in Schemas \cup {None}},
     drop      |-> {<<Call("drop", n)>> : n \in OpenNames},
     put       |-> {<<Put(n, w)>> : n \in OpenNames, w \in Writes},
     remove    |-> {<<[do |-> "remove", file |-> n, key |-> k]>> :
                        n \in OpenNames, k \in UNION {DOMAIN w : w \in Writes}},
     schema    |-> {<<[do |-> "schema", file |-> n, schema |-> s]>> :
                        n \in OpenNames, s \in Schemas},
     artifact  |-> {<<Put(n, w), Git("commit")>> : n \in OpenNames, w \in Writes},
     revision  |-> {CommitRevision(id)},
     commit    |-> {<<Git("commit")>>},
     contract  |-> {EnsureContractNs(Put(Contracts, Entry(<<"contract">>, Contract)))},
     bind      |-> {EnsureContractNs([do |-> "bind", file |-> Contracts, slot |-> b.slot,
                                      value |-> b.value]) : b \in Bindings},
     propose   |-> {EnsureContractNs([do |-> "propose", file |-> Contracts, data |-> p, id |-> id]) :
                        p \in Proposals},
     rollback  |-> {<<[do |-> "rollback", file |-> None, ref |-> r]>> : r \in DOMAIN commits},
     checkout  |-> {<<[do |-> "checkout", file |-> None, ref |-> r]>> : r \in Branches \cup DOMAIN commits},
     branch    |-> {<<[do |-> "branch", file |-> None, name |-> b]>> : b \in Branches}]

\* A revision's key is a uuid, and clients leave the contract to its route: neither
\* is a key of a client or of a schema.
Reserved(key) == /\ \A w \in Writes : key \notin DOMAIN w
                 /\ \A s \in Schemas : key \notin DOMAIN SeedFromSchema(s)
ASSUME FreshAssumption == Reserved(<<"contract">>) /\ \A id \in 1..MaxRequests : Reserved(<<id>>)

Call1(t) == Head(thread[t].todo)
Idle == [pc |-> "idle", todo |-> << >>, asked |-> << >>, buf |-> None, file |-> None,
         revision |-> None]

TouchedBy(c) ==
    CASE c.do \in {"bind", "propose"} -> {Contracts, Instances, Patches, Data}
      [] c.do \in {"create", "ensure", "drop", "put", "remove", "schema", "log"} -> {c.file}
      [] OTHER -> {}
Touched(todo) == UNION {TouchedBy(todo[i]) : i \in DOMAIN todo}

MovesTree(todo) == \E i \in DOMAIN todo : todo[i].do \in {"rollback", "checkout"}

\* Requests that undo each other when they overlap: they load, change and write the
\* same namespace, or git moves the tree under one of them. Nothing keeps them apart.
Conflict(a, b) == Touched(a) \cap Touched(b) # {} \/ MovesTree(a) \/ MovesTree(b)
Meets(todo) == {u \in Threads : thread[u].pc # "idle" /\ Conflict(todo, thread[u].asked)}

Init ==
    LET first == [f \in Files |->
            IF f = Meta THEN MetaFile(Existing) ELSE IF f \notin Existing THEN Absent
            ELSE IF f # Contracts THEN EmptyNamespace
            ELSE [EmptyNamespace EXCEPT !.entries = Entry(<<"contract">>, Contract)]] IN
    /\ disk = first /\ index = first
    /\ commits = <<[parent |-> 0, tree |-> first]>>
    /\ head = Main /\ at = 1
    /\ tip = [b \in Branches |-> IF b = Main THEN 1 ELSE 0]
    /\ thread = [t \in Threads \cup {Starter} |-> Idle]
    /\ up = FALSE /\ sent = 0 /\ crashes = 0
    /\ promised = [n \in Names |-> << >>]
    /\ revisions = {} /\ met = {}

\* The slot of a key: the first that binds the key, or the key with _list after it.
SlotOf(slots, key) ==
    LET found == {i \in DOMAIN slots : slots[i].bind \in {key, ListOf[key]}} IN
    IF found = {} THEN None ELSE slots[CHOOSE i \in found : \A j \in found : i <= j]
IsAuto(slots, key) == SlotOf(slots, key) # None /\ SlotOf(slots, key).accept = "auto"

\* The slots a proposal is accepted for at once, and the value of each: of two keys
\* with one slot, k and k_list, the later one's.
Accepted(slots, data) ==
    {SlotOf(slots, data[i].key).bind : i \in {j \in DOMAIN data : IsAuto(slots, data[j].key)}}
ValueFor(slots, data, b) ==
    LET given == {i \in DOMAIN data : /\ IsAuto(slots, data[i].key)
                                      /\ SlotOf(slots, data[i].key).bind = b} IN
    data[CHOOSE i \in given : \A j \in given : j <= i].value
\* A key of it is pending or unknown.
Waits(slots, data) == \E i \in DOMAIN data : ~ IsAuto(slots, data[i].key)

\* The keys a call may write or delete; what was promised of them lapses when the
\* request starts.
Affects(c, n, k) ==
    \/ c.do = "put" /\ c.file = n /\ k \in DOMAIN c.entries
    \/ c.do = "remove" /\ c.file = n /\ k = c.key
    \/ c.do = "drop" /\ c.file = n
    \/ c.do = "log" /\ c.file = n /\ k = <<c.id>>
    \/ c.do = "bind" /\ n \in {Instances, Data} /\ k = <<c.slot>>
    \/ c.do = "propose" /\ n = Data /\ k \in {<<b>> : b \in Accepted(Contract, c.data)}
    \/ c.do = "propose" /\ n = Patches /\ k = <<c.id>>

Begin(t) ==
    /\ up /\ thread[t].pc = "idle" /\ sent < MaxRequests
    /\ sent' = sent + 1
    /\ \E kind \in Kinds : \E todo \in Routes(sent + 1)[kind] :
       /\ sent + 1 < MaxRequests \/ (kind \in LastKinds /\ crashes = 0)
       /\ thread' = [thread EXCEPT
              ![t] = [Idle EXCEPT !.pc = "call", !.todo = todo, !.asked = todo]]
       /\ promised' = [n \in Names |-> Without(promised[n],
              {k \in DOMAIN promised[n] : \E i \in DOMAIN todo : Affects(todo[i], n, k)})]
       /\ met' = (met \ {t}) \cup Meets(todo) \cup (IF Meets(todo) = {} THEN {} ELSE {t})
    /\ UNCHANGED <<disk, git, up, crashes, revisions>>

Fail(t) == thread' = [thread EXCEPT ![t] = Idle]
Go(t, pc) == thread' = [thread EXCEPT ![t].pc = pc]
Save(t, f, contents) ==
    thread' = [thread EXCEPT ![t].pc = "truncate", ![t].file = f, ![t].buf = contents]
Advance(t) ==
    thread' = [thread EXCEPT ![t].pc = "call", ![t].todo = Tail(@), ![t].file = None, ![t].buf = None]

AtCall(t, what) == thread[t].pc = "call" /\ thread[t].todo # << >> /\ Call1(t).do \in what

\* load_namespace, the check and the change.
Load(t) ==
    /\ AtCall(t, {"put", "remove", "schema"})
    /\ LET c == Call1(t) IN
       IF ~ Readable(c.file) \/ Refused(disk[c.file], c) THEN Fail(t)
       ELSE Save(t, c.file, Changed(disk[c.file], c))
    /\ UNCHANGED <<disk, git, up, bounds, ghosts>>

\* Faulty: the namespaces that exist are read from _meta.json.
ListedInMeta(n) == disk[Meta] # Torn /\ n \in disk[Meta].names
\* list_namespaces and path.exists: a namespace is its file.
Listed(n) == disk[n] # Absent

Create(t) ==
    /\ AtCall(t, {"create", "ensure"})
    /\ LET c == Call1(t) IN
       IF ~ Listed(c.file) THEN Save(t, c.file, NewNamespace(c))
       ELSE IF c.do = "create" THEN Fail(t) ELSE Advance(t)
    /\ UNCHANGED <<disk, git, up, bounds, ghosts>>

Unlink(t) ==
    /\ AtCall(t, {"drop"})
    /\ disk' = [disk EXCEPT ![Call1(t).file] = Absent]
    /\ Go(t, "meta")
    /\ UNCHANGED <<git, up, bounds, ghosts>>

\* write_text: open for writing truncates, the contents follow.
Truncate(t) ==
    /\ thread[t].pc = "truncate"
    /\ disk' = [disk EXCEPT ![thread[t].file] = Torn]
    /\ Go(t, "write")
    /\ UNCHANGED <<git, up, bounds, ghosts>>

Write(t) ==
    /\ thread[t].pc = "write"
    /\ disk' = [disk EXCEPT ![thread[t].file] = thread[t].buf]
    /\ IF thread[t].file # Meta /\ Call1(t).do \in {"create", "ensure"}
       THEN Go(t, "meta") ELSE Advance(t)
    /\ UNCHANGED <<git, up, bounds, ghosts>>

MetaAfter(c, names) == IF c.do = "drop" THEN names \ {c.file} ELSE names \cup {c.file}

UpdateMeta(t) ==
    /\ thread[t].pc = "meta"
    /\ IF disk[Meta] = Torn THEN Fail(t)
       ELSE LET names == MetaAfter(Call1(t), disk[Meta].names) IN
            IF names = disk[Meta].names THEN Advance(t) ELSE Save(t, Meta, MetaFile(names))
    /\ UNCHANGED <<disk, git, up, bounds, ghosts>>

-------------------------------------------------------------------------------
(* Contracts.                                                                  *)
TheContract == LET found == disk[Contracts].entries IN
    IF <<"contract">> \in DOMAIN found THEN found[<<"contract">>] ELSE << >>
ReadContract(t) == Readable(Contracts) /\ <<"contract">> \in DOMAIN disk[Contracts].entries

Continue(t, calls) == thread' = [thread EXCEPT ![t].todo = calls \o Tail(@)]

\* instantiate_contract: the instance is recorded before its value is written.
Bind(t) ==
    /\ AtCall(t, {"bind"})
    /\ LET c == Call1(t)
           bound == {i \in DOMAIN TheContract : TheContract[i].bind = c.slot} IN
       IF ~ ReadContract(t) \/ bound = {} THEN Fail(t)
       ELSE IF ~ TheContract[CHOOSE i \in bound : \A j \in bound : i <= j].ds THEN Fail(t)
       ELSE Continue(t, <<Put(Instances, Entry(<<c.slot>>, "instance"))>> \o
                IF c.value = None THEN << >>
                ELSE <<Call("ensure", Data), Put(Data, Entry(<<c.slot>>, c.value))>>)
    /\ UNCHANGED <<disk, git, up, bounds, ghosts>>

\* The proposal is stored when a key of it is pending or unknown.
Pending(c) ==
    IF Waits(TheContract, c.data) THEN <<Put(Patches, Entry(<<c.id>>, c.data))>> ELSE << >>

\* The accepted slots, in the order in which the client has first named them.
Orders(S) == {f \in [1..Cardinality(S) -> S] : \A k \in S : \E i \in DOMAIN f : f[i] = k}
WriteEach(data, order) ==
    [i \in 1..(2 * Len(order)) |-> LET b == order[(i + 1) \div 2] IN
        IF i % 2 = 1 THEN Call("ensure", Data)
        ELSE Put(Data, Entry(<<b>>, ValueFor(TheContract, data, b)))]

\* propose_patch: accepted slots one by one, and then the proposal.
Propose(t) ==
    /\ AtCall(t, {"propose"})
    /\ LET c == Call1(t) IN
       IF ~ ReadContract(t) THEN Fail(t)
       ELSE \E order \in Orders(Accepted(TheContract, c.data)) :
                Continue(t, WriteEach(c.data, order) \o Pending(c))
    /\ UNCHANGED <<disk, git, up, bounds, ghosts>>
-------------------------------------------------------------------------------
(* Git.                                                                        *)
LogParent(t) ==
    /\ AtCall(t, {"log"})
    /\ LET c == Call1(t)
           entry == [parent |-> at, branch |-> head] IN
       thread' = [thread EXCEPT
           ![t].todo = <<Put(c.file, Entry(<<c.id>>, entry))>> \o Tail(@),
           ![t].revision = [id |-> c.id, parent |-> at, commit |-> 0]]
    /\ UNCHANGED <<disk, git, up, bounds, ghosts>>

\* Two git commands at a time: the second finds index.lock and fails.
Locked(t) == \E u \in Threads \ {t} : thread[u].pc = "commit" \/ AtCall(u, {"commit"})

AddAll(t) ==
    /\ AtCall(t, {"commit"})
    /\ \/ index' = disk /\ Go(t, "commit")
       \/ Locked(t) /\ Fail(t) /\ UNCHANGED index
    /\ UNCHANGED <<disk, commits, head, at, tip, up, bounds, ghosts>>

TipAt(c) == IF head = None THEN tip ELSE [tip EXCEPT ![head] = c]

\* status and commit. Nothing to commit is no error, a commit another thread has made
\* already is none; a change git has not staged is one.
Commit(t) ==
    /\ thread[t].pc = "commit"
    /\ \/ /\ index = commits[at].tree
          /\ IF disk = index THEN Advance(t) ELSE Fail(t)
          /\ UNCHANGED <<commits, at, tip>>
       \/ /\ index # commits[at].tree
          /\ commits' = Append(commits, [parent |-> at, tree |-> index])
          /\ at' = Len(commits')
          /\ tip' = TipAt(at')
          /\ Go(t, "revparse")
       \/ Locked(t) /\ Fail(t) /\ UNCHANGED <<commits, at, tip>>
    /\ UNCHANGED <<disk, index, head, up, bounds, ghosts>>

\* rev-parse HEAD: by now another commit may be there.
RevParse(t) ==
    /\ thread[t].pc = "revparse"
    /\ thread' = [thread EXCEPT ![t].pc = "call", ![t].todo = Tail(@),
           ![t].revision = IF @ = None THEN None ELSE [@ EXCEPT !.commit = at]]
    /\ UNCHANGED <<disk, git, up, bounds, ghosts>>

\* checkout ref -- . : the files of the commit come back, newer ones stay.
Rollback(t) ==
    /\ AtCall(t, {"rollback"})
    /\ LET tree == commits[Call1(t).ref].tree
           restored(files) == [f \in Files |-> IF tree[f] # Absent THEN tree[f] ELSE files[f]] IN
       disk' = restored(disk) /\ index' = restored(index)
    /\ promised' = [n \in Names |-> << >>]
    /\ Advance(t)
    /\ UNCHANGED <<commits, head, at, tip, up, bounds, revisions, met>>

\* checkout ref: refused when it would lose a change that is not committed.
Checkout(t) ==
    /\ AtCall(t, {"checkout"})
    /\ LET ref == Call1(t).ref
           goal == IF ref \in Branches THEN tip[ref] ELSE ref
           old == commits[at].tree
           new == commits[goal].tree
           moved == {f \in Files : old[f] # new[f] /\ index[f] # new[f]} IN
       IF goal = 0 \/ \E f \in moved : index[f] # old[f] \/ disk[f] # index[f]
       THEN Fail(t) /\ UNCHANGED <<disk, index, head, at, promised>>
       ELSE /\ disk' = [f \in Files |-> IF f \in moved THEN new[f] ELSE disk[f]]
            /\ index' = [f \in Files |-> IF f \in moved THEN new[f] ELSE index[f]]
            /\ head' = IF ref \in Branches THEN ref ELSE None
            /\ at' = goal
            /\ promised' = [n \in Names |-> << >>]
            /\ Advance(t)
    /\ UNCHANGED <<commits, tip, up, bounds, revisions, met>>

\* git branch name current: fails on a name in use and on a detached HEAD.
CreateBranch(t) ==
    /\ AtCall(t, {"branch"})
    /\ IF head = None \/ tip[Call1(t).name] # 0 THEN Fail(t) /\ UNCHANGED tip
       ELSE tip' = [tip EXCEPT ![Call1(t).name] = at] /\ Advance(t)
    /\ UNCHANGED <<disk, index, commits, head, at, up, bounds, ghosts>>
-------------------------------------------------------------------------------
(* Answers, crashes and starts.                                                *)

\* The data a contract accepts at once, as entries.
Keyed(data) == [key \in {<<b>> : b \in Accepted(Contract, data)} |->
                   ValueFor(Contract, data, key[1])]

\* What a call of a route that answers 200 has promised about namespace n: the
\* entries it put, the data a contract accepts at once, the proposal otherwise.
Promise(c, n) ==
    CASE c.do = "put" /\ c.file = n -> c.entries
      [] c.do = "bind" /\ n = Data /\ c.value # None -> Entry(<<c.slot>>, c.value)
      [] c.do = "propose" /\ n = Data -> Keyed(c.data)
      [] c.do = "propose" /\ n = Patches /\ Waits(Contract, c.data) -> Entry(<<c.id>>, c.data)
      [] OTHER -> << >>

Answered(todo, n) ==
    LET all == [i \in DOMAIN todo |-> Promise(todo[i], n)]
        last == IF todo = << >> THEN << >> ELSE all[CHOOSE i \in DOMAIN todo :
                    all[i] # << >> \/ \A j \in DOMAIN todo : all[j] = << >>] IN
    [k \in DOMAIN last |-> [value |-> last[k],
                            schema |-> IF Readable(n) THEN disk[n].schema ELSE None]]

\* The answer promises something when the request has met none it conflicts with.
Respond(t) ==
    /\ t \in Threads /\ thread[t].pc = "call" /\ thread[t].todo = << >>
    /\ IF t \in met THEN UNCHANGED <<promised, revisions>>
       ELSE /\ promised' = [n \in Names |-> Over(Answered(thread[t].asked, n), promised[n])]
            /\ revisions' = revisions \cup ({thread[t].revision} \ {None})
    /\ thread' = [thread EXCEPT ![t] = Idle]
    /\ UNCHANGED <<disk, git, up, bounds, met>>

Crash ==
    /\ crashes < MaxCrashes /\ crashes' = crashes + 1
    /\ sent < MaxRequests
    /\ thread' = [t \in DOMAIN thread |-> Idle]
    /\ up' = FALSE
    /\ UNCHANGED <<disk, git, sent, ghosts>>

\* create_app: the namespaces the routers need; a start that raises is repeated.
Start ==
    /\ ~ up /\ thread[Starter].pc = "idle"
    /\ thread' = [thread EXCEPT ![Starter] = [Idle EXCEPT !.pc = "call",
           !.todo = [i \in DOMAIN Boot |-> Call("ensure", Boot[i])]]]
    /\ UNCHANGED <<disk, git, up, bounds, ghosts>>

Serving ==
    /\ thread[Starter].pc = "call" /\ thread[Starter].todo = << >>
    /\ up' = TRUE
    /\ thread' = [thread EXCEPT ![Starter] = Idle]
    /\ UNCHANGED <<disk, git, bounds, ghosts>>
-------------------------------------------------------------------------------
File(t) == Load(t) \/ Create(t) \/ Unlink(t) \/ Truncate(t) \/ Write(t) \/ UpdateMeta(t)
Repository(t) == LogParent(t) \/ AddAll(t) \/ Commit(t) \/ RevParse(t)
                 \/ Rollback(t) \/ Checkout(t) \/ CreateBranch(t)

Next ==
    \/ \E t \in Threads : Begin(t) \/ Bind(t) \/ Propose(t) \/ Repository(t) \/ Respond(t)
    \/ \E t \in Threads \cup {Starter} : File(t)
    \/ Crash \/ Start \/ Serving

\* A server that is starting is not suspended, and is started again when it fails.
Spec == Init /\ [][Next]_vars /\ WF_vars(File(Starter) \/ Start \/ Serving)
-------------------------------------------------------------------------------

\* store.py:5 "Every set/delete flushes to disk immediately": what a route has
\* answered, that no conflicting request overlapped, is on disk, whatever requests,
\* overlapping ones too, failures and crashes come after it, until a request names
\* the key or git moves the tree; unless a crash came between the truncation and the
\* writing of the same file.
AnsweredIsOnDisk == \A n \in Names : disk[n] # Torn =>
    \A k \in DOMAIN promised[n] :
        /\ disk[n] # Absent /\ k \in DOMAIN disk[n].entries
        /\ disk[n].entries[k] = promised[n][k].value

\* The least set of commits that holds c and the parents of what it holds.
Ancestors(c) == {a \in DOMAIN commits : \A S \in SUBSET DOMAIN commits :
    c \in S /\ (\A x \in S : commits[x].parent \in S \cup {0}) => a \in S}
Records(c, r) ==
    LET file == commits[c].tree[RevNs] IN
    file \notin {Absent, Torn} /\ <<r.id>> \in DOMAIN file.entries

\* A revision that commit_revision has answered, and that no conflicting request
\* overlapped, is in the history: one commit brings its entry in, the parent it names
\* is before that commit, and the commit it answers, when it answers one, holds the
\* entry; also when other threads commit, and fail, between its steps.
RevisionLineage == \A r \in revisions :
    /\ \E c \in DOMAIN commits :
         /\ Records(c, r) /\ commits[c].parent # 0 /\ ~ Records(commits[c].parent, r)
         /\ r.parent \in Ancestors(commits[c].parent)
    /\ r.commit # 0 => Records(r.commit, r)

\* A crash, wherever it comes, never keeps the server from starting again: a start
\* that fails on a torn _meta.json has created the file it was creating, and the
\* next one goes on.
ComesUp == ~ up ~> up
===============================================================================
