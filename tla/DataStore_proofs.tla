--------------------------- MODULE DataStore_proofs ----------------------------
(* Proofs that a revision which was answered is in the history (Inv), and that *)
(* what a route has answered is on disk (Durable), for requests that have met  *)
(* none they conflict with, whatever requests, overlaps, commits, moves of the *)
(* tree and crashes come after the answer.                                     *)
EXTENDS DataStore, FiniteSetTheorems, SequenceTheorems, TLAPS

IsSeq(s) == s \in Seq({s[i] : i \in DOMAIN s})
All == Threads \cup {Starter}

\* Files: what a namespace's file may be, and whether it holds a revision's entry.
IsFile(f) == f \in {Absent, Torn} \/ DOMAIN f = {"schema", "entries"}
Has(f, id) == f \notin {Absent, Torn} /\ <<id>> \in DOMAIN f.entries

\* The history C: parents come before their children.
Graph(C) == IsSeq(C) /\ \A c \in DOMAIN C :
    C[c].parent \in 0..(c - 1) /\ \A n \in Names : IsFile(C[c].tree[n])
Above(C, c) == {a \in DOMAIN C : \A S \in SUBSET DOMAIN C :
    c \in S /\ (\A x \in S : C[x].parent \in S \cup {0}) => a \in S}
Rec(C, c, id) == Has(C[c].tree[RevNs], id)
\* One commit brings the entry in, and p is before it.
Brought(C, id, p) == \E c \in DOMAIN C :
    /\ Rec(C, c, id) /\ C[c].parent # 0 /\ ~ Rec(C, C[c].parent, id)
    /\ p \in Above(C, C[c].parent)
\* The steps of HEAD that others' commits make.
Grown(C, a, x) == Append(C, [parent |-> a, tree |-> x])
GrowsTo(C, a, x, D, b) ==
    \/ D = C /\ b = a
    \/ D = Grown(C, a, x) /\ b = Len(D)
\* A commit a of C, and files x that git has staged on it.
Fit(C, a, x) == Graph(C) /\ a \in DOMAIN C /\ \A n \in Names : IsFile(x[n])
Adds(C, a, x, D) == Fit(C, a, x) /\ D = Grown(C, a, x)

\* No id that is still to be made up, of those after s, is a key of f.
Fresh(f, s) == \A id \in (s + 1)..MaxRequests : ~ Has(f, id)

FilesInv ==
    /\ DOMAIN disk = Files /\ DOMAIN index = Files
    /\ \A n \in Names : IsFile(disk[n]) /\ IsFile(index[n])
HistoryInv ==
    /\ Graph(commits) /\ at \in DOMAIN commits
    /\ DOMAIN tip = Branches /\ \A b \in Branches : tip[b] \in 0..Len(commits)
TypeOK ==
    /\ sent \in 0..MaxRequests /\ up \in BOOLEAN /\ DOMAIN thread = All
    /\ FilesInv /\ HistoryInv

\* What a thread is at: each place has the call it serves at the head of its list.
OnFile == {"put", "remove", "schema", "log", "create", "ensure", "drop"}
CallOK(c, s, n) ==
    /\ c.do \in OnFile => c.file \in Names
    /\ c.do = "log" => c.file = RevNs /\ c.id \in 1..s
    /\ c.do = "put" /\ c.file = RevNs =>
          \A id \in (s + 1)..MaxRequests : <<id>> \notin DOMAIN c.entries
    /\ c.do = "create" => c.schema \in Schemas \cup {None}
    /\ c.do = "schema" => c.schema \in Schemas
    /\ c.do = "propose" => IsFiniteSet(DOMAIN c.data)
    /\ c.do = "checkout" => c.ref \in Branches \cup 1..n
    /\ c.do = "rollback" => c.ref \in 1..n
Placed(th, s, n) ==
    /\ DOMAIN th = {"pc", "todo", "asked", "buf", "file", "revision"}
    /\ th.pc \in {"idle", "call", "truncate", "write", "meta", "commit", "revparse"}
    /\ IsSeq(th.todo) /\ \A i \in DOMAIN th.todo : CallOK(th.todo[i], s, n)
    /\ th.pc = "idle" => th.todo = << >> /\ th.asked = << >> /\ th.revision = None
    /\ th.pc \in {"truncate", "write"} =>
          /\ th.todo # << >>
          /\ \/ th.file = Meta
             \/ /\ th.file = th.todo[1].file
                /\ th.todo[1].do \in {"put", "remove", "schema", "create", "ensure"}
                /\ DOMAIN th.buf = {"schema", "entries"}
                /\ th.file = RevNs => Fresh(th.buf, s)
    /\ th.pc = "meta" => th.todo # << >> /\ th.todo[1].do \in {"create", "ensure", "drop"}
    /\ th.pc \in {"commit", "revparse"} => th.todo # << >> /\ th.todo[1].do = "commit"
PlaceInv == \A t \in All : Placed(thread[t], sent, Len(commits))

\* Its calls stay within the namespaces the request touches, and git moves the tree
\* for none that does not ask for it.
IsLog(asked) == \E id \in 1..MaxRequests : asked = CommitRevision(id)
Inside(c, asked) ==
    /\ TouchedBy(c) \subseteq Touched(asked)
    /\ c.do \in {"rollback", "checkout"} => MovesTree(asked)
Origin(th) ==
    /\ \A i \in DOMAIN th.todo : Inside(th.todo[i], th.asked)
    /\ \A i \in DOMAIN th.todo : th.todo[i].do = "log" => IsLog(th.asked)
    /\ th.revision # None => IsLog(th.asked)
OriginInv == \A t \in Threads : Origin(thread[t])

\* The server starts and serves by turns, and a request that has met none is apart
\* from those in progress.
ServeInv ==
    /\ up => thread[Starter].pc = "idle"
    /\ ~ up => \A t \in Threads : thread[t].pc = "idle"
ApartInv == \A t, u \in Threads :
    t # u /\ t \notin met /\ thread[t].pc # "idle" /\ thread[u].pc # "idle" =>
        ~ Conflict(thread[t].asked, thread[u].asked)

\* An id that is still to be made up is nowhere.
SeenInv == Fresh(disk[RevNs], sent) /\ Fresh(index[RevNs], sent)
           /\ \A c \in DOMAIN commits : Fresh(commits[c].tree[RevNs], sent)

\* How far a request has come that records the revision id, with the file d on
\* disk, the index x and HEAD at commit a of C: its parent is read, its entry is
\* written, staged, committed, and the answer is ready.
Own(th, id, C, a) ==
    /\ th.revision = [id |-> id, parent |-> th.revision.parent, commit |-> 0]
    /\ th.revision.parent \in Above(C, a)
Unseen(id, d, x, C) == ~ Has(d, id) /\ ~ Has(x[RevNs], id) /\ \A c \in DOMAIN C : ~ Rec(C, c, id)
Asking(th, id, d, x, C) ==
    th.pc = "call" /\ th.todo = CommitRevision(id) /\ Unseen(id, d, x, C)
Writing(th, id, d, x, C, a) ==
    /\ th.pc \in {"call", "truncate", "write"}
    /\ Len(th.todo) = 2 /\ th.todo[2] = Git("commit")
    /\ th.todo[1] = Put(RevNs, Entry(<<id>>, th.todo[1].entries[<<id>>]))
    /\ th.pc # "call" => th.file = RevNs /\ Has(th.buf, id)
    /\ Own(th, id, C, a) /\ Unseen(id, d, x, C)
Staging(th, id, d, x, C, a) ==
    /\ th.pc \in {"call", "commit"} /\ th.todo = <<Git("commit")>>
    /\ Has(d, id) /\ (th.pc = "commit" => Has(x[RevNs], id))
    /\ Own(th, id, C, a)
    /\ (\E c \in DOMAIN C : Rec(C, c, id)) => Brought(C, id, th.revision.parent)
Committed(th, id, d, x, C, a) ==
    /\ th.pc = "revparse" /\ th.todo = <<Git("commit")>>
    /\ Has(d, id) /\ Has(x[RevNs], id) /\ Rec(C, a, id)
    /\ Own(th, id, C, a) /\ Brought(C, id, th.revision.parent)
Good(r, C) ==
    /\ Brought(C, r.id, r.parent)
    /\ r.commit # 0 => r.commit \in DOMAIN C /\ Rec(C, r.commit, r.id)
Done(th, id, C) ==
    th.pc = "call" /\ th.todo = << >> /\ th.revision.id = id /\ Good(th.revision, C)
LogAt(th, id, d, x, C, a) ==
    \/ Asking(th, id, d, x, C) \/ Writing(th, id, d, x, C, a) \/ Staging(th, id, d, x, C, a)
    \/ Committed(th, id, d, x, C, a) \/ Done(th, id, C)
LogInv == \A t \in Threads, id \in 1..MaxRequests :
    t \notin met /\ thread[t].asked = CommitRevision(id) =>
        id <= sent /\ LogAt(thread[t], id, disk[RevNs], index, commits, at)
LineageInv == \A r \in revisions : Good(r, commits)

Inv == TypeOK /\ PlaceInv /\ OriginInv /\ ServeInv /\ ApartInv /\ SeenInv /\ LogInv /\ LineageInv
-------------------------------------------------------------------------------
(* Sequences.                                                                  *)
LEMMA SeqIs ==
    ASSUME NEW n \in Nat, NEW s, DOMAIN s = 1..n, s = [i \in 1..n |-> s[i]]
    PROVE  IsSeq(s) /\ Len(s) = n
<1>. DEFINE S == {s[i] : i \in DOMAIN s}
<1>1. s \in [1..n -> S]  OBVIOUS
<1>. HIDE DEF S
<1>2. s \in Seq(S)  BY <1>1, SeqDef
<1>3. Len(s) = n  BY <1>1, <1>2, LenProperties
<1>. QED  BY <1>2, <1>3 DEF IsSeq, S

LEMMA SeqLen ==
    ASSUME NEW s, IsSeq(s)
    PROVE  Len(s) \in Nat /\ DOMAIN s = 1..Len(s) /\ (s = << >> <=> Len(s) = 0)
BY LenProperties, EmptySeq DEF IsSeq

LEMMA SeqTail ==
    ASSUME NEW s, IsSeq(s), s # << >>
    PROVE  /\ 1 \in DOMAIN s /\ Head(s) = s[1]
           /\ IsSeq(Tail(s)) /\ Len(Tail(s)) = Len(s) - 1
           /\ \A i \in DOMAIN Tail(s) : i + 1 \in DOMAIN s /\ Tail(s)[i] = s[i + 1]
<1>. DEFINE S == {s[i] : i \in DOMAIN s}  r == Tail(s)
<1>1. s \in Seq(S)  BY DEF IsSeq
<1>2. Len(s) \in Nat /\ Len(s) # 0 /\ DOMAIN s = 1..Len(s)  BY SeqLen
<1>3. r \in Seq(S) /\ Len(r) = Len(s) - 1 /\ \A i \in 1..Len(r) : r[i] = s[i + 1]
  BY <1>1, <1>2, HeadTailProperties
<1>. HIDE DEF S
<1>4. Head(s) = s[1]  BY <1>1, <1>2
<1>. HIDE DEF r
<1>5. DOMAIN r = 1..Len(r) /\ r \in Seq({r[i] : i \in DOMAIN r})  BY <1>3, LenProperties
<1>6. IsSeq(r)  BY <1>5 DEF IsSeq
<1>7. \A i \in DOMAIN r : i + 1 \in DOMAIN s /\ r[i] = s[i + 1]  BY <1>2, <1>3, <1>5
<1>8. 1 \in DOMAIN s  BY <1>2
<1>. QED  BY <1>3, <1>4, <1>6, <1>7, <1>8 DEF r

LEMMA SeqConcat ==
    ASSUME NEW s, NEW t, IsSeq(s), IsSeq(t)
    PROVE  /\ IsSeq(s \o t) /\ Len(s \o t) = Len(s) + Len(t)
           /\ \A i \in DOMAIN (s \o t) :
                 \/ i \in DOMAIN s /\ (s \o t)[i] = s[i]
                 \/ i - Len(s) \in DOMAIN t /\ (s \o t)[i] = t[i - Len(s)]
<1>. DEFINE S == {s[i] : i \in DOMAIN s} \cup {t[i] : i \in DOMAIN t}  r == s \o t
<1>1. s \in Seq(S) /\ t \in Seq(S)  BY SeqMonotonic DEF IsSeq
<1>2. Len(s) \in Nat /\ DOMAIN s = 1..Len(s) /\ Len(t) \in Nat /\ DOMAIN t = 1..Len(t)  BY SeqLen
<1>. HIDE DEF S
<1>3. /\ r \in Seq(S) /\ Len(r) = Len(s) + Len(t)
      /\ \A i \in 1..(Len(s) + Len(t)) : r[i] = IF i <= Len(s) THEN s[i] ELSE t[i - Len(s)]
  BY <1>1, ConcatProperties
<1>. HIDE DEF r
<1>4. DOMAIN r = 1..Len(r) /\ r \in Seq({r[i] : i \in DOMAIN r})  BY <1>3, LenProperties
<1>5. IsSeq(r)  BY <1>4 DEF IsSeq
<1>6. ASSUME NEW i \in DOMAIN r
      PROVE  \/ i \in DOMAIN s /\ r[i] = s[i]
             \/ i - Len(s) \in DOMAIN t /\ r[i] = t[i - Len(s)]
  BY <1>2, <1>3, <1>4, <1>6
<1>. QED  BY <1>3, <1>5, <1>6 DEF r

LEMMA SeqAppend ==
    ASSUME NEW s, NEW x, IsSeq(s)
    PROVE  /\ IsSeq(Append(s, x)) /\ Len(s) \in Nat /\ DOMAIN s = 1..Len(s)
           /\ Len(Append(s, x)) = Len(s) + 1 /\ DOMAIN Append(s, x) = 1..(Len(s) + 1)
           /\ \A j \in 1..Len(s) : Append(s, x)[j] = s[j]
           /\ Append(s, x)[Len(s) + 1] = x
<1>. DEFINE S == {s[i] : i \in DOMAIN s}  r == Append(s, x)
<1>1. s \in Seq(S \cup {x})  BY SeqMonotonic DEF IsSeq
<1>2. r \in Seq(S \cup {x}) /\ Len(s) \in Nat /\ DOMAIN s = 1..Len(s) /\ Len(r) = Len(s) + 1
      /\ DOMAIN r = 1..(Len(s) + 1) /\ (\A j \in 1..Len(s) : r[j] = s[j]) /\ r[Len(s) + 1] = x
  BY <1>1
<1>. HIDE DEF S, r
<1>3. r \in Seq({r[i] : i \in DOMAIN r})  BY <1>2
<1>. QED  BY <1>2, <1>3 DEF IsSeq, r

LEMMA SeqShort ==
    /\ IsSeq(<< >>) /\ DOMAIN << >> = {}
    /\ \A a : IsSeq(<<a>>) /\ Len(<<a>>) = 1 /\ DOMAIN <<a>> = 1..1 /\ <<a>>[1] = a
    /\ \A a, b : IsSeq(<<a, b>>) /\ Len(<<a, b>>) = 2 /\ DOMAIN <<a, b>> = 1..2
    /\ \A a, b, c : IsSeq(<<a, b, c>>) /\ DOMAIN <<a, b, c>> = 1..3
    /\ \A a, b, c, d : IsSeq(<<a, b, c, d>>) /\ DOMAIN <<a, b, c, d>> = 1..4
<1>1. IsSeq(<< >>) /\ DOMAIN << >> = {}
  <2>1. << >> \in Seq({1}) /\ Len(<< >>) = 0  BY EmptySeq
  <2>2. DOMAIN << >> = 1..0  BY <2>1, LenProperties
  <2>3. << >> \in Seq({<< >>[i] : i \in DOMAIN << >>})  BY EmptySeq
  <2>. QED  BY <2>2, <2>3 DEF IsSeq
<1>2. ASSUME NEW a PROVE IsSeq(<<a>>) /\ Len(<<a>>) = 1 /\ DOMAIN <<a>> = 1..1 /\ <<a>>[1] = a
  <2>1. <<a>> \in Seq({a}) /\ Len(<<a>>) = 1 /\ DOMAIN <<a>> = 1..1 /\ <<a>>[1] = a  OBVIOUS
  <2>2. {<<a>>[i] : i \in DOMAIN <<a>>} = {a}  BY <2>1
  <2>. QED  BY <2>1, <2>2 DEF IsSeq
<1>3. ASSUME NEW a, NEW b PROVE IsSeq(<<a, b>>) /\ Len(<<a, b>>) = 2 /\ DOMAIN <<a, b>> = 1..2
  <2>1. <<a, b>> \in Seq({a, b}) /\ Len(<<a, b>>) = 2 /\ DOMAIN <<a, b>> = 1..2
        /\ <<a, b>>[1] = a /\ <<a, b>>[2] = b  OBVIOUS
  <2>2. {<<a, b>>[i] : i \in DOMAIN <<a, b>>} = {a, b}  BY <2>1
  <2>. QED  BY <2>1, <2>2 DEF IsSeq
<1>4. ASSUME NEW a, NEW b, NEW c PROVE IsSeq(<<a, b, c>>) /\ DOMAIN <<a, b, c>> = 1..3
  <2>. DEFINE r == <<a, b, c>>
  <2>1. r \in Seq({a, b, c}) /\ DOMAIN r = 1..3 /\ r[1] = a /\ r[2] = b /\ r[3] = c  OBVIOUS
  <2>. HIDE DEF r
  <2>2. {r[i] : i \in DOMAIN r} = {a, b, c}  BY <2>1
  <2>. QED  BY <2>1, <2>2 DEF IsSeq, r
<1>5. ASSUME NEW a, NEW b, NEW c, NEW d PROVE IsSeq(<<a, b, c, d>>) /\ DOMAIN <<a, b, c, d>> = 1..4
  <2>. DEFINE r == <<a, b, c, d>>
  <2>1. r \in Seq({a, b, c, d}) /\ DOMAIN r = 1..4 /\ r[1] = a /\ r[2] = b /\ r[3] = c /\ r[4] = d  OBVIOUS
  <2>. HIDE DEF r
  <2>2. {r[i] : i \in DOMAIN r} = {a, b, c, d}  BY <2>1
  <2>. QED  BY <2>1, <2>2 DEF IsSeq, r
<1>. QED  BY <1>1, <1>2, <1>3, <1>4, <1>5
-------------------------------------------------------------------------------
(* What a route's calls are, and what they make of a file.                     *)
Served(todo, id, n) ==
    /\ IsSeq(todo) /\ todo # << >>
    /\ \A i \in DOMAIN todo : CallOK(todo[i], id, n)
    /\ todo = CommitRevision(id) \/ \A i \in DOMAIN todo : todo[i].do # "log"

LEMMA OneCall ==
    ASSUME NEW c, NEW id, NEW n, CallOK(c, id, n), c.do # "log"
    PROVE  Served(<<c>>, id, n)
<1>1. IsSeq(<<c>>) /\ DOMAIN <<c>> = 1..1 /\ <<c>>[1] = c  BY SeqShort
<1>. QED  BY <1>1 DEF Served

LEMMA ContractCalls ==
    ASSUME NEW c, NEW id, NEW n, CallOK(c, id, n), c.do # "log"
    PROVE  Served(EnsureContractNs(c), id, n)
<1>. DEFINE r == EnsureContractNs(c)
<1>1. /\ IsSeq(r) /\ DOMAIN r = 1..4  BY SeqShort DEF EnsureContractNs
<1>2. /\ r[1] = Call("ensure", Contracts) /\ r[2] = Call("ensure", Instances)
      /\ r[3] = Call("ensure", Patches) /\ r[4] = c  BY DEF EnsureContractNs
<1>3. \A m \in {Contracts, Instances, Patches} :
          CallOK(Call("ensure", m), id, n) /\ Call("ensure", m).do # "log"
  BY DataStoreAssumption DEF CallOK, Call
<1>. HIDE DEF r
<1>4. \A i \in DOMAIN r : CallOK(r[i], id, n) /\ r[i].do # "log"  BY <1>1, <1>2, <1>3
<1>5. r # << >>  BY <1>1, SeqShort
<1>. QED  BY <1>1, <1>4, <1>5 DEF Served, r

LEMMA CommitIs ==
    ASSUME NEW id
    PROVE  /\ CommitRevision(id) # << >> /\ DOMAIN CommitRevision(id) = 1..2
           /\ IsSeq(CommitRevision(id)) /\ Len(CommitRevision(id)) = 2
           /\ CommitRevision(id)[1] = [do |-> "log", file |-> RevNs, id |-> id]
           /\ CommitRevision(id)[2] = Git("commit")
<1>. DEFINE r == CommitRevision(id)
<1>1. /\ IsSeq(r) /\ DOMAIN r = 1..2 /\ Len(r) = 2
      /\ r[1] = [do |-> "log", file |-> RevNs, id |-> id] /\ r[2] = Git("commit")
  BY SeqShort DEF CommitRevision
<1>2. r # << >>  BY <1>1, SeqShort
<1>. QED  BY <1>1, <1>2 DEF r

LEMMA CommitCalls ==
    ASSUME NEW id \in 1..MaxRequests, NEW n
    PROVE  Served(CommitRevision(id), id, n)
<1>. DEFINE r == CommitRevision(id)
<1>1. /\ IsSeq(r) /\ DOMAIN r = 1..2 /\ r # << >>
      /\ r[1] = [do |-> "log", file |-> RevNs, id |-> id] /\ r[2] = Git("commit")
  BY CommitIs
<1>2. RevNs \in Names
  <2>1. PICK i \in DOMAIN Boot : Boot[i] = RevNs  BY DataStoreAssumption
  <2>. QED  BY <2>1, DataStoreAssumption
<1>a. id \in 1..id  BY DataStoreAssumption
<1>3. CallOK(r[1], id, n) /\ CallOK(r[2], id, n)  BY <1>1, <1>2, <1>a DEF CallOK, Git, OnFile
<1>. HIDE DEF r
<1>. QED  BY <1>1, <1>3 DEF Served, r

LEMMA RouteCalls ==
    ASSUME NEW id \in 1..MaxRequests, Graph(commits), NEW kind \in Kinds, NEW todo \in Routes(id)[kind]
    PROVE  Served(todo, id, Len(commits))
<1>. DEFINE n == Len(commits)  F(k) == Routes(id)[k]
<1>0. DOMAIN commits = 1..n /\ n \in Nat  BY SeqLen DEF Graph
<1>1. CASE kind = "create"
  <2>1. PICK m \in OpenNames, s \in Schemas \cup {None} :
            todo = <<[do |-> "create", file |-> m, schema |-> s]>>  BY <1>1 DEF Routes
  <2>2. CallOK([do |-> "create", file |-> m, schema |-> s], id, n)
    BY DataStoreAssumption DEF CallOK
  <2>. QED  BY <2>1, <2>2, OneCall
<1>2. CASE kind = "drop"
  <2>1. PICK m \in OpenNames : todo = <<Call("drop", m)>>  BY <1>2 DEF Routes
  <2>2. CallOK(Call("drop", m), id, n) /\ Call("drop", m).do # "log"
    BY DataStoreAssumption DEF CallOK, Call
  <2>. QED  BY <2>1, <2>2, OneCall
<1>w. \A m \in OpenNames, w \in Writes : CallOK(Put(m, w), id, n) /\ Put(m, w).do # "log"
  <2>1. \A w \in Writes, i \in (id + 1)..MaxRequests : <<i>> \notin DOMAIN w
    BY FreshAssumption, DataStoreAssumption DEF Reserved
  <2>. QED  BY <2>1, DataStoreAssumption DEF CallOK, Put
<1>3. CASE kind = "put"
  <2>1. PICK m \in OpenNames, w \in Writes : todo = <<Put(m, w)>>  BY <1>3 DEF Routes
  <2>. QED  BY <2>1, <1>w, OneCall
<1>4. CASE kind = "remove"
  <2>1. PICK m \in OpenNames, k \in UNION {DOMAIN w : w \in Writes} :
            todo = <<[do |-> "remove", file |-> m, key |-> k]>>  BY <1>4 DEF Routes
  <2>2. CallOK([do |-> "remove", file |-> m, key |-> k], id, n)
    BY DataStoreAssumption DEF CallOK
  <2>. QED  BY <2>1, <2>2, OneCall
<1>5. CASE kind = "schema"
  <2>1. PICK m \in OpenNames, s \in Schemas :
            todo = <<[do |-> "schema", file |-> m, schema |-> s]>>  BY <1>5 DEF Routes
  <2>2. CallOK([do |-> "schema", file |-> m, schema |-> s], id, n)
    BY DataStoreAssumption DEF CallOK
  <2>. QED  BY <2>1, <2>2, OneCall
<1>g. CallOK(Git("commit"), id, n) /\ Git("commit").do # "log"  BY DEF CallOK, Git, OnFile
<1>6. CASE kind = "artifact"
  <2>1. PICK m \in OpenNames, w \in Writes : todo = <<Put(m, w), Git("commit")>>
    BY <1>6 DEF Routes
  <2>2. IsSeq(todo) /\ DOMAIN todo = 1..2 /\ todo[1] = Put(m, w) /\ todo[2] = Git("commit")
    BY <2>1, SeqShort
  <2>3. \A i \in DOMAIN todo : CallOK(todo[i], id, n) /\ todo[i].do # "log"
    BY <2>2, <1>w, <1>g
  <2>. QED  BY <2>2, <2>3, SeqShort DEF Served
<1>7. CASE kind = "revision"
  <2>1. todo = CommitRevision(id)  BY <1>7 DEF Routes
  <2>. QED  BY <2>1, CommitCalls
<1>8. CASE kind = "commit"
  <2>1. todo = <<Git("commit")>>  BY <1>8 DEF Routes
  <2>. QED  BY <2>1, <1>g, OneCall
<1>9. CASE kind = "contract"
  <2>1. todo = EnsureContractNs(Put(Contracts, Entry(<<"contract">>, Contract)))
    BY <1>9 DEF Routes
  <2>2. CallOK(Put(Contracts, Entry(<<"contract">>, Contract)), id, n)
        /\ Put(Contracts, Entry(<<"contract">>, Contract)).do # "log"
    BY DataStoreAssumption DEF CallOK, Put
  <2>. QED  BY <2>1, <2>2, ContractCalls
<1>10. CASE kind = "bind"
  <2>. DEFINE B(s, v) == EnsureContractNs([do |-> "bind", file |-> Contracts, slot |-> s, value |-> v])
  <2>a. Routes(id)["bind"] = {B(b.slot, b.value) : b \in Bindings}  BY DEF Routes
  <2>. HIDE DEF B
  <2>1. PICK b \in Bindings : todo = B(b.slot, b.value)  BY <1>10, <2>a
  <2>2. CallOK([do |-> "bind", file |-> Contracts, slot |-> b.slot, value |-> b.value], id, n)
    BY DEF CallOK, OnFile
  <2>. QED  BY <2>1, <2>2, ContractCalls DEF B
<1>11. CASE kind = "propose"
  <2>. DEFINE P(p) == EnsureContractNs([do |-> "propose", file |-> Contracts, data |-> p, id |-> id])
  <2>a. Routes(id)["propose"] = {P(p) : p \in Proposals}  BY DEF Routes
  <2>. HIDE DEF P
  <2>1. PICK p \in Proposals : todo = P(p)  BY <1>11, <2>a
  <2>2. CallOK([do |-> "propose", file |-> Contracts, data |-> p, id |-> id], id, n)
    BY DataStoreAssumption DEF CallOK, OnFile
  <2>. QED  BY <2>1, <2>2, ContractCalls DEF P
<1>12. CASE kind = "rollback"
  <2>1. PICK r \in DOMAIN commits : todo = <<[do |-> "rollback", file |-> None, ref |-> r]>>
    BY <1>12 DEF Routes
  <2>2. CallOK([do |-> "rollback", file |-> None, ref |-> r], id, n)
    BY <1>0 DEF CallOK, OnFile
  <2>. QED  BY <2>1, <2>2, OneCall
<1>13. CASE kind = "checkout"
  <2>1. PICK r \in Branches \cup DOMAIN commits :
            todo = <<[do |-> "checkout", file |-> None, ref |-> r]>>
    BY <1>13 DEF Routes
  <2>2. CallOK([do |-> "checkout", file |-> None, ref |-> r], id, n)
    BY <1>0 DEF CallOK, OnFile
  <2>. QED  BY <2>1, <2>2, OneCall
<1>14. CASE kind = "branch"
  <2>1. PICK b \in Branches : todo = <<[do |-> "branch", file |-> None, name |-> b]>>
    BY <1>14 DEF Routes
  <2>2. CallOK([do |-> "branch", file |-> None, name |-> b], id, n)  BY DEF CallOK, OnFile
  <2>. QED  BY <2>1, <2>2, OneCall
<1>15. kind \in {"create", "drop", "put", "remove", "schema", "artifact", "revision",
                 "commit", "contract", "bind", "propose", "rollback", "checkout", "branch"}
  BY DataStoreAssumption
<1>. QED  BY <1>1, <1>2, <1>3, <1>4, <1>5, <1>6, <1>7, <1>8, <1>9, <1>10, <1>11, <1>12, <1>13,
            <1>14, <1>15

LEMMA TouchedHas ==
    ASSUME NEW todo, NEW i \in DOMAIN todo, todo[i].do \in OnFile
    PROVE  todo[i].file \in Touched(todo)
BY DEF Touched, TouchedBy, OnFile

LEMMA FreshNow ==
    ASSUME NEW s \in Nat, NEW id \in (s + 1)..MaxRequests
    PROVE  id \in 1..MaxRequests
BY DataStoreAssumption

\* The namespace a call makes of one that is readable has the revisions that one
\* had and its own.
LEMMA ChangedIs ==
    ASSUME NEW file, DOMAIN file = {"schema", "entries"}, NEW c, NEW s \in Nat, NEW n,
           CallOK(c, s, n), c.do \in {"put", "remove", "schema"}
    PROVE  LET made == Changed(file, c) IN
           /\ DOMAIN made = {"schema", "entries"}
           /\ c.file = RevNs /\ Fresh(file, s) => Fresh(made, s)
           /\ \A id : c = Put(RevNs, Entry(<<id>>, c.entries[<<id>>])) => Has(made, id)
<1>. DEFINE made == Changed(file, c)
<1>a. \A f : DOMAIN f = {"schema", "entries"} => f \notin {Absent, Torn}
  BY DEF Absent, Torn
<1>1. CASE c.do = "put"
  <2>1. made = [file EXCEPT !.entries = Over(c.entries, @)]  BY <1>1 DEF Changed
  <2>2. DOMAIN made = {"schema", "entries"} /\ made.entries = Over(c.entries, file.entries)
    BY <2>1
  <2>. HIDE DEF made
  <2>3. DOMAIN made.entries = DOMAIN c.entries \cup DOMAIN file.entries  BY <2>2 DEF Over
  <2>4. c.file = RevNs /\ Fresh(file, s) => Fresh(made, s)
    BY <2>2, <2>3, <1>1, <1>a DEF Fresh, Has, CallOK
  <2>5. ASSUME NEW id, c = Put(RevNs, Entry(<<id>>, c.entries[<<id>>])) PROVE Has(made, id)
    <3>1. c.entries = Entry(<<id>>, c.entries[<<id>>])  BY <2>5 DEF Put
    <3>2. <<id>> \in DOMAIN c.entries  BY <3>1 DEF Entry
    <3>. QED  BY <2>2, <2>3, <3>2, <1>a DEF Has
  <2>. QED  BY <2>2, <2>4, <2>5 DEF made
<1>2. CASE c.do = "remove"
  <2>1. made = [file EXCEPT !.entries = Without(@, {c.key})]  BY <1>2 DEF Changed
  <2>2. DOMAIN made = {"schema", "entries"} /\ made.entries = Without(file.entries, {c.key})
    BY <2>1
  <2>. HIDE DEF made
  <2>3. DOMAIN made.entries \subseteq DOMAIN file.entries  BY <2>2 DEF Without
  <2>4. Fresh(file, s) => Fresh(made, s)  BY <2>2, <2>3, <1>a DEF Fresh, Has
  <2>. QED  BY <2>2, <2>4, <1>2 DEF Put, made
<1>3. CASE c.do = "schema"
  <2>1. made = [schema |-> c.schema, entries |-> Over(file.entries, SeedFromSchema(c.schema))]
    BY <1>3 DEF Changed, WithSchema
  <2>2. /\ DOMAIN made = {"schema", "entries"}
        /\ made.entries = Over(file.entries, SeedFromSchema(c.schema))
    BY <2>1
  <2>. HIDE DEF made
  <2>3. DOMAIN made.entries = DOMAIN file.entries \cup DOMAIN SeedFromSchema(c.schema)
    BY <2>2 DEF Over
  <2>4. \A id \in (s + 1)..MaxRequests : <<id>> \notin DOMAIN SeedFromSchema(c.schema)
    BY <1>3, FreshAssumption, FreshNow DEF CallOK, Reserved
  <2>5. Fresh(file, s) => Fresh(made, s)  BY <2>2, <2>3, <2>4, <1>a DEF Fresh, Has
  <2>. QED  BY <2>2, <2>5, <1>3 DEF Put, made
<1>. QED  BY <1>1, <1>2, <1>3

LEMMA NewIs ==
    ASSUME NEW c, NEW s \in Nat, NEW n, CallOK(c, s, n)
    PROVE  DOMAIN NewNamespace(c) = {"schema", "entries"} /\ Fresh(NewNamespace(c), s)
<1>. DEFINE made == NewNamespace(c)
<1>1. CASE c.do = "create" /\ c.schema # None
  <2>1. made = [schema |-> c.schema, entries |-> Over(EmptyNamespace.entries, SeedFromSchema(c.schema))]
    BY <1>1 DEF NewNamespace, WithSchema
  <2>2. /\ DOMAIN made = {"schema", "entries"}
        /\ made.entries = Over(EmptyNamespace.entries, SeedFromSchema(c.schema))
    BY <2>1
  <2>. HIDE DEF made
  <2>3. DOMAIN made.entries = DOMAIN SeedFromSchema(c.schema)
    BY <2>2, SeqShort DEF Over, EmptyNamespace
  <2>4. \A id \in (s + 1)..MaxRequests : <<id>> \notin DOMAIN SeedFromSchema(c.schema)
    BY <1>1, FreshAssumption, FreshNow DEF CallOK, Reserved
  <2>. QED  BY <2>2, <2>3, <2>4 DEF Fresh, Has, made
<1>2. CASE ~ (c.do = "create" /\ c.schema # None)
  <2>1. made = [schema |-> None, entries |-> << >>]  BY <1>2 DEF NewNamespace, EmptyNamespace
  <2>2. DOMAIN made = {"schema", "entries"} /\ DOMAIN made.entries = {}  BY <2>1, SeqShort
  <2>. QED  BY <2>2 DEF Fresh, Has
<1>. QED  BY <1>1, <1>2
-------------------------------------------------------------------------------
(* A history that grows by a commit.                                           *)
LEMMA GraphLen ==
    ASSUME NEW C, Graph(C)
    PROVE  Len(C) \in Nat /\ DOMAIN C = 1..Len(C)
BY SeqLen DEF Graph

LEMMA AddsAt ==
    ASSUME NEW C, NEW a, NEW x, NEW D, Adds(C, a, x, D)
    PROVE  Graph(C) /\ a \in DOMAIN C /\ a # 0
<1>1. Graph(C) /\ a \in DOMAIN C  BY DEF Fit, Adds
<1>. QED  BY <1>1, GraphLen

LEMMA AboveSelf ==
    ASSUME NEW C, NEW c \in DOMAIN C
    PROVE  c \in Above(C, c)
BY DEF Above

LEMMA GrownIs ==
    ASSUME NEW C, NEW a, NEW x, NEW D, Adds(C, a, x, D)
    PROVE  /\ Graph(D) /\ Len(D) = Len(C) + 1 /\ Len(D) \in DOMAIN D
           /\ DOMAIN C \subseteq DOMAIN D /\ \A c \in DOMAIN D : c \in DOMAIN C \/ c = Len(D)
           /\ Len(D) \notin DOMAIN C
           /\ \A c \in DOMAIN C : D[c] = C[c]
           /\ D[Len(D)].parent = a /\ D[Len(D)].tree = x
<1>1. IsSeq(C) /\ Len(C) \in Nat /\ DOMAIN C = 1..Len(C)  BY GraphLen DEF Graph, Fit, Adds
<1>2. /\ IsSeq(D) /\ Len(D) = Len(C) + 1 /\ DOMAIN D = 1..(Len(C) + 1)
      /\ (\A c \in 1..Len(C) : D[c] = C[c]) /\ D[Len(C) + 1] = [parent |-> a, tree |-> x]
  BY <1>1, SeqAppend DEF Grown, Adds
<1>3. D[Len(D)].parent = a /\ D[Len(D)].tree = x  BY <1>2
<1>4. \A c \in DOMAIN D : (c \in DOMAIN C /\ D[c] = C[c]) \/ c = Len(D)  BY <1>1, <1>2
<1>5. Graph(D)
  <2>1. ASSUME NEW c \in DOMAIN D
        PROVE  D[c].parent \in 0..(c - 1) /\ \A n \in Names : IsFile(D[c].tree[n])
    <3>1. CASE c \in DOMAIN C /\ D[c] = C[c]  BY <3>1 DEF Graph, Fit, Adds
    <3>2. CASE c = Len(D)  BY <3>2, <1>1, <1>2, <1>3 DEF Fit, Adds
    <3>. QED  BY <3>1, <3>2, <1>4
  <2>. QED  BY <2>1, <1>2 DEF Graph
<1>6. /\ Len(D) \in DOMAIN D /\ DOMAIN C \subseteq DOMAIN D /\ \A c \in DOMAIN D : c \in DOMAIN C \/ c = Len(D)
      /\ Len(D) \notin DOMAIN C
  BY <1>1, <1>2
<1>. QED  BY <1>1, <1>2, <1>3, <1>5, <1>6

LEMMA AboveGrows ==
    ASSUME NEW C, NEW a, NEW x, NEW D, Adds(C, a, x, D)
    PROVE  /\ \A c \in DOMAIN C : Above(C, c) \subseteq Above(D, c)
           /\ Above(C, a) \subseteq Above(D, Len(D))
<1>1. /\ DOMAIN C \subseteq DOMAIN D /\ Len(D) \in DOMAIN D /\ D[Len(D)].parent = a
      /\ \A c \in DOMAIN C : D[c] = C[c]
  BY GrownIs
<1>2. \A c \in DOMAIN C : C[c].parent \in DOMAIN C \cup {0}
  <2>1. ASSUME NEW c \in DOMAIN C PROVE C[c].parent \in DOMAIN C \cup {0}
    <3>1. DOMAIN C = 1..Len(C) /\ Len(C) \in Nat /\ C[c].parent \in 0..(c - 1)
      BY GraphLen DEF Graph, Fit, Adds
    <3>. QED  BY <3>1
  <2>. QED  BY <2>1
<1>3. ASSUME NEW S \in SUBSET DOMAIN D, \A y \in S : D[y].parent \in S \cup {0}
      PROVE  \A y \in S \cap DOMAIN C : C[y].parent \in (S \cap DOMAIN C) \cup {0}
  BY <1>1, <1>2, <1>3
<1>4. ASSUME NEW c \in DOMAIN C, NEW e \in Above(C, c) PROVE e \in Above(D, c)
  <2>1. ASSUME NEW S \in SUBSET DOMAIN D, c \in S, \A y \in S : D[y].parent \in S \cup {0}
        PROVE  e \in S
    <3>1. S \cap DOMAIN C \in SUBSET DOMAIN C /\ c \in S \cap DOMAIN C  BY <2>1
    <3>2. \A y \in S \cap DOMAIN C : C[y].parent \in (S \cap DOMAIN C) \cup {0}
      BY <2>1, <1>3
    <3>. QED  BY <3>1, <3>2, <1>4 DEF Above
  <2>2. e \in DOMAIN D  BY <1>1, <1>4 DEF Above
  <2>. QED  BY <2>1, <2>2 DEF Above
<1>5. ASSUME NEW e \in Above(C, a) PROVE e \in Above(D, Len(D))
  <2>1. ASSUME NEW S \in SUBSET DOMAIN D, Len(D) \in S, \A y \in S : D[y].parent \in S \cup {0}
        PROVE  e \in S
    <3>1. a \in DOMAIN C /\ a # 0  BY AddsAt
    <3>2. a \in S  BY <2>1, <1>1, <3>1
    <3>3. e \in Above(D, a)  BY <3>1, <1>4, <1>5
    <3>. QED  BY <3>2, <3>3, <2>1 DEF Above
  <2>2. e \in DOMAIN D  BY <1>1, <1>5 DEF Above
  <2>. QED  BY <2>1, <2>2 DEF Above
<1>. QED  BY <1>4, <1>5

LEMMA BroughtStays ==
    ASSUME NEW C, NEW a, NEW x, NEW D, Adds(C, a, x, D), NEW id, NEW p, Brought(C, id, p)
    PROVE  Brought(D, id, p)
<1>1. PICK c \in DOMAIN C : /\ Rec(C, c, id) /\ C[c].parent # 0 /\ ~ Rec(C, C[c].parent, id)
                            /\ p \in Above(C, C[c].parent)
  BY DEF Brought
<1>2. c \in DOMAIN D /\ D[c] = C[c] /\ \A e \in DOMAIN C : D[e] = C[e]  BY GrownIs
<1>3. C[c].parent \in DOMAIN C
  <2>1. DOMAIN C = 1..Len(C) /\ Len(C) \in Nat /\ C[c].parent \in 0..(c - 1)
    BY GraphLen DEF Graph, Fit, Adds
  <2>. QED  BY <2>1, <1>1
<1>4. p \in Above(D, C[c].parent)  BY <1>1, <1>3, AboveGrows
<1>. QED  BY <1>1, <1>2, <1>3, <1>4 DEF Brought, Rec

\* The commit that brings an entry in: what was so when it was written stays so.
LEMMA BroughtIn ==
    ASSUME NEW C, NEW a, NEW x, NEW D, Adds(C, a, x, D), NEW id, NEW p \in Above(C, a),
           (\E c \in DOMAIN C : Rec(C, c, id)) => Brought(C, id, p),
           \E c \in DOMAIN D : Rec(D, c, id)
    PROVE  Brought(D, id, p)
<1>1. CASE \E c \in DOMAIN C : Rec(C, c, id)  BY <1>1, BroughtStays
<1>2. CASE \A c \in DOMAIN C : ~ Rec(C, c, id)
  <2>1. /\ (\A c \in DOMAIN D : c \in DOMAIN C \/ c = Len(D)) /\ Len(D) \in DOMAIN D /\ D[Len(D)].parent = a
        /\ \A c \in DOMAIN C : D[c] = C[c]
    BY GrownIs
  <2>3. a \in DOMAIN C /\ a # 0  BY AddsAt
  <2>2. Rec(D, Len(D), id) /\ ~ Rec(D, a, id)  BY <2>1, <2>3, <1>2 DEF Rec
  <2>4. Above(C, a) \subseteq Above(D, a)  BY <2>3, AboveGrows
  <2>. QED  BY <2>1, <2>2, <2>3, <2>4 DEF Brought
<1>. QED  BY <1>1, <1>2

LEMMA GoodStays ==
    ASSUME NEW C, NEW a, NEW x, Fit(C, a, x),
           NEW D, NEW b, GrowsTo(C, a, x, D, b), NEW r, Good(r, C)
    PROVE  Good(r, D)
<1>1. CASE Adds(C, a, x, D)
  <2>1. DOMAIN C \subseteq DOMAIN D /\ \A c \in DOMAIN C : D[c] = C[c]  BY <1>1, GrownIs
  <2>2. Brought(D, r.id, r.parent)  BY <1>1, BroughtStays DEF Good
  <2>. QED  BY <2>1, <2>2 DEF Good, Rec
<1>. QED  BY <1>1 DEF GrowsTo, Adds

LEMMA OwnStays ==
    ASSUME NEW C, NEW a, NEW x, Fit(C, a, x),
           NEW D, NEW b, GrowsTo(C, a, x, D, b), NEW th, NEW id, Own(th, id, C, a)
    PROVE  Own(th, id, D, b)
<1>1. CASE Adds(C, a, x, D) /\ b = Len(D)
  BY <1>1, AboveGrows DEF Own
<1>. QED  BY <1>1 DEF GrowsTo, Adds

\* Others stage what is on disk and commit what is staged: whatever recorded a
\* revision keeps its place.
LEMMA LogStays ==
    ASSUME NEW C, NEW a, NEW x, Fit(C, a, x),
           NEW D, NEW b, GrowsTo(C, a, x, D, b), NEW th, NEW id, NEW d, NEW y,
           y[RevNs] \in {x[RevNs], d}, LogAt(th, id, d, x, C, a)
    PROVE  LogAt(th, id, d, y, D, b)
<1>. USE DEF LogAt
<1>g. CASE Adds(C, a, x, D) /\ b = Len(D)
  <2>1. /\ (\A c \in DOMAIN D : c \in DOMAIN C \/ c = b) /\ DOMAIN C \subseteq DOMAIN D
        /\ b \in DOMAIN D /\ D[b].tree = x /\ \A c \in DOMAIN C : D[c] = C[c]
    BY <1>g, GrownIs
  <2>2. \A c \in DOMAIN C : Rec(D, c, id) <=> Rec(C, c, id)  BY <2>1 DEF Rec
  <2>3. Rec(D, b, id) <=> Has(x[RevNs], id)  BY <2>1 DEF Rec
  <2>4. Unseen(id, d, x, C) => Unseen(id, d, y, D)  BY <2>1, <2>2, <2>3 DEF Unseen
  <2>5. Own(th, id, C, a) => Own(th, id, D, b)  BY OwnStays
  <2>6. CASE Asking(th, id, d, x, C)  BY <2>6, <2>4 DEF Asking
  <2>7. CASE Writing(th, id, d, x, C, a)  BY <2>7, <2>4, <2>5 DEF Writing
  <2>8. CASE Staging(th, id, d, x, C, a)
    <3>1. Own(th, id, C, a) /\ th.revision.parent \in Above(C, a)
          /\ ((\E c \in DOMAIN C : Rec(C, c, id)) => Brought(C, id, th.revision.parent))
      BY <2>8 DEF Staging, Own
    <3>2. (\E c \in DOMAIN D : Rec(D, c, id)) => Brought(D, id, th.revision.parent)
      BY <3>1, <1>g, BroughtIn
    <3>. QED  BY <2>8, <3>2, <2>5 DEF Staging
  <2>9. CASE Committed(th, id, d, x, C, a)
    <3>1. Brought(D, id, th.revision.parent)  BY <2>9, <1>g, BroughtStays DEF Committed
    <3>. QED  BY <2>9, <3>1, <2>3, <2>5 DEF Committed
  <2>10. CASE Done(th, id, C)
    <3>1. Good(th.revision, D)  BY <2>10, GoodStays DEF Done
    <3>. QED  BY <2>10, <3>1 DEF Done
  <2>. QED  BY <2>6, <2>7, <2>8, <2>9, <2>10
<1>s. CASE D = C /\ b = a
  <2>1. Unseen(id, d, x, C) => Unseen(id, d, y, C)  BY DEF Unseen
  <2>. QED  BY <1>s, <2>1 DEF Asking, Writing, Staging, Committed, Done
<1>. QED  BY <1>g, <1>s DEF GrowsTo, Adds
-------------------------------------------------------------------------------
(* Steps of a thread.                                                          *)
Fields == {"pc", "todo", "asked", "buf", "file", "revision"}
Only(t) == DOMAIN thread' = All /\ \A u \in All \ {t} : thread'[u] = thread[u]
Moves(t) ==
    /\ t \in All /\ thread[t].pc # "idle" /\ Only(t)
    /\ Placed(thread'[t], sent, Len(commits))
    /\ t \in Threads => Origin(thread'[t])
    /\ thread'[t].asked = thread[t].asked \/ thread'[t] = Idle

LEMMA IdleIs ==
    /\ \A s, n : Placed(Idle, s, n)
    /\ Origin(Idle) /\ Idle.pc = "idle" /\ Idle.asked = << >> /\ Idle.revision = None
    /\ Idle.todo = << >> /\ ~ IsLog(Idle.asked)
<1>1. /\ Idle.pc = "idle" /\ Idle.asked = << >> /\ Idle.revision = None /\ Idle.todo = << >>
      /\ DOMAIN Idle = Fields
  BY DEF Idle, Fields
<1>2. IsSeq(<< >>) /\ DOMAIN << >> = {}  BY SeqShort
<1>3. ~ IsLog(Idle.asked)  BY <1>1, CommitIs DEF IsLog
<1>4. Origin(Idle)  BY <1>1, <1>2 DEF Origin
<1>5. \A s, n : Placed(Idle, s, n)  BY <1>1, <1>2 DEF Placed, Fields
<1>. QED  BY <1>1, <1>3, <1>4, <1>5

LEMMA PlacedStays ==
    ASSUME NEW th, NEW s \in Nat, NEW n \in Nat, NEW s2 \in Nat, NEW n2 \in Nat, s2 >= s, n2 >= n,
           Placed(th, s, n)
    PROVE  Placed(th, s2, n2)
<1>1. \A id \in (s2 + 1)..MaxRequests : id \in (s + 1)..MaxRequests  BY DataStoreAssumption
<1>2. \A f : Fresh(f, s) => Fresh(f, s2)  BY <1>1 DEF Fresh
<1>3. 1..n \subseteq 1..n2  OBVIOUS
<1>4. ASSUME NEW c, CallOK(c, s, n) PROVE CallOK(c, s2, n2)
  <2>1. Branches \cup 1..n \subseteq Branches \cup 1..n2  BY <1>3
  <2>. QED  BY <1>1, <1>3, <1>4, <2>1 DEF CallOK
<1>. QED  BY <1>2, <1>4 DEF Placed

LEMMA OriginStays ==
    ASSUME NEW th, NEW nt, Origin(th), nt.asked = th.asked,
           \A i \in DOMAIN nt.todo : \E j \in DOMAIN th.todo : nt.todo[i] = th.todo[j],
           nt.revision = th.revision \/ IsLog(th.asked)
    PROVE  Origin(nt)
BY DEF Origin

LEMMA AtIs ==
    ASSUME TypeOK, PlaceInv, NEW t \in All
    PROVE  /\ Placed(thread[t], sent, Len(commits)) /\ t \in DOMAIN thread
           /\ DOMAIN thread[t] = Fields
           /\ thread[t].todo # << >> =>
                 /\ 1 \in DOMAIN thread[t].todo /\ Call1(t) = thread[t].todo[1]
                 /\ CallOK(thread[t].todo[1], sent, Len(commits))
<1>1. Placed(thread[t], sent, Len(commits)) /\ t \in DOMAIN thread  BY DEF PlaceInv, TypeOK
<1>2. IsSeq(thread[t].todo) /\ DOMAIN thread[t] = Fields  BY <1>1 DEF Placed, Fields
<1>3. ASSUME thread[t].todo # << >>
      PROVE  /\ 1 \in DOMAIN thread[t].todo /\ Call1(t) = thread[t].todo[1]
             /\ CallOK(thread[t].todo[1], sent, Len(commits))
  BY <1>1, <1>2, <1>3, SeqTail DEF Call1, Placed
<1>. QED  BY <1>1, <1>2, <1>3

LEMMA FailMoves ==
    ASSUME TypeOK, PlaceInv, NEW t \in All, thread[t].pc # "idle", Fail(t)
    PROVE  Moves(t) /\ thread'[t] = Idle
<1>1. DOMAIN thread = All  BY DEF TypeOK
<1>2. Only(t) /\ thread'[t] = Idle  BY <1>1 DEF Fail, Only
<1>. QED  BY <1>2, IdleIs DEF Moves

LEMMA GoMoves ==
    ASSUME TypeOK, PlaceInv, OriginInv, NEW t \in All, thread[t].pc # "idle", NEW p, Go(t, p),
           \/ p = "write" /\ thread[t].pc = "truncate"
           \/ p = "meta" /\ thread[t].todo # << >> /\ Call1(t).do \in {"create", "ensure", "drop"}
           \/ p \in {"commit", "revparse"} /\ thread[t].todo # << >> /\ Call1(t).do = "commit"
    PROVE  /\ Moves(t) /\ thread'[t].pc = p /\ thread'[t].todo = thread[t].todo
           /\ thread'[t].asked = thread[t].asked /\ thread'[t].buf = thread[t].buf
           /\ thread'[t].file = thread[t].file /\ thread'[t].revision = thread[t].revision
<1>. DEFINE th == thread[t]  nt == thread'[t]
<1>0. /\ Placed(th, sent, Len(commits)) /\ t \in DOMAIN thread /\ DOMAIN th = Fields
      /\ th.todo # << >> => Call1(t) = th.todo[1]
  BY AtIs
<1>1. Only(t) /\ nt = [th EXCEPT !.pc = p]  BY <1>0 DEF Go, Only, TypeOK
<1>. HIDE DEF nt
<1>2. /\ DOMAIN nt = Fields /\ nt.pc = p /\ nt.todo = th.todo /\ nt.asked = th.asked
      /\ nt.buf = th.buf /\ nt.file = th.file /\ nt.revision = th.revision
  BY <1>0, <1>1 DEF Fields
<1>3. Placed(nt, sent, Len(commits))  BY <1>0, <1>2 DEF Placed, Fields
<1>4. t \in Threads => Origin(nt)  BY <1>2, OriginStays DEF OriginInv
<1>. QED  BY <1>1, <1>2, <1>3, <1>4 DEF Moves, nt

LEMMA SaveMoves ==
    ASSUME TypeOK, PlaceInv, OriginInv, NEW t \in All, thread[t].pc # "idle", NEW f, NEW buf,
           Save(t, f, buf), thread[t].todo # << >>,
           \/ f = Meta
           \/ /\ f = Call1(t).file /\ Call1(t).do \in {"put", "remove", "schema", "create", "ensure"}
              /\ DOMAIN buf = {"schema", "entries"} /\ (f = RevNs => Fresh(buf, sent))
    PROVE  /\ Moves(t) /\ thread'[t].pc = "truncate" /\ thread'[t].todo = thread[t].todo
           /\ thread'[t].asked = thread[t].asked /\ thread'[t].buf = buf
           /\ thread'[t].file = f /\ thread'[t].revision = thread[t].revision
<1>. DEFINE th == thread[t]  nt == thread'[t]
<1>0. /\ Placed(th, sent, Len(commits)) /\ t \in DOMAIN thread /\ DOMAIN th = Fields
      /\ Call1(t) = th.todo[1]
  BY AtIs
<1>1. Only(t) /\ nt = [th EXCEPT !.pc = "truncate", !.file = f, !.buf = buf]
  BY <1>0 DEF Save, Only, TypeOK
<1>. HIDE DEF nt
<1>2. /\ DOMAIN nt = Fields /\ nt.pc = "truncate" /\ nt.todo = th.todo /\ nt.asked = th.asked
      /\ nt.buf = buf /\ nt.file = f /\ nt.revision = th.revision
  BY <1>0, <1>1 DEF Fields
<1>3. Placed(nt, sent, Len(commits))  BY <1>0, <1>2 DEF Placed, Fields
<1>4. t \in Threads => Origin(nt)  BY <1>2, OriginStays DEF OriginInv
<1>. QED  BY <1>1, <1>2, <1>3, <1>4 DEF Moves, nt

\* A thread that is done with its call, or has another put before the others.
LEMMA CallMoves ==
    ASSUME TypeOK, PlaceInv, OriginInv, NEW t \in All, thread[t].pc # "idle", Only(t),
           DOMAIN thread'[t] = Fields, thread'[t].pc = "call", thread'[t].asked = thread[t].asked,
           IsSeq(thread'[t].todo),
           \A i \in DOMAIN thread'[t].todo :
              /\ CallOK(thread'[t].todo[i], sent, Len(commits))
              /\ \/ \E j \in DOMAIN thread[t].todo : thread'[t].todo[i] = thread[t].todo[j]
                 \/ thread'[t].todo[i].do # "log" /\ (t \in Threads =>
                        Inside(thread'[t].todo[i], thread[t].asked)),
           thread'[t].revision = thread[t].revision \/ IsLog(thread[t].asked)
    PROVE  Moves(t)
<1>1. Placed(thread'[t], sent, Len(commits))  BY DEF Placed, Fields
<1>2. t \in Threads => Origin(thread'[t])
  <2>. SUFFICES ASSUME t \in Threads PROVE Origin(thread'[t])  OBVIOUS
  <2>1. Origin(thread[t])  BY DEF OriginInv
  <2>. QED  BY <2>1 DEF Origin
<1>. QED  BY <1>1, <1>2 DEF Moves

LEMMA AdvanceMoves ==
    ASSUME TypeOK, PlaceInv, OriginInv, NEW t \in All, thread[t].pc # "idle",
           thread[t].todo # << >>, Advance(t)
    PROVE  /\ Moves(t) /\ thread'[t].pc = "call" /\ thread'[t].todo = Tail(thread[t].todo)
           /\ thread'[t].asked = thread[t].asked /\ thread'[t].revision = thread[t].revision
<1>. DEFINE th == thread[t]  nt == thread'[t]
<1>0. /\ Placed(th, sent, Len(commits)) /\ t \in DOMAIN thread /\ DOMAIN th = Fields
  BY AtIs
<1>1. Only(t) /\ nt = [th EXCEPT !.pc = "call", !.todo = Tail(@), !.file = None, !.buf = None]
  BY <1>0 DEF Advance, Only, TypeOK
<1>. HIDE DEF nt
<1>2. /\ DOMAIN nt = Fields /\ nt.pc = "call" /\ nt.todo = Tail(th.todo) /\ nt.asked = th.asked
      /\ nt.revision = th.revision
  BY <1>0, <1>1 DEF Fields
<1>3. IsSeq(nt.todo) /\ \A i \in DOMAIN nt.todo : i + 1 \in DOMAIN th.todo /\ nt.todo[i] = th.todo[i + 1]
  BY <1>0, <1>2, SeqTail DEF Placed
<1>4. \A i \in DOMAIN nt.todo : /\ CallOK(nt.todo[i], sent, Len(commits))
                                /\ \E j \in DOMAIN th.todo : nt.todo[i] = th.todo[j]
  BY <1>0, <1>3 DEF Placed
<1>5. Moves(t)  BY <1>1, <1>2, <1>3, <1>4, CallMoves DEF nt
<1>. QED  BY <1>2, <1>5 DEF nt

LEMMA ContinueMoves ==
    ASSUME TypeOK, PlaceInv, OriginInv, NEW t \in Threads, thread[t].pc = "call",
           thread[t].todo # << >>, NEW calls, IsSeq(calls), Continue(t, calls),
           \A i \in DOMAIN calls : /\ CallOK(calls[i], sent, Len(commits)) /\ calls[i].do # "log"
                                   /\ Inside(calls[i], thread[t].asked)
    PROVE  Moves(t) /\ thread'[t].asked = thread[t].asked
<1>. DEFINE th == thread[t]  nt == thread'[t]
<1>a. t \in All  BY DEF All
<1>0. /\ Placed(th, sent, Len(commits)) /\ t \in DOMAIN thread /\ DOMAIN th = Fields
  BY <1>a, AtIs
<1>1. Only(t) /\ nt = [th EXCEPT !.todo = calls \o Tail(@)]  BY <1>0 DEF Continue, Only, TypeOK
<1>. HIDE DEF nt
<1>2. /\ DOMAIN nt = Fields /\ nt.pc = "call" /\ nt.todo = calls \o Tail(th.todo)
      /\ nt.asked = th.asked /\ nt.revision = th.revision
  BY <1>0, <1>1 DEF Fields
<1>3. /\ IsSeq(Tail(th.todo))
      /\ \A i \in DOMAIN Tail(th.todo) : i + 1 \in DOMAIN th.todo /\ Tail(th.todo)[i] = th.todo[i + 1]
  BY <1>0, SeqTail DEF Placed
<1>4. /\ IsSeq(nt.todo)
      /\ \A i \in DOMAIN nt.todo :
            \/ i \in DOMAIN calls /\ nt.todo[i] = calls[i]
            \/ \E j \in DOMAIN Tail(th.todo) : nt.todo[i] = Tail(th.todo)[j]
  BY <1>2, <1>3, SeqConcat
<1>5. ASSUME NEW i \in DOMAIN nt.todo
      PROVE  /\ CallOK(nt.todo[i], sent, Len(commits))
             /\ \/ nt.todo[i].do # "log" /\ Inside(nt.todo[i], th.asked)
                \/ \E j \in DOMAIN th.todo : nt.todo[i] = th.todo[j]
  <2>1. CASE i \in DOMAIN calls /\ nt.todo[i] = calls[i]  BY <2>1
  <2>2. CASE \E j \in DOMAIN Tail(th.todo) : nt.todo[i] = Tail(th.todo)[j]
    <3>1. \E j \in DOMAIN th.todo : nt.todo[i] = th.todo[j]  BY <2>2, <1>3
    <3>. QED  BY <3>1, <1>0 DEF Placed
  <2>. QED  BY <2>1, <2>2, <1>4
<1>6. Moves(t)  BY <1>a, <1>1, <1>2, <1>4, <1>5, CallMoves DEF nt
<1>. QED  BY <1>2, <1>6 DEF nt
-------------------------------------------------------------------------------
(* What each action does to its thread, to the files and to the history.       *)
Steps(t) == Moves(t) /\ FilesInv' /\ HistoryInv' /\ SeenInv'

LEMMA NamesAre ==
    /\ RevNs \in Names /\ RevNs \in Files /\ Meta \notin Names /\ Names \subseteq Files
    /\ {Contracts, Instances, Patches, Data} \subseteq Names
    /\ RevNs \notin {Contracts, Instances, Patches, Data}
<1>1. PICK i \in DOMAIN Boot : Boot[i] = RevNs  BY DataStoreAssumption
<1>2. RevNs \in Names  BY <1>1, DataStoreAssumption
<1>. QED  BY <1>2, DataStoreAssumption DEF Files

LEMMA FreshNothing ==
    ASSUME NEW s
    PROVE  /\ IsFile(Absent) /\ IsFile(Torn) /\ Fresh(Absent, s) /\ Fresh(Torn, s)
BY DEF IsFile, Fresh, Has

LEMMA FilesSame ==
    ASSUME Inv, UNCHANGED <<disk, git, sent>>
    PROVE  FilesInv' /\ HistoryInv' /\ SeenInv'
BY DEF Inv, TypeOK, FilesInv, HistoryInv, SeenInv, git

LEMMA FileWritten ==
    ASSUME Inv, NEW f \in Files, NEW v, disk' = [disk EXCEPT ![f] = v], UNCHANGED <<git, sent>>,
           f \in Names => IsFile(v), f = RevNs => Fresh(v, sent)
    PROVE  FilesInv' /\ HistoryInv' /\ SeenInv'
<1>1. /\ DOMAIN disk' = Files /\ \A n \in Files : disk'[n] = IF n = f THEN v ELSE disk[n]
  BY DEF Inv, TypeOK, FilesInv
<1>2. FilesInv'  BY <1>1, NamesAre DEF Inv, TypeOK, FilesInv, git
<1>3. HistoryInv'  BY DEF Inv, TypeOK, HistoryInv, git
<1>4. Fresh(disk'[RevNs], sent)  BY <1>1, NamesAre DEF Inv, SeenInv
<1>5. SeenInv'  BY <1>4 DEF Inv, SeenInv, git
<1>. QED  BY <1>2, <1>3, <1>5

LEMMA CallAt ==
    ASSUME Inv, NEW t \in All, NEW what, AtCall(t, what)
    PROVE  /\ thread[t].pc = "call" /\ thread[t].todo # << >> /\ Call1(t).do \in what
           /\ Call1(t) = thread[t].todo[1] /\ 1 \in DOMAIN thread[t].todo
           /\ CallOK(Call1(t), sent, Len(commits))
BY AtIs DEF AtCall, Inv

LEMMA LoadStep ==
    ASSUME Inv, NEW t \in All, Load(t)
    PROVE  Steps(t)
<1>. DEFINE c == Call1(t)
<1>1. /\ thread[t].pc = "call" /\ thread[t].todo # << >> /\ c.do \in {"put", "remove", "schema"}
      /\ CallOK(c, sent, Len(commits))
  BY CallAt DEF Load
<1>2. UNCHANGED <<disk, git, sent>>  BY DEF Load, bounds
<1>3. c.file \in Names  BY <1>1 DEF CallOK, OnFile
<1>4. CASE Fail(t)  BY <1>1, <1>2, <1>4, FailMoves, FilesSame DEF Inv, Steps
<1>5. CASE Readable(c.file) /\ Save(t, c.file, Changed(disk[c.file], c))
  <2>1. DOMAIN disk[c.file] = {"schema", "entries"}
    BY <1>3, <1>5 DEF Readable, Inv, TypeOK, FilesInv, IsFile
  <2>2. sent \in Nat /\ (c.file = RevNs => Fresh(disk[c.file], sent))  BY DEF Inv, TypeOK, SeenInv
  <2>. HIDE DEF c
  <2>3. /\ DOMAIN Changed(disk[c.file], c) = {"schema", "entries"}
        /\ c.file = RevNs => Fresh(Changed(disk[c.file], c), sent)
    BY <1>1, <2>1, <2>2, ChangedIs
  <2>4. Moves(t)  BY <1>1, <1>5, <2>3, SaveMoves DEF Inv, c
  <2>. QED  BY <1>2, <2>4, FilesSame DEF Steps
<1>. QED  BY <1>4, <1>5 DEF Load

LEMMA CreateStep ==
    ASSUME Inv, NEW t \in All, Create(t)
    PROVE  Steps(t)
<1>. DEFINE c == Call1(t)
<1>1. /\ thread[t].pc = "call" /\ thread[t].todo # << >> /\ c.do \in {"create", "ensure"}
      /\ CallOK(c, sent, Len(commits))
  BY CallAt DEF Create
<1>2. UNCHANGED <<disk, git, sent>>  BY DEF Create, bounds
<1>4. CASE Fail(t)  BY <1>1, <1>2, <1>4, FailMoves, FilesSame DEF Inv, Steps
<1>5. CASE Save(t, c.file, NewNamespace(c))
  <2>. HIDE DEF c
  <2>1. sent \in Nat  BY DEF Inv, TypeOK
  <2>2. DOMAIN NewNamespace(c) = {"schema", "entries"} /\ Fresh(NewNamespace(c), sent)
    BY <1>1, <2>1, NewIs
  <2>3. Moves(t)  BY <1>1, <1>5, <2>2, SaveMoves DEF Inv, c
  <2>. QED  BY <1>2, <2>3, FilesSame DEF Steps
<1>6. CASE Advance(t)  BY <1>1, <1>2, <1>6, AdvanceMoves, FilesSame DEF Inv, Steps
<1>. QED  BY <1>4, <1>5, <1>6 DEF Create

LEMMA UnlinkStep ==
    ASSUME Inv, NEW t \in All, Unlink(t)
    PROVE  Steps(t)
<1>. DEFINE c == Call1(t)
<1>1. /\ thread[t].pc = "call" /\ thread[t].todo # << >> /\ c.do = "drop"
      /\ CallOK(c, sent, Len(commits))
  BY CallAt DEF Unlink
<1>2. c.file \in Names  BY <1>1 DEF CallOK, OnFile
<1>3. Moves(t)  BY <1>1, GoMoves DEF Unlink, Inv
<1>4. disk' = [disk EXCEPT ![c.file] = Absent] /\ UNCHANGED <<git, sent>>  BY DEF Unlink, bounds
<1>5. c.file \in Files  BY <1>2, NamesAre
<1>6. IsFile(Absent) /\ Fresh(Absent, sent)  BY FreshNothing
<1>. HIDE DEF c
<1>7. FilesInv' /\ HistoryInv' /\ SeenInv'  BY <1>4, <1>5, <1>6, FileWritten
<1>. QED  BY <1>3, <1>7 DEF Steps

LEMMA FileAt ==
    ASSUME Inv, NEW t \in All, thread[t].pc \in {"truncate", "write"}
    PROVE  /\ thread[t].todo # << >> /\ thread[t].file \in Files
           /\ thread[t].file \in Names =>
                 /\ IsFile(thread[t].buf) /\ DOMAIN thread[t].buf = {"schema", "entries"}
                 /\ thread[t].file = Call1(t).file /\ Call1(t).do \in OnFile
                 /\ Call1(t).do \in {"put", "remove", "schema", "create", "ensure"}
           /\ thread[t].file = RevNs => Fresh(thread[t].buf, sent)
<1>1. /\ Placed(thread[t], sent, Len(commits))
      /\ thread[t].todo # << >> => /\ Call1(t) = thread[t].todo[1]
                                   /\ CallOK(thread[t].todo[1], sent, Len(commits))
  BY AtIs DEF Inv
<1>2. thread[t].todo # << >>  BY <1>1 DEF Placed
<1>3. CASE thread[t].file = Meta  BY <1>2, <1>3, NamesAre DEF Files
<1>4. CASE /\ thread[t].file = thread[t].todo[1].file
           /\ thread[t].todo[1].do \in {"put", "remove", "schema", "create", "ensure"}
           /\ DOMAIN thread[t].buf = {"schema", "entries"}
           /\ thread[t].file = RevNs => Fresh(thread[t].buf, sent)
  <2>1. thread[t].file \in Files  BY <1>1, <1>2, <1>4, NamesAre DEF CallOK, OnFile
  <2>. QED  BY <2>1, <1>1, <1>2, <1>4 DEF IsFile, OnFile
<1>. QED  BY <1>1, <1>3, <1>4 DEF Placed

LEMMA TruncateStep ==
    ASSUME Inv, NEW t \in All, Truncate(t)
    PROVE  Steps(t)
<1>1. thread[t].pc = "truncate" /\ thread[t].file \in Files  BY FileAt DEF Truncate
<1>2. Moves(t)  BY <1>1, GoMoves DEF Truncate, Inv
<1>3. disk' = [disk EXCEPT ![thread[t].file] = Torn] /\ UNCHANGED <<git, sent>>
  BY DEF Truncate, bounds
<1>4. IsFile(Torn) /\ Fresh(Torn, sent)  BY FreshNothing
<1>5. FilesInv' /\ HistoryInv' /\ SeenInv'  BY <1>1, <1>3, <1>4, FileWritten
<1>. QED  BY <1>2, <1>5 DEF Steps

LEMMA WriteStep ==
    ASSUME Inv, NEW t \in All, Write(t)
    PROVE  Steps(t)
<1>1. thread[t].pc = "write" /\ thread[t].file \in Files /\ thread[t].todo # << >>
  BY FileAt DEF Write
<1>2. Moves(t)
  <2>1. CASE Go(t, "meta") /\ Call1(t).do \in {"create", "ensure"}
    BY <1>1, <2>1, GoMoves DEF Inv
  <2>2. CASE Advance(t)  BY <1>1, <2>2, AdvanceMoves DEF Inv
  <2>. QED  BY <2>1, <2>2 DEF Write
<1>3. disk' = [disk EXCEPT ![thread[t].file] = thread[t].buf] /\ UNCHANGED <<git, sent>>
  BY DEF Write, bounds
<1>4. /\ thread[t].file \in Names => IsFile(thread[t].buf)
      /\ thread[t].file = RevNs => Fresh(thread[t].buf, sent)
  BY <1>1, FileAt
<1>5. FilesInv' /\ HistoryInv' /\ SeenInv'  BY <1>1, <1>3, <1>4, FileWritten
<1>. QED  BY <1>2, <1>5 DEF Steps

LEMMA UpdateMetaStep ==
    ASSUME Inv, NEW t \in All, UpdateMeta(t)
    PROVE  Steps(t)
<1>1. thread[t].pc = "meta" /\ thread[t].todo # << >>
  BY AtIs DEF UpdateMeta, Inv, Placed
<1>2. UNCHANGED <<disk, git, sent>>  BY DEF UpdateMeta, bounds
<1>3. Moves(t)
  <2>1. CASE Fail(t)  BY <1>1, <2>1, FailMoves DEF Inv
  <2>2. CASE Advance(t)  BY <1>1, <2>2, AdvanceMoves DEF Inv
  <2>3. CASE Save(t, Meta, MetaFile(MetaAfter(Call1(t), disk[Meta].names)))
    BY <1>1, <2>3, SaveMoves DEF Inv
  <2>. QED  BY <2>1, <2>2, <2>3 DEF UpdateMeta
<1>. QED  BY <1>2, <1>3, FilesSame DEF Steps

\* The calls that contracts go on with are of their namespaces.
Contractual(c) ==
    \/ \E n \in {Instances, Patches, Data} : c = Call("ensure", n)
    \/ c.do = "put" /\ c.file \in {Instances, Patches, Data}
LEMMA ContractualOK ==
    ASSUME NEW c, Contractual(c), NEW s, NEW n
    PROVE  /\ CallOK(c, s, n) /\ c.do # "log"
           /\ TouchedBy(c) \subseteq {Contracts, Instances, Patches, Data}
           /\ c.do \notin {"rollback", "checkout"}
<1>1. c.do \in {"ensure", "put"} /\ c.file \in Names /\ c.file # RevNs
      /\ c.file \in {Contracts, Instances, Patches, Data}
  BY NamesAre DEF Contractual, Call
<1>2. TouchedBy(c) = {c.file}  BY <1>1 DEF TouchedBy
<1>. QED  BY <1>1, <1>2 DEF CallOK

LEMMA PutIs ==
    \A n, e : Put(n, e).do = "put" /\ Put(n, e).file = n
BY DEF Put

\* What a call of a contract route goes on with is inside what the route touches.
LEMMA ContractInside ==
    ASSUME Inv, NEW t \in Threads, AtCall(t, {"bind", "propose"}), NEW c, Contractual(c)
    PROVE  Inside(c, thread[t].asked)
<1>1. 1 \in DOMAIN thread[t].todo /\ thread[t].todo[1].do \in {"bind", "propose"}
  BY CallAt DEF All
<1>2. Inside(thread[t].todo[1], thread[t].asked)  BY <1>1 DEF Inv, OriginInv, Origin
<1>3. TouchedBy(thread[t].todo[1]) = {Contracts, Instances, Patches, Data}  BY <1>1 DEF TouchedBy
<1>4. /\ TouchedBy(c) \subseteq {Contracts, Instances, Patches, Data}
      /\ c.do \notin {"rollback", "checkout"}
  BY ContractualOK
<1>. QED  BY <1>2, <1>3, <1>4 DEF Inside

LEMMA AtCallAny ==
    ASSUME NEW t, NEW some, NEW any, AtCall(t, some), some \subseteq any
    PROVE  AtCall(t, any)
BY DEF AtCall

LEMMA BindStep ==
    ASSUME Inv, NEW t \in Threads, Bind(t)
    PROVE  Steps(t)
<1>. DEFINE c == Call1(t)
            one == <<Put(Instances, Entry(<<c.slot>>, "instance"))>>
            more == IF c.value = None THEN << >>
                    ELSE <<Call("ensure", Data), Put(Data, Entry(<<c.slot>>, c.value))>>
<1>a. t \in All  BY DEF All
<1>1. thread[t].pc = "call" /\ thread[t].todo # << >>  BY <1>a, CallAt DEF Bind
<1>2. UNCHANGED <<disk, git, sent>>  BY DEF Bind, bounds
<1>3. AtCall(t, {"bind", "propose"})  BY AtCallAny DEF Bind
<1>4. CASE Fail(t)  BY <1>a, <1>1, <1>2, <1>4, FailMoves, FilesSame DEF Inv, Steps
<1>5. CASE Continue(t, one \o more)
  <2>1. IsSeq(one) /\ \A i \in DOMAIN one : Contractual(one[i])
    BY SeqShort, PutIs DEF Contractual
  <2>2. IsSeq(more) /\ \A i \in DOMAIN more : Contractual(more[i])
    <3>1. CASE c.value = None  BY <3>1, SeqShort
    <3>2. CASE c.value # None
      <4>. DEFINE r == <<Call("ensure", Data), Put(Data, Entry(<<c.slot>>, c.value))>>
      <4>1. more = r  BY <3>2
      <4>2. /\ IsSeq(r) /\ DOMAIN r = 1..2 /\ r[1] = Call("ensure", Data)
            /\ r[2] = Put(Data, Entry(<<c.slot>>, c.value))
        BY SeqShort
      <4>. HIDE DEF r, more
      <4>3. \A i \in DOMAIN r : Contractual(r[i])  BY <4>2, PutIs DEF Contractual
      <4>. QED  BY <4>1, <4>2, <4>3
    <3>. QED  BY <3>1, <3>2
  <2>. HIDE DEF one, more
  <2>3. IsSeq(one \o more) /\ \A i \in DOMAIN (one \o more) : Contractual((one \o more)[i])
    BY <2>1, <2>2, SeqConcat
  <2>a. \A i \in DOMAIN (one \o more) : Inside((one \o more)[i], thread[t].asked)
    BY <1>3, <2>3, ContractInside
  <2>4. Moves(t)  BY <1>1, <1>5, <2>3, <2>a, ContractualOK, ContinueMoves DEF Inv
  <2>. QED  BY <1>2, <2>4, FilesSame DEF Steps
<1>. QED  BY <1>4, <1>5 DEF Bind

PutNth(data, order, i) ==
    LET b == order[(i + 1) \div 2] IN Put(Data, Entry(<<b>>, ValueFor(TheContract, data, b)))
LEMMA WriteEachIs ==
    ASSUME NEW data, NEW order, Len(order) \in Nat
    PROVE  LET r == WriteEach(data, order) IN
           /\ IsSeq(r) /\ DOMAIN r = 1..(2 * Len(order))
           /\ \A i \in DOMAIN r : r[i] = IF i % 2 = 1 THEN Call("ensure", Data)
                                         ELSE PutNth(data, order, i)
<1>. DEFINE r == WriteEach(data, order)  n == 2 * Len(order)
<1>1. n \in Nat  OBVIOUS
<1>2. DOMAIN r = 1..n /\ r = [i \in 1..n |-> r[i]]  BY DEF WriteEach
<1>3. \A i \in 1..n : r[i] = IF i % 2 = 1 THEN Call("ensure", Data) ELSE PutNth(data, order, i)
  BY DEF WriteEach, PutNth
<1>. HIDE DEF r, n
<1>4. IsSeq(r)  BY <1>1, <1>2, SeqIs
<1>. QED  BY <1>2, <1>3, <1>4 DEF r, n

LEMMA WritesContractual ==
    ASSUME NEW data, NEW order, Len(order) \in Nat, NEW i \in DOMAIN WriteEach(data, order)
    PROVE  Contractual(WriteEach(data, order)[i])
<1>. DEFINE c == WriteEach(data, order)[i]
<1>1. c = Call("ensure", Data) \/ c = PutNth(data, order, i)  BY WriteEachIs
<1>2. PutNth(data, order, i).do = "put" /\ PutNth(data, order, i).file = Data
  BY PutIs DEF PutNth
<1>. HIDE DEF c
<1>. QED  BY <1>1, <1>2 DEF Contractual, c

\* The accepted slots in an order are a sequence with all of them.
LEMMA OrderIs ==
    ASSUME NEW S, IsFiniteSet(S), NEW order \in Orders(S)
    PROVE  /\ Len(order) \in Nat /\ DOMAIN order = 1..Len(order)
           /\ \A i \in DOMAIN order : order[i] \in S
           /\ \A k \in S : \E i \in DOMAIN order : order[i] = k
<1>1. Cardinality(S) \in Nat  BY FS_CardinalityType
<1>2. order \in [1..Cardinality(S) -> S]  BY DEF Orders
<1>3. order \in Seq(S) /\ DOMAIN order = 1..Cardinality(S)  BY <1>1, <1>2, SeqDef
<1>4. Len(order) \in Nat /\ DOMAIN order = 1..Len(order)  BY <1>3, LenProperties
<1>. QED  BY <1>2, <1>3, <1>4 DEF Orders

LEMMA AcceptedFinite ==
    ASSUME NEW slots, NEW data, IsFiniteSet(DOMAIN data)
    PROVE  IsFiniteSet(Accepted(slots, data))
<1>. DEFINE S == {j \in DOMAIN data : IsAuto(slots, data[j].key)}
            b(i) == SlotOf(slots, data[i].key).bind
            T == {b(i) : i \in S}  f == [i \in S |-> b(i)]
<1>1. IsFiniteSet(S)  BY FS_Subset
<1>2. Accepted(slots, data) = T  BY DEF Accepted
<1>. HIDE DEF S, b
<1>3. f \in Surjection(S, T)  BY DEF Surjection
<1>. HIDE DEF T, f
<1>4. IsFiniteSet(T)  BY <1>1, <1>3, FS_Surjection
<1>. QED  BY <1>2, <1>4

LEMMA ProposeStep ==
    ASSUME Inv, NEW t \in Threads, Propose(t)
    PROVE  Steps(t)
<1>. DEFINE c == Call1(t)  last == Pending(c)
<1>a. t \in All  BY DEF All
<1>1. /\ thread[t].pc = "call" /\ thread[t].todo # << >> /\ c.do = "propose"
      /\ CallOK(c, sent, Len(commits))
  BY <1>a, CallAt DEF Propose
<1>2. UNCHANGED <<disk, git, sent>>  BY DEF Propose, bounds
<1>3. AtCall(t, {"bind", "propose"})  BY AtCallAny DEF Propose
<1>4. CASE Fail(t)  BY <1>a, <1>1, <1>2, <1>4, FailMoves, FilesSame DEF Inv, Steps
<1>5. ASSUME NEW order \in Orders(Accepted(TheContract, c.data)), Continue(t, WriteEach(c.data, order) \o last)
      PROVE  Steps(t)
  <2>. DEFINE each == WriteEach(c.data, order)
  <2>0. Len(order) \in Nat
    <3>1. IsFiniteSet(DOMAIN c.data)  BY <1>1 DEF CallOK
    <3>. QED  BY <3>1, AcceptedFinite, OrderIs
  <2>1. IsSeq(each) /\ \A i \in DOMAIN each : Contractual(each[i])
    BY <2>0, WriteEachIs, WritesContractual
  <2>2. IsSeq(last) /\ \A i \in DOMAIN last : Contractual(last[i])
    BY SeqShort, PutIs DEF Pending, Contractual
  <2>3. Continue(t, each \o last)  BY <1>5
  <2>. HIDE DEF each, last
  <2>4. IsSeq(each \o last) /\ \A i \in DOMAIN (each \o last) : Contractual((each \o last)[i])
    BY <2>1, <2>2, SeqConcat
  <2>a. \A i \in DOMAIN (each \o last) : Inside((each \o last)[i], thread[t].asked)
    BY <1>3, <2>4, ContractInside
  <2>5. Moves(t)  BY <1>1, <2>3, <2>4, <2>a, ContractualOK, ContinueMoves DEF Inv
  <2>. QED  BY <1>2, <2>5, FilesSame DEF Steps
<1>. QED  BY <1>4, <1>5 DEF Propose

LEMMA LogParentStep ==
    ASSUME Inv, NEW t \in Threads, LogParent(t)
    PROVE  /\ Steps(t) /\ UNCHANGED <<disk, git, sent>>
           /\ LET th == thread[t]  nt == thread'[t] IN
              /\ nt.pc = "call" /\ nt.asked = th.asked
              /\ nt.todo = <<Put(Call1(t).file, Entry(<<Call1(t).id>>, [parent |-> at, branch |-> head]))>>
                           \o Tail(th.todo)
              /\ nt.revision = [id |-> Call1(t).id, parent |-> at, commit |-> 0]
<1>. DEFINE th == thread[t]  nt == thread'[t]  c == Call1(t)
            put == <<Put(c.file, Entry(<<c.id>>, [parent |-> at, branch |-> head]))>>
<1>a. t \in All  BY DEF All
<1>0. /\ Placed(th, sent, Len(commits)) /\ t \in DOMAIN thread /\ DOMAIN th = Fields
  BY <1>a, AtIs DEF Inv
<1>1. /\ th.pc = "call" /\ th.todo # << >> /\ c.do = "log" /\ c = th.todo[1]
      /\ 1 \in DOMAIN th.todo /\ CallOK(c, sent, Len(commits))
  BY <1>a, CallAt DEF LogParent
<1>2. UNCHANGED <<disk, git, sent>>  BY DEF LogParent, bounds
<1>3. IsLog(th.asked)
  <2>1. Origin(th)  BY DEF Inv, OriginInv
  <2>. QED  BY <1>1, <2>1 DEF Origin
<1>4. Only(t) /\ nt = [th EXCEPT !.todo = put \o Tail(@),
                         !.revision = [id |-> c.id, parent |-> at, commit |-> 0]]
  BY <1>0 DEF LogParent, Only, Inv, TypeOK
<1>. HIDE DEF nt, put
<1>5. /\ DOMAIN nt = Fields /\ nt.pc = "call" /\ nt.todo = put \o Tail(th.todo)
      /\ nt.asked = th.asked /\ nt.revision = [id |-> c.id, parent |-> at, commit |-> 0]
  BY <1>0, <1>1, <1>4 DEF Fields
<1>8. c.file = RevNs /\ c.id \in 1..sent  BY <1>1 DEF CallOK
<1>9. IsSeq(put) /\ DOMAIN put = 1..1 /\ put[1] = Put(RevNs, Entry(<<c.id>>, [parent |-> at, branch |-> head]))
  BY <1>8, SeqShort DEF put
<1>10. CallOK(put[1], sent, Len(commits)) /\ put[1].do # "log"
  <2>1. put[1].do = "put" /\ put[1].file = RevNs /\ DOMAIN put[1].entries = {<<c.id>>}
    BY <1>9 DEF Put, Entry
  <2>2. \A i \in (sent + 1)..MaxRequests : <<i>> # <<c.id>>
    BY <1>8 DEF Inv, TypeOK
  <2>. QED  BY <2>1, <2>2, NamesAre DEF CallOK
<1>p. Inside(put[1], th.asked)
  <2>1. Inside(c, th.asked)  BY <1>1 DEF Inv, OriginInv, Origin
  <2>2. TouchedBy(c) = {RevNs}  BY <1>1, <1>8 DEF TouchedBy
  <2>3. put[1].do = "put" /\ put[1].file = RevNs  BY <1>9, PutIs
  <2>4. TouchedBy(put[1]) = {RevNs}  BY <2>3 DEF TouchedBy
  <2>. QED  BY <2>1, <2>2, <2>3, <2>4 DEF Inside
<1>11. /\ IsSeq(Tail(th.todo))
       /\ \A i \in DOMAIN Tail(th.todo) : i + 1 \in DOMAIN th.todo /\ Tail(th.todo)[i] = th.todo[i + 1]
  BY <1>0, <1>1, SeqTail DEF Placed
<1>12. /\ IsSeq(nt.todo)
       /\ \A i \in DOMAIN nt.todo :
             \/ nt.todo[i] = put[1]
             \/ \E j \in DOMAIN Tail(th.todo) : nt.todo[i] = Tail(th.todo)[j]
  <2>. DEFINE rest == Tail(th.todo)
  <2>1. IsSeq(put) /\ IsSeq(rest) /\ \A i \in DOMAIN put : put[i] = put[1]  BY <1>9, <1>11
  <2>. HIDE DEF rest
  <2>2. /\ IsSeq(put \o rest)
        /\ \A i \in DOMAIN (put \o rest) :
              \/ (put \o rest)[i] = put[1]
              \/ \E j \in DOMAIN rest : (put \o rest)[i] = rest[j]
    <3>1. /\ IsSeq(put \o rest)
          /\ \A i \in DOMAIN (put \o rest) :
                 \/ i \in DOMAIN put /\ (put \o rest)[i] = put[i]
                 \/ i - Len(put) \in DOMAIN rest /\ (put \o rest)[i] = rest[i - Len(put)]
      BY <2>1, SeqConcat
    <3>. DEFINE r == put \o rest
    <3>. HIDE DEF r
    <3>2. ASSUME NEW i \in DOMAIN r
          PROVE  r[i] = put[1] \/ \E j \in DOMAIN rest : r[i] = rest[j]
      BY <2>1, <3>1, <3>2 DEF r
    <3>. QED  BY <3>1, <3>2 DEF r
  <2>. QED  BY <1>5, <2>2 DEF rest
<1>13. ASSUME NEW i \in DOMAIN nt.todo
       PROVE  /\ CallOK(nt.todo[i], sent, Len(commits))
              /\ \/ nt.todo[i].do # "log" /\ Inside(nt.todo[i], th.asked)
                 \/ \E j \in DOMAIN th.todo : nt.todo[i] = th.todo[j]
  <2>1. CASE nt.todo[i] = put[1]  BY <2>1, <1>10, <1>p
  <2>2. CASE \E j \in DOMAIN Tail(th.todo) : nt.todo[i] = Tail(th.todo)[j]
    <3>1. \E j \in DOMAIN th.todo : nt.todo[i] = th.todo[j]  BY <2>2, <1>11
    <3>. QED  BY <3>1, <1>0 DEF Placed
  <2>. QED  BY <2>1, <2>2, <1>12
<1>14. Moves(t)  BY <1>a, <1>1, <1>3, <1>4, <1>5, <1>12, <1>13, CallMoves DEF nt, Inv
<1>15. Steps(t)  BY <1>2, <1>14, FilesSame DEF Steps
<1>. QED  BY <1>2, <1>5, <1>15 DEF nt, put

LEMMA AddAllStep ==
    ASSUME Inv, NEW t \in Threads, AddAll(t)
    PROVE  Steps(t)
<1>a. t \in All  BY DEF All
<1>1. /\ thread[t].pc = "call" /\ thread[t].todo # << >> /\ Call1(t).do = "commit"
  BY <1>a, CallAt DEF AddAll
<1>2. CASE index' = disk /\ Go(t, "commit")
  <2>1. Moves(t)  BY <1>a, <1>1, <1>2, GoMoves DEF Inv
  <2>2. UNCHANGED <<disk, commits, head, at, tip, sent>>  BY DEF AddAll, bounds
  <2>3. FilesInv' /\ HistoryInv'  BY <1>2, <2>2 DEF Inv, TypeOK, FilesInv, HistoryInv
  <2>4. SeenInv'  BY <1>2, <2>2 DEF Inv, SeenInv
  <2>. QED  BY <2>1, <2>3, <2>4 DEF Steps
<1>3. CASE Fail(t) /\ UNCHANGED index
  <2>1. UNCHANGED <<disk, git, sent>>  BY <1>3 DEF AddAll, bounds, git
  <2>. QED  BY <1>a, <1>1, <1>3, <2>1, FailMoves, FilesSame DEF Inv, Steps
<1>. QED  BY <1>2, <1>3 DEF AddAll

LEMMA FitNow ==
    ASSUME Inv
    PROVE  Fit(commits, at, index) /\ Len(commits) \in Nat /\ at \in 1..Len(commits)
BY GraphLen DEF Inv, TypeOK, HistoryInv, FilesInv, Fit

LEMMA CommitStep ==
    ASSUME Inv, NEW t \in Threads, Commit(t)
    PROVE  /\ Steps(t) /\ UNCHANGED <<disk, index, sent>>
           /\ GrowsTo(commits, at, index, commits', at')
<1>a. t \in All  BY DEF All
<1>1. /\ thread[t].pc = "commit" /\ thread[t].todo # << >> /\ Call1(t).do = "commit"
  BY <1>a, AtIs DEF Commit, Inv, Placed
<1>2. UNCHANGED <<disk, index, head, sent>>  BY DEF Commit, bounds
<1>3. CASE Advance(t) /\ UNCHANGED <<commits, at, tip>>
  <2>1. UNCHANGED <<disk, git, sent>>  BY <1>2, <1>3 DEF git
  <2>. QED  BY <1>a, <1>1, <1>2, <1>3, <2>1, AdvanceMoves, FilesSame DEF Inv, Steps, GrowsTo
<1>4. CASE Fail(t) /\ UNCHANGED <<commits, at, tip>>
  <2>1. UNCHANGED <<disk, git, sent>>  BY <1>2, <1>4 DEF git
  <2>. QED  BY <1>a, <1>1, <1>2, <1>4, <2>1, FailMoves, FilesSame DEF Inv, Steps, GrowsTo
<1>5. CASE /\ commits' = Append(commits, [parent |-> at, tree |-> index])
           /\ at' = Len(commits') /\ tip' = TipAt(at') /\ Go(t, "revparse")
  <2>1. Adds(commits, at, index, commits')  BY <1>5, FitNow DEF Adds, Grown
  <2>2. /\ Graph(commits') /\ Len(commits') = Len(commits) + 1 /\ Len(commits') \in DOMAIN commits'
        /\ \A c \in DOMAIN commits' : c \in DOMAIN commits \/ c = Len(commits')
    BY <2>1, GrownIs
  <2>c. \A c \in DOMAIN commits : commits'[c] = commits[c]  BY <2>1, GrownIs
  <2>d. commits'[Len(commits')].tree = index  BY <2>1, GrownIs
  <2>3. Moves(t)  BY <1>a, <1>1, <1>5, GoMoves DEF Inv
  <2>4. FilesInv'  BY <1>2 DEF Inv, TypeOK, FilesInv
  <2>5. HistoryInv'
    <3>1. DOMAIN tip = Branches /\ \A b \in Branches : tip[b] \in 0..Len(commits)
      BY DEF Inv, TypeOK, HistoryInv
    <3>2. DOMAIN tip' = Branches /\ \A b \in Branches : tip'[b] \in {tip[b], at'}
      BY <1>5, <3>1 DEF TipAt
    <3>3. Len(commits) \in Nat  BY FitNow
    <3>4. \A b \in Branches : tip'[b] \in 0..Len(commits')
      BY <1>5, <2>2, <3>1, <3>2, <3>3
    <3>. QED  BY <1>5, <2>2, <3>2, <3>4 DEF HistoryInv
  <2>6. SeenInv'
    <3>1. \A c \in DOMAIN commits' : Fresh(commits'[c].tree[RevNs], sent)
      BY <2>2, <2>c, <2>d DEF Inv, SeenInv
    <3>. QED  BY <1>2, <3>1 DEF Inv, SeenInv
  <2>7. GrowsTo(commits, at, index, commits', at')  BY <1>5 DEF GrowsTo, Grown
  <2>. QED  BY <1>2, <2>3, <2>4, <2>5, <2>6, <2>7 DEF Steps
<1>. QED  BY <1>3, <1>4, <1>5 DEF Commit

LEMMA RevParseStep ==
    ASSUME Inv, NEW t \in Threads, RevParse(t)
    PROVE  /\ Steps(t) /\ UNCHANGED <<disk, git, sent>>
           /\ LET th == thread[t]  nt == thread'[t] IN
              /\ nt.pc = "call" /\ nt.asked = th.asked /\ nt.todo = Tail(th.todo)
              /\ nt.revision \in {th.revision, [th.revision EXCEPT !.commit = at]}
<1>. DEFINE th == thread[t]  nt == thread'[t]
<1>a. t \in All  BY DEF All
<1>0. /\ Placed(th, sent, Len(commits)) /\ t \in DOMAIN thread /\ DOMAIN th = Fields
  BY <1>a, AtIs DEF Inv
<1>1. th.pc = "revparse" /\ th.todo # << >>  BY <1>0 DEF RevParse, Placed
<1>2. UNCHANGED <<disk, git, sent>>  BY DEF RevParse, bounds
<1>3. th.revision = None \/ IsLog(th.asked)  BY DEF Inv, OriginInv, Origin
<1>4. Only(t) /\ nt = [th EXCEPT !.pc = "call", !.todo = Tail(@),
                         !.revision = IF @ = None THEN None ELSE [@ EXCEPT !.commit = at]]
  BY <1>0 DEF RevParse, Only, Inv, TypeOK
<1>. HIDE DEF nt
<1>5. /\ DOMAIN nt = Fields /\ nt.pc = "call" /\ nt.todo = Tail(th.todo) /\ nt.asked = th.asked
      /\ nt.revision = IF th.revision = None THEN None ELSE [th.revision EXCEPT !.commit = at]
  BY <1>0, <1>4 DEF Fields
<1>6. IsSeq(nt.todo) /\ \A i \in DOMAIN nt.todo : i + 1 \in DOMAIN th.todo /\ nt.todo[i] = th.todo[i + 1]
  BY <1>0, <1>1, <1>5, SeqTail DEF Placed
<1>7. \A i \in DOMAIN nt.todo : /\ CallOK(nt.todo[i], sent, Len(commits))
                                /\ \E j \in DOMAIN th.todo : nt.todo[i] = th.todo[j]
  BY <1>0, <1>6 DEF Placed
<1>8. nt.revision = th.revision \/ IsLog(th.asked)  BY <1>3, <1>5
<1>9. Moves(t)  BY <1>a, <1>1, <1>4, <1>5, <1>6, <1>7, <1>8, CallMoves DEF nt, Inv
<1>10. Steps(t)  BY <1>2, <1>9, FilesSame DEF Steps
<1>. QED  BY <1>2, <1>5, <1>10 DEF nt

\* Files that git brings back are of a commit or are what they were.
LEMMA TreeBrought ==
    ASSUME Inv, NEW c \in DOMAIN commits, UNCHANGED <<commits, tip, sent>>, at' \in DOMAIN commits,
           DOMAIN disk' = Files, DOMAIN index' = Files,
           \A n \in Names : /\ disk'[n] \in {disk[n], commits[c].tree[n]}
                            /\ index'[n] \in {index[n], commits[c].tree[n]}
    PROVE  FilesInv' /\ HistoryInv' /\ SeenInv'
<1>1. \A n \in Names : IsFile(commits[c].tree[n])
  BY DEF Inv, TypeOK, HistoryInv, Graph
<1>2. FilesInv'  BY <1>1 DEF Inv, TypeOK, FilesInv
<1>3. HistoryInv'  BY DEF Inv, TypeOK, HistoryInv
<1>4. Fresh(commits[c].tree[RevNs], sent) /\ Fresh(disk[RevNs], sent) /\ Fresh(index[RevNs], sent)
  BY DEF Inv, SeenInv
<1>5. Fresh(disk'[RevNs], sent) /\ Fresh(index'[RevNs], sent)  BY <1>4, NamesAre
<1>6. SeenInv'  BY <1>5 DEF Inv, SeenInv
<1>. QED  BY <1>2, <1>3, <1>6

LEMMA RollbackStep ==
    ASSUME Inv, NEW t \in Threads, Rollback(t)
    PROVE  Steps(t)
<1>a. t \in All  BY DEF All
<1>. DEFINE ref == Call1(t).ref  tree == commits[ref].tree
<1>1. /\ thread[t].pc = "call" /\ thread[t].todo # << >> /\ Call1(t).do = "rollback"
      /\ CallOK(Call1(t), sent, Len(commits))
  BY <1>a, CallAt DEF Rollback
<1>2. ref \in DOMAIN commits  BY <1>1, GraphLen DEF CallOK, Inv, TypeOK, HistoryInv
<1>3. /\ disk' = [f \in Files |-> IF tree[f] # Absent THEN tree[f] ELSE disk[f]]
      /\ index' = [f \in Files |-> IF tree[f] # Absent THEN tree[f] ELSE index[f]]
      /\ Advance(t) /\ UNCHANGED <<commits, at, tip, sent>>
  BY DEF Rollback, bounds
<1>. HIDE DEF ref
<1>4. /\ DOMAIN disk' = Files /\ DOMAIN index' = Files
      /\ \A n \in Names : /\ disk'[n] \in {disk[n], commits[ref].tree[n]}
                          /\ index'[n] \in {index[n], commits[ref].tree[n]}
  BY <1>3, NamesAre
<1>5. at' \in DOMAIN commits  BY <1>3 DEF Inv, TypeOK, HistoryInv
<1>6. FilesInv' /\ HistoryInv' /\ SeenInv'  BY <1>2, <1>3, <1>4, <1>5, TreeBrought, Zenon
<1>7. Moves(t)
  <2>1. thread[t].pc # "idle" /\ thread[t].todo # << >>  BY <1>1
  <2>2. TypeOK /\ PlaceInv /\ OriginInv /\ Advance(t)  BY <1>3 DEF Inv
  <2>. QED  BY <1>a, <2>1, <2>2, AdvanceMoves
<1>. QED  BY <1>6, <1>7 DEF Steps

LEMMA CheckoutStep ==
    ASSUME Inv, NEW t \in Threads, Checkout(t)
    PROVE  Steps(t)
<1>a. t \in All  BY DEF All
<1>1. /\ thread[t].pc = "call" /\ thread[t].todo # << >> /\ Call1(t).do = "checkout"
      /\ CallOK(Call1(t), sent, Len(commits))
  <2>1. AtCall(t, {"checkout"})  BY Zenon DEF Checkout
  <2>. QED  BY <1>a, <2>1, CallAt
<1>. DEFINE ref == Call1(t).ref
            goal == IF ref \in Branches THEN tip[ref] ELSE ref
            old == commits[at].tree
            new == commits[goal].tree
            moved == {f \in Files : old[f] # new[f] /\ index[f] # new[f]}
<1>2. UNCHANGED <<commits, tip, sent>>  BY DEF Checkout, bounds
<1>3. goal # 0 => goal \in DOMAIN commits
  <2>1. DOMAIN commits = 1..Len(commits) /\ Len(commits) \in Nat
    BY GraphLen DEF Inv, TypeOK, HistoryInv
  <2>2. ref \in Branches \cup 1..Len(commits)  BY <1>1 DEF CallOK
  <2>3. \A b \in Branches : tip[b] \in 0..Len(commits)  BY DEF Inv, TypeOK, HistoryInv
  <2>. HIDE DEF ref
  <2>4. goal \in 0..Len(commits)  BY <2>1, <2>2, <2>3
  <2>. HIDE DEF goal
  <2>. QED  BY <2>1, <2>4
<1>4. CASE Fail(t) /\ UNCHANGED <<disk, index, head, at>>
  <2>1. UNCHANGED <<disk, git, sent>>  BY <1>2, <1>4 DEF git
  <2>. QED  BY <1>a, <1>1, <1>4, <2>1, FailMoves, FilesSame DEF Inv, Steps
<1>5. CASE /\ goal # 0 /\ at' = goal /\ Advance(t)
           /\ disk' = [f \in Files |-> IF f \in moved THEN new[f] ELSE disk[f]]
           /\ index' = [f \in Files |-> IF f \in moved THEN new[f] ELSE index[f]]
  <2>1. goal \in DOMAIN commits /\ at' \in DOMAIN commits  BY <1>3, <1>5
  <2>. HIDE DEF moved, goal
  <2>2. /\ DOMAIN disk' = Files /\ DOMAIN index' = Files
        /\ \A n \in Names : /\ disk'[n] \in {disk[n], commits[goal].tree[n]}
                            /\ index'[n] \in {index[n], commits[goal].tree[n]}
    BY <1>5, NamesAre
  <2>3. FilesInv' /\ HistoryInv' /\ SeenInv'  BY <1>2, <2>1, <2>2, TreeBrought
  <2>4. Moves(t)  BY <1>a, <1>1, <1>5, AdvanceMoves DEF Inv
  <2>. QED  BY <2>3, <2>4 DEF Steps
<1>. QED  BY <1>4, <1>5 DEF Checkout

LEMMA CreateBranchStep ==
    ASSUME Inv, NEW t \in Threads, CreateBranch(t)
    PROVE  Steps(t)
<1>a. t \in All  BY DEF All
<1>1. /\ thread[t].pc = "call" /\ thread[t].todo # << >>  BY <1>a, CallAt DEF CreateBranch
<1>2. UNCHANGED <<disk, index, commits, head, at, sent>>  BY DEF CreateBranch, bounds
<1>3. CASE Fail(t) /\ UNCHANGED tip
  <2>1. UNCHANGED <<disk, git, sent>>  BY <1>2, <1>3 DEF git
  <2>. QED  BY <1>a, <1>1, <1>3, <2>1, FailMoves, FilesSame DEF Inv, Steps
<1>4. CASE tip' = [tip EXCEPT ![Call1(t).name] = at] /\ Advance(t)
  <2>1. DOMAIN tip = Branches /\ \A b \in Branches : tip[b] \in 0..Len(commits)
    BY DEF Inv, TypeOK, HistoryInv
  <2>2. at \in 0..Len(commits)  BY FitNow
  <2>3. DOMAIN tip' = Branches /\ \A b \in Branches : tip'[b] \in {tip[b], at}  BY <1>4, <2>1
  <2>4. \A b \in Branches : tip'[b] \in 0..Len(commits)  BY <2>1, <2>2, <2>3
  <2>5. HistoryInv'  BY <1>2, <2>3, <2>4 DEF Inv, TypeOK, HistoryInv
  <2>6. FilesInv' /\ SeenInv'  BY <1>2 DEF Inv, TypeOK, FilesInv, SeenInv
  <2>7. Moves(t)  BY <1>a, <1>1, <1>4, AdvanceMoves DEF Inv
  <2>. QED  BY <2>5, <2>6, <2>7 DEF Steps
<1>. QED  BY <1>3, <1>4 DEF CreateBranch

\* A thread that has no call left answers, and the server then takes requests.
LEMMA EndStep ==
    ASSUME Inv, NEW t \in All, thread[t].pc = "call", Fail(t), UNCHANGED <<disk, git, sent>>
    PROVE  Steps(t) /\ thread'[t] = Idle
BY FailMoves, FilesSame DEF Inv, Steps
-------------------------------------------------------------------------------
(* The steps of a request that records a revision.                             *)
LogOf(t, id) == LogAt(thread[t], id, disk[RevNs], index, commits, at)

LEMMA SeqOne ==
    ASSUME NEW s, IsSeq(s), Len(s) = 1
    PROVE  s = <<s[1]>>
BY SeqLen DEF IsSeq

LEMMA SeqTwo ==
    ASSUME NEW a, NEW b
    PROVE  <<a>> \o <<b>> = <<a, b>>
<1>. DEFINE s == <<a>>  t == <<b>>
<1>1. IsSeq(s) /\ Len(s) = 1 /\ DOMAIN s = 1..1 /\ s[1] = a  BY SeqShort
<1>2. IsSeq(t) /\ Len(t) = 1 /\ DOMAIN t = 1..1 /\ t[1] = b  BY SeqShort
<1>. HIDE DEF s, t
<1>. DEFINE r == s \o t
<1>3. /\ IsSeq(r) /\ Len(r) = Len(s) + Len(t)
      /\ \A i \in DOMAIN r : \/ i \in DOMAIN s /\ r[i] = s[i]
                             \/ i - Len(s) \in DOMAIN t /\ r[i] = t[i - Len(s)]
  BY <1>1, <1>2, SeqConcat
<1>. HIDE DEF r
<1>4. DOMAIN r = 1..2 /\ Len(r) = 2  BY <1>1, <1>2, <1>3, SeqLen
<1>5. r[1] = a /\ r[2] = b  BY <1>1, <1>2, <1>3, <1>4
<1>6. r = <<a, b>>
  <2>. DEFINE q == <<a, b>>
  <2>1. q \in Seq({a, b}) /\ Len(q) = 2 /\ q[1] = a /\ q[2] = b  OBVIOUS
  <2>2. {r[i] : i \in DOMAIN r} = {a, b}  BY <1>4, <1>5
  <2>3. r \in Seq({a, b})  BY <1>3, <2>2 DEF IsSeq
  <2>. HIDE DEF q
  <2>4. \A i \in 1..Len(r) : r[i] = q[i]  BY <1>4, <1>5, <2>1
  <2>5. r = q  BY <1>4, <2>1, <2>3, <2>4, SeqEqual
  <2>. QED  BY <2>5 DEF q
<1>. QED  BY <1>6 DEF r, s, t

LEMMA GitIs ==
    \A what : Git(what).do = what /\ <<Git(what)>>[1] = Git(what) /\ <<Git(what)>> # << >>
              /\ IsSeq(<<Git(what)>>) /\ Tail(<<Git(what)>>) = << >>
<1>. TAKE what
<1>1. Git(what).do = what  BY DEF Git
<1>2. \A g : <<g>>[1] = g /\ <<g>> # << >> /\ IsSeq(<<g>>) /\ Len(<<g>>) = 1  BY SeqShort
<1>3. ASSUME NEW g PROVE Tail(<<g>>) = << >>
  <2>. DEFINE s == <<g>>
  <2>1. IsSeq(s) /\ Len(s) = 1 /\ s # << >>  BY <1>2
  <2>. HIDE DEF s
  <2>2. IsSeq(Tail(s)) /\ Len(Tail(s)) = 0  BY <2>1, SeqTail
  <2>. QED  BY <2>2, SeqLen DEF s
<1>. QED  BY <1>1, <1>2, <1>3

\* Where it stands shows how far it is.
LEMMA StageIs ==
    ASSUME NEW th, NEW id, NEW d, NEW x, NEW C, NEW a, LogAt(th, id, d, x, C, a)
    PROVE  /\ th.pc = "call" /\ th.todo # << >> =>
                 \/ th.todo[1].do = "log" /\ Asking(th, id, d, x, C)
                 \/ th.todo[1].do = "put" /\ Writing(th, id, d, x, C, a)
                 \/ th.todo[1].do = "commit" /\ Staging(th, id, d, x, C, a)
           /\ th.pc = "call" /\ th.todo = << >> => Done(th, id, C)
           /\ th.pc \in {"truncate", "write"} => Writing(th, id, d, x, C, a)
           /\ th.pc = "commit" => Staging(th, id, d, x, C, a)
           /\ th.pc = "revparse" => Committed(th, id, d, x, C, a)
           /\ th.pc # "meta"
<1>1. CASE Asking(th, id, d, x, C)
  <2>1. th.pc = "call" /\ th.todo # << >> /\ th.todo[1].do = "log"
    <3>1. th.pc = "call" /\ th.todo = CommitRevision(id)  BY <1>1 DEF Asking
    <3>2. th.todo # << >> /\ th.todo[1] = [do |-> "log", file |-> RevNs, id |-> id]
      BY <3>1, CommitIs
    <3>. QED  BY <3>1, <3>2
  <2>. QED  BY <1>1, <2>1
<1>2. CASE Writing(th, id, d, x, C, a)
  <2>1. th.pc \in {"call", "truncate", "write"} /\ Len(th.todo) = 2 /\ th.todo[1].do = "put"
    BY <1>2, PutIs DEF Writing
  <2>2. th.todo # << >>  BY <2>1, SeqShort, SeqLen
  <2>. QED  BY <1>2, <2>1, <2>2
<1>3. CASE Staging(th, id, d, x, C, a)
  <2>1. th.pc \in {"call", "commit"} /\ th.todo # << >> /\ th.todo[1].do = "commit"
    BY <1>3, GitIs DEF Staging
  <2>. QED  BY <1>3, <2>1
<1>4. CASE Committed(th, id, d, x, C, a)  BY <1>4 DEF Committed
<1>5. CASE Done(th, id, C)  BY <1>5 DEF Done
<1>. QED  BY <1>1, <1>2, <1>3, <1>4, <1>5 DEF LogAt

LEMMA LogParentOwn ==
    ASSUME Inv, NEW t \in Threads, LogParent(t), NEW id, LogOf(t, id)
    PROVE  LogOf(t, id)'
<1>. DEFINE th == thread[t]  nt == thread'[t]  c == Call1(t)
            e == [parent |-> at, branch |-> head]  rest == Tail(th.todo)
<1>a. t \in All  BY DEF All
<1>1. th.pc = "call" /\ th.todo # << >> /\ c.do = "log" /\ c = th.todo[1]
  BY <1>a, CallAt DEF LogParent
<1>2. Asking(th, id, disk[RevNs], index, commits)  BY <1>1, StageIs DEF LogOf
<1>3. /\ UNCHANGED <<disk, git, sent>> /\ nt.pc = "call"
      /\ nt.todo = <<Put(c.file, Entry(<<c.id>>, e))>> \o rest
      /\ nt.revision = [id |-> c.id, parent |-> at, commit |-> 0]
  BY LogParentStep
<1>4. c = [do |-> "log", file |-> RevNs, id |-> id]  BY <1>1, <1>2, CommitIs DEF Asking
<1>5. /\ IsSeq(rest) /\ Len(rest) = 1 /\ \A i \in DOMAIN rest : rest[i] = th.todo[i + 1]
  <2>1. IsSeq(th.todo) /\ Len(th.todo) = 2 /\ th.todo # << >>  BY <1>2, CommitIs DEF Asking
  <2>. QED  BY <2>1, SeqTail
<1>6. rest[1] = Git("commit")
  <2>1. DOMAIN rest = 1..1  BY <1>5, SeqLen
  <2>2. rest[1] = th.todo[1 + 1]  BY <1>5, <2>1
  <2>3. th.todo[2] = Git("commit")  BY <1>2, CommitIs DEF Asking
  <2>. HIDE DEF rest, th
  <2>. QED  BY <2>2, <2>3
<1>. HIDE DEF nt, c, e, rest
<1>7. c.id = id /\ c.file = RevNs  BY <1>4
<1>8. nt.todo = <<Put(RevNs, Entry(<<id>>, e))>> \o rest  BY <1>3, <1>7
<1>9. /\ Len(nt.todo) = 2 /\ nt.todo[1] = Put(RevNs, Entry(<<id>>, e)) /\ nt.todo[2] = Git("commit")
  <2>. DEFINE p == Put(RevNs, Entry(<<id>>, e))
  <2>1. rest = <<Git("commit")>>  BY <1>5, <1>6, SeqOne
  <2>. HIDE DEF p
  <2>2. nt.todo = <<p, Git("commit")>>  BY <1>8, <2>1, SeqTwo DEF p
  <2>. QED  BY <2>2, SeqShort DEF p
<1>10. nt.todo[1].entries[<<id>>] = e
  <2>1. nt.todo[1].entries = Entry(<<id>>, e)  BY <1>9 DEF Put
  <2>. QED  BY <2>1 DEF Entry
<1>11. Own(nt, id, commits, at)
  <2>1. nt.revision = [id |-> id, parent |-> at, commit |-> 0] /\ nt.revision.parent = at
    BY <1>3, <1>7
  <2>2. at \in Above(commits, at)  BY AboveSelf DEF Inv, TypeOK, HistoryInv
  <2>. QED  BY <2>1, <2>2 DEF Own
<1>12. Unseen(id, disk[RevNs], index, commits)  BY <1>2 DEF Asking
<1>13. Writing(nt, id, disk[RevNs], index, commits, at)
  BY <1>3, <1>9, <1>10, <1>11, <1>12 DEF Writing
<1>. QED  BY <1>3, <1>13 DEF LogOf, LogAt, git, nt

LEMMA LoadOwn ==
    ASSUME Inv, NEW t \in Threads, Load(t), NEW id, LogOf(t, id)
    PROVE  thread'[t] = Idle \/ LogOf(t, id)'
<1>. DEFINE th == thread[t]  nt == thread'[t]  c == Call1(t)
<1>a. t \in All  BY DEF All
<1>1. /\ th.pc = "call" /\ th.todo # << >> /\ c.do \in {"put", "remove", "schema"}
      /\ c = th.todo[1] /\ CallOK(c, sent, Len(commits))
  BY <1>a, CallAt DEF Load
<1>2. UNCHANGED <<disk, git, sent>>  BY DEF Load, bounds
<1>3. Writing(th, id, disk[RevNs], index, commits, at)  BY <1>1, StageIs DEF LogOf
<1>4. c = Put(RevNs, Entry(<<id>>, c.entries[<<id>>])) /\ c.file = RevNs
  BY <1>1, <1>3, PutIs DEF Writing
<1>5. CASE Fail(t)  BY <1>a, <1>1, <1>5, FailMoves DEF Inv
<1>6. CASE Readable(c.file) /\ Save(t, c.file, Changed(disk[c.file], c))
  <2>. DEFINE made == Changed(disk[c.file], c)
  <2>1. DOMAIN disk[c.file] = {"schema", "entries"}
    BY <1>4, <1>6, NamesAre DEF Readable, Inv, TypeOK, FilesInv, IsFile
  <2>2. sent \in Nat /\ Fresh(disk[c.file], sent)  BY <1>4 DEF Inv, TypeOK, SeenInv
  <2>. HIDE DEF c
  <2>3. DOMAIN made = {"schema", "entries"} /\ Fresh(made, sent) /\ Has(made, id)
    BY <1>1, <1>4, <2>1, <2>2, ChangedIs
  <2>4. /\ nt.pc = "truncate" /\ nt.todo = th.todo /\ nt.buf = made /\ nt.file = RevNs
        /\ nt.revision = th.revision
    BY <1>a, <1>1, <1>4, <1>6, <2>3, SaveMoves DEF Inv, c
  <2>. HIDE DEF made
  <2>5. Writing(nt, id, disk[RevNs], index, commits, at)
    BY <1>3, <2>3, <2>4 DEF Writing, Own
  <2>. QED  BY <1>2, <2>5 DEF LogOf, LogAt, git
<1>. QED  BY <1>5, <1>6 DEF Load

LEMMA TruncateOwn ==
    ASSUME Inv, NEW t \in Threads, Truncate(t), NEW id, LogOf(t, id)
    PROVE  LogOf(t, id)'
<1>. DEFINE th == thread[t]  nt == thread'[t]
<1>a. t \in All  BY DEF All
<1>1. th.pc = "truncate"  BY DEF Truncate
<1>2. Writing(th, id, disk[RevNs], index, commits, at)  BY <1>1, StageIs DEF LogOf
<1>3. th.file = RevNs  BY <1>1, <1>2 DEF Writing
<1>4. /\ nt.pc = "write" /\ nt.todo = th.todo /\ nt.buf = th.buf /\ nt.file = th.file
      /\ nt.revision = th.revision
  BY <1>a, <1>1, GoMoves DEF Truncate, Inv
<1>5. UNCHANGED git /\ disk'[RevNs] = Torn
  BY <1>3, NamesAre DEF Truncate, Inv, TypeOK, FilesInv
<1>6. ~ Has(Torn, id)  BY DEF Has
<1>7. Writing(nt, id, Torn, index, commits, at)
  BY <1>1, <1>2, <1>4, <1>6 DEF Writing, Own, Unseen
<1>. QED  BY <1>5, <1>7 DEF LogOf, LogAt, git

LEMMA WriteOwn ==
    ASSUME Inv, NEW t \in Threads, Write(t), NEW id, LogOf(t, id)
    PROVE  LogOf(t, id)'
<1>. DEFINE th == thread[t]  nt == thread'[t]
<1>a. t \in All  BY DEF All
<1>1. th.pc = "write" /\ th.todo # << >>  BY <1>a, FileAt DEF Write
<1>2. Writing(th, id, disk[RevNs], index, commits, at)  BY <1>1, StageIs DEF LogOf
<1>3. th.file = RevNs /\ Has(th.buf, id) /\ th.todo[1].do = "put"
  BY <1>1, <1>2, PutIs DEF Writing
<1>4. Call1(t).do = "put" /\ IsSeq(th.todo)  BY <1>a, <1>1, <1>3, AtIs DEF Inv, Placed
<1>5. Advance(t)  BY <1>4 DEF Write
<1>6. nt.pc = "call" /\ nt.todo = Tail(th.todo) /\ nt.revision = th.revision
  BY <1>a, <1>1, <1>5, AdvanceMoves DEF Inv
<1>7. nt.todo = <<Git("commit")>>
  <2>1. /\ IsSeq(nt.todo) /\ Len(nt.todo) = 1 /\ \A i \in DOMAIN nt.todo : nt.todo[i] = th.todo[i + 1]
    BY <1>1, <1>2, <1>4, <1>6, SeqTail DEF Writing
  <2>2. DOMAIN nt.todo = 1..1  BY <2>1, SeqLen
  <2>3. nt.todo[1] = th.todo[1 + 1]  BY <2>1, <2>2
  <2>4. nt.todo[1] = Git("commit")  BY <2>3, <1>2 DEF Writing
  <2>. QED  BY <2>1, <2>4, SeqOne
<1>8. UNCHANGED git /\ disk'[RevNs] = th.buf
  BY <1>3, NamesAre DEF Write, Inv, TypeOK, FilesInv
<1>9. Staging(nt, id, th.buf, index, commits, at)
  BY <1>2, <1>3, <1>6, <1>7 DEF Writing, Staging, Own, Unseen
<1>. QED  BY <1>8, <1>9 DEF LogOf, LogAt, git

LEMMA AddAllOwn ==
    ASSUME Inv, NEW t \in Threads, AddAll(t), NEW id, LogOf(t, id)
    PROVE  thread'[t] = Idle \/ LogOf(t, id)'
<1>. DEFINE th == thread[t]  nt == thread'[t]
<1>a. t \in All  BY DEF All
<1>1. /\ th.pc = "call" /\ th.todo # << >> /\ Call1(t).do = "commit" /\ Call1(t) = th.todo[1]
  BY <1>a, CallAt DEF AddAll
<1>2. Staging(th, id, disk[RevNs], index, commits, at)  BY <1>1, StageIs DEF LogOf
<1>3. CASE index' = disk /\ Go(t, "commit")
  <2>1. nt.pc = "commit" /\ nt.todo = th.todo /\ nt.revision = th.revision
    BY <1>a, <1>1, <1>3, GoMoves DEF Inv
  <2>2. UNCHANGED <<disk, commits, at>>  BY DEF AddAll
  <2>3. Staging(nt, id, disk[RevNs], disk, commits, at)
    BY <1>2, <2>1 DEF Staging, Own
  <2>. QED  BY <1>3, <2>2, <2>3 DEF LogOf, LogAt
<1>4. CASE Fail(t)  BY <1>a, <1>1, <1>4, FailMoves DEF Inv
<1>. QED  BY <1>3, <1>4 DEF AddAll

LEMMA CommitOwn ==
    ASSUME Inv, NEW t \in Threads, Commit(t), NEW id, LogOf(t, id)
    PROVE  thread'[t] = Idle \/ LogOf(t, id)'
<1>. DEFINE th == thread[t]  nt == thread'[t]  p == th.revision.parent
<1>a. t \in All  BY DEF All
<1>1. /\ th.pc = "commit" /\ th.todo # << >> /\ Call1(t).do = "commit"
  BY <1>a, AtIs DEF Commit, Inv, Placed
<1>2. Staging(th, id, disk[RevNs], index, commits, at)  BY <1>1, StageIs DEF LogOf
<1>3. /\ th.todo = <<Git("commit")>> /\ Has(disk[RevNs], id) /\ Has(index[RevNs], id)
      /\ th.revision = [id |-> id, parent |-> p, commit |-> 0] /\ p \in Above(commits, at)
      /\ ((\E c \in DOMAIN commits : Rec(commits, c, id)) => Brought(commits, id, p))
  BY <1>1, <1>2 DEF Staging, Own
<1>4. UNCHANGED <<disk, index>>  BY DEF Commit
<1>5. CASE index = commits[at].tree /\ Advance(t) /\ UNCHANGED <<commits, at, tip>>
  <2>1. nt.pc = "call" /\ nt.todo = Tail(th.todo) /\ nt.revision = th.revision
    BY <1>a, <1>1, <1>5, AdvanceMoves DEF Inv
  <2>2. at \in DOMAIN commits /\ Rec(commits, at, id)
    BY <1>3, <1>5 DEF Rec, Inv, TypeOK, HistoryInv
  <2>3. nt.todo = << >>  BY <2>1, <1>3, GitIs
  <2>4. Brought(commits, id, p)  BY <1>3, <2>2
  <2>5. nt.revision.id = id /\ nt.revision.parent = p /\ nt.revision.commit = 0
    BY <1>3, <2>1
  <2>6. Done(nt, id, commits)  BY <2>1, <2>3, <2>4, <2>5 DEF Done, Good
  <2>. QED  BY <1>4, <1>5, <2>6 DEF LogOf, LogAt
<1>6. CASE Fail(t)  BY <1>a, <1>1, <1>6, FailMoves DEF Inv
<1>7. CASE /\ commits' = Append(commits, [parent |-> at, tree |-> index])
           /\ at' = Len(commits') /\ Go(t, "revparse")
  <2>1. Adds(commits, at, index, commits')  BY <1>7, FitNow DEF Adds, Grown
  <2>2. at' \in DOMAIN commits' /\ commits'[at'].tree = index  BY <1>7, <2>1, GrownIs
  <2>3. Rec(commits', at', id)  BY <2>2, <1>3 DEF Rec
  <2>4. Brought(commits', id, p)  BY <1>3, <2>1, <2>2, <2>3, BroughtIn
  <2>5. nt.pc = "revparse" /\ nt.todo = th.todo /\ nt.revision = th.revision
    BY <1>a, <1>1, <1>7, GoMoves DEF Inv
  <2>6. p \in Above(commits', at')
    <3>1. Above(commits, at) \subseteq Above(commits', Len(commits'))  BY <2>1, AboveGrows
    <3>. QED  BY <3>1, <1>3, <1>7
  <2>7. Committed(nt, id, disk[RevNs], index, commits', at')
    BY <1>3, <2>3, <2>4, <2>5, <2>6 DEF Committed, Own
  <2>. QED  BY <1>4, <2>7 DEF LogOf, LogAt
<1>. QED  BY <1>5, <1>6, <1>7 DEF Commit

LEMMA RevParseOwn ==
    ASSUME Inv, NEW t \in Threads, RevParse(t), NEW id, LogOf(t, id)
    PROVE  LogOf(t, id)'
<1>. DEFINE th == thread[t]  nt == thread'[t]  p == th.revision.parent
<1>1. th.pc = "revparse"  BY DEF RevParse
<1>2. Committed(th, id, disk[RevNs], index, commits, at)  BY <1>1, StageIs DEF LogOf
<1>3. /\ th.todo = <<Git("commit")>> /\ Rec(commits, at, id) /\ Brought(commits, id, p)
      /\ th.revision = [id |-> id, parent |-> p, commit |-> 0]
  BY <1>2 DEF Committed, Own
<1>4. /\ UNCHANGED <<disk, git, sent>> /\ nt.pc = "call" /\ nt.todo = Tail(th.todo)
      /\ nt.revision \in {th.revision, [th.revision EXCEPT !.commit = at]}
  BY RevParseStep
<1>5. nt.revision.id = id /\ nt.revision.parent = p /\ nt.revision.commit \in {0, at}
  <2>. DEFINE r == th.revision  nr == nt.revision
  <2>. HIDE DEF r, nr, p
  <2>1. r = [id |-> id, parent |-> p, commit |-> 0] /\ nr \in {r, [r EXCEPT !.commit = at]}
    BY <1>3, <1>4 DEF r, nr
  <2>2. nr.id = id /\ nr.parent = p /\ nr.commit \in {0, at}  BY <2>1
  <2>. QED  BY <2>2 DEF nr
<1>6. nt.todo = << >>  BY <1>3, <1>4, GitIs
<1>7. at \in DOMAIN commits  BY DEF Inv, TypeOK, HistoryInv
<1>8. Done(nt, id, commits)  BY <1>3, <1>4, <1>5, <1>6, <1>7 DEF Done, Good
<1>. QED  BY <1>4, <1>8 DEF LogOf, LogAt, git

Acts(t) == Bind(t) \/ Propose(t) \/ Repository(t) \/ Respond(t)

\* Its other calls it never comes to.
LEMMA OwnStep ==
    ASSUME Inv, NEW t \in Threads, File(t) \/ Acts(t), NEW id, LogOf(t, id)
    PROVE  thread'[t] = Idle \/ LogOf(t, id)'
<1>. DEFINE th == thread[t]
<1>a. t \in All  BY DEF All
<1>1. ASSUME NEW what, AtCall(t, what)
      PROVE  /\ \E do \in what : do \in {"log", "put", "commit"}
  <2>1. th.pc = "call" /\ th.todo # << >> /\ th.todo[1].do \in what  BY <1>a, <1>1, CallAt
  <2>2. th.todo[1].do \in {"log", "put", "commit"}  BY <2>1, StageIs DEF LogOf
  <2>. QED  BY <2>1, <2>2
<1>2. ~ AtCall(t, {"create", "ensure"}) /\ ~ AtCall(t, {"drop"}) /\ ~ AtCall(t, {"bind"})
  BY <1>1
<1>3. /\ ~ AtCall(t, {"propose"}) /\ ~ AtCall(t, {"rollback"}) /\ ~ AtCall(t, {"checkout"})
      /\ ~ AtCall(t, {"branch"})
  BY <1>1
<1>4. th.pc # "meta"  BY StageIs DEF LogOf
<1>5. CASE File(t)
  BY <1>2, <1>4, <1>5, LoadOwn, TruncateOwn, WriteOwn, Zenon DEF File, Create, Unlink, UpdateMeta
<1>6. CASE Repository(t)
  BY <1>3, <1>6, LogParentOwn, AddAllOwn, CommitOwn, RevParseOwn, Zenon
     DEF Repository, Rollback, Checkout, CreateBranch
<1>7. CASE Respond(t)  BY <1>a, <1>7 DEF Respond, Inv, TypeOK
<1>. QED  BY <1>2, <1>3, <1>5, <1>6, <1>7 DEF Acts, Bind, Propose
-------------------------------------------------------------------------------
(* The steps of others leave it alone.                                         *)
Quiet ==
    /\ disk'[RevNs] = disk[RevNs] /\ index'[RevNs] \in {index[RevNs], disk[RevNs]}
    /\ GrowsTo(commits, at, index, commits', at')
Spares(t) == \A i \in DOMAIN thread[t].todo :
    /\ thread[t].todo[i].do \notin {"rollback", "checkout"}
    /\ thread[t].todo[i].do \in OnFile => thread[t].todo[i].file # RevNs

LEMMA LogTouches ==
    ASSUME NEW id
    PROVE  RevNs \in Touched(CommitRevision(id))
<1>. DEFINE r == CommitRevision(id)
<1>1. 1 \in DOMAIN r /\ r[1] = [do |-> "log", file |-> RevNs, id |-> id]  BY CommitIs
<1>. HIDE DEF r
<1>2. r[1].do \in OnFile /\ r[1].file = RevNs  BY <1>1 DEF OnFile
<1>3. RevNs \in Touched(r)  BY <1>1, <1>2, TouchedHas
<1>. QED  BY <1>3 DEF r

LEMMA OthersSpare ==
    ASSUME Inv, NEW t \in All, thread[t].pc # "idle", NEW u \in Threads, u # t, u \notin met,
           NEW id \in 1..MaxRequests, thread[u].asked = CommitRevision(id)
    PROVE  Spares(t)
<1>1. u \in All  BY DEF All
<1>2. thread[u].pc # "idle"
  <2>1. Placed(thread[u], sent, Len(commits))  BY <1>1 DEF Inv, PlaceInv
  <2>2. CommitRevision(id) # << >>  BY CommitIs
  <2>. QED  BY <2>1, <2>2 DEF Placed
<1>3. t \in Threads  BY <1>2 DEF Inv, ServeInv, All
<1>4. ~ Conflict(thread[u].asked, thread[t].asked)  BY <1>2, <1>3 DEF Inv, ApartInv
<1>5. RevNs \notin Touched(thread[t].asked) /\ ~ MovesTree(thread[t].asked)
  BY <1>4, LogTouches DEF Conflict
<1>7. Origin(thread[t])  BY <1>3 DEF Inv, OriginInv
<1>8. ASSUME NEW i \in DOMAIN thread[t].todo
      PROVE  /\ thread[t].todo[i].do \notin {"rollback", "checkout"}
             /\ thread[t].todo[i].do \in OnFile => thread[t].todo[i].file # RevNs
  <2>1. Inside(thread[t].todo[i], thread[t].asked)  BY <1>7 DEF Origin
  <2>2. thread[t].todo[i].do \in OnFile => thread[t].todo[i].file \in TouchedBy(thread[t].todo[i])
    BY DEF TouchedBy, OnFile
  <2>. QED  BY <2>1, <2>2, <1>5 DEF Inside
<1>. QED  BY <1>8 DEF Spares

LEMMA QuietSame ==
    ASSUME UNCHANGED <<disk, git>>
    PROVE  Quiet
BY DEF Quiet, GrowsTo, git

LEMMA QuietWritten ==
    ASSUME NEW f, f # RevNs, NEW v, disk' = [disk EXCEPT ![f] = v], UNCHANGED git
    PROVE  Quiet
BY DEF Quiet, GrowsTo, git

LEMMA QuietFile ==
    ASSUME Inv, NEW t \in All, File(t), Spares(t)
    PROVE  Quiet
<1>1. CASE Load(t)  BY <1>1, QuietSame DEF Load
<1>2. CASE Create(t)  BY <1>2, QuietSame DEF Create
<1>3. CASE Unlink(t)
  <2>1. Call1(t).do = "drop" /\ Call1(t) = thread[t].todo[1] /\ 1 \in DOMAIN thread[t].todo
    BY <1>3, CallAt DEF Unlink
  <2>2. Call1(t).file # RevNs  BY <2>1 DEF Spares, OnFile
  <2>. QED  BY <1>3, <2>2, QuietWritten DEF Unlink
<1>w. ASSUME thread[t].pc \in {"truncate", "write"} PROVE thread[t].file # RevNs
  <2>1. thread[t].todo # << >> /\ (thread[t].file = RevNs =>
            thread[t].file = Call1(t).file /\ Call1(t).do \in OnFile)
    BY <1>w, FileAt, NamesAre
  <2>2. Call1(t) = thread[t].todo[1] /\ 1 \in DOMAIN thread[t].todo  BY <2>1, AtIs DEF Inv
  <2>. QED  BY <2>1, <2>2 DEF Spares
<1>4. CASE Truncate(t)  BY <1>4, <1>w, QuietWritten DEF Truncate
<1>5. CASE Write(t)  BY <1>5, <1>w, QuietWritten DEF Write
<1>6. CASE UpdateMeta(t)  BY <1>6, QuietSame DEF UpdateMeta
<1>. QED  BY <1>1, <1>2, <1>3, <1>4, <1>5, <1>6 DEF File

LEMMA QuietActs ==
    ASSUME Inv, NEW t \in Threads, Acts(t), Spares(t)
    PROVE  Quiet
<1>1. CASE Bind(t)  BY <1>1, QuietSame DEF Bind
<1>2. CASE Propose(t)  BY <1>2, QuietSame DEF Propose
<1>3. CASE Respond(t)  BY <1>3, QuietSame DEF Respond
<1>4. CASE LogParent(t)  BY <1>4, QuietSame DEF LogParent
<1>5. CASE AddAll(t)
  <2>1. UNCHANGED <<disk, commits, at>> /\ index' \in {index, disk}  BY <1>5 DEF AddAll
  <2>. QED  BY <2>1 DEF Quiet, GrowsTo
<1>6. CASE Commit(t)  BY <1>6, CommitStep DEF Quiet
<1>7. CASE RevParse(t)  BY <1>7, QuietSame DEF RevParse
<1>8. ~ AtCall(t, {"rollback"}) /\ ~ AtCall(t, {"checkout"})
  <2>1. t \in All  BY DEF All
  <2>2. ASSUME NEW what, AtCall(t, what) PROVE \E do \in what : do \notin {"rollback", "checkout"}
    <3>1. thread[t].todo[1].do \in what /\ 1 \in DOMAIN thread[t].todo  BY <2>1, <2>2, CallAt
    <3>. QED  BY <3>1 DEF Spares
  <2>. QED  BY <2>2
<1>9. CASE CreateBranch(t)
  BY <1>9 DEF CreateBranch, Quiet, GrowsTo
<1>. QED  BY <1>1, <1>2, <1>3, <1>4, <1>5, <1>6, <1>7, <1>8, <1>9, Zenon
            DEF Acts, Repository, Rollback, Checkout
-------------------------------------------------------------------------------
(* Every step keeps the invariant.                                             *)
Keeps == commits' = commits \/ Adds(commits, at, index, commits')

LEMMA FileSteps ==
    ASSUME Inv, NEW t \in All, File(t)
    PROVE  Steps(t) /\ commits' = commits /\ UNCHANGED <<up, sent, revisions, met>>
<1>1. Steps(t)
  BY LoadStep, CreateStep, UnlinkStep, TruncateStep, WriteStep, UpdateMetaStep DEF File
<1>2. UNCHANGED <<git, up, bounds, ghosts>>
  BY DEF File, Load, Create, Unlink, Truncate, Write, UpdateMeta
<1>. QED  BY <1>1, <1>2 DEF git, bounds, ghosts

LEMMA ActsSteps ==
    ASSUME Inv, NEW t \in Threads, Acts(t)
    PROVE  /\ Steps(t) /\ Keeps /\ UNCHANGED <<up, sent, met>>
           /\ revisions' = revisions \/ Respond(t)
<1>1. CASE Bind(t)  BY <1>1, BindStep DEF Bind, Keeps, git, bounds, ghosts
<1>2. CASE Propose(t)  BY <1>2, ProposeStep, Zenon DEF Propose, Keeps, git, bounds, ghosts
<1>3. CASE LogParent(t)  BY <1>3, LogParentStep DEF LogParent, Keeps, git, bounds, ghosts
<1>4. CASE AddAll(t)  BY <1>4, AddAllStep DEF AddAll, Keeps, bounds, ghosts
<1>5. CASE Commit(t)
  <2>1. Steps(t) /\ UNCHANGED <<up, sent, revisions, met>>  BY <1>5, CommitStep DEF Commit, bounds, ghosts
  <2>2. commits' = commits \/ commits' = Append(commits, [parent |-> at, tree |-> index])
    BY <1>5 DEF Commit
  <2>3. Keeps  BY <2>2, FitNow DEF Keeps, Adds, Grown
  <2>. QED  BY <2>1, <2>3
<1>6. CASE RevParse(t)  BY <1>6, RevParseStep DEF RevParse, Keeps, git, bounds, ghosts
<1>7. CASE Rollback(t)  BY <1>7, RollbackStep, Zenon DEF Rollback, Keeps, bounds
<1>8. CASE Checkout(t)  BY <1>8, CheckoutStep, Zenon DEF Checkout, Keeps, bounds
<1>9. CASE CreateBranch(t)  BY <1>9, CreateBranchStep DEF CreateBranch, Keeps, bounds, ghosts
<1>10. CASE Respond(t)
  <2>1. t \in All /\ thread[t].pc = "call" /\ Fail(t) /\ UNCHANGED <<disk, git, up, sent, met>>
    BY <1>10 DEF Respond, All, Fail, bounds
  <2>2. Steps(t)  BY <2>1, EndStep
  <2>. QED  BY <1>10, <2>1, <2>2 DEF Keeps, git
<1>. QED  BY <1>1, <1>2, <1>3, <1>4, <1>5, <1>6, <1>7, <1>8, <1>9, <1>10 DEF Acts, Repository

LEMMA KeepsLen ==
    ASSUME Inv, Keeps
    PROVE  Len(commits') \in Nat /\ Len(commits') >= Len(commits)
<1>1. Len(commits) \in Nat  BY FitNow
<1>2. CASE Adds(commits, at, index, commits')
  <2>1. Len(commits') = Len(commits) + 1  BY <1>2, GrownIs
  <2>. QED  BY <1>1, <2>1
<1>. QED  BY <1>1, <1>2 DEF Keeps

LEMMA GoodKept ==
    ASSUME Inv, Keeps, NEW r, Good(r, commits)
    PROVE  Good(r, commits')
<1>1. CASE Adds(commits, at, index, commits')
  <2>1. GrowsTo(commits, at, index, commits', Len(commits'))  BY <1>1 DEF Adds, GrowsTo
  <2>. QED  BY <2>1, FitNow, GoodStays
<1>. QED  BY <1>1 DEF Keeps

\* All but the invariants of revisions.
LEMMA StepsKeep ==
    ASSUME Inv, NEW t \in All, Steps(t), Keeps, UNCHANGED <<up, sent, met>>
    PROVE  TypeOK' /\ PlaceInv' /\ OriginInv' /\ ServeInv' /\ ApartInv' /\ SeenInv'
<1>. USE DEF Steps, Moves
<1>1. TypeOK'  BY DEF TypeOK, Inv, Only
<1>2. PlaceInv'
  <2>. SUFFICES ASSUME NEW u \in All PROVE Placed(thread'[u], sent, Len(commits'))
    BY DEF PlaceInv
  <2>1. Placed(thread'[u], sent, Len(commits))  BY DEF Only, Inv, PlaceInv
  <2>2. sent \in Nat /\ Len(commits) \in Nat  BY FitNow DEF Inv, TypeOK
  <2>. QED  BY <2>1, <2>2, KeepsLen, PlacedStays
<1>3. OriginInv'
  <2>. SUFFICES ASSUME NEW u \in Threads PROVE Origin(thread'[u])  BY DEF OriginInv
  <2>. QED  BY DEF Only, Inv, OriginInv, All
<1>4. \A u \in All : thread'[u].pc # "idle" =>
          thread[u].pc # "idle" /\ thread'[u].asked = thread[u].asked
  BY IdleIs DEF Only
<1>5. ServeInv'
  <2>1. Starter \in All /\ Threads \subseteq All  BY DEF All
  <2>2. up => thread[Starter].pc = "idle"  BY DEF Inv, ServeInv
  <2>3. ~ up => \A u \in Threads : thread[u].pc = "idle"  BY DEF Inv, ServeInv
  <2>4. up' = up  OBVIOUS
  <2>5. up' => thread'[Starter].pc = "idle"  BY <2>1, <2>2, <2>4, <1>4
  <2>6. ~ up' => \A u \in Threads : thread'[u].pc = "idle"  BY <2>1, <2>3, <2>4, <1>4
  <2>. QED  BY <2>5, <2>6 DEF ServeInv
<1>6. ApartInv'
  <2>1. Threads \subseteq All  BY DEF All
  <2>. QED  BY <2>1, <1>4 DEF Inv, ApartInv
<1>. QED  BY <1>1, <1>2, <1>3, <1>5, <1>6

LEMMA LogKept ==
    ASSUME Inv, NEW t \in All, Steps(t), UNCHANGED <<sent, met>>, Spares(t) => Quiet,
           \A id : t \in Threads /\ LogOf(t, id) => thread'[t] = Idle \/ LogOf(t, id)'
    PROVE  LogInv'
<1>. SUFFICES ASSUME NEW u \in Threads, NEW id \in 1..MaxRequests, u \notin met,
                     thread'[u].asked = CommitRevision(id)
              PROVE  id <= sent /\ LogOf(u, id)'
  BY DEF LogInv, LogOf
<1>1. u \in All  BY DEF All
<1>2. thread'[u] # Idle  BY IdleIs, CommitIs
<1>3. thread[u].asked = CommitRevision(id)  BY <1>1, <1>2 DEF Steps, Moves, Only
<1>4. id <= sent /\ LogOf(u, id)  BY <1>3 DEF Inv, LogInv, LogOf
<1>5. CASE u = t  BY <1>2, <1>4, <1>5
<1>6. CASE u # t
  <2>1. Quiet  BY <1>3, <1>6, OthersSpare DEF Steps, Moves
  <2>2. thread'[u] = thread[u]  BY <1>1, <1>6 DEF Steps, Moves, Only
  <2>3. LogAt(thread[u], id, disk[RevNs], index', commits', at')
    BY <1>4, <2>1, FitNow, LogStays DEF Quiet, LogOf
  <2>. QED  BY <1>4, <2>1, <2>2, <2>3 DEF Quiet, LogOf
<1>. QED  BY <1>5, <1>6

LEMMA FileKeeps ==
    ASSUME Inv, NEW t \in All, File(t)
    PROVE  Inv'
<1>1. Steps(t) /\ Keeps /\ UNCHANGED <<up, sent, revisions, met>>  BY FileSteps DEF Keeps
<1>2. TypeOK' /\ PlaceInv' /\ OriginInv' /\ ServeInv' /\ ApartInv' /\ SeenInv'
  BY <1>1, StepsKeep
<1>3. LogInv'  BY <1>1, QuietFile, OwnStep, LogKept
<1>4. LineageInv'  BY <1>1, GoodKept DEF Inv, LineageInv
<1>. QED  BY <1>2, <1>3, <1>4 DEF Inv

LEMMA ActsKeep ==
    ASSUME Inv, NEW t \in Threads, Acts(t)
    PROVE  Inv'
<1>a. t \in All  BY DEF All
<1>1. Steps(t) /\ Keeps /\ UNCHANGED <<up, sent, met>> /\ (revisions' = revisions \/ Respond(t))
  BY ActsSteps
<1>2. TypeOK' /\ PlaceInv' /\ OriginInv' /\ ServeInv' /\ ApartInv' /\ SeenInv'
  BY <1>a, <1>1, StepsKeep
<1>3. LogInv'  BY <1>a, <1>1, QuietActs, OwnStep, LogKept
<1>4. LineageInv'
  <2>1. CASE revisions' = revisions  BY <1>1, <2>1, GoodKept DEF Inv, LineageInv
  <2>2. CASE Respond(t) /\ t \notin met
    <3>1. /\ thread[t].pc = "call" /\ thread[t].todo = << >>
          /\ revisions' = revisions \cup ({thread[t].revision} \ {None}) /\ UNCHANGED commits
      BY <2>2 DEF Respond, git
    <3>2. ASSUME thread[t].revision # None PROVE Good(thread[t].revision, commits)
      <4>1. PICK id \in 1..MaxRequests : thread[t].asked = CommitRevision(id)
        BY <3>2 DEF Inv, OriginInv, Origin, IsLog
      <4>2. LogAt(thread[t], id, disk[RevNs], index, commits, at)  BY <2>2, <4>1 DEF Inv, LogInv
      <4>. QED  BY <3>1, <4>2, StageIs DEF Done
    <3>. QED  BY <3>1, <3>2 DEF Inv, LineageInv
  <2>3. CASE Respond(t) /\ t \in met
    <3>1. revisions' = revisions  BY <2>3 DEF Respond
    <3>. QED  BY <3>1, <2>1
  <2>. QED  BY <1>1, <2>1, <2>2, <2>3
<1>. QED  BY <1>2, <1>3, <1>4 DEF Inv

LEMMA BeginKeeps ==
    ASSUME Inv, NEW t \in Threads, Begin(t)
    PROVE  Inv'
<1>. DEFINE id == sent + 1  n == Len(commits)
<1>a. t \in All /\ t # Starter  BY DataStoreAssumption DEF All
<1>1. PICK kind \in Kinds : \E todo \in Routes(id)[kind] :
          /\ up /\ thread[t].pc = "idle" /\ sent < MaxRequests
          /\ sent' = id
          /\ thread' = [thread EXCEPT ![t] = [Idle EXCEPT !.pc = "call", !.todo = todo, !.asked = todo]]
          /\ met' = (met \ {t}) \cup Meets(todo) \cup (IF Meets(todo) = {} THEN {} ELSE {t})
          /\ UNCHANGED <<disk, git, up, crashes, revisions>>
  BY DEF Begin
<1>2. PICK todo \in Routes(id)[kind] :
          /\ up /\ thread[t].pc = "idle" /\ sent < MaxRequests
          /\ sent' = id
          /\ thread' = [thread EXCEPT ![t] = [Idle EXCEPT !.pc = "call", !.todo = todo, !.asked = todo]]
          /\ met' = (met \ {t}) \cup Meets(todo) \cup (IF Meets(todo) = {} THEN {} ELSE {t})
          /\ UNCHANGED <<disk, git, up, crashes, revisions>>
  BY <1>1
<1>3. sent \in Nat /\ id \in 1..MaxRequests /\ id \in Nat /\ id >= sent /\ n \in Nat
  BY <1>2, FitNow, DataStoreAssumption DEF Inv, TypeOK
<1>4. Served(todo, id, n)  BY <1>3, RouteCalls DEF Inv, TypeOK, HistoryInv
<1>. DEFINE nt == thread'[t]
<1>5. Only(t) /\ nt = [Idle EXCEPT !.pc = "call", !.todo = todo, !.asked = todo]
  BY <1>2, <1>a DEF Only, Inv, TypeOK
<1>. HIDE DEF nt
<1>6. /\ DOMAIN nt = Fields /\ nt.pc = "call" /\ nt.todo = todo /\ nt.asked = todo
      /\ nt.revision = None
  BY <1>5 DEF Idle, Fields
<1>7. UNCHANGED <<disk, index, commits, head, at, tip, up, revisions>> /\ sent' = id
  BY <1>2 DEF git
<1>. HIDE DEF id, n
<1>8. TypeOK'  BY <1>3, <1>5, <1>7 DEF Inv, TypeOK, FilesInv, HistoryInv, Only
<1>9. PlaceInv'
  <2>. SUFFICES ASSUME NEW u \in All PROVE Placed(thread'[u], id, n)
    BY <1>7 DEF PlaceInv, n
  <2>1. CASE u = t  BY <2>1, <1>4, <1>6 DEF nt, Placed, Served, Fields
  <2>2. CASE u # t
    <3>1. thread'[u] = thread[u]  BY <2>2, <1>5 DEF Only
    <3>2. Placed(thread[u], sent, n)  BY DEF Inv, PlaceInv, n
    <3>. QED  BY <3>1, <3>2, <1>3, PlacedStays
  <2>. QED  BY <2>1, <2>2
<1>i. IsLog(todo) \/ \A i \in DOMAIN todo : todo[i].do # "log"
  BY <1>3, <1>4 DEF Served, IsLog
<1>10. OriginInv'
  <2>. SUFFICES ASSUME NEW u \in Threads PROVE Origin(thread'[u])  BY DEF OriginInv
  <2>1. CASE u = t
    <3>1. \A i \in DOMAIN todo : Inside(todo[i], todo)  BY DEF Inside, Touched, MovesTree
    <3>. QED  BY <2>1, <3>1, <1>i, <1>6 DEF nt, Origin
  <2>2. CASE u # t  BY <2>2, <1>5 DEF Only, Inv, OriginInv, All
  <2>. QED  BY <2>1, <2>2
<1>11. ServeInv'
  <2>1. thread'[Starter] = thread[Starter]  BY <1>a, <1>5 DEF Only, All
  <2>2. up /\ up'  BY <1>2, <1>7
  <2>. QED  BY <2>1, <2>2 DEF Inv, ServeInv
<1>12. ApartInv'
  <2>1. \A u \in Threads : u # t => thread'[u] = thread[u]  BY <1>5 DEF Only, All
  <2>2. \A u \in Threads : u \in met' \/ u = t \/ (u \notin met /\ u \notin Meets(todo))
    BY <1>2
  <2>3. thread'[t].asked = todo  BY <1>6 DEF nt
  <2>4. ASSUME NEW u \in Threads, NEW v \in Threads, u # v, u \notin met',
               thread'[u].pc # "idle", thread'[v].pc # "idle"
        PROVE  ~ Conflict(thread'[u].asked, thread'[v].asked)
    <3>1. CASE u = t
      <4>1. Meets(todo) = {} /\ thread'[v] = thread[v]  BY <3>1, <2>1, <2>4, <1>2
      <4>. QED  BY <3>1, <4>1, <2>3, <2>4 DEF Meets
    <3>2. CASE v = t
      <4>1. u \notin Meets(todo) /\ thread'[u] = thread[u]  BY <3>2, <2>1, <2>2, <2>4
      <4>2. ~ Conflict(todo, thread[u].asked)  BY <4>1, <2>4 DEF Meets
      <4>. QED  BY <3>2, <4>1, <4>2, <2>3 DEF Conflict
    <3>3. CASE u # t /\ v # t  BY <3>3, <2>1, <2>2, <2>4 DEF Inv, ApartInv
    <3>. QED  BY <3>1, <3>2, <3>3
  <2>. QED  BY <2>4 DEF ApartInv
<1>13. \A f : Fresh(f, sent) => Fresh(f, id)
  <2>1. \A i \in (id + 1)..MaxRequests : i \in (sent + 1)..MaxRequests
    BY <1>3, DataStoreAssumption
  <2>. QED  BY <2>1 DEF Fresh
<1>14. SeenInv'  BY <1>7, <1>13 DEF Inv, SeenInv
<1>15. LogInv'
  <2>. SUFFICES ASSUME NEW u \in Threads, NEW i \in 1..MaxRequests, u \notin met',
                       thread'[u].asked = CommitRevision(i)
                PROVE  i <= id /\ LogAt(thread'[u], i, disk[RevNs], index, commits, at)
    BY <1>7 DEF LogInv
  <2>1. CASE u = t
    <3>1. todo = CommitRevision(i)  BY <2>1, <1>6 DEF nt
    <3>2. 1 \in DOMAIN todo /\ todo[1] = [do |-> "log", file |-> RevNs, id |-> i]
      BY <3>1, CommitIs
    <3>3. todo = CommitRevision(id)  BY <3>2, <1>4 DEF Served
    <3>4. todo[1] = [do |-> "log", file |-> RevNs, id |-> id]  BY <3>3, CommitIs
    <3>5. i = id  BY <3>2, <3>4
    <3>6. id \in (sent + 1)..MaxRequests  BY <1>3 DEF id
    <3>7. Unseen(id, disk[RevNs], index, commits)
      BY <3>6 DEF Inv, SeenInv, Fresh, Unseen, Rec
    <3>8. Asking(nt, id, disk[RevNs], index, commits)  BY <1>6, <3>3, <3>7 DEF Asking
    <3>. QED  BY <2>1, <3>5, <3>8, <1>3 DEF LogAt, nt
  <2>2. CASE u # t
    <3>1. thread'[u] = thread[u]  BY <2>2, <1>5 DEF Only, All
    <3>2. u \notin met  BY <2>2, <1>2
    <3>3. i <= sent /\ LogAt(thread[u], i, disk[RevNs], index, commits, at)
      BY <3>1, <3>2 DEF Inv, LogInv
    <3>. QED  BY <3>1, <3>3, <1>3
  <2>. QED  BY <2>1, <2>2
<1>16. LineageInv'  BY <1>7 DEF Inv, LineageInv
<1>. QED  BY <1>8, <1>9, <1>10, <1>11, <1>12, <1>14, <1>15, <1>16 DEF Inv

\* The server stops, starts and is up: no request is in progress.
LEMMA NoRequest ==
    ASSUME Inv, UNCHANGED <<disk, git, sent, revisions>>, up' \in BOOLEAN, DOMAIN thread' = All,
           \A u \in Threads : thread'[u] = Idle,
           Placed(thread'[Starter], sent, Len(commits)), up' => thread'[Starter].pc = "idle"
    PROVE  Inv'
<1>1. FilesInv' /\ HistoryInv' /\ SeenInv'  BY FilesSame
<1>2. TypeOK'  BY <1>1 DEF Inv, TypeOK
<1>3. PlaceInv'  BY IdleIs DEF PlaceInv, All, git
<1>4. OriginInv'  BY IdleIs DEF OriginInv
<1>5. ServeInv' /\ ApartInv'  BY IdleIs DEF ServeInv, ApartInv
<1>6. LogInv'
  <2>1. \A u \in Threads : thread'[u].asked = << >>  BY IdleIs
  <2>2. \A id : CommitRevision(id) # << >>  BY CommitIs
  <2>. QED  BY <2>1, <2>2 DEF LogInv
<1>7. LineageInv'  BY DEF Inv, LineageInv, git
<1>. QED  BY <1>1, <1>2, <1>3, <1>4, <1>5, <1>6, <1>7 DEF Inv

LEMMA IdleThreads ==
    ASSUME Inv, NEW t \in Threads, thread[t].pc = "idle"
    PROVE  thread[t].asked = << >>
BY DEF Inv, PlaceInv, All, Placed

LEMMA CrashKeeps ==
    ASSUME Inv, Crash
    PROVE  Inv'
<1>1. /\ DOMAIN thread' = All /\ \A u \in All : thread'[u] = Idle
      /\ up' = FALSE /\ UNCHANGED <<disk, git, sent, revisions>>
  BY DEF Crash, Inv, TypeOK, ghosts
<1>2. Starter \in All /\ Threads \subseteq All  BY DEF All
<1>. QED  BY <1>1, <1>2, IdleIs, NoRequest

\* What the start and the end of the starting server leave: requests are idle.
LEMMA StarterKeeps ==
    ASSUME Inv, ~ up \/ thread[Starter].pc # "idle", UNCHANGED <<disk, git, sent, revisions>>,
           up' \in BOOLEAN, Only(Starter), Placed(thread'[Starter], sent, Len(commits)),
           up' => thread'[Starter].pc = "idle"
    PROVE  Inv'
<1>1. \A u \in Threads : thread[u].pc = "idle" /\ thread'[u] = thread[u]
  BY DataStoreAssumption DEF Inv, ServeInv, Only, All
<1>2. \A u \in Threads : thread'[u].pc = "idle" /\ thread'[u].asked = << >>
  BY <1>1, IdleThreads
<1>3. FilesInv' /\ HistoryInv' /\ SeenInv'  BY FilesSame
<1>4. TypeOK'  BY <1>3 DEF Inv, TypeOK, Only
<1>5. PlaceInv'  BY <1>1 DEF Inv, PlaceInv, Only, All, git
<1>6. OriginInv'  BY <1>1 DEF Inv, OriginInv
<1>7. ServeInv' /\ ApartInv'  BY <1>2 DEF ServeInv, ApartInv
<1>8. LogInv'
  <2>1. \A id : CommitRevision(id) # << >>  BY CommitIs
  <2>. QED  BY <1>2, <2>1 DEF LogInv
<1>9. LineageInv'  BY DEF Inv, LineageInv, git
<1>. QED  BY <1>3, <1>4, <1>5, <1>6, <1>7, <1>8, <1>9 DEF Inv

LEMMA StartKeeps ==
    ASSUME Inv, Start
    PROVE  Inv'
<1>. DEFINE calls == [i \in DOMAIN Boot |-> Call("ensure", Boot[i])]  nt == thread'[Starter]
<1>1. Starter \in All  BY DEF All
<1>2. ~ up /\ UNCHANGED <<disk, git, up, sent, revisions>>  BY DEF Start, bounds, ghosts
<1>3. Only(Starter) /\ nt = [Idle EXCEPT !.pc = "call", !.todo = calls]
  BY <1>1 DEF Start, Only, Inv, TypeOK
<1>4. IsSeq(calls)
  <2>1. Len(Boot) \in Nat /\ DOMAIN Boot = 1..Len(Boot)
    BY DataStoreAssumption, LenProperties
  <2>2. DOMAIN calls = 1..Len(Boot) /\ calls = [i \in 1..Len(Boot) |-> calls[i]]  BY <2>1
  <2>. HIDE DEF calls
  <2>. QED  BY <2>1, <2>2, SeqIs
<1>5. \A i \in DOMAIN calls : CallOK(calls[i], sent, Len(commits))
  <2>1. \A i \in DOMAIN Boot : Boot[i] \in Names  BY DataStoreAssumption
  <2>2. \A i \in DOMAIN calls : calls[i] = Call("ensure", Boot[i]) /\ Boot[i] \in Names
    BY <2>1
  <2>3. \A m \in Names : CallOK(Call("ensure", m), sent, Len(commits))  BY DEF Call, CallOK
  <2>. HIDE DEF calls
  <2>. QED  BY <2>2, <2>3
<1>. HIDE DEF calls, nt
<1>6. DOMAIN nt = Fields /\ nt.pc = "call" /\ nt.todo = calls  BY <1>3 DEF Idle, Fields
<1>7. Placed(nt, sent, Len(commits))  BY <1>4, <1>5, <1>6 DEF Placed, Fields
<1>. QED  BY <1>2, <1>3, <1>7, StarterKeeps DEF nt, Inv, TypeOK

LEMMA ServingKeeps ==
    ASSUME Inv, Serving
    PROVE  Inv'
<1>1. Starter \in All  BY DEF All
<1>2. /\ thread[Starter].pc # "idle" /\ up' = TRUE /\ UNCHANGED <<disk, git, sent, revisions>>
  BY DEF Serving, bounds, ghosts
<1>3. Only(Starter) /\ thread'[Starter] = Idle  BY <1>1 DEF Serving, Only, Inv, TypeOK
<1>. QED  BY <1>2, <1>3, IdleIs, StarterKeeps

LEMMA InitInv ==
    ASSUME Init
    PROVE  Inv
<1>. DEFINE seeded == [EmptyNamespace EXCEPT !.entries = Entry(<<"contract">>, Contract)]
            first == [f \in Files |->
                IF f = Meta THEN MetaFile(Existing) ELSE IF f \notin Existing THEN Absent
                ELSE IF f # Contracts THEN EmptyNamespace ELSE seeded]
            root == [parent |-> 0, tree |-> first]
<1>1. /\ disk = first /\ index = first /\ commits = <<root>> /\ at = 1
      /\ tip = [b \in Branches |-> IF b = Main THEN 1 ELSE 0]
      /\ thread = [t \in Threads \cup {Starter} |-> Idle]
      /\ up = FALSE /\ sent = 0 /\ revisions = {}
  BY DEF Init
<1>2. DOMAIN EmptyNamespace = {"schema", "entries"} /\ EmptyNamespace.entries = << >>
  BY DEF EmptyNamespace
<1>3. DOMAIN seeded = {"schema", "entries"}  BY <1>2
<1>. HIDE DEF seeded
<1>4. /\ DOMAIN first = Files /\ \A n \in Names : IsFile(first[n])
      /\ first[RevNs] \in {Absent, EmptyNamespace}
  BY <1>2, <1>3, NamesAre DEF IsFile
<1>5. \A id : ~ Has(Absent, id) /\ ~ Has(EmptyNamespace, id)  BY <1>2, SeqShort DEF Has
<1>. HIDE DEF first
<1>6. root.parent = 0 /\ root.tree = first  OBVIOUS
<1>. HIDE DEF root
<1>7. IsSeq(commits) /\ Len(commits) = 1 /\ DOMAIN commits = 1..1 /\ commits[1] = root
  BY <1>1, SeqShort
<1>8. \A c \in DOMAIN commits : c = 1 /\ commits[c].parent = 0 /\ commits[c].tree = first
  BY <1>6, <1>7
<1>9. Graph(commits)  BY <1>4, <1>7, <1>8 DEF Graph
<1>10. HistoryInv
  <2>1. at \in DOMAIN commits /\ \A b \in Branches : tip[b] \in 0..Len(commits)
    BY <1>1, <1>7
  <2>. QED  BY <1>1, <1>9, <2>1 DEF HistoryInv
<1>11. TypeOK
  <2>1. sent \in 0..MaxRequests  BY <1>1, DataStoreAssumption
  <2>2. up \in BOOLEAN  BY <1>1
  <2>3. DOMAIN thread = All  BY <1>1 DEF All
  <2>4. FilesInv  BY <1>1, <1>4 DEF FilesInv
  <2>. QED  BY <2>1, <2>2, <2>3, <2>4, <1>10 DEF TypeOK
<1>12. \A t \in All : thread[t] = Idle  BY <1>1 DEF All
<1>13. SeenInv  BY <1>1, <1>4, <1>5, <1>8 DEF SeenInv, Fresh
<1>14. PlaceInv /\ OriginInv /\ ServeInv /\ ApartInv
  BY <1>12, IdleIs DEF PlaceInv, OriginInv, ServeInv, ApartInv, All
<1>15. LogInv
  <2>1. \A u \in Threads : thread[u].asked = << >>  BY <1>12, IdleIs DEF All
  <2>2. \A id : CommitRevision(id) # << >>  BY CommitIs
  <2>. QED  BY <2>1, <2>2 DEF LogInv
<1>16. LineageInv  BY <1>1 DEF LineageInv
<1>. QED  BY <1>11, <1>13, <1>14, <1>15, <1>16 DEF Inv

LEMMA StepInv ==
    ASSUME Inv, [Next]_vars
    PROVE  Inv'
<1>1. ASSUME NEW t \in Threads, Begin(t) \/ Acts(t) PROVE Inv'
  BY <1>1, BeginKeeps, ActsKeep
<1>2. ASSUME NEW t \in All, File(t) PROVE Inv'  BY <1>2, FileKeeps
<1>3. CASE Crash \/ Start \/ Serving  BY <1>3, CrashKeeps, StartKeeps, ServingKeeps
<1>4. CASE UNCHANGED vars
  BY <1>4 DEF vars, git, bounds, ghosts, Inv, TypeOK, FilesInv, HistoryInv, PlaceInv, OriginInv,
              ServeInv, ApartInv, SeenInv, LogInv, LineageInv
<1>. QED  BY <1>1, <1>2, <1>3, <1>4 DEF Next, Acts, All

\* RevisionLineage of DataStore: a revision commit_revision has answered is in the
\* history under the parent it names, and in the commit it names, when no request on
\* its namespace and no move of the tree overlapped the one that recorded it; for any
\* clients, contracts, threads and crashes, and any overlaps among the others.
THEOREM RevisionsStay == Spec => []RevisionLineage
<1>1. Inv => RevisionLineage
  <2>1. \A c : Above(commits, c) = Ancestors(c)  BY DEF Above, Ancestors
  <2>2. \A c, r : Rec(commits, c, r.id) <=> Records(c, r)  BY DEF Rec, Has, Records
  <2>3. ASSUME NEW r, Good(r, commits)
        PROVE  /\ \E c \in DOMAIN commits :
                     /\ Records(c, r) /\ commits[c].parent # 0 /\ ~ Records(commits[c].parent, r)
                     /\ r.parent \in Ancestors(commits[c].parent)
               /\ r.commit # 0 => Records(r.commit, r)
    BY <2>1, <2>2, <2>3 DEF Good, Brought
  <2>. QED  BY <2>3 DEF Inv, LineageInv, RevisionLineage
<1>2. Init => Inv  BY InitInv
<1>3. Inv /\ [Next]_vars => Inv'  BY StepInv
<1>. QED  BY <1>1, <1>2, <1>3, PTL DEF Spec
-------------------------------------------------------------------------------
(* What was answered is on disk.                                               *)

\* A file holds value v for key k; the contract a file holds is the contract.
Holds(f, k, v) == f \notin {Absent, Torn} /\ k \in DOMAIN f.entries /\ f.entries[k] = v
Sound(f) == \A v : Holds(f, <<"contract">>, v) => v = Contract
ContractInv ==
    /\ Sound(disk[Contracts]) /\ Sound(index[Contracts])
    /\ \A c \in DOMAIN commits : Sound(commits[c].tree[Contracts])

\* A call puts no other contract; what a thread is about to write is what its call
\* puts; it reaches only files of its request, and moves the tree only when that is
\* what its request is.
Saving(th, n) == th.pc \in {"truncate", "write"} /\ th.file = n
SoundCall(c) == c.do = "put" /\ c.file = Contracts =>
    \A k \in DOMAIN c.entries : k = <<"contract">> => c.entries[k] = Contract
SoundThread(th) ==
    /\ \A i \in DOMAIN th.todo : SoundCall(th.todo[i])
    /\ Saving(th, Contracts) => Sound(th.buf)
    /\ Saving(th, Meta) => th.todo[1].do \in {"create", "ensure", "drop"}
    /\ th.pc \in {"truncate", "write"} /\ th.todo[1].do = "put" =>
          \A k \in DOMAIN th.todo[1].entries : Holds(th.buf, k, th.todo[1].entries[k])
TreeCall(c) == c.do \in {"rollback", "checkout"}
Within(th) ==
    /\ IsSeq(th.asked) /\ Touched(th.todo) \subseteq Touched(th.asked)
    /\ (\E i \in DOMAIN th.todo : TreeCall(th.todo[i])) =>
          MovesTree(th.asked) /\ \A j \in DOMAIN th.asked : TreeCall(th.asked[j])
ThreadInv == /\ \A t \in All : SoundThread(thread[t])
             /\ \A t \in Threads : Within(thread[t])

\* Value v of key k in n outlives what thread th does to the file of n, d.
Held(th, d, n, k, v) ==
    /\ d # Torn => Holds(d, k, v)
    /\ Saving(th, n) => Holds(th.buf, k, v)

\* A promise: no request in progress names its key.
SafeInv == \A n \in Names : \A k \in DOMAIN promised[n] : \A t \in All :
    /\ Held(thread[t], disk[n], n, k, promised[n][k].value)
    /\ \A i \in DOMAIN thread[t].todo : ~ Affects(thread[t].todo[i], n, k)

\* What a request is going to promise: a call that is still to come puts it, or it is
\* there; and no call that is still to come puts another value.
Supplies(c, n, k, v) == k \in DOMAIN Promise(c, n) /\ Promise(c, n)[k] = v
Coming(th, n, k, v) == \E j \in DOMAIN th.todo : Supplies(th.todo[j], n, k, v)
Landed(th, d, n, k, v) ==
    Held(th, d, n, k, v) /\ (d = Torn => th.pc = "write" /\ th.file = n)
Pledge(th, d, n, k, v) ==
    /\ \A j \in DOMAIN th.todo : Affects(th.todo[j], n, k) => Supplies(th.todo[j], n, k, v)
    /\ Coming(th, n, k, v) \/ Landed(th, d, n, k, v)
PledgeInv == \A t \in Threads, n \in Names : t \notin met => \A i \in DOMAIN thread[t].asked :
    \A k \in DOMAIN Promise(thread[t].asked[i], n) :
        Pledge(thread[t], disk[n], n, k, Promise(thread[t].asked[i], n)[k])

Durable == ContractInv /\ ThreadInv /\ SafeInv /\ PledgeInv
-------------------------------------------------------------------------------
(* Calls: what they reach, and what they promise.                              *)
LEMMA PromiseIs ==
    ASSUME NEW c, NEW n
    PROVE  /\ c.do = "put" => Promise(c, n) = IF c.file = n THEN c.entries ELSE << >>
           /\ c.do = "bind" => Promise(c, n) =
                  IF n = Data /\ c.value # None THEN Entry(<<c.slot>>, c.value) ELSE << >>
           /\ c.do = "propose" => \/ n = Data
                                  \/ n = Patches /\ Promise(c, n) = Entry(<<c.id>>, c.data)
                                     /\ Waits(Contract, c.data)
                                  \/ Promise(c, n) = << >>
           /\ c.do \notin {"put", "bind", "propose"} => Promise(c, n) = << >>
<1>1. CASE c.do = "put"  BY <1>1 DEF Promise
<1>2. CASE c.do = "bind"  BY <1>2 DEF Promise
<1>3. CASE c.do = "propose"  BY <1>3 DEF Promise
<1>4. CASE c.do \notin {"put", "bind", "propose"}  BY <1>4 DEF Promise
<1>. QED  BY <1>1, <1>2, <1>3, <1>4

\* The data of a proposal that the contract accepts at once.
LEMMA AcceptedIs ==
    ASSUME NEW c, c.do = "propose"
    PROVE  /\ DOMAIN Promise(c, Data) = {<<k>> : k \in Accepted(Contract, c.data)}
           /\ \A k, v : Supplies(c, Data, k, v) <=>
                  \E x \in Accepted(Contract, c.data) :
                      k = <<x>> /\ v = ValueFor(Contract, c.data, x)
<1>. DEFINE now == Accepted(Contract, c.data)  val(x) == ValueFor(Contract, c.data, x)
<1>1. Promise(c, Data) = Keyed(c.data)  BY DataStoreAssumption DEF Promise
<1>a. Keyed(c.data) = [key \in {<<x>> : x \in now} |-> val(key[1])]  BY DEF Keyed
<1>. HIDE DEF now, val
<1>2. ASSUME NEW k, NEW v
      PROVE  Supplies(c, Data, k, v) <=> \E x \in now : k = <<x>> /\ v = val(x)
  <2>1. Supplies(c, Data, k, v) <=> k \in {<<x>> : x \in now} /\ val(k[1]) = v
    BY <1>1, <1>a DEF Supplies
  <2>2. \A x : <<x>>[1] = x  OBVIOUS
  <2>. QED  BY <2>1, <2>2
<1>3. DOMAIN Promise(c, Data) = {<<x>> : x \in now}  BY <1>1, <1>a
<1>. QED  BY <1>2, <1>3 DEF now, val

LEMMA EntryIs ==
    \A k, v : DOMAIN Entry(k, v) = {k} /\ Entry(k, v)[k] = v
BY DEF Entry

LEMMA NothingPromised ==
    ASSUME NEW c, c.do \notin {"put", "bind", "propose"}, NEW n
    PROVE  DOMAIN Promise(c, n) = {} /\ \A k, v : ~ Supplies(c, n, k, v)
BY PromiseIs, SeqShort DEF Supplies

\* A call promises only keys it writes, of files it reaches.
LEMMA PromisesWhatItWrites ==
    ASSUME NEW c, NEW n, NEW k, k \in DOMAIN Promise(c, n)
    PROVE  Affects(c, n, k)
<1>1. c.do \in {"put", "bind", "propose"}  BY NothingPromised
<1>2. CASE c.do = "put"  BY <1>2, PromiseIs, SeqShort DEF Affects
<1>3. CASE c.do = "bind"
  <2>1. n = Data /\ Promise(c, n) = Entry(<<c.slot>>, c.value)  BY <1>3, PromiseIs, SeqShort
  <2>2. DOMAIN Promise(c, n) = {<<c.slot>>}  BY <2>1, EntryIs
  <2>3. k = <<c.slot>>  BY <2>2
  <2>. QED  BY <1>3, <2>1, <2>3 DEF Affects
<1>4. CASE c.do = "propose"
  <2>1. CASE n = Data
    <3>1. k \in {<<x>> : x \in Accepted(Contract, c.data)}  BY <1>4, <2>1, AcceptedIs
    <3>. QED  BY <1>4, <2>1, <3>1 DEF Affects
  <2>2. CASE n # Data
    <3>1. n = Patches /\ Promise(c, n) = Entry(<<c.id>>, c.data)
      BY <1>4, <2>2, PromiseIs, SeqShort
    <3>2. DOMAIN Promise(c, n) = {<<c.id>>}  BY <3>1, EntryIs
    <3>3. k = <<c.id>>  BY <3>2
    <3>. QED  BY <1>4, <3>1, <3>3 DEF Affects
  <2>. QED  BY <2>1, <2>2
<1>. QED  BY <1>1, <1>2, <1>3, <1>4

LEMMA AffectsReached ==
    ASSUME NEW c, NEW n, NEW k, Affects(c, n, k)
    PROVE  /\ n \in TouchedBy(c) /\ ~ TreeCall(c)
           /\ c.do \in {"put", "remove", "drop", "log", "bind", "propose"}
BY DEF Affects, TouchedBy, TreeCall

LEMMA TouchedHasAll ==
    ASSUME NEW todo, NEW i \in DOMAIN todo
    PROVE  TouchedBy(todo[i]) \subseteq Touched(todo)
BY DEF Touched
-------------------------------------------------------------------------------
(* Files.                                                                      *)
LEMMA Filled ==
    \A f : DOMAIN f = {"schema", "entries"} => f \notin {Absent, Torn}
BY DEF Absent, Torn

LEMMA NothingHeld ==
    ASSUME NEW k, NEW v
    PROVE  ~ Holds(Absent, k, v) /\ ~ Holds(Torn, k, v) /\ Absent # Torn
BY DEF Holds, Absent, Torn

\* What a call makes of a namespace: it keeps what the call does not name, has what
\* the call puts, and no other contract.
LEMMA ChangedHolds ==
    ASSUME NEW file, DOMAIN file = {"schema", "entries"}, NEW c, NEW s \in Nat, NEW m,
           CallOK(c, s, m), c.do \in {"put", "remove", "schema"}
    PROVE  LET made == Changed(file, c) IN
           /\ c.do = "put" => \A k \in DOMAIN c.entries : Holds(made, k, c.entries[k])
           /\ \A k, v : Holds(file, k, v) /\ ~ Affects(c, c.file, k) => Holds(made, k, v)
           /\ c.file = Contracts /\ Sound(file) /\ SoundCall(c) => Sound(made)
<1>. DEFINE made == Changed(file, c)
<1>1. DOMAIN made = {"schema", "entries"}  BY ChangedIs
<1>2. file \notin {Absent, Torn} /\ made \notin {Absent, Torn}  BY <1>1, Filled
<1>3. CASE c.do = "put"
  <2>1. made.entries = Over(c.entries, file.entries)  BY <1>3 DEF Changed
  <2>. HIDE DEF made
  <2>2. /\ DOMAIN made.entries = DOMAIN c.entries \cup DOMAIN file.entries
        /\ \A k \in DOMAIN made.entries :
              made.entries[k] = IF k \in DOMAIN c.entries THEN c.entries[k] ELSE file.entries[k]
    BY <2>1 DEF Over
  <2>3. \A k \in DOMAIN c.entries : Holds(made, k, c.entries[k])  BY <1>2, <2>2 DEF Holds
  <2>4. \A k, v : Holds(file, k, v) /\ ~ Affects(c, c.file, k) => Holds(made, k, v)
    BY <1>2, <1>3, <2>2 DEF Holds, Affects
  <2>5. c.file = Contracts /\ Sound(file) /\ SoundCall(c) => Sound(made)
    BY <1>2, <1>3, <2>2 DEF Holds, Sound, SoundCall
  <2>. QED  BY <2>3, <2>4, <2>5 DEF made
<1>4. CASE c.do = "remove"
  <2>1. made.entries = Without(file.entries, {c.key})  BY <1>4 DEF Changed
  <2>. HIDE DEF made
  <2>2. /\ DOMAIN made.entries = DOMAIN file.entries \ {c.key}
        /\ \A k \in DOMAIN made.entries : made.entries[k] = file.entries[k]
    BY <2>1 DEF Without
  <2>3. \A k, v : Holds(file, k, v) /\ ~ Affects(c, c.file, k) => Holds(made, k, v)
    BY <1>2, <1>4, <2>2 DEF Holds, Affects
  <2>4. Sound(file) => Sound(made)  BY <1>2, <2>2 DEF Holds, Sound
  <2>. QED  BY <1>4, <2>3, <2>4 DEF made
<1>5. CASE c.do = "schema"
  <2>1. made = [schema |-> c.schema, entries |-> Over(file.entries, SeedFromSchema(c.schema))]
    BY <1>5 DEF Changed, WithSchema
  <2>2. made.entries = Over(file.entries, SeedFromSchema(c.schema))  BY <2>1
  <2>. HIDE DEF made
  <2>3. /\ DOMAIN made.entries = DOMAIN file.entries \cup DOMAIN SeedFromSchema(c.schema)
        /\ \A k \in DOMAIN file.entries : made.entries[k] = file.entries[k]
    BY <2>2 DEF Over
  <2>4. <<"contract">> \notin DOMAIN SeedFromSchema(c.schema)
    BY <1>5, FreshAssumption DEF CallOK, Reserved
  <2>5. \A k, v : Holds(file, k, v) => Holds(made, k, v)  BY <1>2, <2>3 DEF Holds
  <2>6. Sound(file) => Sound(made)  BY <1>2, <2>3, <2>4 DEF Holds, Sound
  <2>. QED  BY <1>5, <2>5, <2>6 DEF made
<1>. QED  BY <1>3, <1>4, <1>5

LEMMA NewSound ==
    ASSUME NEW c, NEW s \in Nat, NEW m, CallOK(c, s, m)
    PROVE  Sound(NewNamespace(c))
<1>1. CASE c.do = "create" /\ c.schema # None
  <2>1. NewNamespace(c) = [schema |-> c.schema, entries |-> Over(EmptyNamespace.entries, SeedFromSchema(c.schema))]
    BY <1>1 DEF NewNamespace, WithSchema
  <2>2. NewNamespace(c).entries = Over(EmptyNamespace.entries, SeedFromSchema(c.schema))  BY <2>1
  <2>3. DOMAIN NewNamespace(c).entries = DOMAIN SeedFromSchema(c.schema)
    BY <2>2, SeqShort DEF Over, EmptyNamespace
  <2>4. <<"contract">> \notin DOMAIN SeedFromSchema(c.schema)
    BY <1>1, FreshAssumption DEF CallOK, Reserved
  <2>. QED  BY <2>3, <2>4 DEF Holds, Sound
<1>2. CASE ~ (c.do = "create" /\ c.schema # None)
  <2>1. DOMAIN NewNamespace(c).entries = {}  BY <1>2, SeqShort DEF NewNamespace, EmptyNamespace
  <2>. QED  BY <2>1 DEF Holds, Sound
<1>. QED  BY <1>1, <1>2

LEMMA SoundNothing ==
    Sound(Absent) /\ Sound(Torn)
BY DEF Sound, Holds
-------------------------------------------------------------------------------
(* What a step on the files D makes of its thread th and of them.              *)
OfMeta == {"create", "ensure", "drop"}
Loads(th, D, f, buf) ==
    \/ f = Meta /\ th.todo[1].do \in OfMeta
    \/ /\ f \in Names /\ f = th.todo[1].file
       /\ \/ /\ th.todo[1].do \in {"put", "remove", "schema"}
             /\ DOMAIN D[f] = {"schema", "entries"} /\ buf = Changed(D[f], th.todo[1])
          \/ /\ th.todo[1].do \in {"create", "ensure"}
             /\ D[f] = Absent /\ buf = NewNamespace(th.todo[1])
Stops(th, nt, D, E) == nt = Idle /\ E = D
Advances(th, nt, D, E) ==
    /\ th.pc # "write" /\ nt.pc = "call" /\ nt.todo = Tail(th.todo)
    /\ th.todo[1].do \in OfMeta /\ E = D
Saves(th, nt, D, E) ==
    /\ th.pc # "write" /\ nt.pc = "truncate" /\ nt.todo = th.todo
    /\ Loads(th, D, nt.file, nt.buf) /\ E = D
Unlinks(th, nt, D, E) ==
    /\ th.pc # "write" /\ nt.pc = "meta" /\ nt.todo = th.todo
    /\ th.todo[1].do = "drop" /\ th.todo[1].file \in Names
    /\ E = [D EXCEPT ![th.todo[1].file] = Absent]
Truncates(th, nt, D, E) ==
    /\ th.pc = "truncate" /\ nt.pc = "write"
    /\ nt.todo = th.todo /\ nt.file = th.file /\ nt.buf = th.buf
    /\ E = [D EXCEPT ![th.file] = Torn]
Fills(th, nt, D, E) ==
    /\ th.pc = "write" /\ E = [D EXCEPT ![th.file] = th.buf]
    /\ \/ nt.pc = "meta" /\ nt.todo = th.todo /\ th.todo[1].do \in {"create", "ensure"}
       \/ nt.pc = "call" /\ nt.todo = Tail(th.todo)
FileStep(th, nt, D, E) ==
    \/ Stops(th, nt, D, E)
    \/ /\ th.todo # << >> /\ nt.asked = th.asked
       /\ \/ Advances(th, nt, D, E) \/ Saves(th, nt, D, E) \/ Unlinks(th, nt, D, E)
          \/ Truncates(th, nt, D, E) \/ Fills(th, nt, D, E)

LEMMA FileCases ==
    ASSUME Inv, NEW t \in All, File(t)
    PROVE  FileStep(thread[t], thread'[t], disk, disk')
<1>. DEFINE th == thread[t]  c == Call1(t)
<1>1. CASE Load(t)
  <2>1. /\ th.pc = "call" /\ th.todo # << >> /\ c.do \in {"put", "remove", "schema"}
        /\ c = th.todo[1] /\ CallOK(c, sent, Len(commits))
    BY <1>1, CallAt DEF Load
  <2>2. disk' = disk  BY <1>1 DEF Load
  <2>3. c.file \in Names  BY <2>1 DEF CallOK, OnFile
  <2>4. CASE Fail(t)  BY <2>1, <2>2, <2>4, FailMoves DEF Inv, FileStep, Stops
  <2>5. CASE Readable(c.file) /\ Save(t, c.file, Changed(disk[c.file], c))
    <3>1. DOMAIN disk[c.file] = {"schema", "entries"}
      BY <2>3, <2>5 DEF Readable, Inv, TypeOK, FilesInv, IsFile
    <3>2. sent \in Nat /\ (c.file = RevNs => Fresh(disk[c.file], sent))  BY DEF Inv, TypeOK, SeenInv
    <3>. HIDE DEF c
    <3>3. /\ DOMAIN Changed(disk[c.file], c) = {"schema", "entries"}
          /\ c.file = RevNs => Fresh(Changed(disk[c.file], c), sent)
      BY <2>1, <3>1, <3>2, ChangedIs
    <3>4. /\ thread'[t].pc = "truncate" /\ thread'[t].todo = th.todo /\ thread'[t].asked = th.asked
          /\ thread'[t].buf = Changed(disk[c.file], c) /\ thread'[t].file = c.file
      BY <2>1, <2>5, <3>3, SaveMoves DEF Inv, c
    <3>5. Loads(th, disk, thread'[t].file, thread'[t].buf)
      BY <2>1, <2>3, <3>1, <3>4 DEF Loads
    <3>6. Saves(th, thread'[t], disk, disk')  BY <2>1, <2>2, <3>4, <3>5 DEF Saves
    <3>. QED  BY <2>1, <3>4, <3>6 DEF FileStep
  <2>. QED  BY <1>1, <2>4, <2>5 DEF Load
<1>2. CASE Create(t)
  <2>1. /\ th.pc = "call" /\ th.todo # << >> /\ c.do \in {"create", "ensure"}
        /\ c = th.todo[1] /\ CallOK(c, sent, Len(commits))
    BY <1>2, CallAt DEF Create
  <2>2. disk' = disk  BY <1>2 DEF Create
  <2>3. c.file \in Names  BY <2>1 DEF CallOK, OnFile
  <2>4. CASE Fail(t)  BY <2>1, <2>2, <2>4, FailMoves DEF Inv, FileStep, Stops
  <2>5. CASE disk[c.file] = Absent /\ Save(t, c.file, NewNamespace(c))
    <3>. HIDE DEF c
    <3>1. sent \in Nat  BY DEF Inv, TypeOK
    <3>2. DOMAIN NewNamespace(c) = {"schema", "entries"} /\ Fresh(NewNamespace(c), sent)
      BY <2>1, <3>1, NewIs
    <3>4. /\ thread'[t].pc = "truncate" /\ thread'[t].todo = th.todo /\ thread'[t].asked = th.asked
          /\ thread'[t].buf = NewNamespace(c) /\ thread'[t].file = c.file
      BY <2>1, <2>5, <3>2, SaveMoves DEF Inv, c
    <3>5. Loads(th, disk, thread'[t].file, thread'[t].buf)
      BY <2>1, <2>3, <2>5, <3>4 DEF Loads
    <3>6. Saves(th, thread'[t], disk, disk')  BY <2>1, <2>2, <3>4, <3>5 DEF Saves
    <3>. QED  BY <2>1, <3>4, <3>6 DEF FileStep
  <2>6. CASE Advance(t)
    <3>1. /\ thread'[t].pc = "call" /\ thread'[t].todo = Tail(th.todo) /\ thread'[t].asked = th.asked
      BY <2>1, <2>6, AdvanceMoves DEF Inv
    <3>. QED  BY <2>1, <2>2, <3>1 DEF FileStep, Advances, OfMeta
  <2>. QED  BY <1>2, <2>4, <2>5, <2>6 DEF Create, Listed
<1>3. CASE Unlink(t)
  <2>1. /\ th.pc = "call" /\ th.todo # << >> /\ c.do = "drop"
        /\ c = th.todo[1] /\ CallOK(c, sent, Len(commits))
    BY <1>3, CallAt DEF Unlink
  <2>2. c.file \in Names  BY <2>1 DEF CallOK, OnFile
  <2>3. disk' = [disk EXCEPT ![c.file] = Absent]  BY <1>3 DEF Unlink
  <2>4. thread'[t].pc = "meta" /\ thread'[t].todo = th.todo /\ thread'[t].asked = th.asked
    BY <1>3, <2>1, GoMoves DEF Unlink, Inv
  <2>5. Unlinks(th, thread'[t], disk, disk')  BY <2>1, <2>2, <2>3, <2>4 DEF Unlinks
  <2>. QED  BY <2>1, <2>4, <2>5 DEF FileStep
<1>4. CASE Truncate(t)
  <2>1. th.pc = "truncate" /\ th.todo # << >>  BY <1>4, FileAt DEF Truncate
  <2>2. disk' = [disk EXCEPT ![th.file] = Torn]  BY <1>4 DEF Truncate
  <2>3. /\ thread'[t].pc = "write" /\ thread'[t].todo = th.todo /\ thread'[t].asked = th.asked
        /\ thread'[t].buf = th.buf /\ thread'[t].file = th.file
    BY <1>4, <2>1, GoMoves DEF Truncate, Inv
  <2>4. Truncates(th, thread'[t], disk, disk')  BY <2>1, <2>2, <2>3 DEF Truncates
  <2>. QED  BY <2>1, <2>3, <2>4 DEF FileStep
<1>5. CASE Write(t)
  <2>1. th.pc = "write" /\ th.todo # << >>  BY <1>5, FileAt DEF Write
  <2>2. disk' = [disk EXCEPT ![th.file] = th.buf] /\ c = th.todo[1]  BY <1>5, <2>1, AtIs DEF Write, Inv
  <2>3. CASE Go(t, "meta") /\ c.do \in {"create", "ensure"}
    <3>1. thread'[t].pc = "meta" /\ thread'[t].todo = th.todo /\ thread'[t].asked = th.asked
      BY <2>1, <2>3, GoMoves DEF Inv
    <3>2. Fills(th, thread'[t], disk, disk')  BY <2>1, <2>2, <2>3, <3>1 DEF Fills
    <3>. QED  BY <2>1, <3>1, <3>2 DEF FileStep
  <2>4. CASE Advance(t)
    <3>1. /\ thread'[t].pc = "call" /\ thread'[t].todo = Tail(th.todo) /\ thread'[t].asked = th.asked
      BY <2>1, <2>4, AdvanceMoves DEF Inv
    <3>2. Fills(th, thread'[t], disk, disk')  BY <2>1, <2>2, <3>1 DEF Fills
    <3>. QED  BY <2>1, <3>1, <3>2 DEF FileStep
  <2>. QED  BY <1>5, <2>3, <2>4 DEF Write
<1>6. CASE UpdateMeta(t)
  <2>1. th.pc = "meta" /\ th.todo # << >> /\ th.todo[1].do \in OfMeta
    BY <1>6, AtIs DEF UpdateMeta, Inv, Placed, OfMeta
  <2>2. disk' = disk  BY <1>6 DEF UpdateMeta
  <2>3. CASE Fail(t)  BY <2>1, <2>2, <2>3, FailMoves DEF Inv, FileStep, Stops
  <2>4. CASE Advance(t)
    <3>1. /\ thread'[t].pc = "call" /\ thread'[t].todo = Tail(th.todo) /\ thread'[t].asked = th.asked
      BY <2>1, <2>4, AdvanceMoves DEF Inv
    <3>. QED  BY <2>1, <2>2, <3>1 DEF FileStep, Advances
  <2>5. CASE Save(t, Meta, MetaFile(MetaAfter(c, disk[Meta].names)))
    <3>1. /\ thread'[t].pc = "truncate" /\ thread'[t].todo = th.todo /\ thread'[t].asked = th.asked
          /\ thread'[t].file = Meta
      BY <2>1, <2>5, SaveMoves DEF Inv
    <3>2. Loads(th, disk, thread'[t].file, thread'[t].buf)  BY <2>1, <3>1 DEF Loads
    <3>3. Saves(th, thread'[t], disk, disk')  BY <1>6, <2>1, <2>2, <3>1, <3>2 DEF Saves, UpdateMeta
    <3>. QED  BY <2>1, <3>1, <3>3 DEF FileStep
  <2>. QED  BY <1>6, <2>3, <2>4, <2>5 DEF UpdateMeta
<1>. QED  BY <1>1, <1>2, <1>3, <1>4, <1>5, <1>6 DEF File
-------------------------------------------------------------------------------
(* What such a step keeps.                                                     *)
Context(th, D, s, m) ==
    /\ s \in Nat /\ Placed(th, s, m) /\ DOMAIN D = Files /\ SoundThread(th)

LEMMA HeadIs ==
    ASSUME NEW th, NEW s, NEW m, Placed(th, s, m), th.todo # << >>
    PROVE  /\ IsSeq(th.todo) /\ 1 \in DOMAIN th.todo /\ CallOK(th.todo[1], s, m)
           /\ IsSeq(Tail(th.todo))
           /\ \A i \in DOMAIN Tail(th.todo) :
                 i + 1 \in DOMAIN th.todo /\ Tail(th.todo)[i] = th.todo[i + 1]
           /\ \A j \in DOMAIN th.todo : j = 1 \/
                 \E i \in DOMAIN Tail(th.todo) : Tail(th.todo)[i] = th.todo[j]
<1>1. IsSeq(th.todo) /\ \A i \in DOMAIN th.todo : CallOK(th.todo[i], s, m)  BY DEF Placed
<1>2. /\ 1 \in DOMAIN th.todo /\ IsSeq(Tail(th.todo)) /\ Len(Tail(th.todo)) = Len(th.todo) - 1
      /\ \A i \in DOMAIN Tail(th.todo) : i + 1 \in DOMAIN th.todo /\ Tail(th.todo)[i] = th.todo[i + 1]
  BY <1>1, SeqTail
<1>3. /\ Len(th.todo) \in Nat /\ DOMAIN th.todo = 1..Len(th.todo)
      /\ DOMAIN Tail(th.todo) = 1..Len(Tail(th.todo))
  BY <1>1, <1>2, SeqLen
<1>4. ASSUME NEW j \in DOMAIN th.todo, j # 1
      PROVE  \E i \in DOMAIN Tail(th.todo) : Tail(th.todo)[i] = th.todo[j]
  <2>1. j - 1 \in DOMAIN Tail(th.todo) /\ (j - 1) + 1 = j  BY <1>2, <1>3, <1>4
  <2>. QED  BY <2>1, <1>2
<1>. QED  BY <1>1, <1>2, <1>4

\* The call that a thread serves as it saves a namespace.
LEMMA SavingIs ==
    ASSUME NEW th, NEW s, NEW m, Placed(th, s, m), SoundThread(th), NEW n \in Names, Saving(th, n)
    PROVE  /\ th.todo # << >> /\ th.todo[1].file = n
           /\ th.todo[1].do \in {"put", "remove", "schema", "create", "ensure"}
           /\ DOMAIN th.buf = {"schema", "entries"}
BY NamesAre DEF Placed, Saving

LEMMA SoundKept ==
    ASSUME NEW th, NEW nt, NEW D, NEW E, NEW s, NEW m, Context(th, D, s, m),
           FileStep(th, nt, D, E), Sound(D[Contracts])
    PROVE  SoundThread(nt) /\ Sound(E[Contracts])
<1>0. /\ s \in Nat /\ Placed(th, s, m) /\ DOMAIN D = Files /\ SoundThread(th)
      /\ Contracts \in Names /\ Contracts \in Files /\ Contracts # Meta
  BY NamesAre DEF Context
<1>1. CASE Stops(th, nt, D, E)
  <2>1. nt.pc = "idle" /\ nt.todo = << >> /\ E = D  BY <1>1, IdleIs DEF Stops
  <2>. QED  BY <2>1, SeqShort DEF SoundThread, Saving
<1>. DEFINE c == th.todo[1]
<1>2. CASE th.todo # << >> /\ Advances(th, nt, D, E)
  BY <1>0, <1>2, HeadIs DEF Advances, SoundThread, Saving
<1>3. CASE th.todo # << >> /\ Saves(th, nt, D, E)
  <2>0. CallOK(c, s, m) /\ SoundCall(c)  BY <1>0, <1>3, HeadIs DEF SoundThread
  <2>1. CASE nt.file = Meta /\ c.do \in OfMeta
    BY <1>0, <1>3, <2>1 DEF Saves, SoundThread, Saving, OfMeta
  <2>2. CASE /\ nt.file \in Names /\ nt.file = c.file /\ c.do \in {"put", "remove", "schema"}
             /\ DOMAIN D[c.file] = {"schema", "entries"} /\ nt.buf = Changed(D[c.file], c)
    <3>. DEFINE made == Changed(D[c.file], c)
    <3>. HIDE DEF c
    <3>1. /\ c.do = "put" => \A k \in DOMAIN c.entries : Holds(made, k, c.entries[k])
          /\ c.file = Contracts /\ Sound(D[c.file]) /\ SoundCall(c) => Sound(made)
      BY <1>0, <2>0, <2>2, ChangedHolds
    <3>. HIDE DEF made
    <3>2. nt.file # Meta /\ nt.buf = made  BY <2>2, NamesAre DEF made
    <3>3. nt.file = Contracts => Sound(nt.buf)  BY <2>0, <2>2, <3>1, <3>2
    <3>. QED  BY <1>0, <1>3, <3>1, <3>2, <3>3 DEF Saves, SoundThread, Saving, c
  <2>3. CASE nt.file \in Names /\ c.do \in {"create", "ensure"} /\ nt.buf = NewNamespace(c)
    <3>1. Sound(nt.buf)  BY <1>0, <2>0, <2>3, NewSound
    <3>2. nt.file # Meta  BY <2>3, NamesAre
    <3>. QED  BY <1>0, <1>3, <2>3, <3>1, <3>2 DEF Saves, SoundThread, Saving
  <2>. QED  BY <1>3, <2>1, <2>2, <2>3 DEF Saves, Loads
<1>4. CASE th.todo # << >> /\ Unlinks(th, nt, D, E)
  <2>1. E[Contracts] \in {D[Contracts], Absent}  BY <1>0, <1>4 DEF Unlinks
  <2>. QED  BY <1>0, <1>4, <2>1, SoundNothing DEF Unlinks, SoundThread, Saving
<1>5. CASE th.todo # << >> /\ Truncates(th, nt, D, E)
  <2>1. E[Contracts] \in {D[Contracts], Torn}  BY <1>0, <1>5 DEF Truncates
  <2>. QED  BY <1>0, <1>5, <2>1, SoundNothing DEF Truncates, SoundThread, Saving
<1>6. CASE th.todo # << >> /\ Fills(th, nt, D, E)
  <2>1. E[Contracts] = IF th.file = Contracts THEN th.buf ELSE D[Contracts]
    BY <1>0, <1>6 DEF Fills
  <2>2. Sound(E[Contracts])  BY <1>0, <1>6, <2>1 DEF Fills, SoundThread, Saving
  <2>3. nt.pc \in {"meta", "call"} /\ nt.todo \in {th.todo, Tail(th.todo)}  BY <1>6 DEF Fills
  <2>4. \A i \in DOMAIN nt.todo : SoundCall(nt.todo[i])
    BY <1>0, <1>6, <2>3, HeadIs DEF SoundThread
  <2>. QED  BY <2>2, <2>3, <2>4 DEF SoundThread, Saving
<1>. QED  BY <1>1, <1>2, <1>3, <1>4, <1>5, <1>6 DEF FileStep

LEMMA HeldKept ==
    ASSUME NEW th, NEW nt, NEW D, NEW E, NEW s, NEW m, Context(th, D, s, m),
           FileStep(th, nt, D, E), NEW n \in Names, NEW k, NEW v,
           th.todo # << >> /\ Affects(th.todo[1], n, k) => Supplies(th.todo[1], n, k, v),
           Held(th, D[n], n, k, v)
    PROVE  Held(nt, E[n], n, k, v)
<1>0. /\ s \in Nat /\ Placed(th, s, m) /\ DOMAIN D = Files /\ SoundThread(th)
      /\ n \in Files /\ n # Meta
  BY NamesAre DEF Context
<1>. DEFINE c == th.todo[1]
<1>1. CASE Stops(th, nt, D, E)
  <2>1. nt.pc = "idle" /\ E = D  BY <1>1, IdleIs DEF Stops
  <2>. QED  BY <2>1 DEF Held, Saving
<1>2. CASE th.todo # << >> /\ Advances(th, nt, D, E)
  BY <1>2 DEF Advances, Held, Saving
<1>3. CASE th.todo # << >> /\ Saves(th, nt, D, E)
  <2>0. CallOK(c, s, m)  BY <1>0, <1>3, HeadIs
  <2>1. CASE nt.file # n  BY <1>3, <2>1 DEF Saves, Held, Saving
  <2>2. CASE /\ nt.file = n /\ n = c.file /\ c.do \in {"put", "remove", "schema"}
             /\ DOMAIN D[n] = {"schema", "entries"} /\ nt.buf = Changed(D[n], c)
    <3>. DEFINE made == Changed(D[n], c)
    <3>1. Affects(c, n, k) => Supplies(c, n, k, v)  BY <1>3
    <3>2. Holds(D[n], k, v)  BY <2>2, Filled DEF Held
    <3>. HIDE DEF c
    <3>3. /\ c.do = "put" => \A x \in DOMAIN c.entries : Holds(made, x, c.entries[x])
          /\ \A x, y : Holds(D[n], x, y) /\ ~ Affects(c, c.file, x) => Holds(made, x, y)
      BY <1>0, <2>0, <2>2, ChangedHolds
    <3>. HIDE DEF made
    <3>4. Holds(made, k, v)
      <4>1. CASE ~ Affects(c, n, k)  BY <4>1, <2>2, <3>2, <3>3
      <4>2. CASE Supplies(c, n, k, v)
        <5>1. c.do = "put"  BY <2>2, <4>2, NothingPromised
        <5>2. Promise(c, n) = c.entries  BY <5>1, <2>2, PromiseIs
        <5>. QED  BY <4>2, <5>1, <5>2, <3>3 DEF Supplies
      <4>. QED  BY <3>1, <4>1, <4>2
    <3>. QED  BY <1>3, <2>2, <3>2, <3>4 DEF Saves, Held, made
  <2>3. CASE D[n] = Absent  BY <2>3, NothingHeld DEF Held
  <2>. QED  BY <1>0, <1>3, <2>1, <2>2, <2>3 DEF Saves, Loads
<1>4. CASE th.todo # << >> /\ Unlinks(th, nt, D, E)
  <2>1. c.file # n
    <3>1. c.file = n => Affects(c, n, k)  BY <1>4 DEF Unlinks, Affects
    <3>2. ~ Supplies(c, n, k, v)  BY <1>4, NothingPromised DEF Unlinks
    <3>. QED  BY <1>4, <3>1, <3>2
  <2>2. E[n] = D[n]  BY <1>0, <1>4, <2>1 DEF Unlinks
  <2>. QED  BY <1>4, <2>2 DEF Unlinks, Held, Saving
<1>5. CASE th.todo # << >> /\ Truncates(th, nt, D, E)
  <2>1. E[n] = IF th.file = n THEN Torn ELSE D[n]  BY <1>0, <1>5 DEF Truncates
  <2>. QED  BY <1>5, <2>1 DEF Truncates, Held, Saving
<1>6. CASE th.todo # << >> /\ Fills(th, nt, D, E)
  <2>1. E[n] = IF th.file = n THEN th.buf ELSE D[n]  BY <1>0, <1>6 DEF Fills
  <2>. QED  BY <1>6, <2>1 DEF Fills, Held, Saving
<1>. QED  BY <1>1, <1>2, <1>3, <1>4, <1>5, <1>6 DEF FileStep

\* A pledge is kept until the request fails.
LEMMA PledgeKept ==
    ASSUME NEW th, NEW nt, NEW D, NEW E, NEW s, NEW m, Context(th, D, s, m),
           FileStep(th, nt, D, E), nt # Idle, NEW n \in Names, NEW k, NEW v,
           Pledge(th, D[n], n, k, v)
    PROVE  Pledge(nt, E[n], n, k, v)
<1>0. /\ s \in Nat /\ Placed(th, s, m) /\ DOMAIN D = Files /\ SoundThread(th)
      /\ n \in Files /\ n # Meta
  BY NamesAre DEF Context
<1>. DEFINE c == th.todo[1]
<1>1. th.todo # << >>  BY DEF FileStep, Stops
<1>2. /\ 1 \in DOMAIN th.todo
      /\ \A i \in DOMAIN Tail(th.todo) :
            i + 1 \in DOMAIN th.todo /\ Tail(th.todo)[i] = th.todo[i + 1]
      /\ \A j \in DOMAIN th.todo : j = 1 \/
            \E i \in DOMAIN Tail(th.todo) : Tail(th.todo)[i] = th.todo[j]
  BY <1>0, <1>1, HeadIs
<1>3. Affects(c, n, k) => Supplies(c, n, k, v)  BY <1>2 DEF Pledge
<1>4. nt.todo = th.todo \/ nt.todo = Tail(th.todo)
  BY DEF FileStep, Stops, Advances, Saves, Unlinks, Truncates, Fills
<1>5. \A i \in DOMAIN nt.todo : \E j \in DOMAIN th.todo : nt.todo[i] = th.todo[j]  BY <1>2, <1>4
<1>6. \A j \in DOMAIN nt.todo : Affects(nt.todo[j], n, k) => Supplies(nt.todo[j], n, k, v)
  BY <1>5 DEF Pledge
<1>7. CASE nt.todo = th.todo /\ Coming(th, n, k, v)  BY <1>6, <1>7 DEF Pledge, Coming
<1>8. CASE nt.todo = Tail(th.todo) /\ ~ Supplies(c, n, k, v) /\ Coming(th, n, k, v)
  <2>1. Coming(nt, n, k, v)  BY <1>2, <1>8 DEF Coming
  <2>. QED  BY <1>6, <2>1 DEF Pledge
<1>9. CASE nt.todo # th.todo /\ Supplies(c, n, k, v)
  <2>1. c.do \in {"put", "bind", "propose"}  BY <1>9, NothingPromised
  <2>2. Fills(th, nt, D, E) /\ nt.pc = "call"
    BY <1>9, <2>1 DEF FileStep, Stops, Advances, Saves, Unlinks, Truncates, Fills, OfMeta
  <2>3. th.pc = "write" /\ (th.file = Meta => c.do \in {"create", "ensure", "drop"})
    BY <1>0, <2>2 DEF Fills, SoundThread, Saving
  <2>4. th.file = c.file /\ c.do = "put"  BY <1>0, <2>1, <2>3 DEF Placed
  <2>5. c.file = n /\ Promise(c, n) = c.entries
    BY <1>9, <2>4, PromiseIs, SeqShort DEF Supplies
  <2>6. Holds(th.buf, k, v)  BY <1>0, <1>9, <2>3, <2>4, <2>5 DEF SoundThread, Supplies
  <2>7. E[n] = th.buf  BY <1>0, <2>2, <2>4, <2>5 DEF Fills
  <2>8. Landed(nt, E[n], n, k, v)  BY <2>2, <2>6, <2>7 DEF Landed, Held, Saving, Holds
  <2>. QED  BY <1>6, <2>8 DEF Pledge
<1>10. CASE Landed(th, D[n], n, k, v)
  <2>1. Held(nt, E[n], n, k, v)  BY <1>3, <1>10, HeldKept DEF Landed
  <2>2. E[n] = Torn => nt.pc = "write" /\ nt.file = n
    <3>1. CASE Advances(th, nt, D, E) \/ Saves(th, nt, D, E)
      BY <1>10, <3>1 DEF Advances, Saves, Landed
    <3>2. CASE Unlinks(th, nt, D, E)
      <4>1. E[n] \in {D[n], Absent}  BY <1>0, <3>2 DEF Unlinks
      <4>. QED  BY <1>10, <3>2, <4>1, NothingHeld DEF Unlinks, Landed
    <3>3. CASE Truncates(th, nt, D, E)
      <4>1. E[n] = IF th.file = n THEN Torn ELSE D[n]  BY <1>0, <3>3 DEF Truncates
      <4>. QED  BY <1>10, <3>3, <4>1 DEF Truncates, Landed
    <3>4. CASE Fills(th, nt, D, E)
      <4>1. E[n] = IF th.file = n THEN th.buf ELSE D[n]  BY <1>0, <3>4 DEF Fills
      <4>2. th.file = n => th.buf # Torn  BY <1>10, <3>4 DEF Fills, Landed, Held, Saving, Holds
      <4>. QED  BY <1>10, <3>4, <4>1, <4>2 DEF Fills, Landed
    <3>. QED  BY <3>1, <3>2, <3>3, <3>4 DEF FileStep, Stops
  <2>3. Landed(nt, E[n], n, k, v)  BY <2>1, <2>2 DEF Landed
  <2>. QED  BY <1>6, <2>3 DEF Pledge
<1>. QED  BY <1>4, <1>7, <1>8, <1>9, <1>10 DEF Pledge

\* A thread that has no other calls to make than before.
LEMMA TouchedLess ==
    ASSUME NEW todo, NEW less, \A i \in DOMAIN less : \E j \in DOMAIN todo : less[i] = todo[j]
    PROVE  Touched(less) \subseteq Touched(todo)
BY DEF Touched

LEMMA WithinIdle ==
    Within(Idle) /\ SoundThread(Idle)
<1>1. /\ Idle.todo = << >> /\ Idle.asked = << >> /\ Idle.pc = "idle"
      /\ IsSeq(<< >>) /\ DOMAIN << >> = {}
  BY IdleIs, SeqShort
<1>2. Touched(<< >>) = {}  BY <1>1 DEF Touched
<1>. QED  BY <1>1, <1>2 DEF Within, SoundThread, Saving

LEMMA WithinLess ==
    ASSUME NEW th, NEW nt, Within(th), nt.asked = th.asked,
           \A i \in DOMAIN nt.todo : \E j \in DOMAIN th.todo : nt.todo[i] = th.todo[j]
    PROVE  Within(nt)
<1>1. Touched(nt.todo) \subseteq Touched(th.todo)  BY TouchedLess
<1>. QED  BY <1>1 DEF Within

LEMMA FewerCalls ==
    ASSUME NEW th, NEW nt, NEW D, NEW E, NEW s, NEW m, Placed(th, s, m), FileStep(th, nt, D, E)
    PROVE  \/ nt = Idle
           \/ /\ nt.asked = th.asked
              /\ \A i \in DOMAIN nt.todo : \E j \in DOMAIN th.todo : nt.todo[i] = th.todo[j]
<1>. SUFFICES ASSUME nt # Idle
     PROVE  /\ nt.asked = th.asked
            /\ \A i \in DOMAIN nt.todo : \E j \in DOMAIN th.todo : nt.todo[i] = th.todo[j]
  OBVIOUS
<1>1. th.todo # << >> /\ nt.asked = th.asked  BY DEF FileStep, Stops
<1>2. \A i \in DOMAIN Tail(th.todo) : i + 1 \in DOMAIN th.todo /\ Tail(th.todo)[i] = th.todo[i + 1]
  BY <1>1, HeadIs
<1>3. nt.todo = th.todo \/ nt.todo = Tail(th.todo)
  BY DEF FileStep, Stops, Advances, Saves, Unlinks, Truncates, Fills
<1>. QED  BY <1>1, <1>2, <1>3

\* A file that changes is one its thread's calls reach.
LEMMA FilesWithin ==
    ASSUME NEW th, NEW nt, NEW D, NEW E, NEW s, NEW m, Context(th, D, s, m),
           FileStep(th, nt, D, E), NEW n \in Names
    PROVE  E[n] = D[n] \/ n \in Touched(th.todo)
<1>0. Placed(th, s, m) /\ DOMAIN D = Files /\ SoundThread(th) /\ n \in Files  BY NamesAre DEF Context
<1>. SUFFICES ASSUME E[n] # D[n] PROVE n \in Touched(th.todo)  OBVIOUS
<1>1. th.todo # << >>  BY DEF FileStep, Stops
<1>2. 1 \in DOMAIN th.todo  BY <1>0, <1>1, HeadIs
<1>3. \/ th.todo[1].do = "drop" /\ th.todo[1].file = n
      \/ Saving(th, n)
  BY <1>0 DEF FileStep, Stops, Advances, Saves, Unlinks, Truncates, Fills, Saving
<1>4. th.todo[1].do \in OnFile /\ th.todo[1].file = n  BY <1>0, <1>3, SavingIs DEF OnFile
<1>. QED  BY <1>2, <1>4, TouchedHas
-------------------------------------------------------------------------------
(* Requests that are apart do not change each other's files.                   *)
LEMMA ContextNow ==
    ASSUME Inv, ThreadInv, NEW t \in All
    PROVE  Context(thread[t], disk, sent, Len(commits))
BY DEF Inv, TypeOK, FilesInv, PlaceInv, ThreadInv, Context

LEMMA ApartNow ==
    ASSUME Inv, ThreadInv, NEW t \in All, thread[t].pc # "idle",
           NEW u \in Threads, u # t, u \notin met, thread[u].asked # << >>
    PROVE  /\ t \in Threads /\ ~ MovesTree(thread[t].asked)
           /\ \A n : n \in Touched(thread[u].asked) => n \notin Touched(thread[t].todo)
<1>1. thread[u].pc # "idle"  BY IdleThreads DEF Inv
<1>2. up  BY <1>1 DEF Inv, ServeInv
<1>3. t \in Threads  BY <1>2 DEF Inv, ServeInv, All
<1>4. ~ Conflict(thread[u].asked, thread[t].asked)  BY <1>1, <1>3 DEF Inv, ApartInv
<1>5. Touched(thread[u].asked) \cap Touched(thread[t].asked) = {} /\ ~ MovesTree(thread[t].asked)
  BY <1>4 DEF Conflict
<1>6. Touched(thread[t].todo) \subseteq Touched(thread[t].asked)  BY <1>3 DEF ThreadInv, Within
<1>. QED  BY <1>3, <1>5, <1>6

\* A request that has promised something of n reaches n.
LEMMA PledgeTouches ==
    ASSUME NEW asked, NEW i \in DOMAIN asked, NEW n, NEW k, k \in DOMAIN Promise(asked[i], n)
    PROVE  n \in Touched(asked)
<1>1. Affects(asked[i], n, k)  BY PromisesWhatItWrites
<1>2. n \in TouchedBy(asked[i])  BY <1>1, AffectsReached
<1>. QED  BY <1>2, TouchedHasAll

\* The pledges of the threads that do not move.
LEMMA OthersPledge ==
    ASSUME Inv, Durable, NEW t \in All, thread[t].pc # "idle",
           NEW u \in Threads, u # t, u \notin met, thread'[u] = thread[u],
           \A n \in Names : disk'[n] = disk[n] \/ n \in Touched(thread[t].todo),
           NEW n \in Names, NEW i \in DOMAIN thread[u].asked,
           NEW k \in DOMAIN Promise(thread[u].asked[i], n)
    PROVE  Pledge(thread[u], disk'[n], n, k, Promise(thread[u].asked[i], n)[k])
<1>1. thread[u].asked # << >>  BY SeqShort
<1>2. n \in Touched(thread[u].asked)  BY PledgeTouches
<1>3. n \notin Touched(thread[t].todo)  BY <1>1, <1>2, ApartNow DEF Durable
<1>4. disk'[n] = disk[n]  BY <1>3
<1>. QED  BY <1>4 DEF Durable, PledgeInv

LEMMA FileDurable ==
    ASSUME Inv, Durable, NEW t \in All, File(t)
    PROVE  Durable'
<1>. DEFINE th == thread[t]  nt == thread'[t]  m == Len(commits)
<1>1. Only(t) /\ th.pc # "idle"
  BY FileSteps DEF Steps, Moves
<1>2. UNCHANGED <<git, promised, met>>
  BY DEF File, Load, Create, Unlink, Truncate, Write, UpdateMeta, ghosts
<1>3. FileStep(th, nt, disk, disk')  BY FileCases
<1>4. Context(th, disk, sent, m)  BY ContextNow DEF Durable
<1>5. \A u \in All : u # t => thread'[u] = thread[u]  BY <1>1 DEF Only
<1>6. Placed(th, sent, m)  BY <1>4 DEF Context
<1>. HIDE DEF th, nt, m
<1>7. SoundThread(nt) /\ Sound(disk'[Contracts])  BY <1>3, <1>4, SoundKept DEF Durable, ContractInv
<1>8. ContractInv'  BY <1>2, <1>7 DEF Durable, ContractInv, git
<1>9. nt = Idle \/ /\ nt.asked = th.asked
                   /\ \A i \in DOMAIN nt.todo : \E j \in DOMAIN th.todo : nt.todo[i] = th.todo[j]
  BY <1>3, <1>6, FewerCalls
<1>10. t \in Threads => Within(nt)
  <2>. SUFFICES ASSUME t \in Threads PROVE Within(nt)  OBVIOUS
  <2>1. Within(th)  BY DEF Durable, ThreadInv, th
  <2>. QED  BY <1>9, <2>1, WithinIdle, WithinLess
<1>11. ThreadInv'
  <2>1. \A u \in All : SoundThread(thread'[u])  BY <1>5, <1>7 DEF Durable, ThreadInv, nt
  <2>2. \A u \in Threads : Within(thread'[u])  BY <1>5, <1>10 DEF Durable, ThreadInv, nt, All
  <2>. QED  BY <2>1, <2>2 DEF ThreadInv
<1>12. SafeInv'
  <2>. SUFFICES ASSUME NEW n \in Names, NEW k \in DOMAIN promised[n], NEW u \in All
       PROVE  /\ Held(thread'[u], disk'[n], n, k, promised[n][k].value)
              /\ \A i \in DOMAIN thread'[u].todo : ~ Affects(thread'[u].todo[i], n, k)
    BY <1>2 DEF SafeInv
  <2>. DEFINE v == promised[n][k].value
  <2>1. /\ Held(th, disk[n], n, k, v) /\ Held(thread[u], disk[n], n, k, v)
        /\ \A i \in DOMAIN thread[u].todo : ~ Affects(thread[u].todo[i], n, k)
        /\ \A i \in DOMAIN th.todo : ~ Affects(th.todo[i], n, k)
    BY DEF Durable, SafeInv, th
  <2>2. th.todo # << >> => ~ Affects(th.todo[1], n, k)  BY <1>6, <2>1, HeadIs
  <2>. HIDE DEF v
  <2>3. Held(nt, disk'[n], n, k, v)  BY <1>3, <1>4, <2>1, <2>2, HeldKept
  <2>4. CASE u = t
    <3>1. \A i \in DOMAIN nt.todo : ~ Affects(nt.todo[i], n, k)
      BY <1>9, <2>1, IdleIs, SeqShort
    <3>. QED  BY <2>3, <2>4, <3>1 DEF nt, v
  <2>5. CASE u # t
    <3>1. Held(thread[u], disk'[n], n, k, v)  BY <2>1, <2>3 DEF Held
    <3>. QED  BY <1>5, <2>1, <2>5, <3>1 DEF v
  <2>. QED  BY <2>4, <2>5
<1>13. PledgeInv'
  <2>. SUFFICES ASSUME NEW u \in Threads, NEW n \in Names, u \notin met',
                       NEW i \in DOMAIN thread'[u].asked,
                       NEW k \in DOMAIN Promise(thread'[u].asked[i], n)
       PROVE  Pledge(thread'[u], disk'[n], n, k, Promise(thread'[u].asked[i], n)[k])
    BY DEF PledgeInv
  <2>1. CASE u = t
    <3>1. nt # Idle  BY <2>1, IdleIs, SeqShort DEF nt
    <3>2. nt.asked = th.asked  BY <1>9, <3>1
    <3>3. Pledge(th, disk[n], n, k, Promise(th.asked[i], n)[k])
      BY <1>2, <2>1, <3>2 DEF Durable, PledgeInv, nt, th
    <3>4. Pledge(nt, disk'[n], n, k, Promise(th.asked[i], n)[k])
      BY <1>3, <1>4, <3>1, <3>3, PledgeKept
    <3>. QED  BY <2>1, <3>2, <3>4 DEF nt
  <2>2. CASE u # t
    <3>1. thread'[u] = thread[u]  BY <1>5, <2>2 DEF All
    <3>2. \A x \in Names : disk'[x] = disk[x] \/ x \in Touched(thread[t].todo)
      BY <1>3, <1>4, FilesWithin DEF th
    <3>3. thread[t].pc # "idle"  BY <1>1 DEF th
    <3>. QED  BY <1>2, <2>2, <3>1, <3>2, <3>3, OthersPledge
  <2>. QED  BY <2>1, <2>2
<1>. QED  BY <1>8, <1>11, <1>12, <1>13 DEF Durable
-------------------------------------------------------------------------------
(* The calls a call goes on with: they reach no further than it, and supply    *)
(* what it has promised and nothing else for its keys.                         *)
Follows(c, d) ==
    /\ SoundCall(d) /\ ~ TreeCall(d) /\ TouchedBy(d) \subseteq TouchedBy(c)
    /\ \A n, k : Affects(d, n, k) => Affects(c, n, k)
    /\ \A n, k, v : Affects(d, n, k) /\ Supplies(c, n, k, v) => Supplies(d, n, k, v)
Expands(c, calls) ==
    /\ IsSeq(calls) /\ \A i \in DOMAIN calls : Follows(c, calls[i])
    /\ \A n, k, v : Supplies(c, n, k, v) => \E i \in DOMAIN calls : Supplies(calls[i], n, k, v)

LEMMA PutSays ==
    ASSUME NEW n, NEW k, NEW v
    PROVE  LET d == Put(n, Entry(k, v)) IN
           /\ n # Contracts => SoundCall(d)
           /\ ~ TreeCall(d) /\ TouchedBy(d) = {n}
           /\ \A m, x : Affects(d, m, x) <=> m = n /\ x = k
           /\ \A m, x, y : Supplies(d, m, x, y) <=> m = n /\ x = k /\ y = v
<1>. DEFINE d == Put(n, Entry(k, v))
<1>1. d.do = "put" /\ d.file = n /\ d.entries = Entry(k, v)  BY DEF Put
<1>2. DOMAIN d.entries = {k} /\ d.entries[k] = v  BY <1>1, EntryIs
<1>. HIDE DEF d
<1>3. \A m : Promise(d, m) = IF n = m THEN d.entries ELSE << >>  BY <1>1, PromiseIs
<1>4. \A m, x, y : Supplies(d, m, x, y) <=> m = n /\ x = k /\ y = v
  BY <1>2, <1>3, SeqShort DEF Supplies
<1>5. \A m, x : Affects(d, m, x) <=> m = n /\ x = k  BY <1>1, <1>2 DEF Affects
<1>. QED  BY <1>1, <1>4, <1>5 DEF SoundCall, TreeCall, TouchedBy, d

LEMMA EnsureSays ==
    ASSUME NEW n
    PROVE  LET d == Call("ensure", n) IN
           /\ SoundCall(d) /\ ~ TreeCall(d) /\ TouchedBy(d) = {n}
           /\ \A m, x : ~ Affects(d, m, x)
<1>1. Call("ensure", n).do = "ensure" /\ Call("ensure", n).file = n  BY DEF Call
<1>. QED  BY <1>1 DEF SoundCall, TreeCall, TouchedBy, Affects

\* Two lists of calls after each other.
Cat(s, t) == s \o t

LEMMA CatHas ==
    ASSUME NEW s, NEW t, IsSeq(s), IsSeq(t)
    PROVE  /\ IsSeq(Cat(s, t))
           /\ \A i \in DOMAIN Cat(s, t) : \/ \E j \in DOMAIN s : Cat(s, t)[i] = s[j]
                                        \/ \E j \in DOMAIN t : Cat(s, t)[i] = t[j]
           /\ \A j \in DOMAIN s : \E i \in DOMAIN Cat(s, t) : Cat(s, t)[i] = s[j]
           /\ \A j \in DOMAIN t : \E i \in DOMAIN Cat(s, t) : Cat(s, t)[i] = t[j]
<1>. DEFINE S == {s[i] : i \in DOMAIN s} \cup {t[i] : i \in DOMAIN t}  r == s \o t
<1>1. s \in Seq(S) /\ t \in Seq(S)  BY SeqMonotonic DEF IsSeq
<1>2. Len(s) \in Nat /\ DOMAIN s = 1..Len(s) /\ Len(t) \in Nat /\ DOMAIN t = 1..Len(t)  BY SeqLen
<1>. HIDE DEF S
<1>3. /\ r \in Seq(S) /\ Len(r) = Len(s) + Len(t)
      /\ \A i \in 1..(Len(s) + Len(t)) : r[i] = IF i <= Len(s) THEN s[i] ELSE t[i - Len(s)]
  BY <1>1, ConcatProperties
<1>4. /\ IsSeq(r)
      /\ \A i \in DOMAIN r : \/ i \in DOMAIN s /\ r[i] = s[i]
                             \/ i - Len(s) \in DOMAIN t /\ r[i] = t[i - Len(s)]
  BY SeqConcat
<1>5. Cat(s, t) = r  BY DEF Cat
<1>. HIDE DEF r
<1>6. DOMAIN r = 1..(Len(s) + Len(t))  BY <1>3, LenProperties
<1>7. ASSUME NEW j \in DOMAIN s PROVE \E i \in DOMAIN r : r[i] = s[j]
  <2>1. j \in DOMAIN r /\ r[j] = s[j]  BY <1>2, <1>3, <1>6
  <2>. QED  BY <2>1
<1>8. ASSUME NEW j \in DOMAIN t PROVE \E i \in DOMAIN r : r[i] = t[j]
  <2>1. /\ j + Len(s) \in DOMAIN r /\ ~ (j + Len(s) <= Len(s)) /\ (j + Len(s)) - Len(s) = j
    BY <1>2, <1>6
  <2>2. r[j + Len(s)] = t[j]  BY <2>1, <1>2, <1>3, <1>6
  <2>. QED  BY <2>1, <2>2
<1>9. \A i \in DOMAIN r : (\E j \in DOMAIN s : r[i] = s[j]) \/ \E j \in DOMAIN t : r[i] = t[j]
  BY <1>4
<1>. QED  BY <1>4, <1>5, <1>7, <1>8, <1>9

LEMMA LogExpands ==
    ASSUME NEW c, c.do = "log", c.file = RevNs, NEW entry
    PROVE  Expands(c, <<Put(c.file, Entry(<<c.id>>, entry))>>)
<1>. DEFINE d == Put(c.file, Entry(<<c.id>>, entry))
<1>1. RevNs # Contracts  BY DataStoreAssumption
<1>2. /\ SoundCall(d) /\ ~ TreeCall(d) /\ TouchedBy(d) = {c.file}
      /\ \A m, x : Affects(d, m, x) <=> m = c.file /\ x = <<c.id>>
  BY <1>1, PutSays
<1>. HIDE DEF d
<1>3. TouchedBy(c) = {c.file} /\ \A x : x = <<c.id>> => Affects(c, c.file, x)
  BY DEF TouchedBy, Affects
<1>4. \A n, k, v : ~ Supplies(c, n, k, v)  BY NothingPromised
<1>5. Follows(c, d)  BY <1>2, <1>3, <1>4 DEF Follows
<1>. QED  BY <1>4, <1>5, SeqShort DEF Expands, d

LEMMA BindExpands ==
    ASSUME NEW c, c.do = "bind", NEW calls,
           calls = Cat(<<Put(Instances, Entry(<<c.slot>>, "instance"))>>,
                IF c.value = None THEN << >>
                ELSE <<Call("ensure", Data), Put(Data, Entry(<<c.slot>>, c.value))>>)
    PROVE  Expands(c, calls)
<1>. DEFINE a == Put(Instances, Entry(<<c.slot>>, "instance"))
            e == Call("ensure", Data)  b == Put(Data, Entry(<<c.slot>>, c.value))
            more == IF c.value = None THEN << >> ELSE <<e, b>>
<1>1. calls = Cat(<<a>>, more)  OBVIOUS
<1>2. /\ SoundCall(a) /\ ~ TreeCall(a) /\ TouchedBy(a) = {Instances}
      /\ \A m, x : Affects(a, m, x) <=> m = Instances /\ x = <<c.slot>>
  BY DataStoreAssumption, PutSays
<1>3. /\ SoundCall(e) /\ ~ TreeCall(e) /\ TouchedBy(e) = {Data}
      /\ \A m, x : ~ Affects(e, m, x)
  BY EnsureSays
<1>4. /\ SoundCall(b) /\ ~ TreeCall(b) /\ TouchedBy(b) = {Data}
      /\ \A m, x : Affects(b, m, x) <=> m = Data /\ x = <<c.slot>>
      /\ \A m, x, y : Supplies(b, m, x, y) <=> m = Data /\ x = <<c.slot>> /\ y = c.value
  BY DataStoreAssumption, PutSays
<1>. HIDE DEF a, e, b
<1>5. /\ IsSeq(more) /\ \A i \in DOMAIN more : more[i] \in {e, b}
      /\ c.value # None => \E i \in DOMAIN more : more[i] = b
  <2>1. CASE c.value = None  BY <2>1, SeqShort
  <2>2. CASE c.value # None
    <3>. DEFINE r == <<e, b>>
    <3>1. IsSeq(r) /\ DOMAIN r = 1..2 /\ r[1] = e /\ r[2] = b  BY SeqShort
    <3>2. more = r  BY <2>2
    <3>. HIDE DEF r, more
    <3>. QED  BY <3>1, <3>2
  <2>. QED  BY <2>1, <2>2
<1>. HIDE DEF more
<1>6. IsSeq(<<a>>) /\ DOMAIN <<a>> = 1..1 /\ <<a>>[1] = a  BY SeqShort
<1>7. /\ IsSeq(calls) /\ \A i \in DOMAIN calls : calls[i] \in {a, e, b}
      /\ c.value # None => \E i \in DOMAIN calls : calls[i] = b
  <2>. DEFINE one == <<a>>
  <2>1. IsSeq(one) /\ \A i \in DOMAIN one : one[i] = a  BY <1>6
  <2>2. calls = Cat(one, more)  BY <1>1
  <2>. HIDE DEF one
  <2>3. IsSeq(one) /\ IsSeq(more)  BY <2>1, <1>5
  <2>4. /\ IsSeq(calls)
        /\ \A i \in DOMAIN calls : (\E j \in DOMAIN one : calls[i] = one[j])
                                \/ \E j \in DOMAIN more : calls[i] = more[j]
        /\ \A j \in DOMAIN more : \E i \in DOMAIN calls : calls[i] = more[j]
    BY <2>2, <2>3, CatHas
  <2>5. ASSUME NEW i \in DOMAIN calls PROVE calls[i] \in {a, e, b}
    <3>1. CASE \E j \in DOMAIN one : calls[i] = one[j]  BY <2>1, <3>1
    <3>2. CASE \E j \in DOMAIN more : calls[i] = more[j]  BY <1>5, <3>2
    <3>. QED  BY <2>4, <3>1, <3>2
  <2>6. c.value # None => \E i \in DOMAIN calls : calls[i] = b  BY <2>4, <1>5
  <2>. QED  BY <2>4, <2>5, <2>6
<1>8. /\ TouchedBy(c) = {Contracts, Instances, Patches, Data}
      /\ \A x : x = <<c.slot>> => Affects(c, Instances, x) /\ Affects(c, Data, x)
  BY DEF TouchedBy, Affects
<1>9. \A n, k, v : Supplies(c, n, k, v) =>
          n = Data /\ c.value # None /\ k = <<c.slot>> /\ v = c.value
  <2>. SUFFICES ASSUME NEW n, NEW k, NEW v, Supplies(c, n, k, v)
       PROVE  n = Data /\ c.value # None /\ k = <<c.slot>> /\ v = c.value
    OBVIOUS
  <2>1. n = Data /\ c.value # None /\ Promise(c, n) = Entry(<<c.slot>>, c.value)
    BY PromiseIs, SeqShort DEF Supplies
  <2>2. DOMAIN Promise(c, n) = {<<c.slot>>} /\ Promise(c, n)[<<c.slot>>] = c.value  BY <2>1, EntryIs
  <2>3. k \in DOMAIN Promise(c, n) /\ Promise(c, n)[k] = v  BY DEF Supplies
  <2>4. k = <<c.slot>>  BY <2>2, <2>3
  <2>. QED  BY <2>1, <2>2, <2>3, <2>4
<1>10. Follows(c, a)  BY <1>2, <1>8, <1>9, DataStoreAssumption DEF Follows
<1>11. Follows(c, e)  BY <1>3, <1>8 DEF Follows
<1>12. Follows(c, b)  BY <1>4, <1>8, <1>9 DEF Follows
<1>13. \A i \in DOMAIN calls : Follows(c, calls[i])  BY <1>7, <1>10, <1>11, <1>12
<1>14. ASSUME NEW n, NEW k, NEW v, Supplies(c, n, k, v)
       PROVE  \E i \in DOMAIN calls : Supplies(calls[i], n, k, v)
  <2>1. PICK i \in DOMAIN calls : calls[i] = b  BY <1>7, <1>9, <1>14
  <2>2. Supplies(b, n, k, v)  BY <1>4, <1>9, <1>14
  <2>. QED  BY <2>1, <2>2
<1>. QED  BY <1>7, <1>13, <1>14 DEF Expands

LEMMA Twice ==
    \A j \in Nat : (2 * j) % 2 # 1 /\ ((2 * j) + 1) \div 2 = j
OBVIOUS

LEMMA ProposeExpands ==
    ASSUME ContractInv, NEW t, ReadContract(t), NEW c, c.do = "propose", IsFiniteSet(DOMAIN c.data),
           NEW order \in Orders(Accepted(TheContract, c.data))
    PROVE  Expands(c, WriteEach(c.data, order) \o Pending(c))
<1>. DEFINE w == WriteEach(c.data, order)  p == Pending(c)  now == Accepted(Contract, c.data)
            val(x) == ValueFor(Contract, c.data, x)  late == Waits(Contract, c.data)
            b == Put(Patches, Entry(<<c.id>>, c.data))
            Set(x) == Put(Data, Entry(<<x>>, val(x)))
<1>1. TheContract = Contract
  <2>1. Holds(disk[Contracts], <<"contract">>, disk[Contracts].entries[<<"contract">>])
    BY DEF ReadContract, Readable, Holds
  <2>. QED  BY <2>1 DEF ReadContract, TheContract, ContractInv, Sound
<1>2. IsFiniteSet(now)  BY AcceptedFinite
<1>3. /\ Len(order) \in Nat /\ DOMAIN order = 1..Len(order)
      /\ \A i \in DOMAIN order : order[i] \in now
      /\ \A k \in now : \E i \in DOMAIN order : order[i] = k
  BY <1>1, <1>2, OrderIs
<1>4. /\ IsSeq(w) /\ DOMAIN w = 1..(2 * Len(order))
      /\ \A i \in DOMAIN w : w[i] = IF i % 2 = 1 THEN Call("ensure", Data)
                                    ELSE PutNth(c.data, order, i)
  BY <1>3, WriteEachIs
<1>. HIDE DEF w
<1>5. ASSUME NEW i \in DOMAIN w
      PROVE  w[i] = Call("ensure", Data) \/ \E x \in now : w[i] = Set(x)
  <2>1. CASE i % 2 = 1  BY <1>4, <2>1
  <2>2. CASE i % 2 # 1
    <3>1. (i + 1) \div 2 \in DOMAIN order  BY <1>3, <1>4
    <3>2. w[i] = Set(order[(i + 1) \div 2])  BY <1>1, <1>4, <2>2 DEF PutNth
    <3>. QED  BY <1>3, <3>1, <3>2
  <2>. QED  BY <2>1, <2>2
<1>6. ASSUME NEW x \in now PROVE \E i \in DOMAIN w : w[i] = Set(x)
  <2>1. PICK j \in DOMAIN order : order[j] = x  BY <1>3
  <2>2. 2 * j \in DOMAIN w /\ (2 * j) % 2 # 1 /\ ((2 * j) + 1) \div 2 = j
    <3>1. j \in 1..Len(order) /\ j \in Nat  BY <1>3
    <3>2. 2 * j \in DOMAIN w  BY <1>3, <1>4, <3>1
    <3>. QED  BY <3>1, <3>2, Twice
  <2>3. w[2 * j] = Set(x)  BY <1>1, <1>4, <2>1, <2>2 DEF PutNth
  <2>. QED  BY <2>2, <2>3
<1>7. /\ IsSeq(p) /\ \A i \in DOMAIN p : p[i] = b
      /\ late => \E i \in DOMAIN p : p[i] = b
  BY <1>1, SeqShort DEF Pending
<1>. HIDE DEF p, now, late, b, Set, val
<1>. DEFINE calls == w \o p
<1>8. /\ IsSeq(calls)
      /\ \A i \in DOMAIN calls : calls[i] = Call("ensure", Data) \/ calls[i] = b
                                \/ \E x \in now : calls[i] = Set(x)
      /\ late => \E i \in DOMAIN calls : calls[i] = b
      /\ \A x \in now : \E i \in DOMAIN calls : calls[i] = Set(x)
  <2>1. IsSeq(w) /\ IsSeq(p)  BY <1>4, <1>7
  <2>a. calls = Cat(w, p)  BY DEF Cat
  <2>. HIDE DEF calls
  <2>2. /\ IsSeq(calls)
        /\ \A i \in DOMAIN calls : (\E j \in DOMAIN w : calls[i] = w[j]) \/ \E j \in DOMAIN p : calls[i] = p[j]
    BY <2>1, <2>a, CatHas
  <2>3. /\ \A j \in DOMAIN w : \E i \in DOMAIN calls : calls[i] = w[j]
        /\ \A j \in DOMAIN p : \E i \in DOMAIN calls : calls[i] = p[j]
    BY <2>1, <2>a, CatHas
  <2>4. \A x \in now : \E i \in DOMAIN calls : calls[i] = Set(x)  BY <1>6, <2>3
  <2>5. late => \E i \in DOMAIN calls : calls[i] = b  BY <1>7, <2>3
  <2>6. \A i \in DOMAIN calls : calls[i] = Call("ensure", Data) \/ calls[i] = b
                                \/ \E x \in now : calls[i] = Set(x)
    BY <1>5, <1>7, <2>2
  <2>. QED  BY <2>2, <2>4, <2>5, <2>6
<1>. HIDE DEF calls
<1>9. /\ SoundCall(b) /\ ~ TreeCall(b) /\ TouchedBy(b) = {Patches}
      /\ \A m, x : Affects(b, m, x) <=> m = Patches /\ x = <<c.id>>
      /\ \A m, x, y : Supplies(b, m, x, y) <=> m = Patches /\ x = <<c.id>> /\ y = c.data
  BY DataStoreAssumption, PutSays DEF b
<1>10. ASSUME NEW x
       PROVE  /\ SoundCall(Set(x)) /\ ~ TreeCall(Set(x)) /\ TouchedBy(Set(x)) = {Data}
              /\ \A m, y : Affects(Set(x), m, y) <=> m = Data /\ y = <<x>>
              /\ \A m, y, v : Supplies(Set(x), m, y, v) <=> m = Data /\ y = <<x>> /\ v = val(x)
  BY DataStoreAssumption, PutSays DEF Set
<1>11. /\ TouchedBy(c) = {Contracts, Instances, Patches, Data}
       /\ \A x : x = <<c.id>> => Affects(c, Patches, x)
       /\ \A x \in now : \A y : y = <<x>> => Affects(c, Data, y)
  BY DEF TouchedBy, Affects, now
<1>12. /\ \A k, v : Supplies(c, Data, k, v) <=> \E x \in now : k = <<x>> /\ v = val(x)
       /\ \A n, k, v : Supplies(c, n, k, v) =>
             \/ n = Data
             \/ n = Patches /\ k = <<c.id>> /\ v = c.data /\ late
  <2>1. \A k, v : Supplies(c, Data, k, v) <=> \E x \in now : k = <<x>> /\ v = val(x)
    BY AcceptedIs DEF now, val
  <2>2. ASSUME NEW n, NEW k, NEW v, Supplies(c, n, k, v), n # Data
        PROVE  n = Patches /\ k = <<c.id>> /\ v = c.data /\ late
    <3>1. n = Patches /\ Promise(c, n) = Entry(<<c.id>>, c.data) /\ late
      BY <2>2, PromiseIs, SeqShort DEF Supplies, late
    <3>2. DOMAIN Promise(c, n) = {<<c.id>>} /\ Promise(c, n)[<<c.id>>] = c.data  BY <3>1, EntryIs
    <3>3. k \in DOMAIN Promise(c, n) /\ Promise(c, n)[k] = v  BY <2>2 DEF Supplies
    <3>4. k = <<c.id>>  BY <3>2, <3>3
    <3>. QED  BY <3>1, <3>2, <3>3, <3>4
  <2>. QED  BY <2>1, <2>2
<1>13. Follows(c, Call("ensure", Data))
  <2>1. TouchedBy(Call("ensure", Data)) \subseteq TouchedBy(c)  BY <1>11, EnsureSays
  <2>. QED  BY <2>1, EnsureSays DEF Follows
<1>14. Follows(c, b)  BY <1>9, <1>11, <1>12, DataStoreAssumption DEF Follows
<1>15. ASSUME NEW x \in now PROVE Follows(c, Set(x))
  <2>1. \A v : Supplies(c, Data, <<x>>, v) => v = val(x)
    <3>1. \A y : <<y>> = <<x>> => y = x  OBVIOUS
    <3>. QED  BY <3>1, <1>12
  <2>. QED  BY <2>1, <1>10, <1>11 DEF Follows
<1>16. \A i \in DOMAIN calls : Follows(c, calls[i])  BY <1>8, <1>13, <1>14, <1>15
<1>17. \A n, k, v : Supplies(c, n, k, v) => \E i \in DOMAIN calls : Supplies(calls[i], n, k, v)
  BY <1>8, <1>9, <1>10, <1>12
<1>. QED  BY <1>8, <1>16, <1>17 DEF Expands, calls, w, p
-------------------------------------------------------------------------------
(* What a step makes of its thread that leaves the files on disk alone.        *)
Between == {"call", "commit", "revparse"}
Done1 == {"commit", "branch", "rollback", "checkout"}
CallStep(th, nt) ==
    \/ nt = Idle
    \/ /\ th.todo # << >> /\ nt.asked = th.asked /\ th.pc \in Between /\ nt.pc \in Between
       /\ \/ nt.todo = th.todo
          \/ nt.todo = Tail(th.todo) /\ th.todo[1].do \in Done1
          \/ \E calls : Expands(th.todo[1], calls) /\ nt.todo = calls \o Tail(th.todo)

LEMMA ContinueIs ==
    ASSUME Inv, NEW t \in Threads, thread[t].pc = "call", thread[t].todo # << >>,
           NEW calls, Continue(t, calls), Expands(Call1(t), calls)
    PROVE  CallStep(thread[t], thread'[t])
<1>. DEFINE th == thread[t]  nt == thread'[t]
<1>1. t \in All  BY DEF All
<1>2. t \in DOMAIN thread /\ DOMAIN th = Fields /\ Call1(t) = th.todo[1]  BY <1>1, AtIs DEF Inv
<1>3. nt = [th EXCEPT !.todo = calls \o Tail(@)]  BY <1>2 DEF Continue
<1>. HIDE DEF nt
<1>4. nt.pc = th.pc /\ nt.asked = th.asked /\ nt.todo = calls \o Tail(th.todo)
  BY <1>2, <1>3 DEF Fields
<1>5. \E x : Expands(th.todo[1], x) /\ nt.todo = x \o Tail(th.todo)  BY <1>2, <1>4
<1>. QED  BY <1>4, <1>5 DEF CallStep, Between, nt

LEMMA AdvanceIs ==
    ASSUME Inv, NEW t \in Threads, thread[t].pc \in Between, thread[t].todo # << >>,
           Call1(t).do \in Done1, Advance(t)
    PROVE  CallStep(thread[t], thread'[t])
<1>1. t \in All /\ thread[t].pc # "idle"  BY DEF All, Between
<1>2. /\ thread'[t].pc = "call" /\ thread'[t].todo = Tail(thread[t].todo)
      /\ thread'[t].asked = thread[t].asked
  BY <1>1, AdvanceMoves DEF Inv
<1>3. Call1(t) = thread[t].todo[1]  BY <1>1, AtIs DEF Inv
<1>. QED  BY <1>2, <1>3 DEF CallStep, Between

LEMMA GoIs ==
    ASSUME Inv, NEW t \in Threads, thread[t].pc \in Between, thread[t].todo # << >>,
           Call1(t).do = "commit", NEW p \in {"commit", "revparse"}, Go(t, p)
    PROVE  CallStep(thread[t], thread'[t])
<1>1. t \in All /\ thread[t].pc # "idle"  BY DEF All, Between
<1>2. thread'[t].pc = p /\ thread'[t].todo = thread[t].todo /\ thread'[t].asked = thread[t].asked
  BY <1>1, GoMoves DEF Inv
<1>. QED  BY <1>2 DEF CallStep, Between

LEMMA FailIs ==
    ASSUME Inv, NEW t \in Threads, Fail(t)
    PROVE  CallStep(thread[t], thread'[t]) /\ thread'[t] = Idle
BY DEF Fail, CallStep, Inv, TypeOK, All

LEMMA CommitAt ==
    ASSUME Inv, NEW t \in Threads, thread[t].pc \in {"commit", "revparse"}
    PROVE  thread[t].todo # << >> /\ Call1(t).do = "commit" /\ thread[t].pc \in Between
BY AtIs DEF Inv, All, Placed, Between

LEMMA CallCases ==
    ASSUME Inv, ContractInv, NEW t \in Threads,
           Bind(t) \/ Propose(t) \/ LogParent(t) \/ AddAll(t) \/ Commit(t) \/ RevParse(t) \/ CreateBranch(t)
    PROVE  /\ CallStep(thread[t], thread'[t]) /\ UNCHANGED <<disk, promised, met>>
           /\ index' \in {index, disk} /\ Keeps
<1>. DEFINE c == Call1(t)
<1>0. t \in All  BY DEF All
<1>1. UNCHANGED <<disk, promised, met>> /\ index' \in {index, disk} /\ Keeps
  <2>1. Keeps  BY ActsSteps DEF Acts, Repository
  <2>. QED  BY <2>1 DEF Bind, Propose, LogParent, AddAll, Commit, RevParse, CreateBranch, ghosts, git
<1>2. CASE Bind(t)
  <2>1. thread[t].pc = "call" /\ thread[t].todo # << >> /\ c.do = "bind"  BY <1>0, <1>2, CallAt DEF Bind
  <2>. DEFINE calls == <<Put(Instances, Entry(<<c.slot>>, "instance"))>> \o
                IF c.value = None THEN << >>
                ELSE <<Call("ensure", Data), Put(Data, Entry(<<c.slot>>, c.value))>>
  <2>2. Fail(t) \/ Continue(t, calls)  BY <1>2 DEF Bind
  <2>3. Expands(c, calls)  BY <2>1, BindExpands DEF Cat
  <2>. HIDE DEF calls
  <2>. QED  BY <1>1, <2>1, <2>2, <2>3, FailIs, ContinueIs
<1>3. CASE Propose(t)
  <2>1. /\ thread[t].pc = "call" /\ thread[t].todo # << >> /\ c.do = "propose"
        /\ CallOK(c, sent, Len(commits))
    BY <1>0, <1>3, CallAt DEF Propose
  <2>2. \/ Fail(t)
        \/ ReadContract(t) /\ \E order \in Orders(Accepted(TheContract, c.data)) :
                Continue(t, WriteEach(c.data, order) \o Pending(c))
    BY <1>3 DEF Propose
  <2>3. CASE Fail(t)  BY <1>1, <2>3, FailIs
  <2>4. ASSUME ReadContract(t), NEW order \in Orders(Accepted(TheContract, c.data)),
               Continue(t, WriteEach(c.data, order) \o Pending(c))
        PROVE  CallStep(thread[t], thread'[t])
    <3>1. IsFiniteSet(DOMAIN c.data)  BY <2>1 DEF CallOK
    <3>. DEFINE calls == WriteEach(c.data, order) \o Pending(c)
    <3>2. Expands(c, calls)  BY <2>1, <2>4, <3>1, ProposeExpands
    <3>3. Continue(t, calls)  BY <2>4
    <3>. HIDE DEF calls
    <3>. QED  BY <2>1, <3>2, <3>3, ContinueIs
  <2>. QED  BY <1>1, <2>2, <2>3, <2>4
<1>4. CASE LogParent(t)
  <2>1. /\ thread[t].pc = "call" /\ thread[t].todo # << >> /\ c.do = "log" /\ c = thread[t].todo[1]
        /\ CallOK(c, sent, Len(commits))
    BY <1>0, <1>4, CallAt DEF LogParent
  <2>. DEFINE calls == <<Put(c.file, Entry(<<c.id>>, [parent |-> at, branch |-> head]))>>
  <2>2. Expands(c, calls)  BY <2>1, LogExpands DEF CallOK
  <2>3. /\ thread'[t].pc = "call" /\ thread'[t].asked = thread[t].asked
        /\ thread'[t].todo = calls \o Tail(thread[t].todo)
    BY <1>4, LogParentStep
  <2>. HIDE DEF calls, c
  <2>4. \E x : Expands(thread[t].todo[1], x) /\ thread'[t].todo = x \o Tail(thread[t].todo)
    BY <2>1, <2>2, <2>3
  <2>5. CallStep(thread[t], thread'[t])  BY <2>1, <2>3, <2>4 DEF CallStep, Between
  <2>. QED  BY <1>1, <2>5
<1>5. CASE AddAll(t)
  <2>1. thread[t].pc = "call" /\ thread[t].todo # << >> /\ c.do = "commit"
    BY <1>0, <1>5, CallAt DEF AddAll
  <2>2. Go(t, "commit") \/ Fail(t)  BY <1>5 DEF AddAll
  <2>. QED  BY <1>1, <2>1, <2>2, FailIs, GoIs DEF Between
<1>6. CASE Commit(t)
  <2>1. thread[t].todo # << >> /\ c.do = "commit" /\ thread[t].pc \in Between
    BY <1>6, CommitAt DEF Commit
  <2>2. Advance(t) \/ Go(t, "revparse") \/ Fail(t)  BY <1>6 DEF Commit
  <2>. QED  BY <1>1, <2>1, <2>2, FailIs, GoIs, AdvanceIs DEF Done1
<1>7. CASE RevParse(t)
  <2>1. thread[t].todo # << >> /\ c.do = "commit" /\ thread[t].pc \in Between
    BY <1>7, CommitAt DEF RevParse
  <2>2. c = thread[t].todo[1]  BY <1>0, <2>1, AtIs DEF Inv
  <2>3. /\ thread'[t].pc = "call" /\ thread'[t].asked = thread[t].asked
        /\ thread'[t].todo = Tail(thread[t].todo)
    <3>1. t \in DOMAIN thread /\ DOMAIN thread[t] = Fields  BY <1>0, AtIs DEF Inv
    <3>2. thread'[t] = [thread[t] EXCEPT !.pc = "call", !.todo = Tail(@),
           !.revision = IF @ = None THEN None ELSE [@ EXCEPT !.commit = at]]
      BY <1>7, <3>1 DEF RevParse
    <3>. QED  BY <3>1, <3>2 DEF Fields
  <2>. QED  BY <1>1, <2>1, <2>2, <2>3 DEF CallStep, Done1, Between
<1>8. CASE CreateBranch(t)
  <2>1. thread[t].pc = "call" /\ thread[t].todo # << >> /\ c.do = "branch"
    BY <1>0, <1>8, CallAt DEF CreateBranch
  <2>2. Advance(t) \/ Fail(t)  BY <1>8 DEF CreateBranch
  <2>. QED  BY <1>1, <2>1, <2>2, FailIs, AdvanceIs DEF Between, Done1
<1>. QED  BY <1>2, <1>3, <1>4, <1>5, <1>6, <1>7, <1>8

LEMMA CallsTo ==
    ASSUME NEW th, NEW nt, NEW s, NEW m, Placed(th, s, m), CallStep(th, nt), nt # Idle
    PROVE  /\ 1 \in DOMAIN th.todo /\ nt.asked = th.asked /\ th.pc \in Between /\ nt.pc \in Between
           /\ \A i \in DOMAIN nt.todo :
                 \/ \E j \in DOMAIN th.todo : nt.todo[i] = th.todo[j]
                 \/ Follows(th.todo[1], nt.todo[i])
           /\ \A j \in DOMAIN th.todo :
                 \/ \E i \in DOMAIN nt.todo : nt.todo[i] = th.todo[j]
                 \/ /\ j = 1
                    /\ \A n, k, v : Supplies(th.todo[1], n, k, v) =>
                          \E i \in DOMAIN nt.todo : Supplies(nt.todo[i], n, k, v)
<1>1. th.todo # << >> /\ nt.asked = th.asked /\ th.pc \in Between /\ nt.pc \in Between  BY DEF CallStep
<1>. DEFINE rest == Tail(th.todo)
<1>2. /\ 1 \in DOMAIN th.todo /\ IsSeq(rest)
      /\ \A i \in DOMAIN rest : i + 1 \in DOMAIN th.todo /\ rest[i] = th.todo[i + 1]
      /\ \A j \in DOMAIN th.todo : j = 1 \/ \E i \in DOMAIN rest : rest[i] = th.todo[j]
  BY <1>1, HeadIs
<1>. HIDE DEF rest
<1>3. CASE nt.todo = th.todo  BY <1>1, <1>2, <1>3
<1>4. CASE nt.todo = rest /\ th.todo[1].do \in Done1
  <2>1. \A n, k, v : ~ Supplies(th.todo[1], n, k, v)  BY <1>4, NothingPromised DEF Done1
  <2>. QED  BY <1>1, <1>2, <1>4, <2>1
<1>5. ASSUME NEW calls, Expands(th.todo[1], calls), nt.todo = calls \o rest
      PROVE  /\ \A i \in DOMAIN nt.todo :
                   \/ \E j \in DOMAIN th.todo : nt.todo[i] = th.todo[j]
                   \/ Follows(th.todo[1], nt.todo[i])
             /\ \A j \in DOMAIN th.todo :
                   \/ \E i \in DOMAIN nt.todo : nt.todo[i] = th.todo[j]
                   \/ /\ j = 1
                      /\ \A n, k, v : Supplies(th.todo[1], n, k, v) =>
                            \E i \in DOMAIN nt.todo : Supplies(nt.todo[i], n, k, v)
  <2>. DEFINE r == Cat(calls, rest)
  <2>1. IsSeq(calls) /\ \A i \in DOMAIN calls : Follows(th.todo[1], calls[i])  BY <1>5 DEF Expands
  <2>2. /\ \A i \in DOMAIN r : (\E j \in DOMAIN calls : r[i] = calls[j])
                             \/ \E j \in DOMAIN rest : r[i] = rest[j]
        /\ \A j \in DOMAIN calls : \E i \in DOMAIN r : r[i] = calls[j]
        /\ \A j \in DOMAIN rest : \E i \in DOMAIN r : r[i] = rest[j]
    <3>1. IsSeq(calls) /\ IsSeq(rest)  BY <1>2, <2>1
    <3>. QED  BY <3>1, CatHas
  <2>3. nt.todo = r  BY <1>5 DEF Cat
  <2>. HIDE DEF r
  <2>4. \A i \in DOMAIN r : (\E j \in DOMAIN th.todo : r[i] = th.todo[j]) \/ Follows(th.todo[1], r[i])
    BY <1>2, <2>1, <2>2
  <2>5. \A n, k, v : Supplies(th.todo[1], n, k, v) => \E i \in DOMAIN r : Supplies(r[i], n, k, v)
    <3>1. ASSUME NEW n, NEW k, NEW v, Supplies(th.todo[1], n, k, v)
          PROVE  \E i \in DOMAIN r : Supplies(r[i], n, k, v)
      <4>1. PICK j \in DOMAIN calls : Supplies(calls[j], n, k, v)  BY <1>5, <3>1 DEF Expands
      <4>2. PICK i \in DOMAIN r : r[i] = calls[j]  BY <2>2
      <4>. QED  BY <4>1, <4>2
    <3>. QED  BY <3>1
  <2>6. \A j \in DOMAIN th.todo : j # 1 => \E i \in DOMAIN r : r[i] = th.todo[j]  BY <1>2, <2>2
  <2>. QED  BY <2>3, <2>4, <2>5, <2>6
<1>. QED  BY <1>1, <1>2, <1>3, <1>4, <1>5 DEF CallStep, rest

LEMMA CallKept ==
    ASSUME NEW th, NEW nt, NEW s, NEW m, Placed(th, s, m), CallStep(th, nt), SoundThread(th)
    PROVE  /\ SoundThread(nt) /\ \A n : ~ Saving(nt, n)
           /\ Within(th) => Within(nt)
           /\ \A n, k : (\A i \in DOMAIN th.todo : ~ Affects(th.todo[i], n, k)) =>
                 \A i \in DOMAIN nt.todo : ~ Affects(nt.todo[i], n, k)
<1>i. CASE nt = Idle
  <2>1. nt.todo = << >> /\ nt.pc = "idle"  BY <1>i, IdleIs
  <2>. QED  BY <1>i, <2>1, WithinIdle, SeqShort DEF Saving
<1>n. CASE nt # Idle
  <2>1. /\ 1 \in DOMAIN th.todo /\ nt.asked = th.asked /\ nt.pc \in Between
        /\ \A i \in DOMAIN nt.todo :
              \/ \E j \in DOMAIN th.todo : nt.todo[i] = th.todo[j]
              \/ Follows(th.todo[1], nt.todo[i])
    BY <1>n, CallsTo
  <2>2. \A n : ~ Saving(nt, n)  BY <2>1 DEF Saving, Between
  <2>3. SoundThread(nt)
    <3>1. \A i \in DOMAIN nt.todo : SoundCall(nt.todo[i])  BY <2>1 DEF SoundThread, Follows
    <3>. QED  BY <2>1, <2>2, <3>1 DEF SoundThread, Between
  <2>4. ASSUME Within(th) PROVE Within(nt)
    <3>1. \A i \in DOMAIN nt.todo : \E j \in DOMAIN th.todo : TouchedBy(nt.todo[i]) \subseteq TouchedBy(th.todo[j])
      BY <2>1 DEF Follows
    <3>2. Touched(nt.todo) \subseteq Touched(th.todo)  BY <3>1 DEF Touched
    <3>3. (\E i \in DOMAIN nt.todo : TreeCall(nt.todo[i])) => \E i \in DOMAIN th.todo : TreeCall(th.todo[i])
      BY <2>1 DEF Follows
    <3>. QED  BY <2>1, <2>4, <3>2, <3>3 DEF Within
  <2>5. ASSUME NEW n, NEW k, \A i \in DOMAIN th.todo : ~ Affects(th.todo[i], n, k)
        PROVE  \A i \in DOMAIN nt.todo : ~ Affects(nt.todo[i], n, k)
    BY <2>1, <2>5 DEF Follows
  <2>. QED  BY <2>2, <2>3, <2>4, <2>5
<1>. QED  BY <1>i, <1>n

LEMMA CallPledge ==
    ASSUME NEW th, NEW nt, NEW s, NEW m, Placed(th, s, m), CallStep(th, nt), nt # Idle,
           NEW d, NEW n, NEW k, NEW v, Pledge(th, d, n, k, v)
    PROVE  Pledge(nt, d, n, k, v)
<1>1. /\ 1 \in DOMAIN th.todo /\ th.pc \in Between /\ nt.pc \in Between
      /\ \A i \in DOMAIN nt.todo :
            \/ \E j \in DOMAIN th.todo : nt.todo[i] = th.todo[j]
            \/ Follows(th.todo[1], nt.todo[i])
      /\ \A j \in DOMAIN th.todo :
            \/ \E i \in DOMAIN nt.todo : nt.todo[i] = th.todo[j]
            \/ /\ j = 1
               /\ \A x, y, z : Supplies(th.todo[1], x, y, z) =>
                     \E i \in DOMAIN nt.todo : Supplies(nt.todo[i], x, y, z)
  BY CallsTo
<1>2. \A j \in DOMAIN th.todo : Affects(th.todo[j], n, k) => Supplies(th.todo[j], n, k, v)
  BY DEF Pledge
<1>3. ASSUME NEW i \in DOMAIN nt.todo, Affects(nt.todo[i], n, k)
      PROVE  Supplies(nt.todo[i], n, k, v)
  <2>1. CASE \E j \in DOMAIN th.todo : nt.todo[i] = th.todo[j]  BY <1>2, <1>3, <2>1
  <2>2. CASE Follows(th.todo[1], nt.todo[i])
    <3>1. Supplies(th.todo[1], n, k, v)  BY <1>1, <1>2, <1>3, <2>2 DEF Follows
    <3>. QED  BY <1>3, <2>2, <3>1 DEF Follows
  <2>. QED  BY <1>1, <2>1, <2>2
<1>4. CASE Coming(th, n, k, v)
  <2>1. PICK j \in DOMAIN th.todo : Supplies(th.todo[j], n, k, v)  BY <1>4 DEF Coming
  <2>2. \E i \in DOMAIN nt.todo : Supplies(nt.todo[i], n, k, v)  BY <1>1, <2>1
  <2>. QED  BY <1>3, <2>2 DEF Pledge, Coming
<1>5. CASE Landed(th, d, n, k, v)
  <2>1. Landed(nt, d, n, k, v)  BY <1>1, <1>5 DEF Landed, Held, Saving, Between
  <2>. QED  BY <1>3, <2>1 DEF Pledge
<1>. QED  BY <1>4, <1>5 DEF Pledge

LEMMA CallStepDurable ==
    ASSUME Inv, Durable, NEW t \in Threads, CallStep(thread[t], thread'[t]), Only(t),
           UNCHANGED <<disk, promised, met>>, index' \in {index, disk}, Keeps
    PROVE  Durable'
<1>. DEFINE th == thread[t]  nt == thread'[t]  m == Len(commits)
<1>0. t \in All  BY DEF All
<1>1. CallStep(th, nt)  OBVIOUS
<1>3. \A u \in All : u # t => thread'[u] = thread[u]  BY DEF Only
<1>4. Placed(th, sent, m) /\ SoundThread(th) /\ Within(th)
  BY <1>0 DEF Inv, PlaceInv, Durable, ThreadInv
<1>. HIDE DEF th, nt, m
<1>5. /\ SoundThread(nt) /\ (\A n : ~ Saving(nt, n)) /\ Within(nt)
      /\ \A n, k : (\A i \in DOMAIN th.todo : ~ Affects(th.todo[i], n, k)) =>
            \A i \in DOMAIN nt.todo : ~ Affects(nt.todo[i], n, k)
  BY <1>1, <1>4, CallKept
<1>6. ContractInv'
  <2>1. Sound(disk'[Contracts]) /\ Sound(index'[Contracts])  BY DEF Durable, ContractInv
  <2>2. \A c \in DOMAIN commits' : Sound(commits'[c].tree[Contracts])
    <3>1. CASE commits' = commits  BY <3>1 DEF Durable, ContractInv
    <3>2. CASE Adds(commits, at, index, commits')
      <4>1. \A c \in DOMAIN commits' :
                \/ c \in DOMAIN commits /\ commits'[c] = commits[c]
                \/ commits'[c].tree = index
        BY <3>2, GrownIs
      <4>. QED  BY <4>1 DEF Durable, ContractInv
    <3>. QED  BY <3>1, <3>2 DEF Keeps
  <2>. QED  BY <2>1, <2>2 DEF ContractInv
<1>7. ThreadInv'  BY <1>3, <1>5 DEF Durable, ThreadInv, nt, All
<1>8. SafeInv'
  <2>. SUFFICES ASSUME NEW n \in Names, NEW k \in DOMAIN promised[n], NEW u \in All
       PROVE  /\ Held(thread'[u], disk[n], n, k, promised[n][k].value)
              /\ \A i \in DOMAIN thread'[u].todo : ~ Affects(thread'[u].todo[i], n, k)
    BY DEF SafeInv
  <2>1. /\ Held(thread[u], disk[n], n, k, promised[n][k].value)
        /\ \A i \in DOMAIN thread[u].todo : ~ Affects(thread[u].todo[i], n, k)
    BY DEF Durable, SafeInv
  <2>2. CASE u = t  BY <1>5, <2>1, <2>2 DEF Held, th, nt
  <2>3. CASE u # t  BY <1>3, <2>1, <2>3
  <2>. QED  BY <2>2, <2>3
<1>9. PledgeInv'
  <2>. SUFFICES ASSUME NEW u \in Threads, NEW n \in Names, u \notin met',
                       NEW i \in DOMAIN thread'[u].asked,
                       NEW k \in DOMAIN Promise(thread'[u].asked[i], n)
       PROVE  Pledge(thread'[u], disk[n], n, k, Promise(thread'[u].asked[i], n)[k])
    BY DEF PledgeInv
  <2>1. CASE u = t
    <3>1. nt # Idle  BY <2>1, IdleIs, SeqShort DEF nt
    <3>2. nt.asked = th.asked  BY <1>1, <3>1 DEF CallStep
    <3>3. Pledge(th, disk[n], n, k, Promise(th.asked[i], n)[k])
      BY <2>1, <3>2 DEF Durable, PledgeInv, nt, th
    <3>4. Pledge(nt, disk[n], n, k, Promise(th.asked[i], n)[k])
      BY <1>1, <1>4, <3>1, <3>3, CallPledge
    <3>. QED  BY <2>1, <3>2, <3>4 DEF nt
  <2>2. CASE u # t
    <3>1. thread'[u] = thread[u]  BY <1>3, <2>2 DEF All
    <3>. QED  BY <3>1 DEF Durable, PledgeInv
  <2>. QED  BY <2>1, <2>2
<1>. QED  BY <1>6, <1>7, <1>8, <1>9 DEF Durable

LEMMA CallDurable ==
    ASSUME Inv, Durable, NEW t \in Threads,
           Bind(t) \/ Propose(t) \/ LogParent(t) \/ AddAll(t) \/ Commit(t) \/ RevParse(t) \/ CreateBranch(t)
    PROVE  Durable'
<1>1. /\ CallStep(thread[t], thread'[t]) /\ UNCHANGED <<disk, promised, met>>
      /\ index' \in {index, disk} /\ Keeps
  BY CallCases DEF Durable
<1>2. Only(t)  BY ActsSteps DEF Acts, Repository, Steps, Moves
<1>. QED  BY <1>1, <1>2, CallStepDurable

\* Git brings files of a commit back: whoever asked for it is alone, and what was
\* promised is over.
LEMMA TreeMoves ==
    ASSUME Inv, Durable, NEW t \in Threads, AtCall(t, {"rollback", "checkout"}), Advance(t),
           UNCHANGED <<commits, met>>, promised' = [n \in Names |-> << >>], NEW c \in DOMAIN commits,
           \A n \in Names : /\ disk'[n] \in {disk[n], commits[c].tree[n]}
                            /\ index'[n] \in {index[n], commits[c].tree[n]}
    PROVE  Durable'
<1>. DEFINE th == thread[t]  nt == thread'[t]  m == Len(commits)
<1>0. t \in All  BY DEF All
<1>1. /\ th.pc = "call" /\ th.todo # << >> /\ 1 \in DOMAIN th.todo
      /\ Call1(t) = th.todo[1] /\ th.todo[1].do \in {"rollback", "checkout"}
  BY <1>0, CallAt
<1>2. CallStep(th, nt)  BY <1>1, AdvanceIs DEF Between, Done1
<1>3. Only(t) /\ nt.asked = th.asked  BY <1>0, <1>1, AdvanceMoves DEF Moves, Inv
<1>4. \A u \in All : u # t => thread'[u] = thread[u]  BY <1>3 DEF Only
<1>5. Placed(th, sent, m) /\ SoundThread(th) /\ Within(th)
  BY <1>0 DEF Inv, PlaceInv, Durable, ThreadInv
<1>6. MovesTree(th.asked) /\ \A j \in DOMAIN th.asked : TreeCall(th.asked[j])
  BY <1>1, <1>5 DEF Within, TreeCall
<1>. HIDE DEF th, nt, m
<1>7. SoundThread(nt) /\ Within(nt)  BY <1>2, <1>5, CallKept
<1>8. ContractInv'
  <2>1. Sound(disk'[Contracts]) /\ Sound(index'[Contracts])
    BY NamesAre DEF Durable, ContractInv
  <2>. QED  BY <2>1 DEF Durable, ContractInv
<1>9. ThreadInv'  BY <1>4, <1>7 DEF Durable, ThreadInv, nt, All
<1>10. SafeInv'
  <2>1. \A n \in Names : DOMAIN promised'[n] = {}  BY SeqShort
  <2>. QED  BY <2>1 DEF SafeInv
<1>11. PledgeInv'
  <2>. SUFFICES ASSUME NEW u \in Threads, NEW n \in Names, u \notin met',
                       NEW i \in DOMAIN thread'[u].asked,
                       NEW k \in DOMAIN Promise(thread'[u].asked[i], n)
       PROVE  FALSE
    BY DEF PledgeInv
  <2>1. CASE u = t
    <3>1. i \in DOMAIN th.asked /\ k \in DOMAIN Promise(th.asked[i], n)  BY <1>3, <2>1 DEF nt
    <3>2. th.asked[i].do \in {"rollback", "checkout"}  BY <1>6, <3>1 DEF TreeCall
    <3>. QED  BY <3>1, <3>2, NothingPromised
  <2>2. CASE u # t
    <3>1. thread[u].asked # << >>  BY <1>4, <2>2, SeqShort DEF All
    <3>2. thread[t].pc # "idle"  BY <1>1 DEF th
    <3>3. ~ MovesTree(thread[t].asked)  BY <1>0, <2>2, <3>1, <3>2, ApartNow DEF Durable
    <3>. QED  BY <1>6, <3>3 DEF th
  <2>. QED  BY <2>1, <2>2
<1>. QED  BY <1>8, <1>9, <1>10, <1>11 DEF Durable

LEMMA RollbackDurable ==
    ASSUME Inv, Durable, NEW t \in Threads, Rollback(t)
    PROVE  Durable'
<1>. DEFINE ref == Call1(t).ref  tree == commits[ref].tree
<1>1. AtCall(t, {"rollback"})  BY DEF Rollback
<1>2. ref \in DOMAIN commits
  <2>1. Call1(t).do = "rollback" /\ CallOK(Call1(t), sent, Len(commits))
    BY <1>1, CallAt DEF All
  <2>. QED  BY <2>1, GraphLen DEF CallOK, Inv, TypeOK, HistoryInv
<1>3. /\ disk' = [f \in Files |-> IF tree[f] # Absent THEN tree[f] ELSE disk[f]]
      /\ index' = [f \in Files |-> IF tree[f] # Absent THEN tree[f] ELSE index[f]]
      /\ Advance(t) /\ UNCHANGED <<commits, met>> /\ promised' = [n \in Names |-> << >>]
  BY DEF Rollback
<1>4. AtCall(t, {"rollback", "checkout"})  BY <1>1, AtCallAny
<1>. HIDE DEF ref
<1>5. \A n \in Names : /\ disk'[n] \in {disk[n], commits[ref].tree[n]}
                       /\ index'[n] \in {index[n], commits[ref].tree[n]}
  BY <1>3, NamesAre, Zenon
<1>. QED  BY <1>2, <1>3, <1>4, <1>5, TreeMoves

LEMMA CheckoutDurable ==
    ASSUME Inv, Durable, NEW t \in Threads, Checkout(t)
    PROVE  Durable'
<1>. DEFINE ref == Call1(t).ref
            goal == IF ref \in Branches THEN tip[ref] ELSE ref
            old == commits[at].tree
            new == commits[goal].tree
            moved == {f \in Files : old[f] # new[f] /\ index[f] # new[f]}
<1>1. AtCall(t, {"checkout"}) /\ UNCHANGED <<commits, met>>  BY Zenon DEF Checkout
<1>2. goal # 0 => goal \in DOMAIN commits
  <2>1. DOMAIN commits = 1..Len(commits) /\ Len(commits) \in Nat
    BY GraphLen DEF Inv, TypeOK, HistoryInv
  <2>2. ref \in Branches \cup 1..Len(commits)
    <3>1. Call1(t).do = "checkout" /\ CallOK(Call1(t), sent, Len(commits))
      BY <1>1, CallAt DEF All
    <3>. QED  BY <3>1 DEF CallOK
  <2>3. \A b \in Branches : tip[b] \in 0..Len(commits)  BY DEF Inv, TypeOK, HistoryInv
  <2>. HIDE DEF ref
  <2>4. goal \in 0..Len(commits)  BY <2>1, <2>2, <2>3
  <2>. HIDE DEF goal
  <2>. QED  BY <2>1, <2>4
<1>3. CASE Fail(t) /\ UNCHANGED <<disk, index, promised>>
  <2>1. CallStep(thread[t], thread'[t])  BY <1>3, FailIs
  <2>2. Only(t)  BY <1>3 DEF Fail, Only, Inv, TypeOK
  <2>. QED  BY <1>1, <1>3, <2>1, <2>2, CallStepDurable DEF Keeps
<1>4. CASE /\ goal # 0 /\ Advance(t) /\ promised' = [n \in Names |-> << >>]
           /\ disk' = [f \in Files |-> IF f \in moved THEN new[f] ELSE disk[f]]
           /\ index' = [f \in Files |-> IF f \in moved THEN new[f] ELSE index[f]]
  <2>1. goal \in DOMAIN commits  BY <1>2, <1>4
  <2>2. AtCall(t, {"rollback", "checkout"})  BY <1>1, AtCallAny
  <2>. HIDE DEF moved, goal
  <2>3. \A n \in Names : /\ disk'[n] \in {disk[n], commits[goal].tree[n]}
                         /\ index'[n] \in {index[n], commits[goal].tree[n]}
    BY <1>4, NamesAre
  <2>. QED  BY <1>1, <1>4, <2>1, <2>2, <2>3, TreeMoves
<1>. QED  BY <1>3, <1>4, Zenon DEF Checkout
-------------------------------------------------------------------------------
(* Answers.                                                                    *)
LEMMA AnsweredIs ==
    ASSUME NEW todo, IsSeq(todo), NEW n, NEW k \in DOMAIN Answered(todo, n)
    PROVE  \E i \in DOMAIN todo : /\ k \in DOMAIN Promise(todo[i], n)
                                  /\ Answered(todo, n)[k].value = Promise(todo[i], n)[k]
<1>. DEFINE all == [i \in DOMAIN todo |-> Promise(todo[i], n)]
            P(i) == all[i] # << >> \/ \A j \in DOMAIN todo : all[j] = << >>
            best == CHOOSE i \in DOMAIN todo : P(i)
            last == IF todo = << >> THEN << >> ELSE all[best]
            schema == IF Readable(n) THEN disk[n].schema ELSE None
<1>1. Answered(todo, n) = [x \in DOMAIN last |-> [value |-> last[x], schema |-> schema]]
  BY DEF Answered
<1>2. k \in DOMAIN last /\ Answered(todo, n)[k].value = last[k]
  <2>. HIDE DEF last, schema
  <2>. QED  BY <1>1
<1>3. todo # << >>  BY <1>2, SeqShort
<1>4. 1 \in DOMAIN todo  BY <1>3, SeqTail
<1>5. \E i \in DOMAIN todo : P(i)  BY <1>4
<1>6. best \in DOMAIN todo  BY <1>5
<1>7. last = Promise(todo[best], n)
  <2>1. last = all[best]  BY <1>3
  <2>. HIDE DEF best
  <2>. QED  BY <2>1, <1>6
<1>. HIDE DEF last, best
<1>. QED  BY <1>2, <1>6, <1>7

LEMMA RespondDurable ==
    ASSUME Inv, Durable, NEW t \in Threads, Respond(t)
    PROVE  Durable'
<1>. DEFINE th == thread[t]  nt == thread'[t]
<1>0. t \in All  BY DEF All
<1>1. /\ th.pc = "call" /\ th.todo = << >> /\ UNCHANGED <<disk, index, commits>>
      /\ UNCHANGED met
      /\ \/ t \in met /\ UNCHANGED promised
         \/ t \notin met /\ promised' = [n \in Names |-> Over(Answered(th.asked, n), promised[n])]
  BY DEF Respond, git
<1>2. nt = Idle /\ \A u \in All : u # t => thread'[u] = thread[u]
  BY <1>0 DEF Respond, Inv, TypeOK
<1>. HIDE DEF th, nt
<1>3. Within(th)  BY DEF Durable, ThreadInv, th
<1>4. ContractInv'  BY <1>1 DEF Durable, ContractInv
<1>5. ThreadInv'  BY <1>2, WithinIdle DEF Durable, ThreadInv, nt, All
<1>6. PledgeInv'
  <2>. SUFFICES ASSUME NEW u \in Threads, NEW n \in Names, u \notin met',
                       NEW i \in DOMAIN thread'[u].asked,
                       NEW k \in DOMAIN Promise(thread'[u].asked[i], n)
       PROVE  Pledge(thread'[u], disk[n], n, k, Promise(thread'[u].asked[i], n)[k])
    BY <1>1 DEF PledgeInv
  <2>1. u # t  BY <1>2, IdleIs, SeqShort DEF nt
  <2>2. thread'[u] = thread[u]  BY <1>2, <2>1 DEF All
  <2>. QED  BY <1>1, <2>2 DEF Durable, PledgeInv
<1>7. SafeInv'
  <2>. SUFFICES ASSUME NEW n \in Names, NEW k \in DOMAIN promised'[n], NEW u \in All
       PROVE  /\ Held(thread'[u], disk[n], n, k, promised'[n][k].value)
              /\ \A i \in DOMAIN thread'[u].todo : ~ Affects(thread'[u].todo[i], n, k)
    BY <1>1 DEF SafeInv
  <2>. DEFINE new == Answered(th.asked, n)
  <2>1. promised'[n] = promised[n] \/ (t \notin met /\ promised'[n] = Over(new, promised[n]))
    BY <1>1
  <2>. HIDE DEF new
  <2>2. \/ t \notin met /\ k \in DOMAIN new /\ promised'[n][k] = new[k]
        \/ k \in DOMAIN promised[n] /\ promised'[n][k] = promised[n][k]
    BY <2>1 DEF Over
  <2>3. CASE k \in DOMAIN promised[n] /\ promised'[n][k] = promised[n][k]
    <3>1. \A x \in All : /\ Held(thread[x], disk[n], n, k, promised'[n][k].value)
                         /\ \A i \in DOMAIN thread[x].todo : ~ Affects(thread[x].todo[i], n, k)
      BY <2>3 DEF Durable, SafeInv
    <3>2. CASE u = t
      <4>1. thread'[u].todo = << >> /\ thread'[u].pc = "idle"  BY <1>2, <3>2, IdleIs DEF nt
      <4>. QED  BY <3>1, <4>1, SeqShort DEF Held, Saving
    <3>3. CASE u # t  BY <1>2, <3>1, <3>3
    <3>. QED  BY <3>2, <3>3
  <2>4. CASE t \notin met /\ k \in DOMAIN new /\ promised'[n][k] = new[k]
    <3>1. PICK i \in DOMAIN th.asked : /\ k \in DOMAIN Promise(th.asked[i], n)
                                      /\ new[k].value = Promise(th.asked[i], n)[k]
      BY <1>3, <2>4, AnsweredIs DEF new, Within
    <3>. DEFINE v == promised'[n][k].value
    <3>2. Pledge(th, disk[n], n, k, v)  BY <2>4, <3>1 DEF Durable, PledgeInv, th
    <3>. HIDE DEF v
    <3>3. Landed(th, disk[n], n, k, v)  BY <1>1, <3>2, SeqShort DEF Pledge, Coming
    <3>4. Holds(disk[n], k, v)  BY <1>1, <3>3 DEF Landed, Held
    <3>5. CASE u = t
      <4>1. thread'[u].todo = << >> /\ thread'[u].pc = "idle"  BY <1>2, <3>5, IdleIs DEF nt
      <4>. QED  BY <3>4, <4>1, SeqShort DEF Held, Saving, v
    <3>6. CASE u # t
      <4>1. thread'[u] = thread[u]  BY <1>2, <3>6
      <4>2. n \in Touched(th.asked) /\ th.asked # << >>  BY <3>1, PledgeTouches, SeqShort
      <4>3. thread[u].pc # "idle" => n \notin Touched(thread[u].todo)
        BY <2>4, <3>6, <4>2, ApartNow DEF Durable, th
      <4>4. Placed(thread[u], sent, Len(commits)) /\ SoundThread(thread[u])
        BY DEF Inv, PlaceInv, Durable, ThreadInv
      <4>5. thread[u].pc = "idle" => DOMAIN thread[u].todo = {}  BY <4>4, SeqShort DEF Placed
      <4>6. ~ Saving(thread[u], n)
        <5>. SUFFICES ASSUME Saving(thread[u], n) PROVE FALSE  OBVIOUS
        <5>1. /\ thread[u].todo # << >> /\ thread[u].todo[1].file = n
              /\ thread[u].todo[1].do \in OnFile
          BY <4>4, SavingIs DEF OnFile
        <5>2. 1 \in DOMAIN thread[u].todo  BY <4>4, <5>1, HeadIs
        <5>3. n \in Touched(thread[u].todo)  BY <5>1, <5>2, TouchedHas
        <5>4. thread[u].pc # "idle"  BY DEF Saving
        <5>. QED  BY <4>3, <5>3, <5>4
      <4>7. \A j \in DOMAIN thread[u].todo : ~ Affects(thread[u].todo[j], n, k)
        <5>. SUFFICES ASSUME NEW j \in DOMAIN thread[u].todo, Affects(thread[u].todo[j], n, k)
             PROVE  FALSE
          OBVIOUS
        <5>1. n \in TouchedBy(thread[u].todo[j])  BY AffectsReached
        <5>2. n \in Touched(thread[u].todo)  BY <5>1, TouchedHasAll
        <5>. QED  BY <4>3, <4>5, <5>2
      <4>. QED  BY <3>4, <4>1, <4>6, <4>7 DEF Held, v
    <3>. QED  BY <3>5, <3>6
  <2>. QED  BY <2>2, <2>3, <2>4
<1>. QED  BY <1>4, <1>5, <1>6, <1>7 DEF Durable
-------------------------------------------------------------------------------
(* The start of a request.                                                     *)
\* A route's calls: all but one make sure of a namespace or commit.
Routed(todo) ==
    /\ \A i \in DOMAIN todo : SoundCall(todo[i])
    /\ \E i \in DOMAIN todo : \A j \in DOMAIN todo : j # i => todo[j].do \in {"ensure", "commit"}
    /\ (\E i \in DOMAIN todo : TreeCall(todo[i])) =>
          MovesTree(todo) /\ \A j \in DOMAIN todo : TreeCall(todo[j])

LEMMA OneRouted ==
    ASSUME NEW c, SoundCall(c)
    PROVE  Routed(<<c>>)
<1>. DEFINE r == <<c>>
<1>1. DOMAIN r = 1..1 /\ r[1] = c  BY SeqShort
<1>. HIDE DEF r
<1>2. \A i \in DOMAIN r : i = 1 /\ r[i] = c  BY <1>1
<1>3. 1 \in DOMAIN r  BY <1>1
<1>4. \A i \in DOMAIN r : SoundCall(r[i])  BY <1>2
<1>5. \E i \in DOMAIN r : \A j \in DOMAIN r : j # i => r[j].do \in {"ensure", "commit"}
  BY <1>2, <1>3
<1>6. (\E i \in DOMAIN r : TreeCall(r[i])) =>
          MovesTree(r) /\ \A j \in DOMAIN r : TreeCall(r[j])
  BY <1>2 DEF TreeCall, MovesTree
<1>. QED  BY <1>4, <1>5, <1>6 DEF Routed, r

LEMMA TwoRouted ==
    ASSUME NEW c, SoundCall(c), ~ TreeCall(c)
    PROVE  Routed(<<c, Git("commit")>>)
<1>. DEFINE r == <<c, Git("commit")>>
<1>1. DOMAIN r = 1..2 /\ r[1] = c /\ r[2] = Git("commit")  BY SeqShort
<1>. HIDE DEF r
<1>2. r[2].do = "commit" /\ \A i \in DOMAIN r : i = 1 \/ i = 2  BY <1>1 DEF Git
<1>3. \A i \in DOMAIN r : SoundCall(r[i]) /\ ~ TreeCall(r[i])
  BY <1>1, <1>2 DEF SoundCall, TreeCall
<1>4. \E i \in DOMAIN r : \A j \in DOMAIN r : j # i => r[j].do \in {"ensure", "commit"}
  BY <1>1, <1>2
<1>. QED  BY <1>3, <1>4 DEF Routed, r

LEMMA ContractRouted ==
    ASSUME NEW c, SoundCall(c), ~ TreeCall(c)
    PROVE  Routed(EnsureContractNs(c))
<1>. DEFINE r == EnsureContractNs(c)
<1>1. /\ DOMAIN r = 1..4 /\ r[4] = c
      /\ r[1].do = "ensure" /\ r[2].do = "ensure" /\ r[3].do = "ensure"
  BY SeqShort DEF EnsureContractNs, Call
<1>. HIDE DEF r
<1>2. \A i \in DOMAIN r : i = 4 \/ r[i].do = "ensure"  BY <1>1
<1>3. \A i \in DOMAIN r : SoundCall(r[i]) /\ ~ TreeCall(r[i])
  BY <1>1, <1>2 DEF SoundCall, TreeCall
<1>4. \E i \in DOMAIN r : \A j \in DOMAIN r : j # i => r[j].do \in {"ensure", "commit"}
  BY <1>1, <1>2
<1>. QED  BY <1>3, <1>4 DEF Routed, r

LEMMA RouteRouted ==
    ASSUME NEW id \in 1..MaxRequests, NEW kind \in Kinds, NEW todo \in Routes(id)[kind]
    PROVE  Routed(todo)
<1>p. \A n, w : w \in Writes => SoundCall(Put(n, w)) /\ ~ TreeCall(Put(n, w))
  BY FreshAssumption DEF Reserved, SoundCall, TreeCall, Put
<1>o. \A c : c.do # "put" => SoundCall(c)  BY DEF SoundCall
<1>1. CASE kind = "create"
  <2>1. PICK n \in OpenNames, s \in Schemas \cup {None} :
            todo = <<[do |-> "create", file |-> n, schema |-> s]>>  BY <1>1 DEF Routes
  <2>. QED  BY <2>1, <1>o, OneRouted
<1>2. CASE kind = "drop"
  <2>1. PICK n \in OpenNames : todo = <<Call("drop", n)>>  BY <1>2 DEF Routes
  <2>2. Call("drop", n).do # "put"  BY DEF Call
  <2>. QED  BY <2>1, <2>2, <1>o, OneRouted
<1>3. CASE kind = "put"
  <2>1. PICK n \in OpenNames, w \in Writes : todo = <<Put(n, w)>>  BY <1>3 DEF Routes
  <2>. QED  BY <2>1, <1>p, OneRouted
<1>4. CASE kind = "remove"
  <2>1. PICK n \in OpenNames, k \in UNION {DOMAIN w : w \in Writes} :
            todo = <<[do |-> "remove", file |-> n, key |-> k]>>  BY <1>4 DEF Routes
  <2>. QED  BY <2>1, <1>o, OneRouted
<1>5. CASE kind = "schema"
  <2>1. PICK n \in OpenNames, s \in Schemas :
            todo = <<[do |-> "schema", file |-> n, schema |-> s]>>  BY <1>5 DEF Routes
  <2>. QED  BY <2>1, <1>o, OneRouted
<1>6. CASE kind = "artifact"
  <2>1. PICK n \in OpenNames, w \in Writes : todo = <<Put(n, w), Git("commit")>>
    BY <1>6 DEF Routes
  <2>. QED  BY <2>1, <1>p, TwoRouted
<1>7. CASE kind = "revision"
  <2>. DEFINE c == [do |-> "log", file |-> RevNs, id |-> id]
  <2>1. todo = <<c, Git("commit")>>  BY <1>7 DEF Routes, CommitRevision
  <2>2. SoundCall(c) /\ ~ TreeCall(c)  BY DEF SoundCall, TreeCall
  <2>. HIDE DEF c
  <2>. QED  BY <2>1, <2>2, TwoRouted
<1>8. CASE kind = "commit"
  <2>1. todo = <<Git("commit")>>  BY <1>8 DEF Routes
  <2>2. Git("commit").do # "put"  BY DEF Git
  <2>. QED  BY <2>1, <2>2, <1>o, OneRouted
<1>9. CASE kind = "contract"
  <2>. DEFINE c == Put(Contracts, Entry(<<"contract">>, Contract))
  <2>1. todo = EnsureContractNs(c)  BY <1>9 DEF Routes
  <2>2. c.do = "put" /\ c.entries = Entry(<<"contract">>, Contract)  BY DEF Put
  <2>. HIDE DEF c
  <2>3. SoundCall(c) /\ ~ TreeCall(c)  BY <2>2, EntryIs DEF SoundCall, TreeCall
  <2>. QED  BY <2>1, <2>3, ContractRouted
<1>10. CASE kind = "bind"
  <2>. DEFINE B(s, v) == EnsureContractNs([do |-> "bind", file |-> Contracts, slot |-> s, value |-> v])
  <2>a. Routes(id)["bind"] = {B(b.slot, b.value) : b \in Bindings}  BY DEF Routes
  <2>. HIDE DEF B
  <2>1. PICK b \in Bindings : todo = B(b.slot, b.value)  BY <1>10, <2>a
  <2>. DEFINE c == [do |-> "bind", file |-> Contracts, slot |-> b.slot, value |-> b.value]
  <2>2. SoundCall(c) /\ ~ TreeCall(c)  BY DEF SoundCall, TreeCall
  <2>3. todo = EnsureContractNs(c)  BY <2>1 DEF B
  <2>. HIDE DEF c
  <2>. QED  BY <2>2, <2>3, ContractRouted
<1>11. CASE kind = "propose"
  <2>. DEFINE P(p) == EnsureContractNs([do |-> "propose", file |-> Contracts, data |-> p, id |-> id])
  <2>a. Routes(id)["propose"] = {P(p) : p \in Proposals}  BY DEF Routes
  <2>. HIDE DEF P
  <2>1. PICK p \in Proposals : todo = P(p)  BY <1>11, <2>a
  <2>. DEFINE c == [do |-> "propose", file |-> Contracts, data |-> p, id |-> id]
  <2>2. SoundCall(c) /\ ~ TreeCall(c)  BY DEF SoundCall, TreeCall
  <2>3. todo = EnsureContractNs(c)  BY <2>1 DEF P
  <2>. HIDE DEF c
  <2>. QED  BY <2>2, <2>3, ContractRouted
<1>12. CASE kind = "rollback"
  <2>1. PICK r \in DOMAIN commits : todo = <<[do |-> "rollback", file |-> None, ref |-> r]>>
    BY <1>12 DEF Routes
  <2>. QED  BY <2>1, <1>o, OneRouted
<1>13. CASE kind = "checkout"
  <2>1. PICK r \in Branches \cup DOMAIN commits :
            todo = <<[do |-> "checkout", file |-> None, ref |-> r]>>
    BY <1>13 DEF Routes
  <2>. QED  BY <2>1, <1>o, OneRouted
<1>14. CASE kind = "branch"
  <2>1. PICK b \in Branches : todo = <<[do |-> "branch", file |-> None, name |-> b]>>
    BY <1>14 DEF Routes
  <2>. QED  BY <2>1, <1>o, OneRouted
<1>15. kind \in {"create", "drop", "put", "remove", "schema", "artifact", "revision",
                 "commit", "contract", "bind", "propose", "rollback", "checkout", "branch"}
  BY DataStoreAssumption
<1>. QED  BY <1>1, <1>2, <1>3, <1>4, <1>5, <1>6, <1>7, <1>8, <1>9, <1>10, <1>11, <1>12, <1>13,
            <1>14, <1>15

LEMMA BeginDurable ==
    ASSUME Inv, Durable, NEW t \in Threads, Begin(t)
    PROVE  Durable'
<1>. DEFINE nt == thread'[t]
<1>0. t \in All  BY DEF All
<1>1. PICK kind \in Kinds : \E todo \in Routes(sent + 1)[kind] :
          /\ thread' = [thread EXCEPT ![t] = [Idle EXCEPT !.pc = "call", !.todo = todo, !.asked = todo]]
          /\ promised' = [n \in Names |-> Without(promised[n],
                 {k \in DOMAIN promised[n] : \E i \in DOMAIN todo : Affects(todo[i], n, k)})]
          /\ met' = (met \ {t}) \cup Meets(todo) \cup (IF Meets(todo) = {} THEN {} ELSE {t})
  BY DEF Begin
<1>2. PICK todo \in Routes(sent + 1)[kind] :
          /\ thread' = [thread EXCEPT ![t] = [Idle EXCEPT !.pc = "call", !.todo = todo, !.asked = todo]]
          /\ promised' = [n \in Names |-> Without(promised[n],
                 {k \in DOMAIN promised[n] : \E i \in DOMAIN todo : Affects(todo[i], n, k)})]
          /\ met' = (met \ {t}) \cup Meets(todo) \cup (IF Meets(todo) = {} THEN {} ELSE {t})
  BY <1>1
<1>a. sent < MaxRequests /\ UNCHANGED <<disk, git>>  BY DEF Begin
<1>3. sent + 1 \in 1..MaxRequests  BY <1>a, DataStoreAssumption DEF Inv, TypeOK
<1>4. Served(todo, sent + 1, Len(commits))  BY <1>3, RouteCalls DEF Inv, TypeOK, HistoryInv
<1>5. Routed(todo)  BY <1>3, RouteRouted
<1>6. /\ nt = [Idle EXCEPT !.pc = "call", !.todo = todo, !.asked = todo]
      /\ \A u \in All : u # t => thread'[u] = thread[u]
  BY <1>2, <1>0 DEF Inv, TypeOK
<1>. HIDE DEF nt
<1>7. nt.pc = "call" /\ nt.todo = todo /\ nt.asked = todo  BY <1>6 DEF Idle
<1>8. ContractInv'  BY <1>a DEF Durable, ContractInv, git
<1>9. ThreadInv'
  <2>1. SoundThread(nt)  BY <1>5, <1>7 DEF SoundThread, Saving, Routed
  <2>2. Within(nt)  BY <1>4, <1>5, <1>7 DEF Within, Routed, Served
  <2>. QED  BY <1>6, <2>1, <2>2 DEF Durable, ThreadInv, nt, All
<1>10. SafeInv'
  <2>. SUFFICES ASSUME NEW n \in Names, NEW k \in DOMAIN promised'[n], NEW u \in All
       PROVE  /\ Held(thread'[u], disk[n], n, k, promised'[n][k].value)
              /\ \A i \in DOMAIN thread'[u].todo : ~ Affects(thread'[u].todo[i], n, k)
    BY <1>a DEF SafeInv
  <2>. DEFINE lapsed == {x \in DOMAIN promised[n] : \E i \in DOMAIN todo : Affects(todo[i], n, x)}
  <2>1. promised'[n] = Without(promised[n], lapsed)  BY <1>2
  <2>2. k \in DOMAIN promised[n] /\ k \notin lapsed /\ promised'[n][k] = promised[n][k]
    <3>. HIDE DEF lapsed
    <3>. QED  BY <2>1 DEF Without
  <2>3. \A i \in DOMAIN todo : ~ Affects(todo[i], n, k)  BY <2>2
  <2>. HIDE DEF lapsed
  <2>4. \A x \in All : /\ Held(thread[x], disk[n], n, k, promised'[n][k].value)
                       /\ \A i \in DOMAIN thread[x].todo : ~ Affects(thread[x].todo[i], n, k)
    BY <2>2 DEF Durable, SafeInv
  <2>5. CASE u = t  BY <1>0, <1>7, <2>3, <2>4, <2>5 DEF Held, Saving, nt
  <2>6. CASE u # t  BY <1>6, <2>4, <2>6
  <2>. QED  BY <2>5, <2>6
<1>11. PledgeInv'
  <2>. SUFFICES ASSUME NEW u \in Threads, NEW n \in Names, u \notin met',
                       NEW i \in DOMAIN thread'[u].asked,
                       NEW k \in DOMAIN Promise(thread'[u].asked[i], n)
       PROVE  Pledge(thread'[u], disk[n], n, k, Promise(thread'[u].asked[i], n)[k])
    BY <1>a DEF PledgeInv
  <2>1. CASE u = t
    <3>. DEFINE v == Promise(todo[i], n)[k]
    <3>1. i \in DOMAIN todo /\ k \in DOMAIN Promise(todo[i], n)  BY <1>7, <2>1 DEF nt
    <3>2. Supplies(todo[i], n, k, v)  BY <3>1 DEF Supplies
    <3>. HIDE DEF v
    <3>3. PICK a \in DOMAIN todo : \A j \in DOMAIN todo : j # a => todo[j].do \in {"ensure", "commit"}
      BY <1>5 DEF Routed
    <3>4. i = a  BY <3>1, <3>2, <3>3, NothingPromised
    <3>5. ASSUME NEW j \in DOMAIN todo, Affects(todo[j], n, k) PROVE Supplies(todo[j], n, k, v)
      <4>1. todo[j].do \notin {"ensure", "commit"}  BY <3>5, AffectsReached
      <4>2. j = i  BY <3>3, <3>4, <4>1
      <4>. QED  BY <3>2, <4>2
    <3>6. Pledge(nt, disk[n], n, k, v)  BY <1>7, <3>1, <3>2, <3>5 DEF Pledge, Coming
    <3>. QED  BY <1>7, <2>1, <3>6 DEF nt, v
  <2>2. CASE u # t
    <3>1. thread'[u] = thread[u]  BY <1>6, <2>2 DEF All
    <3>2. u \notin met  BY <1>2, <2>2
    <3>. QED  BY <3>1, <3>2 DEF Durable, PledgeInv
  <2>. QED  BY <2>1, <2>2
<1>. QED  BY <1>8, <1>9, <1>10, <1>11 DEF Durable
-------------------------------------------------------------------------------
(* Crashes, starts and the first state.                                        *)
\* A thread that has nothing to write, and only namespaces to make sure of.
Ensuring(th) ==
    /\ th.pc \in {"idle", "call"}
    /\ \A i \in DOMAIN th.todo : th.todo[i].do = "ensure"

LEMMA EnsuringIs ==
    ASSUME NEW th, Ensuring(th)
    PROVE  /\ SoundThread(th) /\ (\A n : ~ Saving(th, n))
           /\ \A n, k : \A i \in DOMAIN th.todo : ~ Affects(th.todo[i], n, k)
<1>1. \A n : ~ Saving(th, n)  BY DEF Ensuring, Saving
<1>2. \A i \in DOMAIN th.todo : SoundCall(th.todo[i]) /\ \A n, k : ~ Affects(th.todo[i], n, k)
  BY DEF Ensuring, SoundCall, Affects
<1>. QED  BY <1>1, <1>2 DEF SoundThread, Ensuring

LEMMA IdleEnsures ==
    Ensuring(Idle) /\ Idle.asked = << >>
<1>1. Idle.pc = "idle" /\ Idle.todo = << >> /\ Idle.asked = << >>  BY IdleIs
<1>. QED  BY <1>1, SeqShort DEF Ensuring

LEMMA ServerDurable ==
    ASSUME Inv, Durable, UNCHANGED <<disk, index, commits, promised, met>>,
           \A u \in All : thread'[u] = thread[u] \/ Ensuring(thread'[u]),
           \A u \in Threads : thread'[u] = thread[u] \/ thread'[u] = Idle
    PROVE  Durable'
<1>0. Threads \subseteq All  BY DEF All
<1>1. ContractInv'  BY DEF Durable, ContractInv
<1>2. ThreadInv'  BY <1>0, EnsuringIs, WithinIdle DEF Durable, ThreadInv
<1>3. SafeInv'
  <2>. SUFFICES ASSUME NEW n \in Names, NEW k \in DOMAIN promised[n], NEW u \in All
       PROVE  /\ Held(thread'[u], disk[n], n, k, promised[n][k].value)
              /\ \A i \in DOMAIN thread'[u].todo : ~ Affects(thread'[u].todo[i], n, k)
    BY DEF SafeInv
  <2>1. /\ Held(thread[u], disk[n], n, k, promised[n][k].value)
        /\ \A i \in DOMAIN thread[u].todo : ~ Affects(thread[u].todo[i], n, k)
    BY DEF Durable, SafeInv
  <2>2. CASE Ensuring(thread'[u])  BY <2>1, <2>2, EnsuringIs DEF Held
  <2>. QED  BY <2>1, <2>2
<1>4. PledgeInv'
  <2>. SUFFICES ASSUME NEW u \in Threads, NEW n \in Names, u \notin met',
                       NEW i \in DOMAIN thread'[u].asked,
                       NEW k \in DOMAIN Promise(thread'[u].asked[i], n)
       PROVE  Pledge(thread'[u], disk[n], n, k, Promise(thread'[u].asked[i], n)[k])
    BY DEF PledgeInv
  <2>1. thread'[u] = thread[u]  BY IdleEnsures, SeqShort
  <2>. QED  BY <2>1 DEF Durable, PledgeInv
<1>. QED  BY <1>1, <1>2, <1>3, <1>4 DEF Durable

LEMMA CrashDurable ==
    ASSUME Inv, Durable, Crash \/ Start \/ Serving
    PROVE  Durable'
<1>. DEFINE calls == [i \in DOMAIN Boot |-> Call("ensure", Boot[i])]
<1>1. UNCHANGED <<disk, index, commits, promised, met>>  BY DEF Crash, Start, Serving, git, ghosts
<1>2. Starter \in All /\ DOMAIN thread = All /\ \A u \in Threads : u \in All /\ u # Starter
  BY DataStoreAssumption DEF All, Inv, TypeOK
<1>3. CASE Crash \/ Serving
  <2>1. \A u \in All : thread'[u] = thread[u] \/ thread'[u] = Idle  BY <1>2, <1>3 DEF Crash, Serving
  <2>. QED  BY <1>1, <1>2, <2>1, IdleEnsures, ServerDurable
<1>4. CASE Start
  <2>1. /\ thread'[Starter] = [Idle EXCEPT !.pc = "call", !.todo = calls]
        /\ \A u \in All : u # Starter => thread'[u] = thread[u]
    BY <1>2, <1>4 DEF Start
  <2>2. \A i \in DOMAIN calls : calls[i].do = "ensure"  BY DEF Call
  <2>. HIDE DEF calls
  <2>3. Ensuring(thread'[Starter])  BY <2>1, <2>2 DEF Ensuring, Idle
  <2>. QED  BY <1>1, <1>2, <2>1, <2>3, ServerDurable
<1>. QED  BY <1>3, <1>4

LEMMA InitDurable ==
    ASSUME Init
    PROVE  Durable
<1>. DEFINE seeded == [EmptyNamespace EXCEPT !.entries = Entry(<<"contract">>, Contract)]
            first == [f \in Files |->
                IF f = Meta THEN MetaFile(Existing) ELSE IF f \notin Existing THEN Absent
                ELSE IF f # Contracts THEN EmptyNamespace ELSE seeded]
            root == [parent |-> 0, tree |-> first]
<1>1. /\ disk = first /\ index = first /\ commits = <<root>>
      /\ thread = [t \in Threads \cup {Starter} |-> Idle]
      /\ promised = [n \in Names |-> << >>]
  BY DEF Init
<1>2. Sound(seeded)
  <2>1. seeded.entries = Entry(<<"contract">>, Contract)  BY DEF EmptyNamespace
  <2>. HIDE DEF seeded
  <2>. QED  BY <2>1, EntryIs DEF Sound, Holds
<1>. HIDE DEF seeded
<1>3. Contracts \in Files /\ Contracts # Meta  BY DataStoreAssumption DEF Files
<1>4. first[Contracts] \in {Absent, seeded}  BY <1>3
<1>5. Sound(first[Contracts])  BY <1>2, <1>4, SoundNothing
<1>. HIDE DEF first
<1>6. root.tree = first  OBVIOUS
<1>. HIDE DEF root
<1>7. \A c \in DOMAIN commits : commits[c] = root  BY <1>1, SeqShort
<1>8. ContractInv  BY <1>1, <1>5, <1>6, <1>7 DEF ContractInv
<1>9. \A t \in All : thread[t] = Idle  BY <1>1 DEF All
<1>10. ThreadInv  BY <1>9, WithinIdle DEF ThreadInv, All
<1>11. SafeInv
  <2>1. \A n \in Names : DOMAIN promised[n] = {}  BY <1>1, SeqShort
  <2>. QED  BY <2>1 DEF SafeInv
<1>12. PledgeInv
  <2>1. \A t \in Threads : DOMAIN thread[t].asked = {}  BY <1>9, IdleEnsures, SeqShort DEF All
  <2>. QED  BY <2>1 DEF PledgeInv
<1>. QED  BY <1>8, <1>10, <1>11, <1>12 DEF Durable

LEMMA StepDurable ==
    ASSUME Inv, Durable, [Next]_vars
    PROVE  Durable'
<1>1. ASSUME NEW t \in Threads, Begin(t) PROVE Durable'  BY <1>1, BeginDurable
<1>2. ASSUME NEW t \in Threads, Bind(t) \/ Propose(t) \/ Repository(t) PROVE Durable'
  BY <1>2, CallDurable, RollbackDurable, CheckoutDurable DEF Repository
<1>3. ASSUME NEW t \in Threads, Respond(t) PROVE Durable'  BY <1>3, RespondDurable
<1>4. ASSUME NEW t \in All, File(t) PROVE Durable'  BY <1>4, FileDurable
<1>5. CASE Crash \/ Start \/ Serving  BY <1>5, CrashDurable
<1>6. CASE UNCHANGED vars
  <2>1. UNCHANGED <<disk, index, commits, thread, promised, met>>  BY <1>6 DEF vars, git, ghosts
  <2>. QED  BY <2>1, ServerDurable
<1>. QED  BY <1>1, <1>2, <1>3, <1>4, <1>5, <1>6 DEF Next, All

\* AnsweredIsOnDisk of DataStore: what a route has answered that no request on its
\* namespaces and no move of the tree overlapped is on disk until a request names its
\* key or git moves the tree; for any clients, contract, threads, failures and crashes,
\* and any requests that overlap, on its namespaces too, before and after.
THEOREM AnswersStay == Spec => []AnsweredIsOnDisk
<1>1. Durable => AnsweredIsOnDisk
  <2>. SUFFICES ASSUME Durable, NEW n \in Names, disk[n] # Torn, NEW k \in DOMAIN promised[n]
       PROVE  /\ disk[n] # Absent /\ k \in DOMAIN disk[n].entries
              /\ disk[n].entries[k] = promised[n][k].value
    BY DEF AnsweredIsOnDisk
  <2>1. Held(thread[Starter], disk[n], n, k, promised[n][k].value)
    BY DEF Durable, SafeInv, All
  <2>. QED  BY <2>1 DEF Held, Holds
<1>2. Init => Inv /\ Durable  BY InitInv, InitDurable
<1>3. Inv /\ Durable /\ [Next]_vars => Inv' /\ Durable'  BY StepInv, StepDurable
<1>. QED  BY <1>1, <1>2, <1>3, PTL DEF Spec
===============================================================================
