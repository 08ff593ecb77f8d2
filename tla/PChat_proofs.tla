----------------------------- MODULE PChat_proofs -----------------------------
(* Proofs about PChat, for any channels, users, pool threads and slots, and    *)
(* any requests at a time.                                                     *)
(*                                                                             *)
(* The argument: while a post or an edit is in progress the directory it works *)
(* on stays (nothing that removes messages runs then) and stays the same       *)
(* message (mkdir raises when the directory exists), so what the request knows *)
(* of it from an earlier read is still so (HeldInv).                           *)
(* A client that pages back stands at a place of the log: what it has seen are *)
(* the refs down to there that still have their message, at places that go     *)
(* down; the log only grows at its end, so those places stay (PageInv).        *)
EXTENDS PChat, SequenceTheorems, WellFoundedInduction, TLAPS

USE PChatAssumption DEF Slots

Selecting == {"cpost", "patch", "delete", "react"}
Editing == {"patch", "delete", "react"}
Posting == {"cpost", "post"}
Requests == {"mkchannel", "cselect", "cpost", "post", "patch", "delete", "react", "rm",
             "reset", "select", "up"}
Pcs == {"idle", "mkdir_channel", "type", "select", "scope_select", "name", "dir", "scope", "slot",
        "mkdir", "made", "meta", "data", "read", "reread", "write", "fill", "rm", "reset", "up"}
Request == [pc : Pcs, kind : Requests \cup {None}, name : Channels \cup {None},
            dir : Channels \cup {None}, slot : Slots \cup {None}, id : Nat \cup {None},
            user : Users \cup {None}, buf : {None} \cup (SUBSET Users) \cup MessageData]

TypeOK ==
    /\ channel \in [Channels -> {"none", "dir", "typed"}]
    /\ slot \in [Channels -> [Slots -> MessageDir \cup {None}]]
    /\ children \in [Channels -> Seq(MessageRef)]
    /\ selected \in Channels
    /\ scope \in [Channels \cup {Cmd} -> Channels \cup {Root, Pchat}]
    /\ thread \in [Threads -> Request]
    /\ stamp \in Nat

\* What a request knows at each of its steps.
Fits(r) ==
    /\ r.pc \in {"mkdir_channel", "type", "select", "scope_select", "rm", "dir", "scope",
                 "slot", "mkdir"} => r.name \in Channels
    /\ r.pc \in {"read", "reread", "write", "fill", "mkdir", "made", "meta", "data", "rm"} => r.slot \in Slots
    /\ r.pc \in {"scope", "read", "reread", "write", "fill", "made", "meta", "data"} => r.dir \in Channels
    /\ r.pc \in {"made", "meta", "data", "reread", "write", "fill"} => r.id \in Nat
    /\ r.pc \in {"name", "dir"} => r.kind \in Selecting /\ r.slot \in Slots
    /\ r.pc \in {"scope", "slot", "mkdir", "made", "meta", "data"} => r.kind \in Posting
    /\ r.pc = "data" => r.kind = "cpost"
    /\ r.pc \in {"read", "reread", "write", "fill"} => r.kind \in Editing
    /\ r.pc = "reread" => r.kind = "react" /\ r.buf \in SUBSET Users
    /\ r.pc \in {"write", "fill"} => r.buf \in MessageData /\ r.buf.of = r.id
    /\ r.pc = "rm" => r.kind = "rm"
    /\ r.pc = "reset" => r.kind = "reset"
    /\ r.pc # "idle" => r.user \in Users
FitInv == \A t \in Threads : Fits(thread[t])

\* /rm and /reset run alone.
AloneInv == \A t, u \in Active : thread[t].kind \in Alone => t = u

\* The message directory a post or an edit works on is there, and the message's.
Held(r, dirs) == r.pc \in {"made", "meta", "data", "reread", "write", "fill"} =>
    LET m == dirs[r.dir][r.slot] IN
    /\ m # None /\ m.id = r.id
    /\ r.pc \in {"meta", "data"} => m.meta
    /\ r.pc = "data" => m.data # None
HeldInv == \A t \in Threads : Held(thread[t], slot)

\* Messages are numbered from 1, and what is written was written for them.
SlotInv == \A c \in Channels, s \in Slots :
    slot[c][s] # None => /\ slot[c][s].id <= stamp
                         /\ slot[c][s].data # None => slot[c][s].data.of = slot[c][s].id

\* Refs name messages that were made.
RefInv == \A c \in Channels : \A i \in DOMAIN children[c] : children[c][i].id <= stamp

Inv == TypeOK /\ FitInv /\ AloneInv /\ HeldInv /\ SlotInv /\ RefInv /\ ListedIsWhole

\* What one step does to one message directory: nothing, a new message, or more
\* of the same message.
Grew(c, s) ==
    \/ slot'[c][s] = slot[c][s]
    \/ slot[c][s] = None /\ stamp' = stamp + 1 /\ slot'[c][s] = NewSlot(stamp')
    \/ /\ slot[c][s] # None /\ slot'[c][s] # None /\ slot'[c][s].id = slot[c][s].id
       /\ slot[c][s].meta => slot'[c][s].meta
       /\ slot[c][s].data # None => slot'[c][s].data # None
       /\ slot'[c][s].data # None => slot'[c][s].data.of = slot[c][s].id

LEMMA InitInv == Init => Inv
<1> SUFFICES ASSUME Init PROVE Inv  OBVIOUS
<1>a. \A n \in Nat : Message(n) \in MessageData  BY DEF Message, MessageData
<1>b. \A n \in Nat : [id |-> n, meta |-> TRUE, data |-> Message(n)] \in MessageDir
  BY <1>a DEF MessageDir
<1>1. TypeOK
  <2>1. slot \in [Channels -> [Slots -> MessageDir \cup {None}]]  BY <1>b DEF Init
  <2>2. \A c \in Channels : children[c] \in Seq(MessageRef)
    <3>1. Ref(First, 1, 1) \in MessageRef /\ Ref(First, 2, 2) \in MessageRef  BY DEF Ref, MessageRef
    <3>. QED  BY <3>1 DEF Init
  <2>3. children \in [Channels -> Seq(MessageRef)]  BY <2>2 DEF Init
  <2>4. Idle \in Request  BY DEF Idle, Request, Pcs
  <2>5. thread \in [Threads -> Request]  BY <2>4 DEF Init
  <2>. QED  BY <2>1, <2>3, <2>5 DEF Init, TypeOK
<1>2. FitInv /\ AloneInv /\ HeldInv
  BY DEF Init, FitInv, Fits, AloneInv, Active, HeldInv, Held, Idle
<1>3. SlotInv /\ RefInv
  BY DEF Init, SlotInv, RefInv, Message, Ref
<1>4. ListedIsWhole
  <2> SUFFICES ASSUME NEW c \in Channels, NEW i \in DOMAIN children[c]
               PROVE  Whole(slot[children[c][i].channel][children[c][i].slot])
    BY DEF ListedIsWhole
  <2>1. c = First /\ children[c] = <<Ref(First, 1, 1), Ref(First, 2, 2)>>  BY DEF Init
  <2>2. \A s \in {1, 2} : slot[First][s] = [id |-> s, meta |-> TRUE, data |-> Message(s)]
    BY DEF Init
  <2>3. children[c][i].channel = First /\ children[c][i].slot \in {1, 2}
    BY <2>1 DEF Ref
  <2>4. \A s \in {1, 2} : Whole(slot[First][s])  BY <1>a, <1>b, <2>2 DEF Whole
  <2>. QED  BY <2>3, <2>4
<1>. QED  BY <1>1, <1>2, <1>3, <1>4 DEF Inv

-------------------------------------------------------------------------------
(* What the steps do to a request.                                             *)
LEMMA Kept ==
    ASSUME TypeOK, FitInv, NEW t \in Threads, NEW r \in Request, Fits(r),
           thread' = [thread EXCEPT ![t] = r]
    PROVE  /\ thread' \in [Threads -> Request] /\ FitInv'
           /\ thread'[t] = r /\ \A u \in Threads \ {t} : thread'[u] = thread[u]
<1>1. thread' \in [Threads -> Request]  BY DEF TypeOK
<1>2. thread'[t] = r /\ \A u \in Threads \ {t} : thread'[u] = thread[u]  BY DEF TypeOK
<1>3. FitInv'
  <2>1. \A u \in Threads : thread'[u] = r \/ thread'[u] = thread[u]  BY <1>2
  <2>2. \A u \in Threads : Fits(thread'[u])  BY <2>1 DEF FitInv
  <2>. QED  BY <2>2 DEF FitInv
<1>. QED  BY <1>1, <1>2, <1>3

\* A request that goes on keeps what it has; one that ends has nothing.
LEMMA GoFits ==
    ASSUME TypeOK, FitInv, NEW t \in Threads, NEW pc \in Pcs, Go(t, pc),
           Fits([thread[t] EXCEPT !.pc = pc])
    PROVE  /\ thread' = [thread EXCEPT ![t] = [thread[t] EXCEPT !.pc = pc]]
           /\ [thread[t] EXCEPT !.pc = pc] \in Request
<1>1. thread' = [thread EXCEPT ![t] = [thread[t] EXCEPT !.pc = pc]]  BY DEF Go, TypeOK
<1>2. thread[t] \in Request  BY DEF TypeOK
<1>3. [thread[t] EXCEPT !.pc = pc] \in Request  BY <1>2 DEF Request
<1>. QED  BY <1>1, <1>3

LEMMA IdleFits == Idle \in Request /\ Fits(Idle)
BY DEF Idle, Request, Fits, Pcs

\* The steps of a post in their order.
LEMMA DueIs ==
    ASSUME NEW t \in Threads
    PROVE  /\ Due(t, "meta") <=> At(t, "made")
           /\ Due(t, "data") <=> At(t, "meta")
           /\ Due(t, "ref") <=> At(t, "data")
BY DEF Due, PostSteps, At

\* How a step leaves its request: ended, or further on with what it needs.
After(t, r) ==
    /\ r \in Request /\ Fits(r) /\ Held(r, slot')
    /\ thread' = [thread EXCEPT ![t] = r]
    /\ r = Idle \/ (thread[t].pc # "idle" /\ r.kind = thread[t].kind)

LEMMA Ends == ASSUME NEW t, Finish(t) PROVE After(t, Idle)
<1>1. Held(Idle, slot')  BY DEF Held, Idle
<1>. QED  BY <1>1, IdleFits DEF Finish, After

LEMMA Goes ==
    ASSUME TypeOK, FitInv, NEW t \in Threads, NEW pc \in Pcs, Go(t, pc), ~At(t, "idle"),
           Fits([thread[t] EXCEPT !.pc = pc]), Held([thread[t] EXCEPT !.pc = pc], slot')
    PROVE  \E r : After(t, r)
<1> DEFINE r == [thread[t] EXCEPT !.pc = pc]
<1>1. thread[t] \in Request  BY DEF TypeOK
<1>2. r.kind = thread[t].kind  BY <1>1 DEF Request
<1>3. After(t, r)  BY <1>2, GoFits DEF After, At
<1>. QED  BY <1>3

LEMMA ChannelAfter ==
    ASSUME TypeOK, FitInv, NEW t \in Threads, Channel(t)
    PROVE  \E r : After(t, r)
<1> USE DEF At
<1>0. thread[t] \in Request /\ Fits(thread[t])  BY DEF TypeOK, FitInv
<1>1. ASSUME MakeChannel(t) PROVE \E r : After(t, r)
  <2>1. PICK pc \in {"select", "type"} : Go(t, pc)  BY <1>1 DEF MakeChannel
  <2>2. Fits([thread[t] EXCEPT !.pc = pc]) /\ Held([thread[t] EXCEPT !.pc = pc], slot')
    BY <1>0, <1>1, <2>1 DEF MakeChannel, Fits, Held, Request
  <2>. QED  BY <1>1, <2>1, <2>2, Goes DEF Pcs, MakeChannel
<1>2. ASSUME TypeChannel(t) PROVE \E r : After(t, r)
  <2>2. Fits([thread[t] EXCEPT !.pc = "select"]) /\ Held([thread[t] EXCEPT !.pc = "select"], slot')
    BY <1>0, <1>2 DEF TypeChannel, Fits, Held, Request
  <2>. QED  BY <1>2, <2>2, Goes DEF Pcs, TypeChannel
<1>3. ASSUME Select(t) \/ ScopeSelect(t) PROVE \E r : After(t, r)
  BY <1>3, Ends DEF Select, ScopeSelect
<1>. QED  BY <1>1, <1>2, <1>3 DEF Channel

LEMMA PostAfter ==
    ASSUME TypeOK, FitInv, HeldInv, NEW t \in Threads, Post(t)
    PROVE  \E r : After(t, r)
<1> USE DEF At
<1>0. thread[t] \in Request /\ Fits(thread[t]) /\ Held(thread[t], slot)
  BY DEF TypeOK, FitInv, HeldInv
<1>1. ASSUME ReadName(t) PROVE \E r : After(t, r)
  <2>1. CASE selected = None  BY <1>1, <2>1, Ends DEF ReadName
  <2>2. CASE selected # None
    <3> DEFINE r == [thread[t] EXCEPT !.pc = "dir", !.name = selected]
    <3>1. thread' = [thread EXCEPT ![t] = r]  BY <1>1, <2>2 DEF ReadName, TypeOK
    <3>2. selected \in Channels /\ thread[t].pc = "name"  BY <1>1 DEF ReadName, TypeOK
    <3>3. r \in Request /\ r.kind = thread[t].kind  BY <1>0, <3>2, ZenonT(30) DEF Request, Pcs
    <3>4. Fits(r)  BY <1>0, <3>2 DEF Request, Fits
    <3>5. Held(r, slot')  BY <1>0 DEF Request, Held
    <3>. QED  BY <3>1, <3>2, <3>3, <3>4, <3>5 DEF After
  <2>. QED  BY <2>1, <2>2
<1>2. ASSUME ReadDir(t) PROVE \E r : After(t, r)
  <2>1. CASE channel[selected] = "none"  BY <1>2, <2>1, Ends DEF ReadDir
  <2>2. CASE channel[selected] # "none"
    <3> DEFINE pc == IF thread[t].kind = "cpost" THEN "scope" ELSE "read"
               r == [thread[t] EXCEPT !.dir = selected, !.pc = pc]
    <3>0. pc \in Pcs  BY DEF Pcs
    <3>1. thread' = [thread EXCEPT ![t] = r]  BY <1>2, <2>2 DEF ReadDir, TypeOK
    <3>2. selected \in Channels /\ thread[t].pc = "dir"  BY <1>2 DEF ReadDir, TypeOK
    <3>3. r \in Request /\ r.kind = thread[t].kind
      <4> HIDE DEF pc
      <4>. QED  BY <1>0, <3>0, <3>2 DEF Request
    <3>4. Fits(r)  BY <1>0, <3>2 DEF Request, Fits, Selecting, Editing, Posting
    <3>5. Held(r, slot')  BY <1>0 DEF Request, Held
    <3>. QED  BY <3>1, <3>2, <3>3, <3>4, <3>5 DEF After
  <2>. QED  BY <2>1, <2>2
<1>3. ASSUME EnterScope(t) PROVE \E r : After(t, r)
  <2>1. Fits([thread[t] EXCEPT !.pc = "slot"]) /\ Held([thread[t] EXCEPT !.pc = "slot"], slot')
    BY <1>0, <1>3 DEF EnterScope, Fits, Held, Request
  <2>. QED  BY <1>3, <2>1, Goes DEF Pcs, EnterScope
<1>4. ASSUME ChooseSlot(t) PROVE \E r : After(t, r)
  <2> DEFINE c == scope[thread[t].name]
             r == [thread[t] EXCEPT !.pc = "mkdir", !.slot = NextSlotId(c)]
  <2>1. CASE c \notin Channels \/ (c \in Channels /\ channel[c] # "typed")
    BY <1>4, <2>1, Ends DEF ChooseSlot
  <2>2. CASE c \in Channels /\ channel[c] = "typed"
    <3>1. NextSlotId(c) \in Slots /\ thread' = [thread EXCEPT ![t] = r]
      BY <1>4, <2>2 DEF ChooseSlot, TypeOK
    <3>2. thread[t].pc = "slot"  BY <1>4 DEF ChooseSlot
    <3>3. r \in Request /\ r.kind = thread[t].kind  BY <1>0, <3>1, ZenonT(30) DEF Request, Pcs
    <3>4. Fits(r)  BY <1>0, <3>1, <3>2 DEF Request, Fits
    <3>5. Held(r, slot')  BY <1>0 DEF Request, Held
    <3>. QED  BY <3>1, <3>2, <3>3, <3>4, <3>5 DEF After
  <2>. QED  BY <2>1, <2>2
<1>5. ASSUME MakeSlot(t) PROVE \E r : After(t, r)
  <2> DEFINE c == scope[thread[t].name]
             r == [thread[t] EXCEPT !.dir = c, !.id = stamp', !.pc = "made"]
  <2>1. CASE c \in Channels /\ channel[c] # "none" /\ Free(c, thread[t].slot)
    <3>0. thread[t].slot \in Slots  BY <1>0, <1>5 DEF MakeSlot, Fits
    <3>1. thread' = [thread EXCEPT ![t] = r] /\ stamp' = stamp + 1
          /\ slot' = [slot EXCEPT ![c][thread[t].slot] = NewSlot(stamp')]
      BY <1>5, <2>1 DEF MakeSlot, TypeOK
    <3>2. slot'[c][thread[t].slot] = NewSlot(stamp')  BY <2>1, <3>0, <3>1 DEF TypeOK
    <3>3. NewSlot(stamp') \in MessageDir  BY <3>1 DEF NewSlot, MessageDir, TypeOK
    <3>6. thread[t].pc = "mkdir" /\ stamp' \in Nat  BY <1>5, <3>1 DEF MakeSlot, TypeOK
    <3>7. r \in Request /\ r.kind = thread[t].kind  BY <1>0, <2>1, <3>6, ZenonT(30) DEF Request, Pcs
    <3>4. Fits(r)  BY <1>0, <2>1, <3>6 DEF Request, Fits
    <3>5. Held(r, slot')
      BY <1>0, <3>2, <3>3 DEF Held, Request, NewSlot
    <3>. QED  BY <3>1, <3>4, <3>5, <3>6, <3>7 DEF After
  <2>. QED  BY <1>5, <2>1, Ends DEF MakeSlot
<1>6. ASSUME WriteMeta(t) PROVE \E r : After(t, r)
  <2> DEFINE d == thread[t].dir
             s == thread[t].slot
             r == [thread[t] EXCEPT !.pc = "meta"]
  <2>1. At(t, "made") /\ d \in Channels /\ s \in Slots  BY <1>0, <1>6, DueIs DEF WriteMeta, Fits
  <2>2. Go(t, "meta")  BY <1>6 DEF WriteMeta, Taken, Final, PostSteps
  <2>3. slot[d][s] \in MessageDir /\ slot[d][s].id = thread[t].id
    BY <1>0, <2>1 DEF Held, TypeOK
  <2>4. slot'[d][s] = [slot[d][s] EXCEPT !.meta = TRUE]  BY <1>6, <2>1 DEF WriteMeta, TypeOK
  <2>5. slot'[d][s] \in MessageDir /\ slot'[d][s].id = thread[t].id /\ slot'[d][s].meta
    BY <2>3, <2>4 DEF MessageDir
  <2>6. Held(r, slot')  BY <1>0, <2>1, <2>5 DEF Held, Request
  <2>7. Fits(r)  BY <1>0, <2>1 DEF Fits, Request
  <2>. QED  BY <2>1, <2>2, <2>6, <2>7, Goes DEF Pcs
<1>7. ASSUME WriteData(t) PROVE \E r : After(t, r)
  <2> DEFINE d == thread[t].dir
             s == thread[t].slot
             r == [thread[t] EXCEPT !.pc = "data"]
  <2>1. At(t, "meta") /\ d \in Channels /\ s \in Slots /\ thread[t].id \in Nat
    BY <1>0, <1>7, DueIs DEF WriteData, Fits
  <2>2. CASE thread[t].kind = "post"  BY <1>7, <2>2, Ends DEF WriteData, Taken, Final
  <2>3. CASE thread[t].kind # "post"
    <3>1. Go(t, "data") /\ thread[t].kind = "cpost"
      BY <1>0, <1>7, <2>1, <2>3 DEF WriteData, Taken, Final, PostSteps, Fits, Posting
    <3>2. slot[d][s] \in MessageDir /\ slot[d][s].id = thread[t].id /\ slot[d][s].meta
      BY <1>0, <2>1, SMTT(20) DEF Held, TypeOK
    <3>3. slot'[d][s] = [slot[d][s] EXCEPT !.data = Message(thread[t].id)]
      BY <1>7, <2>1 DEF WriteData, TypeOK
    <3>4. Message(thread[t].id) \in MessageData  BY <2>1 DEF Message, MessageData
    <3>5. /\ slot'[d][s] \in MessageDir /\ slot'[d][s].id = thread[t].id
          /\ slot'[d][s].meta /\ slot'[d][s].data # None
      BY <3>2, <3>3, <3>4 DEF MessageDir
    <3>6. Held(r, slot')  BY <1>0, <2>1, <3>5 DEF Held, Request
    <3>7. Fits(r)  BY <1>0, <2>1, <3>1 DEF Fits, Request
    <3>. QED  BY <2>1, <3>1, <3>6, <3>7, Goes DEF Pcs
  <2>. QED  BY <2>2, <2>3
<1>8. ASSUME AppendRef(t) PROVE \E r : After(t, r)
  BY <1>8, Ends DEF AppendRef, Taken, Final, PostSteps
<1>. QED  BY <1>1, <1>2, <1>3, <1>4, <1>5, <1>6, <1>7, <1>8 DEF Post

\* What an edit reads is of the message whose directory it is.
LEMMA DataRead ==
    ASSUME TypeOK, SlotInv, NEW c \in Channels, NEW s \in Slots, slot[c][s] # None
    PROVE  DataOf(c, s) \in MessageData /\ DataOf(c, s).of = slot[c][s].id
<1>1. slot[c][s] \in MessageDir  BY DEF TypeOK
<1>2. Message(slot[c][s].id) \in MessageData /\ Message(slot[c][s].id).of = slot[c][s].id
  BY <1>1 DEF MessageDir, MessageData, Message
<1>. QED  BY <1>1, <1>2 DEF DataOf, SlotInv, MessageDir

LEMMA PatchAfter ==
    ASSUME TypeOK, FitInv, HeldInv, SlotInv, NEW t \in Threads, Patch(t)
    PROVE  \E r : After(t, r)
<1> USE DEF At
<1>0. thread[t] \in Request /\ Fits(thread[t]) /\ Held(thread[t], slot)
  BY DEF TypeOK, FitInv, HeldInv
<1> DEFINE c == thread[t].dir
           s == thread[t].slot
<1>1. ASSUME ReadData(t) PROVE \E r : After(t, r)
  <2>0. c \in Channels /\ s \in Slots /\ thread[t].kind \in Editing /\ slot' = slot
    BY <1>0, <1>1 DEF ReadData, Fits, files
  <2>1. CASE slot[c][s] = None  BY <1>1, <2>1, Ends DEF ReadData
  <2>3. CASE slot[c][s] # None /\ TornFile(c, s)  BY <1>1, <2>3, Ends DEF ReadData
  <2>2. CASE slot[c][s] # None /\ ~TornFile(c, s)
    <3>0. PICK old : old = DataOf(c, s)  OBVIOUS
    <3> HIDE DEF c, s
    <3>1. old \in MessageData /\ old.of = slot[c][s].id /\ slot[c][s].id \in Nat
      <4>1. slot[c][s] \in MessageDir  BY <2>0, <2>2 DEF TypeOK
      <4>. QED  BY <2>0, <2>2, <3>0, <4>1, DataRead DEF MessageDir
    <3> DEFINE r(pc, buf) == [thread[t] EXCEPT !.id = slot[c][s].id, !.pc = pc, !.buf = buf]
    <3>2. ASSUME NEW pc \in {"reread", "write"}, NEW buf, thread' = [thread EXCEPT ![t] = r(pc, buf)],
                 \/ pc = "reread" /\ thread[t].kind = "react" /\ buf \in SUBSET Users
                 \/ pc = "write" /\ buf \in MessageData /\ buf.of = slot[c][s].id
          PROVE  \E x : After(t, x)
      <4>1. r(pc, buf) \in Request  BY <1>0, <3>1, <3>2, Zenon DEF Request, Pcs
      <4>2. Fits(r(pc, buf))  BY <1>0, <1>1, <2>0, <3>1, <3>2 DEF Fits, Request, ReadData, c, s
      <4>3. Held(r(pc, buf), slot')  BY <1>0, <2>0, <2>2, <3>1, <3>2 DEF Held, Request, c, s
      <4>4. r(pc, buf).kind = thread[t].kind /\ thread[t].pc # "idle"
        BY <1>0, <1>1 DEF Request, ReadData
      <4>. QED  BY <3>2, <4>1, <4>2, <4>3, <4>4 DEF After
    <3>3. CASE thread[t].kind = "patch"
      <4>1. thread' = [thread EXCEPT ![t] = r("write", [old EXCEPT !.edits = @ + 1])]
        BY <1>1, <2>2, <3>0, <3>3 DEF ReadData, TypeOK, c, s
      <4>2. [old EXCEPT !.edits = @ + 1] \in MessageData
            /\ [old EXCEPT !.edits = @ + 1].of = slot[c][s].id
        BY <3>1 DEF MessageData
      <4>. QED  BY <3>2, <4>1, <4>2
    <3>4. CASE thread[t].kind = "delete"
      <4>1. thread' = [thread EXCEPT ![t] = r("write", [old EXCEPT !.deleted = TRUE])]
        BY <1>1, <2>2, <3>0, <3>4 DEF ReadData, TypeOK, c, s
      <4>2. [old EXCEPT !.deleted = TRUE] \in MessageData
            /\ [old EXCEPT !.deleted = TRUE].of = slot[c][s].id
        BY <3>1 DEF MessageData
      <4>. QED  BY <3>2, <4>1, <4>2
    <3>5. CASE thread[t].kind = "react"
      <4> DEFINE buf == IF thread[t].user \in old.reactions THEN old.reactions \ {thread[t].user}
                        ELSE old.reactions \cup {thread[t].user}
      <4>1. thread' = [thread EXCEPT ![t] = r("reread", buf)]
        BY <1>1, <2>2, <3>0, <3>5, ZenonT(30) DEF ReadData, TypeOK, c, s
      <4>2. buf \in SUBSET Users  BY <1>0, <1>1, <3>1, <3>5 DEF MessageData, Fits, ReadData
      <4>. QED  BY <3>2, <3>5, <4>1, <4>2
    <3>. QED  BY <2>0, <3>3, <3>4, <3>5 DEF Editing
  <2>. QED  BY <2>1, <2>2, <2>3
<1>2. ASSUME ReadAgain(t) PROVE \E r : After(t, r)
  <2>0. c \in Channels /\ s \in Slots /\ thread[t].kind = "react" /\ thread[t].buf \in SUBSET Users
        /\ slot' = slot /\ slot[c][s] # None /\ slot[c][s].id = thread[t].id
    BY <1>0, <1>2 DEF ReadAgain, Fits, Held, files
  <2> DEFINE old == DataOf(c, s)
             new == [old EXCEPT !.reactions = thread[t].buf]
             r == [thread[t] EXCEPT !.pc = "write", !.buf = new]
  <2>1. old \in MessageData /\ old.of = thread[t].id  BY <2>0, DataRead
  <2>7. CASE TornFile(c, s)  BY <1>2, <2>7, Ends DEF ReadAgain
  <2>8. CASE ~TornFile(c, s)
    <3>2. thread' = [thread EXCEPT ![t] = r]  BY <1>2, <2>8 DEF ReadAgain, TypeOK
    <3> HIDE DEF c, s, old
    <3>3. new \in MessageData /\ new.of = thread[t].id  BY <2>0, <2>1 DEF MessageData
    <3> HIDE DEF new
    <3>4. r \in Request /\ r.kind = thread[t].kind  BY <1>0, <3>3, ZenonT(30) DEF Request, Pcs
    <3>5. Fits(r)  BY <1>0, <1>2, <3>3 DEF Fits, Request, ReadAgain, Editing
    <3>6. Held(r, slot')  BY <1>0, <2>0 DEF Held, Request, c, s
    <3>. QED  BY <1>2, <3>2, <3>4, <3>5, <3>6 DEF After, ReadAgain
  <2>. QED  BY <2>7, <2>8
<1>3. ASSUME WriteBack(t) PROVE \E r : After(t, r)
  BY <1>3, Ends DEF WriteBack
<1>4. ASSUME OpenData(t) PROVE \E r : After(t, r)
  <2> DEFINE r == [thread[t] EXCEPT !.pc = "fill"]
  <2>1. thread[t].pc = "write" /\ Go(t, "fill")  BY <1>4 DEF OpenData
  <2>2. c \in Channels /\ s \in Slots /\ slot[c][s] \in MessageDir /\ slot[c][s].id = thread[t].id
    BY <1>0, <2>1 DEF Fits, Held, TypeOK
  <2>3. slot'[c][s] = [slot[c][s] EXCEPT !.data = [DataOf(c, s) EXCEPT !.torn = TRUE]]
    BY <1>4, <2>2 DEF OpenData, TypeOK
  <2>4. slot[c][s] # None  BY <2>2
  <2>9. DataOf(c, s) \in MessageData  BY <2>2, <2>4, DataRead
  <2>5. [DataOf(c, s) EXCEPT !.torn = TRUE] \in MessageData
    <3> HIDE DEF c, s
    <3>. QED  BY <2>9 DEF MessageData
  <2>6. slot'[c][s] \in MessageDir /\ slot'[c][s].id = thread[t].id  BY <2>2, <2>3, <2>5 DEF MessageDir
  <2>7. Held(r, slot')  BY <1>0, <2>6 DEF Held, Request
  <2>8. Fits(r)  BY <1>0, <2>1 DEF Fits, Request
  <2>. QED  BY <2>1, <2>7, <2>8, Goes DEF Pcs
<1>. QED  BY <1>1, <1>2, <1>3, <1>4 DEF Patch

\* A request that begins knows its name, number and user, and nothing yet of a file.
LEMMA BeginAfter ==
    ASSUME TypeOK, NEW t \in Threads, Begin(t)
    PROVE  \E r : /\ r \in Request /\ Fits(r) /\ Held(r, slot') /\ r.pc # "idle"
                  /\ thread' = [thread EXCEPT ![t] = r]
                  /\ r.kind \in Alone \/ (\E u \in Active : thread[u].kind \in Alone) => Active = {}
<1>1. PICK k \in Kinds, c \in Channels, s \in Slots, u \in Users :
          /\ (k \in Alone \/ \E x \in Active : thread[x].kind \in Alone) => Active = {}
          /\ thread' = [thread EXCEPT ![t] = [Idle EXCEPT !.pc = FirstStep[k], !.kind = k,
                 !.name = IF k \in {"mkchannel", "cselect", "select", "post", "rm"} THEN c ELSE None,
                 !.slot = s, !.user = u]]
  BY ZenonT(30) DEF Begin
<1> DEFINE name == IF k \in {"mkchannel", "cselect", "select", "post", "rm"} THEN c ELSE None
           pc == FirstStep[k]
           r == [Idle EXCEPT !.pc = pc, !.kind = k, !.name = name, !.slot = s, !.user = u]
<1>2. k \in Requests  BY DEF Requests
<1>3. /\ k = "mkchannel" => pc = "mkdir_channel"
      /\ k = "cselect" => pc = "select"
      /\ k \in Selecting => pc = "name"
      /\ k = "post" => pc = "slot"
      /\ k = "rm" => pc = "rm"
      /\ k = "reset" => pc = "reset"
      /\ k = "select" => pc = "scope_select"
      /\ k = "up" => pc = "up"
  BY DEF FirstStep, Selecting
<1>4. pc \in Pcs \ {"idle"}  BY <1>2, <1>3 DEF Pcs, Requests, Selecting
<1>5. name \in Channels \cup {None}  OBVIOUS
<1>6. Fits(r)  BY <1>2, <1>3 DEF Fits, Idle, Requests, Selecting, Posting
<1>7. Held(r, slot')  BY <1>2, <1>3 DEF Held, Idle, Requests, Selecting
<1> HIDE DEF name, pc
<1>8. r \in Request /\ r.kind = k /\ r.pc = pc  BY <1>2, <1>4, <1>5 DEF Request, Idle
<1>9. thread' = [thread EXCEPT ![t] = r]  BY <1>1 DEF name, pc
<1> HIDE DEF r
<1>. QED  BY <1>1, <1>4, <1>6, <1>7, <1>8, <1>9

\* The requests that remove, and the one that leaves a directory, end.
LEMMA RemovalAfter ==
    ASSUME NEW t \in Threads, RemoveSlot(t) \/ Reset(t) \/ Up(t)
    PROVE  After(t, Idle)
BY Ends DEF RemoveSlot, Reset, Up

Step(t) == Channel(t) \/ Post(t) \/ Patch(t) \/ RemoveSlot(t) \/ Reset(t) \/ Up(t)

LEMMA StepAfter ==
    ASSUME TypeOK, FitInv, HeldInv, SlotInv, NEW t \in Threads, Step(t)
    PROVE  \E r : After(t, r)
BY ChannelAfter, PostAfter, PatchAfter, RemovalAfter DEF Step
-------------------------------------------------------------------------------
(* What the steps do to a message directory.                                   *)
LEMMA SlotGrows ==
    ASSUME TypeOK, FitInv, HeldInv, SlotInv, NEW t \in Threads, Step(t), ~RemoveSlot(t), ~Reset(t)
    PROVE  /\ slot' \in [Channels -> [Slots -> MessageDir \cup {None}]]
           /\ \A c \in Channels, s \in Slots : Grew(c, s)
<1> USE DEF At
<1>0. thread[t] \in Request /\ Fits(thread[t]) /\ Held(thread[t], slot)
  BY DEF TypeOK, FitInv, HeldInv
<1> DEFINE d == thread[t].dir
           n == thread[t].slot
\* A directory that is changed: only it, and to m.
<1>a. ASSUME NEW c \in Channels, NEW s \in Slots, NEW m \in MessageDir,
             slot' = [slot EXCEPT ![c] = [slot[c] EXCEPT ![s] = m]],
             \/ slot[c][s] = None /\ stamp' = stamp + 1 /\ m = NewSlot(stamp')
             \/ /\ slot[c][s] # None /\ m.id = slot[c][s].id
                /\ slot[c][s].meta => m.meta
                /\ slot[c][s].data # None => m.data # None
                /\ m.data # None => m.data.of = slot[c][s].id
      PROVE  /\ slot' \in [Channels -> [Slots -> MessageDir \cup {None}]]
             /\ \A x \in Channels, y \in Slots : Grew(x, y)
  <2>1. slot' \in [Channels -> [Slots -> MessageDir \cup {None}]]  BY <1>a DEF TypeOK
  <2>2. slot'[c][s] = m  BY <1>a DEF TypeOK
  <2>3. Grew(c, s)  BY <1>a, <2>2 DEF Grew
  <2>4. ASSUME NEW x \in Channels, NEW y \in Slots, x # c \/ y # s PROVE slot'[x][y] = slot[x][y]
    BY <1>a, <2>4 DEF TypeOK
  <2>5. ASSUME NEW x \in Channels, NEW y \in Slots PROVE Grew(x, y)
    <3>1. CASE x = c /\ y = s  BY <2>3, <3>1
    <3>2. CASE x # c \/ y # s  BY <2>4, <3>2, Zenon DEF Grew
    <3>. QED  BY <3>1, <3>2
  <2>. QED  BY <2>1, <2>5
<1>1. CASE slot' = slot  BY <1>1 DEF TypeOK, Grew
<1>2. ASSUME MakeSlot(t), slot' # slot
      PROVE  /\ slot' \in [Channels -> [Slots -> MessageDir \cup {None}]]
             /\ \A x \in Channels, y \in Slots : Grew(x, y)
  <2> DEFINE c == scope[thread[t].name]
  <2>1. /\ c \in Channels /\ slot[c][n] = None /\ stamp' = stamp + 1
        /\ slot' = [slot EXCEPT ![c] = [slot[c] EXCEPT ![n] = NewSlot(stamp')]]
    BY <1>2 DEF MakeSlot, Free
  <2>2. n \in Slots  BY <1>0, <1>2 DEF MakeSlot, Fits
  <2>3. NewSlot(stamp') \in MessageDir
    <3>1. stamp' \in Nat  BY <2>1 DEF TypeOK
    <3>. QED  BY <3>1 DEF NewSlot, MessageDir
  <2>. QED  BY <1>a, <2>1, <2>2, <2>3
<1>3. ASSUME WriteMeta(t)
      PROVE  /\ slot' \in [Channels -> [Slots -> MessageDir \cup {None}]]
             /\ \A x \in Channels, y \in Slots : Grew(x, y)
  <2>1. d \in Channels /\ n \in Slots /\ slot[d][n] # None
    BY <1>0, <1>3, DueIs DEF WriteMeta, Fits, Held
  <2>2. slot[d][n] \in MessageDir  BY <2>1 DEF TypeOK
  <2> DEFINE m == [slot[d][n] EXCEPT !.meta = TRUE]
  <2>3. m \in MessageDir /\ m.id = slot[d][n].id /\ m.meta /\ m.data = slot[d][n].data
    BY <2>2 DEF MessageDir
  <2>4. slot' = [slot EXCEPT ![d] = [slot[d] EXCEPT ![n] = m]]  BY <1>3 DEF WriteMeta
  <2>5. m.data # None => m.data.of = slot[d][n].id
    <3>1. slot[d][n].data # None => slot[d][n].data.of = slot[d][n].id
      BY <2>1, Zenon DEF SlotInv
    <3> HIDE DEF m
    <3>. QED  BY <2>3, <3>1, Zenon
  <2>. QED  BY <1>a, <2>1, <2>3, <2>4, <2>5, Zenon
<1>4. ASSUME NEW data \in MessageData, data.of = thread[t].id,
             thread[t].pc \in {"meta", "write", "fill"},
             slot' = [slot EXCEPT ![thread[t].dir][thread[t].slot].data = data]
      PROVE  /\ slot' \in [Channels -> [Slots -> MessageDir \cup {None}]]
             /\ \A x \in Channels, y \in Slots : Grew(x, y)
  <2>1. d \in Channels /\ n \in Slots /\ slot[d][n] # None /\ slot[d][n].id = thread[t].id
    BY <1>0, <1>4 DEF Fits, Held
  <2>2. slot[d][n] \in MessageDir  BY <2>1 DEF TypeOK
  <2> DEFINE m == [slot[d][n] EXCEPT !.data = data]
  <2>3. m \in MessageDir /\ m.id = slot[d][n].id /\ m.meta = slot[d][n].meta /\ m.data = data
    BY <2>2 DEF MessageDir
  <2>4. slot' = [slot EXCEPT ![d] = [slot[d] EXCEPT ![n] = m]]  BY <1>4
  <2>5. m.data # None /\ m.data.of = slot[d][n].id  BY <1>4, <2>1, <2>3, Zenon
  <2>. QED  BY <1>a, <2>1, <2>3, <2>4, <2>5, Zenon
<1>5. ASSUME WriteData(t)
      PROVE  /\ slot' \in [Channels -> [Slots -> MessageDir \cup {None}]]
             /\ \A x \in Channels, y \in Slots : Grew(x, y)
  <2>1. thread[t].pc = "meta" /\ thread[t].id \in Nat  BY <1>0, <1>5, DueIs DEF WriteData, Fits
  <2>2. Message(thread[t].id) \in MessageData /\ Message(thread[t].id).of = thread[t].id
    BY <2>1, Zenon DEF Message, MessageData
  <2>. QED  BY <1>4, <1>5, <2>1, <2>2, Zenon DEF WriteData
<1>6. ASSUME WriteBack(t)
      PROVE  /\ slot' \in [Channels -> [Slots -> MessageDir \cup {None}]]
             /\ \A x \in Channels, y \in Slots : Grew(x, y)
  <2>1. thread[t].pc = "fill" /\ thread[t].buf \in MessageData /\ thread[t].buf.of = thread[t].id
    BY <1>0, <1>6, Zenon DEF WriteBack, Fits, At
  <2>2. PICK mixed \in BOOLEAN : slot' = [slot EXCEPT ![d][n].data = [thread[t].buf EXCEPT !.torn = mixed]]
    BY <1>6 DEF WriteBack
  <2>3. [thread[t].buf EXCEPT !.torn = mixed] \in MessageData
        /\ [thread[t].buf EXCEPT !.torn = mixed].of = thread[t].id
    BY <2>1 DEF MessageData
  <2>. QED  BY <1>4, <2>1, <2>2, <2>3, Zenon
<1>8. ASSUME OpenData(t)
      PROVE  /\ slot' \in [Channels -> [Slots -> MessageDir \cup {None}]]
             /\ \A x \in Channels, y \in Slots : Grew(x, y)
  <2>1. thread[t].pc = "write" /\ d \in Channels /\ n \in Slots /\ slot[d][n] # None
        /\ slot[d][n].id = thread[t].id
    BY <1>0, <1>8 DEF OpenData, Fits, Held, At
  <2>2. DataOf(d, n) \in MessageData /\ DataOf(d, n).of = thread[t].id  BY <2>1, DataRead
  <2>3. [DataOf(d, n) EXCEPT !.torn = TRUE] \in MessageData
        /\ [DataOf(d, n) EXCEPT !.torn = TRUE].of = thread[t].id
    BY <2>2 DEF MessageData
  <2>. QED  BY <1>4, <1>8, <2>1, <2>3, Zenon DEF OpenData
<1>7. slot' = slot \/ MakeSlot(t) \/ WriteMeta(t) \/ WriteData(t) \/ OpenData(t) \/ WriteBack(t)
  BY Zenon DEF Step, Channel, MakeChannel, TypeChannel, Select, ScopeSelect, Post, ReadName, ReadDir,
         EnterScope, ChooseSlot, AppendRef, Patch, ReadData, ReadAgain, Up, files
<1>. QED  BY <1>1, <1>2, <1>3, <1>5, <1>6, <1>7, <1>8

\* A request that removes messages finds no other in progress.
LEMMA RemovesAlone ==
    ASSUME TypeOK, FitInv, AloneInv, NEW t \in Threads, RemoveSlot(t) \/ Reset(t),
           NEW u \in Threads \ {t}
    PROVE  thread[u].pc = "idle"
<1>1. t \in Active /\ thread[t].kind \in Alone
  BY DEF RemoveSlot, Reset, At, FitInv, Fits, Alone, Active
<1>. QED  BY <1>1 DEF AloneInv, Active

\* The steps of a request, by what they do to the directories.
LEMMA SlotStep ==
    ASSUME TypeOK, FitInv, HeldInv, SlotInv, AloneInv, Next
    PROVE  /\ slot' \in [Channels -> [Slots -> MessageDir \cup {None}]]
           /\ \A c \in Channels, s \in Slots : Grew(c, s) \/ slot'[c][s] = None
           /\ (\A c \in Channels, s \in Slots : Grew(c, s))
              \/ \E t \in Threads : (RemoveSlot(t) \/ Reset(t))
<1>1. ASSUME NEW t \in Threads, Step(t), ~RemoveSlot(t), ~Reset(t)
      PROVE  /\ slot' \in [Channels -> [Slots -> MessageDir \cup {None}]]
             /\ \A c \in Channels, s \in Slots : Grew(c, s)
  BY <1>1, SlotGrows
<1>2. ASSUME NEW t \in Threads, RemoveSlot(t) \/ Reset(t)
      PROVE  /\ slot' \in [Channels -> [Slots -> MessageDir \cup {None}]]
             /\ \A c \in Channels, s \in Slots : Grew(c, s) \/ slot'[c][s] = None
  <2>1. CASE Reset(t)  BY <2>1 DEF Reset
  <2>2. CASE RemoveSlot(t)
    <3> DEFINE d == scope[thread[t].name]
               n == thread[t].slot
    <3>1. CASE d \in Channels
      <4>1. slot' = [slot EXCEPT ![d] = [slot[d] EXCEPT ![n] = None]]  BY <2>2, <3>1 DEF RemoveSlot
      <4>2. n \in Slots  BY <2>2 DEF RemoveSlot, At, FitInv, Fits
      <4>3. slot' \in [Channels -> [Slots -> MessageDir \cup {None}]]  BY <3>1, <4>1, <4>2 DEF TypeOK
      <4>4. \A c \in Channels, s \in Slots : slot'[c][s] = slot[c][s] \/ slot'[c][s] = None
        BY <3>1, <4>1, <4>2 DEF TypeOK
      <4>. QED  BY <4>3, <4>4 DEF Grew
    <3>2. CASE d \notin Channels  BY <2>2, <3>2 DEF RemoveSlot, TypeOK, Grew
    <3>. QED  BY <3>1, <3>2
  <2>. QED  BY <1>2, <2>1, <2>2
<1>3. CASE slot' = slot  BY <1>3 DEF TypeOK, Grew
<1>4. (\E t \in Threads : Begin(t)) \/ StartWalk \/ SetTableWindow \/ Materialize \/ Restart
      => slot' = slot
  BY ZenonT(30) DEF Begin, StartWalk, SetTableWindow, Materialize, Restart, files
<1>. QED  BY <1>1, <1>2, <1>3, <1>4 DEF Next, Step
-------------------------------------------------------------------------------
(* The invariant.                                                              *)
\* A message directory that only grows is still what a request holds.
LEMMA HeldGrows ==
    ASSUME TypeOK, NEW r \in Request, Fits(r), Held(r, slot),
           \A c \in Channels, s \in Slots : Grew(c, s)
    PROVE  Held(r, slot')
<1> SUFFICES ASSUME r.pc \in {"made", "meta", "data", "reread", "write", "fill"}
             PROVE  Held(r, slot')
  BY DEF Held
<1>1. r.dir \in Channels /\ r.slot \in Slots /\ slot[r.dir][r.slot] # None  BY DEF Fits, Held
<1>2. Grew(r.dir, r.slot)  BY <1>1
<1>. QED  BY <1>1, <1>2 DEF Held, Grew

LEMMA RequestsKept ==
    ASSUME TypeOK, FitInv, AloneInv, HeldInv, SlotInv, Next
    PROVE  thread' \in [Threads -> Request] /\ FitInv' /\ AloneInv' /\ HeldInv'
<1>1. ASSUME NEW t \in Threads, NEW r \in Request, Fits(r), Held(r, slot'),
             thread' = [thread EXCEPT ![t] = r],
             \A u \in Threads \ {t} : thread[u].pc # "idle" => Held(thread[u], slot'),
             \/ r = Idle \/ (thread[t].pc # "idle" /\ r.kind = thread[t].kind)
             \/ (r.kind \in Alone \/ \E u \in Active : thread[u].kind \in Alone) => Active = {}
      PROVE  thread' \in [Threads -> Request] /\ FitInv' /\ AloneInv' /\ HeldInv'
  <2>1. /\ thread' \in [Threads -> Request] /\ FitInv'
        /\ thread'[t] = r /\ \A u \in Threads \ {t} : thread'[u] = thread[u]
    BY <1>1, Kept
  <2>2. HeldInv'
    <3>1. \A u \in Threads : Held(thread'[u], slot')  BY <1>1, <2>1, ZenonT(30) DEF Held
    <3>. QED  BY <3>1 DEF HeldInv
  <2>3. AloneInv'
    <3> SUFFICES ASSUME NEW x \in Threads, NEW y \in Threads, thread'[x].pc # "idle",
                        thread'[y].pc # "idle", thread'[x].kind \in Alone
                 PROVE  x = y
      BY DEF AloneInv, Active
    <3>1. Idle.pc = "idle"  BY DEF Idle
    <3>2. CASE r = Idle  BY <2>1, <3>1, <3>2 DEF AloneInv, Active
    <3>3. CASE thread[t].pc # "idle" /\ r.kind = thread[t].kind
      BY <2>1, <3>3 DEF AloneInv, Active
    <3>4. CASE (r.kind \in Alone \/ \E u \in Active : thread[u].kind \in Alone) => Active = {}
      BY <2>1, <3>4 DEF Active
    <3>. QED  BY <1>1, <3>2, <3>3, <3>4
  <2>. QED  BY <2>1, <2>2, <2>3
<1>2. \A u \in Threads : thread[u] \in Request /\ Fits(thread[u]) /\ Held(thread[u], slot)
  BY DEF TypeOK, FitInv, HeldInv
<1>3. ASSUME NEW t \in Threads, Begin(t)
      PROVE  thread' \in [Threads -> Request] /\ FitInv' /\ AloneInv' /\ HeldInv'
  <2>1. slot' = slot  BY <1>3 DEF Begin, files
  <2>. QED  BY <1>1, <1>2, <1>3, <2>1, BeginAfter
<1>4. ASSUME NEW t \in Threads, Step(t)
      PROVE  thread' \in [Threads -> Request] /\ FitInv' /\ AloneInv' /\ HeldInv'
  <2>1. PICK r : After(t, r)  BY <1>4, StepAfter
  <2>2. ASSUME NEW u \in Threads \ {t}, thread[u].pc # "idle" PROVE Held(thread[u], slot')
    <3>1. ~RemoveSlot(t) /\ ~Reset(t)  BY <2>2, RemovesAlone
    <3>. QED  BY <1>2, <1>4, <3>1, SlotGrows, HeldGrows
  <2>. QED  BY <1>1, <2>1, <2>2 DEF After
<1>5. CASE Restart
  <2>1. \A u \in Threads : thread'[u] = Idle  BY <1>5 DEF Restart
  <2>2. thread' \in [Threads -> Request]  BY <1>5, IdleFits DEF Restart
  <2>3. Idle.pc = "idle" /\ Held(Idle, slot')  BY DEF Idle, Held
  <2>. QED  BY <2>1, <2>2, <2>3, IdleFits DEF FitInv, AloneInv, HeldInv, Active
<1>6. CASE StartWalk \/ SetTableWindow \/ Materialize
  <2>1. UNCHANGED <<thread, slot>>  BY <1>6 DEF StartWalk, SetTableWindow, Materialize, files
  <2>. QED  BY <2>1 DEF TypeOK, FitInv, AloneInv, HeldInv, Active
<1>. QED  BY <1>3, <1>4, <1>5, <1>6 DEF Next, Step

\* Only MakeSlot numbers a message, only AppendRef lists one.
LEMMA Numbered ==
    ASSUME TypeOK, FitInv, HeldInv, SlotInv, Next
    PROVE  /\ stamp' \in Nat /\ stamp' >= stamp
           /\ \/ children' = children
              \/ (\E t \in Threads : Reset(t)) /\ children' = [c \in Channels |-> << >>]
              \/ \E c \in Channels, r \in MessageRef :
                    /\ children' = [children EXCEPT ![c] = Append(@, r)]
                    /\ r.id <= stamp /\ slot' = slot
                    /\ Whole(slot[r.channel][r.slot])
<1>1. stamp' = stamp \/ stamp' = stamp + 1
  <2>1. (\E t \in Threads : Begin(t)) \/ StartWalk \/ SetTableWindow \/ Materialize \/ Restart
        => stamp' = stamp
    BY ZenonT(30) DEF Begin, StartWalk, SetTableWindow, Materialize, Restart, bounds
  <2>2. ASSUME NEW t \in Threads, MakeSlot(t) PROVE stamp' = stamp \/ stamp' = stamp + 1
    <3>1. CASE stamp' = stamp + 1  BY <3>1
    <3>2. CASE UNCHANGED <<stamp, slot>>  BY <3>2
    <3>. QED  BY <2>2, <3>1, <3>2 DEF MakeSlot
  <2>3. ASSUME NEW t \in Threads, Step(t), ~MakeSlot(t) PROVE stamp' = stamp
    BY <2>3, Zenon DEF Step, Channel, MakeChannel, TypeChannel, Select, ScopeSelect, Post, ReadName, ReadDir,
         EnterScope, ChooseSlot, WriteMeta, WriteData, AppendRef, Patch, ReadData, ReadAgain,
         OpenData, WriteBack, RemoveSlot, Reset, Up, files
  <2>. QED  BY <2>1, <2>2, <2>3 DEF Next, Step
<1>2. ASSUME NEW t \in Threads, AppendRef(t), children' # children
      PROVE  \E c \in Channels, r \in MessageRef :
                    /\ children' = [children EXCEPT ![c] = Append(@, r)]
                    /\ r.id <= stamp /\ slot' = slot
                    /\ Whole(slot[r.channel][r.slot])
  <2> DEFINE c == scope[thread[t].name]
             r == Ref(thread[t].dir, thread[t].slot, thread[t].id)
  <2>1. c \in Channels /\ children' = [children EXCEPT ![c] = Append(@, r)] /\ slot' = slot
    BY <1>2 DEF AppendRef
  <2>2. thread[t].pc = "data"  BY <1>2, DueIs DEF AppendRef, At
  <2>3. thread[t].dir \in Channels /\ thread[t].slot \in Slots /\ thread[t].id \in Nat
    BY <2>2 DEF FitInv, Fits
  <2>4. LET m == slot[thread[t].dir][thread[t].slot] IN
            m # None /\ m.id = thread[t].id /\ m.meta /\ m.data # None
    BY <2>2 DEF HeldInv, Held
  <2>5. thread[t].id <= stamp  BY <2>3, <2>4 DEF SlotInv
  <2>6. r \in MessageRef /\ r.id = thread[t].id /\ r.channel = thread[t].dir /\ r.slot = thread[t].slot
    BY <2>3 DEF Ref, MessageRef
  <2>7. Whole(slot[r.channel][r.slot])  BY <2>4, <2>6 DEF Whole
  <2>8. r.id <= stamp  BY <2>5, <2>6
  <2> HIDE DEF c, r
  <2>. QED  BY <2>1, <2>6, <2>7, <2>8
<1>3. ASSUME NEW t \in Threads, Reset(t)
      PROVE  children' = [c \in Channels |-> << >>]
  BY <1>3 DEF Reset
<1>4. (\E t \in Threads : Begin(t)) \/ StartWalk \/ SetTableWindow \/ Materialize \/ Restart
      => children' = children
  BY ZenonT(30) DEF Begin, StartWalk, SetTableWindow, Materialize, Restart, files
<1>5. ASSUME NEW t \in Threads, Step(t), ~AppendRef(t), ~Reset(t)
      PROVE  children' = children
  BY <1>5, Zenon DEF Step, Channel, MakeChannel, TypeChannel, Select, ScopeSelect, Post, ReadName, ReadDir,
         EnterScope, ChooseSlot, MakeSlot, WriteMeta, WriteData, Patch, ReadData, ReadAgain,
         OpenData, WriteBack, RemoveSlot, Up, files
<1>. QED  BY <1>1, <1>2, <1>3, <1>4, <1>5, SMTT(20) DEF Next, Step, TypeOK

\* The channels, the selection and the scopes.
LEMMA PlacesKept ==
    ASSUME TypeOK, FitInv, Next
    PROVE  /\ channel' \in [Channels -> {"none", "dir", "typed"}]
           /\ selected' \in Channels
           /\ scope' \in [Channels \cup {Cmd} -> Channels \cup {Root, Pchat}]
<1> USE DEF At
<1>0. \A t \in Threads : Fits(thread[t])  BY DEF FitInv
<1>1. ASSUME NEW t \in Threads, MakeChannel(t) \/ TypeChannel(t)
      PROVE  /\ channel' \in [Channels -> {"none", "dir", "typed"}] /\ selected' = selected
             /\ scope' \in [Channels \cup {Cmd} -> Channels \cup {Root, Pchat}]
  BY <1>0, <1>1 DEF MakeChannel, TypeChannel, TypeOK, Fits
<1>2. ASSUME NEW t \in Threads, Select(t)
      PROVE  selected' \in Channels /\ UNCHANGED <<channel, scope>>
  BY <1>0, <1>2 DEF Select, Fits
<1>3. ASSUME NEW t \in Threads, ScopeSelect(t) \/ EnterScope(t) \/ Up(t)
      PROVE  /\ scope' \in [Channels \cup {Cmd} -> Channels \cup {Root, Pchat}]
             /\ UNCHANGED <<channel, selected>>
  BY <1>0, <1>3, ZenonT(30) DEF ScopeSelect, EnterScope, Up, TypeOK, Fits, files
<1>4. ASSUME NEW t \in Threads, Reset(t)
      PROVE  /\ channel' \in [Channels -> {"none", "dir", "typed"}] /\ selected' = selected
             /\ scope' \in [Channels \cup {Cmd} -> Channels \cup {Root, Pchat}]
  BY <1>4 DEF Reset, ScopesAfterReset, TypeOK
<1>5. CASE Restart  BY <1>5 DEF Restart, TypeOK, files
<1>6. (\E t \in Threads : Begin(t)) \/ StartWalk \/ SetTableWindow \/ Materialize
      => UNCHANGED <<channel, selected, scope>>
  BY ZenonT(30) DEF Begin, StartWalk, SetTableWindow, Materialize, files
<1>7. ASSUME NEW t \in Threads, Patch(t) \/ RemoveSlot(t) \/ Post(t), ~EnterScope(t)
      PROVE  UNCHANGED <<channel, selected, scope>>
  BY <1>7, Zenon DEF Post, ReadName, ReadDir, ChooseSlot, MakeSlot, WriteMeta, WriteData, AppendRef,
              Patch, ReadData, ReadAgain, OpenData, WriteBack, RemoveSlot, files
<1>. QED  BY <1>1, <1>2, <1>3, <1>4, <1>5, <1>6, <1>7 DEF Next, Channel, TypeOK

LEMMA RefsKept ==
    ASSUME Inv, Next
    PROVE  /\ children' \in [Channels -> Seq(MessageRef)]
           /\ \A c \in Channels : \A i \in DOMAIN children'[c] :
                 \/ i \in DOMAIN children[c] /\ children'[c][i] = children[c][i]
                 \/ /\ slot' = slot /\ children'[c][i].id <= stamp
                    /\ Whole(slot[children'[c][i].channel][children'[c][i].slot])
<1>1. CASE children' = children  BY <1>1 DEF Inv, TypeOK
<1>2. CASE children' = [c \in Channels |-> << >>]  BY <1>2
<1>3. ASSUME NEW d \in Channels, NEW r \in MessageRef, children' = [children EXCEPT ![d] = Append(@, r)],
             r.id <= stamp, slot' = slot, Whole(slot[r.channel][r.slot])
      PROVE  /\ children' \in [Channels -> Seq(MessageRef)]
             /\ \A c \in Channels : \A i \in DOMAIN children'[c] :
                   \/ i \in DOMAIN children[c] /\ children'[c][i] = children[c][i]
                   \/ children'[c][i] = r
  <2>1. children[d] \in Seq(MessageRef)  BY DEF Inv, TypeOK
  <2>2. Append(children[d], r) \in Seq(MessageRef)  BY <2>1
  <2>3. \A i \in DOMAIN Append(children[d], r) :
            \/ i \in DOMAIN children[d] /\ Append(children[d], r)[i] = children[d][i]
            \/ Append(children[d], r)[i] = r
    BY <2>1
  <2>. QED  BY <1>3, <2>2, <2>3 DEF Inv, TypeOK
<1>. QED  BY <1>1, <1>2, <1>3, Numbered DEF Inv

LEMMA NextInv == Inv /\ Next => Inv'
<1> SUFFICES ASSUME Inv, Next PROVE Inv'  OBVIOUS
<1> USE DEF Inv
<1>1. TypeOK'
  <2>1. thread' \in [Threads -> Request]  BY RequestsKept
  <2>2. slot' \in [Channels -> [Slots -> MessageDir \cup {None}]]  BY SlotStep
  <2>3. stamp' \in Nat  BY Numbered
  <2>4. children' \in [Channels -> Seq(MessageRef)]  BY RefsKept
  <2>. QED  BY <2>1, <2>2, <2>3, <2>4, PlacesKept DEF TypeOK
<1>2. FitInv' /\ AloneInv' /\ HeldInv'  BY RequestsKept
<1>3. SlotInv'
  <2> SUFFICES ASSUME NEW c \in Channels, NEW s \in Slots, slot'[c][s] # None
               PROVE  /\ slot'[c][s].id <= stamp'
                      /\ slot'[c][s].data # None => slot'[c][s].data.of = slot'[c][s].id
    BY DEF SlotInv
  <2>1. Grew(c, s)  BY SlotStep
  <2>2. stamp \in Nat /\ stamp' \in Nat /\ stamp' >= stamp  BY Numbered DEF TypeOK
  <2>3. slot[c][s] # None => slot[c][s].id \in Nat  BY DEF TypeOK, MessageDir
  <2>4. CASE slot[c][s] = None /\ slot'[c][s] = NewSlot(stamp')  BY <2>2, <2>4 DEF NewSlot
  <2>5. CASE slot[c][s] # None  BY <2>1, <2>2, <2>3, <2>5 DEF Grew, SlotInv
  <2>. QED  BY <2>1, <2>4, <2>5 DEF Grew
<1>4. RefInv'
  <2> SUFFICES ASSUME NEW c \in Channels, NEW i \in DOMAIN children'[c]
               PROVE  children'[c][i].id <= stamp'
    BY DEF RefInv
  <2>1. stamp \in Nat /\ stamp' \in Nat /\ stamp' >= stamp  BY Numbered DEF TypeOK
  <2>2. children'[c][i] \in MessageRef  BY <1>1 DEF TypeOK
  <2>3. children'[c][i].id <= stamp  BY RefsKept DEF RefInv
  <2>. QED  BY <2>1, <2>2, <2>3 DEF MessageRef
<1>5. ListedIsWhole'
  <2> SUFFICES ASSUME NEW c \in Channels, NEW i \in DOMAIN children'[c],
                      slot'[children'[c][i].channel][children'[c][i].slot] # None,
                      slot'[children'[c][i].channel][children'[c][i].slot].id = children'[c][i].id
               PROVE  Whole(slot'[children'[c][i].channel][children'[c][i].slot])
    BY Zenon DEF ListedIsWhole, Whole
  <2>1. PICK r \in MessageRef : r = children'[c][i]  BY <1>1 DEF TypeOK
  <2>2. CASE slot' = slot /\ Whole(slot[r.channel][r.slot])  BY <2>1, <2>2, Zenon
  <2>3. CASE i \in DOMAIN children[c] /\ children'[c][i] = children[c][i]
    <3> DEFINE m == slot[r.channel][r.slot]
    <3>1. r.channel \in Channels /\ r.slot \in Slots /\ r.id \in Nat /\ r.id <= stamp
      BY <2>1, <2>3 DEF RefInv, MessageRef
    <3>2. Grew(r.channel, r.slot)  BY <2>1, <3>1, SlotStep
    <3>3. ~(stamp' = stamp + 1 /\ slot'[r.channel][r.slot] = NewSlot(stamp'))
      <4>1. slot'[r.channel][r.slot].id = r.id  BY <2>1, Zenon
      <4>2. NewSlot(stamp').id = stamp'  BY DEF NewSlot
      <4>3. stamp \in Nat  BY DEF TypeOK
      <4> HIDE DEF m
      <4>. QED  BY <3>1, <4>1, <4>2, <4>3
    <3>4. m # None /\ m.id = r.id  BY <2>1, <3>2, <3>3, Zenon DEF Grew
    <3>5. Whole(m)  BY <2>1, <2>3, <3>4, Zenon DEF ListedIsWhole
    <3>. QED  BY <2>1, <3>2, <3>3, <3>5, Zenon DEF Grew, Whole
  <2>. QED  BY <2>1, <2>2, <2>3, RefsKept, Zenon
<1>. QED  BY <1>1, <1>2, <1>3, <1>4, <1>5

LEMMA Inductive == Spec => []Inv
<1>1. Inv /\ UNCHANGED vars => Inv'
  <2>. SUFFICES ASSUME Inv, UNCHANGED vars PROVE Inv'  OBVIOUS
  <2>1. TypeOK'  BY DEF vars, Inv, TypeOK
  <2>2. FitInv' /\ HeldInv'  BY DEF vars, Inv, FitInv, HeldInv
  <2>3. AloneInv'  BY DEF vars, Inv, AloneInv, Active
  <2>4. SlotInv' /\ RefInv'  BY DEF vars, Inv, SlotInv, RefInv
  <2>5. ListedIsWhole'  BY DEF vars, Inv, ListedIsWhole
  <2>. QED  BY <2>1, <2>2, <2>3, <2>4, <2>5 DEF Inv
<1>. QED  BY <1>1, InitInv, NextInv, PTL DEF Spec

\* A message that a channel's table lists has all its files, at any moment of any
\* posts, edits, removals and restarts.
THEOREM ListedWhole == Spec => []ListedIsWhole
<1>1. Inv => ListedIsWhole  BY DEF Inv
<1>. QED  BY <1>1, Inductive, PTL

\* A message once made is that message, whatever requests overlap.
THEOREM NeverOverwritten == Spec => NothingOverwritten
<1>1. Inv /\ [Next]_vars =>
        [\A c \in Channels, s \in Slots :
            slot[c][s] # None /\ slot[c][s]' # None =>
                /\ slot[c][s]'.id = slot[c][s].id
                /\ slot[c][s]'.data # None => slot[c][s]'.data.of = slot[c][s].id
                /\ slot[c][s].data # None => slot[c][s]'.data # None]_vars
  <2> SUFFICES ASSUME Inv, Next, NEW c \in Channels, NEW s \in Slots,
                      slot[c][s] # None, slot[c][s]' # None
               PROVE  /\ slot[c][s]'.id = slot[c][s].id
                      /\ slot[c][s]'.data # None => slot[c][s]'.data.of = slot[c][s].id
                      /\ slot[c][s].data # None => slot[c][s]'.data # None
    OBVIOUS
  <2>1. Grew(c, s)  BY SlotStep DEF Inv
  <2>. QED  BY <2>1 DEF Grew, Inv, SlotInv
<1>. QED  BY <1>1, Inductive, PTL DEF Spec, NothingOverwritten

-------------------------------------------------------------------------------
(* What is shown of a list of refs: the induction on its length is taken over  *)
(* a set of numbers, by its least element.                                     *)
HIDE PChatAssumption DEF Slots

Less == {pair \in Nat \X Nat : pair[1] < pair[2]}

LEMMA LeastOf ==
    ASSUME NEW S, S \subseteq Nat, S # {}
    PROVE  \E m \in S : \A k \in S : m <= k
<1>1. IsWellFoundedOn(Less, Nat)  BY NatLessThanWellFounded DEF OpToRel, Less
<1>2. PICK m \in S : \A k \in S : ~ (<<k, m>> \in Less)  BY <1>1, WFMin
<1>3. \A k \in S : k \in Nat /\ m \in Nat /\ ~ (k < m)  BY <1>2 DEF Less
<1>. QED  BY <1>3

\* Induction up to m, over the numbers of a set.
LEMMA UpTo ==
    ASSUME NEW m \in Nat, NEW S, 0 \in S, \A n \in 1..m : n - 1 \in S => n \in S
    PROVE  0..m \subseteq S
<1>. SUFFICES ASSUME 0..m \ S # {} PROVE FALSE  OBVIOUS
<1>1. PICK n \in 0..m \ S : \A k \in 0..m \ S : n <= k
  <2>1. 0..m \ S \subseteq Nat  OBVIOUS
  <2>. QED  BY <2>1, LeastOf
<1>2. n \in 1..m /\ n - 1 \in 0..m /\ n - 1 < n  BY <1>1
<1>. QED  BY <1>1, <1>2

\* f counts up what is shown of the first n refs.
Counting(refs, f) ==
    f = [n \in 0..Len(refs) |->
            IF n = 0 THEN << >>
            ELSE IF Visible(refs[n]) THEN Append(f[n - 1], refs[n]) ELSE f[n - 1]]

LEMMA CountingIs ==
    ASSUME NEW refs, Len(refs) \in Nat, NEW f, Counting(refs, f)
    PROVE  /\ f[0] = << >>
           /\ \A n \in 1..Len(refs) :
                 f[n] = IF Visible(refs[n]) THEN Append(f[n - 1], refs[n]) ELSE f[n - 1]
<1>. DEFINE val(n) == IF n = 0 THEN << >>
                ELSE IF Visible(refs[n]) THEN Append(f[n - 1], refs[n]) ELSE f[n - 1]
<1>1. f = [n \in 0..Len(refs) |-> val(n)]  BY DEF Counting
<1>2. \A n \in 0..Len(refs) : f[n] = val(n)
  <2>. HIDE DEF val
  <2>. QED  BY <1>1
<1>3. 0 \in 0..Len(refs) /\ \A n \in 1..Len(refs) : n \in 0..Len(refs) /\ n # 0  OBVIOUS
<1>. QED  BY <1>2, <1>3, Zenon

LEMMA Counted ==
    ASSUME NEW refs, Len(refs) \in Nat
    PROVE  \E f : Counting(refs, f) /\ Shown(refs) = f[Len(refs)]
<1>. DEFINE val(f, n) == IF n = 0 THEN << >>
                ELSE IF Visible(refs[n]) THEN Append(f[n - 1], refs[n]) ELSE f[n - 1]
            Part(m, f) == f = [n \in 0..m |-> val(f, n)]
            S == {m \in 0..Len(refs) : \E f : Part(m, f)}
<1>2. 0 \in S
  <2>. DEFINE f == [n \in 0..0 |-> << >>]
  <2>1. Part(0, f)  OBVIOUS
  <2>2. 0 \in 0..Len(refs)  OBVIOUS
  <2>. HIDE DEF f, Part
  <2>. QED  BY <2>1, <2>2
<1>3. ASSUME NEW m \in 1..Len(refs), m - 1 \in S PROVE m \in S
  <2>1. PICK f : Part(m - 1, f)  BY <1>3
  <2>. DEFINE g == [n \in 0..m |-> val(f, n)]
  <2>2. \A n \in 0..(m - 1) : g[n] = f[n]
    <3>1. \A n \in 0..(m - 1) : f[n] = val(f, n)  BY <2>1
    <3>. QED  BY <3>1
  <2>3. \A n \in 0..m : val(f, n) = val(g, n)
    <3>1. \A n \in 0..m : n # 0 => n - 1 \in 0..(m - 1)  OBVIOUS
    <3>. HIDE DEF g
    <3>. QED  BY <2>2, <3>1
  <2>4. g = [n \in 0..m |-> val(g, n)]  BY <2>3
  <2>. HIDE DEF g
  <2>5. Part(m, g)  BY <2>4
  <2>. QED  BY <2>5
<1>. HIDE DEF S
<1>4. Len(refs) \in S
  <2>1. 0..Len(refs) \subseteq S  BY <1>2, <1>3, UpTo
  <2>2. Len(refs) \in 0..Len(refs)  OBVIOUS
  <2>. QED  BY <2>1, <2>2
<1>5. \E f : Counting(refs, f)  BY <1>4 DEF S, Counting
<1>6. Shown(refs) = (CHOOSE f : Counting(refs, f))[Len(refs)]  BY DEF Shown, Counting
<1>7. Counting(refs, CHOOSE f : Counting(refs, f))  BY <1>5
<1>. QED  BY <1>6, <1>7

\* s is what is shown of the first m refs, at which places of them.
Picks(refs, s, m, at) ==
    /\ at \in [1..Len(s) -> 1..m]
    /\ \A i, j \in 1..Len(s) : i < j => at[i] < at[j]
    /\ \A i \in 1..Len(s) : s[i] = refs[at[i]]
    /\ \A n \in 1..m : Visible(refs[n]) => \E i \in 1..Len(s) : at[i] = n

LEMMA ShownPicks ==
    ASSUME NEW T, NEW refs \in Seq(T)
    PROVE  Shown(refs) \in Seq(T) /\ \E at : Picks(refs, Shown(refs), Len(refs), at)
<1>1. Len(refs) \in Nat /\ \A n \in 1..Len(refs) : refs[n] \in T  OBVIOUS
<1>2. PICK f : Counting(refs, f) /\ Shown(refs) = f[Len(refs)]  BY <1>1, Counted
<1>3. /\ f[0] = << >>
      /\ \A n \in 1..Len(refs) :
            f[n] = IF Visible(refs[n]) THEN Append(f[n - 1], refs[n]) ELSE f[n - 1]
  BY <1>1, <1>2, CountingIs
<1>. DEFINE S == {n \in 0..Len(refs) : f[n] \in Seq(T) /\ \E at : Picks(refs, f[n], n, at)}
<1>4. 0 \in S
  <2>1. 0 \in 0..Len(refs) /\ << >> \in Seq(T) /\ Len(<< >>) = 0  BY <1>1, EmptySeq
  <2>. DEFINE at == [i \in 1..0 |-> 0]
  <2>2. Picks(refs, << >>, 0, at)  BY <2>1 DEF Picks
  <2>. HIDE DEF at
  <2>. QED  BY <1>3, <2>1, <2>2
<1>5. ASSUME NEW n \in 1..Len(refs), n - 1 \in S PROVE n \in S
  <2>. DEFINE s == f[n - 1]  k == Len(s)
  <2>1. PICK at : Picks(refs, s, n - 1, at)  BY <1>5
  <2>2. s \in Seq(T) /\ k \in Nat /\ n \in Nat /\ refs[n] \in T /\ n \in 0..Len(refs)  BY <1>1, <1>5
  <2>3. CASE ~Visible(refs[n])
    <3>1. f[n] = s  BY <1>3, <2>3
    <3>. HIDE DEF s, k
    <3>2. Picks(refs, s, n, at)
      <4>1. \A i \in 1..n : i = n \/ i \in 1..(n - 1)  BY <2>2
      <4>2. 1..(n - 1) \subseteq 1..n  BY <2>2
      <4>. QED  BY <2>1, <2>3, <4>1, <4>2 DEF Picks
    <3>. QED  BY <2>2, <3>1, <3>2
  <2>4. CASE Visible(refs[n])
    <3>. DEFINE q == Append(s, refs[n])  bt == [i \in 1..(k + 1) |-> IF i = k + 1 THEN n ELSE at[i]]
    <3>1. f[n] = q  BY <1>3, <2>4
    <3>2. /\ q \in Seq(T) /\ Len(q) = k + 1
          /\ q[k + 1] = refs[n] /\ \A i \in 1..k : q[i] = s[i]
      BY <2>2, AppendProperties
    <3>3. bt[k + 1] = n /\ \A i \in 1..k : bt[i] = at[i]  BY <2>2
    <3>4. \A i \in 1..(k + 1) : i = k + 1 \/ i \in 1..k  BY <2>2
    <3>5. /\ at \in [1..k -> 1..(n - 1)]
          /\ \A i, j \in 1..k : i < j => at[i] < at[j]
          /\ \A i \in 1..k : s[i] = refs[at[i]]
          /\ \A p \in 1..(n - 1) : Visible(refs[p]) => \E i \in 1..k : at[i] = p
      BY <2>1 DEF Picks
    <3>. HIDE DEF s, k, q
    <3>6. bt \in [1..(k + 1) -> 1..n]  BY <2>2, <3>5
    <3>. HIDE DEF bt
    <3>7. \A i, j \in 1..(k + 1) : i < j => bt[i] < bt[j]
      <4>. SUFFICES ASSUME NEW i \in 1..(k + 1), NEW j \in 1..(k + 1), i < j PROVE bt[i] < bt[j]
        OBVIOUS
      <4>1. i \in 1..k /\ bt[i] = at[i] /\ at[i] \in 1..(n - 1)  BY <2>2, <3>3, <3>5
      <4>2. CASE j = k + 1  BY <2>2, <3>3, <4>1, <4>2
      <4>3. CASE j \in 1..k  BY <3>3, <3>5, <4>1, <4>3
      <4>. QED  BY <3>4, <4>2, <4>3
    <3>8. \A i \in 1..(k + 1) : q[i] = refs[bt[i]]  BY <3>2, <3>3, <3>4, <3>5
    <3>9. ASSUME NEW p \in 1..n, Visible(refs[p]) PROVE \E i \in 1..(k + 1) : bt[i] = p
      <4>1. CASE p = n
        <5>1. k + 1 \in 1..(k + 1)  BY <2>2
        <5>. QED  BY <3>3, <4>1, <5>1
      <4>2. CASE p # n
        <5>1. p \in 1..(n - 1)  BY <2>2, <4>2
        <5>2. PICK i \in 1..k : at[i] = p  BY <3>5, <3>9, <5>1
        <5>3. i \in 1..(k + 1)  BY <2>2
        <5>. QED  BY <3>3, <5>2, <5>3
      <4>. QED  BY <4>1, <4>2
    <3>10. Picks(refs, q, n, bt)  BY <3>2, <3>6, <3>7, <3>8, <3>9 DEF Picks
    <3>. QED  BY <2>2, <3>1, <3>2, <3>10
  <2>. QED  BY <2>3, <2>4
<1>. HIDE DEF S
<1>6. 0..Len(refs) \subseteq S  BY <1>1, <1>4, <1>5, UpTo
<1>7. Len(refs) \in S
  <2>1. Len(refs) \in 0..Len(refs)  BY <1>1
  <2>. QED  BY <1>6, <2>1
<1>. QED  BY <1>2, <1>7 DEF S
-------------------------------------------------------------------------------
(* A page of a log: the refs before a place of it, the newest first.           *)
\* The refs of log before place p, the newest first.
Below(log, p, refs) ==
    /\ refs \in Seq(MessageRef) /\ Len(refs) = p - 1
    /\ \A i \in 1..(p - 1) : refs[i] = log[p - i]

LEMMA ReverseIs ==
    ASSUME NEW log \in Seq(MessageRef)
    PROVE  Below(log, Len(log) + 1, Reverse(log))
<1>. DEFINE n == Len(log)
<1>1. n \in Nat /\ \A i \in 1..n : log[i] \in MessageRef  OBVIOUS
<1>2. Reverse(log) = [i \in 1..n |-> log[(n - i) + 1]]  BY DEF Reverse
<1>. HIDE DEF n
<1>3. \A i \in 1..n : (n - i) + 1 \in 1..n /\ (n - i) + 1 = (n + 1) - i  BY <1>1
<1>4. \A i \in 1..n : Reverse(log)[i] = log[(n + 1) - i] /\ Reverse(log)[i] \in MessageRef
  BY <1>1, <1>2, <1>3
<1>5. Reverse(log) \in [1..n -> MessageRef]  BY <1>2, <1>4
<1>6. Reverse(log) \in Seq(MessageRef) /\ Len(Reverse(log)) = n  BY <1>1, <1>5, IsASeq, LenProperties
<1>7. (n + 1) - 1 = n  BY <1>1
<1>. QED  BY <1>4, <1>6, <1>7 DEF Below, n

\* The place of a path in a list that names no path twice.
LEMMA IndexIs ==
    ASSUME NEW refs \in Seq(MessageRef), NEW k \in DOMAIN refs,
           \A i \in DOMAIN refs : SamePath(refs[i], refs[k]) => i = k
    PROVE  IndexOf(refs, refs[k]) = k
<1>. DEFINE found == {i \in DOMAIN refs : SamePath(refs[i], refs[k])}
<1>1. found = {k}  BY DEF SamePath
<1>2. k \in Nat  OBVIOUS
<1>3. Min({k}) = k  BY <1>2 DEF Min
<1>4. {k} # {}  OBVIOUS
<1>. HIDE DEF found
<1>5. IndexOf(refs, refs[k]) = IF found = {} THEN 0 ELSE Min(found)  BY DEF IndexOf, found
<1>. QED  BY <1>1, <1>3, <1>4, <1>5

\* IndexOf is a place of the list, or 0.
LEMMA IndexIn ==
    ASSUME NEW refs \in Seq(MessageRef), NEW r
    PROVE  IndexOf(refs, r) \in 0..Len(refs)
<1>. DEFINE found == {i \in DOMAIN refs : SamePath(refs[i], r)}
<1>1. IndexOf(refs, r) = IF found = {} THEN 0 ELSE Min(found)  BY DEF IndexOf
<1>2. found \subseteq 1..Len(refs) /\ Len(refs) \in Nat  OBVIOUS
<1>. HIDE DEF found
<1>3. CASE found = {}  BY <1>1, <1>2, <1>3
<1>4. CASE found # {}
  <2>1. PICK m \in found : \A k \in found : m <= k
    <3>1. found \subseteq Nat  BY <1>2
    <3>. QED  BY <1>4, <3>1, LeastOf
  <2>2. Min(found) \in found  BY <2>1 DEF Min
  <2>3. IndexOf(refs, r) = Min(found)  BY <1>1, <1>4
  <2>4. Min(found) \in 1..Len(refs)  BY <1>2, <2>2
  <2>. QED  BY <1>2, <2>3, <2>4
<1>. HIDE DEF found
<1>. QED  BY <1>3, <1>4

LEMMA OlderIn ==
    ASSUME NEW refs \in Seq(MessageRef), NEW r
    PROVE  OlderThan(refs, r) \in Seq(MessageRef)
<1>. DEFINE k == IndexOf(refs, r)
<1>1. k \in 0..Len(refs) /\ Len(refs) \in Nat  BY IndexIn
<1>2. OlderThan(refs, r) = IF k = 0 THEN << >> ELSE SubSeq(refs, k + 1, Len(refs))  BY DEF OlderThan
<1>. HIDE DEF k
<1>3. \A i \in (k + 1)..Len(refs) : i \in 1..Len(refs) /\ refs[i] \in MessageRef  BY <1>1
<1>4. k + 1 \in Int /\ Len(refs) \in Int  BY <1>1
<1>5. SubSeq(refs, k + 1, Len(refs)) \in Seq(MessageRef)  BY <1>3, <1>4, SubSeqProperties
<1>6. << >> \in Seq(MessageRef)  BY EmptySeq
<1>. QED  BY <1>2, <1>5, <1>6

LEMMA OlderIs ==
    ASSUME NEW log \in Seq(MessageRef), Unique(log), NEW p \in 1..Len(log)
    PROVE  Below(log, p, OlderThan(Reverse(log), log[p]))
<1>. DEFINE n == Len(log)  refs == Reverse(log)  k == (n + 1) - p
<1>1. n \in Nat /\ p \in 1..n /\ k \in 1..n /\ k + p = n + 1  OBVIOUS
<1>2. refs \in Seq(MessageRef) /\ Len(refs) = n /\ \A i \in 1..n : refs[i] = log[(n + 1) - i]
  BY ReverseIs DEF Below
<1>. HIDE DEF refs, n, k
<1>3. (n + 1) - k = p /\ refs[k] = log[p]  BY <1>1, <1>2
<1>4. ASSUME NEW i \in 1..n, SamePath(refs[i], refs[k]) PROVE i = k
  <2>1. (n + 1) - i \in 1..n  BY <1>1
  <2>2. SamePath(log[(n + 1) - i], log[p])  BY <1>2, <1>3, <1>4
  <2>3. DOMAIN log = 1..n  BY DEF n
  <2>4. (n + 1) - i = p  BY <1>1, <2>1, <2>2, <2>3 DEF Unique
  <2>. QED  BY <1>1, <2>4
<1>5. DOMAIN refs = 1..n  BY <1>2
<1>6. IndexOf(refs, log[p]) = k  BY <1>1, <1>2, <1>3, <1>4, <1>5, IndexIs
<1>7. OlderThan(refs, log[p]) = SubSeq(refs, k + 1, n)  BY <1>1, <1>2, <1>6 DEF OlderThan
<1>8. \A i \in (k + 1)..n : i \in 1..n /\ refs[i] \in MessageRef  BY <1>1, <1>2, <1>5, ElementOfSeq
<1>9. k + 1 \in Int /\ n \in Int /\ (n - (k + 1)) + 1 = p - 1  BY <1>1
<1>10. LET q == SubSeq(refs, k + 1, n) IN
       /\ q \in Seq(MessageRef) /\ Len(q) = p - 1
       /\ \A i \in 1..(p - 1) : q[i] = refs[(k + i)]
  <2>1. SubSeq(refs, k + 1, n) \in Seq(MessageRef)  BY <1>8, <1>9, SubSeqProperties
  <2>2. Len(SubSeq(refs, k + 1, n)) = p - 1  BY <1>1, <1>8, <1>9, SubSeqProperties
  <2>3. \A i \in 1..(p - 1) : SubSeq(refs, k + 1, n)[i] = refs[k + i]
    <3>1. \A i \in 1..(p - 1) : i \in 1..((n - (k + 1)) + 1)  BY <1>9
    <3>2. \A i \in 1..(p - 1) : (k + 1) + i - 1 = k + i  BY <1>1
    <3>. QED  BY <1>1, <1>8, <1>9, <3>1, <3>2, SubSeqProperties
  <2>. QED  BY <2>1, <2>2, <2>3
<1>11. \A i \in 1..(p - 1) : k + i \in 1..n /\ (n + 1) - (k + i) = p - i  BY <1>1
<1>12. \A i \in 1..(p - 1) : SubSeq(refs, k + 1, n)[i] = log[p - i]  BY <1>2, <1>10, <1>11
<1>. QED  BY <1>7, <1>10, <1>12 DEF Below, refs

\* seen lists refs of log, the newest first, at the places at: every owed one down
\* to the last of them, and every owed one when the client is done.
Paged(seen, log, owed, done, at) ==
    /\ at \in [1..Len(seen) -> 1..Len(log)]
    /\ \A i \in 1..Len(seen) : log[at[i]] = seen[i]
    /\ \A i, j \in 1..Len(seen) : i < j => at[i] > at[j]
    /\ \A j \in 1..Len(log) :
          log[j] \in owed /\ (done \/ \E i \in 1..Len(seen) : at[i] <= j)
             => \E i \in 1..Len(seen) : seen[i] = log[j]

\* What is owed can only become less, and the log longer.
LEMMA PagedStill ==
    ASSUME NEW seen \in Seq(MessageRef), NEW log \in Seq(MessageRef), NEW more \in Seq(MessageRef),
           NEW owed, NEW less, NEW done \in BOOLEAN, NEW at,
           Paged(seen, log, owed, done, at), less \subseteq owed, Len(log) <= Len(more),
           \A j \in 1..Len(log) : more[j] = log[j],
           \A j \in 1..Len(more) : more[j] \in less => j \in 1..Len(log)
    PROVE  Paged(seen, more, less, done, at)
<1>1. Len(log) \in Nat /\ Len(more) \in Nat /\ Len(seen) \in Nat /\ 1..Len(log) \subseteq 1..Len(more)
  OBVIOUS
<1>2. at \in [1..Len(seen) -> 1..Len(more)]  BY <1>1 DEF Paged
<1>3. \A i \in 1..Len(seen) : more[at[i]] = seen[i]  BY DEF Paged
<1>4. ASSUME NEW j \in 1..Len(more), more[j] \in less,
             done \/ \E i \in 1..Len(seen) : at[i] <= j
      PROVE  \E i \in 1..Len(seen) : seen[i] = more[j]
  <2>1. j \in 1..Len(log) /\ more[j] = log[j]  BY <1>4
  <2>. QED  BY <1>4, <2>1 DEF Paged
<1>. QED  BY <1>2, <1>3, <1>4 DEF Paged

\* Where the next page begins.
Place(seen, log, at) == IF seen = << >> THEN Len(log) + 1 ELSE at[Len(seen)]

LEMMA PlaceIs ==
    ASSUME NEW seen \in Seq(MessageRef), NEW log \in Seq(MessageRef), NEW owed, NEW done \in BOOLEAN,
           NEW at, Paged(seen, log, owed, done, at)
    PROVE  LET p == Place(seen, log, at) IN
           /\ p \in 1..(Len(log) + 1) /\ \A i \in 1..Len(seen) : at[i] >= p
           /\ seen # << >> => p \in 1..Len(log) /\ log[p] = seen[Len(seen)]
           /\ \A j \in 1..Len(log) : j >= p => \E i \in 1..Len(seen) : at[i] <= j
<1>1. Len(log) \in Nat /\ Len(seen) \in Nat  OBVIOUS
<1>2. CASE seen = << >>
  <2>1. Place(seen, log, at) = Len(log) + 1 /\ Len(seen) = 0  BY <1>2 DEF Place
  <2>. QED  BY <1>1, <1>2, <2>1
<1>3. CASE seen # << >>
  <2>. DEFINE n == Len(seen)
  <2>1. n \in Nat /\ n # 0 /\ Place(seen, log, at) = at[n]  BY <1>3, EmptySeq DEF Place
  <2>2. n \in 1..n  BY <2>1
  <2>3. at[n] \in 1..Len(log) /\ log[at[n]] = seen[n]  BY <2>2 DEF Paged
  <2>4. \A i \in 1..n : at[i] \in Nat /\ at[i] >= at[n]
    <3>1. \A i \in 1..n : i < n => at[i] > at[n]  BY <2>2 DEF Paged
    <3>2. \A i \in 1..n : at[i] \in 1..Len(log)  BY DEF Paged
    <3>3. \A i \in 1..n : i < n \/ i = n  BY <2>1
    <3>. QED  BY <3>1, <3>2, <3>3, <2>3
  <2>. QED  BY <1>1, <1>3, <2>1, <2>2, <2>3, <2>4
<1>. QED  BY <1>2, <1>3

\* No row: nothing is left to be seen.
LEMMA LastPage ==
    ASSUME NEW seen \in Seq(MessageRef), NEW log \in Seq(MessageRef), NEW owed, NEW at,
           Paged(seen, log, owed, FALSE, at), \A r \in owed : Visible(r),
           NEW inside, Below(log, Place(seen, log, at), inside), Shown(inside) = << >>
    PROVE  Paged(seen, log, owed, TRUE, at)
<1>. DEFINE p == Place(seen, log, at)
<1>1. p \in 1..(Len(log) + 1) /\ \A j \in 1..Len(log) : j >= p => \E i \in 1..Len(seen) : at[i] <= j
  BY PlaceIs
<1>2. /\ inside \in Seq(MessageRef) /\ Len(inside) = p - 1
      /\ \A i \in 1..(p - 1) : inside[i] = log[p - i]
  BY DEF Below
<1>. HIDE DEF p
<1>3. ASSUME NEW j \in 1..Len(log), log[j] \in owed PROVE \E i \in 1..Len(seen) : seen[i] = log[j]
  <2>1. CASE j >= p  BY <1>1, <1>3, <2>1 DEF Paged
  <2>2. ASSUME ~(j >= p) PROVE FALSE
    <3>1. p - j \in 1..(p - 1) /\ p - (p - j) = j  BY <1>1, <2>2
    <3>2. inside[p - j] = log[j] /\ Visible(log[j])  BY <1>2, <1>3, <3>1
    <3>3. PICK f : Picks(inside, Shown(inside), Len(inside), f)  BY <1>2, ShownPicks
    <3>4. Len(Shown(inside)) = 0  OBVIOUS
    <3>5. \E i \in 1..0 : f[i] = p - j
      <4>1. Visible(inside[p - j])  BY <3>2
      <4>. HIDE DEF Visible
      <4>. QED  BY <1>2, <3>1, <3>3, <3>4, <4>1 DEF Picks
    <3>. QED  BY <3>5
  <2>. QED  BY <2>1, <2>2
<1>. QED  BY <1>3 DEF Paged

\* rows are the first of what is shown of refs.
Rows(rows, refs) ==
    /\ rows \in Seq(MessageRef) /\ Len(rows) \in 1..Len(Shown(refs))
    /\ \A i \in 1..Len(rows) : rows[i] = Shown(refs)[i]

\* A page of rows: at goes on with their places.
LEMMA NextPage ==
    ASSUME NEW seen \in Seq(MessageRef), NEW log \in Seq(MessageRef), NEW owed, NEW at,
           Paged(seen, log, owed, FALSE, at), \A r \in owed : Visible(r),
           NEW inside, Below(log, Place(seen, log, at), inside),
           NEW rows, Rows(rows, inside)
    PROVE  \E to : Paged(seen \o rows, log, owed, FALSE, to)
<1>. DEFINE p == Place(seen, log, at)  n == Len(seen)  shown == Shown(inside)  k == Len(rows)
<1>1. /\ p \in 1..(Len(log) + 1) /\ \A i \in 1..n : at[i] >= p
      /\ \A j \in 1..Len(log) : j >= p => \E i \in 1..n : at[i] <= j
  BY PlaceIs
<1>2. /\ inside \in Seq(MessageRef) /\ Len(inside) = p - 1
      /\ \A i \in 1..(p - 1) : inside[i] = log[p - i]
  BY DEF Below
<1>3. shown \in Seq(MessageRef) /\ \E f : Picks(inside, shown, Len(inside), f)  BY <1>2, ShownPicks
<1>4. PICK f : Picks(inside, shown, p - 1, f)  BY <1>2, <1>3
<1>5. /\ Len(shown) \in Nat /\ n \in Nat /\ Len(log) \in Nat /\ k \in 1..Len(shown)
      /\ rows \in Seq(MessageRef) /\ \A i \in 1..k : rows[i] = shown[i]
  BY <1>3 DEF Rows
<1>6. /\ f \in [1..Len(shown) -> 1..(p - 1)]
      /\ \A i, j \in 1..Len(shown) : i < j => f[i] < f[j]
      /\ \A i \in 1..Len(shown) : shown[i] = inside[f[i]]
      /\ \A q \in 1..(p - 1) : Visible(inside[q]) => \E i \in 1..Len(shown) : f[i] = q
  BY <1>4 DEF Picks
<1>7. /\ at \in [1..n -> 1..Len(log)]
      /\ \A i \in 1..n : log[at[i]] = seen[i]
      /\ \A i, j \in 1..n : i < j => at[i] > at[j]
      /\ \A j \in 1..Len(log) :
          log[j] \in owed /\ (\E i \in 1..n : at[i] <= j) => \E i \in 1..n : seen[i] = log[j]
  BY DEF Paged
<1>. DEFINE all == seen \o rows  to == [i \in 1..(n + k) |-> IF i <= n THEN at[i] ELSE p - f[i - n]]
<1>8. /\ all \in Seq(MessageRef) /\ Len(all) = n + k
      /\ \A i \in 1..n : all[i] = seen[i]
      /\ \A i \in 1..k : all[n + i] = shown[i]
  <2>1. all \in Seq(MessageRef) /\ Len(all) = n + k  BY <1>5, ConcatProperties
  <2>2. \A i \in 1..(n + k) : all[i] = IF i <= n THEN seen[i] ELSE rows[i - n]
    BY <1>5, ConcatProperties
  <2>3. \A i \in 1..n : i \in 1..(n + k) /\ i <= n  BY <1>5
  <2>4. \A i \in 1..k : n + i \in 1..(n + k) /\ ~(n + i <= n) /\ (n + i) - n = i  BY <1>5
  <2>. HIDE DEF all
  <2>. QED  BY <1>5, <2>1, <2>2, <2>3, <2>4
<1>9. /\ \A i \in 1..n : to[i] = at[i]
      /\ \A i \in 1..k : to[n + i] = p - f[i]
  BY <1>5
<1>10. \A i \in 1..(n + k) : i \in 1..n \/ \E q \in 1..k : i = n + q
  <2>1. \A i \in 1..(n + k) : i \in 1..n \/ (i - n \in 1..k /\ i = n + (i - n))  BY <1>5
  <2>. QED  BY <2>1
<1>. HIDE DEF p, n, shown, k, all
<1>11. ASSUME NEW i \in 1..k
       PROVE  /\ i \in 1..Len(shown) /\ f[i] \in 1..(p - 1) /\ p - f[i] \in 1..Len(log)
              /\ p - f[i] < p /\ shown[i] = log[p - f[i]]
  <2>1. i \in 1..Len(shown)  BY <1>5
  <2>2. f[i] \in 1..(p - 1)  BY <1>6, <2>1
  <2>3. p - f[i] \in 1..Len(log) /\ p - f[i] < p  BY <1>1, <1>5, <2>2
  <2>4. shown[i] = log[p - f[i]]  BY <1>2, <1>6, <2>1, <2>2
  <2>. QED  BY <2>1, <2>2, <2>3, <2>4
<1>12. to \in [1..(n + k) -> 1..Len(log)]
  <2>1. \A i \in 1..(n + k) : to[i] \in 1..Len(log)
    <3>. HIDE DEF to
    <3>1. \A i \in 1..n : to[i] \in 1..Len(log)  BY <1>7, <1>9
    <3>2. \A i \in 1..k : to[n + i] \in 1..Len(log)  BY <1>9, <1>11
    <3>. QED  BY <1>10, <3>1, <3>2, Zenon
  <2>. QED  BY <2>1
<1>. HIDE DEF to
<1>13. \A i \in 1..(n + k) : log[to[i]] = all[i]
  <2>1. \A i \in 1..n : log[to[i]] = all[i]  BY <1>7, <1>8, <1>9
  <2>2. \A i \in 1..k : log[to[n + i]] = all[n + i]  BY <1>8, <1>9, <1>11
  <2>. QED  BY <1>10, <2>1, <2>2, Zenon
<1>14. ASSUME NEW i \in 1..(n + k), NEW j \in 1..(n + k), i < j PROVE to[i] > to[j]
  <2>1. CASE i \in 1..n /\ j \in 1..n  BY <1>7, <1>9, <1>14, <2>1
  <2>2. ASSUME NEW q \in 1..k, j = n + q PROVE to[i] > to[j]
    <3>1. to[j] = p - f[q] /\ f[q] \in 1..(p - 1) /\ p \in Nat /\ q \in 1..Len(shown)
      BY <1>1, <1>9, <1>11, <2>2
    <3>2. CASE i \in 1..n
      <4>1. to[i] >= p /\ to[i] \in Nat  BY <1>1, <1>7, <1>9, <3>2
      <4>. QED  BY <3>1, <4>1
    <3>3. ASSUME NEW x \in 1..k, i = n + x PROVE to[i] > to[j]
      <4>1. to[i] = p - f[x] /\ f[x] \in 1..(p - 1) /\ x \in 1..Len(shown)  BY <1>9, <1>11, <3>3
      <4>2. x < q  BY <1>5, <1>14, <2>2, <3>3
      <4>3. f[x] < f[q]  BY <1>6, <3>1, <4>1, <4>2
      <4>. QED  BY <3>1, <4>1, <4>3
    <3>. QED  BY <1>10, <3>2, <3>3
  <2>3. i \in 1..n \/ ~(j \in 1..n)  BY <1>5, <1>14
  <2>. QED  BY <1>10, <2>1, <2>2, <2>3
<1>15. ASSUME NEW j \in 1..Len(log), log[j] \in owed, NEW i \in 1..(n + k), to[i] <= j
       PROVE  \E q \in 1..(n + k) : all[q] = log[j]
  <2>1. CASE j >= p
    <3>1. PICK q \in 1..n : seen[q] = log[j]  BY <1>1, <1>7, <1>15, <2>1
    <3>2. q \in 1..(n + k)  BY <1>5
    <3>. QED  BY <1>8, <3>1, <3>2
  <2>2. CASE j < p
    <3>1. p - j \in 1..(p - 1) /\ p - (p - j) = j /\ p \in Nat  BY <1>1, <2>2
    <3>2. Visible(inside[p - j])
      <4>1. inside[p - j] = log[j]  BY <1>2, <3>1
      <4>. QED  BY <1>15, <4>1
    <3>3. PICK q \in 1..Len(shown) : f[q] = p - j  BY <1>6, <3>1, <3>2
    <3>4. q <= k
      <4>1. PICK x \in 1..k : i = n + x
        <5>1. ASSUME i \in 1..n PROVE to[i] >= p /\ to[i] \in Nat
          <6>1. to[i] = at[i] /\ at[i] \in 1..Len(log) /\ at[i] >= p  BY <1>1, <1>7, <1>9, <5>1
          <6>. QED  BY <6>1
        <5>. QED  BY <1>1, <1>10, <1>15, <2>2, <5>1
      <4>2. to[i] = p - f[x] /\ f[x] \in 1..(p - 1) /\ x \in 1..Len(shown)  BY <1>9, <1>11, <4>1
      <4>3. f[q] <= f[x]  BY <1>15, <3>1, <3>3, <4>2
      <4>4. ~(x < q)  BY <1>6, <3>1, <3>3, <4>2, <4>3
      <4>. QED  BY <1>5, <4>1, <4>4
    <3>5. q \in 1..k /\ n + q \in 1..(n + k)  BY <1>5, <3>4
    <3>6. all[n + q] = log[j]  BY <1>8, <1>11, <3>1, <3>3, <3>5
    <3>. QED  BY <3>5, <3>6
  <2>. QED  BY <1>1, <2>1, <2>2
<1>16. Paged(all, log, owed, FALSE, to)
  <2>1. \A j \in 1..Len(log) : log[j] \in owed /\ (\E i \in 1..(n + k) : to[i] <= j)
            => \E q \in 1..(n + k) : all[q] = log[j]
    BY <1>15
  <2>. QED  BY <1>8, <1>12, <1>13, <1>14, <2>1 DEF Paged
<1>. QED  BY <1>16 DEF all

-------------------------------------------------------------------------------
(* The client that pages back through the table of the selected channel.       *)
LEMMA BoundsAre == None \notin MessageRef /\ Limit \in Nat \ {0}  BY PChatAssumption

\* The message a ref names is there.
Alive(r) == Visible(r) /\ slot[r.channel][r.slot].id = r.id
Log == children[walk.channel]
\* What the client is to see.
Owed == {r \in walk.must : Alive(r)}

\* The client pages through the channel that is selected.
WalkInv ==
    /\ window \in [before : MessageRef \cup {None}, after : {None}, limit : {Limit}]
    /\ walk \in [pc : {"off", "ask", "load", "done"}, channel : Channels \cup {None},
                 cursor : MessageRef \cup {None}, seen : Seq(MessageRef), must : SUBSET MessageRef]
    /\ walk.pc # "off" =>
         /\ walk.channel = selected /\ channel[selected] # "none"
         /\ \A r \in walk.must : r.id <= stamp /\ \E j \in DOMAIN Log : Log[j] = r
         /\ walk.cursor = IF walk.seen = << >> THEN None ELSE walk.seen[Len(walk.seen)]
         /\ walk.pc = "load" => window.before = walk.cursor

\* What it has seen are refs of the log, with every owed one down to the last.
PageInv == walk.pc # "off" /\ Unique(Log) =>
    \E at : Paged(walk.seen, Log, Owed, walk.pc = "done", at)

LEMMA LogIs ==
    ASSUME TypeOK, WalkInv, walk.pc # "off"
    PROVE  walk.channel \in Channels /\ Log \in Seq(MessageRef) /\ walk.seen \in Seq(MessageRef)
BY DEF TypeOK, WalkInv, Log

LEMMA InitWalk == Init => WalkInv /\ PageInv
<1>. SUFFICES ASSUME Init PROVE WalkInv /\ PageInv  OBVIOUS
<1>1. << >> \in Seq(MessageRef)  BY EmptySeq
<1>. QED  BY <1>1 DEF Init, WalkInv, PageInv, NoWalk

\* A step that is not the client's leaves what it pages through, or ends it.
LEMMA WalkStep ==
    ASSUME TypeOK, WalkInv, Next, ~StartWalk, ~SetTableWindow, ~Materialize
    PROVE  /\ window' = window
           /\ walk' = NoWalk \/ (walk' = walk /\ (walk.pc # "off" =>
                selected' = selected /\ channel'[selected] # "none"))
<1>. USE DEF At
<1>0. walk.pc # "off" => walk.channel = selected /\ channel[selected] # "none"  BY DEF WalkInv
<1>1. CASE Restart \/ \E t \in Threads : Begin(t)
  <2>1. UNCHANGED files /\ UNCHANGED walk  BY <1>1, ZenonT(30) DEF Begin, Restart
  <2>. QED  BY <1>0, <2>1 DEF files
<1>2. ASSUME NEW t \in Threads, MakeChannel(t) \/ TypeChannel(t)
      PROVE  /\ walk' = walk /\ window' = window /\ selected' = selected
             /\ walk.pc # "off" => channel'[selected] # "none"
  <2>1. selected \in Channels  BY DEF TypeOK
  <2>2. \A c \in Channels : channel[c] # "none" => channel'[c] # "none"
    BY <1>2 DEF MakeChannel, TypeChannel, TypeOK
  <2>3. walk' = walk /\ window' = window /\ selected' = selected
    BY <1>2, Zenon DEF MakeChannel, TypeChannel
  <2>. QED  BY <1>0, <2>1, <2>2, <2>3
<1>3. ASSUME NEW t \in Threads, Select(t)
      PROVE  /\ window' = window /\ channel' = channel
             /\ walk' = NoWalk \/ (walk' = walk /\ walk.channel = selected')
  BY <1>3 DEF Select
<1>4. ASSUME NEW t \in Threads, Reset(t) PROVE walk' = NoWalk /\ window' = window
  BY <1>4 DEF Reset
<1>5. ASSUME NEW t \in Threads, ScopeSelect(t) \/ Post(t) \/ Patch(t) \/ RemoveSlot(t) \/ Up(t)
      PROVE  UNCHANGED <<walk, window, selected, channel>>
  BY <1>5, Zenon DEF ScopeSelect, Post, ReadName, ReadDir, EnterScope, ChooseSlot, MakeSlot,
         WriteMeta, WriteData, AppendRef, Patch, ReadData, ReadAgain, OpenData, WriteBack, RemoveSlot, Up, files
<1>6. ASSUME NEW t \in Threads, Step(t)
      PROVE  /\ window' = window
             /\ walk' = NoWalk \/ (walk' = walk /\ (walk.pc # "off" =>
                  selected' = selected /\ channel'[selected] # "none"))
  BY <1>0, <1>2, <1>3, <1>4, <1>5, <1>6, Zenon DEF Step, Channel
<1>. QED  BY <1>1, <1>6 DEF Next, Step

\* What is owed to the client can only become less.
LEMMA OwedLess ==
    ASSUME Inv, WalkInv, Next, walk.pc # "off", walk'.must = walk.must
    PROVE  Owed' \subseteq Owed
<1>. SUFFICES ASSUME NEW r \in walk.must, Alive(r)' PROVE Alive(r)  BY DEF Owed
<1>1. r \in MessageRef /\ r.id <= stamp  BY DEF WalkInv
<1>2. r.channel \in Channels /\ r.slot \in Slots /\ r.id \in Nat /\ stamp \in Nat
  BY <1>1 DEF MessageRef, Inv, TypeOK
<1>3. slot'[r.channel][r.slot] # None /\ slot'[r.channel][r.slot].id = r.id
  BY DEF Alive, Visible
<1>4. Grew(r.channel, r.slot)  BY <1>2, <1>3, SlotStep DEF Inv
<1>5. ~(stamp' = stamp + 1 /\ slot'[r.channel][r.slot] = NewSlot(stamp'))
  BY <1>1, <1>2, <1>3 DEF NewSlot
<1>. QED  BY <1>3, <1>4, <1>5 DEF Grew, Alive, Visible

\* The log the client pages through can only become longer, and what is new in it
\* is not owed.
LEMMA LogStep ==
    ASSUME Inv, WalkInv, Next, walk' = walk, walk.pc # "off"
    PROVE  /\ Log' \in Seq(MessageRef) /\ Len(Log) <= Len(Log')
           /\ \A j \in 1..Len(Log) : Log'[j] = Log[j]
           /\ Unique(Log') => /\ Unique(Log)
                              /\ \A j \in 1..Len(Log') : Log'[j] \in walk.must => j \in 1..Len(Log)
<1>1. walk.channel \in Channels /\ Log \in Seq(MessageRef)  BY LogIs DEF Inv
<1>2. Len(Log) \in Nat /\ DOMAIN Log = 1..Len(Log)  BY <1>1
<1>3. Log' = children'[walk.channel]  BY DEF Log
<1>4. CASE Log' = Log  BY <1>1, <1>2, <1>4
<1>5. ASSUME NEW r \in MessageRef, Log' = Append(Log, r)
      PROVE  /\ Log' \in Seq(MessageRef) /\ Len(Log) <= Len(Log')
             /\ \A j \in 1..Len(Log) : Log'[j] = Log[j]
             /\ Unique(Log') => /\ Unique(Log)
                                /\ \A j \in 1..Len(Log') : Log'[j] \in walk.must => j \in 1..Len(Log)
  <2>. DEFINE n == Len(Log)  more == Append(Log, r)
  <2>1. /\ more \in Seq(MessageRef) /\ Len(more) = n + 1 /\ DOMAIN more = 1..(n + 1)
        /\ more[n + 1] = r /\ \A j \in 1..n : more[j] = Log[j]
    BY <1>1, AppendProperties
  <2>2. n \in Nat /\ n <= n + 1 /\ 1..n \subseteq 1..(n + 1) /\ n + 1 \in 1..(n + 1)  BY <1>2
  <2>3. \A j \in 1..(n + 1) : j \in 1..n \/ j = n + 1  BY <2>2
  <2>4. ASSUME Unique(more)
        PROVE  /\ Unique(Log)
               /\ \A j \in 1..(n + 1) : more[j] \in walk.must => j \in 1..n
    <3>. HIDE DEF more
    <3>1. \A i, j \in 1..(n + 1) : SamePath(more[i], more[j]) => i = j
      BY <2>1, <2>4 DEF Unique
    <3>2. Unique(Log)  BY <1>2, <2>1, <2>2, <3>1, Zenon DEF Unique
    <3>3. ASSUME more[n + 1] \in walk.must PROVE FALSE
      <4>1. PICK j \in 1..n : Log[j] = more[n + 1]  BY <1>2, <3>3 DEF WalkInv
      <4>2. SamePath(more[j], more[n + 1])  BY <2>1, <4>1 DEF SamePath
      <4>3. j = n + 1  BY <2>2, <3>1, <4>2
      <4>. QED  BY <2>2, <4>3
    <3>. QED  BY <2>3, <3>2, <3>3
  <2>. QED  BY <1>5, <2>1, <2>2, <2>4
<1>6. ~\E t \in Threads : Reset(t)  BY DEF Reset, NoWalk
<1>7. CASE children' = children  BY <1>3, <1>4, <1>7 DEF Log
<1>8. ASSUME NEW c \in Channels, NEW r \in MessageRef, children' = [children EXCEPT ![c] = Append(@, r)]
      PROVE  Log' = Log \/ Log' = Append(Log, r)
  BY <1>1, <1>3, <1>8 DEF Log, Inv, TypeOK
<1>. QED  BY <1>4, <1>5, <1>6, <1>7, <1>8, Numbered, Zenon DEF Inv

LEMMA WalkKept ==
    ASSUME Inv, WalkInv, PageInv, Next, ~StartWalk, ~SetTableWindow, ~Materialize
    PROVE  WalkInv' /\ PageInv'
<1>. USE DEF Inv
<1>1. window' = window  BY WalkStep
<1>2. CASE walk' = NoWalk
  <2>1. << >> \in Seq(MessageRef)  BY EmptySeq
  <2>2. walk'.pc = "off"  BY <1>2 DEF NoWalk
  <2>3. WalkInv'  BY <1>1, <1>2, <2>1 DEF WalkInv, NoWalk
  <2>. QED  BY <2>2, <2>3 DEF PageInv
<1>3. CASE walk' = walk /\ walk.pc = "off"  BY <1>1, <1>3 DEF WalkInv, PageInv
<1>4. CASE walk' = walk /\ walk.pc # "off"
  <2>1. selected' = selected /\ channel'[selected] # "none"
    <3>1. walk' # NoWalk  BY <1>4 DEF NoWalk
    <3>. QED  BY <1>4, <3>1, WalkStep
  <2>2. /\ walk.channel \in Channels /\ Log \in Seq(MessageRef) /\ walk.seen \in Seq(MessageRef)
        /\ Log' \in Seq(MessageRef) /\ Len(Log) <= Len(Log')
        /\ \A j \in 1..Len(Log) : Log'[j] = Log[j]
    BY <1>4, LogIs, LogStep
  <2>3. ASSUME NEW r \in walk.must PROVE r.id <= stamp' /\ \E j \in DOMAIN Log' : Log'[j] = r
    <3>1. r.id <= stamp /\ r.id \in Nat /\ \E j \in DOMAIN Log : Log[j] = r
      BY <1>4 DEF WalkInv, MessageRef
    <3>2. stamp \in Nat /\ stamp' \in Nat /\ stamp' >= stamp  BY Numbered DEF TypeOK
    <3>3. DOMAIN Log = 1..Len(Log) /\ DOMAIN Log' = 1..Len(Log') /\ Len(Log) \in Nat /\ Len(Log') \in Nat
      BY <2>2
    <3>. QED  BY <2>2, <3>1, <3>2, <3>3
  <2>4. WalkInv'  BY <1>1, <1>4, <2>1, <2>3, Zenon DEF WalkInv
  <2>5. ASSUME Unique(Log') PROVE \E at : Paged(walk.seen, Log', Owed', walk.pc = "done", at)
    <3>1. Unique(Log) /\ \A j \in 1..Len(Log') : Log'[j] \in walk.must => j \in 1..Len(Log)
      BY <1>4, <2>5, LogStep
    <3>2. PICK at : Paged(walk.seen, Log, Owed, walk.pc = "done", at)  BY <1>4, <3>1 DEF PageInv
    <3>3. Owed' \subseteq Owed /\ Owed' \subseteq walk.must  BY <1>4, OwedLess DEF Owed
    <3>4. (walk.pc = "done") \in BOOLEAN  OBVIOUS
    <3>5. \A j \in 1..Len(Log') : Log'[j] \in Owed' => j \in 1..Len(Log)  BY <3>1, <3>3
    <3>. HIDE DEF Inv
    <3>6. Paged(walk.seen, Log', Owed', walk.pc = "done", at)
      BY <2>2, <3>2, <3>3, <3>4, <3>5, PagedStill
    <3>. QED  BY <3>6
  <2>6. PageInv'  BY <1>4, <2>5, Zenon DEF PageInv
  <2>. QED  BY <2>4, <2>6
<1>. QED  BY <1>2, <1>3, <1>4, WalkStep

LEMMA StartKept ==
    ASSUME Inv, WalkInv, StartWalk
    PROVE  WalkInv' /\ PageInv'
<1>. DEFINE log == children[selected]
<1>1. selected \in Channels /\ channel[selected] # "none" /\ log \in Seq(MessageRef)
  BY DEF StartWalk, Inv, TypeOK
<1>2. walk' = [pc |-> "ask", channel |-> selected, cursor |-> None, seen |-> << >>,
               must |-> {log[i] : i \in DOMAIN log}]
  BY DEF StartWalk, NoWalk
<1>3. UNCHANGED <<window, selected, channel, children, stamp>>  BY DEF StartWalk, files
<1>4. \A i \in DOMAIN log : log[i] \in MessageRef /\ log[i].id <= stamp
  BY <1>1 DEF Inv, RefInv
<1>5. << >> \in Seq(MessageRef)  BY EmptySeq
<1>6. Log' = log  BY <1>2, <1>3 DEF Log
<1>7. WalkInv'
  <2>1. window' \in [before : MessageRef \cup {None}, after : {None}, limit : {Limit}]
    BY <1>3 DEF WalkInv
  <2>2. walk' \in [pc : {"off", "ask", "load", "done"}, channel : Channels \cup {None},
                 cursor : MessageRef \cup {None}, seen : Seq(MessageRef), must : SUBSET MessageRef]
    BY <1>1, <1>2, <1>4, <1>5
  <2>3. \A r \in walk'.must : r.id <= stamp' /\ \E j \in DOMAIN Log' : Log'[j] = r
    BY <1>2, <1>3, <1>4, <1>6
  <2>4. walk'.channel = selected' /\ channel'[selected'] # "none" /\ walk'.pc = "ask"
        /\ walk'.seen = << >> /\ walk'.cursor = None
    BY <1>1, <1>2, <1>3
  <2>. QED  BY <2>1, <2>2, <2>3, <2>4 DEF WalkInv
<1>8. PageInv'
  <2>. DEFINE at == [i \in 1..0 |-> 0]
  <2>1. walk'.seen = << >> /\ Len(<< >>) = 0 /\ walk'.pc # "done"  BY <1>2
  <2>2. Paged(<< >>, log, Owed', FALSE, at)
    <3>1. Len(<< >>) = 0 /\ at \in [1..0 -> 1..Len(log)] /\ \A i \in 1..0 : FALSE  OBVIOUS
    <3>. HIDE DEF at, log
    <3>. QED  BY <3>1 DEF Paged
  <2>. HIDE DEF at, log
  <2>. QED  BY <1>6, <2>1, <2>2 DEF PageInv
<1>. QED  BY <1>7, <1>8

LEMMA WindowKept ==
    ASSUME Inv, WalkInv, PageInv, SetTableWindow
    PROVE  WalkInv' /\ PageInv'
<1>1. /\ window' = [window EXCEPT !.before = walk.cursor, !.after = None]
      /\ walk' = [walk EXCEPT !.pc = "load"] /\ walk.pc = "ask"
      /\ UNCHANGED <<selected, channel, children, slot, stamp>>
  BY DEF SetTableWindow
<1>2. /\ walk' \in [pc : {"off", "ask", "load", "done"}, channel : Channels \cup {None},
                 cursor : MessageRef \cup {None}, seen : Seq(MessageRef), must : SUBSET MessageRef]
      /\ walk'.pc = "load" /\ walk'.channel = walk.channel /\ walk'.cursor = walk.cursor
      /\ walk'.seen = walk.seen /\ walk'.must = walk.must
  BY <1>1 DEF WalkInv
<1>3. /\ window' \in [before : MessageRef \cup {None}, after : {None}, limit : {Limit}]
      /\ window'.before = walk.cursor
  BY <1>1 DEF WalkInv
<1>4. Log' = Log /\ Owed' = Owed  BY <1>1, <1>2 DEF Log, Owed, Alive, Visible
<1>5. WalkInv'
  BY <1>1, <1>2, <1>3, <1>4 DEF WalkInv
<1>6. PageInv'
  <2>1. walk'.pc # "done" /\ walk.pc # "done" /\ walk.pc # "off"  BY <1>1, <1>2
  <2>. QED  BY <1>2, <1>4, <2>1 DEF PageInv
<1>. QED  BY <1>5, <1>6

\* The page of the client's window: the first rows of what is shown from the place
\* it is at.
LEMMA PageIs ==
    ASSUME Inv, WalkInv, walk.pc = "load"
    PROVE  \E inside \in Seq(MessageRef) :
              /\ LoadChildLog(selected, window) = SubSeq(Shown(inside), 1, Min({Limit, Len(Shown(inside))}))
              /\ \A owed, at : Unique(Log) /\ Paged(walk.seen, Log, owed, FALSE, at)
                    => Below(Log, Place(walk.seen, Log, at), inside)
<1>. DEFINE newest == Reverse(Log)
            inside == IF walk.cursor # None THEN OlderThan(newest, walk.cursor) ELSE newest
<1>1. /\ walk.channel = selected /\ Log \in Seq(MessageRef) /\ walk.seen \in Seq(MessageRef)
      /\ window.before = walk.cursor /\ window.after = None /\ window.limit = Limit
      /\ walk.cursor = IF walk.seen = << >> THEN None ELSE walk.seen[Len(walk.seen)]
  BY LogIs DEF Inv, WalkInv
<1>2. newest \in Seq(MessageRef)  BY <1>1, ReverseIs DEF Below
<1>3. inside \in Seq(MessageRef)  BY <1>2, OlderIn
<1>4. LoadChildLog(selected, window) = SubSeq(Shown(inside), 1, Min({Limit, Len(Shown(inside))}))
  BY <1>1 DEF LoadChildLog, Log
<1>5. ASSUME NEW owed, NEW at, Unique(Log), Paged(walk.seen, Log, owed, FALSE, at)
      PROVE  Below(Log, Place(walk.seen, Log, at), inside)
  <2>1. CASE walk.seen = << >>
    <3>1. inside = newest /\ Place(walk.seen, Log, at) = Len(Log) + 1  BY <1>1, <2>1 DEF Place
    <3>. HIDE DEF inside
    <3>. QED  BY <1>1, <3>1, ReverseIs
  <2>2. CASE walk.seen # << >>
    <3>. DEFINE p == Place(walk.seen, Log, at)
    <3>1. p \in 1..Len(Log) /\ Log[p] = walk.cursor  BY <1>1, <1>5, <2>2, PlaceIs
    <3>2. walk.cursor # None
      <4>1. Log[p] \in MessageRef  BY <1>1, <3>1
      <4>. HIDE DEF p
      <4>. QED  BY <3>1, <4>1, BoundsAre
    <3>. HIDE DEF p
    <3>3. inside = OlderThan(newest, Log[p])  BY <3>1, <3>2
    <3>. HIDE DEF inside
    <3>. QED  BY <1>1, <1>5, <3>1, <3>3, OlderIs DEF p
  <2>. QED  BY <2>1, <2>2
<1>. HIDE DEF inside, newest
<1>. QED  BY <1>3, <1>4, <1>5

LEMMA PageKept ==
    ASSUME Inv, WalkInv, PageInv, Materialize
    PROVE  WalkInv' /\ PageInv'
<1>1. walk.pc = "load" /\ UNCHANGED <<selected, channel, children, slot, stamp, window>>
  BY DEF Materialize, files
<1>2. /\ walk.channel = selected /\ channel[selected] # "none"
      /\ Log \in Seq(MessageRef) /\ walk.seen \in Seq(MessageRef)
  BY <1>1, LogIs DEF Inv, WalkInv
<1>3. PICK inside \in Seq(MessageRef) :
              /\ LoadChildLog(selected, window) = SubSeq(Shown(inside), 1, Min({Limit, Len(Shown(inside))}))
              /\ \A owed, at : Unique(Log) /\ Paged(walk.seen, Log, owed, FALSE, at)
                    => Below(Log, Place(walk.seen, Log, at), inside)
  BY <1>1, PageIs
<1>. DEFINE shown == Shown(inside)  k == Min({Limit, Len(shown)})  rows == SubSeq(shown, 1, k)
<1>4. shown \in Seq(MessageRef) /\ Len(shown) \in Nat
  <2>1. shown \in Seq(MessageRef)  BY ShownPicks
  <2>. HIDE DEF shown
  <2>. QED  BY <2>1
<1>5. k \in 0..Len(shown) /\ (k = 0 => Len(shown) = 0)
  <2>. DEFINE n == Len(shown)
  <2>. HIDE DEF n
  <2>1. n \in Nat /\ Limit \in Nat /\ Limit # 0  BY <1>4, BoundsAre DEF n
  <2>2. \E x \in {Limit, n} : \A y \in {Limit, n} : x <= y
    <3>1. Limit <= n \/ n <= Limit  BY <2>1
    <3>. QED  BY <2>1, <3>1
  <2>3. k \in {Limit, n} /\ \A y \in {Limit, n} : k <= y  BY <2>2, Zenon DEF Min, n
  <2>. HIDE DEF k
  <2>4. k \in 0..n /\ (k = 0 => n = 0)  BY <2>1, <2>3
  <2>. QED  BY <2>4 DEF n
<1>. HIDE DEF shown, k
<1>6. /\ rows \in Seq(MessageRef) /\ Len(rows) = k
      /\ \A i \in 1..k : rows[i] = shown[i]
  <2>1. \A i \in 1..k : shown[i] \in MessageRef  BY <1>4, <1>5
  <2>2. k \in Int /\ 1 \in Int  BY <1>4, <1>5
  <2>3. rows \in Seq(MessageRef)  BY <2>1, <2>2, SubSeqProperties
  <2>4. Len(rows) = IF 1 <= k THEN k - 1 + 1 ELSE 0  BY <2>1, <2>2, SubSeqProperties
  <2>5. \A i \in 1..(k - 1 + 1) : rows[i] = shown[1 + i - 1]  BY <2>1, <2>2, SubSeqProperties
  <2>6. k - 1 + 1 = k /\ \A i \in 1..k : 1 + i - 1 = i  BY <2>2
  <2>. HIDE DEF rows
  <2>7. Len(rows) = k  BY <1>4, <1>5, <2>4, <2>6
  <2>8. \A i \in 1..k : rows[i] = shown[i]  BY <2>5, <2>6
  <2>. QED  BY <2>3, <2>7, <2>8
<1>7. walk' = IF rows = << >> THEN [walk EXCEPT !.pc = "done"]
              ELSE [walk EXCEPT !.pc = "ask", !.seen = @ \o rows, !.cursor = rows[Len(rows)]]
  BY <1>2, <1>3 DEF Materialize, shown, k
<1>. HIDE DEF rows
<1>8. walk'.channel = walk.channel /\ walk'.must = walk.must  BY <1>7 DEF WalkInv
<1>9. Log' = Log /\ Owed' = Owed  BY <1>1, <1>8 DEF Log, Owed, Alive, Visible
<1>10. \A r \in Owed : Visible(r)  BY DEF Owed, Alive
<1>11. ASSUME Unique(Log)
       PROVE  \E at : /\ Paged(walk.seen, Log, Owed, FALSE, at)
                      /\ Below(Log, Place(walk.seen, Log, at), inside)
  <2>1. walk.pc # "off" /\ (walk.pc = "done") = FALSE  BY <1>1
  <2>2. PICK at : Paged(walk.seen, Log, Owed, FALSE, at)  BY <1>11, <2>1 DEF PageInv
  <2>. QED  BY <1>3, <1>11, <2>2
<1>12. CASE rows = << >>
  <2>1. walk' = [walk EXCEPT !.pc = "done"]  BY <1>7, <1>12
  <2>2. walk'.pc = "done" /\ walk'.seen = walk.seen /\ walk'.cursor = walk.cursor
    BY <2>1 DEF WalkInv
  <2>3. WalkInv'
    <3>1. walk' \in [pc : {"off", "ask", "load", "done"}, channel : Channels \cup {None},
                 cursor : MessageRef \cup {None}, seen : Seq(MessageRef), must : SUBSET MessageRef]
      BY <2>1 DEF WalkInv
    <3>. QED  BY <1>1, <1>8, <1>9, <2>2, <3>1, Zenon DEF WalkInv
  <2>4. shown = << >>
    <3>1. Len(shown) = 0  BY <1>5, <1>6, <1>12
    <3>. QED  BY <1>4, <3>1, EmptySeq
  <2>5. PageInv'
    <3>. SUFFICES ASSUME Unique(Log) PROVE \E at : Paged(walk.seen, Log, Owed, TRUE, at)
      BY <1>9, <2>2 DEF PageInv
    <3>1. PICK at : /\ Paged(walk.seen, Log, Owed, FALSE, at)
                    /\ Below(Log, Place(walk.seen, Log, at), inside)
      BY <1>11
    <3>. QED  BY <1>2, <1>10, <2>4, <3>1, LastPage DEF shown
  <2>. QED  BY <2>3, <2>5
<1>13. CASE rows # << >>
  <2>. DEFINE all == walk.seen \o rows
  <2>1. walk' = [walk EXCEPT !.pc = "ask", !.seen = all, !.cursor = rows[Len(rows)]]
    BY <1>7, <1>13
  <2>2. k \in Nat /\ k # 0 /\ k \in 1..Len(shown) /\ k \in 1..k
    <3>1. k # 0  BY <1>6, <1>13, EmptySeq
    <3>. QED  BY <1>4, <1>5, <3>1
  <2>3. rows[k] \in MessageRef  BY <1>6, <2>2
  <2>4. /\ all \in Seq(MessageRef) /\ all # << >> /\ all[Len(all)] = rows[k]
    <3>1. all \in Seq(MessageRef) /\ Len(all) = Len(walk.seen) + k  BY <1>2, <1>6, ConcatProperties
    <3>2. \A i \in 1..(Len(walk.seen) + k) :
             all[i] = IF i <= Len(walk.seen) THEN walk.seen[i] ELSE rows[i - Len(walk.seen)]
      BY <1>2, <1>6, ConcatProperties
    <3>3. Len(walk.seen) \in Nat  BY <1>2
    <3>. DEFINE n == Len(walk.seen)
    <3>4. n + k \in 1..(n + k) /\ ~(n + k <= n) /\ (n + k) - n = k  BY <2>2, <3>3
    <3>. HIDE DEF all, n
    <3>5. all[n + k] = rows[k]  BY <3>2, <3>4 DEF n
    <3>6. Len(all) = n + k /\ Len(all) # 0  BY <2>2, <3>1, <3>3 DEF n
    <3>7. all # << >>  BY <3>6
    <3>. QED  BY <3>1, <3>5, <3>6, <3>7
  <2>. HIDE DEF all
  <2>5. /\ walk' \in [pc : {"off", "ask", "load", "done"}, channel : Channels \cup {None},
                 cursor : MessageRef \cup {None}, seen : Seq(MessageRef), must : SUBSET MessageRef]
        /\ walk'.pc = "ask" /\ walk'.seen = all /\ walk'.cursor = rows[k]
    BY <1>6, <2>1, <2>3, <2>4 DEF WalkInv
  <2>6. WalkInv'
    <3>1. walk.pc # "off" /\ walk'.pc # "load"  BY <1>1, <2>5
    <3>. QED  BY <1>1, <1>8, <1>9, <2>4, <2>5, <3>1, Zenon DEF WalkInv
  <2>7. PageInv'
    <3>1. walk'.pc # "done"  BY <2>5
    <3>. SUFFICES ASSUME Unique(Log) PROVE \E to : Paged(all, Log, Owed, FALSE, to)
      BY <1>9, <2>5, <3>1 DEF PageInv
    <3>2. PICK at : /\ Paged(walk.seen, Log, Owed, FALSE, at)
                    /\ Below(Log, Place(walk.seen, Log, at), inside)
      BY <1>11
    <3>3. Rows(rows, inside)  BY <1>6, <2>2 DEF shown, Rows
    <3>4. \E to : Paged(walk.seen \o rows, Log, Owed, FALSE, to)
      BY <1>2, <1>10, <3>2, <3>3, NextPage
    <3>. QED  BY <3>4 DEF all
  <2>. QED  BY <2>6, <2>7
<1>. QED  BY <1>12, <1>13

LEMMA Seeing ==
    ASSUME Inv, WalkInv, PageInv
    PROVE  WalkSeesAll
<1>. SUFFICES ASSUME walk.pc = "done", Unique(Log)
     PROVE  LET at == [i \in DOMAIN walk.seen |-> CHOOSE j \in DOMAIN Log : Log[j] = walk.seen[i]] IN
            /\ Owed \subseteq {walk.seen[i] : i \in DOMAIN walk.seen}
            /\ \A i, j \in DOMAIN at : i < j => at[i] > at[j]
  BY DEF WalkSeesAll, Log, Owed, Alive
<1>1. PICK f : Paged(walk.seen, Log, Owed, TRUE, f)
  <2>1. walk.pc # "off" /\ (walk.pc = "done") = TRUE  OBVIOUS
  <2>. QED  BY <2>1 DEF PageInv
<1>2. Log \in Seq(MessageRef) /\ walk.seen \in Seq(MessageRef)  BY LogIs DEF Inv
<1>3. DOMAIN Log = 1..Len(Log) /\ DOMAIN walk.seen = 1..Len(walk.seen)  BY <1>2
<1>4. \A i \in DOMAIN walk.seen : f[i] \in DOMAIN Log /\ Log[f[i]] = walk.seen[i]
  BY <1>1, <1>3 DEF Paged
<1>5. \A i \in DOMAIN walk.seen : \A j \in DOMAIN Log : Log[j] = walk.seen[i] => j = f[i]
  BY <1>4 DEF Unique, SamePath
<1>6. \A i \in DOMAIN walk.seen : (CHOOSE j \in DOMAIN Log : Log[j] = walk.seen[i]) = f[i]
  BY <1>4, <1>5
<1>7. Owed \subseteq {walk.seen[i] : i \in DOMAIN walk.seen}
  <2>1. ASSUME NEW r \in Owed PROVE \E i \in DOMAIN walk.seen : walk.seen[i] = r
    <3>1. PICK j \in DOMAIN Log : Log[j] = r  BY DEF Owed, WalkInv
    <3>. QED  BY <1>1, <1>3, <3>1 DEF Paged
  <2>. QED  BY <2>1
<1>8. \A i, j \in DOMAIN walk.seen : i < j => f[i] > f[j]  BY <1>1, <1>3 DEF Paged
<1>. QED  BY <1>6, <1>7, <1>8

LEMMA Walking == Spec => [](WalkInv /\ PageInv)
<1>1. Inv /\ WalkInv /\ PageInv /\ Next => WalkInv' /\ PageInv'
  BY WalkKept, StartKept, WindowKept, PageKept
<1>2. WalkInv /\ PageInv /\ UNCHANGED vars => WalkInv' /\ PageInv'
  <2>. SUFFICES ASSUME WalkInv, PageInv, UNCHANGED vars PROVE WalkInv' /\ PageInv'  OBVIOUS
  <2>1. UNCHANGED <<window, walk, selected, channel, children, slot, stamp>>  BY DEF vars, files
  <2>2. Log' = Log /\ Owed' = Owed  BY <2>1 DEF Log, Owed, Alive, Visible
  <2>. QED  BY <2>1, <2>2 DEF WalkInv, PageInv
<1>. QED  BY <1>1, <1>2, InitWalk, Inductive, PTL DEF Spec

\* A client that has paged back through a channel has seen every message that was
\* listed when it began and is still there, the newest first, whatever was posted,
\* edited or removed between its pages and however long the pages are.
THEOREM WalksSeeAll == Spec => []WalkSeesAll
<1>1. Inv /\ WalkInv /\ PageInv => WalkSeesAll  BY Seeing
<1>. QED  BY <1>1, Walking, Inductive, PTL
===============================================================================
