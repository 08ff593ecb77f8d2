--------------------------- MODULE WorkflowRun_proofs ---------------------------
(* Proof that a client which polls a run misses no report and sees none twice, *)
(* whatever the workflow, its threads and the refusals: nothing is reported    *)
(* once the run is over, because the threads of its parallel blocks are over.  *)
EXTENDS WorkflowRun, SequenceTheorems, TLAPS

IsSeq(s) == s \in Seq({s[i] : i \in DOMAIN s})
Inner == {"steps", "dsl", "asked", "verify", "for", "nested", "loop"}
IsOver(s) == s \in {<<Ended>>, <<Failed>>}

\* The frames of a thread that is at work, and of one that waits for its branches.
Working(s) ==
    /\ IsSeq(s) /\ s # << >> /\ s[1].kind = "steps"
    /\ \A j \in DOMAIN s : s[j].kind \in Inner /\ "kind" \in DOMAIN s[j]
Blocked(s) ==
    /\ IsSeq(s) /\ s # << >> /\ s[Len(s)].kind = "block"
    /\ Working(SubSeq(s, 1, Len(s) - 1))

TypeOK ==
    /\ DOMAIN stack = Threads /\ DOMAIN pending = Threads
    /\ DOMAIN run = {"status", "thread", "vars"} /\ IsSeq(run.thread)
    /\ DOMAIN client = {"phase", "cursor", "got"}
StackInv == \A t \in Threads : \/ stack[t] = << >> \/ IsOver(stack[t])
                               \/ Working(stack[t]) \/ Blocked(stack[t])
PendingInv == \A t \in Threads : pending[t] # << >> => Working(stack[t])

\* Branch b is waited for by thread t. Every branch at work is, by one thread, and
\* the waiting has an end: of any branches at work one is waited for from outside.
WaitedBy(t, b) == Blocked(stack[t]) /\ b \in Top(t).kids
FamilyInv ==
    /\ \A t \in Threads : Blocked(stack[t]) => Top(t).kids \subseteq Branches
    /\ \A t \in Threads, b \in Branches : WaitedBy(t, b) => stack[b] # << >>
    /\ \A t, u \in Threads, b \in Branches : WaitedBy(t, b) /\ WaitedBy(u, b) => t = u
    /\ \A S \in SUBSET Branches :
          S # {} /\ (\A b \in S : stack[b] # << >>) => \E b \in S, t \in Threads \ S : WaitedBy(t, b)

\* The run is over only when its thread is; the client has what was there when it
\* asked, and has asked since the run was over once it shows the result.
StatusInv == run.status # "running" => IsOver(stack[Main])
ClientInv ==
    /\ client.cursor \in 0..Len(run.thread)
    /\ client.got = SubSeq(run.thread, 1, client.cursor)
    /\ client.phase \in {"shown", "end"} => run.status # "running" /\ client.cursor = Len(run.thread)

Inv == TypeOK /\ StackInv /\ PendingInv /\ FamilyInv /\ StatusInv /\ ClientInv
-------------------------------------------------------------------------------
(* Sequences of frames.                                                        *)
LEMMA SeqAppend ==
    ASSUME NEW s, NEW x, IsSeq(s)
    PROVE  /\ IsSeq(Append(s, x)) /\ Len(s) \in Nat /\ DOMAIN s = 1..Len(s)
           /\ Len(Append(s, x)) = Len(s) + 1 /\ DOMAIN Append(s, x) = 1..(Len(s) + 1)
           /\ \A j \in 1..Len(s) : Append(s, x)[j] = s[j]
           /\ Append(s, x)[Len(s) + 1] = x
<1>. DEFINE S == {s[i] : i \in DOMAIN s}  r == Append(s, x)
<1>1. s \in Seq(S)  BY DEF IsSeq
<1>2. s \in Seq(S \cup {x})  BY <1>1
<1>3. r \in Seq(S \cup {x}) /\ Len(s) \in Nat /\ DOMAIN s = 1..Len(s) /\ Len(r) = Len(s) + 1
      /\ DOMAIN r = 1..(Len(s) + 1) /\ (\A j \in 1..Len(s) : r[j] = s[j]) /\ r[Len(s) + 1] = x
  BY <1>2
<1>. HIDE DEF S, r
<1>4. r \in Seq({r[i] : i \in DOMAIN r})  BY <1>3
<1>. QED  BY <1>3, <1>4 DEF IsSeq, r

LEMMA SeqPart ==
    ASSUME NEW s, IsSeq(s), NEW n \in 0..Len(s)
    PROVE  LET r == SubSeq(s, 1, n) IN
           /\ IsSeq(r) /\ Len(r) = n /\ DOMAIN r = 1..n /\ \A j \in 1..n : r[j] = s[j]
<1>. DEFINE S == {s[i] : i \in DOMAIN s}  r == SubSeq(s, 1, n)
<1>1. s \in Seq(S)  BY DEF IsSeq
<1>2. r \in Seq(S) /\ Len(r) = n /\ DOMAIN r = 1..n /\ \A j \in 1..n : r[j] = s[j]  BY <1>1
<1>. HIDE DEF S, r
<1>3. r \in Seq({r[i] : i \in DOMAIN r})  BY <1>2
<1>. QED  BY <1>2, <1>3 DEF IsSeq, r

LEMMA SeqLen ==
    ASSUME NEW s, IsSeq(s)
    PROVE  /\ Len(s) \in Nat /\ DOMAIN s = 1..Len(s) /\ (s # << >> <=> Len(s) # 0)
           /\ SubSeq(s, 1, Len(s)) = s
BY DEF IsSeq

LEMMA OneFrame ==
    ASSUME NEW x
    PROVE  IsSeq(<<x>>) /\ Len(<<x>>) = 1 /\ <<x>>[1] = x /\ DOMAIN <<x>> = {1} /\ <<x>> # << >>
BY DEF IsSeq

\* A frame more, a frame less, the top one replaced, or cut back to some frame.
LEMMA Pushed ==
    ASSUME NEW s, Working(s), NEW f, f.kind \in Inner, "kind" \in DOMAIN f
    PROVE  Working(Append(s, f))
<1>. DEFINE r == Append(s, f)
<1>1. IsSeq(s) /\ Len(s) \in Nat /\ Len(s) >= 1  BY SeqLen DEF Working
<1>2. /\ IsSeq(r) /\ Len(r) = Len(s) + 1 /\ DOMAIN r = 1..(Len(s) + 1) /\ DOMAIN s = 1..Len(s)
      /\ \A j \in 1..Len(s) : r[j] = s[j]
      /\ r[Len(s) + 1] = f
  BY <1>1, SeqAppend
<1>. HIDE DEF r
<1>3. r # << >> /\ r[1].kind = "steps"  BY <1>1, <1>2 DEF Working
<1>4. ASSUME NEW j \in DOMAIN r  PROVE  r[j].kind \in Inner /\ "kind" \in DOMAIN r[j]
  <2>1. CASE j = Len(s) + 1  BY <1>2, <2>1
  <2>2. CASE j # Len(s) + 1
    <3>1. j \in DOMAIN s /\ r[j] = s[j]  BY <1>1, <1>2, <2>2
    <3>. QED  BY <3>1 DEF Working
  <2>. QED  BY <2>1, <2>2
<1>. QED  BY <1>2, <1>3, <1>4 DEF Working, r

LEMMA CutBack ==
    ASSUME NEW s, Working(s), NEW n \in 1..Len(s)
    PROVE  Working(SubSeq(s, 1, n))
<1>. DEFINE r == SubSeq(s, 1, n)
<1>1. IsSeq(s) /\ Len(s) \in Nat /\ DOMAIN s = 1..Len(s)  BY SeqLen DEF Working
<1>2. n \in 0..Len(s)  BY <1>1
<1>3. IsSeq(r) /\ Len(r) = n /\ DOMAIN r = 1..n /\ \A j \in 1..n : r[j] = s[j]  BY <1>1, <1>2, SeqPart
<1>. HIDE DEF r
<1>4. r # << >> /\ r[1].kind = "steps"  BY <1>1, <1>3 DEF Working
<1>5. \A j \in DOMAIN r : j \in DOMAIN s /\ r[j] = s[j]  BY <1>1, <1>3
<1>. QED  BY <1>3, <1>4, <1>5 DEF Working, r

LEMMA Popped ==
    ASSUME NEW s, Working(s), s[Len(s)].kind # "steps" \/ Len(s) # 1
    PROVE  Working(SubSeq(s, 1, Len(s) - 1))
<1>1. IsSeq(s) /\ Len(s) \in Nat /\ Len(s) >= 1  BY SeqLen DEF Working
<1>2. Len(s) # 1  BY <1>1 DEF Working
<1>a. \A n \in Nat : n >= 1 /\ n # 1 => n - 1 \in 1..n  OBVIOUS
<1>3. Len(s) - 1 \in 1..Len(s)  BY <1>1, <1>2, <1>a
<1>. QED  BY <1>3, CutBack

LEMMA Replaced ==
    ASSUME NEW s, Working(s), NEW f, f.kind = s[Len(s)].kind, "kind" \in DOMAIN f
    PROVE  Working(Append(SubSeq(s, 1, Len(s) - 1), f))
<1>1. IsSeq(s) /\ Len(s) \in Nat /\ Len(s) >= 1 /\ DOMAIN s = 1..Len(s)  BY SeqLen DEF Working
<1>2. f.kind \in Inner  BY <1>1 DEF Working
<1>3. CASE Len(s) # 1
  <2>1. Working(SubSeq(s, 1, Len(s) - 1))  BY <1>3, Popped
  <2>. QED  BY <1>2, <2>1, Pushed
<1>4. CASE Len(s) = 1
  <2>. DEFINE w == SubSeq(s, 1, Len(s) - 1)  r == Append(w, f)
  <2>0. 0 \in 0..Len(s) /\ Len(s) - 1 = 0  BY <1>1, <1>4
  <2>1. IsSeq(w) /\ Len(w) = 0  BY <1>1, <2>0, SeqPart
  <2>2. IsSeq(r) /\ Len(r) = 1 /\ DOMAIN r = 1..1 /\ r[1] = f  BY <2>1, SeqAppend
  <2>. HIDE DEF r
  <2>3. r # << >> /\ \A j \in DOMAIN r : j = 1  BY <2>2, SMTT(20)
  <2>4. f.kind = "steps"  BY <1>4 DEF Working
  <2>. QED  BY <1>2, <2>2, <2>3, <2>4 DEF Working, r
<1>. QED  BY <1>3, <1>4

\* The four kinds of stacks are different.
LEMMA Kinds ==
    ASSUME NEW s
    PROVE  /\ Working(s) => ~Blocked(s) /\ ~IsOver(s) /\ s # << >>
           /\ Blocked(s) => ~IsOver(s) /\ s # << >>
           /\ IsOver(s) => s # << >>
<1>1. <<Ended>>[1].kind = "ended" /\ <<Failed>>[1].kind = "failed" /\ <<Ended>> # << >> /\ <<Failed>> # << >>
      /\ Len(<<Ended>>) = 1 /\ Len(<<Failed>>) = 1
  BY DEF Ended, Failed
<1>2. ASSUME Working(s)  PROVE  s[Len(s)].kind # "block"
  <2>1. Len(s) \in DOMAIN s  BY <1>2, SeqLen DEF Working
  <2>. QED  BY <1>2, <2>1 DEF Working, Inner
<1>. QED  BY <1>1, <1>2 DEF Working, Blocked, IsOver
-------------------------------------------------------------------------------
(* Steps of a thread. All but those of a parallel block leave it at work, or   *)
(* over with nothing to store; they report one thing at most.                  *)
Talks == run' = run \/ \E item : run' = [run EXCEPT !.thread = Append(@, item)]
Moves(t) ==
    /\ Working(stack[t])
    /\ \/ stack' = stack
       \/ \E s : /\ stack' = [stack EXCEPT ![t] = s]
                 /\ Working(s) \/ (IsOver(s) /\ pending[t] = << >> /\ pending' = pending)
    /\ pending' = pending \/ \E p : pending' = [pending EXCEPT ![t] = p]
    /\ Talks /\ client' = client
Frame(f, k) == f.kind = k /\ "kind" \in DOMAIN f
Stays == UNCHANGED pending /\ UNCHANGED client

LEMMA InWorks ==
    ASSUME StackInv, NEW t \in Threads, NEW k \in Inner, In(t, k)
    PROVE  /\ Working(stack[t]) /\ pending[t] = << >> /\ Frame(Top(t), k)
           /\ k # "steps" => Working(Below(t))
           /\ \A f : Frame(f, k) => Working(Put(t, f))
<1>1. stack[t] # << >> /\ Top(t).kind = k /\ pending[t] = << >>  BY DEF In
<1>2. ~IsOver(stack[t])
  BY <1>1 DEF IsOver, Top, Ended, Failed, Inner
<1>3. ~Blocked(stack[t])  BY <1>1 DEF Blocked, Top, Inner
<1>4. Working(stack[t])  BY <1>1, <1>2, <1>3 DEF StackInv
<1>5. Len(stack[t]) \in DOMAIN stack[t]  BY <1>4, SeqLen DEF Working
<1>6. Frame(Top(t), k)  BY <1>1, <1>4, <1>5 DEF Working, Top, Frame
<1>7. k # "steps" => Working(Below(t))  BY <1>1, <1>4, Popped DEF Top, Below
<1>8. \A f : Frame(f, k) => Working(Put(t, f))
  BY <1>1, <1>4, Replaced DEF Top, Below, Put, Frame
<1>. QED  BY <1>1, <1>4, <1>6, <1>7, <1>8

LEMMA DueWorks ==
    ASSUME StackInv, NEW t \in Threads, NEW op, Due(t, op)
    PROVE  /\ Working(stack[t]) /\ pending[t] = << >> /\ Working(After(t))
           /\ \A f : \A k \in Inner : Frame(f, k) => Working(Append(After(t), f))
           /\ \E k \in {"steps", "dsl"} : In(t, k) /\ Frame(Moved(Top(t)), k)
<1>1. PICK k \in {"steps", "dsl"} : In(t, k)  BY DEF Due
<1>2. k \in Inner  BY DEF Inner
<1>3. Working(stack[t]) /\ pending[t] = << >> /\ Frame(Top(t), k) /\ \A f : Frame(f, k) => Working(Put(t, f))
  BY <1>1, <1>2, InWorks
<1>4. Frame(Moved(Top(t)), k)
  <2>. DEFINE f == Top(t)
  <2>1. f.kind = k /\ "kind" \in DOMAIN f  BY <1>3 DEF Frame
  <2>. HIDE DEF f
  <2>2. Frame([f EXCEPT !.ip = @ + 1], k)  BY <2>1 DEF Frame
  <2>3. Frame([f EXCEPT !.ip = @ + 1, !.flush = TRUE, !.at = 1, !.fired = FALSE, !.passes = 1], k)
    BY <2>1 DEF Frame
  <2>4. Frame(Moved(f), k)  BY <2>2, <2>3 DEF Moved
  <2>. QED  BY <2>4 DEF f
<1>5. Working(After(t))  BY <1>3, <1>4 DEF After
<1>6. \A f : \A i \in Inner : Frame(f, i) => Working(Append(After(t), f))
  BY <1>5, Pushed DEF Frame
<1>. QED  BY <1>1, <1>3, <1>4, <1>5, <1>6

LEMMA RaiseMoves ==
    ASSUME NEW t \in Threads, Working(stack[t]), pending[t] = << >>, Raise(t), Stays
    PROVE  Moves(t)
<1>1. CASE Handlers(t) = {} /\ To(t, <<Failed>>) /\ Silent
  BY <1>1 DEF Moves, To, Silent, Talks, IsOver, Stays
<1>2. ASSUME NEW j \in Handlers(t), To(t, SubSeq(stack[t], 1, j)), Say(<<"step-error", t>>)
      PROVE  Moves(t)
  <2>1. j \in 1..Len(stack[t])  BY SeqLen DEF Handlers, Working
  <2>2. Working(SubSeq(stack[t], 1, j))  BY <2>1, CutBack
  <2>3. Talks  BY <1>2 DEF Talks, Say
  <2>4. stack' = [stack EXCEPT ![t] = SubSeq(stack[t], 1, j)]  BY <1>2 DEF To
  <2>. QED  BY <2>2, <2>3, <2>4 DEF Moves, Stays
<1>. QED  BY <1>1, <1>2 DEF Raise

\* The form that most steps have.
LEMMA GoesOn ==
    ASSUME NEW t \in Threads, NEW s, Working(stack[t]), Working(s), To(t, s), NEW p,
           pending' = pending \/ pending' = [pending EXCEPT ![t] = p],
           Talks, client' = client
    PROVE  Moves(t)
BY DEF Moves, To

LEMMA TalkForms ==
    /\ Silent => Talks
    /\ \A item : Say(item) => Talks
BY DEF Silent, Talks, Say

LEMMA EffectMoves ==
    ASSUME PendingInv, NEW t \in Threads, Effect(t)
    PROVE  Moves(t)
<1>1. Working(stack[t])  BY DEF Effect, PendingInv
<1>2. Talks  BY TalkForms DEF Effect
<1>. QED  BY <1>1, <1>2 DEF Moves, Effect, Later, outside

LEMMA StoringMoves ==
    ASSUME StackInv, NEW t \in Threads, Set(t) \/ ParseClaims(t) \/ ParseTable(t) \/ ChatSet(t)
    PROVE  Moves(t)
<1>1. PICK op : Due(t, op)  BY DEF Set, ParseClaims, ParseTable, ChatSet
<1>2. Working(stack[t]) /\ Working(After(t))  BY <1>1, DueWorks
<1>3. To(t, After(t)) /\ Talks /\ client' = client /\ \E p : pending' = [pending EXCEPT ![t] = p]
  BY TalkForms DEF Set, ParseClaims, ParseTable, ChatSet, Later, outside
<1>. QED  BY <1>2, <1>3, GoesOn

LEMMA CallsMove ==
    ASSUME StackInv, NEW t \in Threads, Ask(t) \/ Respond(t) \/ ComfyUI(t) \/ Verify(t) \/ VerifyItem(t)
    PROVE  Moves(t)
<1>. USE DEF Inner
<1>1. CASE Ask(t)
  <2>1. Working(stack[t]) /\ \A f : \A k \in Inner : Frame(f, k) => Working(Append(After(t), f))
    BY <1>1, DueWorks DEF Ask
  <2>2. PICK f : Frame(f, "asked") /\ To(t, Append(After(t), f))  BY <1>1 DEF Ask, Frame
  <2>3. Talks /\ Stays  BY <1>1, TalkForms DEF Ask, outside, Stays
  <2>. QED  BY <2>1, <2>2, <2>3, GoesOn DEF Stays
<1>2. CASE Respond(t)
  <2>1. Working(stack[t]) /\ pending[t] = << >> /\ Working(Below(t))  BY <1>2, InWorks DEF Respond
  <2>2. CASE Refused(Top(t).label)  BY <1>2, <2>1, <2>2, RaiseMoves DEF Respond, Stays, outside
  <2>3. CASE ~Refused(Top(t).label)
    <3>1. To(t, Below(t)) /\ Talks /\ client' = client /\ \E p : pending' = [pending EXCEPT ![t] = p]
      BY <1>2, <2>3, TalkForms DEF Respond, Later, outside
    <3>. QED  BY <2>1, <3>1, GoesOn
  <2>. QED  BY <2>2, <2>3
<1>3. CASE ComfyUI(t)
  <2>1. Working(stack[t]) /\ Working(After(t))  BY <1>3, DueWorks DEF ComfyUI
  <2>2. To(t, After(t)) /\ Talks /\ client' = client
        /\ (pending' = pending \/ \E p : pending' = [pending EXCEPT ![t] = p])
    BY <1>3, TalkForms DEF ComfyUI, Later, outside
  <2>. QED  BY <2>1, <2>2, GoesOn
<1>4. CASE Verify(t)
  <2>1. /\ Working(stack[t]) /\ Working(After(t))
        /\ \A f : \A k \in Inner : Frame(f, k) => Working(Append(After(t), f))
    BY <1>4, DueWorks DEF Verify
  <2>2. To(t, After(t)) \/ \E f : Frame(f, "verify") /\ To(t, Append(After(t), f))
    BY <1>4 DEF Verify, Frame
  <2>3. Talks /\ Stays  BY <1>4, TalkForms DEF Verify, outside, Stays
  <2>. QED  BY <2>1, <2>2, <2>3, GoesOn DEF Stays
<1>5. CASE VerifyItem(t)
  <2>1. /\ Working(stack[t]) /\ pending[t] = << >> /\ Working(Below(t)) /\ Frame(Top(t), "verify")
        /\ \A f : Frame(f, "verify") => Working(Put(t, f))
    BY <1>5, InWorks DEF VerifyItem
  <2>2. Stays  BY <1>5 DEF VerifyItem, outside, Stays
  <2>3. CASE Refused(Top(t).label)  BY <1>5, <2>1, <2>2, <2>3, RaiseMoves DEF VerifyItem
  <2>4. CASE ~Refused(Top(t).label)
    <3>. DEFINE f == Top(t)
    <3>1. Frame([f EXCEPT !.left = @ - 1], "verify")  BY <2>1 DEF Frame
    <3>2. To(t, Below(t)) \/ To(t, Put(t, [f EXCEPT !.left = @ - 1]))  BY <1>5, <2>4 DEF VerifyItem
    <3>3. Talks  BY <1>5, <2>4, TalkForms DEF VerifyItem
    <3>. QED  BY <2>1, <2>2, <3>1, <3>2, <3>3, GoesOn DEF Stays
  <2>. QED  BY <2>3, <2>4
<1>. QED  BY <1>1, <1>2, <1>3, <1>4, <1>5

LEMMA NestingMoves ==
    ASSUME StackInv, NEW t \in Threads,
           For(t) \/ ForItem(t) \/ Nested(t) \/ Bind(t) \/ Enter(t) \/ Export(t)
    PROVE  Moves(t)
<1>. USE DEF Inner
<1>1. CASE For(t)
  <2>1. /\ Working(stack[t]) /\ Working(After(t))
        /\ \A f : \A k \in Inner : Frame(f, k) => Working(Append(After(t), f))
    BY <1>1, DueWorks DEF For
  <2>2. To(t, After(t)) \/ \E f : Frame(f, "for") /\ To(t, Append(After(t), f))
    BY <1>1 DEF For, Frame
  <2>3. Talks /\ Stays  BY <1>1, TalkForms DEF For, outside, Stays
  <2>. QED  BY <2>1, <2>2, <2>3, GoesOn DEF Stays
<1>2. CASE ForItem(t)
  <2>1. Working(stack[t]) /\ Frame(Top(t), "for") /\ \A f : Frame(f, "for") => Working(Put(t, f))
    BY <1>2, InWorks DEF ForItem
  <2>. DEFINE f == Top(t)
  <2>2. Frame([f EXCEPT !.items = Tail(@)], "for")  BY <2>1 DEF Frame
  <2>3. Working(Put(t, [f EXCEPT !.items = Tail(@)]))  BY <2>1, <2>2
  <2>4. PICK g : Frame(g, "steps") /\ To(t, Append(Put(t, [f EXCEPT !.items = Tail(@)]), g))
    BY <1>2 DEF ForItem, Frame, Steps
  <2>5. Working(Append(Put(t, [f EXCEPT !.items = Tail(@)]), g))  BY <2>3, <2>4, Pushed DEF Frame
  <2>6. Talks /\ client' = client /\ \E p : pending' = [pending EXCEPT ![t] = p]
    BY <1>2, TalkForms DEF ForItem, Later, outside
  <2>. QED  BY <2>1, <2>4, <2>5, <2>6, GoesOn
<1>3. CASE Nested(t)
  <2>1. /\ Working(stack[t]) /\ Working(After(t))
        /\ \A f : \A k \in Inner : Frame(f, k) => Working(Append(After(t), f))
    BY <1>3, DueWorks DEF Nested
  <2>2. To(t, After(t)) \/ \E f : Frame(f, "nested") /\ To(t, Append(After(t), f))
    BY <1>3 DEF Nested, Frame
  <2>3. Talks /\ Stays  BY <1>3, TalkForms DEF Nested, outside, Stays
  <2>. QED  BY <2>1, <2>2, <2>3, GoesOn DEF Stays
<1>4. CASE Bind(t)
  <2>1. Working(stack[t]) /\ Frame(Top(t), "nested") /\ \A f : Frame(f, "nested") => Working(Put(t, f))
    BY <1>4, InWorks DEF Bind
  <2>. DEFINE f == Top(t)
  <2>2. Frame([f EXCEPT !.bind = Tail(@)], "nested")  BY <2>1 DEF Frame
  <2>3. To(t, Put(t, [f EXCEPT !.bind = Tail(@)])) /\ Talks /\ Stays
    BY <1>4, TalkForms DEF Bind, outside, Stays
  <2>. QED  BY <2>1, <2>2, <2>3, GoesOn DEF Stays
<1>5. CASE Enter(t)
  <2>1. Working(stack[t]) /\ Frame(Top(t), "nested") /\ \A f : Frame(f, "nested") => Working(Put(t, f))
    BY <1>5, InWorks DEF Enter
  <2>. DEFINE f == Top(t)
  <2>2. Frame([f EXCEPT !.entered = TRUE], "nested")  BY <2>1 DEF Frame
  <2>3. Working(Put(t, [f EXCEPT !.entered = TRUE]))  BY <2>1, <2>2
  <2>4. PICK g : (Frame(g, "steps") \/ Frame(g, "dsl")) /\ To(t, Append(Put(t, [f EXCEPT !.entered = TRUE]), g))
    BY <1>5 DEF Enter, Frame, Steps, Dsl
  <2>5. Working(Append(Put(t, [f EXCEPT !.entered = TRUE]), g))  BY <2>3, <2>4, Pushed DEF Frame
  <2>6. Talks /\ Stays  BY <1>5, TalkForms DEF Enter, outside, Stays
  <2>. QED  BY <2>1, <2>4, <2>5, <2>6, GoesOn DEF Stays
<1>6. CASE Export(t)
  <2>1. Working(stack[t]) /\ Frame(Top(t), "nested") /\ \A f : Frame(f, "nested") => Working(Put(t, f))
    BY <1>6, InWorks DEF Export
  <2>. DEFINE f == Top(t)
  <2>2. Frame([f EXCEPT !.export = Tail(@)], "nested")  BY <2>1 DEF Frame
  <2>3. To(t, Put(t, [f EXCEPT !.export = Tail(@)])) /\ Talks /\ client' = client
        /\ \E p : pending' = [pending EXCEPT ![t] = p]
    BY <1>6, TalkForms DEF Export, Later, outside
  <2>. QED  BY <2>1, <2>2, <2>3, GoesOn
<1>. QED  BY <1>1, <1>2, <1>3, <1>4, <1>5, <1>6

LEMMA DslMoves ==
    ASSUME StackInv, NEW t \in Threads, Loop(t) \/ LoopTest(t) \/ On(t) \/ Flush(t) \/ Leave(t)
    PROVE  Moves(t)
<1>. USE DEF Inner
<1>1. CASE Loop(t)
  <2>1. Working(stack[t]) /\ \A f : \A k \in Inner : Frame(f, k) => Working(Append(After(t), f))
    BY <1>1, DueWorks DEF Loop
  <2>2. \E f : Frame(f, "loop") /\ To(t, Append(After(t), f))  BY <1>1 DEF Loop, Frame
  <2>3. Talks /\ Stays  BY <1>1, TalkForms DEF Loop, outside, Stays
  <2>. QED  BY <2>1, <2>2, <2>3, GoesOn DEF Stays
<1>2. CASE LoopTest(t)
  <2>1. /\ Working(stack[t]) /\ pending[t] = << >> /\ Working(Below(t)) /\ Frame(Top(t), "loop")
        /\ \A f : Frame(f, "loop") => Working(Put(t, f))
    BY <1>2, InWorks DEF LoopTest
  <2>. DEFINE f == Top(t)  g == [f EXCEPT !.n = @ + 1]
  <2>2. Frame(g, "loop")  BY <2>1 DEF Frame
  <2>3. Working(Put(t, g))  BY <2>1, <2>2
  <2>4. Frame(Dsl(f.body, f.ctx), "dsl")  BY DEF Dsl, Frame
  <2>5. Working(Append(Put(t, g), Dsl(f.body, f.ctx)))  BY <2>3, <2>4, Pushed DEF Frame
  <2>6. Stays  BY <1>2 DEF LoopTest, outside, Stays
  <2>7. \/ To(t, Below(t)) /\ Silent
        \/ Raise(t)
        \/ To(t, Append(Put(t, g), Dsl(f.body, f.ctx))) /\ Silent
    BY <1>2 DEF LoopTest
  <2>. HIDE DEF f, g
  <2>. QED  BY <2>1, <2>5, <2>6, <2>7, RaiseMoves, GoesOn, TalkForms DEF Stays
<1>3. CASE On(t)
  <2>1. PICK k \in {"steps", "dsl"} : Working(stack[t]) /\ In(t, k) /\ Frame(Moved(Top(t)), k)
    BY <1>3, DueWorks DEF On
  <2>2. \A f : Frame(f, k) => Working(Put(t, f))  BY <2>1, InWorks
  <2>. DEFINE f == Moved(Top(t))
  <2>3. \A w : Frame([f EXCEPT !.watch = Append(@, w)], k)  BY <2>1 DEF Frame
  <2>4. \E w : To(t, Put(t, [f EXCEPT !.watch = Append(@, w)]))  BY <1>3 DEF On
  <2>5. Talks /\ Stays  BY <1>3, TalkForms DEF On, outside, Stays
  <2>. QED  BY <2>1, <2>2, <2>3, <2>4, <2>5, GoesOn DEF Stays
<1>4. CASE Flush(t)
  <2>1. Working(stack[t]) /\ Frame(Top(t), "dsl") /\ \A f : Frame(f, "dsl") => Working(Put(t, f))
    BY <1>4, InWorks DEF Flush
  <2>. DEFINE f == Top(t)
              G(k) == [f EXCEPT !.watch[k].fired = TRUE, !.at = k + 1, !.fired = TRUE]
  <2>2. /\ \A k : Frame(G(k), "dsl")
        /\ Frame([f EXCEPT !.at = 1, !.fired = FALSE, !.passes = @ + 1], "dsl")
        /\ Frame([f EXCEPT !.flush = FALSE], "dsl")
    BY <2>1 DEF Frame
  <2>3. \A k, a : Working(Append(Put(t, G(k)), Dsl(a, f.ctx)))
    <3>1. \A k : Working(Put(t, G(k)))  BY <2>1, <2>2
    <3>2. \A a : Frame(Dsl(a, f.ctx), "dsl")  BY DEF Dsl, Frame
    <3>. HIDE DEF G
    <3>. QED  BY <3>1, <3>2, Pushed DEF Frame
  <2>4. \/ \E k, a : To(t, Append(Put(t, G(k)), Dsl(a, f.ctx)))
        \/ To(t, Put(t, [f EXCEPT !.at = 1, !.fired = FALSE, !.passes = @ + 1]))
        \/ To(t, Put(t, [f EXCEPT !.flush = FALSE]))
    BY <1>4 DEF Flush
  <2>5. Talks /\ Stays  BY <1>4, TalkForms DEF Flush, outside, Stays
  <2>6. \E s : Working(s) /\ To(t, s)  BY <2>1, <2>2, <2>3, <2>4
  <2>. QED  BY <2>1, <2>5, <2>6, GoesOn DEF Stays
<1>5. CASE Leave(t)
  <2>1. PICK k \in {"steps", "dsl", "for", "nested"} : In(t, k)  BY <1>5 DEF Leave, Finished
  <2>2. /\ Working(stack[t]) /\ pending[t] = << >> /\ (k # "steps" => Working(Below(t)))
        /\ Frame(Top(t), k)
    BY <2>1, InWorks
  <2>3. Talks /\ Stays  BY <1>5, TalkForms DEF Leave, outside, Stays
  <2>4. CASE Len(stack[t]) = 1
    <3>1. stack' = [stack EXCEPT ![t] = <<Ended>>]  BY <1>5, <2>4 DEF Leave, To
    <3>. QED  BY <2>2, <2>3, <3>1 DEF Moves, Stays, IsOver
  <2>5. CASE Len(stack[t]) # 1
    <3>1. Working(Below(t))  BY <2>2, <2>5, Popped DEF Below
    <3>2. To(t, Below(t))  BY <1>5, <2>5 DEF Leave
    <3>. QED  BY <2>2, <2>3, <3>1, <3>2, GoesOn DEF Stays
  <2>. QED  BY <2>4, <2>5
<1>. QED  BY <1>1, <1>2, <1>3, <1>4, <1>5
-------------------------------------------------------------------------------
(* The threads of parallel blocks.                                             *)
LEMMA StackTop ==
    ASSUME StackInv, NEW t \in Threads, NEW b, WaitedBy(t, b)
    PROVE  ~Working(stack[t]) /\ ~IsOver(stack[t]) /\ stack[t] # << >>
BY Kinds DEF WaitedBy

\* A step of one thread that is no block, before or after, leaves the families as
\* they are.
LEMMA SameFamilies ==
    ASSUME TypeOK, FamilyInv, NEW t \in Threads, ~Blocked(stack[t]), ~Blocked(stack'[t]),
           stack[t] # << >> <=> stack'[t] # << >>, \A u \in Threads \ {t} : stack'[u] = stack[u]
    PROVE  FamilyInv'
<1>1. \A u \in Threads : \A b : WaitedBy(u, b)' <=> WaitedBy(u, b)  BY DEF WaitedBy, Top
<1>2. \A u \in Threads : Blocked(stack[u])' => Blocked(stack[u]) /\ Top(u)' = Top(u)  BY DEF Top
<1>3. \A u \in Threads : stack'[u] # << >> <=> stack[u] # << >>  OBVIOUS
<1>4. Branches \subseteq Threads  BY DEF Threads
<1>5. \A S \in SUBSET Branches :
         S # {} /\ (\A b \in S : stack'[b] # << >>) => \E b \in S, u \in Threads \ S : WaitedBy(u, b)'
  <2>1. SUFFICES ASSUME NEW S \in SUBSET Branches, S # {}, \A b \in S : stack'[b] # << >>
                 PROVE  \E b \in S, u \in Threads \ S : WaitedBy(u, b)'
    OBVIOUS
  <2>2. \A b \in S : stack[b] # << >>  BY <1>3, <1>4, <2>1
  <2>3. PICK b \in S, u \in Threads \ S : WaitedBy(u, b)  BY <2>1, <2>2 DEF FamilyInv
  <2>. QED  BY <1>1, <2>3
<1>. QED  BY <1>1, <1>2, <1>3, <1>4, <1>5 DEF FamilyInv

\* A block's branches are idle threads: they wait for nobody, and no one for them.
LEMMA ParallelSeats ==
    ASSUME StackInv, NEW t \in Threads, Parallel(t)
    PROVE  \E kids \in SUBSET Idle :
             /\ Working(stack[t]) /\ pending[t] = << >>
             /\ \E f : /\ Frame(f, "block") /\ f.kids = kids
                       /\ \A b \in Threads : b = t => stack'[b] = Append(After(t), f)
             /\ \A b \in Threads : b # t /\ b \notin kids => stack'[b] = stack[b]
             /\ \A b \in Threads : b # t /\ b \in kids => \E g : Frame(g, "steps") /\ stack'[b] = <<g>>
             /\ DOMAIN stack' = Threads /\ run' = run /\ Stays
<1>. DEFINE n == Len(Step(t).branches)  kids == CHOOSE k \in Seatings(n) : TRUE
            started == {kids[i] : i \in DOMAIN kids}
<1>1. kids \in Seatings(n)  BY DEF Parallel
<1>2. started \in SUBSET Idle  BY <1>1 DEF Seatings
<1>3. Working(stack[t]) /\ pending[t] = << >>  BY DueWorks DEF Parallel
<1>. DEFINE f == [kind |-> "block", kids |-> started]
            Of(b) == CHOOSE i \in DOMAIN kids : kids[i] = b
            g(b) == Steps(<<Step(t).branches[Of(b)]>>, Top(t).ctx, FALSE)
<1>4. stack' = [b \in Threads |-> IF b = t THEN Append(After(t), f)
                                  ELSE IF b \in started THEN <<g(b)>> ELSE stack[b]]
  BY DEF Parallel
<1>5. Frame(f, "block") /\ f.kids = started /\ \A b : Frame(g(b), "steps")  BY DEF Frame, Steps
<1>6. run' = run /\ Stays  BY DEF Parallel, Silent, Stays, outside
<1>. HIDE DEF f, g, started
<1>7. /\ \A b \in Threads : b = t => stack'[b] = Append(After(t), f)
      /\ \A b \in Threads : b # t /\ b \notin started => stack'[b] = stack[b]
      /\ \A b \in Threads : b # t /\ b \in started => stack'[b] = <<g(b)>>
      /\ DOMAIN stack' = Threads
  BY <1>4
<1>. QED  BY <1>2, <1>3, <1>5, <1>6, <1>7

LEMMA BlockOn ==
    ASSUME NEW w, Working(w), NEW f, Frame(f, "block")
    PROVE  Blocked(Append(w, f)) /\ Append(w, f)[Len(Append(w, f))] = f
<1>. DEFINE s == Append(w, f)
<1>1. /\ IsSeq(w) /\ IsSeq(s) /\ Len(w) \in Nat /\ Len(s) = Len(w) + 1 /\ s[Len(s)] = f
      /\ \A j \in 1..Len(w) : s[j] = w[j]
  BY SeqAppend DEF Working
<1>2. SubSeq(s, 1, Len(s) - 1) = w
  <2>. DEFINE r == SubSeq(s, 1, Len(s) - 1)
  <2>1. Len(w) \in 0..Len(s) /\ Len(s) - 1 = Len(w)  BY <1>1
  <2>2. IsSeq(r) /\ Len(r) = Len(w) /\ \A j \in 1..Len(w) : r[j] = s[j]  BY <1>1, <2>1, SeqPart
  <2>. HIDE DEF r, s
  <2>3. r \in Seq({r[i] : i \in DOMAIN r}) /\ w \in Seq({w[i] : i \in DOMAIN w})  BY <1>1, <2>2 DEF IsSeq
  <2>4. r \in Seq({r[i] : i \in DOMAIN r} \cup {w[i] : i \in DOMAIN w})
        /\ w \in Seq({r[i] : i \in DOMAIN r} \cup {w[i] : i \in DOMAIN w})  BY <2>3
  <2>5. DOMAIN r = 1..Len(w) /\ DOMAIN w = 1..Len(w)  BY <2>2, <2>3
  <2>6. r = [i \in 1..Len(w) |-> r[i]] /\ w = [i \in 1..Len(w) |-> w[i]]  BY <2>4, <2>5
  <2>7. r = w  BY <1>1, <2>2, <2>6
  <2>. QED  BY <2>7 DEF r
<1>3. s # << >>
  <2>1. Len(s) # 0  BY <1>1
  <2>. QED  BY <1>1, <2>1, SeqLen
<1>. QED  BY <1>1, <1>2, <1>3 DEF Blocked, Frame

LEMMA CutBlocked ==
    ASSUME NEW s, Blocked(s), NEW j \in 1..(Len(s) - 1)
    PROVE  Working(SubSeq(s, 1, j))
<1>. DEFINE w == SubSeq(s, 1, Len(s) - 1)  r == SubSeq(s, 1, j)
<1>1. IsSeq(s) /\ Len(s) \in Nat /\ Len(s) >= 1  BY SeqLen DEF Blocked
<1>2. Len(s) - 1 \in 0..Len(s) /\ j \in 0..Len(s) /\ 1..j \subseteq 1..(Len(s) - 1) /\ j # 0 /\ 1 \in 1..j
  BY <1>1
<1>3. DOMAIN w = 1..(Len(s) - 1) /\ \A i \in 1..(Len(s) - 1) : w[i] = s[i]  BY <1>1, <1>2, SeqPart
<1>4. IsSeq(r) /\ Len(r) = j /\ DOMAIN r = 1..j /\ \A i \in 1..j : r[i] = s[i]  BY <1>1, <1>2, SeqPart
<1>5. Working(w)  BY DEF Blocked
<1>. HIDE DEF w, r
<1>6. \A i \in DOMAIN r : i \in DOMAIN w /\ r[i] = w[i]  BY <1>2, <1>3, <1>4
<1>7. r # << >>  BY <1>2, <1>4, SeqLen
<1>8. r[1].kind = "steps"  BY <1>2, <1>4, <1>5, <1>6 DEF Working
<1>. QED  BY <1>4, <1>5, <1>6, <1>7, <1>8 DEF Working, r

LEMMA OneStep ==
    ASSUME NEW g, Frame(g, "steps")
    PROVE  Working(<<g>>)
BY OneFrame DEF Working, Frame, Inner

LEMMA ParallelKeeps ==
    ASSUME TypeOK, StackInv, PendingInv, FamilyInv, StatusInv, NEW t \in Threads, Parallel(t)
    PROVE  StackInv' /\ PendingInv' /\ FamilyInv' /\ StatusInv'
<1>0. Branches \subseteq Threads /\ Main \in Threads /\ Main \notin Branches
  BY WorkflowRunAssumption DEF Threads, Main
<1>1. PICK kids \in SUBSET Idle :
        /\ Working(stack[t]) /\ pending[t] = << >>
        /\ \E f : /\ Frame(f, "block") /\ f.kids = kids
                  /\ \A b \in Threads : b = t => stack'[b] = Append(After(t), f)
        /\ \A b \in Threads : b # t /\ b \notin kids => stack'[b] = stack[b]
        /\ \A b \in Threads : b # t /\ b \in kids => \E g : Frame(g, "steps") /\ stack'[b] = <<g>>
        /\ DOMAIN stack' = Threads /\ run' = run /\ Stays
  BY ParallelSeats
<1>2. PICK f : Frame(f, "block") /\ f.kids = kids /\ stack'[t] = Append(After(t), f)  BY <1>1
<1>3. Working(After(t))  BY DueWorks DEF Parallel
<1>4. Blocked(stack'[t]) /\ Top(t)' = f  BY <1>2, <1>3, BlockOn DEF Top
<1>5. kids \subseteq Branches /\ \A b \in kids : stack[b] = << >>  BY DEF Idle
<1>6. t \notin kids  BY <1>1, <1>5, Kinds
<1>7. \A b \in kids : Working(stack'[b])  BY <1>0, <1>1, <1>5, <1>6, OneStep, ZenonT(30)
<1>8. \A b \in Threads : b # t /\ b \notin kids => stack'[b] = stack[b]  BY <1>1
<1>9. StackInv'  BY <1>4, <1>7, <1>8 DEF StackInv
<1>10. PendingInv'
  <2>1. pending' = pending  BY <1>1 DEF Stays
  <2>2. ASSUME NEW u \in Threads, pending[u] # << >>  PROVE  Working(stack'[u])
    <3>1. Working(stack[u]) /\ u # t  BY <1>1, <2>2 DEF PendingInv
    <3>2. u \notin kids  BY <1>5, <3>1, Kinds
    <3>. QED  BY <1>8, <3>1, <3>2
  <2>. QED  BY <2>1, <2>2 DEF PendingInv
<1>11. StatusInv'
  <2>1. ASSUME IsOver(stack[Main])  PROVE  IsOver(stack'[Main])
    <3>1. Main # t  BY <1>1, <2>1, Kinds
    <3>. QED  BY <1>0, <1>5, <1>8, <2>1, <3>1
  <2>. QED  BY <1>1, <2>1 DEF StatusInv
<1>12. FamilyInv'
  <2>1. \A u \in Threads : stack'[u] # << >> <=> stack[u] # << >> \/ u \in kids
    BY <1>1, <1>4, <1>5, <1>7, <1>8, Kinds
  <2>2. \A u \in Threads : \A b : WaitedBy(u, b)' <=> WaitedBy(u, b) \/ (u = t /\ b \in kids)
    <3>1. ASSUME NEW u \in Threads, NEW b, u = t  PROVE  WaitedBy(u, b)' <=> b \in kids
      BY <1>2, <1>4, <3>1 DEF WaitedBy
    <3>2. ~Blocked(stack[t])  BY <1>1, Kinds
    <3>3. ASSUME NEW u \in Threads, NEW b, u # t, u \notin kids  PROVE  WaitedBy(u, b)' <=> WaitedBy(u, b)
      BY <1>8, <3>3 DEF WaitedBy, Top
    <3>4. ASSUME NEW u \in Threads, u \in kids  PROVE  ~Blocked(stack'[u]) /\ ~Blocked(stack[u])
      BY <1>5, <1>7, <3>4, Kinds DEF Blocked
    <3>. QED  BY <3>1, <3>2, <3>3, <3>4 DEF WaitedBy
  <2>3. \A u \in Threads : Blocked(stack[u])' => Top(u)'.kids \subseteq Branches
    <3>1. ASSUME NEW u \in Threads, Blocked(stack'[u])  PROVE  Top(u)'.kids \subseteq Branches
      <4>1. CASE u = t  BY <1>2, <1>4, <1>5, <4>1
      <4>2. CASE u # t
        <5>1. u \notin kids  BY <1>7, <3>1, Kinds
        <5>. QED  BY <1>8, <3>1, <4>2, <5>1 DEF FamilyInv, Top
      <4>. QED  BY <4>1, <4>2
    <3>. QED  BY <3>1
  <2>4. \A u \in Threads, b \in Branches : WaitedBy(u, b)' => stack'[b] # << >>
    BY <1>0, <2>1, <2>2 DEF FamilyInv
  <2>5. \A u, v \in Threads, b \in Branches : WaitedBy(u, b)' /\ WaitedBy(v, b)' => u = v
    <3>1. \A u \in Threads, b \in kids : ~WaitedBy(u, b)  BY <1>5 DEF FamilyInv
    <3>. QED  BY <2>2, <3>1 DEF FamilyInv
  <2>6. ASSUME NEW S \in SUBSET Branches, S # {}, \A b \in S : stack'[b] # << >>
        PROVE  \E b \in S, u \in Threads \ S : WaitedBy(u, b)'
    <3>1. CASE S \subseteq kids
      <4>1. PICK b \in S : TRUE  BY <2>6
      <4>. QED  BY <1>6, <2>2, <3>1, <4>1
    <3>2. CASE ~(S \subseteq kids)
      <4>. DEFINE R == S \ kids
      <4>1. R \in SUBSET Branches /\ R # {} /\ \A b \in R : stack[b] # << >>
        BY <1>0, <2>1, <2>6, <3>2
      <4>2. PICK b \in R, u \in Threads \ R : WaitedBy(u, b)  BY <4>1 DEF FamilyInv
      <4>3. u \notin kids  BY <1>5, <4>2, StackTop
      <4>. QED  BY <2>2, <4>2, <4>3
    <3>. QED  BY <3>1, <3>2
  <2>. QED  BY <2>3, <2>4, <2>5, <2>6 DEF FamilyInv
<1>. QED  BY <1>9, <1>10, <1>11, <1>12

LEMMA JoinShape ==
    ASSUME StackInv, NEW t \in Threads, Join(t)
    PROVE  /\ Blocked(stack[t]) /\ pending[t] = << >> /\ Talks /\ Stays /\ DOMAIN stack' = Threads
           /\ Working(stack'[t]) \/ IsOver(stack'[t])
           /\ \A b \in Top(t).kids : IsOver(stack[b])
           /\ \A b \in Threads \ {t} :
                stack'[b] = IF b \in Top(t).kids THEN << >> ELSE stack[b]
<1>1. Top(t).kind = "block" /\ stack[t] # << >> /\ pending[t] = << >>  BY DEF Join, In
<1>2. Blocked(stack[t])
  <2>1. ~IsOver(stack[t])  BY <1>1 DEF IsOver, Top, Ended, Failed
  <2>2. ~Working(stack[t])
    <3>1. SUFFICES ASSUME Working(stack[t]) PROVE FALSE  OBVIOUS
    <3>2. Len(stack[t]) \in DOMAIN stack[t]  BY <3>1, SeqLen DEF Working
    <3>. QED  BY <1>1, <3>1, <3>2 DEF Working, Top, Inner
  <2>. QED  BY <1>1, <2>1, <2>2 DEF StackInv
<1>. DEFINE kids == Top(t).kids
            New(s) == stack' = [b \in Threads |->
                        IF b = t THEN s ELSE IF b \in kids /\ Over(b) THEN << >> ELSE stack[b]]
<1>3. /\ \A b \in kids : Over(b)
      /\ \/ New(Below(t)) /\ Silent
         \/ New(<<Failed>>) /\ Silent
         \/ \E j \in Handlers(t) : New(SubSeq(stack[t], 1, j)) /\ Say(<<"step-error", t>>)
  BY DEF Join, AllOver
<1>4. PICK s : New(s) /\ (s \in {Below(t), <<Failed>>} \/ \E j \in Handlers(t) : s = SubSeq(stack[t], 1, j))
  BY <1>3
<1>5. Working(s) \/ IsOver(s)
  <2>1. Working(Below(t))  BY <1>2 DEF Blocked, Below
  <2>2. ASSUME NEW j \in Handlers(t)  PROVE  Working(SubSeq(stack[t], 1, j))
    <3>1. IsSeq(stack[t]) /\ j \in DOMAIN stack[t] /\ stack[t][j].kind = "steps"
      BY <1>2 DEF Handlers, Blocked
    <3>2. Len(stack[t]) \in Nat /\ j \in 1..Len(stack[t]) /\ j # Len(stack[t])
      BY <1>1, <3>1, SeqLen DEF Top
    <3>3. j \in 1..(Len(stack[t]) - 1)  BY <3>2
    <3>. QED  BY <1>2, <3>3, CutBlocked
  <2>. QED  BY <1>4, <2>1, <2>2 DEF IsOver
<1>6. Talks /\ Stays  BY <1>3, TalkForms DEF Join, outside, Stays
<1>. HIDE DEF kids
<1>7. /\ stack'[t] = s /\ DOMAIN stack' = Threads
      /\ \A b \in Threads \ {t} : stack'[b] = IF b \in kids THEN << >> ELSE stack[b]
  BY <1>3, <1>4
<1>8. \A b \in kids : IsOver(stack[b])  BY <1>3 DEF Over, IsOver
<1>. QED  BY <1>1, <1>2, <1>5, <1>6, <1>7, <1>8 DEF kids

LEMMA JoinKeeps ==
    ASSUME TypeOK, StackInv, PendingInv, FamilyInv, StatusInv, NEW t \in Threads, Join(t)
    PROVE  StackInv' /\ PendingInv' /\ FamilyInv'
           /\ (IsOver(stack[Main]) => IsOver(stack'[Main]))
<1>0. Branches \subseteq Threads /\ Main \in Threads /\ Main \notin Branches
  BY WorkflowRunAssumption DEF Threads, Main
<1>. DEFINE kids == Top(t).kids
<1>1. /\ Blocked(stack[t]) /\ pending[t] = << >> /\ pending' = pending
      /\ Working(stack'[t]) \/ IsOver(stack'[t])
      /\ \A b \in kids : IsOver(stack[b])
      /\ \A b \in Threads \ {t} : stack'[b] = IF b \in kids THEN << >> ELSE stack[b]
  BY JoinShape DEF Stays
<1>2. kids \subseteq Branches  BY <1>1 DEF FamilyInv
<1>3. t \notin kids  BY <1>1, Kinds
<1>4. \A b \in Branches : b \in kids <=> WaitedBy(t, b)  BY <1>1 DEF WaitedBy
<1>. HIDE DEF kids
<1>5. \A b \in Threads : b # t /\ b \notin kids => stack'[b] = stack[b]  BY <1>1
<1>6. \A b \in kids : stack'[b] = << >>  BY <1>0, <1>1, <1>2, <1>3
<1>7. StackInv'  BY <1>1, <1>5, <1>6 DEF StackInv
<1>8. PendingInv'
  <2>1. ASSUME NEW u \in Threads, pending[u] # << >>  PROVE  Working(stack'[u])
    <3>1. Working(stack[u]) /\ u # t  BY <1>1, <2>1 DEF PendingInv
    <3>2. u \notin kids  BY <1>1, <3>1, Kinds
    <3>. QED  BY <1>5, <3>1, <3>2
  <2>. QED  BY <1>1, <2>1 DEF PendingInv
<1>9. IsOver(stack[Main]) => IsOver(stack'[Main])
  <2>1. ASSUME IsOver(stack[Main])  PROVE  Main # t  BY <1>1, <2>1, Kinds
  <2>. QED  BY <1>0, <1>2, <1>5, <2>1
<1>10. FamilyInv'
  <2>1. ~Blocked(stack'[t]) /\ \A b \in kids : ~Blocked(stack'[b]) /\ ~Blocked(stack[b])
    BY <1>1, <1>6, Kinds DEF Blocked
  <2>2. \A u \in Threads : \A b : WaitedBy(u, b)' <=> WaitedBy(u, b) /\ u # t
    <3>1. ASSUME NEW u \in Threads, NEW b, u # t, u \notin kids  PROVE  WaitedBy(u, b)' <=> WaitedBy(u, b)
      BY <1>5, <3>1 DEF WaitedBy, Top
    <3>. QED  BY <2>1, <3>1 DEF WaitedBy
  <2>3. \A u \in Threads : Blocked(stack'[u]) => u # t /\ u \notin kids /\ Blocked(stack[u]) /\ Top(u)' = Top(u)
    BY <1>5, <2>1 DEF Top
  <2>4. \A u \in Threads, b \in Branches : WaitedBy(u, b)' => stack'[b] # << >>
    <3>1. SUFFICES ASSUME NEW u \in Threads, NEW b \in Branches, WaitedBy(u, b), u # t
                   PROVE  stack'[b] # << >>
      BY <2>2
    <3>2. b \notin kids  BY <1>4, <3>1 DEF FamilyInv
    <3>3. stack[b] # << >>  BY <3>1 DEF FamilyInv
    <3>4. stack'[t] # << >>  BY <1>1, Kinds
    <3>. QED  BY <1>0, <1>5, <3>2, <3>3, <3>4
  <2>5. ASSUME NEW S \in SUBSET Branches, S # {}, \A b \in S : stack'[b] # << >>
        PROVE  \E b \in S, u \in Threads \ S : WaitedBy(u, b)'
    <3>1. \A b \in S : b \notin kids /\ stack[b] # << >>
      <4>1. \A b \in S : b \notin kids  BY <1>6, <2>5
      <4>2. stack[t] # << >>  BY <1>1, Kinds
      <4>. QED  BY <1>0, <1>5, <2>5, <4>1, <4>2
    <3>2. PICK b \in S, u \in Threads \ S : WaitedBy(u, b)  BY <2>5, <3>1 DEF FamilyInv
    <3>3. u # t  BY <1>4, <3>1, <3>2
    <3>. QED  BY <2>2, <3>2, <3>3
  <2>6. \A u \in Threads : Blocked(stack[u])' => Top(u)'.kids \subseteq Branches
    BY <2>3 DEF FamilyInv
  <2>7. \A u, v \in Threads, b \in Branches : WaitedBy(u, b)' /\ WaitedBy(v, b)' => u = v
    BY <2>2 DEF FamilyInv
  <2>. QED  BY <2>4, <2>5, <2>6, <2>7 DEF FamilyInv
<1>. QED  BY <1>7, <1>8, <1>9, <1>10

LEMMA MovesKeeps ==
    ASSUME TypeOK, StackInv, PendingInv, FamilyInv, NEW t \in Threads, Moves(t)
    PROVE  StackInv' /\ PendingInv' /\ FamilyInv' /\ DOMAIN stack' = Threads /\ DOMAIN pending' = Threads
           /\ (IsOver(stack[Main]) => IsOver(stack'[Main]))
<1>0. Main \in Threads  BY DEF Threads
<1>1. \A u \in Threads \ {t} : stack'[u] = stack[u]  BY DEF Moves, TypeOK
<1>2. DOMAIN stack' = Threads /\ DOMAIN pending' = Threads  BY DEF Moves, TypeOK
<1>3. Working(stack'[t]) \/ (IsOver(stack'[t]) /\ pending'[t] = << >>)
  BY DEF Moves, TypeOK
<1>4. \A u \in Threads \ {t} : pending'[u] = pending[u]  BY DEF Moves, TypeOK
<1>5. Working(stack[t])  BY DEF Moves
<1>6. StackInv'  BY <1>1, <1>3 DEF StackInv
<1>7. PendingInv'  BY <1>1, <1>3, <1>4 DEF PendingInv
<1>8. ~Blocked(stack[t]) /\ ~Blocked(stack'[t]) /\ stack[t] # << >> /\ stack'[t] # << >>
  BY <1>3, <1>5, Kinds
<1>9. FamilyInv'  BY <1>1, <1>8, SameFamilies
<1>10. IsOver(stack[Main]) => IsOver(stack'[Main])  BY <1>0, <1>1, <1>5, Kinds
<1>. QED  BY <1>2, <1>6, <1>7, <1>9, <1>10
-------------------------------------------------------------------------------
(* The client.                                                                 *)
\* When the run is over no thread has anything left to do: of the branches still
\* at work one would be waited for by a thread that is not among them.
LEMMA OverIsQuiet ==
    ASSUME StackInv, FamilyInv, StatusInv, run.status # "running", NEW t \in Threads
    PROVE  ~Working(stack[t]) /\ ~Blocked(stack[t])
<1>. DEFINE S == {b \in Branches : stack[b] # << >>}
<1>1. IsOver(stack[Main]) /\ Threads = Branches \cup {Main}  BY DEF StatusInv, Threads
<1>2. S = {}
  <2>1. SUFFICES ASSUME S # {} PROVE FALSE  OBVIOUS
  <2>2. PICK b \in S, u \in Threads \ S : WaitedBy(u, b)  BY <2>1 DEF FamilyInv
  <2>3. stack[u] # << >> /\ ~IsOver(stack[u])  BY <2>2, StackTop
  <2>. QED  BY <1>1, <2>2, <2>3
<1>3. stack[t] = << >> \/ IsOver(stack[t])  BY <1>1, <1>2
<1>. QED  BY <1>3, Kinds

LEMMA TalkKeeps ==
    ASSUME TypeOK, ClientInv, Talks, client' = client, run.status = "running"
    PROVE  ClientInv' /\ IsSeq(run'.thread) /\ DOMAIN run' = DOMAIN run /\ run'.status = "running"
<1>1. CASE run' = run  BY <1>1 DEF TypeOK, ClientInv
<1>2. ASSUME NEW item, run' = [run EXCEPT !.thread = Append(@, item)]
      PROVE  ClientInv' /\ IsSeq(run'.thread) /\ DOMAIN run' = DOMAIN run /\ run'.status = "running"
  <2>. DEFINE s == run.thread  r == Append(s, item)  c == client.cursor
  <2>1. run'.thread = r /\ run'.status = "running" /\ DOMAIN run' = DOMAIN run  BY <1>2 DEF TypeOK
  <2>2. /\ IsSeq(s) /\ IsSeq(r) /\ Len(s) \in Nat /\ Len(r) = Len(s) + 1 /\ \A j \in 1..Len(s) : r[j] = s[j]
    BY SeqAppend DEF TypeOK
  <2>3. c \in 0..Len(s) /\ c \in 0..Len(r)  BY <2>2 DEF ClientInv
  <2>4. SubSeq(r, 1, c) = SubSeq(s, 1, c)
    <3>. HIDE DEF s, r, c
    <3>1. s \in Seq({s[i] : i \in DOMAIN s} \cup {r[i] : i \in DOMAIN r})
          /\ r \in Seq({s[i] : i \in DOMAIN s} \cup {r[i] : i \in DOMAIN r})
      BY <2>2 DEF IsSeq
    <3>. QED  BY <2>2, <2>3, <3>1
  <2>5. client.got = SubSeq(s, 1, c) /\ ~(client.phase \in {"shown", "end"})  BY DEF ClientInv
  <2>. HIDE DEF s, r, c
  <2>6. client'.got = SubSeq(run'.thread, 1, client'.cursor)  BY <2>1, <2>4, <2>5 DEF c
  <2>7. client'.cursor \in 0..Len(run'.thread)  BY <2>1, <2>3 DEF c
  <2>8. ClientInv'  BY <2>5, <2>6, <2>7 DEF ClientInv
  <2>. QED  BY <2>1, <2>2, <2>8
<1>. QED  BY <1>1, <1>2 DEF Talks

LEMMA PollKeeps ==
    ASSUME TypeOK, ClientInv, Poll
    PROVE  ClientInv' /\ DOMAIN client' = DOMAIN client
<1>. DEFINE s == run.thread  c == client.cursor
<1>1. /\ client'.cursor = Len(s) /\ client'.got = client.got \o SubSeq(s, c + 1, Len(s))
      /\ client'.phase \in {"shown", "end"} => run.status # "running"
      /\ DOMAIN client' = DOMAIN client /\ run' = run
  BY DEF Poll, TypeOK
<1>2. IsSeq(s) /\ Len(s) \in Nat /\ SubSeq(s, 1, Len(s)) = s  BY SeqLen DEF TypeOK
<1>3. c \in 0..Len(s) /\ client.got = SubSeq(s, 1, c)  BY DEF ClientInv
<1>4. SubSeq(s, 1, c) \o SubSeq(s, c + 1, Len(s)) = s
  <2>. DEFINE S == {s[i] : i \in DOMAIN s}
  <2>1. s \in Seq(S)  BY <1>2 DEF IsSeq
  <2>2. 1 \in 1..Len(s) + 1 /\ c \in (1 - 1)..Len(s) /\ Len(s) \in c..Len(s)  BY <1>2, <1>3
  <2>. HIDE DEF s, c, S
  <2>3. SubSeq(s, 1, c) \o SubSeq(s, c + 1, Len(s)) = SubSeq(s, 1, Len(s))
    BY <2>1, <2>2, ConcatAdjacentSubSeq
  <2>. QED  BY <1>2, <2>3
<1>. HIDE DEF c
<1>5. client'.cursor \in 0..Len(run'.thread)  BY <1>1, <1>2
<1>6. client'.got = s  BY <1>1, <1>3, <1>4
<1>7. client'.got = SubSeq(run'.thread, 1, client'.cursor)  BY <1>1, <1>2, <1>6
<1>8. client'.cursor = Len(run'.thread) /\ run'.status = run.status  BY <1>1
<1>. QED  BY <1>1, <1>5, <1>7, <1>8 DEF ClientInv

LEMMA TriggerKeeps ==
    ASSUME Inv, Trigger
    PROVE  Inv'
<1>0. Main \in Threads  BY DEF Threads
<1>1. client.phase = "shown" /\ run.status # "running" /\ IsOver(stack[Main]) /\ pending' = pending
  BY DEF Trigger, Inv, ClientInv, StatusInv
<1>2. CASE workflow.trigger = << >>
  <2>1. client' = [client EXCEPT !.phase = "end"] /\ UNCHANGED <<stack, run>>  BY <1>2 DEF Trigger, data
  <2>2. TypeOK'  BY <1>1, <2>1 DEF Inv, TypeOK
  <2>3. ClientInv'  BY <1>1, <2>1 DEF Inv, ClientInv, TypeOK
  <2>4. StackInv' /\ PendingInv' /\ FamilyInv' /\ StatusInv'
    BY <1>1, <2>1 DEF Inv, StackInv, PendingInv, FamilyInv, StatusInv, WaitedBy, Top
  <2>. QED  BY <2>2, <2>3, <2>4 DEF Inv
<1>3. CASE workflow.trigger # << >>
  <2>. DEFINE f == Steps(workflow.trigger, 1, ~workflow.single)
  <2>1. /\ client' = [phase |-> "triggered", cursor |-> 0, got |-> << >>] /\ run' = Fresh
        /\ stack' = [stack EXCEPT ![Main] = <<f>>]
    BY <1>3 DEF Trigger
  <2>2. Frame(f, "steps")  BY DEF Frame, Steps
  <2>. HIDE DEF f
  <2>3. Working(<<f>>)  BY <2>2, OneStep
  <2>4. /\ stack'[Main] = <<f>> /\ DOMAIN stack' = Threads
        /\ \A u \in Threads \ {Main} : stack'[u] = stack[u]
    BY <1>0, <2>1 DEF Inv, TypeOK
  <2>5. TypeOK'
    <3>1. IsSeq(<< >>)  BY DEF IsSeq
    <3>. QED  BY <1>1, <2>1, <2>4, <3>1 DEF Inv, TypeOK, Fresh
  <2>6. StackInv'  BY <2>3, <2>4 DEF Inv, StackInv
  <2>7. PendingInv'  BY <1>1, <2>3, <2>4 DEF Inv, PendingInv
  <2>8. FamilyInv'
    <3>1. ~Blocked(stack[Main]) /\ ~Blocked(stack'[Main]) /\ stack[Main] # << >> /\ stack'[Main] # << >>
      BY <1>1, <2>3, <2>4, Kinds
    <3>. QED  BY <1>0, <2>4, <3>1, SameFamilies DEF Inv
  <2>9. StatusInv'  BY <2>1 DEF StatusInv, Fresh
  <2>10. ClientInv'
    <3>1. client'.cursor = 0 /\ client'.got = << >> /\ client'.phase = "triggered" /\ run'.thread = << >>
      BY <2>1 DEF Fresh
    <3>2. 0 \in 0..Len(<< >>) /\ SubSeq(<< >>, 1, 0) = << >>  OBVIOUS
    <3>. QED  BY <3>1, <3>2 DEF ClientInv
  <2>. QED  BY <2>5, <2>6, <2>7, <2>8, <2>9, <2>10 DEF Inv
<1>. QED  BY <1>2, <1>3

LEMMA ThreadKeeps ==
    ASSUME Inv, NEW t \in Threads, Thread(t)
    PROVE  Inv'
<1>. USE DEF Inv
<1>1. Moves(t) \/ Parallel(t) \/ Join(t)
  BY EffectMoves, StoringMoves, CallsMove, NestingMoves, DslMoves DEF Thread
<1>2. run.status = "running"
  <2>1. CASE Moves(t)  BY <2>1, OverIsQuiet DEF Moves
  <2>2. CASE Parallel(t)
    <3>1. Working(stack[t])  BY <2>2, DueWorks DEF Parallel
    <3>. QED  BY <3>1, OverIsQuiet
  <2>3. CASE Join(t)  BY <2>3, JoinShape, OverIsQuiet
  <2>. QED  BY <1>1, <2>1, <2>2, <2>3
<1>3. Talks /\ client' = client /\ DOMAIN stack' = Threads /\ DOMAIN pending' = Threads
  <2>1. CASE Moves(t)  BY <2>1, MovesKeeps DEF Moves
  <2>2. CASE Parallel(t)
    <3>1. Talks /\ client' = client /\ pending' = pending
      BY <2>2, TalkForms DEF Parallel, outside
    <3>2. DOMAIN stack' = Threads  BY <2>2, ParallelSeats
    <3>. QED  BY <3>1, <3>2 DEF TypeOK
  <2>3. CASE Join(t)  BY <2>3, JoinShape DEF Stays, TypeOK
  <2>. QED  BY <1>1, <2>1, <2>2, <2>3
<1>4. ClientInv' /\ IsSeq(run'.thread) /\ DOMAIN run' = DOMAIN run /\ run'.status = "running"
  BY <1>2, <1>3, TalkKeeps
<1>5. TypeOK'  BY <1>3, <1>4 DEF TypeOK
<1>6. StatusInv'  BY <1>4 DEF StatusInv
<1>7. StackInv' /\ PendingInv' /\ FamilyInv'
  BY <1>1, MovesKeeps, ParallelKeeps, JoinKeeps
<1>. QED  BY <1>4, <1>5, <1>6, <1>7

LEMMA FinishKeeps ==
    ASSUME Inv, Finish
    PROVE  Inv'
<1>1. /\ IsOver(stack[Main]) /\ run.status = "running" /\ UNCHANGED <<stack, pending, client>>
      /\ \/ run' = [run EXCEPT !.status = "done", !.vars = ctx[1]]
         \/ run' = [run EXCEPT !.status = "error"]
  BY DEF Finish, Over, IsOver, outside
<1>2. run'.thread = run.thread /\ DOMAIN run' = DOMAIN run  BY <1>1 DEF Inv, TypeOK
<1>3. TypeOK'  BY <1>1, <1>2 DEF Inv, TypeOK
<1>4. ClientInv'  BY <1>1, <1>2 DEF Inv, ClientInv
<1>5. StackInv' /\ PendingInv' /\ FamilyInv' /\ StatusInv'
  BY <1>1 DEF Inv, StackInv, PendingInv, FamilyInv, StatusInv, WaitedBy, Top
<1>. QED  BY <1>3, <1>4, <1>5 DEF Inv

LEMMA InitHolds == Init => Inv
<1>. SUFFICES ASSUME Init PROVE Inv  OBVIOUS
<1>. DEFINE f == Steps(workflow.flow, 1, TRUE)
<1>0. Main \in Threads /\ Main \notin Branches /\ Branches \subseteq Threads
  BY WorkflowRunAssumption DEF Threads, Main
<1>1. /\ stack = [t \in Threads |-> IF t = Main THEN <<f>> ELSE << >>]
      /\ pending = [t \in Threads |-> << >>] /\ run = Fresh
      /\ client = [phase |-> "polling", cursor |-> 0, got |-> << >>]
  BY DEF Init
<1>2. Frame(f, "steps")  BY DEF Frame, Steps
<1>. HIDE DEF f
<1>3. Working(<<f>>)  BY <1>2, OneStep
<1>4. stack[Main] = <<f>> /\ \A b \in Branches : stack[b] = << >>  BY <1>0, <1>1
<1>5. TypeOK
  <2>1. IsSeq(<< >>)  BY DEF IsSeq
  <2>. QED  BY <1>1, <2>1 DEF TypeOK, Fresh
<1>6. StackInv  BY <1>1, <1>3 DEF StackInv
<1>7. PendingInv  BY <1>1 DEF PendingInv
<1>8. FamilyInv
  <2>1. \A t \in Threads : ~Blocked(stack[t])
    <3>1. ~Blocked(stack[Main])  BY <1>3, <1>4, Kinds
    <3>2. \A b \in Branches : ~Blocked(stack[b])  BY <1>4 DEF Blocked
    <3>. QED  BY <3>1, <3>2 DEF Threads
  <2>. QED  BY <1>4, <2>1 DEF FamilyInv, WaitedBy
<1>9. StatusInv  BY <1>1 DEF StatusInv, Fresh
<1>10. ClientInv
  <2>1. client.cursor = 0 /\ client.got = << >> /\ client.phase = "polling" /\ run.thread = << >>
    BY <1>1 DEF Fresh
  <2>2. 0 \in 0..Len(<< >>) /\ SubSeq(<< >>, 1, 0) = << >>  OBVIOUS
  <2>. QED  BY <2>1, <2>2 DEF ClientInv
<1>. QED  BY <1>5, <1>6, <1>7, <1>8, <1>9, <1>10 DEF Inv

LEMMA NextStep ==
    ASSUME Inv, [Next]_vars
    PROVE  Inv'
<1>1. CASE UNCHANGED vars
  BY <1>1 DEF Inv, vars, data, TypeOK, StackInv, PendingInv, FamilyInv, StatusInv, ClientInv, WaitedBy, Top
<1>2. CASE \E t \in Threads : Thread(t)  BY <1>2, ThreadKeeps
<1>3. CASE Finish  BY <1>3, FinishKeeps
<1>4. CASE Poll
  <2>1. UNCHANGED <<stack, pending, run>>  BY <1>4 DEF Poll
  <2>2. ClientInv' /\ DOMAIN client' = DOMAIN client  BY <1>4, PollKeeps DEF Inv
  <2>3. TypeOK'  BY <2>1, <2>2 DEF Inv, TypeOK
  <2>4. StackInv' /\ PendingInv' /\ FamilyInv' /\ StatusInv'
    BY <2>1 DEF Inv, StackInv, PendingInv, FamilyInv, StatusInv, WaitedBy, Top
  <2>. QED  BY <2>2, <2>3, <2>4 DEF Inv
<1>5. CASE Trigger  BY <1>5, TriggerKeeps
<1>. QED  BY <1>1, <1>2, <1>3, <1>4, <1>5 DEF Next, Client

LEMMA Inductive == Spec => []Inv
BY InitHolds, NextStep, PTL DEF Spec

\* A client that polls has at any moment exactly what was reported when it last
\* asked, in order, and all of it when it is shown the result: however its polls
\* fall, whichever calls are refused, with parallel blocks in each other to any
\* depth.
THEOREM NoReportMissed == Spec => []ProgressComplete
<1>1. ASSUME Inv  PROVE  ProgressComplete
  <2>1. SubSeq(run.thread, 1, Len(run.thread)) = run.thread  BY <1>1, SeqLen DEF Inv, TypeOK
  <2>. QED  BY <1>1, <2>1 DEF Inv, ClientInv, ProgressComplete
<1>. QED  BY <1>1, Inductive, PTL

\* Nothing runs behind the back of a run that is over: no thread is at work or
\* waits once its status says so.
THEOREM OverMeansQuiet ==
    Spec => [](run.status # "running" => \A t \in Threads : stack[t] = << >> \/ Over(t))
<1>1. ASSUME Inv, run.status # "running", NEW t \in Threads  PROVE  stack[t] = << >> \/ Over(t)
  BY <1>1, OverIsQuiet DEF Inv, StackInv, Over, IsOver
<1>2. Inv => (run.status # "running" => \A t \in Threads : stack[t] = << >> \/ Over(t))  BY <1>1
<1>. QED  BY <1>2, Inductive, PTL
===============================================================================
