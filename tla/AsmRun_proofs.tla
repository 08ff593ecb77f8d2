---------------------------- MODULE AsmRun_proofs -----------------------------
(* The pool of threads, for any program: one endpoint is never asked two       *)
(* things at once, and what a program computes does not depend on when its     *)
(* generations are taken and answered, as long as it does not change a chat    *)
(* that a pending one was given.                                               *)
EXTENDS AsmRun, SequenceTheorems, TLAPS

-------------------------------------------------------------------------------
(* Sequences of which nothing is known but that they are sequences.            *)
IsSeq(s) == s \in Seq({s[k] : k \in DOMAIN s})

LEMMA SeqIs ==
    ASSUME NEW S, NEW s \in Seq(S)
    PROVE  IsSeq(s) /\ Len(s) \in Nat /\ DOMAIN s = 1..Len(s)
<1>1. Len(s) \in Nat /\ DOMAIN s = 1..Len(s) /\ s \in [1..Len(s) -> S]  BY LenProperties
<1>2. s \in [1..Len(s) -> {s[k] : k \in DOMAIN s}]  BY <1>1
<1>. QED  BY <1>1, <1>2, SeqDef DEF IsSeq

LEMMA SeqLen ==
    ASSUME NEW s, IsSeq(s)
    PROVE  Len(s) \in Nat /\ DOMAIN s = 1..Len(s) /\ (s # << >> => Len(s) > 0)
BY LenProperties, EmptySeq DEF IsSeq

LEMMA SeqEmpty == IsSeq(<< >>) /\ DOMAIN << >> = {} /\ Len(<< >>) = 0
<1>1. << >> \in Seq({1}) /\ Len(<< >>) = 0  BY EmptySeq
<1>2. IsSeq(<< >>) /\ DOMAIN << >> = 1..0  BY <1>1, SeqIs
<1>. QED  BY <1>1, <1>2

LEMMA SeqAppend ==
    ASSUME NEW s, IsSeq(s), NEW x
    PROVE  /\ IsSeq(Append(s, x)) /\ Append(s, x) # << >> /\ Len(Append(s, x)) = Len(s) + 1
           /\ \A k \in 1..Len(s) : Append(s, x)[k] = s[k]
           /\ Append(s, x)[Len(s) + 1] = x
<1>. DEFINE T == {s[k] : k \in DOMAIN s} \cup {x}
<1>1. s \in Seq(T)  BY SeqMonotonic DEF IsSeq
<1>2. x \in T  OBVIOUS
<1>. HIDE DEF T
<1>3. /\ Append(s, x) \in Seq(T) /\ Append(s, x) # << >> /\ Len(Append(s, x)) = Len(s) + 1
      /\ \A k \in 1..Len(s) : Append(s, x)[k] = s[k]
      /\ Append(s, x)[Len(s) + 1] = x
  BY <1>1, <1>2, AppendProperties
<1>4. IsSeq(Append(s, x))  BY <1>3, SeqIs
<1>. QED  BY <1>3, <1>4

LEMMA SeqBelow ==
    ASSUME NEW s, IsSeq(s), s # << >>
    PROVE  /\ IsSeq(Below(s)) /\ Len(Below(s)) = Len(s) - 1
           /\ \A k \in 1..(Len(s) - 1) : Below(s)[k] = s[k]
<1>. DEFINE T == {s[k] : k \in DOMAIN s}
<1>1. Len(s) \in Nat /\ Len(s) > 0 /\ DOMAIN s = 1..Len(s)  BY SeqLen
<1>2. \A k \in 1..(Len(s) - 1) : s[k] \in T  BY <1>1
<1>. HIDE DEF T
<1>3. /\ SubSeq(s, 1, Len(s) - 1) \in Seq(T)
      /\ Len(SubSeq(s, 1, Len(s) - 1)) = IF 1 <= Len(s) - 1 THEN Len(s) - 1 - 1 + 1 ELSE 0
      /\ \A k \in 1..(Len(s) - 1 - 1 + 1) : SubSeq(s, 1, Len(s) - 1)[k] = s[1 + k - 1]
  BY <1>1, <1>2, SubSeqProperties
<1>4. IsSeq(SubSeq(s, 1, Len(s) - 1))  BY <1>3, SeqIs
<1>5. Len(SubSeq(s, 1, Len(s) - 1)) = Len(s) - 1  BY <1>1, <1>3
<1>6. \A k \in 1..(Len(s) - 1) : SubSeq(s, 1, Len(s) - 1)[k] = s[k]
  <2>1. \A k \in 1..(Len(s) - 1) : 1 + k - 1 = k  BY <1>1
  <2>2. Len(s) - 1 - 1 + 1 = Len(s) - 1  BY <1>1
  <2>. QED  BY <1>3, <2>1, <2>2
<1>. QED  BY <1>4, <1>5, <1>6 DEF Below

LEMMA SeqTwo ==
    ASSUME NEW s, IsSeq(s), NEW x, NEW y
    PROVE  /\ IsSeq(s \o <<x, y>>) /\ Len(s \o <<x, y>>) = Len(s) + 2
           /\ \A k \in 1..Len(s) : (s \o <<x, y>>)[k] = s[k]
           /\ (s \o <<x, y>>)[Len(s) + 1] = x /\ (s \o <<x, y>>)[Len(s) + 2] = y
<1>. DEFINE T == {s[k] : k \in DOMAIN s} \cup {x, y}
<1>1. s \in Seq(T)  BY SeqMonotonic DEF IsSeq
<1>2. <<x, y>> \in Seq(T) /\ Len(<<x, y>>) = 2  OBVIOUS
<1>3. <<x, y>>[1] = x /\ <<x, y>>[2] = y  OBVIOUS
<1>4. Len(s) \in Nat  BY SeqLen
<1>. HIDE DEF T
<1>5. /\ s \o <<x, y>> \in Seq(T) /\ Len(s \o <<x, y>>) = Len(s) + Len(<<x, y>>)
      /\ \A k \in 1..(Len(s) + Len(<<x, y>>)) : (s \o <<x, y>>)[k] =
             IF k <= Len(s) THEN s[k] ELSE <<x, y>>[k - Len(s)]
  BY <1>1, <1>2, ConcatProperties
<1>6. IsSeq(s \o <<x, y>>)  BY <1>5, SeqIs
<1>7. Len(s \o <<x, y>>) = Len(s) + 2  BY <1>2, <1>5
<1>8. \A k \in 1..Len(s) : (s \o <<x, y>>)[k] = s[k]  BY <1>2, <1>4, <1>5
<1>9. (s \o <<x, y>>)[Len(s) + 1] = x /\ (s \o <<x, y>>)[Len(s) + 2] = y
  <2>1. Len(s) + 1 - Len(s) = 1 /\ Len(s) + 2 - Len(s) = 2  BY <1>4
  <2>2. Len(s) + 1 \in 1..(Len(s) + 2) /\ Len(s) + 2 \in 1..(Len(s) + 2)
        /\ ~(Len(s) + 1 <= Len(s)) /\ ~(Len(s) + 2 <= Len(s))  BY <1>4
  <2>. QED  BY <1>2, <1>3, <1>5, <2>1, <2>2
<1>. QED  BY <1>6, <1>7, <1>8, <1>9

LEMMA SeqTop ==
    ASSUME NEW s, IsSeq(s), s # << >>, NEW x
    PROVE  LET t == Append(Below(s), x) IN
           /\ IsSeq(t) /\ t # << >> /\ Len(t) = Len(s)
           /\ \A k \in 1..Len(s) : t[k] = IF k = Len(s) THEN x ELSE s[k]
<1>. DEFINE b == Below(s)
            t == Append(b, x)
<1>1. Len(s) \in Nat /\ Len(s) > 0  BY SeqLen
<1>2. IsSeq(b) /\ Len(b) = Len(s) - 1 /\ \A k \in 1..(Len(s) - 1) : b[k] = s[k]  BY SeqBelow
<1>. HIDE DEF b
<1>3. /\ IsSeq(t) /\ t # << >> /\ Len(t) = Len(b) + 1
      /\ \A k \in 1..Len(b) : t[k] = b[k]
      /\ t[Len(b) + 1] = x
  BY <1>2, SeqAppend
<1>. HIDE DEF t
<1>4. Len(b) + 1 = Len(s)  BY <1>1, <1>2
<1>5. ASSUME NEW k \in 1..Len(s), k # Len(s) PROVE t[k] = s[k]
  <2>1. k \in 1..(Len(s) - 1)  BY <1>1, <1>5
  <2>. QED  BY <1>2, <1>3, <2>1
<1>6. t[Len(s)] = x  BY <1>3, <1>4
<1>. QED  BY <1>3, <1>4, <1>5, <1>6 DEF t, b

LEMMA SeqSame ==
    ASSUME NEW s, NEW t, IsSeq(s), IsSeq(t), Len(s) = Len(t), \A k \in 1..Len(s) : s[k] = t[k]
    PROVE  s = t
<1>. DEFINE T == {s[k] : k \in DOMAIN s} \cup {t[k] : k \in DOMAIN t}
<1>1. s \in Seq(T) /\ t \in Seq(T)  BY SeqMonotonic DEF IsSeq
<1>. HIDE DEF T
<1>. QED  BY <1>1, SeqEqual

\* What a map over a sequence gives is a sequence.
LEMMA SeqMap ==
    ASSUME NEW n \in Nat, NEW t, DOMAIN t = 1..n, t = [k \in 1..n |-> t[k]]
    PROVE  IsSeq(t) /\ Len(t) = n
<1>1. t \in [1..n -> {t[k] : k \in DOMAIN t}]  OBVIOUS
<1>2. t \in Seq({t[k] : k \in DOMAIN t})  BY <1>1, SeqDef
<1>. QED  BY <1>2, LenProperties DEF IsSeq
-------------------------------------------------------------------------------
(* What holds in every state. A register has a value, in which a future is one *)
(* that was submitted; what is in a list is neither a future nor a list.       *)
Plain(v) == Tag(v) \notin {"future", "list"}
SafeValue(v, jobs) ==
    /\ Tag(v) = "future" => v[2] \in jobs
    /\ Tag(v) = "list" => IsSeq(v[2]) /\ \A k \in DOMAIN v[2] : Plain(v[2][k])
SafeRegs(e, jobs) == e = [r \in Regs |-> e[r]] /\ \A r \in Regs : SafeValue(e[r], jobs)

EnvInv == IsSeq(env) /\ env # << >> /\ \A c \in DOMAIN env : SafeRegs(env[c], DOMAIN job)

\* A body under a function's is at the call of that function.
Calls(fr) == fr.ip \in DOMAIN fr.code /\ fr.code[fr.ip].fn \in DOMAIN Functions
FrameOK(fr) ==
    /\ DOMAIN fr = {"code", "ip", "steps", "iter", "items", "fn"}
    /\ Code(fr.code) /\ fr.ip \in Int /\ fr.iter \in Nat /\ fr.fn \in BOOLEAN
    /\ IsSeq(fr.items) /\ \A k \in DOMAIN fr.items : Plain(fr.items[k])
FramesInv ==
    /\ IsSeq(frames) /\ frames # << >> /\ ~frames[1].fn
    /\ \A i \in DOMAIN frames : FrameOK(frames[i])
    /\ \A i \in DOMAIN frames : i > 1 /\ frames[i].fn => Calls(frames[i - 1])

\* There is a context for the program and one for each function being run: level
\* says in which one a body runs.
Levels(level, bodies, contexts) ==
    /\ level[Len(bodies)] = contexts
    /\ \A i \in DOMAIN bodies : level[i] \in Nat \ {0}
    /\ \A i \in DOMAIN bodies :
           i > 1 => level[i] = IF bodies[i].fn THEN level[i - 1] + 1 ELSE level[i - 1]
ContextInv == \E level : Levels(level, frames, Len(env))

\* A generation that was asked was asked something, but for an empty source;
\* one that waits was not.
JobOK(g) ==
    /\ DOMAIN g = {"source", "url", "context", "given", "asked", "state"}
    /\ g.state \in {"queued", "waiting", "asked", "done", "failed"}
    /\ g.state \in {"queued", "waiting"} => g.asked = Nothing
    /\ g.state \in {"asked", "done", "failed"} /\ g.asked = Nothing => g.source = Nothing
JobInv == IsSeq(job) /\ \A f \in DOMAIN job : JobOK(job[f])

RInv == EnvInv /\ FramesInv /\ ContextInv /\ JobInv

\* A step leaves alone the chats that pending generations were given.
NoLateChange == \A f \in DOMAIN job :
    job[f].asked = Nothing /\ Tag(job[f].source) = "chat" =>
        heap'[job[f].source[2]] = heap[job[f].source[2]]

\* A future after the step.
Later(v) ==
    IF Tag(v) # "future" THEN v
    ELSE IF job'[v[2]].asked # Nothing THEN Answer(job'[v[2]].asked)
    ELSE LET source == job'[v[2]].source IN
         Answer(IF Tag(source) = "chat" THEN <<"messages", heap'[source[2]]>> ELSE source)
-------------------------------------------------------------------------------
LEMMA SeenLater == Seen' = [c \in DOMAIN env' |-> [r \in Regs |-> Later(env'[c][r])]]
BY DEF Seen, Eventually, Content, Later

LEMMA SeenSeq ==
    ASSUME EnvInv
    PROVE  /\ IsSeq(Seen) /\ Len(Seen) = Len(env) /\ Len(env) \in Nat \ {0}
           /\ \A c \in 1..Len(env) : Seen[c] = [r \in Regs |-> Eventually(env[c][r])]
<1>1. Len(env) \in Nat \ {0} /\ DOMAIN env = 1..Len(env)  BY SeqLen DEF EnvInv
<1>2. Seen = [c \in 1..Len(env) |-> Seen[c]] /\ DOMAIN Seen = 1..Len(env)  BY <1>1 DEF Seen
<1>. QED  BY <1>1, <1>2, SeqMap DEF Seen

LEMMA SeenTop ==
    ASSUME EnvInv
    PROVE  /\ Sync!Top = [r \in Regs |-> Eventually(Top[r])]
           /\ SafeRegs(Top, DOMAIN job)
<1>1. Sync!Top = Seen[Len(Seen)]  BY DEF Sync!Top
<1>2. Len(env) \in 1..Len(env) /\ DOMAIN env = 1..Len(env)  BY SeenSeq, SeqLen DEF EnvInv
<1>. QED  BY <1>1, <1>2, SeenSeq DEF Top, EnvInv

\* What is awaited has the value that was seen in it.
LEMMA AnswerSeen ==
    ASSUME JobInv, NEW v, SafeValue(v, DOMAIN job), Tag(v) = "future", ~Pending(v), ~Failed(v)
    PROVE  Answer(job[v[2]].asked) = Eventually(v)
<1>1. JobOK(job[v[2]])  BY DEF JobInv, SafeValue
<1>2. job[v[2]].state = "done"  BY <1>1 DEF JobOK, Pending, Failed, Unfinished
<1>3. CASE job[v[2]].asked # Nothing  BY <1>3 DEF Eventually
<1>4. CASE job[v[2]].asked = Nothing
  <2>1. job[v[2]].source = Nothing  BY <1>1, <1>2, <1>4 DEF JobOK
  <2>2. Content(Nothing) = Nothing  BY DEF Content, Tag, Nothing
  <2>. QED  BY <1>4, <2>1, <2>2 DEF Eventually
<1>. QED  BY <1>3, <1>4

LEMMA AnswerPlain == \A x : Plain(Answer(x)) /\ SafeValue(Answer(x), DOMAIN job) /\ Eventually(Answer(x)) = Answer(x)
BY DEF Plain, SafeValue, Eventually, Answer, Tag

LEMMA AwaitedRegs ==
    ASSUME EnvInv, JobInv, Ready
    PROVE  /\ SafeRegs(Awaited(Top), DOMAIN job)
           /\ \A r \in Regs : Eventually(Awaited(Top)[r]) = Sync!Top[r]
           /\ \A k \in DOMAIN Reads : Reads[k] \in Regs =>
                  /\ Tag(Awaited(Top)[Reads[k]]) # "future"
                  /\ Awaited(Top)[Reads[k]] = Sync!Top[Reads[k]]
<1>. DEFINE e == Awaited(Top)
<1>0. /\ e = [r \in Regs |-> e[r]]
      /\ \A r \in Regs : e[r] =
            IF Tag(Top[r]) = "future" /\ \E k \in DOMAIN Reads : Reads[k] = r
            THEN Answer(job[Top[r][2]].asked) ELSE Top[r]
  BY DEF Awaited
<1>. HIDE DEF e
<1>1. \A r \in Regs : SafeValue(Top[r], DOMAIN job) /\ Sync!Top[r] = Eventually(Top[r])
  BY SeenTop DEF SafeRegs
<1>2. ASSUME NEW r \in Regs, Tag(Top[r]) = "future", NEW k \in DOMAIN Reads, Reads[k] = r
      PROVE  e[r] = Eventually(Top[r]) /\ e[r] = Answer(job[Top[r][2]].asked)
  <2>1. Val(Top, r) = Top[r]  BY DEF Val
  <2>2. ~Pending(Top[r]) /\ ~Failed(Top[r])  BY <1>2, <2>1 DEF Ready
  <2>. QED  BY <1>0, <1>1, <1>2, <2>2, AnswerSeen
<1>3. ASSUME NEW r \in Regs
      PROVE  SafeValue(e[r], DOMAIN job) /\ Eventually(e[r]) = Sync!Top[r]
  <2>1. CASE Tag(Top[r]) = "future" /\ \E k \in DOMAIN Reads : Reads[k] = r
    BY <1>1, <1>2, <2>1, AnswerPlain
  <2>2. CASE ~(Tag(Top[r]) = "future" /\ \E k \in DOMAIN Reads : Reads[k] = r)
    BY <1>0, <1>1, <2>2
  <2>. QED  BY <2>1, <2>2
<1>4. ASSUME NEW k \in DOMAIN Reads, Reads[k] \in Regs
      PROVE  Tag(e[Reads[k]]) # "future" /\ e[Reads[k]] = Sync!Top[Reads[k]]
  <2>1. CASE Tag(Top[Reads[k]]) = "future"
    BY <1>1, <1>2, <1>4, <2>1, AnswerPlain DEF Plain
  <2>2. CASE Tag(Top[Reads[k]]) # "future"
    BY <1>0, <1>1, <1>4, <2>2 DEF Eventually
  <2>. QED  BY <2>1, <2>2
<1>. QED  BY <1>0, <1>3, <1>4 DEF e, SafeRegs

\* What an instruction reads is the same for the program and the reference.
LEMMA ReadSame ==
    ASSUME EnvInv, JobInv, Ready, NEW k \in DOMAIN Reads, Token(Reads[k])
    PROVE  LET v == Val(Awaited(Top), Reads[k]) IN
           v = Val(Sync!Top, Reads[k]) /\ Tag(v) # "future" /\ SafeValue(v, DOMAIN job)
<1>1. CASE Reads[k] \in Regs  BY <1>1, AwaitedRegs DEF Val, SafeRegs
<1>2. CASE Reads[k] \notin Regs
  BY <1>2 DEF Val, Token, SafeValue
<1>. QED  BY <1>1, <1>2
-------------------------------------------------------------------------------
(* A step of the program.                                                      *)
JobsKept == \A f \in DOMAIN job : f \in DOMAIN job' /\ job'[f] = job[f]

LEMMA LaterSame ==
    ASSUME JobInv, JobsKept, NoLateChange, NEW v, SafeValue(v, DOMAIN job)
    PROVE  Later(v) = Eventually(v)
<1>1. CASE Tag(v) # "future"  BY <1>1 DEF Later, Eventually
<1>2. CASE Tag(v) = "future"
  <2>1. v[2] \in DOMAIN job /\ job'[v[2]] = job[v[2]]  BY <1>2 DEF SafeValue, JobsKept
  <2>. QED  BY <1>2, <2>1 DEF Later, Eventually, NoLateChange, Content
<1>. QED  BY <1>1, <1>2

LEMMA SafeKept ==
    ASSUME JobsKept
    PROVE  /\ \A v : SafeValue(v, DOMAIN job) => SafeValue(v, DOMAIN job')
           /\ \A e : SafeRegs(e, DOMAIN job) => SafeRegs(e, DOMAIN job')
BY DEF JobsKept, SafeValue, SafeRegs

\* The registers of the context at the top get new values.
LEMMA TopSet ==
    ASSUME EnvInv, JobInv, JobsKept, NoLateChange,
           NEW e, SafeRegs(e, DOMAIN job'), env' = Append(Below(env), e)
    PROVE  /\ EnvInv' /\ Len(env') = Len(env)
           /\ Seen' = Append(SubSeq(Seen, 1, Len(Seen) - 1), [r \in Regs |-> Later(e[r])])
<1>. DEFINE n == Len(env)
            s == [r \in Regs |-> Later(e[r])]
            t == Append(Below(Seen), s)
<1>1. /\ IsSeq(env) /\ env # << >> /\ n \in Nat \ {0} /\ DOMAIN env = 1..n
      /\ IsSeq(Seen) /\ Len(Seen) = n /\ Seen # << >>
  BY SeqLen, SeenSeq, EmptySeq DEF EnvInv
<1>3. /\ IsSeq(env') /\ env' # << >> /\ Len(env') = n
      /\ \A c \in 1..n : env'[c] = IF c = n THEN e ELSE env[c]
  <2>. HIDE DEF s, t
  <2>1. IsSeq(env) /\ env # << >>  BY <1>1
  <2>2. LET w == Append(Below(env), e) IN
        /\ IsSeq(w) /\ w # << >> /\ Len(w) = Len(env)
        /\ \A c \in 1..Len(env) : w[c] = IF c = Len(env) THEN e ELSE env[c]
    BY <2>1, SeqTop
  <2>. QED  BY <2>2
<1>4. DOMAIN env' = 1..n  BY <1>3, SeqLen
<1>5. EnvInv'
  <2>1. ASSUME NEW c \in 1..n PROVE SafeRegs(env'[c], DOMAIN job')
    <3>1. SafeRegs(env[c], DOMAIN job')  BY <1>1, SafeKept DEF EnvInv
    <3>. QED  BY <1>3, <3>1
  <2>. QED  BY <1>3, <1>4, <2>1 DEF EnvInv
<1>. HIDE DEF s
<1>6. /\ IsSeq(t) /\ Len(t) = n
      /\ \A c \in 1..n : t[c] = IF c = n THEN s ELSE Seen[c]
  <2>1. \A x : /\ IsSeq(Append(Below(Seen), x)) /\ Len(Append(Below(Seen), x)) = Len(Seen)
               /\ \A c \in 1..Len(Seen) :
                      Append(Below(Seen), x)[c] = IF c = Len(Seen) THEN x ELSE Seen[c]
    <3>. HIDE DEF n, s, t
    <3>1. IsSeq(Seen) /\ Seen # << >>  BY <1>1
    <3>. QED  BY <3>1, SeqTop
  <2>. QED  BY <1>1, <2>1, Zenon
<1>7. /\ IsSeq(Seen') /\ Len(Seen') = n
      /\ \A c \in 1..n : Seen'[c] = [r \in Regs |-> Later(env'[c][r])]
  <2>1. Seen' = [c \in 1..n |-> Seen'[c]] /\ DOMAIN Seen' = 1..n  BY <1>4, SeenLater
  <2>2. IsSeq(Seen') /\ Len(Seen') = n  BY <1>1, <2>1, SeqMap
  <2>. QED  BY <1>4, <2>2, SeenLater
<1>8. ASSUME NEW c \in 1..n PROVE Seen'[c] = t[c]
  <2>1. CASE c = n  BY <1>3, <1>6, <1>7, <2>1 DEF s
  <2>2. CASE c # n
    <3>1. c \in DOMAIN env  BY <1>1
    <3>2. \A r \in Regs : Later(env[c][r]) = Eventually(env[c][r])
      BY <3>1, LaterSame DEF EnvInv, SafeRegs
    <3>3. Seen[c] = [r \in Regs |-> Eventually(env[c][r])]  BY SeenSeq
    <3>. QED  BY <1>3, <1>6, <1>7, <2>2, <3>2, <3>3
  <2>. QED  BY <2>1, <2>2
<1>. HIDE DEF t, n
<1>9. Seen' = t  BY <1>6, <1>7, <1>8, SeqSame
<1>. QED  BY <1>3, <1>5, <1>9 DEF t, s, n, Below

\* One register of them gets a new value.
LEMMA TopWrite ==
    ASSUME EnvInv, JobInv, Ready, JobsKept, NoLateChange,
           NEW d, NEW v, SafeValue(v, DOMAIN job'),
           env' = Append(Below(env), [Awaited(Top) EXCEPT ![d] = v])
    PROVE  /\ EnvInv' /\ Len(env') = Len(env)
           /\ Seen' = Append(SubSeq(Seen, 1, Len(Seen) - 1), [Sync!Top EXCEPT ![d] = Later(v)])
<1>. DEFINE e == Awaited(Top)
            w == [e EXCEPT ![d] = v]
<1>1. /\ SafeRegs(e, DOMAIN job') /\ \A r \in Regs : Later(e[r]) = Sync!Top[r]
      /\ e = [r \in Regs |-> e[r]]
  <2>1. \A r \in Regs : SafeValue(e[r], DOMAIN job) /\ Eventually(e[r]) = Sync!Top[r]
    BY AwaitedRegs DEF SafeRegs
  <2>2. \A r \in Regs : Later(e[r]) = Eventually(e[r])
    BY <2>1, LaterSame
  <2>. QED  BY <2>1, <2>2, AwaitedRegs, SafeKept DEF SafeRegs
<1>2. Sync!Top = [r \in Regs |-> Sync!Top[r]]  BY SeenTop
<1>. HIDE DEF e
<1>3. w = [r \in Regs |-> IF r = d THEN v ELSE e[r]]  BY <1>1
<1>4. SafeRegs(w, DOMAIN job')  BY <1>1, <1>3 DEF SafeRegs
<1>5. [r \in Regs |-> Later(w[r])] = [Sync!Top EXCEPT ![d] = Later(v)]
  <2>1. \A r \in Regs : Later(w[r]) = IF r = d THEN Later(v) ELSE Sync!Top[r]
    BY <1>1, <1>3
  <2>2. [Sync!Top EXCEPT ![d] = Later(v)] = [r \in Regs |-> IF r = d THEN Later(v) ELSE Sync!Top[r]]
    BY <1>2
  <2>. QED  BY <2>1, <2>2
<1>6. env' = Append(Below(env), w)  BY DEF e
<1>. HIDE DEF w
<1>. QED  BY <1>4, <1>5, <1>6, TopSet

LEMMA TopKept ==
    ASSUME EnvInv, JobInv, Ready, JobsKept, NoLateChange,
           env' = Append(Below(env), Awaited(Top))
    PROVE  /\ EnvInv' /\ Len(env') = Len(env)
           /\ Seen' = Append(SubSeq(Seen, 1, Len(Seen) - 1), Sync!Top)
<1>. DEFINE e == Awaited(Top)
<1>1. SafeRegs(e, DOMAIN job')  BY AwaitedRegs, SafeKept
<1>2. \A r \in Regs : Later(e[r]) = Sync!Top[r]  BY AwaitedRegs, LaterSame DEF SafeRegs
<1>3. [r \in Regs |-> Later(e[r])] = Sync!Top
  <2>1. Sync!Top = [r \in Regs |-> Sync!Top[r]]  BY SeenTop
  <2>. HIDE DEF e
  <2>. QED  BY <1>2, <2>1
<1>. HIDE DEF e
<1>4. env' = Append(Below(env), e)  BY DEF e
<1>. QED  BY <1>1, <1>3, <1>4, TopSet
-------------------------------------------------------------------------------
(* The bodies being run.                                                       *)
LEMMA FramesTop ==
    ASSUME FramesInv
    PROVE  /\ Len(frames) \in Nat \ {0} /\ DOMAIN frames = 1..Len(frames)
           /\ FrameOK(Frame) /\ Frame = frames[Len(frames)]
<1>1. Len(frames) \in Nat \ {0} /\ DOMAIN frames = 1..Len(frames)  BY SeqLen DEF FramesInv
<1>2. Len(frames) \in 1..Len(frames)  BY <1>1
<1>. QED  BY <1>1, <1>2 DEF FramesInv, Frame

\* The body at the top goes on.
LEMMA FramesGo ==
    ASSUME FramesInv, ContextInv, Len(env') = Len(env),
           NEW fr, FrameOK(fr), fr.fn = Frame.fn, frames' = Append(Below(frames), fr)
    PROVE  FramesInv' /\ ContextInv'
<1>. DEFINE n == Len(frames)
<1>0. n \in Nat \ {0} /\ DOMAIN frames = 1..n /\ Frame = frames[n]  BY FramesTop
<1>1. /\ IsSeq(frames') /\ frames' # << >> /\ Len(frames') = n
      /\ \A i \in 1..n : frames'[i] = IF i = n THEN fr ELSE frames[i]
  BY SeqTop, SMTT(20) DEF FramesInv
<1>2. DOMAIN frames' = 1..n  BY <1>1, SeqLen
<1>. HIDE DEF n
<1>3. \A i \in 1..n : frames'[i].fn = frames[i].fn  BY <1>0, <1>1
<1>4. FramesInv'
  <2>1. ~frames'[1].fn  BY <1>0, <1>3 DEF FramesInv
  <2>2. \A i \in 1..n : FrameOK(frames'[i])  BY <1>0, <1>1 DEF FramesInv
  <2>3. ASSUME NEW i \in 1..n, i > 1, frames'[i].fn PROVE Calls(frames'[i - 1])
    <3>1. i - 1 \in 1..n /\ i - 1 # n  BY <1>0, <2>3
    <3>. QED  BY <1>0, <1>1, <1>3, <2>3, <3>1 DEF FramesInv
  <2>. QED  BY <1>1, <1>2, <2>1, <2>2, <2>3, Zenon DEF FramesInv
<1>5. ContextInv'
  <2>1. PICK level : Levels(level, frames, Len(env))  BY DEF ContextInv
  <2>2. Levels(level, frames', Len(env'))  BY <1>0, <1>1, <1>2, <1>3, <2>1 DEF Levels, n
  <2>. QED  BY <2>2 DEF ContextInv
<1>. QED  BY <1>4, <1>5

\* A body is entered over it, in the same context or in a new one.
LEMMA FramesEnter ==
    ASSUME FramesInv, ContextInv,
           NEW fr, FrameOK(fr), fr.fn = Frame.fn,
           NEW body, FrameOK(body), body.fn => Calls(fr),
           Len(env') = IF body.fn THEN Len(env) + 1 ELSE Len(env),
           frames' = Below(frames) \o <<fr, body>>
    PROVE  FramesInv' /\ ContextInv'
<1>. DEFINE n == Len(frames)
<1>0. n \in Nat \ {0} /\ DOMAIN frames = 1..n /\ Frame = frames[n]  BY FramesTop
<1>1. /\ IsSeq(Below(frames)) /\ Len(Below(frames)) = n - 1
      /\ \A i \in 1..(n - 1) : Below(frames)[i] = frames[i]
  BY SeqBelow DEF FramesInv
<1>2. /\ IsSeq(frames') /\ Len(frames') = n - 1 + 2
      /\ \A i \in 1..(n - 1) : frames'[i] = frames[i]
      /\ frames'[n - 1 + 1] = fr /\ frames'[n - 1 + 2] = body
  BY <1>1, SeqTwo
<1>. HIDE DEF n
<1>3. /\ Len(frames') = n + 1 /\ DOMAIN frames' = 1..(n + 1)
      /\ \A i \in 1..n : frames'[i] = IF i = n THEN fr ELSE frames[i]
      /\ frames'[n + 1] = body
  <2>1. n - 1 + 2 = n + 1 /\ n - 1 + 1 = n  BY <1>0
  <2>2. \A i \in 1..n : i = n \/ i \in 1..(n - 1)  BY <1>0
  <2>3. DOMAIN frames' = 1..(n + 1)  BY <1>2, <2>1, SeqLen
  <2>4. ASSUME NEW i \in 1..n PROVE frames'[i] = IF i = n THEN fr ELSE frames[i]
    BY <1>2, <2>1, <2>2
  <2>. QED  BY <1>2, <2>1, <2>3, <2>4
<1>4. \A i \in 1..n : frames'[i].fn = frames[i].fn  BY <1>0, <1>3
<1>5. \A i \in 1..(n + 1) : i = n + 1 \/ i \in 1..n  BY <1>0
<1>6. FramesInv'
  <2>0. frames' # << >>  BY <1>0, <1>3
  <2>1. ~frames'[1].fn  BY <1>0, <1>4 DEF FramesInv
  <2>2. \A i \in 1..(n + 1) : FrameOK(frames'[i])  BY <1>0, <1>3, <1>5 DEF FramesInv
  <2>3. ASSUME NEW i \in 1..(n + 1), i > 1, frames'[i].fn PROVE Calls(frames'[i - 1])
    <3>1. CASE i = n + 1
      <4>1. n + 1 - 1 = n /\ n \in 1..n  BY <1>0
      <4>. QED  BY <1>3, <2>3, <3>1, <4>1
    <3>2. CASE i \in 1..n
      <4>1. i - 1 \in 1..n /\ i - 1 # n  BY <1>0, <2>3, <3>2
      <4>. QED  BY <1>0, <1>3, <1>4, <2>3, <3>2, <4>1 DEF FramesInv
    <3>. QED  BY <1>5, <3>1, <3>2
  <2>. QED  BY <1>2, <1>3, <2>0, <2>1, <2>2, <2>3 DEF FramesInv
<1>7. ContextInv'
  <2>1. PICK old : Levels(old, frames, Len(env))  BY DEF ContextInv
  <2>. DEFINE level == [i \in 1..(n + 1) |-> IF i = n + 1 THEN Len(env') ELSE old[i]]
  <2>2. old[n] = Len(env) /\ Len(env) \in Nat \ {0}  BY <1>0, <2>1 DEF Levels, n
  <2>3. Len(env') \in Nat \ {0}  BY <2>2
  <2>4. level[n + 1] = Len(env') /\ \A i \in 1..n : level[i] = old[i]  BY <1>0
  <2>. HIDE DEF level
  <2>5. \A i \in 1..(n + 1) : level[i] \in Nat \ {0}  BY <1>0, <1>5, <2>1, <2>3, <2>4 DEF Levels
  <2>6. ASSUME NEW i \in 1..(n + 1), i > 1
        PROVE  level[i] = IF frames'[i].fn THEN level[i - 1] + 1 ELSE level[i - 1]
    <3>1. CASE i = n + 1
      <4>1. n + 1 - 1 = n /\ n \in 1..n  BY <1>0
      <4>. QED  BY <1>3, <2>2, <2>4, <3>1, <4>1
    <3>2. CASE i \in 1..n
      <4>1. i - 1 \in 1..n  BY <1>0, <2>6, <3>2
      <4>. QED  BY <1>0, <1>4, <2>1, <2>4, <2>6, <3>2, <4>1 DEF Levels
    <3>. QED  BY <1>5, <3>1, <3>2
  <2>7. Levels(level, frames', Len(env'))  BY <1>3, <2>4, <2>5, <2>6 DEF Levels
  <2>. QED  BY <2>7 DEF ContextInv
<1>. QED  BY <1>6, <1>7

\* What is under it.
LEMMA FramesUnder ==
    ASSUME FramesInv, ContextInv, Len(frames) > 1
    PROVE  /\ Len(frames) - 1 \in Nat \ {0} /\ Len(frames) - 1 \in 1..Len(frames)
           /\ FrameOK(Caller) /\ Caller = frames[Len(frames) - 1]
           /\ Frame.fn => Len(env) > 1 /\ Calls(Caller)
           /\ IsSeq(Below(frames)) /\ Len(Below(frames)) = Len(frames) - 1
           /\ \A i \in 1..(Len(frames) - 1) : Below(frames)[i] = frames[i]
           /\ \E level : /\ Levels(level, frames, Len(env))
                         /\ level[Len(frames) - 1] = IF Frame.fn THEN Len(env) - 1 ELSE Len(env)
<1>. DEFINE n == Len(frames)
            m == n - 1
<1>0. n \in Nat \ {0} /\ DOMAIN frames = 1..n /\ Frame = frames[n]  BY FramesTop
<1>1. m \in Nat \ {0} /\ m \in 1..n /\ n \in 1..n /\ n > 1 /\ n - 1 = m  BY <1>0
<1>2. IsSeq(Below(frames)) /\ Len(Below(frames)) = m /\ \A i \in 1..m : Below(frames)[i] = frames[i]
  BY SeqBelow DEF FramesInv
<1>3. Caller = frames[m]  BY DEF Caller
<1>4. PICK level : Levels(level, frames, Len(env))  BY DEF ContextInv
<1>5. level[n] = Len(env)  BY <1>4 DEF Levels
<1>. HIDE DEF m, n
<1>6. FrameOK(Caller) /\ (Frame.fn => Calls(Caller))  BY <1>0, <1>1, <1>3 DEF FramesInv
<1>7. level[m] \in Nat \ {0} /\ level[n] = IF Frame.fn THEN level[m] + 1 ELSE level[m]
  BY <1>0, <1>1, <1>4 DEF Levels
<1>8. level[m] = IF Frame.fn THEN Len(env) - 1 ELSE Len(env)  BY <1>5, <1>7
<1>9. Frame.fn => Len(env) > 1  BY <1>5, <1>7
<1>. QED  BY <1>1, <1>2, <1>3, <1>4, <1>6, <1>8, <1>9 DEF m, n

\* It ends, and with a function its context does.
LEMMA FramesLeave ==
    ASSUME FramesInv, ContextInv, Len(frames) > 1,
           NEW fr, FrameOK(fr), fr.fn = Caller.fn,
           frames' = Append(Below(Below(frames)), fr) \/ (fr = Caller /\ frames' = Below(frames)),
           Len(env') = IF Frame.fn THEN Len(env) - 1 ELSE Len(env)
    PROVE  FramesInv' /\ ContextInv'
<1>. DEFINE n == Len(frames)
            m == n - 1
            b == Below(frames)
<1>0. n \in Nat \ {0} /\ DOMAIN frames = 1..n  BY FramesTop
<1>1. m \in Nat \ {0} /\ m \in 1..n /\ \A i \in 1..m : i \in 1..n
  <2>1. m \in Nat \ {0} /\ m \in 1..n  BY FramesUnder
  <2>. HIDE DEF m, n
  <2>. QED  BY <1>0, <2>1
<1>2. IsSeq(b) /\ Len(b) = m /\ \A i \in 1..m : b[i] = frames[i]  BY FramesUnder
<1>3. Caller = frames[m]  BY DEF Caller
<1>4. PICK level : Levels(level, frames, Len(env)) /\ level[m] = Len(env')  BY FramesUnder
<1>. HIDE DEF b, m, n
<1>5. b # << >>  BY <1>1, <1>2
<1>6. /\ IsSeq(frames') /\ frames' # << >> /\ Len(frames') = m
      /\ \A i \in 1..m : frames'[i] = IF i = m THEN fr ELSE frames[i]
  <2>1. CASE frames' = Append(Below(b), fr)
    <3>1. \A x : /\ IsSeq(Append(Below(b), x)) /\ Append(Below(b), x) # << >>
                 /\ Len(Append(Below(b), x)) = m
                 /\ \A i \in 1..m : Append(Below(b), x)[i] = IF i = m THEN x ELSE b[i]
      BY <1>2, <1>5, SeqTop
    <3>2. /\ IsSeq(frames') /\ frames' # << >> /\ Len(frames') = m
          /\ \A i \in 1..m : frames'[i] = IF i = m THEN fr ELSE b[i]
      BY <2>1, <3>1
    <3>. QED  BY <1>2, <3>2
  <2>2. CASE fr = Caller /\ frames' = b  BY <1>2, <1>3, <1>5, <2>2
  <2>. QED  BY <2>1, <2>2 DEF b
<1>7. DOMAIN frames' = 1..m  BY <1>6, SeqLen
<1>8. \A i \in 1..m : frames'[i].fn = frames[i].fn  BY <1>3, <1>6
<1>9. FramesInv'
  <2>1. ~frames'[1].fn  BY <1>1, <1>8 DEF FramesInv
  <2>2. \A i \in 1..m : FrameOK(frames'[i])  BY <1>0, <1>1, <1>6 DEF FramesInv
  <2>3. ASSUME NEW i \in 1..m, i > 1, frames'[i].fn PROVE Calls(frames'[i - 1])
    <3>1. i - 1 \in 1..m /\ i - 1 # m  BY <1>1, <2>3
    <3>. QED  BY <1>0, <1>1, <1>6, <1>8, <2>3, <3>1 DEF FramesInv
  <2>. QED  BY <1>6, <1>7, <2>1, <2>2, <2>3 DEF FramesInv
<1>10. ContextInv'
  <2>1. \A i \in 1..m : level[i] \in Nat \ {0}  BY <1>0, <1>1, <1>4 DEF Levels
  <2>2. ASSUME NEW i \in 1..m, i > 1
        PROVE  level[i] = IF frames'[i].fn THEN level[i - 1] + 1 ELSE level[i - 1]
    BY <1>0, <1>1, <1>4, <1>8, <2>2 DEF Levels
  <2>3. Levels(level, frames', Len(env'))  BY <1>4, <1>6, <1>7, <2>1, <2>2 DEF Levels
  <2>. QED  BY <2>3 DEF ContextInv
<1>. QED  BY <1>9, <1>10
-------------------------------------------------------------------------------
(* The reference has the same bodies, so the same instruction is due in it.    *)
LEMMA SyncSame ==
    /\ Sync!Frame = Frame /\ Sync!Here = Here /\ Sync!Caller = Caller /\ Sync!Calling = Calling
    /\ Sync!Going = Going /\ Sync!Over = Over /\ Sync!Reads = Reads /\ Sync!BodyEnd = BodyEnd
    /\ \A op : Sync!Due(op) = Due(op)
    /\ \A n : Sync!Goto(n) = Goto(n)
    /\ \A s : Sync!Below(s) = Below(s)
    /\ \A v : Sync!Content(v) = Content(v) /\ Sync!Truthy(v) = Truthy(v) /\ Sync!ToList(v) = ToList(v)
    /\ \A v : Sync!Tag(v) = Tag(v) /\ Sync!Answer(v) = Answer(v) /\ Sync!List(v) = List(v) /\ Sync!Bool(v) = Bool(v)
    /\ \A v, n : Sync!Part(v, n) = Part(v, n)
    /\ \A e, token : Sync!Val(e, token) = Val(e, token)
    /\ \A f : Sync!Continue(f) <=> Continue(f)
    /\ \A f, code, fn : Sync!Enter(f, code, fn) <=> Enter(f, code, fn)
    /\ \A f : Sync!EnterBody(f) <=> EnterBody(f)
<1>1. /\ Sync!Frame = Frame /\ Sync!Here = Here /\ Sync!Caller = Caller /\ Sync!Calling = Calling
  BY DEF Sync!Frame, Frame, Sync!Here, Here, Sync!Caller, Caller, Sync!Calling, Calling
<1>2. Sync!Going = Going /\ Sync!Over = Over
  BY <1>1 DEF Sync!Going, Going, Sync!Over, Over, Sync!Nothing, Nothing
<1>3. \A op : Sync!Due(op) = Due(op)  BY <1>1, <1>2 DEF Sync!Due, Due
<1>4. Sync!Reads = Reads
  BY <1>1, <1>2 DEF Sync!Reads, Reads, Sync!Nothing, Nothing
<1>5. Sync!BodyEnd = BodyEnd
  BY <1>1 DEF Sync!BodyEnd, BodyEnd, Sync!Min, Min
<1>6. \A n : Sync!Goto(n) = Goto(n)  BY <1>1 DEF Sync!Goto, Goto
<1>7. \A s : Sync!Below(s) = Below(s)  BY DEF Sync!Below, Below
<1>8. /\ \A v : Sync!Tag(v) = Tag(v) /\ Sync!Answer(v) = Answer(v) /\ Sync!List(v) = List(v) /\ Sync!Bool(v) = Bool(v)
      /\ \A v, n : Sync!Part(v, n) = Part(v, n)
      /\ Sync!Nothing = Nothing
  BY DEF Sync!Tag, Tag, Sync!Answer, Answer, Sync!List, List, Sync!Bool, Bool, Sync!Part, Part,
         Sync!Nothing, Nothing
<1>9. \A v : Sync!Content(v) = Content(v) /\ Sync!Truthy(v) = Truthy(v) /\ Sync!ToList(v) = ToList(v)
  BY <1>8 DEF Sync!Content, Content, Sync!Truthy, Truthy, Sync!ToList, ToList
<1>10. \A e, token : Sync!Val(e, token) = Val(e, token)  BY DEF Sync!Val, Val
<1>11. \A f : Sync!Continue(f) <=> Continue(f)  BY <1>7 DEF Sync!Continue, Continue
<1>12. \A f, code, fn : Sync!Enter(f, code, fn) <=> Enter(f, code, fn)
  BY <1>7 DEF Sync!Enter, Enter, Sync!Body, Body
<1>13. \A f : Sync!EnterBody(f) <=> EnterBody(f)
  BY <1>1, <1>5, <1>12 DEF Sync!EnterBody, EnterBody
<1>. QED  BY <1>1, <1>2, <1>3, <1>4, <1>5, <1>6, <1>7, <1>8, <1>9, <1>10, <1>11, <1>12, <1>13

LEMMA HereOK ==
    ASSUME FramesInv, Going
    PROVE  WellFormed(Here) /\ Frame.ip \in DOMAIN Frame.code
BY FramesTop DEF FrameOK, Code, Going, Here

LEMMA GotoOK ==
    ASSUME FramesInv, NEW n \in Int
    PROVE  FrameOK(Goto(n)) /\ Goto(n).fn = Frame.fn
BY FramesTop DEF FrameOK, Goto

\* A token has one value for both, and it is not a future.
Agreed(t) == LET v == Val(Awaited(Top), t) IN
    v = Val(Sync!Top, t) /\ Tag(v) # "future" /\ SafeValue(v, DOMAIN job)

LEMMA TokensAgreed ==
    ASSUME EnvInv, JobInv, FramesInv, Ready, Going
    PROVE  /\ Here.op \in {"MOV", "GEN", "PROBE", "PUT", "PARSE"} => Agreed(Here.src)
           /\ Here.op \in {"CMP", "CALL"} => \A k \in DOMAIN Here.args : Agreed(Here.args[k])
           /\ Here.op = "JIF" => Agreed(Here.cond)
           /\ Here.op = "LOOP" /\ Frame.iter < Here.max => Agreed(Here.cond)
           /\ Here.op = "EACH" /\ Frame.iter = 0 => Agreed(Here.src)
<1>0. WellFormed(Here)  BY HereOK
<1>1. \A k \in DOMAIN Reads : Token(Reads[k]) => Agreed(Reads[k])  BY ReadSame DEF Agreed
<1>2. out = Nothing /\ ~Over  BY DEF Going, Over
<1>3. ASSUME NEW t, Reads = <<t>>, Token(t) PROVE Agreed(t)
  <2>1. 1 \in DOMAIN <<t>> /\ <<t>>[1] = t  OBVIOUS
  <2>. QED  BY <1>1, <1>3, <2>1
<1>4. ASSUME Here.op \in {"MOV", "GEN", "PROBE", "PUT", "PARSE"} PROVE Agreed(Here.src)
  <2>1. Reads = <<Here.src>>  BY <1>2, <1>4 DEF Reads
  <2>2. Token(Here.src)  BY <1>0, <1>4 DEF WellFormed
  <2>. QED  BY <1>3, <2>1, <2>2
<1>5. ASSUME Here.op \in {"CMP", "CALL"}, NEW k \in DOMAIN Here.args PROVE Agreed(Here.args[k])
  <2>1. Reads = Here.args  BY <1>2, <1>5 DEF Reads
  <2>2. Token(Here.args[k])  BY <1>0, <1>5 DEF WellFormed
  <2>. QED  BY <1>1, <1>5, <2>1, <2>2
<1>6. ASSUME Here.op = "JIF" \/ (Here.op = "LOOP" /\ Frame.iter < Here.max) PROVE Agreed(Here.cond)
  <2>1. Reads = <<Here.cond>>  BY <1>2, <1>6 DEF Reads
  <2>2. Token(Here.cond)  BY <1>0, <1>6 DEF WellFormed
  <2>. QED  BY <1>3, <2>1, <2>2
<1>7. ASSUME Here.op = "EACH", Frame.iter = 0 PROVE Agreed(Here.src)
  <2>1. Reads = <<Here.src>>  BY <1>2, <1>7 DEF Reads
  <2>2. Token(Here.src)  BY <1>0, <1>7 DEF WellFormed
  <2>. QED  BY <1>3, <2>1, <2>2
<1>. QED  BY <1>4, <1>5, <1>6, <1>7
-------------------------------------------------------------------------------
(* Each instruction does for the program what it does for the reference.       *)
LEMMA ComputedSame ==
    ASSUME EnvInv, JobInv, FramesInv, Ready, Going,
           Here.op \in {"MOV", "PROBE", "PARSE", "CMP", "CALL"}
    PROVE  LET v == Computed(Awaited(Top)) IN
           v = Sync!Computed(Sync!Top) /\ Tag(v) # "future" /\ SafeValue(v, DOMAIN job)
<1>1. CASE Here.op = "MOV"
  BY <1>1, TokensAgreed, SyncSame DEF Computed, Sync!Computed, Agreed
<1>2. CASE Here.op = "PROBE"
  <2>1. Computed(Awaited(Top)) = Answer(Content(Val(Awaited(Top), Here.src)))  BY <1>2 DEF Computed
  <2>2. Sync!Computed(Sync!Top) = Answer(Content(Val(Sync!Top, Here.src)))
    BY <1>2, SyncSame DEF Sync!Computed
  <2>. QED  BY <1>2, <2>1, <2>2, TokensAgreed, AnswerPlain DEF Agreed, Plain
<1>3. CASE Here.op = "PARSE"
  <2>. DEFINE c == Content(Val(Awaited(Top), Here.src))
  <2>1. Computed(Awaited(Top)) = List(<<Part(c, 1), Part(c, 2)>>)  BY <1>3 DEF Computed
  <2>2. Sync!Computed(Sync!Top) = List(<<Part(c, 1), Part(c, 2)>>)
    BY <1>3, TokensAgreed, SyncSame DEF Sync!Computed, Agreed
  <2>. HIDE DEF c
  <2>3. Plain(Part(c, 1)) /\ Plain(Part(c, 2))  BY DEF Plain, Part, Tag
  <2>. DEFINE two == <<Part(c, 1), Part(c, 2)>>
  <2>4. IsSeq(two) /\ \A k \in DOMAIN two : Plain(two[k])
    <3>1. two \in Seq({Part(c, 1), Part(c, 2)}) /\ Len(two) = 2  OBVIOUS
    <3>2. two[1] = Part(c, 1) /\ two[2] = Part(c, 2)  OBVIOUS
    <3>. HIDE DEF two
    <3>3. DOMAIN two = 1..2 /\ IsSeq(two)  BY <3>1, SeqIs
    <3>. QED  BY <2>3, <3>2, <3>3
  <2>. HIDE DEF two
  <2>5. Tag(List(two)) = "list" /\ List(two)[2] = two  BY DEF List, Tag
  <2>6. SafeValue(List(two), DOMAIN job)  BY <2>4, <2>5 DEF SafeValue
  <2>. QED  BY <2>1, <2>2, <2>5, <2>6 DEF two
<1>4. CASE Here.op = "CMP"
  <2>1. DOMAIN Here.args = 1..2  BY <1>4, HereOK DEF WellFormed
  <2>2. 1 \in 1..2 /\ 2 \in 1..2  OBVIOUS
  <2>3. Val(Awaited(Top), Here.args[1]) = Val(Sync!Top, Here.args[1])
        /\ Val(Awaited(Top), Here.args[2]) = Val(Sync!Top, Here.args[2])
    BY <1>4, <2>1, <2>2, TokensAgreed DEF Agreed
  <2>4. Computed(Awaited(Top)) =
            Bool(Content(Val(Awaited(Top), Here.args[1])) = Content(Val(Awaited(Top), Here.args[2])))
    BY <1>4 DEF Computed
  <2>5. Sync!Computed(Sync!Top) =
            Bool(Content(Val(Sync!Top, Here.args[1])) = Content(Val(Sync!Top, Here.args[2])))
    BY <1>4, SyncSame DEF Sync!Computed
  <2>6. \A b : Tag(Bool(b)) = "bool"  BY DEF Bool, Tag
  <2>. QED  BY <2>3, <2>4, <2>5, <2>6 DEF SafeValue
<1>5. CASE Here.op = "CALL"
  <2>1. Computed(Awaited(Top)) = <<"apply", Here.fn, Vals(Awaited(Top), Here.args)>>  BY <1>5 DEF Computed
  <2>2. Sync!Computed(Sync!Top) = <<"apply", Here.fn, Sync!Vals(Sync!Top, Here.args)>>
    BY <1>5, SyncSame DEF Sync!Computed
  <2>3. \A k \in DOMAIN Here.args : Val(Awaited(Top), Here.args[k]) = Val(Sync!Top, Here.args[k])
    BY <1>5, TokensAgreed DEF Agreed
  <2>4. Sync!Vals(Sync!Top, Here.args) = Vals(Awaited(Top), Here.args)
    BY <2>3, SyncSame DEF Vals, Sync!Vals
  <2>5. Tag(<<"apply", Here.fn, Vals(Awaited(Top), Here.args)>>) = "apply"  BY DEF Tag
  <2>. QED  BY <2>1, <2>2, <2>4, <2>5 DEF SafeValue
<1>. QED  BY <1>1, <1>2, <1>3, <1>4, <1>5

\* What a step of the program has to keep and to do for the reference.
Same == EnvInv' /\ FramesInv' /\ ContextInv'
Settled == EnvInv /\ FramesInv /\ ContextInv /\ JobInv /\ Ready /\ NoLateChange

LEMMA KeptJobs == ASSUME UNCHANGED job PROVE JobsKept
BY DEF JobsKept

LEMMA CallableSame ==
    ASSUME EnvInv PROVE Sync!Callable = Callable /\ Callable \subseteq DOMAIN Functions
BY SeenSeq DEF Sync!Callable, Callable, EnvInv

LEMMA ComputeStep ==
    ASSUME Settled, UNCHANGED job, Compute(Awaited(Top))
    PROVE  Same /\ Sync!Compute(Sync!Top)
<1>. USE DEF Settled
<1>. DEFINE v == Computed(Awaited(Top))
<1>1. /\ Going /\ Here.op \in {"MOV", "PROBE", "PARSE", "CMP", "CALL"}
      /\ Here.op = "CALL" => Here.fn \notin Callable
      /\ env' = Append(Below(env), [Awaited(Top) EXCEPT ![Here.dst] = v])
      /\ frames' = Append(Below(frames), Goto(Frame.ip + 1)) /\ Continue(Goto(Frame.ip + 1))
      /\ UNCHANGED <<heap, out>>
  BY DEF Compute, SetTop, Continue
<1>2. v = Sync!Computed(Sync!Top) /\ Tag(v) # "future" /\ SafeValue(v, DOMAIN job)
  BY <1>1, ComputedSame
<1>. HIDE DEF v
<1>3. SafeValue(v, DOMAIN job') /\ Later(v) = v  BY <1>2, KeptJobs, SafeKept DEF Later
<1>4. /\ EnvInv' /\ Len(env') = Len(env)
      /\ Seen' = Append(SubSeq(Seen, 1, Len(Seen) - 1), [Sync!Top EXCEPT ![Here.dst] = v])
  BY <1>1, <1>3, KeptJobs, TopWrite
<1>5. Frame.ip + 1 \in Int  BY FramesTop DEF FrameOK
<1>6. FramesInv' /\ ContextInv'  BY <1>1, <1>4, <1>5, GotoOK, FramesGo
<1>7. Sync!Compute(Sync!Top)
  BY <1>1, <1>2, <1>4, SyncSame, CallableSame DEF Sync!Compute, Sync!SetTop, Sync!Below
<1>. QED  BY <1>4, <1>6, <1>7 DEF Same

LEMMA ChatSetSame ==
    \A messages, role, v, append :
        Sync!ChatSet(messages, role, v, append) = ChatSet(messages, role, v, append)
BY DEF Sync!ChatSet, ChatSet, Sync!Min, Min

\* PUT does not await its target, and a future is no chat for either.
LEMMA PutStep ==
    ASSUME Settled, UNCHANGED job, Put(Awaited(Top))
    PROVE  Same /\ Sync!Put(Sync!Top)
<1>. USE DEF Settled
<1>. DEFINE e == Awaited(Top)
            old == e[Here.dst]
            v == Content(Val(e, Here.src))
<1>1. /\ Due("PUT") /\ Going /\ Here.op = "PUT"
      /\ frames' = Append(Below(frames), Goto(Frame.ip + 1)) /\ Continue(Goto(Frame.ip + 1))
      /\ UNCHANGED out
  BY DEF Put, Continue, Due
<1>2. \/ /\ Tag(old) = "chat"
         /\ heap' = [heap EXCEPT ![old[2]] = ChatSet(heap[old[2]], Here.role, v, Here.append)]
         /\ env' = Append(Below(env), e)
      \/ /\ Tag(old) # "chat"
         /\ heap' = Append(heap, ChatSet(<< >>, Here.role, v, Here.append))
         /\ env' = Append(Below(env), [e EXCEPT ![Here.dst] = Chat(Len(heap'))])
  BY DEF Put, SetTop
<1>3. Here.dst \in Regs  BY <1>1, HereOK DEF WellFormed
<1>4. v = Content(Val(Sync!Top, Here.src))  BY <1>1, TokensAgreed DEF Agreed
<1>5. Eventually(old) = Sync!Top[Here.dst]  BY <1>3, AwaitedRegs
<1>. HIDE DEF v, old
<1>6. /\ Tag(old) = "chat" => Sync!Top[Here.dst] = old
      /\ Tag(old) # "chat" => Tag(Sync!Top[Here.dst]) # "chat"
  BY <1>5 DEF Eventually, Answer, Tag
<1>. HIDE DEF e
<1>7. Frame.ip + 1 \in Int  BY FramesTop DEF FrameOK
<1>8. CASE Tag(old) = "chat"
  <2>1. /\ EnvInv' /\ Len(env') = Len(env)
        /\ Seen' = Append(SubSeq(Seen, 1, Len(Seen) - 1), Sync!Top)
    BY <1>2, <1>8, KeptJobs, TopKept DEF e
  <2>2. FramesInv' /\ ContextInv'  BY <1>1, <1>7, <2>1, GotoOK, FramesGo
  <2>3. heap' = [heap EXCEPT ![old[2]] = ChatSet(heap[old[2]], Here.role, v, Here.append)]
    BY <1>2, <1>8
  <2>4. Sync!Put(Sync!Top)
    BY <1>1, <1>4, <1>6, <1>8, <2>1, <2>3, SyncSame, ChatSetSame DEF Sync!Put, Sync!SetTop, Sync!Below
  <2>. QED  BY <2>1, <2>2, <2>4 DEF Same
<1>9. CASE Tag(old) # "chat"
  <2>0. \A n : SafeValue(Chat(n), DOMAIN job') /\ Later(Chat(n)) = Chat(n) /\ Sync!Chat(n) = Chat(n)
    BY DEF SafeValue, Later, Chat, Tag, Sync!Chat
  <2>. DEFINE c == Chat(Len(heap'))
  <2>1. SafeValue(c, DOMAIN job') /\ Later(c) = c /\ Sync!Chat(Len(heap')) = c  BY <2>0
  <2>. HIDE DEF c
  <2>2. /\ heap' = Append(heap, ChatSet(<< >>, Here.role, v, Here.append))
        /\ env' = Append(Below(env), [e EXCEPT ![Here.dst] = c])
    BY <1>2, <1>9 DEF c
  <2>3. /\ EnvInv' /\ Len(env') = Len(env)
        /\ Seen' = Append(SubSeq(Seen, 1, Len(Seen) - 1), [Sync!Top EXCEPT ![Here.dst] = c])
    BY <2>1, <2>2, KeptJobs, TopWrite, ZenonT(30) DEF e
  <2>4. FramesInv' /\ ContextInv'  BY <1>1, <1>7, <2>3, GotoOK, FramesGo
  <2>5. Sync!Put(Sync!Top)
    BY <1>1, <1>4, <1>6, <1>9, <2>1, <2>2, <2>3, SyncSame, ChatSetSame DEF Sync!Put, Sync!SetTop, Sync!Below
  <2>. QED  BY <2>3, <2>4, <2>5 DEF Same
<1>. QED  BY <1>8, <1>9

LEMMA JumpStep ==
    ASSUME Settled, UNCHANGED job, Jump(Awaited(Top))
    PROVE  Same /\ Sync!Jump(Sync!Top)
<1>. USE DEF Settled
<1>. DEFINE n == IF Here.op = "JIF" /\ Truthy(Val(Awaited(Top), Here.cond))
                 THEN Frame.ip + Here.offset + 1 ELSE Frame.ip + 1
<1>1. /\ Due("JIF") \/ Due("NOP")
      /\ env' = Append(Below(env), Awaited(Top))
      /\ frames' = Append(Below(frames), Goto(n)) /\ Continue(Goto(n))
      /\ UNCHANGED <<heap, out>>
  BY DEF Jump, SetTop, Continue
<1>2. Going /\ Here.op \in {"JIF", "NOP"}  BY <1>1 DEF Due
<1>3. n \in Int
  <2>1. Frame.ip \in Int  BY FramesTop DEF FrameOK
  <2>2. Here.op = "JIF" => Here.offset \in Int  BY <1>2, HereOK DEF WellFormed
  <2>. QED  BY <2>1, <2>2
<1>4. n = IF Here.op = "JIF" /\ Truthy(Val(Sync!Top, Here.cond))
          THEN Frame.ip + Here.offset + 1 ELSE Frame.ip + 1
  BY <1>2, TokensAgreed DEF Agreed
<1>. HIDE DEF n
<1>5. /\ EnvInv' /\ Len(env') = Len(env)
      /\ Seen' = Append(SubSeq(Seen, 1, Len(Seen) - 1), Sync!Top)
  BY <1>1, KeptJobs, TopKept
<1>6. FramesInv' /\ ContextInv'  BY <1>1, <1>3, <1>5, GotoOK, FramesGo
<1>7. Sync!Jump(Sync!Top)
  BY <1>1, <1>4, <1>5, SyncSame DEF Sync!Jump, Sync!SetTop, Sync!Below
<1>. QED  BY <1>5, <1>6, <1>7 DEF Same

LEMMA BodyOK ==
    ASSUME FramesInv, Going, Here.op \in {"LOOP", "EACH"}
    PROVE  /\ BodyEnd + 1 \in Int
           /\ FrameOK(Body(SubSeq(Frame.code, Frame.ip + 1, BodyEnd), FALSE))
           /\ ~Body(SubSeq(Frame.code, Frame.ip + 1, BodyEnd), FALSE).fn
<1>. DEFINE code == Frame.code
            sub == SubSeq(code, Frame.ip + 1, BodyEnd)
            T == {code[k] : k \in DOMAIN code}
<1>1. IsSeq(code) /\ Frame.ip \in DOMAIN code /\ \A k \in DOMAIN code : WellFormed(code[k])
  BY FramesTop, HereOK DEF FrameOK, Code, IsSeq
<1>2. Len(code) \in Nat /\ DOMAIN code = 1..Len(code)  BY <1>1, SeqLen
<1>3. Here.len \in Nat  BY HereOK DEF WellFormed
<1>4. BodyEnd \in Int /\ BodyEnd <= Len(code)
  <2>. DEFINE x == Frame.ip + Here.len
              y == Len(code)
  <2>1. x \in Int /\ y \in Int /\ BodyEnd = Min({x, y})  BY <1>1, <1>2, <1>3 DEF BodyEnd
  <2>. HIDE DEF x, y
  <2>2. \E z \in {x, y} : \A u \in {x, y} : z <= u  BY <2>1
  <2>3. Min({x, y}) \in {x, y} /\ \A u \in {x, y} : Min({x, y}) <= u  BY <2>2 DEF Min
  <2>. QED  BY <2>1, <2>3 DEF y
<1>5. \A k \in (Frame.ip + 1)..BodyEnd : k \in DOMAIN code
  BY <1>1, <1>2, <1>4
<1>6. \A k \in (Frame.ip + 1)..BodyEnd : code[k] \in T  BY <1>5
<1>7. Frame.ip + 1 \in Int  BY <1>1, <1>2
<1>. HIDE DEF T, code
<1>8. sub \in Seq(T) /\ \A k \in 1..Len(sub) : sub[k] \in T
  <2>1. sub \in Seq(T)  BY <1>4, <1>6, <1>7, SubSeqProperties
  <2>. HIDE DEF sub
  <2>. QED  BY <2>1, ElementOfSeq
<1>. HIDE DEF sub
<1>9. Code(sub)
  <2>1. IsSeq(sub) /\ DOMAIN sub = 1..Len(sub)  BY <1>8, SeqIs
  <2>2. \A i \in T : WellFormed(i)  BY <1>1 DEF T
  <2>. QED  BY <1>8, <2>1, <2>2 DEF Code, IsSeq
<1>10. FrameOK(Body(sub, FALSE)) /\ ~Body(sub, FALSE).fn
  BY <1>9, SeqEmpty DEF FrameOK, Body
<1>11. BodyEnd + 1 \in Int  BY <1>4
<1>. QED  BY <1>10, <1>11 DEF sub, code

LEMMA LoopStep ==
    ASSUME Settled, UNCHANGED job, Loop(Awaited(Top))
    PROVE  Same /\ Sync!Loop(Sync!Top)
<1>. USE DEF Settled
<1>. DEFINE again == Frame.iter < Here.max /\ Truthy(Val(Awaited(Top), Here.cond))
            fr == [Frame EXCEPT !.iter = @ + 1]
            body == Body(SubSeq(Frame.code, Frame.ip + 1, BodyEnd), FALSE)
<1>1. /\ Due("LOOP") /\ Going /\ Here.op = "LOOP"
      /\ env' = Append(Below(env), Awaited(Top))
      /\ IF again THEN EnterBody(fr) ELSE Continue(Goto(BodyEnd + 1))
      /\ UNCHANGED <<heap, out>>
  BY DEF Loop, SetTop, Due
<1>2. again <=> Frame.iter < Here.max /\ Truthy(Val(Sync!Top, Here.cond))
  BY <1>1, TokensAgreed DEF Agreed
<1>3. /\ EnvInv' /\ Len(env') = Len(env)
      /\ Seen' = Append(SubSeq(Seen, 1, Len(Seen) - 1), Sync!Top)
  BY <1>1, KeptJobs, TopKept
<1>4. BodyEnd + 1 \in Int /\ FrameOK(body) /\ ~body.fn  BY <1>1, BodyOK
<1>5. FramesInv' /\ ContextInv'
  <2>1. CASE again
    <3>1. frames' = Below(frames) \o <<fr, body>>  BY <1>1, <2>1 DEF EnterBody, Enter
    <3>2. FrameOK(fr) /\ fr.fn = Frame.fn  BY FramesTop DEF FrameOK
    <3>. HIDE DEF fr, body
    <3>. QED  BY <1>3, <1>4, <3>1, <3>2, FramesEnter
  <2>2. CASE ~again
    BY <1>1, <1>3, <1>4, <2>2, GotoOK, FramesGo DEF Continue
  <2>. QED  BY <2>1, <2>2
<1>. HIDE DEF again, body
<1>6. Sync!Loop(Sync!Top)
  BY <1>1, <1>2, <1>3, SyncSame DEF Sync!Loop, Sync!SetTop, Sync!Below
<1>. QED  BY <1>3, <1>5, <1>6 DEF Same

\* What a collection gives are plain values.
LEMMA ItemsPlain ==
    ASSUME NEW v, NEW jobs, Tag(v) # "future", SafeValue(v, jobs)
    PROVE  IsSeq(ToList(v)) /\ \A k \in DOMAIN ToList(v) : Plain(ToList(v)[k])
<1>1. CASE v = Nothing  BY <1>1, SeqEmpty DEF ToList
<1>2. CASE v # Nothing /\ Tag(v) = "list"  BY <1>2 DEF ToList, SafeValue
<1>3. CASE v # Nothing /\ Tag(v) # "list"
  <2>. DEFINE one == <<v>>
  <2>1. ToList(v) = one  BY <1>3 DEF ToList
  <2>2. one \in Seq({v}) /\ Len(one) = 1 /\ one[1] = v  OBVIOUS
  <2>. HIDE DEF one
  <2>3. IsSeq(one) /\ DOMAIN one = 1..1  BY <2>2, SeqIs
  <2>. QED  BY <1>3, <2>1, <2>2, <2>3 DEF Plain
<1>. QED  BY <1>1, <1>2, <1>3

LEMMA EachStep ==
    ASSUME Settled, UNCHANGED job, Each(Awaited(Top))
    PROVE  Same /\ Sync!Each(Sync!Top)
<1>. USE DEF Settled
<1>. DEFINE items == IF Frame.iter = 0 THEN ToList(Val(Awaited(Top), Here.src)) ELSE Frame.items
            item == items[Frame.iter + 1]
            fr == [Frame EXCEPT !.iter = @ + 1, !.items = items]
            last == [Goto(BodyEnd + 1) EXCEPT !.items = << >>]
            body == Body(SubSeq(Frame.code, Frame.ip + 1, BodyEnd), FALSE)
<1>1. /\ Due("EACH") /\ Going /\ Here.op = "EACH" /\ UNCHANGED <<heap, out>>
      /\ \/ /\ Frame.iter < Len(items)
            /\ env' = Append(Below(env), [Awaited(Top) EXCEPT ![Here.dst] = item])
            /\ EnterBody(fr) /\ frames' = Below(frames) \o <<fr, body>>
         \/ /\ ~(Frame.iter < Len(items))
            /\ env' = Append(Below(env), Awaited(Top))
            /\ Continue(last) /\ frames' = Append(Below(frames), last)
  BY DEF Each, SetTop, Due, EnterBody, Enter, Continue
<1>2. items = IF Frame.iter = 0 THEN ToList(Val(Sync!Top, Here.src)) ELSE Frame.items
  BY <1>1, TokensAgreed DEF Agreed
<1>3. IsSeq(items) /\ \A k \in DOMAIN items : Plain(items[k])
  <2>1. CASE Frame.iter = 0  BY <1>1, <2>1, TokensAgreed, ItemsPlain DEF Agreed
  <2>2. CASE Frame.iter # 0  BY <2>2, FramesTop DEF FrameOK
  <2>. QED  BY <2>1, <2>2
<1>4. BodyEnd + 1 \in Int /\ FrameOK(body) /\ ~body.fn  BY <1>1, BodyOK
<1>5. Frame.iter \in Nat  BY FramesTop DEF FrameOK
<1>. HIDE DEF items, body
<1>6. CASE Frame.iter < Len(items)
  <2>1. Frame.iter + 1 \in DOMAIN items  BY <1>3, <1>5, <1>6, SeqLen
  <2>2. SafeValue(item, DOMAIN job') /\ Later(item) = item
    BY <1>3, <2>1 DEF Plain, SafeValue, Later
  <2>. HIDE DEF item
  <2>3. /\ EnvInv' /\ Len(env') = Len(env)
        /\ Seen' = Append(SubSeq(Seen, 1, Len(Seen) - 1), [Sync!Top EXCEPT ![Here.dst] = item])
    BY <1>1, <1>6, <2>2, KeptJobs, TopWrite
  <2>4. FrameOK(fr) /\ fr.fn = Frame.fn  BY <1>3, FramesTop DEF FrameOK
  <2>5. Sync!Each(Sync!Top)
    <3>. HIDE DEF fr
    <3>1. Sync!EnterBody(fr)  BY <1>1, <1>6, SyncSame
    <3>. QED  BY <1>1, <1>2, <1>6, <2>3, <3>1, SyncSame DEF Sync!Each, Sync!SetTop, Sync!Below, fr, item
  <2>. HIDE DEF fr
  <2>6. FramesInv' /\ ContextInv'  BY <1>1, <1>4, <1>6, <2>3, <2>4, FramesEnter
  <2>. QED  BY <2>3, <2>5, <2>6 DEF Same
<1>7. CASE ~(Frame.iter < Len(items))
  <2>1. /\ EnvInv' /\ Len(env') = Len(env)
        /\ Seen' = Append(SubSeq(Seen, 1, Len(Seen) - 1), Sync!Top)
    BY <1>1, <1>7, KeptJobs, TopKept
  <2>2. FrameOK(last) /\ last.fn = Frame.fn
    <3>1. FrameOK(Goto(BodyEnd + 1)) /\ Goto(BodyEnd + 1).fn = Frame.fn  BY <1>4, GotoOK
    <3>. DEFINE g == Goto(BodyEnd + 1)
    <3>. HIDE DEF g
    <3>2. FrameOK(g) /\ g.fn = Frame.fn  BY <3>1 DEF g
    <3>3. FrameOK([g EXCEPT !.items = << >>]) /\ [g EXCEPT !.items = << >>].fn = g.fn
      BY <3>2, SeqEmpty DEF FrameOK
    <3>. QED  BY <3>2, <3>3 DEF g
  <2>3. Sync!Each(Sync!Top)
    <3>. HIDE DEF last
    <3>1. Sync!Continue(last)  BY <1>1, <1>7, SyncSame
    <3>. QED  BY <1>1, <1>2, <1>7, <2>1, <3>1, SyncSame DEF Sync!Each, Sync!SetTop, Sync!Below, last
  <2>. HIDE DEF last
  <2>4. FramesInv' /\ ContextInv'  BY <1>1, <1>7, <2>1, <2>2, FramesGo
  <2>. QED  BY <2>1, <2>3, <2>4 DEF Same
<1>. QED  BY <1>6, <1>7

LEMMA SeenIs ==
    ASSUME IsSeq(env'), NEW t, IsSeq(t), Len(t) = Len(env'),
           \A c \in 1..Len(t) : t[c] = [r \in Regs |-> Later(env'[c][r])]
    PROVE  Seen' = t
<1>. DEFINE n == Len(t)
<1>1. n \in Nat /\ DOMAIN env' = 1..n  BY SeqLen
<1>. HIDE DEF n
<1>2. Seen' = [c \in 1..n |-> Seen'[c]] /\ DOMAIN Seen' = 1..n  BY <1>1, SeenLater
<1>3. IsSeq(Seen') /\ Len(Seen') = n  BY <1>1, <1>2, SeqMap
<1>4. \A c \in 1..n : Seen'[c] = t[c]  BY <1>1, SeenLater DEF n
<1>. QED  BY <1>3, <1>4, SeqSame DEF n

LEMMA ContextKept ==
    ASSUME EnvInv, JobInv, JobsKept, NoLateChange, NEW c \in 1..Len(env)
    PROVE  /\ SafeRegs(env[c], DOMAIN job')
           /\ Seen[c] = [r \in Regs |-> Later(env[c][r])]
<1>1. c \in DOMAIN env  BY SeqLen DEF EnvInv
<1>2. SafeRegs(env[c], DOMAIN job) /\ \A r \in Regs : SafeValue(env[c][r], DOMAIN job)
  BY <1>1 DEF EnvInv, SafeRegs
<1>3. \A r \in Regs : Later(env[c][r]) = Eventually(env[c][r])  BY <1>2, LaterSame
<1>. QED  BY <1>2, <1>3, SeenSeq, SafeKept

\* A context is added for a function.
LEMMA EnvEnter ==
    ASSUME EnvInv, JobInv, Ready, JobsKept, NoLateChange,
           NEW child, SafeRegs(child, DOMAIN job'), \A r \in Regs : Later(child[r]) = child[r],
           env' = Below(env) \o <<Awaited(Top), child>>
    PROVE  /\ EnvInv' /\ Len(env') = Len(env) + 1
           /\ Seen' = SubSeq(Seen, 1, Len(Seen) - 1) \o <<Sync!Top, child>>
<1>. DEFINE n == Len(env)
            e == Awaited(Top)
            s == Sync!Top
            t == Below(Seen) \o <<s, child>>
<1>1. /\ IsSeq(env) /\ env # << >> /\ n \in Nat \ {0}
      /\ IsSeq(Seen) /\ Len(Seen) = n /\ Seen # << >>
  BY SeqLen, SeenSeq, EmptySeq DEF EnvInv
<1>2. SafeRegs(e, DOMAIN job') /\ s = [r \in Regs |-> Later(e[r])]
  <2>1. SafeRegs(e, DOMAIN job')  BY AwaitedRegs, SafeKept
  <2>2. \A r \in Regs : Later(e[r]) = s[r]  BY AwaitedRegs, LaterSame DEF SafeRegs
  <2>3. s = [r \in Regs |-> s[r]]  BY SeenTop
  <2>. HIDE DEF e, s
  <2>. QED  BY <2>1, <2>2, <2>3
<1>3. child = [r \in Regs |-> Later(child[r])]  BY DEF SafeRegs
<1>. HIDE DEF e, s
<1>4. /\ IsSeq(Below(env)) /\ Len(Below(env)) = n - 1
      /\ \A c \in 1..(n - 1) : Below(env)[c] = env[c]
      /\ IsSeq(Below(Seen)) /\ Len(Below(Seen)) = n - 1
      /\ \A c \in 1..(n - 1) : Below(Seen)[c] = Seen[c]
  BY <1>1, SeqBelow
<1>5. env' = Below(env) \o <<e, child>>  BY DEF e
<1>6. \A b, x, y : IsSeq(b) /\ Len(b) = n - 1 =>
        /\ IsSeq(b \o <<x, y>>) /\ Len(b \o <<x, y>>) = n - 1 + 2
        /\ \A c \in 1..(n - 1) : (b \o <<x, y>>)[c] = b[c]
        /\ (b \o <<x, y>>)[n - 1 + 1] = x /\ (b \o <<x, y>>)[n - 1 + 2] = y
  <2>. DEFINE k == n - 1
  <2>1. \A b, x, y : IsSeq(b) /\ Len(b) = k =>
        /\ IsSeq(b \o <<x, y>>) /\ Len(b \o <<x, y>>) = k + 2
        /\ \A c \in 1..k : (b \o <<x, y>>)[c] = b[c]
        /\ (b \o <<x, y>>)[k + 1] = x /\ (b \o <<x, y>>)[k + 2] = y
    <3>. HIDE DEF k
    <3>. QED  BY SeqTwo
  <2>. QED  BY <2>1
<1>7. /\ IsSeq(env') /\ Len(env') = n - 1 + 2
      /\ \A c \in 1..(n - 1) : env'[c] = env[c]
      /\ env'[n - 1 + 1] = e /\ env'[n - 1 + 2] = child
  BY <1>4, <1>5, <1>6
<1>8. /\ IsSeq(t) /\ Len(t) = n - 1 + 2
      /\ \A c \in 1..(n - 1) : t[c] = Seen[c]
      /\ t[n - 1 + 1] = s /\ t[n - 1 + 2] = child
  BY <1>4, <1>6
<1>. HIDE DEF t
<1>9. n - 1 + 2 = n + 1 /\ n - 1 + 1 = n /\ \A c \in 1..(n + 1) : c \in 1..(n - 1) \/ c = n \/ c = n + 1
  BY <1>1
<1>10. \A c \in 1..(n - 1) : c \in 1..Len(env)
  <2>1. n = Len(env)  OBVIOUS
  <2>. HIDE DEF n
  <2>. QED  BY <1>1, <2>1
<1>. HIDE DEF n
<1>a. /\ env'[n] = e /\ env'[n + 1] = child /\ t[n] = s /\ t[n + 1] = child
      /\ \A c \in 1..(n - 1) : env'[c] = env[c] /\ t[c] = Seen[c]
  BY <1>7, <1>8, <1>9, Zenon
<1>11. ASSUME NEW c \in 1..(n + 1)
       PROVE  SafeRegs(env'[c], DOMAIN job') /\ t[c] = [r \in Regs |-> Later(env'[c][r])]
  <2>1. CASE c = n  BY <1>2, <1>a, <2>1, Zenon
  <2>2. CASE c = n + 1  BY <1>3, <1>a, <2>2, Zenon
  <2>3. CASE c \in 1..(n - 1)
    <3>1. c \in 1..Len(env)  BY <1>10, <2>3, Zenon
    <3>2. SafeRegs(env[c], DOMAIN job') /\ Seen[c] = [r \in Regs |-> Later(env[c][r])]
      BY <3>1, ContextKept
    <3>. QED  BY <1>a, <2>3, <3>2, Zenon
  <2>. QED  BY <1>9, <2>1, <2>2, <2>3, Zenon
<1>12. Seen' = t
  <2>1. IsSeq(env') /\ IsSeq(t) /\ Len(t) = n + 1 /\ Len(env') = n + 1  BY <1>7, <1>8, <1>9, Zenon
  <2>2. \A c \in 1..Len(t) : t[c] = [r \in Regs |-> Later(env'[c][r])]  BY <1>11, <2>1, Zenon
  <2>3. Len(t) = Len(env')  BY <2>1, Zenon
  <2>. QED  BY <2>1, <2>2, <2>3, SeenIs, Zenon
<1>13. EnvInv'
  <2>1. DOMAIN env' = 1..(n + 1) /\ env' # << >>  BY <1>1, <1>7, <1>9, SeqLen, EmptySeq
  <2>. QED  BY <1>7, <1>11, <2>1, Zenon DEF EnvInv
<1>. QED  BY <1>7, <1>9, <1>12, <1>13 DEF n, t, s, Below

\* It goes, and its output comes into a register of the one under it.
LEMMA EnvLeave ==
    ASSUME EnvInv, JobInv, JobsKept, NoLateChange, Len(env) > 1,
           NEW d, NEW v, SafeValue(v, DOMAIN job'), Later(v) = v,
           env' = Append(Below(Below(env)), [env[Len(env) - 1] EXCEPT ![d] = v])
    PROVE  /\ EnvInv' /\ Len(env') = Len(env) - 1
           /\ Seen' = Append(Below(Below(Seen)), [Seen[Len(Seen) - 1] EXCEPT ![d] = v])
<1>. DEFINE m == Len(env) - 1
            old == env[m]
            e == [old EXCEPT ![d] = v]
            s == [Seen[m] EXCEPT ![d] = v]
            t == Append(Below(Below(Seen)), s)
<1>1. /\ IsSeq(env) /\ env # << >> /\ m \in Nat \ {0} /\ \A c \in 1..m : c \in 1..Len(env)
      /\ IsSeq(Seen) /\ Len(Seen) = Len(env) /\ Seen # << >>
  <2>1. Len(env) \in Nat /\ IsSeq(Seen) /\ Len(Seen) = Len(env)  BY SeenSeq
  <2>. QED  BY <2>1, EmptySeq DEF EnvInv
<1>2. /\ IsSeq(Below(env)) /\ Len(Below(env)) = m /\ Below(env) # << >>
      /\ \A c \in 1..m : Below(env)[c] = env[c]
      /\ IsSeq(Below(Seen)) /\ Len(Below(Seen)) = m /\ Below(Seen) # << >>
      /\ \A c \in 1..m : Below(Seen)[c] = Seen[c]
  <2>1. \A x : IsSeq(x) /\ Len(x) = m => x # << >>  BY <1>1, SeqEmpty
  <2>. QED  BY <1>1, <2>1, SeqBelow
<1>3. m \in 1..m  BY <1>1
<1>4. Len(Seen) - 1 = m  BY <1>1
<1>5. env' = Append(Below(Below(env)), e)  OBVIOUS
<1>. HIDE DEF m
<1>6. SafeRegs(old, DOMAIN job') /\ Seen[m] = [r \in Regs |-> Later(old[r])]
  BY <1>1, <1>3, ContextKept
<1>. HIDE DEF old
<1>7. e = [r \in Regs |-> IF r = d THEN v ELSE old[r]]  BY <1>6 DEF SafeRegs
<1>8. SafeRegs(e, DOMAIN job')  BY <1>6, <1>7 DEF SafeRegs
<1>9. s = [r \in Regs |-> Later(e[r])]
  <2>1. \A r \in Regs : Later(e[r]) = IF r = d THEN v ELSE Later(old[r])  BY <1>7
  <2>2. s = [r \in Regs |-> IF r = d THEN v ELSE Later(old[r])]  BY <1>6
  <2>. QED  BY <2>1, <2>2
<1>. HIDE DEF e, s
<1>10. /\ IsSeq(env') /\ env' # << >> /\ Len(env') = m
       /\ \A c \in 1..m : env'[c] = IF c = m THEN e ELSE env[c]
  <2>. DEFINE b == Below(env)
  <2>1. /\ IsSeq(b) /\ Len(b) = m /\ b # << >> /\ \A c \in 1..m : b[c] = env[c]
        /\ env' = Append(Below(b), e)  BY <1>2, <1>5
  <2>. HIDE DEF b
  <2>2. /\ IsSeq(env') /\ env' # << >> /\ Len(env') = m
        /\ \A c \in 1..m : env'[c] = IF c = m THEN e ELSE b[c]
    <3>1. IsSeq(b) /\ b # << >> /\ Len(b) = m  BY <2>1
    <3>2. LET w == Append(Below(b), e) IN
          /\ IsSeq(w) /\ w # << >> /\ Len(w) = Len(b)
          /\ \A c \in 1..Len(b) : w[c] = IF c = Len(b) THEN e ELSE b[c]
      BY <3>1, SeqTop
    <3>3. env' = Append(Below(b), e)  BY <2>1
    <3>. QED  BY <3>1, <3>2, <3>3, Zenon
  <2>. QED  BY <2>1, <2>2
<1>11. /\ IsSeq(t) /\ Len(t) = m
       /\ \A c \in 1..m : t[c] = IF c = m THEN s ELSE Seen[c]
  <2>. DEFINE b == Below(Seen)
  <2>1. IsSeq(b) /\ Len(b) = m /\ b # << >> /\ \A c \in 1..m : b[c] = Seen[c]  BY <1>2
  <2>. HIDE DEF b
  <2>2. IsSeq(b) /\ b # << >> /\ Len(b) = m  BY <2>1
  <2>3. LET w == Append(Below(b), s) IN
        /\ IsSeq(w) /\ w # << >> /\ Len(w) = Len(b)
        /\ \A c \in 1..Len(b) : w[c] = IF c = Len(b) THEN s ELSE b[c]
    BY <2>2, SeqTop
  <2>4. \A c \in 1..m : b[c] = Seen[c]  BY <2>1
  <2>5. t = Append(Below(b), s)  BY DEF b
  <2>. HIDE DEF t
  <2>. QED  BY <2>2, <2>3, <2>4, <2>5, Zenon
<1>. HIDE DEF t
<1>12. ASSUME NEW c \in 1..m
       PROVE  SafeRegs(env'[c], DOMAIN job') /\ t[c] = [r \in Regs |-> Later(env'[c][r])]
  <2>1. CASE c = m  BY <1>8, <1>9, <1>10, <1>11, <2>1
  <2>2. CASE c # m
    <3>1. c \in 1..Len(env)  BY <1>1, Zenon
    <3>2. SafeRegs(env[c], DOMAIN job') /\ Seen[c] = [r \in Regs |-> Later(env[c][r])]
      BY <3>1, ContextKept
    <3>. QED  BY <1>10, <1>11, <2>2, <3>2, Zenon
  <2>. QED  BY <2>1, <2>2
<1>13. Seen' = t
  <2>1. IsSeq(env') /\ IsSeq(t) /\ Len(t) = m /\ Len(t) = Len(env')  BY <1>10, <1>11, Zenon
  <2>2. \A c \in 1..Len(t) : t[c] = [r \in Regs |-> Later(env'[c][r])]  BY <1>12, <2>1, Zenon
  <2>. QED  BY <2>1, <2>2, SeenIs, Zenon
<1>14. EnvInv'
  <2>1. DOMAIN env' = 1..m  BY <1>10, SeqLen
  <2>. QED  BY <1>10, <1>12, <2>1 DEF EnvInv
<1>. QED  BY <1>4, <1>10, <1>13, <1>14 DEF m, t, s

LEMMA MaxSame == \A S : Sync!Max(S) = Max(S)
BY DEF Sync!Max, Max

LEMMA NothingPlain ==
    /\ \A jobs : SafeValue(Nothing, jobs)
    /\ Tag(Nothing) # "future" /\ Later(Nothing) = Nothing
BY DEF SafeValue, Nothing, Tag, Later

LEMMA CallStep ==
    ASSUME Settled, UNCHANGED job, CallFunction(Awaited(Top))
    PROVE  Same /\ Sync!CallFunction(Sync!Top)
<1>. USE DEF Settled
<1>. DEFINE e == Awaited(Top)
            f == Functions[Here.fn]
            given(r) == {k \in DOMAIN f.params : f.params[k] = r}
            bound(r) == given(r) # {} /\ Max(given(r)) \in DOMAIN Here.args
            child == [r \in Regs |-> IF bound(r) THEN Val(e, Here.args[Max(given(r))]) ELSE Nothing]
            body == Body(f.code, TRUE)
<1>0. Here.fn \in Callable  BY DEF CallFunction
<1>1. /\ Due("CALL") /\ Going /\ Here.op = "CALL" /\ Here.fn \in DOMAIN Functions
      /\ UNCHANGED <<heap, out>>
      /\ Enter(Frame, f.code, TRUE) /\ frames' = Below(frames) \o <<Frame, body>>
  BY <1>0, CallableSame DEF CallFunction, Due, Enter
<1>2. env' = Below(env) \o <<e, child>>  BY DEF CallFunction
<1>. HIDE DEF body
<1>3. ASSUME NEW r \in Regs, bound(r)
      PROVE  LET v == Val(e, Here.args[Max(given(r))]) IN
             v = Val(Sync!Top, Here.args[Max(given(r))]) /\ Tag(v) # "future" /\ SafeValue(v, DOMAIN job)
  BY <1>1, <1>3, TokensAgreed DEF Agreed
<1>4. child = [r \in Regs |-> IF bound(r) THEN Val(Sync!Top, Here.args[Max(given(r))]) ELSE Nothing]
  BY <1>3
<1>5. /\ child = [r \in Regs |-> child[r]]
      /\ \A r \in Regs : SafeValue(child[r], DOMAIN job) /\ Tag(child[r]) # "future"
  <2>1. ASSUME NEW r \in Regs PROVE SafeValue(child[r], DOMAIN job) /\ Tag(child[r]) # "future"
    <3>1. child[r] = IF bound(r) THEN Val(e, Here.args[Max(given(r))]) ELSE Nothing  BY Zenon
    <3>. QED  BY <1>3, <3>1, NothingPlain
  <2>2. child = [r \in Regs |-> child[r]]  BY Zenon
  <2>. QED  BY <2>1, <2>2, Zenon
<1>6. Sync!CallFunction(Sync!Top) <=>
        /\ Due("CALL") /\ Here.fn \in Callable
        /\ Seen' = SubSeq(Seen, 1, Len(Seen) - 1) \o <<Sync!Top, child>>
        /\ Enter(Frame, f.code, TRUE)
        /\ UNCHANGED <<heap, out>>
  BY <1>4, SyncSame, MaxSame, CallableSame, Zenon DEF Sync!CallFunction, Sync!Below, Sync!Nothing, Nothing
<1>. HIDE DEF child
<1>7. SafeRegs(child, DOMAIN job') /\ \A r \in Regs : Later(child[r]) = child[r]
  BY <1>5, KeptJobs, SafeKept DEF SafeRegs, Later
<1>8. /\ EnvInv' /\ Len(env') = Len(env) + 1
      /\ Seen' = SubSeq(Seen, 1, Len(Seen) - 1) \o <<Sync!Top, child>>
  BY <1>2, <1>7, KeptJobs, EnvEnter
<1>9. FramesInv' /\ ContextInv'
  <2>1. Code(f.code)  BY <1>1, AsmMachineAssumption
  <2>2. FrameOK(body) /\ body.fn  BY <2>1, SeqEmpty DEF FrameOK, Body, body
  <2>3. Calls(Frame)  BY <1>1, HereOK DEF Calls, Here
  <2>4. FrameOK(Frame)  BY FramesTop
  <2>. QED  BY <1>1, <1>8, <2>2, <2>3, <2>4, FramesEnter
<1>10. Sync!CallFunction(Sync!Top)  BY <1>0, <1>1, <1>6, <1>8
<1>. QED  BY <1>8, <1>9, <1>10 DEF Same

LEMMA ReturnStep ==
    ASSUME Settled, UNCHANGED job, Return(Awaited(Top))
    PROVE  Same /\ Sync!Return(Sync!Top)
<1>. USE DEF Settled
<1>. DEFINE given == IF Reads = << >> THEN Nothing ELSE Val(Awaited(Top), Reads[1])
            fr == [Caller EXCEPT !.ip = @ + 1, !.steps = @ + 1]
<1>1. Over /\ Len(frames) > 1 /\ UNCHANGED <<heap, out>>  BY DEF Return
<1>2. /\ FrameOK(Caller) /\ (Frame.fn => Len(env) > 1 /\ Calls(Caller))  BY <1>1, FramesUnder
<1>3. CASE Frame.fn
  <2>1. /\ env' = Append(Below(Below(env)), [env[Len(env) - 1] EXCEPT ![Calling.dst] = given])
        /\ frames' = Append(Below(Below(frames)), fr)
    BY <1>3 DEF Return
  <2>2. Reads = Functions[Calling.fn].outputs
    BY <1>1, <1>3 DEF Reads, Over
  <2>3. Reads = << >> \/ \E r \in Regs : Reads = <<r>>
    BY <1>2, <1>3, <2>2, AsmMachineAssumption DEF Calls, Calling
  <2>4. given = (IF Reads = << >> THEN Nothing ELSE Val(Sync!Top, Reads[1]))
        /\ Tag(given) # "future" /\ SafeValue(given, DOMAIN job)
    <3>1. CASE Reads = << >>  BY <3>1, NothingPlain
    <3>2. CASE Reads # << >>
      <4>1. PICK r \in Regs : Reads = <<r>>  BY <2>3, <3>2
      <4>2. 1 \in DOMAIN <<r>> /\ <<r>>[1] = r  OBVIOUS
      <4>3. 1 \in DOMAIN Reads /\ Token(Reads[1])  BY <4>1, <4>2 DEF Token
      <4>4. LET v == Val(Awaited(Top), Reads[1]) IN
            v = Val(Sync!Top, Reads[1]) /\ Tag(v) # "future" /\ SafeValue(v, DOMAIN job)
        BY <4>3, ReadSame
      <4>. QED  BY <3>2, <4>4
    <3>. QED  BY <3>1, <3>2
  <2>. HIDE DEF given
  <2>5. SafeValue(given, DOMAIN job') /\ Later(given) = given
    BY <2>4, KeptJobs, SafeKept DEF Later
  <2>6. /\ EnvInv' /\ Len(env') = Len(env) - 1
        /\ Seen' = Append(Below(Below(Seen)), [Seen[Len(Seen) - 1] EXCEPT ![Calling.dst] = given])
    BY <1>2, <1>3, <2>1, <2>5, KeptJobs, EnvLeave
  <2>7. FrameOK(fr) /\ fr.fn = Caller.fn  BY <1>2 DEF FrameOK
  <2>8. Sync!Return(Sync!Top)
    BY <1>1, <1>3, <2>1, <2>4, <2>6, SyncSame DEF Sync!Return, Sync!Nothing, Nothing
  <2>. HIDE DEF fr
  <2>9. FramesInv' /\ ContextInv'  BY <1>1, <1>3, <2>1, <2>6, <2>7, FramesLeave
  <2>. QED  BY <2>6, <2>8, <2>9 DEF Same
<1>4. CASE ~Frame.fn
  <2>1. frames' = Below(frames) /\ env' = Append(Below(env), Awaited(Top))
    BY <1>4 DEF Return, SetTop
  <2>2. /\ EnvInv' /\ Len(env') = Len(env)
        /\ Seen' = Append(SubSeq(Seen, 1, Len(Seen) - 1), Sync!Top)
    BY <2>1, KeptJobs, TopKept
  <2>3. FramesInv' /\ ContextInv'  BY <1>1, <1>2, <1>4, <2>1, <2>2, FramesLeave
  <2>4. Sync!Return(Sync!Top)
    BY <1>1, <1>4, <2>1, <2>2, SyncSame DEF Sync!Return, Sync!SetTop, Sync!Below
  <2>. QED  BY <2>2, <2>3, <2>4 DEF Same
<1>. QED  BY <1>3, <1>4

LEMMA AdvanceStep ==
    ASSUME Settled, UNCHANGED job, Advance(Awaited(Top))
    PROVE  Same /\ Sync!Advance(Sync!Top)
BY ComputeStep, PutStep, JumpStep, LoopStep, EachStep, CallStep, ReturnStep
   DEF Advance, Sync!Advance
-------------------------------------------------------------------------------
(* The generations.                                                            *)
PoolStep == \E f \in 1..MaxJobs : Take(f) \/ Ask(f) \/ Answered(f) \/ Fails(f)

\* A thread of the pool changes the state of one, and asks it once.
LEMMA PoolChange ==
    ASSUME JobInv, PoolStep
    PROVE  /\ UNCHANGED machine /\ DOMAIN job' = DOMAIN job /\ JobInv'
           /\ \A g \in DOMAIN job :
                /\ job'[g].source = job[g].source /\ job'[g].url = job[g].url
                /\ job'[g].asked # job[g].asked =>
                       job[g].asked = Nothing /\ job'[g].asked = Content(job[g].source)
                /\ job'[g].state = "asked" =>
                       \/ job[g].state = "asked"
                       \/ Ask(g) /\ \A h \in DOMAIN job : h # g => job'[h] = job[h]
<1>1. PICK f \in 1..MaxJobs : Take(f) \/ Ask(f) \/ Answered(f) \/ Fails(f)  BY DEF PoolStep
<1>2. f \in DOMAIN job /\ UNCHANGED machine
  BY <1>1 DEF Take, Ask, Answered, Fails, InState, Enters
<1>3. \A g \in DOMAIN job : JobOK(job[g])  BY DEF JobInv
<1>4. Len(job) \in Nat /\ DOMAIN job = 1..Len(job)  BY SeqLen DEF JobInv
<1>. DEFINE Moved(state) == job' = [job EXCEPT ![f].state = state]
<1>5. ASSUME NEW state \in {"waiting", "done", "failed"}, Moved(state),
             job[f].state = IF state = "waiting" THEN "queued" ELSE "asked"
      PROVE  /\ DOMAIN job' = DOMAIN job /\ job' = [g \in DOMAIN job |-> job'[g]]
             /\ \A g \in DOMAIN job :
                    /\ JobOK(job'[g])
                    /\ job'[g].source = job[g].source /\ job'[g].url = job[g].url
                    /\ job'[g].asked = job[g].asked
                    /\ job'[g].state = "asked" => job[g].state = "asked"
  <2>1. DOMAIN job' = DOMAIN job /\ job' = [g \in DOMAIN job |-> job'[g]]  BY <1>5
  <2>2. \A g \in DOMAIN job : g # f => job'[g] = job[g]  BY <1>5
  <2>3. job'[f] = [job[f] EXCEPT !.state = state]  BY <1>2, <1>5
  <2>4. /\ JobOK(job'[f]) /\ job'[f].source = job[f].source /\ job'[f].url = job[f].url
        /\ job'[f].asked = job[f].asked /\ job'[f].state # "asked"
    BY <1>2, <1>3, <1>5, <2>3 DEF JobOK
  <2>. QED  BY <1>3, <2>1, <2>2, <2>4
<1>6. ASSUME Ask(f)
      PROVE  /\ DOMAIN job' = DOMAIN job /\ job' = [g \in DOMAIN job |-> job'[g]]
             /\ \A g \in DOMAIN job : g # f => job'[g] = job[g]
             /\ JobOK(job'[f]) /\ job'[f].source = job[f].source /\ job'[f].url = job[f].url
             /\ job[f].state = "waiting" /\ job'[f].asked = Content(job[f].source)
  <2>1. /\ DOMAIN job' = DOMAIN job /\ job' = [g \in DOMAIN job |-> job'[g]]
        /\ \A g \in DOMAIN job : g # f => job'[g] = job[g]
        /\ job[f].state = "waiting"
    BY <1>6 DEF Ask, InState
  <2>2. job'[f] = [job[f] EXCEPT !.state = "asked", !.asked = Content(job[f].source)]
    BY <1>2, <1>6 DEF Ask
  <2>3. /\ DOMAIN job'[f] = DOMAIN job[f] /\ job'[f].source = job[f].source
        /\ job'[f].url = job[f].url /\ job'[f].state = "asked"
        /\ job'[f].asked = Content(job[f].source)
    BY <1>2, <1>3, <2>2 DEF JobOK
  <2>4. Content(job[f].source) = Nothing => job[f].source = Nothing  BY DEF Content, Nothing
  <2>5. JobOK(job'[f])  BY <1>2, <1>3, <2>3, <2>4 DEF JobOK
  <2>. QED  BY <2>1, <2>3, <2>5
<1>7. CASE Ask(f)
  <2>1. IsSeq(job') /\ \A g \in DOMAIN job' : JobOK(job'[g])  BY <1>3, <1>4, <1>6, <1>7, SeqMap
  <2>2. job[f].asked = Nothing  BY <1>2, <1>3, <1>6, <1>7 DEF JobOK
  <2>. QED  BY <1>2, <1>6, <1>7, <2>1, <2>2 DEF JobInv
<1>8. CASE ~Ask(f)
  <2>1. \E state \in {"waiting", "done", "failed"} :
            Moved(state) /\ job[f].state = IF state = "waiting" THEN "queued" ELSE "asked"
    BY <1>1, <1>8 DEF Take, Answered, Fails, Enters, InState
  <2>2. PICK state \in {"waiting", "done", "failed"} :
            Moved(state) /\ job[f].state = IF state = "waiting" THEN "queued" ELSE "asked"
    BY <2>1
  <2>3. \A g \in DOMAIN job :
            /\ JobOK(job'[g])
            /\ job'[g].source = job[g].source /\ job'[g].url = job[g].url
            /\ job'[g].asked = job[g].asked
            /\ job'[g].state = "asked" => job[g].state = "asked"
    BY <1>5, <2>2
  <2>4. DOMAIN job' = DOMAIN job /\ job' = [g \in DOMAIN job |-> job'[g]]  BY <1>5, <2>2
  <2>5. DOMAIN job' = DOMAIN job  BY <2>4
  <2>6. IsSeq(job')  BY <1>4, <2>4, SeqMap
  <2>7. \A g \in DOMAIN job' : JobOK(job'[g])  BY <2>3, <2>5
  <2>8. JobInv'  BY <2>6, <2>7 DEF JobInv
  <2>. QED  BY <1>2, <2>3, <2>5, <2>8
<1>. QED  BY <1>7, <1>8

\* The program submits one and leaves the others alone.
LEMMA SubmitChange ==
    ASSUME JobInv, Submit
    PROVE  /\ JobsKept /\ JobInv' /\ Len(job') \in DOMAIN job'
           /\ \A g \in DOMAIN job' : g \in DOMAIN job \/ g = Len(job')
           /\ LET new == job'[Len(job')] IN
              /\ new.state = "queued" /\ new.asked = Nothing
              /\ new.source = Val(Awaited(Top), Here.src)
<1>1. PICK new : /\ job' = Append(job, new) /\ JobOK(new)
                 /\ new.state = "queued" /\ new.asked = Nothing
                 /\ new.source = Val(Awaited(Top), Here.src)
  <2>. DEFINE source == Val(Awaited(Top), Here.src)
              new == [source |-> source, url |-> Here.url, context |-> Len(env),
                      given |-> Content(source), asked |-> Nothing, state |-> "queued"]
  <2>1. job' = Append(job, new)  BY DEF Submit
  <2>2. JobOK(new)
    <3>. HIDE DEF source
    <3>. QED  BY DEF JobOK
  <2>3. new.state = "queued" /\ new.asked = Nothing /\ new.source = source  OBVIOUS
  <2>. QED  BY <2>1, <2>2, <2>3
<1>2. /\ IsSeq(job') /\ Len(job') = Len(job) + 1
      /\ \A k \in 1..Len(job) : job'[k] = job[k]
      /\ job'[Len(job) + 1] = new
  BY <1>1, SeqAppend DEF JobInv
<1>3. /\ Len(job) \in Nat /\ DOMAIN job = 1..Len(job) /\ DOMAIN job' = 1..(Len(job) + 1)
  BY <1>2, SeqLen DEF JobInv
<1>4. /\ \A k \in 1..(Len(job) + 1) : k \in 1..Len(job) \/ k = Len(job) + 1
      /\ \A k \in 1..Len(job) : k \in 1..(Len(job) + 1)
      /\ Len(job) + 1 \in 1..(Len(job) + 1)
  BY <1>3
<1>5. JobsKept  BY <1>2, <1>3, <1>4 DEF JobsKept
<1>6. JobInv'  BY <1>1, <1>2, <1>3, <1>4 DEF JobInv
<1>. QED  BY <1>1, <1>2, <1>3, <1>4, <1>5, <1>6

LEMMA JobStep ==
    ASSUME JobInv, [Next]_vars
    PROVE  JobInv'
<1>1. CASE Submit  BY <1>1, SubmitChange
<1>2. CASE PoolStep  BY <1>2, PoolChange
<1>3. CASE UNCHANGED job  BY <1>3 DEF JobInv
<1>. QED  BY <1>1, <1>2, <1>3 DEF Next, Program, PoolStep, Main, Except, End, vars

LEMMA JobStart == Init => JobInv
BY SeqEmpty DEF Init, JobInv

\* The pool never asks one endpoint two things at once, whatever its size, and
\* whichever contexts generate.
THEOREM PoolExclusive == Spec => []EndpointExclusive
<1>1. Init => JobInv /\ EndpointExclusive
  BY JobStart, SeqEmpty DEF Init, EndpointExclusive
<1>2. JobInv /\ EndpointExclusive /\ [Next]_vars => JobInv' /\ EndpointExclusive'
  <2>. SUFFICES ASSUME JobInv, EndpointExclusive, [Next]_vars PROVE EndpointExclusive'
    BY JobStep
  <2>1. CASE PoolStep
    <3>. SUFFICES ASSUME NEW f \in DOMAIN job', NEW g \in DOMAIN job',
                         job'[f].state = "asked", job'[g].state = "asked", job'[f].url = job'[g].url
                  PROVE  f = g
      BY DEF EndpointExclusive
    <3>1. f \in DOMAIN job /\ g \in DOMAIN job /\ job[f].url = job[g].url
      BY <2>1, PoolChange
    <3>2. ASSUME NEW h \in DOMAIN job, NEW k \in DOMAIN job, Ask(h), job[k].state = "asked",
                 job[h].url = job[k].url
          PROVE  FALSE
      BY <3>2 DEF Ask, InState, Holds, LockOf
    <3>3. CASE job[f].state = "asked" /\ job[g].state = "asked"
      BY <3>1, <3>3 DEF EndpointExclusive
    <3>4. CASE job[f].state # "asked"
      <4>1. Ask(f) /\ \A h \in DOMAIN job : h # f => job'[h] = job[h]
        BY <2>1, <3>1, <3>4, PoolChange
      <4>. QED  BY <3>1, <3>2, <4>1
    <3>5. CASE job[g].state # "asked"
      <4>1. Ask(g) /\ \A h \in DOMAIN job : h # g => job'[h] = job[h]
        BY <2>1, <3>1, <3>5, PoolChange
      <4>. QED  BY <3>1, <3>2, <4>1
    <3>. QED  BY <3>3, <3>4, <3>5
  <2>2. CASE Submit
    BY <2>2, SubmitChange DEF EndpointExclusive, JobsKept
  <2>3. CASE UNCHANGED job  BY <2>3 DEF EndpointExclusive
  <2>. QED  BY <2>1, <2>2, <2>3 DEF Next, Program, PoolStep, Main, Except, End, vars
<1>. QED  BY <1>1, <1>2, PTL DEF Spec
-------------------------------------------------------------------------------
(* The program with its generations in the background implements the reference. *)
LEMMA InitStart ==
    ASSUME Init
    PROVE  RInv /\ Sync!MachineInit
<1>1. PICK p \in Programs : frames = <<Body(p, FALSE)>>  BY DEF Init, MachineInit
<1>2. env = <<Blank>> /\ heap = << >> /\ out = Nothing  BY DEF Init, MachineInit
<1>3. \A x : IsSeq(<<x>>) /\ Len(<<x>>) = 1 /\ DOMAIN <<x>> = 1..1 /\ <<x>>[1] = x /\ <<x>> # << >>
  <2>. SUFFICES ASSUME NEW x
                PROVE  IsSeq(<<x>>) /\ Len(<<x>>) = 1 /\ DOMAIN <<x>> = 1..1 /\ <<x>>[1] = x /\ <<x>> # << >>
    OBVIOUS
  <2>1. <<x>> \in Seq({x}) /\ Len(<<x>>) = 1 /\ <<x>>[1] = x  OBVIOUS
  <2>2. IsSeq(<<x>>) /\ DOMAIN <<x>> = 1..1  BY <2>1, SeqIs
  <2>. QED  BY <2>1, <2>2, SeqEmpty
<1>4. Blank = [r \in Regs |-> Blank[r]] /\ \A r \in Regs : Blank[r] = Nothing  BY DEF Blank
<1>5. SafeRegs(Blank, DOMAIN job)
  <2>1. \A r \in Regs : SafeValue(Blank[r], DOMAIN job)  BY <1>4, NothingPlain
  <2>. QED  BY <1>4, <2>1 DEF SafeRegs
<1>. DEFINE b == Body(p, FALSE)
<1>6. FrameOK(b) /\ ~b.fn
  BY SeqEmpty, AsmMachineAssumption DEF FrameOK, Body
<1>7. EnvInv
  <2>. HIDE DEF b
  <2>. QED  BY <1>2, <1>3, <1>5 DEF EnvInv
<1>8. FramesInv
  <2>1. frames = <<b>>  BY <1>1
  <2>. HIDE DEF b
  <2>2. IsSeq(frames) /\ frames # << >> /\ DOMAIN frames = 1..1 /\ frames[1] = b  BY <1>3, <2>1
  <2>3. \A i \in 1..1 : i = 1 /\ ~(i > 1)  OBVIOUS
  <2>. QED  BY <1>6, <2>2, <2>3 DEF FramesInv
<1>9. ContextInv
  <2>. DEFINE level == [i \in 1..1 |-> 1]
  <2>1. Len(frames) = 1 /\ DOMAIN frames = 1..1 /\ Len(env) = 1  BY <1>1, <1>2, <1>3
  <2>2. level[1] = 1 /\ \A i \in 1..1 : level[i] = 1 /\ ~(i > 1)  OBVIOUS
  <2>. HIDE DEF level
  <2>3. Levels(level, frames, Len(env))  BY <2>1, <2>2 DEF Levels
  <2>. QED  BY <2>3 DEF ContextInv
<1>10. Seen = <<Blank>>
  <2>. DEFINE t == <<Blank>>
  <2>1. IsSeq(t) /\ Len(t) = 1 /\ t[1] = Blank  BY <1>3
  <2>. HIDE DEF t
  <2>2. Len(env) = 1 /\ env[1] = Blank  BY <1>2, <1>3
  <2>3. \A r \in Regs : Eventually(env[1][r]) = Nothing
    BY <1>4, <2>2, NothingPlain DEF Eventually
  <2>4. 1 \in 1..1 /\ \A k \in 1..1 : k = 1  OBVIOUS
  <2>5. IsSeq(Seen) /\ Len(Seen) = 1 /\ Seen[1] = [r \in Regs |-> Eventually(env[1][r])]
    BY <1>7, <2>2, <2>4, SeenSeq
  <2>6. Seen[1] = Blank  BY <2>3, <2>5 DEF Blank
  <2>7. \A k \in 1..1 : Seen[k] = t[k]  BY <2>1, <2>4, <2>6
  <2>8. Seen = t  BY <2>1, <2>5, <2>7, SeqSame
  <2>. QED  BY <2>8 DEF t
<1>11. Sync!MachineInit
  <2>1. Sync!Blank = Blank /\ Sync!Nothing = Nothing  BY DEF Sync!Blank, Blank, Sync!Nothing, Nothing
  <2>2. \A code : Sync!Body(code, FALSE) = Body(code, FALSE)  BY DEF Sync!Body, Body
  <2>. QED  BY <1>1, <1>2, <1>10, <2>1, <2>2 DEF Sync!MachineInit
<1>. QED  BY <1>7, <1>8, <1>9, <1>11, JobStart DEF RInv

\* The registers are seen as before when they are, and every future is.
LEMMA SeenKept ==
    ASSUME EnvInv, UNCHANGED env,
           \A v : SafeValue(v, DOMAIN job) => Later(v) = Eventually(v)
    PROVE  Seen' = Seen
<1>1. \A c \in DOMAIN env : \A r \in Regs : Later(env[c][r]) = Eventually(env[c][r])
  BY DEF EnvInv, SafeRegs
<1>2. Seen' = [c \in DOMAIN env |-> [r \in Regs |-> Later(env[c][r])]]  BY SeenLater
<1>. QED  BY <1>1, <1>2 DEF Seen

\* What the pool does is not seen.
LEMMA PoolUnseen ==
    ASSUME RInv, PoolStep
    PROVE  Same /\ UNCHANGED <<Seen, heap, frames, out>>
<1>1. UNCHANGED <<env, heap, frames, out>> /\ DOMAIN job' = DOMAIN job
  BY PoolChange DEF RInv, machine
<1>2. ASSUME NEW v, SafeValue(v, DOMAIN job) PROVE Later(v) = Eventually(v)
  <2>1. CASE Tag(v) # "future"  BY <2>1 DEF Later, Eventually
  <2>2. CASE Tag(v) = "future"
    <3>. DEFINE g == v[2]
    <3>1. g \in DOMAIN job  BY <1>2, <2>2 DEF SafeValue
    <3>2. /\ job'[g].source = job[g].source
          /\ job'[g].asked # job[g].asked =>
                 job[g].asked = Nothing /\ job'[g].asked = Content(job[g].source)
      BY <3>1, PoolChange DEF RInv
    <3>. QED  BY <1>1, <2>2, <3>2 DEF Later, Eventually, Content
  <2>. QED  BY <2>1, <2>2
<1>3. UNCHANGED Seen  BY <1>1, <1>2, SeenKept DEF RInv
<1>. QED  BY <1>1, <1>3 DEF Same, RInv, EnvInv, FramesInv, ContextInv

\* A GEN leaves a future in which the answer of the reference is seen.
LEMMA SubmitStep ==
    ASSUME RInv, NoLateChange, Submit
    PROVE  Same /\ Sync!Generate
<1>. DEFINE source == Val(Awaited(Top), Here.src)
            v == Future(Len(job'))
<1>0. EnvInv /\ FramesInv /\ ContextInv /\ JobInv  BY DEF RInv
<1>1. /\ Due("GEN") /\ Going /\ Here.op = "GEN" /\ Ready
      /\ env' = Append(Below(env), [Awaited(Top) EXCEPT ![Here.dst] = v])
      /\ frames' = Append(Below(frames), Goto(Frame.ip + 1)) /\ Continue(Goto(Frame.ip + 1))
      /\ UNCHANGED <<heap, out>>
  BY DEF Submit, Due, SetTop, Continue
<1>2. Val(Sync!Top, Here.src) = source  BY <1>0, <1>1, TokensAgreed DEF Agreed
<1>3. /\ JobsKept /\ Len(job') \in DOMAIN job'
      /\ job'[Len(job')].asked = Nothing /\ job'[Len(job')].source = source
  BY <1>0, SubmitChange
<1>. HIDE DEF source
<1>4. Tag(v) = "future" /\ v[2] = Len(job')  BY DEF Future, Tag
<1>. HIDE DEF v
<1>5. SafeValue(v, DOMAIN job')  BY <1>3, <1>4 DEF SafeValue
<1>6. Later(v) = Answer(Content(source))  BY <1>1, <1>3, <1>4 DEF Later, Content
<1>7. /\ EnvInv' /\ Len(env') = Len(env)
      /\ Seen' = Append(SubSeq(Seen, 1, Len(Seen) - 1),
                        [Sync!Top EXCEPT ![Here.dst] = Answer(Content(source))])
  BY <1>0, <1>1, <1>3, <1>5, <1>6, TopWrite
<1>8. Frame.ip + 1 \in Int  BY <1>0, FramesTop DEF FrameOK
<1>9. FramesInv' /\ ContextInv'  BY <1>0, <1>1, <1>7, <1>8, GotoOK, FramesGo
<1>10. Sync!Generate
  BY <1>1, <1>2, <1>7, SyncSame DEF Sync!Generate, Sync!SetTop, Sync!Below
<1>. QED  BY <1>7, <1>9, <1>10 DEF Same

\* An error and the end of the run change no register.
LEMMA StillSame ==
    ASSUME RInv, UNCHANGED <<env, heap, frames, job>>
    PROVE  Same /\ UNCHANGED Seen
<1>1. \A v : SafeValue(v, DOMAIN job) => Later(v) = Eventually(v)  BY DEF Later, Eventually, Content
<1>2. UNCHANGED Seen  BY <1>1, SeenKept DEF RInv
<1>. QED  BY <1>2 DEF Same, RInv, EnvInv, FramesInv, ContextInv

LEMMA ExceptStep ==
    ASSUME RInv, Except
    PROVE  Same /\ Sync!Raise
<1>1. out = Nothing /\ out' = <<"error">> /\ UNCHANGED <<env, heap, frames, job>>  BY DEF Except, Raise
<1>. QED  BY <1>1, StillSame DEF Sync!Raise, Sync!Nothing, Nothing

\* What comes out empty is a generation the run gave up.
LEMMA EndStep ==
    ASSUME RInv, End
    PROVE  Same /\ Sync!Finish
<1>. DEFINE state == [r \in Regs |->
                IF Tag(Top[r]) # "future" THEN Top[r]
                ELSE IF job[Top[r][2]].state = "done" THEN Answer(job[Top[r][2]].asked) ELSE Nothing]
            lost == {r \in Regs : Tag(Top[r]) = "future" /\ job[Top[r][2]].state # "done"}
            seen == [r \in Regs |-> IF r \in lost THEN Nothing ELSE Sync!Top[r]]
<1>0. EnvInv /\ JobInv  BY DEF RInv
<1>1. /\ Over /\ Len(frames) = 1 /\ out' = <<"done", state>>
      /\ UNCHANGED <<env, heap, frames, job>>
  BY DEF End, Export
<1>2. \A r \in Regs : SafeValue(Top[r], DOMAIN job) /\ Sync!Top[r] = Eventually(Top[r])
  BY <1>0, SeenTop DEF SafeRegs
<1>3. ASSUME NEW r \in Regs, Tag(Top[r]) = "future"
      PROVE  /\ Tag(Sync!Top[r]) = "answer"
             /\ job[Top[r][2]].state = "done" => Answer(job[Top[r][2]].asked) = Sync!Top[r]
  <2>1. Tag(Sync!Top[r]) = "answer"
    <3>1. \A x : Tag(Answer(x)) = "answer"  BY DEF Answer, Tag
    <3>2. \E x : Eventually(Top[r]) = Answer(x)  BY <1>3 DEF Eventually
    <3>. QED  BY <1>2, <3>1, <3>2
  <2>2. ASSUME job[Top[r][2]].state = "done" PROVE Answer(job[Top[r][2]].asked) = Sync!Top[r]
    <3>1. ~Pending(Top[r]) /\ ~Failed(Top[r])  BY <2>2 DEF Pending, Failed, Unfinished
    <3>. QED  BY <1>0, <1>2, <1>3, <3>1, AnswerSeen
  <2>. QED  BY <2>1, <2>2
<1>4. \A r \in Regs : state[r] = IF r \in lost THEN Nothing ELSE Sync!Top[r]
  BY <1>2, <1>3 DEF Eventually
<1>5. state = seen  BY <1>4
<1>6. lost \in SUBSET {r \in Regs : Tag(Sync!Top[r]) = "answer"}  BY <1>3
<1>7. Same /\ UNCHANGED Seen  BY <1>1, StillSame
<1>8. Sync!Export(seen)
  <2>. HIDE DEF state, seen
  <2>. QED  BY <1>1, <1>5, <1>7, SyncSame DEF Sync!Export
<1>9. Sync!Nothing = Nothing /\ \A v : Sync!Tag(v) = Tag(v)  BY DEF Sync!Nothing, Nothing, Sync!Tag, Tag
<1>10. Sync!Finish
  <2>1. seen = [r \in Regs |-> IF r \in lost THEN Sync!Nothing ELSE Sync!Top[r]]  BY <1>9
  <2>2. lost \in SUBSET {r \in Regs : Sync!Tag(Sync!Top[r]) = "answer"}  BY <1>6, <1>9
  <2>. HIDE DEF lost
  <2>. QED  BY <1>8, <2>1, <2>2 DEF Sync!Finish
<1>. QED  BY <1>7, <1>10

LEMMA StepMapped ==
    ASSUME RInv, [Next]_vars, [NoLateChange]_vars
    PROVE  RInv' /\ [Sync!Next]_(Sync!machine)
<1>0. JobInv'  BY JobStep DEF RInv
<1>1. ASSUME Same PROVE RInv'  BY <1>0, <1>1 DEF Same, RInv
<1>2. CASE UNCHANGED vars
  <2>1. UNCHANGED <<env, heap, frames, out, job>>  BY <1>2 DEF vars, machine
  <2>. QED  BY <1>1, <2>1, StillSame DEF Sync!machine
<1>3. CASE ~UNCHANGED vars /\ PoolStep
  BY <1>1, <1>3, PoolUnseen DEF Sync!machine
<1>4. CASE ~UNCHANGED vars /\ Program
  <2>0. NoLateChange  BY <1>4
  <2>1. CASE Main
    <3>1. Settled /\ UNCHANGED job /\ Advance(Awaited(Top))  BY <2>0, <2>1 DEF Main, Settled, RInv
    <3>. QED  BY <1>1, <3>1, AdvanceStep DEF Sync!Next
  <2>2. CASE Submit  BY <1>1, <2>0, <2>2, SubmitStep DEF Sync!Next
  <2>3. CASE Except  BY <1>1, <2>3, ExceptStep DEF Sync!Next
  <2>4. CASE End  BY <1>1, <2>4, EndStep DEF Sync!Next
  <2>. QED  BY <1>4, <2>1, <2>2, <2>3, <2>4 DEF Program
<1>. QED  BY <1>2, <1>3, <1>4 DEF Next, PoolStep

\* Whatever the pool takes, delays, answers and fails, and in whatever order, a run
\* is a run of the reference, in which every GEN is answered at once, if no step
\* changes a chat that a generation not yet asked was given (the run asm_alias
\* shows what happens then).
THEOREM BackgroundUnseen == Spec /\ [][NoLateChange]_vars => ImplementsSync
<1>1. Init => RInv /\ Sync!MachineInit  BY InitStart
<1>2. RInv /\ [Next]_vars /\ [NoLateChange]_vars => RInv' /\ [Sync!Next]_(Sync!machine)
  BY StepMapped
<1>. QED  BY <1>1, <1>2, PTL DEF Spec, ImplementsSync, Sync!Spec
===============================================================================
