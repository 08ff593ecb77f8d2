-------------------------- MODULE ReactiveTask_proofs --------------------------
(* Proofs about ReactiveTask, for any entities, properties, listeners and      *)
(* threads, and any number of runs and edits.                                  *)
EXTENDS ReactiveTask, SequenceTheorems, TLAPS

USE ReactiveAssumption

\* Calls in progress: a write-back and an event on its way through the listeners.
Copies == [PropSet -> Values]
Parts == UNION {[S -> Values] : S \in SUBSET PropSet}
Sent == [kind : {"event"}, entity : IdSet, prop : PropSet, new : Values, next : Nat]
Call == [kind : {"sync"}, entity : IdSet, copy : Parts, next : Nat] \cup Sent
Statuses == {"pending", "generating", "extracting", "done", "failed"}
Final == {"done", "failed"}

TypeOK ==
    /\ entities \in 1..Len(Ids) /\ wired \subseteq IdSet
    /\ value \in [IdSet -> Copies]
    /\ status \in [IdSet -> Statuses]
    /\ used \in Seq(Values) /\ got \subseteq Values
    /\ stack \in [Threads -> Seq(Call)]
    /\ run \in [Threads -> RunState \cup {None}]
    /\ died \in BOOLEAN /\ overlapped \in BOOLEAN

\* While a run is at one of its entities.
Midst == {"next", "build", "ops", "verify", "extracting", "extract", "list", "append", "finish"}
Fits(r) ==
    /\ r.pc \in Midst \ {"next"} => r.i <= Len(r.of)
    /\ r.pc = "wire" => r.i = 1
    /\ r.pc = "ops" => r.copy \in Copies
FitInv == \A t \in Running : Fits(run[t])

LEMMA IdFacts == Len(Ids) \in Nat \ {0} /\ DOMAIN Ids = 1..Len(Ids)
BY EmptySeq, LenProperties

LEMMA ExistingIds == TypeOK => Existing \subseteq IdSet
BY IdFacts DEF TypeOK, Existing, IdSet
-------------------------------------------------------------------------------
(* Properties, events and calls in progress.                                   *)
LEMMA CopyIsPart == Copies \subseteq Parts /\ Patches \subseteq Parts
BY DEF Copies, Parts

LEMMA CallsBelow ==
    ASSUME TypeOK, NEW t \in Threads, ~Calm(t)
    PROVE  Top(t) \in Call /\ Below(t) \in Seq(Call)
<1>1. stack[t] \in Seq(Call) /\ stack[t] # << >>  BY DEF TypeOK, Calm
<1>2. Len(stack[t]) \in Nat \ {0}  BY <1>1, EmptySeq
<1>3. \A k \in 1..Len(stack[t]) : stack[t][k] \in Call  BY <1>1, ElementOfSeq
<1>4. Top(t) \in Call  BY <1>2, <1>3 DEF Top
<1>5. \A k \in 1..(Len(stack[t]) - 1) : stack[t][k] \in Call  BY <1>2, <1>3
<1>6. Below(t) \in Seq(Call)  BY <1>2, <1>5, SubSeqProperties DEF Below
<1>. QED  BY <1>4, <1>6

LEMMA SetPropTyped ==
    ASSUME TypeOK, NEW t \in Threads, NEW e \in IdSet, NEW p \in PropSet, NEW v \in Values,
           NEW calls \in Seq(Call), SetProp(t, e, p, v, calls)
    PROVE  value' \in [IdSet -> Copies] /\ stack' \in [Threads -> Seq(Call)]
<1>1. value' \in [IdSet -> Copies]
  BY DEF SetProp, TypeOK, Copies
<1>2. Event(e, p, v) \in Call  BY DEF Event, Call, Sent
<1>3. Append(calls, Event(e, p, v)) \in Seq(Call)  BY <1>2, AppendProperties
<1>. QED  BY <1>1, <1>3 DEF SetProp, TypeOK

LEMMA SyncTyped ==
    ASSUME TypeOK, NEW t \in Threads, Sync(t)
    PROVE  value' \in [IdSet -> Copies] /\ stack' \in [Threads -> Seq(Call)]
<1>. DEFINE f == Top(t)
<1>1. f \in Call /\ f.kind = "sync" /\ Below(t) \in Seq(Call)  BY CallsBelow DEF Sync, In
<1>2. f \in [kind : {"sync"}, entity : IdSet, copy : Parts, next : Nat]  BY <1>1 DEF Call, Sent
<1>. HIDE DEF f
<1>3. ASSUME NEW k \in DOMAIN Props, Props[k] \in DOMAIN f.copy,
             SetProp(t, f.entity, Props[k], f.copy[Props[k]], Append(Below(t), [f EXCEPT !.next = k + 1]))
      PROVE  value' \in [IdSet -> Copies] /\ stack' \in [Threads -> Seq(Call)]
  <2>1. k \in Nat /\ Props[k] \in PropSet  BY LenProperties DEF PropSet
  <2>2. f.entity \in IdSet /\ f.copy[Props[k]] \in Values
    <3>1. f.entity \in IdSet /\ f.copy \in Parts  BY <1>2
    <3>2. PICK S \in SUBSET PropSet : f.copy \in [S -> Values]  BY <3>1 DEF Parts
    <3>. QED  BY <1>3, <3>1, <3>2
  <2>3. [f EXCEPT !.next = k + 1] \in Call  BY <1>2, <2>1 DEF Call
  <2>4. Append(Below(t), [f EXCEPT !.next = k + 1]) \in Seq(Call)  BY <1>1, <2>3, AppendProperties
  <2>. QED  BY <1>3, <2>1, <2>2, <2>4, SetPropTyped
<1>4. CASE stack' = [stack EXCEPT ![t] = Below(t)] /\ UNCHANGED <<value, depth>>
  BY <1>1, <1>4 DEF TypeOK
<1>. QED  BY <1>3, <1>4 DEF Sync, Differs, f

LEMMA DeliverTyped ==
    ASSUME TypeOK, NEW t \in Threads, Deliver(t)
    PROVE  value' \in [IdSet -> Copies] /\ stack' \in [Threads -> Seq(Call)]
<1>. DEFINE f == Top(t)
<1>0. value' = value  BY DEF Deliver, task
<1>1. f \in Call /\ f.kind = "event" /\ Below(t) \in Seq(Call)  BY CallsBelow DEF Deliver, In
<1>2. f \in Sent  BY <1>1 DEF Call, Sent
<1>. HIDE DEF f
<1>3. ASSUME NEW k \in DOMAIN Listeners
      PROVE  LET rest == Append(Below(t), [f EXCEPT !.next = k + 1]) IN
             /\ rest \in Seq(Call)
             /\ Append(rest, WriteBack(f.entity, Wrote(Listeners[k], f))) \in Seq(Call)
  <2>1. [f EXCEPT !.next = k + 1] \in Call  BY <1>2, SMTT(20) DEF Call, Sent
  <2>2. Wrote(Listeners[k], f) \in Copies
    <3>1. value[f.entity] \in Copies /\ f.new \in Values  BY <1>2 DEF Sent, TypeOK
    <3>. QED  BY <3>1 DEF Wrote, Copies
  <2>3. WriteBack(f.entity, Wrote(Listeners[k], f)) \in Call
    BY <1>2, <2>2, CopyIsPart DEF WriteBack, Call, Sent
  <2>. QED  BY <1>1, <2>1, <2>3, AppendProperties
<1>4. \/ stack' = [stack EXCEPT ![t] = Below(t)]
      \/ \E k \in DOMAIN Listeners :
           LET rest == Append(Below(t), [f EXCEPT !.next = k + 1]) IN
           \/ stack' = [stack EXCEPT ![t] = rest]
           \/ stack' = [stack EXCEPT ![t] = Append(rest, WriteBack(f.entity, Wrote(Listeners[k], f)))]
  BY DEF Deliver, f
<1>5. stack' \in [Threads -> Seq(Call)]  BY <1>1, <1>3, <1>4 DEF TypeOK
<1>. QED  BY <1>0, <1>5 DEF TypeOK
-------------------------------------------------------------------------------
(* One step of a run.                                                          *)
LEMMA Moved ==
    ASSUME NEW r \in RunState, NEW pc \in Steps
    PROVE  LET q == [r EXCEPT !.pc = pc] IN
           q \in RunState /\ q.pc = pc /\ q.i = r.i /\ q.of = r.of
BY Zenon DEF RunState

LEMMA NewRunFits == NewRun \in RunState /\ NewRun.pc = "wire" /\ NewRun.i = 1 /\ Fits(NewRun)
<1>1. << >> \in Seq(Values) /\ << >> \in Seq(IdSet)  BY EmptySeq
<1>2. NewRun \in RunState  BY <1>1 DEF NewRun, RunState, Steps
<1>. QED  BY <1>2 DEF NewRun, Fits, Midst

FreshRun(r, pc, i) == [NewRun EXCEPT !.pc = pc, !.of = r.of, !.i = i]
LEMMA Fresh ==
    ASSUME NEW r \in RunState, NEW pc \in Steps, NEW i \in Nat \ {0}
    PROVE  LET q == FreshRun(r, pc, i) IN
           q \in RunState /\ q.pc = pc /\ q.i = i /\ q.of = r.of
<1>1. r.of \in Seq(IdSet)  BY Zenon DEF RunState
<1>2. NewRun \in RunState  BY NewRunFits
<1>. QED  BY <1>1, <1>2, Zenon DEF FreshRun, RunState

\* What a step of a run does with the entity it is at.
Stays(t, r) ==
    /\ run[t].pc \in Midst /\ r # None /\ r.pc \in Midst
    /\ r.of = run[t].of /\ r.i = run[t].i /\ run[t].i <= Len(run[t].of)
    /\ wired' = wired
    /\ status' = status \/ \E s \in Statuses : status' = [status EXCEPT ![This(t)] = s]
Leaves(t, r) ==
    /\ run[t].pc \in Midst /\ run[t].i <= Len(run[t].of)
    /\ r # None /\ r.pc = "next" /\ r.of = run[t].of /\ r.i = run[t].i + 1
    /\ wired' = wired /\ \E s \in Final : status' = [status EXCEPT ![This(t)] = s]
Outside(t) ==
    /\ run[t].pc \in {"check", "repair"} \/ (run[t].pc = "next" /\ run[t].i > Len(run[t].of))
    /\ wired' = wired /\ status' = status
Starts(t, r) ==
    /\ run[t].pc = "wire" /\ r # None /\ r.pc = "next" /\ r.i = 1 /\ r.of = SubSeq(Ids, 1, entities)
    /\ wired' = Existing /\ status' = status
Moves(t, r) == Stays(t, r) \/ Leaves(t, r) \/ Outside(t) \/ Starts(t, r) \/ died'

\* What it does with the list of values to avoid.
Lists(t, r) ==
    /\ \/ used' = used /\ got' = got
       \/ /\ run[t].pc = "append" /\ used' = Listed(t) /\ got' = got \cup {run[t].got}
          /\ r # None /\ r.pc = "finish"
    /\ r # None => /\ r.pc = "append" => r.seen = Len(used) /\ used' = used
                   /\ r.pc = "ops" /\ r.i > 1 => r.had = got /\ r.banned = used

After(t, r) ==
    /\ run' = [run EXCEPT ![t] = r]
    /\ r = None \/ (r \in RunState /\ Fits(r))
    /\ Moves(t, r) /\ Lists(t, r) /\ (died' = died \/ died' = TRUE)

LEMMA RunIs ==
    ASSUME TypeOK, FitInv, NEW t \in Threads, run[t] # None
    PROVE  run[t] \in RunState /\ Fits(run[t])
BY DEF TypeOK, FitInv, Running

LEMMA ThisIs ==
    ASSUME NEW t \in Threads, run[t] \in RunState, run[t].i <= Len(run[t].of)
    PROVE  This(t) \in IdSet
BY LenProperties, ElementOfSeq DEF RunState, This

\* To the next entity with this one done or failed.
LEMMA NextOneAfter ==
    ASSUME TypeOK, FitInv, NEW t \in Threads, run[t] # None, run[t].pc \in Midst \ {"next"},
           NEW s \in Final, status' = [status EXCEPT ![This(t)] = s], NextOne(t),
           UNCHANGED <<wired, used, got, died>>
    PROVE  \E r \in RunState : After(t, r)
<1>1. run[t] \in RunState /\ Fits(run[t]) /\ run[t].i \in Nat \ {0}  BY RunIs DEF RunState
<1>. DEFINE r == FreshRun(run[t], "next", run[t].i + 1)
<1>a. run[t].i + 1 \in Nat \ {0} /\ "next" \in Steps  BY <1>1 DEF Steps
<1>2. r \in RunState /\ r.pc = "next" /\ r.i = run[t].i + 1 /\ r.of = run[t].of
  BY <1>1, <1>a, Fresh
<1>3. run' = [run EXCEPT ![t] = r]  BY DEF NextOne, Afresh, Goes, FreshRun
<1>. HIDE DEF r
<1>4. Leaves(t, r)  BY <1>1, <1>2 DEF Leaves, Fits
<1>5. Fits(r) /\ Lists(t, r)  BY <1>2 DEF Fits, Lists
<1>. QED  BY <1>2, <1>3, <1>4, <1>5 DEF After, Moves

\* On with the same entity.
LEMMA StayAfter ==
    ASSUME TypeOK, FitInv, NEW t \in Threads, run[t] # None, run[t].pc \in Midst,
           run[t].i <= Len(run[t].of),
           NEW r \in RunState, run' = [run EXCEPT ![t] = r], r.of = run[t].of, r.i = run[t].i,
           r.pc \in Midst \ {"next", "ops", "append"},
           \/ status' = status
           \/ \E s \in Statuses : status' = [status EXCEPT ![This(t)] = s],
           UNCHANGED <<wired, used, got, died>>
    PROVE  \E q \in RunState : After(t, q)
<1>1. r # None  OBVIOUS
<1>2. Stays(t, r)  BY <1>1 DEF Stays
<1>3. Fits(r)  BY DEF Fits, Midst
<1>4. Lists(t, r)  BY DEF Lists
<1>. QED  BY <1>2, <1>3, <1>4 DEF After, Moves

LEMMA WireAfter ==
    ASSUME TypeOK, FitInv, NEW t \in Threads, Wire(t)
    PROVE  \E r \in RunState : After(t, r)
<1>1. run[t] \in RunState /\ Fits(run[t]) /\ run[t].pc = "wire"  BY RunIs DEF Wire, At
<1>. DEFINE r == [run[t] EXCEPT !.pc = "next", !.of = SubSeq(Ids, 1, entities)]
<1>2. SubSeq(Ids, 1, entities) \in Seq(IdSet)
  <2>1. \A k \in 1..entities : Ids[k] \in IdSet  BY IdFacts DEF TypeOK, IdSet
  <2>. QED  BY <2>1, SubSeqProperties DEF TypeOK
<1>3. r \in RunState /\ r.pc = "next" /\ r.i = run[t].i /\ r.of = SubSeq(Ids, 1, entities)
  BY <1>1, <1>2, Zenon DEF RunState, Steps
<1>4. run' = [run EXCEPT ![t] = r]  BY DEF Wire, Goes
<1>. HIDE DEF r
<1>5. run[t].i = 1 /\ r # None  BY <1>1, <1>3 DEF Fits
<1>6. Starts(t, r)  BY <1>1, <1>3, <1>5 DEF Starts, Wire
<1>7. Fits(r) /\ Lists(t, r) /\ died' = died  BY <1>3 DEF Fits, Lists, Wire
<1>. QED  BY <1>3, <1>4, <1>6, <1>7 DEF After, Moves

LEMMA NextEntityAfter ==
    ASSUME TypeOK, FitInv, NEW t \in Threads, NextEntity(t)
    PROVE  \E r \in RunState : After(t, r)
<1>1. run[t] \in RunState /\ Fits(run[t]) /\ run[t].pc = "next" /\ run[t] # None
  BY RunIs DEF NextEntity, At
<1>2. UNCHANGED <<wired, used, got, died>>  BY DEF NextEntity, flags
<1>3. CASE run[t].i > Len(run[t].of)
  <2>. DEFINE r == [run[t] EXCEPT !.pc = "check"]
  <2>1. r \in RunState /\ r.pc = "check"  BY <1>1, Moved DEF Steps
  <2>2. run' = [run EXCEPT ![t] = r] /\ status' = status  BY <1>3 DEF NextEntity, GoTo, Goes
  <2>. HIDE DEF r
  <2>3. Fits(r) /\ Lists(t, r) /\ Outside(t)  BY <1>1, <1>2, <1>3, <2>1, <2>2 DEF Fits, Lists, Outside, Midst
  <2>. QED  BY <1>2, <2>1, <2>2, <2>3 DEF After, Moves
<1>4. CASE ~(run[t].i > Len(run[t].of))
  <2>. DEFINE r == [run[t] EXCEPT !.pc = "build", !.seen = entities]
  <2>1. entities \in Nat  BY IdFacts DEF TypeOK
  <2>2. r \in RunState /\ r.pc = "build" /\ r.i = run[t].i /\ r.of = run[t].of
    BY <1>1, <2>1, Zenon DEF RunState, Steps
  <2>3. run' = [run EXCEPT ![t] = r] /\ status' = [status EXCEPT ![This(t)] = "generating"]
    BY <1>4 DEF NextEntity, Goes
  <2>. HIDE DEF r
  <2>4. run[t].i <= Len(run[t].of)
    <3>1. Len(run[t].of) \in Nat /\ run[t].i \in Nat  BY <1>1, LenProperties DEF RunState
    <3>. QED  BY <1>4, <3>1
  <2>. QED  BY <1>1, <1>2, <2>2, <2>3, <2>4, StayAfter DEF Midst, Statuses
<1>. QED  BY <1>3, <1>4

LEMMA BuildAfter ==
    ASSUME TypeOK, FitInv, NEW t \in Threads, Build(t)
    PROVE  \E r \in RunState : After(t, r)
<1>1. run[t] \in RunState /\ Fits(run[t]) /\ run[t].pc = "build" /\ run[t] # None
  BY RunIs DEF Build, At
<1>2. UNCHANGED <<wired, status, used, got, died>>  BY DEF Build, task, flags
<1>3. run[t].i <= Len(run[t].of)  BY <1>1 DEF Fits, Midst
<1>. DEFINE c == value[This(t)]
            b == IF run[t].i = 1 THEN << >> ELSE used
            r == [run[t] EXCEPT !.pc = "ops", !.copy = c, !.had = got, !.banned = b]
<1>4. c \in Copies  BY <1>1, <1>3, ThisIs DEF TypeOK
<1>5. b \in Seq(Values) /\ got \in SUBSET Values  BY EmptySeq DEF TypeOK
<1>6. run' = [run EXCEPT ![t] = r]  BY DEF Build, Goes
<1>7. run[t].i > 1 => b = used  BY <1>1 DEF RunState
<1>. HIDE DEF c, b
<1>8. r \in RunState /\ r.pc = "ops" /\ r.i = run[t].i /\ r.of = run[t].of
      /\ r.had = got /\ r.banned = b /\ r.copy = c
  BY <1>1, <1>4, <1>5, Zenon DEF RunState, Steps, Copies
<1>. HIDE DEF r
<1>9. Fits(r) /\ Lists(t, r)  BY <1>2, <1>3, <1>4, <1>7, <1>8 DEF Fits, Lists
<1>10. Stays(t, r)  BY <1>1, <1>2, <1>3, <1>8 DEF Stays, Midst
<1>. QED  BY <1>2, <1>6, <1>8, <1>9, <1>10 DEF After, Moves

\* The steps that go on with the same entity, from where it is read to where it
\* is done: the pipeline, the dialog, the extraction and the list.
LEMMA FreshAfter ==
    ASSUME TypeOK, FitInv, NEW t \in Threads, run[t] # None, run[t].pc \in Midst \ {"next"},
           NEW pc \in {"verify", "extracting", "finish"}, Afresh(t, pc, run[t].i),
           UNCHANGED <<wired, status, used, got, died>>
    PROVE  \E r \in RunState : After(t, r)
<1>1. run[t] \in RunState /\ run[t].i <= Len(run[t].of)  BY RunIs DEF Fits
<1>2. run[t].i \in Nat \ {0} /\ pc \in Steps  BY <1>1 DEF RunState, Steps
<1>. DEFINE r == FreshRun(run[t], pc, run[t].i)
<1>3. r \in RunState /\ r.pc = pc /\ r.i = run[t].i /\ r.of = run[t].of  BY <1>1, <1>2, Fresh
<1>4. run' = [run EXCEPT ![t] = r]  BY DEF Afresh, Goes, FreshRun
<1>. HIDE DEF r
<1>. QED  BY <1>1, <1>3, <1>4, StayAfter DEF Midst

LEMMA OpsAfter ==
    ASSUME TypeOK, FitInv, NEW t \in Threads, Generate(t) \/ Halt(t) \/ OpsRaise(t)
    PROVE  \E r \in RunState : After(t, r)
<1>1. run[t].pc = "ops" /\ run[t] # None  BY DEF Generate, Halt, OpsRaise, At
<1>2. CASE OpsRaise(t)
  <2>1. status' = [status EXCEPT ![This(t)] = "failed"] /\ NextOne(t) /\ UNCHANGED <<wired, used, got, died>>
    BY <1>2 DEF OpsRaise, Failed, Entity, flags
  <2>. QED  BY <1>1, <2>1, NextOneAfter DEF Final, Midst
<1>3. CASE Generate(t) \/ Halt(t)
  <2>1. \E pc \in {"verify", "finish"} : Afresh(t, pc, run[t].i)  BY <1>3 DEF Generate, Halt
  <2>2. UNCHANGED <<wired, status, used, got, died>>  BY <1>3 DEF Generate, Halt, task, flags
  <2>. QED  BY <1>1, <2>1, <2>2, FreshAfter DEF Midst
<1>. QED  BY <1>2, <1>3

LEMMA VerifyAfter ==
    ASSUME TypeOK, FitInv, NEW t \in Threads, Passed(t) \/ Refused(t) \/ Unverified(t) \/ Refine(t)
    PROVE  \E r \in RunState : After(t, r)
<1>1. run[t].pc = "verify" /\ run[t] # None
  BY DEF Passed, Refused, Unverified, Refine, Judged, At
<1>2. UNCHANGED <<wired, status, used, got, died>>
  BY DEF Passed, Refused, Unverified, Refine, task, flags
<1>3. CASE Passed(t) \/ Refused(t) \/ Unverified(t)
  <2>1. Afresh(t, "extracting", run[t].i)  BY <1>3 DEF Passed, Refused, Unverified
  <2>. QED  BY <1>1, <1>2, <2>1, FreshAfter DEF Midst
<1>4. CASE Refine(t)
  <2>1. run[t] \in RunState /\ run[t].i <= Len(run[t].of)  BY <1>1, RunIs DEF Fits, Midst
  <2>. DEFINE r == [run[t] EXCEPT !.round = @ + 1]
  <2>2. run[t].round + 1 \in Nat  BY <2>1 DEF RunState
  <2>3. r \in RunState /\ r.pc = run[t].pc /\ r.i = run[t].i /\ r.of = run[t].of
    BY <2>1, <2>2, Zenon DEF RunState
  <2>4. run' = [run EXCEPT ![t] = r]  BY <1>4 DEF Refine, Goes
  <2>. HIDE DEF r
  <2>. QED  BY <1>1, <1>2, <2>1, <2>3, <2>4, StayAfter DEF Midst
<1>. QED  BY <1>3, <1>4

LEMMA ExtractAfter ==
    ASSUME TypeOK, FitInv, NEW t \in Threads, Extracting(t) \/ Extract(t) \/ NotExtracted(t)
    PROVE  \E r \in RunState : After(t, r)
<1>1. run[t].pc \in {"extracting", "extract"} /\ run[t] # None
  BY DEF Extracting, Extract, NotExtracted, At
<1>2. run[t] \in RunState /\ run[t].i <= Len(run[t].of)  BY <1>1, RunIs DEF Fits, Midst
<1>3. UNCHANGED <<wired, used, got, died>>
  BY DEF Extracting, Extract, NotExtracted, task, flags
<1>4. status' = status \/ status' = [status EXCEPT ![This(t)] = "extracting"]
  BY DEF Extracting, Extract, NotExtracted, Entity, task
<1>5. CASE Extracting(t) \/ NotExtracted(t)
  <2>1. PICK pc \in {"extract", "finish"} : GoTo(t, pc)  BY <1>5 DEF Extracting, NotExtracted
  <2>. DEFINE r == [run[t] EXCEPT !.pc = pc]
  <2>a. pc \in Steps  BY DEF Steps
  <2>2. r \in RunState /\ r.pc = pc /\ r.i = run[t].i /\ r.of = run[t].of
    BY <1>2, <2>a, Moved
  <2>3. run' = [run EXCEPT ![t] = r]  BY <2>1 DEF GoTo, Goes
  <2>. HIDE DEF r
  <2>. QED  BY <1>1, <1>2, <1>3, <1>4, <2>2, <2>3, StayAfter DEF Midst, Statuses
<1>6. CASE Extract(t)
  <2>1. PICK v \in Values :
          run' = [run EXCEPT ![t] = [run[t] EXCEPT !.pc = IF v = Empty THEN "finish" ELSE "list", !.got = v]]
    BY <1>6 DEF Extract, Goes
  <2>. DEFINE pc == IF v = Empty THEN "finish" ELSE "list"
              r == [run[t] EXCEPT !.pc = pc, !.got = v]
  <2>2. pc \in {"finish", "list"}  OBVIOUS
  <2>3. run' = [run EXCEPT ![t] = r]  BY <2>1
  <2>. HIDE DEF pc
  <2>4. r \in RunState /\ r.pc = pc /\ r.i = run[t].i /\ r.of = run[t].of
    BY <1>2, <2>2, Zenon DEF RunState, Steps
  <2>. HIDE DEF r
  <2>. QED  BY <1>1, <1>2, <1>3, <1>4, <2>2, <2>3, <2>4, StayAfter DEF Midst, Statuses
<1>. QED  BY <1>5, <1>6

LEMMA ListAfter ==
    ASSUME TypeOK, FitInv, NEW t \in Threads, LookUp(t) \/ List(t) \/ FinishEntity(t)
    PROVE  \E r \in RunState : After(t, r)
<1>1. run[t].pc \in {"list", "append", "finish"} /\ run[t] # None
  BY DEF LookUp, List, FinishEntity, At
<1>2. run[t] \in RunState /\ run[t].i <= Len(run[t].of) /\ run[t].i \in Nat \ {0}
  BY <1>1, RunIs DEF Fits, Midst, RunState
<1>3. CASE LookUp(t)
  <2>. DEFINE r == [run[t] EXCEPT !.pc = "append", !.seen = Len(used)]
  <2>1. Len(used) \in Nat  BY LenProperties DEF TypeOK
  <2>2. r \in RunState /\ r.pc = "append" /\ r.i = run[t].i /\ r.of = run[t].of /\ r.seen = Len(used)
    BY <1>2, <2>1, Zenon DEF RunState, Steps
  <2>3. run' = [run EXCEPT ![t] = r] /\ UNCHANGED <<wired, status, used, got, died>>
    BY <1>3 DEF LookUp, Goes, task, flags
  <2>. HIDE DEF r
  <2>4. r # None  BY <2>2
  <2>5. Stays(t, r) /\ Fits(r) /\ Lists(t, r)
    BY <1>1, <1>2, <2>2, <2>3, <2>4 DEF Stays, Fits, Lists, Midst
  <2>. QED  BY <2>2, <2>3, <2>5 DEF After, Moves
<1>4. CASE List(t)
  <2>. DEFINE r == FreshRun(run[t], "finish", run[t].i)
  <2>a. "finish" \in Steps  BY DEF Steps
  <2>b. run[t] \in RunState /\ run[t].i \in Nat \ {0}  BY <1>2
  <2>1. r \in RunState /\ r.pc = "finish" /\ r.i = run[t].i /\ r.of = run[t].of
    BY <2>a, <2>b, Fresh
  <2>2. run' = [run EXCEPT ![t] = r] /\ UNCHANGED <<wired, status, died>>
        /\ used' = Listed(t) /\ got' = got \cup {run[t].got} /\ run[t].pc = "append"
    BY <1>4 DEF List, Afresh, Goes, At, flags, FreshRun
  <2>. HIDE DEF r
  <2>3. r # None  BY <2>1
  <2>4. Stays(t, r) /\ Fits(r) /\ Lists(t, r)
    BY <1>1, <1>2, <2>1, <2>2, <2>3 DEF Stays, Fits, Lists, Midst
  <2>. QED  BY <2>1, <2>2, <2>4 DEF After, Moves
<1>5. CASE FinishEntity(t)
  <2>1. status' = [status EXCEPT ![This(t)] = "done"] /\ NextOne(t) /\ UNCHANGED <<wired, used, got, died>>
    BY <1>5 DEF FinishEntity, Entity, flags
  <2>2. run[t].pc = "finish"  BY <1>5 DEF FinishEntity, At
  <2>. QED  BY <1>1, <2>1, <2>2, NextOneAfter DEF Final, Midst
<1>. QED  BY <1>3, <1>4, <1>5

LEMMA CheckAfter ==
    ASSUME TypeOK, FitInv, NEW t \in Threads, Check(t) \/ Repair(t) \/ WalkRaises(t)
    PROVE  \E r \in RunState \cup {None} : After(t, r)
<1>1. run[t] \in RunState /\ run[t] # None
  BY RunIs DEF Check, Repair, WalkRaises, At
<1>2. CASE WalkRaises(t)
  <2>1. run' = [run EXCEPT ![t] = None] /\ died' = TRUE /\ UNCHANGED <<used, got>>
    BY <1>2 DEF WalkRaises, Ended, task
  <2>. QED  BY <2>1 DEF After, Moves, Lists
<1>3. ASSUME Check(t) \/ Repair(t)
      PROVE  /\ run[t].pc \in {"check", "repair"} /\ UNCHANGED <<wired, status, used, got, died>>
             /\ Outside(t)
  BY <1>3 DEF Check, Repair, At, task, flags, Outside
<1>4. ASSUME NEW r \in RunState, run' = [run EXCEPT ![t] = r], r.pc \in {"check", "repair"},
             Check(t) \/ Repair(t)
      PROVE  After(t, r)
  <2>1. Fits(r) /\ Lists(t, r)  BY <1>3, <1>4 DEF Fits, Lists, Midst
  <2>. QED  BY <1>3, <1>4, <2>1 DEF After, Moves
<1>5. CASE Check(t)
  <2>1. CASE run' = [run EXCEPT ![t] = None]
    BY <1>3, <1>5, <2>1 DEF After, Moves, Lists
  <2>. DEFINE r == [run[t] EXCEPT !.pc = "repair", !.i = 1, !.seen = entities, !.repairs = NextAttempt(run[t])]
  <2>2. CASE run' = [run EXCEPT ![t] = r]
    <3>1. entities \in Nat /\ NextAttempt(run[t]) \in Nat /\ 1 \in Nat \ {0}
      BY <1>1, IdFacts DEF TypeOK, NextAttempt, RunState
    <3>2. r \in RunState /\ r.pc = "repair"  BY <1>1, <3>1, Zenon DEF RunState, Steps
    <3>. HIDE DEF r
    <3>. QED  BY <1>4, <1>5, <2>2, <3>2
  <2>. QED  BY <1>5, <2>1, <2>2 DEF Check, Ended, Goes
<1>6. CASE Repair(t)
  <2>. DEFINE q == [run[t] EXCEPT !.pc = "check"]
              r == [run[t] EXCEPT !.i = @ + 1]
  <2>1. q \in RunState /\ q.pc = "check"  BY <1>1, Moved DEF Steps
  <2>a. run[t].i \in Nat \ {0}  BY <1>1 DEF RunState
  <2>2. run[t].i + 1 \in Nat \ {0} /\ run[t].pc = "repair"  BY <1>6, <2>a, SMTT(20) DEF Repair, At
  <2>3. r \in RunState /\ r.pc = "repair"  BY <1>1, <2>2, Zenon DEF RunState
  <2>4. run' = [run EXCEPT ![t] = q] \/ run' = [run EXCEPT ![t] = r]  BY <1>6 DEF Repair, GoTo, Goes
  <2>. HIDE DEF q, r
  <2>. QED  BY <1>4, <1>6, <2>1, <2>3, <2>4
<1>. QED  BY <1>2, <1>5, <1>6

LEMMA RunAfter ==
    ASSUME TypeOK, FitInv, NEW t \in Threads, Run(t)
    PROVE  \E r \in RunState \cup {None} : After(t, r)
BY WireAfter, NextEntityAfter, BuildAfter, OpsAfter, VerifyAfter, ExtractAfter, ListAfter,
   CheckAfter DEF Run
-------------------------------------------------------------------------------
(* The invariant.                                                              *)
\* While no two runs have overlapped there is one at most; every value found is
\* in the list; the length a run has looked up is still the list's; and what was
\* found when a run built an entity's layers was in the list that it built in.
OneInv == ~overlapped => \A t, u \in Running : t = u
ListInv == ~overlapped =>
    /\ got \subseteq SetOf(used)
    /\ \A t \in Running : /\ run[t].pc = "append" => run[t].seen = Len(used)
                          /\ run[t].pc = "ops" /\ run[t].i > 1 => run[t].had \subseteq SetOf(run[t].banned)

\* A run that has yet to come to entity e, or is at it.
AheadOf(t, e) ==
    /\ run[t] # None /\ run[t].pc \in Midst
    /\ \E k \in 1..Len(run[t].of) : k >= run[t].i /\ run[t].of[k] = e
LeftInv == ~died => \A e \in wired : status[e] \in Final \/ \E t \in Threads : AheadOf(t, e)

Inv == TypeOK /\ FitInv /\ OneInv /\ ListInv /\ LeftInv

LEMMA InitInv == Init => Inv
<1>. SUFFICES ASSUME Init PROVE Inv  OBVIOUS
<1>1. TypeOK
  <2>1. 1 \in 1..Len(Ids)  BY IdFacts
  <2>2. << >> \in Seq(Values) /\ << >> \in Seq(Call)  BY EmptySeq
  <2>3. SetOf(Ids) = IdSet  BY DEF SetOf, IdSet
  <2>. QED  BY <2>1, <2>2, <2>3 DEF Init, TypeOK, Copies, Statuses
<1>2. Running = {}  BY DEF Init, Running
<1>. QED  BY <1>1, <1>2 DEF Init, Inv, FitInv, OneInv, ListInv, LeftInv

\* A step of no run leaves what runs know; one of them starts.
Apart == UNCHANGED <<wired, status, used, got, died>>
LEMMA OthersAfter ==
    ASSUME TypeOK, Next, \A t \in Threads : ~Run(t)
    PROVE  /\ Apart
           /\ \/ run' = run /\ overlapped' = overlapped
              \/ \E t \in Threads :
                    /\ run[t] = None /\ run' = [run EXCEPT ![t] = NewRun]
                    /\ overlapped' = (overlapped \/ \E u \in Threads : run[u] # None)
<1>1. ASSUME NEW t \in Threads, Sync(t) \/ Deliver(t) PROVE Apart /\ run' = run /\ overlapped' = overlapped
  BY <1>1 DEF Sync, Deliver, Apart, task, flags
<1>2. ASSUME NEW t \in Threads, StartRun(t)
      PROVE  /\ Apart /\ run[t] = None /\ run' = [run EXCEPT ![t] = NewRun]
             /\ overlapped' = (overlapped \/ \E u \in Threads : run[u] # None)
  BY <1>2 DEF StartRun, Apart, task, Goes
<1>3. CASE RequestRun \/ EditEntity \/ AddEntity
  <2>1. Apart /\ run' = run /\ overlapped' = overlapped
    BY <1>3 DEF RequestRun, EditEntity, AddEntity, Apart, task, flags
  <2>. QED  BY <2>1
<1>. QED  BY <1>1, <1>2, <1>3 DEF Next, Thread

LEMMA ValuesKept ==
    ASSUME TypeOK, FitInv, Next
    PROVE  value' \in [IdSet -> Copies] /\ stack' \in [Threads -> Seq(Call)]
<1>. DEFINE Typed == value' \in [IdSet -> Copies] /\ stack' \in [Threads -> Seq(Call)]
<1>0. ASSUME NEW t \in Threads, NEW c \in Parts, NEW e \in IdSet,
             stack' = [stack EXCEPT ![t] = <<WriteBack(e, c)>>], value' = value
      PROVE  Typed
  <2>1. WriteBack(e, c) \in Call  BY DEF WriteBack, Call
  <2>2. <<WriteBack(e, c)>> \in Seq(Call)  BY <2>1
  <2>. QED  BY <1>0, <2>2 DEF TypeOK
<1>1. ASSUME NEW t \in Threads, Sync(t) \/ Deliver(t) PROVE Typed
  BY <1>1, SyncTyped, DeliverTyped
<1>2. ASSUME NEW t \in Threads, OpsRaise(t) \/ Passed(t) \/ Refused(t) \/ Refine(t) \/ Extract(t) PROVE Typed
  <2>1. run[t] # None /\ run[t].pc \in {"ops", "verify", "extract"}
    BY <1>2 DEF OpsRaise, Passed, Refused, Refine, Extract, Judged, At
  <2>2. This(t) \in IdSet  BY <2>1, RunIs, ThisIs DEF Fits, Midst
  <2>3. << >> \in Seq(Call)  BY EmptySeq
  <2>4. \E p \in PropSet, v \in Values : SetProp(t, This(t), p, v, << >>)
    BY <1>2 DEF OpsRaise, Passed, Refused, Refine, Extract
  <2>. QED  BY <2>2, <2>3, <2>4, SetPropTyped
<1>3. ASSUME NEW t \in Threads, Generate(t) \/ Halt(t) PROVE Typed
  <2>1. run[t] # None /\ run[t].pc = "ops"  BY <1>3 DEF Generate, Halt, At
  <2>2. This(t) \in IdSet /\ run[t].copy \in Copies  BY <2>1, RunIs, ThisIs DEF Fits, Midst
  <2>3. \A v \in Values : [run[t].copy EXCEPT !["text"] = v] \in Copies  BY <2>2 DEF Copies
  <2>4. PICK c \in Copies : stack' = [stack EXCEPT ![t] = <<WriteBack(This(t), c)>>]
    BY <1>3, <2>2, <2>3 DEF Generate, Halt
  <2>5. value' = value  BY <1>3 DEF Generate, Halt, task
  <2>. QED  BY <1>0, <2>2, <2>4, <2>5, CopyIsPart
<1>4. ASSUME NEW t \in Threads, Repair(t) PROVE Typed
  <2>1. value' = value  BY <1>4 DEF Repair, task
  <2>2. CASE stack' = stack  BY <2>1, <2>2 DEF TypeOK
  <2>3. ASSUME NEW v \in Texts, run[t].i <= entities,
               stack' = [stack EXCEPT ![t] = <<WriteBack(Ids[run[t].i],
                                                         [value[Ids[run[t].i]] EXCEPT !["field"] = v])>>]
        PROVE  Typed
    <3>1. run[t].i \in Nat \ {0}  BY <1>4, RunIs DEF Repair, At, RunState
    <3>2. Ids[run[t].i] \in IdSet  BY <2>3, <3>1, IdFacts DEF TypeOK, IdSet
    <3>3. [value[Ids[run[t].i]] EXCEPT !["field"] = v] \in Copies  BY <3>2 DEF TypeOK, Copies
    <3>. QED  BY <1>0, <2>1, <2>3, <3>2, <3>3, CopyIsPart
  <2>4. run[t].i \in Nat /\ entities \in Nat  BY <1>4, RunIs, IdFacts DEF Repair, At, RunState, TypeOK
  <2>5. CASE run[t].i > entities  BY <1>4, <2>2, <2>5 DEF Repair
  <2>6. CASE ~(run[t].i > entities)
    <3>1. \/ stack' = stack
          \/ \E v \in Texts : stack' = [stack EXCEPT ![t] =
                <<WriteBack(Ids[run[t].i], [value[Ids[run[t].i]] EXCEPT !["field"] = v])>>]
      BY <1>4, <2>6, Zenon DEF Repair
    <3>2. run[t].i <= entities  BY <2>4, <2>6
    <3>. QED  BY <2>2, <2>3, <3>1, <3>2, Zenon
  <2>. QED  BY <2>5, <2>6
<1>5. ASSUME EditEntity PROVE Typed
  <2>1. PICK e \in IdSet, patch \in Parts : stack' = [stack EXCEPT ![Loop] = <<WriteBack(e, patch)>>]
    BY <1>5, ExistingIds, CopyIsPart DEF EditEntity
  <2>2. value' = value  BY <1>5 DEF EditEntity, task
  <2>. QED  BY <1>0, <2>1, <2>2 DEF Threads
<1>6. ASSUME NEW t \in Threads,
             Run(t) \/ StartRun(t), ~(OpsRaise(t) \/ Passed(t) \/ Refused(t) \/ Refine(t) \/ Extract(t)),
             ~(Generate(t) \/ Halt(t) \/ Repair(t))
      PROVE  value' = value /\ stack' = stack
  BY <1>6, Zenon DEF Run, StartRun, Wire, NextEntity, Build, WalkRaises, Unverified, Extracting,
       NotExtracted, LookUp, List, FinishEntity, Check, task
<1>7. CASE RequestRun \/ AddEntity
  <2>1. value' = value /\ stack' = stack  BY <1>7 DEF RequestRun, AddEntity, task
  <2>. QED  BY <2>1 DEF TypeOK
<1>. QED  BY <1>1, <1>2, <1>3, <1>4, <1>5, <1>6, <1>7 DEF Next, Thread, TypeOK

LEMMA ListedIs ==
    ASSUME TypeOK, NEW t \in Threads, run[t] \in RunState
    PROVE  /\ Listed(t) \in Seq(Values)
           /\ run[t].seen = Len(used) => SetOf(used) \cup {run[t].got} \subseteq SetOf(Listed(t))
<1>. DEFINE v == run[t].got
<1>1. v \in Values /\ used \in Seq(Values)  BY Zenon DEF RunState, TypeOK
<1>. HIDE DEF v
<1>2. <<v>> \in Seq(Values) /\ SetOf(<<v>>) = {v}  BY <1>1 DEF SetOf
<1>3. Append(used, v) \in Seq(Values) /\ SetOf(used) \cup {v} \subseteq SetOf(Append(used, v))
  <2>1. /\ Append(used, v) \in Seq(Values) /\ Len(Append(used, v)) = Len(used) + 1
        /\ \A k \in 1..Len(used) : Append(used, v)[k] = used[k]
        /\ Append(used, v)[Len(used) + 1] = v
    BY <1>1, AppendProperties
  <2>2. /\ DOMAIN used = 1..Len(used) /\ DOMAIN Append(used, v) = 1..(Len(used) + 1)
        /\ Len(used) \in Nat
    BY <1>1, <2>1, LenProperties
  <2>. DEFINE s == Append(used, v)
  <2>3. \A k \in DOMAIN used : k \in DOMAIN s /\ s[k] = used[k]  BY <2>1, <2>2
  <2>4. Len(used) + 1 \in DOMAIN s /\ s[Len(used) + 1] = v  BY <2>1, <2>2
  <2>5. s \in Seq(Values)  BY <2>1
  <2>. HIDE DEF s
  <2>6. SetOf(used) \cup {v} \subseteq SetOf(s)  BY <2>3, <2>4 DEF SetOf
  <2>. QED  BY <2>5, <2>6 DEF s
<1>4. Len(used) = 0 => SetOf(used) = {}
  <2>1. DOMAIN used = 1..Len(used)  BY <1>1, LenProperties
  <2>. QED  BY <2>1 DEF SetOf
<1>5. Listed(t) = IF run[t].seen = 0 THEN <<v>> ELSE IF v \in SetOf(used) THEN used ELSE Append(used, v)
  BY DEF Listed, v
<1>6. Listed(t) \in Seq(Values)  BY <1>1, <1>2, <1>3, <1>5
<1>7. run[t].seen = Len(used) => SetOf(used) \cup {v} \subseteq SetOf(Listed(t))
  BY <1>2, <1>3, <1>4, <1>5
<1>. QED  BY <1>6, <1>7 DEF v

\* A step of run t changes no other run.
LEMMA RunKeepsType ==
    ASSUME Inv, NEW t \in Threads, Run(t), NEW r \in RunState \cup {None}, After(t, r)
    PROVE  /\ run' \in [Threads -> RunState \cup {None}] /\ FitInv'
           /\ wired' \subseteq IdSet /\ status' \in [IdSet -> Statuses]
           /\ used' \in Seq(Values) /\ got' \subseteq Values
           /\ died' \in BOOLEAN
<1>. USE DEF Inv
<1>1. run' = [run EXCEPT ![t] = r] /\ run' \in [Threads -> RunState \cup {None}]
  BY DEF After, TypeOK
<1>2. FitInv'  BY <1>1 DEF After, FitInv, Running, TypeOK
<1>3. run[t] # None /\ run[t] \in RunState
  <2>1. run[t] # None
    BY Zenon DEF Run, Wire, NextEntity, Build, WalkRaises, Generate, Halt, OpsRaise, Judged, Passed, Refine,
           Refused, Unverified, Extracting, Extract, NotExtracted, LookUp, List, FinishEntity,
           Check, Repair, At
  <2>. QED  BY <2>1, RunIs, Zenon
<1>4. used' \in Seq(Values) /\ got' \subseteq Values
  <2>1. Lists(t, r) /\ Listed(t) \in Seq(Values)  BY <1>3, ListedIs DEF After
  <2>2. run[t].got \in Values  BY <1>3, Zenon DEF RunState
  <2>. QED  BY <2>1, <2>2 DEF Lists, TypeOK
<1>5. wired' \subseteq IdSet /\ (status' = status \/ \E s \in Statuses : status' = [status EXCEPT ![This(t)] = s])
  <2>1. wired' = wired \/ wired' = Existing
    BY Zenon DEF Run, Wire, NextEntity, Build, WalkRaises, Generate, Halt, OpsRaise, Passed, Refine,
           Refused, Unverified, Extracting, Extract, NotExtracted, LookUp, List, FinishEntity,
           Check, Repair, task
  <2>2. status' = status \/ \E s \in Statuses : status' = [status EXCEPT ![This(t)] = s]
    BY Zenon DEF Run, Wire, NextEntity, Build, WalkRaises, Generate, Halt, OpsRaise, Passed, Refine,
           Refused, Unverified, Extracting, Extract, NotExtracted, LookUp, List, FinishEntity,
           Check, Repair, task, Entity, Failed, Statuses
  <2>3. wired' \subseteq IdSet  BY <2>1, ExistingIds DEF TypeOK
  <2>. QED  BY <2>2, <2>3, Zenon
<1>6. status' \in [IdSet -> Statuses]  BY <1>5 DEF TypeOK
<1>7. died' \in BOOLEAN  BY DEF After, TypeOK
<1>. QED  BY <1>1, <1>2, <1>4, <1>5, <1>6, <1>7

\* While no two runs overlap, the list keeps every value found.
LEMMA RunKeepsList ==
    ASSUME Inv, NEW t \in Threads, run[t] # None, NEW r \in RunState \cup {None}, After(t, r),
           ~overlapped, overlapped' = overlapped
    PROVE  OneInv' /\ ListInv'
<1>. USE DEF Inv
<1>1. run' = [run EXCEPT ![t] = r] /\ t \in Running  BY DEF After, Running
<1>2. \A u \in Running : u = t  BY <1>1 DEF OneInv
<1>3. \A u \in Threads : u # t => run'[u] = None  BY <1>1, <1>2 DEF TypeOK, Running
<1>4. run'[t] = r  BY <1>1 DEF TypeOK
<1>5. OneInv'  BY <1>3 DEF OneInv, Running
<1>6. CASE used' = used /\ got' = got
  <2>1. got' \subseteq SetOf(used')  BY <1>6 DEF ListInv
  <2>2. r # None => /\ r.pc = "append" => r.seen = Len(used')
                    /\ r.pc = "ops" /\ r.i > 1 => r.had \subseteq SetOf(r.banned)
    BY <1>6 DEF After, Lists, ListInv
  <2>. QED  BY <1>3, <1>4, <1>5, <2>1, <2>2 DEF ListInv, Running
<1>7. CASE /\ run[t].pc = "append" /\ used' = Listed(t) /\ got' = got \cup {run[t].got}
           /\ r # None /\ r.pc = "finish"
  <2>1. run[t].seen = Len(used) /\ got \subseteq SetOf(used)  BY <1>1, <1>7 DEF ListInv
  <2>2. got' \subseteq SetOf(used')  BY <1>7, <2>1, RunIs, ListedIs
  <2>. QED  BY <1>3, <1>4, <1>5, <1>7, <2>2 DEF ListInv, Running
<1>. QED  BY <1>6, <1>7 DEF After, Lists

\* An entity whose events reach the bus is final, or a run has yet to leave it.
LEMMA RunKeepsLeft ==
    ASSUME Inv, NEW t \in Threads, run[t] # None, NEW r \in RunState \cup {None}, After(t, r)
    PROVE  LeftInv'
<1>. USE DEF Inv
<1>. SUFFICES ASSUME ~died', NEW e \in wired'
              PROVE  status'[e] \in Final \/ \E u \in Threads : AheadOf(u, e)'
  BY DEF LeftInv
<1>1. ~died  BY DEF After
<1>2. run'[t] = r /\ \A u \in Threads : u # t => run'[u] = run[u]  BY DEF After, TypeOK
<1>3. ASSUME NEW u \in Threads, u # t, AheadOf(u, e) PROVE AheadOf(u, e)'
  BY <1>2, <1>3 DEF AheadOf
<1>4. run[t] \in RunState /\ run[t].i \in Nat /\ Len(run[t].of) \in Nat
  BY RunIs, LenProperties DEF RunState
<1>5. ASSUME NEW k \in 1..Len(r.of), r # None, r.pc \in Midst, k >= r.i, r.of[k] = e
      PROVE  AheadOf(t, e)'
  BY <1>2, <1>5 DEF AheadOf
<1>6. ASSUME e \in wired, status'[e] = status[e], AheadOf(t, e) => AheadOf(t, e)'
      PROVE  status'[e] \in Final \/ \E u \in Threads : AheadOf(u, e)'
  BY <1>1, <1>3, <1>6 DEF LeftInv
<1>7. \A s \in Statuses : status' = [status EXCEPT ![This(t)] = s] /\ e \in wired /\ e # This(t)
                          => status'[e] = status[e]
  BY DEF TypeOK
<1>8. CASE Stays(t, r)
  <2>1. AheadOf(t, e) => AheadOf(t, e)'  BY <1>2, <1>8 DEF Stays, AheadOf
  <2>2. CASE e = This(t)
    <3>1. run[t].i \in 1..Len(run[t].of)  BY <1>4, <1>8 DEF Stays, RunState
    <3>. QED  BY <1>4, <1>5, <1>8, <2>2, <3>1 DEF Stays, This
  <2>3. CASE e # This(t)
    <3>1. e \in wired /\ status'[e] = status[e]  BY <1>7, <1>8, <2>3 DEF Stays
    <3>. QED  BY <1>6, <2>1, <3>1
  <2>. QED  BY <2>2, <2>3
<1>9. CASE Leaves(t, r)
  <2>1. PICK s \in Final : status' = [status EXCEPT ![This(t)] = s]  BY <1>9 DEF Leaves
  <2>2. e \in wired /\ s \in Statuses  BY <1>9 DEF Leaves, Final, Statuses
  <2>3. CASE e = This(t)
    <3>1. status'[e] = s  BY <2>1, <2>2, <2>3 DEF TypeOK
    <3>. QED  BY <3>1
  <2>4. CASE e # This(t)
    <3>1. status'[e] = status[e]  BY <1>7, <2>1, <2>2, <2>4
    <3>2. ASSUME AheadOf(t, e) PROVE AheadOf(t, e)'
      <4>1. PICK k \in 1..Len(run[t].of) : k >= run[t].i /\ run[t].of[k] = e  BY <3>2 DEF AheadOf
      <4>2. k # run[t].i  BY <2>4, <4>1 DEF This
      <4>3. k >= run[t].i + 1  BY <1>4, <4>1, <4>2
      <4>4. k \in 1..Len(r.of) /\ k >= r.i /\ r.of[k] = e /\ r # None /\ r.pc \in Midst
        BY <1>9, <4>1, <4>3 DEF Leaves, Midst
      <4>. QED  BY <1>5, <4>4
    <3>. QED  BY <1>6, <2>2, <3>1, <3>2
  <2>. QED  BY <2>3, <2>4
<1>10. CASE Outside(t)
  <2>1. ~AheadOf(t, e)  BY <1>4, <1>10 DEF Outside, AheadOf, Midst
  <2>. QED  BY <1>6, <1>10, <2>1 DEF Outside
<1>11. CASE Starts(t, r)
  <2>1. PICK k \in 1..entities : e = Ids[k]  BY <1>11 DEF Starts, Existing
  <2>2. Len(r.of) = entities /\ r.of[k] = Ids[k]
    <3>1. \A j \in 1..entities : Ids[j] \in IdSet  BY IdFacts DEF TypeOK, IdSet
    <3>. QED  BY <1>11, <3>1, IdFacts, SubSeqProperties DEF Starts, TypeOK
  <2>3. r # None /\ r.pc \in Midst /\ k >= r.i  BY <1>11 DEF Starts, Midst
  <2>. QED  BY <1>5, <2>1, <2>2, <2>3
<1>. QED  BY <1>8, <1>9, <1>10, <1>11 DEF After, Moves

\* A step of no run: the runs in progress go on as they were, or one joins them.
LEMMA OthersKeep ==
    ASSUME Inv, Next, \A t \in Threads : ~Run(t)
    PROVE  /\ run' \in [Threads -> RunState \cup {None}] /\ overlapped' \in BOOLEAN
           /\ FitInv' /\ OneInv' /\ ListInv' /\ LeftInv'
<1>. USE DEF Inv
<1>1. Apart  BY OthersAfter
<1>2. CASE run' = run /\ overlapped' = overlapped
  <2>1. FitInv' /\ OneInv' /\ ListInv'  BY <1>1, <1>2 DEF FitInv, OneInv, ListInv, Running, Apart
  <2>2. LeftInv'  BY <1>1, <1>2 DEF LeftInv, AheadOf, Apart
  <2>. QED  BY <1>2, <2>1, <2>2 DEF TypeOK
<1>3. ASSUME NEW t \in Threads, run[t] = None, run' = [run EXCEPT ![t] = NewRun],
             overlapped' = (overlapped \/ \E u \in Threads : run[u] # None)
      PROVE  /\ run' \in [Threads -> RunState \cup {None}] /\ overlapped' \in BOOLEAN
             /\ FitInv' /\ OneInv' /\ ListInv' /\ LeftInv'
  <2>1. /\ run' \in [Threads -> RunState \cup {None}] /\ run'[t] = NewRun
        /\ \A u \in Threads : u # t => run'[u] = run[u]
    BY <1>3, NewRunFits DEF TypeOK
  <2>2. FitInv'  BY <2>1, NewRunFits DEF FitInv, Running
  <2>3. ~overlapped' => ~overlapped /\ \A u \in Threads : u # t => run'[u] = None
    BY <1>3, <2>1
  <2>4. OneInv' /\ ListInv'
    BY <1>1, <2>1, <2>3, NewRunFits DEF OneInv, ListInv, Running, Apart
  <2>5. ASSUME NEW u \in Threads, NEW e, AheadOf(u, e) PROVE AheadOf(u, e)'
    BY <1>3, <2>1, <2>5 DEF AheadOf
  <2>6. LeftInv'  BY <1>1, <2>5 DEF LeftInv, Apart
  <2>. QED  BY <1>3, <2>1, <2>2, <2>4, <2>6
<1>. QED  BY <1>2, <1>3, OthersAfter

LEMMA NextInv == Inv /\ [Next]_vars => Inv'
<1>. SUFFICES ASSUME Inv, [Next]_vars PROVE Inv'  OBVIOUS
<1>. USE DEF Inv
<1>1. CASE UNCHANGED vars
  BY <1>1, ZenonT(30) DEF vars, task, flags, TypeOK, FitInv, OneInv, ListInv, LeftInv, AheadOf, Running
<1>2. CASE Next
  <2>1. entities' \in 1..Len(Ids)
    <3>1. ASSUME NEW t \in Threads, Run(t) PROVE entities' = entities
      BY <3>1, Zenon DEF Run, Wire, NextEntity, Build, WalkRaises, Generate, Halt, OpsRaise, Passed,
         Refine, Refused, Unverified, Extracting, Extract, NotExtracted, LookUp, List, FinishEntity,
         Check, Repair, task
    <3>2. ASSUME NEW t \in Threads, Sync(t) \/ Deliver(t) \/ StartRun(t) PROVE entities' = entities
      BY <3>2, Zenon DEF Sync, Deliver, StartRun, task
    <3>3. CASE RequestRun \/ EditEntity  BY <3>3 DEF RequestRun, EditEntity, task, TypeOK
    <3>4. CASE AddEntity  BY <3>4, IdFacts DEF AddEntity, TypeOK
    <3>. QED  BY <1>2, <3>1, <3>2, <3>3, <3>4 DEF Next, Thread, TypeOK
  <2>2. value' \in [IdSet -> Copies] /\ stack' \in [Threads -> Seq(Call)]  BY <1>2, ValuesKept
  <2>3. CASE \A t \in Threads : ~Run(t)
    <3>1. Apart  BY <1>2, <2>3, OthersAfter
    <3>2. /\ run' \in [Threads -> RunState \cup {None}] /\ overlapped' \in BOOLEAN
          /\ FitInv' /\ OneInv' /\ ListInv' /\ LeftInv'
      BY <1>2, <2>3, OthersKeep
    <3>. QED  BY <2>1, <2>2, <3>1, <3>2 DEF TypeOK, Apart
  <2>4. ASSUME NEW t \in Threads, Run(t) PROVE Inv'
    <3>1. run[t] # None
      BY <2>4, Zenon DEF Run, Wire, NextEntity, Build, WalkRaises, Generate, Halt, OpsRaise, Judged, Passed,
         Refine, Refused, Unverified, Extracting, Extract, NotExtracted, LookUp, List, FinishEntity,
         Check, Repair, At
    <3>2. PICK r \in RunState \cup {None} : After(t, r)  BY <2>4, RunAfter
    <3>3. overlapped' = overlapped
      BY <2>4, Zenon DEF Run, Wire, NextEntity, Build, WalkRaises, Generate, Halt, OpsRaise, Passed, Refine,
         Refused, Unverified, Extracting, Extract, NotExtracted, LookUp, List, FinishEntity,
         Check, Repair, flags, Ended
    <3>4. TypeOK' /\ FitInv'
      BY <2>1, <2>2, <2>4, <3>2, <3>3, RunKeepsType DEF TypeOK
    <3>5. LeftInv'  BY <3>1, <3>2, RunKeepsLeft
    <3>6. OneInv' /\ ListInv'
      <4>1. CASE overlapped  BY <3>3, <4>1 DEF OneInv, ListInv
      <4>2. CASE ~overlapped  BY <3>1, <3>2, <3>3, <4>2, RunKeepsList
      <4>. QED  BY <4>1, <4>2
    <3>. QED  BY <3>4, <3>5, <3>6
  <2>. QED  BY <2>3, <2>4
<1>. QED  BY <1>1, <1>2

LEMMA Inductive == Spec => []Inv
<1>. QED  BY InitInv, NextInv, PTL DEF Spec
-------------------------------------------------------------------------------
\* The types of the runtime's state hold in every state.
THEOREM Typed == Spec => []TypeOK
<1>1. Inv => TypeOK  BY DEF Inv
<1>. QED  BY <1>1, Inductive, PTL

\* The list of values that a generation after the first is told to avoid has all
\* that were found before, for any listeners, verifiers and clients, unless two
\* runs overlapped.
THEOREM AvoidsAllFound == Spec => []BannedIsComplete
<1>1. Inv => BannedIsComplete  BY DEF Inv, ListInv, BannedIsComplete
<1>. QED  BY <1>1, Inductive, PTL

\* When no run is left, and none ever died, every entity that a run began with
\* is done or failed, overlapping runs included.
THEOREM AllLeftFinal == Spec => []NoneLeftHalfway
<1>1. Inv => NoneLeftHalfway
  BY DEF Inv, LeftInv, NoneLeftHalfway, AheadOf, Running, Final
<1>. QED  BY <1>1, Inductive, PTL
===============================================================================
