------------------------------ MODULE ReactiveTask ----------------------------
(* The reactive runtime of reactive_entity.py and reactive_runner.py with the  *)
(* routes of server.py around it: entities whose properties emit an event when *)
(* they change, listeners that change properties in turn, a run that takes the *)
(* entities one by one through generation, a dialog with a verifier,           *)
(* extraction and the constraints across entities, and clients that edit,      *)
(* extend and run the same task meanwhile. Routes share the event loop's       *)
(* thread; a run in the background has a thread of its own.                    *)
EXTENDS Naturals, Sequences, FiniteSets

CONSTANTS
    Ids,          \* entities, in the order in which they are made
    Props,        \* properties, in the order of the entity's dict
    Values,       \* what a property may hold; Empty is the text ""
    Texts,        \* those of them that agents write; extraction finds any
    Patches,      \* what clients write: values of some properties
    Listeners,    \* by priority: [on |-> property, writes |-> property, op |-> ...]
    Loop, Workers, \* the event loop's thread and those of background runs
    None, Empty, Yes, \* Yes: any value that counts as true
    MaxDepth,     \* nested events (10 in the code)
    MaxRounds,    \* verifier turns (5 by default)
    MaxRepairs,   \* repairs of a constraint (3 by default)
    MaxRuns, MaxEdits   \* bounds

Threads == Workers \cup {Loop}
PropSet == {Props[k] : k \in DOMAIN Props}
IdSet == {Ids[k] : k \in DOMAIN Ids}

\* Where a run is, and what it has read or found out there.
Steps == {"wire", "next", "build", "ops", "verify", "extracting", "extract", "list", "append",
          "finish", "check", "repair"}
RunState == [pc : Steps, i : Nat \ {0}, of : Seq(IdSet), seen : Nat, had : SUBSET Values,
             banned : Seq(Values), copy : [PropSet -> Values] \cup {<< >>}, round : Nat,
             got : Values, repairs : Nat]

ASSUME ReactiveAssumption ==
    /\ Ids \in Seq(IdSet) \ {<< >>} /\ Props \in Seq(PropSet)
    /\ DOMAIN Listeners \subseteq Nat /\ None \notin RunState
    /\ MaxDepth \in Nat \ {0} /\ MaxRounds \in Nat \ {0} /\ MaxRepairs \in Nat
    /\ MaxRuns \in Nat /\ MaxEdits \in Nat
    /\ Loop \notin Workers /\ {Empty, Yes} \subseteq Values /\ Texts \subseteq Values
    /\ {"text", "field", "validated", "_error"} \subseteq PropSet
    /\ Patches \subseteq UNION {[S -> Values] : S \in SUBSET PropSet}

VARIABLES
    entities,  \* how many of Ids the task has
    wired,     \* entities whose events reach the bus: those of a run's start
    value,     \* [entity -> [property -> value]]
    status,    \* [entity -> EntityStatus]
    depth,     \* _propagation_depth of the task's one bus
    used,      \* the constraint list that the extractor fills; << >>: no such key
    got,       \* the values ever extracted from an entity
    stack,     \* [thread -> calls in progress: write-backs and events]
    run,       \* [thread -> the run it executes, or None]
    running,   \* _reactive_run_status["running"]
    died, overlapped,  \* ever: a run died of an exception; two ran at a time
    checked,   \* run requests that have seen the flag and await their body
    runs, edits

task == <<entities, wired, value, status, used, got>>
flags == <<running, died, overlapped, checked, runs, edits>>
vars == <<task, depth, stack, run, flags>>

Existing == {Ids[k] : k \in 1..entities}
SetOf(s) == {s[k] : k \in DOMAIN s}

Init ==
    /\ entities = 1 /\ wired = {}
    /\ value = [e \in SetOf(Ids) |-> [p \in PropSet |-> Empty]]
    /\ status = [e \in SetOf(Ids) |-> "pending"]
    /\ depth = 0 /\ used = << >> /\ got = {}
    /\ stack = [t \in Threads |-> << >>] /\ run = [t \in Threads |-> None]
    /\ running = FALSE /\ died = FALSE /\ overlapped = FALSE /\ checked = 0 /\ runs = 0 /\ edits = 0
-------------------------------------------------------------------------------
(* Properties and events.                                                      *)
Top(t) == stack[t][Len(stack[t])]
Calm(t) == stack[t] = << >>
In(t, kind) == ~Calm(t) /\ Top(t).kind = kind
Below(t) == SubSeq(stack[t], 1, Len(stack[t]) - 1)

Event(e, p, new) == [kind |-> "event", entity |-> e, prop |-> p, new |-> new, next |-> 1]
\* A write-back compares every property with what the ops left in their copy;
\* a client's edit sets some of them.
WriteBack(e, copy) == [kind |-> "sync", entity |-> e, copy |-> copy, next |-> 1]

UnderLimit == depth < MaxDepth

Heard(p) == \E k \in DOMAIN Listeners : Listeners[k].on = p
\* ReactiveProperty.set and the emit it causes, on top of the given calls: an
\* event that nobody listens to has come and gone.
SetProp(t, e, p, v, calls) ==
    /\ value' = [value EXCEPT ![e][p] = v]
    /\ IF value[e][p] # v /\ e \in wired /\ Heard(p) /\ UnderLimit
       THEN /\ depth' = depth + 1
            /\ stack' = [stack EXCEPT ![t] = Append(calls, Event(e, p, v))]
       ELSE stack' = [stack EXCEPT ![t] = calls] /\ UNCHANGED depth

\* sync_back goes through the properties in order; the next that differs is set.
Differs(f, k) == Props[k] \in DOMAIN f.copy /\ value[f.entity][Props[k]] # f.copy[Props[k]]
First(k, S) == \A j \in S : k <= j
Sync(t) ==
    /\ In(t, "sync")
    /\ LET f == Top(t)
           late == {k \in DOMAIN Props : k >= f.next /\ Differs(f, k)} IN
       \/ late = {} /\ stack' = [stack EXCEPT ![t] = Below(t)] /\ UNCHANGED <<value, depth>>
       \/ \E k \in late :
            /\ First(k, late)
            /\ SetProp(t, f.entity, Props[k], f.copy[Props[k]],
                       Append(Below(t), [f EXCEPT !.next = k + 1]))
    /\ UNCHANGED <<entities, wired, status, used, got, run, flags>>

\* What a listener's ops leave in their copy of the entity; they may raise.
Wrote(l, f) == [value[f.entity] EXCEPT ![l.writes] =
                   IF l.op = "copy" THEN f.new ELSE IF @ = Empty THEN Yes ELSE Empty]

\* The next listener whose pattern fits is called; after the last the event ends.
Deliver(t) ==
    /\ In(t, "event")
    /\ LET f == Top(t)
           fits == {k \in DOMAIN Listeners : k >= f.next /\ Listeners[k].on = f.prop} IN
       \/ fits = {} /\ stack' = [stack EXCEPT ![t] = Below(t)] /\ depth' = depth - 1
       \/ \E k \in fits :
            LET rest == Append(Below(t), [f EXCEPT !.next = k + 1]) IN
            /\ First(k, fits) /\ UNCHANGED depth
            /\ \/ stack' = [stack EXCEPT ![t] = rest]
               \/ stack' = [stack EXCEPT ![t] =
                      Append(rest, WriteBack(f.entity, Wrote(Listeners[k], f)))]
    /\ UNCHANGED <<task, run, flags>>
-------------------------------------------------------------------------------
(* A run. The model's answers are any values; a call may raise.                *)
NewRun == [pc |-> "wire", i |-> 1, of |-> << >>, seen |-> 0, had |-> {}, banned |-> << >>,
           copy |-> << >>, round |-> 1, got |-> Empty, repairs |-> 0]
At(t, pc) == run[t] # None /\ run[t].pc = pc /\ Calm(t)
This(t) == run[t].of[run[t].i]
Goes(t, r) == run' = [run EXCEPT ![t] = r]
GoTo(t, pc) == Goes(t, [run[t] EXCEPT !.pc = pc])
\* On to pc, with no more than the entities and the place among them kept.
Afresh(t, pc, i) == Goes(t, [NewRun EXCEPT !.pc = pc, !.of = run[t].of, !.i = i])
Ended(t) == run' = [run EXCEPT ![t] = None] /\ running' = FALSE

\* The thread sets the flag; every entity there is gets its dispatch function.
Wire(t) ==
    /\ At(t, "wire")
    /\ running' = TRUE /\ wired' = Existing
    /\ Goes(t, [run[t] EXCEPT !.pc = "next", !.of = SubSeq(Ids, 1, entities)])
    /\ UNCHANGED <<entities, value, status, depth, used, got, stack>>
    /\ UNCHANGED <<died, overlapped, checked, runs, edits>>

\* The next entity; its layers are built while the task's entities are walked.
NextEntity(t) ==
    /\ At(t, "next")
    /\ IF run[t].i > Len(run[t].of) THEN GoTo(t, "check") /\ UNCHANGED status
       ELSE /\ status' = [status EXCEPT ![This(t)] = "generating"]
            /\ Goes(t, [run[t] EXCEPT !.pc = "build", !.seen = entities])
    /\ UNCHANGED <<entities, wired, value, used, got, depth, stack, flags>>

\* The values to avoid and the copy to work on are taken. The first entity is
\* given the layers of the task alone, without the list.
Build(t) ==
    /\ At(t, "build")
    /\ Goes(t, [run[t] EXCEPT !.pc = "ops", !.copy = value[This(t)], !.had = got,
                              !.banned = IF run[t].i = 1 THEN << >> ELSE used])
    /\ UNCHANGED <<task, depth, stack, flags>>

\* An entity added while a dict of entities is walked ends the whole run.
WalkRaises(t) ==
    /\ At(t, "build") \/ At(t, "repair")
    /\ run[t].seen # entities
    /\ Ended(t) /\ died' = TRUE
    /\ UNCHANGED <<task, depth, stack, overlapped, checked, runs, edits>>

Entity(t, s) == status' = [status EXCEPT ![This(t)] = s]
NextOne(t) == Afresh(t, "next", run[t].i + 1)

\* The pipeline generates into the copy; then the copy is written back.
Generate(t) == \E v \in Texts \ {Empty} :
    /\ At(t, "ops")
    /\ stack' = [stack EXCEPT ![t] = <<WriteBack(This(t), [run[t].copy EXCEPT !["text"] = v])>>]
    /\ Afresh(t, "verify", run[t].i)
    /\ UNCHANGED <<task, depth, flags>>

\* Halted: the copy as it stands is written back and the entity is done.
Halt(t) ==
    /\ At(t, "ops")
    /\ stack' = [stack EXCEPT ![t] = <<WriteBack(This(t), run[t].copy)>>]
    /\ Afresh(t, "finish", run[t].i)
    /\ UNCHANGED <<task, depth, flags>>

\* Faulty: the entity stays as it was when the pipeline raised.
LeftAsItIs(t) == UNCHANGED status
\* An exception of the pipeline fails this entity only, and is kept with it.
Failed(t) == Entity(t, "failed")
OpsRaise(t) ==
    /\ At(t, "ops") /\ Failed(t) /\ NextOne(t)
    /\ SetProp(t, This(t), "_error", Yes, << >>)
    /\ UNCHANGED <<entities, wired, used, got, flags>>

\* The dialog needs a text; no verifier at all counts as a pass.
Judged(t) == At(t, "verify") /\ (run[t].round > 1 \/ value[This(t)]["text"] # Empty)
Passed(t) ==
    /\ Judged(t)
    /\ SetProp(t, This(t), "validated", Yes, << >>)
    /\ Afresh(t, "extracting", run[t].i)
    /\ UNCHANGED <<entities, wired, status, used, got, flags>>

\* Refused: the text is written again and judged again.
Refine(t) == \E v \in Texts :
    /\ Judged(t) /\ run[t].round < MaxRounds
    /\ SetProp(t, This(t), "text", v, << >>)
    /\ Goes(t, [run[t] EXCEPT !.round = @ + 1])
    /\ UNCHANGED <<entities, wired, status, used, got, flags>>

\* Refused in the last round, or with nobody to write again.
Refused(t) ==
    /\ Judged(t)
    /\ SetProp(t, This(t), "validated", Empty, << >>)
    /\ Afresh(t, "extracting", run[t].i)
    /\ UNCHANGED <<entities, wired, status, used, got, flags>>

\* Nothing is judged: no dialog configured, no text, or an agent raised.
Unverified(t) ==
    /\ At(t, "verify") /\ Afresh(t, "extracting", run[t].i)
    /\ UNCHANGED <<task, depth, stack, flags>>

Extracting(t) ==
    /\ At(t, "extracting") /\ Entity(t, "extracting") /\ GoTo(t, "extract")
    /\ UNCHANGED <<entities, wired, value, used, got, depth, stack, flags>>

Extract(t) == \E v \in Values :
    /\ At(t, "extract") /\ value[This(t)]["text"] # Empty
    /\ SetProp(t, This(t), "field", v, << >>)
    /\ Goes(t, [run[t] EXCEPT !.pc = IF v = Empty THEN "finish" ELSE "list", !.got = v])
    /\ UNCHANGED <<entities, wired, status, used, got, flags>>

\* No text, no agent, or the agent raised.
NotExtracted(t) ==
    /\ At(t, "extract") /\ GoTo(t, "finish")
    /\ UNCHANGED <<task, depth, stack, flags>>

\* The list of the task, or a new one where there is none yet, is looked up ...
LookUp(t) ==
    /\ At(t, "list")
    /\ Goes(t, [run[t] EXCEPT !.pc = "append", !.seen = Len(used)])
    /\ UNCHANGED <<task, depth, stack, flags>>

\* Faulty: a new list is filled, and never made the task's.
NotKept(t) == used
\* ... the value joins it, once, and the list is the task's.
Listed(t) ==
    IF run[t].seen = 0 THEN <<run[t].got>>
    ELSE IF run[t].got \in SetOf(used) THEN used ELSE Append(used, run[t].got)
List(t) ==
    /\ At(t, "append")
    /\ used' = Listed(t)
    /\ got' = got \cup {run[t].got}
    /\ Afresh(t, "finish", run[t].i)
    /\ UNCHANGED <<entities, wired, value, status, depth, stack, flags>>

FinishEntity(t) ==
    /\ At(t, "finish") /\ Entity(t, "done") /\ NextOne(t)
    /\ UNCHANGED <<entities, wired, value, used, got, depth, stack, flags>>

\* The constraint across entities: no two have the same field.
Unique == \A e, x \in Existing :
    value[e]["field"] = value[x]["field"] /\ value[e]["field"] # Empty => e = x

\* Faulty: attempts are not counted.
SameAttempt(r) == r.repairs
NextAttempt(r) == r.repairs + 1

\* It passes, or the entities are repaired and it is checked again, a few times.
Check(t) ==
    /\ At(t, "check")
    /\ IF Unique \/ run[t].repairs = MaxRepairs
       THEN Ended(t)
       ELSE /\ Goes(t, [run[t] EXCEPT !.pc = "repair", !.i = 1, !.seen = entities,
                                      !.repairs = NextAttempt(run[t])])
            /\ UNCHANGED running
    /\ UNCHANGED <<task, depth, stack, died, overlapped, checked, runs, edits>>

\* The next of the task's entities is repaired, or its repair raises.
Repair(t) ==
    /\ At(t, "repair") /\ run[t].seen = entities
    /\ IF run[t].i > entities THEN GoTo(t, "check") /\ UNCHANGED stack
       ELSE LET e == Ids[run[t].i] IN
            /\ \/ \E v \in Texts : stack' = [stack EXCEPT ![t] =
                      <<WriteBack(e, [value[e] EXCEPT !["field"] = v])>>]
               \/ UNCHANGED stack
            /\ Goes(t, [run[t] EXCEPT !.i = @ + 1])
    /\ UNCHANGED <<task, depth, flags>>

Run(t) ==
    \/ Wire(t) \/ NextEntity(t) \/ Build(t) \/ WalkRaises(t)
    \/ Generate(t) \/ Halt(t) \/ OpsRaise(t)
    \/ Passed(t) \/ Refine(t) \/ Refused(t) \/ Unverified(t)
    \/ Extracting(t) \/ Extract(t) \/ NotExtracted(t) \/ LookUp(t) \/ List(t)
    \/ FinishEntity(t) \/ Check(t) \/ Repair(t)
-------------------------------------------------------------------------------
(* Routes: each holds the event loop until it returns or awaits.               *)
LoopFree == run[Loop] = None /\ Calm(Loop)

\* The flag is read before the body is awaited: a request seen free stays so.
RequestRun ==
    /\ LoopFree /\ ~running /\ runs < MaxRuns
    /\ runs' = runs + 1 /\ checked' = checked + 1
    /\ UNCHANGED <<task, depth, stack, run, running, died, overlapped, edits>>

\* With the body there, the run is started here or in a thread of its own.
StartRun(t) ==
    /\ LoopFree /\ checked > 0 /\ run[t] = None
    /\ checked' = checked - 1
    /\ overlapped' = (overlapped \/ \E u \in Threads : run[u] # None)
    /\ Goes(t, NewRun)
    /\ UNCHANGED <<task, depth, stack, running, died, runs, edits>>

\* A client sets properties of an entity, one after the other: the events of
\* each are over, on the loop's thread, before the next is set.
EditEntity == \E e \in Existing, patch \in Patches :
    /\ LoopFree /\ edits < MaxEdits /\ edits' = edits + 1
    /\ stack' = [stack EXCEPT ![Loop] = <<WriteBack(e, patch)>>]
    /\ UNCHANGED <<task, depth, run, running, died, overlapped, checked, runs>>

\* The next entity of the conversation joins the task.
AddEntity ==
    /\ LoopFree /\ entities < Len(Ids)
    /\ entities' = entities + 1
    /\ UNCHANGED <<wired, value, status, used, got, depth, stack, run, flags>>
-------------------------------------------------------------------------------
Thread(t) == Sync(t) \/ Deliver(t) \/ Run(t)
Next ==
    \/ \E t \in Threads : Thread(t) \/ StartRun(t)
    \/ RequestRun \/ EditEntity \/ AddEntity

Spec == Init /\ [][Next]_vars /\ \A t \in Threads : WF_vars(Thread(t))
-------------------------------------------------------------------------------
Running == {t \in Threads : run[t] # None}

\* The list that every generation but the first is told to avoid has every value
\* that any entity was found to have before, as long as no two runs overlap.
BannedIsComplete == ~overlapped =>
    \A t \in Running : run[t].pc = "ops" /\ run[t].i > 1 =>
        run[t].had \subseteq SetOf(run[t].banned)

\* Every run comes to an end, whatever the verifier and the listeners answer and
\* however often the constraint fails; so does every edit.
Quiet == \A t \in Threads : run[t] = None /\ Calm(t)
Settles == ~Quiet ~> Quiet

\* When no run is in progress, every entity that the last one began with is done
\* or failed, whether its pipeline raised, halted or was refused: none is left
\* between, unless a run died.
NoneLeftHalfway == Running = {} /\ ~died =>
    \A e \in wired : status[e] \in {"done", "failed"}
===============================================================================
