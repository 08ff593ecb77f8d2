------------------------------ MODULE WorkflowRun ------------------------------
(* workflow_dsl.py and the /api/workflow routes: a workflow of steps runs in a *)
(* thread of its own, with more threads for a parallel block, while a client   *)
(* polls its progress; then a trigger of the workflow may run on the variables *)
(* the client sends back. Steps of an atomic block and of a macro run in a     *)
(* child context; an atomic DSL text has loops and watchers of variables.      *)
EXTENDS Integers, Sequences, FiniteSets

CONSTANTS
    Workflows,  \* [flow, trigger, input, refused]: see Init
    Vars,       \* the variables of a context, in any order; "input" is one
    Fields,     \* fields of an object (an entity, a chat)
    Branches    \* threads for the branches of parallel blocks

\* Lists have at most two items (Rows, Part), so that copies have two places each.
ASSUME WorkflowRunAssumption == Len(Vars) > 0 /\ "main" \notin Branches

VARIABLES
    workflow,
    stack,   \* per thread: what it is doing, innermost last
    pending, \* per thread: the effects of its step that are still to come
    ctx,     \* the contexts: variables
    heap,    \* the objects: entities and chats, shared by reference
    calls,   \* history: how often each call was made
    run,     \* _workflow_runs: [status, thread, vars]
    client   \* [phase, cursor, got]

vars == <<workflow, stack, pending, ctx, heap, calls, run, client>>
data == <<ctx, heap>>
outside == <<workflow, client>>
Main == "main"
Threads == {Main} \cup Branches
Names == {Vars[i] : i \in DOMAIN Vars}

-------------------------------------------------------------------------------
(* Values: texts, answers of a call, lists, objects.                           *)
Nothing == <<"nothing">>
Text(x) == <<"text", x>>
Answer(label, prompt) == <<"answer", label, prompt>>
List(s) == <<"list", s>>
Object(n) == <<"object", n>>
Tag(v) == v[1]
Blank == [f \in Fields |-> Nothing]
Empty == [x \in Names |-> Nothing]

\* An expression is a text or a reference, <<variable>> or <<variable, field>>.
Get(env, mem, ref) ==
    LET v == env[ref[1]] IN
    IF Len(ref) = 1 THEN v ELSE IF Tag(v) = "object" THEN mem[v[2]][ref[2]] ELSE Nothing
Eval(env, mem, e) == IF e[1] = "text" THEN e ELSE Get(env, mem, e)
\* In a prompt a chat stands for what its user message says.
Spoken(env, mem, e) ==
    LET v == Eval(env, mem, e) IN IF Tag(v) = "object" THEN mem[v[2]]["user"] ELSE v

\* ctx.set: a field makes its variable an object, and changes it in place.
SetVar(env, mem, ref, v) ==
    LET old == env[ref[1]]
        fresh == [Blank EXCEPT !["_value"] = old, ![ref[2]] = v]
    IN  IF Len(ref) = 1 THEN [env |-> [env EXCEPT ![ref[1]] = v], mem |-> mem]
        ELSE IF Tag(old) = "object" THEN [env |-> env, mem |-> [mem EXCEPT ![old[2]][ref[2]] = v]]
        ELSE [env |-> [env EXCEPT ![ref[1]] = Object(Len(mem) + 1)], mem |-> Append(mem, fresh)]

\* parse_table: two rows of what an answer says, as objects.
Rows(mem, v) ==
    IF Tag(v) # "answer" THEN [value |-> List(<< >>), mem |-> mem]
    ELSE [value |-> List(<<Object(Len(mem) + 1), Object(Len(mem) + 2)>>),
          mem |-> mem \o [k \in 1..2 |-> [Blank EXCEPT !["title"] = <<"row", k, v>>]]]
\* parse_claims: entities, axioms, hypotheses.
Part(v, k) == IF Tag(v) = "answer" THEN List(<<<<"part", k, v>>>>) ELSE List(<< >>)
Truthy(v) == v \notin {Nothing, List(<< >>), Text("no")}

\* set_text and append_text change a chat in place, or make one.
Said(mem, v, text, more) ==
    IF Tag(v) # "object"
    THEN [value |-> Object(Len(mem) + 1), mem |-> Append(mem, [Blank EXCEPT !["user"] = text])]
    ELSE [value |-> v,
          mem |-> [mem EXCEPT ![v[2]]["user"] =
                       IF more /\ @ # Nothing THEN <<"append", @, text>> ELSE text]]

-------------------------------------------------------------------------------
(* What a thread is doing. A frame is one call of the interpreter: steps       *)
(* (execute_steps, or execute_step if it has no handler), for, nested (atomic, *)
(* use_macro), dsl, loop, block (in_parallel), asked (llm_call), verify. A     *)
(* frame moves on to its next step before it works on this one.                *)
Top(t) == stack[t][Len(stack[t])]
Below(t) == SubSeq(stack[t], 1, Len(stack[t]) - 1)
In(t, kind) == stack[t] # << >> /\ Top(t).kind = kind /\ pending[t] = << >>
Put(t, frame) == Append(Below(t), frame)
Steps(code, c, handler) == [kind |-> "steps", code |-> code, ip |-> 1, ctx |-> c, handler |-> handler]
Dsl(code, c) == [kind |-> "dsl", code |-> code, ip |-> 1, ctx |-> c, watch |-> << >>,
                 flush |-> FALSE, at |-> 1, fired |-> FALSE, passes |-> 0]
Env(t) == ctx[Top(t).ctx]
Value(t, e) == Eval(Env(t), heap, e)
Step(t) == Top(t).code[Top(t).ip]
Due(t, op) == /\ In(t, "steps") \/ (In(t, "dsl") /\ ~Top(t).flush)
              /\ Top(t).ip <= Len(Top(t).code) /\ Step(t).op = op
\* After a statement of the DSL its watchers are looked at.
Moved(frame) == IF frame.kind = "steps" THEN [frame EXCEPT !.ip = @ + 1]
                ELSE [frame EXCEPT !.ip = @ + 1, !.flush = TRUE, !.at = 1, !.fired = FALSE, !.passes = 1]
After(t) == Put(t, Moved(Top(t)))

To(t, frames) == stack' = [stack EXCEPT ![t] = frames]
Say(item) == run' = [run EXCEPT !.thread = Append(@, item)]
Silent == UNCHANGED run
Write(t, ref, v) == [does |-> "write", ctx |-> Top(t).ctx, ref |-> ref, value |-> v]
Report(item) == [does |-> "report", item |-> item]
Later(t, effects) == pending' = [pending EXCEPT ![t] = effects]

\* An exception ends at the nearest handler, which goes on with the next step. In a
\* branch the block keeps it; in a trigger that is one step it ends the run.
Handlers(t) == {j \in DOMAIN stack[t] : stack[t][j].kind = "steps" /\ stack[t][j].handler}
\* Faulty: the outermost handler takes it.
Outermost(t, j) == \A i \in Handlers(t) : j <= i
Nearest(t, j) == \A i \in Handlers(t) : i <= j
Failed == [kind |-> "failed"]
Ended == [kind |-> "ended"]
Raise(t) ==
    \/ Handlers(t) = {} /\ To(t, <<Failed>>) /\ Silent
    \/ \E j \in Handlers(t) :
          Nearest(t, j) /\ To(t, SubSeq(stack[t], 1, j)) /\ Say(<<"step-error", t>>)

-------------------------------------------------------------------------------
(* Steps that evaluate and then store.                                         *)
Effect(t) ==
    /\ pending[t] # << >>
    /\ LET e == Head(pending[t]) IN
       IF e.does = "report" THEN Say(e.item) /\ UNCHANGED data
       ELSE LET r == SetVar(ctx[e.ctx], heap, e.ref, e.value) IN
            ctx' = [ctx EXCEPT ![e.ctx] = r.env] /\ heap' = r.mem /\ Silent
    /\ Later(t, Tail(pending[t]))
    /\ UNCHANGED <<outside, stack, calls>>

Set(t) ==
    /\ Due(t, "set")
    /\ Later(t, <<Write(t, Step(t).to, Value(t, Step(t).from))>>)
    /\ To(t, After(t)) /\ Silent /\ UNCHANGED <<outside, data, calls>>

ParseClaims(t) ==
    /\ Due(t, "parse_claims")
    /\ LET v == Value(t, Step(t).from) IN
       Later(t, [k \in 1..3 |-> Write(t, Step(t).to[k], Part(v, k))] \o <<Report(<<"parsed", t>>)>>)
    /\ To(t, After(t)) /\ Silent /\ UNCHANGED <<outside, data, calls>>

ParseTable(t) ==
    /\ Due(t, "parse_table")
    /\ LET r == Rows(heap, Value(t, Step(t).from)) IN
       heap' = r.mem /\ Later(t, <<Write(t, Step(t).to, r.value), Report(<<"parsed", t>>)>>)
    /\ To(t, After(t)) /\ Silent /\ UNCHANGED <<outside, ctx, calls>>

ChatSet(t) ==
    /\ Due(t, "set_text")
    /\ LET r == Said(heap, Value(t, Step(t).to), Value(t, Step(t).from), Step(t).more) IN
       heap' = r.mem /\ Later(t, <<Write(t, Step(t).to, r.value)>>)
    /\ To(t, After(t)) /\ Silent /\ UNCHANGED <<outside, ctx, calls>>

-------------------------------------------------------------------------------
(* Calls of a model, and of ComfyUI, which reports its own errors.             *)
Refused(label) == <<label, calls[label] + 1>> \in workflow.refused
Count(label) == calls' = [calls EXCEPT ![label] = @ + 1]

Ask(t) ==
    /\ Due(t, "call")
    /\ LET s == Step(t) IN
       To(t, Append(After(t), [kind |-> "asked", ctx |-> Top(t).ctx, label |-> s.label, to |-> s.to,
                               prompt |-> Spoken(Env(t), heap, s.from)]))
    /\ Silent /\ UNCHANGED <<outside, data, calls, pending>>

Respond(t) ==
    /\ In(t, "asked") /\ Count(Top(t).label)
    /\ IF Refused(Top(t).label) THEN Raise(t) /\ UNCHANGED pending
       ELSE /\ Say(<<"worker", Top(t).label>>)
            /\ Later(t, <<Write(t, Top(t).to, Answer(Top(t).label, Top(t).prompt))>>)
            /\ To(t, Below(t))
    /\ UNCHANGED <<outside, data>>

ComfyUI(t) ==
    /\ Due(t, "comfyui") /\ Count(Step(t).label)
    /\ IF Refused(Step(t).label) THEN Say(<<"error", Step(t).label>>) /\ UNCHANGED pending
       ELSE /\ Say(<<"image", Step(t).label>>)
            /\ Later(t, <<Write(t, Step(t).to, Answer(Step(t).label, Spoken(Env(t), heap, Step(t).from)))>>)
    /\ To(t, After(t)) /\ UNCHANGED <<outside, data>>

\* verify_axioms: one request per item, and one summary.
Verify(t) ==
    /\ Due(t, "verify")
    /\ LET v == Value(t, Step(t).from) IN
       IF Tag(v) # "list" \/ v = List(<< >>) THEN Say(<<"nothing to verify", t>>) /\ To(t, After(t))
       ELSE Silent /\ To(t, Append(After(t), [kind |-> "verify", left |-> Len(v[2]), label |-> Step(t).label]))
    /\ UNCHANGED <<outside, data, calls, pending>>

VerifyItem(t) ==
    /\ In(t, "verify") /\ Count(Top(t).label)
    /\ IF Refused(Top(t).label) THEN Raise(t)
       ELSE IF Top(t).left = 1 THEN To(t, Below(t)) /\ Say(<<"verified", Top(t).label>>)
       ELSE To(t, Put(t, [Top(t) EXCEPT !.left = @ - 1])) /\ Silent
    /\ UNCHANGED <<outside, data, pending>>

-------------------------------------------------------------------------------
(* Steps that run other steps.                                                 *)
For(t) ==
    /\ Due(t, "for")
    /\ LET v == Value(t, Step(t).from) IN
       IF Tag(v) # "list" \/ v = List(<< >>) THEN Say(<<"nothing to iterate", t>>) /\ To(t, After(t))
       ELSE /\ Silent
            /\ To(t, Append(After(t), [kind |-> "for", items |-> v[2], var |-> Step(t).to,
                                        body |-> Step(t).body, ctx |-> Top(t).ctx]))
    /\ UNCHANGED <<outside, data, calls, pending>>

ForItem(t) ==
    /\ In(t, "for") /\ Top(t).items # << >>
    /\ Later(t, <<Write(t, Top(t).var, Head(Top(t).items))>>)
    /\ To(t, Append(Put(t, [Top(t) EXCEPT !.items = Tail(@)]), Steps(Top(t).body, Top(t).ctx, TRUE)))
    /\ Silent /\ UNCHANGED <<outside, data, calls>>

\* in_parallel: a thread for each step, all in this context. Branches bounds them.
Idle == {t \in Branches : stack[t] = << >>}
Seatings(n) == {k \in [1..n -> Idle] : \A i, j \in 1..n : k[i] = k[j] => i = j}
Parallel(t) ==
    /\ Due(t, "in_parallel") /\ Seatings(Len(Step(t).branches)) # {}
    /\ LET kids == CHOOSE k \in Seatings(Len(Step(t).branches)) : TRUE
           Of(b) == CHOOSE i \in DOMAIN kids : kids[i] = b
           started == {kids[i] : i \in DOMAIN kids}
       IN  stack' = [b \in Threads |->
                IF b = t THEN Append(After(t), [kind |-> "block", kids |-> started])
                ELSE IF b \in started THEN <<Steps(<<Step(t).branches[Of(b)]>>, Top(t).ctx, FALSE)>>
                ELSE stack[b]]
    /\ Silent /\ UNCHANGED <<outside, data, calls, pending>>

Over(t) == stack[t] \in {<<Ended>>, <<Failed>>}
\* Faulty: the block goes on as soon as one branch is over.
FirstOver(kids) == \E b \in kids : Over(b)
\* Faulty: it waits for branches that succeed.
AllWell(kids) == \A b \in kids : stack[b] = <<Ended>>
AllOver(kids) == \A b \in kids : Over(b)

\* wait(futures), then result() of each: the first failure is raised here.
Join(t) ==
    /\ In(t, "block") /\ AllOver(Top(t).kids)
    /\ LET kids == Top(t).kids
           failed == \E b \in kids : stack[b] = <<Failed>>
           GoOn(frames) == stack' = [b \in Threads |->
                IF b = t THEN frames ELSE IF b \in kids /\ Over(b) THEN << >> ELSE stack[b]]
       IN  \/ ~failed /\ GoOn(Below(t)) /\ Silent
           \/ failed /\ Handlers(t) = {} /\ GoOn(<<Failed>>) /\ Silent
           \/ failed /\ \E j \in Handlers(t) :
                 Nearest(t, j) /\ GoOn(SubSeq(stack[t], 1, j)) /\ Say(<<"step-error", t>>)
    /\ UNCHANGED <<outside, data, calls, pending>>

(* atomic and use_macro: bind into a child context, run, export.               *)
Nested(t) ==
    /\ Due(t, "nested")
    /\ IF Step(t).body = << >> THEN Say(<<"nothing to run", t>>) /\ To(t, After(t)) /\ UNCHANGED ctx
       ELSE /\ Silent /\ ctx' = Append(ctx, Empty)
            /\ To(t, Append(After(t), [kind |-> "nested", ctx |-> Top(t).ctx, child |-> Len(ctx) + 1,
                                        bind |-> Step(t).bind, body |-> Step(t).body, dsl |-> Step(t).dsl,
                                        export |-> Step(t).export, entered |-> FALSE]))
    /\ UNCHANGED <<outside, heap, calls, pending>>

Bind(t) ==
    /\ In(t, "nested") /\ Top(t).bind # << >>
    /\ LET b == Head(Top(t).bind) IN ctx' = [ctx EXCEPT ![Top(t).child][b[1]] = Value(t, b[2])]
    /\ To(t, Put(t, [Top(t) EXCEPT !.bind = Tail(@)]))
    /\ Silent /\ UNCHANGED <<outside, heap, calls, pending>>

Enter(t) ==
    /\ In(t, "nested") /\ Top(t).bind = << >> /\ ~Top(t).entered
    /\ LET f == Top(t) IN
       To(t, Append(Put(t, [f EXCEPT !.entered = TRUE]),
                    IF f.dsl THEN Dsl(f.body, f.child) ELSE Steps(f.body, f.child, TRUE)))
    /\ Say(<<"nested", t>>) /\ UNCHANGED <<outside, data, calls, pending>>

Export(t) ==
    /\ In(t, "nested") /\ Top(t).entered /\ Top(t).export # << >>
    /\ LET e == Head(Top(t).export) IN
       Later(t, <<Write(t, e[1], Get(ctx[Top(t).child], heap, e[2]))>>)
    /\ To(t, Put(t, [Top(t) EXCEPT !.export = Tail(@)]))
    /\ Silent /\ UNCHANGED <<outside, data, calls>>

-------------------------------------------------------------------------------
(* _run_atomic_dsl: loops, and watchers that run once, when all is there.      *)
Loop(t) ==
    /\ Due(t, "loop")
    /\ To(t, Append(After(t), [kind |-> "loop", while |-> Step(t).while, max |-> Step(t).max,
                               body |-> Step(t).body, n |-> 0, ctx |-> Top(t).ctx]))
    /\ Silent /\ UNCHANGED <<outside, data, calls, pending>>

LoopTest(t) ==
    /\ In(t, "loop")
    /\ LET f == Top(t) IN
       IF ~Truthy(Value(t, f.while)) THEN To(t, Below(t)) /\ Silent
       ELSE IF f.n >= f.max THEN Raise(t)
       ELSE To(t, Append(Put(t, [f EXCEPT !.n = @ + 1]), Dsl(f.body, f.ctx))) /\ Silent
    /\ UNCHANGED <<outside, data, calls, pending>>

On(t) ==
    /\ Due(t, "on")
    /\ LET w == [deps |-> Step(t).deps, action |-> Step(t).action, fired |-> FALSE] IN
       To(t, Put(t, [Moved(Top(t)) EXCEPT !.watch = Append(@, w)]))
    /\ Silent /\ UNCHANGED <<outside, data, calls, pending>>

CanFire(frame, k) == /\ ~frame.watch[k].fired
                     /\ \A x \in frame.watch[k].deps : ctx[frame.ctx][x] # Nothing
Ready(frame) == {k \in DOMAIN frame.watch : k >= frame.at /\ CanFire(frame, k)}
Again(frame) == frame.fired /\ frame.passes < 4 * Len(frame.watch) + 4

Flush(t) ==
    /\ In(t, "dsl") /\ Top(t).flush
    /\ LET f == Top(t) IN
       IF Ready(f) # {}
       THEN LET k == CHOOSE k \in Ready(f) : \A j \in Ready(f) : k <= j IN
            To(t, Append(Put(t, [f EXCEPT !.watch[k].fired = TRUE, !.at = k + 1, !.fired = TRUE]),
                         Dsl(f.watch[k].action, f.ctx)))
       ELSE IF Again(f) THEN To(t, Put(t, [f EXCEPT !.at = 1, !.fired = FALSE, !.passes = @ + 1]))
       ELSE To(t, Put(t, [f EXCEPT !.flush = FALSE]))
    /\ Silent /\ UNCHANGED <<outside, data, calls, pending>>

\* A frame that has nothing left to do.
Finished(t) ==
    \/ In(t, "steps") /\ Top(t).ip > Len(Top(t).code)
    \/ In(t, "dsl") /\ ~Top(t).flush /\ Top(t).ip > Len(Top(t).code)
    \/ In(t, "for") /\ Top(t).items = << >>
    \/ In(t, "nested") /\ Top(t).entered /\ Top(t).export = << >>
Leave(t) ==
    /\ Finished(t)
    /\ To(t, IF Len(stack[t]) = 1 THEN <<Ended>> ELSE Below(t))
    /\ Silent /\ UNCHANGED <<outside, data, calls, pending>>

-------------------------------------------------------------------------------
(* The routes. The client polls, one request at a time.                        *)
Finish ==
    /\ Over(Main) /\ run.status = "running"
    /\ run' = IF stack[Main] = <<Ended>> THEN [run EXCEPT !.status = "done", !.vars = ctx[1]]
              ELSE [run EXCEPT !.status = "error"]
    /\ UNCHANGED <<outside, data, stack, pending, calls>>

Fresh == [status |-> "running", thread |-> << >>, vars |-> Empty]
\* The variables travel as JSON: every one comes back with objects of its own.
Copy(v, id) == IF Tag(v) = "object" THEN Object(id) ELSE v
Original(v, k) == IF Tag(v) # "list" THEN v ELSE IF k <= Len(v[2]) THEN v[2][k] ELSE Nothing
Sent(env, mem) ==
    [env |-> [x \in Names |->
        LET v == env[x]
            i == CHOOSE i \in DOMAIN Vars : Vars[i] = x
        IN  IF Tag(v) = "list" THEN List([k \in DOMAIN v[2] |-> Copy(v[2][k], 2 * (i - 1) + k)])
            ELSE Copy(v, 2 * i - 1)],
     mem |-> [id \in 1..(2 * Len(Vars)) |->
        LET v == Original(env[Vars[(id + 1) \div 2]], 2 - (id % 2))
        IN  IF Tag(v) = "object" THEN mem[v[2]] ELSE Blank]]

Poll ==
    /\ client.phase \in {"polling", "triggered"}
    /\ client' = [phase |-> IF run.status = "running" THEN client.phase
                            ELSE IF client.phase = "triggered" \/ run.status = "error" THEN "end" ELSE "shown",
                  cursor |-> Len(run.thread),
                  got |-> client.got \o SubSeq(run.thread, client.cursor + 1, Len(run.thread))]
    /\ UNCHANGED <<workflow, data, stack, pending, calls, run>>

\* run_trigger: a list of steps, or one step without a handler.
Trigger ==
    /\ client.phase = "shown"
    /\ IF workflow.trigger = << >> THEN client' = [client EXCEPT !.phase = "end"] /\ UNCHANGED <<data, stack, run>>
       ELSE LET sent == Sent(run.vars, heap) IN
            /\ client' = [phase |-> "triggered", cursor |-> 0, got |-> << >>]
            /\ run' = Fresh /\ ctx' = <<sent.env>> /\ heap' = sent.mem
            /\ stack' = [stack EXCEPT ![Main] = <<Steps(workflow.trigger, 1, ~workflow.single)>>]
    /\ UNCHANGED <<workflow, pending, calls>>

Init ==
    /\ workflow \in Workflows
    /\ stack = [t \in Threads |-> IF t = Main THEN <<Steps(workflow.flow, 1, TRUE)>> ELSE << >>]
    /\ pending = [t \in Threads |-> << >>]
    /\ ctx = <<[Empty EXCEPT !["input"] = Text("input")]>> /\ heap = << >>
    /\ calls = [l \in workflow.labels |-> 0]
    /\ run = Fresh /\ client = [phase |-> "polling", cursor |-> 0, got |-> << >>]

Thread(t) ==
    \/ Effect(t) \/ Set(t) \/ ParseClaims(t) \/ ParseTable(t) \/ ChatSet(t)
    \/ Ask(t) \/ Respond(t) \/ ComfyUI(t) \/ Verify(t) \/ VerifyItem(t)
    \/ For(t) \/ ForItem(t) \/ Parallel(t) \/ Join(t)
    \/ Nested(t) \/ Bind(t) \/ Enter(t) \/ Export(t)
    \/ Loop(t) \/ LoopTest(t) \/ On(t) \/ Flush(t) \/ Leave(t)
Client == Poll \/ Trigger
Next == (\E t \in Threads : Thread(t)) \/ Finish \/ Client

Spec == Init /\ [][Next]_vars
FairSpec == Spec /\ WF_vars(Finish) /\ WF_vars(Client) /\ \A t \in Threads : WF_vars(Thread(t))

-------------------------------------------------------------------------------
\* No poll misses or repeats a report, whenever it comes: the client has what the
\* thread had when it asked, and all of it once it has seen that the run is over, also
\* from branches of a parallel block (_workflow_run_snapshot, get_workflow_progress).
ProgressComplete ==
    /\ client.got = SubSeq(run.thread, 1, client.cursor)
    /\ client.phase \in {"shown", "end"} => client.got = run.thread

\* Every run ends for its client, whichever calls are refused, in a branch or not.
RunEnds == <>(client.phase = "end")
===============================================================================
