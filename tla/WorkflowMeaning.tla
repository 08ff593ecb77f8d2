---------------------------- MODULE WorkflowMeaning ----------------------------
(* What a workflow means: its steps one after the other, each as one function  *)
(* from a state to a state, the branches of a parallel block in their order.   *)
(* The threads, frames and effects of WorkflowRun are compared with it.        *)
EXTENDS WorkflowRun

(* A state is [env, mem, calls, ok]; ok: no exception is on its way.           *)
Put1(st, ref, v) == LET r == SetVar(st.env, st.mem, ref, v) IN [st EXCEPT !.env = r.env, !.mem = r.mem]
Called(st, label) == [st EXCEPT !.calls[label] = @ + 1,
                                !.ok = <<label, st.calls[label] + 1>> \notin workflow.refused]

RECURSIVE Run(_, _, _), RunStep(_, _), RunDsl(_, _, _, _), Fire(_, _, _), Repeat(_, _, _)
RECURSIVE Each(_, _, _), AskEach(_, _, _), PutAll(_, _, _, _), All(_, _, _)

\* execute_steps: a step that fails is left, and the next one taken.
Run(st, code, i) ==
    IF i > Len(code) THEN st ELSE Run([RunStep(st, code[i]) EXCEPT !.ok = TRUE], code, i + 1)

Each(st, s, items) ==
    IF items = << >> THEN st ELSE Each(Run(Put1(st, s.to, Head(items)), s.body, 1), s, Tail(items))

AskEach(st, label, n) == IF n = 0 \/ ~st.ok THEN st ELSE AskEach(Called(st, label), label, n - 1)

\* Every branch runs; the block fails if one did.
All(st, branches, i) ==
    IF i > Len(branches) THEN st
    ELSE LET r == RunStep([st EXCEPT !.ok = TRUE], branches[i]) IN
         All([r EXCEPT !.ok = r.ok /\ st.ok], branches, i + 1)

PutAll(st, from, export, i) ==
    IF i > Len(export) THEN st
    ELSE PutAll(Put1(st, export[i][1], Get(from, st.mem, export[i][2])), from, export, i + 1)

RunNested(st, s) ==
    LET bound == [x \in Names |-> IF \E i \in DOMAIN s.bind : s.bind[i][1] = x
                                 THEN Eval(st.env, st.mem, s.bind[CHOOSE i \in DOMAIN s.bind : s.bind[i][1] = x][2])
                                 ELSE Nothing]
        inner == [st EXCEPT !.env = bound]
        r == IF s.dsl THEN RunDsl(inner, s.body, 1, << >>) ELSE Run(inner, s.body, 1)
    IN  IF ~r.ok THEN [r EXCEPT !.env = st.env]
        ELSE PutAll([r EXCEPT !.env = st.env], r.env, s.export, 1)

RunStep(st, s) ==
    LET v == Eval(st.env, st.mem, s.from)
        asked == Called(st, s.label)
    IN CASE s.op = "set" -> Put1(st, s.to, v)
         [] s.op = "parse_claims" ->
              Put1(Put1(Put1(st, s.to[1], Part(v, 1)), s.to[2], Part(v, 2)), s.to[3], Part(v, 3))
         [] s.op = "parse_table" ->
              LET r == Rows(st.mem, v) IN Put1([st EXCEPT !.mem = r.mem], s.to, r.value)
         [] s.op = "set_text" ->
              LET r == Said(st.mem, Eval(st.env, st.mem, s.to), v, s.more) IN
              Put1([st EXCEPT !.mem = r.mem], s.to, r.value)
         [] s.op \in {"call", "comfyui"} ->
              IF asked.ok THEN Put1(asked, s.to, Answer(s.label, Spoken(st.env, st.mem, s.from)))
              ELSE [asked EXCEPT !.ok = s.op = "comfyui"]
         [] s.op = "verify" -> IF Tag(v) = "list" THEN AskEach(st, s.label, Len(v[2])) ELSE st
         [] s.op = "for" -> IF Tag(v) = "list" THEN Each(st, s, v[2]) ELSE st
         [] s.op = "in_parallel" -> All(st, s.branches, 1)
         [] s.op = "nested" -> IF s.body = << >> THEN st ELSE RunNested(st, s)
         [] s.op = "loop" -> Repeat(st, s, s.max)

\* A text of the DSL: every statement, and then whatever waited for what is there now.
RunDsl(st, code, i, watch) ==
    IF i > Len(code) \/ ~st.ok THEN st
    ELSE LET on == code[i].op = "on"
             more == IF on THEN Append(watch, [deps |-> code[i].deps, action |-> code[i].action]) ELSE watch
             r == Fire(IF on THEN st ELSE RunStep(st, code[i]), more, 1)
         IN  RunDsl(r.st, code, i + 1, r.left)

\* In rounds over those that are left, until a round finds nothing to do.
Can(st, w) == \A x \in w.deps : st.env[x] # Nothing
Fire(st, left, at) ==
    LET ready == {k \in DOMAIN left : k >= at /\ Can(st, left[k])} IN
    IF ~st.ok THEN [st |-> st, left |-> left]
    ELSE IF ready # {}
    THEN LET k == CHOOSE k \in ready : \A j \in ready : k <= j
             rest == SubSeq(left, 1, k - 1) \o SubSeq(left, k + 1, Len(left))
         IN  Fire(RunDsl(st, left[k].action, 1, << >>), rest, k)
    ELSE IF at > 1 THEN Fire(st, left, 1) ELSE [st |-> st, left |-> left]

Repeat(st, s, n) ==
    IF ~st.ok \/ ~Truthy(Eval(st.env, st.mem, s.while)) THEN st
    ELSE IF n = 0 THEN [st EXCEPT !.ok = FALSE]
    ELSE Repeat(RunDsl(st, s.body, 1, << >>), s, n - 1)

-------------------------------------------------------------------------------
Start == [env |-> [Empty EXCEPT !["input"] = Text("input")], mem |-> << >>,
          calls |-> [l \in workflow.labels |-> 0], ok |-> TRUE]
Flow == Run(Start, workflow.flow, 1)
Trigged == LET sent == Sent(Flow.env, Flow.mem)
               st == [Flow EXCEPT !.env = sent.env, !.mem = sent.mem]
           IN  IF workflow.single THEN RunStep(st, workflow.trigger[1]) ELSE Run(st, workflow.trigger, 1)

\* Values with the objects they refer to written out.
Shown(env, mem) ==
    LET Out(v) == IF Tag(v) = "object" THEN [value |-> Nothing, object |-> mem[v[2]]]
                  ELSE [value |-> v, object |-> Blank]
    IN  [x \in Names |-> IF Tag(env[x]) = "list"
                        THEN [k \in DOMAIN env[x][2] |-> Out(env[x][2][k])] ELSE <<Out(env[x])>>]

\* However the threads of a parallel block interleave and whichever calls are refused,
\* a workflow leaves the values of a run one step after the other: a step that fails
\* has no other effect than the ones it has had, and no other step is skipped
\* (execute_step, execute_steps). Branches that write the same variable are excluded.
ComputesInOrder ==
    /\ client.phase \in {"polling", "shown"} /\ run.status = "done" =>
          Shown(run.vars, heap) = Shown(Flow.env, Flow.mem)
    /\ client.phase = "triggered" /\ run.status # "running" =>
          /\ run.status = IF Trigged.ok THEN "done" ELSE "error"
          /\ run.status = "done" => Shown(run.vars, heap) = Shown(Trigged.env, Trigged.mem)
===============================================================================
