------------------------------ MODULE AsmMachine ------------------------------
(* The instructions of the assembly DSL (assembly_dsl.py), as a machine that   *)
(* runs one program: registers, chats, and a stack of bodies being run. What a *)
(* generation answers and when is left to the modules that extend this one.    *)
(* An instruction finds its registers in e: those it reads have been awaited.  *)
EXTENDS Integers, Sequences, FiniteSetsExt

CONSTANTS
    Regs,                \* registers of a program and of its functions
    Programs,            \* the programs that are run: sequences of instructions
    Functions,           \* [name -> [params, outputs, code]]: the fn blocks
    StepsPerInstruction  \* the code allows 100 steps per instruction of a body

VARIABLES
    env,      \* the registers of each context: the run's own and a function's child
    heap,     \* the messages of each chat: a chat value is a reference to one
    frames,   \* the bodies being run, innermost last
    out       \* what execute() returned

machine == <<env, heap, frames, out>>

(* Values are tagged tuples: texts, truth values, lists, chats and answers.    *)
Nothing == <<"none">>
Bool(b) == <<"bool", b>>
List(s) == <<"list", s>>
Chat(n) == <<"chat", n>>
\* A generation answers according to what it is asked.
Answer(asked) == <<"answer", asked>>
Tag(v) == v[1]

Truthy(v) == CASE v = Nothing -> FALSE
               [] Tag(v) = "bool" -> v[2]
               [] Tag(v) = "list" -> v[2] # << >>
               [] OTHER -> TRUE
ToList(v) == IF v = Nothing THEN << >> ELSE IF Tag(v) = "list" THEN v[2] ELSE <<v>>
\* What a reader sees of a value: the messages of a chat as they are now.
Content(v) == IF Tag(v) = "chat" THEN <<"messages", heap[v[2]]>> ELSE v
Part(v, n) == <<"part", v, n>>

\* A token is a register or a literal; an instruction has the tokens its op takes.
Token(t) == t \in Regs \/ Tag(t) \in {"text", "bool"}
WellFormed(i) ==
    /\ i.op \in {"MOV", "GEN", "PROBE", "PUT", "PARSE", "CMP", "CALL", "EACH"} => i.dst \in Regs
    /\ i.op \in {"MOV", "GEN", "PROBE", "PUT", "PARSE", "EACH"} => Token(i.src)
    /\ i.op \in {"CMP", "CALL"} => \A k \in DOMAIN i.args : Token(i.args[k])
    /\ i.op = "CMP" => DOMAIN i.args = 1..2
    /\ i.op \in {"JIF", "LOOP"} => Token(i.cond)
    /\ i.op = "JIF" => i.offset \in Int
    /\ i.op \in {"LOOP", "EACH"} => i.len \in Nat
Code(prog) == /\ prog \in Seq({prog[k] : k \in DOMAIN prog})
              /\ \A k \in DOMAIN prog : WellFormed(prog[k])

\* A function gives one output or none (several come as a dict in the code).
ASSUME AsmMachineAssumption ==
    /\ \A prog \in Programs : Code(prog)
    /\ \A fn \in DOMAIN Functions :
        /\ Code(Functions[fn].code)
        /\ Functions[fn].outputs \in {<< >>} \cup {<<r>> : r \in Regs}

Val(e, token) == IF token \in Regs THEN e[token] ELSE token
Vals(e, tokens) == [k \in DOMAIN tokens |-> Val(e, tokens[k])]

\* chat_set changes the first message of the role in place, or adds one.
ChatSet(messages, role, v, append) ==
    LET found == {k \in DOMAIN messages : messages[k].role = role} IN
    IF found = {} THEN Append(messages, [role |-> role, text |-> <<v>>])
    ELSE [messages EXCEPT ![Min(found)].text = IF append THEN Append(@, v) ELSE <<v>>]
-------------------------------------------------------------------------------
Body(code, fn) == [code |-> code, ip |-> 1, steps |-> 0, iter |-> 0, items |-> << >>, fn |-> fn]
Frame == frames[Len(frames)]
Here == Frame.code[Frame.ip]
Caller == frames[Len(frames) - 1]
Calling == Caller.code[Caller.ip]
Top == env[Len(env)]
Below(s) == SubSeq(s, 1, Len(s) - 1)
Blank == [r \in Regs |-> Nothing]

\* The body goes on: an instruction is due and the safety bound is not reached.
Going == out = Nothing /\ Frame.ip \in DOMAIN Frame.code
         /\ Frame.steps < Len(Frame.code) * StepsPerInstruction
Due(op) == Going /\ Here.op = op
Over == out = Nothing /\ ~Going

MachineInit ==
    /\ env = <<Blank>> /\ heap = << >> /\ out = Nothing
    /\ \E p \in Programs : frames = <<Body(p, FALSE)>>

Goto(n) == [Frame EXCEPT !.ip = n, !.steps = @ + 1, !.iter = 0]
Continue(f) == frames' = Append(Below(frames), f)
SetTop(e) == env' = Append(Below(env), e)

\* What the next step reads, in the order in which it is resolved.
Reads ==
    IF out # Nothing THEN << >>
    ELSE IF Over THEN IF Frame.fn THEN Functions[Calling.fn].outputs ELSE << >>
    ELSE CASE Here.op \in {"MOV", "GEN", "PROBE", "PUT", "PARSE"} -> <<Here.src>>
           [] Here.op \in {"CMP", "CALL"} -> Here.args
           [] Here.op = "JIF" -> <<Here.cond>>
           [] Here.op = "LOOP" -> IF Frame.iter < Here.max THEN <<Here.cond>> ELSE << >>
           [] Here.op = "EACH" -> IF Frame.iter = 0 THEN <<Here.src>> ELSE <<Here.dst>>
           [] Here.op = "NOP" -> << >>

\* MOV, a probe, PARSE, CMP and a CALL of a built-in: a value for dst.
Computed(e) ==
    CASE Here.op = "MOV" -> Val(e, Here.src)
      [] Here.op = "PROBE" -> Answer(Content(Val(e, Here.src)))
      [] Here.op = "PARSE" -> List(<<Part(Content(Val(e, Here.src)), 1), Part(Content(Val(e, Here.src)), 2)>>)
      [] Here.op = "CMP" -> Bool(Content(Val(e, Here.args[1])) = Content(Val(e, Here.args[2])))
      [] Here.op = "CALL" -> <<"apply", Here.fn, Vals(e, Here.args)>>

\* A function is run without functions: what it calls are built-ins.
Callable == IF Len(env) = 1 THEN DOMAIN Functions ELSE {}

Compute(e) ==
    /\ Going /\ Here.op \in {"MOV", "PROBE", "PARSE", "CMP", "CALL"}
    /\ Here.op = "CALL" => Here.fn \notin Callable
    /\ SetTop([e EXCEPT ![Here.dst] = Computed(e)])
    /\ Continue(Goto(Frame.ip + 1))
    /\ UNCHANGED <<heap, out>>

\* PUT looks at its target without awaiting it; what is no chat is replaced.
Put(e) ==
    /\ Due("PUT")
    /\ LET old == e[Here.dst]
           v == Content(Val(e, Here.src)) IN
       IF Tag(old) = "chat"
       THEN /\ heap' = [heap EXCEPT ![old[2]] = ChatSet(@, Here.role, v, Here.append)]
            /\ SetTop(e)
       ELSE /\ heap' = Append(heap, ChatSet(<< >>, Here.role, v, Here.append))
            /\ SetTop([e EXCEPT ![Here.dst] = Chat(Len(heap'))])
    /\ Continue(Goto(Frame.ip + 1))
    /\ UNCHANGED out

Jump(e) ==
    /\ Due("JIF") \/ Due("NOP")
    /\ SetTop(e)
    /\ Continue(Goto(IF Here.op = "JIF" /\ Truthy(Val(e, Here.cond))
                     THEN Frame.ip + Here.offset + 1 ELSE Frame.ip + 1))
    /\ UNCHANGED <<heap, out>>

BodyEnd == Min({Frame.ip + Here.len, Len(Frame.code)})
Enter(frame, code, fn) == frames' = Below(frames) \o <<frame, Body(code, fn)>>
EnterBody(frame) == Enter(frame, SubSeq(Frame.code, Frame.ip + 1, BodyEnd), FALSE)

Loop(e) ==
    /\ Due("LOOP")
    /\ SetTop(e)
    /\ IF Frame.iter < Here.max /\ Truthy(Val(e, Here.cond))
       THEN EnterBody([Frame EXCEPT !.iter = @ + 1])
       ELSE Continue(Goto(BodyEnd + 1))
    /\ UNCHANGED <<heap, out>>

\* EACH takes its collection once, and reads the item again after every body.
Each(e) ==
    /\ Due("EACH")
    /\ LET items == IF Frame.iter = 0 THEN ToList(Val(e, Here.src)) ELSE Frame.items IN
       IF Frame.iter < Len(items)
       THEN /\ SetTop([e EXCEPT ![Here.dst] = items[Frame.iter + 1]])
            /\ EnterBody([Frame EXCEPT !.iter = @ + 1, !.items = items])
       ELSE /\ SetTop(e)
            /\ Continue([Goto(BodyEnd + 1) EXCEPT !.items = << >>])
    /\ UNCHANGED <<heap, out>>

CallFunction(e) ==
    /\ Due("CALL") /\ Here.fn \in Callable
    /\ LET f == Functions[Here.fn]
           \* The last parameter of a name is what it is bound to.
           Given(r) == {k \in DOMAIN f.params : f.params[k] = r}
           child == [r \in Regs |->
               IF Given(r) # {} /\ Max(Given(r)) \in DOMAIN Here.args
               THEN Val(e, Here.args[Max(Given(r))]) ELSE Nothing] IN
       /\ env' = Below(env) \o <<e, child>>
       /\ Enter(Frame, f.code, TRUE)
    /\ UNCHANGED <<heap, out>>

\* A body ends: its loop goes on, or its function gives its output to dst.
Return(e) ==
    /\ Over /\ Len(frames) > 1
    /\ IF Frame.fn
       THEN LET given == IF Reads = << >> THEN Nothing ELSE Val(e, Reads[1]) IN
            /\ env' = Append(Below(Below(env)), [env[Len(env) - 1] EXCEPT ![Calling.dst] = given])
            /\ frames' = Append(Below(Below(frames)), [Caller EXCEPT !.ip = @ + 1, !.steps = @ + 1])
       ELSE frames' = Below(frames) /\ SetTop(e)
    /\ UNCHANGED <<heap, out>>

Advance(e) == Compute(e) \/ Put(e) \/ Jump(e) \/ Loop(e) \/ Each(e) \/ CallFunction(e) \/ Return(e)

\* execute() reports an exception with an empty state, a program's end with the
\* registers of its own context.
Raise == out = Nothing /\ out' = <<"error">> /\ UNCHANGED <<env, heap, frames>>
Export(state) ==
    /\ Over /\ Len(frames) = 1
    /\ out' = <<"done", state>>
    /\ UNCHANGED <<env, heap, frames>>
===============================================================================
