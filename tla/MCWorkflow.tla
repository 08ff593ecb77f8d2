------------------------------ MODULE MCWorkflow ------------------------------
(* Workflows after examples/behavior_case/demo_workflow.yaml and the texts of  *)
(* tests/test_workflow_dsl.py, with every call refused once.                   *)
EXTENDS WorkflowMeaning

SetTo(to, from) == [op |-> "set", to |-> to, from |-> from]
Call(label, to, from) == [op |-> "call", label |-> label, to |-> to, from |-> from]
Image(label, to, from) == [op |-> "comfyui", label |-> label, to |-> to, from |-> from]
Table(to, from) == [op |-> "parse_table", to |-> to, from |-> from]
Claims(to, from) == [op |-> "parse_claims", to |-> to, from |-> from]
Check(label, from) == [op |-> "verify", label |-> label, from |-> from]
ForEach(to, from, body) == [op |-> "for", to |-> to, from |-> from, body |-> body]
Together(branches) == [op |-> "in_parallel", branches |-> branches]
Atomic(bind, body, export) == [op |-> "nested", dsl |-> FALSE, bind |-> bind, body |-> body, export |-> export]
AtomicDsl(bind, body, export) == [op |-> "nested", dsl |-> TRUE, bind |-> bind, body |-> body, export |-> export]
ChatText(to, from, more) == [op |-> "set_text", to |-> to, from |-> from, more |-> more]
While(x, max, body) == [op |-> "loop", while |-> x, max |-> max, body |-> body]
When(deps, action) == [op |-> "on", deps |-> deps, action |-> action]

A == <<"a">>
B == <<"b">>
C == <<"c">>
D == <<"d">>
E == <<"e">>
Input == <<"input">>

Workflow(flow, trigger, single, labels, refused) ==
    [flow |-> flow, trigger |-> trigger, single |-> single, labels |-> labels, refused |-> refused]

\* Two calls together, a table of entities, a reaction for each; the trigger asks again.
Demo == <<Together(<<Call("claims", B, Input), Call("answer", A, Input)>>),
          Claims(<<C, D, C>>, B), Table(C, A),
          ForEach(E, C, <<Call("react", B, <<"e", "title">>), SetTo(<<"e", "user">>, B),
                          Image("image", <<"e", "title">>, <<"e", "user">>)>>),
          Check("verify", D)>>
Again1 == <<ForEach(E, C, <<Call("react", B, <<"e", "title">>), SetTo(<<"e", "user">>, B)>>)>>

\* Branches with child contexts, each with a chat of its own that it adds to.
Chats == <<SetTo(<<"a", "user">>, Input), SetTo(<<"b", "user">>, Input),
           Together(<<Atomic(<<<<"c", A>>>>,
                             <<ChatText(C, Text("more"), TRUE), Call("left", D, C)>>, <<<<D, D>>>>),
                      AtomicDsl(<<<<"c", B>>, <<"a", Input>>>>,
                                <<ChatText(C, A, TRUE), Call("right", D, C)>>, <<<<C, C>>, <<<<"e", "title">>, D>>>>)>>),
           Atomic(<< >>, << >>, << >>)>>

\* Watchers that wait for each other's results, and a loop.
Reactive(max) ==
    <<Call("start", A, Input),
      AtomicDsl(<<<<"a", A>>, <<"input", Input>>, <<"f", Text("yes")>>>>,
                <<When({"c"}, <<SetTo(D, C)>>), When({"b"}, <<Call("mid", C, B)>>),
                  When({"d", "a"}, <<ChatText(E, D, FALSE), SetTo(A, Text("no"))>>),
                  While(Input, max, <<Call("turn", B, A), SetTo(Input, <<"f">>), SetTo(<<"f">>, Text("no"))>>)>>,
                <<<<A, A>>, <<B, E>>>>),
      SetTo(C, A)>>

\* A block inside a branch.
Inner == <<Together(<<Together(<<Call("left", A, Input), Call("right", B, Input)>>), Call("start", C, Input)>>),
           SetTo(D, A)>>
OneStep == <<Call("react", D, A)>>

Refusals(labels) == {{}} \cup {{<<l, 1>>} : l \in labels}
All1(flow, trigger, single, labels) ==
    {Workflow(flow, trigger, single, labels, r) : r \in Refusals(labels)}

MCWorkflows ==
    All1(Demo, Again1, FALSE, {"claims", "answer", "react", "image", "verify"})
    \cup {Workflow(Demo, Again1, FALSE, {"claims", "answer", "react", "image", "verify"}, {<<"react", 2>>, <<"react", 3>>})}
    \cup All1(Chats, OneStep, TRUE, {"left", "right", "react"})
    \cup All1(Reactive(1), << >>, FALSE, {"start", "mid", "turn"})
    \cup All1(Reactive(3), << >>, FALSE, {"start", "mid", "turn"})
    \cup All1(Inner, << >>, FALSE, {"left", "right", "start"})
MCVars == <<"input", "a", "b", "c", "d", "e", "f">>
===============================================================================
