------------------------------- MODULE MCAtomic --------------------------------
(* Requests with steps out of order, cycles, loops, contexts and conditions.   *)
EXTENDS AtomicScope

Step(tool, on, arg, out) ==
    [tool |-> tool, on |-> on, arg |-> arg, out |-> out, context |-> NoName, grow |-> "default",
     prefill |-> << >>, until |-> {}, format |-> "auto"]
With(step, name) == [step EXCEPT !.context = name]
Generate(out) == Step("generate", {}, Text(<<"ask">>), out)
Route(setup, loop, while) ==
    [setup |-> setup, loop |-> loop, while |-> while, max |-> 2, context |-> <<"c">>,
     noThink |-> TRUE, continue |-> TRUE, maxContinue |-> 1]

MCRequests ==
  { \* Listed in reverse, with a claims call that reads a slice.
    Route(<<Step("claims", {"b"}, Ref("b"), "c"), Step("slice", {"a"}, Ref("a"), "b"), Generate("a")>>, << >>, "a"),
    \* Two that wait for each other, and one in a chat without a think block.
    [Route(<<Step("split", {"b"}, Ref("b"), "a"), Step("split", {"a", "c"}, Ref("a"), "b"),
             [Generate("c") EXCEPT !.format = "chat"]>>, << >>, "a") EXCEPT !.noThink = FALSE, !.maxContinue = 2],
    \* A loop that asks until the answer is no, with a growing context.
    Route(<<Generate("a")>>, <<Step("parse", {"b"}, Ref("b"), "c"), With(Generate("b"), "main"),
                               Step("split", {}, Ref("b"), "a")>>, "a"),
    Route(<<With(Generate("a"), "main")>>, <<With(Step("claims", {}, Text(<<"t">>), "a"), "main")>>, "a"),
    \* Single calls until the text has what is wanted, behind a prefill.
    Route(<<[Generate("a") EXCEPT !.until = {Mark}, !.prefill = <<"p">>, !.format = "chat"],
            Step("parse", {}, Ref("a"), "b")>>, << >>, "a"),
    [Route(<<[Generate("a") EXCEPT !.until = {Mark, "x"}]>>, << >>, "a") EXCEPT !.maxContinue = 2],
    \* The tools that build contexts and prompts.
    Route(<<Step("context_append", {"a"}, Ref("a"), "b"), With(Generate("a"), "main"),
            With(Step("prompt_factory", {"b"}, Ref("b"), "c"), "main")>>, << >>, "a") }

\* A prefill that a call has to go on from by itself.
PrefillRequests ==
  { Route(<<[Generate("a") EXCEPT !.prefill = <<"p">>]>>, << >>, "a") }

MCPieces == {<< >>, <<"x">>, <<Mark, "y">>, <<"no">>}
===============================================================================
