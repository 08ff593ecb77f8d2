------------------------------ MODULE AtomicScope ------------------------------
(* The routes /api/atomic/scope and /api/atomic/loop of server.py: a request   *)
(* brings a list of tool calls that name their results, wait for each other's  *)
(* results and share growing contexts; the loop route repeats a second list    *)
(* while a result is truthy. A scope request is a loop request without a loop. *)
EXTENDS LlmCall, FiniteSets

CONSTANTS
    Requests,   \* what clients send
    Names,      \* names of results
    Contexts    \* names of contexts; "main" is one

NoName == "none"
ASSUME AtomicScopeAssumption ==
    /\ NoName \notin Names
    /\ \A r \in Requests : \A list \in {r.setup, r.loop} :
          /\ list \in Seq({list[k] : k \in DOMAIN list})
          /\ \A k \in DOMAIN list : list[k].on \subseteq Names /\ list[k].out \in Names \cup {NoName}

\* The words that a request brings: what generate is given are messages.
ASSUME TextAssumption ==
    /\ "main" \in Contexts
    /\ \A r \in Requests :
          /\ r.context \in Seq(STRING) /\ r.maxContinue \in Nat
          /\ \A list \in {r.setup, r.loop} : \A k \in DOMAIN list :
                /\ list[k].prefill \in Seq(STRING) /\ list[k].context \in Contexts \cup {NoName}
                /\ \/ list[k].arg[1] = "text" /\ list[k].arg[2] \in Seq(STRING)
                   \/ list[k].arg[1] = "ref" /\ list[k].arg[2] \in Names /\ list[k].tool # "generate"

VARIABLES
    request, at,   \* the request, and what its coroutine is doing
    pass,          \* 0: the setup (or the scope); then the iterations of the loop
    todo, later,   \* pending steps of this round, and those found waiting
    moved, rounds, \* progress, iteration
    scope,         \* local_vars
    context,       \* local_vars["__contexts__"]
    gen,           \* locals of _atomic_generate
    status,
    ran, known     \* history: steps run in this pass, names in scope when it began

seen == <<ran, known>>
route == <<request, pass, status, known>>
vars == <<request, at, pass, todo, later, moved, rounds, scope, context, gen, status, seen, call, heard>>

(* step = [tool, on, arg, out, context, grow, ...]; arg is a text or a result. *)
Nothing == [nothing |-> TRUE]
Text(t) == <<"text", t>>
Ref(n) == <<"ref", n>>
Mark == "mark"                    \* a delimiter
Dict == <<"dict">>                \* what str() makes of a result without text
Unresolved == <<"$">>             \* a reference to a name that is not in scope

IsIn(n) == scope[n] # Nothing
Has(r, field) == field \in DOMAIN r /\ r[field] # << >>
Joined(items) == [k \in 1..Len(items) |-> items[k][1]]
Resolved(arg) ==
    IF arg[1] = "text" THEN arg[2]
    ELSE IF ~IsIn(arg[2]) THEN Unresolved
    ELSE LET r == scope[arg[2]] IN
         IF Has(r, "content") THEN r.content
         ELSE IF Has(r, "items") THEN Joined(r.items) ELSE Dict
Truthy(n) ==
    /\ IsIn(n)
    /\ LET r == scope[n] IN
       IF "content" \in DOMAIN r THEN r.content \notin {<< >>, <<"no">>} ELSE r.items # << >>

-------------------------------------------------------------------------------
(* Contexts.                                                                   *)
ContextOf(step) == IF step.context = NoName THEN << >> ELSE context[step.context]
Injected(step) == LET t == Resolved(step.arg) IN IF t = Dict THEN t ELSE ContextOf(step) \o t
Factory == {"context_append", "prompt_factory"}
Main(step) == IF step.context = NoName THEN "main" ELSE step.context

Grows(step) == /\ step.context # NoName
               /\ step.grow = "on" \/ (step.grow = "default" /\ step.tool \notin Factory)
Grown(step, result) ==
    IF Grows(step) /\ Has(result, "content")
    THEN [context EXCEPT ![step.context] = @ \o result.content] ELSE context

(* The tools that ask no model: Refuses raises, Result is what is returned.    *)
MarkAt(t) == CHOOSE k \in DOMAIN t : t[k] = Mark /\ \A j \in 1..(k - 1) : t[j] # Mark
After(t) == SubSeq(t, MarkAt(t) + 1, Len(t))
Items(t) == [k \in 1..Len(t) |-> <<t[k]>>]
Tools == {"slice", "split", "parse"}
Refuses(tool, t) ==
    \/ t \in {<< >>, Dict}
    \/ tool \in {"slice", "parse"} /\ \A k \in DOMAIN t : t[k] # Mark
    \/ tool = "parse" /\ After(t) = << >>
Result(tool, t) ==
    CASE tool = "slice" -> [content |-> After(t)]
      [] tool = "split" -> [items |-> Items(t)]
      [] tool = "parse" -> [content |-> After(t), items |-> Items(After(t))]

-------------------------------------------------------------------------------
(* The order of the steps of one list.                                         *)
List == IF pass = 0 THEN request.setup ELSE request.loop
Here == List[Head(todo)]
\* Faulty: any result waited for will do.
ReadyOnAny(step) == step.on = {} \/ \E n \in step.on : IsIn(n)
Ready(step) == \A n \in step.on : IsIn(n)
At(what) == status = "running" /\ at = what

StartList(n) == /\ pass' = n /\ at' = "steps" /\ later' = << >> /\ moved' = FALSE /\ rounds' = 1
                /\ todo' = [k \in 1..Len(IF n = 0 THEN request.setup ELSE request.loop) |-> k]
                /\ ran' = << >> /\ known' = {m \in Names : scope[m] # Nothing}

Defer ==
    /\ At("steps") /\ todo # << >> /\ ~Ready(Here)
    /\ todo' = Tail(todo) /\ later' = Append(later, Head(todo))
    /\ UNCHANGED <<route, at, moved, rounds, scope, context, gen, ran, call, heard>>

Store(step, result, grown) ==
    /\ scope' = IF step.out = NoName THEN scope ELSE [scope EXCEPT ![step.out] = result]
    /\ context' = grown
    /\ todo' = Tail(todo) /\ moved' = TRUE /\ at' = "steps" /\ ran' = Append(ran, Head(todo))
    /\ UNCHANGED <<route, later, rounds, gen>>

Fail == /\ status' = "error"
        /\ UNCHANGED <<request, at, pass, todo, later, moved, rounds, scope, context, gen, seen>>

Due(tools) == At("steps") /\ todo # << >> /\ Ready(Here) /\ Here.tool \in tools

ContextAppend ==
    /\ Due({"context_append"})
    /\ LET merged == context[Main(Here)] \o Injected(Here)
           c == [context EXCEPT ![Main(Here)] = merged]
           r == [content |-> merged]
       IN  Store(Here, r, IF Grows(Here) THEN [c EXCEPT ![Here.context] = @ \o merged] ELSE c)
    /\ UNCHANGED <<call, heard>>

PromptFactory ==
    /\ Due({"prompt_factory"})
    /\ LET r == [content |-> context[Main(Here)] \o Injected(Here)] IN Store(Here, r, Grown(Here, r))
    /\ UNCHANGED <<call, heard>>

RunTool ==
    /\ Due(Tools)
    /\ IF Refuses(Here.tool, Injected(Here)) THEN Fail
       ELSE LET r == Result(Here.tool, Injected(Here)) IN Store(Here, r, Grown(Here, r))
    /\ UNCHANGED <<call, heard>>

\* Another round over the steps that waited, if this one ran any.
NextRound ==
    /\ At("steps") /\ todo = << >> /\ later # << >> /\ moved /\ rounds < Len(List) * 2 + 10
    /\ todo' = later /\ later' = << >> /\ moved' = FALSE /\ rounds' = rounds + 1
    /\ UNCHANGED <<route, at, scope, context, gen, ran, call, heard>>

Stuck ==
    /\ At("steps") /\ todo = << >> /\ later # << >> /\ ~moved
    /\ status' = "deadlock"
    /\ UNCHANGED <<request, at, pass, todo, later, moved, rounds, scope, context, gen, seen, call, heard>>

ListDone == /\ At("steps") /\ todo = << >>
            /\ later # << >> => moved /\ rounds >= Len(List) * 2 + 10
Iterate ==
    /\ ListDone /\ request.loop # << >> /\ Truthy(request.while) /\ pass < request.max
    /\ StartList(pass + 1)
    /\ UNCHANGED <<request, status, scope, context, gen, call, heard>>
Reply ==
    /\ ListDone
    /\ status' = IF request.loop # << >> /\ Truthy(request.while) THEN "limit" ELSE "ok"
    /\ request.loop = << >> \/ ~Truthy(request.while) \/ pass >= request.max
    /\ UNCHANGED <<request, at, pass, todo, later, moved, rounds, scope, context, gen, seen, call, heard>>

-------------------------------------------------------------------------------
(* _atomic_generate and _atomic_claims: one call that goes on by itself, or,   *)
(* if the text has to contain something, single calls until it does.           *)
Model == {"generate", "claims"}
Conditions(step) == step.tool = "generate" /\ step.until # {}
Wanted(step, text) == \A piece \in step.until : \E k \in DOMAIN text : text[k] = piece
NoThink(step) == step.tool = "claims" \/ request.noThink
IsInstruct(step, prefill) ==
    step.tool = "claims" \/ step.format = "instruct" \/ (step.format = "auto" /\ prefill = << >>)

\* claims reads its text from a result; the messages of generate are as sent.
Prompt(step) == IF step.tool = "claims" THEN Injected(step) ELSE ContextOf(step) \o step.arg[2]
Prefill(step) == IF step.tool = "claims" THEN << >> ELSE step.prefill
How(step) ==
    [instruct |-> IsInstruct(step, Prefill(step)), noThink |-> NoThink(step),
     onLength |-> request.continue /\ ~Conditions(step),
     limit |-> IF Conditions(step) THEN 0 ELSE request.maxContinue,
     prompt |-> Prompt(step), prefill |-> Prefill(step)]
HowOn(step, text) ==
    [instruct |-> IsInstruct(step, text), noThink |-> FALSE, onLength |-> FALSE, limit |-> 0,
     prompt |-> Prompt(step) \o Prefill(step), prefill |-> text]

Ask ==
    /\ Due(Model)
    /\ IF Here.tool = "claims" /\ Injected(Here) \in {<< >>, Dict}
       THEN Fail /\ UNCHANGED <<call, heard>>
       ELSE /\ at' = "calling" /\ gen' = [text |-> << >>, left |-> request.maxContinue]
            /\ Begin(How(Here)) /\ heard' = << >>
            /\ UNCHANGED <<route, todo, later, moved, rounds, scope, context, ran>>

Calling == At("calling") /\ CallStep
           /\ UNCHANGED <<route, at, todo, later, moved, rounds, scope, context, gen, ran>>

Raw == gen.text \o call.result
AsksAgain == /\ Conditions(Here) /\ request.continue /\ gen.left > 0
             /\ call.finish = "length" \/ ~Wanted(Here, Raw)
AskAgain ==
    /\ At("calling") /\ Returned /\ AsksAgain
    /\ gen' = [text |-> Raw, left |-> gen.left - 1]
    /\ Begin(HowOn(Here, Raw))
    /\ UNCHANGED <<route, at, todo, later, moved, rounds, scope, context, ran, heard>>

Answered ==
    /\ At("calling") /\ Returned /\ ~AsksAgain
    /\ LET r == [content |-> Strip(Raw)] IN Store(Here, r, Grown(Here, r))
    /\ UNCHANGED <<call, heard>>

CallRaises == At("calling") /\ Raised /\ Fail /\ UNCHANGED <<call, heard>>

-------------------------------------------------------------------------------
Init ==
    /\ request \in Requests /\ status = "running"
    /\ pass = 0 /\ at = "steps" /\ later = << >> /\ moved = FALSE /\ rounds = 1
    /\ todo = [k \in 1..Len(request.setup) |-> k]
    /\ ran = << >> /\ known = {}
    /\ scope = [n \in Names |-> Nothing]
    /\ context = [c \in Contexts |-> IF c = "main" THEN request.context ELSE << >>]
    /\ gen = [text |-> << >>, left |-> 0] /\ call = Idle /\ heard = << >>

Next == \/ Defer \/ ContextAppend \/ PromptFactory \/ RunTool \/ NextRound \/ Stuck
        \/ Iterate \/ Reply \/ Ask \/ Calling \/ AskAgain \/ Answered \/ CallRaises

Spec == Init /\ [][Next]_vars
FairSpec == Spec /\ WF_vars(Next)

-------------------------------------------------------------------------------
\* The steps that can run at all, given what was known: the least set closed
\* under "all it waits for is known or made by one of the set".
Makes(S) == {List[k].out : k \in S}
Closed(S) == \A k \in DOMAIN List : List[k].on \subseteq known \cup Makes(S) => k \in S
Runnable == CHOOSE S \in SUBSET DOMAIN List :
                Closed(S) /\ \A R \in SUBSET DOMAIN List : Closed(R) => S \subseteq R
RanSteps == {ran[k] : k \in DOMAIN ran}

\* A pass runs every step that can run, once, whatever their order in the list; it is a
\* deadlock only if some can never run (_execute_steps of both routes).
RunsWhatItCan ==
    /\ Len(ran) = Cardinality(RanSteps)
    /\ ListDone \/ status = "deadlock" => RanSteps = Runnable
    /\ ListDone => Runnable = DOMAIN List

\* Every request to the model contains, once and in order, all that it was given and all
\* that it has answered so far, over polls, second tries and continuations.
AsksForTheRest ==
    At("calling") /\ Asking =>
        Strip(Asked(call)) = Strip(Prompt(Here) \o Prefill(Here) \o heard)

\* Every request is answered: a loop ends by its limit, a call by its number of turns.
Answers == <>(status # "running")
===============================================================================
