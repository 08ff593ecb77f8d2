-------------------------------- MODULE MCAsm ---------------------------------
(* Every program of up to three instructions out of a small set, and some      *)
(* longer ones with loops, a function and a chat.                              *)
EXTENDS AsmRun, TLC

CONSTANTS a, b, c, u1, u2

p == <<"text", "p">>
Mov(d, s) == [op |-> "MOV", dst |-> d, src |-> s]
Gen(d, s, u) == [op |-> "GEN", dst |-> d, src |-> s, url |-> u]
Probe(d, s) == [op |-> "PROBE", dst |-> d, src |-> s]
PutText(d, r, s, more) == [op |-> "PUT", dst |-> d, role |-> r, src |-> s, append |-> more]
Parse(d, s) == [op |-> "PARSE", dst |-> d, src |-> s]
Cmp(d, x, y) == [op |-> "CMP", dst |-> d, args |-> <<x, y>>]
CallFn(d, fn, x) == [op |-> "CALL", dst |-> d, fn |-> fn, args |-> <<x>>]
Jif(x, n) == [op |-> "JIF", cond |-> x, offset |-> n]
LoopWhile(x, m, n) == [op |-> "LOOP", cond |-> x, max |-> m, len |-> n]
EachOf(d, s, n) == [op |-> "EACH", dst |-> d, src |-> s, len |-> n]
Nop == [op |-> "NOP"]

MCFunctions == [ask |-> [params |-> <<a>>, outputs |-> <<b>>,
                         code |-> <<Gen(b, a, u1), Gen(a, a, u1)>>],
                \* A function that calls another has no other to call.
                wrap |-> [params |-> <<a>>, outputs |-> <<a>>,
                          code |-> <<Gen(b, a, u2), CallFn(a, "ask", b)>>]]

Instructions ==
    {Mov(b, a), Gen(a, p, u1), Gen(b, a, u1), Gen(b, p, u2), Probe(a, b), Parse(a, a),
     Cmp(b, a, b), CallFn(a, "ask", b), Jif(a, 1), LoopWhile(a, 2, 1), EachOf(b, a, 1),
     PutText(c, "user", a, TRUE), Gen(a, c, u2)}
\* A chat is not changed once it was given to a generation.
Kept(prog) == \A i, j \in DOMAIN prog :
    i < j /\ prog[i].op = "GEN" /\ prog[j].op = "PUT" => prog[i].src # prog[j].dst
Short == {prog \in UNION {[1..n -> Instructions] : n \in 1..3} : Kept(prog)}
Long == {
    <<PutText(c, "user", p, FALSE), PutText(c, "system", p, FALSE), Gen(a, c, u1), Gen(b, c, u1), Cmp(a, a, b)>>,
    <<PutText(c, "user", p, FALSE), Gen(a, c, u1), PutText(b, "user", a, FALSE), PutText(b, "user", a, TRUE), Gen(a, b, u2)>>,
    <<Gen(a, p, u1), Parse(a, a), EachOf(b, a, 2), Gen(b, b, u1), Nop, Mov(c, b)>>,
    <<Gen(c, p, u2), CallFn(a, "ask", c), CallFn(b, "ask", p), CallFn(c, "len", a), Jif(b, -3)>>,
    <<Gen(a, p, u1), CallFn(b, "wrap", a), CallFn(c, "ask", b)>>,
    <<Gen(a, p, u1), LoopWhile(a, 2, 2), Gen(b, a, u1), Gen(c, p, u2), Cmp(a, b, c)>>}

MCPrograms == Short \cup Long

\* A chat that changes after a GEN was given it.
LatePut == {<<PutText(c, "user", p, FALSE), Gen(a, c, u1), PutText(c, "user", p, TRUE), Mov(b, a)>>}
===============================================================================
