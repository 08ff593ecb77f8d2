----------------------------- MODULE PuzzleEngines ----------------------------
(* The engines of core/schema_engine.py as the routes of server.py run them:   *)
(* a sieve strikes values from a grid until nothing changes, then the          *)
(* permutations of one category after the other are combined, within the grid  *)
(* or, when the sieve meets a contradiction, without it. Houses count from 1.  *)
EXTENDS Puzzle
LOCAL INSTANCE SequencesExt

VARIABLES
    grid,     \* [house -> [category -> the values still allowed]]
    rule,     \* the rules of this pass whose sieve has run
    changed,  \* something was struck in this pass
    order,    \* category_order of the permutation engine
    stream,   \* the combinations of the categories placed so far
    placed,   \* how many those are
    phase     \* "sieve", then "sieved" or "raised"

engine == <<grid, rule, changed, order, stream, placed, phase>>

Full == [h \in Houses |-> [c \in CatSet |-> Vals]]
Has(g, h, fact) == h \in Houses /\ fact[2] \in g[h][fact[1]]
Only(g, h, fact) == h \in Houses /\ g[h][fact[1]] = {fact[2]}
Keep(g, h, fact) == [g EXCEPT ![h][fact[1]] = @ \cap {fact[2]}]
Drop(g, h, fact) == [g EXCEPT ![h][fact[1]] = @ \ {fact[2]}]
DropUnless(ok, g, h, fact) == IF ok THEN g ELSE Drop(g, h, fact)
KeepIf(due, g, h, fact) == IF due /\ h \in Houses THEN Keep(g, h, fact) ELSE g

\* build_sieve: what the sieve of a rule does at one house, in this order.
SameAt(g, k, h) ==
    LET a == KeepIf(Only(g, h, k.l), g, h, k.r)
        b == DropUnless(Has(a, h, k.l), a, h, k.r)
        c == KeepIf(Only(b, h, k.r), b, h, k.l)
    IN DropUnless(Has(c, h, k.r), c, h, k.l)
PositionAt(g, k, h) == IF h = k.r[2] THEN Keep(g, h, k.l) ELSE Drop(g, h, k.l)
NextToAt(g, k, h) ==
    LET a == DropUnless(Has(g, h - 1, k.r) \/ Has(g, h + 1, k.r), g, h, k.l)
    IN DropUnless(Has(a, h - 1, k.l) \/ Has(a, h + 1, k.l), a, h, k.r)
\* Faulty: the sides are swapped.
DirectlyLeftAt(g, k, h) ==
    LET a == DropUnless(Has(g, h - 1, k.r), g, h, k.l)
    IN DropUnless(Has(a, h + 1, k.l), a, h, k.r)
DirectlyRightAt(g, k, h) ==
    LET a == DropUnless(Has(g, h + 1, k.r), g, h, k.l)
        b == DropUnless(Has(a, h - 1, k.l), a, h, k.r)
        c == KeepIf(Only(b, h, k.l), b, h + 1, k.r)
    IN KeepIf(Only(c, h, k.r), c, h - 1, k.l)
At(g, k, h) == CASE k.kind = "same" -> SameAt(g, k, h)
                 [] k.kind = "position" -> PositionAt(g, k, h)
                 [] k.kind = "next_to" -> NextToAt(g, k, h)
                 [] k.kind = "directly_right" -> DirectlyRightAt(g, k, h)
Ends(g, k) ==
    IF k.kind = "directly_right" THEN Drop(Drop(g, N, k.l), 1, k.r) ELSE g
Sieved(g, k) == FoldLeft(LAMBDA f, h : At(f, k, h), Ends(g, k), InOrder)

\* apply_uniqueness, category by category: a value that one house alone may have
\* is there, and then a house with one value takes it from the others.
Carriers(g, fact) == {h \in Houses : Has(g, h, fact)}
Pin(g, fact) ==
    LET carriers == Carriers(g, fact) IN
    IF Cardinality(carriers) = 1 THEN Keep(g, CHOOSE h \in carriers : TRUE, fact) ELSE g
Claim(g, c, h) ==
    IF Cardinality(g[h][c]) # 1 THEN g
    ELSE FoldLeft(LAMBDA f, i : IF i = h THEN f ELSE [f EXCEPT ![i][c] = @ \ g[h][c]],
                  g, InOrder)
Unique(g) ==
    FoldLeft(LAMBDA f, c : FoldLeft(LAMBDA e, h : Claim(e, c, h),
                                    FoldLeft(LAMBDA e, v : Pin(e, <<c, v>>), f, InOrder), InOrder),
             g, Cats)

Contradiction(g) == \E h \in Houses, c \in CatSet : g[h][c] = {}

EngineInit ==
    /\ grid = Full /\ rule = 0 /\ changed = FALSE /\ phase = "sieve"
    /\ order \in {Cats, Reverse(Cats)} /\ stream = {<< >>} /\ placed = 0

\* run_until_fixpoint; the route goes on without the grid when it raises.
Pass(g) ==
    /\ grid' = IF Contradiction(g) THEN Full ELSE g
    /\ phase' = IF Contradiction(g) THEN "raised" ELSE "sieve"
Sift ==
    /\ phase = "sieve" /\ rule < Len(problem.clues)
    /\ LET g == Sieved(grid, problem.clues[rule + 1]) IN
       Pass(g) /\ changed' = (changed \/ g # grid)
    /\ rule' = rule + 1
    /\ UNCHANGED <<order, stream, placed>>
EndPass ==
    /\ phase = "sieve" /\ rule = Len(problem.clues)
    /\ LET g == Unique(grid) IN
       IF changed \/ g # grid THEN Pass(g)
       ELSE phase' = "sieved" /\ UNCHANGED grid
    /\ rule' = 0 /\ changed' = FALSE
    /\ UNCHANGED <<order, stream, placed>>

\* Faulty: off by one, the rules of the last category are never ready.
ReadyBefore(k, cats) ==
    {k.l[1], k.r[1]} \subseteq cats \cup {"position"} /\ Cardinality(cats) < Len(Cats)
\* _is_ready: the categories of the rule's facts have been placed.
Ready(k, cats) ==
    {k.l[1], k.r[1]} \subseteq cats \cup {"position"}
Allowed(c) == {f \in Orders : \A v \in Vals : v \in grid[f[v]][c]}

\* One category of solve_raw and render_stage_counts.
Stage ==
    /\ phase # "sieve" /\ placed < Len(order)
    /\ LET c == order[placed + 1]
           cats == {order[k] : k \in 1..placed + 1}
           rules == {i \in DOMAIN problem.clues : Ready(problem.clues[i], cats)}
       IN stream' = {p \in {[d \in cats |-> IF d = c THEN f ELSE q[d]] :
                                q \in stream, f \in Allowed(c)} :
                         \A i \in rules : Holds(p, problem.clues[i])}
    /\ placed' = placed + 1
    /\ UNCHANGED <<grid, rule, changed, order, phase>>

EngineNext == (Sift \/ EndPass \/ Stage) /\ UNCHANGED problem
-------------------------------------------------------------------------------
\* Whatever the order of the categories, with the grid or without it, what is
\* left when all are placed are the solutions, all of them and nothing else:
\* rules wait until both their categories are placed (schema_engine.py: _is_ready).
EnginesAgree == placed = Len(order) => stream = Solutions
===============================================================================
