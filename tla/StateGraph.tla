------------------------------ MODULE StateGraph ------------------------------
(* The search of core/state_graph.py over partial placements: a planner        *)
(* (core/node_specs.py) turns each relation into candidates for a snapshot,    *)
(* the entry points of cases/einstein evaluate them, and what passes becomes a *)
(* node of the graph. Three drivers walk it: two phases (propagate, then       *)
(* branch), ticks in the order of the relations, and narrowest first.          *)
(* A snapshot has its own values, but the eliminations of a category are in a  *)
(* bucket that it shares with the snapshots it comes from and leads to: the    *)
(* copy of a snapshot is one level deep.                                       *)
EXTENDS Puzzle
LOCAL INSTANCE SequencesExt
LOCAL INSTANCE FiniteSetsExt
LOCAL INSTANCE TLC

CONSTANTS
    MaxBranch,  \* max_branch_candidates
    MaxDepth    \* max_depth

ASSUME GraphAssumption == MaxBranch \in Nat \ {0} /\ MaxDepth \in Nat

VARIABLES
    nodes,      \* by notes: the values, and by category whose bucket it has
    struck,     \* the eliminations in a bucket, named by its first node
    edges,      \* [from, spec, entry, to, passed]: entries that were run
    current,    \* the notes of the node the driver is at
    attempted,  \* attempted_state_specs, or the ids consumed with no node
    pc          \* "propagate", "branch", "walk", or the status returned

graph == <<nodes, struck, edges, current, attempted, pc>>

(* A snapshot: values by house, houses by value (None: unknown), eliminated    *)
(* values, and whether the universes of the categories are declared.           *)
NoStrikes == [h \in Houses |-> {}]
Blank == [by |-> [c \in CatSet |-> [h \in Houses |-> None]],
          at |-> [c \in CatSet |-> [v \in Vals |-> None]],
          out |-> [c \in CatSet |-> NoStrikes],
          declared |-> problem.declared]

\* _apply_assignment: refused on a conflict, and the inverse follows when free.
AssignHouse(s, c, h, v) ==
    IF s.by[c][h] \notin {None, v} THEN s
    ELSE [s EXCEPT !.by[c][h] = v,
                   !.at[c][v] = IF @ = None THEN h ELSE @]
AssignPosition(s, c, v, h) ==
    IF s.at[c][v] \notin {None, h} THEN s
    ELSE [s EXCEPT !.at[c][v] = h,
                   !.by[c][h] = IF @ = None THEN v ELSE @]

\* compute_candidate_domains, over the values and the houses that are known of.
Universe(s, c) ==
    (IF s.declared THEN Vals ELSE {})
        \cup ({s.by[c][h] : h \in Houses} \ {None})
        \cup {v \in Vals : s.at[c][v] # None}
        \cup UNION {s.out[c][h] : h \in Houses}
ByHouse(s, c, h, universe) ==
    IF s.by[c][h] # None THEN {s.by[c][h]}
    ELSE {v \in universe : v \notin s.out[c][h] /\ s.at[c][v] \in {None, h}}
ByValue(s, c, v, keys, universe) ==
    IF s.at[c][v] # None THEN {s.at[c][v]}
    ELSE {h \in keys : v \in ByHouse(s, c, h, universe)}

\* One pass over a namespace: the domains are those of before the pass.
Singletons(s, c) ==
    LET keys == {h \in Houses : s.by[c][h] # None \/ s.out[c][h] # {}}
        universe == Universe(s, c)
        Place(t, v) ==
            LET houses == ByValue(s, c, v, keys, universe) IN
            IF v \in universe /\ Cardinality(houses) = 1
            THEN AssignHouse(t, c, Min(houses), v) ELSE t
        Fill(t, h) ==
            LET values == ByHouse(s, c, h, universe) IN
            IF h \in keys /\ t.by[c][h] = None /\ Cardinality(values) = 1
            THEN AssignHouse(t, c, h, Min(values)) ELSE t
    IN FoldLeft(Fill, FoldLeft(Place, s, InOrder), InOrder)

RECURSIVE Propagate(_)
Propagate(s) ==
    LET t == FoldLeft(Singletons, s, Cats) IN IF t = s THEN s ELSE Propagate(t)
-------------------------------------------------------------------------------
(* A candidate of a relation: the houses of its two values, and whether it is  *)
(* one of several guesses (domain_branch) or anchored.                         *)
Candidate(l, r, guess) == [l |-> l, r |-> r, guess |-> guess]
Before(i, j) == i.l < j.l \/ (i.l = j.l /\ i.r < j.r)
Few(candidates) == IF Cardinality(candidates) <= MaxBranch THEN candidates ELSE {}

Is(s, fact, h) == s.by[fact[1]][h] = fact[2]
Known(s, fact) == s.at[fact[1]][fact[2]]

May(s, fact, h) ==
    fact[2] \in ByHouse(s, fact[1], h, Universe(s, fact[1]) \cup {fact[2]})
MayBeAt(s, fact) ==
    ByValue(s, fact[1], fact[2], Houses, Universe(s, fact[1]) \cup {fact[2]})

\* _resolve_same_house_candidates
SameHouse(s, k) ==
    LET both == {h \in Houses : Is(s, k.l, h) /\ Is(s, k.r, h)}
        one == {h \in Houses : Is(s, k.l, h) \/ Is(s, k.r, h)}
        shared == {h \in Houses : May(s, k.l, h) /\ May(s, k.r, h)}
        Anchored(houses) == {Candidate(Min(houses), Min(houses), FALSE)}
    IN IF both # {} THEN Anchored(both)
       ELSE IF Cardinality(one) = 1 THEN Anchored(one)
       ELSE IF Cardinality(shared) = 1 THEN Anchored(shared)
       ELSE Few({Candidate(h, h, TRUE) : h \in shared})

\* Houses that no other value of the fact's category has.
Available(s, fact) ==
    Houses \ {s.at[fact[1]][v] : v \in Vals \ {fact[2]}}
\* Faulty: a neighbour is looked for on one side only.
OppositeAfter(s, kind, fact, left, right) ==
    {h \in Available(s, fact) : h = 1 + (IF left = None THEN right ELSE left)}
\* The houses in which a value may be when that of the other one is known.
Opposite(s, kind, fact, left, right) ==
    {h \in Available(s, fact) : Related(kind, IF left = None THEN h ELSE left,
                                              IF right = None THEN h ELSE right)}

\* _resolve_adjacent_candidates, _resolve_offset_candidates
Positional(s, k) ==
    LET left == Known(s, k.l)
        right == Known(s, k.r)
        lefts == IF left # None THEN {left}
                 ELSE IF right # None THEN Opposite(s, k.kind, k.l, None, right)
                 ELSE MayBeAt(s, k.l)
        rights == IF right # None THEN {right}
                  ELSE IF left # None THEN Opposite(s, k.kind, k.r, left, None)
                  ELSE MayBeAt(s, k.r)
        pairs == {<<l, r>> \in lefts \X rights : Related(k.kind, l, r)}
    IN IF left # None /\ right # None THEN {Candidate(left, right, FALSE)}
       ELSE Few({Candidate(q[1], q[2], TRUE) : q \in pairs})

Materialize(s, k) == IF k.kind = "same" THEN SameHouse(s, k) ELSE Positional(s, k)

\* run_binary_relation_candidate, run_positional_relation_candidate: a value is
\* derived without a check; two that are known are checked.
Once(s, fact) == Cardinality({h \in Houses : Is(s, fact, h)}) <= 1
Apart(s, c) == \A v, w \in Vals : v # w /\ s.at[c][v] # None => s.at[c][v] # s.at[c][w]
Passes(s, k, i) ==
    IF k.kind = "same"
    THEN LET left == s.by[k.l[1]][i.l]
             right == s.by[k.r[1]][i.r]
         IN \/ Is(s, k.l, i.l) /\ right = None
            \/ Is(s, k.r, i.r) /\ left = None
            \/ i.guess /\ left = None /\ right = None
            \/ Is(s, k.l, i.l) /\ Is(s, k.r, i.r) /\ Once(s, k.l) /\ Once(s, k.r)
    ELSE None \in {Known(s, k.l), Known(s, k.r)}
         \/ (Related(k.kind, i.l, i.r) /\ Apart(s, k.l[1]) /\ Apart(s, k.r[1]))

\* _build_same_house_effects, and the assignments of the positional outcomes.
Strike(s, fact, h) ==
    [s EXCEPT !.out[fact[1]] = [g \in Houses |-> IF g = h THEN @[g] ELSE @[g] \cup {fact[2]}]]
Effect(s, k, i) ==
    IF k.kind = "same"
    THEN Strike(Strike(AssignHouse(AssignHouse(s, k.l[1], i.l, k.l[2]), k.r[1], i.r, k.r[2]),
                       k.l, i.l), k.r, i.r)
    ELSE AssignPosition(AssignPosition(s, k.l[1], k.l[2], i.l), k.r[1], k.r[2], i.r)

\* apply_result_to_snapshot
Apply(s, k, i) == Propagate(Effect(s, k, i))
-------------------------------------------------------------------------------
\* The relations are the clues that do not name a house; those are the givens.
Specs == SelectSeq(problem.clues, LAMBDA k : k.kind # "position")
Givens == SelectSeq(problem.clues, LAMBDA k : k.kind = "position")
RootSnapshot ==
    FoldLeft(LAMBDA s, k : AssignHouse(s, k.l[1], k.r[2], k.l[2]), Blank, Givens)
Root == << >>

\* A snapshot as it reads now: eliminations are what others left in the buckets.
Read(node, buckets) ==
    [Blank EXCEPT !.by = node.by, !.at = node.at,
                  !.out = [c \in CatSet |-> IF c \in DOMAIN node.bucket
                                            THEN buckets[node.bucket[c]][c] ELSE NoStrikes]]
View(n) == Read(nodes[n], struck)

GraphInit ==
    /\ nodes = [n \in {Root} |-> [by |-> RootSnapshot.by, at |-> RootSnapshot.at, bucket |-> << >>]]
    /\ struck = [n \in {Root} |-> << >>]
    /\ edges = {} /\ current = Root /\ attempted = {}
    /\ pc = IF problem.mode = "two_phase" THEN "propagate" ELSE "walk"

\* A result is a snapshot of its own unless it equals the one it comes from; the
\* strikes it left in a bucket that was there are in that one, too.
Stricken(s) == {c \in CatSet : s.out[c] # NoStrikes}
Differs(s, t) == s.by # t.by \/ s.at # t.at \/ Stricken(s) # Stricken(t)
\* One entry of an expansion, after what the entries before it left.
Run(g, spec, i) ==
    LET node == nodes[current]
        s == Read(node, g.struck)
        t == Apply(s, Specs[spec], i)
        passed == Passes(s, Specs[spec], i)
        to == IF passed /\ Differs(s, t) THEN Append(current, <<spec, i>>) ELSE current
        bucket == [c \in Stricken(t) |-> IF c \in DOMAIN node.bucket THEN node.bucket[c] ELSE to]
        Left == [n \in DOMAIN g.struck \cup {to} |->
                    [c \in {d \in DOMAIN bucket : bucket[d] = n}
                            \cup (IF n \in DOMAIN g.struck THEN DOMAIN g.struck[n] ELSE {}) |->
                        IF c \in DOMAIN bucket /\ bucket[c] = n THEN t.out[c]
                        ELSE g.struck[n][c]]]
    IN [nodes |-> g.nodes @@ (to :> [by |-> t.by, at |-> t.at, bucket |-> bucket]),
        struck |-> IF passed THEN Left ELSE g.struck,
        edges |-> g.edges \cup {[from |-> current, spec |-> spec, entry |-> i,
                                 to |-> to, passed |-> passed]}]
\* expand_state_node: the entries of one relation, run at the node in turn.
Ran(spec, candidates) ==
    FoldLeft(LAMBDA g, i : Run(g, spec, i),
             [nodes |-> nodes, struck |-> struck, edges |-> edges],
             IF Len(current) < MaxDepth THEN SetToSortSeq(candidates, Before) ELSE << >>)
Created(run) == DOMAIN run.nodes \ DOMAIN nodes
Onward(run) ==
    IF Created(run) = {} THEN current
    ELSE CHOOSE n \in Created(run) :
             \A m \in Created(run) : n = m \/ Before(Last(n)[2], Last(m)[2])

\* Faulty: a relation that was tried at one node is not tried at another.
OffersOnce(tried) ==
    [spec \in {k \in DOMAIN Specs : \A a \in attempted : a[2] # k} |->
        Materialize(View(current), Specs[spec])]
\* What each relation offers at the node, for those not tried there yet.
Offers(tried) ==
    [spec \in {k \in DOMAIN Specs : <<tried, k>> \notin attempted} |->
        Materialize(View(current), Specs[spec])]
With(offers, count) ==
    {spec \in DOMAIN offers : Cardinality(offers[spec]) \in count}
\* The first relation with the fewest candidates.
Narrowest(offers, specs) ==
    Min({spec \in specs : \A other \in specs :
             Cardinality(offers[spec]) <= Cardinality(offers[other])})
Try(tried, spec, run) ==
    /\ nodes' = run.nodes /\ struck' = run.struck /\ edges' = run.edges
    /\ attempted' = attempted \cup {<<tried, spec>>}

\* propagate_until_fixpoint: relations with one candidate, first to last; what
\* came to nothing at a node is not gone back to.
Due(offers) ==
    {spec \in With(offers, {1}) : \A a \in attempted : a[1] = current => a[2] < spec}
PropagateStep ==
    /\ pc = "propagate" /\ Len(current) < MaxDepth
    /\ LET offers == Offers(current)
           spec == Min(Due(offers))
           run == Ran(spec, offers[spec])
       IN Due(offers) # {} /\ Try(current, spec, run) /\ current' = Onward(run)
    /\ UNCHANGED pc
Fixpoint ==
    /\ pc = "propagate"
    /\ \/ Len(current) >= MaxDepth /\ pc' = "max_depth"
       \/ Len(current) < MaxDepth /\ Due(Offers(current)) = {} /\ pc' = "branch"
    /\ UNCHANGED <<nodes, struck, edges, current, attempted>>

\* branch_on_best_unresolved; the node with the least hash goes on, no other.
Branch ==
    /\ pc = "branch"
    /\ LET offers == Offers(current)
           several == With(offers, 2..MaxBranch)
           spec == Narrowest(offers, several)
           run == Ran(spec, offers[spec])
       IN /\ several # {} /\ Try(current, spec, run)
          /\ pc' = IF Created(run) = {} THEN "blocked" ELSE "propagate"
          /\ current' \in IF Created(run) = {} THEN {current}
                          ELSE Created(run)
BranchNone ==
    /\ pc = "branch" /\ With(Offers(current), 2..MaxBranch) = {}
    /\ pc' = "blocked"
    /\ UNCHANGED <<nodes, struck, edges, current, attempted>>

\* tick_until_blocked and search_until_blocked: a relation is consumed once.
Walk ==
    /\ pc = "walk"
    /\ LET offers == Offers(None)
           some == With(offers, 1..MaxBranch)
           spec == IF problem.mode = "tick" THEN Min(some) ELSE Narrowest(offers, some)
           run == Ran(spec, offers[spec])
       IN some # {} /\ Try(None, spec, run) /\ current' = Onward(run)
    /\ UNCHANGED pc
WalkEnds ==
    /\ pc = "walk" /\ With(Offers(None), 1..MaxBranch) = {}
    /\ pc' = IF Cardinality(attempted) = Len(Specs) THEN "exhausted" ELSE "blocked"
    /\ UNCHANGED <<nodes, struck, edges, current, attempted>>

GraphNext ==
    /\ PropagateStep \/ Fixpoint \/ Branch \/ BranchNone \/ Walk \/ WalkEnds
    /\ UNCHANGED problem
-------------------------------------------------------------------------------
\* What a snapshot says is so in a placement.
Fits(p, s) ==
    \A c \in CatSet, v \in Vals :
        LET h == p[c][v] IN
        /\ s.at[c][v] \in {None, h}
        /\ s.by[c][h] \in {None, v}
        /\ v \notin s.out[c][h]

\* Two nodes that do not lead to one another have one bucket, and one of them
\* was struck in it: guesses for which nothing more holds, since the code lets
\* each strike what the other still has (state_graph.py:205, 213).
Leads(m, n) == IsPrefix(m, n)
Mixed ==
    \E e \in edges, n \in DOMAIN nodes :
        /\ e.passed /\ Specs[e.spec].kind = "same"
        /\ ~Leads(e.to, n) /\ ~Leads(n, e.to)
        /\ \E c \in DOMAIN nodes[n].bucket \cap {Specs[e.spec].l[1], Specs[e.spec].r[1]} :
               nodes[n].bucket[c] = nodes[e.to].bucket[c]

\* Unless guesses are mixed up, no walk loses a solution: whatever solves the
\* puzzle agrees with a node that is still open, one that leads to no other,
\* although candidates come from domains, eliminations and inverses derived in
\* many small steps and from buckets that later nodes go on to fill
\* (state_graph.py: expand_state_node, apply_result_to_snapshot).
Open == DOMAIN nodes \ {e.from : e \in {f \in edges : f.to # f.from}}
NoSolutionLost ==
    ~Mixed => \A p \in Solutions : \E n \in Open : Fits(p, View(n))

\* The order in which relations are propagated does not matter: when a puzzle
\* has a solution, every order ends in the same snapshot (the code's tests try
\* one pair of orders, test_two_phase_solver_fixpoint_is_stable_across_...).
RECURSIVE Closure(_, _, _)
Closure(s, queue, next) ==
    LET due == {j \in DOMAIN queue :
                   j >= next /\ Cardinality(Materialize(s, Specs[queue[j]])) = 1}
        k == Specs[queue[Min(due)]]
        i == CHOOSE c \in Materialize(s, k) : TRUE
        t == IF Passes(s, k, i) THEN Apply(s, k, i) ELSE s
    IN IF due = {} THEN s ELSE Closure(t, queue, IF Differs(s, t) THEN 1 ELSE Min(due) + 1)
Permuted == {f \in [DOMAIN Specs -> DOMAIN Specs] : \A i, j \in DOMAIN Specs : f[i] = f[j] => i = j}
Unbranched == \A e, f \in edges : e.from = f.from /\ e.spec = f.spec => e = f
FixpointIsStable ==
    pc = "branch" /\ Unbranched /\ Solutions # {} =>
        \A queue \in Permuted : Closure(View(Root), queue, 1) = View(current)
===============================================================================
