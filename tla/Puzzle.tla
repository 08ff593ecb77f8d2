-------------------------------- MODULE Puzzle --------------------------------
(* Logic puzzles over a row of houses (core/schema_engine.py): categories with *)
(* one value per house, clues that relate two values or a value and a house,   *)
(* and the reference that says which placements satisfy them: the validator.   *)
EXTENDS Integers, Sequences, FiniteSets

CONSTANTS
    N,      \* houses, and values in a category (5 in the code's example)
    Cats    \* the categories, in the order of the schema

ASSUME PuzzleAssumption == N \in Nat \ {0} /\ Cats # << >>

VARIABLE problem  \* [clues, declared, mode]: what is being solved, and how

Houses == 1..N
Vals == 1..N      \* the values of a category; a fact is <<category, value>> or <<"position", house>>
None == 0
CatSet == {Cats[k] : k \in DOMAIN Cats}
InOrder == [k \in 1..N |-> k]

Same(l, r) == [kind |-> "same", l |-> l, r |-> r]
NextTo(l, r) == [kind |-> "next_to", l |-> l, r |-> r]
\* The second is in the house after the first (an OffsetPair names it first).
DirectlyRight(l, r) == [kind |-> "directly_right", l |-> l, r |-> r]
Position(l, h) == [kind |-> "position", l |-> l, r |-> <<"position", h>>]

Orders == {f \in [Vals -> Houses] : \A v, w \in Vals : v # w => f[v] # f[w]}
Placements == [CatSet -> Orders]

Related(kind, left, right) ==
    CASE kind \in {"same", "position"} -> left = right
      [] kind = "next_to" -> left - right \in {1, -1}
      [] kind = "directly_right" -> right = left + 1

Where(p, fact) == IF fact[1] = "position" THEN fact[2] ELSE p[fact[1]][fact[2]]
Holds(p, k) == Related(k.kind, Where(p, k.l), Where(p, k.r))

\* is_valid: every validator accepts the solved state.
Valid(p, clues) == \A i \in DOMAIN clues : Holds(p, clues[i])
Solutions == {p \in Placements : Valid(p, problem.clues)}
===============================================================================
