------------------------------- MODULE MCPuzzle -------------------------------
(* Three houses, two categories, any five clues of a pool; each puzzle is     *)
(* given to the drivers of the graph and to the engines.                      *)
EXTENDS StateGraph, PuzzleEngines

CONSTANT Size  \* clues in a puzzle
TwoCats == <<"color", "pet">>
Color(v) == <<"color", v>>
Pet(v) == <<"pet", v>>
Pool == <<Position(Color(1), 1), Same(Color(1), Pet(2)), NextTo(Color(1), Pet(1)),
          DirectlyRight(Color(1), Pet(2)), Position(Pet(2), 2), Same(Color(2), Pet(1)),
          NextTo(Pet(2), Pet(3)), DirectlyRight(Pet(1), Pet(2)), NextTo(Color(1), Color(2)),
          DirectlyRight(Color(3), Color(1)), Same(Color(3), Pet(3))>>
Increasing(t) == \A i, j \in DOMAIN t : i < j => t[i] < t[j]
Chosen == {t \in [1..Size -> DOMAIN Pool] : Increasing(t)}
Clues == {[i \in 1..Size |-> Pool[t[i]]] : t \in Chosen}

Init ==
    /\ problem \in [clues : Clues, declared : BOOLEAN,
                    mode : {"two_phase", "tick", "search", "engines"}]
    /\ problem.mode = "engines" => ~problem.declared
    /\ GraphInit /\ EngineInit
    /\ problem.mode # "engines" => order = Cats
Next ==
    \/ problem.mode # "engines" /\ GraphNext /\ UNCHANGED engine
    \/ problem.mode = "engines" /\ EngineNext /\ UNCHANGED graph
Spec == Init /\ [][Next]_<<problem, graph, engine>>
===============================================================================
