------------------------------ MODULE MCBehavior ------------------------------
(* One node with two keys, the draft written by its handlers and the style,    *)
(* beside the task and the temperature of the tree's global_meta; two clients.  *)
EXTENDS BehaviorStore, TLC

CONSTANTS node, draft, style, task, temperature, c1, c2

MCPaths == {draft, style, task, temperature}
MCOwner == (draft :> node @@ style :> node @@ task :> Tree @@ temperature :> Tree)
MCOutputs == (node :> {draft})
GlobalOnly == {task}
WholeTree == {draft, style, task}

ClientSymmetry == Permutations(Clients)
===============================================================================
