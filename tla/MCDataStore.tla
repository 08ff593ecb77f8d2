----------------------------- MODULE MCDataStore ------------------------------
(* One namespace clients work on, with a table and a record schema over two    *)
(* keys, the namespaces the server and the contract routes use, one contract   *)
(* with an automatic and a manual slot, two pool threads and one crash.        *)
EXTENDS DataStore, TLC

CONSTANTS text, row, col, free, fact, fact_list, note, other, yes, one, flag

Cell == <<row, col>>
Free == <<free>>
MCBoot == <<text, RevNs>>
MCKindOf == (yes :> "string" @@ one :> "number" @@ flag :> "bool")
Table == [type |-> "table", rows |-> {row}, columns |-> {col}, enum |-> TRUE,
          domain |-> {yes}, default |-> yes]
Record == [type |-> "record",
           fields |-> Free :> [type |-> "number", default |-> one]]
Checklist == [type |-> "checklist", items |-> {Free}, states |-> {yes}, default |-> yes]
MCSchemas == {Table, Record, Checklist}
MCWrites == {Cell :> yes, (Cell :> one @@ Free :> flag)}
MCListOf == (fact :> fact_list @@ fact_list :> None @@ note :> None @@ other :> None)
MCContract == <<[bind |-> fact_list, accept |-> "auto", ds |-> TRUE],
                [bind |-> note, accept |-> "manual", ds |-> FALSE]>>
Given(key, value) == [key |-> key, value |-> value]
MCProposals == {<<Given(fact_list, one), Given(fact, yes)>>,
                <<Given(fact, yes), Given(note, yes), Given(other, yes)>>}
MCBindings == {[slot |-> fact_list, value |-> yes], [slot |-> fact_list, value |-> None],
               [slot |-> note, value |-> one]}
===============================================================================
