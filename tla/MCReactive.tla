------------------------------ MODULE MCReactive ------------------------------
(* Two entities, one of them added later; a listener that sets itself off and *)
(* one that copies into another property; a thread beside the event loop.      *)
EXTENDS ReactiveTask

CONSTANTS e1, e2, v1, v2
TwoIds == <<e1, e2>>
FourProps == <<"text", "field", "validated", "_error">>
On(p, q, op) == [on |-> p, writes |-> q, op |-> op]
TwoAtOnce == {[text |-> v1, field |-> v2]}
Cascade == <<On("text", "text", "flip"), On("text", "field", "copy")>>
===============================================================================
