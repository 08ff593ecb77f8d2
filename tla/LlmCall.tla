------------------------------- MODULE LlmCall --------------------------------
(* llm_continue.py: one call of llm_call_with_continue. The server answers in  *)
(* pieces; as long as a piece ends because its length was used up, the call    *)
(* asks again for the rest of what it has. An answer that is empty is polled,  *)
(* a broken connection is tried once more, any other failure ends the loop     *)
(* with what has come in, or raises.                                           *)
EXTENDS Integers, Sequences

CONSTANT Pieces   \* what the server may send in one response, as texts
ASSUME LlmCallAssumption == Pieces \subseteq Seq(STRING)

VARIABLES call,   \* the call's locals
          heard   \* history: what the server has sent, in order

Think == <<"think">>          \* the empty think block that stands for no_think
Strip(text) ==
    LET kept[n \in 0..Len(text)] ==
            IF n = 0 THEN << >>
            ELSE IF text[n] = "think" THEN kept[n - 1] ELSE Append(kept[n - 1], text[n])
    IN kept[Len(text)]
Blank(text) == text = << >>
Idle == [at |-> "idle"]

(* how = [instruct, noThink, onLength, limit, prompt, prefill]: the prompt is  *)
(* what the messages say before an assistant message that the model goes on    *)
(* with, prefill (empty if there is none).                                     *)
Opening(how) == IF ~how.instruct /\ how.noThink /\ how.prefill = << >> THEN Think ELSE how.prefill

Begin(how) ==
    call' = [at |-> "ask", how |-> how, turn |-> 0, result |-> << >>, finish |-> "stop",
             responses |-> 0, empty |-> 0]

\* What a request puts before the model: an assistant message is replaced by what
\* has been generated (behind the empty think block), or one is added.
Asked(c) ==
    c.how.prompt \o
    (IF c.turn = 0 \/ c.how.instruct THEN Opening(c.how) \o c.result
     ELSE IF Opening(c.how) # << >> THEN (IF c.how.noThink THEN Think ELSE << >>) \o c.result
     ELSE c.result)

Asking == call.at \in {"ask", "retry"}
Last == call.turn = call.how.limit
NextTurn(c) == IF Last THEN [c EXCEPT !.at = "over"]
               ELSE [c EXCEPT !.at = "ask", !.turn = @ + 1]

GoesOn(finish) == call.how.onLength /\ finish = "length"
\* Faulty: the second try starts the answer anew.
ReceivedAfresh(piece, finish) ==
    LET c == [call EXCEPT !.result = IF call.at = "retry" THEN piece ELSE @ \o piece,
                          !.finish = finish, !.responses = @ + 1, !.empty = 0]
    IN  IF GoesOn(finish) THEN NextTurn(c) ELSE [c EXCEPT !.at = "over"]
Received(piece, finish) ==
    LET c == [call EXCEPT !.result = @ \o piece, !.finish = finish,
                          !.responses = @ + 1, !.empty = 0]
    IN  IF GoesOn(finish) THEN NextTurn(c) ELSE [c EXCEPT !.at = "over"]

Chunk ==
    /\ Asking
    /\ \E piece \in Pieces, finish \in {"stop", "length"} :
          /\ call' = Received(piece, finish)
          /\ heard' = heard \o piece

\* Faulty: polling costs nothing.
EmptyForFree ==
    /\ Asking /\ ~call.how.instruct
    /\ call' = [call EXCEPT !.at = "ask"]
    /\ UNCHANGED heard

\* A chat response without a body: asked again, at the cost of a turn.
Empty ==
    /\ Asking /\ ~call.how.instruct
    /\ call' = LET c == [call EXCEPT !.empty = @ + 1] IN
               IF c.empty > call.how.limit THEN [c EXCEPT !.at = "over"] ELSE NextTurn(c)
    /\ UNCHANGED heard

Breaks ==
    /\ Asking
    /\ call' = [call EXCEPT !.at = IF call.at = "ask" THEN "retry" ELSE "over"]
    /\ UNCHANGED heard

Refused == Asking /\ call' = [call EXCEPT !.at = "over"] /\ UNCHANGED heard

\* A timeout, or a body that is not JSON; on the second try it only ends the loop.
Garbled ==
    /\ Asking
    /\ call' = [call EXCEPT !.at = IF call.at = "ask" THEN "raised" ELSE "over"]
    /\ UNCHANGED heard

CallStep == Chunk \/ Empty \/ Breaks \/ Refused \/ Garbled

Returned == call.at = "over" /\ ~Blank(call.result)
Raised == call.at = "raised" \/ (call.at = "over" /\ Blank(call.result))
===============================================================================
