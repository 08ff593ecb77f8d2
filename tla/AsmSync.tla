-------------------------------- MODULE AsmSync -------------------------------
(* What an assembly program means: it runs as if every GEN were answered at    *)
(* once, except that it may end in an error, and that a register which holds   *)
(* an answer may come out empty.                                               *)
EXTENDS AsmMachine

Generate ==
    /\ Due("GEN")
    /\ SetTop([Top EXCEPT ![Here.dst] = Answer(Content(Val(Top, Here.src)))])
    /\ Continue(Goto(Frame.ip + 1))
    /\ UNCHANGED <<heap, out>>

Finish == \E lost \in SUBSET {r \in Regs : Tag(Top[r]) = "answer"} :
    Export([r \in Regs |-> IF r \in lost THEN Nothing ELSE Top[r]])

Next == Advance(Top) \/ Generate \/ Raise \/ Finish

Spec == MachineInit /\ [][Next]_machine
===============================================================================
