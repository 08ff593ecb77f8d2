-------------------------------- MODULE AsmRun --------------------------------
(* How assembly_dsl.py runs a program: a GEN goes to a pool of threads and     *)
(* leaves a future in its register; the first instruction that reads the       *)
(* register waits for it. A pool thread holds its endpoint's lock while it     *)
(* generates. At the end what is still a future is given a minute to answer.   *)
EXTENDS AsmMachine, FiniteSets

CONSTANTS
    PoolSize,  \* threads of the pool (8 in the code), shared by all contexts
    MaxJobs    \* bound: generations of one run

ASSUME AsmRunAssumption == PoolSize \in Nat \ {0} /\ MaxJobs \in Nat

VARIABLE job   \* the generations submitted, in the order of the pool's queue
vars == <<machine, job>>

Future(f) == <<"future", f>>
Unfinished == {"queued", "waiting", "asked"}

Init == MachineInit /\ job = << >>
-------------------------------------------------------------------------------
(* The thread that runs the program.                                           *)
Pending(v) == Tag(v) = "future" /\ job[v[2]].state \in Unfinished
Failed(v) == Tag(v) = "future" /\ job[v[2]].state = "failed"
Ready == \A k \in DOMAIN Reads : ~Pending(Val(Top, Reads[k])) /\ ~Failed(Val(Top, Reads[k]))

\* Faulty: a pending register is read as it stands.
AsIs(e) == e
\* What is read is awaited, and the answer kept in the register.
Awaited(e) == [r \in Regs |->
    IF Tag(e[r]) = "future" /\ \E k \in DOMAIN Reads : Reads[k] = r
    THEN Answer(job[e[r][2]].asked) ELSE e[r]]

Main == Ready /\ Advance(Awaited(Top)) /\ UNCHANGED job

Submit ==
    /\ Due("GEN") /\ Ready /\ Len(job) < MaxJobs
    /\ LET source == Val(Awaited(Top), Here.src) IN
       job' = Append(job, [source |-> source, url |-> Here.url, context |-> Len(env),
                           given |-> Content(source), asked |-> Nothing, state |-> "queued"])
    /\ SetTop([Awaited(Top) EXCEPT ![Here.dst] = Future(Len(job'))])
    /\ Continue(Goto(Frame.ip + 1))
    /\ UNCHANGED <<heap, out>>

\* The exception of a generation is raised where its register is read; a probe
\* runs in this thread and raises here.
Except ==
    /\ \/ \E k \in DOMAIN Reads : /\ Failed(Val(Top, Reads[k]))
                                  /\ \A j \in 1..(k - 1) : ~Pending(Val(Top, Reads[j]))
       \/ Due("PROBE") /\ Ready
    /\ Raise /\ UNCHANGED job

\* What has not answered in time, or has failed, comes out as nothing.
End ==
    /\ Export([r \in Regs |->
           IF Tag(Top[r]) # "future" THEN Top[r]
           ELSE IF job[Top[r][2]].state = "done" THEN Answer(job[Top[r][2]].asked) ELSE Nothing])
    /\ UNCHANGED job

(* The pool.                                                                   *)
Enters(f, state) == job' = [job EXCEPT ![f].state = state] /\ UNCHANGED machine
InState(f, state) == f \in DOMAIN job /\ job[f].state = state
Busy == {f \in DOMAIN job : job[f].state \in {"waiting", "asked"}}

Take(f) ==
    /\ InState(f, "queued") /\ \A g \in 1..(f - 1) : job[g].state # "queued"
    /\ Cardinality(Busy) < PoolSize
    /\ Enters(f, "waiting")

\* A child context shares its parent's locks: one for each URL.
LockOf(f) == <<job[f].url>>
\* Faulty: a generation that fails does not release its lock.
HeldOnFailure(f) == job[f].state \in {"asked", "failed"}
Holds(f) == job[f].state = "asked"

\* The messages are read here, from the chat the program was given.
Ask(f) ==
    /\ InState(f, "waiting")
    /\ \A g \in DOMAIN job : g # f /\ Holds(g) => LockOf(g) # LockOf(f)
    /\ job' = [job EXCEPT ![f].state = "asked", ![f].asked = Content(job[f].source)]
    /\ UNCHANGED machine

Answered(f) == InState(f, "asked") /\ Enters(f, "done")
Fails(f) == InState(f, "asked") /\ Enters(f, "failed")
-------------------------------------------------------------------------------
Program == Main \/ Submit \/ Except \/ End
Next == Program \/ \E f \in 1..MaxJobs : Take(f) \/ Ask(f) \/ Answered(f) \/ Fails(f)

\* Threads run; a request to a model ends, if only by its timeout.
Fairness == /\ WF_vars(Program)
            /\ \A f \in 1..MaxJobs : WF_vars(Take(f)) /\ WF_vars(Ask(f))
                                     /\ WF_vars(Answered(f) \/ Fails(f))

Spec == Init /\ [][Next]_vars /\ Fairness
-------------------------------------------------------------------------------
\* Seen from the program, a future is the answer it will be given.
Eventually(v) ==
    IF Tag(v) # "future" THEN v
    ELSE IF job[v[2]].asked # Nothing THEN Answer(job[v[2]].asked)
    ELSE Answer(Content(job[v[2]].source))

Seen == [c \in DOMAIN env |-> [r \in Regs |-> Eventually(env[c][r])]]
Sync == INSTANCE AsmSync WITH env <- Seen

\* A program with generations in the background computes what it would compute if
\* each were answered at once, whatever order they are taken and answered in.
ImplementsSync == Sync!Spec

\* One endpoint is never asked two things at once by the pool, also when the
\* program and the functions it calls generate in the background together.
EndpointExclusive == \A f, g \in DOMAIN job :
    job[f].state = "asked" /\ job[g].state = "asked" /\ job[f].url = job[g].url => f = g

\* Every run comes to an end and every generation does, also after the run has
\* ended without it; an error of one does not hold up the others.
Settles == <>[](out # Nothing /\ \A f \in DOMAIN job : job[f].state \notin Unfinished)

\* A generation is asked what its source was when it was submitted.
AskedWhatWasGiven == \A f \in DOMAIN job :
    job[f].asked # Nothing => job[f].asked = job[f].given
===============================================================================
