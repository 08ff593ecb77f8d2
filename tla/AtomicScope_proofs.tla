--------------------------- MODULE AtomicScope_proofs ---------------------------
(* Proof that a pass over a list of steps runs every step that can run, once,  *)
(* in whatever order the list has them, and calls a deadlock only what is one; *)
(* and that every request to the model holds all that it was given and all     *)
(* that it has answered, unless a prefill is continued over several turns.     *)
EXTENDS AtomicScope, FiniteSetTheorems, SequenceTheorems, WellFoundedInduction, TLAPS

Rest == {todo[i] : i \in DOMAIN todo}
Waiting == {later[i] : i \in DOMAIN later}
Distinct(s) == \A i, j \in DOMAIN s : s[i] = s[j] => i = j

\* A list and the numbers of its steps.
TypeOK ==
    /\ request \in Requests /\ pass \in Nat /\ rounds \in Nat /\ moved \in BOOLEAN
    /\ todo \in Seq(DOMAIN List) /\ later \in Seq(DOMAIN List) /\ ran \in Seq(DOMAIN List)
    /\ DOMAIN scope = Names

\* Every step has run, is still to be looked at in this round, or was found
\* waiting in it: one of the three, and once.
SplitInv ==
    /\ Distinct(todo) /\ Distinct(later) /\ Distinct(ran)
    /\ RanSteps \cap Rest = {} /\ RanSteps \cap Waiting = {} /\ Rest \cap Waiting = {}
    /\ RanSteps \cup Rest \cup Waiting = DOMAIN List
    /\ Len(ran) + Len(todo) + Len(later) = Len(List)

\* The names in scope are those known when the pass began and those made in it.
NamesInv == \A n \in Names : IsIn(n) <=> n \in known \cup Makes(RanSteps)

\* What has run belongs to every set that is closed.
LeastInv == \A S \in SUBSET DOMAIN List : Closed(S) => RanSteps \subseteq S

\* In a round that has run nothing yet, what was found waiting still waits; and
\* every round before it has run something.
RoundInv ==
    /\ ~moved => \A k \in Waiting : ~Ready(List[k])
    /\ rounds <= Len(ran) + 1 /\ (moved => rounds <= Len(ran))

\* The step that the model is asked for is ready; a deadlock is a round's end.
PlaceInv ==
    /\ At("calling") => todo # << >> /\ Ready(Here)
    /\ status = "deadlock" => todo = << >> /\ ~moved

Inv == TypeOK /\ SplitInv /\ NamesInv /\ LeastInv /\ RoundInv /\ PlaceInv
-------------------------------------------------------------------------------
(* Lists and sequences.                                                        *)
LEMMA ListType ==
    ASSUME TypeOK
    PROVE  /\ Len(List) \in Nat /\ DOMAIN List = 1..Len(List)
           /\ \A k \in DOMAIN List : List[k].on \subseteq Names /\ List[k].out \in Names \cup {NoName}
<1>1. List \in {request.setup, request.loop}  BY DEF List
<1>2. List \in Seq({List[k] : k \in DOMAIN List})
  BY <1>1, AtomicScopeAssumption DEF TypeOK
<1>3. \A k \in DOMAIN List : List[k].on \subseteq Names /\ List[k].out \in Names \cup {NoName}
  BY <1>1, AtomicScopeAssumption DEF TypeOK
<1>. QED  BY <1>2, <1>3

\* A sequence without repetition has as many elements as it is long.
LEMMA DistinctLength ==
    ASSUME NEW S, NEW s \in Seq(S), Distinct(s)
    PROVE  Len(s) = Cardinality({s[i] : i \in DOMAIN s})
<1>. DEFINE T == {s[i] : i \in DOMAIN s}  D == 1..Len(s)  f == [i \in D |-> s[i]]
<1>1. Len(s) \in Nat /\ D = DOMAIN s  OBVIOUS
<1>2. f \in Bijection(D, T)
  BY <1>1 DEF Bijection, Injection, Surjection, IsInjective, Distinct
<1>3. IsFiniteSet(D) /\ Cardinality(D) = Len(s)  BY <1>1, FS_Interval, SMTT(30)
<1>4. ExistsBijection(D, T)  BY <1>2 DEF ExistsBijection
<1>5. IsFiniteSet(T) /\ Cardinality(D) = Cardinality(T)
  BY <1>3, <1>4, FS_Bijection
<1>. QED  BY <1>3, <1>5
-------------------------------------------------------------------------------
(* Steps.                                                                      *)
Lists == <<request, pass, todo, later, moved, rounds, scope, ran, known>>

LEMMA Unmoved ==
    ASSUME TypeOK, SplitInv, NamesInv, LeastInv, RoundInv, UNCHANGED Lists
    PROVE  TypeOK' /\ SplitInv' /\ NamesInv' /\ LeastInv' /\ RoundInv'
<1>1. List' = List  BY DEF Lists, List
<1>2. TypeOK'  BY <1>1 DEF TypeOK, Lists
<1>3. RanSteps' = RanSteps /\ Rest' = Rest /\ Waiting' = Waiting  BY DEF RanSteps, Rest, Waiting, Lists
<1>4. SplitInv'  BY <1>1, <1>3 DEF SplitInv, Distinct, Lists
<1>5. NamesInv'  BY <1>1, <1>3 DEF NamesInv, IsIn, Makes, Lists
<1>6. LeastInv'  BY <1>1, <1>3 DEF LeastInv, Closed, Makes, Lists
<1>7. RoundInv'  BY <1>1, <1>3 DEF RoundInv, Ready, IsIn, Lists
<1>. QED  BY <1>2, <1>4, <1>5, <1>6, <1>7

LEMMA StoreStep ==
    ASSUME Inv, todo # << >>, Ready(Here), status = "running", NEW result, NEW grown,
           result # Nothing, Store(Here, result, grown)
    PROVE  Inv'
<1>. DEFINE h == Head(todo)
<1>. USE ListType
<1>t. TypeOK  BY DEF Inv
<1>1. /\ List' = List /\ Here = List[h] /\ h \in DOMAIN List /\ h \in Rest
      /\ todo' = Tail(todo) /\ ran' = Append(ran, h) /\ later' = later /\ rounds' = rounds
      /\ moved' = TRUE /\ known' = known /\ request' = request /\ pass' = pass /\ status' = status
  BY <1>t DEF Store, route, List, Here, TypeOK, Rest
<1>. HIDE DEF h
<1>2. TypeOK'
  <2>1. todo' \in Seq(DOMAIN List) /\ ran' \in Seq(DOMAIN List)  BY <1>t, <1>1 DEF TypeOK
  <2>2. DOMAIN scope' = Names  BY <1>t DEF Store, TypeOK
  <2>. QED  BY <1>t, <1>1, <2>1, <2>2 DEF TypeOK
<1>3. /\ Rest' = Rest \ {h} /\ RanSteps' = RanSteps \cup {h} /\ Waiting' = Waiting
      /\ Distinct(todo)' /\ Distinct(ran)'
      /\ Len(ran') = Len(ran) + 1 /\ Len(todo') = Len(todo) - 1
  <2>1. /\ Len(todo) \in Nat \ {0} /\ Len(todo') = Len(todo) - 1 /\ DOMAIN todo = 1..Len(todo)
        /\ DOMAIN todo' = 1..Len(todo') /\ \A i \in DOMAIN todo' : todo'[i] = todo[i + 1]
        /\ h = todo[1]
    BY <1>t, <1>1 DEF TypeOK, h
  <2>2. /\ Len(ran) \in Nat /\ Len(ran') = Len(ran) + 1 /\ DOMAIN ran = 1..Len(ran)
        /\ DOMAIN ran' = 1..Len(ran') /\ \A i \in DOMAIN ran : ran'[i] = ran[i]
        /\ ran'[Len(ran')] = h
    BY <1>t, <1>1 DEF TypeOK
  <2>3. Distinct(todo) /\ Distinct(ran) /\ RanSteps \cap Rest = {}  BY DEF Inv, SplitInv
  <2>4. Rest' = Rest \ {h}
    <3>1. ASSUME NEW i \in DOMAIN todo, todo[i] # h  PROVE  i - 1 \in DOMAIN todo' /\ todo'[i - 1] = todo[i]
      BY <2>1, <3>1
    <3>2. ASSUME NEW i \in DOMAIN todo'  PROVE  i + 1 \in DOMAIN todo /\ todo'[i] = todo[i + 1] /\ todo'[i] # h
      BY <2>1, <2>3, <3>2 DEF Distinct
    <3>. QED  BY <3>1, <3>2 DEF Rest
  <2>5. RanSteps' = RanSteps \cup {h}
    <3>1. \A i \in DOMAIN ran' : i \in DOMAIN ran \/ ran'[i] = h  BY <2>2
    <3>2. Len(ran') \in DOMAIN ran' /\ DOMAIN ran \subseteq DOMAIN ran'  BY <2>2
    <3>. QED  BY <2>2, <3>1, <3>2 DEF RanSteps
  <2>6. Distinct(todo)'  BY <2>1, <2>3 DEF Distinct
  <2>7. \A i \in DOMAIN ran : ran[i] # h  BY <1>1, <2>3 DEF RanSteps
  <2>8. Distinct(ran)'  BY <2>2, <2>3, <2>7 DEF Distinct
  <2>9. Waiting' = Waiting  BY <1>1 DEF Waiting
  <2>. QED  BY <2>1, <2>2, <2>4, <2>5, <2>6, <2>8, <2>9
<1>4. SplitInv'
  <2>1. Distinct(later)'  BY <1>1 DEF Inv, SplitInv, Distinct
  <2>2. RanSteps' \cup Rest' \cup Waiting' = DOMAIN List'  BY <1>1, <1>3 DEF Inv, SplitInv
  <2>3. RanSteps' \cap Rest' = {} /\ RanSteps' \cap Waiting' = {} /\ Rest' \cap Waiting' = {}
    BY <1>1, <1>3 DEF Inv, SplitInv
  <2>4. Len(ran') + Len(todo') + Len(later') = Len(List')
    BY <1>t, <1>1, <1>3 DEF Inv, SplitInv, TypeOK
  <2>. QED  BY <1>3, <2>1, <2>2, <2>3, <2>4 DEF SplitInv
<1>5. NamesInv'
  <2>1. \A n \in Names : IsIn(n)' <=> (IsIn(n) \/ n = Here.out)
    BY <1>t, <1>1, AtomicScopeAssumption DEF Store, IsIn, TypeOK, Nothing
  <2>2. Makes(RanSteps)' = Makes(RanSteps) \cup {Here.out}  BY <1>1, <1>3 DEF Makes
  <2>. QED  BY <1>1, <2>1, <2>2 DEF Inv, NamesInv
<1>6. LeastInv'
  <2>1. SUFFICES ASSUME NEW S \in SUBSET DOMAIN List, Closed(S)'  PROVE  RanSteps' \subseteq S
    BY <1>1 DEF LeastInv
  <2>2. Closed(S)  BY <1>1, <2>1 DEF Closed, Makes
  <2>3. RanSteps \subseteq S  BY <2>2 DEF Inv, LeastInv
  <2>4. Here.on \subseteq known \cup Makes(RanSteps)
    BY <1>t, <1>1 DEF Inv, NamesInv, Ready
  <2>5. h \in S  BY <1>1, <2>2, <2>3, <2>4 DEF Closed, Makes
  <2>. QED  BY <1>3, <2>3, <2>5
<1>7. RoundInv'
  BY <1>t, <1>1, <1>3 DEF Inv, RoundInv, TypeOK
<1>8. PlaceInv'  BY <1>1 DEF Store, PlaceInv, At
<1>. QED  BY <1>2, <1>4, <1>5, <1>6, <1>7, <1>8 DEF Inv

LEMMA DeferStep ==
    ASSUME Inv, Defer
    PROVE  Inv'
<1>. DEFINE h == Head(todo)
<1>. USE ListType
<1>t. TypeOK /\ todo # << >>  BY DEF Inv, Defer
<1>1. /\ List' = List /\ Here = List[h] /\ h \in DOMAIN List /\ h \in Rest /\ ~Ready(Here)
      /\ todo' = Tail(todo) /\ later' = Append(later, h)
      /\ UNCHANGED <<ran, rounds, moved, known, request, pass, status, scope, at>>
  BY <1>t DEF Defer, route, List, Here, TypeOK, Rest
<1>. HIDE DEF h
<1>2. TypeOK'
  <2>1. todo' \in Seq(DOMAIN List) /\ later' \in Seq(DOMAIN List)  BY <1>t, <1>1 DEF TypeOK
  <2>. QED  BY <1>t, <1>1, <2>1 DEF TypeOK
<1>3. /\ Rest' = Rest \ {h} /\ Waiting' = Waiting \cup {h} /\ RanSteps' = RanSteps
      /\ Distinct(todo)' /\ Distinct(later)'
      /\ Len(later') = Len(later) + 1 /\ Len(todo') = Len(todo) - 1
  <2>1. /\ Len(todo) \in Nat \ {0} /\ Len(todo') = Len(todo) - 1 /\ DOMAIN todo = 1..Len(todo)
        /\ DOMAIN todo' = 1..Len(todo') /\ \A i \in DOMAIN todo' : todo'[i] = todo[i + 1]
        /\ h = todo[1]
    BY <1>t, <1>1 DEF TypeOK, h
  <2>2. /\ Len(later) \in Nat /\ Len(later') = Len(later) + 1 /\ DOMAIN later = 1..Len(later)
        /\ DOMAIN later' = 1..Len(later') /\ \A i \in DOMAIN later : later'[i] = later[i]
        /\ later'[Len(later')] = h
    BY <1>t, <1>1 DEF TypeOK
  <2>3. Distinct(todo) /\ Distinct(later) /\ Rest \cap Waiting = {}  BY DEF Inv, SplitInv
  <2>4. Rest' = Rest \ {h}
    <3>1. ASSUME NEW i \in DOMAIN todo, todo[i] # h  PROVE  i - 1 \in DOMAIN todo' /\ todo'[i - 1] = todo[i]
      BY <2>1, <3>1
    <3>2. ASSUME NEW i \in DOMAIN todo'  PROVE  i + 1 \in DOMAIN todo /\ todo'[i] = todo[i + 1] /\ todo'[i] # h
      BY <2>1, <2>3, <3>2 DEF Distinct
    <3>. QED  BY <3>1, <3>2 DEF Rest
  <2>5. Waiting' = Waiting \cup {h}
    <3>1. \A i \in DOMAIN later' : i \in DOMAIN later \/ later'[i] = h  BY <2>2
    <3>2. Len(later') \in DOMAIN later' /\ DOMAIN later \subseteq DOMAIN later'  BY <2>2
    <3>. QED  BY <2>2, <3>1, <3>2 DEF Waiting
  <2>6. Distinct(todo)'  BY <2>1, <2>3 DEF Distinct
  <2>7. \A i \in DOMAIN later : later[i] # h  BY <1>1, <2>3 DEF Waiting
  <2>8. Distinct(later)'  BY <2>2, <2>3, <2>7 DEF Distinct
  <2>9. RanSteps' = RanSteps  BY <1>1 DEF RanSteps
  <2>. QED  BY <2>1, <2>2, <2>4, <2>5, <2>6, <2>8, <2>9
<1>4. SplitInv'
  <2>1. Distinct(ran)'  BY <1>1 DEF Inv, SplitInv, Distinct
  <2>2. RanSteps' \cup Rest' \cup Waiting' = DOMAIN List'  BY <1>1, <1>3 DEF Inv, SplitInv
  <2>3. RanSteps' \cap Rest' = {} /\ RanSteps' \cap Waiting' = {} /\ Rest' \cap Waiting' = {}
    BY <1>1, <1>3 DEF Inv, SplitInv
  <2>4. Len(ran') + Len(todo') + Len(later') = Len(List')
    BY <1>t, <1>1, <1>3 DEF Inv, SplitInv, TypeOK
  <2>. QED  BY <1>3, <2>1, <2>2, <2>3, <2>4 DEF SplitInv
<1>5. NamesInv'  BY <1>1, <1>3 DEF Inv, NamesInv, IsIn, Makes
<1>6. LeastInv'  BY <1>1, <1>3 DEF Inv, LeastInv, Closed, Makes
<1>7. RoundInv'
  <2>1. \A k \in DOMAIN List : Ready(List[k])' = Ready(List[k])  BY <1>1 DEF Ready, IsIn
  <2>2. ~moved' => \A k \in Waiting' : ~Ready(List[k])'
    BY <1>t, <1>1, <1>3, <2>1 DEF Inv, RoundInv, SplitInv
  <2>. QED  BY <1>1, <2>2 DEF Inv, RoundInv
<1>8. PlaceInv'  BY <1>1 DEF Defer, At, PlaceInv
<1>. QED  BY <1>2, <1>4, <1>5, <1>6, <1>7, <1>8 DEF Inv

LEMMA NextRoundStep ==
    ASSUME Inv, NextRound
    PROVE  Inv'
<1>. USE ListType
<1>t. TypeOK  BY DEF Inv
<1>1. /\ List' = List /\ todo = << >> /\ moved /\ todo' = later /\ later' = << >> /\ moved' = FALSE
      /\ rounds' = rounds + 1
      /\ UNCHANGED <<ran, known, request, pass, status, scope, at>>
  BY DEF NextRound, route, List
<1>2. TypeOK'
  <2>1. todo' \in Seq(DOMAIN List) /\ later' \in Seq(DOMAIN List) /\ rounds' \in Nat
    BY <1>t, <1>1 DEF TypeOK
  <2>. QED  BY <1>t, <1>1, <2>1 DEF TypeOK
<1>3. Rest = {} /\ Rest' = Waiting /\ Waiting' = {} /\ RanSteps' = RanSteps
  BY <1>1 DEF Rest, Waiting, RanSteps
<1>4. SplitInv'
  <2>1. Distinct(todo)' /\ Distinct(later)' /\ Distinct(ran)'  BY <1>1 DEF Inv, SplitInv, Distinct
  <2>2. Len(ran') + Len(todo') + Len(later') = Len(List')
    BY <1>t, <1>1 DEF Inv, SplitInv, TypeOK
  <2>. QED  BY <1>1, <1>3, <2>1, <2>2 DEF Inv, SplitInv
<1>5. NamesInv'  BY <1>1, <1>3 DEF Inv, NamesInv, IsIn, Makes
<1>6. LeastInv'  BY <1>1, <1>3 DEF Inv, LeastInv, Closed, Makes
<1>7. RoundInv'  BY <1>t, <1>1, <1>3 DEF Inv, RoundInv, TypeOK
<1>8. PlaceInv'  BY <1>1 DEF NextRound, At, PlaceInv
<1>. QED  BY <1>2, <1>4, <1>5, <1>6, <1>7, <1>8 DEF Inv

\* A pass begins with a whole list and the names that are in scope by then.
LEMMA StartHolds ==
    ASSUME TypeOK', todo' = [k \in 1..Len(List') |-> k], later' = << >>, ran' = << >>, moved' = FALSE,
           rounds' = 1, DOMAIN List' = 1..Len(List'), Len(List') \in Nat,
           \A n \in Names : n \in known' <=> IsIn(n)'
    PROVE  SplitInv' /\ NamesInv' /\ LeastInv' /\ RoundInv'
<1>1. Rest' = DOMAIN List' /\ Waiting' = {} /\ RanSteps' = {}  BY DEF Rest, Waiting, RanSteps
<1>2. SplitInv'
  <2>1. Distinct(todo)' /\ Distinct(later)' /\ Distinct(ran)'  BY DEF Distinct
  <2>2. Len(todo') = Len(List')  OBVIOUS
  <2>. QED  BY <1>1, <2>1, <2>2 DEF SplitInv
<1>3. Makes(RanSteps)' = {}  BY <1>1 DEF Makes
<1>4. NamesInv'  BY <1>3 DEF NamesInv
<1>5. LeastInv'  BY <1>1 DEF LeastInv
<1>6. Len(ran') = 0  OBVIOUS
<1>7. RoundInv'  BY <1>1, <1>6 DEF RoundInv
<1>. QED  BY <1>2, <1>4, <1>5, <1>7

LEMMA IterateStep ==
    ASSUME Inv, Iterate
    PROVE  Inv'
<1>t. TypeOK  BY DEF Inv
<1>. DEFINE list == request.loop
<1>1. /\ pass' = pass + 1 /\ pass + 1 # 0 /\ todo' = [k \in 1..Len(list) |-> k] /\ later' = << >>
      /\ ran' = << >> /\ moved' = FALSE /\ rounds' = 1 /\ at' = "steps"
      /\ known' = {m \in Names : IsIn(m)} /\ UNCHANGED <<request, status, scope>>
  BY <1>t DEF Iterate, StartList, TypeOK, IsIn
<1>2. List' = list  BY <1>1 DEF List
<1>3. list \in Seq({list[k] : k \in DOMAIN list})  BY <1>t, AtomicScopeAssumption DEF TypeOK
<1>4. Len(list) \in Nat /\ DOMAIN list = 1..Len(list)  BY <1>3
<1>. HIDE DEF list
<1>5. TypeOK'
  <2>1. todo' \in Seq(DOMAIN List') /\ later' \in Seq(DOMAIN List') /\ ran' \in Seq(DOMAIN List')
    BY <1>1, <1>2, <1>4
  <2>a. pass \in Nat /\ DOMAIN scope = Names  BY <1>t DEF TypeOK
  <2>b. pass' = pass + 1 /\ rounds' = 1 /\ moved' = FALSE /\ scope' = scope  BY <1>1
  <2>2. pass' \in Nat /\ rounds' \in Nat  BY <2>a, <2>b
  <2>3. moved' \in BOOLEAN  BY <2>b, Zenon
  <2>4. DOMAIN scope' = Names  BY <2>a, <2>b, Zenon
  <2>. QED  BY <1>t, <1>1, <2>1, <2>2, <2>3, <2>4, Zenon DEF TypeOK
<1>6. \A n \in Names : n \in known' <=> IsIn(n)'  BY <1>1 DEF IsIn
<1>7. SplitInv' /\ NamesInv' /\ LeastInv' /\ RoundInv'
  BY <1>1, <1>2, <1>4, <1>5, <1>6, StartHolds
<1>8. PlaceInv'
  <2>1. At("steps")  BY DEF Iterate, ListDone
  <2>. QED  BY <1>1, <2>1 DEF PlaceInv, At
<1>. QED  BY <1>5, <1>7, <1>8 DEF Inv

LEMMA InitHolds == Init => Inv
<1>. SUFFICES ASSUME Init PROVE Inv  OBVIOUS
<1>. DEFINE list == request.setup
<1>1. List = list  BY DEF Init, List
<1>2. list \in Seq({list[k] : k \in DOMAIN list})  BY AtomicScopeAssumption DEF Init
<1>3. Len(list) \in Nat /\ DOMAIN list = 1..Len(list)  BY <1>2
<1>4. todo = [k \in 1..Len(list) |-> k] /\ later = << >> /\ ran = << >> /\ known = {} /\ ~moved /\ rounds = 1
  BY DEF Init
<1>. HIDE DEF list
<1>5. TypeOK
  <2>1. todo \in Seq(DOMAIN List) /\ later \in Seq(DOMAIN List) /\ ran \in Seq(DOMAIN List)
    BY <1>1, <1>3, <1>4
  <2>. QED  BY <2>1 DEF Init, TypeOK
<1>6. Rest = DOMAIN List /\ Waiting = {} /\ RanSteps = {}  BY <1>1, <1>3, <1>4 DEF Rest, Waiting, RanSteps
<1>7. SplitInv
  <2>1. Distinct(todo) /\ Distinct(later) /\ Distinct(ran)  BY <1>4 DEF Distinct
  <2>2. Len(todo) = Len(List) /\ Len(ran) = 0 /\ Len(later) = 0  BY <1>1, <1>3, <1>4
  <2>. QED  BY <1>1, <1>3, <1>6, <2>1, <2>2 DEF SplitInv
<1>8. NamesInv  BY <1>4, <1>6 DEF Init, NamesInv, IsIn, Makes
<1>9. LeastInv  BY <1>6 DEF LeastInv
<1>12. Len(ran) = 0  BY <1>4
<1>10. RoundInv  BY <1>4, <1>6, <1>12 DEF RoundInv
<1>11. PlaceInv  BY DEF Init, PlaceInv, At
<1>. QED  BY <1>5, <1>7, <1>8, <1>9, <1>10, <1>11 DEF Inv

\* What a tool returns is a result.
LEMMA Results ==
    /\ \A x : [content |-> x] # Nothing
    /\ \A tool \in Tools : \A t : Result(tool, t) # Nothing
<1>1. \A x : [content |-> x] # Nothing  BY DEF Nothing
<1>2. \A x, y : [content |-> x, items |-> y] # Nothing  BY DEF Nothing
<1>3. \A y : [items |-> y] # Nothing  BY DEF Nothing
<1>. QED  BY <1>1, <1>2, <1>3 DEF Result, Tools

\* The other steps leave the lists alone.
LEMMA FailStep ==
    ASSUME Inv, Fail
    PROVE  Inv'
<1>1. UNCHANGED Lists /\ status' = "error"  BY DEF Fail, Lists, seen
<1>2. PlaceInv'  BY <1>1 DEF PlaceInv, At
<1>. QED  BY <1>1, <1>2, Unmoved DEF Inv

LEMMA NextStep ==
    ASSUME Inv, [Next]_vars
    PROVE  Inv'
<1>1. CASE UNCHANGED vars
  <2>1. UNCHANGED Lists /\ status' = status /\ at' = at  BY <1>1 DEF vars, Lists, seen
  <2>2. (Ready(Here))' = Ready(Here)  BY <2>1 DEF Lists, Ready, IsIn, Here, List
  <2>3. PlaceInv'  BY <2>1, <2>2 DEF Inv, PlaceInv, At, Lists
  <2>. QED  BY <2>1, <2>3, Unmoved DEF Inv
<1>2. CASE Defer  BY <1>2, DeferStep
<1>3. CASE ContextAppend
  <2>1. todo # << >> /\ Ready(Here) /\ status = "running"  BY <1>3 DEF ContextAppend, Due, At
  <2>2. PICK result, grown : result # Nothing /\ Store(Here, result, grown)
    BY <1>3, Results DEF ContextAppend
  <2>. QED  BY <2>1, <2>2, StoreStep
<1>4. CASE PromptFactory
  <2>1. todo # << >> /\ Ready(Here) /\ status = "running"  BY <1>4 DEF PromptFactory, Due, At
  <2>2. PICK result, grown : result # Nothing /\ Store(Here, result, grown)
    BY <1>4, Results DEF PromptFactory
  <2>. QED  BY <2>1, <2>2, StoreStep
<1>5. CASE RunTool
  <2>1. todo # << >> /\ Ready(Here) /\ status = "running" /\ Here.tool \in Tools
    BY <1>5 DEF RunTool, Due, At
  <2>2. CASE Refuses(Here.tool, Injected(Here))  BY <1>5, <2>2, FailStep DEF RunTool
  <2>3. CASE ~Refuses(Here.tool, Injected(Here))
    <3>1. PICK result, grown : result # Nothing /\ Store(Here, result, grown)
      BY <1>5, <2>1, <2>3, Results DEF RunTool
    <3>. QED  BY <2>1, <3>1, StoreStep
  <2>. QED  BY <2>2, <2>3
<1>6. CASE NextRound  BY <1>6, NextRoundStep
<1>7. CASE Stuck
  <2>1. UNCHANGED Lists /\ status' = "deadlock" /\ todo = << >> /\ ~moved
    BY <1>7 DEF Stuck, Lists, seen
  <2>2. PlaceInv'  BY <2>1 DEF PlaceInv, At, Lists
  <2>. QED  BY <2>1, <2>2, Unmoved DEF Inv
<1>8. CASE Iterate  BY <1>8, IterateStep
<1>9. CASE Reply
  <2>1. UNCHANGED Lists /\ status' \in {"limit", "ok"}  BY <1>9 DEF Reply, Lists, seen
  <2>2. PlaceInv'  BY <2>1 DEF PlaceInv, At
  <2>. QED  BY <2>1, <2>2, Unmoved DEF Inv
<1>10. CASE Ask
  <2>1. todo # << >> /\ Ready(Here) /\ status = "running"  BY <1>10 DEF Ask, Due, At
  <2>2. CASE Fail  BY <2>2, FailStep
  <2>3. CASE ~Fail
    <3>1. UNCHANGED Lists /\ status' = status
      BY <1>10, <2>3 DEF Ask, Lists, route, seen
    <3>2. (Ready(Here))' = Ready(Here)  BY <3>1 DEF Lists, Ready, IsIn, Here, List
    <3>3. PlaceInv'  BY <2>1, <3>1, <3>2 DEF PlaceInv, At, Lists
    <3>. QED  BY <3>1, <3>3, Unmoved DEF Inv
  <2>. QED  BY <2>2, <2>3
<1>11. CASE Calling \/ AskAgain
  <2>1. UNCHANGED Lists /\ status' = status /\ At("calling")
    BY <1>11 DEF Calling, AskAgain, Lists, route, seen
  <2>2. (Ready(Here))' = Ready(Here)  BY <2>1 DEF Lists, Ready, IsIn, Here, List
  <2>3. PlaceInv'  BY <2>1, <2>2 DEF Inv, PlaceInv, At, Lists
  <2>. QED  BY <2>1, <2>3, Unmoved DEF Inv
<1>12. CASE Answered
  <2>1. todo # << >> /\ Ready(Here) /\ status = "running"
    BY <1>12 DEF Answered, At, Inv, PlaceInv
  <2>2. PICK result, grown : result # Nothing /\ Store(Here, result, grown)
    BY <1>12, Results DEF Answered
  <2>. QED  BY <2>1, <2>2, StoreStep
<1>13. CASE CallRaises  BY <1>13, FailStep DEF CallRaises
<1>. QED
  BY <1>1, <1>2, <1>3, <1>4, <1>5, <1>6, <1>7, <1>8, <1>9, <1>10, <1>11, <1>12, <1>13 DEF Next

LEMMA Inductive == Spec => []Inv
BY InitHolds, NextStep, PTL DEF Spec
-------------------------------------------------------------------------------
(* What it gives.                                                              *)
\* The steps that can run are the least closed set, which there is: it has the
\* steps that every closed set has.
LEMMA RunnableIsLeast ==
    /\ Runnable \in SUBSET DOMAIN List /\ Closed(Runnable)
    /\ \A R \in SUBSET DOMAIN List : Closed(R) => Runnable \subseteq R
<1>. DEFINE L == {k \in DOMAIN List : \A R \in SUBSET DOMAIN List : Closed(R) => k \in R}
<1>1. \A R \in SUBSET DOMAIN List : Closed(R) => L \subseteq R  OBVIOUS
<1>2. Closed(L)
  <2>1. SUFFICES ASSUME NEW k \in DOMAIN List, List[k].on \subseteq known \cup Makes(L)
                 PROVE  k \in L
    BY DEF Closed
  <2>2. ASSUME NEW R \in SUBSET DOMAIN List, Closed(R)  PROVE  k \in R
    <3>1. Makes(L) \subseteq Makes(R)  BY <1>1, <2>2 DEF Makes
    <3>. QED  BY <2>1, <2>2, <3>1 DEF Closed
  <2>. QED  BY <2>2
<1>3. \E S \in SUBSET DOMAIN List :
         Closed(S) /\ \A R \in SUBSET DOMAIN List : Closed(R) => S \subseteq R
  BY <1>1, <1>2
<1>. HIDE DEF L
<1>. QED  BY <1>3, Zenon DEF Runnable

\* Every pass runs each step that can run once, in whatever order the list has
\* them; when the list is done all have run, and a deadlock is reported only when
\* the steps that are left wait for each other, or for a name that nobody makes.
THEOREM RunsAllItCan == Spec => []RunsWhatItCan
<1>1. ASSUME Inv  PROVE  RunsWhatItCan
  <2>t. TypeOK  BY <1>1 DEF Inv
  <2>1. Len(ran) = Cardinality(RanSteps)
    BY <1>1, DistinctLength, <2>t DEF Inv, SplitInv, TypeOK, RanSteps
  <2>2. RanSteps \in SUBSET DOMAIN List  BY <1>1 DEF Inv, SplitInv
  <2>3. RanSteps \subseteq Runnable  BY <1>1, RunnableIsLeast DEF Inv, LeastInv
  <2>4. ASSUME ListDone  PROVE  RanSteps = DOMAIN List
    <3>1. later = << >>
      <4>1. SUFFICES ASSUME later # << >> PROVE FALSE  OBVIOUS
      <4>2. moved /\ rounds >= Len(List) * 2 + 10  BY <2>4, <4>1 DEF ListDone
      <4>. QED  BY <1>1, <2>t, <4>2, ListType DEF Inv, RoundInv, SplitInv, TypeOK
    <3>2. Rest = {} /\ Waiting = {}  BY <2>4, <3>1 DEF ListDone, Rest, Waiting
    <3>. QED  BY <1>1, <3>2 DEF Inv, SplitInv
  <2>5. ASSUME status = "deadlock"  PROVE  RanSteps = Runnable
    <3>1. Rest = {} /\ \A k \in Waiting : ~Ready(List[k])
      BY <1>1, <2>5 DEF Inv, PlaceInv, RoundInv, Rest
    <3>2. Closed(RanSteps)
      <4>1. SUFFICES ASSUME NEW k \in DOMAIN List, List[k].on \subseteq known \cup Makes(RanSteps),
                            k \notin RanSteps
                     PROVE  FALSE
        BY DEF Closed
      <4>2. Ready(List[k])  BY <1>1, <2>t, <4>1, ListType DEF Ready, Inv, NamesInv
      <4>. QED  BY <1>1, <3>1, <4>1, <4>2 DEF Inv, SplitInv
    <3>. QED  BY <2>2, <2>3, <3>2, RunnableIsLeast
  <2>. QED  BY <2>1, <2>2, <2>3, <2>4, <2>5, RunnableIsLeast DEF RunsWhatItCan
<1>. QED  BY <1>1, Inductive, PTL
-------------------------------------------------------------------------------
(* Texts: what Strip makes of two texts in a row. There is no induction on     *)
(* sequences here: the numbers for which something holds are a set, and a set  *)
(* of numbers that is not empty has a least element.                           *)
\* The prover does not know of a word that it is a STRING.
Words == STRING \cup {"think", "dict", "$"}
Texts == Seq(Words)
Less == {pair \in Nat \X Nat : pair[1] < pair[2]}

LEMMA LeastOf ==
    ASSUME NEW S, S \subseteq Nat, S # {}
    PROVE  \E m \in S : \A k \in S : m <= k
<1>1. IsWellFoundedOn(Less, Nat)  BY NatLessThanWellFounded DEF OpToRel, Less
<1>2. PICK m \in S : \A k \in S : ~ (<<k, m>> \in Less)  BY <1>1, WFMin
<1>3. \A k \in S : k \in Nat /\ m \in Nat /\ ~ (k < m)  BY <1>2 DEF Less
<1>. QED  BY <1>3

\* Induction up to m, over the numbers of a set.
LEMMA UpTo ==
    ASSUME NEW m \in Nat, NEW S, 0 \in S, \A n \in 1..m : n - 1 \in S => n \in S
    PROVE  0..m \subseteq S
<1>. SUFFICES ASSUME 0..m \ S # {} PROVE FALSE  OBVIOUS
<1>1. PICK n \in 0..m \ S : \A k \in 0..m \ S : n <= k
  <2>1. 0..m \ S \subseteq Nat  OBVIOUS
  <2>. QED  BY <2>1, LeastOf
<1>2. n \in 1..m /\ n - 1 \in 0..m /\ n - 1 < n  BY <1>1
<1>. QED  BY <1>1, <1>2

\* f counts up what Strip keeps of the first n pieces.
Keeping(text, f) ==
    f = [n \in 0..Len(text) |->
            IF n = 0 THEN << >>
            ELSE IF text[n] = "think" THEN f[n - 1] ELSE Append(f[n - 1], text[n])]

LEMMA KeepingIs ==
    ASSUME NEW text \in Texts, NEW f, Keeping(text, f)
    PROVE  /\ DOMAIN f = 0..Len(text) /\ f[0] = << >>
           /\ \A n \in 1..Len(text) :
                 f[n] = IF text[n] = "think" THEN f[n - 1] ELSE Append(f[n - 1], text[n])
           /\ \A n \in 0..Len(text) : f[n] \in Texts
<1>1. Len(text) \in Nat /\ \A n \in 1..Len(text) : text[n] \in Words  BY DEF Texts
<1>. DEFINE val(n) == IF n = 0 THEN << >>
                ELSE IF text[n] = "think" THEN f[n - 1] ELSE Append(f[n - 1], text[n])
<1>a. f = [n \in 0..Len(text) |-> val(n)]  BY DEF Keeping
<1>b. \A n \in 0..Len(text) : f[n] = val(n)
  <2>. HIDE DEF val
  <2>. QED  BY <1>a
<1>2. /\ DOMAIN f = 0..Len(text) /\ f[0] = << >>
      /\ \A n \in 1..Len(text) :
            f[n] = IF text[n] = "think" THEN f[n - 1] ELSE Append(f[n - 1], text[n])
  <2>1. DOMAIN f = 0..Len(text)
    <3>. HIDE DEF val
    <3>. QED  BY <1>a
  <2>2. 0 \in 0..Len(text) /\ \A n \in 1..Len(text) : n \in 0..Len(text) /\ n # 0  BY <1>1
  <2>. QED  BY <1>b, <2>1, <2>2, Zenon
<1>3. \A n \in 0..Len(text) : f[n] \in Texts
  <2>. DEFINE S == {n \in 0..Len(text) : f[n] \in Texts}
  <2>0. 0 \in 0..Len(text) /\ << >> \in Texts  BY <1>1, EmptySeq DEF Texts
  <2>1. 0 \in S  BY <2>0, <1>2
  <2>2. ASSUME NEW n \in 1..Len(text), n - 1 \in S PROVE n \in S
    <3>1. n \in 0..Len(text) /\ f[n - 1] \in Texts /\ text[n] \in Words  BY <1>1, <2>2
    <3>2. Append(f[n - 1], text[n]) \in Texts  BY <3>1, AppendProperties DEF Texts
    <3>. QED  BY <1>2, <3>1, <3>2
  <2>. HIDE DEF S
  <2>3. 0..Len(text) \subseteq S  BY <1>1, <2>1, <2>2, UpTo
  <2>. QED  BY <2>3 DEF S
<1>. QED  BY <1>2, <1>3

\* There is such an f, and Strip is its end.
LEMMA StripKeeps ==
    ASSUME NEW text \in Texts
    PROVE  \E f : Keeping(text, f) /\ Strip(text) = f[Len(text)]
<1>. DEFINE step(f, n) == IF n = 0 THEN << >>
                ELSE IF text[n] = "think" THEN f[n - 1] ELSE Append(f[n - 1], text[n])
            Part(m, f) == f = [n \in 0..m |-> step(f, n)]
            S == {m \in 0..Len(text) : \E f : Part(m, f)}
<1>1. Len(text) \in Nat  BY DEF Texts
<1>2. 0 \in S
  <2>. DEFINE f == [n \in 0..0 |-> << >>]
  <2>1. Part(0, f)  OBVIOUS
  <2>2. 0 \in 0..Len(text)  BY <1>1
  <2>. HIDE DEF f, Part
  <2>. QED  BY <2>1, <2>2
<1>3. ASSUME NEW m \in 1..Len(text), m - 1 \in S PROVE m \in S
  <2>1. PICK f : Part(m - 1, f)  BY <1>3
  <2>. DEFINE g == [n \in 0..m |-> step(f, n)]
  <2>2. \A n \in 0..(m - 1) : g[n] = f[n]
    <3>1. \A n \in 0..(m - 1) : f[n] = step(f, n)  BY <2>1
    <3>. QED  BY <1>1, <3>1
  <2>3. \A n \in 0..m : step(f, n) = step(g, n)
    <3>1. \A n \in 0..m : n # 0 => n - 1 \in 0..(m - 1)  BY <1>1
    <3>. HIDE DEF g
    <3>. QED  BY <2>2, <3>1
  <2>4. g = [n \in 0..m |-> step(g, n)]  BY <2>3
  <2>. HIDE DEF g
  <2>5. Part(m, g)  BY <2>4
  <2>. QED  BY <2>5
<1>. HIDE DEF S
<1>4. Len(text) \in S
  <2>1. 0..Len(text) \subseteq S  BY <1>1, <1>2, <1>3, UpTo
  <2>2. Len(text) \in 0..Len(text)  BY <1>1
  <2>. QED  BY <2>1, <2>2
<1>5. \E f : Keeping(text, f)  BY <1>4 DEF S, Keeping
<1>6. Strip(text) = (CHOOSE f : Keeping(text, f))[Len(text)]  BY DEF Strip, Keeping
<1>7. Keeping(text, CHOOSE f : Keeping(text, f))  BY <1>5
<1>. QED  BY <1>6, <1>7

LEMMA Appended ==
    ASSUME NEW a \in Texts, NEW b \in Texts, NEW w \in Words
    PROVE  Append(a \o b, w) = a \o Append(b, w)
<1>1. a \in Seq(Words) /\ b \in Seq(Words) /\ <<w>> \in Seq(Words)  BY DEF Texts
<1>2. a \o b \in Seq(Words)  BY <1>1, ConcatProperties
<1>3. Append(a \o b, w) = (a \o b) \o <<w>>  BY <1>2, AppendIsConcat
<1>4. Append(b, w) = b \o <<w>>  BY <1>1, AppendIsConcat
<1>5. (a \o b) \o <<w>> = a \o (b \o <<w>>)  BY <1>1, ConcatAssociative
<1>. QED  BY <1>3, <1>4, <1>5, Zenon

\* Think blocks are taken out of a text wherever it is cut.
LEMMA StripJoins ==
    ASSUME NEW a \in Texts, NEW b \in Texts
    PROVE  Strip(a \o b) = Strip(a) \o Strip(b) /\ Strip(a) \in Texts
<1>. DEFINE c == a \o b  k == Len(a)  m == Len(b)
<1>1. /\ k \in Nat /\ m \in Nat /\ c \in Texts /\ Len(c) = k + m
      /\ \A n \in 1..k : c[n] = a[n]
      /\ \A n \in 1..m : c[k + n] = b[n]
      /\ \A n \in 1..m : b[n] \in Words
  <2>1. /\ k \in Nat /\ m \in Nat /\ c \in Seq(Words) /\ Len(c) = k + m
        /\ \A i \in 1..(k + m) : c[i] = IF i <= k THEN a[i] ELSE b[i - k]
    BY ConcatProperties DEF Texts
  <2>2. \A n \in 1..m : b[n] \in Words  BY DEF Texts
  <2>. HIDE DEF c, k, m
  <2>3. \A n \in 1..m : k + n \in 1..(k + m) /\ ~ (k + n <= k) /\ (k + n) - k = n  BY <2>1
  <2>. QED  BY <2>1, <2>2, <2>3 DEF Texts
<1>2. PICK f : Keeping(a, f) /\ Strip(a) = f[k]  BY StripKeeps
<1>3. PICK g : Keeping(b, g) /\ Strip(b) = g[m]  BY StripKeeps
<1>4. PICK h : Keeping(c, h) /\ Strip(c) = h[Len(c)]  BY <1>1, StripKeeps
<1>. HIDE DEF c
<1>5. /\ f[0] = << >> /\ \A n \in 0..k : f[n] \in Texts
      /\ \A n \in 1..k : f[n] = IF a[n] = "think" THEN f[n - 1] ELSE Append(f[n - 1], a[n])
  BY <1>2, KeepingIs
<1>6. /\ g[0] = << >> /\ \A n \in 0..m : g[n] \in Texts
      /\ \A n \in 1..m : g[n] = IF b[n] = "think" THEN g[n - 1] ELSE Append(g[n - 1], b[n])
  BY <1>3, KeepingIs
<1>7. /\ h[0] = << >>
      /\ \A n \in 1..(k + m) : h[n] = IF c[n] = "think" THEN h[n - 1] ELSE Append(h[n - 1], c[n])
  BY <1>1, <1>4, KeepingIs
<1>. HIDE DEF k, m
<1>8. h[k] = f[k]
  <2>. DEFINE S == {n \in 0..k : h[n] = f[n]}
  <2>1. 0 \in S  BY <1>1, <1>5, <1>7
  <2>2. ASSUME NEW n \in 1..k, n - 1 \in S PROVE n \in S
    <3>1. n \in 1..(k + m) /\ n \in 0..k  BY <1>1
    <3>. QED  BY <1>1, <1>5, <1>7, <2>2, <3>1
  <2>. HIDE DEF S
  <2>3. 0..k \subseteq S  BY <1>1, <2>1, <2>2, UpTo
  <2>. QED  BY <1>1, <2>3 DEF S
<1>9. h[k + m] = f[k] \o g[m]
  <2>. DEFINE S == {n \in 0..m : h[k + n] = f[k] \o g[n]}
  <2>0. f[k] \in Texts  BY <1>1, <1>5
  <2>1. 0 \in S
    <3>1. f[k] \o << >> = f[k]  BY <2>0, ConcatEmptySeq DEF Texts
    <3>2. k + 0 = k /\ 0 \in 0..m  BY <1>1
    <3>3. h[k + 0] = f[k] \o g[0]  BY <1>6, <1>8, <3>1, <3>2
    <3>. QED  BY <3>2, <3>3
  <2>2. ASSUME NEW n \in 1..m, n - 1 \in S PROVE n \in S
    <3>1. /\ k + n \in 1..(k + m) /\ (k + n) - 1 = k + (n - 1) /\ n \in 0..m /\ n - 1 \in 0..m
      BY <1>1
    <3>2. h[k + (n - 1)] = f[k] \o g[n - 1] /\ c[k + n] = b[n] /\ g[n - 1] \in Texts /\ b[n] \in Words
      BY <1>1, <1>6, <2>2, <3>1
    <3>3. h[k + n] = IF b[n] = "think" THEN f[k] \o g[n - 1] ELSE Append(f[k] \o g[n - 1], b[n])
      BY <1>7, <3>1, <3>2
    <3>4. Append(f[k] \o g[n - 1], b[n]) = f[k] \o Append(g[n - 1], b[n])
      <4>1. f[k] \in Texts /\ g[n - 1] \in Texts /\ b[n] \in Words  BY <2>0, <3>2
      <4>. QED  BY <4>1, Appended
    <3>5. g[n] = IF b[n] = "think" THEN g[n - 1] ELSE Append(g[n - 1], b[n])  BY <1>6
    <3>6. h[k + n] = f[k] \o g[n]  BY <3>3, <3>4, <3>5
    <3>. QED  BY <3>1, <3>6
  <2>. HIDE DEF S
  <2>3. 0..m \subseteq S  BY <1>1, <2>1, <2>2, UpTo
  <2>4. m \in 0..m  BY <1>1
  <2>5. m \in S  BY <2>3, <2>4
  <2>. QED  BY <2>5 DEF S
<1>10. f[k] \in Texts  BY <1>1, <1>5
<1>. QED  BY <1>1, <1>2, <1>3, <1>4, <1>9, <1>10 DEF c

LEMMA StripThink ==
    Think \in Texts /\ Strip(Think) = << >> /\ Strip(<< >>) = << >>
<1>1. Think \in Texts /\ Len(Think) = 1 /\ Think[1] = "think"
  <2>1. "think" \in Words  BY DEF Words
  <2>. QED  BY <2>1 DEF Think, Texts
<1>2. << >> \in Texts /\ Len(<< >>) = 0  BY EmptySeq DEF Texts
<1>3. PICK f : Keeping(Think, f) /\ Strip(Think) = f[1]  BY <1>1, StripKeeps
<1>4. PICK g : Keeping(<< >>, g) /\ Strip(<< >>) = g[0]  BY <1>2, StripKeeps
<1>. QED  BY <1>1, <1>2, <1>3, <1>4, KeepingIs
-------------------------------------------------------------------------------
(* What the steps leave behind, and what the model is asked.                   *)
\* What a step may leave behind: text, or pieces of text.
Singles == {<<w>> : w \in Words}
Outcome(r) ==
    /\ "content" \in DOMAIN r => r.content \in Texts
    /\ "items" \in DOMAIN r => r.items \in Seq(Singles)
TextInv ==
    /\ context \in [Contexts -> Texts]
    /\ \A n \in Names : IsIn(n) => Outcome(scope[n])

\* What the model is asked on behalf of the step at hand: first the whole, then
\* to go on from what it has said.
Way == IF gen.text = << >> THEN How(Here) ELSE HowOn(Here, gen.text)
Calls(w) == [at : {"ask", "retry", "over", "raised"}, how : {w}, turn : Nat, result : Texts,
             finish : {"stop", "length"}, responses : Nat, empty : Nat]
CallInv ==
    At("calling") =>
        /\ Here.tool \in Model /\ gen.text \in Texts /\ heard \in Texts
        /\ call \in Calls(Way)
        /\ call.turn <= call.how.limit
        /\ gen.text \o call.result = heard

\* No step of a request has the model go on from a prefill over several turns of
\* one call: it is sent as one prompt, it stops at its conditions, or it may not.
PrefillsEnd ==
    \A r \in Requests : \A list \in {r.setup, r.loop} : \A k \in DOMAIN list :
        list[k].tool = "generate" /\ list[k].prefill # << >>
            => list[k].format = "instruct" \/ list[k].until # {} \/ r.maxContinue = 0

\* The words of a request are words.
LEMMA Worded == ASSUME NEW t \in Seq(STRING) PROVE t \in Texts
<1>1. STRING \subseteq Words  BY DEF Words
<1>. QED  BY <1>1, SeqMonotonic DEF Texts

LEMMA Joining ==
    ASSUME NEW a \in Texts, NEW b \in Texts
    PROVE  a \o b \in Texts /\ (a \o b = << >> => b = << >>)
<1>1. a \in Seq(Words) /\ b \in Seq(Words)  BY DEF Texts
<1>2. a \o b \in Seq(Words)  BY <1>1, ConcatProperties
<1>3. a \o b = << >> <=> a = << >> /\ b = << >>  BY <1>1, ConcatEqualIffEmpty
<1>. QED  BY <1>2, <1>3 DEF Texts

LEMMA NoText == << >> \in Texts /\ Dict \in Texts /\ Unresolved \in Texts
<1>1. << >> \in Texts  BY EmptySeq DEF Texts
<1>2. "dict" \in Words /\ "$" \in Words  BY DEF Words
<1>. QED  BY <1>1, <1>2 DEF Dict, Unresolved, Texts

\* The step at hand is a step of the request.
LEMMA HereType ==
    ASSUME TypeOK, todo # << >>
    PROVE  /\ request.maxContinue \in Nat
           /\ Here.prefill \in Texts /\ Here.context \in Contexts \cup {NoName}
           /\ Here.out \in Names \cup {NoName}
           /\ \/ Here.arg[1] = "text" /\ Here.arg[2] \in Texts
              \/ Here.arg[1] = "ref" /\ Here.arg[2] \in Names /\ Here.tool # "generate"
           /\ PrefillsEnd => (Here.tool = "generate" /\ Here.prefill # << >>
                  => Here.format = "instruct" \/ Here.until # {} \/ request.maxContinue = 0)
<1>1. Head(todo) \in DOMAIN List  BY DEF TypeOK
<1>2. List \in {request.setup, request.loop} /\ request \in Requests  BY DEF List, TypeOK
<1>. DEFINE h == Head(todo)
<1>3. Here = List[h]  BY DEF Here
<1>. HIDE DEF h
<1>4. h \in DOMAIN List  BY <1>1 DEF h
<1>5. /\ request.maxContinue \in Nat
      /\ List[h].prefill \in Seq(STRING) /\ List[h].context \in Contexts \cup {NoName}
      /\ \/ List[h].arg[1] = "text" /\ List[h].arg[2] \in Seq(STRING)
         \/ List[h].arg[1] = "ref" /\ List[h].arg[2] \in Names /\ List[h].tool # "generate"
  BY <1>2, <1>4, TextAssumption
<1>6. List[h].out \in Names \cup {NoName}  BY <1>4, ListType
<1>7. PrefillsEnd => (List[h].tool = "generate" /\ List[h].prefill # << >>
                  => List[h].format = "instruct" \/ List[h].until # {} \/ request.maxContinue = 0)
  BY <1>2, <1>4 DEF PrefillsEnd
<1>. QED  BY <1>3, <1>5, <1>6, <1>7, Worded

\* What a step is given is text.
LEMMA GivenTexts ==
    ASSUME TypeOK, TextInv, todo # << >>
    PROVE  /\ ContextOf(Here) \in Texts /\ context[Main(Here)] \in Texts /\ Main(Here) \in Contexts
           /\ Injected(Here) \in Texts
           /\ Here.tool \in Model => Prompt(Here) \in Texts /\ Prefill(Here) \in Texts
<1>1. ContextOf(Here) \in Texts  BY HereType, NoText DEF TextInv, ContextOf
<1>2. Main(Here) \in Contexts /\ context[Main(Here)] \in Texts
  BY HereType, TextAssumption DEF TextInv, Main
<1>3. Resolved(Here.arg) \in Texts
  <2>1. CASE Here.arg[1] = "text"  BY <2>1, HereType DEF Resolved
  <2>2. CASE Here.arg[1] # "text"
    <3>. DEFINE n == Here.arg[2]  r == scope[n]
    <3>1. n \in Names  BY <2>2, HereType
    <3>2. CASE ~IsIn(n)  BY <2>2, <3>2, NoText DEF Resolved
    <3>3. CASE IsIn(n)
      <4>1. Outcome(r)  BY <3>1, <3>3 DEF TextInv
      <4>2. CASE Has(r, "content")  BY <2>2, <3>3, <4>1, <4>2 DEF Resolved, Has, Outcome
      <4>3. CASE ~Has(r, "content") /\ Has(r, "items")
        <5>1. Resolved(Here.arg) = Joined(r.items)  BY <2>2, <3>3, <4>3 DEF Resolved
        <5>2. r.items \in Seq(Singles)  BY <4>1, <4>3 DEF Has, Outcome
        <5>3. \A k \in 1..Len(r.items) : r.items[k][1] \in Words  BY <5>2 DEF Singles
        <5>4. Len(r.items) \in Nat  BY <5>2
        <5>. HIDE DEF r
        <5>5. Joined(r.items) \in Seq(Words)  BY <5>3, <5>4 DEF Joined
        <5>. QED  BY <5>1, <5>5 DEF Texts, r
      <4>4. CASE ~Has(r, "content") /\ ~Has(r, "items")  BY <2>2, <3>3, <4>4, NoText DEF Resolved
      <4>. QED  BY <4>2, <4>3, <4>4
    <3>. QED  BY <3>2, <3>3
  <2>. QED  BY <2>1, <2>2
<1>4. Injected(Here) \in Texts
  <2>1. ContextOf(Here) \o Resolved(Here.arg) \in Texts  BY <1>1, <1>3, Joining
  <2>. QED  BY <1>3, <2>1, Zenon DEF Injected
<1>5. ASSUME Here.tool \in Model PROVE Prompt(Here) \in Texts /\ Prefill(Here) \in Texts
  <2>1. CASE Here.tool = "claims"  BY <1>4, <2>1, NoText DEF Prompt, Prefill
  <2>2. CASE Here.tool = "generate"
    <3>1. Here.arg[2] \in Texts /\ Here.prefill \in Texts  BY <2>2, HereType
    <3>2. ContextOf(Here) \o Here.arg[2] \in Texts  BY <1>1, <3>1, Joining
    <3>. QED  BY <2>2, <3>1, <3>2 DEF Prompt, Prefill
  <2>. QED  BY <1>5, <2>1, <2>2 DEF Model
<1>. QED  BY <1>1, <1>2, <1>4, <1>5

\* What follows the first mark.
LEMMA AfterMark ==
    ASSUME NEW t \in Texts, \E k \in DOMAIN t : t[k] = Mark
    PROVE  After(t) \in Texts
<1>. DEFINE S == {k \in DOMAIN t : t[k] = Mark}
<1>1. DOMAIN t = 1..Len(t) /\ Len(t) \in Nat /\ \A k \in 1..Len(t) : t[k] \in Words  BY DEF Texts
<1>2. PICK m \in S : \A k \in S : m <= k
  <2>1. S \subseteq Nat /\ S # {}  BY <1>1
  <2>. HIDE DEF S
  <2>. QED  BY <2>1, LeastOf
<1>3. \E k \in DOMAIN t : t[k] = Mark /\ \A j \in 1..(k - 1) : t[j] # Mark
  <2>1. m \in DOMAIN t /\ t[m] = Mark  BY <1>2
  <2>2. \A j \in 1..(m - 1) : j \in DOMAIN t /\ ~ (m <= j)  BY <1>1, <2>1
  <2>. QED  BY <1>2, <2>1, <2>2
<1>4. MarkAt(t) \in 1..Len(t)  BY <1>1, <1>3 DEF MarkAt
<1>. DEFINE p == MarkAt(t)
<1>5. p \in 1..Len(t)  BY <1>4
<1>. HIDE DEF p
<1>6. \A i \in (p + 1)..Len(t) : t[i] \in Words  BY <1>1, <1>5
<1>7. SubSeq(t, p + 1, Len(t)) \in Seq(Words)  BY <1>1, <1>5, <1>6, SubSeqProperties
<1>. QED  BY <1>7 DEF After, Texts, p

LEMMA ToolOutcome ==
    ASSUME NEW t \in Texts, NEW tool \in Tools, ~Refuses(tool, t)
    PROVE  Outcome(Result(tool, t))
<1>1. ASSUME NEW u \in Texts PROVE Items(u) \in Seq(Singles)
  <2>1. Len(u) \in Nat /\ \A k \in 1..Len(u) : u[k] \in Words  BY DEF Texts
  <2>2. \A k \in 1..Len(u) : <<u[k]>> \in Singles  BY <2>1 DEF Singles
  <2>. QED  BY <2>1, <2>2 DEF Items
<1>2. CASE tool = "slice"
  <2>1. After(t) \in Texts  BY <1>2, AfterMark DEF Refuses
  <2>. QED  BY <1>2, <2>1 DEF Result, Outcome
<1>3. CASE tool = "split"
  <2>1. Items(t) \in Seq(Singles)  BY <1>1
  <2>. QED  BY <1>3, <2>1 DEF Result, Outcome
<1>4. CASE tool = "parse"
  <2>1. After(t) \in Texts  BY <1>4, AfterMark DEF Refuses
  <2>2. Items(After(t)) \in Seq(Singles)  BY <1>1, <2>1
  <2>. QED  BY <1>4, <2>1, <2>2 DEF Result, Outcome
<1>. QED  BY <1>2, <1>3, <1>4 DEF Tools

LEMMA GrownTexts ==
    ASSUME TypeOK, TextInv, todo # << >>, NEW result, Outcome(result)
    PROVE  Grown(Here, result) \in [Contexts -> Texts]
<1>1. CASE ~ (Grows(Here) /\ Has(result, "content"))  BY <1>1, Zenon DEF Grown, TextInv
<1>2. CASE Grows(Here) /\ Has(result, "content")
  <2>1. Here.context \in Contexts  BY <1>2, HereType DEF Grows
  <2>2. result.content \in Texts /\ context \in [Contexts -> Texts]  BY <1>2 DEF Has, Outcome, TextInv
  <2>3. context[Here.context] \o result.content \in Texts  BY <2>1, <2>2, Joining
  <2>. DEFINE new == context[Here.context] \o result.content
  <2>4. Grown(Here, result) = [context EXCEPT ![Here.context] = new]  BY <1>2, Zenon DEF Grown
  <2>5. new \in Texts  BY <2>3
  <2>. HIDE DEF new
  <2>. QED  BY <2>1, <2>2, <2>4, <2>5
<1>. QED  BY <1>1, <1>2

LEMMA StoreTexts ==
    ASSUME TypeOK, TextInv, todo # << >>, NEW result, NEW grown, Store(Here, result, grown),
           Outcome(result), grown \in [Contexts -> Texts]
    PROVE  TextInv'
<1>1. context' \in [Contexts -> Texts]  BY DEF Store
<1>2. ASSUME NEW n \in Names, scope'[n] # Nothing PROVE Outcome(scope'[n])
  <2>1. scope' = scope \/ (Here.out \in Names /\ scope' = [scope EXCEPT ![Here.out] = result])
    BY HereType DEF Store
  <2>2. DOMAIN scope = Names  BY DEF TypeOK
  <2>3. scope'[n] = scope[n] \/ scope'[n] = result  BY <2>1, <2>2
  <2>4. scope[n] # Nothing => Outcome(scope[n])  BY DEF TextInv, IsIn
  <2>. QED  BY <1>2, <2>3, <2>4, Zenon
<1>. QED  BY <1>1, <1>2 DEF TextInv, IsIn
LEMMA TextKept ==
    ASSUME TextInv, scope' = scope, context' = context
    PROVE  TextInv'
BY DEF TextInv, IsIn

\* Every step leaves texts behind.
LEMMA TextStep ==
    ASSUME Inv, TextInv, CallInv, [Next]_vars
    PROVE  TextInv'
<1>t. TypeOK  BY DEF Inv
<1>1. CASE scope' = scope /\ context' = context  BY <1>1, TextKept
<1>2. CASE ContextAppend
  <2>1. todo # << >>  BY <1>2 DEF ContextAppend, Due
  <2>. DEFINE merged == context[Main(Here)] \o Injected(Here)
              c == [context EXCEPT ![Main(Here)] = merged]
              g == IF Grows(Here) THEN [c EXCEPT ![Here.context] = @ \o merged] ELSE c
  <2>2. Store(Here, [content |-> merged], g)  BY <1>2 DEF ContextAppend
  <2>3. merged \in Texts
    <3>1. context[Main(Here)] \in Texts /\ Injected(Here) \in Texts  BY <1>t, <2>1, GivenTexts
    <3>. QED  BY <3>1, Joining
  <2>. HIDE DEF merged
  <2>4. c \in [Contexts -> Texts]  BY <2>3 DEF TextInv
  <2>. HIDE DEF c
  <2>5. g \in [Contexts -> Texts]
    <3>1. CASE ~Grows(Here)  BY <2>4, <3>1
    <3>2. CASE Grows(Here)
      <4>1. Here.context \in Contexts  BY <1>t, <2>1, <3>2, HereType DEF Grows
      <4>. DEFINE d == c[Here.context] \o merged
      <4>2. c[Here.context] \in Texts  BY <2>4, <4>1
      <4>3. d \in Texts  BY <2>3, <4>2, Joining
      <4>4. g = [c EXCEPT ![Here.context] = d]  BY <3>2
      <4>. HIDE DEF d, g
      <4>. QED  BY <2>4, <4>1, <4>3, <4>4
    <3>. QED  BY <3>1, <3>2
  <2>6. Outcome([content |-> merged])  BY <2>3 DEF Outcome
  <2>. HIDE DEF g
  <2>. QED  BY <1>t, <2>1, <2>2, <2>5, <2>6, StoreTexts
<1>3. CASE PromptFactory
  <2>1. todo # << >>  BY <1>3 DEF PromptFactory, Due
  <2>. DEFINE r == [content |-> context[Main(Here)] \o Injected(Here)]
  <2>2. Store(Here, r, Grown(Here, r))  BY <1>3 DEF PromptFactory
  <2>3. Outcome(r)
    <3>1. context[Main(Here)] \in Texts /\ Injected(Here) \in Texts  BY <1>t, <2>1, GivenTexts
    <3>2. context[Main(Here)] \o Injected(Here) \in Texts  BY <3>1, Joining
    <3>. QED  BY <3>2 DEF Outcome
  <2>. HIDE DEF r
  <2>4. Grown(Here, r) \in [Contexts -> Texts]  BY <1>t, <2>1, <2>3, GrownTexts
  <2>. QED  BY <1>t, <2>1, <2>2, <2>3, <2>4, StoreTexts
<1>4. CASE RunTool
  <2>1. todo # << >> /\ Here.tool \in Tools  BY <1>4 DEF RunTool, Due
  <2>2. CASE Refuses(Here.tool, Injected(Here))  BY <1>4, <2>2, TextKept DEF RunTool, Fail
  <2>3. CASE ~Refuses(Here.tool, Injected(Here))
    <3>. DEFINE r == Result(Here.tool, Injected(Here))
    <3>1. Store(Here, r, Grown(Here, r))  BY <1>4, <2>3 DEF RunTool
    <3>2. Outcome(r)
      <4>1. Injected(Here) \in Texts  BY <1>t, <2>1, GivenTexts
      <4>. QED  BY <2>1, <2>3, <4>1, ToolOutcome
    <3>. HIDE DEF r
    <3>3. Grown(Here, r) \in [Contexts -> Texts]  BY <1>t, <2>1, <3>2, GrownTexts
    <3>. QED  BY <1>t, <2>1, <3>1, <3>2, <3>3, StoreTexts
  <2>. QED  BY <2>2, <2>3
<1>5. CASE Answered
  <2>1. todo # << >>  BY <1>5 DEF Answered, Inv, PlaceInv
  <2>. DEFINE r == [content |-> Strip(Raw)]
  <2>2. Store(Here, r, Grown(Here, r))  BY <1>5 DEF Answered
  <2>3. Outcome(r)
    <3>1. Raw \in Texts  BY <1>5 DEF Answered, CallInv, Raw
    <3>2. Strip(Raw) \in Texts  BY <3>1, NoText, StripJoins
    <3>. QED  BY <3>2 DEF Outcome
  <2>. HIDE DEF r
  <2>4. Grown(Here, r) \in [Contexts -> Texts]  BY <1>t, <2>1, <2>3, GrownTexts
  <2>. QED  BY <1>t, <2>1, <2>2, <2>3, <2>4, StoreTexts
<1>6. CASE UNCHANGED vars  BY <1>1, <1>6 DEF vars
<1>7. CASE Defer \/ NextRound \/ Stuck \/ Iterate \/ Reply \/ Ask \/ Calling \/ AskAgain \/ CallRaises
  <2>1. scope' = scope /\ context' = context
    BY <1>7 DEF Defer, NextRound, Stuck, Iterate, Reply, Ask, Calling, AskAgain, CallRaises, Fail
  <2>. QED  BY <1>1, <2>1
<1>. QED  BY <1>2, <1>3, <1>4, <1>5, <1>6, <1>7 DEF Next

\* How often a call may go on is a number.
LEMMA WayType ==
    ASSUME TypeOK, todo # << >>
    PROVE  Way.limit \in Nat
BY HereType DEF Way, How, HowOn

\* A call is begun with nothing heard but what it goes on from.
LEMMA BeginHolds ==
    ASSUME Here'.tool \in Model, gen'.text \in Texts, heard' = gen'.text, Way'.limit \in Nat, Begin(Way')
    PROVE  CallInv'
<1>1. << >> \in Texts  BY NoText
<1>2. gen'.text \o << >> = gen'.text  BY ConcatEmptySeq DEF Texts
<1>3. /\ call' \in Calls(Way')
      /\ call'.turn = 0 /\ call'.result = << >> /\ call'.how = Way'
  <2>. DEFINE w == Way'
  <2>1. call' = [at |-> "ask", how |-> w, turn |-> 0, result |-> << >>, finish |-> "stop",
                 responses |-> 0, empty |-> 0]
    BY DEF Begin
  <2>. HIDE DEF w
  <2>2. call' \in Calls(w) /\ call'.turn = 0 /\ call'.result = << >> /\ call'.how = w
    BY <1>1, <2>1 DEF Calls
  <2>. QED  BY <2>2 DEF w
<1>4. call'.turn <= call'.how.limit  BY <1>3
<1>. QED  BY <1>1, <1>2, <1>3, <1>4 DEF CallInv

LEMMA Regrouped == \A a, b, c \in Texts : (a \o b) \o c = a \o (b \o c)
<1>. SUFFICES ASSUME NEW a \in Seq(Words), NEW b \in Seq(Words), NEW c \in Seq(Words)
              PROVE  (a \o b) \o c = a \o (b \o c)
  BY DEF Texts
<1>. QED  BY ConcatAssociative

\* A turn of a call: what comes in is added to what is there.
LEMMA TurnHolds ==
    ASSUME NEW w, NEW c \in Calls(w), w.limit \in Nat, call.how = w, c.turn = call.turn,
           call.turn \in Nat, call.turn <= w.limit
    PROVE  NextTurn(c) \in Calls(w) /\ NextTurn(c).turn <= w.limit /\ NextTurn(c).result = c.result
<1>1. CASE Last
  <2>1. NextTurn(c) = [c EXCEPT !.at = "over"]  BY <1>1 DEF NextTurn
  <2>. QED  BY <2>1 DEF Calls
<1>2. CASE ~Last
  <2>1. NextTurn(c) = [c EXCEPT !.at = "ask", !.turn = c.turn + 1]  BY <1>2 DEF NextTurn
  <2>2. c.turn + 1 <= w.limit /\ c.turn + 1 \in Nat  BY <1>2 DEF Last
  <2>. DEFINE n == c.turn + 1
  <2>3. n <= w.limit /\ n \in Nat /\ NextTurn(c) = [c EXCEPT !.at = "ask", !.turn = n]  BY <2>1, <2>2
  <2>. HIDE DEF n
  <2>. QED  BY <2>3 DEF Calls
<1>. QED  BY <1>1, <1>2

LEMMA CallStepHolds ==
    ASSUME NEW w, NEW t \in Texts, call \in Calls(w), w.limit \in Nat, call.turn <= w.limit,
           heard \in Texts, t \o call.result = heard, CallStep
    PROVE  /\ call' \in Calls(w) /\ call'.turn <= w.limit
           /\ heard' \in Texts /\ t \o call'.result = heard'
<1>1. call.how = w /\ call.turn \in Nat /\ call.result \in Texts /\ call.responses \in Nat
      /\ call.empty \in Nat
  BY DEF Calls
<1>2. CASE Chunk
  <2>1. PICK piece \in Pieces, finish \in {"stop", "length"} :
           call' = Received(piece, finish) /\ heard' = heard \o piece
    BY <1>2 DEF Chunk
  <2>2. piece \in Texts  BY LlmCallAssumption, Worded
  <2>. DEFINE res == call.result \o piece
              n == call.responses + 1
              c == [call EXCEPT !.result = res, !.finish = finish, !.responses = n, !.empty = 0]
  <2>3. res \in Texts /\ heard \o piece \in Texts  BY <1>1, <2>2, Joining
  <2>4. t \o res = heard \o piece
    <3>. DEFINE r == call.result
    <3>1. r \in Texts /\ heard = t \o r /\ res = r \o piece  BY <1>1
    <3>. HIDE DEF r, res
    <3>2. (t \o r) \o piece = t \o (r \o piece)  BY <2>2, <3>1, Regrouped
    <3>. QED  BY <3>1, <3>2, Zenon
  <2>5. call' = (IF GoesOn(finish) THEN NextTurn(c) ELSE [c EXCEPT !.at = "over"])
    BY <2>1 DEF Received
  <2>b. n \in Nat /\ 0 \in Nat /\ finish \in {"stop", "length"}  BY <1>1
  <2>. HIDE DEF res, n
  <2>6. c \in Calls(w) /\ c.turn = call.turn /\ c.result = res  BY <2>3, <2>b DEF Calls
  <2>. HIDE DEF c
  <2>7. NextTurn(c) \in Calls(w) /\ NextTurn(c).turn <= w.limit /\ NextTurn(c).result = c.result
    BY <1>1, <2>6, TurnHolds
  <2>8. LET d == [c EXCEPT !.at = "over"] IN d \in Calls(w) /\ d.turn = c.turn /\ d.result = c.result
    BY <2>6 DEF Calls
  <2>9. call' \in Calls(w) /\ call'.turn <= w.limit /\ call'.result = res
    BY <2>5, <2>6, <2>7, <2>8
  <2>. QED  BY <2>1, <2>3, <2>4, <2>9
<1>3. CASE Empty
  <2>. DEFINE n == call.empty + 1
              c == [call EXCEPT !.empty = n]
  <2>n. n \in Nat  BY <1>1
  <2>1. call' = (IF c.empty > call.how.limit THEN [c EXCEPT !.at = "over"] ELSE NextTurn(c))
    BY <1>3 DEF Empty
  <2>. HIDE DEF n
  <2>2. c \in Calls(w) /\ c.turn = call.turn /\ c.result = call.result  BY <2>n DEF Calls
  <2>. HIDE DEF c
  <2>3. NextTurn(c) \in Calls(w) /\ NextTurn(c).turn <= w.limit /\ NextTurn(c).result = c.result
    BY <1>1, <2>2, TurnHolds
  <2>4. LET d == [c EXCEPT !.at = "over"] IN d \in Calls(w) /\ d.turn = c.turn /\ d.result = c.result
    BY <2>2 DEF Calls
  <2>5. call' \in Calls(w) /\ call'.turn <= w.limit /\ call'.result = call.result
    BY <2>1, <2>2, <2>3, <2>4
  <2>. QED  BY <1>3, <2>5 DEF Empty
<1>4. CASE Breaks \/ Refused \/ Garbled
  <2>1. PICK a \in {"retry", "over", "raised"} : call' = [call EXCEPT !.at = a]
    BY <1>4 DEF Breaks, Refused, Garbled
  <2>2. heard' = heard  BY <1>4 DEF Breaks, Refused, Garbled
  <2>3. call' \in Calls(w) /\ call'.turn = call.turn /\ call'.result = call.result  BY <2>1 DEF Calls
  <2>. QED  BY <2>2, <2>3
<1>. QED  BY <1>2, <1>3, <1>4 DEF CallStep

LEMMA CallInvStep ==
    ASSUME Inv, TextInv, CallInv, [Next]_vars
    PROVE  CallInv'
<1>t. TypeOK  BY DEF Inv
<1>1. CASE Ask
  <2>1. todo # << >>  BY <1>1 DEF Ask, Due
  <2>2. CASE Fail  BY <2>2 DEF Fail, CallInv, At
  <2>3. CASE ~Fail
    <3>1. /\ gen'.text = << >> /\ heard' = << >> /\ Begin(How(Here))
          /\ Here.tool \in Model /\ UNCHANGED <<route, todo, scope, context>>
      BY <1>1, <2>3 DEF Ask, Due
    <3>2. Here' = Here /\ How(Here)' = How(Here)
      BY <3>1, Zenon DEF Here, List, route, How, IsInstruct, Prefill, NoThink, Conditions, Prompt, Injected,
                  Resolved, ContextOf, IsIn
    <3>3. Way' = How(Here)  BY <3>1, <3>2 DEF Way
    <3>4. How(Here).limit \in Nat  BY <1>t, <2>1, HereType DEF How
    <3>. QED  BY <3>1, <3>2, <3>3, <3>4, NoText, BeginHolds
  <2>. QED  BY <2>2, <2>3
<1>2. CASE Calling
  <2>1. todo # << >> /\ At("calling")  BY <1>2 DEF Calling, Inv, PlaceInv
  <2>2. UNCHANGED <<route, at, todo, scope, context, gen>> /\ CallStep  BY <1>2 DEF Calling
  <2>h. Here' = Here /\ Here.tool \in Model  BY <2>1, <2>2 DEF CallInv, Here, List, route
  <2>3. Way' = Way
    BY <2>2 DEF Way, HowOn, Here, List, route, How, IsInstruct, Prefill, NoThink, Conditions, Prompt,
                Injected, Resolved, ContextOf, IsIn
  <2>4. Way.limit \in Nat  BY <1>t, <2>1, WayType
  <2>. DEFINE w == Way  t == gen.text
  <2>5. t \in Texts /\ heard \in Texts /\ call \in Calls(w) /\ t \o call.result = heard
    BY <2>1 DEF CallInv, Calls
  <2>6. call.turn <= w.limit  BY <2>1 DEF CallInv, Calls
  <2>7. w.limit \in Nat /\ w' = w /\ t' = t  BY <2>2, <2>3, <2>4
  <2>. HIDE DEF w, t
  <2>8. /\ call' \in Calls(w) /\ call'.turn <= w.limit
        /\ heard' \in Texts /\ t \o call'.result = heard'
    BY <2>2, <2>5, <2>6, <2>7, CallStepHolds
  <2>9. call'.how = w  BY <2>8 DEF Calls
  <2>. QED  BY <2>h, <2>5, <2>7, <2>8, <2>9 DEF CallInv, Calls, w, t
<1>3. CASE AskAgain
  <2>1. todo # << >> /\ At("calling")  BY <1>3 DEF AskAgain, Inv, PlaceInv
  <2>2. /\ gen'.text = Raw /\ Begin(HowOn(Here, Raw)) /\ call.result # << >>
        /\ UNCHANGED <<route, todo, scope, context, heard>>
    BY <1>3 DEF AskAgain, Returned, Blank
  <2>3. gen.text \in Texts /\ call.result \in Texts /\ Raw = heard /\ heard \in Texts
    BY <2>1 DEF CallInv, Calls, Raw
  <2>4. Raw # << >>  BY <2>2, <2>3, Joining DEF Raw
  <2>5. Here' = Here /\ Here.tool \in Model  BY <2>1, <2>2 DEF CallInv, Here, List, route
  <2>6. Way' = HowOn(Here, Raw)
    BY <2>2, <2>4, <2>5, Zenon DEF Way, HowOn, Prompt, Prefill, IsInstruct, Injected, Resolved, ContextOf, IsIn
  <2>7. HowOn(Here, Raw).limit \in Nat  BY DEF HowOn
  <2>. QED  BY <2>2, <2>3, <2>5, <2>6, <2>7, BeginHolds
<1>4. CASE UNCHANGED vars
  <2>1. Way' = Way
    BY <1>4 DEF vars, Way, HowOn, Here, List, route, How, IsInstruct, Prefill, NoThink, Conditions,
                Prompt, Injected, Resolved, ContextOf, IsIn
  <2>2. Here' = Here  BY <1>4 DEF vars, Here, List
  <2>. QED  BY <1>4, <2>1, <2>2 DEF vars, CallInv, At
<1>5. CASE Defer \/ ContextAppend \/ PromptFactory \/ RunTool \/ NextRound \/ Stuck
           \/ Iterate \/ Reply \/ Answered \/ CallRaises
  <2>1. ~At("calling")'
    BY <1>5 DEF Defer, ContextAppend, PromptFactory, RunTool, NextRound, Stuck, Iterate, Reply, Answered,
                CallRaises, At, Due, Store, Fail, ListDone, StartList
  <2>. QED  BY <2>1 DEF CallInv
<1>. QED  BY <1>1, <1>2, <1>3, <1>4, <1>5 DEF Next
LEMMA InitTexts == Init => TextInv /\ CallInv
<1>. SUFFICES ASSUME Init PROVE TextInv /\ CallInv  OBVIOUS
<1>1. request.context \in Texts  BY TextAssumption, Worded DEF Init
<1>2. context \in [Contexts -> Texts]  BY <1>1, NoText DEF Init
<1>3. \A n \in Names : ~IsIn(n)  BY DEF Init, IsIn
<1>4. ~At("calling")  BY DEF Init, At
<1>. QED  BY <1>2, <1>3, <1>4 DEF TextInv, CallInv

\* In the middle of a text, what is stripped to the same may stand for each other.
LEMMA StripSame ==
    ASSUME NEW a \in Texts, NEW b \in Texts, NEW c \in Texts, NEW d \in Texts, Strip(b) = Strip(c)
    PROVE  Strip(a \o (b \o d)) = Strip((a \o c) \o d)
<1>1. ASSUME NEW x \in Texts PROVE Strip((a \o x) \o d) = (Strip(a) \o Strip(x)) \o Strip(d)
  <2>1. a \o x \in Texts  BY Joining
  <2>2. Strip((a \o x) \o d) = Strip(a \o x) \o Strip(d)  BY <2>1, StripJoins
  <2>3. Strip(a \o x) = Strip(a) \o Strip(x)  BY StripJoins
  <2>. QED  BY <2>2, <2>3, Zenon
<1>2. (a \o b) \o d = a \o (b \o d)  BY Regrouped, SMTT(30)
<1>3. Strip((a \o b) \o d) = (Strip(a) \o Strip(b)) \o Strip(d)  BY <1>1
<1>4. Strip((a \o c) \o d) = (Strip(a) \o Strip(c)) \o Strip(d)  BY <1>1
<1>. QED  BY <1>2, <1>3, <1>4, Zenon

\* The first call for a step begins with the prefill, behind an empty think block
\* if there is none; the ones that follow begin with all that was heard.
LEMMA AsksAll ==
    ASSUME PrefillsEnd, Inv, TextInv, CallInv, At("calling")
    PROVE  Strip(Asked(call)) = Strip(Prompt(Here) \o Prefill(Here) \o heard)
<1>. DEFINE P == Prompt(Here)  F == Prefill(Here)  R == call.result  G == gen.text
            O == Opening(call.how)
<1>t. TypeOK /\ todo # << >> /\ Here.tool \in Model  BY DEF Inv, PlaceInv, CallInv
<1>1. P \in Texts /\ F \in Texts  BY <1>t, GivenTexts
<1>2. /\ G \in Texts /\ R \in Texts /\ heard \in Texts /\ G \o R = heard
      /\ call.turn \in Nat /\ call.turn <= call.how.limit /\ call.how = Way
  BY DEF CallInv, Calls
<1>3. CASE G # << >>
  <2>1. call.how = HowOn(Here, G)  BY <1>2, <1>3 DEF Way
  <2>2. call.turn = 0 /\ O = G /\ call.how.prompt = P \o F
    BY <1>2, <2>1 DEF HowOn, Opening
  <2>3. Asked(call) = (P \o F) \o heard  BY <1>2, <2>2 DEF Asked
  <2>. QED  BY <2>3
<1>4. CASE G = << >>
  <2>1. call.how = How(Here) /\ heard = R
    <3>1. << >> \o R = R  BY <1>2, ConcatEmptySeq DEF Texts
    <3>. QED  BY <1>2, <1>4, <3>1 DEF Way
  <2>2. call.how.prompt = P /\ call.how.prefill = F  BY <2>1 DEF How
  <2>3. O \in Texts /\ Strip(O) = Strip(F)
    <3>1. O = F \/ (O = Think /\ F = << >>)  BY <2>2 DEF Opening
    <3>. HIDE DEF O, F
    <3>. QED  BY <1>1, <3>1, StripThink
  <2>4. CASE call.turn = 0 \/ call.how.instruct
    <3>1. Asked(call) = P \o (O \o R)  BY <2>2, <2>4 DEF Asked
    <3>. HIDE DEF O, P, F, R
    <3>2. Strip(P \o (O \o R)) = Strip((P \o F) \o R)  BY <1>1, <1>2, <2>3, StripSame
    <3>. QED  BY <2>1, <3>1, <3>2, Zenon DEF P, F
  <2>5. CASE call.turn # 0 /\ ~call.how.instruct
    <3>1. F = << >>
      <4>1. ~Conditions(Here) /\ request.maxContinue # 0
        BY <1>2, <2>1, <2>5 DEF How
      <4>2. ~IsInstruct(Here, F)  BY <2>1, <2>5 DEF How
      <4>3. Here.tool = "generate" /\ Here.format # "instruct" /\ Here.until = {}
        BY <1>t, <4>1, <4>2 DEF IsInstruct, Conditions, Model
      <4>4. Here.prefill = << >>  BY <1>t, <4>1, <4>3, HereType
      <4>. QED  BY <4>3, <4>4 DEF Prefill
    <3>. DEFINE T == IF O = << >> THEN << >> ELSE Think
    <3>2. T \in Texts /\ Strip(T) = Strip(F)
      <4>1. T = << >> \/ T = Think  OBVIOUS
      <4>. HIDE DEF T, F
      <4>. QED  BY <3>1, <4>1, StripThink, NoText
    <3>3. Asked(call) = P \o (T \o R)
      <4>1. << >> \o R = R  BY <1>2, ConcatEmptySeq DEF Texts
      <4>2. O # << >> => call.how.noThink  BY <2>2, <3>1 DEF Opening
      <4>. QED  BY <2>2, <2>5, <4>1, <4>2 DEF Asked
    <3>. HIDE DEF T, P, F, R
    <3>4. Strip(P \o (T \o R)) = Strip((P \o F) \o R)  BY <1>1, <1>2, <3>2, StripSame
    <3>. QED  BY <2>1, <3>3, <3>4, Zenon DEF P, F
  <2>. QED  BY <2>4, <2>5
<1>. QED  BY <1>3, <1>4

\* Every request that a call sends to the model holds what the step was given and
\* all that the model has answered, once and in order, through polls, second tries
\* and continuations of either kind (llm_call_with_continue, _atomic_generate).
THEOREM AsksForAll == ASSUME PrefillsEnd PROVE Spec => []AsksForTheRest
<1>1. Init => Inv /\ TextInv /\ CallInv  BY InitHolds, InitTexts
<1>2. Inv /\ TextInv /\ CallInv /\ [Next]_vars => (Inv /\ TextInv /\ CallInv)'
  BY NextStep, TextStep, CallInvStep
<1>3. Inv /\ TextInv /\ CallInv => AsksForTheRest  BY AsksAll DEF AsksForTheRest
<1>. QED  BY <1>1, <1>2, <1>3, PTL DEF Spec
===============================================================================
