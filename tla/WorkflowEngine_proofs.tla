------------------------ MODULE WorkflowEngine_proofs ------------------------
(***************************************************************************)
(* What holds of the workflow engine for any workflows and any number of   *)
(* requests at a time: the types, that the item is never on a copy that    *)
(* was deleted, that no copy is left behind in the store (both unless a    *)
(* copy or an edge was not saved), and that every request winds down.      *)
(***************************************************************************)
EXTENDS WorkflowEngine, FiniteSetTheorems, WellFoundedInduction, TLAPS

\* The copies that were made are the only ones anything refers to, and each
\* is of a step of the workflow.
Known ==
    /\ on \subseteq 1..made /\ live \subseteq 1..made
    /\ \A c \in 1..made : copy[c].step \in DOMAIN template
    /\ \A t \in Threads : at[t] \in 0..made
    /\ \A t \in Threads : pc[t] \in {"saved", "next"} => at[t] # None
    /\ \A t \in Threads : built[t] \in Seq(1..made)
    /\ \A t \in Threads : listed[t] \subseteq 1..made
    /\ messages \in Seq(1..made)

\* Copies are in the hands of a thread only between building and adding them,
\* and between listing and deleting them.
PhaseOf(t) ==
    /\ built[t] # <<>> => \/ pc[t] = "add"
                          \/ pc[t] \in {"list", "remove"} /\ then[t] = "add"
    /\ listed[t] # {} => pc[t] = "remove"

Phase == \A t \in Threads : PhaseOf(t)

Distinct(s) == \A i, j \in DOMAIN s : s[i] = s[j] => i = j

\* A copy that was built and not added yet is in the store, unless one was not
\* saved, and nobody else has to do with it.
Apart ==
    /\ \A t \in Threads : Distinct(built[t])
    /\ \A t \in Threads : \A c \in Elements(built[t]) :
          /\ faults = 0 => c \in live
          /\ c \notin on /\ c \notin Elements(messages)
          /\ \A u \in Threads :
                /\ c \notin listed[u]
                /\ pc[u] = "next" => at[u] # c
                /\ u # t => c \notin Elements(built[u])

\* Where the copies in the store are, as long as every save succeeds.
Tracked ==
    faults = 0 =>
        \A c \in live : \/ c \in on
                        \/ \E t \in Threads : c \in Elements(built[t]) \cup listed[t]

IInv == TypeOK /\ Known /\ Phase /\ Apart /\ Tracked

\* moveNext() makes copies, and the store keeps all or loses some of them.
Builds(t) ==
    \E lost \in SUBSET Copies :
        /\ BuildAllBut(t, lost)
        /\ IF lost = {} THEN UNCHANGED faults
                       ELSE faults < MaxFaults /\ faults' = faults + 1

-----------------------------------------------------------------------------
\* A group of steps fits between the step before it and the end.
LEMMA GroupSize ==
    ASSUME template \in Seq(StepKinds), NEW k \in 0..Len(template)
    PROVE  Cardinality(Group(k)) \in 0..Len(template) - k
<1>1. Len(template) \in Nat /\ k + 1 \in Int /\ Len(template) \in Int
  OBVIOUS
<1>2. Group(k) \subseteq k + 1..Len(template)
  BY DEF Group, Place
<1>3. /\ IsFiniteSet(k + 1..Len(template))
      /\ Cardinality(k + 1..Len(template)) =
            IF k + 1 > Len(template) THEN 0 ELSE Len(template) - (k + 1) + 1
  BY <1>1, FS_Interval
<1>4. /\ IsFiniteSet(Group(k))
      /\ Cardinality(Group(k)) <= Cardinality(k + 1..Len(template))
  BY <1>2, <1>3, FS_Subset
<1>5. Cardinality(Group(k)) \in Nat
  BY <1>4, FS_CardinalityType
<1> QED
  BY <1>1, <1>3, <1>4, <1>5

\* What Make does to the copies, whether all or some of them are saved.
LEMMA Making ==
    ASSUME TypeOK, Known, NEW k \in 0..Len(template),
           NEW n \in 0..Cardinality(Group(k)), NEW lost, Make(k, n, lost),
           template' = template
    PROVE  /\ made' = made + n
           /\ made \in 0..MaxCopies /\ made' \in 0..MaxCopies
           /\ live' = live \cup (made + 1..made' \ lost)
           /\ made + 1..made' \subseteq Copies
           /\ copy' \in [Copies -> [step : 0..Len(template), ordinal : Nat,
                                    approved : BOOLEAN, completed : BOOLEAN]]
           /\ \A c \in 1..made' : copy'[c].step \in DOMAIN template'
<1> DEFINE Fields == [step : 0..Len(template), ordinal : Nat,
                      approved : BOOLEAN, completed : BOOLEAN]
<1>1. /\ n \in Nat
      /\ k + n \in 0..Len(template)
  <2>1. template \in Seq(StepKinds)
    BY TemplatesAssumption DEF TypeOK
  <2> QED
    BY <2>1, GroupSize
<1>2. /\ made' = made + n
      /\ made \in 0..MaxCopies /\ made' \in 0..MaxCopies
      /\ live' = live \cup (made + 1..made' \ lost)
  BY <1>1, BoundsAssumption DEF Make, TypeOK
<1>3. ASSUME NEW c \in Copies
      PROVE  /\ copy'[c] \in Fields
             /\ c <= made' => copy'[c].step \in 1..Len(template)
  <2>1. CASE c \in made + 1..made + n
    <3>1. copy'[c] = [step |-> k + 1 + c - made - 1, ordinal |-> c - made - 1,
                      approved |-> FALSE, completed |-> FALSE]
      BY <2>1 DEF Make, NoCopy, Place
    <3>2. /\ k + 1 + c - made - 1 \in 1..Len(template)
          /\ c - made - 1 \in Nat
      BY <1>1, <1>2, <2>1
    <3> QED
      BY <3>1, <3>2
  <2>2. CASE c \notin made + 1..made + n
    <3>1. copy'[c] = copy[c]
      BY <2>2 DEF Make
    <3>2. c <= made' => c \in 1..made
      BY <1>1, <1>2, <2>2 DEF Copies
    <3>3. DOMAIN template = 1..Len(template)
      BY TemplatesAssumption DEF TypeOK
    <3> QED
      BY <3>1, <3>2, <3>3 DEF TypeOK, Known
  <2> QED
    BY <2>1, <2>2
<1>4. copy' \in [Copies -> Fields]
  BY <1>3 DEF Make
<1>5. DOMAIN template' = 1..Len(template)
  BY TemplatesAssumption DEF TypeOK
<1>6. 1..made' \subseteq Copies /\ made + 1..made' \subseteq Copies
  BY <1>2, BoundsAssumption DEF Copies
<1> QED
  BY <1>2, <1>3, <1>4, <1>5, <1>6

\* The initial state satisfies the invariant.
LEMMA InitInv == Init => IInv
<1> SUFFICES ASSUME Init
             PROVE  IInv
  OBVIOUS
<1>1. TypeOK
  <2>1. template \in Templates /\ Len(template) \in Nat
    BY TemplatesAssumption DEF Init
  <2>2. copy \in [Copies -> [step : 0..Len(template), ordinal : Nat,
                             approved : BOOLEAN, completed : BOOLEAN]]
    BY <2>1 DEF Init, NoCopy, None
  <2>3. /\ built \in [Threads -> Seq(Copies)]
        /\ messages \in Seq(Copies)
    BY DEF Init
  <2>4. item \in [approved : BOOLEAN, completed : BOOLEAN]
    BY DEF Init
  <2>5. /\ pc \in [Threads -> PCs]
        /\ at \in [Threads -> Copies \cup {None}]
        /\ after \in [Threads -> 0..Len(template)]
        /\ listed \in [Threads -> SUBSET Copies]
        /\ then \in [Threads -> {"idle", "init", "add", "approve", "disapprove"}]
    BY <2>1 DEF Init, PCs, None
  <2>6. /\ on \subseteq Copies /\ live \subseteq Copies /\ on \subseteq live
        /\ made \in 0..MaxCopies
        /\ signed \cup rejected \subseteq DOMAIN template
        /\ starts \in 0..MaxStarts
        /\ faults \in 0..MaxFaults
    BY BoundsAssumption DEF Init
  <2> QED
    BY <2>1, <2>2, <2>3, <2>4, <2>5, <2>6 DEF TypeOK
<1>2. Known /\ Phase /\ Apart /\ Tracked
  BY DEF Init, Known, Phase, PhaseOf, Apart, Distinct, Tracked, Elements, None
<1> QED
  BY <1>1, <1>2 DEF IInv

\* Where moveNext() is after it has looked at the steps.
LEMMA Examined ==
    ASSUME NEW t, Examine(t)
    PROVE  /\ t \in Threads /\ pc[t] = "examine"
           /\ \E label \in {"idle", "isEmpty", "build"} : Goto(t, label)
           /\ at' = at \/ at' = [at EXCEPT ![t] = None]
           /\ UNCHANGED <<store, built, listed, then, history>>
<1>1. /\ t \in Threads /\ pc[t] = "examine"
      /\ UNCHANGED <<store, built, listed, then, history>>
  BY DEF Examine, At
<1>2. \/ Goto(t, Moved(t)) /\ UNCHANGED at
      \/ Return(t)
      \/ Goto(t, "build") /\ UNCHANGED at
  BY DEF Examine
<1>3. Moved(t) \in {"idle", "isEmpty"}
  BY DEF Moved
<1> QED
  BY <1>1, <1>2, <1>3 DEF Return

\* Every step keeps the types, and the item on copies that are in the store
\* unless one was lost.
LEMMA TypeStep ==
    ASSUME IInv, [Next]_vars
    PROVE  TypeOK'
<1>0. /\ TypeOK /\ Known
      /\ on \subseteq Copies /\ live \subseteq Copies
      /\ faults = 0 => on \subseteq live
  BY DEF IInv, TypeOK
<1> USE BoundsAssumption DEF IInv, TypeOK, Known, Apart, PCs, Goto, At, store, locals,
               history, None
<1>1. CASE UNCHANGED vars
  BY <1>1 DEF vars
<1>2. ASSUME NEW t \in Threads, Start(t)
      PROVE  TypeOK'
  <2>1. /\ starts' \in 0..MaxStarts
        /\ signed' \cup rejected' \subseteq DOMAIN template
    BY <1>2 DEF Start
  <2>2. /\ pc' \in [Threads -> PCs]
        /\ at' \in [Threads -> Copies \cup {None}]
        /\ then' \in [Threads -> {"idle", "init", "add", "approve", "disapprove"}]
    BY <1>2 DEF Start
  <2> QED
    BY <1>2, <2>1, <2>2 DEF Start
<1>3. ASSUME NEW t \in Threads, NEW c \in Copies, NEW a \in BOOLEAN,
             NEW b \in Completions, Update(t, c, a, b)
      PROVE  TypeOK'
  <2>1. copy' \in [Copies -> [step : 0..Len(template), ordinal : Nat,
                            approved : BOOLEAN, completed : BOOLEAN]]
    BY <1>3, CompletionsAssumption DEF Update
  <2>2. c \in 1..made /\ copy[c].step \in DOMAIN template
    BY <1>3 DEF Update
  <2>3. signed' \cup rejected' \subseteq DOMAIN template
    BY <1>3, <2>2 DEF Update
  <2>4. /\ UNCHANGED <<template, on, live, made, item, messages, after, built, listed,
                     then, starts, faults>>
        /\ pc' \in [Threads -> PCs]
        /\ at' \in [Threads -> Copies \cup {None}]
    BY <1>3 DEF Update
  <2> QED
    BY <2>1, <2>3, <2>4
<1>4. ASSUME NEW t \in Threads, TakeMessage(t)
      PROVE  TypeOK'
  <2>1. messages' \in Seq(Copies)
    BY <1>4 DEF TakeMessage
  <2>2. Head(messages) \in Copies
    BY <1>4 DEF TakeMessage
  <2>3. /\ UNCHANGED <<template, on, live, copy, made, item, after, built, listed, then,
                     history>>
        /\ pc' \in [Threads -> PCs]
    BY <1>4 DEF TakeMessage
  <2>4. at' \in [Threads -> Copies \cup {None}]
    <3>1. CASE at' = at
      BY <3>1
    <3>2. CASE at' = [at EXCEPT ![t] = Head(messages)]
      BY <2>2, <3>2
    <3> QED
      BY <1>4, <3>1, <3>2 DEF TakeMessage
  <2> QED
    BY <2>1, <2>3, <2>4
<1>5. ASSUME NEW t \in Threads, Engine(t)
      PROVE  TypeOK'
  <2>1. CASE InitSteps(t)
    BY <2>1 DEF InitSteps
  <2>2. CASE AfterUpdate(t)
    BY <2>2 DEF AfterUpdate, Return
  <2>3. CASE Lost(t)
    BY <2>3 DEF Lost, Return
  <2>4. CASE HandleNext(t)
    BY <2>4 DEF HandleNext, Return, ClearFirst
  <2>5. CASE Examine(t)
    <3>1. after' \in [Threads -> 0..Len(template)]
      <4>1. \A c \in Copies : copy[c].step \in 0..Len(template)
        OBVIOUS
      <4>2. Len(template) \in Nat /\ None \in 0..Len(template)
        BY TemplatesAssumption
      <4>3. CASE after' = after
        BY <4>3
      <4>4. CASE \E c \in Firsts(on) : after' = [after EXCEPT ![t] = copy[c].step]
        <5>1. PICK c \in on : after' = [after EXCEPT ![t] = copy[c].step]
          BY <4>4 DEF Firsts
        <5> QED
          BY <4>1, <5>1
      <4>5. CASE after' = [after EXCEPT ![t] = IF at[t] = None THEN None ELSE copy[at[t]].step]
        BY <4>1, <4>2, <4>5
      <4> QED
        BY <2>5, <4>3, <4>4, <4>5 DEF Examine
    <3>2. pc' \in [Threads -> PCs]
      BY <2>5, Examined
    <3>3. at' \in [Threads -> Copies \cup {None}]
      BY <2>5, Examined
    <3> QED
      BY <2>5, <3>1, <3>2, <3>3, Examined
  <2>6. CASE Build(t) \/ BuildLoses(t)
    <3> DEFINE n == Cardinality(Group(after[t]))
    <3>1. n \in Nat /\ Len(template) \in Nat
      BY GroupSize, TemplatesAssumption
    <3>2. PICK lost \in SUBSET Copies :
            /\ BuildAllBut(t, lost)
            /\ IF lost = {} THEN UNCHANGED faults
                           ELSE faults < MaxFaults /\ faults' = faults + 1
      BY <2>6 DEF Build, BuildLoses
    <3>3. /\ Make(after[t], n, lost)
          /\ built' = [built EXCEPT ![t] = [i \in 1..n |-> made + i]]
      BY <3>2 DEF BuildAllBut
    <3>4. /\ UNCHANGED <<template, on, item, messages, at, listed, signed, rejected,
                       starts>>
          /\ pc' \in [Threads -> PCs]
          /\ then' \in [Threads -> {"idle", "init", "add", "approve", "disapprove"}]
          /\ after' \in [Threads -> 0..Len(template)]
          /\ faults' \in 0..MaxFaults
          /\ faults' = 0 => faults = 0
      BY <3>1, <3>2 DEF BuildAllBut
    <3> HIDE DEF n
    <3>5. /\ made' = made + n
          /\ made \in 0..MaxCopies /\ made' \in 0..MaxCopies
          /\ live' = live \cup (made + 1..made' \ lost) /\ made + 1..made' \subseteq Copies
          /\ copy' \in [Copies -> [step : 0..Len(template), ordinal : Nat,
                                   approved : BOOLEAN, completed : BOOLEAN]]
      <4>1. n \in 0..n /\ after[t] \in 0..Len(template)
        BY <3>1
      <4>2. Make(after[t], n, lost) /\ n \in 0..Cardinality(Group(after[t]))
        BY <3>3, <4>1 DEF n
      <4>3. template' = template
        BY <3>4
      <4> HIDE DEF TypeOK, Known, IInv
      <4> QED
        BY <1>0, <4>1, <4>2, <4>3, Making
    <3>6. [i \in 1..n |-> made + i] \in Seq(Copies)
      <4>1. \A i \in 1..n : made + i \in Copies
        BY <3>1, <3>5 DEF Copies
      <4> QED
        BY <3>1, <4>1
    <3>7. live' \subseteq Copies /\ live \subseteq live'
      BY <3>5
    <3>8. on' \subseteq Copies /\ (faults' = 0 => on' \subseteq live')
      <4> HIDE DEF TypeOK, Known, Apart, IInv
      <4> QED
        BY <1>0, <3>4, <3>7
    <3>9. built' \in [Threads -> Seq(Copies)]
      BY <3>3, <3>6
    <3>10. /\ UNCHANGED <<template, item, messages, at, listed, starts>>
           /\ signed' \cup rejected' \subseteq DOMAIN template'
           /\ copy' \in [Copies -> [step : 0..Len(template'), ordinal : Nat,
                                    approved : BOOLEAN, completed : BOOLEAN]]
      BY <3>4, <3>5
    <3> QED
      BY <3>4, <3>5, <3>7, <3>8, <3>9, <3>10
  <2>7. CASE AddLoses(t)
    <3>1. /\ built[t] \in Seq(Copies) /\ built[t] # <<>> /\ faults' \in 0..MaxFaults
          /\ faults' # 0
      BY <2>7 DEF AddLoses
    <3>2. built' \in [Threads -> Seq(Copies)]
      BY <2>7, <3>1 DEF AddLoses
    <3> QED
      BY <2>7, <3>1, <3>2 DEF AddLoses
  <2>8. CASE AddStep(t)
    <3>1. /\ built[t] \in Seq(Copies) /\ built[t] # <<>>
          /\ Head(built[t]) \in Elements(built[t])
      BY <2>8 DEF AddStep, Elements
    <3>2. Head(built[t]) \in Copies /\ (faults = 0 => Head(built[t]) \in live)
      BY <3>1
    <3>3. messages' \in Seq(Copies)
      BY <2>8, <3>1 DEF AddStep, Monitor
    <3>4. built' \in [Threads -> Seq(Copies)]
      BY <2>8, <3>1 DEF AddStep
    <3> QED
      BY <2>8, <3>2, <3>3, <3>4 DEF AddStep
  <2>9. CASE AllAdded(t)
    BY <2>9 DEF AllAdded, Moved
  <2>10. CASE AddFails(t)
    <3>1. faults' \in 0..MaxFaults /\ faults' # 0
      BY <2>10 DEF AddFails
    <3> QED
      BY <2>10, <3>1 DEF AddFails, Moved
  <2>11. CASE ListSteps(t)
    BY <2>11 DEF ListSteps
  <2>12. CASE RemoveEdge(t)
    BY <2>12 DEF RemoveEdge, Firsts
  <2>13. CASE DeleteListed(t)
    BY <2>13 DEF DeleteListed, Edgeless, Deletable
  <2>14. CASE IsEmpty(t)
    BY <2>14 DEF IsEmpty, Return
  <2>15. CASE Finalize(t)
    BY <2>15 DEF Finalize, Return
  <2> QED
    BY <1>5, <2>1, <2>2, <2>3, <2>4, <2>5, <2>6, <2>7, <2>8,
       <2>9, <2>10, <2>11, <2>12, <2>13, <2>14, <2>15
       DEF Engine, MoveNext, ClearAndDelete
<1> HIDE DEF IInv, TypeOK
<1> QED
  BY <1>1, <1>2, <1>3, <1>4, <1>5 DEF Next, Decision

-----------------------------------------------------------------------------
\* What the other threads see of a step of thread t: its own fields change.
Others(t) ==
    \A u \in Threads \ {t} :
        /\ pc'[u] = pc[u] /\ then'[u] = then[u] /\ at'[u] = at[u]
        /\ built'[u] = built[u] /\ listed'[u] = listed[u]

\* A step that leaves the copies, and who has to do with them, as they are.
Calm(t) ==
    /\ Others(t)
    /\ UNCHANGED <<template, on, live, made, messages, built, listed, faults>>
    /\ \A c \in Copies : copy'[c].step = copy[c].step
    /\ at'[t] \in {at[t], None} \cup live
    /\ pc'[t] = "saved" => at'[t] \in live
    /\ pc'[t] = "next" => at'[t] \in on
    /\ pc[t] # "remove"
    /\ pc[t] \in {"list", "add"} => built[t] = <<>>

\* The steps that do not touch the store are calm.
LEMMA CalmSteps ==
    ASSUME IInv, NEW t \in Threads,
           \/ Start(t) \/ Decision(t) \/ InitSteps(t) \/ AfterUpdate(t)
           \/ HandleNext(t) \/ Examine(t) \/ AllAdded(t) \/ IsEmpty(t) \/ Finalize(t)
    PROVE  Calm(t)
<1> USE DEF IInv, TypeOK, Known, Goto, At, store, locals, history, None, Others, Calm
<1>1. CASE Start(t)
  BY <1>1 DEF Start
<1>2. CASE Decision(t)
  <2>1. PICK c \in Copies, a \in BOOLEAN, b \in Completions : Update(t, c, a, b)
    BY <1>2 DEF Decision
  <2>2. \A d \in Copies : copy'[d].step = copy[d].step
    BY <2>1 DEF Update
  <2>3. pc'[t] = "saved" /\ at'[t] = c /\ c \in live /\ pc[t] = "idle"
    BY <2>1 DEF Update
  <2>4. Others(t)
    BY <2>1 DEF Update
  <2>5. UNCHANGED <<template, on, live, made, messages, built, listed, faults>>
    BY <2>1 DEF Update
  <2> QED
    BY <2>2, <2>3, <2>4, <2>5
<1>3. CASE InitSteps(t)
  BY <1>3 DEF InitSteps
<1>4. CASE AfterUpdate(t)
  BY <1>4 DEF AfterUpdate, Return
<1>5. CASE HandleNext(t)
  BY <1>5 DEF HandleNext, Return, ClearFirst
<1>6. CASE Examine(t)
  <2>1. /\ pc[t] = "examine" /\ pc'[t] \in {"idle", "isEmpty", "build"}
        /\ at'[t] \in {at[t], None}
    BY <1>6, Examined
  <2>2. Others(t)
    <3>1. \A u \in Threads \ {t} : pc'[u] = pc[u]
      BY <1>6, Examined
    <3>2. \A u \in Threads \ {t} : at'[u] = at[u]
      <4>1. CASE at' = at
        BY <4>1
      <4>2. CASE at' = [at EXCEPT ![t] = None]
        BY <4>2
      <4> QED
        BY <1>6, <4>1, <4>2, Examined
    <3>3. UNCHANGED <<built, listed, then>>
      BY <1>6, Examined
    <3> QED
      BY <3>1, <3>2, <3>3
  <2>3. UNCHANGED <<template, on, live, copy, made, messages, built, listed, faults>>
    BY <1>6, Examined
  <2> QED
    BY <2>1, <2>2, <2>3
<1>7. CASE AllAdded(t)
  BY <1>7 DEF AllAdded, Moved
<1>8. CASE IsEmpty(t)
  BY <1>8 DEF IsEmpty, Return
<1>9. CASE Finalize(t)
  BY <1>9 DEF Finalize, Return
<1> QED
  BY <1>1, <1>2, <1>3, <1>4, <1>5, <1>6, <1>7, <1>8, <1>9

LEMMA BuildsAll ==
    ASSUME NEW t, Build(t) \/ BuildLoses(t)
    PROVE  Builds(t)
  BY DEF Build, BuildLoses, Builds

\* A step of the system is calm, or one of those that move copies about.
LEMMA Steps ==
    ASSUME IInv, Next
    PROVE  \E t \in Threads :
              \/ Calm(t) \/ TakeMessage(t) \/ Lost(t) \/ Builds(t)
              \/ AddStep(t) \/ AddLoses(t) \/ AddFails(t)
              \/ ListSteps(t) \/ RemoveEdge(t) \/ DeleteListed(t)
  BY CalmSteps, BuildsAll DEF Next, Engine, MoveNext, ClearAndDelete

\* The others do not notice any of those either.
LEMMA OnlyOwn ==
    ASSUME TypeOK, NEW t \in Threads,
           \/ TakeMessage(t) \/ Lost(t) \/ Builds(t)
           \/ AddStep(t) \/ AddLoses(t) \/ AddFails(t)
           \/ ListSteps(t) \/ RemoveEdge(t) \/ DeleteListed(t)
    PROVE  Others(t)
<1> USE DEF TypeOK, Goto, locals, Others
<1>1. CASE TakeMessage(t)
  BY <1>1 DEF TakeMessage
<1>2. CASE Lost(t)
  BY <1>2 DEF Lost, Return
<1>3. CASE Builds(t)
  BY <1>3 DEF Builds, BuildAllBut
<1>4. CASE AddLoses(t)
  BY <1>4 DEF AddLoses
<1>5. CASE AddStep(t)
  BY <1>5 DEF AddStep
<1>6. CASE AddFails(t)
  BY <1>6 DEF AddFails
<1>7. CASE ListSteps(t)
  BY <1>7 DEF ListSteps
<1>8. CASE RemoveEdge(t)
  BY <1>8 DEF RemoveEdge
<1>9. CASE DeleteListed(t)
  BY <1>9 DEF DeleteListed
<1> QED
  BY <1>1, <1>2, <1>3, <1>4, <1>5, <1>6, <1>7, <1>8, <1>9

-----------------------------------------------------------------------------
\* Head and tail of a sequence share no element if its elements are distinct.
LEMMA HeadTail ==
    ASSUME NEW S, NEW s \in Seq(S), s # <<>>
    PROVE  /\ Head(s) \in S /\ Tail(s) \in Seq(S)
           /\ Elements(s) = {Head(s)} \cup Elements(Tail(s))
           /\ Distinct(s) => Distinct(Tail(s)) /\ Head(s) \notin Elements(Tail(s))
<1>1. /\ Head(s) \in S /\ Tail(s) \in Seq(S)
      /\ Head(s) = s[1] /\ Len(s) \in Nat \ {0}
      /\ DOMAIN s = 1..Len(s) /\ DOMAIN Tail(s) = 1..Len(s) - 1
      /\ \A i \in 1..Len(s) - 1 : Tail(s)[i] = s[i + 1]
  OBVIOUS
<1>2. ASSUME NEW x \in Elements(s), x # Head(s)
      PROVE  x \in Elements(Tail(s))
  <2>1. PICK i \in 1..Len(s) : x = s[i]
    BY <1>1, <1>2 DEF Elements
  <2>2. i - 1 \in 1..Len(s) - 1 /\ i - 1 + 1 = i
    BY <1>1, <1>2, <2>1
  <2> QED
    BY <1>1, <2>1, <2>2 DEF Elements
<1>3. Elements(Tail(s)) \subseteq Elements(s)
  BY <1>1 DEF Elements
<1>4. Head(s) \in Elements(s)
  BY <1>1 DEF Elements
<1>5. ASSUME Distinct(s)
      PROVE  Distinct(Tail(s)) /\ Head(s) \notin Elements(Tail(s))
  <2>1. \A i \in 1..Len(s) - 1 : i + 1 \in DOMAIN s /\ i + 1 # 1
    BY <1>1
  <2>2. 1 \in DOMAIN s
    BY <1>1
  <2> QED
    BY <1>1, <1>5, <2>1, <2>2 DEF Distinct, Elements
<1> QED
  BY <1>1, <1>2, <1>3, <1>4, <1>5

\* Appending adds one element.
LEMMA Appended ==
    ASSUME NEW S, NEW s \in Seq(S), NEW x \in S
    PROVE  /\ Append(s, x) \in Seq(S)
           /\ Elements(Append(s, x)) \subseteq Elements(s) \cup {x}
  BY DEF Elements

-----------------------------------------------------------------------------
\* Sequences of some elements are sequences of more.
LEMMA SubSeqs ==
    ASSUME NEW S, NEW T, S \subseteq T
    PROVE  Seq(S) \subseteq Seq(T)
  OBVIOUS

\* What a step has to show so that only copies that were made are referred to.
LEMMA KnownFrame ==
    ASSUME TypeOK, Known, NEW t \in Threads, Others(t),
           made' \in Nat, made <= made',
           on' \subseteq 1..made', live' \subseteq 1..made',
           \A c \in 1..made' : copy'[c].step \in DOMAIN template',
           at'[t] \in 0..made',
           pc'[t] \in {"saved", "next"} => at'[t] # None,
           built'[t] \in Seq(1..made'),
           listed'[t] \subseteq 1..made',
           messages' \in Seq(1..made')
    PROVE  Known'
<1>1. made \in Nat /\ 1..made \subseteq 1..made' /\ 0..made \subseteq 0..made'
  BY BoundsAssumption DEF TypeOK
<1>2. Seq(1..made) \subseteq Seq(1..made')
  BY <1>1, SubSeqs
<1>3. ASSUME NEW u \in Threads
      PROVE  /\ at'[u] \in 0..made'
             /\ pc'[u] \in {"saved", "next"} => at'[u] # None
             /\ built'[u] \in Seq(1..made')
             /\ listed'[u] \subseteq 1..made'
  <2>1. CASE u = t
    BY <2>1
  <2>2. CASE u # t
    <3>1. /\ pc'[u] = pc[u] /\ at'[u] = at[u]
          /\ built'[u] = built[u] /\ listed'[u] = listed[u]
      BY <2>2 DEF Others
    <3> QED
      BY <1>1, <1>2, <3>1 DEF Known
  <2> QED
    BY <2>1, <2>2
<1> QED
  BY <1>3 DEF Known

\* The same for a step that makes no copies.
LEMMA KnownSame ==
    ASSUME TypeOK, Known, NEW t \in Threads, Others(t),
           made' = made, template' = template, on' \subseteq 1..made, live' \subseteq live,
           \A c \in Copies : copy'[c].step = copy[c].step,
           at'[t] \in 0..made,
           pc'[t] \in {"saved", "next"} => at'[t] # None,
           built'[t] \in Seq(1..made),
           listed'[t] \subseteq 1..made,
           messages' \in Seq(1..made)
    PROVE  Known'
<1>1. made \in Nat /\ 1..made \subseteq Copies
  BY BoundsAssumption DEF TypeOK, Copies
<1>2. \A c \in 1..made' : copy'[c].step \in DOMAIN template'
  BY <1>1 DEF Known
<1>3. on' \subseteq 1..made' /\ live' \subseteq 1..made'
  BY DEF Known
<1>4. made' \in Nat /\ made <= made'
  BY <1>1
<1> QED
  BY <1>2, <1>3, <1>4, KnownFrame

\* Every step refers only to copies that were made.
LEMMA KnownStep ==
    ASSUME IInv, [Next]_vars
    PROVE  Known'
<1>1. CASE UNCHANGED vars
  BY <1>1 DEF vars, store, locals, history, IInv, Known
<1>2. CASE Next
  <2>0. PICK t \in Threads :
           \/ Calm(t) \/ TakeMessage(t) \/ Lost(t) \/ Builds(t)
           \/ AddStep(t) \/ AddLoses(t) \/ AddFails(t)
           \/ ListSteps(t) \/ RemoveEdge(t) \/ DeleteListed(t)
    BY <1>2, Steps
  <2>1. Others(t) /\ TypeOK /\ Known
    BY <2>0, OnlyOwn DEF Calm, IInv
  <2>2. /\ at[t] \in 0..made /\ live \subseteq 1..made /\ on \subseteq 1..made
        /\ built[t] \in Seq(1..made) /\ listed[t] \subseteq 1..made
        /\ messages \in Seq(1..made) /\ made \in Nat /\ None = 0
        /\ pc[t] \in {"saved", "next"} => at[t] # None
        /\ None \in 0..made /\ 1..made \subseteq 0..made
    BY <2>1, BoundsAssumption DEF TypeOK, Known, None
  <2> USE DEF Goto, At, store, locals, history
  <2>3. CASE Calm(t)
    <3>1. /\ UNCHANGED <<made, template, on, live, messages, built, listed>>
          /\ \A c \in Copies : copy'[c].step = copy[c].step
      BY <2>3 DEF Calm
    <3>2. at'[t] \in 0..made
      <4>1. at'[t] = at[t] \/ at'[t] = None \/ at'[t] \in live
        BY <2>3 DEF Calm
      <4> QED
        BY <2>2, <4>1
    <3>3. pc'[t] \in {"saved", "next"} => at'[t] # None
      BY <2>2, <2>3 DEF Calm
    <3> QED
      BY <2>1, <2>2, <3>1, <3>2, <3>3, KnownSame
  <2>4. CASE TakeMessage(t)
    <3>1. UNCHANGED <<made, template, on, live, copy, built, listed>>
      BY <2>4 DEF TakeMessage
    <3>2. Tail(messages) \in Seq(1..made) /\ Head(messages) \in 1..made
      BY <2>2, <2>4, HeadTail DEF TakeMessage
    <3>3. messages' \in Seq(1..made)
      BY <2>4, <3>2 DEF TakeMessage
    <3>4. at'[t] \in 0..made /\ (pc'[t] \in {"saved", "next"} => at'[t] # None)
      <4>1. CASE UNCHANGED <<at, pc>>
        BY <2>2, <4>1
      <4>2. CASE at' = [at EXCEPT ![t] = Head(messages)]
        BY <2>1, <2>2, <3>2, <4>2 DEF TypeOK
      <4> QED
        BY <2>4, <4>1, <4>2 DEF TakeMessage
    <3> QED
      BY <2>1, <2>2, <3>1, <3>3, <3>4, KnownSame
  <2>5. CASE Lost(t)
    <3>1. /\ UNCHANGED <<made, template, on, copy, messages, built, listed>>
          /\ live' \subseteq live /\ at'[t] = None /\ pc'[t] = "idle"
      BY <2>1, <2>5 DEF Lost, Return, TypeOK
    <3> QED
      BY <2>1, <2>2, <3>1, KnownSame
  <2>6. CASE Builds(t)
    <3> DEFINE n == Cardinality(Group(after[t]))
    <3>1. n \in 0..Cardinality(Group(after[t])) /\ n \in Nat
      BY <2>1, GroupSize, TemplatesAssumption DEF TypeOK
    <3>2. PICK lost : BuildAllBut(t, lost)
      BY <2>6 DEF Builds
    <3>3. /\ UNCHANGED <<template, on, at, messages, listed>> /\ pc'[t] = "list"
          /\ Make(after[t], n, lost)
          /\ built'[t] = [i \in 1..n |-> made + i]
      BY <2>1, <3>2 DEF BuildAllBut, TypeOK
    <3> HIDE DEF n
    <3>4. after[t] \in 0..Len(template)
      BY <2>1 DEF TypeOK
    <3>5. /\ made' = made + n
          /\ live' = live \cup (made + 1..made' \ lost)
          /\ \A c \in 1..made' : copy'[c].step \in DOMAIN template'
      BY <2>1, <3>1, <3>3, <3>4, Making
    <3>6. /\ made' \in Nat /\ made <= made'
          /\ 1..made \subseteq 1..made' /\ made + 1..made' \subseteq 1..made'
      BY <2>2, <3>1, <3>5
    <3>7. on' \subseteq 1..made' /\ live' \subseteq 1..made'
      BY <2>2, <3>3, <3>5, <3>6
    <3>8. \A i \in 1..n : made + i \in 1..made'
      BY <2>2, <3>1, <3>5
    <3>9. built'[t] \in Seq(1..made')
      <4>1. [i \in 1..n |-> made + i] \in Seq(1..made')
        BY <3>1, <3>8
      <4> QED
        BY <3>3, <4>1
    <3>10. messages' \in Seq(1..made') /\ listed'[t] \subseteq 1..made'
      BY <2>2, <3>3, <3>6, SubSeqs
    <3>11. at'[t] \in 0..made'
      BY <2>2, <3>3, <3>6
    <3> QED
      BY <2>1, <3>3, <3>5, <3>6, <3>7, <3>9, <3>10, <3>11, KnownFrame
  <2>8. CASE AddLoses(t)
    <3>1. /\ UNCHANGED <<made, template, on, live, copy, at, pc, messages, listed>>
          /\ built'[t] = Tail(built[t]) /\ built[t] # <<>>
      BY <2>1, <2>8 DEF AddLoses, TypeOK
    <3>2. built'[t] \in Seq(1..made)
      BY <2>2, <3>1, HeadTail
    <3> QED
      BY <2>1, <2>2, <3>1, <3>2, KnownSame
  <2>9. CASE AddStep(t)
    <3>1. UNCHANGED <<made, template, live, copy, at, pc, listed>>
      BY <2>9 DEF AddStep
    <3>2. Tail(built[t]) \in Seq(1..made) /\ Head(built[t]) \in 1..made
      BY <2>2, <2>9, HeadTail DEF AddStep
    <3>3. built'[t] \in Seq(1..made)
      BY <2>1, <2>9, <3>2 DEF AddStep, TypeOK
    <3>4. messages' \in Seq(1..made) /\ on' \subseteq 1..made
      BY <2>2, <2>9, <3>2, Appended DEF AddStep, Monitor
    <3> QED
      BY <2>1, <2>2, <3>1, <3>3, <3>4, KnownSame
  <2>10. CASE AddFails(t)
    <3>1. /\ UNCHANGED <<made, template, on, live, copy, at, listed, messages>>
          /\ built'[t] = <<>> /\ pc'[t] \notin {"saved", "next"}
      BY <2>1, <2>10 DEF AddFails, Moved, TypeOK
    <3>2. built'[t] \in Seq(1..made)
      BY <3>1
    <3> QED
      BY <2>1, <2>2, <3>1, <3>2, KnownSame
  <2>11. CASE ListSteps(t)
    <3>1. /\ UNCHANGED <<made, template, on, live, copy, at, built, messages>>
          /\ listed'[t] \subseteq on /\ pc'[t] = "remove"
      BY <2>1, <2>11 DEF ListSteps, TypeOK
    <3> QED
      BY <2>1, <2>2, <3>1, KnownSame
  <2>12. CASE RemoveEdge(t)
    <3>1. /\ UNCHANGED <<made, template, live, copy, at, pc, built, messages, listed>>
          /\ on' \subseteq on
      BY <2>12 DEF RemoveEdge
    <3> QED
      BY <2>1, <2>2, <3>1, KnownSame
  <2>13. CASE DeleteListed(t)
    <3>1. /\ UNCHANGED <<made, template, on, copy, at, built, messages>>
          /\ live' \subseteq live /\ listed'[t] = {}
          /\ pc'[t] \notin {"saved", "next"}
      BY <2>1, <2>13 DEF DeleteListed, TypeOK
    <3> QED
      BY <2>1, <2>2, <3>1, KnownSame
  <2> QED
    BY <2>0, <2>3, <2>4, <2>5, <2>6, <2>8, <2>9, <2>10, <2>11, <2>12, <2>13
<1> QED
  BY <1>1, <1>2

-----------------------------------------------------------------------------
\* Every step keeps the copies in hands where they belong.
LEMMA PhaseStep ==
    ASSUME IInv, [Next]_vars
    PROVE  Phase'
<1>1. CASE UNCHANGED vars
  BY <1>1 DEF vars, locals, IInv, Phase, PhaseOf
<1>2. CASE Next
  <2>0. PICK t \in Threads :
           \/ Calm(t) \/ TakeMessage(t) \/ Lost(t) \/ Builds(t)
           \/ AddStep(t) \/ AddLoses(t) \/ AddFails(t)
           \/ ListSteps(t) \/ RemoveEdge(t) \/ DeleteListed(t)
    BY <1>2, Steps
  <2>1. Others(t) /\ TypeOK /\ Phase
    BY <2>0, OnlyOwn DEF Calm, IInv
  <2>2. PhaseOf(t) /\ pc \in [Threads -> PCs] /\ DOMAIN then = Threads
        /\ DOMAIN built = Threads /\ DOMAIN listed = Threads
    BY <2>1 DEF Phase, TypeOK
  <2>3. PhaseOf(t)'
    <3> USE DEF PhaseOf, Goto, At
    <3>1. CASE Calm(t)
      BY <2>2, <3>1 DEF Calm
    <3>2. CASE TakeMessage(t)
      BY <2>2, <3>2 DEF TakeMessage
    <3>3. CASE Lost(t)
      BY <2>2, <3>3 DEF Lost, Return
    <3>4. CASE Builds(t)
      BY <2>2, <3>4 DEF Builds, BuildAllBut
    <3>5. CASE AddLoses(t)
      BY <2>2, <3>5 DEF AddLoses
    <3>6. CASE AddStep(t)
      BY <2>2, <3>6 DEF AddStep
    <3>7. CASE AddFails(t)
      BY <2>2, <3>7 DEF AddFails
    <3>8. CASE ListSteps(t)
      BY <2>2, <3>8 DEF ListSteps
    <3>9. CASE RemoveEdge(t)
      BY <2>2, <3>9 DEF RemoveEdge, locals
    <3>10. CASE DeleteListed(t)
      BY <2>2, <3>10 DEF DeleteListed
    <3> QED
      BY <2>0, <3>1, <3>2, <3>3, <3>4, <3>5, <3>6, <3>7, <3>8, <3>9, <3>10
  <2>4. ASSUME NEW u \in Threads, u # t
        PROVE  PhaseOf(u)'
    BY <2>1, <2>4 DEF Others, Phase, PhaseOf
  <2> QED
    BY <2>3, <2>4 DEF Phase
<1> QED
  BY <1>1, <1>2

-----------------------------------------------------------------------------
\* The elements of a sequence over S are in S.
LEMMA ElementsIn ==
    ASSUME NEW S, NEW s \in Seq(S)
    PROVE  Elements(s) \subseteq S
  BY DEF Elements

\* What a step that builds no copies has to show.
LEMMA ApartFrame ==
    ASSUME Apart, NEW t \in Threads, Others(t),
           Distinct(built'[t]),
           Elements(built'[t]) \subseteq Elements(built[t]),
           \A u \in Threads : \A c \in Elements(built'[u]) :
               /\ faults' = 0 => c \in live'
               /\ c \notin on' /\ c \notin Elements(messages')
               /\ c \notin listed'[t]
               /\ pc'[t] = "next" => at'[t] # c
    PROVE  Apart'
<1>1. ASSUME NEW u \in Threads
      PROVE  Distinct(built'[u]) /\ Elements(built'[u]) \subseteq Elements(built[u])
  BY DEF Apart, Others, Distinct
<1>2. ASSUME NEW u \in Threads, NEW c \in Elements(built'[u]), NEW v \in Threads
      PROVE  /\ c \notin listed'[v]
             /\ pc'[v] = "next" => at'[v] # c
             /\ v # u => c \notin Elements(built'[v])
  <2>1. c \in Elements(built[u]) /\ Elements(built'[v]) \subseteq Elements(built[v])
    BY <1>1, <1>2
  <2>2. /\ c \notin listed[v]
        /\ pc[v] = "next" => at[v] # c
        /\ v # u => c \notin Elements(built[v])
    BY <2>1 DEF Apart
  <2> QED
    BY <2>1, <2>2 DEF Others
<1> QED
  BY <1>1, <1>2 DEF Apart, Distinct

\* Every step keeps the copies that are still to be added to itself.
LEMMA ApartStep ==
    ASSUME IInv, [Next]_vars
    PROVE  Apart'
<1>1. CASE UNCHANGED vars
  BY <1>1 DEF vars, store, locals, history, IInv, Apart, Distinct
<1>2. CASE Next
  <2>0. PICK t \in Threads :
           \/ Calm(t) \/ TakeMessage(t) \/ Lost(t) \/ Builds(t)
           \/ AddStep(t) \/ AddLoses(t) \/ AddFails(t)
           \/ ListSteps(t) \/ RemoveEdge(t) \/ DeleteListed(t)
    BY <1>2, Steps
  <2>1. Others(t) /\ TypeOK /\ Known /\ Phase /\ Apart
    BY <2>0, OnlyOwn DEF Calm, IInv
  <2>2. /\ PhaseOf(t) /\ pc \in [Threads -> PCs]
        /\ at \in [Threads -> Copies \cup {None}]
        /\ DOMAIN then = Threads /\ DOMAIN built = Threads /\ DOMAIN listed = Threads
    BY <2>1 DEF Phase, TypeOK
  <2>3. Distinct(built[t]) /\ built[t] \in Seq(1..made) /\ messages \in Seq(1..made)
    BY <2>1 DEF Apart, Distinct, Known
  <2>4. \A u \in Threads : \A c \in Elements(built[u]) :
            /\ faults = 0 => c \in live
            /\ c \notin on /\ c \notin Elements(messages)
            /\ \A v \in Threads : /\ c \notin listed[v]
                                  /\ pc[v] = "next" => at[v] # c
                                  /\ v # u => c \notin Elements(built[v])
    BY <2>1 DEF Apart
  <2> USE DEF Goto, At
  <2>5. CASE Calm(t)
    <3>1. /\ UNCHANGED <<on, live, messages, built, listed, faults>>
          /\ pc'[t] = "next" => at'[t] \in on
      BY <2>5 DEF Calm
    <3> QED
      BY <2>1, <2>3, <2>4, <3>1, ApartFrame
  <2>6. CASE TakeMessage(t)
    <3>1. /\ UNCHANGED <<on, live, built, listed, faults>>
          /\ messages # <<>> /\ messages' = Tail(messages)
          /\ pc'[t] = "next" => at'[t] = Head(messages)
      BY <2>2, <2>6 DEF TakeMessage, history
    <3>2. Elements(messages) = {Head(messages)} \cup Elements(messages')
      BY <2>3, <3>1, HeadTail
    <3> QED
      BY <2>1, <2>3, <2>4, <3>1, <3>2, ApartFrame
  <2>7. CASE Lost(t)
    <3>1. /\ UNCHANGED <<on, messages, built, listed, faults>>
          /\ live' = live \ {at[t]} /\ pc[t] = "next" /\ pc'[t] = "idle"
      BY <2>2, <2>7 DEF Lost, Return, history
    <3> QED
      BY <2>1, <2>3, <2>4, <3>1, ApartFrame
  <2>8. CASE Builds(t)
    <3> DEFINE n == Cardinality(Group(after[t]))
    <3>1. n \in 0..Cardinality(Group(after[t])) /\ n \in Nat
      BY <2>1, GroupSize, TemplatesAssumption DEF TypeOK
    <3>0. PICK lost : /\ BuildAllBut(t, lost)
                      /\ faults' = 0 => lost = {} /\ faults = 0
      <4>1. faults \in Nat
        BY <2>1 DEF TypeOK
      <4> QED
        BY <2>8, <4>1 DEF Builds
    <3>2. /\ UNCHANGED <<template, on, messages, listed>>
          /\ Make(after[t], n, lost) /\ pc'[t] = "list"
          /\ built'[t] = [i \in 1..n |-> made + i]
      BY <2>2, <3>0 DEF BuildAllBut
    <3> HIDE DEF n
    <3>3. after[t] \in 0..Len(template)
      BY <2>1 DEF TypeOK
    <3>4. /\ made' = made + n /\ made \in Nat
          /\ live' = live \cup (made + 1..made' \ lost)
      BY <2>1, <3>1, <3>2, <3>3, Making
    <3>5. Elements(built'[t]) = made + 1..made' /\ Distinct(built'[t])
      <4>1. /\ DOMAIN built'[t] = 1..n
            /\ \A i \in 1..n : built'[t][i] = made + i
        BY <3>2
      <4>2. ASSUME NEW c \in made + 1..made'
            PROVE  c \in Elements(built'[t])
        <5>1. c - made \in 1..n /\ made + (c - made) = c
          BY <3>1, <3>4
        <5> QED
          BY <4>1, <5>1 DEF Elements
      <4>3. \A i \in 1..n : made + i \in made + 1..made'
        BY <3>1, <3>4
      <4>4. Elements(built'[t]) \subseteq made + 1..made'
        BY <4>1, <4>3 DEF Elements
      <4>5. \A i, j \in 1..n : made + i = made + j => i = j
        BY <3>1, <3>4
      <4> QED
        BY <4>1, <4>2, <4>4, <4>5 DEF Distinct
    <3>6. \A c \in 1..made : c \notin made + 1..made'
      BY <3>4
    <3>7. ASSUME NEW u \in Threads, u # t
          PROVE  /\ built'[u] = built[u] /\ Distinct(built[u])
                 /\ Elements(built'[u]) \subseteq 1..made
      BY <2>1, <3>7, ElementsIn DEF Others, Known, Apart, Distinct
    <3>8. ASSUME NEW u \in Threads, NEW c \in Elements(built'[u])
          PROVE  /\ faults' = 0 => c \in live'
                 /\ c \notin on' /\ c \notin Elements(messages')
                 /\ \A v \in Threads : /\ c \notin listed'[v]
                                       /\ pc'[v] = "next" => at'[v] # c
                                       /\ v # u => c \notin Elements(built'[v])
      <4>1. CASE u = t
        <5>1. c \in made + 1..made'
          BY <3>5, <3>8, <4>1
        <5>2. c \notin 1..made /\ c # 0 /\ c \notin 0..made
          BY <3>4, <5>1
        <5>3. /\ faults' = 0 => c \in live'
              /\ c \notin on' /\ c \notin Elements(messages')
          BY <2>1, <2>3, <3>0, <3>2, <3>4, <5>1, <5>2, ElementsIn DEF Known
        <5>4. ASSUME NEW v \in Threads
              PROVE  /\ c \notin listed'[v]
                     /\ pc'[v] = "next" => at'[v] # c
                     /\ v # u => c \notin Elements(built'[v])
          <6>1. listed'[v] \subseteq 1..made
            BY <2>1, <3>2 DEF Known
          <6>2. pc'[v] = "next" => at'[v] \in 0..made
            BY <2>1, <3>2 DEF Known, Others
          <6> QED
            BY <3>7, <4>1, <5>2, <6>1, <6>2
        <5> QED
          BY <5>3, <5>4
      <4>2. CASE u # t
        <5>1. c \in Elements(built[u]) /\ c \in 1..made
          BY <3>7, <3>8, <4>2
        <5>2. c \notin Elements(built'[t]) /\ pc'[t] # "next"
          BY <3>2, <3>5, <3>6, <5>1
        <5>3. /\ faults' = 0 => c \in live'
              /\ c \notin on' /\ c \notin Elements(messages')
          BY <2>4, <3>0, <3>2, <3>4, <5>1
        <5>4. ASSUME NEW v \in Threads
              PROVE  /\ c \notin listed'[v]
                     /\ pc'[v] = "next" => at'[v] # c
                     /\ v # u => c \notin Elements(built'[v])
          <6>1. CASE v = t
            BY <2>4, <3>2, <5>1, <5>2, <6>1
          <6>2. CASE v # t
            BY <2>1, <2>4, <3>2, <3>7, <5>1, <6>2 DEF Others
          <6> QED
            BY <6>1, <6>2
        <5> QED
          BY <5>3, <5>4
      <4> QED
        BY <4>1, <4>2
    <3>9. \A u \in Threads : Distinct(built'[u])
      BY <3>5, <3>7
    <3> QED
      BY <3>8, <3>9 DEF Apart, Distinct
  <2>9. CASE AddLoses(t)
    <3>1. /\ UNCHANGED <<on, live, messages, pc, at, listed>>
          /\ built[t] # <<>> /\ built'[t] = Tail(built[t])
      BY <2>2, <2>9 DEF AddLoses, store
    <3>2. faults' # 0
      BY <2>1, <2>9 DEF AddLoses, TypeOK
    <3>3. /\ Elements(built[t]) = {Head(built[t])} \cup Elements(built'[t])
          /\ Distinct(built'[t])
      BY <2>3, <3>1, HeadTail
    <3>4. \A u \in Threads : Elements(built'[u]) \subseteq Elements(built[u])
      BY <2>1, <3>3 DEF Others
    <3> QED
      BY <2>1, <2>4, <3>1, <3>2, <3>3, <3>4, ApartFrame
  <2>10. CASE AddStep(t)
    <3>1. /\ UNCHANGED <<live, pc, at, listed, faults>> /\ built[t] # <<>>
          /\ on' = on \cup {Head(built[t])} /\ built'[t] = Tail(built[t])
      BY <2>2, <2>10 DEF AddStep, history
    <3>2. /\ Elements(built[t]) = {Head(built[t])} \cup Elements(built'[t])
          /\ Distinct(built'[t]) /\ Head(built[t]) \notin Elements(built'[t])
          /\ Head(built[t]) \in 1..made
      BY <2>3, <3>1, HeadTail
    <3>3. Elements(messages') \subseteq Elements(messages) \cup {Head(built[t])}
      BY <2>3, <2>10, <3>2, Appended DEF AddStep, Monitor
    <3>4. ASSUME NEW u \in Threads, NEW c \in Elements(built'[u])
          PROVE  c \in Elements(built[u]) /\ c # Head(built[t])
      <4>1. CASE u = t
        BY <3>2, <3>4, <4>1
      <4>2. CASE u # t
        BY <2>1, <2>4, <3>2, <3>4, <4>2 DEF Others
      <4> QED
        BY <4>1, <4>2
    <3> QED
      BY <2>1, <2>4, <3>1, <3>2, <3>3, <3>4, ApartFrame
  <2>11. CASE AddFails(t)
    <3>1. /\ UNCHANGED <<on, live, messages, listed>> /\ pc'[t] # "next"
          /\ built'[t] = <<>> /\ faults' # 0
      BY <2>1, <2>2, <2>11 DEF AddFails, Moved, store, TypeOK
    <3>2. Elements(built'[t]) = {} /\ Distinct(built'[t])
      BY <3>1 DEF Elements, Distinct
    <3> QED
      BY <2>1, <2>4, <3>1, <3>2, ApartFrame DEF Others
  <2>12. CASE ListSteps(t)
    <3>1. /\ UNCHANGED <<on, live, messages, built, faults>>
          /\ pc'[t] = "remove" /\ listed'[t] \subseteq on
      BY <2>2, <2>12 DEF ListSteps, store, history
    <3> QED
      BY <2>1, <2>3, <2>4, <3>1, ApartFrame
  <2>13. CASE RemoveEdge(t)
    <3>1. UNCHANGED <<live, messages, pc, at, built, listed, faults>> /\ on' \subseteq on
      BY <2>13 DEF RemoveEdge, locals, history
    <3> QED
      BY <2>1, <2>3, <2>4, <3>1, ApartFrame
  <2>14. CASE DeleteListed(t)
    <3>1. /\ UNCHANGED <<on, messages, built, faults>> /\ live' = live \ listed[t]
          /\ listed'[t] = {}
      BY <2>2, <2>14 DEF DeleteListed, Deletable, history
    <3>2. pc'[t] # "next"
      BY <2>1, <2>2, <2>14 DEF DeleteListed, TypeOK
    <3> QED
      BY <2>1, <2>3, <2>4, <3>1, <3>2, ApartFrame
  <2> QED
    BY <2>0, <2>5, <2>6, <2>7, <2>8, <2>9, <2>10, <2>11, <2>12, <2>13, <2>14
<1> QED
  BY <1>1, <1>2

-----------------------------------------------------------------------------
\* Every step keeps each copy in the store on the item or in somebody's hands.
LEMMA TrackedStep ==
    ASSUME IInv, [Next]_vars
    PROVE  Tracked'
<1>1. CASE UNCHANGED vars
  BY <1>1 DEF vars, store, locals, history, IInv, Tracked
<1>2. CASE Next
  <2>0. PICK t \in Threads :
           \/ Calm(t) \/ TakeMessage(t) \/ Lost(t) \/ Builds(t)
           \/ AddStep(t) \/ AddLoses(t) \/ AddFails(t)
           \/ ListSteps(t) \/ RemoveEdge(t) \/ DeleteListed(t)
    BY <1>2, Steps
  <2>1. Others(t) /\ TypeOK /\ Phase
    BY <2>0, OnlyOwn DEF Calm, IInv
  <2>2. /\ PhaseOf(t) /\ pc \in [Threads -> PCs]
        /\ at \in [Threads -> Copies \cup {None}]
        /\ DOMAIN built = Threads /\ DOMAIN listed = Threads
        /\ built[t] \in Seq(Copies) /\ faults \in Nat
    BY <2>1, BoundsAssumption DEF Phase, TypeOK
  <2>3. faults = 0 =>
            \A c \in live : \/ c \in on
                            \/ \E u \in Threads : c \in Elements(built[u]) \cup listed[u]
    BY DEF IInv, Tracked
  <2>4. ASSUME NEW c, NEW u \in Threads, u # t, c \in Elements(built[u]) \cup listed[u]
        PROVE  \E v \in Threads : c \in Elements(built'[v]) \cup listed'[v]
    BY <2>1, <2>4 DEF Others
  <2>5. SUFFICES ASSUME faults' = 0, NEW c \in live', c \notin on'
                 PROVE  \E v \in Threads : c \in Elements(built'[v]) \cup listed'[v]
    BY DEF Tracked
  <2> USE DEF Goto, At
  <2>6. CASE Calm(t)
    <3>1. UNCHANGED <<on, live, built, listed, faults>>
      BY <2>6 DEF Calm
    <3> QED
      BY <2>3, <2>5, <3>1
  <2>7. CASE TakeMessage(t)
    <3>1. UNCHANGED <<on, live, built, listed, faults>>
      BY <2>7 DEF TakeMessage, history
    <3> QED
      BY <2>3, <2>5, <3>1
  <2>8. CASE Lost(t)
    <3>1. UNCHANGED <<on, built, listed, faults>> /\ live' \subseteq live
      BY <2>8 DEF Lost, history
    <3> QED
      BY <2>3, <2>5, <3>1
  <2>9. CASE Builds(t)
    <3> DEFINE n == Cardinality(Group(after[t]))
    <3>1. n \in Nat
      BY <2>1, GroupSize, TemplatesAssumption DEF TypeOK
    <3>0. BuildAllBut(t, {}) /\ UNCHANGED faults
      <4>1. PICK lost : /\ BuildAllBut(t, lost)
                        /\ lost = {} \/ faults' = faults + 1
                        /\ lost = {} => UNCHANGED faults
        BY <2>9 DEF Builds
      <4>2. lost = {}
        BY <2>2, <2>5, <4>1
      <4> QED
        BY <4>1, <4>2
    <3>2. /\ UNCHANGED <<on, listed, faults>>
          /\ live' = live \cup made + 1..made + n
          /\ built[t] = <<>> /\ listed[t] = {}
          /\ built'[t] = [i \in 1..n |-> made + i]
      BY <2>2, <3>0 DEF BuildAllBut, Make, PhaseOf
    <3> HIDE DEF n
    <3>3. CASE c \in made + 1..made + n
      <4>1. c - made \in 1..n /\ made + (c - made) = c
        BY <2>1, <3>1, <3>3 DEF TypeOK
      <4>2. c \in Elements(built'[t])
        BY <3>2, <4>1 DEF Elements
      <4> QED
        BY <4>2
    <3>4. CASE c \in live
      <4>1. PICK u \in Threads : c \in Elements(built[u]) \cup listed[u]
        BY <2>3, <2>5, <3>2, <3>4
      <4>2. u # t
        BY <3>2, <4>1 DEF Elements
      <4> QED
        BY <2>4, <4>1, <4>2
    <3> QED
      BY <2>5, <3>2, <3>3, <3>4
  <2>10. CASE AddLoses(t)
    BY <2>2, <2>5, <2>10 DEF AddLoses
  <2>11. CASE AddStep(t)
    <3>1. /\ UNCHANGED <<live, listed, faults>> /\ built[t] # <<>>
          /\ on' = on \cup {Head(built[t])} /\ built'[t] = Tail(built[t])
      BY <2>2, <2>11 DEF AddStep, history
    <3>2. Elements(built[t]) = {Head(built[t])} \cup Elements(built'[t])
      BY <2>2, <3>1, HeadTail
    <3>3. PICK u \in Threads : c \in Elements(built[u]) \cup listed[u]
      BY <2>3, <2>5, <3>1
    <3>4. CASE u = t
      BY <2>5, <3>1, <3>2, <3>3, <3>4
    <3> QED
      BY <2>4, <3>3, <3>4
  <2>12. CASE AddFails(t)
    BY <2>2, <2>5, <2>12 DEF AddFails
  <2>13. CASE ListSteps(t)
    <3>1. /\ UNCHANGED <<on, live, built, faults>> /\ listed[t] = {}
      BY <2>2, <2>13 DEF ListSteps, store, history, PhaseOf
    <3>2. PICK u \in Threads : c \in Elements(built[u]) \cup listed[u]
      BY <2>3, <2>5, <3>1
    <3>3. CASE u = t
      BY <3>1, <3>2, <3>3
    <3> QED
      BY <2>4, <3>2, <3>3
  <2>14. CASE RemoveEdge(t)
    <3>1. PICK d \in listed[t] : on' = on \ {d}
      BY <2>14 DEF RemoveEdge, Firsts
    <3>2. UNCHANGED <<live, built, listed, faults>>
      BY <2>14 DEF RemoveEdge, locals, history
    <3>3. CASE c = d
      BY <3>1, <3>2, <3>3
    <3>4. CASE c # d
      BY <2>3, <2>5, <3>1, <3>2, <3>4
    <3> QED
      BY <3>3, <3>4
  <2>15. CASE DeleteListed(t)
    <3>1. UNCHANGED <<on, built, faults>> /\ live' = live \ listed[t]
      BY <2>15 DEF DeleteListed, Deletable, history
    <3>2. PICK u \in Threads : c \in Elements(built[u]) \cup listed[u]
      BY <2>3, <2>5, <3>1
    <3>3. CASE u = t
      BY <2>5, <3>1, <3>2, <3>3
    <3> QED
      BY <2>4, <3>2, <3>3
  <2> QED
    BY <2>0, <2>6, <2>7, <2>8, <2>9, <2>10, <2>11, <2>12, <2>13, <2>14, <2>15
<1> QED
  BY <1>1, <1>2

-----------------------------------------------------------------------------
\* Nobody has a copy in hands when every request has been handled.
LEMMA QuietTracked ==
    ASSUME IInv
    PROVE  NoOrphans
<1>1. SUFFICES ASSUME Quiet, faults = 0
               PROVE  live = on
  BY DEF NoOrphans
<1>2. \A t \in Threads : built[t] = <<>> /\ listed[t] = {}
  BY <1>1 DEF IInv, Phase, PhaseOf, Quiet
<1>3. live \subseteq on
  BY <1>1, <1>2 DEF IInv, Tracked, Elements
<1> QED
  BY <1>1, <1>3 DEF IInv, TypeOK

\* The invariant is inductive.
LEMMA Inductive == Spec => []IInv
<1>1. IInv /\ [Next]_vars => IInv'
  BY TypeStep, KnownStep, PhaseStep, ApartStep, TrackedStep DEF IInv
<1> QED
  BY <1>1, InitInv, PTL DEF Spec

\* Whatever the workflows, and whoever decides and when: the types, and the
\* item is only on copies that are in the store, unless one was not saved.
THEOREM Typing == Spec => []TypeOK
<1>1. IInv => TypeOK
  BY DEF IInv
<1> QED
  BY <1>1, Inductive, PTL

\* clearAndDelete() and moveNext(): however many requests are handled at a
\* time, no copy of a step is lost in the store unless a save failed.
THEOREM NoneLost == Spec => []NoOrphans
<1>1. IInv => NoOrphans
  BY QuietTracked
<1> QED
  BY <1>1, Inductive, PTL

-----------------------------------------------------------------------------
(***************************************************************************)
(* How much of a request is left: where it is on its way through next(),   *)
(* moveNext(), clearAndDelete() and finalize(), and how many edges it has  *)
(* to remove there, or copies to add.                                      *)
(***************************************************************************)
Stage(t) ==
    LET clears(label) == then[t] = label IN
    CASE pc[t] = "saved" -> 14
      [] pc[t] = "next" -> 13
      [] pc[t] = "list" -> IF clears("init") THEN 12 ELSE IF clears("add") THEN 7 ELSE 3
      [] pc[t] = "remove" -> IF clears("init") THEN 11 ELSE IF clears("add") THEN 6 ELSE 2
      [] pc[t] = "init" -> 10
      [] pc[t] = "examine" -> 9
      [] pc[t] = "build" -> 8
      [] pc[t] = "add" -> 5
      [] pc[t] = "isEmpty" -> 4
      [] pc[t] \in {"approve", "disapprove"} -> 1
      [] OTHER -> 0

WorkLeft(t) ==
    CASE pc[t] = "remove" -> Cardinality(listed[t] \cap on)
      [] pc[t] = "add" -> Len(built[t])
      [] OTHER -> 0

RequestLeft(t) == <<Stage(t), WorkLeft(t)>>

Less == {ij \in Nat \X Nat : ij[1] < ij[2]}
RequestOrder == LexPairOrdering(Less, Less, Nat, Nat)

RequestsWindDown ==
    [][\A t \in Threads : pc[t] # "idle" =>
         \/ <<RequestLeft(t)', RequestLeft(t)>> \in RequestOrder
         \/ ~Engine(t) /\ RequestLeft(t)' = RequestLeft(t)]_vars

\* There is no infinite descent in the order.
LEMMA RequestOrderIsWellFounded == IsWellFoundedOn(RequestOrder, Nat \X Nat)
<1>1. IsWellFoundedOn(OpToRel(<, Nat), Nat)
  BY NatLessThanWellFounded
<1>2. OpToRel(<, Nat) = Less
  BY DEF OpToRel, Less
<1> QED
  BY <1>1, <1>2, WFLexPairOrdering DEF RequestOrder

\* What clearAndDelete() listed is a finite set, and less is left of it when
\* the item is on less.
LEMMA EdgesLeft ==
    ASSUME TypeOK, NEW t \in Threads
    PROVE  /\ IsFiniteSet(listed[t] \cap on)
           /\ Cardinality(listed[t] \cap on) \in Nat
           /\ \A S \in SUBSET (listed[t] \cap on) :
                 Cardinality(S) \in Nat /\ Cardinality(S) <= Cardinality(listed[t] \cap on)
           /\ \A c \in listed[t] \cap on :
                 Cardinality((listed[t] \cap on) \ {c}) < Cardinality(listed[t] \cap on)
<1>1. listed[t] \cap on \in SUBSET Copies
  BY DEF TypeOK
<1>2. IsFiniteSet(Copies)
  BY BoundsAssumption, FS_Interval DEF Copies
<1>3. IsFiniteSet(listed[t] \cap on)
  BY <1>1, <1>2, FS_Subset
<1> QED
  BY <1>3, FS_Subset, FS_CardinalityType, FS_RemoveElement

Naturals == \A t \in Threads : Stage(t) \in Nat /\ WorkLeft(t) \in Nat

LEMMA LeftIsNatural == TypeOK => Naturals
<1> SUFFICES ASSUME TypeOK, NEW t \in Threads
             PROVE  Stage(t) \in Nat /\ WorkLeft(t) \in Nat
  BY DEF Naturals
<1>1. Len(built[t]) \in Nat /\ Cardinality(listed[t] \cap on) \in Nat
  <2>1. built[t] \in Seq(Copies)
    BY DEF TypeOK
  <2> QED
    BY <2>1, EdgesLeft
<1> QED
  BY <1>1 DEF Stage, WorkLeft

\* A step of the request itself.
LEMMA OwnLeft ==
    ASSUME IInv, NEW t \in Threads, Engine(t)
    PROVE  \/ Stage(t)' < Stage(t)
           \/ Stage(t)' = Stage(t) /\ WorkLeft(t)' < WorkLeft(t)
<1> USE DEF IInv, TypeOK, Goto, At, store, locals
<1>1. CASE InitSteps(t) \/ AfterUpdate(t) \/ Lost(t) \/ AllAdded(t) \/ IsEmpty(t)
           \/ Finalize(t) \/ AddFails(t)
  BY <1>1 DEF InitSteps, AfterUpdate, Lost, AllAdded, IsEmpty, Finalize, AddFails, Return,
              Moved, Stage
<1>2. CASE HandleNext(t)
  BY <1>2 DEF HandleNext, ClearFirst, Return, Stage
<1>3. CASE Examine(t)
  BY <1>3, Examined DEF Stage
<1>8. CASE Builds(t)
  BY <1>8 DEF Builds, BuildAllBut, Stage
<1>4. CASE ListSteps(t)
  BY <1>4 DEF ListSteps, Stage
<1>5. CASE DeleteListed(t)
  BY <1>5 DEF DeleteListed, Stage
<1>6. CASE RemoveEdge(t)
  <2>1. PICK c \in listed[t] \cap on : on' = on \ {c}
    BY <1>6 DEF RemoveEdge, Firsts
  <2>2. pc[t] = "remove" /\ UNCHANGED <<pc, then, listed>>
    BY <1>6 DEF RemoveEdge
  <2>3. Stage(t)' = Stage(t)
    BY <2>2 DEF Stage
  <2>4. /\ WorkLeft(t) = Cardinality(listed[t] \cap on)
        /\ WorkLeft(t)' = Cardinality((listed[t] \cap on) \ {c})
    <3>1. listed[t] \cap (on \ {c}) = (listed[t] \cap on) \ {c}
      OBVIOUS
    <3> QED
      BY <2>1, <2>2, <3>1 DEF WorkLeft
  <2>5. Cardinality((listed[t] \cap on) \ {c}) < Cardinality(listed[t] \cap on)
    <3>1. TypeOK
      OBVIOUS
    <3> HIDE DEF IInv, TypeOK
    <3> QED
      BY <2>1, <3>1, EdgesLeft
  <2> QED
    BY <2>3, <2>4, <2>5
<1>7. CASE AddStep(t) \/ AddLoses(t)
  <2>1. /\ pc[t] = "add" /\ UNCHANGED <<pc, then>>
        /\ built[t] \in Seq(Copies) /\ built[t] # <<>> /\ built'[t] = Tail(built[t])
    BY <1>7 DEF AddStep, AddLoses
  <2>2. Len(built'[t]) < Len(built[t])
    BY <2>1
  <2> QED
    BY <2>1, <2>2 DEF Stage, WorkLeft
<1> QED
  BY BuildsAll, <1>1, <1>2, <1>3, <1>4, <1>5, <1>6, <1>7, <1>8 DEF Engine, MoveNext, ClearAndDelete

\* A step of another request.  It adds no copy that this one has listed.
LEMMA OthersLeave ==
    ASSUME IInv, NEW t \in Threads, NEW u \in Threads \ {t},
           Start(u) \/ Decision(u) \/ TakeMessage(u) \/ Engine(u)
    PROVE  Stage(t)' = Stage(t) /\ WorkLeft(t)' <= WorkLeft(t)
<1>1. \/ Calm(u) \/ TakeMessage(u) \/ Lost(u) \/ Builds(u)
      \/ AddStep(u) \/ AddLoses(u) \/ AddFails(u) \/ ListSteps(u) \/ RemoveEdge(u) \/ DeleteListed(u)
  BY CalmSteps, BuildsAll DEF Engine, MoveNext, ClearAndDelete
<1>2. Others(u)
  BY <1>1, OnlyOwn DEF Calm, IInv
<1>3. /\ pc'[t] = pc[t] /\ then'[t] = then[t] /\ built'[t] = built[t]
      /\ listed'[t] = listed[t]
  BY <1>2 DEF Others
<1>4. listed[t] \cap on' \subseteq listed[t] \cap on
  <2>1. CASE AddStep(u)
    <3>1. on' = on \cup {Head(built[u])} /\ built[u] \in Seq(Copies) /\ built[u] # <<>>
      BY <2>1 DEF AddStep, IInv, TypeOK
    <3>2. Head(built[u]) \in Elements(built[u])
      BY <3>1, HeadTail
    <3> QED
      BY <3>1, <3>2 DEF IInv, Apart
  <2>2. CASE ~AddStep(u)
    BY <1>1, <2>2 DEF Calm, TakeMessage, Lost, Builds, BuildAllBut, AddLoses, AddFails,
                      ListSteps, RemoveEdge, DeleteListed, store
  <2> QED
    BY <2>1, <2>2
<1>5. Stage(t)' = Stage(t)
  BY <1>3 DEF Stage
<1>6. WorkLeft(t)' <= WorkLeft(t)
  <2>1. Cardinality(listed[t] \cap on') <= Cardinality(listed[t] \cap on)
    BY <1>4, EdgesLeft DEF IInv
  <2>2. Len(built[t]) \in Nat
    <3>1. built[t] \in Seq(Copies)
      BY DEF IInv, TypeOK
    <3> QED
      BY <3>1
  <2> QED
    BY <1>3, <2>1, <2>2 DEF WorkLeft
<1> QED
  BY <1>5, <1>6

\* However many requests are handled at a time, every step of one brings its
\* end nearer, and no step of another puts it off: moveNext() adds nothing that
\* another request's clearAndDelete() has still to remove.
THEOREM WindDown == Spec => RequestsWindDown
<1>0. (TypeOK => Naturals) /\ (TypeOK' => Naturals')
  BY LeftIsNatural, PTL
<1>1. ASSUME IInv, IInv', [Next]_vars, NEW t \in Threads, pc[t] # "idle"
      PROVE  \/ <<RequestLeft(t)', RequestLeft(t)>> \in RequestOrder
             \/ ~Engine(t) /\ RequestLeft(t)' = RequestLeft(t)
  <2>1. /\ Stage(t) \in Nat /\ WorkLeft(t) \in Nat
        /\ Stage(t)' \in Nat /\ WorkLeft(t)' \in Nat
    BY <1>1, <1>0 DEF Naturals, IInv
  <2>2. \/ Stage(t)' < Stage(t)
        \/ Stage(t)' = Stage(t) /\ WorkLeft(t)' < WorkLeft(t)
        \/ ~Engine(t) /\ Stage(t)' = Stage(t) /\ WorkLeft(t)' = WorkLeft(t)
    <3>1. CASE Engine(t)
      BY <1>1, <3>1, OwnLeft
    <3>2. CASE UNCHANGED vars
      BY <2>1, <3>2, OwnLeft, <1>1
         DEF vars, store, locals, Stage, WorkLeft
    <3>3. CASE ~Engine(t) /\ Next
      <4>1. PICK u \in Threads : Start(u) \/ Decision(u) \/ TakeMessage(u) \/ Engine(u)
        BY <3>3 DEF Next
      <4>2. u # t
        BY <1>1, <3>3, <4>1 DEF Start, Decision, Update, TakeMessage, At
      <4>3. Stage(t)' = Stage(t) /\ WorkLeft(t)' <= WorkLeft(t)
        BY <1>1, <4>1, <4>2, OthersLeave
      <4> QED
        BY <2>1, <3>3, <4>3
    <3> QED
      BY <1>1, <3>1, <3>2, <3>3
  <2> QED
    BY <2>1, <2>2 DEF RequestLeft, RequestOrder, LexPairOrdering, Less
<1>2. IInv /\ IInv' /\ [Next]_vars =>
        \A t \in Threads : pc[t] # "idle" =>
          \/ <<RequestLeft(t)', RequestLeft(t)>> \in RequestOrder
          \/ ~Engine(t) /\ RequestLeft(t)' = RequestLeft(t)
  BY <1>1
<1> QED
  BY <1>2, Inductive, PTL DEF Spec, RequestsWindDown
=============================================================================
