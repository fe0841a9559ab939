----------------------- MODULE WorkflowVerdicts_proofs -----------------------
(***************************************************************************)
(* What the engine does to an item when requests come one by one and the   *)
(* worker has nothing to look after: for every workflow, however long, the *)
(* item goes through the steps in order and gets the verdict its auditors  *)
(* gave.  With two requests at a time this is not so (WorkflowOverruled).  *)
(*                                                                         *)
(* The store may lose copies and edges.  Then a step is left out, or the   *)
(* item stays on one that nobody sees, and what is said of the approvals   *)
(* and of the order is void (WorkflowSwallowed); the rest holds all the    *)
(* same.                                                                   *)
(*                                                                         *)
(* The argument follows the one thread through moveNext().  The copies the *)
(* item is on are always a piece of one run of steps, in the order of      *)
(* their ordinals, and every step before them was signed or is one of      *)
(* them.  A step that is completed was signed, so whatever the engine goes *)
(* on from was signed with all before it, and the group it builds begins   *)
(* right behind.                                                           *)
(***************************************************************************)
EXTENDS WorkflowEngine_proofs

\* One request at a time, and no step has an expire action.
OneRequest ==
    /\ \E a : Auditors = {a}
    /\ \A s \in Templates : \A i \in DOMAIN s : ~s[i].monitored

\* Nobody asks the worker for anything.
WorkerRests == messages = <<>> /\ pc[Worker] = "idle"

StepOf(c) == copy[c].step
Hand(t) == Elements(built[t])
Clearing(t, label) == pc[t] \in {"list", "remove"} /\ then[t] = label

\* The steps are given up, because of a disapproval or a new start.
GivenUp(t) == Clearing(t, "disapprove") \/ Clearing(t, "init")

Done == MustSign \subseteq signed
SignedTo(k) == \A i \in MustSign : i <= k => i \in signed
Taken == {i \in signed : template[i].type = "sequential"}

\* A piece of one run of steps, in the order of their ordinals.
Together(S) ==
    \A c, d \in S :
        /\ copy[c].ordinal <= copy[d].ordinal => StepOf(c) <= StepOf(d)
        /\ StepOf(c) < StepOf(d) => SameRun(StepOf(c), StepOf(d))
        /\ StepOf(c) = StepOf(d) => c = d

\* What comes before the copies in S was signed or is in T.
Ready(S, T) ==
    \A c \in S : \A i \in MustSign :
        i < StepOf(c) => i \in signed \/ \E d \in T : StepOf(d) = i

AllSigned(S) == \A c \in S : SignedTo(StepOf(c))

\* Completed copies were signed.
Completed(S) ==
    \A c \in S : copy[c].completed /\ StepOf(c) \in MustSign => StepOf(c) \in signed

Fresh(S) == \A c \in S : ~copy[c].completed
Below(S, T) == \A c \in S, d \in T : StepOf(c) < StepOf(d)
Sorted(s) == \A i, j \in DOMAIN s : i < j => StepOf(s[i]) < StepOf(s[j])

\* No sequential step that was signed lies ahead.
Past(S) == \A c \in S : \A i \in Taken : i <= StepOf(c)
Ahead(S) == \A c \in S : \A i \in Taken : i < StepOf(c)

\* The copy that is being disapproved.
Refused(t) ==
    {c \in on : pc[t] \in {"saved", "next"} /\ at[t] = c /\ ~copy[c].approved}

\* The copies the item is on.
OnItem(t) ==
    /\ Together(on) /\ Past(on)
    /\ Fresh(on \ live)
    /\ GivenUp(t) \/ Completed(on \ Refused(t))
    /\ GivenUp(t) \/ faults > 0 \/ Ready(on, on)
    /\ pc[t] = "build" \/ Clearing(t, "add") =>
          on \subseteq live /\ (faults > 0 \/ AllSigned(on))
    /\ pc[t] = "build" => \A i \in Taken : i <= after[t]

\* The copies that were built and not added yet, in the order of their steps.
InHand(t) ==
    /\ Sorted(built[t])
    /\ Fresh(Hand(t))
    /\ Ahead(Hand(t))
    /\ Together(Hand(t))
    /\ pc[t] # "add" => faults > 0 \/ Ready(Hand(t), Hand(t))
    /\ pc[t] = "add" =>
          /\ faults > 0 \/ Ready(Hand(t), on \cup Hand(t))
          /\ Together(on \cup Hand(t))
          /\ Below(on, Hand(t))
    /\ built[t] = <<>> /\ (Clearing(t, "add") \/ (pc[t] = "add" /\ on = {})) =>
          faults > 0 \/ Done

\* Where the thread is, and what it knows there.
AtWork(t) ==
    /\ pc[t] = "next" => at[t] \in on
    /\ pc[t] \in {"saved", "next", "examine"} /\ at[t] # None => at[t] \in live
    /\ pc[t] \in {"saved", "next"} /\ at[t] \in on /\ StepOf(at[t]) \in MustSign =>
          IF copy[at[t]].approved THEN StepOf(at[t]) \in signed ELSE rejected # {}
    /\ pc[t] = "examine" =>
          IF at[t] = None THEN on = {} /\ signed = {}
          ELSE at[t] \in on /\ StepOf(at[t]) \in MustSign \cap signed
    /\ pc[t] = "build" => faults > 0 \/ SignedTo(after[t])
    /\ pc[t] \in {"list", "remove"} => then[t] # "idle"
    /\ pc[t] = "remove" => on \cap live \subseteq listed[t]
    /\ pc[t] = "init" \/ Clearing(t, "init") =>
          signed = {} /\ at[t] = None /\ starts > 1
    /\ Clearing(t, "approve") \/ pc[t] = "approve" => on = {}
    /\ pc[t] \in {"init", "disapprove"} => on \cap live = {}
    /\ (\/ Clearing(t, "approve") \/ pc[t] = "approve"
        \/ pc[t] = "isEmpty" /\ on = {}) => faults > 0 \/ Done
    /\ Clearing(t, "disapprove") \/ pc[t] = "disapprove" => rejected # {}

\* What was said of the item so far.
Verdict(t) ==
    /\ StartedOnce /\ item.completed => on \cap live = {} /\ pc[t] \in {"idle", "saved"}
    /\ starts = 0 => on = {} /\ live = {} /\ pc[t] = "idle" /\ ~item.completed
    /\ ApprovedUnlessFaults /\ DisapprovedByAuditor /\ InOrder

Verdicts == \A t \in Auditors : OnItem(t) /\ InHand(t) /\ AtWork(t) /\ Verdict(t)

VInv == WorkerRests /\ Verdicts

-----------------------------------------------------------------------------
\* What every step starts from.
LEMMA Base ==
    ASSUME OneRequest, IInv, VInv, NEW t \in Auditors
    PROVE  /\ t \in Threads /\ t # Worker /\ \A u \in Auditors : u = t
           /\ template \in Templates /\ template \in Seq(StepKinds)
           /\ Len(template) \in Nat /\ DOMAIN template = 1..Len(template)
           /\ MustSign \subseteq 1..Len(template) /\ signed \subseteq 1..Len(template)
           /\ made \in Nat /\ on \subseteq 1..made /\ live \subseteq 1..made
           /\ faults \in Nat /\ (faults > 0 \/ on \subseteq live)
           /\ 1..made \subseteq Copies
           /\ \A c \in 1..made : /\ StepOf(c) \in 1..Len(template)
                                 /\ copy[c].ordinal \in Nat
           /\ built[t] \in Seq(1..made) /\ Hand(t) \subseteq 1..made
           /\ built[t] # <<>> => pc[t] = "add" \/ Clearing(t, "add")
           /\ built[t] = <<>> => Hand(t) = {}
           /\ OnItem(t) /\ InHand(t) /\ AtWork(t) /\ Verdict(t)
<1>1. t \in Threads /\ t # Worker /\ \A u \in Auditors : u = t
  BY WorkerAssumption DEF Threads, OneRequest
<1>2. /\ template \in Templates /\ template \in Seq(StepKinds)
      /\ Len(template) \in Nat /\ DOMAIN template = 1..Len(template)
  BY TemplatesAssumption DEF IInv, TypeOK
<1>3. /\ MustSign \subseteq 1..Len(template) /\ signed \subseteq 1..Len(template)
  BY <1>2 DEF IInv, TypeOK, MustSign
<1>4. /\ made \in Nat /\ on \subseteq 1..made /\ live \subseteq 1..made
      /\ faults \in Nat /\ (faults > 0 \/ on \subseteq live)
      /\ 1..made \subseteq Copies
  BY BoundsAssumption DEF IInv, TypeOK, Known, Copies
<1>5. \A c \in 1..made : /\ StepOf(c) \in 1..Len(template) /\ copy[c].ordinal \in Nat
  BY <1>2, <1>4 DEF IInv, TypeOK, Known, StepOf
<1>6. built[t] \in Seq(1..made) /\ Hand(t) \subseteq 1..made
  <2>1. built[t] \in Seq(1..made)
    BY <1>1 DEF IInv, Known
  <2> QED
    BY <2>1, ElementsIn DEF Hand
<1>7. /\ built[t] # <<>> => pc[t] = "add" \/ Clearing(t, "add")
      /\ built[t] = <<>> => Hand(t) = {}
  BY <1>1 DEF IInv, Phase, PhaseOf, Clearing, Hand, Elements
<1>8. OnItem(t) /\ InHand(t) /\ AtWork(t) /\ Verdict(t)
  BY DEF VInv, Verdicts
<1> QED
  BY <1>1, <1>2, <1>3, <1>4, <1>5, <1>6, <1>7, <1>8

\* A step that leaves the item, the copies and the signatures alone.
LEMMA SameItem ==
    ASSUME UNCHANGED <<template, on, copy, signed>>, NEW t
    PROVE  /\ Together(on)' <=> Together(on)
           /\ on' \cap live \subseteq live' => (Fresh(on \ live) => Fresh(on \ live)')
           /\ Ready(on, on)' <=> Ready(on, on)
           /\ AllSigned(on)' <=> AllSigned(on)
           /\ Completed(on)' <=> Completed(on)
           /\ Past(on)' <=> Past(on)
           /\ Done' <=> Done
           /\ Taken' = Taken /\ MustSign' = MustSign
           /\ \A k : (SignedTo(k)' <=> SignedTo(k)) /\ StepOf(k)' = StepOf(k)
BY DEF Together, Ready, AllSigned, Completed, Past, Done, Taken, SignedTo, MustSign,
       StepOf, SameRun, Fresh

LEMMA SameHand ==
    ASSUME UNCHANGED <<template, on, copy, signed>>, NEW t, built'[t] = built[t]
    PROVE  /\ Sorted(built[t])' <=> Sorted(built[t])
           /\ Hand(t)' = Hand(t)
           /\ Fresh(Hand(t))' <=> Fresh(Hand(t))
           /\ Ahead(Hand(t))' <=> Ahead(Hand(t))
           /\ Together(Hand(t))' <=> Together(Hand(t))
           /\ Ready(Hand(t), Hand(t))' <=> Ready(Hand(t), Hand(t))
           /\ Ready(Hand(t), on \cup Hand(t))' <=> Ready(Hand(t), on \cup Hand(t))
           /\ Together(on \cup Hand(t))' <=> Together(on \cup Hand(t))
           /\ Below(on, Hand(t))' <=> Below(on, Hand(t))
<1>1. Hand(t)' = Hand(t)
  BY DEF Hand, Elements
<1>2. Sorted(built[t])' <=> Sorted(built[t])
  BY DEF Sorted, StepOf
<1>3. /\ Fresh(Hand(t))' <=> Fresh(Hand(t))
      /\ Ahead(Hand(t))' <=> Ahead(Hand(t))
      /\ Below(on, Hand(t))' <=> Below(on, Hand(t))
  BY <1>1 DEF Fresh, Ahead, Below, Taken, StepOf
<1>4. /\ Together(Hand(t))' <=> Together(Hand(t))
      /\ Together(on \cup Hand(t))' <=> Together(on \cup Hand(t))
  BY <1>1 DEF Together, SameRun, StepOf
<1>5. /\ Ready(Hand(t), Hand(t))' <=> Ready(Hand(t), Hand(t))
      /\ Ready(Hand(t), on \cup Hand(t))' <=> Ready(Hand(t), on \cup Hand(t))
  BY <1>1 DEF Ready, MustSign, StepOf
<1> QED
  BY <1>1, <1>2, <1>3, <1>4, <1>5

\* The hands are empty.
LEMMA EmptyHand ==
    ASSUME NEW t, built'[t] = <<>>, pc'[t] # "add",
           pc'[t] \notin {"list", "remove"} \/ then'[t] # "add" \/ Done'
    PROVE  InHand(t)'
<1>1. Hand(t)' = {} /\ \A i : i \notin DOMAIN built'[t]
  BY DEF Hand, Elements
<1> QED
  BY <1>1 DEF InHand, Sorted, Fresh, Ahead, Together, Ready, Clearing

\* What was said of the item stays true.
LEMMA SameVerdict ==
    ASSUME NEW t, Verdict(t),
           UNCHANGED <<template, on, copy, signed, rejected, item, starts>>,
           live' \subseteq live, faults' = 0 => faults = 0,
           StartedOnce /\ item.completed => pc'[t] \in {"idle", "saved"},
           starts = 0 => pc'[t] = "idle"
    PROVE  Verdict(t)'
BY DEF Verdict, StartedOnce, ApprovedUnlessFaults, ApprovedByAll, DisapprovedByAuditor,
       InOrder, MustSign, SameRun, Watched
\* What has to be shown of a step of the one request.
Kept(t) == OnItem(t) /\ InHand(t) /\ AtWork(t) /\ Verdict(t)

\* A step that changes neither the item nor the copies, and holds none.
LEMMA Calmly ==
    ASSUME OneRequest, IInv, VInv, NEW t \in Auditors, TypeOK',
           UNCHANGED <<template, on, live, copy, signed, rejected, item, starts, faults,
                       built>>,
           built[t] = <<>>,
           pc'[t] \notin {"build", "add"},
           pc'[t] \in {"list", "remove"} => then'[t] # "add",
           ~GivenUp(t),
           GivenUp(t)' \/ Completed(on \ Refused(t)'),
           StartedOnce /\ item.completed => pc'[t] \in {"idle", "saved"},
           starts # 0
    PROVE  OnItem(t)' /\ InHand(t)' /\ Verdict(t)'
<1>1. OnItem(t) /\ Verdict(t)
  BY Base
<1>2. Verdict(t)'
  BY <1>1, SameVerdict
<1>3. InHand(t)'
  BY EmptyHand
<1>4. OnItem(t)'
  <2>1. /\ Together(on)' /\ Past(on)' /\ Fresh(on \ live)'
        /\ faults > 0 \/ Ready(on, on)'
    BY <1>1, SameItem DEF OnItem
  <2>2. Completed(on \ Refused(t)') => Completed(on \ Refused(t))'
    BY DEF Completed, MustSign, StepOf
  <2> QED
    BY <2>1, <2>2 DEF OnItem, Clearing
<1> QED
  BY <1>2, <1>3, <1>4

LEMMA InitStepsVerdict ==
    ASSUME OneRequest, IInv, VInv, NEW t \in Auditors, TypeOK', InitSteps(t)
    PROVE  Kept(t)'
<1>1. /\ UNCHANGED <<store, locals, history>> /\ pc[t] = "init"
      /\ pc \in [Threads -> PCs] /\ t \in Threads
  BY Base DEF InitSteps, At, Goto, IInv, TypeOK
<1>2. AtWork(t) /\ Verdict(t) /\ OnItem(t) /\ built[t] = <<>>
  BY <1>1, Base DEF Clearing
<1>3. on \cap live = {} /\ signed = {} /\ at[t] = None /\ starts > 1
  BY <1>1, <1>2 DEF AtWork
<1>4. (on = {} /\ pc'[t] = "examine") \/ pc'[t] = "idle"
  BY <1>1 DEF InitSteps, Goto
<1>5. ~(StartedOnce /\ item.completed) /\ starts # 0
  BY <1>1, <1>2 DEF Verdict
<1>6. Completed(on \ Refused(t)') /\ ~GivenUp(t)
  BY <1>1, <1>2, <1>3 DEF OnItem, Fresh, Completed, GivenUp, Clearing
<1>7. OnItem(t)' /\ InHand(t)' /\ Verdict(t)'
  BY <1>1, <1>2, <1>4, <1>5, <1>6, Calmly DEF store, locals, history
<1>8. AtWork(t)'
  BY <1>1, <1>3, <1>4 DEF AtWork, Clearing, store, locals, history
<1> QED
  BY <1>7, <1>8 DEF Kept

LEMMA AfterUpdateVerdict ==
    ASSUME OneRequest, IInv, VInv, NEW t \in Auditors, TypeOK', AfterUpdate(t)
    PROVE  Kept(t)'
<1>1. /\ UNCHANGED <<store, after, built, listed, then, history>> /\ pc[t] = "saved"
      /\ pc \in [Threads -> PCs] /\ t \in Threads
      /\ DOMAIN at = Threads
  BY Base DEF AfterUpdate, At, IInv, TypeOK
<1>2. AtWork(t) /\ Verdict(t) /\ OnItem(t) /\ built[t] = <<>>
  BY <1>1, Base DEF Clearing
<1>3. \/ at[t] \in on /\ pc'[t] = "next" /\ at' = at
      \/ at[t] \notin on /\ pc'[t] = "idle"
  BY <1>1 DEF AfterUpdate, Goto, Return
<1>4. /\ StartedOnce /\ item.completed => pc'[t] \in {"idle", "saved"}
      /\ starts # 0
  <2>1. at[t] \in live
    BY <1>1, <1>2 DEF AtWork, IInv, Known
  <2> QED
    BY <1>1, <1>2, <1>3, <2>1 DEF Verdict
<1>5. Completed(on \ Refused(t)') /\ ~GivenUp(t)
  <2>1. ~GivenUp(t) /\ Completed(on \ Refused(t))
    BY <1>1, <1>2 DEF OnItem, GivenUp, Clearing
  <2>2. Refused(t)' = Refused(t)
    BY <1>1, <1>3 DEF Refused, store
  <2> QED
    BY <2>1, <2>2
<1>6. OnItem(t)' /\ InHand(t)' /\ Verdict(t)'
  BY <1>1, <1>2, <1>3, <1>4, <1>5, Calmly DEF store, history
<1>7. AtWork(t)'
  BY <1>1, <1>2, <1>3 DEF AtWork, Clearing, store, history, StepOf, MustSign
<1> QED
  BY <1>6, <1>7 DEF Kept

LEMMA HandleNextVerdict ==
    ASSUME OneRequest, IInv, VInv, NEW t \in Auditors, TypeOK', HandleNext(t)
    PROVE  Kept(t)'
<1>1. /\ UNCHANGED <<store, after, built, listed, history>> /\ pc[t] = "next"
      /\ pc \in [Threads -> PCs] /\ t \in Threads /\ at[t] # None
      /\ DOMAIN at = Threads /\ DOMAIN then = Threads /\ at[t] \in on
  BY Base DEF HandleNext, At, IInv, TypeOK, Known
<1>2. AtWork(t) /\ Verdict(t) /\ OnItem(t) /\ built[t] = <<>>
  BY <1>1, Base DEF Clearing
<1>3. /\ ~GivenUp(t) /\ Completed(on \ Refused(t))
      /\ ~(StartedOnce /\ item.completed) /\ starts # 0
  BY <1>1, <1>2 DEF OnItem, GivenUp, Clearing, Verdict
<1>4. StepOf(at[t]) \in DOMAIN template
  BY <1>1, Base
<1>5. \/ StepOf(at[t]) \notin MustSign /\ pc'[t] = "idle"
      \/ /\ StepOf(at[t]) \in MustSign /\ copy[at[t]].approved
         /\ pc'[t] = "examine" /\ at' = at
      \/ /\ StepOf(at[t]) \in MustSign /\ ~copy[at[t]].approved
         /\ pc'[t] = "list" /\ then'[t] = "disapprove"
  BY <1>1, <1>4 DEF HandleNext, Return, Goto, IsApproved, ClearFirst, MustSign, StepOf
<1>6. GivenUp(t)' \/ Completed(on \ Refused(t)')
  <2>1. CASE pc'[t] = "list" /\ then'[t] = "disapprove"
    BY <2>1 DEF GivenUp, Clearing
  <2>2. CASE pc'[t] # "list"
    BY <1>3, <1>5, <2>2 DEF Completed, Refused
  <2> QED
    BY <1>5, <2>1, <2>2
<1>7. OnItem(t)' /\ InHand(t)' /\ Verdict(t)'
  BY <1>1, <1>2, <1>3, <1>5, <1>6, Calmly DEF store, history
<1>8. AtWork(t)'
  <2>1. IF copy[at[t]].approved \/ StepOf(at[t]) \notin MustSign
        THEN StepOf(at[t]) \in MustSign => StepOf(at[t]) \in signed
        ELSE rejected # {}
    BY <1>1, <1>2 DEF AtWork
  <2>2. UNCHANGED <<template, on, copy, signed, rejected>>
    BY <1>1 DEF store, history
  <2>3. at[t] \in live /\ live' = live
    BY <1>1, <1>2 DEF AtWork, store
  <2> QED
    BY <1>1, <1>5, <2>1, <2>2, <2>3 DEF AtWork, Clearing, StepOf, MustSign
<1> QED
  BY <1>7, <1>8 DEF Kept
\* What is known of a thread that is on its way.
LEMMA Busy ==
    ASSUME OneRequest, IInv, VInv, NEW t \in Auditors, pc[t] \notin {"idle", "saved"}
    PROVE  ~(StartedOnce /\ item.completed) /\ starts # 0
  BY Base DEF Verdict

LEMMA AllAddedVerdict ==
    ASSUME OneRequest, IInv, VInv, NEW t \in Auditors, TypeOK', AllAdded(t)
    PROVE  Kept(t)'
<1>1. /\ UNCHANGED <<store, locals, history>> /\ pc[t] = "add" /\ built[t] = <<>>
      /\ pc \in [Threads -> PCs] /\ t \in Threads
  BY Base DEF AllAdded, At, IInv, TypeOK
<1>2. AtWork(t) /\ InHand(t) /\ OnItem(t)
  BY Base
<1>3. pc'[t] \in {"idle", "isEmpty"} /\ ~(StartedOnce /\ item.completed) /\ starts # 0
  BY <1>1, Busy DEF AllAdded, Goto, Moved
<1>4. ~GivenUp(t) /\ Completed(on \ Refused(t)')
  BY <1>1, <1>2, <1>3 DEF OnItem, GivenUp, Clearing, Refused, Completed
<1>5. OnItem(t)' /\ InHand(t)' /\ Verdict(t)'
  BY <1>1, <1>3, <1>4, Calmly DEF store, locals, history
<1>6. AtWork(t)'
  <2>1. on = {} => faults > 0 \/ Done
    BY <1>1, <1>2 DEF InHand
  <2> QED
    BY <1>1, <1>3, <2>1 DEF AtWork, Clearing, store, locals, history, Done, MustSign
<1> QED
  BY <1>5, <1>6 DEF Kept

LEMMA IsEmptyVerdict ==
    ASSUME OneRequest, IInv, VInv, NEW t \in Auditors, TypeOK', IsEmpty(t)
    PROVE  Kept(t)'
<1>1. /\ UNCHANGED <<store, after, built, listed, history>> /\ pc[t] = "isEmpty"
      /\ pc \in [Threads -> PCs] /\ t \in Threads
      /\ DOMAIN at = Threads /\ DOMAIN then = Threads
  BY Base DEF IsEmpty, At, IInv, TypeOK
<1>2. AtWork(t) /\ OnItem(t) /\ built[t] = <<>>
  BY <1>1, Base DEF Clearing
<1>3. \/ on = {} /\ pc'[t] = "list" /\ then'[t] = "approve"
      \/ on # {} /\ pc'[t] = "idle"
  BY <1>1 DEF IsEmpty, Goto, Return
<1>4. ~(StartedOnce /\ item.completed) /\ starts # 0
  BY <1>1, Busy
<1>5. ~GivenUp(t) /\ Completed(on \ Refused(t)')
  BY <1>1, <1>2, <1>3 DEF OnItem, GivenUp, Clearing, Refused, Completed
<1>6. OnItem(t)' /\ InHand(t)' /\ Verdict(t)'
  BY <1>1, <1>2, <1>3, <1>4, <1>5, Calmly DEF store, history
<1>7. AtWork(t)'
  <2>1. on = {} => faults > 0 \/ Done
    BY <1>1, <1>2 DEF AtWork
  <2> QED
    BY <1>1, <1>3, <2>1 DEF AtWork, Clearing, store, history, Done, MustSign
<1> QED
  BY <1>6, <1>7 DEF Kept

LEMMA FinalizeVerdict ==
    ASSUME OneRequest, IInv, VInv, NEW t \in Auditors, TypeOK', Finalize(t)
    PROVE  Kept(t)'
<1>1. /\ UNCHANGED <<template, on, live, copy, made, messages, after, built, listed,
                     then, history>>
      /\ pc[t] \in {"approve", "disapprove"} /\ pc'[t] = "idle"
      /\ item' = [approved |-> pc[t] = "approve", completed |-> TRUE]
      /\ pc \in [Threads -> PCs] /\ t \in Threads
  BY Base DEF Finalize, At, Return, Goto, IInv, TypeOK
<1>2. AtWork(t) /\ OnItem(t) /\ built[t] = <<>> /\ Verdict(t)
  BY <1>1, Base DEF Clearing
<1>3. starts # 0 /\ on \cap live = {} /\ (faults > 0 \/ on = {})
  BY <1>1, <1>2, Base, Busy DEF AtWork
<1>4. /\ pc[t] = "approve" => faults > 0 \/ Done
      /\ pc[t] = "disapprove" => rejected # {}
  BY <1>1, <1>2 DEF AtWork
<1>5. InHand(t)'
  BY <1>1, <1>2, EmptyHand
<1>6. OnItem(t)'
  <2>1. Together(on)' /\ Past(on)' /\ Fresh(on \ live)'
    BY <1>1, <1>2, SameItem DEF OnItem, history
  <2>2. Completed(on)'
    BY <1>1, <1>3, <2>1 DEF Completed, Fresh
  <2>3. faults > 0 \/ Ready(on, on)'
    BY <1>1, <1>3 DEF Ready
  <2> QED
    BY <1>1, <2>1, <2>2, <2>3 DEF OnItem, Completed, Clearing, history
<1>7. AtWork(t)'
  BY <1>1, <1>3 DEF AtWork, Clearing
<1>f. faults \in Nat /\ faults' = faults
  BY <1>1, Base DEF history
<1>8. Verdict(t)'
  <2>1. ApprovedUnlessFaults'
    <3>1. item'.approved => pc[t] = "approve"
      BY <1>1
    <3>2. faults > 0 \/ (item'.approved => Done')
      BY <1>1, <1>4, <3>1 DEF Done, MustSign, history
    <3> QED
      BY <1>f, <3>2 DEF ApprovedUnlessFaults, ApprovedByAll, Done
  <2>3. DisapprovedByAuditor'
    <3>1. ~item'.approved => pc[t] = "disapprove"
      BY <1>1
    <3> QED
      BY <1>1, <1>4, <3>1 DEF DisapprovedByAuditor, history
  <2>2. InOrder'
    BY <1>1, <1>3, <1>f DEF InOrder
  <2> QED
    BY <1>1, <1>3, <2>1, <2>2, <2>3 DEF Verdict, history
<1> QED
  BY <1>5, <1>6, <1>7, <1>8 DEF Kept

LEMMA AddFailsVerdict ==
    ASSUME OneRequest, IInv, VInv, NEW t \in Auditors, TypeOK', AddFails(t)
    PROVE  Kept(t)'
<1>1. /\ UNCHANGED <<store, at, after, listed, then, signed, rejected, starts>>
      /\ pc[t] = "add" /\ built'[t] = <<>> /\ faults' > 0
      /\ pc'[t] \in {"idle", "isEmpty"} /\ t \in Threads
  BY Base, BoundsAssumption DEF AddFails, At, Goto, Moved, IInv, TypeOK
<1>2. Verdict(t) /\ OnItem(t) /\ ~(StartedOnce /\ item.completed) /\ starts # 0
  BY <1>1, Base, Busy
<1>3. Verdict(t)'
  BY <1>1, <1>2, SameVerdict DEF store
<1>4. InHand(t)'
  <2>1. Hand(t)' = {} /\ \A i : i \notin DOMAIN built'[t]
    BY <1>1 DEF Hand, Elements
  <2> QED
    BY <1>1, <2>1 DEF InHand, Sorted, Fresh, Ahead, Together
<1>5. OnItem(t)'
  <2>1. ~GivenUp(t) /\ Refused(t) = {} /\ Refused(t)' = {} /\ on \ {} = on
    BY <1>1 DEF GivenUp, Clearing, Refused
  <2>2. Together(on) /\ Past(on) /\ Fresh(on \ live) /\ Completed(on)
    BY <1>2, <2>1 DEF OnItem
  <2>3. Together(on)' /\ Past(on)' /\ Fresh(on \ live)' /\ Completed(on)'
    BY <1>1, <2>2, SameItem DEF store
  <2>4. Completed(on \ Refused(t))'
    BY <2>3 DEF Completed
  <2> QED
    BY <1>1, <2>3, <2>4 DEF OnItem, Clearing
<1>6. AtWork(t)'
  BY <1>1 DEF AtWork, Clearing
<1> QED
  BY <1>3, <1>4, <1>5, <1>6 DEF Kept

\* Listing the steps changes nothing but the place of the thread.
LEMMA ListStepsVerdict ==
    ASSUME OneRequest, IInv, VInv, NEW t \in Auditors, TypeOK', ListSteps(t)
    PROVE  Kept(t)'
<1>1. /\ UNCHANGED <<store, at, after, built, then, history>>
      /\ pc[t] = "list" /\ pc'[t] = "remove" /\ listed'[t] = on \cap live
      /\ t \in Threads
  BY Base DEF ListSteps, At, Goto, IInv, TypeOK
<1>2. /\ Verdict(t) /\ OnItem(t) /\ AtWork(t) /\ InHand(t)
      /\ ~(StartedOnce /\ item.completed) /\ starts # 0
  BY <1>1, Base, Busy
<1>3. Verdict(t)'
  BY <1>1, <1>2, SameVerdict DEF store, history
<1>4. (Done' <=> Done) /\ (GivenUp(t)' <=> GivenUp(t))
      /\ \A label : Clearing(t, label)' <=> Clearing(t, label)
  BY <1>1 DEF Done, MustSign, GivenUp, Clearing, store, history
<1>5. InHand(t)'
  <2>1. built'[t] = built[t] /\ pc[t] # "add" /\ pc'[t] # "add"
    BY <1>1
  <2>2. /\ Sorted(built[t])' /\ Fresh(Hand(t))' /\ Ahead(Hand(t))' /\ Together(Hand(t))'
        /\ faults > 0 \/ Ready(Hand(t), Hand(t))'
    BY <1>1, <1>2, <2>1, SameHand DEF InHand, store, history
  <2>3. built[t] = <<>> /\ Clearing(t, "add") => faults > 0 \/ Done
    BY <1>2 DEF InHand
  <2>4. Clearing(t, "add")' => Clearing(t, "add")
    BY <1>1 DEF Clearing
  <2> QED
    BY <1>1, <1>4, <2>1, <2>2, <2>3, <2>4 DEF InHand, history
<1>6. OnItem(t)'
  <2>1. Refused(t) = {} /\ Refused(t)' = {} /\ on \ {} = on
    BY <1>1 DEF Refused
  <2>2. /\ Together(on)' /\ Past(on)' /\ Fresh(on \ live)'
        /\ GivenUp(t) \/ Completed(on)'
        /\ GivenUp(t) \/ faults > 0 \/ Ready(on, on)'
        /\ Clearing(t, "add") => on \subseteq live /\ (faults > 0 \/ AllSigned(on)')
    BY <1>1, <1>2, <2>1, SameItem DEF OnItem, store, history
  <2>3. Completed(on)' => Completed(on \ Refused(t))'
    BY DEF Completed
  <2>4. Clearing(t, "add")' => Clearing(t, "add")
    BY <1>1 DEF Clearing
  <2> QED
    BY <1>1, <1>4, <2>2, <2>3, <2>4 DEF OnItem, store, history
<1>7. AtWork(t)'
  BY <1>1, <1>2, <1>4 DEF AtWork, Clearing, store, history
<1> QED
  BY <1>3, <1>5, <1>6, <1>7 DEF Kept

\* Every step that was listed has been taken off the item, and that is all.
LEMMA DeleteListedVerdict ==
    ASSUME OneRequest, IInv, VInv, NEW t \in Auditors, TypeOK', DeleteListed(t)
    PROVE  Kept(t)'
<1>1. /\ UNCHANGED <<template, on, copy, made, item, messages, at, after, built, history>>
      /\ pc[t] = "remove" /\ pc'[t] = then[t] /\ then'[t] = "idle" /\ t \in Threads
      /\ listed[t] \cap on = {} /\ live' \subseteq live
      /\ then[t] \in {"idle", "init", "add", "approve", "disapprove"}
  BY Base DEF DeleteListed, At, Goto, Edgeless, IInv, TypeOK
<1>2. /\ Verdict(t) /\ OnItem(t) /\ AtWork(t) /\ InHand(t)
      /\ ~(StartedOnce /\ item.completed) /\ starts # 0
  BY <1>1, Base, Busy
<1>3. /\ on \cap live = {} /\ then[t] # "idle"
      /\ then[t] \in {"add", "approve"} => on = {}
      /\ faults > 0 \/ on = {}
  BY <1>1, <1>2, Base DEF AtWork, OnItem, Clearing
<1>4. Verdict(t)'
  BY <1>1, <1>2, SameVerdict DEF history
<1>5. OnItem(t)'
  <2>1. Together(on)' /\ Past(on)' /\ Fresh(on \ live)'
    BY <1>1, <1>2, <1>3, SameItem DEF OnItem, history
  <2>2. Completed(on)'
    BY <1>1, <1>2, <1>3 DEF OnItem, Completed, Fresh
  <2>3. faults > 0 \/ Ready(on, on)'
    BY <1>1, <1>3 DEF Ready
  <2> QED
    BY <1>1, <2>1, <2>2, <2>3 DEF OnItem, Completed, Clearing, history
<1>6. Clearing(t, then[t])
  BY <1>1 DEF Clearing
<1>7. AtWork(t)'
  BY <1>1, <1>2, <1>3, <1>6 DEF AtWork, Clearing, history, Done, MustSign
<1>8. InHand(t)'
  <2>1. CASE then[t] = "add"
    <3>1. Clearing(t, "add") /\ pc[t] # "add"
      BY <1>1, <1>6, <2>1
    <3>2. /\ Sorted(built[t])' /\ Fresh(Hand(t))' /\ Ahead(Hand(t))'
          /\ Together(Hand(t))' /\ (faults > 0 \/ Ready(Hand(t), Hand(t))')
      BY <1>1, <1>2, <3>1, SameHand DEF InHand, history
    <3>3. on' = {} /\ {} \cup Hand(t)' = Hand(t)'
      BY <1>1, <1>3, <2>1
    <3>4. /\ faults > 0 \/ Ready(Hand(t), on \cup Hand(t))'
          /\ Together(on \cup Hand(t))' /\ Below(on, Hand(t))'
      BY <3>2, <3>3 DEF Ready, Together, Below
    <3>5. built[t] = <<>> => faults > 0 \/ Done'
      BY <1>1, <1>2, <3>1 DEF InHand, history, Done, MustSign
    <3> QED
      BY <1>1, <2>1, <3>2, <3>4, <3>5 DEF InHand, Clearing, history
  <2>2. CASE then[t] # "add"
    <3>1. built[t] = <<>>
      BY <1>1, <2>2, Base DEF Clearing
    <3> QED
      BY <1>1, <2>2, <3>1, EmptyHand
  <2> QED
    BY <2>1, <2>2
<1> QED
  BY <1>4, <1>5, <1>7, <1>8 DEF Kept
\* A set with no more than one element.
LEMMA Single ==
    ASSUME NEW S, IsFiniteSet(S), Cardinality(S) <= 1, NEW x \in S
    PROVE  S = {x}
<1>1. /\ IsFiniteSet(S \ {x})
      /\ Cardinality(S \ {x}) = Cardinality(S) - 1
      /\ Cardinality(S) \in Nat /\ Cardinality(S \ {x}) \in Nat
  BY FS_RemoveElement, FS_CardinalityType
<1>2. Cardinality(S \ {x}) = 0
  BY <1>1
<1>3. S \ {x} = {}
  BY <1>1, <1>2, FS_EmptySet
<1> QED
  BY <1>3

\* moveNext(): whatever the engine goes on from was signed with all before it.
LEMMA ExamineVerdict ==
    ASSUME OneRequest, IInv, VInv, NEW t \in Auditors, TypeOK', Examine(t)
    PROVE  Kept(t)'
<1>1. /\ UNCHANGED <<store, built, listed, then, history>>
      /\ pc[t] = "examine" /\ t \in Threads
      /\ DOMAIN after = Threads /\ DOMAIN at = Threads /\ pc \in [Threads -> PCs]
  BY Base DEF Examine, At, IInv, TypeOK
<1>p. pc'[t] \in {"idle", "isEmpty", "build"}
  BY <1>1, Examined DEF Goto
<1>a. pc'[t] # "idle" => at' = at
  BY <1>1 DEF Examine, Return, Goto
<1>2. /\ Verdict(t) /\ OnItem(t) /\ AtWork(t) /\ built[t] = <<>>
      /\ ~(StartedOnce /\ item.completed) /\ starts # 0
  BY <1>1, Base, Busy DEF Clearing
<1>3. /\ Together(on) /\ Completed(on) /\ Past(on) /\ Fresh(on \ live)
      /\ faults > 0 \/ Ready(on, on)
  <2>1. ~GivenUp(t) /\ Refused(t) = {} /\ on \ {} = on
    BY <1>1 DEF GivenUp, Clearing, Refused
  <2> QED
    BY <1>2, <2>1 DEF OnItem
<1>4. IF at[t] = None THEN on = {} /\ signed = {}
      ELSE at[t] \in on \cap live /\ StepOf(at[t]) \in MustSign \cap signed
  BY <1>1, <1>2 DEF AtWork
<1>5. IsFiniteSet(on)
  <2>1. on \subseteq 1..made /\ made \in Nat
    BY Base
  <2>2. IsFiniteSet(1..made)
    BY <2>1, FS_Interval
  <2> QED
    BY <2>1, <2>2, FS_Subset
<1>6. /\ MustSign \subseteq 1..Len(template) /\ signed \subseteq 1..Len(template)
      /\ Len(template) \in Nat
      /\ \A c \in on : StepOf(c) \in 1..Len(template)
  BY Base
<1>0. faults > 0 \/ faults = 0
  BY Base
<1>7. ASSUME pc'[t] = "build"
      PROVE  /\ on \subseteq live
             /\ faults > 0 \/ (AllSigned(on) /\ SignedTo(after'[t]))
             /\ \A i \in Taken : i <= after'[t]
  <2>1. CASE Cardinality(on) > 1 /\ AllCompleted
    <3>1. PICK c \in on : after'[t] = StepOf(c)
      <4>1. at[t] # None
        BY <1>4, <2>1, FS_EmptySet
      <4>2. PICK c \in Firsts(on) : after' = [after EXCEPT ![t] = copy[c].step]
        BY <1>1, <1>7, <2>1, <1>5, FS_CardinalityType DEF Examine
      <4> QED
        BY <1>1, <4>2 DEF Firsts, StepOf
    <3>2. ASSUME faults = 0, NEW d \in on, NEW i \in MustSign, i <= StepOf(d)
          PROVE  i \in signed
      <4>1. i = StepOf(d) \/ i < StepOf(d)
        BY <1>6, <3>2
      <4>2. \A e \in on : StepOf(e) \in MustSign => StepOf(e) \in signed
        BY <1>3, <2>1 DEF Completed, AllCompleted
      <4>3. i < StepOf(d) => i \in signed \/ \E e \in on : StepOf(e) = i
        BY <1>3, <3>2 DEF Ready
      <4> QED
        BY <4>1, <4>2, <4>3
    <3>3. \A i \in Taken : i <= StepOf(c)
      BY <1>3 DEF Past
    <3>4. on \subseteq live
      BY <2>1 DEF AllCompleted
    <3> QED
      BY <1>0, <3>1, <3>2, <3>3, <3>4 DEF AllSigned, SignedTo
  <2>2. CASE Cardinality(on) <= 1 /\ at[t] = None
    <3>1. after'[t] = 0 /\ on = {} /\ signed = {}
      BY <1>1, <1>4, <1>7, <2>2, <1>5, FS_CardinalityType DEF Examine, None
    <3>2. \A i \in MustSign : ~(i <= 0)
      BY <1>6
    <3> QED
      BY <3>1, <3>2 DEF AllSigned, SignedTo, Taken
  <2>3. CASE Cardinality(on) <= 1 /\ at[t] # None
    <3>1. after'[t] = StepOf(at[t]) /\ on = {at[t]}
      <4>1. after' = [after EXCEPT ![t] = IF at[t] = None THEN None ELSE copy[at[t]].step]
        BY <1>1, <1>4, <1>7, <2>3, <1>5, FS_CardinalityType DEF Examine
      <4> QED
        BY <1>1, <1>4, <1>5, <2>3, <4>1, Single DEF StepOf
    <3>2. ASSUME faults = 0, NEW i \in MustSign, i <= StepOf(at[t])
          PROVE  i \in signed
      <4>1. i = StepOf(at[t]) \/ i < StepOf(at[t])
        BY <1>6, <3>1, <3>2
      <4>2. i < StepOf(at[t]) => i \in signed \/ StepOf(at[t]) = i
        BY <1>3, <3>1, <3>2 DEF Ready
      <4> QED
        BY <1>4, <2>3, <4>1, <4>2
    <3>3. \A i \in Taken : i <= StepOf(at[t])
      BY <1>3, <3>1 DEF Past
    <3>4. on \subseteq live
      BY <1>4, <2>3, <3>1
    <3> QED
      BY <1>0, <3>1, <3>2, <3>3, <3>4 DEF AllSigned, SignedTo
  <2>4. ~(Cardinality(on) > 1 /\ ~AllCompleted)
    <3>1. SUFFICES ASSUME Cardinality(on) > 1, ~AllCompleted
                   PROVE  FALSE
      OBVIOUS
    <3>2. ~(Cardinality(on) <= 1)
      <4>1. Cardinality(on) \in Nat
        BY <1>5, FS_CardinalityType
      <4> QED
        BY <3>1, <4>1
    <3>3. Goto(t, Moved(t)) \/ Return(t)
      BY <3>1, <3>2, Zenon DEF Examine
    <3> QED
      BY <1>1, <1>7, <3>3 DEF Moved, Return, Goto
  <2>5. Cardinality(on) \in Nat
    BY <1>5, FS_CardinalityType
  <2> QED
    BY <2>1, <2>2, <2>3, <2>4, <2>5
<1>8. ASSUME pc'[t] = "isEmpty"
      PROVE  on # {}
  <2>1. Goto(t, Moved(t)) \/ Goto(t, "build") \/ Goto(t, "idle")
    BY DEF Examine, Return
  <2> QED
    BY <1>1, <1>4, <1>8, <2>1 DEF Moved, Goto
<1>9. Verdict(t)'
  BY <1>1, <1>2, SameVerdict DEF store, history
<1>10. InHand(t)'
  BY <1>1, <1>p, <1>2, EmptyHand
<1>11. OnItem(t)'
  <2>1. /\ Together(on)' /\ Completed(on)' /\ Past(on)' /\ Fresh(on \ live)'
        /\ faults > 0 \/ Ready(on, on)'
        /\ AllSigned(on)' <=> AllSigned(on)
        /\ Taken' = Taken
    BY <1>1, <1>3, SameItem DEF store, history
  <2>2. Completed(on)' => Completed(on \ Refused(t))'
    BY DEF Completed
  <2> QED
    BY <1>1, <1>p, <1>7, <2>1, <2>2 DEF OnItem, Clearing, store, history
<1>12. AtWork(t)'
  <2>1. SignedTo(after'[t]) => SignedTo(after[t])'
    BY <1>1 DEF SignedTo, MustSign, store, history
  <2> QED
    BY <1>1, <1>p, <1>a, <1>7, <1>8, <2>1 DEF AtWork, Clearing, store, history
<1> QED
  BY <1>9, <1>10, <1>11, <1>12 DEF Kept

\* A new start forgets what was signed, and deletes the steps it finds.
LEMMA StartVerdict ==
    ASSUME OneRequest, IInv, VInv, NEW t \in Auditors, TypeOK', Start(t)
    PROVE  Kept(t)'
<1>1. /\ UNCHANGED <<store, after, built, listed, faults>>
      /\ pc[t] = "idle" /\ starts' = starts + 1 /\ starts \in Nat
      /\ signed' = {} /\ rejected' = {} /\ at'[t] = None /\ t \in Threads
      /\ \/ on = {} /\ pc'[t] = "examine"
         \/ on # {} /\ pc'[t] = "list" /\ then'[t] = "init"
  BY Base, BoundsAssumption DEF Start, At, Goto, IInv, TypeOK
<1>2. Verdict(t) /\ OnItem(t) /\ built[t] = <<>>
  BY <1>1, Base DEF Clearing
<1>3. starts = 0 => on = {} /\ live = {} /\ ~item.completed
  BY <1>2 DEF Verdict
<1>4. Verdict(t)'
  <2>1. starts' # 0 /\ (starts' <= 1 => starts = 0)
    BY <1>1
  <2> QED
    BY <1>1, <1>3, <2>1
       DEF Verdict, StartedOnce, store, ApprovedUnlessFaults, ApprovedByAll,
           DisapprovedByAuditor, InOrder
<1>5. InHand(t)'
  BY <1>1, <1>2, EmptyHand
<1>6. OnItem(t)'
  <2>1. Together(on)' /\ Fresh(on \ live)'
    BY <1>1, <1>2 DEF OnItem, store, Together, StepOf, SameRun, Fresh
  <2>2. Taken' = {}
    BY <1>1 DEF Taken
  <2>3. GivenUp(t)' \/ on' = {}
    BY <1>1 DEF GivenUp, Clearing, store
  <2> QED
    BY <1>1, <2>1, <2>2, <2>3 DEF OnItem, Past, Ready, Completed, Clearing
<1>7. AtWork(t)'
  <2>1. on # {} => starts' > 1
    BY <1>1, <1>3
  <2> QED
    BY <1>1, <2>1 DEF AtWork, Clearing, store
<1> QED
  BY <1>4, <1>5, <1>6, <1>7 DEF Kept

\* A decision signs its step or rejects it, and the copy waits to be handled.
LEMMA UpdateVerdict ==
    ASSUME OneRequest, IInv, VInv, NEW t \in Auditors, TypeOK',
           NEW c \in Copies, NEW a \in BOOLEAN, NEW b \in Completions, Update(t, c, a, b)
    PROVE  Kept(t)'
<1> DEFINE step == copy[c].step
           decides == c \in on /\ template[step].action = "approve"
<1>1. /\ UNCHANGED <<template, on, live, item, built, listed, then, starts, faults>>
      /\ pc[t] = "idle" /\ pc'[t] = "saved" /\ c \in live /\ at'[t] = c /\ t \in Threads
      /\ copy'[c].approved = a /\ copy'[c].step = copy[c].step
      /\ copy'[c].ordinal = copy[c].ordinal
      /\ \A d \in Copies \ {c} : copy'[d] = copy[d]
  BY Base DEF Update, At, Goto, IInv, TypeOK
<1>2. /\ signed' = IF decides /\ a THEN signed \cup {step} ELSE signed
      /\ rejected' = IF decides /\ ~a THEN rejected \cup {step} ELSE rejected
  BY DEF Update
<1> HIDE DEF step, decides
<1>3. Verdict(t) /\ OnItem(t) /\ built[t] = <<>>
  BY <1>1, Base DEF Clearing
<1>4. /\ on \subseteq Copies /\ faults \in Nat
      /\ MustSign \subseteq 1..Len(template) /\ Len(template) \in Nat
      /\ \A d \in on \cup live : StepOf(d) \in 1..Len(template)
      /\ DOMAIN template = 1..Len(template)
  BY Base
<1>5. MustSign' = MustSign /\ \A d \in Copies : StepOf(d)' = StepOf(d)
  BY <1>1 DEF MustSign, StepOf
<1>6. /\ StepOf(c) = step /\ signed \subseteq signed' /\ rejected \subseteq rejected'
      /\ c \in on /\ StepOf(c) \in MustSign =>
            IF a THEN StepOf(c) \in signed' ELSE rejected' # {}
      /\ \A i \in signed' : i \in signed \/ (c \in on /\ i = StepOf(c))
  BY <1>2 DEF StepOf, MustSign, step, decides
<1>7. Verdict(t)'
  <2>1. starts # 0 /\ (StartedOnce /\ item.completed => on \cap live = {})
    BY <1>1, <1>3 DEF Verdict
  <2>2. ApprovedUnlessFaults' /\ DisapprovedByAuditor'
    BY <1>1, <1>3, <1>5, <1>6
       DEF Verdict, ApprovedUnlessFaults, ApprovedByAll, DisapprovedByAuditor, StartedOnce,
           Watched
  <2>3. InOrder'
    <3>1. StartedOnce /\ faults = 0 => \A d \in on : \A i \in MustSign :
              i < StepOf(d) /\ ~SameRun(i, StepOf(d)) => i \in signed
      BY <1>3 DEF Verdict, InOrder, StepOf
    <3>2. StartedOnce' /\ faults' = 0 => StartedOnce /\ faults = 0
      BY <1>1 DEF StartedOnce
    <3>3. ASSUME StartedOnce /\ faults = 0, NEW d \in on', NEW i \in MustSign',
                 i < copy'[d].step, ~SameRun(i, copy[d].step)'
          PROVE  i \in signed'
      <4>1. copy'[d].step = StepOf(d) /\ d \in on
        BY <1>1, <1>4, <1>5, <3>3 DEF StepOf
      <4>2. ~SameRun(i, StepOf(d))
        BY <1>1, <3>3, <4>1 DEF SameRun, StepOf
      <4> QED
        BY <1>5, <1>6, <3>1, <3>3, <4>1, <4>2
    <3> QED
      BY <3>2, <3>3 DEF InOrder
  <2> QED
    BY <1>1, <2>1, <2>2, <2>3 DEF Verdict, StartedOnce
<1>8. InHand(t)'
  BY <1>1, <1>3, EmptyHand
<1>9. OnItem(t)'
  <2>1. /\ Together(on) /\ Completed(on) /\ Past(on) /\ Fresh(on \ live)
        /\ faults > 0 \/ Ready(on, on)
    <3>1. ~GivenUp(t) /\ Refused(t) = {} /\ on \ {} = on
      BY <1>1 DEF GivenUp, Clearing, Refused
    <3> QED
      BY <1>3, <3>1 DEF OnItem
  <2>2. Together(on)'
    <3>1. \A d \in on : copy'[d].ordinal = copy[d].ordinal /\ StepOf(d)' = StepOf(d)
      BY <1>1, <1>4, <1>5
    <3>2. \A i, j : SameRun(i, j)' <=> SameRun(i, j)
      BY <1>1 DEF SameRun
    <3> QED
      BY <1>1, <2>1, <3>1, <3>2 DEF Together
  <2>3. faults > 0 \/ Ready(on, on)'
    BY <1>1, <1>4, <1>5, <1>6, <2>1 DEF Ready
  <2>6. Fresh(on \ live)'
    BY <1>1, <1>4, <2>1 DEF Fresh
  <2>4. Completed(on \ Refused(t))'
    <3>1. SUFFICES ASSUME NEW d \in on, d \notin Refused(t)', copy'[d].completed,
                          StepOf(d) \in MustSign
                   PROVE  StepOf(d) \in signed'
      BY <1>1, <1>4, <1>5 DEF Completed
    <3>2. CASE d = c
      <4>1. a
        BY <1>1, <3>1, <3>2 DEF Refused
      <4> QED
        BY <1>6, <3>1, <3>2, <4>1
    <3>3. CASE d # c
      BY <1>1, <1>4, <1>6, <2>1, <3>1, <3>3 DEF Completed
    <3> QED
      BY <3>2, <3>3
  <2>5. Past(on)'
    <3>1. SUFFICES ASSUME NEW d \in on, NEW i \in signed', template[i].type = "sequential"
                   PROVE  i <= StepOf(d)
      BY <1>1, <1>4, <1>5 DEF Past, Taken
    <3>2. CASE i \in signed
      BY <2>1, <3>1, <3>2 DEF Past, Taken
    <3>3. CASE c \in on /\ i = StepOf(c)
      <4>1. StepOf(c) \in 1..Len(template) /\ StepOf(d) \in 1..Len(template)
        BY <1>4, <3>3
      <4>2. ~SameRun(StepOf(d), StepOf(c)) \/ ~(StepOf(d) < StepOf(c))
        BY <1>4, <3>1, <3>3, <4>1 DEF SameRun
      <4>3. StepOf(d) < StepOf(c) => SameRun(StepOf(d), StepOf(c))
        BY <2>1, <3>3 DEF Together
      <4> QED
        BY <3>3, <4>1, <4>2, <4>3
    <3> QED
      BY <1>6, <3>1, <3>2, <3>3
  <2> QED
    BY <1>1, <2>2, <2>3, <2>4, <2>5, <2>6 DEF OnItem, Clearing
<1>10. AtWork(t)'
  BY <1>1, <1>4, <1>5, <1>6 DEF AtWork, Clearing
<1> QED
  BY <1>7, <1>8, <1>9, <1>10 DEF Kept
\* The item loses the edges to its copies one by one, the first one first.
LEMMA RemoveEdgeVerdict ==
    ASSUME OneRequest, IInv, VInv, NEW t \in Auditors, TypeOK', RemoveEdge(t)
    PROVE  Kept(t)'
<1>1. /\ UNCHANGED <<template, live, copy, made, item, messages, pc, locals, history>>
      /\ pc[t] = "remove" /\ t \in Threads
  BY Base DEF RemoveEdge, At
<1>2. /\ Verdict(t) /\ OnItem(t) /\ AtWork(t) /\ InHand(t)
      /\ ~(StartedOnce /\ item.completed) /\ starts # 0
  BY <1>1, Base, Busy
<1>3. PICK c \in on : on' = on \ {c}
  BY DEF RemoveEdge, Firsts
<1>4. /\ then[t] \in {"disapprove", "init", "add"}
      /\ \A label : Clearing(t, label)' <=> Clearing(t, label)
      /\ GivenUp(t) \/ Clearing(t, "add")
  <2>1. then[t] \in {"idle", "init", "add", "approve", "disapprove"}
    BY <1>1 DEF IInv, TypeOK
  <2>2. then[t] # "idle" /\ then[t] # "approve"
    BY <1>1, <1>2, <1>3 DEF AtWork, Clearing
  <2> QED
    BY <1>1, <2>1, <2>2 DEF Clearing, GivenUp, locals
<1>5. on' \subseteq on
  BY <1>3
<1>6. Verdict(t)'
  <2>1. /\ ApprovedUnlessFaults' /\ DisapprovedByAuditor'
    BY <1>1, <1>2
       DEF Verdict, ApprovedUnlessFaults, ApprovedByAll, DisapprovedByAuditor, StartedOnce,
           Watched, history, MustSign
  <2>2. InOrder'
    BY <1>1, <1>2, <1>5 DEF Verdict, InOrder, StartedOnce, history, MustSign, SameRun
  <2> QED
    BY <1>1, <1>2, <2>1, <2>2 DEF Verdict, StartedOnce, history
<1>7. InHand(t)'
  BY <1>1, <1>2
     DEF InHand, Clearing, locals, history, Sorted, Hand, Elements, Fresh, Ahead, Together,
         Ready, Taken, MustSign, SameRun, StepOf, Done
<1>8. OnItem(t)'
  <2>1. Together(on) /\ Past(on) /\ Fresh(on \ live)
    BY <1>2 DEF OnItem
  <2>2. Together(on)' /\ Past(on)' /\ Fresh(on \ live)'
    BY <1>1, <1>5, <2>1 DEF Together, Past, Taken, StepOf, SameRun, Fresh, history
  <2>3. CASE GivenUp(t)
    <3>1. GivenUp(t)' /\ ~Clearing(t, "add")'
      BY <1>1, <2>3 DEF GivenUp, Clearing, locals
    <3> QED
      BY <1>1, <2>2, <3>1 DEF OnItem
  <2>4. CASE Clearing(t, "add")
    <3>1. /\ ~GivenUp(t) /\ Refused(t) = {} /\ on \ {} = on
          /\ on \subseteq live /\ (faults > 0 \/ AllSigned(on))
      BY <1>1, <1>2, <2>4 DEF OnItem, GivenUp, Clearing, Refused
    <3>2. Completed(on)
      BY <1>2, <3>1 DEF OnItem
    <3>3. \A d \in on : StepOf(d) \in Nat
      BY Base
    <3>4. \A i \in MustSign : i \in Nat
      BY Base
    <3>5. faults > 0 \/ Ready(on, on)'
      BY <1>1, <1>5, <3>1, <3>3, <3>4
         DEF Ready, AllSigned, SignedTo, StepOf, MustSign, history
    <3>6. (faults > 0 \/ AllSigned(on)') /\ Completed(on \ Refused(t))'
      BY <1>1, <1>5, <3>1, <3>2
         DEF AllSigned, SignedTo, Completed, StepOf, MustSign, history
    <3>7. on' \subseteq live' /\ faults' = faults
      BY <1>1, <1>5, <3>1 DEF history
    <3> QED
      BY <1>1, <2>2, <3>5, <3>6, <3>7 DEF OnItem
  <2> QED
    BY <1>4, <2>3, <2>4
<1>9. AtWork(t)'
  BY <1>1, <1>2, <1>4, <1>5 DEF AtWork, Clearing, locals, history
<1> QED
  BY <1>6, <1>7, <1>8, <1>9 DEF Kept

\* The head of a sorted sequence comes before its tail.
LEMMA SortedHead ==
    ASSUME NEW S, NEW s \in Seq(S), s # <<>>, Sorted(s)
    PROVE  /\ Sorted(Tail(s))
           /\ \A d \in Elements(Tail(s)) : StepOf(Head(s)) < StepOf(d)
<1>1. /\ Head(s) = s[1] /\ Len(s) \in Nat \ {0}
      /\ DOMAIN s = 1..Len(s) /\ DOMAIN Tail(s) = 1..Len(s) - 1
      /\ \A i \in 1..Len(s) - 1 : Tail(s)[i] = s[i + 1]
  OBVIOUS
<1>2. \A i \in 1..Len(s) - 1 : i + 1 \in DOMAIN s /\ 1 < i + 1
  BY <1>1
<1>3. 1 \in DOMAIN s
  BY <1>1
<1>4. \A i, j \in 1..Len(s) - 1 : i < j => i + 1 < j + 1
  BY <1>1
<1>5. Sorted(Tail(s))
  BY <1>1, <1>2, <1>4 DEF Sorted
<1>6. \A d \in Elements(Tail(s)) : StepOf(Head(s)) < StepOf(d)
  BY <1>1, <1>2, <1>3 DEF Sorted, Elements
<1> QED
  BY <1>5, <1>6

\* moveNext(): the copies are added one by one, in the order of their steps.
LEMMA AddStepVerdict ==
    ASSUME OneRequest, IInv, VInv, NEW t \in Auditors, TypeOK', AddStep(t)
    PROVE  Kept(t)'
<1> DEFINE c == Head(built[t])
<1>1. /\ UNCHANGED <<template, live, copy, made, item, pc, at, after, listed, then, history>>
      /\ pc[t] = "add" /\ built[t] # <<>> /\ t \in Threads
      /\ on' = on \cup {c} /\ built'[t] = Tail(built[t])
  BY Base DEF AddStep, At, IInv, TypeOK
<1>2. /\ Verdict(t) /\ OnItem(t) /\ AtWork(t) /\ InHand(t)
      /\ ~(StartedOnce /\ item.completed) /\ starts # 0
  BY <1>1, Base, Busy
<1>3. /\ built[t] \in Seq(1..made) /\ Hand(t) \subseteq 1..made /\ on \subseteq 1..made
      /\ MustSign \subseteq 1..Len(template) /\ Len(template) \in Nat
      /\ \A d \in 1..made : StepOf(d) \in 1..Len(template)
  BY Base
<1>4. /\ Sorted(built[t]) /\ Fresh(Hand(t)) /\ Ahead(Hand(t))
      /\ faults > 0 \/ Ready(Hand(t), on \cup Hand(t))
      /\ Together(on \cup Hand(t)) /\ Below(on, Hand(t))
  BY <1>1, <1>2 DEF InHand
<1>5. Hand(t) = {c} \cup Hand(t)'
  BY <1>1, <1>3, HeadTail DEF Hand
<1>6. /\ Sorted(Tail(built[t]))
      /\ \A d \in Hand(t)' : StepOf(c) < StepOf(d)
  BY <1>1, <1>3, <1>4, SortedHead DEF Hand
<1>7. c \in Hand(t) /\ on \cup Hand(t) = on' \cup Hand(t)'
  BY <1>1, <1>5
<1> HIDE DEF c
<1>8. /\ Together(on) /\ Completed(on) /\ Past(on) /\ Fresh(on \ live)
      /\ faults > 0 \/ Ready(on, on)
  <2>1. ~GivenUp(t) /\ Refused(t) = {} /\ on \ {} = on
    BY <1>1 DEF GivenUp, Clearing, Refused
  <2> QED
    BY <1>2, <2>1 DEF OnItem
<1>9. faults > 0 \/ \A i \in MustSign :
                        i < StepOf(c) => i \in signed \/ \E d \in on : StepOf(d) = i
  <2>1. SUFFICES ASSUME ~(faults > 0), NEW i \in MustSign, i < StepOf(c), i \notin signed
                 PROVE  \E d \in on : StepOf(d) = i
    OBVIOUS
  <2>2. PICK d \in on \cup Hand(t) : StepOf(d) = i
    BY <1>4, <1>7, <2>1 DEF Ready
  <2>3. d \notin Hand(t)
    <3>1. StepOf(c) \in Nat /\ StepOf(d) \in Nat
      BY <1>3, <1>7, <2>2
    <3>2. d = c \/ StepOf(c) < StepOf(d) \/ d \notin Hand(t)
      BY <1>5, <1>6
    <3> QED
      BY <2>1, <2>2, <3>1, <3>2
  <2> QED
    BY <2>2, <2>3
<1>10. Verdict(t)'
  <2>1. ApprovedUnlessFaults' /\ DisapprovedByAuditor'
    BY <1>1, <1>2
       DEF Verdict, ApprovedUnlessFaults, ApprovedByAll, DisapprovedByAuditor, StartedOnce,
           Watched, history, MustSign
  <2>2. InOrder'
    <3>1. StartedOnce /\ faults = 0 => \A d \in on : \A i \in MustSign :
              i < StepOf(d) /\ ~SameRun(i, StepOf(d)) => i \in signed
      BY <1>2 DEF Verdict, InOrder, StepOf
    <3>2. faults = 0 => \A i \in MustSign :
              i < StepOf(c) /\ ~SameRun(i, StepOf(c)) => i \in signed
      BY <1>4, <1>7, <1>9 DEF Together
    <3>3. StartedOnce /\ faults = 0 => \A d \in on' : \A i \in MustSign :
              i < StepOf(d) /\ ~SameRun(i, StepOf(d)) => i \in signed
      BY <1>1, <3>1, <3>2
    <3> QED
      BY <1>1, <3>3 DEF InOrder, StartedOnce, history, MustSign, SameRun, StepOf
  <2> QED
    BY <1>1, <1>2, <2>1, <2>2 DEF Verdict, StartedOnce, history
<1>11. InHand(t)'
  <2>1. /\ UNCHANGED <<template, copy, signed>> /\ pc'[t] = "add"
        /\ on' # {} /\ Hand(t)' \subseteq Hand(t)
    BY <1>1, <1>5 DEF history
  <2>2. Sorted(built[t])'
    BY <1>1, <1>6, <2>1 DEF Sorted, StepOf
  <2>3. Fresh(Hand(t))' /\ Ahead(Hand(t))'
    BY <1>4, <2>1 DEF Fresh, Ahead, Taken, StepOf
  <2>4. Together(on \cup Hand(t))'
    BY <1>4, <1>7, <2>1 DEF Together, SameRun, StepOf
  <2>5. Together(Hand(t))'
    BY <2>4 DEF Together
  <2>6. faults > 0 \/ Ready(Hand(t), on \cup Hand(t))'
    BY <1>4, <1>7, <2>1 DEF Ready, MustSign, StepOf
  <2>7. Below(on, Hand(t))'
    BY <1>1, <1>4, <1>6, <2>1 DEF Below, StepOf
  <2> QED
    BY <2>1, <2>2, <2>3, <2>4, <2>5, <2>6, <2>7, <1>1 DEF InHand, Clearing, history
<1>12. OnItem(t)'
  <2>1. /\ UNCHANGED <<template, copy, signed>> /\ pc'[t] = "add"
        /\ on' = on \cup {c} /\ on' \subseteq on \cup Hand(t)
    BY <1>1, <1>7 DEF history, c
  <2>2. Together(on)'
    BY <1>4, <2>1 DEF Together, SameRun, StepOf
  <2>6. Fresh(on \ live)'
    BY <1>1, <1>4, <1>7, <1>8, <2>1 DEF Fresh
  <2>3. faults > 0 \/ Ready(on, on)'
    BY <1>8, <1>9, <2>1 DEF Ready, MustSign, StepOf
  <2>4. Completed(on \ Refused(t))'
    BY <1>4, <1>7, <1>8, <2>1 DEF Completed, Fresh, MustSign, StepOf
  <2>5. Past(on)'
    <3>1. \A i \in Taken : i <= StepOf(c)
      <4>1. \A i \in Taken : i \in Int /\ i < StepOf(c)
        BY <1>4, <1>7, Base DEF Ahead, Taken
      <4>2. StepOf(c) \in Int
        BY <1>3, <1>7
      <4> QED
        BY <4>1, <4>2
    <3> QED
      BY <1>8, <2>1, <3>1 DEF Past, Taken, StepOf
  <2> QED
    BY <1>1, <2>1, <2>2, <2>3, <2>4, <2>5, <2>6 DEF OnItem, Clearing, history
<1>13. AtWork(t)'
  BY <1>1 DEF AtWork, Clearing
<1> QED
  BY <1>10, <1>11, <1>12, <1>13 DEF Kept
\* A copy whose edge was lost is left out; the others are added all the same.
LEMMA AddLosesVerdict ==
    ASSUME OneRequest, IInv, VInv, NEW t \in Auditors, TypeOK', AddLoses(t)
    PROVE  Kept(t)'
<1>1. /\ UNCHANGED <<store, pc, at, after, listed, then, signed, rejected, starts>>
      /\ pc[t] = "add" /\ built[t] # <<>> /\ t \in Threads
      /\ built'[t] = Tail(built[t]) /\ faults' > 0
  BY Base, BoundsAssumption DEF AddLoses, At, IInv, TypeOK
<1>2. /\ Verdict(t) /\ OnItem(t) /\ AtWork(t) /\ InHand(t)
      /\ ~(StartedOnce /\ item.completed) /\ starts # 0
  BY <1>1, Base, Busy
<1>3. Verdict(t)'
  BY <1>1, <1>2, SameVerdict DEF store
<1>4. InHand(t)'
  <2>1. /\ Sorted(built[t]) /\ Fresh(Hand(t)) /\ Ahead(Hand(t))
        /\ Together(on \cup Hand(t)) /\ Below(on, Hand(t))
    BY <1>1, <1>2 DEF InHand
  <2>2. built[t] \in Seq(1..made)
    BY Base
  <2>3. Hand(t)' \subseteq Hand(t) /\ Sorted(Tail(built[t]))
    BY <1>1, <2>1, <2>2, HeadTail, SortedHead DEF Hand
  <2>4. UNCHANGED <<template, on, copy, signed>> /\ pc'[t] = "add"
    BY <1>1 DEF store
  <2>5. Sorted(built[t])'
    BY <1>1, <2>3, <2>4 DEF Sorted, StepOf
  <2>6. Fresh(Hand(t))' /\ Ahead(Hand(t))' /\ Below(on, Hand(t))'
    BY <2>1, <2>3, <2>4 DEF Fresh, Ahead, Below, Taken, StepOf
  <2>7. Together(on \cup Hand(t))' /\ Together(Hand(t))'
    BY <2>1, <2>3, <2>4 DEF Together, SameRun, StepOf
  <2> QED
    BY <1>1, <2>4, <2>5, <2>6, <2>7 DEF InHand
<1>5. OnItem(t)'
  <2>1. ~GivenUp(t) /\ Refused(t) = {} /\ Refused(t)' = {} /\ on \ {} = on
    BY <1>1 DEF GivenUp, Clearing, Refused
  <2>2. Together(on) /\ Past(on) /\ Fresh(on \ live) /\ Completed(on)
    BY <1>2, <2>1 DEF OnItem
  <2>3. Together(on)' /\ Past(on)' /\ Fresh(on \ live)' /\ Completed(on)'
    BY <1>1, <2>2, SameItem DEF store
  <2>4. Completed(on \ Refused(t))'
    BY <2>3 DEF Completed
  <2> QED
    BY <1>1, <2>3, <2>4 DEF OnItem, Clearing
<1>6. AtWork(t)'
  BY <1>1 DEF AtWork, Clearing
<1> QED
  BY <1>3, <1>4, <1>5, <1>6 DEF Kept

-----------------------------------------------------------------------------
\* A group is the steps right behind k; it is empty only behind the last step.
LEMMA GroupInterval ==
    ASSUME template \in Seq(StepKinds), NEW k \in 0..Len(template)
    PROVE  /\ Cardinality(Group(k)) \in Nat
           /\ \A i \in 1..Cardinality(Group(k)) : k + i \in Group(k)
           /\ Cardinality(Group(k)) = 0 => k = Len(template)
<1> DEFINE n == Cardinality(Group(k))
<1>1. /\ Len(template) \in Nat /\ k \in Int /\ DOMAIN template = 1..Len(template)
      /\ 0 <= k /\ k <= Len(template)
  OBVIOUS
<1>2. Group(k) \subseteq k + 1..Len(template)
  BY DEF Group, Place
<1>3. IsFiniteSet(Group(k)) /\ n \in Nat
  <2>1. IsFiniteSet(k + 1..Len(template))
    BY <1>1, FS_Interval
  <2> QED
    BY <1>2, <2>1, FS_Subset, FS_CardinalityType
<1>4. ASSUME NEW i \in Group(k), NEW j \in k + 1..i
      PROVE  j \in Group(k)
  <2>1. j \in DOMAIN template /\ j >= k + 1 /\ i \in Int
    BY <1>1, <1>2
  <2>2. i = k + 1 => j = k + 1
    BY <2>1
  <2>3. k + 1..j \subseteq k + 1..i
    BY <2>1
  <2> QED
    BY <2>1, <2>2, <2>3 DEF Group, Place
<1>5. ASSUME NEW i \in 1..n
      PROVE  k + i \in Group(k)
  <2>1. SUFFICES ASSUME k + i \notin Group(k)
                 PROVE  FALSE
    OBVIOUS
  <2>2. Group(k) \subseteq k + 1..k + i - 1
    <3>1. SUFFICES ASSUME NEW j \in Group(k), ~(j <= k + i - 1)
                   PROVE  FALSE
      BY <1>1, <1>2, <1>3
    <3>2. k + i \in k + 1..j
      BY <1>1, <1>2, <1>3, <3>1
    <3> QED
      BY <1>4, <2>1, <3>2
  <2>3. /\ IsFiniteSet(k + 1..k + i - 1)
        /\ Cardinality(k + 1..k + i - 1) = i - 1
    <3>1. k + 1 \in Int /\ k + i - 1 \in Int /\ i \in Int /\ i >= 1
      BY <1>1, <1>3
    <3>2. /\ IsFiniteSet(k + 1..k + i - 1)
          /\ Cardinality(k + 1..k + i - 1) =
                IF k + 1 > k + i - 1 THEN 0 ELSE k + i - 1 - (k + 1) + 1
      BY <3>1, FS_Interval
    <3> QED
      BY <1>1, <3>1, <3>2
  <2>4. n <= i - 1
    BY <2>2, <2>3, FS_Subset
  <2> QED
    BY <1>3, <2>4
<1>6. ASSUME n = 0
      PROVE  k = Len(template)
  <2>1. Group(k) = {}
    BY <1>3, <1>6, FS_EmptySet
  <2>2. k + 1 \notin DOMAIN template
    BY <1>1, <2>1 DEF Group, Place
  <2>3. \A x, y \in Int : x <= y /\ ~(x + 1 <= y) => x = y
    OBVIOUS
  <2>4. ~(k + 1 <= Len(template)) /\ Len(template) \in Int
    BY <1>1, <2>2
  <2> QED
    BY <1>1, <2>3, <2>4
<1> QED
  BY <1>3, <1>5, <1>6

\* Making copies leaves those that were made before alone.
LEMMA OldCopies ==
    ASSUME NEW k, NEW n \in Nat, NEW lost, made \in Nat, 1..made \subseteq Copies,
           Make(k, n, lost)
    PROVE  \A c \in 1..made : copy'[c] = copy[c]
<1>1. \A c \in 1..made : c \notin made + 1..made + n
  OBVIOUS
<1> QED
  BY <1>1 DEF Make

\* What the item shows when only new copies were made.
LEMMA ItemKept ==
    ASSUME UNCHANGED <<template, on, signed, rejected, item, starts>>,
           \A c \in on : copy'[c] = copy[c],
           live \subseteq live', faults' = 0 => faults = 0
    PROVE  /\ Together(on) => Together(on)'
           /\ Fresh(on \ live) => Fresh(on \ live)'
           /\ Ready(on, on) => Ready(on, on)'
           /\ Completed(on) => Completed(on)'
           /\ Past(on) => Past(on)'
           /\ AllSigned(on) => AllSigned(on)'
           /\ InOrder => InOrder'
           /\ DisapprovedByAuditor => DisapprovedByAuditor'
<1>1. \A c \in on : StepOf(c)' = StepOf(c)
  BY DEF StepOf
<1>2. MustSign' = MustSign /\ Taken' = Taken
  BY DEF MustSign, Taken
<1>3. \A i, j : SameRun(i, j)' <=> SameRun(i, j)
  BY DEF SameRun
<1>4. Together(on) => Together(on)'
  BY <1>1, <1>3 DEF Together
<1>5. /\ Ready(on, on) => Ready(on, on)'
      /\ Completed(on) => Completed(on)'
      /\ Past(on) => Past(on)'
      /\ AllSigned(on) => AllSigned(on)'
  BY <1>1, <1>2 DEF Ready, Completed, Past, AllSigned, SignedTo
<1>6. InOrder => InOrder'
  BY <1>2, <1>3 DEF InOrder, StartedOnce
<1>8. Fresh(on \ live) => Fresh(on \ live)'
  BY DEF Fresh
<1>7. DisapprovedByAuditor => DisapprovedByAuditor'
  BY DEF DisapprovedByAuditor, StartedOnce, Watched
<1> QED
  BY <1>4, <1>5, <1>6, <1>7, <1>8

\* moveNext(): the new copies are of the steps right behind those signed.
LEMMA BuildVerdict ==
    ASSUME OneRequest, IInv, VInv, NEW t \in Auditors, TypeOK', Builds(t)
    PROVE  Kept(t)'
<1>k. PICK k \in 0..Len(template) : k = after[t]
  BY Base DEF IInv, TypeOK
<1>n. PICK n : n = Cardinality(Group(k))
  OBVIOUS
<1>m. PICK old : old = made
  OBVIOUS
<1>0. PICK lost : /\ BuildAllBut(t, lost)
                  /\ faults' = faults \/ faults' = faults + 1
  BY DEF Builds
<1>1. /\ UNCHANGED <<template, on, item, messages, at, listed, signed, rejected, starts>>
      /\ pc[t] = "build" /\ pc'[t] = "list" /\ then'[t] = "add"
      /\ built'[t] = [i \in 1..n |-> old + i] /\ Make(k, n, lost)
      /\ k \in 0..Len(template) /\ t \in Threads
  BY <1>0, <1>k, <1>n, <1>m, Base DEF BuildAllBut, At, Goto, IInv, TypeOK
<1>f. faults \in Nat /\ faults' \in Nat /\ (faults' = 0 => faults = 0) /\ live \subseteq live'
  BY <1>0, <1>1, Base DEF Make
<1>2. /\ Verdict(t) /\ OnItem(t) /\ AtWork(t)
      /\ ~(StartedOnce /\ item.completed) /\ starts # 0
  BY <1>1, Base, Busy
<1>3. /\ Len(template) \in Nat /\ old \in Nat /\ 1..old \subseteq Copies
      /\ on \subseteq 1..old /\ DOMAIN template = 1..Len(template)
      /\ template \in Seq(StepKinds)
      /\ MustSign \subseteq 1..Len(template) /\ signed \subseteq 1..Len(template)
  BY <1>m, Base
<1>4. /\ n \in Nat /\ \A i \in 1..n : k + i \in Group(k)
      /\ n = 0 => k = Len(template)
  BY <1>n, <1>3, GroupInterval
<1>5. /\ on \subseteq live /\ (faults > 0 \/ (SignedTo(k) /\ AllSigned(on)))
      /\ \A i \in Taken : i <= k
  BY <1>1, <1>2, <1>k DEF AtWork, OnItem
<1>6. /\ \A c \in on : copy'[c] = copy[c]
      /\ UNCHANGED <<template, on, signed, rejected, item, starts>>
  BY <1>1, <1>3, <1>4, <1>m, OldCopies
<1>7. OnItem(t)'
  <2>1. /\ Together(on) /\ Completed(on) /\ Past(on) /\ Fresh(on \ live)
        /\ faults > 0 \/ Ready(on, on)
    <3>1. ~GivenUp(t) /\ Refused(t) = {} /\ on \ {} = on
      BY <1>1 DEF GivenUp, Clearing, Refused
    <3> QED
      BY <1>2, <3>1 DEF OnItem
  <2>2. /\ Together(on)' /\ Completed(on)' /\ Past(on)' /\ Fresh(on \ live)'
        /\ faults > 0 \/ (Ready(on, on)' /\ AllSigned(on)')
    BY <1>f, <1>5, <1>6, <2>1, ItemKept
  <2>3. Completed(on)' => Completed(on \ Refused(t))'
    BY DEF Completed
  <2>4. on' \subseteq live' /\ (faults' > 0 \/ ~(faults > 0))
    BY <1>f, <1>1, <1>5
  <2> QED
    BY <1>1, <2>2, <2>3, <2>4 DEF OnItem
<1>8. Verdict(t)'
  <2>1. InOrder' /\ DisapprovedByAuditor'
    BY <1>f, <1>2, <1>6, ItemKept DEF Verdict
  <2>2. ApprovedUnlessFaults'
    BY <1>f, <1>2, <1>6
       DEF Verdict, ApprovedUnlessFaults, ApprovedByAll, StartedOnce, MustSign
  <2> QED
    BY <1>2, <1>6, <2>1, <2>2 DEF Verdict, StartedOnce
<1>num. n \in Nat /\ k \in Nat /\ old \in Nat
  <2>1. k \in Nat
    OBVIOUS
  <2> QED
    BY <1>3, <1>4, <2>1
<1>int. \A i \in 1..n : /\ i \in Int /\ 1 <= i /\ i <= n
                       /\ old + i \in old + 1..old + n
                       /\ old + i <= old + n /\ old + i >= 1 /\ old + i \in Int
                       /\ k + 1 + (old + i) - old - 1 = k + i
                       /\ (old + i) - old - 1 = i - 1
  BY <1>num
<1>9. ASSUME NEW i \in 1..n
      PROVE  /\ copy'[old + i].step = k + i
             /\ copy'[old + i].ordinal = i - 1
             /\ ~copy'[old + i].completed
  <2>1. old + i \in Copies /\ old + i \in old + 1..old + n
    <3>1. old + n <= MaxCopies
      BY <1>1, <1>m DEF Make
    <3> QED
      BY <1>num, <1>int, <3>1, BoundsAssumption DEF Copies
  <2>2. copy'[old + i] = [step |-> Place(k) + (old + i) - old - 1,
                           ordinal |-> (old + i) - old - 1,
                           approved |-> FALSE, completed |-> FALSE]
    BY <1>1, <1>m, <2>1 DEF Make
  <2> QED
    BY <1>int, <2>2 DEF Place
<1>10. /\ DOMAIN built'[t] = 1..n
       /\ \A i \in 1..n : built'[t][i] = old + i
       /\ \A c \in Hand(t)' : \E i \in 1..n : c = old + i
       /\ \A i \in 1..n : old + i \in Hand(t)'
  BY <1>1 DEF Hand, Elements
<1>12. InHand(t)'
  <2>1. Sorted(built[t])'
    <3>1. \A i, j \in 1..n : i < j => k + i < k + j
      BY <1>num
    <3>2. \A i, j \in 1..n : i < j => copy'[old + i].step < copy'[old + j].step
      BY <1>9, <3>1
    <3> QED
      BY <1>10, <3>2 DEF Sorted, StepOf
  <2>2. Fresh(Hand(t))'
    BY <1>9, <1>10 DEF Fresh
  <2>3. Ahead(Hand(t))'
    <3>1. SUFFICES ASSUME NEW i \in 1..n, NEW j \in Taken
                   PROVE  j < k + i
      <4>1. Taken' = Taken
        BY <1>6 DEF Taken
      <4>2. \A c \in Hand(t)' : \A j \in Taken' : j < StepOf(c)'
        BY <1>9, <1>10, <3>1, <4>1 DEF StepOf
      <4> QED
        BY <4>2 DEF Ahead
    <3>2. j \in Int /\ j <= k
      BY <1>3, <1>5 DEF Taken
    <3> QED
      BY <1>num, <3>2
  <2>4. Together(Hand(t))'
    <3>1. ASSUME NEW i \in 1..n, NEW j \in 1..n
          PROVE  /\ i - 1 <= j - 1 => k + i <= k + j
                 /\ k + i < k + j => SameRun(k + i, k + j)'
                 /\ k + i = k + j => i = j
      <4>1. i \in Int /\ j \in Int /\ k \in Int /\ 1 <= i
        BY <1>num
      <4>2. ASSUME k + i < k + j
            PROVE  SameRun(k + i, k + j)
        <5>1. k + j \in Group(k) /\ k + j # k + 1 /\ k + i..k + j \subseteq k + 1..k + j
          BY <1>4, <4>1, <4>2
        <5> QED
          BY <5>1 DEF Group, Place, SameRun
      <4>3. SameRun(k + i, k + j) => \A m \in k + i..k + j : template'[m].type = "parallel"
        BY <1>6 DEF SameRun
      <4> QED
        BY <4>1, <4>2, <4>3 DEF SameRun
    <3>2. ASSUME NEW c \in Hand(t)', NEW d \in Hand(t)'
          PROVE  /\ copy'[c].ordinal <= copy'[d].ordinal => StepOf(c)' <= StepOf(d)'
                 /\ StepOf(c)' < StepOf(d)' => SameRun(StepOf(c), StepOf(d))'
                 /\ StepOf(c)' = StepOf(d)' => c = d
      <4>1. PICK i \in 1..n : c = old + i
        BY <1>10
      <4>2. PICK j \in 1..n : d = old + j
        BY <1>10
      <4>3. /\ StepOf(c)' = k + i /\ copy'[c].ordinal = i - 1
            /\ StepOf(d)' = k + j /\ copy'[d].ordinal = j - 1
        BY <1>9, <4>1, <4>2 DEF StepOf
      <4>4. StepOf(c)' < StepOf(d)' =>
                \A m \in StepOf(c)'..StepOf(d)' : template'[m].type = "parallel"
        BY <3>1, <4>3 DEF SameRun
      <4> QED
        BY <3>1, <4>1, <4>2, <4>3, <4>4 DEF SameRun
    <3> QED
      BY <3>2 DEF Together
  <2>5. faults > 0 \/ Ready(Hand(t), Hand(t))'
    <3>1. ASSUME ~(faults > 0), NEW j \in 1..n, NEW i \in MustSign, i < k + j
          PROVE  i \in signed \/ \E m \in 1..n : i = k + m
      <4>1. i \in Int /\ j \in Int
        BY <1>3, <1>int
      <4>2. CASE i <= k
        BY <1>5, <3>1, <4>2 DEF SignedTo
      <4>3. CASE ~(i <= k)
        <5>1. i - k \in 1..n /\ i = k + (i - k)
          BY <1>num, <1>int, <3>1, <4>1, <4>3
        <5> QED
          BY <5>1
      <4> QED
        BY <4>2, <4>3
    <3>2. MustSign' = MustSign /\ signed' = signed
      BY <1>6 DEF MustSign
    <3>3. ASSUME ~(faults > 0), NEW c \in Hand(t)', NEW i \in MustSign, i < StepOf(c)'
          PROVE  i \in signed \/ \E d \in Hand(t)' : StepOf(d)' = i
      <4>1. PICK j \in 1..n : c = old + j
        BY <1>10
      <4>2. i < k + j
        BY <1>9, <3>3, <4>1 DEF StepOf
      <4>3. CASE i \in signed
        BY <4>3
      <4>4. CASE \E m \in 1..n : i = k + m
        <5>1. PICK m \in 1..n : i = k + m
          BY <4>4
        <5>2. old + m \in Hand(t)' /\ StepOf(old + m)' = i
          BY <1>9, <1>10, <5>1 DEF StepOf
        <5> QED
          BY <5>2
      <4> QED
        BY <3>1, <3>3, <4>2, <4>3, <4>4
    <3> QED
      BY <3>2, <3>3 DEF Ready
  <2>6. built'[t] = <<>> => faults > 0 \/ Done'
    <3>1. SUFFICES ASSUME n = 0, ~(faults > 0)
                   PROVE  Done'
      BY <1>4, <1>10
    <3>2. MustSign \subseteq signed
      BY <1>3, <1>4, <1>5, <3>1 DEF SignedTo
    <3> QED
      BY <1>6, <3>2 DEF Done, MustSign
  <2> QED
    BY <1>f, <1>1, <2>1, <2>2, <2>3, <2>4, <2>5, <2>6 DEF InHand
<1>13. AtWork(t)'
  BY <1>1 DEF AtWork, Clearing
<1> QED
  BY <1>7, <1>8, <1>12, <1>13 DEF Kept

-----------------------------------------------------------------------------
\* The worker has nothing to do, so every step is one of the request.
LEMMA OnlyRequests ==
    ASSUME OneRequest, IInv, VInv, Next
    PROVE  \E t \in Auditors : Start(t) \/ Decision(t) \/ Engine(t)
<1>1. PICK t \in Threads : Start(t) \/ Decision(t) \/ TakeMessage(t) \/ Engine(t)
  BY DEF Next
<1>2. ~TakeMessage(t)
  BY DEF TakeMessage, VInv, WorkerRests
<1>3. CASE t = Worker
  <2>1. ~Start(t) /\ ~Decision(t)
    BY <1>3, WorkerAssumption DEF Start, Decision, Update
  <2>2. ~Engine(t)
    BY <1>3 DEF VInv, WorkerRests, Engine, MoveNext, ClearAndDelete, At, InitSteps,
       AfterUpdate, Lost, HandleNext, Examine, Build, BuildLoses, BuildAllBut, AddStep,
       AllAdded, AddLoses, AddFails, ListSteps, RemoveEdge, DeleteListed, IsEmpty, Finalize
  <2> QED
    BY <1>1, <1>2, <2>1, <2>2
<1>4. CASE t \in Auditors
  BY <1>1, <1>2, <1>4
<1> QED
  BY <1>3, <1>4 DEF Threads

\* And no step gives it anything to do.
LEMMA WorkerStep ==
    ASSUME OneRequest, IInv, VInv, NEW t \in Auditors,
           Start(t) \/ Decision(t) \/ Engine(t)
    PROVE  WorkerRests'
<1>1. /\ t \in Threads /\ t # Worker /\ Worker \in Threads /\ TypeOK
      /\ WorkerRests
  BY Base DEF Threads, IInv, VInv
<1>2. Others(t)
  <2>1. CASE Calm(t)
    BY <2>1 DEF Calm
  <2>2. CASE ~Calm(t)
    BY <1>1, <2>2, CalmSteps, BuildsAll, OnlyOwn DEF Engine, MoveNext, ClearAndDelete
  <2> QED
    BY <2>1, <2>2
<1>3. pc'[Worker] = "idle"
  BY <1>1, <1>2 DEF Others, WorkerRests
<1>4. messages' = messages
  <2>1. CASE AddStep(t)
    <3>1. /\ built[t] \in Seq(1..made) /\ built[t] # <<>>
          /\ \A c \in 1..made : StepOf(c) \in DOMAIN template
          /\ template \in Templates
      BY <2>1, Base DEF AddStep
    <3>2. Head(built[t]) \in 1..made
      BY <3>1, HeadTail
    <3>3. ~template[copy[Head(built[t])].step].monitored
      BY <3>1, <3>2 DEF OneRequest, StepOf
    <3> QED
      BY <2>1, <3>3 DEF AddStep, Monitor
  <2>2. CASE ~AddStep(t)
    <3>1. CASE Calm(t)
      BY <3>1 DEF Calm
    <3>2. CASE ~Calm(t)
      BY <1>1, <2>2, <3>2, CalmSteps
         DEF Engine, MoveNext, ClearAndDelete, Lost, Build, BuildLoses, BuildAllBut,
             AddLoses, AddFails, ListSteps, RemoveEdge, DeleteListed, store
    <3> QED
      BY <3>1, <3>2
  <2> QED
    BY <2>1, <2>2
<1> QED
  BY <1>1, <1>3, <1>4 DEF WorkerRests

\* The copy that a request handles is on the item as long as it is alone.
LEMMA NotLost ==
    ASSUME OneRequest, IInv, VInv, NEW t \in Auditors
    PROVE  ~Lost(t)
  BY Base DEF AtWork, Lost, At

LEMMA InitVerdicts == ASSUME Init PROVE VInv
<1>1. WorkerRests
  BY DEF Init, WorkerRests, Threads
<1>2. ASSUME NEW t \in Auditors
      PROVE  OnItem(t) /\ InHand(t) /\ AtWork(t) /\ Verdict(t)
  <2>1. /\ on = {} /\ live = {} /\ pc[t] = "idle" /\ built[t] = <<>>
        /\ ~item.completed /\ starts = 0 /\ signed = {}
    BY DEF Init, Threads
  <2>2. OnItem(t)
    BY <2>1 DEF OnItem, Together, Ready, Completed, Past, Fresh, Clearing
  <2>3. InHand(t)
    BY <2>1 DEF InHand, Sorted, Hand, Elements, Fresh, Ahead, Together, Ready, Clearing
  <2>4. AtWork(t)
    BY <2>1 DEF AtWork, Clearing
  <2>5. Verdict(t)
    BY <2>1 DEF Verdict, ApprovedUnlessFaults, ApprovedByAll, DisapprovedByAuditor, InOrder
  <2> QED
    BY <2>2, <2>3, <2>4, <2>5
<1> QED
  BY <1>1, <1>2 DEF VInv, Verdicts

LEMMA VerdictStep ==
    ASSUME OneRequest, IInv, VInv, [Next]_vars
    PROVE  VInv'
<1>1. CASE UNCHANGED vars
  BY <1>1 DEF vars, store, locals, history, VInv, WorkerRests, Verdicts, OnItem, InHand, AtWork,
     Verdict, GivenUp, Clearing, Done, SignedTo, Taken, Together, Ready, AllSigned, Completed,
     Fresh, Below, Sorted, Past, Ahead, Refused, Hand, Elements, StepOf, MustSign, SameRun,
     StartedOnce, ApprovedUnlessFaults, ApprovedByAll, DisapprovedByAuditor, InOrder, Watched
<1>2. CASE Next
  <2>1. PICK t \in Auditors : Start(t) \/ Decision(t) \/ Engine(t)
    BY <1>2, OnlyRequests
  <2>2. TypeOK'
    BY TypeStep
  <2>3. Kept(t)'
    <3>1. CASE Start(t)
      BY <2>2, <3>1, StartVerdict
    <3>2. CASE Decision(t)
      BY <2>2, <3>2, UpdateVerdict DEF Decision
    <3>3. CASE Engine(t)
      BY <2>2, <3>3, NotLost, InitStepsVerdict, AfterUpdateVerdict, HandleNextVerdict,
         ExamineVerdict, BuildsAll, BuildVerdict, AddStepVerdict, AllAddedVerdict,
         AddLosesVerdict, AddFailsVerdict, ListStepsVerdict, RemoveEdgeVerdict, DeleteListedVerdict,
         IsEmptyVerdict, FinalizeVerdict DEF Engine, MoveNext, ClearAndDelete
    <3> QED
      BY <2>1, <3>1, <3>2, <3>3
  <2>4. \A u \in Auditors : u = t
    BY DEF OneRequest
  <2>5. Verdicts'
    BY <2>3, <2>4 DEF Verdicts, Kept
  <2> QED
    BY <2>1, <2>5, WorkerStep DEF VInv
<1> QED
  BY <1>1, <1>2

LEMMA AlwaysVerdicts == ASSUME OneRequest PROVE Spec => [](IInv /\ VInv)
<1>1. IInv /\ VInv /\ [Next]_vars => VInv'
  BY VerdictStep
<1> QED
  BY <1>1, Inductive, InitVerdicts, PTL DEF Spec

-----------------------------------------------------------------------------
\* An item that is approved was approved by the auditors of every step that
\* needs it, as long as the store saves what moveNext() gives it: for requests
\* one by one, and every workflow without an expire action.
THEOREM Approved == ASSUME OneRequest PROVE Spec => []ApprovedUnlessFaults
<1>1. VInv => ApprovedUnlessFaults
  BY DEF VInv, Verdicts, Verdict, OneRequest
<1> QED
  BY <1>1, AlwaysVerdicts, PTL

\* moveNext(): the item goes through the steps in order, as long as the store
\* saves what moveNext() gives it.
THEOREM Ordered == ASSUME OneRequest PROVE Spec => []InOrder
<1>1. VInv => InOrder
  BY DEF VInv, Verdicts, Verdict, OneRequest
<1> QED
  BY <1>1, AlwaysVerdicts, PTL

\* finalize(): no verdict while the item is on a step that is in the store.
THEOREM Undecided == ASSUME OneRequest PROVE Spec => []OpenUntilDecided
<1>1. VInv => OpenUntilDecided
  BY DEF VInv, Verdicts, Verdict, OneRequest, OpenUntilDecided
<1> QED
  BY <1>1, AlwaysVerdicts, PTL

\* handleApproved(): it takes an auditor to disapprove an item, whatever the
\* store loses.
THEOREM Disapproved == ASSUME OneRequest PROVE Spec => []DisapprovedByAuditor
<1>1. VInv => DisapprovedByAuditor
  BY DEF VInv, Verdicts, Verdict, OneRequest
<1> QED
  BY <1>1, AlwaysVerdicts, PTL

\* finalize(item, false) is the last word.
THEOREM Stands == ASSUME OneRequest PROVE Spec => DisapprovalStands
<1>1. IInv /\ VInv /\ [Next]_vars =>
          [item.completed /\ ~item.approved /\ StartedOnce' =>
               ~item'.approved \/ Watched]_vars
  <2>1. SUFFICES ASSUME IInv, VInv, Next, item.completed, ~item.approved, StartedOnce'
                 PROVE  ~item'.approved
    OBVIOUS
  <2>2. PICK t \in Auditors : Start(t) \/ Decision(t) \/ Engine(t)
    BY <2>1, OnlyRequests
  <2>3. CASE Finalize(t)
    <3>1. pc[t] \in {"approve", "disapprove"} /\ starts' = starts
      BY <2>3 DEF Finalize, At, history
    <3>2. ~StartedOnce
      BY <2>1, <3>1, Busy
    <3> QED
      BY <2>1, <3>1, <3>2 DEF StartedOnce
  <2>4. CASE ~Finalize(t)
    <3>1. item' = item
      BY <2>2, <2>4
         DEF Start, Decision, Update, Engine, MoveNext, ClearAndDelete, InitSteps, AfterUpdate,
             Lost, HandleNext, Examine, Build, BuildLoses, BuildAllBut, AddStep, AllAdded,
             AddLoses, AddFails, ListSteps, RemoveEdge, DeleteListed, IsEmpty, store
    <3> QED
      BY <2>1, <3>1
  <2> QED
    BY <2>3, <2>4
<1> QED
  BY <1>1, AlwaysVerdicts, PTL DEF Spec, DisapprovalStands

\* moveNext(): a sequential step is not put before its auditors again.
THEOREM Once == ASSUME OneRequest PROVE Spec => SequentialOnce
<1>1. IInv /\ VInv /\ [Next]_vars =>
          [\A c \in on' \ on : template[copy[c].step].type = "sequential"
                                    => copy[c].step \notin signed]_vars
  <2>1. SUFFICES ASSUME IInv, VInv, Next, NEW c \in on' \ on,
                        template[copy[c].step].type = "sequential"
                 PROVE  copy[c].step \notin signed
    OBVIOUS
  <2>2. PICK t \in Auditors : Start(t) \/ Decision(t) \/ Engine(t)
    BY <2>1, OnlyRequests
  <2>3. AddStep(t)
    BY <2>1, <2>2
       DEF Start, Decision, Update, Engine, MoveNext, ClearAndDelete, InitSteps, AfterUpdate,
           Lost, HandleNext, Examine, Build, BuildLoses, BuildAllBut, AllAdded, AddLoses,
           AddFails, ListSteps, RemoveEdge, DeleteListed, IsEmpty, Finalize, store
  <2>4. c = Head(built[t]) /\ built[t] # <<>> /\ pc[t] = "add"
    BY <2>1, <2>3 DEF AddStep, At
  <2>5. /\ Ahead(Hand(t)) /\ built[t] \in Seq(1..made)
        /\ \A d \in 1..made : StepOf(d) \in 1..Len(template)
    BY <2>1, Base DEF InHand
  <2>6. c \in Hand(t) /\ c \in 1..made
    BY <2>4, <2>5, HeadTail DEF Hand
  <2>7. copy[c].step \in Taken => copy[c].step < copy[c].step
    BY <2>5, <2>6 DEF Ahead, StepOf
  <2>8. copy[c].step \in Int
    BY <2>5, <2>6 DEF StepOf
  <2> QED
    BY <2>1, <2>7, <2>8 DEF Taken
<1> QED
  BY <1>1, AlwaysVerdicts, PTL DEF Spec, SequentialOnce
=============================================================================
