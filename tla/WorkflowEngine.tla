--------------------------- MODULE WorkflowEngine ---------------------------
(***************************************************************************)
(* One workflow item on its way through a workflow.  The workflow is a     *)
(* sequence of steps, each sequential or parallel; the item is on one      *)
(* sequential step or on a run of parallel ones, of which it gets copies.  *)
(* An auditor saves such a copy with a decision, and the update handler of *)
(* the copy moves the item on, in the thread of the auditor's request.     *)
(* The WorkflowWorker calls the same code for copies that have an expire   *)
(* action.                                                                 *)
(*                                                                         *)
(* Nothing in the engine is locked: a step of a thread is one query or one *)
(* write of the store, and the steps of different threads interleave.      *)
(***************************************************************************)
EXTENDS Integers, Sequences, FiniteSets

CONSTANTS Auditors,     \* the threads of the requests that change the item
          Worker,       \* the listener thread of the WorkflowWorker
          Templates,    \* the workflows the item may be given
          MaxCopies,    \* how many copies of steps are made (bound)
          MaxStarts,    \* how often the item is given its workflow (bound)
          Restarted,    \* the workflows given again before that (bound)
          Completions,  \* the values of "completed" that updates carry
          MaxFaults     \* how often the store loses what moveNext() saves (bound)

ASSUME WorkerAssumption == Worker \notin Auditors
ASSUME BoundsAssumption ==
    MaxCopies \in Nat /\ MaxStarts \in Nat /\ MaxFaults \in Nat
ASSUME CompletionsAssumption == Completions \subseteq BOOLEAN

StepKinds == [type : {"sequential", "parallel"},
              action : {"approve", "notify", "review"},
              monitored : BOOLEAN]      \* does it have an expire action?

ASSUME TemplatesAssumption == Templates \subseteq Seq(StepKinds)

Threads == Auditors \cup {Worker}
Copies == 1..MaxCopies
None == 0               \* no copy; also the place before the first step

VARIABLES
    template,   \* Workflow.steps
    on,         \* WorkflowItem.steps: the copies the item is on
    live,       \* the copies that are in the store
    copy,       \* the fields of each copy
    made,       \* how many copies were made; each gets a new ID
    item,       \* WorkflowItem.approved and .completed
    messages,   \* the WorkflowWorker's queue: copies to look after
    pc,
    at,         \* the copy a thread handles; None while it starts the item
    after,      \* the step of the template it moves on from
    built,      \* copies it made and did not add yet
    listed,     \* copies clearAndDelete() found
    then,       \* where it goes on after clearAndDelete()
    signed,     \* history: steps approved since the item was started
    rejected,   \* history: steps disapproved since then
    starts,     \* how often the item was given a workflow
    faults      \* how often copies or an edge were lost

store == <<template, on, live, copy, made, item, messages>>
locals == <<at, after, built, listed, then>>
history == <<signed, rejected, starts, faults>>
vars == <<store, pc, locals, history>>

NoCopy == [step |-> None, ordinal |-> 0, approved |-> FALSE, completed |-> FALSE]

Init ==
    /\ template \in Templates
    /\ on = {} /\ live = {}
    /\ copy = [c \in Copies |-> NoCopy]
    /\ made = 0
    /\ item = [approved |-> FALSE, completed |-> FALSE]
    /\ messages = <<>>
    /\ pc = [t \in Threads |-> "idle"]
    /\ at = [t \in Threads |-> None]
    /\ after = [t \in Threads |-> None]
    /\ built = [t \in Threads |-> <<>>]
    /\ listed = [t \in Threads |-> {}]
    /\ then = [t \in Threads |-> "idle"]
    /\ signed = {} /\ rejected = {} /\ starts = 0 /\ faults = 0

Goto(t, label) == pc' = [pc EXCEPT ![t] = label]
At(t, label) == t \in Threads /\ pc[t] = label

\* The copies of the steps of the item, in the order of their ordinals.
Firsts(S) == {c \in S : \A d \in S : copy[c].ordinal <= copy[d].ordinal}

Elements(s) == {s[i] : i \in DOMAIN s}
-----------------------------------------------------------------------------
\* A request gives the item a workflow, and WorkflowItem.afterEdgeUpdate()
\* starts it: the copies of an earlier start are deleted first.
Start(t) ==
    /\ t \in Auditors /\ At(t, "idle")
    /\ starts < MaxStarts /\ (starts > 0 => template \in Restarted)
    /\ starts' = starts + 1
    /\ signed' = {} /\ rejected' = {}
    /\ at' = [at EXCEPT ![t] = None]
    /\ IF on = {} THEN Goto(t, "examine") /\ UNCHANGED then
                  ELSE Goto(t, "list") /\ then' = [then EXCEPT ![t] = "init"]
    /\ UNCHANGED <<store, after, built, listed, faults>>

\* The item is initialised if it has no steps by now.
InitSteps(t) ==
    /\ At(t, "init")
    /\ Goto(t, IF on = {} THEN "examine" ELSE "idle")
    /\ UNCHANGED <<store, locals, history>>

\* A request saves a copy with the fields approved and completed it came with.
Update(t, c, approved, completed) ==
    /\ t \in Auditors /\ At(t, "idle")
    /\ c \in live
    /\ copy' = [copy EXCEPT ![c] =
                   [step |-> copy[c].step, ordinal |-> copy[c].ordinal,
                    approved |-> approved, completed |-> completed]]
    /\ at' = [at EXCEPT ![t] = c]
    /\ LET step == copy[c].step
           decides == c \in on /\ template[step].action = "approve"
       IN  /\ signed' = IF decides /\ approved THEN signed \cup {step} ELSE signed
           /\ rejected' = IF decides /\ ~approved THEN rejected \cup {step}
                                                 ELSE rejected
    /\ Goto(t, "saved")
    /\ UNCHANGED <<template, on, live, made, item, messages, after, built, listed, then,
                   starts, faults>>

\* The thread has nothing more to do for its copy.
Return(t) ==
    /\ Goto(t, "idle")
    /\ at' = [at EXCEPT ![t] = None]

\* WorkflowStep.afterUpdate() asks whether the copy is on an item.
AfterUpdate(t) ==
    /\ At(t, "saved")
    /\ IF at[t] \in on THEN Goto(t, "next") /\ UNCHANGED at ELSE Return(t)
    /\ UNCHANGED <<store, after, built, listed, then, history>>

\* WorkflowWorker.doWork(): the copy of the first message is handled like a
\* decision; a message that was read again from the index may have lost it.
TakeMessage(t) ==
    /\ t = Worker /\ At(t, "idle")
    /\ messages # <<>>
    /\ messages' = Tail(messages)
    /\ \/ at' = [at EXCEPT ![t] = Head(messages)] /\ Goto(t, "next")
       \/ UNCHANGED <<at, pc>>
    /\ UNCHANGED <<template, on, live, copy, made, item, after, built, listed, then, history>>

\* next(): a copy that is not on the item any more is deleted.
Lost(t) ==
    /\ At(t, "next")
    /\ at[t] \notin on
    /\ live' = live \ {at[t]}
    /\ Return(t)
    /\ UNCHANGED <<template, on, copy, made, item, messages, after, built, listed, then, history>>

FieldOfItem(c) == item.approved           \* mutant: the wrong object

IsApproved(c) == copy[c].approved

ClearNever(label) == label     \* mutant: the steps are kept

\* finalize() clears the steps before it stores the verdict.
ClearFirst(label) == "list"

\* next() and handleApproved(); handleNotify() and handleReview() are empty.
HandleNext(t) ==
    /\ At(t, "next")
    /\ at[t] \in on
    /\ LET approves == template[copy[at[t]].step].action = "approve"
       IN  \/ ~approves /\ Return(t) /\ UNCHANGED then
           \/ approves /\ IsApproved(at[t])
              /\ Goto(t, "examine") /\ UNCHANGED <<at, then>>
           \/ approves /\ ~IsApproved(at[t])
              /\ Goto(t, ClearFirst("disapprove"))
              /\ then' = [then EXCEPT ![t] = "disapprove"]
              /\ UNCHANGED at
    /\ UNCHANGED <<store, after, built, listed, history>>

AlwaysIdle(t) == "idle"     \* mutant: nobody looks for the last approval

\* Where moveNext() returns to: handleApproved() or start().
Moved(t) == IF at[t] = None THEN "idle" ELSE "isEmpty"

AnyCompleted == \E c \in on : copy[c].completed    \* mutant: one is enough

AllCompleted == \A c \in on : c \in live /\ copy[c].completed

\* moveNext(): of several steps all must be completed, and the engine goes on
\* from the one that getAt(size - 1) returns.  That iterates from the first
\* element with a limit of size - 1, so it is the first one.  The loop finds null
\* for a step that was not saved, and next() or start() catches the exception.
Examine(t) ==
    /\ At(t, "examine")
    /\ \/ /\ Cardinality(on) > 1 /\ ~AllCompleted
          /\ \E c \in Firsts({d \in on : d \notin live \/ ~copy[d].completed}) :
                IF c \in live THEN Goto(t, Moved(t)) /\ UNCHANGED at ELSE Return(t)
          /\ UNCHANGED after
       \/ /\ Cardinality(on) > 1 /\ AllCompleted
          /\ \E c \in Firsts(on) : after' = [after EXCEPT ![t] = copy[c].step]
          /\ Goto(t, "build") /\ UNCHANGED at
       \/ /\ Cardinality(on) <= 1
          /\ after' = [after EXCEPT ![t] =
                          IF at[t] = None THEN None ELSE copy[at[t]].step]
          /\ Goto(t, "build") /\ UNCHANGED at
    /\ UNCHANGED <<store, built, listed, then, history>>

SkipsOne(k) == k + 2                        \* mutant
Stays(k) == IF k = None THEN 1 ELSE k       \* mutant

\* The place of the step that follows step k: "found" is set by step k.
Place(k) == k + 1

\* The steps after step k: one sequential step, or a run of parallel ones.
Group(k) ==
    {i \in DOMAIN template :
        /\ i >= Place(k)
        /\ \/ i = Place(k)
           \/ \A j \in Place(k)..i : template[j].type = "parallel"}

\* The first n steps after k are copied, and the copies saved but for the lost.
Make(k, n, lost) ==
    /\ made + n <= MaxCopies
    /\ made' = made + n
    /\ live' = live \cup (made + 1..made + n \ lost)
    /\ copy' = [c \in Copies |->
                  IF c \in made + 1..made + n
                  THEN [step |-> Place(k) + c - made - 1, ordinal |-> c - made - 1,
                        approved |-> FALSE, completed |-> FALSE]
                  ELSE copy[c]]

\* moveNext() saves the copies of the next steps before it removes the old.
BuildAllBut(t, lost) ==
    /\ At(t, "build")
    /\ LET n == Cardinality(Group(after[t]))
       IN  /\ lost \subseteq made + 1..made + n
           /\ Make(after[t], n, lost)
           /\ built' = [built EXCEPT ![t] = [i \in 1..n |-> made + i]]
    /\ Goto(t, "list")
    /\ then' = [then EXCEPT ![t] = "add"]
    /\ after' = [after EXCEPT ![t] = None]
    /\ UNCHANGED <<template, on, item, messages, at, listed, signed, rejected, starts>>

Build(t) == BuildAllBut(t, {}) /\ UNCHANGED faults

\* An insert that fails does not throw, and nobody looks at what save() returns:
\* the copy has its ID and goes on like the others.
BuildLoses(t) ==
    /\ faults < MaxFaults /\ faults' = faults + 1
    /\ \E lost \in SUBSET Copies : lost # {} /\ BuildAllBut(t, lost)
-----------------------------------------------------------------------------
\* clearAndDelete(): list the steps, remove their edges one by one, then
\* delete the listed copies.  A step that was not saved is null in the list, and
\* its edge stays.
ListSteps(t) ==
    /\ At(t, "list")
    /\ listed' = [listed EXCEPT ![t] = on \cap live]
    /\ Goto(t, "remove")
    /\ UNCHANGED <<store, at, after, built, then, history>>

RemoveEdge(t) ==
    /\ At(t, "remove")
    /\ \E c \in Firsts(listed[t] \cap on) : on' = on \ {c}
    /\ UNCHANGED <<template, live, copy, made, item, messages, pc, locals, history>>

NoWait(t) == TRUE            \* mutant: the edges are kept

Edgeless(t) == listed[t] \cap on = {}

FirstOnly(t) == Firsts(listed[t])     \* mutant: the others are kept

Deletable(t) == listed[t]

DeleteListed(t) ==
    /\ At(t, "remove")
    /\ Edgeless(t)
    /\ live' = live \ Deletable(t)
    /\ listed' = [listed EXCEPT ![t] = {}]
    /\ Goto(t, then[t])
    /\ then' = [then EXCEPT ![t] = "idle"]
    /\ UNCHANGED <<template, on, copy, made, item, messages, at, after, built, history>>

\* monitor(): a message for a step that has an expire action.
Monitor(c) ==
    messages' = IF template[copy[c].step].monitored THEN Append(messages, c)
                                                    ELSE messages

AddStep(t) ==
    /\ At(t, "add")
    /\ built[t] # <<>>
    /\ on' = on \cup {Head(built[t])}
    /\ Monitor(Head(built[t]))
    /\ built' = [built EXCEPT ![t] = Tail(built[t])]
    /\ UNCHANGED <<template, live, copy, made, item, pc, at, after, listed, then, history>>

AllAdded(t) ==
    /\ At(t, "add")
    /\ built[t] = <<>>
    /\ Goto(t, Moved(t))
    /\ UNCHANGED <<store, locals, history>>

\* An edge whose insert fails has an ID all the same: add() returns TRUE, and the
\* loop goes on.  The copy has no parent, and monitor() makes no message.
AddLoses(t) ==
    /\ faults < MaxFaults /\ faults' = faults + 1
    /\ At(t, "add")
    /\ built[t] # <<>>
    /\ built' = [built EXCEPT ![t] = Tail(built[t])]
    /\ UNCHANGED <<store, pc, at, after, listed, then, signed, rejected, starts>>

\* add() caught an exception and returns FALSE: moveNext() throws one of its own
\* and catches it, and the copies that are left stay in the store.
AddFails(t) ==
    /\ faults < MaxFaults /\ faults' = faults + 1
    /\ At(t, "add")
    /\ built[t] # <<>>
    /\ built' = [built EXCEPT ![t] = <<>>]
    /\ Goto(t, Moved(t))
    /\ UNCHANGED <<store, at, after, listed, then, signed, rejected, starts>>

\* handleApproved(): an item without steps has been approved.
IsEmpty(t) ==
    /\ At(t, "isEmpty")
    /\ IF on = {}
       THEN Goto(t, "list") /\ then' = [then EXCEPT ![t] = "approve"] /\ UNCHANGED at
       ELSE Return(t) /\ UNCHANGED then
    /\ UNCHANGED <<store, after, built, listed, history>>

\* finalize(), after it has cleared the steps.
Finalize(t) ==
    /\ \/ At(t, "approve") \/ At(t, "disapprove")
    /\ item' = [approved |-> At(t, "approve"), completed |-> TRUE]
    /\ Return(t)
    /\ UNCHANGED <<template, on, live, copy, made, messages, after, built, listed, then, history>>
-----------------------------------------------------------------------------
MoveNext(t) ==
    \/ Examine(t) \/ Build(t) \/ BuildLoses(t)
    \/ AddStep(t) \/ AllAdded(t) \/ AddLoses(t) \/ AddFails(t)

ClearAndDelete(t) == ListSteps(t) \/ RemoveEdge(t) \/ DeleteListed(t)

Engine(t) ==
    \/ InitSteps(t) \/ AfterUpdate(t) \/ Lost(t) \/ HandleNext(t) \/ MoveNext(t)
    \/ ClearAndDelete(t) \/ IsEmpty(t) \/ Finalize(t)

Decision(t) ==
    \E c \in Copies, approved \in BOOLEAN, completed \in Completions :
        Update(t, c, approved, completed)

Next == \E t \in Threads : Start(t) \/ Decision(t) \/ TakeMessage(t) \/ Engine(t)

Spec == Init /\ [][Next]_vars

\* A request runs to its end, and whoever has a step before him decides.
FairSpec ==
    /\ Spec
    /\ \A t \in Threads : WF_vars(Engine(t))
    /\ \A t \in Auditors, c \in Copies :
          SF_vars(c \in on /\ ~copy[c].completed /\ Update(t, c, TRUE, TRUE))
-----------------------------------------------------------------------------
PCs == {"idle", "init", "saved", "next", "examine", "build", "list", "remove",
        "add", "isEmpty", "approve", "disapprove"}

\* The types, and that the item is only on copies that are in the store, unless
\* one was not saved.
TypeOK ==
    /\ template \in Templates
    /\ on \subseteq Copies /\ live \subseteq Copies
    /\ faults = 0 => on \subseteq live
    /\ copy \in [Copies -> [step : 0..Len(template), ordinal : Nat,
                            approved : BOOLEAN, completed : BOOLEAN]]
    /\ made \in 0..MaxCopies
    /\ item \in [approved : BOOLEAN, completed : BOOLEAN]
    /\ messages \in Seq(Copies)
    /\ pc \in [Threads -> PCs]
    /\ at \in [Threads -> Copies \cup {None}]
    /\ after \in [Threads -> 0..Len(template)]
    /\ built \in [Threads -> Seq(Copies)]
    /\ listed \in [Threads -> SUBSET Copies]
    /\ then \in [Threads -> {"idle", "init", "add", "approve", "disapprove"}]
    /\ signed \cup rejected \subseteq DOMAIN template
    /\ starts \in 0..MaxStarts
    /\ faults \in 0..MaxFaults

\* The steps whose auditors have to approve.
MustSign == {i \in DOMAIN template : template[i].action = "approve"}

\* finalize(item, true): an item is approved only if the auditors of every
\* step that needs an approval gave it since the workflow was started.
ApprovedByAll == item.completed /\ item.approved => MustSign \subseteq signed

\* Does the WorkflowWorker get a say?  Its decisions are nobody's.
Watched == \E i \in DOMAIN template : template[i].monitored

\* start() resets neither the verdict nor the requests that are under way: what
\* follows is stated for an item that was given one workflow.
StartedOnce == starts <= 1

\* The same, as long as the store saves what moveNext() gives it.
ApprovedUnlessFaults == StartedOnce /\ faults = 0 => ApprovedByAll

SameRun(i, j) == \A k \in i..j : template[k].type = "parallel"

\* moveNext(): an item gets to a step only when the auditors of every step
\* before it have approved, other than those it is in parallel with, unless the
\* store lost one of them.
InOrder ==
    StartedOnce /\ faults = 0 => \A c \in on : \A i \in MustSign :
        i < copy[c].step /\ ~SameRun(i, copy[c].step) => i \in signed

\* finalize(): an item that is still on a step has no verdict yet (other than a
\* step that was not saved: its edge is never removed).
OpenUntilDecided == StartedOnce /\ on \cap live # {} => ~item.completed

\* handleApproved(): a disapproved item was disapproved by an auditor, unless
\* the worker looks after one of its steps.
DisapprovedByAuditor ==
    StartedOnce /\ item.completed /\ ~item.approved => rejected # {} \/ Watched

\* finalize(item, false) is the last word until the workflow is started again,
\* unless the worker gave it: an auditor may be on his way to approve.
DisapprovalStands ==
    [][item.completed /\ ~item.approved /\ StartedOnce' =>
          ~item'.approved \/ Watched]_vars

\* moveNext(): a sequential step that its auditors approved is not put before
\* them again.  (Parallel steps are: getAt(size - 1) is the first of them.)
SequentialOnce ==
    [][\A c \in on' \ on : template[copy[c].step].type = "sequential"
                              => copy[c].step \notin signed]_vars

Quiet == \A t \in Threads : pc[t] = "idle"

\* clearAndDelete(): a copy is on the item, or in the hands of a request that
\* is still being handled, or deleted; none is lost in the store.
NoOrphans == Quiet /\ faults = 0 => live = on

\* An auditor may take "completed" back, but does not do so for ever.
Draft == \E c \in on : copy[c].approved /\ ~copy[c].completed

\* An item that is started gets its verdict if everybody decides, all its
\* steps are approvals, and the store does not fail.
WorkflowEnds ==
    <>[]~Draft =>
        (starts > 0 /\ template # <<>> /\ MustSign = DOMAIN template
            ~> item.completed \/ faults > 0)
=============================================================================
