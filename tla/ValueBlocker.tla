---------------------------- MODULE ValueBlocker ----------------------------
(***************************************************************************)
(* ValueBlocker, a queue of IDs for every value, and its only user,        *)
(* Website.getOrCreate(): it looks for the Website of an address, and when *)
(* there is none it waits for its turn at the address, looks again and     *)
(* makes one.                                                              *)
(*                                                                         *)
(* The queues change only inside the monitor of addOrRemove(), but a       *)
(* waiting thread reads them without it.  The HashMap shows an absent key  *)
(* while another thread's put makes it grow: isNext() takes that for "not  *)
(* next", or fails and puts the waiting ID in the queue a second time.     *)
(* After 30 seconds block() takes its ID out of the queue and returns.     *)
(***************************************************************************)
EXTENDS Naturals, Sequences, FiniteSets, SequencesExt

CONSTANTS Threads,      \* threads that ask for Websites
          Values,       \* the addresses they ask for
          NoValue,      \* a thread that asks for none
          MaxCalls,     \* how many calls of block() there are (bound)
          MaxMisses     \* how often an ID is queued again (bound)

ASSUME NoValueAssumption == NoValue \notin Values
ASSUME BoundsAssumption == MaxCalls \in Nat /\ MaxMisses \in Nat

VARIABLES
    queue,      \* ValueBlocker.queue; <<>> for a value that is not a key
    pc,
    value,      \* the address a thread asks for
    ticket,     \* the ID of its call of block(); 0 before it has one
    calls,      \* how many IDs were made
    sites,      \* how many Websites of each address are stored
    visible,    \* does a search find one of them?
    late,       \* history: threads that go on without having had their turn
    again,      \* history: IDs that were queued again
    excused     \* history: addresses somebody went on for without his turn,
                \* or whose Website was stored without an answer, or for
                \* which the search in make() failed

blocker == <<queue, ticket, calls>>
store == <<sites, visible>>
history == <<late, again, excused>>
vars == <<blocker, pc, value, store, history>>

Tickets == Nat \ {0}

\* Between block() and the end of unblock().
Inside == {"query", "make", "leave"}

\* In block(), with an ID.
Waiting == {"wait", "quit"}

PCs == {"idle", "add", "adding"} \cup Inside \cup Waiting

Init ==
    /\ queue = [v \in Values |-> <<>>]
    /\ pc = [t \in Threads |-> "idle"]
    /\ value = [t \in Threads |-> NoValue]
    /\ ticket = [t \in Threads |-> 0]
    /\ calls = 0
    /\ sites = [v \in Values |-> 0]
    /\ visible = [v \in Values |-> FALSE]
    /\ late = {} /\ again = {} /\ excused = {}

At(t, label) == pc[t] = label
Goto(t, label) == pc' = [pc EXCEPT ![t] = label]

-----------------------------------------------------------------------------
\* The calls that may still need an ID.
Pending == {t \in Threads : pc[t] \in {"add", "adding"} /\ ticket[t] = 0}

\* Website.getOrCreate(uriValue): it returns what a first search finds, and
\* calls make() if that is nothing, because the search failed perhaps.
GetOrCreate(t, v) ==
    /\ At(t, "idle")
    /\ calls + Cardinality(Pending) < MaxCalls
    /\ Goto(t, "add")
    /\ value' = [value EXCEPT ![t] = v]
    /\ UNCHANGED <<blocker, store, history>>

\* The monitor of addOrRemove().  Other threads can read what it changes when
\* an ID is added, which takes two steps; a removal is one for them.
MonitorFree == \A u \in Threads : pc[u] # "adding"

EnterAdd(t) ==
    /\ At(t, "add")
    /\ MonitorFree
    /\ Goto(t, "adding")
    /\ UNCHANGED <<blocker, value, store, history>>

\* mutant: put right behind the first ID
SecondInLine(s, k) == IF s = <<>> THEN <<k>> ELSE <<Head(s), k>> \o Tail(s)
LastInLine(s, k) == Append(s, k)

Unmade(t) == ticket[t]              \* mutant: queued before it is made

\* The ID is new, unless isNext() adds it again.
IdOf(t) == IF ticket[t] = 0 THEN calls + 1 ELSE ticket[t]

Add(t) ==
    /\ At(t, "adding")
    /\ queue' = [queue EXCEPT ![value[t]] = LastInLine(@, IdOf(t))]
    /\ ticket' = [ticket EXCEPT ![t] = IdOf(t)]
    /\ calls' = IF ticket[t] = 0 THEN calls + 1 ELSE calls
    /\ again' = IF ticket[t] = 0 THEN again ELSE again \cup {ticket[t]}
    /\ Goto(t, "wait")
    /\ UNCHANGED <<value, store, late, excused>>

\* The head of the collection is the ID.  Until it is, isNext() returns FALSE
\* and block() asks again.
AnyoneIsNext(s, k) == s # <<>>      \* mutant: anybody is next
IsNext(s, k) == s # <<>> /\ Head(s) = k

TakeTurn(t) ==
    /\ At(t, "wait")
    /\ IsNext(queue[value[t]], ticket[t])
    /\ Goto(t, "query")
    /\ UNCHANGED <<blocker, value, store, history>>

\* Another thread puts a key that was absent, and the map may grow.
Growing(t) ==
    \E u \in Threads \ {t} : At(u, "adding") /\ queue[value[u]] = <<>>

\* isNext(): get() does not find the key that containsKey() found, and
\* CollectionUtils.get() throws; when the catch block does not find the key
\* either, the ID is added again.  (If it does, isNext() returns FALSE.)
QueueAgain(t) ==
    /\ At(t, "wait")
    /\ Growing(t)
    /\ Cardinality(again) < MaxMisses
    /\ Goto(t, "add")
    /\ UNCHANGED <<blocker, value, store, history>>

\* 30 seconds have passed while isNext() returned FALSE.
TimeOut(t) ==
    /\ At(t, "wait")
    /\ Goto(t, "quit")
    /\ UNCHANGED <<blocker, value, store, history>>

Same(s, k) == s         \* mutant: the ID stays
Clear(s, k) == <<>>     \* mutant: the key goes

\* working.remove(uuid): the first occurrence.
Without(s, k) == RemoveFirst(s, k)

\* block() returns an ID that is in no queue any more.
Quit(t) ==
    /\ At(t, "quit")
    /\ MonitorFree
    /\ queue' = [queue EXCEPT ![value[t]] = Without(@, ticket[t])]
    /\ late' = late \cup {t}
    /\ excused' = excused \cup {value[t]}
    /\ Goto(t, "query")
    /\ UNCHANGED <<value, ticket, calls, store, again>>
-----------------------------------------------------------------------------
MakesAnyway(v) == TRUE      \* mutant: make() does not look again
Makes(v) == ~visible[v]

\* Website.make() looks again ...
Query(t) ==
    /\ At(t, "query")
    /\ Goto(t, IF Makes(value[t]) THEN "make" ELSE "leave")
    /\ UNCHANGED <<blocker, value, store, history>>

\* ... and a search that fails finds nothing, without an exception ...
SearchFails(t) ==
    /\ At(t, "query")
    /\ visible[value[t]]
    /\ Goto(t, "make")
    /\ excused' = excused \cup {value[t]}
    /\ UNCHANGED <<blocker, value, store, late, again>>

\* ... and saves a new Website, which the answered request makes visible.  An
\* exception is ignored; the document may be stored all the same.
Make(t) ==
    /\ At(t, "make")
    /\ \/ /\ sites' = [sites EXCEPT ![value[t]] = @ + 1]
          /\ visible' = [visible EXCEPT ![value[t]] = TRUE]
          /\ UNCHANGED excused
       \/ /\ sites' = [sites EXCEPT ![value[t]] = @ + 1]
          /\ excused' = excused \cup {value[t]}
          /\ UNCHANGED visible
       \/ UNCHANGED <<store, excused>>
    /\ Goto(t, "leave")
    /\ UNCHANGED <<blocker, value, late, again>>

\* unblock() in the finally block.
Unblock(t) ==
    /\ At(t, "leave")
    /\ MonitorFree
    /\ queue' = [queue EXCEPT ![value[t]] = Without(@, ticket[t])]
    /\ ticket' = [ticket EXCEPT ![t] = 0]
    /\ late' = late \ {t}
    /\ Goto(t, "idle")
    /\ value' = [value EXCEPT ![t] = NoValue]
    /\ UNCHANGED <<calls, store, again, excused>>

\* The index is refreshed by itself.
Refresh(v) ==
    /\ sites[v] > 0 /\ ~visible[v]
    /\ visible' = [visible EXCEPT ![v] = TRUE]
    /\ UNCHANGED <<blocker, pc, value, sites, history>>
-----------------------------------------------------------------------------
Step(t) ==
    \/ EnterAdd(t) \/ Add(t) \/ TakeTurn(t) \/ Quit(t)
    \/ Query(t) \/ Make(t) \/ Unblock(t)

Hazard(t) == QueueAgain(t) \/ TimeOut(t) \/ SearchFails(t)

Next ==
    \/ \E t \in Threads :
          (\E v \in Values : GetOrCreate(t, v)) \/ Step(t) \/ Hazard(t)
    \/ \E v \in Values : Refresh(v)

Spec == Init /\ [][Next]_vars

(***************************************************************************)
(* Fairness.  A thread keeps running, and gets the monitor when it is free *)
(* often enough.  That a waiting thread ever times out is not assumed.     *)
(***************************************************************************)
FairSpec == Spec /\ \A t \in Threads : SF_vars(Step(t))
-----------------------------------------------------------------------------
\* Type invariant.
TypeOK ==
    /\ queue \in [Values -> Seq(Tickets)]
    /\ pc \in [Threads -> PCs]
    /\ value \in [Threads -> Values \cup {NoValue}]
    /\ ticket \in [Threads -> Nat]
    /\ calls \in Nat
    /\ sites \in [Values -> Nat]
    /\ visible \in [Values -> BOOLEAN]
    /\ late \subseteq Threads
    /\ again \subseteq Tickets
    /\ excused \subseteq Values

\* It is the turn of a thread that is inside and did not time out.
HasTurn(t) == pc[t] \in Inside /\ t \notin late

\* It waits for its turn, or queues its ID again to do so.
Queued(t) ==
    \/ pc[t] \in Waiting
    \/ pc[t] \in {"add", "adding"} /\ ticket[t] # 0

\* Of the threads inside make() for one address only one had its turn; the
\* others have waited for 30 seconds.  Time-outs, unsynchronized reads and IDs
\* that are queued twice do not let two threads take their turn at once.
OneTurn ==
    \A t, u \in Threads :
        HasTurn(t) /\ HasTurn(u) /\ value[t] = value[u] => t = u

\* The ID of a thread that waits, or whose turn it is, stays in the queue:
\* nobody who times out or finishes takes out an ID of somebody else.
StillQueued ==
    \A t \in Threads :
        Queued(t) \/ HasTurn(t) =>
            \E i \in DOMAIN queue[value[t]] : queue[value[t]][i] = ticket[t]

\* There are not two Websites of an address, unless somebody went on without
\* having had his turn, the answer to an insert was lost or the search in
\* make() failed.
OneWebsite == \A v \in Values : sites[v] > 1 => v \in excused

\* Whose turn it is, and who stands in line.
Holders(v) == {t \in Threads : HasTurn(t) /\ value[t] = v}
Line(v) == {t \in Threads : Queued(t) /\ value[t] = v}

Turn(v) ==
    IF Holders(v) = {} THEN 0 ELSE ticket[CHOOSE t \in Holders(v) : TRUE]

InLine(v) == {ticket[t] : t \in Line(v)}

Turns == INSTANCE ValueTurns
           WITH last <- calls,
                waiting <- [v \in Values |-> InLine(v)],
                turn <- [v \in Values |-> Turn(v)]

\* ValueBlocker implements the turns it promises, first come, first served,
\* whatever its unsynchronized reads see.
ImplementsValueTurns == Turns!Spec

\* As long as no ID is queued twice, every call of getOrCreate() returns: every
\* turn comes although nobody has to time out, and an address is never blocked.
CallsReturn ==
    ([](again = {})) =>
        \A t \in Threads : At(t, "add") ~> At(t, "idle")
=============================================================================
