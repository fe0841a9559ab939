--------------------------- MODULE EsActionUpdate ---------------------------
(***************************************************************************)
(* Updating a stored vertex: EsActionUpdate.execute(), the static          *)
(* VertexBlocker that serialises updates of one object ID, and the offline *)
(* flag of EsDataStore that the updates share.                             *)
(*                                                                         *)
(* execute() calls itself when ElasticSearch cannot be reached, so a       *)
(* thread has a stack of frames.  Every frame that took the object ID      *)
(* gives it up in its finally block, and a frame that failed gives it up   *)
(* a first time in its catch block.                                        *)
(***************************************************************************)
EXTENDS Naturals, FiniteSets

CONSTANTS Threads,          \* threads that save vertices
          Ids,              \* object IDs
          NoId,             \* a thread that is not updating anything
          NoThread,         \* used by the refinement mapping only
          Responses,        \* what a round trip to ElasticSearch may give
          OfflineRetries    \* config.getOfflineRetries()

AllResponses == {"ok",        \* the bulk request succeeded
                 "rejected",  \* a bulk failure, or add() could not build it
                 "missing",   \* DocumentMissingException
                 "noNode",    \* NoNodeAvailableException
                 "other"}     \* any other exception

ASSUME ResponsesAssumption == Responses \subseteq AllResponses
ASSUME RetriesAssumption == OfflineRetries \in Nat
ASSUME NoIdAssumption == NoId \notin Ids
ASSUME NoThreadAssumption == NoThread \notin Threads

Thrown == {"noNode", "other"}

VARIABLES
    queue,      \* VertexBlocker.queue: the IDs being updated
    up,         \* can ElasticSearch be reached?  (environment)
    offline,    \* EsDataStore.offline
    pc,         \* where each thread is in the innermost frame of execute()
    op,         \* the ID of the vertex of each thread's operation
    retries,    \* op.getRetries()
    frames,     \* how many frames of execute() are on the thread's stack
    response,   \* what the innermost frame got from ElasticSearch
    verified,   \* what verifyConnection() saw, before it sets the flag
    written,    \* has ElasticSearch applied the operation's document?
    successful, \* the value execute() returns to its caller
    thrown      \* history: has a request thrown an exception?

vars == <<queue, up, offline, pc, op, retries, frames, response, verified,
          written, successful, thrown>>

\* The thread took its ID in this frame and has not given it up.
Owning == {"sync", "online", "catch", "finally"}

PCs == Owning \cup {"idle", "enter", "blocked", "waiting", "start",
                    "decide", "verify", "verified", "unwind"}

Owners(id) == {t \in Threads : op[t] = id /\ pc[t] \in Owning}

\* EsDataStore.waitForConnection() keeps the data store's monitor while it
\* sleeps; setOffline() needs the same monitor.
MonitorFree == \A t \in Threads : pc[t] # "waiting"
-----------------------------------------------------------------------------
Init ==
    /\ queue = {}
    /\ up = TRUE
    /\ offline = FALSE
    /\ pc = [t \in Threads |-> "idle"]
    /\ op = [t \in Threads |-> NoId]
    /\ retries = [t \in Threads |-> 0]
    /\ frames = [t \in Threads |-> 0]
    /\ response = [t \in Threads |-> "ok"]
    /\ verified = [t \in Threads |-> TRUE]
    /\ written = [t \in Threads |-> FALSE]
    /\ successful = [t \in Threads |-> FALSE]
    /\ thrown = FALSE

Goto(t, label) == pc' = [pc EXCEPT ![t] = label]

\* A thread saves a vertex that has an ID: a new operation, no retries yet.
Execute(t, id) ==
    /\ pc[t] = "idle"
    /\ Goto(t, "enter")
    /\ op' = [op EXCEPT ![t] = id]
    /\ retries' = [retries EXCEPT ![t] = 0]
    /\ frames' = [frames EXCEPT ![t] = 1]
    /\ written' = [written EXCEPT ![t] = FALSE]
    /\ successful' = [successful EXCEPT ![t] = FALSE]
    /\ UNCHANGED <<queue, up, offline, response, verified, thrown>>

\* if (isOffline()) waitForConnection();
CheckOffline(t) ==
    /\ pc[t] = "enter"
    /\ Goto(t, IF offline THEN "blocked" ELSE "start")
    /\ UNCHANGED <<queue, up, offline, op, retries, frames, response,
                   verified, written, successful, thrown>>

EnterWait(t) ==
    /\ pc[t] = "blocked"
    /\ MonitorFree
    /\ Goto(t, "waiting")
    /\ UNCHANGED <<queue, up, offline, op, retries, frames, response,
                   verified, written, successful, thrown>>

\* The loop of EsIndexStore.waitForConnection() ends once ElasticSearch
\* answers.  It resets the flag of EsIndexStore, not the one of EsDataStore.
EndWait(t) ==
    /\ pc[t] = "waiting"
    /\ up
    /\ Goto(t, "start")
    /\ UNCHANGED <<queue, up, offline, op, retries, frames, response,
                   verified, written, successful, thrown>>

\* blocker.start(vertex): addToQueue() is retried until the ID is free.
AddToQueueUnchecked(id) == queue' = queue \cup {id}   \* mutant: no contains()

AddToQueue(id) ==
    /\ id \notin queue
    /\ queue' = queue \cup {id}

BlockAndQueue(t) ==
    /\ pc[t] = "start"
    /\ AddToQueue(op[t])
    /\ Goto(t, "sync")
    /\ UNCHANGED <<up, offline, op, retries, frames, response, verified,
                   written, successful, thrown>>

\* add() and sync(): one bulk request.  A request that throws may have been
\* applied all the same, NoNodeAvailableException included: the client throws
\* it too when the last node disconnects before it has answered.
Sync(t) ==
    /\ pc[t] = "sync"
    /\ \E r \in Responses :
         /\ r \in {"ok", "missing"} => up
         /\ r = "noNode" => ~up
         /\ response' = [response EXCEPT ![t] = r]
         /\ \E applied \in (IF r = "ok" THEN {TRUE}
                            ELSE IF r \in Thrown THEN BOOLEAN ELSE {FALSE}) :
              written' = [written EXCEPT ![t] = @ \/ applied]
         /\ thrown' = (thrown \/ r \in Thrown)
         /\ Goto(t, CASE r = "ok" -> "online"
                      [] r \in Thrown -> "catch"
                      [] OTHER -> "finally")
    /\ UNCHANGED <<queue, up, offline, op, retries, frames, verified,
                   successful>>

\* setOffline(false), called while the ID is still in the queue.
Online(t) ==
    /\ pc[t] = "online"
    /\ MonitorFree
    /\ offline' = FALSE
    /\ Goto(t, "finally")
    /\ UNCHANGED <<queue, up, op, retries, frames, response, verified,
                   written, successful, thrown>>

\* blocker.finished(vertex): removes the ID whoever put it there.
RemoveFromQueueNever(id) == UNCHANGED queue  \* mutant: finished() is lost
RemoveFromQueueAll(id) == queue' = {}        \* mutant: clear() for remove()
RemoveFromQueue(id) == queue' = queue \ {id}

\* The catch block gives the ID up before it decides what to do.
CatchFinished(t) ==
    /\ pc[t] = "catch"
    /\ RemoveFromQueue(op[t])
    /\ Goto(t, "decide")
    /\ UNCHANGED <<up, offline, op, retries, frames, response, verified,
                   written, successful, thrown>>

Retriable(t) == ~offline /\ response[t] = "noNode"

RetriesLeftOneMore(t) == retries[t] <= OfflineRetries   \* mutant: <= for <
RetriesLeft(t) == retries[t] < OfflineRetries

IncrementRetriesNever(t) == UNCHANGED retries           \* mutant: not counted
IncrementRetries(t) == retries' = [retries EXCEPT ![t] = @ + 1]

\* Sleep, count the retry and call execute() again; its result is dropped.
Retry(t) ==
    /\ pc[t] = "decide"
    /\ Retriable(t)
    /\ RetriesLeft(t)
    /\ IncrementRetries(t)
    /\ frames' = [frames EXCEPT ![t] = @ + 1]
    /\ Goto(t, "enter")
    /\ UNCHANGED <<queue, up, offline, op, response, verified, written,
                   successful, thrown>>

GiveUp(t) ==
    /\ pc[t] = "decide"
    /\ ~(Retriable(t) /\ RetriesLeft(t))
    /\ Goto(t, IF Retriable(t) THEN "verify" ELSE "unwind")
    /\ UNCHANGED <<queue, up, offline, op, retries, frames, response,
                   verified, written, successful, thrown>>

\* EsDataStore.verifyConnection(): look first ...
Verify(t) ==
    /\ pc[t] = "verify"
    /\ verified' = [verified EXCEPT ![t] = up]
    /\ Goto(t, "verified")
    /\ UNCHANGED <<queue, up, offline, op, retries, frames, response,
                   written, successful, thrown>>

\* ... then setOffline(!result), for which the monitor is needed.
SetOffline(t) ==
    /\ pc[t] = "verified"
    /\ MonitorFree
    /\ offline' = ~verified[t]
    /\ Goto(t, "unwind")
    /\ UNCHANGED <<queue, up, op, retries, frames, response, verified,
                   written, successful, thrown>>

\* The frame under the one that returns is in its catch block, on its way to
\* its own finally block; the last frame returns to the caller of execute().
Return(t, result) ==
    /\ frames' = [frames EXCEPT ![t] = @ - 1]
    /\ Goto(t, IF frames[t] > 1 THEN "unwind" ELSE "idle")
    /\ op' = [op EXCEPT ![t] = IF frames[t] > 1 THEN @ ELSE NoId]
    /\ successful' = [successful EXCEPT ![t] = frames[t] = 1 /\ result]

SucceededUnlessThrown(t) == response[t] \notin Thrown  \* mutant
Succeeded(t) == response[t] = "ok"

\* finally { blocker.finished(vertex); } in a frame that did not throw ...
Finally(t) ==
    /\ pc[t] = "finally"
    /\ RemoveFromQueue(op[t])
    /\ Return(t, Succeeded(t))
    /\ UNCHANGED <<up, offline, retries, response, verified, written,
                   thrown>>

\* ... and in one that did: it gave the ID up already and gives it up again.
Unwind(t) ==
    /\ pc[t] = "unwind"
    /\ RemoveFromQueue(op[t])
    /\ Return(t, FALSE)
    /\ UNCHANGED <<up, offline, retries, response, verified, written,
                   thrown>>

\* ElasticSearch becomes unreachable, or reachable again.
GoDown == up /\ up' = FALSE
             /\ UNCHANGED <<queue, offline, pc, op, retries, frames,
                            response, verified, written, successful, thrown>>
ComeUp == ~up /\ up' = TRUE
              /\ UNCHANGED <<queue, offline, pc, op, retries, frames,
                             response, verified, written, successful,
                             thrown>>

Step(t) ==
    \/ CheckOffline(t) \/ EnterWait(t) \/ EndWait(t) \/ BlockAndQueue(t)
    \/ Sync(t) \/ Online(t) \/ CatchFinished(t) \/ Retry(t) \/ GiveUp(t)
    \/ Verify(t) \/ SetOffline(t) \/ Finally(t) \/ Unwind(t)

Next ==
    \/ \E t \in Threads : (\E id \in Ids : Execute(t, id)) \/ Step(t)
    \/ GoDown
    \/ ComeUp

Spec == Init /\ [][Next]_vars
-----------------------------------------------------------------------------
\* Type invariant of the update path.
TypeOK ==
    /\ queue \subseteq Ids
    /\ up \in BOOLEAN
    /\ offline \in BOOLEAN
    /\ pc \in [Threads -> PCs]
    /\ op \in [Threads -> Ids \cup {NoId}]
    /\ retries \in [Threads -> 0..OfflineRetries]
    /\ frames \in [Threads -> 0..OfflineRetries + 1]
    /\ response \in [Threads -> AllResponses]
    /\ verified \in [Threads -> BOOLEAN]
    /\ written \in [Threads -> BOOLEAN]
    /\ successful \in [Threads -> BOOLEAN]
    /\ thrown \in BOOLEAN

\* An ID in the blocker's queue belongs to a thread that is still going to
\* call finished() for it: no failure, retry or return leaves an ID behind
\* that every later update of the vertex would wait for.
LockHasOwner == \A id \in queue : Owners(id) # {}

\* One thread at a time updates a vertex: what VertexBlocker is there for.
MutualExclusion ==
    \A t, u \in Threads :
        pc[t] \in Owning /\ pc[u] \in Owning /\ op[t] = op[u] => t = u

\* It does what it is there for until a request throws: up to then no two
\* threads are between start and finished for one ID.
ExclusiveUntilThrown == ~thrown => MutualExclusion

\* execute() reports success only for a document ElasticSearch has applied,
\* whatever failed and was retried in between.
SuccessIsWritten == \A t \in Threads : successful[t] => written[t]

\* Every frame of execute() but the first was pushed by a counted retry, so
\* the recursion is at most OfflineRetries + 1 deep, and a thread that is not
\* updating has an empty stack.
StackBounded ==
    \A t \in Threads :
        /\ frames[t] <= retries[t] + 1
        /\ frames[t] = 0 <=> pc[t] = "idle"

\* Until a request throws, only the thread that took an ID takes it out of
\* the queue, and it does not go on with the update afterwards.
ReleasedByOwner ==
    [][\A id \in queue : id \notin queue' /\ ~thrown' =>
          \E t \in Owners(id) : pc'[t] \notin Owning]_vars

HolderOf(id) == IF Owners(id) = {} THEN NoThread
                                   ELSE CHOOSE t \in Owners(id) : TRUE

Lock == INSTANCE VertexLock WITH holder <- [id \in Ids |-> HolderOf(id)]

\* The blocker implements the lock it promises until a request throws: its
\* queue and the threads' positions amount to one holder per ID, who alone
\* gives it up.
ImplementsVertexLock ==
    /\ Lock!Init
    /\ [][thrown' \/ [Lock!Next]_([id \in Ids |-> HolderOf(id)])]_vars

(***************************************************************************)
(* Fairness.  A thread keeps running, it gets a monitor it waits for, and  *)
(* the busy loop of blockAndQueue() tries again at a moment when the ID is *)
(* free.  Other threads can disable those steps again and again, so the    *)
(* fairness is strong.  A thread has one enabled step at most, which makes *)
(* fairness of Step(t) fairness of each.  Nothing is assumed of            *)
(* ElasticSearch.                                                          *)
(***************************************************************************)
Fairness == \A t \in Threads : SF_vars(Step(t))

FairSpec == Spec /\ Fairness

\* Once ElasticSearch stays reachable every update returns to its caller.
UpdatesReturn ==
    <>[]up => \A t \in Threads : pc[t] = "enter" ~> pc[t] = "idle"
=============================================================================
