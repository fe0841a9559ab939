---------------------------- MODULE UserLogging ----------------------------
(***************************************************************************)
(* SplunkUserLogging, the job that sends the stored user activities to     *)
(* Splunk and then deletes them, with the two halves of VertexIterator it  *)
(* uses.  iterate() asks for one page after the other and hands each       *)
(* activity to SplunkLogHandler, which posts them in batches; delete()     *)
(* asks the same query again and deletes what it finds.  Nothing ties what *)
(* is deleted to what was sent but the query: both select the activities   *)
(* made before the run began.                                              *)
(*                                                                         *)
(* Activities are numbered in the order of createdWhen, which is when the  *)
(* object was made: it is stored later, so one may appear among those that *)
(* are already there.  Deletes are those of VertexStore, done or failed in *)
(* one step, after which a search no longer finds the document.            *)
(***************************************************************************)
EXTENDS Naturals, FiniteSets

CONSTANTS MaxActivities,    \* how many activities there are (bound)
          MaxMishaps,       \* how often something goes wrong (bound)
          Limit,            \* the page of iterate(); the job asks for 1
          MaxIteratorSize,  \* the page of delete()
          BatchSize,        \* batch_size of splunk_config.json
          Pools,            \* may maxDeleteThreads be more than 1, or not?
          Debug             \* debug of splunk_config.json

ASSUME BoundsAssumption == MaxActivities \in Nat /\ MaxMishaps \in Nat
ASSUME SizesAssumption ==
    {Limit, MaxIteratorSize, BatchSize} \subseteq Nat \ {0}
ASSUME FlagsAssumption == Pools \subseteq BOOLEAN /\ Debug \in BOOLEAN

VARIABLES
    made,       \* the activities made so far are 1..made
    stored,     \* those a search finds
    splunk,     \* those Splunk has accepted
    pc,         \* where the run of the job is
    pool,       \* is maxDeleteThreads more than 1?
    current,    \* the query is: createdWhen <= current
    hits,       \* what the query counted
    offset,     \* the local i of iterate() and delete()
    on,         \* the local of that name of iterate()
    page,       \* what is left of the page, or of the list to delete
    batch,      \* queue::batched
    failed,     \* queue::failed
    stopping,   \* VertexIterator.stopping
    tasks,      \* deletes submitted to the TaskManager and not done
    once,       \* history: those that have been stored
    faulty,     \* history: this run did not see all it was to send
    trouble,    \* history: why an activity may be sent again
    again,      \* history: activities that were accepted more than once
    mishaps     \* how often something went wrong, for the bound

store == <<made, stored, once>>
run == <<pool, current, hits, offset, on, page, batch, failed>>
vars == <<store, splunk, pc, run, stopping, tasks, faulty, trouble, again,
          mishaps>>

Activities == 1..MaxActivities

\* The loops of iterate() and delete().
IterateLoop == {"page", "item", "post"}
DeleteLoop == {"deletePage", "deleteItem", "deleteWait"}

IteratePCs == IterateLoop \cup {"count", "iterated", "lastPost"}
DeletePCs == DeleteLoop \cup {"deleteCount"}
PCs == {"idle", "over"} \cup IteratePCs \cup DeletePCs

\* Why an activity may be sent again: a failure left it stored, delete() was
\* stopped, or another one came late and moved it to another page.
Causes == {"failure", "stop", "late"}

Init ==
    /\ made = 0 /\ stored = {} /\ once = {}
    /\ splunk = {} /\ again = {}
    /\ pc = "idle"
    /\ pool = FALSE /\ current = 0 /\ hits = 0 /\ offset = 0 /\ on = 0
    /\ page = {} /\ batch = {} /\ failed = FALSE
    /\ stopping = FALSE
    /\ tasks = {}
    /\ faulty = FALSE /\ trouble = {}
    /\ mishaps = 0

\* The job, its query and its iterator are garbage.
Forget ==
    /\ pc' = "idle"
    /\ pool' = FALSE /\ current' = 0 /\ hits' = 0 /\ offset' = 0 /\ on' = 0
    /\ page' = {} /\ batch' = {} /\ failed' = FALSE
    /\ stopping' = FALSE
    /\ faulty' = FALSE

\* What the query finds, and a part of it in its order.
Before == {k \in stored : k < current}   \* mutant: lt instead of lte
Matching == {k \in stored : k <= current}
Place(k) == Cardinality({j \in Matching : j < k})
Page(from, size) ==
    {k \in Matching : from <= Place(k) /\ Place(k) < from + size}

\* mutant: the second page of delete() does not begin at 0
PageBehind(size) == Page(offset, size)
PageToDelete(size) == Page(0, size)

Mishap ==
    /\ mishaps < MaxMishaps
    /\ mishaps' = mishaps + 1
NoMishap == UNCHANGED mishaps

Because(cause) == trouble' = trouble \cup {cause}
NoCause == UNCHANGED trouble
-----------------------------------------------------------------------------
\* A user does something that is logged.
LogActivity ==
    /\ made < MaxActivities
    /\ made' = made + 1
    /\ UNCHANGED <<stored, once, splunk, pc, run, stopping, tasks, faulty,
                   trouble, again, mishaps>>

\* The activity is stored, and found from now on.  During a run that ought to
\* have sent it, it has come too late: it may be passed over, and in a loop
\* it moves those behind it into a page that is still to come.
Store(k) ==
    /\ k \in 1..made \ once
    /\ stored' = stored \cup {k}
    /\ once' = once \cup {k}
    /\ IF pc \notin {"idle", "count", "over"} /\ k <= current
       THEN Mishap /\ faulty' = TRUE
       ELSE NoMishap /\ UNCHANGED faulty
    /\ IF pc \in IterateLoop \cup DeleteLoop /\ k <= current
       THEN Because("late") ELSE NoCause
    /\ UNCHANGED <<made, splunk, pc, run, stopping, tasks, again>>

\* doWork() has set the last run to now before it made the job, and
\* getLastRun() returns the time at which it is asked: the interval has never
\* passed, and only debug makes the job send anything.
Process == Debug

LaterThanNow == made + 1    \* mutant: the query reaches beyond the run
Now == made

\* SplunkUserLogging.start() and handle(): a new query and a new iterator.
StartRun ==
    /\ pc = "idle"
    /\ Process
    /\ pc' = "count"
    /\ current' = Now
    /\ pool' \in Pools
    /\ UNCHANGED <<store, splunk, hits, offset, on, page, batch, failed, stopping,
                   tasks, faulty, trouble, again, mishaps>>

\* Both halves count first.  A query that fails finds nothing.
Counts == \/ hits' = Cardinality(Matching) /\ NoMishap
          \/ hits' = 0 /\ Mishap

Count ==
    /\ pc = "count"
    /\ Counts
    /\ faulty' = (faulty \/ hits' < Cardinality(Matching))
    /\ pc' = "page"
    /\ UNCHANGED <<store, splunk, pool, current, offset, on, page, batch, failed,
                   stopping, tasks, trouble, again>>

LastLeftOut == offset + 1 < hits        \* mutant: one too few
MorePages == offset < hits

\* for (int i=0; i<hits; i+=limit).  An empty page ends the loop.
NextPage ==
    /\ pc = "page"
    /\ MorePages /\ ~stopping
    /\ \/ page' = Page(offset, Limit) /\ NoMishap
       \/ page' = {} /\ Mishap
    /\ pc' = IF page' = {} THEN "iterated" ELSE "item"
    /\ faulty' = (faulty \/ page' = {})
    /\ UNCHANGED <<store, splunk, pool, current, hits, offset, on, batch, failed,
                   stopping, tasks, trouble, again>>

\* The loop ends: with the last page, or because somebody called stop().
LastPage ==
    /\ pc = "page"
    /\ ~MorePages \/ stopping
    /\ pc' = "iterated"
    /\ faulty' = (faulty \/ MorePages)
    /\ UNCHANGED <<store, splunk, run, stopping, tasks, trouble, again, mishaps>>

First(k) == k \in page /\ \A j \in page : k <= j

ItemDone(k) ==
    /\ page' = page \ {k}
    /\ on' = on + 1

\* SplunkLogHandler.handle(): the first activity, and then every BatchSize-th,
\* makes it post what has been collected.
Handle ==
    /\ pc = "item"
    /\ ~stopping
    /\ \E k \in page :
          /\ First(k)
          /\ batch' = batch \cup {k}
          /\ IF on % BatchSize = 0
             THEN pc' = "post" /\ UNCHANGED <<page, on>>
             ELSE ItemDone(k) /\ UNCHANGED pc
    /\ UNCHANGED <<store, splunk, pool, current, hits, offset, failed, stopping, tasks,
                   faulty, trouble, again, mishaps>>

\* getVertex() or the handler throws: iterate() goes on with the next one.
SkipItem ==
    /\ pc = "item"
    /\ ~stopping
    /\ Mishap
    /\ faulty' = TRUE
    /\ \E k \in page : First(k) /\ ItemDone(k)
    /\ UNCHANGED <<store, splunk, pc, pool, current, hits, offset, batch, failed,
                   stopping, tasks, trouble, again>>

EndOfPage ==
    /\ pc = "item"
    /\ page = {} \/ stopping
    /\ offset' = offset + Limit
    /\ page' = {}
    /\ pc' = "page"
    /\ faulty' = (faulty \/ page # {})
    /\ UNCHANGED <<store, splunk, pool, current, hits, on, batch, failed, stopping,
                   tasks, trouble, again, mishaps>>

\* SplunkUserLogging.post(): FALSE whatever went wrong, also when Splunk has
\* accepted the batch and the answer was lost.
Posted(accepted, ok) ==
    /\ ok => accepted
    /\ splunk' = IF accepted THEN splunk \cup batch ELSE splunk
    /\ again' = IF accepted THEN again \cup (splunk \cap batch) ELSE again
    /\ IF ok THEN NoMishap ELSE Mishap

\* A failure or an exception stops the iteration, with the batch as it is.
Post ==
    /\ pc = "post"
    /\ \E accepted, ok \in BOOLEAN :
          /\ Posted(accepted, ok)
          /\ failed' = ~ok
          /\ \/ /\ ok
                /\ batch' = {}
                /\ pc' = "item"
                /\ \E k \in page : First(k) /\ ItemDone(k)
                /\ NoCause
             \/ /\ ~ok
                /\ pc' = "iterated"
                /\ Because("failure")
                /\ UNCHANGED <<batch, page, on>>
    /\ UNCHANGED <<store, pool, current, hits, offset, stopping, tasks, faulty>>

\* iterate() returns, and forgets that it was stopped.
Iterated ==
    /\ pc = "iterated"
    /\ stopping' = FALSE
    /\ page' = {}
    /\ pc' = IF failed THEN "over"
             ELSE IF batch = {} THEN "deleteCount" ELSE "lastPost"
    /\ UNCHANGED <<store, splunk, pool, current, hits, offset, on, batch, failed,
                   tasks, faulty, trouble, again, mishaps>>

\* The rest of the activities; nobody looks at the result, but an exception
\* ends the run.
LastPost ==
    /\ pc = "lastPost"
    /\ \E accepted, ok \in BOOLEAN :
          /\ Posted(accepted, ok)
          /\ faulty' = (faulty \/ ~accepted)
          /\ \/ pc' = "deleteCount" /\ NoCause
             \/ ~ok /\ pc' = "over" /\ Because("failure")
    /\ batch' = {}
    /\ UNCHANGED <<store, pool, current, hits, offset, on, page, failed, stopping,
                   tasks>>
-----------------------------------------------------------------------------
\* VertexIterator.delete().
DeleteCount ==
    /\ pc = "deleteCount"
    /\ Counts
    /\ IF hits' < Cardinality(Matching) THEN Because("failure") ELSE NoCause
    /\ offset' = 0
    /\ pc' = "deletePage"
    /\ UNCHANGED <<store, splunk, pool, current, on, page, batch, failed, stopping,
                   tasks, faulty, again>>

MoreToDelete == offset < hits

\* A list that cannot be read, or is empty, ends the loop.
DeletePage ==
    /\ pc = "deletePage"
    /\ MoreToDelete /\ ~stopping
    /\ \/ page' = PageToDelete(MaxIteratorSize) /\ NoMishap /\ NoCause
       \/ page' = {} /\ Mishap /\ Because("failure")
    /\ pc' = IF page' = {} THEN "over" ELSE "deleteItem"
    /\ UNCHANGED <<store, splunk, pool, current, hits, offset, on, batch, failed,
                   stopping, tasks, faulty, again>>

EndDelete ==
    /\ pc = "deletePage"
    /\ ~MoreToDelete \/ stopping
    /\ pc' = "over"
    /\ UNCHANGED <<store, splunk, run, stopping, tasks, faulty, trouble, again,
                   mishaps>>

\* vertex.delete(): it is gone, or it stays.
DeleteVertex(k) ==
    \/ stored' = stored \ {k} /\ NoCause
    \/ UNCHANGED stored /\ Because("failure")

\* The vertices are in a HashSet and come in any order.
Delete(k) ==
    /\ pc = "deleteItem"
    /\ k \in page /\ ~stopping
    /\ page' = page \ {k}
    /\ IF pool THEN tasks' = tasks \cup {k} /\ UNCHANGED <<stored, trouble>>
               ELSE DeleteVertex(k) /\ UNCHANGED tasks
    /\ UNCHANGED <<made, once, splunk, pc, pool, current, hits, offset, on, batch,
                   failed, stopping, faulty, again, mishaps>>

\* An exception of vertex.delete(), in the thread of the run, ends it.
DeleteThrows(k) ==
    /\ pc = "deleteItem"
    /\ k \in page /\ ~stopping /\ ~pool
    /\ stored' \in {stored, stored \ {k}}
    /\ Because("failure")
    /\ pc' = "over"
    /\ page' = {}
    /\ UNCHANGED <<made, once, splunk, pool, current, hits, offset, on, batch,
                   failed, stopping, tasks, faulty, again, mishaps>>

\* DataVertexDeleteTask.call() in a thread of the pool.
Task(k) ==
    /\ k \in tasks
    /\ tasks' = tasks \ {k}
    /\ DeleteVertex(k)
    /\ UNCHANGED <<made, once, splunk, pc, run, stopping, faulty, again, mishaps>>

EndOfList ==
    /\ pc = "deleteItem"
    /\ page = {} \/ stopping
    /\ pc' = "deleteWait"
    /\ page' = {}
    /\ UNCHANGED <<store, splunk, pool, current, hits, offset, on, batch, failed,
                   stopping, tasks, faulty, trouble, again, mishaps>>

Rewound == offset       \* mutant: what is deleted has moved the pages up
Advanced == offset + MaxIteratorSize

\* callAndWait(futures), then the next page.
DeleteWait ==
    /\ pc = "deleteWait"
    /\ tasks = {}
    /\ offset' = Advanced
    /\ pc' = "deletePage"
    /\ UNCHANGED <<store, splunk, pool, current, hits, on, page, batch, failed,
                   stopping, tasks, faulty, trouble, again, mishaps>>

\* BaseJob.begin(): the run is over, and the next one has a new job object.
EndRun ==
    /\ pc = "over"
    /\ Forget
    /\ UNCHANGED <<store, splunk, tasks, trouble, again, mishaps>>
-----------------------------------------------------------------------------
\* BaseJob.stop() tells the iterator, if a run has made one.  What iterate()
\* does not forget any more stops delete().
Stop ==
    /\ pc \notin {"idle", "over"} /\ ~stopping
    /\ Mishap
    /\ stopping' = TRUE
    /\ IF pc \in DeletePCs \cup {"lastPost"} THEN Because("stop") ELSE NoCause
    /\ UNCHANGED <<store, splunk, pc, run, tasks, faulty, again>>

\* The server ends; what was submitted to the pool ends with it.
Crash ==
    /\ pc # "idle"
    /\ Mishap
    /\ Because("failure")
    /\ Forget
    /\ tasks' = {}
    /\ UNCHANGED <<store, splunk, again>>

Step ==
    \/ StartRun \/ Count \/ NextPage \/ LastPage \/ Handle \/ SkipItem
    \/ EndOfPage \/ Post \/ Iterated \/ LastPost
    \/ DeleteCount \/ DeletePage \/ EndDelete \/ EndOfList \/ DeleteWait
    \/ EndRun
    \/ \E k \in Activities : Delete(k) \/ DeleteThrows(k) \/ Task(k)

Next ==
    \/ LogActivity
    \/ \E k \in Activities : Store(k)
    \/ Step
    \/ Stop \/ Crash

Spec == Init /\ [][Next]_vars

(***************************************************************************)
(* Fairness.  The job is started again and again, and its threads keep     *)
(* running; what goes wrong is bounded, but for deletes, which may fail    *)
(* for ever.                                                               *)
(***************************************************************************)
FairSpec == Spec /\ WF_vars(Step)
-----------------------------------------------------------------------------
Flags ==
    /\ pool \in BOOLEAN /\ failed \in BOOLEAN /\ stopping \in BOOLEAN
    /\ faulty \in BOOLEAN

\* Type invariant.
TypeOK ==
    /\ made \in 0..MaxActivities
    /\ stored \subseteq once /\ once \subseteq 1..made
    /\ splunk \subseteq once /\ again \subseteq splunk
    /\ pc \in PCs
    /\ current \in 0..made
    /\ hits \in 0..MaxActivities
    /\ offset \in Nat /\ on \in Nat
    /\ page \subseteq once /\ batch \subseteq once /\ tasks \subseteq once
    /\ Flags
    /\ trouble \subseteq Causes
    /\ mishaps \in 0..MaxMishaps

\* An activity is deleted only after Splunk has accepted it.  This fails in a
\* run that did not see all it was to send (faulty): it was stopped while it
\* iterated, a search failed, an activity was skipped or came late, or the
\* last post was refused.  It holds whatever happens to the other posts, to deletes, and
\* when the server crashes.
DeletedIsSent == [][\A k \in stored \ stored' : k \in splunk \/ faulty]_vars

\* "because of failures there could be duplicates sent to Splunk", says
\* handle(); that is one of three causes.  Splunk accepts an activity again
\* only when the server has ended, a post was not answered well or an activity
\* that was to be deleted was not (failure), when delete() was stopped (stop),
\* or when an activity made before a run was stored in the middle of its pages
\* (late), which is no failure of anything.  Searches that fail, activities
\* that are skipped and stops while iterate() pages cause no duplicate.
OnlyTroubleDuplicates == again # {} => trouble # {}

\* A run ends although its deletes may all fail.
RunEnds == pc # "idle" ~> pc = "idle"

\* With debug on, an activity does not stay stored without being sent.
AllSent ==
    \A k \in Activities : k \in stored ~> (k \in splunk \/ k \notin stored)
=============================================================================
