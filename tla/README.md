# Soterium: models, checks and proofs

Soterium keeps a graph of *vertices* (people, organizations, workflow items, ...)
and *edges* in ElasticSearch and serves them to REST clients. This directory
holds TLA+ specifications of the parts of it in which several threads, a store
that fails, and a cache meet; the TLC configurations that check them on small
instances; and TLAPS proofs of what matters most for every instance. Paths below
are relative to `src/`; `core/`, `apollo/` stand for
`core/src/main/java/com/lusidity/` and `apollo/src/main/java/com/lusidity/apollo/`.

| Module | Component | Extends / uses | Configurations | Proofs |
|---|---|---|---|---|
| `VertexLock` | what `VertexBlocker` promises (abstract) | | | |
| `EsActionUpdate` | update of a stored vertex, blocker, offline flag | implements `VertexLock` | `UpdateFailures`, `UpdateDoubleFinished` | `EsActionUpdate_proofs` |
| `VertexStore` | save, delete, cache, inserts with retries | uses `VertexLock` in place of the update's blocking | `StoreLife`, `StoreDeleted` | `VertexStore_proofs`, `VertexStoreSaves_proofs` |
| `JobWorker` | a job: requests, worker, listener threads | | `JobAutomated`, `JobLiveness`, `JobLost` | `JobWorker_proofs` |
| `WorkflowEngine` | a workflow item on its way through its steps | | `WorkflowOneAuditor`, `WorkflowSwallowed`, `WorkflowOverruled` | `WorkflowEngine_proofs`, `WorkflowVerdicts_proofs` |
| `ValueTurns` | what `ValueBlocker` promises (abstract) | | | |
| `ValueBlocker` | the blocker of values and `Website.getOrCreate` | implements `ValueTurns` | `WebsiteTurns` | `ValueBlocker_proofs` |
| `UserLogging` | the job that sends stored activities to Splunk and deletes them, and its iterator | | `SplunkLogging` | `UserLogging_proofs` |

The modules `MC...` give TLC the values of constants a configuration cannot
write down (sets of workflows, symmetries).

## 1. Inventory

### The parts that are modelled

**VertexBlocker** (`core/blockers/VertexBlocker.java`).
State: a static collection of object IDs. Operations: `start` (busy-waits until
it could add the ID), `finished` (removes it, whoever added it). Called by
`EsActionUpdate` around every bulk update. Hard: the wait has no time-out and no
fairness, and nothing ties `finished` to the thread that called `start`.
Correct if: at most one thread is between `start` and `finished` for an ID, only
that thread releases it, and no ID stays behind.

**EsActionUpdate** (`apollo/elasticSearch/EsActionUpdate.java`), with the offline
flag of `EsDataStore` and the waiting of `EsIndexStore`. State: the blocker, the
`offline` flag, the operation's retry counter, one stack frame of `execute()` per
retry. Operation: `execute(op)`. Hard: the request may fail in five ways, may
have been applied although it failed, the method calls itself from its `catch`
block, both `catch` and `finally` release the ID, `waitForConnection()` sleeps
inside the monitor that `setOffline()` needs. Correct if: exclusion per vertex,
no ID orphaned, success reported only for what was written, bounded recursion,
and every update returns once ElasticSearch is back.

**ApolloVertex, EsActionInsert, EsActionDelete, EsDataStore/EsIndexEngine,
EnhancedCache** (`core/data/ApolloVertex.java`, `apollo/elasticSearch/...`,
`apollo/cache/EnhancedCache.java`). State: ElasticSearch's documents and its
search view (behind until the next refresh), the cached object, and the Java
objects that stand for the vertex, each with its own content, dirty flag, index
ID, `deleted` flag and monitor. Operations: construct, `getObjectById`, property
setters, `save`, `delete`. Hard: any number of objects for one vertex, an answer
lost after the request was applied, retries that look for the document with a
search that may not see it yet, puts into the cache long after the read. Correct
if: a vertex never gets two documents, a deleted vertex does not come back, a save
that reports success stored all changes made before it, every call returns, the
cache does not keep what was deleted.

**Jobs engine and job worker** (`core/jobs/JobsEngine.java`, `JobItem.java`,
`BaseJob.java`, `core/domains/system/assistant/worker/JobWorker.java`,
`BaseAssistantWorker.java`, `core/workers/assistant/IntervalListener.java`).
State: the worker's flags `started`, `running`, `runOnce`, its executor and
listener, the job object of worker and item, the item's arguments and last run.
Operations: `doJob` (run, stop, restart) from REST threads, the listener's loop
`doWork`/`finish` in an executor thread, the configured start. Hard: all of it is
unlocked check-then-act between threads; `stop()` waits for a minute for a thread
that may be itself. Correct if: a job runs in one thread, a stopped job is
stopped, an accepted request is run, the schedule is kept (once a day for a job that has a
time of day), a started worker has a listener, every request returns.

**Workflow engine and worker** (`core/workers/workflow/WorkflowEngine.java`,
`core/domains/process/workflow/*.java`,
`core/domains/system/assistant/worker/WorkflowWorker.java`).
State: the workflow's steps, the copies of steps an item is on, which copies are
in the store, the item's `approved`/`completed`, the worker's queue. Operations:
assign a workflow, save a step with a decision, the update handlers that call
`next`, `moveNext`, `handleApproved`, `finalize`, and the worker that calls `next`
for steps with an expire action. Hard: requests on one item interleave query by
query, exceptions are swallowed, an emptied set of steps means "approved".
Correct if: approval and disapproval are what the auditors decided, steps are
taken in order, no copy is lost in the store, a workflow ends.

**ValueBlocker** (`core/blockers/ValueBlocker.java`) and its only user,
`Website.getOrCreate` (`core/domains/internet/Website.java`). State: a static
`HashMap` with a queue of IDs for every value. Operations: `block` (queues a new ID and
waits until it is the head, 30 seconds at the most), `unblock`. Hard: the queues are
changed inside a monitor and read outside of it; the map may grow while it is read;
who has timed out goes on as if it were his turn. Correct if: turns are taken
one at a time and in order, nobody removes another's ID, an address gets one
`Website`, every call returns.

**Logging to Splunk** (`core/jobs/acs/SplunkUserLogging.java`, `SplunkLogHandler.java`)
**with VertexIterator and TaskManager** (`core/collections/VertexIterator.java`,
`core/tasks/TaskManager.java`). State: the stored activities, the run's query,
page, batch and offset, the iterator's `stopping`, the deletes given to the pool.
Operations: a run (`start`, `handle`, `post`, `iterate`, `delete`) and `stop`. Hard:
sending and deleting are two passes over a query that is asked page by page while
users add to what it finds; posts fail or are accepted without an answer; the
server may end anywhere. Correct if: nothing is deleted that was not sent,
duplicates have a cause that is known, a run ends, everything is sent in the end.

### How they interact

A REST request (services) loads vertices through `EsDataStore.getObjectById`
(cache, else query), changes properties (`KeyData`), and calls `save`/`delete`.
`save` makes an operation that `EsIndexEngine.execute` gives to `EsActionInsert`
or `EsActionUpdate`; the latter enters the `VertexBlocker`. After a save the
vertex's update handlers run in the same thread: for a `WorkflowStep` that is
`WorkflowEngine.next`. The `WorkflowWorker` and the `JobWorker`s run in executor
threads of their own and do nothing while `EsDataStore.isOffline()`
(`IntervalListener.java:76`, `AssistantListener.java:84`), a flag that an update
sets after its last retry and clears after its first success. `SplunkUserLogging` is
what one such `JobWorker` runs; its deletes are `vertex.delete()`, in the job's thread
or in those of the `TaskManager`.

### The parts that are not modelled

`PROJECT.json` lists each with its files and reason; section 6 says more of what
could have been.

* no state of their own: queries, schema reflection, discovery, value types and
  identifiers, domain classes, the REST resources;
* input and output: importers, e-mail, console, SSL client, web resources;
* access decisions (CBAC, authentication) are not a subject of this project;
* the cache classes that no configuration selects;
* run by hand, in one thread: maintenance of stored data, reindexing;
* edges, as vertices of their own.

## 2. Order and choice

1. `VertexLock`, `EsActionUpdate`: every write of an existing vertex goes
   through it. Proved up to the first exception, where the code breaks it.
2. `JobWorker`: the most intricate unlocked code. Its safety properties hold for a
   scheduled job with one caller (section 4), and for that they are proved.
3. `WorkflowEngine`: the largest business rule. Types and `NoOrphans` proved, and the
   order of the steps and the verdict for requests one by one.
4. `VertexStore` over `VertexLock`: the life cycle. `OneDocument`, `DeletedForGood`,
   `ReportedSave` proved.
5. `ValueTurns`, `ValueBlocker`: the other blocker. Everything safe about it is proved,
   the refinement included.
6. `UserLogging`: the one place where data is deleted by a program, and the iterator
   it relies on. `DeletedIsSent` proved.

The runs are kept few: each answers one question, and a module brings one
passing run with its properties together and a violation only where code and
documentation disagree.

## 3. The modules

### EsActionUpdate (and VertexLock)

A thread is a program counter in the innermost frame of `execute()` plus the
number of frames; a frame that retried is always in its `catch` block, so no more
of the stack needs to be kept. `queue` is `VertexBlocker.queue`, `offline` the flag
of `EsDataStore`; `up` is the environment. `Sync` is the bulk request: `ok`,
`rejected`, `missing` are answers, `noNode` and `other` are exceptions, after
either of which the document may have been applied. `Finally` and `Unwind` are the
two ways through the `finally` block, `CatchFinished` the earlier release in the
`catch` block. `EnterWait`/`EndWait`/`Online`/`SetOffline` need the data store's
monitor. `written` and `successful` relate what ElasticSearch did to what
`execute()` returned; `thrown` remembers the first exception that makes the
`catch` block release the ID. Left out: the bulk overload for collections, logging.

### VertexStore

One vertex, several objects. `docs` is what ElasticSearch stores (each insert
request makes a document under a fresh index ID, so there are as many as there
can be tries), `seen` what a search finds, i.e. `docs` as of the last refresh.
`obj[o]` are the fields of object `o`, `th[t]` the locals of thread `t`.
Program decisions are in `Ask` (construct, read, set a property, `save`,
`delete`, drop the reference); the code's steps in `Step`. A step is one access of
something that others can reach without the object's monitor: the cache, the
lock, a request, the content. `kind` says which operation shares the steps
`Lookup`, `Serialise`, `EraseAnswered`. Content is a version number, so the
properties can say *which* changes a request carried.
Updates here succeed or are rejected (updates that throw are the subject of the
module above); waiting for the connection, edges removed by `delete`, move and
merge, vertices that are not immediate, cache aliases and the cache's size are
left out. Objects nobody refers to are collected, so the number of threads plus
one suffices for `Objects`.

### JobWorker

One job with its item, worker and executors. Each flag, reference and check of
`doJob`, `start`, `stop`, `restart`, `reset`, `doWork`, `finish` is a step of the
thread that makes it; `stop()` is a procedure with a return label because REST
threads and the listener's own thread call it. Executors get a new number for
each `start()`; `tasks[e]` are the listeners submitted to `e`. A wait in
`awaitTermination` ends when the executor's thread has ended or after a minute,
and a minute passes only where the run lets it (`Timeouts`: while a job runs, or while a
listener sleeps its delay, ten minutes by default, from which `shutdown()` does not wake
it) or while the thread waits for itself. `schedule` is the configuration: not
automated, with a time of day, or with the time of day "0", for which `isElapsed()` is always
TRUE (`JobItem.java:225`; four jobs of `jobs_config.json`). The clock is abstracted to
`due`: a new day sets it, and a run clears it unless the time of day is "0". What the job does
is one step of any length. Left out: the `catch` block of `IntervalListener.call()`
(52-60), which restarts the worker. No exception gets there from a job worker: `doWork()`
catches everything itself, and what the listener asks besides (processor load, offline flag)
does not throw.

### WorkflowEngine

One item, a workflow chosen from `Templates`. A copy of a step is a number;
`live` are the copies in the store, `on` those with an edge from the item.
`Examine` and `Build` are `moveNext` up to saving the next group, `ListSteps`,
`RemoveEdge`, `DeleteListed` are `clearAndDelete`, `AddStep` adds one edge and
sends the worker's message, `IsEmpty` and `Finalize` are the end of
`handleApproved` and the two verdicts. An insert that fails does not throw, and nobody looks
at what `save()` returns: `BuildLoses` makes copies of which some are not in the store and
go on like the others (the item can be on a copy that is not `live`), `AddLoses` loses an edge
while `add()` returns TRUE and the loop goes on. `AddFails` is the `add()` that caught an
exception and returns FALSE, for which `moveNext` throws one that it catches itself. `signed`,
`rejected` are history: the decisions auditors really made since the start. `Restarted` are
the templates that may be assigned a second time. `Examine` reads the item's steps in one step
where the code asks three times (the size, the steps, `getAt`). Left out: failures of
queries and deletes and of the saves of a decision (after which the handlers run all the same,
`WorkflowStep.java:116-127`) and of a verdict, saves of
a step object that was deleted, changes of the workflow while items are on it,
expiry dates, notifications and the entries of the log.

What the module shows about failing saves, beside its properties: a copy that was not saved
leaves an edge that `clearAndDelete()` never removes, because its list holds null there. The
item stays on it, also when it gets its verdict. A lost edge of a parallel group leaves
the auditor of that step out, and the item moves on without him.

### ValueBlocker (and ValueTurns)

`queue[v]` is the collection of the key `v`, `<<>>` when it is absent. `EnterAdd` and
`Add` are `addOrRemove(value, uuid, true)`: other threads can read between them, which is
what `QueueAgain` does (a `get` that misses a key while another put makes the map
grow, and the `catch` block of `isNext` that queues the ID again). A removal is one step
for its readers. `TakeTurn` is `isNext` returning TRUE; that it returns FALSE
changes nothing. `TimeOut` may happen whenever a thread waits, `Quit` is the end of
`block()` after it, `Query`/`Make` are `Website.make()`, where the save may be
refused, stored or stored without an answer, and `Unblock` is the `finally` block. A search that
fails returns no result and no exception (`EsQueries.java:228-308`): `SearchFails` makes
another Website although there is one, and the first look of `getOrCreate()` leads to `make()`
whether it found nothing or failed.
`late`, `again` and `excused` are history. `ValueTurns` has no queue and no IDs that
are left behind: callers are numbered, wait, have their turn in the order of the numbers,
or give up. The mapping takes a thread that timed out for one that gave up, although
the code lets it go on: that is the abstraction's verdict on it.

### UserLogging

One job, one `VertexIterator`. Activities are numbered in the order of
`createdWhen`; `made` but not yet `stored` ones are what the query will find late.
`Count`, `NextPage`, `LastPage`, `Handle`, `EndOfPage`, `Post` and `Iterated` are `iterate()`
with the handler, `LastPost` the batch that is left, `DeleteCount` to `EndDelete` are
`delete()`, whose deletes are done in place or by `Task`s of a pool. `Page` asks anew each
time, so a page is what the query finds at that moment. `Stop` and `Crash` come at any
step. An exception of the handler skips one activity of `iterate()` (`SkipItem`), one of
`vertex.delete()` in the job's own thread ends the whole deletion (`DeleteThrows`), and one of
the last post ends the run before it deletes.
`faulty` says that this run did not see everything its query will select for
deletion, or that its last post was refused. `trouble` collects the causes for which an
activity may be sent again: `failure` (the server ended, a post was not answered well, a
deletion did not delete all of its query), `stop` (of `delete()`), and `late` (an activity made
before the run was stored in the middle of the pages of one of its loops, which is no failure).
Left out: iterating with several threads, which only `ReindexJob` does; what a post
contains; activities made in the same millisecond (they are ordered here).

What the module shows about the code, beside its properties:

* a job that is stopped half way deletes what it has not sent: `iterate()` resets
  `stopping` when it returns (`VertexIterator.java:393`), and `handle()` goes on;
* nobody looks at the result of the last post (`SplunkUserLogging.java:94`);
* a search that fails, or a window past ElasticSearch's 10,000 results, ends the iteration
  as the last page does, and the deletion begins;
* `doWork()` sets the last run before it makes the job (`JobWorker.java:96`) and
  `BaseJob.getLastRun()` (147) answers with the present time, so the interval never
  passes: only `debug` = true, as shipped, sends anything. `delete_es` of
  the configuration is read nowhere.

## 4. What the runs check

| Run | Question | Instance | Distinct states |
|---|---|---|---|
| `update_failures` | Does every failure path release, return, and report truthfully? Is the blocker a lock up to the first exception (refinement of `VertexLock`)? | 2 threads, 2 IDs, 1 retry, all responses | 494,600 |
| `update_double_finished` | Is it one when something throws? **No** | 3 threads, 0 retries | |
| `store_life` | One document, no resurrection, truthful saves, all calls return | 2 threads, 3 objects, 1 retry, 2 versions | 550,000 |
| `store_deleted_cached` | Does a delete leave the cache without the vertex? **No** | 2 threads | |
| `job_automated` | One run at a time, stopped means stopped, once a day, a listener | scheduled job, with a time of day and with "0", 1 caller, 3 requests, 1 new day, listeners that sleep longer than the minute | 3,925,000 |
| `job_liveness` | Do requests return, is the schedule kept | every schedule, 2 requests, jobs and listeners that outlast the minute | 660,600 |
| `job_lost` | Is an accepted request run? **No** | 1 request | |
| `workflow_one_auditor` | Verdict, order, no orphans, end | every workflow of up to 3 steps and one the worker looks after, 1 auditor, 1 failure of the store (any copies, or an edge), short workflows assigned twice | 214,900 |
| `workflow_swallowed` | Is an approval always everyone's? **No** | 2 steps, 1 failure | |
| `workflow_overruled` | Does a disapproval stand? **No** | 2 parallel steps, 2 auditors | |
| `website_turns` | Turns one at a time and in order (refinement of `ValueTurns`), one `Website`, all calls return | 3 threads, 2 addresses, 3 calls, 1 ID queued twice, time-outs and failed searches at will | 435,300 |
| `splunk_logging` | Deleted only when sent, duplicates only for three causes, runs end, all is sent | 3 activities, 2 mishaps, pages of 1 and 2, batches of 2, with and without a pool | 600,000 |

The five answers "no" are disagreements between the code and what a comment or a
test says of it; `PROJECT.json` quotes both sides under "findings":

* a request that throws makes `EsActionUpdate` release the ID twice (186, 220); the
  second release frees the ID for a third thread while a second is updating;
* `doJob` starts the worker before it sets `runOnce` (158-159); the listener can
  look in between and `finish` then clears the flag of an accepted request;
* an edge that `moveNext` could not store goes unnoticed, or its exception is caught
  (246), and an item left without steps counts as approved;
* two parallel decisions at once: the approval finds the steps cleared by the
  disapproval and overrules it (388);
* a reader puts what it queried into the cache after the vertex was deleted
  (`EsDataStore.java:431`).

### What holds only under the bounds of its run

Some properties of the table hold because the run restricts the instance, and
the restriction is part of the result:

* `ExclusiveUntilThrown`, `ReleasedByOwner` and the refinement of `VertexLock` are stated up
  to the first request that throws; `MutualExclusion` without that condition is what
  `update_double_finished` refutes. `LockHasOwner`, `SuccessIsWritten`,
  `StackBounded`, `UpdatesReturn` hold for every response.
* `AtMostOneRun`, `StartedListens` and `StoppedMeansStopped` hold for a scheduled
  job with one caller. A job that runs on request stops its own worker from its
  own thread and waits a minute for itself; in that minute a request starts the
  worker anew, and `AtMostOneRun`, `StartedListens` and `StoppedMeansStopped` fail.
  They also fail with two callers, as does `OncePerDay`; and a job that does not
  end within the minute survives `stop()` (a listener that sleeps through it does no
  harm: it was told to stop, and ends when it wakes). `OncePerDay` is about jobs that have
  a time of day: with "0" the schedule runs the job whenever it is idle, which
  `ScheduleKept` says. The restriction is `OneCaller` in
  `JobWorker_proofs`; the numbers of calls and days are not part of it.
* `ApprovedUnlessFaults`, `InOrder`, `DisapprovedByAuditor` and `DisapprovalStands`
  hold for one request at a time. Two approvals at once move the item on twice and
  skip a step. The worker disapproves a monitored step that nobody decided, which
  `Watched` excuses. `ApprovedUnlessFaults`, `InOrder` and `NoOrphans` are about a store that saves
  what it is given; each fails with a lost copy or edge. `OpenUntilDecided` is about the steps
  that are in the store. When a workflow is assigned again the verdict of the first is
  kept and requests of the first are still under way: what is said of verdict and order is
  said of `StartedOnce`, while `NoOrphans` and `SequentialOnce` are checked beyond it. `WorkflowEnds` is
  stated for workflows of approvals
  only: nothing moves an item on from a review or notify step, and a workflow
  without steps never completes.
* `SequentialOnce` says nothing of parallel steps: `getAt(size - 1)` (148) iterates
  with its index as the limit and returns the first step, so approved parallel steps
  can be put before their auditors again.
* `OneTurn` and `StillQueued` are about threads that have not timed out. One that has goes on
  beside the one whose turn it is: `OneWebsite` excuses an address for which that
  happened, whose `Website` was saved without an answer, or for which a search inside the turn
  failed. `CallsReturn` of
  `ValueBlocker` assumes no time-outs, and executions in which no ID is queued twice: the
  second entry of such an ID stays at the head when its owner has left, and who comes after
  it can only time out.
* `DeletedIsSent` excuses a `faulty` run; each way of being faulty, left out of the
  excuse, is a counterexample.
* `OnlyTroubleDuplicates` says that duplicates have one of the three causes in `trouble`,
  and that nothing else (a failed search or a stop of `iterate()`, a skipped activity) makes any.
  Each cause alone gives a duplicate; for `late` no failure of anything is needed.
* `AllSent` is checked with `debug` on, and for a job that is started again and again:
  `jobs_config.json` as shipped does not automate this job. An activity that is
  deleted unsent satisfies it; that is what `DeletedIsSent` is for.
* `store_life` lets one thread construct and the other delete. With both threads
  as deleters the instance has 1.2 million states and the same safety properties
  hold of it; `CallsReturn` on it would take longer than the run may. The proofs of
  section 5 are for any set of deleters.

### Bounds

Two threads make every race of two actors; the third thread of
`update_double_finished` is the one a wrong release lets in, and in `website_turns` the
one that stands behind two others. One retry gives a first try, a retry and the failure
after the last; more repeat the same frames (proved: depth is bounded by the retries). Two versions let
a save carry an old or a new content; `Change` at the last version keeps the same
number, so changes never stop being possible. Three requests and a new day
let a stop and a restart fall between two runs of one day. Three steps give a
step before, in and after a parallel group; `MaxCopies` is the number of copies
those workflows can need in the run. Two addresses are what it takes for one thread's put to
disturb another's read. Three activities give one that is sent, one that is in the batch
and one that comes late, and do not fit a page of the deletion; two mishaps let
the second happen in the run that has to make up for the first.
Every bound is a CONSTANT of its module and stands in the guard it limits.

Deadlock is checked where threads can always begin another call. It is off for
the jobs (all requests made), the workflow (a verdict, no further starts) and the
blocker of values (all calls made), where the system stops by design; there `CallsReturn`
and `WorkflowEnds` say that nothing stops early.

### Fairness

A Java thread that can run is run: weak fairness of a thread's code steps
(`WF` of `Step`, `Engine`). Entering a monitor and the busy-wait for an ID can be
disabled by others again and again; strong fairness there assumes that the JVM
does not starve a thread for ever. What a program or ElasticSearch *decides* has no
fairness: calls need not be made, answers need not be good. `UpdatesReturn` states its
own premise, that ElasticSearch stays reachable from some time on. In
`WorkflowEnds` each auditor eventually decides, which is a fact about people, and the
premise `<>[]~Draft` that a step saved as "approved, not completed" is eventually
completed. In `JobWorker` a job ends and a wait of a minute ends. In `ValueBlocker`
the monitor and the turn are taken away and given back again and again, hence strong
fairness of a thread's steps; time-outs have none. In `UserLogging` one job object runs after
the other in one listener, so weak fairness of its `Step` is enough: it includes
that the job is started again, which a schedule or its administrator has to do. Deletes may
fail for ever.

## 5. What is proved

Proofs are checked by TLAPS for every value of the constants that satisfies the
modules' ASSUMEs: any number of threads, IDs and retries; any workflows, auditors
and copies.

**`EsActionUpdate_proofs`.** `Typing`, `BoundedRecursion` (`StackBounded`),
`NoOrphanedId` (`LockHasOwner`), `ReportedSuccess` (`SuccessIsWritten`) hold without
further assumption. `LockHasOwner` is inductive only together with the types: an ID in the queue
always has a thread at one of the four places from which it will be released,
and the double release never takes an ID away from *no* owner. `Exclusion`
(`ExclusiveUntilThrown`), `OwnerReleases` and `LockImplemented` speak of the time up to the
first exception: until then the stack is one frame deep, the queue is exactly the
set of IDs of threads inside (`ExclusionInv`, and `LockInv` is `~thrown => ExclusionInv`),
and each step is a `Start`, a `Finished` or a stutter of `VertexLock` under
`holder[id] = the owner of id`. `thrown` never becomes false again, which is why
the implication is inductive. `WindDown` holds without that restriction: every step of an
update leaves less of it, in the lexicographic order of the retries left and, in one try, of the
steps and the frames that are still to return; the other updates and ElasticSearch leave that
measure as it is.

**`JobWorker_proofs`.** `Typing` and `NoMoreExecutors` hold of every configuration: any number of
callers at a time, with and without a schedule, and with runs that outlast the minute. The
difficulty is that an executor and a listener are given names as they are made, and that the
supply of names never runs out is a count, over callers that interleave: `OneExecutorPerCall` (a
call that is going to make an executor counts as if it had, so there is one for each
call and the one the worker is born with, which is `NoMoreExecutors`) and
`OneListenerPerExecutor` bound both; with `Roles`, which says what a thread can be in the middle
of, and the types they make the invariant `OpenInv`.

`RunsAlone` (`AtMostOneRun`), `Stops` (`StoppedMeansStopped`), `OnSchedule` (`OncePerDay`),
`Listens` (`StartedListens`) and `NoThreadsLeft` are for any
number of calls of any kind and any number of days. They assume `OneCaller`: a scheduled job,
one thread that calls `doJob()`, and runs and listeners that end or wake within the minute
`stop()` waits; of these, all but the last are needed (section 4), and listeners that sleep
longer are model-checked. The heart of the invariant is `Known`: an executor that has a
listener or a task is the one the worker refers to. It is kept because `start()` makes a new one
only where `CallerKnows` says that the worker has none, which is so when `stop()` has waited for
the old one. A `stop()` that its exception ends early leaves the executor where it is; then
`CallerKnows` says only that the worker is not started, `Attended` that a listener leaves its
loop in that case only, and the request goes on without `start()`. `Stopping` is why the job has
ended all the same when such a `stop()` returns: it had seen a job (`HasJob`: some listener is
between `getJob()` and `finish()`), and when the job is gone that listener is past it, and
the only one. `Daily` is about the flag `due` and the counter together. `NoThreadsLeft` states
what no run checks by itself: every executor but the present one has been shut down, so restarts
do not collect threads. `stop()` forgets an executor only after `superStop()` has shut it down
(`Forgettable`), and `start()` shuts down the one it replaces.

**`WorkflowEngine_proofs`.** `Typing` and `NoneLost` (`NoOrphans`), for any workflows
and any number of requests at a time. The inductive invariant `IInv` adds to the types:
`Known` (all references are to copies that were made), `Phase` (a thread has copies in
its hands only between building and adding, or between listing and deleting),
`Apart` (a copy that was built and not yet added is known to nobody else, so no
other request deletes or adds it) and `Tracked` (as long as nothing was lost, a stored
copy is on the item or in somebody's hands). When all threads are idle nobody
has anything in his hands, which is `NoOrphans`. `Apart` is what makes
`Tracked` inductive: without it another thread could delete what is about to be added.
`Apart` is also why requests do not keep each other at work. `WindDown`: every step of a request
leaves less of it (its stage on the way through `next()`, `moveNext()`, `clearAndDelete()` and
`finalize()`, then the edges it has to remove there or the copies it has to add), and a step of
another request never leaves more, because what that one adds to the item is not what this one
has listed.

**`WorkflowVerdicts_proofs`.** `Approved` (`ApprovedUnlessFaults`), `Ordered` (`InOrder`),
`Undecided` (`OpenUntilDecided`), `Disapproved` (`DisapprovedByAuditor`), `Stands`
(`DisapprovalStands`) and `Once` (`SequentialOnce`). They assume `OneRequest`: a single
request at a time, and no step with an expire action; without it `workflow_swallowed` and
`workflow_overruled` are counterexamples to what the code intends. The workflows may have
any length and any mixture of kinds and actions, and may be given again; the store may fail,
which `Approved` and `Ordered` except. The invariant `VInv` follows the thread through
`moveNext()`. `OnItem`: the copies the item is on are a piece of one run of steps in the
order of their ordinals, what lies before each of them was signed or is one of them, and a
completed copy was signed. So what `Examine` goes on from was signed with all before it
(`AllSigned`), and the group that is built begins right behind (`GroupInterval`: a group has
no gap, and is empty only behind the last step). `InHand`: what was built is sorted, fresh
and ahead of every sequential step that was signed, and stays so while it is added one by
one. `AtWork` says what the thread knows where it is, `Verdict` what is claimed.

**`VertexStore_proofs`.** `Typing`, `OneDocumentOnly` (`OneDocument`) and `NoReturn`
(`DeletedForGood`), for any number of threads, objects and retries; every thread may be a
deleter, and there are more objects than threads, so that one is always free to be
read into. The inductive invariant `IInv` says that the right to have the vertex
stored is in one place at most (`OnePlace`): it is the document, or an insert that
has not been answered (the first, or one whose `fixId()` has erased the document),
or a `delete()` that erased the document and will return TRUE, or it is gone. What makes that
inductive: a thread inside `save()` or `delete()` has the monitor of its object
(`Monitors`), so nobody else takes its ID or index ID away; only the object its author
made can be without an ID, and nothing was stored as long as it is (`Named`), so an
insert is started once; nothing exists before the vertex is made (`Unmade`); and what a
thread's locals can be where it is (`Locals`). The proof is laid out by the code: what
the program does (`ProgramInv`), `save()` (`SaveInv`), the insert with its retries
(`InsertInv`), `delete()` (`DeleteInv`). Steps that leave the documents alone share the
lemma `Quiet`, all steps share `StepInv`: who leaves the others what they have only has to
see to itself. Two theorems say why calls come to an end. `NoDeadlock`: who waits for a monitor
waits for a thread that has it, and that waits for the lock of the vertex at most
(`MonitorOwned`); who waits for the lock waits for an update between `start()` and
`finished()`, which waits for nothing (`LockOwned`). So no threads wait for each other in
a circle, although a thread takes the lock while it has a monitor. `WindDown`: every step of a
call leaves less of it, in the lexicographic order of the retries left and of the steps left in
one try (an erasing request that is repeated counts its own), and other threads leave its
locals alone.

**`VertexStoreSaves_proofs`.** `TruthfulSaves` (`ReportedSave`), on top of that `IInv`. The
invariant `Contents` is `Aged` (contents are numbered as they are made, and no document and
no object has a newer one than `version`) and `Carries` (the object of a thread inside
`save()` is not older than when `save()` began, the request carries what was read from it
after that, and a result that reports success is one of a request that was written). The setters
do not wait for the monitor, so the object changes during a save, but only to newer
contents. A retried insert is not reported as a success, so what its `fixId()` finds stored does not
have to be new.

**`ValueBlocker_proofs`.** `Typing`, `KeptInLine` (`StillQueued`), `OneAtATime` (`OneTurn`)
and `TurnsImplemented` (the refinement of `ValueTurns`), for any number of threads,
addresses, calls and doubled IDs. An ID may be in its queue twice, and the entry of an ID
whose owner has left may stay in it for ever, so the queue is not the order of the turns:
what is inductive is the order of the *first* occurrences. `TurnsInv` is `Owned` (a thread
has an ID while it is in a call, and an address), `Unique` (two threads do not share an ID),
`Given` (the IDs in the queues were given out), `StillQueued`, `AtHead` (who has his turn is
the head of the queue) and `Ordered` (of two threads in line, the one with the smaller ID
occurs first). `OneTurn` follows from `AtHead` and `Unique`; that a turn goes to the
smallest number waiting, from `AtHead` and `Ordered`. The lemmas about `RemoveFirst` say
which positions survive a removal; they need a least position, taken from the
well-foundedness of the naturals. Three results stand on `TurnsInv`. `FirstComeFirstServed`:
who has his turn has a smaller number than everybody who is still in line for the address.
`OneForAll` (`OneWebsite`): with `WebsiteInv`, which says that, at an address that is not
excused, a thread about to make a Website has looked and there was none (`Makers`) and what
was stored is there once and is found (`Stored`), and that a turn is only shared at an
address somebody has timed out for (`LateExcused`); an address whose search failed is
excused too. `NoGhostInLine`: as long as no ID was queued twice, every entry of a queue
belongs to a thread that will take it out. With `FirstComeFirstServed` and `Ordered` it
gives `TurnsAreTaken`: whoever waits for his turn waits for a thread that came no later and
has its turn or may take it, himself when nobody is before him. This is the safety part of
`CallsReturn`, for any number of threads.

**`UserLogging_proofs`.** `Typing`, `DeletesAreSent` (`DeletedIsSent`) and `DuplicatesNeedTrouble`
(`OnlyTroubleDuplicates`), for any number of activities and mishaps and any page and batch sizes.
The invariant of `DeletesAreSent` is `LoggingInv`: `Phases` (what the
variables can be at each step) and, unless the run is `faulty`, `Gathering` (while it
iterates, every matching activity is sent, or in the batch, or in the rest of the page, or
at a place of the query that is still to come) and `Sent` (from the deletion on, every
matching activity, and every one in the hands of a task, is sent). `Gathering` needs that
places do not move while nothing is stored or deleted, and that none is beyond the
count (`PlaceBound`, a lemma about cardinalities). That nothing is sent twice is about several
runs: what one run has sent it must delete before the next one looks. `UntroubledInv` says
so as long as there is no trouble: what was sent and is still stored
matches this run's query (`SentOnce`) and lies at places its pages have passed (`Passed`), and
`delete()`, which asks for the first page as often as its count says, never has more left to
find than the count has left (`Clearing`). The lemma under the last is `FullPage`: if the first page
leaves anything out, what it leaves is less by the whole page size. `WindsDown` says that no run goes
on for ever: each of its steps leaves less of it in the lexicographic order of its phases, the
places of the query that are still to be asked for, and the work that is in hand (two steps for an
activity of a page, one for a task), and what happens around it never makes it more.

**Only model-checked.** All liveness properties (`UpdatesReturn`, `CallsReturn`,
`ScheduleKept`, `WorkflowEnds`, `RunEnds`, `AllSent`): reasoning about fairness and
ENABLED is out of the prover's reach. What is proved of it is what does not need fairness: that
nobody waits in a circle or behind nobody (`NoOrphanedId`, `NoDeadlock`, `TurnsAreTaken`) and
that what goes on comes to an end (the `WindDown` theorems and `WindsDown`; each order is shown to be
well-founded, by a lemma `...OrderIsWellFounded`). That the steps are taken is the fairness of
section 4, and the two are put together by TLC only. Nothing of that kind is proved of
`ScheduleKept` and `AllSent`, which are about runs that follow each other, or of when an item gets its
verdict, for which auditors have to decide. Every invariant and action property of a passing run is
stated by a theorem, some under the named hypotheses above. The verdicts of
`WorkflowEngine` are proved without the `WorkflowWorker`; with
monitored steps they are model-checked up to three steps.
No module uses recursive operators; what recursion there is in the code (`execute()`)
is a counter of frames.

## 6. What is not modelled

* **Edges** (`ElementEdges.add`, `EdgeHelper`): an edge is a vertex with the life cycle of
  `VertexStore`. That `add()` asks whether there is one and then stores it, without a lock
  and with a search that does not show recent edges, is `VertexStore`'s late search and
  `ValueBlocker`'s reason to exist once more; it is listed as a hazard.
* **The offline flag and the listeners** are in two modules that are not composed: a worker
  that would be the first to use the store stays idle while the flag is set.
* **The content of a document** is one value, so that a field set to null stays stored
  (`EsActionUpdate.java:306` merges) cannot be said.
* **Further hazards of the modelled parts** that no property is about: a failed save also
  clears the dirty flag (`ApolloVertex.java:424`, 556), so the next `save()` does
  nothing; an insert that a retry stored is reported as failed; `setUnderlying`
  (`KeyData.java:526`) leaves the dirty flag alone when it is set already; `setArgs()`
  (`JobsEngine.java:146`) overwrites the arguments of a request that was accepted before; a step
  deleted from a template is never found again (`WorkflowEngine.java:200`).
* **Handlers run by hand** (`DeduplicateData`, `DropClassHandler`, `MergeVertices`,
  reindexing): one thread, over the iterator and the life cycle that are modelled.
* **Caches with an expiry time, thread pools whose size follows the load, cache classes
  that no configuration selects, `StringBlocker`**: not used by the server as configured, or
  nothing depends on what they hold.
* **The scripts under `resource/web`** (jQuery, D3, DataTables, FullCalendar and the pages
  that use them) are third-party libraries and presentation in the browser: they keep no
  state of the server.
* Value types, identifiers, JSON, parsing: sequential and without state. Access decisions
  are not a subject of this project.

## 7. Running

    tlc -workers 2 -config StoreLife.cfg MCVertexStore
    tlapm WorkflowEngine_proofs.tla

Each run ends within five minutes with two workers; the longest ones are those that check a
liveness property.
