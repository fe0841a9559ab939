------------------------------ MODULE JobWorker ------------------------------
(***************************************************************************)
(* One configured job: its JobItem, its JobWorker, the executor threads    *)
(* whose IntervalListener runs the job, and the threads that call          *)
(* JobsEngine.doJob() to run, stop or restart it (the REST service).       *)
(*                                                                         *)
(* A step reads or writes one shared field, or fields that no other thread *)
(* can use in between.  All of them are volatile or set in synchronized    *)
(* setters, so the steps of different threads interleave.                  *)
(***************************************************************************)
EXTENDS Integers, Sequences, FiniteSets, FiniteSetsExt

CONSTANTS Callers,      \* threads that call doJob()
          MaxRequests,  \* how many calls of doJob() there are (bound)
          MaxDays,      \* how often the time of day of the job comes (bound)
          Configs,      \* how the job may be configured: see schedule
          Kinds,        \* the calls made: "run", "stop", "restart"
          Timeouts      \* where a thread may stay for the minute that stop() waits

ASSUME BoundsAssumption == MaxRequests \in Nat /\ MaxDays \in Nat
ASSUME KindsAssumption == Kinds \subseteq {"run", "stop", "restart"}
\* A job runs on request only ("none": not automated), or also by itself, every
\* day when its time has come ("hour"), or, with a time of day of "0", whenever it
\* is idle ("always").
Schedules == {"none", "hour", "always"}

ASSUME ConfigsAssumption == Configs \subseteq Schedules
ASSUME TimeoutsAssumption == Timeouts \subseteq {"job", "loop"}

Executors == 1..MaxRequests + 1   \* each call starts one executor at most
Objects == 1..MaxRequests + 3     \* names for listeners and for job objects
Null == 0

ASSUME CallersAssumption == Callers \cap Executors = {}
Threads == Callers \cup Executors

VARIABLES
    schedule,                   \* JobItem.isAutomated() and its time of day
    started, running, runOnce,  \* the flags of the worker
    executor,                   \* BaseAssistantWorker.executorService
    listener,                   \* JobWorker.listener
    job,                        \* JobWorker.job
    itemJob,                    \* JobItem.job
    args,                       \* JobItem.args: the request they came with
    due,                        \* JobItem.isAutomated() && isElapsed()
    stopped,                    \* the listeners that were told to stop
    created,                    \* how many executors there have been
    shut,                       \* the executors that were shut down
    tasks,                      \* tasks[e]: listeners submitted to e
    pc,
    kind, request,              \* what a caller asked for
    resume,                     \* where a thread goes on after stop()
    awaited,                    \* the executor stop() waits for
    listening,                  \* the listener an executor thread runs
    mine,                       \* the job object an executor thread runs
    requests,                   \* calls of doJob() so far
    days,                       \* days so far
    accepted,                   \* run requests doJob() returned true for
    ran,                        \* requests whose arguments a run was given
    today                       \* runs an "hour" schedule made since the last new day

flags == <<started, running, runOnce>>
refs == <<executor, listener, job, itemJob>>
item == <<args, due>>
pool == <<created, shut, tasks>>
locals == <<kind, request, resume, awaited, listening, mine>>
history == <<requests, days, accepted, ran, today>>
vars == <<schedule, flags, refs, item, stopped, pool, pc, locals, history>>

JobPc == "job"    \* a thread inside BaseJob.start(), the job itself

CallerPCs == {"idle", "decide", "restarted", "startNew", "startSubmit",
              "runOnce", "reset", "return"}
ListenerPCs == {"none", "loop", "check", "claim", "available", "getJob",
                "begin", JobPc, "finish", "stopSelf", "clearRunOnce",
                "clearRunning"}
StopPCs == {"flags", "stopJob", "callStop", "superStop", "await", "endStop"}

automated == schedule # "none"

\* isElapsed() of a job that has not run today: its time has come or not.
DueAgain == IF schedule = "hour" THEN BOOLEAN ELSE {schedule = "always"}

Init ==
    /\ schedule \in Configs
    /\ started = automated
    /\ running = FALSE /\ runOnce = FALSE
    /\ executor = IF automated THEN 1 ELSE Null
    /\ listener = IF automated THEN 1 ELSE Null
    /\ job = Null /\ itemJob = Null /\ args = Null
    /\ due \in DueAgain
    /\ stopped = {}
    /\ created = IF automated THEN 1 ELSE 0
    /\ shut = {}
    /\ tasks = [e \in Executors |-> IF automated /\ e = 1 THEN <<1>> ELSE <<>>]
    /\ pc = [t \in Threads |-> IF t \in Callers THEN "idle" ELSE "none"]
    /\ kind = [c \in Callers |-> "run"]
    /\ request = [c \in Callers |-> Null]
    /\ resume = [t \in Threads |-> "none"]
    /\ awaited = [t \in Threads |-> Null]
    /\ listening = [e \in Executors |-> Null]
    /\ mine = [e \in Executors |-> Null]
    /\ requests = 0 /\ days = 0 /\ accepted = {} /\ ran = {} /\ today = 0

Goto(t, label) == pc' = [pc EXCEPT ![t] = label]
At(t, label) == t \in Threads /\ pc[t] = label

LiveListeners == {listener} \cup {listening[e] : e \in Executors}
                   \cup UNION {{tasks[e][i] : i \in DOMAIN tasks[e]} : e \in Executors}
NewListener == Min(Objects \ LiveListeners)

\* BaseJob objects: JobItem.getJob() makes one when the item has none.
NewJob == Min(Objects \ ({job, itemJob} \cup {mine[e] : e \in Executors}))
ItemJob == IF itemJob = Null THEN NewJob ELSE itemJob
-----------------------------------------------------------------------------
\* JobsEngine.doJob(): the arguments are stored before anything is decided.
DoJob(c, k) ==
    /\ pc[c] = "idle"
    /\ requests < MaxRequests
    /\ requests' = requests + 1
    /\ kind' = [kind EXCEPT ![c] = k]
    /\ request' = [request EXCEPT ![c] = requests + 1]
    /\ args' = requests + 1
    /\ Goto(c, "decide")
    /\ UNCHANGED <<schedule, flags, refs, due, stopped, pool, resume, awaited, listening,
                   mine, days, accepted, ran, today>>

CallStop(t, then) ==
    /\ resume' = [resume EXCEPT ![t] = then]
    /\ Goto(t, "flags")

StartsOnlyIfIdle == ~running

\* reset, stop or run; a run request is refused while the job is running.
Decide(c) ==
    /\ At(c, "decide")
    /\ \/ kind[c] = "restart" /\ CallStop(c, "restarted")
       \/ kind[c] = "stop" /\ CallStop(c, "return")
       \/ kind[c] = "run" /\ StartsOnlyIfIdle /\ CallStop(c, "startNew")
       \/ kind[c] = "run" /\ ~StartsOnlyIfIdle /\ Goto(c, "return")
                          /\ UNCHANGED resume
    /\ UNCHANGED <<flags, refs, item, stopped, pool, kind, request, awaited,
                   listening, mine, history>>

\* BaseAssistantWorker.restart(): start(), which stops once more.
Restarted(c) ==
    /\ At(c, "restarted")
    /\ IF started THEN Goto(c, "reset") /\ UNCHANGED resume
                  ELSE CallStop(c, "startNew")
    /\ UNCHANGED <<flags, refs, item, stopped, pool, kind, request, awaited,
                   listening, mine, history>>

AfterStart(c) == IF kind[c] = "restart" THEN "reset" ELSE "runOnce"

\* start(): a new executor, unless somebody else has started the worker.
StartNew(c) ==
    /\ At(c, "startNew")
    /\ IF started
       THEN /\ Goto(c, AfterStart(c))
            /\ UNCHANGED <<executor, created, shut>>
       ELSE /\ shut' = shut \cup ({executor} \ {Null})
            /\ created' = created + 1
            /\ executor' = created + 1
            /\ Goto(c, "startSubmit")
    /\ UNCHANGED <<flags, listener, job, itemJob, item, stopped, tasks, locals,
                   history>>

\* started = true, then submit(getListener()).  An executor that another
\* thread has set to null or shut down meanwhile makes this throw.
StartSubmit(c) ==
    /\ At(c, "startSubmit")
    /\ started' = TRUE
    /\ listener' = IF listener = Null THEN NewListener ELSE listener
    /\ tasks' = IF executor \in {Null} \cup shut THEN tasks
                ELSE [tasks EXCEPT ![executor] = Append(@, listener')]
    /\ stopped' = stopped \ (IF listener = Null THEN {listener'} ELSE {})
    /\ Goto(c, AfterStart(c))
    /\ UNCHANGED <<running, runOnce, executor, job, itemJob, item, created, shut,
                   locals, history>>

AcceptsPending(c) == args       \* mutant: not the request of this call
Accepts(c) == request[c]

\* worker.setRunOnce(true); result=true;
RunOnce(c) ==
    /\ At(c, "runOnce")
    /\ runOnce' = TRUE
    /\ accepted' = accepted \cup {Accepts(c)}
    /\ Goto(c, "return")
    /\ UNCHANGED <<started, running, refs, item, stopped, pool, locals, requests,
                   days, ran, today>>

\* JobWorker.reset(): forget the job, its arguments and its last run.
Reset(c) ==
    /\ At(c, "reset")
    /\ job' = Null /\ itemJob' = Null
    /\ args' = Null
    /\ due' \in DueAgain
    /\ today' = 0
    /\ Goto(c, "return")
    /\ UNCHANGED <<flags, executor, listener, stopped, pool, locals, requests,
                   days, accepted, ran>>

Return(c) ==
    /\ At(c, "return")
    /\ Goto(c, "idle")
    /\ UNCHANGED <<flags, refs, item, stopped, pool, locals, history>>
-----------------------------------------------------------------------------
\* JobWorker.stop(), by a caller or by the job's own listener thread.
StopFlags(t) ==
    /\ At(t, "flags")
    /\ started' = FALSE /\ runOnce' = FALSE /\ running' = FALSE
    /\ Goto(t, "stopJob")
    /\ UNCHANGED <<refs, item, stopped, pool, locals, history>>

\* if (null != getJob()) getJob().stop(): the job is asked to end.
StopJob(t) ==
    /\ At(t, "stopJob")
    /\ Goto(t, IF job = Null THEN "superStop" ELSE "callStop")
    /\ UNCHANGED <<flags, refs, item, stopped, pool, locals, history>>

\* Where the exception is caught if the job has gone between the two calls.
Handler(t) == CASE resume[t] = "startNew" -> AfterStart(t)
                [] resume[t] = "clearRunOnce" -> "clearRunOnce"
                [] OTHER -> "return"

CallStopJob(t) ==
    /\ At(t, "callStop")
    /\ Goto(t, IF job = Null THEN Handler(t) ELSE "superStop")
    /\ UNCHANGED <<flags, refs, item, stopped, pool, locals, history>>

\* BaseAssistantWorker.stop(): stop the listener and shut the executor down ...
SuperStop(t) ==
    /\ At(t, "superStop")
    /\ started' = FALSE
    /\ IF executor = Null
       THEN Goto(t, "endStop") /\ UNCHANGED <<awaited, shut, listener, stopped>>
       ELSE /\ listener' = IF listener = Null THEN NewListener ELSE listener
            /\ stopped' = stopped \cup {listener'}
            /\ shut' = shut \cup {executor}
            /\ awaited' = [awaited EXCEPT ![t] = executor]
            /\ Goto(t, "await")
    /\ UNCHANGED <<running, runOnce, executor, job, itemJob, item, created, tasks,
                   kind, request, resume, listening, mine, history>>

Terminated(e) == e \in shut /\ pc[e] = "none" /\ tasks[e] = <<>>

\* ... wait for its thread, for a minute at most.  A job can go on for that long,
\* a listener can sleep (in "loop", before it looks again: shutdown() does not
\* wake it), and one that stops its own worker waits for itself.
MinuteLongAlways(e) == TRUE   \* mutant: stop() does not wait
MinuteLongNever(e) == FALSE   \* mutant: awaitTermination() without a limit
MinuteLong(e) == pc[e] \in {"await"} \cup Timeouts

Await(t) ==
    /\ At(t, "await")
    /\ Terminated(awaited[t]) \/ MinuteLong(awaited[t])
    /\ Goto(t, "endStop")
    /\ UNCHANGED <<flags, refs, item, stopped, pool, locals, history>>

\* finally { executorService = null; setListener(null); }
EndStop(t) ==
    /\ At(t, "endStop")
    /\ executor' = Null /\ listener' = Null
    /\ awaited' = [awaited EXCEPT ![t] = Null]
    /\ Goto(t, resume[t])
    /\ UNCHANGED <<flags, job, itemJob, item, stopped, pool, kind, request,
                   resume, listening, mine, history>>
-----------------------------------------------------------------------------
\* The executor's thread takes the next listener: IntervalListener.call().
Call(e) ==
    /\ At(e, "none")
    /\ tasks[e] # <<>>
    /\ tasks' = [tasks EXCEPT ![e] = Tail(@)]
    /\ stopped' = stopped \ {Head(tasks[e])}
    /\ IF started THEN /\ listening' = [listening EXCEPT ![e] = Head(tasks[e])]
                       /\ Goto(e, "loop")
                  ELSE UNCHANGED <<listening, pc>>
    /\ UNCHANGED <<flags, refs, item, created, shut, kind, request, resume,
                   awaited, mine, history>>

\* mutant: a worker that is to run once does not need its listener any more
KeepsListeningUnlessRunOnce(e) ==
    started /\ listening[e] \notin stopped /\ ~runOnce
KeepsListening(e) == started /\ listening[e] \notin stopped

\* listen(): the loop condition.
Listen(e) ==
    /\ At(e, "loop")
    /\ IF KeepsListening(e) THEN Goto(e, "check") /\ UNCHANGED listening
       ELSE Goto(e, "none") /\ listening' = [listening EXCEPT ![e] = Null]
    /\ UNCHANGED <<flags, refs, item, stopped, pool, kind, request, resume,
                   awaited, mine, history>>

\* doWork(): nothing to do while the worker is running ...
Check(e) ==
    /\ At(e, "check")
    /\ Goto(e, IF running THEN "loop" ELSE "claim")
    /\ UNCHANGED <<flags, refs, item, stopped, pool, locals, history>>

Claim(e) ==
    /\ At(e, "claim")
    /\ running' = TRUE
    /\ Goto(e, "available")
    /\ UNCHANGED <<started, runOnce, refs, item, stopped, pool, locals, history>>

\* ... otherwise run if asked to, or if the schedule says so.  Asking the
\* schedule makes the item's job object, if it has none.
IsRunning(j) == \E e \in Executors : pc[e] = JobPc /\ mine[e] = j
Scheduled == due /\ ~IsRunning(itemJob)

Available(e) ==
    /\ At(e, "available")
    /\ itemJob' = IF runOnce THEN itemJob ELSE ItemJob
    /\ Goto(e, IF runOnce \/ Scheduled THEN "getJob" ELSE "finish")
    /\ today' = IF ~runOnce /\ Scheduled /\ schedule = "hour" THEN today + 1
                ELSE today
    /\ UNCHANGED <<flags, executor, listener, job, item, stopped, pool, locals,
                   requests, days, accepted, ran>>

SetLastRunNever == UNCHANGED due    \* mutant: lastRun is not recorded
SetLastRun == due' = (schedule = "always")

GetJob(e) ==
    /\ At(e, "getJob")
    /\ SetLastRun
    /\ itemJob' = ItemJob
    /\ job' = ItemJob
    /\ Goto(e, "begin")
    /\ UNCHANGED <<flags, executor, listener, args, stopped, pool, locals,
                   history>>

\* getJob().begin(processStatus, args), unless a reset has taken the job away.
Begin(e) ==
    /\ At(e, "begin")
    /\ IF job = Null
       THEN Goto(e, "finish") /\ UNCHANGED <<mine, ran>>
       ELSE /\ mine' = [mine EXCEPT ![e] = job]
            /\ ran' = ran \cup ({args} \ {Null})
            /\ Goto(e, JobPc)
    /\ UNCHANGED <<flags, refs, item, stopped, pool, kind, request, resume,
                   awaited, listening, requests, days, accepted, today>>

\* The job ends, by itself, told to stop, or with an exception.
EndJob(e) ==
    /\ At(e, JobPc)
    /\ mine' = [mine EXCEPT ![e] = Null]
    /\ Goto(e, "finish")
    /\ UNCHANGED <<flags, refs, item, stopped, pool, kind, request, resume,
                   awaited, listening, history>>

\* finish(): drop the job and its arguments ...
Finish(e) ==
    /\ At(e, "finish")
    /\ IF job = Null THEN UNCHANGED <<args, itemJob, job>>
       ELSE args' = Null /\ itemJob' = Null /\ job' = Null
    /\ Goto(e, "stopSelf")
    /\ UNCHANGED <<flags, executor, listener, due, stopped, pool, locals, history>>

\* ... a job that ran on request stops its worker ...
StopSelf(e) ==
    /\ At(e, "stopSelf")
    /\ IF runOnce /\ ~automated THEN CallStop(e, "clearRunOnce")
       ELSE Goto(e, "clearRunOnce") /\ UNCHANGED resume
    /\ UNCHANGED <<flags, refs, item, stopped, pool, kind, request, awaited,
                   listening, mine, history>>

\* ... and the flags are cleared.
ClearRunOnce(e) ==
    /\ At(e, "clearRunOnce")
    /\ runOnce' = FALSE
    /\ Goto(e, "clearRunning")
    /\ UNCHANGED <<started, running, refs, item, stopped, pool, locals, history>>

ClearRunning(e) ==
    /\ At(e, "clearRunning")
    /\ running' = FALSE
    /\ Goto(e, "loop")
    /\ UNCHANGED <<started, runOnce, refs, item, stopped, pool, locals, history>>

\* A new day: the time of day of the job passes again.
NewDay ==
    /\ days < MaxDays
    /\ days' = days + 1
    /\ due' = automated
    /\ today' = 0
    /\ UNCHANGED <<schedule, flags, refs, args, stopped, pool, pc, locals, requests,
                   accepted, ran>>

CallerStep(c) ==
    \/ Decide(c) \/ Restarted(c) \/ StartNew(c) \/ StartSubmit(c)
    \/ RunOnce(c) \/ Reset(c) \/ Return(c)
StopStep(t) ==
    \/ StopFlags(t) \/ StopJob(t) \/ CallStopJob(t) \/ SuperStop(t)
    \/ Await(t) \/ EndStop(t)
ListenerStep(e) ==
    \/ Call(e) \/ Listen(e) \/ Check(e) \/ Claim(e) \/ Available(e)
    \/ GetJob(e) \/ Begin(e) \/ EndJob(e) \/ Finish(e) \/ StopSelf(e)
    \/ ClearRunOnce(e) \/ ClearRunning(e)
Step(t) ==
    /\ \/ t \in Callers /\ CallerStep(t)
       \/ t \in Executors /\ ListenerStep(t)
       \/ StopStep(t)
    /\ UNCHANGED schedule

Next == \/ \E c \in Callers, k \in Kinds : DoJob(c, k)
        \/ \E t \in Threads : Step(t)
        \/ NewDay

Spec == Init /\ [][Next]_vars

\* Every thread keeps running, a job ends and a wait times out.
FairSpec == Spec /\ \A t \in Threads : WF_vars(Step(t))
-----------------------------------------------------------------------------
\* Type invariant of the worker.
TypeOK ==
    /\ schedule \in Configs
    /\ started \in BOOLEAN /\ running \in BOOLEAN /\ runOnce \in BOOLEAN
    /\ executor \in 0..created
    /\ {listener, job, itemJob} \subseteq Objects \cup {Null}
    /\ args \in 0..requests
    /\ due \in BOOLEAN
    /\ stopped \subseteq Objects
    /\ created \in 0..MaxRequests + 1
    /\ shut \subseteq 1..created
    /\ DOMAIN tasks = Executors
    /\ pc \in [Threads -> CallerPCs \cup ListenerPCs \cup StopPCs]
    /\ kind \in [Callers -> {"run", "stop", "restart"}]
    /\ request \in [Callers -> 0..requests]
    /\ awaited \in [Threads -> 0..created]
    /\ {mine[e] : e \in Executors} \cup {listening[e] : e \in Executors}
          \subseteq Objects \cup {Null}
    /\ requests \in 0..MaxRequests /\ days \in 0..MaxDays
    /\ accepted \cup ran \subseteq 1..requests

\* A job is never run by two threads at once.
AtMostOneRun == \A d, e \in Executors : pc[d] = JobPc /\ pc[e] = JobPc => d = e

\* When stop() returns to doJob() no thread is running the job.
StoppedMeansStopped ==
    \A c \in Callers : At(c, "return") /\ kind[c] = "stop" =>
        \A e \in Executors : pc[e] # JobPc

\* Checking for the same day prevents multiple executions by the schedule, of a
\* job that has a time of day: one with "0" runs again and again.
OncePerDay == today <= 1

\* Somebody listens for a worker that is started, unless a call is under way.
StartedListens ==
    started /\ (\A t \in Threads : pc[t] \notin (CallerPCs \cup StopPCs) \ {"idle"}) =>
        \E e \in Executors : tasks[e] # <<>> \/ pc[e] # "none"

\* Every call of doJob() returns.
CallsReturn == \A c \in Callers : At(c, "decide") ~> At(c, "idle")

\* A job that doJob() says it has started is run.
AcceptedRuns ==
    \A r \in 1..MaxRequests : r \in accepted ~> r \in ran

\* The schedule is kept: a job that is due is run, or its worker stopped.
RunsAgain ==
    IF schedule = "always" THEN \E e \in Executors : pc[e] = JobPc ELSE ~due
ScheduleKept == due /\ started ~> RunsAgain \/ ~started
=============================================================================
