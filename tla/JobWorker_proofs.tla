--------------------------- MODULE JobWorker_proofs ---------------------------
(***************************************************************************)
(* What holds of a scheduled job, with a time of day or without, with one  *)
(* caller of doJob() at a time, a job that ends when it is told to and a   *)
(* listener that wakes within the minute stop() waits, for any number of   *)
(* calls of any kind and any number of days.  Without these limits the     *)
(* properties fail (see the README).  At the end, what holds without them: *)
(* the types, and that the worker makes no more executors than there are   *)
(* calls.                                                                  *)
(*                                                                         *)
(* The argument: one executor at most has a listener, and it is the one    *)
(* the worker knows.  A new one is made only when stop() has waited for    *)
(* the old one; if stop() is left early, by the exception of a job that    *)
(* has gone, no executor is made, and the listener that was left alone     *)
(* finds the worker not started.                                           *)
(***************************************************************************)
EXTENDS JobWorker, FiniteSetTheorems, SequenceTheorems, WellFoundedInduction, TLAPS

OneCaller ==
    /\ \E c : Callers = {c}
    /\ Configs \subseteq {"hour", "always"}
    /\ Timeouts = {}

Idle(e) == pc[e] = "none" /\ tasks[e] = <<>>
AllIdle == \A e \in Executors : Idle(e)

\* Nobody but the caller stops the worker, and no executor is given two listeners.
Shapes ==
    /\ schedule \in {"hour", "always"}
    /\ \A c \in Callers : pc[c] \in CallerPCs \cup StopPCs
    /\ \A e \in Executors : pc[e] \in ListenerPCs
    /\ resume \in [Threads -> {"none", "restarted", "return", "startNew"}]
    /\ mine \in [Executors -> Objects \cup {Null}]
    /\ listening \in [Executors -> Objects \cup {Null}]
    /\ \A e \in Executors : tasks[e] = <<>> \/ \E l \in Objects : tasks[e] = <<l>>

\* A thread has a listener while it listens, and a job while it runs it.
Holding ==
    \A e \in Executors :
        /\ pc[e] = "none" => listening[e] = Null
        /\ pc[e] # JobPc => mine[e] = Null

\* The executor that has something to do is the one the worker knows.
Known == \A e \in Executors : ~Idle(e) => e = executor

\* A call makes one executor at most.
Counted ==
    /\ created <= requests + 1
    /\ \A c \in Callers :
          pc[c] \in {"decide", "restarted", "startNew"} \cup StopPCs => created <= requests

\* What the caller knows while it stops the worker and starts it again.
CallerKnows(c) ==
    /\ pc[c] # "idle" => request[c] # Null
    /\ pc[c] \in StopPCs => resume[c] # "none"
    /\ pc[c] \in {"restarted", "startNew"} => executor = Null /\ listener = Null
    /\ pc[c] = "await" => awaited[c] = executor /\ executor \in shut
    /\ pc[c] = "endStop" => AllIdle
    /\ pc[c] = "startSubmit" =>
          executor \in Executors \ shut /\ listener = Null /\ AllIdle
    /\ pc[c] # "startSubmit" /\ executor # Null => listener # Null
    /\ pc[c] \in (StopPCs \ {"flags"}) \cup {"restarted", "startNew", "startSubmit"}
          => ~started

\* Only a call of another kind starts the worker.
Purpose(c) ==
    kind[c] = "stop" =>
        /\ pc[c] \notin {"restarted", "startNew", "startSubmit", "runOnce", "reset"}
        /\ pc[c] \in StopPCs => resume[c] = "return"

\* A worker that is started has a listener that was not told to stop.
Attended ==
    started =>
        /\ executor \in Executors
        /\ \/ pc[executor] = "none" /\ tasks[executor] # <<>>
           \/ pc[executor] # "none" /\ listening[executor] \notin stopped

Ahead == {"check", "claim", "available", "getJob"}     \* of the job

\* The worker has a job only from getJob() to finish().
HasJob == job # Null => \E e \in Executors : pc[e] \in {"begin", JobPc, "finish"}

\* Once stop() has seen a job its listener does not get to another.
Stopping(c) ==
    /\ pc[c] = "callStop" => \A e \in Executors :
          pc[e] \notin Ahead /\ (pc[e] \in {"begin", JobPc} => job # Null)
    /\ pc[c] = "return" /\ kind[c] = "stop" =>
          ~started /\ \A e \in Executors : pc[e] \notin Ahead \cup {"begin", JobPc}

\* A schedule that was met is due again only on another day.
Daily ==
    /\ today \in {0, 1} /\ (today = 1 => schedule = "hour")
    /\ today = 1 /\ due => \E e \in Executors : pc[e] = "getJob"

Control ==
    /\ Known /\ Counted /\ Attended /\ HasJob /\ Daily
    /\ \A c \in Callers : CallerKnows(c) /\ Purpose(c) /\ Stopping(c)

IInv == TypeOK /\ Shapes /\ Holding /\ Control

-----------------------------------------------------------------------------
\* A set of natural numbers has a least element.
LEMMA LeastElement ==
    ASSUME NEW I \in SUBSET Nat, I # {}
    PROVE  Min(I) \in I
<1> DEFINE Less == OpToRel(<, Nat)
<1>1. IsWellFoundedOn(Less, Nat)
  BY NatLessThanWellFounded
<1>2. \A x, y \in Nat : <<x, y>> \in Less <=> x < y
  BY DEF OpToRel
<1> HIDE DEF Less
<1>3. PICK i \in I : \A j \in I : ~(<<j, i>> \in Less)
  BY <1>1, WFMin
<1>4. \A j \in I : i <= j
  <2>1. SUFFICES ASSUME NEW j \in I
                 PROVE  i <= j
    OBVIOUS
  <2>2. i \in Nat /\ j \in Nat
    OBVIOUS
  <2>3. ~(j < i)
    BY <1>2, <1>3, <2>2
  <2> QED
    BY <2>2, <2>3
<1> QED
  BY <1>3, <1>4 DEF Min

\* There is a name for every new listener, and for every new job.
LEMMA Names ==
    ASSUME IInv, NEW j \in Objects \cup {Null}
    PROVE  /\ Min(Objects \ {Null}) \in Objects
           /\ Min(Objects \ {j, Null}) \in Objects
<1>1. /\ 1 \in Objects /\ 2 \in Objects /\ Objects \subseteq Nat /\ Null = 0
  BY BoundsAssumption DEF Objects, Null
<1>2. /\ Objects \ {Null} # {} /\ Objects \ {Null} \in SUBSET Nat
      /\ Objects \ {j, Null} # {} /\ Objects \ {j, Null} \in SUBSET Nat
  BY <1>1
<1> QED
  BY <1>2, LeastElement

LEMMA NewListenerName ==
    ASSUME IInv, AllIdle, listener = Null
    PROVE  NewListener \in Objects
<1>1. \A e \in Executors : listening[e] = Null /\ DOMAIN tasks[e] = {}
  BY DEF IInv, Holding, AllIdle, Idle
<1>2. LiveListeners \subseteq {Null} /\ listener \in LiveListeners
  BY <1>1 DEF LiveListeners
<1>3. Objects \ LiveListeners = Objects \ {Null}
  BY <1>2
<1> QED
  BY <1>3, Names DEF NewListener

LEMMA ItemJobName ==
    ASSUME IInv, NEW e \in Executors, pc[e] \notin {"none", JobPc}
    PROVE  ItemJob \in Objects
<1>1. \A d \in Executors : mine[d] = Null
  BY DEF IInv, Holding, Control, Known, Idle, JobPc
<1>2. job \in Objects \cup {Null} /\ itemJob \in Objects \cup {Null}
  BY DEF IInv, TypeOK
<1>3. CASE itemJob = Null
  <2>1. Objects \ ({job, itemJob} \cup {mine[d] : d \in Executors}) = Objects \ {job, Null}
    BY <1>1, <1>3
  <2> QED
    BY <1>2, <1>3, <2>1, Names DEF ItemJob, NewJob
<1>4. CASE itemJob # Null
  BY <1>2, <1>4 DEF ItemJob
<1> QED
  BY <1>3, <1>4

-----------------------------------------------------------------------------
\* What every step starts from.
LEMMA Base ==
    ASSUME OneCaller, IInv, NEW c \in Callers
    PROVE  /\ c \in Threads /\ c \notin Executors /\ Executors \subseteq Threads
           /\ Threads = {c} \cup Executors /\ \A d \in Callers : d = c
           /\ Timeouts = {} /\ Null \notin Executors /\ Null \notin Objects
           /\ pc[c] \in CallerPCs \cup StopPCs
           /\ CallerKnows(c) /\ Purpose(c) /\ Stopping(c)
  BY CallersAssumption, BoundsAssumption
     DEF OneCaller, IInv, Shapes, Control, Threads, Executors, Objects, Null

LEMMA StillCounted ==
    ASSUME NEW made \in Nat, NEW before \in Nat, NEW after \in Nat, before <= after
    PROVE  /\ made <= before + 1 => made <= after + 1
           /\ made <= before => made <= after
  OBVIOUS

Beginning == {"decide", "restarted", "startNew"} \cup StopPCs

\* A step of the caller that the listeners do not notice, but for the flags.
LEMMA CallerFrame ==
    ASSUME OneCaller, IInv, NEW c \in Callers, TypeOK',
           \A e \in Executors : pc'[e] = pc[e],
           UNCHANGED <<schedule, tasks, listening, mine, executor, stopped>>,
           pc'[c] \in CallerPCs \cup StopPCs,
           resume' = resume \/
               \E label \in {"restarted", "return", "startNew"} :
                   resume' = [resume EXCEPT ![c] = label],
           started' => started,
           job' = job \/ job' = Null,
           UNCHANGED <<today, due>> \/ today' = 0,
           created' = created, requests <= requests',
           pc'[c] \in Beginning => pc[c] \in Beginning \/ created' <= requests',
           CallerKnows(c)', Purpose(c)', Stopping(c)'
    PROVE  IInv'
<1>1. Shapes'
  <2>1. resume' \in [Threads -> {"none", "restarted", "return", "startNew"}]
    BY DEF IInv, Shapes
  <2> QED
    BY <2>1, Base DEF IInv, Shapes
<1>2. Holding'
  BY DEF IInv, Holding
<1>3. Known' /\ Attended' /\ HasJob' /\ Daily'
  BY DEF IInv, Control, Known, Idle, Attended, HasJob, Daily
<1>4. Counted'
  <2>1. created <= requests + 1 /\ (pc[c] \in Beginning => created <= requests)
    BY DEF IInv, Control, Counted, Beginning
  <2>2. created \in Nat /\ requests \in Nat /\ requests' \in Nat
    BY BoundsAssumption DEF IInv, TypeOK
  <2>3. created' <= requests' + 1 /\ (pc'[c] \in Beginning => created' <= requests')
    <3>1. requests <= requests' /\ created' = created
      OBVIOUS
    <3>2. created <= requests' + 1 /\ (created <= requests => created <= requests')
      BY <2>1, <2>2, <3>1, StillCounted
    <3> QED
      BY <2>1, <3>1, <3>2
  <2> QED
    BY <2>3, Base DEF Counted, Beginning
<1>5. \A d \in Callers : CallerKnows(d)' /\ Purpose(d)' /\ Stopping(d)'
  BY Base
<1> QED
  BY <1>1, <1>2, <1>3, <1>4, <1>5 DEF IInv, Control

LEMMA DoJobStep ==
    ASSUME OneCaller, IInv, NEW c \in Callers, NEW k \in Kinds, DoJob(c, k)
    PROVE  IInv'
<1>1. /\ UNCHANGED <<schedule, flags, refs, due, stopped, pool, resume, awaited, listening,
                     mine, days, accepted, ran, today>>
      /\ pc[c] = "idle" /\ pc' = [pc EXCEPT ![c] = "decide"] /\ requests' = requests + 1
      /\ request' = [request EXCEPT ![c] = requests + 1] /\ kind' = [kind EXCEPT ![c] = k]
      /\ args' = requests + 1 /\ requests < MaxRequests
  BY DEF DoJob, Goto
<1>2. TypeOK /\ created <= requests + 1 /\ created \in Nat /\ Null = 0
  BY BoundsAssumption DEF IInv, TypeOK, Control, Counted, Null
<1>3. /\ requests \in Nat /\ requests' \in 0..MaxRequests /\ requests + 1 # 0
      /\ 0..requests \subseteq 0..requests' /\ 1..requests \subseteq 1..requests'
      /\ requests' \in 0..requests' /\ requests <= requests' /\ created' <= requests'
  BY <1>1, <1>2, BoundsAssumption DEF TypeOK, pool
<1>4. pc' \in [Threads -> CallerPCs \cup ListenerPCs \cup StopPCs]
  BY <1>1, <1>2 DEF TypeOK, CallerPCs
<1>5. request' \in [Callers -> 0..requests']
  BY <1>1, <1>2, <1>3 DEF TypeOK
<1>6. kind' \in [Callers -> {"run", "stop", "restart"}]
  BY <1>1, <1>2, KindsAssumption DEF TypeOK
<1>7. TypeOK'
  BY <1>1, <1>2, <1>3, <1>4, <1>5, <1>6 DEF TypeOK, flags, refs, pool
<1>8. pc'[c] = "decide" /\ request'[c] # Null /\ \A e \in Executors : pc'[e] = pc[e]
  BY <1>1, <1>2, <1>3, Base DEF TypeOK
<1>9. CallerKnows(c)' /\ Purpose(c)' /\ Stopping(c)'
  BY <1>1, <1>8, Base DEF CallerKnows, Purpose, Stopping, StopPCs, refs
<1> QED
  BY <1>1, <1>3, <1>7, <1>8, <1>9, CallerFrame DEF flags, refs, pool, CallerPCs

\* The steps of the caller that change no executor.
LEMMA CallerSteps ==
    ASSUME OneCaller, IInv, NEW c \in Callers, UNCHANGED schedule,
           \/ Decide(c) \/ Restarted(c) \/ RunOnce(c) \/ Reset(c) \/ Return(c)
           \/ StopFlags(c) \/ StopJob(c) \/ CallStopJob(c) \/ Await(c)
    PROVE  IInv'
<1>1. /\ TypeOK /\ CallerKnows(c) /\ Purpose(c) /\ Stopping(c) /\ c \in Threads
      /\ DOMAIN resume = Threads /\ \A e \in Executors : e \in Threads /\ e # c
      /\ HasJob /\ Known /\ Timeouts = {}
  BY Base DEF IInv, Shapes, Control
<1> USE DEF Goto, At, CallStop, flags, refs, item, pool, locals, history
<1>2. CASE Decide(c)
  <2>1. /\ UNCHANGED <<flags, refs, item, stopped, pool, kind, request, awaited,
                       listening, mine, history>>
        /\ pc[c] = "decide" /\ \A e \in Executors : pc'[e] = pc[e]
        /\ \/ pc'[c] = "return" /\ kind[c] = "run" /\ resume' = resume
           \/ /\ pc'[c] = "flags"
              /\ \E label \in {"restarted", "return", "startNew"} :
                    /\ resume' = [resume EXCEPT ![c] = label]
                    /\ kind[c] = "stop" => label = "return"
    BY <1>1, <1>2 DEF Decide, TypeOK
  <2>2. TypeOK'
    BY <1>1, <1>2 DEF Decide, TypeOK, CallerPCs, StopPCs
  <2>3. CallerKnows(c)' /\ Purpose(c)' /\ Stopping(c)'
    BY <1>1, <2>1 DEF CallerKnows, Purpose, Stopping, StopPCs
  <2> QED
    BY <2>1, <2>2, <2>3, CallerFrame DEF CallerPCs, StopPCs, Beginning, TypeOK
<1>3. CASE Restarted(c)
  <2>1. /\ UNCHANGED <<flags, refs, item, stopped, pool, kind, request, awaited,
                       listening, mine, history>>
        /\ pc[c] = "restarted" /\ \A e \in Executors : pc'[e] = pc[e]
        /\ \/ pc'[c] = "reset" /\ resume' = resume
           \/ pc'[c] = "flags" /\ resume' = [resume EXCEPT ![c] = "startNew"]
    BY <1>1, <1>3 DEF Restarted, TypeOK
  <2>2. TypeOK'
    BY <1>1, <1>3 DEF Restarted, TypeOK, CallerPCs, StopPCs
  <2>3. CallerKnows(c)' /\ Purpose(c)' /\ Stopping(c)'
    BY <1>1, <2>1 DEF CallerKnows, Purpose, Stopping, StopPCs
  <2> QED
    BY <2>1, <2>2, <2>3, CallerFrame DEF CallerPCs, StopPCs, Beginning, TypeOK
<1>4. CASE RunOnce(c)
  <2>1. /\ UNCHANGED <<started, running, refs, item, stopped, pool, locals, requests,
                       days, ran, today>>
        /\ pc[c] = "runOnce" /\ \A e \in Executors : pc'[e] = pc[e]
        /\ pc'[c] = "return"
    BY <1>1, <1>4 DEF RunOnce, TypeOK
  <2>2. TypeOK'
    <3>1. request[c] \in 1..requests
      BY <1>1, <2>1, BoundsAssumption DEF CallerKnows, TypeOK, Null
    <3>2. accepted' \subseteq 1..requests
      BY <1>1, <1>4, <3>1 DEF RunOnce, Accepts, TypeOK
    <3> QED
      BY <1>1, <1>4, <2>1, <3>2 DEF RunOnce, TypeOK, CallerPCs
  <2>3. CallerKnows(c)' /\ Purpose(c)' /\ Stopping(c)'
    BY <1>1, <2>1 DEF CallerKnows, Purpose, Stopping, StopPCs
  <2> QED
    BY <2>1, <2>2, <2>3, CallerFrame DEF CallerPCs, StopPCs, Beginning, TypeOK
<1>5. CASE Reset(c)
  <2>1. /\ UNCHANGED <<flags, executor, listener, stopped, pool, locals, requests,
                       days, accepted, ran>>
        /\ pc[c] = "reset" /\ \A e \in Executors : pc'[e] = pc[e]
        /\ pc'[c] = "return" /\ job' = Null /\ today' = 0
    BY <1>1, <1>5 DEF Reset, TypeOK
  <2>2. TypeOK'
    <3>1. due' \in BOOLEAN
      BY <1>5, Zenon DEF Reset, DueAgain
    <3>2. args' = Null /\ itemJob' = Null /\ pc' = [pc EXCEPT ![c] = "return"]
      BY <1>5 DEF Reset
    <3> QED
      BY <1>1, <2>1, <3>1, <3>2, BoundsAssumption DEF TypeOK, CallerPCs, Null
  <2>3. CallerKnows(c)' /\ Purpose(c)' /\ Stopping(c)'
    BY <1>1, <2>1 DEF CallerKnows, Purpose, Stopping, StopPCs
  <2> QED
    BY <2>1, <2>2, <2>3, CallerFrame DEF CallerPCs, StopPCs, Beginning, TypeOK
<1>6. CASE Return(c)
  <2>1. /\ UNCHANGED <<flags, refs, item, stopped, pool, locals, history>>
        /\ pc[c] = "return" /\ \A e \in Executors : pc'[e] = pc[e]
        /\ pc'[c] = "idle"
    BY <1>1, <1>6 DEF Return, TypeOK
  <2>2. TypeOK'
    BY <1>1, <1>6 DEF Return, TypeOK, CallerPCs
  <2>3. CallerKnows(c)' /\ Purpose(c)' /\ Stopping(c)'
    BY <1>1, <2>1 DEF CallerKnows, Purpose, Stopping, StopPCs
  <2> QED
    BY <2>1, <2>2, <2>3, CallerFrame DEF CallerPCs, StopPCs, Beginning, TypeOK
<1>7. CASE StopFlags(c)
  <2>1. /\ UNCHANGED <<refs, item, stopped, pool, locals, history>> /\ started' = FALSE
        /\ pc[c] = "flags" /\ \A e \in Executors : pc'[e] = pc[e]
        /\ pc'[c] = "stopJob"
    BY <1>1, <1>7 DEF StopFlags, TypeOK
  <2>2. TypeOK'
    BY <1>1, <1>7 DEF StopFlags, TypeOK, StopPCs
  <2>3. CallerKnows(c)' /\ Purpose(c)' /\ Stopping(c)'
    BY <1>1, <2>1 DEF CallerKnows, Purpose, Stopping, StopPCs
  <2> QED
    BY <2>1, <2>2, <2>3, CallerFrame DEF CallerPCs, StopPCs, Beginning, TypeOK
<1>8. CASE StopJob(c)
  <2>1. /\ UNCHANGED <<flags, refs, item, stopped, pool, locals, history>>
        /\ pc[c] = "stopJob" /\ \A e \in Executors : pc'[e] = pc[e]
        /\ \/ pc'[c] = "superStop"
           \/ pc'[c] = "callStop" /\ job # Null
    BY <1>1, <1>8 DEF StopJob, TypeOK
  <2>2. TypeOK'
    BY <1>1, <1>8 DEF StopJob, TypeOK, StopPCs
  <2>3. job # Null => \A e \in Executors : pc[e] \in {"none", "begin", JobPc, "finish"}
    BY <1>1 DEF HasJob, Known, Idle, JobPc
  <2>4. CallerKnows(c)' /\ Purpose(c)' /\ Stopping(c)'
    BY <1>1, <2>1, <2>3 DEF CallerKnows, Purpose, Stopping, StopPCs, Ahead, JobPc
  <2> QED
    BY <2>1, <2>2, <2>4, CallerFrame DEF CallerPCs, StopPCs, Beginning, TypeOK
<1>9. CASE CallStopJob(c)
  <2>1. /\ UNCHANGED <<flags, refs, item, stopped, pool, locals, history>>
        /\ pc[c] = "callStop" /\ \A e \in Executors : pc'[e] = pc[e]
        /\ \/ pc'[c] = "superStop"
           \/ /\ job = Null
              /\ \/ resume[c] = "startNew" /\ pc'[c] \in {"reset", "runOnce"}
                 \/ pc'[c] = "return"
    <3>1. resume[c] \in {"restarted", "return", "startNew"}
      <4>1. resume[c] \in {"none", "restarted", "return", "startNew"}
        BY <1>1 DEF IInv, Shapes
      <4>2. pc[c] = "callStop"
        BY <1>9 DEF CallStopJob
      <4> QED
        BY <1>1, <4>1, <4>2 DEF CallerKnows, StopPCs
    <3>2. \/ resume[c] = "startNew" /\ Handler(c) \in {"reset", "runOnce"}
          \/ Handler(c) = "return"
      BY <3>1 DEF Handler, AfterStart
    <3> QED
      BY <1>1, <1>9, <3>2 DEF CallStopJob, TypeOK
  <2>2. TypeOK'
    <3>1. pc' \in [Threads -> CallerPCs \cup ListenerPCs \cup StopPCs]
      BY <1>1, <1>9, <2>1 DEF CallStopJob, TypeOK, StopPCs, CallerPCs
    <3> QED
      BY <1>1, <2>1, <3>1 DEF TypeOK
  <2>3. CallerKnows(c)' /\ Purpose(c)' /\ Stopping(c)'
    BY <1>1, <2>1 DEF CallerKnows, Purpose, Stopping, StopPCs
  <2> QED
    BY <2>1, <2>2, <2>3, CallerFrame DEF CallerPCs, StopPCs, Beginning, TypeOK
<1>10. CASE Await(c)
  <2>1. /\ UNCHANGED <<flags, refs, item, stopped, pool, locals, history>>
        /\ pc[c] = "await" /\ \A e \in Executors : pc'[e] = pc[e]
        /\ pc'[c] = "endStop"
    BY <1>1, <1>10 DEF Await, TypeOK
  <2>2. TypeOK'
    BY <1>1, <1>10 DEF Await, TypeOK, StopPCs
  <2>3. AllIdle
    <3>1. awaited[c] = executor /\ executor \in Executors
      BY <1>1, <2>1, BoundsAssumption DEF CallerKnows, TypeOK, Executors
    <3>2. ~MinuteLong(executor)
      BY <1>1, <3>1 DEF MinuteLong, IInv, Shapes, ListenerPCs, JobPc
    <3>3. Idle(executor)
      BY <1>10, <3>1, <3>2 DEF Await, Terminated, Idle
    <3> QED
      BY <1>1, <3>3 DEF Known, AllIdle
  <2>4. AllIdle'
    BY <2>1, <2>3 DEF AllIdle, Idle
  <2>5. CallerKnows(c)' /\ Purpose(c)' /\ Stopping(c)'
    BY <1>1, <2>1, <2>4 DEF CallerKnows, Purpose, Stopping, StopPCs
  <2> QED
    BY <2>1, <2>2, <2>5, CallerFrame DEF CallerPCs, StopPCs, Beginning, TypeOK
<1> QED
  BY <1>2, <1>3, <1>4, <1>5, <1>6, <1>7, <1>8, <1>9, <1>10

\* start() makes an executor when stop() has got rid of the other one.
LEMMA StartNewStep ==
    ASSUME OneCaller, IInv, NEW c \in Callers, UNCHANGED schedule, StartNew(c)
    PROVE  IInv'
<1>1. /\ TypeOK /\ CallerKnows(c) /\ Purpose(c) /\ Stopping(c) /\ c \in Threads
      /\ \A e \in Executors : e \in Threads /\ e # c
      /\ HasJob /\ Known /\ Daily /\ Null \notin Executors /\ Null = 0
  BY Base DEF IInv, Control, Null
<1> USE DEF Goto, At, flags, refs, item, locals, history
<1>2. pc[c] = "startNew" /\ ~started /\ executor = Null /\ listener = Null
  BY <1>1 DEF StartNew, CallerKnows
<1>3. /\ UNCHANGED <<flags, listener, job, itemJob, item, stopped, tasks, locals, history>>
      /\ shut' = shut /\ created' = created + 1 /\ executor' = created + 1
      /\ pc' = [pc EXCEPT ![c] = "startSubmit"]
  BY <1>2 DEF StartNew
<1>4. /\ created' \in 0..MaxRequests + 1 /\ executor' \in 0..created' /\ created' <= requests + 1
      /\ 0..created \subseteq 0..created' /\ 1..created \subseteq 1..created'
      /\ executor' \in Executors /\ executor' \notin 1..created
  <2>1. created \in Nat /\ requests \in Nat /\ requests <= MaxRequests /\ created <= requests
    BY <1>1, <1>2, BoundsAssumption DEF IInv, TypeOK, Control, Counted
  <2> QED
    BY <1>3, <2>1, BoundsAssumption DEF Executors
<1>5. pc' \in [Threads -> CallerPCs \cup ListenerPCs \cup StopPCs] /\ pc'[c] = "startSubmit"
      /\ \A e \in Executors : pc'[e] = pc[e]
  BY <1>1, <1>3 DEF TypeOK, CallerPCs
<1>6. awaited' \in [Threads -> 0..created'] /\ shut' \subseteq 1..created'
  BY <1>1, <1>3, <1>4 DEF TypeOK
<1>7. TypeOK'
  BY <1>1, <1>3, <1>4, <1>5, <1>6 DEF TypeOK
<1>8. Shapes' /\ Holding'
  BY <1>3, <1>5, Base DEF IInv, Shapes, Holding, CallerPCs
<1>9. AllIdle /\ AllIdle'
  BY <1>1, <1>2, <1>3, <1>5 DEF Known, AllIdle, Idle
<1>10. Known' /\ Attended' /\ HasJob' /\ Daily'
  BY <1>1, <1>2, <1>3, <1>5, <1>9 DEF Known, AllIdle, Attended, HasJob, Daily
<1>11. Counted'
  BY <1>3, <1>4, <1>5, Base DEF Counted, StopPCs
<1>12. CallerKnows(c)' /\ Purpose(c)' /\ Stopping(c)'
  <2>1. executor' \in Executors \ shut'
    BY <1>1, <1>3, <1>4 DEF TypeOK
  <2> QED
    BY <1>1, <1>2, <1>3, <1>5, <1>9, <2>1 DEF CallerKnows, Purpose, Stopping, StopPCs
<1> QED
  BY <1>7, <1>8, <1>10, <1>11, <1>12, Base DEF IInv, Control

\* The new executor is given a listener, and no other has one.
LEMMA StartSubmitStep ==
    ASSUME OneCaller, IInv, NEW c \in Callers, UNCHANGED schedule, StartSubmit(c)
    PROVE  IInv'
<1>1. /\ TypeOK /\ CallerKnows(c) /\ Purpose(c) /\ Stopping(c) /\ c \in Threads
      /\ \A e \in Executors : e \in Threads /\ e # c
      /\ HasJob /\ Known /\ Daily /\ Null \notin Executors /\ Null \notin Objects
  BY Base DEF IInv, Control
<1> USE DEF Goto, At, item, locals, history
<1>2. /\ pc[c] = "startSubmit" /\ executor \in Executors \ shut /\ listener = Null /\ AllIdle
      /\ kind[c] # "stop"
  BY <1>1 DEF StartSubmit, CallerKnows, Purpose
<1>3. NewListener \in Objects
  BY <1>2, NewListenerName
<1>4. tasks[executor] = <<>> /\ pc[executor] = "none"
  BY <1>2 DEF AllIdle, Idle
<1>5. /\ UNCHANGED <<running, runOnce, executor, job, itemJob, item, created, shut, locals, history>>
      /\ started' = TRUE /\ listener' = NewListener
      /\ tasks' = [tasks EXCEPT ![executor] = Append(<<>>, listener')]
      /\ stopped' = stopped \ {listener'}
      /\ pc' = [pc EXCEPT ![c] = AfterStart(c)]
  BY <1>1, <1>2, <1>4 DEF StartSubmit
<1>6. Append(<<>>, listener') = <<listener'>> /\ <<listener'>> # <<>>
  OBVIOUS
<1>7. /\ pc'[c] \in {"reset", "runOnce"} /\ \A e \in Executors : pc'[e] = pc[e]
      /\ pc' \in [Threads -> CallerPCs \cup ListenerPCs \cup StopPCs]
  BY <1>1, <1>5 DEF TypeOK, AfterStart, CallerPCs
<1>8. DOMAIN tasks' = Executors /\ tasks'[executor] = <<listener'>>
      /\ \A e \in Executors \ {executor} : tasks'[e] = tasks[e]
  BY <1>1, <1>2, <1>5, <1>6 DEF TypeOK
<1>9. TypeOK'
  <2>1. listener' \in Objects /\ stopped' \subseteq Objects
    BY <1>1, <1>3, <1>5 DEF TypeOK
  <2> QED
    BY <1>1, <1>5, <1>7, <1>8, <2>1 DEF TypeOK
<1>10. Shapes' /\ Holding'
  <2>1. \A e \in Executors : tasks'[e] = <<>> \/ \E l \in Objects : tasks'[e] = <<l>>
    BY <1>3, <1>5, <1>8 DEF IInv, Shapes
  <2> QED
    BY <1>5, <1>7, <2>1, Base DEF IInv, Shapes, Holding, CallerPCs
<1>11. Known' /\ Attended' /\ HasJob' /\ Daily'
  <2>1. Known'
    BY <1>2, <1>5, <1>7, <1>8 DEF Known, AllIdle, Idle
  <2>2. Attended'
    BY <1>2, <1>4, <1>5, <1>6, <1>7, <1>8 DEF Attended
  <2> QED
    BY <1>1, <1>5, <1>7, <2>1, <2>2 DEF HasJob, Daily
<1>12. Counted'
  BY <1>5, <1>7, Base DEF IInv, Control, Counted, StopPCs
<1>13. CallerKnows(c)' /\ Purpose(c)' /\ Stopping(c)'
  BY <1>1, <1>2, <1>3, <1>5, <1>7 DEF CallerKnows, Purpose, Stopping, StopPCs
<1> QED
  BY <1>9, <1>10, <1>11, <1>12, <1>13, Base DEF IInv, Control

\* stop() shuts the executor down, and waits for it.
LEMMA SuperStopStep ==
    ASSUME OneCaller, IInv, NEW c \in Callers, UNCHANGED schedule, SuperStop(c)
    PROVE  IInv'
<1>1. /\ TypeOK /\ CallerKnows(c) /\ Purpose(c) /\ Stopping(c) /\ c \in Threads
      /\ \A e \in Executors : e \in Threads /\ e # c
      /\ HasJob /\ Known /\ Daily /\ Null \notin Executors /\ Null \notin Objects
  BY Base DEF IInv, Control
<1> USE DEF Goto, At, item, history
<1>2. /\ UNCHANGED <<running, runOnce, executor, job, itemJob, item, created, tasks,
                      kind, request, resume, listening, mine, history>>
      /\ pc[c] = "superStop" /\ started' = FALSE
  BY DEF SuperStop
<1>3. \/ /\ executor = Null /\ UNCHANGED <<awaited, shut, listener, stopped>>
         /\ pc' = [pc EXCEPT ![c] = "endStop"]
      \/ /\ executor # Null /\ listener' = listener /\ listener \in Objects
         /\ stopped' = stopped \cup {listener}
         /\ shut' = shut \cup {executor}
         /\ awaited' = [awaited EXCEPT ![c] = executor]
         /\ pc' = [pc EXCEPT ![c] = "await"]
  <2>1. executor # Null => listener # Null
    BY <1>1, <1>2 DEF CallerKnows
  <2> QED
    BY <1>1, <2>1 DEF SuperStop, TypeOK
<1>4. /\ pc' \in [Threads -> CallerPCs \cup ListenerPCs \cup StopPCs]
      /\ pc'[c] \in {"endStop", "await"} /\ \A e \in Executors : pc'[e] = pc[e]
  BY <1>1, <1>3 DEF TypeOK, StopPCs
<1>5. TypeOK'
  <2>1. executor # Null => executor \in 1..created
    BY <1>1, BoundsAssumption DEF TypeOK, Null
  <2>2. listener' \in Objects \cup {Null} /\ stopped' \subseteq Objects
        /\ shut' \subseteq 1..created /\ awaited' \in [Threads -> 0..created]
    BY <1>1, <1>3, <2>1 DEF TypeOK
  <2> QED
    BY <1>1, <1>2, <1>4, <2>2 DEF TypeOK
<1>6. Shapes' /\ Holding'
  BY <1>2, <1>4, Base DEF IInv, Shapes, Holding, StopPCs
<1>7. Known' /\ Attended' /\ HasJob' /\ Daily'
  BY <1>1, <1>2, <1>4 DEF Known, Idle, Attended, HasJob, Daily
<1>8. Counted'
  BY <1>2, <1>4, Base DEF IInv, Control, Counted, StopPCs
<1>9. executor = Null => AllIdle'
  BY <1>1, <1>2, <1>4 DEF Known, AllIdle, Idle
<1>10. pc'[c] = "await" => awaited'[c] = executor /\ executor \in shut'
  BY <1>1, <1>3 DEF TypeOK
<1>11. pc'[c] = "endStop" => executor = Null
  BY <1>1, <1>3 DEF TypeOK
<1>12. CallerKnows(c)' /\ Purpose(c)' /\ Stopping(c)'
  BY <1>1, <1>2, <1>3, <1>4, <1>9, <1>10, <1>11 DEF CallerKnows, Purpose, Stopping, StopPCs
<1> QED
  BY <1>5, <1>6, <1>7, <1>8, <1>12, Base DEF IInv, Control

\* The end of stop(): the worker has no executor, and none has a listener.
LEMMA EndStopStep ==
    ASSUME OneCaller, IInv, NEW c \in Callers, UNCHANGED schedule, EndStop(c)
    PROVE  IInv'
<1>1. /\ TypeOK /\ CallerKnows(c) /\ Purpose(c) /\ Stopping(c) /\ c \in Threads
      /\ \A e \in Executors : e \in Threads /\ e # c
      /\ HasJob /\ Known /\ Daily /\ Null = 0
  BY Base DEF IInv, Control, Null
<1> USE DEF Goto, At, flags, item, pool, history
<1>2. /\ UNCHANGED <<flags, job, itemJob, item, stopped, pool, kind, request,
                      resume, listening, mine, history>>
      /\ pc[c] = "endStop" /\ executor' = Null /\ listener' = Null
      /\ awaited' = [awaited EXCEPT ![c] = Null] /\ pc' = [pc EXCEPT ![c] = resume[c]]
      /\ AllIdle /\ ~started
  BY <1>1 DEF EndStop, CallerKnows, StopPCs
<1>3. resume[c] \in {"restarted", "return", "startNew"}
  BY <1>1, <1>2 DEF IInv, Shapes, CallerKnows, StopPCs
<1>4. /\ pc' \in [Threads -> CallerPCs \cup ListenerPCs \cup StopPCs]
      /\ pc'[c] = resume[c] /\ \A e \in Executors : pc'[e] = pc[e]
  BY <1>1, <1>2, <1>3 DEF TypeOK, CallerPCs
<1>5. TypeOK'
  <2>1. Null \in 0..created
    BY <1>1, BoundsAssumption DEF TypeOK
  <2>2. awaited' \in [Threads -> 0..created]
    BY <1>1, <1>2, <2>1 DEF TypeOK
  <2> QED
    BY <1>1, <1>2, <1>4, <2>1, <2>2 DEF TypeOK
<1>6. Shapes' /\ Holding'
  BY <1>2, <1>3, <1>4, Base DEF IInv, Shapes, Holding, CallerPCs
<1>7. AllIdle'
  BY <1>2, <1>4 DEF AllIdle, Idle
<1>8. Known' /\ Attended' /\ HasJob' /\ Daily'
  BY <1>1, <1>2, <1>4, <1>7 DEF Known, AllIdle, Attended, HasJob, Daily
<1>9. Counted'
  BY <1>2, Base DEF IInv, Control, Counted, StopPCs
<1>10. CallerKnows(c)' /\ Purpose(c)' /\ Stopping(c)'
  BY <1>1, <1>2, <1>3, <1>4, <1>7
     DEF CallerKnows, Purpose, Stopping, StopPCs, AllIdle, Idle, Ahead, JobPc
<1> QED
  BY <1>5, <1>6, <1>8, <1>9, <1>10, Base DEF IInv, Control

-----------------------------------------------------------------------------
\* While an executor thread is busy it is the only one, and no other is made.
LEMMA Alone ==
    ASSUME OneCaller, IInv, NEW e \in Executors, ~Idle(e), NEW c \in Callers
    PROVE  /\ e = executor /\ e \in Threads /\ c # e
           /\ \A d \in Executors \ {e} : pc[d] = "none" /\ tasks[d] = <<>>
           /\ pc[c] \notin {"endStop", "startSubmit", "restarted", "startNew"}
           /\ \A d \in Callers : d = c
<1>1. Known /\ CallerKnows(c) /\ Null \notin Executors
  BY Base DEF IInv, Control
<1>2. e = executor
  BY <1>1 DEF Known
<1>3. pc[c] \notin {"endStop", "startSubmit", "restarted", "startNew"}
  BY <1>1, <1>2 DEF CallerKnows, AllIdle
<1> QED
  BY <1>1, <1>2, <1>3, Base DEF Known, Idle

\* A step of a busy listener that neither takes it nor gives it up.
LEMMA ListenerFrame ==
    ASSUME OneCaller, IInv, NEW e \in Executors, pc[e] # "none", NEW label,
           UNCHANGED <<schedule, started, executor, listener, tasks, listening, stopped,
                       created, shut, requests, awaited, resume, kind, request>>,
           pc' = [pc EXCEPT ![e] = label], label \in ListenerPCs \ {"none"},
           TypeOK',
           \/ mine' = mine /\ label # JobPc /\ pc[e] # JobPc
           \/ \E j \in Objects : mine' = [mine EXCEPT ![e] = j] /\ label = JobPc
           \/ mine' = [mine EXCEPT ![e] = Null],
           job' # Null => label \in {"begin", JobPc, "finish"},
           Daily',
           \A c \in Callers : Stopping(c)'
    PROVE  IInv'
<1>1. PICK c \in Callers : \A d \in Callers : d = c
  BY DEF OneCaller
<1>2. ~Idle(e)
  BY DEF Idle
<1>3. /\ e = executor /\ e \in Threads /\ c # e
      /\ \A d \in Executors \ {e} : pc[d] = "none" /\ tasks[d] = <<>>
      /\ pc[c] \notin {"endStop", "startSubmit"}
  BY <1>2, Alone
<1>4. /\ pc'[e] = label /\ pc'[c] = pc[c] /\ \A d \in Executors \ {e} : pc'[d] = "none"
  BY <1>3, Base DEF IInv, TypeOK
<1>5. Shapes'
  <2>1. mine' \in [Executors -> Objects \cup {Null}]
    BY DEF IInv, Shapes
  <2>2. \A d \in Callers : pc'[d] \in CallerPCs \cup StopPCs
    BY <1>1, <1>4, Base
  <2>3. \A d \in Executors : pc'[d] \in ListenerPCs
    BY <1>3, <1>4 DEF ListenerPCs
  <2> QED
    BY <2>1, <2>2, <2>3 DEF IInv, Shapes
<1>6. Holding'
  <2>1. mine \in [Executors -> Objects \cup {Null}]
    BY DEF IInv, Shapes
  <2>2. \A d \in Executors \ {e} : mine'[d] = Null
    BY <1>3, <2>1 DEF IInv, Holding, JobPc
  <2>3. label # JobPc => mine'[e] = Null
    BY <2>1 DEF IInv, Holding
  <2>4. \A d \in Executors : pc'[d] = "none" => pc[d] = "none"
    BY <1>4
  <2>5. \A d \in Executors : pc'[d] # JobPc => mine'[d] = Null
    BY <1>4, <2>2, <2>3
  <2> QED
    BY <2>4, <2>5 DEF IInv, Holding
<1>7. Known'
  BY <1>3, <1>4 DEF Known, Idle
<1>8. Attended'
  BY <1>3, <1>4 DEF IInv, Control, Attended
<1>9. HasJob'
  BY <1>4 DEF HasJob
<1>10. Counted'
  BY <1>1, <1>4 DEF IInv, Control, Counted
<1>11. CallerKnows(c)' /\ Purpose(c)'
  BY <1>3, <1>4, Base DEF CallerKnows, Purpose
<1> QED
  BY <1>1, <1>5, <1>6, <1>7, <1>8, <1>9, <1>10, <1>11 DEF IInv, Control

\* What a busy listener knows of the caller.
LEMMA NotStopped ==
    ASSUME OneCaller, IInv, NEW e \in Executors, NEW c \in Callers
    PROVE  /\ pc[e] \in Ahead => pc[c] # "callStop"
           /\ pc[e] \in Ahead \cup {"begin", JobPc} => ~(pc[c] = "return" /\ kind[c] = "stop")
  BY Base DEF Stopping

\* The steps of a listener from the loop to the job and back.
LEMMA ListenerSteps ==
    ASSUME OneCaller, IInv, NEW e \in Executors, UNCHANGED schedule,
           \/ Check(e) \/ Claim(e) \/ Available(e) \/ GetJob(e) \/ Begin(e) \/ EndJob(e)
           \/ Finish(e) \/ StopSelf(e) \/ ClearRunOnce(e) \/ ClearRunning(e)
    PROVE  IInv'
<1>1. PICK c \in Callers : \A d \in Callers : d = c
  BY DEF OneCaller
<1> USE DEF Goto, At, flags, refs, item, pool, locals, history
<1>2. pc[e] \in ListenerPCs \ {"none", "loop"}
  BY DEF Check, Claim, Available, GetJob, Begin, EndJob, Finish, StopSelf, ClearRunOnce,
         ClearRunning, ListenerPCs, JobPc
<1>3. /\ e = executor /\ e \in Threads /\ c # e /\ c \in Threads
      /\ \A d \in Executors \ {e} : pc[d] = "none" /\ tasks[d] = <<>>
  BY <1>2, Alone, Base DEF Idle
<1>4. TypeOK /\ Stopping(c) /\ Daily /\ HasJob /\ automated
      /\ mine \in [Executors -> Objects \cup {Null}]
  BY Base DEF IInv, Control, Shapes, automated
<1>5. pc[e] \notin {"begin", JobPc, "finish"} => job = Null
  BY <1>3, <1>4 DEF HasJob, JobPc
<1>6. pc[e] # "getJob" => ~(today = 1 /\ due)
  BY <1>3, <1>4 DEF Daily
<1>7. ASSUME NEW label \in ListenerPCs, pc' = [pc EXCEPT ![e] = label]
      PROVE  /\ pc' \in [Threads -> CallerPCs \cup ListenerPCs \cup StopPCs]
             /\ pc'[e] = label /\ pc'[c] = pc[c]
             /\ \A d \in Executors \ {e} : pc'[d] = "none"
  BY <1>3, <1>4, <1>7 DEF TypeOK
<1>8. CASE Check(e)
  <2> DEFINE label == IF running THEN "loop" ELSE "claim"
  <2>1. label \in ListenerPCs \ {"none", JobPc} /\ label \in {"loop", "claim"}
    BY DEF ListenerPCs, JobPc
  <2>2. pc' = [pc EXCEPT ![e] = label] /\ pc[e] = "check"
        /\ UNCHANGED <<flags, refs, item, stopped, pool, locals, history>>
    BY <1>8 DEF Check
  <2> HIDE DEF label
  <2>3. TypeOK'
    <3>1. pc' \in [Threads -> CallerPCs \cup ListenerPCs \cup StopPCs]
      BY <1>7, <2>1, <2>2
    <3> QED
      BY <1>4, <2>1, <2>2, <3>1 DEF TypeOK
  <2>4. Daily' /\ \A d \in Callers : Stopping(d)'
    BY <1>1, <1>4, <1>6, <1>7, <2>1, <2>2, NotStopped DEF Daily, Stopping, Ahead
  <2> QED
    BY <1>5, <2>1, <2>2, <2>3, <2>4, ListenerFrame DEF JobPc
<1>9. CASE Claim(e)
  <2>1. pc' = [pc EXCEPT ![e] = "available"] /\ pc[e] = "claim" /\ running' = TRUE
        /\ UNCHANGED <<started, runOnce, refs, item, stopped, pool, locals, history>>
    BY <1>9 DEF Claim
  <2>2. "available" \in ListenerPCs \ {"none", JobPc}
    BY DEF ListenerPCs, JobPc
  <2>3. TypeOK'
    <3>1. pc' \in [Threads -> CallerPCs \cup ListenerPCs \cup StopPCs]
      BY <1>7, <2>1, <2>2
    <3> QED
      BY <1>4, <2>1, <2>2, <3>1 DEF TypeOK
  <2>4. Daily' /\ \A d \in Callers : Stopping(d)'
    BY <1>1, <1>4, <1>6, <1>7, <2>1, <2>2, NotStopped DEF Daily, Stopping, Ahead
  <2> QED
    BY <1>5, <2>1, <2>2, <2>3, <2>4, ListenerFrame DEF JobPc
<1>10. CASE Available(e)
  <2> DEFINE label == IF runOnce \/ Scheduled THEN "getJob" ELSE "finish"
  <2>1. label \in ListenerPCs \ {"none", JobPc} /\ label \in {"getJob", "finish"}
    BY DEF ListenerPCs, JobPc
  <2>2. pc' = [pc EXCEPT ![e] = label] /\ pc[e] = "available"
        /\ UNCHANGED <<flags, executor, listener, job, item, stopped, pool, locals,
                       requests, days, accepted, ran>>
        /\ itemJob' = (IF runOnce THEN itemJob ELSE ItemJob)
        /\ today' = (IF ~runOnce /\ Scheduled /\ schedule = "hour" THEN today + 1
                     ELSE today)
    BY <1>10 DEF Available
  <2>3. itemJob' \in Objects \cup {Null}
    BY <1>4, <2>2, ItemJobName DEF TypeOK, JobPc
  <2>4. Daily'
    <3>1. CASE ~runOnce /\ Scheduled /\ schedule = "hour"
      <4>1. due /\ label = "getJob"
        BY <3>1 DEF Scheduled
      <4>2. today = 0
        BY <1>4, <1>6, <2>2, <4>1 DEF Daily
      <4>3. today' = 1
        BY <2>2, <3>1, <4>2
      <4>4. pc'[e] = "getJob"
        BY <1>7, <2>1, <2>2, <4>1
      <4> QED
        BY <3>1, <4>3, <4>4 DEF Daily
    <3>2. CASE ~(~runOnce /\ Scheduled /\ schedule = "hour")
      <4>1. today' = today /\ due' = due /\ schedule' = schedule
        BY <2>2, <3>2
      <4>2. ~(today = 1 /\ due)
        BY <1>6, <2>2
      <4> QED
        BY <1>4, <4>1, <4>2 DEF Daily
    <3> QED
      BY <3>1, <3>2
  <2> HIDE DEF label
  <2>5. TypeOK'
    <3>1. pc' \in [Threads -> CallerPCs \cup ListenerPCs \cup StopPCs]
      BY <1>7, <2>1, <2>2, <2>3
    <3> QED
      BY <1>4, <2>1, <2>2, <2>3, <3>1 DEF TypeOK
  <2>6. \A d \in Callers : Stopping(d)'
    BY <1>1, <1>4, <1>7, <2>1, <2>2, NotStopped DEF Stopping, Ahead
  <2> QED
    BY <1>5, <2>1, <2>2, <2>4, <2>5, <2>6, ListenerFrame DEF JobPc
<1>11. CASE GetJob(e)
  <2>1. pc' = [pc EXCEPT ![e] = "begin"] /\ pc[e] = "getJob" /\ due' = (schedule = "always")
        /\ UNCHANGED <<flags, executor, listener, args, stopped, pool, locals, history>>
        /\ itemJob' = ItemJob /\ job' = ItemJob
    BY <1>11 DEF GetJob, SetLastRun
  <2>2. "begin" \in ListenerPCs \ {"none", JobPc}
    BY DEF ListenerPCs, JobPc
  <2>3. ItemJob \in Objects
    BY <2>1, ItemJobName DEF JobPc
  <2>4. TypeOK'
    <3>1. pc' \in [Threads -> CallerPCs \cup ListenerPCs \cup StopPCs]
      BY <1>7, <2>1, <2>2, <2>3
    <3> QED
      BY <1>4, <2>1, <2>2, <2>3, <3>1 DEF TypeOK
  <2>5. Daily' /\ \A d \in Callers : Stopping(d)'
    BY <1>1, <1>4, <1>7, <2>1, <2>2, NotStopped DEF Daily, Stopping, Ahead
  <2> QED
    BY <2>1, <2>2, <2>4, <2>5, ListenerFrame DEF JobPc
<1>12. CASE Begin(e)
  <2>1. pc[e] = "begin"
        /\ UNCHANGED <<flags, refs, item, stopped, pool, kind, request, resume,
                       awaited, listening, requests, days, accepted, today>>
    BY <1>12 DEF Begin
  <2>2. CASE job = Null
    <3>1. pc' = [pc EXCEPT ![e] = "finish"] /\ UNCHANGED <<mine, ran>>
      BY <1>12, <2>2 DEF Begin
    <3>2. "finish" \in ListenerPCs \ {"none", JobPc}
      BY DEF ListenerPCs, JobPc
    <3>3. TypeOK'
      <4>1. pc' \in [Threads -> CallerPCs \cup ListenerPCs \cup StopPCs]
        BY <1>7, <2>1, <3>1, <3>2
      <4> QED
        BY <1>4, <2>1, <3>1, <3>2, <4>1 DEF TypeOK
    <3>4. Daily' /\ \A d \in Callers : Stopping(d)'
      BY <1>1, <1>4, <1>6, <1>7, <2>1, <3>1, <3>2, NotStopped DEF Daily, Stopping, Ahead, JobPc
    <3> QED
      BY <2>1, <2>2, <3>1, <3>2, <3>3, <3>4, ListenerFrame DEF JobPc
  <2>3. CASE job # Null
    <3>1. pc' = [pc EXCEPT ![e] = JobPc] /\ mine' = [mine EXCEPT ![e] = job]
          /\ ran' = ran \cup ({args} \ {Null})
      BY <1>12, <2>3 DEF Begin
    <3>2. JobPc \in ListenerPCs \ {"none"} /\ job \in Objects
      BY <1>4, <2>3 DEF ListenerPCs, JobPc, TypeOK
    <3>3. ran' \subseteq 1..requests
      <4>1. args \in 0..requests /\ requests \in Nat /\ Null = 0
        BY <1>4, BoundsAssumption DEF TypeOK, Null
      <4>2. {args} \ {Null} \subseteq 1..requests
        BY <4>1
      <4> QED
        BY <1>4, <3>1, <4>2 DEF TypeOK
    <3>4. pc' \in [Threads -> CallerPCs \cup ListenerPCs \cup StopPCs]
          /\ pc'[e] = JobPc /\ pc'[c] = pc[c] /\ \A d \in Executors \ {e} : pc'[d] = "none"
      BY <1>7, <3>1, <3>2
    <3>5. TypeOK'
      <4>1. \A d \in Executors : mine'[d] \in Objects \cup {Null}
        BY <1>4, <3>1, <3>2
      <4>2. ({mine[d] : d \in Executors} \cup {listening[d] : d \in Executors})'
               \subseteq Objects \cup {Null}
        BY <1>4, <2>1, <4>1 DEF TypeOK
      <4>3. pc' \in [Threads -> CallerPCs \cup ListenerPCs \cup StopPCs]
        BY <3>4
      <4> QED
        BY <1>4, <2>1, <3>3, <4>2, <4>3 DEF TypeOK
    <3>6. Daily' /\ \A d \in Callers : Stopping(d)'
      BY <1>1, <1>4, <1>6, <2>1, <2>3, <3>4, NotStopped DEF Daily, Stopping, Ahead, JobPc
    <3> QED
      BY <2>1, <2>3, <3>1, <3>2, <3>5, <3>6, ListenerFrame
  <2> QED
    BY <2>2, <2>3
<1>13. CASE EndJob(e)
  <2>1. pc[e] = JobPc /\ mine' = [mine EXCEPT ![e] = Null] /\ pc' = [pc EXCEPT ![e] = "finish"]
        /\ UNCHANGED <<flags, refs, item, stopped, pool, kind, request, resume,
                       awaited, listening, history>>
    BY <1>13 DEF EndJob
  <2>2. "finish" \in ListenerPCs \ {"none", JobPc}
    BY DEF ListenerPCs, JobPc
  <2>3. TypeOK'
    <3>1. pc' \in [Threads -> CallerPCs \cup ListenerPCs \cup StopPCs]
      BY <1>7, <2>1, <2>2
    <3> QED
      BY <1>4, <2>1, <2>2, <3>1 DEF TypeOK
  <2>4. Daily' /\ \A d \in Callers : Stopping(d)'
    BY <1>1, <1>4, <1>6, <1>7, <2>1, <2>2 DEF Daily, Stopping, Ahead, JobPc
  <2> QED
    BY <2>1, <2>2, <2>3, <2>4, ListenerFrame DEF JobPc
<1>14. CASE Finish(e)
  <2>1. pc[e] = "finish" /\ pc' = [pc EXCEPT ![e] = "stopSelf"] /\ job' = Null
        /\ itemJob' \in {itemJob, Null} /\ args' \in {args, Null}
        /\ UNCHANGED <<flags, executor, listener, due, stopped, pool, locals, history>>
    BY <1>14 DEF Finish
  <2>2. "stopSelf" \in ListenerPCs \ {"none", JobPc}
    BY DEF ListenerPCs, JobPc
  <2>3. args' \in 0..requests
    BY <1>4, <2>1, BoundsAssumption DEF TypeOK, Null
  <2>4. TypeOK'
    <3>1. pc' \in [Threads -> CallerPCs \cup ListenerPCs \cup StopPCs]
      BY <1>7, <2>1, <2>2, <2>3
    <3> QED
      BY <1>4, <2>1, <2>2, <2>3, <3>1 DEF TypeOK
  <2>5. Daily' /\ \A d \in Callers : Stopping(d)'
    BY <1>1, <1>4, <1>6, <1>7, <2>1, <2>2 DEF Daily, Stopping, Ahead, JobPc
  <2> QED
    BY <2>1, <2>2, <2>4, <2>5, ListenerFrame DEF JobPc
<1>15. CASE StopSelf(e)
  <2>1. pc[e] = "stopSelf" /\ pc' = [pc EXCEPT ![e] = "clearRunOnce"] /\ resume' = resume
        /\ UNCHANGED <<flags, refs, item, stopped, pool, kind, request, awaited,
                       listening, mine, history>>
    BY <1>4, <1>15 DEF StopSelf
  <2>2. "clearRunOnce" \in ListenerPCs \ {"none", JobPc}
    BY DEF ListenerPCs, JobPc
  <2>3. TypeOK'
    <3>1. pc' \in [Threads -> CallerPCs \cup ListenerPCs \cup StopPCs]
      BY <1>7, <2>1, <2>2
    <3> QED
      BY <1>4, <2>1, <2>2, <3>1 DEF TypeOK
  <2>4. Daily' /\ \A d \in Callers : Stopping(d)'
    BY <1>1, <1>4, <1>6, <1>7, <2>1, <2>2 DEF Daily, Stopping, Ahead, JobPc
  <2> QED
    BY <1>5, <2>1, <2>2, <2>3, <2>4, ListenerFrame DEF JobPc
<1>16. CASE ClearRunOnce(e)
  <2>1. pc[e] = "clearRunOnce" /\ pc' = [pc EXCEPT ![e] = "clearRunning"] /\ runOnce' = FALSE
        /\ UNCHANGED <<started, running, refs, item, stopped, pool, locals, history>>
    BY <1>16 DEF ClearRunOnce
  <2>2. "clearRunning" \in ListenerPCs \ {"none", JobPc}
    BY DEF ListenerPCs, JobPc
  <2>3. TypeOK'
    <3>1. pc' \in [Threads -> CallerPCs \cup ListenerPCs \cup StopPCs]
      BY <1>7, <2>1, <2>2
    <3> QED
      BY <1>4, <2>1, <2>2, <3>1 DEF TypeOK
  <2>4. Daily' /\ \A d \in Callers : Stopping(d)'
    BY <1>1, <1>4, <1>6, <1>7, <2>1, <2>2 DEF Daily, Stopping, Ahead, JobPc
  <2> QED
    BY <1>5, <2>1, <2>2, <2>3, <2>4, ListenerFrame DEF JobPc
<1>17. CASE ClearRunning(e)
  <2>1. pc[e] = "clearRunning" /\ pc' = [pc EXCEPT ![e] = "loop"] /\ running' = FALSE
        /\ UNCHANGED <<started, runOnce, refs, item, stopped, pool, locals, history>>
    BY <1>17 DEF ClearRunning
  <2>2. "loop" \in ListenerPCs \ {"none", JobPc}
    BY DEF ListenerPCs, JobPc
  <2>3. TypeOK'
    <3>1. pc' \in [Threads -> CallerPCs \cup ListenerPCs \cup StopPCs]
      BY <1>7, <2>1, <2>2
    <3> QED
      BY <1>4, <2>1, <2>2, <3>1 DEF TypeOK
  <2>4. Daily' /\ \A d \in Callers : Stopping(d)'
    BY <1>1, <1>4, <1>6, <1>7, <2>1, <2>2 DEF Daily, Stopping, Ahead, JobPc
  <2> QED
    BY <1>5, <2>1, <2>2, <2>3, <2>4, ListenerFrame DEF JobPc
<1> QED
  BY <1>8, <1>9, <1>10, <1>11, <1>12, <1>13, <1>14, <1>15, <1>16, <1>17

-----------------------------------------------------------------------------
\* An executor takes the listener it was given.
LEMMA CallStep ==
    ASSUME OneCaller, IInv, NEW e \in Executors, UNCHANGED schedule, Call(e)
    PROVE  IInv'
<1>1. PICK c \in Callers : \A d \in Callers : d = c
  BY DEF OneCaller
<1> USE DEF Goto, At, flags, refs, item, history
<1>2. /\ TypeOK /\ Shapes /\ CallerKnows(c) /\ Purpose(c) /\ Stopping(c) /\ Daily /\ HasJob
      /\ Null \notin Objects /\ Attended
  BY Base DEF IInv, Control
<1>3. /\ pc[e] = "none" /\ tasks[e] # <<>>
      /\ UNCHANGED <<flags, refs, item, created, shut, kind, request, resume, awaited, mine, history>>
  BY DEF Call
<1>4. PICK l \in Objects : tasks[e] = <<l>>
  BY <1>2, <1>3 DEF Shapes
<1>5. Head(<<l>>) = l /\ Tail(<<l>>) = <<>>
  OBVIOUS
<1>6. /\ tasks' = [tasks EXCEPT ![e] = <<>>] /\ stopped' = stopped \ {l}
      /\ \/ started /\ listening' = [listening EXCEPT ![e] = l] /\ pc' = [pc EXCEPT ![e] = "loop"]
         \/ ~started /\ listening' = listening /\ pc' = pc
  BY <1>4, <1>5 DEF Call
<1>7. /\ e = executor /\ e \in Threads /\ c # e
      /\ \A d \in Executors \ {e} : pc[d] = "none" /\ tasks[d] = <<>>
      /\ pc[c] \notin {"endStop", "startSubmit"}
  BY <1>3, Alone DEF Idle
<1>8. /\ pc' \in [Threads -> CallerPCs \cup ListenerPCs \cup StopPCs]
      /\ pc'[c] = pc[c] /\ pc'[e] = (IF started THEN "loop" ELSE "none")
      /\ \A d \in Executors \ {e} : pc'[d] = "none"
  BY <1>2, <1>3, <1>6, <1>7, Base DEF TypeOK, ListenerPCs
<1>9. /\ DOMAIN tasks' = Executors /\ \A d \in Executors : tasks'[d] = <<>>
      /\ listening' \in [Executors -> Objects \cup {Null}]
      /\ started => listening'[e] = l
  BY <1>2, <1>6, <1>7 DEF TypeOK, Shapes
<1>10. TypeOK'
  <2>1. ({mine[d] : d \in Executors} \cup {listening[d] : d \in Executors})'
           \subseteq Objects \cup {Null}
    BY <1>2, <1>3, <1>9 DEF Shapes
  <2>2. stopped' \subseteq Objects
    BY <1>2, <1>6 DEF TypeOK
  <2>3. pc' \in [Threads -> CallerPCs \cup ListenerPCs \cup StopPCs] /\ DOMAIN tasks' = Executors
    BY <1>8, <1>9
  <2> QED
    BY <1>2, <1>3, <2>1, <2>2, <2>3 DEF TypeOK
<1>11. Shapes'
  <2>1. \A d \in Callers : pc'[d] \in CallerPCs \cup StopPCs
    BY <1>1, <1>8, Base
  <2>2. \A d \in Executors : pc'[d] \in ListenerPCs
    BY <1>8 DEF ListenerPCs
  <2>3. \A d \in Executors : tasks'[d] = <<>> \/ \E k \in Objects : tasks'[d] = <<k>>
    BY <1>9
  <2>4. listening' \in [Executors -> Objects \cup {Null}]
    BY <1>9
  <2> QED
    BY <1>2, <1>3, <2>1, <2>2, <2>3, <2>4 DEF Shapes
<1>12. Holding'
  <2>1. \A d \in Executors : pc'[d] = "none" => ~started \/ d # e
    BY <1>8
  <2> QED
    BY <1>2, <1>3, <1>6, <1>7, <1>8, <2>1 DEF IInv, Holding, Shapes, JobPc
<1>13. Known' /\ Attended'
  <2>1. Known'
    BY <1>3, <1>7, <1>8, <1>9 DEF Known, Idle
  <2>2. started => pc'[e] = "loop" /\ listening'[e] \notin stopped'
    BY <1>6, <1>8, <1>9
  <2> QED
    BY <1>3, <1>7, <2>1, <2>2 DEF Attended
<1>14. HasJob' /\ Daily'
  <2>1. \A d \in Executors : pc[d] = "none"
    BY <1>3, <1>7
  <2> QED
    BY <1>2, <1>3, <1>8, <2>1 DEF HasJob, Daily, JobPc
<1>15. Counted'
  BY <1>1, <1>3, <1>8 DEF IInv, Control, Counted
<1>16. CallerKnows(c)' /\ Purpose(c)' /\ Stopping(c)'
  BY <1>2, <1>3, <1>7, <1>8 DEF CallerKnows, Purpose, Stopping, Ahead, JobPc
<1> QED
  BY <1>1, <1>10, <1>11, <1>12, <1>13, <1>14, <1>15, <1>16 DEF IInv, Control

\* A listener goes on, or ends because its worker is not started.
LEMMA ListenStep ==
    ASSUME OneCaller, IInv, NEW e \in Executors, UNCHANGED schedule, Listen(e)
    PROVE  IInv'
<1>1. PICK c \in Callers : \A d \in Callers : d = c
  BY DEF OneCaller
<1> USE DEF Goto, At, flags, refs, item, pool, history
<1>2. /\ TypeOK /\ Shapes /\ CallerKnows(c) /\ Purpose(c) /\ Stopping(c) /\ Daily /\ HasJob
      /\ Null \notin Objects /\ Attended
  BY Base DEF IInv, Control
<1>3. /\ pc[e] = "loop"
      /\ UNCHANGED <<flags, refs, item, stopped, pool, kind, request, resume,
                     awaited, mine, history>>
  BY DEF Listen
<1>4. /\ e = executor /\ e \in Threads /\ c # e
      /\ \A d \in Executors \ {e} : pc[d] = "none" /\ tasks[d] = <<>>
      /\ pc[c] \notin {"endStop", "startSubmit"}
  BY <1>3, Alone DEF Idle
<1>5. job = Null /\ ~(today = 1 /\ due)
  BY <1>2, <1>3, <1>4 DEF HasJob, Daily, JobPc
<1>6. CASE KeepsListening(e)
  <2>1. pc' = [pc EXCEPT ![e] = "check"] /\ listening' = listening /\ started
    BY <1>6 DEF Listen, KeepsListening
  <2>2. "check" \in ListenerPCs \ {"none", JobPc}
    BY DEF ListenerPCs, JobPc
  <2>3. pc' \in [Threads -> CallerPCs \cup ListenerPCs \cup StopPCs] /\ pc'[c] = pc[c]
    BY <1>2, <1>4, <2>1, <2>2 DEF TypeOK
  <2>4. TypeOK'
    BY <1>2, <1>3, <2>1, <2>3 DEF TypeOK
  <2>5. Daily' /\ \A d \in Callers : Stopping(d)'
    BY <1>1, <1>2, <1>3, <1>5, <2>1, <2>3 DEF Daily, CallerKnows, Stopping, StopPCs
  <2> QED
    BY <1>3, <1>5, <2>1, <2>2, <2>4, <2>5, ListenerFrame DEF JobPc
<1>7. CASE ~KeepsListening(e)
  <2>1. pc' = [pc EXCEPT ![e] = "none"] /\ listening' = [listening EXCEPT ![e] = Null]
    BY <1>7 DEF Listen
  <2>2. ~started
    BY <1>2, <1>3, <1>4, <1>7 DEF Attended, KeepsListening
  <2>3. /\ pc' \in [Threads -> CallerPCs \cup ListenerPCs \cup StopPCs]
        /\ pc'[c] = pc[c] /\ \A d \in Executors : pc'[d] = "none"
    BY <1>2, <1>4, <2>1, Base DEF TypeOK, ListenerPCs
  <2>4. listening' \in [Executors -> Objects \cup {Null}] /\ listening'[e] = Null
        /\ \A d \in Executors \ {e} : listening'[d] = listening[d]
    BY <1>2, <2>1 DEF Shapes
  <2>5. TypeOK'
    <3>1. ({mine[d] : d \in Executors} \cup {listening[d] : d \in Executors})'
             \subseteq Objects \cup {Null}
      BY <1>2, <1>3, <2>4 DEF TypeOK
    <3>2. pc' \in [Threads -> CallerPCs \cup ListenerPCs \cup StopPCs]
      BY <2>3
    <3> QED
      BY <1>2, <1>3, <3>1, <3>2 DEF TypeOK
  <2>6. Shapes'
    <3>1. \A d \in Callers : pc'[d] \in CallerPCs \cup StopPCs
      BY <1>1, <2>3, Base
    <3>2. \A d \in Executors : pc'[d] \in ListenerPCs
      BY <2>3 DEF ListenerPCs
    <3> QED
      BY <1>2, <1>3, <2>4, <3>1, <3>2 DEF Shapes
  <2>7. Holding'
    <3>1. \A d \in Executors : listening'[d] = Null /\ mine'[d] = Null
      BY <1>3, <1>4, <2>4 DEF IInv, Holding, JobPc
    <3> QED
      BY <3>1 DEF Holding
  <2>8. Known' /\ Attended'
    BY <1>3, <1>4, <2>2, <2>3 DEF Known, Idle, Attended
  <2>9. HasJob' /\ Daily' /\ Counted'
    BY <1>1, <1>2, <1>3, <1>5, <2>3 DEF HasJob, Daily, IInv, Control, Counted
  <2>10. CallerKnows(c)' /\ Purpose(c)' /\ Stopping(c)'
    BY <1>2, <1>3, <1>4, <2>3 DEF CallerKnows, Purpose, Stopping, Ahead, JobPc
  <2> QED
    BY <1>1, <2>5, <2>6, <2>7, <2>8, <2>9, <2>10 DEF IInv, Control
<1> QED
  BY <1>6, <1>7

LEMMA NewDayStep ==
    ASSUME OneCaller, IInv, NewDay
    PROVE  IInv'
<1>1. /\ days < MaxDays /\ days' = days + 1 /\ due' \in BOOLEAN /\ today' = 0
      /\ UNCHANGED <<schedule, flags, refs, args, stopped, pool, pc, locals, requests,
                     accepted, ran>>
  BY DEF NewDay, automated
<1> USE DEF flags, refs, pool, locals
<1>2. TypeOK'
  <2>1. days' \in 0..MaxDays
    BY <1>1, BoundsAssumption DEF IInv, TypeOK
  <2> QED
    BY <1>1, <2>1 DEF IInv, TypeOK
<1>3. Shapes' /\ Holding'
  BY <1>1 DEF IInv, Shapes, Holding
<1>4. Known' /\ Counted' /\ Attended' /\ HasJob' /\ Daily'
  BY <1>1 DEF IInv, Control, Known, Counted, Idle, Attended, HasJob, Daily
<1>5. \A c \in Callers : CallerKnows(c)' /\ Purpose(c)' /\ Stopping(c)'
  <2>1. AllIdle' <=> AllIdle
    BY <1>1 DEF AllIdle, Idle
  <2> QED
    BY <1>1, <2>1 DEF IInv, Control, CallerKnows, Purpose, Stopping
<1> QED
  BY <1>2, <1>3, <1>4, <1>5 DEF IInv, Control

-----------------------------------------------------------------------------
\* Every step keeps the invariant.
LEMMA NextStep ==
    ASSUME OneCaller, IInv, [Next]_vars
    PROVE  IInv'
<1>1. CASE \E c \in Callers, k \in Kinds : DoJob(c, k)
  BY <1>1, DoJobStep
<1>2. ASSUME NEW c \in Callers, UNCHANGED schedule, CallerStep(c)
      PROVE  IInv'
  BY <1>2, CallerSteps, StartNewStep, StartSubmitStep DEF CallerStep
<1>3. ASSUME NEW e \in Executors, UNCHANGED schedule, ListenerStep(e)
      PROVE  IInv'
  BY <1>3, CallStep, ListenStep, ListenerSteps DEF ListenerStep
<1>4. ASSUME NEW t \in Threads, UNCHANGED schedule, StopStep(t)
      PROVE  IInv'
  <2>1. pc[t] \in StopPCs
    BY <1>4 DEF StopStep, StopFlags, StopJob, CallStopJob, SuperStop, Await, EndStop, At, StopPCs
  <2>2. t \in Callers
    BY <2>1 DEF Threads, IInv, Shapes, ListenerPCs, StopPCs, JobPc
  <2> QED
    BY <1>4, <2>2, CallerSteps, SuperStopStep, EndStopStep DEF StopStep
<1>5. CASE \E t \in Threads : Step(t)
  BY <1>2, <1>3, <1>4, <1>5 DEF Step
<1>6. CASE NewDay
  BY <1>6, NewDayStep
<1>7. CASE UNCHANGED vars
  <2>1. UNCHANGED <<schedule, started, running, runOnce, executor, listener, job, itemJob,
                    args, due, stopped, created, shut, tasks, pc, kind, request, resume,
                    awaited, listening, mine, requests, days, accepted, ran, today>>
    BY <1>7 DEF vars, flags, refs, item, pool, locals, history
  <2>2. TypeOK' /\ Shapes' /\ Holding'
    <3>1. TypeOK'
      BY <2>1 DEF IInv, TypeOK
    <3> QED
      BY <2>1, <3>1 DEF IInv, Shapes, Holding
  <2>3. Known' /\ Counted' /\ Attended' /\ HasJob' /\ Daily' /\ (AllIdle' <=> AllIdle)
    BY <2>1 DEF IInv, Control, Known, Counted, Idle, AllIdle, Attended, HasJob, Daily
  <2>4. \A c \in Callers : CallerKnows(c)' /\ Purpose(c)' /\ Stopping(c)'
    BY <2>1, <2>3 DEF IInv, Control, CallerKnows, Purpose, Stopping
  <2> QED
    BY <2>2, <2>3, <2>4 DEF IInv, Control
<1> QED
  BY <1>1, <1>5, <1>6, <1>7 DEF Next

\* The scheduled job is started with the first executor and its listener.
LEMMA Initially ==
    ASSUME OneCaller, Init
    PROVE  IInv
<1>1. /\ schedule \in {"hour", "always"} /\ started = TRUE /\ running = FALSE /\ runOnce = FALSE
      /\ executor = 1 /\ listener = 1 /\ job = Null /\ itemJob = Null /\ args = Null
      /\ due \in BOOLEAN /\ stopped = {} /\ created = 1 /\ shut = {}
      /\ tasks = [e \in Executors |-> IF e = 1 THEN <<1>> ELSE <<>>]
      /\ pc = [t \in Threads |-> IF t \in Callers THEN "idle" ELSE "none"]
      /\ kind = [c \in Callers |-> "run"]
      /\ request = [c \in Callers |-> Null] /\ resume = [t \in Threads |-> "none"]
      /\ awaited = [t \in Threads |-> Null] /\ listening = [e \in Executors |-> Null]
      /\ mine = [e \in Executors |-> Null]
      /\ requests = 0 /\ days = 0 /\ accepted = {} /\ ran = {} /\ today = 0
  BY Zenon DEF OneCaller, Init, automated, DueAgain
<1>2. /\ 1 \in Executors /\ 1 \in Objects /\ Null = 0 /\ <<1>> # <<>>
      /\ \A e \in Executors : e \in Threads /\ e \notin Callers
      /\ \A c \in Callers : c \in Threads
  BY BoundsAssumption, CallersAssumption DEF Executors, Objects, Null, Threads
<1>3. TypeOK
  <2>1. 1 \in 0..MaxRequests + 1 /\ 0 \in 0..MaxRequests /\ 0 \in 0..MaxDays
    BY BoundsAssumption
  <2>2. pc \in [Threads -> CallerPCs \cup ListenerPCs \cup StopPCs]
    BY <1>1 DEF CallerPCs, ListenerPCs
  <2>3. request \in [Callers -> 0..requests] /\ awaited \in [Threads -> 0..created]
        /\ kind \in [Callers -> {"run", "stop", "restart"}] /\ DOMAIN tasks = Executors
    BY <1>1, <1>2
  <2>4. schedule \in Configs
    BY DEF Init
  <2>5. {mine[e] : e \in Executors} \cup {listening[e] : e \in Executors} \subseteq {Null}
    BY <1>1
  <2>6. /\ executor \in 0..created /\ args \in 0..requests /\ created \in 0..MaxRequests + 1
        /\ requests \in 0..MaxRequests /\ days \in 0..MaxDays
        /\ {listener, job, itemJob} \subseteq Objects \cup {Null}
    BY <1>1, <1>2, <2>1
  <2>7. started \in BOOLEAN /\ running \in BOOLEAN /\ runOnce \in BOOLEAN /\ due \in BOOLEAN
    BY <1>1
  <2>8. stopped \subseteq Objects /\ shut \subseteq 1..created /\ accepted \cup ran \subseteq 1..requests
    BY <1>1
  <2> QED
    BY <2>2, <2>3, <2>4, <2>5, <2>6, <2>7, <2>8 DEF TypeOK
<1>4. Shapes
  BY <1>1, <1>2 DEF Shapes, CallerPCs, ListenerPCs
<1>5. Holding
  BY <1>1 DEF Holding
<1>6. Known /\ Counted /\ Attended /\ HasJob /\ Daily
  BY <1>1, <1>2 DEF Known, Idle, Counted, Attended, HasJob, Daily, StopPCs
<1>7. \A c \in Callers : CallerKnows(c) /\ Purpose(c) /\ Stopping(c)
  BY <1>1, <1>2 DEF CallerKnows, Purpose, Stopping, StopPCs
<1> QED
  BY <1>3, <1>4, <1>5, <1>6, <1>7 DEF IInv, Control

LEMMA Inductive ==
    ASSUME OneCaller
    PROVE  Spec => []IInv
<1>1. Init => IInv
  BY Initially
<1>2. IInv /\ [Next]_vars => IInv'
  BY NextStep
<1> QED
  BY <1>1, <1>2, PTL DEF Spec

\* However a scheduled job is run, stopped and restarted by one caller, and
\* however often stop() is left by the exception it catches, no two threads
\* run it at once.
THEOREM RunsAlone ==
    ASSUME OneCaller
    PROVE  Spec => []AtMostOneRun
<1>1. IInv => AtMostOneRun
  BY DEF IInv, Control, Known, Idle, JobPc, AtMostOneRun
<1> QED
  BY <1>1, Inductive, PTL

\* When doJob() comes back from stop() the job is not running, although the
\* exception may have made stop() skip the wait for it.
THEOREM Stops ==
    ASSUME OneCaller
    PROVE  Spec => []StoppedMeansStopped
<1>1. IInv => StoppedMeansStopped
  BY DEF IInv, Control, Stopping, At, StoppedMeansStopped
<1> QED
  BY <1>1, Inductive, PTL

\* The schedule runs a job that has a time of day once between two new days or
\* resets.  One with a time of day of "0" it runs as often as it is asked.
THEOREM OnSchedule ==
    ASSUME OneCaller
    PROVE  Spec => []OncePerDay
<1>1. IInv => OncePerDay
  BY DEF IInv, Control, Daily, OncePerDay
<1> QED
  BY <1>1, Inductive, PTL

\* A worker that says it is started has a thread that listens for it, or one
\* about to, at every moment and not only between two calls.
THEOREM Listens ==
    ASSUME OneCaller
    PROVE  Spec => []StartedListens
<1>1. IInv => StartedListens
  BY DEF IInv, Control, Attended, StartedListens
<1> QED
  BY <1>1, Inductive, PTL

(***************************************************************************)
(* No executor is left behind: whoever makes a new one has shut the others *)
(* down, so that a worker that is started and stopped again and again does *)
(* not collect threads.  stop() forgets the executor in its finally block, *)
(* when it has shut it down; if the exception ends it early it keeps it.   *)
(***************************************************************************)
NoneLeft == \A e \in 1..created : e = executor \/ e \in shut

Forgettable ==
    \A c \in Callers : pc[c] \in {"await", "endStop"} => executor \in {Null} \cup shut

LEMMA NoneLeftStep ==
    ASSUME OneCaller, IInv, NoneLeft, Forgettable, [Next]_vars
    PROVE  NoneLeft' /\ Forgettable'
<1> USE DEF NoneLeft, Forgettable
<1>1. /\ created \in Nat /\ shut \subseteq 1..created /\ executor \in 0..created
      /\ pc \in [Threads -> CallerPCs \cup ListenerPCs \cup StopPCs]
      /\ Null = 0
  <2>1. TypeOK /\ MaxRequests \in Nat
    BY BoundsAssumption DEF IInv
  <2>2. created \in 0..MaxRequests + 1 /\ shut \subseteq 1..created
        /\ executor \in 0..created
        /\ pc \in [Threads -> CallerPCs \cup ListenerPCs \cup StopPCs]
    BY <2>1, Zenon DEF TypeOK
  <2> QED
    BY <2>1, <2>2 DEF Null
<1>2. ASSUME NEW t \in Threads, Step(t), StopStep(t)
      PROVE  NoneLeft' /\ Forgettable'
  <2>1. t \in Callers /\ \A d \in Callers : d = t
    <3>1. pc[t] \in StopPCs
      BY <1>2 DEF StopStep, StopFlags, StopJob, CallStopJob, SuperStop, Await, EndStop,
                  At, StopPCs
    <3> QED
      BY <3>1, Base DEF Threads, IInv, Shapes, ListenerPCs, StopPCs, JobPc
  <2>2. CASE SuperStop(t)
    <3>1. \/ executor = Null /\ UNCHANGED <<executor, created, shut>>
          \/ shut' = shut \cup {executor} /\ UNCHANGED <<executor, created>>
      BY <2>2 DEF SuperStop
    <3> QED
      BY <1>1, <3>1
  <2>3. CASE EndStop(t)
    <3>1. executor' = Null /\ UNCHANGED <<created, shut>> /\ pc[t] = "endStop"
      BY <2>3 DEF EndStop, At, pool
    <3> QED
      BY <1>1, <2>1, <3>1
  <2>4. CASE Await(t)
    <3>1. UNCHANGED <<executor, created, shut>> /\ pc[t] = "await"
      BY <2>4 DEF Await, At, refs, pool
    <3> QED
      BY <1>1, <2>1, <3>1
  <2>5. CASE StopFlags(t) \/ StopJob(t) \/ CallStopJob(t)
    <3>1. UNCHANGED <<executor, created, shut>>
      BY <2>5 DEF StopFlags, StopJob, CallStopJob, refs, pool
    <3>2. pc'[t] \notin {"await", "endStop"}
      <4>1. \E label \in {"stopJob", "superStop", "callStop", "return", "clearRunOnce",
                          "reset", "runOnce"} : pc' = [pc EXCEPT ![t] = label]
        BY <2>5 DEF StopFlags, StopJob, CallStopJob, Goto, Handler, AfterStart
      <4> QED
        BY <1>1, <4>1
    <3> QED
      BY <1>1, <2>1, <3>1, <3>2
  <2> QED
    BY <1>2, <2>2, <2>3, <2>4, <2>5 DEF StopStep
<1>3. ASSUME NEW c \in Callers, StartNew(c)
      PROVE  NoneLeft' /\ Forgettable'
  <2>1. \/ UNCHANGED <<executor, created, shut>>
        \/ /\ shut' = shut \cup ({executor} \ {Null})
           /\ created' = created + 1 /\ executor' = created + 1
    BY <1>3 DEF StartNew
  <2>2. \E label \in {"reset", "runOnce", "startSubmit"} : pc' = [pc EXCEPT ![c] = label]
    BY <1>3 DEF StartNew, Goto, AfterStart
  <2>3. Forgettable'
    BY <1>1, <2>2, Base
  <2>4. NoneLeft'
    BY <1>1, <2>1
  <2> QED
    BY <2>3, <2>4
<1>4. ASSUME NEW c \in Callers, NEW k \in Kinds, DoJob(c, k)
      PROVE  NoneLeft' /\ Forgettable'
  BY <1>1, <1>4, Base DEF DoJob, Goto, refs, pool
<1>5. ASSUME NEW c \in Callers,
             Decide(c) \/ Restarted(c) \/ StartSubmit(c) \/ RunOnce(c) \/ Reset(c)
             \/ Return(c)
      PROVE  NoneLeft' /\ Forgettable'
  <2>1. UNCHANGED <<executor, created, shut>>
    BY <1>5 DEF Decide, Restarted, StartSubmit, RunOnce, Reset, Return, refs, pool
  <2>2. \E label \in {"flags", "return", "reset", "runOnce", "idle"} :
           pc' = [pc EXCEPT ![c] = label]
    BY <1>5 DEF Decide, Restarted, StartSubmit, RunOnce, Reset, Return, CallStop, Goto,
                AfterStart
  <2> QED
    BY <1>1, <2>1, <2>2, Base
<1>6. ASSUME NEW e \in Executors, ListenerStep(e)
      PROVE  NoneLeft' /\ Forgettable'
  <2>1. UNCHANGED <<executor, created, shut>>
    BY <1>6 DEF ListenerStep, Call, Listen, Check, Claim, Available, GetJob, Begin, EndJob,
                Finish, StopSelf, ClearRunOnce, ClearRunning, refs, pool
  <2>2. pc' = pc \/ \E label : pc' = [pc EXCEPT ![e] = label]
    BY <1>6 DEF ListenerStep, Call, Listen, Check, Claim, Available, GetJob, Begin, EndJob,
                Finish, StopSelf, ClearRunOnce, ClearRunning, CallStop, Goto
  <2>3. \A c \in Callers : pc'[c] = pc[c]
    BY <1>1, <2>2, Base
  <2> QED
    BY <2>1, <2>3
<1>7. CASE NewDay \/ UNCHANGED vars
  BY <1>7 DEF NewDay, vars, refs, pool
<1>8. ASSUME NEW t \in Threads, Step(t)
      PROVE  NoneLeft' /\ Forgettable'
  BY <1>2, <1>3, <1>5, <1>6, <1>8 DEF Step, CallerStep
<1> QED
  BY <1>4, <1>7, <1>8 DEF Next

\* With one caller every executor but the present one has been shut down.
THEOREM NoThreadsLeft ==
    ASSUME OneCaller
    PROVE  Spec => []NoneLeft
<1>1. Init => NoneLeft /\ Forgettable
  <2> SUFFICES ASSUME Init
               PROVE  NoneLeft /\ Forgettable
    OBVIOUS
  <2>1. automated
    BY DEF OneCaller, Init, automated
  <2>2. created = 1 /\ executor = 1
    BY <2>1 DEF Init
  <2>3. \A c \in Callers : pc[c] = "idle"
    BY DEF Init, Threads
  <2> QED
    BY <2>2, <2>3 DEF NoneLeft, Forgettable
<1>2. IInv /\ NoneLeft /\ Forgettable /\ [Next]_vars => NoneLeft' /\ Forgettable'
  BY NoneLeftStep
<1> QED
  BY <1>1, <1>2, Inductive, PTL DEF Spec

-----------------------------------------------------------------------------
(***************************************************************************)
(* Any number of callers, a job that runs by itself or on request, and     *)
(* runs that outlast the minute stop() waits.  What is left without the    *)
(* limits above is that the worker makes one executor for a call of        *)
(* doJob() at most, however the calls interleave, and one new listener     *)
(* for an executor: a call that is to make an executor is counted as if it *)
(* had made it, and so is a caller that is to hand out a listener.         *)
(***************************************************************************)
FlagTypes ==
    /\ schedule \in Configs
    /\ started \in BOOLEAN /\ running \in BOOLEAN /\ runOnce \in BOOLEAN
    /\ due \in BOOLEAN

PoolTypes ==
    /\ created \in Nat
    /\ executor \in 0..created
    /\ shut \subseteq 1..created
    /\ awaited \in [Threads -> 0..created]

\* Callers stop the worker for a request, its listeners when they have run once.
Roles ==
    /\ pc \in [Threads -> CallerPCs \cup ListenerPCs \cup StopPCs]
    /\ resume \in [Threads ->
                     {"none", "restarted", "return", "startNew", "clearRunOnce"}]
    /\ \A c \in Callers :
          /\ pc[c] \in CallerPCs \cup StopPCs
          /\ pc[c] \in StopPCs => resume[c] \in {"restarted", "return", "startNew"}
    /\ \A e \in Executors :
          /\ pc[e] \in ListenerPCs \cup StopPCs
          /\ pc[e] \in StopPCs => resume[e] = "clearRunOnce"

CallTypes ==
    /\ requests \in 0..MaxRequests /\ days \in 0..MaxDays
    /\ args \in 0..requests
    /\ kind \in [Callers -> {"run", "stop", "restart"}]
    /\ request \in [Callers -> 0..requests]
    /\ accepted \cup ran \subseteq 1..requests
    /\ \A c \in Callers : pc[c] # "idle" => request[c] # Null

JobTypes ==
    /\ {job, itemJob} \subseteq Objects \cup {Null}
    /\ mine \in [Executors -> Objects \cup {Null}]

ListenerTypes ==
    /\ listener \in Objects \cup {Null}
    /\ stopped \subseteq Objects
    /\ tasks \in [Executors -> Seq(Objects)]
    /\ listening \in [Executors -> Objects \cup {Null}]

\* The calls that may still make an executor.
Beginners ==
    {c \in Callers : pc[c] \in {"decide", "restarted", "startNew"} \cup StopPCs}

OneExecutorPerCall ==
    IsFiniteSet(Beginners) /\ created + Cardinality(Beginners) <= requests + 1

\* The listeners in the hands of executors, and the callers about to add one.
Given ==
    ({listening[e] : e \in Executors}
       \cup UNION {{tasks[e][i] : i \in DOMAIN tasks[e]} : e \in Executors}) \ {Null}
Submitters == {c \in Callers : pc[c] = "startSubmit"}

OneListenerPerExecutor ==
    /\ IsFiniteSet(Given) /\ IsFiniteSet(Submitters)
    /\ Cardinality(Given) + Cardinality(Submitters) <= created

OpenInv ==
    /\ FlagTypes /\ PoolTypes /\ Roles /\ CallTypes /\ JobTypes /\ ListenerTypes
    /\ OneExecutorPerCall /\ OneListenerPerExecutor

\* The threads that take a step.
LEMMA Steps ==
    ASSUME [Next]_vars
    PROVE  \/ \E c \in Callers, k \in Kinds : DoJob(c, k)
           \/ \E c \in Callers : CallerStep(c) /\ UNCHANGED schedule
           \/ \E t \in Threads : StopStep(t) /\ UNCHANGED schedule
           \/ \E e \in Executors : ListenerStep(e) /\ UNCHANGED schedule
           \/ NewDay \/ UNCHANGED vars
  BY DEF Next, Step

LEMMA FlagTypesStep ==
    ASSUME FlagTypes, [Next]_vars
    PROVE  FlagTypes'
<1> USE DEF FlagTypes, flags, refs, item
<1>1. ASSUME NEW c \in Callers, NEW k \in Kinds, DoJob(c, k)
      PROVE  FlagTypes'
  BY <1>1 DEF DoJob
<1>2. ASSUME NEW c \in Callers, CallerStep(c), UNCHANGED schedule
      PROVE  FlagTypes'
  <2>1. CASE Reset(c)
    <3>1. due' \in BOOLEAN
      BY <2>1, Zenon DEF Reset, DueAgain
    <3> QED
      BY <1>2, <2>1, <3>1 DEF Reset
  <2> QED
    BY <1>2, <2>1 DEF CallerStep, Decide, Restarted, StartNew, StartSubmit, RunOnce, Return
<1>3. ASSUME NEW t \in Threads, StopStep(t), UNCHANGED schedule
      PROVE  FlagTypes'
  BY <1>3 DEF StopStep, StopFlags, StopJob, CallStopJob, SuperStop, Await, EndStop
<1>4. ASSUME NEW e \in Executors, ListenerStep(e), UNCHANGED schedule
      PROVE  FlagTypes'
  BY <1>4 DEF ListenerStep, Call, Listen, Check, Claim, Available, GetJob, SetLastRun, Begin,
              EndJob, Finish, StopSelf, ClearRunOnce, ClearRunning
<1>5. CASE NewDay \/ UNCHANGED vars
  BY <1>5 DEF NewDay, vars, automated
<1> QED
  BY <1>1, <1>2, <1>3, <1>4, <1>5, Steps

LEMMA PoolTypesStep ==
    ASSUME PoolTypes, [Next]_vars
    PROVE  PoolTypes'
<1> USE DEF PoolTypes, refs, pool, locals
<1>1. ASSUME NEW c \in Callers, NEW k \in Kinds, DoJob(c, k)
      PROVE  PoolTypes'
  BY <1>1 DEF DoJob
<1>2. ASSUME NEW c \in Callers, CallerStep(c)
      PROVE  PoolTypes'
  <2>1. CASE StartNew(c)
    <3>1. awaited' = awaited
      BY <2>1 DEF StartNew
    <3>2. CASE UNCHANGED <<executor, created, shut>>
      BY <3>1, <3>2
    <3>3. CASE /\ shut' = shut \cup ({executor} \ {Null})
               /\ created' = created + 1 /\ executor' = created + 1
      <4>1. 0..created \subseteq 0..created' /\ created' \in Nat
        BY <3>3
      <4>2. awaited' \in [Threads -> 0..created']
        BY <3>1, <4>1
      <4> QED
        BY <3>3, <4>1, <4>2 DEF Null
    <3> QED
      BY <2>1, <3>2, <3>3 DEF StartNew
  <2>2. CASE ~StartNew(c)
    BY <1>2, <2>2 DEF CallerStep, Decide, Restarted, StartSubmit, RunOnce, Reset, Return
  <2> QED
    BY <2>1, <2>2
<1>3. ASSUME NEW t \in Threads, StopStep(t)
      PROVE  PoolTypes'
  <2>1. CASE SuperStop(t)
    <3>1. executor = Null => UNCHANGED <<awaited, shut>>
      BY <2>1 DEF SuperStop
    <3>2. executor # Null => /\ shut' = shut \cup {executor}
                             /\ awaited' = [awaited EXCEPT ![t] = executor]
      BY <2>1 DEF SuperStop
    <3>3. UNCHANGED <<created, executor>>
      BY <2>1 DEF SuperStop
    <3>4. executor # Null => executor \in 1..created
      BY DEF Null
    <3>5. shut' = shut \/ (executor \in 1..created /\ shut' = shut \cup {executor})
      BY <3>1, <3>2, <3>4
    <3>7. shut' \subseteq 1..created
      BY <3>5
    <3>6. awaited' \in [Threads -> 0..created]
      BY <3>1, <3>2
    <3> QED
      BY <3>3, <3>6, <3>7
  <2>2. CASE EndStop(t)
    BY <2>2 DEF EndStop, Null
  <2>3. CASE StopFlags(t) \/ StopJob(t) \/ CallStopJob(t) \/ Await(t)
    BY <2>3 DEF StopFlags, StopJob, CallStopJob, Await
  <2> QED
    BY <1>3, <2>1, <2>2, <2>3 DEF StopStep
<1>4. ASSUME NEW e \in Executors, ListenerStep(e)
      PROVE  PoolTypes'
  BY <1>4 DEF ListenerStep, Call, Listen, Check, Claim, Available, GetJob, Begin,
              EndJob, Finish, StopSelf, ClearRunOnce, ClearRunning
<1>5. CASE NewDay \/ UNCHANGED vars
  BY <1>5 DEF NewDay, vars
<1> QED
  BY <1>1, <1>2, <1>3, <1>4, <1>5, Steps

LEMMA RolesStep ==
    ASSUME Roles, [Next]_vars
    PROVE  Roles'
<1> USE DEF Roles, locals
<1>0. /\ Callers \subseteq Threads /\ Executors \subseteq Threads
      /\ Callers \cap Executors = {} /\ Threads = Callers \cup Executors
  BY CallersAssumption DEF Threads
<1>1. ASSUME NEW c \in Callers, NEW k \in Kinds, DoJob(c, k)
      PROVE  Roles'
  BY <1>0, <1>1 DEF DoJob, Goto, CallerPCs, StopPCs
<1>2. ASSUME NEW c \in Callers, CallerStep(c)
      PROVE  Roles'
  <2>1. \/ /\ resume' = resume
           /\ \E label \in CallerPCs : pc' = [pc EXCEPT ![c] = label]
        \/ /\ \E label \in {"restarted", "return", "startNew"} :
                 resume' = [resume EXCEPT ![c] = label]
           /\ pc' = [pc EXCEPT ![c] = "flags"]
    BY <1>2 DEF CallerStep, Decide, Restarted, StartNew, StartSubmit, RunOnce, Reset,
                Return, CallStop, Goto, AfterStart, CallerPCs
  <2> QED
    BY <1>0, <2>1 DEF CallerPCs, StopPCs
<1>3. ASSUME NEW t \in Threads, StopStep(t)
      PROVE  Roles'
  <2>1. resume' = resume /\ pc[t] \in StopPCs
    BY <1>3 DEF StopStep, StopFlags, StopJob, CallStopJob, SuperStop, Await, EndStop, At,
                StopPCs
  <2>2. \/ \E label \in StopPCs : pc' = [pc EXCEPT ![t] = label]
        \/ pc' = [pc EXCEPT ![t] = Handler(t)]
        \/ pc' = [pc EXCEPT ![t] = resume[t]]
    BY <1>3 DEF StopStep, StopFlags, StopJob, CallStopJob, SuperStop, Await, EndStop, Goto,
                StopPCs
  <2>3. CASE t \in Callers
    <3>1. Handler(t) \in CallerPCs /\ resume[t] \in CallerPCs
      BY <2>1, <2>3 DEF Handler, AfterStart, CallerPCs
    <3> QED
      BY <1>0, <2>1, <2>2, <2>3, <3>1 DEF CallerPCs, StopPCs
  <2>4. CASE t \in Executors
    <3>1. Handler(t) \in ListenerPCs /\ resume[t] \in ListenerPCs
      BY <2>1, <2>4 DEF Handler, AfterStart, ListenerPCs
    <3> QED
      BY <1>0, <2>1, <2>2, <2>4, <3>1 DEF ListenerPCs, StopPCs, JobPc
  <2> QED
    BY <1>0, <2>3, <2>4
<1>4. ASSUME NEW e \in Executors, ListenerStep(e)
      PROVE  Roles'
  <2>1. \/ /\ resume' = resume
           /\ pc' = pc \/ \E label \in ListenerPCs : pc' = [pc EXCEPT ![e] = label]
        \/ /\ resume' = [resume EXCEPT ![e] = "clearRunOnce"]
           /\ pc' = [pc EXCEPT ![e] = "flags"]
    BY <1>4 DEF ListenerStep, Call, Listen, Check, Claim, Available, GetJob, Begin, EndJob,
                Finish, StopSelf, ClearRunOnce, ClearRunning, CallStop, Goto, ListenerPCs
  <2> QED
    BY <1>0, <2>1 DEF ListenerPCs, StopPCs, JobPc
<1>5. CASE NewDay \/ UNCHANGED vars
  BY <1>5 DEF NewDay, vars
<1> QED
  BY <1>1, <1>2, <1>3, <1>4, <1>5, Steps

LEMMA CallTypesStep ==
    ASSUME Roles, CallTypes, [Next]_vars
    PROVE  CallTypes'
<1> USE DEF CallTypes, locals, history, item
<1>0. /\ Callers \subseteq Threads /\ Callers \cap Executors = {}
      /\ requests \in Nat /\ Null = 0 /\ MaxRequests \in Nat /\ MaxDays \in Nat
  BY CallersAssumption, BoundsAssumption DEF Threads, Null
<1>1. ASSUME NEW c \in Callers, NEW k \in Kinds, DoJob(c, k)
      PROVE  CallTypes'
  <2>1. /\ requests' = requests + 1 /\ requests' \in 0..MaxRequests
        /\ 0..requests \subseteq 0..requests' /\ 1..requests \subseteq 1..requests'
        /\ requests' \in 0..requests' /\ requests' # Null
    BY <1>0, <1>1 DEF DoJob
  <2>2. request' \in [Callers -> 0..requests'] /\ kind' \in [Callers -> {"run", "stop", "restart"}]
    BY <1>1, <2>1, KindsAssumption DEF DoJob
  <2>3. \A d \in Callers : pc'[d] # "idle" => request'[d] # Null
    BY <1>0, <1>1, <2>1 DEF DoJob, Goto, Roles
  <2> QED
    BY <1>1, <2>1, <2>2, <2>3 DEF DoJob
<1>2. ASSUME NEW c \in Callers, CallerStep(c)
      PROVE  CallTypes'
  <2>1. pc[c] # "idle" /\ request[c] \in 1..requests
    BY <1>0, <1>2 DEF CallerStep, Decide, Restarted, StartNew, StartSubmit, RunOnce, Reset,
                      Return, At
  <2>2. \E label : pc' = [pc EXCEPT ![c] = label]
    BY <1>2 DEF CallerStep, Decide, Restarted, StartNew, StartSubmit, RunOnce, Reset,
                Return, CallStop, Goto
  <2>3. \A d \in Callers : pc'[d] # "idle" => request[d] # Null
    BY <1>0, <2>1, <2>2 DEF Roles
  <2>4. /\ UNCHANGED <<requests, days, kind, request, ran>>
        /\ args' = args \/ args' = Null
        /\ accepted' = accepted \/ accepted' = accepted \cup {request[c]}
    BY <1>2 DEF CallerStep, Decide, Restarted, StartNew, StartSubmit, RunOnce, Accepts, Reset,
                Return
  <2> QED
    BY <1>0, <2>1, <2>3, <2>4
<1>3. ASSUME NEW t \in Threads, StopStep(t)
      PROVE  CallTypes'
  <2>1. pc[t] # "idle" /\ \E label : pc' = [pc EXCEPT ![t] = label]
    BY <1>3 DEF StopStep, StopFlags, StopJob, CallStopJob, SuperStop, Await, EndStop, At, Goto
  <2>2. \A d \in Callers : pc'[d] # "idle" => request[d] # Null
    BY <1>0, <2>1 DEF Roles
  <2>3. UNCHANGED <<history, args, kind, request>>
    BY <1>3 DEF StopStep, StopFlags, StopJob, CallStopJob, SuperStop, Await, EndStop
  <2> QED
    BY <2>2, <2>3
<1>4. ASSUME NEW e \in Executors, ListenerStep(e)
      PROVE  CallTypes'
  <2>1. pc' = pc \/ \E label : pc' = [pc EXCEPT ![e] = label]
    BY <1>4 DEF ListenerStep, Call, Listen, Check, Claim, Available, GetJob, Begin, EndJob,
                Finish, StopSelf, ClearRunOnce, ClearRunning, CallStop, Goto
  <2>2. \A d \in Callers : pc'[d] # "idle" => request[d] # Null
    BY <1>0, <2>1 DEF Roles
  <2>3. /\ UNCHANGED <<requests, days, accepted, kind, request>>
        /\ args' = args \/ args' = Null
        /\ ran' = ran \/ ran' = ran \cup ({args} \ {Null})
    BY <1>4 DEF ListenerStep, Call, Listen, Check, Claim, Available, GetJob, Begin, EndJob,
                Finish, StopSelf, ClearRunOnce, ClearRunning
  <2> QED
    BY <1>0, <2>2, <2>3
<1>5. CASE NewDay \/ UNCHANGED vars
  BY <1>0, <1>5 DEF NewDay, vars
<1> QED
  BY <1>1, <1>2, <1>3, <1>4, <1>5, Steps

\* A name is free as long as fewer are in use than there are.
LEMMA FreeName ==
    ASSUME NEW U, IsFiniteSet(U), Cardinality(U) < MaxRequests + 3
    PROVE  Min(Objects \ U) \in Objects
<1>1. IsFiniteSet(Objects) /\ Cardinality(Objects) = MaxRequests + 3
  BY FS_Interval, BoundsAssumption DEF Objects
<1>2. Objects \ U # {}
  <2> SUFFICES ASSUME Objects \subseteq U
               PROVE  FALSE
    OBVIOUS
  <2>1. Cardinality(Objects) <= Cardinality(U)
    BY FS_Subset
  <2> QED
    BY <1>1, <2>1, FS_CardinalityType, BoundsAssumption
<1>3. Objects \ U \in SUBSET Nat
  BY BoundsAssumption DEF Objects
<1> QED
  BY <1>2, <1>3, LeastElement

\* The executors run no more jobs than there are executors.
LEMMA JobName ==
    ASSUME JobTypes
    PROVE  ItemJob \in Objects
<1> DEFINE M == {mine[e] : e \in Executors}
<1>1. CASE itemJob # Null
  BY <1>1 DEF JobTypes, ItemJob
<1>2. CASE itemJob = Null
  <2>1. mine \in Surjection(Executors, M)
    BY DEF JobTypes, Surjection
  <2>2. IsFiniteSet(Executors) /\ Cardinality(Executors) = MaxRequests + 1
    BY FS_Interval, BoundsAssumption DEF Executors
  <2>3. IsFiniteSet(M) /\ Cardinality(M) <= MaxRequests + 1
    BY <2>1, <2>2, FS_Surjection
  <2> HIDE DEF M
  <2> DEFINE U == M \cup {job}
  <2>4. IsFiniteSet(U) /\ Cardinality(U) <= Cardinality(M) + 1
    <3>1. IsFiniteSet(U) /\ Cardinality(U) = IF job \in M THEN Cardinality(M)
                                                         ELSE Cardinality(M) + 1
      BY <2>3, FS_AddElement
    <3>2. Cardinality(M) \in Nat
      BY <2>3, FS_CardinalityType
    <3> QED
      BY <3>1, <3>2
  <2>5. Cardinality(U) < MaxRequests + 3
    BY <2>3, <2>4, FS_CardinalityType, BoundsAssumption
  <2>6. Min(Objects \ U) \in Objects
    BY <2>4, <2>5, FreeName
  <2>7. Objects \ U = Objects \ ({job, itemJob} \cup M)
    BY <1>2, BoundsAssumption DEF Objects, Null
  <2>8. NewJob = Min(Objects \ U)
    BY <2>7 DEF NewJob, M
  <2> QED
    BY <1>2, <2>6, <2>8 DEF ItemJob
<1> QED
  BY <1>1, <1>2

LEMMA JobTypesStep ==
    ASSUME JobTypes, [Next]_vars
    PROVE  JobTypes'
<1> USE JobName DEF JobTypes, locals, refs
<1>1. ASSUME NEW c \in Callers, NEW k \in Kinds, DoJob(c, k)
      PROVE  JobTypes'
  BY <1>1 DEF DoJob
<1>2. ASSUME NEW c \in Callers, CallerStep(c)
      PROVE  JobTypes'
  BY <1>2 DEF CallerStep, Decide, Restarted, StartNew, StartSubmit, RunOnce, Reset, Return
<1>3. ASSUME NEW t \in Threads, StopStep(t)
      PROVE  JobTypes'
  BY <1>3 DEF StopStep, StopFlags, StopJob, CallStopJob, SuperStop, Await, EndStop
<1>4. ASSUME NEW e \in Executors, ListenerStep(e)
      PROVE  JobTypes'
  BY <1>4 DEF ListenerStep, Call, Listen, Check, Claim, Available, GetJob, Begin, EndJob,
              Finish, StopSelf, ClearRunOnce, ClearRunning
<1>5. CASE NewDay \/ UNCHANGED vars
  BY <1>5 DEF NewDay, vars
<1> QED
  BY <1>1, <1>2, <1>3, <1>4, <1>5, Steps

\* There is a name for every new listener.
LEMMA ListenerName ==
    ASSUME OpenInv, listener = Null
    PROVE  NewListener \in Objects
<1>1. IsFiniteSet(Given) /\ Cardinality(Given) <= created
  BY FS_CardinalityType DEF OpenInv, OneListenerPerExecutor, PoolTypes
<1>2. created <= MaxRequests + 1
  BY FS_CardinalityType, BoundsAssumption DEF OpenInv, OneExecutorPerCall, CallTypes, PoolTypes
<1>3. Min(Objects \ Given) \in Objects
  BY <1>1, <1>2, FreeName, FS_CardinalityType, BoundsAssumption DEF OpenInv, PoolTypes
<1>4. Objects \ LiveListeners = Objects \ Given
  BY BoundsAssumption DEF LiveListeners, Given, Objects, Null
<1> QED
  BY <1>3, <1>4 DEF NewListener

\* What may be counted of a set that loses an element, or gains one.
LEMMA OneLess ==
    ASSUME NEW S, IsFiniteSet(S), NEW x \in S
    PROVE  /\ IsFiniteSet(S \ {x})
           /\ Cardinality(S) \in Nat /\ Cardinality(S \ {x}) \in Nat
           /\ Cardinality(S) = Cardinality(S \ {x}) + 1
  BY FS_RemoveElement, FS_CardinalityType

LEMMA OneMore ==
    ASSUME NEW S, IsFiniteSet(S), NEW x
    PROVE  /\ IsFiniteSet(S \cup {x})
           /\ Cardinality(S) \in Nat /\ Cardinality(S \cup {x}) \in Nat
           /\ Cardinality(S \cup {x}) <= Cardinality(S) + 1
<1>1. IsFiniteSet(S \cup {x}) /\ Cardinality(S \cup {x}) = IF x \in S THEN Cardinality(S)
                                                           ELSE Cardinality(S) + 1
  BY FS_AddElement
<1> QED
  BY <1>1, FS_CardinalityType

LEMMA NoMore ==
    ASSUME NEW S, IsFiniteSet(S), NEW T, T \subseteq S
    PROVE  /\ IsFiniteSet(T)
           /\ Cardinality(S) \in Nat /\ Cardinality(T) \in Nat
           /\ Cardinality(T) <= Cardinality(S)
  BY FS_Subset, FS_CardinalityType

LEMMA OneExecutorStep ==
    ASSUME PoolTypes, Roles, CallTypes, OneExecutorPerCall, [Next]_vars
    PROVE  OneExecutorPerCall'
<1> USE DEF OneExecutorPerCall, history, pool
<1>0. /\ Callers \subseteq Threads /\ Callers \cap Executors = {}
      /\ Threads = Callers \cup Executors
      /\ requests \in Nat /\ created \in Nat
      /\ pc \in [Threads -> CallerPCs \cup ListenerPCs \cup StopPCs]
  BY CallersAssumption, BoundsAssumption DEF Threads, Roles, CallTypes, PoolTypes
<1>1. ASSUME NEW c \in Callers, NEW k \in Kinds, DoJob(c, k)
      PROVE  OneExecutorPerCall'
  <2>1. Beginners' = Beginners \cup {c}
    BY <1>0, <1>1 DEF DoJob, Goto, Beginners
  <2>2. requests' = requests + 1 /\ created' = created
    BY <1>1 DEF DoJob
  <2>3. /\ IsFiniteSet(Beginners') /\ Cardinality(Beginners) \in Nat
        /\ Cardinality(Beginners') \in Nat
        /\ Cardinality(Beginners') <= Cardinality(Beginners) + 1
    BY <2>1, OneMore
  <2> QED
    BY <1>0, <2>2, <2>3
<1>2. ASSUME Beginners' \subseteq Beginners, UNCHANGED <<requests, created>>
      PROVE  OneExecutorPerCall'
  <2>1. /\ IsFiniteSet(Beginners') /\ Cardinality(Beginners) \in Nat
        /\ Cardinality(Beginners') \in Nat
        /\ Cardinality(Beginners') <= Cardinality(Beginners)
    BY <1>2, NoMore
  <2> QED
    BY <1>0, <1>2, <2>1
<1>3. ASSUME NEW c \in Callers, StartNew(c)
      PROVE  OneExecutorPerCall'
  <2>1. c \in Beginners /\ Beginners' = Beginners \ {c}
    <3>1. pc[c] = "startNew" /\ \E label \in {"reset", "runOnce", "startSubmit"} :
             pc' = [pc EXCEPT ![c] = label]
      BY <1>3 DEF StartNew, At, Goto, AfterStart
    <3> QED
      BY <1>0, <3>1 DEF Beginners, StopPCs
  <2>2. /\ IsFiniteSet(Beginners') /\ Cardinality(Beginners) \in Nat
        /\ Cardinality(Beginners') \in Nat
        /\ Cardinality(Beginners) = Cardinality(Beginners') + 1
    BY <2>1, OneLess
  <2>3. requests' = requests /\ created' \in {created, created + 1}
    BY <1>3 DEF StartNew
  <2> QED
    BY <1>0, <2>2, <2>3
<1>4. ASSUME NEW c \in Callers, CallerStep(c), ~StartNew(c)
      PROVE  OneExecutorPerCall'
  <2>1. UNCHANGED <<requests, created>>
    BY <1>4 DEF CallerStep, Decide, Restarted, StartSubmit, RunOnce, Reset, Return
  <2>2. Beginners' \subseteq Beginners
    <3>1. \/ pc[c] \in {"decide", "restarted"} /\ \E label : pc' = [pc EXCEPT ![c] = label]
          \/ \E label \in {"reset", "runOnce", "return", "idle"} :
                pc' = [pc EXCEPT ![c] = label]
      BY <1>4 DEF CallerStep, Decide, Restarted, StartSubmit, RunOnce, Reset, Return, At,
                  CallStop, Goto, AfterStart
    <3> QED
      BY <1>0, <3>1 DEF Beginners, StopPCs
  <2> QED
    BY <1>2, <2>1, <2>2
<1>5. ASSUME NEW t \in Threads, StopStep(t)
      PROVE  OneExecutorPerCall'
  <2>1. pc[t] \in StopPCs /\ \E label : pc' = [pc EXCEPT ![t] = label]
    BY <1>5 DEF StopStep, StopFlags, StopJob, CallStopJob, SuperStop, Await, EndStop, At, Goto,
                StopPCs
  <2>2. UNCHANGED <<requests, created>>
    BY <1>5 DEF StopStep, StopFlags, StopJob, CallStopJob, SuperStop, Await, EndStop
  <2>3. Beginners' \subseteq Beginners
    BY <1>0, <2>1 DEF Beginners
  <2> QED
    BY <1>2, <2>2, <2>3
<1>6. ASSUME NEW e \in Executors, ListenerStep(e)
      PROVE  OneExecutorPerCall'
  <2>1. pc' = pc \/ \E label : pc' = [pc EXCEPT ![e] = label]
    BY <1>6 DEF ListenerStep, Call, Listen, Check, Claim, Available, GetJob, Begin, EndJob,
                Finish, StopSelf, ClearRunOnce, ClearRunning, CallStop, Goto
  <2>2. UNCHANGED <<requests, created>>
    BY <1>6 DEF ListenerStep, Call, Listen, Check, Claim, Available, GetJob, Begin, EndJob,
                Finish, StopSelf, ClearRunOnce, ClearRunning
  <2>3. Beginners' \subseteq Beginners
    BY <1>0, <2>1 DEF Beginners
  <2> QED
    BY <1>2, <2>2, <2>3
<1>7. CASE NewDay \/ UNCHANGED vars
  <2>1. UNCHANGED <<requests, created, pc>>
    BY <1>7 DEF NewDay, vars
  <2> QED
    BY <1>2, <2>1 DEF Beginners
<1> QED
  BY <1>1, <1>3, <1>4, <1>5, <1>6, <1>7, Steps

\* What an executor is given, and takes.
LEMMA GivenElement ==
    ASSUME NEW l
    PROVE  l \in Given <=>
              /\ l # Null
              /\ \/ \E e \in Executors : l = listening[e]
                 \/ \E e \in Executors : \E i \in DOMAIN tasks[e] : l = tasks[e][i]
  BY DEF Given

LEMMA GivenSubmitted ==
    ASSUME ListenerTypes, NEW l \in Objects, listening' = listening,
           tasks' = tasks \/ \E d \in Executors : tasks' = [tasks EXCEPT ![d] = Append(@, l)]
    PROVE  Given' \subseteq Given \cup {l} /\ tasks' \in [Executors -> Seq(Objects)]
<1>1. CASE tasks' = tasks
  BY <1>1 DEF Given, ListenerTypes
<1>2. CASE \E d \in Executors : tasks' = [tasks EXCEPT ![d] = Append(@, l)]
  <2>1. PICK d \in Executors : tasks' = [tasks EXCEPT ![d] = Append(@, l)]
    BY <1>2
  <2>2. /\ tasks[d] \in Seq(Objects) /\ tasks'[d] = Append(tasks[d], l)
        /\ \A e \in Executors \ {d} : tasks'[e] = tasks[e]
    BY <2>1 DEF ListenerTypes
  <2>3. \A i \in DOMAIN tasks'[d] :
           tasks'[d][i] = l \/ \E j \in DOMAIN tasks[d] : tasks'[d][i] = tasks[d][j]
    BY <2>2
  <2>4. Given' \subseteq Given \cup {l}
    <3> SUFFICES ASSUME NEW k \in Given', k # l
                 PROVE  k \in Given
      OBVIOUS
    <3>1. /\ k # Null
          /\ \/ \E e \in Executors : k = listening[e]
             \/ \E e \in Executors : \E i \in DOMAIN tasks'[e] : k = tasks'[e][i]
      BY DEF Given
    <3>2. \/ \E e \in Executors : k = listening[e]
          \/ \E e \in Executors : \E i \in DOMAIN tasks[e] : k = tasks[e][i]
      BY <2>2, <2>3, <3>1
    <3> QED
      BY <3>1, <3>2 DEF Given
  <2>5. Append(tasks[d], l) \in Seq(Objects)
    BY <2>2
  <2> QED
    BY <2>1, <2>4, <2>5 DEF ListenerTypes
<1> QED
  BY <1>1, <1>2

LEMMA GivenTaken ==
    ASSUME ListenerTypes, NEW e \in Executors, Call(e)
    PROVE  Given' \subseteq Given /\ ListenerTypes'
<1>1. /\ tasks[e] \in Seq(Objects) /\ tasks[e] # <<>>
      /\ tasks' = [tasks EXCEPT ![e] = Tail(tasks[e])]
      /\ stopped' = stopped \ {Head(tasks[e])} /\ listener' = listener
      /\ listening' = listening \/ listening' = [listening EXCEPT ![e] = Head(tasks[e])]
  BY DEF ListenerTypes, Call, refs
<1>2. /\ Head(tasks[e]) \in Objects /\ Head(tasks[e]) = tasks[e][1] /\ 1 \in DOMAIN tasks[e]
      /\ Tail(tasks[e]) \in Seq(Objects)
      /\ \A i \in DOMAIN Tail(tasks[e]) :
            i + 1 \in DOMAIN tasks[e] /\ Tail(tasks[e])[i] = tasks[e][i + 1]
  BY <1>1
<1>3. /\ tasks'[e] = Tail(tasks[e])
      /\ \A d \in Executors \ {e} : tasks'[d] = tasks[d]
      /\ \A d \in Executors : listening'[d] \in {listening[d], tasks[e][1]}
  BY <1>1, <1>2 DEF ListenerTypes
<1>4. Given' \subseteq Given
  <2> SUFFICES ASSUME NEW k \in Given'
               PROVE  k \in Given
    OBVIOUS
  <2>1. /\ k # Null
        /\ \/ \E d \in Executors : k = listening'[d]
           \/ \E d \in Executors : \E i \in DOMAIN tasks'[d] : k = tasks'[d][i]
    BY DEF Given
  <2>2. \/ \E d \in Executors : k = listening[d]
        \/ \E d \in Executors : \E i \in DOMAIN tasks[d] : k = tasks[d][i]
    <3>1. CASE \E d \in Executors : k = listening'[d]
      BY <1>2, <1>3, <3>1
    <3>2. CASE \E d \in Executors : \E i \in DOMAIN tasks'[d] : k = tasks'[d][i]
      <4>1. PICK d \in Executors : \E i \in DOMAIN tasks'[d] : k = tasks'[d][i]
        BY <3>2
      <4>2. CASE d = e
        <5>1. PICK i \in DOMAIN Tail(tasks[e]) : k = Tail(tasks[e])[i]
          BY <1>3, <4>1, <4>2
        <5>2. i + 1 \in DOMAIN tasks[e] /\ k = tasks[e][i + 1]
          BY <1>2, <5>1
        <5> QED
          BY <5>2, Zenon
      <4>3. CASE d # e
        BY <1>3, <4>1, <4>3
      <4> QED
        BY <4>2, <4>3
    <3> QED
      BY <2>1, <3>1, <3>2
  <2> QED
    BY <2>1, <2>2 DEF Given
<1> QED
  BY <1>1, <1>2, <1>4 DEF ListenerTypes

LEMMA OneListenerStep ==
    ASSUME OpenInv, [Next]_vars
    PROVE  ListenerTypes' /\ OneListenerPerExecutor'
<1> DEFINE Goal == ListenerTypes' /\ OneListenerPerExecutor'
<1> USE DEF OneListenerPerExecutor, pool, refs, locals
<1>0. /\ Callers \subseteq Threads /\ Callers \cap Executors = {}
      /\ Threads = Callers \cup Executors
      /\ created \in Nat /\ ListenerTypes /\ OneListenerPerExecutor
      /\ pc \in [Threads -> CallerPCs \cup ListenerPCs \cup StopPCs]
  BY CallersAssumption DEF Threads, OpenInv, Roles, PoolTypes
\* No listener is handed out, and nobody is about to hand one out who was not.
<1>1. ASSUME Given' \subseteq Given, Submitters' \subseteq Submitters, created' = created
      PROVE  OneListenerPerExecutor'
  <2>1. /\ IsFiniteSet(Given') /\ IsFiniteSet(Submitters')
        /\ Cardinality(Given) \in Nat /\ Cardinality(Given') \in Nat
        /\ Cardinality(Submitters) \in Nat /\ Cardinality(Submitters') \in Nat
        /\ Cardinality(Given') <= Cardinality(Given)
        /\ Cardinality(Submitters') <= Cardinality(Submitters)
    BY <1>0, <1>1, NoMore
  <2> QED
    BY <1>0, <1>1, <2>1
<1>2. ASSUME UNCHANGED <<tasks, listening>>
      PROVE  Given' = Given
  BY <1>2 DEF Given
<1>3. ASSUME NEW c \in Callers, NEW k \in Kinds, DoJob(c, k)
      PROVE  Goal
  <2>1. UNCHANGED <<tasks, listening, listener, stopped, created>>
    BY <1>3 DEF DoJob
  <2>2. Submitters' \subseteq Submitters
    BY <1>0, <1>3 DEF DoJob, Goto, Submitters
  <2> QED
    BY <1>0, <1>1, <1>2, <2>1, <2>2 DEF ListenerTypes
<1>4. ASSUME NEW c \in Callers, StartNew(c)
      PROVE  Goal
  <2>1. UNCHANGED <<tasks, listening, listener, stopped>>
    BY <1>4 DEF StartNew
  <2>2. CASE created' = created /\ pc' = [pc EXCEPT ![c] = AfterStart(c)]
    <3>1. Submitters' \subseteq Submitters
      BY <1>0, <2>2 DEF Submitters, AfterStart
    <3> QED
      BY <1>0, <1>1, <1>2, <2>1, <2>2, <3>1 DEF ListenerTypes
  <2>3. CASE created' = created + 1 /\ pc' = [pc EXCEPT ![c] = "startSubmit"]
    <3>1. Submitters' = Submitters \cup {c}
      BY <1>0, <2>3 DEF Submitters
    <3>2. /\ IsFiniteSet(Submitters') /\ Cardinality(Submitters) \in Nat
          /\ Cardinality(Submitters') \in Nat
          /\ Cardinality(Submitters') <= Cardinality(Submitters) + 1
      BY <1>0, <3>1, OneMore
    <3>3. Given' = Given /\ Cardinality(Given) \in Nat
      BY <1>0, <1>2, <2>1, NoMore
    <3> QED
      BY <1>0, <2>1, <2>3, <3>2, <3>3 DEF ListenerTypes
  <2> QED
    BY <1>4, <2>2, <2>3 DEF StartNew, Goto
<1>5. ASSUME NEW c \in Callers, StartSubmit(c)
      PROVE  Goal
  <2>1. /\ listener' = IF listener = Null THEN NewListener ELSE listener
        /\ listening' = listening /\ created' = created
        /\ tasks' = IF executor \in {Null} \cup shut THEN tasks
                    ELSE [tasks EXCEPT ![executor] = Append(@, listener')]
        /\ stopped' = stopped \ (IF listener = Null THEN {listener'} ELSE {})
    BY <1>5 DEF StartSubmit
  <2>2. listener' \in Objects
    BY <1>0, <2>1, ListenerName DEF ListenerTypes
  <2>3. executor \notin {Null} \cup shut => executor \in Executors
    <3>1. created <= MaxRequests + 1
      BY FS_CardinalityType, BoundsAssumption
         DEF OpenInv, OneExecutorPerCall, CallTypes, PoolTypes
    <3> QED
      BY <3>1, BoundsAssumption DEF OpenInv, PoolTypes, Executors, Null
  <2>4. Given' \subseteq Given \cup {listener'} /\ tasks' \in [Executors -> Seq(Objects)]
    <3>1. tasks' = tasks
          \/ \E d \in Executors : tasks' = [tasks EXCEPT ![d] = Append(@, listener')]
      BY <2>1, <2>3
    <3> QED
      BY <1>0, <2>1, <2>2, <3>1, GivenSubmitted
  <2>5. c \in Submitters /\ Submitters' = Submitters \ {c}
    <3>1. pc[c] = "startSubmit"
          /\ \E label \in {"reset", "runOnce"} : pc' = [pc EXCEPT ![c] = label]
      BY <1>5 DEF StartSubmit, At, Goto, AfterStart
    <3> QED
      BY <1>0, <3>1 DEF Submitters
  <2>6. /\ IsFiniteSet(Submitters') /\ Cardinality(Submitters) \in Nat
        /\ Cardinality(Submitters') \in Nat
        /\ Cardinality(Submitters) = Cardinality(Submitters') + 1
    BY <1>0, <2>5, OneLess
  <2> DEFINE U == Given \cup {listener'}
  <2>7. /\ IsFiniteSet(U) /\ Cardinality(Given) \in Nat /\ Cardinality(U) \in Nat
        /\ Cardinality(U) <= Cardinality(Given) + 1
    BY <1>0, OneMore
  <2>8. Given' \subseteq U
    BY <2>4
  <2> HIDE DEF U
  <2>9. /\ IsFiniteSet(Given') /\ Cardinality(Given') \in Nat
        /\ Cardinality(Given') <= Cardinality(U)
    BY <2>7, <2>8, NoMore
  <2>10. OneListenerPerExecutor'
    BY <1>0, <2>1, <2>6, <2>7, <2>9
  <2>11. stopped' \subseteq Objects
    BY <1>0, <2>1 DEF ListenerTypes
  <2> QED
    BY <1>0, <2>1, <2>2, <2>4, <2>10, <2>11 DEF ListenerTypes
<1>6. ASSUME NEW c \in Callers, CallerStep(c), ~StartNew(c), ~StartSubmit(c)
      PROVE  Goal
  <2>1. UNCHANGED <<tasks, listening, listener, stopped, created>>
    BY <1>6 DEF CallerStep, Decide, Restarted, RunOnce, Reset, Return
  <2>2. \E label \in {"flags", "reset", "return", "idle"} : pc' = [pc EXCEPT ![c] = label]
    BY <1>6 DEF CallerStep, Decide, Restarted, RunOnce, Reset, Return, CallStop, Goto
  <2>3. Submitters' \subseteq Submitters
    BY <1>0, <2>2 DEF Submitters
  <2> QED
    BY <1>0, <1>1, <1>2, <2>1, <2>3 DEF ListenerTypes
<1>7. ASSUME NEW t \in Threads, StopStep(t)
      PROVE  Goal
  <2>1. UNCHANGED <<tasks, listening, created>>
    BY <1>7 DEF StopStep, StopFlags, StopJob, CallStopJob, SuperStop, Await, EndStop
  <2>2. Submitters' \subseteq Submitters
    <3>1. pc[t] \in StopPCs
      BY <1>7 DEF StopStep, StopFlags, StopJob, CallStopJob, SuperStop, Await, EndStop, At,
                  StopPCs
    <3>2. \/ \E label \in StopPCs : pc' = [pc EXCEPT ![t] = label]
          \/ pc' = [pc EXCEPT ![t] = Handler(t)]
          \/ pc' = [pc EXCEPT ![t] = resume[t]]
      BY <1>7 DEF StopStep, StopFlags, StopJob, CallStopJob, SuperStop, Await, EndStop, Goto,
                  StopPCs
    <3>3. Handler(t) # "startSubmit" /\ resume[t] # "startSubmit"
      <4>1. resume[t] \in {"restarted", "return", "startNew", "clearRunOnce"}
        BY <1>0, <3>1 DEF OpenInv, Roles
      <4> QED
        BY <4>1 DEF Handler, AfterStart
    <3> QED
      BY <1>0, <3>2, <3>3 DEF Submitters, StopPCs
  <2>3. listener' \in Objects \cup {Null} /\ stopped' \subseteq Objects
    <3>1. CASE SuperStop(t)
      <4>1. \/ UNCHANGED <<listener, stopped>>
            \/ /\ listener' = IF listener = Null THEN NewListener ELSE listener
               /\ stopped' = stopped \cup {listener'}
        BY <3>1 DEF SuperStop
      <4> QED
        BY <1>0, <4>1, ListenerName DEF ListenerTypes
    <3>2. CASE ~SuperStop(t)
      <4>1. stopped' = stopped /\ listener' \in {listener, Null}
        BY <1>7, <3>2 DEF StopStep, StopFlags, StopJob, CallStopJob, Await, EndStop
      <4> QED
        BY <1>0, <4>1 DEF ListenerTypes
    <3> QED
      BY <3>1, <3>2
  <2> QED
    BY <1>0, <1>1, <1>2, <2>1, <2>2, <2>3 DEF ListenerTypes
<1>8. ASSUME NEW e \in Executors, ListenerStep(e)
      PROVE  Goal
  <2>1. Submitters' \subseteq Submitters
    <3>1. pc' = pc \/ \E label : pc' = [pc EXCEPT ![e] = label]
      BY <1>8 DEF ListenerStep, Call, Listen, Check, Claim, Available, GetJob, Begin, EndJob,
                  Finish, StopSelf, ClearRunOnce, ClearRunning, CallStop, Goto
    <3> QED
      BY <1>0, <3>1 DEF Submitters
  <2>2. created' = created
    BY <1>8 DEF ListenerStep, Call, Listen, Check, Claim, Available, GetJob, Begin, EndJob,
                Finish, StopSelf, ClearRunOnce, ClearRunning
  <2>3. Given' \subseteq Given /\ ListenerTypes'
    <3>1. CASE Call(e)
      BY <1>0, <3>1, GivenTaken
    <3>2. CASE Listen(e)
      <4>1. /\ listening' = listening \/ listening' = [listening EXCEPT ![e] = Null]
            /\ UNCHANGED <<listener, stopped, tasks>>
        BY <3>2 DEF Listen
      <4>2. \A d \in Executors : listening'[d] \in {listening[d], Null}
        BY <1>0, <4>1 DEF ListenerTypes
      <4>3. Given' \subseteq Given
        BY <4>1, <4>2 DEF Given
      <4> QED
        BY <1>0, <4>1, <4>3 DEF ListenerTypes
    <3>3. CASE ~Call(e) /\ ~Listen(e)
      <4>1. UNCHANGED <<tasks, listening, listener, stopped>>
        BY <1>8, <3>3 DEF ListenerStep, Check, Claim, Available, GetJob, Begin, EndJob,
                Finish, StopSelf, ClearRunOnce, ClearRunning
      <4> QED
        BY <1>0, <1>2, <4>1 DEF ListenerTypes
    <3> QED
      BY <3>1, <3>2, <3>3
  <2> QED
    BY <1>1, <2>1, <2>2, <2>3
<1>9. CASE NewDay \/ UNCHANGED vars
  <2>1. UNCHANGED <<tasks, listening, listener, stopped, created, pc>>
    BY <1>9 DEF NewDay, vars
  <2> QED
    BY <1>0, <1>1, <1>2, <2>1 DEF ListenerTypes, Submitters
<1> QED
  BY <1>3, <1>4, <1>5, <1>6, <1>7, <1>8, <1>9, Steps

LEMMA OpenInit ==
    ASSUME Init
    PROVE  OpenInv
<1>1. /\ Null = 0 /\ MaxRequests \in Nat /\ MaxDays \in Nat /\ 1 \in Objects /\ 1 \in Executors
      /\ Callers \subseteq Threads /\ Callers \cap Executors = {}
  BY BoundsAssumption, CallersAssumption DEF Null, Objects, Executors, Threads
<1>2. automated \in BOOLEAN
  BY DEF automated
<1>3. FlagTypes /\ PoolTypes /\ JobTypes
  <2>1. FlagTypes
    <3>1. due \in BOOLEAN
      BY Zenon DEF Init, DueAgain
    <3> QED
      BY <1>2, <3>1 DEF Init, FlagTypes
  <2>2. created \in {0, 1} /\ executor \in {0, created} /\ shut = {}
    BY <1>1, <1>2 DEF Init
  <2>3. PoolTypes
    BY <1>1, <2>2 DEF Init, PoolTypes
  <2>4. JobTypes
    BY <1>1 DEF Init, JobTypes
  <2> QED
    BY <2>1, <2>3, <2>4
<1>4. Roles
  BY <1>1 DEF Init, Roles, Threads, CallerPCs, ListenerPCs, StopPCs
<1>5. CallTypes
  BY <1>1 DEF Init, CallTypes
<1>6. ListenerTypes
  <2>1. tasks \in [Executors -> Seq(Objects)]
    BY <1>1 DEF Init
  <2> QED
    BY <1>1, <2>1 DEF Init, ListenerTypes
<1>7. Beginners = {} /\ Submitters = {}
  BY <1>1 DEF Init, Beginners, Submitters, StopPCs, Threads
<1>8. Given \subseteq 1..created
  <2>1. \A e \in Executors : listening[e] = Null
    BY DEF Init
  <2>2. \A e \in Executors : \A i \in DOMAIN tasks[e] : created = 1 /\ tasks[e][i] = 1
    BY <1>1 DEF Init
  <2> QED
    BY <2>1, <2>2 DEF Given
<1>9. created \in {0, 1} /\ requests = 0
  BY <1>2 DEF Init
<1>10. OneExecutorPerCall
  BY <1>7, <1>9, FS_EmptySet DEF OneExecutorPerCall
<1>11. OneListenerPerExecutor
  <2>1. IsFiniteSet(1..created) /\ Cardinality(1..created) = created
    BY <1>9, FS_Interval
  <2>2. IsFiniteSet(Given) /\ Cardinality(Given) \in Nat /\ Cardinality(Given) <= created
    BY <1>8, <2>1, NoMore
  <2>3. IsFiniteSet(Submitters) /\ Cardinality(Submitters) = 0
    BY <1>7, FS_EmptySet
  <2> QED
    BY <2>2, <2>3 DEF OneListenerPerExecutor
<1> QED
  BY <1>3, <1>4, <1>5, <1>6, <1>10, <1>11 DEF OpenInv

LEMMA OpenInvariant == Spec => []OpenInv
<1>1. Init => OpenInv
  BY OpenInit
<1>2. OpenInv /\ [Next]_vars => OpenInv'
  <2> SUFFICES ASSUME OpenInv, [Next]_vars
               PROVE  OpenInv'
    OBVIOUS
  <2>1. /\ FlagTypes /\ PoolTypes /\ Roles /\ CallTypes /\ JobTypes
        /\ OneExecutorPerCall
    BY DEF OpenInv
  <2> QED
    BY <2>1, FlagTypesStep, PoolTypesStep, RolesStep, CallTypesStep, JobTypesStep,
       OneExecutorStep, OneListenerStep DEF OpenInv
<1> QED
  BY <1>1, <1>2, PTL DEF Spec

\* With any number of callers every variable keeps its type; in particular
\* the names for executors, listeners and jobs are enough.
THEOREM Typing == Spec => []TypeOK
<1>1. OpenInv => TypeOK
  <2> SUFFICES ASSUME OpenInv
               PROVE  TypeOK
    OBVIOUS
  <2>1. /\ FlagTypes /\ PoolTypes /\ Roles /\ CallTypes /\ JobTypes /\ ListenerTypes
        /\ created <= MaxRequests + 1
    BY FS_CardinalityType, BoundsAssumption
       DEF OpenInv, OneExecutorPerCall, CallTypes, PoolTypes
  <2>2. created \in 0..MaxRequests + 1 /\ DOMAIN tasks = Executors
    BY <2>1, BoundsAssumption DEF PoolTypes, ListenerTypes
  <2>3. {mine[e] : e \in Executors} \cup {listening[e] : e \in Executors}
           \subseteq Objects \cup {Null}
    BY <2>1 DEF JobTypes, ListenerTypes
  <2> QED
    BY <2>1, <2>2, <2>3
       DEF TypeOK, FlagTypes, PoolTypes, Roles, CallTypes, JobTypes, ListenerTypes
<1> QED
  BY <1>1, OpenInvariant, PTL

\* With any number of callers, the worker makes one executor for every call of
\* doJob() at most, beside the one a scheduled job is started with.
ExecutorPerCall == created <= requests + 1

THEOREM NoMoreExecutors == Spec => []ExecutorPerCall
<1>1. OpenInv => ExecutorPerCall
  BY FS_CardinalityType, BoundsAssumption
     DEF OpenInv, OneExecutorPerCall, CallTypes, PoolTypes, ExecutorPerCall
<1> QED
  BY <1>1, OpenInvariant, PTL
===============================================================================
