------------------------ MODULE EsActionUpdate_proofs ------------------------
(***************************************************************************)
(* What holds of the update path for any number of threads, object IDs and *)
(* retries.  Typing, the ownership of the blocker's IDs and the meaning of *)
(* a reported success hold whatever ElasticSearch does; that the blocker   *)
(* is a lock is proved up to the first request that throws.                *)
(***************************************************************************)
EXTENDS EsActionUpdate, WellFoundedInduction, TLAPS

\* A thread that is inside execute() has the ID of the vertex it updates.
OpIsSet == \A t \in Threads : pc[t] # "idle" => op[t] \in Ids

TypeInv == TypeOK /\ StackBounded /\ OpIsSet

-----------------------------------------------------------------------------
\* The two ways Return leaves a frame keep the stack, the program counter and
\* the operation consistent.
LEMMA ReturnTypes ==
    ASSUME TypeInv, NEW t \in Threads, pc[t] # "idle",
           NEW result \in BOOLEAN, Return(t, result),
           UNCHANGED retries
    PROVE  /\ pc' \in [Threads -> PCs]
           /\ op' \in [Threads -> Ids \cup {NoId}]
           /\ frames' \in [Threads -> 0..OfflineRetries + 1]
           /\ successful' \in [Threads -> BOOLEAN]
           /\ StackBounded'
           /\ OpIsSet'
<1> USE RetriesAssumption
<1>1. frames[t] \in 1..OfflineRetries + 1
  BY DEF TypeInv, TypeOK, StackBounded
<1>2. /\ frames' = [frames EXCEPT ![t] = frames[t] - 1]
      /\ pc' = [pc EXCEPT ![t] = IF frames[t] > 1 THEN "unwind" ELSE "idle"]
      /\ op' = [op EXCEPT ![t] = IF frames[t] > 1 THEN op[t] ELSE NoId]
      /\ successful' = [successful EXCEPT ![t] = frames[t] = 1 /\ result]
  BY DEF Return, Goto
<1>3. /\ pc' \in [Threads -> PCs]
      /\ op' \in [Threads -> Ids \cup {NoId}]
  BY <1>2 DEF TypeInv, TypeOK, PCs
<1>4. frames' \in [Threads -> 0..OfflineRetries + 1]
  <2>1. frames[t] - 1 \in 0..OfflineRetries + 1
    BY <1>1
  <2> QED
    BY <1>2, <2>1 DEF TypeInv, TypeOK
<1>5. successful' \in [Threads -> BOOLEAN]
  <2>1. (frames[t] = 1 /\ result) \in BOOLEAN
    BY Zenon
  <2>2. successful \in [Threads -> BOOLEAN]
    BY DEF TypeInv, TypeOK
  <2> HIDE DEF TypeInv
  <2> QED
    BY <1>2, <2>1, <2>2, Zenon
<1>6. StackBounded'
  <2> SUFFICES ASSUME NEW u \in Threads
               PROVE  /\ frames'[u] <= retries'[u] + 1
                      /\ frames'[u] = 0 <=> pc'[u] = "idle"
    BY DEF StackBounded
  <2>1. /\ frames[u] \in 0..OfflineRetries + 1
        /\ retries[u] \in 0..OfflineRetries
        /\ frames[u] <= retries[u] + 1
        /\ frames[u] = 0 <=> pc[u] = "idle"
    BY DEF TypeInv, TypeOK, StackBounded
  <2>2. CASE u = t
    BY <1>1, <1>2, <2>1, <2>2 DEF TypeInv, TypeOK
  <2>3. CASE u # t
    BY <1>2, <2>1, <2>3 DEF TypeInv, TypeOK
  <2> QED
    BY <2>2, <2>3
<1>7. OpIsSet'
  BY <1>1, <1>2 DEF TypeInv, TypeOK, OpIsSet
<1> QED
  BY <1>3, <1>4, <1>5, <1>6, <1>7

LEMMA TypeInit == Init => TypeInv
<1> SUFFICES ASSUME Init
             PROVE  TypeInv
  OBVIOUS
<1>1. TypeOK
  <2>1. /\ verified \in [Threads -> BOOLEAN]
        /\ written \in [Threads -> BOOLEAN]
        /\ successful \in [Threads -> BOOLEAN]
    BY Zenon DEF Init
  <2>2. /\ pc \in [Threads -> PCs]
        /\ response \in [Threads -> AllResponses]
    BY DEF Init, PCs, AllResponses
  <2>3. /\ op \in [Threads -> Ids \cup {NoId}]
        /\ retries \in [Threads -> 0..OfflineRetries]
        /\ frames \in [Threads -> 0..OfflineRetries + 1]
    BY RetriesAssumption DEF Init
  <2>4. /\ queue \subseteq Ids
        /\ up \in BOOLEAN /\ offline \in BOOLEAN /\ thrown \in BOOLEAN
    BY DEF Init
  <2> QED
    BY <2>1, <2>2, <2>3, <2>4 DEF TypeOK
<1>2. StackBounded /\ OpIsSet
  BY DEF Init, StackBounded, OpIsSet
<1> QED
  BY <1>1, <1>2 DEF TypeInv

\* Every step keeps the types, the bound on the stack and the operation.
LEMMA TypeNext == TypeInv /\ [Next]_vars => TypeInv'
<1> SUFFICES ASSUME TypeInv, [Next]_vars
             PROVE  TypeInv'
  OBVIOUS
<1> USE RetriesAssumption, ResponsesAssumption, NoIdAssumption
<1>1. CASE UNCHANGED vars
  BY <1>1 DEF TypeInv, TypeOK, StackBounded, OpIsSet, vars
<1>2. ASSUME NEW t \in Threads, NEW id \in Ids, Execute(t, id)
      PROVE  TypeInv'
  BY <1>2 DEF Execute, Goto, TypeInv, TypeOK, StackBounded, OpIsSet, PCs
<1>3. ASSUME NEW t \in Threads, Step(t)
      PROVE  TypeInv'
  <2>1. CASE CheckOffline(t)
    BY <2>1 DEF CheckOffline, Goto, TypeInv, TypeOK, StackBounded, OpIsSet, PCs
  <2>2. CASE EnterWait(t)
    BY <2>2 DEF EnterWait, Goto, TypeInv, TypeOK, StackBounded, OpIsSet, PCs
  <2>3. CASE EndWait(t)
    BY <2>3 DEF EndWait, Goto, TypeInv, TypeOK, StackBounded, OpIsSet, PCs
  <2>4. CASE BlockAndQueue(t)
    BY <2>4 DEF BlockAndQueue, AddToQueue, Goto, TypeInv, TypeOK, StackBounded,
                OpIsSet, PCs, Owning
  <2>5. CASE Sync(t)
    <3>1. PICK r \in Responses, applied \in BOOLEAN :
             /\ response' = [response EXCEPT ![t] = r]
             /\ written' = [written EXCEPT ![t] = @ \/ applied]
             /\ \E label \in Owning \ {"sync"} : pc' = [pc EXCEPT ![t] = label]
      <4>1. \A S \in {{TRUE}, BOOLEAN, {FALSE}} : S \subseteq BOOLEAN
        OBVIOUS
      <4> QED
        BY <2>5, <4>1 DEF Sync, Goto, Owning
    <3>2. response' \in [Threads -> AllResponses]
      BY <3>1 DEF TypeInv, TypeOK
    <3>3. written' \in [Threads -> BOOLEAN]
      BY <3>1, Zenon DEF TypeInv, TypeOK
    <3>4. /\ pc' \in [Threads -> PCs]
          /\ pc[t] = "sync"
          /\ pc'[t] # "idle"
          /\ \A u \in Threads : u # t => pc'[u] = pc[u]
      BY <2>5, <3>1 DEF Sync, TypeInv, TypeOK, PCs, Owning
    <3> QED
      BY <2>5, <3>2, <3>3, <3>4 DEF Sync, TypeInv, TypeOK, StackBounded, OpIsSet
  <2>6. CASE Online(t)
    BY <2>6 DEF Online, Goto, TypeInv, TypeOK, StackBounded, OpIsSet, PCs, Owning
  <2>7. CASE CatchFinished(t)
    BY <2>7 DEF CatchFinished, RemoveFromQueue, Goto, TypeInv, TypeOK,
                StackBounded, OpIsSet, PCs
  <2>8. CASE Retry(t)
    <3>1. retries[t] + 1 \in 0..OfflineRetries
      BY <2>8 DEF Retry, RetriesLeft, TypeInv, TypeOK
    <3>2. frames[t] + 1 \in 1..OfflineRetries + 1
      BY <2>8, <3>1 DEF Retry, TypeInv, TypeOK, StackBounded
    <3> QED
      BY <2>8, <3>1, <3>2
         DEF Retry, IncrementRetries, Goto, TypeInv, TypeOK, StackBounded,
             OpIsSet, PCs
  <2>9. CASE GiveUp(t)
    BY <2>9 DEF GiveUp, Goto, TypeInv, TypeOK, StackBounded, OpIsSet, PCs
  <2>10. CASE Verify(t)
    BY <2>10 DEF Verify, Goto, TypeInv, TypeOK, StackBounded, OpIsSet, PCs
  <2>11. CASE SetOffline(t)
    <3>1. offline' \in BOOLEAN
      BY <2>11 DEF SetOffline, TypeInv, TypeOK
    <3> QED
      BY <2>11, <3>1
         DEF SetOffline, Goto, TypeInv, TypeOK, StackBounded, OpIsSet, PCs
  <2>12. CASE Finally(t)
    <3>1. /\ pc[t] # "idle"
          /\ Succeeded(t) \in BOOLEAN
          /\ Return(t, Succeeded(t))
          /\ UNCHANGED retries
      BY <2>12, Zenon DEF Finally, Succeeded
    <3> QED
      BY <2>12, <3>1, ReturnTypes
         DEF Finally, RemoveFromQueue, TypeInv, TypeOK
  <2>13. CASE Unwind(t)
    <3>1. /\ pc[t] # "idle"
          /\ Return(t, FALSE)
          /\ UNCHANGED retries
      BY <2>13 DEF Unwind
    <3> QED
      BY <2>13, <3>1, ReturnTypes
         DEF Unwind, RemoveFromQueue, TypeInv, TypeOK
  <2> QED
    BY <1>3, <2>1, <2>2, <2>3, <2>4, <2>5, <2>6, <2>7, <2>8, <2>9, <2>10,
       <2>11, <2>12, <2>13 DEF Step
<1>4. CASE GoDown
  BY <1>4 DEF GoDown, TypeInv, TypeOK, StackBounded, OpIsSet
<1>5. CASE ComeUp
  BY <1>5 DEF ComeUp, TypeInv, TypeOK, StackBounded, OpIsSet
<1> QED
  BY <1>1, <1>2, <1>3, <1>4, <1>5 DEF Next

LEMMA TypeInvariance == Spec => []TypeInv
  BY TypeInit, TypeNext, PTL DEF Spec

\* Type correctness of the update path, for all threads, IDs and retries.
THEOREM Typing == Spec => []TypeOK
  BY TypeInvariance, PTL DEF TypeInv

\* execute() is never deeper in itself than the retries it has counted, so the
\* recursion is bounded by config.getOfflineRetries() + 1.
THEOREM BoundedRecursion == Spec => []StackBounded
  BY TypeInvariance, PTL DEF TypeInv

-----------------------------------------------------------------------------
(***************************************************************************)
(* What a step does to the blocker: a thread takes its ID, a thread gives  *)
(* its ID up (in a frame that may have given it up before), or nobody's    *)
(* ownership changes.                                                      *)
(***************************************************************************)
Takes(t) ==
    /\ pc[t] = "start"
    /\ op[t] \in Ids \ queue
    /\ queue' = queue \cup {op[t]}
    /\ pc' = [pc EXCEPT ![t] = "sync"]
    /\ op' = op

GivesUp(t) ==
    /\ pc[t] \in {"catch", "finally", "unwind"}
    /\ queue' = queue \ {op[t]}
    /\ pc'[t] \notin Owning
    /\ \A u \in Threads \ {t} : pc'[u] = pc[u] /\ op'[u] = op[u]

KeepsLock ==
    /\ queue' = queue
    /\ \A u \in Threads : /\ pc'[u] \in Owning <=> pc[u] \in Owning
                          /\ pc[u] \in Owning => op'[u] = op[u]

\* Return leaves the other threads alone and the thread without its ID.
LEMMA ReturnGivesUp ==
    ASSUME TypeOK, NEW t \in Threads, NEW result, Return(t, result)
    PROVE  /\ pc'[t] \notin Owning
           /\ \A u \in Threads \ {t} : pc'[u] = pc[u] /\ op'[u] = op[u]
<1>1. /\ pc' = [pc EXCEPT ![t] = IF frames[t] > 1 THEN "unwind" ELSE "idle"]
      /\ op' = [op EXCEPT ![t] = IF frames[t] > 1 THEN op[t] ELSE NoId]
  BY DEF Return, Goto
<1> QED
  BY <1>1 DEF TypeOK, Owning

LEMMA LockStep ==
    ASSUME TypeInv, [Next]_vars
    PROVE  \/ \E t \in Threads : Takes(t)
           \/ \E t \in Threads : GivesUp(t)
           \/ KeepsLock
<1> USE DEF Goto
<1>1. CASE UNCHANGED vars
  BY <1>1 DEF vars, KeepsLock
<1>2. ASSUME NEW t \in Threads, NEW id \in Ids, Execute(t, id)
      PROVE  KeepsLock
  BY <1>2 DEF Execute, KeepsLock, TypeInv, TypeOK, Owning
<1>3. ASSUME NEW t \in Threads, Step(t)
      PROVE  Takes(t) \/ GivesUp(t) \/ KeepsLock
  <2>1. CASE CheckOffline(t) \/ EnterWait(t) \/ EndWait(t)
    BY <2>1 DEF CheckOffline, EnterWait, EndWait, KeepsLock, TypeInv, TypeOK,
                Owning
  <2>2. CASE BlockAndQueue(t)
    BY <2>2 DEF BlockAndQueue, AddToQueue, Takes, TypeInv, OpIsSet
  <2>3. CASE Sync(t)
    <3>1. PICK label \in Owning : pc' = [pc EXCEPT ![t] = label]
      BY <2>3 DEF Sync, Owning
    <3> QED
      BY <2>3, <3>1 DEF Sync, KeepsLock, TypeInv, TypeOK, Owning
  <2>4. CASE Online(t)
    BY <2>4 DEF Online, KeepsLock, TypeInv, TypeOK, Owning
  <2>5. CASE CatchFinished(t)
    BY <2>5 DEF CatchFinished, RemoveFromQueue, GivesUp, TypeInv, TypeOK, Owning
  <2>6. CASE Retry(t) \/ GiveUp(t) \/ Verify(t) \/ SetOffline(t)
    BY <2>6 DEF Retry, GiveUp, Verify, SetOffline, KeepsLock, TypeInv, TypeOK,
                Owning
  <2>7. CASE Finally(t)
    BY <2>7, ReturnGivesUp DEF Finally, RemoveFromQueue, GivesUp, TypeInv
  <2>8. CASE Unwind(t)
    BY <2>8, ReturnGivesUp DEF Unwind, RemoveFromQueue, GivesUp, TypeInv
  <2> QED
    BY <1>3, <2>1, <2>2, <2>3, <2>4, <2>5, <2>6, <2>7, <2>8 DEF Step
<1>4. CASE GoDown \/ ComeUp
  BY <1>4 DEF GoDown, ComeUp, KeepsLock
<1> QED
  BY <1>1, <1>2, <1>3, <1>4 DEF Next

\* No ID is left in the blocker's queue without a thread that will remove it,
\* whatever ElasticSearch answers: an update never blocks a vertex for good.
THEOREM NoOrphanedId == Spec => []LockHasOwner
<1>1. Init => LockHasOwner
  BY DEF Init, LockHasOwner
<1>2. TypeInv /\ LockHasOwner /\ [Next]_vars => LockHasOwner'
  <2> SUFFICES ASSUME TypeInv, LockHasOwner, [Next]_vars, NEW id \in queue'
               PROVE  \E u \in Threads : op'[u] = id /\ pc'[u] \in Owning
    BY DEF LockHasOwner, Owners
  <2>1. ASSUME NEW t \in Threads, Takes(t)
        PROVE  \E u \in Threads : op'[u] = id /\ pc'[u] \in Owning
    <3>1. CASE id = op[t]
      BY <2>1, <3>1 DEF Takes, TypeInv, TypeOK, Owning
    <3>2. CASE id \in queue
      BY <2>1, <3>2 DEF Takes, LockHasOwner, Owners, TypeInv, TypeOK, Owning
    <3> QED
      BY <2>1, <3>1, <3>2 DEF Takes
  <2>2. ASSUME NEW t \in Threads, GivesUp(t)
        PROVE  \E u \in Threads : op'[u] = id /\ pc'[u] \in Owning
    <3>1. PICK u \in Threads : op[u] = id /\ pc[u] \in Owning
      BY <2>2 DEF GivesUp, LockHasOwner, Owners
    <3>2. u # t
      BY <2>2, <3>1 DEF GivesUp
    <3> QED
      BY <2>2, <3>1, <3>2 DEF GivesUp
  <2>3. CASE KeepsLock
    <3>1. PICK u \in Threads : op[u] = id /\ pc[u] \in Owning
      BY <2>3 DEF KeepsLock, LockHasOwner, Owners
    <3>2. op'[u] = id /\ pc'[u] \in Owning
      BY <2>3, <3>1 DEF KeepsLock
    <3> QED
      BY <3>2
  <2> QED
    BY <2>1, <2>2, <2>3, LockStep
<1> QED
  BY <1>1, <1>2, TypeInvariance, PTL DEF Spec

-----------------------------------------------------------------------------
\* A frame that is about to report success got "ok" for its own request.
OkIsWritten ==
    \A t \in Threads :
        pc[t] \in {"online", "finally"} /\ response[t] = "ok" => written[t]

\* The value Return hands to the caller is a success only in a thread whose
\* document was written.
LEMMA ReturnReports ==
    ASSUME TypeOK, SuccessIsWritten, NEW t \in Threads, NEW result \in BOOLEAN,
           result => written[t],
           Return(t, result), UNCHANGED written
    PROVE  SuccessIsWritten'
<1> SUFFICES ASSUME NEW u \in Threads, successful'[u]
             PROVE  written'[u]
  BY DEF SuccessIsWritten
<1>1. successful' = [successful EXCEPT ![t] = frames[t] = 1 /\ result]
  BY DEF Return
<1>2. successful \in [Threads -> BOOLEAN]
  BY DEF TypeOK
<1>3. CASE u = t
  <2>1. successful'[t] = (frames[t] = 1 /\ result)
    BY <1>1, <1>2, Zenon
  <2> QED
    BY <1>3, <2>1
<1>4. CASE u # t
  BY <1>1, <1>2, <1>4 DEF SuccessIsWritten
<1> QED
  BY <1>3, <1>4

\* A reported success is a written document, whatever failed and was retried.
THEOREM ReportedSuccess == Spec => []SuccessIsWritten
<1> DEFINE Inv == OkIsWritten /\ SuccessIsWritten
<1>1. Init => Inv
  BY DEF Init, OkIsWritten, SuccessIsWritten
<1>2. TypeInv /\ Inv /\ [Next]_vars => Inv'
  <2> SUFFICES ASSUME TypeInv, OkIsWritten, SuccessIsWritten, [Next]_vars
               PROVE  OkIsWritten' /\ SuccessIsWritten'
    OBVIOUS
  <2> USE DEF Goto
  <2>1. CASE UNCHANGED vars
    BY <2>1 DEF vars, OkIsWritten, SuccessIsWritten
  <2>2. ASSUME NEW t \in Threads, NEW id \in Ids, Execute(t, id)
        PROVE  OkIsWritten' /\ SuccessIsWritten'
    BY <2>2 DEF Execute, OkIsWritten, SuccessIsWritten, TypeInv, TypeOK
  <2>3. ASSUME NEW t \in Threads, Step(t)
        PROVE  OkIsWritten' /\ SuccessIsWritten'
    <3>1. CASE Sync(t)
      <4>1. PICK r \in Responses, applied \in BOOLEAN :
               /\ response' = [response EXCEPT ![t] = r]
               /\ written' = [written EXCEPT ![t] = @ \/ applied]
               /\ r = "ok" => applied
        BY <3>1 DEF Sync
      <4>2. /\ response'[t] = r
            /\ r = "ok" => written'[t]
            /\ written[t] => written'[t]
        BY <4>1, Zenon DEF TypeInv, TypeOK
      <4>3. \A u \in Threads \ {t} :
               response'[u] = response[u] /\ written'[u] = written[u]
        BY <4>1 DEF TypeInv, TypeOK
      <4>4. /\ successful' = successful
            /\ \A u \in Threads \ {t} : pc'[u] = pc[u]
        BY <3>1 DEF Sync, TypeInv, TypeOK
      <4>5. OkIsWritten'
        BY <4>2, <4>3, <4>4 DEF OkIsWritten
      <4>6. SuccessIsWritten'
        BY <4>2, <4>3, <4>4 DEF SuccessIsWritten
      <4> QED
        BY <4>5, <4>6
    <3>2. CASE Finally(t) \/ Unwind(t)
      <4>1. \E result \in BOOLEAN : /\ result => written[t]
                                    /\ Return(t, result)
        BY <3>2, Zenon DEF Finally, Unwind, Succeeded, OkIsWritten
      <4>2. UNCHANGED <<response, written>>
        BY <3>2 DEF Finally, Unwind
      <4>3. \A u \in Threads : pc'[u] = pc[u] \/ pc'[u] \notin Owning
        BY <4>1, ReturnGivesUp DEF TypeInv
      <4>4. OkIsWritten'
        BY <4>2, <4>3 DEF OkIsWritten, Owning
      <4>5. SuccessIsWritten'
        BY <4>1, <4>2, ReturnReports DEF TypeInv
      <4> QED
        BY <4>4, <4>5
    <3>3. CASE ~(Sync(t) \/ Finally(t) \/ Unwind(t))
      <4>1. /\ UNCHANGED <<response, written, successful>>
            /\ \A u \in Threads : \/ pc'[u] \notin {"online", "finally"}
                                  \/ pc'[u] = pc[u]
                                  \/ pc[u] = "online"
        BY <2>3, <3>3
           DEF Step, CheckOffline, EnterWait, EndWait, BlockAndQueue, Online,
               CatchFinished, Retry, GiveUp, Verify, SetOffline, TypeInv, TypeOK
      <4> QED
        BY <4>1 DEF OkIsWritten, SuccessIsWritten
    <3> QED
      BY <3>1, <3>2, <3>3
  <2>4. CASE GoDown \/ ComeUp
    BY <2>4 DEF GoDown, ComeUp, OkIsWritten, SuccessIsWritten
  <2> QED
    BY <2>1, <2>2, <2>3, <2>4 DEF Next
<1>3. Inv => SuccessIsWritten
  OBVIOUS
<1> QED
  BY <1>1, <1>2, <1>3, TypeInvariance, PTL DEF Spec

-----------------------------------------------------------------------------
(***************************************************************************)
(* The blocker as a lock.  Up to the first request that throws a frame    *)
(* calls finished() once, for an ID it has.  When a request throws, the    *)
(* catch block and the finally block both call it, and the second call may *)
(* be for an ID that another thread has taken since.                       *)
(***************************************************************************)
\* No thread is on the error path, and execute() does not call itself.
NoErrorPath ==
    \A t \in Threads :
        /\ pc[t] \notin {"catch", "decide", "verify", "verified", "unwind"}
        /\ frames[t] <= 1

\* The ID of a thread that took it is in the queue.
OwnedIsQueued == \A t \in Threads : pc[t] \in Owning => op[t] \in queue

ExclusionInv == NoErrorPath /\ OwnedIsQueued /\ MutualExclusion

LEMMA NoErrorPathNext ==
    ASSUME ~thrown', TypeInv, NoErrorPath, [Next]_vars
    PROVE  NoErrorPath'
<1> USE DEF Goto
<1>1. CASE UNCHANGED vars
  BY <1>1 DEF vars, NoErrorPath
<1>2. ASSUME NEW t \in Threads, NEW id \in Ids, Execute(t, id)
      PROVE  NoErrorPath'
  BY <1>2 DEF Execute, NoErrorPath, TypeInv, TypeOK
<1>3. ASSUME NEW t \in Threads, Step(t)
      PROVE  NoErrorPath'
  <2>1. pc[t] \notin {"catch", "decide", "verify", "verified", "unwind"}
    BY DEF NoErrorPath
  <2>2. CASE CheckOffline(t) \/ EnterWait(t) \/ EndWait(t) \/ BlockAndQueue(t)
             \/ Online(t)
    BY <2>2 DEF CheckOffline, EnterWait, EndWait, BlockAndQueue, Online,
                NoErrorPath, TypeInv, TypeOK
  <2>3. CASE Sync(t)
    <3>1. PICK label \in {"online", "finally"} :
             pc' = [pc EXCEPT ![t] = label]
      BY <2>3 DEF Sync, Thrown
    <3> QED
      BY <2>3, <3>1 DEF Sync, NoErrorPath, TypeInv, TypeOK
  <2>4. CASE Finally(t)
    <3>1. frames[t] = 1
      BY <2>4 DEF Finally, NoErrorPath, TypeInv, TypeOK, StackBounded
    <3>2. /\ pc' = [pc EXCEPT ![t] = "idle"]
          /\ frames' = [frames EXCEPT ![t] = 0]
      BY <2>4, <3>1 DEF Finally, Return
    <3> QED
      BY <3>2 DEF NoErrorPath, TypeInv, TypeOK
  <2> QED
    BY <1>3, <2>1, <2>2, <2>3, <2>4
       DEF Step, CatchFinished, Retry, GiveUp, Verify, SetOffline, Unwind
<1>4. CASE GoDown \/ ComeUp
  BY <1>4 DEF GoDown, ComeUp, NoErrorPath
<1> QED
  BY <1>1, <1>2, <1>3, <1>4 DEF Next

LEMMA ExclusionNext ==
    ASSUME ~thrown', TypeInv, ExclusionInv, [Next]_vars
    PROVE  ExclusionInv'
<1>1. NoErrorPath'
  BY NoErrorPathNext DEF ExclusionInv
<1>2. ASSUME NEW t \in Threads, Takes(t)
      PROVE  OwnedIsQueued' /\ MutualExclusion'
  <2>1. /\ pc'[t] = "sync"
        /\ \A u \in Threads \ {t} : pc'[u] = pc[u]
        /\ op' = op
        /\ op[t] \notin queue
        /\ queue' = queue \cup {op[t]}
    BY <1>2 DEF Takes, TypeInv, TypeOK
  <2>2. \A u \in Threads \ {t} : pc[u] \in Owning => op[u] # op[t]
    BY <2>1 DEF ExclusionInv, OwnedIsQueued
  <2>3. OwnedIsQueued'
    BY <2>1 DEF ExclusionInv, OwnedIsQueued
  <2>4. MutualExclusion'
    BY <2>1, <2>2 DEF ExclusionInv, MutualExclusion
  <2> QED
    BY <2>3, <2>4
<1>3. ASSUME NEW t \in Threads, GivesUp(t)
      PROVE  OwnedIsQueued' /\ MutualExclusion'
  <2>1. pc[t] \in Owning
    BY <1>3 DEF GivesUp, ExclusionInv, NoErrorPath, Owning
  <2>2. \A u \in Threads : pc'[u] \in Owning =>
           u # t /\ pc[u] \in Owning /\ op'[u] = op[u]
    BY <1>3 DEF GivesUp
  <2>3. \A u \in Threads \ {t} : pc[u] \in Owning => op[u] # op[t]
    BY <2>1 DEF ExclusionInv, MutualExclusion
  <2>4. OwnedIsQueued'
    BY <1>3, <2>2, <2>3 DEF GivesUp, ExclusionInv, OwnedIsQueued
  <2>5. MutualExclusion'
    BY <2>2 DEF ExclusionInv, MutualExclusion
  <2> QED
    BY <2>4, <2>5
<1>4. ASSUME KeepsLock
      PROVE  OwnedIsQueued' /\ MutualExclusion'
  <2>1. \A u \in Threads : pc'[u] \in Owning =>
           pc[u] \in Owning /\ op'[u] = op[u]
    BY <1>4 DEF KeepsLock
  <2> QED
    BY <1>4, <2>1
       DEF KeepsLock, ExclusionInv, OwnedIsQueued, MutualExclusion
<1>5. OwnedIsQueued' /\ MutualExclusion'
  BY <1>2, <1>3, <1>4, LockStep
<1> QED
  BY <1>1, <1>5 DEF ExclusionInv

\* An exception is not forgotten.
LEMMA ThrownStays == [Next]_vars /\ ~thrown' => ~thrown
<1> SUFFICES ASSUME [Next]_vars, ~thrown'
             PROVE  ~thrown
  OBVIOUS
<1>1. ASSUME NEW t \in Threads, Sync(t)
      PROVE  ~thrown
  BY <1>1 DEF Sync
<1>2. ASSUME NEW t \in Threads, Step(t), ~Sync(t)
      PROVE  thrown' = thrown
  BY <1>2 DEF Step, CheckOffline, EnterWait, EndWait, BlockAndQueue, Online,
              CatchFinished, Retry, GiveUp, Verify, SetOffline, Finally, Unwind
<1>3. ASSUME NEW t \in Threads, NEW id \in Ids, Execute(t, id)
      PROVE  thrown' = thrown
  BY <1>3 DEF Execute
<1>4. CASE GoDown \/ ComeUp \/ UNCHANGED vars
  BY <1>4 DEF GoDown, ComeUp, vars
<1> QED
  BY <1>1, <1>2, <1>3, <1>4 DEF Next

LockInv == ~thrown => ExclusionInv

LEMMA ExclusionInvariance == Spec => [](TypeInv /\ LockInv)
<1>1. Init => LockInv
  BY DEF Init, LockInv, ExclusionInv, NoErrorPath, OwnedIsQueued,
         MutualExclusion, Owning
<1>2. TypeInv /\ LockInv /\ [Next]_vars => LockInv'
  BY ExclusionNext, ThrownStays DEF LockInv
<1> QED
  BY <1>1, <1>2, TypeInvariance, PTL DEF Spec

\* Up to the first request that throws, one thread at a time updates a vertex.
THEOREM Exclusion == Spec => []ExclusiveUntilThrown
<1>1. LockInv => ExclusiveUntilThrown
  BY DEF LockInv, ExclusionInv, ExclusiveUntilThrown
<1> QED
  BY <1>1, ExclusionInvariance, PTL

\* And only the thread that took an ID takes it out of the queue again.
THEOREM OwnerReleases == Spec => ReleasedByOwner
<1> DEFINE Release == \A id \in queue : id \notin queue' /\ ~thrown' =>
                         \E t \in Owners(id) : pc'[t] \notin Owning
<1>1. TypeInv /\ LockInv /\ [Next]_vars => [Release]_vars
  <2> SUFFICES ASSUME TypeInv, ExclusionInv, [Next]_vars,
                      NEW id \in queue, id \notin queue'
               PROVE  \E t \in Owners(id) : pc'[t] \notin Owning
    BY ThrownStays DEF LockInv
  <2>1. PICK t \in Threads : GivesUp(t)
    BY LockStep DEF Takes, KeepsLock
  <2>2. pc[t] \in Owning
    BY <2>1 DEF GivesUp, ExclusionInv, NoErrorPath, Owning
  <2>3. op[t] = id
    BY <2>1 DEF GivesUp
  <2>4. t \in Owners(id) /\ pc'[t] \notin Owning
    BY <2>1, <2>2, <2>3 DEF GivesUp, Owners
  <2> QED
    BY <2>4
<1>2. Spec => [](TypeInv /\ LockInv)
  BY ExclusionInvariance
<1> HIDE DEF Release
<1>3. Spec => [][Release]_vars
  BY <1>1, <1>2, PTL DEF Spec
<1> QED
  BY <1>3 DEF ReleasedByOwner, Release

-----------------------------------------------------------------------------
(***************************************************************************)
(* The refinement of VertexLock.  With one owner at most, an ID's holder   *)
(* is that owner.                                                          *)
(***************************************************************************)
LEMMA OneOwner ==
    ASSUME MutualExclusion
    PROVE  \A id, t : t \in Owners(id) => Owners(id) = {t}
  BY DEF MutualExclusion, Owners

LEMMA OneOwnerNext ==
    ASSUME MutualExclusion'
    PROVE  \A id, t : t \in Owners(id)' => Owners(id)' = {t}
  BY DEF MutualExclusion, Owners

\* An ID whose owners a step does not change keeps its holder.
LEMMA SameHolder ==
    ASSUME MutualExclusion, NEW id, Owners(id)' = Owners(id)
    PROVE  HolderOf(id)' = HolderOf(id)
<1>1. CASE Owners(id) = {}
  BY <1>1 DEF HolderOf
<1>2. CASE Owners(id) # {}
  <2>1. PICK t : t \in Owners(id)
    BY <1>2
  <2>2. Owners(id) = {t} /\ Owners(id)' = {t}
    BY <2>1, OneOwner
  <2>3. HolderOf(id) = t
    BY <2>2 DEF HolderOf
  <2>4. HolderOf(id)' = t
    BY <2>2 DEF HolderOf
  <2> QED
    BY <2>3, <2>4
<1> QED
  BY <1>1, <1>2

LEMMA TakesStarts ==
    ASSUME TypeInv, ExclusionInv, ExclusionInv', NEW t \in Threads, Takes(t)
    PROVE  Lock!Start(t, op[t])
<1>1. Owners(op[t]) = {}
  BY DEF Takes, ExclusionInv, OwnedIsQueued, Owners
<1>2. {u \in Threads : op'[u] = op[t] /\ pc'[u] \in Owning} = {t}
  <2>1. op'[t] = op[t] /\ pc'[t] \in Owning
    BY DEF Takes, Owning, TypeInv, TypeOK
  <2>2. \A u \in Threads : op'[u] = op[t] /\ pc'[u] \in Owning => u = t
    BY <1>1 DEF Takes, Owners, TypeInv, TypeOK
  <2> QED
    BY <2>1, <2>2
<1>3. ASSUME NEW id \in Ids \ {op[t]}
      PROVE  HolderOf(id)' = HolderOf(id)
  <2>1. Owners(id)' = Owners(id)
    BY DEF Takes, Owners, Owning, TypeInv, TypeOK
  <2> QED
    BY <2>1, SameHolder DEF ExclusionInv
<1>4. HolderOf(op[t]) = NoThread
  BY <1>1 DEF HolderOf
<1>5. ASSUME NEW id \in Ids, id = op[t]
      PROVE  HolderOf(id)' = t
  <2>1. Owners(id)' = {t}
    BY <1>2, <1>5 DEF Owners
  <2> QED
    BY <2>1 DEF HolderOf
<1>6. op[t] \in Ids
  BY DEF Takes
<1> QED
  BY <1>3, <1>4, <1>5, <1>6 DEF Lock!Start

LEMMA GivesUpFinishes ==
    ASSUME TypeInv, ExclusionInv, ExclusionInv', NEW t \in Threads, GivesUp(t)
    PROVE  Lock!Finished(t, op[t])
<1>1. pc[t] \in Owning /\ op[t] \in Ids
  BY DEF GivesUp, ExclusionInv, NoErrorPath, OwnedIsQueued, Owning,
         TypeInv, OpIsSet
<1>2. Owners(op[t]) = {t}
  BY <1>1, OneOwner DEF Owners, ExclusionInv
<1>3. {u \in Threads : op'[u] = op[t] /\ pc'[u] \in Owning} = {}
  BY <1>2 DEF GivesUp, Owners
<1>4. ASSUME NEW id \in Ids \ {op[t]}
      PROVE  HolderOf(id)' = HolderOf(id)
  <2>1. Owners(id)' = Owners(id)
    BY DEF GivesUp, Owners
  <2> QED
    BY <2>1, SameHolder DEF ExclusionInv
<1>5. HolderOf(op[t]) = t
  BY <1>2 DEF HolderOf
<1>6. ASSUME NEW id \in Ids, id = op[t]
      PROVE  HolderOf(id)' = NoThread
  BY <1>3, <1>6 DEF HolderOf, Owners
<1> QED
  BY <1>1, <1>4, <1>5, <1>6 DEF Lock!Finished

\* And up to then the blocker implements the abstract lock: a step of an update
\* takes a free ID, gives up an ID its thread holds, or leaves the lock alone.
THEOREM LockImplemented == Spec => ImplementsVertexLock
<1> DEFINE HolderStep == [Lock!Next]_([id \in Ids |-> HolderOf(id)])
<1>1. Init => Lock!Init
  BY DEF Init, Lock!Init, HolderOf, Owners, Owning
<1>2. TypeInv /\ ExclusionInv /\ ExclusionInv' /\ [Next]_vars => HolderStep
  <2> SUFFICES ASSUME TypeInv, ExclusionInv, ExclusionInv', [Next]_vars
               PROVE  \/ Lock!Next
                      \/ [id \in Ids |-> HolderOf(id)]'
                           = [id \in Ids |-> HolderOf(id)]
    OBVIOUS
  <2>1. ASSUME NEW t \in Threads, Takes(t)
        PROVE  Lock!Next
    BY <2>1, TakesStarts DEF Lock!Next, Takes
  <2>2. ASSUME NEW t \in Threads, GivesUp(t)
        PROVE  Lock!Next
    <3>1. op[t] \in Ids
      BY <2>2 DEF GivesUp, TypeInv, OpIsSet
    <3> QED
      BY <2>2, <3>1, GivesUpFinishes DEF Lock!Next
  <2>3. ASSUME KeepsLock
        PROVE  \A id \in Ids : HolderOf(id)' = HolderOf(id)
    <3> SUFFICES ASSUME NEW id \in Ids
                 PROVE  HolderOf(id)' = HolderOf(id)
      OBVIOUS
    <3>1. {u \in Threads : op'[u] = id /\ pc'[u] \in Owning} = Owners(id)
      BY <2>3 DEF KeepsLock, Owners
    <3>2. Owners(id)' = Owners(id)
      BY <3>1 DEF Owners
    <3> QED
      BY <3>2, SameHolder DEF ExclusionInv
  <2> QED
    BY <2>1, <2>2, <2>3, LockStep
<1>3. TypeInv /\ LockInv /\ LockInv' /\ [Next]_vars => [thrown' \/ HolderStep]_vars
  BY <1>2, ThrownStays DEF LockInv
<1> HIDE DEF HolderStep
<1>4. Spec => [][thrown' \/ HolderStep]_vars
  BY <1>3, ExclusionInvariance, PTL DEF Spec
<1> QED
  BY <1>1, <1>4, PTL DEF ImplementsVertexLock, HolderStep, Spec

-----------------------------------------------------------------------------
(***************************************************************************)
(* How much of an update is left: the retries, and in one try the steps to *)
(* the return of the innermost frame and of those under it.                *)
(***************************************************************************)
TriesLeft(t) == OfflineRetries - retries[t]

StepsLeft(t) ==
    CASE pc[t] = "unwind" -> frames[t]
      [] pc[t] \in {"finally", "verified"} -> OfflineRetries + 2
      [] pc[t] \in {"online", "verify"} -> OfflineRetries + 3
      [] pc[t] = "decide" -> OfflineRetries + 4
      [] pc[t] = "catch" -> OfflineRetries + 5
      [] pc[t] = "sync" -> OfflineRetries + 6
      [] pc[t] = "start" -> OfflineRetries + 7
      [] pc[t] = "waiting" -> OfflineRetries + 8
      [] pc[t] = "blocked" -> OfflineRetries + 9
      [] pc[t] = "enter" -> OfflineRetries + 10
      [] OTHER -> 0

UpdateLeft(t) == <<TriesLeft(t), StepsLeft(t)>>

Less == {ij \in Nat \X Nat : ij[1] < ij[2]}
UpdateOrder == LexPairOrdering(Less, Less, Nat, Nat)

UpdatesWindDown ==
    [][\A t \in Threads : pc[t] # "idle" =>
         /\ Step(t) => <<UpdateLeft(t)', UpdateLeft(t)>> \in UpdateOrder
         /\ ~Step(t) => UpdateLeft(t)' = UpdateLeft(t)]_vars

\* There is no infinite descent in the order.
LEMMA UpdateOrderIsWellFounded == IsWellFoundedOn(UpdateOrder, Nat \X Nat)
<1>1. IsWellFoundedOn(OpToRel(<, Nat), Nat)
  BY NatLessThanWellFounded
<1>2. OpToRel(<, Nat) = Less
  BY DEF OpToRel, Less
<1> QED
  BY <1>1, <1>2, WFLexPairOrdering DEF UpdateOrder

LEMMA StepWindsDown ==
    ASSUME TypeInv, TypeInv', NEW t \in Threads, Step(t)
    PROVE  \/ TriesLeft(t)' < TriesLeft(t)
           \/ TriesLeft(t)' = TriesLeft(t) /\ StepsLeft(t)' < StepsLeft(t)
<1>1. /\ OfflineRetries \in Nat
      /\ retries[t] \in 0..OfflineRetries /\ retries'[t] \in 0..OfflineRetries
      /\ frames[t] \in 0..OfflineRetries + 1 /\ frames'[t] \in 0..OfflineRetries + 1
      /\ pc[t] # "idle" => frames[t] # 0
  BY RetriesAssumption DEF TypeInv, TypeOK, StackBounded
<1>2. CASE CheckOffline(t) \/ EnterWait(t) \/ EndWait(t) \/ BlockAndQueue(t)
           \/ Online(t) \/ CatchFinished(t) \/ GiveUp(t) \/ Verify(t) \/ SetOffline(t)
  <2>1. /\ retries' = retries
        /\ \/ pc[t] = "enter" /\ pc'[t] \in {"blocked", "start"}
           \/ pc[t] = "blocked" /\ pc'[t] = "waiting"
           \/ pc[t] = "waiting" /\ pc'[t] = "start"
           \/ pc[t] = "start" /\ pc'[t] = "sync"
           \/ pc[t] = "online" /\ pc'[t] = "finally"
           \/ pc[t] = "catch" /\ pc'[t] = "decide"
           \/ pc[t] = "decide" /\ pc'[t] \in {"verify", "unwind"}
           \/ pc[t] = "verify" /\ pc'[t] = "verified"
           \/ pc[t] = "verified" /\ pc'[t] = "unwind"
    BY <1>2 DEF CheckOffline, EnterWait, EndWait, BlockAndQueue, Online, CatchFinished,
                GiveUp, Verify, SetOffline, Goto, TypeInv, TypeOK
  <2> QED
    BY <1>1, <2>1 DEF TriesLeft, StepsLeft
<1>3. CASE Sync(t)
  <2>1. /\ retries' = retries
        /\ pc[t] = "sync" /\ pc'[t] \in {"online", "catch", "finally"}
    BY <1>3 DEF Sync, Goto, TypeInv, TypeOK
  <2> QED
    BY <1>1, <2>1 DEF TriesLeft, StepsLeft
<1>4. CASE Retry(t)
  <2>1. retries'[t] = retries[t] + 1
    BY <1>4 DEF Retry, IncrementRetries, TypeInv, TypeOK
  <2> QED
    BY <1>1, <2>1 DEF TriesLeft
<1>5. CASE Finally(t) \/ Unwind(t)
  <2>1. /\ retries' = retries /\ pc[t] \in {"finally", "unwind"}
        /\ \E result : Return(t, result)
    BY <1>5 DEF Finally, Unwind
  <2>2. frames'[t] = frames[t] - 1 /\ pc'[t] \in {"unwind", "idle"}
    BY <2>1 DEF Return, Goto, TypeInv, TypeOK
  <2> QED
    BY <1>1, <2>1, <2>2 DEF TriesLeft, StepsLeft
<1> QED
  BY <1>2, <1>3, <1>4, <1>5 DEF Step

\* Every step of an update brings its return nearer, whatever ElasticSearch
\* answers and whatever the other updates do to it meanwhile.
THEOREM WindDown == Spec => UpdatesWindDown
<1>1. ASSUME TypeInv, TypeInv', NEW t \in Threads, Step(t)
      PROVE  <<UpdateLeft(t)', UpdateLeft(t)>> \in UpdateOrder
  <2>1. /\ TriesLeft(t) \in Nat /\ TriesLeft(t)' \in Nat
        /\ StepsLeft(t) \in Nat /\ StepsLeft(t)' \in Nat
    BY <1>1, RetriesAssumption DEF TriesLeft, StepsLeft, TypeInv, TypeOK
  <2> QED
    BY <1>1, <2>1, StepWindsDown DEF UpdateLeft, UpdateOrder, LexPairOrdering, Less
<1>2. ASSUME TypeInv, [Next]_vars, NEW t \in Threads, pc[t] # "idle", ~Step(t)
      PROVE  UpdateLeft(t)' = UpdateLeft(t)
  <2>1. retries'[t] = retries[t] /\ pc'[t] = pc[t] /\ frames'[t] = frames[t]
    <3>1. CASE GoDown \/ ComeUp \/ UNCHANGED vars
      BY <3>1 DEF GoDown, ComeUp, vars
    <3>2. ASSUME NEW u \in Threads, NEW id \in Ids, Execute(u, id)
          PROVE  retries'[t] = retries[t] /\ pc'[t] = pc[t] /\ frames'[t] = frames[t]
      BY <1>2, <3>2 DEF Execute, Goto, TypeInv, TypeOK
    <3>3. ASSUME NEW u \in Threads \ {t}, Step(u)
          PROVE  retries'[t] = retries[t] /\ pc'[t] = pc[t] /\ frames'[t] = frames[t]
      BY <1>2, <3>3 DEF Step, CheckOffline, EnterWait, EndWait, BlockAndQueue, Sync, Online,
                        CatchFinished, Retry, IncrementRetries, GiveUp, Verify, SetOffline,
                        Finally, Unwind, Return, Goto, TypeInv, TypeOK
    <3> QED
      BY <1>2, <3>1, <3>2, <3>3 DEF Next
  <2> QED
    BY <2>1 DEF UpdateLeft, TriesLeft, StepsLeft
<1>3. TypeInv /\ TypeInv' /\ [Next]_vars =>
        \A t \in Threads : pc[t] # "idle" =>
          /\ Step(t) => <<UpdateLeft(t)', UpdateLeft(t)>> \in UpdateOrder
          /\ ~Step(t) => UpdateLeft(t)' = UpdateLeft(t)
  BY <1>1, <1>2
<1> QED
  BY <1>3, TypeInvariance, PTL DEF Spec, UpdatesWindDown
=============================================================================
