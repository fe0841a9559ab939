----------------------------- MODULE VertexLock -----------------------------
(***************************************************************************)
(* What VertexBlocker promises its callers: for every object ID there is   *)
(* at most one thread between start and finished, and only that thread     *)
(* gives the ID up.  VertexBlocker.java describes start as "a protected,   *)
(* atomic operation" that blocks as needed.  EsActionUpdate is the         *)
(* detailed specification that is compared with this one.                  *)
(***************************************************************************)
CONSTANTS Threads,      \* the threads that update vertices
          Ids,          \* object IDs
          NoThread      \* the holder of an ID nobody updates

VARIABLE holder         \* holder[id]: the thread between start and finished

Init == holder = [id \in Ids |-> NoThread]

Start(t, id) ==
    /\ holder[id] = NoThread
    /\ holder' = [holder EXCEPT ![id] = t]

Finished(t, id) ==
    /\ holder[id] = t
    /\ holder' = [holder EXCEPT ![id] = NoThread]

Next == \E t \in Threads, id \in Ids : Start(t, id) \/ Finished(t, id)

Spec == Init /\ [][Next]_holder
=============================================================================
