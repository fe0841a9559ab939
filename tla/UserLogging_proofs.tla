------------------------- MODULE UserLogging_proofs -------------------------
(***************************************************************************)
(* What holds of the logging job for any number of activities and mishaps, *)
(* any sizes of its pages and batches, and with one or several threads     *)
(* that delete.                                                            *)
(***************************************************************************)
EXTENDS UserLogging, FiniteSetTheorems, WellFoundedInduction, TLAPS

-----------------------------------------------------------------------------
\* The answer of a query is finite, and its size can be counted.
LEMMA MatchingIsFinite ==
    ASSUME TypeOK
    PROVE  /\ IsFiniteSet(Matching)
           /\ Matching \subseteq stored
           /\ Cardinality(Matching) \in 0..MaxActivities
<1> USE BoundsAssumption
<1>1. /\ made \in 0..MaxActivities
      /\ stored \subseteq 1..made
      /\ Matching \subseteq stored
  BY DEF TypeOK, Matching
<1>2. IsFiniteSet(1..MaxActivities) /\ Cardinality(1..MaxActivities) = MaxActivities
  BY FS_Interval
<1>2a. Matching \in SUBSET (1..MaxActivities)
  BY <1>1
<1>3. IsFiniteSet(Matching) /\ Cardinality(Matching) <= MaxActivities
  BY <1>2, <1>2a, FS_Subset
<1>4. Cardinality(Matching) \in Nat
  BY <1>3, FS_CardinalityType
<1> QED
  BY <1>3, <1>4 DEF Matching

\* Whatever a query answers has been stored.
LEMMA PageIsStored ==
    ASSUME TypeOK, NEW from, NEW size
    PROVE  Page(from, size) \subseteq Matching /\ Page(from, size) \subseteq once
BY DEF TypeOK, Page, Matching

\* Every flag is set to a truth value.
LEMMA FlagsStep ==
    ASSUME Flags, [Next]_vars
    PROVE  Flags'
<1>1. CASE LogActivity
  BY <1>1, Zenon DEF Flags, LogActivity, run
<1>2. ASSUME NEW k \in Activities, Store(k)
      PROVE  Flags'
  <2>1. CASE pc \notin {"idle", "count", "over"} /\ k <= current
    BY <1>2, <2>1, Zenon DEF Flags, Store, Mishap, run
  <2>2. CASE ~(pc \notin {"idle", "count", "over"} /\ k <= current)
    BY <1>2, <2>2, Zenon DEF Flags, Store, NoMishap, run
  <2> QED
    BY <2>1, <2>2
<1>3. CASE StartRun
  BY <1>3, FlagsAssumption, Zenon DEF Flags, StartRun, store
<1>4. CASE Count
  BY <1>4, Zenon DEF Flags, Count, Counts, Mishap, NoMishap
<1>5. CASE NextPage
  BY <1>5, Zenon DEF Flags, NextPage, Mishap, NoMishap
<1>6. CASE LastPage
  BY <1>6, Zenon DEF Flags, LastPage, run
<1>7. CASE Handle
  BY <1>7, Zenon DEF Flags, Handle, ItemDone
<1>7a. CASE SkipItem
  BY <1>7a, Zenon DEF Flags, SkipItem
<1>8. CASE EndOfPage
  BY <1>8, Zenon DEF Flags, EndOfPage
<1>9. CASE Post
  BY <1>9, Zenon DEF Flags, Post, Posted, Mishap, NoMishap
<1>10. CASE Iterated
  BY <1>10, Zenon DEF Flags, Iterated
<1>11. CASE LastPost
  BY <1>11, Zenon DEF Flags, LastPost, Posted, Mishap, NoMishap
<1>12. CASE DeleteCount
  BY <1>12, Zenon DEF Flags, DeleteCount, Counts, Mishap, NoMishap
<1>13. CASE DeletePage
  BY <1>13, Zenon DEF Flags, DeletePage, Mishap, NoMishap
<1>14. CASE EndDelete
  BY <1>14, Zenon DEF Flags, EndDelete, run
<1>15. CASE EndOfList
  BY <1>15, Zenon DEF Flags, EndOfList
<1>16. CASE DeleteWait
  BY <1>16, Zenon DEF Flags, DeleteWait
<1>17. CASE EndRun
  BY <1>17, Zenon DEF Flags, EndRun, Forget
<1>18. ASSUME NEW k \in Activities, Delete(k)
       PROVE  Flags'
  BY <1>18, Zenon DEF Flags, Delete, DeleteVertex
<1>18a. ASSUME NEW k \in Activities, DeleteThrows(k)
        PROVE  Flags'
  BY <1>18a, Zenon DEF Flags, DeleteThrows
<1>19. ASSUME NEW k \in Activities, Task(k)
       PROVE  Flags'
  BY <1>19, Zenon DEF Flags, Task, DeleteVertex, run
<1>20. CASE Stop
  BY <1>20, Zenon DEF Flags, Stop, Mishap, run
<1>21. CASE Crash
  BY <1>21, Zenon DEF Flags, Crash, Forget, Mishap
<1>22. CASE UNCHANGED vars
  BY <1>22, Zenon DEF Flags, vars, run
<1> QED
  BY <1>1, <1>2, <1>3, <1>4, <1>5, <1>6, <1>7, <1>7a, <1>8, <1>9, <1>10, <1>11,
     <1>12, <1>13, <1>14, <1>15, <1>16, <1>17, <1>18, <1>18a, <1>19, <1>20,
     <1>21, <1>22 DEF Next, Step

\* What goes wrong has one of the causes.
LEMMA TroubleType ==
    ASSUME trouble \subseteq Causes, [Next]_vars
    PROVE  trouble' \subseteq Causes
BY DEF Next, Step, vars, run, store, LogActivity, Store, StartRun, Count, NextPage,
       LastPage, Handle, SkipItem, EndOfPage, Post, Iterated, LastPost, DeleteCount,
       DeletePage, EndDelete, EndOfList, DeleteWait, EndRun, Delete, DeleteThrows,
       DeleteVertex, Task, Stop, Crash, Because, NoCause, Causes

\* The other variables keep their types.
LEMMA TypeStep ==
    ASSUME TypeOK, [Next]_vars
    PROVE  TypeOK'
<1> USE BoundsAssumption, SizesAssumption
<1> USE DEF Mishap, NoMishap, store, run, IterateLoop, DeleteLoop
<1>0. Flags' /\ trouble' \subseteq Causes
  BY FlagsStep, TroubleType DEF TypeOK
<1>1. CASE LogActivity
  BY <1>0, <1>1 DEF TypeOK, LogActivity
<1>2. ASSUME NEW k \in Activities, Store(k)
      PROVE  TypeOK'
  BY <1>0, <1>2 DEF TypeOK, Store
<1>3. CASE StartRun
  BY <1>0, <1>3 DEF TypeOK, StartRun, Now, PCs, IteratePCs
<1>4. CASE Count
  BY <1>0, <1>4, MatchingIsFinite DEF TypeOK, Count, Counts, PCs, IteratePCs
<1>5. CASE NextPage
  BY <1>0, <1>5, PageIsStored DEF TypeOK, NextPage, PCs, IteratePCs
<1>6. CASE LastPage
  BY <1>0, <1>6 DEF TypeOK, LastPage, PCs, IteratePCs
<1>7. CASE Handle
  <2>1. PICK k \in page : batch' = batch \cup {k}
    BY <1>7 DEF Handle
  <2>2. /\ pc' \in {"item", "post"}
        /\ page' \subseteq page
        /\ on' \in Nat
    BY <1>7 DEF TypeOK, Handle, ItemDone
  <2>3. UNCHANGED <<store, splunk, current, hits, offset, tasks, again, mishaps>>
    BY <1>7 DEF Handle
  <2> QED
    BY <1>0, <2>1, <2>2, <2>3 DEF TypeOK, PCs, IteratePCs
<1>7a. CASE SkipItem
  BY <1>0, <1>7a DEF TypeOK, SkipItem, ItemDone
<1>8. CASE EndOfPage
  <2>1. offset' \in Nat
    BY <1>8 DEF TypeOK, EndOfPage
  <2>2. page' = {} /\ pc' = "page"
    BY <1>8 DEF EndOfPage
  <2>3. UNCHANGED <<store, splunk, pool, current, hits, on, batch, failed, tasks,
                    again, mishaps>>
    BY <1>8 DEF EndOfPage
  <2> QED
    BY <1>0, <2>1, <2>2, <2>3 DEF TypeOK, PCs, IteratePCs
<1>9. CASE Post
  <2>1. /\ splunk' \in {splunk, splunk \cup batch}
        /\ again' \in {again, again \cup (splunk \cap batch)}
        /\ mishaps' \in 0..MaxMishaps
    BY <1>9 DEF TypeOK, Post, Posted
  <2>2. batch' \in {{}, batch} /\ pc' \in PCs
    BY <1>9 DEF Post, PCs, IteratePCs
  <2>3. page' \subseteq page /\ on' \in Nat
    BY <1>9 DEF TypeOK, Post, ItemDone
  <2>4. UNCHANGED <<store, current, hits, offset, tasks>>
    BY <1>9 DEF Post
  <2> QED
    BY <1>0, <2>1, <2>2, <2>3, <2>4 DEF TypeOK
<1>10. CASE Iterated
  BY <1>0, <1>10 DEF TypeOK, Iterated, PCs, IteratePCs, DeletePCs
<1>11. CASE LastPost
  BY <1>0, <1>11 DEF TypeOK, LastPost, Posted, PCs, DeletePCs
<1>12. CASE DeleteCount
  BY <1>0, <1>12, MatchingIsFinite DEF TypeOK, DeleteCount, Counts, PCs, DeletePCs
<1>13. CASE DeletePage
  BY <1>0, <1>13, PageIsStored DEF TypeOK, DeletePage, PageToDelete, PCs, DeletePCs
<1>14. CASE EndDelete
  BY <1>0, <1>14 DEF TypeOK, EndDelete, PCs
<1>15. CASE EndOfList
  BY <1>0, <1>15 DEF TypeOK, EndOfList, PCs, DeletePCs
<1>16. CASE DeleteWait
  BY <1>0, <1>16 DEF TypeOK, DeleteWait, Advanced, PCs, DeletePCs
<1>17. CASE EndRun
  BY <1>0, <1>17 DEF TypeOK, EndRun, Forget, PCs
<1>18. ASSUME NEW k \in Activities, Delete(k)
       PROVE  TypeOK'
  <2>1. page' \subseteq page /\ tasks' \in {tasks, tasks \cup {k}} /\ k \in page
    BY <1>18 DEF Delete
  <2>2. stored' \subseteq stored
    BY <1>18 DEF Delete, DeleteVertex
  <2>3. UNCHANGED <<made, once, splunk, pc, current, hits, offset, on, batch, again,
                    mishaps>>
    BY <1>18 DEF Delete
  <2> QED
    BY <1>0, <2>1, <2>2, <2>3 DEF TypeOK
<1>18a. ASSUME NEW k \in Activities, DeleteThrows(k)
        PROVE  TypeOK'
  BY <1>0, <1>18a DEF TypeOK, DeleteThrows, PCs
<1>19. ASSUME NEW k \in Activities, Task(k)
       PROVE  TypeOK'
  BY <1>0, <1>19 DEF TypeOK, Task, DeleteVertex
<1>20. CASE Stop
  BY <1>0, <1>20 DEF TypeOK, Stop
<1>21. CASE Crash
  BY <1>0, <1>21 DEF TypeOK, Crash, Forget, PCs
<1>22. CASE UNCHANGED vars
  BY <1>0, <1>22 DEF TypeOK, vars
<1> QED
  BY <1>1, <1>2, <1>3, <1>4, <1>5, <1>6, <1>7, <1>7a, <1>8, <1>9, <1>10, <1>11,
     <1>12, <1>13, <1>14, <1>15, <1>16, <1>17, <1>18, <1>18a, <1>19, <1>20,
     <1>21, <1>22 DEF Next, Step

\* Type correctness of the logging job.
THEOREM Typing == Spec => []TypeOK
<1>1. Init => Flags
  BY Zenon DEF Init, Flags
<1>2. Init => TypeOK
  BY <1>1, BoundsAssumption DEF Init, TypeOK, PCs
<1> QED
  BY <1>2, TypeStep, PTL DEF Spec
-----------------------------------------------------------------------------
(***************************************************************************)
(* What a run that has missed nothing so far knows.  While it iterates,    *)
(* the activities before its offset, and then those of its page, have been *)
(* collected or sent; at the end that is the whole answer of the query,    *)
(* because the offset has reached its size.  While it deletes, the answer  *)
(* and whatever was taken from it have been sent.                          *)
(***************************************************************************)
Collected == batch \cup splunk

Gathering ==
    /\ pc \in {"page", "item", "post"} => hits = Cardinality(Matching)
    /\ pc = "page" =>
          \A k \in Matching : Place(k) < offset => k \in Collected
    /\ pc \in {"item", "post"} =>
          \A k \in Matching :
              Place(k) < offset + Limit => k \in Collected \cup page
    /\ pc = "post" => \A k \in page : First(k) => k \in batch
    /\ pc = "iterated" /\ ~failed => Matching \subseteq Collected
    /\ pc = "lastPost" => Matching \subseteq Collected

Sent ==
    /\ pc \in DeletePCs => Matching \subseteq splunk
    /\ pc \in {"deleteItem", "deleteWait"} =>
          page \subseteq splunk /\ tasks \subseteq splunk

\* What does not depend on what the run has seen.
Phases ==
    /\ pc \in {"idle", "count"} => offset = 0
    /\ pc \notin {"deleteItem", "deleteWait"} => tasks = {}
    /\ ~pool => tasks = {}

LoggingInv == TypeOK /\ Phases /\ (~faulty => Gathering /\ Sent)

\* A place is a number below the size of the answer.
LEMMA PlaceBound ==
    ASSUME TypeOK, NEW k \in Matching
    PROVE  Place(k) \in Nat /\ Place(k) < Cardinality(Matching)
<1> DEFINE P == {j \in Matching : j < k}
<1>1. IsFiniteSet(Matching) /\ Cardinality(Matching) \in Nat
  BY MatchingIsFinite
<1>2. P \in SUBSET Matching
  OBVIOUS
<1>3. k \in Nat
  BY DEF TypeOK, Matching
<1>4. k \in Matching /\ k \notin P
  BY <1>3
<1>5. P # Matching
  BY <1>4
<1>6. IsFiniteSet(P) /\ Cardinality(P) <= Cardinality(Matching)
      /\ Cardinality(P) # Cardinality(Matching)
  BY <1>1, <1>2, <1>5, FS_Subset
<1>7. Cardinality(P) \in Nat
  BY <1>6, FS_CardinalityType
<1> QED
  BY <1>1, <1>6, <1>7 DEF Place

\* The answer of the query and its order change only with what is stored and
\* with the query.
LEMMA SameAnswer ==
    ASSUME UNCHANGED <<stored, current>>
    PROVE  Matching' = Matching /\ \A k : Place(k)' = Place(k)
BY DEF Matching, Place

\* The phases of a run.
LEMMA PhasesStep ==
    ASSUME TypeOK, Phases, [Next]_vars
    PROVE  Phases'
<1> USE DEF Phases, store, run
<1>1. CASE LogActivity
  BY <1>1 DEF LogActivity
<1>2. ASSUME NEW k \in Activities, Store(k)
      PROVE  Phases'
  BY <1>2 DEF Store
<1>3. CASE StartRun
  BY <1>3 DEF StartRun
<1>4. CASE Count
  BY <1>4 DEF Count
<1>5. CASE NextPage
  BY <1>5 DEF NextPage
<1>6. CASE LastPage
  BY <1>6 DEF LastPage
<1>7. CASE Handle
  BY <1>7 DEF Handle
<1>7a. CASE SkipItem
  BY <1>7a DEF SkipItem
<1>8. CASE EndOfPage
  BY <1>8 DEF EndOfPage
<1>9. CASE Post
  BY <1>9 DEF Post
<1>10. CASE Iterated
  BY <1>10 DEF Iterated
<1>11. CASE LastPost
  BY <1>11 DEF LastPost
<1>12. CASE DeleteCount
  BY <1>12 DEF DeleteCount
<1>13. CASE DeletePage
  BY <1>13 DEF DeletePage
<1>14. CASE EndDelete
  BY <1>14 DEF EndDelete
<1>15. CASE EndOfList
  BY <1>15 DEF EndOfList
<1>16. CASE DeleteWait
  BY <1>16 DEF DeleteWait
<1>17. CASE EndRun
  BY <1>17 DEF EndRun, Forget
<1>18. ASSUME NEW k \in Activities, Delete(k)
       PROVE  Phases'
  BY <1>18 DEF Delete
<1>18a. ASSUME NEW k \in Activities, DeleteThrows(k)
        PROVE  Phases'
  BY <1>18a DEF DeleteThrows
<1>19. ASSUME NEW k \in Activities, Task(k)
       PROVE  Phases'
  BY <1>19 DEF Task
<1>20. CASE Stop
  BY <1>20 DEF Stop
<1>21. CASE Crash
  BY <1>21 DEF Crash, Forget
<1>22. CASE UNCHANGED vars
  BY <1>22 DEF vars
<1> QED
  BY <1>1, <1>2, <1>3, <1>4, <1>5, <1>6, <1>7, <1>7a, <1>8, <1>9, <1>10, <1>11,
     <1>12, <1>13, <1>14, <1>15, <1>16, <1>17, <1>18, <1>18a, <1>19, <1>20,
     <1>21, <1>22 DEF Next, Step

\* Without a change of what the run knows it goes on knowing it.
LEMMA SameKnowledge ==
    ASSUME Gathering /\ Sent, UNCHANGED <<pc, hits, offset, page, batch, failed>>,
           Matching' = Matching, \A k \in Matching : Place(k)' = Place(k),
           splunk \subseteq splunk', tasks' \subseteq tasks
    PROVE  Gathering' /\ Sent'
BY DEF Gathering, Sent, Collected, First

\* A step of a run that has missed nothing, also in this step.
LEMMA KnowledgeStep ==
    ASSUME LoggingInv, [Next]_vars, ~faulty'
    PROVE  Gathering' /\ Sent'
<1> USE SizesAssumption DEF store, run, IteratePCs, DeletePCs, IterateLoop, DeleteLoop
<1>a. TypeOK /\ Phases
  BY DEF LoggingInv
<1>b. Limit \in Nat /\ MaxIteratorSize \in Nat /\ offset \in Nat
      /\ hits \in Nat
  BY <1>a DEF TypeOK
<1>c. \A k \in Matching : Place(k) \in Nat /\ Place(k) < Cardinality(Matching)
  BY <1>a, PlaceBound
<1>d. Cardinality(Matching) \in Nat
  BY <1>a, MatchingIsFinite
<1>e. ~faulty => Gathering /\ Sent
  BY DEF LoggingInv
<1> HIDE DEF LoggingInv
<1>1. CASE LogActivity
  <2>1. Gathering /\ Sent
    BY <1>1, <1>e DEF LogActivity
  <2> QED
    BY <1>1, <2>1, SameKnowledge, SameAnswer DEF LogActivity
<1>2. ASSUME NEW k \in Activities, Store(k)
      PROVE  Gathering' /\ Sent'
  <2>1. CASE pc \in {"idle", "count", "over"}
    BY <1>2, <2>1 DEF Store, Gathering, Sent
  <2>2. CASE pc \notin {"idle", "count", "over"}
    <3>1. ~(k <= current) /\ UNCHANGED faulty
      BY <1>2, <2>2 DEF Store
    <3>2. Matching' = Matching
      BY <1>2, <3>1 DEF Store, Matching
    <3>3. \A j \in Matching : Place(j)' = Place(j)
      BY <3>2 DEF Place
    <3>4. Gathering /\ Sent
      BY <3>1, <1>e
    <3> QED
      BY <1>2, <3>2, <3>3, <3>4, SameKnowledge DEF Store
  <2> QED
    BY <2>1, <2>2
<1>3. CASE StartRun
  BY <1>3 DEF StartRun, Gathering, Sent
<1>4. CASE Count
  <2>1. Matching' = Matching /\ \A k : Place(k)' = Place(k)
    BY <1>4, SameAnswer DEF Count
  <2>2. ~(hits' < Cardinality(Matching))
    BY <1>4 DEF Count
  <2>3. hits' = Cardinality(Matching)
    BY <1>4, <1>d, <2>2 DEF Count, Counts
  <2>4. offset = 0 /\ offset' = 0 /\ pc' = "page"
    BY <1>4, <1>a DEF Count, Phases
  <2> QED
    BY <1>c, <2>1, <2>3, <2>4 DEF Gathering, Sent
<1>5. CASE NextPage
  <2>1. Matching' = Matching /\ \A k : Place(k)' = Place(k)
    BY <1>5, SameAnswer DEF NextPage
  <2>2. ~faulty /\ page' # {}
    BY <1>5 DEF NextPage
  <2>3. page' = Page(offset, Limit) /\ pc' = "item" /\ pc = "page"
    BY <1>5, <2>2 DEF NextPage
  <2>4. UNCHANGED <<splunk, batch, hits, offset>>
    BY <1>5 DEF NextPage
  <2>5. \A k \in Matching :
           Place(k) < offset + Limit => k \in Collected \cup page'
    <3> SUFFICES ASSUME NEW k \in Matching, Place(k) < offset + Limit
                 PROVE  k \in Collected \cup page'
      OBVIOUS
    <3>1. CASE Place(k) < offset
      BY <1>e, <2>2, <2>3, <3>1 DEF Gathering
    <3>2. CASE ~(Place(k) < offset)
      BY <1>b, <1>c, <2>3, <3>2 DEF Page
    <3> QED
      BY <3>1, <3>2
  <2>6. hits' = Cardinality(Matching)
    BY <1>e, <2>2, <2>3, <2>4 DEF Gathering
  <2> QED
    BY <2>1, <2>3, <2>4, <2>5, <2>6 DEF Gathering, Sent, Collected
<1>6. CASE LastPage
  <2>1. Matching' = Matching
    BY <1>6, SameAnswer DEF LastPage
  <2>2. ~faulty /\ ~(offset < hits) /\ pc = "page" /\ pc' = "iterated"
    BY <1>6 DEF LastPage, MorePages
  <2>3. \A k \in Matching : Place(k) < offset
    BY <1>b, <1>c, <1>e, <2>2 DEF Gathering
  <2>4. Matching \subseteq Collected
    BY <1>e, <2>2, <2>3 DEF Gathering
  <2> QED
    BY <1>6, <2>1, <2>2, <2>4 DEF LastPage, Gathering, Sent, Collected
<1>7. CASE Handle
  <2>1. Matching' = Matching /\ \A k : Place(k)' = Place(k)
    BY <1>7, SameAnswer DEF Handle
  <2>2. Gathering /\ pc = "item"
    BY <1>7, <1>e DEF Handle
  <2>3. PICK k \in page : /\ First(k) /\ batch' = batch \cup {k}
                          /\ \/ pc' = "post" /\ page' = page
                             \/ pc' = "item" /\ page' = page \ {k}
    BY <1>7, <2>2 DEF Handle, ItemDone
  <2>4. UNCHANGED <<splunk, hits, offset>>
    BY <1>7 DEF Handle
  <2>5. \A j \in Matching :
           Place(j) < offset + Limit => j \in Collected' \cup page'
    BY <2>2, <2>3, <2>4 DEF Gathering, Collected
  <2>6. pc' = "post" => \A j \in page' : First(j)' => j \in batch'
    <3> SUFFICES ASSUME page' = page, NEW j \in page, First(j)
                 PROVE  j = k
      BY <2>3 DEF First
    <3>1. j \in Nat /\ k \in Nat
      BY <1>a DEF TypeOK
    <3> QED
      BY <2>3, <3>1 DEF First
  <2>7. hits' = Cardinality(Matching)
    BY <2>2, <2>4 DEF Gathering
  <2> QED
    BY <2>1, <2>3, <2>4, <2>5, <2>6, <2>7 DEF Gathering, Sent
<1>7a. CASE SkipItem
  BY <1>7a DEF SkipItem
<1>8. CASE EndOfPage
  <2>1. Matching' = Matching /\ \A k : Place(k)' = Place(k)
    BY <1>8, SameAnswer DEF EndOfPage
  <2>2. ~faulty /\ page = {} /\ pc = "item"
    BY <1>8 DEF EndOfPage
  <2>3. Gathering
    BY <1>e, <2>2
  <2> QED
    BY <1>8, <2>1, <2>2, <2>3 DEF EndOfPage, Gathering, Sent, Collected
<1>9. CASE Post
  <2>1. Matching' = Matching /\ \A k : Place(k)' = Place(k)
    BY <1>9, SameAnswer DEF Post
  <2>2. Gathering /\ pc = "post"
    BY <1>9, <1>e DEF Post
  <2>3. PICK accepted \in BOOLEAN, ok \in BOOLEAN :
           /\ Posted(accepted, ok)
           /\ failed' = ~ok
           /\ \/ ok /\ batch' = {} /\ pc' = "item"
                 /\ \E k \in page : First(k) /\ ItemDone(k)
              \/ ~ok /\ pc' = "iterated"
    BY <1>9 DEF Post
  <2>4. CASE ~ok
    BY <2>3, <2>4 DEF Gathering, Sent
  <2>5. CASE ok
    <3>1. splunk' = splunk \cup batch
      BY <2>3, <2>5 DEF Posted
    <3>2. PICK k \in page : First(k) /\ page' = page \ {k}
      BY <2>3, <2>5 DEF ItemDone
    <3>3. k \in batch
      BY <2>2, <3>2 DEF Gathering
    <3>4. batch' = {} /\ pc' = "item" /\ UNCHANGED <<hits, offset>>
      BY <1>9, <2>3, <2>5 DEF Post
    <3> QED
      BY <2>1, <2>2, <3>1, <3>2, <3>3, <3>4 DEF Gathering, Sent, Collected
  <2> QED
    BY <2>4, <2>5
<1>10. CASE Iterated
  <2>1. Matching' = Matching
    BY <1>10, SameAnswer DEF Iterated
  <2>2. Gathering /\ pc = "iterated" /\ tasks = {}
    BY <1>10, <1>a, <1>e DEF Iterated, Phases
  <2>3. UNCHANGED <<splunk, batch>>
    BY <1>10 DEF Iterated
  <2>4. CASE failed
    BY <1>10, <2>4 DEF Iterated, Gathering, Sent
  <2>5. CASE ~failed
    <3>1. Matching \subseteq Collected
      BY <2>2, <2>5 DEF Gathering
    <3>2. \/ pc' = "deleteCount" /\ batch = {}
          \/ pc' = "lastPost"
      BY <1>10, <2>5 DEF Iterated
    <3> QED
      BY <2>1, <2>3, <3>1, <3>2 DEF Gathering, Sent, Collected
  <2> QED
    BY <2>4, <2>5
<1>11. CASE LastPost
  <2>1. Matching' = Matching
    BY <1>11, SameAnswer DEF LastPost
  <2>2. ~faulty /\ splunk' = splunk \cup batch
    BY <1>11 DEF LastPost, Posted
  <2>3. Gathering /\ pc = "lastPost" /\ pc' \in {"deleteCount", "over"}
    BY <1>11, <1>e, <2>2 DEF LastPost
  <2> QED
    BY <2>1, <2>2, <2>3 DEF Gathering, Sent, Collected
<1>12. CASE DeleteCount
  <2>1. Matching' = Matching
    BY <1>12, SameAnswer DEF DeleteCount
  <2>2. Sent /\ pc = "deleteCount" /\ pc' = "deletePage" /\ splunk' = splunk
    BY <1>12, <1>e DEF DeleteCount
  <2> QED
    BY <2>1, <2>2 DEF Gathering, Sent
<1>13. CASE DeletePage
  <2>1. Matching' = Matching
    BY <1>13, SameAnswer DEF DeletePage
  <2>2. Sent /\ pc = "deletePage" /\ tasks = {}
        /\ UNCHANGED <<splunk, tasks>>
    BY <1>13, <1>a, <1>e DEF DeletePage, Phases
  <2>3. page' \subseteq Matching /\ pc' \in {"over", "deleteItem"}
    BY <1>13, <1>a, PageIsStored DEF DeletePage, PageToDelete
  <2> QED
    BY <2>1, <2>2, <2>3 DEF Gathering, Sent
<1>14. CASE EndDelete
  BY <1>14 DEF EndDelete, Gathering, Sent
<1>15. CASE EndOfList
  <2>1. Matching' = Matching
    BY <1>15, SameAnswer DEF EndOfList
  <2>2. Sent
    BY <1>15, <1>e DEF EndOfList
  <2> QED
    BY <1>15, <2>1, <2>2 DEF EndOfList, Gathering, Sent
<1>16. CASE DeleteWait
  <2>1. Matching' = Matching
    BY <1>16, SameAnswer DEF DeleteWait
  <2>2. Sent
    BY <1>16, <1>e DEF DeleteWait
  <2> QED
    BY <1>16, <2>1, <2>2 DEF DeleteWait, Gathering, Sent
<1>17. CASE EndRun
  BY <1>17 DEF EndRun, Forget, Gathering, Sent
<1>18. ASSUME NEW k \in Activities, Delete(k)
       PROVE  Gathering' /\ Sent'
  <2>1. Matching' \subseteq Matching
    BY <1>18 DEF Delete, DeleteVertex, Matching
  <2>2. Sent /\ pc = "deleteItem"
    BY <1>18, <1>e DEF Delete
  <2>3. /\ page' \subseteq page /\ tasks' \subseteq tasks \cup page
        /\ UNCHANGED <<splunk, pc>>
    BY <1>18 DEF Delete
  <2> QED
    BY <2>1, <2>2, <2>3 DEF Gathering, Sent
<1>18a. ASSUME NEW k \in Activities, DeleteThrows(k)
        PROVE  Gathering' /\ Sent'
  BY <1>18a DEF DeleteThrows, Gathering, Sent
<1>19. ASSUME NEW k \in Activities, Task(k)
       PROVE  Gathering' /\ Sent'
  <2>1. Matching' \subseteq Matching
    BY <1>19 DEF Task, DeleteVertex, Matching
  <2>2. Sent
    BY <1>19, <1>e DEF Task
  <2>3. pc \in {"deleteItem", "deleteWait"}
    BY <1>19, <1>a DEF Task, Phases
  <2>4. tasks' \subseteq tasks /\ UNCHANGED <<splunk, pc, page>>
    BY <1>19 DEF Task
  <2> QED
    BY <2>1, <2>2, <2>3, <2>4 DEF Gathering, Sent
<1>20. CASE Stop
  <2>1. Gathering /\ Sent
    BY <1>20, <1>e DEF Stop
  <2> QED
    BY <1>20, <2>1, SameKnowledge, SameAnswer DEF Stop
<1>21. CASE Crash
  BY <1>21 DEF Crash, Forget, Gathering, Sent
<1>22. CASE UNCHANGED vars
  <2>1. Gathering /\ Sent
    BY <1>22, <1>e DEF vars
  <2> QED
    BY <1>22, <2>1, SameKnowledge, SameAnswer DEF vars
<1> QED
  BY <1>1, <1>2, <1>3, <1>4, <1>5, <1>6, <1>7, <1>7a, <1>8, <1>9, <1>10, <1>11,
     <1>12, <1>13, <1>14, <1>15, <1>16, <1>17, <1>18, <1>18a, <1>19, <1>20, <1>21,
     <1>22 DEF Next, Step

\* The invariant holds.
LEMMA LoggingInvariant == Spec => []LoggingInv
<1>1. Init => LoggingInv
  <2>1. Init => TypeOK
    <3>1. Init => Flags
      BY Zenon DEF Init, Flags
    <3> QED
      BY <3>1, BoundsAssumption DEF Init, TypeOK, PCs
  <2>2. Init => Phases /\ Gathering /\ Sent
    BY DEF Init, Phases, Gathering, Sent, DeletePCs, DeleteLoop
  <2> QED
    BY <2>1, <2>2 DEF LoggingInv
<1>2. LoggingInv /\ [Next]_vars => LoggingInv'
  BY TypeStep, PhasesStep, KnowledgeStep DEF LoggingInv
<1> QED
  BY <1>1, <1>2, PTL DEF Spec

\* Whatever is deleted has been accepted by Splunk, if the run that deletes it
\* has seen all it was to send.
THEOREM DeletesAreSent == Spec => DeletedIsSent
<1>1. ASSUME LoggingInv, [Next]_vars
      PROVE  [\A k \in stored \ stored' : k \in splunk \/ faulty]_vars
  <2> SUFFICES ASSUME ~faulty, NEW j \in stored \ stored', Next
               PROVE  j \in splunk
    BY <1>1
  <2>1. Sent /\ Phases
    BY <1>1 DEF LoggingInv
  <2>2. PICK k \in Activities : Delete(k) \/ DeleteThrows(k) \/ Task(k)
    BY DEF Next, Step, store, LogActivity, Store, StartRun, Count, NextPage,
           LastPage, Handle, SkipItem, EndOfPage, Post, Iterated, LastPost, DeleteCount,
           DeletePage, EndDelete, EndOfList, DeleteWait, EndRun, Stop, Crash
  <2>3. j = k
    BY <2>2 DEF Delete, DeleteThrows, Task, DeleteVertex
  <2>4. CASE Delete(k) \/ DeleteThrows(k)
    BY <2>1, <2>3, <2>4 DEF Delete, DeleteThrows, Sent
  <2>5. CASE Task(k)
    BY <2>1, <2>3, <2>5 DEF Task, Sent, Phases
  <2> QED
    BY <2>2, <2>4, <2>5
<1> QED
  BY <1>1, LoggingInvariant, PTL DEF Spec, DeletedIsSent
-----------------------------------------------------------------------------
(***************************************************************************)
(* As long as there is no cause for it, no activity is collected twice: of *)
(* what was sent, only this run's activities are stored still, at places   *)
(* the pages have passed.  Failed searches, skipped activities and stops   *)
(* in iterate() only make a run send less than it deletes.  For that it    *)
(* must delete all it has sent, and delete() asks only as often as its     *)
(* count says: of what its query finds, there is never more than the count *)
(* has left.                                                               *)
(***************************************************************************)
SentAndStored == splunk \cap stored

Quiet ==
    /\ again = {} /\ ~failed
    /\ stopping => pc \in IterateLoop \cup {"count", "iterated"}

\* What is in the hands of the run, and what of it Splunk has.
SentOnce ==
    /\ batch \cap splunk = {}
    /\ SentAndStored \subseteq Matching
    /\ pc \in {"idle", "count", "over"} => SentAndStored = {}
    /\ pc \in IteratePCs => batch \subseteq Matching
    /\ pc \notin {"page", "item", "post", "iterated", "lastPost"} => batch = {}
    /\ pc \notin {"item", "post", "deleteItem"} => page = {}

\* The pages that have passed, and the page at hand.
Passed ==
    /\ pc = "page" => \A k \in SentAndStored \cup batch : Place(k) < offset
    /\ pc \in {"item", "post"} =>
          /\ page \subseteq Matching /\ page \cap splunk = {}
          /\ \A k \in SentAndStored \cup batch \cup page :
                Place(k) < offset + Limit
    /\ pc = "item" => page \cap batch = {}
    /\ pc = "post" => \A k \in page \cap batch : First(k)

\* What delete() has not seen yet, against what is left of its count.
Unseen == Matching \ (page \cup tasks)

Clearing ==
    /\ pc = "deletePage" =>
          Matching = {} \/ Cardinality(Matching) + offset <= hits
    /\ pc \in {"deleteItem", "deleteWait"} =>
          Unseen = {} \/ Cardinality(Unseen) + offset + MaxIteratorSize <= hits

Untroubled == Quiet /\ SentOnce /\ Passed /\ Clearing

UntroubledInv == TypeOK /\ Phases /\ (trouble = {} => Untroubled)

\* Of some activities, one is the oldest.
LEMMA OldestActivity ==
    ASSUME NEW S \in SUBSET Nat, S # {}
    PROVE  \E m \in S : \A j \in S : m <= j
<1> DEFINE Less == OpToRel(<, Nat)
<1>1. IsWellFoundedOn(Less, Nat)
  BY NatLessThanWellFounded
<1>2. \A x, y \in Nat : <<x, y>> \in Less <=> x < y
  BY DEF OpToRel
<1> HIDE DEF Less
<1>3. PICK m \in S : \A j \in S : ~(<<j, m>> \in Less)
  BY <1>1, WFMin
<1>4. \A j \in S : m \in Nat /\ j \in Nat /\ ~(j < m)
  BY <1>2, <1>3
<1>5. \A j \in S : m <= j
  BY <1>4
<1> QED
  BY <1>3, <1>5

\* The first page is full if it is not the last: what it leaves out of the
\* answer is smaller than the answer by the size of the page.
LEMMA FullPage ==
    ASSUME TypeOK, NEW size \in Nat, Matching \ Page(0, size) # {}
    PROVE  Cardinality(Matching \ Page(0, size)) + size <= Cardinality(Matching)
<1> DEFINE R == Matching \ Page(0, size)
<1>1. Matching \subseteq Nat
  <2>1. Matching \subseteq stored /\ stored \subseteq 1..made
    BY MatchingIsFinite DEF TypeOK
  <2> QED
    BY <2>1
<1>2. PICK m \in R : \A j \in R : m <= j
  <2>1. R \in SUBSET Nat /\ R # {}
    BY <1>1
  <2> QED
    BY <2>1, OldestActivity
<1> DEFINE P == {j \in Matching : j < m}
<1>3. IsFiniteSet(Matching) /\ Cardinality(Matching) \in Nat
  BY MatchingIsFinite
<1>4. IsFiniteSet(R) /\ IsFiniteSet(P)
  <2>1. R \in SUBSET Matching /\ P \in SUBSET Matching
    OBVIOUS
  <2> QED
    BY <1>3, <2>1, FS_Subset
<1>5. Cardinality(R) \in Nat /\ Cardinality(P) \in Nat
  BY <1>4, FS_CardinalityType
<1>6. Cardinality(P) >= size
  <2>1. Place(m) \in Nat /\ Place(m) = Cardinality(P)
    BY <1>2, PlaceBound DEF Place
  <2> QED
    BY <1>2, <2>1 DEF Page
<1>7. R \cap P = {}
  <2> SUFFICES ASSUME NEW j \in R, j \in P
               PROVE  FALSE
    OBVIOUS
  <2>1. m <= j /\ j < m /\ m \in Nat /\ j \in Nat
    BY <1>1, <1>2
  <2> QED
    BY <2>1
<1>8. /\ IsFiniteSet(R \cup P)
      /\ Cardinality(R \cup P) = Cardinality(R) + Cardinality(P)
  <2>1. Cardinality(R \cap P) = 0
    BY <1>7, FS_EmptySet
  <2>2. Cardinality(R \cup P)
          = Cardinality(R) + Cardinality(P) - Cardinality(R \cap P)
    BY <1>4, FS_Union
  <2>3. IsFiniteSet(R \cup P)
    BY <1>4, FS_Union
  <2> QED
    BY <1>5, <2>1, <2>2, <2>3
<1>9. Cardinality(R \cup P) <= Cardinality(Matching)
  <2>1. (R \cup P) \in SUBSET Matching
    OBVIOUS
  <2> QED
    BY <1>3, <2>1, FS_Subset
<1> QED
  BY <1>3, <1>5, <1>6, <1>8, <1>9

\* A first page without an activity is the answer to a query that finds none.
LEMMA EmptyPage ==
    ASSUME TypeOK, NEW size \in Nat \ {0}, Page(0, size) = {}
    PROVE  Matching = {}
<1> SUFFICES ASSUME Matching # {}
             PROVE  FALSE
  OBVIOUS
<1>1. Matching \ Page(0, size) = Matching
  OBVIOUS
<1>2. Cardinality(Matching) + size <= Cardinality(Matching)
  BY <1>1, FullPage
<1> QED
  BY <1>2, MatchingIsFinite

\* What has once gone wrong is not forgotten.
LEMMA TroubleStays ==
    ASSUME [Next]_vars, trouble' = {}
    PROVE  trouble = {}
BY DEF Next, Step, vars, run, store, LogActivity, Store, StartRun, Count, NextPage,
       LastPage, Handle, SkipItem, EndOfPage, Post, Iterated, LastPost,
       DeleteCount, DeletePage, EndDelete, EndOfList, DeleteWait, EndRun, Delete,
       DeleteThrows, DeleteVertex, Task, Stop, Crash, Because, NoCause

\* Quiet is kept: without a cause no post fails and only iterate() is stopped,
\* and a batch that is accepted was not accepted before.
LEMMA QuietStep ==
    ASSUME TypeOK, Untroubled, [Next]_vars, trouble' = {}
    PROVE  Quiet'
<1> USE DEF Untroubled, Quiet, IterateLoop, run
<1>0. again = {} /\ ~failed
  BY TroubleStays
<1>1. CASE Post
  <2>1. PICK accepted \in BOOLEAN, ok \in BOOLEAN :
           /\ Posted(accepted, ok) /\ failed' = ~ok
           /\ ~ok => trouble' = trouble \cup {"failure"}
           /\ ok => pc' = "item"
    BY <1>1 DEF Post, Because
  <2>2. ok
    BY <2>1
  <2>3. /\ again' = again \cup (splunk \cap batch)
        /\ pc' = "item" /\ UNCHANGED stopping
    BY <1>1, <2>1, <2>2 DEF Posted, Post
  <2> QED
    BY <2>1, <2>2, <2>3 DEF SentOnce
<1>2. CASE LastPost
  <2>1. again' \in {again, again \cup (splunk \cap batch)}
        /\ pc = "lastPost" /\ UNCHANGED <<stopping, failed>>
    BY <1>2 DEF LastPost, Posted
  <2> QED
    BY <2>1 DEF SentOnce
<1>3. CASE Stop
  <2>1. pc \notin DeletePCs \cup {"lastPost", "idle", "over"}
    BY <1>3 DEF Stop, Because
  <2>2. pc \in IterateLoop \cup {"count", "iterated"}
    BY <2>1 DEF TypeOK, PCs, IteratePCs
  <2> QED
    BY <1>0, <1>3, <2>2 DEF Stop
<1>4. CASE StartRun \/ Count \/ NextPage \/ LastPage \/ Handle \/ SkipItem \/ EndOfPage
           \/ Iterated
  BY <1>0, <1>4 DEF StartRun, Count, NextPage, LastPage, Handle, SkipItem, ItemDone,
     EndOfPage, Iterated
<1>5. CASE ~(StartRun \/ Count \/ NextPage \/ LastPage \/ Handle \/ SkipItem \/ EndOfPage
             \/ Post \/ Iterated \/ LastPost \/ Stop)
  BY <1>0, <1>5 DEF Next, Step, vars, LogActivity, Store, DeleteCount, DeletePage,
     EndDelete, EndOfList, DeleteWait, EndRun, Forget, Delete, DeleteThrows, Task, Crash
<1> QED
  BY <1>1, <1>2, <1>3, <1>4, <1>5

\* What delete() has left to do shrinks with its count.
LEMMA ClearingStep ==
    ASSUME TypeOK, Phases, Untroubled, [Next]_vars, trouble' = {}
    PROVE  Clearing'
<1> USE SizesAssumption DEF Clearing, DeleteLoop, store, run
<1>a. Quiet /\ SentOnce /\ Clearing /\ trouble = {}
  BY TroubleStays DEF Untroubled
<1>b. MaxIteratorSize \in Nat \ {0} /\ hits \in Nat /\ offset \in Nat
  BY BoundsAssumption DEF TypeOK
<1>c. Cardinality(Matching) \in Nat
  BY MatchingIsFinite
<1>1. CASE LogActivity
  BY <1>a, <1>1, SameAnswer DEF LogActivity, Unseen
<1>2. ASSUME NEW k \in Activities, Store(k)
      PROVE  Clearing'
  <2>1. CASE pc \notin DeleteLoop
    BY <1>2, <2>1 DEF Store
  <2>2. CASE pc \in DeleteLoop
    <3>1. ~(k <= current)
      BY <1>2, <2>2 DEF Store, Because
    <3>2. Matching' = Matching
      BY <1>2, <3>1 DEF Store, Matching
    <3> QED
      BY <1>a, <1>2, <3>2 DEF Store, Unseen
  <2> QED
    BY <2>1, <2>2
<1>3. CASE DeleteCount
  <2>1. Matching' = Matching
    BY <1>3, SameAnswer DEF DeleteCount
  <2>2. hits' = Cardinality(Matching) /\ offset' = 0 /\ pc' = "deletePage"
    BY <1>3, <1>c DEF DeleteCount, Counts, Because
  <2> QED
    BY <1>c, <2>1, <2>2
<1>4. CASE DeletePage
  <2>1. Matching' = Matching
    BY <1>4, SameAnswer DEF DeletePage
  <2>2. /\ page' = Page(0, MaxIteratorSize) /\ tasks' = {}
        /\ pc = "deletePage" /\ pc' \in {"over", "deleteItem"}
        /\ UNCHANGED <<offset, hits>>
    BY <1>4 DEF DeletePage, PageToDelete, Because, Phases
  <2>3. Unseen' = Matching \ Page(0, MaxIteratorSize)
    BY <2>1, <2>2 DEF Unseen
  <2>4. CASE Unseen' = {}
    BY <2>2, <2>4
  <2>5. CASE Unseen' # {}
    <3>1. Cardinality(Unseen') + MaxIteratorSize <= Cardinality(Matching)
      BY <1>b, <2>3, <2>5, FullPage
    <3>2. Cardinality(Matching) + offset <= hits
      BY <1>a, <2>2, <2>3, <2>5
    <3>3. Cardinality(Unseen') \in Nat
      <4>1. Unseen' \in SUBSET Matching
        BY <2>3
      <4> QED
        BY <4>1, MatchingIsFinite, FS_Subset, FS_CardinalityType
    <3> QED
      BY <1>b, <1>c, <2>2, <3>1, <3>2, <3>3
  <2> QED
    BY <2>4, <2>5
<1>5. ASSUME NEW k \in Activities, Delete(k)
      PROVE  Clearing'
  <2>1. Unseen' = Unseen
    BY <1>5, <1>a DEF Delete, DeleteVertex, Because, Unseen, Matching
  <2> QED
    BY <1>a, <1>5, <2>1 DEF Delete
<1>5a. ASSUME NEW k \in Activities, DeleteThrows(k)
       PROVE  Clearing'
  BY <1>5a DEF DeleteThrows
<1>6. ASSUME NEW k \in Activities, Task(k)
      PROVE  Clearing'
  <2>1. Unseen' = Unseen
    BY <1>6, <1>a DEF Task, DeleteVertex, Because, Unseen, Matching
  <2>2. pc \in {"deleteItem", "deleteWait"}
    BY <1>6 DEF Task, Phases
  <2> QED
    BY <1>a, <1>6, <2>1, <2>2 DEF Task
<1>7. CASE EndOfList
  <2>1. page = {} /\ page' = {}
    BY <1>7, <1>a DEF EndOfList, Quiet, IterateLoop
  <2>2. Unseen' = Unseen
    BY <1>7, <2>1, SameAnswer DEF EndOfList, Unseen
  <2> QED
    BY <1>a, <1>7, <2>2 DEF EndOfList
<1>8. CASE DeleteWait
  <2>1. page = {} /\ tasks = {} /\ pc = "deleteWait"
    BY <1>8, <1>a DEF DeleteWait, SentOnce
  <2>2. Unseen = Matching /\ Matching' = Matching
    BY <1>8, <2>1, SameAnswer DEF DeleteWait, Unseen
  <2>3. offset' = offset + MaxIteratorSize /\ pc' = "deletePage" /\ hits' = hits
    BY <1>8 DEF DeleteWait, Advanced
  <2> QED
    BY <1>a, <1>b, <1>c, <2>1, <2>2, <2>3
<1>9. CASE UNCHANGED vars
  BY <1>a, <1>9, SameAnswer DEF vars, Unseen
<1>10. CASE StartRun \/ Count \/ NextPage \/ LastPage \/ Handle \/ SkipItem \/ EndOfPage
            \/ Post \/ Iterated \/ LastPost \/ EndDelete \/ EndRun \/ Crash
  BY <1>10 DEF StartRun, Count, NextPage, LastPage, Handle, SkipItem, EndOfPage, Post,
     Iterated, LastPost, EndDelete, EndRun, Crash, Forget
<1>11. CASE Stop
  BY <1>11 DEF Stop, Because, DeletePCs
<1> QED
  BY <1>1, <1>2, <1>3, <1>4, <1>5, <1>5a, <1>6, <1>7, <1>8, <1>9, <1>10, <1>11
     DEF Next, Step

\* What was sent and is stored still belongs to this run.
LEMMA SentOnceStep ==
    ASSUME TypeOK, Phases, Untroubled, [Next]_vars, trouble' = {}
    PROVE  SentOnce'
<1> USE DEF SentOnce, SentAndStored, IteratePCs, IterateLoop, store, run
<1>a. Quiet /\ SentOnce /\ Passed /\ Clearing /\ trouble = {}
  BY TroubleStays DEF Untroubled
<1>b. stored \subseteq once /\ splunk \subseteq once
  BY DEF TypeOK
<1>1. CASE LogActivity
  BY <1>a, <1>1, SameAnswer DEF LogActivity
<1>2. ASSUME NEW k \in Activities, Store(k)
      PROVE  SentOnce'
  <2>1. k \notin splunk /\ stored' = stored \cup {k} /\ Matching \subseteq Matching'
    BY <1>b, <1>2 DEF Store, Matching
  <2>2. UNCHANGED <<pc, splunk, batch, page>>
    BY <1>2 DEF Store
  <2> QED
    BY <1>a, <2>1, <2>2
<1>3. CASE StartRun
  BY <1>a, <1>3 DEF StartRun
<1>4. CASE Count
  BY <1>a, <1>4, SameAnswer DEF Count
<1>5. CASE NextPage
  <2>1. pc = "page" /\ pc' \in {"iterated", "item"}
        /\ (pc' = "iterated" => page' = {})
    BY <1>5 DEF NextPage
  <2> QED
    BY <1>a, <1>5, <2>1, SameAnswer DEF NextPage
<1>6. CASE LastPage
  BY <1>a, <1>6, SameAnswer DEF LastPage
<1>7. CASE Handle
  <2>1. PICK k \in page : batch' = batch \cup {k}
    BY <1>7 DEF Handle
  <2>2. k \in Matching /\ k \notin splunk
    BY <1>7, <1>a DEF Handle, Passed
  <2>3. pc = "item" /\ pc' \in {"item", "post"} /\ UNCHANGED <<stored, splunk>>
    BY <1>7 DEF Handle
  <2>4. Matching' = Matching
    BY <1>7, SameAnswer DEF Handle
  <2> QED
    BY <1>a, <2>1, <2>2, <2>3, <2>4
<1>7a. CASE SkipItem
  BY <1>a, <1>7a, SameAnswer DEF SkipItem, ItemDone
<1>8. CASE EndOfPage
  BY <1>a, <1>8, SameAnswer DEF EndOfPage
<1>9. CASE Post
  <2>1. PICK accepted \in BOOLEAN, ok \in BOOLEAN :
           /\ Posted(accepted, ok)
           /\ ok => batch' = {} /\ pc' = "item"
           /\ ~ok => trouble' = trouble \cup {"failure"}
    BY <1>9 DEF Post, Because
  <2>2. ok
    BY <2>1
  <2>3. splunk' = splunk \cup batch
    BY <2>1, <2>2 DEF Posted
  <2>4. Matching' = Matching /\ UNCHANGED stored
    BY <1>9, SameAnswer DEF Post
  <2>5. batch \subseteq Matching
    BY <1>9, <1>a DEF Post
  <2> QED
    BY <1>a, <2>1, <2>2, <2>3, <2>4, <2>5
<1>10. CASE Iterated
  <2>1. ~failed
    BY <1>a DEF Quiet
  <2>2. Matching' = Matching /\ UNCHANGED <<stored, splunk, batch>> /\ page' = {}
    BY <1>10, SameAnswer DEF Iterated
  <2>3. pc = "iterated" /\ pc' \in {"lastPost", "deleteCount"}
        /\ (pc' = "deleteCount" => batch = {})
    BY <1>10, <2>1 DEF Iterated
  <2> QED
    BY <1>a, <2>2, <2>3
<1>11. CASE LastPost
  <2>1. splunk' \in {splunk, splunk \cup batch} /\ batch' = {}
        /\ pc = "lastPost" /\ pc' = "deleteCount"
        /\ UNCHANGED <<stored, page>>
    BY <1>11 DEF LastPost, Posted, Because
  <2>2. Matching' = Matching
    BY <1>11, SameAnswer DEF LastPost
  <2> QED
    BY <1>a, <2>1, <2>2
<1>12. CASE DeleteCount
  BY <1>a, <1>12, SameAnswer DEF DeleteCount
<1>13. CASE DeletePage
  <2>1. pc = "deletePage" /\ page' = Page(0, MaxIteratorSize)
        /\ UNCHANGED <<stored, splunk, batch>>
    BY <1>13 DEF DeletePage, PageToDelete, Because
  <2>2. Matching' = Matching
    BY <1>13, SameAnswer DEF DeletePage
  <2>3. CASE page' = {}
    <3>1. Matching = {}
      BY <2>1, <2>3, EmptyPage, SizesAssumption
    <3>2. pc' = "over"
      BY <1>13, <2>3 DEF DeletePage
    <3> QED
      BY <1>a, <2>1, <2>2, <2>3, <3>1, <3>2
  <2>4. CASE page' # {}
    <3>1. pc' = "deleteItem"
      BY <1>13, <2>4 DEF DeletePage
    <3> QED
      BY <1>a, <2>1, <2>2, <3>1
  <2> QED
    BY <2>3, <2>4
<1>14. CASE EndDelete
  <2>1. ~(offset < hits) /\ pc = "deletePage" /\ pc' = "over"
        /\ UNCHANGED <<stored, splunk, batch, page>>
    BY <1>14, <1>a DEF EndDelete, MoreToDelete, Quiet
  <2>2. Matching' = Matching
    BY <1>14, SameAnswer DEF EndDelete
  <2>3. Matching = {}
    <3> SUFFICES ASSUME Matching # {}
                 PROVE  FALSE
      OBVIOUS
    <3>1. Cardinality(Matching) + offset <= hits
      BY <1>a, <2>1 DEF Clearing
    <3>2. Cardinality(Matching) \in Nat /\ Cardinality(Matching) # 0
      BY MatchingIsFinite, FS_EmptySet
    <3>3. offset \in Nat /\ hits \in Nat
      BY BoundsAssumption DEF TypeOK
    <3> QED
      BY <2>1, <3>1, <3>2, <3>3
  <2> QED
    BY <1>a, <2>1, <2>2, <2>3
<1>15. CASE EndOfList
  BY <1>a, <1>15, SameAnswer DEF EndOfList
<1>16. CASE DeleteWait
  BY <1>a, <1>16, SameAnswer DEF DeleteWait
<1>17. CASE EndRun
  BY <1>a, <1>17 DEF EndRun, Forget
<1>18. ASSUME NEW k \in Activities, Delete(k)
       PROVE  SentOnce'
  <2>1. /\ pc = "deleteItem" /\ page' \subseteq page
        /\ stored' \in {stored, stored \ {k}}
        /\ UNCHANGED <<current, pc, splunk, batch>>
    BY <1>18 DEF Delete, DeleteVertex
  <2>2. splunk \cap stored' \subseteq Matching'
    BY <1>a, <2>1 DEF Matching
  <2> QED
    BY <1>a, <2>1, <2>2
<1>18a. ASSUME NEW k \in Activities, DeleteThrows(k)
        PROVE  SentOnce'
  BY <1>18a DEF DeleteThrows, Because
<1>19. ASSUME NEW k \in Activities, Task(k)
       PROVE  SentOnce'
  <2>1. /\ pc \in {"deleteItem", "deleteWait"}
        /\ stored' \in {stored, stored \ {k}}
        /\ UNCHANGED <<current, pc, splunk, batch, page>>
    BY <1>19 DEF Task, DeleteVertex, Phases
  <2>2. splunk \cap stored' \subseteq Matching'
    BY <1>a, <2>1 DEF Matching
  <2> QED
    BY <1>a, <2>1, <2>2
<1>20. CASE Stop \/ Crash
  BY <1>a, <1>20, SameAnswer DEF Stop, Crash, Because
<1>21. CASE UNCHANGED vars
  BY <1>a, <1>21, SameAnswer DEF vars
<1> QED
  BY <1>1, <1>2, <1>3, <1>4, <1>5, <1>6, <1>7, <1>7a, <1>8, <1>9, <1>10, <1>11,
     <1>12, <1>13, <1>14, <1>15, <1>16, <1>17, <1>18, <1>18a, <1>19, <1>20, <1>21
     DEF Next, Step

\* The pages follow each other without a gap and without an overlap.
LEMMA PassedStep ==
    ASSUME TypeOK, Phases, Untroubled, [Next]_vars, trouble' = {}
    PROVE  Passed'
<1> USE SizesAssumption DEF Passed, SentAndStored, IteratePCs, IterateLoop, store, run
<1>a. Quiet /\ SentOnce /\ Passed /\ trouble = {}
  BY TroubleStays DEF Untroubled
<1>b. Limit \in Nat /\ offset \in Nat
  BY DEF TypeOK
<1>c. \A k \in Matching : Place(k) \in Nat
  BY PlaceBound
<1>d. page \subseteq Nat
  BY DEF TypeOK
<1>1. CASE LogActivity
  BY <1>a, <1>1, SameAnswer DEF LogActivity, First
<1>2. ASSUME NEW k \in Activities, Store(k)
      PROVE  Passed'
  <2>1. CASE pc \notin IterateLoop
    BY <1>2, <2>1 DEF Store
  <2>2. CASE pc \in IterateLoop
    <3>1. ~(k <= current)
      BY <1>2, <2>2 DEF Store, Because
    <3>2. Matching' = Matching
      BY <1>2, <3>1 DEF Store, Matching
    <3>3. \A j : Place(j)' = Place(j)
      BY <3>2 DEF Place
    <3>4. (splunk \cap stored)' = splunk \cap stored
      BY <1>2 DEF Store, TypeOK
    <3> QED
      BY <1>a, <1>2, <3>2, <3>3, <3>4 DEF Store, First
  <2> QED
    BY <2>1, <2>2
<1>3. CASE Count
  <2>1. SentAndStored' = {} /\ batch' = {} /\ pc' = "page"
    BY <1>3, <1>a DEF Count, SentOnce
  <2> QED
    BY <2>1
<1>4. CASE NextPage
  <2>1. Matching' = Matching /\ \A k : Place(k)' = Place(k)
    BY <1>4, SameAnswer DEF NextPage
  <2> SUFFICES ASSUME pc' # "iterated"
               PROVE  Passed'
    BY <1>4 DEF NextPage
  <2>2. /\ pc = "page" /\ pc' = "item"
        /\ page' = Page(offset, Limit)
        /\ UNCHANGED <<stored, splunk, batch, offset>>
    BY <1>4 DEF NextPage
  <2>3. \A k \in SentAndStored \cup batch : Place(k) < offset /\ k \in Matching
    BY <1>a, <2>2 DEF SentOnce
  <2>4. \A k \in page' : k \in Matching /\ offset <= Place(k)
                         /\ Place(k) < offset + Limit
    BY <2>2 DEF Page
  <2>5. page' \cap splunk = {} /\ page' \cap batch = {}
    <3> SUFFICES ASSUME NEW k \in page', k \in splunk \cup batch
                 PROVE  FALSE
      OBVIOUS
    <3>1. k \in stored
      BY <2>4 DEF Matching
    <3> QED
      BY <1>b, <1>c, <2>3, <2>4, <3>1
  <2>6. \A k \in SentAndStored \cup batch : Place(k) < offset + Limit
    BY <1>b, <1>c, <2>3
  <2> QED
    BY <2>1, <2>2, <2>4, <2>5, <2>6
<1>5. CASE Handle
  <2>1. Matching' = Matching /\ \A k : Place(k)' = Place(k)
    BY <1>5, SameAnswer DEF Handle
  <2>2. pc = "item" /\ UNCHANGED <<stored, splunk, offset>>
    BY <1>5 DEF Handle
  <2>3. PICK k \in page : /\ First(k) /\ batch' = batch \cup {k}
                          /\ \/ pc' = "post" /\ page' = page
                             \/ pc' = "item" /\ page' = page \ {k}
    BY <1>5, <2>2 DEF Handle, ItemDone
  <2>4. page \cap batch = {}
    BY <1>a, <2>2
  <2>5. pc' = "item" => page' \cap batch' = {}
    BY <2>3, <2>4
  <2>6. pc' = "post" => \A j \in page' \cap batch' : First(j)'
    BY <2>3, <2>4 DEF First
  <2> QED
    BY <1>a, <2>1, <2>2, <2>3, <2>5, <2>6
<1>5a. CASE SkipItem
  <2>1. Matching' = Matching /\ \A k : Place(k)' = Place(k)
    BY <1>5a, SameAnswer DEF SkipItem
  <2> QED
    BY <1>a, <1>5a, <2>1 DEF SkipItem, ItemDone
<1>6. CASE EndOfPage
  <2>1. Matching' = Matching /\ \A k : Place(k)' = Place(k)
    BY <1>6, SameAnswer DEF EndOfPage
  <2> QED
    BY <1>a, <1>6, <2>1 DEF EndOfPage
<1>7. CASE Post
  <2>1. Matching' = Matching /\ \A k : Place(k)' = Place(k)
    BY <1>7, SameAnswer DEF Post
  <2>2. PICK accepted \in BOOLEAN, ok \in BOOLEAN :
           /\ Posted(accepted, ok)
           /\ ok => /\ batch' = {} /\ pc' = "item"
                    /\ \E k \in page : First(k) /\ ItemDone(k)
           /\ ~ok => trouble' = trouble \cup {"failure"}
    BY <1>7 DEF Post, Because
  <2>3. ok
    BY <2>2
  <2>4. splunk' = splunk \cup batch
    BY <2>2, <2>3 DEF Posted
  <2>5. PICK k \in page : First(k) /\ page' = page \ {k}
    BY <2>2, <2>3 DEF ItemDone
  <2>6. pc = "post" /\ UNCHANGED <<stored, offset>>
    BY <1>7 DEF Post
  <2>7. page' \cap splunk' = {}
    <3> SUFFICES ASSUME NEW j \in page', j \in batch
                 PROVE  FALSE
      BY <1>a, <2>4, <2>5, <2>6
    <3>1. First(j) /\ First(k) /\ j \in page /\ j # k
      BY <1>a, <2>5, <2>6
    <3>2. j <= k /\ k <= j /\ j \in Nat /\ k \in Nat
      BY <1>d, <3>1 DEF First
    <3> QED
      BY <3>1, <3>2
  <2> QED
    BY <1>a, <2>1, <2>2, <2>3, <2>4, <2>5, <2>6, <2>7
<1>8. ASSUME NEW k \in Activities, Delete(k) \/ DeleteThrows(k) \/ Task(k)
      PROVE  Passed'
  BY <1>8 DEF Delete, DeleteThrows, Task, Phases
<1>9. CASE StartRun \/ LastPage \/ Iterated \/ LastPost \/ DeleteCount
           \/ DeletePage \/ EndDelete \/ EndOfList \/ DeleteWait \/ EndRun
           \/ Crash
  BY <1>9 DEF StartRun, LastPage, Iterated, LastPost, DeleteCount, DeletePage,
     EndDelete, EndOfList, DeleteWait, EndRun, Crash, Forget
<1>10. CASE Stop
  BY <1>a, <1>10, SameAnswer DEF Stop, First
<1>11. CASE UNCHANGED vars
  BY <1>a, <1>11, SameAnswer DEF vars, First
<1> QED
  BY <1>1, <1>2, <1>3, <1>4, <1>5, <1>5a, <1>6, <1>7, <1>8, <1>9, <1>10, <1>11
     DEF Next, Step

\* An activity is sent twice only if a failure left it stored, delete() was
\* stopped, or another activity was stored late, in the middle of a run.
THEOREM DuplicatesNeedTrouble == Spec => []OnlyTroubleDuplicates
<1>1. Init => UntroubledInv
  <2>1. Init => TypeOK
    <3>1. Init => Flags
      BY Zenon DEF Init, Flags
    <3> QED
      BY <3>1, BoundsAssumption DEF Init, TypeOK, PCs
  <2>2. Init => Phases /\ Untroubled
    BY DEF Init, Phases, Untroubled, Quiet, SentOnce, SentAndStored, Passed,
           Clearing, IteratePCs
  <2> QED
    BY <2>1, <2>2 DEF UntroubledInv
<1>2. UntroubledInv /\ [Next]_vars => UntroubledInv'
  <2> SUFFICES ASSUME UntroubledInv, [Next]_vars
               PROVE  UntroubledInv'
    OBVIOUS
  <2>1. TypeOK' /\ Phases'
    BY TypeStep, PhasesStep DEF UntroubledInv
  <2>2. ASSUME trouble' = {}
        PROVE  Untroubled'
    <3>1. TypeOK /\ Phases /\ Untroubled
      BY <2>2, TroubleStays DEF UntroubledInv
    <3> QED
      BY <2>2, <3>1, QuietStep, SentOnceStep, PassedStep, ClearingStep
         DEF Untroubled
  <2> QED
    BY <2>1, <2>2 DEF UntroubledInv
<1>3. UntroubledInv => OnlyTroubleDuplicates
  BY DEF UntroubledInv, Untroubled, Quiet, OnlyTroubleDuplicates
<1> QED
  BY <1>1, <1>2, <1>3, PTL DEF Spec
-----------------------------------------------------------------------------
(***************************************************************************)
(* How much of a run is left: the phases, in a loop the hits it has not    *)
(* asked for, and on a page the vertices in hand.  Every step of the run   *)
(* leaves less of it, in the lexicographic order, and nothing that happens *)
(* meanwhile makes it more: not what is stored, not deletes that fail.  So *)
(* a run ends if its threads are kept running.                             *)
(***************************************************************************)
PhaseLeft ==
    CASE pc = "count" -> 6
      [] pc \in IterateLoop -> 5
      [] pc = "iterated" -> 4
      [] pc = "lastPost" -> 3
      [] pc = "deleteCount" -> 2
      [] pc \in DeleteLoop -> 1
      [] OTHER -> 0

HitsLeft ==
    IF pc \in IterateLoop \cup DeleteLoop /\ offset < hits THEN hits - offset ELSE 0

WorkLeft ==
    CASE pc \in {"page", "deletePage"} -> 3 * MaxActivities + 2
      [] pc \in {"item", "deleteItem"} -> 2 * Cardinality(page) + Cardinality(tasks) + 1
      [] pc = "post" -> 2 * Cardinality(page)
      [] pc = "deleteWait" -> Cardinality(tasks)
      [] OTHER -> 0

RunLeft == <<PhaseLeft, <<HitsLeft, WorkLeft>>>>

Less == {ij \in Nat \X Nat : ij[1] < ij[2]}
RunOrder == LexPairOrdering(Less, LexPairOrdering(Less, Less, Nat, Nat), Nat, Nat \X Nat)

RunWindsDown ==
    [][/\ Step /\ pc # "idle" => pc' = "idle" \/ <<RunLeft', RunLeft>> \in RunOrder
       /\ ~Step => pc' = "idle" \/ RunLeft' = RunLeft]_vars

\* There is no infinite descent in the order.
LEMMA RunOrderIsWellFounded ==
    IsWellFoundedOn(RunOrder, Nat \X (Nat \X Nat))
<1>1. IsWellFoundedOn(OpToRel(<, Nat), Nat)
  BY NatLessThanWellFounded
<1>2. OpToRel(<, Nat) = Less
  BY DEF OpToRel, Less
<1>3. IsWellFoundedOn(Less, Nat)
  BY <1>1, <1>2
<1>4. IsWellFoundedOn(LexPairOrdering(Less, Less, Nat, Nat), Nat \X Nat)
  BY <1>3, WFLexPairOrdering
<1> QED
  BY <1>3, <1>4, WFLexPairOrdering DEF RunOrder

LEMMA Descent ==
    ASSUME NEW p \in Nat, NEW q \in Nat, NEW a \in Nat, NEW b \in Nat,
           NEW v \in Nat, NEW w \in Nat,
           p < q \/ (p = q /\ (a < b \/ (a = b /\ v < w)))
    PROVE  <<<<p, <<a, v>>>>, <<q, <<b, w>>>>>> \in RunOrder
<1> DEFINE Inner == LexPairOrdering(Less, Less, Nat, Nat)
<1>1. a < b \/ (a = b /\ v < w) => <<<<a, v>>, <<b, w>>>> \in Inner
  BY DEF LexPairOrdering, Less
<1>2. p < q => <<p, q>> \in Less
  BY DEF Less
<1>3. <<p, <<a, v>>>> \in Nat \X (Nat \X Nat) /\ <<q, <<b, w>>>> \in Nat \X (Nat \X Nat)
  OBVIOUS
<1> HIDE DEF Inner
<1>4. <<<<p, <<a, v>>>>, <<q, <<b, w>>>>>> \in LexPairOrdering(Less, Inner, Nat, Nat \X Nat)
  BY <1>1, <1>2, <1>3 DEF LexPairOrdering
<1> QED
  BY <1>4 DEF RunOrder, Inner

LEMMA Nearer ==
    ASSUME NEW all \in Nat, NEW before \in Nat, NEW after \in Nat,
           after > before, before < all
    PROVE  (IF after < all THEN all - after ELSE 0) < all - before
OBVIOUS

\* In the middle of a page the loop has not come to its end.
InLoop == pc \in {"item", "post", "deleteItem", "deleteWait"} => offset < hits

WindInv == TypeOK /\ Phases /\ InLoop

LEMMA InLoopStep ==
    ASSUME InLoop, [Next]_vars
    PROVE  InLoop'
<1> USE DEF InLoop, store, run
<1>1. CASE LogActivity \/ Stop \/ Crash \/ \E k \in Activities : Store(k)
  BY <1>1 DEF LogActivity, Stop, Crash, Forget, Store
<1>2. CASE StartRun \/ Count \/ NextPage \/ LastPage \/ Handle \/ SkipItem \/ EndOfPage
           \/ Post \/ Iterated \/ LastPost
  BY <1>2 DEF StartRun, Count, NextPage, MorePages, LastPage, Handle, SkipItem,
              ItemDone, EndOfPage,
              Post, Iterated, LastPost
<1>3. CASE DeleteCount \/ DeletePage \/ EndDelete \/ EndOfList \/ DeleteWait \/ EndRun
           \/ \E k \in Activities : Delete(k) \/ DeleteThrows(k) \/ Task(k)
  BY <1>3 DEF DeleteCount, DeletePage, MoreToDelete, EndDelete, EndOfList, DeleteWait, EndRun,
              Forget, Delete, DeleteThrows, Task
<1>4. CASE UNCHANGED vars
  BY <1>4 DEF vars
<1> QED
  BY <1>1, <1>2, <1>3, <1>4 DEF Next, Step

\* Some activities can be counted, with one more and one less.
LEMMA SomeActivities ==
    ASSUME NEW n \in 0..MaxActivities, NEW S \in SUBSET (1..n)
    PROVE  IsFiniteSet(S) /\ Cardinality(S) \in 0..MaxActivities
<1>1. IsFiniteSet(1..n) /\ Cardinality(1..n) <= MaxActivities
  BY FS_Interval, BoundsAssumption
<1>2. IsFiniteSet(S) /\ Cardinality(S) <= Cardinality(1..n)
  BY <1>1, FS_Subset
<1>3. Cardinality(S) \in Nat /\ Cardinality(1..n) \in Nat
  BY <1>1, <1>2, FS_CardinalityType
<1> QED
  BY <1>1, <1>2, <1>3, BoundsAssumption

LEMMA OneLess ==
    ASSUME NEW S, IsFiniteSet(S), NEW k \in S
    PROVE  /\ IsFiniteSet(S \ {k})
           /\ Cardinality(S) \in Nat /\ Cardinality(S \ {k}) \in Nat
           /\ Cardinality(S) = Cardinality(S \ {k}) + 1
<1>1. IsFiniteSet(S \ {k}) /\ Cardinality(S \ {k}) = Cardinality(S) - 1
  BY FS_RemoveElement
<1>2. Cardinality(S) \in Nat /\ Cardinality(S \ {k}) \in Nat
  BY <1>1, FS_CardinalityType
<1> QED
  BY <1>1, <1>2

LEMMA OneMore ==
    ASSUME NEW S, IsFiniteSet(S), NEW k
    PROVE  Cardinality(S \cup {k}) <= Cardinality(S) + 1
<1>1. Cardinality(S \cup {k}) = IF k \in S THEN Cardinality(S) ELSE Cardinality(S) + 1
  BY FS_AddElement
<1> QED
  BY <1>1, FS_CardinalityType

\* What is left of a run is counted in natural numbers.
InHand ==
    /\ IsFiniteSet(page) /\ Cardinality(page) \in 0..MaxActivities
    /\ IsFiniteSet(tasks) /\ Cardinality(tasks) \in 0..MaxActivities

LEMMA LeftTypes ==
    ASSUME TypeOK
    PROVE  InHand /\ PhaseLeft \in 0..6 /\ HitsLeft \in Nat
           /\ WorkLeft \in 0..3 * MaxActivities + 2
<1>1. made \in 0..MaxActivities /\ page \in SUBSET (1..made) /\ tasks \in SUBSET (1..made)
  BY DEF TypeOK
<1>2. InHand
  BY <1>1, SomeActivities DEF InHand
<1>3. PhaseLeft \in 0..6
  BY DEF PhaseLeft
<1>4. HitsLeft \in Nat
  BY BoundsAssumption DEF TypeOK, HitsLeft
<1>5. WorkLeft \in 0..3 * MaxActivities + 2
  BY <1>2, BoundsAssumption DEF InHand, WorkLeft
<1> QED
  BY <1>2, <1>3, <1>4, <1>5

SameLoop == PhaseLeft' = PhaseLeft /\ HitsLeft' = HitsLeft
LessLeft ==
    \/ PhaseLeft' < PhaseLeft
    \/ PhaseLeft' = PhaseLeft /\ (HitsLeft' < HitsLeft \/ (HitsLeft' = HitsLeft /\ WorkLeft' < WorkLeft))

\* A step of a run leaves less of it.
LEMMA StepLeavesLess ==
    ASSUME WindInv, TypeOK', Step, pc # "idle"
    PROVE  pc' = "idle" \/ LessLeft
<1> USE DEF store, run
<1>0. /\ InHand /\ PhaseLeft \in 0..6 /\ HitsLeft \in Nat /\ WorkLeft \in Nat
      /\ MaxActivities \in Nat /\ hits \in Nat /\ offset \in Nat
  BY LeftTypes, BoundsAssumption DEF WindInv, TypeOK
<1>0a. /\ IsFiniteSet(page') /\ Cardinality(page') \in 0..MaxActivities
       /\ IsFiniteSet(tasks') /\ Cardinality(tasks') \in 0..MaxActivities
  <2>1. made' \in 0..MaxActivities /\ page' \in SUBSET (1..made')
        /\ tasks' \in SUBSET (1..made')
    BY DEF TypeOK
  <2> QED
    BY <2>1, SomeActivities
\* The phases follow each other.
<1>1. CASE Count \/ LastPage \/ Iterated \/ LastPost \/ DeleteCount \/ EndDelete
  <2>1. /\ pc \in {"count", "page", "iterated", "lastPost", "deleteCount", "deletePage"}
        /\ pc = "count" => pc' = "page"
        /\ pc = "page" => pc' = "iterated"
        /\ pc = "iterated" => pc' \in {"over", "deleteCount", "lastPost"}
        /\ pc = "lastPost" => pc' \in {"deleteCount", "over"}
        /\ pc = "deleteCount" => pc' = "deletePage"
        /\ pc = "deletePage" => pc' = "over"
    BY <1>1 DEF Count, LastPage, Iterated, LastPost, DeleteCount, EndDelete
  <2>2. PhaseLeft' < PhaseLeft
    BY <2>1 DEF PhaseLeft, IterateLoop, DeleteLoop
  <2> QED
    BY <2>2 DEF LessLeft
\* A page is no more than all activities.
<1>2. CASE NextPage \/ DeletePage
  <2>1. \/ pc = "page" /\ pc' = "iterated"
        \/ pc = "deletePage" /\ pc' = "over"
        \/ pc = "page" /\ pc' = "item" /\ UNCHANGED <<offset, hits>>
        \/ pc = "deletePage" /\ pc' = "deleteItem" /\ UNCHANGED <<offset, hits>>
    BY <1>2 DEF NextPage, DeletePage
  <2>2. CASE pc' \in {"iterated", "over"}
    BY <2>1, <2>2 DEF LessLeft, PhaseLeft, IterateLoop, DeleteLoop
  <2>3. CASE pc' \in {"item", "deleteItem"}
    <3>1. SameLoop
      BY <2>1, <2>3 DEF SameLoop, PhaseLeft, HitsLeft, IterateLoop, DeleteLoop
    <3>2. WorkLeft = 3 * MaxActivities + 2
          /\ WorkLeft' = 2 * Cardinality(page') + Cardinality(tasks') + 1
      BY <2>1, <2>3 DEF WorkLeft
    <3>3. WorkLeft' < WorkLeft
      BY <1>0, <1>0a, <3>2
    <3> QED
      BY <3>1, <3>3 DEF SameLoop, LessLeft
  <2> QED
    BY <2>1, <2>2, <2>3
\* One vertex less is in hand.
<1>3. CASE Handle \/ SkipItem \/ Post
  <2>0. tasks = {} /\ tasks' = tasks /\ Cardinality(tasks) = 0
    BY <1>3, FS_EmptySet DEF Handle, SkipItem, Post, WindInv, Phases
  <2>1. CASE Handle /\ pc' = "post"
    <3>1. pc = "item" /\ UNCHANGED <<page, offset, hits>>
      BY <2>1 DEF Handle, ItemDone
    <3>2. SameLoop /\ WorkLeft' < WorkLeft
      BY <1>0, <2>0, <2>1, <3>1 DEF SameLoop, PhaseLeft, HitsLeft, IterateLoop, WorkLeft, InHand
    <3> QED
      BY <3>2 DEF SameLoop, LessLeft
  <2>2. CASE pc' = "item"
    <3>1. /\ pc \in {"item", "post"} /\ UNCHANGED <<offset, hits>>
          /\ \E k \in page : page' = page \ {k}
      BY <1>3, <2>2 DEF Handle, SkipItem, Post, ItemDone, First
    <3>2. Cardinality(page) = Cardinality(page') + 1
      BY <1>0, <3>1, OneLess DEF InHand
    <3>3. WorkLeft \in {2 * Cardinality(page), 2 * Cardinality(page) + 1}
          /\ WorkLeft' = 2 * Cardinality(page') + 1
      BY <1>0, <1>0a, <2>0, <2>2, <3>1 DEF WorkLeft, InHand
    <3>4. WorkLeft' < WorkLeft
      BY <1>0, <1>0a, <3>2, <3>3 DEF InHand
    <3>5. SameLoop
      <4>1. PhaseLeft = 5 /\ PhaseLeft' = 5
        BY <2>2, <3>1 DEF PhaseLeft, IterateLoop, DeleteLoop
      <4>2. HitsLeft' = HitsLeft
        BY <2>2, <3>1 DEF HitsLeft, IterateLoop
      <4> QED
        BY <4>1, <4>2 DEF SameLoop
    <3> QED
      BY <3>4, <3>5 DEF SameLoop, LessLeft
  <2>3. CASE pc' = "iterated" /\ Post
    <3>1. pc = "post"
      BY <2>3 DEF Post
    <3>2. PhaseLeft = 5 /\ PhaseLeft' = 4
      BY <2>3, <3>1 DEF PhaseLeft, IterateLoop, DeleteLoop
    <3> QED
      BY <3>2 DEF LessLeft
  <2> QED
    BY <1>3, <2>1, <2>2, <2>3 DEF Handle, SkipItem, Post
<1>4. ASSUME NEW k \in Activities, Delete(k) \/ DeleteThrows(k) \/ Task(k)
      PROVE  LessLeft
  <2>1. CASE Delete(k)
    <3>1. /\ pc = "deleteItem" /\ UNCHANGED <<pc, offset, hits>>
          /\ k \in page /\ page' = page \ {k}
          /\ tasks' = tasks \/ tasks' = tasks \cup {k}
      BY <2>1 DEF Delete
    <3>2. Cardinality(page) = Cardinality(page') + 1
      BY <1>0, <3>1, OneLess DEF InHand
    <3>2a. Cardinality(tasks') <= Cardinality(tasks) + 1
      BY <1>0, <3>1, OneMore DEF InHand
    <3>3. WorkLeft = 2 * Cardinality(page) + Cardinality(tasks) + 1
          /\ WorkLeft' = 2 * Cardinality(page') + Cardinality(tasks') + 1
      BY <3>1 DEF WorkLeft
    <3>4. WorkLeft' < WorkLeft
      BY <1>0, <1>0a, <3>2, <3>2a, <3>3 DEF InHand
    <3>5. SameLoop
      BY <3>1 DEF SameLoop, PhaseLeft, HitsLeft
    <3> QED
      BY <3>4, <3>5 DEF SameLoop, LessLeft
  <2>2. CASE Task(k)
    <3>1. /\ pc \in {"deleteItem", "deleteWait"} /\ UNCHANGED <<pc, offset, hits, page>>
          /\ k \in tasks /\ tasks' = tasks \ {k}
      BY <2>2 DEF Task, WindInv, Phases
    <3>2. Cardinality(tasks) = Cardinality(tasks') + 1
      BY <1>0, <3>1, OneLess DEF InHand
    <3>3. WorkLeft' < WorkLeft
      BY <1>0, <1>0a, <3>1, <3>2 DEF InHand, WorkLeft
    <3>4. SameLoop
      BY <3>1 DEF SameLoop, PhaseLeft, HitsLeft
    <3> QED
      BY <3>3, <3>4 DEF SameLoop, LessLeft
  <2>3. CASE DeleteThrows(k)
    <3>1. pc = "deleteItem" /\ pc' = "over"
      BY <2>3 DEF DeleteThrows
    <3> QED
      BY <3>1 DEF LessLeft, PhaseLeft, IterateLoop, DeleteLoop
  <2> QED
    BY <1>4, <2>1, <2>2, <2>3
\* The next page is nearer to the end.
<1>5. CASE EndOfPage \/ DeleteWait
  <2>1. /\ hits' = hits /\ offset' > offset /\ offset' \in Nat /\ offset < hits
        /\ \/ pc = "item" /\ pc' = "page"
           \/ pc = "deleteWait" /\ pc' = "deletePage"
    BY <1>0, <1>5, SizesAssumption DEF EndOfPage, DeleteWait, Advanced, WindInv, InLoop
  <2>2. HitsLeft = hits - offset
        /\ HitsLeft' = IF offset' < hits THEN hits - offset' ELSE 0
    BY <2>1 DEF HitsLeft, IterateLoop, DeleteLoop
  <2>3. HitsLeft' < HitsLeft
    <3>1. (IF offset' < hits THEN hits - offset' ELSE 0) < hits - offset
      BY <1>0, <2>1, Nearer
    <3> QED
      BY <2>2, <3>1
  <2>4. PhaseLeft' = PhaseLeft
    BY <2>1 DEF PhaseLeft, IterateLoop, DeleteLoop
  <2> QED
    BY <2>3, <2>4 DEF LessLeft
<1>6. CASE EndOfList
  <2>1. pc = "deleteItem" /\ pc' = "deleteWait" /\ UNCHANGED <<hits, offset, tasks>>
    BY <1>6 DEF EndOfList
  <2>2. SameLoop
    BY <2>1 DEF SameLoop, PhaseLeft, HitsLeft, IterateLoop, DeleteLoop
  <2>3. WorkLeft' < WorkLeft
    BY <1>0, <2>1 DEF WorkLeft, InHand
  <2> QED
    BY <2>2, <2>3 DEF SameLoop, LessLeft
<1>7. CASE EndRun
  BY <1>7 DEF EndRun, Forget
<1>8. ~StartRun
  BY DEF StartRun
<1> QED
  BY <1>1, <1>2, <1>3, <1>4, <1>5, <1>6, <1>7, <1>8 DEF Step

\* Whatever else happens leaves as much of it.
LEMMA OthersLeaveIt ==
    ASSUME [Next]_vars, ~Step
    PROVE  pc' = "idle" \/ RunLeft' = RunLeft
<1>1. CASE Crash
  BY <1>1 DEF Crash, Forget
<1>2. CASE LogActivity \/ Stop \/ (\E k \in Activities : Store(k)) \/ UNCHANGED vars
  <2>1. UNCHANGED <<pc, offset, hits, page, tasks>>
    BY <1>2 DEF LogActivity, Stop, Store, vars, run
  <2> QED
    BY <2>1 DEF RunLeft, PhaseLeft, HitsLeft, WorkLeft
<1> QED
  BY <1>1, <1>2 DEF Next

\* Every step of a run brings its end nearer, and nothing takes it farther off:
\* neither deletes that fail nor activities that are stored meanwhile.
THEOREM WindsDown == Spec => RunWindsDown
<1>1. Init => WindInv
  <2>1. Init => Flags
    BY Zenon DEF Init, Flags
  <2>2. Init => TypeOK
    BY <2>1, BoundsAssumption DEF Init, TypeOK, PCs
  <2> QED
    BY <2>2 DEF Init, WindInv, Phases, InLoop
<1>2. WindInv /\ [Next]_vars => WindInv'
  BY TypeStep, PhasesStep, InLoopStep DEF WindInv
<1>3. WindInv /\ WindInv' /\ [Next]_vars =>
         /\ Step /\ pc # "idle" => pc' = "idle" \/ <<RunLeft', RunLeft>> \in RunOrder
         /\ ~Step => pc' = "idle" \/ RunLeft' = RunLeft
  <2> SUFFICES ASSUME WindInv, WindInv', [Next]_vars
               PROVE  /\ Step /\ pc # "idle" =>
                            pc' = "idle" \/ <<RunLeft', RunLeft>> \in RunOrder
                      /\ ~Step => pc' = "idle" \/ RunLeft' = RunLeft
    OBVIOUS
  <2>1. ASSUME Step, pc # "idle", pc' # "idle"
        PROVE  <<RunLeft', RunLeft>> \in RunOrder
    <3>1. LessLeft
      BY <2>1, StepLeavesLess DEF WindInv
    <3>2. PhaseLeft \in Nat /\ HitsLeft \in Nat /\ WorkLeft \in Nat
      BY LeftTypes, BoundsAssumption DEF WindInv
    <3>3. PhaseLeft' \in Nat /\ HitsLeft' \in Nat /\ WorkLeft' \in Nat
      <4>1. /\ IsFiniteSet(page') /\ Cardinality(page') \in Nat
            /\ IsFiniteSet(tasks') /\ Cardinality(tasks') \in Nat
        <5>1. made' \in 0..MaxActivities /\ page' \in SUBSET (1..made')
              /\ tasks' \in SUBSET (1..made')
          BY DEF WindInv, TypeOK
        <5> QED
          BY <5>1, SomeActivities
      <4>2. hits' \in Nat /\ offset' \in Nat
        BY BoundsAssumption DEF WindInv, TypeOK
      <4> QED
        BY <4>1, <4>2, BoundsAssumption DEF PhaseLeft, HitsLeft, WorkLeft
    <3> QED
      BY <3>1, <3>2, <3>3, Descent DEF LessLeft, RunLeft
  <2>2. ASSUME ~Step
        PROVE  pc' = "idle" \/ RunLeft' = RunLeft
    BY <2>2, OthersLeaveIt
  <2> QED
    BY <2>1, <2>2
<1> QED
  BY <1>1, <1>2, <1>3, PTL DEF Spec, RunWindsDown
=============================================================================
