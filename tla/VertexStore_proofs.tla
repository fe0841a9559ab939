-------------------------- MODULE VertexStore_proofs --------------------------
(***************************************************************************)
(* What holds of a stored vertex for any number of threads, objects and    *)
(* retries: it never gets a second document, and it does not come back     *)
(* after a delete() that returned TRUE.                                    *)
(*                                                                         *)
(* The argument: the right to have the document stored is always in one    *)
(* place at most.  It is the document itself, or an insert that has not    *)
(* been sent yet (because the object never had an ID, or because fixId()   *)
(* has just erased the document), or a delete() that erased the document   *)
(* and will return TRUE, or it is gone.  Nobody makes a second one.        *)
(***************************************************************************)
EXTENDS VertexStore, FiniteSetTheorems, TLAPS

\* The threads that hold the monitor of their object.
Busy == PCs \ (Resting \cup {"found", "data", "mark", "save", "delete"})

Answered == {"found", "before", "recalled", "lookedUp"}

\* What the locals of a thread have to do with where it is.
Local(t) ==
    /\ th[t].at = NoObject <=> th[t].pc \in {"idle", "found"}
    /\ th[t].pc \in Answered => th[t].doc \in Docs
    /\ th[t].pc \notin Busy =>
          th[t].kind = "none" /\ th[t].tries = 0 /\ ~th[t].result
    /\ th[t].pc \in Busy => th[t].kind # "none"
    /\ th[t].pc \in {"before", "lock", "evict", "unlock"} => th[t].kind = "update"
    /\ th[t].pc \in {"insert", "recalled"} => th[t].kind = "insert"
    /\ th[t].pc = "deleted" => th[t].kind = "delete"
    /\ th[t].pc \in {"cache", "clean", "serialise", "request"} => th[t].kind # "delete"
    /\ th[t].pc \in {"erase", "erased"} => th[t].kind # "update"
    /\ th[t].result => th[t].pc \in {"unlock", "cache", "clean", "deleted"}
    /\ th[t].kind = "insert" => t = Author

Locals == \A t \in Threads : Local(t)

\* A thread inside save() or delete() has the monitor of its object, and a
\* thread that is about to erase a document knows which.
Held(t) ==
    /\ th[t].pc \in Busy => MyObject(t).monitor = t
    /\ th[t].pc = "erase" => MyObject(t).indexId \in Docs

Monitors == \A t \in Threads : Held(t)

\* A delete() that erased the document and is going to return TRUE.
HasErased(t) ==
    /\ th[t].kind = "delete"
    /\ th[t].pc = "erased" \/ (th[t].pc = "deleted" /\ th[t].result)

\* There is no document, and nobody has deleted one.
Unwritten == Stored(docs) = {} /\ ~gone /\ \A t \in Threads : ~HasErased(t)

First(t) == th[t].pc = "insert" /\ th[t].tries = 0

\* Only the object its author made can be without an ID, and as long as it is
\* nothing was stored.
HasName(t) ==
    /\ th[t].kind = "update" => MyObject(t).hasId
    /\ th[t].kind = "insert" /\ ~First(t) => MyObject(t).hasId
    /\ th[t].at # NoObject /\ ~MyObject(t).hasId => t = Author /\ Unwritten

CacheNamed == cache # NoObject => obj[cache].hasId

Named == CacheNamed /\ \A t \in Threads : HasName(t)

Unmade ==
    version = 0 => /\ cache = NoObject /\ Unwritten /\ Stored(seen) = {}
                   /\ \A t \in Threads : th[t].pc = "idle"

\* An insert that will make a document.
Writing(t) ==
    th[t].kind = "insert" /\ (First(t) \/ th[t].pc \in {"serialise", "request", "erased"})

\* The right to have the document stored is in one place at most.
OnePlace ==
    /\ AtMostOne(Stored(docs)) /\ AtMostOne(Stored(seen))
    /\ \A t \in Threads : Writing(t) => Unwritten
    /\ \A t \in Threads : HasErased(t) => Stored(docs) = {}
    /\ gone => Stored(docs) = {}

IInv == TypeOK /\ Locals /\ Monitors /\ Named /\ Unmade /\ OnePlace

-----------------------------------------------------------------------------
\* There is always an object that nobody holds.
LEMMA SpareFree ==
    ASSUME TypeOK
    PROVE  Spare \in Objects /\ \A t \in Threads : th[t].at # Spare
<1> DEFINE f == [t \in Threads |-> th[t].at]
           Hands == {th[t].at : t \in Threads}
<1>1. f \in Surjection(Threads, Hands)
  BY DEF Surjection
<1>2. IsFiniteSet(Hands) /\ Cardinality(Hands) <= Cardinality(Threads)
  BY <1>1, ObjectsAssumption, FS_Surjection
<1>3. /\ Cardinality(Hands) \in Nat /\ Cardinality(Threads) \in Nat
      /\ Cardinality(Objects) \in Nat
  BY <1>2, ObjectsAssumption, FS_CardinalityType
<1>4. ~(Objects \subseteq Hands)
  <2>1. Objects \subseteq Hands => Cardinality(Objects) <= Cardinality(Hands)
    BY <1>2, FS_Subset
  <2> QED
    BY <2>1, <1>2, <1>3, ObjectsAssumption
<1>5. \E o \in Objects : \A t \in Threads : th[t].at # o
  BY <1>4
<1> QED
  BY <1>5 DEF Spare

\* What a step of thread t leaves to the others, once the objects are these.
Left(t, objects) ==
    \A u \in Threads \ {t} :
        /\ th'[u] = th[u]
        /\ th[u].at # NoObject =>
             /\ obj[th[u].at].hasId => objects[th[u].at].hasId
             /\ objects[th[u].at].monitor = obj[th[u].at].monitor \/ th[u].pc \notin Busy
             /\ objects[th[u].at].indexId = obj[th[u].at].indexId \/ th[u].pc \notin Busy

Others(t) == Left(t, obj')

\* The garbage collector leaves every object that can be reached as it is.
LEMMA Reachable ==
    ASSUME NEW objects \in [Objects -> ObjectRecords], obj' = Collected(objects)
    PROVE  /\ obj' \in [Objects -> ObjectRecords]
           /\ \A t \in Threads : th'[t].at \in Objects
                                   => obj'[th'[t].at] = objects[th'[t].at]
           /\ cache' \in Objects => obj'[cache'] = objects[cache']
           /\ \A t \in Threads : TypeOK /\ Left(t, objects) => Others(t)
<1>1. Blank \in ObjectRecords
  BY DEF Blank, ObjectRecords, NoDoc
<1>2. \A t \in Threads : th'[t].at \in Objects => obj'[th'[t].at] = objects[th'[t].at]
  BY DEF Collected
<1>3. ASSUME NEW t \in Threads, TypeOK, Left(t, objects), NEW u \in Threads \ {t},
             th[u].at # NoObject
      PROVE  th'[u] = th[u] /\ obj'[th[u].at] = objects[th[u].at]
  <2>1. th[u].at \in Objects
    BY <1>3 DEF TypeOK, ThreadRecords
  <2>2. th'[u] = th[u]
    BY <1>3 DEF Left
  <2> QED
    BY <1>2, <2>1, <2>2
<1>4. \A t \in Threads : TypeOK /\ Left(t, objects) => Others(t)
  BY <1>3 DEF Left, Others
<1> QED
  BY <1>1, <1>2, <1>4 DEF Collected

\* A step that leaves the others what they have only has to see to itself and
\* to the documents.
LEMMA StepInv ==
    ASSUME IInv, NEW t \in Threads, TypeOK', Others(t),
           Local(t)', Held(t)', HasName(t)', CacheNamed', version' # 0,
           OnePlace', Unwritten => Unwritten' \/ t = Author
    PROVE  IInv'
<1>1. ASSUME NEW u \in Threads \ {t}
      PROVE  Local(u)' /\ Held(u)' /\ HasName(u)'
  <2>1. th'[u] = th[u] /\ Local(u) /\ Held(u) /\ HasName(u)
    BY DEF IInv, Locals, Monitors, Named, Others, Left
  <2>2. Local(u)'
    BY <2>1 DEF Local
  <2>3. th[u].pc \in Busy => th[u].at # NoObject
    BY <2>1 DEF Local, Busy, Resting, PCs
  <2>4. Held(u)'
    <3>1. th[u].pc = "erase" => th[u].pc \in Busy
      BY DEF Busy, Resting, PCs
    <3> QED
      BY <2>1, <2>3, <3>1 DEF Held, Others, Left, MyObject
  <2>5. HasName(u)'
    <3>1. th[u].kind \in {"insert", "update"} => th[u].pc \in Busy
      BY <2>1 DEF Local, Busy, PCs, IInv, TypeOK, ThreadRecords
    <3>2. th[u].at # NoObject /\ MyObject(u).hasId => MyObject(u)'.hasId
      BY <2>1 DEF Others, Left, MyObject
    <3>3. First(u)' = First(u)
      BY <2>1 DEF First
    <3> QED
      BY <2>1, <2>3, <3>1, <3>2, <3>3 DEF HasName, MyObject
  <2> QED
    BY <2>2, <2>4, <2>5
<1> QED
  BY <1>1 DEF IInv, Locals, Monitors, Named, Unmade

\* A step that changes nothing.
LEMMA StutterInv == IInv /\ UNCHANGED vars => IInv'
BY DEF IInv, vars, TypeOK, Locals, Local, Monitors, Held, Named, CacheNamed, HasName,
       Unmade, OnePlace, Unwritten, Writing, HasErased, First, MyObject, Stored, AtMostOne

\* A step that leaves the documents alone makes no second one possible.
LEMMA Quiet ==
    ASSUME IInv, NEW t \in Threads, Others(t),
           docs' = docs, gone' = gone, seen' \in {seen, docs},
           Writing(t)' => Writing(t) \/ Unwritten,
           HasErased(t)' => HasErased(t)
    PROVE  OnePlace' /\ (Unwritten => Unwritten')
<1>1. \A u \in Threads : HasErased(u)' => HasErased(u)
  BY DEF Others, Left, HasErased
<1>2. \A u \in Threads : Writing(u)' => Unwritten
  BY DEF Others, Left, Writing, First, IInv, OnePlace
<1>3. Stored(docs)' = Stored(docs) /\ Stored(seen)' \in {Stored(seen), Stored(docs)}
  BY DEF Stored
<1>4. Unwritten => Unwritten'
  BY <1>1, <1>3 DEF Unwritten
<1> QED
  BY <1>1, <1>2, <1>3, <1>4 DEF IInv, OnePlace, AtMostOne

\* A lookup caches what it has read: nobody else loses anything by it.
LEMMA CacheNowInv ==
    ASSUME IInv, NEW t \in Threads, NEW o \in Objects \cup {NoObject},
           NEW label \in {"lock", "lookup", "serialise", "erase", "cache"},
           NEW objects \in [Objects -> ObjectRecords],
           CacheNow(t, o, label, objects),
           UNCHANGED <<docs, seen, holder, version, gone>>,
           th[t].pc \in {"before", "evict", "recalled", "lookedUp"},
           label \in {"lock", "lookup", "serialise"} => th[t].kind = "update",
           label = "erase" => th[t].kind # "update",
           label = "cache" => th[t].kind = "insert",
           label = "erase" => objects[th[t].at].indexId \in Docs,
           o # NoObject => objects[o].hasId,
           \A u \in Threads : th[u].at # NoObject =>
               /\ objects[th[u].at].hasId = obj[th[u].at].hasId
               /\ objects[th[u].at].monitor = obj[th[u].at].monitor
               /\ th[u].at # th[t].at => objects[th[u].at].indexId = obj[th[u].at].indexId
    PROVE  IInv'
<1>1. TypeOK /\ th[t] \in ThreadRecords
  BY DEF IInv, TypeOK
<1>2. Local(t) /\ Held(t) /\ HasName(t) /\ CacheNamed
  BY DEF IInv, Locals, Monitors, Named
<1>3. ObjectRecords' = ObjectRecords /\ ThreadRecords' = ThreadRecords
  BY DEF ObjectRecords, ThreadRecords
<1>4. th[t].pc \in Busy /\ th[t].at \in Objects
  BY <1>1, <1>2 DEF Local, Busy, PCs, Resting, ThreadRecords
<1>5. /\ th' \in [Threads -> ThreadRecords]
      /\ th'[t].pc = label /\ th'[t].at = th[t].at
      /\ th'[t].kind = th[t].kind /\ th'[t].result = th[t].result
      /\ th'[t].tries = th[t].tries
      /\ \A u \in Threads \ {t} : th'[u] = th[u]
  BY <1>1 DEF CacheNow, TypeOK, ThreadRecords, PCs, Resting
<1>6. obj' = Collected(objects) /\ cache' = o
  BY DEF CacheNow
<1>7. \A u \in Threads \ {t} : th[u].pc \in Busy => th[u].at # th[t].at
  BY <1>2, <1>4 DEF IInv, Monitors, Held, MyObject
<1>8. Left(t, objects)
  BY <1>5, <1>7 DEF Left
<1>9. /\ Others(t) /\ obj' \in [Objects -> ObjectRecords]
      /\ o # NoObject => obj'[o].hasId
      /\ obj'[th[t].at] = objects[th[t].at]
  BY <1>1, <1>4, <1>5, <1>6, <1>8, Reachable
<1>10. TypeOK'
  BY <1>1, <1>3, <1>5, <1>6, <1>9 DEF TypeOK
<1>11. OnePlace' /\ (Unwritten => Unwritten')
  <2>1. ~Writing(t)' /\ ~HasErased(t)'
    BY <1>5 DEF Writing, HasErased, First
  <2> QED
    BY <1>9, <2>1, Quiet
<1>12. version' # 0
  BY <1>4 DEF IInv, Unmade, Busy, PCs, Resting
<1>13. Local(t)'
  BY <1>2, <1>4, <1>5 DEF Local, Busy, PCs, Resting, Answered
<1>14. Held(t)' /\ HasName(t)' /\ CacheNamed'
  BY <1>1, <1>2, <1>4, <1>5, <1>6, <1>9, <1>11, NoObjectAssumption
  DEF Held, HasName, First, CacheNamed, MyObject
<1> QED
  BY <1>9, <1>10, <1>11, <1>12, <1>13, <1>14, StepInv

-----------------------------------------------------------------------------
\* What every step starts from.
LEMMA Facts ==
    ASSUME IInv, NEW t \in Threads
    PROVE  /\ TypeOK /\ th[t] \in ThreadRecords /\ Free \in ThreadRecords
           /\ Spare \in Objects /\ \A u \in Threads : th[u].at # Spare
           /\ Local(t) /\ Held(t) /\ HasName(t) /\ CacheNamed
           /\ th[t].pc # "idle" \/ cache # NoObject => version # 0
           /\ th[t].pc \in Busy =>
                 /\ th[t].at \in Objects
                 /\ \A u \in Threads \ {t} : th[u].pc \in Busy => th[u].at # th[t].at
           /\ ObjectRecords' = ObjectRecords /\ ThreadRecords' = ThreadRecords
           /\ Versions' = Versions /\ Docs' = Docs
<1>1. /\ TypeOK /\ th[t] \in ThreadRecords /\ Spare \in Objects
      /\ \A u \in Threads : th[u].at # Spare
  BY SpareFree DEF IInv, TypeOK
<1>2. Local(t) /\ Held(t) /\ HasName(t) /\ CacheNamed
  BY DEF IInv, Locals, Monitors, Named
<1>3. th[t].pc # "idle" \/ cache # NoObject => version # 0
  BY DEF IInv, Unmade
<1>4. th[t].pc \in Busy =>
         /\ th[t].at \in Objects
         /\ \A u \in Threads \ {t} : th[u].pc \in Busy => th[u].at # th[t].at
  <2>1. \A u \in Threads : th[u].pc \in Busy => obj[th[u].at].monitor = u
    BY DEF IInv, Monitors, Held, MyObject
  <2> QED
    BY <1>1, <1>2, <2>1 DEF Local, Busy, PCs, Resting, ThreadRecords
<1>5. Free \in ThreadRecords
  BY RetriesAssumption DEF Free, ThreadRecords, PCs, Resting, NoDoc, Absent
<1>6. /\ ObjectRecords' = ObjectRecords /\ ThreadRecords' = ThreadRecords
      /\ Versions' = Versions /\ Docs' = Docs
  BY DEF ObjectRecords, ThreadRecords, Versions, Docs
<1> QED
  BY <1>1, <1>2, <1>3, <1>4, <1>5, <1>6

\* An object that was read, and the one that gets its index ID from it.
LEMMA Identifying ==
    ASSUME IInv, NEW t \in Threads, th[t].at \in Objects, th[t].doc \in Docs
    PROVE  /\ Identified(t) \in [Objects -> ObjectRecords]
           /\ Identified(t)[Spare].hasId /\ Identified(t)[th[t].at].indexId \in Docs
           /\ \A u \in Threads : th[u].at # NoObject =>
                /\ Identified(t)[th[u].at].hasId = obj[th[u].at].hasId
                /\ Identified(t)[th[u].at].monitor = obj[th[u].at].monitor
                /\ th[u].at # th[t].at =>
                     Identified(t)[th[u].at].indexId = obj[th[u].at].indexId
<1>1. /\ TypeOK /\ th[t] \in ThreadRecords /\ Spare \in Objects
      /\ \A u \in Threads : th[u].at # Spare
  BY Facts
<1>2. Loaded(t) \in ObjectRecords /\ Loaded(t).hasId
  BY <1>1 DEF Loaded, Blank, ObjectRecords, ThreadRecords, Absent, NoDoc
<1>3. [obj[th[t].at] EXCEPT !.indexId = th[t].doc] \in ObjectRecords
  <2>1. obj[th[t].at] \in ObjectRecords
    BY <1>1 DEF TypeOK
  <2> QED
    BY <2>1 DEF ObjectRecords
<1>4. Identified(t) = [obj EXCEPT ![Spare] = Loaded(t),
                                  ![th[t].at] = [obj[th[t].at] EXCEPT !.indexId = th[t].doc]]
  BY <1>1 DEF Identified, TypeOK
<1>5. \A u \in Threads : th[u].at \in Objects \cup {NoObject}
  BY <1>1 DEF TypeOK, ThreadRecords
<1>6. Identified(t) \in [Objects -> ObjectRecords]
  BY <1>1, <1>2, <1>3, <1>4 DEF TypeOK
<1>7. /\ Identified(t)[Spare] = Loaded(t)
      /\ Identified(t)[th[t].at] = [obj[th[t].at] EXCEPT !.indexId = th[t].doc]
      /\ \A o \in Objects \ {Spare, th[t].at} : Identified(t)[o] = obj[o]
  BY <1>1, <1>4 DEF TypeOK
<1>8. /\ Identified(t)[th[t].at].hasId = obj[th[t].at].hasId
      /\ Identified(t)[th[t].at].monitor = obj[th[t].at].monitor
      /\ Identified(t)[th[t].at].indexId = th[t].doc
  BY <1>1, <1>7 DEF TypeOK, ObjectRecords
<1> QED
  BY <1>1, <1>2, <1>5, <1>6, <1>7, <1>8

\* What the program does with the vertex outside save() and delete().
LEMMA ProgramInv ==
    ASSUME IInv, NEW t \in Threads,
           Ask(t) \/ CachePut(t) \/ Change(t) \/ SetDirty(t)
    PROVE  IInv'
<1>1. /\ TypeOK /\ th[t] \in ThreadRecords /\ Spare \in Objects
      /\ \A u \in Threads : th[u].at # Spare
  BY Facts
<1>2. Local(t) /\ Held(t) /\ HasName(t) /\ CacheNamed
  BY Facts
<1>3. ObjectRecords' = ObjectRecords /\ ThreadRecords' = ThreadRecords
  BY Facts
<1>4. CASE New(t)
  <2>1. TypeOK'
    BY <1>1, <1>4, VersionAssumption
    DEF New, TypeOK, ThreadRecords, ObjectRecords, Blank, PCs, Resting, NoDoc,
        Absent, Versions
  <2>2. Others(t)
    BY <1>1, <1>4 DEF New, Others, Left, TypeOK
  <2>3. Unwritten /\ cache = NoObject
    BY <1>4 DEF New, IInv, Unmade
  <2>4. OnePlace' /\ (Unwritten => Unwritten')
    BY <1>1, <1>2, <1>4, <2>2, <2>3, Quiet
    DEF New, Writing, HasErased, First, TypeOK, Local, Busy, PCs, Resting
  <2>5. Local(t)' /\ Held(t)'
    BY <1>1, <1>2, <1>4, NoObjectAssumption
    DEF New, Local, Held, TypeOK, ThreadRecords, Busy, PCs, Resting, Answered, MyObject
  <2>6. HasName(t)' /\ CacheNamed'
    BY <1>1, <1>2, <1>4, <2>3, <2>4, <2>5
    DEF New, Local, HasName, CacheNamed, TypeOK, ThreadRecords, Busy, PCs, Resting
  <2>7. version' # 0
    BY <1>4 DEF New
  <2> QED
    BY <2>1, <2>2, <2>4, <2>5, <2>6, <2>7, StepInv
<1>5. ASSUME th[t].pc # "idle" \/ cache # NoObject
      PROVE  version # 0
  BY <1>5, Facts
<1>6. CASE CacheGet(t)
  <2>1. TypeOK'
    BY <1>1, <1>6 DEF CacheGet, TypeOK, ThreadRecords, PCs, Resting
  <2>2. Others(t)
    BY <1>1, <1>6 DEF CacheGet, Others, Left, TypeOK
  <2>3. OnePlace' /\ (Unwritten => Unwritten')
    BY <1>1, <1>2, <1>6, <2>2, Quiet
    DEF CacheGet, Writing, HasErased, First, TypeOK, Local, Busy, PCs, Resting
  <2>4. Local(t)' /\ Held(t)' /\ HasName(t)' /\ CacheNamed'
    BY <1>1, <1>2, <1>6
    DEF CacheGet, Local, Held, HasName, CacheNamed, TypeOK, ThreadRecords, Busy,
        PCs, Resting, Answered, MyObject
  <2>5. version' # 0
    BY <1>5, <1>6 DEF CacheGet
  <2> QED
    BY <2>1, <2>2, <2>3, <2>4, <2>5, StepInv
<1>7. CASE Query(t)
  <2>1. CASE Found = {}
    <3>1. UNCHANGED vars
      BY <1>7, <2>1 DEF Query, vars
    <3> QED
      BY <3>1, StutterInv
  <2>2. CASE Found # {}
    <3>1. PICK d \in Found : th' = [th EXCEPT ![t].pc = "found", ![t].doc = d,
                                              ![t].value = seen[d]]
      BY <1>7, <2>2 DEF Query, ReadInto
    <3>2. d \in Docs /\ d \in Stored(seen)
      BY <3>1 DEF Found, Stored
    <3>3. TypeOK'
      BY <1>1, <1>7, <3>1, <3>2 DEF Query, TypeOK, ThreadRecords, PCs, Resting
    <3>4. Others(t)
      BY <1>1, <1>7, <3>1 DEF Query, Others, Left, TypeOK
    <3>5. OnePlace' /\ (Unwritten => Unwritten')
      BY <1>1, <1>2, <1>7, <3>1, <3>4, Quiet
      DEF Query, Writing, HasErased, First, TypeOK, Local, Busy, PCs, Resting
    <3>6. Local(t)' /\ Held(t)' /\ HasName(t)' /\ CacheNamed'
      BY <1>1, <1>2, <1>7, <3>1, <3>2
      DEF Query, Local, Held, HasName, CacheNamed, TypeOK, ThreadRecords, Busy,
          PCs, Resting, Answered, MyObject
    <3>7. version' # 0
      BY <1>7, <3>2 DEF Query, IInv, Unmade
    <3> QED
      BY <3>3, <3>4, <3>5, <3>6, <3>7, StepInv
  <2> QED
    BY <2>1, <2>2
<1>8. CASE Release(t)
  <2>1. obj' = Collected(obj) /\ cache' = cache /\ obj' \in [Objects -> ObjectRecords]
    BY <1>1, <1>8, Reachable DEF Release, TypeOK
  <2>2. TypeOK'
    BY <1>1, <1>8, <1>3, <2>1, RetriesAssumption
    DEF Release, TypeOK, ThreadRecords, PCs, Resting, Free, NoDoc, Absent
  <2>3. Others(t)
    BY <1>1, <1>8, <2>1, Reachable DEF Release, Others, Left, TypeOK, ThreadRecords
  <2>4. OnePlace' /\ (Unwritten => Unwritten')
    BY <1>1, <1>2, <1>8, <2>3, Quiet
    DEF Release, Free, Writing, HasErased, First, TypeOK, Local, Busy, PCs, Resting
  <2>5. CacheNamed'
    BY <1>1, <1>2, <2>1, Reachable DEF CacheNamed, TypeOK
  <2>6. Local(t)' /\ Held(t)' /\ HasName(t)'
    BY <1>1, <1>2, <1>8
    DEF Release, Free, Local, Held, HasName, TypeOK, ThreadRecords, Busy,
        PCs, Resting, Answered, MyObject
  <2>7. version' # 0
    BY <1>5, <1>8 DEF Release
  <2> QED
    BY <2>3, <2>4, <2>5, <2>6, <2>7, <2>2, StepInv
<1>9. CASE GetData(t)
  <2>1. TypeOK'
    BY <1>1, <1>9 DEF GetData, Goto, TypeOK, ThreadRecords, PCs, Resting
  <2>2. Others(t)
    BY <1>1, <1>9 DEF GetData, Goto, Others, Left, TypeOK
  <2>3. OnePlace' /\ (Unwritten => Unwritten')
    BY <1>1, <1>2, <1>9, <2>2, Quiet
    DEF GetData, Goto, Writing, HasErased, First, TypeOK, Local, Busy, PCs, Resting
  <2>4. Local(t)' /\ Held(t)' /\ HasName(t)' /\ CacheNamed'
    BY <1>1, <1>2, <1>9, <2>3
    DEF GetData, Goto, Local, Held, HasName, First, CacheNamed, TypeOK, ThreadRecords,
        Busy, PCs, Resting, Answered, MyObject
  <2>5. version' # 0
    BY <1>5, <1>9 DEF GetData
  <2> QED
    BY <2>1, <2>2, <2>3, <2>4, <2>5, StepInv
<1>10. ASSUME NEW method \in {"save", "delete"}, Call(t, method)
       PROVE  IInv'
  <2>1. TypeOK'
    BY <1>1, <1>10 DEF Call, Goto, TypeOK, ThreadRecords, PCs, Resting
  <2>2. Others(t)
    BY <1>1, <1>10 DEF Call, Goto, Others, Left, TypeOK
  <2>3. OnePlace' /\ (Unwritten => Unwritten')
    BY <1>1, <1>2, <1>10, <2>2, Quiet
    DEF Call, Goto, Writing, HasErased, First, TypeOK, Local, Busy, PCs, Resting
  <2>4. Local(t)' /\ Held(t)' /\ HasName(t)' /\ CacheNamed'
    BY <1>1, <1>2, <1>10, <2>3
    DEF Call, Goto, Local, Held, HasName, First, CacheNamed, TypeOK, ThreadRecords,
        Busy, PCs, Resting, Answered, MyObject
  <2>5. version' # 0
    BY <1>5, <1>10 DEF Call
  <2> QED
    BY <2>1, <2>2, <2>3, <2>4, <2>5, StepInv
<1>11. CASE CachePut(t)
  <2>1. Loaded(t) \in ObjectRecords /\ Loaded(t).hasId
    BY <1>1 DEF Loaded, Blank, ObjectRecords, ThreadRecords, Absent, NoDoc
  <2> DEFINE objects == [obj EXCEPT ![Spare] = Loaded(t)]
  <2>2. /\ objects \in [Objects -> ObjectRecords]
        /\ objects[Spare] = Loaded(t)
        /\ \A o \in Objects \ {Spare} : objects[o] = obj[o]
    BY <1>1, <2>1 DEF TypeOK
  <2>3. /\ obj' \in [Objects -> ObjectRecords]
        /\ \A u \in Threads : th'[u].at \in Objects
                                => obj'[th'[u].at] = objects[th'[u].at]
        /\ cache' = Spare /\ obj'[Spare] = Loaded(t)
    <3>1. obj' = Collected(objects) /\ cache' = Spare
      BY <1>11 DEF CachePut
    <3> HIDE DEF objects
    <3> QED
      BY <1>1, <2>2, <3>1, Reachable
  <2> HIDE DEF objects
  <2>4. [Free EXCEPT !.pc = "hold", !.at = Spare] \in ThreadRecords
    <3>1. Free \in ThreadRecords
      BY RetriesAssumption DEF Free, ThreadRecords, PCs, Resting, NoDoc, Absent
    <3> HIDE DEF Free
    <3> QED
      BY <1>1, <3>1 DEF ThreadRecords, PCs, Resting
  <2>5. TypeOK'
    BY <1>1, <1>11, <1>3, <2>3, <2>4 DEF CachePut, TypeOK
  <2>6. Others(t)
    <3>1. \A u \in Threads \ {t} : th'[u] = th[u] /\ th[u].at \in Objects \cup {NoObject}
      BY <1>1, <1>11 DEF CachePut, TypeOK, ThreadRecords
    <3> QED
      BY <1>1, <2>2, <2>3, <3>1 DEF Others, Left
  <2>7. OnePlace' /\ (Unwritten => Unwritten')
    BY <1>1, <1>2, <1>11, <2>6, Quiet
    DEF CachePut, Free, Writing, HasErased, First, TypeOK, Local, Busy, PCs, Resting
  <2>8. obj'[Spare].hasId /\ cache' = Spare
    BY <2>1, <2>3
  <2>9. Local(t)' /\ Held(t)' /\ HasName(t)' /\ CacheNamed'
    BY <1>1, <1>2, <1>11, <2>8, NoObjectAssumption
    DEF CachePut, Free, Local, Held, HasName, CacheNamed, TypeOK, ThreadRecords,
        Busy, PCs, Resting, Answered, MyObject
  <2>10. version' # 0
    BY <1>5, <1>11 DEF CachePut
  <2> QED
    BY <2>5, <2>6, <2>7, <2>9, <2>10, StepInv
<1>12. CASE Change(t)
  <2>1. version' \in Versions /\ version' # 0
    BY <1>1, <1>5, <1>12, VersionAssumption DEF Change, TypeOK, Versions
  <2>2. th[t].at \in Objects
    BY <1>1, <1>2, <1>12 DEF Change, Local, TypeOK, ThreadRecords
  <2>3. obj' \in [Objects -> ObjectRecords]
    BY <1>1, <1>12, <2>1, <2>2 DEF Change, TypeOK, ObjectRecords
  <2>4. TypeOK'
    BY <1>1, <1>12, <1>3, <2>1, <2>3
    DEF Change, Goto, TypeOK, ThreadRecords, PCs, Resting, Versions
  <2>5. Others(t)
    BY <1>1, <1>12, <2>2 DEF Change, Goto, Others, Left, TypeOK, ObjectRecords
  <2>6. OnePlace' /\ (Unwritten => Unwritten')
    BY <1>1, <1>2, <1>12, <2>5, Quiet
    DEF Change, Goto, Writing, HasErased, First, TypeOK, Local, Busy, PCs, Resting
  <2>7. \A o \in Objects : obj'[o].hasId = obj[o].hasId
    BY <1>1, <1>12, <2>2 DEF Change, TypeOK, ObjectRecords
  <2>8. Local(t)' /\ Held(t)' /\ HasName(t)' /\ CacheNamed'
    BY <1>1, <1>2, <1>12, <2>2, <2>6, <2>7
    DEF Change, Goto, Local, Held, HasName, First, CacheNamed, TypeOK, ThreadRecords,
        Busy, PCs, Resting, Answered, MyObject
  <2> QED
    BY <2>1, <2>4, <2>5, <2>6, <2>8, StepInv
<1>13. CASE SetDirty(t)
  <2>1. th[t].at \in Objects
    BY <1>1, <1>2, <1>13 DEF SetDirty, Local, TypeOK, ThreadRecords
  <2>2. obj' \in [Objects -> ObjectRecords]
    BY <1>1, <1>13, <2>1 DEF SetDirty, TypeOK, ObjectRecords
  <2>3. TypeOK'
    BY <1>1, <1>13, <1>3, <2>2
    DEF SetDirty, Goto, TypeOK, ThreadRecords, PCs, Resting
  <2>4. Others(t)
    BY <1>1, <1>13, <2>1 DEF SetDirty, Goto, Others, Left, TypeOK, ObjectRecords
  <2>5. OnePlace' /\ (Unwritten => Unwritten')
    BY <1>1, <1>2, <1>13, <2>4, Quiet
    DEF SetDirty, Goto, Writing, HasErased, First, TypeOK, Local, Busy, PCs, Resting
  <2>6. \A o \in Objects : obj'[o].hasId = obj[o].hasId
    BY <1>1, <1>13, <2>1 DEF SetDirty, TypeOK, ObjectRecords
  <2>7. Local(t)' /\ Held(t)' /\ HasName(t)' /\ CacheNamed'
    BY <1>1, <1>2, <1>13, <2>1, <2>5, <2>6
    DEF SetDirty, Goto, Local, Held, HasName, First, CacheNamed, TypeOK, ThreadRecords,
        Busy, PCs, Resting, Answered, MyObject
  <2>8. version' # 0
    BY <1>5, <1>13 DEF SetDirty
  <2> QED
    BY <2>3, <2>4, <2>5, <2>7, <2>8, StepInv
<1> QED
  BY <1>4, <1>6, <1>7, <1>8, <1>9, <1>10, <1>11, <1>12, <1>13 DEF Ask

\* save(): the update of a vertex, and what an insert shares with it.
LEMMA SaveInv ==
    ASSUME IInv, NEW t \in Threads,
           \/ NothingToSave(t) \/ Create(t) \/ Update(t) \/ PutBeforeData(t)
           \/ StartUpdate(t) \/ Evict(t) \/ Serialise(t) \/ UpdateAnswered(t)
           \/ UpdateRejected(t) \/ FinishUpdate(t) \/ AfterUpdate(t) \/ EndSave(t)
    PROVE  IInv'
<1>1. /\ TypeOK /\ th[t] \in ThreadRecords /\ Spare \in Objects
      /\ \A u \in Threads : th[u].at # Spare
  BY Facts
<1>2. Local(t) /\ Held(t) /\ HasName(t) /\ CacheNamed
  BY Facts
<1>3. th[t].pc # "idle" => version # 0
  BY Facts
<1>4. ObjectRecords' = ObjectRecords /\ ThreadRecords' = ThreadRecords
  BY Facts
<1>5. \A u \in Threads \ {t} :
          th[u].pc \in Busy => obj[th[u].at].monitor = u /\ u # NoThread
  BY NoThreadAssumption DEF IInv, Monitors, Held, MyObject
<1>6. CASE NothingToSave(t)
  <2>1. TypeOK' /\ Others(t)
    BY <1>1, <1>6
    DEF NothingToSave, Goto, Others, Left, TypeOK, ThreadRecords, PCs, Resting
  <2>2. OnePlace' /\ (Unwritten => Unwritten')
    BY <1>1, <1>2, <1>6, <2>1, Quiet
    DEF NothingToSave, Goto, Writing, HasErased, First, TypeOK, Local, Busy, PCs, Resting
  <2>3. Local(t)' /\ Held(t)' /\ HasName(t)' /\ CacheNamed' /\ version' # 0
    BY <1>1, <1>2, <1>3, <1>6, <2>2
    DEF NothingToSave, Goto, Local, Held, HasName, First, CacheNamed, TypeOK,
        ThreadRecords, Busy, PCs, Resting, Answered, MyObject
  <2> QED
    BY <2>1, <2>2, <2>3, StepInv
<1>7. ASSUME NEW kind \in {"insert", "update"}, NEW label \in {"insert", "lock", "before"},
             EnterSave(t, kind, label), kind = "insert" <=> label = "insert"
      PROVE  IInv'
  <2>1. th[t].at \in Objects
    BY <1>1, <1>2, <1>7 DEF EnterSave, Local, TypeOK, ThreadRecords
  <2> DEFINE read(d) == IF d = NoDoc THEN Absent ELSE seen[d]
  <2>2. PICK d \in (IF label = "before" THEN Found ELSE {NoDoc}) :
           th' = [th EXCEPT ![t].pc = label, ![t].kind = kind, ![t].doc = d,
                            ![t].value = read(d), ![t].since = MyObject(t).value]
    BY <1>7 DEF EnterSave
  <2>3. /\ d \in Docs \cup {NoDoc} /\ (label = "before" => d \in Docs)
        /\ read(d) \in Versions \cup {Absent}
        /\ MyObject(t).value \in Versions \cup {Absent}
    BY <1>1, <2>1, <2>2 DEF Found, Stored, TypeOK, MyObject, ObjectRecords
  <2> HIDE DEF read
  <2>4. obj' \in [Objects -> ObjectRecords]
    BY <1>1, <1>7, <2>1 DEF EnterSave, Touched, TypeOK, ObjectRecords
  <2>5. th' \in [Threads -> ThreadRecords]
    <3>1. th' = [th EXCEPT ![t] = [th[t] EXCEPT !.pc = label, !.kind = kind, !.doc = d,
                                   !.value = read(d), !.since = MyObject(t).value]]
      BY <1>1, <2>2 DEF TypeOK
    <3>2. [th[t] EXCEPT !.pc = label, !.kind = kind, !.doc = d, !.value = read(d),
                        !.since = MyObject(t).value] \in ThreadRecords
      BY <1>1, <2>3 DEF ThreadRecords, PCs, Resting
    <3> QED
      BY <1>1, <3>1, <3>2 DEF TypeOK
  <2>6. TypeOK'
    BY <1>1, <1>4, <1>7, <2>4, <2>5 DEF EnterSave, TypeOK
  <2>7. /\ \A o \in Objects : obj'[o].hasId = obj[o].hasId /\ obj'[o].indexId = obj[o].indexId
        /\ obj'[th[t].at].monitor = t
        /\ \A o \in Objects \ {th[t].at} : obj'[o] = obj[o]
    BY <1>1, <1>7, <2>1 DEF EnterSave, Touched, TypeOK, ObjectRecords
  <2>8. Others(t)
    <3>1. obj[th[t].at].monitor = NoThread
      BY <1>7 DEF EnterSave, MonitorFree, MyObject
    <3>2. \A u \in Threads \ {t} : th'[u] = th[u] /\ th[u].at \in Objects \cup {NoObject}
      BY <1>1, <2>2 DEF TypeOK, ThreadRecords
    <3> QED
      BY <1>5, <2>7, <3>1, <3>2 DEF Others, Left
  <2>9. MyObject(t).hasId <=> kind = "update"
    BY <1>7 DEF EnterSave
  <2>10. th'[t].kind = kind /\ th'[t].pc = label /\ th'[t].at = th[t].at
         /\ th'[t].tries = th[t].tries /\ th'[t].result = th[t].result /\ th'[t].doc = d
    BY <1>1, <2>2 DEF TypeOK, ThreadRecords
  <2>11. th[t].pc = "save"
    BY <1>7 DEF EnterSave
  <2>12. kind = "insert" => t = Author /\ Unwritten
    BY <1>2, <2>1, <2>9, NoObjectAssumption DEF HasName
  <2>13. OnePlace' /\ (Unwritten => Unwritten')
    BY <1>7, <2>8, <2>10, <2>12, Quiet DEF EnterSave, Writing, HasErased, First
  <2>14. Local(t)'
    BY <1>2, <1>7, <2>3, <2>10, <2>11, <2>12 DEF Local, Busy, PCs, Resting, Answered
  <2>15. Held(t)'
    BY <1>7, <2>7, <2>10 DEF Held, MyObject
  <2>16. HasName(t)' /\ CacheNamed' /\ version' # 0
    BY <1>1, <1>2, <1>3, <1>7, <2>1, <2>7, <2>9, <2>10, <2>11, <2>12, <2>13
    DEF EnterSave, HasName, CacheNamed, First, MyObject, TypeOK, Local, Busy, PCs, Resting
  <2> QED
    BY <2>6, <2>8, <2>13, <2>14, <2>15, <2>16, StepInv
<1>8. CASE PutBeforeData(t)
  <2> DEFINE objects == [obj EXCEPT ![Spare] = Loaded(t)]
  <2>1. Loaded(t) \in ObjectRecords /\ Loaded(t).hasId
    BY <1>1 DEF Loaded, Blank, ObjectRecords, ThreadRecords, Absent, NoDoc
  <2>2. /\ objects \in [Objects -> ObjectRecords]
        /\ objects[Spare].hasId
        /\ \A o \in Objects \ {Spare} : objects[o] = obj[o]
    BY <1>1, <2>1 DEF TypeOK
  <2>3. /\ CacheNow(t, Spare, "lock", objects) /\ th[t].pc = "before"
        /\ UNCHANGED <<docs, seen, holder, version, gone>>
    BY <1>8 DEF PutBeforeData
  <2>4. th[t].kind = "update"
    BY <1>2, <2>3 DEF Local
  <2>5. \A u \in Threads : th[u].at # NoObject => objects[th[u].at] = obj[th[u].at]
    BY <1>1, <2>2 DEF TypeOK, ThreadRecords
  <2> HIDE DEF objects
  <2> QED
    BY <1>1, <2>2, <2>3, <2>4, <2>5, CacheNowInv
<1>9. CASE Evict(t)
  <2>1. th[t].kind = "update" /\ th[t].pc = "evict"
    BY <1>2, <1>9 DEF Local, Evict
  <2>2. /\ CacheNow(t, NoObject, "lookup", obj) /\ obj \in [Objects -> ObjectRecords]
        /\ UNCHANGED <<docs, seen, holder, version, gone>>
    BY <1>1, <1>9 DEF Evict, TypeOK
  <2> QED
    BY <2>1, <2>2, CacheNowInv
<1>10. CASE StartUpdate(t)
  <2>1. TypeOK' /\ Others(t)
    BY <1>1, <1>10
    DEF StartUpdate, Goto, Lock!Start, Others, Left, TypeOK, ThreadRecords, PCs, Resting
  <2>2. OnePlace' /\ (Unwritten => Unwritten')
    BY <1>1, <1>2, <1>10, <2>1, Quiet
    DEF StartUpdate, Goto, Lock!Start, Writing, HasErased, First, TypeOK, Local,
        Busy, PCs, Resting
  <2>3. Local(t)' /\ Held(t)' /\ HasName(t)' /\ CacheNamed' /\ version' # 0
    BY <1>1, <1>2, <1>3, <1>10, <2>2
    DEF StartUpdate, Goto, Lock!Start, Local, Held, HasName, First, CacheNamed, TypeOK,
        ThreadRecords, Busy, PCs, Resting, Answered, MyObject
  <2> QED
    BY <2>1, <2>2, <2>3, StepInv
<1>11. CASE Serialise(t)
  <2>1. th[t].at \in Objects
    BY <1>1, <1>2, <1>11 DEF Serialise, Local, TypeOK, ThreadRecords
  <2>2. Serialised(t) \in Versions \cup {Absent}
    BY <1>1, <2>1 DEF Serialised, MyObject, TypeOK, ObjectRecords
  <2>3. TypeOK' /\ Others(t)
    BY <1>1, <1>11, <2>2
    DEF Serialise, Others, Left, TypeOK, ThreadRecords, PCs, Resting
  <2>4. OnePlace' /\ (Unwritten => Unwritten')
    BY <1>1, <1>2, <1>11, <2>3, Quiet
    DEF Serialise, Writing, HasErased, First, TypeOK, Local, Busy, PCs, Resting
  <2>5. Local(t)' /\ Held(t)' /\ HasName(t)' /\ CacheNamed' /\ version' # 0
    BY <1>1, <1>2, <1>3, <1>11, <2>4
    DEF Serialise, Local, Held, HasName, First, CacheNamed, TypeOK,
        ThreadRecords, Busy, PCs, Resting, Answered, MyObject
  <2> QED
    BY <2>3, <2>4, <2>5, StepInv
<1>12. CASE UpdateRejected(t)
  <2>1. TypeOK' /\ Others(t)
    BY <1>1, <1>12
    DEF UpdateRejected, Goto, Others, Left, TypeOK, ThreadRecords, PCs, Resting
  <2>2. OnePlace' /\ (Unwritten => Unwritten')
    BY <1>1, <1>2, <1>12, <2>1, Quiet
    DEF UpdateRejected, Goto, Writing, HasErased, First, TypeOK, Local, Busy, PCs, Resting
  <2>3. Local(t)' /\ Held(t)' /\ HasName(t)' /\ CacheNamed' /\ version' # 0
    BY <1>1, <1>2, <1>3, <1>12, <2>2
    DEF UpdateRejected, Goto, Local, Held, HasName, First, CacheNamed, TypeOK,
        ThreadRecords, Busy, PCs, Resting, Answered, MyObject
  <2> QED
    BY <2>1, <2>2, <2>3, StepInv
<1>13. CASE FinishUpdate(t)
  <2>1. TypeOK' /\ Others(t)
    BY <1>1, <1>13
    DEF FinishUpdate, Goto, FinishedWith, Lock!Finished, Others, Left, TypeOK,
        ThreadRecords, PCs, Resting
  <2>2. OnePlace' /\ (Unwritten => Unwritten')
    BY <1>1, <1>2, <1>13, <2>1, Quiet
    DEF FinishUpdate, Goto, FinishedWith, Lock!Finished, Writing, HasErased, First,
        TypeOK, Local, Busy, PCs, Resting
  <2>3. Local(t)' /\ Held(t)' /\ HasName(t)' /\ CacheNamed' /\ version' # 0
    BY <1>1, <1>2, <1>3, <1>13, <2>2
    DEF FinishUpdate, Goto, FinishedWith, Lock!Finished, Local, Held, HasName,
        First, CacheNamed, TypeOK,
        ThreadRecords, Busy, PCs, Resting, Answered, MyObject
  <2> QED
    BY <2>1, <2>2, <2>3, StepInv
<1>14. th[t].pc \in Busy => /\ th[t].at \in Objects
                            /\ \A u \in Threads \ {t} : th[u].pc \in Busy => th[u].at # th[t].at
  BY Facts
<1>15. CASE UpdateAnswered(t)
  <2> DEFINE i == MyObject(t).indexId
  <2>1. th[t].at \in Objects /\ th[t].value \in Versions \cup {Absent}
    BY <1>1, <1>14, <1>15 DEF UpdateAnswered, Busy, PCs, Resting, ThreadRecords
  <2>2. /\ docs' = [docs EXCEPT ![i] = th[t].value] /\ seen' = docs'
        /\ Exists(i) /\ gone' = gone
    BY <1>15 DEF UpdateAnswered
  <2> HIDE DEF i
  <2>3. TypeOK' /\ Others(t)
    <3>1. docs' \in [Docs -> Versions \cup {Absent}]
      BY <1>1, <2>1, <2>2 DEF TypeOK
    <3>2. Others(t) /\ th' \in [Threads -> ThreadRecords]
      BY <1>1, <1>15
      DEF UpdateAnswered, Others, Left, TypeOK, ThreadRecords, PCs, Resting
    <3>3. Versions' = Versions /\ Docs' = Docs
      BY DEF Versions, Docs
    <3> QED
      BY <1>1, <1>4, <1>15, <2>2, <3>1, <3>2, <3>3 DEF UpdateAnswered, TypeOK
  <2>4. ~Writing(t)' /\ ~HasErased(t)'
    BY <1>1, <1>15
    DEF UpdateAnswered, Writing, HasErased, First, TypeOK, ThreadRecords
  <2>5. OnePlace' /\ (Unwritten => Unwritten')
    <3>1. CASE i \notin Docs
      <4>1. docs' = docs
        BY <1>1, <2>2, <3>1 DEF TypeOK
      <4> QED
        BY <2>2, <2>3, <2>4, <4>1, Quiet
    <3>2. CASE i \in Docs
      <4>1. i \in Stored(docs)
        BY <2>2, <3>2 DEF Exists, Stored
      <4>2. Stored(docs)' \subseteq Stored(docs) /\ Stored(seen)' = Stored(docs)'
        BY <1>1, <2>2, <4>1 DEF Stored, TypeOK
      <4>3. ~Unwritten /\ ~gone /\ \A u \in Threads : ~Writing(u) /\ ~HasErased(u)
        BY <4>1 DEF IInv, OnePlace, Unwritten
      <4>4. \A u \in Threads : ~Writing(u)' /\ ~HasErased(u)'
        BY <2>3, <2>4, <4>3 DEF Others, Left, Writing, HasErased, First
      <4> QED
        BY <2>2, <4>2, <4>3, <4>4 DEF IInv, OnePlace, AtMostOne
    <3> QED
      BY <3>1, <3>2
  <2>6. Local(t)' /\ Held(t)' /\ HasName(t)' /\ CacheNamed' /\ version' # 0
    BY <1>1, <1>2, <1>3, <1>15, <2>5
    DEF UpdateAnswered, Local, Held, HasName, First, CacheNamed, TypeOK,
        ThreadRecords, Busy, PCs, Resting, Answered, MyObject
  <2> QED
    BY <2>3, <2>5, <2>6, StepInv
<1>16. CASE AfterUpdate(t)
  <2>1. th[t].at \in Objects /\ MyObject(t).hasId
    BY <1>1, <1>2, <1>14, <1>16
    DEF AfterUpdate, Local, HasName, First, Busy, PCs, Resting, ThreadRecords
  <2>2. /\ th' \in [Threads -> ThreadRecords] /\ th' = [th EXCEPT ![t].pc = "clean"]
        /\ obj' = Collected(obj) /\ obj \in [Objects -> ObjectRecords]
        /\ cache' = th[t].at
    BY <1>1, <1>16 DEF AfterUpdate, Goto, TypeOK, ThreadRecords, PCs, Resting
  <2>3. /\ th'[t].at = th[t].at
        /\ \A u \in Threads \ {t} : th'[u] = th[u]
    BY <1>1, <2>2 DEF TypeOK, ThreadRecords
  <2>4. Left(t, obj)
    BY <2>3 DEF Left
  <2>5. /\ Others(t) /\ obj' \in [Objects -> ObjectRecords]
        /\ obj'[th[t].at] = obj[th[t].at]
    BY <1>1, <2>1, <2>2, <2>3, <2>4, Reachable
  <2>6. TypeOK'
    BY <1>1, <1>4, <1>16, <2>1, <2>2, <2>5 DEF AfterUpdate, TypeOK
  <2>7. OnePlace' /\ (Unwritten => Unwritten')
    BY <1>1, <1>2, <1>16, <2>2, <2>5, Quiet
    DEF AfterUpdate, Writing, HasErased, First, TypeOK, Local, Busy, PCs, Resting
  <2>8. Local(t)' /\ Held(t)' /\ HasName(t)' /\ CacheNamed' /\ version' # 0
    BY <1>1, <1>2, <1>3, <1>16, <2>1, <2>2, <2>5, <2>7
    DEF AfterUpdate, Local, Held, HasName, First, CacheNamed, TypeOK,
        ThreadRecords, Busy, PCs, Resting, Answered, MyObject
  <2> QED
    BY <2>5, <2>6, <2>7, <2>8, StepInv
<1>17. CASE EndSave(t)
  <2>1. th[t].at \in Objects /\ MyObject(t).hasId
        /\ \A u \in Threads \ {t} : th[u].pc \in Busy => th[u].at # th[t].at
    BY <1>1, <1>2, <1>14, <1>17
    DEF EndSave, Local, HasName, First, Busy, PCs, Resting, ThreadRecords
  <2>2. /\ obj' \in [Objects -> ObjectRecords]
        /\ \A o \in Objects : obj'[o].hasId = obj[o].hasId
        /\ \A o \in Objects \ {th[t].at} : obj'[o] = obj[o]
    <3>1. obj' = [obj EXCEPT ![th[t].at] =
                    [obj[th[t].at] EXCEPT !.dirty = FALSE, !.monitor = NoThread]]
      BY <1>1, <1>17, <2>1 DEF EndSave, TypeOK
    <3>2. obj[th[t].at] \in ObjectRecords
      BY <1>1, <2>1 DEF TypeOK
    <3> QED
      BY <1>1, <2>1, <3>1, <3>2 DEF TypeOK, ObjectRecords
  <2>3. Returned(t) \in ThreadRecords
    <3>1. Free \in ThreadRecords
      BY RetriesAssumption DEF Free, ThreadRecords, PCs, Resting, NoDoc, Absent
    <3> QED
      BY <2>1, <3>1 DEF Returned, ThreadRecords, PCs, Resting
  <2>4. TypeOK'
    BY <1>1, <1>4, <1>17, <2>2, <2>3 DEF EndSave, TypeOK
  <2>5. Others(t)
    BY <1>1, <1>17, <2>1, <2>2 DEF EndSave, Others, Left, TypeOK, ThreadRecords
  <2>6. th'[t] = Returned(t)
    BY <1>1, <1>17 DEF EndSave, TypeOK
  <2>7. /\ th'[t].pc = "hold" /\ th'[t].at = th[t].at /\ th'[t].kind = "none"
        /\ th'[t].tries = 0 /\ th'[t].result = FALSE
    BY <2>6 DEF Returned, Free
  <2>8. OnePlace' /\ (Unwritten => Unwritten')
    BY <1>17, <2>5, <2>7, Quiet DEF EndSave, Writing, HasErased, First
  <2>9. Local(t)' /\ Held(t)' /\ HasName(t)' /\ CacheNamed' /\ version' # 0
    BY <1>1, <1>2, <1>3, <1>17, <2>1, <2>2, <2>7, <2>8, NoObjectAssumption
    DEF EndSave, Local, Held, HasName, First, CacheNamed, TypeOK, Busy, PCs,
        Resting, Answered, MyObject
  <2> QED
    BY <2>4, <2>5, <2>8, <2>9, StepInv
<1> QED
  BY <1>6, <1>7, <1>8, <1>9, <1>10, <1>11, <1>12,
     <1>13, <1>15, <1>16, <1>17
  DEF Create, Update

\* The insert of EsActionInsert, its retries and fixId().
LEMMA InsertInv ==
    ASSUME IInv, NEW t \in Threads,
           \/ FirstInsert(t) \/ RecallCached(t) \/ Recall(t) \/ PutRecalled(t)
           \/ InsertAnswered(t) \/ InsertThrown(t)
    PROVE  IInv'
<1>1. /\ TypeOK /\ th[t] \in ThreadRecords
      /\ Spare \in Objects /\ \A u \in Threads : th[u].at # Spare
      /\ Local(t) /\ Held(t) /\ HasName(t) /\ CacheNamed
      /\ ObjectRecords' = ObjectRecords /\ ThreadRecords' = ThreadRecords
      /\ Versions' = Versions /\ Docs' = Docs
  BY Facts
<1>2. /\ th[t].pc \in Busy /\ version # 0 /\ th[t].at \in Objects
      /\ \A u \in Threads \ {t} : th[u].pc \in Busy => th[u].at # th[t].at
      /\ th[t].kind = "insert" /\ t = Author
  <2>1. th[t].pc \in Busy /\ th[t].pc # "idle"
    BY DEF FirstInsert, RecallCached, Recall, PutRecalled, InsertAnswered,
           InsertThrown, Busy, PCs, Resting
  <2>2. th[t].kind = "insert" /\ t = Author
    BY <1>1 DEF FirstInsert, RecallCached, Recall, PutRecalled, InsertAnswered,
                InsertThrown, Local
  <2> QED
    BY <2>1, <2>2, Facts
<1>3. CASE FirstInsert(t)
  <2>1. /\ obj' \in [Objects -> ObjectRecords]
        /\ obj'[th[t].at].hasId
        /\ obj'[th[t].at].monitor = obj[th[t].at].monitor
        /\ \A o \in Objects \ {th[t].at} : obj'[o] = obj[o]
    <3>1. obj' = [obj EXCEPT ![th[t].at] = [obj[th[t].at] EXCEPT !.hasId = TRUE]]
      BY <1>1, <1>2, <1>3 DEF FirstInsert, TypeOK
    <3>2. obj[th[t].at] \in ObjectRecords
      BY <1>1, <1>2 DEF TypeOK
    <3> QED
      BY <1>1, <1>2, <3>1, <3>2 DEF TypeOK, ObjectRecords
  <2>2. TypeOK' /\ Others(t)
    BY <1>1, <1>2, <1>3, <2>1
    DEF FirstInsert, Goto, Others, Left, TypeOK, ThreadRecords, PCs, Resting
  <2>3. OnePlace' /\ (Unwritten => Unwritten')
    BY <1>1, <1>2, <1>3, <2>2, Quiet
    DEF FirstInsert, Goto, Writing, HasErased, First, TypeOK, ThreadRecords
  <2>4. Local(t)' /\ Held(t)' /\ HasName(t)' /\ CacheNamed'
    BY <1>1, <1>2, <1>3, <2>1, NoObjectAssumption
    DEF FirstInsert, Goto, Local, Held, HasName, First, CacheNamed, TypeOK,
        ThreadRecords, Busy, PCs, Resting, Answered, MyObject
  <2>5. version' # 0
    BY <1>2, <1>3 DEF FirstInsert
  <2> QED
    BY <2>2, <2>3, <2>4, <2>5, StepInv
<1>4. CASE RecallCached(t)
  <2>1. /\ obj' \in [Objects -> ObjectRecords]
        /\ obj'[th[t].at].monitor = obj[th[t].at].monitor
        /\ \A o \in Objects : obj'[o].hasId = obj[o].hasId
        /\ \A o \in Objects \ {th[t].at} : obj'[o] = obj[o]
    <3>1. obj' = [obj EXCEPT ![th[t].at] =
                    [obj[th[t].at] EXCEPT !.indexId = obj[cache].indexId]]
      BY <1>1, <1>2, <1>4 DEF RecallCached, TypeOK
    <3>2. obj[th[t].at] \in ObjectRecords /\ obj[cache].indexId \in Docs \cup {NoDoc}
      BY <1>1, <1>2, <1>4 DEF RecallCached, TypeOK, ObjectRecords
    <3> QED
      BY <1>1, <1>2, <3>1, <3>2 DEF TypeOK, ObjectRecords
  <2>2. TypeOK' /\ Others(t)
    BY <1>1, <1>2, <1>4, <2>1
    DEF RecallCached, Goto, Others, Left, TypeOK, ThreadRecords, PCs, Resting
  <2>3. OnePlace' /\ (Unwritten => Unwritten')
    BY <1>1, <1>2, <1>4, <2>2, Quiet
    DEF RecallCached, Goto, Writing, HasErased, First, TypeOK, ThreadRecords
  <2>4. Local(t)' /\ Held(t)' /\ HasName(t)' /\ CacheNamed'
    BY <1>1, <1>2, <1>4, <2>1, NoObjectAssumption
    DEF RecallCached, Goto, Local, Held, HasName, First, CacheNamed, TypeOK,
        ThreadRecords, Busy, PCs, Resting, Answered, MyObject
  <2>5. version' # 0
    BY <1>2, <1>4 DEF RecallCached
  <2> QED
    BY <2>2, <2>3, <2>4, <2>5, StepInv
<1>5. CASE Recall(t)
  <2>1. CASE Found = {}
    <3>1. TypeOK' /\ Others(t)
      BY <1>1, <1>5, <2>1
      DEF Recall, Goto, Others, Left, TypeOK, ThreadRecords, PCs, Resting
    <3>2. OnePlace' /\ (Unwritten => Unwritten')
      BY <1>1, <1>2, <1>5, <2>1, <3>1, Quiet
      DEF Recall, Goto, Writing, HasErased, First, TypeOK, ThreadRecords
    <3>3. Local(t)' /\ Held(t)' /\ HasName(t)' /\ CacheNamed' /\ version' # 0
      BY <1>1, <1>2, <1>5, <2>1, NoObjectAssumption
      DEF Recall, Goto, Local, Held, HasName, First, CacheNamed, TypeOK,
          ThreadRecords, Busy, PCs, Resting, Answered, MyObject
    <3> QED
      BY <3>1, <3>2, <3>3, StepInv
  <2>2. CASE Found # {}
    <3>1. PICK d \in Found : th' = [th EXCEPT ![t].pc = "recalled", ![t].doc = d,
                                              ![t].value = seen[d]]
      BY <1>5, <2>2 DEF Recall, ReadInto
    <3>2. d \in Docs
      BY <3>1 DEF Found, Stored
    <3>3. TypeOK' /\ Others(t)
      BY <1>1, <1>5, <3>1, <3>2
      DEF Recall, Others, Left, TypeOK, ThreadRecords, PCs, Resting
    <3>4. OnePlace' /\ (Unwritten => Unwritten')
      BY <1>1, <1>2, <1>5, <3>1, <3>3, Quiet
      DEF Recall, Writing, HasErased, First, TypeOK, ThreadRecords
    <3>5. Local(t)' /\ Held(t)' /\ HasName(t)' /\ CacheNamed' /\ version' # 0
      BY <1>1, <1>2, <1>5, <3>1, <3>2, NoObjectAssumption
      DEF Recall, Local, Held, HasName, First, CacheNamed, TypeOK,
          ThreadRecords, Busy, PCs, Resting, Answered, MyObject
    <3> QED
      BY <3>3, <3>4, <3>5, StepInv
  <2> QED
    BY <2>1, <2>2
<1>6. CASE PutRecalled(t)
  <2>1. /\ CacheNow(t, Spare, "cache", Identified(t)) /\ th[t].pc = "recalled"
        /\ UNCHANGED <<docs, seen, holder, version, gone>>
    BY <1>6 DEF PutRecalled
  <2>2. /\ Identified(t) \in [Objects -> ObjectRecords] /\ Identified(t)[Spare].hasId
        /\ \A u \in Threads : th[u].at # NoObject =>
             /\ Identified(t)[th[u].at].hasId = obj[th[u].at].hasId
             /\ Identified(t)[th[u].at].monitor = obj[th[u].at].monitor
             /\ th[u].at # th[t].at =>
                  Identified(t)[th[u].at].indexId = obj[th[u].at].indexId
    BY <1>1, <1>2, <2>1, Identifying DEF Local, Answered
  <2> QED
    BY <1>1, <1>2, <2>1, <2>2, CacheNowInv
<1>7. ASSUME Writing(t), Others(t), ~Writing(t)', ~HasErased(t)', gone' = gone,
             docs' = [docs EXCEPT ![th[t].tries + 1] = th[t].value],
             seen' \in {seen, docs'}, th[t].tries + 1 \in Docs
      PROVE  OnePlace' /\ docs' \in [Docs -> Versions \cup {Absent}]
  <2>1. Unwritten /\ AtMostOne(Stored(seen))
    BY <1>7 DEF IInv, OnePlace
  <2>2. Stored(docs)' \subseteq {th[t].tries + 1}
    BY <1>1, <1>7, <2>1 DEF Unwritten, Stored, TypeOK
  <2>3. \A u \in Threads : ~Writing(u)' /\ ~HasErased(u)'
    <3>1. \A u \in Threads \ {t} : ~Writing(u) /\ ~HasErased(u)
      BY <1>2, <2>1 DEF Unwritten, Writing, IInv, Locals, Local
    <3> QED
      BY <1>7, <3>1 DEF Others, Left, Writing, HasErased, First
  <2>4. Stored(seen)' \in {Stored(seen), Stored(docs)'}
    BY <1>7 DEF Stored
  <2>5. docs' \in [Docs -> Versions \cup {Absent}]
    BY <1>1, <1>7 DEF TypeOK, ThreadRecords
  <2> QED
    BY <1>7, <2>1, <2>2, <2>3, <2>4, <2>5 DEF OnePlace, AtMostOne, Unwritten
<1>8. CASE InsertAnswered(t)
  <2>1. Writing(t) /\ th[t].tries + 1 \in Docs
    BY <1>1, <1>2, <1>8, RetriesAssumption
    DEF InsertAnswered, Writing, Docs, ThreadRecords
  <2>2. /\ obj' \in [Objects -> ObjectRecords]
        /\ obj'[th[t].at].monitor = obj[th[t].at].monitor
        /\ \A o \in Objects : obj'[o].hasId = obj[o].hasId
        /\ \A o \in Objects \ {th[t].at} : obj'[o] = obj[o]
    <3>1. obj' = [obj EXCEPT ![th[t].at] = [obj[th[t].at] EXCEPT !.indexId = th[t].tries + 1]]
      BY <1>1, <1>2, <1>8 DEF InsertAnswered, TypeOK
    <3>2. obj[th[t].at] \in ObjectRecords
      BY <1>1, <1>2 DEF TypeOK
    <3> QED
      BY <1>1, <1>2, <2>1, <3>1, <3>2 DEF TypeOK, ObjectRecords
  <2>3. Others(t) /\ th' \in [Threads -> ThreadRecords]
    <3> DEFINE r == [th[t] EXCEPT !.pc = "cache", !.result = th[t].tries = 0,
                                  !.wrote = TRUE]
    <3>1. th' = [th EXCEPT ![t] = r]
      BY <1>1, <1>8 DEF InsertAnswered, TypeOK
    <3>2. r \in ThreadRecords
      <4>1. CASE th[t].tries = 0
        BY <1>1, <4>1 DEF ThreadRecords, PCs, Resting
      <4>2. CASE th[t].tries # 0
        BY <1>1, <4>2 DEF ThreadRecords, PCs, Resting
      <4> QED
        BY <4>1, <4>2
    <3> HIDE DEF r
    <3>3. th' \in [Threads -> ThreadRecords] /\ \A u \in Threads \ {t} : th'[u] = th[u]
      BY <1>1, <3>1, <3>2 DEF TypeOK
    <3> QED
      BY <1>1, <1>2, <2>2, <3>3 DEF Others, Left, TypeOK, ThreadRecords
  <2>4. ~Writing(t)' /\ ~HasErased(t)'
    BY <1>1, <1>2, <1>8
    DEF InsertAnswered, Writing, HasErased, First, TypeOK, ThreadRecords
  <2>5. OnePlace' /\ docs' \in [Docs -> Versions \cup {Absent}]
    BY <1>7, <1>8, <2>1, <2>3, <2>4 DEF InsertAnswered
  <2>6. TypeOK'
    BY <1>1, <1>8, <2>2, <2>3, <2>5 DEF InsertAnswered, TypeOK
  <2>7. Local(t)' /\ Held(t)' /\ HasName(t)' /\ CacheNamed' /\ version' # 0
    BY <1>1, <1>2, <1>8, <2>2, NoObjectAssumption
    DEF InsertAnswered, Local, Held, HasName, First, CacheNamed, TypeOK,
        ThreadRecords, Busy, PCs, Resting, Answered, MyObject
  <2> QED
    BY <1>2, <2>3, <2>5, <2>6, <2>7, StepInv
<1>9. CASE InsertThrown(t)
  <2>1. Writing(t) /\ th[t].tries + 1 \in Docs
    BY <1>1, <1>2, <1>9, RetriesAssumption
    DEF InsertThrown, Writing, Docs, ThreadRecords
  <2>2. PICK n \in 0..OfflineRetries, label \in {"cache", "insert"} :
           /\ th' = [th EXCEPT ![t].pc = label, ![t].tries = n]
           /\ label = "insert" => n # 0
    <3>1. CASE Goto(t, "cache")
      <4>1. th' = [th EXCEPT ![t].pc = "cache", ![t].tries = th[t].tries]
        BY <1>1, <3>1 DEF Goto, TypeOK, ThreadRecords
      <4>2. th[t].tries \in 0..OfflineRetries
        BY <1>1 DEF ThreadRecords
      <4> QED
        BY <4>1, <4>2
    <3>2. CASE /\ RetriesLeft(th[t].tries)
               /\ th' = [th EXCEPT ![t].pc = "insert", ![t].tries = @ + 1]
      <4>1. th' = [th EXCEPT ![t].pc = "insert", ![t].tries = th[t].tries + 1]
        BY <1>1, <3>2 DEF TypeOK, ThreadRecords
      <4>2. th[t].tries + 1 \in 0..OfflineRetries /\ th[t].tries + 1 # 0
        BY <1>1, <3>2, RetriesAssumption DEF RetriesLeft, ThreadRecords
      <4> QED
        BY <4>1, <4>2
    <3> QED
      BY <1>9, <3>1, <3>2 DEF InsertThrown
  <2>3. Others(t) /\ th' \in [Threads -> ThreadRecords]
    BY <1>1, <1>9, <2>2
    DEF InsertThrown, Others, Left, TypeOK, ThreadRecords, PCs, Resting
  <2>4. ~Writing(t)' /\ ~HasErased(t)'
    BY <1>1, <1>2, <2>2
    DEF Writing, HasErased, First, TypeOK, ThreadRecords
  <2>5. OnePlace' /\ docs' \in [Docs -> Versions \cup {Absent}]
    <3>1. CASE docs' = docs
      BY <1>1, <1>9, <2>3, <2>4, <3>1, Quiet DEF InsertThrown, TypeOK
    <3>2. CASE docs' = [docs EXCEPT ![th[t].tries + 1] = th[t].value]
      BY <1>7, <1>9, <2>1, <2>3, <2>4, <3>2 DEF InsertThrown
    <3> QED
      BY <1>9, <3>1, <3>2 DEF InsertThrown
  <2>6. TypeOK'
    BY <1>1, <1>9, <2>3, <2>5 DEF InsertThrown, TypeOK
  <2>7. Local(t)'
    BY <1>1, <1>2, <1>9, <2>2
    DEF InsertThrown, Local, TypeOK, ThreadRecords, Busy, PCs, Resting, Answered
  <2>8. Held(t)' /\ HasName(t)' /\ CacheNamed' /\ version' # 0
    BY <1>1, <1>2, <1>9, <2>2, NoObjectAssumption
    DEF InsertThrown, Held, HasName, First, CacheNamed, TypeOK, Busy, PCs,
        Resting, MyObject, ThreadRecords
  <2> QED
    BY <1>2, <2>3, <2>5, <2>6, <2>7, <2>8, StepInv
<1> QED
  BY <1>3, <1>4, <1>5, <1>6, <1>8, <1>9

\* delete(), EsActionDelete and the index ID.
LEMMA DeleteInv ==
    ASSUME IInv, NEW t \in Threads,
           \/ AlreadyDeleted(t) \/ EnterDelete(t) \/ Lookup(t) \/ PutLookedUp(t)
           \/ EraseAnswered(t) \/ EraseThrown(t) \/ Erased(t) \/ EndDelete(t)
    PROVE  IInv'
<1>1. /\ TypeOK /\ th[t] \in ThreadRecords /\ Free \in ThreadRecords
      /\ Spare \in Objects /\ \A u \in Threads : th[u].at # Spare
      /\ Local(t) /\ Held(t) /\ HasName(t) /\ CacheNamed
      /\ ObjectRecords' = ObjectRecords /\ ThreadRecords' = ThreadRecords
      /\ Versions' = Versions /\ Docs' = Docs
  BY Facts
<1>2. /\ th[t].at \in Objects /\ version # 0 /\ obj[th[t].at] \in ObjectRecords
      /\ th[t].pc \in Busy =>
           \A u \in Threads \ {t} : th[u].pc \in Busy => th[u].at # th[t].at
  <2>1. th[t].pc \notin {"idle", "found"}
    BY DEF AlreadyDeleted, EnterDelete, Lookup, PutLookedUp, EraseAnswered,
           EraseThrown, Erased, EndDelete
  <2>2. th[t].at \in Objects
    BY <1>1, <2>1 DEF Local, ThreadRecords
  <2> QED
    BY <1>1, <2>1, <2>2, Facts DEF TypeOK
<1>3. CASE AlreadyDeleted(t)
  <2>1. TypeOK' /\ Others(t)
    BY <1>1, <1>3
    DEF AlreadyDeleted, Goto, Others, Left, TypeOK, ThreadRecords, PCs, Resting
  <2>2. OnePlace' /\ (Unwritten => Unwritten')
    BY <1>1, <1>3, <2>1, Quiet
    DEF AlreadyDeleted, Goto, Writing, HasErased, First, TypeOK, Local, Busy, PCs, Resting
  <2>3. Local(t)' /\ Held(t)' /\ HasName(t)' /\ CacheNamed' /\ version' # 0
    BY <1>1, <1>2, <1>3, <2>2
    DEF AlreadyDeleted, Goto, Local, Held, HasName, First, CacheNamed, TypeOK,
        ThreadRecords, Busy, PCs, Resting, Answered, MyObject
  <2> QED
    BY <2>1, <2>2, <2>3, StepInv
<1>4. CASE EnterDelete(t)
  <2>1. /\ Touched(t) \in [Objects -> ObjectRecords]
        /\ Touched(t)[th[t].at].monitor = t
        /\ Touched(t)[th[t].at].hasId = obj[th[t].at].hasId
        /\ \A o \in Objects \ {th[t].at} : Touched(t)[o] = obj[o]
    <3> DEFINE r == [obj[th[t].at] EXCEPT !.monitor = t, !.dirty = TRUE]
    <3>1. Touched(t) = [obj EXCEPT ![th[t].at] = r]
      BY <1>1, <1>2 DEF Touched, TypeOK
    <3>2. r \in ObjectRecords /\ r.monitor = t /\ r.hasId = obj[th[t].at].hasId
      BY <1>2 DEF ObjectRecords
    <3> HIDE DEF r
    <3> QED
      BY <1>1, <1>2, <3>1, <3>2 DEF TypeOK
  <2>2. /\ th' \in [Threads -> ThreadRecords]
        /\ th'[t].pc = "lookup" /\ th'[t].kind = "delete" /\ th'[t].at = th[t].at
        /\ th'[t].tries = th[t].tries /\ th'[t].result = th[t].result
        /\ \A u \in Threads \ {t} : th'[u] = th[u]
    BY <1>1, <1>4 DEF EnterDelete, TypeOK, ThreadRecords, PCs, Resting
  <2>3. /\ obj' = Collected(Touched(t)) /\ cache' \in {NoObject, cache}
        /\ th[t].pc = "delete" /\ obj[th[t].at].monitor = NoThread
        /\ UNCHANGED <<docs, seen, holder, version, gone>>
    BY <1>4 DEF EnterDelete, MonitorFree, MyObject
  <2>4. Left(t, Touched(t))
    <3>1. \A u \in Threads \ {t} : th[u].pc \in Busy => th[u].at # th[t].at
      BY <2>3, NoThreadAssumption DEF IInv, Monitors, Held, MyObject
    <3>2. \A u \in Threads : th[u].at \in Objects \cup {NoObject}
      BY <1>1 DEF TypeOK, ThreadRecords
    <3> QED
      BY <2>1, <2>2, <3>1, <3>2 DEF Left
  <2>5. /\ Others(t) /\ obj' \in [Objects -> ObjectRecords]
        /\ obj'[th[t].at] = Touched(t)[th[t].at]
        /\ cache' \in Objects => obj'[cache'] = Touched(t)[cache']
    BY <1>1, <1>2, <2>1, <2>2, <2>3, <2>4, Reachable
  <2>6. TypeOK'
    BY <1>1, <2>2, <2>3, <2>5 DEF TypeOK
  <2>7. OnePlace' /\ (Unwritten => Unwritten')
    BY <2>2, <2>3, <2>5, Quiet DEF Writing, HasErased, First
  <2>8. Local(t)' /\ Held(t)' /\ HasName(t)'
    BY <1>1, <1>2, <2>1, <2>2, <2>3, <2>5, <2>7, NoObjectAssumption
    DEF Local, Held, HasName, First, Busy, PCs, Resting, Answered, MyObject
  <2>9. CacheNamed' /\ version' # 0
    <3>1. cache' # NoObject => cache' \in Objects /\ obj[cache'].hasId
      BY <1>1, <2>3 DEF TypeOK, CacheNamed
    <3> QED
      BY <1>2, <2>1, <2>3, <2>5, <3>1 DEF CacheNamed
  <2> QED
    BY <2>5, <2>6, <2>7, <2>8, <2>9, StepInv
<1>5. th[t].pc \in Busy => th[t].kind \in {"update", "insert", "delete"}
  BY <1>1 DEF Local, ThreadRecords
<1>6. CASE Lookup(t)
  <2>1. th[t].pc = "lookup" /\ th[t].pc \in Busy
        /\ UNCHANGED <<docs, seen, cache, holder, obj, version, gone>>
    BY <1>6 DEF Lookup, Busy, PCs, Resting
  <2>2. ASSUME NEW label \in {AfterLookup(t), AfterFailure(t)}, Goto(t, label),
               label = AfterLookup(t) => MyObject(t).indexId # NoDoc
        PROVE  IInv'
    <3>1. /\ th[t].kind = "update" => label \in {"serialise", "unlock"}
          /\ th[t].kind = "insert" => label \in {"erase", "cache"}
          /\ th[t].kind = "delete" => label \in {"erase", "deleted"}
          /\ label = "erase" => MyObject(t).indexId \in Docs
      BY <1>2, <1>5, <2>1, <2>2 DEF AfterLookup, AfterFailure, MyObject, ObjectRecords
    <3>2. TypeOK' /\ Others(t)
      BY <1>1, <1>5, <2>1, <2>2, <3>1
      DEF Goto, Others, Left, TypeOK, ThreadRecords, PCs, Resting
    <3>3. OnePlace' /\ (Unwritten => Unwritten')
      BY <1>1, <1>5, <2>1, <2>2, <3>1, <3>2, Quiet
      DEF Goto, Writing, HasErased, First, TypeOK, ThreadRecords, Local
    <3>4. Local(t)' /\ Held(t)' /\ HasName(t)' /\ CacheNamed' /\ version' # 0
      BY <1>1, <1>2, <1>5, <2>1, <2>2, <3>1, <3>3
      DEF Goto, Local, Held, HasName, First, CacheNamed, TypeOK,
          ThreadRecords, Busy, PCs, Resting, Answered, MyObject
    <3> QED
      BY <3>2, <3>3, <3>4, StepInv
  <2>3. ASSUME ReadInto(t, "lookedUp")
        PROVE  IInv'
    <3>1. PICK d \in Found : th' = [th EXCEPT ![t].pc = "lookedUp", ![t].doc = d,
                                              ![t].value = seen[d]]
      BY <2>3 DEF ReadInto
    <3>2. d \in Docs
      BY <3>1 DEF Found, Stored
    <3>3. TypeOK' /\ Others(t)
      BY <1>1, <2>1, <3>1, <3>2
      DEF Others, Left, TypeOK, ThreadRecords, PCs, Resting
    <3>4. OnePlace' /\ (Unwritten => Unwritten')
      BY <1>1, <2>1, <3>1, <3>3, Quiet
      DEF Writing, HasErased, First, TypeOK, ThreadRecords
    <3>5. Local(t)' /\ Held(t)' /\ HasName(t)' /\ CacheNamed' /\ version' # 0
      BY <1>1, <1>2, <2>1, <3>1, <3>2, <3>4
      DEF Local, Held, HasName, First, CacheNamed, TypeOK,
          ThreadRecords, Busy, PCs, Resting, Answered, MyObject
    <3> QED
      BY <3>3, <3>4, <3>5, StepInv
  <2>4. AfterLookup(t) # AfterFailure(t)
    BY <1>5, <2>1 DEF AfterLookup, AfterFailure
  <2> QED
    BY <1>6, <2>2, <2>3, <2>4 DEF Lookup
<1>7. CASE PutLookedUp(t)
  <2>1. /\ CacheNow(t, Spare, AfterLookup(t), Identified(t)) /\ th[t].pc = "lookedUp"
        /\ UNCHANGED <<docs, seen, holder, version, gone>>
    BY <1>7 DEF PutLookedUp
  <2>2. /\ AfterLookup(t) \in {"serialise", "erase"}
        /\ AfterLookup(t) = "serialise" <=> th[t].kind = "update"
    BY DEF AfterLookup
  <2>3. /\ Identified(t) \in [Objects -> ObjectRecords]
        /\ Identified(t)[Spare].hasId /\ Identified(t)[th[t].at].indexId \in Docs
        /\ \A u \in Threads : th[u].at # NoObject =>
             /\ Identified(t)[th[u].at].hasId = obj[th[u].at].hasId
             /\ Identified(t)[th[u].at].monitor = obj[th[u].at].monitor
             /\ th[u].at # th[t].at =>
                  Identified(t)[th[u].at].indexId = obj[th[u].at].indexId
    BY <1>1, <1>2, <2>1, Identifying DEF Local, Answered
  <2> QED
    BY <1>1, <2>1, <2>2, <2>3, CacheNowInv
<1>8. CASE EraseAnswered(t)
  <2> DEFINE i == MyObject(t).indexId
  <2>1. /\ i \in Docs /\ th[t].pc = "erase" /\ th[t].pc \in Busy
        /\ th[t].kind \in {"insert", "delete"} /\ ~th[t].result
    BY <1>1, <1>5, <1>8 DEF EraseAnswered, Held, Local, Busy, PCs, Resting
  <2>2. /\ docs' = [docs EXCEPT ![i] = Absent] /\ seen' = docs' /\ gone' = gone
        /\ Goto(t, IF docs[i] # Absent THEN "erased" ELSE AfterFailure(t))
        /\ UNCHANGED <<cache, holder, obj, version>>
    BY <1>8 DEF EraseAnswered
  <2> HIDE DEF i
  <2>3. PICK label \in {"erased", "cache", "deleted"} :
           /\ th' = [th EXCEPT ![t].pc = label]
           /\ label = "erased" <=> docs[i] # Absent
           /\ label = "cache" => th[t].kind = "insert"
           /\ label = "deleted" => th[t].kind = "delete"
    <3>1. CASE docs[i] # Absent
      BY <2>2, <3>1 DEF Goto
    <3>2. CASE docs[i] = Absent
      BY <2>1, <2>2, <3>2 DEF Goto, AfterFailure
    <3> QED
      BY <3>1, <3>2
  <2>4. th' \in [Threads -> ThreadRecords] /\ Others(t)
    BY <1>1, <2>2, <2>3 DEF Others, Left, TypeOK, ThreadRecords, PCs, Resting
  <2>5. docs' \in [Docs -> Versions \cup {Absent}]
    BY <1>1, <2>2 DEF TypeOK
  <2>6. TypeOK'
    BY <1>1, <2>2, <2>4, <2>5 DEF TypeOK
  <2>7. /\ th'[t].pc = label /\ th'[t].kind = th[t].kind /\ th'[t].at = th[t].at
        /\ th'[t].tries = th[t].tries /\ th'[t].result = th[t].result
    BY <1>1, <2>3 DEF TypeOK, ThreadRecords
  <2>8. OnePlace' /\ (Unwritten => Unwritten')
    <3>1. CASE label # "erased"
      <4>1. docs' = docs
        BY <1>1, <2>1, <2>2, <2>3, <3>1 DEF TypeOK
      <4>2. ~Writing(t)' /\ ~HasErased(t)'
        BY <2>1, <2>3, <2>7, <3>1 DEF Writing, HasErased, First
      <4> QED
        BY <2>2, <2>4, <4>1, <4>2, Quiet
    <3>2. CASE label = "erased"
      <4>1. i \in Stored(docs)
        BY <2>1, <2>3, <3>2 DEF Stored
      <4>2. ~Unwritten /\ ~gone /\ \A u \in Threads : ~Writing(u) /\ ~HasErased(u)
        BY <4>1 DEF IInv, OnePlace, Unwritten
      <4>3. Stored(docs)' = {} /\ Stored(seen)' = {}
        <5>1. \A d \in Stored(docs) : d = i
          BY <4>1 DEF IInv, OnePlace, AtMostOne
        <5>2. Stored(docs)' = {}
          BY <1>1, <2>2, <5>1 DEF Stored, TypeOK
        <5> QED
          BY <2>2, <5>2 DEF Stored
      <4>4. \A u \in Threads \ {t} : ~Writing(u)' /\ ~HasErased(u)'
        BY <2>4, <4>2 DEF Others, Left, Writing, HasErased, First
      <4>5. Writing(t)' => Unwritten'
        <5>1. Writing(t)' => ~HasErased(t)'
          BY DEF Writing, HasErased
        <5> QED
          BY <2>2, <4>2, <4>3, <4>4, <5>1 DEF Unwritten
      <4> QED
        BY <2>2, <4>2, <4>3, <4>4, <4>5 DEF OnePlace, AtMostOne
    <3> QED
      BY <3>1, <3>2
  <2>9. Local(t)' /\ Held(t)' /\ HasName(t)' /\ CacheNamed' /\ version' # 0
    BY <1>1, <1>2, <2>1, <2>2, <2>3, <2>7, <2>8, NoObjectAssumption
    DEF Local, Held, HasName, First, CacheNamed, Busy, PCs, Resting, Answered, MyObject
  <2> QED
    BY <2>4, <2>6, <2>8, <2>9, StepInv
<1>9. CASE EraseThrown(t)
  <2> DEFINE i == MyObject(t).indexId
  <2>1. /\ i \in Docs /\ th[t].pc = "erase" /\ th[t].pc \in Busy
        /\ th[t].kind \in {"insert", "delete"} /\ ~th[t].result
    BY <1>1, <1>5, <1>9 DEF EraseThrown, Held, Local, Busy, PCs, Resting
  <2>2. /\ docs' \in {docs, [docs EXCEPT ![i] = Absent]}
        /\ UNCHANGED <<seen, cache, holder, obj, version, gone>>
    BY <1>9 DEF EraseThrown
  <2> HIDE DEF i
  <2>3. PICK n \in 0..OfflineRetries, label \in {"erase", "cache", "deleted"} :
           /\ th' = [th EXCEPT ![t].pc = label, ![t].again = n]
           /\ label = "cache" => th[t].kind = "insert"
           /\ label = "deleted" => th[t].kind = "delete"
    <3>1. CASE Goto(t, AfterFailure(t))
      <4>1. th[t].again \in 0..OfflineRetries
        BY <1>1 DEF ThreadRecords
      <4>2. AfterFailure(t) = IF th[t].kind = "insert" THEN "cache" ELSE "deleted"
        BY <2>1 DEF AfterFailure
      <4>3. \A label : th' = [th EXCEPT ![t].pc = label]
                => th' = [th EXCEPT ![t].pc = label, ![t].again = th[t].again]
        BY <1>1 DEF TypeOK, ThreadRecords
      <4> QED
        BY <2>1, <3>1, <4>1, <4>2, <4>3 DEF Goto
    <3>2. CASE RetriesLeft(th[t].again) /\ th' = [th EXCEPT ![t].again = @ + 1]
      <4>1. th[t].again + 1 \in 0..OfflineRetries
        BY <1>1, <3>2, RetriesAssumption DEF RetriesLeft, ThreadRecords
      <4>2. th' = [th EXCEPT ![t].pc = "erase", ![t].again = th[t].again + 1]
        BY <1>1, <2>1, <3>2 DEF TypeOK, ThreadRecords
      <4> QED
        BY <4>1, <4>2
    <3> QED
      BY <1>9, <3>1, <3>2 DEF EraseThrown
  <2>4. th' \in [Threads -> ThreadRecords] /\ Others(t)
    <3>1. th' = [th EXCEPT ![t] = [th[t] EXCEPT !.pc = label, !.again = n]]
      BY <1>1, <2>3 DEF TypeOK
    <3>2. [th[t] EXCEPT !.pc = label, !.again = n] \in ThreadRecords
      BY <1>1 DEF ThreadRecords, PCs, Resting
    <3>3. th' \in [Threads -> ThreadRecords] /\ \A u \in Threads \ {t} : th'[u] = th[u]
      BY <1>1, <3>1, <3>2 DEF TypeOK
    <3> QED
      BY <2>2, <3>3 DEF Others, Left
  <2>5. docs' \in [Docs -> Versions \cup {Absent}]
    BY <1>1, <2>2 DEF TypeOK
  <2>6. TypeOK'
    BY <1>1, <2>2, <2>4, <2>5 DEF TypeOK
  <2>7. /\ th'[t].pc = label /\ th'[t].kind = th[t].kind /\ th'[t].at = th[t].at
        /\ th'[t].tries = th[t].tries /\ th'[t].result = th[t].result
    BY <1>1, <2>3 DEF TypeOK, ThreadRecords
  <2>8. OnePlace' /\ (Unwritten => Unwritten')
    <3>1. \A u \in Threads : /\ Writing(u)' => Writing(u)
                             /\ HasErased(u)' => HasErased(u)
      BY <2>1, <2>4, <2>7 DEF Others, Left, Writing, HasErased, First
    <3>2. Stored(docs)' \subseteq Stored(docs) /\ Stored(seen)' = Stored(seen)
      BY <1>1, <2>1, <2>2 DEF Stored, TypeOK
    <3>3. Unwritten => Unwritten'
      BY <2>2, <3>1, <3>2 DEF Unwritten
    <3> QED
      BY <2>2, <3>1, <3>2, <3>3 DEF IInv, OnePlace, AtMostOne
  <2>9. Local(t)' /\ Held(t)' /\ HasName(t)' /\ CacheNamed' /\ version' # 0
    BY <1>1, <1>2, <2>1, <2>2, <2>3, <2>7, <2>8, NoObjectAssumption
    DEF Local, Held, HasName, First, CacheNamed, Busy, PCs, Resting, Answered, MyObject
  <2> QED
    BY <2>4, <2>6, <2>8, <2>9, StepInv
<1>10. CASE Erased(t)
  <2> DEFINE objects == IF th[t].kind = "insert"
                          THEN [obj EXCEPT ![th[t].at].indexId = NoDoc] ELSE obj
  <2>1. /\ th[t].pc = "erased" /\ th[t].pc \in Busy
        /\ th[t].kind \in {"insert", "delete"} /\ ~th[t].result
        /\ cache' = NoObject /\ obj' = Collected(objects)
        /\ UNCHANGED <<docs, seen, holder, version, gone>>
    BY <1>1, <1>5, <1>10 DEF Erased, Local, Busy, PCs, Resting
  <2>2. /\ objects \in [Objects -> ObjectRecords]
        /\ objects[th[t].at].hasId = obj[th[t].at].hasId
        /\ objects[th[t].at].monitor = obj[th[t].at].monitor
        /\ \A o \in Objects \ {th[t].at} : objects[o] = obj[o]
    <3> DEFINE r == [obj[th[t].at] EXCEPT !.indexId = NoDoc]
    <3>1. objects = IF th[t].kind = "insert" THEN [obj EXCEPT ![th[t].at] = r] ELSE obj
      BY <1>1, <1>2 DEF TypeOK
    <3>2. /\ r \in ObjectRecords
          /\ r.hasId = obj[th[t].at].hasId /\ r.monitor = obj[th[t].at].monitor
      BY <1>2 DEF ObjectRecords
    <3> HIDE DEF r, objects
    <3> QED
      BY <1>1, <1>2, <3>1, <3>2 DEF TypeOK
  <2> HIDE DEF objects
  <2>3. /\ th' \in [Threads -> ThreadRecords]
        /\ th'[t].at = th[t].at /\ th'[t].kind = th[t].kind /\ th'[t].tries = th[t].tries
        /\ th[t].kind = "insert" => th'[t].pc = "serialise" /\ ~th'[t].result
        /\ th[t].kind = "delete" => th'[t].pc = "deleted" /\ th'[t].result
        /\ \A u \in Threads \ {t} : th'[u] = th[u]
    <3>1. CASE th[t].kind = "insert"
      <4>1. th' = [th EXCEPT ![t] = [th[t] EXCEPT !.pc = "serialise", !.again = 0]]
        BY <1>1, <1>10, <3>1 DEF Erased, TypeOK
      <4>2. [th[t] EXCEPT !.pc = "serialise", !.again = 0] \in ThreadRecords
        <5>1. 0 \in 0..OfflineRetries
          BY RetriesAssumption
        <5> QED
          BY <1>1, <5>1 DEF ThreadRecords, PCs, Resting
      <4> QED
        BY <1>1, <2>1, <3>1, <4>1, <4>2 DEF TypeOK, ThreadRecords
    <3>2. CASE th[t].kind = "delete"
      <4>1. th' = [th EXCEPT ![t] = [th[t] EXCEPT !.pc = "deleted", !.result = TRUE]]
        BY <1>1, <1>10, <3>2 DEF Erased, TypeOK
      <4>2. [th[t] EXCEPT !.pc = "deleted", !.result = TRUE] \in ThreadRecords
        BY <1>1 DEF ThreadRecords, PCs, Resting
      <4> QED
        BY <1>1, <2>1, <3>2, <4>1, <4>2 DEF TypeOK, ThreadRecords
    <3> QED
      BY <2>1, <3>1, <3>2
  <2>4. Left(t, objects)
    <3>1. \A u \in Threads : th[u].at \in Objects \cup {NoObject}
      BY <1>1 DEF TypeOK, ThreadRecords
    <3> QED
      BY <1>2, <2>1, <2>2, <2>3, <3>1 DEF Left
  <2>5. /\ Others(t) /\ obj' \in [Objects -> ObjectRecords]
        /\ obj'[th[t].at] = objects[th[t].at]
    BY <1>1, <1>2, <2>1, <2>2, <2>3, <2>4, Reachable
  <2>6. TypeOK'
    BY <1>1, <2>1, <2>3, <2>5 DEF TypeOK
  <2>7. OnePlace' /\ (Unwritten => Unwritten')
    <3>1. /\ Writing(t)' => Writing(t)
          /\ HasErased(t)' => HasErased(t)
      BY <2>1, <2>3 DEF Writing, HasErased, First
    <3> QED
      BY <2>1, <2>5, <3>1, Quiet
  <2>8. Local(t)'
    BY <1>1, <2>1, <2>3, <1>2, NoObjectAssumption DEF Local, Busy, PCs, Resting, Answered
  <2>9. Held(t)' /\ HasName(t)' /\ CacheNamed' /\ version' # 0
    BY <1>1, <1>2, <2>1, <2>2, <2>3, <2>5, <2>7, NoObjectAssumption
    DEF Held, HasName, First, CacheNamed, MyObject
  <2> QED
    BY <2>5, <2>6, <2>7, <2>8, <2>9, StepInv
<1>11. CASE EndDelete(t)
  <2> DEFINE r == [obj[th[t].at] EXCEPT !.deleted = th[t].result, !.monitor = NoThread]
  <2>1. /\ th[t].pc = "deleted" /\ th[t].pc \in Busy /\ th[t].kind = "delete"
        /\ th' = [th EXCEPT ![t] = Returned(t)]
        /\ gone' = (gone \/ th[t].result)
        /\ UNCHANGED <<docs, seen, cache, holder, version>>
    BY <1>1, <1>11 DEF EndDelete, Local, Busy, PCs, Resting
  <2>2. /\ obj' \in [Objects -> ObjectRecords]
        /\ \A o \in Objects : obj'[o].hasId = obj[o].hasId
        /\ \A o \in Objects \ {th[t].at} : obj'[o] = obj[o]
    <3>1. obj' = [obj EXCEPT ![th[t].at] = r]
      BY <1>1, <1>2, <1>11 DEF EndDelete, TypeOK
    <3>2. r \in ObjectRecords /\ r.hasId = obj[th[t].at].hasId
      <4>1. th[t].result \in BOOLEAN
        BY <1>1 DEF ThreadRecords
      <4> QED
        BY <1>2, <4>1 DEF ObjectRecords
    <3> HIDE DEF r
    <3> QED
      BY <1>1, <1>2, <3>1, <3>2 DEF TypeOK
  <2> HIDE DEF r
  <2>3. Returned(t) \in ThreadRecords
    BY <1>1, <1>2 DEF Returned, ThreadRecords, PCs, Resting
  <2>4. gone' \in BOOLEAN
    BY <2>1
  <2>5. TypeOK'
    BY <1>1, <2>1, <2>2, <2>3, <2>4 DEF TypeOK
  <2>6. Others(t)
    BY <1>1, <1>2, <2>1, <2>2 DEF Others, Left, TypeOK, ThreadRecords
  <2>7. /\ th'[t].pc = "hold" /\ th'[t].at = th[t].at /\ th'[t].kind = "none"
        /\ th'[t].tries = 0 /\ th'[t].result = FALSE
    <3>1. th'[t] = Returned(t)
      BY <1>1, <2>1 DEF TypeOK
    <3> QED
      BY <3>1 DEF Returned, Free
  <2>8. OnePlace' /\ (Unwritten => Unwritten')
    <3>1. CASE ~th[t].result
      <4>1. gone' = gone
        BY <1>1, <2>1, <3>1 DEF TypeOK
      <4> QED
        BY <2>1, <2>6, <2>7, <4>1, Quiet DEF Writing, HasErased, First
    <3>2. CASE th[t].result
      <4>1. HasErased(t) /\ ~Unwritten /\ Stored(docs) = {}
        BY <2>1, <3>2 DEF HasErased, Unwritten, IInv, OnePlace
      <4>2. \A u \in Threads : ~Writing(u)
        BY <4>1 DEF IInv, OnePlace
      <4>3. \A u \in Threads : ~Writing(u)'
        BY <2>6, <2>7, <4>2 DEF Others, Left, Writing, First
      <4>4. Stored(docs)' = {} /\ Stored(seen)' = Stored(seen)
        BY <2>1, <4>1 DEF Stored
      <4> QED
        BY <4>1, <4>3, <4>4 DEF IInv, OnePlace, AtMostOne
    <3> QED
      BY <3>1, <3>2
  <2>9. Local(t)' /\ Held(t)' /\ HasName(t)' /\ CacheNamed' /\ version' # 0
    BY <1>1, <1>2, <2>1, <2>2, <2>7, <2>8, NoObjectAssumption
    DEF Local, Held, HasName, First, CacheNamed, TypeOK, Busy, PCs, Resting,
        Answered, MyObject
  <2> QED
    BY <2>5, <2>6, <2>8, <2>9, StepInv
<1> QED
  BY <1>3, <1>4, <1>6, <1>7, <1>8, <1>9, <1>10, <1>11

-----------------------------------------------------------------------------
\* The invariant holds in every state.
THEOREM Inductive == Spec => []IInv
<1>1. Init => IInv
  <2> SUFFICES ASSUME Init
               PROVE  IInv
    OBVIOUS
  <2>1. Blank \in ObjectRecords /\ Free \in ThreadRecords
    BY RetriesAssumption
    DEF Blank, ObjectRecords, Free, ThreadRecords, PCs, Resting, NoDoc, Absent
  <2>2. TypeOK
    <3>1. docs \in [Docs -> Versions \cup {Absent}] /\ seen = docs
      BY DEF Init
    <3>2. holder \in [{Vertex} -> Threads \cup {NoThread}]
      BY DEF Init, Lock!Init
    <3>3. version \in 0..MaxVersion
      BY VersionAssumption DEF Init
    <3> QED
      BY <2>1, <3>1, <3>2, <3>3 DEF Init, TypeOK
  <2>3. Stored(docs) = {} /\ Stored(seen) = {}
    BY DEF Init, Stored
  <2>4. \A t \in Threads : /\ th[t].pc = "idle" /\ th[t].at = NoObject
                           /\ th[t].kind = "none" /\ th[t].tries = 0
                           /\ th[t].result = FALSE
    BY DEF Init, Free
  <2>5. Locals /\ Monitors
    BY <2>4 DEF Locals, Local, Monitors, Held, Busy, PCs, Resting, Answered
  <2>6. Unwritten /\ cache = NoObject
    BY <2>3, <2>4 DEF Init, Unwritten, HasErased
  <2>7. Named /\ Unmade
    BY <2>3, <2>4, <2>6 DEF Named, CacheNamed, HasName, Unmade
  <2>8. OnePlace
    BY <2>3, <2>6 DEF OnePlace, AtMostOne
  <2> QED
    BY <2>2, <2>5, <2>7, <2>8 DEF IInv
<1>2. IInv /\ [Next]_vars => IInv'
  <2> SUFFICES ASSUME IInv, [Next]_vars
               PROVE  IInv'
    OBVIOUS
  <2>1. CASE UNCHANGED vars
    BY <2>1, StutterInv
  <2>2. CASE Refresh
    <3>1. /\ seen' = docs
          /\ UNCHANGED <<docs, cache, holder, obj, th, version, gone>>
      BY <2>2 DEF Refresh
    <3>2. Stored(seen)' = Stored(docs) /\ Stored(docs)' = Stored(docs)
      BY <3>1 DEF Stored
    <3>3. TypeOK'
      BY <3>1 DEF IInv, TypeOK, ObjectRecords, ThreadRecords
    <3>4. Unwritten' = Unwritten
      BY <3>1, <3>2 DEF Unwritten, HasErased
    <3>5. OnePlace'
      BY <3>1, <3>2, <3>4 DEF IInv, OnePlace, AtMostOne, Writing, HasErased, First
    <3>6. Unmade'
      BY <3>1, <3>2, <3>4 DEF IInv, Unmade, Unwritten
    <3>7. Locals' /\ Monitors' /\ Named'
      BY <3>1, <3>4 DEF IInv, Locals, Local, Monitors, Held, Named, CacheNamed,
                        HasName, First, MyObject
    <3> QED
      BY <3>3, <3>5, <3>6, <3>7 DEF IInv
  <2>3. ASSUME NEW t \in Threads, Ask(t) \/ Step(t)
        PROVE  IInv'
    BY <2>3, ProgramInv, SaveInv, InsertInv, DeleteInv DEF Step
  <2> QED
    BY <2>1, <2>2, <2>3 DEF Next
<1> QED
  BY <1>1, <1>2, PTL DEF Spec

\* Every variable keeps its type, whatever the threads, objects and retries.
THEOREM Typing == Spec => []TypeOK
<1>1. IInv => TypeOK
  BY DEF IInv
<1> QED
  BY <1>1, Inductive, PTL

\* The vertex has one document at most, however often its insert was retried
\* by EsActionInsert: fixId() makes another one only where it erased the first.
THEOREM OneDocumentOnly == Spec => []OneDocument
<1>1. IInv => OneDocument
  BY DEF IInv, OnePlace, OneDocument
<1> QED
  BY <1>1, Inductive, PTL

\* What a delete() that returned TRUE has erased stays erased: neither the
\* updates of other objects nor a retried insert store the vertex again.
THEOREM NoReturn == Spec => []DeletedForGood
<1>1. IInv => DeletedForGood
  BY DEF IInv, OnePlace, DeletedForGood
<1> QED
  BY <1>1, Inductive, PTL
-----------------------------------------------------------------------------
(***************************************************************************)
(* Why every call returns.  What a thread waits for is held by a thread    *)
(* that can go on: the VertexLock by an update that needs nothing more,    *)
(* and a monitor by a save() or delete() of the same object that waits for *)
(* the VertexLock at most.                                                 *)
(***************************************************************************)
WaitsForMonitor(t) == th[t].pc \in {"mark", "save", "delete"} /\ ~MonitorFree(t)
WaitsForLock(t) == th[t].pc = "lock" /\ holder[Vertex] # NoThread

NoCircle ==
    \A t \in Threads :
        /\ WaitsForMonitor(t) =>
              \E u \in Threads \ {t} : MyObject(t).monitor = u /\ ~WaitsForMonitor(u)
        /\ WaitsForLock(t) =>
              \E u \in Threads \ {t} :
                  holder[Vertex] = u /\ ~WaitsForMonitor(u) /\ ~WaitsForLock(u)

\* Between start() and finished() of the lock.
Updating(t) ==
    /\ th[t].kind = "update"
    /\ th[t].pc \in {"evict", "lookup", "lookedUp", "serialise", "request", "unlock"}

Inside(t, o) == th[t].pc \in Busy /\ th[t].at = o

LockOwned ==
    holder[Vertex] # NoThread => \E t \in Threads : holder[Vertex] = t /\ Updating(t)
MonitorOwned ==
    \A o \in Objects : obj[o].monitor # NoThread =>
        \E t \in Threads : obj[o].monitor = t /\ Inside(t, o)

Owned == LockOwned /\ MonitorOwned

\* A step of a thread changes the locals of no other.
LEMMA OwnLocals ==
    ASSUME TypeOK, NEW t \in Threads, Ask(t) \/ Step(t)
    PROVE  \A u \in Threads \ {t} : th'[u] = th[u]
<1>1. CASE Ask(t)
  BY <1>1 DEF Ask, New, CacheGet, Query, ReadInto, Release, GetData, Call, Goto, TypeOK
<1>2. CASE CachePut(t) \/ Change(t) \/ SetDirty(t) \/ NothingToSave(t) \/ Create(t)
           \/ Update(t) \/ PutBeforeData(t) \/ StartUpdate(t) \/ Evict(t) \/ Serialise(t)
           \/ UpdateAnswered(t) \/ UpdateRejected(t) \/ FinishUpdate(t) \/ AfterUpdate(t)
           \/ EndSave(t)
  BY <1>2 DEF CachePut, Change, SetDirty, NothingToSave, Create, Update, EnterSave,
              PutBeforeData, CacheNow, StartUpdate, Evict, Serialise, UpdateAnswered,
              UpdateRejected, FinishUpdate, AfterUpdate, EndSave, Goto, TypeOK
<1>3. CASE FirstInsert(t) \/ RecallCached(t) \/ Recall(t) \/ PutRecalled(t)
           \/ InsertAnswered(t) \/ InsertThrown(t) \/ AlreadyDeleted(t) \/ EnterDelete(t)
           \/ Lookup(t) \/ PutLookedUp(t) \/ EraseAnswered(t) \/ EraseThrown(t)
           \/ Erased(t) \/ EndDelete(t)
  BY <1>3 DEF FirstInsert, RecallCached, Recall, ReadInto, PutRecalled, CacheNow,
              InsertAnswered, InsertThrown, AlreadyDeleted, EnterDelete, Lookup, PutLookedUp,
              EraseAnswered, EraseThrown, Erased, EndDelete, Goto, TypeOK
<1> QED
  BY <1>1, <1>2, <1>3 DEF Step

\* What a thread that goes elsewhere takes along.
LEMMA Elsewhere ==
    ASSUME TypeOK, NEW t \in Threads
    PROVE  /\ \A label : Goto(t, label) =>
                 th'[t].pc = label /\ th'[t].at = th[t].at /\ th'[t].kind = th[t].kind
           /\ \A label : ReadInto(t, label) =>
                 th'[t].pc = label /\ th'[t].at = th[t].at /\ th'[t].kind = th[t].kind
           /\ \A o, label, objects : CacheNow(t, o, label, objects) =>
                 th'[t].pc = label /\ th'[t].at = th[t].at /\ th'[t].kind = th[t].kind
<1>1. th \in [Threads -> ThreadRecords] /\ th[t] \in ThreadRecords
  BY DEF TypeOK
<1>2. ASSUME NEW label, Goto(t, label)
      PROVE  th'[t].pc = label /\ th'[t].at = th[t].at /\ th'[t].kind = th[t].kind
  BY <1>1, <1>2 DEF Goto, ThreadRecords
<1>3. ASSUME NEW label, NEW d, NEW v,
             th' = [th EXCEPT ![t].pc = label, ![t].doc = d, ![t].value = v]
      PROVE  th'[t].pc = label /\ th'[t].at = th[t].at /\ th'[t].kind = th[t].kind
  BY <1>1, <1>3 DEF ThreadRecords
<1> QED
  BY <1>2, <1>3 DEF ReadInto, CacheNow

\* An update keeps the lock until it gives it up.
LEMMA LockOwnedStep ==
    ASSUME IInv, LockOwned, NEW t \in Threads, Ask(t) \/ Step(t)
    PROVE  LockOwned'
<1>0. /\ TypeOK /\ th[t] \in ThreadRecords /\ Local(t)
      /\ \A u \in Threads \ {t} : th'[u] = th[u]
  BY Facts, OwnLocals
<1>1. CASE StartUpdate(t)
  <2>1. holder' = [holder EXCEPT ![Vertex] = t] /\ th' = [th EXCEPT ![t].pc = "evict"]
        /\ th[t].kind = "update"
    BY <1>0, <1>1 DEF StartUpdate, Lock!Start, Goto, Local
  <2>2. holder'[Vertex] = t /\ Updating(t)'
    BY <1>0, <2>1 DEF TypeOK, ThreadRecords, Updating
  <2> QED
    BY <2>2 DEF LockOwned
<1>2. CASE FinishUpdate(t)
  <2>1. holder'[Vertex] = NoThread
    BY <1>0, <1>2 DEF FinishUpdate, FinishedWith, Lock!Finished, TypeOK
  <2> QED
    BY <2>1 DEF LockOwned
<1>3. CASE ~StartUpdate(t) /\ ~FinishUpdate(t)
  <2>1. holder' = holder
    BY <1>3 DEF Ask, New, CacheGet, Query, Release, GetData, Call,
                Step, CachePut, Change, SetDirty, NothingToSave, Create, Update, EnterSave,
                PutBeforeData, Evict, Serialise, UpdateAnswered,
                UpdateRejected, AfterUpdate, EndSave,
                FirstInsert, RecallCached, Recall, PutRecalled,
                InsertAnswered, InsertThrown, AlreadyDeleted, EnterDelete, Lookup, PutLookedUp,
                EraseAnswered, EraseThrown, Erased, EndDelete
  <2>2. ASSUME Updating(t)
        PROVE  Updating(t)'
    <3>1. /\ th[t].kind = "update"
          /\ th[t].pc \in {"evict", "lookup", "lookedUp", "serialise", "request", "unlock"}
      BY <2>2 DEF Updating
    <3>2. Evict(t) \/ Serialise(t) \/ UpdateAnswered(t) \/ UpdateRejected(t) \/ Lookup(t)
          \/ PutLookedUp(t)
      BY <1>3, <3>1
         DEF Ask, New, CacheGet, Query, Release, GetData, Call,
             Step, CachePut, Change, SetDirty, NothingToSave, Create, Update, EnterSave,
             PutBeforeData, AfterUpdate, EndSave, FirstInsert, RecallCached, Recall,
             PutRecalled, InsertAnswered, InsertThrown, AlreadyDeleted, EnterDelete,
             EraseAnswered, EraseThrown, Erased, EndDelete
    <3>3. AfterLookup(t) = "serialise" /\ AfterFailure(t) = "unlock"
      BY <3>1 DEF AfterLookup, AfterFailure
    <3>4. th'[t].kind = th[t].kind
          /\ th'[t].pc \in {"lookup", "lookedUp", "serialise", "request", "unlock"}
      <4>1. CASE Evict(t) \/ Lookup(t) \/ PutLookedUp(t) \/ UpdateRejected(t)
        BY <1>0, <3>3, <4>1, Elsewhere DEF Evict, Lookup, PutLookedUp, UpdateRejected
      <4>2. CASE Serialise(t) \/ UpdateAnswered(t)
        BY <1>0, <4>2 DEF Serialise, UpdateAnswered, TypeOK, ThreadRecords
      <4> QED
        BY <3>2, <4>1, <4>2
    <3> QED
      BY <3>1, <3>4 DEF Updating
  <2>3. \A u \in Threads : Updating(u) => Updating(u)'
    BY <1>0, <2>2 DEF Updating
  <2> QED
    BY <2>1, <2>3 DEF LockOwned
<1> QED
  BY <1>1, <1>2, <1>3

\* No monitor is taken in these objects that was not taken before.
NoNewOwner(objects) ==
    \A o \in Objects : objects[o].monitor \in {obj[o].monitor, NoThread}

LEMMA CollectedOwners ==
    ASSUME NEW objects, NoNewOwner(objects), obj' = Collected(objects)
    PROVE  NoNewOwner(obj')
BY DEF NoNewOwner, Collected, Blank

\* The steps that neither take nor give up a monitor.
LEMMA OwnersStay ==
    ASSUME IInv, NEW t \in Threads, Ask(t) \/ Step(t),
           ~Create(t), ~Update(t), ~EnterDelete(t), ~EndSave(t), ~EndDelete(t)
    PROVE  /\ NoNewOwner(obj')
           /\ th[t].pc \in Busy => th'[t].pc \in Busy /\ th'[t].at = th[t].at
<1>0. /\ TypeOK /\ th[t] \in ThreadRecords /\ Local(t) /\ Spare \in Objects
      /\ \A u \in Threads : th[u].at # Spare
      /\ th[t].pc \in Busy => th[t].at \in Objects
  BY Facts
<1>1. CASE New(t) \/ CacheGet(t) \/ Query(t) \/ GetData(t) \/ Call(t, "save")
           \/ Call(t, "delete") \/ Change(t) \/ SetDirty(t)
  <2>1. th[t].pc \notin Busy
    BY <1>1 DEF New, CacheGet, Query, GetData, Call, Change, SetDirty, Busy, Resting
  <2>2. NoNewOwner(obj')
    <3>1. CASE New(t)
      <4>1. obj' = [obj EXCEPT ![Spare] = [Blank EXCEPT !.value = 1, !.dirty = TRUE]]
        BY <3>1 DEF New
      <4> QED
        BY <1>0, <4>1 DEF NoNewOwner, TypeOK, Blank
    <3>2. CASE CacheGet(t) \/ Query(t) \/ GetData(t) \/ Call(t, "save") \/ Call(t, "delete")
      BY <3>2 DEF CacheGet, Query, GetData, Call, NoNewOwner
    <3>3. CASE Change(t)
      <4>1. obj' = [obj EXCEPT ![th[t].at].value = version']
        BY <3>3 DEF Change
      <4> QED
        BY <1>0, <4>1 DEF NoNewOwner, TypeOK, ObjectRecords
    <3>4. CASE SetDirty(t)
      <4>1. obj' = [obj EXCEPT ![th[t].at].dirty = TRUE]
        BY <3>4 DEF SetDirty
      <4> QED
        BY <1>0, <4>1 DEF NoNewOwner, TypeOK, ObjectRecords
    <3> QED
      BY <1>1, <3>1, <3>2, <3>3, <3>4
  <2> QED
    BY <2>1, <2>2
<1>2. CASE Release(t) \/ CachePut(t)
  <2>1. th[t].pc \notin Busy
    BY <1>2 DEF Release, CachePut, Busy, Resting
  <2>2. PICK objects \in {obj, [obj EXCEPT ![Spare] = Loaded(t)]} : obj' = Collected(objects)
    BY <1>2 DEF Release, CachePut
  <2>3. NoNewOwner(objects)
    BY <1>0 DEF NoNewOwner, Loaded, Blank, TypeOK
  <2> QED
    BY <2>1, <2>2, <2>3, CollectedOwners
<1>3. CASE NothingToSave(t) \/ StartUpdate(t) \/ Serialise(t) \/ UpdateAnswered(t)
           \/ UpdateRejected(t) \/ FinishUpdate(t) \/ Recall(t) \/ InsertThrown(t)
           \/ AlreadyDeleted(t) \/ Lookup(t) \/ EraseAnswered(t) \/ EraseThrown(t)
  <2>1. obj' = obj
    BY <1>3 DEF NothingToSave, StartUpdate, Serialise, UpdateAnswered, UpdateRejected,
                FinishUpdate, Recall, InsertThrown, AlreadyDeleted, Lookup, EraseAnswered,
                EraseThrown
  <2>2. th[t].pc \in Busy => th'[t].pc \in Busy /\ th'[t].at = th[t].at
    <3>1. th[t].pc \in Busy => AfterFailure(t) \in Busy /\ AfterLookup(t) \in Busy
      BY <1>0 DEF AfterFailure, AfterLookup, Local, ThreadRecords, Busy, Resting, PCs
    <3>2. /\ ~NothingToSave(t) /\ ~AlreadyDeleted(t) => th[t].pc \in Busy
          /\ NothingToSave(t) \/ AlreadyDeleted(t) => th[t].pc \notin Busy
          /\ {"evict", "request", "unlock", "cache", "lookup", "recalled", "lookedUp",
              "insert", "erase", "erased"} \subseteq Busy
      BY <1>3 DEF NothingToSave, StartUpdate, Serialise, UpdateAnswered, UpdateRejected,
                  FinishUpdate, Recall, InsertThrown, AlreadyDeleted, Lookup,
                  EraseAnswered, EraseThrown, Busy, Resting, PCs
    <3>3. CASE StartUpdate(t) \/ UpdateRejected(t) \/ FinishUpdate(t) \/ Recall(t)
               \/ Lookup(t) \/ EraseAnswered(t)
      BY <1>0, <3>1, <3>2, <3>3, Elsewhere
         DEF StartUpdate, UpdateRejected, FinishUpdate, Recall, Lookup, EraseAnswered,
             NothingToSave, AlreadyDeleted
    <3>4. CASE Serialise(t) \/ UpdateAnswered(t) \/ InsertThrown(t) \/ EraseThrown(t)
      <4>1. \/ \E label \in {"cache", AfterFailure(t)} : Goto(t, label)
            \/ th' = [th EXCEPT ![t].pc = "request", ![t].value = Serialised(t)]
            \/ th' = [th EXCEPT ![t].pc = "unlock", ![t].result = TRUE, ![t].wrote = TRUE]
            \/ th' = [th EXCEPT ![t].pc = "insert", ![t].tries = @ + 1]
            \/ th' = [th EXCEPT ![t].again = @ + 1]
        BY <3>4 DEF Serialise, UpdateAnswered, InsertThrown, EraseThrown
      <4> QED
        BY <1>0, <3>1, <3>2, <4>1, Elsewhere DEF TypeOK, ThreadRecords
    <3>5. CASE NothingToSave(t) \/ AlreadyDeleted(t)
      BY <3>2, <3>5
    <3> QED
      BY <1>3, <3>3, <3>4, <3>5
  <2> QED
    BY <2>1, <2>2 DEF NoNewOwner
<1>4. CASE FirstInsert(t) \/ RecallCached(t) \/ InsertAnswered(t)
  <2>1. \/ obj' = [obj EXCEPT ![th[t].at].hasId = TRUE]
        \/ \E d : obj' = [obj EXCEPT ![th[t].at].indexId = d]
    BY <1>4 DEF FirstInsert, RecallCached, InsertAnswered
  <2>2. NoNewOwner(obj')
    <3>1. CASE obj' = [obj EXCEPT ![th[t].at].hasId = TRUE]
      BY <1>0, <3>1 DEF NoNewOwner, TypeOK, ObjectRecords
    <3>2. CASE \E d : obj' = [obj EXCEPT ![th[t].at].indexId = d]
      BY <1>0, <3>2 DEF NoNewOwner, TypeOK, ObjectRecords
    <3> QED
      BY <2>1, <3>1, <3>2
  <2>3. th'[t].pc \in Busy /\ th'[t].at = th[t].at
    BY <1>0, <1>4 DEF FirstInsert, RecallCached, InsertAnswered, Goto, TypeOK, ThreadRecords,
                      Busy, Resting, PCs
  <2> QED
    BY <2>2, <2>3
<1>5. CASE PutBeforeData(t) \/ Evict(t) \/ AfterUpdate(t) \/ PutRecalled(t) \/ PutLookedUp(t)
           \/ Erased(t)
  <2>1. th[t].pc \in Busy
    BY <1>5 DEF PutBeforeData, Evict, AfterUpdate, PutRecalled, PutLookedUp, Erased, Busy,
                Resting, PCs
  <2>2. PICK objects \in {obj, [obj EXCEPT ![Spare] = Loaded(t)], Identified(t),
                          [obj EXCEPT ![th[t].at].indexId = NoDoc]} :
           obj' = Collected(objects)
    BY <1>5 DEF PutBeforeData, Evict, AfterUpdate, PutRecalled, PutLookedUp, Erased, CacheNow
  <2>3. NoNewOwner(objects)
    <3>1. Loaded(t).monitor = NoThread
      BY DEF Loaded, Blank
    <3>2. CASE objects \in {obj, [obj EXCEPT ![Spare] = Loaded(t)]}
      BY <1>0, <3>1, <3>2 DEF NoNewOwner, TypeOK
    <3>3. CASE objects = [obj EXCEPT ![th[t].at].indexId = NoDoc]
      BY <1>0, <3>3 DEF NoNewOwner, TypeOK, ObjectRecords
    <3>4. CASE objects = Identified(t)
      <4> DEFINE loaded == [obj EXCEPT ![Spare] = Loaded(t)]
      <4>1. loaded[Spare].monitor = NoThread
            /\ \A o \in Objects \ {Spare} : loaded[o] = obj[o]
        BY <1>0, <3>1 DEF TypeOK
      <4>2. objects = [loaded EXCEPT ![th[t].at].indexId = th[t].doc]
        BY <3>4 DEF Identified
      <4>3. \A o \in Objects : o # th[t].at => objects[o] = loaded[o]
        BY <1>0, <4>2 DEF TypeOK
      <4>4. objects[th[t].at].monitor = obj[th[t].at].monitor
        BY <1>0, <2>1, <4>1, <4>2 DEF TypeOK, ObjectRecords
      <4> QED
        BY <1>0, <4>1, <4>3, <4>4 DEF NoNewOwner
    <3> QED
      BY <2>2, <3>2, <3>3, <3>4
  <2>4. NoNewOwner(obj')
    BY <2>2, <2>3, CollectedOwners
  <2>5. th'[t].pc \in Busy /\ th'[t].at = th[t].at
    <3>1. AfterLookup(t) \in Busy
      BY DEF AfterLookup, Busy, Resting, PCs
    <3> QED
      BY <1>0, <1>5, <3>1
         DEF PutBeforeData, Evict, AfterUpdate, PutRecalled, PutLookedUp, Erased, CacheNow,
             Goto, TypeOK, ThreadRecords, Busy, Resting, PCs
  <2> QED
    BY <2>4, <2>5
<1> QED
  BY <1>1, <1>2, <1>3, <1>4, <1>5 DEF Ask, Step

LEMMA MonitorOwnedStep ==
    ASSUME IInv, MonitorOwned, NEW t \in Threads, Ask(t) \/ Step(t)
    PROVE  MonitorOwned'
<1>0. /\ TypeOK /\ th[t] \in ThreadRecords
      /\ \A u \in Threads \ {t} : th'[u] = th[u]
      /\ th[t].pc \in Busy => th[t].at \in Objects
      /\ Local(t)
  BY Facts, OwnLocals
<1>1. CASE Create(t) \/ Update(t) \/ EnterDelete(t)
  <2>1. /\ th[t].pc \in {"save", "delete"} /\ th'[t].at = th[t].at
        /\ th'[t].pc \in {"insert", "before", "lock", "lookup"}
    <3>1. CASE EnterDelete(t)
      BY <1>0, <3>1 DEF EnterDelete, TypeOK, ThreadRecords
    <3>2. ASSUME NEW k \in {"insert", "update"}, NEW label \in {"insert", "lock", "before"},
                 EnterSave(t, k, label)
          PROVE  th[t].pc = "save" /\ th'[t].pc = label /\ th'[t].at = th[t].at
      BY <1>0, <3>2 DEF EnterSave, TypeOK, ThreadRecords
    <3> QED
      BY <1>1, <3>1, <3>2 DEF Create, Update
  <2>2. th[t].at \in Objects
    BY <1>0, <2>1 DEF Local, ThreadRecords
  <2>3. \A o \in Objects : Touched(t)[o].monitor = IF o = th[t].at THEN t ELSE obj[o].monitor
    <3>1. obj[th[t].at] \in ObjectRecords
      BY <1>0, <2>2 DEF TypeOK
    <3>2. Touched(t) = [obj EXCEPT ![th[t].at] =
                           [obj[th[t].at] EXCEPT !.monitor = t, !.dirty = TRUE]]
      BY <1>0, <2>2 DEF Touched, TypeOK
    <3>3. [obj[th[t].at] EXCEPT !.monitor = t, !.dirty = TRUE].monitor = t
      BY <3>1 DEF ObjectRecords
    <3> QED
      BY <1>0, <2>2, <3>2, <3>3 DEF TypeOK
  <2>4. \A o \in Objects : obj'[o].monitor \in {Touched(t)[o].monitor, NoThread}
    <3>1. obj' \in {Touched(t), Collected(Touched(t))}
      BY <1>1 DEF Create, Update, EnterSave, EnterDelete
    <3> QED
      BY <3>1 DEF Collected, Blank
  <2>5. ASSUME NEW o \in Objects, obj'[o].monitor # NoThread
        PROVE  \E u \in Threads : obj'[o].monitor = u /\ Inside(u, o)'
    <3>1. CASE o = th[t].at
      <4>1. obj'[o].monitor = t
        BY <2>3, <2>4, <2>5, <3>1
      <4>2. Inside(t, o)'
        BY <2>1, <3>1 DEF Inside, Busy, Resting, PCs
      <4> QED
        BY <4>1, <4>2
    <3>2. CASE o # th[t].at
      <4>1. obj'[o].monitor = obj[o].monitor
        BY <2>3, <2>4, <2>5, <3>2
      <4>2. PICK u \in Threads : obj[o].monitor = u /\ Inside(u, o)
        BY <2>5, <4>1 DEF MonitorOwned
      <4>3. u # t
        BY <3>2, <4>2 DEF Inside
      <4> QED
        BY <1>0, <4>1, <4>2, <4>3 DEF Inside
    <3> QED
      BY <3>1, <3>2
  <2> QED
    BY <2>5 DEF MonitorOwned
<1>2. CASE EndSave(t) \/ EndDelete(t)
  <2>1. th[t].pc \in Busy
    BY <1>2 DEF EndSave, EndDelete, Busy, Resting, PCs
  <2>2. \/ obj' = [obj EXCEPT ![th[t].at].dirty = FALSE, ![th[t].at].monitor = NoThread]
        \/ obj' = [obj EXCEPT ![th[t].at].deleted = th[t].result,
                              ![th[t].at].monitor = NoThread]
    BY <1>2 DEF EndSave, EndDelete
  <2>3. \A o \in Objects : obj'[o].monitor = IF o = th[t].at THEN NoThread ELSE obj[o].monitor
    BY <1>0, <2>1, <2>2 DEF TypeOK, ObjectRecords
  <2>4. ASSUME NEW o \in Objects, obj'[o].monitor # NoThread
        PROVE  \E u \in Threads : obj'[o].monitor = u /\ Inside(u, o)'
    <3>1. o # th[t].at /\ obj'[o].monitor = obj[o].monitor
      BY <2>3, <2>4
    <3>2. PICK u \in Threads : obj[o].monitor = u /\ Inside(u, o)
      BY <2>4, <3>1 DEF MonitorOwned
    <3>3. u # t
      BY <3>1, <3>2 DEF Inside
    <3> QED
      BY <1>0, <3>1, <3>2, <3>3 DEF Inside
  <2> QED
    BY <2>4 DEF MonitorOwned
<1>3. CASE ~(Create(t) \/ Update(t) \/ EnterDelete(t) \/ EndSave(t) \/ EndDelete(t))
  <2>1. /\ NoNewOwner(obj')
        /\ th[t].pc \in Busy => th'[t].pc \in Busy /\ th'[t].at = th[t].at
    BY <1>3, OwnersStay
  <2>2. \A u \in Threads : \A o \in Objects : Inside(u, o) => Inside(u, o)'
    BY <1>0, <2>1 DEF Inside
  <2>3. ASSUME NEW o \in Objects, obj'[o].monitor # NoThread
        PROVE  \E u \in Threads : obj'[o].monitor = u /\ Inside(u, o)'
    <3>1. obj'[o].monitor = obj[o].monitor
      BY <2>1, <2>3 DEF NoNewOwner
    <3> QED
      BY <2>2, <2>3, <3>1 DEF MonitorOwned
  <2> QED
    BY <2>3 DEF MonitorOwned
<1> QED
  BY <1>1, <1>2, <1>3

\* No two threads wait for each other, and no longer circle either: who waits
\* for a monitor waits for a thread that waits for the lock at most, and who
\* waits for the lock for a thread that waits for nothing.
THEOREM NoDeadlock == Spec => []NoCircle
<1>1. Init => Owned
  <2> SUFFICES ASSUME Init
               PROVE  Owned
    OBVIOUS
  <2>1. holder[Vertex] = NoThread
    BY DEF Init, Lock!Init
  <2>2. \A o \in Objects : obj[o].monitor = NoThread
    BY DEF Init, Blank
  <2> QED
    BY <2>1, <2>2 DEF Owned, LockOwned, MonitorOwned
<1>2. IInv /\ Owned /\ [Next]_vars => Owned'
  <2> SUFFICES ASSUME IInv, Owned, [Next]_vars
               PROVE  Owned'
    OBVIOUS
  <2>1. CASE Refresh \/ UNCHANGED vars
    <3>1. UNCHANGED <<th, obj, holder>>
      BY <2>1 DEF Refresh, vars
    <3> QED
      BY <3>1 DEF Owned, LockOwned, MonitorOwned, Updating, Inside
  <2>2. ASSUME NEW t \in Threads, Ask(t) \/ Step(t)
        PROVE  Owned'
    BY <2>2, LockOwnedStep, MonitorOwnedStep DEF Owned
  <2> QED
    BY <2>1, <2>2 DEF Next
<1>3. IInv /\ Owned => NoCircle
  <2> SUFFICES ASSUME IInv, Owned, NEW t \in Threads
               PROVE  /\ WaitsForMonitor(t) =>
                            \E u \in Threads \ {t} :
                                MyObject(t).monitor = u /\ ~WaitsForMonitor(u)
                      /\ WaitsForLock(t) =>
                            \E u \in Threads \ {t} :
                                holder[Vertex] = u /\ ~WaitsForMonitor(u) /\ ~WaitsForLock(u)
    BY DEF NoCircle
  <2>1. \A u \in Threads : th[u].pc \in Busy => ~WaitsForMonitor(u)
    BY DEF WaitsForMonitor, Busy
  <2>2. ASSUME WaitsForMonitor(t)
        PROVE  \E u \in Threads \ {t} : MyObject(t).monitor = u /\ ~WaitsForMonitor(u)
    <3>1. th[t].at \in Objects /\ MyObject(t).monitor # NoThread /\ th[t].pc \notin Busy
      BY <2>2, Facts DEF WaitsForMonitor, MonitorFree, Local, ThreadRecords, Busy
    <3>2. PICK u \in Threads : MyObject(t).monitor = u /\ Inside(u, th[t].at)
      BY <3>1 DEF Owned, MonitorOwned, MyObject
    <3> QED
      BY <2>1, <3>1, <3>2 DEF Inside
  <2>3. ASSUME WaitsForLock(t)
        PROVE  \E u \in Threads \ {t} :
                  holder[Vertex] = u /\ ~WaitsForMonitor(u) /\ ~WaitsForLock(u)
    <3>1. PICK u \in Threads : holder[Vertex] = u /\ Updating(u)
      BY <2>3 DEF WaitsForLock, Owned, LockOwned
    <3> QED
      BY <2>3, <3>1 DEF WaitsForLock, WaitsForMonitor, Updating
  <2> QED
    BY <2>2, <2>3
<1> QED
  BY <1>1, <1>2, <1>3, Inductive, PTL DEF Spec

(***************************************************************************)
(* How much of a call is left: the retries of its request and, in one try, *)
(* the steps to the end of the call.  Every step leaves less of it, and    *)
(* the other threads leave it as it is.                                    *)
(***************************************************************************)
TriesLeft(t) == OfflineRetries - th[t].tries

StepsLeft(t) ==
    LET pc == th[t].pc IN
    CASE pc \in {"clean", "mark", "found"} -> 1
      [] pc \in {"cache", "data"} -> 2
      [] pc \in {"unlock", "deleted", "recalled"} -> 3
      [] pc = "request" -> 4
      [] pc = "serialise" -> 5
      [] pc = "erased" -> 6
      [] pc = "erase" -> 7 + (OfflineRetries - th[t].again)
      [] pc = "lookedUp" -> 8 + OfflineRetries
      [] pc = "lookup" -> 9 + OfflineRetries
      [] pc = "evict" -> 10 + OfflineRetries
      [] pc = "lock" -> 11 + OfflineRetries
      [] pc \in {"before", "insert"} -> 12 + OfflineRetries
      [] pc \in {"save", "delete"} -> 13 + OfflineRetries
      [] OTHER -> 0

CallLeft(t) == <<TriesLeft(t), StepsLeft(t)>>

Less == {ij \in Nat \X Nat : ij[1] < ij[2]}
CallOrder == LexPairOrdering(Less, Less, Nat, Nat)

CallsWindDown ==
    [][\A t \in Threads : th[t].pc \notin Resting =>
         /\ Step(t) => th'[t].pc \in Resting \/ <<CallLeft(t)', CallLeft(t)>> \in CallOrder
         /\ ~Step(t) => th'[t] = th[t]]_vars

\* There is no infinite descent in the order.
LEMMA CallOrderIsWellFounded == IsWellFoundedOn(CallOrder, Nat \X Nat)
<1>1. IsWellFoundedOn(OpToRel(<, Nat), Nat)
  BY NatLessThanWellFounded
<1>2. OpToRel(<, Nat) = Less
  BY DEF OpToRel, Less
<1> QED
  BY <1>1, <1>2, WFLexPairOrdering DEF CallOrder

\* The steps of the code that are not a retry and do not end the call.
Forward ==
    {<<"data", "mark">>, <<"save", "insert">>, <<"save", "lock">>, <<"save", "before">>,
     <<"before", "lock">>, <<"lock", "evict">>, <<"evict", "lookup">>,
     <<"lookup", "serialise">>, <<"lookup", "erase">>, <<"lookup", "lookedUp">>,
     <<"lookup", "unlock">>, <<"lookup", "cache">>, <<"lookup", "deleted">>,
     <<"lookedUp", "serialise">>, <<"lookedUp", "erase">>, <<"serialise", "request">>,
     <<"request", "unlock">>, <<"unlock", "cache">>, <<"cache", "clean">>,
     <<"insert", "serialise">>, <<"insert", "cache">>, <<"insert", "lookup">>,
     <<"insert", "recalled">>, <<"recalled", "cache">>, <<"request", "cache">>,
     <<"delete", "lookup">>, <<"erase", "erased">>, <<"erase", "cache">>,
     <<"erase", "deleted">>, <<"erased", "serialise">>, <<"erased", "deleted">>}

Moves(t) ==
    \/ th'[t].pc \in Resting
    \/ th'[t].tries = th[t].tries + 1
    \/ /\ th'[t].tries = th[t].tries
       /\ \/ <<th[t].pc, th'[t].pc>> \in Forward
          \/ th[t].pc = "erase" /\ th'[t].pc = "erase" /\ th'[t].again = th[t].again + 1

\* A step of the call that sets these locals goes from here to there.
LEMMA GoingOn ==
    ASSUME TypeOK, NEW t \in Threads
    PROVE  /\ \A label : Goto(t, label) => th'[t].pc = label /\ th'[t].tries = th[t].tries
           /\ \A label : ReadInto(t, label) => th'[t].pc = label /\ th'[t].tries = th[t].tries
           /\ \A o, label, objects : CacheNow(t, o, label, objects) =>
                 th'[t].pc = label /\ th'[t].tries = th[t].tries
<1>1. th \in [Threads -> ThreadRecords] /\ th[t] \in ThreadRecords
  BY DEF TypeOK
<1>2. ASSUME NEW label, Goto(t, label)
      PROVE  th'[t].pc = label /\ th'[t].tries = th[t].tries
  BY <1>1, <1>2 DEF Goto, ThreadRecords
<1>3. ASSUME NEW label, NEW d, NEW v,
             th' = [th EXCEPT ![t].pc = label, ![t].doc = d, ![t].value = v]
      PROVE  th'[t].pc = label /\ th'[t].tries = th[t].tries
  BY <1>1, <1>3 DEF ThreadRecords
<1> QED
  BY <1>2, <1>3 DEF ReadInto, CacheNow

LEMMA StepMoves ==
    ASSUME IInv, NEW t \in Threads, Step(t)
    PROVE  Moves(t)
<1>0. TypeOK /\ th[t] \in ThreadRecords /\ Local(t) /\ th \in [Threads -> ThreadRecords]
  BY Facts DEF TypeOK
<1>1. CASE CachePut(t) \/ SetDirty(t) \/ NothingToSave(t) \/ EndSave(t) \/ AlreadyDeleted(t)
           \/ EndDelete(t)
  <2>1. \/ \E r : r.pc = "hold" /\ th' = [th EXCEPT ![t] = r]
        \/ Goto(t, "hold")
    BY <1>1 DEF CachePut, SetDirty, NothingToSave, EndSave, AlreadyDeleted, EndDelete, Returned,
                Free
  <2> QED
    BY <1>0, <2>1, GoingOn DEF Moves, Resting
<1>2. CASE Change(t) \/ PutBeforeData(t) \/ StartUpdate(t) \/ Evict(t) \/ UpdateRejected(t)
           \/ FinishUpdate(t) \/ AfterUpdate(t) \/ FirstInsert(t) \/ RecallCached(t)
           \/ Recall(t) \/ PutRecalled(t)
  <2>1. \E label : /\ \/ Goto(t, label) \/ ReadInto(t, label)
                      \/ \E o, objects : CacheNow(t, o, label, objects)
                   /\ <<th[t].pc, label>> \in Forward \/ label = "hold"
    BY <1>2 DEF Change, PutBeforeData, StartUpdate, Evict, UpdateRejected, FinishUpdate,
                AfterUpdate, FirstInsert, RecallCached, Recall, PutRecalled, Forward
  <2> QED
    BY <1>0, <2>1, GoingOn DEF Moves, Resting
<1>3. CASE Create(t) \/ Update(t)
  <2>1. ASSUME NEW k \in {"insert", "update"}, NEW label \in {"insert", "lock", "before"},
               EnterSave(t, k, label)
        PROVE  th[t].pc = "save" /\ th'[t].pc = label /\ th'[t].tries = th[t].tries
    BY <1>0, <2>1 DEF EnterSave, ThreadRecords
  <2>2. \E label \in {"insert", "lock", "before"} :
           th[t].pc = "save" /\ th'[t].pc = label /\ th'[t].tries = th[t].tries
    BY <1>3, <2>1 DEF Create, Update
  <2> QED
    BY <2>2 DEF Moves, Forward
<1>4. CASE Serialise(t) \/ UpdateAnswered(t) \/ InsertAnswered(t) \/ EnterDelete(t)
  <2>1. \/ /\ th[t].pc = "serialise"
           /\ th' = [th EXCEPT ![t].pc = "request", ![t].value = Serialised(t)]
        \/ /\ th[t].pc = "request"
           /\ th' = [th EXCEPT ![t].pc = "unlock", ![t].result = TRUE, ![t].wrote = TRUE]
        \/ /\ th[t].pc = "request"
           /\ th' = [th EXCEPT ![t].pc = "cache", ![t].result = th[t].tries = 0,
                               ![t].wrote = TRUE]
        \/ /\ th[t].pc = "delete"
           /\ th' = [th EXCEPT ![t].pc = "lookup", ![t].kind = "delete"]
    BY <1>4 DEF Serialise, UpdateAnswered, InsertAnswered, EnterDelete
  <2>2. /\ th'[t].tries = th[t].tries
        /\ <<th[t].pc, th'[t].pc>> \in {<<"serialise", "request">>, <<"request", "unlock">>,
                                       <<"request", "cache">>, <<"delete", "lookup">>}
    BY <1>0, <2>1 DEF ThreadRecords
  <2> QED
    BY <2>2 DEF Moves, Forward
<1>5. CASE InsertThrown(t)
  <2>1. /\ th[t].pc = "request"
        /\ \/ Goto(t, "cache")
           \/ th' = [th EXCEPT ![t].pc = "insert", ![t].tries = @ + 1]
    BY <1>5 DEF InsertThrown
  <2>2. \/ th'[t].tries = th[t].tries + 1
        \/ th'[t].pc = "cache" /\ th'[t].tries = th[t].tries
    BY <1>0, <2>1, GoingOn DEF ThreadRecords
  <2> QED
    BY <2>1, <2>2 DEF Moves, Forward
<1>6. CASE Lookup(t) \/ PutLookedUp(t) \/ EraseAnswered(t)
  <2>1. th[t].kind \in {"update", "insert", "delete"}
    <3>1. th[t].pc \in Busy
      BY <1>6 DEF Lookup, PutLookedUp, EraseAnswered, Busy, Resting, PCs
    <3> QED
      BY <1>0, <3>1 DEF Local, ThreadRecords
  <2>2. /\ AfterLookup(t) \in {"serialise", "erase"}
        /\ AfterFailure(t) \in {"unlock", "cache", "deleted"}
        /\ th[t].pc = "erase" => AfterFailure(t) \in {"cache", "deleted"}
    BY <1>0, <2>1 DEF AfterLookup, AfterFailure, Local
  <2>3. \E label : /\ \/ Goto(t, label) \/ ReadInto(t, label)
                      \/ \E o, objects : CacheNow(t, o, label, objects)
                   /\ <<th[t].pc, label>> \in Forward
    BY <1>6, <2>2 DEF Lookup, PutLookedUp, EraseAnswered, Forward
  <2> QED
    BY <1>0, <2>3, GoingOn DEF Moves
<1>7. CASE EraseThrown(t)
  <2>1. th[t].pc = "erase" /\ AfterFailure(t) \in {"cache", "deleted"}
    <3>1. th[t].pc = "erase" /\ th[t].kind \in {"insert", "delete"}
      BY <1>0, <1>7 DEF EraseThrown, Local, ThreadRecords, Busy, Resting, PCs
    <3> QED
      BY <3>1 DEF AfterFailure
  <2>2. Goto(t, AfterFailure(t)) \/ th' = [th EXCEPT ![t].again = @ + 1]
    BY <1>7 DEF EraseThrown
  <2>3. \/ th'[t].pc = AfterFailure(t) /\ th'[t].tries = th[t].tries
        \/ th'[t].pc = th[t].pc /\ th'[t].tries = th[t].tries
           /\ th'[t].again = th[t].again + 1
    BY <1>0, <2>2, GoingOn DEF ThreadRecords
  <2> QED
    BY <2>1, <2>3 DEF Moves, Forward
<1>8. CASE Erased(t)
  <2>1. /\ th[t].pc = "erased"
        /\ \/ th' = [th EXCEPT ![t].pc = "serialise", ![t].again = 0]
           \/ th' = [th EXCEPT ![t].pc = "deleted", ![t].result = TRUE]
    BY <1>8 DEF Erased
  <2>2. th'[t].tries = th[t].tries /\ th'[t].pc \in {"serialise", "deleted"}
    BY <1>0, <2>1 DEF ThreadRecords
  <2> QED
    BY <2>1, <2>2 DEF Moves, Forward
<1> QED
  BY <1>1, <1>2, <1>3, <1>4, <1>5, <1>6, <1>7, <1>8 DEF Step

\* A call is asked for by a thread that rests.
LEMMA AskedAtRest ==
    ASSUME NEW t \in Threads, Ask(t)
    PROVE  th[t].pc \in Resting
BY DEF Ask, New, CacheGet, Query, Release, GetData, Call, Resting

\* Every step of a call brings its end nearer, whatever the other threads do:
\* the retries are counted, and no step goes back but to one of them.
THEOREM WindDown == Spec => CallsWindDown
<1>1. ASSUME IInv, TypeOK', NEW t \in Threads, Step(t)
      PROVE  th'[t].pc \in Resting \/ <<CallLeft(t)', CallLeft(t)>> \in CallOrder
  <2>1. /\ OfflineRetries \in Nat
        /\ th[t].tries \in 0..OfflineRetries /\ th[t].again \in 0..OfflineRetries
        /\ th'[t].tries \in 0..OfflineRetries /\ th'[t].again \in 0..OfflineRetries
    BY <1>1, RetriesAssumption DEF IInv, TypeOK, ThreadRecords
  <2>2. /\ TriesLeft(t) \in Nat /\ TriesLeft(t)' \in Nat
        /\ StepsLeft(t) \in Nat /\ StepsLeft(t)' \in Nat
    BY <2>1 DEF TriesLeft, StepsLeft
  <2>3. Moves(t)
    BY <1>1, StepMoves
  <2>4. ASSUME th'[t].tries = th[t].tries + 1
        PROVE  TriesLeft(t)' < TriesLeft(t)
    BY <2>1, <2>4 DEF TriesLeft
  <2>5. ASSUME <<th[t].pc, th'[t].pc>> \in Forward
        PROVE  StepsLeft(t)' < StepsLeft(t)
    BY <2>1, <2>5 DEF StepsLeft, Forward
  <2>6. ASSUME th[t].pc = "erase", th'[t].pc = "erase",
               th'[t].again = th[t].again + 1
        PROVE  StepsLeft(t)' < StepsLeft(t)
    BY <2>1, <2>6 DEF StepsLeft
  <2>7. \/ th'[t].pc \in Resting \/ TriesLeft(t)' < TriesLeft(t)
        \/ TriesLeft(t)' = TriesLeft(t) /\ StepsLeft(t)' < StepsLeft(t)
    BY <2>3, <2>4, <2>5, <2>6 DEF Moves, TriesLeft
  <2> QED
    BY <2>2, <2>7 DEF CallLeft, CallOrder, LexPairOrdering, Less
<1>2. ASSUME IInv, [Next]_vars, NEW t \in Threads, th[t].pc \notin Resting, ~Step(t)
      PROVE  th'[t] = th[t]
  <2>1. CASE Refresh \/ UNCHANGED vars
    BY <2>1 DEF Refresh, vars
  <2>2. ASSUME NEW u \in Threads, Ask(u) \/ Step(u)
        PROVE  th'[t] = th[t]
    <3>1. u # t
      BY <1>2, <2>2, AskedAtRest
    <3> QED
      BY <1>2, <2>2, <3>1, OwnLocals DEF IInv
  <2> QED
    BY <1>2, <2>1, <2>2 DEF Next
<1>3. IInv /\ IInv' /\ [Next]_vars =>
        \A t \in Threads : th[t].pc \notin Resting =>
          /\ Step(t) => th'[t].pc \in Resting \/ <<CallLeft(t)', CallLeft(t)>> \in CallOrder
          /\ ~Step(t) => th'[t] = th[t]
  BY <1>1, <1>2 DEF IInv
<1> QED
  BY <1>3, Inductive, PTL DEF Spec, CallsWindDown
=============================================================================
