----------------------- MODULE VertexStoreSaves_proofs -----------------------
(***************************************************************************)
(* A save() that reports success has stored every change that was made to  *)
(* the object before it began, for any number of threads, objects, retries *)
(* and changes.                                                            *)
(*                                                                         *)
(* The argument: contents are numbered as they are made, and nothing is    *)
(* newer than the last.  So the content of an object that a thread holds   *)
(* only gets newer, although setters change it while save() has its        *)
(* monitor; what the request carries is read from it after save() began,   *)
(* and a retried insert, whose answer says nothing of the content, is not  *)
(* reported as a success.                                                  *)
(***************************************************************************)
EXTENDS VertexStore_proofs

\* No content is newer than the last one made.
Aged ==
    /\ \A d \in Docs : docs[d] <= version /\ seen[d] <= version
    /\ \A o \in Objects : obj[o].value <= version
    /\ \A t \in Threads : th[t].value <= version

\* What a thread inside save() can rely on.
Carries(t) ==
    th[t].kind \in {"insert", "update"} =>
        /\ th[t].since <= MyObject(t).value
        /\ th[t].pc = "request" => th[t].since <= th[t].value
        /\ th[t].result => th[t].wrote /\ th[t].since <= th[t].value

Contents == Aged /\ \A t \in Threads : Carries(t)

-----------------------------------------------------------------------------
\* A new content is newer than all others, the spare object gets what a query
\* has returned, and all other objects keep what they have.
Values(t, objects) ==
    \A o \in Objects :
        \/ objects[o].value = obj[o].value
        \/ objects[o].value = version'
        \/ o = Spare /\ objects[o].value \in {Absent, th[t].value}

\* A save begins with what the object is, or goes on with what it began with.
Keeps(t) ==
    th'[t].kind \in {"insert", "update"} =>
        /\ th'[t].at = th[t].at /\ th[t].at \in Objects
        /\ \/ th'[t].since = MyObject(t).value
           \/ th'[t].kind = th[t].kind /\ th'[t].since = th[t].since
        /\ th'[t].pc = "request" => th'[t].since <= th'[t].value
        /\ th'[t].result => th'[t].wrote /\ th'[t].since <= th'[t].value

\* A step that moves contents about like this has only to see to itself.
LEMMA ContentsStep ==
    ASSUME IInv, Contents, IInv', NEW t \in Threads,
           NEW objects \in [Objects -> ObjectRecords],
           obj' = objects \/ obj' = Collected(objects),
           Values(t, objects), Keeps(t),
           version' = version \/ version <= version',
           \A d \in Docs : docs'[d] \in {docs[d], Absent, th[t].value},
           \A d \in Docs : seen'[d] \in {seen[d], docs[d], docs'[d]},
           \/ th'[t].value \in {Absent, th[t].value}
           \/ th[t].at \in Objects /\ th'[t].value = MyObject(t).value
           \/ \E d \in Docs : th'[t].value = seen[d],
           \A u \in Threads \ {t} : th'[u] = th[u]
    PROVE  Contents'
<1>1. /\ TypeOK /\ TypeOK' /\ Spare \in Objects
      /\ \A u \in Threads : th[u].at # Spare
  BY Facts DEF IInv
<1>2. /\ version \in Nat /\ version' \in Nat /\ version <= version'
      /\ \A d \in Docs : docs[d] \in Nat /\ seen[d] \in Nat
      /\ \A o \in Objects : obj[o].value \in Nat
      /\ \A u \in Threads : th[u].value \in Nat /\ th[u].since \in Nat
                            /\ th[u].at \in Objects \cup {NoObject}
  <2>1. /\ \A o \in Objects : obj[o] \in ObjectRecords
        /\ \A u \in Threads : th[u] \in ThreadRecords
    BY <1>1 DEF TypeOK
  <2>2. \A o \in Objects : obj[o].value \in Nat
    BY <2>1 DEF ObjectRecords, Versions, Absent
  <2>3. \A u \in Threads : th[u].value \in Nat /\ th[u].since \in Nat
                           /\ th[u].at \in Objects \cup {NoObject}
    BY <2>1 DEF ThreadRecords, Versions, Absent
  <2>4. /\ version \in Nat /\ version' \in Nat /\ version <= version'
        /\ \A d \in Docs : docs[d] \in Nat /\ seen[d] \in Nat
    BY <1>1, VersionAssumption DEF TypeOK, Versions, Absent
  <2> QED
    BY <2>2, <2>3, <2>4
<1>3. \A o \in Objects : objects[o].value \in Nat /\ objects[o].value <= version'
  BY <1>2 DEF Values, Contents, Aged, Absent
<1>4. \A o \in Objects : obj'[o].value <= version'
  BY <1>2, <1>3 DEF Collected, Blank, Absent
<1>5. Aged'
  <2>1. \A d \in Docs : docs'[d] <= version' /\ seen'[d] <= version'
    BY <1>2 DEF Contents, Aged, Absent
  <2>2. th'[t].value <= version'
    BY <1>2 DEF Contents, Aged, Absent, MyObject
  <2>3. \A u \in Threads : th'[u].value <= version'
    BY <1>2, <2>2 DEF Contents, Aged
  <2>4. Docs' = Docs
    BY DEF Docs
  <2> QED
    BY <1>4, <2>1, <2>3, <2>4 DEF Aged
<1>6. ASSUME NEW u \in Threads, th[u].at \in Objects, th'[u].at = th[u].at
      PROVE  MyObject(u)'.value >= MyObject(u).value
  <2>1. obj'[th[u].at] = objects[th[u].at]
    BY <1>6 DEF Collected
  <2>2. objects[th[u].at].value \in {obj[th[u].at].value, version'}
    BY <1>1, <1>6 DEF Values
  <2>3. obj[th[u].at].value <= version
    BY <1>6 DEF Contents, Aged
  <2> QED
    BY <1>2, <1>6, <2>1, <2>2, <2>3 DEF MyObject
<1>7. MyObject(t)'.value \in Nat \/ th'[t].at \notin Objects
  <2>1. th'[t].at \in Objects => obj'[th'[t].at] \in ObjectRecords
    BY <1>1, Facts DEF TypeOK
  <2> QED
    BY <2>1 DEF MyObject, ObjectRecords, Versions, Absent
<1>8. Carries(t)'
  <2>1. th'[t].since \in Nat
    <3>1. th'[t] \in ThreadRecords
      BY <1>1, Facts DEF TypeOK
    <3> QED
      BY <3>1 DEF ThreadRecords, Versions, Absent
  <2> SUFFICES ASSUME th'[t].kind \in {"insert", "update"}
               PROVE  th'[t].since <= MyObject(t)'.value
    BY DEF Carries, Keeps
  <2>2. MyObject(t)'.value >= MyObject(t).value
    BY <1>6 DEF Keeps
  <2>3. th'[t].since <= MyObject(t).value
    <3>1. th[t].at \in Objects /\ MyObject(t).value \in Nat
      BY <1>2 DEF Keeps, MyObject
    <3> QED
      BY <2>1, <3>1 DEF Keeps, Contents, Carries
  <2>4. MyObject(t).value \in Nat /\ MyObject(t)'.value \in Nat
    BY <1>2, <1>7 DEF Keeps, MyObject
  <2> QED
    BY <2>1, <2>2, <2>3, <2>4
<1>9. ASSUME NEW u \in Threads \ {t}
      PROVE  Carries(u)'
  <2>1. th'[u] = th[u] /\ Carries(u) /\ Local(u)
    BY DEF Contents, IInv, Locals
  <2> SUFFICES ASSUME th[u].kind \in {"insert", "update"}
               PROVE  th[u].since <= MyObject(u)'.value
    BY <2>1 DEF Carries
  <2>2. th[u].at \in Objects
    <3>1. th[u].kind # "none"
      OBVIOUS
    <3>2. th[u].pc \in Busy
      BY <2>1, <3>1 DEF Local
    <3> QED
      BY <3>2, Facts
  <2>3. MyObject(u)'.value \in Nat
    <3>1. obj'[th[u].at] \in ObjectRecords
      BY <1>1, <2>2, Facts DEF TypeOK
    <3> QED
      BY <2>1, <3>1 DEF MyObject, ObjectRecords, Versions, Absent
  <2> QED
    BY <1>2, <1>6, <2>1, <2>2, <2>3 DEF Carries, MyObject
<1> QED
  BY <1>5, <1>8, <1>9 DEF Contents

\* A step that leaves all contents where they are.
LEMMA PlainStep ==
    ASSUME IInv, Contents, IInv', NEW t \in Threads, Keeps(t),
           obj' = obj, docs' = docs, seen' \in {seen, docs}, version' = version,
           \/ th'[t].value \in {Absent, th[t].value}
           \/ th[t].at \in Objects /\ th'[t].value = MyObject(t).value
           \/ \E d \in Docs : th'[t].value = seen[d],
           \A u \in Threads \ {t} : th'[u] = th[u]
    PROVE  Contents'
<1>1. obj \in [Objects -> ObjectRecords]
  BY DEF IInv, TypeOK
<1>2. Values(t, obj)
  BY DEF Values
<1>3. /\ \A d \in Docs : docs'[d] \in {docs[d], Absent, th[t].value}
      /\ \A d \in Docs : seen'[d] \in {seen[d], docs[d], docs'[d]}
  OBVIOUS
<1> QED
  BY <1>1, <1>2, <1>3, ContentsStep

\* What every step starts from.
LEMMA Start ==
    ASSUME IInv, Contents, NEW t \in Threads
    PROVE  /\ th \in [Threads -> ThreadRecords] /\ th[t] \in ThreadRecords
           /\ obj \in [Objects -> ObjectRecords]
           /\ Spare \in Objects /\ \A u \in Threads : th[u].at # Spare
           /\ Local(t) /\ Carries(t)
           /\ th[t].kind # "none" <=> th[t].pc \in Busy
           /\ th[t].pc \in Busy => th[t].at \in Objects
BY Facts DEF Contents, Local, TypeOK

\* A query remembers what it has found.
LEMMA Reading ==
    ASSUME IInv, Contents, IInv', NEW t \in Threads, NEW label \in PCs,
           ReadInto(t, label), label # "request", ~th[t].result,
           UNCHANGED <<docs, seen, obj, version>>
    PROVE  Contents'
<1>1. PICK d \in Found : th' = [th EXCEPT ![t].pc = label, ![t].doc = d,
                                          ![t].value = seen[d]]
  BY DEF ReadInto
<1>2. d \in Docs
  BY <1>1 DEF Found, Stored
<1>3. th'[t].value = seen[d] /\ \A u \in Threads \ {t} : th'[u] = th[u]
  BY <1>1, Start DEF ThreadRecords
<1>4. Keeps(t)
  BY <1>1, Start DEF Keeps, Local, ThreadRecords
<1> QED
  BY <1>2, <1>3, <1>4, PlainStep

\* What the program does.
LEMMA ProgramContents ==
    ASSUME IInv, Contents, IInv', NEW t \in Threads,
           Ask(t) \/ CachePut(t) \/ Change(t) \/ SetDirty(t)
    PROVE  Contents'
<1>1. /\ th \in [Threads -> ThreadRecords] /\ th[t] \in ThreadRecords
      /\ obj \in [Objects -> ObjectRecords]
      /\ Spare \in Objects /\ \A u \in Threads : th[u].at # Spare
      /\ Local(t) /\ Carries(t)
      /\ th[t].kind # "none" <=> th[t].pc \in Busy
  BY Start
<1>2. ASSUME NEW label \in {"hold", "data", "save", "delete"},
             Goto(t, label), th[t].pc \notin Busy
      PROVE  /\ Keeps(t) /\ th'[t].value = th[t].value
             /\ \A u \in Threads \ {t} : th'[u] = th[u]
  BY <1>1, <1>2 DEF Goto, Keeps, ThreadRecords
<1>3. CASE New(t)
  <2>1. obj' \in [Objects -> ObjectRecords]
    BY Facts DEF IInv, TypeOK
  <2>2. Values(t, obj') /\ version <= version'
    BY <1>1, <1>3 DEF New, Values, Blank
  <2>3. /\ Keeps(t) /\ th'[t].value = th[t].value
        /\ \A u \in Threads \ {t} : th'[u] = th[u]
    BY <1>1, <1>3 DEF New, Keeps, ThreadRecords, Busy, Resting
  <2>4. UNCHANGED <<docs, seen>>
    BY <1>3 DEF New
  <2> QED
    BY <2>1, <2>2, <2>3, <2>4, ContentsStep
<1>4. CASE CacheGet(t)
  <2>1. /\ Keeps(t) /\ th'[t].value = th[t].value
        /\ \A u \in Threads \ {t} : th'[u] = th[u]
    BY <1>1, <1>4 DEF CacheGet, Keeps, ThreadRecords, Busy, Resting
  <2> QED
    BY <1>4, <2>1, PlainStep DEF CacheGet
<1>5. CASE Query(t)
  <2>1. CASE Found = {}
    <3>1. Keeps(t)
      BY <1>1, <1>5, <2>1 DEF Query, Keeps, Busy, Resting
    <3> QED
      BY <1>5, <2>1, <3>1, PlainStep DEF Query
  <2>2. CASE Found # {}
    BY <1>1, <1>5, <2>2, Reading DEF Query, Local, PCs
  <2> QED
    BY <2>1, <2>2
<1>6. CASE Release(t)
  <2>1. /\ Keeps(t) /\ th'[t].value = Absent
        /\ \A u \in Threads \ {t} : th'[u] = th[u]
    BY <1>1, <1>6 DEF Release, Free, Keeps
  <2>2. Values(t, obj)
    BY DEF Values
  <2> QED
    BY <1>1, <1>6, <2>1, <2>2, ContentsStep DEF Release
<1>7. CASE GetData(t)
  <2>1. /\ Keeps(t) /\ th'[t].value = th[t].value
        /\ \A u \in Threads \ {t} : th'[u] = th[u]
    BY <1>2, <1>7 DEF GetData, Busy, Resting
  <2> QED
    BY <1>7, <2>1, PlainStep DEF GetData
<1>8. CASE Call(t, "save") \/ Call(t, "delete")
  <2>1. /\ Keeps(t) /\ th'[t].value = th[t].value
        /\ \A u \in Threads \ {t} : th'[u] = th[u]
    BY <1>2, <1>8 DEF Call, Busy, Resting
  <2> QED
    BY <1>8, <2>1, PlainStep DEF Call
<1>9. CASE CachePut(t)
  <2> DEFINE objects == [obj EXCEPT ![Spare] = Loaded(t)]
  <2>1. objects \in [Objects -> ObjectRecords] /\ Loaded(t).value = th[t].value
    BY <1>1, <1>9
    DEF CachePut, Loaded, Blank, ObjectRecords, ThreadRecords, Local, Answered, Absent, NoDoc
  <2>2. Values(t, objects)
    BY <1>1, <2>1 DEF Values
  <2>3. /\ Keeps(t) /\ th'[t].value = Absent
        /\ \A u \in Threads \ {t} : th'[u] = th[u]
    BY <1>1, <1>9 DEF CachePut, Free, Keeps
  <2> QED
    BY <1>9, <2>1, <2>2, <2>3, ContentsStep DEF CachePut
<1>10. CASE Change(t)
  <2> DEFINE objects == [obj EXCEPT ![th[t].at].value = version']
  <2>1. /\ TypeOK /\ TypeOK' /\ th[t].at \in Objects
    BY <1>1, <1>10 DEF Change, IInv, Local, ThreadRecords
  <2>2. version \in Nat /\ version' \in Versions /\ version <= version'
    BY <1>10, <2>1, VersionAssumption DEF Change, TypeOK, Versions
  <2>3. objects \in [Objects -> ObjectRecords]
    BY <1>1, <2>1, <2>2 DEF ObjectRecords
  <2>4. Values(t, objects)
    BY <1>1, <2>1 DEF Values, ObjectRecords
  <2>5. /\ Keeps(t) /\ th'[t].value = th[t].value
        /\ \A u \in Threads \ {t} : th'[u] = th[u]
    BY <1>1, <1>10 DEF Change, Goto, Keeps, ThreadRecords, Busy, Resting
  <2> QED
    BY <1>10, <2>2, <2>3, <2>4, <2>5, ContentsStep DEF Change
<1>11. CASE SetDirty(t)
  <2> DEFINE objects == [obj EXCEPT ![th[t].at].dirty = TRUE]
  <2>1. objects \in [Objects -> ObjectRecords] /\ Values(t, objects)
    BY <1>1 DEF Values, ObjectRecords
  <2>2. /\ Keeps(t) /\ th'[t].value = th[t].value
        /\ \A u \in Threads \ {t} : th'[u] = th[u]
    BY <1>2, <1>11 DEF SetDirty, Busy, Resting
  <2> QED
    BY <1>11, <2>1, <2>2, ContentsStep DEF SetDirty
<1> QED
  BY <1>3, <1>4, <1>5, <1>6, <1>7, <1>8, <1>9, <1>10, <1>11 DEF Ask

\* Going on elsewhere keeps what the save relies on, but for a request.
LEMMA Going ==
    ASSUME IInv, Contents, NEW t \in Threads, NEW label \in PCs \ {"request"},
           Goto(t, label)
    PROVE  /\ Keeps(t) /\ th'[t].value = th[t].value
           /\ \A u \in Threads \ {t} : th'[u] = th[u]
<1>1. th \in [Threads -> ThreadRecords] /\ th[t] \in ThreadRecords /\ Carries(t)
  BY Start
<1>2. /\ th'[t].kind = th[t].kind /\ th'[t].at = th[t].at /\ th'[t].since = th[t].since
      /\ th'[t].value = th[t].value /\ th'[t].result = th[t].result
      /\ th'[t].wrote = th[t].wrote /\ th'[t].pc = label
      /\ \A u \in Threads \ {t} : th'[u] = th[u]
  BY <1>1 DEF Goto, ThreadRecords
<1>3. th[t].kind \in {"insert", "update"} => th[t].at \in Objects
  BY Start
<1> QED
  BY <1>1, <1>2, <1>3 DEF Keeps, Carries

\* What a lookup puts into the cache, and what it tells the object being saved.
LEMMA Caching ==
    ASSUME IInv, Contents, IInv', NEW t \in Threads, NEW o \in Objects \cup {NoObject},
           NEW label \in PCs \ {"request"}, NEW objects,
           objects \in {obj, [obj EXCEPT ![Spare] = Loaded(t)], Identified(t)},
           th[t].pc \in Busy, ~th[t].result, th[t].pc = "evict" \/ th[t].doc \in Docs,
           CacheNow(t, o, label, objects), objects = obj \/ th[t].doc \in Docs,
           UNCHANGED <<docs, seen, version>>
    PROVE  Contents'
<1>1. /\ th \in [Threads -> ThreadRecords] /\ th[t] \in ThreadRecords /\ Carries(t)
      /\ obj \in [Objects -> ObjectRecords] /\ th[t].at \in Objects
      /\ Spare \in Objects /\ \A u \in Threads : th[u].at # Spare
  BY Start
<1>2. /\ th'[t].kind = th[t].kind /\ th'[t].at = th[t].at /\ th'[t].since = th[t].since
      /\ th'[t].value = Absent /\ th'[t].result = th[t].result /\ th'[t].pc = label
      /\ \A u \in Threads \ {t} : th'[u] = th[u]
  BY <1>1 DEF CacheNow, ThreadRecords
<1>3. Keeps(t)
  BY <1>1, <1>2 DEF Keeps
<1>4. obj' = Collected(objects)
  BY DEF CacheNow
<1>5. CASE objects = obj
  <2>1. Values(t, obj)
    BY DEF Values
  <2> QED
    BY <1>1, <1>2, <1>3, <1>4, <1>5, <2>1, ContentsStep
<1>6. CASE objects # obj
  <2>1. Loaded(t) \in ObjectRecords /\ Loaded(t).value = th[t].value
    BY <1>1, <1>6 DEF Loaded, Blank, ObjectRecords, ThreadRecords, Absent, NoDoc
  <2>2. CASE objects = [obj EXCEPT ![Spare] = Loaded(t)]
    <3>1. objects \in [Objects -> ObjectRecords] /\ Values(t, objects)
      BY <1>1, <2>1, <2>2 DEF Values
    <3> QED
      BY <1>2, <1>3, <1>4, <3>1, ContentsStep
  <2>3. CASE objects = Identified(t)
    <3>1. objects \in [Objects -> ObjectRecords]
      BY <1>1, <1>6, <2>3, Identifying
    <3>2. Values(t, objects)
      BY <1>1, <2>1, <2>3 DEF Values, Identified, ObjectRecords
    <3> QED
      BY <1>2, <1>3, <1>4, <3>1, <3>2, ContentsStep
  <2> QED
    BY <1>6, <2>2, <2>3
<1> QED
  BY <1>5, <1>6

\* save() with its update.
LEMMA SaveContents ==
    ASSUME IInv, Contents, IInv', NEW t \in Threads,
           \/ NothingToSave(t) \/ Create(t) \/ Update(t) \/ PutBeforeData(t)
           \/ StartUpdate(t) \/ Evict(t) \/ Serialise(t) \/ UpdateAnswered(t)
           \/ UpdateRejected(t) \/ FinishUpdate(t) \/ AfterUpdate(t) \/ EndSave(t)
    PROVE  Contents'
<1>1. /\ th \in [Threads -> ThreadRecords] /\ th[t] \in ThreadRecords
      /\ obj \in [Objects -> ObjectRecords]
      /\ Spare \in Objects /\ \A u \in Threads : th[u].at # Spare
      /\ Local(t) /\ Carries(t)
      /\ th[t].kind # "none" <=> th[t].pc \in Busy
      /\ th[t].pc \in Busy => th[t].at \in Objects
  BY Start
<1>2. {"hold", "evict", "unlock", "cache", "clean"} \subseteq PCs \ {"request"}
  BY DEF PCs, Resting
<1>3. CASE NothingToSave(t)
  BY <1>2, <1>3, Going, PlainStep DEF NothingToSave
<1>4. ASSUME NEW kind, NEW label \in {"insert", "lock", "before"},
             EnterSave(t, kind, label)
      PROVE  Contents'
  <2>1. th[t].at \in Objects /\ ~th[t].result
    BY <1>1, <1>4 DEF EnterSave, Local, ThreadRecords, Busy
  <2> DEFINE read(d) == IF d = NoDoc THEN Absent ELSE seen[d]
  <2>2. PICK d \in (IF label = "before" THEN Found ELSE {NoDoc}) :
           th' = [th EXCEPT ![t].pc = label, ![t].kind = kind, ![t].doc = d,
                            ![t].value = read(d), ![t].since = MyObject(t).value]
    BY <1>4 DEF EnterSave
  <2>3. d = NoDoc \/ d \in Docs
    BY <2>2 DEF Found, Stored
  <2>4. th'[t].value = read(d) /\ \A u \in Threads \ {t} : th'[u] = th[u]
    BY <1>1, <2>2 DEF ThreadRecords
  <2>5. Keeps(t)
    BY <1>1, <2>1, <2>2 DEF Keeps, ThreadRecords
  <2>6. Touched(t) \in [Objects -> ObjectRecords] /\ Values(t, Touched(t))
    BY <1>1, <2>1 DEF Touched, Values, ObjectRecords
  <2>7. obj' = Touched(t) /\ UNCHANGED <<docs, seen, version>>
    BY <1>4 DEF EnterSave
  <2>8. th'[t].value = Absent \/ \E e \in Docs : th'[t].value = seen[e]
    BY <2>3, <2>4
  <2> QED
    BY <2>4, <2>5, <2>6, <2>7, <2>8, ContentsStep
<1>5. CASE Create(t) \/ Update(t)
  BY <1>4, <1>5 DEF Create, Update
<1>6. CASE PutBeforeData(t)
  <2>1. th[t].doc \in Docs /\ ~th[t].result /\ th[t].pc \in Busy
    BY <1>1, <1>6 DEF PutBeforeData, Local, Answered, Busy, PCs, Resting
  <2> QED
    BY <1>1, <1>6, <2>1, Caching DEF PutBeforeData, PCs
<1>7. CASE StartUpdate(t)
  BY <1>2, <1>7, Going, PlainStep DEF StartUpdate
<1>8. CASE Evict(t)
  <2>1. ~th[t].result /\ th[t].pc \in Busy /\ th[t].pc = "evict"
    BY <1>1, <1>8 DEF Evict, Local, Busy, PCs, Resting
  <2> QED
    BY <1>1, <1>8, <2>1, Caching DEF Evict, PCs
<1>9. CASE Serialise(t)
  <2>1. th[t].pc = "serialise" /\ th[t].pc \in Busy /\ ~th[t].result
    BY <1>1, <1>9 DEF Serialise, Local, Busy, PCs, Resting
  <2>2. /\ th'[t].value = MyObject(t).value /\ th'[t].kind = th[t].kind
        /\ th'[t].since = th[t].since /\ th'[t].at = th[t].at
        /\ th'[t].result = th[t].result /\ \A u \in Threads \ {t} : th'[u] = th[u]
    BY <1>1, <1>9 DEF Serialise, Serialised, ThreadRecords
  <2>3. Keeps(t)
    BY <1>1, <2>1, <2>2 DEF Keeps, Carries
  <2> QED
    BY <1>1, <1>9, <2>1, <2>2, <2>3, PlainStep DEF Serialise
<1>10. CASE UpdateAnswered(t)
  <2>1. th[t].pc = "request" /\ th[t].kind = "update" /\ th[t].at \in Objects
    BY <1>1, <1>10 DEF UpdateAnswered, Busy, PCs, Resting
  <2>2. /\ th'[t].value = th[t].value /\ th'[t].kind = th[t].kind
        /\ th'[t].since = th[t].since /\ th'[t].at = th[t].at
        /\ th'[t].wrote /\ th'[t].pc = "unlock"
        /\ \A u \in Threads \ {t} : th'[u] = th[u]
    BY <1>1, <1>10 DEF UpdateAnswered, ThreadRecords
  <2>3. Keeps(t) /\ Values(t, obj)
    BY <1>1, <2>1, <2>2 DEF Keeps, Carries, Values
  <2>4. docs \in [Docs -> Versions \cup {Absent}]
    BY DEF IInv, TypeOK
  <2>5. /\ obj' = obj /\ version' = version
        /\ \A d \in Docs : docs'[d] \in {docs[d], Absent, th[t].value}
        /\ \A d \in Docs : seen'[d] \in {seen[d], docs[d], docs'[d]}
    BY <1>10, <2>4 DEF UpdateAnswered
  <2> QED
    BY <1>1, <2>2, <2>3, <2>5, ContentsStep
<1>11. CASE UpdateRejected(t)
  BY <1>2, <1>11, Going, PlainStep DEF UpdateRejected
<1>12. CASE FinishUpdate(t)
  BY <1>2, <1>12, Going, PlainStep DEF FinishUpdate
<1>13. CASE AfterUpdate(t)
  <2>1. /\ Keeps(t) /\ th'[t].value = th[t].value
        /\ \A u \in Threads \ {t} : th'[u] = th[u]
    BY <1>2, <1>13, Going DEF AfterUpdate
  <2>2. Values(t, obj)
    BY DEF Values
  <2> QED
    BY <1>1, <1>13, <2>1, <2>2, ContentsStep DEF AfterUpdate
<1>14. CASE EndSave(t)
  <2> DEFINE objects == [obj EXCEPT ![th[t].at].dirty = FALSE,
                                    ![th[t].at].monitor = NoThread]
  <2>1. objects \in [Objects -> ObjectRecords] /\ Values(t, objects)
    BY <1>1 DEF Values, ObjectRecords
  <2>2. /\ Keeps(t) /\ th'[t].value = Absent
        /\ \A u \in Threads \ {t} : th'[u] = th[u]
    BY <1>1, <1>14 DEF EndSave, Returned, Free, Keeps
  <2> QED
    BY <1>14, <2>1, <2>2, ContentsStep DEF EndSave
<1> QED
  BY <1>3, <1>5, <1>6, <1>7, <1>8, <1>9, <1>10, <1>11, <1>12, <1>13, <1>14

\* The insert with its retries.
LEMMA InsertContents ==
    ASSUME IInv, Contents, IInv', NEW t \in Threads,
           \/ FirstInsert(t) \/ RecallCached(t) \/ Recall(t) \/ PutRecalled(t)
           \/ InsertAnswered(t) \/ InsertThrown(t)
    PROVE  Contents'
<1>1. /\ th \in [Threads -> ThreadRecords] /\ th[t] \in ThreadRecords
      /\ obj \in [Objects -> ObjectRecords] /\ obj' \in [Objects -> ObjectRecords]
      /\ Spare \in Objects /\ \A u \in Threads : th[u].at # Spare
      /\ Local(t) /\ Carries(t)
      /\ th[t].kind # "none" <=> th[t].pc \in Busy
      /\ th[t].pc \in Busy => th[t].at \in Objects
  BY Start, Facts DEF IInv, TypeOK
<1>2. {"serialise", "cache", "lookup"} \subseteq PCs \ {"request"}
  BY DEF PCs, Resting
<1>3. docs \in [Docs -> Versions \cup {Absent}]
  BY DEF IInv, TypeOK
<1>4. CASE FirstInsert(t)
  <2>1. th[t].at \in Objects
    BY <1>1, <1>4 DEF FirstInsert, Busy, PCs, Resting
  <2>2. Values(t, obj')
    BY <1>1, <1>4, <2>1 DEF FirstInsert, Values, ObjectRecords
  <2>3. /\ Keeps(t) /\ th'[t].value = th[t].value
        /\ \A u \in Threads \ {t} : th'[u] = th[u]
    BY <1>2, <1>4, Going DEF FirstInsert
  <2> QED
    BY <1>1, <1>4, <2>2, <2>3, ContentsStep DEF FirstInsert
<1>5. CASE RecallCached(t)
  <2>1. th[t].at \in Objects
    BY <1>1, <1>5 DEF RecallCached, Busy, PCs, Resting
  <2>2. Values(t, obj')
    BY <1>1, <1>5, <2>1 DEF RecallCached, Values, ObjectRecords
  <2>3. /\ Keeps(t) /\ th'[t].value = th[t].value
        /\ \A u \in Threads \ {t} : th'[u] = th[u]
    BY <1>2, <1>5, Going DEF RecallCached
  <2> QED
    BY <1>1, <1>5, <2>2, <2>3, ContentsStep DEF RecallCached
<1>6. CASE Recall(t)
  <2>1. CASE Found = {}
    BY <1>2, <1>6, <2>1, Going, PlainStep DEF Recall
  <2>2. CASE Found # {}
    BY <1>1, <1>6, <2>2, Reading DEF Recall, Local, PCs
  <2> QED
    BY <2>1, <2>2
<1>7. CASE PutRecalled(t)
  <2>1. th[t].doc \in Docs /\ ~th[t].result /\ th[t].pc \in Busy
    BY <1>1, <1>7 DEF PutRecalled, Local, Answered, Busy, PCs, Resting
  <2> QED
    BY <1>1, <1>2, <1>7, <2>1, Caching DEF PutRecalled
<1>8. CASE InsertAnswered(t)
  <2>1. th[t].pc = "request" /\ th[t].kind = "insert" /\ th[t].at \in Objects
    BY <1>1, <1>8 DEF InsertAnswered, Busy, PCs, Resting
  <2>2. /\ th'[t].value = th[t].value /\ th'[t].kind = th[t].kind
        /\ th'[t].since = th[t].since /\ th'[t].at = th[t].at
        /\ th'[t].wrote /\ th'[t].pc = "cache"
        /\ \A u \in Threads \ {t} : th'[u] = th[u]
    BY <1>1, <1>8 DEF InsertAnswered, ThreadRecords
  <2>3. Keeps(t)
    BY <1>1, <2>1, <2>2 DEF Keeps, Carries
  <2>4. Values(t, obj')
    BY <1>1, <1>8, <2>1 DEF InsertAnswered, Values, ObjectRecords
  <2>5. /\ version' = version
        /\ \A d \in Docs : docs'[d] \in {docs[d], Absent, th[t].value}
        /\ \A d \in Docs : seen'[d] \in {seen[d], docs[d], docs'[d]}
    BY <1>3, <1>8 DEF InsertAnswered
  <2> QED
    BY <1>1, <2>2, <2>3, <2>4, <2>5, ContentsStep
<1>9. CASE InsertThrown(t)
  <2>1. th[t].pc = "request" /\ th[t].kind = "insert" /\ th[t].at \in Objects
    BY <1>1, <1>9 DEF InsertThrown, Busy, PCs, Resting
  <2>2. /\ th'[t].value = th[t].value /\ th'[t].kind = th[t].kind
        /\ th'[t].since = th[t].since /\ th'[t].at = th[t].at
        /\ th'[t].result = th[t].result /\ th'[t].wrote = th[t].wrote
        /\ th'[t].pc \in {"cache", "insert"}
        /\ \A u \in Threads \ {t} : th'[u] = th[u]
    BY <1>1, <1>9 DEF InsertThrown, Goto, ThreadRecords
  <2>3. Keeps(t) /\ Values(t, obj)
    BY <1>1, <2>1, <2>2 DEF Keeps, Carries, Values
  <2>4. /\ obj' = obj /\ version' = version /\ seen' = seen
        /\ \A d \in Docs : docs'[d] \in {docs[d], Absent, th[t].value}
    BY <1>3, <1>9 DEF InsertThrown
  <2> QED
    BY <1>1, <2>2, <2>3, <2>4, ContentsStep
<1> QED
  BY <1>4, <1>5, <1>6, <1>7, <1>8, <1>9

\* delete(), and the lookups and deletes inside a save().
LEMMA DeleteContents ==
    ASSUME IInv, Contents, IInv', NEW t \in Threads,
           \/ AlreadyDeleted(t) \/ EnterDelete(t) \/ Lookup(t) \/ PutLookedUp(t)
           \/ EraseAnswered(t) \/ EraseThrown(t) \/ Erased(t) \/ EndDelete(t)
    PROVE  Contents'
<1>1. /\ th \in [Threads -> ThreadRecords] /\ th[t] \in ThreadRecords
      /\ obj \in [Objects -> ObjectRecords] /\ obj' \in [Objects -> ObjectRecords]
      /\ Spare \in Objects /\ \A u \in Threads : th[u].at # Spare
      /\ Local(t) /\ Carries(t)
      /\ th[t].kind # "none" <=> th[t].pc \in Busy
      /\ th[t].pc \in Busy => th[t].at \in Objects
  BY Start, Facts DEF IInv, TypeOK
<1>2. {"hold", "unlock", "cache", "deleted", "serialise", "erase", "erased",
       AfterFailure(t), AfterLookup(t)} \subseteq PCs \ {"request"}
      \/ th[t].kind = "none"
  BY <1>1 DEF PCs, Resting, AfterFailure, AfterLookup, ThreadRecords
<1>3. docs \in [Docs -> Versions \cup {Absent}]
  BY DEF IInv, TypeOK
<1>4. CASE AlreadyDeleted(t)
  BY <1>4, Going, PlainStep DEF AlreadyDeleted, PCs, Resting
<1>5. CASE EnterDelete(t)
  <2>1. th[t].at \in Objects
    BY <1>1, <1>5 DEF EnterDelete, Local, ThreadRecords
  <2>2. Touched(t) \in [Objects -> ObjectRecords]
    <3>1. obj[th[t].at] \in ObjectRecords
      BY <1>1, <2>1
    <3>2. [obj[th[t].at] EXCEPT !.monitor = t, !.dirty = TRUE] \in ObjectRecords
      BY <3>1 DEF ObjectRecords
    <3>3. Touched(t) = [obj EXCEPT ![th[t].at]
                              = [obj[th[t].at] EXCEPT !.monitor = t, !.dirty = TRUE]]
      BY <1>1, <2>1 DEF Touched
    <3> QED
      BY <1>1, <3>2, <3>3
  <2>3. Values(t, Touched(t))
    BY <1>1, <2>1 DEF Touched, Values, ObjectRecords
  <2>4. /\ Keeps(t) /\ th'[t].value = th[t].value
        /\ \A u \in Threads \ {t} : th'[u] = th[u]
    BY <1>1, <1>5 DEF EnterDelete, Keeps, ThreadRecords
  <2> QED
    BY <1>5, <2>2, <2>3, <2>4, ContentsStep DEF EnterDelete
<1>6. CASE Lookup(t)
  <2>1. th[t].pc \in Busy /\ th[t].kind # "none" /\ ~th[t].result
    BY <1>1, <1>6 DEF Lookup, Local, Busy, PCs, Resting
  <2>2. ASSUME NEW label \in {AfterLookup(t), AfterFailure(t)}, Goto(t, label)
        PROVE  Contents'
    BY <1>2, <1>6, <2>1, <2>2, Going, PlainStep DEF Lookup
  <2>3. ASSUME ReadInto(t, "lookedUp")
        PROVE  Contents'
    BY <1>6, <2>1, <2>3, Reading DEF Lookup, PCs
  <2> QED
    BY <1>6, <2>2, <2>3 DEF Lookup
<1>7. CASE PutLookedUp(t)
  <2>1. th[t].doc \in Docs /\ ~th[t].result /\ th[t].pc \in Busy /\ th[t].kind # "none"
    BY <1>1, <1>7 DEF PutLookedUp, Local, Answered, Busy, PCs, Resting
  <2> QED
    BY <1>1, <1>2, <1>7, <2>1, Caching DEF PutLookedUp
<1>8. CASE EraseAnswered(t)
  <2>1. th[t].kind # "none"
    BY <1>1, <1>8 DEF EraseAnswered, Busy, PCs, Resting
  <2>2. \E label \in PCs \ {"request"} : Goto(t, label)
    BY <1>2, <1>8, <2>1 DEF EraseAnswered
  <2>3. /\ Keeps(t) /\ th'[t].value = th[t].value
        /\ \A u \in Threads \ {t} : th'[u] = th[u]
    BY <2>2, Going
  <2>4. /\ obj' = obj /\ version' = version /\ Values(t, obj)
        /\ \A d \in Docs : docs'[d] \in {docs[d], Absent, th[t].value}
        /\ \A d \in Docs : seen'[d] \in {seen[d], docs[d], docs'[d]}
    BY <1>3, <1>8 DEF EraseAnswered, Values
  <2> QED
    BY <1>1, <2>3, <2>4, ContentsStep
<1>9. CASE EraseThrown(t)
  <2>1. th[t].kind # "none" /\ th[t].pc = "erase" /\ ~th[t].result
    BY <1>1, <1>9 DEF EraseThrown, Local, Busy, PCs, Resting
  <2>2. /\ Keeps(t) /\ th'[t].value = th[t].value
        /\ \A u \in Threads \ {t} : th'[u] = th[u]
    <3>1. CASE Goto(t, AfterFailure(t))
      BY <1>2, <2>1, <3>1, Going
    <3>2. CASE th' = [th EXCEPT ![t].again = @ + 1]
      BY <1>1, <2>1, <3>2 DEF Keeps, ThreadRecords
    <3> QED
      BY <1>9, <3>1, <3>2 DEF EraseThrown
  <2>3. /\ obj' = obj /\ version' = version /\ Values(t, obj) /\ seen' = seen
        /\ \A d \in Docs : docs'[d] \in {docs[d], Absent, th[t].value}
    BY <1>3, <1>9 DEF EraseThrown, Values
  <2> QED
    BY <1>1, <2>2, <2>3, ContentsStep
<1>10. CASE Erased(t)
  <2>1. th[t].pc \in Busy /\ th[t].at \in Objects /\ ~th[t].result /\ th[t].pc = "erased"
    BY <1>1, <1>10 DEF Erased, Local, Busy, PCs, Resting
  <2> DEFINE cleared == [obj EXCEPT ![th[t].at].indexId = NoDoc]
  <2>2. cleared \in [Objects -> ObjectRecords] /\ Values(t, cleared) /\ Values(t, obj)
    BY <1>1, <2>1 DEF Values, ObjectRecords
  <2>3. /\ th'[t].value = th[t].value
        /\ \A u \in Threads \ {t} : th'[u] = th[u]
    BY <1>1, <1>10 DEF Erased, ThreadRecords
  <2>4. Keeps(t)
    BY <1>1, <1>10, <2>1 DEF Erased, Keeps, ThreadRecords, Local
  <2>5. obj' = Collected(cleared) \/ obj' = Collected(obj)
    BY <1>10 DEF Erased
  <2>6. UNCHANGED <<docs, seen, version>>
    BY <1>10 DEF Erased
  <2> HIDE DEF cleared
  <2> QED
    BY <1>1, <2>2, <2>3, <2>4, <2>5, <2>6, ContentsStep
<1>11. CASE EndDelete(t)
  <2>1. Values(t, obj')
    BY <1>1, <1>11 DEF EndDelete, Values, ObjectRecords
  <2>2. /\ Keeps(t) /\ th'[t].value = Absent
        /\ \A u \in Threads \ {t} : th'[u] = th[u]
    BY <1>1, <1>11 DEF EndDelete, Returned, Free, Keeps
  <2> QED
    BY <1>1, <1>11, <2>1, <2>2, ContentsStep DEF EndDelete
<1> QED
  BY <1>4, <1>5, <1>6, <1>7, <1>8, <1>9, <1>10, <1>11

-----------------------------------------------------------------------------
\* save() reports success only for what ElasticSearch has applied, with every
\* change made to the object before the call: setters that run beside it, other
\* objects of the vertex and retries after a lost answer do not break it.
THEOREM TruthfulSaves == Spec => []ReportedSave
<1>1. Init => Contents
  BY DEF Init, Contents, Aged, Carries, Blank, Free, Absent
<1>2. IInv /\ IInv' /\ Contents /\ [Next]_vars => Contents'
  <2> SUFFICES ASSUME IInv, IInv', Contents, [Next]_vars
               PROVE  Contents'
    OBVIOUS
  <2>1. CASE UNCHANGED vars
    BY <2>1 DEF vars, Contents, Aged, Carries, MyObject, Docs
  <2>2. CASE Refresh
    BY <2>2 DEF Refresh, Contents, Aged, Carries, MyObject, Docs
  <2>3. ASSUME NEW t \in Threads, Ask(t) \/ Step(t)
        PROVE  Contents'
    BY <2>3, ProgramContents, SaveContents, InsertContents, DeleteContents DEF Step
  <2> QED
    BY <2>1, <2>2, <2>3 DEF Next
<1>3. IInv /\ Contents => ReportedSave
  BY Start DEF Contents, Carries, ReportedSave, Local, Busy, PCs, Resting, ThreadRecords
<1> QED
  BY <1>1, <1>2, <1>3, Inductive, PTL DEF Spec
=============================================================================
