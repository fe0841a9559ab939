----------------------------- MODULE VertexStore -----------------------------
(***************************************************************************)
(* The life of one stored vertex: ApolloVertex.save() and delete(), the    *)
(* application cache, the insert and delete requests of EsActionInsert and *)
(* EsActionDelete with their retries, and getObjectById().                 *)
(*                                                                         *)
(* Several Java objects can stand for the vertex at once: every read that  *)
(* does not come out of the cache makes another one.  save() and delete()  *)
(* hold the monitor of the object they are called on; only the VertexLock  *)
(* of EsActionUpdate is per vertex, and only updates take it.              *)
(*                                                                         *)
(* An update request that throws is the subject of EsActionUpdate; here    *)
(* updates succeed or are rejected.  Vertices are immediate (the default): *)
(* a request that is answered has refreshed the index.  Waiting for the    *)
(* connection and the edges of the vertex are left out.                    *)
(***************************************************************************)
EXTENDS Naturals, FiniteSets

CONSTANTS Threads,          \* threads that work with the vertex
          Objects,          \* Java objects that stand for the vertex
          Vertex,           \* its object ID
          Author,           \* the thread that makes it
          Deleters,         \* the threads that may delete it
          NoThread, NoObject,
          OfflineRetries,   \* config.getOfflineRetries()
          MaxVersion        \* bound: how often the vertex is changed

ASSUME RetriesAssumption == OfflineRetries \in Nat
ASSUME VersionAssumption == MaxVersion \in Nat \ {0}
ASSUME AuthorAssumption == Author \in Threads
ASSUME DeletersAssumption == Deleters \subseteq Threads
ASSUME NoThreadAssumption == NoThread \notin Threads
ASSUME NoObjectAssumption == NoObject \notin Objects
\* One object in the hands of each thread and one to be read.
ASSUME ObjectsAssumption ==
    IsFiniteSet(Objects) /\ IsFiniteSet(Threads)
        /\ Cardinality(Objects) > Cardinality(Threads)

Versions == 1 .. MaxVersion
Absent == 0                         \* the content of a document that is not there
NoDoc == 0                          \* an index ID that is null
Docs == 1 .. OfflineRetries + 1     \* an insert is sent once per try

VARIABLES
    docs,       \* ElasticSearch: the content of each document of the vertex
    seen,       \* what a search finds: docs as of the last refresh
    cache,      \* the object the application cache has for the vertex
    holder,     \* the VertexLock of EsActionUpdate
    obj,        \* the fields of each object
    th,         \* where each thread is and the locals of its calls
    version,    \* the last content the vertex was given
    gone        \* has a delete() returned TRUE?

vars == <<docs, seen, cache, holder, obj, th, version, gone>>

Lock == INSTANCE VertexLock WITH Ids <- {Vertex}

Blank == [value |-> Absent, hasId |-> FALSE, indexId |-> NoDoc,
          dirty |-> FALSE, deleted |-> FALSE, monitor |-> NoThread]

\* kind: the operation of the call; doc, value: what a query returned, or
\* what is about to be sent; tries, again: retries of the operation and of
\* the delete inside an insert; since: the content when save() began; wrote:
\* has a request of this save() been applied?
Free == [pc |-> "idle", at |-> NoObject, kind |-> "none", doc |-> NoDoc,
         value |-> Absent, tries |-> 0, again |-> 0, result |-> FALSE,
         since |-> Absent, wrote |-> FALSE]

Resting == {"idle", "hold"}
PCs == Resting \cup
       {"found", "data", "mark", "save", "before", "lock", "evict",
        "lookup", "lookedUp", "serialise", "request", "unlock", "insert",
        "recalled", "erase", "erased", "cache", "clean", "delete", "deleted"}

\* getById() returns the vertex when exactly one document is found, and
\* fails when there are more.
Stored(index) == {d \in Docs : index[d] # Absent}
Found == IF Cardinality(Stored(seen)) = 1 THEN Stored(seen) ELSE {}

MyObject(t) == obj[th[t].at]
MonitorFree(t) == MyObject(t).monitor = NoThread

Goto(t, label) == th' = [th EXCEPT ![t].pc = label]

\* The call returns to the program, which keeps the object.
Returned(t) == [Free EXCEPT !.pc = "hold", !.at = th[t].at]

\* A Java object nobody holds: garbage, or the cached one when a put is about
\* to replace it.  Objects are alike, so any will do.
Spare == CHOOSE o \in Objects : \A t \in Threads : th[t].at # o

Loaded(t) == [Blank EXCEPT !.value = th[t].value, !.hasId = TRUE,
                           !.indexId = th[t].doc]

\* What the garbage collector leaves of the objects.
Collected(objects) ==
    [o \in Objects |-> IF o = cache' \/ \E t \in Threads : th'[t].at = o
                         THEN objects[o] ELSE Blank]

\* The cache changes and thread t goes on at label, done with what it read.
CacheNow(t, o, label, objects) ==
    /\ cache' = o
    /\ th' = [th EXCEPT ![t].pc = label, ![t].doc = NoDoc, ![t].value = Absent]
    /\ obj' = Collected(objects)
-----------------------------------------------------------------------------
Init ==
    /\ docs = [d \in Docs |-> Absent]
    /\ seen = docs
    /\ cache = NoObject
    /\ Lock!Init
    /\ obj = [o \in Objects |-> Blank]
    /\ th = [t \in Threads |-> Free]
    /\ version = 0
    /\ gone = FALSE

\* A program makes the vertex.  It has no ID before it is saved.
New(t) ==
    /\ t = Author
    /\ th[t].pc = "idle"
    /\ version = 0
    /\ version' = 1
    /\ obj' = [obj EXCEPT ![Spare] = [Blank EXCEPT !.value = 1, !.dirty = TRUE]]
    /\ th' = [th EXCEPT ![t].pc = "hold", ![t].at = Spare]
    /\ UNCHANGED <<docs, seen, cache, holder, gone>>

\* getObjectById(): the cached object, shared with everyone who asks ...
CacheGet(t) ==
    /\ th[t].pc = "idle"
    /\ cache # NoObject
    /\ th' = [th EXCEPT ![t].pc = "hold", ![t].at = cache]
    /\ UNCHANGED <<docs, seen, cache, holder, obj, version, gone>>

\* A query: what was found is remembered until it is put into the cache.
ReadInto(t, label) ==
    \E d \in Found : th' = [th EXCEPT ![t].pc = label, ![t].doc = d,
                                      ![t].value = seen[d]]

\* ... or, when it is not there or the cache is ignored, a query.
Query(t) ==
    /\ th[t].pc = "idle"
    /\ IF Found = {} THEN UNCHANGED th ELSE ReadInto(t, "found")
    /\ UNCHANGED <<docs, seen, cache, holder, obj, version, gone>>

\* cachePut() of the object made from the answer.
CachePut(t) ==
    /\ th[t].pc = "found"
    /\ cache' = Spare
    /\ th' = [th EXCEPT ![t] = [Free EXCEPT !.pc = "hold", !.at = Spare]]
    /\ obj' = Collected([obj EXCEPT ![Spare] = Loaded(t)])
    /\ UNCHANGED <<docs, seen, holder, version, gone>>

Release(t) ==
    /\ th[t].pc = "hold"
    /\ th' = [th EXCEPT ![t] = Free]
    /\ UNCHANGED <<docs, seen, cache, holder, version, gone>>
    /\ obj' = Collected(obj)

\* KeyData.setUnderlying(): the data of the vertex, for which its monitor is
\* needed, are changed without it; setting the dirty flag needs it again.
GetData(t) ==
    /\ th[t].pc = "hold"
    /\ version \in 1 .. MaxVersion - 1
    /\ MonitorFree(t)
    /\ Goto(t, "data")
    /\ UNCHANGED <<docs, seen, cache, holder, obj, version, gone>>

\* (The last changes MaxVersion allows may be to the same content.)
Change(t) ==
    /\ th[t].pc = "data"
    /\ version' = IF version < MaxVersion THEN version + 1 ELSE version
    /\ obj' = [obj EXCEPT ![th[t].at].value = version']
    /\ Goto(t, IF MyObject(t).dirty THEN "hold" ELSE "mark")
    /\ UNCHANGED <<docs, seen, cache, holder, gone>>

SetDirty(t) ==
    /\ th[t].pc = "mark"
    /\ MonitorFree(t)
    /\ obj' = [obj EXCEPT ![th[t].at].dirty = TRUE]
    /\ Goto(t, "hold")
    /\ UNCHANGED <<docs, seen, cache, holder, version, gone>>

Call(t, method) ==
    /\ th[t].pc = "hold"
    /\ Goto(t, method)
    /\ UNCHANGED <<docs, seen, cache, holder, obj, version, gone>>
-----------------------------------------------------------------------------
(* save() *)

\* "isDeleting" is only TRUE while delete() holds the monitor save() needs,
\* so (!isDeleting || !isDeleted) holds whenever save() looks at it.
ToBeSaved(t) == MyObject(t).dirty \/ ~MyObject(t).hasId

NothingToSave(t) ==
    /\ th[t].pc = "save"
    /\ MonitorFree(t)
    /\ ~ToBeSaved(t)
    /\ Goto(t, "hold")
    /\ UNCHANGED <<docs, seen, cache, holder, obj, version, gone>>

\* touch() changes modifiedWhen and so makes the vertex dirty.
Touched(t) == [obj EXCEPT ![th[t].at].monitor = t, ![th[t].at].dirty = TRUE]

EnterSave(t, kind, label) ==
    /\ th[t].pc = "save"
    /\ MonitorFree(t)
    /\ ToBeSaved(t)
    /\ MyObject(t).hasId <=> kind = "update"
    /\ obj' = Touched(t)
    /\ \E d \in (IF label = "before" THEN Found ELSE {NoDoc}) :
         th' = [th EXCEPT ![t].pc = label, ![t].kind = kind, ![t].doc = d,
                          ![t].value = IF d = NoDoc THEN Absent ELSE seen[d],
                          ![t].since = MyObject(t).value]
    /\ UNCHANGED <<docs, seen, cache, holder, version, gone>>

Create(t) == EnterSave(t, "insert", "insert")

\* beforeUpdate(): with a user's credentials the stored vertex is read, and
\* cached, for the activity log.
Update(t) == EnterSave(t, "update", "lock") \/ EnterSave(t, "update", "before")

PutBeforeData(t) ==
    /\ th[t].pc = "before"
    /\ CacheNow(t, Spare, "lock", [obj EXCEPT ![Spare] = Loaded(t)])
    /\ UNCHANGED <<docs, seen, holder, version, gone>>

\* EsActionUpdate: blocker.start() ...
StartUpdate(t) ==
    /\ th[t].pc = "lock"
    /\ Lock!Start(t, Vertex)
    /\ Goto(t, "evict")
    /\ UNCHANGED <<docs, seen, cache, obj, version, gone>>

\* ... cache.remove() ...
Evict(t) ==
    /\ th[t].pc = "evict"
    /\ CacheNow(t, NoObject, "lookup", obj)
    /\ UNCHANGED <<docs, seen, holder, version, gone>>

AfterFailureAnyway(t) == CASE th[t].kind = "update" -> "unlock"
                           [] th[t].kind = "insert" -> "serialise"
                           [] th[t].kind = "delete" -> "deleted"

\* A vertex without document: the bulk request cannot be built, fixId() throws
\* and the insert with it (the mutant inserts all the same), delete() fails.
AfterFailure(t) == CASE th[t].kind = "update" -> "unlock"
                     [] th[t].kind = "insert" -> "cache"
                     [] th[t].kind = "delete" -> "deleted"

\* ... and toJson(): the content that will be sent.
SerialisedStored(t) ==      \* mutant: the stored content is sent again
    IF MyObject(t).indexId = NoDoc THEN MyObject(t).value
                                   ELSE docs[MyObject(t).indexId]
Serialised(t) == MyObject(t).value

Serialise(t) ==
    /\ th[t].pc = "serialise"
    /\ th' = [th EXCEPT ![t].pc = "request", ![t].value = Serialised(t)]
    /\ UNCHANGED <<docs, seen, cache, holder, obj, version, gone>>

\* A bulk update changes a document that is there, and never makes one.
ExistsUpsert(d) == TRUE                  \* mutant: an upsert
Exists(d) == docs[d] # Absent

UpdateAnswered(t) ==
    /\ th[t].pc = "request" /\ th[t].kind = "update"
    /\ Exists(MyObject(t).indexId)
    /\ docs' = [docs EXCEPT ![MyObject(t).indexId] = th[t].value]
    /\ seen' = docs'
    /\ th' = [th EXCEPT ![t].pc = "unlock", ![t].result = TRUE, ![t].wrote = TRUE]
    /\ UNCHANGED <<cache, holder, obj, version, gone>>

UpdateRejected(t) ==
    /\ th[t].pc = "request" /\ th[t].kind = "update"
    /\ Goto(t, "unlock")
    /\ UNCHANGED <<docs, seen, cache, holder, obj, version, gone>>

FinishedNever(t) == UNCHANGED holder       \* mutant: finished() is lost
FinishedWith(t) == Lock!Finished(t, Vertex)

FinishUpdate(t) ==
    /\ th[t].pc = "unlock"
    /\ FinishedWith(t)
    /\ Goto(t, "cache")
    /\ UNCHANGED <<docs, seen, cache, obj, version, gone>>

\* afterUpdate() caches the object whatever the result was ...
AfterUpdate(t) ==
    /\ th[t].pc = "cache"
    /\ cache' = th[t].at
    /\ Goto(t, "clean")
    /\ obj' = Collected(obj)
    /\ UNCHANGED <<docs, seen, holder, version, gone>>

\* ... and save() calls it clean whatever the result was.
EndSave(t) ==
    /\ th[t].pc = "clean"
    /\ obj' = [obj EXCEPT ![th[t].at].dirty = FALSE, ![th[t].at].monitor = NoThread]
    /\ th' = [th EXCEPT ![t] = Returned(t)]
    /\ UNCHANGED <<docs, seen, cache, holder, version, gone>>
-----------------------------------------------------------------------------
(* EsActionInsert.execute(), the frames of its retries and fixId() *)

FirstInsert(t) ==
    /\ th[t].pc = "insert"
    /\ th[t].tries = 0
    /\ obj' = [obj EXCEPT ![th[t].at].hasId = TRUE]
    /\ Goto(t, "serialise")
    /\ UNCHANGED <<docs, seen, cache, holder, version, gone>>

\* A retry first asks for the vertex.  If it is there the retry succeeds, but
\* error() drops what the retry returns.
RecallCached(t) ==
    /\ th[t].pc = "insert"
    /\ th[t].tries > 0
    /\ cache # NoObject
    /\ obj' = [obj EXCEPT ![th[t].at].indexId = obj[cache].indexId]
    /\ Goto(t, "cache")
    /\ UNCHANGED <<docs, seen, cache, holder, version, gone>>

\* Not found, the vertex has its ID already: fixId() wants to delete it first.
Recall(t) ==
    /\ th[t].pc = "insert"
    /\ th[t].tries > 0
    /\ cache = NoObject
    /\ IF Found = {} THEN Goto(t, "lookup") ELSE ReadInto(t, "recalled")
    /\ UNCHANGED <<docs, seen, cache, holder, obj, version, gone>>

\* The object read is cached, and the object being saved gets its index ID.
Identified(t) == [obj EXCEPT ![Spare] = Loaded(t), ![th[t].at].indexId = th[t].doc]

PutRecalled(t) ==
    /\ th[t].pc = "recalled"
    /\ CacheNow(t, Spare, "cache", Identified(t))
    /\ UNCHANGED <<docs, seen, holder, version, gone>>

\* Each insert request makes a document of its own.
InsertAnswered(t) ==
    /\ th[t].pc = "request" /\ th[t].kind = "insert"
    /\ LET d == th[t].tries + 1 IN
         /\ docs' = [docs EXCEPT ![d] = th[t].value]
         /\ obj' = [obj EXCEPT ![th[t].at].indexId = d]
    /\ seen' = docs'
    /\ th' = [th EXCEPT ![t].pc = "cache", ![t].result = th[t].tries = 0,
                        ![t].wrote = TRUE]
    /\ UNCHANGED <<cache, holder, version, gone>>

RetriesLeftOneMore(n) == n <= OfflineRetries       \* mutant: <= for <
RetriesLeft(n) == n < OfflineRetries

\* The request throws; the document may have been made, and is not refreshed.
\* NoNodeAvailableException leads to a retry.
InsertThrown(t) ==
    /\ th[t].pc = "request" /\ th[t].kind = "insert"
    /\ \E applied \in BOOLEAN :
         /\ docs' = IF applied THEN [docs EXCEPT ![th[t].tries + 1] = th[t].value]
                               ELSE docs
         /\ \/ Goto(t, "cache")
            \/ /\ RetriesLeft(th[t].tries)
               /\ th' = [th EXCEPT ![t].pc = "insert", ![t].tries = @ + 1]
    /\ UNCHANGED <<seen, cache, holder, obj, version, gone>>
-----------------------------------------------------------------------------
(* delete(), EsActionDelete, and the index ID that updates and deletes need *)

AlreadyDeleted(t) ==
    /\ th[t].pc = "delete"
    /\ MonitorFree(t)
    /\ MyObject(t).deleted
    /\ Goto(t, "hold")
    /\ UNCHANGED <<docs, seen, cache, holder, obj, version, gone>>

EnterDelete(t) ==
    /\ th[t].pc = "delete"
    /\ MonitorFree(t)
    /\ ~MyObject(t).deleted
    /\ cache' = IF MyObject(t).hasId THEN NoObject ELSE cache
    /\ th' = [th EXCEPT ![t].pc = "lookup", ![t].kind = "delete"]
    /\ obj' = Collected(Touched(t))
    /\ UNCHANGED <<docs, seen, holder, version, gone>>

AfterLookup(t) == IF th[t].kind = "update" THEN "serialise" ELSE "erase"

\* retrieveIndexId(): a vertex without index ID is looked for in the index,
\* and given up when it was not found for ten seconds.
Lookup(t) ==
    /\ th[t].pc = "lookup"
    /\ IF MyObject(t).indexId # NoDoc THEN Goto(t, AfterLookup(t))
       ELSE IF Found # {} THEN ReadInto(t, "lookedUp")
       ELSE Goto(t, AfterFailure(t))
    /\ UNCHANGED <<docs, seen, cache, holder, obj, version, gone>>

\* Every lookup caches the object it made.
PutLookedUp(t) ==
    /\ th[t].pc = "lookedUp"
    /\ CacheNow(t, Spare, AfterLookup(t), Identified(t))
    /\ UNCHANGED <<docs, seen, holder, version, gone>>

\* fixId() goes on only after a delete that found the document.
EraseAnswered(t) ==
    /\ th[t].pc = "erase"
    /\ docs' = [docs EXCEPT ![MyObject(t).indexId] = Absent]
    /\ seen' = docs'
    /\ Goto(t, IF docs[MyObject(t).indexId] # Absent THEN "erased" ELSE AfterFailure(t))
    /\ UNCHANGED <<cache, holder, obj, version, gone>>

\* The request throws and may have been applied.  Here the result of a retry
\* is kept.  (DocumentMissingException would count as success, but a delete does
\* not throw it: it answers that nothing was found, as in EraseAnswered.)
EraseThrown(t) ==
    /\ th[t].pc = "erase"
    /\ \E applied \in BOOLEAN :
         docs' = IF applied THEN [docs EXCEPT ![MyObject(t).indexId] = Absent]
                            ELSE docs
    /\ \/ Goto(t, AfterFailure(t))
       \/ /\ RetriesLeft(th[t].again)
          /\ th' = [th EXCEPT ![t].again = @ + 1]
    /\ UNCHANGED <<seen, cache, holder, obj, version, gone>>

\* EsIndexEngine takes the vertex out of the cache; fixId() forgets its index
\* ID and the insert goes on.
Erased(t) ==
    /\ th[t].pc = "erased"
    /\ cache' = NoObject
    /\ IF th[t].kind = "insert"
         THEN /\ th' = [th EXCEPT ![t].pc = "serialise", ![t].again = 0]
              /\ obj' = Collected([obj EXCEPT ![th[t].at].indexId = NoDoc])
         ELSE /\ th' = [th EXCEPT ![t].pc = "deleted", ![t].result = TRUE]
              /\ obj' = Collected(obj)
    /\ UNCHANGED <<docs, seen, holder, version, gone>>

EndDelete(t) ==
    /\ th[t].pc = "deleted"
    /\ obj' = [obj EXCEPT ![th[t].at].deleted = th[t].result,
                          ![th[t].at].monitor = NoThread]
    /\ gone' = (gone \/ th[t].result)
    /\ th' = [th EXCEPT ![t] = Returned(t)]
    /\ UNCHANGED <<docs, seen, cache, holder, version>>

\* ElasticSearch refreshes its indexes by itself now and then.
Refresh ==
    /\ seen # docs
    /\ seen' = docs
    /\ UNCHANGED <<docs, cache, holder, obj, th, version, gone>>

\* What the program decides to do ...
Ask(t) == \/ New(t) \/ CacheGet(t) \/ Query(t) \/ Release(t) \/ GetData(t)
          \/ Call(t, "save") \/ (t \in Deleters /\ Call(t, "delete"))

\* ... and what the code does then.
Step(t) ==
    \/ CachePut(t) \/ Change(t) \/ SetDirty(t)
    \/ NothingToSave(t) \/ Create(t) \/ Update(t) \/ PutBeforeData(t)
    \/ StartUpdate(t) \/ Evict(t) \/ Serialise(t) \/ UpdateAnswered(t)
    \/ UpdateRejected(t) \/ FinishUpdate(t) \/ AfterUpdate(t) \/ EndSave(t)
    \/ FirstInsert(t) \/ RecallCached(t) \/ Recall(t) \/ PutRecalled(t)
    \/ InsertAnswered(t) \/ InsertThrown(t)
    \/ AlreadyDeleted(t) \/ EnterDelete(t) \/ Lookup(t) \/ PutLookedUp(t)
    \/ EraseAnswered(t) \/ EraseThrown(t) \/ Erased(t) \/ EndDelete(t)

Next == Refresh \/ \E t \in Threads : Ask(t) \/ Step(t)

Spec == Init /\ [][Next]_vars

\* A thread keeps running and gets the monitors and the lock it waits for.
Fairness == \A t \in Threads : SF_vars(Step(t))

FairSpec == Spec /\ Fairness
-----------------------------------------------------------------------------
ObjectRecords ==
    [value : Versions \cup {Absent}, hasId : BOOLEAN, indexId : Docs \cup {NoDoc},
     dirty : BOOLEAN, deleted : BOOLEAN, monitor : Threads \cup {NoThread}]

ThreadRecords ==
    [pc : PCs, at : Objects \cup {NoObject},
     kind : {"none", "update", "insert", "delete"},
     doc : Docs \cup {NoDoc}, value : Versions \cup {Absent},
     tries : 0 .. OfflineRetries, again : 0 .. OfflineRetries,
     result : BOOLEAN, since : Versions \cup {Absent}, wrote : BOOLEAN]

\* Type invariant of the vertex's objects, documents and threads.
TypeOK ==
    /\ docs \in [Docs -> Versions \cup {Absent}]
    /\ seen \in [Docs -> Versions \cup {Absent}]
    /\ cache \in Objects \cup {NoObject}
    /\ holder \in [{Vertex} -> Threads \cup {NoThread}]
    /\ obj \in [Objects -> ObjectRecords]
    /\ th \in [Threads -> ThreadRecords]
    /\ version \in 0 .. MaxVersion
    /\ gone \in BOOLEAN

AtMostOne(S) == \A d, e \in S : d = e

\* The vertex has one document at most, in the index and in what a search
\* sees, whatever inserts were retried after a lost answer: getById() fails
\* for good on a vertex that has two.
OneDocument == AtMostOne(Stored(docs)) /\ AtMostOne(Stored(seen))

\* Once a delete() has returned TRUE the vertex is not stored again, neither
\* by updates of other objects that stand for it nor by a retried insert.
DeletedForGood == gone => Stored(docs) = {}

\* save() returns TRUE only if ElasticSearch has applied a request with every
\* change that was made to the object before the call.
ReportedSave ==
    \A t \in Threads :
        th[t].pc = "clean" /\ th[t].result
            => th[t].wrote /\ th[t].value >= th[t].since

\* Every call returns: monitors, the vertex lock, the retries and the lookups
\* never leave a thread behind.
CallsReturn == \A t \in Threads : th[t].pc \notin Resting ~> th[t].pc \in Resting

\* After a successful delete() the cache does not know the vertex.
DeletedNotCached ==
    gone /\ (\A t \in Threads : th[t].pc \in Resting) => cache = NoObject
=============================================================================
