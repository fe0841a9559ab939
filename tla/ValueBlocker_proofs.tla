------------------------- MODULE ValueBlocker_proofs ------------------------
(***************************************************************************)
(* ValueBlocker serves any number of threads one at a time and in the      *)
(* order in which they came, for any number of values, whatever its        *)
(* unsynchronized reads see and however many threads time out.             *)
(***************************************************************************)
EXTENDS ValueBlocker, SequenceTheorems, WellFoundedInduction, TLAPS

-----------------------------------------------------------------------------
\* The least element of a set of numbers is one of its elements.
LEMMA LeastNatural ==
    ASSUME NEW I \in SUBSET Nat, I # {}
    PROVE  Min(I) \in I /\ \A j \in I : Min(I) <= j
<1> DEFINE Less == OpToRel(<, Nat)
<1>1. IsWellFoundedOn(Less, Nat)
  BY NatLessThanWellFounded
<1>2. \A x, y \in Nat : <<x, y>> \in Less <=> x < y
  BY DEF OpToRel
<1> HIDE DEF Less
<1>3. PICK i \in I : \A j \in I : ~(<<j, i>> \in Less)
  BY <1>1, WFMin
<1>4. \A j \in I : i <= j
  <2> SUFFICES ASSUME NEW j \in I
               PROVE  i <= j
    OBVIOUS
  <2>1. i \in Nat /\ j \in Nat
    OBVIOUS
  <2>2. ~(j < i)
    BY <1>2, <1>3, <2>1
  <2> QED
    BY <2>1, <2>2
<1> QED
  BY <1>3, <1>4 DEF Min

\* remove() leaves out one element, the first that is equal to k, and moves
\* those behind it one place to the front.
LEMMA WithoutIs ==
    ASSUME NEW s \in Seq(Tickets), NEW k, \E i \in 1..Len(s) : s[i] = k
    PROVE  \E p \in 1..Len(s) :
              /\ s[p] = k /\ \A j \in 1..p-1 : s[j] # k
              /\ Without(s, k) \in Seq(Tickets)
              /\ Len(Without(s, k)) = Len(s) - 1
              /\ \A i \in 1..Len(s)-1 :
                    Without(s, k)[i] = IF i < p THEN s[i] ELSE s[i+1]
<1> DEFINE I == {i \in 1..Len(s) : s[i] = k}
           p == Min(I)
<1>1. I \in SUBSET Nat /\ I # {}
  OBVIOUS
<1>2. Min(I) \in I /\ \A j \in I : Min(I) <= j
  BY <1>1, LeastNatural
<1>3. Without(s, k) = RemoveAt(s, p)
  BY <1>1 DEF Without, RemoveFirst, SelectInSeq
<1> HIDE DEF p
<1>4. Without(s, k) = SubSeq(s, 1, p-1) \o SubSeq(s, p+1, Len(s))
  BY <1>3 DEF RemoveAt
<1>5. p \in 1..Len(s) /\ s[p] = k
  BY <1>2 DEF I, p
<1>6. \A j \in 1..p-1 : s[j] # k
  BY <1>2, <1>5 DEF I, p
<1> HIDE DEF I
<1>7. /\ SubSeq(s, 1, p-1) \in Seq(Tickets)
      /\ Len(SubSeq(s, 1, p-1)) = p - 1
      /\ \A i \in 1..p-1 : SubSeq(s, 1, p-1)[i] = s[i]
  BY <1>5, SubSeqProperties
<1>8. /\ SubSeq(s, p+1, Len(s)) \in Seq(Tickets)
      /\ Len(SubSeq(s, p+1, Len(s))) = Len(s) - p
      /\ \A i \in 1..Len(s)-p : SubSeq(s, p+1, Len(s))[i] = s[p+i]
  BY <1>5, SubSeqProperties
<1>9. /\ Without(s, k) \in Seq(Tickets)
      /\ Len(Without(s, k)) = Len(s) - 1
      /\ \A i \in 1..Len(s)-1 :
            Without(s, k)[i] = IF i < p THEN s[i] ELSE s[i+1]
  <2> DEFINE front == SubSeq(s, 1, p-1)
             back == SubSeq(s, p+1, Len(s))
  <2>1. front \in Seq(Tickets) /\ back \in Seq(Tickets)
    BY <1>7, <1>8
  <2>2. /\ Len(front) = p - 1 /\ Len(back) = Len(s) - p
        /\ \A i \in 1..p-1 : front[i] = s[i]
        /\ \A i \in 1..Len(s)-p : back[i] = s[p+i]
    BY <1>7, <1>8
  <2>3. /\ front \o back \in Seq(Tickets)
        /\ Len(front \o back) = Len(front) + Len(back)
        /\ \A i \in 1..Len(front) + Len(back) :
              (front \o back)[i] = IF i <= Len(front) THEN front[i]
                                   ELSE back[i - Len(front)]
    <3> HIDE DEF front, back
    <3> QED
      BY <2>1, ConcatProperties
  <2>4. Without(s, k) = front \o back
    BY <1>4
  <2> HIDE DEF front, back
  <2>5. Len(s) \in Nat /\ p \in Nat
    BY <1>5
  <2>6. ASSUME NEW i \in 1..Len(s)-1
        PROVE  Without(s, k)[i] = IF i < p THEN s[i] ELSE s[i+1]
    <3>1. CASE i < p
      <4>1. i \in 1..p-1
        BY <2>5, <3>1
      <4> QED
        BY <2>2, <2>3, <2>4, <2>5, <3>1, <4>1
    <3>2. CASE ~(i < p)
      <4>1. i - (p - 1) \in 1..Len(s)-p /\ p + (i - (p - 1)) = i + 1
        BY <1>5, <2>5, <3>2
      <4>2. back[i - (p - 1)] = s[i+1]
        BY <2>2, <4>1
      <4>3. i \in 1..Len(front) + Len(back) /\ ~(i <= Len(front))
        BY <1>5, <2>2, <2>5, <3>2
      <4> QED
        BY <2>2, <2>3, <2>4, <3>2, <4>2, <4>3
    <3> QED
      BY <3>1, <3>2
  <2>7. Len(front) + Len(back) = Len(s) - 1
    BY <2>2, <2>5
  <2> QED
    BY <2>3, <2>4, <2>6, <2>7
<1> QED
  BY <1>5, <1>6, <1>9

\* Nothing is left out of a queue that does not hold the ID.
LEMMA WithoutNone ==
    ASSUME NEW s, NEW k, ~\E i \in 1..Len(s) : s[i] = k
    PROVE  Without(s, k) = s
BY DEF Without, RemoveFirst

\* What matters of it: the other IDs stay, and in their order.
LEMMA WithoutKeeps ==
    ASSUME NEW s \in Seq(Tickets), NEW k
    PROVE  /\ Without(s, k) \in Seq(Tickets)
           /\ s # <<>> /\ Head(s) # k =>
                 Without(s, k) # <<>> /\ Head(Without(s, k)) = Head(s)
           /\ \A i \in DOMAIN s : s[i] # k =>
                 \E j \in DOMAIN Without(s, k) : Without(s, k)[j] = s[i]
           /\ \A i \in DOMAIN Without(s, k) :
                 \E j \in DOMAIN s : s[j] = Without(s, k)[i]
<1>1. CASE ~\E i \in 1..Len(s) : s[i] = k
  BY <1>1, WithoutNone
<1>2. CASE \E i \in 1..Len(s) : s[i] = k
  <2> DEFINE r == Without(s, k)
  <2>1. PICK p \in 1..Len(s) :
           /\ s[p] = k
           /\ r \in Seq(Tickets) /\ Len(r) = Len(s) - 1
           /\ \A i \in 1..Len(s)-1 : r[i] = IF i < p THEN s[i] ELSE s[i+1]
    BY <1>2, WithoutIs
  <2> HIDE DEF r
  <2>2. DOMAIN s = 1..Len(s) /\ DOMAIN r = 1..Len(s)-1 /\ Len(s) \in Nat
    BY <2>1
  <2>3. s # <<>> /\ Head(s) # k => r # <<>> /\ Head(r) = Head(s)
    <3> SUFFICES ASSUME s[1] # k
                 PROVE  r # <<>> /\ r[1] = s[1]
      BY <2>1, <2>2
    <3>1. 1 < p /\ 1 \in 1..Len(s)-1
      BY <2>1, <2>2
    <3> QED
      BY <2>1, <2>2, <3>1
  <2>4. ASSUME NEW i \in DOMAIN s, s[i] # k
        PROVE  \E j \in DOMAIN r : r[j] = s[i]
    <3>1. CASE i < p
      <4>1. i \in 1..Len(s)-1
        BY <2>1, <2>2, <3>1
      <4> QED
        BY <2>1, <2>2, <3>1, <4>1
    <3>2. CASE i > p
      <4>1. i - 1 \in 1..Len(s)-1 /\ ~(i - 1 < p) /\ (i - 1) + 1 = i
        BY <2>1, <2>2, <3>2
      <4> QED
        BY <2>1, <2>2, <4>1
    <3> QED
      BY <2>1, <2>2, <2>4, <3>1, <3>2
  <2>5. ASSUME NEW i \in DOMAIN r
        PROVE  \E j \in DOMAIN s : s[j] = r[i]
    BY <2>1, <2>2
  <2> QED
    BY <2>1, <2>3, <2>4, <2>5 DEF r
<1> QED
  BY <1>1, <1>2

\* No m in s unless a k stands before it.
Before(s, k, m) == \A i \in DOMAIN s : s[i] = m => \E j \in 1..i-1 : s[j] = k

\* A new ID at the end changes nothing for those before it.
LEMMA AppendKeepsOrder ==
    ASSUME NEW s \in Seq(Tickets), NEW k \in Tickets, NEW a, NEW b,
           Before(s, b, a), k = a => \E j \in DOMAIN s : s[j] = b
    PROVE  Before(Append(s, k), b, a)
<1> DEFINE r == Append(s, k)
<1>1. /\ DOMAIN r = 1..Len(s) + 1 /\ DOMAIN s = 1..Len(s) /\ Len(s) \in Nat
      /\ r[Len(s) + 1] = k /\ \A i \in 1..Len(s) : r[i] = s[i]
  OBVIOUS
<1> HIDE DEF r
<1> SUFFICES ASSUME NEW i \in DOMAIN r, r[i] = a
             PROVE  \E j \in 1..i-1 : r[j] = b
  BY DEF Before, r
<1>2. CASE i \in 1..Len(s)
  <2>1. PICK j \in 1..i-1 : s[j] = b
    BY <1>1, <1>2 DEF Before
  <2> QED
    BY <1>1, <1>2, <2>1
<1>3. CASE i = Len(s) + 1
  <2>1. PICK j \in DOMAIN s : s[j] = b
    BY <1>1, <1>3
  <2> QED
    BY <1>1, <1>3, <2>1
<1> QED
  BY <1>1, <1>2, <1>3

\* Nor does the removal of a third ID.
LEMMA WithoutKeepsOrder ==
    ASSUME NEW s \in Seq(Tickets), NEW k, NEW a, NEW b, a # k, b # k,
           Before(s, b, a)
    PROVE  Before(Without(s, k), b, a)
<1>1. CASE ~\E i \in 1..Len(s) : s[i] = k
  BY <1>1, WithoutNone
<1>2. CASE \E i \in 1..Len(s) : s[i] = k
  <2> DEFINE r == Without(s, k)
  <2>1. PICK p \in 1..Len(s) :
           /\ s[p] = k
           /\ r \in Seq(Tickets) /\ Len(r) = Len(s) - 1
           /\ \A i \in 1..Len(s)-1 : r[i] = IF i < p THEN s[i] ELSE s[i+1]
    BY <1>2, WithoutIs
  <2> HIDE DEF r
  <2>2. DOMAIN s = 1..Len(s) /\ DOMAIN r = 1..Len(s)-1 /\ Len(s) \in Nat
    BY <2>1
  <2> SUFFICES ASSUME NEW i \in DOMAIN r, r[i] = a
               PROVE  \E j \in 1..i-1 : r[j] = b
    BY DEF r, Before
  <2>3. PICK old \in 1..Len(s) : s[old] = a /\ old = IF i < p THEN i ELSE i + 1
    BY <2>1, <2>2
  <2>4. PICK j \in 1..old-1 : s[j] = b
    BY <2>2, <2>3 DEF Before
  <2>5. j # p
    BY <2>1, <2>4
  <2>6. CASE j < p
    <3>1. j \in 1..i-1 /\ j \in 1..Len(s)-1
      BY <2>2, <2>3, <2>6
    <3> QED
      BY <2>1, <2>4, <2>6, <3>1
  <2>7. CASE j > p
    <3>1. j - 1 \in 1..i-1 /\ j - 1 \in 1..Len(s)-1 /\ ~(j - 1 < p)
          /\ (j - 1) + 1 = j
      BY <2>2, <2>3, <2>7
    <3> QED
      BY <2>1, <2>4, <3>1
  <2> QED
    BY <2>5, <2>6, <2>7, <2>2, <2>3
<1> QED
  BY <1>1, <1>2
(***************************************************************************)
(* The inductive invariant.  IDs are numbered as they are given and belong *)
(* to one thread; who is queued or has his turn is in the queue, who has   *)
(* his turn is its head, and of two who are queued the one with the lower  *)
(* number comes first: no element of the queue is the higher number unless *)
(* the lower one stands before it, also when either is there twice.        *)
(***************************************************************************)
Owned ==
    \A t \in Threads :
        /\ pc[t] = "idle" => ticket[t] = 0
        /\ pc[t] # "idle" => value[t] \in Values
        /\ pc[t] \in Waiting \cup Inside => ticket[t] # 0
        /\ ticket[t] <= calls
        /\ t \in late => pc[t] \in Inside

Unique ==
    \A t, u \in Threads : ticket[t] = ticket[u] /\ ticket[t] # 0 => t = u

Given == \A v \in Values : \A i \in DOMAIN queue[v] : queue[v][i] <= calls

AtHead ==
    \A t \in Threads :
        HasTurn(t) => /\ queue[value[t]] # <<>>
                      /\ Head(queue[value[t]]) = ticket[t]

Ordered ==
    \A t, u \in Threads :
        Queued(t) /\ Queued(u) /\ value[t] = value[u] /\ ticket[u] < ticket[t]
            => Before(queue[value[t]], ticket[u], ticket[t])

QueueInv == TypeOK /\ Owned /\ Unique /\ Given
TurnsInv == QueueInv /\ StillQueued /\ AtHead /\ Ordered

-----------------------------------------------------------------------------
\* A thread that has an ID has one that was given.
LEMMA TicketTypes ==
    ASSUME QueueInv, NEW t \in Threads
    PROVE  /\ pc[t] \in PCs /\ ticket[t] \in Nat /\ calls \in Nat
           /\ pc[t] # "idle" => value[t] \in Values /\ queue[value[t]] \in Seq(Tickets)
           /\ pc[t] \in Waiting \cup Inside => ticket[t] \in Tickets
           /\ IdOf(t) \in Tickets
BY DEF QueueInv, TypeOK, Owned, Tickets, IdOf

\* Types.
LEMMA TypeStep ==
    ASSUME QueueInv, [Next]_vars
    PROVE  TypeOK'
<1> USE DEF blocker, store, history
<1>0. TypeOK
  BY DEF QueueInv
<1>1. ASSUME NEW t \in Threads, NEW v \in Values, GetOrCreate(t, v)
      PROVE  TypeOK'
  BY <1>0, <1>1 DEF GetOrCreate, TypeOK, At, Goto, PCs, Inside, Waiting
<1>2. ASSUME NEW t \in Threads, EnterAdd(t)
      PROVE  TypeOK'
  BY <1>0, <1>2 DEF EnterAdd, TypeOK, At, Goto, PCs, Inside, Waiting
<1>3. ASSUME NEW t \in Threads, Add(t)
      PROVE  TypeOK'
  <2>1. value[t] \in Values /\ queue[value[t]] \in Seq(Tickets)
    BY <1>0, <1>3, TicketTypes DEF Add, At
  <2>2. LastInLine(queue[value[t]], IdOf(t)) \in Seq(Tickets)
    BY <2>1, TicketTypes DEF LastInLine
  <2>3. queue' \in [Values -> Seq(Tickets)]
    BY <1>0, <1>3, <2>1, <2>2 DEF Add, TypeOK
  <2>4. /\ IdOf(t) \in Nat /\ calls + 1 \in Nat
        /\ ticket[t] # 0 => ticket[t] \in Tickets
    BY <1>0, <1>3, TicketTypes DEF TypeOK, Tickets
  <2>5. /\ ticket' \in [Threads -> Nat]
        /\ calls' \in Nat
    BY <1>0, <1>3, <2>4 DEF Add, TypeOK
  <2>6. again' \subseteq Tickets
    BY <1>0, <1>3, <2>4 DEF Add, TypeOK
  <2> QED
    BY <1>0, <1>3, <2>3, <2>5, <2>6 DEF Add, TypeOK, At, Goto, PCs, Waiting
<1>4. ASSUME NEW t \in Threads, TakeTurn(t)
      PROVE  TypeOK'
  BY <1>0, <1>4 DEF TakeTurn, TypeOK, At, Goto, PCs, Inside, Waiting
<1>5. ASSUME NEW t \in Threads, Quit(t)
      PROVE  TypeOK'
  <2>1. value[t] \in Values /\ queue[value[t]] \in Seq(Tickets)
    BY <1>0, <1>5, TicketTypes DEF Quit, At
  <2>2. Without(queue[value[t]], ticket[t]) \in Seq(Tickets)
    BY <2>1, WithoutKeeps
  <2>3. queue' \in [Values -> Seq(Tickets)]
    BY <1>0, <1>5, <2>1, <2>2 DEF Quit, TypeOK
  <2> QED
    BY <1>0, <1>5, <2>1, <2>3 DEF Quit, TypeOK, At, Goto, PCs, Inside
<1>6. ASSUME NEW t \in Threads, Query(t)
      PROVE  TypeOK'
  BY <1>0, <1>6 DEF Query, TypeOK, At, Goto, PCs, Inside, Waiting
<1>6a. ASSUME NEW t \in Threads, SearchFails(t)
       PROVE  TypeOK'
  <2>1. value[t] \in Values
    BY <1>0, <1>6a, TicketTypes DEF SearchFails, At
  <2> QED
    BY <1>0, <1>6a, <2>1 DEF SearchFails, TypeOK, At, Goto, PCs, Inside, Waiting
<1>7. ASSUME NEW t \in Threads, Make(t)
      PROVE  TypeOK'
  <2>1. value[t] \in Values
    BY <1>0, <1>7, TicketTypes DEF Make, At
  <2>2. /\ sites' \in {sites, [sites EXCEPT ![value[t]] = sites[value[t]] + 1]}
        /\ visible' \in {visible, [visible EXCEPT ![value[t]] = TRUE]}
        /\ excused' \in {excused, excused \cup {value[t]}}
    BY <1>0, <1>7 DEF Make
  <2>3. sites[value[t]] + 1 \in Nat
    BY <1>0, <1>7, <2>1 DEF TypeOK
  <2>4. sites' \in [Values -> Nat] /\ excused' \subseteq Values
    BY <1>0, <1>7, <2>1, <2>2, <2>3 DEF TypeOK
  <2>5. visible' \in [Values -> BOOLEAN]
    BY <1>0, <1>7, <2>1, <2>2 DEF TypeOK
  <2>6. pc' \in [Threads -> PCs]
    BY <1>0, <1>7 DEF Make, Goto, TypeOK, PCs, Inside
  <2>7. UNCHANGED <<queue, ticket, calls, value, late, again>>
    BY <1>0, <1>7 DEF Make
  <2> QED
    BY <1>0, <1>7, <2>4, <2>5, <2>6, <2>7 DEF TypeOK
<1>8. ASSUME NEW t \in Threads, Unblock(t)
      PROVE  TypeOK'
  <2>1. value[t] \in Values /\ queue[value[t]] \in Seq(Tickets)
    BY <1>0, <1>8, TicketTypes DEF Unblock, At
  <2>2. Without(queue[value[t]], ticket[t]) \in Seq(Tickets)
    BY <2>1, WithoutKeeps
  <2>3. queue' \in [Values -> Seq(Tickets)]
    BY <1>0, <1>8, <2>1, <2>2 DEF Unblock, TypeOK
  <2> QED
    BY <1>0, <1>8, <2>1, <2>3 DEF Unblock, TypeOK, At, Goto, PCs, Inside
<1>9. ASSUME NEW t \in Threads, QueueAgain(t)
      PROVE  TypeOK'
  BY <1>0, <1>9 DEF QueueAgain, TypeOK, At, Goto, PCs, Inside, Waiting
<1>10. ASSUME NEW t \in Threads, TimeOut(t)
       PROVE  TypeOK'
  BY <1>0, <1>10 DEF TimeOut, TypeOK, At, Goto, PCs, Inside, Waiting
<1>11. ASSUME NEW v \in Values, Refresh(v)
       PROVE  TypeOK'
  BY <1>0, <1>11 DEF Refresh, TypeOK, At, Goto, PCs, Inside, Waiting
<1>12. CASE UNCHANGED vars
  BY <1>0, <1>12 DEF vars, TypeOK, blocker, store, history
<1> QED
  BY <1>1, <1>2, <1>3, <1>4, <1>5, <1>6, <1>6a, <1>7, <1>8, <1>9, <1>10, <1>11,
     <1>12 DEF Next, Step, Hazard

\* IDs are given once, to one thread.
LEMMA OwnedStep ==
    ASSUME QueueInv, [Next]_vars
    PROVE  Owned' /\ Unique' /\ Given'
<1> USE DEF blocker, store, history
<1>0. TypeOK /\ Owned /\ Unique /\ Given
  BY DEF QueueInv
<1>1. ASSUME NEW t \in Threads, NEW v \in Values, GetOrCreate(t, v)
      PROVE  Owned' /\ Unique' /\ Given'
  BY <1>0, <1>1 DEF TypeOK, Owned, Unique, Given, GetOrCreate, At, Goto, Waiting, Inside
<1>2. ASSUME NEW t \in Threads, EnterAdd(t)
      PROVE  Owned' /\ Unique' /\ Given'
  BY <1>0, <1>2 DEF TypeOK, Owned, Unique, Given, EnterAdd, At, Goto, Waiting, Inside
<1>3. ASSUME NEW t \in Threads, Add(t)
      PROVE  Owned' /\ Unique' /\ Given'
  <2>1. /\ ticket' = [ticket EXCEPT ![t] = IdOf(t)]
        /\ calls' \in Nat /\ calls <= calls' /\ IdOf(t) \in Nat /\ IdOf(t) <= calls'
        /\ ticket[t] = 0 => IdOf(t) = calls + 1
        /\ ticket[t] # 0 => IdOf(t) = ticket[t]
        /\ IdOf(t) # 0
    BY <1>0, <1>3, TicketTypes DEF Add, IdOf, Owned, Tickets
  <2>2. pc[t] = "adding" /\ pc' = [pc EXCEPT ![t] = "wait"] /\ UNCHANGED <<value, late>>
    BY <1>0, <1>3 DEF Add, At, Goto
  <2>3. Owned'
    BY <1>0, <2>1, <2>2 DEF TypeOK, Owned, Waiting, Inside
  <2>4. Unique'
    <3> SUFFICES ASSUME NEW u \in Threads, u # t, ticket[u] # 0
                 PROVE  ticket[u] # IdOf(t)
      BY <1>0, <2>1 DEF TypeOK, Unique
    <3>1. ticket[u] <= calls /\ ticket[u] \in Nat /\ calls \in Nat
      BY <1>0, TicketTypes DEF Owned
    <3> QED
      BY <1>0, <2>1, <3>1 DEF Unique
  <2>5. value[t] \in Values /\ queue[value[t]] \in Seq(Tickets)
    BY <1>0, <1>3, TicketTypes DEF Add, At
  <2>6. \A j \in DOMAIN Append(queue[value[t]], IdOf(t)) :
           Append(queue[value[t]], IdOf(t))[j] <= calls'
    <3> SUFFICES ASSUME NEW j \in DOMAIN Append(queue[value[t]], IdOf(t))
                 PROVE  Append(queue[value[t]], IdOf(t))[j] <= calls'
      OBVIOUS
    <3>1. CASE j \in DOMAIN queue[value[t]]
      <4>1. queue[value[t]][j] <= calls /\ queue[value[t]][j] \in Nat /\ calls \in Nat
        BY <1>0, <2>5, <3>1 DEF Given, TypeOK, Tickets
      <4> QED
        BY <2>1, <2>5, <3>1, <4>1
    <3>2. CASE j \notin DOMAIN queue[value[t]]
      BY <2>1, <2>5, <3>2
    <3> QED
      BY <3>1, <3>2
  <2>7. Given'
    <3> SUFFICES ASSUME NEW v \in Values, v # value[t], NEW j \in DOMAIN queue[v]
                 PROVE  queue[v][j] <= calls'
      BY <1>0, <1>3, <2>5, <2>6 DEF Add, LastInLine, Given, TypeOK
    <3>1. queue[v][j] <= calls /\ queue[v][j] \in Nat /\ calls \in Nat
      BY <1>0 DEF Given, TypeOK, Tickets
    <3> QED
      BY <2>1, <3>1
  <2> QED
    BY <2>3, <2>4, <2>7
<1>4. ASSUME NEW t \in Threads, TakeTurn(t)
      PROVE  Owned' /\ Unique' /\ Given'
  BY <1>0, <1>4 DEF TypeOK, Owned, Unique, Given, TakeTurn, At, Goto, Waiting, Inside
<1>5. ASSUME NEW t \in Threads, Quit(t)
      PROVE  Owned' /\ Unique' /\ Given'
  <2>1. Owned' /\ Unique'
    BY <1>0, <1>5 DEF TypeOK, Owned, Unique, Quit, At, Goto, Waiting, Inside
  <2>2. value[t] \in Values /\ queue[value[t]] \in Seq(Tickets)
    BY <1>0, <1>5, TicketTypes DEF Quit, At
  <2>3. \A j \in DOMAIN Without(queue[value[t]], ticket[t]) :
           Without(queue[value[t]], ticket[t])[j] <= calls
    BY <1>0, <2>2, WithoutKeeps DEF Given
  <2>4. Given'
    BY <1>0, <1>5, <2>2, <2>3 DEF Quit, Given, TypeOK
  <2> QED
    BY <2>1, <2>4
<1>6. ASSUME NEW t \in Threads, Query(t)
      PROVE  Owned' /\ Unique' /\ Given'
  BY <1>0, <1>6 DEF TypeOK, Owned, Unique, Given, Query, At, Goto, Waiting, Inside
<1>6a. ASSUME NEW t \in Threads, SearchFails(t)
       PROVE  Owned' /\ Unique' /\ Given'
  BY <1>0, <1>6a DEF TypeOK, Owned, Unique, Given, SearchFails, At, Goto, Waiting, Inside
<1>7. ASSUME NEW t \in Threads, Make(t)
      PROVE  Owned' /\ Unique' /\ Given'
  BY <1>0, <1>7 DEF TypeOK, Owned, Unique, Given, Make, At, Goto, Waiting, Inside
<1>8. ASSUME NEW t \in Threads, Unblock(t)
      PROVE  Owned' /\ Unique' /\ Given'
  <2>1. Owned' /\ Unique'
    BY <1>0, <1>8 DEF TypeOK, Owned, Unique, Unblock, At, Goto, Waiting, Inside
  <2>2. value[t] \in Values /\ queue[value[t]] \in Seq(Tickets)
    BY <1>0, <1>8, TicketTypes DEF Unblock, At
  <2>3. \A j \in DOMAIN Without(queue[value[t]], ticket[t]) :
           Without(queue[value[t]], ticket[t])[j] <= calls
    BY <1>0, <2>2, WithoutKeeps DEF Given
  <2>4. Given'
    BY <1>0, <1>8, <2>2, <2>3 DEF Unblock, Given, TypeOK
  <2> QED
    BY <2>1, <2>4
<1>9. ASSUME NEW t \in Threads, QueueAgain(t)
      PROVE  Owned' /\ Unique' /\ Given'
  BY <1>0, <1>9 DEF TypeOK, Owned, Unique, Given, QueueAgain, At, Goto, Waiting, Inside
<1>10. ASSUME NEW t \in Threads, TimeOut(t)
       PROVE  Owned' /\ Unique' /\ Given'
  BY <1>0, <1>10 DEF TypeOK, Owned, Unique, Given, TimeOut, At, Goto, Waiting, Inside
<1>11. ASSUME NEW v \in Values, Refresh(v)
       PROVE  Owned' /\ Unique' /\ Given'
  BY <1>0, <1>11 DEF Refresh, Owned, Unique, Given
<1>12. CASE UNCHANGED vars
  BY <1>0, <1>12 DEF vars, Owned, Unique, Given, blocker, history
<1> QED
  BY <1>1, <1>2, <1>3, <1>4, <1>5, <1>6, <1>6a, <1>7, <1>8, <1>9, <1>10, <1>11,
     <1>12 DEF Next, Step, Hazard

\* Who waits stays in the queue and in his place of it.
LEMMA TurnsStep ==
    ASSUME TurnsInv, [Next]_vars
    PROVE  StillQueued' /\ AtHead' /\ Ordered'
<1> USE DEF blocker, store, history
<1>0. /\ QueueInv /\ TypeOK /\ Owned /\ Unique /\ Given
      /\ StillQueued /\ AtHead /\ Ordered
  BY DEF TurnsInv, QueueInv
<1>1. ASSUME NEW t \in Threads, NEW v \in Values, GetOrCreate(t, v)
      PROVE  StillQueued' /\ AtHead' /\ Ordered'
  <2>1. /\ UNCHANGED <<queue, ticket>> /\ ~Queued(t)' /\ ~HasTurn(t)'
        /\ \A u \in Threads \ {t} :
              /\ Queued(u)' = Queued(u) /\ HasTurn(u)' = HasTurn(u)
              /\ value'[u] = value[u]
    BY <1>0, <1>1 DEF GetOrCreate, At, Goto, TypeOK, Owned, Queued, HasTurn,
           Waiting, Inside
  <2>2. StillQueued' /\ AtHead'
    BY <1>0, <2>1 DEF StillQueued, AtHead
  <2>3. Ordered'
    BY <1>0, <2>1 DEF Ordered, Before
  <2> QED
    BY <2>2, <2>3
<1>2. ASSUME NEW t \in Threads, EnterAdd(t)
      PROVE  StillQueued' /\ AtHead' /\ Ordered'
  <2>1. /\ UNCHANGED <<queue, ticket, value>>
        /\ \A u \in Threads : Queued(u)' = Queued(u) /\ HasTurn(u)' = HasTurn(u)
    BY <1>0, <1>2 DEF EnterAdd, At, Goto, TypeOK, Owned, Queued, HasTurn, Waiting,
           Inside
  <2>2. StillQueued' /\ AtHead'
    BY <1>0, <2>1 DEF StillQueued, AtHead
  <2>3. Ordered'
    BY <1>0, <2>1 DEF Ordered, Before
  <2> QED
    BY <2>2, <2>3
<1>3. ASSUME NEW t \in Threads, Add(t)
      PROVE  StillQueued' /\ AtHead' /\ Ordered'
  <2> DEFINE s == queue[value[t]]
             k == IdOf(t)
             r == Append(s, k)
  <2>1. /\ value[t] \in Values /\ s \in Seq(Tickets) /\ k \in Tickets
        /\ pc[t] = "adding" /\ calls \in Nat
    BY <1>3, <1>0, TicketTypes DEF Add, At
  <2>2. queue' = [queue EXCEPT ![value[t]] = r]
    BY <1>3 DEF Add, LastInLine
  <2>3. /\ Queued(t)' /\ ~HasTurn(t)' /\ ticket'[t] = k /\ value' = value
        /\ \A u \in Threads \ {t} :
              /\ Queued(u)' = Queued(u) /\ HasTurn(u)' = HasTurn(u)
              /\ ticket'[u] = ticket[u]
    BY <1>0, <1>3 DEF Add, At, Goto, TypeOK, Queued, HasTurn, Waiting, Inside
  <2>4. /\ Len(r) = Len(s) + 1 /\ r[Len(s) + 1] = k
        /\ \A j \in 1..Len(s) : r[j] = s[j]
        /\ DOMAIN r = 1..Len(s) + 1 /\ DOMAIN s = 1..Len(s) /\ Len(s) \in Nat
    BY <2>1
  <2> HIDE DEF r, k
  <2>5. /\ queue'[value[t]] = r
        /\ \A v \in Values : v # value[t] => queue'[v] = queue[v]
    BY <1>0, <2>1, <2>2 DEF TypeOK
  <2>6. StillQueued'
    <3> SUFFICES ASSUME NEW u \in Threads \ {t}, Queued(u) \/ HasTurn(u)
                 PROVE  \E j \in DOMAIN queue'[value[u]] :
                            queue'[value[u]][j] = ticket[u]
      <4>1. queue'[value[t]][Len(s) + 1] = ticket'[t]
            /\ Len(s) + 1 \in DOMAIN queue'[value[t]]
        BY <2>3, <2>4, <2>5
      <4> QED
        BY <2>3, <4>1 DEF StillQueued
    <3>1. PICK j \in DOMAIN queue[value[u]] : queue[value[u]][j] = ticket[u]
      BY <1>0 DEF StillQueued
    <3>2. value[u] \in Values
      BY <1>0 DEF Owned, Queued, HasTurn, Waiting, Inside
    <3> QED
      BY <2>4, <2>5, <3>1, <3>2
  <2>7. AtHead'
    <3> SUFFICES ASSUME NEW u \in Threads \ {t}, HasTurn(u)
                 PROVE  /\ queue'[value[u]] # <<>>
                        /\ Head(queue'[value[u]]) = ticket[u]
      BY <2>3 DEF AtHead
    <3>1. queue[value[u]] # <<>> /\ Head(queue[value[u]]) = ticket[u]
      BY <1>0 DEF AtHead
    <3>2. CASE value[u] = value[t]
      BY <2>1, <2>5, <3>1, <3>2, HeadTailAppend, AppendProperties DEF r
    <3>3. CASE value[u] # value[t]
      BY <1>0, <2>5, <3>1, <3>3 DEF Owned, HasTurn, Inside
    <3> QED
      BY <3>2, <3>3
  <2>8. Ordered'
    <3> SUFFICES ASSUME NEW u \in Threads, NEW w \in Threads,
                        Queued(u)', Queued(w)', value[u] = value[w],
                        ticket'[w] < ticket'[u]
                 PROVE  Before(queue'[value[u]], ticket'[w], ticket'[u])
      BY <2>3 DEF Ordered, Before
    <3>1. value[u] \in Values
      BY <1>0, <2>1, <2>3 DEF Owned, Queued, Waiting
    <3>1a. w # t => /\ Queued(w) /\ ticket'[w] = ticket[w]
                   /\ \E j \in DOMAIN queue[value[w]] :
                         queue[value[w]][j] = ticket[w]
      BY <1>0, <2>3 DEF StillQueued
    <3>1b. u # t => Queued(u) /\ ticket'[u] = ticket[u]
      BY <2>3
    <3>2. CASE value[u] # value[t]
      <4>1. u # t /\ w # t /\ queue'[value[u]] = queue[value[u]]
        BY <2>5, <3>1, <3>2
      <4> QED
        BY <1>0, <3>1a, <3>1b, <4>1 DEF Ordered
    <3>3. CASE value[u] = value[t] /\ u # t /\ w # t
      <4>1. Before(s, ticket[w], ticket[u])
        BY <1>0, <3>1a, <3>1b, <3>3 DEF Ordered
      <4>2. \E j \in DOMAIN s : s[j] = ticket[w]
        BY <3>1a, <3>3
      <4>3. Before(r, ticket[w], ticket[u])
        BY <2>1, <4>1, <4>2, AppendKeepsOrder DEF r
      <4> QED
        BY <2>5, <3>1a, <3>1b, <3>3, <4>3
    <3>4. CASE value[u] = value[t] /\ u = t /\ w # t
      <4>1. \E j \in DOMAIN s : s[j] = ticket[w]
        BY <3>1a, <3>4
      <4>2. Before(s, ticket[w], k)
        <5>1. CASE ticket[t] = 0
          <6>1. k = calls + 1
            BY <5>1 DEF k, IdOf
          <6>2. \A j \in DOMAIN s : s[j] <= calls /\ s[j] \in Nat
            BY <1>0, <2>1 DEF Given, TypeOK, Tickets
          <6> QED
            BY <2>1, <6>1, <6>2 DEF Before
        <5>2. CASE ticket[t] # 0
          <6>1. k = ticket[t] /\ Queued(t) /\ Queued(w)
            BY <2>1, <3>1a, <3>4, <5>2 DEF k, IdOf, Queued
          <6> QED
            BY <1>0, <2>3, <3>1a, <3>4, <6>1 DEF Ordered
        <5> QED
          BY <5>1, <5>2
      <4>3. Before(r, ticket[w], k)
        BY <2>1, <4>1, <4>2, AppendKeepsOrder DEF r
      <4> QED
        BY <2>3, <2>5, <3>1a, <3>4, <4>3
    <3>5. CASE value[u] = value[t] /\ u # t /\ w = t
      <4>1. ticket[t] # 0
        <5> SUFFICES ASSUME ticket[t] = 0
                     PROVE  FALSE
          OBVIOUS
        <5>1. k = calls + 1
          BY DEF k, IdOf
        <5>2. ticket[u] <= calls /\ ticket[u] \in Nat
          BY <1>0, TicketTypes DEF Owned
        <5> QED
          BY <2>1, <2>3, <3>1b, <3>5, <5>1, <5>2
      <4>2. k = ticket[t] /\ Queued(t) /\ Queued(u)
        BY <2>1, <3>1b, <3>5, <4>1 DEF k, IdOf, Queued
      <4>3. Before(s, k, ticket[u])
        BY <1>0, <2>3, <3>1b, <3>5, <4>2 DEF Ordered
      <4>5. ticket[u] # k
        BY <1>0, <3>5, <4>1, <4>2 DEF Unique
      <4>6. Before(r, k, ticket[u])
        BY <2>1, <4>3, <4>5, AppendKeepsOrder DEF r
      <4> QED
        BY <2>3, <2>5, <3>1b, <3>5, <4>6
    <3>6. CASE u = t /\ w = t
      BY <2>1, <2>3, <3>6 DEF Tickets
    <3> QED
      BY <3>2, <3>3, <3>4, <3>5, <3>6
  <2> QED
    BY <2>6, <2>7, <2>8
<1>4. ASSUME NEW t \in Threads, TakeTurn(t)
      PROVE  StillQueued' /\ AtHead' /\ Ordered'
  <2>1. /\ ~Queued(t)' /\ queue[value[t]] # <<>>
        /\ Head(queue[value[t]]) = ticket[t]
        /\ UNCHANGED <<queue, ticket, value>>
        /\ \A u \in Threads \ {t} :
              Queued(u)' = Queued(u) /\ HasTurn(u)' = HasTurn(u)
    BY <1>0, <1>4 DEF TakeTurn, IsNext, At, Goto, TypeOK, Queued, HasTurn,
           Waiting, Inside
  <2>2. \E i \in DOMAIN queue[value[t]] : queue[value[t]][i] = ticket[t]
    BY <1>0, <1>4 DEF TakeTurn, At, StillQueued, Queued, Waiting
  <2>3. StillQueued' /\ AtHead'
    BY <1>0, <2>1, <2>2 DEF StillQueued, AtHead
  <2>4. Ordered'
    BY <1>0, <2>1 DEF Ordered, Before
  <2> QED
    BY <2>3, <2>4
<1>5. ASSUME NEW t \in Threads, Quit(t)
      PROVE  StillQueued' /\ AtHead' /\ Ordered'
  <2> DEFINE s == queue[value[t]]
             r == Without(s, ticket[t])
  <2>1. /\ value[t] \in Values /\ s \in Seq(Tickets)
        /\ ticket[t] # 0
    BY <1>0, <1>5, TicketTypes DEF Quit, At, Owned, Waiting, Inside
  <2>2. queue' = [queue EXCEPT ![value[t]] = r]
    BY <1>5 DEF Quit
  <2>3. /\ ~Queued(t)' /\ ~HasTurn(t)'
        /\ \A u \in Threads \ {t} :
              /\ Queued(u)' = Queued(u) /\ HasTurn(u)' = HasTurn(u)
              /\ value'[u] = value[u] /\ ticket'[u] = ticket[u]
    BY <1>0, <1>5 DEF Quit, At, Goto, TypeOK, Queued, HasTurn, Waiting, Inside
  <2>4. \A u \in Threads \ {t} : ticket[u] # ticket[t]
    BY <1>0, <2>1 DEF Unique
  <2>4a. /\ s # <<>> /\ Head(s) # ticket[t] => r # <<>> /\ Head(r) = Head(s)
         /\ \A i \in DOMAIN s : s[i] # ticket[t] =>
               \E j \in DOMAIN r : r[j] = s[i]
    <3>1. s \in Seq(Tickets)
      BY <2>1
    <3> HIDE DEF s
    <3>2. s # <<>> /\ Head(s) # ticket[t] => r # <<>> /\ Head(r) = Head(s)
      BY <3>1, WithoutKeeps
    <3>3. \A i \in DOMAIN s : s[i] # ticket[t] =>
             \E j \in DOMAIN r : r[j] = s[i]
      BY <3>1, WithoutKeeps
    <3> QED
      BY <3>2, <3>3
  <2>4b. \A a, b : /\ a # ticket[t] /\ b # ticket[t] /\ Before(s, b, a)
                   => Before(r, b, a)
    <3> HIDE DEF s
    <3> QED
      BY <2>1, WithoutKeepsOrder
  <2> HIDE DEF r
  <2>5. StillQueued'
    <3> SUFFICES ASSUME NEW u \in Threads \ {t}, Queued(u) \/ HasTurn(u)
                 PROVE  \E j \in DOMAIN queue'[value[u]] :
                            queue'[value[u]][j] = ticket[u]
      BY <2>3 DEF StillQueued
    <3>1. PICK j \in DOMAIN queue[value[u]] : queue[value[u]][j] = ticket[u]
      BY <1>0 DEF StillQueued
    <3>2. CASE value[u] = value[t]
      <4>1. \E m \in DOMAIN r : r[m] = ticket[u]
        BY <2>4, <2>4a, <3>1, <3>2
      <4> QED
        BY <1>0, <2>1, <2>2, <3>2, <4>1 DEF TypeOK
    <3>3. CASE value[u] # value[t]
      BY <1>0, <2>2, <3>1, <3>3 DEF TypeOK
    <3> QED
      BY <3>2, <3>3
  <2>6. AtHead'
    <3> SUFFICES ASSUME NEW u \in Threads \ {t}, HasTurn(u)
                 PROVE  /\ queue'[value[u]] # <<>>
                        /\ Head(queue'[value[u]]) = ticket[u]
      BY <2>3 DEF AtHead
    <3>1. queue[value[u]] # <<>> /\ Head(queue[value[u]]) = ticket[u]
      BY <1>0 DEF AtHead
    <3>2. CASE value[u] = value[t]
      <4>1. r # <<>> /\ Head(r) = ticket[u]
        BY <2>4, <2>4a, <3>1, <3>2
      <4> QED
        BY <1>0, <2>1, <2>2, <3>2, <4>1 DEF TypeOK
    <3>3. CASE value[u] # value[t]
      BY <1>0, <2>2, <3>1, <3>3 DEF TypeOK
    <3> QED
      BY <3>2, <3>3
  <2>7. Ordered'
    <3> SUFFICES ASSUME NEW u \in Threads \ {t}, NEW w \in Threads \ {t},
                        Queued(u), Queued(w), value[u] = value[w],
                        ticket[w] < ticket[u]
                 PROVE  Before(queue'[value[u]], ticket[w], ticket[u])
      BY <2>3 DEF Ordered, Before
    <3>1. Before(queue[value[u]], ticket[w], ticket[u])
      BY <1>0 DEF Ordered
    <3>2. CASE value[u] = value[t]
      <4>1. Before(r, ticket[w], ticket[u])
        BY <2>4, <2>4b, <3>1, <3>2
      <4> QED
        BY <1>0, <2>1, <2>2, <3>2, <4>1 DEF TypeOK
    <3>3. CASE value[u] # value[t]
      <4>1. queue'[value[u]] = queue[value[u]]
        BY <1>0, <2>1, <2>2, <3>3, TicketTypes DEF TypeOK
      <4> QED
        BY <3>1, <4>1
    <3> QED
      BY <3>2, <3>3
  <2> QED
    BY <2>5, <2>6, <2>7
<1>6. ASSUME NEW t \in Threads, Query(t) \/ SearchFails(t)
      PROVE  StillQueued' /\ AtHead' /\ Ordered'
  <2>1. /\ UNCHANGED <<queue, ticket, value>>
        /\ \A u \in Threads : Queued(u)' = Queued(u) /\ HasTurn(u)' = HasTurn(u)
    BY <1>0, <1>6 DEF Query, SearchFails, At, Goto, TypeOK, Owned, Queued, HasTurn,
           Waiting, Inside
  <2>2. StillQueued' /\ AtHead'
    BY <1>0, <2>1 DEF StillQueued, AtHead
  <2>3. Ordered'
    BY <1>0, <2>1 DEF Ordered, Before
  <2> QED
    BY <2>2, <2>3
<1>7. ASSUME NEW t \in Threads, Make(t)
      PROVE  StillQueued' /\ AtHead' /\ Ordered'
  <2>1. /\ UNCHANGED <<queue, ticket, value>>
        /\ \A u \in Threads : Queued(u)' = Queued(u) /\ HasTurn(u)' = HasTurn(u)
    BY <1>0, <1>7 DEF Make, At, Goto, TypeOK, Owned, Queued, HasTurn, Waiting,
           Inside
  <2>2. StillQueued' /\ AtHead'
    BY <1>0, <2>1 DEF StillQueued, AtHead
  <2>3. Ordered'
    BY <1>0, <2>1 DEF Ordered, Before
  <2> QED
    BY <2>2, <2>3
<1>8. ASSUME NEW t \in Threads, Unblock(t)
      PROVE  StillQueued' /\ AtHead' /\ Ordered'
  <2> DEFINE s == queue[value[t]]
             r == Without(s, ticket[t])
  <2>1. /\ value[t] \in Values /\ s \in Seq(Tickets)
        /\ ticket[t] # 0
    BY <1>0, <1>8, TicketTypes DEF Unblock, At, Owned, Waiting, Inside
  <2>2. queue' = [queue EXCEPT ![value[t]] = r]
    BY <1>8 DEF Unblock
  <2>3. /\ ~Queued(t)' /\ ~HasTurn(t)'
        /\ \A u \in Threads \ {t} :
              /\ Queued(u)' = Queued(u) /\ HasTurn(u)' = HasTurn(u)
              /\ value'[u] = value[u] /\ ticket'[u] = ticket[u]
    BY <1>0, <1>8 DEF Unblock, At, Goto, TypeOK, Queued, HasTurn, Waiting, Inside
  <2>4. \A u \in Threads \ {t} : ticket[u] # ticket[t]
    BY <1>0, <2>1 DEF Unique
  <2>4a. /\ s # <<>> /\ Head(s) # ticket[t] => r # <<>> /\ Head(r) = Head(s)
         /\ \A i \in DOMAIN s : s[i] # ticket[t] =>
               \E j \in DOMAIN r : r[j] = s[i]
    <3>1. s \in Seq(Tickets)
      BY <2>1
    <3> HIDE DEF s
    <3>2. s # <<>> /\ Head(s) # ticket[t] => r # <<>> /\ Head(r) = Head(s)
      BY <3>1, WithoutKeeps
    <3>3. \A i \in DOMAIN s : s[i] # ticket[t] =>
             \E j \in DOMAIN r : r[j] = s[i]
      BY <3>1, WithoutKeeps
    <3> QED
      BY <3>2, <3>3
  <2>4b. \A a, b : /\ a # ticket[t] /\ b # ticket[t] /\ Before(s, b, a)
                   => Before(r, b, a)
    <3> HIDE DEF s
    <3> QED
      BY <2>1, WithoutKeepsOrder
  <2> HIDE DEF r
  <2>5. StillQueued'
    <3> SUFFICES ASSUME NEW u \in Threads \ {t}, Queued(u) \/ HasTurn(u)
                 PROVE  \E j \in DOMAIN queue'[value[u]] :
                            queue'[value[u]][j] = ticket[u]
      BY <2>3 DEF StillQueued
    <3>1. PICK j \in DOMAIN queue[value[u]] : queue[value[u]][j] = ticket[u]
      BY <1>0 DEF StillQueued
    <3>2. CASE value[u] = value[t]
      <4>1. \E m \in DOMAIN r : r[m] = ticket[u]
        BY <2>4, <2>4a, <3>1, <3>2
      <4> QED
        BY <1>0, <2>1, <2>2, <3>2, <4>1 DEF TypeOK
    <3>3. CASE value[u] # value[t]
      BY <1>0, <2>2, <3>1, <3>3 DEF TypeOK
    <3> QED
      BY <3>2, <3>3
  <2>6. AtHead'
    <3> SUFFICES ASSUME NEW u \in Threads \ {t}, HasTurn(u)
                 PROVE  /\ queue'[value[u]] # <<>>
                        /\ Head(queue'[value[u]]) = ticket[u]
      BY <2>3 DEF AtHead
    <3>1. queue[value[u]] # <<>> /\ Head(queue[value[u]]) = ticket[u]
      BY <1>0 DEF AtHead
    <3>2. CASE value[u] = value[t]
      <4>1. r # <<>> /\ Head(r) = ticket[u]
        BY <2>4, <2>4a, <3>1, <3>2
      <4> QED
        BY <1>0, <2>1, <2>2, <3>2, <4>1 DEF TypeOK
    <3>3. CASE value[u] # value[t]
      BY <1>0, <2>2, <3>1, <3>3 DEF TypeOK
    <3> QED
      BY <3>2, <3>3
  <2>7. Ordered'
    <3> SUFFICES ASSUME NEW u \in Threads \ {t}, NEW w \in Threads \ {t},
                        Queued(u), Queued(w), value[u] = value[w],
                        ticket[w] < ticket[u]
                 PROVE  Before(queue'[value[u]], ticket[w], ticket[u])
      BY <2>3 DEF Ordered, Before
    <3>1. Before(queue[value[u]], ticket[w], ticket[u])
      BY <1>0 DEF Ordered
    <3>2. CASE value[u] = value[t]
      <4>1. Before(r, ticket[w], ticket[u])
        BY <2>4, <2>4b, <3>1, <3>2
      <4> QED
        BY <1>0, <2>1, <2>2, <3>2, <4>1 DEF TypeOK
    <3>3. CASE value[u] # value[t]
      <4>1. queue'[value[u]] = queue[value[u]]
        BY <1>0, <2>1, <2>2, <3>3, TicketTypes DEF TypeOK
      <4> QED
        BY <3>1, <4>1
    <3> QED
      BY <3>2, <3>3
  <2> QED
    BY <2>5, <2>6, <2>7
<1>9. ASSUME NEW t \in Threads, QueueAgain(t)
      PROVE  StillQueued' /\ AtHead' /\ Ordered'
  <2>1. /\ UNCHANGED <<queue, ticket, value>>
        /\ \A u \in Threads : Queued(u)' = Queued(u) /\ HasTurn(u)' = HasTurn(u)
    BY <1>0, <1>9 DEF QueueAgain, At, Goto, TypeOK, Owned, Queued, HasTurn, Waiting,
           Inside
  <2>2. StillQueued' /\ AtHead'
    BY <1>0, <2>1 DEF StillQueued, AtHead
  <2>3. Ordered'
    BY <1>0, <2>1 DEF Ordered, Before
  <2> QED
    BY <2>2, <2>3
<1>10. ASSUME NEW t \in Threads, TimeOut(t)
       PROVE  StillQueued' /\ AtHead' /\ Ordered'
  <2>1. /\ UNCHANGED <<queue, ticket, value>>
        /\ \A u \in Threads : Queued(u)' = Queued(u) /\ HasTurn(u)' = HasTurn(u)
    BY <1>0, <1>10 DEF TimeOut, At, Goto, TypeOK, Owned, Queued, HasTurn, Waiting,
           Inside
  <2>2. StillQueued' /\ AtHead'
    BY <1>0, <2>1 DEF StillQueued, AtHead
  <2>3. Ordered'
    BY <1>0, <2>1 DEF Ordered, Before
  <2> QED
    BY <2>2, <2>3
<1>11. ASSUME NEW v \in Values, Refresh(v)
       PROVE  StillQueued' /\ AtHead' /\ Ordered'
  <2>1. UNCHANGED <<queue, pc, ticket, value, late>>
    BY <1>11 DEF Refresh
  <2> QED
    BY <1>0, <2>1 DEF StillQueued, AtHead, Ordered, Queued, HasTurn, Before
<1>12. CASE UNCHANGED vars
  <2>1. UNCHANGED <<queue, pc, ticket, value, late>>
    BY <1>12 DEF vars
  <2> QED
    BY <1>0, <2>1 DEF StillQueued, AtHead, Ordered, Queued, HasTurn, Before
<1> QED
  BY <1>1, <1>2, <1>3, <1>4, <1>5, <1>6, <1>7, <1>8, <1>9, <1>10, <1>11,
     <1>12 DEF Next, Step, Hazard

\* The invariant holds.
LEMMA TurnsInvariant == Spec => []TurnsInv
<1>1. Init => TurnsInv
  <2>1. Init => TypeOK
    BY NoValueAssumption DEF Init, TypeOK, PCs, Tickets
  <2>2. Init => Owned /\ Unique /\ Given
    BY DEF Init, Owned, Unique, Given, Waiting, Inside
  <2>3. Init => \A t \in Threads : ~Queued(t) /\ ~HasTurn(t)
    BY DEF Init, Queued, HasTurn, Waiting, Inside
  <2>4. Init => StillQueued /\ AtHead /\ Ordered
    BY <2>3 DEF StillQueued, AtHead, Ordered
  <2> QED
    BY <2>1, <2>2, <2>4 DEF TurnsInv, QueueInv
<1>2. TurnsInv /\ [Next]_vars => TurnsInv'
  BY TypeStep, OwnedStep, TurnsStep DEF TurnsInv, QueueInv
<1> QED
  BY <1>1, <1>2, PTL DEF Spec

\* Type correctness of the blocker and of its user.
THEOREM Typing == Spec => []TypeOK
<1>1. TurnsInv => TypeOK
  BY DEF TurnsInv, QueueInv
<1> QED
  BY <1>1, TurnsInvariant, PTL

\* Nobody takes out the ID of another thread that waits or has its turn.
THEOREM KeptInLine == Spec => []StillQueued
<1>1. TurnsInv => StillQueued
  BY DEF TurnsInv
<1> QED
  BY <1>1, TurnsInvariant, PTL

\* Two threads cannot both be the head of a queue.
LEMMA TurnIsUnique ==
    ASSUME TurnsInv
    PROVE  OneTurn
<1> SUFFICES ASSUME NEW t \in Threads, NEW u \in Threads,
                    HasTurn(t), HasTurn(u), value[t] = value[u]
             PROVE  t = u
  BY DEF OneTurn
<1>1. ticket[t] = ticket[u]
  BY DEF TurnsInv, AtHead
<1>2. ticket[t] # 0
  BY DEF TurnsInv, QueueInv, Owned, HasTurn
<1> QED
  BY <1>1, <1>2 DEF TurnsInv, QueueInv, Unique

\* Of the threads inside make() for one address one at most has its turn, for
\* any number of threads, addresses, time-outs and doubled IDs.
THEOREM OneAtATime == Spec => []OneTurn
BY TurnIsUnique, TurnsInvariant, PTL

\* Nobody overtakes: who waits for his turn at an address came after the one
\* who has it, also when isNext() has put his ID in the queue again.
NobodyOvertakes ==
    \A t, u \in Threads :
        HasTurn(t) /\ Queued(u) /\ value[t] = value[u] => ticket[t] < ticket[u]

\* The head of the queue has the lowest number of those who wait, and who
\* comes later gets a higher one.
LEMMA OvertakesStep ==
    ASSUME TurnsInv, NobodyOvertakes, [Next]_vars
    PROVE  NobodyOvertakes'
<1> USE DEF blocker, store, history
<1>0. TypeOK /\ Owned /\ Unique /\ StillQueued /\ Ordered
  BY DEF TurnsInv, QueueInv
<1>1. ASSUME NEW t \in Threads, NEW v \in Values, GetOrCreate(t, v)
      PROVE  NobodyOvertakes'
  BY <1>0, <1>1
     DEF GetOrCreate, At, Goto, TypeOK, Owned, NobodyOvertakes, HasTurn, Queued, Waiting, Inside
<1>2. ASSUME NEW t \in Threads, EnterAdd(t)
      PROVE  NobodyOvertakes'
  BY <1>0, <1>2
     DEF EnterAdd, At, Goto, TypeOK, NobodyOvertakes, HasTurn, Queued, Waiting, Inside
<1>3. ASSUME NEW t \in Threads, Add(t)
      PROVE  NobodyOvertakes'
  <2>1. /\ pc[t] = "adding" /\ pc' = [pc EXCEPT ![t] = "wait"]
        /\ ticket' = [ticket EXCEPT ![t] = IdOf(t)] /\ UNCHANGED <<value, late>>
    BY <1>3 DEF Add, At, Goto
  <2>2. ASSUME NEW h \in Threads, HasTurn(h)', value'[h] = value'[t]
        PROVE  ticket'[h] < ticket'[t]
    <3>1. h # t /\ HasTurn(h) /\ ticket'[h] = ticket[h] /\ value[h] = value[t]
      BY <1>0, <2>1, <2>2 DEF TypeOK, HasTurn, Inside
    <3>2. CASE ticket[t] = 0
      <4>1. ticket[h] \in Nat /\ calls \in Nat /\ ticket[h] <= calls
        BY <1>0 DEF TypeOK, Owned
      <4>2. ticket'[t] = calls + 1
        BY <1>0, <2>1, <3>2 DEF TypeOK, IdOf
      <4> QED
        BY <3>1, <4>1, <4>2
    <3>3. CASE ticket[t] # 0
      <4>1. Queued(t) /\ ticket'[t] = ticket[t]
        BY <1>0, <2>1, <3>3 DEF TypeOK, Queued, IdOf
      <4> QED
        BY <3>1, <4>1 DEF NobodyOvertakes
    <3> QED
      BY <3>2, <3>3
  <2>3. ASSUME NEW h \in Threads, NEW u \in Threads, u # t,
               HasTurn(h)', Queued(u)', value'[h] = value'[u]
        PROVE  ticket'[h] < ticket'[u]
    <3>1. h # t /\ HasTurn(h) /\ Queued(u) /\ ticket'[h] = ticket[h] /\ ticket'[u] = ticket[u]
      BY <1>0, <2>1, <2>3 DEF TypeOK, HasTurn, Queued, Inside
    <3> QED
      BY <2>1, <2>3, <3>1 DEF NobodyOvertakes
  <2> QED
    BY <2>2, <2>3 DEF NobodyOvertakes
<1>4. ASSUME NEW t \in Threads, TakeTurn(t)
      PROVE  NobodyOvertakes'
  <2>1. /\ pc[t] = "wait" /\ pc' = [pc EXCEPT ![t] = "query"]
        /\ UNCHANGED <<queue, ticket, calls, value, late>>
        /\ queue[value[t]] # <<>> /\ Head(queue[value[t]]) = ticket[t]
    BY <1>4 DEF TakeTurn, At, Goto, IsNext
  <2>2. ASSUME NEW u \in Threads, u # t, Queued(u), value[u] = value[t]
        PROVE  ticket[t] < ticket[u]
    <3>1. Queued(t) /\ ticket[t] # 0 /\ ticket[t] \in Nat /\ ticket[u] \in Nat
          /\ queue[value[t]] \in Seq(Tickets)
      BY <1>0, <2>1 DEF TypeOK, Owned, Queued, Waiting
    <3>2. ticket[u] # ticket[t]
      BY <1>0, <2>2, <3>1 DEF Unique
    <3>3. 1 \in DOMAIN queue[value[t]] /\ queue[value[t]][1] = ticket[t]
      BY <2>1, <3>1
    <3>4. ~Before(queue[value[t]], ticket[u], ticket[t])
      BY <3>3 DEF Before
    <3>5. ~(ticket[u] < ticket[t])
      BY <1>0, <2>2, <3>1, <3>4 DEF Ordered
    <3> QED
      BY <3>1, <3>2, <3>5
  <2>3. \A u \in Threads : Queued(u)' => u # t /\ Queued(u)
    BY <1>0, <2>1 DEF TypeOK, Queued, Waiting
  <2>4. \A h \in Threads : h # t /\ HasTurn(h)' => HasTurn(h)
    BY <1>0, <2>1 DEF TypeOK, HasTurn
  <2> QED
    BY <2>1, <2>2, <2>3, <2>4 DEF NobodyOvertakes
<1>5. ASSUME NEW t \in Threads, Quit(t)
      PROVE  NobodyOvertakes'
  BY <1>0, <1>5
     DEF Quit, At, Goto, TypeOK, NobodyOvertakes, HasTurn, Queued, Waiting, Inside
<1>6. ASSUME NEW t \in Threads, Query(t) \/ SearchFails(t)
      PROVE  NobodyOvertakes'
  BY <1>0, <1>6
     DEF Query, SearchFails, At, Goto, TypeOK, NobodyOvertakes, HasTurn, Queued, Waiting, Inside
<1>7. ASSUME NEW t \in Threads, Make(t)
      PROVE  NobodyOvertakes'
  <2>1. /\ pc[t] = "make" /\ pc' = [pc EXCEPT ![t] = "leave"]
        /\ UNCHANGED <<ticket, value, late>>
    BY <1>7 DEF Make, At, Goto
  <2> QED
    BY <1>0, <2>1 DEF TypeOK, NobodyOvertakes, HasTurn, Queued, Waiting, Inside
<1>8. ASSUME NEW t \in Threads, Unblock(t)
      PROVE  NobodyOvertakes'
  BY <1>0, <1>8
     DEF Unblock, At, Goto, TypeOK, NobodyOvertakes, HasTurn, Queued, Waiting, Inside
<1>9. ASSUME NEW t \in Threads, QueueAgain(t) \/ TimeOut(t)
      PROVE  NobodyOvertakes'
  <2>1. /\ pc[t] = "wait" /\ UNCHANGED <<ticket, value, late>>
        /\ pc' = [pc EXCEPT ![t] = "add"] \/ pc' = [pc EXCEPT ![t] = "quit"]
    BY <1>9 DEF QueueAgain, TimeOut, At, Goto
  <2> QED
    BY <1>0, <2>1 DEF TypeOK, NobodyOvertakes, HasTurn, Queued, Waiting, Inside
<1>10. ASSUME NEW v \in Values, Refresh(v)
       PROVE  NobodyOvertakes'
  BY <1>10 DEF Refresh, NobodyOvertakes, HasTurn, Queued
<1>11. CASE UNCHANGED vars
  BY <1>11 DEF vars, NobodyOvertakes, HasTurn, Queued
<1> QED
  BY <1>1, <1>2, <1>3, <1>4, <1>5, <1>6, <1>7, <1>8, <1>9, <1>10, <1>11 DEF Next, Step, Hazard

\* Turns at an address are given first come, first served.
THEOREM FirstComeFirstServed == Spec => []NobodyOvertakes
<1>1. Init => NobodyOvertakes
  BY DEF Init, NobodyOvertakes, HasTurn, Inside
<1>2. TurnsInv /\ NobodyOvertakes /\ [Next]_vars => NobodyOvertakes'
  BY OvertakesStep
<1> QED
  BY <1>1, <1>2, TurnsInvariant, PTL DEF Spec

-----------------------------------------------------------------------------
(***************************************************************************)
(* Why nobody is kept waiting for ever: as long as no ID is queued twice,  *)
(* every ID in a queue is there once and is that of a thread which waits   *)
(* or has its turn, so there is always somebody who will take it out.  (An *)
(* ID that is queued twice stays when its thread has gone, and everybody   *)
(* behind it has to time out.)                                             *)
(***************************************************************************)
Distinct(s) == \A i, j \in DOMAIN s : s[i] = s[j] => i = j

IsOwned(v, k) ==
    \E t \in Threads :
        value[t] = v /\ ticket[t] = k /\ (Queued(t) \/ HasTurn(t))

NoGhosts ==
    again = {} =>
        \A v \in Values :
            /\ Distinct(queue[v])
            /\ \A i \in DOMAIN queue[v] : IsOwned(v, queue[v][i])

\* An ID that is in a queue once is not in it after remove().
LEMMA WithoutDistinct ==
    ASSUME NEW s \in Seq(Tickets), Distinct(s), NEW k
    PROVE  /\ Distinct(Without(s, k))
           /\ \A i \in DOMAIN Without(s, k) : Without(s, k)[i] # k
<1>1. CASE ~\E i \in 1..Len(s) : s[i] = k
  BY <1>1, WithoutNone
<1>2. CASE \E i \in 1..Len(s) : s[i] = k
  <2> DEFINE r == Without(s, k)
  <2>1. PICK p \in 1..Len(s) :
           /\ s[p] = k
           /\ r \in Seq(Tickets) /\ Len(r) = Len(s) - 1
           /\ \A i \in 1..Len(s)-1 : r[i] = IF i < p THEN s[i] ELSE s[i+1]
    BY <1>2, WithoutIs
  <2> HIDE DEF r
  <2>2. DOMAIN s = 1..Len(s) /\ DOMAIN r = 1..Len(s)-1 /\ Len(s) \in Nat
    BY <2>1
  <2>3. \A i \in DOMAIN r : r[i] # k
    <3> SUFFICES ASSUME NEW i \in DOMAIN r
                 PROVE  r[i] # k
      OBVIOUS
    <3>1. PICK old \in 1..Len(s) : r[i] = s[old] /\ old # p
      BY <2>1, <2>2
    <3> QED
      BY <2>1, <2>2, <3>1 DEF Distinct
  <2>4. Distinct(r)
    <3> SUFFICES ASSUME NEW i \in DOMAIN r, NEW j \in DOMAIN r, r[i] = r[j]
                 PROVE  i = j
      BY DEF Distinct
    <3> DEFINE I == IF i < p THEN i ELSE i + 1
               J == IF j < p THEN j ELSE j + 1
    <3>1. I \in DOMAIN s /\ J \in DOMAIN s /\ s[I] = r[i] /\ s[J] = r[j]
      BY <2>1, <2>2
    <3>2. I = J
      BY <3>1 DEF Distinct
    <3> QED
      BY <2>1, <2>2, <3>2
  <2> QED
    BY <2>3, <2>4 DEF r
<1> QED
  BY <1>1, <1>2

\* A thread that takes its ID out leaves the IDs of the others.
LEMMA LeavesNoGhost ==
    ASSUME TurnsInv, NoGhosts, again = {}, NEW t \in Threads, value[t] \in Values,
           queue' = [queue EXCEPT ![value[t]] = Without(@, ticket[t])],
           \A u \in Threads \ {t} :
              value'[u] = value[u] /\ ticket'[u] = ticket[u]
              /\ (Queued(u) \/ HasTurn(u) => Queued(u)' \/ HasTurn(u)'),
           ticket[t] # 0
    PROVE  NoGhosts'
<1>0. TypeOK /\ Unique
  BY DEF TurnsInv, QueueInv
<1>1. ASSUME NEW v \in Values, NEW k, IsOwned(v, k), k # ticket[t] \/ v # value[t]
      PROVE  IsOwned(v, k)'
  <2>1. PICK u \in Threads : value[u] = v /\ ticket[u] = k /\ (Queued(u) \/ HasTurn(u))
    BY <1>1 DEF IsOwned
  <2> QED
    BY <1>1, <2>1 DEF IsOwned
<1> SUFFICES ASSUME NEW v \in Values
             PROVE  /\ Distinct(queue'[v])
                    /\ \A i \in DOMAIN queue'[v] :
                          \E k : k = queue'[v][i] /\ IsOwned(v, k)'
  BY DEF NoGhosts, Distinct, IsOwned
<1>2. queue[v] \in Seq(Tickets) /\ Distinct(queue[v])
      /\ \A i \in DOMAIN queue[v] : IsOwned(v, queue[v][i])
  BY <1>0 DEF TypeOK, NoGhosts
<1>3. CASE v # value[t]
  <2>1. queue'[v] = queue[v]
    BY <1>0, <1>3 DEF TypeOK
  <2> QED
    BY <1>1, <1>2, <1>3, <2>1
<1>4. CASE v = value[t]
  <2>1. queue'[v] = Without(queue[v], ticket[t])
    BY <1>0, <1>4 DEF TypeOK
  <2>2. /\ Distinct(queue'[v])
        /\ \A i \in DOMAIN queue'[v] : queue'[v][i] # ticket[t]
    BY <1>2, <2>1, WithoutDistinct
  <2>3. \A i \in DOMAIN queue'[v] : \E j \in DOMAIN queue[v] : queue[v][j] = queue'[v][i]
    BY <1>2, <2>1, WithoutKeeps
  <2> QED
    BY <1>1, <1>2, <2>2, <2>3
<1> QED
  BY <1>3, <1>4

\* Every step leaves every ID its owner.
LEMMA GhostsStep ==
    ASSUME TurnsInv, NoGhosts, [Next]_vars
    PROVE  NoGhosts'
<1> USE DEF blocker, store, history
<1>0. QueueInv /\ TypeOK /\ Owned /\ Given
  BY DEF TurnsInv, QueueInv
<1> SUFFICES ASSUME again' = {}
             PROVE  NoGhosts'
  BY DEF NoGhosts
<1>a. again = {}
  BY DEF Next, Step, Hazard, vars, GetOrCreate, EnterAdd, Add, TakeTurn, Quit, Query,
     SearchFails, Make, Unblock, QueueAgain, TimeOut, Refresh
<1>b. ASSUME UNCHANGED <<queue, ticket, again>>,
             \A u \in Threads :
                Queued(u) \/ HasTurn(u) =>
                    value'[u] = value[u] /\ (Queued(u)' \/ HasTurn(u)')
      PROVE  NoGhosts'
  <2>1. ASSUME NEW v \in Values, NEW k, IsOwned(v, k)
        PROVE  IsOwned(v, k)'
    BY <1>b, <2>1 DEF IsOwned
  <2> QED
    BY <1>b, <2>1 DEF NoGhosts
<1>1. ASSUME NEW t \in Threads, NEW v \in Values, GetOrCreate(t, v)
      PROVE  NoGhosts'
  <2>1. /\ pc[t] = "idle" /\ pc' = [pc EXCEPT ![t] = "add"]
        /\ value' = [value EXCEPT ![t] = v]
        /\ UNCHANGED <<queue, ticket, again, late>>
    BY <1>1 DEF GetOrCreate, At, Goto
  <2>2. \A u \in Threads :
           Queued(u) \/ HasTurn(u) =>
               value'[u] = value[u] /\ (Queued(u)' \/ HasTurn(u)')
    BY <1>0, <2>1 DEF TypeOK, Queued, HasTurn, Waiting, Inside
  <2> QED
    BY <1>b, <2>1, <2>2
<1>2. ASSUME NEW t \in Threads, EnterAdd(t)
      PROVE  NoGhosts'
  <2>1. \A u \in Threads :
           Queued(u) \/ HasTurn(u) =>
               value'[u] = value[u] /\ (Queued(u)' \/ HasTurn(u)')
    BY <1>0, <1>2 DEF EnterAdd, At, Goto, TypeOK, Queued, HasTurn, Waiting, Inside
  <2> QED
    BY <1>2, <1>b, <2>1 DEF EnterAdd
<1>3. ASSUME NEW t \in Threads, Add(t)
      PROVE  NoGhosts'
  <2>1. /\ pc[t] = "adding" /\ pc' = [pc EXCEPT ![t] = "wait"]
        /\ ticket' = [ticket EXCEPT ![t] = IdOf(t)] /\ UNCHANGED <<value, late>>
        /\ ticket[t] = 0
    BY <1>3 DEF Add, At, Goto
  <2>2. IdOf(t) = calls + 1 /\ calls \in Nat /\ IdOf(t) \in Tickets
        /\ value[t] \in Values /\ queue[value[t]] \in Seq(Tickets)
    BY <1>0, <2>1, TicketTypes DEF IdOf
  <2>3. ASSUME NEW v \in Values, NEW k, IsOwned(v, k)
        PROVE  IsOwned(v, k)'
    <3>1. PICK u \in Threads : value[u] = v /\ ticket[u] = k
                               /\ (Queued(u) \/ HasTurn(u))
      BY <2>3 DEF IsOwned
    <3>2. u # t
      BY <2>1, <3>1 DEF Queued, HasTurn, Waiting, Inside
    <3>3. value'[u] = v /\ ticket'[u] = k /\ (Queued(u)' \/ HasTurn(u)')
      BY <1>0, <2>1, <3>1, <3>2 DEF TypeOK, Queued, HasTurn
    <3> QED
      BY <3>3 DEF IsOwned
  <2>4. ASSUME NEW v, NEW k, v = value[t], k = IdOf(t)
        PROVE  IsOwned(v, k)'
    <3>1. value'[t] = v /\ ticket'[t] = k /\ Queued(t)'
      BY <1>0, <2>1, <2>4 DEF TypeOK, Queued, Waiting
    <3> QED
      BY <3>1 DEF IsOwned
  <2>5. ASSUME NEW v \in Values
        PROVE  /\ Distinct(queue'[v])
               /\ \A i \in DOMAIN queue'[v] :
                     \E k : k = queue'[v][i] /\ IsOwned(v, k)'
    <3>1. queue[v] \in Seq(Tickets) /\ Distinct(queue[v])
          /\ \A i \in DOMAIN queue[v] : IsOwned(v, queue[v][i])
      BY <1>0, <1>a DEF TypeOK, NoGhosts
    <3>2. CASE v # value[t]
      <4>1. queue'[v] = queue[v]
        BY <1>0, <1>3, <3>2 DEF TypeOK, Add
      <4> QED
        BY <2>3, <3>1, <4>1
    <3>3. CASE v = value[t]
      <4>1. queue'[v] = Append(queue[v], IdOf(t))
        BY <1>0, <1>3, <3>3 DEF TypeOK, Add, LastInLine
      <4>2. \A i \in DOMAIN queue[v] : queue[v][i] # IdOf(t)
        <5> SUFFICES ASSUME NEW i \in DOMAIN queue[v]
                     PROVE  queue[v][i] # IdOf(t)
          OBVIOUS
        <5>1. queue[v][i] \in Nat /\ queue[v][i] <= calls
          BY <1>0, <3>1 DEF Given, Tickets
        <5> QED
          BY <2>2, <5>1
      <4> HIDE DEF IsOwned
      <4>3. Distinct(queue'[v])
        BY <2>2, <3>1, <4>1, <4>2 DEF Distinct
      <4>4. \A i \in DOMAIN queue'[v] :
               queue'[v][i] = IdOf(t) \/ \E j \in DOMAIN queue[v] : queue'[v][i] = queue[v][j]
        BY <2>2, <3>1, <4>1
      <4> QED
        BY <2>3, <2>4, <3>1, <3>3, <4>3, <4>4
    <3> QED
      BY <3>2, <3>3
  <2> QED
    BY <2>5 DEF NoGhosts, Distinct, IsOwned
<1>4. ASSUME NEW t \in Threads, TakeTurn(t)
      PROVE  NoGhosts'
  <2>1. \A u \in Threads :
           Queued(u) \/ HasTurn(u) =>
               value'[u] = value[u] /\ (Queued(u)' \/ HasTurn(u)')
    BY <1>0, <1>4
       DEF TakeTurn, At, Goto, TypeOK, Owned, Queued, HasTurn, Waiting, Inside
  <2> QED
    BY <1>4, <1>b, <2>1 DEF TakeTurn
<1>5. ASSUME NEW t \in Threads, Quit(t)
      PROVE  NoGhosts'
  <2>1. value[t] \in Values /\ ticket[t] # 0
    BY <1>0, <1>5 DEF Quit, At, Owned, Waiting
  <2>2. \A u \in Threads \ {t} :
           value'[u] = value[u] /\ ticket'[u] = ticket[u]
           /\ (Queued(u) \/ HasTurn(u) => Queued(u)' \/ HasTurn(u)')
    BY <1>0, <1>5 DEF Quit, At, Goto, TypeOK, Queued, HasTurn
  <2> QED
    BY <1>5, <1>a, <2>1, <2>2, LeavesNoGhost DEF Quit
<1>6. ASSUME NEW t \in Threads, Query(t) \/ SearchFails(t) \/ Make(t)
      PROVE  NoGhosts'
  <2>1. /\ pc[t] \in {"query", "make"}
        /\ \E l \in {"make", "leave"} : pc' = [pc EXCEPT ![t] = l]
        /\ UNCHANGED <<queue, ticket, value, late, again>>
    BY <1>6 DEF Query, SearchFails, Make, At, Goto
  <2>2. \A u \in Threads :
           Queued(u) \/ HasTurn(u) =>
               value'[u] = value[u] /\ (Queued(u)' \/ HasTurn(u)')
    BY <1>0, <2>1 DEF TypeOK, Queued, HasTurn, Waiting, Inside
  <2> QED
    BY <1>b, <2>1, <2>2
<1>7. ASSUME NEW t \in Threads, Unblock(t)
      PROVE  NoGhosts'
  <2>1. value[t] \in Values /\ ticket[t] # 0
    BY <1>0, <1>7 DEF Unblock, At, Owned, Inside
  <2>2. \A u \in Threads \ {t} :
           value'[u] = value[u] /\ ticket'[u] = ticket[u]
           /\ (Queued(u) \/ HasTurn(u) => Queued(u)' \/ HasTurn(u)')
    BY <1>0, <1>7 DEF Unblock, At, Goto, TypeOK, Queued, HasTurn
  <2> QED
    BY <1>7, <1>a, <2>1, <2>2, LeavesNoGhost DEF Unblock
<1>8. ASSUME NEW t \in Threads, QueueAgain(t) \/ TimeOut(t)
      PROVE  NoGhosts'
  <2>1. /\ pc[t] = "wait"
        /\ \E l \in {"add", "quit"} : pc' = [pc EXCEPT ![t] = l]
        /\ UNCHANGED <<queue, ticket, value, late, again>>
    BY <1>8 DEF QueueAgain, TimeOut, At, Goto
  <2>2. \A u \in Threads :
           Queued(u) \/ HasTurn(u) =>
               value'[u] = value[u] /\ (Queued(u)' \/ HasTurn(u)')
    BY <1>0, <2>1 DEF TypeOK, Owned, Queued, HasTurn, Waiting, Inside
  <2> QED
    BY <1>b, <2>1, <2>2
<1>9. ASSUME NEW v \in Values, Refresh(v)
      PROVE  NoGhosts'
  BY <1>9, <1>b DEF Refresh, Queued, HasTurn
<1>10. CASE UNCHANGED vars
  BY <1>10, <1>b DEF vars, Queued, HasTurn
<1> QED
  BY <1>1, <1>2, <1>3, <1>4, <1>5, <1>6, <1>7, <1>8, <1>9, <1>10 DEF Next, Step, Hazard

\* As long as no ID is queued twice, every ID in a queue has an owner who will
\* take it out: the premise of CallsReturn leaves nobody to wait for.
THEOREM NoGhostInLine == Spec => []NoGhosts
<1>1. Init => NoGhosts
  BY DEF Init, NoGhosts, Distinct
<1>2. TurnsInv /\ NoGhosts /\ [Next]_vars => NoGhosts'
  BY GhostsStep
<1> QED
  BY <1>1, <1>2, TurnsInvariant, PTL DEF Spec

\* Whom a waiting thread waits for.
SomebodyMoves ==
    again = {} =>
        \A t \in Threads : pc[t] = "wait" =>
            \E u \in Threads :
                /\ value[u] = value[t] /\ ticket[u] <= ticket[t]
                /\ HasTurn(u) \/ (Queued(u) /\ IsNext(queue[value[u]], ticket[u]))

\* As long as no ID was queued twice, a thread that waits for its turn waits
\* for one that came no later and has its turn, or may take it: itself, when
\* nobody is before it.
THEOREM TurnsAreTaken == Spec => []SomebodyMoves
<1>1. TurnsInv /\ NobodyOvertakes /\ NoGhosts => SomebodyMoves
  <2> SUFFICES ASSUME TurnsInv, NobodyOvertakes, NoGhosts, again = {},
                      NEW t \in Threads, pc[t] = "wait"
               PROVE  \E u \in Threads :
                         /\ value[u] = value[t] /\ ticket[u] <= ticket[t]
                         /\ HasTurn(u) \/ (Queued(u) /\ IsNext(queue[value[u]], ticket[u]))
    BY DEF SomebodyMoves
  <2> DEFINE line == queue[value[t]]
  <2>1. /\ TypeOK /\ StillQueued /\ Ordered
        /\ Queued(t) /\ value[t] \in Values
        /\ \A u \in Threads : ticket[u] \in Nat
    BY DEF TurnsInv, QueueInv, Owned, TypeOK, Queued, Waiting
  <2>2. /\ line \in Seq(Tickets) /\ line # <<>>
        /\ 1 \in DOMAIN line /\ Head(line) = line[1]
    <3>1. line \in Seq(Tickets) /\ DOMAIN line # {}
      BY <2>1 DEF TypeOK, StillQueued
    <3> QED
      BY <3>1
  <2>3. PICK u \in Threads :
           value[u] = value[t] /\ ticket[u] = line[1] /\ (Queued(u) \/ HasTurn(u))
    BY <2>1, <2>2 DEF NoGhosts, IsOwned
  <2>4. ASSUME HasTurn(u)
        PROVE  ticket[u] <= ticket[t]
    <3>1. ticket[u] < ticket[t]
      BY <2>1, <2>3, <2>4 DEF NobodyOvertakes
    <3> QED
      BY <2>1, <3>1
  <2>5. ASSUME Queued(u)
        PROVE  ticket[u] <= ticket[t] /\ IsNext(queue[value[u]], ticket[u])
    <3>1. IsNext(queue[value[u]], ticket[u])
      BY <2>2, <2>3 DEF IsNext
    <3>2. ~(ticket[t] < ticket[u])
      <4> SUFFICES ASSUME ticket[t] < ticket[u]
                   PROVE  FALSE
        OBVIOUS
      <4>1. Before(line, ticket[t], ticket[u])
        BY <2>1, <2>3, <2>5 DEF Ordered
      <4> QED
        BY <2>2, <2>3, <4>1 DEF Before
    <3> QED
      BY <2>1, <3>1, <3>2
  <2> QED
    BY <2>3, <2>4, <2>5
<1> QED
  BY <1>1, TurnsInvariant, FirstComeFirstServed, NoGhostInLine, PTL

-----------------------------------------------------------------------------
(***************************************************************************)
(* One Website for an address.  Who makes one has looked again, and if his *)
(* turn is the only one nobody has made one since; what he has stored is   *)
(* found when his request is answered, before his turn ends.               *)
(***************************************************************************)
LateExcused == \A t \in late : value[t] \in excused

Makers ==
    \A t \in Threads :
        pc[t] = "make" /\ value[t] \notin excused => ~visible[value[t]]

Stored ==
    \A v \in Values \ excused : sites[v] <= 1 /\ (sites[v] = 1 => visible[v])

WebsiteInv == LateExcused /\ Makers /\ Stored

LEMMA WebsiteStep ==
    ASSUME TurnsInv, WebsiteInv, [Next]_vars
    PROVE  WebsiteInv'
<1> USE DEF blocker, store, history
<1>0. TypeOK /\ Owned /\ OneTurn /\ LateExcused /\ Makers /\ Stored
  BY TurnIsUnique DEF TurnsInv, QueueInv, WebsiteInv
<1>1. ASSUME NEW t \in Threads, NEW v \in Values, GetOrCreate(t, v)
      PROVE  WebsiteInv'
  <2>1. pc[t] = "idle" /\ t \notin late
    BY <1>0, <1>1 DEF GetOrCreate, At, Owned, Inside
  <2> QED
    BY <1>0, <1>1, <2>1 DEF GetOrCreate, Goto, TypeOK, WebsiteInv, LateExcused, Makers, Stored
<1>2. ASSUME NEW t \in Threads, EnterAdd(t) \/ Add(t) \/ TakeTurn(t) \/ QueueAgain(t) \/ TimeOut(t)
      PROVE  WebsiteInv'
  <2>1. /\ UNCHANGED <<value, sites, visible, late, excused>>
        /\ \E label \in {"add", "adding", "wait", "query", "quit"} :
              pc' = [pc EXCEPT ![t] = label]
    BY <1>2 DEF EnterAdd, Add, TakeTurn, QueueAgain, TimeOut, Goto
  <2>2. \A u \in Threads : pc'[u] = "make" => pc[u] = "make"
    BY <1>0, <2>1 DEF TypeOK
  <2> QED
    BY <1>0, <2>1, <2>2 DEF WebsiteInv, LateExcused, Makers, Stored
<1>3. ASSUME NEW t \in Threads, Quit(t)
      PROVE  WebsiteInv'
  BY <1>0, <1>3 DEF Quit, Goto, TypeOK, WebsiteInv, LateExcused, Makers, Stored
<1>4. ASSUME NEW t \in Threads, Query(t)
      PROVE  WebsiteInv'
  BY <1>0, <1>4 DEF Query, Goto, Makes, TypeOK, WebsiteInv, LateExcused, Makers, Stored
<1>4a. ASSUME NEW t \in Threads, SearchFails(t)
       PROVE  WebsiteInv'
  BY <1>0, <1>4a DEF SearchFails, Goto, TypeOK, WebsiteInv, LateExcused, Makers, Stored
<1>5. ASSUME NEW t \in Threads, Make(t)
      PROVE  WebsiteInv'
  <2>1. /\ pc[t] = "make" /\ pc' = [pc EXCEPT ![t] = "leave"] /\ UNCHANGED <<value, late>>
        /\ value[t] \in Values /\ excused \subseteq excused'
    BY <1>0, <1>5 DEF Make, At, Goto, Owned
  <2>2. LateExcused'
    BY <1>0, <2>1 DEF LateExcused
  <2>3. ASSUME value[t] \notin excused
        PROVE  \A u \in Threads \ {t} : pc[u] = "make" => value[u] # value[t]
    <3> SUFFICES ASSUME NEW u \in Threads, pc[u] = "make", value[u] = value[t]
                 PROVE  u = t
      OBVIOUS
    <3>1. t \notin late /\ u \notin late
      BY <1>0, <2>3 DEF LateExcused
    <3> QED
      BY <1>0, <2>1, <3>1 DEF OneTurn, HasTurn, Inside
  <2>4. value[t] \notin excused => ~visible[value[t]] /\ sites[value[t]] = 0
    BY <1>0, <2>1 DEF TypeOK, Makers, Stored
  <2>5. CASE /\ sites' = [sites EXCEPT ![value[t]] = @ + 1]
             /\ visible' = [visible EXCEPT ![value[t]] = TRUE]
             /\ UNCHANGED excused
    <3>1. Makers'
      BY <1>0, <2>1, <2>3, <2>5 DEF TypeOK, Makers
    <3>2. Stored'
      BY <1>0, <2>1, <2>4, <2>5 DEF TypeOK, Stored
    <3> QED
      BY <2>2, <3>1, <3>2 DEF WebsiteInv
  <2>6. CASE /\ sites' = [sites EXCEPT ![value[t]] = @ + 1]
             /\ excused' = excused \cup {value[t]}
             /\ UNCHANGED visible
    BY <1>0, <2>1, <2>2, <2>6 DEF TypeOK, WebsiteInv, Makers, Stored
  <2>7. CASE UNCHANGED <<store, excused>>
    BY <1>0, <2>1, <2>2, <2>7 DEF TypeOK, WebsiteInv, Makers, Stored
  <2> QED
    BY <1>5, <2>5, <2>6, <2>7 DEF Make
<1>6. ASSUME NEW t \in Threads, Unblock(t)
      PROVE  WebsiteInv'
  <2>1. /\ pc' = [pc EXCEPT ![t] = "idle"] /\ late' = late \ {t}
        /\ value' = [value EXCEPT ![t] = NoValue] /\ UNCHANGED <<sites, visible, excused>>
    BY <1>6 DEF Unblock, Goto
  <2> QED
    BY <1>0, <2>1 DEF TypeOK, WebsiteInv, LateExcused, Makers, Stored
<1>7. ASSUME NEW v \in Values, Refresh(v)
      PROVE  WebsiteInv'
  <2>1. v \in excused
    BY <1>0, <1>7 DEF Refresh, TypeOK, Stored
  <2> QED
    BY <1>0, <1>7, <2>1 DEF Refresh, TypeOK, WebsiteInv, LateExcused, Makers, Stored
<1>8. CASE UNCHANGED vars
  BY <1>0, <1>8 DEF vars, WebsiteInv, LateExcused, Makers, Stored
<1> QED
  BY <1>1, <1>2, <1>3, <1>4, <1>4a, <1>5, <1>6, <1>7, <1>8 DEF Next, Step, Hazard

\* However many threads ask for an address at once, one Website is made for
\* it, unless somebody went on without his turn, the answer to an insert was
\* lost, or the search that follows the turn failed.
THEOREM OneForAll == Spec => []OneWebsite
<1>1. Init => WebsiteInv
  BY DEF Init, WebsiteInv, LateExcused, Makers, Stored
<1>2. TurnsInv /\ WebsiteInv /\ [Next]_vars => WebsiteInv'
  BY WebsiteStep
<1>3. TurnsInv /\ WebsiteInv => OneWebsite
  BY DEF TurnsInv, QueueInv, TypeOK, WebsiteInv, Stored, OneWebsite
<1> QED
  BY <1>1, <1>2, <1>3, TurnsInvariant, PTL DEF Spec

-----------------------------------------------------------------------------
(***************************************************************************)
(* The refinement.  A call joins the line when its ID is added the first   *)
(* time; that isNext() adds it again is a stutter, because a lower number  *)
(* is always before a higher one.                                          *)
(***************************************************************************)
\* The same holders, the same turn.
LEMMA SameHolders ==
    ASSUME NEW v, Holders(v)' = Holders(v),
           \A t \in Holders(v) : ticket'[t] = ticket[t]
    PROVE  Turn(v)' = Turn(v)
BY DEF Turn

\* The same line and the same holders: a stutter.
LEMMA SameLineAndTurn ==
    ASSUME UNCHANGED <<ticket, calls>>,
           \A v \in Values : Line(v)' = Line(v) /\ Holders(v)' = Holders(v)
    PROVE  UNCHANGED Turns!vars
<1>1. \A v \in Values : Turn(v)' = Turn(v) /\ InLine(v)' = InLine(v)
  <2> SUFFICES ASSUME NEW v \in Values
               PROVE  Turn(v)' = Turn(v) /\ InLine(v)' = InLine(v)
    OBVIOUS
  <2>1. Turn(v)' = Turn(v)
    BY SameHolders
  <2>2. InLine(v)' = InLine(v)
    BY DEF InLine
  <2> QED
    BY <2>1, <2>2
<1> QED
  BY <1>1 DEF Turns!vars

\* With a thread its number leaves the line.
LEMMA LeavesLine ==
    ASSUME Unique, TypeOK, NEW t \in Threads, ticket[t] # 0, ticket' = ticket,
           \A w \in Values : /\ Line(w)' = Line(w) \ {t}
                             /\ t \in Line(w) <=> w = value[t]
    PROVE  \A w \in Values : InLine(w)' = IF w = value[t]
                                          THEN InLine(w) \ {ticket[t]}
                                          ELSE InLine(w)
<1> SUFFICES ASSUME NEW w \in Values
             PROVE  InLine(w)' = IF w = value[t] THEN InLine(w) \ {ticket[t]}
                                                 ELSE InLine(w)
  OBVIOUS
<1>1. \A u \in Line(w) : ticket[u] = ticket[t] => u = t
  BY DEF Unique, Line
<1>2. CASE w = value[t]
  BY <1>1, <1>2 DEF InLine
<1>3. CASE w # value[t]
  BY <1>3 DEF InLine
<1> QED
  BY <1>2, <1>3

\* Every step of the blocker is a step of the turns, or changes nothing there.
LEMMA RefinementStep ==
    ASSUME TurnsInv, [Next]_vars
    PROVE  [Turns!Next]_(Turns!vars)
<1> USE DEF blocker, store, history
<1>0. /\ QueueInv /\ TypeOK /\ Owned /\ Unique /\ AtHead /\ Ordered
  BY DEF TurnsInv, QueueInv
<1>1. ASSUME NEW t \in Threads, NEW v \in Values, GetOrCreate(t, v)
      PROVE  [Turns!Next]_(Turns!vars)
  <2>1. /\ UNCHANGED <<ticket, calls>>
        /\ \A u \in Threads, w \in Values :
              /\ (Queued(u) /\ value[u] = w)' <=> Queued(u) /\ value[u] = w
              /\ (HasTurn(u) /\ value[u] = w)' <=> HasTurn(u) /\ value[u] = w
    BY <1>0, <1>1 DEF GetOrCreate, At, Goto, TypeOK, Owned, Queued, HasTurn, Waiting,
           Inside
  <2>2. \A w \in Values : Line(w)' = Line(w) /\ Holders(w)' = Holders(w)
    BY <2>1 DEF Line, Holders
  <2> QED
    BY <2>1, <2>2, SameLineAndTurn
<1>2. ASSUME NEW t \in Threads, EnterAdd(t)
      PROVE  [Turns!Next]_(Turns!vars)
  <2>1. /\ UNCHANGED <<ticket, calls>>
        /\ \A u \in Threads, w \in Values :
              /\ (Queued(u) /\ value[u] = w)' <=> Queued(u) /\ value[u] = w
              /\ (HasTurn(u) /\ value[u] = w)' <=> HasTurn(u) /\ value[u] = w
    BY <1>0, <1>2 DEF EnterAdd, At, Goto, TypeOK, Owned, Queued, HasTurn, Waiting,
           Inside
  <2>2. \A w \in Values : Line(w)' = Line(w) /\ Holders(w)' = Holders(w)
    BY <2>1 DEF Line, Holders
  <2> QED
    BY <2>1, <2>2, SameLineAndTurn
<1>3. ASSUME NEW t \in Threads, Add(t)
      PROVE  [Turns!Next]_(Turns!vars)
  <2>1. /\ value[t] \in Values /\ pc[t] = "adding" /\ ticket[t] \in Nat
        /\ calls \in Nat
    BY <1>0, <1>3, TicketTypes DEF Add, At
  <2>2. /\ value' = value /\ late' = late
        /\ ticket' = [ticket EXCEPT ![t] = IdOf(t)]
        /\ pc' = [pc EXCEPT ![t] = "wait"]
    BY <1>3 DEF Add, Goto
  <2>3. \A w \in Values : Holders(w)' = Holders(w) /\ t \notin Holders(w)
    BY <1>0, <2>1, <2>2 DEF TypeOK, Holders, HasTurn, Inside
  <2>4. \A w \in Values : Turn(w)' = Turn(w)
    BY <1>0, <2>2, <2>3, SameHolders DEF TypeOK, Holders
  <2>5. \A w \in Values :
           Line(w)' = IF w = value[t] THEN Line(w) \cup {t} ELSE Line(w)
    BY <1>0, <2>1, <2>2 DEF TypeOK, Line, Queued, Waiting
  <2>6. CASE ticket[t] = 0
    <3>1. /\ IdOf(t) = calls + 1 /\ calls' = calls + 1
          /\ \A w \in Values : t \notin Line(w)
      BY <1>3, <2>1, <2>6 DEF Add, IdOf, Line, Queued, Waiting
    <3>2. \A w \in Values : InLine(w)' = IF w = value[t]
                                         THEN InLine(w) \cup {calls + 1}
                                         ELSE InLine(w)
      <4> SUFFICES ASSUME NEW w \in Values
                   PROVE  InLine(w)' = IF w = value[t]
                                       THEN InLine(w) \cup {calls + 1}
                                       ELSE InLine(w)
        OBVIOUS
      <4>1. \A u \in Line(w) : u # t /\ ticket'[u] = ticket[u]
        BY <1>0, <2>2, <3>1 DEF TypeOK, Line
      <4>2. ticket'[t] = calls + 1
        BY <1>0, <2>2, <3>1 DEF TypeOK
      <4>3. CASE w = value[t]
        BY <2>5, <4>1, <4>2, <4>3 DEF InLine
      <4>4. CASE w # value[t]
        BY <2>5, <4>1, <4>4 DEF InLine
      <4> QED
        BY <4>3, <4>4
    <3>3. Turns!Join(value[t])
      BY <2>1, <2>4, <3>1, <3>2 DEF Turns!Join
    <3> QED
      BY <2>1, <3>3 DEF Turns!Next
  <2>7. CASE ticket[t] # 0
    <3>1. ticket' = ticket /\ calls' = calls
      BY <1>0, <1>3, <2>2, <2>7 DEF Add, IdOf, TypeOK
    <3>2. t \in Line(value[t])
      BY <2>1, <2>7 DEF Line, Queued
    <3> QED
      BY <2>3, <2>5, <3>1, <3>2, SameLineAndTurn
  <2> QED
    BY <2>6, <2>7
<1>4. ASSUME NEW t \in Threads, TakeTurn(t)
      PROVE  [Turns!Next]_(Turns!vars)
  <2>1. /\ value[t] \in Values /\ Queued(t) /\ ticket[t] \in Tickets
        /\ UNCHANGED <<ticket, value, calls>>
    BY <1>0, <1>4, TicketTypes DEF TakeTurn, At, Queued, Waiting
  <2>2. \A w \in Values :
           /\ Line(w)' = Line(w) \ {t}
           /\ t \in Line(w) <=> w = value[t]
    BY <1>0, <1>4, <2>1 DEF TakeTurn, At, Goto, TypeOK, Line, Queued, Waiting, Inside
  <2>3. \A w \in Values : InLine(w)' = IF w = value[t]
                                       THEN InLine(w) \ {ticket[t]}
                                       ELSE InLine(w)
    BY <1>0, <2>1, <2>2, LeavesLine DEF Tickets
  <2>4. ticket[t] \in InLine(value[t])
    BY <2>1, <2>2 DEF InLine
  <2>5. \A w \in Values :
           Holders(w)' = IF w = value[t] THEN Holders(w) \cup {t} ELSE Holders(w)
    BY <1>0, <1>4, <2>1 DEF TakeTurn, At, Goto, TypeOK, Owned, Holders, HasTurn,
           Inside
  <2>6. queue[value[t]] # <<>> /\ Head(queue[value[t]]) = ticket[t]
    BY <1>4 DEF TakeTurn, IsNext
  <2>7. Holders(value[t]) = {}
    <3> SUFFICES ASSUME NEW u \in Holders(value[t])
                 PROVE  FALSE
      OBVIOUS
    <3>1. ticket[u] = ticket[t] /\ u \in Threads /\ pc[u] \in Inside
      BY <1>0, <2>6 DEF AtHead, Holders, HasTurn
    <3>2. u = t
      BY <1>0, <2>1, <3>1 DEF Unique, Tickets
    <3> QED
      BY <1>4, <3>1, <3>2 DEF TakeTurn, At, Inside
  <2>8. Holders(value[t])' = {t}
    BY <2>1, <2>5, <2>7
  <2>9. \A w \in Values : Turn(w)' = IF w = value[t] THEN ticket[t] ELSE Turn(w)
    <3> SUFFICES ASSUME NEW w \in Values
                 PROVE  Turn(w)' = IF w = value[t] THEN ticket[t] ELSE Turn(w)
      OBVIOUS
    <3>1. CASE w = value[t]
      BY <2>1, <2>8, <3>1 DEF Turn
    <3>2. CASE w # value[t]
      BY <2>1, <2>5, <3>2, SameHolders
    <3> QED
      BY <3>1, <3>2
  <2>10. Turn(value[t]) = 0
    BY <2>7 DEF Turn
  <2>11. \A k \in InLine(value[t]) : ticket[t] <= k
    <3> SUFFICES ASSUME NEW u \in Line(value[t]), ticket[u] < ticket[t]
                 PROVE  FALSE
      <4>1. ASSUME NEW u \in Line(value[t])
            PROVE  ticket[u] \in Nat /\ ticket[t] \in Nat
        BY <1>0 DEF TypeOK, Line
      <4> QED
        BY <4>1 DEF InLine
    <3>1. Before(queue[value[t]], ticket[u], ticket[t])
      BY <1>0, <2>1 DEF Ordered, Line
    <3>2. /\ 1 \in DOMAIN queue[value[t]]
          /\ queue[value[t]][1] = ticket[t]
      BY <1>0, <2>1, <2>6 DEF TypeOK
    <3> QED
      BY <3>1, <3>2 DEF Before
  <2>12. Turns!TakeTurn(value[t], ticket[t])
    BY <2>1, <2>3, <2>4, <2>9, <2>10, <2>11 DEF Turns!TakeTurn
  <2> QED
    BY <2>1, <2>4, <2>12 DEF Turns!Next
<1>5. ASSUME NEW t \in Threads, Quit(t)
      PROVE  [Turns!Next]_(Turns!vars)
  <2>1. /\ value[t] \in Values /\ Queued(t) /\ ticket[t] \in Tickets
        /\ UNCHANGED <<ticket, value, calls>>
    BY <1>0, <1>5, TicketTypes DEF Quit, At, Queued, Waiting
  <2>2. \A w \in Values :
           /\ Line(w)' = Line(w) \ {t}
           /\ t \in Line(w) <=> w = value[t]
    BY <1>0, <1>5, <2>1 DEF Quit, At, Goto, TypeOK, Line, Queued, Waiting, Inside
  <2>3. \A w \in Values : InLine(w)' = IF w = value[t]
                                       THEN InLine(w) \ {ticket[t]}
                                       ELSE InLine(w)
    BY <1>0, <2>1, <2>2, LeavesLine DEF Tickets
  <2>4. ticket[t] \in InLine(value[t])
    BY <2>1, <2>2 DEF InLine
  <2>5. \A w \in Values : Holders(w)' = Holders(w)
    BY <1>0, <1>5, <2>1 DEF Quit, At, Goto, TypeOK, Holders, HasTurn, Inside
  <2>6. \A w \in Values : Turn(w)' = Turn(w)
    BY <2>1, <2>5, SameHolders
  <2>7. Turns!GiveUp(value[t], ticket[t])
    BY <2>1, <2>3, <2>4, <2>6 DEF Turns!GiveUp
  <2> QED
    BY <2>1, <2>4, <2>7 DEF Turns!Next
<1>6. ASSUME NEW t \in Threads, Query(t) \/ SearchFails(t)
      PROVE  [Turns!Next]_(Turns!vars)
  <2>1. /\ UNCHANGED <<ticket, calls>>
        /\ \A u \in Threads, w \in Values :
              /\ (Queued(u) /\ value[u] = w)' <=> Queued(u) /\ value[u] = w
              /\ (HasTurn(u) /\ value[u] = w)' <=> HasTurn(u) /\ value[u] = w
    BY <1>0, <1>6 DEF Query, SearchFails, At, Goto, TypeOK, Owned, Queued, HasTurn,
           Waiting, Inside
  <2>2. \A w \in Values : Line(w)' = Line(w) /\ Holders(w)' = Holders(w)
    BY <2>1 DEF Line, Holders
  <2> QED
    BY <2>1, <2>2, SameLineAndTurn
<1>7. ASSUME NEW t \in Threads, Make(t)
      PROVE  [Turns!Next]_(Turns!vars)
  <2>1. /\ UNCHANGED <<ticket, calls>>
        /\ \A u \in Threads, w \in Values :
              /\ (Queued(u) /\ value[u] = w)' <=> Queued(u) /\ value[u] = w
              /\ (HasTurn(u) /\ value[u] = w)' <=> HasTurn(u) /\ value[u] = w
    BY <1>0, <1>7 DEF Make, At, Goto, TypeOK, Owned, Queued, HasTurn, Waiting,
           Inside
  <2>2. \A w \in Values : Line(w)' = Line(w) /\ Holders(w)' = Holders(w)
    BY <2>1 DEF Line, Holders
  <2> QED
    BY <2>1, <2>2, SameLineAndTurn
<1>8. ASSUME NEW t \in Threads, Unblock(t)
      PROVE  [Turns!Next]_(Turns!vars)
  <2>1. /\ value[t] \in Values /\ ticket[t] \in Tickets /\ pc[t] = "leave"
        /\ calls' = calls
    BY <1>0, <1>8, TicketTypes DEF Unblock, At, Inside
  <2>2. /\ pc' = [pc EXCEPT ![t] = "idle"] /\ late' = late \ {t}
        /\ ticket' = [ticket EXCEPT ![t] = 0]
        /\ value' = [value EXCEPT ![t] = NoValue]
    BY <1>8 DEF Unblock, Goto
  <2>3. \A w \in Values : /\ Line(w)' = Line(w) /\ t \notin Line(w)
                          /\ Holders(w)' = Holders(w) \ {t}
                          /\ t \in Holders(w) <=> HasTurn(t) /\ w = value[t]
    BY <1>0, <2>1, <2>2 DEF TypeOK, Line, Holders, Queued, HasTurn, Waiting, Inside
  <2>4. \A u \in Threads \ {t} : ticket'[u] = ticket[u]
    BY <1>0, <2>2 DEF TypeOK
  <2>5. \A w \in Values : InLine(w)' = InLine(w)
    BY <2>3, <2>4 DEF InLine, Line
  <2>6. CASE ~HasTurn(t)
    <3>1. \A w \in Values : Holders(w)' = Holders(w) /\ t \notin Holders(w)
      BY <2>3, <2>6
    <3>2. \A w \in Values : Turn(w)' = Turn(w)
      BY <2>4, <3>1, SameHolders DEF Holders
    <3> QED
      BY <2>1, <2>5, <3>2 DEF Turns!vars
  <2>7. CASE HasTurn(t)
    <3>1. Holders(value[t]) = {t}
      <4>1. \A u \in Holders(value[t]) : u = t
        BY <1>0, <2>1, <2>7 DEF AtHead, Unique, Holders, Tickets
      <4> QED
        BY <2>1, <2>3, <2>7, <4>1
    <3>1a. \A w \in Values : w = value[t] => Holders(w)' = {}
      BY <2>1, <2>3, <3>1
    <3>1b. (CHOOSE u \in Holders(value[t]) : TRUE) = t
      BY <3>1
    <3>2. /\ Turn(value[t]) = ticket[t]
          /\ \A w \in Values : w = value[t] => Turn(w)' = 0
      BY <3>1, <3>1a, <3>1b DEF Turn
    <3>3. \A w \in Values : Turn(w)' = IF w = value[t] THEN 0 ELSE Turn(w)
      <4> SUFFICES ASSUME NEW w \in Values
                   PROVE  Turn(w)' = IF w = value[t] THEN 0 ELSE Turn(w)
        OBVIOUS
      <4>1. CASE w = value[t]
        BY <3>2, <4>1
      <4>2. CASE w # value[t]
        <5>1. Holders(w)' = Holders(w) /\ t \notin Holders(w)
          BY <2>3, <4>2
        <5> QED
          BY <2>4, <4>2, <5>1, SameHolders DEF Holders
      <4> QED
        BY <4>1, <4>2
    <3>4. Turns!EndTurn(value[t])
      BY <2>1, <2>5, <3>2, <3>3 DEF Turns!EndTurn, Tickets
    <3> QED
      BY <2>1, <3>4 DEF Turns!Next
  <2> QED
    BY <2>6, <2>7
<1>9. ASSUME NEW t \in Threads, QueueAgain(t)
      PROVE  [Turns!Next]_(Turns!vars)
  <2>1. /\ UNCHANGED <<ticket, calls>>
        /\ \A u \in Threads, w \in Values :
              /\ (Queued(u) /\ value[u] = w)' <=> Queued(u) /\ value[u] = w
              /\ (HasTurn(u) /\ value[u] = w)' <=> HasTurn(u) /\ value[u] = w
    BY <1>0, <1>9 DEF QueueAgain, At, Goto, TypeOK, Owned, Queued, HasTurn, Waiting,
           Inside
  <2>2. \A w \in Values : Line(w)' = Line(w) /\ Holders(w)' = Holders(w)
    BY <2>1 DEF Line, Holders
  <2> QED
    BY <2>1, <2>2, SameLineAndTurn
<1>10. ASSUME NEW t \in Threads, TimeOut(t)
       PROVE  [Turns!Next]_(Turns!vars)
  <2>1. /\ UNCHANGED <<ticket, calls>>
        /\ \A u \in Threads, w \in Values :
              /\ (Queued(u) /\ value[u] = w)' <=> Queued(u) /\ value[u] = w
              /\ (HasTurn(u) /\ value[u] = w)' <=> HasTurn(u) /\ value[u] = w
    BY <1>0, <1>10 DEF TimeOut, At, Goto, TypeOK, Owned, Queued, HasTurn, Waiting,
           Inside
  <2>2. \A w \in Values : Line(w)' = Line(w) /\ Holders(w)' = Holders(w)
    BY <2>1 DEF Line, Holders
  <2> QED
    BY <2>1, <2>2, SameLineAndTurn
<1>11. ASSUME NEW v \in Values, Refresh(v)
       PROVE  [Turns!Next]_(Turns!vars)
  <2>1. UNCHANGED <<queue, pc, ticket, value, late, calls>>
    BY <1>11 DEF Refresh
  <2> QED
    BY <2>1, SameLineAndTurn DEF Line, Holders, Queued, HasTurn
<1>12. CASE UNCHANGED vars
  <2>1. UNCHANGED <<queue, pc, ticket, value, late, calls>>
    BY <1>12 DEF vars
  <2> QED
    BY <2>1, SameLineAndTurn DEF Line, Holders, Queued, HasTurn
<1> QED
  BY <1>1, <1>2, <1>3, <1>4, <1>5, <1>6, <1>7, <1>8, <1>9, <1>10, <1>11,
     <1>12 DEF Next, Step, Hazard

\* ValueBlocker implements ValueTurns for any numbers of threads and values.
THEOREM TurnsImplemented == Spec => ImplementsValueTurns
<1>1. Init => Turns!Init
  <2>1. Init => \A v \in Values : Line(v) = {} /\ Holders(v) = {}
    BY DEF Init, Line, Holders, Queued, HasTurn, Waiting, Inside
  <2>2. Init => \A v \in Values : InLine(v) = {} /\ Turn(v) = 0
    BY <2>1 DEF InLine, Turn
  <2> QED
    BY <2>2 DEF Init, Turns!Init
<1> QED
  BY <1>1, RefinementStep, TurnsInvariant, PTL
     DEF Spec, ImplementsValueTurns, Turns!Spec
=============================================================================
