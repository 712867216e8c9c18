---------------------------- MODULE SmxObjsProofs ---------------------------
(***************************************************************************)
(* Theorems about SmxMsg, SmxPipe, SmxEventQueue, SmxEventGroup and        *)
(* SmxFPortal: for every number of tasks, of messages, of exchanges,       *)
(* whatever their modes, and of priorities; for pipes of every length, and *)
(* every way of ISRs to come between the steps of a call to a pipe; for    *)
(* every count of an event queue; for flags of every width and every set   *)
(* of tests; and for every number of clients of a free message portal.     *)
(***************************************************************************)
EXTENDS SmxMsg, SmxPipe, SmxEventQueue, SmxEventGroup, SmxFPortal, SmxLemmas,
        FiniteSetTheorems, TLAPS

-----------------------------------------------------------------------------
(* Queues of exchanges.  What the lemmas say is in terms of what a queue   *)
(* contains and of the order of its elements, not of their positions.      *)

Things == Msgs \union Tasks

\* No message and no task is in two places.
Separate(q) == /\ q \in [Xchgs -> Seq(Things)]
               /\ \A x \in Xchgs : Injective(q[x])
               /\ \A x, y \in Xchgs, z \in Things : Contains(q[x], z) /\ Contains(q[y], z) => x = y

\* In the order of the priorities pr.
Ordered(q, pr) == \A x \in Xchgs : Mode[x] # "BCST" => Descending(q[x], pr)

Urgency(f) == [z \in Things |-> Pri(f, z)]

\* z is in no queue.
Out(q, z) == \A x \in Xchgs : ~Contains(q[x], z)

LEMMA InThings ==
  ASSUME NEW q, Separate(q), NEW x \in Xchgs, NEW z, Contains(q[x], z)
  PROVE  z \in Things
  <1>1. q[x] \in Seq(Things)
    BY DEF Separate
  <1> QED BY <1>1, ElementOfSeq DEF Contains

\* The contents of the queues after z has been taken out of that of x.
Drops(q, r, z) == \A y \in Xchgs : \A u : Contains(r[y], u) <=> Contains(q[y], u) /\ u # z

LEMMA Taken ==
  ASSUME NEW q, Separate(q), NEW x \in Xchgs, NEW z \in Things, Contains(q[x], z),
         NEW r, r = [q EXCEPT ![x] = Without(q[x], z)]
  PROVE  Separate(r) /\ Drops(q, r, z)
  <1>1. /\ q \in [Xchgs -> Seq(Things)] /\ q[x] \in Seq(Things) /\ Injective(q[x])
        /\ \A y \in Xchgs : Contains(q[y], z) => y = x
    BY DEF Separate
  <1>2. /\ Without(q[x], z) \in Seq(Things) /\ Injective(Without(q[x], z))
        /\ \A u : Contains(Without(q[x], z), u) <=> Contains(q[x], u) /\ u # z
    BY <1>1, WithoutProperties
  <1> DEFINE w == Without(q[x], z)
  <1> HIDE DEF w
  <1>3. /\ r \in [Xchgs -> Seq(Things)] /\ r[x] = w
        /\ \A y \in Xchgs : y # x => r[y] = q[y]
    BY <1>1, <1>2 DEF w
  <1>4. \A y \in Xchgs : \A u : Contains(r[y], u) <=> Contains(q[y], u) /\ u # z
    BY <1>1, <1>2, <1>3 DEF w
  <1>5. \A y \in Xchgs : Injective(r[y])
    BY <1>2, <1>3 DEF w, Separate
  <1>6. \A y, y2 \in Xchgs, u \in Things : Contains(r[y], u) /\ Contains(r[y2], u) => y = y2
    BY <1>4 DEF Separate
  <1> QED BY <1>3, <1>4, <1>5, <1>6 DEF Separate, Drops

LEMMA TakenOrdered ==
  ASSUME NEW q, Separate(q), NEW x \in Xchgs, NEW z \in Things, Contains(q[x], z),
         NEW r, r = [q EXCEPT ![x] = Without(q[x], z)],
         NEW p1, NEW p2, Ordered(q, p1), \A u \in Things \ {z} : p2[u] = p1[u]
  PROVE  Ordered(r, p2)
  <1> SUFFICES ASSUME NEW y \in Xchgs, Mode[y] # "BCST" PROVE Descending(r[y], p2)
    BY DEF Ordered
  <1>1. q[y] \in Seq(Things) /\ Injective(q[y]) /\ Descending(q[y], p1) /\ q \in [Xchgs -> Seq(Things)]
    BY DEF Separate, Ordered
  <1>2. CASE y = x
    <2>1. Descending(Without(q[y], z), p2)
      BY <1>1, WithoutDescending
    <2> QED BY <1>1, <1>2, <2>1
  <1>3. CASE y # x
    <2>1. \A u \in Things : Contains(q[y], u) => p2[u] = p1[u]
      BY <1>3 DEF Separate
    <2>2. Descending(q[y], p2)
      BY <1>1, <2>1, DescendingAgrees
    <2> QED BY <1>1, <1>3, <2>2
  <1> QED BY <1>2, <1>3

\* z is in no queue that is in the order of priority.
Apart(q, z) == \A x \in Xchgs : Mode[x] # "BCST" => ~Contains(q[x], z)

\* A priority changes that no queue is ordered by.
LEMMA ApartOrdered ==
  ASSUME NEW q, Separate(q), NEW z, Apart(q, z),
         NEW p1, NEW p2, Ordered(q, p1), \A u \in Things \ {z} : p2[u] = p1[u]
  PROVE  Ordered(q, p2)
  <1> SUFFICES ASSUME NEW y \in Xchgs, Mode[y] # "BCST" PROVE Descending(q[y], p2)
    BY DEF Ordered
  <1>1. q[y] \in Seq(Things) /\ Descending(q[y], p1)
    BY DEF Separate, Ordered
  <1>2. \A u \in Things : Contains(q[y], u) => p2[u] = p1[u]
    BY DEF Apart
  <1> QED BY <1>1, <1>2, DescendingAgrees

\* The contents after z has been put into the queue of x.
Gains(q, r, x, z) ==
    \A y \in Xchgs : \A u : Contains(r[y], u) <=> Contains(q[y], u) \/ (y = x /\ u = z)

LEMMA Inserted ==
  ASSUME NEW q, Separate(q), NEW x \in Xchgs, NEW z \in Things, Out(q, z),
         NEW n \in 1..Len(q[x]) + 1,
         NEW r, r = [q EXCEPT ![x] = InsertAt(q[x], n, z)]
  PROVE  Separate(r) /\ Gains(q, r, x, z)
  <1>1. /\ q \in [Xchgs -> Seq(Things)] /\ q[x] \in Seq(Things) /\ Injective(q[x])
        /\ ~Contains(q[x], z)
    BY DEF Separate, Out
  <1> DEFINE w == InsertAt(q[x], n, z)
  <1>2. /\ w \in Seq(Things) /\ Injective(w)
        /\ \A u : Contains(w, u) <=> Contains(q[x], u) \/ u = z
    BY <1>1, InsertContains
  <1>2a. r = [q EXCEPT ![x] = w]
    OBVIOUS
  <1> HIDE DEF w
  <1>3. /\ r \in [Xchgs -> Seq(Things)] /\ r[x] = w
        /\ \A y \in Xchgs : y # x => r[y] = q[y]
    BY <1>1, <1>2, <1>2a
  <1>4. \A y \in Xchgs : \A u : Contains(r[y], u) <=> Contains(q[y], u) \/ (y = x /\ u = z)
    BY <1>1, <1>2, <1>3
  <1>5. \A y \in Xchgs : Injective(r[y])
    BY <1>2, <1>3 DEF Separate
  <1>6. \A y, y2 \in Xchgs, u \in Things : Contains(r[y], u) /\ Contains(r[y2], u) => y = y2
    BY <1>4 DEF Separate, Out
  <1> QED BY <1>3, <1>4, <1>5, <1>6 DEF Separate, Gains

-----------------------------------------------------------------------------
(* The order of priority. *)

LEMMA UrgencyIs ==
  ASSUME NEW f \in MsgType
  PROVE  /\ Urgency(f) \in [Things -> Int]
         /\ \A t \in Tasks : Urgency(f)[t] = f.pri[t] /\ f.pri[t] \in Nat
         /\ \A m \in Msgs : Urgency(f)[m] = f.mpri[m] /\ f.mpri[m] \in Nat
  <1>1. /\ f.pri \in [Tasks -> Pris] /\ f.mpri \in [Msgs -> Pris]
        /\ Pris \subseteq Nat /\ Nat \subseteq Int
    BY MsgAssumption DEF MsgType, Pris
  <1>2. \A m \in Msgs : m \notin Tasks
    BY MsgAssumption
  <1> QED BY <1>1, <1>2 DEF Urgency, Pri, Things

\* Where a message or a task goes.
GoesAt(f, s, z, n) == /\ ByPriority(f, s, z) = InsertAt(s, n, z)
                      /\ \A i \in 1..n - 1 : Urgency(f)[s[i]] >= Urgency(f)[z]
                      /\ n <= Len(s) => Urgency(f)[z] >= Urgency(f)[s[n]]

LEMMA PlaceExists ==
  ASSUME NEW f \in MsgType, NEW s \in Seq(Things), NEW z \in Things
  PROVE  \E n \in 1..Len(s) + 1 : GoesAt(f, s, z, n)
  <1> DEFINE lower == {i \in DOMAIN s : Pri(f, s[i]) < Pri(f, z)}
             S == lower \union {Len(s) + 1}
             n == Min(S)
  <1>1. /\ Len(s) \in Nat /\ DOMAIN s = 1..Len(s) /\ \A i \in 1..Len(s) : s[i] \in Things
    BY LenProperties, ElementOfSeq
  <1>2. \A u \in Things : Urgency(f)[u] = Pri(f, u) /\ Urgency(f)[u] \in Int
    BY UrgencyIs DEF Urgency
  <1>3. S \in SUBSET Nat /\ S # {}
    BY <1>1
  <1>4. n \in S /\ \A y \in S : n <= y
    <2> HIDE DEF S
    <2> QED BY <1>3, MinProperties
  <1>5. n \in 1..Len(s) + 1
    BY <1>1, <1>4
  <1>6. ByPriority(f, s, z) = InsertAt(s, n, z)
    BY DEF ByPriority
  <1> HIDE DEF n
  <1>7. ASSUME NEW i \in 1..n - 1 PROVE Urgency(f)[s[i]] >= Urgency(f)[z]
    <2>1. i \in 1..Len(s) /\ ~(n <= i)
      BY <1>1, <1>5
    <2>2. i \notin lower
      BY <1>4, <2>1
    <2>3. ~(Pri(f, s[i]) < Pri(f, z))
      BY <1>1, <2>1, <2>2
    <2> QED BY <1>1, <1>2, <2>1, <2>3
  <1>8. ASSUME n <= Len(s) PROVE Urgency(f)[z] >= Urgency(f)[s[n]]
    <2>1. n \in lower
      BY <1>1, <1>4, <1>5, <1>8
    <2>2. s[n] \in Things /\ Pri(f, s[n]) < Pri(f, z)
      BY <1>1, <2>1
    <2> QED BY <1>2, <2>2
  <1> QED BY <1>5, <1>6, <1>7, <1>8 DEF GoesAt

\* What is put by priority into a queue that is in order leaves it in order.
LEMMA PutByPriority ==
  ASSUME NEW f \in MsgType, NEW q, Separate(q), Ordered(q, Urgency(f)),
         NEW x \in Xchgs, NEW z \in Things, Out(q, z),
         NEW r, r = [q EXCEPT ![x] = ByPriority(f, q[x], z)]
  PROVE  Separate(r) /\ Gains(q, r, x, z) /\ Ordered(r, Urgency(f))
  <1>1. q \in [Xchgs -> Seq(Things)] /\ q[x] \in Seq(Things)
    BY DEF Separate
  <1>2. PICK n \in 1..Len(q[x]) + 1 : GoesAt(f, q[x], z, n)
    BY <1>1, PlaceExists
  <1> DEFINE w == InsertAt(q[x], n, z)
  <1>3. r = [q EXCEPT ![x] = w]
    BY <1>2 DEF GoesAt
  <1>4. Separate(r) /\ Gains(q, r, x, z)
    BY <1>3, Inserted
  <1>5. ASSUME NEW y \in Xchgs, Mode[y] # "BCST" PROVE Descending(r[y], Urgency(f))
    <2>1. Descending(q[y], Urgency(f))
      BY <1>5 DEF Ordered
    <2>2. CASE y # x
      BY <1>1, <1>3, <2>1, <2>2
    <2>3. CASE y = x
      <3> DEFINE g == Urgency(f)
      <3>1. /\ g \in [Things -> Int] /\ Descending(q[x], g)
            /\ \A i \in 1..n - 1 : g[q[x][i]] >= g[z]
            /\ n <= Len(q[x]) => g[z] >= g[q[x][n]]
        BY <1>2, <2>1, <2>3, UrgencyIs DEF GoesAt
      <3> HIDE DEF g
      <3>2. Descending(w, g)
        BY <1>1, <3>1, InsertDescending
      <3> QED BY <1>1, <1>3, <2>3, <3>2 DEF g
    <2> QED BY <2>2, <2>3
  <1> QED BY <1>4, <1>5 DEF Ordered

-----------------------------------------------------------------------------
(* What Intact says, in terms of the contents of the queues. *)

\* There is more in the queue than z.
LEMMA LeftOver ==
  ASSUME NEW S, NEW s \in Seq(S), Injective(s), NEW z, Contains(s, z)
  PROVE  Len(s) > 1 <=> \E u : Contains(s, u) /\ u # z
  <1>1. Len(s) \in Nat
    BY LenProperties
  <1>2. ASSUME Len(s) > 1 PROVE \E u : Contains(s, u) /\ u # z
    <2>1. 1 \in 1..Len(s) /\ 2 \in 1..Len(s)
      BY <1>1, <1>2
    <2>2. Contains(s, s[1]) /\ Contains(s, s[2]) /\ s[1] # s[2]
      BY <2>1 DEF Contains, Injective
    <2> QED BY <2>2
  <1>3. ASSUME NEW u, Contains(s, u), u # z PROVE Len(s) > 1
    <2>1. PICK i \in 1..Len(s) : s[i] = u
      BY <1>3 DEF Contains
    <2>2. PICK j \in 1..Len(s) : s[j] = z
      BY DEF Contains
    <2>3. i # j
      BY <1>3, <2>1, <2>2
    <2> QED BY <1>1, <2>3
  <1> QED BY <1>2, <1>3

LEMMA OneLeft ==
  ASSUME NEW S, NEW s \in Seq(S), Injective(s), NEW z, Contains(s, z)
  PROVE  Len(s) = 1 <=> \A u : Contains(s, u) => u = z
  <1>1. Len(s) > 1 <=> \E u : Contains(s, u) /\ u # z
    BY LeftOver
  <1>2. PICK i \in 1..Len(s) : s[i] = z
    BY DEF Contains
  <1> DEFINE n == Len(s)
  <1>3. n \in Nat /\ 1 \in Nat
    BY LenProperties
  <1> HIDE DEF n
  <1>4. n >= 1
    BY <1>2, <1>3 DEF n
  <1>5. n = 1 <=> ~(n > 1)
    BY <1>3, <1>4
  <1> QED BY <1>1, <1>5 DEF n

Marked(f) ==
    \A x \in Xchgs : /\ f.tq[x] <=> \E t \in Tasks : Contains(f.q[x], t)
                     /\ f.mq[x] <=> \E m \in Msgs : Contains(f.q[x], m)
                     /\ ~(f.tq[x] /\ f.mq[x])

\* Whose the messages are that wait.
Owners(f) ==
    \A m \in Msgs, x \in Xchgs : Contains(f.q[x], m) =>
       /\ Mode[x] = "BCST" => (\A u : Contains(f.q[x], u) => u = m) /\ f.onr[m] # None
       /\ Mode[x] # "BCST" => f.onr[m] = x

\* What belongs to an exchange waits at some exchange.
Placed(f) == \A m \in Msgs : f.onr[m] \in Xchgs => \E x \in Xchgs : Contains(f.q[x], m)

Whole(f) == Marked(f) /\ Separate(f.q) /\ Owners(f)

\* Intact, of any such data f.
FlagsTrueIn(f) ==
    \A x \in Xchgs : /\ f.tq[x] <=> Range(f.q[x]) \intersect Tasks # {}
                     /\ f.mq[x] <=> Range(f.q[x]) \intersect Msgs # {}
                     /\ ~(f.tq[x] /\ f.mq[x])

OwnersTrueIn(f) ==
    \A m \in Msgs, x \in Xchgs : m \in Range(f.q[x]) =>
       IF Mode[x] = "BCST" THEN Len(f.q[x]) = 1 /\ f.onr[m] # None ELSE f.onr[m] = x

PlacedIn(f) == \A m \in Msgs : f.onr[m] \in Xchgs => At(f, m) # {}

PlacesTrueIn(f) ==
    /\ \A z \in Tasks \union Msgs : Cardinality(At(f, z)) <= 1
    /\ \A x \in Xchgs : IsInjective(f.q[x])
    /\ OwnersTrueIn(f)
    /\ PlacedIn(f)

LEMMA QueueType ==
  ASSUME NEW f \in MsgType, NEW x \in Xchgs
  PROVE  f.q \in [Xchgs -> Seq(Things)] /\ f.q[x] \in Seq(Things)
  BY DEF MsgType, Things

LEMMA RangeIs ==
  ASSUME NEW f \in MsgType, NEW x \in Xchgs
  PROVE  /\ \A u : u \in Range(f.q[x]) <=> Contains(f.q[x], u)
         /\ IsInjective(f.q[x]) <=> Injective(f.q[x])
  BY QueueType, RangeContains

LEMMA AtIs ==
  ASSUME NEW f \in MsgType, NEW z
  PROVE  \A x : x \in At(f, z) <=> x \in Xchgs /\ Contains(f.q[x], z)
  BY RangeIs DEF At

LEMMA OnePlace ==
  ASSUME NEW f \in MsgType, NEW z
  PROVE  Cardinality(At(f, z)) <= 1 <=>
           \A x, y \in Xchgs : Contains(f.q[x], z) /\ Contains(f.q[y], z) => x = y
  <1> DEFINE A == At(f, z)
  <1>1. IsFiniteSet(A)
    <2>1. A \in SUBSET Xchgs /\ IsFiniteSet(Xchgs)
      BY MsgAssumption DEF At
    <2> HIDE DEF A
    <2> QED BY <2>1, FS_Subset
  <1>2. \A x : x \in A <=> x \in Xchgs /\ Contains(f.q[x], z)
    BY AtIs
  <1> HIDE DEF A
  <1>3. Cardinality(A) \in Nat
    BY <1>1, FS_CardinalityType
  <1>4. Cardinality(A) = 0 <=> A = {}
    BY <1>1, FS_EmptySet
  <1>5. Cardinality(A) = 1 <=> \E x : A = {x}
    BY <1>1, FS_Singleton
  <1>6. Cardinality(A) <= 1 <=> A = {} \/ \E x : A = {x}
    BY <1>3, <1>4, <1>5
  <1>7. (A = {} \/ \E x : A = {x}) <=> \A x, y \in A : x = y
    <2>1. ASSUME \A x, y \in A : x = y, A # {} PROVE \E x : A = {x}
      <3>1. PICK x : x \in A
        BY <2>1
      <3>2. A = {x}
        BY <2>1, <3>1
      <3> QED BY <3>2
    <2> QED BY <2>1
  <1>8. (\A x, y \in A : x = y) <=>
          \A x, y \in Xchgs : Contains(f.q[x], z) /\ Contains(f.q[y], z) => x = y
    BY <1>2
  <1> QED BY <1>6, <1>7, <1>8 DEF A

LEMMA IntactIs ==
  ASSUME NEW f \in MsgType
  PROVE  FlagsTrueIn(f) /\ PlacesTrueIn(f) <=> Whole(f) /\ Placed(f)
  <1>1. FlagsTrueIn(f) <=> Marked(f)
    <2>1. ASSUME NEW x \in Xchgs
          PROVE  /\ Range(f.q[x]) \intersect Tasks # {} <=> \E t \in Tasks : Contains(f.q[x], t)
                 /\ Range(f.q[x]) \intersect Msgs # {} <=> \E m \in Msgs : Contains(f.q[x], m)
      BY RangeIs
    <2> QED BY <2>1 DEF FlagsTrueIn, Marked
  <1>2. (\A x \in Xchgs : IsInjective(f.q[x])) <=> \A x \in Xchgs : Injective(f.q[x])
    BY RangeIs
  <1>3. (\A z \in Tasks \union Msgs : Cardinality(At(f, z)) <= 1) <=>
          \A x, y \in Xchgs, z \in Things : Contains(f.q[x], z) /\ Contains(f.q[y], z) => x = y
    <2>1. ASSUME NEW z \in Things
          PROVE  Cardinality(At(f, z)) <= 1 <=>
                   \A x, y \in Xchgs : Contains(f.q[x], z) /\ Contains(f.q[y], z) => x = y
      BY OnePlace
    <2> QED BY <2>1 DEF Things
  <1>4. ASSUME \A x \in Xchgs : Injective(f.q[x])
        PROVE  OwnersTrueIn(f) <=> Owners(f)
    <2>1. ASSUME NEW x \in Xchgs, NEW m, Contains(f.q[x], m)
          PROVE  Len(f.q[x]) = 1 <=> \A u : Contains(f.q[x], u) => u = m
      BY <1>4, <2>1, QueueType, OneLeft
    <2>2. ASSUME NEW m \in Msgs, NEW x \in Xchgs
          PROVE  /\ m \in Range(f.q[x]) <=> Contains(f.q[x], m)
                 /\ Contains(f.q[x], m) => (Len(f.q[x]) = 1 <=> \A u : Contains(f.q[x], u) => u = m)
      BY <2>1, RangeIs
    <2> QED BY <2>2 DEF Owners, OwnersTrueIn
  <1>5. f.q \in [Xchgs -> Seq(Things)]
    BY DEF MsgType, Things
  <1>6. PlacedIn(f) <=> Placed(f)
    <2>1. \A m : At(f, m) # {} <=> \E x \in Xchgs : Contains(f.q[x], m)
      BY AtIs
    <2> QED BY <2>1 DEF PlacedIn, Placed
  <1> QED BY <1>1, <1>2, <1>3, <1>4, <1>5, <1>6 DEF PlacesTrueIn, Whole, Separate

-----------------------------------------------------------------------------
(* The routines for the queues. *)

\* What f and g have in common if only queues and flags differ.
SameTasks(f, g) == g.xonr = f.xonr /\ g.pri = f.pri /\ g.norm = f.norm /\ g.molp = f.molp

SameRest(f, g) == SameTasks(f, g) /\ g.onr = f.onr /\ g.mpri = f.mpri

LEMMA SameUrgency ==
  ASSUME NEW f, NEW g, g.pri = f.pri, g.mpri = f.mpri
  PROVE  Urgency(g) = Urgency(f)
  BY DEF Urgency, Pri

\* z has been taken out of the queues of f, with the flags of g kept right.
Dequeued(f, g, z) ==
    /\ g \in MsgType
    /\ Marked(g) /\ Separate(g.q) /\ Drops(f.q, g.q, z) /\ SameRest(f, g)
    /\ \A p1, p2 : Ordered(f.q, p1) /\ (\A u \in Things \ {z} : p2[u] = p1[u]) => Ordered(g.q, p2)

\* The place of something that waits, as the code finds it.
LEMMA PlaceOf ==
  ASSUME NEW f \in MsgType, Separate(f.q), NEW z \in Things, NEW x \in Xchgs, Contains(f.q[x], z)
  PROVE  At(f, z) # {} /\ (CHOOSE y \in At(f, z) : TRUE) = x
  <1>1. \A y : y \in At(f, z) <=> y \in Xchgs /\ Contains(f.q[y], z)
    BY AtIs
  <1>2. \A y \in At(f, z) : y = x
    BY <1>1 DEF Separate
  <1> QED BY <1>1, <1>2

LEMMA OutIs ==
  ASSUME NEW f \in MsgType, NEW z
  PROVE  At(f, z) = {} <=> Out(f.q, z)
  BY AtIs DEF Out

LEMMA DQMsgDequeues ==
  ASSUME NEW f \in MsgType, Marked(f), Separate(f.q), NEW m \in Msgs, At(f, m) # {}
  PROVE  Dequeued(f, DQMsg(f, m), m) /\ DQMsg(f, m).tq = f.tq
  <1>1. PICK x \in Xchgs : Contains(f.q[x], m)
    BY AtIs
  <1>2. m \in Things /\ (CHOOSE y \in At(f, m) : TRUE) = x
    BY <1>1, PlaceOf DEF Things
  <1>3. DQMsg(f, m) = [f EXCEPT !.q[x] = Without(@, m), !.mq[x] = @ /\ Len(f.q[x]) > 1]
    BY <1>2, Zenon DEF DQMsg
  <1>4. /\ f.q \in [Xchgs -> Seq(Things)] /\ f.q[x] \in Seq(Things) /\ Injective(f.q[x])
        /\ f.mq \in [Xchgs -> BOOLEAN] /\ f.mq[x] \in BOOLEAN
    BY DEF MsgType, Separate, Things
  <1> DEFINE w == Without(f.q[x], m)
             b == f.mq[x] /\ Len(f.q[x]) > 1
             r == [f.q EXCEPT ![x] = w]
             k == [f.mq EXCEPT ![x] = b]
             g == [f EXCEPT !.q = r, !.mq = k]
  <1>5. DQMsg(f, m) = g
    BY <1>3, <1>4 DEF MsgType
  <1>6. w \in Seq(Things) /\ b \in BOOLEAN
    BY <1>2, <1>4, WithoutProperties
  <1>7. Separate(r) /\ Drops(f.q, r, m)
    BY <1>1, <1>2, Taken
  <1>8. \A p1, p2 : Ordered(f.q, p1) /\ (\A u \in Things \ {m} : p2[u] = p1[u]) => Ordered(r, p2)
    BY <1>1, <1>2, TakenOrdered
  <1>9. r \in [Xchgs -> Seq(Things)] /\ k \in [Xchgs -> BOOLEAN]
    BY <1>4, <1>6
  <1> HIDE DEF r, k
  <1>10. /\ g \in MsgType /\ g.q = r /\ g.mq = k /\ g.tq = f.tq /\ SameRest(f, g)
    BY <1>9 DEF MsgType, Things, SameRest, SameTasks
  <1>11. Marked(g)
    <2> SUFFICES ASSUME NEW y \in Xchgs
                 PROVE  /\ f.tq[y] <=> \E t \in Tasks : Contains(r[y], t)
                        /\ k[y] <=> \E u \in Msgs : Contains(r[y], u)
                        /\ ~(f.tq[y] /\ k[y])
      BY <1>10 DEF Marked
    <2>1. /\ f.tq[y] <=> \E t \in Tasks : Contains(f.q[y], t)
          /\ f.mq[y] <=> \E u \in Msgs : Contains(f.q[y], u)
          /\ ~(f.tq[y] /\ f.mq[y])
      BY DEF Marked
    <2>2. \A u : Contains(r[y], u) <=> Contains(f.q[y], u) /\ u # m
      BY <1>7 DEF Drops
    <2>3. k[y] = IF y = x THEN b ELSE f.mq[y]
      BY <1>4 DEF k
    <2>4. m \notin Tasks
      BY MsgAssumption
    <2>5. CASE y # x
      <3>1. ~Contains(f.q[y], m)
        BY <1>1, <1>2, <2>5 DEF Separate
      <3> QED BY <2>1, <2>2, <2>3, <2>5, <3>1
    <2>6. CASE y = x
      <3>1. Len(f.q[y]) > 1 <=> \E u : Contains(f.q[y], u) /\ u # m
        BY <1>1, <1>4, <2>6, LeftOver
      <3>2. \A u : Contains(f.q[y], u) => u \in Msgs
        <4>1. \A u : Contains(f.q[y], u) => u \in Things
          BY InThings
        <4> QED BY <1>1, <2>1, <2>6, <4>1 DEF Things
      <3> QED BY <1>1, <2>1, <2>2, <2>3, <2>4, <2>6, <3>1, <3>2
    <2> QED BY <2>5, <2>6
  <1> QED BY <1>5, <1>7, <1>8, <1>10, <1>11 DEF Dequeued

LEMMA DQTaskDequeues ==
  ASSUME NEW f \in MsgType, Marked(f), Separate(f.q), NEW t \in Tasks, At(f, t) # {}
  PROVE  Dequeued(f, DQTask(f, t), t) /\ DQTask(f, t).mq = f.mq
  <1>1. PICK x \in Xchgs : Contains(f.q[x], t)
    BY AtIs
  <1>2. t \in Things /\ (CHOOSE y \in At(f, t) : TRUE) = x
    BY <1>1, PlaceOf DEF Things
  <1>3. DQTask(f, t) = [f EXCEPT !.q[x] = Without(@, t), !.tq[x] = @ /\ Len(f.q[x]) > 1]
    BY <1>2, Zenon DEF DQTask
  <1>4. /\ f.q \in [Xchgs -> Seq(Things)] /\ f.q[x] \in Seq(Things) /\ Injective(f.q[x])
        /\ f.tq \in [Xchgs -> BOOLEAN] /\ f.tq[x] \in BOOLEAN
    BY DEF MsgType, Separate, Things
  <1> DEFINE w == Without(f.q[x], t)
             b == f.tq[x] /\ Len(f.q[x]) > 1
             r == [f.q EXCEPT ![x] = w]
             k == [f.tq EXCEPT ![x] = b]
             g == [f EXCEPT !.q = r, !.tq = k]
  <1>5. DQTask(f, t) = g
    BY <1>3, <1>4 DEF MsgType
  <1>6. w \in Seq(Things) /\ b \in BOOLEAN
    BY <1>2, <1>4, WithoutProperties
  <1>7. Separate(r) /\ Drops(f.q, r, t)
    BY <1>1, <1>2, Taken
  <1>8. \A p1, p2 : Ordered(f.q, p1) /\ (\A u \in Things \ {t} : p2[u] = p1[u]) => Ordered(r, p2)
    BY <1>1, <1>2, TakenOrdered
  <1>9. r \in [Xchgs -> Seq(Things)] /\ k \in [Xchgs -> BOOLEAN]
    BY <1>4, <1>6
  <1> HIDE DEF r, k
  <1>10. /\ g \in MsgType /\ g.q = r /\ g.tq = k /\ g.mq = f.mq /\ SameRest(f, g)
    BY <1>9 DEF MsgType, Things, SameRest, SameTasks
  <1>11. Marked(g)
    <2> SUFFICES ASSUME NEW y \in Xchgs
                 PROVE  /\ k[y] <=> \E u \in Tasks : Contains(r[y], u)
                        /\ f.mq[y] <=> \E u \in Msgs : Contains(r[y], u)
                        /\ ~(k[y] /\ f.mq[y])
      BY <1>10 DEF Marked
    <2>1. /\ f.tq[y] <=> \E u \in Tasks : Contains(f.q[y], u)
          /\ f.mq[y] <=> \E u \in Msgs : Contains(f.q[y], u)
          /\ ~(f.tq[y] /\ f.mq[y])
      BY DEF Marked
    <2>2. \A u : Contains(r[y], u) <=> Contains(f.q[y], u) /\ u # t
      BY <1>7 DEF Drops
    <2>3. k[y] = IF y = x THEN b ELSE f.tq[y]
      BY <1>4 DEF k
    <2>4. t \notin Msgs
      BY MsgAssumption
    <2>5. CASE y # x
      <3>1. ~Contains(f.q[y], t)
        BY <1>1, <1>2, <2>5 DEF Separate
      <3> QED BY <2>1, <2>2, <2>3, <2>5, <3>1
    <2>6. CASE y = x
      <3>1. Len(f.q[y]) > 1 <=> \E u : Contains(f.q[y], u) /\ u # t
        BY <1>1, <1>4, <2>6, LeftOver
      <3>2. \A u : Contains(f.q[y], u) => u \in Tasks
        <4>1. \A u : Contains(f.q[y], u) => u \in Things
          BY InThings
        <4> QED BY <1>1, <2>1, <2>6, <4>1 DEF Things
      <3> QED BY <1>1, <2>1, <2>2, <2>3, <2>4, <2>6, <3>1, <3>2
    <2> QED BY <2>5, <2>6
  <1> QED BY <1>5, <1>7, <1>8, <1>10, <1>11 DEF Dequeued

\* The queues contain what they did.
Alike(q, r) == \A y \in Xchgs : \A u : Contains(r[y], u) <=> Contains(q[y], u)

\* t has been moved to its place in the queue it waits in, if that has an order.
Reordered(f, g) ==
    /\ g \in MsgType
    /\ g.tq = f.tq /\ g.mq = f.mq /\ SameRest(f, g)
    /\ Separate(g.q) /\ Alike(f.q, g.q) /\ Ordered(g.q, Urgency(g))
    /\ \A y \in Xchgs : Mode[y] = "BCST" => g.q[y] = f.q[y]

LEMMA ReQTaskReorders ==
  ASSUME NEW f \in MsgType, Separate(f.q), NEW t \in Tasks,
         NEW p, Ordered(f.q, p), \A u \in Things \ {t} : Urgency(f)[u] = p[u]
  PROVE  Reordered(f, ReQTask(f, t))
  <1> DEFINE r == [x \in Xchgs |->
                     IF x \in At(f, t) /\ Mode[x] # "BCST" THEN ByPriority(f, Without(f.q[x], t), t)
                     ELSE f.q[x]]
             g == [f EXCEPT !.q = r]
  <1>1. ReQTask(f, t) = g
    BY DEF ReQTask, MsgType
  <1>2. f.q \in [Xchgs -> Seq(Things)] /\ t \in Things
    BY DEF MsgType, Things
  <1>3. \A x : x \in At(f, t) <=> x \in Xchgs /\ Contains(f.q[x], t)
    BY AtIs
  <1>4. Separate(r) /\ Alike(f.q, r) /\ Ordered(r, Urgency(f))
    <2>1. CASE Apart(f.q, t)
      <3>1. r = f.q
        BY <1>2, <1>3, <2>1 DEF Apart
      <3>2. Ordered(f.q, Urgency(f))
        BY <2>1, ApartOrdered
      <3> QED BY <3>1, <3>2 DEF Alike
    <2>2. CASE ~Apart(f.q, t)
      <3>1. PICK x \in Xchgs : Mode[x] # "BCST" /\ Contains(f.q[x], t)
        BY <2>2 DEF Apart
      <3> DEFINE q1 == [f.q EXCEPT ![x] = Without(f.q[x], t)]
                 q2 == [q1 EXCEPT ![x] = ByPriority(f, q1[x], t)]
      <3>2. \A y \in Xchgs : Contains(f.q[y], t) => y = x
        BY <1>2, <3>1 DEF Separate
      <3>3. r = q2
        BY <1>2, <1>3, <3>1, <3>2
      <3>4. Separate(q1) /\ Drops(f.q, q1, t)
        BY <1>2, <3>1, Taken
      <3>5. Ordered(q1, Urgency(f))
        BY <1>2, <3>1, TakenOrdered
      <3>6. Out(q1, t)
        BY <3>4 DEF Out, Drops
      <3> HIDE DEF q1, r
      <3>7. Separate(q2) /\ Gains(q1, q2, x, t) /\ Ordered(q2, Urgency(f))
        BY <1>2, <3>4, <3>5, <3>6, PutByPriority
      <3>8. Alike(f.q, q2)
        BY <3>1, <3>2, <3>4, <3>7 DEF Alike, Drops, Gains
      <3> QED BY <3>3, <3>7, <3>8
    <2> QED BY <2>1, <2>2
  <1>5. \A y \in Xchgs : Mode[y] = "BCST" => r[y] = f.q[y]
    OBVIOUS
  <1>6. r \in [Xchgs -> Seq(Things)]
    BY <1>4 DEF Separate
  <1> HIDE DEF r
  <1>7. g \in MsgType /\ g.q = r /\ g.tq = f.tq /\ g.mq = f.mq /\ SameRest(f, g)
    BY <1>6 DEF MsgType, Things, SameRest, SameTasks
  <1>8. Urgency(g) = Urgency(f)
    BY <1>7, SameUrgency DEF SameRest, SameTasks
  <1> QED BY <1>1, <1>4, <1>5, <1>7, <1>8 DEF Reordered

\* m is put into the queue of x, whose flag is not set here.
LEMMA PNQMsgPuts ==
  ASSUME NEW f \in MsgType, Separate(f.q), Ordered(f.q, Urgency(f)), NEW x \in Xchgs,
         NEW m \in Msgs, Out(f.q, m), NEW g, g = PNQMsg(f, x, m)
  PROVE  /\ g \in MsgType /\ g.tq = f.tq /\ g.mq = f.mq /\ SameRest(f, g)
         /\ Separate(g.q) /\ Gains(f.q, g.q, x, m) /\ Ordered(g.q, Urgency(g))
         /\ \A y \in Xchgs : y # x => g.q[y] = f.q[y]
  <1> DEFINE w == ByPriority(f, f.q[x], m)
             r == [f.q EXCEPT ![x] = w]
  <1>1. f.q \in [Xchgs -> Seq(Things)] /\ m \in Things
    BY DEF MsgType, Things
  <1>2. g = [f EXCEPT !.q = r]
    BY DEF PNQMsg, MsgType
  <1>3. Separate(r) /\ Gains(f.q, r, x, m) /\ Ordered(r, Urgency(f))
    BY <1>1, PutByPriority
  <1>4. r \in [Xchgs -> Seq(Things)]
    BY <1>3 DEF Separate
  <1>5. \A y \in Xchgs : y # x => r[y] = f.q[y]
    BY <1>1
  <1> HIDE DEF r
  <1>6. g \in MsgType /\ g.q = r /\ g.tq = f.tq /\ g.mq = f.mq /\ SameRest(f, g)
    BY <1>2, <1>4 DEF MsgType, Things, SameRest, SameTasks
  <1>7. Urgency(g) = Urgency(f)
    BY <1>6, SameUrgency DEF SameRest, SameTasks
  <1> QED BY <1>3, <1>5, <1>6, <1>7

-----------------------------------------------------------------------------
(* Servers. *)

\* ServersKeepUp, of all messages of an exchange and not of the first one only.
KeepsUp(f) ==
    \A x \in Server, m \in Msgs : f.xonr[x] # None /\ Contains(f.q[x], m) =>
        /\ f.pri[f.xonr[x]] >= f.mpri[m]
        /\ f.norm[f.xonr[x]] >= f.mpri[m]

NormRaised(f, g) == \A t \in Tasks : g.norm[t] >= f.norm[t]

\* A task's priority falls to prinorm at most.
Supported(f, g) == \A t \in Tasks : g.pri[t] >= f.pri[t] \/ g.pri[t] >= f.norm[t]

LEMMA TaskFields ==
  ASSUME NEW f \in MsgType, NEW t \in Tasks
  PROVE  /\ f.pri \in [Tasks -> Pris] /\ f.pri[t] \in Nat
         /\ f.norm \in [Tasks -> Pris] /\ f.norm[t] \in Nat
         /\ \A p \in Pris : p \in Nat
  BY MsgAssumption DEF MsgType, Pris

LEMMA MsgFields ==
  ASSUME NEW f \in MsgType, NEW m \in Msgs
  PROVE  f.mpri \in [Msgs -> Pris] /\ f.mpri[m] \in Nat /\ f.mpri[m] \in Pris
  BY MsgAssumption DEF MsgType, Pris

LEMMA ServerFields ==
  ASSUME NEW f \in MsgType, NEW x \in Server
  PROVE  /\ x \in Xchgs /\ Mode[x] = "PASS" /\ Mode[x] # "BCST"
         /\ f.xonr[x] \in Tasks \union {None} /\ (f.xonr[x] # None => f.xonr[x] \in Tasks)
  BY MsgAssumption DEF MsgType

\* m waited at x before, for the same server, or the server is urgent enough.
Upheld(f, g, x, m) ==
    \/ Contains(f.q[x], m) /\ g.mpri[m] = f.mpri[m] /\ g.xonr[x] = f.xonr[x]
    \/ g.pri[g.xonr[x]] >= g.mpri[m] /\ g.norm[g.xonr[x]] >= g.mpri[m]

LEMMA UpKept ==
  ASSUME NEW f \in MsgType, NEW g \in MsgType, KeepsUp(f), NormRaised(f, g), Supported(f, g),
         \A x \in Server, m \in Msgs : g.xonr[x] # None /\ Contains(g.q[x], m) => Upheld(f, g, x, m)
  PROVE  KeepsUp(g)
  <1> SUFFICES ASSUME NEW x \in Server, NEW m \in Msgs, g.xonr[x] # None, Contains(g.q[x], m)
               PROVE  g.pri[g.xonr[x]] >= g.mpri[m] /\ g.norm[g.xonr[x]] >= g.mpri[m]
    BY DEF KeepsUp
  <1>1. Upheld(f, g, x, m)
    OBVIOUS
  <1>2. CASE Contains(f.q[x], m) /\ g.mpri[m] = f.mpri[m] /\ g.xonr[x] = f.xonr[x]
    <2> DEFINE t == g.xonr[x]
    <2>1. t \in Tasks
      BY ServerFields
    <2>2. /\ f.pri[t] \in Nat /\ f.norm[t] \in Nat /\ g.pri[t] \in Nat /\ g.norm[t] \in Nat
          /\ f.mpri[m] \in Nat
      BY <2>1, TaskFields, MsgFields
    <2>3. f.pri[t] >= f.mpri[m] /\ f.norm[t] >= f.mpri[m]
      BY <1>2 DEF KeepsUp
    <2>4. g.norm[t] >= f.norm[t] /\ (g.pri[t] >= f.pri[t] \/ g.pri[t] >= f.norm[t])
      BY <2>1 DEF NormRaised, Supported
    <2> HIDE DEF t
    <2>5. g.pri[t] >= g.mpri[m] /\ g.norm[t] >= g.mpri[m]
      BY <1>2, <2>2, <2>3, <2>4
    <2> QED BY <2>5 DEF t
  <1> QED BY <1>1, <1>2 DEF Upheld

\* The server of x is as urgent as m afterwards.
Promotes(f, g, x, m) ==
    /\ g \in MsgType
    /\ g.tq = f.tq /\ g.mq = f.mq /\ g.xonr = f.xonr /\ g.onr = f.onr /\ g.mpri = f.mpri
    /\ g.molp = f.molp
    /\ Separate(g.q) /\ Alike(f.q, g.q) /\ Ordered(g.q, Urgency(g))
    /\ \A y \in Xchgs : Mode[y] = "BCST" => g.q[y] = f.q[y]
    /\ \A u \in Tasks : g.pri[u] >= f.pri[u]
    /\ f.xonr[x] # None => /\ g.pri[f.xonr[x]] >= f.mpri[m]
                           /\ g.norm[f.xonr[x]] >= f.mpri[m]

\* The data after the priorities of tasks have changed.
WithPris(f, a, b) == [f EXCEPT !.pri = a, !.norm = b]

PrisAre(f, g, a, b) ==
    /\ g \in MsgType /\ g.pri = a /\ g.norm = b
    /\ g.q = f.q /\ g.tq = f.tq /\ g.mq = f.mq /\ g.xonr = f.xonr /\ g.onr = f.onr
    /\ g.mpri = f.mpri /\ g.molp = f.molp

LEMMA PriFields ==
  ASSUME NEW f \in MsgType, NEW a \in [Tasks -> Pris], NEW b \in [Tasks -> Pris]
  PROVE  PrisAre(f, WithPris(f, a, b), a, b)
  BY DEF MsgType, PrisAre, WithPris

LEMMA PromoteRaises ==
  ASSUME NEW f \in MsgType, Separate(f.q), Ordered(f.q, Urgency(f)), NEW x \in Server,
         NEW m \in Msgs
  PROVE  Promotes(f, Promote(f, x, m), x, m)
  <1> DEFINE t == f.xonr[x]
             p == f.mpri[m]
             g == Promote(f, x, m)
  <1>1. p \in Nat /\ p \in Pris
    BY MsgFields
  <1>2. CASE t = None
    <2>1. g = f
      BY <1>2 DEF Promote
    <2> QED BY <1>2, <2>1, TaskFields DEF Promotes, Alike
  <1>3. CASE t # None
    <2>1. t \in Tasks
      BY <1>3, ServerFields
    <2>2. /\ f.pri \in [Tasks -> Pris] /\ f.norm \in [Tasks -> Pris]
          /\ \A u \in Tasks : f.pri[u] \in Nat /\ f.norm[u] \in Nat
      BY <2>1, TaskFields
    <2> DEFINE f1 == [f EXCEPT !.pri = [@ EXCEPT ![t] = p], !.norm = [@ EXCEPT ![t] = p]]
               f2 == [f EXCEPT !.pri = f.pri, !.norm = [@ EXCEPT ![t] = p]]
    <2>3. CASE p > f.pri[t]
      <3>1. g = ReQTask(f1, t)
        <4>1. [f EXCEPT !.pri[t] = p, !.norm[t] = p] = f1
          BY DEF MsgType
        <4> QED BY <1>3, <2>3, <4>1 DEF Promote
      <3> DEFINE a == [f.pri EXCEPT ![t] = p]
                 b == [f.norm EXCEPT ![t] = p]
      <3>2. a \in [Tasks -> Pris] /\ b \in [Tasks -> Pris]
        BY <1>1, <2>1, <2>2
      <3>3. f1 = WithPris(f, a, b)
        BY DEF WithPris
      <3>4. \A u \in Tasks : a[u] >= f.pri[u]
        BY <1>1, <2>2, <2>3
      <3>5. a[t] = p /\ b[t] = p
        BY <2>1, <2>2
      <3> HIDE DEF f1, a, b
      <3>6. PrisAre(f, f1, a, b)
        BY <3>2, <3>3, PriFields
      <3>7. \A u \in Things \ {t} : Urgency(f1)[u] = Urgency(f)[u]
        <4>1. \A u \in Tasks : u # t => a[u] = f.pri[u]
          BY <2>2 DEF a
        <4> QED BY <3>6, <4>1 DEF Urgency, Pri, PrisAre
      <3>8. Reordered(f1, ReQTask(f1, t))
        BY <2>1, <3>6, <3>7, ReQTaskReorders DEF PrisAre
      <3> HIDE DEF g, t, p
      <3>9. p >= p
        BY <1>1
      <3>10. Promotes(f, ReQTask(f1, t), x, m)
        BY <3>4, <3>5, <3>6, <3>8, <3>9 DEF Promotes, Reordered, PrisAre, SameRest, SameTasks, t, p
      <3> QED BY <3>1, <3>10 DEF g
    <2>4. CASE ~(p > f.pri[t]) /\ p > f.norm[t]
      <3>1. g = f2
        <4>1. [f EXCEPT !.norm[t] = p] = f2
          BY DEF MsgType
        <4> QED BY <1>3, <2>4, <4>1 DEF Promote
      <3> DEFINE a == f.pri
                 b == [f.norm EXCEPT ![t] = p]
      <3>2. a \in [Tasks -> Pris] /\ b \in [Tasks -> Pris]
        BY <1>1, <2>1, <2>2
      <3>3. f2 = WithPris(f, a, b)
        BY DEF WithPris
      <3>4. b[t] = p /\ p >= p /\ f.pri[t] >= p /\ \A u \in Tasks : f.pri[u] >= f.pri[u]
        BY <1>1, <2>1, <2>2, <2>4
      <3> HIDE DEF f2, a, b
      <3>6. PrisAre(f, f2, a, b)
        BY <3>2, <3>3, PriFields
      <3>7. Urgency(f2) = Urgency(f)
        BY <3>6, SameUrgency DEF PrisAre, a
      <3> HIDE DEF g, t, p
      <3>8. Promotes(f, f2, x, m)
        BY <3>4, <3>6, <3>7 DEF Promotes, Alike, PrisAre, a, t, p
      <3> QED BY <3>1, <3>8 DEF g
    <2>5. CASE ~(p > f.pri[t]) /\ ~(p > f.norm[t])
      <3>1. g = f
        BY <1>3, <2>5 DEF Promote
      <3>2. f.pri[t] >= p /\ f.norm[t] >= p /\ \A u \in Tasks : f.pri[u] >= f.pri[u]
        BY <1>1, <2>1, <2>2, <2>5
      <3> QED BY <3>1, <3>2 DEF Promotes, Alike
    <2> QED BY <2>3, <2>4, <2>5
  <1> QED BY <1>2, <1>3

-----------------------------------------------------------------------------
(* The steps. *)

\* What every step keeps.
Sound(f) == /\ f \in MsgType
            /\ \A x \in Xchgs \ Server : f.xonr[x] = None
            /\ Ordered(f.q, Urgency(f))

\* Servers that kept up still do, if no prinorm falls.
StaysUp(f, g) == KeepsUp(f) /\ NormRaised(f, g) => KeepsUp(g)

\* A message that is an exchange's waits there, or where it has waited before.
Settled(f, g, m) ==
    g.onr[m] \in Xchgs =>
       \/ Contains(g.q[g.onr[m]], m)
       \/ g.onr[m] = f.onr[m] /\ \A x \in Xchgs : Contains(f.q[x], m) => Contains(g.q[x], m)

Homes(f, g) == \A m \in Msgs : Settled(f, g, m)

\* What a step keeps if it is none of the exceptions.
Stays(f, g) == Sound(g) /\ Whole(g) /\ StaysUp(f, g) /\ Homes(f, g)

\* A message that is an exchange's waits there.
Home(g, m) == g.onr[m] \in Xchgs => Contains(g.q[g.onr[m]], m)

LEMMA SettledTwice ==
  ASSUME NEW f, NEW g, NEW h, NEW m, Settled(f, g, m), Settled(g, h, m)
  PROVE  Settled(f, h, m)
  BY DEF Settled

LEMMA HomesKeep ==
  ASSUME NEW f, NEW g, Homes(f, g), Placed(f)
  PROVE  Placed(g)
  BY DEF Homes, Settled, Placed

\* What waits has waited there before, and is whose it was.
LEMMA OwnersKept ==
  ASSUME NEW f, NEW g, Owners(f),
         \A x \in Xchgs : \A u : Contains(g.q[x], u) => Contains(f.q[x], u),
         \A x \in Xchgs, m \in Msgs : Contains(g.q[x], m) => g.onr[m] = f.onr[m]
  PROVE  Owners(g)
  <1> SUFFICES ASSUME NEW m \in Msgs, NEW x \in Xchgs, Contains(g.q[x], m)
               PROVE  /\ Mode[x] = "BCST" => (\A u : Contains(g.q[x], u) => u = m) /\ g.onr[m] # None
                      /\ Mode[x] # "BCST" => g.onr[m] = x
    BY DEF Owners
  <1>1. Contains(f.q[x], m) /\ g.onr[m] = f.onr[m]
    OBVIOUS
  <1>2. /\ Mode[x] = "BCST" => (\A u : Contains(f.q[x], u) => u = m) /\ f.onr[m] # None
        /\ Mode[x] # "BCST" => f.onr[m] = x
    BY <1>1 DEF Owners
  <1> QED BY <1>1, <1>2

\* Neither the owners nor the places of messages change.
LEMMA SameHomes ==
  ASSUME NEW f, NEW g, g.onr = f.onr,
         \A x \in Xchgs, m \in Msgs : Contains(f.q[x], m) => Contains(g.q[x], m)
  PROVE  Homes(f, g)
  BY DEF Homes, Settled

\* Nothing has changed for the servers but for messages that do not wait.
LEMMA SameServers ==
  ASSUME NEW f \in MsgType, NEW g \in MsgType, SameTasks(f, g),
         \A x \in Server, m \in Msgs : Contains(g.q[x], m) => Contains(f.q[x], m) /\ g.mpri[m] = f.mpri[m]
  PROVE  StaysUp(f, g) /\ NormRaised(f, g)
  <1>1. NormRaised(f, g) /\ Supported(f, g)
    <2>1. \A t \in Tasks : f.pri[t] \in Nat /\ f.norm[t] \in Nat
      BY TaskFields
    <2> QED BY <2>1 DEF NormRaised, Supported, SameTasks
  <1>2. \A x \in Server, m \in Msgs : g.xonr[x] # None /\ Contains(g.q[x], m) => Upheld(f, g, x, m)
    BY DEF Upheld, SameTasks
  <1> QED BY <1>1, <1>2, UpKept DEF StaysUp

\* The priorities of what is in the queues that have an order are the same.
LEMMA AgreeOrdered ==
  ASSUME NEW q, Separate(q), NEW p1, NEW p2, Ordered(q, p1),
         \A x \in Xchgs, u \in Things : Mode[x] # "BCST" /\ Contains(q[x], u) => p2[u] = p1[u]
  PROVE  Ordered(q, p2)
  <1> SUFFICES ASSUME NEW y \in Xchgs, Mode[y] # "BCST" PROVE Descending(q[y], p2)
    BY DEF Ordered
  <1>1. q[y] \in Seq(Things) /\ Descending(q[y], p1)
    BY DEF Separate, Ordered
  <1> QED BY <1>1, DescendingAgrees

LEMMA Disjoint ==
  /\ \A m \in Msgs : m \notin Tasks /\ m \in Things
  /\ \A t \in Tasks : t \notin Msgs /\ t \in Things /\ t \notin Xchgs /\ t # None
  /\ \A x \in Xchgs : x # Lsr /\ x # None
  /\ \A c \in Callers : c \notin Xchgs /\ c \in Tasks \union {Lsr} /\ c # None
  BY MsgAssumption, TaskAssumption DEF Callers, Things

LEMMA MsgGetStays ==
  ASSUME Sound(e), Whole(e), NEW c \in Callers, NEW m \in Msgs, MsgGet(c, m)
  PROVE  Stays(e, e')
  <1>1. e \in MsgType /\ e.onr[m] = None /\ e' = [e EXCEPT !.onr[m] = c]
    BY DEF Sound, MsgGet
  <1>2. c \in Tasks \union Xchgs \union {Lsr, None}
    BY DEF Callers
  <1> DEFINE o == [e.onr EXCEPT ![m] = c]
  <1>3. e' = [e EXCEPT !.onr = o] /\ e.onr \in [Msgs -> Tasks \union Xchgs \union {Lsr, None}]
    BY <1>1 DEF MsgType
  <1>4. /\ o \in [Msgs -> Tasks \union Xchgs \union {Lsr, None}] /\ o[m] = c
        /\ \A u \in Msgs : u # m => o[u] = e.onr[u]
    BY <1>2, <1>3
  <1> HIDE DEF o
  <1>5. /\ e' \in MsgType /\ e'.onr = o /\ SameTasks(e, e') /\ e'.q = e.q /\ e'.tq = e.tq
        /\ e'.mq = e.mq /\ e'.mpri = e.mpri
    BY <1>1, <1>3, <1>4 DEF MsgType, SameTasks
  <1>6. Urgency(e') = Urgency(e)
    BY <1>5, SameUrgency DEF SameTasks
  <1>7. Sound(e')
    BY <1>5, <1>6 DEF Sound, SameTasks
  <1>8. Whole(e')
    <2>1. \A x \in Xchgs : ~Contains(e.q[x], m)
      BY <1>1, Disjoint DEF Whole, Owners
    <2>2. Owners(e')
      BY <1>4, <1>5, <2>1, OwnersKept DEF Whole
    <2> QED BY <1>5, <2>2 DEF Whole, Marked
  <1>9. Homes(e, e')
    BY <1>4, <1>5, Disjoint DEF Homes, Settled
  <1> QED BY <1>1, <1>5, <1>7, <1>8, <1>9, SameServers DEF Stays

\* The data after owners and priorities of messages have changed.
MsgsAre(f, g, o, p) ==
    /\ g \in MsgType /\ g.onr = o /\ g.mpri = p
    /\ g.q = f.q /\ g.tq = f.tq /\ g.mq = f.mq /\ SameTasks(f, g)

MsgOwners == Tasks \union Xchgs \union {Lsr, None}

WithMsgs(f, o, p) == [f EXCEPT !.onr = o, !.mpri = p]

LEMMA WithMsgsAre ==
  ASSUME NEW f \in MsgType, NEW o \in [Msgs -> MsgOwners], NEW p \in [Msgs -> Pris]
  PROVE  MsgsAre(f, WithMsgs(f, o, p), o, p)
  BY DEF MsgType, MsgOwners, WithMsgs, MsgsAre, SameTasks

LEMMA ZeroIsAPriority == 0 \in Pris
  BY MsgAssumption DEF Pris

\* The MCB of m is free.
Frees(f, g, m) == \E o, p : /\ MsgsAre(f, g, o, p)
                            /\ o[m] = None
                            /\ \A u \in Msgs : u # m => o[u] = f.onr[u] /\ p[u] = f.mpri[u]

LEMMA MsgRelFrees ==
  ASSUME NEW f \in MsgType, NEW m \in Msgs
  PROVE  Frees(f, MsgRel_F(f, m), m)
  <1> DEFINE o == [f.onr EXCEPT ![m] = None]
             p == [f.mpri EXCEPT ![m] = 0]
  <1>1. f.onr \in [Msgs -> MsgOwners] /\ f.mpri \in [Msgs -> Pris]
    BY DEF MsgType, MsgOwners
  <1>2. MsgRel_F(f, m) = WithMsgs(f, o, p)
    BY DEF MsgRel_F, WithMsgs
  <1>3. o \in [Msgs -> MsgOwners] /\ p \in [Msgs -> Pris]
    BY <1>1, ZeroIsAPriority DEF MsgOwners
  <1>4. o[m] = None /\ \A u \in Msgs : u # m => o[u] = f.onr[u] /\ p[u] = f.mpri[u]
    BY <1>1
  <1> HIDE DEF o, p
  <1>5. MsgsAre(f, WithMsgs(f, o, p), o, p)
    BY <1>3, WithMsgsAre
  <1> QED BY <1>2, <1>4, <1>5 DEF Frees

\* Nothing changes but messages that wait nowhere.
LEMMA OutStays ==
  ASSUME NEW f, Sound(f), Whole(f), NEW g, NEW o, NEW p, MsgsAre(f, g, o, p), NEW m \in Msgs,
         Out(f.q, m), o[m] \notin Xchgs \/ o[m] = f.onr[m],
         \A u \in Msgs : u # m => o[u] = f.onr[u] /\ p[u] = f.mpri[u]
  PROVE  Stays(f, g)
  <1>1. f \in MsgType /\ g \in MsgType
    BY DEF Sound, MsgsAre
  <1>2. \A u \in Things \ {m} : Urgency(g)[u] = Urgency(f)[u]
    BY DEF Urgency, Pri, Things, MsgsAre, SameTasks
  <1>3. Ordered(g.q, Urgency(g))
    BY <1>2, ApartOrdered DEF Sound, Whole, MsgsAre, Out, Apart
  <1>4. Owners(g)
    BY DEF Owners, Whole, MsgsAre, Out
  <1>5. Whole(g)
    BY <1>4 DEF Whole, MsgsAre, Marked
  <1>6. StaysUp(f, g)
    <2>1. \A x \in Server, u \in Msgs : Contains(g.q[x], u) => Contains(f.q[x], u) /\ g.mpri[u] = f.mpri[u]
      BY <1>1, ServerFields DEF MsgsAre, Out
    <2> QED BY <1>1, <2>1, SameServers DEF MsgsAre
  <1>7. Homes(f, g)
    BY DEF MsgsAre, Out, Homes, Settled
  <1> QED BY <1>1, <1>3, <1>5, <1>6, <1>7 DEF Stays, Sound, MsgsAre, SameTasks

\* Stays, but for the home of m.
StaysBut(f, g, m) == /\ Sound(g) /\ Whole(g) /\ StaysUp(f, g)
                     /\ \A u \in Msgs : u # m => Settled(f, g, u)

\* The message is taken out of its queue, if it is in one.
Unqueued(f, m) == IF At(f, m) # {} THEN DQMsg(f, m) ELSE f

LEMMA UnqueuedStays ==
  ASSUME NEW f, Sound(f), Whole(f), NEW m \in Msgs
  PROVE  /\ StaysBut(f, Unqueued(f, m), m) /\ SameRest(f, Unqueued(f, m))
         /\ Out(Unqueued(f, m).q, m)
  <1>0. f \in MsgType
    BY DEF Sound
  <1>1. CASE At(f, m) = {}
    <2>1. Unqueued(f, m) = f
      BY <1>1 DEF Unqueued
    <2>2. SameRest(f, f) /\ StaysUp(f, f)
      BY DEF SameRest, SameTasks, StaysUp
    <2>3. \A u \in Msgs : Settled(f, f, u)
      BY DEF Settled
    <2> QED BY <1>0, <1>1, <2>1, <2>2, <2>3, OutIs DEF StaysBut
  <1>2. CASE At(f, m) # {}
    <2> DEFINE g == DQMsg(f, m)
    <2>1. Unqueued(f, m) = g
      BY <1>2 DEF Unqueued
    <2>2. Dequeued(f, g, m)
      BY <1>0, <1>2, DQMsgDequeues DEF Whole
    <2> HIDE DEF g
    <2>3. /\ g \in MsgType /\ Marked(g) /\ Separate(g.q) /\ Drops(f.q, g.q, m) /\ SameRest(f, g)
      BY <2>2 DEF Dequeued
    <2>4. Ordered(g.q, Urgency(g))
      <3>1. Urgency(g) = Urgency(f)
        BY <2>3, SameUrgency DEF SameRest, SameTasks
      <3>2. \A u \in Things \ {m} : Urgency(g)[u] = Urgency(f)[u]
        BY <3>1
      <3> QED BY <2>2, <3>2 DEF Dequeued, Sound
    <2>5. Out(g.q, m)
      BY <2>3 DEF Drops, Out
    <2>6. \A u \in Msgs : u # m => Settled(f, g, u)
      BY <2>3 DEF Settled, Drops, SameRest
    <2>7. Owners(g)
      BY <2>3 DEF Whole, Owners, Drops, SameRest
    <2>8. StaysUp(f, g)
      <3>1. \A x \in Server, u \in Msgs :
               Contains(g.q[x], u) => Contains(f.q[x], u) /\ g.mpri[u] = f.mpri[u]
        BY <1>0, <2>3, ServerFields DEF Drops, SameRest
      <3> QED BY <1>0, <2>3, <3>1, SameServers DEF SameRest
    <2>9. Sound(g)
      BY <2>3, <2>4 DEF Sound, SameRest, SameTasks
    <2> QED BY <2>1, <2>3, <2>5, <2>6, <2>7, <2>8, <2>9 DEF StaysBut, Whole
  <1> QED BY <1>1, <1>2

\* If the second step lowers no prinorm of its own.
LEMMA StaysUpTwice ==
  ASSUME NEW f, NEW g, NEW h, StaysUp(f, g), StaysUp(g, h), g \in MsgType, g.norm = f.norm
  PROVE  StaysUp(f, h)
  <1>1. NormRaised(f, g)
    BY TaskFields DEF NormRaised
  <1> QED BY <1>1 DEF StaysUp, NormRaised

\* The MCB of a message that has been taken out of its queue is free.
LEMMA UnqueuedFreed ==
  ASSUME NEW f, Sound(f), Whole(f), NEW m \in Msgs, NEW g, Frees(Unqueued(f, m), g, m)
  PROVE  Stays(f, g)
  <1> DEFINE f1 == Unqueued(f, m)
  <1>1. StaysBut(f, f1, m) /\ SameRest(f, f1) /\ Out(f1.q, m)
    BY UnqueuedStays
  <1> HIDE DEF f1
  <1>2. Frees(f1, g, m)
    BY DEF f1
  <1>3. Stays(f1, g)
    BY <1>1, <1>2, OutStays, Disjoint DEF Frees, StaysBut
  <1>4. Settled(f, g, m)
    BY <1>2, Disjoint DEF Frees, MsgsAre, Settled
  <1>5. Homes(f, g)
    BY <1>1, <1>3, <1>4, SettledTwice DEF StaysBut, Stays, Homes
  <1> QED BY <1>1, <1>3, <1>5, StaysUpTwice DEF Stays, StaysBut, Sound, SameRest, SameTasks

LEMMA MsgRelStays ==
  ASSUME Sound(e), Whole(e), NEW c \in Callers, NEW m \in Msgs, MsgRel(c, m)
  PROVE  Stays(e, e')
  <1>1. Unqueued(e, m) \in MsgType
    BY UnqueuedStays DEF StaysBut, Sound
  <1>2. e' = MsgRel_F(Unqueued(e, m), m)
    BY DEF MsgRel, Unqueued
  <1>3. Frees(Unqueued(e, m), e', m)
    BY <1>1, <1>2, MsgRelFrees
  <1> QED BY <1>3, UnqueuedFreed

\* smx_MsgRelAll() dequeues nothing, and a broadcast is still its sender's.
LEMMA MsgRelAllSteps ==
  ASSUME Sound(e), Whole(e), NEW t \in Tasks, MsgRelAll(t)
  PROVE  /\ Sound(e') /\ StaysUp(e, e') /\ Homes(e, e')
         /\ (\A x \in Xchgs, m \in Msgs :
                Mode[x] = "BCST" /\ Contains(e.q[x], m) => e.onr[m] # t) => Whole(e')
  <1> DEFINE o == [m \in Msgs |-> IF e.onr[m] = t THEN None ELSE e.onr[m]]
             p == [m \in Msgs |-> IF e.onr[m] = t THEN 0 ELSE e.mpri[m]]
  <1>1. e \in MsgType /\ e.onr \in [Msgs -> MsgOwners] /\ e.mpri \in [Msgs -> Pris]
    BY DEF Sound, MsgType, MsgOwners
  <1>2. e' = WithMsgs(e, o, p)
    BY <1>1 DEF MsgRelAll, WithMsgs
  <1>3. o \in [Msgs -> MsgOwners] /\ p \in [Msgs -> Pris]
    BY <1>1, ZeroIsAPriority DEF MsgOwners
  <1>4. /\ \A m \in Msgs : e.onr[m] = t => o[m] = None
        /\ \A m \in Msgs : e.onr[m] # t => o[m] = e.onr[m] /\ p[m] = e.mpri[m]
    OBVIOUS
  <1> HIDE DEF o, p
  <1>5. MsgsAre(e, e', o, p)
    BY <1>1, <1>2, <1>3, WithMsgsAre
  <1>6. \A x \in Xchgs, m \in Msgs : Mode[x] # "BCST" /\ Contains(e.q[x], m) => e.onr[m] # t
    BY Disjoint DEF Whole, Owners
  <1>7. Ordered(e.q, Urgency(e'))
    <2>1. \A x \in Xchgs, u \in Things :
             Mode[x] # "BCST" /\ Contains(e.q[x], u) => Urgency(e')[u] = Urgency(e)[u]
      BY <1>4, <1>5, <1>6 DEF Urgency, Pri, Things, MsgsAre, SameTasks
    <2> QED BY <2>1, AgreeOrdered DEF Sound, Whole
  <1>8. StaysUp(e, e')
    <2>1. \A x \in Server, u \in Msgs : Contains(e'.q[x], u) => Contains(e.q[x], u) /\ e'.mpri[u] = e.mpri[u]
      BY <1>1, <1>4, <1>5, <1>6, ServerFields DEF MsgsAre
    <2> QED BY <1>1, <1>5, <2>1, SameServers DEF MsgsAre
  <1>9. ASSUME \A x \in Xchgs, m \in Msgs : Mode[x] = "BCST" /\ Contains(e.q[x], m) => e.onr[m] # t
        PROVE  Whole(e')
    <2>1. Owners(e')
      <3> SUFFICES ASSUME NEW m \in Msgs, NEW x \in Xchgs
                   PROVE  Contains(e.q[x], m) =>
                             /\ Mode[x] = "BCST" => (\A u : Contains(e.q[x], u) => u = m) /\ o[m] # None
                             /\ Mode[x] # "BCST" => o[m] = x
        BY <1>5 DEF Owners, MsgsAre
      <3>1. Contains(e.q[x], m) =>
               /\ Mode[x] = "BCST" => (\A u : Contains(e.q[x], u) => u = m) /\ e.onr[m] # None
               /\ Mode[x] # "BCST" => e.onr[m] = x
        BY DEF Whole, Owners
      <3> QED BY <1>4, <1>6, <1>9, <3>1, Disjoint
    <2> QED BY <1>5, <2>1 DEF Whole, MsgsAre, Marked
  <1>10. Homes(e, e')
    BY <1>4, <1>5, Disjoint DEF MsgsAre, Homes, Settled
  <1> QED BY <1>5, <1>7, <1>8, <1>9, <1>10 DEF Sound, MsgsAre, SameTasks

LEMMA MsgXchgClearStays ==
  ASSUME Sound(e), Whole(e), NEW x \in Xchgs, MsgXchgClear(x)
  PROVE  Stays(e, e')
  <1> DEFINE ms == Range(e.q[x]) \intersect Msgs
             o == [m \in Msgs |-> IF m \in ms THEN None ELSE e.onr[m]]
             p == [m \in Msgs |-> IF m \in ms THEN 0 ELSE e.mpri[m]]
             r == [e.q EXCEPT ![x] = <<>>]
             k == [e.tq EXCEPT ![x] = FALSE]
             l == [e.mq EXCEPT ![x] = FALSE]
             f == [e EXCEPT !.q = r, !.tq = k, !.mq = l]
  <1>1. e \in MsgType /\ e.onr \in [Msgs -> MsgOwners] /\ e.mpri \in [Msgs -> Pris]
    BY DEF Sound, MsgType, MsgOwners
  <1>2. e' = WithMsgs(f, o, p)
    BY <1>1 DEF MsgXchgClear, WithMsgs, MsgType
  <1>3. o \in [Msgs -> MsgOwners] /\ p \in [Msgs -> Pris]
    BY <1>1, ZeroIsAPriority DEF MsgOwners
  <1>4. \A m \in Msgs : m \in ms <=> Contains(e.q[x], m)
    BY <1>1, RangeIs
  <1>5. /\ \A m \in Msgs : Contains(e.q[x], m) => o[m] = None
        /\ \A m \in Msgs : ~Contains(e.q[x], m) => o[m] = e.onr[m] /\ p[m] = e.mpri[m]
    BY <1>4
  <1>6. /\ e.q \in [Xchgs -> Seq(Things)] /\ e.tq \in [Xchgs -> BOOLEAN] /\ e.mq \in [Xchgs -> BOOLEAN]
    BY <1>1 DEF MsgType, Things
  <1>7. r \in [Xchgs -> Seq(Things)] /\ k \in [Xchgs -> BOOLEAN] /\ l \in [Xchgs -> BOOLEAN]
    BY <1>6
  <1>8. /\ r[x] = <<>> /\ ~k[x] /\ ~l[x]
        /\ \A y \in Xchgs : y # x => r[y] = e.q[y] /\ k[y] = e.tq[y] /\ l[y] = e.mq[y]
    BY <1>6
  <1> HIDE DEF o, p, r, k, l
  <1>9. /\ f \in MsgType /\ f.q = r /\ f.tq = k /\ f.mq = l /\ SameTasks(e, f)
    BY <1>1, <1>7 DEF MsgType, SameTasks, Things
  <1> HIDE DEF f
  <1>10. MsgsAre(f, e', o, p)
    BY <1>2, <1>3, <1>9, WithMsgsAre
  <1>11. /\ e' \in MsgType /\ e'.q = r /\ e'.tq = k /\ e'.mq = l /\ SameTasks(e, e')
         /\ e'.onr = o /\ e'.mpri = p
    BY <1>9, <1>10 DEF MsgsAre, SameTasks
  <1>12. \A u : ~Contains(<<>>, u)
    BY DEF Contains
  <1>13. \A y \in Xchgs : \A u : Contains(r[y], u) <=> y # x /\ Contains(e.q[y], u)
    BY <1>8, <1>12
  <1>14. Separate(r)
    <2>1. Injective(<<>>)
      BY DEF Injective
    <2>2. \A y \in Xchgs : Injective(r[y])
      BY <1>8, <2>1 DEF Whole, Separate
    <2> QED BY <1>7, <1>13, <2>2 DEF Whole, Separate
  <1>15. \A y \in Xchgs, m \in Msgs : Contains(r[y], m) => ~Contains(e.q[x], m)
    BY <1>13, Disjoint DEF Whole, Separate
  <1>16. Ordered(r, Urgency(e'))
    <2>1. Ordered(r, Urgency(e))
      <3>1. Descending(<<>>, Urgency(e))
        BY DEF Descending
      <3> QED BY <1>8, <3>1 DEF Sound, Ordered
    <2>2. \A y \in Xchgs, u \in Things :
             Mode[y] # "BCST" /\ Contains(r[y], u) => Urgency(e')[u] = Urgency(e)[u]
      BY <1>5, <1>11, <1>15 DEF Urgency, Pri, Things, SameTasks
    <2> QED BY <1>14, <2>1, <2>2, AgreeOrdered
  <1>17. Sound(e')
    BY <1>11, <1>16 DEF Sound, SameTasks
  <1>18. Marked(e')
    BY <1>8, <1>11, <1>13 DEF Whole, Marked
  <1>19. Owners(e')
    <2> SUFFICES ASSUME NEW m \in Msgs, NEW y \in Xchgs
                 PROVE  Contains(r[y], m) =>
                           /\ Mode[y] = "BCST" => (\A u : Contains(r[y], u) => u = m) /\ o[m] # None
                           /\ Mode[y] # "BCST" => o[m] = y
      BY <1>11 DEF Owners
    <2>1. Contains(e.q[y], m) =>
             /\ Mode[y] = "BCST" => (\A u : Contains(e.q[y], u) => u = m) /\ e.onr[m] # None
             /\ Mode[y] # "BCST" => e.onr[m] = y
      BY DEF Whole, Owners
    <2> QED BY <1>5, <1>13, <1>15, <2>1
  <1>20. StaysUp(e, e')
    <2>1. \A y \in Server, u \in Msgs : Contains(e'.q[y], u) => Contains(e.q[y], u) /\ e'.mpri[u] = e.mpri[u]
      BY <1>1, <1>5, <1>11, <1>13, <1>15, ServerFields
    <2> QED BY <1>1, <1>11, <2>1, SameServers
  <1>21. Homes(e, e')
    <2> SUFFICES ASSUME NEW m \in Msgs PROVE Settled(e, e', m)
      BY DEF Homes
    <2>1. CASE Contains(e.q[x], m)
      BY <1>5, <1>11, <2>1, Disjoint DEF Settled
    <2>2. CASE ~Contains(e.q[x], m)
      BY <1>5, <1>11, <1>13, <2>2 DEF Settled
    <2> QED BY <2>1, <2>2
  <1> QED BY <1>11, <1>14, <1>17, <1>18, <1>19, <1>20, <1>21 DEF Stays, Whole

-----------------------------------------------------------------------------
(* Tasks whose priority changes. *)

\* Nothing changes but the queues and priorities of tasks, and what waits is
\* still there, or a task no longer is.
LEMMA TasksOnly ==
  ASSUME NEW f, Sound(f), Whole(f), NEW g \in MsgType, Ordered(g.q, Urgency(g)),
         Marked(g), Separate(g.q), g.xonr = f.xonr, g.onr = f.onr, g.mpri = f.mpri,
         \A x \in Xchgs, m \in Msgs : Contains(g.q[x], m) <=> Contains(f.q[x], m),
         \A x \in Xchgs : \A u : Contains(g.q[x], u) => Contains(f.q[x], u),
         NormRaised(f, g) => Supported(f, g)
  PROVE  Stays(f, g)
  <1>1. f \in MsgType
    BY DEF Sound
  <1>2. Owners(g)
    BY DEF Whole, Owners
  <1>3. StaysUp(f, g)
    <2> SUFFICES ASSUME KeepsUp(f), NormRaised(f, g) PROVE KeepsUp(g)
      BY DEF StaysUp
    <2>1. \A x \in Server, m \in Msgs : g.xonr[x] # None /\ Contains(g.q[x], m) => Upheld(f, g, x, m)
      BY ServerFields DEF Upheld
    <2> QED BY <1>1, <2>1, UpKept
  <1> QED BY <1>2, <1>3, SameHomes DEF Stays, Sound, Whole

LEMMA WithdrawStays ==
  ASSUME Sound(e), Whole(e), NEW t \in Tasks, NEW p \in Pris, Withdraw(t, p)
  PROVE  Stays(e, e')
  <1> DEFINE f == DQTask(e, t)
             a == [f.pri EXCEPT ![t] = p]
  <1>1. e \in MsgType /\ At(e, t) # {} /\ p >= e.pri[t] /\ e' = [f EXCEPT !.pri[t] = p]
    BY DEF Sound, Withdraw, Waits
  <1>2. Dequeued(e, f, t)
    BY <1>1, DQTaskDequeues DEF Whole
  <1> HIDE DEF f
  <1>3. /\ f \in MsgType /\ Marked(f) /\ Separate(f.q) /\ Drops(e.q, f.q, t) /\ SameRest(e, f)
    BY <1>2 DEF Dequeued
  <1>4. f.pri \in [Tasks -> Pris] /\ a \in [Tasks -> Pris]
    BY <1>3, TaskFields
  <1>5. a[t] = p /\ \A u \in Tasks : u # t => a[u] = f.pri[u]
    BY <1>4
  <1>6. e' = [f EXCEPT !.pri = a]
    BY <1>1, <1>3 DEF MsgType
  <1> HIDE DEF a
  <1>7. /\ e' \in MsgType /\ e'.pri = a /\ e'.q = f.q /\ e'.tq = f.tq /\ e'.mq = f.mq
        /\ e'.norm = f.norm /\ e'.xonr = f.xonr /\ e'.onr = f.onr /\ e'.mpri = f.mpri
    BY <1>3, <1>4, <1>6 DEF MsgType
  <1>8. Ordered(e'.q, Urgency(e'))
    <2>1. \A u \in Things \ {t} : Urgency(e')[u] = Urgency(e)[u]
      BY <1>3, <1>5, <1>7 DEF Urgency, Pri, Things, SameRest, SameTasks
    <2> QED BY <1>2, <1>7, <2>1 DEF Dequeued, Sound
  <1>9. NormRaised(e, e') => Supported(e, e')
    <2>1. \A u \in Tasks : e.pri[u] \in Nat
      BY <1>1, TaskFields
    <2>2. \A u \in Tasks : a[u] >= e.pri[u]
      BY <1>1, <1>3, <1>5, <2>1 DEF SameRest, SameTasks
    <2> QED BY <1>7, <2>2 DEF Supported
  <1>10. /\ \A x \in Xchgs, m \in Msgs : Contains(f.q[x], m) <=> Contains(e.q[x], m)
         /\ \A x \in Xchgs : \A u : Contains(f.q[x], u) => Contains(e.q[x], u)
    BY <1>3, Disjoint DEF Drops
  <1>11. Marked(e')
    BY <1>3, <1>7 DEF Marked
  <1>12. e'.xonr = e.xonr /\ e'.onr = e.onr /\ e'.mpri = e.mpri
    BY <1>3, <1>7 DEF SameRest, SameTasks
  <1> QED BY <1>3, <1>7, <1>8, <1>9, <1>10, <1>11, <1>12, TasksOnly

\* The task t is moved to its place for its new priority.
LEMMA RequeuedStays ==
  ASSUME NEW f, Sound(f), Whole(f), NEW t \in Tasks,
         NEW a \in [Tasks -> Pris], NEW b \in [Tasks -> Pris],
         \A u \in Tasks : u # t => a[u] = f.pri[u],
         (\A u \in Tasks : b[u] >= f.norm[u]) =>
            \A u \in Tasks : a[u] >= f.pri[u] \/ a[u] >= f.norm[u]
  PROVE  Stays(f, ReQTask(WithPris(f, a, b), t))
  <1> DEFINE f1 == WithPris(f, a, b)
             g  == ReQTask(f1, t)
  <1>1. f \in MsgType
    BY DEF Sound
  <1>2. PrisAre(f, f1, a, b)
    BY <1>1, PriFields
  <1> HIDE DEF f1
  <1>3. \A u \in Things \ {t} : Urgency(f1)[u] = Urgency(f)[u]
    BY <1>2 DEF Urgency, Pri, PrisAre, Things
  <1>4. f1 \in MsgType /\ f1.q = f.q
    BY <1>2 DEF PrisAre
  <1>5. Separate(f1.q) /\ Ordered(f1.q, Urgency(f))
    BY <1>4 DEF Sound, Whole
  <1>6. Reordered(f1, g)
    BY <1>3, <1>4, <1>5, ReQTaskReorders
  <1> HIDE DEF g
  <1>7. /\ g \in MsgType /\ Separate(g.q) /\ Ordered(g.q, Urgency(g)) /\ Alike(f.q, g.q)
        /\ g.tq = f.tq /\ g.mq = f.mq /\ g.xonr = f.xonr /\ g.onr = f.onr /\ g.mpri = f.mpri
        /\ g.pri = a /\ g.norm = b
    BY <1>2, <1>6 DEF Reordered, PrisAre, SameRest, SameTasks
  <1>8. Marked(g)
    BY <1>7 DEF Whole, Marked, Alike
  <1>9. NormRaised(f, g) => Supported(f, g)
    BY <1>7 DEF NormRaised, Supported
  <1>10. /\ \A x \in Xchgs, m \in Msgs : Contains(g.q[x], m) <=> Contains(f.q[x], m)
         /\ \A x \in Xchgs : \A u : Contains(g.q[x], u) => Contains(f.q[x], u)
    BY <1>7 DEF Alike
  <1>11. Stays(f, g)
    BY <1>7, <1>8, <1>9, <1>10, TasksOnly
  <1> QED BY <1>11 DEF g, f1

LEMMA TaskBumpStays ==
  ASSUME Sound(e), Whole(e), NEW t \in Tasks, NEW p \in Pris, TaskBump(t, p)
  PROVE  Stays(e, e')
  <1> DEFINE w == IF p > e.pri[t] \/ t \notin e.molp THEN p ELSE e.pri[t]
             a == [e.pri EXCEPT ![t] = w]
             b == [e.norm EXCEPT ![t] = p]
  <1>1. /\ e \in MsgType /\ e.pri \in [Tasks -> Pris] /\ e.norm \in [Tasks -> Pris]
        /\ \A u \in Tasks : e.pri[u] \in Nat /\ e.norm[u] \in Nat
        /\ p \in Nat
    BY TaskFields DEF Sound
  <1>2. w \in Pris /\ (w >= e.pri[t] \/ w = p)
    BY <1>1
  <1>3. e' = ReQTask(WithPris(e, a, b), t)
    <2>1. [e EXCEPT !.norm[t] = p, !.pri[t] = w] = WithPris(e, a, b)
      BY <1>1 DEF MsgType, WithPris
    <2> QED BY <2>1 DEF TaskBump
  <1> HIDE DEF w
  <1>4. a \in [Tasks -> Pris] /\ b \in [Tasks -> Pris]
    BY <1>1, <1>2
  <1>5. /\ \A u \in Tasks : u # t => a[u] = e.pri[u]
        /\ a[t] = w /\ b[t] = p
    BY <1>1
  <1> HIDE DEF a, b
  <1>6. (\A u \in Tasks : b[u] >= e.norm[u]) => \A u \in Tasks : a[u] >= e.pri[u] \/ a[u] >= e.norm[u]
    <2> SUFFICES ASSUME \A u \in Tasks : b[u] >= e.norm[u], NEW u \in Tasks
                 PROVE  a[u] >= e.pri[u] \/ a[u] >= e.norm[u]
      OBVIOUS
    <2>1. CASE u # t
      BY <1>1, <1>5, <2>1
    <2>2. CASE u = t
      BY <1>2, <1>5, <2>2
    <2> QED BY <2>1, <2>2
  <1>7. Stays(e, ReQTask(WithPris(e, a, b), t))
    BY <1>4, <1>5, <1>6, RequeuedStays
  <1> QED BY <1>3, <1>7

LEMMA MutexPromoteStays ==
  ASSUME Sound(e), Whole(e), NEW t \in Tasks, NEW p \in Pris, MutexPromote(t, p)
  PROVE  Stays(e, e')
  <1> DEFINE a == [e.pri EXCEPT ![t] = p]
             b == e.norm
  <1>1. /\ e \in MsgType /\ e.pri \in [Tasks -> Pris] /\ e.norm \in [Tasks -> Pris]
        /\ \A u \in Tasks : e.pri[u] \in Nat /\ e.norm[u] \in Nat
        /\ p \in Nat
    BY TaskFields DEF Sound
  <1>2. p > e.pri[t] /\ e' = ReQTask([e EXCEPT !.pri[t] = p], t)
    BY DEF MutexPromote
  <1>3. [e EXCEPT !.pri[t] = p] = WithPris(e, a, b)
    BY <1>1 DEF MsgType, WithPris
  <1>4. a \in [Tasks -> Pris] /\ b \in [Tasks -> Pris]
    BY <1>1
  <1>5. \A u \in Tasks : (u # t => a[u] = e.pri[u]) /\ a[u] >= e.pri[u]
    BY <1>1, <1>2
  <1> HIDE DEF a, b
  <1>6. Stays(e, ReQTask(WithPris(e, a, b), t))
    BY <1>4, <1>5, RequeuedStays
  <1> QED BY <1>2, <1>3, <1>6

LEMMA MutexGetStays ==
  ASSUME Sound(e), Whole(e), NEW t \in Tasks, MutexGet(t)
  PROVE  Stays(e, e')
  <1>1. e \in MsgType /\ e' = [e EXCEPT !.molp = e.molp \union {t}]
    BY DEF Sound, MutexGet
  <1>2. /\ e' \in MsgType /\ e'.q = e.q /\ e'.tq = e.tq /\ e'.mq = e.mq
        /\ e'.pri = e.pri /\ e'.norm = e.norm /\ e'.xonr = e.xonr /\ e'.onr = e.onr /\ e'.mpri = e.mpri
    BY <1>1 DEF MsgType
  <1>3. Urgency(e') = Urgency(e)
    BY <1>2, SameUrgency
  <1>4. Supported(e, e')
    <2>1. \A u \in Tasks : e.pri[u] \in Nat
      BY <1>1, TaskFields
    <2> QED BY <1>2, <2>1 DEF Supported
  <1>5. Marked(e')
    BY <1>2 DEF Whole, Marked
  <1> QED BY <1>2, <1>3, <1>4, <1>5, TasksOnly DEF Sound, Whole

\* The caller waits nowhere.
LEMMA CallerIsOut ==
  ASSUME Sound(e), NEW t \in Tasks, MayCall(t)
  PROVE  Out(e.q, t)
  BY OutIs, TaskAssumption DEF MayCall, Waits, Sound

LEMMA MutexRelStays ==
  ASSUME Sound(e), Whole(e), NEW t \in Tasks, MutexRel(t)
  PROVE  Stays(e, e')
  <1> DEFINE a == [e.pri EXCEPT ![t] = e.norm[t]]
  <1>1. /\ e \in MsgType /\ e.pri \in [Tasks -> Pris] /\ e.norm \in [Tasks -> Pris]
        /\ \A u \in Tasks : e.pri[u] \in Nat /\ e.norm[u] \in Nat
    BY TaskFields DEF Sound
  <1>2. e' = [e EXCEPT !.molp = e.molp \ {t}, !.pri = a]
    BY <1>1 DEF MutexRel, MsgType
  <1>3. a \in [Tasks -> Pris] /\ a[t] = e.norm[t] /\ \A u \in Tasks : u # t => a[u] = e.pri[u]
    BY <1>1
  <1> HIDE DEF a
  <1>4. /\ e' \in MsgType /\ e'.pri = a /\ e'.q = e.q /\ e'.tq = e.tq /\ e'.mq = e.mq
        /\ e'.norm = e.norm /\ e'.xonr = e.xonr /\ e'.onr = e.onr /\ e'.mpri = e.mpri
    BY <1>1, <1>2, <1>3 DEF MsgType
  <1>5. Ordered(e.q, Urgency(e'))
    <2>1. \A u \in Things \ {t} : Urgency(e')[u] = Urgency(e)[u]
      BY <1>3, <1>4 DEF Urgency, Pri, Things
    <2>2. Apart(e.q, t)
      BY CallerIsOut DEF MutexRel, Out, Apart
    <2> QED BY <2>1, <2>2, ApartOrdered DEF Sound, Whole
  <1>6. Supported(e, e')
    BY <1>1, <1>3, <1>4 DEF Supported
  <1>7. Marked(e')
    BY <1>4 DEF Whole, Marked
  <1> QED BY <1>4, <1>5, <1>6, <1>7, TasksOnly DEF Sound, Whole

-----------------------------------------------------------------------------
(* Sending. *)

\* z is put into the queue of a broadcast exchange.
LEMMA PutAnywhere ==
  ASSUME NEW q, Separate(q), NEW x \in Xchgs, Mode[x] = "BCST", NEW z \in Things, Out(q, z),
         NEW w \in Seq(Things), Injective(w), \A u : Contains(w, u) <=> Contains(q[x], u) \/ u = z,
         NEW r, r = [q EXCEPT ![x] = w], NEW p, Ordered(q, p)
  PROVE  Separate(r) /\ Gains(q, r, x, z) /\ Ordered(r, p)
  <1>1. q \in [Xchgs -> Seq(Things)]
    BY DEF Separate
  <1>2. /\ r \in [Xchgs -> Seq(Things)] /\ r[x] = w
        /\ \A y \in Xchgs : y # x => r[y] = q[y]
    BY <1>1
  <1>3. \A y \in Xchgs : \A u : Contains(r[y], u) <=> Contains(q[y], u) \/ (y = x /\ u = z)
    BY <1>2
  <1>4. \A y \in Xchgs : Injective(r[y])
    BY <1>2 DEF Separate
  <1>5. \A y, y2 \in Xchgs, u \in Things : Contains(r[y], u) /\ Contains(r[y2], u) => y = y2
    BY <1>3 DEF Separate, Out
  <1>6. Ordered(r, p)
    BY <1>2 DEF Ordered
  <1> QED BY <1>2, <1>3, <1>4, <1>5, <1>6 DEF Separate, Gains

\* The first element is taken out.
LEMMA Popped ==
  ASSUME NEW q, Separate(q), NEW x \in Xchgs, q[x] # <<>>,
         NEW r, r = [q EXCEPT ![x] = Tail(q[x])], NEW p, Ordered(q, p)
  PROVE  Separate(r) /\ Drops(q, r, Head(q[x])) /\ Ordered(r, p) /\ Contains(q[x], Head(q[x]))
  <1> DEFINE z == Head(q[x])
             w == Tail(q[x])
  <1>1. /\ q \in [Xchgs -> Seq(Things)] /\ q[x] \in Seq(Things) /\ Injective(q[x])
    BY DEF Separate
  <1>2. /\ z \in Things /\ Contains(q[x], z) /\ w \in Seq(Things) /\ Injective(w)
        /\ \A u : Contains(w, u) <=> Contains(q[x], u) /\ u # z
    BY <1>1, TailContains
  <1>3. Mode[x] # "BCST" => Descending(w, p)
    BY <1>1, TailDescending DEF Ordered
  <1>4. r = [q EXCEPT ![x] = w]
    OBVIOUS
  <1> HIDE DEF z, w
  <1>5. /\ r \in [Xchgs -> Seq(Things)] /\ r[x] = w
        /\ \A y \in Xchgs : y # x => r[y] = q[y]
    BY <1>1, <1>2, <1>4
  <1>6. \A y \in Xchgs : Contains(q[y], z) => y = x
    BY <1>2 DEF Separate
  <1>7. \A y \in Xchgs : \A u : Contains(r[y], u) <=> Contains(q[y], u) /\ u # z
    BY <1>2, <1>5, <1>6
  <1>8. \A y \in Xchgs : Injective(r[y])
    BY <1>2, <1>5 DEF Separate
  <1>9. \A y, y2 \in Xchgs, u \in Things : Contains(r[y], u) /\ Contains(r[y2], u) => y = y2
    BY <1>7 DEF Separate
  <1>10. Ordered(r, p)
    BY <1>3, <1>5 DEF Ordered
  <1> QED BY <1>2, <1>5, <1>7, <1>8, <1>9, <1>10 DEF Separate, Drops, z

LEMMA NotEmpty ==
  ASSUME NEW s, NEW u, Contains(s, u)
  PROVE  s # <<>>
  BY DEF Contains

\* The first message or the first task.
LEMMA HeadIs ==
  ASSUME NEW f \in MsgType, Marked(f), Separate(f.q), NEW x \in Xchgs
  PROVE  /\ f.tq[x] => f.q[x] # <<>> /\ Head(f.q[x]) \in Tasks
         /\ f.mq[x] => f.q[x] # <<>> /\ Head(f.q[x]) \in Msgs
         /\ f.tq[x] \/ f.mq[x] => Contains(f.q[x], Head(f.q[x]))
         /\ f.q[x] # <<>> => f.tq[x] \/ f.mq[x]
  <1>1. f.q[x] \in Seq(Things) /\ Injective(f.q[x])
    BY DEF Separate
  <1>2. f.q[x] # <<>> => Head(f.q[x]) \in Things /\ Contains(f.q[x], Head(f.q[x]))
    BY <1>1, TailContains
  <1>3. f.tq[x] \/ f.mq[x] => f.q[x] # <<>>
    BY NotEmpty DEF Marked
  <1>4. f.q[x] # <<>> => Head(f.q[x]) \in Tasks \/ Head(f.q[x]) \in Msgs
    BY <1>2 DEF Things
  <1>5. f.q[x] # <<>> => /\ f.tq[x] \/ f.mq[x]
                         /\ f.tq[x] => Head(f.q[x]) \in Tasks
                         /\ f.mq[x] => Head(f.q[x]) \in Msgs
    BY <1>2, <1>4 DEF Marked
  <1> QED BY <1>2, <1>3, <1>5

\* m has come, or waits with another priority, and the server is promoted.
LEMMA UrgedStaysUp ==
  ASSUME NEW f \in MsgType, NEW g \in MsgType, NEW x \in Xchgs, NEW m \in Msgs,
         Separate(g.q), Contains(g.q[x], m), g.xonr = f.xonr,
         \A u \in Msgs : u # m => g.mpri[u] = f.mpri[u],
         \A y \in Xchgs : \A u \in Msgs : u # m /\ Contains(g.q[y], u) => Contains(f.q[y], u),
         \A t \in Tasks : g.pri[t] >= f.pri[t],
         x \in Server /\ g.xonr[x] # None => g.pri[g.xonr[x]] >= g.mpri[m] /\ g.norm[g.xonr[x]] >= g.mpri[m]
  PROVE  StaysUp(f, g)
  <1> SUFFICES ASSUME KeepsUp(f), NormRaised(f, g) PROVE KeepsUp(g)
    BY DEF StaysUp
  <1>1. ASSUME NEW y \in Server, NEW u \in Msgs, g.xonr[y] # None, Contains(g.q[y], u)
        PROVE  Upheld(f, g, y, u)
    <2>1. y \in Xchgs
      BY ServerFields
    <2>2. CASE u # m
      BY <1>1, <2>1, <2>2 DEF Upheld
    <2>3. CASE u = m
      <3>1. y = x
        BY <1>1, <2>1, <2>3, Disjoint DEF Separate
      <3> QED BY <1>1, <2>3, <3>1 DEF Upheld
    <2> QED BY <2>2, <2>3
  <1>2. Supported(f, g)
    BY DEF Supported
  <1> QED BY <1>1, <1>2, UpKept

\* The server is promoted, if x has one.
Urged(f, x, m) == IF x \in Server THEN Promote(f, x, m) ELSE f

Urges(f, g, x, m) ==
    /\ g \in MsgType
    /\ g.tq = f.tq /\ g.mq = f.mq /\ g.xonr = f.xonr /\ g.onr = f.onr /\ g.mpri = f.mpri
    /\ Separate(g.q) /\ Alike(f.q, g.q) /\ Ordered(g.q, Urgency(g))
    /\ \A u \in Tasks : g.pri[u] >= f.pri[u]
    /\ x \in Server /\ g.xonr[x] # None => /\ g.pri[g.xonr[x]] >= g.mpri[m]
                                           /\ g.norm[g.xonr[x]] >= g.mpri[m]

LEMMA UrgedUrges ==
  ASSUME NEW f \in MsgType, Separate(f.q), Ordered(f.q, Urgency(f)), NEW x \in Xchgs,
         NEW m \in Msgs
  PROVE  Urges(f, Urged(f, x, m), x, m)
  <1>1. CASE x \in Server
    BY <1>1, PromoteRaises DEF Urged, Urges, Promotes
  <1>2. CASE x \notin Server
    <2>1. \A u \in Tasks : f.pri[u] >= f.pri[u]
      <3>1. \A u \in Tasks : f.pri[u] \in Nat
        BY TaskFields
      <3> QED BY <3>1
    <2> QED BY <1>2, <2>1 DEF Urged, Urges, Alike
  <1> QED BY <1>1, <1>2

LEMMA PostStays ==
  ASSUME NEW f, Sound(f), Whole(f), NEW x \in Xchgs, Mode[x] # "BCST", ~f.tq[x],
         NEW m \in Msgs, Out(f.q, m)
  PROVE  Stays(f, Post(f, x, m)) /\ Home(Post(f, x, m), m)
  <1> DEFINE g1 == PNQMsg(f, x, m)
             k  == [g1.mq EXCEPT ![x] = TRUE]
             f1 == [g1 EXCEPT !.mq[x] = TRUE]
             f2 == Urged(f1, x, m)
             o  == [f2.onr EXCEPT ![m] = x]
             g  == [f2 EXCEPT !.onr[m] = x]
  <1>1. Post(f, x, m) = g
    BY DEF Post, Urged
  <1>2. f \in MsgType /\ Separate(f.q) /\ Ordered(f.q, Urgency(f))
    BY DEF Sound, Whole
  <1>3. /\ g1 \in MsgType /\ g1.tq = f.tq /\ g1.mq = f.mq /\ SameRest(f, g1)
        /\ Separate(g1.q) /\ Gains(f.q, g1.q, x, m) /\ Ordered(g1.q, Urgency(g1))
    BY <1>2, PNQMsgPuts
  <1> HIDE DEF g1
  <1>4. g1.mq \in [Xchgs -> BOOLEAN] /\ k \in [Xchgs -> BOOLEAN]
    BY <1>3 DEF MsgType
  <1>5. k[x] = TRUE /\ \A y \in Xchgs : y # x => k[y] = f.mq[y]
    BY <1>3, <1>4
  <1>6. f1 = [g1 EXCEPT !.mq = k]
    BY <1>3 DEF MsgType
  <1> HIDE DEF k, f1
  <1>7. /\ f1 \in MsgType /\ f1.mq = k /\ f1.tq = g1.tq /\ f1.q = g1.q /\ SameRest(g1, f1)
    BY <1>3, <1>4, <1>6 DEF MsgType, SameRest, SameTasks
  <1>8. Urgency(f1) = Urgency(g1)
    BY <1>7, SameUrgency DEF SameRest, SameTasks
  <1>9. Urges(f1, f2, x, m)
    BY <1>3, <1>7, <1>8, UrgedUrges
  <1> HIDE DEF f2
  <1>10. f2 \in MsgType /\ f2.onr \in [Msgs -> MsgOwners]
    BY <1>9 DEF Urges, MsgType, MsgOwners
  <1>11. o \in [Msgs -> MsgOwners] /\ o[m] = x /\ \A u \in Msgs : u # m => o[u] = f2.onr[u]
    BY <1>10 DEF MsgOwners
  <1>12. g = [f2 EXCEPT !.onr = o]
    BY <1>10 DEF MsgType
  <1> HIDE DEF o, g
  <1>13. /\ g \in MsgType /\ g.onr = o /\ g.q = f2.q /\ g.tq = f2.tq /\ g.mq = f2.mq
         /\ g.xonr = f2.xonr /\ g.mpri = f2.mpri /\ g.pri = f2.pri /\ g.norm = f2.norm
    BY <1>10, <1>11, <1>12 DEF MsgType, MsgOwners
  <1>14. /\ g.tq = f.tq /\ g.mq = k /\ g.xonr = f.xonr /\ g.mpri = f.mpri /\ f2.onr = f.onr
         /\ f1.pri = f.pri
    BY <1>3, <1>7, <1>9, <1>13 DEF Urges, SameRest, SameTasks
  <1>15. \A y \in Xchgs : \A u : Contains(g.q[y], u) <=> Contains(f.q[y], u) \/ (y = x /\ u = m)
    BY <1>3, <1>7, <1>9, <1>13 DEF Urges, Alike, Gains
  <1>16. Separate(g.q) /\ Ordered(g.q, Urgency(g))
    <2>1. Urgency(g) = Urgency(f2)
      BY <1>13, SameUrgency
    <2> QED BY <1>9, <1>13, <2>1 DEF Urges
  <1>17. Sound(g)
    BY <1>13, <1>14, <1>16 DEF Sound
  <1>18. Marked(g)
    <2> SUFFICES ASSUME NEW y \in Xchgs
                 PROVE  /\ f.tq[y] <=> \E t \in Tasks : Contains(g.q[y], t)
                        /\ k[y] <=> \E u \in Msgs : Contains(g.q[y], u)
                        /\ ~(f.tq[y] /\ k[y])
      BY <1>14 DEF Marked
    <2>1. /\ f.tq[y] <=> \E t \in Tasks : Contains(f.q[y], t)
          /\ f.mq[y] <=> \E u \in Msgs : Contains(f.q[y], u)
          /\ ~(f.tq[y] /\ f.mq[y])
      BY DEF Whole, Marked
    <2> QED BY <1>5, <1>15, <2>1, Disjoint
  <1>19. Owners(g)
    <2> SUFFICES ASSUME NEW u \in Msgs, NEW y \in Xchgs
                 PROVE  Contains(g.q[y], u) =>
                           /\ Mode[y] = "BCST" => (\A v : Contains(g.q[y], v) => v = u) /\ o[u] # None
                           /\ Mode[y] # "BCST" => o[u] = y
      BY <1>13 DEF Owners
    <2>1. Contains(f.q[y], u) =>
             /\ Mode[y] = "BCST" => (\A v : Contains(f.q[y], v) => v = u) /\ f.onr[u] # None
             /\ Mode[y] # "BCST" => f.onr[u] = y
      BY DEF Whole, Owners
    <2> QED BY <1>11, <1>14, <1>15, <2>1 DEF Out
  <1>20. StaysUp(f, g)
    <2>1. /\ \A u \in Msgs : u # m => g.mpri[u] = f.mpri[u]
          /\ \A y \in Xchgs : \A u \in Msgs : u # m /\ Contains(g.q[y], u) => Contains(f.q[y], u)
          /\ Contains(g.q[x], m)
      BY <1>14, <1>15
    <2>2. \A t \in Tasks : g.pri[t] >= f.pri[t]
      BY <1>9, <1>13, <1>14 DEF Urges
    <2>3. x \in Server /\ g.xonr[x] # None => /\ g.pri[g.xonr[x]] >= g.mpri[m]
                                              /\ g.norm[g.xonr[x]] >= g.mpri[m]
      BY <1>9, <1>13 DEF Urges
    <2> QED BY <1>2, <1>13, <1>14, <1>16, <2>1, <2>2, <2>3, UrgedStaysUp
  <1>22. Home(g, m)
    BY <1>11, <1>13, <1>15 DEF Home
  <1>21. Homes(f, g)
    <2> SUFFICES ASSUME NEW u \in Msgs PROVE Settled(f, g, u)
      BY DEF Homes
    <2>1. CASE u = m
      BY <1>22, <2>1 DEF Settled, Home
    <2>2. CASE u # m
      BY <1>11, <1>13, <1>14, <1>15, <2>2 DEF Settled
    <2> QED BY <2>1, <2>2
  <1> QED BY <1>1, <1>16, <1>17, <1>18, <1>19, <1>20, <1>21, <1>22 DEF Stays, Whole

\* The task that has waited longest of the most urgent ones gets the message.
LEMMA GiveStays ==
  ASSUME NEW f, Sound(f), Whole(f), NEW x \in Xchgs, Mode[x] # "BCST", f.tq[x],
         NEW m \in Msgs, Out(f.q, m)
  PROVE  Stays(f, Give(f, x, m)) /\ Home(Give(f, x, m), m)
  <1> DEFINE t  == Head(f.q[x])
             p  == f.mpri[m]
             r  == [f.q EXCEPT ![x] = Tail(f.q[x])]
             k  == [f.tq EXCEPT ![x] = Len(f.q[x]) > 1]
             o  == [f.onr EXCEPT ![m] = t]
             s  == [f.xonr EXCEPT ![x] = IF Serves(x) THEN t ELSE f.xonr[x]]
             f1 == [f EXCEPT !.q = r, !.tq = k, !.onr = o, !.xonr = s]
             pass == Mode[x] = "PASS"
             a  == IF pass THEN [f.pri EXCEPT ![t] = IF Moves(f, t, p) THEN p ELSE f.pri[t]] ELSE f.pri
             b  == IF pass THEN [f.norm EXCEPT ![t] = p] ELSE f.norm
             g  == WithPris(f1, a, b)
  <1>1. f \in MsgType /\ Separate(f.q) /\ Ordered(f.q, Urgency(f)) /\ Marked(f)
    BY DEF Sound, Whole
  <1>2. /\ f.q[x] # <<>> /\ t \in Tasks /\ Contains(f.q[x], t)
        /\ f.q[x] \in Seq(Things) /\ Injective(f.q[x])
    BY <1>1, HeadIs DEF Separate
  <1>3. /\ f.q \in [Xchgs -> Seq(Things)] /\ f.tq \in [Xchgs -> BOOLEAN]
        /\ f.onr \in [Msgs -> MsgOwners] /\ f.xonr \in [Xchgs -> Tasks \union {None}]
        /\ f.pri \in [Tasks -> Pris] /\ f.norm \in [Tasks -> Pris] /\ p \in Pris
        /\ p \in Nat /\ \A u \in Tasks : f.pri[u] \in Nat /\ f.norm[u] \in Nat
    BY <1>1, TaskFields, MsgFields DEF MsgType, Things, MsgOwners
  <1>4. Give(f, x, m) = g
    <2>1. f1 = [f EXCEPT !.q[x] = Tail(@), !.tq[x] = Len(f.q[x]) > 1, !.onr[m] = t,
                         !.xonr[x] = IF Serves(x) THEN t ELSE @]
      BY <1>1 DEF MsgType
    <2>2. f1.pri = f.pri /\ f1.norm = f.norm
      BY <1>1 DEF MsgType
    <2>3. CASE ~pass
      <3>1. g = f1
        BY <1>1, <2>3 DEF WithPris, MsgType
      <3>2. Give(f, x, m) = f1
        BY <2>1, <2>3 DEF Give
      <3> QED BY <3>1, <3>2
    <2>4. CASE pass
      <3>1. Give(f, x, m) = [f1 EXCEPT !.norm[t] = p, !.pri[t] = IF Moves(f, t, p) THEN p ELSE @]
        BY <2>1, <2>4 DEF Give
      <3>2. [f1 EXCEPT !.norm[t] = p, !.pri[t] = IF Moves(f, t, p) THEN p ELSE @] = g
        BY <1>1, <2>2, <2>4 DEF WithPris, MsgType
      <3> QED BY <3>1, <3>2
    <2> QED BY <2>3, <2>4
  <1>5. /\ Separate(r) /\ Drops(f.q, r, t) /\ Ordered(r, Urgency(f))
    <2> HIDE DEF t
    <2>1. f.q[x] # <<>> /\ r = [f.q EXCEPT ![x] = Tail(f.q[x])] /\ t = Head(f.q[x])
      BY <1>2 DEF t
    <2> HIDE DEF r
    <2> QED BY <1>1, <2>1, Popped
  <1>6. /\ r \in [Xchgs -> Seq(Things)] /\ k \in [Xchgs -> BOOLEAN] /\ o \in [Msgs -> MsgOwners]
        /\ s \in [Xchgs -> Tasks \union {None}]
    <2>1. r \in [Xchgs -> Seq(Things)]
      BY <1>5 DEF Separate
    <2> QED BY <1>2, <1>3, <2>1 DEF MsgOwners
  <1>7. /\ k[x] <=> Len(f.q[x]) > 1
        /\ \A y \in Xchgs : y # x => k[y] = f.tq[y] /\ s[y] = f.xonr[y]
        /\ x \notin Server => s[x] = f.xonr[x]
        /\ o[m] = t /\ \A u \in Msgs : u # m => o[u] = f.onr[u]
    BY <1>3 DEF Serves
  <1> DEFINE w == IF Moves(f, t, p) THEN p ELSE f.pri[t]
  <1>8. /\ w \in Pris /\ (w >= f.pri[t] \/ w = p)
    BY <1>2, <1>3 DEF Moves
  <1>9. /\ a \in [Tasks -> Pris] /\ b \in [Tasks -> Pris]
        /\ \A u \in Tasks : u # t => a[u] = f.pri[u]
        /\ a[t] >= f.pri[t] \/ a[t] = b[t]
    <2>1. /\ a = IF pass THEN [f.pri EXCEPT ![t] = w] ELSE f.pri
      OBVIOUS
    <2> HIDE DEF w, a, t, p
    <2>2. CASE pass
      <3>1. a = [f.pri EXCEPT ![t] = w] /\ b = [f.norm EXCEPT ![t] = p]
        BY <2>1, <2>2
      <3>2. a[t] = w /\ b[t] = p
        BY <1>2, <1>3, <3>1
      <3> QED BY <1>2, <1>3, <1>8, <3>1, <3>2
    <2>3. CASE ~pass
      BY <1>2, <1>3, <2>1, <2>3
    <2> QED BY <2>2, <2>3
  <1> HIDE DEF r, k, o, s, a, b, w
  <1>10. /\ f1 \in MsgType /\ f1.q = r /\ f1.tq = k /\ f1.onr = o /\ f1.xonr = s /\ f1.mq = f.mq
         /\ f1.mpri = f.mpri
    BY <1>1, <1>6 DEF MsgType, Things, MsgOwners
  <1> HIDE DEF f1
  <1>11. PrisAre(f1, g, a, b)
    BY <1>9, <1>10, PriFields
  <1> HIDE DEF g
  <1>12. /\ g \in MsgType /\ g.q = r /\ g.tq = k /\ g.onr = o /\ g.xonr = s /\ g.mq = f.mq
         /\ g.mpri = f.mpri /\ g.pri = a /\ g.norm = b
    BY <1>10, <1>11 DEF PrisAre
  <1> HIDE DEF t, p
  <1>13. \A y \in Xchgs : \A u : Contains(r[y], u) <=> Contains(f.q[y], u) /\ u # t
    BY <1>5 DEF Drops
  <1>14. Sound(g)
    <2>1. \A y \in Xchgs, u \in Things : Mode[y] # "BCST" /\ Contains(r[y], u) => Urgency(g)[u] = Urgency(f)[u]
      <3>1. \A u \in Things : u # t => Urgency(g)[u] = Urgency(f)[u]
        BY <1>9, <1>12 DEF Urgency, Pri, Things
      <3> QED BY <1>13, <3>1
    <2>2. Ordered(r, Urgency(g))
      BY <1>5, <2>1, AgreeOrdered
    <2>3. \A y \in Xchgs \ Server : s[y] = None
      BY <1>7 DEF Sound
    <2> QED BY <1>12, <2>2, <2>3 DEF Sound
  <1>15. Marked(g)
    <2> SUFFICES ASSUME NEW y \in Xchgs
                 PROVE  /\ k[y] <=> \E u \in Tasks : Contains(r[y], u)
                        /\ f.mq[y] <=> \E u \in Msgs : Contains(r[y], u)
                        /\ ~(k[y] /\ f.mq[y])
      BY <1>12 DEF Marked
    <2>1. /\ f.tq[y] <=> \E u \in Tasks : Contains(f.q[y], u)
          /\ f.mq[y] <=> \E u \in Msgs : Contains(f.q[y], u)
          /\ ~(f.tq[y] /\ f.mq[y])
      BY <1>1 DEF Marked
    <2>2. CASE y # x
      <3>1. ~Contains(f.q[y], t)
        BY <1>1, <1>2, <2>2, Disjoint DEF Separate
      <3> QED BY <1>7, <1>13, <2>1, <2>2, <3>1
    <2>3. CASE y = x
      <3>1. k[y] <=> \E u : Contains(f.q[y], u) /\ u # t
        BY <1>2, <1>7, <2>3, LeftOver
      <3>2. \A u : Contains(f.q[y], u) => u \in Tasks
        <4>1. \A u : Contains(f.q[y], u) => u \in Things
          BY <1>1, InThings
        <4> QED BY <1>2, <2>1, <2>3, <4>1 DEF Things
      <3> QED BY <1>13, <2>1, <2>3, <3>1, <3>2
    <2> QED BY <2>2, <2>3
  <1>16. Owners(g)
    <2> SUFFICES ASSUME NEW u \in Msgs, NEW y \in Xchgs
                 PROVE  Contains(r[y], u) =>
                           /\ Mode[y] = "BCST" => (\A v : Contains(r[y], v) => v = u) /\ o[u] # None
                           /\ Mode[y] # "BCST" => o[u] = y
      BY <1>12 DEF Owners
    <2>1. Contains(f.q[y], u) =>
             /\ Mode[y] = "BCST" => (\A v : Contains(f.q[y], v) => v = u) /\ f.onr[u] # None
             /\ Mode[y] # "BCST" => f.onr[u] = y
      BY DEF Whole, Owners
    <2>2. u # t /\ t # y
      BY <1>2, Disjoint
    <2> QED BY <1>7, <1>13, <2>1, <2>2 DEF Out
  <1>17. StaysUp(f, g)
    <2> SUFFICES ASSUME KeepsUp(f), NormRaised(f, g) PROVE KeepsUp(g)
      BY DEF StaysUp
    <2>1. Supported(f, g)
      <3>1. b[t] >= f.norm[t]
        BY <1>2, <1>12 DEF NormRaised
      <3>2. ASSUME NEW u \in Tasks PROVE a[u] >= f.pri[u] \/ a[u] >= f.norm[u]
        <4>1. CASE u # t
          <5>1. a[u] = f.pri[u] /\ f.pri[u] \in Nat
            BY <1>3, <1>9, <4>1
          <5> QED BY <5>1
        <4>2. CASE u = t
          BY <1>9, <3>1, <4>2
        <4> QED BY <4>1, <4>2
      <3> QED BY <1>12, <3>2 DEF Supported
    <2>2. ASSUME NEW y \in Server, NEW u \in Msgs, g.xonr[y] # None, Contains(g.q[y], u)
          PROVE  Upheld(f, g, y, u)
      <3>1. y \in Xchgs /\ Contains(f.q[y], u)
        BY <1>12, <1>13, <2>2, ServerFields
      <3>2. y # x
        BY <1>1, <3>1 DEF Marked
      <3> QED BY <1>7, <1>12, <3>1, <3>2 DEF Upheld
    <2> QED BY <1>1, <1>12, <2>1, <2>2, UpKept
  <1>19. Home(g, m)
    BY <1>2, <1>7, <1>12, Disjoint DEF Home
  <1>18. Homes(f, g)
    <2> SUFFICES ASSUME NEW u \in Msgs PROVE Settled(f, g, u)
      BY DEF Homes
    <2>1. CASE u = m
      BY <1>19, <2>1 DEF Settled, Home
    <2>2. CASE u # m
      BY <1>2, <1>7, <1>12, <1>13, <2>2, Disjoint DEF Settled
    <2> QED BY <2>1, <2>2
  <1> QED BY <1>4, <1>5, <1>12, <1>14, <1>15, <1>16, <1>17, <1>18, <1>19 DEF Stays, Whole

\* The tasks that wait for a broadcast are resumed.
BroadcastWoken(f, x) == IF f.tq[x] THEN [f EXCEPT !.q[x] = <<>>, !.tq[x] = FALSE] ELSE f

LEMMA WokenStays ==
  ASSUME NEW f, Sound(f), Whole(f), NEW x \in Xchgs, Mode[x] = "BCST"
  PROVE  /\ Stays(f, BroadcastWoken(f, x)) /\ ~BroadcastWoken(f, x).tq[x]
         /\ SameRest(f, BroadcastWoken(f, x))
         /\ \A y \in Xchgs : \A u : Contains(BroadcastWoken(f, x).q[y], u) => Contains(f.q[y], u)
  <1>1. f \in MsgType /\ Separate(f.q)
    BY DEF Sound, Whole
  <1>2. CASE ~f.tq[x]
    BY <1>2 DEF BroadcastWoken, Stays, StaysUp, SameRest, SameTasks, Homes, Settled
  <1>3. CASE f.tq[x]
    <2> DEFINE r == [f.q EXCEPT ![x] = <<>>]
               k == [f.tq EXCEPT ![x] = FALSE]
               g == [f EXCEPT !.q = r, !.tq = k]
    <2>1. BroadcastWoken(f, x) = g
      BY <1>1, <1>3 DEF BroadcastWoken, MsgType
    <2>2. f.q \in [Xchgs -> Seq(Things)] /\ f.tq \in [Xchgs -> BOOLEAN]
      BY <1>1 DEF MsgType, Things
    <2>3. r \in [Xchgs -> Seq(Things)] /\ k \in [Xchgs -> BOOLEAN]
      BY <2>2
    <2>4. /\ r[x] = <<>> /\ ~k[x]
          /\ \A y \in Xchgs : y # x => r[y] = f.q[y] /\ k[y] = f.tq[y]
      BY <2>2
    <2> HIDE DEF r, k
    <2>5. g \in MsgType /\ g.q = r /\ g.tq = k /\ g.mq = f.mq /\ SameRest(f, g)
      BY <1>1, <2>3 DEF MsgType, SameRest, SameTasks, Things
    <2> HIDE DEF g
    <2>6. \A y \in Xchgs : \A u : Contains(r[y], u) <=> y # x /\ Contains(f.q[y], u)
      BY <2>4 DEF Contains
    <2>7. Separate(r)
      <3>1. Injective(<<>>)
        BY DEF Injective
      <3>2. \A y \in Xchgs : Injective(r[y])
        BY <1>1, <2>4, <3>1 DEF Separate
      <3> QED BY <1>1, <2>3, <2>6, <3>2 DEF Separate
    <2>8. Sound(g)
      <3>1. Ordered(r, Urgency(f))
        BY <2>4 DEF Ordered, Sound
      <3>2. Urgency(g) = Urgency(f)
        BY <2>5, SameUrgency DEF SameRest, SameTasks
      <3> QED BY <2>5, <3>1, <3>2 DEF Sound, SameRest, SameTasks
    <2>9. \A u \in Msgs : ~Contains(f.q[x], u)
      BY <1>3 DEF Whole, Marked
    <2>10. Marked(g)
      BY <1>3, <2>4, <2>5, <2>6, <2>9 DEF Whole, Marked
    <2>11. Owners(g)
      BY <2>5, <2>6, OwnersKept DEF Whole, SameRest
    <2>12. StaysUp(f, g)
      <3>1. \A y \in Server, u \in Msgs :
               Contains(g.q[y], u) => Contains(f.q[y], u) /\ g.mpri[u] = f.mpri[u]
        BY <1>1, <2>5, <2>6, ServerFields DEF SameRest
      <3> QED BY <1>1, <2>5, <3>1, SameServers DEF SameRest
    <2>13. Homes(f, g)
      BY <2>5, <2>6, <2>9, SameHomes DEF SameRest
    <2> QED BY <2>1, <2>4, <2>5, <2>6, <2>7, <2>8, <2>10, <2>11, <2>12, <2>13 DEF Stays, Whole
  <1> QED BY <1>2, <1>3

\* The message broadcast before is released.
BroadcastFreed(f, x) ==
    IF f.q[x] = <<>> THEN f ELSE MsgRel_F(DQMsg(f, Head(f.q[x])), Head(f.q[x]))

LEMMA FreedStays ==
  ASSUME NEW f, Sound(f), Whole(f), NEW x \in Xchgs, Mode[x] = "BCST", ~f.tq[x],
         NEW m \in Msgs, Out(f.q, m)
  PROVE  /\ Stays(f, BroadcastFreed(f, x)) /\ SameTasks(f, BroadcastFreed(f, x))
         /\ Out(BroadcastFreed(f, x).q, m) /\ BroadcastFreed(f, x).onr[m] = f.onr[m]
         /\ \A u : ~Contains(BroadcastFreed(f, x).q[x], u)
  <1>1. f \in MsgType /\ Separate(f.q) /\ Marked(f)
    BY DEF Sound, Whole
  <1>2. CASE f.q[x] = <<>>
    <2>1. \A u : ~Contains(f.q[x], u)
      BY <1>2, NotEmpty
    <2> QED BY <1>2, <2>1 DEF BroadcastFreed, Stays, StaysUp, SameTasks, Homes, Settled
  <1>3. CASE f.q[x] # <<>>
    <2> DEFINE h  == Head(f.q[x])
               f1 == Unqueued(f, h)
               g  == MsgRel_F(f1, h)
    <2>1. f.mq[x]
      BY <1>1, <1>3, HeadIs
    <2>2. h \in Msgs /\ Contains(f.q[x], h)
      BY <1>1, <2>1, HeadIs
    <2>3. h # m
      BY <2>2 DEF Out
    <2>4. \A u : Contains(f.q[x], u) => u = h
      BY <2>2 DEF Whole, Owners
    <2>5. BroadcastFreed(f, x) = g
      <3>1. At(f, h) # {}
        BY <1>1, <2>2, AtIs
      <3>2. f1 = DQMsg(f, h)
        BY <3>1 DEF Unqueued
      <3> QED BY <1>3, <3>2 DEF BroadcastFreed
    <2> HIDE DEF h
    <2>6. f1 \in MsgType /\ SameRest(f, f1)
      BY <2>2, UnqueuedStays DEF StaysBut, Sound
    <2>7. \A y \in Xchgs : \A u : Contains(f1.q[y], u) => Contains(f.q[y], u) /\ u # h
      <3>1. At(f, h) # {}
        BY <1>1, <2>2, AtIs
      <3>2. Dequeued(f, DQMsg(f, h), h)
        BY <1>1, <2>2, <3>1, DQMsgDequeues
      <3> QED BY <3>1, <3>2 DEF Unqueued, Dequeued, Drops
    <2>8. Frees(f1, g, h)
      BY <2>2, <2>6, MsgRelFrees
    <2> HIDE DEF g
    <2>9. Stays(f, g)
      BY <2>2, <2>8, UnqueuedFreed
    <2> HIDE DEF f1
    <2>10. g.q = f1.q /\ SameTasks(f1, g) /\ g.onr[m] = f1.onr[m]
      BY <2>3, <2>8 DEF Frees, MsgsAre
    <2>12. SameTasks(f, g) /\ g.onr[m] = f.onr[m]
      BY <2>6, <2>10 DEF SameRest, SameTasks
    <2>13. Out(g.q, m) /\ \A u : ~Contains(g.q[x], u)
      BY <2>4, <2>7, <2>10 DEF Out
    <2> QED BY <2>5, <2>9, <2>12, <2>13
  <1> QED BY <1>2, <1>3

LEMMA BroadcastStays ==
  ASSUME NEW f, Sound(f), Whole(f), NEW x \in Xchgs, Mode[x] = "BCST",
         NEW m \in Msgs, Out(f.q, m), f.onr[m] # None
  PROVE  /\ Stays(f, Broadcast(f, x, m))
         /\ Broadcast(f, x, m).onr[m] = f.onr[m] /\ Contains(Broadcast(f, x, m).q[x], m)
  <1> DEFINE f1 == BroadcastWoken(f, x)
             f2 == BroadcastFreed(f1, x)
             r  == [f2.q EXCEPT ![x] = <<m>>]
             k  == [f2.mq EXCEPT ![x] = TRUE]
             g  == [f2 EXCEPT !.q = r, !.mq = k]
  <1>1. Stays(f, f1) /\ ~f1.tq[x] /\ SameRest(f, f1) /\ Out(f1.q, m)
    BY WokenStays DEF Out
  <1>2. Broadcast(f, x, m) = [f2 EXCEPT !.q[x] = <<m>>, !.mq[x] = TRUE]
    BY DEF Broadcast, BroadcastWoken, BroadcastFreed
  <1> HIDE DEF f1
  <1>3. /\ Stays(f1, f2) /\ SameTasks(f1, f2) /\ Out(f2.q, m) /\ f2.onr[m] = f1.onr[m]
        /\ \A u : ~Contains(f2.q[x], u)
    BY <1>1, FreedStays DEF Stays
  <1> HIDE DEF f2
  <1>4. f2 \in MsgType /\ Separate(f2.q) /\ Sound(f2) /\ Whole(f2)
    BY <1>3 DEF Stays, Sound, Whole
  <1>5. Broadcast(f, x, m) = g
    BY <1>2, <1>4 DEF MsgType
  <1>6. k \in [Xchgs -> BOOLEAN] /\ k[x] /\ \A y \in Xchgs : y # x => k[y] = f2.mq[y]
    BY <1>4 DEF MsgType
  <1>7. /\ Separate(r) /\ Gains(f2.q, r, x, m) /\ Ordered(r, Urgency(f2))
    <2> DEFINE w == <<m>>
    <2>1. m \in Things
      BY Disjoint
    <2>2. w \in Seq(Things) /\ Injective(w) /\ \A u : Contains(w, u) <=> u = m
      BY <2>1 DEF Injective, Contains
    <2>3. r = [f2.q EXCEPT ![x] = w]
      OBVIOUS
    <2> HIDE DEF w, r
    <2>4. \A u : Contains(w, u) <=> Contains(f2.q[x], u) \/ u = m
      BY <1>3, <2>2
    <2>5. Ordered(f2.q, Urgency(f2))
      BY <1>4 DEF Sound
    <2> QED BY <1>3, <1>4, <2>1, <2>2, <2>3, <2>4, <2>5, PutAnywhere
  <1>8. r \in [Xchgs -> Seq(Things)]
    BY <1>7 DEF Separate
  <1> HIDE DEF r, k
  <1>9. g \in MsgType /\ g.q = r /\ g.mq = k /\ g.tq = f2.tq /\ SameRest(f2, g)
    BY <1>4, <1>6, <1>8 DEF MsgType, SameRest, SameTasks, Things
  <1> HIDE DEF g
  <1>10. Sound(g)
    <2>1. Urgency(g) = Urgency(f2)
      BY <1>9, SameUrgency DEF SameRest, SameTasks
    <2> QED BY <1>4, <1>7, <1>9, <2>1 DEF Sound, SameRest, SameTasks
  <1>11. \A y \in Xchgs : \A u : Contains(r[y], u) <=> Contains(f2.q[y], u) \/ (y = x /\ u = m)
    BY <1>7 DEF Gains
  <1>12. Marked(g)
    <2> SUFFICES ASSUME NEW y \in Xchgs
                 PROVE  /\ f2.tq[y] <=> \E t \in Tasks : Contains(r[y], t)
                        /\ k[y] <=> \E u \in Msgs : Contains(r[y], u)
                        /\ ~(f2.tq[y] /\ k[y])
      BY <1>9 DEF Marked
    <2>1. /\ f2.tq[y] <=> \E t \in Tasks : Contains(f2.q[y], t)
          /\ f2.mq[y] <=> \E u \in Msgs : Contains(f2.q[y], u)
          /\ ~(f2.tq[y] /\ f2.mq[y])
      BY <1>4 DEF Whole, Marked
    <2> QED BY <1>3, <1>6, <1>11, <2>1, Disjoint
  <1>13. Owners(g)
    <2> SUFFICES ASSUME NEW u \in Msgs, NEW y \in Xchgs
                 PROVE  Contains(r[y], u) =>
                           /\ Mode[y] = "BCST" => (\A v : Contains(r[y], v) => v = u) /\ f2.onr[u] # None
                           /\ Mode[y] # "BCST" => f2.onr[u] = y
      BY <1>9 DEF Owners, SameRest
    <2>1. Contains(f2.q[y], u) =>
             /\ Mode[y] = "BCST" => (\A v : Contains(f2.q[y], v) => v = u) /\ f2.onr[u] # None
             /\ Mode[y] # "BCST" => f2.onr[u] = y
      BY <1>4 DEF Whole, Owners
    <2>2. f2.onr[m] # None
      BY <1>1, <1>3 DEF SameRest
    <2>3. CASE y = x
      BY <1>3, <1>11, <2>2, <2>3
    <2>4. CASE y # x
      <3>1. \A v : Contains(r[y], v) <=> Contains(f2.q[y], v)
        BY <1>11, <2>4
      <3> QED BY <2>1, <3>1
    <2> QED BY <2>3, <2>4
  <1>14. StaysUp(f2, g)
    <2>1. \A y \in Server, u \in Msgs : Contains(g.q[y], u) => Contains(f2.q[y], u) /\ g.mpri[u] = f2.mpri[u]
      BY <1>9, <1>11, ServerFields DEF SameRest
    <2> QED BY <1>4, <1>9, <2>1, SameServers DEF SameRest
  <1>15. StaysUp(f1, g)
    BY <1>3, <1>4, <1>14, StaysUpTwice DEF Stays, SameTasks
  <1>16. StaysUp(f, g)
    BY <1>1, <1>15, StaysUpTwice DEF Stays, Sound, SameRest, SameTasks
  <1>17. Homes(f, g)
    <2>1. Homes(f2, g)
      BY <1>9, <1>11, SameHomes DEF SameRest
    <2> QED BY <1>1, <1>3, <2>1, SettledTwice DEF Stays, Homes
  <1>18. g.onr[m] = f.onr[m] /\ Contains(g.q[x], m)
    BY <1>1, <1>3, <1>9, <1>11 DEF SameRest
  <1> QED BY <1>5, <1>7, <1>9, <1>10, <1>12, <1>13, <1>16, <1>17, <1>18 DEF Stays, Whole

\* An LSR broadcasts a message that waits at an exchange, and stays its own.
Strays(c, m, x) == c = Lsr /\ Mode[x] = "BCST" /\ e.onr[m] \in Xchgs

LEMMA MsgSendSteps ==
  ASSUME Sound(e), Whole(e), NEW c \in Callers, NEW m \in Msgs, NEW x \in Xchgs, NEW p \in Pris,
         MsgSend(c, m, x, p)
  PROVE  /\ StaysBut(e, e', m)
         /\ Settled(e, e', m) \/ (Strays(c, m, x) /\ Contains(e'.q[x], m))
  <1> DEFINE f1 == Unqueued(e, m)
             a  == [f1.mpri EXCEPT ![m] = p]
             f2 == [f1 EXCEPT !.mpri[m] = p]
  <1>1. e.onr[m] # None /\ (c # Lsr => e.onr[m] \notin Xchgs)
    BY Disjoint DEF MsgSend, Owned
  <1>2. StaysBut(e, f1, m) /\ SameRest(e, f1) /\ Out(f1.q, m)
    BY UnqueuedStays
  <1>3. e' = IF Mode[x] = "BCST" THEN Broadcast(f2, x, m)
             ELSE IF f2.tq[x] THEN Give(f2, x, m)
             ELSE Post(f2, x, m)
    BY DEF MsgSend, Unqueued
  <1> HIDE DEF f1
  <1>4. f1 \in MsgType /\ Sound(f1) /\ Whole(f1) /\ f1.onr[m] = e.onr[m]
    BY <1>2 DEF StaysBut, Sound, SameRest
  <1>5. /\ f1.mpri \in [Msgs -> Pris] /\ f1.onr \in [Msgs -> MsgOwners]
        /\ f1.mpri \in [Msgs -> Pris] /\ a \in [Msgs -> Pris]
    BY <1>4 DEF MsgType, MsgOwners
  <1>6. \A u \in Msgs : u # m => a[u] = f1.mpri[u]
    BY <1>5
  <1>7. f2 = WithMsgs(f1, f1.onr, a)
    BY <1>4 DEF MsgType, WithMsgs
  <1> HIDE DEF a, f2
  <1>8. MsgsAre(f1, f2, f1.onr, a)
    BY <1>4, <1>5, <1>7, WithMsgsAre
  <1>9. Stays(f1, f2)
    BY <1>2, <1>4, <1>6, <1>8, OutStays
  <1>10. Sound(f2) /\ Whole(f2) /\ Out(f2.q, m) /\ f2.onr[m] = e.onr[m] /\ SameTasks(f1, f2)
    BY <1>2, <1>4, <1>8, <1>9 DEF Stays, MsgsAre
  <1>11. Stays(f2, e')
    BY <1>1, <1>3, <1>10, BroadcastStays, GiveStays, PostStays
  <1>12. StaysUp(f1, e')
    BY <1>9, <1>10, <1>11, StaysUpTwice DEF Stays, Sound, SameTasks
  <1>13. StaysUp(e, e')
    BY <1>2, <1>12, StaysUpTwice DEF StaysBut, Sound, SameRest, SameTasks
  <1>14. \A u \in Msgs : u # m => Settled(e, e', u)
    BY <1>2, <1>9, <1>11, SettledTwice DEF StaysBut, Stays, Homes
  <1>15. CASE Mode[x] # "BCST"
    <2>1. Home(e', m)
      BY <1>3, <1>10, <1>15, GiveStays, PostStays
    <2> QED BY <1>11, <1>13, <1>14, <2>1 DEF StaysBut, Stays, Home, Settled
  <1>16. CASE Mode[x] = "BCST"
    <2>1. e'.onr[m] = e.onr[m] /\ Contains(e'.q[x], m)
      BY <1>1, <1>3, <1>10, <1>16, BroadcastStays
    <2>2. Settled(e, e', m) \/ Strays(c, m, x)
      BY <1>1, <1>16, <2>1 DEF Settled, Strays
    <2> QED BY <1>11, <1>13, <1>14, <2>1, <2>2 DEF StaysBut, Stays
  <1> QED BY <1>15, <1>16

-----------------------------------------------------------------------------
(* Receiving. *)

\* None that waits is more urgent than the first.
LEMMA HeadFirst ==
  ASSUME NEW f \in MsgType, Separate(f.q), Ordered(f.q, Urgency(f)), NEW x \in Xchgs,
         Mode[x] # "BCST", NEW m \in Msgs, Contains(f.q[x], m), Head(f.q[x]) \in Msgs
  PROVE  f.mpri[Head(f.q[x])] >= f.mpri[m]
  <1> DEFINE s == f.q[x]
             pr == Urgency(f)
  <1>1. s \in Seq(Things) /\ s # <<>> /\ Descending(s, pr)
    BY NotEmpty DEF Separate, Ordered
  <1>2. Head(s) = s[1] /\ Len(s) \in Nat
    BY <1>1, LenProperties
  <1>3. PICK i \in 1..Len(s) : s[i] = m
    BY DEF Contains
  <1>4. pr[Head(s)] = f.mpri[Head(s)] /\ pr[m] = f.mpri[m] /\ f.mpri[m] \in Nat
    BY UrgencyIs
  <1> HIDE DEF s, pr
  <1>5. CASE i = 1
    BY <1>2, <1>3, <1>4, <1>5 DEF s
  <1>6. CASE i # 1
    <2>1. 1 \in 1..Len(s) /\ 1 < i
      BY <1>2, <1>3, <1>6
    <2>2. pr[s[1]] >= pr[s[i]]
      BY <1>1, <1>3, <2>1 DEF Descending
    <2> QED BY <1>2, <1>3, <1>4, <2>2 DEF s
  <1> QED BY <1>5, <1>6

\* The message has left its queue for its receiver.
Taken1(f, c, x) == [DQMsg(f, Head(f.q[x])) EXCEPT !.onr[Head(f.q[x])] = c]

LEMMA TakenStays ==
  ASSUME NEW f, Sound(f), Whole(f), NEW c \in Callers, NEW x \in Xchgs, Mode[x] # "BCST", f.mq[x]
  PROVE  /\ Stays(f, Taken1(f, c, x)) /\ SameTasks(f, Taken1(f, c, x))
         /\ Taken1(f, c, x).mpri = f.mpri
         /\ \A y \in Xchgs : \A u : Contains(Taken1(f, c, x).q[y], u) => Contains(f.q[y], u)
  <1> DEFINE m  == Head(f.q[x])
             f1 == DQMsg(f, m)
             o  == [f1.onr EXCEPT ![m] = c]
             g  == Taken1(f, c, x)
  <1>1. f \in MsgType /\ Separate(f.q) /\ Marked(f)
    BY DEF Sound, Whole
  <1>2. m \in Msgs /\ Contains(f.q[x], m)
    BY <1>1, HeadIs
  <1>3. At(f, m) # {}
    BY <1>1, <1>2, AtIs
  <1>4. g = [f1 EXCEPT !.onr[m] = c]
    BY DEF Taken1
  <1> HIDE DEF m, g
  <1>5. Dequeued(f, f1, m)
    BY <1>1, <1>2, <1>3, DQMsgDequeues
  <1> HIDE DEF f1
  <1>6. /\ f1 \in MsgType /\ Marked(f1) /\ Separate(f1.q) /\ Drops(f.q, f1.q, m) /\ SameRest(f, f1)
    BY <1>5 DEF Dequeued
  <1>7. /\ f1.onr \in [Msgs -> MsgOwners] /\ o \in [Msgs -> MsgOwners]
        /\ o[m] = c /\ \A u \in Msgs : u # m => o[u] = f1.onr[u]
    BY <1>2, <1>6, Disjoint DEF MsgType, MsgOwners
  <1>8. g = [f1 EXCEPT !.onr = o]
    BY <1>4, <1>6 DEF MsgType
  <1> HIDE DEF o
  <1>9. /\ g \in MsgType /\ g.onr = o /\ g.q = f1.q /\ g.tq = f1.tq /\ g.mq = f1.mq
        /\ SameTasks(f1, g) /\ g.mpri = f1.mpri
    BY <1>6, <1>7, <1>8 DEF MsgType, MsgOwners, SameTasks
  <1>10. SameTasks(f, g) /\ g.mpri = f.mpri /\ f1.onr = f.onr
    BY <1>6, <1>9 DEF SameRest, SameTasks
  <1>11. \A y \in Xchgs : \A u : Contains(g.q[y], u) <=> Contains(f.q[y], u) /\ u # m
    BY <1>6, <1>9 DEF Drops
  <1>12. Sound(g)
    <2>1. Urgency(g) = Urgency(f)
      BY <1>10, SameUrgency DEF SameTasks
    <2>2. \A u \in Things \ {m} : Urgency(g)[u] = Urgency(f)[u]
      BY <2>1
    <2>3. Ordered(f1.q, Urgency(g))
      BY <1>5, <2>2 DEF Dequeued, Sound
    <2> QED BY <1>9, <1>10, <2>3 DEF Sound, SameTasks
  <1>13. Marked(g)
    BY <1>6, <1>9 DEF Marked
  <1>14. Owners(g)
    <2> SUFFICES ASSUME NEW u \in Msgs, NEW y \in Xchgs
                 PROVE  Contains(g.q[y], u) =>
                           /\ Mode[y] = "BCST" => (\A v : Contains(g.q[y], v) => v = u) /\ o[u] # None
                           /\ Mode[y] # "BCST" => o[u] = y
      BY <1>9 DEF Owners
    <2>1. Contains(f.q[y], u) =>
             /\ Mode[y] = "BCST" => (\A v : Contains(f.q[y], v) => v = u) /\ f.onr[u] # None
             /\ Mode[y] # "BCST" => f.onr[u] = y
      BY DEF Whole, Owners
    <2> QED BY <1>7, <1>10, <1>11, <2>1, Disjoint
  <1>15. StaysUp(f, g)
    <2>1. \A y \in Server, u \in Msgs : Contains(g.q[y], u) => Contains(f.q[y], u) /\ g.mpri[u] = f.mpri[u]
      BY <1>1, <1>10, <1>11, ServerFields
    <2> QED BY <1>1, <1>9, <1>10, <2>1, SameServers
  <1>16. Separate(g.q)
    BY <1>6, <1>9
  <1>17. Homes(f, g)
    <2> SUFFICES ASSUME NEW u \in Msgs PROVE Settled(f, g, u)
      BY DEF Homes
    <2>1. CASE u = m
      BY <1>7, <1>9, <2>1, Disjoint DEF Settled
    <2>2. CASE u # m
      BY <1>7, <1>9, <1>10, <1>11, <2>2 DEF Settled
    <2> QED BY <2>1, <2>2
  <1> QED BY <1>10, <1>11, <1>12, <1>13, <1>14, <1>15, <1>16, <1>17 DEF Stays, Whole, g

\* A step that changes only the priorities of a task that waits nowhere and the
\* servers.
LEMMA ReceiverStays ==
  ASSUME NEW f, Sound(f), Whole(f), NEW g \in MsgType, g.q = f.q, g.tq = f.tq, g.mq = f.mq,
         g.onr = f.onr, g.mpri = f.mpri, NEW t \in Tasks, Out(f.q, t),
         \A u \in Tasks : u # t => g.pri[u] = f.pri[u],
         \A y \in Xchgs \ Server : g.xonr[y] = None
  PROVE  Sound(g) /\ Whole(g)
  <1>1. Ordered(f.q, Urgency(g))
    <2>1. \A u \in Things \ {t} : Urgency(g)[u] = Urgency(f)[u]
      BY DEF Urgency, Pri, Things
    <2>2. Apart(f.q, t)
      BY DEF Out, Apart
    <2> QED BY <2>1, <2>2, ApartOrdered DEF Sound, Whole
  <1> QED BY <1>1 DEF Sound, Whole, Marked, Owners

LEMMA TakeSteps ==
  ASSUME Sound(e), Whole(e), NEW c \in Callers, MayCall(c), NEW x \in Xchgs, Mode[x] # "BCST",
         e.mq[x], e' = Take(e, c, x)
  PROVE  /\ Sound(e') /\ Whole(e') /\ Homes(e, e')
         /\ ~(c \in Tasks /\ x \in Server /\ e'.norm[c] = e.norm[c]) => StaysUp(e, e')
  <1> DEFINE m  == Head(e.q[x])
             p  == e.mpri[m]
             f1 == Taken1(e, c, x)
  <1>1. Stays(e, f1) /\ SameTasks(e, f1) /\ f1.mpri = e.mpri
    BY TakenStays
  <1>2. \A y \in Xchgs : \A u : Contains(f1.q[y], u) => Contains(e.q[y], u)
    BY TakenStays
  <1>3. e \in MsgType /\ f1 \in MsgType /\ Separate(e.q) /\ Ordered(e.q, Urgency(e)) /\ Marked(e)
    BY <1>1 DEF Stays, Sound, Whole
  <1>4. m \in Msgs /\ Contains(e.q[x], m)
    BY <1>3, HeadIs
  <1>5. CASE Mode[x] # "PASS" \/ c = Lsr
    <2>1. e' = f1
      BY <1>5 DEF Take, Taken1
    <2> QED BY <1>1, <2>1 DEF Stays
  <1>6. CASE ~(Mode[x] # "PASS" \/ c = Lsr)
    <2> DEFINE mv == Moves(e, c, p)
               a  == IF mv THEN [e.pri EXCEPT ![c] = p] ELSE e.pri
               b  == IF mv THEN [e.norm EXCEPT ![c] = p] ELSE e.norm
               s  == [f1.xonr EXCEPT ![x] = IF Serves(x) THEN c ELSE f1.xonr[x]]
               f2 == WithPris(f1, a, b)
               g  == [f2 EXCEPT !.xonr = s]
    <2>1. c \in Tasks
      BY <1>6 DEF Callers
    <2>2. /\ e.pri \in [Tasks -> Pris] /\ e.norm \in [Tasks -> Pris] /\ p \in Pris /\ p \in Nat
          /\ \A u \in Tasks : e.pri[u] \in Nat /\ e.norm[u] \in Nat
      BY <1>3, <1>4, <2>1, TaskFields, MsgFields
    <2> HIDE DEF f1, m, p
    <2>3. f1.pri = e.pri /\ f1.norm = e.norm /\ f1.xonr = e.xonr
      BY <1>1 DEF SameTasks
    <2>4. f2 = IF mv THEN [f1 EXCEPT !.pri[c] = p, !.norm[c] = p] ELSE f1
      BY <1>3, <2>3 DEF WithPris, MsgType
    <2>5. e' = g
      <3>1. e' = [f2 EXCEPT !.xonr[x] = IF Serves(x) THEN c ELSE @]
        BY <1>6, <2>4 DEF Take, Taken1, f1, m, p
      <3>2. f2.xonr = f1.xonr
        BY <1>3 DEF WithPris, MsgType
      <3> HIDE DEF f2
      <3> QED BY <3>1, <3>2
    <2>6. a \in [Tasks -> Pris] /\ b \in [Tasks -> Pris]
      BY <2>1, <2>2
    <2>7. \A u \in Tasks : u # c => a[u] = e.pri[u] /\ b[u] = e.norm[u]
      BY <2>2
    <2>8. mv => a[c] = p /\ b[c] = p
      BY <2>1, <2>2
    <2>9. ~mv => a = e.pri /\ b = e.norm
      OBVIOUS
    <2>10. f1.xonr \in [Xchgs -> Tasks \union {None}]
      BY <1>3 DEF MsgType
    <2>11. /\ s \in [Xchgs -> Tasks \union {None}]
           /\ \A y \in Xchgs : y # x => s[y] = e.xonr[y]
           /\ x \in Server => s[x] = c
           /\ x \notin Server => s[x] = e.xonr[x]
      BY <2>1, <2>3, <2>10 DEF Serves
    <2> HIDE DEF a, b, s, mv, f2
    <2>12. PrisAre(f1, f2, a, b)
      BY <1>3, <2>6, PriFields DEF f2
    <2> HIDE DEF g
    <2>13. /\ g \in MsgType /\ g.pri = a /\ g.norm = b /\ g.xonr = s
           /\ g.q = f1.q /\ g.tq = f1.tq /\ g.mq = f1.mq /\ g.onr = f1.onr /\ g.mpri = f1.mpri
      BY <2>11, <2>12 DEF PrisAre, MsgType, g
    <2>14. Out(f1.q, c)
      BY <1>2, <2>1, CallerIsOut DEF Out
    <2>15. \A y \in Xchgs \ Server : g.xonr[y] = None
      BY <2>11, <2>13 DEF Sound
    <2>16. Sound(g) /\ Whole(g)
      BY <1>1, <2>1, <2>3, <2>7, <2>13, <2>14, <2>15, ReceiverStays DEF Stays
    <2>18. Homes(e, g)
      <3>1. Homes(f1, g)
        BY <2>13, SameHomes
      <3> QED BY <1>1, <3>1, SettledTwice DEF Stays, Homes
    <2>17. ASSUME ~(x \in Server /\ g.norm[c] = e.norm[c]) PROVE StaysUp(e, g)
      <3> SUFFICES ASSUME KeepsUp(e), NormRaised(e, g) PROVE KeepsUp(g)
        BY DEF StaysUp
      <3>1. Supported(e, g)
        <4> SUFFICES ASSUME NEW u \in Tasks PROVE a[u] >= e.pri[u] \/ a[u] >= e.norm[u]
          BY <2>13 DEF Supported
        <4>1. CASE u = c /\ mv
          BY <2>2, <2>8, <2>13, <4>1 DEF NormRaised
        <4>2. CASE ~(u = c /\ mv)
          <5>1. a[u] = e.pri[u] /\ e.pri[u] \in Nat
            BY <2>2, <2>7, <2>9, <4>2
          <5> QED BY <5>1
        <4> QED BY <4>1, <4>2
      <3>2. ASSUME NEW y \in Server, NEW u \in Msgs, g.xonr[y] # None, Contains(g.q[y], u)
            PROVE  Upheld(e, g, y, u)
        <4>1. y \in Xchgs /\ Contains(e.q[y], u) /\ g.mpri[u] = e.mpri[u]
          BY <1>1, <1>2, <2>13, <3>2, ServerFields
        <4>2. CASE y # x
          BY <2>11, <2>13, <4>1, <4>2 DEF Upheld
        <4>3. CASE y = x
          <5>1. mv
            BY <2>9, <2>13, <2>17, <4>3
          <5>2. p >= e.mpri[u]
            BY <1>3, <1>4, <4>1, <4>3, HeadFirst DEF m, p
          <5> QED BY <2>8, <2>11, <2>13, <4>1, <4>3, <5>1, <5>2 DEF Upheld
        <4> QED BY <4>2, <4>3
      <3> QED BY <1>3, <2>13, <3>1, <3>2, UpKept
    <2> QED BY <2>1, <2>5, <2>16, <2>17, <2>18
  <1> QED BY <1>5, <1>6

LEMMA WaitStays ==
  ASSUME NEW f, Sound(f), Whole(f), NEW t \in Tasks, Out(f.q, t), NEW x \in Xchgs, ~f.mq[x]
  PROVE  Stays(f, Wait(f, t, x))
  <1> DEFINE w == IF Mode[x] = "BCST" THEN Append(f.q[x], t) ELSE ByPriority(f, f.q[x], t)
             r == [f.q EXCEPT ![x] = w]
             k == [f.tq EXCEPT ![x] = TRUE]
             g == [f EXCEPT !.q = r, !.tq = k]
  <1>1. f \in MsgType /\ Separate(f.q) /\ Ordered(f.q, Urgency(f)) /\ t \in Things
    BY Disjoint DEF Sound, Whole
  <1>2. Wait(f, t, x) = g
    BY <1>1 DEF Wait, MsgType
  <1>3. Separate(r) /\ Gains(f.q, r, x, t) /\ Ordered(r, Urgency(f))
    <2>1. CASE Mode[x] = "BCST"
      <3> DEFINE v == Append(f.q[x], t)
                 pr == Urgency(f)
      <3>1. r = [f.q EXCEPT ![x] = v]
        BY <2>1
      <3>2. v \in Seq(Things) /\ Injective(v) /\ \A u : Contains(v, u) <=> Contains(f.q[x], u) \/ u = t
        BY <1>1, AppendContains DEF Separate, Out
      <3>3. Ordered(f.q, pr)
        BY <1>1
      <3> HIDE DEF r, v, pr
      <3>4. Separate(r) /\ Gains(f.q, r, x, t) /\ Ordered(r, pr)
        BY <1>1, <2>1, <3>1, <3>2, <3>3, PutAnywhere
      <3> QED BY <3>4 DEF pr
    <2>2. CASE Mode[x] # "BCST"
      <3>1. r = [f.q EXCEPT ![x] = ByPriority(f, f.q[x], t)]
        BY <2>2
      <3> HIDE DEF r
      <3> QED BY <1>1, <3>1, PutByPriority
    <2> QED BY <2>1, <2>2
  <1>4. k \in [Xchgs -> BOOLEAN] /\ k[x] /\ \A y \in Xchgs : y # x => k[y] = f.tq[y]
    BY <1>1 DEF MsgType
  <1>5. r \in [Xchgs -> Seq(Things)]
    BY <1>3 DEF Separate
  <1> HIDE DEF r, k
  <1>6. g \in MsgType /\ g.q = r /\ g.tq = k /\ g.mq = f.mq /\ SameRest(f, g)
    BY <1>1, <1>4, <1>5 DEF MsgType, SameRest, SameTasks, Things
  <1> HIDE DEF g
  <1>7. Sound(g)
    <2>1. Urgency(g) = Urgency(f)
      BY <1>6, SameUrgency DEF SameRest, SameTasks
    <2> QED BY <1>3, <1>6, <2>1 DEF Sound, SameRest, SameTasks
  <1>8. \A y \in Xchgs : \A u : Contains(r[y], u) <=> Contains(f.q[y], u) \/ (y = x /\ u = t)
    BY <1>3 DEF Gains
  <1>9. \A u \in Msgs : ~Contains(f.q[x], u)
    BY DEF Whole, Marked
  <1>10. Marked(g)
    <2> SUFFICES ASSUME NEW y \in Xchgs
                 PROVE  /\ k[y] <=> \E u \in Tasks : Contains(r[y], u)
                        /\ f.mq[y] <=> \E u \in Msgs : Contains(r[y], u)
                        /\ ~(k[y] /\ f.mq[y])
      BY <1>6 DEF Marked
    <2>1. /\ f.tq[y] <=> \E u \in Tasks : Contains(f.q[y], u)
          /\ f.mq[y] <=> \E u \in Msgs : Contains(f.q[y], u)
          /\ ~(f.tq[y] /\ f.mq[y])
      BY DEF Whole, Marked
    <2> QED BY <1>4, <1>8, <2>1, Disjoint
  <1>11. Owners(g)
    <2> SUFFICES ASSUME NEW u \in Msgs, NEW y \in Xchgs
                 PROVE  Contains(r[y], u) =>
                           /\ Mode[y] = "BCST" => (\A v : Contains(r[y], v) => v = u) /\ f.onr[u] # None
                           /\ Mode[y] # "BCST" => f.onr[u] = y
      BY <1>6 DEF Owners, SameRest
    <2>1. Contains(f.q[y], u) =>
             /\ Mode[y] = "BCST" => (\A v : Contains(f.q[y], v) => v = u) /\ f.onr[u] # None
             /\ Mode[y] # "BCST" => f.onr[u] = y
      BY DEF Whole, Owners
    <2>2. u # t
      BY Disjoint
    <2>3. CASE y = x
      BY <1>8, <1>9, <2>1, <2>2, <2>3
    <2>4. CASE y # x
      <3>1. \A v : Contains(r[y], v) <=> Contains(f.q[y], v)
        BY <1>8, <2>4
      <3> QED BY <2>1, <3>1
    <2> QED BY <2>3, <2>4
  <1>12. StaysUp(f, g)
    <2>1. \A y \in Server, u \in Msgs : Contains(g.q[y], u) => Contains(f.q[y], u) /\ g.mpri[u] = f.mpri[u]
      BY <1>6, <1>8, Disjoint, ServerFields DEF SameRest
    <2> QED BY <1>1, <1>6, <2>1, SameServers DEF SameRest
  <1>13. Homes(f, g)
    BY <1>6, <1>8, SameHomes DEF SameRest
  <1> QED BY <1>2, <1>3, <1>6, <1>7, <1>10, <1>11, <1>12, <1>13 DEF Stays, Whole

LEMMA MsgReceiveSteps ==
  ASSUME Sound(e), Whole(e), NEW c \in Callers, NEW x \in Xchgs, MsgReceive(c, x)
  PROVE  /\ Sound(e') /\ Whole(e') /\ Homes(e, e')
         /\ ~(c \in Tasks /\ x \in Server /\ e.mq[x] /\ e'.norm[c] = e.norm[c]) => StaysUp(e, e')
  <1>1. CASE e.mq[x] /\ e' = Take(e, c, x)
    BY <1>1, TakeSteps DEF MsgReceive
  <1>2. CASE ~e.mq[x] /\ c # Lsr /\ e' = Wait(e, c, x)
    <2>1. c \in Tasks /\ Out(e.q, c)
      BY <1>2, CallerIsOut DEF MsgReceive, Callers
    <2> QED BY <1>2, <2>1, WaitStays DEF Stays
  <1> QED BY <1>1, <1>2 DEF MsgReceive

-----------------------------------------------------------------------------
(* Bumping. *)

LEMMA NotAlone ==
  ASSUME NEW S, NEW s \in Seq(S), Injective(s), NEW z \in S, Contains(s, z), s # <<z>>
  PROVE  \E u : Contains(s, u) /\ u # z
  <1> DEFINE w == Without(s, z)
  <1>1. /\ w \in Seq(S) /\ w # <<>>
        /\ \A u : Contains(w, u) <=> Contains(s, u) /\ u # z
    BY WithoutProperties
  <1> HIDE DEF w
  <1>2. Len(w) \in Nat /\ Len(w) # 0
    BY <1>1, LenProperties, EmptySeq
  <1>3. 1 \in 1..Len(w)
    BY <1>2
  <1>4. Contains(w, w[1])
    BY <1>3 DEF Contains
  <1> QED BY <1>1, <1>4

\* smx_MsgBump() clears mq if m was alone in its queue.
LEMMA MsgBumpSteps ==
  ASSUME Sound(e), Whole(e), NEW m \in Msgs, NEW p \in Pris, MsgBump(m, p)
  PROVE  /\ Sound(e') /\ StaysUp(e, e') /\ Homes(e, e')
         /\ (\A x \in Xchgs : e.q[x] # <<m>>) => Whole(e')
  <1> DEFINE a  == [e.mpri EXCEPT ![m] = p]
             f1 == [e EXCEPT !.mpri[m] = p]
  <1>1. e \in MsgType /\ Separate(e.q) /\ Marked(e) /\ Ordered(e.q, Urgency(e)) /\ m \in Things
    BY Disjoint DEF Sound, Whole
  <1>2. /\ e.mpri \in [Msgs -> Pris] /\ e.onr \in [Msgs -> MsgOwners] /\ a \in [Msgs -> Pris]
        /\ a[m] = p /\ \A u \in Msgs : u # m => a[u] = e.mpri[u]
    BY <1>1 DEF MsgType, MsgOwners
  <1>3. f1 = WithMsgs(e, e.onr, a)
    BY <1>1 DEF MsgType, WithMsgs
  <1>4. CASE At(e, m) = {}
    <2>1. e' = f1
      BY <1>4 DEF MsgBump
    <2> HIDE DEF a, f1
    <2>2. MsgsAre(e, f1, e.onr, a)
      BY <1>1, <1>2, <1>3, WithMsgsAre
    <2>3. Stays(e, f1)
      BY <1>1, <1>2, <1>4, <2>2, OutIs, OutStays
    <2> QED BY <2>1, <2>3 DEF Stays
  <1>5. CASE At(e, m) # {}
    <2>1. PICK x \in Xchgs : Contains(e.q[x], m)
      BY <1>1, <1>5, AtIs
    <2>2. (CHOOSE y \in At(e, m) : TRUE) = x
      BY <1>1, <2>1, PlaceOf
    <2> DEFINE f2 == DQMsg(f1, m)
               f3 == PNQMsg(f2, x, m)
               g  == Urged(f3, x, m)
    <2>3. e' = g
      BY <1>5, <2>2, Zenon DEF MsgBump, Urged
    <2> HIDE DEF a, f1
    <2>4. MsgsAre(e, f1, e.onr, a)
      BY <1>1, <1>2, <1>3, WithMsgsAre
    <2>5. /\ f1 \in MsgType /\ f1.q = e.q /\ f1.tq = e.tq /\ f1.mq = e.mq /\ f1.onr = e.onr
          /\ f1.mpri = a /\ SameTasks(e, f1)
      BY <2>4 DEF MsgsAre
    <2>6. Marked(f1) /\ Separate(f1.q)
      BY <1>1, <2>5 DEF Marked
    <2>7. At(f1, m) # {}
      BY <2>1, <2>5, AtIs
    <2>8. Dequeued(f1, f2, m) /\ f2.tq = f1.tq
      BY <2>5, <2>6, <2>7, DQMsgDequeues
    <2> HIDE DEF f2
    <2>9. /\ f2 \in MsgType /\ Marked(f2) /\ Separate(f2.q) /\ Drops(e.q, f2.q, m)
          /\ SameRest(f1, f2)
      BY <2>5, <2>8 DEF Dequeued, Drops
    <2>10. Ordered(f2.q, Urgency(f2))
      <3>1. \A u \in Things \ {m} : Urgency(f2)[u] = Urgency(e)[u]
        BY <1>2, <2>5, <2>9 DEF Urgency, Pri, Things, SameRest, SameTasks
      <3>2. Ordered(f1.q, Urgency(e))
        BY <1>1, <2>5
      <3> QED BY <2>8, <3>1, <3>2 DEF Dequeued
    <2>11. Out(f2.q, m)
      BY <2>9 DEF Out, Drops
    <2>12. /\ f3 \in MsgType /\ f3.tq = f2.tq /\ f3.mq = f2.mq /\ SameRest(f2, f3)
           /\ Separate(f3.q) /\ Gains(f2.q, f3.q, x, m) /\ Ordered(f3.q, Urgency(f3))
      BY <2>9, <2>10, <2>11, PNQMsgPuts
    <2> HIDE DEF f3
    <2>13. Urges(f3, g, x, m)
      BY <2>12, UrgedUrges
    <2> HIDE DEF g
    <2>14. \A y \in Xchgs : \A u : Contains(g.q[y], u) <=> Contains(e.q[y], u)
      <3>1. \A y \in Xchgs : Contains(e.q[y], m) => y = x
        BY <1>1, <2>1 DEF Separate
      <3> QED BY <2>1, <2>9, <2>12, <2>13, <3>1 DEF Urges, Alike, Gains, Drops
    <2>15. /\ g \in MsgType /\ Separate(g.q) /\ Ordered(g.q, Urgency(g))
           /\ g.tq = e.tq /\ g.mq = f2.mq /\ g.xonr = e.xonr /\ g.onr = e.onr /\ g.mpri = a
           /\ f3.pri = e.pri
      BY <2>5, <2>8, <2>9, <2>12, <2>13 DEF Urges, SameRest, SameTasks
    <2>16. Sound(g)
      BY <2>15 DEF Sound
    <2>17. StaysUp(e, g)
      <3>1. /\ \A u \in Msgs : u # m => g.mpri[u] = e.mpri[u]
            /\ \A y \in Xchgs : \A u \in Msgs : u # m /\ Contains(g.q[y], u) => Contains(e.q[y], u)
            /\ Contains(g.q[x], m)
        BY <1>2, <2>1, <2>14, <2>15
      <3>2. \A t \in Tasks : g.pri[t] >= e.pri[t]
        BY <2>13, <2>15 DEF Urges
      <3>3. x \in Server /\ g.xonr[x] # None => /\ g.pri[g.xonr[x]] >= g.mpri[m]
                                                /\ g.norm[g.xonr[x]] >= g.mpri[m]
        BY <2>13 DEF Urges
      <3> QED BY <1>1, <2>15, <3>1, <3>2, <3>3, UrgedStaysUp
    <2>18. ASSUME e.q[x] # <<m>> PROVE Whole(g)
      <3>1. e.q[x] \in Seq(Things) /\ Injective(e.q[x])
        BY <1>1 DEF Separate
      <3>2. PICK u : Contains(e.q[x], u) /\ u # m
        BY <1>1, <2>1, <2>18, <3>1, NotAlone
      <3>3. u \in Msgs
        <4>1. u \in Things
          BY <1>1, <3>2, InThings
        <4> QED BY <1>1, <2>1, <3>2, <4>1 DEF Marked, Things
      <3>4. f2.mq[x]
        BY <2>9, <3>2, <3>3 DEF Marked, Drops
      <3>5. Marked(g)
        <4> SUFFICES ASSUME NEW y \in Xchgs
                     PROVE  /\ e.tq[y] <=> \E t \in Tasks : Contains(e.q[y], t)
                            /\ f2.mq[y] <=> \E v \in Msgs : Contains(e.q[y], v)
                            /\ ~(e.tq[y] /\ f2.mq[y])
          BY <2>14, <2>15 DEF Marked
        <4>1. /\ e.tq[y] <=> \E t \in Tasks : Contains(e.q[y], t)
              /\ e.mq[y] <=> \E v \in Msgs : Contains(e.q[y], v)
              /\ ~(e.tq[y] /\ e.mq[y])
          BY <1>1 DEF Marked
        <4>2. CASE y = x
          BY <2>1, <3>4, <4>1, <4>2
        <4>3. CASE y # x
          <5>1. ~Contains(e.q[y], m)
            BY <1>1, <2>1, <4>3 DEF Separate
          <5>2. \A v : Contains(f2.q[y], v) <=> Contains(e.q[y], v)
            BY <2>9, <5>1 DEF Drops
          <5> QED BY <2>9, <4>1, <5>2 DEF Marked
        <4> QED BY <4>2, <4>3
      <3>6. Owners(g)
        BY <2>14, <2>15, OwnersKept DEF Whole
      <3> QED BY <2>15, <3>5, <3>6 DEF Whole
    <2>19. Homes(e, g)
      BY <2>14, <2>15, SameHomes
    <2> QED BY <2>3, <2>16, <2>17, <2>18, <2>19
  <1> QED BY <1>4, <1>5

-----------------------------------------------------------------------------
(* The theorems. *)

LEMMA IntactNow ==
  ASSUME e \in MsgType
  PROVE  Intact <=> Whole(e) /\ Placed(e)
  BY IntactIs DEF Intact, FlagsTrue, PlacesTrue, FlagsTrueIn, PlacesTrueIn, OwnersTrueIn, PlacedIn

\* ServersKeepUp, of any such data f.
ServersUp(f) ==
    \A x \in Server : (f.xonr[x] # None /\ f.mq[x]) =>
        /\ f.pri[f.xonr[x]] >= f.mpri[Head(f.q[x])]
        /\ f.norm[f.xonr[x]] >= f.mpri[Head(f.q[x])]

LEMMA ServersUpIs ==
  ASSUME NEW f, Sound(f), Whole(f)
  PROVE  ServersUp(f) <=> KeepsUp(f)
  <1>1. f \in MsgType /\ Separate(f.q) /\ Marked(f) /\ Ordered(f.q, Urgency(f))
    BY DEF Sound, Whole
  <1>2. ASSUME KeepsUp(f) PROVE ServersUp(f)
    <2> SUFFICES ASSUME NEW x \in Server, f.xonr[x] # None, f.mq[x]
                 PROVE  /\ f.pri[f.xonr[x]] >= f.mpri[Head(f.q[x])]
                        /\ f.norm[f.xonr[x]] >= f.mpri[Head(f.q[x])]
      BY DEF ServersUp
    <2>1. Head(f.q[x]) \in Msgs /\ Contains(f.q[x], Head(f.q[x]))
      BY <1>1, HeadIs, ServerFields
    <2> QED BY <1>2, <2>1 DEF KeepsUp
  <1>3. ASSUME ServersUp(f) PROVE KeepsUp(f)
    <2> SUFFICES ASSUME NEW x \in Server, NEW m \in Msgs, f.xonr[x] # None, Contains(f.q[x], m)
                 PROVE  f.pri[f.xonr[x]] >= f.mpri[m] /\ f.norm[f.xonr[x]] >= f.mpri[m]
      BY DEF KeepsUp
    <2> DEFINE t == f.xonr[x]
               h == Head(f.q[x])
    <2>1. x \in Xchgs /\ Mode[x] # "BCST" /\ t \in Tasks
      BY <1>1, ServerFields
    <2>2. f.mq[x]
      BY <1>1, <2>1 DEF Marked
    <2>3. h \in Msgs
      BY <1>1, <2>1, <2>2, HeadIs
    <2>4. f.mpri[h] >= f.mpri[m]
      BY <1>1, <2>1, <2>3, HeadFirst
    <2>5. f.pri[t] >= f.mpri[h] /\ f.norm[t] >= f.mpri[h]
      BY <1>3, <2>2 DEF ServersUp
    <2>6. f.pri[t] \in Nat /\ f.norm[t] \in Nat /\ f.mpri[h] \in Nat /\ f.mpri[m] \in Nat
      BY <1>1, <2>1, <2>3, TaskFields, MsgFields
    <2> HIDE DEF t, h
    <2>7. f.pri[t] >= f.mpri[m] /\ f.norm[t] >= f.mpri[m]
      BY <2>4, <2>5, <2>6
    <2> QED BY <2>7 DEF t
  <1> QED BY <1>2, <1>3

BumpedAlone == \E x \in Xchgs, m \in Msgs, p \in Pris : e.q[x] = <<m>> /\ MsgBump(m, p)

FreedBroadcast == \E x \in Xchgs, t \in Tasks : /\ Mode[x] = "BCST"
                                                /\ \E m \in Range(e.q[x]) : e.onr[m] = t
                                                /\ MsgRelAll(t)

ReceivedAtPrinorm == \E t \in Tasks, x \in Server : /\ MsgReceive(t, x)
                                                    /\ e.mq[x]
                                                    /\ e'.norm[t] = e.norm[t]

LsrStrays == \E m \in Msgs, x \in Xchgs, p \in Pris : /\ Mode[x] = "BCST"
                                                       /\ e.onr[m] \in Xchgs
                                                       /\ MsgSend(Lsr, m, x, p)

\* What any step does.
StepIs == /\ Sound(e')
          /\ (Whole(e') /\ Placed(e')) \/ BumpedAlone \/ FreedBroadcast
          /\ Homes(e, e') \/ LsrStrays
          /\ StaysUp(e, e') \/ ReceivedAtPrinorm

LEMMA MsgStep ==
  ASSUME Sound(e), Whole(e), Placed(e), MsgCall \/ XchgCall \/ TaskCall
  PROVE  StepIs
  <1>0. Stays(e, e') => StepIs
    BY HomesKeep DEF Stays, StepIs
  <1>1. ASSUME NEW m \in Msgs, NEW c \in Callers, MsgGet(c, m) PROVE StepIs
    BY <1>0, <1>1, MsgGetStays
  <1>2. ASSUME NEW m \in Msgs, NEW c \in Callers, MsgRel(c, m) PROVE StepIs
    BY <1>0, <1>2, MsgRelStays
  <1>3. ASSUME NEW m \in Msgs, NEW p \in Pris, MsgBump(m, p) PROVE StepIs
    BY <1>3, MsgBumpSteps, HomesKeep DEF StepIs, BumpedAlone
  <1>4. ASSUME NEW x \in Xchgs, MsgXchgClear(x) PROVE StepIs
    BY <1>0, <1>4, MsgXchgClearStays
  <1>5. ASSUME NEW x \in Xchgs, NEW c \in Callers, MsgReceive(c, x) PROVE StepIs
    BY <1>5, MsgReceiveSteps, HomesKeep DEF StepIs, ReceivedAtPrinorm
  <1>6. ASSUME NEW x \in Xchgs, NEW c \in Callers, NEW m \in Msgs, NEW p \in Pris, MsgSend(c, m, x, p)
        PROVE  StepIs
    <2>1. /\ StaysBut(e, e', m)
          /\ Settled(e, e', m) \/ (Strays(c, m, x) /\ Contains(e'.q[x], m))
      BY <1>6, MsgSendSteps
    <2>2. CASE Settled(e, e', m)
      BY <1>0, <2>1, <2>2 DEF StaysBut, Stays, Homes
    <2>3. CASE Strays(c, m, x) /\ Contains(e'.q[x], m)
      <3>1. LsrStrays
        BY <1>6, <2>3 DEF Strays, LsrStrays
      <3>2. ASSUME NEW u \in Msgs, e'.onr[u] \in Xchgs PROVE \E y \in Xchgs : Contains(e'.q[y], u)
        BY <2>1, <2>3, <3>2 DEF StaysBut, Settled, Placed
      <3> QED BY <2>1, <3>1, <3>2 DEF StaysBut, StepIs, Placed
    <2> QED BY <2>1, <2>2, <2>3
  <1>7. ASSUME NEW t \in Tasks, MsgRelAll(t) PROVE StepIs
    <2>1. \A x \in Xchgs : \A u : u \in Range(e.q[x]) <=> Contains(e.q[x], u)
      BY RangeIs DEF Sound
    <2> QED BY <1>7, <2>1, MsgRelAllSteps, HomesKeep DEF StepIs, FreedBroadcast
  <1>8. ASSUME NEW t \in Tasks, MutexGet(t) PROVE StepIs
    BY <1>0, <1>8, MutexGetStays
  <1>9. ASSUME NEW t \in Tasks, MutexRel(t) PROVE StepIs
    BY <1>0, <1>9, MutexRelStays
  <1>10. ASSUME NEW t \in Tasks, NEW p \in Pris, Withdraw(t, p) PROVE StepIs
    BY <1>0, <1>10, WithdrawStays
  <1>11. ASSUME NEW t \in Tasks, NEW p \in Pris, TaskBump(t, p) PROVE StepIs
    BY <1>0, <1>11, TaskBumpStays
  <1>12. ASSUME NEW t \in Tasks, NEW p \in Pris, MutexPromote(t, p) PROVE StepIs
    BY <1>0, <1>12, MutexPromoteStays
  <1> QED BY <1>1, <1>2, <1>3, <1>4, <1>5, <1>6, <1>7, <1>8, <1>9, <1>10, <1>11, <1>12
          DEF MsgCall, XchgCall, TaskCall

LEMMA MsgInitSound ==
  ASSUME MsgInit
  PROVE  Sound(e)
  <1>1. e \in MsgType
    <2>1. <<>> \in Seq(Msgs \union Tasks) /\ 0 \in Pris
      BY ZeroIsAPriority
    <2> QED BY <2>1 DEF MsgInit, MsgType
  <1>2. \A x \in Xchgs : e.q[x] = <<>> /\ e.xonr[x] = None
    BY DEF MsgInit
  <1>3. Ordered(e.q, Urgency(e))
    BY <1>2 DEF Ordered, Descending
  <1> QED BY <1>1, <1>2, <1>3 DEF Sound

\* The action properties, and what is kept.
LEMMA MsgNextStep ==
  ASSUME Sound(e), MsgNext
  PROVE  /\ Sound(e')
         /\ Intact /\ ~Intact' => BumpedAlone \/ FreedBroadcast
         /\ e' = e \/ Astray' \subseteq Astray \/ LsrStrays
         /\ ServersKeepUp /\ ~ServersKeepUp' /\ Intact /\ Intact' =>
              (\E t \in Tasks : e'.norm[t] < e.norm[t]) \/ ReceivedAtPrinorm
  <1>1. e \in MsgType /\ (Intact <=> Whole(e) /\ Placed(e))
    BY IntactNow DEF Sound
  <1>2. CASE ~Intact
    BY <1>2 DEF MsgNext
  <1>3. CASE Intact
    <2>1. Whole(e) /\ StepIs
      BY <1>1, <1>3, MsgStep DEF MsgNext
    <2>2. e' \in MsgType /\ Sound(e')
      BY <2>1 DEF StepIs, Sound
    <2>3. Intact' <=> Whole(e') /\ Placed(e')
      BY <2>2, IntactIs
         DEF Intact, FlagsTrue, PlacesTrue, FlagsTrueIn, PlacesTrueIn, OwnersTrueIn, PlacedIn, At
    <2>4. ASSUME ServersKeepUp, ~ServersKeepUp', Intact', ~ReceivedAtPrinorm
          PROVE  \E t \in Tasks : e'.norm[t] < e.norm[t]
      <3>1. ServersUp(e) /\ ~ServersUp(e')
        BY <2>4 DEF ServersKeepUp, ServersUp
      <3>2. KeepsUp(e) /\ ~KeepsUp(e')
        BY <2>1, <2>2, <2>3, <2>4, <3>1, ServersUpIs
      <3>3. ~NormRaised(e, e')
        BY <2>1, <2>4, <3>2 DEF StepIs, StaysUp
      <3>4. PICK t \in Tasks : ~(e'.norm[t] >= e.norm[t])
        BY <3>3 DEF NormRaised
      <3>5. e.norm[t] \in Nat /\ e'.norm[t] \in Nat
        BY <1>1, <2>2, TaskFields
      <3>6. e'.norm[t] < e.norm[t]
        BY <3>4, <3>5
      <3> QED BY <3>6
    <2>5. Homes(e, e') => Astray' \subseteq Astray
      <3>1. \A x \in Xchgs : \A u : /\ u \in Range(e.q[x]) <=> Contains(e.q[x], u)
                                   /\ u \in Range(e'.q[x]) <=> Contains(e'.q[x], u)
        BY <1>1, <2>2, RangeIs
      <3> SUFFICES ASSUME Homes(e, e'), NEW m \in Msgs, e'.onr[m] \in Xchgs,
                          m \notin Range(e'.q[e'.onr[m]])
                   PROVE  e.onr[m] \in Xchgs /\ m \notin Range(e.q[e.onr[m]])
        BY DEF Astray
      <3>2. Settled(e, e', m) /\ ~Contains(e'.q[e'.onr[m]], m)
        BY <3>1 DEF Homes
      <3>3. e.onr[m] = e'.onr[m] /\ ~Contains(e.q[e.onr[m]], m)
        BY <3>2 DEF Settled
      <3>4. e.onr[m] \in Xchgs
        BY <3>3
      <3>5. m \in Range(e.q[e.onr[m]]) <=> Contains(e.q[e.onr[m]], m)
        BY <1>1, <3>4, RangeIs
      <3> QED BY <3>3, <3>4, <3>5
    <2> QED BY <1>3, <2>1, <2>2, <2>3, <2>4, <2>5 DEF StepIs
  <1> QED BY <1>2, <1>3

LEMMA InOrder ==
  ASSUME Sound(e)
  PROVE  MostUrgentFirst
  <1> SUFFICES ASSUME NEW x \in Xchgs, Mode[x] # "BCST", NEW i \in 1..Len(e.q[x]) - 1
               PROVE  Pri(e, e.q[x][i]) >= Pri(e, e.q[x][i + 1])
    BY DEF MostUrgentFirst
  <1> DEFINE s == e.q[x]
  <1>1. s \in Seq(Things) /\ Descending(s, Urgency(e))
    BY QueueType DEF Sound, Ordered
  <1> HIDE DEF s
  <1>2. Len(s) \in Nat /\ \A j \in 1..Len(s) : s[j] \in Things
    BY <1>1, LenProperties, ElementOfSeq
  <1>3. i \in 1..Len(s) /\ i + 1 \in 1..Len(s) /\ i < i + 1
    BY <1>2 DEF s
  <1>4. Urgency(e)[s[i]] >= Urgency(e)[s[i + 1]]
    BY <1>1, <1>3 DEF Descending
  <1> QED BY <1>2, <1>3, <1>4 DEF Urgency, s

\* The inductive invariant is about the data and the order only: what is left of
\* an exchange that is not intact has the order, too.
LEMMA MsgSound == MsgSpec => []Sound(e)
  <1>1. MsgInit => Sound(e)
    BY MsgInitSound
  <1>2. Sound(e) /\ [MsgNext]_e => Sound(e)'
    BY MsgNextStep
  <1> QED BY <1>1, <1>2, PTL DEF MsgSpec

\* The data of messages and exchanges keep their types, and only an exchange
\* created with pi has a server.
THEOREM MessagesTyped == MsgSpec => []MsgTypeOK
  <1>1. Sound(e) => MsgTypeOK
    BY DEF Sound, MsgTypeOK
  <1> QED BY <1>1, MsgSound, PTL

\* Messages and tasks wait with the most urgent first: smx_MsgSend(),
\* smx_MsgBump(), smx_ReQTask() and the rest keep the order of every queue.
THEOREM MessagesInOrder == MsgSpec => []MostUrgentFirst
  BY InOrder, MsgSound, PTL

\* Only smx_MsgBump() of a message that is alone in its queue, and
\* smx_MsgRelAll() of a task whose broadcast is in a queue, leave an exchange
\* whose flags or owners are wrong; and only an LSR that broadcasts a message
\* waiting at an exchange leaves that exchange its owner.
THEOREM ExchangesBreakByThese == MsgSpec => OnlyTheseBreakExchanges
  <1>1. Sound(e) /\ [MsgNext]_e =>
          [/\ Intact /\ ~Intact' =>
                 \/ \E x \in Xchgs, m \in Msgs, p \in Pris : e.q[x] = <<m>> /\ MsgBump(m, p)
                 \/ \E x \in Xchgs, t \in Tasks : /\ Mode[x] = "BCST"
                                                  /\ \E m \in Range(e.q[x]) : e.onr[m] = t
                                                  /\ MsgRelAll(t)
           /\ \/ Astray' \subseteq Astray
              \/ \E m \in Msgs, x \in Xchgs, p \in Pris : /\ Mode[x] = "BCST"
                                                          /\ e.onr[m] \in Xchgs
                                                          /\ MsgSend(Lsr, m, x, p)]_e
    BY MsgNextStep DEF BumpedAlone, FreedBroadcast, LsrStrays
  <1> QED BY <1>1, MsgSound, PTL DEF MsgSpec, OnlyTheseBreakExchanges

\* A server of an exchange falls behind the messages that wait for it only when
\* a prinorm is lowered, or when smx_MsgReceive_F() leaves prinorm as it was.
THEOREM ServersFallBehindTwice == MsgSpec => OnlyTheseFallBehind
  <1>1. Sound(e) /\ [MsgNext]_e =>
          [ServersKeepUp /\ ~ServersKeepUp' /\ Intact /\ Intact' =>
             \/ \E t \in Tasks : e'.norm[t] < e.norm[t]
             \/ \E t \in Tasks, x \in Server : /\ MsgReceive(t, x)
                                               /\ e.mq[x]
                                               /\ e'.norm[t] = e.norm[t]]_e
    BY MsgNextStep DEF ReceivedAtPrinorm
  <1> QED BY <1>1, MsgSound, PTL DEF MsgSpec, OnlyTheseFallBehind

-----------------------------------------------------------------------------
(* Pipes: pointers. *)

LEMMA ModLength ==
  ASSUME NEW a \in Nat, a < Length + Length
  PROVE  a % Length = IF a < Length THEN a ELSE a - Length
  BY PipeAssumption

\* A pointer moved on by at most the length of the pipe.
LEMMA AfterIs ==
  ASSUME NEW i \in Cells, NEW n \in 0..Length
  PROVE  /\ After(i, n) = IF i + n < Length THEN i + n ELSE i + n - Length
         /\ After(i, n) \in Cells
  <1> DEFINE a == i + n
  <1>1. Length \in Nat /\ Length > 0 /\ i \in Nat /\ n \in Nat /\ i < Length /\ n <= Length
    BY PipeAssumption DEF Cells
  <1>2. a \in Nat /\ a < Length + Length
    BY <1>1
  <1>3. After(i, n) = a % Length
    BY DEF After
  <1> HIDE DEF a
  <1>4. a % Length = IF a < Length THEN a ELSE a - Length
    BY <1>2, ModLength
  <1> QED BY <1>1, <1>3, <1>4 DEF Cells, a

LEMMA DistanceIs ==
  ASSUME NEW i \in Cells, NEW j \in Cells
  PROVE  /\ Distance(i, j) = IF i <= j THEN j - i ELSE j + Length - i
         /\ Distance(i, j) \in Cells
  <1> DEFINE a == j + Length - i
  <1>1. Length \in Nat /\ Length > 0 /\ i \in Nat /\ j \in Nat /\ i < Length /\ j < Length
    BY PipeAssumption DEF Cells
  <1>2. a \in Nat /\ a < Length + Length
    BY <1>1
  <1>3. Distance(i, j) = a % Length
    BY DEF Distance
  <1> HIDE DEF a
  <1>4. a % Length = IF a < Length THEN a ELSE a - Length
    BY <1>2, ModLength
  <1> QED BY <1>1, <1>3, <1>4 DEF Cells, a

-----------------------------------------------------------------------------
(* The buffer. *)

PipeType == [rp : Cells, wp : Cells, full : BOOLEAN, queue : Seq(Tasks), cell : [Cells -> Packets]]

\* The packets of s lie between the pointers of p; and the flag is right too.
Carries(p, s) == /\ Len(s) <= Length
               /\ p.wp = After(p.rp, Len(s))
               /\ \A i \in 1..Len(s) : p.cell[After(p.rp, i - 1)] = s[i]

Exactly(p, s) == Carries(p, s) /\ (p.full <=> Len(s) = Length)

LEMMA LengthType == Length \in Nat /\ Length > 0 /\ 0 \in Cells /\ Length - 1 \in Nat
  BY PipeAssumption DEF Cells

LEMMA StoreIs ==
  ASSUME NEW p \in PipeType, NEW s \in Seq(Packets), Len(s) <= Length
  PROVE  LET r == Store(p, s)
         IN  /\ r \in PipeType
             /\ r.rp = p.rp /\ r.full = p.full /\ r.queue = p.queue
             /\ r.wp = After(p.wp, Len(s))
             /\ \A i \in Cells : r.cell[i] = IF Distance(p.wp, i) + 1 <= Len(s)
                                             THEN s[Distance(p.wp, i) + 1] ELSE p.cell[i]
  <1> DEFINE cell2 == [i \in Cells |-> IF Distance(p.wp, i) + 1 <= Len(s)
                                       THEN s[Distance(p.wp, i) + 1] ELSE p.cell[i]]
             wp2 == After(p.wp, Len(s))
  <1>1. /\ p.wp \in Cells /\ p.cell \in [Cells -> Packets] /\ Len(s) \in 0..Length
        /\ \A i \in 1..Len(s) : s[i] \in Packets
    BY LengthType, LenProperties, ElementOfSeq DEF PipeType
  <1>2. wp2 \in Cells
    BY <1>1, AfterIs
  <1>3. ASSUME NEW i \in Cells
        PROVE  (IF Distance(p.wp, i) + 1 <= Len(s) THEN s[Distance(p.wp, i) + 1] ELSE p.cell[i])
                 \in Packets
    <2>1. Distance(p.wp, i) \in Nat
      <3>1. Distance(p.wp, i) \in Cells
        BY <1>1, DistanceIs
      <3> QED BY <3>1, LengthType DEF Cells
    <2>2. CASE Distance(p.wp, i) + 1 <= Len(s)
      <3> DEFINE d == Distance(p.wp, i)
      <3> HIDE DEF d
      <3>1. d \in Nat /\ d + 1 <= Len(s) /\ Len(s) \in Nat
        BY <1>1, <2>1, <2>2 DEF d
      <3>2. d + 1 \in 1..Len(s)
        BY <3>1
      <3>3. s[d + 1] \in Packets
        BY <3>2, <1>1
      <3> QED BY <2>2, <3>3 DEF d
    <2>3. CASE ~(Distance(p.wp, i) + 1 <= Len(s))
      BY <2>3, <1>1
    <2> QED BY <2>2, <2>3
  <1>4. cell2 \in [Cells -> Packets]
    BY <1>3
  <1>5. Store(p, s) = [p EXCEPT !.cell = cell2, !.wp = wp2]
    BY DEF Store, PipeType
  <1>6. \A i \in Cells : cell2[i] = IF Distance(p.wp, i) + 1 <= Len(s)
                                    THEN s[Distance(p.wp, i) + 1] ELSE p.cell[i]
    OBVIOUS
  <1> HIDE DEF cell2, wp2
  <1>7. [p EXCEPT !.cell = cell2, !.wp = wp2] \in PipeType
    BY <1>2, <1>4 DEF PipeType
  <1>8. LET r == [p EXCEPT !.cell = cell2, !.wp = wp2]
        IN  /\ r.rp = p.rp /\ r.full = p.full /\ r.queue = p.queue /\ r.wp = wp2
            /\ r.cell = cell2
    BY DEF PipeType
  <1> QED BY <1>5, <1>6, <1>7, <1>8 DEF wp2

\* Packets put in behind those of k.
LEMMA StoreHolds ==
  ASSUME NEW p \in PipeType, NEW k \in Seq(Packets), Carries(p, k),
         NEW s \in Seq(Packets), Len(k) + Len(s) <= Length
  PROVE  Carries(Store(p, s), k \o s)
  <1> DEFINE r  == Store(p, s)
             ks == k \o s
             n  == Len(k)
             m  == Len(s)
  <1>1. n \in Nat /\ m \in Nat /\ n + m <= Length
    BY LenProperties
  <1>2. /\ Length \in Nat /\ Length > 0 /\ p.rp \in Cells /\ p.wp \in Cells
        /\ p.rp \in Nat /\ p.rp < Length /\ p.wp \in Nat /\ p.wp < Length
    BY LengthType DEF PipeType, Cells
  <1>3. /\ r \in PipeType /\ r.rp = p.rp /\ r.wp = After(p.wp, m)
        /\ \A i \in Cells : r.cell[i] = IF Distance(p.wp, i) + 1 <= m
                                        THEN s[Distance(p.wp, i) + 1] ELSE p.cell[i]
    <2>1. Len(s) <= Length
      BY <1>1, <1>2
    <2> QED BY <2>1, StoreIs
  <1>4. /\ ks \in Seq(Packets) /\ Len(ks) = n + m
        /\ \A i \in 1..n + m : ks[i] = IF i <= n THEN k[i] ELSE s[i - n]
    BY ConcatProperties
  <1>5. p.wp = IF p.rp + n < Length THEN p.rp + n ELSE p.rp + n - Length
    <2>1. p.wp = After(p.rp, n) /\ n \in 0..Length
      BY <1>1, <1>2 DEF Carries
    <2> QED BY <2>1, <1>2, AfterIs
  <1> HIDE DEF r, ks
  <1>6. \A i \in 1..n : p.cell[After(p.rp, i - 1)] = k[i]
    BY DEF Carries
  <1> HIDE DEF n, m
  <1>7. r.wp = After(r.rp, n + m)
    <2>1. m \in 0..Length /\ n + m \in 0..Length
      BY <1>1, <1>2
    <2>2. r.wp = IF p.wp + m < Length THEN p.wp + m ELSE p.wp + m - Length
      BY <1>2, <1>3, <2>1, AfterIs
    <2>3. After(p.rp, n + m) = IF p.rp + (n + m) < Length THEN p.rp + (n + m)
                               ELSE p.rp + (n + m) - Length
      BY <1>2, <2>1, AfterIs
    <2> QED BY <1>1, <1>2, <1>3, <1>5, <2>2, <2>3
  <1>8. ASSUME NEW i \in 1..n + m PROVE r.cell[After(r.rp, i - 1)] = ks[i]
    <2> DEFINE c == After(p.rp, i - 1)
               d == Distance(p.wp, c)
    <2>1. i \in Nat /\ i >= 1 /\ i <= n + m /\ i - 1 \in 0..Length
      BY <1>1, <1>2
    <2>2. c \in Cells /\ c = IF p.rp + (i - 1) < Length THEN p.rp + (i - 1)
                             ELSE p.rp + (i - 1) - Length
      BY <1>2, <2>1, AfterIs
    <2> HIDE DEF c
    <2>3. d = IF p.wp <= c THEN c - p.wp ELSE c + Length - p.wp
      BY <1>2, <2>2, DistanceIs
    <2>4. r.cell[c] = IF d + 1 <= m THEN s[d + 1] ELSE p.cell[c]
      BY <1>3, <2>2
    <2> HIDE DEF d
    <2>5. CASE i <= n
      <3>1. d = Length - n + (i - 1)
        BY <1>1, <1>2, <1>5, <2>1, <2>2, <2>3, <2>5
      <3>2. ~(d + 1 <= m)
        BY <3>1, <1>1, <1>2, <2>1
      <3>3. r.cell[c] = k[i]
        BY <1>6, <2>1, <2>4, <2>5, <3>2, <1>1 DEF c
      <3> QED BY <1>3, <1>4, <2>5, <3>3 DEF c
    <2>6. CASE ~(i <= n)
      <3>1. d = i - n - 1
        <4>1. i - 1 >= n
          BY <1>1, <2>1, <2>6
        <4>2. CASE p.rp + (i - 1) < Length
          <5>1. c = p.rp + (i - 1) /\ p.wp = p.rp + n
            BY <1>1, <1>2, <1>5, <2>1, <2>2, <4>1, <4>2
          <5> QED BY <5>1, <1>1, <1>2, <2>1, <2>3, <4>1
        <4>3. CASE ~(p.rp + (i - 1) < Length) /\ p.rp + n < Length
          <5>1. c = p.rp + (i - 1) - Length /\ p.wp = p.rp + n
            BY <1>5, <2>2, <4>3
          <5>2. ~(p.wp <= c)
            BY <5>1, <1>1, <1>2, <2>1
          <5> QED BY <5>1, <5>2, <1>1, <1>2, <2>1, <2>3
        <4>4. CASE ~(p.rp + (i - 1) < Length) /\ ~(p.rp + n < Length)
          <5>1. c = p.rp + (i - 1) - Length /\ p.wp = p.rp + n - Length
            BY <1>5, <2>2, <4>4
          <5> QED BY <5>1, <1>1, <1>2, <2>1, <2>3, <4>1
        <4> QED BY <4>2, <4>3, <4>4
      <3>2. d + 1 <= m /\ d + 1 = i - n
        BY <3>1, <1>1, <2>1
      <3>3. r.cell[c] = s[i - n]
        BY <2>4, <3>2
      <3> QED BY <1>3, <1>4, <2>6, <3>3 DEF c
    <2> QED BY <2>5, <2>6
  <1>9. Carries(r, ks)
    BY <1>1, <1>4, <1>7, <1>8 DEF Carries
  <1> QED BY <1>9 DEF r, ks

\* Packets taken out at the front.
LEMMA SkipIs ==
  ASSUME NEW p \in PipeType, NEW n \in 0..Length
  PROVE  /\ Skip(p, n) \in PipeType
         /\ Skip(p, n).rp = After(p.rp, n) /\ Skip(p, n).wp = p.wp
         /\ Skip(p, n).full = p.full /\ Skip(p, n).queue = p.queue
         /\ Skip(p, n).cell = p.cell
  <1> DEFINE rp2 == After(p.rp, n)
  <1>1. rp2 \in Cells
    BY AfterIs DEF PipeType
  <1>2. Skip(p, n) = [p EXCEPT !.rp = rp2]
    BY DEF Skip, PipeType
  <1> HIDE DEF rp2
  <1> QED BY <1>1, <1>2 DEF PipeType, rp2

LEMMA RestIs ==
  ASSUME NEW k \in Seq(Packets), NEW n \in Nat
  PROVE  /\ Rest(k, n) \in Seq(Packets)
         /\ n <= Len(k) => /\ Len(Rest(k, n)) = Len(k) - n
                           /\ \A i \in 1..Len(k) - n : Rest(k, n)[i] = k[n + i]
         /\ n > Len(k) => Rest(k, n) = <<>>
  <1>1. Len(k) \in Nat /\ \A i \in 1..Len(k) : k[i] \in Packets
    BY LenProperties, ElementOfSeq
  <1>2. \A i \in n + 1..Len(k) : k[i] \in Packets
    BY <1>1
  <1>3. n + 1 \in Int /\ Len(k) \in Int
    BY <1>1
  <1>4. /\ SubSeq(k, n + 1, Len(k)) \in Seq(Packets)
        /\ Len(SubSeq(k, n + 1, Len(k))) = IF n + 1 <= Len(k) THEN Len(k) - (n + 1) + 1 ELSE 0
        /\ \A i \in 1..Len(k) - (n + 1) + 1 : SubSeq(k, n + 1, Len(k))[i] = k[n + 1 + i - 1]
    BY <1>2, <1>3, SubSeqProperties
  <1> DEFINE r == SubSeq(k, n + 1, Len(k))
  <1>5. Rest(k, n) = r
    BY DEF Rest
  <1>6. /\ r \in Seq(Packets)
        /\ Len(r) = IF n + 1 <= Len(k) THEN Len(k) - (n + 1) + 1 ELSE 0
        /\ \A i \in 1..Len(k) - (n + 1) + 1 : r[i] = k[n + 1 + i - 1]
    BY <1>4
  <1> HIDE DEF r
  <1>7. n <= Len(k) => /\ Len(r) = Len(k) - n
                       /\ \A i \in 1..Len(k) - n : r[i] = k[n + i]
    BY <1>1, <1>6
  <1>8. n > Len(k) => r = <<>>
    BY <1>1, <1>6, EmptySeq
  <1> QED BY <1>5, <1>6, <1>7, <1>8

LEMMA SkipHolds ==
  ASSUME NEW p \in PipeType, NEW k \in Seq(Packets), Carries(p, k), NEW n \in 0..Len(k)
  PROVE  Carries(Skip(p, n), Rest(k, n))
  <1> DEFINE l == Len(k)
  <1>1. l \in Nat /\ l <= Length /\ n \in Nat /\ n <= l
    BY LenProperties DEF Carries
  <1>2. /\ Length \in Nat /\ Length > 0 /\ p.rp \in Cells /\ p.wp \in Cells
        /\ p.rp \in Nat /\ p.rp < Length
    BY LengthType DEF PipeType, Cells
  <1>3. /\ Len(Rest(k, n)) = l - n
        /\ \A i \in 1..l - n : Rest(k, n)[i] = k[n + i]
    BY <1>1, RestIs
  <1>4. n \in 0..Length
    BY <1>1, <1>2
  <1>5. /\ Skip(p, n).rp = After(p.rp, n) /\ Skip(p, n).wp = p.wp
        /\ Skip(p, n).cell = p.cell
    BY <1>4, SkipIs
  <1> DEFINE rp2 == After(p.rp, n)
  <1>6. rp2 \in Cells /\ rp2 \in Nat /\ rp2 < Length
        /\ rp2 = IF p.rp + n < Length THEN p.rp + n ELSE p.rp + n - Length
    <2>1. rp2 \in Cells /\ rp2 = IF p.rp + n < Length THEN p.rp + n ELSE p.rp + n - Length
      BY <1>2, <1>4, AfterIs
    <2> HIDE DEF rp2
    <2> QED BY <2>1, <1>2 DEF Cells
  <1> HIDE DEF rp2
  <1>7. ASSUME NEW j \in 0..l - n PROVE After(rp2, j) = After(p.rp, n + j)
    <2>1. j \in Nat /\ j <= l - n /\ j \in 0..Length /\ n + j \in 0..Length
      BY <1>1, <1>2
    <2>2. After(rp2, j) = IF rp2 + j < Length THEN rp2 + j ELSE rp2 + j - Length
      BY <1>6, <2>1, AfterIs
    <2>3. After(p.rp, n + j) = IF p.rp + (n + j) < Length THEN p.rp + (n + j)
                               ELSE p.rp + (n + j) - Length
      BY <1>2, <2>1, AfterIs
    <2> QED BY <1>1, <1>2, <1>6, <2>1, <2>2, <2>3
  <1>8. p.wp = After(rp2, l - n)
    <2>1. l - n \in 0..l - n /\ n + (l - n) = l
      BY <1>1
    <2>2. After(rp2, l - n) = After(p.rp, n + (l - n))
      BY <2>1, <1>7
    <2> QED BY <2>1, <2>2 DEF Carries
  <1>9. ASSUME NEW i \in 1..l - n PROVE p.cell[After(rp2, i - 1)] = k[n + i]
    <2>1. i - 1 \in 0..l - n /\ n + (i - 1) = (n + i) - 1 /\ n + i \in 1..l
      BY <1>1
    <2>2. After(rp2, i - 1) = After(p.rp, (n + i) - 1)
      BY <2>1, <1>7
    <2>3. p.cell[After(p.rp, (n + i) - 1)] = k[n + i]
      BY <2>1 DEF Carries
    <2> QED BY <2>2, <2>3
  <1> HIDE DEF l
  <1>10. l - n <= Length
    BY <1>1, <1>2
  <1> QED BY <1>3, <1>5, <1>8, <1>9, <1>10 DEF Carries, rp2

\* A packet put in front of cell rp.
LEMMA FrontIs ==
  ASSUME NEW p \in PipeType, NEW rp \in Cells, NEW x \in Packets
  PROVE  LET i == After(rp, Length - 1)
             r == InFront(p, rp, x)
         IN  /\ r \in PipeType
             /\ r.rp = i /\ r.wp = p.wp /\ r.full = p.full /\ r.queue = p.queue
             /\ r.cell = [p.cell EXCEPT ![i] = x]
  <1> DEFINE i == After(rp, Length - 1)
             cell2 == [p.cell EXCEPT ![i] = x]
  <1>1. i \in Cells
    <2>1. Length - 1 \in 0..Length
      BY LengthType
    <2> QED BY <2>1, AfterIs
  <1>2. InFront(p, rp, x) = [p EXCEPT !.rp = i, !.cell = cell2]
    BY DEF InFront, PipeType
  <1> HIDE DEF i
  <1>3. cell2 \in [Cells -> Packets]
    BY <1>1 DEF PipeType
  <1> HIDE DEF cell2
  <1>4. [p EXCEPT !.rp = i, !.cell = cell2] \in PipeType
    BY <1>1, <1>3 DEF PipeType
  <1>5. LET r == [p EXCEPT !.rp = i, !.cell = cell2]
        IN  /\ r.rp = i /\ r.wp = p.wp /\ r.full = p.full /\ r.queue = p.queue
            /\ r.cell = cell2
    BY DEF PipeType
  <1> QED BY <1>2, <1>4, <1>5 DEF i, cell2

LEMMA FrontHolds ==
  ASSUME NEW p \in PipeType, NEW k \in Seq(Packets), Carries(p, k), Len(k) < Length,
         NEW x \in Packets
  PROVE  Carries(InFront(p, p.rp, x), <<x>> \o k)
  <1> DEFINE l == Len(k)
             rp2 == After(p.rp, Length - 1)
             r == InFront(p, p.rp, x)
             ks == <<x>> \o k
  <1>1. l \in Nat /\ l + 1 <= Length
    BY LenProperties, LengthType
  <1>2. /\ Length \in Nat /\ Length > 0 /\ Length - 1 \in 0..Length
        /\ p.rp \in Cells /\ p.rp \in Nat /\ p.rp < Length
    BY LengthType DEF PipeType, Cells
  <1>3. /\ r.rp = rp2 /\ r.wp = p.wp /\ r.cell = [p.cell EXCEPT ![rp2] = x]
    BY <1>2, FrontIs
  <1>4. /\ ks \in Seq(Packets) /\ Len(ks) = l + 1
        /\ \A i \in 1..l + 1 : ks[i] = IF i = 1 THEN x ELSE k[i - 1]
    <2>1. <<x>> \in Seq(Packets) /\ Len(<<x>>) = 1 /\ <<x>>[1] = x
      OBVIOUS
    <2>2. /\ ks \in Seq(Packets) /\ Len(ks) = Len(<<x>>) + Len(k)
          /\ \A i \in 1..Len(<<x>>) + Len(k) :
               ks[i] = IF i <= Len(<<x>>) THEN <<x>>[i] ELSE k[i - Len(<<x>>)]
      BY <2>1, ConcatProperties
    <2> HIDE DEF ks
    <2>3. /\ Len(ks) = l + 1
          /\ \A i \in 1..l + 1 : ks[i] = IF i <= 1 THEN <<x>>[i] ELSE k[i - 1]
      BY <2>1, <2>2, <1>1
    <2>4. \A i \in 1..l + 1 : ks[i] = IF i = 1 THEN x ELSE k[i - 1]
      BY <2>1, <2>3, <1>1
    <2> QED BY <2>2, <2>3, <2>4
  <1>5. /\ rp2 \in Cells /\ rp2 \in Nat /\ rp2 < Length
        /\ rp2 = IF p.rp = 0 THEN Length - 1 ELSE p.rp - 1
    <2>1. rp2 \in Cells /\ rp2 = IF p.rp + (Length - 1) < Length THEN p.rp + (Length - 1)
                                 ELSE p.rp + (Length - 1) - Length
      BY <1>2, AfterIs
    <2> HIDE DEF rp2
    <2> QED BY <2>1, <1>2 DEF Cells
  <1> HIDE DEF rp2, r, ks
  <1>6. ASSUME NEW j \in 0..l PROVE After(rp2, j + 1) = After(p.rp, j)
    <2>1. j \in Nat /\ j <= l /\ j \in 0..Length /\ j + 1 \in 0..Length
      BY <1>1, <1>2
    <2>2. After(rp2, j + 1) = IF rp2 + (j + 1) < Length THEN rp2 + (j + 1)
                              ELSE rp2 + (j + 1) - Length
      BY <1>5, <2>1, AfterIs
    <2>3. After(p.rp, j) = IF p.rp + j < Length THEN p.rp + j ELSE p.rp + j - Length
      BY <1>2, <2>1, AfterIs
    <2> QED BY <1>1, <1>2, <1>5, <2>1, <2>2, <2>3
  <1>7. r.wp = After(rp2, l + 1)
    <2>1. After(rp2, l + 1) = After(p.rp, l)
      BY <1>1, <1>6
    <2> QED BY <2>1, <1>3 DEF Carries
  <1>8. ASSUME NEW i \in 1..l + 1 PROVE r.cell[After(rp2, i - 1)] = ks[i]
    <2>1. CASE i = 1
      <3>1. After(rp2, 0) = rp2
        BY <1>2, <1>5, AfterIs
      <3>2. r.cell[rp2] = x
        BY <1>3, <1>5 DEF PipeType
      <3> QED BY <2>1, <3>1, <3>2, <1>1, <1>4
    <2>2. CASE i # 1
      <3>1. i - 2 \in 0..l /\ (i - 2) + 1 = i - 1 /\ i - 1 \in 1..l /\ (i - 1) - 1 = i - 2
            /\ i - 1 \in 0..Length /\ i - 1 > 0 /\ i - 1 < Length
        BY <2>2, <1>1, <1>2
      <3>2. After(rp2, i - 1) = After(p.rp, i - 2)
        <4>1. After(rp2, (i - 2) + 1) = After(p.rp, i - 2)
          BY <3>1, <1>6
        <4> QED BY <4>1, <3>1
      <3>3. p.cell[After(p.rp, i - 2)] = k[i - 1]
        <4>1. p.cell[After(p.rp, (i - 1) - 1)] = k[i - 1]
          BY <3>1 DEF Carries
        <4> QED BY <4>1, <3>1
      <3>4. After(rp2, i - 1) # rp2 /\ After(rp2, i - 1) \in Cells
        <4>1. /\ After(rp2, i - 1) \in Cells
              /\ After(rp2, i - 1) = IF rp2 + (i - 1) < Length THEN rp2 + (i - 1)
                                     ELSE rp2 + (i - 1) - Length
          BY <1>5, <3>1, AfterIs
        <4> QED BY <4>1, <3>1, <1>2, <1>5
      <3>5. r.cell[After(rp2, i - 1)] = p.cell[After(rp2, i - 1)]
        BY <1>3, <3>4 DEF PipeType
      <3> QED BY <2>2, <3>2, <3>3, <3>5, <1>4
    <2> QED BY <2>1, <2>2
  <1>9. Carries(r, ks)
    BY <1>1, <1>3, <1>4, <1>7, <1>8 DEF Carries
  <1> QED BY <1>9 DEF r, ks

LEMMA UpTo ==
  ASSUME NEW a \in Nat, NEW b \in Nat, 1..a = 1..b
  PROVE  a = b
  <1>1. ~(a < b)
    <2> SUFFICES ASSUME a < b PROVE FALSE
      OBVIOUS
    <2>1. b \in 1..b /\ ~(b \in 1..a)
      OBVIOUS
    <2> QED BY <2>1
  <1>2. ~(b < a)
    <2> SUFFICES ASSUME b < a PROVE FALSE
      OBVIOUS
    <2>1. a \in 1..a /\ ~(a \in 1..b)
      OBVIOUS
    <2> QED BY <2>1
  <1> QED BY <1>1, <1>2

\* A pipe holds the packets of k, its flag being set only where the pointers meet, if
\* and only if these lie between the pointers and the flag is right.
LEMMA ContentsExact ==
  ASSUME NEW p \in PipeType, NEW k \in Seq(Packets)
  PROVE  (Contents(p) = k /\ (p.full => p.wp = p.rp)) <=> Exactly(p, k)
  <1> DEFINE n == IF p.full THEN Length ELSE Distance(p.rp, p.wp)
             c == [i \in 1..n |-> p.cell[After(p.rp, i - 1)]]
  <1>1. /\ Length \in Nat /\ Length > 0 /\ p.rp \in Cells /\ p.wp \in Cells
        /\ p.rp \in Nat /\ p.rp < Length /\ p.wp \in Nat /\ p.wp < Length
        /\ p.full \in BOOLEAN /\ p.cell \in [Cells -> Packets]
    BY LengthType DEF PipeType, Cells
  <1>2. /\ Distance(p.rp, p.wp) = IF p.rp <= p.wp THEN p.wp - p.rp ELSE p.wp + Length - p.rp
        /\ Distance(p.rp, p.wp) \in Nat /\ Distance(p.rp, p.wp) < Length
    <2>1. /\ Distance(p.rp, p.wp) = IF p.rp <= p.wp THEN p.wp - p.rp ELSE p.wp + Length - p.rp
          /\ Distance(p.rp, p.wp) \in Cells
      BY <1>1, DistanceIs
    <2> QED BY <2>1, <1>1 DEF Cells
  <1>3. n \in Nat /\ n <= Length /\ (p.full <=> n = Length)
    BY <1>1, <1>2
  <1>4. Contents(p) = c
    BY DEF Contents
  <1> HIDE DEF n
  <1>5. c \in Seq(Packets) /\ Len(c) = n /\ \A i \in 1..n : c[i] = p.cell[After(p.rp, i - 1)]
    <2>1. ASSUME NEW i \in 1..n PROVE p.cell[After(p.rp, i - 1)] \in Packets
      <3>1. i - 1 \in 0..Length
        BY <1>1, <1>3
      <3>2. After(p.rp, i - 1) \in Cells
        BY <3>1, <1>1, AfterIs
      <3> QED BY <3>2, <1>1
    <2>2. c \in [1..n -> Packets]
      BY <2>1
    <2>3. c \in Seq(Packets)
      BY <2>2, <1>3, SeqDef
    <2>4. 1..Len(c) = 1..n /\ Len(c) \in Nat
      BY <2>2, <2>3, LenProperties
    <2>5. Len(c) = n
      <3> HIDE DEF c
      <3> QED BY <2>4, <1>3, UpTo
    <2> QED BY <2>3, <2>5
  <1>6. After(p.rp, n) = IF p.rp + n < Length THEN p.rp + n ELSE p.rp + n - Length
    BY <1>1, <1>3, AfterIs
  <1> HIDE DEF c
  <1>7. ASSUME c = k, p.full => p.wp = p.rp PROVE Exactly(p, k)
    <2>1. Len(k) = n /\ \A i \in 1..n : p.cell[After(p.rp, i - 1)] = k[i]
      BY <1>5, <1>7
    <2>2. p.wp = After(p.rp, n)
      <3>1. CASE p.full
        BY <3>1, <1>1, <1>3, <1>6, <1>7
      <3>2. CASE ~p.full
        <4>1. n = Distance(p.rp, p.wp)
          BY <3>2 DEF n
        <4> QED BY <4>1, <1>1, <1>2, <1>6
      <3> QED BY <3>1, <3>2
    <2> QED BY <2>1, <2>2, <1>3 DEF Exactly, Carries
  <1>8. ASSUME Exactly(p, k) PROVE c = k /\ (p.full => p.wp = p.rp)
    <2> DEFINE l == Len(k)
    <2>1. /\ l \in Nat /\ l <= Length /\ p.wp = After(p.rp, l) /\ (p.full <=> l = Length)
          /\ \A i \in 1..l : p.cell[After(p.rp, i - 1)] = k[i]
      BY <1>8, LenProperties DEF Exactly, Carries
    <2> HIDE DEF l
    <2>2. p.wp = IF p.rp + l < Length THEN p.rp + l ELSE p.rp + l - Length
      BY <1>1, <2>1, AfterIs
    <2>3. l = n
      <3>1. CASE p.full
        BY <3>1, <1>3, <2>1
      <3>2. CASE ~p.full
        <4>1. n = Distance(p.rp, p.wp)
          BY <3>2 DEF n
        <4>2. l < Length
          BY <3>2, <1>1, <2>1
        <4> QED BY <4>1, <4>2, <1>1, <1>2, <2>1, <2>2
      <3> QED BY <3>1, <3>2
    <2>4. p.full => p.wp = p.rp
      BY <1>1, <2>1, <2>2
    <2>5. c = k
      <3>1. Len(c) = Len(k) /\ \A i \in 1..Len(c) : c[i] = k[i]
        BY <1>5, <2>1, <2>3 DEF l
      <3> QED BY <3>1, <1>5, SeqEqual
    <2> QED BY <2>4, <2>5
  <1> QED BY <1>4, <1>7, <1>8

\* Where the pointers meet.
LEMMA HoldsDistance ==
  ASSUME NEW p \in PipeType, NEW k \in Seq(Packets), Carries(p, k)
  PROVE  /\ Len(k) \in Nat /\ Len(k) <= Length
         /\ p.wp = p.rp <=> Len(k) = 0 \/ Len(k) = Length
         /\ Distance(p.rp, p.wp) = IF Len(k) = Length THEN 0 ELSE Len(k)
  <1> DEFINE l == Len(k)
  <1>1. /\ l \in Nat /\ l <= Length /\ p.wp = After(p.rp, l)
    BY LenProperties DEF Carries
  <1> HIDE DEF l
  <1>2. /\ Length \in Nat /\ Length > 0 /\ p.rp \in Cells /\ p.wp \in Cells
        /\ p.rp \in Nat /\ p.rp < Length /\ p.wp \in Nat /\ p.wp < Length
    BY LengthType DEF PipeType, Cells
  <1>3. p.wp = IF p.rp + l < Length THEN p.rp + l ELSE p.rp + l - Length
    BY <1>1, <1>2, AfterIs
  <1>4. Distance(p.rp, p.wp) = IF p.rp <= p.wp THEN p.wp - p.rp ELSE p.wp + Length - p.rp
    BY <1>2, DistanceIs
  <1>5. Distance(p.rp, p.wp) = IF l = Length THEN 0 ELSE l
    BY <1>1, <1>2, <1>3, <1>4
  <1>6. p.wp = p.rp <=> l = 0 \/ l = Length
    BY <1>1, <1>2, <1>3
  <1> QED BY <1>1, <1>5, <1>6 DEF l

LEMMA FlagIs ==
  ASSUME NEW p \in PipeType
  PROVE  /\ Fetched(p) \in PipeType /\ SetFull(p) \in PipeType
         /\ Fetched(p) = [p EXCEPT !.full = FALSE]
         /\ ~Fetched(p).full /\ Fetched(p).queue = p.queue
         /\ Fetched(p).rp = p.rp /\ Fetched(p).wp = p.wp /\ Fetched(p).cell = p.cell
         /\ SetFull(p).full = (p.full \/ p.wp = p.rp) /\ SetFull(p).queue = p.queue
         /\ SetFull(p).rp = p.rp /\ SetFull(p).wp = p.wp /\ SetFull(p).cell = p.cell
  <1>1. /\ Fetched(p) \in PipeType /\ ~Fetched(p).full /\ Fetched(p).queue = p.queue
        /\ Fetched(p).rp = p.rp /\ Fetched(p).wp = p.wp /\ Fetched(p).cell = p.cell
    BY DEF Fetched, PipeType
  <1> DEFINE b == p.full \/ p.wp = p.rp
  <1>2. SetFull(p) = [p EXCEPT !.full = b]
    BY DEF SetFull, PipeType
  <1>3. b \in BOOLEAN
    BY DEF PipeType
  <1> HIDE DEF b
  <1>4. LET r == [p EXCEPT !.full = b]
        IN  /\ r \in PipeType /\ r.full = b /\ r.queue = p.queue
            /\ r.rp = p.rp /\ r.wp = p.wp /\ r.cell = p.cell
    BY <1>3 DEF PipeType
  <1> QED BY <1>1, <1>2, <1>4 DEF b, Fetched

LEMMA QueueIs ==
  ASSUME NEW p \in PipeType, NEW q \in Seq(Tasks)
  PROVE  LET r == [p EXCEPT !.queue = q]
         IN  /\ r \in PipeType /\ r.queue = q
             /\ r.rp = p.rp /\ r.wp = p.wp /\ r.full = p.full /\ r.cell = p.cell
  BY DEF PipeType

\* What a pipe holds depends on the pointers and on the cells only.
LEMMA SameHolds ==
  ASSUME NEW p, NEW r, NEW k, r.rp = p.rp, r.wp = p.wp, r.cell = p.cell
  PROVE  Carries(r, k) <=> Carries(p, k)
  BY DEF Carries

\* A put: the packets are stored, and the flag set if the pointers meet.
LEMMA PutIs ==
  ASSUME NEW p \in PipeType, NEW s \in Seq(Packets), Len(s) <= Length
  PROVE  LET r == SetFull(Store(p, s))
         IN  /\ r \in PipeType /\ r.queue = p.queue /\ r.rp = p.rp
             /\ p.full => r.full
             /\ r.full => p.full \/ r.wp = r.rp
  <1> DEFINE st == Store(p, s)
  <1>1. st \in PipeType /\ st.queue = p.queue /\ st.rp = p.rp /\ st.full = p.full
    BY StoreIs
  <1> HIDE DEF st
  <1>2. /\ SetFull(st) \in PipeType /\ SetFull(st).queue = st.queue /\ SetFull(st).rp = st.rp
        /\ SetFull(st).wp = st.wp
        /\ SetFull(st).full = (st.full \/ st.wp = st.rp)
    BY <1>1, FlagIs
  <1> QED BY <1>1, <1>2 DEF st

LEMMA PutHolds ==
  ASSUME NEW p \in PipeType, NEW k \in Seq(Packets), Carries(p, k),
         NEW s \in Seq(Packets), Len(s) > 0, Len(k) + Len(s) <= Length
  PROVE  /\ k \o s \in Seq(Packets) /\ Len(k \o s) = Len(k) + Len(s)
         /\ Carries(SetFull(Store(p, s)), k \o s)
         /\ SetFull(Store(p, s)).full <=> p.full \/ Len(k) + Len(s) = Length
  <1> DEFINE st == Store(p, s)
             ks == k \o s
  <1>1. Len(k) \in Nat /\ Len(s) \in Nat /\ Len(s) <= Length
    BY LenProperties, LengthType
  <1>2. st \in PipeType /\ st.full = p.full
    BY <1>1, StoreIs
  <1>3. Carries(st, ks)
    BY StoreHolds
  <1>4. ks \in Seq(Packets) /\ Len(ks) = Len(k) + Len(s)
    BY ConcatProperties
  <1> HIDE DEF st, ks
  <1>5. st.wp = st.rp <=> Len(ks) = 0 \/ Len(ks) = Length
    BY <1>2, <1>3, <1>4, HoldsDistance
  <1>6. /\ SetFull(st).full = (st.full \/ st.wp = st.rp)
        /\ SetFull(st).rp = st.rp /\ SetFull(st).wp = st.wp /\ SetFull(st).cell = st.cell
    BY <1>2, FlagIs
  <1>7. Carries(SetFull(st), ks)
    BY <1>3, <1>6, SameHolds
  <1>8. SetFull(st).full <=> p.full \/ Len(k) + Len(s) = Length
    <2>1. Len(ks) # 0
      BY <1>1, <1>4
    <2>2. SetFull(st).full <=> st.full \/ st.wp = st.rp
      BY <1>6
    <2> QED BY <1>2, <1>4, <1>5, <2>1, <2>2
  <1> QED BY <1>4, <1>7, <1>8 DEF st, ks

\* A get: packets are taken out, and the flag cleared.
LEMMA GetIs ==
  ASSUME NEW p \in PipeType, NEW n \in 0..Length
  PROVE  LET r == Fetched(Skip(p, n))
         IN  /\ r \in PipeType /\ r.queue = p.queue /\ ~r.full
             /\ \A k \in Seq(Packets) : Carries(p, k) /\ n <= Len(k) => Carries(r, Rest(k, n))
  <1> DEFINE sk == Skip(p, n)
  <1>1. sk \in PipeType /\ sk.queue = p.queue
    BY SkipIs
  <1>2. ASSUME NEW k \in Seq(Packets), Carries(p, k), n <= Len(k)
        PROVE  Carries(sk, Rest(k, n))
    <2>1. n \in 0..Len(k)
      BY <1>2, LenProperties
    <2> QED BY <1>2, <2>1, SkipHolds
  <1> HIDE DEF sk
  <1>3. /\ Fetched(sk) \in PipeType /\ Fetched(sk).queue = sk.queue /\ ~Fetched(sk).full
        /\ Fetched(sk).rp = sk.rp /\ Fetched(sk).wp = sk.wp /\ Fetched(sk).cell = sk.cell
    BY <1>1, FlagIs
  <1>4. ASSUME NEW k \in Seq(Packets), Carries(p, k), n <= Len(k)
        PROVE  Carries(Fetched(sk), Rest(k, n))
    BY <1>2, <1>3, <1>4, SameHolds
  <1> QED BY <1>1, <1>3, <1>4 DEF sk

\* A get and a put of a full pipe.
LEMMA SwapIs ==
  ASSUME NEW p \in PipeType, NEW x \in Packets
  PROVE  /\ Swap(p, x) \in PipeType /\ Swap(p, x).queue = p.queue
         /\ \A k \in Seq(Packets) : Carries(p, k) /\ Len(k) = Length =>
              Swap(p, x).full /\ Carries(Swap(p, x), Append(Rest(k, 1), x))
  <1> DEFINE r == Fetched(Skip(p, 1))
             s == <<x>>
  <1>0. 1 \in 0..Length /\ Length \in Nat /\ Length > 0
    BY LengthType
  <1>1. s \in Seq(Packets) /\ Len(s) = 1
    OBVIOUS
  <1>2. /\ r \in PipeType /\ r.queue = p.queue
        /\ \A k \in Seq(Packets) : Carries(p, k) /\ 1 <= Len(k) => Carries(r, Rest(k, 1))
    BY <1>0, GetIs
  <1>3. Swap(p, x) = SetFull(Store(r, s))
    BY DEF Swap
  <1> HIDE DEF r, s
  <1>4. Swap(p, x) \in PipeType /\ Swap(p, x).queue = p.queue
    <2>1. Len(s) <= Length
      BY <1>0, <1>1
    <2> QED BY <1>1, <1>2, <1>3, <2>1, PutIs
  <1>5. ASSUME NEW k \in Seq(Packets), Carries(p, k), Len(k) = Length
        PROVE  Swap(p, x).full /\ Carries(Swap(p, x), Append(Rest(k, 1), x))
    <2> DEFINE rest == Rest(k, 1)
    <2>0. 1 <= Len(k) /\ 1 \in Nat
      BY <1>0, <1>5
    <2>1. rest \in Seq(Packets) /\ Len(rest) = Len(k) - 1
      BY <2>0, RestIs
    <2>2. Carries(r, rest)
      BY <2>0, <1>2, <1>5
    <2> HIDE DEF rest
    <2>3. Len(rest) + Len(s) = Length /\ Len(rest) + Len(s) <= Length /\ Len(s) > 0
      BY <1>0, <1>1, <1>5, <2>1
    <2>4. Carries(SetFull(Store(r, s)), rest \o s) /\ SetFull(Store(r, s)).full
      BY <1>1, <1>2, <2>1, <2>2, <2>3, PutHolds
    <2>5. Append(rest, x) = rest \o s
      BY <2>1, AppendIsConcat DEF s
    <2> QED BY <1>3, <2>4, <2>5 DEF rest
  <1> QED BY <1>4, <1>5

-----------------------------------------------------------------------------
(* The inductive invariant. *)

CallType == [kind : {"none", "get", "put"}, front : BOOLEAN, pkt : Packets \union {None}]

OpType == [step : {"none", "test", "fetch", "fetchM", "clear", "front", "flag"},
           t : Tasks \union {Lsr, None}, resume : BOOLEAN, wait : BOOLEAN,
           n : 0..Length, pkt : Packets \union {None}, rp : Cells,
           over : BOOLEAN, stale : BOOLEAN]

PipeTyped ==
    /\ pipe \in PipeType
    /\ call \in [Tasks -> CallType]
    /\ op \in OpType
    /\ isr \in {"put", "get", "none"}
    /\ kept \in Seq(Packets)

\* Who is in the queue waits, with a packet to put; who may yet have to wait is not.
WaitersQueued ==
    /\ Injective(pipe.queue)
    /\ \A t \in Tasks : Contains(pipe.queue, t) => PipeWaits(t)
    /\ \A t \in Tasks : call[t].kind = "put" => call[t].pkt \in Packets
    /\ op.wait => op.t \in Tasks /\ ~PipeWaits(op.t)
    /\ op.resume => op.t \in Tasks /\ ~Contains(pipe.queue, op.t)

\* Between tasks only, who waits has to, and a get or a put that does anything finds the
\* queue empty.
Meeting == isr = "none" =>
    /\ \A t \in Tasks : Contains(pipe.queue, t) /\ call[t].kind = "get" => Empty
    /\ \A t \in Tasks : Contains(pipe.queue, t) /\ call[t].kind = "put" => pipe.full
    /\ op.step \in {"fetch", "clear", "front", "flag"} => pipe.queue = <<>>
    /\ op.step = "test" => ~pipe.full
    /\ op.step # "fetchM"

\* The end that ISRs have is not used by tasks.
OneEnd ==
    /\ isr = "put" => op.step \notin {"front", "flag"} /\ \A t \in Tasks : call[t].kind # "put"
    /\ isr = "get" => op.step \in {"none", "front", "flag"} /\ \A t \in Tasks : call[t].kind # "get"

\* What the buffer holds at each step of a call, unless a full pipe was written over
\* or a packet put in front of an old read pointer.
Ring ==
    /\ op.step = "none" => op = NoOp
    /\ op = NoOp /\ PacketsKept => Exactly(pipe, kept)
    /\ op.step = "flag" /\ pipe.full => Len(kept) > Length
    /\ op.step = "front" => ~op.resume /\ op.pkt \in Packets /\ ~pipe.full /\ Exactly(pipe, kept)
    /\ ~op.over =>
         /\ op.step \in {"test", "fetch", "fetchM"} => Exactly(pipe, kept)
         /\ op.step = "fetch" => Len(kept) > 0
         /\ op.step = "fetchM" => op.n <= Len(kept)
         /\ op.step = "clear" => Carries(pipe, kept) /\ (Len(kept) = Length => pipe.full)
         /\ op.step = "flag" /\ ~op.stale => Carries(pipe, kept)

PipeInv == PipeTyped /\ WaitersQueued /\ Meeting /\ OneEnd /\ Ring

IsDropped(t) == PipeWaits(t) /\ ~Contains(pipe.queue, t) /\ ~(op.resume /\ op.t = t)

\* A step after which no more tasks are dropped, and one that loses no packet.
NoDrop == \A t \in Tasks : IsDropped(t)' => IsDropped(t)

NoLoss == PacketsKept => PacketsKept'

LEMMA NotIn == \A u : ~Contains(<<>>, u)
  BY DEF Contains

LEMMA NoOpType == /\ NoOp \in OpType /\ NoOp.step = "none" /\ ~NoOp.resume /\ ~NoOp.wait
                  /\ ~NoOp.over /\ NoCallOfPipe \in CallType /\ NoCallOfPipe.kind = "none"
  <1>1. 0 \in 0..Length /\ 0 \in Cells
    BY LengthType
  <1> QED BY <1>1 DEF NoOp, OpType, NoCallOfPipe, CallType

LEMMA ReturnedIs ==
  ASSUME NEW ts, call \in [Tasks -> CallType]
  PROVE  /\ Returned(ts) \in [Tasks -> CallType]
         /\ \A t \in Tasks : Returned(ts)[t] = IF t \in ts THEN NoCallOfPipe ELSE call[t]
  BY NoOpType DEF Returned

LEMMA FetchInv ==
  ASSUME PipeInv, FetchStep
  PROVE  PipeInv' /\ NoDrop /\ NoLoss
  <1>1. /\ pipe \in PipeType /\ call \in [Tasks -> CallType] /\ op \in OpType
        /\ isr \in {"put", "get", "none"} /\ kept \in Seq(Packets) /\ op.step = "fetch"
    BY DEF PipeInv, PipeTyped, FetchStep
  <1>2. /\ pipe' = Skip(pipe, 1) /\ kept' = Rest(kept, 1) /\ call' = call /\ isr' = isr
        /\ op' = [op EXCEPT !.step = "clear"]
    BY DEF FetchStep, Fetch
  <1>3. /\ op' \in OpType /\ op'.step = "clear" /\ op'.t = op.t /\ op'.resume = op.resume
        /\ op'.wait = op.wait /\ op'.over = op.over
    BY <1>1, <1>2 DEF OpType
  <1>4. 1 \in 0..Length /\ 1 \in Nat /\ Length \in Nat
    BY LengthType
  <1>5. pipe' \in PipeType /\ pipe'.queue = pipe.queue /\ pipe'.full = pipe.full
    BY <1>1, <1>2, <1>4, SkipIs
  <1>6. PipeTyped'
    BY <1>1, <1>2, <1>3, <1>4, <1>5, RestIs DEF PipeTyped
  <1>7. WaitersQueued'
    BY <1>2, <1>3, <1>5 DEF PipeInv, WaitersQueued, PipeWaits
  <1>8. Meeting'
    BY <1>1, <1>2, <1>3, <1>5, NotIn DEF PipeInv, Meeting
  <1>9. OneEnd'
    BY <1>1, <1>2, <1>3 DEF PipeInv, OneEnd
  <1>10. op' # NoOp
    BY <1>3, NoOpType
  <1>11. Ring'
    <2>1. CASE op.over
      BY <1>3, <1>10, <2>1 DEF Ring
    <2>2. CASE ~op.over
      <3>1. Exactly(pipe, kept) /\ Len(kept) > 0 /\ Len(kept) \in Nat
        BY <1>1, <2>2, LenProperties DEF PipeInv, Ring
      <3>2. Len(kept) <= Length /\ 1 <= Len(kept) /\ 1 \in 0..Len(kept)
        BY <3>1 DEF Exactly, Carries
      <3>3. Carries(pipe', kept')
        BY <1>1, <1>2, <3>1, <3>2, SkipHolds DEF Exactly
      <3>4. Len(kept') = Len(kept) - 1
        BY <1>1, <1>2, <1>4, <3>2, RestIs
      <3>5. Len(kept') # Length
        BY <3>1, <3>2, <3>4, <1>4
      <3> QED BY <1>3, <1>10, <2>2, <3>3, <3>5 DEF Ring
    <2> QED BY <2>1, <2>2
  <1>12. NoDrop
    BY <1>2, <1>3, <1>5 DEF NoDrop, IsDropped, PipeWaits
  <1> QED BY <1>6, <1>7, <1>8, <1>9, <1>10, <1>11, <1>12 DEF PipeInv, NoLoss, PacketsKept

LEMMA FetchMInv ==
  ASSUME PipeInv, FetchMStep
  PROVE  PipeInv' /\ NoDrop /\ NoLoss
  <1>1. /\ pipe \in PipeType /\ call \in [Tasks -> CallType] /\ op \in OpType
        /\ isr \in {"put", "get", "none"} /\ kept \in Seq(Packets) /\ op.step = "fetchM"
        /\ op.n \in 0..Length
    BY DEF PipeInv, PipeTyped, FetchMStep, OpType
  <1>2. /\ pipe' = Skip(pipe, op.n) /\ kept' = Rest(kept, op.n) /\ call' = call /\ isr' = isr
        /\ op' = [op EXCEPT !.step = "clear"]
    BY DEF FetchMStep
  <1>3. /\ op' \in OpType /\ op'.step = "clear" /\ op'.t = op.t /\ op'.resume = op.resume
        /\ op'.wait = op.wait /\ op'.over = op.over
    BY <1>1, <1>2 DEF OpType
  <1>4. op.n \in Nat /\ Length \in Nat
    BY <1>1, LengthType
  <1>5. pipe' \in PipeType /\ pipe'.queue = pipe.queue /\ pipe'.full = pipe.full
    BY <1>1, <1>2, SkipIs
  <1>6. PipeTyped'
    BY <1>1, <1>2, <1>3, <1>4, <1>5, RestIs DEF PipeTyped
  <1>7. WaitersQueued'
    BY <1>2, <1>3, <1>5 DEF PipeInv, WaitersQueued, PipeWaits
  <1>8. Meeting'
    BY <1>1, <1>2 DEF PipeInv, Meeting
  <1>9. OneEnd'
    BY <1>1, <1>2, <1>3 DEF PipeInv, OneEnd
  <1>10. op' # NoOp
    BY <1>3, NoOpType
  <1>11. Ring'
    <2>1. CASE op.over
      BY <1>3, <1>10, <2>1 DEF Ring
    <2>2. CASE ~op.over
      <3>1. Exactly(pipe, kept) /\ op.n <= Len(kept) /\ Len(kept) \in Nat
        BY <1>1, <2>2, LenProperties DEF PipeInv, Ring
      <3>2. Len(kept) <= Length /\ op.n \in 0..Len(kept)
        BY <3>1, <1>4 DEF Exactly, Carries
      <3>3. Carries(pipe', kept')
        BY <1>1, <1>2, <3>1, <3>2, SkipHolds DEF Exactly
      <3>4. Len(kept') = Len(kept) - op.n
        BY <1>1, <1>2, <1>4, <3>1, RestIs
      <3>5. Len(kept') = Length => pipe'.full
        BY <1>4, <1>5, <3>1, <3>2, <3>4 DEF Exactly
      <3> QED BY <1>3, <1>10, <2>2, <3>3, <3>5 DEF Ring
    <2> QED BY <2>1, <2>2
  <1>12. NoDrop
    BY <1>2, <1>3, <1>5 DEF NoDrop, IsDropped, PipeWaits
  <1> QED BY <1>6, <1>7, <1>8, <1>9, <1>10, <1>11, <1>12 DEF PipeInv, NoLoss, PacketsKept

LEMMA NoneIn ==
  ASSUME NEW q \in Seq(Tasks), Injective(q), \A t \in Tasks : ~Contains(q, t)
  PROVE  q = <<>>
  BY TailContains

LEMMA EnqueueIs ==
  ASSUME pipe \in PipeType, call \in [Tasks -> CallType], Injective(pipe.queue),
         NEW t \in Tasks, NEW c \in CallType, ~Contains(pipe.queue, t), Enqueue(t, c)
  PROVE  /\ pipe' \in PipeType /\ Injective(pipe'.queue)
         /\ pipe'.rp = pipe.rp /\ pipe'.wp = pipe.wp /\ pipe'.full = pipe.full
         /\ pipe'.cell = pipe.cell
         /\ \A u : Contains(pipe'.queue, u) <=> Contains(pipe.queue, u) \/ u = t
         /\ call' \in [Tasks -> CallType] /\ call'[t] = c
         /\ \A u \in Tasks \ {t} : call'[u] = call[u]
  <1>1. PICK i \in 1..Len(pipe.queue) + 1 : pipe' = [pipe EXCEPT !.queue = InsertAt(@, i, t)]
    BY DEF Enqueue
  <1> DEFINE q == InsertAt(pipe.queue, i, t)
  <1>2. pipe.queue \in Seq(Tasks)
    BY DEF PipeType
  <1>3. /\ q \in Seq(Tasks) /\ Injective(q)
        /\ \A u : Contains(q, u) <=> Contains(pipe.queue, u) \/ u = t
    BY <1>2, InsertContains
  <1>4. pipe' = [pipe EXCEPT !.queue = q]
    BY <1>1 DEF PipeType
  <1> HIDE DEF q
  <1>5. /\ pipe' \in PipeType /\ pipe'.queue = q
        /\ pipe'.rp = pipe.rp /\ pipe'.wp = pipe.wp /\ pipe'.full = pipe.full
        /\ pipe'.cell = pipe.cell
    BY <1>3, <1>4, QueueIs
  <1>6. /\ call' \in [Tasks -> CallType] /\ call'[t] = c
        /\ \A u \in Tasks \ {t} : call'[u] = call[u]
    BY DEF Enqueue
  <1> QED BY <1>3, <1>5, <1>6

LEMMA TestInv ==
  ASSUME PipeInv, TestStep
  PROVE  PipeInv' /\ (NoDrop \/ op.resume) /\ (NoLoss \/ op.over)
  <1>1. /\ pipe \in PipeType /\ call \in [Tasks -> CallType] /\ op \in OpType
        /\ isr \in {"put", "get", "none"} /\ kept \in Seq(Packets) /\ op.step = "test"
        /\ kept' = kept /\ isr' = isr
    BY DEF PipeInv, PipeTyped, TestStep
  <1>2. /\ isr # "get" /\ (isr = "none" => ~pipe.full)
        /\ ~op.over => Exactly(pipe, kept)
    BY <1>1 DEF PipeInv, OneEnd, Meeting, Ring
  <1>3. CASE pipe.wp # pipe.rp
    <2>1. op' = [op EXCEPT !.step = "fetch"] /\ pipe' = pipe /\ call' = call
      BY <1>3 DEF TestStep
    <2>2. /\ op' \in OpType /\ op'.step = "fetch" /\ op'.t = op.t /\ op'.resume = op.resume
          /\ op'.wait = op.wait /\ op'.over = op.over
      BY <1>1, <2>1 DEF OpType
    <2>3. op' # NoOp
      BY <2>2, NoOpType
    <2>4. PipeTyped'
      BY <1>1, <2>1, <2>2 DEF PipeTyped
    <2>5. WaitersQueued'
      BY <2>1, <2>2 DEF PipeInv, WaitersQueued, PipeWaits
    <2>6. Meeting'
      <3> SUFFICES ASSUME isr = "none" PROVE Meeting'
        BY <1>1 DEF Meeting
      <3>1. ASSUME NEW t \in Tasks, Contains(pipe.queue, t) PROVE FALSE
        <4>1. call[t].kind \in {"get", "put"}
          BY <1>1, <3>1 DEF PipeInv, WaitersQueued, PipeWaits, CallType
        <4> QED BY <1>2, <1>3, <3>1, <4>1 DEF PipeInv, Meeting, Empty
      <3>2. pipe.queue = <<>>
        BY <1>1, <3>1, NoneIn DEF PipeInv, WaitersQueued, PipeType
      <3> QED BY <2>1, <2>2, <3>2, NotIn DEF Meeting
    <2>7. OneEnd'
      BY <1>1, <1>2, <2>1, <2>2 DEF PipeInv, OneEnd
    <2>8. Ring'
      <3>1. CASE op.over
        BY <2>2, <2>3, <3>1 DEF Ring
      <3>2. CASE ~op.over
        <4>1. Exactly(pipe, kept)
          BY <1>2, <3>2
        <4>2. Len(kept) > 0
          BY <1>1, <1>3, <4>1, HoldsDistance DEF Exactly
        <4> QED BY <1>1, <2>1, <2>2, <2>3, <4>1, <4>2 DEF Ring
      <3> QED BY <3>1, <3>2
    <2>9. NoDrop
      BY <2>1, <2>2 DEF NoDrop, IsDropped, PipeWaits
    <2> QED BY <2>3, <2>4, <2>5, <2>6, <2>7, <2>8, <2>9 DEF PipeInv, NoLoss, PacketsKept
  <1>4. CASE pipe.wp = pipe.rp
    <2>1. op' = NoOp
      BY <1>4 DEF TestStep
    <2> DEFINE c == [NoCallOfPipe EXCEPT !.kind = "get"]
    <2>2. c \in CallType /\ c.kind = "get"
      BY DEF NoCallOfPipe, CallType
    <2> HIDE DEF c
    <2>3. op.wait => op.t \in Tasks /\ ~PipeWaits(op.t) /\ ~Contains(pipe.queue, op.t)
      BY DEF PipeInv, WaitersQueued
    <2>4. IF op.wait THEN Enqueue(op.t, c) ELSE pipe' = pipe /\ call' = call
      BY <1>4 DEF TestStep, c
    <2>5. /\ pipe' \in PipeType /\ Injective(pipe'.queue) /\ call' \in [Tasks -> CallType]
          /\ pipe'.rp = pipe.rp /\ pipe'.wp = pipe.wp /\ pipe'.full = pipe.full
          /\ pipe'.cell = pipe.cell
          /\ \A u : Contains(pipe'.queue, u) <=> Contains(pipe.queue, u) \/ (op.wait /\ u = op.t)
          /\ op.wait => call'[op.t] = c
          /\ \A u \in Tasks : (op.wait /\ u = op.t) \/ call'[u] = call[u]
      <3>1. CASE op.wait
        BY <1>1, <2>2, <2>3, <2>4, <3>1, EnqueueIs DEF PipeInv, WaitersQueued
      <3>2. CASE ~op.wait
        BY <1>1, <2>4, <3>2 DEF PipeInv, WaitersQueued
      <3> QED BY <3>1, <3>2
    <2>6. PipeTyped'
      BY <1>1, <2>1, <2>5, NoOpType DEF PipeTyped
    <2>7. WaitersQueued'
      <3>1. \A t \in Tasks : Contains(pipe'.queue, t) => call'[t].kind # "none"
        BY <2>2, <2>5 DEF PipeInv, WaitersQueued, PipeWaits
      <3>2. \A t \in Tasks : call'[t].kind = "put" => call'[t].pkt \in Packets
        BY <2>2, <2>5 DEF PipeInv, WaitersQueued
      <3> QED BY <2>1, <2>5, <3>1, <3>2, NoOpType DEF WaitersQueued, PipeWaits
    <2>8. Meeting'
      <3> SUFFICES ASSUME isr = "none" PROVE Meeting'
        BY <1>1 DEF Meeting
      <3>1. ~pipe'.full /\ pipe'.wp = pipe'.rp
        BY <1>2, <1>4, <2>5
      <3>2. ASSUME NEW t \in Tasks, Contains(pipe'.queue, t), call'[t].kind = "put"
            PROVE  FALSE
        BY <1>2, <2>2, <2>5, <3>2 DEF PipeInv, Meeting
      <3> QED BY <2>1, <3>1, <3>2, NoOpType DEF Meeting, Empty
    <2>9. OneEnd'
      BY <1>1, <1>2, <2>1, <2>2, <2>5, NoOpType DEF PipeInv, OneEnd
    <2>10. PacketsKept' => Exactly(pipe', kept')
      <3> SUFFICES ASSUME Contents(pipe') = kept' PROVE Exactly(pipe', kept')
        BY <2>1 DEF PacketsKept
      <3> QED BY <1>1, <1>4, <2>5, ContentsExact
    <2>11. Ring'
      BY <2>1, <2>10, NoOpType DEF Ring
    <2>12. NoDrop \/ op.resume
      BY <2>2, <2>3, <2>5 DEF NoDrop, IsDropped, PipeWaits
    <2>13. NoLoss \/ op.over
      <3> SUFFICES ASSUME ~op.over PROVE Contents(pipe') = kept'
        BY DEF NoLoss, PacketsKept
      <3>1. Exactly(pipe, kept)
        BY <1>2
      <3>2. Exactly(pipe', kept')
        BY <1>1, <2>5, <3>1, SameHolds DEF Exactly
      <3> QED BY <1>1, <2>5, <3>2, ContentsExact
    <2> QED BY <2>6, <2>7, <2>8, <2>9, <2>11, <2>12, <2>13 DEF PipeInv
  <1> QED BY <1>3, <1>4

LEMMA ClearInv ==
  ASSUME PipeInv, ClearStep
  PROVE  PipeInv' /\ NoDrop /\ (NoLoss \/ op.over \/ (pipe.full /\ Len(kept) = Length))
  <1>1. /\ pipe \in PipeType /\ call \in [Tasks -> CallType] /\ op \in OpType
        /\ isr \in {"put", "get", "none"} /\ kept \in Seq(Packets) /\ op.step = "clear"
        /\ kept' = kept /\ isr' = isr /\ op' = NoOp /\ pipe' = Fetched(pipe)
    BY DEF PipeInv, PipeTyped, ClearStep
  <1>2. /\ pipe' \in PipeType /\ pipe'.queue = pipe.queue /\ ~pipe'.full
        /\ pipe'.rp = pipe.rp /\ pipe'.wp = pipe.wp /\ pipe'.cell = pipe.cell
    BY <1>1, FlagIs
  <1>3. /\ call' \in [Tasks -> CallType]
        /\ \A t \in Tasks : call'[t] = IF op.resume /\ t = op.t THEN NoCallOfPipe ELSE call[t]
    <2>1. call' = IF op.resume THEN Returned({op.t}) ELSE call
      BY DEF ClearStep
    <2> QED BY <1>1, <2>1, ReturnedIs
  <1>4. PipeTyped'
    BY <1>1, <1>2, <1>3, NoOpType DEF PipeTyped
  <1>5. WaitersQueued'
    <2>1. \A t \in Tasks : Contains(pipe'.queue, t) => call'[t].kind # "none"
      BY <1>2, <1>3 DEF PipeInv, WaitersQueued, PipeWaits
    <2>2. \A t \in Tasks : call'[t].kind = "put" => call'[t].pkt \in Packets
      BY <1>3, NoOpType DEF PipeInv, WaitersQueued
    <2> QED BY <1>1, <1>2, <2>1, <2>2, NoOpType DEF PipeInv, WaitersQueued, PipeWaits
  <1>6. Meeting'
    BY <1>1, <1>2, NotIn, NoOpType DEF PipeInv, Meeting
  <1>7. OneEnd'
    BY <1>1, <1>3, NoOpType DEF PipeInv, OneEnd
  <1>8. PacketsKept' => Exactly(pipe', kept')
    BY <1>1, <1>2, ContentsExact DEF PacketsKept
  <1>9. Ring'
    BY <1>1, <1>8, NoOpType DEF Ring
  <1>10. NoDrop
    BY <1>1, <1>2, <1>3, NoOpType DEF NoDrop, IsDropped, PipeWaits
  <1>11. NoLoss \/ op.over \/ (pipe.full /\ Len(kept) = Length)
    <2> SUFFICES ASSUME ~op.over, ~(pipe.full /\ Len(kept) = Length)
                 PROVE  Contents(pipe') = kept'
      BY DEF NoLoss, PacketsKept
    <2>1. Carries(pipe, kept) /\ Len(kept) # Length
      BY <1>1 DEF PipeInv, Ring
    <2>2. Carries(pipe', kept')
      BY <1>1, <1>2, <2>1, SameHolds
    <2>3. Exactly(pipe', kept')
      BY <1>1, <1>2, <2>1, <2>2 DEF Exactly
    <2> QED BY <1>1, <1>2, <2>3, ContentsExact
  <1> QED BY <1>4, <1>5, <1>6, <1>7, <1>9, <1>10, <1>11 DEF PipeInv

LEMMA FullContents ==
  ASSUME NEW p, p.full, NEW k \in Seq(Packets), Contents(p) = k
  PROVE  Len(k) = Length
  <1>1. k = [i \in 1..Length |-> p.cell[After(p.rp, i - 1)]]
    BY DEF Contents
  <1>2. DOMAIN k = 1..Length
    BY <1>1
  <1>3. DOMAIN k = 1..Len(k) /\ Len(k) \in Nat
    BY LenProperties
  <1> QED BY <1>2, <1>3, UpTo, LengthType

LEMMA FlagInv ==
  ASSUME PipeInv, FlagStep
  PROVE  PipeInv' /\ NoDrop /\ (NoLoss \/ op.over \/ op.stale \/ kept = <<>>)
  <1>1. /\ pipe \in PipeType /\ call \in [Tasks -> CallType] /\ op \in OpType
        /\ isr \in {"put", "get", "none"} /\ kept \in Seq(Packets) /\ op.step = "flag"
        /\ kept' = kept /\ isr' = isr /\ op' = NoOp /\ pipe' = SetFull(pipe)
    BY DEF PipeInv, PipeTyped, FlagStep
  <1>2. /\ pipe' \in PipeType /\ pipe'.queue = pipe.queue
        /\ pipe'.full = (pipe.full \/ pipe.wp = pipe.rp)
        /\ pipe'.rp = pipe.rp /\ pipe'.wp = pipe.wp /\ pipe'.cell = pipe.cell
    BY <1>1, FlagIs
  <1>3. /\ call' \in [Tasks -> CallType]
        /\ \A t \in Tasks : call'[t] = IF op.resume /\ t = op.t THEN NoCallOfPipe ELSE call[t]
    <2>1. call' = IF op.resume THEN Returned({op.t}) ELSE call
      BY DEF FlagStep
    <2> QED BY <1>1, <2>1, ReturnedIs
  <1>4. PipeTyped'
    BY <1>1, <1>2, <1>3, NoOpType DEF PipeTyped
  <1>5. WaitersQueued'
    <2>1. \A t \in Tasks : Contains(pipe'.queue, t) => call'[t].kind # "none"
      BY <1>2, <1>3 DEF PipeInv, WaitersQueued, PipeWaits
    <2>2. \A t \in Tasks : call'[t].kind = "put" => call'[t].pkt \in Packets
      BY <1>3, NoOpType DEF PipeInv, WaitersQueued
    <2> QED BY <1>1, <1>2, <2>1, <2>2, NoOpType DEF PipeInv, WaitersQueued, PipeWaits
  <1>6. Meeting'
    BY <1>1, <1>2, NotIn, NoOpType DEF PipeInv, Meeting
  <1>7. OneEnd'
    BY <1>1, <1>3, NoOpType DEF PipeInv, OneEnd
  <1>8. PacketsKept' => Exactly(pipe', kept')
    <2> SUFFICES ASSUME Contents(pipe') = kept' PROVE Exactly(pipe', kept')
      BY <1>1 DEF PacketsKept
    <2>1. pipe.full => Len(kept) > Length
      BY <1>1 DEF PipeInv, Ring
    <2>2. pipe'.full => Len(kept) = Length
      BY <1>1, FullContents
    <2>3. pipe.full \in BOOLEAN
      BY <1>1 DEF PipeType
    <2>4. pipe'.full => pipe'.wp = pipe'.rp
      <3>1. CASE pipe.full
        BY <1>2, <2>1, <2>2, <3>1, LengthType
      <3>2. CASE ~pipe.full
        BY <1>2, <3>2
      <3> QED BY <3>1, <3>2
    <2> QED BY <1>1, <1>2, <2>4, ContentsExact
  <1>9. Ring'
    BY <1>1, <1>8, NoOpType DEF Ring
  <1>10. NoDrop
    BY <1>1, <1>2, <1>3, NoOpType DEF NoDrop, IsDropped, PipeWaits
  <1>11. NoLoss \/ op.over \/ op.stale \/ kept = <<>>
    <2> SUFFICES ASSUME ~op.over, ~op.stale, kept # <<>> PROVE Contents(pipe') = kept'
      BY DEF NoLoss, PacketsKept
    <2>1. Carries(pipe, kept) /\ (pipe.full => Len(kept) > Length)
      BY <1>1 DEF PipeInv, Ring
    <2>2. /\ Len(kept) \in Nat /\ Len(kept) <= Length /\ Len(kept) # 0
          /\ pipe.wp = pipe.rp <=> Len(kept) = 0 \/ Len(kept) = Length
      BY <1>1, <2>1, HoldsDistance, EmptySeq
    <2>3. ~pipe.full
      BY <2>1, <2>2, LengthType
    <2>4. pipe'.full <=> Len(kept') = Length
      BY <1>1, <1>2, <2>2, <2>3
    <2>5. Carries(pipe', kept')
      BY <1>1, <1>2, <2>1, SameHolds
    <2>6. Exactly(pipe', kept')
      BY <2>4, <2>5 DEF Exactly
    <2> QED BY <1>1, <1>2, <2>6, ContentsExact
  <1> QED BY <1>4, <1>5, <1>6, <1>7, <1>9, <1>10, <1>11 DEF PipeInv

LEMMA FirstIn ==
  ASSUME pipe \in PipeType, Injective(pipe.queue), pipe.queue # <<>>
  PROVE  First \in Tasks /\ Contains(pipe.queue, First)
  <1>1. pipe.queue \in Seq(Tasks)
    BY DEF PipeType
  <1> QED BY <1>1, TailContains DEF First

\* The state between calls.
LEMMA Between ==
  ASSUME PipeInv, PacketsKept, op = NoOp
  PROVE  /\ pipe \in PipeType /\ call \in [Tasks -> CallType]
         /\ isr \in {"put", "get", "none"} /\ kept \in Seq(Packets)
         /\ Injective(pipe.queue) /\ pipe.queue \in Seq(Tasks)
         /\ \A t \in Tasks : Contains(pipe.queue, t) => PipeWaits(t)
         /\ \A t \in Tasks : Contains(pipe.queue, t) => call[t].kind \in {"get", "put"}
         /\ \A t \in Tasks : call[t].kind = "put" => call[t].pkt \in Packets
         /\ Exactly(pipe, kept)
  <1>1. pipe \in PipeType /\ call \in [Tasks -> CallType]
    BY DEF PipeInv, PipeTyped
  <1>2. pipe.queue \in Seq(Tasks)
    BY <1>1 DEF PipeType
  <1>3. \A t \in Tasks : Contains(pipe.queue, t) => call[t].kind \in {"get", "put"}
    BY <1>1 DEF PipeInv, WaitersQueued, PipeWaits, CallType
  <1> QED BY <1>1, <1>2, <1>3 DEF PipeInv, PipeTyped, WaitersQueued, Ring

\* Between tasks only, nobody waits at a pipe that is neither full nor empty.
LEMMA NobodyWaits ==
  ASSUME PipeInv, isr = "none",
         (~FirstIs("put") /\ pipe.full) \/ (~FirstIs("get") /\ ~pipe.full)
  PROVE  pipe.queue = <<>>
  <1> SUFFICES ASSUME pipe.queue # <<>> PROVE FALSE
    OBVIOUS
  <1>1. First \in Tasks /\ Contains(pipe.queue, First)
    BY FirstIn DEF PipeInv, PipeTyped, WaitersQueued
  <1>2. call[First].kind \in {"get", "put"}
    BY <1>1 DEF PipeInv, PipeTyped, WaitersQueued, PipeWaits, CallType
  <1> QED BY <1>1, <1>2 DEF PipeInv, Meeting, FirstIs, Empty

LEMMA BeginGetIs ==
  ASSUME pipe \in PipeType, NEW t \in Tasks \union {Lsr}, NEW resume \in BOOLEAN,
         NEW wait \in BOOLEAN, BeginGet(t, resume, wait)
  PROVE  /\ op' \in OpType /\ op' # NoOp /\ op'.step = IF pipe.full THEN "fetch" ELSE "test"
         /\ op'.t = t /\ op'.resume = resume /\ op'.wait = wait /\ ~op'.over
  <1>1. 0 \in 0..Length /\ 0 \in Cells
    BY LengthType
  <1>2. /\ op' \in OpType /\ op'.step = IF pipe.full THEN "fetch" ELSE "test"
        /\ op'.t = t /\ op'.resume = resume /\ op'.wait = wait /\ ~op'.over
    BY <1>1 DEF BeginGet, NoOp, OpType
  <1> QED BY <1>2, NoOpType

LEMMA GetInv ==
  ASSUME PipeInv, PacketsKept, NEW c \in Tasks \union {Lsr}, NEW wait \in BOOLEAN,
         PipeGet(c, wait)
  PROVE  PipeInv' /\ NoDrop /\ NoLoss
  <1>1. /\ op = NoOp /\ isr # "get" /\ ~FirstIs("put") /\ (wait => c \in Tasks /\ ~PipeWaits(c))
        /\ pipe' = pipe /\ call' = call /\ isr' = isr /\ kept' = kept
        /\ BeginGet(c, FALSE, wait)
    BY DEF PipeGet, TasksGet, CallerOf
  <1>2. /\ pipe \in PipeType /\ call \in [Tasks -> CallType]
        /\ isr \in {"put", "get", "none"} /\ kept \in Seq(Packets) /\ Exactly(pipe, kept)
    BY <1>1, Between
  <1>3. /\ op' \in OpType /\ op' # NoOp /\ op'.step = IF pipe.full THEN "fetch" ELSE "test"
        /\ op'.t = c /\ ~op'.resume /\ op'.wait = wait /\ ~op'.over
    BY <1>1, <1>2, BeginGetIs
  <1>4. PipeTyped'
    BY <1>1, <1>2, <1>3 DEF PipeTyped
  <1>5. WaitersQueued'
    BY <1>1, <1>3 DEF PipeInv, WaitersQueued, PipeWaits
  <1>6. Meeting'
    <2> SUFFICES ASSUME isr = "none" PROVE Meeting'
      BY <1>1 DEF Meeting
    <2>1. CASE pipe.full
      <3>1. pipe.queue = <<>>
        BY <1>1, <2>1, NobodyWaits
      <3> QED BY <1>1, <1>3, <2>1, <3>1, NotIn DEF Meeting
    <2>2. CASE ~pipe.full
      BY <1>1, <1>3, <2>2 DEF PipeInv, Meeting, Empty
    <2> QED BY <2>1, <2>2
  <1>7. OneEnd'
    BY <1>1, <1>3 DEF PipeInv, OneEnd
  <1>8. Ring'
    BY <1>1, <1>2, <1>3, LengthType DEF Ring, Exactly
  <1>9. NoDrop
    BY <1>1, <1>3, NoOpType DEF NoDrop, IsDropped, PipeWaits
  <1> QED BY <1>3, <1>4, <1>5, <1>6, <1>7, <1>8, <1>9 DEF PipeInv, NoLoss, PacketsKept

LEMMA LeastOfTwo ==
  ASSUME NEW a \in Nat, NEW b \in Nat
  PROVE  Min({a, b}) \in Nat /\ Min({a, b}) <= a /\ Min({a, b}) <= b
  <1>1. {a, b} \in SUBSET Nat /\ {a, b} # {}
    OBVIOUS
  <1>2. \E x \in {a, b} : \A y \in {a, b} : x <= y
    BY <1>1, LeastNumber
  <1>3. Min({a, b}) \in {a, b} /\ \A y \in {a, b} : Min({a, b}) <= y
    BY <1>2 DEF Min
  <1> QED BY <1>3

\* The number of packets that a get of many takes.
LEMMA ManyIs ==
  ASSUME pipe \in PipeType, NEW lim \in 1..Length, NEW n, n = Min({lim, Distance(pipe.rp, pipe.wp)})
  PROVE  /\ n \in 0..Length
         /\ \A k \in Seq(Packets) : Carries(pipe, k) => n <= Len(k)
  <1>1. Length \in Nat /\ pipe.rp \in Cells /\ pipe.wp \in Cells
    BY LengthType DEF PipeType
  <1> DEFINE d == Distance(pipe.rp, pipe.wp)
  <1>2. d \in Cells
    BY <1>1, DistanceIs
  <1>3. ASSUME NEW k \in Seq(Packets), Carries(pipe, k) PROVE d <= Len(k) /\ Len(k) \in Nat
    <2>1. Len(k) \in Nat /\ d = IF Len(k) = Length THEN 0 ELSE Len(k)
      BY <1>3, HoldsDistance
    <2> HIDE DEF d
    <2> QED BY <2>1
  <1> HIDE DEF d
  <1>4. d \in Nat /\ d <= Length /\ lim \in Nat
    BY <1>1, <1>2 DEF Cells
  <1>5. n = Min({lim, d})
    BY DEF d
  <1>6. n \in Nat /\ n <= d
    BY <1>4, <1>5, LeastOfTwo
  <1>7. n \in 0..Length
    BY <1>1, <1>4, <1>6
  <1>8. ASSUME NEW k \in Seq(Packets), Carries(pipe, k) PROVE n <= Len(k)
    BY <1>3, <1>4, <1>6, <1>8
  <1> QED BY <1>7, <1>8

LEMMA GetManyInv ==
  ASSUME PipeInv, PacketsKept, NEW lim \in 1..Length, PipeGet8M(lim)
  PROVE  PipeInv' /\ NoDrop /\ NoLoss
  <1> DEFINE n == Min({lim, Distance(pipe.rp, pipe.wp)})
  <1>1. /\ op = NoOp /\ isr = "put"
        /\ pipe' = pipe /\ call' = call /\ isr' = isr /\ kept' = kept
        /\ op' = [NoOp EXCEPT !.step = "fetchM", !.n = n]
    BY DEF PipeGet8M, TasksGet
  <1>2. /\ pipe \in PipeType /\ call \in [Tasks -> CallType]
        /\ isr \in {"put", "get", "none"} /\ kept \in Seq(Packets) /\ Exactly(pipe, kept)
    BY <1>1, Between
  <1>3. n \in 0..Length /\ n <= Len(kept)
    BY <1>2, ManyIs DEF Exactly
  <1> HIDE DEF n
  <1>4. /\ op' \in OpType /\ op'.step = "fetchM" /\ op'.n = n
        /\ ~op'.resume /\ ~op'.wait /\ ~op'.over
    BY <1>1, <1>3, LengthType DEF NoOp, OpType
  <1>5. op' # NoOp
    BY <1>4, NoOpType
  <1>6. PipeTyped'
    BY <1>1, <1>2, <1>4 DEF PipeTyped
  <1>7. WaitersQueued'
    BY <1>1, <1>4 DEF PipeInv, WaitersQueued, PipeWaits
  <1>8. Meeting' /\ OneEnd'
    BY <1>1, <1>4 DEF PipeInv, Meeting, OneEnd
  <1>9. Ring'
    BY <1>1, <1>2, <1>3, <1>4, <1>5 DEF Ring
  <1>10. NoDrop
    BY <1>1, <1>4, NoOpType DEF NoDrop, IsDropped, PipeWaits
  <1> QED BY <1>5, <1>6, <1>7, <1>8, <1>9, <1>10 DEF PipeInv, NoLoss, PacketsKept

\* The pipe without the first task of its queue.
LEMMA DequeueIs ==
  ASSUME pipe \in PipeType, Injective(pipe.queue), pipe.queue # <<>>
  PROVE  LET p == [pipe EXCEPT !.queue = Tail(@)]
         IN  /\ p \in PipeType /\ Injective(p.queue)
             /\ p.rp = pipe.rp /\ p.wp = pipe.wp /\ p.full = pipe.full /\ p.cell = pipe.cell
             /\ \A u : Contains(p.queue, u) <=> Contains(pipe.queue, u) /\ u # First
  <1> DEFINE q == Tail(pipe.queue)
  <1>1. pipe.queue \in Seq(Tasks)
    BY DEF PipeType
  <1>2. /\ q \in Seq(Tasks) /\ Injective(q)
        /\ \A u : Contains(q, u) <=> Contains(pipe.queue, u) /\ u # First
    BY <1>1, TailContains DEF First
  <1>3. [pipe EXCEPT !.queue = Tail(@)] = [pipe EXCEPT !.queue = q]
    BY DEF PipeType
  <1> HIDE DEF q
  <1>4. LET p == [pipe EXCEPT !.queue = q]
        IN  /\ p \in PipeType /\ p.queue = q
            /\ p.rp = pipe.rp /\ p.wp = pipe.wp /\ p.full = pipe.full /\ p.cell = pipe.cell
    BY <1>2, QueueIs
  <1> QED BY <1>2, <1>3, <1>4

\* A task leaves the queue between calls, resumed or not.
LEMMA LeaveInv ==
  ASSUME PipeInv, PacketsKept, op = NoOp, op' = op, isr' = isr, kept' = kept,
         pipe' \in PipeType, pipe'.rp = pipe.rp, pipe'.wp = pipe.wp,
         pipe'.full = pipe.full, pipe'.cell = pipe.cell, Injective(pipe'.queue),
         NEW t \in Tasks,
         \A u : Contains(pipe'.queue, u) <=> Contains(pipe.queue, u) /\ u # t,
         call' = Returned({t}) \/ call' = call
  PROVE  PipeInv' /\ NoLoss /\ (call' = Returned({t}) => NoDrop)
  <1>1. /\ call \in [Tasks -> CallType] /\ isr \in {"put", "get", "none"}
        /\ kept \in Seq(Packets) /\ Exactly(pipe, kept)
        /\ \A u \in Tasks : Contains(pipe.queue, u) => PipeWaits(u)
        /\ \A u \in Tasks : call[u].kind = "put" => call[u].pkt \in Packets
    BY Between
  <1>2. /\ call' \in [Tasks -> CallType]
        /\ \A u \in Tasks : call'[u] = call[u] \/ (u = t /\ call'[u] = NoCallOfPipe)
        /\ call' = Returned({t}) => call'[t] = NoCallOfPipe
    BY <1>1, ReturnedIs
  <1>3. PipeTyped'
    BY <1>1, <1>2, NoOpType DEF PipeTyped
  <1>4. WaitersQueued'
    <2>1. \A u \in Tasks : Contains(pipe'.queue, u) => call'[u].kind # "none"
      BY <1>1, <1>2 DEF PipeWaits
    <2>2. \A u \in Tasks : call'[u].kind = "put" => call'[u].pkt \in Packets
      BY <1>1, <1>2, NoOpType
    <2> QED BY <2>1, <2>2, NoOpType DEF WaitersQueued, PipeWaits
  <1>5. Meeting'
    BY <1>2, NoOpType DEF PipeInv, Meeting, Empty
  <1>6. OneEnd'
    BY <1>2, NoOpType DEF PipeInv, OneEnd
  <1>7. Exactly(pipe', kept')
    BY <1>1, SameHolds DEF Exactly
  <1>8. Ring'
    BY <1>7, NoOpType DEF Ring
  <1>9. PacketsKept'
    BY <1>1, <1>7, ContentsExact DEF PacketsKept
  <1>10. call' = Returned({t}) => NoDrop
    BY <1>2, NoOpType DEF NoDrop, IsDropped, PipeWaits
  <1> QED BY <1>3, <1>4, <1>5, <1>6, <1>8, <1>9, <1>10 DEF PipeInv, NoLoss

\* A packet is stored for task t: p is the pipe, with t out of the queue if resumed.
LEMMA StorePktInv ==
  ASSUME PipeInv, PacketsKept, op = NoOp, call' = call, isr' = isr, isr # "put",
         ~pipe.full,
         NEW p \in PipeType, p.rp = pipe.rp, p.wp = pipe.wp, p.full = pipe.full,
         p.cell = pipe.cell, Injective(p.queue), isr = "none" => p.queue = <<>>,
         NEW t \in Tasks \union {Lsr}, NEW resume \in BOOLEAN, resume => t \in Tasks,
         \A u : Contains(p.queue, u) <=> Contains(pipe.queue, u) /\ ~(resume /\ u = t),
         NEW x \in Packets, StorePkt(p, t, x, resume)
  PROVE  PipeInv' /\ NoLoss /\ NoDrop
  <1>1. /\ call \in [Tasks -> CallType] /\ isr \in {"put", "get", "none"}
        /\ kept \in Seq(Packets) /\ Exactly(pipe, kept)
        /\ \A u \in Tasks : Contains(pipe.queue, u) => PipeWaits(u)
        /\ \A u \in Tasks : call[u].kind = "put" => call[u].pkt \in Packets
    BY Between
  <1>2. Carries(p, kept) /\ Len(kept) < Length /\ Len(kept) \in Nat
    <2>1. Len(kept) \in Nat /\ Len(kept) <= Length /\ Len(kept) # Length
      BY <1>1, LenProperties DEF Exactly, Carries
    <2> QED BY <1>1, <2>1, LengthType, SameHolds DEF Exactly
  <1>3. /\ op' \in OpType /\ op'.step = "flag" /\ op'.t = t /\ op'.resume = resume
        /\ ~op'.wait /\ ~op'.over
    <2>1. op' = [NoOp EXCEPT !.step = "flag", !.t = t, !.resume = resume]
      BY DEF StorePkt
    <2>2. 0 \in 0..Length /\ 0 \in Cells
      BY LengthType
    <2> QED BY <2>1, <2>2 DEF NoOp, OpType
  <1>4. op' # NoOp
    BY <1>3, NoOpType
  <1>5. /\ pipe' \in PipeType /\ pipe'.queue = p.queue /\ ~pipe'.full
        /\ kept' \in Seq(Packets) /\ Carries(pipe', kept')
    <2> DEFINE s == <<x>>
    <2>1. pipe' = Store(p, s) /\ kept' = Append(kept, x)
      BY DEF StorePkt
    <2>2. s \in Seq(Packets) /\ Len(s) = 1 /\ Append(kept, x) = kept \o s
      BY <1>1, AppendIsConcat
    <2> HIDE DEF s
    <2>3. Len(s) <= Length /\ Len(kept) + Len(s) <= Length
      BY <1>2, <2>2, LengthType
    <2>4. kept' \in Seq(Packets)
      BY <1>1, <2>1, <2>2, ConcatProperties
    <2>5. Carries(pipe', kept')
      BY <1>1, <1>2, <2>1, <2>2, <2>3, StoreHolds
    <2>6. pipe' \in PipeType /\ pipe'.queue = p.queue /\ pipe'.full = p.full
      BY <2>1, <2>2, <2>3, StoreIs
    <2> QED BY <2>4, <2>5, <2>6
  <1>6. PipeTyped'
    BY <1>1, <1>3, <1>5 DEF PipeTyped
  <1>7. WaitersQueued'
    BY <1>1, <1>3, <1>5 DEF WaitersQueued, PipeWaits
  <1>8. Meeting'
    BY <1>3, <1>5, NotIn DEF Meeting
  <1>9. OneEnd'
    BY <1>3 DEF PipeInv, OneEnd
  <1>10. Ring'
    BY <1>3, <1>4, <1>5 DEF Ring
  <1>11. NoDrop
    BY <1>3, <1>5, NoOpType DEF NoDrop, IsDropped, PipeWaits
  <1> QED BY <1>4, <1>6, <1>7, <1>8, <1>9, <1>10, <1>11 DEF PipeInv, NoLoss, PacketsKept

\* The read pointer is kept for a put to the front.
LEMMA BeginFrontInv ==
  ASSUME PipeInv, PacketsKept, op = NoOp, call' = call, isr' = isr, isr # "put",
         ~pipe.full, isr = "none" => pipe.queue = <<>>,
         NEW t \in Tasks \union {Lsr}, NEW x \in Packets, BeginFront(t, x)
  PROVE  PipeInv' /\ NoLoss /\ NoDrop
  <1>1. /\ pipe \in PipeType /\ call \in [Tasks -> CallType]
        /\ isr \in {"put", "get", "none"} /\ kept \in Seq(Packets) /\ Exactly(pipe, kept)
        /\ pipe.rp \in Cells
    BY Between DEF PipeType
  <1>2. pipe' = pipe /\ kept' = kept
    BY DEF BeginFront
  <1>3. /\ op' \in OpType /\ op'.step = "front" /\ op'.pkt = x
        /\ ~op'.wait /\ ~op'.resume
    <2>1. op' = [NoOp EXCEPT !.step = "front", !.t = t, !.pkt = x, !.rp = pipe.rp]
      BY DEF BeginFront
    <2>2. 0 \in 0..Length
      BY LengthType
    <2> QED BY <1>1, <2>1, <2>2 DEF NoOp, OpType
  <1>4. op' # NoOp
    BY <1>3, NoOpType
  <1>5. PipeTyped'
    BY <1>1, <1>2, <1>3 DEF PipeTyped
  <1>6. WaitersQueued'
    BY <1>2, <1>3 DEF PipeInv, WaitersQueued, PipeWaits
  <1>7. Meeting'
    BY <1>2, <1>3, NotIn DEF Meeting
  <1>8. OneEnd'
    BY <1>3 DEF PipeInv, OneEnd
  <1>9. Ring'
    BY <1>1, <1>2, <1>3, <1>4 DEF Ring
  <1>10. NoDrop
    BY <1>2, <1>3, NoOpType DEF NoDrop, IsDropped, PipeWaits
  <1> QED BY <1>4, <1>5, <1>6, <1>7, <1>8, <1>9, <1>10 DEF PipeInv, NoLoss, PacketsKept

\* The packet is put in front of where the read pointer was.
LEMMA FrontInv ==
  ASSUME PipeInv, FrontStep
  PROVE  PipeInv' /\ NoDrop /\ NoLoss
  <1>1. /\ pipe \in PipeType /\ call \in [Tasks -> CallType] /\ op \in OpType
        /\ isr \in {"put", "get", "none"} /\ kept \in Seq(Packets) /\ op.step = "front"
        /\ op.rp \in Cells /\ op.t \in Tasks \union {Lsr, None}
    BY DEF PipeInv, PipeTyped, FrontStep, OpType
  <1>2. /\ ~op.resume /\ op.pkt \in Packets
        /\ ~pipe.full /\ Carries(pipe, kept) /\ Len(kept) # Length
        /\ isr # "put" /\ (isr = "none" => pipe.queue = <<>>)
    BY <1>1 DEF PipeInv, Ring, Exactly, OneEnd, Meeting
  <1>3. /\ pipe' = InFront(pipe, op.rp, op.pkt) /\ kept' = <<op.pkt>> \o kept
        /\ call' = call /\ isr' = isr
        /\ op' = [NoOp EXCEPT !.step = "flag", !.t = op.t, !.stale = op.rp # pipe.rp]
    BY DEF FrontStep
  <1>4. /\ op' \in OpType /\ op'.step = "flag" /\ ~op'.resume /\ ~op'.wait
        /\ op'.stale = (op.rp # pipe.rp)
    <2>1. 0 \in 0..Length /\ 0 \in Cells
      BY LengthType
    <2> DEFINE st == op.rp # pipe.rp
    <2>2. st \in BOOLEAN
      OBVIOUS
    <2>3. op' = [NoOp EXCEPT !.step = "flag", !.t = op.t, !.stale = st]
      BY <1>3
    <2> HIDE DEF st
    <2>4. op' \in OpType /\ op'.step = "flag" /\ ~op'.resume /\ ~op'.wait /\ op'.stale = st
      BY <1>1, <2>1, <2>2, <2>3 DEF NoOp, OpType
    <2> QED BY <2>4 DEF st
  <1>5. op' # NoOp
    BY <1>4, NoOpType
  <1>6. pipe' \in PipeType /\ pipe'.queue = pipe.queue /\ ~pipe'.full
    <2> DEFINE r == InFront(pipe, op.rp, op.pkt)
    <2>1. r \in PipeType /\ r.queue = pipe.queue /\ r.full = pipe.full
      BY <1>1, <1>2, FrontIs
    <2> HIDE DEF r
    <2> QED BY <1>2, <1>3, <2>1 DEF r
  <1>7. kept' \in Seq(Packets)
    <2>1. <<op.pkt>> \in Seq(Packets)
      BY <1>2
    <2> QED BY <1>1, <1>3, <2>1, ConcatProperties
  <1>8. op.rp = pipe.rp => Carries(pipe', kept')
    <2>1. Len(kept) < Length
      BY <1>1, <1>2, LengthType, LenProperties DEF Carries
    <2> QED BY <1>1, <1>2, <1>3, <2>1, FrontHolds
  <1>9. PipeTyped'
    BY <1>1, <1>3, <1>4, <1>6, <1>7 DEF PipeTyped
  <1>10. WaitersQueued'
    BY <1>3, <1>4, <1>6 DEF PipeInv, WaitersQueued, PipeWaits
  <1>11. Meeting'
    BY <1>2, <1>3, <1>4, <1>6, NotIn DEF Meeting
  <1>12. OneEnd'
    BY <1>1, <1>2, <1>3, <1>4 DEF PipeInv, OneEnd
  <1>13. Ring'
    BY <1>4, <1>5, <1>6, <1>8 DEF Ring
  <1>14. NoDrop
    BY <1>1, <1>2, <1>3, <1>4, <1>6 DEF NoDrop, IsDropped, PipeWaits
  <1> QED BY <1>5, <1>9, <1>10, <1>11, <1>12, <1>13, <1>14 DEF PipeInv, NoLoss, PacketsKept

LEMMA PutInv ==
  ASSUME PipeInv, PacketsKept, NEW c \in Tasks \union {Lsr}, NEW x \in Packets,
         NEW front \in BOOLEAN, NEW wait \in BOOLEAN, PipePut(c, x, front, wait)
  PROVE  PipeInv' /\ NoLoss /\ NoDrop
  <1>1. /\ op = NoOp /\ isr # "put" /\ isr' = isr
        /\ wait => c \in Tasks /\ ~PipeWaits(c)
    BY DEF PipePut, TasksPut, CallerOf
  <1>2. /\ pipe \in PipeType /\ call \in [Tasks -> CallType]
        /\ isr \in {"put", "get", "none"} /\ kept \in Seq(Packets) /\ Exactly(pipe, kept)
        /\ Injective(pipe.queue)
        /\ \A u \in Tasks : Contains(pipe.queue, u) => PipeWaits(u)
        /\ \A u \in Tasks : call[u].kind = "put" => call[u].pkt \in Packets
    BY <1>1, Between
  <1>3. ASSUME FirstIs("get"), pipe' = [pipe EXCEPT !.queue = Tail(@)],
               call' = Returned({First}), op' = op, kept' = kept
        PROVE  PipeInv' /\ NoLoss /\ NoDrop
    <2>1. pipe.queue # <<>>
      BY <1>3 DEF FirstIs
    <2>2. First \in Tasks
      BY <1>2, <2>1, FirstIn
    <2>3. /\ pipe' \in PipeType /\ Injective(pipe'.queue)
          /\ pipe'.rp = pipe.rp /\ pipe'.wp = pipe.wp /\ pipe'.full = pipe.full
          /\ pipe'.cell = pipe.cell
          /\ \A u : Contains(pipe'.queue, u) <=> Contains(pipe.queue, u) /\ u # First
      BY <1>2, <1>3, <2>1, DequeueIs
    <2> QED BY <1>1, <1>3, <2>2, <2>3, LeaveInv
  <1>4. ASSUME ~FirstIs("get"), ~pipe.full, StorePkt(pipe, c, x, FALSE), call' = call
        PROVE  PipeInv' /\ NoLoss /\ NoDrop
    <2>1. isr = "none" => pipe.queue = <<>>
      BY <1>4, NobodyWaits
    <2> QED BY <1>1, <1>2, <1>4, <2>1, StorePktInv
  <1>6. ASSUME ~FirstIs("get"), ~pipe.full, BeginFront(c, x), call' = call
        PROVE  PipeInv' /\ NoLoss /\ NoDrop
    <2>1. isr = "none" => pipe.queue = <<>>
      BY <1>6, NobodyWaits
    <2> QED BY <1>1, <1>6, <2>1, BeginFrontInv
  <1>5. ASSUME pipe.full, wait, op' = op, kept' = kept,
               Enqueue(c, [kind |-> "put", front |-> front, pkt |-> x])
        PROVE  PipeInv' /\ NoLoss /\ NoDrop
    <2> DEFINE k == [kind |-> "put", front |-> front, pkt |-> x]
    <2>1. k \in CallType /\ k.kind = "put" /\ k.pkt = x
      BY DEF CallType
    <2>2. c \in Tasks /\ ~PipeWaits(c) /\ ~Contains(pipe.queue, c)
      BY <1>1, <1>2, <1>5
    <2> HIDE DEF k
    <2>3. Enqueue(c, k)
      BY <1>5 DEF k
    <2>4. /\ pipe' \in PipeType /\ Injective(pipe'.queue)
          /\ pipe'.rp = pipe.rp /\ pipe'.wp = pipe.wp /\ pipe'.full = pipe.full
          /\ pipe'.cell = pipe.cell
          /\ \A u : Contains(pipe'.queue, u) <=> Contains(pipe.queue, u) \/ u = c
          /\ call' \in [Tasks -> CallType] /\ call'[c] = k
          /\ \A u \in Tasks \ {c} : call'[u] = call[u]
      BY <1>2, <2>1, <2>2, <2>3, EnqueueIs
    <2>5. PipeTyped'
      BY <1>1, <1>2, <1>5, <2>4, NoOpType DEF PipeTyped
    <2>6. WaitersQueued'
      <3>1. \A u \in Tasks : Contains(pipe'.queue, u) => call'[u].kind # "none"
        BY <1>2, <2>1, <2>4 DEF PipeWaits
      <3>2. \A u \in Tasks : call'[u].kind = "put" => call'[u].pkt \in Packets
        BY <1>2, <2>1, <2>4
      <3> QED BY <1>1, <1>5, <2>4, <3>1, <3>2, NoOpType DEF WaitersQueued, PipeWaits
    <2>7. Meeting'
      BY <1>1, <1>5, <2>1, <2>4, NoOpType DEF PipeInv, Meeting, Empty
    <2>8. OneEnd'
      BY <1>1, <1>5, <2>1, <2>4, NoOpType DEF PipeInv, OneEnd
    <2>9. Exactly(pipe', kept')
      BY <1>2, <1>5, <2>4, SameHolds DEF Exactly
    <2>10. Ring'
      BY <1>1, <1>5, <2>9, NoOpType DEF Ring
    <2>11. PacketsKept'
      BY <1>2, <1>5, <2>4, <2>9, ContentsExact DEF PacketsKept
    <2>12. NoDrop
      BY <1>1, <1>5, <2>2, <2>4, NoOpType DEF NoDrop, IsDropped, PipeWaits
    <2> QED BY <2>5, <2>6, <2>7, <2>8, <2>10, <2>11, <2>12 DEF PipeInv, NoLoss
  <1> QED BY <1>1, <1>3, <1>4, <1>5, <1>6 DEF PipePut

LEMMA RunIs ==
  ASSUME NEW s \in Runs
  PROVE  /\ s \in Seq(Packets) /\ Len(s) \in Nat /\ Len(s) > 0 /\ Len(s) <= Length
  <1>1. PICK n \in 1..Length - 1 : s \in [1..n -> Packets]
    BY DEF Runs
  <1>2. n \in Nat /\ n > 0 /\ n <= Length
    BY LengthType
  <1>3. s \in Seq(Packets)
    BY <1>1, <1>2, SeqDef
  <1>4. 1..Len(s) = 1..n /\ Len(s) \in Nat
    BY <1>1, <1>3, LenProperties
  <1>5. Len(s) = n
    BY <1>2, <1>4, UpTo
  <1> QED BY <1>2, <1>3, <1>5

\* What smx_PipePut8M() finds room for fits in, unless the pipe is full.
LEMMA RoomFits ==
  ASSUME pipe \in PipeType, NEW k \in Seq(Packets), Carries(pipe, k), Len(k) # Length,
         NEW n \in Nat, n <= Room
  PROVE  Len(k) + n <= Length
  <1> DEFINE l == Len(k)
  <1>1. /\ Length \in Nat /\ Length > 0 /\ pipe.rp \in Cells /\ pipe.wp \in Cells
        /\ pipe.rp \in Nat /\ pipe.rp < Length /\ pipe.wp \in Nat /\ pipe.wp < Length
    BY LengthType DEF PipeType, Cells
  <1>2. Distance(pipe.rp, pipe.wp) = l /\ l \in Nat
    BY HoldsDistance
  <1> HIDE DEF l
  <1>3. l = IF pipe.rp <= pipe.wp THEN pipe.wp - pipe.rp ELSE pipe.wp + Length - pipe.rp
    BY <1>1, <1>2, DistanceIs
  <1>4. n <= IF pipe.rp > pipe.wp THEN pipe.rp - pipe.wp - 1 ELSE (Length - 1 - pipe.wp) + pipe.rp
    BY DEF Room
  <1>5. l + n <= Length
    BY <1>1, <1>2, <1>3, <1>4
  <1> QED BY <1>5 DEF l

LEMMA PutManyInv ==
  ASSUME PipeInv, PacketsKept, NEW s \in Runs, PipePut8M(s)
  PROVE  PipeInv' /\ NoLoss /\ NoDrop
  <1>1. /\ op = NoOp /\ isr = "get" /\ isr' = isr /\ call' = call
        /\ pipe' = Store(pipe, s) /\ kept' = kept \o s /\ Len(s) <= Room
        /\ op' = [NoOp EXCEPT !.step = "flag", !.over = pipe.full]
    BY DEF PipePut8M, TasksPut
  <1>2. /\ pipe \in PipeType /\ call \in [Tasks -> CallType]
        /\ isr \in {"put", "get", "none"} /\ kept \in Seq(Packets) /\ Exactly(pipe, kept)
        /\ Injective(pipe.queue) /\ pipe.full \in BOOLEAN
    BY <1>1, Between DEF PipeType
  <1>3. s \in Seq(Packets) /\ Len(s) \in Nat /\ Len(s) > 0 /\ Len(s) <= Length
    BY RunIs
  <1>4. /\ op' \in OpType /\ op'.step = "flag" /\ ~op'.resume /\ ~op'.wait
        /\ op'.over = pipe.full
    <2>1. 0 \in 0..Length /\ 0 \in Cells
      BY LengthType
    <2> QED BY <1>1, <1>2, <2>1 DEF NoOp, OpType
  <1>5. op' # NoOp
    BY <1>4, NoOpType
  <1>6. /\ pipe' \in PipeType /\ pipe'.queue = pipe.queue /\ pipe'.full = pipe.full
    BY <1>1, <1>2, <1>3, StoreIs
  <1>7. /\ kept' \in Seq(Packets) /\ Len(kept') = Len(kept) + Len(s)
    BY <1>1, <1>2, <1>3, ConcatProperties
  <1>8. PipeTyped'
    BY <1>1, <1>2, <1>4, <1>6, <1>7 DEF PipeTyped
  <1>9. WaitersQueued'
    BY <1>1, <1>4, <1>6 DEF PipeInv, WaitersQueued, PipeWaits
  <1>10. Meeting' /\ OneEnd'
    BY <1>1, <1>4 DEF PipeInv, Meeting, OneEnd
  <1>11. Ring'
    <2>1. CASE pipe.full
      <3>1. Len(kept') > Length
        BY <1>2, <1>3, <1>7, <2>1, LengthType DEF Exactly
      <3> QED BY <1>4, <1>5, <2>1, <3>1 DEF Ring
    <2>2. CASE ~pipe.full
      <3>1. Carries(pipe, kept) /\ Len(kept) # Length
        BY <1>2, <2>2 DEF Exactly
      <3>2. Len(kept) + Len(s) <= Length
        BY <1>1, <1>2, <1>3, <3>1, RoomFits
      <3>3. Carries(pipe', kept')
        BY <1>1, <1>2, <1>3, <3>1, <3>2, StoreHolds
      <3> QED BY <1>4, <1>5, <1>6, <2>2, <3>3 DEF Ring
    <2> QED BY <2>1, <2>2
  <1>12. NoDrop
    BY <1>1, <1>4, <1>6, NoOpType DEF NoDrop, IsDropped, PipeWaits
  <1> QED BY <1>5, <1>8, <1>9, <1>10, <1>11, <1>12 DEF PipeInv, NoLoss, PacketsKept

LEMMA GetFromPutterInv ==
  ASSUME PipeInv, PacketsKept, GetFromPutter
  PROVE  PipeInv' /\ NoLoss /\ NoDrop
  <1> DEFINE c  == call[First]
             p1 == [pipe EXCEPT !.queue = Tail(@)]
  <1>1. /\ op = NoOp /\ isr # "get" /\ isr' = isr /\ op' = op
        /\ pipe.queue # <<>> /\ c.kind = "put" /\ call' = Returned({First})
        /\ pipe' = (IF c.front THEN p1 ELSE Swap(p1, c.pkt))
        /\ kept' = (IF c.front THEN kept ELSE Append(Rest(kept, 1), c.pkt))
    BY DEF GetFromPutter, TasksGet, FirstIs
  <1>2. /\ pipe \in PipeType /\ call \in [Tasks -> CallType]
        /\ isr \in {"put", "get", "none"} /\ kept \in Seq(Packets) /\ Exactly(pipe, kept)
        /\ Injective(pipe.queue)
        /\ \A u \in Tasks : Contains(pipe.queue, u) => PipeWaits(u)
        /\ \A u \in Tasks : call[u].kind = "put" => call[u].pkt \in Packets
    BY <1>1, Between
  <1>3. First \in Tasks /\ Contains(pipe.queue, First) /\ c.pkt \in Packets
    BY <1>1, <1>2, FirstIn
  <1>4. isr = "none" /\ pipe.full
    BY <1>1, <1>2, <1>3 DEF PipeInv, OneEnd, Meeting
  <1>5. /\ p1 \in PipeType /\ Injective(p1.queue)
        /\ p1.rp = pipe.rp /\ p1.wp = pipe.wp /\ p1.full = pipe.full /\ p1.cell = pipe.cell
        /\ \A u : Contains(p1.queue, u) <=> Contains(pipe.queue, u) /\ u # First
    BY <1>1, <1>2, DequeueIs
  <1> HIDE DEF p1, c
  <1>6. CASE c.front
    <2>1. pipe' = p1 /\ kept' = kept
      BY <1>1, <1>6
    <2> QED BY <1>1, <1>3, <1>5, <2>1, LeaveInv
  <1>7. CASE ~c.front
    <2>1. pipe' = Swap(p1, c.pkt) /\ kept' = Append(Rest(kept, 1), c.pkt)
      BY <1>1, <1>7
    <2>2. Carries(p1, kept) /\ Len(kept) = Length /\ Length \in Nat /\ Length > 0
      BY <1>2, <1>4, <1>5, SameHolds, LengthType DEF Exactly
    <2>3. /\ pipe' \in PipeType /\ pipe'.queue = p1.queue /\ pipe'.full /\ Carries(pipe', kept')
      BY <1>2, <1>3, <1>5, <2>1, <2>2, SwapIs
    <2>4. kept' \in Seq(Packets) /\ Len(kept') = Length
      <3> DEFINE rest == Rest(kept, 1)
      <3>1. 1 \in Nat /\ 1 <= Len(kept)
        BY <2>2
      <3>2. rest \in Seq(Packets) /\ Len(rest) = Len(kept) - 1
        BY <1>2, <3>1, RestIs
      <3> HIDE DEF rest
      <3>3. Append(rest, c.pkt) \in Seq(Packets) /\ Len(Append(rest, c.pkt)) = Len(rest) + 1
        BY <1>3, <3>2, AppendProperties
      <3> QED BY <2>1, <2>2, <3>2, <3>3 DEF rest
    <2>5. Exactly(pipe', kept')
      BY <2>3, <2>4 DEF Exactly
    <2>6. /\ call' \in [Tasks -> CallType]
          /\ \A u \in Tasks : call'[u] = IF u = First THEN NoCallOfPipe ELSE call[u]
      BY <1>1, <1>2, ReturnedIs
    <2>7. PipeTyped'
      BY <1>1, <1>2, <2>3, <2>4, <2>6, NoOpType DEF PipeTyped
    <2>8. WaitersQueued'
      <3>1. \A u \in Tasks : Contains(pipe'.queue, u) => call'[u].kind # "none"
        BY <1>2, <1>5, <2>3, <2>6 DEF PipeWaits
      <3>2. \A u \in Tasks : call'[u].kind = "put" => call'[u].pkt \in Packets
        BY <1>2, <2>6, NoOpType
      <3> QED BY <1>1, <1>5, <2>3, <3>1, <3>2, NoOpType DEF WaitersQueued, PipeWaits
    <2>9. Meeting'
      <3>1. \A u \in Tasks : ~(Contains(pipe'.queue, u) /\ call'[u].kind = "get")
        BY <1>4, <1>5, <2>3, <2>6, NoOpType DEF PipeInv, Meeting, Empty
      <3> QED BY <1>1, <2>3, <3>1, NoOpType DEF Meeting
    <2>10. OneEnd'
      BY <1>1, <1>4 DEF OneEnd
    <2>11. Ring'
      BY <1>1, <2>5, NoOpType DEF Ring
    <2>12. PacketsKept'
      BY <2>3, <2>4, <2>5, ContentsExact DEF PacketsKept
    <2>13. NoDrop
      BY <1>1, <1>5, <2>3, <2>6, NoOpType DEF NoDrop, IsDropped, PipeWaits
    <2> QED BY <2>7, <2>8, <2>9, <2>10, <2>11, <2>12, <2>13 DEF PipeInv, NoLoss
  <1> QED BY <1>6, <1>7

LEMMA ResumeInv ==
  ASSUME PipeInv, PacketsKept, PipeResume
  PROVE  PipeInv' /\ NoLoss /\ (NoDrop \/ pipe.full)
  <1> DEFINE c  == call[First]
             p1 == [pipe EXCEPT !.queue = Tail(@)]
  <1>1. /\ op = NoOp /\ pipe.queue # <<>> /\ isr' = isr /\ call' = call
        /\ \/ /\ c.kind = "put" /\ ~pipe.full
              /\ StorePkt(p1, First, c.pkt, TRUE)
           \/ c.kind = "put" /\ pipe.full /\ pipe' = p1 /\ op' = op /\ kept' = kept
           \/ /\ c.kind = "get" /\ pipe' = p1 /\ kept' = kept
              /\ BeginGet(First, TRUE, FALSE)
    BY DEF PipeResume
  <1>2. /\ pipe \in PipeType /\ call \in [Tasks -> CallType]
        /\ isr \in {"put", "get", "none"} /\ kept \in Seq(Packets) /\ Exactly(pipe, kept)
        /\ Injective(pipe.queue)
        /\ \A u \in Tasks : Contains(pipe.queue, u) => PipeWaits(u)
        /\ \A u \in Tasks : call[u].kind = "put" => call[u].pkt \in Packets
    BY <1>1, Between
  <1>3. First \in Tasks /\ Contains(pipe.queue, First)
    BY <1>1, <1>2, FirstIn
  <1>4. /\ p1 \in PipeType /\ Injective(p1.queue)
        /\ p1.rp = pipe.rp /\ p1.wp = pipe.wp /\ p1.full = pipe.full /\ p1.cell = pipe.cell
        /\ \A u : Contains(p1.queue, u) <=> Contains(pipe.queue, u) /\ u # First
    BY <1>1, <1>2, DequeueIs
  <1> HIDE DEF p1
  <1>5. ASSUME c.kind = "put", ~pipe.full, StorePkt(p1, First, c.pkt, TRUE)
        PROVE  PipeInv' /\ NoLoss /\ NoDrop
    <2>1. isr # "put" /\ isr # "none"
      BY <1>3, <1>5 DEF PipeInv, OneEnd, Meeting
    <2>2. c.pkt \in Packets
      BY <1>2, <1>3, <1>5
    <2> HIDE DEF c
    <2> QED BY <1>1, <1>3, <1>4, <1>5, <2>1, <2>2, StorePktInv
  <1>6. ASSUME pipe.full, pipe' = p1, op' = op, kept' = kept
        PROVE  PipeInv' /\ NoLoss
    BY <1>1, <1>3, <1>4, <1>6, LeaveInv
  <1>7. ASSUME c.kind = "get", pipe' = p1, kept' = kept, BeginGet(First, TRUE, FALSE)
        PROVE  PipeInv' /\ NoLoss /\ NoDrop
    <2>1. /\ op' \in OpType /\ op' # NoOp /\ op'.step = IF pipe.full THEN "fetch" ELSE "test"
          /\ op'.t = First /\ op'.resume /\ ~op'.wait /\ ~op'.over
      BY <1>2, <1>3, <1>7, BeginGetIs
    <2>2. isr # "get" /\ (isr = "none" => Empty)
      BY <1>3, <1>7 DEF PipeInv, OneEnd, Meeting
    <2> HIDE DEF c
    <2>3. PipeTyped'
      BY <1>1, <1>2, <1>4, <1>7, <2>1 DEF PipeTyped
    <2>4. WaitersQueued'
      BY <1>1, <1>2, <1>3, <1>4, <1>7, <2>1 DEF WaitersQueued, PipeWaits
    <2>5. Meeting'
      BY <1>1, <1>4, <1>7, <2>1, <2>2 DEF PipeInv, Meeting, Empty
    <2>6. OneEnd'
      BY <1>1, <2>1, <2>2 DEF PipeInv, OneEnd
    <2>7. Exactly(pipe', kept')
      BY <1>2, <1>4, <1>7, SameHolds DEF Exactly
    <2>8. Ring'
      <3>1. pipe.full => Len(kept') > 0
        BY <1>2, <1>7, LengthType DEF Exactly
      <3> QED BY <2>1, <2>7, <3>1 DEF Ring
    <2>9. NoDrop
      BY <1>1, <1>4, <1>7, <2>1, NoOpType DEF NoDrop, IsDropped, PipeWaits
    <2> QED BY <2>1, <2>3, <2>4, <2>5, <2>6, <2>8, <2>9 DEF PipeInv, NoLoss, PacketsKept
  <1> QED BY <1>1, <1>5, <1>6, <1>7

LEMMA PipeClearInv ==
  ASSUME PipeInv, PacketsKept, PipeClear
  PROVE  PipeInv' /\ NoLoss /\ NoDrop
  <1>1. /\ op = NoOp /\ op' = op /\ isr' = isr /\ kept' = <<>>
        /\ pipe' = [pipe EXCEPT !.queue = <<>>, !.rp = 0, !.wp = 0, !.full = FALSE]
        /\ call' = Returned(Range(pipe.queue))
    BY DEF PipeClear
  <1>2. /\ pipe \in PipeType /\ call \in [Tasks -> CallType] /\ pipe.queue \in Seq(Tasks)
        /\ isr \in {"put", "get", "none"} /\ kept \in Seq(Packets)
        /\ \A u \in Tasks : call[u].kind = "put" => call[u].pkt \in Packets
    BY <1>1, Between
  <1>3. /\ pipe' \in PipeType /\ pipe'.queue = <<>> /\ pipe'.rp = 0 /\ pipe'.wp = 0
        /\ ~pipe'.full
    <2>1. <<>> \in Seq(Tasks)
      OBVIOUS
    <2>2. 0 \in Cells
      BY LengthType
    <2> QED BY <1>1, <1>2, <2>1, <2>2 DEF PipeType
  <1>4. /\ call' \in [Tasks -> CallType]
        /\ \A u \in Tasks : call'[u] = IF Contains(pipe.queue, u) THEN NoCallOfPipe ELSE call[u]
    BY <1>1, <1>2, ReturnedIs, RangeContains
  <1>5. kept' \in Seq(Packets) /\ Len(kept') = 0
    BY <1>1
  <1>6. Exactly(pipe', kept')
    <2>1. 0 \in Cells /\ 0 \in 0..Length /\ Length > 0 /\ Length \in Nat
      BY LengthType
    <2>2. After(0, 0) = 0
      BY <2>1, AfterIs
    <2> QED BY <1>3, <1>5, <2>1, <2>2 DEF Exactly, Carries
  <1>7. PipeTyped'
    BY <1>1, <1>2, <1>3, <1>4, <1>5, NoOpType DEF PipeTyped
  <1>8. WaitersQueued'
    <2>1. Injective(<<>>)
      BY DEF Injective
    <2>2. \A u \in Tasks : call'[u].kind = "put" => call'[u].pkt \in Packets
      BY <1>2, <1>4, NoOpType
    <2> QED BY <1>1, <1>3, <2>1, <2>2, NotIn, NoOpType DEF WaitersQueued
  <1>9. Meeting'
    BY <1>1, <1>3, NotIn, NoOpType DEF Meeting
  <1>10. OneEnd'
    BY <1>1, <1>4, NoOpType DEF PipeInv, OneEnd
  <1>11. Ring'
    BY <1>1, <1>6, NoOpType DEF Ring
  <1>12. PacketsKept'
    BY <1>3, <1>5, <1>6, ContentsExact DEF PacketsKept
  <1>13. NoDrop
    BY <1>1, <1>4, NoOpType DEF NoDrop, IsDropped, PipeWaits
  <1> QED BY <1>7, <1>8, <1>9, <1>10, <1>11, <1>12, <1>13 DEF PipeInv, NoLoss

LEMMA WaitEndsInv ==
  ASSUME PipeInv, PacketsKept, NEW t \in Tasks, PipeWaitEnds(t)
  PROVE  PipeInv' /\ NoLoss /\ NoDrop
  <1> DEFINE q == Without(pipe.queue, t)
  <1>1. /\ op = NoOp /\ op' = op /\ isr' = isr /\ kept' = kept
        /\ pipe' = [pipe EXCEPT !.queue = Without(@, t)] /\ call' = Returned({t})
    BY DEF PipeWaitEnds
  <1>2. pipe \in PipeType /\ pipe.queue \in Seq(Tasks) /\ Injective(pipe.queue)
    BY <1>1, Between
  <1>3. /\ q \in Seq(Tasks) /\ Injective(q)
        /\ \A u : Contains(q, u) <=> Contains(pipe.queue, u) /\ u # t
    BY <1>2, WithoutProperties
  <1>4. pipe' = [pipe EXCEPT !.queue = q]
    BY <1>1, <1>2 DEF PipeType
  <1> HIDE DEF q
  <1>5. /\ pipe' \in PipeType /\ pipe'.queue = q
        /\ pipe'.rp = pipe.rp /\ pipe'.wp = pipe.wp /\ pipe'.full = pipe.full
        /\ pipe'.cell = pipe.cell
    BY <1>2, <1>3, <1>4, QueueIs
  <1> QED BY <1>1, <1>3, <1>5, LeaveInv

-----------------------------------------------------------------------------
(* ISRs. *)

LEMMA IsrPutInv ==
  ASSUME PipeInv, PacketsKept, NEW x \in Packets, IsrPut(x)
  PROVE  PipeInv' /\ NoLoss /\ NoDrop
  <1> DEFINE s == <<x>>
  <1>1. /\ isr = "put" /\ ~pipe.full /\ call' = call /\ op' = op /\ isr' = isr
        /\ pipe' = SetFull(Store(pipe, s)) /\ kept' = Append(kept, x)
    BY DEF IsrPut
  <1>2. /\ pipe \in PipeType /\ call \in [Tasks -> CallType] /\ op \in OpType
        /\ kept \in Seq(Packets) /\ op.step \notin {"front", "flag"}
    BY <1>1 DEF PipeInv, PipeTyped, OneEnd
  <1>3. s \in Seq(Packets) /\ Len(s) = 1 /\ Append(kept, x) = kept \o s
    BY <1>2, AppendIsConcat
  <1> HIDE DEF s
  <1>4. Len(s) <= Length /\ Len(s) > 0 /\ Length \in Nat
    BY <1>3, LengthType
  <1>5. pipe' \in PipeType /\ pipe'.queue = pipe.queue
    BY <1>1, <1>2, <1>3, <1>4, PutIs
  <1>6. kept' \in Seq(Packets) /\ Len(kept') = Len(kept) + 1 /\ Len(kept) \in Nat
    BY <1>1, <1>2, <1>3, ConcatProperties, LenProperties
  <1>7. ASSUME Carries(pipe, kept), Len(kept) # Length PROVE Exactly(pipe', kept')
    <2>1. Len(kept) + Len(s) <= Length
      BY <1>3, <1>4, <1>6, <1>7 DEF Carries
    <2>2. Carries(pipe', kept') /\ (pipe'.full <=> pipe.full \/ Len(kept) + Len(s) = Length)
      BY <1>1, <1>2, <1>3, <1>4, <1>7, <2>1, PutHolds
    <2> QED BY <1>1, <1>3, <1>6, <2>2 DEF Exactly
  <1>8. ASSUME Exactly(pipe, kept) PROVE Exactly(pipe', kept')
    BY <1>1, <1>7, <1>8 DEF Exactly
  <1>9. op = NoOp => Exactly(pipe', kept')
    BY <1>8 DEF PipeInv, Ring
  <1>10. PipeTyped'
    BY <1>1, <1>2, <1>5, <1>6 DEF PipeTyped
  <1>11. WaitersQueued'
    BY <1>1, <1>5 DEF PipeInv, WaitersQueued, PipeWaits
  <1>12. Meeting' /\ OneEnd'
    BY <1>1 DEF PipeInv, Meeting, OneEnd
  <1>13. Ring'
    <2>1. ASSUME ~op.over, op.step \in {"test", "fetch", "fetchM"}
          PROVE  Exactly(pipe', kept')
      BY <1>8, <2>1 DEF PipeInv, Ring
    <2>2. ASSUME ~op.over, op.step = "clear"
          PROVE  Carries(pipe', kept') /\ (Len(kept') = Length => pipe'.full)
      <3>1. Carries(pipe, kept) /\ Len(kept) # Length
        BY <1>1, <2>2 DEF PipeInv, Ring
      <3> QED BY <1>7, <3>1 DEF Exactly
    <2>3. ~op.over /\ op.step = "fetchM" => op.n <= Len(kept')
      BY <1>2, <1>6, LengthType DEF PipeInv, Ring, OpType
    <2>4. Len(kept') > 0
      BY <1>6
    <2> QED BY <1>1, <1>2, <1>9, <2>1, <2>2, <2>3, <2>4 DEF PipeInv, Ring
  <1>14. PacketsKept'
    BY <1>1, <1>5, <1>6, <1>9, ContentsExact DEF PacketsKept
  <1>15. NoDrop
    BY <1>1, <1>5 DEF NoDrop, IsDropped, PipeWaits
  <1> QED BY <1>10, <1>11, <1>12, <1>13, <1>14, <1>15 DEF PipeInv, NoLoss

LEMMA IsrGetInv ==
  ASSUME PipeInv, PacketsKept, IsrGet
  PROVE  PipeInv' /\ NoLoss /\ NoDrop
  <1>1. /\ isr = "get" /\ ~Empty /\ call' = call /\ op' = op /\ isr' = isr
        /\ pipe' = Fetched(Skip(pipe, 1)) /\ kept' = Rest(kept, 1)
    BY DEF IsrGet
  <1>2. /\ pipe \in PipeType /\ call \in [Tasks -> CallType] /\ op \in OpType
        /\ kept \in Seq(Packets) /\ op.step \in {"none", "front", "flag"}
    BY <1>1 DEF PipeInv, PipeTyped, OneEnd
  <1>3. 1 \in 0..Length /\ 1 \in Nat /\ Length \in Nat /\ Length > 0
    BY LengthType
  <1>4. /\ pipe' \in PipeType /\ pipe'.queue = pipe.queue /\ ~pipe'.full
        /\ \A k \in Seq(Packets) : Carries(pipe, k) /\ 1 <= Len(k) => Carries(pipe', Rest(k, 1))
    BY <1>1, <1>2, <1>3, GetIs
  <1>5. kept' \in Seq(Packets)
    BY <1>1, <1>2, <1>3, RestIs
  <1>6. ASSUME Carries(pipe, kept), pipe.full => Len(kept) = Length
        PROVE  Exactly(pipe', kept')
    <2>1. /\ Len(kept) \in Nat /\ Len(kept) <= Length
          /\ pipe.wp = pipe.rp <=> Len(kept) = 0 \/ Len(kept) = Length
      BY <1>2, <1>6, HoldsDistance
    <2>2. 1 <= Len(kept)
      <3>1. CASE pipe.full
        BY <1>3, <1>6, <3>1
      <3>2. CASE ~pipe.full
        <4>1. Len(kept) # 0
          BY <1>1, <2>1, <3>2 DEF Empty
        <4> QED BY <2>1, <4>1
      <3> QED BY <3>1, <3>2
    <2>3. Len(kept') = Len(kept) - 1
      BY <1>1, <1>2, <1>3, <2>2, RestIs
    <2>4. Len(kept') # Length
      BY <1>3, <2>1, <2>3
    <2>5. Carries(pipe', kept')
      BY <1>1, <1>2, <1>4, <1>6, <2>2
    <2> QED BY <1>4, <2>4, <2>5 DEF Exactly
  <1>7. op = NoOp => Exactly(pipe', kept')
    BY <1>6 DEF PipeInv, Ring, Exactly
  <1>8. PipeTyped'
    BY <1>1, <1>2, <1>4, <1>5 DEF PipeInv, PipeTyped
  <1>9. WaitersQueued'
    BY <1>1, <1>4 DEF PipeInv, WaitersQueued, PipeWaits
  <1>10. Meeting' /\ OneEnd'
    BY <1>1 DEF PipeInv, Meeting, OneEnd
  <1>11. Ring'
    <2>1. ASSUME ~op.over, op.step = "flag", ~op.stale PROVE Carries(pipe', kept')
      <3>1. Carries(pipe, kept) /\ (pipe.full => Len(kept) > Length)
        BY <2>1 DEF PipeInv, Ring
      <3>2. ~pipe.full
        <4>1. Len(kept) \in Nat /\ Len(kept) <= Length
          BY <1>2, <3>1, HoldsDistance
        <4> QED BY <1>3, <3>1, <4>1
      <3> QED BY <1>6, <3>1, <3>2 DEF Exactly
    <2>2. op.step = "front" => op.pkt \in Packets /\ Exactly(pipe', kept')
      BY <1>6 DEF PipeInv, Ring, Exactly
    <2> QED BY <1>1, <1>2, <1>4, <1>7, <2>1, <2>2 DEF PipeInv, Ring
  <1>12. PacketsKept'
    BY <1>1, <1>4, <1>5, <1>7, ContentsExact DEF PacketsKept
  <1>13. NoDrop
    BY <1>1, <1>4 DEF NoDrop, IsDropped, PipeWaits
  <1> QED BY <1>8, <1>9, <1>10, <1>11, <1>12, <1>13 DEF PipeInv, NoLoss

LEMMA IsrPutManyInv ==
  ASSUME PipeInv, PacketsKept, NEW s \in Runs, IsrPut8M(s)
  PROVE  PipeInv' /\ (NoLoss \/ pipe.full) /\ NoDrop
  <1>1. /\ isr = "put" /\ Len(s) <= Room /\ call' = call /\ isr' = isr
        /\ pipe' = SetFull(Store(pipe, s)) /\ kept' = kept \o s
        /\ op' = IF op = NoOp THEN op ELSE [op EXCEPT !.over = @ \/ pipe.full]
    BY DEF IsrPut8M
  <1>2. /\ pipe \in PipeType /\ call \in [Tasks -> CallType] /\ op \in OpType
        /\ kept \in Seq(Packets) /\ op.step \notin {"front", "flag"} /\ pipe.full \in BOOLEAN
    BY <1>1 DEF PipeInv, PipeTyped, OneEnd, PipeType
  <1>3. s \in Seq(Packets) /\ Len(s) \in Nat /\ Len(s) > 0 /\ Len(s) <= Length /\ Length \in Nat
    BY RunIs, LengthType
  <1>4. pipe' \in PipeType /\ pipe'.queue = pipe.queue /\ (pipe.full => pipe'.full)
    BY <1>1, <1>2, <1>3, PutIs
  <1>5. kept' \in Seq(Packets) /\ Len(kept') = Len(kept) + Len(s) /\ Len(kept) \in Nat
    BY <1>1, <1>2, <1>3, ConcatProperties, LenProperties
  <1>6. ASSUME Carries(pipe, kept), Len(kept) # Length, ~pipe.full PROVE Exactly(pipe', kept')
    <2>1. Len(kept) + Len(s) <= Length
      BY <1>1, <1>2, <1>3, <1>6, RoomFits
    <2>2. Carries(pipe', kept') /\ (pipe'.full <=> pipe.full \/ Len(kept) + Len(s) = Length)
      BY <1>1, <1>2, <1>3, <1>6, <2>1, PutHolds
    <2> QED BY <1>5, <1>6, <2>2 DEF Exactly
  <1>7. /\ op' \in OpType /\ op'.step = op.step /\ op'.t = op.t /\ op'.resume = op.resume
        /\ op'.wait = op.wait /\ op'.n = op.n
        /\ (op = NoOp => op' = op) /\ (op # NoOp => op'.over = (op.over \/ pipe.full))
    <2>1. CASE op = NoOp
      BY <1>1, <1>2, <2>1
    <2>2. CASE op # NoOp
      <3>1. op' = [op EXCEPT !.over = @ \/ pipe.full]
        BY <1>1, <2>2
      <3> QED BY <1>2, <2>2, <3>1 DEF OpType
    <2> QED BY <2>1, <2>2
  <1>8. op # NoOp => op'.step # "none" /\ op' # NoOp
    BY <1>7, NoOpType DEF PipeInv, Ring
  <1>9. ASSUME op = NoOp, PacketsKept' PROVE Exactly(pipe', kept')
    <2>1. Exactly(pipe, kept)
      BY <1>9 DEF PipeInv, Ring
    <2>2. CASE pipe.full
      <3>1. Contents(pipe') = kept' /\ pipe'.full
        BY <1>4, <1>7, <1>9, <2>2 DEF PacketsKept
      <3>2. Len(kept') = Length
        BY <1>5, <3>1, FullContents
      <3>3. Len(kept) = Length
        BY <2>1, <2>2 DEF Exactly
      <3> QED BY <1>3, <1>5, <3>2, <3>3
    <2>3. CASE ~pipe.full
      BY <1>6, <2>1, <2>3 DEF Exactly
    <2> QED BY <2>2, <2>3
  <1>10. PipeTyped'
    BY <1>1, <1>2, <1>4, <1>5, <1>7 DEF PipeInv, PipeTyped
  <1>11. WaitersQueued'
    BY <1>1, <1>4, <1>7 DEF PipeInv, WaitersQueued, PipeWaits
  <1>12. Meeting' /\ OneEnd'
    BY <1>1, <1>7 DEF PipeInv, Meeting, OneEnd
  <1>13. Ring'
    <2>1. CASE op = NoOp
      BY <1>7, <1>9, <2>1, NoOpType DEF Ring
    <2>2. CASE op # NoOp
      <3> SUFFICES ASSUME ~op.over, ~pipe.full PROVE Ring'
        BY <1>2, <1>7, <1>8, <2>2 DEF Ring
      <3>1. CASE op.step \in {"test", "fetch", "fetchM"}
        <4>1. Exactly(pipe', kept')
          BY <1>6, <3>1 DEF PipeInv, Ring, Exactly
        <4>2. Len(kept') > 0
          BY <1>3, <1>5
        <4>3. op.step = "fetchM" => op.n <= Len(kept')
          <5> SUFFICES ASSUME op.step = "fetchM" PROVE op.n <= Len(kept')
            OBVIOUS
          <5>1. op.n <= Len(kept)
            BY DEF PipeInv, Ring
          <5>2. op.n \in Nat
            BY <1>2, <1>3 DEF OpType
          <5> QED BY <1>3, <1>5, <5>1, <5>2
        <4> QED BY <1>7, <1>8, <2>2, <3>1, <4>1, <4>2, <4>3 DEF Ring
      <3>2. CASE op.step = "clear"
        <4>1. Exactly(pipe', kept')
          BY <1>6, <3>2 DEF PipeInv, Ring
        <4> QED BY <1>7, <1>8, <2>2, <3>2, <4>1 DEF Ring, Exactly
      <3>3. op.step \in {"test", "fetch", "fetchM", "clear"}
        BY <1>2, <2>2 DEF PipeInv, Ring, OpType
      <3> QED BY <3>1, <3>2, <3>3
    <2> QED BY <2>1, <2>2
  <1>14. NoLoss \/ pipe.full
    <2> SUFFICES ASSUME ~pipe.full PROVE PacketsKept'
      BY DEF NoLoss
    <2>1. CASE op = NoOp
      <3>1. Exactly(pipe', kept')
        BY <1>6, <2>1 DEF PipeInv, Ring, Exactly
      <3> QED BY <1>4, <1>5, <3>1, ContentsExact DEF PacketsKept
    <2>2. CASE op # NoOp
      BY <1>8, <2>2 DEF PacketsKept
    <2> QED BY <2>1, <2>2
  <1>15. NoDrop
    BY <1>1, <1>4, <1>7 DEF NoDrop, IsDropped, PipeWaits
  <1> QED BY <1>10, <1>11, <1>12, <1>13, <1>14, <1>15 DEF PipeInv

LEMMA IsrGetManyInv ==
  ASSUME PipeInv, PacketsKept, NEW lim \in 1..Length, IsrGet8M(lim)
  PROVE  PipeInv' /\ (NoLoss \/ pipe.full) /\ NoDrop
  <1> DEFINE n == Min({lim, Distance(pipe.rp, pipe.wp)})
  <1>1. /\ isr = "get" /\ call' = call /\ op' = op /\ isr' = isr
        /\ pipe' = Fetched(Skip(pipe, n)) /\ kept' = Rest(kept, n)
    BY DEF IsrGet8M
  <1>2. /\ pipe \in PipeType /\ call \in [Tasks -> CallType] /\ op \in OpType
        /\ kept \in Seq(Packets) /\ op.step \in {"none", "front", "flag"}
    BY <1>1 DEF PipeInv, PipeTyped, OneEnd
  <1>3. n \in 0..Length /\ (Carries(pipe, kept) => n <= Len(kept))
    BY <1>2, ManyIs
  <1> HIDE DEF n
  <1>4. n \in Nat /\ Length \in Nat
    BY <1>3, LengthType
  <1>5. /\ pipe' \in PipeType /\ pipe'.queue = pipe.queue /\ ~pipe'.full
        /\ \A k \in Seq(Packets) : Carries(pipe, k) /\ n <= Len(k) => Carries(pipe', Rest(k, n))
    BY <1>1, <1>2, <1>3, GetIs
  <1>6. kept' \in Seq(Packets)
    BY <1>1, <1>2, <1>4, RestIs
  <1>7. Carries(pipe, kept) => Carries(pipe', kept')
    BY <1>1, <1>2, <1>3, <1>5
  <1>8. PacketsKept' /\ op = NoOp => Exactly(pipe', kept')
    BY <1>1, <1>5, <1>6, ContentsExact DEF PacketsKept
  <1>9. PipeTyped'
    BY <1>1, <1>2, <1>5, <1>6 DEF PipeInv, PipeTyped
  <1>10. WaitersQueued'
    BY <1>1, <1>5 DEF PipeInv, WaitersQueued, PipeWaits
  <1>11. Meeting' /\ OneEnd'
    BY <1>1 DEF PipeInv, Meeting, OneEnd
  <1>12. ASSUME Exactly(pipe, kept), ~pipe.full PROVE Exactly(pipe', kept')
    <2>1. Carries(pipe, kept) /\ Len(kept) # Length
      BY <1>12 DEF Exactly
    <2>2. Len(kept) \in Nat /\ Len(kept) <= Length /\ n <= Len(kept)
      BY <1>2, <1>3, <2>1, HoldsDistance
    <2>3. Len(kept') = Len(kept) - n
      BY <1>1, <1>2, <1>4, <2>2, RestIs
    <2>4. Len(kept') # Length
      BY <1>4, <2>1, <2>2, <2>3
    <2> QED BY <1>5, <1>7, <2>1, <2>4 DEF Exactly
  <1>13. Ring'
    BY <1>1, <1>2, <1>5, <1>7, <1>8, <1>12 DEF PipeInv, Ring
  <1>14. NoLoss \/ pipe.full
    <2> SUFFICES ASSUME ~pipe.full, op = NoOp PROVE PacketsKept'
      BY <1>1 DEF NoLoss, PacketsKept
    <2>1. Exactly(pipe', kept')
      BY <1>12 DEF PipeInv, Ring
    <2> QED BY <1>5, <1>6, <2>1, ContentsExact DEF PacketsKept
  <1>15. NoDrop
    BY <1>1, <1>5 DEF NoDrop, IsDropped, PipeWaits
  <1> QED BY <1>9, <1>10, <1>11, <1>13, <1>14, <1>15 DEF PipeInv

-----------------------------------------------------------------------------
(* The specification. *)

LEMMA PipeInitInv ==
  ASSUME PipeInit
  PROVE  PipeInv
  <1>1. 0 \in Cells /\ 0 \in 0..Length /\ Length > 0 /\ Length \in Nat
    BY LengthType
  <1> DEFINE x == CHOOSE x \in Packets : TRUE
  <1>2. x \in Packets
    BY PipeAssumption
  <1> HIDE DEF x
  <1>3. <<>> \in Seq(Tasks) /\ <<>> \in Seq(Packets) /\ Len(<<>>) = 0
    OBVIOUS
  <1>4. /\ pipe \in PipeType /\ pipe.queue = <<>> /\ pipe.rp = 0 /\ pipe.wp = 0
        /\ ~pipe.full
    <2>1. pipe = [ rp |-> 0, wp |-> 0, full |-> FALSE, queue |-> <<>>, cell |-> [i \in Cells |-> x] ]
      BY DEF PipeInit, x
    <2> QED BY <1>1, <1>2, <1>3, <2>1 DEF PipeType
  <1>5. /\ call \in [Tasks -> CallType] /\ \A t \in Tasks : call[t].kind = "none"
        /\ op = NoOp /\ isr \in {"put", "get", "none"} /\ kept = <<>>
    BY NoOpType DEF PipeInit
  <1>6. PipeTyped
    BY <1>3, <1>4, <1>5, NoOpType DEF PipeTyped
  <1>7. WaitersQueued
    <2>1. Injective(<<>>)
      BY DEF Injective
    <2> QED BY <1>4, <1>5, <2>1, NotIn, NoOpType DEF WaitersQueued
  <1>8. Meeting /\ OneEnd
    BY <1>4, <1>5, NotIn, NoOpType DEF Meeting, OneEnd
  <1>9. Exactly(pipe, kept)
    <2>1. After(0, 0) = 0
      BY <1>1, AfterIs
    <2> QED BY <1>1, <1>3, <1>4, <1>5, <2>1 DEF Exactly, Carries
  <1>10. Ring
    BY <1>5, <1>9, NoOpType DEF Ring
  <1> QED BY <1>6, <1>7, <1>8, <1>10 DEF PipeInv

DropsRightly == NoDrop \/ (PipeResume /\ pipe.full) \/ (TestStep /\ op.resume)

LosesRightly ==
    \/ NoLoss
    \/ FlagStep /\ kept = <<>>
    \/ ClearStep /\ pipe.full /\ Len(kept) = Length
    \/ pipe.full /\ \E lim \in 1..Length : IsrGet8M(lim)
    \/ pipe.full /\ \E s \in Runs : IsrPut8M(s)
    \/ op.over \/ op.stale

LEMMA PipeNextStep ==
  ASSUME PipeInv, [PipeNext]_pipeVars
  PROVE  PipeInv' /\ DropsRightly /\ LosesRightly
  <1>1. CASE UNCHANGED pipeVars
    <2>1. pipe' = pipe /\ call' = call /\ op' = op /\ isr' = isr /\ kept' = kept
      BY <1>1 DEF pipeVars
    <2>2. PipeTyped' /\ WaitersQueued'
      BY <2>1 DEF PipeInv, PipeTyped, WaitersQueued, PipeWaits
    <2>3. PacketsKept' <=> PacketsKept
      BY <2>1 DEF PacketsKept
    <2>4. Meeting' /\ OneEnd' /\ Ring'
      BY <2>1, <2>3 DEF PipeInv, Meeting, Empty, OneEnd, Ring
    <2>5. NoDrop
      BY <2>1 DEF NoDrop, IsDropped, PipeWaits
    <2> QED BY <2>2, <2>3, <2>4, <2>5 DEF PipeInv, DropsRightly, LosesRightly, NoLoss
  <1>2. ASSUME PacketsKept, PipeStep
        PROVE  PipeInv' /\ DropsRightly /\ LosesRightly
    <2>1. CASE FetchStep
      BY <2>1, FetchInv DEF DropsRightly, LosesRightly
    <2>2. CASE TestStep
      BY <2>2, TestInv DEF DropsRightly, LosesRightly
    <2>3. CASE ClearStep
      BY <2>3, ClearInv DEF DropsRightly, LosesRightly
    <2>4. CASE FetchMStep
      BY <2>4, FetchMInv DEF DropsRightly, LosesRightly
    <2>5. CASE FlagStep
      BY <2>5, FlagInv DEF DropsRightly, LosesRightly
    <2>6. CASE FrontStep
      BY <2>6, FrontInv DEF DropsRightly, LosesRightly
    <2> QED BY <1>2, <2>1, <2>2, <2>3, <2>4, <2>5, <2>6 DEF PipeStep
  <1>3. ASSUME PacketsKept, WaitCalls
        PROVE  PipeInv' /\ DropsRightly /\ LosesRightly
    <2>1. ASSUME NEW c \in Tasks \union {Lsr}, NEW wait \in BOOLEAN, PipeGet(c, wait)
          PROVE  PipeInv' /\ NoDrop /\ NoLoss
      BY <1>3, <2>1, GetInv
    <2>2. ASSUME NEW c \in Tasks \union {Lsr}, NEW wait \in BOOLEAN, NEW x \in Packets,
                 NEW front \in BOOLEAN, PipePut(c, x, front, wait)
          PROVE  PipeInv' /\ NoDrop /\ NoLoss
      BY <1>3, <2>2, PutInv
    <2> QED BY <1>3, <2>1, <2>2 DEF WaitCalls, DropsRightly, LosesRightly
  <1>4. ASSUME PacketsKept, ManyCalls
        PROVE  PipeInv' /\ DropsRightly /\ LosesRightly
    <2>1. ASSUME NEW s \in Runs, PipePut8M(s)
          PROVE  PipeInv' /\ DropsRightly /\ LosesRightly
      BY <1>4, <2>1, PutManyInv DEF DropsRightly, LosesRightly
    <2>2. ASSUME NEW s \in Runs, IsrPut8M(s)
          PROVE  PipeInv' /\ DropsRightly /\ LosesRightly
      BY <1>4, <2>2, IsrPutManyInv DEF DropsRightly, LosesRightly
    <2>3. ASSUME NEW lim \in 1..Length, PipeGet8M(lim)
          PROVE  PipeInv' /\ DropsRightly /\ LosesRightly
      BY <1>4, <2>3, GetManyInv DEF DropsRightly, LosesRightly
    <2>4. ASSUME NEW lim \in 1..Length, IsrGet8M(lim)
          PROVE  PipeInv' /\ DropsRightly /\ LosesRightly
      BY <1>4, <2>4, IsrGetManyInv DEF DropsRightly, LosesRightly
    <2> QED BY <1>4, <2>1, <2>2, <2>3, <2>4 DEF ManyCalls
  <1>5. ASSUME PacketsKept, OtherCalls
        PROVE  PipeInv' /\ DropsRightly /\ LosesRightly
    <2>1. CASE GetFromPutter
      BY <1>5, <2>1, GetFromPutterInv DEF DropsRightly, LosesRightly
    <2>2. CASE PipeResume
      BY <1>5, <2>2, ResumeInv DEF DropsRightly, LosesRightly
    <2>3. CASE PipeClear
      BY <1>5, <2>3, PipeClearInv DEF DropsRightly, LosesRightly
    <2>4. ASSUME NEW t \in Tasks, PipeWaitEnds(t)
          PROVE  PipeInv' /\ DropsRightly /\ LosesRightly
      BY <1>5, <2>4, WaitEndsInv DEF DropsRightly, LosesRightly
    <2> QED BY <1>5, <2>1, <2>2, <2>3, <2>4 DEF OtherCalls
  <1>6. ASSUME PacketsKept, IsrCalls
        PROVE  PipeInv' /\ DropsRightly /\ LosesRightly
    <2>1. CASE IsrGet
      BY <1>6, <2>1, IsrGetInv DEF DropsRightly, LosesRightly
    <2>2. ASSUME NEW x \in Packets, IsrPut(x)
          PROVE  PipeInv' /\ DropsRightly /\ LosesRightly
      BY <1>6, <2>2, IsrPutInv DEF DropsRightly, LosesRightly
    <2> QED BY <1>6, <2>1, <2>2 DEF IsrCalls
  <1> QED BY <1>1, <1>2, <1>3, <1>4, <1>5, <1>6 DEF PipeNext

\* The strengthened invariant holds in every state.
THEOREM PipeInvariance == PipeSpec => []PipeInv
  <1>1. PipeInv /\ [PipeNext]_pipeVars => PipeInv'
    BY PipeNextStep
  <1> QED BY PipeInitInv, <1>1, PTL DEF PipeSpec

\* The pointers stay in the buffer, and no task is in the queue twice.
THEOREM PipeTypeCorrect == PipeSpec => []PipeTypeOK
  <1>1. PipeInv => PipeTypeOK
    <2> SUFFICES ASSUME PipeInv PROVE PipeTypeOK
      OBVIOUS
    <2>1. /\ pipe \in PipeType /\ pipe.queue \in Seq(Tasks) /\ Injective(pipe.queue)
          /\ isr \in {"put", "get", "none"}
      BY DEF PipeInv, PipeTyped, WaitersQueued, PipeType
    <2>2. IsInjective(pipe.queue)
      BY <2>1, RangeContains
    <2> QED BY <2>1, <2>2 DEF PipeTypeOK, PipeType
  <1> QED BY PipeInvariance, <1>1, PTL

\* Between tasks only, none waits at a pipe that could serve it, whatever the
\* length of the pipe and however many tasks use it.
THEOREM TasksAlwaysMeet == PipeSpec => []TasksMeet
  <1>1. PipeInv => TasksMeet
    <2> SUFFICES ASSUME PipeInv, isr = "none", NEW kind \in {"get", "put"}, FirstIs(kind)
                 PROVE  IF kind = "get" THEN Empty ELSE pipe.full
      BY DEF TasksMeet
    <2>1. First \in Tasks /\ Contains(pipe.queue, First) /\ call[First].kind = kind
      BY FirstIn DEF PipeInv, PipeTyped, WaitersQueued, FirstIs
    <2> QED BY <2>1 DEF PipeInv, Meeting
  <1> QED BY PipeInvariance, <1>1, PTL

\* Only smx_PipeResume() takes a task out of the queue that neither is resumed
\* nor waits elsewhere.
THEOREM WaitersStayQueued == PipeSpec => OnlyResumeDropsWaiter
  <1>1. PipeInv /\ [PipeNext]_pipeVars =>
          [Dropped' \subseteq Dropped \/ (PipeResume /\ pipe.full) \/ (TestStep /\ op.resume)]_pipeVars
    <2> SUFFICES ASSUME PipeInv, [PipeNext]_pipeVars
                 PROVE  Dropped' \subseteq Dropped \/ (PipeResume /\ pipe.full) \/ (TestStep /\ op.resume)
      OBVIOUS
    <2>1. PipeInv' /\ DropsRightly
      BY PipeNextStep
    <2>2. NoDrop => Dropped' \subseteq Dropped
      <3>1. pipe.queue \in Seq(Tasks) /\ pipe'.queue \in Seq(Tasks)
        BY <2>1 DEF PipeInv, PipeTyped, PipeType
      <3>2. /\ \A u : u \in Range(pipe.queue) <=> Contains(pipe.queue, u)
            /\ \A u : u \in Range(pipe'.queue) <=> Contains(pipe'.queue, u)
        BY <3>1, RangeContains
      <3>3. ASSUME NEW t PROVE t \in Dropped <=> t \in Tasks /\ IsDropped(t)
        BY <3>2 DEF Dropped, IsDropped
      <3>4. ASSUME NEW t PROVE t \in Dropped' <=> t \in Tasks /\ IsDropped(t)'
        BY <3>2 DEF Dropped, IsDropped
      <3> QED BY <3>3, <3>4 DEF NoDrop
    <2> QED BY <2>1, <2>2 DEF DropsRightly
  <1> QED BY PipeInvariance, <1>1, PTL DEF PipeSpec, OnlyResumeDropsWaiter

\* Every packet is got once and in order, but for the five cases.
THEOREM PacketsLostOnlyByThese == PipeSpec => OnlyTheseLosePackets
  <1>1. PipeInv /\ [PipeNext]_pipeVars =>
          [PacketsKept /\ ~PacketsKept' =>
             \/ FlagStep /\ kept = <<>>
             \/ ClearStep /\ pipe.full /\ Len(kept) = Length
             \/ pipe.full /\ \E lim \in 1..Length : IsrGet8M(lim)
             \/ pipe.full /\ \E s \in Runs : IsrPut8M(s)
             \/ op.over \/ op.stale]_pipeVars
    BY PipeNextStep DEF LosesRightly, NoLoss
  <1> QED BY PipeInvariance, <1>1, PTL DEF PipeSpec, OnlyTheseLosePackets

-----------------------------------------------------------------------------
(* Event queues.                                                           *)
(*                                                                         *)
(* The inductive invariant says what the differences sv are: the signals a *)
(* task waits for are those of the task ahead of it and its own.           *)

Before(c, d, i) == IF i = 1 THEN 0 ELSE d[c[i - 1]]

Diffs(c, s, d) ==
    /\ c \in Seq(Tasks) /\ Injective(c) /\ s \in [Tasks -> Nat] /\ d \in [Tasks -> Nat]
    /\ \A t \in Tasks : d[t] > 0 <=> Contains(c, t)
    /\ \A i \in 1..Len(c) : d[c[i]] = s[c[i]] + Before(c, d, i)

LEMMA DiffsTypes ==
  ASSUME NEW c, NEW s, NEW d, Diffs(c, s, d)
  PROVE  /\ c \in Seq(Tasks) /\ Injective(c) /\ Len(c) \in Nat /\ DOMAIN c = 1..Len(c)
         /\ \A i \in 1..Len(c) : c[i] \in Tasks /\ s[c[i]] \in Nat /\ d[c[i]] \in Nat /\ d[c[i]] > 0
         /\ \A i, j \in 1..Len(c) : c[i] = c[j] => i = j
  <1>1. c \in Seq(Tasks) /\ Injective(c) /\ Len(c) \in Nat /\ DOMAIN c = 1..Len(c)
    BY LenProperties DEF Diffs
  <1>2. \A i \in 1..Len(c) : c[i] \in Tasks /\ Contains(c, c[i])
    BY <1>1, ElementOfSeq DEF Contains
  <1> QED BY <1>1, <1>2 DEF Diffs, Injective

\* A task waits for no fewer signals than those ahead of it.
LEMMA Rising ==
  ASSUME NEW c, NEW s, NEW d, Diffs(c, s, d), NEW i \in 1..Len(c), NEW j \in 1..Len(c), i <= j
  PROVE  d[c[i]] <= d[c[j]]
  <1> SUFFICES ASSUME ~(d[c[i]] <= d[c[j]]) PROVE FALSE
    OBVIOUS
  <1>1. /\ Len(c) \in Nat
        /\ \A k \in 1..Len(c) : s[c[k]] \in Nat /\ d[c[k]] \in Nat
    BY DiffsTypes
  <1> DEFINE S == {k \in i..Len(c) : ~(d[c[i]] <= d[c[k]])}
  <1>2. S \in SUBSET Nat /\ S # {}
    BY <1>1
  <1>3. PICK k \in S : \A l \in S : k <= l
    <2> HIDE DEF S
    <2> QED BY <1>2, LeastNumber
  <1>4. k \in i..Len(c) /\ ~(d[c[i]] <= d[c[k]]) /\ k # i
    BY <1>1, <1>3
  <1>5. k - 1 \in i..Len(c) /\ ~(k <= k - 1)
    BY <1>1, <1>4
  <1>6. d[c[i]] <= d[c[k - 1]]
    BY <1>3, <1>5
  <1>7. k \in 1..Len(c) /\ k - 1 \in 1..Len(c) /\ k # 1
    BY <1>1, <1>4, <1>5
  <1>8. d[c[k]] = s[c[k]] + d[c[k - 1]]
    BY <1>7 DEF Diffs, Before
  <1> QED BY <1>1, <1>4, <1>6, <1>7, <1>8

\* The sums of the differences are the signals that the tasks wait for.
LEMMA TotalIs ==
  ASSUME Diffs(counters, sv, due)
  PROVE  \A i \in 0..Len(counters) : Total[i] = IF i = 0 THEN 0 ELSE due[counters[i]]
  <1> DEFINE n == Len(counters)
             w == [i \in 0..n |-> IF i = 0 THEN 0 ELSE due[counters[i]]]
  <1>1. n \in Nat /\ \A i \in 1..n : sv[counters[i]] \in Nat /\ due[counters[i]] \in Nat
    BY DiffsTypes
  <1>2. w = [i \in 0..n |-> IF i = 0 THEN 0 ELSE w[i - 1] + sv[counters[i]]]
    <2> SUFFICES ASSUME NEW i \in 0..n, i # 0 PROVE due[counters[i]] = w[i - 1] + sv[counters[i]]
      OBVIOUS
    <2>1. i \in 1..n /\ i - 1 \in 0..n
      BY <1>1
    <2>2. w[i - 1] = Before(counters, due, i)
      BY <1>1, <2>1 DEF Before
    <2>3. due[counters[i]] = sv[counters[i]] + Before(counters, due, i)
      BY <2>1 DEF Diffs
    <2>4. w[i - 1] \in Nat
      BY <1>1, <2>1
    <2> QED BY <1>1, <2>1, <2>2, <2>3, <2>4
  <1>3. Total = [i \in 0..n |-> IF i = 0 THEN 0 ELSE Total[i - 1] + sv[counters[i]]]
    <2> HIDE DEF w
    <2> QED BY <1>2, Zenon DEF Total
  <1>4. \A i \in 0..n : Total[i] = IF i = 0 THEN 0 ELSE Total[i - 1] + sv[counters[i]]
    BY <1>3, Zenon
  <1>5. \A i \in 0..n : w[i] = IF i = 0 THEN 0 ELSE w[i - 1] + sv[counters[i]]
    <2> HIDE DEF w
    <2> QED BY <1>2, Zenon
  <1>6. \A i \in 0..n : w[i] = IF i = 0 THEN 0 ELSE due[counters[i]]
    OBVIOUS
  <1> HIDE DEF w
  <1>7. ASSUME NEW i \in 0..n, Total[i] # w[i] PROVE FALSE
    <2> DEFINE S == {j \in 0..n : Total[j] # w[j]}
    <2>1. S \in SUBSET Nat /\ S # {}
      BY <1>1, <1>7
    <2>2. PICK j \in S : \A k \in S : j <= k
      <3> HIDE DEF S
      <3> QED BY <2>1, LeastNumber
    <2>3. j \in 0..n /\ Total[j] # w[j] /\ j # 0
      BY <1>1, <1>4, <1>5, <2>2
    <2>4. j - 1 \in 0..n /\ ~(j <= j - 1)
      BY <1>1, <2>3
    <2>5. Total[j - 1] = w[j - 1]
      BY <2>2, <2>4
    <2> QED BY <1>4, <1>5, <2>3, <2>5
  <1> QED BY <1>6, <1>7

\* A task gets in where its count says, and takes its share of the difference
\* of the one behind.
LEMMA CountKeeps ==
  ASSUME NEW c, NEW s, NEW d, Diffs(c, s, d), NEW t \in Tasks, ~Contains(c, t),
         NEW n \in Nat, n > 0, NEW i \in 1..Len(c) + 1,
         \A j \in 1..Len(c) : j < i => d[c[j]] <= n,
         i <= Len(c) => n < d[c[i]],
         NEW r, r = [u \in Tasks |-> IF u = t THEN n - Before(c, d, i)
                                     ELSE IF i <= Len(c) /\ u = c[i]
                                          THEN s[u] - (n - Before(c, d, i)) ELSE s[u]],
         NEW b, b = [d EXCEPT ![t] = n]
  PROVE  Diffs(InsertAt(c, i, t), r, b)
  <1> DEFINE w == InsertAt(c, i, t)
             a == Before(c, d, i)
  <1>1. /\ c \in Seq(Tasks) /\ Injective(c) /\ Len(c) \in Nat
        /\ \A k \in 1..Len(c) : c[k] \in Tasks /\ s[c[k]] \in Nat /\ d[c[k]] \in Nat /\ d[c[k]] > 0
        /\ \A k, l \in 1..Len(c) : c[k] = c[l] => k = l
    BY DiffsTypes
  <1>2. /\ w \in Seq(Tasks) /\ Len(w) = Len(c) + 1
        /\ \A k \in 1..Len(c) + 1 : w[k] = IF k < i THEN c[k] ELSE IF k = i THEN t ELSE c[k - 1]
    BY <1>1, InsertAtProperties
  <1>3. Injective(w) /\ \A u : Contains(w, u) <=> Contains(c, u) \/ u = t
    BY <1>1, InsertContains
  <1> HIDE DEF w
  <1>4. a \in Nat /\ a <= n
    <2>1. CASE i = 1
      BY <2>1 DEF Before
    <2>2. CASE i # 1
      <3>1. i - 1 \in 1..Len(c) /\ i - 1 < i
        BY <1>1, <2>2
      <3> QED BY <1>1, <2>2, <3>1 DEF Before
    <2> QED BY <2>1, <2>2
  <1>5. i <= Len(c) => i \in 1..Len(c) /\ d[c[i]] = s[c[i]] + a
    BY <1>1 DEF Diffs
  <1>6. s \in [Tasks -> Nat] /\ d \in [Tasks -> Nat] /\ \A u \in Tasks : d[u] > 0 <=> Contains(c, u)
    BY DEF Diffs
  <1> HIDE DEF a
  <1>7. r = [u \in Tasks |-> IF u = t THEN n - a
                             ELSE IF i <= Len(c) /\ u = c[i] THEN s[u] - (n - a) ELSE s[u]]
    BY DEF a
  <1>8. r \in [Tasks -> Nat] /\ b \in [Tasks -> Nat]
    <2>1. \A u \in Tasks : s[u] \in Nat
      BY <1>6
    <2>2. i <= Len(c) => s[c[i]] - (n - a) \in Nat
      BY <1>1, <1>4, <1>5
    <2>3. n - a \in Nat
      BY <1>4
    <2> QED BY <1>6, <1>7, <2>1, <2>2, <2>3
  <1>9. \A u \in Tasks : b[u] = IF u = t THEN n ELSE d[u]
    BY <1>6
  <1>10. \A u \in Tasks : b[u] > 0 <=> Contains(w, u)
    BY <1>3, <1>6, <1>9
  <1>11. \A k \in 1..Len(c) : c[k] # t
    BY <1>1 DEF Contains
  <1>12. ASSUME NEW k \in 1..Len(w) PROVE b[w[k]] = r[w[k]] + Before(w, b, k)
    <2>0. k \in 1..Len(c) + 1 /\ 1 \in 1..Len(c) + 1
      BY <1>1, <1>2
    <2>1. CASE k < i
      <3>1. k \in 1..Len(c) /\ w[k] = c[k] /\ k # i
        BY <1>1, <1>2, <2>0, <2>1
      <3>2. Before(w, b, k) = Before(c, d, k)
        <4>1. CASE k = 1
          BY <4>1 DEF Before
        <4>2. CASE k # 1
          <5>1. k - 1 \in 1..Len(c) /\ k - 1 \in 1..Len(c) + 1 /\ k - 1 < i
            BY <1>1, <2>1, <3>1, <4>2
          <5>2. w[k - 1] = c[k - 1] /\ c[k - 1] # t /\ c[k - 1] \in Tasks
            BY <1>1, <1>2, <1>11, <5>1
          <5> QED BY <1>9, <4>2, <5>2 DEF Before
        <4> QED BY <4>1, <4>2
      <3>3. c[k] \in Tasks /\ c[k] # t /\ (i <= Len(c) => c[k] # c[i])
        BY <1>1, <1>5, <1>11, <3>1
      <3>4. r[c[k]] = s[c[k]] /\ b[c[k]] = d[c[k]]
        BY <1>7, <1>9, <3>3
      <3>5. d[c[k]] = s[c[k]] + Before(c, d, k)
        BY <3>1 DEF Diffs
      <3> QED BY <3>1, <3>2, <3>4, <3>5
    <2>2. CASE k = i
      <3>1. w[k] = t /\ r[t] = n - a /\ b[t] = n
        BY <1>2, <1>7, <1>9, <2>0, <2>2
      <3>2. Before(w, b, k) = a
        <4>1. CASE k = 1
          BY <2>2, <4>1 DEF Before, a
        <4>2. CASE k # 1
          <5>1. k - 1 \in 1..Len(c) /\ k - 1 \in 1..Len(c) + 1 /\ k - 1 < i
            BY <1>1, <2>0, <2>2, <4>2
          <5>2. w[k - 1] = c[k - 1] /\ c[k - 1] # t /\ c[k - 1] \in Tasks
            BY <1>1, <1>2, <1>11, <5>1
          <5> QED BY <1>9, <2>2, <4>2, <5>2 DEF Before, a
        <4> QED BY <4>1, <4>2
      <3> QED BY <1>4, <3>1, <3>2
    <2>3. CASE k = i + 1
      <3>1. i <= Len(c) /\ i \in 1..Len(c) /\ i \in 1..Len(c) + 1 /\ ~(k < i) /\ k # i /\ k - 1 = i /\ k # 1
        BY <1>1, <2>0, <2>3
      <3>2. w[k] = c[i] /\ w[k - 1] = t
        BY <1>2, <2>0, <3>1
      <3>3. Before(w, b, k) = n
        BY <1>9, <3>1, <3>2 DEF Before
      <3>4. c[i] \in Tasks /\ c[i] # t
        BY <1>1, <1>11, <3>1
      <3>5. r[c[i]] = s[c[i]] - (n - a) /\ b[c[i]] = d[c[i]]
        BY <1>7, <1>9, <3>1, <3>4
      <3>6. s[c[i]] \in Nat /\ d[c[i]] \in Nat /\ d[c[i]] = s[c[i]] + a
        BY <1>1, <1>5, <3>1
      <3> QED BY <1>4, <3>2, <3>3, <3>5, <3>6
    <2>4. CASE k > i + 1
      <3>1. k - 1 \in 1..Len(c) /\ k - 2 \in 1..Len(c) /\ k - 1 \in 1..Len(c) + 1
            /\ ~(k < i) /\ k # i /\ ~(k - 1 < i) /\ k - 1 # i /\ k # 1 /\ k - 1 # 1
            /\ (k - 1) - 1 = k - 2
        BY <1>1, <2>0, <2>4
      <3>2. w[k] = c[k - 1] /\ w[k - 1] = c[k - 2]
        BY <1>2, <2>0, <3>1
      <3>3. c[k - 2] \in Tasks /\ c[k - 2] # t
        BY <1>1, <1>11, <3>1
      <3>4. Before(w, b, k) = Before(c, d, k - 1)
        BY <1>9, <3>1, <3>2, <3>3 DEF Before
      <3>5. c[k - 1] \in Tasks /\ c[k - 1] # t /\ (i <= Len(c) => c[k - 1] # c[i])
        BY <1>1, <1>5, <1>11, <3>1
      <3>6. r[c[k - 1]] = s[c[k - 1]] /\ b[c[k - 1]] = d[c[k - 1]]
        BY <1>7, <1>9, <3>5
      <3>7. d[c[k - 1]] = s[c[k - 1]] + Before(c, d, k - 1)
        BY <3>1 DEF Diffs
      <3> QED BY <3>2, <3>4, <3>6, <3>7
    <2> QED BY <1>1, <2>0, <2>1, <2>2, <2>3, <2>4
  <1> QED BY <1>2, <1>3, <1>8, <1>10, <1>12 DEF Diffs, w

\* A signal takes one from the first difference.
OneLess(c, s) == [s EXCEPT ![c[1]] = s[c[1]] - 1]

\* It resumes the tasks which wait for no more, and is one less for the others.
LEMMA SignalKeeps ==
  ASSUME NEW c, NEW s, NEW d, Diffs(c, s, d), c # <<>>,
         NEW k \in 1..Len(c) + 1,
         \A j \in 1..Len(c) : j < k => OneLess(c, s)[c[j]] = 0,
         k <= Len(c) => OneLess(c, s)[c[k]] # 0,
         NEW b, b = [t \in Tasks |-> IF Contains(c, t) THEN d[t] - 1 ELSE d[t]]
  PROVE  Diffs(SubSeq(c, k, Len(c)), OneLess(c, s), b)
  <1> DEFINE w == SubSeq(c, k, Len(c))
             r == OneLess(c, s)
  <1>1. /\ c \in Seq(Tasks) /\ Injective(c) /\ Len(c) \in Nat /\ Len(c) > 0
        /\ \A j \in 1..Len(c) : c[j] \in Tasks /\ s[c[j]] \in Nat /\ d[c[j]] \in Nat /\ d[c[j]] > 0
        /\ \A j, l \in 1..Len(c) : c[j] = c[l] => j = l
    BY DiffsTypes, EmptySeq
  <1>2. s \in [Tasks -> Nat] /\ d \in [Tasks -> Nat] /\ \A u \in Tasks : d[u] > 0 <=> Contains(c, u)
    BY DEF Diffs
  <1>3. s[c[1]] = d[c[1]] /\ 1 \in 1..Len(c)
    <2>1. Before(c, d, 1) = 0
      BY DEF Before
    <2> QED BY <1>1, <2>1 DEF Diffs
  <1>4. r \in [Tasks -> Nat] /\ r[c[1]] = s[c[1]] - 1
        /\ \A j \in 1..Len(c) : j # 1 => r[c[j]] = s[c[j]]
    <2>1. s[c[1]] - 1 \in Nat
      BY <1>1, <1>3
    <2> QED BY <1>1, <1>2, <1>3, <2>1 DEF OneLess
  <1>5. \A j \in 1..Len(c) : j < k => r[c[j]] = 0
    OBVIOUS
  <1>6. k <= Len(c) => r[c[k]] # 0
    OBVIOUS
  <1>7. \A u \in Tasks : b[u] = IF Contains(c, u) THEN d[u] - 1 ELSE d[u]
    OBVIOUS
  <1>8. \A j \in 1..Len(c) : j # 1 => d[c[j]] = s[c[j]] + d[c[j - 1]]
    BY DEF Diffs, Before
  <1> HIDE DEF w, r
  <1>9. \A j \in 1..Len(c) : j < k => d[c[j]] = 1
    <2> SUFFICES ASSUME NEW i \in 1..Len(c), i < k, d[c[i]] # 1 PROVE FALSE
      OBVIOUS
    <2> DEFINE S == {j \in 1..Len(c) : j < k /\ d[c[j]] # 1}
    <2>1. S \in SUBSET Nat /\ S # {}
      OBVIOUS
    <2>2. PICK j \in S : \A l \in S : j <= l
      <3> HIDE DEF S
      <3> QED BY <2>1, LeastNumber
    <2>3. j \in 1..Len(c) /\ j < k /\ d[c[j]] # 1 /\ r[c[j]] = 0
      BY <1>5, <2>2
    <2>4. j # 1
      BY <1>1, <1>3, <1>4, <2>3
    <2>5. j - 1 \in 1..Len(c) /\ j - 1 < k /\ ~(j <= j - 1)
      BY <1>1, <2>3, <2>4
    <2>6. d[c[j - 1]] = 1
      BY <2>2, <2>5
    <2>7. s[c[j]] = 0 /\ d[c[j]] = s[c[j]] + d[c[j - 1]]
      BY <1>4, <1>8, <2>3, <2>4
    <2> QED BY <2>3, <2>6, <2>7
  <1>10. \A j \in 1..Len(c) : k <= j => d[c[j]] > 1
    <2> SUFFICES ASSUME NEW j \in 1..Len(c), k <= j PROVE d[c[j]] > 1
      OBVIOUS
    <2>1. k \in 1..Len(c) /\ k <= Len(c) /\ r[c[k]] # 0
      BY <1>1, <1>6
    <2>2. d[c[k]] <= d[c[j]] /\ d[c[k]] \in Nat /\ d[c[j]] \in Nat /\ s[c[k]] \in Nat
      BY <1>1, <2>1, Rising
    <2>3. CASE k = 1
      BY <1>1, <1>3, <1>4, <2>1, <2>2, <2>3
    <2>4. CASE k # 1
      <3>1. k - 1 \in 1..Len(c) /\ k - 1 < k
        BY <2>1, <2>4
      <3>2. d[c[k - 1]] = 1 /\ s[c[k]] # 0 /\ d[c[k]] = s[c[k]] + d[c[k - 1]]
        BY <1>4, <1>8, <1>9, <2>1, <2>4, <3>1
      <3> QED BY <2>2, <3>2
    <2> QED BY <2>3, <2>4
  <1>11. /\ w \in Seq(Tasks) /\ Len(w) \in Nat /\ Len(w) = (Len(c) - k) + 1
         /\ \A i \in 1..Len(w) : w[i] = c[k + i - 1]
    <2>1. CASE k = Len(c) + 1
      <3>1. w = <<>>
        BY <1>1, <2>1, SubSeqEmpty DEF w
      <3>2. Len(w) = 0 /\ <<>> \in Seq(Tasks)
        BY <3>1
      <3> QED BY <1>1, <2>1, <3>1, <3>2
    <2>2. CASE k # Len(c) + 1
      <3>1. k \in Int /\ Len(c) \in Int /\ k <= Len(c)
            /\ \A i \in k..Len(c) : c[i] \in Tasks
        BY <1>1, <2>2
      <3>2. /\ w \in Seq(Tasks)
            /\ Len(w) = IF k <= Len(c) THEN Len(c) - k + 1 ELSE 0
            /\ \A i \in 1..Len(c) - k + 1 : w[i] = c[k + i - 1]
        BY <3>1, SubSeqProperties DEF w
      <3>3. k <= Len(c) /\ Len(w) \in Nat
        BY <3>1, <3>2
      <3> QED BY <3>2, <3>3
    <2> QED BY <2>1, <2>2
  <1>12. \A i \in 1..Len(w) : k + i - 1 \in 1..Len(c) /\ k <= k + i - 1
    BY <1>1, <1>11
  <1>13. \A u \in Tasks : Contains(w, u) <=> Contains(c, u) /\ d[u] > 1
    <2>1. ASSUME NEW u \in Tasks, Contains(w, u) PROVE Contains(c, u) /\ d[u] > 1
      <3>1. PICK i \in 1..Len(w) : w[i] = u
        BY <2>1, <1>11 DEF Contains
      <3>2. u = c[k + i - 1] /\ k + i - 1 \in 1..Len(c) /\ k <= k + i - 1
        BY <1>11, <1>12, <3>1
      <3> QED BY <1>10, <3>2 DEF Contains
    <2>2. ASSUME NEW u \in Tasks, Contains(c, u), d[u] > 1 PROVE Contains(w, u)
      <3>1. PICK j \in 1..Len(c) : c[j] = u
        BY <2>2 DEF Contains
      <3>2. ~(j < k)
        BY <1>9, <2>2, <3>1
      <3>3. j - k + 1 \in 1..Len(w) /\ k + (j - k + 1) - 1 = j
        BY <1>1, <1>11, <3>1, <3>2
      <3>4. w[j - k + 1] = u
        BY <1>11, <3>1, <3>3
      <3> QED BY <3>3, <3>4 DEF Contains
    <2> QED BY <2>1, <2>2
  <1>14. Injective(w)
    <2>1. \A i, j \in 1..Len(w) : w[i] = w[j] => i = j
      <3> SUFFICES ASSUME NEW i \in 1..Len(w), NEW j \in 1..Len(w), w[i] = w[j] PROVE i = j
        OBVIOUS
      <3>1. c[k + i - 1] = c[k + j - 1] /\ k + i - 1 \in 1..Len(c) /\ k + j - 1 \in 1..Len(c)
        BY <1>11, <1>12
      <3>2. k + i - 1 = k + j - 1
        BY <1>1, <3>1
      <3> QED BY <1>1, <1>11, <3>2
    <2>2. DOMAIN w = 1..Len(w)
      BY <1>11, LenProperties
    <2> QED BY <2>1, <2>2 DEF Injective
  <1>15. b \in [Tasks -> Nat] /\ \A u \in Tasks : b[u] > 0 <=> Contains(w, u)
    <2>1. \A u \in Tasks : d[u] \in Nat
      BY <1>2
    <2>2. \A u \in Tasks : b[u] \in Nat /\ (b[u] > 0 <=> Contains(w, u))
      BY <1>2, <1>7, <1>13, <2>1
    <2> QED BY <2>2
  <1>16. ASSUME NEW i \in 1..Len(w) PROVE b[w[i]] = r[w[i]] + Before(w, b, i)
    <2> DEFINE j == k + i - 1
    <2>1. j \in 1..Len(c) /\ k <= j /\ w[i] = c[j]
      BY <1>11, <1>12
    <2> HIDE DEF j
    <2>2. \A l \in 1..Len(c) : b[c[l]] = d[c[l]] - 1
      BY <1>1, <1>7 DEF Contains
    <2>3. b[w[i]] = d[c[j]] - 1
      BY <2>1, <2>2
    <2>4. d[c[j]] \in Nat /\ s[c[j]] \in Nat /\ r[w[i]] \in Nat
      BY <1>1, <1>4, <2>1
    <2>5. CASE j = 1
      <3>1. i = 1
        BY <1>1, <1>11, <2>5 DEF j
      <3>2. Before(w, b, i) = 0
        BY <3>1 DEF Before
      <3>3. r[w[i]] = d[c[j]] - 1
        BY <1>3, <1>4, <2>1, <2>5
      <3> QED BY <2>3, <2>4, <3>2, <3>3
    <2>6. CASE j # 1 /\ i = 1
      <3>1. Before(w, b, i) = 0 /\ j = k /\ j - 1 \in 1..Len(c) /\ j - 1 < k
        BY <1>1, <2>1, <2>6 DEF Before, j
      <3>2. d[c[j - 1]] = 1 /\ r[w[i]] = s[c[j]] /\ d[c[j]] = s[c[j]] + d[c[j - 1]]
        BY <1>4, <1>8, <1>9, <2>1, <2>6, <3>1
      <3> QED BY <2>3, <2>4, <3>1, <3>2
    <2>7. CASE j # 1 /\ i # 1
      <3>1. i - 1 \in 1..Len(w) /\ k + (i - 1) - 1 = j - 1 /\ j - 1 \in 1..Len(c)
        BY <1>1, <1>11, <2>1, <2>7 DEF j
      <3>2. w[i - 1] = c[j - 1] /\ Before(w, b, i) = d[c[j - 1]] - 1
        BY <1>11, <2>2, <2>7, <3>1 DEF Before
      <3>3. r[w[i]] = s[c[j]] /\ d[c[j]] = s[c[j]] + d[c[j - 1]] /\ d[c[j - 1]] \in Nat
        BY <1>1, <1>4, <1>8, <2>1, <2>7, <3>1
      <3> DEFINE x == s[c[j]]
                 y == d[c[j - 1]]
      <3>4. x \in Nat /\ y \in Nat /\ b[w[i]] = (x + y) - 1 /\ r[w[i]] = x /\ Before(w, b, i) = y - 1
        BY <2>3, <2>4, <3>2, <3>3
      <3> HIDE DEF x, y
      <3>5. (x + y) - 1 = x + (y - 1)
        BY <3>4
      <3> QED BY <3>4, <3>5
    <2> QED BY <2>5, <2>6, <2>7
  <1> QED BY <1>4, <1>11, <1>14, <1>15, <1>16 DEF Diffs, w, r

\* A task that leaves hands its difference to the one behind.
LEMMA RemovalKeeps ==
  ASSUME NEW c, NEW s, NEW d, Diffs(c, s, d), NEW i \in 1..Len(c),
         NEW r, r = [u \in Tasks |-> IF u = c[i] THEN 0
                                     ELSE IF i + 1 <= Len(c) /\ u = c[i + 1]
                                          THEN s[u] + s[c[i]] ELSE s[u]],
         NEW b, b = [d EXCEPT ![c[i]] = 0]
  PROVE  Diffs(Without(c, c[i]), r, b)
  <1> DEFINE w == Without(c, c[i])
             t == c[i]
  <1>1. /\ c \in Seq(Tasks) /\ Injective(c) /\ Len(c) \in Nat /\ DOMAIN c = 1..Len(c)
        /\ \A j \in 1..Len(c) : c[j] \in Tasks /\ s[c[j]] \in Nat /\ d[c[j]] \in Nat /\ d[c[j]] > 0
        /\ \A j, l \in 1..Len(c) : c[j] = c[l] => j = l
    BY DiffsTypes
  <1>2. s \in [Tasks -> Nat] /\ d \in [Tasks -> Nat] /\ \A u \in Tasks : d[u] > 0 <=> Contains(c, u)
    BY DEF Diffs
  <1>3. Contains(c, t) /\ t \in Tasks
    BY <1>1 DEF Contains
  <1>4. w \in Seq(Tasks) /\ Injective(w) /\ \A u : Contains(w, u) <=> Contains(c, u) /\ u # t
    BY <1>1, <1>3, WithoutProperties
  <1>5. w = RemoveAt(c, i)
    <2>1. (CHOOSE j \in DOMAIN c : c[j] = c[i]) = i
      <3>1. \E j \in DOMAIN c : c[j] = c[i]
        BY <1>1
      <3> QED BY <1>1, <3>1
    <2> QED BY <1>3, <2>1 DEF Without
  <1>6. /\ Len(w) = Len(c) - 1 /\ Len(w) \in Nat
        /\ \A j \in 1..Len(c) - 1 : w[j] = IF j < i THEN c[j] ELSE c[j + 1]
    <2> DEFINE v == RemoveAt(c, i)
    <2>1. /\ Len(v) = Len(c) - 1
          /\ \A j \in 1..Len(c) - 1 : v[j] = IF j < i THEN c[j] ELSE c[j + 1]
      <3>1. c \in Seq(Tasks) /\ i \in 1..Len(c)
        BY <1>1
      <3> QED BY <3>1, RemoveAtProperties DEF v
    <2> HIDE DEF v, w
    <2>2. w = v
      BY <1>5 DEF v
    <2>3. Len(w) \in Nat
      BY <1>4, LenProperties
    <2> QED BY <2>1, <2>2, <2>3
  <1>7. \A u \in Tasks : r[u] = IF u = t THEN 0
                                ELSE IF i + 1 <= Len(c) /\ u = c[i + 1]
                                     THEN s[u] + s[t] ELSE s[u]
    OBVIOUS
  <1>8. \A u \in Tasks : b[u] = IF u = t THEN 0 ELSE d[u]
    BY <1>2
  <1>9. \A j \in 1..Len(c) : d[c[j]] = s[c[j]] + Before(c, d, j)
    BY DEF Diffs
  <1>10. \A j \in 1..Len(c) : j # i => c[j] # t /\ b[c[j]] = d[c[j]]
    BY <1>1, <1>8
  <1> HIDE DEF w
  <1>11. r \in [Tasks -> Nat] /\ b \in [Tasks -> Nat]
    <2>1. \A u \in Tasks : s[u] \in Nat /\ d[u] \in Nat
      BY <1>2
    <2>2. \A u \in Tasks : s[u] + s[t] \in Nat
      BY <1>3, <2>1
    <2> QED BY <1>2, <1>3, <2>1, <2>2
  <1>12. \A u \in Tasks : b[u] > 0 <=> Contains(w, u)
    BY <1>2, <1>4, <1>8
  <1> HIDE DEF t
  <1>13. ASSUME NEW j \in 1..Len(w) PROVE b[w[j]] = r[w[j]] + Before(w, b, j)
    <2>1. CASE j < i
      <3>1. j \in 1..Len(c) /\ w[j] = c[j] /\ j # i /\ j # i + 1
        BY <1>1, <1>6, <2>1
      <3>2. i + 1 <= Len(c) => c[j] # c[i + 1]
        BY <1>1, <3>1
      <3>3. b[w[j]] = d[c[j]] /\ r[w[j]] = s[c[j]]
        BY <1>1, <1>7, <1>10, <3>1, <3>2
      <3>4. Before(w, b, j) = Before(c, d, j)
        <4>1. CASE j = 1
          BY <4>1 DEF Before
        <4>2. CASE j # 1
          <5>1. j - 1 \in 1..Len(c) - 1 /\ j - 1 \in 1..Len(c) /\ j - 1 < i /\ j - 1 # i
            BY <1>1, <1>6, <2>1, <3>1, <4>2
          <5>2. w[j - 1] = c[j - 1] /\ b[c[j - 1]] = d[c[j - 1]]
            BY <1>6, <1>10, <5>1
          <5> QED BY <4>2, <5>2 DEF Before
        <4> QED BY <4>1, <4>2
      <3> QED BY <1>9, <3>1, <3>3, <3>4
    <2>2. CASE j = i
      <3>1. i + 1 \in 1..Len(c) /\ i + 1 <= Len(c) /\ w[j] = c[i + 1] /\ i + 1 # i /\ i + 1 # 1 /\ (i + 1) - 1 = i
        BY <1>1, <1>6, <2>2
      <3>2. b[w[j]] = d[c[i + 1]] /\ r[w[j]] = s[c[i + 1]] + s[t]
        BY <1>1, <1>7, <1>10, <3>1
      <3>3. d[c[i + 1]] = s[c[i + 1]] + d[c[i]]
        BY <1>9, <3>1 DEF Before
      <3>4. d[c[i]] = s[t] + Before(c, d, i)
        BY <1>9 DEF t
      <3>5. Before(w, b, j) = Before(c, d, i) /\ Before(c, d, i) \in Nat
        <4>1. CASE j = 1
          BY <2>2, <4>1 DEF Before
        <4>2. CASE j # 1
          <5>1. j - 1 \in 1..Len(c) - 1 /\ j - 1 \in 1..Len(c) /\ j - 1 < i /\ j - 1 # i
            BY <1>1, <1>6, <2>2, <4>2
          <5>2. w[j - 1] = c[j - 1] /\ b[c[j - 1]] = d[c[j - 1]] /\ d[c[j - 1]] \in Nat
            BY <1>1, <1>6, <1>10, <5>1
          <5> QED BY <2>2, <4>2, <5>2 DEF Before
        <4> QED BY <4>1, <4>2
      <3>6. s[c[i + 1]] \in Nat /\ s[t] \in Nat
        BY <1>1, <3>1 DEF t
      <3> QED BY <3>2, <3>3, <3>4, <3>5, <3>6
    <2>3. CASE j > i
      <3>1. j + 1 \in 1..Len(c) /\ w[j] = c[j + 1] /\ j + 1 # i /\ j + 1 # i + 1 /\ j # 1 /\ j + 1 # 1
            /\ (j + 1) - 1 = j /\ j \in 1..Len(c) /\ j # i
        BY <1>1, <1>6, <2>3
      <3>2. i + 1 <= Len(c) => c[j + 1] # c[i + 1]
        BY <1>1, <3>1
      <3>3. b[w[j]] = d[c[j + 1]] /\ r[w[j]] = s[c[j + 1]]
        BY <1>1, <1>7, <1>10, <3>1, <3>2
      <3>4. Before(w, b, j) = b[w[j - 1]] /\ Before(c, d, j + 1) = d[c[j]]
        BY <3>1 DEF Before
      <3>5. j - 1 \in 1..Len(c) - 1 /\ ~(j - 1 < i) /\ (j - 1) + 1 = j
        BY <1>1, <1>6, <2>3, <3>1
      <3>6. w[j - 1] = c[j] /\ b[c[j]] = d[c[j]]
        BY <1>6, <1>10, <3>1, <3>5
      <3> QED BY <1>9, <3>1, <3>3, <3>4, <3>6
    <2> QED BY <1>1, <1>6, <2>1, <2>2, <2>3
  <1> QED BY <1>4, <1>11, <1>12, <1>13 DEF Diffs, w

\* The differences of a queue after a call.
Counts == Diffs(counters, sv, due)

LEMMA CountsType ==
  ASSUME Counts
  PROVE  /\ counters \in Seq(Tasks) /\ Len(counters) \in Nat /\ DOMAIN counters = 1..Len(counters)
         /\ \A u : u \in Range(counters) <=> Contains(counters, u)
  BY DiffsTypes, RangeContains DEF Counts

LEMMA CountStep ==
  ASSUME Counts, NEW t \in Tasks, NEW n \in 1..MaxEvents, EventQueueCount(t, n)
  PROVE  Counts'
  <1>1. /\ counters \in Seq(Tasks) /\ Len(counters) \in Nat /\ DOMAIN counters = 1..Len(counters)
        /\ \A u : u \in Range(counters) <=> Contains(counters, u)
    BY CountsType
  <1>2. \A j \in 0..Len(counters) : Total[j] = IF j = 0 THEN 0 ELSE due[counters[j]]
    BY TotalIs DEF Counts
  <1>3. \A j \in 1..Len(counters) : due[counters[j]] \in Nat
    BY DiffsTypes DEF Counts
  <1> DEFINE S == {j \in DOMAIN counters : n < Total[j]} \union {Len(counters) + 1}
             i == Place(n)
  <1>4. S \in SUBSET Nat /\ S # {}
    BY <1>1
  <1>5. i = Min(S)
    BY DEF Place
  <1> HIDE DEF i
  <1>6. i \in S /\ \A j \in S : i <= j
    <2> HIDE DEF S
    <2> QED BY <1>4, <1>5, MinProperties
  <1>7. i \in 1..Len(counters) + 1
    BY <1>1, <1>6
  <1>8. i <= Len(counters) => n < due[counters[i]]
    BY <1>1, <1>2, <1>6, <1>7
  <1>9. \A j \in 1..Len(counters) : j < i => due[counters[j]] <= n
    <2> SUFFICES ASSUME NEW j \in 1..Len(counters), j < i PROVE due[counters[j]] <= n
      OBVIOUS
    <2>1. j \notin S
      BY <1>6, <1>7
    <2>2. ~(n < Total[j])
      BY <1>1, <2>1
    <2>3. Total[j] = due[counters[j]]
      BY <1>1, <1>2
    <2> QED BY <1>3, <2>2, <2>3
  <1>10. Total[i - 1] = Before(counters, due, i)
    <2>1. i - 1 \in 0..Len(counters) /\ (i - 1 = 0 <=> i = 1)
      BY <1>1, <1>7
    <2> QED BY <1>2, <2>1 DEF Before
  <1> HIDE DEF S
  <1> DEFINE a == n - Before(counters, due, i)
             next == {counters[j] : j \in {i} \intersect DOMAIN counters}
  <1>11. /\ t \notin Range(counters) /\ counters' = InsertAt(counters, i, t)
         /\ sv' = [u \in Tasks |-> IF u = t THEN a ELSE IF u \in next THEN sv[u] - a ELSE sv[u]]
         /\ due' = [due EXCEPT ![t] = n]
    BY <1>10 DEF EventQueueCount, i
  <1>12. \A u : u \in next <=> i <= Len(counters) /\ u = counters[i]
    BY <1>1, <1>7
  <1> HIDE DEF next
  <1>13. sv' = [u \in Tasks |-> IF u = t THEN a
                                ELSE IF i <= Len(counters) /\ u = counters[i]
                                     THEN sv[u] - a ELSE sv[u]]
    BY <1>11, <1>12
  <1>14. n \in Nat /\ n > 0
    BY EventQueueAssumption
  <1>15. ~Contains(counters, t)
    BY <1>1, <1>11
  <1>16. Diffs(InsertAt(counters, i, t), sv', due')
    BY <1>7, <1>8, <1>9, <1>11, <1>13, <1>14, <1>15, CountKeeps DEF Counts
  <1> QED BY <1>11, <1>16 DEF Counts

LEMMA SignalStep ==
  ASSUME Counts, EventQueueSignal
  PROVE  Counts'
  <1>1. /\ counters \in Seq(Tasks) /\ Len(counters) \in Nat /\ DOMAIN counters = 1..Len(counters)
        /\ \A u : u \in Range(counters) <=> Contains(counters, u)
    BY CountsType
  <1> DEFINE s1 == OneLess(counters, sv)
             S == {i \in DOMAIN counters : s1[counters[i]] # 0} \union {Len(counters) + 1}
             k == Min(S)
  <1>2. counters # <<>> /\ Head(counters) = counters[1]
    BY <1>1 DEF EventQueueSignal
  <1>3. /\ sv' = s1 /\ counters' = SubSeq(counters, k, Len(counters))
        /\ due' = [t \in Tasks |-> IF t \in Range(counters) THEN due[t] - 1 ELSE due[t]]
    BY <1>2 DEF EventQueueSignal, OneLess
  <1>4. S \in SUBSET Nat /\ S # {}
    BY <1>1
  <1>5. k \in S /\ \A j \in S : k <= j
    <2> HIDE DEF S
    <2> QED BY <1>4, MinProperties
  <1> HIDE DEF k, s1
  <1>6. k \in 1..Len(counters) + 1
    BY <1>1, <1>5
  <1>7. k <= Len(counters) => s1[counters[k]] # 0
    BY <1>1, <1>5, <1>6
  <1>8. \A j \in 1..Len(counters) : j < k => s1[counters[j]] = 0
    BY <1>1, <1>5, <1>6
  <1>9. due' = [t \in Tasks |-> IF Contains(counters, t) THEN due[t] - 1 ELSE due[t]]
    BY <1>1, <1>3
  <1>10. Diffs(SubSeq(counters, k, Len(counters)), s1, due')
    BY <1>2, <1>6, <1>7, <1>8, <1>9, SignalKeeps DEF Counts, s1
  <1> QED BY <1>3, <1>10 DEF Counts

LEMMA EndsStep ==
  ASSUME Counts, NEW t \in Tasks, CountEnds(t)
  PROVE  Counts'
  <1>1. /\ counters \in Seq(Tasks) /\ Len(counters) \in Nat /\ DOMAIN counters = 1..Len(counters)
        /\ \A u : u \in Range(counters) <=> Contains(counters, u)
    BY CountsType
  <1> DEFINE i == CHOOSE i \in DOMAIN counters : counters[i] = t
             next == {counters[j] : j \in {i + 1} \intersect DOMAIN counters}
  <1>2. /\ t \in Range(counters) /\ counters' = Without(counters, t) /\ due' = [due EXCEPT ![t] = 0]
        /\ sv' = [u \in Tasks |-> IF u = t THEN 0 ELSE IF u \in next THEN sv[u] + sv[t] ELSE sv[u]]
    BY DEF CountEnds, UncountTask
  <1>3. \E j \in DOMAIN counters : counters[j] = t
    BY <1>1, <1>2 DEF Contains
  <1>4. i \in 1..Len(counters) /\ counters[i] = t
    BY <1>1, <1>3
  <1> HIDE DEF i
  <1>5. \A u : u \in next <=> i + 1 <= Len(counters) /\ u = counters[i + 1]
    BY <1>1, <1>4
  <1> HIDE DEF next
  <1>6. sv' = [u \in Tasks |-> IF u = counters[i] THEN 0
                               ELSE IF i + 1 <= Len(counters) /\ u = counters[i + 1]
                                    THEN sv[u] + sv[counters[i]] ELSE sv[u]]
    BY <1>2, <1>4, <1>5
  <1>7. due' = [due EXCEPT ![counters[i]] = 0]
    BY <1>2, <1>4
  <1>8. Diffs(Without(counters, counters[i]), sv', due')
    BY <1>4, <1>6, <1>7, RemovalKeeps DEF Counts
  <1> QED BY <1>2, <1>4, <1>8 DEF Counts

\* An empty queue.
LEMMA NoDiffs ==
  ASSUME NEW s \in [Tasks -> Nat]
  PROVE  Diffs(<<>>, s, [t \in Tasks |-> 0])
  <1>1. <<>> \in Seq(Tasks) /\ Len(<<>>) = 0 /\ 1..Len(<<>>) = {} /\ DOMAIN <<>> = {}
    OBVIOUS
  <1> QED BY <1>1 DEF Diffs, Injective, Contains

LEMMA ClearedStep ==
  ASSUME Counts, EventQueueClear
  PROVE  Counts'
  <1>1. sv' \in [Tasks -> Nat]
    BY DEF EventQueueClear, Counts, Diffs
  <1>2. Diffs(<<>>, sv', [t \in Tasks |-> 0])
    BY <1>1, NoDiffs
  <1> QED BY <1>2 DEF EventQueueClear, Counts

LEMMA CountsAlways == EventQueueSpec => []Counts
  <1>1. EventQueueInit => Counts
    <2>1. [t \in Tasks |-> 0] \in [Tasks -> Nat]
      OBVIOUS
    <2> QED BY <2>1, NoDiffs DEF EventQueueInit, Counts
  <1>2. Counts /\ [EventQueueNext]_eqVars => Counts'
    <2> SUFFICES ASSUME Counts, [EventQueueNext]_eqVars PROVE Counts'
      OBVIOUS
    <2>1. CASE UNCHANGED <<counters, sv, due>>
      BY <2>1 DEF Counts
    <2>2. CASE EventQueueCall
      BY <2>2, SignalStep, ClearedStep, EndsStep, CountStep DEF EventQueueCall
    <2>3. CASE EventQueueDelete
      BY <2>3, ClearedStep DEF EventQueueDelete
    <2> QED BY <2>1, <2>2, <2>3 DEF EventQueueNext, EventQueueCreate, eqVars
  <1> QED BY <1>1, <1>2, PTL DEF EventQueueSpec

LEMMA CountsAreExact ==
  ASSUME Counts
  PROVE  CountsExact
  <1>1. /\ Len(counters) \in Nat /\ DOMAIN counters = 1..Len(counters)
        /\ \A u : u \in Range(counters) <=> Contains(counters, u)
    BY CountsType
  <1>2. \A t \in Tasks : due[t] > 0 <=> t \in Range(counters)
    BY <1>1 DEF Counts, Diffs
  <1>3. \A j \in 0..Len(counters) : Total[j] = IF j = 0 THEN 0 ELSE due[counters[j]]
    BY TotalIs DEF Counts
  <1> QED BY <1>1, <1>2, <1>3 DEF CountsExact

\* Each task waits in an event queue for as many signals as it asked for, less
\* those that came since: smx_EventQueueCount(), smx_EventQueueSignal_F() and
\* smx_DQTask() keep the sums of the differences, whoever gets in or leaves.
THEOREM CountsKept == EventQueueSpec => []CountsExact
  BY CountsAreExact, CountsAlways, PTL

-----------------------------------------------------------------------------
(* Event groups: the and/or test. *)

AndOrStart(f, M) == [flags |-> f, mask |-> M, probe |-> 0, save |-> {}]

AndOrStep(s) == IF s.flags = {} \/ s.mask = {} THEN s ELSE AndOrTurn(s)

\* h is the loop up to n turns.
IsLoop(h, f, M, n) ==
    h = [k \in 0..n |-> IF k = 0 THEN AndOrStart(f, M) ELSE AndOrStep(h[k - 1])]

LEMMA LoopUpTo ==
  ASSUME NEW f, NEW M, NEW n \in Nat
  PROVE  \E h : IsLoop(h, f, M, n)
  <1> DEFINE P(m) == \E h : IsLoop(h, f, M, m)
             S == {m \in Nat : ~P(m)}
  <1> SUFFICES ASSUME ~P(n) PROVE FALSE
    OBVIOUS
  <1>1. S \in SUBSET Nat /\ S # {}
    <2> HIDE DEF P
    <2> QED OBVIOUS
  <1>2. PICK m \in S : \A j \in S : m <= j
    <2> HIDE DEF S
    <2> QED BY <1>1, LeastNumber
  <1>3. m \in Nat /\ ~P(m)
    <2> HIDE DEF P
    <2> QED OBVIOUS
  <1>4. P(0)
    <2> DEFINE h == [k \in 0..0 |-> AndOrStart(f, M)]
    <2>1. h = [k \in 0..0 |-> IF k = 0 THEN AndOrStart(f, M) ELSE AndOrStep(h[k - 1])]
      OBVIOUS
    <2> HIDE DEF h
    <2> QED BY <2>1 DEF IsLoop
  <1>5. m # 0 /\ m - 1 \in Nat /\ ~(m <= m - 1)
    <2> HIDE DEF P
    <2> QED BY <1>3, <1>4
  <1>6. P(m - 1)
    <2> HIDE DEF P
    <2> QED BY <1>2, <1>5
  <1>7. PICK h : h = [k \in 0..m - 1 |-> IF k = 0 THEN AndOrStart(f, M) ELSE AndOrStep(h[k - 1])]
    BY <1>6 DEF IsLoop
  <1> DEFINE g == [k \in 0..m |-> IF k = m THEN AndOrStep(h[m - 1]) ELSE h[k]]
  <1>8. \A k \in 0..m - 1 : h[k] = IF k = 0 THEN AndOrStart(f, M) ELSE AndOrStep(h[k - 1])
    BY <1>7, Zenon
  <1>9. g = [k \in 0..m |-> IF k = 0 THEN AndOrStart(f, M) ELSE AndOrStep(g[k - 1])]
    <2> SUFFICES ASSUME NEW k \in 0..m
                 PROVE  g[k] = IF k = 0 THEN AndOrStart(f, M) ELSE AndOrStep(g[k - 1])
      OBVIOUS
    <2>1. CASE k = 0
      BY <1>3, <1>5, <1>8, <2>1
    <2>2. CASE k = m
      BY <1>3, <1>5, <2>2
    <2>3. CASE k # 0 /\ k # m
      <3>1. k \in 0..m - 1 /\ k - 1 \in 0..m /\ k - 1 # m
        BY <1>3, <2>3
      <3>2. g[k] = h[k] /\ g[k - 1] = h[k - 1]
        BY <2>3, <3>1
      <3> HIDE DEF g
      <3> QED BY <1>8, <2>3, <3>1, <3>2
    <2> QED BY <2>1, <2>2, <2>3
  <1> HIDE DEF g
  <1> QED BY <1>3, <1>9 DEF IsLoop

LEMMA LoopIs ==
  ASSUME NEW f, NEW M
  PROVE  /\ AndOrLoop(f, M)[0] = AndOrStart(f, M)
         /\ \A k \in 1..Width : AndOrLoop(f, M)[k] = AndOrStep(AndOrLoop(f, M)[k - 1])
  <1>0. Width \in Nat
    BY EventGroupAssumption
  <1> DEFINE l == AndOrLoop(f, M)
  <1>1. l = CHOOSE h : IsLoop(h, f, M, Width)
    BY Zenon DEF AndOrLoop, AndOrStart, AndOrStep, IsLoop
  <1>2. \E h : IsLoop(h, f, M, Width)
    BY <1>0, LoopUpTo, Zenon
  <1> HIDE DEF l
  <1>3. l = [k \in 0..Width |-> IF k = 0 THEN AndOrStart(f, M) ELSE AndOrStep(l[k - 1])]
    <2>1. IsLoop(l, f, M, Width)
      BY <1>1, <1>2, Zenon
    <2> QED BY <2>1, Zenon DEF IsLoop
  <1>4. \A k \in 0..Width : l[k] = IF k = 0 THEN AndOrStart(f, M) ELSE AndOrStep(l[k - 1])
    BY <1>3, Zenon
  <1>5. 0 \in 0..Width /\ \A k \in 1..Width : k \in 0..Width /\ k # 0
    BY <1>0
  <1>6. l[0] = AndOrStart(f, M) /\ \A k \in 1..Width : l[k] = AndOrStep(l[k - 1])
    BY <1>4, <1>5, Zenon
  <1> QED BY <1>6 DEF l

-----------------------------------------------------------------------------
(* The turns of the loop.  M is the mask it starts with, g the first bit   *)
(* of M that it has not looked at after k turns.                           *)

\* The terms of M below g.
TermsBelow(M, g) == {d \in TermStarts(M) : d < g}

\* The next term of M at or above g is from b to t - 1.
TermAt(M, g, b, t) == /\ b \in M /\ t \in Nat /\ g <= b /\ b < t /\ t \notin M
                      /\ \A c \in b..t - 1 : c \in M
                      /\ \A c \in M : c >= g => c >= b
                      /\ g - 1 \notin M

LEMMA InTermsBelow ==
  ASSUME NEW M \in SUBSET Nat, NEW g, NEW d
  PROVE  d \in TermsBelow(M, g) <=> d \in M /\ d - 1 \notin M /\ d < g
  BY DEF TermsBelow, TermStarts

LEMMA TermsBelowFinite ==
  ASSUME NEW M \in SUBSET Nat, NEW g \in Nat
  PROVE  IsFiniteSet(TermsBelow(M, g)) /\ Cardinality(TermsBelow(M, g)) \in Nat
  <1>1. TermsBelow(M, g) \subseteq 0..g
    <2> SUFFICES ASSUME NEW d, d \in TermsBelow(M, g) PROVE d \in 0..g
      OBVIOUS
    <2>1. d \in M /\ d < g
      BY InTermsBelow
    <2> QED BY <2>1
  <1>2. IsFiniteSet(0..g)
    BY FS_Interval
  <1> QED BY <1>1, <1>2, FS_Subset, FS_CardinalityType

\* The term that the loop finds is the next one of the mask, and stands for
\* flags as many lower as there are terms before it.
LEMMA TermIs ==
  ASSUME NEW M \in SUBSET Nat, NEW g \in Nat, NEW b, NEW t, TermAt(M, g, b, t),
         NEW k \in Nat, Cardinality(TermsBelow(M, g)) = k
  PROVE  /\ TermsBelow(M, t + 1) = TermsBelow(M, g) \union {b}
         /\ Cardinality(TermsBelow(M, t + 1)) = k + 1
         /\ b \in TermStarts(M) /\ ~(b < g)
         /\ Term(M, b) = {c - k : c \in b..t - 1}
  <1>1. /\ b \in Nat /\ t \in Nat /\ g <= b /\ b < t /\ t \notin M /\ b \in M
        /\ \A c \in b..t - 1 : c \in M
        /\ \A c \in M : c \in Nat /\ (c >= g => c >= b)
        /\ g - 1 \notin M
    BY DEF TermAt
  <1>2. b \in TermStarts(M)
    BY <1>1 DEF TermStarts
  <1>3. TermsBelow(M, b) = TermsBelow(M, g)
    <2> SUFFICES ASSUME NEW d PROVE d \in TermsBelow(M, b) <=> d \in TermsBelow(M, g)
      OBVIOUS
    <2>1. d \in M /\ d - 1 \notin M => (d < b <=> d < g)
      BY <1>1
    <2> QED BY <2>1, InTermsBelow
  <1>4. TermsBelow(M, t + 1) = TermsBelow(M, g) \union {b}
    <2> SUFFICES ASSUME NEW d \in TermStarts(M) PROVE d < t + 1 <=> d < g \/ d = b
      BY <1>1, <1>2 DEF TermsBelow
    <2>1. d \in M /\ d - 1 \notin M /\ d \in Nat
      BY <1>1 DEF TermStarts
    <2>2. CASE d < g \/ d = b
      BY <1>1, <2>1, <2>2
    <2>3. CASE ~(d < g \/ d = b)
      <3>1. d > b
        BY <1>1, <2>1, <2>3
      <3>2. ~(d - 1 \in b..t - 1)
        BY <1>1, <2>1
      <3> QED BY <1>1, <2>1, <2>3, <3>1, <3>2
    <2> QED BY <2>2, <2>3
  <1>5. b \notin TermsBelow(M, g)
    BY <1>1 DEF TermsBelow
  <1>6. Cardinality(TermsBelow(M, g) \union {b}) = k + 1
    BY <1>5, TermsBelowFinite, FS_AddElement
  <1>7. {c \in M : c >= b /\ b..c \subseteq M} = b..t - 1
    <2> SUFFICES ASSUME NEW c \in Nat
                 PROVE  c \in M /\ c >= b /\ b..c \subseteq M <=> c \in b..t - 1
      BY <1>1
    <2>1. ASSUME c \in b..t - 1 PROVE c \in M /\ c >= b /\ b..c \subseteq M
      BY <1>1, <2>1
    <2>2. ASSUME c >= b, b..c \subseteq M PROVE c \in b..t - 1
      <3>1. t \notin b..c
        BY <1>1, <2>2
      <3> QED BY <1>1, <2>2, <3>1
    <2> QED BY <2>1, <2>2
  <1>8. {d \in TermStarts(M) : d < b} = TermsBelow(M, g)
    BY <1>3 DEF TermsBelow
  <1>9. Term(M, b) = {c - k : c \in b..t - 1}
    BY <1>7, <1>8 DEF Term
  <1>10. Cardinality(TermsBelow(M, t + 1)) = k + 1
    BY <1>4, <1>6
  <1>11. ~(b < g)
    BY <1>1
  <1> QED BY <1>2, <1>4, <1>9, <1>10, <1>11

Turn(f, M, k, g, s) ==
  /\ s = [flags |-> s.flags, mask |-> s.mask, probe |-> g - k, save |-> s.save]
  /\ k \in Nat /\ g \in Nat /\ 2 * k <= g /\ g - 1 \notin M
  /\ s.flags \subseteq f /\ \A x \in f : x >= g - k => x \in s.flags
  /\ s.mask \subseteq Nat /\ \A x \in Nat : x \in s.mask <=> x + k \in M /\ x + k >= g
  /\ Cardinality(TermsBelow(M, g)) = k
  /\ s.save # {} <=> \E b \in TermsBelow(M, g) : Term(M, b) \subseteq f

LEMMA TurnStarts ==
  ASSUME NEW f \in SUBSET Nat, NEW M \in SUBSET Nat
  PROVE  Turn(f, M, 0, 0, AndOrStart(f, M))
  <1>1. TermsBelow(M, 0) = {}
    <2> SUFFICES ASSUME NEW d, d \in TermsBelow(M, 0) PROVE FALSE
      OBVIOUS
    <2>1. d \in M /\ d < 0
      BY InTermsBelow
    <2> QED BY <2>1
  <1>2. Cardinality(TermsBelow(M, 0)) = 0
    BY <1>1, FS_EmptySet
  <1> QED BY <1>1, <1>2 DEF Turn, AndOrStart

\* What a turn looks at.
LEMMA TurnTerm ==
  ASSUME NEW f \in SUBSET Nat, NEW M \in SUBSET Bits, NEW k, NEW g, NEW s, Turn(f, M, k, g, s), s.mask # {},
         NEW first, first = Min({b \in s.mask : b >= s.probe}),
         NEW next, next = Min({b \in first..Width : b \notin s.mask})
  PROVE  first \in Nat /\ next \in Nat /\ TermAt(M, g, first + k, next + k)
  <1>1. /\ k \in Nat /\ g \in Nat /\ 2 * k <= g /\ g - 1 \notin M /\ s.probe = g - k
        /\ s.mask \subseteq Nat /\ \A x \in Nat : x \in s.mask <=> x + k \in M /\ x + k >= g
    BY DEF Turn
  <1>2. Width \in Nat /\ \A x \in M : x \in Nat /\ x < Width
    BY EventGroupAssumption DEF Bits
  <1>3. {b \in s.mask : b >= s.probe} = s.mask
    BY <1>1
  <1>4. first \in s.mask /\ \A x \in s.mask : first <= x
    BY <1>1, <1>3, MinProperties
  <1>5. first \in Nat /\ first + k \in M /\ first + k >= g
    BY <1>1, <1>4
  <1>6. first < Width /\ Width \notin s.mask
    BY <1>1, <1>2, <1>5
  <1> DEFINE S == {b \in first..Width : b \notin s.mask}
  <1>7. S \in SUBSET Nat /\ S # {}
    <2>1. Width \in Nat /\ first \in Nat /\ first <= Width /\ Width \notin s.mask
      BY <1>2, <1>5, <1>6
    <2>2. Width \in S
      BY ONLY <2>1
    <2>3. \A x \in S : x \in Nat
      BY ONLY <2>1
    <2> QED BY ONLY <2>2, <2>3
  <1>8. next \in S /\ \A x \in S : next <= x
    <2>1. next = Min(S)
      OBVIOUS
    <2> HIDE DEF S
    <2>2. Min(S) \in S /\ \A x \in S : Min(S) <= x
      BY ONLY <1>7, MinProperties
    <2> QED BY <2>1, <2>2, Zenon
  <1>9. next \in Nat /\ first < next /\ next <= Width /\ next \notin s.mask
    <2>1. next \in first..Width /\ next \notin s.mask
      BY <1>8
    <2>2. next # first
      BY <1>4, <2>1
    <2> QED BY <1>2, <1>5, <2>1, <2>2
  <1>10. next + k \notin M
    BY <1>1, <1>5, <1>9
  <1>11. ASSUME NEW c \in first + k..(next + k) - 1 PROVE c \in M
    <2>1. c - k \in first..Width /\ ~(next <= c - k) /\ c - k \in Nat
      BY <1>1, <1>2, <1>5, <1>9
    <2>2. c - k \in s.mask
      BY <1>8, <2>1
    <2> QED BY <1>1, <2>1, <2>2
  <1>12. ASSUME NEW c \in M, c >= g PROVE c >= first + k
    <2>1. c \in Nat /\ c - k \in Nat /\ (c - k) + k = c
      BY <1>1, <1>2, <1>12
    <2>2. c - k \in s.mask
      BY <1>1, <1>12, <2>1
    <2>3. first <= c - k
      BY <1>4, <2>2
    <2> QED BY <1>1, <1>5, <2>1, <2>3
  <1>13. first + k < next + k /\ next + k \in Nat
    BY <1>1, <1>5, <1>9
  <1>14. g <= first + k
    BY <1>1, <1>5
  <1> DEFINE u == first + k
             t == next + k
  <1>15. /\ u \in M /\ t \in Nat /\ g <= u /\ u < t /\ t \notin M
         /\ \A c \in u..t - 1 : c \in M
         /\ \A c \in M : c >= g => c >= u
         /\ g - 1 \notin M
    BY <1>1, <1>5, <1>10, <1>11, <1>12, <1>13, <1>14, Zenon
  <1> HIDE DEF u, t
  <1>16. TermAt(M, g, u, t)
    BY <1>15, Zenon DEF TermAt
  <1> QED BY <1>5, <1>9, <1>16, Zenon DEF u, t

LEMMA TurnKeeps ==
  ASSUME NEW f \in SUBSET Nat, NEW M \in SUBSET Bits, NEW k, NEW g, NEW s, Turn(f, M, k, g, s), s.mask # {}
  PROVE  \E h \in Nat : Turn(f, M, k + 1, h, AndOrTurn(s))
  <1> DEFINE first == Min({b \in s.mask : b >= s.probe})
             next  == Min({b \in first..Width : b \notin s.mask})
             term  == first..next - 1
             r     == [flags |-> s.flags \ term, mask |-> ShiftRight(s.mask \ term), probe |-> next,
                       save  |-> IF term \subseteq s.flags THEN s.save \union term ELSE s.save]
             h     == next + k + 1
  <1>1. AndOrTurn(s) = r
    BY DEF AndOrTurn
  <1>2. first \in Nat /\ next \in Nat /\ TermAt(M, g, first + k, next + k)
    BY TurnTerm
  <1> HIDE DEF first, next
  <1>3. /\ k \in Nat /\ g \in Nat /\ 2 * k <= g
        /\ s.flags \subseteq f /\ \A x \in f : x >= g - k => x \in s.flags
        /\ s.mask \subseteq Nat /\ \A x \in Nat : x \in s.mask <=> x + k \in M /\ x + k >= g
        /\ Cardinality(TermsBelow(M, g)) = k
        /\ s.save # {} <=> \E b \in TermsBelow(M, g) : Term(M, b) \subseteq f
    BY DEF Turn
  <1>4. M \in SUBSET Nat
    BY EventGroupAssumption DEF Bits
  <1>5. /\ TermsBelow(M, h) = TermsBelow(M, g) \union {first + k}
        /\ Cardinality(TermsBelow(M, h)) = k + 1
        /\ Term(M, first + k) = {c - k : c \in first + k..(next + k) - 1}
    <2> DEFINE b == first + k
               t == next + k
    <2>1. /\ M \in SUBSET Nat /\ g \in Nat /\ TermAt(M, g, b, t) /\ k \in Nat
          /\ Cardinality(TermsBelow(M, g)) = k
      BY <1>2, <1>3, <1>4
    <2> HIDE DEF b, t
    <2>2. /\ TermsBelow(M, t + 1) = TermsBelow(M, g) \union {b}
          /\ Cardinality(TermsBelow(M, t + 1)) = k + 1
          /\ Term(M, b) = {c - k : c \in b..t - 1}
      BY ONLY <2>1, TermIs
    <2> QED BY <2>2, Zenon DEF b, t, h
  <1>6. /\ first + k >= g /\ first < next /\ next + k \notin M /\ next + k \in Nat
        /\ \A c \in first + k..(next + k) - 1 : c \in M
        /\ \A c \in M : c >= g => c >= first + k
    <2> DEFINE b == first + k
               t == next + k
    <2>1. b < t => first < next
      BY <1>2, <1>3
    <2>2. b >= g <=> g <= b
      BY <1>2, <1>3
    <2> HIDE DEF b, t
    <2>3. TermAt(M, g, b, t)
      BY <1>2 DEF b, t
    <2>4. /\ b >= g /\ first < next /\ t \notin M /\ t \in Nat
          /\ \A c \in b..t - 1 : c \in M
          /\ \A c \in M : c >= g => c >= b
      BY <2>1, <2>2, <2>3, Zenon DEF TermAt
    <2> QED BY <2>4, Zenon DEF b, t
  <1>7. {c - k : c \in first + k..(next + k) - 1} = term
    <2>1. ASSUME NEW x \in term PROVE x \in {c - k : c \in first + k..(next + k) - 1}
      <3>1. x + k \in first + k..(next + k) - 1 /\ x = (x + k) - k
        BY <1>2, <1>3
      <3> QED BY <3>1
    <2>2. ASSUME NEW c \in first + k..(next + k) - 1 PROVE c - k \in term
      BY <1>2, <1>3
    <2> QED BY <2>1, <2>2
  <1>8. \A x \in term : x \in Nat /\ x >= g - k /\ x < next /\ x \in s.mask
    <2> SUFFICES ASSUME NEW x \in term PROVE x \in Nat /\ x >= g - k /\ x < next /\ x \in s.mask
      OBVIOUS
    <2>1. x \in Nat /\ x < next /\ x + k \in first + k..(next + k) - 1 /\ x + k >= g
      BY <1>2, <1>3, <1>6
    <2> QED BY <1>3, <1>6, <2>1
  <1>9. term \subseteq s.flags <=> term \subseteq f
    BY <1>3, <1>8
  <1>10. term # {}
    <2>1. first \in term
      BY <1>2, <1>6
    <2> QED BY <2>1
  <1>11. r.save # {} <=> \E b \in TermsBelow(M, h) : Term(M, b) \subseteq f
    <2>1. Term(M, first + k) = term
      BY <1>5, <1>7
    <2>2. r.save = IF term \subseteq s.flags THEN s.save \union term ELSE s.save
      OBVIOUS
    <2> HIDE DEF term, r, h
    <2> QED BY <1>3, <1>5, <1>9, <1>10, <2>1, <2>2
  <1>12. \A x \in Nat : x \in r.mask <=> x + (k + 1) \in M /\ x + (k + 1) >= h
    <2> SUFFICES ASSUME NEW x \in Nat PROVE x \in r.mask <=> x + (k + 1) \in M /\ x + (k + 1) >= h
      OBVIOUS
    <2>1. x \in r.mask <=> x + 1 \in s.mask \ term
      BY <1>3 DEF ShiftRight
    <2>2. x + 1 \in Nat /\ (x + 1) + k = x + (k + 1)
      BY <1>3
    <2>3. x + 1 \in s.mask <=> x + (k + 1) \in M /\ x + (k + 1) >= g
      BY <1>3, <2>2
    <2>4. ASSUME x + (k + 1) \in M, x + (k + 1) >= g, x + 1 \notin term PROVE x + (k + 1) >= h
      <3>1. x + (k + 1) >= first + k
        BY <1>6, <2>4
      <3>2. x + 1 >= next
        BY <1>2, <1>3, <2>4, <3>1
      <3>3. x + 1 # next
        BY <1>6, <2>2, <2>4
      <3> QED BY <1>2, <1>3, <3>2, <3>3
    <2>5. ASSUME x + (k + 1) >= h PROVE x + (k + 1) >= g /\ x + 1 \notin term
      BY <1>2, <1>3, <1>6, <2>5
    <2> HIDE DEF r, term, h
    <2> QED BY <2>1, <2>3, <2>4, <2>5
  <1>13. r.mask \subseteq Nat
    BY <1>3 DEF ShiftRight
  <1>14. r.flags \subseteq f /\ \A x \in f : x >= h - (k + 1) => x \in r.flags
    <2>1. h - (k + 1) = next /\ \A x \in Nat : x >= next => x >= g - k /\ x \notin term
      BY <1>2, <1>3, <1>6, <1>8
    <2> QED BY <1>3, <2>1
  <1>15. h \in Nat /\ 2 * (k + 1) <= h /\ h - 1 \notin M /\ k + 1 \in Nat /\ h - (k + 1) = next
    BY <1>2, <1>3, <1>6
  <1>16. r = [flags |-> r.flags, mask |-> r.mask, probe |-> h - (k + 1), save |-> r.save]
    BY <1>15
  <1> HIDE DEF r, h
  <1>17. Turn(f, M, k + 1, h, r)
    BY <1>5, <1>11, <1>12, <1>13, <1>14, <1>15, <1>16 DEF Turn
  <1> QED BY <1>1, <1>15, <1>17

\* When there are no flags or no mask left, the terms not looked at fail.
LEMMA TurnsEnd ==
  ASSUME NEW f \in SUBSET Nat, NEW M \in SUBSET Nat, NEW k, NEW g, NEW s, Turn(f, M, k, g, s),
         s.flags = {} \/ s.mask = {}
  PROVE  s.save # {} <=> \E b \in TermStarts(M) : Term(M, b) \subseteq f
  <1>1. /\ k \in Nat /\ g \in Nat /\ 2 * k <= g
        /\ s.flags \subseteq f /\ \A x \in f : x >= g - k => x \in s.flags
        /\ \A x \in Nat : x \in s.mask <=> x + k \in M /\ x + k >= g
        /\ Cardinality(TermsBelow(M, g)) = k
        /\ s.save # {} <=> \E b \in TermsBelow(M, g) : Term(M, b) \subseteq f
    BY DEF Turn
  <1>2. ASSUME NEW b \in TermStarts(M), Term(M, b) \subseteq f, ~(b < g) PROVE FALSE
    <2>1. b \in M /\ b \in Nat /\ b - 1 \notin M /\ g <= b
      BY <1>1, <1>2 DEF TermStarts
    <2>2. CASE s.mask = {}
      <3>1. b - k \in Nat /\ (b - k) + k = b
        BY <1>1, <2>1
      <3>2. b - k \in s.mask
        BY <1>1, <2>1, <3>1
      <3> QED BY <2>2, <3>2
    <2>3. CASE s.flags = {}
      <3> DEFINE n == Cardinality(TermsBelow(M, b))
                 T == TermsBelow(M, b) \ TermsBelow(M, g)
      <3>1. T \subseteq g..b - 1
        <4> SUFFICES ASSUME NEW d \in T PROVE d \in g..b - 1
          OBVIOUS
        <4>1. d \in M /\ d < b /\ ~(d < g)
          BY InTermsBelow
        <4> QED BY <1>1, <2>1, <4>1
      <3>2. IsFiniteSet(g..b - 1) /\ Cardinality(g..b - 1) <= b - g
        <4>1. g \in Int /\ b - 1 \in Int
          BY <1>1, <2>1
        <4>2. /\ IsFiniteSet(g..b - 1)
              /\ Cardinality(g..b - 1) = IF g > b - 1 THEN 0 ELSE ((b - 1) - g) + 1
          BY ONLY <4>1, FS_Interval
        <4> QED BY <1>1, <2>1, <4>2
      <3>3. IsFiniteSet(T) /\ Cardinality(T) <= Cardinality(g..b - 1)
        <4> HIDE DEF T
        <4> QED BY <3>1, <3>2, FS_Subset
      <3>4. Cardinality(T) \in Nat /\ Cardinality(g..b - 1) \in Nat
        BY <3>2, <3>3, FS_CardinalityType
      <3>5. TermsBelow(M, b) \subseteq TermsBelow(M, g) \union T
        OBVIOUS
      <3>6. IsFiniteSet(TermsBelow(M, g))
        BY <1>1, TermsBelowFinite
      <3> HIDE DEF T
      <3>7. /\ IsFiniteSet(TermsBelow(M, g) \union T)
            /\ Cardinality(TermsBelow(M, g) \union T)
                 = Cardinality(TermsBelow(M, g)) + Cardinality(T) - Cardinality(TermsBelow(M, g) \intersect T)
        BY <3>3, <3>6, FS_Union
      <3>8. Cardinality(TermsBelow(M, g) \intersect T) \in Nat
        <4>1. IsFiniteSet(TermsBelow(M, g) \intersect T)
          BY <3>6, FS_Subset
        <4> QED BY <4>1, FS_CardinalityType
      <3>9. n <= Cardinality(TermsBelow(M, g) \union T)
        BY <3>5, <3>7, FS_Subset
      <3>10. n \in Nat
        BY <2>1, TermsBelowFinite
      <3> HIDE DEF n
      <3>11. n <= k + (b - g)
        BY <1>1, <2>1, <3>2, <3>3, <3>4, <3>7, <3>8, <3>9, <3>10
      <3>12. b - n >= g - k
        BY <1>1, <2>1, <3>10, <3>11
      <3>13. b - n \in Term(M, b)
        <4> DEFINE run == {c \in M : c >= b /\ b..c \subseteq M}
        <4>1. b \in run
          <5>1. \A c \in b..b : c = b
            BY <2>1
          <5> QED BY <2>1, <5>1
        <4>2. {d \in TermStarts(M) : d < b} = TermsBelow(M, b)
          BY DEF TermsBelow
        <4>3. Term(M, b) = {c - n : c \in run}
          BY <4>2 DEF Term, n
        <4> QED BY <4>1, <4>3
      <3> QED BY <1>1, <1>2, <2>3, <3>12, <3>13
    <2> QED BY <2>2, <2>3
  <1>3. ASSUME NEW b PROVE b \in TermsBelow(M, g) <=> b \in TermStarts(M) /\ b < g
    BY DEF TermsBelow
  <1> QED BY <1>1, <1>2, <1>3

LEMMA LoopTurns ==
  ASSUME NEW f \in SUBSET Nat, NEW M \in SUBSET Bits, NEW n \in 0..Width
  PROVE  \E j, g \in Nat : /\ Turn(f, M, j, g, AndOrLoop(f, M)[n])
                           /\ \/ j = n
                              \/ AndOrLoop(f, M)[n].flags = {}
                              \/ AndOrLoop(f, M)[n].mask = {}
  <1> DEFINE l == AndOrLoop(f, M)
             Past(s) == s.flags = {} \/ s.mask = {}
             P(k) == \E j, g \in Nat : Turn(f, M, j, g, l[k]) /\ (j = k \/ Past(l[k]))
             S == {k \in 0..Width : ~P(k)}
  <1> SUFFICES ASSUME ~P(n) PROVE FALSE
    OBVIOUS
  <1>0. Width \in Nat /\ M \in SUBSET Nat
    BY EventGroupAssumption DEF Bits
  <1>1. l[0] = AndOrStart(f, M) /\ \A k \in 1..Width : l[k] = AndOrStep(l[k - 1])
    BY LoopIs
  <1> HIDE DEF l
  <1>2. S \in SUBSET Nat /\ S # {}
    <2> HIDE DEF P
    <2> QED BY <1>0
  <1>3. PICK k \in S : \A i \in S : k <= i
    <2> HIDE DEF S
    <2> QED BY <1>2, LeastNumber
  <1>4. k \in 0..Width /\ ~P(k)
    <2> HIDE DEF P
    <2> QED OBVIOUS
  <1>5. P(0)
    <2>1. Turn(f, M, 0, 0, l[0])
      BY <1>0, <1>1, TurnStarts
    <2> QED BY <2>1
  <1>6. k \in 1..Width /\ k - 1 \in 0..Width /\ ~(k <= k - 1)
    <2> HIDE DEF P
    <2> QED BY <1>0, <1>4, <1>5
  <1>7. P(k - 1)
    <2> HIDE DEF P
    <2> QED BY <1>3, <1>6
  <1>8. PICK j \in Nat, g \in Nat : Turn(f, M, j, g, l[k - 1]) /\ (j = k - 1 \/ Past(l[k - 1]))
    <2> HIDE DEF Past
    <2> QED BY <1>7
  <1>9. l[k] = AndOrStep(l[k - 1])
    BY <1>1, <1>6
  <1>10. CASE Past(l[k - 1])
    <2>1. l[k] = l[k - 1]
      BY <1>9, <1>10 DEF AndOrStep
    <2> HIDE DEF Past
    <2> QED BY <1>4, <1>8, <1>10, <2>1
  <1>11. CASE ~Past(l[k - 1])
    <2>1. l[k] = AndOrTurn(l[k - 1]) /\ l[k - 1].mask # {} /\ j = k - 1
      BY <1>8, <1>9, <1>11 DEF AndOrStep
    <2>2. PICK h \in Nat : Turn(f, M, j + 1, h, l[k])
      BY <1>8, <2>1, TurnKeeps
    <2>3. j + 1 = k /\ k \in Nat
      BY <1>6, <2>1
    <2>4. P(k)
      <3> HIDE DEF Past
      <3> QED BY <2>2, <2>3
    <2> QED BY <1>4, <2>4
  <1> QED BY <1>10, <1>11

\* The loop of andor_test() finds flags just if a term of the mask holds.
LEMMA AndOrHolds ==
  ASSUME NEW f \in SUBSET Nat, NEW M \in SUBSET Bits
  PROVE  AndOrLoop(f, M)[Width].save # {} <=> \E b \in TermStarts(M) : Term(M, b) \subseteq f
  <1> DEFINE s == AndOrLoop(f, M)[Width]
  <1>0. Width \in Nat /\ Width \in 0..Width /\ M \in SUBSET Nat /\ \A x \in M : x < Width
    BY EventGroupAssumption DEF Bits
  <1>1. PICK j \in Nat, g \in Nat : Turn(f, M, j, g, s) /\ (j = Width \/ s.flags = {} \/ s.mask = {})
    BY <1>0, LoopTurns
  <1> HIDE DEF s
  <1>2. ASSUME j = Width, NEW x \in s.mask PROVE FALSE
    <2>1. /\ 2 * j <= g /\ s.mask \subseteq Nat
          /\ \A y \in Nat : y \in s.mask <=> y + j \in M /\ y + j >= g
      BY <1>1 DEF Turn
    <2>2. x \in Nat /\ x + j \in M /\ x + j >= g
      BY <1>2, <2>1
    <2> QED BY <1>0, <1>2, <2>1, <2>2
  <1>3. s.flags = {} \/ s.mask = {}
    BY <1>1, <1>2
  <1>4. s.save # {} <=> \E b \in TermStarts(M) : Term(M, b) \subseteq f
    BY <1>0, <1>1, <1>3, TurnsEnd
  <1> QED BY <1>4 DEF s

\* A test.
Test == [mode : {"OR", "AND", "ANDOR"}, mask : (SUBSET Bits) \ {{}}, clear : SUBSET Bits]

\* A test passes just if the flags are what it asks for.
LEMMA SelectedHolds ==
  ASSUME NEW f \in SUBSET Bits, NEW w \in Test
  PROVE  Selected(f, w) # {} <=> Holds(f, w)
  <1>1. w.mode \in {"OR", "AND", "ANDOR"} /\ w.mask \in SUBSET Bits /\ w.mask # {}
    BY DEF Test
  <1>2. f \in SUBSET Nat
    BY EventGroupAssumption DEF Bits
  <1>3. CASE w.mode = "ANDOR"
    <2>1. AndOrLoop(f, w.mask)[Width].save # {} <=> \E b \in TermStarts(w.mask) : Term(w.mask, b) \subseteq f
      BY <1>1, <1>2, AndOrHolds
    <2> QED BY <1>3, <2>1 DEF Selected, Holds
  <1>4. CASE w.mode # "ANDOR"
    BY <1>1, <1>4 DEF Selected, Holds
  <1> QED BY <1>3, <1>4

\* Fewer flags satisfy no more tests.
LEMMA HoldsOfFewer ==
  ASSUME NEW f, NEW g, g \subseteq f, NEW w \in Test, Holds(g, w)
  PROVE  Holds(f, w)
  <1>1. w.mode \in {"OR", "AND", "ANDOR"}
    BY DEF Test
  <1>2. CASE w.mode = "OR"
    BY <1>2 DEF Holds
  <1>3. CASE w.mode = "AND"
    BY <1>3 DEF Holds
  <1>4. CASE w.mode = "ANDOR"
    <2>1. PICK b \in TermStarts(w.mask) : Term(w.mask, b) \subseteq g
      BY <1>4 DEF Holds
    <2>2. Term(w.mask, b) \subseteq f
      BY <2>1
    <2> QED BY <1>4, <2>2 DEF Holds
  <1> QED BY <1>1, <1>2, <1>3, <1>4

-----------------------------------------------------------------------------
(* The search of the waiters. *)

\* A waiter of the group.
EventWaits == [task : Tasks, test : Test]

\* The waiters v that a search under f leaves at i, after those before them.
FailingAt(f, v, h, i) == IF i = 0 THEN <<>>
                         ELSE IF Selected(f, v[i].test) = {} THEN Append(h[i - 1], v[i]) ELSE h[i - 1]

IsFailing(h, f, v, n) == h = [i \in 0..n |-> FailingAt(f, v, h, i)]

LEMMA FailingUpTo ==
  ASSUME NEW f, NEW v, NEW n \in Nat
  PROVE  \E h : IsFailing(h, f, v, n)
  <1> DEFINE P(m) == \E h : IsFailing(h, f, v, m)
             S == {m \in Nat : ~P(m)}
  <1> SUFFICES ASSUME ~P(n) PROVE FALSE
    OBVIOUS
  <1>1. S \in SUBSET Nat /\ S # {}
    <2> HIDE DEF P
    <2> QED OBVIOUS
  <1>2. PICK m \in S : \A j \in S : m <= j
    <2> HIDE DEF S
    <2> QED BY <1>1, LeastNumber
  <1>3. m \in Nat /\ ~P(m)
    <2> HIDE DEF P
    <2> QED OBVIOUS
  <1>4. P(0)
    <2> DEFINE h == [i \in 0..0 |-> <<>>]
    <2>1. \A i \in 0..0 : FailingAt(f, v, h, i) = <<>>
      BY DEF FailingAt
    <2>2. h = [i \in 0..0 |-> FailingAt(f, v, h, i)]
      BY <2>1
    <2> HIDE DEF h
    <2> QED BY <2>2 DEF IsFailing
  <1>5. m # 0 /\ m - 1 \in Nat /\ ~(m <= m - 1)
    <2> HIDE DEF P
    <2> QED BY <1>3, <1>4
  <1>6. P(m - 1)
    <2> HIDE DEF P
    <2> QED BY <1>2, <1>5
  <1>7. PICK h : IsFailing(h, f, v, m - 1)
    BY <1>6
  <1> DEFINE g == [i \in 0..m |-> IF i = m THEN FailingAt(f, v, h, m) ELSE h[i]]
  <1>8. \A i \in 0..m - 1 : h[i] = FailingAt(f, v, h, i)
    BY <1>7, Zenon DEF IsFailing
  <1>9. ASSUME NEW i \in 0..m PROVE FailingAt(f, v, g, i) = FailingAt(f, v, h, i)
    <2>1. CASE i = 0
      BY <2>1 DEF FailingAt
    <2>2. CASE i # 0
      <3>1. i - 1 \in 0..m /\ i - 1 # m
        BY <1>3, <2>2
      <3>2. g[i - 1] = h[i - 1]
        BY <3>1
      <3> HIDE DEF g
      <3> QED BY <3>2 DEF FailingAt
    <2> QED BY <2>1, <2>2
  <1>10. ASSUME NEW i \in 0..m PROVE g[i] = FailingAt(f, v, h, i)
    <2>1. CASE i = m
      BY <2>1
    <2>2. CASE i # m
      <3>1. i \in 0..m - 1 /\ g[i] = h[i]
        BY <1>3, <2>2
      <3> HIDE DEF g
      <3> QED BY <1>8, <3>1
    <2> QED BY <2>1, <2>2
  <1>11. g = [i \in 0..m |-> g[i]]
    OBVIOUS
  <1> HIDE DEF g
  <1>12. g = [i \in 0..m |-> FailingAt(f, v, g, i)]
    <2>1. \A i \in 0..m : g[i] = FailingAt(f, v, g, i)
      BY <1>9, <1>10
    <2> QED BY <1>11, <2>1
  <1> QED BY <1>3, <1>12 DEF IsFailing

\* Under f the tests of the waiters that are left fail.
LEMMA FailingIs ==
  ASSUME NEW f, waiters \in Seq(EventWaits), NEW n \in 0..Len(waiters)
  PROVE  /\ Failing(f)[n] \in Seq(EventWaits)
         /\ \A j \in 1..Len(Failing(f)[n]) : Selected(f, Failing(f)[n][j].test) = {}
  <1> DEFINE l == Failing(f)
             P(i) == /\ l[i] \in Seq(EventWaits)
                     /\ \A j \in 1..Len(l[i]) : Selected(f, l[i][j].test) = {}
             S == {i \in 0..Len(waiters) : ~P(i)}
  <1>0. Len(waiters) \in Nat /\ \A i \in 1..Len(waiters) : waiters[i] \in EventWaits
    BY LenProperties, ElementOfSeq
  <1>1. l = CHOOSE h : IsFailing(h, f, waiters, Len(waiters))
    BY Zenon DEF Failing, IsFailing, FailingAt
  <1>2. \E h : IsFailing(h, f, waiters, Len(waiters))
    BY <1>0, FailingUpTo, Zenon
  <1> SUFFICES ASSUME ~P(n) PROVE FALSE
    OBVIOUS
  <1> HIDE DEF l
  <1>3. \A i \in 0..Len(waiters) : l[i] = FailingAt(f, waiters, l, i)
    <2>1. IsFailing(l, f, waiters, Len(waiters))
      BY <1>1, <1>2, Zenon
    <2> QED BY <2>1, Zenon DEF IsFailing
  <1>4. S \in SUBSET Nat /\ S # {}
    <2> HIDE DEF P
    <2> QED BY <1>0
  <1>5. PICK i \in S : \A j \in S : i <= j
    <2> HIDE DEF S
    <2> QED BY <1>4, LeastNumber
  <1>6. i \in 0..Len(waiters) /\ ~P(i)
    <2> HIDE DEF P
    <2> QED OBVIOUS
  <1>7. P(0)
    <2>1. l[0] = <<>>
      BY <1>0, <1>3 DEF FailingAt
    <2> QED BY <2>1
  <1>8. i \in 1..Len(waiters) /\ i - 1 \in 0..Len(waiters) /\ ~(i <= i - 1)
    <2> HIDE DEF P
    <2> QED BY <1>0, <1>6, <1>7
  <1>9. P(i - 1)
    <2> HIDE DEF P
    <2> QED BY <1>5, <1>8
  <1>10. l[i] = FailingAt(f, waiters, l, i) /\ i # 0
    BY <1>0, <1>3, <1>6, <1>8
  <1>11. CASE Selected(f, waiters[i].test) = {}
    <2> DEFINE s == l[i - 1]
               w == waiters[i]
    <2>1. s \in Seq(EventWaits) /\ w \in EventWaits /\ \A j \in 1..Len(s) : Selected(f, s[j].test) = {}
      BY <1>0, <1>8, <1>9
    <2>2. l[i] = Append(s, w)
      BY <1>11, <1>10 DEF FailingAt
    <2>3. Selected(f, w.test) = {}
      BY <1>11
    <2> HIDE DEF s, w
    <2>4. /\ Append(s, w) \in Seq(EventWaits) /\ Len(Append(s, w)) = Len(s) + 1
          /\ \A j \in 1..Len(s) + 1 : Append(s, w)[j] = IF j <= Len(s) THEN s[j] ELSE w
      BY <2>1, AppendProperties
    <2>5. Len(s) \in Nat
      BY <2>1, LenProperties
    <2>6. ASSUME NEW j \in 1..Len(s) + 1 PROVE Selected(f, Append(s, w)[j].test) = {}
      <3>1. CASE j <= Len(s)
        <4>1. j \in 1..Len(s) /\ Append(s, w)[j] = s[j]
          BY <2>4, <2>5, <3>1
        <4> QED BY <2>1, <4>1
      <3>2. CASE ~(j <= Len(s))
        BY <2>3, <2>4, <3>2
      <3> QED BY <3>1, <3>2
    <2>7. P(i)
      BY <2>2, <2>4, <2>6
    <2> QED BY <1>6, <2>7
  <1>12. CASE Selected(f, waiters[i].test) # {}
    <2>1. l[i] = l[i - 1]
      BY <1>12, <1>10 DEF FailingAt
    <2> QED BY <1>6, <1>9, <2>1
  <1> QED BY <1>11, <1>12

-----------------------------------------------------------------------------
(* No event is missed. *)

\* No test of a waiter of v holds under f.
NoneHolds(f, v) == \A i \in 1..Len(v) : ~Holds(f, v[i].test)

EventsSound == /\ flags \in SUBSET Bits
               /\ waiters \in Seq(EventWaits)
               /\ ~made => waiters = <<>>
               /\ NoneHolds(flags, waiters)

\* Where the waiters are, and those of fewer flags.
LEMMA NoneHoldsOfFewer ==
  ASSUME NEW v \in Seq(EventWaits), NEW f, NEW g, g \subseteq f, NoneHolds(f, v)
  PROVE  NoneHolds(g, v)
  <1> SUFFICES ASSUME NEW i \in 1..Len(v), Holds(g, v[i].test) PROVE FALSE
    BY DEF NoneHolds
  <1>1. v[i] \in EventWaits
    BY ElementOfSeq
  <1>2. v[i].test \in Test
    BY <1>1 DEF EventWaits
  <1>3. Holds(f, v[i].test)
    BY <1>2, HoldsOfFewer
  <1> QED BY <1>3 DEF NoneHolds

\* A search leaves those whose tests fail.
LEMMA SearchIs ==
  ASSUME waiters \in Seq(EventWaits), NEW f \in SUBSET Bits
  PROVE  /\ Search(f).flags \subseteq f
         /\ Search(f).waiters \in Seq(EventWaits)
         /\ NoneHolds(f, Search(f).waiters)
  <1> DEFINE v == Failing(f)[Len(waiters)]
  <1>1. v \in Seq(EventWaits) /\ \A j \in 1..Len(v) : Selected(f, v[j].test) = {}
    <2>1. Len(waiters) \in 0..Len(waiters)
      BY LenProperties
    <2> QED BY <2>1, FailingIs
  <1>2. Search(f).waiters = v /\ Search(f).flags \subseteq f
    BY DEF Search
  <1> HIDE DEF v
  <1>3. NoneHolds(f, v)
    <2> SUFFICES ASSUME NEW j \in 1..Len(v) PROVE ~Holds(f, v[j].test)
      BY DEF NoneHolds
    <2>1. v[j] \in EventWaits
      BY <1>1, ElementOfSeq
    <2>2. v[j].test \in Test
      BY <2>1 DEF EventWaits
    <2> QED BY <1>1, <2>2, SelectedHolds
  <1> QED BY <1>1, <1>2, <1>3

\* The flags that a call sets are tested by all waiters, new or not.
LEMMA SetLeaves ==
  ASSUME EventsSound, NEW m \in SUBSET Flags, NEW pre, EventFlagsSet(m, pre)
  PROVE  /\ flags' \subseteq (flags \ pre) \union m
         /\ flags' \in SUBSET Bits /\ waiters' \in Seq(EventWaits)
         /\ NoneHolds((flags \ pre) \union m, waiters')
  <1> DEFINE f   == flags \ pre
             new == m \ f
             r   == IF new = {} THEN [flags |-> f, waiters |-> waiters] ELSE Search(f \union new)
  <1>1. f \union new = f \union m /\ f \union m \in SUBSET Bits /\ f \subseteq flags
    BY EventGroupAssumption DEF EventsSound
  <1>2. flags' = r.flags /\ waiters' = r.waiters
    BY DEF EventFlagsSet
  <1>3. CASE new = {}
    <2>1. flags' = f /\ waiters' = waiters /\ f \union m = f
      BY <1>2, <1>3
    <2>2. NoneHolds(f, waiters)
      BY <1>1, NoneHoldsOfFewer DEF EventsSound
    <2> QED BY <1>1, <2>1, <2>2 DEF EventsSound
  <1>4. CASE new # {}
    <2>1. r = Search(f \union m)
      BY <1>1, <1>4
    <2> HIDE DEF f, r
    <2>2. /\ Search(f \union m).flags \subseteq f \union m
          /\ Search(f \union m).waiters \in Seq(EventWaits)
          /\ NoneHolds(f \union m, Search(f \union m).waiters)
      BY <1>1, SearchIs DEF EventsSound
    <2>3. /\ flags' \subseteq f \union m /\ flags' \in SUBSET Bits
          /\ waiters' \in Seq(EventWaits) /\ NoneHolds(f \union m, waiters')
      BY <1>1, <1>2, <2>1, <2>2
    <2> QED BY <2>3 DEF f
  <1> QED BY <1>3, <1>4

LEMMA PulseLeaves ==
  ASSUME EventsSound, NEW m \in SUBSET Flags, EventFlagsPulse(m)
  PROVE  /\ flags' \subseteq flags \union m
         /\ flags' \in SUBSET Bits /\ waiters' \in Seq(EventWaits)
         /\ NoneHolds(flags \union m, waiters') /\ NoneHolds(flags', waiters')
  <1> DEFINE new == m \ flags
             r   == IF new = {} THEN [flags |-> flags, waiters |-> waiters]
                    ELSE Search(flags \union new)
  <1>1. flags \union new = flags \union m /\ flags \union m \in SUBSET Bits
    BY EventGroupAssumption DEF EventsSound
  <1>2. flags' = r.flags \ new /\ waiters' = r.waiters
    BY DEF EventFlagsPulse
  <1>3. CASE new = {}
    <2>1. flags' = flags /\ waiters' = waiters /\ flags \union m = flags
      BY <1>2, <1>3
    <2> QED BY <1>1, <2>1 DEF EventsSound
  <1>4. CASE new # {}
    <2>1. r = Search(flags \union m)
      BY <1>1, <1>4
    <2> HIDE DEF r
    <2>2. /\ Search(flags \union m).flags \subseteq flags \union m
          /\ Search(flags \union m).waiters \in Seq(EventWaits)
          /\ NoneHolds(flags \union m, Search(flags \union m).waiters)
      BY <1>1, SearchIs DEF EventsSound
    <2>3. /\ flags' \subseteq flags \union m /\ flags' \in SUBSET Bits
          /\ waiters' \in Seq(EventWaits) /\ NoneHolds(flags \union m, waiters')
      BY <1>1, <1>2, <2>1, <2>2
    <2> QED BY <2>3, NoneHoldsOfFewer
  <1> QED BY <1>3, <1>4

LEMMA TestKeeps ==
  ASSUME EventsSound, NEW c \in Tasks \union {Lsr}, NEW w \in Tests, EventFlagsTest(c, w)
  PROVE  /\ flags' \in SUBSET Bits /\ waiters' \in Seq(EventWaits)
         /\ NoneHolds(flags', waiters')
  <1>1. w \in Test
    BY EventGroupAssumption DEF Test
  <1>2. flags \in SUBSET Bits /\ waiters \in Seq(EventWaits) /\ NoneHolds(flags, waiters)
    BY DEF EventsSound
  <1>3. CASE /\ flags' = flags \ (Selected(flags, w) \intersect w.clear)
             /\ UNCHANGED waiters
    BY <1>2, <1>3, NoneHoldsOfFewer
  <1>4. CASE /\ Selected(flags, w) = {} /\ c # Lsr
             /\ waiters' = Append(waiters, [task |-> c, test |-> w])
             /\ UNCHANGED flags
    <2> DEFINE x == [task |-> c, test |-> w]
    <2>1. x \in EventWaits /\ x.test = w
      BY <1>1, <1>4 DEF EventWaits
    <2>2. waiters' = Append(waiters, x) /\ flags' = flags
      BY <1>4
    <2> HIDE DEF x
    <2>3. /\ Append(waiters, x) \in Seq(EventWaits) /\ Len(Append(waiters, x)) = Len(waiters) + 1
          /\ \A j \in 1..Len(waiters) + 1 :
                Append(waiters, x)[j] = IF j <= Len(waiters) THEN waiters[j] ELSE x
      BY <1>2, <2>1, AppendProperties
    <2>4. Len(waiters) \in Nat
      BY <1>2, LenProperties
    <2>5. ASSUME NEW j \in 1..Len(waiters) + 1 PROVE ~Holds(flags, Append(waiters, x)[j].test)
      <3>1. CASE j <= Len(waiters)
        BY <1>2, <2>3, <2>4, <3>1 DEF NoneHolds
      <3>2. CASE ~(j <= Len(waiters))
        <4>1. Append(waiters, x)[j] = x
          BY <2>3, <3>2
        <4>2. ~Holds(flags, w)
          BY <1>1, <1>2, <1>4, SelectedHolds
        <4> QED BY <2>1, <4>1, <4>2
      <3> QED BY <3>1, <3>2
    <2>6. NoneHolds(flags, Append(waiters, x))
      BY <2>3, <2>5 DEF NoneHolds
    <2> QED BY <1>2, <2>2, <2>3, <2>6
  <1> QED BY <1>3, <1>4 DEF EventFlagsTest

LEMMA WaitEndKeeps ==
  ASSUME EventsSound, NEW i \in DOMAIN waiters, EventWaitEnds(i)
  PROVE  /\ flags' \in SUBSET Bits /\ waiters' \in Seq(EventWaits)
         /\ NoneHolds(flags', waiters')
  <1>1. flags \in SUBSET Bits /\ waiters \in Seq(EventWaits) /\ NoneHolds(flags, waiters)
    BY DEF EventsSound
  <1>2. Len(waiters) \in Nat /\ i \in 1..Len(waiters)
    BY <1>1, LenProperties
  <1> DEFINE v == RemoveAt(waiters, i)
  <1>3. /\ v \in Seq(EventWaits) /\ Len(v) = Len(waiters) - 1
        /\ \A j \in 1..Len(waiters) - 1 : v[j] = IF j < i THEN waiters[j] ELSE waiters[j + 1]
    BY <1>1, <1>2, RemoveAtProperties
  <1>4. waiters' = v /\ flags' = flags
    BY DEF EventWaitEnds
  <1> HIDE DEF v
  <1>5. NoneHolds(flags, v)
    <2> SUFFICES ASSUME NEW j \in 1..Len(waiters) - 1 PROVE ~Holds(flags, v[j].test)
      BY <1>3 DEF NoneHolds
    <2>1. j \in 1..Len(waiters) /\ j + 1 \in 1..Len(waiters)
      BY <1>2
    <2>2. v[j] = waiters[j] \/ v[j] = waiters[j + 1]
      BY <1>3
    <2> QED BY <1>1, <2>1, <2>2 DEF NoneHolds
  <1> QED BY <1>1, <1>3, <1>4, <1>5

LEMMA EventsStep ==
  ASSUME EventsSound, [EventGroupNext]_egVars
  PROVE  EventsSound'
  <1>0. Flags \subseteq Bits
    BY EventGroupAssumption
  <1>1. <<>> \in Seq(EventWaits) /\ \A f : NoneHolds(f, <<>>)
    BY DEF NoneHolds
  <1>2. CASE EventGroupCall
    <2>1. made /\ made' = made
      BY <1>2 DEF EventGroupCall
    <2>2. ASSUME NEW m \in SUBSET Flags, EventGroupClear(m) PROVE EventsSound'
      BY <1>0, <1>1, <2>2 DEF EventGroupClear, EventsSound
    <2>3. ASSUME NEW m \in SUBSET Flags, EventFlagsPulse(m) PROVE EventsSound'
      BY <2>1, <2>3, PulseLeaves DEF EventsSound
    <2>4. ASSUME NEW m \in SUBSET Flags, NEW pre \in SUBSET Flags, EventFlagsSet(m, pre)
          PROVE  EventsSound'
      <3>1. /\ flags' \subseteq (flags \ pre) \union m
            /\ flags' \in SUBSET Bits /\ waiters' \in Seq(EventWaits)
            /\ NoneHolds((flags \ pre) \union m, waiters')
        BY <2>4, SetLeaves
      <3>2. NoneHolds(flags', waiters')
        BY <3>1, NoneHoldsOfFewer
      <3> QED BY <2>1, <3>1, <3>2 DEF EventsSound
    <2>5. ASSUME NEW c \in Tasks \union {Lsr}, NEW w \in Tests, EventFlagsTest(c, w)
          PROVE  EventsSound'
      BY <2>1, <2>5, TestKeeps DEF EventsSound
    <2>6. ASSUME NEW i \in DOMAIN waiters, EventWaitEnds(i) PROVE EventsSound'
      BY <2>1, <2>6, WaitEndKeeps DEF EventsSound
    <2> QED BY <1>2, <2>2, <2>3, <2>4, <2>5, <2>6 DEF EventGroupCall
  <1>3. ASSUME NEW m \in SUBSET Flags, EventGroupCreate(m) PROVE EventsSound'
    BY <1>0, <1>1, <1>3 DEF EventGroupCreate, EventsSound
  <1>4. CASE EventGroupDelete
    BY <1>1, <1>4 DEF EventGroupDelete, EventsSound
  <1>5. CASE UNCHANGED egVars
    BY <1>5 DEF egVars, EventsSound
  <1> QED BY <1>2, <1>3, <1>4, <1>5 DEF EventGroupNext

\* No step leaves a waiter behind that the flags it sets would have satisfied.
LEMMA NoStepMisses ==
  ASSUME EventsSound, NEW m \in SUBSET Flags
  PROVE  LET Missed(f) == \E i \in DOMAIN waiters' : Holds(f, waiters'[i].test)
         IN  /\ Missed(flags \union m) => ~EventFlagsPulse(m)
             /\ \A pre \in SUBSET Flags :
                   Missed((flags \ pre) \union m) => ~EventFlagsSet(m, pre)
  <1> DEFINE Missed(f) == \E i \in DOMAIN waiters' : Holds(f, waiters'[i].test)
  <1>1. ASSUME NEW f, waiters' \in Seq(EventWaits), NoneHolds(f, waiters') PROVE ~Missed(f)
    <2>1. DOMAIN waiters' = 1..Len(waiters')
      BY <1>1, LenProperties
    <2> QED BY <1>1, <2>1 DEF NoneHolds
  <1> HIDE DEF Missed
  <1>2. Missed(flags \union m) => ~EventFlagsPulse(m)
    BY <1>1, PulseLeaves
  <1>3. ASSUME NEW pre \in SUBSET Flags PROVE Missed((flags \ pre) \union m) => ~EventFlagsSet(m, pre)
    BY <1>1, SetLeaves
  <1> QED BY <1>2, <1>3 DEF Missed

\* No event is missed (NoMissedEvent): smx_EventFlagsSet() and smx_EventFlagsPulse()
\* leave no task waiting whose test the flags satisfied, for every width of the
\* flags and every set of tests.
THEOREM NoEventMissed == EventGroupSpec => NoMissedEvent
  <1>1. EventGroupInit => EventsSound
    BY DEF EventGroupInit, EventsSound, NoneHolds
  <1>2. EventsSound /\ [EventGroupNext]_egVars => EventsSound'
    BY EventsStep
  <1>3. EventsSound => \A m \in SUBSET Flags :
          LET Missed(f) == \E i \in DOMAIN waiters' : Holds(f, waiters'[i].test)
          IN  /\ Missed(flags \union m) => ~EventFlagsPulse(m)
              /\ \A pre \in SUBSET Flags :
                    Missed((flags \ pre) \union m) => ~EventFlagsSet(m, pre)
    BY NoStepMisses
  <1> QED BY <1>1, <1>2, <1>3, PTL DEF EventGroupSpec, NoMissedEvent

-----------------------------------------------------------------------------
(* Free message portals.                                                   *)
(*                                                                         *)
(* The inductive invariant says where the messages are, that a portal has  *)
(* as many messages of its own as it counts, and that those of a client    *)
(* which closes its portal, with all of them at hand, stay there.          *)

FPcs == {"idle", "wait", "got", "close", "closewait", "closerel"}

Outside == Clients \union {Svr}

FQueues(p) ==
    /\ Injective(p.xfree) /\ Injective(p.sq)
    /\ \A x \in XCBs : Injective(p.rq[x]) /\ (Contains(p.xfree, x) => p.rq[x] = <<>>)
    /\ \A x \in XCBs, m \in FMsgs : Contains(p.rq[x], m) =>
          p.onr[m] = "xchg" /\ p.rpx[m] = x /\ ~Contains(p.sq, m)
    /\ \A m \in FMsgs : Contains(p.sq, m) => p.onr[m] = "xchg"
    /\ \A m \in FMsgs : p.onr[m] # None => p.rpx[m] \in XCBs

FOpens(p) ==
    /\ \A c \in Clients : IF p.open[c] THEN /\ p.rx[c] \in XCBs /\ ~Contains(p.xfree, p.rx[c])
                                            /\ p.pc[c] # "close" => p.num[c] > 0
                                       ELSE p.rx[c] = None /\ p.pc[c] = "idle"
    /\ \A c, d \in Clients : p.open[c] /\ p.open[d] /\ p.rx[c] = p.rx[d] => c = d

\* The messages which will come back to the client's exchange, or are with it.
Own(p, c) == {m \in FMsgs : /\ p.fpcsh[m] = c /\ p.rpx[m] = p.rx[c]
                            /\ p.onr[m] \in {c, Svr, "xchg"}}

FNums(p) == \A c \in Clients : p.open[c] => p.num[c] <= Cardinality(Own(p, c))

FCalm(p, c) ==
    IF p.open[c]
    THEN /\ p.pc[c] \in {"close", "closerel"}
         /\ \A m \in FMsgs : p.fpcsh[m] = c =>
               \/ Contains(p.rq[p.rx[c]], m)
               \/ p.pc[c] = "closerel" /\ p.pmsg[c] = m /\ p.onr[m] = c
    ELSE \A m \in FMsgs : p.fpcsh[m] # c

FCalms(p) == \A c \in Clients : p.calm[c] => FCalm(p, c)

FSound(p) == p \in FPortalType /\ FQueues(p) /\ FOpens(p) /\ FNums(p) /\ FCalms(p)

LEMMA FFields ==
  ASSUME NEW p \in FPortalType
  PROVE  /\ p.pc \in [Clients -> FPcs] /\ p.hand \in [Clients -> FMsgs \union {None}]
         /\ p.open \in [Clients -> BOOLEAN] /\ p.num \in [Clients -> 0..Cardinality(FMsgs)]
         /\ p.pmsg \in [Clients -> FMsgs \union {None}] /\ p.rx \in [Clients -> XCBs \union {None}]
         /\ p.onr \in [FMsgs -> Clients \union {Svr, "xchg", None}]
         /\ p.fpcsh \in [FMsgs -> Clients \union {None}] /\ p.rpx \in [FMsgs -> XCBs \union {None}]
         /\ p.xfree \in Seq(XCBs) /\ p.rq \in [XCBs -> Seq(FMsgs)] /\ p.sq \in Seq(FMsgs)
         /\ p.swait \in BOOLEAN /\ p.calm \in [Clients -> BOOLEAN]
  BY DEF FPortalType, FPcs

\* Different kinds of things.
LEMMA FKinds ==
  /\ None \notin FMsgs /\ None \notin XCBs /\ None \notin Clients /\ Svr \notin Clients /\ Svr # None
  /\ "xchg" \notin Clients /\ "xchg" # Svr /\ "xchg" # None
  /\ IsFiniteSet(FMsgs) /\ Cardinality(FMsgs) \in Nat
  BY FPortalAssumption, PortalAssumption, FS_CardinalityType

LEMMA OwnFinite ==
  ASSUME NEW p, NEW c
  PROVE  /\ Own(p, c) \in SUBSET FMsgs /\ IsFiniteSet(Own(p, c)) /\ Cardinality(Own(p, c)) \in Nat
         /\ Cardinality(Own(p, c)) <= Cardinality(FMsgs)
  <1>1. Own(p, c) \in SUBSET FMsgs
    BY DEF Own
  <1> QED BY <1>1, FKinds, FS_Subset, FS_CardinalityType

\* A portal whose own messages stay its own, but one which it counts no longer.
LEMMA OwnKept ==
  ASSUME NEW p, NEW q, NEW c, NEW d, Own(p, c) \subseteq Own(q, d)
  PROVE  Cardinality(Own(p, c)) <= Cardinality(Own(q, d))
  <1>1. IsFiniteSet(Own(q, d)) /\ Own(p, c) \in SUBSET Own(q, d)
    BY OwnFinite
  <1> QED BY <1>1, FS_Subset

LEMMA OwnLess ==
  ASSUME NEW p, NEW q, NEW c, NEW m, Own(p, c) \ {m} \subseteq Own(q, c)
  PROVE  Cardinality(Own(p, c)) - 1 <= Cardinality(Own(q, c))
  <1> DEFINE S == Own(p, c)
             T == Own(q, c)
  <1>1. IsFiniteSet(S) /\ IsFiniteSet(T) /\ Cardinality(S) \in Nat /\ Cardinality(T) \in Nat
    BY OwnFinite
  <1>2. S \ {m} \in SUBSET T
    OBVIOUS
  <1> HIDE DEF S, T
  <1>3. Cardinality(S \ {m}) <= Cardinality(T)
    BY <1>1, <1>2, FS_Subset
  <1>4. Cardinality(S \ {m}) = IF m \in S THEN Cardinality(S) - 1 ELSE Cardinality(S)
    BY <1>1, FS_RemoveElement
  <1> QED BY <1>1, <1>3, <1>4 DEF S, T


LEMMA FInitSound ==
  ASSUME FPortalInit
  PROVE  FSound(fp)
  <1>1. SetToSeq(XCBs) \in Seq(XCBs) /\ Injective(SetToSeq(XCBs))
    BY FPortalAssumption, SetToSeqProperties
  <1> DEFINE s == SetToSeq(XCBs)
  <1> HIDE DEF s
  <1>2. /\ fp.pc = [c \in Clients |-> "idle"] /\ fp.open = [c \in Clients |-> FALSE]
        /\ fp.rx = [c \in Clients |-> None] /\ fp.onr = [m \in FMsgs |-> None]
        /\ fp.rq = [x \in XCBs |-> <<>>] /\ fp.sq = <<>> /\ fp.xfree = s
        /\ fp.calm = [c \in Clients |-> FALSE]
    BY DEF FPortalInit, s
  <1>3. fp \in FPortalType
    <2>1. <<>> \in Seq(FMsgs) /\ 0 \in 0..Cardinality(FMsgs) /\ s \in Seq(XCBs)
      BY <1>1, FKinds DEF s
    <2> QED BY <2>1 DEF FPortalInit, FPortalType, s
  <1>4. FQueues(fp)
    <2>1. Injective(<<>>) /\ \A m : ~Contains(<<>>, m)
      BY DEF Injective, Contains
    <2> QED BY <1>1, <1>2, <2>1 DEF FQueues, s
  <1>5. FOpens(fp) /\ FNums(fp) /\ FCalms(fp)
    BY <1>2 DEF FOpens, FNums, FCalms
  <1> QED BY <1>3, <1>4, <1>5 DEF FSound

\* A message is taken from the head of a resource exchange, or of sxchg.
LEMMA RqTaken ==
  ASSUME NEW p \in FPortalType, FQueues(p), NEW x \in XCBs, p.rq[x] # <<>>, NEW t \in Outside,
         NEW q, q.xfree = p.xfree, q.sq = p.sq, q.rpx = p.rpx,
         q.onr = [p.onr EXCEPT ![Head(p.rq[x])] = t], q.rq = [p.rq EXCEPT ![x] = Tail(p.rq[x])]
  PROVE  FQueues(q)
  <1> DEFINE m == Head(p.rq[x])
             w == Tail(p.rq[x])
  <1>1. p.rq \in [XCBs -> Seq(FMsgs)] /\ p.onr \in [FMsgs -> Clients \union {Svr, "xchg", None}]
    BY FFields
  <1>2. /\ Injective(p.xfree) /\ Injective(p.sq)
        /\ \A y \in XCBs : Injective(p.rq[y]) /\ (Contains(p.xfree, y) => p.rq[y] = <<>>)
        /\ \A y \in XCBs, n \in FMsgs : Contains(p.rq[y], n) =>
              p.onr[n] = "xchg" /\ p.rpx[n] = y /\ ~Contains(p.sq, n)
        /\ \A n \in FMsgs : Contains(p.sq, n) => p.onr[n] = "xchg"
        /\ \A n \in FMsgs : p.onr[n] # None => p.rpx[n] \in XCBs
    BY DEF FQueues
  <1>3. /\ m \in FMsgs /\ Contains(p.rq[x], m) /\ w \in Seq(FMsgs) /\ Injective(w)
        /\ \A u : Contains(w, u) <=> Contains(p.rq[x], u) /\ u # m
    <2>1. p.rq[x] \in Seq(FMsgs) /\ Injective(p.rq[x])
      BY <1>1, <1>2
    <2> QED BY <2>1, TailContains
  <1> HIDE DEF m, w
  <1>4. /\ \A y \in XCBs : q.rq[y] = IF y = x THEN w ELSE p.rq[y]
        /\ \A n \in FMsgs : q.onr[n] = IF n = m THEN t ELSE p.onr[n]
    BY <1>1 DEF m, w
  <1>5. p.onr[m] = "xchg" /\ p.rpx[m] = x /\ ~Contains(p.sq, m)
    BY <1>2, <1>3
  <1>6. \A y \in XCBs : Injective(q.rq[y]) /\ (Contains(q.xfree, y) => q.rq[y] = <<>>)
    <2>1. ~Contains(p.xfree, x)
      BY <1>2
    <2> QED BY <1>2, <1>3, <1>4, <2>1
  <1>7. \A y \in XCBs, n \in FMsgs : Contains(q.rq[y], n) =>
              Contains(p.rq[y], n) /\ n # m
    BY <1>2, <1>3, <1>4, <1>5
  <1>8. \A y \in XCBs, n \in FMsgs : Contains(q.rq[y], n) =>
              q.onr[n] = "xchg" /\ q.rpx[n] = y /\ ~Contains(q.sq, n)
    BY <1>2, <1>4, <1>7
  <1>9. \A n \in FMsgs : Contains(q.sq, n) => q.onr[n] = "xchg"
    BY <1>2, <1>4, <1>5
  <1>10. \A n \in FMsgs : q.onr[n] # None => q.rpx[n] \in XCBs
    BY <1>2, <1>4, <1>5
  <1> QED BY <1>2, <1>6, <1>8, <1>9, <1>10 DEF FQueues

LEMMA SqTaken ==
  ASSUME NEW p \in FPortalType, FQueues(p), p.sq # <<>>,
         NEW q, q.xfree = p.xfree, q.rq = p.rq, q.rpx = p.rpx,
         q.onr = [p.onr EXCEPT ![Head(p.sq)] = Svr], q.sq = Tail(p.sq)
  PROVE  FQueues(q)
  <1> DEFINE m == Head(p.sq)
             w == Tail(p.sq)
  <1>1. p.sq \in Seq(FMsgs) /\ p.onr \in [FMsgs -> Clients \union {Svr, "xchg", None}]
    BY FFields
  <1>2. /\ Injective(p.xfree) /\ Injective(p.sq)
        /\ \A y \in XCBs : Injective(p.rq[y]) /\ (Contains(p.xfree, y) => p.rq[y] = <<>>)
        /\ \A y \in XCBs, n \in FMsgs : Contains(p.rq[y], n) =>
              p.onr[n] = "xchg" /\ p.rpx[n] = y /\ ~Contains(p.sq, n)
        /\ \A n \in FMsgs : Contains(p.sq, n) => p.onr[n] = "xchg"
        /\ \A n \in FMsgs : p.onr[n] # None => p.rpx[n] \in XCBs
    BY DEF FQueues
  <1>3. /\ m \in FMsgs /\ Contains(p.sq, m) /\ w \in Seq(FMsgs) /\ Injective(w)
        /\ \A u : Contains(w, u) <=> Contains(p.sq, u) /\ u # m
    BY <1>1, <1>2, TailContains
  <1> HIDE DEF m, w
  <1>4. \A n \in FMsgs : q.onr[n] = IF n = m THEN Svr ELSE p.onr[n]
    BY <1>1 DEF m
  <1>5. q.sq = w /\ p.onr[m] = "xchg" /\ "xchg" # None
    BY <1>2, <1>3, FKinds DEF w
  <1>6. \A y \in XCBs, n \in FMsgs : Contains(q.rq[y], n) =>
              q.onr[n] = "xchg" /\ q.rpx[n] = y /\ ~Contains(q.sq, n)
    BY <1>2, <1>3, <1>4, <1>5
  <1>7. \A n \in FMsgs : Contains(q.sq, n) => q.onr[n] = "xchg"
    BY <1>2, <1>3, <1>4, <1>5
  <1>8. \A n \in FMsgs : q.onr[n] # None => q.rpx[n] \in XCBs
    BY <1>2, <1>4, <1>5
  <1> QED BY <1>2, <1>3, <1>5, <1>6, <1>7, <1>8 DEF FQueues

\* What is not in a queue.
LEMMA FOutside ==
  ASSUME NEW p \in FPortalType, FQueues(p), NEW m \in FMsgs, p.onr[m] # "xchg"
  PROVE  ~Contains(p.sq, m) /\ \A x \in XCBs : ~Contains(p.rq[x], m)
  BY DEF FQueues

\* A message is put into a resource exchange, or into sxchg, or given to a task.
LEMMA RqPut ==
  ASSUME NEW p \in FPortalType, FQueues(p), NEW m \in FMsgs, p.onr[m] \in Outside,
         ~Contains(p.xfree, p.rpx[m]),
         NEW q, q.xfree = p.xfree, q.sq = p.sq, q.rpx = p.rpx,
         q.onr = [p.onr EXCEPT ![m] = "xchg"],
         q.rq = [p.rq EXCEPT ![p.rpx[m]] = Append(p.rq[p.rpx[m]], m)]
  PROVE  FQueues(q)
  <1> DEFINE x == p.rpx[m]
             w == Append(p.rq[x], m)
  <1>1. p.rq \in [XCBs -> Seq(FMsgs)] /\ p.onr \in [FMsgs -> Clients \union {Svr, "xchg", None}]
    BY FFields
  <1>2. /\ Injective(p.xfree) /\ Injective(p.sq)
        /\ \A y \in XCBs : Injective(p.rq[y]) /\ (Contains(p.xfree, y) => p.rq[y] = <<>>)
        /\ \A y \in XCBs, n \in FMsgs : Contains(p.rq[y], n) =>
              p.onr[n] = "xchg" /\ p.rpx[n] = y /\ ~Contains(p.sq, n)
        /\ \A n \in FMsgs : Contains(p.sq, n) => p.onr[n] = "xchg"
        /\ \A n \in FMsgs : p.onr[n] # None => p.rpx[n] \in XCBs
    BY DEF FQueues
  <1>3. p.onr[m] # "xchg" /\ p.onr[m] # None
    BY FKinds DEF Outside
  <1>4. ~Contains(p.sq, m) /\ x \in XCBs /\ ~Contains(p.rq[x], m)
    BY <1>2, <1>3
  <1>5. /\ w \in Seq(FMsgs) /\ Injective(w)
        /\ \A u : Contains(w, u) <=> Contains(p.rq[x], u) \/ u = m
    <2>1. p.rq[x] \in Seq(FMsgs) /\ Injective(p.rq[x])
      BY <1>1, <1>2, <1>4
    <2> QED BY <1>4, <2>1, AppendContains
  <1> HIDE DEF w
  <1>6. /\ \A y \in XCBs : q.rq[y] = IF y = x THEN w ELSE p.rq[y]
        /\ \A n \in FMsgs : q.onr[n] = IF n = m THEN "xchg" ELSE p.onr[n]
    BY <1>1, <1>4 DEF w
  <1>7. ~Contains(q.xfree, x) /\ q.rpx[m] = x
    OBVIOUS
  <1> HIDE DEF x
  <1>8. \A y \in XCBs : Injective(q.rq[y]) /\ (Contains(q.xfree, y) => q.rq[y] = <<>>)
    BY <1>2, <1>5, <1>6, <1>7
  <1>9. \A y \in XCBs, n \in FMsgs : Contains(q.rq[y], n) => Contains(p.rq[y], n) \/ (n = m /\ y = x)
    BY <1>5, <1>6
  <1>10. \A y \in XCBs, n \in FMsgs : Contains(q.rq[y], n) =>
              q.onr[n] = "xchg" /\ q.rpx[n] = y /\ ~Contains(q.sq, n)
    BY <1>2, <1>4, <1>6, <1>7, <1>9
  <1>11. \A n \in FMsgs : Contains(q.sq, n) => q.onr[n] = "xchg"
    BY <1>2, <1>6
  <1>12. \A n \in FMsgs : q.onr[n] # None => q.rpx[n] \in XCBs
    BY <1>2, <1>4, <1>6, <1>7
  <1> QED BY <1>2, <1>8, <1>10, <1>11, <1>12 DEF FQueues

LEMMA SqPut ==
  ASSUME NEW p \in FPortalType, FQueues(p), NEW m \in FMsgs, p.onr[m] \in Outside, NEW x \in XCBs,
         NEW q, q.xfree = p.xfree, q.rq = p.rq, q.rpx = [p.rpx EXCEPT ![m] = x],
         q.onr = [p.onr EXCEPT ![m] = "xchg"], q.sq = Append(p.sq, m)
  PROVE  FQueues(q)
  <1> DEFINE w == Append(p.sq, m)
  <1>1. /\ p.sq \in Seq(FMsgs) /\ p.onr \in [FMsgs -> Clients \union {Svr, "xchg", None}]
        /\ p.rpx \in [FMsgs -> XCBs \union {None}]
    BY FFields
  <1>2. /\ Injective(p.xfree) /\ Injective(p.sq)
        /\ \A y \in XCBs : Injective(p.rq[y]) /\ (Contains(p.xfree, y) => p.rq[y] = <<>>)
        /\ \A y \in XCBs, n \in FMsgs : Contains(p.rq[y], n) =>
              p.onr[n] = "xchg" /\ p.rpx[n] = y /\ ~Contains(p.sq, n)
        /\ \A n \in FMsgs : Contains(p.sq, n) => p.onr[n] = "xchg"
        /\ \A n \in FMsgs : p.onr[n] # None => p.rpx[n] \in XCBs
    BY DEF FQueues
  <1>3. p.onr[m] # "xchg" /\ p.onr[m] # None
    BY FKinds DEF Outside
  <1>4. ~Contains(p.sq, m) /\ \A y \in XCBs : ~Contains(p.rq[y], m)
    BY <1>2, <1>3
  <1>5. w \in Seq(FMsgs) /\ Injective(w) /\ \A u : Contains(w, u) <=> Contains(p.sq, u) \/ u = m
    BY <1>1, <1>2, <1>4, AppendContains
  <1> HIDE DEF w
  <1>6. /\ \A n \in FMsgs : q.onr[n] = IF n = m THEN "xchg" ELSE p.onr[n]
        /\ \A n \in FMsgs : q.rpx[n] = IF n = m THEN x ELSE p.rpx[n]
        /\ q.sq = w
    BY <1>1 DEF w
  <1>7. \A y \in XCBs, n \in FMsgs : Contains(q.rq[y], n) =>
              q.onr[n] = "xchg" /\ q.rpx[n] = y /\ ~Contains(q.sq, n)
    BY <1>2, <1>4, <1>5, <1>6
  <1>8. \A n \in FMsgs : Contains(q.sq, n) => q.onr[n] = "xchg"
    BY <1>2, <1>5, <1>6
  <1>9. \A n \in FMsgs : q.onr[n] # None => q.rpx[n] \in XCBs
    BY <1>2, <1>6
  <1> QED BY <1>2, <1>5, <1>6, <1>7, <1>8, <1>9 DEF FQueues

LEMMA Given ==
  ASSUME NEW p \in FPortalType, FQueues(p), NEW m \in FMsgs, p.onr[m] \in Outside, NEW x \in XCBs,
         NEW t \in Outside,
         NEW q, q.xfree = p.xfree, q.rq = p.rq, q.sq = p.sq, q.rpx = [p.rpx EXCEPT ![m] = x],
         q.onr = [p.onr EXCEPT ![m] = t]
  PROVE  FQueues(q)
  <1>1. /\ p.onr \in [FMsgs -> Clients \union {Svr, "xchg", None}]
        /\ p.rpx \in [FMsgs -> XCBs \union {None}]
    BY FFields
  <1>2. /\ Injective(p.xfree) /\ Injective(p.sq)
        /\ \A y \in XCBs : Injective(p.rq[y]) /\ (Contains(p.xfree, y) => p.rq[y] = <<>>)
        /\ \A y \in XCBs, n \in FMsgs : Contains(p.rq[y], n) =>
              p.onr[n] = "xchg" /\ p.rpx[n] = y /\ ~Contains(p.sq, n)
        /\ \A n \in FMsgs : Contains(p.sq, n) => p.onr[n] = "xchg"
        /\ \A n \in FMsgs : p.onr[n] # None => p.rpx[n] \in XCBs
    BY DEF FQueues
  <1>3. p.onr[m] # "xchg" /\ p.onr[m] # None
    BY FKinds DEF Outside
  <1>4. ~Contains(p.sq, m) /\ \A y \in XCBs : ~Contains(p.rq[y], m)
    BY <1>2, <1>3
  <1>5. /\ \A n \in FMsgs : q.onr[n] = IF n = m THEN t ELSE p.onr[n]
        /\ \A n \in FMsgs : q.rpx[n] = IF n = m THEN x ELSE p.rpx[n]
    BY <1>1
  <1>6. \A y \in XCBs, n \in FMsgs : Contains(q.rq[y], n) =>
              q.onr[n] = "xchg" /\ q.rpx[n] = y /\ ~Contains(q.sq, n)
    BY <1>2, <1>4, <1>5
  <1>7. \A n \in FMsgs : Contains(q.sq, n) => q.onr[n] = "xchg"
    BY <1>2, <1>4, <1>5
  <1>8. \A n \in FMsgs : q.onr[n] # None => q.rpx[n] \in XCBs
    BY <1>2, <1>5
  <1> QED BY <1>2, <1>6, <1>7, <1>8 DEF FQueues

\* A message which a task has is released.
LEMMA Freed ==
  ASSUME NEW p \in FPortalType, FQueues(p), NEW m \in FMsgs, p.onr[m] \in Outside,
         NEW q, q.xfree = p.xfree, q.rq = p.rq, q.sq = p.sq,
         \A n \in FMsgs : n # m => q.onr[n] = p.onr[n] /\ q.rpx[n] = p.rpx[n],
         q.onr[m] = None
  PROVE  FQueues(q)
  <1>1. /\ Injective(p.xfree) /\ Injective(p.sq)
        /\ \A y \in XCBs : Injective(p.rq[y]) /\ (Contains(p.xfree, y) => p.rq[y] = <<>>)
        /\ \A y \in XCBs, n \in FMsgs : Contains(p.rq[y], n) =>
              p.onr[n] = "xchg" /\ p.rpx[n] = y /\ ~Contains(p.sq, n)
        /\ \A n \in FMsgs : Contains(p.sq, n) => p.onr[n] = "xchg"
        /\ \A n \in FMsgs : p.onr[n] # None => p.rpx[n] \in XCBs
    BY DEF FQueues
  <1>2. p.onr[m] # "xchg"
    BY FKinds DEF Outside
  <1>3. ~Contains(p.sq, m) /\ \A y \in XCBs : ~Contains(p.rq[y], m)
    BY <1>1, <1>2
  <1>4. \A y \in XCBs, n \in FMsgs : Contains(q.rq[y], n) =>
              q.onr[n] = "xchg" /\ q.rpx[n] = y /\ ~Contains(q.sq, n)
    BY <1>1, <1>3
  <1>5. \A n \in FMsgs : Contains(q.sq, n) => q.onr[n] = "xchg"
    BY <1>1, <1>3
  <1>6. \A n \in FMsgs : q.onr[n] # None => q.rpx[n] \in XCBs
    BY <1>1
  <1> QED BY <1>1, <1>4, <1>5, <1>6 DEF FQueues


\* An exchange is deleted, and with it what waits there.
LEMMA ExchangeFreed ==
  ASSUME NEW p \in FPortalType, FQueues(p), NEW x \in XCBs, ~Contains(p.xfree, x),
         NEW q, q.xfree = <<x>> \o p.xfree, q.rq = [p.rq EXCEPT ![x] = <<>>], q.sq = p.sq,
         \A n \in FMsgs : IF Contains(p.rq[x], n) THEN q.onr[n] = None
                          ELSE q.onr[n] = p.onr[n] /\ q.rpx[n] = p.rpx[n]
  PROVE  FQueues(q) /\ q.xfree \in Seq(XCBs)
  <1>1. p.rq \in [XCBs -> Seq(FMsgs)] /\ p.xfree \in Seq(XCBs)
    BY FFields
  <1>2. /\ Injective(p.xfree) /\ Injective(p.sq)
        /\ \A y \in XCBs : Injective(p.rq[y]) /\ (Contains(p.xfree, y) => p.rq[y] = <<>>)
        /\ \A y \in XCBs, n \in FMsgs : Contains(p.rq[y], n) =>
              p.onr[n] = "xchg" /\ p.rpx[n] = y /\ ~Contains(p.sq, n)
        /\ \A n \in FMsgs : Contains(p.sq, n) => p.onr[n] = "xchg"
        /\ \A n \in FMsgs : p.onr[n] # None => p.rpx[n] \in XCBs
    BY DEF FQueues
  <1>3. /\ q.xfree \in Seq(XCBs) /\ Injective(q.xfree)
        /\ \A u : Contains(q.xfree, u) <=> Contains(p.xfree, u) \/ u = x
    BY <1>1, <1>2, PrependContains
  <1>4. \A y \in XCBs : q.rq[y] = IF y = x THEN <<>> ELSE p.rq[y]
    BY <1>1
  <1>5. Injective(<<>>) /\ \A n : ~Contains(<<>>, n)
    BY DEF Injective, Contains
  <1>6. \A y \in XCBs : Injective(q.rq[y]) /\ (Contains(q.xfree, y) => q.rq[y] = <<>>)
    BY <1>2, <1>3, <1>4, <1>5
  <1>7. \A y \in XCBs, n \in FMsgs : Contains(q.rq[y], n) => y # x /\ Contains(p.rq[y], n)
    BY <1>4, <1>5
  <1>8. \A y \in XCBs, n \in FMsgs : Contains(q.rq[y], n) => ~Contains(p.rq[x], n)
    BY <1>2, <1>7
  <1>9. \A y \in XCBs, n \in FMsgs : Contains(q.rq[y], n) =>
              q.onr[n] = "xchg" /\ q.rpx[n] = y /\ ~Contains(q.sq, n)
    BY <1>2, <1>7, <1>8
  <1>10. \A n \in FMsgs : Contains(q.sq, n) => q.onr[n] = "xchg"
    BY <1>2
  <1>11. \A n \in FMsgs : q.onr[n] # None => q.rpx[n] \in XCBs
    BY <1>2
  <1> QED BY <1>2, <1>3, <1>6, <1>9, <1>10, <1>11 DEF FQueues

\* An exchange is created, with messages that were not in use.
LEMMA ExchangeMade ==
  ASSUME NEW p \in FPortalType, FQueues(p), p.xfree # <<>>, NEW s \in Seq(FMsgs), Injective(s),
         \A n \in FMsgs : Contains(s, n) => p.onr[n] = None,
         NEW q, q.xfree = Tail(p.xfree), q.rq = [p.rq EXCEPT ![Head(p.xfree)] = s], q.sq = p.sq,
         \A n \in FMsgs : IF Contains(s, n) THEN q.onr[n] = "xchg" /\ q.rpx[n] = Head(p.xfree)
                          ELSE q.onr[n] = p.onr[n] /\ q.rpx[n] = p.rpx[n]
  PROVE  FQueues(q) /\ Head(p.xfree) \in XCBs /\ q.xfree \in Seq(XCBs)
         /\ \A u : Contains(q.xfree, u) <=> Contains(p.xfree, u) /\ u # Head(p.xfree)
         /\ Contains(p.xfree, Head(p.xfree))
  <1> DEFINE x == Head(p.xfree)
  <1>1. p.rq \in [XCBs -> Seq(FMsgs)] /\ p.xfree \in Seq(XCBs)
    BY FFields
  <1>2. /\ Injective(p.xfree) /\ Injective(p.sq)
        /\ \A y \in XCBs : Injective(p.rq[y]) /\ (Contains(p.xfree, y) => p.rq[y] = <<>>)
        /\ \A y \in XCBs, n \in FMsgs : Contains(p.rq[y], n) =>
              p.onr[n] = "xchg" /\ p.rpx[n] = y /\ ~Contains(p.sq, n)
        /\ \A n \in FMsgs : Contains(p.sq, n) => p.onr[n] = "xchg"
        /\ \A n \in FMsgs : p.onr[n] # None => p.rpx[n] \in XCBs
    BY DEF FQueues
  <1>3. /\ x \in XCBs /\ Contains(p.xfree, x) /\ q.xfree \in Seq(XCBs) /\ Injective(q.xfree)
        /\ \A u : Contains(q.xfree, u) <=> Contains(p.xfree, u) /\ u # x
    BY <1>1, <1>2, TailContains
  <1> HIDE DEF x
  <1>4. /\ \A y \in XCBs : q.rq[y] = IF y = x THEN s ELSE p.rq[y]
        /\ \A n \in FMsgs : IF Contains(s, n) THEN q.onr[n] = "xchg" /\ q.rpx[n] = x
                            ELSE q.onr[n] = p.onr[n] /\ q.rpx[n] = p.rpx[n]
    BY <1>1 DEF x
  <1>5. "xchg" # None
    BY FKinds
  <1>6. \A n \in FMsgs : Contains(s, n) => ~Contains(p.sq, n) /\ \A y \in XCBs : ~Contains(p.rq[y], n)
    BY <1>2, <1>5
  <1>7. \A y \in XCBs : Injective(q.rq[y]) /\ (Contains(q.xfree, y) => q.rq[y] = <<>>)
    BY <1>2, <1>3, <1>4
  <1>8. \A y \in XCBs, n \in FMsgs : Contains(q.rq[y], n) =>
              (y = x /\ Contains(s, n)) \/ (Contains(p.rq[y], n) /\ ~Contains(s, n))
    BY <1>4, <1>6
  <1>9. \A y \in XCBs, n \in FMsgs : Contains(q.rq[y], n) =>
              q.onr[n] = "xchg" /\ q.rpx[n] = y /\ ~Contains(q.sq, n)
    BY <1>2, <1>4, <1>6, <1>8
  <1>10. \A n \in FMsgs : Contains(q.sq, n) => q.onr[n] = "xchg"
    BY <1>2, <1>4
  <1>11. \A n \in FMsgs : q.onr[n] # None => q.rpx[n] \in XCBs
    BY <1>2, <1>3, <1>4
  <1> QED BY <1>2, <1>3, <1>7, <1>9, <1>10, <1>11 DEF FQueues, x

\* Where the messages of a client are that closes its portal.
LEMMA CalmHas ==
  ASSUME NEW p, FSound(p), NEW c \in Clients, p.calm[c], p.open[c], NEW m \in FMsgs, p.fpcsh[m] = c
  PROVE  \/ Contains(p.rq[p.rx[c]], m) /\ p.onr[m] = "xchg" /\ p.rpx[m] = p.rx[c] /\ ~Contains(p.sq, m)
         \/ p.pc[c] = "closerel" /\ p.pmsg[c] = m /\ p.onr[m] = c
  <1>1. p.rx[c] \in XCBs
    BY DEF FSound, FOpens
  <1>2. Contains(p.rq[p.rx[c]], m) \/ (p.pc[c] = "closerel" /\ p.pmsg[c] = m /\ p.onr[m] = c)
    BY DEF FSound, FCalms, FCalm
  <1> QED BY <1>1, <1>2 DEF FSound, FQueues

\* A client waits only at an exchange of its own.
LEMMA WaiterOpen ==
  ASSUME NEW p, FSound(p), NEW x \in XCBs, NEW c \in WaitsAt(p, x)
  PROVE  c \in Clients /\ p.rx[c] = x /\ p.open[c] /\ p.pc[c] \in {"wait", "closewait"}
         /\ p.num[c] > 0 /\ ~p.calm[c]
  <1>1. c \in Clients /\ p.rx[c] = x /\ p.pc[c] \in {"wait", "closewait"}
    BY DEF WaitsAt
  <1>2. p.open[c] /\ p.num[c] > 0
    BY <1>1 DEF FSound, FOpens
  <1>3. p.calm[c] = FALSE \/ p.calm[c] = TRUE
    BY <1>1, FFields DEF FSound
  <1> QED BY <1>1, <1>2, <1>3 DEF FSound, FCalms, FCalm

LEMMA FReplyKeeps ==
  ASSUME NEW p, FSound(p), NEW m \in FMsgs, p.onr[m] \in Outside,
         \A c \in Clients : p.onr[m] = c => p.pc[c] = "idle"
  PROVE  FSound(FReply(p, m))
  <1> DEFINE x == p.rpx[m]
             q == FReply(p, m)
  <1>1. /\ p \in FPortalType /\ FQueues(p) /\ FOpens(p) /\ FNums(p) /\ FCalms(p)
        /\ p.onr[m] # None /\ p.onr[m] # "xchg" /\ x \in XCBs
    BY FKinds DEF FSound, FQueues, Outside
  <1>2. /\ p.pc \in [Clients -> FPcs] /\ p.rq \in [XCBs -> Seq(FMsgs)]
        /\ p.onr \in [FMsgs -> Clients \union {Svr, "xchg", None}]
        /\ p.hand \in [Clients -> FMsgs \union {None}]
        /\ p.xfree \in Seq(XCBs) /\ p.rpx \in [FMsgs -> XCBs \union {None}]
    BY <1>1, FFields
  <1>3. \A y : y \in Range(p.xfree) <=> Contains(p.xfree, y)
    BY <1>2, RangeContains
  <1>4. \A c \in Clients : p.calm[c] /\ p.open[c] => p.fpcsh[m] # c
    <2> SUFFICES ASSUME NEW c \in Clients, p.calm[c], p.open[c], p.fpcsh[m] = c PROVE FALSE
      OBVIOUS
    <2>1. p.pc[c] = "closerel" /\ p.onr[m] = c
      BY <1>1, CalmHas
    <2> QED BY <2>1
  <1>5. CASE Contains(p.xfree, x)
    BY <1>3, <1>5 DEF FReply
  <1>6. CASE ~Contains(p.xfree, x) /\ WaitsAt(p, x) = {}
    <2>1. q = [p EXCEPT !.onr[m] = "xchg", !.rq[x] = Append(@, m)]
      BY <1>3, <1>6 DEF FReply
    <2>2. q \in FPortalType
      <3>1. Append(p.rq[x], m) \in Seq(FMsgs)
        BY <1>1, <1>2
      <3>2. [p.rq EXCEPT ![x] = Append(p.rq[x], m)] \in [XCBs -> Seq(FMsgs)]
        BY <1>2, <3>1
      <3>3. [p.onr EXCEPT ![m] = "xchg"] \in [FMsgs -> Clients \union {Svr, "xchg", None}]
        BY <1>2
      <3> HIDE DEF x
      <3> QED BY <1>1, <2>1, <3>2, <3>3 DEF FPortalType
    <2>3. /\ q.onr = [p.onr EXCEPT ![m] = "xchg"] /\ q.rq = [p.rq EXCEPT ![x] = Append(p.rq[x], m)]
          /\ q.pc = p.pc /\ q.open = p.open /\ q.num = p.num /\ q.pmsg = p.pmsg /\ q.rx = p.rx
          /\ q.fpcsh = p.fpcsh /\ q.rpx = p.rpx /\ q.xfree = p.xfree /\ q.sq = p.sq /\ q.calm = p.calm
      BY <1>1, <2>1 DEF FPortalType
    <2> HIDE DEF q
    <2>4. FQueues(q)
      BY <1>1, <1>6, <2>3, RqPut
    <2>5. FOpens(q)
      BY <1>1, <2>3 DEF FOpens
    <2>6. /\ \A n \in FMsgs : q.onr[n] = IF n = m THEN "xchg" ELSE p.onr[n]
          /\ \A y \in XCBs : q.rq[y] = IF y = x THEN Append(p.rq[x], m) ELSE p.rq[y]
      BY <1>1, <1>2, <2>3
    <2>7. FNums(q)
      <3>1. \A c \in Clients : Own(p, c) \subseteq Own(q, c)
        BY <2>3, <2>6 DEF Own
      <3>2. \A c \in Clients : Cardinality(Own(p, c)) <= Cardinality(Own(q, c))
        BY <3>1, OwnKept
      <3>3. \A c \in Clients : Cardinality(Own(p, c)) \in Nat /\ Cardinality(Own(q, c)) \in Nat /\ p.num[c] \in Nat
        BY <1>1, OwnFinite, FFields, FKinds
      <3> QED BY <1>1, <2>3, <3>2, <3>3 DEF FNums
    <2>8. FCalms(q)
      <3> SUFFICES ASSUME NEW c \in Clients, p.calm[c] PROVE FCalm(q, c)
        BY <2>3 DEF FCalms
      <3>1. FCalm(p, c)
        BY <1>1 DEF FCalms
      <3>2. CASE ~p.open[c]
        BY <2>3, <3>1, <3>2 DEF FCalm
      <3>3. CASE p.open[c]
        <4>1. p.rx[c] \in XCBs /\ p.fpcsh[m] # c
          BY <1>1, <1>4, <3>3 DEF FOpens
        <4>2. \A n \in FMsgs : Contains(p.rq[p.rx[c]], n) => Contains(q.rq[q.rx[c]], n)
          <5> SUFFICES ASSUME NEW n \in FMsgs, Contains(p.rq[p.rx[c]], n), p.rx[c] = x
                       PROVE  Contains(Append(p.rq[x], m), n)
            BY <2>3, <2>6, <4>1
          <5>1. p.rq[x] \in Seq(FMsgs) /\ Injective(p.rq[x]) /\ ~Contains(p.rq[x], m)
            BY <1>1, <1>2 DEF FQueues
          <5> QED BY <5>1, AppendContains
        <4> QED BY <2>3, <2>6, <3>1, <3>3, <4>1, <4>2 DEF FCalm
      <3> QED BY <3>2, <3>3
    <2> QED BY <2>2, <2>4, <2>5, <2>7, <2>8 DEF FSound, q
  <1>7. CASE ~Contains(p.xfree, x) /\ WaitsAt(p, x) # {}
    <2> DEFINE d == CHOOSE d \in WaitsAt(p, x) : TRUE
    <2>1. d \in WaitsAt(p, x)
      BY <1>7
    <2>2. /\ d \in Clients /\ p.rx[d] = x /\ p.open[d] /\ p.pc[d] \in {"wait", "closewait"}
          /\ p.num[d] > 0 /\ ~p.calm[d]
      <3> HIDE DEF d
      <3> QED BY <1>1, <2>1, WaiterOpen
    <2>3. q = [p EXCEPT !.onr[m] = d, !.hand[d] = m,
                        !.pc[d] = IF @ = "wait" THEN "got" ELSE "closerel"]
      BY <1>3, <1>7 DEF FReply
    <2> HIDE DEF d
    <2>4. q \in FPortalType
      <3>1. [p.onr EXCEPT ![m] = d] \in [FMsgs -> Clients \union {Svr, "xchg", None}]
        BY <1>2, <2>2
      <3>2. [p.hand EXCEPT ![d] = m] \in [Clients -> FMsgs \union {None}]
        BY <1>2, <2>2
      <3>3. [p.pc EXCEPT ![d] = IF p.pc[d] = "wait" THEN "got" ELSE "closerel"] \in [Clients -> FPcs]
        BY <1>2 DEF FPcs
      <3> QED BY <1>1, <2>3, <3>1, <3>2, <3>3 DEF FPortalType, FPcs
    <2>5. /\ q.onr = [p.onr EXCEPT ![m] = d] /\ q.rq = p.rq
          /\ q.pc = [p.pc EXCEPT ![d] = IF p.pc[d] = "wait" THEN "got" ELSE "closerel"]
          /\ q.open = p.open /\ q.num = p.num /\ q.pmsg = p.pmsg /\ q.rx = p.rx
          /\ q.fpcsh = p.fpcsh /\ q.rpx = p.rpx /\ q.xfree = p.xfree /\ q.sq = p.sq /\ q.calm = p.calm
      BY <1>1, <2>3 DEF FPortalType
    <2> HIDE DEF q
    <2>6. FQueues(q)
      <3>1. d \in Outside /\ q.rpx = [p.rpx EXCEPT ![m] = x]
        BY <1>2, <2>2, <2>5 DEF Outside
      <3> QED BY <1>1, <2>5, <3>1, Given
    <2>7. /\ \A n \in FMsgs : q.onr[n] = IF n = m THEN d ELSE p.onr[n]
          /\ \A c \in Clients : c # d => q.pc[c] = p.pc[c]
          /\ q.pc[d] \in {"got", "closerel"}
      BY <1>2, <2>2, <2>5
    <2>8. FOpens(q)
      BY <1>1, <2>2, <2>5, <2>7 DEF FOpens
    <2>9. FNums(q)
      <3>1. ASSUME NEW c \in Clients, p.open[c] PROVE Own(p, c) \subseteq Own(q, c)
        <4> SUFFICES ASSUME NEW n \in Own(p, c) PROVE n \in Own(q, c)
          OBVIOUS
        <4>1. n \in FMsgs /\ p.fpcsh[n] = c /\ p.rpx[n] = p.rx[c] /\ p.onr[n] \in {c, Svr, "xchg"}
          BY DEF Own
        <4>2. n = m => c = d
          BY <1>1, <2>2, <3>1, <4>1 DEF FOpens
        <4> QED BY <2>5, <2>7, <4>1, <4>2 DEF Own
      <3>2. \A c \in Clients : p.open[c] => Cardinality(Own(p, c)) <= Cardinality(Own(q, c))
        BY <3>1, OwnKept
      <3>3. \A c \in Clients : Cardinality(Own(p, c)) \in Nat /\ Cardinality(Own(q, c)) \in Nat /\ p.num[c] \in Nat
        BY <1>1, OwnFinite, FFields, FKinds
      <3> QED BY <1>1, <2>5, <3>2, <3>3 DEF FNums
    <2>10. FCalms(q)
      <3> SUFFICES ASSUME NEW c \in Clients, p.calm[c] PROVE FCalm(q, c)
        BY <2>5 DEF FCalms
      <3>1. FCalm(p, c) /\ c # d /\ q.pc[c] = p.pc[c] /\ (p.open[c] => p.fpcsh[m] # c)
        BY <1>1, <1>4, <2>2, <2>7 DEF FCalms
      <3> QED BY <2>5, <2>7, <3>1 DEF FCalm
    <2> QED BY <2>4, <2>6, <2>8, <2>9, <2>10 DEF FSound, q
  <1> QED BY <1>5, <1>6, <1>7

\* Calls which leave the places of the messages and what the portals count alone.
LEMMA FStill ==
  ASSUME NEW p, FSound(p), NEW q \in FPortalType,
         q.onr = p.onr, q.rq = p.rq, q.open = p.open, q.num = p.num, q.rx = p.rx, q.fpcsh = p.fpcsh,
         q.rpx = p.rpx, q.xfree = p.xfree, q.sq = p.sq, q.calm = p.calm,
         NEW c \in Clients, p.open[c], q.pc[c] # "close", ~p.calm[c],
         \A d \in Clients : d # c => q.pc[d] = p.pc[d] /\ q.pmsg[d] = p.pmsg[d],
         p.num[c] > 0
  PROVE  FSound(q)
  <1>1. p \in FPortalType /\ FQueues(p) /\ FOpens(p) /\ FNums(p) /\ FCalms(p)
    BY DEF FSound
  <1>2. FQueues(q)
    BY <1>1 DEF FQueues
  <1>3. FOpens(q)
    BY <1>1 DEF FOpens
  <1>4. FNums(q)
    BY <1>1 DEF FNums, Own
  <1>5. FCalms(q)
    <2> SUFFICES ASSUME NEW d \in Clients, p.calm[d] PROVE FCalm(q, d)
      BY DEF FCalms
    <2>1. FCalm(p, d) /\ d # c
      BY <1>1 DEF FCalms
    <2> QED BY <2>1 DEF FCalm
  <1> QED BY <1>2, <1>3, <1>4, <1>5 DEF FSound

\* A client between calls, with an open portal.
LEMMA Caller ==
  ASSUME NEW p, FSound(p), NEW c \in Clients, p.open[c], p.pc[c] \notin {"close", "closerel"}
  PROVE  p.num[c] > 0 /\ ~p.calm[c] /\ p.rx[c] \in XCBs /\ ~Contains(p.xfree, p.rx[c])
         /\ p.num[c] \in 0..Cardinality(FMsgs) /\ p \in FPortalType
  <1>1. p \in FPortalType
    BY DEF FSound
  <1>2. p.num[c] \in 0..Cardinality(FMsgs)
    BY <1>1, FFields
  <1>3. p.num[c] > 0 /\ p.rx[c] \in XCBs /\ ~Contains(p.xfree, p.rx[c])
    BY DEF FSound, FOpens
  <1>4. ~p.calm[c]
    BY DEF FSound, FCalms, FCalm
  <1> QED BY <1>1, <1>2, <1>3, <1>4

LEMMA ReceiveEndsStep ==
  ASSUME FSound(fp), NEW c \in Clients, ReceiveEnds(c)
  PROVE  FSound(fp')
  <1>1. fp.open[c] /\ fp.pc[c] \notin {"close", "closerel"}
    BY DEF ReceiveEnds, FAt, FSound, FOpens
  <1>2. fp.num[c] > 0 /\ ~fp.calm[c] /\ fp \in FPortalType
    BY <1>1, Caller
  <1>3. fp' = [fp EXCEPT !.pc[c] = "idle", !.pmsg[c] = fp.hand[c], !.hand[c] = None]
    BY DEF ReceiveEnds
  <1>4. fp' \in FPortalType
    <2>1. /\ [fp.pc EXCEPT ![c] = "idle"] \in [Clients -> FPcs]
          /\ [fp.pmsg EXCEPT ![c] = fp.hand[c]] \in [Clients -> FMsgs \union {None}]
          /\ [fp.hand EXCEPT ![c] = None] \in [Clients -> FMsgs \union {None}]
      BY <1>2, FFields DEF FPcs
    <2> QED BY <1>2, <1>3, <2>1 DEF FPortalType, FPcs
  <1>5. /\ fp'.onr = fp.onr /\ fp'.rq = fp.rq /\ fp'.open = fp.open /\ fp'.num = fp.num
        /\ fp'.rx = fp.rx /\ fp'.fpcsh = fp.fpcsh /\ fp'.rpx = fp.rpx /\ fp'.xfree = fp.xfree
        /\ fp'.sq = fp.sq /\ fp'.calm = fp.calm
        /\ fp'.pc = [fp.pc EXCEPT ![c] = "idle"] /\ fp'.pmsg = [fp.pmsg EXCEPT ![c] = fp.hand[c]]
    BY <1>2, <1>3 DEF FPortalType
  <1>6. /\ fp'.pc[c] = "idle"
        /\ \A d \in Clients : d # c => fp'.pc[d] = fp.pc[d] /\ fp'.pmsg[d] = fp.pmsg[d]
    BY <1>2, <1>5, FFields
  <1>7. fp'.pc[c] # "close" /\ fp.open[c] /\ ~fp.calm[c] /\ fp.num[c] > 0
    BY <1>1, <1>2, <1>6
  <1> QED BY <1>4, <1>5, <1>6, <1>7, FStill

\* A client begins to wait, or a wait ends with a timeout.
LEMMA FPcStep ==
  ASSUME FSound(fp), NEW c \in Clients, fp.open[c], ~fp.calm[c], fp.num[c] > 0,
         NEW pc \in FPcs, pc # "close", fp' = [fp EXCEPT !.pc[c] = pc]
  PROVE  FSound(fp')
  <1>1. fp \in FPortalType
    BY DEF FSound
  <1>2. fp' \in FPortalType
    BY <1>1 DEF FPortalType, FPcs
  <1>3. /\ fp'.onr = fp.onr /\ fp'.rq = fp.rq /\ fp'.open = fp.open /\ fp'.num = fp.num
        /\ fp'.rx = fp.rx /\ fp'.fpcsh = fp.fpcsh /\ fp'.rpx = fp.rpx /\ fp'.xfree = fp.xfree
        /\ fp'.sq = fp.sq /\ fp'.calm = fp.calm
        /\ fp'.pc = [fp.pc EXCEPT ![c] = pc] /\ fp'.pmsg = fp.pmsg
    BY <1>1 DEF FPortalType
  <1>4. fp'.pc[c] = pc /\ \A d \in Clients : d # c => fp'.pc[d] = fp.pc[d] /\ fp'.pmsg[d] = fp.pmsg[d]
    BY <1>1, <1>3, FFields
  <1>5. fp'.pc[c] # "close" /\ fp.open[c] /\ ~fp.calm[c] /\ fp.num[c] > 0
    BY <1>4
  <1> QED BY <1>2, <1>3, <1>4, <1>5, FStill

\* A client takes a message from its exchange.
LEMMA FTakeStep ==
  ASSUME FSound(fp), NEW c \in Clients, fp.open[c], fp.num[c] > 0, fp.rq[fp.rx[c]] # <<>>,
         NEW pc \in FPcs, pc # "close",
         NEW pmsg \in [Clients -> FMsgs \union {None}],
         \A d \in Clients : pmsg[d] # fp.pmsg[d] => pmsg[d] = Head(fp.rq[fp.rx[c]])
                                                    /\ d \in {c, fp.fpcsh[Head(fp.rq[fp.rx[c]])]},
         fp.calm[c] => pc = "closerel" /\ (fp.fpcsh[Head(fp.rq[fp.rx[c]])] = c =>
                                                  pmsg[c] = Head(fp.rq[fp.rx[c]])),
         fp' = [fp EXCEPT !.onr[Head(fp.rq[fp.rx[c]])] = c, !.pmsg = pmsg,
                          !.rq[fp.rx[c]] = Tail(fp.rq[fp.rx[c]]), !.pc[c] = pc],
         fp.calm[c] => fp.pc[c] = "close"
  PROVE  FSound(fp')
  <1> DEFINE p == fp
             q == fp'
             x == p.rx[c]
             m == Head(p.rq[x])
             w == Tail(p.rq[x])
  <1>1. /\ p \in FPortalType /\ FQueues(p) /\ FOpens(p) /\ FNums(p) /\ FCalms(p)
        /\ x \in XCBs /\ ~Contains(p.xfree, x)
    BY DEF FSound, FOpens
  <1>2. /\ p.pc \in [Clients -> FPcs] /\ p.rq \in [XCBs -> Seq(FMsgs)]
        /\ p.onr \in [FMsgs -> Clients \union {Svr, "xchg", None}]
    BY <1>1, FFields
  <1>3. /\ m \in FMsgs /\ Contains(p.rq[x], m) /\ w \in Seq(FMsgs)
        /\ \A u : Contains(w, u) <=> Contains(p.rq[x], u) /\ u # m
    <2>1. p.rq[x] \in Seq(FMsgs) /\ Injective(p.rq[x]) /\ p.rq[x] # <<>>
      BY <1>1, <1>2 DEF FQueues
    <2> QED BY <2>1, TailContains
  <1>4. p.onr[m] = "xchg" /\ p.rpx[m] = x
    BY <1>1, <1>3 DEF FQueues
  <1>5. q = [p EXCEPT !.onr[m] = c, !.pmsg = pmsg, !.rq[x] = w, !.pc[c] = pc]
    OBVIOUS
  <1>6. /\ \A d \in Clients : pmsg[d] # p.pmsg[d] => pmsg[d] = m /\ d \in {c, p.fpcsh[m]}
        /\ p.calm[c] => pc = "closerel" /\ (p.fpcsh[m] = c => pmsg[c] = m)
        /\ pc # "close" /\ (p.calm[c] => p.pc[c] = "close")
    OBVIOUS
  <1>7. fp.open[c] /\ fp.num[c] > 0 /\ p.rq[x] # <<>>
    OBVIOUS
  <1> HIDE DEF x, m, w
  <1>8. q \in FPortalType
    <2>1. /\ [p.onr EXCEPT ![m] = c] \in [FMsgs -> Clients \union {Svr, "xchg", None}]
          /\ [p.rq EXCEPT ![x] = w] \in [XCBs -> Seq(FMsgs)]
          /\ [p.pc EXCEPT ![c] = pc] \in [Clients -> FPcs]
      BY <1>1, <1>2, <1>3
    <2>2. p \in FPortalType /\ pmsg \in [Clients -> FMsgs \union {None}]
      BY <1>1
    <2> HIDE DEF q
    <2> QED BY <1>5, <2>1, <2>2 DEF FPortalType, FPcs
  <1>9. /\ q.onr = [p.onr EXCEPT ![m] = c] /\ q.rq = [p.rq EXCEPT ![x] = w]
        /\ q.pc = [p.pc EXCEPT ![c] = pc] /\ q.pmsg = pmsg
        /\ q.open = p.open /\ q.num = p.num /\ q.rx = p.rx
        /\ q.fpcsh = p.fpcsh /\ q.rpx = p.rpx /\ q.xfree = p.xfree /\ q.sq = p.sq /\ q.calm = p.calm
    BY <1>1, <1>5 DEF FPortalType
  <1>10. FQueues(q)
    <2>1. c \in Outside
      BY DEF Outside
    <2>2. /\ p \in FPortalType /\ FQueues(p) /\ x \in XCBs /\ p.rq[x] # <<>>
          /\ q.xfree = p.xfree /\ q.sq = p.sq /\ q.rpx = p.rpx
          /\ q.onr = [p.onr EXCEPT ![Head(p.rq[x])] = c]
          /\ q.rq = [p.rq EXCEPT ![x] = Tail(p.rq[x])]
      BY <1>1, <1>7, <1>9 DEF m, w
    <2> HIDE DEF q
    <2> QED BY <2>1, <2>2, RqTaken
  <1>11. /\ \A n \in FMsgs : q.onr[n] = IF n = m THEN c ELSE p.onr[n]
         /\ \A d \in Clients : q.pc[d] = IF d = c THEN pc ELSE p.pc[d]
         /\ \A y \in XCBs : q.rq[y] = IF y = x THEN w ELSE p.rq[y]
    BY <1>1, <1>2, <1>9
  <1>12. FOpens(q)
    BY <1>1, <1>6, <1>7, <1>9, <1>11 DEF FOpens
  <1>13. \A d \in Clients : d # c /\ p.open[d] => p.rx[d] # x /\ p.rx[d] \in XCBs
    BY <1>1, <1>7 DEF FOpens, x
  <1>14. FNums(q)
    <2>1. ASSUME NEW d \in Clients, p.open[d] PROVE Own(p, d) \subseteq Own(q, d)
      <3> SUFFICES ASSUME NEW n \in Own(p, d) PROVE n \in Own(q, d)
        OBVIOUS
      <3>1. n \in FMsgs /\ p.fpcsh[n] = d /\ p.rpx[n] = p.rx[d] /\ p.onr[n] \in {d, Svr, "xchg"}
        BY DEF Own
      <3>2. n = m => d = c
        BY <1>4, <1>13, <2>1, <3>1
      <3> QED BY <1>9, <1>11, <3>1, <3>2 DEF Own
    <2>2. \A d \in Clients : p.open[d] => Cardinality(Own(p, d)) <= Cardinality(Own(q, d))
      BY <2>1, OwnKept
    <2>3. \A d \in Clients : Cardinality(Own(p, d)) \in Nat /\ Cardinality(Own(q, d)) \in Nat /\ p.num[d] \in Nat
      BY <1>1, OwnFinite, FFields, FKinds
    <2> QED BY <1>1, <1>9, <2>2, <2>3 DEF FNums
  <1>15. FCalms(q)
    <2> SUFFICES ASSUME NEW d \in Clients, p.calm[d] PROVE FCalm(q, d)
      BY <1>9 DEF FCalms
    <2>1. FCalm(p, d)
      BY <1>1 DEF FCalms
    <2>2. CASE ~p.open[d]
      BY <1>9, <2>1, <2>2 DEF FCalm
    <2>3. CASE p.open[d] /\ d # c
      <3>1. p.fpcsh[m] # d
        <4> SUFFICES ASSUME p.fpcsh[m] = d PROVE FALSE
          OBVIOUS
        <4>1. p.rpx[m] = p.rx[d] \/ p.onr[m] = d
          BY <1>3, <2>3, CalmHas
        <4>2. d # "xchg"
          BY FKinds
        <4> QED BY <1>4, <1>13, <2>3, <4>1, <4>2
      <3>2. q.pmsg[d] = p.pmsg[d] /\ q.pc[d] = p.pc[d] /\ q.rq[q.rx[d]] = p.rq[p.rx[d]]
        BY <1>6, <1>9, <1>11, <1>13, <2>3, <3>1
      <3> QED BY <1>9, <1>11, <2>1, <2>3, <3>1, <3>2 DEF FCalm
    <2>4. CASE d = c
      <3>1. q.pc[d] = "closerel" /\ (p.fpcsh[m] = c => pmsg[c] = m) /\ p.pc[d] = "close"
        BY <1>6, <1>11, <2>4
      <3>2. \A n \in FMsgs : p.fpcsh[n] = c => Contains(p.rq[x], n)
        BY <1>7, <2>1, <2>4, <3>1 DEF FCalm, x
      <3>3. \A n \in FMsgs : q.fpcsh[n] = c => Contains(q.rq[x], n) \/ (q.pmsg[c] = n /\ q.onr[n] = c)
        BY <1>1, <1>3, <1>9, <1>11, <3>1, <3>2
      <3> QED BY <1>7, <1>9, <2>4, <3>1, <3>3 DEF FCalm, x
    <2> QED BY <2>2, <2>3, <2>4
  <1> QED BY <1>8, <1>10, <1>12, <1>14, <1>15 DEF FSound

\* smx_PMsgReceive() by a client: what FTake() does to the FPCSs.
LEMMA FTakePmsg ==
  ASSUME NEW p \in FPortalType, NEW m \in FMsgs
  PROVE  /\ [d \in Clients |-> IF d = p.fpcsh[m] THEN m ELSE p.pmsg[d]] \in [Clients -> FMsgs \union {None}]
         /\ \A c \in Clients : [[d \in Clients |-> IF d = p.fpcsh[m] THEN m ELSE p.pmsg[d]] EXCEPT ![c] = m]
                                  \in [Clients -> FMsgs \union {None}]
  <1>1. p.pmsg \in [Clients -> FMsgs \union {None}]
    BY FFields
  <1>2. \A d \in Clients : p.pmsg[d] \in FMsgs \union {None}
    BY <1>1
  <1> HIDE <1>1
  <1>3. [d \in Clients |-> IF d = p.fpcsh[m] THEN m ELSE p.pmsg[d]] \in [Clients -> FMsgs \union {None}]
    BY <1>2
  <1> QED BY <1>3

LEMMA HeadOfRq ==
  ASSUME NEW p, FSound(p), NEW c \in Clients, p.open[c], p.rq[p.rx[c]] # <<>>
  PROVE  Head(p.rq[p.rx[c]]) \in FMsgs /\ p.rx[c] \in XCBs
  <1>1. p.rx[c] \in XCBs /\ p \in FPortalType
    BY DEF FSound, FOpens
  <1>2. p.rq[p.rx[c]] \in Seq(FMsgs)
    BY <1>1, FFields
  <1> QED BY <1>1, <1>2, HeadTailProperties

LEMMA FReceiveStep ==
  ASSUME FSound(fp), NEW c \in Clients, FPortalReceive(c)
  PROVE  FSound(fp')
  <1> DEFINE x == fp.rx[c]
             m == Head(fp.rq[x])
             pm == [d \in Clients |-> IF d = fp.fpcsh[m] THEN m ELSE fp.pmsg[d]]
             pmsg == [pm EXCEPT ![c] = m]
  <1>1. fp.open[c] /\ fp.pc[c] = "idle" /\ fp.pc[c] \notin {"close", "closerel"}
    BY DEF FPortalReceive, FAt
  <1>2. fp.num[c] > 0 /\ ~fp.calm[c] /\ fp \in FPortalType
    BY <1>1, Caller
  <1>3. CASE fp.rq[x] = <<>>
    <2>1. fp' = [fp EXCEPT !.pc[c] = "wait"] /\ "wait" \in FPcs /\ "wait" # "close"
      BY <1>3 DEF FPortalReceive, FPcs
    <2> QED BY <1>1, <1>2, <2>1, FPcStep
  <1>4. CASE fp.rq[x] # <<>>
    <2>1. m \in FMsgs
      BY <1>1, <1>4, HeadOfRq
    <2>2. pmsg \in [Clients -> FMsgs \union {None}]
      BY <1>2, <2>1, FTakePmsg
    <2>3. \A d \in Clients : pmsg[d] # fp.pmsg[d] => pmsg[d] = m /\ d \in {c, fp.fpcsh[m]}
      OBVIOUS
    <2>4. fp' = [FTake(fp, m, c) EXCEPT !.rq[x] = Tail(fp.rq[x]), !.pmsg[c] = m]
      BY <1>4 DEF FPortalReceive
    <2> HIDE DEF m
    <2>5. fp' = [fp EXCEPT !.onr[m] = c, !.pmsg = pmsg, !.rq[x] = Tail(fp.rq[x]), !.pc[c] = "idle"]
      <3>1. [fp.pc EXCEPT ![c] = "idle"] = fp.pc
        BY <1>1, <1>2, FFields
      <3>2. fp' = [fp EXCEPT !.onr[m] = c, !.pmsg = pmsg, !.rq[x] = Tail(fp.rq[x])]
        BY <1>2, <2>4 DEF FTake, FPortalType
      <3>3. [fp EXCEPT !.onr[m] = c, !.pmsg = pmsg, !.rq[x] = Tail(fp.rq[x]), !.pc = fp.pc]
              = [fp EXCEPT !.onr[m] = c, !.pmsg = pmsg, !.rq[x] = Tail(fp.rq[x])]
        <4> HIDE DEF pmsg
        <4> QED BY <1>2 DEF FPortalType
      <3> QED BY <3>1, <3>2, <3>3
    <2> HIDE DEF pmsg
    <2> QED BY <1>1, <1>2, <1>4, <2>2, <2>3, <2>5, FTakeStep DEF FPcs, m
  <1> QED BY <1>3, <1>4

LEMMA FCloseReceiveStep ==
  ASSUME FSound(fp), NEW c \in Clients, FCloseReceive(c)
  PROVE  FSound(fp')
  <1> DEFINE x == fp.rx[c]
             m == Head(fp.rq[x])
             pmsg == [d \in Clients |-> IF d = fp.fpcsh[m] THEN m ELSE fp.pmsg[d]]
  <1>1. fp.pc[c] = "close" /\ fp.num[c] > 0
    BY DEF FCloseReceive, FAt
  <1>2. fp \in FPortalType /\ fp.open[c] /\ x \in XCBs
    BY <1>1 DEF FSound, FOpens
  <1>3. CASE fp.rq[x] = <<>>
    <2>1. fp' = [fp EXCEPT !.pc[c] = "closewait"] /\ "closewait" \in FPcs /\ "closewait" # "close"
      BY <1>3 DEF FCloseReceive, FPcs
    <2>2. ~fp.calm[c]
      <3> SUFFICES ASSUME fp.calm[c] PROVE FALSE
        OBVIOUS
      <3>1. Cardinality(Own(fp, c)) \in Nat /\ IsFiniteSet(Own(fp, c)) /\ fp.num[c] \in Nat
        BY <1>2, OwnFinite, FFields, FKinds
      <3>2. fp.num[c] <= Cardinality(Own(fp, c))
        BY <1>2 DEF FSound, FNums
      <3>3. Cardinality(Own(fp, c)) # 0
        BY <1>1, <3>1, <3>2
      <3>4. Own(fp, c) # {}
        BY <3>1, <3>3, FS_EmptySet
      <3>5. PICK n \in FMsgs : fp.fpcsh[n] = c
        BY <3>4 DEF Own
      <3>6. Contains(fp.rq[x], n)
        BY <1>1, <1>2, <3>5 DEF FSound, FCalms, FCalm
      <3> QED BY <1>3, <3>6 DEF Contains
    <2> QED BY <1>1, <1>2, <2>1, <2>2, FPcStep
  <1>4. CASE fp.rq[x] # <<>>
    <2>1. m \in FMsgs
      BY <1>2, <1>4, HeadOfRq
    <2>2. pmsg \in [Clients -> FMsgs \union {None}]
      BY <1>2, <2>1, FTakePmsg
    <2>3. \A d \in Clients : pmsg[d] # fp.pmsg[d] => pmsg[d] = m /\ d \in {c, fp.fpcsh[m]}
      OBVIOUS
    <2>4. fp' = [FTake(fp, m, c) EXCEPT !.rq[x] = Tail(fp.rq[x]), !.pc[c] = "closerel"]
      BY <1>4 DEF FCloseReceive
    <2>5. fp.fpcsh[m] = c => pmsg[c] = m
      OBVIOUS
    <2> HIDE DEF m
    <2>6. fp' = [fp EXCEPT !.onr[m] = c, !.pmsg = pmsg, !.rq[x] = Tail(fp.rq[x]), !.pc[c] = "closerel"]
      BY <1>1, <1>2, <2>1, <2>4 DEF FTake, FPortalType
    <2> HIDE DEF pmsg
    <2>7. "closerel" \in FPcs /\ "closerel" # "close"
      BY DEF FPcs
    <2> QED BY <1>1, <1>2, <1>4, <2>2, <2>3, <2>5, <2>6, <2>7, FTakeStep DEF m
  <1> QED BY <1>3, <1>4

LEMMA FCloseTimeoutStep ==
  ASSUME FSound(fp), NEW c \in Clients, FCloseTimeout(c)
  PROVE  FSound(fp')
  <1>1. fp.pc[c] = "closewait" /\ fp' = [fp EXCEPT !.pc[c] = "idle"]
    BY DEF FCloseTimeout, FAt
  <1>2. fp.open[c] /\ fp.pc[c] \notin {"close", "closerel"} /\ "idle" \in FPcs /\ "idle" # "close"
    BY <1>1 DEF FSound, FOpens, FPcs
  <1>3. fp.num[c] > 0 /\ ~fp.calm[c]
    BY <1>2, Caller
  <1> QED BY <1>1, <1>2, <1>3, FPcStep

LEMMA FSendStep ==
  ASSUME FSound(fp), NEW c \in Clients, NEW m \in FMsgs, FPortalSend(c, m)
  PROVE  FSound(fp')
  <1> DEFINE p == fp
             q == fp'
             x == fp.rx[c]
             k == IF fp.pmsg[c] = m THEN None ELSE fp.pmsg[c]
  <1>1. /\ p.open[c] /\ p.pc[c] = "idle" /\ p.pc[c] \notin {"close", "closerel"} /\ p.onr[m] = c
        /\ p.onr[m] \in Outside
    BY DEF FPortalSend, FAt, Outside
  <1>2. p.num[c] > 0 /\ ~p.calm[c] /\ p \in FPortalType /\ x \in XCBs
    BY <1>1, Caller
  <1>3. FQueues(p) /\ FOpens(p) /\ FNums(p) /\ FCalms(p)
    BY DEF FSound
  <1>4. /\ p.onr \in [FMsgs -> Clients \union {Svr, "xchg", None}] /\ p.sq \in Seq(FMsgs)
        /\ p.rpx \in [FMsgs -> XCBs \union {None}] /\ p.pmsg \in [Clients -> FMsgs \union {None}]
    BY <1>2, FFields
  <1>5. k \in FMsgs \union {None}
    BY <1>4
  <1>6. PICK o \in {Svr, "xchg"}, sq \in Seq(FMsgs), b \in BOOLEAN :
             /\ q = [p EXCEPT !.pmsg[c] = k, !.rpx[m] = x, !.onr[m] = o, !.sq = sq, !.swait = b]
             /\ IF o = Svr THEN sq = p.sq ELSE sq = Append(p.sq, m)
    <2> HIDE DEF k
    <2>1. CASE p.swait
      <3>1. q = [p EXCEPT !.pmsg[c] = k, !.rpx[m] = x, !.onr[m] = Svr, !.swait = FALSE]
        BY <2>1 DEF FPortalSend, k
      <3>2. q = [p EXCEPT !.pmsg[c] = k, !.rpx[m] = x, !.onr[m] = Svr, !.sq = p.sq, !.swait = FALSE]
        BY <1>2, <3>1 DEF FPortalType
      <3> QED BY <1>4, <3>2
    <2>2. CASE ~p.swait
      <3>1. q = [p EXCEPT !.pmsg[c] = k, !.rpx[m] = x, !.onr[m] = "xchg", !.sq = Append(p.sq, m)]
        BY <2>2 DEF FPortalSend, k
      <3>2. q = [p EXCEPT !.pmsg[c] = k, !.rpx[m] = x, !.onr[m] = "xchg", !.sq = Append(p.sq, m),
                          !.swait = p.swait]
        BY <1>2, <3>1 DEF FPortalType
      <3>3. Append(p.sq, m) \in Seq(FMsgs) /\ p.swait \in BOOLEAN /\ "xchg" # Svr
        BY <1>2, <1>4, FFields, FKinds
      <3> QED BY <3>2, <3>3
    <2> QED BY <2>1, <2>2
  <1> HIDE DEF k, q
  <1>7. q \in FPortalType
    <2>1. /\ [p.onr EXCEPT ![m] = o] \in [FMsgs -> Clients \union {Svr, "xchg", None}]
          /\ [p.rpx EXCEPT ![m] = x] \in [FMsgs -> XCBs \union {None}]
          /\ [p.pmsg EXCEPT ![c] = k] \in [Clients -> FMsgs \union {None}]
      BY <1>2, <1>4, <1>5
    <2> QED BY <1>2, <1>6, <2>1 DEF FPortalType
  <1>8. /\ q.onr = [p.onr EXCEPT ![m] = o] /\ q.rpx = [p.rpx EXCEPT ![m] = x] /\ q.sq = sq
        /\ q.pmsg = [p.pmsg EXCEPT ![c] = k] /\ q.rq = p.rq
        /\ q.pc = p.pc /\ q.open = p.open /\ q.num = p.num /\ q.rx = p.rx
        /\ q.fpcsh = p.fpcsh /\ q.xfree = p.xfree /\ q.calm = p.calm
    BY <1>2, <1>6 DEF FPortalType
  <1>9. FQueues(q)
    <2>1. CASE o = Svr
      <3>1. Svr \in Outside /\ q.sq = p.sq /\ q.onr = [p.onr EXCEPT ![m] = Svr]
        BY <1>6, <1>8, <2>1 DEF Outside
      <3> QED BY <1>1, <1>2, <1>3, <1>8, <3>1, Given
    <2>2. CASE o # Svr
      <3>1. q.sq = Append(p.sq, m) /\ q.onr = [p.onr EXCEPT ![m] = "xchg"]
        BY <1>6, <1>8, <2>2
      <3> QED BY <1>1, <1>2, <1>3, <1>8, <3>1, SqPut
    <2> QED BY <2>1, <2>2
  <1>10. /\ \A n \in FMsgs : q.onr[n] = IF n = m THEN o ELSE p.onr[n]
         /\ \A n \in FMsgs : q.rpx[n] = IF n = m THEN x ELSE p.rpx[n]
         /\ \A d \in Clients : d # c => q.pmsg[d] = p.pmsg[d]
    BY <1>4, <1>8
  <1>11. FOpens(q)
    BY <1>3, <1>8 DEF FOpens
  <1>12. FNums(q)
    <2>1. ASSUME NEW d \in Clients PROVE Own(p, d) \subseteq Own(q, d)
      <3> SUFFICES ASSUME NEW n \in Own(p, d) PROVE n \in Own(q, d)
        OBVIOUS
      <3>1. n \in FMsgs /\ p.fpcsh[n] = d /\ p.rpx[n] = p.rx[d] /\ p.onr[n] \in {d, Svr, "xchg"}
        BY DEF Own
      <3>2. n = m => d = c
        BY <1>1, <3>1, FKinds
      <3> QED BY <1>8, <1>10, <3>1, <3>2 DEF Own
    <2>2. \A d \in Clients : Cardinality(Own(p, d)) <= Cardinality(Own(q, d))
      BY <2>1, OwnKept
    <2>3. \A d \in Clients : Cardinality(Own(p, d)) \in Nat /\ Cardinality(Own(q, d)) \in Nat /\ p.num[d] \in Nat
      BY <1>2, OwnFinite, FFields, FKinds
    <2> QED BY <1>3, <1>8, <2>2, <2>3 DEF FNums
  <1>13. FCalms(q)
    <2> SUFFICES ASSUME NEW d \in Clients, p.calm[d] PROVE FCalm(q, d)
      BY <1>8 DEF FCalms
    <2>1. FCalm(p, d) /\ d # c
      BY <1>2, <1>3 DEF FCalms
    <2>2. CASE ~p.open[d]
      BY <1>8, <2>1, <2>2 DEF FCalm
    <2>3. CASE p.open[d]
      <3>1. p.fpcsh[m] # d
        BY <1>1, <2>1, <2>3, CalmHas, FKinds
      <3> QED BY <1>8, <1>10, <2>1, <2>3, <3>1 DEF FCalm
    <2> QED BY <2>2, <2>3
  <1> QED BY <1>7, <1>9, <1>11, <1>12, <1>13 DEF FSound, q

LEMMA FServerReceiveStep ==
  ASSUME FSound(fp), FServerReceive
  PROVE  FSound(fp')
  <1> DEFINE p == fp
             q == fp'
             m == Head(fp.sq)
             w == Tail(fp.sq)
             pmsg == [d \in Clients |-> IF d = fp.fpcsh[m] THEN m ELSE fp.pmsg[d]]
  <1>1. p \in FPortalType /\ FQueues(p) /\ FOpens(p) /\ FNums(p) /\ FCalms(p)
    BY DEF FSound
  <1>2. p.onr \in [FMsgs -> Clients \union {Svr, "xchg", None}] /\ p.sq \in Seq(FMsgs)
    BY <1>1, FFields
  <1>3. CASE p.sq = <<>>
    <2>1. q = [p EXCEPT !.swait = TRUE]
      BY <1>3 DEF FServerReceive
    <2>2. /\ q \in FPortalType
          /\ q.onr = p.onr /\ q.rpx = p.rpx /\ q.sq = p.sq /\ q.pmsg = p.pmsg /\ q.rq = p.rq
          /\ q.pc = p.pc /\ q.open = p.open /\ q.num = p.num /\ q.rx = p.rx
          /\ q.fpcsh = p.fpcsh /\ q.xfree = p.xfree /\ q.calm = p.calm
      BY <1>1, <2>1 DEF FPortalType
    <2> HIDE DEF q
    <2> QED BY <1>1, <2>2 DEF FSound, FQueues, FOpens, FNums, FCalms, FCalm, Own, q
  <1>4. CASE p.sq # <<>>
    <2>1. /\ m \in FMsgs /\ Contains(p.sq, m) /\ w \in Seq(FMsgs)
      BY <1>1, <1>2, <1>4, TailContains DEF FQueues
    <2>2. pmsg \in [Clients -> FMsgs \union {None}]
      BY <1>1, <2>1, FTakePmsg
    <2>3. q = [p EXCEPT !.onr[m] = Svr, !.pmsg = pmsg, !.sq = w]
      BY <1>1, <1>4 DEF FServerReceive, FTake, FPortalType
    <2>4. \A d \in Clients : d # p.fpcsh[m] => pmsg[d] = p.pmsg[d]
      OBVIOUS
    <2>5. p.onr[m] = "xchg"
      BY <1>1, <2>1 DEF FQueues
    <2> HIDE DEF m, w, pmsg, q
    <2>6. q \in FPortalType
      <3>1. [p.onr EXCEPT ![m] = Svr] \in [FMsgs -> Clients \union {Svr, "xchg", None}]
        BY <1>2
      <3> QED BY <1>1, <2>1, <2>2, <2>3, <3>1 DEF FPortalType
    <2>7. /\ q.onr = [p.onr EXCEPT ![m] = Svr] /\ q.rpx = p.rpx /\ q.sq = w
          /\ q.pmsg = pmsg /\ q.rq = p.rq
          /\ q.pc = p.pc /\ q.open = p.open /\ q.num = p.num /\ q.rx = p.rx
          /\ q.fpcsh = p.fpcsh /\ q.xfree = p.xfree /\ q.calm = p.calm
      BY <1>1, <2>3 DEF FPortalType
    <2>8. FQueues(q)
      BY <1>1, <1>4, <2>7, SqTaken DEF m, w
    <2>9. \A n \in FMsgs : q.onr[n] = IF n = m THEN Svr ELSE p.onr[n]
      BY <1>2, <2>7
    <2>10. FOpens(q)
      BY <1>1, <2>7 DEF FOpens
    <2>11. FNums(q)
      <3>1. \A d \in Clients : Own(p, d) \subseteq Own(q, d)
        BY <2>7, <2>9 DEF Own
      <3>2. \A d \in Clients : Cardinality(Own(p, d)) <= Cardinality(Own(q, d))
        BY <3>1, OwnKept
      <3>3. \A d \in Clients : Cardinality(Own(p, d)) \in Nat /\ Cardinality(Own(q, d)) \in Nat /\ p.num[d] \in Nat
        BY <1>1, OwnFinite, FFields, FKinds
      <3> QED BY <1>1, <2>7, <3>2, <3>3 DEF FNums
    <2>12. FCalms(q)
      <3> SUFFICES ASSUME NEW d \in Clients, p.calm[d] PROVE FCalm(q, d)
        BY <2>7 DEF FCalms
      <3>1. FCalm(p, d)
        BY <1>1 DEF FCalms
      <3>2. CASE ~p.open[d]
        BY <2>7, <3>1, <3>2 DEF FCalm
      <3>3. CASE p.open[d]
        <4>1. p.fpcsh[m] # d
          BY <2>1, <2>5, <3>3, CalmHas, FKinds
        <4> QED BY <2>4, <2>7, <2>9, <3>1, <3>3, <4>1 DEF FCalm
      <3> QED BY <3>2, <3>3
    <2> QED BY <2>6, <2>8, <2>10, <2>11, <2>12 DEF FSound, q
  <1> QED BY <1>3, <1>4

LEMMA FServerTimeoutStep ==
  ASSUME FSound(fp), FServerTimeout
  PROVE  FSound(fp')
  <1> DEFINE p == fp
             q == fp'
  <1>1. p \in FPortalType /\ FQueues(p) /\ FOpens(p) /\ FNums(p) /\ FCalms(p)
    BY DEF FSound
  <1>2. q = [p EXCEPT !.swait = FALSE]
    BY DEF FServerTimeout
  <1>3. /\ q \in FPortalType
        /\ q.onr = p.onr /\ q.rpx = p.rpx /\ q.sq = p.sq /\ q.pmsg = p.pmsg /\ q.rq = p.rq
        /\ q.pc = p.pc /\ q.open = p.open /\ q.num = p.num /\ q.rx = p.rx
        /\ q.fpcsh = p.fpcsh /\ q.xfree = p.xfree /\ q.calm = p.calm
    BY <1>1, <1>2 DEF FPortalType
  <1> HIDE DEF q
  <1> QED BY <1>1, <1>3 DEF FSound, FQueues, FOpens, FNums, FCalms, FCalm, Own, q

\* A client that closes its portal releases the message which its FPCS names, if
\* it has it, and counts one less.
LEMMA FReleased ==
  ASSUME NEW p, FSound(p), NEW q \in FPortalType, NEW c \in Clients, p.open[c], p.num[c] > 0,
         q.rq = p.rq, q.open = p.open, q.rx = p.rx, q.xfree = p.xfree, q.sq = p.sq,
         q.pc[c] = "close",
         q.num[c] = p.num[c] - 1 \/ (q.num[c] = p.num[c] /\ p.pmsg[c] = None),
         \A d \in Clients : d # c =>
            q.pc[d] = p.pc[d] /\ q.pmsg[d] = p.pmsg[d] /\ q.num[d] = p.num[d] /\ q.calm[d] = p.calm[d],
         \A n \in FMsgs : IF n = p.pmsg[c] /\ p.onr[n] = c
                          THEN q.onr[n] = None /\ q.fpcsh[n] = None /\ q.rpx[n] = None
                          ELSE q.onr[n] = p.onr[n] /\ q.fpcsh[n] = p.fpcsh[n] /\ q.rpx[n] = p.rpx[n],
         q.calm[c] => \A n \in FMsgs : p.fpcsh[n] = c =>
            Contains(p.rq[p.rx[c]], n) \/ (n = p.pmsg[c] /\ p.onr[n] = c)
  PROVE  FSound(q)
  <1> DEFINE m == p.pmsg[c]
  <1>1. p \in FPortalType /\ FQueues(p) /\ FOpens(p) /\ FNums(p) /\ FCalms(p)
    BY DEF FSound
  <1>2. /\ p.num \in [Clients -> 0..Cardinality(FMsgs)] /\ q.num \in [Clients -> 0..Cardinality(FMsgs)]
        /\ m \in FMsgs \union {None} /\ p.calm \in [Clients -> BOOLEAN]
    BY <1>1, FFields
  <1>3. FQueues(q)
    <2>1. CASE m \in FMsgs /\ p.onr[m] = c
      <3>1. p.onr[m] \in Outside /\ q.onr[m] = None
        BY <2>1 DEF Outside
      <3>2. \A n \in FMsgs : n # m => q.onr[n] = p.onr[n] /\ q.rpx[n] = p.rpx[n]
        OBVIOUS
      <3> QED BY <1>1, <2>1, <3>1, <3>2, Freed
    <2>2. CASE ~(m \in FMsgs /\ p.onr[m] = c)
      <3>1. \A n \in FMsgs : q.onr[n] = p.onr[n] /\ q.rpx[n] = p.rpx[n]
        BY <2>2
      <3> QED BY <1>1, <3>1 DEF FQueues
    <2> QED BY <2>1, <2>2
  <1>4. FOpens(q)
    BY <1>1 DEF FOpens
  <1>5. FNums(q)
    <2>1. \A d \in Clients : /\ Cardinality(Own(p, d)) \in Nat /\ Cardinality(Own(q, d)) \in Nat
                             /\ p.num[d] \in Nat /\ q.num[d] \in Nat
      BY <1>1, <1>2, OwnFinite, FKinds
    <2>2. ASSUME NEW d \in Clients, d # c PROVE Own(p, d) \subseteq Own(q, d)
      <3> SUFFICES ASSUME NEW n \in Own(p, d) PROVE n \in Own(q, d)
        OBVIOUS
      <3>1. n \in FMsgs /\ p.fpcsh[n] = d /\ p.rpx[n] = p.rx[d] /\ p.onr[n] \in {d, Svr, "xchg"}
        BY DEF Own
      <3>2. p.onr[n] # c
        BY <2>2, <3>1, FKinds
      <3> QED BY <3>1, <3>2 DEF Own
    <2>3. Own(p, c) \ {m} \subseteq Own(q, c)
      BY DEF Own
    <2>4. m = None => Own(p, c) \subseteq Own(q, c)
      BY FKinds DEF Own
    <2>5. \A d \in Clients : d # c => Cardinality(Own(p, d)) <= Cardinality(Own(q, d))
      BY <2>2, OwnKept
    <2>6. Cardinality(Own(p, c)) - 1 <= Cardinality(Own(q, c))
      BY <2>3, OwnLess
    <2>7. m = None => Cardinality(Own(p, c)) <= Cardinality(Own(q, c))
      BY <2>4, OwnKept
    <2>8. p.num[c] <= Cardinality(Own(p, c))
      BY <1>1 DEF FNums
    <2>9. q.num[c] <= Cardinality(Own(q, c))
      BY <2>1, <2>6, <2>7, <2>8
    <2>10. \A d \in Clients : d # c /\ p.open[d] => q.num[d] <= Cardinality(Own(q, d))
      BY <1>1, <2>1, <2>5 DEF FNums
    <2> QED BY <2>9, <2>10 DEF FNums
  <1>6. FCalms(q)
    <2>1. ASSUME NEW d \in Clients, d # c, p.calm[d] PROVE FCalm(q, d)
      <3>1. FCalm(p, d)
        BY <1>1, <2>1 DEF FCalms
      <3>2. CASE ~p.open[d]
        <4>1. d # None
          BY FKinds
        <4> QED BY <3>1, <3>2, <4>1 DEF FCalm
      <3>3. CASE p.open[d]
        <4>1. \A n \in FMsgs : q.fpcsh[n] = d => p.fpcsh[n] = d /\ q.onr[n] = p.onr[n]
          BY FKinds
        <4> QED BY <2>1, <3>1, <3>3, <4>1 DEF FCalm
      <3> QED BY <3>2, <3>3
    <2>2. ASSUME q.calm[c] PROVE FCalm(q, c)
      <3>1. c # None
        BY FKinds
      <3>2. \A n \in FMsgs : q.fpcsh[n] = c => Contains(q.rq[q.rx[c]], n)
        BY <2>2, <3>1
      <3> QED BY <3>2 DEF FCalm
    <2> QED BY <2>1, <2>2 DEF FCalms
  <1> QED BY <1>3, <1>4, <1>5, <1>6 DEF FSound

\* What smx_PMsgRel() of the message held does.
LEMMA RelHeldIs ==
  ASSUME NEW p \in FPortalType, NEW c \in Clients
  PROVE  LET r == RelHeld(p, c)
         IN  /\ r \in FPortalType
             /\ r.pc = p.pc /\ r.hand = p.hand /\ r.open = p.open /\ r.num = p.num /\ r.rx = p.rx
             /\ r.xfree = p.xfree /\ r.rq = p.rq /\ r.sq = p.sq /\ r.calm = p.calm
             /\ \A d \in Clients : d # c => r.pmsg[d] = p.pmsg[d]
             /\ \A n \in FMsgs : IF n = p.pmsg[c] /\ p.onr[n] = c
                  THEN r.onr[n] = None /\ r.fpcsh[n] = None /\ r.rpx[n] = None
                  ELSE r.onr[n] = p.onr[n] /\ r.fpcsh[n] = p.fpcsh[n] /\ r.rpx[n] = p.rpx[n]
  <1> DEFINE m == p.pmsg[c]
             r == RelHeld(p, c)
  <1>1. /\ p.onr \in [FMsgs -> Clients \union {Svr, "xchg", None}]
        /\ p.fpcsh \in [FMsgs -> Clients \union {None}] /\ p.rpx \in [FMsgs -> XCBs \union {None}]
        /\ p.pmsg \in [Clients -> FMsgs \union {None}] /\ None \notin FMsgs
    BY FFields, FKinds
  <1>2. CASE m # None /\ p.onr[m] = c
    <2> DEFINE o == [n \in FMsgs |-> IF n \in {m} THEN None ELSE p.onr[n]]
               f == [n \in FMsgs |-> IF n \in {m} THEN None ELSE p.fpcsh[n]]
               x == [n \in FMsgs |-> IF n \in {m} THEN None ELSE p.rpx[n]]
               k == [p.pmsg EXCEPT ![c] = None]
    <2>1. /\ o \in [FMsgs -> Clients \union {Svr, "xchg", None}]
          /\ f \in [FMsgs -> Clients \union {None}] /\ x \in [FMsgs -> XCBs \union {None}]
          /\ k \in [Clients -> FMsgs \union {None}]
      BY <1>1
    <2>2. r = [p EXCEPT !.onr = o, !.fpcsh = f, !.rpx = x, !.pmsg = k]
      BY <1>2 DEF RelHeld, FRel, FPortalType
    <2>3. /\ \A n \in FMsgs : IF n = m THEN o[n] = None /\ f[n] = None /\ x[n] = None
                              ELSE o[n] = p.onr[n] /\ f[n] = p.fpcsh[n] /\ x[n] = p.rpx[n]
          /\ \A d \in Clients : d # c => k[d] = p.pmsg[d]
      BY <1>1
    <2> HIDE DEF o, f, x, k, r
    <2>4. /\ r \in FPortalType
          /\ r.pc = p.pc /\ r.hand = p.hand /\ r.open = p.open /\ r.num = p.num /\ r.rx = p.rx
          /\ r.xfree = p.xfree /\ r.rq = p.rq /\ r.sq = p.sq /\ r.calm = p.calm
          /\ r.onr = o /\ r.fpcsh = f /\ r.rpx = x /\ r.pmsg = k
      BY <2>1, <2>2 DEF FPortalType
    <2>5. \A n \in FMsgs : IF n = p.pmsg[c] /\ p.onr[n] = c
                  THEN r.onr[n] = None /\ r.fpcsh[n] = None /\ r.rpx[n] = None
                  ELSE r.onr[n] = p.onr[n] /\ r.fpcsh[n] = p.fpcsh[n] /\ r.rpx[n] = p.rpx[n]
      BY <1>2, <2>3, <2>4
    <2> QED BY <2>3, <2>4, <2>5 DEF r
  <1>3. CASE ~(m # None /\ p.onr[m] = c)
    <2>1. r = p
      BY <1>3 DEF RelHeld
    <2>2. \A n \in FMsgs : ~(n = p.pmsg[c] /\ p.onr[n] = c)
      BY <1>1, <1>3
    <2> QED BY <2>1, <2>2
  <1> QED BY <1>2, <1>3

LEMMA FCloseRelStep ==
  ASSUME FSound(fp), NEW c \in Clients, FCloseRel(c)
  PROVE  FSound(fp')
  <1> DEFINE p == fp
             q == fp'
             r == RelHeld(p, c)
  <1>1. p.pc[c] = "closerel" /\ p.open[c] /\ p.num[c] > 0 /\ p \in FPortalType /\ FCalms(p)
    BY DEF FCloseRel, FAt, FSound, FOpens
  <1>2. /\ r \in FPortalType
        /\ r.pc = p.pc /\ r.hand = p.hand /\ r.open = p.open /\ r.num = p.num /\ r.rx = p.rx
        /\ r.xfree = p.xfree /\ r.rq = p.rq /\ r.sq = p.sq /\ r.calm = p.calm
        /\ \A d \in Clients : d # c => r.pmsg[d] = p.pmsg[d]
        /\ \A n \in FMsgs : IF n = p.pmsg[c] /\ p.onr[n] = c
             THEN r.onr[n] = None /\ r.fpcsh[n] = None /\ r.rpx[n] = None
             ELSE r.onr[n] = p.onr[n] /\ r.fpcsh[n] = p.fpcsh[n] /\ r.rpx[n] = p.rpx[n]
    BY <1>1, RelHeldIs
  <1>3. q = [r EXCEPT !.pc[c] = "close", !.num[c] = @ - 1, !.hand[c] = None]
    BY DEF FCloseRel
  <1> HIDE DEF r, q
  <1>4. /\ p.num \in [Clients -> 0..Cardinality(FMsgs)] /\ p.pc \in [Clients -> FPcs]
        /\ p.hand \in [Clients -> FMsgs \union {None}] /\ Cardinality(FMsgs) \in Nat
    BY <1>1, FFields, FKinds
  <1>5. p.num[c] - 1 \in 0..Cardinality(FMsgs)
    BY <1>1, <1>4
  <1>6. /\ q \in FPortalType
        /\ q.pc = [p.pc EXCEPT ![c] = "close"] /\ q.num = [p.num EXCEPT ![c] = p.num[c] - 1]
        /\ q.onr = r.onr /\ q.fpcsh = r.fpcsh /\ q.rpx = r.rpx /\ q.pmsg = r.pmsg
        /\ q.open = p.open /\ q.rx = p.rx /\ q.xfree = p.xfree /\ q.rq = p.rq /\ q.sq = p.sq
        /\ q.calm = p.calm
    <2>1. /\ [p.num EXCEPT ![c] = p.num[c] - 1] \in [Clients -> 0..Cardinality(FMsgs)]
          /\ [p.pc EXCEPT ![c] = "close"] \in [Clients -> FPcs]
          /\ [p.hand EXCEPT ![c] = None] \in [Clients -> FMsgs \union {None}]
      BY <1>4, <1>5 DEF FPcs
    <2> QED BY <1>2, <1>3, <2>1 DEF FPortalType, FPcs
  <1>7. /\ q.pc[c] = "close" /\ q.num[c] = p.num[c] - 1
        /\ \A d \in Clients : d # c =>
              q.pc[d] = p.pc[d] /\ q.pmsg[d] = p.pmsg[d] /\ q.num[d] = p.num[d] /\ q.calm[d] = p.calm[d]
    BY <1>2, <1>4, <1>6
  <1>8. q.calm[c] => \A n \in FMsgs : p.fpcsh[n] = c =>
            Contains(p.rq[p.rx[c]], n) \/ (n = p.pmsg[c] /\ p.onr[n] = c)
    BY <1>1, <1>6 DEF FCalms, FCalm
  <1>9. \A n \in FMsgs : IF n = p.pmsg[c] /\ p.onr[n] = c
             THEN q.onr[n] = None /\ q.fpcsh[n] = None /\ q.rpx[n] = None
             ELSE q.onr[n] = p.onr[n] /\ q.fpcsh[n] = p.fpcsh[n] /\ q.rpx[n] = p.rpx[n]
    BY <1>2, <1>6
  <1> HIDE DEF p
  <1>10. /\ FSound(p) /\ q \in FPortalType /\ p.open[c] /\ p.num[c] > 0
         /\ q.rq = p.rq /\ q.open = p.open /\ q.rx = p.rx /\ q.xfree = p.xfree /\ q.sq = p.sq
         /\ q.pc[c] = "close" /\ (q.num[c] = p.num[c] - 1 \/ (q.num[c] = p.num[c] /\ p.pmsg[c] = None))
    BY <1>1, <1>6, <1>7 DEF p
  <1>11. FSound(q)
    BY <1>7, <1>8, <1>9, <1>10, FReleased
  <1> QED BY <1>11 DEF q

LEMMA FCloseBeginStep ==
  ASSUME FSound(fp), NEW c \in Clients, FCloseBegin(c)
  PROVE  FSound(fp')
  <1> DEFINE p == fp
             q == fp'
             r == RelHeld(p, c)
             k == IF p.pmsg[c] # None THEN p.num[c] - 1 ELSE p.num[c]
  <1>1. p.pc[c] = "idle" /\ p.open[c] /\ p.num[c] > 0 /\ p \in FPortalType /\ p.rx[c] \in XCBs
    BY DEF FCloseBegin, FAt, FSound, FOpens
  <1>2. /\ r \in FPortalType
        /\ r.pc = p.pc /\ r.hand = p.hand /\ r.open = p.open /\ r.num = p.num /\ r.rx = p.rx
        /\ r.xfree = p.xfree /\ r.rq = p.rq /\ r.sq = p.sq /\ r.calm = p.calm
        /\ \A d \in Clients : d # c => r.pmsg[d] = p.pmsg[d]
        /\ \A n \in FMsgs : IF n = p.pmsg[c] /\ p.onr[n] = c
             THEN r.onr[n] = None /\ r.fpcsh[n] = None /\ r.rpx[n] = None
             ELSE r.onr[n] = p.onr[n] /\ r.fpcsh[n] = p.fpcsh[n] /\ r.rpx[n] = p.rpx[n]
    BY <1>1, RelHeldIs
  <1>3. q = [r EXCEPT !.pc[c] = "close", !.num[c] = k, !.calm[c] = AtHand(c)]
    <2>1. CASE p.pmsg[c] = None
      <3>1. r = p
        BY <2>1 DEF RelHeld
      <3> QED BY <2>1, <3>1 DEF FCloseBegin
    <2>2. CASE p.pmsg[c] # None
      BY <1>1, <1>2, <2>2 DEF FCloseBegin
    <2> QED BY <2>1, <2>2
  <1>4. /\ p.num \in [Clients -> 0..Cardinality(FMsgs)] /\ p.pc \in [Clients -> FPcs]
        /\ p.calm \in [Clients -> BOOLEAN] /\ Cardinality(FMsgs) \in Nat
        /\ p.rq \in [XCBs -> Seq(FMsgs)]
    BY <1>1, FFields, FKinds
  <1>5. k \in 0..Cardinality(FMsgs) /\ (k = p.num[c] - 1 \/ (k = p.num[c] /\ p.pmsg[c] = None))
    BY <1>1, <1>4
  <1> HIDE DEF r, q, k
  <1>6. AtHand(c) \in BOOLEAN
    BY DEF AtHand
  <1>7. /\ q \in FPortalType
        /\ q.pc = [p.pc EXCEPT ![c] = "close"] /\ q.num = [p.num EXCEPT ![c] = k]
        /\ q.onr = r.onr /\ q.fpcsh = r.fpcsh /\ q.rpx = r.rpx /\ q.pmsg = r.pmsg
        /\ q.open = p.open /\ q.rx = p.rx /\ q.xfree = p.xfree /\ q.rq = p.rq /\ q.sq = p.sq
        /\ q.calm = [p.calm EXCEPT ![c] = AtHand(c)]
    <2> DEFINE a == AtHand(c)
    <2> HIDE DEF a
    <2>1. /\ [p.num EXCEPT ![c] = k] \in [Clients -> 0..Cardinality(FMsgs)]
          /\ [p.pc EXCEPT ![c] = "close"] \in [Clients -> FPcs]
          /\ [p.calm EXCEPT ![c] = a] \in [Clients -> BOOLEAN]
      BY <1>4, <1>5, <1>6 DEF FPcs, a
    <2>2. q = [r EXCEPT !.pc[c] = "close", !.num[c] = k, !.calm[c] = a]
      BY <1>3 DEF a
    <2>3. /\ q \in FPortalType
          /\ q.pc = [p.pc EXCEPT ![c] = "close"] /\ q.num = [p.num EXCEPT ![c] = k]
          /\ q.onr = r.onr /\ q.fpcsh = r.fpcsh /\ q.rpx = r.rpx /\ q.pmsg = r.pmsg
          /\ q.open = p.open /\ q.rx = p.rx /\ q.xfree = p.xfree /\ q.rq = p.rq /\ q.sq = p.sq
          /\ q.calm = [p.calm EXCEPT ![c] = a]
      BY <1>2, <2>1, <2>2 DEF FPortalType, FPcs
    <2> QED BY <2>3 DEF a
  <1>8. /\ q.pc[c] = "close" /\ q.num[c] = k /\ q.calm[c] = AtHand(c)
        /\ \A d \in Clients : d # c =>
              q.pc[d] = p.pc[d] /\ q.pmsg[d] = p.pmsg[d] /\ q.num[d] = p.num[d] /\ q.calm[d] = p.calm[d]
    BY <1>2, <1>4, <1>7
  <1>9. q.calm[c] => \A n \in FMsgs : p.fpcsh[n] = c =>
            Contains(p.rq[p.rx[c]], n) \/ (n = p.pmsg[c] /\ p.onr[n] = c)
    <2>1. p.rq[p.rx[c]] \in Seq(FMsgs)
      BY <1>1, <1>4
    <2>2. \A n : n \in Range(p.rq[p.rx[c]]) <=> Contains(p.rq[p.rx[c]], n)
      BY <2>1, RangeContains
    <2> QED BY <1>8, <2>2 DEF AtHand
  <1>10. \A n \in FMsgs : IF n = p.pmsg[c] /\ p.onr[n] = c
             THEN q.onr[n] = None /\ q.fpcsh[n] = None /\ q.rpx[n] = None
             ELSE q.onr[n] = p.onr[n] /\ q.fpcsh[n] = p.fpcsh[n] /\ q.rpx[n] = p.rpx[n]
    BY <1>2, <1>7
  <1> HIDE DEF p
  <1>11. /\ FSound(p) /\ q \in FPortalType /\ p.open[c] /\ p.num[c] > 0
         /\ q.rq = p.rq /\ q.open = p.open /\ q.rx = p.rx /\ q.xfree = p.xfree /\ q.sq = p.sq
         /\ q.pc[c] = "close" /\ (q.num[c] = p.num[c] - 1 \/ (q.num[c] = p.num[c] /\ p.pmsg[c] = None))
    BY <1>1, <1>5, <1>7, <1>8 DEF p
  <1>12. FSound(q)
    BY <1>8, <1>9, <1>10, <1>11, FReleased
  <1> QED BY <1>12 DEF q

LEMMA ClientReplyStep ==
  ASSUME FSound(fp), NEW c \in Clients, NEW m \in FMsgs, ClientReply(c, m)
  PROVE  FSound(fp')
  <1>1. fp.pc[c] = "idle" /\ fp.onr[m] = c /\ fp' = FReply(fp, m)
    BY DEF ClientReply, FAt
  <1>2. fp.onr[m] \in Outside /\ \A d \in Clients : fp.onr[m] = d => fp.pc[d] = "idle"
    BY <1>1 DEF Outside
  <1>3. FSound(FReply(fp, m))
    BY <1>2, FReplyKeeps
  <1> QED BY <1>1, <1>3

LEMMA FServerReplyStep ==
  ASSUME FSound(fp), NEW m \in FMsgs, FServerReply(m)
  PROVE  FSound(fp')
  <1>1. fp.onr[m] = Svr /\ fp' = FReply(fp, m)
    BY DEF FServerReply
  <1>2. fp.onr[m] \in Outside /\ \A d \in Clients : fp.onr[m] = d => fp.pc[d] = "idle"
    BY <1>1, FKinds DEF Outside
  <1>3. FSound(FReply(fp, m))
    BY <1>2, FReplyKeeps
  <1> QED BY <1>1, <1>3

LEMMA FCloseEndStep ==
  ASSUME FSound(fp), NEW c \in Clients, FCloseEnd(c)
  PROVE  FSound(fp')
  <1> DEFINE p == fp
             q == fp'
             x == fp.rx[c]
             M == Range(fp.rq[x])
             o == [n \in FMsgs |-> IF n \in M THEN None ELSE fp.onr[n]]
             f == [n \in FMsgs |-> IF n \in M THEN None ELSE fp.fpcsh[n]]
             r == [n \in FMsgs |-> IF n \in M THEN None ELSE fp.rpx[n]]
             free == <<x>> \o fp.xfree
  <1>1. /\ p \in FPortalType /\ FQueues(p) /\ FOpens(p) /\ FNums(p) /\ FCalms(p)
        /\ p.pc[c] = "close"
    BY DEF FSound, FCloseEnd, FAt
  <1>2. /\ p.onr \in [FMsgs -> Clients \union {Svr, "xchg", None}]
        /\ p.fpcsh \in [FMsgs -> Clients \union {None}] /\ p.rpx \in [FMsgs -> XCBs \union {None}]
        /\ p.pc \in [Clients -> FPcs] /\ p.open \in [Clients -> BOOLEAN]
        /\ p.rx \in [Clients -> XCBs \union {None}] /\ p.rq \in [XCBs -> Seq(FMsgs)]
        /\ p.xfree \in Seq(XCBs)
    BY <1>1, FFields
  <1>3. p.open[c] /\ x \in XCBs /\ ~Contains(p.xfree, x)
    BY <1>1 DEF FOpens
  <1>4. \A n : n \in M <=> Contains(p.rq[x], n)
    <2>1. p.rq[x] \in Seq(FMsgs)
      BY <1>2, <1>3
    <2> QED BY <2>1, RangeContains
  <1>5. q = [p EXCEPT !.onr = o, !.fpcsh = f, !.rpx = r, !.pc[c] = "idle", !.open[c] = FALSE,
                      !.rx[c] = None, !.rq[x] = <<>>, !.xfree = free]
    BY <1>1 DEF FCloseEnd, FRel, FPortalType
  <1>6. /\ o \in [FMsgs -> Clients \union {Svr, "xchg", None}]
        /\ f \in [FMsgs -> Clients \union {None}] /\ r \in [FMsgs -> XCBs \union {None}]
    BY <1>2
  <1>7. free \in Seq(XCBs) /\ \A u : Contains(free, u) <=> Contains(p.xfree, u) \/ u = x
    <2>1. Injective(p.xfree)
      BY <1>1 DEF FQueues
    <2> QED BY <1>2, <1>3, <2>1, PrependContains
  <1>8. \A n \in FMsgs : IF Contains(p.rq[x], n) THEN o[n] = None /\ f[n] = None
                         ELSE o[n] = p.onr[n] /\ f[n] = p.fpcsh[n] /\ r[n] = p.rpx[n]
    BY <1>4
  <1>9. \A n \in FMsgs : Contains(p.rq[x], n) => p.onr[n] = "xchg" /\ p.rpx[n] = x
    BY <1>1, <1>3 DEF FQueues
  <1>10. free = <<x>> \o p.xfree
    OBVIOUS
  <1> HIDE DEF M, o, f, r, free, q
  <1>11. /\ q \in FPortalType
         /\ q.onr = o /\ q.fpcsh = f /\ q.rpx = r /\ q.pc = [p.pc EXCEPT ![c] = "idle"]
         /\ q.open = [p.open EXCEPT ![c] = FALSE] /\ q.rx = [p.rx EXCEPT ![c] = None]
         /\ q.rq = [p.rq EXCEPT ![x] = <<>>] /\ q.xfree = free
         /\ q.sq = p.sq /\ q.num = p.num /\ q.pmsg = p.pmsg /\ q.calm = p.calm
    <2> HIDE DEF x
    <2>1. /\ [p.pc EXCEPT ![c] = "idle"] \in [Clients -> FPcs]
          /\ [p.open EXCEPT ![c] = FALSE] \in [Clients -> BOOLEAN]
          /\ [p.rx EXCEPT ![c] = None] \in [Clients -> XCBs \union {None}]
      BY <1>2 DEF FPcs
    <2> DEFINE w == [p.rq EXCEPT ![x] = <<>>]
    <2>2. p \in FPortalType /\ free \in Seq(XCBs) /\ w \in [XCBs -> Seq(FMsgs)]
      <3>1. <<>> \in Seq(FMsgs)
        OBVIOUS
      <3> QED BY <1>1, <1>2, <1>7, <3>1
    <2>3. /\ q.onr = o /\ q.fpcsh = f /\ q.rpx = r /\ q.pc = [p.pc EXCEPT ![c] = "idle"]
          /\ q.open = [p.open EXCEPT ![c] = FALSE] /\ q.rx = [p.rx EXCEPT ![c] = None]
          /\ q.rq = [p.rq EXCEPT ![x] = <<>>] /\ q.xfree = free
          /\ q.sq = p.sq /\ q.num = p.num /\ q.pmsg = p.pmsg /\ q.calm = p.calm
      BY <1>5, <2>2 DEF FPortalType
    <2>4. q \in FPortalType
      BY <1>5, <1>6, <2>1, <2>2 DEF FPortalType, FPcs
    <2> QED BY <2>3, <2>4
  <1>12. FQueues(q)
    <2>1. \A n \in FMsgs : IF Contains(p.rq[x], n) THEN q.onr[n] = None
                           ELSE q.onr[n] = p.onr[n] /\ q.rpx[n] = p.rpx[n]
      BY <1>8, <1>11
    <2>2. /\ p \in FPortalType /\ FQueues(p) /\ x \in XCBs /\ ~Contains(p.xfree, x)
          /\ q.xfree = <<x>> \o p.xfree /\ q.rq = [p.rq EXCEPT ![x] = <<>>] /\ q.sq = p.sq
      BY <1>1, <1>3, <1>10, <1>11
    <2> HIDE DEF x
    <2> QED BY <2>1, <2>2, ExchangeFreed
  <1>13. /\ q.pc[c] = "idle" /\ ~q.open[c] /\ q.rx[c] = None
         /\ \A d \in Clients : d # c => q.pc[d] = p.pc[d] /\ q.open[d] = p.open[d] /\ q.rx[d] = p.rx[d]
    BY <1>2, <1>11
  <1>14. \A d \in Clients : d # c /\ p.open[d] =>
            p.rx[d] \in XCBs /\ p.rx[d] # x /\ q.rq[p.rx[d]] = p.rq[p.rx[d]]
    <2>1. \A d \in Clients : d # c /\ p.open[d] => p.rx[d] \in XCBs /\ p.rx[d] # x
      BY <1>1, <1>3 DEF FOpens
    <2> QED BY <1>2, <1>11, <2>1
  <1> HIDE DEF x
  <1>15. FOpens(q)
    <2>1. \A d \in Clients : d # c /\ p.open[d] => ~Contains(q.xfree, q.rx[d])
      BY <1>1, <1>7, <1>11, <1>13, <1>14 DEF FOpens
    <2> QED BY <1>1, <1>11, <1>13, <1>14, <2>1 DEF FOpens
  <1>16. FNums(q)
    <2>1. ASSUME NEW d \in Clients, d # c, p.open[d] PROVE Own(p, d) \subseteq Own(q, d)
      <3> SUFFICES ASSUME NEW n \in Own(p, d) PROVE n \in Own(q, d)
        OBVIOUS
      <3>1. n \in FMsgs /\ p.fpcsh[n] = d /\ p.rpx[n] = p.rx[d] /\ p.onr[n] \in {d, Svr, "xchg"}
        BY DEF Own
      <3>2. ~Contains(p.rq[x], n)
        BY <1>9, <1>14, <2>1, <3>1
      <3> QED BY <1>8, <1>11, <1>13, <2>1, <3>1, <3>2 DEF Own
    <2>2. \A d \in Clients : d # c /\ p.open[d] => Cardinality(Own(p, d)) <= Cardinality(Own(q, d))
      BY <2>1, OwnKept
    <2>3. \A d \in Clients : Cardinality(Own(p, d)) \in Nat /\ Cardinality(Own(q, d)) \in Nat /\ p.num[d] \in Nat
      BY <1>1, OwnFinite, FFields, FKinds
    <2> QED BY <1>1, <1>11, <1>13, <2>2, <2>3 DEF FNums
  <1>17. FCalms(q)
    <2> SUFFICES ASSUME NEW d \in Clients, p.calm[d] PROVE FCalm(q, d)
      BY <1>11 DEF FCalms
    <2>1. FCalm(p, d) /\ d # None /\ d # "xchg"
      BY <1>1, FKinds DEF FCalms
    <2>2. \A n \in FMsgs : q.fpcsh[n] = d => p.fpcsh[n] = d /\ ~Contains(p.rq[x], n)
      BY <1>8, <1>11, <2>1
    <2>3. CASE d = c
      <3>1. \A n \in FMsgs : p.fpcsh[n] = c => Contains(p.rq[x], n)
        BY <1>1, <1>3, <2>1, <2>3 DEF FCalm, x
      <3> QED BY <1>13, <2>2, <2>3, <3>1 DEF FCalm
    <2>4. CASE d # c /\ p.open[d]
      <3>1. ASSUME NEW n \in FMsgs, q.fpcsh[n] = d
            PROVE  \/ Contains(q.rq[q.rx[d]], n)
                   \/ q.pc[d] = "closerel" /\ q.pmsg[d] = n /\ q.onr[n] = d
        <4>1. Contains(p.rq[p.rx[d]], n) \/ (p.pc[d] = "closerel" /\ p.pmsg[d] = n /\ p.onr[n] = d)
          BY <2>1, <2>2, <2>4, <3>1 DEF FCalm
        <4>2. q.onr[n] = p.onr[n]
          BY <1>8, <1>11, <2>2, <3>1
        <4> QED BY <1>11, <1>13, <1>14, <2>4, <4>1, <4>2
      <3>2. q.pc[d] \in {"close", "closerel"} /\ q.open[d]
        BY <1>13, <2>1, <2>4 DEF FCalm
      <3> QED BY <3>1, <3>2 DEF FCalm
    <2>5. CASE d # c /\ ~p.open[d]
      BY <1>13, <2>1, <2>2, <2>5 DEF FCalm
    <2> QED BY <2>3, <2>4, <2>5
  <1>18. FSound(q)
    BY <1>11, <1>12, <1>15, <1>16, <1>17 DEF FSound
  <1> QED BY <1>18 DEF q

LEMMA FOpenStep ==
  ASSUME FSound(fp), NEW c \in Clients, NEW S \in (SUBSET Unused) \ {{}}, NEW s \in SetToSeqs(S),
         FPortalOpen(c, s)
  PROVE  FSound(fp')
  <1> DEFINE p == fp
             q == fp'
             x == Head(fp.xfree)
             o == [n \in FMsgs |-> IF n \in Range(s) THEN "xchg" ELSE fp.onr[n]]
             f == [n \in FMsgs |-> IF n \in Range(s) THEN c ELSE fp.fpcsh[n]]
             r == [n \in FMsgs |-> IF n \in Range(s) THEN x ELSE fp.rpx[n]]
             free == Tail(fp.xfree)
             k == Len(s)
             N == Cardinality(FMsgs)
  <1>1. /\ p \in FPortalType /\ FQueues(p) /\ FOpens(p) /\ FNums(p) /\ FCalms(p)
        /\ p.pc[c] = "idle" /\ ~p.open[c] /\ p.xfree # <<>>
    BY DEF FSound, FPortalOpen, FAt
  <1>2. /\ p.onr \in [FMsgs -> Clients \union {Svr, "xchg", None}]
        /\ p.fpcsh \in [FMsgs -> Clients \union {None}] /\ p.rpx \in [FMsgs -> XCBs \union {None}]
        /\ p.pc \in [Clients -> FPcs] /\ p.open \in [Clients -> BOOLEAN]
        /\ p.num \in [Clients -> 0..N] /\ p.pmsg \in [Clients -> FMsgs \union {None}]
        /\ p.calm \in [Clients -> BOOLEAN]
        /\ p.rx \in [Clients -> XCBs \union {None}] /\ p.rq \in [XCBs -> Seq(FMsgs)]
        /\ p.xfree \in Seq(XCBs)
    BY <1>1, FFields
  <1>3. /\ S \in SUBSET FMsgs /\ S # {} /\ \A n \in S : p.onr[n] = None
        /\ IsFiniteSet(S) /\ Cardinality(S) \in Nat /\ Cardinality(S) <= N /\ Cardinality(S) > 0
    <2>1. S \in SUBSET FMsgs /\ S # {} /\ \A n \in S : p.onr[n] = None
      <3>1. \A n \in Unused : n \in FMsgs /\ p.onr[n] = None
        BY DEF Unused
      <3>2. S \subseteq Unused /\ S # {}
        OBVIOUS
      <3> HIDE DEF p, q
      <3> QED BY <3>1, <3>2
    <2>2. IsFiniteSet(S) /\ Cardinality(S) \in Nat /\ Cardinality(S) <= Cardinality(FMsgs)
      BY <2>1, FKinds, FS_Subset, FS_CardinalityType
    <2>3. Cardinality(S) # 0
      BY <2>1, <2>2, FS_EmptySet
    <2> QED BY <2>1, <2>2, <2>3
  <1>4. /\ s \in [1..Cardinality(S) -> S]
        /\ \A i, j \in 1..Cardinality(S) : i # j => s[i] # s[j]
    BY DEF SetToSeqs
  <1>5. s \in Seq(S) /\ s \in Seq(FMsgs) /\ k = Cardinality(S) /\ Injective(s)
    <2>1. s \in [1..Cardinality(S) -> FMsgs]
      BY <1>3, <1>4
    <2>2. s \in Seq(S) /\ s \in Seq(FMsgs) /\ k = Cardinality(S)
      BY <1>3, <1>4, <2>1
    <2>3. Injective(s)
      BY <1>4, <2>2 DEF Injective
    <2> QED BY <2>2, <2>3
  <1>6. k \in 0..N /\ k > 0
    <2> HIDE DEF k, N
    <2>1. N \in Nat
      BY FKinds DEF N
    <2> QED BY <1>3, <1>5, <2>1
  <1>7. /\ \A n : n \in Range(s) <=> Contains(s, n)
        /\ \A n : Contains(s, n) => n \in FMsgs /\ p.onr[n] = None
    <2>1. \A n : Contains(s, n) => n \in S
      BY <1>4, <1>5 DEF Contains
    <2> QED BY <1>3, <1>5, <2>1, RangeContains
  <1>8. q = [p EXCEPT !.xfree = free, !.rx[c] = x, !.rq[x] = s, !.onr = o, !.fpcsh = f, !.rpx = r,
                      !.pmsg[c] = None, !.num[c] = k, !.open[c] = TRUE, !.calm[c] = FALSE]
    BY <1>1 DEF FPortalOpen, FPortalType
  <1>9. /\ x \in XCBs /\ free \in Seq(XCBs)
        /\ \A u : Contains(free, u) <=> Contains(p.xfree, u) /\ u # x
        /\ Contains(p.xfree, x)
    <2>1. p.xfree \in Seq(XCBs) /\ Injective(p.xfree) /\ p.xfree # <<>>
      BY <1>1, <1>2 DEF FQueues
    <2> QED BY <2>1, TailContains
  <1>10. /\ o \in [FMsgs -> Clients \union {Svr, "xchg", None}]
         /\ f \in [FMsgs -> Clients \union {None}] /\ r \in [FMsgs -> XCBs \union {None}]
    BY <1>2, <1>9
  <1>11. \A n \in FMsgs : IF Contains(s, n) THEN o[n] = "xchg" /\ f[n] = c /\ r[n] = x
                          ELSE o[n] = p.onr[n] /\ f[n] = p.fpcsh[n] /\ r[n] = p.rpx[n]
    BY <1>7
  <1>12. x = Head(p.xfree) /\ free = Tail(p.xfree)
    OBVIOUS
  <1> HIDE DEF o, f, r, free, k, x, N, q
  <1>13. /\ q.onr = o /\ q.fpcsh = f /\ q.rpx = r /\ q.pc = p.pc /\ q.xfree = free
         /\ q.open = [p.open EXCEPT ![c] = TRUE] /\ q.rx = [p.rx EXCEPT ![c] = x]
         /\ q.rq = [p.rq EXCEPT ![x] = s] /\ q.num = [p.num EXCEPT ![c] = k]
         /\ q.pmsg = [p.pmsg EXCEPT ![c] = None] /\ q.calm = [p.calm EXCEPT ![c] = FALSE]
         /\ q.sq = p.sq
    BY <1>1, <1>8 DEF FPortalType
  <1>14. q \in FPortalType
    <2>1. /\ [p.open EXCEPT ![c] = TRUE] \in [Clients -> BOOLEAN]
          /\ [p.rx EXCEPT ![c] = x] \in [Clients -> XCBs \union {None}]
          /\ [p.num EXCEPT ![c] = k] \in [Clients -> 0..N]
          /\ [p.pmsg EXCEPT ![c] = None] \in [Clients -> FMsgs \union {None}]
          /\ [p.calm EXCEPT ![c] = FALSE] \in [Clients -> BOOLEAN]
      BY <1>2, <1>6, <1>9
    <2>2. [p.rq EXCEPT ![x] = s] \in [XCBs -> Seq(FMsgs)] /\ p \in FPortalType /\ free \in Seq(XCBs)
      BY <1>1, <1>2, <1>5, <1>9
    <2> QED BY <1>8, <1>10, <2>1, <2>2 DEF FPortalType, N
  <1>15. FQueues(q)
    <2>1. \A n \in FMsgs : IF Contains(s, n) THEN q.onr[n] = "xchg" /\ q.rpx[n] = Head(p.xfree)
                           ELSE q.onr[n] = p.onr[n] /\ q.rpx[n] = p.rpx[n]
      BY <1>11, <1>12, <1>13
    <2>2. /\ p \in FPortalType /\ FQueues(p) /\ p.xfree # <<>> /\ s \in Seq(FMsgs) /\ Injective(s)
          /\ \A n \in FMsgs : Contains(s, n) => p.onr[n] = None
          /\ q.xfree = Tail(p.xfree) /\ q.rq = [p.rq EXCEPT ![Head(p.xfree)] = s] /\ q.sq = p.sq
      BY <1>1, <1>5, <1>7, <1>12, <1>13
    <2> QED BY <2>1, <2>2, ExchangeMade
  <1>16. /\ q.open[c] /\ q.rx[c] = x /\ q.num[c] = k /\ ~q.calm[c] /\ q.rq[x] = s
         /\ \A d \in Clients : d # c => /\ q.open[d] = p.open[d] /\ q.rx[d] = p.rx[d]
                                        /\ q.num[d] = p.num[d] /\ q.pmsg[d] = p.pmsg[d]
                                        /\ q.calm[d] = p.calm[d]
         /\ \A y \in XCBs : y # x => q.rq[y] = p.rq[y]
    BY <1>2, <1>9, <1>13
  <1>17. \A d \in Clients : d # c /\ p.open[d] =>
            p.rx[d] \in XCBs /\ p.rx[d] # x /\ ~Contains(q.xfree, p.rx[d])
    BY <1>1, <1>9, <1>13 DEF FOpens
  <1>18. FOpens(q)
    <2>1. x \in XCBs /\ ~Contains(q.xfree, x)
      BY <1>9, <1>13
    <2> QED BY <1>1, <1>6, <1>13, <1>16, <1>17, <2>1 DEF FOpens
  <1>19. FNums(q)
    <2>1. ASSUME NEW d \in Clients, d # c PROVE Own(p, d) \subseteq Own(q, d)
      <3> SUFFICES ASSUME NEW n \in Own(p, d) PROVE n \in Own(q, d)
        OBVIOUS
      <3>1. n \in FMsgs /\ p.fpcsh[n] = d /\ p.rpx[n] = p.rx[d] /\ p.onr[n] \in {d, Svr, "xchg"}
        BY DEF Own
      <3>2. ~Contains(s, n)
        BY <1>7, <3>1, FKinds
      <3> QED BY <1>11, <1>13, <1>16, <2>1, <3>1, <3>2 DEF Own
    <2>2. \A d \in Clients : d # c => Cardinality(Own(p, d)) <= Cardinality(Own(q, d))
      BY <2>1, OwnKept
    <2>3. k <= Cardinality(Own(q, c))
      <3> DEFINE T == Own(q, c)
      <3>1. \A n : Contains(s, n) => n \in T
        BY <1>7, <1>11, <1>13, <1>16 DEF Own
      <3>2. IsFiniteSet(T)
        BY OwnFinite
      <3> HIDE DEF T
      <3>3. s \in [1..k -> T] /\ \A i, j \in 1..k : s[i] = s[j] => i = j
        <4>1. s \in [1..k -> S]
          BY <1>4, <1>5
        <4>2. \A i \in 1..k : s[i] \in T
          BY <3>1 DEF Contains, k
        <4>3. s \in [1..k -> T]
          BY <4>1, <4>2
        <4> QED BY <1>4, <1>5, <4>3
      <3>4. s \in Injection(1..k, T)
        BY <3>3 DEF Injection, IsInjective
      <3>5. Cardinality(1..k) <= Cardinality(T)
        BY <3>2, <3>4, FS_Injection
      <3>6. Cardinality(1..k) = IF 1 > k THEN 0 ELSE k - 1 + 1
        BY <1>6, FS_Interval
      <3>7. Cardinality(1..k) = k
        BY <1>6, <3>6
      <3> QED BY <3>5, <3>7 DEF T
    <2>4. \A d \in Clients : Cardinality(Own(p, d)) \in Nat /\ Cardinality(Own(q, d)) \in Nat /\ p.num[d] \in Nat
      BY <1>1, OwnFinite, FFields, FKinds
    <2>5. \A d \in Clients : d # c /\ p.open[d] => p.num[d] <= Cardinality(Own(q, d))
      BY <1>1, <2>2, <2>4 DEF FNums
    <2> QED BY <1>16, <2>3, <2>5 DEF FNums
  <1>20. FCalms(q)
    <2> SUFFICES ASSUME NEW d \in Clients, q.calm[d] PROVE FCalm(q, d)
      BY DEF FCalms
    <2>1. d # c /\ p.calm[d] /\ FCalm(p, d)
      BY <1>1, <1>16 DEF FCalms
    <2>2. \A n \in FMsgs : q.fpcsh[n] = d => p.fpcsh[n] = d /\ q.onr[n] = p.onr[n]
      BY <1>11, <1>13, <2>1
    <2>3. CASE ~p.open[d]
      BY <1>16, <2>1, <2>2, <2>3 DEF FCalm
    <2>4. CASE p.open[d]
      <3>1. q.rq[q.rx[d]] = p.rq[p.rx[d]] /\ q.open[d] /\ q.pc[d] = p.pc[d] /\ q.pmsg[d] = p.pmsg[d]
        BY <1>13, <1>16, <1>17, <2>1, <2>4
      <3> QED BY <2>1, <2>2, <2>4, <3>1 DEF FCalm
    <2> QED BY <2>3, <2>4
  <1>21. FSound(q)
    BY <1>14, <1>15, <1>18, <1>19, <1>20 DEF FSound
  <1> QED BY <1>21 DEF q

LEMMA FNextSound ==
  ASSUME FSound(fp), FPortalNext
  PROVE  FSound(fp')
  <1>1. ASSUME NEW c \in Clients, FPClient(c) PROVE FSound(fp')
    <2>1. ASSUME NEW S \in (SUBSET Unused) \ {{}}, NEW s \in SetToSeqs(S), FPortalOpen(c, s)
          PROVE  FSound(fp')
      BY <2>1, FOpenStep
    <2>2. CASE FPortalReceive(c)
      BY <2>2, FReceiveStep
    <2>3. CASE ReceiveEnds(c)
      BY <2>3, ReceiveEndsStep
    <2>4. ASSUME NEW m \in FMsgs, FPortalSend(c, m) PROVE FSound(fp')
      BY <2>4, FSendStep
    <2>5. ASSUME NEW m \in FMsgs, ClientReply(c, m) PROVE FSound(fp')
      BY <2>5, ClientReplyStep
    <2>6. CASE FCloseBegin(c)
      BY <2>6, FCloseBeginStep
    <2>7. CASE FCloseReceive(c)
      BY <2>7, FCloseReceiveStep
    <2>8. CASE FCloseRel(c)
      BY <2>8, FCloseRelStep
    <2>9. CASE FCloseTimeout(c)
      BY <2>9, FCloseTimeoutStep
    <2>10. CASE FCloseEnd(c)
      BY <2>10, FCloseEndStep
    <2> QED BY <1>1, <2>1, <2>2, <2>3, <2>4, <2>5, <2>6, <2>7, <2>8, <2>9, <2>10 DEF FPClient
  <1>2. CASE FServerReceive
    BY <1>2, FServerReceiveStep
  <1>3. CASE FServerTimeout
    BY <1>3, FServerTimeoutStep
  <1>4. ASSUME NEW m \in FMsgs, FServerReply(m) PROVE FSound(fp')
    BY <1>4, FServerReplyStep
  <1> QED BY <1>1, <1>2, <1>3, <1>4 DEF FPortalNext

LEMMA FreePortalsSound == FPortalSpec => []FSound(fp)
  <1>1. ASSUME FSound(fp), [FPortalNext]_fp PROVE FSound(fp')
    <2>1. CASE FPortalNext
      BY <1>1, <2>1, FNextSound
    <2>2. CASE UNCHANGED fp
      BY <1>1, <2>2
    <2> QED BY <1>1, <2>1, <2>2
  <1>2. FSound(fp) /\ [FPortalNext]_fp => FSound(fp)'
    BY <1>1
  <1> QED BY <1>2, FInitSound, PTL DEF FPortalSpec

\* The type invariant of free message portals (src/SSMX/fportlc.c): every field keeps its
\* type, whatever the numbers of clients, messages and exchanges.
THEOREM FreePortalsTyped == FPortalSpec => []FPortalTypeOK
  <1>1. FSound(fp) => FPortalTypeOK
    BY DEF FSound, FPortalTypeOK
  <1> QED BY <1>1, FreePortalsSound, PTL

\* mp_FPortalClose() with all of the client's messages at hand releases every one of
\* them and does not wait for any, whatever the server and other clients do meanwhile.
THEOREM ClosesRelease == FPortalSpec => []CloseReleasesAll
  <1>1. FSound(fp) => CloseReleasesAll
    <2> SUFFICES ASSUME FSound(fp), NEW c \in Clients, fp.calm[c]
                 PROVE  /\ fp.pc[c] # "closewait"
                        /\ ~fp.open[c] => \A m \in FMsgs : fp.fpcsh[m] # c
      BY DEF CloseReleasesAll
    <2>1. FCalm(fp, c) /\ (~fp.open[c] => fp.pc[c] = "idle")
      BY DEF FSound, FCalms, FOpens
    <2> QED BY <2>1 DEF FCalm
  <1> QED BY <1>1, FreePortalsSound, PTL

=============================================================================
