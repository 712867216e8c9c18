--------------------------- MODULE SmxMutexProofs ---------------------------
(***************************************************************************)
(* Theorems about SmxMutex, for every number of tasks, of priorities and   *)
(* of mutexes, with or without inheritance and with any ceilings.          *)
(*                                                                         *)
(* A change of a priority is handed on from owner to owner, and each of    *)
(* the routines on the way leaves the rest as it should be only if the     *)
(* data it finds is right but for one thing: one task whose place in its   *)
(* queue is not that of its priority, or one mutex whose owner does not    *)
(* have the priority of the first waiting task.  The predicates below have *)
(* that thing as a parameter.                                              *)
(***************************************************************************)
EXTENDS SmxMutex, SmxKernelProofs, FiniteSetTheorems

-----------------------------------------------------------------------------
(* What the data must be. *)

\* Those that wait for a mutex are in the order of their priorities; all of
\* them but t are.
Sorted(r)       == \A m \in Mutexes : Descending(r.q[m], r.pri)
SortedBut(r, t) == \A m \in Mutexes : Descending(Without(r.q[m], t), r.pri)

\* A mutex that a task waits for has an owner, and the mutexes that the task
\* owns come before it: chains of owners have an end.  No task has less than
\* its normal priority, and one that owns no mutex has no more.
Owns(r, u) == \E x \in Mutexes : r.onr[x] = u

Tidy(r) ==
    /\ \A m \in Mutexes, u \in Tasks : Contains(r.q[m], u) =>
         /\ r.onr[m] \in Tasks
         /\ \A x \in Mutexes : r.onr[x] = u => Rank[x] < Rank[m]
    /\ \A u \in Tasks : /\ r.pri[u] >= r.prinorm[u]
                        /\ ~Owns(r, u) => r.pri[u] = r.prinorm[u]

\* The owners of the mutexes of Q own nothing else.
Sole(r, Q) == /\ Q \subseteq Mutexes
              /\ \A x \in Q : r.onr[x] \in Tasks
              /\ \A x \in Q, y \in Mutexes : r.onr[x] = r.onr[y] => x = y

\* The owner of m has its ceiling, and the priority of the first waiting task.
CeilMet(r, m) == r.pri[r.onr[m]] >= Ceil[m]
HeadMet(r, m) == m \in Inherit /\ r.q[m] # <<>> => r.pri[r.onr[m]] >= r.pri[Head(r.q[m])]

\* No inversion at the mutexes of Q, but perhaps at those of W.
Served(r, Q, W) == /\ Sole(r, Q)
                   /\ \A m \in Q : CeilMet(r, m)
                   /\ \A m \in Q : m \notin W => HeadMet(r, m)

\* The mutexes that t waits for: one or none.
WaitsFor(r, t) == {m \in Mutexes : Contains(r.q[m], t)}

\* All is right at the mutexes of Q.
Sound(r, Q) == Good(r, Tasks) /\ Sorted(r) /\ Tidy(r) /\ Served(r, Q, {})

\* All is right but for the place of t, whose priority has changed.
Unsettled(r, t, Q) == /\ Good(r, Tasks \ {t})
                      /\ InRq(r, t) => r.timeout[t] = "INF"
                      /\ SortedBut(r, t) /\ Tidy(r)
                      /\ Served(r, Q, WaitsFor(r, t))

-----------------------------------------------------------------------------
(* What a change of priorities leaves alone. *)

\* Where the tasks are; a preemption test may have been asked for.
Kept(r, d) ==
    /\ \A u \in Tasks : InRq(d, u) <=> InRq(r, u)
    /\ \A o \in Objs, u \in Tasks : Contains(d.q[o], u) <=> Contains(r.q[o], u)
    /\ d.prinorm = r.prinorm /\ d.timeout = r.timeout /\ d.onr = r.onr /\ d.rv = r.rv
    /\ d.sp = r.sp /\ d.lockctr = r.lockctr /\ d.begun = r.begun
    /\ d.sched = r.sched \/ (r.sched = "NOP" /\ d.sched = "CTTEST")

\* Only the owners of the mutexes of C have been given other priorities.
Handed(r, d, C) ==
    Kept(r, d) /\ \A u \in Tasks : d.pri[u] # r.pri[u] => \E x \in C : r.onr[x] = u

LEMMA HandedCompose ==
  ASSUME NEW r, NEW d, NEW e, NEW C, NEW D, NEW E, C \subseteq E, D \subseteq E,
         Handed(r, d, C), Handed(d, e, D)
  PROVE  Handed(r, e, E)
  BY DEF Handed, Kept

LEMMA HandedSelf ==
  ASSUME NEW r, NEW C
  PROVE  Handed(r, r, C)
  BY DEF Handed, Kept

\* The queue of a mutex, and its head.
LEMMA MutexQueue ==
  ASSUME NEW r, Linked(r), NEW m \in Mutexes
  PROVE  /\ m \in Objs /\ m \in Places /\ m \in Objs \ FifoSems
         /\ r.q[m] \in Seq(Tasks) /\ Injective(r.q[m])
         /\ r.q[m] # <<>> => Head(r.q[m]) \in Tasks /\ Contains(r.q[m], Head(r.q[m]))
         /\ r.q[m] # <<>> => Head(r.q[m]) = r.q[m][1] /\ Len(r.q[m]) \in Nat \ {0}
         /\ r.q[m] = <<>> => \A u : ~Contains(r.q[m], u)
         /\ r.onr[m] \in Tasks \union {NoTask}
         /\ Ceil[m] \in Levels
  <1>1. m \in Objs /\ m \in Places /\ m \in Objs \ FifoSems /\ Ceil[m] \in Levels
    BY QueuesAssumption DEF Objs, Places
  <1>2. r.q[m] \in Seq(Tasks) /\ Injective(r.q[m]) /\ r.onr[m] \in Tasks \union {NoTask}
    BY <1>1 DEF Linked, KernelType, Places
  <1>3. r.q[m] # <<>> => Head(r.q[m]) \in Tasks /\ Contains(r.q[m], Head(r.q[m]))
    BY <1>2, TailContains
  <1>4. r.q[m] # <<>> => Head(r.q[m]) = r.q[m][1] /\ Len(r.q[m]) \in Nat \ {0}
    BY <1>2, EmptySeq, LenProperties
  <1> QED BY <1>1, <1>2, <1>3, <1>4, EmptyQueue

\* The types that comparisons of priorities need.
LEMMA Priorities ==
  ASSUME NEW r \in KernelType
  PROVE  /\ \A u \in Tasks : r.pri[u] \in Levels /\ r.prinorm[u] \in Levels
         /\ \A u \in Tasks : r.pri[u] \in Int /\ r.prinorm[u] \in Int
         /\ r.pri \in [Tasks -> Int]
         /\ Levels \subseteq Int
  BY QueuesAssumption DEF KernelType, Levels

\* Ownership and the queues' members are all that Tidy() reads but priorities.
LEMMA TidyKept ==
  ASSUME NEW r, Tidy(r), NEW C, C \subseteq Mutexes, NEW d, Handed(r, d, C),
         \A u \in Tasks : d.pri[u] # r.pri[u] => d.pri[u] >= d.prinorm[u]
  PROVE  Tidy(d)
  <1>1. ASSUME NEW m \in Mutexes, NEW u \in Tasks, Contains(d.q[m], u)
        PROVE  /\ d.onr[m] \in Tasks
               /\ \A x \in Mutexes : d.onr[x] = u => Rank[x] < Rank[m]
    <2>1. Contains(r.q[m], u) /\ d.onr = r.onr
      BY <1>1 DEF Handed, Kept, Objs
    <2> QED BY <2>1 DEF Tidy
  <1>2. ASSUME NEW u \in Tasks
        PROVE  /\ d.pri[u] >= d.prinorm[u]
               /\ ~Owns(d, u) => d.pri[u] = d.prinorm[u]
    <2>1. d.onr = r.onr /\ d.prinorm = r.prinorm /\ (Owns(d, u) <=> Owns(r, u))
      BY DEF Handed, Kept, Owns
    <2>2. CASE d.pri[u] = r.pri[u]
      BY <2>1, <2>2 DEF Tidy
    <2>3. CASE d.pri[u] # r.pri[u]
      <3>1. Owns(r, u)
        BY <2>3 DEF Handed, Owns
      <3> QED BY <2>1, <2>3, <3>1
    <2> QED BY <2>2, <2>3
  <1> QED BY <1>1, <1>2 DEF Tidy

-----------------------------------------------------------------------------
(* What smx_ReQTask() does, first without the owners. *)

\* The place of t is made that of its priority.
LEMMA RequeueSorts ==
  ASSUME NEW r, NEW t \in Tasks, Good(r, Tasks \ {t}),
         InRq(r, t) => r.timeout[t] = "INF", SortedBut(r, t),
         NEW d, d = Requeue(r, t)
  PROVE  /\ Good(d, Tasks) /\ Sorted(d) /\ Kept(r, d) /\ d.pri = r.pri
         /\ \A o \in Objs : ~Contains(r.q[o], t) => d.q[o] = r.q[o]
  <1>0. Linked(r) /\ r \in KernelType
    BY DEF Good, Linked
  <1>1. CASE InRq(r, t)
    <2>1. /\ Good(d, Tasks) /\ \A u \in Tasks : InRq(d, u) <=> InRq(r, u)
          /\ d.pri = r.pri /\ d.prinorm = r.prinorm /\ d.onr = r.onr /\ d.timeout = r.timeout
          /\ d.sp = r.sp /\ d.lockctr = r.lockctr /\ d.begun = r.begun
          /\ Asked(r, d) /\ Beside(r, d, t) /\ d.rv = r.rv
      BY <1>1, Requeued
    <2>2. \A o \in Objs : d.q[o] = r.q[o] /\ ~Contains(r.q[o], t)
      BY <1>0, <1>1, <2>1, ReadyQueued DEF Beside
    <2>3. Sorted(d)
      BY <2>1, <2>2 DEF Sorted, SortedBut, Without, Objs
    <2> QED BY <2>1, <2>2, <2>3 DEF Kept, Asked
  <1>2. CASE ~InRq(r, t)
    <2>1. /\ Good(d, Tasks) /\ \A u \in Tasks : InRq(d, u) <=> InRq(r, u)
          /\ d.pri = r.pri /\ d.timeout = r.timeout
          /\ d.prinorm = r.prinorm /\ d.onr = r.onr
          /\ d.sp = r.sp /\ d.sched = r.sched /\ d.lockctr = r.lockctr /\ d.begun = r.begun
          /\ Bumped(r, d, t)
      BY <1>2, Reinserted
    <2>2. \A o \in Objs : ~Contains(r.q[o], t) => d.q[o] = r.q[o]
      BY <2>1 DEF Bumped
    <2>3. ASSUME NEW o \in Objs
          PROVE  /\ \A u \in Tasks : Contains(d.q[o], u) <=> Contains(r.q[o], u)
                 /\ o \in Mutexes => Descending(d.q[o], d.pri)
      <3> DEFINE s == Without(r.q[o], t)
                 w == ByPriority(d, s, t)
      <3>1. d \in KernelType /\ r.q[o] \in Seq(Tasks) /\ Injective(r.q[o])
        BY <1>0, <2>1 DEF Good, Linked, KernelType, Places
      <3>2. CASE ~Contains(r.q[o], t)
        <4>1. d.q[o] = r.q[o] /\ s = r.q[o]
          BY <2>2, <3>2 DEF Without
        <4> HIDE DEF s
        <4>2. o \in Mutexes => Descending(r.q[o], r.pri)
          BY <4>1 DEF SortedBut, s
        <4> QED BY <2>1, <4>1, <4>2
      <3>3. CASE Contains(r.q[o], t)
        <4>1. /\ s \in Seq(Tasks) /\ Injective(s)
              /\ \A u : Contains(s, u) <=> Contains(r.q[o], u) /\ u # t
          BY <3>1, WithoutProperties
        <4>2. o \in Mutexes => Descending(s, d.pri) /\ o \notin FifoSems
          BY <2>1, QueuesAssumption DEF SortedBut
        <4>3. d.q[o] = IF o \notin FifoSems THEN w ELSE r.q[o]
          BY <2>1, <3>3 DEF Bumped
        <4> HIDE DEF s
        <4>4. ~Contains(s, t)
          BY <4>1
        <4>5. /\ \A u : Contains(w, u) <=> Contains(s, u) \/ u = t
              /\ Descending(s, d.pri) => Descending(w, d.pri)
          BY <3>1, <4>1, <4>4, ByPriorityProperties
        <4> HIDE DEF w
        <4> QED BY <3>3, <4>1, <4>2, <4>3, <4>5
      <3> QED BY <3>2, <3>3
    <2>4. Sorted(d)
      BY <2>3 DEF Sorted, Objs
    <2> QED BY <2>1, <2>2, <2>3, <2>4 DEF Kept, Bumped
  <1> QED BY <1>1, <1>2

\* The data after the priorities of t have been changed.
PriSet(r, d, t, p, p2) ==
    /\ Good(d, Tasks \ {t}) /\ d \in KernelType
    /\ \A u \in Tasks : InRq(d, u) <=> InRq(r, u)
    /\ InRq(d, t) => d.timeout[t] = "INF"
    /\ d.pri[t] = p /\ \A u \in Tasks \ {t} : d.pri[u] = r.pri[u]
    /\ d.prinorm[t] = p2 /\ \A u \in Tasks \ {t} : d.prinorm[u] = r.prinorm[u]
    /\ d.q = r.q /\ d.timeout = r.timeout /\ d.onr = r.onr /\ d.rv = r.rv
    /\ d.sp = r.sp /\ d.sched = r.sched /\ d.lockctr = r.lockctr /\ d.begun = r.begun

LEMMA PrioritySet ==
  ASSUME NEW r, NEW t \in Tasks, Good(r, Tasks), NEW p \in Levels, NEW p2 \in Levels,
         NEW d, d = WithPri(r, t, p, p2)
  PROVE  PriSet(r, d, t, p, p2)
  <1>1. r \in KernelType
    BY DEF Good, Linked
  <1>2. Reset(r, d, t)
    BY Reprioritized, Zenon
  <1>3. /\ d.pri[t] = p /\ d.prinorm[t] = p2 /\ d.onr = r.onr
        /\ \A u \in Tasks \ {t} : d.prinorm[u] = r.prinorm[u]
    BY <1>1 DEF WithPri, KernelType
  <1>4. InRq(d, t) => d.timeout[t] = "INF"
    BY <1>2 DEF Reset, Good, Placed
  <1> QED BY <1>2, <1>3, <1>4 DEF PriSet, Reset, Good, Linked

\* When only t's priority is changed, all else is as right as it was: if t is
\* an owner, its new priority has to be enough for the mutexes of Q.
LEMMA Unsettles ==
  ASSUME NEW r, NEW t \in Tasks, NEW Q, NEW W,
         Good(r, Tasks), Sorted(r), Tidy(r), Served(r, Q, W),
         NEW p \in Levels, NEW p2 \in Levels, NEW d, d = WithPri(r, t, p, p2),
         p >= p2, ~Owns(r, t) => p = p2,
         \A y \in Q : r.onr[y] = t =>
           p >= Ceil[y] /\ (y \in Inherit /\ r.q[y] # <<>> => p >= r.pri[Head(r.q[y])]),
         \A y \in W : r.onr[y] = t \/ Contains(r.q[y], t)
  PROVE  Unsettled(d, t, Q) /\ WaitsFor(d, t) = WaitsFor(r, t)
  <1>0. Linked(r) /\ r \in KernelType
    BY DEF Good, Linked
  <1>1. /\ Good(d, Tasks \ {t}) /\ d \in KernelType
        /\ InRq(d, t) => d.timeout[t] = "INF"
        /\ d.pri[t] = p /\ \A u \in Tasks \ {t} : d.pri[u] = r.pri[u]
        /\ d.prinorm[t] = p2 /\ \A u \in Tasks \ {t} : d.prinorm[u] = r.prinorm[u]
        /\ d.q = r.q /\ d.onr = r.onr
    <2>1. PriSet(r, d, t, p, p2)
      BY PrioritySet
    <2> QED BY <2>1 DEF PriSet
  <1>2. SortedBut(d, t)
    <2> SUFFICES ASSUME NEW m \in Mutexes PROVE Descending(Without(r.q[m], t), d.pri)
      BY <1>1 DEF SortedBut
    <2>1. r.q[m] \in Seq(Tasks) /\ Injective(r.q[m])
      BY <1>0, MutexQueue
    <2>2. Descending(r.q[m], r.pri)
      BY DEF Sorted
    <2> QED BY <1>1, <2>1, <2>2, WithoutDescending
  <1>3. Tidy(d)
    <2>1. ASSUME NEW u \in Tasks
          PROVE  d.pri[u] >= d.prinorm[u] /\ (~Owns(d, u) => d.pri[u] = d.prinorm[u])
      <3>1. Owns(d, u) <=> Owns(r, u)
        BY <1>1 DEF Owns
      <3> QED BY <1>1, <3>1 DEF Tidy
    <2> QED BY <1>1, <2>1 DEF Tidy
  <1>4. WaitsFor(d, t) = WaitsFor(r, t)
    BY <1>1 DEF WaitsFor
  <1>5. Served(d, Q, WaitsFor(d, t))
    <2>1. Sole(d, Q)
      BY <1>1 DEF Served, Sole
    <2>2. ASSUME NEW y \in Q
          PROVE  /\ CeilMet(d, y)
                 /\ y \notin WaitsFor(d, t) => HeadMet(d, y)
      <3>1. y \in Mutexes /\ r.onr[y] \in Tasks /\ CeilMet(r, y)
        BY DEF Served, Sole
      <3>2. CeilMet(d, y)
        BY <1>1, <3>1 DEF CeilMet
      <3>3. ASSUME ~Contains(r.q[y], t) PROVE HeadMet(d, y)
        <4>1. r.q[y] # <<>> => Head(r.q[y]) \in Tasks \ {t}
          BY <1>0, <3>1, <3>3, MutexQueue
        <4>2. CASE r.onr[y] = t
          BY <1>1, <4>1, <4>2 DEF HeadMet
        <4>3. CASE r.onr[y] # t
          <5>1. HeadMet(r, y)
            BY <3>3, <4>3 DEF Served
          <5> QED BY <1>1, <3>1, <4>1, <4>3, <5>1 DEF HeadMet
        <4> QED BY <4>2, <4>3
      <3> QED BY <1>1, <3>1, <3>2, <3>3 DEF WaitsFor
    <2> QED BY <2>1, <2>2 DEF Served
  <1> QED BY <1>1, <1>2, <1>3, <1>4, <1>5 DEF Unsettled

\* Moving t to its place leaves right what was.
LEMMA Requeues ==
  ASSUME NEW r, NEW t \in Tasks, NEW Q, Unsettled(r, t, Q), NEW d, d = Requeue(r, t)
  PROVE  /\ Good(d, Tasks) /\ Sorted(d) /\ Tidy(d) /\ d.pri = r.pri
         /\ Handed(r, d, {}) /\ Served(d, Q, WaitsFor(r, t))
         /\ WaitsFor(d, t) = WaitsFor(r, t)
  <1>1. /\ Good(d, Tasks) /\ Sorted(d) /\ Kept(r, d) /\ d.pri = r.pri
        /\ \A o \in Objs : ~Contains(r.q[o], t) => d.q[o] = r.q[o]
    BY RequeueSorts DEF Unsettled
  <1>2. Handed(r, d, {})
    BY <1>1 DEF Handed
  <1>3. Tidy(d)
    BY <1>1, <1>2, TidyKept DEF Unsettled
  <1>4. Served(d, Q, WaitsFor(r, t))
    <2>1. d.onr = r.onr
      BY <1>1 DEF Kept
    <2>2. Sole(d, Q)
      BY <2>1 DEF Unsettled, Served, Sole
    <2>3. \A y \in Q : CeilMet(d, y)
      BY <1>1, <2>1 DEF Unsettled, Served, CeilMet
    <2>4. ASSUME NEW y \in Q, y \notin WaitsFor(r, t) PROVE HeadMet(d, y)
      <3>1. d.q[y] = r.q[y]
        BY <1>1, <2>4 DEF Unsettled, Served, Sole, WaitsFor, Objs
      <3>2. HeadMet(r, y)
        BY <2>4 DEF Unsettled, Served
      <3> QED BY <1>1, <2>1, <3>1, <3>2 DEF HeadMet
    <2> QED BY <2>2, <2>3, <2>4 DEF Served
  <1>5. WaitsFor(d, t) = WaitsFor(r, t)
    BY <1>1 DEF Kept, WaitsFor, Objs
  <1> QED BY <1>1, <1>2, <1>3, <1>4, <1>5

-----------------------------------------------------------------------------
(* smx_MutexOnrPriAdj(), one link of the chain of owners and then all. *)

LEMMA RecordOfPri ==
  ASSUME NEW r \in KernelType, NEW t \in Tasks, NEW p
  PROVE  [r EXCEPT !.pri[t] = p] = WithPri(r, t, p, r.prinorm[t])
  BY DEF WithPri, KernelType

LEMMA WaitsForBeyond ==
  ASSUME NEW r \in KernelType, NEW t
  PROVE  QueuesOf(r, t) \intersect Mutexes = WaitsFor(r, t)
  BY DEF QueuesOf, WaitsFor, KernelType, Objs

\* Only the priority of t has changed, and not its normal one.
KeptBut(r, d, t) == Kept(r, d) /\ \A u \in Tasks \ {t} : d.pri[u] = r.pri[u]

LEMMA PriSetKept ==
  ASSUME NEW r \in KernelType, NEW t \in Tasks, NEW p, NEW d,
         PriSet(r, d, t, p, r.prinorm[t])
  PROVE  KeptBut(r, d, t)
  <1>1. d.prinorm = r.prinorm
    <2>1. d.prinorm \in [Tasks -> Levels] /\ r.prinorm \in [Tasks -> Levels]
      BY DEF PriSet, KernelType
    <2>2. \A u \in Tasks : d.prinorm[u] = r.prinorm[u]
      BY DEF PriSet
    <2> QED BY <2>1, <2>2
  <1> QED BY <1>1 DEF PriSet, Kept, KeptBut

\* The priority given to the owner is enough for the mutex that it is given for.
LEMMA OnrPriBounds ==
  ASSUME NEW r, Linked(r), Tidy(r), NEW m \in Mutexes, r.q[m] # <<>>,
         NEW o, o = r.onr[m], NEW p, p = OnrPri(r, m)
  PROVE  /\ o \in Tasks /\ p \in Levels
         /\ p >= r.prinorm[o] /\ p >= r.pri[Head(r.q[m])]
         /\ CeilMet(r, m) => p >= Ceil[m]
  <1> DEFINE h == Head(r.q[m])
             S == {r.pri[h], Ceil[m], r.prinorm[o]}
  <1>0. r \in KernelType
    BY DEF Linked
  <1>1. h \in Tasks /\ Contains(r.q[m], h) /\ Ceil[m] \in Levels
    BY MutexQueue
  <1>2. o \in Tasks
    BY <1>1 DEF Tidy
  <1>3. /\ r.pri[h] \in Levels /\ r.pri[o] \in Levels /\ r.prinorm[o] \in Levels
        /\ r.pri[o] >= r.prinorm[o]
    BY <1>0, <1>1, <1>2, Priorities DEF Tidy
  <1>4. p = IF r.pri[h] < r.pri[o] THEN Max(S) ELSE r.pri[h]
    BY DEF OnrPri
  <1>5. Max(S) \in S /\ \A y \in S : Max(S) >= y
    <2>1. S \in SUBSET (0..MaxPri) /\ S # {} /\ MaxPri \in Nat
      BY <1>1, <1>3, QueuesAssumption DEF Levels
    <2> HIDE DEF S
    <2> QED BY <2>1, MaxProperties
  <1> HIDE DEF h
  <1>6. CASE r.pri[h] < r.pri[o]
    BY <1>1, <1>2, <1>3, <1>4, <1>5, <1>6 DEF h
  <1>7. CASE ~(r.pri[h] < r.pri[o])
    <2>1. p = r.pri[h] /\ r.pri[h] >= r.pri[o]
      BY <1>3, <1>4, <1>7, QueuesAssumption DEF Levels
    <2>2. CeilMet(r, m) => r.pri[o] >= Ceil[m]
      BY DEF CeilMet
    <2> HIDE DEF S
    <2>3. p >= r.prinorm[o] /\ p >= r.pri[h] /\ (r.pri[o] >= Ceil[m] => p >= Ceil[m])
      BY <1>1, <1>3, <2>1, QueuesAssumption DEF Levels
    <2> QED BY <1>2, <1>3, <2>1, <2>2, <2>3 DEF h
  <1> QED BY <1>6, <1>7

\* The owner of x is given the priority that x calls for, and goes to its place
\* in the queue where it is: the mutex it waits for is what may be wrong now.
LEMMA OwnerAdjusted ==
  ASSUME NEW r, NEW Q, NEW x \in Mutexes, r.q[x] # <<>>,
         Good(r, Tasks), Sorted(r), Tidy(r), Served(r, Q, {x}),
         NEW o, o = r.onr[x],
         NEW d, d = Requeue([r EXCEPT !.pri[o] = OnrPri(r, x)], o)
  PROVE  /\ o \in Tasks
         /\ Good(d, Tasks) /\ Sorted(d) /\ Tidy(d)
         /\ Handed(r, d, {x}) /\ Served(d, Q, WaitsFor(r, o))
  <1> DEFINE p == OnrPri(r, x)
             e == WithPri(r, o, p, r.prinorm[o])
  <1>0. Linked(r) /\ r \in KernelType
    BY DEF Good, Linked
  <1>1. /\ o \in Tasks /\ p \in Levels
        /\ p >= r.prinorm[o] /\ p >= r.pri[Head(r.q[x])]
        /\ CeilMet(r, x) => p >= Ceil[x]
    BY <1>0, OnrPriBounds
  <1> HIDE DEF p
  <1>2. r.prinorm[o] \in Levels
    BY <1>0, <1>1, Priorities
  <1>3. d = Requeue(e, o)
    BY <1>0, <1>1, RecordOfPri DEF p
  <1>4. PriSet(r, e, o, p, r.prinorm[o])
    BY <1>1, <1>2, PrioritySet
  <1> HIDE DEF e
  <1>5. Unsettled(e, o, Q) /\ WaitsFor(e, o) = WaitsFor(r, o)
    <2>1. Owns(r, o)
      BY DEF Owns
    <2>2. \A y \in Q : r.onr[y] = o =>
            p >= Ceil[y] /\ (y \in Inherit /\ r.q[y] # <<>> => p >= r.pri[Head(r.q[y])])
      <3> SUFFICES ASSUME NEW y \in Q, r.onr[y] = o
                   PROVE  p >= Ceil[y] /\ p >= r.pri[Head(r.q[y])]
        OBVIOUS
      <3>1. y = x /\ CeilMet(r, y)
        BY DEF Served, Sole
      <3> QED BY <1>1, <3>1
    <2>3. \A y \in {x} : r.onr[y] = o \/ Contains(r.q[y], o)
      OBVIOUS
    <2> DEFINE W == {x}
    <2>4. Served(r, Q, W) /\ \A y \in W : r.onr[y] = o \/ Contains(r.q[y], o)
      BY <2>3
    <2> HIDE DEF W
    <2> QED BY <1>1, <1>2, <2>1, <2>2, <2>4, Unsettles DEF e
  <1>6. /\ Good(d, Tasks) /\ Sorted(d) /\ Tidy(d) /\ d.pri = e.pri
        /\ Handed(e, d, {}) /\ Served(d, Q, WaitsFor(e, o))
    BY <1>1, <1>3, <1>5, Requeues
  <1>7. Handed(r, d, {x})
    <2>1. KeptBut(r, e, o)
      BY <1>0, <1>1, <1>4, PriSetKept
    <2>2. Handed(r, e, {x})
      BY <2>1 DEF Handed, KeptBut
    <2> QED BY <1>6, <2>2, HandedCompose
  <1> QED BY <1>1, <1>5, <1>6, <1>7

\* The mutexes from m on, in the order of locking.
From(m) == {x \in Mutexes : Rank[x] >= Rank[m]}

\* What the chain that begins at m has come to after n links: the next mutex,
\* if any, may have an owner that has too little, and comes after n others.
Chained(r, m, Q, c, n) ==
    /\ Good(c.data, Tasks) /\ Sorted(c.data) /\ Tidy(c.data)
    /\ Handed(r, c.data, From(m)) /\ Served(c.data, Q, c.next)
    /\ c.next \subseteq Inherit \intersect From(m)
    /\ \A x, y \in c.next : x = y
    /\ \A x \in c.next : /\ c.data.q[x] # <<>>
                         /\ \E V \in SUBSET Mutexes :
                              Cardinality(V) = n /\ \A v \in V : Rank[v] < Rank[x]

LEMMA ChainStart ==
  ASSUME NEW r, NEW Q, NEW m \in Mutexes, m \in Inherit => r.q[m] # <<>>,
         Good(r, Tasks), Sorted(r), Tidy(r), Served(r, Q, {m})
  PROVE  Chained(r, m, Q, [data |-> r, next |-> {m} \intersect Inherit], 0)
  <1> DEFINE c == [data |-> r, next |-> {m} \intersect Inherit]
  <1>1. c.data = r /\ c.next = {m} \intersect Inherit
    OBVIOUS
  <1>2. Rank[m] \in Nat
    BY MutexAssumption
  <1>3. Handed(r, c.data, From(m))
    BY <1>1, HandedSelf
  <1>4. Served(c.data, Q, c.next)
    BY <1>1 DEF Served, HeadMet
  <1>5. c.next \subseteq Inherit \intersect From(m)
    BY <1>1, <1>2 DEF From
  <1>6. {} \in SUBSET Mutexes /\ Cardinality({}) = 0
    BY FS_EmptySet
  <1> HIDE DEF c
  <1>7. \A x \in c.next : /\ c.data.q[x] # <<>>
                          /\ \E V \in SUBSET Mutexes :
                               Cardinality(V) = 0 /\ \A v \in V : Rank[v] < Rank[x]
    BY <1>1, <1>6
  <1>8. Chained(r, m, Q, c, 0)
    BY <1>1, <1>3, <1>4, <1>5, <1>7 DEF Chained
  <1> QED BY <1>8 DEF c

LEMMA ChainLink ==
  ASSUME NEW r, NEW Q, NEW m \in Mutexes, NEW c, NEW n \in Nat,
         Chained(r, m, Q, c, n), NEW e, e = AdjustOnr(c)
  PROVE  Chained(r, m, Q, e, n + 1)
  <1>1. CASE c.next = {}
    <2>1. e = c
      BY <1>1 DEF AdjustOnr
    <2> QED BY <1>1, <2>1 DEF Chained
  <1>2. CASE c.next # {}
    <2> DEFINE x == CHOOSE x \in c.next : TRUE
               g == c.data
               o == g.onr[x]
               d == Requeue([g EXCEPT !.pri[o] = OnrPri(g, x)], o)
               W == Beyond(g, x) \intersect Inherit
    <2>1. x \in c.next
      BY <1>2
    <2>2. e = [data |-> d, next |-> W]
      BY <1>2 DEF AdjustOnr
    <2>3. e.data = d /\ e.next = W
      BY <2>2
    <2> HIDE DEF x, d, W
    <2>4. /\ x \in Mutexes /\ x \in Inherit /\ x \in From(m) /\ g.q[x] # <<>>
          /\ Good(g, Tasks) /\ Sorted(g) /\ Tidy(g) /\ Handed(r, g, From(m))
          /\ c.next = {x}
      BY <2>1 DEF Chained, From
    <2>5. Served(g, Q, {x})
      BY <2>4 DEF Chained
    <2> HIDE DEF g, o
    <2>6. /\ o \in Tasks
          /\ Good(d, Tasks) /\ Sorted(d) /\ Tidy(d)
          /\ Handed(g, d, {x}) /\ Served(d, Q, WaitsFor(g, o))
      BY <2>4, <2>5, OwnerAdjusted DEF o, d
    <2>7. g \in KernelType /\ Linked(g)
      BY <2>4 DEF Good, Linked
    <2>8. W = WaitsFor(g, o) \intersect Inherit
      BY <2>7, WaitsForBeyond DEF Beyond, W, o
    <2>9. \A y \in Mutexes : Rank[y] \in Nat
      BY MutexAssumption
    <2>10. Handed(r, d, From(m))
      <3>1. {x} \subseteq From(m)
        BY <2>4
      <3> QED BY <2>4, <2>6, <3>1, HandedCompose
    <2>11. Served(d, Q, W)
      BY <2>6, <2>8 DEF Served, HeadMet
    <2>12. PICK V \in SUBSET Mutexes : Cardinality(V) = n /\ \A v \in V : Rank[v] < Rank[x]
      BY <2>1, <2>4 DEF Chained
    <2>13. ASSUME NEW y \in W
           PROVE  /\ y \in Inherit /\ y \in From(m) /\ d.q[y] # <<>>
                  /\ \A z \in W : y = z
                  /\ \E U \in SUBSET Mutexes :
                       Cardinality(U) = n + 1 /\ \A v \in U : Rank[v] < Rank[y]
      <3>1. y \in Inherit /\ y \in Mutexes /\ Contains(g.q[y], o)
        BY <2>8, <2>13 DEF WaitsFor
      <3>2. Rank[x] < Rank[y]
        BY <2>4, <2>6, <3>1 DEF Tidy, o
      <3>3. y \in From(m)
        <4>1. Rank[m] <= Rank[x] /\ m \in Mutexes
          BY <2>4, <2>9 DEF From
        <4> QED BY <2>4, <2>9, <3>1, <3>2, <4>1 DEF From
      <3>4. d.q[y] # <<>>
        <4>1. Contains(d.q[y], o)
          BY <2>6, <3>1 DEF Handed, Kept, Objs
        <4> QED BY <4>1, EmptyQueue
      <3>5. \A z \in W : y = z
        BY <2>6, <2>7, <2>8, <3>1 DEF Linked, WaitsFor, Places, Objs
      <3>6. Cardinality(V \union {x}) = n + 1
        <4>1. IsFiniteSet(V)
          BY MutexesFinite, FS_Subset
        <4>2. x \notin V
          BY <2>4, <2>9, <2>12
        <4> QED BY <2>12, <4>1, <4>2, FS_AddElement
      <3>7. \A v \in V \union {x} : Rank[v] < Rank[y]
        BY <2>4, <2>9, <2>12, <3>1, <3>2
      <3> QED BY <2>4, <2>12, <3>1, <3>3, <3>4, <3>5, <3>6, <3>7
    <2>14. W \subseteq Inherit \intersect From(m) /\ \A y, z \in W : y = z
      BY <2>13
    <2>15. \A y \in W : /\ d.q[y] # <<>>
                        /\ \E U \in SUBSET Mutexes :
                             Cardinality(U) = n + 1 /\ \A v \in U : Rank[v] < Rank[y]
      BY <2>13
    <2> HIDE DEF W
    <2> QED BY <2>3, <2>6, <2>10, <2>11, <2>14, <2>15 DEF Chained
  <1> QED BY <1>1, <1>2

\* As many mutexes as there are cannot all come before another one.
LEMMA ChainEnd ==
  ASSUME NEW r, NEW Q, NEW m \in Mutexes, NEW c, Chained(r, m, Q, c, Cardinality(Mutexes))
  PROVE  Sound(c.data, Q) /\ Handed(r, c.data, From(m))
  <1>1. c.next = {}
    <2> SUFFICES ASSUME NEW x \in c.next PROVE FALSE
      OBVIOUS
    <2>1. x \in Mutexes
      BY DEF Chained, From
    <2>2. PICK V \in SUBSET Mutexes :
            Cardinality(V) = Cardinality(Mutexes) /\ \A v \in V : Rank[v] < Rank[x]
      BY DEF Chained
    <2>3. x \notin V
      BY <2>1, <2>2, MutexAssumption
    <2>4. V = Mutexes
      BY <2>2, MutexesFinite, FS_Subset
    <2> QED BY <2>1, <2>3, <2>4
  <1> QED BY <1>1 DEF Chained, Sound

\* The function that OnrPriAdj() is defined with, as for any recursive one: it
\* exists up to every number, for there is no least number up to which it does not.
ChainRun(c, n, f) == f = [i \in 0..n |-> IF i = 0 THEN c ELSE AdjustOnr(f[i - 1])]

LEMMA ChainRunExists ==
  ASSUME NEW c, NEW n \in Nat
  PROVE  \E f : ChainRun(c, n, f)
  <1> DEFINE N == {j \in Nat : ~\E f : ChainRun(c, j, f)}
  <1> SUFFICES ASSUME N # {} PROVE FALSE
    OBVIOUS
  <1>1. PICK j \in N : \A i \in N : j <= i
    <2>1. N \in SUBSET Nat
      OBVIOUS
    <2> HIDE DEF N
    <2> QED BY <2>1, LeastNumber
  <1>2. CASE j = 0
    <2> DEFINE f == [i \in 0..0 |-> c]
    <2>1. \A i \in 0..0 : i = 0
      OBVIOUS
    <2>2. f = [i \in 0..0 |-> IF i = 0 THEN c ELSE AdjustOnr(f[i - 1])]
      BY <2>1
    <2>3. ChainRun(c, j, f)
      BY <1>2, <2>2 DEF ChainRun
    <2> HIDE DEF f
    <2> QED BY <1>1, <2>3
  <1>3. CASE j # 0
    <2>1. j \in Nat /\ j - 1 \in Nat /\ ~(j <= j - 1)
      BY <1>1, <1>3
    <2>2. j - 1 \notin N
      BY <1>1, <2>1
    <2>3. PICK g : ChainRun(c, j - 1, g)
      BY <2>1, <2>2
    <2> DEFINE f == [i \in 0..j |-> IF i = j THEN AdjustOnr(g[j - 1]) ELSE g[i]]
    <2>4. ASSUME NEW i \in 0..j
          PROVE  f[i] = IF i = 0 THEN c ELSE AdjustOnr(f[i - 1])
      <3>1. CASE i = 0
        BY <1>3, <2>1, <2>3, <3>1 DEF ChainRun
      <3>2. CASE i # 0 /\ i # j
        <4>1. i \in 0..j - 1 /\ i - 1 \in 0..j /\ i - 1 # j
          BY <2>1, <3>2
        <4> QED BY <2>3, <3>2, <4>1 DEF ChainRun
      <3>3. CASE i # 0 /\ i = j
        <4>1. j - 1 \in 0..j /\ j - 1 # j
          BY <2>1
        <4> QED BY <3>3, <4>1
      <3> QED BY <3>1, <3>2, <3>3
    <2>5. f = [i \in 0..j |-> f[i]]
      OBVIOUS
    <2> HIDE DEF f
    <2>6. ChainRun(c, j, f)
      BY <2>4, <2>5 DEF ChainRun
    <2> QED BY <1>1, <2>6
  <1> QED BY <1>2, <1>3

LEMMA ChainRuns ==
  ASSUME NEW r, NEW Q, NEW m \in Mutexes, NEW c, Chained(r, m, Q, c, 0),
         NEW n \in Nat, NEW f, ChainRun(c, n, f)
  PROVE  Chained(r, m, Q, f[n], n)
  <1> DEFINE N == {j \in Nat : j <= n /\ ~Chained(r, m, Q, f[j], j)}
  <1> SUFFICES ASSUME N # {} PROVE FALSE
    OBVIOUS
  <1>1. PICK j \in N : \A i \in N : j <= i
    <2>1. N \in SUBSET Nat
      OBVIOUS
    <2> HIDE DEF N
    <2> QED BY <2>1, LeastNumber
  <1>2. j \in Nat /\ j <= n /\ ~Chained(r, m, Q, f[j], j)
    BY <1>1
  <1>3. f[j] = IF j = 0 THEN c ELSE AdjustOnr(f[j - 1])
    BY <1>2 DEF ChainRun
  <1>4. CASE j = 0
    BY <1>2, <1>3, <1>4
  <1>5. CASE j # 0
    <2> DEFINE i == j - 1
               e == f[j]
    <2>1. i \in Nat /\ i <= n /\ ~(j <= i) /\ i + 1 = j /\ e = AdjustOnr(f[i])
      BY <1>2, <1>3, <1>5
    <2>2. Chained(r, m, Q, f[i], i)
      BY <1>1, <2>1
    <2> HIDE DEF i, e
    <2>3. Chained(r, m, Q, e, i + 1)
      BY <2>1, <2>2, ChainLink
    <2> QED BY <1>2, <2>1, <2>3 DEF e
  <1> QED BY <1>4, <1>5

\* smx_MutexOnrPriAdj(m) makes all right, when the owner of m was the only one
\* that might have had too little.
LEMMA ChainAdjusted ==
  ASSUME NEW r, NEW Q, NEW m \in Mutexes, m \in Inherit => r.q[m] # <<>>,
         Good(r, Tasks), Sorted(r), Tidy(r), Served(r, Q, {m}),
         NEW d, d = OnrPriAdj(r, m)
  PROVE  Sound(d, Q) /\ Handed(r, d, From(m))
  <1> DEFINE n == Cardinality(Mutexes)
             c == [data |-> r, next |-> {m} \intersect Inherit]
             F == CHOOSE f : f = [i \in 0..n |-> IF i = 0 THEN c ELSE AdjustOnr(f[i - 1])]
  <1>1. n \in Nat
    BY MutexesFinite, FS_CardinalityType
  <1>2. d = F[n].data
    BY DEF OnrPriAdj
  <1>3. Chained(r, m, Q, c, 0)
    BY ChainStart
  <1> HIDE DEF n, c
  <1>4. ChainRun(c, n, F)
    <2>1. \E f : ChainRun(c, n, f)
      BY <1>1, ChainRunExists
    <2> QED BY <2>1 DEF ChainRun
  <1> HIDE DEF F
  <1>5. Chained(r, m, Q, F[n], n)
    BY <1>1, <1>3, <1>4, ChainRuns
  <1> DEFINE e == F[n]
  <1>6. Chained(r, m, Q, e, Cardinality(Mutexes))
    BY <1>5 DEF n
  <1> HIDE DEF e
  <1>7. Sound(e.data, Q) /\ Handed(r, e.data, From(m))
    BY <1>6, ChainEnd
  <1> QED BY <1>2, <1>7 DEF e

-----------------------------------------------------------------------------
(* smx_ReQTask() and smx_DQTask(). *)

\* What is sound is so whatever task is set aside.
LEMMA SoundUnsettled ==
  ASSUME NEW r, NEW Q, Sound(r, Q), NEW t \in Tasks
  PROVE  Unsettled(r, t, Q)
  <1>0. Linked(r)
    BY DEF Sound, Good
  <1>1. SortedBut(r, t)
    <2> SUFFICES ASSUME NEW m \in Mutexes PROVE Descending(Without(r.q[m], t), r.pri)
      BY DEF SortedBut
    <2>1. r.q[m] \in Seq(Tasks) /\ Injective(r.q[m])
      BY <1>0, MutexQueue
    <2>2. Descending(r.q[m], r.pri)
      BY DEF Sound, Sorted
    <2> QED BY <2>1, <2>2, WithoutDescending
  <1>2. Served(r, Q, WaitsFor(r, t))
    BY DEF Sound, Served
  <1> QED BY <1>1, <1>2 DEF Sound, Unsettled, Good, Placed

\* A task in no queue has no place to be moved to.
LEMMA UnqueuedSettled ==
  ASSUME NEW r, NEW Q, NEW t \in Tasks, Unsettled(r, t, Q), ~Queued(r, t)
  PROVE  Sound(r, Q)
  <1>0. Linked(r) /\ r \in KernelType
    BY DEF Unsettled, Good, Linked
  <1>1. \A x \in Places : ~Contains(r.q[x], t)
    BY <1>0, QueuedDef
  <1>2. Good(r, Tasks)
    <2>1. ~InRq(r, t)
      BY <1>0, <1>1, InRqDef DEF Places
    <2> QED BY <2>1 DEF Unsettled, Good, Placed
  <1>3. \A m \in Mutexes : ~Contains(r.q[m], t)
    BY <1>1 DEF Places, Objs
  <1>4. Sorted(r)
    BY <1>3 DEF Unsettled, SortedBut, Sorted, Without
  <1>5. WaitsFor(r, t) = {}
    BY <1>3 DEF WaitsFor
  <1> QED BY <1>2, <1>4, <1>5 DEF Unsettled, Sound

\* A task waits for one mutex or for none.
LEMMA WaitsForOne ==
  ASSUME NEW r, Linked(r), NEW t \in Tasks, NEW m \in WaitsFor(r, t)
  PROVE  WaitsFor(r, t) = {m} /\ m \in Mutexes /\ Contains(r.q[m], t) /\ r.q[m] # <<>>
  <1>1. \A x \in WaitsFor(r, t) : x \in Mutexes /\ x \in Places /\ Contains(r.q[x], t)
    BY DEF WaitsFor, Places, Objs
  <1>2. WaitsFor(r, t) = {m}
    BY <1>1 DEF Linked
  <1> QED BY <1>1, <1>2, EmptyQueue

\* t goes to its place, and so does every owner that this matters to.
LEMMA Settled ==
  ASSUME NEW r, NEW Q, NEW t \in Tasks, Unsettled(r, t, Q), NEW d, d = ReQTask(r, t)
  PROVE  Sound(d, Q) /\ Handed(r, d, Mutexes) /\ d.pri[t] = r.pri[t]
  <1> DEFINE e == Requeue(r, t)
             W == QueuesOf(r, t) \intersect Mutexes
             m == CHOOSE m \in W : TRUE
  <1>0. Linked(r) /\ r \in KernelType
    BY DEF Unsettled, Good, Linked
  <1>1. W = WaitsFor(r, t)
    BY <1>0, WaitsForBeyond
  <1>2. d = IF W = {} THEN e ELSE OnrPriAdj(e, m)
    BY DEF ReQTask
  <1>3. m \in W \/ W = {}
    OBVIOUS
  <1> HIDE DEF W, m
  <1>4. /\ Good(e, Tasks) /\ Sorted(e) /\ Tidy(e) /\ e.pri = r.pri
        /\ Handed(r, e, {}) /\ Served(e, Q, WaitsFor(r, t))
        /\ WaitsFor(e, t) = WaitsFor(r, t)
    BY Requeues
  <1> HIDE DEF e
  <1>5. CASE W = {}
    <2>1. Served(e, Q, {}) /\ d = e
      BY <1>1, <1>2, <1>4, <1>5
    <2>2. Handed(r, d, Mutexes)
      BY <1>4, <2>1 DEF Handed
    <2> QED BY <1>4, <2>1, <2>2 DEF Sound
  <1>6. CASE W # {}
    <2>1. Linked(e) /\ m \in WaitsFor(e, t)
      BY <1>1, <1>3, <1>4, <1>6 DEF Good
    <2>2. WaitsFor(e, t) = {m} /\ m \in Mutexes /\ Contains(e.q[m], t) /\ e.q[m] # <<>>
      BY <2>1, WaitsForOne
    <2>3. Served(e, Q, {m}) /\ d = OnrPriAdj(e, m)
      BY <1>2, <1>4, <1>6, <2>2
    <2>4. Sound(d, Q) /\ Handed(e, d, From(m))
      BY <1>4, <2>2, <2>3, ChainAdjusted
    <2>5. Handed(r, d, Mutexes)
      <3>1. {} \subseteq Mutexes /\ From(m) \subseteq Mutexes
        BY DEF From
      <3> QED BY <1>4, <2>4, <3>1, HandedCompose
    <2>6. d.pri[t] = e.pri[t]
      <3> SUFFICES ASSUME d.pri[t] # e.pri[t] PROVE FALSE
        OBVIOUS
      <3>1. PICK x \in From(m) : e.onr[x] = t
        BY <2>4 DEF Handed
      <3>2. x \in Mutexes /\ Rank[x] >= Rank[m] /\ Rank[x] < Rank[m]
        BY <1>4, <2>2, <3>1 DEF Tidy, From
      <3> QED BY <2>2, <3>2, MutexAssumption
    <2> QED BY <1>4, <2>4, <2>5, <2>6
  <1> QED BY <1>5, <1>6

\* The same, when t is moved only if it is in a queue.
LEMMA SettledIfQueued ==
  ASSUME NEW r, NEW Q, NEW t \in Tasks, Unsettled(r, t, Q),
         NEW d, d = IF Queued(r, t) THEN ReQTask(r, t) ELSE r
  PROVE  Sound(d, Q) /\ Handed(r, d, Mutexes) /\ d.pri[t] = r.pri[t]
  <1>1. CASE Queued(r, t)
    BY <1>1, Settled
  <1>2. CASE ~Queued(r, t)
    BY <1>2, UnqueuedSettled, HandedSelf
  <1> QED BY <1>1, <1>2

\* Priorities that are what they were.
LEMMA SamePri ==
  ASSUME NEW r \in KernelType, NEW t \in Tasks
  PROVE  WithPri(r, t, r.pri[t], r.prinorm[t]) = r
  BY DEF WithPri, KernelType

\* The owner of m, where a waiting task has been taken out of the queue.
LEMMA Demoted ==
  ASSUME NEW r, NEW Q, NEW m \in Mutexes, r.onr[m] \in Tasks,
         Good(r, Tasks), Sorted(r), Tidy(r), Served(r, Q, {m}),
         NEW d, d = DemoteOwner(r, m)
  PROVE  Sound(d, Q) /\ Handed(r, d, Mutexes)
  <1> DEFINE o == r.onr[m]
             next == IF m \in Inherit /\ r.q[m] # <<>> THEN {r.pri[Head(r.q[m])]} ELSE {}
             S == next \union {Ceil[m], r.prinorm[o]}
             p == Max(S)
             e == [r EXCEPT !.pri[o] = p]
  <1>0. Linked(r) /\ r \in KernelType
    BY DEF Good, Linked
  <1>1. o \in Tasks /\ r.prinorm[o] \in Levels /\ Ceil[m] \in Levels
    BY <1>0, Priorities, MutexQueue
  <1>2. next \subseteq Levels
    BY <1>0, Priorities, MutexQueue
  <1>3. p \in Levels /\ \A y \in S : p >= y
    <2>1. S \in SUBSET (0..MaxPri) /\ S # {} /\ MaxPri \in Nat
      BY <1>1, <1>2, QueuesAssumption DEF Levels
    <2> HIDE DEF S
    <2> QED BY <2>1, MaxProperties DEF Levels
  <1>4. d = IF Queued(r, o) /\ e.pri[o] # r.pri[o] THEN ReQTask(e, o) ELSE e
    BY DEF DemoteOwner
  <1>5. p >= r.prinorm[o] /\ p >= Ceil[m]
        /\ (m \in Inherit /\ r.q[m] # <<>> => p >= r.pri[Head(r.q[m])])
    BY <1>3
  <1> HIDE DEF next, S, p
  <1>6. e = WithPri(r, o, p, r.prinorm[o])
    BY <1>0, <1>1, RecordOfPri
  <1> HIDE DEF e
  <1>7. PriSet(r, e, o, p, r.prinorm[o])
    BY <1>1, <1>3, <1>6, PrioritySet
  <1> DEFINE W == {m}
  <1>8. Unsettled(e, o, Q) /\ WaitsFor(e, o) = WaitsFor(r, o)
    <2>1. Owns(r, o)
      BY DEF Owns
    <2>2. \A y \in Q : r.onr[y] = o =>
            p >= Ceil[y] /\ (y \in Inherit /\ r.q[y] # <<>> => p >= r.pri[Head(r.q[y])])
      <3> SUFFICES ASSUME NEW y \in Q, r.onr[y] = o PROVE y = m
        BY <1>5
      <3> QED BY DEF Served, Sole
    <2>3. Served(r, Q, W) /\ \A y \in W : r.onr[y] = o \/ Contains(r.q[y], o)
      OBVIOUS
    <2> HIDE DEF W, o
    <2>4. p >= r.prinorm[o]
      BY <1>5
    <2> QED BY <1>1, <1>3, <1>6, <2>1, <2>2, <2>3, <2>4, Unsettles
  <1>9. Handed(r, e, Mutexes)
    <2>1. KeptBut(r, e, o)
      BY <1>0, <1>1, <1>7, PriSetKept
    <2> QED BY <2>1 DEF Handed, KeptBut
  <1>10. CASE Queued(r, o) /\ e.pri[o] # r.pri[o]
    <2>1. Sound(d, Q) /\ Handed(e, d, Mutexes)
      BY <1>1, <1>4, <1>8, <1>10, Settled
    <2> QED BY <1>9, <2>1, HandedCompose
  <1>11. CASE ~Queued(r, o)
    <2>1. ~Queued(e, o)
      BY <1>7, <1>11, SameQueues DEF PriSet
    <2>2. Sound(e, Q)
      BY <1>1, <1>8, <2>1, UnqueuedSettled
    <2> QED BY <1>4, <1>9, <1>11, <2>2
  <1>12. CASE Queued(r, o) /\ e.pri[o] = r.pri[o]
    <2>1. e = r
      BY <1>0, <1>1, <1>6, <1>7, <1>12, SamePri DEF PriSet
    <2>2. m \notin WaitsFor(r, o)
      BY MutexAssumption DEF Tidy, WaitsFor
    <2>3. Served(r, Q, {})
      BY <1>8, <2>1, <2>2 DEF Unsettled, Served
    <2>4. d = r
      BY <1>4, <1>12, <2>1
    <2> QED BY <2>3, <2>4, HandedSelf DEF Sound
  <1> QED BY <1>10, <1>11, <1>12

\* t is in no queue any more; the others are where they were.
Gone(r, d, t) ==
    /\ ~InRq(d, t) /\ ~Queued(d, t) /\ Others(r, d, t)
    /\ \A o \in Objs, u \in Tasks \ {t} : Contains(d.q[o], u) <=> Contains(r.q[o], u)
    /\ d.prinorm = r.prinorm /\ d.timeout = r.timeout /\ d.onr = r.onr
    /\ d.sp = r.sp /\ d.lockctr = r.lockctr /\ d.begun = r.begun
    /\ d.sched = r.sched \/ (r.sched = "NOP" /\ d.sched = "CTTEST")

LEMMA GoneKept ==
  ASSUME NEW r, NEW d \in KernelType, NEW e \in KernelType, NEW t \in Tasks,
         Gone(r, d, t), Kept(d, e)
  PROVE  Gone(r, e, t)
  <1>1. ~Queued(e, t)
    <2>1. \A p \in Levels : ~Contains(e.q[p], t)
      BY InRqDef DEF Gone, Kept
    <2>2. \A o \in Objs : ~Contains(e.q[o], t)
      BY QueuedDef DEF Gone, Kept, Places
    <2> QED BY <2>1, <2>2, QueuedDef DEF Places
  <1>2. /\ ~InRq(e, t) /\ Others(r, e, t)
        /\ \A o \in Objs, u \in Tasks \ {t} : Contains(e.q[o], u) <=> Contains(r.q[o], u)
    BY DEF Gone, Kept, Others
  <1> QED BY <1>1, <1>2 DEF Gone, Kept

\* Where t waits behind another task, the owner has the priority of the first one.
LedWell(r, t, Q) ==
    \A y \in Q : Contains(r.q[y], t) /\ Head(r.q[y]) # t => HeadMet(r, y)

LEMMA SoundLeads ==
  ASSUME NEW r, NEW Q, Sound(r, Q), NEW t
  PROVE  LedWell(r, t, Q)
  BY DEF LedWell, Sound, Served

\* smx_DQRQTask(t): the mutex that t was the first to wait for may call for less
\* than its owner has.
LEMMA Withdrawn ==
  ASSUME NEW r, NEW Q, NEW t \in Tasks, Unsettled(r, t, Q), LedWell(r, t, Q),
         NEW d, d = DQRQTask(r, t)
  PROVE  /\ Good(d, Tasks) /\ Sorted(d) /\ Tidy(d) /\ Served(d, Q, FirstAt(r, t))
         /\ Gone(r, d, t) /\ d.pri = r.pri
  <1>0. Good(r, Tasks \ {t}) /\ Linked(r) /\ r \in KernelType
    BY DEF Unsettled, Good, Linked
  <1>1. /\ Good(d, Tasks) /\ SameFields(r, d) /\ d.rv = r.rv
        /\ ~InRq(d, t) /\ ~Queued(d, t) /\ Others(r, d, t) /\ Aside(r, d, t)
        /\ r.q[r.rqtop] # <<>> /\ Top(r) # t => Top(d) = Top(r)
    BY <1>0, Taken
  <1>2. \A o \in Objs, u \in Tasks : Contains(d.q[o], u) <=> Contains(r.q[o], u) /\ u # t
    <2> SUFFICES ASSUME NEW o \in Objs, NEW u \in Tasks
                 PROVE  Contains(d.q[o], u) <=> Contains(r.q[o], u) /\ u # t
      OBVIOUS
    <2>1. r.q[o] \in Seq(Tasks) /\ Injective(r.q[o])
      BY <1>0 DEF Linked, KernelType, Places
    <2>2. d.q[o] = Without(r.q[o], t)
      BY <1>1 DEF Aside
    <2> QED BY <2>1, <2>2, WithoutProperties
  <1>3. Gone(r, d, t)
    BY <1>1, <1>2 DEF Gone, SameFields
  <1>4. Sorted(d)
    BY <1>1 DEF Unsettled, SortedBut, Sorted, Aside, Objs, SameFields
  <1>5. Tidy(d)
    <2>1. \A u \in Tasks : Owns(d, u) <=> Owns(r, u)
      BY <1>1 DEF Owns, SameFields
    <2> QED BY <1>1, <1>2, <2>1 DEF Unsettled, Tidy, SameFields, Objs
  <1>6. Served(d, Q, FirstAt(r, t))
    <2>0. FirstAt(r, t) = {y \in WaitsFor(r, t) : Head(r.q[y]) = t}
      BY <1>0, WaitsForBeyond DEF FirstAt
    <2>1. ASSUME NEW y \in Q, y \notin WaitsFor(r, t)
          PROVE  d.q[y] = r.q[y]
      <3>1. y \in Objs /\ ~Contains(r.q[y], t)
        BY <2>1 DEF Unsettled, Served, Sole, WaitsFor, Objs
      <3> QED BY <1>1, <3>1 DEF Aside, Without
    <2>2. Sole(d, Q)
      BY <1>1 DEF Unsettled, Served, Sole, SameFields
    <2>3. \A y \in Q : CeilMet(d, y)
      BY <1>1 DEF Unsettled, Served, CeilMet, SameFields
    <2>4. \A y \in Q : y \notin WaitsFor(r, t) => HeadMet(d, y)
      BY <1>1, <2>1 DEF Unsettled, Served, HeadMet, SameFields
    <2>5. ASSUME NEW y \in Q, y \in WaitsFor(r, t), Head(r.q[y]) # t
          PROVE  HeadMet(d, y)
      <3>1. y \in Mutexes /\ Contains(r.q[y], t)
        BY <2>5 DEF WaitsFor
      <3>2. /\ y \in Objs /\ r.q[y] \in Seq(Tasks) /\ Injective(r.q[y])
            /\ r.q[y] # <<>> /\ Head(r.q[y]) = r.q[y][1]
        BY <1>0, <3>1, MutexQueue
      <3>3. d.q[y] = Without(r.q[y], t)
        BY <1>1, <3>2 DEF Aside
      <3>4. d.q[y] # <<>> /\ d.q[y][1] = r.q[y][1] /\ d.q[y] \in Seq(Tasks)
        <4> DEFINE s == r.q[y]
        <4>1. s \in Seq(Tasks) /\ Injective(s) /\ s # <<>> /\ s[1] # t
          BY <2>5, <3>2
        <4> HIDE DEF s
        <4>2. /\ Without(s, t) # <<>> /\ Without(s, t)[1] = s[1]
              /\ Without(s, t) \in Seq(Tasks)
          BY <4>1, WithoutProperties
        <4> QED BY <3>3, <4>2 DEF s
      <3>5. Head(d.q[y]) = Head(r.q[y])
        BY <3>2, <3>4, LenProperties, EmptySeq
      <3>6. HeadMet(r, y)
        BY <2>5, <3>1 DEF LedWell
      <3> QED BY <1>1, <3>2, <3>5, <3>6 DEF HeadMet, SameFields
    <2> QED BY <2>0, <2>2, <2>3, <2>4, <2>5 DEF Served
  <1> QED BY <1>1, <1>3, <1>4, <1>5, <1>6 DEF SameFields

\* smx_DQTask(t): t is taken out of its queue, and all else is made right.
LEMMA Detaches ==
  ASSUME NEW r, NEW Q, NEW t \in Tasks, Unsettled(r, t, Q), LedWell(r, t, Q),
         NEW d, d = DQTask(r, t)
  PROVE  Sound(d, Q) /\ Gone(r, d, t)
  <1> DEFINE e == DQRQTask(r, t)
             W == FirstAt(r, t)
             m == CHOOSE m \in W : TRUE
  <1>0. Linked(r) /\ r \in KernelType
    BY DEF Unsettled, Good, Linked
  <1>1. W \subseteq WaitsFor(r, t)
    BY <1>0, WaitsForBeyond DEF FirstAt
  <1>2. d = IF W = {} THEN e ELSE DemoteOwner(e, m)
    BY DEF DQTask
  <1>3. m \in W \/ W = {}
    OBVIOUS
  <1>4. /\ Good(e, Tasks) /\ Sorted(e) /\ Tidy(e) /\ Served(e, Q, W)
        /\ Gone(r, e, t) /\ e.pri = r.pri
    BY Withdrawn
  <1> HIDE DEF W, m, e
  <1>5. CASE W = {}
    BY <1>2, <1>4, <1>5 DEF Sound
  <1>6. CASE W # {}
    <2>1. m \in WaitsFor(r, t)
      BY <1>1, <1>3, <1>6
    <2>2. WaitsFor(r, t) = {m} /\ m \in Mutexes /\ Contains(r.q[m], t)
      BY <1>0, <2>1, WaitsForOne
    <2>3. e.onr[m] \in Tasks
      BY <1>4, <2>2 DEF Gone, Unsettled, Tidy
    <2>4. Served(e, Q, {m}) /\ d = DemoteOwner(e, m)
      <3>1. W = {m}
        BY <1>1, <1>3, <1>6, <2>2
      <3> QED BY <1>2, <1>4, <1>6, <3>1
    <2>5. Sound(d, Q) /\ Handed(e, d, Mutexes)
      BY <1>4, <2>2, <2>3, <2>4, Demoted
    <2>6. e \in KernelType /\ d \in KernelType /\ Kept(e, d)
      BY <1>4, <2>5 DEF Sound, Good, Linked, Handed
    <2> QED BY <1>4, <2>5, <2>6, GoneKept
  <1> QED BY <1>5, <1>6

-----------------------------------------------------------------------------
(* The routines that read and write neither owners nor the queues of mutexes. *)

LEMMA SoundBeside ==
  ASSUME NEW r, NEW Q, Sound(r, Q), NEW d, Good(d, Tasks),
         d.pri = r.pri, d.prinorm = r.prinorm, d.onr = r.onr,
         \A o \in Objs : d.q[o] = r.q[o]
  PROVE  Sound(d, Q)
  <1>1. \A m \in Mutexes : d.q[m] = r.q[m]
    BY DEF Objs
  <1>2. Sorted(d)
    BY <1>1 DEF Sound, Sorted
  <1>3. Tidy(d)
    <2>1. \A u \in Tasks : Owns(d, u) <=> Owns(r, u)
      BY DEF Owns
    <2> QED BY <1>1, <2>1 DEF Sound, Tidy
  <1>4. Served(d, Q, {})
    <2>1. \A m \in Q : m \in Mutexes
      BY DEF Sound, Served, Sole
    <2> QED BY <1>1, <2>1 DEF Sound, Served, Sole, CeilMet, HeadMet
  <1> QED BY <1>2, <1>3, <1>4 DEF Sound

\* What an SSR that is about t leaves alone.
Shifted(r, d, t) ==
    /\ Others(r, d, t) /\ d.onr = r.onr
    /\ d.sp = r.sp /\ d.lockctr = r.lockctr /\ d.begun = r.begun
    /\ d.sched = r.sched \/ (r.sched = "NOP" /\ d.sched = "CTTEST")

LEMMA ShiftedCompose ==
  ASSUME NEW r, NEW d, NEW e, NEW t, Shifted(r, d, t), Shifted(d, e, t)
  PROVE  Shifted(r, e, t)
  BY DEF Shifted, Others

LEMMA ResumedSound ==
  ASSUME NEW r, NEW Q, Sound(r, Q), NEW t \in Tasks, ~Queued(r, t), NEW d, d = Resume(r, t)
  PROVE  Sound(d, Q) /\ InRq(d, t) /\ Shifted(r, d, t)
  <1> DEFINE e == NQRQTask(r, t)
             f == NoTimeout(e, t)
  <1>0. Good(r, Tasks)
    BY DEF Sound
  <1>1. d = DoCtTest(f)
    BY DEF Resume
  <1>2. /\ Good(e, Tasks \ {t}) /\ SameFields(r, e)
        /\ InRq(e, t) /\ Contains(e.q[e.pri[t]], t) /\ Others(r, e, t) /\ Beside(r, e, t)
    BY <1>0, Readied
  <1> HIDE DEF e
  <1>3. /\ Good(f, Tasks) /\ \A u \in Tasks : InRq(f, u) <=> InRq(e, u)
        /\ f.sp = e.sp /\ f.sched = e.sched /\ f.lockctr = e.lockctr /\ f.begun = e.begun
        /\ Same(e, f)
    BY <1>2, Unmarked
  <1> HIDE DEF f
  <1>4. /\ Good(d, Tasks) /\ \A u \in Tasks : InRq(d, u) <=> InRq(f, u)
        /\ d.sp = f.sp /\ d.lockctr = f.lockctr /\ d.begun = f.begun
        /\ Asked(f, d) /\ Same(f, d)
    BY <1>1, <1>3, CtTested
  <1>5. /\ d.pri = r.pri /\ d.prinorm = r.prinorm /\ d.onr = r.onr
        /\ \A o \in Objs : d.q[o] = r.q[o]
    BY <1>2, <1>3, <1>4 DEF SameFields, Same, Beside
  <1>6. Sound(d, Q)
    BY <1>4, <1>5, SoundBeside
  <1> QED BY <1>2, <1>3, <1>4, <1>5, <1>6 DEF Shifted, Others, SameFields, Asked

\* t is taken out of its queue, if any, and its return value is cleared.
LEMMA DetachedSound ==
  ASSUME NEW r, NEW Q, NEW t \in Tasks, Unsettled(r, t, Q), LedWell(r, t, Q),
         NEW d, d = IF Queued(r, t) THEN [DQTask(r, t) EXCEPT !.rv[t] = FALSE] ELSE r
  PROVE  Sound(d, Q) /\ ~InRq(d, t) /\ ~Queued(d, t) /\ Shifted(r, d, t)
  <1>0. r \in KernelType
    BY DEF Unsettled, Good, Linked
  <1>1. CASE Queued(r, t)
    <2> DEFINE e == DQTask(r, t)
    <2>1. d = [e EXCEPT !.rv[t] = FALSE]
      BY <1>1
    <2>2. Sound(e, Q) /\ Gone(r, e, t)
      BY Detaches
    <2> HIDE DEF e
    <2>3. Good(e, Tasks)
      BY <2>2 DEF Sound
    <2>4. /\ Good(d, Tasks) /\ \A u \in Tasks : InRq(d, u) <=> InRq(e, u)
          /\ Top(d) = Top(e) /\ d.rqtop = e.rqtop /\ d.q = e.q /\ SameFields(e, d)
          /\ Beside(e, d, t)
      BY <2>1, <2>3, Unanswered
    <2>5. Sound(d, Q)
      BY <2>2, <2>4, SoundBeside DEF SameFields
    <2>6. ~Queued(d, t)
      BY <2>2, <2>4, SameQueues DEF Gone
    <2> QED BY <2>2, <2>4, <2>5, <2>6 DEF Gone, Shifted, Others, SameFields
  <1>2. CASE ~Queued(r, t)
    <2>1. ~InRq(r, t)
      BY <1>0, <1>2, InRqDef, QueuedDef DEF Places
    <2> QED BY <1>2, <2>1, UnqueuedSettled DEF Shifted, Others
  <1> QED BY <1>1, <1>2

-----------------------------------------------------------------------------
(***************************************************************************)
(* The inductive invariant.  At the mutexes of Calm there is no inversion: *)
(* the property says so, and it is the reason why each routine may look at *)
(* one mutex only.  The order in which mutexes are locked (Tidy) makes the *)
(* chains of owners end, and the queues are in the order of priorities.    *)
(***************************************************************************)

\* The mutexes whose owners own no other, and have not since they got this one.
Calm == {m \in Mutexes : k.onr[m] \in Tasks \ nested}

\* The mutex-owned lists hold what their tasks own, once.
Lists == /\ mol \in [Tasks -> Seq(Mutexes)]
         /\ nested \subseteq Tasks
         /\ \A u \in Tasks :
              /\ Injective(mol[u])
              /\ \A m \in Mutexes : Contains(mol[u], m) <=> k.onr[m] = u
              /\ Len(mol[u]) > 1 => u \in nested

\* A mutex is counted as long as it has an owner.
Nests == /\ ncnt \in [Mutexes -> Nat]
         /\ \A m \in Mutexes : /\ ncnt[m] <= MaxNest[m]
                               /\ ncnt[m] > 0 <=> k.onr[m] # NoTask

MutexInv == KernelInv /\ Sound(k, Calm) /\ Lists /\ Nests

\* An SSR leaves data that is right, and every mutex with its owner.
Stays(c, r) == Leave(c, r) /\ Valid(r) /\ Held(r) /\ Sound(r, Calm) /\ r.onr = k.onr

\* The data of an SSR that is about t.
LEMMA ShiftedStays ==
  ASSUME KernelInv, NEW t \in Targets, NEW r, NEW Q, Sound(r, Q), Shifted(k, r, t), InRq(r, t)
  PROVE  Valid(r) /\ Held(r)
  <1>1. Good(r, Tasks) /\ Others(k, r, t) /\ r.lockctr <= LockLimit
    BY DEF Sound, Shifted, KernelInv, Valid
  <1>2. r.sched = "STOP" => ct \notin r.begun
    BY DEF Shifted, KernelInv, Held
  <1> QED BY <1>1, <1>2, Moved DEF Shifted

LEMMA ResumeStays ==
  ASSUME MutexInv, NEW c \in Callers, NEW t \in Targets, TaskResume(c, t)
  PROVE  \E r : Stays(c, r)
  <1> DEFINE d == Detach(t)
             r == Resume(d, t)
  <1>0. t \in Tasks /\ KernelInv /\ Sound(k, Calm)
    BY DEF Targets, MutexInv
  <1>1. Leave(c, r)
    BY DEF TaskResume
  <1>2. Sound(d, Calm) /\ ~InRq(d, t) /\ ~Queued(d, t) /\ Shifted(k, d, t)
    <2>1. Unsettled(k, t, Calm) /\ LedWell(k, t, Calm)
      BY <1>0, SoundUnsettled, SoundLeads
    <2>2. d = IF Queued(k, t) THEN [DQTask(k, t) EXCEPT !.rv[t] = FALSE] ELSE k
      BY DEF Detach
    <2> HIDE DEF d
    <2> QED BY <1>0, <2>1, <2>2, DetachedSound
  <1> HIDE DEF d
  <1>3. Sound(r, Calm) /\ InRq(r, t) /\ Shifted(d, r, t)
    BY <1>0, <1>2, ResumedSound
  <1> HIDE DEF r
  <1>4. Shifted(k, r, t)
    BY <1>2, <1>3, ShiftedCompose
  <1>5. Valid(r) /\ Held(r)
    BY <1>0, <1>3, <1>4, ShiftedStays
  <1> QED BY <1>1, <1>3, <1>4, <1>5 DEF Stays, Shifted

LEMMA SuspendStays ==
  ASSUME MutexInv, NEW c \in Callers, NEW t \in Targets, TaskSuspend(c, t, "SET")
  PROVE  \E r : Stays(c, r)
  <1> DEFINE d == Detach(t)
             e == IF t = ct THEN [d EXCEPT !.sched = "SUSP"] ELSE d
             r == TimeoutSet(e, t, "SET")
  <1>0. t \in Tasks /\ ct \in Tasks /\ KernelInv /\ Sound(k, Calm)
    BY DEF Targets, MutexInv, KernelInv
  <1>1. Leave(c, r)
    BY DEF TaskSuspend
  <1>2. Sound(d, Calm) /\ ~InRq(d, t) /\ ~Queued(d, t) /\ Shifted(k, d, t)
    <2>1. Unsettled(k, t, Calm) /\ LedWell(k, t, Calm)
      BY <1>0, SoundUnsettled, SoundLeads
    <2>2. d = IF Queued(k, t) THEN [DQTask(k, t) EXCEPT !.rv[t] = FALSE] ELSE k
      BY DEF Detach
    <2> HIDE DEF d
    <2> QED BY <1>0, <2>1, <2>2, DetachedSound
  <1> HIDE DEF d
  <1>3. /\ Good(e, Tasks) /\ \A u \in Tasks : InRq(e, u) <=> InRq(d, u)
        /\ e.q = d.q /\ e.pri = d.pri /\ e.prinorm = d.prinorm /\ e.onr = d.onr
        /\ e.sp = d.sp /\ e.lockctr = d.lockctr /\ e.begun = d.begun
        /\ e.sched = IF t = ct THEN "SUSP" ELSE d.sched
    <2>1. Good(d, Tasks) /\ d \in KernelType
      BY <1>2 DEF Sound, Good, Linked
    <2>2. CASE t = ct
      <3>1. e = [d EXCEPT !.sched = "SUSP"]
        BY <2>2
      <3> HIDE DEF e
      <3>2. /\ e \in KernelType /\ e.q = d.q /\ e.rqtop = d.rqtop /\ e.state = d.state
            /\ e.pri = d.pri /\ e.timeout = d.timeout
            /\ e.prinorm = d.prinorm /\ e.onr = d.onr
            /\ e.sp = d.sp /\ e.lockctr = d.lockctr /\ e.begun = d.begun
            /\ e.sched = "SUSP"
        BY <2>1, <3>1 DEF KernelType
      <3>3. Good(e, Tasks) /\ \A u \in Tasks : InRq(e, u) <=> InRq(d, u)
        BY <1>0, <1>2, <2>1, <3>2, Changed
      <3> QED BY <2>2, <3>2, <3>3
    <2>3. CASE t # ct
      BY <2>1, <2>3
    <2> QED BY <2>2, <2>3
  <1> HIDE DEF e
  <1>4. /\ Good(r, Tasks) /\ \A u \in Tasks : InRq(r, u) <=> InRq(e, u)
        /\ Same(e, r)
        /\ r.sp = e.sp /\ r.sched = e.sched /\ r.lockctr = e.lockctr /\ r.begun = e.begun
    BY <1>0, <1>2, <1>3, Marked
  <1> HIDE DEF r
  <1>5. Sound(r, Calm) /\ r.onr = k.onr
    BY <1>2, <1>3, <1>4, SoundBeside DEF Same, Shifted
  <1>6. Valid(r) /\ Held(r)
    <2>1. Others(k, r, t) /\ r.lockctr <= LockLimit
      BY <1>0, <1>2, <1>3, <1>4 DEF Others, Shifted, KernelInv, Valid
    <2>2. r.begun = k.begun /\ r.sp = k.sp
      BY <1>2, <1>3, <1>4 DEF Shifted
    <2>3. r.sched = "STOP" => ct \notin r.begun
      BY <1>0, <1>2, <1>3, <1>4, <2>2 DEF Shifted, KernelInv, Held
    <2>4. r.sched \in {"NOP", "CTTEST"} => t # ct
      BY <1>3, <1>4
    <2>5. t # ct => r.sched = k.sched \/ (k.sched = "NOP" /\ r.sched = "CTTEST")
      BY <1>2, <1>3, <1>4 DEF Shifted
    <2> QED BY <1>0, <1>4, <2>1, <2>2, <2>3, <2>4, <2>5, Moved
  <1> QED BY <1>1, <1>5, <1>6 DEF Stays

\* An owner that is given no less than it had still has enough.
LEMMA Raised ==
  ASSUME NEW r, NEW Q, Sound(r, Q), NEW t \in Tasks, NEW p \in Levels, NEW p2 \in Levels,
         p >= p2, ~Owns(r, t) => p = p2, Owns(r, t) => p >= r.pri[t],
         NEW d, d = WithPri(r, t, p, p2)
  PROVE  Unsettled(d, t, Q)
  <1> DEFINE W == {}
  <1>0. Linked(r) /\ r \in KernelType
    BY DEF Sound, Good, Linked
  <1>1. /\ Good(r, Tasks) /\ Sorted(r) /\ Tidy(r) /\ Served(r, Q, W)
        /\ \A y \in W : r.onr[y] = t \/ Contains(r.q[y], t)
    BY DEF Sound
  <1>2. \A y \in Q : r.onr[y] = t =>
          p >= Ceil[y] /\ (y \in Inherit /\ r.q[y] # <<>> => p >= r.pri[Head(r.q[y])])
    <2> SUFFICES ASSUME NEW y \in Q, r.onr[y] = t
                 PROVE  /\ p >= Ceil[y]
                        /\ (y \in Inherit /\ r.q[y] # <<>> => p >= r.pri[Head(r.q[y])])
      OBVIOUS
    <2>1. y \in Mutexes /\ CeilMet(r, y) /\ HeadMet(r, y) /\ Owns(r, t)
      BY <1>1 DEF Served, Sole, Owns
    <2>2. p \in Int /\ r.pri[t] \in Int /\ Ceil[y] \in Int
      BY <1>0, <2>1, MutexQueue, Priorities
    <2>3. r.q[y] # <<>> => r.pri[Head(r.q[y])] \in Int
      BY <1>0, <2>1, MutexQueue, Priorities
    <2> QED BY <2>1, <2>2, <2>3 DEF CeilMet, HeadMet
  <1> HIDE DEF W
  <1>3. Unsettled(d, t, Q) /\ WaitsFor(d, t) = WaitsFor(r, t)
    BY <1>1, <1>2, Unsettles
  <1> QED BY <1>3

\* It may wait, or own what others wait for.
LEMMA LedByHigher ==
  ASSUME NEW r, NEW Q, Sound(r, Q), NEW t \in Tasks, NEW p \in Levels, p >= r.pri[t],
         NEW p2, NEW d, PriSet(r, d, t, p, p2)
  PROVE  LedWell(d, t, Q)
  <1>0. Linked(r) /\ r \in KernelType
    BY DEF Sound, Good, Linked
  <1> SUFFICES ASSUME NEW y \in Q, Contains(d.q[y], t), Head(d.q[y]) # t
               PROVE  HeadMet(d, y)
    BY DEF LedWell
  <1>1. y \in Mutexes /\ HeadMet(r, y) /\ r.onr[y] \in Tasks
    BY DEF Sound, Served, Sole
  <1>2. d.q = r.q /\ d.onr = r.onr /\ d.pri[t] = p /\ \A u \in Tasks \ {t} : d.pri[u] = r.pri[u]
    BY DEF PriSet
  <1>3. r.q[y] # <<>> => Head(r.q[y]) \in Tasks
    BY <1>0, <1>1, MutexQueue
  <1>4. /\ p \in Int /\ \A u \in Tasks : r.pri[u] \in Int
    BY <1>0, Priorities
  <1> QED BY <1>1, <1>2, <1>3, <1>4 DEF HeadMet

LEMMA TimeoutStays ==
  ASSUME MutexInv, NEW t \in Targets, TaskTimeout(t)
  PROVE  \E r : Stays("lsr", r)
  <1> DEFINE p == k.pritmo[t]
             k1 == IF k.pritmo[t] > k.pri[t]
                     THEN [k EXCEPT !.pri[t] = k.pritmo[t], !.prinorm[t] = k.pritmo[t]]
                     ELSE k
             k2 == IF Queued(k, t) THEN [DQTask(k1, t) EXCEPT !.rv[t] = FALSE] ELSE k1
             r  == Resume(k2, t)
  <1>0. t \in Tasks /\ KernelInv /\ Sound(k, Calm) /\ k \in KernelType
    BY DEF Targets, MutexInv, Sound, Good, Linked
  <1>1. Leave("lsr", r)
    BY Zenon DEF TaskTimeout
  <1>2. Unsettled(k1, t, Calm) /\ Shifted(k, k1, t) /\ k1.q = k.q /\ LedWell(k1, t, Calm)
    <2>1. CASE k.pritmo[t] > k.pri[t]
      <3>1. k1 = WithPri(k, t, p, p)
        BY <2>1 DEF WithPri
      <3>2. p \in Levels /\ p >= p /\ p >= k.pri[t]
        <4>1. p \in Levels /\ p \in Int /\ k.pri[t] \in Int
          BY <1>0, Priorities DEF KernelType
        <4> QED BY <2>1, <4>1
      <3> HIDE DEF p, k1
      <3>3. Unsettled(k1, t, Calm)
        BY <1>0, <3>1, <3>2, Raised
      <3>4. PriSet(k, k1, t, p, p)
        BY <1>0, <3>1, <3>2, PrioritySet DEF Sound
      <3>5. LedWell(k1, t, Calm)
        BY <1>0, <3>2, <3>4, LedByHigher
      <3> QED BY <3>3, <3>4, <3>5 DEF PriSet, Shifted, Others
    <2>2. CASE ~(k.pritmo[t] > k.pri[t])
      <3>1. k1 = k
        BY <2>2
      <3> HIDE DEF k1
      <3> QED BY <1>0, <3>1, SoundUnsettled, SoundLeads DEF Shifted, Others
    <2> QED BY <2>1, <2>2
  <1> HIDE DEF k1
  <1>3. Sound(k2, Calm) /\ ~InRq(k2, t) /\ ~Queued(k2, t) /\ Shifted(k1, k2, t)
    <2>1. Queued(k1, t) <=> Queued(k, t)
      BY <1>2, SameQueues
    <2>2. k2 = IF Queued(k1, t) THEN [DQTask(k1, t) EXCEPT !.rv[t] = FALSE] ELSE k1
      BY <2>1
    <2> HIDE DEF k2
    <2> QED BY <1>0, <1>2, <2>2, DetachedSound
  <1> HIDE DEF k2
  <1>4. Sound(r, Calm) /\ InRq(r, t) /\ Shifted(k2, r, t)
    BY <1>0, <1>3, ResumedSound
  <1> HIDE DEF r
  <1>5. Shifted(k, r, t)
    BY <1>2, <1>3, <1>4, ShiftedCompose
  <1>6. Valid(r) /\ Held(r)
    BY <1>0, <1>4, <1>5, ShiftedStays
  <1> QED BY <1>1, <1>4, <1>5, <1>6 DEF Stays, Shifted

\* Data in which the tasks are ready that were, and perhaps more.
Grown(r, d) ==
    /\ \A u \in Tasks : InRq(r, u) => InRq(d, u)
    /\ d.sp = r.sp /\ d.lockctr = r.lockctr /\ d.begun = r.begun
    /\ d.sched = r.sched \/ (r.sched = "NOP" /\ d.sched = "CTTEST")

LEMMA GrownStays ==
  ASSUME NEW r, Valid(r), Held(r), ct \in Tasks, NEW d, Good(d, Tasks), Grown(r, d)
  PROVE  Valid(d) /\ Held(d)
  <1>1. InRq(d, Idle)
    BY QueuesAssumption DEF Grown, Valid
  <1> QED BY <1>1 DEF Grown, Valid, Held

LEMMA BumpStays ==
  ASSUME MutexInv, NEW c \in Callers, NEW t \in Targets, NEW p \in Levels, TaskBump(c, t, p)
  PROVE  \E r : Stays(c, r)
  <1> DEFINE owns == \E m \in Mutexes : k.onr[m] = t
             p1 == IF p > k.pri[t] \/ ~owns THEN p ELSE k.pri[t]
             k1 == IF p = NoChange THEN k
                   ELSE [k EXCEPT !.prinorm[t] = p,
                                  !.pri[t] = IF p > @ \/ ~owns THEN p ELSE @]
             r  == IF Queued(k, t) THEN ReQTask(k1, t) ELSE k1
  <1>0. t \in Tasks /\ ct \in Tasks /\ KernelInv /\ Sound(k, Calm) /\ k \in KernelType
    BY DEF Targets, MutexInv, KernelInv, Sound, Good, Linked
  <1>1. Leave(c, r)
    BY Zenon DEF TaskBump
  <1>2. owns <=> Owns(k, t)
    BY DEF Owns
  <1>3. k1 = WithPri(k, t, p1, p)
    <2>1. p # NoChange
      BY QueuesAssumption DEF NoChange, Levels
    <2> QED BY <1>0, <2>1 DEF WithPri, KernelType
  <1>4. /\ p1 \in Levels /\ p1 >= p /\ (~Owns(k, t) => p1 = p)
        /\ (Owns(k, t) => p1 >= k.pri[t])
    <2>1. k.pri[t] \in Levels /\ k.pri[t] \in Int /\ p \in Int
      BY <1>0, Priorities
    <2> HIDE DEF owns
    <2> QED BY <1>2, <2>1
  <1> HIDE DEF owns, p1, k1
  <1>5. Unsettled(k1, t, Calm)
    BY <1>0, <1>3, <1>4, Raised
  <1>6. PriSet(k, k1, t, p1, p)
    BY <1>0, <1>3, <1>4, PrioritySet DEF Sound
  <1>7. Sound(r, Calm) /\ Handed(k1, r, Mutexes) /\ r.pri[t] = k1.pri[t]
    <2>1. Queued(k1, t) <=> Queued(k, t)
      BY <1>6, SameQueues DEF PriSet
    <2>2. r = IF Queued(k1, t) THEN ReQTask(k1, t) ELSE k1
      BY <2>1
    <2> HIDE DEF r
    <2> QED BY <1>0, <1>5, <2>2, SettledIfQueued
  <1> HIDE DEF r
  <1>8. Good(r, Tasks) /\ Grown(k, r) /\ r.onr = k.onr
    BY <1>6, <1>7 DEF Sound, PriSet, Handed, Kept, Grown
  <1>9. Valid(r) /\ Held(r)
    BY <1>0, <1>8, GrownStays DEF KernelInv
  <1> QED BY <1>1, <1>7, <1>8, <1>9 DEF Stays

\* Nothing changes about the owners.
LEMMA SameOwners ==
  ASSUME Lists, Nests, k'.onr = k.onr, mol' = mol, nested' = nested, ncnt' = ncnt
  PROVE  Lists' /\ Nests' /\ Calm' = Calm
  BY DEF Lists, Nests, Calm

LEMMA StaysStep ==
  ASSUME MutexInv, NEW c \in Callers, MayCall(c), NEW r, Stays(c, r),
         mol' = mol, nested' = nested, ncnt' = ncnt
  PROVE  MutexInv'
  <1>1. k' = r /\ KernelInv'
    BY Left DEF MutexInv, Stays, Leave
  <1>2. Lists' /\ Nests' /\ Calm' = Calm
    BY <1>1, SameOwners DEF MutexInv, Stays
  <1>3. Sound(k, Calm)'
    BY <1>1, <1>2 DEF Stays
  <1> QED BY <1>1, <1>2, <1>3 DEF MutexInv

LEMMA OtherStep ==
  ASSUME MutexInv, OtherSSR
  PROVE  MutexInv'
  <1>0. mol' = mol /\ nested' = nested /\ ncnt' = ncnt
    BY DEF OtherSSR
  <1>1. CASE Scheduler
    <2>1. KernelInv'
      BY <1>1, SchedulerStep DEF MutexInv
    <2>2. k \in KernelType
      BY DEF MutexInv, KernelInv, Valid, Good, Linked
    <2>3. k'.q = k.q /\ k'.pri = k.pri /\ k'.prinorm = k.prinorm /\ k'.onr = k.onr
      BY <1>1, <2>2, SchedulerFrame
    <2>4. Lists' /\ Nests' /\ Calm' = Calm
      BY <1>0, <2>3, SameOwners DEF MutexInv
    <2> DEFINE d == k'
    <2>5. Good(d, Tasks)
      BY <2>1 DEF KernelInv, Valid
    <2>6. /\ Sound(k, Calm)
          /\ d.pri = k.pri /\ d.prinorm = k.prinorm /\ d.onr = k.onr
          /\ \A o \in Objs : d.q[o] = k.q[o]
      BY <2>3 DEF MutexInv
    <2> HIDE DEF d
    <2>7. Sound(d, Calm)
      BY <2>5, <2>6, SoundBeside
    <2>8. Sound(k, Calm)'
      BY <2>4, <2>7 DEF d
    <2> QED BY <2>1, <2>4, <2>8 DEF MutexInv
  <1>2. CASE Timeout
    <2>1. PICK t \in Targets : TaskTimeout(t)
      BY <1>2 DEF Timeout
    <2>2. MayCall("lsr") /\ "lsr" \in Callers
      BY <2>1 DEF TaskTimeout, Callers
    <2>3. \E r : Stays("lsr", r)
      BY <2>1, TimeoutStays
    <2> QED BY <1>0, <2>2, <2>3, StaysStep
  <1>3. ASSUME NEW c \in Callers, NEW t \in Targets, TaskResume(c, t)
        PROVE  MutexInv'
    <2>1. MayCall(c) /\ \E r : Stays(c, r)
      BY <1>3, ResumeStays DEF TaskResume
    <2> QED BY <1>0, <2>1, StaysStep
  <1>4. ASSUME NEW c \in Callers, NEW t \in Targets, TaskSuspend(c, t, "SET")
        PROVE  MutexInv'
    <2>1. MayCall(c) /\ \E r : Stays(c, r)
      BY <1>4, SuspendStays DEF TaskSuspend
    <2> QED BY <1>0, <2>1, StaysStep
  <1>5. ASSUME NEW c \in Callers, NEW t \in Targets, NEW p \in Levels, TaskBump(c, t, p)
        PROVE  MutexInv'
    <2>1. MayCall(c) /\ \E r : Stays(c, r)
      BY <1>5, BumpStays DEF TaskBump
    <2> QED BY <1>0, <2>1, StaysStep
  <1>6. \A b \in Bumps : b[1] \in Targets /\ b[2] \in Levels
    BY MutexAssumption
  <1>7. CASE \E c \in Callers, b \in Bumps : TaskBump(c, b[1], b[2])
    BY <1>5, <1>6, <1>7
  <1> QED BY <1>1, <1>2, <1>3, <1>4, <1>7 DEF OtherSSR

-----------------------------------------------------------------------------
(* The mutex-owned lists. *)

LEMMA ConsContains ==
  ASSUME NEW S, NEW s \in Seq(S), Injective(s), NEW t \in S, ~Contains(s, t)
  PROVE  /\ <<t>> \o s \in Seq(S) /\ Injective(<<t>> \o s)
         /\ \A u : Contains(<<t>> \o s, u) <=> Contains(s, u) \/ u = t
  <1> DEFINE w == <<t>> \o s
  <1>0. /\ w \in Seq(S) /\ Len(s) \in Nat /\ Len(w) = Len(s) + 1
        /\ w[1] = t /\ \A i \in 1..Len(s) : w[i + 1] = s[i]
    <2>1. <<t>> \in Seq(S) /\ Len(<<t>>) = 1 /\ <<t>>[1] = t
      OBVIOUS
    <2> QED BY <2>1, LenProperties, ConcatProperties
  <1> HIDE DEF w
  <1>1. \A i \in 2..Len(w) : i - 1 \in 1..Len(s) /\ w[i] = s[i - 1]
    <2> SUFFICES ASSUME NEW i \in 2..Len(w) PROVE i - 1 \in 1..Len(s) /\ w[i] = s[i - 1]
      OBVIOUS
    <2>1. i - 1 \in 1..Len(s) /\ i - 1 + 1 = i
      BY <1>0
    <2> QED BY <1>0, <2>1
  <1>2. ASSUME NEW u
        PROVE  Contains(w, u) <=> Contains(s, u) \/ u = t
    <2>1. ASSUME Contains(w, u) PROVE Contains(s, u) \/ u = t
      <3>1. PICK i \in 1..Len(w) : w[i] = u
        BY <2>1 DEF Contains
      <3>2. CASE i = 1
        BY <1>0, <3>1, <3>2
      <3>3. CASE i # 1
        <4>1. i \in 2..Len(w)
          BY <1>0, <3>1, <3>3
        <4> QED BY <1>1, <3>1, <4>1 DEF Contains
      <3> QED BY <3>2, <3>3
    <2>2. ASSUME Contains(s, u) PROVE Contains(w, u)
      <3>1. PICK i \in 1..Len(s) : s[i] = u
        BY <2>2 DEF Contains
      <3>2. i + 1 \in 1..Len(w) /\ w[i + 1] = u
        BY <1>0, <3>1
      <3> QED BY <3>2 DEF Contains
    <2>3. ASSUME u = t PROVE Contains(w, u)
      <3>1. 1 \in 1..Len(w)
        BY <1>0
      <3> QED BY <1>0, <2>3, <3>1 DEF Contains
    <2> QED BY <2>1, <2>2, <2>3
  <1>3. Injective(w)
    <2> SUFFICES ASSUME NEW i \in 1..Len(w), NEW j \in 1..Len(w), w[i] = w[j]
                 PROVE  i = j
      BY DEF Injective
    <2>1. ASSUME NEW l \in 2..Len(w) PROVE w[l] # t
      BY <1>1, <2>1 DEF Contains
    <2>2. CASE i = 1 \/ j = 1
      <3>1. i \in 2..Len(w) \/ i = 1
        BY <1>0
      <3>2. j \in 2..Len(w) \/ j = 1
        BY <1>0
      <3> QED BY <1>0, <2>1, <2>2, <3>1, <3>2
    <2>3. CASE i # 1 /\ j # 1
      <3>1. i \in 2..Len(w) /\ j \in 2..Len(w)
        BY <1>0, <2>3
      <3>2. s[i - 1] = s[j - 1] /\ i - 1 \in 1..Len(s) /\ j - 1 \in 1..Len(s)
        BY <1>1, <3>1
      <3>3. i - 1 = j - 1
        BY <3>2 DEF Injective
      <3> QED BY <1>0, <3>1, <3>3
    <2> QED BY <2>2, <2>3
  <1> QED BY <1>0, <1>2, <1>3 DEF w

\* A task that is not in N owns no two mutexes, if those with longer lists are.
LEMMA SoleOwner ==
  ASSUME NEW onr, NEW list \in [Tasks -> Seq(Mutexes)], NEW N,
         \A u \in Tasks : /\ \A m \in Mutexes : Contains(list[u], m) <=> onr[m] = u
                          /\ Len(list[u]) > 1 => u \in N,
         NEW x \in Mutexes, NEW y \in Mutexes, onr[x] = onr[y], onr[x] \in Tasks \ N
  PROVE  x = y
  <1> DEFINE s == list[onr[x]]
  <1>1. s \in Seq(Mutexes) /\ Len(s) \in Nat /\ ~(Len(s) > 1)
    BY LenProperties
  <1>2. Contains(s, x) /\ Contains(s, y)
    OBVIOUS
  <1> HIDE DEF s
  <1>3. PICK i \in 1..Len(s) : s[i] = x
    BY <1>2 DEF Contains
  <1>4. PICK j \in 1..Len(s) : s[j] = y
    BY <1>2 DEF Contains
  <1>5. i = j
    BY <1>1, <1>3, <1>4
  <1> QED BY <1>3, <1>4, <1>5

\* The owner of m becomes t, a task or none.
LEMMA Passed ==
  ASSUME Lists, NEW m \in Mutexes, NEW t \in Tasks \union {NoTask}, UpdateMol(Pass(m, t)),
         k.onr \in [Mutexes -> Tasks \union {NoTask}], k'.onr = [k.onr EXCEPT ![m] = t]
  PROVE  /\ Lists' /\ Calm' \subseteq Mutexes
         /\ \A y \in Calm' \ {m} : y \in Calm /\ k.onr[y] # t
         /\ \A x \in Calm', y \in Mutexes : k'.onr[x] = k'.onr[y] => x = y
  <1> DEFINE list == Pass(m, t)
  <1>1. ASSUME NEW u \in Tasks
        PROVE  /\ list[u] \in Seq(Mutexes) /\ Injective(list[u])
               /\ \A x \in Mutexes : Contains(list[u], x) <=> k'.onr[x] = u
    <2> DEFINE w == Without(mol[u], m)
    <2>1. mol[u] \in Seq(Mutexes) /\ Injective(mol[u])
      BY DEF Lists
    <2>2. /\ w \in Seq(Mutexes) /\ Injective(w)
          /\ \A x : Contains(w, x) <=> Contains(mol[u], x) /\ x # m
      BY <2>1, WithoutProperties
    <2>3. \A x \in Mutexes : Contains(mol[u], x) <=> k.onr[x] = u
      BY DEF Lists
    <2>4. list[u] = (IF u = t THEN <<m>> ELSE <<>>) \o w
      BY DEF Pass
    <2> HIDE DEF w, list
    <2>5. CASE u = t
      <3>1. list[u] = <<m>> \o w /\ ~Contains(w, m)
        BY <2>2, <2>4, <2>5
      <3>2. /\ <<m>> \o w \in Seq(Mutexes) /\ Injective(<<m>> \o w)
            /\ \A x : Contains(<<m>> \o w, x) <=> Contains(w, x) \/ x = m
        BY <2>2, <3>1, ConsContains
      <3> QED BY <2>2, <2>3, <2>5, <3>1, <3>2
    <2>6. CASE u # t
      <3>1. list[u] = w
        BY <2>2, <2>4, <2>6, ConcatEmptySeq
      <3> QED BY <2>2, <2>3, <2>6, <3>1
    <2> QED BY <2>5, <2>6
  <1>2. /\ mol' = list
        /\ nested' = {u \in Tasks : Len(list[u]) > 1 \/ (u \in nested /\ list[u] # <<>>)}
    BY DEF UpdateMol
  <1>3. list \in [Tasks -> Seq(Mutexes)]
    BY <1>1 DEF Pass
  <1> HIDE DEF list
  <1>4. Lists'
    BY <1>1, <1>2, <1>3 DEF Lists
  <1>5. \A x \in Calm', y \in Mutexes : k'.onr[x] = k'.onr[y] => x = y
    <2> DEFINE onr2 == k'.onr
               N == nested'
    <2>1. ASSUME NEW x \in Mutexes, NEW y \in Mutexes, onr2[x] = onr2[y], onr2[x] \in Tasks \ N
          PROVE  x = y
      <3>1. \A u \in Tasks : /\ \A z \in Mutexes : Contains(list[u], z) <=> onr2[z] = u
                             /\ Len(list[u]) > 1 => u \in N
        BY <1>1, <1>2
      <3> HIDE DEF onr2, N
      <3> QED BY <1>3, <2>1, <3>1, SoleOwner
    <2> QED BY <2>1 DEF Calm
  <1>6. ASSUME NEW y \in Calm', y # m
        PROVE  y \in Calm /\ k.onr[y] # t
    <2>1. y \in Mutexes /\ k'.onr[y] \in Tasks \ nested' /\ k'.onr[y] = k.onr[y]
      BY <1>6 DEF Calm
    <2>2. list[k.onr[y]] # <<>>
      BY <1>1, <2>1, EmptyQueue
    <2>3. k.onr[y] \notin nested
      BY <1>2, <2>1, <2>2
    <2>4. k'.onr[m] = t
      OBVIOUS
    <2> QED BY <1>5, <1>6, <2>1, <2>3, <2>4 DEF Calm
  <1>7. Calm' \subseteq Mutexes
    BY DEF Calm
  <1> QED BY <1>4, <1>5, <1>6, <1>7

-----------------------------------------------------------------------------
(* The owner of m loses it. *)

\* The owner's new priority is enough for the other mutexes, and its normal one
\* if there are none.
LEMMA Disowned ==
  ASSUME MutexInv, NEW m \in Mutexes, NEW o, o = k.onr[m], o \in Tasks, NEW d, d = Disown(m)
  PROVE  /\ Sound(d, Calm \ {m}) /\ Handed(k, d, Mutexes)
         /\ (\A y \in Mutexes : k.onr[y] = o => y = m) => d.pri[o] = d.prinorm[o]
  <1> DEFINE Q == Calm \ {m}
             ms == Owned(o) \ {m}
             C == {Ceil[y] : y \in ms}
             H == {k.pri[Head(k.q[y])] : y \in {x \in ms \intersect Inherit : k.q[x] # <<>>}}
             S == {k.prinorm[o]} \union C \union H
             p == Max(S)
             e == [k EXCEPT !.pri[o] = p]
  <1>0. /\ Linked(k) /\ k \in KernelType /\ Good(k, Tasks) /\ Sorted(k) /\ Tidy(k)
        /\ Sound(k, Calm) /\ Lists
    BY DEF MutexInv, Sound, Good, Linked
  <1>1. Served(k, Q, {})
    BY <1>0 DEF Sound, Served, Sole
  <1>2. CASE k.pri[o] = k.prinorm[o]
    <2>1. d = k
      BY <1>2 DEF Disown
    <2> QED BY <1>0, <1>1, <1>2, <2>1, HandedSelf DEF Sound
  <1>3. CASE k.pri[o] # k.prinorm[o]
    <2>1. d = IF k.pri[o] # p /\ Queued(k, o) THEN ReQTask(e, o) ELSE e
      BY <1>3 DEF Disown, TaskPriAdj
    <2>2. \A y \in ms : y \in Mutexes /\ y # m /\ k.onr[y] = o
      <3>1. mol[o] \in Seq(Mutexes)
        BY <1>0 DEF Lists
      <3>2. \A y \in ms : y \in Mutexes /\ Contains(mol[o], y)
        <4> SUFFICES ASSUME NEW y \in Range(mol[o]) PROVE y \in Mutexes /\ Contains(mol[o], y)
          BY DEF Owned
        <4>1. Contains(mol[o], y)
          BY <3>1, RangeContains
        <4>2. PICK i \in 1..Len(mol[o]) : mol[o][i] = y
          BY <4>1 DEF Contains
        <4> QED BY <3>1, <4>1, <4>2, ElementOfSeq
      <3> QED BY <1>0, <3>2 DEF Lists
    <2>3. \A y \in Mutexes : y # m /\ k.onr[y] = o => y \in ms
      <3>1. mol[o] \in Seq(Mutexes)
        BY <1>0 DEF Lists
      <3>2. \A y \in Mutexes : k.onr[y] = o => Contains(mol[o], y)
        BY <1>0 DEF Lists
      <3>3. \A y \in Mutexes : k.onr[y] = o => y \in Range(mol[o])
        BY <3>1, <3>2, RangeContains
      <3> QED BY <3>3 DEF Owned
    <2> HIDE DEF ms
    <2>4. k.prinorm[o] \in Levels /\ C \subseteq Levels
      BY <1>0, <2>2, MutexQueue, Priorities
    <2>5. H \subseteq Levels
      <3> SUFFICES ASSUME NEW y \in ms, k.q[y] # <<>> PROVE k.pri[Head(k.q[y])] \in Levels
        OBVIOUS
      <3> QED BY <1>0, <2>2, MutexQueue, Priorities
    <2>6. p \in S /\ p \in Levels /\ \A y \in S : p >= y
      <3>1. S \in SUBSET (0..MaxPri) /\ S # {} /\ MaxPri \in Nat
        BY <2>4, <2>5, QueuesAssumption DEF Levels
      <3> HIDE DEF S
      <3>2. p \in S /\ \A y \in S : p >= y
        BY <3>1, MaxProperties
      <3> QED BY <3>1, <3>2 DEF Levels
    <2>7. /\ p >= k.prinorm[o]
          /\ \A y \in ms : p >= Ceil[y]
          /\ \A y \in ms : y \in Inherit /\ k.q[y] # <<>> => p >= k.pri[Head(k.q[y])]
      BY <2>6
    <2>8. ms = {} => p = k.prinorm[o]
      BY <2>6
    <2> HIDE DEF C, H, S, p
    <2>9. e = WithPri(k, o, p, k.prinorm[o])
      BY <1>0, RecordOfPri
    <2> HIDE DEF e
    <2>10. PriSet(k, e, o, p, k.prinorm[o])
      BY <1>0, <2>4, <2>6, <2>9, PrioritySet
    <2>11. Handed(k, e, Mutexes)
      <3>1. KeptBut(k, e, o)
        BY <1>0, <2>10, PriSetKept
      <3> QED BY <3>1 DEF Handed, KeptBut
    <2>12. Unsettled(e, o, Q)
      <3>1. Owns(k, o)
        BY DEF Owns
      <3>2. \A y \in Q : k.onr[y] = o =>
              p >= Ceil[y] /\ (y \in Inherit /\ k.q[y] # <<>> => p >= k.pri[Head(k.q[y])])
        BY <2>3, <2>7 DEF Calm
      <3> DEFINE W == {}
      <3>3. Served(k, Q, W) /\ \A y \in W : k.onr[y] = o \/ Contains(k.q[y], o)
        BY <1>1
      <3> HIDE DEF W, Q
      <3>4. Unsettled(e, o, Q) /\ WaitsFor(e, o) = WaitsFor(k, o)
        BY <1>0, <2>4, <2>6, <2>7, <2>9, <3>1, <3>2, <3>3, Unsettles
      <3> QED BY <3>4
    <2> HIDE DEF Q
    <2>13. Sound(d, Q) /\ Handed(k, d, Mutexes) /\ d.pri[o] = p
      <3>1. e.pri[o] = p
        BY <2>10 DEF PriSet
      <3>2. CASE k.pri[o] # p /\ Queued(k, o)
        <4>1. Sound(d, Q) /\ Handed(e, d, Mutexes) /\ d.pri[o] = e.pri[o]
          BY <2>1, <2>12, <3>2, Settled
        <4> QED BY <2>11, <3>1, <4>1, HandedCompose
      <3>3. CASE ~Queued(k, o)
        <4>1. ~Queued(e, o)
          BY <2>10, <3>3, SameQueues DEF PriSet
        <4>2. Sound(e, Q)
          BY <2>12, <4>1, UnqueuedSettled
        <4> QED BY <2>1, <2>11, <3>1, <3>3, <4>2
      <3>4. CASE k.pri[o] = p
        <4>1. e = k
          BY <1>0, <2>9, <3>4, SamePri
        <4> QED BY <1>0, <1>1, <2>1, <2>11, <3>1, <3>4, <4>1 DEF Sound
      <3> QED BY <3>2, <3>3, <3>4
    <2>14. d.prinorm[o] = k.prinorm[o]
      BY <2>13 DEF Handed, Kept
    <2>15. (\A y \in Mutexes : k.onr[y] = o => y = m) => ms = {}
      BY <2>2
    <2> QED BY <2>8, <2>13, <2>14, <2>15 DEF Q
  <1> QED BY <1>2, <1>3

-----------------------------------------------------------------------------
(* m passes from its owner, if any, to t, or to no task. *)

\* Of the mutexes of R all but m had owners that had enough.
Passing(r, d, m, t, Q, R) ==
    /\ Sound(r, Q) /\ Good(d, Tasks)
    /\ d.onr = [r.onr EXCEPT ![m] = t] /\ d.prinorm = r.prinorm
    /\ \A u \in Tasks \ {t} : d.pri[u] = r.pri[u]
    /\ \A y \in Mutexes \ {m} : d.q[y] = r.q[y]
    /\ \A u \in Tasks : Contains(d.q[m], u) => Contains(r.q[m], u)
    /\ (\A y \in Mutexes : r.onr[y] = r.onr[m] => y = m) =>
         \A u \in Tasks : u = r.onr[m] => r.pri[u] = r.prinorm[u]
    /\ R \subseteq Mutexes /\ \A x \in R : d.onr[x] \in Tasks
    /\ \A y \in R \ {m} : y \in Q /\ r.onr[y] # t
    /\ \A x \in R, y \in Mutexes : d.onr[x] = d.onr[y] => x = y

LEMMA Transferred ==
  ASSUME NEW r, NEW d, NEW m \in Mutexes, NEW t \in Tasks \union {NoTask}, NEW Q, NEW R,
         Passing(r, d, m, t, Q, R),
         Descending(d.q[m], d.pri),
         t = NoTask => d.q[m] = <<>>,
         t # NoTask => d.pri[t] >= r.pri[t] /\ \A y \in Mutexes : ~Contains(d.q[y], t),
         m \in R => CeilMet(d, m) /\ HeadMet(d, m)
  PROVE  Sound(d, R)
  <1>0. /\ Linked(r) /\ r \in KernelType /\ Linked(d) /\ d \in KernelType
        /\ Good(r, Tasks) /\ Sorted(r) /\ Tidy(r) /\ Served(r, Q, {})
    BY DEF Passing, Sound, Good, Linked
  <1>1. /\ d.onr[m] = t /\ \A y \in Mutexes \ {m} : d.onr[y] = r.onr[y]
        /\ NoTask \notin Tasks
    BY <1>0, QueuesAssumption DEF Passing, KernelType
  <1>2. \A y \in Mutexes, u \in Tasks : Contains(d.q[y], u) => Contains(r.q[y], u) /\ u # t
    BY QueuesAssumption DEF Passing
  <1>3. Sorted(d)
    <2> SUFFICES ASSUME NEW y \in Mutexes PROVE Descending(d.q[y], d.pri)
      BY DEF Sorted
    <2>1. CASE y = m
      BY <2>1
    <2>2. CASE y # m
      <3>1. d.q[y] = r.q[y] /\ r.q[y] \in Seq(Tasks) /\ Descending(r.q[y], r.pri)
        BY <1>0, <2>2, MutexQueue DEF Passing, Sorted
      <3>2. \A u \in Tasks : Contains(r.q[y], u) => d.pri[u] = r.pri[u]
        BY <1>2, <3>1 DEF Passing
      <3> QED BY <3>1, <3>2, DescendingAgrees
    <2> QED BY <2>1, <2>2
  <1>4. Tidy(d)
    <2>1. ASSUME NEW y \in Mutexes, NEW u \in Tasks, Contains(d.q[y], u)
          PROVE  /\ d.onr[y] \in Tasks
                 /\ \A x \in Mutexes : d.onr[x] = u => Rank[x] < Rank[y]
      <3>1. Contains(r.q[y], u) /\ u # t
        BY <1>2, <2>1
      <3>2. d.onr[y] \in Tasks
        <4>1. CASE y = m
          BY <1>1, <2>1, <4>1, EmptyQueue
        <4>2. CASE y # m
          BY <1>0, <1>1, <3>1, <4>2 DEF Tidy
        <4> QED BY <4>1, <4>2
      <3>3. ASSUME NEW x \in Mutexes, d.onr[x] = u PROVE Rank[x] < Rank[y]
        <4>1. x # m
          BY <1>1, <3>1, <3>3
        <4> QED BY <1>0, <1>1, <3>1, <3>3, <4>1 DEF Tidy
      <3> QED BY <3>2, <3>3
    <2>2. ASSUME NEW u \in Tasks
          PROVE  d.pri[u] >= d.prinorm[u]
      <3>1. d.pri[u] \in Int /\ r.pri[u] \in Int /\ r.prinorm[u] \in Int
        BY <1>0, Priorities
      <3>2. r.pri[u] >= r.prinorm[u] /\ d.prinorm[u] = r.prinorm[u]
        BY <1>0 DEF Tidy, Passing
      <3>3. d.pri[u] >= r.pri[u]
        BY <1>1, <3>1 DEF Passing
      <3> QED BY <3>1, <3>2, <3>3
    <2>3. ASSUME NEW u \in Tasks, ~Owns(d, u)
          PROVE  d.pri[u] = d.prinorm[u]
      <3>1. u # t /\ d.pri[u] = r.pri[u] /\ d.prinorm[u] = r.prinorm[u]
        BY <1>1, <2>3 DEF Owns, Passing
      <3>2. CASE ~Owns(r, u)
        BY <1>0, <3>1, <3>2 DEF Tidy
      <3>3. CASE Owns(r, u)
        <4>1. \A y \in Mutexes : r.onr[y] = u => y = m
          BY <1>1, <2>3 DEF Owns
        <4>2. r.onr[m] = u
          BY <3>3, <4>1 DEF Owns
        <4> QED BY <3>1, <4>1, <4>2 DEF Passing
      <3> QED BY <3>2, <3>3
    <2> QED BY <2>1, <2>2, <2>3 DEF Tidy
  <1>5. ASSUME NEW y \in R
        PROVE  CeilMet(d, y) /\ HeadMet(d, y)
    <2>1. CASE y = m
      BY <2>1
    <2>2. CASE y # m
      <3>1. /\ y \in Q /\ y \in Mutexes /\ r.onr[y] \in Tasks /\ r.onr[y] # t
            /\ d.onr[y] = r.onr[y] /\ d.q[y] = r.q[y]
        BY <1>0, <1>1, <2>2 DEF Passing, Served, Sole
      <3>2. CeilMet(r, y) /\ HeadMet(r, y)
        BY <1>0, <3>1 DEF Served
      <3>3. r.q[y] # <<>> => Head(r.q[y]) \in Tasks /\ Head(r.q[y]) # t
        BY <1>0, <1>2, <3>1, MutexQueue
      <3> QED BY <3>1, <3>2, <3>3 DEF Passing, CeilMet, HeadMet
    <2> QED BY <2>1, <2>2
  <1>6. Served(d, R, {})
    BY <1>5 DEF Passing, Served, Sole
  <1> QED BY <1>3, <1>4, <1>6 DEF Sound, Passing

-----------------------------------------------------------------------------
(* smx_MutexGet() of a mutex that has no owner. *)

\* Promote() with a higher ceiling c: what smx_DQRQTask() and smx_NQRQTask()
\* would do, but that t is still running.
Promotion(r, t, c) == [Unlink(r, t) EXCEPT !.pri[t]  = c,
                                           !.q[c]    = Append(@, t),
                                           !.rqtop   = Max({@, c})]

\* What it leaves alone.
Lifted(r, d, t) ==
    /\ Good(d, Tasks) /\ \A u \in Tasks : InRq(d, u) <=> InRq(r, u)
    /\ \A o \in Objs : d.q[o] = r.q[o]
    /\ \A u \in Tasks \ {t} : d.pri[u] = r.pri[u]
    /\ d.prinorm = r.prinorm /\ d.onr = r.onr
    /\ d.sp = r.sp /\ d.sched = r.sched /\ d.lockctr = r.lockctr /\ d.begun = r.begun

LEMMA Promotes ==
  ASSUME NEW r, Good(r, Tasks), NEW t \in Tasks, InRq(r, t), NEW c \in Levels, c > r.pri[t],
         NEW d, d = Promotion(r, t, c)
  PROVE  Lifted(r, d, t) /\ d.pri[t] = c
  <1> DEFINE U == [x \in DOMAIN r.q |-> Without(r.q[x], t)]
             q2 == [U EXCEPT ![c] = Append(@, t)]
             top2 == Max({r.rqtop, c})
             e == DQRQTask(r, t)
             f == WithPri(e, t, c, e.prinorm[t])
             g == NQRQTask(f, t)
  <1>0. /\ Linked(r) /\ r \in KernelType /\ r.rqtop \in Levels /\ r.pri[t] \in Levels
        /\ MaxPri \in Nat /\ DOMAIN r.q = Places
    BY QueuesAssumption DEF Good, Linked, KernelType, Places
  <1>1. /\ Good(e, Tasks) /\ SameFields(r, e) /\ e.rv = r.rv
        /\ ~InRq(e, t) /\ ~Queued(e, t) /\ Others(r, e, t) /\ Aside(r, e, t)
        /\ r.q[r.rqtop] # <<>> /\ Top(r) # t => Top(e) = Top(r)
    <2>1. Good(r, Tasks \ {t})
      BY DEF Good
    <2> QED BY <2>1, Taken
  <1>2. /\ e.q = U
        /\ e.rqtop = IF r.q[r.rqtop] = <<t>>
                       THEN Max({p \in 0..r.rqtop : U[p] # <<>>} \union {0}) ELSE r.rqtop
    BY <1>0 DEF DQRQTask, Unlink, Lower, KernelType
  <1>3. e \in KernelType /\ e.prinorm[t] \in Levels
    <2>1. e \in KernelType
      BY <1>1 DEF Good, Linked
    <2> QED BY <2>1, Priorities
  <1> HIDE DEF e
  <1>4. PriSet(e, f, t, c, e.prinorm[t])
    BY <1>1, <1>3, PrioritySet
  <1>5. f.rqtop = e.rqtop
    BY <1>3 DEF WithPri, KernelType
  <1> HIDE DEF f
  <1>6. Good(f, Tasks) /\ ~Queued(f, t) /\ f.timeout[t] = "INF"
    <2>1. ~InRq(f, t) /\ ~Queued(f, t)
      BY <1>1, <1>4, SameQueues DEF PriSet
    <2>2. Good(f, Tasks)
      BY <1>4, <2>1 DEF PriSet, Good, Placed
    <2>3. r.timeout[t] = "INF"
      BY DEF Good, Placed
    <2> QED BY <1>1, <1>4, <2>1, <2>2, <2>3 DEF PriSet, SameFields
  <1>7. /\ Good(g, Tasks \ {t}) /\ SameFields(f, g) /\ g.rv = f.rv
        /\ InRq(g, t) /\ Contains(g.q[g.pri[t]], t) /\ Others(f, g, t) /\ Beside(f, g, t)
        /\ f.timeout[t] = "INF" => Good(g, Tasks)
    BY <1>6, Readied
  <1>8. g.q = q2 /\ g.rqtop = IF c > f.rqtop THEN c ELSE f.rqtop
    BY <1>2, <1>4 DEF PriSet, NQRQTask, KernelType
  <1> HIDE DEF g
  <1>9. g.rqtop = top2 /\ top2 \in Levels
    <2>1. top2 \in {r.rqtop, c} /\ top2 >= r.rqtop /\ top2 >= c
      <3> DEFINE S == {r.rqtop, c}
      <3>1. S \in SUBSET (0..MaxPri) /\ S # {}
        BY <1>0 DEF Levels
      <3> HIDE DEF S
      <3>2. Max(S) \in S /\ \A y \in S : Max(S) >= y
        BY <1>0, <3>1, MaxProperties
      <3> QED BY <3>2 DEF S
    <2> HIDE DEF top2
    <2>2. c \in Int /\ r.rqtop \in Int /\ r.pri[t] \in Int
      BY <1>0 DEF Levels
    <2>3. CASE r.q[r.rqtop] = <<t>>
      <3>1. Contains(r.q[r.rqtop], t)
        <4>1. Len(<<t>>) = 1 /\ <<t>>[1] = t
          OBVIOUS
        <4> QED BY <2>3, <4>1 DEF Contains
      <3>2. r.rqtop = r.pri[t]
        BY <1>0, <3>1 DEF Good, Placed, Linked, Places
      <3> DEFINE low == Max({p \in 0..r.rqtop : U[p] # <<>>} \union {0})
      <3>3. r.rqtop \in Levels /\ low = Max({p \in 0..r.rqtop : U[p] # <<>>} \union {0})
        BY <1>0
      <3> HIDE DEF low, U
      <3>5. /\ low \in 0..r.rqtop
            /\ low # 0 => U[low] # <<>>
            /\ \A p \in 0..r.rqtop : p > low => U[p] = <<>>
        BY <3>3, TopLevel
      <3>4. f.rqtop = low
        BY <1>2, <1>5, <2>3 DEF low
      <3> QED BY <1>0, <1>8, <2>1, <2>2, <3>2, <3>4, <3>5
    <2>4. CASE r.q[r.rqtop] # <<t>>
      <3>1. f.rqtop = r.rqtop
        BY <1>2, <1>5, <2>4
      <3> QED BY <1>0, <1>8, <2>1, <2>2, <3>1
    <2> QED BY <2>3, <2>4
  <1>10. g \in KernelType /\ q2 \in [Levels \union Objs -> Seq(Tasks)]
    <2>1. g \in KernelType
      BY <1>7 DEF Good, Linked
    <2> QED BY <1>8, <2>1 DEF KernelType
  <1> HIDE DEF top2
  <1>11. /\ d \in KernelType /\ d.q = q2 /\ d.rqtop = top2 /\ d.state = r.state
         /\ d.pri = [r.pri EXCEPT ![t] = c]
         /\ d.prinorm = r.prinorm /\ d.timeout = r.timeout /\ d.onr = r.onr
         /\ d.sp = r.sp /\ d.sched = r.sched /\ d.lockctr = r.lockctr /\ d.begun = r.begun
    <2> DEFINE pri2 == [r.pri EXCEPT ![t] = c]
    <2>1. pri2 \in [Tasks -> Levels]
      BY <1>0 DEF KernelType
    <2>2. d = [r EXCEPT !.q = q2, !.rqtop = top2, !.pri = pri2]
      BY <1>0 DEF Promotion, Unlink, top2, KernelType
    <2> HIDE DEF pri2, q2
    <2> QED BY <1>0, <1>9, <1>10, <2>1, <2>2 DEF KernelType, pri2
  <1> HIDE DEF q2, U
  <1>12. d.pri = g.pri /\ d.timeout = g.timeout
    <2>1. g.pri \in [Tasks -> Levels]
      BY <1>10 DEF KernelType
    <2>2. \A u \in Tasks : g.pri[u] = IF u = t THEN c ELSE r.pri[u]
      BY <1>1, <1>4, <1>7 DEF SameFields, PriSet
    <2>3. r.pri \in [Tasks -> Levels] /\ d.pri \in [Tasks -> Levels]
      BY <1>0, <1>11 DEF KernelType
    <2>4. \A u \in Tasks : d.pri[u] = IF u = t THEN c ELSE r.pri[u]
      BY <1>11, <2>3
    <2>5. d.pri = g.pri
      BY <2>1, <2>2, <2>3, <2>4
    <2> QED BY <1>1, <1>4, <1>7, <1>11, <2>5 DEF SameFields, PriSet
  <1>13. \A u \in Tasks : InRq(g, u) <=> InRq(r, u)
    BY <1>1, <1>4, <1>7 DEF Others, PriSet
  <1>14. \A u \in Tasks : d.state[u] # "WAIT" <=> g.state[u] # "WAIT"
    BY <1>0, <1>7, <1>11, <1>13 DEF Good, Linked
  <1>15. /\ Good(d, Tasks) /\ \A u \in Tasks : InRq(d, u) <=> InRq(g, u)
         /\ Top(d) = Top(g)
    BY <1>6, <1>7, <1>8, <1>9, <1>11, <1>12, <1>14, Restated
  <1>16. \A o \in Objs : d.q[o] = r.q[o]
    <2> SUFFICES ASSUME NEW o \in Objs PROVE d.q[o] = r.q[o]
      OBVIOUS
    <2>1. ~Contains(r.q[o], t)
      BY <1>0, ReadyQueued
    <2>2. e.q[o] = Without(r.q[o], t) /\ Without(r.q[o], t) = r.q[o]
      BY <1>1, <2>1 DEF Aside, Without
    <2>3. g.q[o] = f.q[o] /\ f.q = e.q
      BY <1>4, <1>7 DEF Beside, PriSet
    <2> QED BY <1>8, <1>11, <2>2, <2>3
  <1>17. d.pri[t] = c /\ \A u \in Tasks \ {t} : d.pri[u] = r.pri[u]
    BY <1>0, <1>11 DEF KernelType
  <1> QED BY <1>11, <1>13, <1>15, <1>16, <1>17 DEF Lifted

\* The data that smx_MutexGet() works on: the scheduler may have been unlocked.
LEMMA CallerData ==
  ASSUME MutexInv, CallerMayWait, NEW r, r \in {k, Locked(k, 0)}
  PROVE  /\ Valid(r) /\ Held(r) /\ Sound(r, Calm) /\ r.onr = k.onr /\ r.q = k.q
         /\ InRq(r, ct) /\ ct \in Targets /\ ct \in Tasks /\ r.sched = "NOP"
         /\ r.sp = k.sp /\ r.begun = k.begun /\ r.lockctr <= LockLimit /\ pc = "run"
  <1>0. /\ KernelInv /\ Sound(k, Calm) /\ ct \in Tasks /\ ct \in Targets
        /\ k.sched = "NOP" /\ pc = "run" /\ LockLimit \in Nat \ {0}
    BY KernelAssumption DEF MutexInv, KernelInv, CallerMayWait, Targets
  <1>1. CASE r = k
    BY <1>0, <1>1 DEF KernelInv, Valid
  <1>2. CASE r = Locked(k, 0)
    <2> DEFINE n == 0
    <2>1. n \in 0..LockLimit /\ r = Locked(k, n) /\ n <= LockLimit
      BY <1>0, <1>2
    <2> HIDE DEF n
    <2>2. /\ Valid(r) /\ Held(r)
          /\ Top(r) = Top(k) /\ r.sched = k.sched /\ r.lockctr = n /\ Same(k, r)
          /\ r.sp = k.sp /\ r.begun = k.begun
      BY <1>0, <2>1, Relocked
    <2>3. Sound(r, Calm)
      BY <1>0, <2>2, SoundBeside DEF Same, Valid
    <2>4. InRq(r, ct)
      BY <1>0, <2>2 DEF Valid
    <2> QED BY <1>0, <2>1, <2>2, <2>3, <2>4 DEF Same
  <1> QED BY <1>1, <1>2

\* The caller may be stopped, whatever the call did.
LEMMA StoppingSound ==
  ASSUME ct \in Tasks, NEW d, NEW Q, Sound(d, Q), Valid(d), Held(d),
         NEW stop, NEW r, r = Stopping(d, stop)
  PROVE  Valid(r) /\ Held(r) /\ Sound(r, Q) /\ r.onr = d.onr
  <1>1. CASE stop
    <2>1. r = ToStop(d)
      BY <1>1 DEF Stopping, ToStop
    <2>2. /\ Valid(r) /\ Held(r) /\ r.q = d.q /\ r.pri = d.pri /\ r.rv = d.rv
          /\ r.sched = "STOP" /\ Top(r) = Top(d)
      BY <2>1, ToldToStop
    <2>3. r.prinorm = d.prinorm /\ r.onr = d.onr
      BY <2>1 DEF ToStop, Sound, Good, Linked, KernelType
    <2>4. Sound(r, Q)
      BY <2>2, <2>3, SoundBeside DEF Valid
    <2> QED BY <2>2, <2>3, <2>4
  <1>2. CASE ~stop
    BY <1>2 DEF Stopping
  <1> QED BY <1>1, <1>2

LEMMA EmptyDescending ==
  ASSUME NEW f
  PROVE  Descending(<<>>, f)
  <1>1. Len(<<>>) = 0
    OBVIOUS
  <1> QED BY <1>1 DEF Descending

\* The caller is given m, which has no owner, and its ceiling.
LEMMA Granted ==
  ASSUME MutexInv, CallerMayWait, NEW m \in Mutexes, k.onr[m] = NoTask,
         NEW r, r \in {k, Locked(k, 0)},
         NEW d, d = Promote([r EXCEPT !.onr[m] = ct], m),
         UpdateMol(Pass(m, ct)), NEW stop, k' = Stopping(d, stop)
  PROVE  /\ Valid(d) /\ Held(d) /\ Sound(d, Calm') /\ Lists'
         /\ d.onr = [k.onr EXCEPT ![m] = ct]
  <1> DEFINE e == [r EXCEPT !.onr[m] = ct]
             R == Calm'
             c == Ceil[m]
  <1>0. /\ Valid(r) /\ Held(r) /\ Sound(r, Calm) /\ r.onr = k.onr
        /\ InRq(r, ct) /\ ct \in Tasks
    BY CallerData
  <1>1. Good(r, Tasks) /\ Linked(r) /\ r \in KernelType /\ Tidy(r)
    BY <1>0 DEF Sound, Good, Linked
  <1>2. /\ e \in KernelType /\ e.q = r.q /\ e.rqtop = r.rqtop /\ e.state = r.state
        /\ e.pri = r.pri /\ e.timeout = r.timeout /\ e.prinorm = r.prinorm
        /\ e.onr = [r.onr EXCEPT ![m] = ct]
        /\ e.sp = r.sp /\ e.sched = r.sched /\ e.lockctr = r.lockctr /\ e.begun = r.begun
    BY <1>0, <1>1 DEF KernelType
  <1>3. d = IF e.pri[ct] >= c THEN e ELSE Promotion(e, ct, c)
    BY DEF Promote, Promotion
  <1> HIDE DEF e
  <1>4. Good(e, Tasks) /\ \A u \in Tasks : InRq(e, u) <=> InRq(r, u)
    BY <1>1, <1>2, Restated
  <1>5. c \in Levels /\ c \in Int /\ e.pri[ct] \in Int
    BY <1>0, <1>1, <1>2, MutexQueue, Priorities
  <1>6. Lifted(e, d, ct) /\ d.pri[ct] >= e.pri[ct] /\ d.pri[ct] >= c
    <2>1. CASE e.pri[ct] >= c
      <3>1. d = e
        BY <1>3, <2>1
      <3>2. Lifted(e, e, ct)
        BY <1>4 DEF Lifted
      <3>3. e.pri[ct] >= e.pri[ct]
        BY <1>5
      <3> QED BY <2>1, <3>1, <3>2, <3>3
    <2>2. CASE ~(e.pri[ct] >= c)
      <3>1. c > e.pri[ct] /\ d = Promotion(e, ct, c)
        BY <1>3, <1>5, <2>2
      <3> HIDE DEF c
      <3>2. Lifted(e, d, ct) /\ d.pri[ct] = c
        BY <1>0, <1>4, <1>5, <3>1, Promotes
      <3> QED BY <1>5, <3>1, <3>2
    <2> QED BY <2>1, <2>2
  <1>7. /\ Good(d, Tasks) /\ d.onr = [r.onr EXCEPT ![m] = ct] /\ d.prinorm = r.prinorm
        /\ \A u \in Tasks \ {ct} : d.pri[u] = r.pri[u]
        /\ \A o \in Objs : d.q[o] = r.q[o]
        /\ Grown(r, d)
    BY <1>2, <1>4, <1>6 DEF Lifted, Grown
  <1>7a. k'.onr = d.onr /\ d.onr = [k.onr EXCEPT ![m] = ct]
    <2>1. d \in KernelType
      BY <1>7 DEF Good, Linked
    <2>2. k'.onr = d.onr
      BY <2>1 DEF Stopping, KernelType
    <2> QED BY <1>0, <1>7, <2>2
  <1>8. d.q[m] = <<>>
    <2>1. r.q[m] = <<>>
      BY <1>0, <1>1, MutexQueue, QueuesAssumption DEF Tidy
    <2> QED BY <1>7, <2>1 DEF Objs
  <1>9. /\ Lists' /\ R \subseteq Mutexes
        /\ \A y \in R \ {m} : y \in Calm /\ k.onr[y] # ct
        /\ \A x \in R, y \in Mutexes : k'.onr[x] = k'.onr[y] => x = y
    <2>1. Lists /\ ct \in Tasks \union {NoTask} /\ k.onr \in [Mutexes -> Tasks \union {NoTask}]
      BY <1>0, <1>1 DEF MutexInv, KernelType
    <2> HIDE DEF R
    <2>2. R = Calm'
      BY DEF R
    <2> QED BY <1>7a, <2>1, <2>2, Passed
  <1>10. \A x \in R : d.onr[x] \in Tasks
    BY <1>7a DEF Calm
  <1> HIDE DEF R
  <1>11. Passing(r, d, m, ct, Calm, R)
    <2>1. \A y \in Mutexes \ {m} : d.q[y] = r.q[y]
      BY <1>7 DEF Objs
    <2>2. \A u \in Tasks : ~Contains(d.q[m], u) /\ u # r.onr[m]
      BY <1>0, <1>8, EmptyQueue, QueuesAssumption
    <2>3. \A x \in R, y \in Mutexes : d.onr[x] = d.onr[y] => x = y
      BY <1>7a, <1>9
    <2>4. \A y \in R \ {m} : y \in Calm /\ r.onr[y] # ct
      BY <1>0, <1>9
    <2> QED BY <1>0, <1>7, <1>9, <1>10, <2>1, <2>2, <2>3, <2>4 DEF Passing
  <1>12. Sound(d, R)
    <2>1. ct # NoTask /\ \A y \in Mutexes : ~Contains(d.q[y], ct)
      <3>1. \A o \in Objs : ~Contains(r.q[o], ct)
        BY <1>0, <1>1, ReadyQueued
      <3> QED BY <1>0, <1>7, <3>1, QueuesAssumption DEF Objs
    <2>2. d.pri[ct] >= r.pri[ct]
      BY <1>2, <1>6
    <2>3. CeilMet(d, m) /\ HeadMet(d, m)
      <3>1. d.onr[m] = ct
        BY <1>1, <1>7 DEF KernelType
      <3> QED BY <1>6, <1>8, <3>1 DEF CeilMet, HeadMet
    <2>4. Descending(d.q[m], d.pri)
      BY <1>8, EmptyDescending
    <2> QED BY <1>0, <1>11, <2>1, <2>2, <2>3, <2>4, Transferred
  <1>13. Valid(d) /\ Held(d)
    BY <1>0, <1>7, GrownStays
  <1> QED BY <1>0, <1>7, <1>9, <1>12, <1>13 DEF R

\* ct leaves the ready queue for that of m, whose owner has come to have less
\* than the first waiting task.
Enlisted(r, m) == WithQueue(DQRQTask(r, ct), m, ByPriority(DQRQTask(r, ct), DQRQTask(r, ct).q[m], ct))

LEMMA Enlists ==
  ASSUME NEW r, NEW Q, Sound(r, Q), ct \in Tasks, InRq(r, ct),
         NEW m \in Mutexes, r.onr[m] \in Tasks,
         \A x \in Mutexes : r.onr[x] = ct => Rank[x] < Rank[m],
         NEW b, b = Enlisted(r, m)
  PROVE  /\ Good(b, Tasks) /\ Sorted(b) /\ Tidy(b) /\ Served(b, Q, {m}) /\ b.q[m] # <<>>
         /\ Shifted(r, b, ct) /\ ~InRq(b, ct) /\ b.sched = r.sched
  <1> DEFINE a == DQRQTask(r, ct)
             w == ByPriority(a, a.q[m], ct)
  <1>1. /\ Good(a, Tasks) /\ Sorted(a) /\ Tidy(a) /\ Served(a, Q, WaitsFor(r, ct))
        /\ Gone(r, a, ct) /\ a.pri = r.pri /\ a.sched = r.sched
    <2>1. Unsettled(r, ct, Q)
      BY SoundUnsettled
    <2>2. Linked(r)
      BY DEF Sound, Good
    <2>3. a.sched = r.sched
      BY <2>2, Dequeued DEF SameFields
    <2> HIDE DEF a
    <2>4. a = DQRQTask(r, ct)
      BY DEF a
    <2>5. /\ Good(a, Tasks) /\ Sorted(a) /\ Tidy(a) /\ Served(a, Q, FirstAt(r, ct))
          /\ Gone(r, a, ct) /\ a.pri = r.pri
      BY <2>1, <2>4, SoundLeads, Withdrawn
    <2>6. FirstAt(r, ct) \subseteq WaitsFor(r, ct)
      BY <2>2, WaitsForBeyond DEF FirstAt, Linked
    <2> QED BY <2>3, <2>5, <2>6 DEF Served
  <1>2. b = WithQueue(a, m, w)
    BY DEF Enlisted
  <1> HIDE DEF a
  <1>3. Linked(a) /\ a \in KernelType /\ ~Queued(a, ct) /\ a.onr = r.onr /\ ~InRq(a, ct)
    BY <1>1 DEF Good, Linked, Gone
  <1>4. /\ m \in Objs /\ m \in Places /\ a.q[m] \in Seq(Tasks) /\ Injective(a.q[m])
    BY <1>3, MutexQueue
  <1>5. ~Contains(a.q[m], ct)
    BY <1>3, <1>4, QueuedDef
  <1>6. /\ w \in Seq(Tasks) /\ Injective(w)
        /\ \A u : Contains(w, u) <=> Contains(a.q[m], u) \/ u = ct
        /\ Descending(a.q[m], a.pri) => Descending(w, a.pri)
    BY <1>3, <1>4, <1>5, ByPriorityProperties
  <1> HIDE DEF w
  <1>7. /\ Good(b, Tasks) /\ SameFields(a, b) /\ b.rv = a.rv
        /\ b.q[m] = w
        /\ \A x \in Places \ {m} : b.q[x] = a.q[x]
        /\ \A u \in Tasks : InRq(b, u) <=> InRq(a, u)
    BY <1>1, <1>2, <1>3, <1>4, <1>6, Lined
  <1>8. Sorted(b)
    <2>1. ASSUME NEW x \in Mutexes
          PROVE  Descending(b.q[x], b.pri)
      <3>1. Descending(a.q[x], a.pri) /\ b.pri = a.pri
        BY <1>1, <1>7 DEF Sorted, SameFields
      <3>2. CASE x = m
        BY <1>6, <1>7, <3>1, <3>2
      <3>3. CASE x # m
        BY <1>7, <3>1, <3>3 DEF Places, Objs
      <3> QED BY <3>2, <3>3
    <2> QED BY <2>1 DEF Sorted
  <1>9. Tidy(b)
    <2>1. b.onr = a.onr /\ b.pri = a.pri /\ b.prinorm = a.prinorm
      BY <1>7 DEF SameFields
    <2>2. ASSUME NEW x \in Mutexes, NEW u \in Tasks, Contains(b.q[x], u)
          PROVE  /\ b.onr[x] \in Tasks
                 /\ \A y \in Mutexes : b.onr[y] = u => Rank[y] < Rank[x]
      <3>1. CASE Contains(a.q[x], u)
        BY <1>1, <2>1, <3>1 DEF Tidy
      <3>2. CASE ~Contains(a.q[x], u)
        <4>1. x = m
          BY <1>7, <2>2, <3>2 DEF Places, Objs
        <4>2. u = ct
          BY <1>6, <1>7, <2>2, <3>2, <4>1
        <4> QED BY <1>3, <2>1, <4>1, <4>2
      <3> QED BY <3>1, <3>2
    <2>3. ASSUME NEW u \in Tasks
          PROVE  /\ b.pri[u] >= b.prinorm[u]
                 /\ ~Owns(b, u) => b.pri[u] = b.prinorm[u]
      BY <1>1, <2>1 DEF Tidy, Owns
    <2> QED BY <2>2, <2>3 DEF Tidy
  <1>10. Served(b, Q, {m})
    <2>1. b.onr = a.onr /\ b.pri = a.pri
      BY <1>7 DEF SameFields
    <2>2. WaitsFor(r, ct) = {}
      <3>1. \A o \in Objs : ~Contains(r.q[o], ct)
        BY ReadyQueued DEF Sound, Good
      <3> QED BY <3>1 DEF WaitsFor, Objs
    <2>3. Sole(b, Q) /\ \A x \in Q : CeilMet(b, x)
      BY <1>1, <2>1 DEF Served, Sole, CeilMet
    <2>4. ASSUME NEW x \in Q, x \notin {m}
          PROVE  HeadMet(b, x)
      <3>1. HeadMet(a, x) /\ x \in Mutexes
        BY <1>1, <2>2 DEF Served, Sole
      <3>2. b.q[x] = a.q[x]
        BY <1>7, <2>4, <3>1 DEF Places, Objs
      <3> QED BY <2>1, <3>1, <3>2 DEF HeadMet
    <2> QED BY <2>3, <2>4 DEF Served
  <1>11. b.q[m] # <<>>
    BY <1>6, <1>7, EmptyQueue
  <1>12. Shifted(r, b, ct) /\ ~InRq(b, ct) /\ b.sched = r.sched
    <2>1. Others(r, b, ct)
      BY <1>1, <1>7 DEF Gone, Others
    <2> QED BY <1>1, <1>3, <1>7, <2>1 DEF Gone, Shifted, SameFields
  <1> QED BY <1>7, <1>8, <1>9, <1>10, <1>11, <1>12

\* What smx_MutexGet_F() still does for the owner then.
AdjustedToo(r, m, o) ==
    IF m \in Inherit /\ r.pri[ct] > r.pri[o] THEN ReQTask([r EXCEPT !.pri[o] = r.pri[ct]], o) ELSE r

LEMMA AdjustsToo ==
  ASSUME NEW r, NEW Q, Sound(r, Q), ct \in Tasks, NEW m \in Mutexes,
         NEW o \in Tasks, r.onr[m] = o, NEW d, d = AdjustedToo(r, m, o)
  PROVE  Sound(d, Q) /\ Handed(r, d, Mutexes)
  <1>1. CASE m \in Inherit /\ r.pri[ct] > r.pri[o]
    <2> DEFINE p == r.pri[ct]
               e == WithPri(r, o, p, r.prinorm[o])
    <2>1. r \in KernelType /\ Good(r, Tasks) /\ Tidy(r)
      BY DEF Sound, Good, Linked
    <2>2. p \in Levels /\ r.prinorm[o] \in Levels /\ p \in Int /\ r.pri[o] \in Int
          /\ r.prinorm[o] \in Int
      BY <2>1, Priorities
    <2>3. d = ReQTask(e, o)
      BY <1>1, <2>1, RecordOfPri DEF AdjustedToo
    <2>4. p >= r.prinorm[o] /\ Owns(r, o) /\ p >= r.pri[o]
      BY <1>1, <2>1, <2>2 DEF Tidy, Owns
    <2>5. PriSet(r, e, o, p, r.prinorm[o])
      <3> HIDE DEF p
      <3> QED BY <2>1, <2>2, PrioritySet
    <2> HIDE DEF p
    <2>6. Unsettled(e, o, Q)
      BY <2>2, <2>4, Raised
    <2> HIDE DEF e
    <2>7. Sound(d, Q) /\ Handed(e, d, Mutexes)
      BY <2>3, <2>6, Settled
    <2>8. KeptBut(r, e, o)
      BY <2>1, <2>5, PriSetKept
    <2>9. Handed(r, e, Mutexes)
      BY <2>8 DEF KeptBut, Handed
    <2> QED BY <2>7, <2>9, HandedCompose
  <1>2. CASE ~(m \in Inherit /\ r.pri[ct] > r.pri[o])
    BY <1>2, HandedSelf DEF AdjustedToo
  <1> QED BY <1>1, <1>2

\* Handing priorities on moves no task.
LEMMA HandedShifted ==
  ASSUME NEW r, NEW d, NEW e, NEW t, NEW C, Shifted(r, d, t), Handed(d, e, C)
  PROVE  Shifted(r, e, t) /\ \A u \in Tasks : InRq(e, u) <=> InRq(d, u)
  BY DEF Shifted, Handed, Kept, Others

\* The caller waits for m, with a timeout.
LEMMA Waits ==
  ASSUME MutexInv, CallerMayWait, NEW m \in Mutexes, InOrder(m), k.onr[m] \notin {NoTask, ct},
         NEW r, r \in {k, Locked(k, 0)}, NEW d, d = Wait(r, m, "SET")
  PROVE  Valid(d) /\ Held(d) /\ Sound(d, Calm) /\ d.onr = k.onr
  <1>0. /\ Valid(r) /\ Held(r) /\ Sound(r, Calm) /\ r.onr = k.onr /\ r.q = k.q
        /\ InRq(r, ct) /\ ct \in Targets /\ ct \in Tasks /\ r.sched = "NOP"
        /\ r.sp = k.sp /\ r.begun = k.begun /\ r.lockctr <= LockLimit /\ pc = "run"
    BY CallerData
  <1> DEFINE o == k.onr[m]
             b == Enlisted(r, m)
             e == OnrPriAdj(b, m)
             f == AdjustedToo(e, m, o)
             g == TimeoutSet(f, ct, "SET")
  <1>1. d = [g EXCEPT !.sched = "SUSP"]
    <2>1. PNQTask(DQRQTask(r, ct), m, ct) = e
      BY DEF PNQTask, Enlisted, WithQueue
    <2> QED BY <1>0, <2>1 DEF Wait, AdjustedToo
  <1>2. o \in Tasks
    BY <1>0 DEF Sound, Good, Linked, KernelType
  <1>3. \A x \in Mutexes : r.onr[x] = ct => Rank[x] < Rank[m]
    <2>1. mol \in [Tasks -> Seq(Mutexes)] /\ \A x \in Mutexes : Contains(mol[ct], x) <=> k.onr[x] = ct
      BY <1>0 DEF MutexInv, Lists
    <2>2. \A x \in Mutexes : x \in Owned(ct) <=> k.onr[x] = ct
      BY <1>0, <2>1, RangeContains DEF Owned
    <2> QED BY <1>0, <2>2 DEF InOrder
  <1>4. /\ Good(b, Tasks) /\ Sorted(b) /\ Tidy(b) /\ Served(b, Calm, {m}) /\ b.q[m] # <<>>
        /\ Shifted(r, b, ct) /\ ~InRq(b, ct) /\ b.sched = r.sched
    <2> DEFINE Q == Calm
    <2> HIDE DEF Q, b
    <2>1. Sound(r, Q) /\ b = Enlisted(r, m) /\ r.onr[m] \in Tasks
      BY <1>0, <1>2 DEF b, Q
    <2>2. /\ Good(b, Tasks) /\ Sorted(b) /\ Tidy(b) /\ Served(b, Q, {m}) /\ b.q[m] # <<>>
          /\ Shifted(r, b, ct) /\ ~InRq(b, ct) /\ b.sched = r.sched
      BY <1>0, <1>3, <2>1, Enlists
    <2> QED BY <2>2 DEF Q
  <1> HIDE DEF b
  <1>5. Sound(e, Calm) /\ Handed(b, e, From(m))
    BY <1>4, ChainAdjusted
  <1> HIDE DEF e
  <1>6. Shifted(r, e, ct) /\ ~InRq(e, ct)
    BY <1>0, <1>4, <1>5, HandedShifted
  <1>7. Sound(f, Calm) /\ Handed(e, f, Mutexes)
    <2>1. e.onr[m] = o
      BY <1>0, <1>6 DEF Shifted
    <2> HIDE DEF o
    <2> QED BY <1>0, <1>2, <1>5, <2>1, AdjustsToo
  <1> HIDE DEF f
  <1>8. Shifted(r, f, ct) /\ ~InRq(f, ct) /\ Good(f, Tasks) /\ f \in KernelType
    BY <1>0, <1>6, <1>7, HandedShifted DEF Sound, Good, Linked
  <1>9. /\ Good(g, Tasks) /\ \A u \in Tasks : InRq(g, u) <=> InRq(f, u)
        /\ Top(g) = Top(f) /\ Same(f, g)
        /\ g.sp = f.sp /\ g.sched = f.sched /\ g.lockctr = f.lockctr /\ g.begun = f.begun
    BY <1>0, <1>8, Marked
  <1> HIDE DEF g
  <1>10. /\ d \in KernelType /\ d.q = g.q /\ d.rqtop = g.rqtop /\ d.state = g.state
         /\ d.pri = g.pri /\ d.timeout = g.timeout /\ d.prinorm = g.prinorm /\ d.onr = g.onr
         /\ d.sp = g.sp /\ d.lockctr = g.lockctr /\ d.begun = g.begun /\ d.sched = "SUSP"
    BY <1>1, <1>9 DEF Good, Linked, KernelType
  <1>11. Good(d, Tasks) /\ \A u \in Tasks : InRq(d, u) <=> InRq(g, u)
    BY <1>9, <1>10, Restated
  <1>12. Sound(d, Calm)
    BY <1>7, <1>9, <1>10, <1>11, SoundBeside DEF Same
  <1>13. Valid(d) /\ Held(d)
    <2>1. Others(k, d, ct)
      <3>1. \A u \in Tasks : InRq(r, u) <=> InRq(k, u)
        BY <1>0, SameQueues
      <3> QED BY <1>8, <1>9, <1>11, <3>1 DEF Others, Shifted
    <2>2. d.lockctr <= LockLimit /\ d.begun = k.begun /\ d.sp = k.sp
      BY <1>0, <1>8, <1>9, <1>10 DEF Shifted
    <2> QED BY <1>0, <1>10, <1>11, <2>1, <2>2, Moved DEF MutexInv
  <1> QED BY <1>0, <1>8, <1>9, <1>10, <1>12, <1>13 DEF Shifted, Same

-----------------------------------------------------------------------------
(* Giving a mutex up. *)

\* m is t's, if it is not NoTask, and all is right there.
HandsOn(r, d, m, t) ==
    /\ Good(d, Tasks) /\ Grown(r, d)
    /\ d.onr = [r.onr EXCEPT ![m] = t] /\ d.prinorm = r.prinorm
    /\ \A u \in Tasks \ {t} : d.pri[u] = r.pri[u]
    /\ \A y \in Mutexes \ {m} : d.q[y] = r.q[y]
    /\ \A u \in Tasks : Contains(d.q[m], u) => Contains(r.q[m], u)
    /\ Descending(d.q[m], d.pri)
    /\ t = NoTask => d.q[m] = <<>>
    /\ t # NoTask => /\ d.pri[t] >= r.pri[t] /\ \A y \in Mutexes : ~Contains(d.q[y], t)
                     /\ CeilMet(d, m) /\ HeadMet(d, m)

LEMMA GivenUp ==
  ASSUME MutexInv, NEW m \in Mutexes, k.onr[m] # NoTask, NEW t \in Tasks \union {NoTask},
         NEW r, r = Disown(m), NEW d, HandsOn(r, d, m, t),
         UpdateMol(Pass(m, t)), k'.onr = d.onr
  PROVE  Valid(d) /\ Held(d) /\ Sound(d, Calm') /\ Lists'
  <1> DEFINE o == k.onr[m]
             R == Calm'
             Q == Calm \ {m}
  <1>0. /\ KernelInv /\ Lists /\ k \in KernelType /\ ct \in Tasks /\ o \in Tasks
        /\ k.onr \in [Mutexes -> Tasks \union {NoTask}] /\ Valid(k) /\ Held(k)
    BY DEF MutexInv, KernelInv, Sound, Good, Linked, KernelType
  <1>1. /\ Sound(r, Q) /\ Handed(k, r, Mutexes)
        /\ (\A y \in Mutexes : k.onr[y] = o => y = m) => r.pri[o] = r.prinorm[o]
    <2> HIDE DEF Q
    <2>1. /\ Sound(r, Calm \ {m}) /\ Handed(k, r, Mutexes)
          /\ (\A y \in Mutexes : k.onr[y] = o => y = m) => r.pri[o] = r.prinorm[o]
      <3> HIDE DEF o
      <3>1. o = k.onr[m]
        BY DEF o
      <3> QED BY <1>0, <3>1, Disowned
    <2> QED BY <2>1 DEF Q
  <1>2. r.onr = k.onr
    BY <1>1 DEF Handed, Kept
  <1>3. d.onr = [k.onr EXCEPT ![m] = t]
    BY <1>2 DEF HandsOn
  <1>4. /\ Lists' /\ R \subseteq Mutexes
        /\ \A y \in R \ {m} : y \in Calm /\ k.onr[y] # t
        /\ \A x \in R, y \in Mutexes : k'.onr[x] = k'.onr[y] => x = y
    BY <1>0, <1>3, Passed
  <1>5. \A x \in R : d.onr[x] \in Tasks
    BY DEF Calm
  <1> HIDE DEF R
  <1>6. Passing(r, d, m, t, Q, R)
    <2>1. /\ \A x \in R, y \in Mutexes : d.onr[x] = d.onr[y] => x = y
          /\ \A y \in R \ {m} : y \in Q /\ r.onr[y] # t
      BY <1>2, <1>4
    <2>2. (\A y \in Mutexes : r.onr[y] = r.onr[m] => y = m) =>
            \A u \in Tasks : u = r.onr[m] => r.pri[u] = r.prinorm[u]
      BY <1>1, <1>2
    <2> HIDE DEF Q
    <2> QED BY <1>1, <1>4, <1>5, <2>1, <2>2 DEF Passing, HandsOn
  <1> HIDE DEF Q
  <1>7. Sound(d, R)
    <2>1. /\ Descending(d.q[m], d.pri)
          /\ t = NoTask => d.q[m] = <<>>
          /\ t # NoTask => d.pri[t] >= r.pri[t] /\ \A y \in Mutexes : ~Contains(d.q[y], t)
      BY DEF HandsOn
    <2>2. m \in R => CeilMet(d, m) /\ HeadMet(d, m)
      <3>1. m \in R => t # NoTask
        BY <1>0, <1>3, <1>5, QueuesAssumption
      <3> QED BY <3>1 DEF HandsOn
    <2> QED BY <1>6, <2>1, <2>2, Transferred
  <1>8. Valid(d) /\ Held(d)
    <2>1. Good(r, Tasks) /\ Grown(k, r)
      BY <1>1 DEF Sound, Handed, Kept, Grown
    <2>2. Valid(r) /\ Held(r)
      BY <1>0, <2>1, GrownStays
    <2>3. Good(d, Tasks) /\ Grown(r, d)
      BY DEF HandsOn
    <2> QED BY <1>0, <2>2, <2>3, GrownStays
  <1> QED BY <1>4, <1>7, <1>8 DEF R

\* The task that comes off the queue of m becomes ready, with priority p.
LEMMA HeadReadied ==
  ASSUME NEW r, Good(r, Tasks), NEW m \in Mutexes, r.q[m] # <<>>,
         NEW t, t = Head(r.q[m]), NEW e, e \in KernelType,
         NEW a, a = DQFTask(r, m),
         e.q = a.q, e.rqtop = a.rqtop, e.state = a.state, e.timeout = a.timeout,
         e.prinorm = a.prinorm, e.sp = a.sp, e.lockctr = a.lockctr, e.begun = a.begun,
         e.sched = a.sched,
         \A u \in Tasks \ {t} : e.pri[u] = a.pri[u],
         NEW d, d = NoTimeout(DoCtTest(NQRQTask(e, t)), t)
  PROVE  /\ t \in Tasks /\ Good(d, Tasks) /\ Grown(r, d) /\ InRq(d, t)
         /\ d.onr = e.onr /\ d.pri = e.pri /\ d.prinorm = r.prinorm
         /\ d.q[m] = Tail(r.q[m]) /\ \A o \in Objs \ {m} : d.q[o] = r.q[o]
  <1>0. m \in Objs
    BY QueuesAssumption DEF Objs
  <1>1. /\ t \in Tasks /\ Good(a, Tasks) /\ ~Queued(a, t)
        /\ SameFields(r, a) /\ a.rv = r.rv
        /\ a.q[m] = Tail(r.q[m])
        /\ \A x \in Places \ {m} : a.q[x] = r.q[x]
        /\ \A u \in Tasks : InRq(a, u) <=> InRq(r, u)
    BY <1>0, Headless
  <1>2. /\ Good(e, Tasks) /\ \A u \in Tasks : InRq(e, u) <=> InRq(a, u)
    <2>1. ~InRq(a, t)
      BY <1>1 DEF InRq, Queued
    <2> QED BY <1>1, <2>1, Changed
  <1>3. ~Queued(e, t)
    BY <1>1, SameQueues
  <1> DEFINE f == NQRQTask(e, t)
             g == DoCtTest(f)
  <1>4. /\ Good(f, Tasks \ {t}) /\ SameFields(e, f)
        /\ InRq(f, t) /\ Contains(f.q[f.pri[t]], t) /\ Others(e, f, t) /\ Beside(e, f, t)
    BY <1>1, <1>2, <1>3, Readied
  <1> HIDE DEF f
  <1>5. /\ Good(g, Tasks \ {t}) /\ \A u \in Tasks : InRq(g, u) <=> InRq(f, u)
        /\ Same(f, g) /\ g.timeout = f.timeout
        /\ g.sp = f.sp /\ g.lockctr = f.lockctr /\ g.begun = f.begun /\ Asked(f, g)
    <2> DEFINE S == Tasks \ {t}
    <2>1. Good(f, S)
      BY <1>4
    <2> HIDE DEF S
    <2>2. /\ Good(g, S) /\ \A u \in Tasks : InRq(g, u) <=> InRq(f, u)
          /\ Same(f, g) /\ g.timeout = f.timeout
          /\ g.sp = f.sp /\ g.lockctr = f.lockctr /\ g.begun = f.begun /\ Asked(f, g)
      BY <2>1, CtTested
    <2> QED BY <2>2 DEF S
  <1>6. d = NoTimeout(g, t)
    BY DEF f
  <1> HIDE DEF g
  <1>7. /\ Good(d, Tasks) /\ \A u \in Tasks : InRq(d, u) <=> InRq(g, u)
        /\ Same(g, d)
        /\ d.sp = g.sp /\ d.sched = g.sched /\ d.lockctr = g.lockctr /\ d.begun = g.begun
    <2>1. InRq(g, t) => Contains(g.q[g.pri[t]], t)
      BY <1>4, <1>5 DEF Same
    <2> QED BY <1>1, <1>5, <1>6, <2>1, Unmarked
  <1>8. Grown(r, d) /\ InRq(d, t)
    <2>1. \A u \in Tasks : InRq(r, u) => InRq(d, u)
      BY <1>1, <1>2, <1>4, <1>5, <1>7 DEF Others
    <2>2. d.sched = r.sched \/ (r.sched = "NOP" /\ d.sched = "CTTEST")
      BY <1>1, <1>4, <1>5, <1>7 DEF SameFields, Asked
    <2> QED BY <1>1, <1>4, <1>5, <1>7, <2>1, <2>2 DEF Grown, SameFields
  <1>9. d.q[m] = Tail(r.q[m]) /\ \A o \in Objs \ {m} : d.q[o] = r.q[o]
    BY <1>0, <1>1, <1>4, <1>5, <1>7 DEF Beside, Same, Places
  <1> QED BY <1>1, <1>4, <1>5, <1>7, <1>8, <1>9 DEF SameFields, Same

\* The greater of a priority and a ceiling.
LEMMA MaxOfTwo ==
  ASSUME NEW x \in Levels, NEW y \in Levels
  PROVE  Max({x, y}) \in Levels /\ Max({x, y}) >= x /\ Max({x, y}) >= y
  <1>1. {x, y} \in SUBSET (0..MaxPri) /\ {x, y} # {} /\ MaxPri \in Nat
    BY QueuesAssumption DEF Levels
  <1> DEFINE S == {x, y}
  <1>2. x \in S /\ y \in S /\ S \subseteq Levels
    OBVIOUS
  <1> HIDE DEF S
  <1>3. S \in SUBSET (0..MaxPri) /\ S # {}
    BY <1>1 DEF S
  <1>4. Max(S) \in S /\ \A z \in S : Max(S) >= z
    BY <1>1, <1>3, MaxProperties
  <1>5. Max(S) \in Levels /\ Max(S) >= x /\ Max(S) >= y
    BY <1>2, <1>4
  <1> QED BY <1>5 DEF S

LEMMA SecondDescending ==
  ASSUME NEW S, NEW s \in Seq(S), s # <<>>, Tail(s) # <<>>, NEW f, Descending(s, f)
  PROVE  f[Head(s)] >= f[Head(Tail(s))]
  <1> DEFINE w == Tail(s)
  <1>1. /\ w \in Seq(S) /\ Len(w) = Len(s) - 1
        /\ \A i \in 1..Len(w) : w[i] = s[i + 1]
    BY HeadTailProperties
  <1>2. Len(s) \in Nat /\ Head(s) = s[1]
    BY LenProperties
  <1> HIDE DEF w
  <1>3. w # <<>>
    BY DEF w
  <1>4. Len(w) \in Nat \ {0} /\ Head(w) = w[1]
    BY <1>1, <1>3, EmptySeq, LenProperties
  <1>5. Head(w) = s[2] /\ Len(s) >= 2
    BY <1>1, <1>2, <1>4
  <1>6. f[Head(s)] >= f[Head(w)]
    BY <1>2, <1>5 DEF Descending
  <1> QED BY <1>6 DEF w

LEMMA HandedOver ==
  ASSUME NEW r, NEW Q, Sound(r, Q), NEW m \in Mutexes, r.q[m] # <<>>,
         NEW t, t = Head(r.q[m]), NEW d, d = HandOver(r, m)
  PROVE  t \in Tasks /\ HandsOn(r, d, m, t)
  <1> DEFINE a == DQFTask(r, m)
             e == [a EXCEPT !.onr[m] = t, !.pri[t] = Max({@, Ceil[m]})]
             f == NoTimeout(DoCtTest(NQRQTask(e, t)), t)
  <1>0. /\ Good(r, Tasks) /\ Linked(r) /\ r \in KernelType /\ m \in Objs
        /\ r.q[m] \in Seq(Tasks) /\ Injective(r.q[m]) /\ Ceil[m] \in Levels
    BY MutexQueue DEF Sound, Good, Linked
  <1>1. t \in Tasks /\ a \in KernelType /\ SameFields(r, a)
    BY <1>0, Headless DEF Good, Linked
  <1>2. d = Replied(f, t, TRUE)
    BY DEF HandOver, Replied
  <1> HIDE DEF a
  <1>3. r.pri[t] \in Levels /\ a.pri[t] = r.pri[t]
    BY <1>0, <1>1 DEF KernelType, SameFields
  <1> DEFINE p == Max({r.pri[t], Ceil[m]})
  <1>4. p \in Levels /\ p >= r.pri[t] /\ p >= Ceil[m]
    BY <1>0, <1>3, MaxOfTwo
  <1>5. e = [a EXCEPT !.onr[m] = t, !.pri[t] = p]
    BY <1>3
  <1> HIDE DEF p
  <1>6. /\ e \in KernelType
        /\ e.q = a.q /\ e.rqtop = a.rqtop /\ e.state = a.state /\ e.timeout = a.timeout
        /\ e.prinorm = a.prinorm /\ e.sp = a.sp /\ e.lockctr = a.lockctr /\ e.begun = a.begun
        /\ e.sched = a.sched
        /\ e.onr = [a.onr EXCEPT ![m] = t]
        /\ e.pri[t] = p /\ \A u \in Tasks \ {t} : e.pri[u] = a.pri[u]
    <2> DEFINE b == [a EXCEPT !.onr[m] = t]
    <2>1. /\ b \in KernelType
          /\ b.q = a.q /\ b.rqtop = a.rqtop /\ b.state = a.state /\ b.timeout = a.timeout
          /\ b.prinorm = a.prinorm /\ b.sp = a.sp /\ b.lockctr = a.lockctr /\ b.begun = a.begun
          /\ b.sched = a.sched /\ b.pri = a.pri
          /\ b.onr = [a.onr EXCEPT ![m] = t]
      BY <1>1 DEF KernelType
    <2>2. e = [b EXCEPT !.pri[t] = p]
      BY <1>5
    <2> HIDE DEF b, e
    <2>3. /\ e \in KernelType
          /\ e.q = b.q /\ e.rqtop = b.rqtop /\ e.state = b.state /\ e.timeout = b.timeout
          /\ e.prinorm = b.prinorm /\ e.sp = b.sp /\ e.lockctr = b.lockctr /\ e.begun = b.begun
          /\ e.sched = b.sched /\ e.onr = b.onr
          /\ e.pri[t] = p /\ \A u \in Tasks \ {t} : e.pri[u] = b.pri[u]
      BY <1>1, <1>4, <2>1, <2>2 DEF KernelType
    <2> QED BY <2>1, <2>3
  <1> HIDE DEF e
  <1>8. /\ Good(f, Tasks) /\ Grown(r, f) /\ InRq(f, t)
        /\ f.onr = e.onr /\ f.pri = e.pri /\ f.prinorm = r.prinorm
        /\ f.q[m] = Tail(r.q[m]) /\ \A o \in Objs \ {m} : f.q[o] = r.q[o]
    <2>1. a = DQFTask(r, m)
      BY DEF a
    <2> HIDE DEF f
    <2>2. f = NoTimeout(DoCtTest(NQRQTask(e, t)), t)
      BY DEF f
    <2>3. /\ e \in KernelType
          /\ e.q = a.q /\ e.rqtop = a.rqtop /\ e.state = a.state /\ e.timeout = a.timeout
          /\ e.prinorm = a.prinorm /\ e.sp = a.sp /\ e.lockctr = a.lockctr /\ e.begun = a.begun
          /\ e.sched = a.sched /\ \A u \in Tasks \ {t} : e.pri[u] = a.pri[u]
      BY <1>6
    <2> QED BY <1>0, <2>1, <2>2, <2>3, HeadReadied
  <1> HIDE DEF f
  <1>9. /\ Good(d, Tasks) /\ \A u \in Tasks : InRq(d, u) <=> InRq(f, u)
        /\ d.q = f.q /\ SameFields(f, d)
    <2> DEFINE b == TRUE
               S == Tasks
    <2>1. b \in BOOLEAN /\ Good(f, S) /\ d = Replied(f, t, b)
      BY <1>2, <1>8
    <2> HIDE DEF b, S
    <2>2. /\ Good(d, S) /\ \A u \in Tasks : InRq(d, u) <=> InRq(f, u)
          /\ Top(d) = Top(f) /\ d.rqtop = f.rqtop /\ d.q = f.q /\ SameFields(f, d)
          /\ d.rv = [f.rv EXCEPT ![t] = b]
      BY <1>1, <2>1, Answered
    <2> QED BY <2>2 DEF S
  <1>10. /\ d.onr = [r.onr EXCEPT ![m] = t] /\ d.prinorm = r.prinorm
         /\ d.pri[t] = p /\ \A u \in Tasks \ {t} : d.pri[u] = r.pri[u]
         /\ d.q[m] = Tail(r.q[m]) /\ \A o \in Objs \ {m} : d.q[o] = r.q[o]
    BY <1>1, <1>6, <1>8, <1>9 DEF SameFields
  <1>11. Grown(r, d) /\ InRq(d, t)
    BY <1>1, <1>8, <1>9 DEF Grown, SameFields
  <1>12. /\ \A u : Contains(Tail(r.q[m]), u) <=> Contains(r.q[m], u) /\ u # t
         /\ Tail(r.q[m]) \in Seq(Tasks) /\ Injective(Tail(r.q[m]))
    BY <1>0, TailContains
  <1>13. Descending(r.q[m], r.pri) /\ Descending(Tail(r.q[m]), r.pri)
    <2>1. Descending(r.q[m], r.pri)
      BY DEF Sound, Sorted
    <2> QED BY <1>0, <2>1, TailDescending
  <1>14. Descending(d.q[m], d.pri)
    <2>1. \A u \in Tasks : Contains(Tail(r.q[m]), u) => d.pri[u] = r.pri[u]
      BY <1>10, <1>12
    <2> DEFINE s == Tail(r.q[m])
    <2>2. s \in Seq(Tasks) /\ Descending(s, r.pri) /\ d.q[m] = s
      BY <1>10, <1>12, <1>13
    <2>3. \A u \in Tasks : Contains(s, u) => d.pri[u] = r.pri[u]
      BY <2>1
    <2> HIDE DEF s
    <2>4. Descending(s, d.pri)
      BY <2>2, <2>3, DescendingAgrees
    <2> QED BY <2>2, <2>4
  <1>15. \A y \in Mutexes : ~Contains(d.q[y], t)
    BY <1>1, <1>9, <1>11, ReadyQueued DEF Good, Objs
  <1>16. CeilMet(d, m) /\ HeadMet(d, m)
    <2>1. d.onr[m] = t
      BY <1>0, <1>10 DEF KernelType
    <2>2. CeilMet(d, m)
      BY <1>4, <1>10, <2>1 DEF CeilMet
    <2>3. ASSUME d.q[m] # <<>>
          PROVE  d.pri[t] >= d.pri[Head(d.q[m])]
      <3> DEFINE s == Tail(r.q[m])
                 u == Head(s)
      <3>1. s \in Seq(Tasks) /\ Injective(s) /\ s # <<>> /\ d.q[m] = s
        BY <1>10, <1>12, <2>3
      <3>2. u \in Tasks /\ Contains(s, u)
        <4> HIDE DEF s
        <4> QED BY <3>1, TailContains
      <3>3. u # t
        BY <1>12, <3>2
      <3>4. r.pri[t] >= r.pri[u]
        BY <1>0, <1>13, <3>1, SecondDescending
      <3>5. d.pri[u] = r.pri[u] /\ r.pri[u] \in Int /\ r.pri[t] \in Int /\ p \in Int
        BY <1>0, <1>1, <1>4, <1>10, <3>2, <3>3, Priorities
      <3> HIDE DEF s, u
      <3>6. d.pri[t] >= d.pri[u]
        BY <1>4, <1>10, <3>4, <3>5
      <3> QED BY <3>1, <3>6 DEF u
    <2> QED BY <2>1, <2>2, <2>3 DEF HeadMet
  <1>17. \A y \in Mutexes \ {m} : d.q[y] = r.q[y]
    BY <1>10 DEF Objs
  <1>18. t # NoTask
    BY <1>1, QueuesAssumption
  <1> QED BY <1>1, <1>4, <1>9, <1>10, <1>11, <1>12, <1>14, <1>15, <1>16, <1>17, <1>18 DEF HandsOn

\* Nobody waits for m, which comes to have no owner.
Ownerless(r, m) == [r EXCEPT !.onr[m] = NoTask]

LEMMA SetFree ==
  ASSUME NEW r, Good(r, Tasks), NEW m \in Mutexes, NEW d, d = Ownerless(r, m)
  PROVE  /\ Good(d, Tasks) /\ Grown(r, d) /\ d.q = r.q /\ d.pri = r.pri /\ d.prinorm = r.prinorm
         /\ d.onr = [r.onr EXCEPT ![m] = NoTask]
         /\ r.q[m] = <<>> => HandsOn(r, d, m, NoTask)
  <1>0. r \in KernelType
    BY DEF Good, Linked
  <1>1. /\ d \in KernelType /\ d.q = r.q /\ d.rqtop = r.rqtop /\ d.state = r.state
        /\ d.pri = r.pri /\ d.timeout = r.timeout /\ d.prinorm = r.prinorm
        /\ d.onr = [r.onr EXCEPT ![m] = NoTask]
        /\ d.sp = r.sp /\ d.sched = r.sched /\ d.lockctr = r.lockctr /\ d.begun = r.begun
    BY <1>0 DEF KernelType, Ownerless
  <1>2. Good(d, Tasks) /\ \A u \in Tasks : InRq(d, u) <=> InRq(r, u)
    BY <1>1, Restated
  <1>3. Grown(r, d)
    BY <1>1, <1>2 DEF Grown
  <1>4. r.q[m] = <<>> => HandsOn(r, d, m, NoTask)
    BY <1>1, <1>2, <1>3, EmptyDescending DEF HandsOn
  <1> QED BY <1>1, <1>2, <1>3, <1>4

-----------------------------------------------------------------------------
(* smx_MutexClear(). *)

\* One turn of its loop.
Release(r, m) ==
    LET t == Head(r.q[m]) IN NoTimeout(DoCtTest(NQRQTask(DQFTask(r, m), t)), t)

\* f[i] is what i turns make of r.
ClearRun(r, m, n, f) == f = [i \in 0..n |-> IF i = 0 THEN r ELSE Release(f[i - 1], m)]

LEMMA ClearRunExists ==
  ASSUME NEW r, NEW m, NEW n \in Nat
  PROVE  \E f : ClearRun(r, m, n, f)
  <1> DEFINE N == {j \in Nat : ~\E f : ClearRun(r, m, j, f)}
  <1> SUFFICES ASSUME N # {} PROVE FALSE
    OBVIOUS
  <1>1. PICK j \in N : \A i \in N : j <= i
    <2>1. N \in SUBSET Nat
      OBVIOUS
    <2> HIDE DEF N
    <2> QED BY <2>1, LeastNumber
  <1>2. CASE j = 0
    <2> DEFINE f == [i \in 0..0 |-> r]
    <2>1. \A i \in 0..0 : i = 0
      OBVIOUS
    <2>2. f = [i \in 0..0 |-> IF i = 0 THEN r ELSE Release(f[i - 1], m)]
      BY <2>1
    <2>3. ClearRun(r, m, j, f)
      BY <1>2, <2>2 DEF ClearRun
    <2> HIDE DEF f
    <2> QED BY <1>1, <2>3
  <1>3. CASE j # 0
    <2>1. j \in Nat /\ j - 1 \in Nat /\ ~(j <= j - 1)
      BY <1>1, <1>3
    <2>2. j - 1 \notin N
      BY <1>1, <2>1
    <2>3. PICK g : ClearRun(r, m, j - 1, g)
      BY <2>1, <2>2
    <2> DEFINE f == [i \in 0..j |-> IF i = j THEN Release(g[j - 1], m) ELSE g[i]]
    <2>4. ASSUME NEW i \in 0..j
          PROVE  f[i] = IF i = 0 THEN r ELSE Release(f[i - 1], m)
      <3>1. CASE i = 0
        BY <1>3, <2>1, <2>3, <3>1 DEF ClearRun
      <3>2. CASE i # 0 /\ i # j
        <4>1. i \in 0..j - 1 /\ i - 1 \in 0..j /\ i - 1 # j
          BY <2>1, <3>2
        <4> QED BY <2>3, <3>2, <4>1 DEF ClearRun
      <3>3. CASE i # 0 /\ i = j
        <4>1. j - 1 \in 0..j /\ j - 1 # j
          BY <2>1
        <4> QED BY <3>3, <4>1
      <3> QED BY <3>1, <3>2, <3>3
    <2>5. f = [i \in 0..j |-> f[i]]
      OBVIOUS
    <2> HIDE DEF f
    <2>6. ClearRun(r, m, j, f)
      BY <2>4, <2>5 DEF ClearRun
    <2> QED BY <1>1, <2>6
  <1> QED BY <1>2, <1>3

\* All that has changed is that n tasks no longer wait for m.
Released(r, d, m, n) ==
    /\ Good(d, Tasks) /\ Grown(r, d)
    /\ d.onr = r.onr /\ d.pri = r.pri /\ d.prinorm = r.prinorm
    /\ \A y \in Mutexes \ {m} : d.q[y] = r.q[y]
    /\ \A u \in Tasks : Contains(d.q[m], u) => Contains(r.q[m], u)
    /\ Len(d.q[m]) = Len(r.q[m]) - n

LEMMA OneReleased ==
  ASSUME NEW r, NEW m \in Mutexes, NEW n \in Nat, NEW e, Released(r, e, m, n),
         Linked(r), n < Len(r.q[m]), NEW d, d = Release(e, m)
  PROVE  Released(r, d, m, n + 1)
  <1> DEFINE t == Head(e.q[m])
             a == DQFTask(e, m)
  <1>1. Good(e, Tasks) /\ Linked(e) /\ e \in KernelType /\ m \in Objs
    BY MutexQueue DEF Released, Good, Linked
  <1>2. e.q[m] \in Seq(Tasks) /\ Injective(e.q[m]) /\ r.q[m] \in Seq(Tasks)
    BY <1>1, MutexQueue
  <1>3. Len(e.q[m]) > 0 /\ Len(e.q[m]) \in Nat /\ Len(r.q[m]) \in Nat /\ e.q[m] # <<>>
    <2>1. Len(e.q[m]) \in Nat /\ Len(r.q[m]) \in Nat
      BY <1>2, LenProperties
    <2>2. Len(e.q[m]) = Len(r.q[m]) - n
      BY DEF Released
    <2> QED BY <1>2, <2>1, <2>2, EmptySeq
  <1>4. a \in KernelType /\ SameFields(e, a)
    <2>1. Good(a, Tasks) /\ SameFields(e, a)
      BY <1>1, <1>3, Headless
    <2> QED BY <2>1 DEF Good, Linked
  <1>5. /\ t \in Tasks /\ Good(d, Tasks) /\ Grown(e, d) /\ InRq(d, t)
        /\ d.onr = a.onr /\ d.pri = a.pri /\ d.prinorm = e.prinorm
        /\ d.q[m] = Tail(e.q[m]) /\ \A o \in Objs \ {m} : d.q[o] = e.q[o]
    <2>1. d = NoTimeout(DoCtTest(NQRQTask(a, t)), t)
      BY DEF Release
    <2>2. a = DQFTask(e, m) /\ t = Head(e.q[m])
      OBVIOUS
    <2> HIDE DEF a, t
    <2> QED BY <1>1, <1>3, <1>4, <2>1, <2>2, HeadReadied
  <1> HIDE DEF a, t
  <1>6. Grown(r, d)
    BY <1>5 DEF Released, Grown
  <1>7. d.onr = r.onr /\ d.pri = r.pri /\ d.prinorm = r.prinorm
    BY <1>4, <1>5 DEF Released, SameFields
  <1>8. /\ \A y \in Mutexes \ {m} : d.q[y] = r.q[y]
        /\ \A u \in Tasks : Contains(d.q[m], u) => Contains(r.q[m], u)
    <2>1. \A u : Contains(Tail(e.q[m]), u) => Contains(e.q[m], u)
      BY <1>2, <1>3, TailContains
    <2> QED BY <1>5, <2>1 DEF Released, Objs
  <1>9. Len(d.q[m]) = Len(r.q[m]) - (n + 1)
    <2>1. Len(Tail(e.q[m])) = Len(e.q[m]) - 1
      BY <1>2, <1>3, HeadTailProperties
    <2>2. Len(e.q[m]) = Len(r.q[m]) - n
      BY DEF Released
    <2> QED BY <1>3, <1>5, <2>1, <2>2
  <1> QED BY <1>5, <1>6, <1>7, <1>8, <1>9 DEF Released

LEMMA AllReleased ==
  ASSUME NEW r, Good(r, Tasks), NEW m \in Mutexes, NEW n \in Nat, n <= Len(r.q[m]),
         NEW f, ClearRun(r, m, n, f)
  PROVE  Released(r, f[n], m, n)
  <1> DEFINE N == {j \in Nat : j <= n /\ ~Released(r, f[j], m, j)}
  <1>0. Linked(r) /\ Len(r.q[m]) \in Nat
    <2>1. Linked(r)
      BY DEF Good
    <2> QED BY <2>1, MutexQueue, LenProperties
  <1> SUFFICES ASSUME N # {} PROVE FALSE
    OBVIOUS
  <1>1. PICK j \in N : \A i \in N : j <= i
    <2>1. N \in SUBSET Nat
      OBVIOUS
    <2> HIDE DEF N
    <2> QED BY <2>1, LeastNumber
  <1>2. j \in Nat /\ j <= n /\ ~Released(r, f[j], m, j)
    BY <1>1
  <1>3. f[j] = IF j = 0 THEN r ELSE Release(f[j - 1], m)
    BY <1>2 DEF ClearRun
  <1>4. CASE j = 0
    <2>1. Len(r.q[m]) = Len(r.q[m]) - 0
      BY <1>0
    <2>2. Released(r, r, m, 0)
      BY <2>1 DEF Released, Grown
    <2> QED BY <1>2, <1>3, <1>4, <2>2
  <1>5. CASE j # 0
    <2> DEFINE i == j - 1
               e == f[i]
               d == f[j]
    <2>1. i \in Nat /\ i <= n /\ ~(j <= i) /\ i + 1 = j /\ d = Release(e, m) /\ i < Len(r.q[m])
      BY <1>0, <1>2, <1>3, <1>5
    <2>2. Released(r, e, m, i)
      BY <1>1, <2>1
    <2> HIDE DEF i, e, d
    <2>3. Released(r, d, m, i + 1)
      BY <1>0, <2>1, <2>2, OneReleased
    <2> QED BY <1>2, <2>1, <2>3 DEF d
  <1> QED BY <1>4, <1>5

\* In the end nobody waits for m, which has no owner.
LEMMA Cleared ==
  ASSUME NEW r, Good(r, Tasks), NEW m \in Mutexes,
         NEW e, e = Ownerless(r, m), NEW n, n = Len(e.q[m]),
         NEW F, F = CHOOSE f : ClearRun(e, m, n, f)
  PROVE  HandsOn(r, F[n], m, NoTask)
  <1>1. /\ Good(e, Tasks) /\ Grown(r, e) /\ e.q = r.q /\ e.pri = r.pri
        /\ e.prinorm = r.prinorm /\ e.onr = [r.onr EXCEPT ![m] = NoTask]
    BY SetFree
  <1>2. n \in Nat
    <2>1. e.q[m] \in Seq(Tasks)
      BY <1>1, MutexQueue DEF Good
    <2> QED BY <2>1, LenProperties
  <1>3. ClearRun(e, m, n, F)
    <2>1. \E f : ClearRun(e, m, n, f)
      BY <1>2, ClearRunExists
    <2> QED BY <2>1
  <1> DEFINE d == F[n]
  <1>4. Released(e, d, m, n)
    <2>1. n <= Len(e.q[m])
      BY <1>2
    <2>2. Released(e, F[n], m, n)
      BY <1>1, <1>2, <1>3, <2>1, AllReleased
    <2> QED BY <2>2
  <1> HIDE DEF d
  <1>5. d.q[m] = <<>>
    <2>1. Len(d.q[m]) = 0
      BY <1>2, <1>4 DEF Released
    <2>2. d.q[m] \in Seq(Tasks)
      BY <1>4, MutexQueue DEF Released, Good
    <2> QED BY <2>1, <2>2, EmptySeq
  <1>6. Grown(r, d)
    BY <1>1, <1>4 DEF Released, Grown
  <1>7. HandsOn(r, d, m, NoTask)
    BY <1>1, <1>4, <1>5, <1>6, EmptyDescending DEF Released, HandsOn
  <1> QED BY <1>7 DEF d

-----------------------------------------------------------------------------
(* The steps. *)

\* An SSR has given m to t, or to nobody, and counted it.
LEMMA Concludes ==
  ASSUME MutexInv, NEW c \in Callers, MayCall(c), NEW d, Leave(c, d),
         Valid(d), Held(d), Sound(d, Calm'), Lists',
         NEW m \in Mutexes, NEW t \in Tasks \union {NoTask}, d.onr = [k.onr EXCEPT ![m] = t],
         NEW n \in Nat, n <= MaxNest[m], n > 0 <=> t # NoTask,
         ncnt' = [ncnt EXCEPT ![m] = n]
  PROVE  MutexInv'
  <1>1. KernelInv /\ Nests /\ k.onr \in [Mutexes -> Tasks \union {NoTask}]
    BY DEF MutexInv, Sound, Good, Linked, KernelType
  <1>2. KernelInv' /\ k' = d
    <2>1. KernelInv'
      BY <1>1, Left
    <2> QED BY <2>1 DEF Leave
  <1>3. Sound(k', Calm')
    <2> DEFINE R == Calm'
    <2> HIDE DEF R
    <2>1. Sound(d, R)
      BY DEF R
    <2>2. Sound(k', R)
      BY <1>2, <2>1
    <2> QED BY <2>2 DEF R
  <1>4. Nests'
    <2>1. ncnt' \in [Mutexes -> Nat]
      BY <1>1 DEF Nests
    <2>2. ASSUME NEW x \in Mutexes
          PROVE  ncnt'[x] <= MaxNest[x] /\ (ncnt'[x] > 0 <=> k'.onr[x] # NoTask)
      <3>1. CASE x = m
        BY <1>1, <1>2, <3>1 DEF Nests
      <3>2. CASE x # m
        BY <1>1, <1>2, <3>2 DEF Nests
      <3> QED BY <3>1, <3>2
    <2> QED BY <2>1, <2>2 DEF Nests
  <1> QED BY <1>2, <1>3, <1>4 DEF MutexInv

\* The same owners, another count.
LEMMA SameLists ==
  ASSUME Lists, k'.onr = k.onr, mol' = mol, nested' = nested
  PROVE  Lists' /\ Calm' = Calm
  BY DEF Lists, Calm

LEMMA GiveUpStep ==
  ASSUME MutexInv, NEW c \in Callers, MayCall(c), NEW m \in Mutexes, k.onr[m] # NoTask,
         GiveUp(c, m)
  PROVE  MutexInv'
  <1> DEFINE r == Disown(m)
             t == Head(r.q[m])
  <1>1. Sound(r, Calm \ {m}) /\ r.onr = k.onr
    <2> DEFINE o == k.onr[m]
               Q == Calm \ {m}
    <2>1. o \in Tasks
      BY DEF MutexInv, Sound, Good, Linked, KernelType
    <2> HIDE DEF o, r
    <2>2. o = k.onr[m] /\ r = Disown(m)
      BY DEF o, r
    <2>3. Sound(r, Calm \ {m}) /\ Handed(k, r, Mutexes)
      BY <2>1, <2>2, Disowned
    <2> QED BY <2>3 DEF Handed, Kept
  <1>2. 1 \in Nat /\ 0 \in Nat /\ 1 <= MaxNest[m] /\ 0 <= MaxNest[m] /\ 1 > 0 /\ ~(0 > 0)
    BY MutexAssumption
  <1>3. CASE r.q[m] # <<>>
    <2> DEFINE d == HandOver(r, m)
    <2>1. Leave(c, d) /\ ncnt' = [ncnt EXCEPT ![m] = 1] /\ UpdateMol(Pass(m, t))
      BY <1>3 DEF GiveUp
    <2>2. t \in Tasks /\ HandsOn(r, d, m, t)
      <3> DEFINE Q == Calm \ {m}
      <3> HIDE DEF Q, r
      <3>1. Sound(r, Q)
        BY <1>1 DEF Q
      <3> HIDE DEF d, t
      <3>2. d = HandOver(r, m) /\ t = Head(r.q[m])
        BY DEF d, t
      <3> QED BY <1>3, <3>1, <3>2, HandedOver
    <2> HIDE DEF d, t
    <2>3. k'.onr = d.onr
      BY <2>1 DEF Leave
    <2>4. r = Disown(m)
      OBVIOUS
    <2> HIDE DEF r
    <2>5. Valid(d) /\ Held(d) /\ Sound(d, Calm') /\ Lists'
      BY <2>1, <2>2, <2>3, <2>4, GivenUp
    <2>6. d.onr = [k.onr EXCEPT ![m] = t] /\ t # NoTask
      BY <1>1, <2>2, QueuesAssumption DEF HandsOn
    <2> DEFINE n == 1
    <2>7. n \in Nat /\ n <= MaxNest[m] /\ n > 0 /\ ncnt' = [ncnt EXCEPT ![m] = n]
      BY <1>2, <2>1
    <2> HIDE DEF n
    <2>8. t \in Tasks \union {NoTask} /\ (n > 0 <=> t # NoTask)
      BY <2>2, <2>6, <2>7
    <2>9. Leave(c, d)
      BY <2>1
    <2>10. d.onr = [k.onr EXCEPT ![m] = t]
      BY <2>6
    <2>11. n \in Nat /\ n <= MaxNest[m] /\ ncnt' = [ncnt EXCEPT ![m] = n]
      BY <2>7
    <2> QED BY <2>5, <2>8, <2>9, <2>10, <2>11, Concludes
  <1>4. CASE r.q[m] = <<>>
    <2> DEFINE d == Ownerless(r, m)
    <2>1. Leave(c, d) /\ ncnt' = [ncnt EXCEPT ![m] = 0] /\ UpdateMol(Pass(m, NoTask))
      BY <1>4 DEF GiveUp, Ownerless
    <2>2. r = Disown(m)
      OBVIOUS
    <2> HIDE DEF r
    <2>3. Good(r, Tasks) /\ d = Ownerless(r, m)
      BY <1>1 DEF Sound
    <2> HIDE DEF d
    <2>4. HandsOn(r, d, m, NoTask)
      BY <1>4, <2>3, SetFree
    <2>5. k'.onr = d.onr
      BY <2>1 DEF Leave
    <2> DEFINE z == NoTask
               n == 0
    <2>6. /\ z \in Tasks \union {NoTask} /\ HandsOn(r, d, m, z) /\ UpdateMol(Pass(m, z))
          /\ z = NoTask
      BY <2>1, <2>4
    <2>7. n \in Nat /\ n <= MaxNest[m] /\ ~(n > 0) /\ ncnt' = [ncnt EXCEPT ![m] = n]
      BY <1>2, <2>1
    <2> HIDE DEF z, n
    <2>8. Valid(d) /\ Held(d) /\ Sound(d, Calm') /\ Lists'
      BY <2>2, <2>5, <2>6, GivenUp
    <2>9. d.onr = [k.onr EXCEPT ![m] = z]
      BY <1>1, <2>6 DEF HandsOn
    <2> QED BY <2>1, <2>6, <2>7, <2>8, <2>9, Concludes
  <1> QED BY <1>3, <1>4

LEMMA ClearStep ==
  ASSUME MutexInv, NEW c \in Callers, NEW m \in Mutexes, MutexClear(c, m)
  PROVE  MutexInv'
  <1> DEFINE r == Disown(m)
             e == Ownerless(r, m)
             n == Len(e.q[m])
             F == CHOOSE f : ClearRun(e, m, n, f)
             d == F[n]
  <1>1. MayCall(c) /\ k.onr[m] # NoTask /\ ncnt' = [ncnt EXCEPT ![m] = 0]
        /\ UpdateMol(Pass(m, NoTask))
    BY DEF MutexClear
  <1>2. Leave(c, d)
    BY DEF MutexClear, ClearRun, Release, Ownerless
  <1>3. Good(r, Tasks) /\ r.onr = k.onr
    <2> DEFINE o == k.onr[m]
    <2>1. o \in Tasks
      BY <1>1 DEF MutexInv, Sound, Good, Linked, KernelType
    <2> HIDE DEF o, r
    <2>2. o = k.onr[m] /\ r = Disown(m)
      BY DEF o, r
    <2>3. Sound(r, Calm \ {m}) /\ Handed(k, r, Mutexes)
      BY <2>1, <2>2, Disowned
    <2> QED BY <2>3 DEF Sound, Handed, Kept
  <1>4. HandsOn(r, d, m, NoTask)
    <2> HIDE DEF F, n, e, r
    <2>1. e = Ownerless(r, m) /\ n = Len(e.q[m]) /\ F = CHOOSE f : ClearRun(e, m, n, f)
      BY DEF F, n, e
    <2>2. HandsOn(r, F[n], m, NoTask)
      BY <1>3, <2>1, Cleared
    <2> QED BY <2>2
  <1> HIDE DEF d
  <1>5. r = Disown(m) /\ k'.onr = d.onr
    BY <1>2 DEF Leave
  <1> HIDE DEF r
  <1> DEFINE z == NoTask
             i == 0
  <1>6. /\ z \in Tasks \union {NoTask} /\ HandsOn(r, d, m, z) /\ UpdateMol(Pass(m, z))
        /\ z = NoTask
    BY <1>1, <1>4
  <1>7. i \in Nat /\ i <= MaxNest[m] /\ ~(i > 0) /\ ncnt' = [ncnt EXCEPT ![m] = i]
    BY <1>1, MutexAssumption
  <1> HIDE DEF z, i
  <1>8. Valid(d) /\ Held(d) /\ Sound(d, Calm') /\ Lists'
    BY <1>1, <1>5, <1>6, GivenUp
  <1>9. d.onr = [k.onr EXCEPT ![m] = z]
    BY <1>3, <1>6 DEF HandsOn
  <1> QED BY <1>1, <1>2, <1>6, <1>7, <1>8, <1>9, Concludes

LEMMA RelStep ==
  ASSUME MutexInv, NEW m \in Mutexes, MutexRel(m)
  PROVE  MutexInv'
  <1> DEFINE c == "task"
  <1>1. c \in Callers /\ MayCall(c) /\ k.onr[m] = ct
    BY DEF Callers, MutexRel
  <1>2. ct # NoTask /\ ct \in Tasks
    BY QueuesAssumption DEF MutexInv, KernelInv
  <1>3. CASE ncnt[m] = 1 /\ GiveUp("task", m)
    <2>1. GiveUp(c, m)
      BY <1>3
    <2> HIDE DEF c
    <2> QED BY <1>1, <1>2, <2>1, GiveUpStep
  <1>4. CASE /\ ncnt[m] > 1 /\ Leave("task", k)
             /\ ncnt' = [ncnt EXCEPT ![m] = @ - 1] /\ UNCHANGED <<mol, nested>>
    <2> DEFINE n == ncnt[m] - 1
    <2>1. /\ KernelInv /\ Valid(k) /\ Held(k) /\ Sound(k, Calm) /\ Lists
          /\ k.onr \in [Mutexes -> Tasks \union {NoTask}]
      BY DEF MutexInv, KernelInv, Sound, Good, Linked, KernelType
    <2>2. n \in Nat /\ n <= MaxNest[m] /\ n > 0 /\ ncnt' = [ncnt EXCEPT ![m] = n]
      <3>1. ncnt[m] \in Nat /\ MaxNest[m] \in Nat /\ ncnt[m] <= MaxNest[m] /\ ncnt[m] > 1
        BY <1>4, MutexAssumption DEF MutexInv, Nests
      <3>2. n \in Nat /\ n <= MaxNest[m] /\ n > 0
        BY <3>1
      <3>3. ncnt' = [ncnt EXCEPT ![m] = n]
        BY <1>4
      <3> QED BY <3>2, <3>3
    <2> HIDE DEF n
    <2>3. k' = k /\ mol' = mol /\ nested' = nested /\ Leave(c, k)
      BY <1>4 DEF Leave
    <2>4. Lists' /\ Calm' = Calm
      BY <2>1, <2>3, SameLists
    <2>5. Sound(k, Calm')
      BY <2>1, <2>4
    <2>6. k.onr = [k.onr EXCEPT ![m] = ct]
      BY <1>1, <2>1
    <2> HIDE DEF c
    <2> DEFINE d == k
    <2>7. /\ Leave(c, d) /\ Valid(d) /\ Held(d) /\ Sound(d, Calm')
          /\ d.onr = [k.onr EXCEPT ![m] = ct]
      BY <2>1, <2>3, <2>5, <2>6
    <2> HIDE DEF d
    <2>8. ct \in Tasks \union {NoTask} /\ (n > 0 <=> ct # NoTask)
      BY <1>2, <2>2
    <2> QED BY <1>1, <2>2, <2>4, <2>7, <2>8, Concludes
  <1> QED BY <1>3, <1>4 DEF MutexRel

LEMMA FreeStep ==
  ASSUME MutexInv, NEW c \in Callers, NEW m \in Mutexes, MutexFree(c, m)
  PROVE  MutexInv'
  BY GiveUpStep DEF MutexFree

LEMMA GetGrants ==
  ASSUME MutexInv, CallerMayWait, NEW m \in Mutexes, k.onr[m] = NoTask,
         NEW r, r \in {k, Locked(k, 0)}, NEW stop,
         Leave("task", Stopping(Promote([r EXCEPT !.onr[m] = ct], m), stop)),
         ncnt' = [ncnt EXCEPT ![m] = 1], UpdateMol(Pass(m, ct))
  PROVE  MutexInv'
  <1> DEFINE c == "task"
             d == Promote([r EXCEPT !.onr[m] = ct], m)
             g == Stopping(d, stop)
             R == Calm'
             n == 1
  <1>0. ct \in Tasks /\ ct # NoTask /\ c \in Callers /\ MayCall(c)
    BY QueuesAssumption DEF MutexInv, KernelInv, Callers, MayCall, CallerMayWait
  <1>1. Leave(c, g) /\ k' = g
    BY DEF Leave
  <1>2. n \in Nat /\ n <= MaxNest[m] /\ (n > 0 <=> ct # NoTask) /\ ncnt' = [ncnt EXCEPT ![m] = n]
    BY <1>0, MutexAssumption
  <1> HIDE DEF n, c, R
  <1>3. /\ Valid(d) /\ Held(d) /\ Sound(d, Calm') /\ Lists'
        /\ d.onr = [k.onr EXCEPT ![m] = ct]
    <2>1. k' = Stopping(d, stop) /\ d = Promote([r EXCEPT !.onr[m] = ct], m)
      BY <1>1
    <2> HIDE DEF d, g
    <2> QED BY <2>1, Granted
  <1>4. Sound(d, R)
    BY <1>3 DEF R
  <1>5. g = Stopping(d, stop)
    OBVIOUS
  <1> HIDE DEF d, g
  <1>6. Valid(g) /\ Held(g) /\ Sound(g, R) /\ g.onr = d.onr
    BY <1>0, <1>3, <1>4, <1>5, StoppingSound
  <1>7. Sound(g, Calm') /\ g.onr = [k.onr EXCEPT ![m] = ct]
    BY <1>3, <1>6 DEF R
  <1>8. ct \in Tasks \union {NoTask}
    BY <1>0
  <1> QED BY <1>0, <1>1, <1>2, <1>3, <1>6, <1>7, <1>8, Concludes

LEMMA GetCounts ==
  ASSUME MutexInv, CallerMayWait, NEW m \in Mutexes, k.onr[m] = ct, ncnt[m] < MaxNest[m],
         NEW r, r \in {k, Locked(k, 0)}, NEW stop, Leave("task", Stopping(r, stop)),
         ncnt' = [ncnt EXCEPT ![m] = @ + 1], mol' = mol, nested' = nested
  PROVE  MutexInv'
  <1> DEFINE c == "task"
             g == Stopping(r, stop)
             Q == Calm
             n == ncnt[m] + 1
  <1>0. ct \in Tasks /\ ct # NoTask /\ c \in Callers /\ MayCall(c)
    BY QueuesAssumption DEF MutexInv, KernelInv, Callers, MayCall, CallerMayWait
  <1>1. Leave(c, g) /\ k' = g
    BY DEF Leave
  <1>2. n \in Nat /\ n <= MaxNest[m] /\ n > 0 /\ ncnt' = [ncnt EXCEPT ![m] = n]
    <2>1. ncnt[m] \in Nat /\ MaxNest[m] \in Nat
      BY MutexAssumption DEF MutexInv, Nests
    <2>2. n \in Nat /\ n <= MaxNest[m] /\ n > 0
      BY <2>1
    <2> QED BY <2>2
  <1> HIDE DEF n, c, Q
  <1>3. /\ Valid(r) /\ Held(r) /\ Sound(r, Q) /\ r.onr = k.onr /\ Lists
        /\ k.onr \in [Mutexes -> Tasks \union {NoTask}]
    <2>1. Valid(r) /\ Held(r) /\ Sound(r, Calm) /\ r.onr = k.onr
      BY CallerData
    <2> QED BY <2>1 DEF Q, MutexInv, Sound, Good, Linked, KernelType
  <1>4. g = Stopping(r, stop)
    OBVIOUS
  <1> HIDE DEF g
  <1>5. Valid(g) /\ Held(g) /\ Sound(g, Q) /\ g.onr = r.onr
    BY <1>0, <1>3, <1>4, StoppingSound
  <1>6. Lists' /\ Calm' = Calm
    BY <1>1, <1>3, <1>5, SameLists
  <1>7. Sound(g, Calm') /\ g.onr = [k.onr EXCEPT ![m] = ct]
    BY <1>3, <1>5, <1>6 DEF Q
  <1>8. ct \in Tasks \union {NoTask} /\ (n > 0 <=> ct # NoTask)
    BY <1>0, <1>2
  <1> QED BY <1>0, <1>1, <1>2, <1>5, <1>6, <1>7, <1>8, Concludes

LEMMA GetWaits ==
  ASSUME MutexInv, CallerMayWait, NEW m \in Mutexes, InOrder(m), k.onr[m] \notin {NoTask, ct},
         NEW tmo \in Timeouts, NEW r, r \in {k, Locked(k, 0)}, NEW stop,
         Leave("task", Stopping(IF tmo = "NOWAIT" THEN r ELSE Wait(r, m, tmo), stop)),
         ncnt' = ncnt, mol' = mol, nested' = nested
  PROVE  MutexInv'
  <1> DEFINE c == "task"
             d == IF tmo = "NOWAIT" THEN r ELSE Wait(r, m, tmo)
             g == Stopping(d, stop)
             Q == Calm
  <1>0. ct \in Tasks /\ c \in Callers /\ MayCall(c)
    BY DEF MutexInv, KernelInv, Callers, MayCall, CallerMayWait
  <1>1. Leave(c, g)
    OBVIOUS
  <1>2. Valid(d) /\ Held(d) /\ Sound(d, Calm) /\ d.onr = k.onr
    <2>1. CASE tmo = "NOWAIT"
      <3>1. Valid(r) /\ Held(r) /\ Sound(r, Calm) /\ r.onr = k.onr
        BY CallerData
      <3> QED BY <2>1, <3>1
    <2>2. CASE tmo # "NOWAIT"
      <3>1. d = Wait(r, m, "SET")
        BY <2>2 DEF Timeouts
      <3> HIDE DEF d
      <3> QED BY <3>1, Waits
    <2> QED BY <2>1, <2>2
  <1> HIDE DEF c, d, Q
  <1>3. Sound(d, Q) /\ g = Stopping(d, stop)
    BY <1>2 DEF Q
  <1> HIDE DEF g
  <1>4. Valid(g) /\ Held(g) /\ Sound(g, Q) /\ g.onr = d.onr
    BY <1>0, <1>2, <1>3, StoppingSound
  <1>5. Stays(c, g)
    BY <1>1, <1>2, <1>4 DEF Stays, Q
  <1> QED BY <1>0, <1>5, StaysStep

LEMMA GetStep ==
  ASSUME MutexInv, NEW m \in Mutexes, NEW tmo \in Timeouts,
         NEW r, r \in {k, Locked(k, 0)}, NEW stop, MutexGet_F(r, m, tmo, stop)
  PROVE  MutexInv'
  <1>1. CallerMayWait /\ InOrder(m)
    BY DEF MutexGet_F
  <1>2. CASE /\ k.onr[m] = NoTask
             /\ Leave("task", Stopping(Promote([r EXCEPT !.onr[m] = ct], m), stop))
             /\ ncnt' = [ncnt EXCEPT ![m] = 1]
             /\ UpdateMol(Pass(m, ct))
    BY <1>1, <1>2, GetGrants
  <1>3. CASE /\ k.onr[m] = ct
             /\ ncnt[m] < MaxNest[m]
             /\ Leave("task", Stopping(r, stop))
             /\ ncnt' = [ncnt EXCEPT ![m] = @ + 1]
             /\ UNCHANGED <<mol, nested>>
    BY <1>1, <1>3, GetCounts
  <1>4. CASE /\ k.onr[m] \notin {NoTask, ct}
             /\ Leave("task", Stopping(IF tmo = "NOWAIT" THEN r ELSE Wait(r, m, tmo), stop))
             /\ UNCHANGED <<ncnt, mol, nested>>
    BY <1>1, <1>4, GetWaits
  <1> QED BY <1>2, <1>3, <1>4 DEF MutexGet_F

LEMMA MutexStep ==
  ASSUME MutexInv, MutexNext
  PROVE  MutexInv'
  <1>1. CASE OtherSSR
    BY <1>1, OtherStep
  <1>2. CASE MutexSSR
    <2>1. PICK m \in Mutexes :
            \/ \E tmo \in Timeouts : MutexGet(m, tmo) \/ MutexGetStop(m, tmo)
            \/ MutexRel(m)
            \/ \E c \in Callers : MutexFree(c, m) \/ MutexClear(c, m)
      BY <1>2 DEF MutexSSR
    <2>2. ASSUME NEW tmo \in Timeouts, MutexGet(m, tmo)
          PROVE  MutexInv'
      <3> DEFINE r == IF tmo = "NOWAIT" THEN k ELSE [k EXCEPT !.lockctr = 0]
                 stop == FALSE
      <3>1. r \in {k, Locked(k, 0)} /\ MutexGet_F(r, m, tmo, stop)
        BY <2>2 DEF MutexGet, Locked
      <3> HIDE DEF r, stop
      <3> QED BY <3>1, GetStep
    <2>3. ASSUME NEW tmo \in Timeouts, MutexGetStop(m, tmo)
          PROVE  MutexInv'
      <3> DEFINE r == k
                 stop == TRUE
      <3>1. r \in {k, Locked(k, 0)} /\ MutexGet_F(r, m, tmo, stop)
        BY <2>3 DEF MutexGetStop
      <3> HIDE DEF r, stop
      <3> QED BY <3>1, GetStep
    <2>4. CASE MutexRel(m)
      BY <2>4, RelStep
    <2>5. ASSUME NEW c \in Callers, MutexFree(c, m)
          PROVE  MutexInv'
      BY <2>5, FreeStep
    <2>6. ASSUME NEW c \in Callers, MutexClear(c, m)
          PROVE  MutexInv'
      BY <2>6, ClearStep
    <2> QED BY <2>1, <2>2, <2>3, <2>4, <2>5, <2>6
  <1> QED BY <1>1, <1>2 DEF MutexNext

LEMMA MutexUnchanged ==
  ASSUME MutexInv, UNCHANGED mutexVars
  PROVE  MutexInv'
  <1>1. k' = k /\ ct' = ct /\ pc' = pc /\ ncnt' = ncnt /\ mol' = mol /\ nested' = nested
    BY DEF mutexVars
  <1>2. KernelInv'
    BY <1>1 DEF MutexInv, KernelInv, Valid, Held
  <1>3. Lists' /\ Nests' /\ Calm' = Calm
    BY <1>1, SameOwners DEF MutexInv
  <1>4. Sound(k', Calm')
    BY <1>1, <1>3 DEF MutexInv
  <1> QED BY <1>2, <1>3, <1>4 DEF MutexInv

LEMMA MutexInitInv == MutexInit => MutexInv
  <1> SUFFICES ASSUME MutexInit PROVE MutexInv
    OBVIOUS
  <1>1. KernelInv /\ Unowned(k) /\ Good(k, Tasks)
    BY InitInv DEF MutexInit, KernelInv, Valid
  <1>2. k.onr = [m \in Mutexes |-> NoTask] /\ k.pri = InitPri /\ k.prinorm = InitPri
    BY DEF MutexInit, Init
  <1>3. \A u \in Tasks : InitPri[u] \in Int
    BY KernelAssumption, QueuesAssumption DEF Levels
  <1>4. NoTask \notin Tasks
    BY QueuesAssumption
  <1>5. \A m \in Mutexes : \A u : ~Contains(k.q[m], u)
    BY <1>1, EmptyQueue DEF Unowned
  <1>6. Sorted(k)
    BY <1>1, EmptyDescending DEF Sorted, Unowned
  <1>7. Tidy(k)
    BY <1>2, <1>3, <1>5 DEF Tidy
  <1>8. Calm = {}
    BY <1>2, <1>4 DEF Calm
  <1> DEFINE Q == Calm
  <1>9. Q = {}
    BY <1>8
  <1> HIDE DEF Q
  <1>10. Served(k, Q, {})
    BY <1>9 DEF Served, Sole
  <1>11. Sound(k, Calm)
    BY <1>1, <1>6, <1>7, <1>10 DEF Sound, Q
  <1>12. Lists
    <2>1. mol = [t \in Tasks |-> <<>>] /\ nested = {}
      BY DEF MutexInit
    <2>2. Len(<<>>) = 0 /\ Injective(<<>>)
      BY DEF Injective
    <2> QED BY <1>2, <1>4, <2>1, <2>2, EmptyQueue DEF Lists
  <1>13. Nests
    BY <1>2, MutexAssumption DEF MutexInit, Nests
  <1> QED BY <1>1, <1>11, <1>12, <1>13 DEF MutexInv

-----------------------------------------------------------------------------
(* The theorems. *)

(***************************************************************************)
(* The invariant that the others rest on: the queues and the scheduler's   *)
(* data are right, and so are the priorities, wherever the chains of       *)
(* owners lead.                                                            *)
(***************************************************************************)
THEOREM MutexInvariance == MutexSpec => []MutexInv
  <1>1. MutexInit => MutexInv
    BY MutexInitInv
  <1>2. MutexInv /\ [MutexNext]_mutexVars => MutexInv'
    BY MutexStep, MutexUnchanged
  <1> QED BY <1>1, <1>2, PTL DEF MutexSpec

LEMMA SortedIfInv ==
  ASSUME MutexInv
  PROVE  MutexWaitersSorted
  <1> SUFFICES ASSUME NEW m \in Mutexes, NEW i \in 1..(Len(k.q[m]) - 1)
               PROVE  k.pri[k.q[m][i]] >= k.pri[k.q[m][i + 1]]
    BY DEF MutexWaitersSorted
  <1>1. Descending(k.q[m], k.pri) /\ Linked(k)
    BY DEF MutexInv, Sound, Sorted, Good
  <1>2. Len(k.q[m]) \in Nat
    BY <1>1, MutexQueue, LenProperties
  <1>3. i \in 1..Len(k.q[m]) /\ i + 1 \in 1..Len(k.q[m]) /\ i < i + 1
    BY <1>2
  <1> QED BY <1>1, <1>3 DEF Descending

(***************************************************************************)
(* The tasks that wait for a mutex are in the order of their priorities.   *)
(***************************************************************************)
THEOREM MutexWaitersAlwaysSorted == MutexSpec => []MutexWaitersSorted
  <1>1. MutexInv => MutexWaitersSorted
    BY SortedIfInv
  <1> QED BY <1>1, MutexInvariance, PTL

LEMMA RestoredIfInv ==
  ASSUME MutexInv
  PROVE  PriorityRestored
  <1> SUFFICES ASSUME NEW t \in Tasks
               PROVE  /\ k.pri[t] >= k.prinorm[t]
                      /\ mol[t] = <<>> => k.pri[t] = k.prinorm[t]
    BY DEF PriorityRestored
  <1>1. Tidy(k) /\ Lists
    BY DEF MutexInv, Sound
  <1>2. mol[t] = <<>> => ~Owns(k, t)
    BY <1>1, EmptyQueue DEF Lists, Owns
  <1> QED BY <1>1, <1>2 DEF Tidy

(***************************************************************************)
(* A task that owns no mutex has its normal priority, and no task has less *)
(* than that, whatever promoted or demoted it along a chain of owners.     *)
(***************************************************************************)
THEOREM PriorityAlwaysRestored == MutexSpec => []PriorityRestored
  <1>1. MutexInv => PriorityRestored
    BY RestoredIfInv
  <1> QED BY <1>1, MutexInvariance, PTL

LEMMA NoInversionIfInv ==
  ASSUME MutexInv
  PROVE  NoInversion
  <1> SUFFICES ASSUME NEW m \in Mutexes, k.onr[m] \in Tasks \ nested
               PROVE  k.pri[k.onr[m]] >= CallsFor(m)
    BY DEF NoInversion
  <1> DEFINE S == {Ceil[m]} \union IF m \in Inherit /\ k.q[m] # <<>>
                                      THEN {k.pri[Head(k.q[m])]} ELSE {}
  <1>1. Linked(k) /\ k \in KernelType /\ Served(k, Calm, {}) /\ m \in Calm
    BY DEF MutexInv, Sound, Good, Linked, Calm
  <1>2. CeilMet(k, m) /\ HeadMet(k, m)
    BY <1>1 DEF Served
  <1>3. \A y \in S : k.pri[k.onr[m]] >= y
    BY <1>2 DEF CeilMet, HeadMet
  <1>4. S \in SUBSET (0..MaxPri) /\ S # {}
    <2>1. Ceil[m] \in Levels
      BY <1>1, MutexQueue
    <2>2. k.q[m] # <<>> => k.pri[Head(k.q[m])] \in Levels
      BY <1>1, MutexQueue, Priorities
    <2> QED BY <2>1, <2>2 DEF Levels
  <1>5. CallsFor(m) = Max(S)
    BY DEF CallsFor
  <1> HIDE DEF S
  <1>6. Max(S) \in S
    BY <1>4, QueuesAssumption, MaxProperties
  <1> QED BY <1>3, <1>5, <1>6

(***************************************************************************)
(* No priority inversion, for a task that has not held several mutexes at  *)
(* once: the owner of a mutex has at least its ceiling and the priority of *)
(* the first task that waits for it, however long the chain of owners.     *)
(***************************************************************************)
THEOREM NeverInverted == MutexSpec => []NoInversion
  <1>1. MutexInv => NoInversion
    BY NoInversionIfInv
  <1> QED BY <1>1, MutexInvariance, PTL

\* How often a list holds an element that it holds once, or not at all.
LEMMA CountedOnce ==
  ASSUME NEW S, NEW s \in Seq(S), Injective(s), NEW x
  PROVE  Cardinality({i \in DOMAIN s : s[i] = x}) = IF Contains(s, x) THEN 1 ELSE 0
  <1> DEFINE I == {i \in DOMAIN s : s[i] = x}
  <1>1. DOMAIN s = 1..Len(s)
    BY LenProperties
  <1>2. CASE Contains(s, x)
    <2>1. PICK i \in 1..Len(s) : s[i] = x
      BY <1>2 DEF Contains
    <2>2. I = {i}
      BY <1>1, <2>1 DEF Injective
    <2> HIDE DEF I
    <2>3. Cardinality(I) = 1
      BY <2>2, FS_Singleton
    <2> QED BY <1>2, <2>3 DEF I
  <1>3. CASE ~Contains(s, x)
    <2>1. I = {}
      BY <1>1, <1>3 DEF Contains
    <2> HIDE DEF I
    <2>2. Cardinality(I) = 0
      BY <2>1, FS_EmptySet
    <2> QED BY <1>3, <2>2 DEF I
  <1> QED BY <1>2, <1>3

LEMMA ConsistentOwnersIfInv ==
  ASSUME MutexInv
  PROVE  OwnershipConsistent
  <1>1. KernelInv /\ Linked(k) /\ k \in KernelType /\ Tidy(k) /\ Lists /\ Nests
    BY DEF MutexInv, Sound, Good, Linked
  <1>2. MutexTypeOK
    <2>1. TypeOK
      BY <1>1 DEF KernelInv, Valid, TypeOK
    <2>2. ASSUME NEW m \in Mutexes
          PROVE  ncnt[m] \in 0..MaxNest[m]
      <3>1. ncnt[m] \in Nat /\ MaxNest[m] \in Nat /\ ncnt[m] <= MaxNest[m]
        BY <1>1, MutexAssumption DEF Nests
      <3> QED BY <3>1
    <2> QED BY <1>1, <2>1, <2>2 DEF MutexTypeOK, Lists
  <1>3. ASSUME NEW m \in Mutexes, NEW t \in Tasks
        PROVE  Cardinality({i \in DOMAIN mol[t] : mol[t][i] = m}) = (IF k.onr[m] = t THEN 1 ELSE 0)
    <2>1. mol[t] \in Seq(Mutexes) /\ Injective(mol[t]) /\ (Contains(mol[t], m) <=> k.onr[m] = t)
      BY <1>1 DEF Lists
    <2> DEFINE s == mol[t]
    <2> HIDE DEF s
    <2>2. s \in Seq(Mutexes) /\ Injective(s)
      BY <2>1 DEF s
    <2>3. Cardinality({i \in DOMAIN s : s[i] = m}) = IF Contains(s, m) THEN 1 ELSE 0
      BY <2>2, CountedOnce
    <2> QED BY <2>1, <2>3 DEF s
  <1>4. ASSUME NEW m \in Mutexes, k.q[m] # <<>>
        PROVE  k.onr[m] # NoTask /\ ~Contains(k.q[m], k.onr[m])
    <2>1. Head(k.q[m]) \in Tasks /\ Contains(k.q[m], Head(k.q[m]))
      BY <1>1, <1>4, MutexQueue
    <2>2. k.onr[m] \in Tasks
      BY <1>1, <2>1 DEF Tidy
    <2>3. Contains(k.q[m], k.onr[m]) => Rank[m] < Rank[m]
      BY <1>1, <2>2 DEF Tidy
    <2>4. ~(Rank[m] < Rank[m])
      BY MutexAssumption
    <2> QED BY <2>2, <2>3, <2>4, QueuesAssumption
  <1>5. \A m \in Mutexes : ncnt[m] > 0 <=> k.onr[m] # NoTask
    BY <1>1 DEF Nests
  <1>6. RqTopCorrect
    BY <1>1, ConsistentIfInv DEF QueuesConsistent
  <1> QED BY <1>2, <1>3, <1>4, <1>5, <1>6 DEF OwnershipConsistent

(***************************************************************************)
(* The mutex-owned lists, the owners and the nesting counts agree; nobody  *)
(* waits for a mutex that has no owner, nor for one of his own; and        *)
(* smx_rqtop is right after every promotion and demotion.                  *)
(***************************************************************************)
THEOREM OwnershipAlwaysConsistent == MutexSpec => []OwnershipConsistent
  <1>1. MutexInv => OwnershipConsistent
    BY ConsistentOwnersIfInv
  <1> QED BY <1>1, MutexInvariance, PTL
=============================================================================
