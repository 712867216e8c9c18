-------------------------- MODULE SmxKernelProofs ---------------------------
(***************************************************************************)
(* Theorems about SmxKernel, for every number of tasks and of priorities.  *)
(*                                                                         *)
(* Each SSR takes a task out of the ready queue, changes its fields, and   *)
(* puts it back, or not; in between the kernel's data is not consistent    *)
(* as far as this task goes.  Good(r, S) says that the data r is, as far   *)
(* as the tasks of S go; the lemmas say what each routine of SmxQueues     *)
(* does to it.                                                             *)
(***************************************************************************)
EXTENDS SmxKernel, SmxLemmas, TLAPS

-----------------------------------------------------------------------------
(* Consistent data. *)

\* Every queue, of a level or of an object.
Places == Levels \union Objs

\* The queues: no task is in two places, and the others of its fields agree.
Linked(r) ==
    /\ r \in KernelType
    /\ \A x \in Places : Injective(r.q[x])
    /\ \A x, y \in Places, u \in Tasks :
         Contains(r.q[x], u) /\ Contains(r.q[y], u) => x = y
    /\ \A u \in Tasks : r.state[u] # "WAIT" <=> InRq(r, u)
    /\ r.rqtop # 0 => r.q[r.rqtop] # <<>>
    /\ \A p \in Levels : p > r.rqtop => r.q[p] = <<>>

\* No task waits for a mutex, so that no owner is promoted.
Unowned(r) == \A m \in Mutexes : r.q[m] = <<>>

\* A task in the ready queue is at its level and has no timeout.
Placed(r, u) ==
    InRq(r, u) => Contains(r.q[r.pri[u]], u) /\ r.timeout[u] = "INF"

Good(r, S) == Linked(r) /\ \A u \in S : Placed(r, u)

\* The fields that the routines on queues leave alone, as they do rv.
SameFields(r, d) == /\ d.pri = r.pri /\ d.prinorm = r.prinorm /\ d.pritmo = r.pritmo
                    /\ d.timeout = r.timeout /\ d.onr = r.onr
                    /\ d.sp = r.sp /\ d.sched = r.sched
                    /\ d.lockctr = r.lockctr /\ d.begun = r.begun

LEMMA InRqDef ==
  ASSUME NEW r \in KernelType, NEW u
  PROVE  InRq(r, u) <=> \E p \in Levels : Contains(r.q[p], u)
  <1>1. DOMAIN r.q = Levels \union Objs
    BY DEF KernelType
  <1> QED BY <1>1 DEF InRq, QueuesOf

LEMMA QueuedDef ==
  ASSUME NEW r \in KernelType, NEW u
  PROVE  Queued(r, u) <=> \E x \in Places : Contains(r.q[x], u)
  <1>1. DOMAIN r.q = Places
    BY DEF KernelType, Places
  <1> QED BY <1>1 DEF Queued, QueuesOf

LEMMA EmptyQueue == \A v : ~Contains(<<>>, v)
  BY DEF Contains

\* A ready task is in no other queue.
LEMMA ReadyQueued ==
  ASSUME NEW r, Linked(r), NEW u \in Tasks, InRq(r, u)
  PROVE  /\ Queued(r, u) /\ ~InPrq(r, u)
         /\ QueuesOf(r, u) \intersect Mutexes = {}
         /\ \A o \in Objs : ~Contains(r.q[o], u)
  <1>1. r \in KernelType /\ DOMAIN r.q = Places
    BY DEF Linked, KernelType, Places
  <1>2. PICK p \in Levels : Contains(r.q[p], u)
    BY <1>1, InRqDef
  <1>3. ASSUME NEW o \in Objs, Contains(r.q[o], u) PROVE FALSE
    <2>1. o = p
      BY <1>2, <1>3 DEF Linked, Places
    <2> QED BY <1>3, <2>1, QueuesAssumption
  <1> QED BY <1>1, <1>2, <1>3, QueuedDef DEF InPrq, QueuesOf, Objs, Places

LEMMA UnownedQueues ==
  ASSUME NEW r \in KernelType, Unowned(r), NEW u
  PROVE  QueuesOf(r, u) \intersect Mutexes = {}
  BY EmptyQueue DEF Unowned, QueuesOf

\* The level smx_rqtop points to is not empty when some task is ready.
LEMMA TopNotEmpty ==
  ASSUME NEW r, Linked(r), NEW u \in Tasks, InRq(r, u)
  PROVE  /\ r.q[r.rqtop] # <<>> /\ r.rqtop \in Levels
         /\ Top(r) \in Tasks /\ InRq(r, Top(r))
         /\ Contains(r.q[r.rqtop], Top(r))
  <1>1. r \in KernelType /\ r.rqtop \in Levels /\ r.q[r.rqtop] \in Seq(Tasks)
    BY DEF Linked, KernelType
  <1>2. PICK p \in Levels : Contains(r.q[p], u)
    BY <1>1, InRqDef
  <1>3. r.q[p] # <<>>
    BY <1>2 DEF Contains
  <1>4. ~(p > r.rqtop)
    BY <1>3 DEF Linked
  <1>5. r.q[r.rqtop] # <<>>
    <2>1. CASE r.rqtop = 0
      BY <1>1, <1>3, <1>4, <2>1, QueuesAssumption DEF Levels
    <2>2. CASE r.rqtop # 0
      BY <2>2 DEF Linked
    <2> QED BY <2>1, <2>2
  <1> DEFINE s == r.q[r.rqtop]
  <1>6. s \in Seq(Tasks) /\ s # <<>>
    BY <1>1, <1>5
  <1> HIDE DEF s
  <1>7. Len(s) \in Nat /\ Len(s) # 0
    BY <1>6, EmptySeq, LenProperties
  <1>8. Head(s) = s[1] /\ 1 \in 1..Len(s)
    BY <1>6, <1>7
  <1>9. Contains(s, Head(s)) /\ Head(s) \in Tasks
    BY <1>6, <1>8, ElementOfSeq DEF Contains
  <1>10. Top(r) = Head(s)
    BY DEF Top, s
  <1> QED BY <1>1, <1>5, <1>9, <1>10, InRqDef DEF s

-----------------------------------------------------------------------------
(* What the routines of SmxQueues do to consistent data. *)

LEMMA MaxProperties ==
  ASSUME NEW n \in Nat, NEW S \in SUBSET (0..n), S # {}
  PROVE  Max(S) \in S /\ \A y \in S : Max(S) >= y
  <1>1. \E x \in S : \A y \in S : x >= y
    BY GreatestNumber
  <1> QED BY <1>1 DEF Max

\* The highest level of a ready queue that holds a task, or 0.
LEMMA TopLevel ==
  ASSUME NEW n \in Levels, NEW q, NEW m,
         m = Max({p \in 0..n : q[p] # <<>>} \union {0})
  PROVE  /\ m \in 0..n
         /\ m # 0 => q[m] # <<>>
         /\ \A p \in 0..n : p > m => q[p] = <<>>
  <1> DEFINE S == {p \in 0..n : q[p] # <<>>} \union {0}
  <1>1. n \in Nat /\ S \in SUBSET (0..n) /\ S # {}
    BY DEF Levels
  <1>2. \A p \in 0..n : q[p] # <<>> => p \in S
    OBVIOUS
  <1>3. \A p \in S : p # 0 => q[p] # <<>>
    OBVIOUS
  <1> HIDE DEF S
  <1>4. m \in S /\ \A y \in S : m >= y
    BY <1>1, MaxProperties DEF S
  <1>5. m \in 0..n /\ (m # 0 => q[m] # <<>>)
    BY <1>1, <1>3, <1>4
  <1>6. ASSUME NEW p \in 0..n, p > m PROVE q[p] = <<>>
    <2>1. ~(m >= p)
      BY <1>1, <1>5, <1>6
    <2> QED BY <1>2, <1>4, <2>1
  <1> QED BY <1>5, <1>6

\* Data whose queues, top level and task states have been replaced by ones of
\* their types is kernel data: the shape of every queue operation.
LEMMA Retyped ==
  ASSUME NEW r \in KernelType,
         NEW q2 \in [Levels \union Objs -> Seq(Tasks)],
         NEW state2 \in [Tasks -> {"RUN", "READY", "WAIT"}]
  PROVE  [r EXCEPT !.q = q2, !.state = state2] \in KernelType
  BY DEF KernelType

LEMMA RetypedTop ==
  ASSUME NEW r \in KernelType,
         NEW q2 \in [Levels \union Objs -> Seq(Tasks)], NEW m \in Levels,
         NEW state2 \in [Tasks -> {"RUN", "READY", "WAIT"}]
  PROVE  [r EXCEPT !.q = q2, !.rqtop = m, !.state = state2] \in KernelType
  BY DEF KernelType

\* The data after task t has been taken out of the queues.
Out(r, t) == [Unlink(r, t) EXCEPT !.state[t] = "WAIT"]

LEMMA Unlinked ==
  ASSUME NEW r, Linked(r), NEW t \in Tasks,
         NEW d, d = Out(r, t)
  PROVE  /\ d \in KernelType /\ SameFields(r, d) /\ d.rv = r.rv /\ d.rqtop = r.rqtop
         /\ \A x \in Places :
              /\ d.q[x] = Without(r.q[x], t)
              /\ Injective(d.q[x])
              /\ \A u : Contains(d.q[x], u) <=> Contains(r.q[x], u) /\ u # t
         /\ d.state[t] = "WAIT"
         /\ \A u \in Tasks \ {t} : d.state[u] = r.state[u]
  <1> DEFINE q2 == [x \in Places |-> Without(r.q[x], t)]
  <1>1. r \in KernelType /\ r.q \in [Places -> Seq(Tasks)]
    BY DEF Linked, KernelType, Places
  <1>2. ASSUME NEW x \in Places
        PROVE  /\ Without(r.q[x], t) \in Seq(Tasks)
               /\ Injective(Without(r.q[x], t))
               /\ \A u : Contains(Without(r.q[x], t), u) <=> Contains(r.q[x], u) /\ u # t
    <2>1. r.q[x] \in Seq(Tasks) /\ Injective(r.q[x])
      BY <1>1 DEF Linked
    <2> QED BY <2>1, WithoutProperties
  <1>3. q2 \in [Places -> Seq(Tasks)]
    BY <1>2
  <1>4. d = [r EXCEPT !.q = q2, !.state = [r.state EXCEPT ![t] = "WAIT"]]
    BY <1>1 DEF Out, Unlink, KernelType
  <1>5. d \in KernelType /\ d.q = q2
    <2> HIDE DEF q2
    <2> DEFINE state2 == [r.state EXCEPT ![t] = "WAIT"]
    <2>1. state2 \in [Tasks -> {"RUN", "READY", "WAIT"}]
      BY <1>1 DEF KernelType
    <2>2. d = [r EXCEPT !.q = q2, !.state = state2]
      BY <1>4
    <2> HIDE DEF state2
    <2>3. d.q = q2
      BY <1>1, <2>2 DEF KernelType
    <2>4. /\ r \in KernelType /\ r.rqtop \in Levels
          /\ q2 \in [Levels \union Objs -> Seq(Tasks)]
      BY <1>1, <1>3 DEF KernelType, Places
    <2>5. [r EXCEPT !.q = q2, !.state = state2] \in KernelType
      BY <2>1, <2>4, Retyped, Zenon
    <2>6. d \in KernelType
      BY <2>2, <2>5
    <2> QED BY <2>3, <2>6
  <1>6. SameFields(r, d) /\ d.rv = r.rv /\ d.rqtop = r.rqtop
    <2> DEFINE state2 == [r.state EXCEPT ![t] = "WAIT"]
    <2>1. d = [r EXCEPT !.q = q2, !.state = state2]
      BY <1>4
    <2> HIDE DEF q2, state2
    <2> QED BY <1>1, <2>1 DEF KernelType, SameFields
  <1>7. d.state[t] = "WAIT" /\ \A u \in Tasks \ {t} : d.state[u] = r.state[u]
    <2> HIDE DEF q2
    <2> QED BY <1>1, <1>4 DEF KernelType
  <1> QED BY <1>2, <1>5, <1>6, <1>7

LEMMA Dequeued ==
  ASSUME NEW r, Linked(r), NEW t \in Tasks, NEW d, d = DQRQTask(r, t)
  PROVE  /\ Linked(d) /\ SameFields(r, d) /\ d.rv = r.rv
         /\ ~InRq(d, t) /\ ~Queued(d, t)
         /\ \A u \in Tasks \ {t} : /\ InRq(d, u) <=> InRq(r, u)
                                   /\ d.state[u] = r.state[u]
         /\ \A x \in Places, u \in Tasks \ {t} : Contains(d.q[x], u) <=> Contains(r.q[x], u)
         /\ \A o \in Objs : d.q[o] = Without(r.q[o], t)
         /\ r.q[r.rqtop] # <<>> /\ Top(r) # t => Top(d) = Top(r)
  <1> DEFINE e == Out(r, t)
  <1>1. /\ e \in KernelType /\ SameFields(r, e) /\ e.rv = r.rv /\ e.rqtop = r.rqtop
        /\ \A x \in Places :
             /\ e.q[x] = Without(r.q[x], t)
             /\ Injective(e.q[x])
             /\ \A u : Contains(e.q[x], u) <=> Contains(r.q[x], u) /\ u # t
        /\ e.state[t] = "WAIT"
        /\ \A u \in Tasks \ {t} : e.state[u] = r.state[u]
    <2>1. e = Out(r, t)
      OBVIOUS
    <2> HIDE DEF e
    <2> QED BY <2>1, Unlinked
  <1>2. d = IF r.q[r.rqtop] = <<t>> THEN Lower(e) ELSE e
    BY Zenon DEF DQRQTask, Out
  <1> HIDE DEF e
  <1>3. r \in KernelType /\ r.rqtop \in Levels /\ r.q[r.rqtop] \in Seq(Tasks)
    BY DEF Linked, KernelType
  <1>4. /\ d \in KernelType /\ SameFields(r, d) /\ d.rv = r.rv /\ d.q = e.q /\ d.state = e.state
        /\ d.rqtop # 0 => d.q[d.rqtop] # <<>>
        /\ \A p \in Levels : p > d.rqtop => d.q[p] = <<>>
    <2>0. \A p \in Levels : p > r.rqtop => e.q[p] = <<>>
      BY <1>1 DEF Linked, Without, Contains, Places
    <2>1. CASE r.q[r.rqtop] = <<t>>
      <3> DEFINE m == Max({p \in 0..e.rqtop : e.q[p] # <<>>} \union {0})
      <3>1. /\ m \in 0..e.rqtop
            /\ m # 0 => e.q[m] # <<>>
            /\ \A p \in 0..e.rqtop : p > m => e.q[p] = <<>>
        BY <1>1, <1>3, TopLevel
      <3>2. d = [e EXCEPT !.rqtop = m]
        BY <1>2, <2>1 DEF Lower
      <3> HIDE DEF m
      <3>3. m \in Levels
        BY <1>1, <1>3, <3>1, QueuesAssumption DEF Levels
      <3>4. /\ d \in KernelType /\ d.q = e.q /\ d.state = e.state /\ d.rqtop = m
            /\ SameFields(e, d) /\ d.rv = e.rv
        BY <1>1, <3>2, <3>3 DEF KernelType, SameFields
      <3>5. \A p \in Levels : p > m => e.q[p] = <<>>
        BY <1>1, <1>3, <2>0, <3>1, QueuesAssumption DEF Levels
      <3> QED BY <1>1, <3>1, <3>4, <3>5 DEF SameFields
    <2>2. CASE r.q[r.rqtop] # <<t>>
      <3>1. d = e
        BY <1>2, <2>2
      <3>2. r.rqtop # 0 => e.q[r.rqtop] # <<>>
        <4> SUFFICES ASSUME r.rqtop # 0 PROVE e.q[r.rqtop] # <<>>
          OBVIOUS
        <4>1. r.q[r.rqtop] # <<>> /\ Injective(r.q[r.rqtop])
          BY <1>3 DEF Linked, Places
        <4>2. Without(r.q[r.rqtop], t) # <<>>
          BY <1>3, <2>2, <4>1, WithoutProperties
        <4> QED BY <1>1, <1>3, <4>2 DEF Places
      <3> QED BY <1>1, <2>0, <3>1, <3>2
    <2> QED BY <2>1, <2>2
  <1>5. /\ ~InRq(d, t) /\ ~Queued(d, t)
        /\ \A u \in Tasks \ {t} : InRq(d, u) <=> InRq(r, u)
    BY <1>1, <1>3, <1>4, InRqDef, QueuedDef DEF Places
  <1>6. \A x \in Places, u \in Tasks \ {t} : Contains(d.q[x], u) <=> Contains(r.q[x], u)
    BY <1>1, <1>4
  <1>7. Linked(d)
    <2>1. \A u \in Tasks : d.state[u] # "WAIT" <=> InRq(d, u)
      BY <1>1, <1>4, <1>5 DEF Linked
    <2>2. \A x, y \in Places, u \in Tasks :
            Contains(d.q[x], u) /\ Contains(d.q[y], u) => x = y
      BY <1>1, <1>4 DEF Linked
    <2> QED BY <1>1, <1>4, <2>1, <2>2 DEF Linked
  <1>8. r.q[r.rqtop] # <<>> /\ Top(r) # t => Top(d) = Top(r)
    <2> SUFFICES ASSUME r.q[r.rqtop] # <<>>, Top(r) # t
                 PROVE  Top(d) = Top(r)
      OBVIOUS
    <2> DEFINE s == r.q[r.rqtop]
    <2>1. s \in Seq(Tasks) /\ s # <<>> /\ Injective(s) /\ Head(s) # t
      BY <1>3 DEF Linked, Top, Places
    <2>2. s # <<t>>
      BY <2>1
    <2>3. d = e
      BY <1>2, <2>2
    <2>4. e.q[e.rqtop] = Without(s, t)
      BY <1>1, <1>3 DEF Places
    <2>5. Top(d) = Head(Without(s, t)) /\ Top(r) = Head(s)
      BY <2>3, <2>4 DEF Top
    <2> HIDE DEF s
    <2>6. Head(s) = s[1]
      BY <2>1
    <2>7. Without(s, t) \in Seq(Tasks) /\ Without(s, t) # <<>> /\ Without(s, t)[1] = s[1]
      BY <2>1, <2>6, WithoutProperties
    <2>8. Head(Without(s, t)) = s[1]
      BY <2>7
    <2> QED BY <2>5, <2>6, <2>8
  <1>9. \A o \in Objs : d.q[o] = Without(r.q[o], t)
    BY <1>1, <1>4 DEF Places
  <1> QED BY <1>1, <1>4, <1>5, <1>6, <1>7, <1>8, <1>9

LEMMA Enqueued ==
  ASSUME NEW r, Linked(r), NEW t \in Tasks, ~Queued(r, t), NEW d, d = NQRQTask(r, t)
  PROVE  /\ Linked(d) /\ SameFields(r, d) /\ d.rv = r.rv
         /\ InRq(d, t) /\ Contains(d.q[d.pri[t]], t)
         /\ \A u \in Tasks \ {t} : InRq(d, u) <=> InRq(r, u)
         /\ \A x \in Places, u \in Tasks \ {t} : Contains(d.q[x], u) <=> Contains(r.q[x], u)
         /\ \A o \in Objs : d.q[o] = r.q[o]
  <1> DEFINE l  == r.pri[t]
             s  == r.q[l]
             q2 == [r.q EXCEPT ![l] = Append(s, t)]
             m  == IF l > r.rqtop THEN l ELSE r.rqtop
             state2 == [r.state EXCEPT ![t] = "READY"]
  <1>1. /\ r \in KernelType /\ l \in Levels /\ r.rqtop \in Levels
        /\ r.q \in [Levels \union Objs -> Seq(Tasks)]
        /\ r.state \in [Tasks -> {"RUN", "READY", "WAIT"}]
    BY DEF Linked, KernelType
  <1>2. s \in Seq(Tasks) /\ Injective(s) /\ \A x \in Places : ~Contains(r.q[x], t)
    BY <1>1, QueuedDef DEF Linked, Places
  <1>3. /\ Append(s, t) \in Seq(Tasks) /\ Append(s, t) # <<>>
        /\ Injective(Append(s, t))
        /\ \A u : Contains(Append(s, t), u) <=> Contains(s, u) \/ u = t
    <2> HIDE DEF s
    <2>1. ~Contains(s, t)
      BY <1>1, <1>2 DEF s, Places
    <2> QED BY <1>2, <2>1, AppendContains
  <1>4. d = [r EXCEPT !.q = q2, !.rqtop = m, !.state = state2]
    BY <1>1 DEF NQRQTask, KernelType
  <1>5. /\ q2 \in [Levels \union Objs -> Seq(Tasks)]
        /\ m \in Levels /\ m >= l /\ m >= r.rqtop
        /\ m = l \/ m = r.rqtop
        /\ state2 \in [Tasks -> {"RUN", "READY", "WAIT"}]
    <2>1. q2 \in [Levels \union Objs -> Seq(Tasks)]
      BY <1>1, <1>3
    <2>2. state2 \in [Tasks -> {"RUN", "READY", "WAIT"}]
      BY <1>1
    <2>3. l \in Int /\ r.rqtop \in Int
      BY <1>1 DEF Levels
    <2>4. m \in Levels /\ m >= l /\ m >= r.rqtop /\ (m = l \/ m = r.rqtop)
      <3> HIDE DEF l
      <3> QED BY <1>1, <2>3
    <2> QED BY <2>1, <2>2, <2>4
  <1>6. /\ q2[l] = Append(s, t)
        /\ \A x \in (Levels \union Objs) \ {l} : q2[x] = r.q[x]
        /\ state2[t] = "READY"
        /\ \A u \in Tasks \ {t} : state2[u] = r.state[u]
    BY <1>1
  <1> HIDE DEF q2, m, state2, l, s
  <1>7. d.q = q2 /\ d.rqtop = m /\ d.state = state2 /\ SameFields(r, d) /\ d.rv = r.rv
    BY <1>1, <1>4 DEF KernelType, SameFields
  <1>8. d \in KernelType
    <2>1. [r EXCEPT !.q = q2, !.rqtop = m, !.state = state2] \in KernelType
      BY <1>1, <1>5, RetypedTop, Zenon
    <2> QED BY <1>4, <2>1
  <1>9. \A x \in Places : \A u : Contains(q2[x], u) <=> Contains(r.q[x], u) \/ (x = l /\ u = t)
    BY <1>1, <1>3, <1>6 DEF s, Places
  <1>10. /\ InRq(d, t)
         /\ \A u \in Tasks \ {t} : InRq(d, u) <=> InRq(r, u)
    BY <1>1, <1>7, <1>8, <1>9, InRqDef DEF Places
  <1>11. d.pri[t] = l
    BY <1>7 DEF SameFields, l
  <1>12. Linked(d)
    <2>2. \A x \in Places : Injective(q2[x])
      BY <1>3, <1>6 DEF Linked, Places
    <2>3. \A x, y \in Places, u \in Tasks :
            Contains(q2[x], u) /\ Contains(q2[y], u) => x = y
      <3>1. \A x, y \in Places, u \in Tasks :
              Contains(r.q[x], u) /\ Contains(r.q[y], u) => x = y
        BY DEF Linked
      <3> QED BY <1>2, <1>9, <3>1
    <2>4. \A u \in Tasks : d.state[u] # "WAIT" <=> InRq(d, u)
      BY <1>6, <1>7, <1>10 DEF Linked
    <2>5. m # 0 => q2[m] # <<>>
      <3>1. CASE m = l
        BY <3>1, <1>3, <1>6
      <3>2. CASE m # l
        BY <3>2, <1>1, <1>5, <1>6 DEF Linked
      <3> QED BY <3>1, <3>2
    <2>6. ASSUME NEW p \in Levels, p > m PROVE q2[p] = <<>>
      <3>1. p > r.rqtop /\ p # l
        BY <1>1, <1>5, <2>6 DEF Levels
      <3>2. r.q[p] = <<>>
        BY <3>1 DEF Linked
      <3> QED BY <3>1, <3>2, <1>6
    <2> QED BY <1>7, <1>8, <2>2, <2>3, <2>4, <2>5, <2>6 DEF Linked
  <1>13. \A o \in Objs : d.q[o] = r.q[o]
    BY <1>1, <1>6, <1>7, QueuesAssumption
  <1>14. \A x \in Places, u \in Tasks \ {t} : Contains(d.q[x], u) <=> Contains(r.q[x], u)
    BY <1>7, <1>9
  <1>15. Contains(d.q[d.pri[t]], t)
    BY <1>1, <1>7, <1>9, <1>11 DEF Places
  <1> QED BY <1>7, <1>10, <1>12, <1>13, <1>14, <1>15

\* Where no task waits for a mutex, no owner is demoted.
LEMMA DQTaskIsDQRQTask ==
  ASSUME NEW r \in KernelType, Unowned(r), NEW t
  PROVE  DQTask(r, t) = DQRQTask(r, t)
  BY UnownedQueues DEF DQTask, FirstAt

\* Nor is one promoted.
LEMMA ReQTaskIsRequeue ==
  ASSUME NEW r \in KernelType, Unowned(r), NEW t
  PROVE  ReQTask(r, t) = Requeue(r, t)
  BY UnownedQueues DEF ReQTask

\* Where tasks are depends on the queues only.
LEMMA SameQueues ==
  ASSUME NEW r, NEW d, d.q = r.q, NEW t
  PROVE  (InRq(d, t) <=> InRq(r, t)) /\ (Queued(d, t) <=> Queued(r, t))
  BY DEF InRq, Queued, QueuesOf

\* A record that differs from a consistent one in other fields only.
LEMMA StillLinked ==
  ASSUME NEW r, Linked(r), NEW d \in KernelType,
         d.q = r.q, d.rqtop = r.rqtop, d.state = r.state
  PROVE  /\ Linked(d)
         /\ \A u \in Tasks : InRq(d, u) <=> InRq(r, u)
         /\ Top(d) = Top(r)
  <1>1. \A u \in Tasks : InRq(d, u) <=> InRq(r, u)
    BY SameQueues
  <1> QED BY <1>1 DEF Linked, Top

\* The tasks other than t are ready in d if they are in r.
Others(r, d, t) == \A u \in Tasks \ {t} : InRq(d, u) <=> InRq(r, u)

\* As SameFields, but smx_sched may have become CTTEST, or must have.
Asked(r, d) == \/ d.sched = r.sched /\ (r.sched = "NOP" => r.lockctr # 0)
               \/ r.sched = "NOP" /\ d.sched = "CTTEST"

\* Nothing that concerns the tasks in the queues of objects has changed.
Same(r, d) == /\ d.q = r.q /\ d.pri = r.pri /\ d.rv = r.rv
              /\ d.prinorm = r.prinorm /\ d.onr = r.onr

\* Of what concerns a task's place outside the ready queue, only t's has changed.
Apart(r, d, t) == /\ \A u \in Tasks \ {t} : d.pri[u] = r.pri[u] /\ d.rv[u] = r.rv[u]
                  /\ d.rv[t] => r.rv[t]

\* t is no longer in the queue of an object, if it was, and all else is there.
Aside(r, d, t) == Apart(r, d, t) /\ \A o \in Objs : d.q[o] = Without(r.q[o], t)

\* The queues of objects have not changed.
Beside(r, d, t) == Apart(r, d, t) /\ \A o \in Objs : d.q[o] = r.q[o]

LEMMA AsideCompose ==
  ASSUME NEW r, NEW d, NEW e, NEW t
  PROVE  /\ Aside(r, d, t) /\ Beside(d, e, t) => Aside(r, e, t)
         /\ Beside(r, d, t) /\ Aside(d, e, t) => Aside(r, e, t)
         /\ Beside(r, d, t) /\ Beside(d, e, t) => Beside(r, e, t)
         /\ Same(r, d) => Beside(r, d, t)
  BY DEF Aside, Beside, Apart, Same

\* t is taken out of its queue by smx_DQRQTask().
LEMMA Taken ==
  ASSUME NEW r, NEW t \in Tasks, Good(r, Tasks \ {t}), NEW d, d = DQRQTask(r, t)
  PROVE  /\ Good(d, Tasks) /\ SameFields(r, d) /\ d.rv = r.rv
         /\ ~InRq(d, t) /\ ~Queued(d, t) /\ Others(r, d, t) /\ Aside(r, d, t)
         /\ r.q[r.rqtop] # <<>> /\ Top(r) # t => Top(d) = Top(r)
  <1>1. Linked(r) /\ r \in KernelType /\ \A u \in Tasks \ {t} : Placed(r, u)
    BY DEF Good, Linked
  <1>2. /\ Linked(d) /\ SameFields(r, d) /\ d.rv = r.rv
        /\ ~InRq(d, t) /\ ~Queued(d, t)
        /\ \A u \in Tasks \ {t} : /\ InRq(d, u) <=> InRq(r, u)
                                  /\ d.state[u] = r.state[u]
        /\ \A x \in Places, u \in Tasks \ {t} : Contains(d.q[x], u) <=> Contains(r.q[x], u)
        /\ \A o \in Objs : d.q[o] = Without(r.q[o], t)
        /\ r.q[r.rqtop] # <<>> /\ Top(r) # t => Top(d) = Top(r)
    BY <1>1, Dequeued
  <1>3. \A u \in Tasks \ {t} : r.pri[u] \in Levels
    BY <1>1 DEF KernelType
  <1>4. \A u \in Tasks : Placed(d, u)
    BY <1>1, <1>2, <1>3 DEF Placed, SameFields, Places
  <1>5. Aside(r, d, t)
    BY <1>2 DEF Aside, Apart, SameFields
  <1> QED BY <1>2, <1>4, <1>5 DEF Good, Others

LEMMA Removed ==
  ASSUME NEW r, NEW t \in Tasks, Good(r, Tasks \ {t}), Unowned(r),
         NEW d, d = IF Queued(r, t) THEN DQTask(r, t) ELSE r
  PROVE  /\ Good(d, Tasks) /\ SameFields(r, d) /\ d.rv = r.rv
         /\ ~InRq(d, t) /\ ~Queued(d, t) /\ Others(r, d, t) /\ Aside(r, d, t)
         /\ r.q[r.rqtop] # <<>> /\ Top(r) # t => Top(d) = Top(r)
  <1>1. Linked(r) /\ r \in KernelType /\ \A u \in Tasks \ {t} : Placed(r, u)
    BY DEF Good, Linked
  <1>2. CASE Queued(r, t)
    <2>1. d = DQRQTask(r, t)
      BY <1>1, <1>2, DQTaskIsDQRQTask
    <2> QED BY <2>1, Taken
  <1>3. CASE ~Queued(r, t)
    <2>1. d = r
      BY <1>3
    <2>2. ~InRq(r, t)
      BY <1>3 DEF InRq, Queued
    <2>3. \A u \in Tasks : Placed(d, u)
      BY <1>1, <2>1, <2>2 DEF Placed
    <2>4. \A o \in Objs : ~Contains(r.q[o], t)
      BY <1>1, <1>3, QueuedDef DEF Places
    <2>5. Aside(r, d, t)
      BY <2>1, <2>4 DEF Aside, Apart, Without
    <2> QED BY <1>1, <1>3, <2>1, <2>2, <2>3, <2>5 DEF Good, Others, SameFields
  <1> QED BY <1>2, <1>3

\* t is made ready; only its timeout may be left over.
LEMMA Readied ==
  ASSUME NEW r, NEW t \in Tasks, Good(r, Tasks), ~Queued(r, t), NEW d, d = NQRQTask(r, t)
  PROVE  /\ Good(d, Tasks \ {t}) /\ SameFields(r, d) /\ d.rv = r.rv
         /\ InRq(d, t) /\ Contains(d.q[d.pri[t]], t) /\ Others(r, d, t) /\ Beside(r, d, t)
         /\ r.timeout[t] = "INF" => Good(d, Tasks)
  <1>1. /\ Linked(d) /\ SameFields(r, d) /\ d.rv = r.rv
        /\ InRq(d, t) /\ Contains(d.q[d.pri[t]], t)
        /\ \A u \in Tasks \ {t} : InRq(d, u) <=> InRq(r, u)
        /\ \A x \in Places, u \in Tasks \ {t} : Contains(d.q[x], u) <=> Contains(r.q[x], u)
        /\ \A o \in Objs : d.q[o] = r.q[o]
    BY Enqueued DEF Good
  <1>2. \A u \in Tasks \ {t} : r.pri[u] \in Levels
    BY DEF Good, Linked, KernelType
  <1>3. \A u \in Tasks \ {t} : Placed(d, u)
    BY <1>1, <1>2 DEF Good, Placed, SameFields, Places
  <1>4. r.timeout[t] = "INF" => Placed(d, t)
    BY <1>1 DEF Placed, SameFields
  <1>5. Beside(r, d, t)
    BY <1>1 DEF Beside, Apart, SameFields
  <1> QED BY <1>1, <1>3, <1>4, <1>5 DEF Good, Others

\* The first task is taken out of the queue of object o.
LEMMA Headless ==
  ASSUME NEW r, Good(r, Tasks), NEW o \in Objs, r.q[o] # <<>>,
         NEW t, t = Head(r.q[o]), NEW d, d = DQFTask(r, o)
  PROVE  /\ t \in Tasks /\ Good(d, Tasks) /\ ~Queued(d, t)
         /\ SameFields(r, d) /\ d.rv = r.rv
         /\ d.q[o] = Tail(r.q[o])
         /\ \A x \in Places \ {o} : d.q[x] = r.q[x]
         /\ \A u \in Tasks : InRq(d, u) <=> InRq(r, u)
  <1>1. /\ Linked(r) /\ r \in KernelType /\ o \in Places
        /\ r.q[o] \in Seq(Tasks) /\ Injective(r.q[o])
        /\ Levels \intersect Objs = {}
    BY QueuesAssumption DEF Good, Linked, KernelType, Places
  <1> DEFINE q2 == [r.q EXCEPT ![o] = Tail(@)]
  <1>2. /\ t \in Tasks /\ Contains(r.q[o], t)
        /\ Tail(r.q[o]) \in Seq(Tasks) /\ Injective(Tail(r.q[o]))
        /\ \A u : Contains(Tail(r.q[o]), u) <=> Contains(r.q[o], u) /\ u # t
    BY <1>1, TailContains
  <1>3. d = [r EXCEPT !.q = q2]
    BY <1>1 DEF DQFTask, KernelType
  <1>4. /\ q2 \in [Places -> Seq(Tasks)] /\ q2[o] = Tail(r.q[o])
        /\ \A x \in Places \ {o} : q2[x] = r.q[x]
    BY <1>1, <1>2 DEF KernelType, Places
  <1> HIDE DEF q2
  <1>5. /\ d \in KernelType /\ SameFields(r, d) /\ d.rv = r.rv
        /\ d.q = q2 /\ d.rqtop = r.rqtop /\ d.state = r.state
    BY <1>1, <1>3, <1>4 DEF KernelType, Places, SameFields
  <1>6. \A x \in Places, u \in Tasks \ {t} : Contains(d.q[x], u) <=> Contains(r.q[x], u)
    BY <1>2, <1>4, <1>5
  <1>7. \A p \in Levels : d.q[p] = r.q[p]
    BY <1>1, <1>4, <1>5 DEF Places
  <1>8. \A x \in Places : ~Contains(d.q[x], t)
    <2>1. ~Contains(d.q[o], t)
      BY <1>2, <1>4, <1>5
    <2>2. \A x \in Places \ {o} : d.q[x] = r.q[x]
      BY <1>4, <1>5
    <2>3. \A x \in Places \ {o} : ~Contains(r.q[x], t)
      BY <1>1, <1>2 DEF Linked
    <2> QED BY <2>1, <2>2, <2>3
  <1>9. ~Queued(d, t)
    BY <1>5, <1>8, QueuedDef
  <1>10. \A u \in Tasks : InRq(d, u) <=> InRq(r, u)
    BY <1>1, <1>5, <1>7, InRqDef
  <1>11. Linked(d)
    <2>1. \A x \in Places : Injective(d.q[x])
      BY <1>1, <1>2, <1>4, <1>5 DEF Linked
    <2>2. \A x, y \in Places, u \in Tasks :
            Contains(d.q[x], u) /\ Contains(d.q[y], u) => x = y
      BY <1>1, <1>6, <1>8 DEF Linked
    <2>3. r.rqtop \in Levels
      BY <1>1 DEF KernelType
    <2> QED BY <1>1, <1>5, <1>7, <1>10, <2>1, <2>2, <2>3 DEF Linked
  <1>12. \A u \in Tasks : Placed(d, u)
    <2>1. \A u \in Tasks : r.pri[u] \in Levels
      BY <1>1 DEF KernelType
    <2> QED BY <1>5, <1>7, <1>10, <2>1 DEF Good, Placed, SameFields
  <1> QED BY <1>2, <1>4, <1>5, <1>9, <1>10, <1>11, <1>12 DEF Good

\* The queue of object o becomes w.
WithQueue(r, o, w) == [r EXCEPT !.q[o] = w]

\* t, which is in no queue, is put into the queue of object o, which is then w.
LEMMA Lined ==
  ASSUME NEW r, Good(r, Tasks), NEW t \in Tasks, ~Queued(r, t), NEW o \in Objs,
         NEW w \in Seq(Tasks), Injective(w),
         \A u : Contains(w, u) <=> Contains(r.q[o], u) \/ u = t,
         NEW d, d = WithQueue(r, o, w)
  PROVE  /\ Good(d, Tasks) /\ SameFields(r, d) /\ d.rv = r.rv
         /\ d.q[o] = w
         /\ \A x \in Places \ {o} : d.q[x] = r.q[x]
         /\ \A u \in Tasks : InRq(d, u) <=> InRq(r, u)
  <1>1. /\ Linked(r) /\ r \in KernelType /\ o \in Places
        /\ Levels \intersect Objs = {}
    BY QueuesAssumption DEF Good, Linked, Places
  <1> DEFINE q2 == [r.q EXCEPT ![o] = w]
  <1>2. d = [r EXCEPT !.q = q2]
    BY <1>1 DEF KernelType, WithQueue
  <1>3. /\ q2 \in [Places -> Seq(Tasks)] /\ q2[o] = w
        /\ \A x \in Places \ {o} : q2[x] = r.q[x]
    BY <1>1 DEF KernelType, Places
  <1> HIDE DEF q2
  <1>4. /\ d \in KernelType /\ SameFields(r, d) /\ d.rv = r.rv
        /\ d.q = q2 /\ d.rqtop = r.rqtop /\ d.state = r.state
    BY <1>1, <1>2, <1>3 DEF KernelType, Places, SameFields
  <1>5. /\ \A x \in Places, u \in Tasks \ {t} : Contains(d.q[x], u) <=> Contains(r.q[x], u)
        /\ \A x \in Places : Contains(d.q[x], t) => x = o
    <2>1. \A x \in Places : ~Contains(r.q[x], t)
      BY <1>1, QueuedDef
    <2> QED BY <1>3, <1>4, <2>1
  <1>6. \A p \in Levels : d.q[p] = r.q[p]
    BY <1>1, <1>3, <1>4 DEF Places
  <1>7. \A u \in Tasks : InRq(d, u) <=> InRq(r, u)
    BY <1>1, <1>4, <1>6, InRqDef
  <1>8. Linked(d)
    <2>1. \A x \in Places : Injective(d.q[x])
      BY <1>1, <1>3, <1>4 DEF Linked
    <2>2. \A x, y \in Places, u \in Tasks :
            Contains(d.q[x], u) /\ Contains(d.q[y], u) => x = y
      BY <1>1, <1>5 DEF Linked
    <2>3. r.rqtop \in Levels
      BY <1>1 DEF KernelType
    <2> QED BY <1>1, <1>4, <1>6, <1>7, <2>1, <2>2, <2>3 DEF Linked
  <1>9. \A u \in Tasks : Placed(d, u)
    <2>1. \A u \in Tasks : r.pri[u] \in Levels
      BY <1>1 DEF KernelType
    <2> QED BY <1>4, <1>6, <1>7, <2>1 DEF Good, Placed, SameFields
  <1> QED BY <1>3, <1>4, <1>7, <1>8, <1>9 DEF Good

LEMMA Unmarked ==
  ASSUME NEW r, NEW t \in Tasks, Good(r, Tasks \ {t}),
         InRq(r, t) => Contains(r.q[r.pri[t]], t),
         NEW d, d = NoTimeout(r, t)
  PROVE  /\ Good(d, Tasks) /\ \A u \in Tasks : InRq(d, u) <=> InRq(r, u)
         /\ Top(d) = Top(r) /\ Same(r, d) /\ d.timeout[t] = "INF"
         /\ d.sp = r.sp /\ d.sched = r.sched /\ d.lockctr = r.lockctr /\ d.begun = r.begun
  <1>1. r \in KernelType /\ Linked(r)
    BY DEF Good, Linked
  <1>2. /\ d \in KernelType
        /\ d.q = r.q /\ d.rqtop = r.rqtop /\ d.state = r.state
        /\ d.pri = r.pri /\ d.prinorm = r.prinorm /\ d.onr = r.onr
        /\ d.sp = r.sp /\ d.sched = r.sched /\ d.lockctr = r.lockctr /\ d.begun = r.begun
        /\ d.timeout = [r.timeout EXCEPT ![t] = "INF"] /\ d.rv = r.rv
    BY <1>1 DEF NoTimeout, KernelType
  <1>3. /\ Linked(d) /\ Top(d) = Top(r)
        /\ \A u \in Tasks : InRq(d, u) <=> InRq(r, u)
    BY <1>1, <1>2, StillLinked
  <1>4. /\ d.timeout[t] = "INF"
        /\ \A u \in Tasks \ {t} : d.timeout[u] = r.timeout[u]
    BY <1>1, <1>2 DEF KernelType
  <1>5. \A u \in Tasks : Placed(d, u)
    BY <1>2, <1>3, <1>4 DEF Good, Placed
  <1> QED BY <1>2, <1>3, <1>4, <1>5 DEF Good, Same

LEMMA CtTested ==
  ASSUME NEW S, NEW r, Good(r, S), NEW d, d = DoCtTest(r)
  PROVE  /\ Good(d, S) /\ \A u \in Tasks : InRq(d, u) <=> InRq(r, u)
         /\ Top(d) = Top(r) /\ Same(r, d) /\ d.timeout = r.timeout
         /\ d.sp = r.sp /\ d.lockctr = r.lockctr /\ d.begun = r.begun
         /\ Asked(r, d)
  <1>1. r \in KernelType /\ Linked(r)
    BY DEF Good, Linked
  <1>2. /\ d \in KernelType
        /\ d.q = r.q /\ d.rqtop = r.rqtop /\ d.state = r.state
        /\ d.pri = r.pri /\ d.timeout = r.timeout /\ d.rv = r.rv
        /\ d.prinorm = r.prinorm /\ d.onr = r.onr
        /\ d.sp = r.sp /\ d.lockctr = r.lockctr /\ d.begun = r.begun
        /\ Asked(r, d)
    <2>1. CASE r.lockctr = 0 /\ r.sched = "NOP"
      <3>1. d = [r EXCEPT !.sched = "CTTEST"]
        BY <2>1 DEF DoCtTest
      <3> QED BY <1>1, <2>1, <3>1 DEF KernelType, Asked
    <2>2. CASE ~(r.lockctr = 0 /\ r.sched = "NOP")
      BY <1>1, <2>2 DEF DoCtTest, Asked
    <2> QED BY <2>1, <2>2
  <1>3. /\ Linked(d) /\ Top(d) = Top(r)
        /\ \A u \in Tasks : InRq(d, u) <=> InRq(r, u)
    BY <1>1, <1>2, StillLinked
  <1>4. \A u \in S : Placed(r, u) => Placed(d, u)
    BY <1>2 DEF Placed, InRq, QueuesOf
  <1> QED BY <1>2, <1>3, <1>4 DEF Good, Same

LEMMA ResumedTask ==
  ASSUME NEW r, NEW t \in Tasks, Good(r, Tasks), ~Queued(r, t), NEW d, d = Resume(r, t)
  PROVE  /\ Good(d, Tasks) /\ InRq(d, t) /\ Others(r, d, t) /\ Beside(r, d, t)
         /\ d.sp = r.sp /\ d.lockctr = r.lockctr /\ d.begun = r.begun
         /\ Asked(r, d)
  <1> DEFINE e == NQRQTask(r, t)
             f == NoTimeout(e, t)
  <1>1. d = DoCtTest(f)
    BY DEF Resume
  <1>2. /\ Good(e, Tasks \ {t}) /\ SameFields(r, e)
        /\ InRq(e, t) /\ Contains(e.q[e.pri[t]], t) /\ Others(r, e, t) /\ Beside(r, e, t)
    BY Readied
  <1> HIDE DEF e
  <1>3. /\ Good(f, Tasks) /\ \A u \in Tasks : InRq(f, u) <=> InRq(e, u)
        /\ f.sp = e.sp /\ f.sched = e.sched /\ f.lockctr = e.lockctr /\ f.begun = e.begun
        /\ Same(e, f)
    BY <1>2, Unmarked
  <1> HIDE DEF f
  <1>4. /\ Good(d, Tasks) /\ \A u \in Tasks : InRq(d, u) <=> InRq(f, u)
        /\ d.sp = f.sp /\ d.lockctr = f.lockctr /\ d.begun = f.begun
        /\ Asked(f, d) /\ Same(f, d)
    BY <1>1, <1>3, CtTested
  <1>5. Beside(r, d, t)
    BY <1>2, <1>3, <1>4, AsideCompose
  <1> QED BY <1>2, <1>3, <1>4, <1>5 DEF Others, SameFields, Asked

\* What smx_ReQTask() does to a ready task: t goes to the end of its level.
LEMMA Requeued ==
  ASSUME NEW r, NEW t \in Tasks, Good(r, Tasks \ {t}), InRq(r, t),
         r.timeout[t] = "INF", NEW d, d = Requeue(r, t)
  PROVE  /\ Good(d, Tasks) /\ \A u \in Tasks : InRq(d, u) <=> InRq(r, u)
         /\ d.pri = r.pri /\ d.prinorm = r.prinorm /\ d.onr = r.onr /\ d.timeout = r.timeout
         /\ d.sp = r.sp /\ d.lockctr = r.lockctr /\ d.begun = r.begun
         /\ Asked(r, d) /\ Beside(r, d, t) /\ d.rv = r.rv
  <1> DEFINE o == DQRQTask(r, t)
             e == NQRQTask(o, t)
  <1>1. /\ Linked(r) /\ r \in KernelType
        /\ r.state[t] # "WAIT" /\ r.state[t] \in {"RUN", "READY", "WAIT"}
        /\ \A x \in Objs : ~Contains(r.q[x], t)
    BY ReadyQueued DEF Good, Linked, KernelType
  <1>2. d = DoCtTest(e)
    BY <1>1 DEF Requeue
  <1>3. o = DQRQTask(r, t)
    OBVIOUS
  <1> HIDE DEF o
  <1>4. /\ Good(o, Tasks) /\ SameFields(r, o) /\ o.rv = r.rv
        /\ ~InRq(o, t) /\ ~Queued(o, t) /\ Others(r, o, t) /\ Aside(r, o, t)
    BY <1>3, Taken
  <1>5. Beside(r, o, t)
    BY <1>1, <1>4 DEF Aside, Beside, Without
  <1>6. /\ Good(e, Tasks) /\ SameFields(o, e) /\ InRq(e, t) /\ Others(o, e, t)
        /\ Beside(o, e, t) /\ e.rv = o.rv
    BY <1>4, Readied DEF SameFields
  <1> HIDE DEF e
  <1>7. /\ Good(d, Tasks) /\ \A u \in Tasks : InRq(d, u) <=> InRq(e, u)
        /\ d.sp = e.sp /\ d.lockctr = e.lockctr /\ d.begun = e.begun
        /\ d.timeout = e.timeout /\ Asked(e, d) /\ Same(e, d)
    BY <1>2, <1>6, CtTested
  <1>8. Beside(r, d, t)
    BY <1>5, <1>6, <1>7, AsideCompose
  <1> QED BY <1>4, <1>6, <1>7, <1>8 DEF Others, SameFields, Asked, Same

\* Only fields that no part of Good reads for t, which is not ready, differ.
LEMMA Changed ==
  ASSUME NEW r, NEW t \in Tasks, Good(r, Tasks), ~InRq(r, t), NEW d \in KernelType,
         d.q = r.q, d.rqtop = r.rqtop, d.state = r.state,
         \A u \in Tasks \ {t} : d.pri[u] = r.pri[u] /\ d.timeout[u] = r.timeout[u]
  PROVE  /\ Good(d, Tasks) /\ \A u \in Tasks : InRq(d, u) <=> InRq(r, u)
         /\ Top(d) = Top(r)
  <1>1. /\ Linked(d) /\ Top(d) = Top(r)
        /\ \A u \in Tasks : InRq(d, u) <=> InRq(r, u)
    BY StillLinked DEF Good
  <1>2. \A u \in Tasks : Placed(d, u)
    BY <1>1 DEF Good, Placed
  <1> QED BY <1>1, <1>2 DEF Good

LEMMA Marked ==
  ASSUME NEW r, NEW t \in Tasks, Good(r, Tasks), ~InRq(r, t),
         NEW d, d = TimeoutSet(r, t, "SET")
  PROVE  /\ Good(d, Tasks) /\ \A u \in Tasks : InRq(d, u) <=> InRq(r, u)
         /\ Top(d) = Top(r) /\ Same(r, d)
         /\ d.sp = r.sp /\ d.sched = r.sched /\ d.lockctr = r.lockctr /\ d.begun = r.begun
  <1> DEFINE timeout2 == [r.timeout EXCEPT ![t] = "SET"]
  <1>1. r \in KernelType
    BY DEF Good, Linked
  <1>2. /\ timeout2 \in [Tasks -> {"INF", "SET"}]
        /\ \A u \in Tasks \ {t} : timeout2[u] = r.timeout[u]
        /\ d = [r EXCEPT !.timeout = timeout2]
    BY <1>1 DEF KernelType, TimeoutSet
  <1> HIDE DEF timeout2
  <1>3. /\ d \in KernelType /\ d.q = r.q /\ d.rqtop = r.rqtop /\ d.state = r.state
        /\ d.pri = r.pri /\ d.timeout = timeout2 /\ d.rv = r.rv
    BY <1>1, <1>2 DEF KernelType
  <1>4. /\ d.sp = r.sp /\ d.sched = r.sched /\ d.lockctr = r.lockctr /\ d.begun = r.begun
        /\ d.prinorm = r.prinorm /\ d.onr = r.onr
    BY <1>1, <1>2 DEF KernelType
  <1>5. \A u \in Tasks \ {t} : d.pri[u] = r.pri[u] /\ d.timeout[u] = r.timeout[u]
    BY <1>2, <1>3
  <1>6. /\ Good(d, Tasks) /\ \A u \in Tasks : InRq(d, u) <=> InRq(r, u)
        /\ Top(d) = Top(r)
    BY <1>3, <1>5, Changed
  <1> QED BY <1>3, <1>4, <1>6 DEF Same

\* A return value is set or cleared.
Replied(r, t, b) == [r EXCEPT !.rv[t] = b]

LEMMA Answered ==
  ASSUME NEW r, NEW t \in Tasks, NEW S, Good(r, S), NEW b \in BOOLEAN,
         NEW d, d = Replied(r, t, b)
  PROVE  /\ Good(d, S) /\ \A u \in Tasks : InRq(d, u) <=> InRq(r, u)
         /\ Top(d) = Top(r) /\ d.rqtop = r.rqtop /\ d.q = r.q /\ SameFields(r, d)
         /\ d.rv = [r.rv EXCEPT ![t] = b]
  <1>1. r \in KernelType /\ Linked(r)
    BY DEF Good, Linked
  <1> DEFINE rv2 == [r.rv EXCEPT ![t] = b]
  <1>2. rv2 \in [Tasks -> BOOLEAN] /\ d = [r EXCEPT !.rv = rv2]
    BY <1>1 DEF KernelType, Replied
  <1> HIDE DEF rv2
  <1>3. d \in KernelType /\ d.q = r.q /\ d.rqtop = r.rqtop /\ d.state = r.state
    BY <1>1, <1>2 DEF KernelType
  <1>4. SameFields(r, d) /\ d.rv = rv2
    BY <1>1, <1>2 DEF KernelType, SameFields
  <1>5. /\ Linked(d) /\ Top(d) = Top(r)
        /\ \A u \in Tasks : InRq(d, u) <=> InRq(r, u)
    BY <1>1, <1>3, StillLinked
  <1>6. \A u \in S : Placed(r, u) => Placed(d, u)
    BY <1>3, <1>4, SameQueues DEF Placed, SameFields
  <1> QED BY <1>3, <1>4, <1>5, <1>6 DEF Good, rv2

LEMMA Unanswered ==
  ASSUME NEW r, NEW t \in Tasks, Good(r, Tasks), NEW d, d = [r EXCEPT !.rv[t] = FALSE]
  PROVE  /\ Good(d, Tasks) /\ \A u \in Tasks : InRq(d, u) <=> InRq(r, u)
         /\ Top(d) = Top(r) /\ d.rqtop = r.rqtop /\ d.q = r.q /\ SameFields(r, d)
         /\ Beside(r, d, t)
  <1>1. r.rv \in [Tasks -> BOOLEAN] /\ FALSE \in BOOLEAN /\ d = Replied(r, t, FALSE)
    BY DEF Good, Linked, KernelType, Replied
  <1>2. /\ Good(d, Tasks) /\ \A u \in Tasks : InRq(d, u) <=> InRq(r, u)
        /\ Top(d) = Top(r) /\ d.rqtop = r.rqtop /\ d.q = r.q /\ SameFields(r, d)
        /\ d.rv = [r.rv EXCEPT ![t] = FALSE]
    BY <1>1, Answered, Zenon
  <1>3. Beside(r, d, t)
    BY <1>1, <1>2 DEF Beside, Apart, SameFields
  <1> QED BY <1>2, <1>3

\* Detach(t) takes t out of its queue.
LEMMA Detached ==
  ASSUME NEW t \in Tasks, Good(k, Tasks), Unowned(k), NEW d, d = Detach(t)
  PROVE  /\ Good(d, Tasks) /\ SameFields(k, d)
         /\ ~InRq(d, t) /\ ~Queued(d, t) /\ Others(k, d, t) /\ Aside(k, d, t)
         /\ k.q[k.rqtop] # <<>> /\ Top(k) # t => Top(d) = Top(k)
  <1> DEFINE e == IF Queued(k, t) THEN DQTask(k, t) ELSE k
  <1>1. Good(k, Tasks \ {t})
    BY DEF Good
  <1>2. /\ Good(e, Tasks) /\ SameFields(k, e)
        /\ ~InRq(e, t) /\ ~Queued(e, t) /\ Others(k, e, t) /\ Aside(k, e, t)
        /\ k.q[k.rqtop] # <<>> /\ Top(k) # t => Top(e) = Top(k)
    BY <1>1, Removed
  <1>3. CASE Queued(k, t)
    <2>1. d = [e EXCEPT !.rv[t] = FALSE]
      BY <1>3, Zenon DEF Detach
    <2> HIDE DEF e
    <2>2. /\ Good(d, Tasks) /\ \A u \in Tasks : InRq(d, u) <=> InRq(e, u)
          /\ Top(d) = Top(e) /\ SameFields(e, d) /\ d.q = e.q /\ Beside(e, d, t)
      BY <1>2, <2>1, Unanswered
    <2>3. Aside(k, d, t) /\ ~Queued(d, t)
      BY <1>2, <2>2, AsideCompose, SameQueues
    <2> QED BY <1>2, <2>2, <2>3 DEF Others, SameFields
  <1>4. CASE ~Queued(k, t)
    <2>1. d = e
      BY <1>4 DEF Detach
    <2> QED BY <1>2, <2>1
  <1> QED BY <1>3, <1>4

LEMMA Stopped ==
  ASSUME NEW r, NEW t \in Tasks, Good(r, Tasks), NEW d, d = Stop(r, t)
  PROVE  /\ Good(d, Tasks) /\ \A u \in Tasks : InRq(d, u) <=> InRq(r, u)
         /\ Top(d) = Top(r) /\ Same(r, d)
         /\ d.lockctr = r.lockctr /\ d.begun = r.begun \ {t}
         /\ \A u \in Tasks \ {t} : d.sp[u] = r.sp[u]
         /\ t = ct => d.sched = "STOP" /\ d.sp = r.sp
         /\ t # ct => d.sched = r.sched
  <1>1. r \in KernelType /\ Linked(r)
    BY DEF Good, Linked
  <1> DEFINE sp2 == [r.sp EXCEPT ![t] = FALSE]
  <1>2. sp2 \in [Tasks -> BOOLEAN] /\ \A u \in Tasks \ {t} : sp2[u] = r.sp[u]
    BY <1>1 DEF KernelType
  <1>3. d = IF t = ct THEN [r EXCEPT !.begun = r.begun \ {t}, !.sched = "STOP"]
                      ELSE [r EXCEPT !.begun = r.begun \ {t}, !.sp = sp2]
    BY <1>1 DEF Stop, KernelType
  <1> HIDE DEF sp2
  <1>4. /\ d \in KernelType
        /\ d.q = r.q /\ d.rqtop = r.rqtop /\ d.state = r.state
        /\ d.pri = r.pri /\ d.timeout = r.timeout /\ d.rv = r.rv
        /\ d.prinorm = r.prinorm /\ d.onr = r.onr
        /\ d.lockctr = r.lockctr /\ d.begun = r.begun \ {t}
        /\ t = ct => d.sched = "STOP" /\ d.sp = r.sp
        /\ t # ct => d.sched = r.sched /\ d.sp = sp2
    <2> DEFINE begun2 == r.begun \ {t}
    <2>0. begun2 \in SUBSET Tasks
      BY <1>1 DEF KernelType
    <2>1. CASE t = ct
      <3>1. d = [r EXCEPT !.begun = begun2, !.sched = "STOP"]
        BY <1>3, <2>1
      <3> HIDE DEF begun2
      <3>2. d \in KernelType /\ d.q = r.q /\ d.rqtop = r.rqtop /\ d.state = r.state
        BY <1>1, <2>0, <3>1 DEF KernelType
      <3>3. /\ d.pri = r.pri /\ d.timeout = r.timeout /\ d.lockctr = r.lockctr /\ d.rv = r.rv
            /\ d.begun = begun2 /\ d.sched = "STOP" /\ d.sp = r.sp
            /\ d.prinorm = r.prinorm /\ d.onr = r.onr
        BY <1>1, <2>0, <3>1 DEF KernelType
      <3> QED BY <2>1, <3>2, <3>3 DEF begun2
    <2>2. CASE t # ct
      <3>1. d = [r EXCEPT !.begun = begun2, !.sp = sp2]
        BY <1>3, <2>2
      <3> HIDE DEF begun2
      <3>2. d \in KernelType /\ d.q = r.q /\ d.rqtop = r.rqtop /\ d.state = r.state
        BY <1>1, <1>2, <2>0, <3>1 DEF KernelType
      <3>3. /\ d.pri = r.pri /\ d.timeout = r.timeout /\ d.lockctr = r.lockctr /\ d.rv = r.rv
            /\ d.begun = begun2 /\ d.sched = r.sched /\ d.sp = sp2
            /\ d.prinorm = r.prinorm /\ d.onr = r.onr
        BY <1>1, <1>2, <2>0, <3>1 DEF KernelType
      <3> QED BY <2>2, <3>2, <3>3 DEF begun2
    <2> QED BY <2>1, <2>2
  <1>5. /\ Linked(d) /\ Top(d) = Top(r)
        /\ \A u \in Tasks : InRq(d, u) <=> InRq(r, u)
    BY <1>1, <1>4, StillLinked
  <1>6. \A u \in Tasks : Placed(d, u)
    BY <1>4, <1>5 DEF Good, Placed
  <1> QED BY <1>2, <1>4, <1>5, <1>6 DEF Good, Same

-----------------------------------------------------------------------------
(***************************************************************************)
(* The inductive invariant.  Besides the consistency of the queues it says *)
(* what smx_sched means: unless the current task is to be suspended or     *)
(* stopped, it is ready; if it is to be stopped, it has been told so; and  *)
(* a task without a context that is halfway through its start leg has not  *)
(* begun.  Valid, Held and Decided say it of the data an SSR leaves.       *)
(***************************************************************************)

Valid(r) == /\ Good(r, Tasks)
            /\ InRq(r, Idle)
            /\ r.lockctr <= LockLimit
            /\ r.sched \in {"NOP", "CTTEST"} => InRq(r, ct)

Held(r) == /\ \A u \in r.begun \ {ct} : r.sp[u]
           /\ r.sched = "STOP" => ct \notin r.begun
           /\ pc = "fly" /\ ~r.sp[ct] => ct \notin r.begun

Decided(r) == r.lockctr = 0 /\ r.sched = "NOP" => ct = Top(r)

KernelInv == /\ Valid(k) /\ Held(k)
             /\ ct \in Tasks
             /\ pc \in {"run", "psv", "fly", "tail"}
             /\ pc \in {"run", "tail"} => k.sched = "NOP"

\* An SSR that leaves such data keeps the invariant.
LEMMA Left ==
  ASSUME KernelInv, NEW c \in Callers, MayCall(c), NEW r, Leave(c, r),
         Valid(r), Held(r)
  PROVE  /\ KernelInv'
         /\ (TopKnown => Decided(r)) => (TopKnown => TopKnown')
  <1>1. /\ k' = r /\ ct' = ct
        /\ pc' \in {"run", "psv", "fly", "tail"}
        /\ pc' = "fly" => pc = "fly"
        /\ pc' \in {"run", "tail"} => r.sched = "NOP"
    BY DEF Leave, MayCall, Callers, KernelInv
  <1>2. Valid(k)'
    BY <1>1 DEF Valid
  <1>3. Held(k)'
    BY <1>1 DEF Held
  <1>4. KernelInv'
    BY <1>1, <1>2, <1>3 DEF KernelInv
  <1> QED BY <1>1, <1>4 DEF TopKnown, Decided

\* Data that differs from k in the place of one task t, which may be the
\* current one and may have been told to stop.
LEMMA Moved ==
  ASSUME KernelInv, NEW t \in Targets, NEW r, Good(r, Tasks),
         Others(k, r, t), r.lockctr <= LockLimit,
         r.begun \subseteq k.begun,
         \A u \in r.begun : r.sp[u] = k.sp[u],
         r.sp[ct] = k.sp[ct],
         r.sched = "STOP" => ct \notin r.begun,
         r.sched \in {"NOP", "CTTEST"} => InRq(r, t) \/ t # ct,
         t # ct => r.sched = k.sched \/ (k.sched = "NOP" /\ r.sched = "CTTEST")
  PROVE  Valid(r) /\ Held(r)
  <1>1. Idle \in Tasks \ {t} /\ t \in Tasks /\ ct \in Tasks
    BY QueuesAssumption DEF Targets, KernelInv
  <1>2. InRq(r, Idle)
    BY <1>1 DEF KernelInv, Valid, Others
  <1>3. ASSUME r.sched \in {"NOP", "CTTEST"} PROVE InRq(r, ct)
    <2>1. CASE t = ct
      BY <1>3, <2>1
    <2>2. CASE t # ct
      <3>1. k.sched \in {"NOP", "CTTEST"}
        BY <1>3, <2>2
      <3>2. InRq(k, ct)
        BY <3>1 DEF KernelInv, Valid
      <3> QED BY <1>1, <2>2, <3>2 DEF Others
    <2> QED BY <2>1, <2>2
  <1>4. Held(r)
    BY DEF KernelInv, Held
  <1> QED BY <1>2, <1>3, <1>4 DEF Valid

\* The task SSRs and the timeout: each leaves data r that is valid, and has
\* decided which task is to run unless it had not been decided before.
Leaves(c, r) == Leave(c, r) /\ Valid(r) /\ Held(r) /\ (TopKnown => Decided(r))

LEMMA ResumeLeaves ==
  ASSUME KernelInv, Unowned(k), NEW c \in Callers, NEW t \in Targets, TaskResume(c, t)
  PROVE  \E r : Leaves(c, r) /\ Aside(k, r, t)
  <1> DEFINE d == Detach(t)
             r == Resume(d, t)
  <1>0. t \in Tasks /\ Good(k, Tasks) /\ k.lockctr <= LockLimit
    BY DEF Targets, KernelInv, Valid
  <1>1. /\ Good(d, Tasks) /\ SameFields(k, d)
        /\ ~Queued(d, t) /\ Others(k, d, t) /\ Aside(k, d, t)
    BY <1>0, Detached
  <1> HIDE DEF d
  <1>2. /\ Good(r, Tasks) /\ InRq(r, t) /\ Others(d, r, t) /\ Beside(d, r, t)
        /\ r.sp = d.sp /\ r.lockctr = d.lockctr /\ r.begun = d.begun
        /\ Asked(d, r)
    BY <1>0, <1>1, ResumedTask
  <1>3. Leave(c, r)
    BY DEF TaskResume, d
  <1> HIDE DEF r
  <1>4. /\ Others(k, r, t) /\ r.sp = k.sp /\ r.lockctr = k.lockctr /\ r.begun = k.begun
        /\ Asked(k, r) /\ Aside(k, r, t)
    BY <1>1, <1>2, AsideCompose DEF Others, SameFields, Asked
  <1>5. Valid(r) /\ Held(r)
    <2>1. r.sched = "STOP" => ct \notin r.begun
      BY <1>4 DEF Asked, KernelInv, Held
    <2>2. r.sched = k.sched \/ (k.sched = "NOP" /\ r.sched = "CTTEST")
      BY <1>4 DEF Asked
    <2> QED BY <1>0, <1>2, <1>4, <2>1, <2>2, Moved
  <1>6. Decided(r)
    BY <1>4 DEF Asked, Decided
  <1> QED BY <1>3, <1>4, <1>5, <1>6 DEF Leaves

\* The data after t was detached and told to stop.
LEMMA DetachedAndStopped ==
  ASSUME KernelInv, NEW t \in Targets, NEW e, NEW d,
         /\ Good(e, Tasks) /\ SameFields(k, e)
         /\ ~InRq(e, t) /\ ~Queued(e, t) /\ Others(k, e, t) /\ Aside(k, e, t)
         /\ k.q[k.rqtop] # <<>> /\ Top(k) # t => Top(e) = Top(k),
         d = Stop(e, t)
  PROVE  /\ Good(d, Tasks) /\ ~InRq(d, t) /\ ~Queued(d, t) /\ Others(k, d, t) /\ Aside(k, d, t)
         /\ d.lockctr = k.lockctr /\ d.begun \subseteq k.begun
         /\ \A u \in d.begun : d.sp[u] = k.sp[u]
         /\ d.sp[ct] = k.sp[ct]
         /\ d.sched = "STOP" => ct \notin d.begun
         /\ t = ct => d.sched = "STOP"
         /\ t # ct => d.sched = k.sched
         /\ TopKnown => Decided(d)
  <1>0. /\ t \in Tasks /\ ct \in Tasks /\ e \in KernelType /\ k \in KernelType
        /\ k.sched = "STOP" => ct \notin k.begun
    BY DEF Targets, KernelInv, Valid, Held, Good, Linked
  <1>1. /\ Good(d, Tasks) /\ \A u \in Tasks : InRq(d, u) <=> InRq(e, u)
        /\ Top(d) = Top(e) /\ Same(e, d)
        /\ d.lockctr = e.lockctr /\ d.begun = e.begun \ {t}
        /\ \A u \in Tasks \ {t} : d.sp[u] = e.sp[u]
        /\ t = ct => d.sched = "STOP" /\ d.sp = e.sp
        /\ t # ct => d.sched = e.sched
    BY <1>0, Stopped
  <1>2. /\ d.lockctr = k.lockctr /\ d.begun = k.begun \ {t}
        /\ \A u \in Tasks \ {t} : d.sp[u] = k.sp[u]
        /\ t = ct => d.sched = "STOP" /\ d.sp = k.sp
        /\ t # ct => d.sched = k.sched
    BY <1>1 DEF SameFields
  <1>3. d.sp[ct] = k.sp[ct]
    BY <1>0, <1>2
  <1>4. d.sched = "STOP" => ct \notin d.begun
    BY <1>0, <1>2
  <1>5. \A u \in d.begun : u \in Tasks \ {t}
    BY <1>0, <1>2 DEF KernelType
  <1>6. TopKnown => Decided(d)
    <2> SUFFICES ASSUME TopKnown, d.lockctr = 0, d.sched = "NOP"
                 PROVE  ct = Top(d)
      BY DEF Decided
    <2>1. t # ct /\ ct = Top(k)
      BY <1>2 DEF TopKnown
    <2>2. InRq(k, ct)
      BY <1>2, <2>1 DEF KernelInv, Valid
    <2>3. k.q[k.rqtop] # <<>>
      BY <1>0, <2>2, TopNotEmpty DEF KernelInv, Valid, Good
    <2> QED BY <1>1, <2>1, <2>3
  <1>7. Others(k, d, t) /\ ~InRq(d, t) /\ ~Queued(d, t) /\ Aside(k, d, t)
    BY <1>0, <1>1, SameQueues, AsideCompose DEF Others, Same
  <1> QED BY <1>1, <1>2, <1>3, <1>4, <1>5, <1>6, <1>7

LEMMA StopLeaves ==
  ASSUME KernelInv, Unowned(k), NEW c \in Callers, NEW t \in Targets, NEW tmo \in Timeouts,
         TaskStop(c, t, tmo)
  PROVE  \E x : Leaves(c, x) /\ Aside(k, x, t)
  <1> DEFINE e  == Detach(t)
             k1 == Stop(e, t)
             n  == NoTimeout(k1, t)
             k2 == NQRQTask(n, t)
             s  == TimeoutSet(k1, t, tmo)
             r  == IF tmo # "NOWAIT" THEN s ELSE IF t = ct THEN k2 ELSE DoCtTest(k2)
  <1>0. t \in Tasks /\ Good(k, Tasks) /\ k.lockctr <= LockLimit
    BY DEF Targets, KernelInv, Valid
  <1>1. /\ Good(e, Tasks) /\ SameFields(k, e)
        /\ ~InRq(e, t) /\ ~Queued(e, t) /\ Others(k, e, t) /\ Aside(k, e, t)
        /\ k.q[k.rqtop] # <<>> /\ Top(k) # t => Top(e) = Top(k)
    BY <1>0, Detached
  <1>2. Leave(c, r)
    BY Zenon DEF TaskStop
  <1> HIDE DEF e
  <1>3. /\ Good(k1, Tasks) /\ ~InRq(k1, t) /\ ~Queued(k1, t) /\ Others(k, k1, t) /\ Aside(k, k1, t)
        /\ k1.lockctr = k.lockctr /\ k1.begun \subseteq k.begun
        /\ \A u \in k1.begun : k1.sp[u] = k.sp[u]
        /\ k1.sp[ct] = k.sp[ct]
        /\ k1.sched = "STOP" => ct \notin k1.begun
        /\ t = ct => k1.sched = "STOP"
        /\ t # ct => k1.sched = k.sched
        /\ TopKnown => Decided(k1)
    BY <1>1, DetachedAndStopped
  <1> HIDE DEF k1
  <1>4. CASE tmo # "NOWAIT"
    <2>1. r = s
      BY <1>4
    <2> HIDE DEF r
    <2>2. s = TimeoutSet(k1, t, "SET")
      BY <1>4 DEF Timeouts
    <2> HIDE DEF s
    <2>3. /\ Good(s, Tasks) /\ \A u \in Tasks : InRq(s, u) <=> InRq(k1, u)
          /\ Top(s) = Top(k1) /\ Same(k1, s)
          /\ s.sp = k1.sp /\ s.sched = k1.sched
          /\ s.lockctr = k1.lockctr /\ s.begun = k1.begun
      BY <1>0, <1>3, <2>2, Marked
    <2>4. Others(k, s, t) /\ Aside(k, s, t)
      BY <1>3, <2>3, AsideCompose DEF Others
    <2>5. Valid(s) /\ Held(s)
      BY <1>0, <1>3, <2>3, <2>4, Moved
    <2>6. TopKnown => Decided(s)
      BY <1>3, <2>3 DEF Decided
    <2> QED BY <1>2, <2>1, <2>4, <2>5, <2>6 DEF Leaves
  <1>5. CASE tmo = "NOWAIT"
    <2>1. /\ Good(n, Tasks) /\ \A u \in Tasks : InRq(n, u) <=> InRq(k1, u)
          /\ n.sp = k1.sp /\ n.sched = k1.sched
          /\ n.lockctr = k1.lockctr /\ n.begun = k1.begun
          /\ Same(k1, n) /\ n.timeout[t] = "INF"
      <3>1. Good(k1, Tasks \ {t})
        BY <1>3 DEF Good
      <3> QED BY <1>0, <1>3, <3>1, Unmarked
    <2> HIDE DEF n
    <2>3. ~Queued(n, t) /\ Others(k, n, t) /\ Aside(k, n, t)
      BY <1>0, <1>3, <2>1, SameQueues, AsideCompose DEF Others, Same
    <2>4. /\ Good(k2, Tasks) /\ SameFields(n, k2)
          /\ InRq(k2, t) /\ Others(n, k2, t) /\ Beside(n, k2, t)
      BY <1>0, <2>1, <2>3, Readied
    <2> HIDE DEF k2
    <2>5. Others(k, k2, t) /\ Aside(k, k2, t)
      BY <2>3, <2>4, AsideCompose DEF Others
    <2>6. /\ k2.sp = k1.sp /\ k2.sched = k1.sched
          /\ k2.lockctr = k1.lockctr /\ k2.begun = k1.begun
      BY <2>1, <2>4 DEF SameFields
    <2>7. CASE t = ct
      <3>1. r = k2
        BY <1>5, <2>7
      <3> HIDE DEF r
      <3>2. Valid(k2) /\ Held(k2)
        BY <1>0, <1>3, <2>4, <2>5, <2>6, <2>7, Moved
      <3>3. Decided(k2)
        BY <1>3, <2>6, <2>7 DEF Decided
      <3> QED BY <1>2, <2>5, <3>1, <3>2, <3>3 DEF Leaves
    <2>8. CASE t # ct
      <3> DEFINE d == DoCtTest(k2)
      <3>1. r = d
        BY <1>5, <2>8
      <3>2. /\ Good(d, Tasks) /\ \A u \in Tasks : InRq(d, u) <=> InRq(k2, u)
            /\ d.sp = k2.sp /\ d.lockctr = k2.lockctr /\ d.begun = k2.begun
            /\ Asked(k2, d) /\ Same(k2, d)
        BY <2>4, CtTested
      <3> HIDE DEF r, d
      <3>3. Others(k, d, t) /\ InRq(d, t) /\ Aside(k, d, t)
        BY <1>0, <2>4, <2>5, <3>2, AsideCompose DEF Others
      <3>4. d.sched = k.sched \/ (k.sched = "NOP" /\ d.sched = "CTTEST")
        BY <1>3, <2>6, <2>8, <3>2 DEF Asked
      <3>5. d.sched = "STOP" => ct \notin d.begun
        BY <1>3, <2>6, <3>2 DEF Asked
      <3>6. Valid(d) /\ Held(d)
        BY <1>0, <1>3, <2>6, <3>2, <3>3, <3>4, <3>5, Moved
      <3>7. Decided(d)
        BY <3>2 DEF Asked, Decided
      <3> QED BY <1>2, <3>1, <3>3, <3>6, <3>7 DEF Leaves
    <2> QED BY <2>7, <2>8
  <1> QED BY <1>4, <1>5

LEMMA SuspendLeaves ==
  ASSUME KernelInv, Unowned(k), NEW c \in Callers, NEW t \in Targets, NEW tmo \in Timeouts,
         TaskSuspend(c, t, tmo)
  PROVE  \E x : Leaves(c, x) /\ Aside(k, x, t)
  <1> DEFINE e  == Detach(t)
             k1 == IF t = ct THEN [e EXCEPT !.sched = "SUSP"] ELSE e
             s  == TimeoutSet(k1, t, tmo)
             r  == IF tmo # "NOWAIT" THEN s ELSE Resume(k1, t)
  <1>0. t \in Tasks /\ Good(k, Tasks) /\ k.lockctr <= LockLimit /\ ct \in Tasks
    BY DEF Targets, KernelInv, Valid
  <1>1. /\ Good(e, Tasks) /\ SameFields(k, e)
        /\ ~InRq(e, t) /\ ~Queued(e, t) /\ Others(k, e, t) /\ Aside(k, e, t)
        /\ k.q[k.rqtop] # <<>> /\ Top(k) # t => Top(e) = Top(k)
    BY <1>0, Detached
  <1>2. Leave(c, r)
    BY Zenon DEF TaskSuspend
  <1> HIDE DEF e
  <1>3. /\ Good(k1, Tasks) /\ ~InRq(k1, t) /\ ~Queued(k1, t) /\ Others(k, k1, t) /\ Aside(k, k1, t)
        /\ k1.lockctr = k.lockctr /\ k1.begun = k.begun /\ k1.sp = k.sp
        /\ t = ct => k1.sched = "SUSP"
        /\ t # ct => k1.sched = k.sched
        /\ Top(k1) = Top(e)
    <2>1. e \in KernelType /\ Linked(e)
      BY <1>1 DEF Good, Linked
    <2>2. CASE t = ct
      <3>1. k1 = [e EXCEPT !.sched = "SUSP"]
        BY <2>2
      <3> HIDE DEF k1
      <3>2. /\ k1 \in KernelType /\ k1.q = e.q /\ k1.rqtop = e.rqtop /\ k1.state = e.state
            /\ k1.pri = e.pri /\ k1.timeout = e.timeout
            /\ k1.lockctr = e.lockctr /\ k1.begun = e.begun /\ k1.sp = e.sp
            /\ k1.sched = "SUSP" /\ k1.rv = e.rv
        BY <2>1, <3>1 DEF KernelType
      <3>3. /\ Good(k1, Tasks) /\ \A u \in Tasks : InRq(k1, u) <=> InRq(e, u)
            /\ Top(k1) = Top(e)
        BY <1>0, <1>1, <3>2, Changed
      <3>4. Beside(e, k1, t)
        BY <3>2 DEF Beside, Apart
      <3>5. Aside(k, k1, t) /\ ~Queued(k1, t)
        BY <1>1, <3>2, <3>4, SameQueues, AsideCompose
      <3> QED BY <1>0, <1>1, <2>2, <3>2, <3>3, <3>5 DEF Others, SameFields
    <2>3. CASE t # ct
      BY <1>1, <2>3 DEF SameFields
    <2> QED BY <2>2, <2>3
  <1> HIDE DEF k1
  <1>4. TopKnown => Decided(k1)
    <2> SUFFICES ASSUME TopKnown, k1.lockctr = 0, k1.sched = "NOP"
                 PROVE  ct = Top(k1)
      BY DEF Decided
    <2>1. t # ct /\ ct = Top(k)
      BY <1>3 DEF TopKnown
    <2>2. InRq(k, ct)
      BY <1>3, <2>1 DEF KernelInv, Valid
    <2>3. k.q[k.rqtop] # <<>>
      BY <1>0, <2>2, TopNotEmpty DEF Good
    <2> QED BY <1>1, <1>3, <2>1, <2>3
  <1>5. k1.sched = "STOP" => ct \notin k1.begun
    BY <1>3 DEF KernelInv, Held
  <1>6. CASE tmo # "NOWAIT"
    <2>1. r = s
      BY <1>6
    <2> HIDE DEF r
    <2>2. s = TimeoutSet(k1, t, "SET")
      BY <1>6 DEF Timeouts
    <2> HIDE DEF s
    <2>3. /\ Good(s, Tasks) /\ \A u \in Tasks : InRq(s, u) <=> InRq(k1, u)
          /\ Top(s) = Top(k1) /\ Same(k1, s)
          /\ s.sp = k1.sp /\ s.sched = k1.sched
          /\ s.lockctr = k1.lockctr /\ s.begun = k1.begun
      BY <1>0, <1>3, <2>2, Marked
    <2>4. Others(k, s, t) /\ Aside(k, s, t)
      BY <1>3, <2>3, AsideCompose DEF Others
    <2>5. Valid(s) /\ Held(s)
      BY <1>0, <1>3, <1>5, <2>3, <2>4, Moved
    <2>6. TopKnown => Decided(s)
      BY <1>4, <2>3 DEF Decided
    <2> QED BY <1>2, <2>1, <2>4, <2>5, <2>6 DEF Leaves
  <1>7. CASE tmo = "NOWAIT"
    <2> DEFINE d == Resume(k1, t)
    <2>1. r = d
      BY <1>7
    <2>2. /\ Good(d, Tasks) /\ InRq(d, t) /\ Others(k1, d, t) /\ Beside(k1, d, t)
          /\ d.sp = k1.sp /\ d.lockctr = k1.lockctr /\ d.begun = k1.begun
          /\ Asked(k1, d)
      BY <1>0, <1>3, ResumedTask
    <2> HIDE DEF r, d
    <2>3. Others(k, d, t) /\ Aside(k, d, t)
      BY <1>3, <2>2, AsideCompose DEF Others
    <2>4. t # ct => d.sched = k.sched \/ (k.sched = "NOP" /\ d.sched = "CTTEST")
      BY <1>3, <2>2 DEF Asked
    <2>5. d.sched = "STOP" => ct \notin d.begun
      BY <1>5, <2>2 DEF Asked
    <2>6. Valid(d) /\ Held(d)
      BY <1>0, <1>3, <2>2, <2>3, <2>4, <2>5, Moved
    <2>7. Decided(d)
      BY <2>2 DEF Asked, Decided
    <2> QED BY <1>2, <2>1, <2>3, <2>6, <2>7 DEF Leaves
  <1> QED BY <1>6, <1>7

LEMMA StartLeaves ==
  ASSUME KernelInv, Unowned(k), NEW c \in Callers, NEW t \in Targets, NEW p \in Levels,
         Start(c, t, p)
  PROVE  \E x : Leaves(c, x) /\ Aside(k, x, t)
  <1> DEFINE e  == IF Queued(k, t) THEN DQTask(k, t) ELSE k
             k1 == Stop(e, t)
             d  == IF t = ct THEN k1 ELSE DoCtTest(k1)
             k2 == [d EXCEPT !.pri[t] = p, !.prinorm[t] = p, !.pritmo[t] = p,
                             !.rv[t] = IF t = ct THEN @ ELSE FALSE]
             n  == NQRQTask(k2, t)
             r  == NoTimeout(n, t)
  <1>0. t \in Tasks /\ Good(k, Tasks) /\ Good(k, Tasks \ {t}) /\ k.lockctr <= LockLimit
    BY DEF Targets, KernelInv, Valid, Good
  <1>1. /\ Good(e, Tasks) /\ SameFields(k, e)
        /\ ~InRq(e, t) /\ ~Queued(e, t) /\ Others(k, e, t) /\ Aside(k, e, t)
        /\ k.q[k.rqtop] # <<>> /\ Top(k) # t => Top(e) = Top(k)
    BY <1>0, Removed
  <1>2. Leave(c, r)
    BY Zenon DEF Start
  <1> HIDE DEF e
  <1>3. /\ Good(k1, Tasks) /\ ~InRq(k1, t) /\ ~Queued(k1, t) /\ Others(k, k1, t) /\ Aside(k, k1, t)
        /\ k1.lockctr = k.lockctr /\ k1.begun \subseteq k.begun
        /\ \A u \in k1.begun : k1.sp[u] = k.sp[u]
        /\ k1.sp[ct] = k.sp[ct]
        /\ k1.sched = "STOP" => ct \notin k1.begun
        /\ t = ct => k1.sched = "STOP"
        /\ t # ct => k1.sched = k.sched
    BY <1>1, DetachedAndStopped
  <1> HIDE DEF k1
  <1>4. /\ Good(d, Tasks) /\ \A u \in Tasks : InRq(d, u) <=> InRq(k1, u)
        /\ d.sp = k1.sp /\ d.lockctr = k1.lockctr /\ d.begun = k1.begun
        /\ t = ct => d.sched = "STOP"
        /\ t # ct => Asked(k1, d)
        /\ Same(k1, d)
    <2>1. CASE t = ct
      BY <1>3, <2>1 DEF Same
    <2>2. CASE t # ct
      <3>1. d = DoCtTest(k1)
        BY <2>2
      <3> HIDE DEF d
      <3> QED BY <1>3, <2>2, <3>1, CtTested
    <2> QED BY <2>1, <2>2
  <1> HIDE DEF d
  <1>5. /\ k2 \in KernelType
        /\ k2.q = d.q /\ k2.rqtop = d.rqtop /\ k2.state = d.state
        /\ \A u \in Tasks \ {t} : k2.pri[u] = d.pri[u] /\ k2.timeout[u] = d.timeout[u]
        /\ \A u \in Tasks \ {t} : k2.rv[u] = d.rv[u]
        /\ k2.rv[t] => d.rv[t]
        /\ k2.sp = d.sp /\ k2.lockctr = d.lockctr /\ k2.begun = d.begun
        /\ k2.sched = d.sched
    <2> DEFINE pri2 == [d.pri EXCEPT ![t] = p]
               prinorm2 == [d.prinorm EXCEPT ![t] = p]
               pritmo2 == [d.pritmo EXCEPT ![t] = p]
               rv2 == [d.rv EXCEPT ![t] = IF t = ct THEN @ ELSE FALSE]
    <2>1. d \in KernelType
      BY <1>4 DEF Good, Linked
    <2>2. /\ pri2 \in [Tasks -> Levels] /\ prinorm2 \in [Tasks -> Levels]
          /\ pritmo2 \in [Tasks -> Levels]
      BY <2>1 DEF KernelType
    <2>3. rv2 \in [Tasks -> BOOLEAN]
      BY <2>1 DEF KernelType
    <2>4. /\ \A u \in Tasks \ {t} : pri2[u] = d.pri[u] /\ rv2[u] = d.rv[u]
          /\ rv2[t] => d.rv[t]
      BY <1>0, <2>1 DEF KernelType
    <2>5. k2 = [d EXCEPT !.pri = pri2, !.prinorm = prinorm2, !.pritmo = pritmo2, !.rv = rv2]
      BY <2>1 DEF KernelType
    <2> HIDE DEF pri2, prinorm2, pritmo2, rv2, k2
    <2>6. k2 \in KernelType
      BY <2>1, <2>2, <2>3, <2>5 DEF KernelType
    <2>7. /\ k2.q = d.q /\ k2.rqtop = d.rqtop /\ k2.state = d.state
          /\ k2.pri = pri2 /\ k2.timeout = d.timeout /\ k2.rv = rv2
      BY <2>1, <2>5 DEF KernelType
    <2>8. /\ k2.sp = d.sp /\ k2.lockctr = d.lockctr /\ k2.begun = d.begun
          /\ k2.sched = d.sched
      BY <2>1, <2>5 DEF KernelType
    <2> QED BY <2>4, <2>6, <2>7, <2>8
  <1> HIDE DEF k2
  <1>5a. ~InRq(d, t)
    BY <1>0, <1>3, <1>4
  <1>6. /\ Good(k2, Tasks) /\ \A u \in Tasks : InRq(k2, u) <=> InRq(d, u)
    BY <1>0, <1>4, <1>5, <1>5a, Changed
  <1>7. ~Queued(k2, t) /\ Others(k, k2, t) /\ Aside(k, k2, t)
    <2>1. Beside(d, k2, t)
      BY <1>5 DEF Beside, Apart
    <2> QED BY <1>0, <1>3, <1>4, <1>5, <1>6, <2>1, SameQueues, AsideCompose DEF Others, Same
  <1>8. /\ Good(n, Tasks \ {t}) /\ SameFields(k2, n)
        /\ InRq(n, t) /\ Contains(n.q[n.pri[t]], t) /\ Others(k2, n, t)
        /\ Beside(k2, n, t)
    BY <1>0, <1>6, <1>7, Readied
  <1> HIDE DEF n
  <1>9. /\ Good(r, Tasks) /\ \A u \in Tasks : InRq(r, u) <=> InRq(n, u)
        /\ Same(n, r)
        /\ r.sp = n.sp /\ r.sched = n.sched /\ r.lockctr = n.lockctr /\ r.begun = n.begun
    BY <1>0, <1>8, Unmarked
  <1> HIDE DEF r
  <1>10. /\ Others(k, r, t) /\ InRq(r, t)
         /\ r.sp = k1.sp /\ r.lockctr = k1.lockctr /\ r.begun = k1.begun
         /\ r.sched = d.sched /\ Aside(k, r, t)
    BY <1>0, <1>4, <1>5, <1>7, <1>8, <1>9, AsideCompose DEF Others, SameFields
  <1>11. t # ct => r.sched = k.sched \/ (k.sched = "NOP" /\ r.sched = "CTTEST")
    BY <1>3, <1>4, <1>10 DEF Asked
  <1>12. r.sched = "STOP" => ct \notin r.begun
    BY <1>3, <1>4, <1>10 DEF Asked
  <1>13. Valid(r) /\ Held(r)
    BY <1>0, <1>3, <1>9, <1>10, <1>11, <1>12, Moved
  <1>14. Decided(r)
    BY <1>4, <1>10 DEF Asked, Decided
  <1> QED BY <1>2, <1>10, <1>13, <1>14 DEF Leaves

\* The priorities of t are changed where t is: the rest of the data is as good.
WithPri(r, t, p, p2) == [r EXCEPT !.pri[t] = p, !.prinorm[t] = p2]

Reset(r, d, t) ==
    /\ Good(d, Tasks \ {t}) /\ \A u \in Tasks : InRq(d, u) <=> InRq(r, u)
    /\ Top(d) = Top(r) /\ d.timeout = r.timeout
    /\ d.q = r.q /\ d.rv = r.rv /\ \A u \in Tasks \ {t} : d.pri[u] = r.pri[u]
    /\ d.sp = r.sp /\ d.sched = r.sched /\ d.lockctr = r.lockctr /\ d.begun = r.begun

LEMMA Reprioritized ==
  ASSUME NEW r, NEW t \in Tasks, Good(r, Tasks), NEW p \in Levels, NEW p2 \in Levels,
         NEW d, d = WithPri(r, t, p, p2)
  PROVE  Reset(r, d, t)
  <1> DEFINE pri2 == [r.pri EXCEPT ![t] = p]
             prinorm2 == [r.prinorm EXCEPT ![t] = p2]
  <1>1. r \in KernelType /\ Linked(r)
    BY DEF Good, Linked
  <1>2. /\ pri2 \in [Tasks -> Levels] /\ prinorm2 \in [Tasks -> Levels]
        /\ \A u \in Tasks \ {t} : pri2[u] = r.pri[u]
        /\ d = [r EXCEPT !.pri = pri2, !.prinorm = prinorm2]
    BY <1>1 DEF WithPri, KernelType
  <1> HIDE DEF pri2, prinorm2
  <1>3. d \in KernelType
    BY <1>1, <1>2 DEF KernelType
  <1>4. /\ d.q = r.q /\ d.rqtop = r.rqtop /\ d.state = r.state
        /\ d.pri = pri2 /\ d.timeout = r.timeout /\ d.rv = r.rv
        /\ d.sp = r.sp /\ d.sched = r.sched /\ d.lockctr = r.lockctr /\ d.begun = r.begun
    BY <1>1, <1>2 DEF KernelType
  <1>5. /\ Linked(d) /\ Top(d) = Top(r)
        /\ \A u \in Tasks : InRq(d, u) <=> InRq(r, u)
    BY <1>1, <1>3, <1>4, StillLinked
  <1>6. \A u \in Tasks \ {t} : Placed(d, u)
    BY <1>2, <1>4, <1>5 DEF Good, Placed
  <1> QED BY <1>2, <1>4, <1>5, <1>6 DEF Good, Reset

\* t inserted by its priority into a queue that does not hold it.
LEMMA ByPriorityProperties ==
  ASSUME NEW r \in KernelType, NEW s \in Seq(Tasks), Injective(s),
         NEW t \in Tasks, ~Contains(s, t), NEW d, d = ByPriority(r, s, t)
  PROVE  /\ d \in Seq(Tasks) /\ Injective(d) /\ Len(d) = Len(s) + 1
         /\ \A u : Contains(d, u) <=> Contains(s, u) \/ u = t
         /\ Descending(s, r.pri) => Descending(d, r.pri)
  <1> DEFINE L == {i \in DOMAIN s : r.pri[s[i]] < r.pri[t]}
             S == L \union {Len(s) + 1}
             n == Min(S)
  <1>1. /\ Len(s) \in Nat /\ DOMAIN s = 1..Len(s)
        /\ \A i \in 1..Len(s) : s[i] \in Tasks
        /\ \A u \in Tasks : r.pri[u] \in Int
        /\ r.pri \in [Tasks -> Int]
    BY LenProperties, ElementOfSeq, QueuesAssumption DEF KernelType, Levels
  <1>2. S \in SUBSET Nat /\ S # {} /\ S \subseteq 1..Len(s) + 1
    BY <1>1
  <1>3. n \in S /\ \A y \in S : n <= y
    <2> HIDE DEF S
    <2>1. \E x \in S : \A y \in S : x <= y
      BY <1>2, LeastNumber
    <2> QED BY <2>1 DEF Min
  <1>4. d = InsertAt(s, n, t)
    BY DEF ByPriority
  <1>5. n <= Len(s) => r.pri[t] >= r.pri[s[n]]
    <2> HIDE DEF n
    <2> QED BY <1>1, <1>3
  <1>6. \A i \in 1..n - 1 : r.pri[s[i]] >= r.pri[t]
    <2> SUFFICES ASSUME NEW i \in 1..n - 1, ~(r.pri[s[i]] >= r.pri[t]) PROVE FALSE
      OBVIOUS
    <2> HIDE DEF n
    <2>1. i \in 1..Len(s) /\ i < n
      BY <1>1, <1>2, <1>3
    <2>2. i \in S
      BY <1>1, <2>1
    <2> HIDE DEF S
    <2> QED BY <1>1, <1>2, <1>3, <2>1, <2>2
  <1> HIDE DEF n, S
  <1>7. n \in 1..Len(s) + 1
    BY <1>2, <1>3
  <1>8. /\ d \in Seq(Tasks) /\ Injective(d)
        /\ \A u : Contains(d, u) <=> Contains(s, u) \/ u = t
    BY <1>4, <1>7, InsertContains
  <1>9. Len(d) = Len(s) + 1
    BY <1>4, <1>7, InsertAtProperties
  <1>10. Descending(s, r.pri) => Descending(d, r.pri)
    BY <1>1, <1>4, <1>5, <1>6, <1>7, InsertDescending
  <1> QED BY <1>8, <1>9, <1>10

\* t stays in the queue of an object, at its place by its priority there; in
\* a FIFO queue it is left where it is.
Bumped(r, d, t) ==
    /\ d.rv = r.rv
    /\ \A u \in Tasks \ {t} : d.pri[u] = r.pri[u]
    /\ \A o \in Objs : d.q[o] = IF Contains(r.q[o], t) /\ o \notin FifoSems
                                  THEN ByPriority(d, Without(r.q[o], t), t) ELSE r.q[o]

\* A task that waits in a priority queue is inserted anew.
LEMMA Reinserted ==
  ASSUME NEW r, NEW t \in Tasks, Good(r, Tasks \ {t}), ~InRq(r, t),
         NEW d, d = Requeue(r, t)
  PROVE  /\ Good(d, Tasks) /\ \A u \in Tasks : InRq(d, u) <=> InRq(r, u)
         /\ Top(d) = Top(r) /\ d.pri = r.pri /\ d.timeout = r.timeout
         /\ d.prinorm = r.prinorm /\ d.onr = r.onr
         /\ d.sp = r.sp /\ d.sched = r.sched /\ d.lockctr = r.lockctr /\ d.begun = r.begun
         /\ Bumped(r, d, t)
  <1>1. /\ Linked(r) /\ r \in KernelType /\ DOMAIN r.q = Places
        /\ r.state[t] = "WAIT"
        /\ r.q \in [Places -> Seq(Tasks)]
    BY DEF Good, Linked, KernelType, Places
  <1>2. d = Requeue(r, t)
    OBVIOUS
  <1>3. CASE InPrq(r, t)
    <2> DEFINE x  == CHOOSE x \in QueuesOf(r, t) : TRUE
               s2 == ByPriority(r, Without(r.q[x], t), t)
               q2 == [r.q EXCEPT ![x] = s2]
    <2>1. PICK y \in QueuesOf(r, t) : y \in Objs \ FifoSems
      BY <1>3 DEF InPrq
    <2>2. x = y
      <3>1. x \in QueuesOf(r, t)
        BY <2>1
      <3>2. \A a, b \in QueuesOf(r, t) : a = b
        BY <1>1 DEF QueuesOf, Linked
      <3> QED BY <2>1, <3>1, <3>2
    <2>3. d = [r EXCEPT !.q = q2]
      BY <1>1, <1>2, <1>3 DEF Requeue
    <2> HIDE DEF x
    <2>4. /\ x \in Objs \ FifoSems /\ x \in Places /\ x \notin Levels
          /\ Contains(r.q[x], t)
          /\ r.q[x] \in Seq(Tasks) /\ Injective(r.q[x])
      BY <1>1, <2>1, <2>2, QueuesAssumption DEF QueuesOf, Linked, Places
    <2>5. /\ Without(r.q[x], t) \in Seq(Tasks) /\ Injective(Without(r.q[x], t))
          /\ \A u : Contains(Without(r.q[x], t), u) <=> Contains(r.q[x], u) /\ u # t
      BY <2>4, WithoutProperties
    <2>6. ~Contains(Without(r.q[x], t), t)
      BY <2>5
    <2>7. /\ s2 \in Seq(Tasks) /\ Injective(s2)
          /\ \A u : Contains(s2, u) <=> Contains(Without(r.q[x], t), u) \/ u = t
      BY <1>1, <2>5, <2>6, ByPriorityProperties
    <2>8. \A u : Contains(s2, u) <=> Contains(r.q[x], u)
      BY <2>4, <2>5, <2>7
    <2>9. s2 = ByPriority(d, Without(r.q[x], t), t)
      BY <1>1, <2>3 DEF ByPriority, KernelType
    <2> HIDE DEF s2
    <2>10. /\ q2 \in [Places -> Seq(Tasks)] /\ q2[x] = s2
           /\ \A y2 \in Places \ {x} : q2[y2] = r.q[y2]
      BY <1>1, <2>4, <2>7
    <2> HIDE DEF q2
    <2>11. /\ d \in KernelType /\ d.q = q2 /\ d.rqtop = r.rqtop /\ d.state = r.state
           /\ d.pri = r.pri /\ d.timeout = r.timeout /\ d.rv = r.rv
      BY <1>1, <2>3, <2>10 DEF KernelType, Places
    <2>12. /\ d.sp = r.sp /\ d.sched = r.sched /\ d.lockctr = r.lockctr /\ d.begun = r.begun
           /\ d.prinorm = r.prinorm /\ d.onr = r.onr
      BY <1>1, <2>3, <2>10 DEF KernelType
    <2>13. \A y2 \in Places : \A u : Contains(d.q[y2], u) <=> Contains(r.q[y2], u)
      BY <2>8, <2>10, <2>11
    <2>14. \A p \in Levels : d.q[p] = r.q[p]
      BY <2>4, <2>10, <2>11 DEF Places
    <2>15. \A u \in Tasks : InRq(d, u) <=> InRq(r, u)
      BY <1>1, <2>11, <2>14, InRqDef
    <2>16. Linked(d)
      <3>1. \A y2 \in Places : Injective(d.q[y2])
        BY <1>1, <2>7, <2>10, <2>11 DEF Linked
      <3>2. \A y2, y3 \in Places, u \in Tasks :
              Contains(d.q[y2], u) /\ Contains(d.q[y3], u) => y2 = y3
        BY <1>1, <2>13 DEF Linked
      <3>3. r.rqtop \in Levels
        BY <1>1 DEF KernelType
      <3> QED BY <1>1, <2>11, <2>14, <2>15, <3>1, <3>2, <3>3 DEF Linked
    <2>17. \A u \in Tasks : Placed(d, u)
      <3>1. \A u \in Tasks : r.pri[u] \in Levels
        BY <1>1 DEF KernelType
      <3> QED BY <2>11, <2>14, <2>15, <3>1 DEF Good, Placed
    <2>18. Top(d) = Top(r)
      <3>1. r.rqtop \in Levels
        BY <1>1 DEF KernelType
      <3> QED BY <2>11, <2>14, <3>1 DEF Top
    <2>19. \A o \in Objs : d.q[o] = IF Contains(r.q[o], t) /\ o \notin FifoSems
                                      THEN ByPriority(d, Without(r.q[o], t), t) ELSE r.q[o]
      <3> SUFFICES ASSUME NEW o \in Objs
                   PROVE  d.q[o] = IF Contains(r.q[o], t) /\ o \notin FifoSems
                                     THEN ByPriority(d, Without(r.q[o], t), t) ELSE r.q[o]
        OBVIOUS
      <3>1. CASE o = x
        BY <2>4, <2>9, <2>10, <2>11, <3>1
      <3>2. CASE o # x
        <4>1. ~Contains(r.q[o], t)
          BY <1>1, <2>4, <3>2 DEF Linked, Places
        <4> QED BY <2>10, <2>11, <3>2, <4>1 DEF Places
      <3> QED BY <3>1, <3>2
    <2> QED BY <2>11, <2>12, <2>15, <2>16, <2>17, <2>18, <2>19 DEF Good, Bumped
  <1>4. CASE ~InPrq(r, t)
    <2>1. d = r
      BY <1>1, <1>2, <1>4 DEF Requeue
    <2>2. \A o \in Objs : ~(Contains(r.q[o], t) /\ o \notin FifoSems)
      BY <1>1, <1>4 DEF InPrq, QueuesOf, Places
    <2>3. \A u \in Tasks : Placed(r, u)
      BY DEF Good, Placed
    <2> QED BY <1>1, <2>1, <2>2, <2>3 DEF Good, Bumped
  <1> QED BY <1>3, <1>4

LEMMA BumpLeaves ==
  ASSUME KernelInv, Unowned(k), NEW c \in Callers, NEW t \in Targets,
         NEW p \in Levels \union {NoChange}, TaskBump(c, t, p)
  PROVE  \E x : Leaves(c, x) /\ Bumped(k, x, t)
  <1> DEFINE owns == \E m \in Mutexes : k.onr[m] = t
             k1 == IF p = NoChange THEN k
                   ELSE [k EXCEPT !.prinorm[t] = p,
                                  !.pri[t] = IF p > @ \/ ~owns THEN p ELSE @]
             r  == IF Queued(k, t) THEN ReQTask(k1, t) ELSE k1
  <1>0. t \in Tasks /\ Good(k, Tasks) /\ k \in KernelType /\ k.lockctr <= LockLimit
    BY DEF Targets, KernelInv, Valid, Good, Linked
  <1>1. Leave(c, r)
    BY Zenon DEF TaskBump
  <1>2. /\ Good(k1, Tasks \ {t}) /\ \A u \in Tasks : InRq(k1, u) <=> InRq(k, u)
        /\ Top(k1) = Top(k) /\ k1.timeout = k.timeout
        /\ k1.q = k.q /\ k1.rv = k.rv /\ \A u \in Tasks \ {t} : k1.pri[u] = k.pri[u]
        /\ k1.sp = k.sp /\ k1.sched = k.sched /\ k1.lockctr = k.lockctr /\ k1.begun = k.begun
    <2>1. CASE p = NoChange
      <3>1. k1 = k
        BY <2>1
      <3> HIDE DEF k1
      <3> QED BY <1>0, <3>1 DEF Good
    <2>2. CASE p # NoChange
      <3> DEFINE p1 == IF p > k.pri[t] \/ ~owns THEN p ELSE k.pri[t]
      <3>1. p \in Levels /\ p1 \in Levels
        BY <1>0, <2>2 DEF KernelType
      <3>2. k1 = WithPri(k, t, p1, p)
        BY <1>0, <2>2 DEF WithPri, KernelType
      <3> HIDE DEF k1, p1
      <3>3. Good(k, Tasks) /\ t \in Tasks
        BY <1>0
      <3>4. Reset(k, k1, t)
        BY <3>1, <3>2, <3>3, Reprioritized, Zenon
      <3> QED BY <3>4 DEF Reset
    <2> HIDE DEF k1
    <2> QED BY <2>1, <2>2
  <1>3. CASE Queued(k, t)
    <2>0. r = ReQTask(k1, t)
      BY <1>3
    <2> HIDE DEF k1, r
    <2>1. r = Requeue(k1, t)
      BY <1>0, <1>2, <2>0, ReQTaskIsRequeue DEF Unowned, Good, Linked
    <2>3. CASE InRq(k, t)
      <3>1. InRq(k1, t) /\ k1.timeout[t] = "INF"
        BY <1>0, <1>2, <2>3 DEF Good, Placed
      <3>2. /\ Good(r, Tasks) /\ \A u \in Tasks : InRq(r, u) <=> InRq(k1, u)
            /\ r.sp = k1.sp /\ r.lockctr = k1.lockctr /\ r.begun = k1.begun
            /\ Asked(k1, r) /\ Beside(k1, r, t) /\ r.rv = k1.rv
        BY <1>0, <1>2, <2>1, <3>1, Requeued
      <3>3. Others(k, r, t) /\ InRq(r, t)
        BY <1>0, <1>2, <2>3, <3>2 DEF Others
      <3>4. /\ r.sched = k.sched \/ (k.sched = "NOP" /\ r.sched = "CTTEST")
            /\ r.sched = "STOP" => ct \notin r.begun
        BY <1>2, <3>2 DEF Asked, KernelInv, Held
      <3>5. Valid(r) /\ Held(r)
        BY <1>0, <1>2, <3>2, <3>3, <3>4, Moved
      <3>6. Decided(r)
        BY <3>2 DEF Asked, Decided
      <3>7. Bumped(k, r, t)
        <4>1. \A o \in Objs : ~Contains(k.q[o], t)
          BY <1>0, <2>3, ReadyQueued DEF Good
        <4> QED BY <1>2, <3>2, <4>1 DEF Bumped, Beside, Apart
      <3> QED BY <1>1, <3>5, <3>6, <3>7 DEF Leaves
    <2>4. CASE ~InRq(k, t)
      <3>1. /\ Good(r, Tasks) /\ \A u \in Tasks : InRq(r, u) <=> InRq(k1, u)
            /\ Top(r) = Top(k1)
            /\ r.sp = k1.sp /\ r.sched = k1.sched /\ r.lockctr = k1.lockctr
            /\ r.begun = k1.begun /\ r.pri = k1.pri
            /\ Bumped(k1, r, t)
        BY <1>0, <1>2, <2>1, <2>4, Reinserted
      <3>2. Valid(r) /\ Held(r)
        BY <1>0, <1>2, <3>1, QueuesAssumption DEF KernelInv, Valid, Held
      <3>3. TopKnown => Decided(r)
        BY <1>2, <3>1 DEF TopKnown, Decided
      <3>4. Bumped(k, r, t)
        BY <1>2, <3>1 DEF Bumped
      <3> QED BY <1>1, <3>2, <3>3, <3>4 DEF Leaves
    <2> QED BY <2>3, <2>4
  <1>4. CASE ~Queued(k, t)
    <2>1. r = k1
      BY <1>4
    <2>2. ~InRq(k, t) /\ \A o \in Objs : ~Contains(k.q[o], t)
      BY <1>0, <1>4, QueuedDef DEF InRq, Queued, Places
    <2> HIDE DEF k1, r
    <2>3. Good(k1, Tasks)
      BY <1>0, <1>2, <2>2 DEF Good, Placed
    <2>4. Valid(k1) /\ Held(k1)
      BY <1>0, <1>2, <2>3, QueuesAssumption DEF KernelInv, Valid, Held
    <2>5. TopKnown => Decided(k1)
      BY <1>2 DEF TopKnown, Decided
    <2>6. Bumped(k, k1, t)
      BY <1>2, <2>2 DEF Bumped
    <2> QED BY <1>1, <2>1, <2>4, <2>5, <2>6 DEF Leaves
  <1> QED BY <1>3, <1>4

LEMMA TimeoutLeaves ==
  ASSUME KernelInv, Unowned(k), NEW t \in Targets, TaskTimeout(t)
  PROVE  \E x : Leaves("lsr", x) /\ Aside(k, x, t)
  <1> DEFINE k1 == IF k.pritmo[t] > k.pri[t]
                     THEN [k EXCEPT !.pri[t] = k.pritmo[t], !.prinorm[t] = k.pritmo[t]]
                     ELSE k
             e  == DQTask(k1, t)
             k2 == IF Queued(k, t) THEN [e EXCEPT !.rv[t] = FALSE] ELSE k1
             r  == Resume(k2, t)
  <1>0. t \in Tasks /\ Good(k, Tasks) /\ k \in KernelType /\ k.lockctr <= LockLimit
    BY DEF Targets, KernelInv, Valid, Good, Linked
  <1>1. Leave("lsr", r)
    BY Zenon DEF TaskTimeout
  <1>2. /\ Good(k1, Tasks \ {t}) /\ \A u \in Tasks : InRq(k1, u) <=> InRq(k, u)
        /\ k1.sp = k.sp /\ k1.sched = k.sched /\ k1.lockctr = k.lockctr /\ k1.begun = k.begun
        /\ k1.q = k.q /\ k1.rv = k.rv /\ \A u \in Tasks \ {t} : k1.pri[u] = k.pri[u]
    <2>1. CASE k.pritmo[t] > k.pri[t]
      <3> DEFINE p == k.pritmo[t]
      <3>1. p \in Levels
        BY <1>0 DEF KernelType
      <3>2. k1 = WithPri(k, t, p, p)
        BY <2>1 DEF WithPri
      <3> HIDE DEF k1, p
      <3>3. Good(k, Tasks) /\ t \in Tasks
        BY <1>0
      <3>4. Reset(k, k1, t)
        BY <3>1, <3>2, <3>3, Reprioritized, Zenon
      <3> QED BY <3>4 DEF Reset
    <2>2. CASE ~(k.pritmo[t] > k.pri[t])
      <3>1. k1 = k
        BY <2>2
      <3> HIDE DEF k1
      <3> QED BY <1>0, <3>1 DEF Good
    <2> QED BY <2>1, <2>2
  <1> HIDE DEF k1
  <1>3. /\ Queued(k1, t) <=> Queued(k, t)
        /\ Unowned(k1) /\ Beside(k, k1, t)
    BY <1>2, SameQueues DEF Unowned, Beside, Apart
  <1>4. /\ Good(k2, Tasks) /\ ~Queued(k2, t) /\ Others(k, k2, t) /\ Aside(k, k2, t)
        /\ k2.sp = k.sp /\ k2.sched = k.sched /\ k2.lockctr = k.lockctr /\ k2.begun = k.begun
    <2> DEFINE e2 == IF Queued(k1, t) THEN DQTask(k1, t) ELSE k1
    <2>1. /\ Good(e2, Tasks) /\ SameFields(k1, e2) /\ ~Queued(e2, t)
          /\ Others(k1, e2, t) /\ Aside(k1, e2, t)
      BY <1>0, <1>2, <1>3, Removed
    <2>2. Others(k, e2, t) /\ Aside(k, e2, t)
      BY <1>0, <1>2, <1>3, <2>1, AsideCompose DEF Others
    <2>3. CASE Queued(k, t)
      <3>1. k2 = [e2 EXCEPT !.rv[t] = FALSE]
        BY <1>3, <2>3
      <3> HIDE DEF e2, k2
      <3>2. /\ Good(k2, Tasks) /\ \A u \in Tasks : InRq(k2, u) <=> InRq(e2, u)
            /\ SameFields(e2, k2) /\ k2.q = e2.q /\ Beside(e2, k2, t)
        BY <1>0, <2>1, <3>1, Unanswered
      <3>3. ~Queued(k2, t) /\ Aside(k, k2, t)
        BY <2>1, <2>2, <3>2, SameQueues, AsideCompose
      <3> QED BY <1>2, <2>1, <2>2, <3>2, <3>3 DEF Others, SameFields
    <2>4. CASE ~Queued(k, t)
      <3>1. k2 = e2
        BY <1>3, <2>4
      <3> HIDE DEF e2, k2
      <3> QED BY <1>2, <2>1, <2>2, <3>1 DEF SameFields
    <2> QED BY <2>3, <2>4
  <1> HIDE DEF k2
  <1>5. /\ Good(r, Tasks) /\ InRq(r, t) /\ Others(k2, r, t) /\ Beside(k2, r, t)
        /\ r.sp = k2.sp /\ r.lockctr = k2.lockctr /\ r.begun = k2.begun
        /\ Asked(k2, r)
    BY <1>0, <1>4, ResumedTask
  <1> HIDE DEF r
  <1>6. Others(k, r, t) /\ Asked(k, r) /\ Aside(k, r, t)
    BY <1>4, <1>5, AsideCompose DEF Others, Asked
  <1>7. /\ r.sched = k.sched \/ (k.sched = "NOP" /\ r.sched = "CTTEST")
        /\ r.sched = "STOP" => ct \notin r.begun
    BY <1>4, <1>5, <1>6 DEF Asked, KernelInv, Held
  <1>8. Valid(r) /\ Held(r)
    BY <1>0, <1>4, <1>5, <1>6, <1>7, Moved
  <1>9. Decided(r)
    BY <1>4, <1>5, <1>6 DEF Asked, Decided
  <1> QED BY <1>1, <1>6, <1>8, <1>9 DEF Leaves

LEMMA SleepLeaves ==
  ASSUME KernelInv, Unowned(k), NEW sched \in {"SUSP", "STOP"}, Sleep(sched)
  PROVE  \E x : Leaves("task", x) /\ Aside(k, x, ct)
  <1> DEFINE k1 == [k EXCEPT !.sched = sched,
                             !.begun = IF sched = "STOP" THEN @ \ {ct} ELSE @]
             d  == DQRQTask(k1, ct)
             s  == TimeoutSet(d, ct, "SET")
  <1>0. /\ ct \in Targets /\ ct \in Tasks /\ Good(k, Tasks) /\ Linked(k) /\ k \in KernelType
        /\ InRq(k, ct) /\ k.lockctr <= LockLimit
    BY DEF Sleep, CallerMayWait, Targets, KernelInv, Valid, Good, Linked
  <1>1. Leave("task", s) \/ Leave("task", k1)
    BY Zenon DEF Sleep
  <1>2. /\ k1 \in KernelType
        /\ k1.q = k.q /\ k1.rqtop = k.rqtop /\ k1.state = k.state
        /\ k1.pri = k.pri /\ k1.timeout = k.timeout /\ k1.rv = k.rv
        /\ k1.sp = k.sp /\ k1.sched = sched /\ k1.lockctr = k.lockctr
        /\ k1.begun \subseteq k.begun
        /\ sched = "STOP" => ct \notin k1.begun
    <2> DEFINE begun2 == IF sched = "STOP" THEN k.begun \ {ct} ELSE k.begun
    <2>1. begun2 \in SUBSET Tasks /\ begun2 \subseteq k.begun /\ (sched = "STOP" => ct \notin begun2)
      BY <1>0 DEF KernelType
    <2>2. k1 = [k EXCEPT !.sched = sched, !.begun = begun2]
      BY <1>0 DEF KernelType
    <2> HIDE DEF k1, begun2
    <2>3. k1 \in KernelType
      BY <1>0, <2>1, <2>2 DEF KernelType
    <2>4. /\ k1.q = k.q /\ k1.rqtop = k.rqtop /\ k1.state = k.state
          /\ k1.pri = k.pri /\ k1.timeout = k.timeout
          /\ k1.sp = k.sp /\ k1.sched = sched /\ k1.lockctr = k.lockctr
          /\ k1.begun = begun2 /\ k1.rv = k.rv
      BY <1>0, <2>1, <2>2 DEF KernelType
    <2> QED BY <2>1, <2>3, <2>4
  <1> HIDE DEF k1
  <1>3. Good(k1, Tasks) /\ \A u \in Tasks : InRq(k1, u) <=> InRq(k, u)
    <2>1. Linked(k1) /\ \A u \in Tasks : InRq(k1, u) <=> InRq(k, u)
      BY <1>0, <1>2, StillLinked
    <2> QED BY <1>0, <1>2, <2>1 DEF Good, Placed
  <1>4. /\ InRq(k1, ct) /\ Queued(k1, ct) /\ Unowned(k1)
        /\ Beside(k, k1, ct) /\ Aside(k, k1, ct)
    <2>1. \A o \in Objs : ~Contains(k.q[o], ct)
      BY <1>0, ReadyQueued
    <2>3. Beside(k, k1, ct)
      BY <1>2 DEF Beside, Apart
    <2>4. Aside(k, k1, ct)
      BY <2>1, <2>3 DEF Aside, Beside, Without
    <2> QED BY <1>0, <1>2, <1>3, <2>3, <2>4 DEF Unowned, InRq, Queued
  <1>5. CASE Leave("task", k1)
    <2>1. Valid(k1) /\ Held(k1) /\ Decided(k1)
      <3>1. Others(k, k1, ct)
        BY <1>3 DEF Others
      <3>2. Valid(k1) /\ Held(k1)
        BY <1>0, <1>2, <1>3, <3>1, Moved
      <3> QED BY <1>2, <3>2 DEF Decided
    <2> QED BY <1>4, <1>5, <2>1 DEF Leaves
  <1>6. CASE Leave("task", s)
    <2>1. d = IF Queued(k1, ct) THEN DQTask(k1, ct) ELSE k1
      BY <1>3, <1>4, DQTaskIsDQRQTask DEF Good, Linked
    <2> HIDE DEF d
    <2>2. Good(k1, Tasks \ {ct})
      BY <1>3 DEF Good
    <2>3. /\ Good(d, Tasks) /\ SameFields(k1, d) /\ ~InRq(d, ct) /\ Others(k1, d, ct)
          /\ Aside(k1, d, ct)
      BY <1>0, <1>4, <2>1, <2>2, Removed
    <2>4. /\ Good(s, Tasks) /\ \A u \in Tasks : InRq(s, u) <=> InRq(d, u)
          /\ s.sp = d.sp /\ s.sched = d.sched /\ s.lockctr = d.lockctr /\ s.begun = d.begun
          /\ Same(d, s)
      BY <1>0, <2>3, Marked
    <2> HIDE DEF s
    <2>5. Others(k, s, ct) /\ Aside(k, s, ct)
      BY <1>0, <1>3, <1>4, <2>3, <2>4, AsideCompose DEF Others
    <2>6. /\ s.sp = k.sp /\ s.sched = sched /\ s.lockctr = k.lockctr
          /\ s.begun \subseteq k.begun /\ (sched = "STOP" => ct \notin s.begun)
      BY <1>2, <2>3, <2>4 DEF SameFields
    <2>7. Valid(s) /\ Held(s)
      BY <1>0, <2>4, <2>5, <2>6, Moved
    <2>8. Decided(s)
      BY <2>6 DEF Decided
    <2> QED BY <1>6, <2>5, <2>7, <2>8 DEF Leaves
  <1> QED BY <1>1, <1>5, <1>6

-----------------------------------------------------------------------------
(* The scheduler and its lock. *)

\* The tasks that run or are ready are the same ones.
LEMMA Restated ==
  ASSUME NEW r, Good(r, Tasks), NEW d \in KernelType,
         d.q = r.q, d.rqtop = r.rqtop, d.pri = r.pri, d.timeout = r.timeout,
         \A u \in Tasks : d.state[u] # "WAIT" <=> r.state[u] # "WAIT"
  PROVE  /\ Good(d, Tasks) /\ \A u \in Tasks : InRq(d, u) <=> InRq(r, u)
         /\ Top(d) = Top(r)
  <1>1. \A u \in Tasks : InRq(d, u) <=> InRq(r, u)
    BY DEF InRq, QueuesOf
  <1>2. Linked(d)
    BY <1>1 DEF Good, Linked
  <1>3. \A u \in Tasks : Placed(d, u)
    BY <1>1 DEF Good, Placed
  <1> QED BY <1>1, <1>2, <1>3 DEF Good, Top

\* The caller is to be stopped.
ToStop(d) == [d EXCEPT !.sched = "STOP", !.begun = @ \ {ct}]

LEMMA ToldToStop ==
  ASSUME ct \in Tasks, NEW d, Valid(d), Held(d),
         NEW r, r = ToStop(d)
  PROVE  /\ Valid(r) /\ Held(r) /\ r.q = d.q /\ r.pri = d.pri /\ r.rv = d.rv
         /\ r.sched = "STOP" /\ Top(r) = Top(d)
  <1>1. d \in KernelType /\ Good(d, Tasks)
    BY DEF Valid, Good, Linked
  <1>2. /\ r \in KernelType /\ r.q = d.q /\ r.rqtop = d.rqtop /\ r.state = d.state
        /\ r.pri = d.pri /\ r.timeout = d.timeout /\ r.rv = d.rv /\ r.sp = d.sp
        /\ r.sched = "STOP" /\ r.lockctr = d.lockctr /\ r.begun = d.begun \ {ct}
    BY <1>1 DEF KernelType, ToStop
  <1>3. /\ Good(r, Tasks) /\ \A u \in Tasks : InRq(r, u) <=> InRq(d, u)
        /\ Top(r) = Top(d)
    BY <1>1, <1>2, Restated
  <1>4. Valid(r)
    BY <1>2, <1>3, QueuesAssumption DEF Valid
  <1>5. Held(r)
    BY <1>2 DEF Held
  <1> QED BY <1>2, <1>3, <1>4, <1>5

\* The scheduler lock is set to n.
Locked(r, n) == [r EXCEPT !.lockctr = n]

LEMMA Relocked ==
  ASSUME KernelInv, NEW n \in 0..LockLimit, NEW d, d = Locked(k, n)
  PROVE  /\ Valid(d) /\ Held(d)
         /\ Top(d) = Top(k) /\ d.sched = k.sched /\ d.lockctr = n /\ Same(k, d)
         /\ d.sp = k.sp /\ d.begun = k.begun
  <1>1. k \in KernelType /\ n \in Nat /\ n <= LockLimit
    BY KernelAssumption DEF KernelInv, Valid, Good, Linked
  <1>2. d = [k EXCEPT !.lockctr = n]
    BY DEF Locked
  <1>3. /\ d \in KernelType
        /\ d.q = k.q /\ d.rqtop = k.rqtop /\ d.state = k.state
        /\ d.pri = k.pri /\ d.timeout = k.timeout /\ d.rv = k.rv
        /\ d.prinorm = k.prinorm /\ d.onr = k.onr
        /\ d.sp = k.sp /\ d.sched = k.sched /\ d.lockctr = n /\ d.begun = k.begun
    BY <1>1, <1>2 DEF KernelType
  <1>4. /\ Good(d, Tasks) /\ \A u \in Tasks : InRq(d, u) <=> InRq(k, u)
        /\ Top(d) = Top(k)
    BY <1>3, Restated DEF KernelInv, Valid
  <1>5. Valid(d)
    BY <1>1, <1>3, <1>4, QueuesAssumption DEF KernelInv, Valid
  <1>6. Held(d)
    BY <1>3 DEF KernelInv, Held
  <1> QED BY <1>3, <1>4, <1>5, <1>6 DEF Same

LEMMA LockClearLeaves ==
  ASSUME KernelInv, TaskLockClear
  PROVE  \E x : Leaves("task", x) /\ Same(k, x)
  <1> DEFINE e == Locked(k, 0)
             d == DoCtTest(e)
             r == IF k.lockctr > 0 THEN d ELSE k
  <1>1. Leave("task", r)
    BY Zenon DEF TaskLockClear, Locked
  <1>2. CASE k.lockctr > 0
    <2>1. 0 \in 0..LockLimit
      BY KernelAssumption
    <2>2. Valid(e) /\ Held(e) /\ e.sched = k.sched /\ Same(k, e)
      BY <2>1, Relocked
    <2> HIDE DEF e
    <2>3. /\ Good(d, Tasks) /\ \A u \in Tasks : InRq(d, u) <=> InRq(e, u)
          /\ d.sp = e.sp /\ d.lockctr = e.lockctr /\ d.begun = e.begun
          /\ Asked(e, d) /\ Same(e, d)
      BY <2>2, CtTested DEF Valid
    <2>4. r = d
      BY <1>2
    <2> HIDE DEF d, r
    <2>5. Valid(d)
      BY <2>2, <2>3, QueuesAssumption DEF KernelInv, Valid, Asked
    <2>6. Held(d)
      BY <2>2, <2>3 DEF Held, Asked
    <2>7. Decided(d)
      BY <2>3 DEF Asked, Decided
    <2>8. Same(k, d)
      BY <2>2, <2>3 DEF Same
    <2> QED BY <1>1, <2>4, <2>5, <2>6, <2>7, <2>8 DEF Leaves
  <1>3. CASE ~(k.lockctr > 0)
    BY <1>1, <1>3 DEF Leaves, KernelInv, TopKnown, Decided, Same
  <1> QED BY <1>2, <1>3

\* The lock is changed by one, and no PSVH() follows.
LEMMA CountedLock ==
  ASSUME KernelInv, NEW n \in 0..LockLimit, k' = Locked(k, n), ct' = ct, pc' = pc
  PROVE  /\ KernelInv'
         /\ n # 0 => TopKnown'
         /\ Same(k, k')
  <1>1. /\ Valid(k') /\ Held(k')
        /\ Top(k') = Top(k) /\ k'.sched = k.sched /\ k'.lockctr = n /\ Same(k, k')
    BY Relocked
  <1>2. Valid(k)' /\ Held(k)'
    BY <1>1 DEF Valid, Held
  <1> QED BY <1>1, <1>2 DEF KernelInv, TopKnown

\* The switch to the top task, when those that have begun have a context.
LEMMA Switched ==
  ASSUME NEW r, Good(r, Tasks), InRq(r, Idle), \A u \in r.begun : r.sp[u],
         SwitchTo(r, Top(r))
  PROVE  KernelInv' /\ TopKnown'
  <1> DEFINE n == Top(r)
             state2 == [r.state EXCEPT ![n] = "RUN"]
             lock2  == IF ~r.sp[n] /\ n \in StartLocked THEN 1 ELSE 0
  <1>1. Linked(r) /\ r \in KernelType /\ Idle \in Tasks
    BY QueuesAssumption DEF Good, Linked
  <1>2. n \in Tasks /\ InRq(r, n)
    BY <1>1, TopNotEmpty
  <1>3. ct' = n /\ pc' = "fly"
    BY DEF SwitchTo
  <1>4. k' = [r EXCEPT !.sched = "NOP", !.state = state2, !.lockctr = lock2]
    BY <1>1 DEF SwitchTo, KernelType
  <1>5. state2 \in [Tasks -> {"RUN", "READY", "WAIT"}] /\ lock2 \in Nat /\ lock2 <= LockLimit
    BY <1>1, <1>2, KernelAssumption DEF KernelType
  <1>6. \A u \in Tasks : state2[u] # "WAIT" <=> r.state[u] # "WAIT"
    BY <1>1, <1>2 DEF Linked, KernelType
  <1> HIDE DEF n, state2, lock2
  <1>7. k' \in KernelType
    BY <1>1, <1>4, <1>5 DEF KernelType
  <1>8. /\ k'.q = r.q /\ k'.rqtop = r.rqtop /\ k'.state = state2
        /\ k'.pri = r.pri /\ k'.timeout = r.timeout
        /\ k'.sp = r.sp /\ k'.sched = "NOP" /\ k'.lockctr = lock2 /\ k'.begun = r.begun
    BY <1>1, <1>4, <1>5 DEF KernelType
  <1>9. /\ Good(k', Tasks) /\ \A u \in Tasks : InRq(k', u) <=> InRq(r, u)
        /\ Top(k') = Top(r)
    BY <1>6, <1>7, <1>8, Restated
  <1>10. Valid(k)'
    BY <1>1, <1>2, <1>3, <1>5, <1>8, <1>9 DEF Valid
  <1>11. Held(k)'
    BY <1>8 DEF Held
  <1>12. ct' = Top(k')
    BY <1>3, <1>9 DEF n
  <1> QED BY <1>2, <1>3, <1>10, <1>11, <1>12 DEF KernelInv, TopKnown

\* The suspend and the stop leg for ct.
LEMMA StopLegLeaves ==
  ASSUME KernelInv, ct \notin k.begun, NEW r, r = StopLeg(k)
  PROVE  /\ Good(r, Tasks) /\ InRq(r, Idle) /\ \A u \in r.begun : r.sp[u]
         /\ Top(r) = Top(k)
  <1> DEFINE sp2 == [k.sp EXCEPT ![ct] = FALSE]
  <1>1. k \in KernelType /\ ct \in Tasks /\ Good(k, Tasks) /\ InRq(k, Idle)
    BY DEF KernelInv, Valid, Good, Linked
  <1>2. /\ sp2 \in [Tasks -> BOOLEAN]
        /\ \A u \in Tasks \ {ct} : sp2[u] = k.sp[u]
        /\ r = [k EXCEPT !.sp = sp2]
    BY <1>1 DEF StopLeg, KernelType
  <1> HIDE DEF sp2
  <1>3. /\ r \in KernelType /\ r.q = k.q /\ r.rqtop = k.rqtop /\ r.state = k.state
        /\ r.pri = k.pri /\ r.timeout = k.timeout /\ r.begun = k.begun /\ r.sp = sp2
    BY <1>1, <1>2 DEF KernelType
  <1>4. /\ Good(r, Tasks) /\ \A u \in Tasks : InRq(r, u) <=> InRq(k, u)
        /\ Top(r) = Top(k)
    BY <1>1, <1>3, Restated
  <1>5. k.begun \subseteq Tasks /\ \A u \in k.begun \ {ct} : k.sp[u]
    BY <1>1 DEF KernelType, KernelInv, Held
  <1>6. \A u \in r.begun : r.sp[u]
    BY <1>2, <1>3, <1>5
  <1> QED BY <1>1, <1>4, <1>6, QueuesAssumption

LEMMA SuspendLegLeaves ==
  ASSUME KernelInv, NEW e, e \in {k, [k EXCEPT !.sp[ct] = TRUE]}, e.sp[ct],
         NEW r, r = SuspendLeg(e)
  PROVE  /\ Good(r, Tasks) /\ InRq(r, Idle) /\ \A u \in r.begun : r.sp[u]
         /\ Top(r) = Top(k)
  <1>1. /\ k \in KernelType /\ ct \in Tasks /\ Good(k, Tasks) /\ InRq(k, Idle)
        /\ Linked(k)
    BY DEF KernelInv, Valid, Good, Linked
  <1>2. /\ e \in KernelType /\ e.q = k.q /\ e.rqtop = k.rqtop /\ e.state = k.state
        /\ e.pri = k.pri /\ e.timeout = k.timeout /\ e.begun = k.begun
        /\ e.sched = k.sched
        /\ \A u \in Tasks \ {ct} : e.sp[u] = k.sp[u]
    <2> DEFINE sp2 == [k.sp EXCEPT ![ct] = TRUE]
    <2>1. sp2 \in [Tasks -> BOOLEAN] /\ \A u \in Tasks \ {ct} : sp2[u] = k.sp[u]
      BY <1>1 DEF KernelType
    <2>2. e = k \/ e = [k EXCEPT !.sp = sp2]
      OBVIOUS
    <2> HIDE DEF sp2
    <2>3. CASE e = k
      BY <1>1, <2>3
    <2>4. CASE e = [k EXCEPT !.sp = sp2]
      BY <1>1, <2>1, <2>4 DEF KernelType
    <2> QED BY <2>2, <2>3, <2>4
  <1>3. /\ r \in KernelType /\ r.q = e.q /\ r.rqtop = e.rqtop
        /\ r.pri = e.pri /\ r.timeout = e.timeout /\ r.begun = e.begun /\ r.sp = e.sp
        /\ \A u \in Tasks : r.state[u] # "WAIT" <=> e.state[u] # "WAIT"
    <2>1. CASE e.sched = "CTTEST"
      <3> DEFINE state2 == [e.state EXCEPT ![ct] = "READY"]
      <3>1. k.state[ct] # "WAIT"
        BY <1>1, <1>2, <2>1 DEF KernelInv, Valid, Linked
      <3>2. /\ state2 \in [Tasks -> {"RUN", "READY", "WAIT"}]
            /\ \A u \in Tasks : state2[u] # "WAIT" <=> e.state[u] # "WAIT"
            /\ r = [e EXCEPT !.state = state2]
        BY <1>1, <1>2, <2>1, <3>1 DEF SuspendLeg, KernelType
      <3> HIDE DEF state2
      <3> QED BY <1>2, <3>2 DEF KernelType
    <2>2. CASE e.sched # "CTTEST"
      BY <1>2, <2>2 DEF SuspendLeg
    <2> QED BY <2>1, <2>2
  <1>4. /\ Good(r, Tasks) /\ \A u \in Tasks : InRq(r, u) <=> InRq(k, u)
        /\ Top(r) = Top(k)
    BY <1>1, <1>2, <1>3, Restated
  <1>5. k.begun \subseteq Tasks /\ \A u \in k.begun \ {ct} : k.sp[u]
    BY <1>1 DEF KernelType, KernelInv, Held
  <1>6. \A u \in r.begun : r.sp[u]
    BY <1>2, <1>3, <1>5
  <1> QED BY <1>1, <1>4, <1>6, QueuesAssumption

\* Every step of the scheduler keeps the invariant, and leaves the top task
\* running if it was known to.
LEMMA SchedulerStep ==
  ASSUME KernelInv, Scheduler
  PROVE  KernelInv' /\ (TopKnown => TopKnown')
  <1>0. /\ k \in KernelType /\ ct \in Tasks /\ Good(k, Tasks) /\ InRq(k, Idle)
        /\ Linked(k) /\ Idle \in Tasks
        /\ k.begun \subseteq Tasks /\ \A u \in k.begun \ {ct} : k.sp[u]
    BY QueuesAssumption DEF KernelInv, Valid, Held, Good, Linked, KernelType
  <1>1. ASSUME UNCHANGED <<k, ct>>, pc' = "psv", pc \in {"run", "tail"}
        PROVE  KernelInv' /\ (TopKnown => TopKnown')
    <2>1. Valid(k)' /\ Held(k)'
      BY <1>1 DEF KernelInv, Valid, Held
    <2> QED BY <1>1, <2>1 DEF KernelInv, TopKnown
  <1>2. ASSUME NEW sched2 \in {"NOP"}, NEW begun2,
               begun2 \subseteq k.begun \union {ct}, \A u \in begun2 \ {ct} : k.sp[u],
               k' = [k EXCEPT !.sched = sched2, !.begun = begun2],
               ct' = ct, pc' = "tail", k.sched = "NOP" \/ Top(k) = ct
        PROVE  KernelInv' /\ (TopKnown => TopKnown')
    <2>1. begun2 \in SUBSET Tasks
      BY <1>0, <1>2
    <2>2. /\ k' \in KernelType
          /\ k'.q = k.q /\ k'.rqtop = k.rqtop /\ k'.state = k.state
          /\ k'.pri = k.pri /\ k'.timeout = k.timeout
          /\ k'.sp = k.sp /\ k'.sched = "NOP" /\ k'.lockctr = k.lockctr /\ k'.begun = begun2
      BY <1>0, <1>2, <2>1 DEF KernelType
    <2>3. /\ Good(k', Tasks) /\ \A u \in Tasks : InRq(k', u) <=> InRq(k, u)
          /\ Top(k') = Top(k)
      BY <1>0, <2>2, Restated
    <2>4. InRq(k, ct)
      BY <1>0, <1>2, TopNotEmpty DEF KernelInv, Valid
    <2>5. Valid(k)'
      BY <1>0, <1>2, <2>2, <2>3, <2>4 DEF KernelInv, Valid
    <2>6. Held(k)'
      BY <1>2, <2>2 DEF Held
    <2> QED BY <1>0, <1>2, <2>2, <2>3, <2>5, <2>6 DEF KernelInv, TopKnown
  <1>3. CASE Interrupt
    BY <1>1, <1>3 DEF Interrupt
  <1>4. CASE PsvStop
    <2>1. ct \notin k.begun
      BY <1>4 DEF PsvStop, KernelInv, Held
    <2>2. /\ Good(StopLeg(k), Tasks) /\ InRq(StopLeg(k), Idle)
          /\ \A u \in StopLeg(k).begun : StopLeg(k).sp[u]
          /\ Top(StopLeg(k)) = Top(k)
      BY <2>1, StopLegLeaves
    <2>3. SwitchTo(StopLeg(k), Top(StopLeg(k)))
      BY <1>4, <2>2 DEF PsvStop
    <2> QED BY <2>2, <2>3, Switched
  <1>5. CASE PsvContinue
    <2>1. k' = [k EXCEPT !.sched = "NOP", !.begun = k.begun]
      BY <1>0, <1>5 DEF PsvContinue, KernelType
    <2> QED BY <1>0, <1>2, <1>5, <2>1 DEF PsvContinue
  <1>6. CASE PsvSuspend
    <2> DEFINE e == [k EXCEPT !.sp[ct] = TRUE]
               r == SuspendLeg(e)
    <2>1. e.sp[ct]
      BY <1>0 DEF KernelType
    <2>2. SwitchTo(r, Top(k))
      BY <1>6 DEF PsvSuspend
    <2>3. e \in {k, [k EXCEPT !.sp[ct] = TRUE]}
      OBVIOUS
    <2> HIDE DEF e
    <2>4. /\ Good(r, Tasks) /\ InRq(r, Idle) /\ \A u \in r.begun : r.sp[u]
          /\ Top(r) = Top(k)
      BY <2>1, <2>3, SuspendLegLeaves, Zenon
    <2> HIDE DEF r
    <2> QED BY <2>2, <2>4, Switched
  <1>7. CASE FlyTop
    <2> DEFINE begun2 == IF k.sp[ct] THEN k.begun ELSE k.begun \union {ct}
    <2>1. k' = [k EXCEPT !.sched = "NOP", !.begun = begun2]
      BY <1>0, <1>7 DEF FlyTop, KernelType
    <2>2. begun2 \subseteq k.begun \union {ct} /\ \A u \in begun2 \ {ct} : k.sp[u]
      BY <1>0
    <2> HIDE DEF begun2
    <2> QED BY <1>2, <1>7, <2>1, <2>2 DEF FlyTop
  <1>8. CASE FlyResume
    <2> DEFINE r == Leg(k)
    <2>1. /\ Good(r, Tasks) /\ InRq(r, Idle) /\ \A u \in r.begun : r.sp[u]
          /\ Top(r) = Top(k)
      <3>1. CASE k.sched = "STOP"
        <4>1. r = StopLeg(k) /\ ct \notin k.begun
          BY <3>1 DEF Leg, KernelInv, Held
        <4> HIDE DEF r
        <4> QED BY <4>1, StopLegLeaves
      <3>2. CASE k.sched # "STOP"
        <4>1. r = SuspendLeg(k) /\ k.sp[ct]
          BY <1>8, <3>2 DEF Leg, FlyResume
        <4>2. k \in {k, [k EXCEPT !.sp[ct] = TRUE]}
          OBVIOUS
        <4> HIDE DEF r
        <4> QED BY <4>1, <4>2, SuspendLegLeaves, Zenon
      <3> QED BY <3>1, <3>2
    <2>2. SwitchTo(r, Top(k))
      BY <1>8 DEF FlyResume
    <2> HIDE DEF r
    <2> QED BY <2>1, <2>2, Switched
  <1>9. CASE FlyStart
    <2>1. ct \notin k.begun
      BY <1>9 DEF FlyStart, KernelInv, Held
    <2>2. /\ Good(StopLeg(k), Tasks) /\ InRq(StopLeg(k), Idle)
          /\ \A u \in StopLeg(k).begun : StopLeg(k).sp[u]
          /\ Top(StopLeg(k)) = Top(k)
      BY <2>1, StopLegLeaves
    <2>3. SwitchTo(StopLeg(k), Top(StopLeg(k)))
      BY <1>9, <2>2 DEF FlyStart
    <2> QED BY <2>2, <2>3, Switched
  <1>10. CASE TailFlyback
    BY <1>1, <1>10 DEF TailFlyback
  <1>11. CASE TailReturn
    <2>1. /\ Good(k', Tasks) /\ \A u \in Tasks : InRq(k', u) <=> InRq(k, u)
          /\ Top(k') = Top(k) /\ SameFields(k, k')
      BY <1>0, <1>11, Unanswered DEF TailReturn
    <2>2. Valid(k)' /\ Held(k)'
      BY <1>0, <1>11, <2>1 DEF TailReturn, KernelInv, Valid, Held, SameFields
    <2> QED BY <1>11, <2>1, <2>2 DEF TailReturn, KernelInv, TopKnown, SameFields
  <1> QED BY <1>3, <1>4, <1>5, <1>6, <1>7, <1>8, <1>9, <1>10, <1>11 DEF Scheduler

\* The scheduler changes nothing that concerns the tasks in the queues of
\* objects, but for the return value that the current task has fetched.
LEMMA SchedulerFrame ==
  ASSUME k \in KernelType, Scheduler
  PROVE  /\ k'.q = k.q /\ k'.pri = k.pri /\ k'.prinorm = k.prinorm /\ k'.onr = k.onr
         /\ k'.rv = IF TailReturn THEN [k.rv EXCEPT ![ct] = FALSE] ELSE k.rv
         /\ pc' = "run" <=> TailReturn
         /\ TailReturn \/ FlyTop => ct' = ct
  <1> USE DEF KernelType
  <1>1. CASE TailReturn
    BY <1>1 DEF TailReturn, FlyTop
  <1>2. CASE Interrupt \/ TailFlyback
    BY <1>2 DEF Interrupt, TailFlyback, TailReturn, FlyTop
  <1>3. CASE PsvContinue \/ FlyTop
    BY <1>3 DEF PsvContinue, TailReturn, FlyTop
  <1>4. CASE PsvStop \/ FlyStart
    BY <1>4 DEF PsvStop, FlyStart, TailReturn, SwitchTo, StopLeg, FlyTop
  <1>5. CASE PsvSuspend
    BY <1>5 DEF PsvSuspend, TailReturn, SwitchTo, SuspendLeg, FlyTop
  <1>6. CASE FlyResume
    BY <1>6 DEF FlyResume, TailReturn, SwitchTo, Leg, StopLeg, SuspendLeg, FlyTop
  <1> QED BY <1>1, <1>2, <1>3, <1>4, <1>5, <1>6 DEF Scheduler

LEMMA InitInv == Init => KernelInv /\ Unowned(k)
  <1> SUFFICES ASSUME Init PROVE KernelInv /\ Unowned(k)
    OBVIOUS
  <1> DEFINE p0 == InitPri[Idle]
  <1>1. p0 \in Levels /\ Idle \in Tasks
    BY QueuesAssumption, KernelAssumption
  <1>2. <<Idle>> \in Seq(Tasks) /\ <<>> \in Seq(Tasks)
    BY <1>1
  <1>3. /\ k.q \in [Levels \union Objs -> Seq(Tasks)]
        /\ \A x \in Levels \union Objs : k.q[x] = IF x = p0 THEN <<Idle>> ELSE <<>>
    BY <1>1, <1>2 DEF Init
  <1>4. /\ k.rqtop = p0 /\ k.pri = InitPri /\ k.prinorm = InitPri /\ k.pritmo = InitPriTmo
        /\ k.state = [t \in Tasks |-> IF t = Idle THEN "RUN" ELSE "WAIT"]
        /\ k.timeout = [t \in Tasks |-> "INF"]
        /\ k.sp = [t \in Tasks |-> t = Idle]
        /\ k.sched = "NOP" /\ k.lockctr = 0 /\ k.begun = {Idle}
        /\ ct = Idle /\ pc = "run"
    BY DEF Init
  <1>5. k \in KernelType
    <2> DEFINE q2 == k.q
               state2 == [t \in Tasks |-> IF t = Idle THEN "RUN" ELSE "WAIT"]
               sp2 == [t \in Tasks |-> t = Idle]
               timeout2 == [t \in Tasks |-> "INF"]
               rv2 == [t \in Tasks |-> FALSE]
               onr2 == [m \in Mutexes |-> NoTask]
    <2>1. /\ q2 \in [Levels \union Objs -> Seq(Tasks)]
          /\ state2 \in [Tasks -> {"RUN", "READY", "WAIT"}]
          /\ sp2 \in [Tasks -> BOOLEAN] /\ timeout2 \in [Tasks -> {"INF", "SET"}]
          /\ rv2 \in [Tasks -> BOOLEAN] /\ onr2 \in [Mutexes -> Tasks \union {NoTask}]
      BY <1>3
    <2>2. k = [ q |-> q2, rqtop |-> p0, state |-> state2, pri |-> InitPri,
                prinorm |-> InitPri, pritmo |-> InitPriTmo, sp |-> sp2,
                timeout |-> timeout2, rv |-> rv2, sched |-> "NOP", lockctr |-> 0,
                onr |-> onr2, begun |-> {Idle} ]
      BY DEF Init
    <2> HIDE DEF q2, state2, sp2, timeout2, rv2, onr2, p0
    <2> QED BY <1>1, <2>1, <2>2, KernelAssumption DEF KernelType
  <1>6. \A v : Contains(<<Idle>>, v) <=> v = Idle
    BY DEF Contains
  <1>7. \A v : ~Contains(<<>>, v)
    BY DEF Contains
  <1>8. \A x \in Places : \A v : Contains(k.q[x], v) <=> x = p0 /\ v = Idle
    BY <1>3, <1>6, <1>7 DEF Places
  <1>9. \A v : InRq(k, v) <=> v = Idle
    BY <1>1, <1>5, <1>8, InRqDef DEF Places
  <1>10. Linked(k)
    <2>2. Injective(<<Idle>>) /\ Injective(<<>>)
      BY DEF Injective
    <2>3. \A x \in Places : Injective(k.q[x])
      BY <1>3, <2>2 DEF Places
    <2>4. \A u \in Tasks : k.state[u] # "WAIT" <=> InRq(k, u)
      BY <1>4, <1>9
    <2>5. k.q[p0] = <<Idle>> /\ \A x \in Levels : x > p0 => k.q[x] = <<>>
      BY <1>1, <1>3 DEF Levels
    <2>6. <<Idle>> # <<>>
      OBVIOUS
    <2>7. \A p1, p2 \in Places, u \in Tasks :
            Contains(k.q[p1], u) /\ Contains(k.q[p2], u) => p1 = p2
      BY <1>8
    <2> HIDE DEF p0
    <2>8. /\ k.rqtop # 0 => k.q[k.rqtop] # <<>>
          /\ \A x \in Levels : x > k.rqtop => k.q[x] = <<>>
      BY <1>4, <2>5, <2>6
    <2> QED BY <1>5, <2>3, <2>4, <2>7, <2>8 DEF Linked
  <1>11. \A u \in Tasks : Placed(k, u)
    BY <1>1, <1>4, <1>8, <1>9 DEF Placed, Places
  <1>13. Unowned(k)
    BY <1>1, <1>3, QueuesAssumption DEF Unowned, Objs
  <1>12. 0 <= LockLimit
    BY KernelAssumption
  <1> QED BY <1>1, <1>4, <1>9, <1>10, <1>11, <1>12, <1>13 DEF KernelInv, Valid, Held, Good

\* An SSR leaves the kernel's data so.
LEMMA LeavesStep ==
  ASSUME KernelInv, NEW c \in Callers, MayCall(c), NEW r, Leaves(c, r)
  PROVE  /\ KernelInv' /\ (TopKnown => TopKnown')
         /\ k' = r /\ ct' = ct /\ (pc' = "run" => pc = "run")
  <1>1. k' = r /\ ct' = ct /\ (pc' = "run" => pc = "run")
    BY DEF Leaves, Leave
  <1>2. KernelInv' /\ (TopKnown => TopKnown')
    BY Left DEF Leaves
  <1> QED BY <1>1, <1>2

\* What a task SSR or a timeout does to the task t that it is about.
Handled(t) == Aside(k, k', t) \/ Bumped(k, k', t)

\* No task comes to wait for a mutex by it.
LEMMA HandledUnowned ==
  ASSUME k \in KernelType, Unowned(k), NEW t, Handled(t)
  PROVE  Unowned(k')
  <1>1. ASSUME NEW m \in Mutexes PROVE k'.q[m] = <<>>
    <2>1. k.q[m] = <<>> /\ m \in Objs
      BY DEF Unowned, Objs
    <2> QED BY <2>1, EmptyQueue DEF Handled, Aside, Bumped, Without
  <1> QED BY <1>1 DEF Unowned

LEMMA SSRStep ==
  ASSUME KernelInv, Unowned(k), Timeout \/ TaskSSR \/ PrioritySSR \/ SleepSSR
  PROVE  /\ KernelInv' /\ (TopKnown => TopKnown') /\ Unowned(k')
         /\ ct' = ct /\ (pc' = "run" => pc = "run")
         /\ \E t \in Tasks : Handled(t)
  <1>0. "task" \in Callers /\ "lsr" \in Callers /\ k \in KernelType /\ ct \in Tasks
        /\ Targets \subseteq Tasks
    BY DEF Callers, KernelInv, Valid, Good, Linked, Targets
  <1>1. ASSUME NEW c \in Callers, MayCall(c), NEW t \in Tasks,
               NEW r, Leaves(c, r), Aside(k, r, t) \/ Bumped(k, r, t)
        PROVE  /\ KernelInv' /\ (TopKnown => TopKnown') /\ Unowned(k')
               /\ ct' = ct /\ (pc' = "run" => pc = "run")
               /\ \E u \in Tasks : Handled(u)
    <2>1. /\ KernelInv' /\ (TopKnown => TopKnown')
          /\ k' = r /\ ct' = ct /\ (pc' = "run" => pc = "run")
      BY <1>1, LeavesStep
    <2>2. Handled(t)
      BY <1>1, <2>1 DEF Handled
    <2> QED BY <1>0, <2>1, <2>2, HandledUnowned
  <1>2. CASE Timeout
    <2>1. PICK t \in Targets : TaskTimeout(t)
      BY <1>2 DEF Timeout
    <2>2. PICK r : Leaves("lsr", r) /\ Aside(k, r, t)
      BY <2>1, TimeoutLeaves
    <2>3. MayCall("lsr")
      BY <2>1 DEF TaskTimeout
    <2> QED BY <1>0, <1>1, <2>2, <2>3
  <1>3. CASE TaskSSR
    <2>1. PICK c \in Callers, t \in Targets :
             \/ TaskResume(c, t) \/ TaskStart(c, t)
             \/ \E tmo \in Timeouts : TaskStop(c, t, tmo) \/ TaskSuspend(c, t, tmo)
      BY <1>3 DEF TaskSSR
    <2>2. k.pri[t] \in Levels
      BY <1>0 DEF KernelType
    <2>3. PICK r : Leaves(c, r) /\ Aside(k, r, t)
      BY <2>1, <2>2, ResumeLeaves, StartLeaves, StopLeaves, SuspendLeaves DEF TaskStart
    <2>4. MayCall(c)
      BY <2>1 DEF TaskResume, TaskStart, Start, TaskStop, TaskSuspend
    <2> QED BY <1>0, <1>1, <2>3, <2>4
  <1>4. CASE PrioritySSR
    <2>1. PICK c \in Callers, t \in Targets :
             \/ \E p \in Levels \union {NoChange} : TaskBump(c, t, p)
             \/ \E p \in Levels : TaskStartNew(c, t, p)
      BY <1>4 DEF PrioritySSR
    <2>2. CASE \E p \in Levels \union {NoChange} : TaskBump(c, t, p)
      <3>1. PICK p \in Levels \union {NoChange} : TaskBump(c, t, p)
        BY <2>2
      <3>2. PICK r : Leaves(c, r) /\ Bumped(k, r, t)
        BY <3>1, BumpLeaves
      <3>3. MayCall(c)
        BY <3>1 DEF TaskBump
      <3> QED BY <1>0, <1>1, <3>2, <3>3
    <2>3. CASE \E p \in Levels : TaskStartNew(c, t, p)
      <3>1. PICK p \in Levels : Start(c, t, p)
        BY <2>3 DEF TaskStartNew
      <3>2. PICK r : Leaves(c, r) /\ Aside(k, r, t)
        BY <3>1, StartLeaves
      <3>3. MayCall(c)
        BY <3>1 DEF Start
      <3> QED BY <1>0, <1>1, <3>2, <3>3
    <2> QED BY <2>1, <2>2, <2>3
  <1>5. CASE SleepSSR
    <2>1. MayCall("task")
      BY <1>5 DEF SleepSSR, TaskSleep, TaskSleepStop, Sleep, CallerMayWait, MayCall
    <2>2. PICK r : Leaves("task", r) /\ Aside(k, r, ct)
      BY <1>5, SleepLeaves DEF SleepSSR, TaskSleep, TaskSleepStop
    <2> QED BY <1>0, <1>1, <2>1, <2>2
  <1> QED BY <1>2, <1>3, <1>4, <1>5

LEMMA NextStep ==
  ASSUME KernelInv, Unowned(k), [Next]_kernelVars
  PROVE  /\ KernelInv' /\ Unowned(k')
         /\ TopKnown /\ ~TopKnown' => TaskUnlockQuick
  <1>0. k \in KernelType /\ k.lockctr \in Nat /\ k.lockctr <= LockLimit /\ LockLimit \in Nat
    BY KernelAssumption DEF KernelInv, Valid, Good, Linked, KernelType
  <1>a. k'.q = k.q => Unowned(k')
    BY DEF Unowned
  <1>1. CASE Scheduler
    BY <1>0, <1>1, <1>a, SchedulerStep, SchedulerFrame
  <1>2. CASE Timeout \/ TaskSSR \/ PrioritySSR \/ SleepSSR
    BY <1>2, SSRStep
  <1>7. CASE TaskLockClear
    <2>1. "task" \in Callers /\ MayCall("task")
      BY <1>7 DEF Callers, TaskLockClear
    <2>2. PICK r : Leaves("task", r) /\ Same(k, r)
      BY <1>7, LockClearLeaves
    <2>3. KernelInv' /\ (TopKnown => TopKnown') /\ k' = r
      BY <2>1, <2>2, LeavesStep
    <2> QED BY <1>a, <2>2, <2>3 DEF Same
  <1>3. CASE TaskLock
    <2> DEFINE n == k.lockctr + 1
    <2>1. n \in 0..LockLimit /\ n # 0
      BY <1>0, <1>3 DEF TaskLock
    <2>2. k' = Locked(k, n) /\ ct' = ct /\ pc' = pc
      BY <1>0, <1>3 DEF TaskLock, Locked, KernelType
    <2> HIDE DEF n
    <2> QED BY <1>a, <2>1, <2>2, CountedLock DEF Same
  <1>4. CASE /\ pc = "run"
             /\ k.lockctr > 1
             /\ k' = [k EXCEPT !.lockctr = @ - 1]
             /\ UNCHANGED <<ct, pc>>
    <2> DEFINE n == k.lockctr - 1
    <2>1. n \in 0..LockLimit /\ n # 0
      BY <1>0, <1>4
    <2>2. k' = Locked(k, n) /\ ct' = ct /\ pc' = pc
      BY <1>0, <1>4 DEF Locked, KernelType
    <2> HIDE DEF n
    <2> QED BY <1>a, <2>1, <2>2, CountedLock DEF Same
  <1>5. CASE TaskUnlockQuick
    <2> DEFINE n == k.lockctr - 1
    <2>1. n \in 0..LockLimit
      BY <1>0, <1>5 DEF TaskUnlockQuick
    <2>2. k' = Locked(k, n) /\ ct' = ct /\ pc' = pc
      BY <1>0, <1>5 DEF TaskUnlockQuick, Locked, KernelType
    <2> HIDE DEF n
    <2> QED BY <1>5, <1>a, <2>1, <2>2, CountedLock DEF Same
  <1>6. CASE UNCHANGED kernelVars
    <2>1. Valid(k)' /\ Held(k)'
      BY <1>6 DEF kernelVars, KernelInv, Valid, Held
    <2> QED BY <1>6, <1>a, <2>1 DEF kernelVars, KernelInv, TopKnown
  <1> QED BY <1>1, <1>2, <1>3, <1>4, <1>5, <1>6, <1>7 DEF Next, LockSSR, TaskUnlock

-----------------------------------------------------------------------------
(* What the invariant says. *)

LEMMA ConsistentIfInv ==
  ASSUME KernelInv
  PROVE  QueuesConsistent
  <1>1. /\ Linked(k) /\ k \in KernelType /\ DOMAIN k.q = Levels \union Objs
        /\ \A u \in Tasks : Placed(k, u)
        /\ InRq(k, Idle)
    BY DEF KernelInv, Valid, Good, Linked, KernelType
  <1>2. ASSUME NEW x \in Places, NEW i \in DOMAIN k.q[x]
        PROVE  /\ i \in 1..Len(k.q[x])
               /\ k.q[x][i] \in Tasks /\ Contains(k.q[x], k.q[x][i])
    <2> DEFINE s == k.q[x]
    <2>1. s \in Seq(Tasks)
      BY <1>1 DEF KernelType, Places
    <2> HIDE DEF s
    <2>2. i \in 1..Len(s)
      BY <2>1, <1>2, LenProperties DEF s
    <2>3. s[i] \in Tasks
      BY <2>1, <2>2, ElementOfSeq
    <2> QED BY <2>2, <2>3 DEF Contains, s
  <1>3. ASSUME NEW x \in DOMAIN k.q, NEW y \in DOMAIN k.q,
               NEW i \in DOMAIN k.q[x], NEW j \in DOMAIN k.q[y],
               k.q[x][i] = k.q[y][j]
        PROVE  x = y /\ i = j
    <2>1. /\ x \in Places /\ i \in 1..Len(k.q[x]) /\ k.q[x][i] \in Tasks
          /\ Contains(k.q[x], k.q[x][i])
          /\ y \in Places /\ j \in 1..Len(k.q[y]) /\ Contains(k.q[y], k.q[y][j])
      BY <1>1, <1>2 DEF Places
    <2>2. x = y
      BY <1>1, <1>3, <2>1 DEF Linked
    <2>3. Injective(k.q[x])
      BY <1>1, <2>1 DEF Linked
    <2> QED BY <1>3, <2>1, <2>2, <2>3 DEF Injective
  <1>4. RqTopCorrect
    <2> DEFINE m == Max({p \in 0..MaxPri : k.q[p] # <<>>} \union {0})
    <2>1. MaxPri \in Levels
      BY QueuesAssumption DEF Levels
    <2>2. /\ m \in 0..MaxPri
          /\ m # 0 => k.q[m] # <<>>
          /\ \A p \in 0..MaxPri : p > m => k.q[p] = <<>>
      BY <2>1, TopLevel
    <2>3. RqTopCorrect <=> k.rqtop = m
      BY Zenon DEF RqTopCorrect, Levels
    <2> HIDE DEF m
    <2>4. /\ k.rqtop \in 0..MaxPri
          /\ k.rqtop # 0 => k.q[k.rqtop] # <<>>
          /\ \A p \in 0..MaxPri : p > k.rqtop => k.q[p] = <<>>
      BY <1>1 DEF Linked, KernelType, Levels
    <2>5. ~(m > k.rqtop) /\ ~(k.rqtop > m)
      BY <2>2, <2>4, QueuesAssumption
    <2> QED BY <2>2, <2>3, <2>4, <2>5, QueuesAssumption
  <1>5. NoStaleTimeout
    BY <1>1 DEF NoStaleTimeout, Placed
  <1>6. \A t \in Tasks : /\ k.state[t] # "WAIT" <=> InRq(k, t)
                         /\ InRq(k, t) => Contains(k.q[k.pri[t]], t)
    BY <1>1 DEF Linked, Placed
  <1> QED BY <1>1, <1>3, <1>4, <1>5, <1>6 DEF QueuesConsistent

\* The strengthened invariant holds in every state.
THEOREM KernelInvariance == Spec => [](KernelInv /\ Unowned(k))
  <1>1. KernelInv /\ Unowned(k) /\ [Next]_kernelVars => (KernelInv /\ Unowned(k))'
    BY NextStep DEF Unowned
  <1> QED BY InitInv, <1>1, PTL DEF Spec

\* The kernel's data and the scheduler's state are what xsmx.c declares them
\* to be; smx_lockctr stays within SMX_LOCK_NEST_LIMIT.
THEOREM KernelTyped == Spec => []TypeOK
  <1>1. KernelInv => TypeOK
    BY DEF KernelInv, Valid, Good, Linked, TypeOK
  <1> QED BY KernelInvariance, <1>1, PTL

\* After every SSR and every step of the scheduler, whatever the tasks and
\* LSRs did before: each task is in one place, at the level of its priority
\* and without a timeout if it is ready, and smx_rqtop points to the highest
\* level in use, so that the scheduler finds a task to run.
THEOREM QueuesAlwaysConsistent == Spec => []QueuesConsistent
  <1>1. KernelInv => QueuesConsistent
    BY ConsistentIfInv
  <1> QED BY KernelInvariance, <1>1, PTL

\* A task that has begun and was not told to stop keeps its saved context
\* through PSVH() and the flybacks, however often LSRs move it about there.
THEOREM ContextAlwaysKept == Spec => []ContextKept
  <1>1. KernelInv => ContextKept
    BY DEF KernelInv, Held, ContextKept
  <1> QED BY KernelInvariance, <1>1, PTL

\* Only smx_TaskUnlockQuick() leaves a task running that is not the top task.
THEOREM PreemptionMissedOnlyByUnlockQuick == Spec => OnlyUnlockQuickMissesPreemption
  <1>1. KernelInv /\ Unowned(k) /\ [Next]_kernelVars
          => [TopKnown /\ ~TopKnown' => TaskUnlockQuick]_kernelVars
    BY NextStep
  <1> QED BY KernelInvariance, <1>1, PTL DEF Spec, OnlyUnlockQuickMissesPreemption
=============================================================================
