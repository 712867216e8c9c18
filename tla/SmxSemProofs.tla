---------------------------- MODULE SmxSemProofs -----------------------------
(***************************************************************************)
(* Theorems about SmxSem, for every number of tasks, of priorities and of  *)
(* semaphores, with any modes and limits.                                  *)
(*                                                                         *)
(* What the task SSRs and the scheduler do to the tasks that wait at       *)
(* semaphores is in SmxKernelProofs.  Here are the SSRs of semaphores,     *)
(* which wake several tasks or make the current one wait, and what all of  *)
(* them do to the counts and the tokens.                                   *)
(***************************************************************************)
EXTENDS SmxSem, SmxKernelProofs, FiniteSetTheorems

-----------------------------------------------------------------------------
(* Waking the tasks in the queue of a semaphore. *)

\* What waking tasks leaves alone.
Unmoved(r, d) == /\ d.pri = r.pri /\ d.sp = r.sp /\ d.sched = r.sched
                 /\ d.lockctr = r.lockctr /\ d.begun = r.begun
                 /\ \A u \in Tasks : InRq(r, u) => InRq(d, u)

LEMMA Woken ==
  ASSUME NEW r, Good(r, Tasks), NEW s \in Sems, r.q[s] # <<>>, NEW b \in BOOLEAN,
         NEW d, d = Wake(r, s, b)
  PROVE  /\ Good(d, Tasks) /\ Unmoved(r, d)
         /\ Head(r.q[s]) \in Tasks
         /\ d.rv = [r.rv EXCEPT ![Head(r.q[s])] = b]
         /\ d.q[s] = Tail(r.q[s])
         /\ \A o \in Objs \ {s} : d.q[o] = r.q[o]
  <1> DEFINE t == Head(r.q[s])
             e == DQFTask(r, s)
             f == NQRQTask(e, t)
             g == NoTimeout(f, t)
  <1>0. s \in Objs
    BY DEF Objs
  <1>1. d = Replied(g, t, b)
    BY DEF Wake, Replied
  <1>2. /\ t \in Tasks /\ Good(e, Tasks) /\ ~Queued(e, t)
        /\ SameFields(r, e) /\ e.rv = r.rv
        /\ e.q[s] = Tail(r.q[s])
        /\ \A x \in Places \ {s} : e.q[x] = r.q[x]
        /\ \A u \in Tasks : InRq(e, u) <=> InRq(r, u)
    BY <1>0, Headless
  <1> HIDE DEF e, t
  <1>3. /\ Good(f, Tasks \ {t}) /\ SameFields(e, f) /\ f.rv = e.rv
        /\ InRq(f, t) /\ Contains(f.q[f.pri[t]], t) /\ Others(e, f, t) /\ Beside(e, f, t)
    BY <1>2, Readied
  <1> HIDE DEF f
  <1>4. /\ Good(g, Tasks) /\ \A u \in Tasks : InRq(g, u) <=> InRq(f, u)
        /\ Same(f, g)
        /\ g.sp = f.sp /\ g.sched = f.sched /\ g.lockctr = f.lockctr /\ g.begun = f.begun
    BY <1>2, <1>3, Unmarked
  <1> HIDE DEF g
  <1>5. /\ Good(d, Tasks) /\ \A u \in Tasks : InRq(d, u) <=> InRq(g, u)
        /\ Top(d) = Top(g) /\ d.rqtop = g.rqtop /\ d.q = g.q /\ SameFields(g, d)
        /\ d.rv = [g.rv EXCEPT ![t] = b]
    <2>1. t \in Tasks /\ Good(g, Tasks) /\ b \in BOOLEAN /\ d = Replied(g, t, b)
      BY <1>1, <1>2, <1>4
    <2> QED BY <2>1, Answered
  <1>6. Unmoved(r, d)
    BY <1>2, <1>3, <1>4, <1>5 DEF Unmoved, SameFields, Same, Others
  <1>7. /\ d.rv = [r.rv EXCEPT ![t] = b]
        /\ d.q[s] = Tail(r.q[s])
        /\ \A o \in Objs \ {s} : d.q[o] = r.q[o]
    BY <1>0, <1>2, <1>3, <1>4, <1>5 DEF Same, Beside, Places
  <1> USE DEF t
  <1> QED BY <1>2, <1>5, <1>6, <1>7

-----------------------------------------------------------------------------
(***************************************************************************)
(* The loop of WakeFirst().  A function that is defined by recursion is    *)
(* what its definition says only if there is such a function: there is one *)
(* up to every number, for there is no least number without one.           *)
(***************************************************************************)

Run(r, s, b, n, f) ==
    f = [i \in 0..n |-> IF i = 0 THEN r ELSE Wake(f[i - 1], s, b)]

LEMMA RunExists ==
  ASSUME NEW r, NEW s, NEW b, NEW n \in Nat
  PROVE  \E f : Run(r, s, b, n, f)
  <1> DEFINE N == {m \in Nat : ~\E f : Run(r, s, b, m, f)}
  <1> SUFFICES ASSUME N # {} PROVE FALSE
    OBVIOUS
  <1>1. PICK m \in N : \A j \in N : m <= j
    <2>1. N \in SUBSET Nat
      OBVIOUS
    <2> HIDE DEF N
    <2> QED BY <2>1, LeastNumber
  <1>2. CASE m = 0
    <2> DEFINE f == [i \in 0..0 |-> r]
    <2>1. \A i \in 0..0 : i = 0
      OBVIOUS
    <2>2. f = [i \in 0..0 |-> IF i = 0 THEN r ELSE Wake(f[i - 1], s, b)]
      BY <2>1
    <2>3. Run(r, s, b, m, f)
      BY <1>2, <2>2 DEF Run
    <2> HIDE DEF f
    <2> QED BY <1>1, <2>3
  <1>3. CASE m # 0
    <2>1. m \in Nat /\ m - 1 \in Nat /\ ~(m <= m - 1)
      BY <1>1, <1>3
    <2>2. m - 1 \notin N
      BY <1>1, <2>1
    <2>3. PICK g : Run(r, s, b, m - 1, g)
      BY <2>1, <2>2
    <2> DEFINE f == [i \in 0..m |-> IF i = m THEN Wake(g[m - 1], s, b) ELSE g[i]]
    <2>4. ASSUME NEW i \in 0..m
          PROVE  f[i] = IF i = 0 THEN r ELSE Wake(f[i - 1], s, b)
      <3>1. CASE i = 0
        BY <1>3, <2>1, <2>3, <3>1 DEF Run
      <3>2. CASE i # 0 /\ i # m
        <4>1. i \in 0..m - 1 /\ i - 1 \in 0..m /\ i - 1 # m
          BY <2>1, <3>2
        <4> QED BY <2>3, <3>2, <4>1 DEF Run
      <3>3. CASE i # 0 /\ i = m
        <4>1. m - 1 \in 0..m /\ m - 1 # m
          BY <2>1
        <4> QED BY <3>3, <4>1
      <3> QED BY <3>1, <3>2, <3>3
    <2>5. f = [i \in 0..m |-> f[i]]
      OBVIOUS
    <2> HIDE DEF f
    <2>6. Run(r, s, b, m, f)
      BY <2>4, <2>5 DEF Run
    <2> QED BY <1>1, <2>6
  <1> QED BY <1>2, <1>3

LEMMA RunOfWakeFirst ==
  ASSUME NEW r, NEW s, NEW b, NEW n \in Nat \ {0}
  PROVE  \E f : Run(r, s, b, n, f) /\ WakeFirst(r, s, n, b) = DoCtTest(f[n])
  <1> DEFINE F == CHOOSE f : f = [i \in 0..n |-> IF i = 0 THEN r ELSE Wake(f[i - 1], s, b)]
  <1>1. Run(r, s, b, n, F)
    <2>1. \E f : Run(r, s, b, n, f)
      BY RunExists
    <2> QED BY <2>1 DEF Run
  <1>2. WakeFirst(r, s, n, b) = DoCtTest(F[n])
    BY DEF WakeFirst
  <1> QED BY <1>1, <1>2

\* The data after the first n tasks waiting at s have been woken with value b.
AfterWakes(r, d, s, b, n) ==
    /\ Good(d, Tasks) /\ Unmoved(r, d)
    /\ Len(d.q[s]) = Len(r.q[s]) - n
    /\ \A o \in Objs \ {s} : d.q[o] = r.q[o]
    /\ \A u \in Tasks : /\ d.rv[u] = r.rv[u] \/ (Contains(r.q[s], u) /\ d.rv[u] = b)
                        /\ Contains(d.q[s], u) => Contains(r.q[s], u)
    /\ Descending(r.q[s], r.pri) => Descending(d.q[s], d.pri)

LEMMA NoWake ==
  ASSUME NEW r, Good(r, Tasks), NEW s \in Sems, NEW b
  PROVE  AfterWakes(r, r, s, b, 0)
  <1>1. r.q[s] \in Seq(Tasks)
    BY DEF Good, Linked, KernelType, Objs
  <1>2. Len(r.q[s]) = Len(r.q[s]) - 0
    BY <1>1, LenProperties
  <1> QED BY <1>2 DEF AfterWakes, Unmoved

LEMMA NextWake ==
  ASSUME NEW r, Good(r, Tasks), NEW s \in Sems, NEW b \in BOOLEAN, NEW n \in Nat,
         n < Len(r.q[s]), NEW d, AfterWakes(r, d, s, b, n), NEW e, e = Wake(d, s, b)
  PROVE  AfterWakes(r, e, s, b, n + 1)
  <1>0. /\ s \in Places /\ r.q[s] \in Seq(Tasks) /\ d.q[s] \in Seq(Tasks)
        /\ Injective(d.q[s])
    BY DEF AfterWakes, Good, Linked, KernelType, Places, Objs
  <1>1. /\ Len(r.q[s]) \in Nat /\ Len(d.q[s]) = Len(r.q[s]) - n /\ d.q[s] # <<>>
        /\ Good(d, Tasks) /\ d.rv \in [Tasks -> BOOLEAN]
    <2>1. /\ Len(r.q[s]) \in Nat /\ Len(d.q[s]) = Len(r.q[s]) - n
          /\ d.q[s] = <<>> => Len(d.q[s]) = 0
      BY <1>0, LenProperties, EmptySeq DEF AfterWakes
    <2>2. Good(d, Tasks) /\ d.rv \in [Tasks -> BOOLEAN]
      BY DEF AfterWakes, Good, Linked, KernelType
    <2> QED BY <2>1, <2>2
  <1>2. /\ Good(e, Tasks) /\ Unmoved(d, e)
        /\ Head(d.q[s]) \in Tasks
        /\ e.rv = [d.rv EXCEPT ![Head(d.q[s])] = b]
        /\ e.q[s] = Tail(d.q[s])
        /\ \A o \in Objs \ {s} : e.q[o] = d.q[o]
    BY <1>1, Woken
  <1>3. /\ Len(e.q[s]) = Len(d.q[s]) - 1
        /\ Contains(d.q[s], Head(d.q[s]))
        /\ \A u : Contains(e.q[s], u) => Contains(d.q[s], u)
        /\ Descending(d.q[s], d.pri) => Descending(e.q[s], d.pri)
    <2>1. Len(Tail(d.q[s])) = Len(d.q[s]) - 1
      BY <1>0, <1>1, HeadTailProperties
    <2>2. /\ Contains(d.q[s], Head(d.q[s]))
          /\ \A u : Contains(Tail(d.q[s]), u) => Contains(d.q[s], u)
      BY <1>0, <1>1, TailContains
    <2>3. Descending(d.q[s], d.pri) => Descending(Tail(d.q[s]), d.pri)
      BY <1>0, <1>1, TailDescending
    <2> QED BY <1>2, <2>1, <2>2, <2>3
  <1>4. Unmoved(r, e)
    BY <1>2 DEF AfterWakes, Unmoved
  <1>5. Len(e.q[s]) = Len(r.q[s]) - (n + 1)
    BY <1>1, <1>3
  <1>6. \A o \in Objs \ {s} : e.q[o] = r.q[o]
    BY <1>2 DEF AfterWakes
  <1>7. ASSUME NEW u \in Tasks
        PROVE  /\ e.rv[u] = r.rv[u] \/ (Contains(r.q[s], u) /\ e.rv[u] = b)
               /\ Contains(e.q[s], u) => Contains(r.q[s], u)
    <2>1. e.rv[u] = IF u = Head(d.q[s]) THEN b ELSE d.rv[u]
      BY <1>1, <1>2
    <2>2. /\ d.rv[u] = r.rv[u] \/ (Contains(r.q[s], u) /\ d.rv[u] = b)
          /\ Contains(d.q[s], u) => Contains(r.q[s], u)
      BY DEF AfterWakes
    <2> QED BY <1>3, <2>1, <2>2
  <1>8. Descending(r.q[s], r.pri) => Descending(e.q[s], e.pri)
    BY <1>2, <1>3 DEF AfterWakes, Unmoved
  <1> QED BY <1>2, <1>4, <1>5, <1>6, <1>7, <1>8 DEF AfterWakes

LEMMA RunWakes ==
  ASSUME NEW r, Good(r, Tasks), NEW s \in Sems, NEW b \in BOOLEAN, NEW n \in Nat,
         n <= Len(r.q[s]), NEW f, Run(r, s, b, n, f)
  PROVE  AfterWakes(r, f[n], s, b, n)
  <1> DEFINE N == {m \in Nat : m <= n /\ ~AfterWakes(r, f[m], s, b, m)}
  <1> SUFFICES ASSUME N # {} PROVE FALSE
    OBVIOUS
  <1>0. r.q[s] \in Seq(Tasks) /\ Len(r.q[s]) \in Nat
    BY LenProperties DEF Good, Linked, KernelType, Objs
  <1>1. PICK m \in N : \A j \in N : m <= j
    <2>1. N \in SUBSET Nat
      OBVIOUS
    <2> HIDE DEF N
    <2> QED BY <2>1, LeastNumber
  <1>2. m \in Nat /\ m <= n /\ ~AfterWakes(r, f[m], s, b, m)
    BY <1>1
  <1>3. f[m] = IF m = 0 THEN r ELSE Wake(f[m - 1], s, b)
    BY <1>2 DEF Run
  <1>4. CASE m = 0
    BY <1>2, <1>3, <1>4, NoWake
  <1>5. CASE m # 0
    <2>1. /\ m - 1 \in Nat /\ m - 1 <= n /\ ~(m <= m - 1) /\ m - 1 + 1 = m
          /\ m - 1 < Len(r.q[s])
      BY <1>0, <1>2, <1>5
    <2>2. AfterWakes(r, f[m - 1], s, b, m - 1)
      BY <1>1, <2>1
    <2> DEFINE j == m - 1
               e == f[m]
    <2>3. /\ j \in Nat /\ j < Len(r.q[s]) /\ AfterWakes(r, f[j], s, b, j)
          /\ e = Wake(f[j], s, b) /\ j + 1 = m
      BY <1>3, <1>5, <2>1, <2>2
    <2> HIDE DEF j, e
    <2>4. AfterWakes(r, e, s, b, j + 1)
      BY <2>3, NextWake
    <2> QED BY <1>2, <2>3, <2>4 DEF e
  <1> QED BY <1>4, <1>5

\* The data that WakeFirst() leaves: a preemption test has been asked for if a
\* task was woken.
LEMMA Awake ==
  ASSUME NEW r, Good(r, Tasks), NEW s \in Sems, NEW b \in BOOLEAN, NEW n \in Nat,
         n <= Len(r.q[s]), NEW d, d = WakeFirst(r, s, n, b)
  PROVE  /\ Good(d, Tasks)
         /\ d.pri = r.pri /\ d.sp = r.sp /\ d.lockctr = r.lockctr /\ d.begun = r.begun
         /\ \A u \in Tasks : InRq(r, u) => InRq(d, u)
         /\ Len(d.q[s]) = Len(r.q[s]) - n
         /\ \A o \in Objs \ {s} : d.q[o] = r.q[o]
         /\ \A u \in Tasks : /\ d.rv[u] = r.rv[u] \/ (Contains(r.q[s], u) /\ d.rv[u] = b)
                             /\ Contains(d.q[s], u) => Contains(r.q[s], u)
         /\ Descending(r.q[s], r.pri) => Descending(d.q[s], d.pri)
         /\ IF n = 0 THEN d = r ELSE Asked(r, d)
         /\ n = 1 => d.rv = [r.rv EXCEPT ![Head(r.q[s])] = b]
  <1>1. CASE n = 0
    <2>1. d = r
      BY <1>1 DEF WakeFirst
    <2>2. AfterWakes(r, d, s, b, n)
      BY <1>1, <2>1, NoWake
    <2> QED BY <1>1, <2>1, <2>2 DEF AfterWakes, Unmoved
  <1>2. CASE n # 0
    <2>1. PICK f : Run(r, s, b, n, f) /\ WakeFirst(r, s, n, b) = DoCtTest(f[n])
      BY <1>2, RunOfWakeFirst
    <2> DEFINE e == f[n]
    <2>2. AfterWakes(r, e, s, b, n) /\ d = DoCtTest(e)
      BY <2>1, RunWakes
    <2>3. ASSUME n = 1
          PROVE  e.rv = [r.rv EXCEPT ![Head(r.q[s])] = b]
      <3>1. e = Wake(r, s, b)
        BY <2>1, <2>3 DEF Run
      <3>2. r.q[s] # <<>>
        BY <2>3, EmptySeq
      <3> HIDE DEF e
      <3> QED BY <3>1, <3>2, Woken
    <2> HIDE DEF e
    <2>4. Good(e, Tasks)
      BY <2>2 DEF AfterWakes
    <2>5. /\ Good(d, Tasks) /\ \A u \in Tasks : InRq(d, u) <=> InRq(e, u)
          /\ Same(e, d)
          /\ d.sp = e.sp /\ d.lockctr = e.lockctr /\ d.begun = e.begun
          /\ Asked(e, d)
      BY <2>2, <2>4, CtTested
    <2>6. Asked(r, d)
      BY <2>2, <2>5 DEF AfterWakes, Unmoved, Asked
    <2> QED BY <1>2, <2>2, <2>3, <2>5, <2>6 DEF AfterWakes, Unmoved, Same
  <1> QED BY <1>1, <1>2

-----------------------------------------------------------------------------
(***************************************************************************)
(* The inductive invariant.  A task that waits in the queue of a semaphore *)
(* has called for a token of that one, if of any: so a signal that wakes   *)
(* it grants a token of no other.  A task that runs has no call open.      *)
(***************************************************************************)

CountsTyped ==
    /\ count \in [Sems -> 0..MaxCount]
    /\ \A s \in Sems : Mode[s] = "RSRC" \/ (Mode[s] = "EVENT" /\ Lim[s] = 1)
                         => count[s] <= Lim[s]

HistoryTyped ==
    /\ held \in [Tasks -> [Resources -> Nat]]
    /\ call \in [Tasks -> {NoCall} \union (Resources \X {"susp", "stop", "par"})]

CallsKept ==
    /\ pc = "run" => call[ct] = NoCall
    /\ \A s \in Sems, t \in Tasks :
         Contains(k.q[s], t) => call[t] = NoCall \/ call[t][1] = s

InOrder == \A s \in Sems \ FifoSems : Descending(k.q[s], k.pri)

TokensBounded == \A s \in Resources : IsFiniteSet(TokensOut(s)) /\ Tokens(s) <= Lim[s]

SemInv == /\ KernelInv /\ Unowned(k)
          /\ CountsTyped /\ HistoryTyped /\ CallsKept
          /\ NoMissedSignal /\ InOrder /\ TokensBounded

-----------------------------------------------------------------------------
(* Counting the tokens that are out. *)

\* A set that has become smaller, larger by one element, or has exchanged one.
LEMMA FewerOut ==
  ASSUME NEW O, IsFiniteSet(O), NEW O2, O2 \subseteq O
  PROVE  /\ IsFiniteSet(O2) /\ Cardinality(O2) \in Nat /\ Cardinality(O) \in Nat
         /\ Cardinality(O2) <= Cardinality(O)
  <1>1. O2 \in SUBSET O
    OBVIOUS
  <1>2. IsFiniteSet(O2) /\ Cardinality(O2) <= Cardinality(O)
    BY <1>1, FS_Subset
  <1> QED BY <1>2, FS_CardinalityType

LEMMA OneMoreOut ==
  ASSUME NEW O, IsFiniteSet(O), NEW x, NEW O2, O2 \subseteq O \union {x}
  PROVE  /\ IsFiniteSet(O2) /\ Cardinality(O2) \in Nat /\ Cardinality(O) \in Nat
         /\ Cardinality(O2) <= Cardinality(O) + 1
  <1>1. /\ IsFiniteSet(O \union {x})
        /\ Cardinality(O \union {x}) = IF x \in O THEN Cardinality(O) ELSE Cardinality(O) + 1
        /\ Cardinality(O) \in Nat
    BY FS_AddElement, FS_CardinalityType
  <1>2. /\ IsFiniteSet(O2) /\ Cardinality(O2) \in Nat
        /\ Cardinality(O2) <= Cardinality(O \union {x})
    BY <1>1, FewerOut
  <1> QED BY <1>1, <1>2

LEMMA OneFewerOut ==
  ASSUME NEW O, IsFiniteSet(O), NEW y \in O, NEW O2, O2 \subseteq O \ {y}
  PROVE  /\ IsFiniteSet(O2) /\ Cardinality(O2) \in Nat /\ Cardinality(O) \in Nat
         /\ Cardinality(O2) <= Cardinality(O) - 1
  <1>1. /\ IsFiniteSet(O \ {y}) /\ Cardinality(O \ {y}) = Cardinality(O) - 1
        /\ Cardinality(O) \in Nat
    BY FS_RemoveElement, FS_CardinalityType
  <1>2. /\ IsFiniteSet(O2) /\ Cardinality(O2) \in Nat
        /\ Cardinality(O2) <= Cardinality(O \ {y})
    BY <1>1, FewerOut
  <1> QED BY <1>1, <1>2

LEMMA ExchangedOut ==
  ASSUME NEW O, IsFiniteSet(O), NEW y \in O, NEW x, NEW O2, O2 \subseteq (O \ {y}) \union {x}
  PROVE  /\ IsFiniteSet(O2) /\ Cardinality(O2) \in Nat /\ Cardinality(O) \in Nat
         /\ Cardinality(O2) <= Cardinality(O)
  <1> DEFINE W == O \ {y}
  <1>1. /\ IsFiniteSet(W) /\ Cardinality(W) = Cardinality(O) - 1
        /\ Cardinality(O) \in Nat
    BY FS_RemoveElement, FS_CardinalityType
  <1> HIDE DEF W
  <1>2. /\ IsFiniteSet(O2) /\ Cardinality(O2) \in Nat
        /\ Cardinality(O2) <= Cardinality(W) + 1
    BY <1>1, OneMoreOut DEF W
  <1> QED BY <1>1, <1>2

\* What the numbered tokens are, before and after a step.
LEMMA Outstanding ==
  ASSUME NEW s
  PROVE  /\ \A x \in TokensOut(s) : \E t \in Tasks :
               \/ x = <<t, 0>> /\ Granted(t, s)
               \/ \E i \in 1..held[t][s] : x = <<t, i>>
         /\ \A t \in Tasks : Granted(t, s) => <<t, 0>> \in TokensOut(s)
         /\ \A t \in Tasks : \A i \in 1..held[t][s] : <<t, i>> \in TokensOut(s)
  BY DEF TokensOut

LEMMA OutstandingNext ==
  ASSUME NEW s
  PROVE  \A x \in TokensOut(s)' : \E t \in Tasks :
             \/ x = <<t, 0>> /\ Granted(t, s)'
             \/ \E i \in 1..held'[t][s] : x = <<t, i>>
  BY DEF TokensOut

\* No task has been granted a token that it had not been before.
NoGrant(s) == \A t \in Tasks : Granted(t, s)' => Granted(t, s)

LEMMA NoneOut ==
  ASSUME HistoryTyped, HistoryTyped', NEW s \in Resources, NoGrant(s),
         \A t \in Tasks : held'[t][s] <= held[t][s]
  PROVE  TokensOut(s)' \subseteq TokensOut(s)
  <1> SUFFICES ASSUME NEW x \in TokensOut(s)' PROVE x \in TokensOut(s)
    OBVIOUS
  <1>1. PICK t \in Tasks : \/ x = <<t, 0>> /\ Granted(t, s)'
                           \/ \E i \in 1..held'[t][s] : x = <<t, i>>
    BY OutstandingNext
  <1>2. /\ Granted(t, s)' => Granted(t, s)
        /\ held'[t][s] \in Nat /\ held[t][s] \in Nat /\ held'[t][s] <= held[t][s]
    BY DEF HistoryTyped, NoGrant
  <1>3. 1..held'[t][s] \subseteq 1..held[t][s]
    BY <1>2
  <1> QED BY <1>1, <1>2, <1>3, Outstanding

-----------------------------------------------------------------------------
(* Steps that leave the counts alone. *)

\* No task comes to wait at s, and those that wait there are as well ordered.
Drained(s) == /\ \A u \in Tasks : Contains(k'.q[s], u) => Contains(k.q[s], u)
              /\ k.q[s] = <<>> => k'.q[s] = <<>>
              /\ s \notin FifoSems /\ Descending(k.q[s], k.pri) => Descending(k'.q[s], k'.pri)

\* No call is open that was not, or for another semaphore.
NoCallMade == \A t \in Tasks :
                call'[t] # NoCall => call[t] # NoCall /\ call'[t][1] = call[t][1]

\* What KernelInv says of the queue of a semaphore.
LEMMA SemQueue ==
  ASSUME NEW r, Good(r, Tasks), NEW s \in Sems
  PROVE  /\ s \in Objs /\ s \in Places /\ s \notin Mutexes
         /\ r.q[s] \in Seq(Tasks) /\ Injective(r.q[s])
         /\ Len(r.q[s]) \in Nat /\ (Len(r.q[s]) = 0 <=> r.q[s] = <<>>)
         /\ r.pri \in [Tasks -> Levels] /\ r.pri \in [Tasks -> Int]
         /\ r.rv \in [Tasks -> BOOLEAN]
  <1>1. s \in Objs /\ s \in Places /\ s \notin Mutexes
    BY QueuesAssumption DEF Objs, Places
  <1>2. /\ r.q[s] \in Seq(Tasks) /\ Injective(r.q[s])
        /\ r.pri \in [Tasks -> Levels] /\ r.rv \in [Tasks -> BOOLEAN]
    BY <1>1 DEF Good, Linked, KernelType, Places
  <1>3. Len(r.q[s]) \in Nat /\ (Len(r.q[s]) = 0 <=> r.q[s] = <<>>)
    BY <1>2, LenProperties, EmptySeq
  <1>4. r.pri \in [Tasks -> Int]
    BY <1>2, QueuesAssumption DEF Levels
  <1> QED BY <1>1, <1>2, <1>3, <1>4

LEMMA GoodNow == ASSUME KernelInv PROVE Good(k, Tasks) /\ k \in KernelType /\ ct \in Tasks
  BY DEF KernelInv, Valid, Good, Linked

LEMMA GoodNext == ASSUME KernelInv' PROVE Good(k', Tasks) /\ k' \in KernelType /\ ct' \in Tasks
  BY DEF KernelInv, Valid, Good, Linked

\* A task SSR about t takes it out of the queue of a semaphore, or puts it
\* where its new priority wants it to be.
LEMMA HandledQueue ==
  ASSUME KernelInv, KernelInv', NEW t \in Tasks, Handled(t), NEW s \in Sems
  PROVE  Drained(s)
  <1> DEFINE w == Without(k.q[s], t)
  <1>1. /\ s \in Objs /\ k.q[s] \in Seq(Tasks) /\ Injective(k.q[s])
        /\ k'.pri \in [Tasks -> Int] /\ k' \in KernelType
    BY GoodNow, GoodNext, SemQueue
  <1>2. /\ w \in Seq(Tasks) /\ Injective(w)
        /\ \A u : Contains(w, u) <=> Contains(k.q[s], u) /\ u # t
        /\ k.q[s] = <<>> => w = <<>>
    <2>1. /\ w \in Seq(Tasks) /\ Injective(w)
          /\ \A u : Contains(w, u) <=> Contains(k.q[s], u) /\ u # t
      BY <1>1, WithoutProperties
    <2>2. k.q[s] = <<>> => w = <<>>
      BY EmptyQueue DEF Without
    <2> QED BY <2>1, <2>2
  <1>3. \A u \in Tasks \ {t} : k'.pri[u] = k.pri[u]
    BY DEF Handled, Aside, Apart, Bumped
  <1>4. ASSUME Descending(k.q[s], k.pri) PROVE Descending(w, k'.pri)
    BY <1>1, <1>3, <1>4, WithoutDescending
  <1> HIDE DEF w
  <1>5. CASE k'.q[s] = w
    BY <1>2, <1>4, <1>5 DEF Drained
  <1>6. CASE Bumped(k, k', t) /\ Contains(k.q[s], t) /\ s \notin FifoSems
    <2> DEFINE z == ByPriority(k', w, t)
    <2>1. k'.q[s] = z
      BY <1>1, <1>6 DEF Bumped, w
    <2>2. ~Contains(w, t)
      BY <1>2
    <2>3. /\ \A u : Contains(z, u) <=> Contains(w, u) \/ u = t
          /\ Descending(w, k'.pri) => Descending(z, k'.pri)
      BY <1>1, <1>2, <2>2, ByPriorityProperties
    <2> HIDE DEF z
    <2>4. k.q[s] # <<>>
      BY <1>6, EmptyQueue
    <2> QED BY <1>2, <1>4, <1>6, <2>1, <2>3, <2>4 DEF Drained
  <1>7. CASE Bumped(k, k', t) /\ ~(Contains(k.q[s], t) /\ s \notin FifoSems)
    <2>1. k'.q[s] = k.q[s]
      BY <1>1, <1>7 DEF Bumped
    <2>2. CASE Contains(k.q[s], t)
      BY <1>7, <2>1, <2>2 DEF Drained
    <2>3. CASE ~Contains(k.q[s], t)
      <3>1. \A u \in Tasks : Contains(k.q[s], u) => k'.pri[u] = k.pri[u]
        BY <1>3, <2>3
      <3>2. Descending(k.q[s], k.pri) => Descending(k.q[s], k'.pri)
        BY <1>1, <3>1, DescendingAgrees
      <3> QED BY <2>1, <3>2 DEF Drained
    <2> QED BY <2>2, <2>3
  <1>8. CASE Aside(k, k', t)
    BY <1>1, <1>5, <1>8 DEF Aside, w
  <1> QED BY <1>6, <1>7, <1>8 DEF Handled

\* What is left of the invariant when the queues are drained, if at all; the
\* tokens are counted apart.
LEMMA Kept ==
  ASSUME SemInv, KernelInv', Unowned(k'), count' = count, HistoryTyped', NoCallMade,
         \A s \in Sems : Drained(s), pc' = "run" => call'[ct'] = NoCall
  PROVE  CountsTyped' /\ CallsKept' /\ NoMissedSignal' /\ InOrder'
  <1>1. CountsTyped'
    BY DEF SemInv, CountsTyped
  <1>2. CallsKept'
    <2> SUFFICES ASSUME NEW s \in Sems, NEW t \in Tasks, Contains(k'.q[s], t),
                        call'[t] # NoCall
                 PROVE  call'[t][1] = s
      BY DEF CallsKept
    <2>1. Contains(k.q[s], t) /\ call[t] # NoCall /\ call'[t][1] = call[t][1]
      BY DEF Drained, NoCallMade
    <2> QED BY <2>1 DEF SemInv, CallsKept
  <1>3. NoMissedSignal'
    <2> SUFFICES ASSUME NEW s \in Sems, Waiters(s)' > 0 PROVE ~Passes(s)'
      BY DEF NoMissedSignal
    <2>1. k'.q[s] # <<>>
      BY GoodNext, SemQueue DEF Waiters
    <2>2. Waiters(s) > 0
      BY <2>1, GoodNow, SemQueue DEF Drained, Waiters, SemInv
    <2> QED BY <2>2 DEF SemInv, NoMissedSignal, Passes
  <1>4. InOrder'
    BY DEF SemInv, InOrder, Drained
  <1> QED BY <1>1, <1>2, <1>3, <1>4

LEMMA NoneCounted ==
  ASSUME SemInv, HistoryTyped', NEW s \in Resources, NoGrant(s),
         \A t \in Tasks : held'[t][s] <= held[t][s],
         count'[s] \in Nat, count'[s] <= count[s]
  PROVE  IsFiniteSet(TokensOut(s))' /\ Tokens(s)' <= Lim[s]
  <1>1. IsFiniteSet(TokensOut(s)) /\ Tokens(s) <= Lim[s]
    BY DEF SemInv, TokensBounded
  <1>2. TokensOut(s)' \subseteq TokensOut(s)
    BY NoneOut DEF SemInv
  <1>3. /\ IsFiniteSet(TokensOut(s)') /\ Cardinality(TokensOut(s)') \in Nat
        /\ Cardinality(TokensOut(s)) \in Nat
        /\ Cardinality(TokensOut(s)') <= Cardinality(TokensOut(s))
    BY <1>1, <1>2, FewerOut
  <1>4. count[s] \in Nat /\ Lim[s] \in Nat
    BY SemAssumption DEF SemInv, CountsTyped, Resources
  <1>5. Tokens(s)' = count'[s] + Cardinality(TokensOut(s)')
    BY DEF Tokens
  <1> QED BY <1>1, <1>3, <1>4, <1>5 DEF Tokens

LEMMA OtherStep ==
  ASSUME SemInv, OtherSSR
  PROVE  SemInv' /\ (TopKnown => TopKnown')
  <1>0. KernelInv /\ Unowned(k) /\ HistoryTyped /\ CallsKept
    BY DEF SemInv
  <1>1. Timeout \/ TaskSSR \/ PrioritySSR
    BY SemAssumption DEF OtherSSR, PrioritySSR, TaskSSR
  <1>2. /\ KernelInv' /\ (TopKnown => TopKnown') /\ Unowned(k')
        /\ ct' = ct /\ (pc' = "run" => pc = "run")
        /\ \E t \in Tasks : Handled(t)
    BY <1>0, <1>1, SSRStep
  <1>3. PICK t \in Tasks : Handled(t)
    BY <1>2
  <1>4. count' = count /\ held' = held /\ call' = call
    BY DEF OtherSSR
  <1>5. HistoryTyped' /\ NoCallMade /\ (pc' = "run" => call'[ct'] = NoCall)
    BY <1>0, <1>2, <1>4 DEF HistoryTyped, NoCallMade, CallsKept
  <1>6. \A s \in Sems : Drained(s)
    BY <1>0, <1>2, <1>3, HandledQueue
  <1>7. CountsTyped' /\ CallsKept' /\ NoMissedSignal' /\ InOrder'
    BY <1>2, <1>4, <1>5, <1>6, Kept
  <1>8. \A u \in Tasks : k'.rv[u] => k.rv[u]
    BY <1>3 DEF Handled, Aside, Apart, Bumped
  <1>9. TokensBounded'
    <2> SUFFICES ASSUME NEW s \in Resources
                 PROVE  IsFiniteSet(TokensOut(s))' /\ Tokens(s)' <= Lim[s]
      BY DEF TokensBounded
    <2>1. NoGrant(s)
      BY <1>4, <1>8 DEF NoGrant, Granted
    <2>2. s \in Sems /\ count[s] \in Nat /\ count'[s] = count[s]
      BY <1>4, SemAssumption DEF Resources, SemInv, CountsTyped
    <2>3. \A u \in Tasks : held'[u][s] <= held[u][s]
      BY <1>0, <1>4 DEF HistoryTyped
    <2> QED BY <1>5, <2>1, <2>2, <2>3, NoneCounted
  <1> QED BY <1>2, <1>5, <1>7, <1>9 DEF SemInv, Unowned

LEMMA SemSchedulerStep ==
  ASSUME SemInv, SemScheduler
  PROVE  SemInv' /\ (TopKnown => TopKnown')
  <1>0. KernelInv /\ Unowned(k) /\ HistoryTyped /\ CallsKept /\ ct \in Tasks /\ k \in KernelType
    BY GoodNow DEF SemInv
  <1>1. Scheduler /\ count' = count
    BY DEF SemScheduler, Scheduler
  <1>2. KernelInv' /\ (TopKnown => TopKnown')
    BY <1>0, <1>1, SchedulerStep
  <1>3. /\ k'.q = k.q /\ k'.pri = k.pri
        /\ k'.rv = IF TailReturn THEN [k.rv EXCEPT ![ct] = FALSE] ELSE k.rv
        /\ pc' = "run" <=> TailReturn
        /\ TailReturn \/ FlyTop => ct' = ct
    BY <1>0, <1>1, SchedulerFrame
  <1>4. Unowned(k') /\ \A s \in Sems : Drained(s)
    BY <1>0, <1>3 DEF Unowned, Drained
  <1>5. \A u \in Tasks : k'.rv[u] => k.rv[u]
    BY <1>0, <1>3 DEF KernelType
  <1>6. \A s \in Resources : s \in Sems /\ count[s] \in Nat /\ count'[s] = count[s]
    BY <1>1, SemAssumption DEF Resources, SemInv, CountsTyped
  <1>7. CASE TailReturn /\ ReturnCall
    <2> DEFINE c == call[ct]
    <2>0. /\ ct' = ct
          /\ call' = [call EXCEPT ![ct] = NoCall]
          /\ held' = IF c # NoCall /\ c[2] # "stop" /\ k.rv[ct]
                       THEN [held EXCEPT ![ct][c[1]] = @ + 1] ELSE held
      BY <1>3, <1>7 DEF ReturnCall
    <2>1. c # NoCall => c[1] \in Resources
      BY <1>0 DEF HistoryTyped, NoCall
    <2> HIDE DEF c
    <2>2. HistoryTyped'
      <3>1. call' \in [Tasks -> {NoCall} \union (Resources \X {"susp", "stop", "par"})]
        BY <1>0, <2>0 DEF HistoryTyped
      <3>2. held' \in [Tasks -> [Resources -> Nat]]
        BY <1>0, <2>0, <2>1 DEF HistoryTyped
      <3> QED BY <3>1, <3>2 DEF HistoryTyped
    <2>3. /\ call'[ct'] = NoCall
          /\ \A t \in Tasks : call'[t] # NoCall => t # ct /\ call'[t] = call[t]
      BY <1>0, <2>0 DEF HistoryTyped
    <2>4. NoCallMade
      BY <2>3 DEF NoCallMade
    <2>5. CountsTyped' /\ CallsKept' /\ NoMissedSignal' /\ InOrder'
      BY <1>1, <1>2, <1>4, <2>2, <2>3, <2>4, Kept
    <2>6. TokensBounded'
      <3> SUFFICES ASSUME NEW s \in Resources
                   PROVE  IsFiniteSet(TokensOut(s))' /\ Tokens(s)' <= Lim[s]
        BY DEF TokensBounded
      <3>1. \A t \in Tasks : Granted(t, s)' => Granted(t, s) /\ t # ct
        BY <1>5, <2>3 DEF Granted
      <3>2. CASE c # NoCall /\ c[2] # "stop" /\ k.rv[ct] /\ c[1] = s
        <4> DEFINE O  == TokensOut(s)
                   O2 == TokensOut(s)'
                   n  == held[ct][s] + 1
        <4>1. /\ held[ct][s] \in Nat /\ held'[ct][s] = n
              /\ \A t \in Tasks \ {ct} : held'[t][s] = held[t][s]
          BY <1>0, <2>0, <2>1, <3>2 DEF HistoryTyped
        <4>2. <<ct, 0>> \in O /\ IsFiniteSet(O) /\ Tokens(s) <= Lim[s]
          BY <1>0, <3>2, Outstanding DEF Granted, c, SemInv, TokensBounded
        <4>3. O2 \subseteq (O \ {<<ct, 0>>}) \union {<<ct, n>>}
          <5> SUFFICES ASSUME NEW x \in O2 PROVE x \in (O \ {<<ct, 0>>}) \union {<<ct, n>>}
            OBVIOUS
          <5>1. PICK t \in Tasks : \/ x = <<t, 0>> /\ Granted(t, s)'
                                   \/ \E i \in 1..held'[t][s] : x = <<t, i>>
            BY OutstandingNext
          <5>2. CASE x = <<t, 0>> /\ Granted(t, s)'
            BY <3>1, <5>2, Outstanding
          <5>3. CASE \E i \in 1..held'[t][s] : x = <<t, i>>
            <6>1. PICK i \in 1..held'[t][s] : x = <<t, i>>
              BY <5>3
            <6>2. held'[t][s] \in Nat
              BY <2>2 DEF HistoryTyped
            <6>3. i # 0 /\ (i \in 1..held[t][s] \/ (t = ct /\ i = n))
              BY <4>1, <6>1, <6>2
            <6>4. x # <<ct, 0>>
              BY <6>1, <6>3
            <6>5. x \in O \/ x = <<ct, n>>
              BY <6>1, <6>3, Outstanding
            <6> QED BY <6>4, <6>5
          <5> QED BY <5>1, <5>2, <5>3
        <4> HIDE DEF O, O2
        <4>4. /\ IsFiniteSet(O2) /\ Cardinality(O2) \in Nat /\ Cardinality(O) \in Nat
              /\ Cardinality(O2) <= Cardinality(O)
          BY <4>2, <4>3, ExchangedOut
        <4>5. /\ Tokens(s) = count[s] + Cardinality(O)
              /\ Tokens(s)' = count'[s] + Cardinality(O2)
          BY DEF Tokens, O, O2
        <4>6. Lim[s] \in Nat
          BY <1>6, SemAssumption
        <4>7. Tokens(s)' <= Lim[s]
          BY <1>6, <4>2, <4>4, <4>5, <4>6
        <4>8. IsFiniteSet(TokensOut(s))'
          BY <4>4 DEF O2
        <4> QED BY <4>7, <4>8
      <3>3. CASE ~(c # NoCall /\ c[2] # "stop" /\ k.rv[ct] /\ c[1] = s)
        <4>1. \A t \in Tasks : held'[t][s] = held[t][s] /\ held[t][s] \in Nat
          BY <1>0, <2>0, <2>1, <3>3 DEF HistoryTyped
        <4> QED BY <1>6, <2>2, <3>1, <4>1, NoneCounted DEF NoGrant
      <3> QED BY <3>2, <3>3
    <2> QED BY <1>2, <1>4, <2>2, <2>5, <2>6 DEF SemInv, Unowned
  <1>8. CASE held' = held /\ ~TailReturn /\ (call' = call \/ (FlyTop /\ call' = BeginCall))
    <2>1. /\ call' \in [Tasks -> {NoCall} \union (Resources \X {"susp", "stop", "par"})]
          /\ NoCallMade
      <3>1. CASE call' = call
        BY <1>0, <3>1 DEF HistoryTyped, NoCallMade
      <3>2. CASE call' = BeginCall /\ call' # call
        <4>1. call[ct] # NoCall /\ call[ct] \in Resources \X {"susp", "stop", "par"}
          BY <1>0, <3>2 DEF HistoryTyped, BeginCall
        <4> DEFINE e == IF call[ct][2] = "susp" THEN NoCall ELSE <<call[ct][1], "par">>
        <4>2. call' = [call EXCEPT ![ct] = e]
          BY <3>2 DEF BeginCall
        <4>3. /\ e = NoCall \/ (e \in Resources \X {"susp", "stop", "par"} /\ e[1] = call[ct][1])
          BY <4>1
        <4> HIDE DEF e
        <4> QED BY <1>0, <4>1, <4>2, <4>3 DEF HistoryTyped, NoCallMade
      <3> QED BY <1>8, <3>1, <3>2
    <2>2. HistoryTyped'
      BY <1>0, <1>8, <2>1 DEF HistoryTyped
    <2>3. pc' # "run"
      BY <1>3, <1>8
    <2>4. CountsTyped' /\ CallsKept' /\ NoMissedSignal' /\ InOrder'
      BY <1>1, <1>2, <1>4, <2>1, <2>2, <2>3, Kept
    <2>5. TokensBounded'
      <3> SUFFICES ASSUME NEW s \in Resources
                   PROVE  IsFiniteSet(TokensOut(s))' /\ Tokens(s)' <= Lim[s]
        BY DEF TokensBounded
      <3>1. NoGrant(s)
        BY <1>5, <2>1 DEF NoGrant, Granted, NoCallMade
      <3>2. \A u \in Tasks : held'[u][s] <= held[u][s]
        BY <1>0, <1>8 DEF HistoryTyped
      <3> QED BY <1>6, <2>2, <3>1, <3>2, NoneCounted
    <2> QED BY <1>2, <1>4, <2>2, <2>4, <2>5 DEF SemInv, Unowned
  <1>9. CASE ~(TailReturn /\ ReturnCall)
    <2>1. pc # "tail" \/ ~TailReturn
      BY <1>9 DEF SemScheduler, Interrupt, PsvStop, PsvContinue, PsvSuspend, FlyResume,
                  FlyStart, TailFlyback, FlyTop, TailReturn, SwitchTo
    <2>2. ~TailReturn
      BY <2>1 DEF TailReturn
    <2>3. held' = held /\ (call' = call \/ (FlyTop /\ call' = BeginCall))
      BY <1>9, <2>2 DEF SemScheduler
    <2> QED BY <1>8, <2>2, <2>3
  <1> QED BY <1>7, <1>9

-----------------------------------------------------------------------------
(* Steps that wake tasks: signals and clears. *)

LEMMA WakesLeave ==
  ASSUME KernelInv, Unowned(k), NEW c \in Callers, MayCall(c), NEW s \in Sems,
         NEW b \in BOOLEAN, NEW n \in Nat, n <= Waiters(s),
         Leave(c, WakeFirst(k, s, n, b))
  PROVE  /\ KernelInv' /\ (TopKnown => TopKnown') /\ Unowned(k')
         /\ ct' = ct /\ (pc' = "run" => pc = "run")
         /\ \A z \in Sems : Drained(z) /\ (z # s => k'.q[z] = k.q[z])
         /\ Waiters(s)' = Waiters(s) - n
         /\ \A u \in Tasks : k'.rv[u] = k.rv[u] \/ (Contains(k.q[s], u) /\ k'.rv[u] = b)
         /\ n = 0 => k' = k
         /\ n = 1 => k'.rv = [k.rv EXCEPT ![Head(k.q[s])] = b]
  <1> DEFINE r == WakeFirst(k, s, n, b)
  <1>0. /\ Good(k, Tasks) /\ s \in Objs /\ s \notin Mutexes
        /\ n <= Len(k.q[s]) /\ Idle \in Tasks /\ ct \in Tasks
    BY GoodNow, SemQueue, QueuesAssumption DEF Waiters
  <1>1. /\ Good(r, Tasks)
        /\ r.pri = k.pri /\ r.sp = k.sp /\ r.lockctr = k.lockctr /\ r.begun = k.begun
        /\ \A u \in Tasks : InRq(k, u) => InRq(r, u)
        /\ Len(r.q[s]) = Len(k.q[s]) - n
        /\ \A o \in Objs \ {s} : r.q[o] = k.q[o]
        /\ \A u \in Tasks : /\ r.rv[u] = k.rv[u] \/ (Contains(k.q[s], u) /\ r.rv[u] = b)
                            /\ Contains(r.q[s], u) => Contains(k.q[s], u)
        /\ Descending(k.q[s], k.pri) => Descending(r.q[s], r.pri)
        /\ IF n = 0 THEN r = k ELSE Asked(k, r)
        /\ n = 1 => r.rv = [k.rv EXCEPT ![Head(k.q[s])] = b]
    BY <1>0, Awake
  <1>2. Leave(c, r)
    OBVIOUS
  <1> HIDE DEF r
  <1>3. Valid(r)
    BY <1>0, <1>1 DEF KernelInv, Valid, Asked
  <1>4. Held(r)
    BY <1>1 DEF KernelInv, Held, Asked
  <1>5. TopKnown => Decided(r)
    BY <1>1 DEF TopKnown, Decided, Asked
  <1>6. /\ KernelInv' /\ (TopKnown => TopKnown')
        /\ k' = r /\ ct' = ct /\ (pc' = "run" => pc = "run")
    BY <1>2, <1>3, <1>4, <1>5, LeavesStep DEF Leaves
  <1>7. Unowned(k')
    BY <1>0, <1>1, <1>6 DEF Unowned, Objs
  <1>8. \A z \in Sems : z # s => k'.q[z] = k.q[z]
    BY <1>1, <1>6 DEF Objs
  <1>9. Drained(s)
    <2>1. ASSUME k.q[s] = <<>> PROVE r.q[s] = <<>>
      <3>1. Len(k.q[s]) = 0 /\ Len(r.q[s]) \in Nat
        BY <1>0, <1>1, <2>1, SemQueue
      <3>2. Len(r.q[s]) = 0
        BY <1>1, <3>1
      <3> QED BY <1>1, <3>2, SemQueue
    <2> QED BY <1>1, <1>6, <2>1 DEF Drained
  <1>10. ASSUME NEW z \in Sems, z # s PROVE Drained(z)
    BY <1>1, <1>6, <1>8, <1>10 DEF Drained
  <1> QED BY <1>1, <1>6, <1>7, <1>8, <1>9, <1>10 DEF Waiters

\* What a signal does to the count, and how many tasks it wakes.
LEMMA SignalCounts ==
  ASSUME SemInv, NEW s \in Sems
  PROVE  /\ Resumed(s) \in Nat /\ Resumed(s) <= Waiters(s)
         /\ SignalCount(s) \in 0..MaxCount
         /\ Mode[s] = "RSRC" \/ (Mode[s] = "EVENT" /\ Lim[s] = 1) => SignalCount(s) <= Lim[s]
         /\ Mode[s] = "RSRC" => /\ Waiters(s) = 0 => Resumed(s) = 0 /\ SignalCount(s) <= count[s] + 1
                                /\ Waiters(s) # 0 => Resumed(s) = 1 /\ SignalCount(s) = count[s]
         /\ Waiters(s) - Resumed(s) > 0
              => ~(SignalCount(s) >= IF Mode[s] = "THRES" THEN Lim[s] ELSE 1)
  <1>1. /\ count[s] \in Nat /\ count[s] <= MaxCount /\ MaxCount \in Nat
        /\ Mode[s] = "RSRC" \/ (Mode[s] = "EVENT" /\ Lim[s] = 1) => count[s] <= Lim[s]
        /\ Lim[s] \in Nat /\ Lim[s] <= MaxCount
        /\ Mode[s] \in {"RSRC", "THRES"} => Lim[s] >= 1
        /\ Mode[s] \in {"RSRC", "EVENT", "THRES", "GATE"}
    BY SemAssumption DEF SemInv, CountsTyped, Modes
  <1>2. /\ Waiters(s) \in Nat
        /\ Waiters(s) > 0 => ~(count[s] >= IF Mode[s] = "THRES" THEN Lim[s] ELSE 1)
    BY GoodNow, SemQueue DEF SemInv, NoMissedSignal, Passes, Waiters
  <1> QED BY <1>1, <1>2 DEF Resumed, SignalCount, Enough, Limit

LEMMA SignalStep ==
  ASSUME SemInv, NEW c \in Callers, NEW s \in Sems, SemSignal(c, s)
  PROVE  SemInv' /\ (TopKnown => TopKnown')
  <1> DEFINE n == Resumed(s)
  <1>0. /\ KernelInv /\ Unowned(k) /\ CountsTyped /\ HistoryTyped /\ CallsKept
        /\ ct \in Tasks /\ Good(k, Tasks)
    BY GoodNow DEF SemInv
  <1>1. /\ MayCall(c) /\ Leave(c, WakeFirst(k, s, n, TRUE))
        /\ count' = [count EXCEPT ![s] = SignalCount(s)]
        /\ call' = call
        /\ held' = IF s \in Resources THEN [held EXCEPT ![ct][s] = @ - 1] ELSE held
        /\ s \in Resources => held[ct][s] > 0
    BY DEF SemSignal
  <1>2. /\ n \in Nat /\ n <= Waiters(s)
        /\ SignalCount(s) \in 0..MaxCount
        /\ Mode[s] = "RSRC" \/ (Mode[s] = "EVENT" /\ Lim[s] = 1) => SignalCount(s) <= Lim[s]
        /\ Mode[s] = "RSRC" => /\ Waiters(s) = 0 => n = 0 /\ SignalCount(s) <= count[s] + 1
                               /\ Waiters(s) # 0 => n = 1 /\ SignalCount(s) = count[s]
        /\ Waiters(s) - n > 0 => ~(SignalCount(s) >= IF Mode[s] = "THRES" THEN Lim[s] ELSE 1)
    BY SignalCounts
  <1> HIDE DEF n
  <1>3. /\ KernelInv' /\ (TopKnown => TopKnown') /\ Unowned(k')
        /\ ct' = ct /\ (pc' = "run" => pc = "run")
        /\ \A z \in Sems : Drained(z) /\ (z # s => k'.q[z] = k.q[z])
        /\ Waiters(s)' = Waiters(s) - n
        /\ \A u \in Tasks : k'.rv[u] = k.rv[u] \/ (Contains(k.q[s], u) /\ k'.rv[u] = TRUE)
        /\ n = 0 => k' = k
        /\ n = 1 => k'.rv = [k.rv EXCEPT ![Head(k.q[s])] = TRUE]
    <2> DEFINE b == TRUE
    <2>1. b \in BOOLEAN /\ Leave(c, WakeFirst(k, s, n, b))
      BY <1>1
    <2> HIDE DEF b
    <2>2. /\ KernelInv' /\ (TopKnown => TopKnown') /\ Unowned(k')
          /\ ct' = ct /\ (pc' = "run" => pc = "run")
          /\ \A z \in Sems : Drained(z) /\ (z # s => k'.q[z] = k.q[z])
          /\ Waiters(s)' = Waiters(s) - n
          /\ \A u \in Tasks : k'.rv[u] = k.rv[u] \/ (Contains(k.q[s], u) /\ k'.rv[u] = b)
          /\ n = 0 => k' = k
          /\ n = 1 => k'.rv = [k.rv EXCEPT ![Head(k.q[s])] = b]
      BY <1>0, <1>1, <1>2, <2>1, WakesLeave
    <2> USE DEF b
    <2> QED BY <2>2, Zenon
  <1>4. /\ count'[s] = SignalCount(s) /\ \A z \in Sems \ {s} : count'[z] = count[z]
        /\ count' \in [Sems -> 0..MaxCount]
    BY <1>0, <1>1, <1>2 DEF CountsTyped
  <1>5. CountsTyped'
    BY <1>0, <1>2, <1>4 DEF CountsTyped
  <1>6. HistoryTyped'
    <2>1. held' \in [Tasks -> [Resources -> Nat]]
      BY <1>0, <1>1 DEF HistoryTyped
    <2> QED BY <1>0, <1>1, <2>1 DEF HistoryTyped
  <1>7. CallsKept'
    BY <1>0, <1>1, <1>3 DEF CallsKept, Drained
  <1>8. NoMissedSignal'
    <2> SUFFICES ASSUME NEW z \in Sems, Waiters(z)' > 0 PROVE ~Passes(z)'
      BY DEF NoMissedSignal
    <2>1. CASE z = s
      BY <1>2, <1>3, <1>4, <2>1 DEF Passes
    <2>2. CASE z # s
      <3>1. Waiters(z) > 0
        BY <1>3, <2>2 DEF Waiters
      <3> QED BY <1>4, <2>2, <3>1 DEF Passes, SemInv, NoMissedSignal
    <2> QED BY <2>1, <2>2
  <1>9. InOrder'
    BY <1>3 DEF SemInv, InOrder, Drained
  <1>10. TokensBounded'
    <2> SUFFICES ASSUME NEW z \in Resources
                 PROVE  IsFiniteSet(TokensOut(z))' /\ Tokens(z)' <= Lim[z]
      BY DEF TokensBounded
    <2>0. /\ z \in Sems /\ Mode[z] = "RSRC" /\ count[z] \in Nat /\ count'[z] \in Nat
          /\ Lim[z] \in Nat
      BY <1>0, <1>5, SemAssumption DEF Resources, CountsTyped
    <2>1. CASE z # s
      <3>1. NoGrant(z)
        <4> SUFFICES ASSUME NEW t \in Tasks, Granted(t, z)', ~k.rv[t] PROVE FALSE
          BY <1>1 DEF NoGrant, Granted
        <4>1. call[t] # NoCall /\ call[t][1] = z /\ k'.rv[t]
          BY <1>1 DEF Granted
        <4>2. Contains(k.q[s], t)
          BY <1>3, <4>1
        <4> QED BY <1>0, <2>1, <4>1, <4>2 DEF CallsKept
      <3>2. \A u \in Tasks : held'[u][z] = held[u][z] /\ held[u][z] \in Nat
        BY <1>0, <1>1, <2>1 DEF HistoryTyped
      <3>3. count'[z] <= count[z]
        BY <1>4, <2>0, <2>1
      <3> QED BY <1>6, <2>0, <3>1, <3>2, <3>3, NoneCounted
    <2>2. CASE z = s
      <3> DEFINE O  == TokensOut(s)
                 O2 == TokensOut(s)'
                 y  == <<ct, held[ct][s]>>
                 h  == Head(k.q[s])
      <3>1. /\ held[ct][s] \in Nat /\ held[ct][s] > 0 /\ held'[ct][s] = held[ct][s] - 1
            /\ \A t \in Tasks \ {ct} : held'[t][s] = held[t][s]
        BY <1>0, <1>1, <2>2 DEF HistoryTyped
      <3>2. y \in O /\ IsFiniteSet(O) /\ Tokens(s) <= Lim[s]
        <4>1. held[ct][s] \in 1..held[ct][s]
          BY <3>1
        <4> QED BY <1>0, <2>2, <4>1, Outstanding DEF SemInv, TokensBounded
      <3>3. \A x \in O2 : x # y /\ (x \in O \/ (n = 1 /\ x = <<h, 0>>))
        <4> SUFFICES ASSUME NEW x \in O2
                     PROVE  x # y /\ (x \in O \/ (n = 1 /\ x = <<h, 0>>))
          OBVIOUS
        <4>1. PICK t \in Tasks : \/ x = <<t, 0>> /\ Granted(t, s)'
                                 \/ \E i \in 1..held'[t][s] : x = <<t, i>>
          BY OutstandingNext
        <4>2. CASE x = <<t, 0>> /\ Granted(t, s)'
          <5>1. x # y
            BY <3>1, <4>2
          <5>2. CASE k.rv[t]
            BY <1>1, <4>2, <5>1, <5>2, Outstanding DEF Granted
          <5>3. CASE ~k.rv[t]
            <6>1. k'.rv[t]
              BY <4>2 DEF Granted
            <6>2. n = 1
              BY <1>2, <1>3, <2>0, <2>2, <5>3, <6>1
            <6>3. k.rv \in [Tasks -> BOOLEAN]
              BY <1>0, SemQueue
            <6>4. t = h
              BY <1>3, <5>3, <6>1, <6>2, <6>3
            <6> QED BY <4>2, <5>1, <6>2, <6>4
          <5> QED BY <5>2, <5>3
        <4>3. CASE \E i \in 1..held'[t][s] : x = <<t, i>>
          <5>1. PICK i \in 1..held'[t][s] : x = <<t, i>>
            BY <4>3
          <5>2. held'[t][s] \in Nat /\ held[t][s] \in Nat
            BY <1>0, <1>6, <2>2 DEF HistoryTyped
          <5>3. i \in 1..held[t][s] /\ ~(t = ct /\ i = held[ct][s])
            BY <3>1, <5>1, <5>2
          <5>4. x # y
            BY <5>1, <5>3
          <5> QED BY <5>1, <5>3, <5>4, Outstanding
        <4> QED BY <4>1, <4>2, <4>3
      <3>4. /\ Tokens(s) = count[s] + Cardinality(O)
            /\ Tokens(s)' = count'[s] + Cardinality(O2)
        BY DEF Tokens
      <3>5. CASE n = 0
        <4>1. O2 \subseteq O \ {y}
          BY <3>3, <3>5
        <4> HIDE DEF O, O2, y
        <4>2. /\ IsFiniteSet(O2) /\ Cardinality(O2) \in Nat /\ Cardinality(O) \in Nat
              /\ Cardinality(O2) <= Cardinality(O) - 1
          BY <3>2, <4>1, OneFewerOut
        <4>3. count'[s] <= count[s] + 1
          BY <1>2, <1>4, <2>0, <2>2, <3>5
        <4>4. Tokens(s)' <= Lim[s]
          BY <2>0, <2>2, <3>2, <3>4, <4>2, <4>3
        <4> QED BY <2>2, <4>2, <4>4 DEF O2
      <3>6. CASE n # 0
        <4>1. n = 1 /\ count'[s] = count[s]
          BY <1>2, <1>4, <2>0, <2>2, <3>6
        <4>2. O2 \subseteq (O \ {y}) \union {<<h, 0>>}
          BY <3>3
        <4> HIDE DEF O, O2, y, h
        <4>3. /\ IsFiniteSet(O2) /\ Cardinality(O2) \in Nat /\ Cardinality(O) \in Nat
              /\ Cardinality(O2) <= Cardinality(O)
          BY <3>2, <4>2, ExchangedOut
        <4>4. Tokens(s)' <= Lim[s]
          BY <2>0, <2>2, <3>2, <3>4, <4>1, <4>3
        <4> QED BY <2>2, <4>3, <4>4 DEF O2
      <3> QED BY <3>5, <3>6
    <2> QED BY <2>1, <2>2
  <1> QED BY <1>3, <1>5, <1>6, <1>7, <1>8, <1>9, <1>10 DEF SemInv, Unowned

LEMMA ClearStep ==
  ASSUME SemInv, NEW c \in Callers, NEW s \in Sems, SemClear(c, s)
  PROVE  SemInv' /\ (TopKnown => TopKnown')
  <1> DEFINE n == Waiters(s)
             b == FALSE
  <1>0. /\ KernelInv /\ Unowned(k) /\ CountsTyped /\ HistoryTyped /\ CallsKept
        /\ ct \in Tasks /\ Good(k, Tasks) /\ s \in Objs
        /\ n \in Nat /\ n <= Waiters(s)
    BY GoodNow, SemQueue DEF SemInv, Waiters
  <1>w. MayCall(c) /\ b \in BOOLEAN /\ Leave(c, WakeFirst(k, s, n, b))
    BY DEF SemClear, SemClear_F
  <1>1. /\ count' = [count EXCEPT ![s] = IF s \in Resources THEN Lim[s] ELSE 0]
        /\ IF s \in Resources
             THEN /\ held' = [t \in Tasks |-> [held[t] EXCEPT ![s] = 0]]
                  /\ call' = [t \in Tasks |-> IF call[t] # NoCall /\ call[t][1] = s
                                                THEN NoCall ELSE call[t]]
             ELSE held' = held /\ call' = call
    BY DEF SemClear
  <1> HIDE DEF n, b
  <1>2. /\ KernelInv' /\ (TopKnown => TopKnown') /\ Unowned(k')
        /\ ct' = ct /\ (pc' = "run" => pc = "run")
        /\ \A z \in Sems : Drained(z) /\ (z # s => k'.q[z] = k.q[z])
        /\ Waiters(s)' = Waiters(s) - n
        /\ \A u \in Tasks : k'.rv[u] = k.rv[u] \/ (Contains(k.q[s], u) /\ k'.rv[u] = b)
        /\ n = 0 => k' = k
        /\ n = 1 => k'.rv = [k.rv EXCEPT ![Head(k.q[s])] = b]
    BY <1>0, <1>w, WakesLeave
  <1>3. \A u \in Tasks : k'.rv[u] => k.rv[u]
    BY <1>2 DEF b
  <1>4. /\ count'[s] = IF s \in Resources THEN Lim[s] ELSE 0
        /\ \A z \in Sems \ {s} : count'[z] = count[z]
        /\ count' \in [Sems -> 0..MaxCount]
    <2> DEFINE m == IF s \in Resources THEN Lim[s] ELSE 0
    <2>1. m \in 0..MaxCount /\ count' = [count EXCEPT ![s] = m]
      BY <1>1, SemAssumption
    <2> HIDE DEF m
    <2>2. count'[s] = m /\ \A z \in Sems \ {s} : count'[z] = count[z]
      BY <1>0, <2>1 DEF CountsTyped
    <2>3. count' \in [Sems -> 0..MaxCount]
      BY <1>0, <2>1 DEF CountsTyped
    <2> QED BY <2>2, <2>3 DEF m
  <1>5. CountsTyped'
    BY <1>0, <1>4, SemAssumption DEF CountsTyped, Resources
  <1>6. /\ held' \in [Tasks -> [Resources -> Nat]]
        /\ call' \in [Tasks -> {NoCall} \union (Resources \X {"susp", "stop", "par"})]
        /\ NoCallMade
        /\ s \in Resources => \A t \in Tasks : /\ held'[t][s] = 0
                                               /\ call'[t] # NoCall => call'[t][1] # s
        /\ \A t \in Tasks, z \in Resources \ {s} : held'[t][z] = held[t][z]
    <2>1. CASE s \in Resources
      <3>1. /\ held' = [t \in Tasks |-> [held[t] EXCEPT ![s] = 0]]
            /\ call' = [t \in Tasks |-> IF call[t] # NoCall /\ call[t][1] = s
                                          THEN NoCall ELSE call[t]]
        BY <1>1, <2>1
      <3>2. \A t \in Tasks : held[t] \in [Resources -> Nat]
        BY <1>0 DEF HistoryTyped
      <3>3. \A t \in Tasks : /\ [held[t] EXCEPT ![s] = 0] \in [Resources -> Nat]
                             /\ held'[t][s] = 0
                             /\ \A z \in Resources \ {s} : held'[t][z] = held[t][z]
        BY <2>1, <3>1, <3>2
      <3>4. held' \in [Tasks -> [Resources -> Nat]]
        BY <3>1, <3>3
      <3>5. \A t \in Tasks : call'[t] = IF call[t] # NoCall /\ call[t][1] = s
                                        THEN NoCall ELSE call[t]
        BY <3>1
      <3>6. call' \in [Tasks -> {NoCall} \union (Resources \X {"susp", "stop", "par"})]
        BY <1>0, <3>1 DEF HistoryTyped
      <3> QED BY <3>3, <3>4, <3>5, <3>6 DEF NoCallMade
    <2>2. CASE s \notin Resources
      BY <1>0, <1>1, <2>2 DEF HistoryTyped, NoCallMade
    <2> QED BY <2>1, <2>2
  <1>7. HistoryTyped'
    BY <1>6 DEF HistoryTyped
  <1>8. CallsKept'
    <2>1. pc' = "run" => call'[ct'] = NoCall
      BY <1>0, <1>2, <1>6 DEF CallsKept, NoCallMade
    <2>2. ASSUME NEW z \in Sems, NEW t \in Tasks, Contains(k'.q[z], t), call'[t] # NoCall
          PROVE  call'[t][1] = z
      BY <1>0, <1>2, <1>6, <2>2 DEF CallsKept, Drained, NoCallMade
    <2> QED BY <2>1, <2>2 DEF CallsKept
  <1>9. NoMissedSignal'
    <2> SUFFICES ASSUME NEW z \in Sems, Waiters(z)' > 0 PROVE ~Passes(z)'
      BY DEF NoMissedSignal
    <2>1. z # s
      BY <1>0, <1>2 DEF n
    <2>2. Waiters(z) > 0
      BY <1>2, <2>1 DEF Waiters
    <2> QED BY <1>4, <2>1, <2>2 DEF Passes, SemInv, NoMissedSignal
  <1>10. InOrder'
    BY <1>2 DEF SemInv, InOrder, Drained
  <1>11. TokensBounded'
    <2> SUFFICES ASSUME NEW z \in Resources
                 PROVE  IsFiniteSet(TokensOut(z))' /\ Tokens(z)' <= Lim[z]
      BY DEF TokensBounded
    <2>0. /\ z \in Sems /\ count[z] \in Nat /\ count'[z] \in Nat /\ Lim[z] \in Nat
      BY <1>0, <1>5, SemAssumption DEF Resources, CountsTyped
    <2>1. CASE z # s
      <3>1. NoGrant(z)
        BY <1>3, <1>6 DEF NoGrant, Granted, NoCallMade
      <3>2. \A u \in Tasks : held'[u][z] = held[u][z] /\ held[u][z] \in Nat
        BY <1>0, <1>6, <2>1 DEF HistoryTyped
      <3>3. count'[z] <= count[z]
        BY <1>4, <2>0, <2>1
      <3> QED BY <1>7, <2>0, <3>1, <3>2, <3>3, NoneCounted
    <2>2. CASE z = s
      <3>1. TokensOut(s)' = {}
        <4> SUFFICES ASSUME NEW x \in TokensOut(s)' PROVE FALSE
          OBVIOUS
        <4>1. PICK t \in Tasks : \/ x = <<t, 0>> /\ Granted(t, s)'
                                 \/ \E i \in 1..held'[t][s] : x = <<t, i>>
          BY OutstandingNext
        <4>2. held'[t][s] = 0 /\ ~(call'[t] # NoCall /\ call'[t][1] = s)
          <5>1. s \in Resources
            BY <2>2
          <5>2. \A u \in Tasks : held'[u][s] = 0 /\ (call'[u] # NoCall => call'[u][1] # s)
            BY <1>6, <5>1
          <5> QED BY <5>2
        <4>3. ~Granted(t, s)'
          BY <4>2 DEF Granted
        <4> QED BY <4>1, <4>2, <4>3
      <3>2. IsFiniteSet({}) /\ Cardinality({}) = 0
        BY FS_EmptySet
      <3>3. Tokens(s)' = count'[s] + Cardinality(TokensOut(s)')
        BY DEF Tokens
      <3>4. Tokens(s)' <= Lim[s]
        BY <1>4, <2>0, <2>2, <3>1, <3>2, <3>3
      <3>5. IsFiniteSet(TokensOut(s))'
        BY <3>1, <3>2
      <3> QED BY <2>2, <3>4, <3>5
    <2> QED BY <2>1, <2>2
  <1> QED BY <1>2, <1>5, <1>7, <1>8, <1>9, <1>10, <1>11 DEF SemInv, Unowned

-----------------------------------------------------------------------------
(* Steps that make the current task wait: tests. *)

\* The current task is in the queue of s, and the other queues are the same.
Entered(r, s) ==
    /\ \A o \in Objs \ {s} : r.q[o] = k.q[o]
    /\ \A u \in Tasks : Contains(r.q[s], u) => Contains(k.q[s], u) \/ u = ct
    /\ s \notin FifoSems /\ Descending(k.q[s], k.pri) => Descending(r.q[s], r.pri)

\* The data a test works on, the lock having been cleared or not.
Tested(k1) == /\ Valid(k1) /\ Held(k1) /\ Same(k, k1) /\ Top(k1) = Top(k)
              /\ k1.sched = "NOP" /\ (k1.lockctr = 0 \/ k1 = k)

LEMMA TestedData ==
  ASSUME KernelInv, pc = "run", NEW k1, k1 \in {k, [k EXCEPT !.lockctr = 0]}
  PROVE  Tested(k1)
  <1>1. CASE k1 = k
    BY <1>1 DEF KernelInv, Tested, Same
  <1>2. CASE k1 = [k EXCEPT !.lockctr = 0]
    <2>1. k1 = Locked(k, 0) /\ 0 \in 0..LockLimit
      BY <1>2, KernelAssumption DEF Locked
    <2>2. /\ Valid(k1) /\ Held(k1)
          /\ Top(k1) = Top(k) /\ k1.sched = k.sched /\ k1.lockctr = 0 /\ Same(k, k1)
      BY <2>1, Relocked
    <2> QED BY <2>2 DEF KernelInv, Tested
  <1> QED BY <1>1, <1>2

LEMMA Waits ==
  ASSUME KernelInv, Unowned(k), CallerMayWait, NEW k1, Tested(k1), NEW s \in Sems,
         NEW tmo, tmo = "SET", ~Passes(s), NEW d, d = SemTest_F(k1, s, tmo)
  PROVE  /\ Valid(d) /\ Held(d) /\ Entered(d, s) /\ d.pri = k.pri /\ d.rv = k.rv
         /\ d.sched = "SUSP"
  <1> DEFINE e == [k1 EXCEPT !.sched = "SUSP"]
             f == DQRQTask(e, ct)
             w == IF s \in FifoSems THEN Append(f.q[s], ct) ELSE ByPriority(f, f.q[s], ct)
             g == WithQueue(f, s, w)
  <1>0. /\ ct \in Tasks /\ ct # Idle /\ Idle \in Tasks /\ s \in Objs /\ s \notin Mutexes
        /\ Good(k1, Tasks) /\ k1 \in KernelType /\ InRq(k1, ct) /\ InRq(k1, Idle)
        /\ k1.lockctr <= LockLimit /\ k1.q = k.q /\ k1.pri = k.pri /\ k1.rv = k.rv
        /\ \A u \in k1.begun \ {ct} : k1.sp[u]
        /\ pc = "run"
    BY GoodNow, SemQueue, QueuesAssumption
       DEF CallerMayWait, Tested, Valid, Held, Same, Good, Linked
  <1>1. /\ e \in KernelType /\ e.q = k1.q /\ e.rqtop = k1.rqtop /\ e.state = k1.state
        /\ e.pri = k1.pri /\ e.timeout = k1.timeout /\ e.rv = k1.rv /\ e.sp = k1.sp
        /\ e.sched = "SUSP" /\ e.lockctr = k1.lockctr /\ e.begun = k1.begun
    BY <1>0 DEF KernelType
  <1>2. Good(e, Tasks) /\ \A u \in Tasks : InRq(e, u) <=> InRq(k1, u)
    BY <1>0, <1>1, Restated
  <1>3. /\ Linked(e) /\ e \in KernelType /\ Good(e, Tasks \ {ct})
        /\ InRq(e, ct) /\ Queued(e, ct) /\ Unowned(e)
        /\ \A o \in Objs : ~Contains(e.q[o], ct)
    <2>1. Linked(e) /\ Good(e, Tasks \ {ct}) /\ InRq(e, ct)
      BY <1>0, <1>2 DEF Good
    <2>2. Queued(e, ct) /\ \A o \in Objs : ~Contains(e.q[o], ct)
      BY <1>0, <2>1, ReadyQueued
    <2> QED BY <1>0, <1>1, <2>1, <2>2 DEF Unowned
  <1>4. f = IF Queued(e, ct) THEN DQTask(e, ct) ELSE e
    BY <1>3, DQTaskIsDQRQTask
  <1> HIDE DEF e, f
  <1>5. /\ Good(f, Tasks) /\ SameFields(e, f) /\ f.rv = e.rv
        /\ ~InRq(f, ct) /\ ~Queued(f, ct) /\ Others(e, f, ct) /\ Aside(e, f, ct)
    BY <1>0, <1>3, <1>4, Removed
  <1>6. /\ \A o \in Objs : f.q[o] = k.q[o]
        /\ f \in KernelType /\ f.pri = k.pri /\ f.pri \in [Tasks -> Levels]
    <2>1. \A o \in Objs : f.q[o] = k.q[o]
      BY <1>0, <1>1, <1>3, <1>5 DEF Aside, Without
    <2>2. f.pri = k.pri
      BY <1>0, <1>1, <1>5 DEF SameFields
    <2>3. f \in KernelType /\ f.pri \in [Tasks -> Levels]
      BY <1>5 DEF Good, Linked, KernelType
    <2> QED BY <2>1, <2>2, <2>3
  <1>7. /\ w \in Seq(Tasks) /\ Injective(w)
        /\ \A u : Contains(w, u) <=> Contains(f.q[s], u) \/ u = ct
        /\ s \notin FifoSems /\ Descending(f.q[s], f.pri) => Descending(w, f.pri)
    <2>1. /\ f.q[s] \in Seq(Tasks) /\ Injective(f.q[s]) /\ ~Contains(f.q[s], ct)
      BY <1>0, <1>3, <1>1, <1>5, <1>6, SemQueue
    <2>2. CASE s \in FifoSems
      BY <1>0, <2>1, <2>2, AppendContains
    <2>3. CASE s \notin FifoSems
      <3> DEFINE z == ByPriority(f, f.q[s], ct)
      <3>1. /\ z \in Seq(Tasks) /\ Injective(z)
            /\ \A u : Contains(z, u) <=> Contains(f.q[s], u) \/ u = ct
            /\ Descending(f.q[s], f.pri) => Descending(z, f.pri)
        BY <1>0, <1>6, <2>1, ByPriorityProperties
      <3>2. w = z
        BY <2>3
      <3> HIDE DEF z, w
      <3> QED BY <3>1, <3>2
    <2> QED BY <2>2, <2>3
  <1>8. d = TimeoutSet(g, ct, "SET")
    <2>1. g = [f EXCEPT !.q[s] = w]
      BY DEF WithQueue
    <2>2. CASE s \in FifoSems
      BY <2>1, <2>2 DEF SemTest_F, NQTask, e, f
    <2>3. CASE s \notin FifoSems
      BY <1>0, <2>1, <2>3 DEF SemTest_F, PNQTask, e, f
    <2> QED BY <2>2, <2>3
  <1> HIDE DEF w
  <1>9. /\ Good(g, Tasks) /\ SameFields(f, g) /\ g.rv = f.rv
        /\ g.q[s] = w
        /\ \A x \in Places \ {s} : g.q[x] = f.q[x]
        /\ \A u \in Tasks : InRq(g, u) <=> InRq(f, u)
    BY <1>0, <1>5, <1>7, Lined
  <1> HIDE DEF g
  <1>10. /\ Good(d, Tasks) /\ \A u \in Tasks : InRq(d, u) <=> InRq(g, u)
         /\ Same(g, d)
         /\ d.sp = g.sp /\ d.sched = g.sched /\ d.lockctr = g.lockctr /\ d.begun = g.begun
    BY <1>0, <1>5, <1>8, <1>9, Marked
  <1>11. /\ d.sp = k1.sp /\ d.sched = "SUSP" /\ d.lockctr = k1.lockctr /\ d.begun = k1.begun
         /\ d.pri = k.pri /\ d.rv = k.rv
    BY <1>0, <1>1, <1>5, <1>9, <1>10 DEF SameFields, Same
  <1>12. Valid(d)
    BY <1>0, <1>2, <1>5, <1>9, <1>10, <1>11 DEF Valid, Others
  <1>13. Held(d)
    BY <1>0, <1>11 DEF Held
  <1>14. Entered(d, s)
    <2>1. \A o \in Objs \ {s} : d.q[o] = k.q[o]
      BY <1>6, <1>9, <1>10 DEF Same, Places
    <2>2. d.q[s] = w
      BY <1>9, <1>10 DEF Same
    <2>3. f.q[s] = k.q[s]
      BY <1>0, <1>6
    <2> QED BY <1>6, <1>7, <1>11, <2>1, <2>2, <2>3 DEF Entered
  <1> QED BY <1>11, <1>12, <1>13, <1>14
\* A test returns, or goes on to PSVH() with its result in ct->rv.
LEMMA TestLeaves ==
  ASSUME KernelInv, pc = "run", NEW s \in Sems, NEW how, NEW b \in BOOLEAN,
         NEW r, Valid(r), Held(r), r.rv = k.rv, Top(r) = Top(k) \/ r.sched # "NOP",
         LeaveTest(r, s, how, b)
  PROVE  /\ KernelInv' /\ k'.q = r.q /\ k'.pri = r.pri /\ ct' = ct
         /\ r.sched # "NOP" \/ r.lockctr # 0 \/ ct = Top(k) => TopKnown'
         /\ \/ pc' = pc /\ k'.rv = k.rv
            \/ pc' = "psv" /\ k'.rv = [k.rv EXCEPT ![ct] = b]
  <1>0. /\ ct \in Tasks /\ ct' = ct /\ Good(r, Tasks)
    BY GoodNow DEF LeaveTest, Valid
  <1>1. CASE r.sched = "NOP" /\ k' = r /\ pc' = pc
    <2>1. Valid(k)' /\ Held(k)'
      BY <1>0, <1>1 DEF Valid, Held
    <2> QED BY <1>0, <1>1, <2>1 DEF KernelInv, TopKnown
  <1>2. CASE pc' = "psv" /\ k' = [r EXCEPT !.rv[ct] = b]
    <2>1. k' = Replied(r, ct, b)
      BY <1>2 DEF Replied
    <2>2. /\ Good(k', Tasks) /\ \A u \in Tasks : InRq(k', u) <=> InRq(r, u)
          /\ Top(k') = Top(r) /\ k'.rqtop = r.rqtop /\ k'.q = r.q /\ SameFields(r, k')
          /\ k'.rv = [r.rv EXCEPT ![ct] = b]
      BY <1>0, <2>1, Answered
    <2>3. Valid(k)'
      BY <1>0, <2>2, QueuesAssumption DEF Valid, SameFields
    <2>4. Held(k)'
      BY <1>0, <1>2, <2>2 DEF Held, SameFields
    <2>5. KernelInv'
      BY <1>0, <1>2, <2>3, <2>4 DEF KernelInv
    <2>6. r.sched # "NOP" \/ r.lockctr # 0 \/ ct = Top(k) => TopKnown'
      BY <1>0, <2>2 DEF TopKnown, SameFields
    <2> QED BY <1>0, <1>2, <2>2, <2>5, <2>6 DEF SameFields
  <1> QED BY <1>1, <1>2 DEF LeaveTest

\* What a test does to the count.
LEMMA TestCounts ==
  ASSUME CountsTyped, NEW s \in Sems, count' = [count EXCEPT ![s] = TestCount(s)]
  PROVE  /\ CountsTyped' /\ \A z \in Sems \ {s} : count'[z] = count[z]
         /\ ~Passes(s) => count' = count
         /\ Passes(s) => count'[s] <= count[s] - 1
         /\ count[s] \in Nat /\ count'[s] \in Nat
  <1>1. /\ count[s] \in Nat /\ count[s] <= MaxCount /\ MaxCount \in Nat
        /\ Mode[s] = "RSRC" \/ (Mode[s] = "EVENT" /\ Lim[s] = 1) => count[s] <= Lim[s]
        /\ Lim[s] \in Nat
        /\ Mode[s] \in {"RSRC", "THRES"} => Lim[s] >= 1
    <2>1. MaxCount \in Nat /\ Lim[s] \in 0..MaxCount /\ count[s] \in 0..MaxCount
      BY SemAssumption DEF CountsTyped
    <2>2. /\ Mode[s] = "RSRC" \/ (Mode[s] = "EVENT" /\ Lim[s] = 1) => count[s] <= Lim[s]
          /\ Mode[s] \in {"RSRC", "THRES"} => Lim[s] >= 1
      BY SemAssumption DEF CountsTyped
    <2> QED BY <2>1, <2>2
  <1>2. /\ TestCount(s) \in 0..MaxCount /\ TestCount(s) <= count[s]
        /\ ~Passes(s) => TestCount(s) = count[s]
        /\ Passes(s) => TestCount(s) <= count[s] - 1
    BY <1>1 DEF TestCount, Passes
  <1>3. /\ count'[s] = TestCount(s) /\ \A z \in Sems \ {s} : count'[z] = count[z]
        /\ count' \in [Sems -> 0..MaxCount]
    BY <1>2 DEF CountsTyped
  <1>4. ~Passes(s) => count' = count
    BY <1>2 DEF CountsTyped
  <1>5. Lim[s] \in Nat /\ TestCount(s) \in Nat
    BY <1>1, <1>2
  <1>6. Mode[s] = "RSRC" \/ (Mode[s] = "EVENT" /\ Lim[s] = 1) => count'[s] <= Lim[s]
    BY <1>1, <1>2, <1>3, <1>5
  <1>7. CountsTyped'
    BY <1>3, <1>6 DEF CountsTyped
  <1> QED BY <1>1, <1>2, <1>3, <1>4, <1>5, <1>7

LEMMA TestStep ==
  ASSUME SemInv, CallerMayWait \/ pc = "run", NEW s \in Sems, NEW how \in {"susp", "stop"},
         NEW r, Valid(r), Held(r), r.rv = k.rv, r.pri = k.pri,
         Top(r) = Top(k) \/ r.sched # "NOP",
         r.q = k.q \/ (~Passes(s) /\ Entered(r, s)),
         LeaveTest(r, s, how, Passes(s)),
         count' = [count EXCEPT ![s] = TestCount(s)]
  PROVE  SemInv' /\ (r.sched # "NOP" \/ r.lockctr # 0 \/ ct = Top(k) => TopKnown')
  <1> DEFINE b == Passes(s)
  <1>0. /\ KernelInv /\ Unowned(k) /\ CountsTyped /\ HistoryTyped /\ CallsKept
        /\ ct \in Tasks /\ Good(k, Tasks) /\ k.rv \in [Tasks -> BOOLEAN]
        /\ pc = "run" /\ call[ct] = NoCall /\ b \in BOOLEAN
    BY GoodNow DEF SemInv, CallsKept, CallerMayWait, Passes, KernelType
  <1>1. /\ CountsTyped' /\ \A z \in Sems \ {s} : count'[z] = count[z]
        /\ ~Passes(s) => count' = count
        /\ Passes(s) => count'[s] <= count[s] - 1
        /\ count[s] \in Nat /\ count'[s] \in Nat
    BY <1>0, TestCounts
  <1>2. /\ KernelInv' /\ k'.q = r.q /\ k'.pri = r.pri /\ ct' = ct
        /\ r.sched # "NOP" \/ r.lockctr # 0 \/ ct = Top(k) => TopKnown'
        /\ \/ pc' = pc /\ k'.rv = k.rv
           \/ pc' = "psv" /\ k'.rv = [k.rv EXCEPT ![ct] = b]
    <2>1. LeaveTest(r, s, how, b)
      OBVIOUS
    <2> HIDE DEF b
    <2> QED BY <1>0, <2>1, TestLeaves
  <1>3. /\ \/ /\ pc' = pc /\ call' = call /\ k' = r
              /\ held' = IF b /\ s \in Resources THEN [held EXCEPT ![ct][s] = @ + 1] ELSE held
           \/ /\ pc' = "psv" /\ held' = held /\ k' = [r EXCEPT !.rv[ct] = b]
              /\ call' = IF s \in Resources THEN [call EXCEPT ![ct] = <<s, how>>] ELSE call
    BY DEF LeaveTest
  <1> HIDE DEF b
  <1>4. Unowned(k')
    BY <1>0, <1>2, SemQueue DEF Unowned, Entered, Objs
  <1>5. HistoryTyped'
    <2>1. held' \in [Tasks -> [Resources -> Nat]]
      <3>1. held \in [Tasks -> [Resources -> Nat]]
        BY <1>0 DEF HistoryTyped
      <3>2. CASE held' = held
        BY <3>1, <3>2
      <3>3. CASE s \in Resources /\ held' = [held EXCEPT ![ct][s] = @ + 1]
        <4> DEFINE h == [held[ct] EXCEPT ![s] = @ + 1]
        <4>1. held[ct] \in [Resources -> Nat] /\ held[ct][s] + 1 \in Nat
          BY <1>0, <3>1, <3>3
        <4>2. h \in [Resources -> Nat]
          BY <4>1
        <4>3. held' = [held EXCEPT ![ct] = h]
          BY <3>3
        <4> HIDE DEF h
        <4> QED BY <1>0, <3>1, <4>2, <4>3
      <3> QED BY <1>3, <3>2, <3>3
    <2>2. call' \in [Tasks -> {NoCall} \union (Resources \X {"susp", "stop", "par"})]
      BY <1>0, <1>3 DEF HistoryTyped
    <2> QED BY <2>1, <2>2 DEF HistoryTyped
  <1>6. \A t \in Tasks \ {ct} : call'[t] = call[t] /\ k'.rv[t] = k.rv[t]
    BY <1>0, <1>2, <1>3 DEF HistoryTyped
  <1>7. call'[ct] = NoCall \/ (s \in Resources /\ call'[ct] = <<s, how>> /\ pc' = "psv")
    BY <1>0, <1>3 DEF HistoryTyped
  <1>8. CallsKept'
    <2>1. pc' = "run" => call'[ct'] = NoCall
      BY <1>2, <1>7
    <2>2. ASSUME NEW z \in Sems, NEW t \in Tasks, Contains(k'.q[z], t), call'[t] # NoCall
          PROVE  call'[t][1] = z
      <3>1. CASE t = ct
        <4>1. InRq(k, ct) /\ Linked(k)
          BY <1>0 DEF KernelInv, Valid, Good
        <4>2. ~Contains(k.q[z], ct)
          BY <1>0, <4>1, ReadyQueued DEF Objs
        <4>3. z = s
          BY <1>2, <2>2, <3>1, <4>2 DEF Entered, Objs
        <4> QED BY <1>7, <2>2, <3>1, <4>3
      <3>2. CASE t # ct
        <4>1. Contains(k.q[z], t)
          BY <1>2, <2>2, <3>2 DEF Entered, Objs
        <4> QED BY <1>0, <1>6, <2>2, <3>2, <4>1 DEF CallsKept
      <3> QED BY <3>1, <3>2
    <2> QED BY <2>1, <2>2 DEF CallsKept
  <1>9. NoMissedSignal'
    <2> SUFFICES ASSUME NEW z \in Sems, Waiters(z)' > 0 PROVE ~Passes(z)'
      BY DEF NoMissedSignal
    <2>1. CASE z = s /\ ~Passes(s)
      BY <1>1, <2>1 DEF Passes
    <2>2. CASE z # s \/ Passes(s)
      <3>1. Waiters(z) > 0
        BY <1>2, <2>2 DEF Waiters, Entered, Objs
      <3>2. z # s /\ ~Passes(z)
        BY <2>2, <3>1 DEF SemInv, NoMissedSignal
      <3> QED BY <1>1, <3>2 DEF Passes
    <2> QED BY <2>1, <2>2
  <1>10. InOrder'
    <2> SUFFICES ASSUME NEW z \in Sems \ FifoSems PROVE Descending(k'.q[z], k'.pri)
      BY DEF InOrder
    <2>1. Descending(k.q[z], k.pri)
      BY DEF SemInv, InOrder
    <2> QED BY <1>2, <2>1 DEF Entered, Objs
  <1>11. TokensBounded'
    <2> SUFFICES ASSUME NEW z \in Resources
                 PROVE  IsFiniteSet(TokensOut(z))' /\ Tokens(z)' <= Lim[z]
      BY DEF TokensBounded
    <2>0. /\ z \in Sems /\ count[z] \in Nat /\ count'[z] \in Nat /\ Lim[z] \in Nat
      BY <1>0, <1>1, SemAssumption DEF Resources, CountsTyped
    <2>1. CASE z # s \/ ~b
      <3>1. NoGrant(z)
        <4> SUFFICES ASSUME NEW t \in Tasks, Granted(t, z)' PROVE Granted(t, z)
          BY DEF NoGrant
        <4>1. call'[t] # NoCall /\ call'[t][1] = z /\ k'.rv[t]
          BY DEF Granted
        <4>2. CASE t # ct
          BY <1>6, <4>1, <4>2 DEF Granted
        <4>3. CASE t = ct
          <5>1. s \in Resources /\ call'[ct] = <<s, how>> /\ pc' = "psv"
            BY <1>7, <4>1, <4>3
          <5>2. z = s /\ ~b
            BY <2>1, <4>1, <4>3, <5>1
          <5>3. ~k'.rv[ct]
            BY <1>0, <1>2, <5>1, <5>2
          <5> QED BY <4>1, <4>3, <5>3
        <4> QED BY <4>2, <4>3
      <3>2. \A u \in Tasks : held'[u][z] = held[u][z] /\ held[u][z] \in Nat
        BY <1>0, <1>3, <2>1 DEF HistoryTyped
      <3>3. count'[z] <= count[z]
        BY <1>1, <2>0, <2>1
      <3> QED BY <1>5, <2>0, <3>1, <3>2, <3>3, NoneCounted
    <2>2. CASE z = s /\ b
      <3> DEFINE O  == TokensOut(s)
                 O2 == TokensOut(s)'
                 n  == held[ct][s] + 1
      <3>1. IsFiniteSet(O) /\ Tokens(s) <= Lim[s] /\ count'[s] <= count[s] - 1 /\ s \in Resources
        BY <1>1, <2>2 DEF SemInv, TokensBounded, b
      <3>2. PICK y : O2 \subseteq O \union {y}
        <4>1. CASE call' = call /\ k'.rv = k.rv /\ held' = [held EXCEPT ![ct][s] = @ + 1]
          <5> SUFFICES ASSUME NEW x \in O2 PROVE x \in O \union {<<ct, n>>}
            OBVIOUS
          <5>1. PICK t \in Tasks : \/ x = <<t, 0>> /\ Granted(t, s)'
                                   \/ \E i \in 1..held'[t][s] : x = <<t, i>>
            BY OutstandingNext
          <5>2. CASE x = <<t, 0>> /\ Granted(t, s)'
            BY <4>1, <5>2, Outstanding DEF Granted
          <5>3. CASE \E i \in 1..held'[t][s] : x = <<t, i>>
            <6>1. PICK i \in 1..held'[t][s] : x = <<t, i>>
              BY <5>3
            <6>2. /\ held[t][s] \in Nat
                  /\ held'[t][s] = IF t = ct THEN held[t][s] + 1 ELSE held[t][s]
              BY <1>0, <3>1, <4>1 DEF HistoryTyped
            <6>3. i \in 1..held[t][s] \/ (t = ct /\ i = n)
              BY <6>1, <6>2
            <6> QED BY <6>1, <6>3, Outstanding
          <5> QED BY <5>1, <5>2, <5>3
        <4>2. CASE held' = held /\ \A t \in Tasks \ {ct} : call'[t] = call[t] /\ k'.rv[t] = k.rv[t]
          <5> SUFFICES ASSUME NEW x \in O2 PROVE x \in O \union {<<ct, 0>>}
            OBVIOUS
          <5>1. PICK t \in Tasks : \/ x = <<t, 0>> /\ Granted(t, s)'
                                   \/ \E i \in 1..held'[t][s] : x = <<t, i>>
            BY OutstandingNext
          <5>2. CASE x = <<t, 0>> /\ Granted(t, s)' /\ t # ct
            BY <4>2, <5>2, Outstanding DEF Granted
          <5>3. CASE \E i \in 1..held'[t][s] : x = <<t, i>>
            BY <4>2, <5>3, Outstanding
          <5> QED BY <5>1, <5>2, <5>3
        <4>3. CASE pc' = pc /\ call' = call /\ k' = r
          BY <1>3, <2>2, <3>1, <4>1, <4>3, <1>0
        <4> QED BY <1>3, <1>6, <4>2, <4>3
      <3>3. /\ Tokens(s) = count[s] + Cardinality(O)
            /\ Tokens(s)' = count'[s] + Cardinality(O2)
        BY DEF Tokens
      <3> HIDE DEF O, O2
      <3>4. /\ IsFiniteSet(O2) /\ Cardinality(O2) \in Nat /\ Cardinality(O) \in Nat
            /\ Cardinality(O2) <= Cardinality(O) + 1
        BY <3>1, <3>2, OneMoreOut
      <3>5. Tokens(s)' <= Lim[s]
        BY <2>0, <2>2, <3>1, <3>3, <3>4
      <3> QED BY <2>2, <3>4, <3>5 DEF O2
    <2> QED BY <2>1, <2>2
  <1> QED BY <1>1, <1>2, <1>4, <1>5, <1>8, <1>9, <1>10, <1>11 DEF SemInv, Unowned

LEMMA SuspTestStep ==
  ASSUME SemInv, NEW s \in Sems, NEW tmo \in Timeouts, SemTest(s, tmo)
  PROVE  SemInv' /\ (TopKnown /\ ~TopKnown' => pc = "run" /\ k.lockctr > 0 /\ count' # count)
  <1> DEFINE k1  == IF tmo = "NOWAIT" THEN k ELSE [k EXCEPT !.lockctr = 0]
             r   == SemTest_F(k1, s, tmo)
             how == "susp"
  <1>0. /\ KernelInv /\ Unowned(k) /\ CountsTyped /\ pc = "run" /\ ct \in Tasks
        /\ k.sched = "NOP" /\ k.lockctr \in Nat /\ Valid(k) /\ Held(k)
        /\ tmo # "NOWAIT" => CallerMayWait /\ tmo = "SET"
    BY GoodNow DEF SemInv, SemTest, CallerMayWait, KernelInv, KernelType, Timeouts
  <1>1. /\ LeaveTest(r, s, how, Passes(s)) /\ how \in {"susp", "stop"}
        /\ count' = [count EXCEPT ![s] = TestCount(s)]
    BY DEF SemTest
  <1> HIDE DEF how
  <1>2. Tested(k1) /\ (tmo = "NOWAIT" => k1 = k)
    <2>1. k1 \in {k, [k EXCEPT !.lockctr = 0]}
      OBVIOUS
    <2>2. tmo = "NOWAIT" => k1 = k
      OBVIOUS
    <2> HIDE DEF k1
    <2> QED BY <1>0, <2>1, <2>2, TestedData
  <1> HIDE DEF k1
  <1>3. count[s] \in Nat /\ count'[s] \in Nat /\ (Passes(s) => count'[s] <= count[s] - 1)
    BY <1>0, <1>1, TestCounts
  <1>4. CASE Passes(s) \/ tmo = "NOWAIT"
    <2>1. r = k1
      BY <1>4 DEF SemTest_F
    <2> HIDE DEF r
    <2>2. /\ Valid(r) /\ Held(r) /\ r.rv = k.rv /\ r.pri = k.pri /\ r.q = k.q
          /\ Top(r) = Top(k) /\ r.sched = "NOP"
      BY <1>2, <2>1 DEF Tested, Same
    <2>3. SemInv' /\ (r.sched # "NOP" \/ r.lockctr # 0 \/ ct = Top(k) => TopKnown')
      BY <1>0, <1>1, <2>2, TestStep
    <2>4. CASE k.lockctr > 0 /\ Passes(s)
      BY <1>0, <1>3, <2>3, <2>4
    <2>5. CASE k.lockctr = 0
      BY <1>0, <2>3, <2>5 DEF TopKnown
    <2>6. CASE k.lockctr > 0 /\ ~Passes(s)
      BY <1>0, <1>2, <1>4, <2>1, <2>3, <2>6
    <2> QED BY <1>0, <2>4, <2>5, <2>6
  <1>5. CASE ~Passes(s) /\ tmo # "NOWAIT"
    <2>1. /\ Valid(r) /\ Held(r) /\ Entered(r, s) /\ r.pri = k.pri /\ r.rv = k.rv
          /\ r.sched = "SUSP"
      <3>1. r = SemTest_F(k1, s, tmo)
        OBVIOUS
      <3> HIDE DEF r
      <3> QED BY <1>0, <1>2, <1>5, <3>1, Waits
    <2> HIDE DEF r
    <2> QED BY <1>0, <1>1, <1>5, <2>1, TestStep
  <1> QED BY <1>4, <1>5

LEMMA StopTestStep ==
  ASSUME SemInv, NEW s \in Sems, NEW tmo \in Timeouts, SemTestStop(s, tmo)
  PROVE  SemInv' /\ TopKnown'
  <1> DEFINE d   == SemTest_F(k, s, tmo)
             r   == ToStop(d)
             how == "stop"
  <1>0. /\ KernelInv /\ Unowned(k) /\ pc = "run" /\ ct \in Tasks /\ Valid(k) /\ Held(k)
        /\ CallerMayWait /\ Tested(k) /\ tmo \in {"NOWAIT", "SET"}
    BY GoodNow, TestedData DEF SemInv, SemTestStop, CallerMayWait, KernelInv, Timeouts
  <1>1. /\ LeaveTest(r, s, how, Passes(s)) /\ how \in {"susp", "stop"}
        /\ count' = [count EXCEPT ![s] = TestCount(s)]
    BY DEF SemTestStop, ToStop
  <1>2. /\ Valid(d) /\ Held(d) /\ d.pri = k.pri /\ d.rv = k.rv
        /\ d.q = k.q \/ (~Passes(s) /\ Entered(d, s))
    <2>1. CASE Passes(s) \/ tmo = "NOWAIT"
      BY <1>0, <2>1 DEF SemTest_F
    <2>2. CASE ~Passes(s) /\ tmo = "SET"
      <3>1. d = SemTest_F(k, s, tmo)
        OBVIOUS
      <3> HIDE DEF d
      <3>2. Valid(d) /\ Held(d) /\ Entered(d, s) /\ d.pri = k.pri /\ d.rv = k.rv
        BY <1>0, <2>2, <3>1, Waits
      <3> QED BY <2>2, <3>2
    <2> QED BY <1>0, <2>1, <2>2
  <1> HIDE DEF d
  <1>3. r = ToStop(d)
    OBVIOUS
  <1> HIDE DEF r, how
  <1>4. /\ Valid(r) /\ Held(r) /\ r.q = d.q /\ r.pri = d.pri /\ r.rv = d.rv
        /\ r.sched = "STOP" /\ Top(r) = Top(d)
    BY <1>0, <1>2, <1>3, ToldToStop
  <1>5. r.q = k.q \/ (~Passes(s) /\ Entered(r, s))
    BY <1>2, <1>4 DEF Entered
  <1>6. /\ r.rv = k.rv /\ r.pri = k.pri /\ r.sched # "NOP"
    BY <1>2, <1>4
  <1> QED BY <1>0, <1>1, <1>4, <1>5, <1>6, TestStep

LEMMA SameKernel ==
  ASSUME KernelInv, k' = k, ct' = ct, pc' = pc
  PROVE  KernelInv' /\ (TopKnown => TopKnown')
  <1>1. Valid(k)' /\ Held(k)'
    BY DEF KernelInv, Valid, Held
  <1> QED BY <1>1 DEF KernelInv, TopKnown

\* An LSR takes nothing that a waiting task could have had.
LEMMA LsrTestStep ==
  ASSUME SemInv, NEW s \in Sems, SemTestLsr(s)
  PROVE  SemInv' /\ (TopKnown => TopKnown')
  <1>0. /\ KernelInv /\ Unowned(k) /\ CountsTyped /\ HistoryTyped /\ CallsKept
        /\ k' = k /\ ct' = ct /\ pc' = pc /\ held' = held /\ call' = call
        /\ count' = [count EXCEPT ![s] = TestCount(s)] /\ s \notin Resources
    BY DEF SemInv, SemTestLsr
  <1>1. KernelInv' /\ (TopKnown => TopKnown') /\ Unowned(k')
    BY <1>0, SameKernel
  <1>2. /\ CountsTyped' /\ \A z \in Sems \ {s} : count'[z] = count[z]
        /\ ~Passes(s) => count' = count
    BY <1>0, TestCounts
  <1>3. HistoryTyped' /\ CallsKept'
    BY <1>0 DEF HistoryTyped, CallsKept
  <1>4. NoMissedSignal'
    <2> SUFFICES ASSUME NEW z \in Sems, Waiters(z)' > 0 PROVE ~Passes(z)'
      BY DEF NoMissedSignal
    <2>1. Waiters(z) > 0 /\ ~Passes(z)
      BY <1>0 DEF Waiters, SemInv, NoMissedSignal
    <2>2. count'[z] = count[z]
      BY <1>2, <2>1
    <2> QED BY <2>1, <2>2 DEF Passes
  <1>5. InOrder'
    BY <1>0 DEF SemInv, InOrder
  <1>6. TokensBounded'
    <2> SUFFICES ASSUME NEW z \in Resources
                 PROVE  IsFiniteSet(TokensOut(z))' /\ Tokens(z)' <= Lim[z]
      BY DEF TokensBounded
    <2>1. z \in Sems \ {s}
      BY <1>0 DEF Resources
    <2>2. TokensOut(z)' = TokensOut(z) /\ count'[z] = count[z]
      BY <1>0, <1>2, <2>1 DEF TokensOut, Granted
    <2>3. Tokens(z)' = Tokens(z)
      BY <2>2 DEF Tokens
    <2> QED BY <2>2, <2>3 DEF SemInv, TokensBounded
  <1> QED BY <1>1, <1>2, <1>3, <1>4, <1>5, <1>6 DEF SemInv, Unowned

-----------------------------------------------------------------------------
(* The invariant is inductive. *)

LEMMA SemNextStep ==
  ASSUME SemInv, [SemNext]_semVars
  PROVE  SemInv' /\ (TopKnown /\ ~TopKnown' => pc = "run" /\ k.lockctr > 0 /\ count' # count)
  <1>1. CASE SemScheduler
    BY <1>1, SemSchedulerStep
  <1>2. CASE OtherSSR
    BY <1>2, OtherStep
  <1>3. ASSUME NEW s \in Sems, NEW c \in Callers, SemSignal(c, s)
        PROVE  SemInv' /\ (TopKnown => TopKnown')
    BY <1>3, SignalStep
  <1>4. ASSUME NEW s \in Sems, NEW c \in Callers, SemClear(c, s)
        PROVE  SemInv' /\ (TopKnown => TopKnown')
    BY <1>4, ClearStep
  <1>5. ASSUME NEW s \in Sems, NEW tmo \in Timeouts, SemTest(s, tmo)
        PROVE  SemInv' /\ (TopKnown /\ ~TopKnown'
                             => pc = "run" /\ k.lockctr > 0 /\ count' # count)
    BY <1>5, SuspTestStep
  <1>6. ASSUME NEW s \in Sems, NEW tmo \in Timeouts, SemTestStop(s, tmo)
        PROVE  SemInv' /\ TopKnown'
    BY <1>6, StopTestStep
  <1>7. ASSUME NEW s \in Sems, SemTestLsr(s)
        PROVE  SemInv' /\ (TopKnown => TopKnown')
    BY <1>7, LsrTestStep
  <1>8. CASE UNCHANGED semVars
    <2>0. /\ KernelInv /\ k' = k /\ ct' = ct /\ pc' = pc
          /\ count' = count /\ held' = held /\ call' = call
      BY <1>8 DEF SemInv, semVars
    <2>1. KernelInv' /\ (TopKnown => TopKnown')
      BY <2>0, SameKernel
    <2>2. CountsTyped' /\ HistoryTyped' /\ CallsKept' /\ NoMissedSignal' /\ InOrder'
      BY <2>0 DEF SemInv, CountsTyped, HistoryTyped, CallsKept, NoMissedSignal, InOrder,
                  Waiters, Passes
    <2>3. TokensBounded'
      BY <2>0 DEF SemInv, TokensBounded, Tokens, TokensOut, Granted
    <2> QED BY <2>0, <2>1, <2>2, <2>3 DEF SemInv, Unowned
  <1> QED BY <1>1, <1>2, <1>3, <1>4, <1>5, <1>6, <1>7, <1>8 DEF SemNext, SemSSR

LEMMA SemInitInv == SemInit => SemInv
  <1> SUFFICES ASSUME SemInit PROVE SemInv
    OBVIOUS
  <1>1. KernelInv /\ Unowned(k)
    BY InitInv DEF SemInit
  <1>2. /\ count = [s \in Sems |-> IF Mode[s] = "RSRC" THEN Lim[s] ELSE 0]
        /\ held = [t \in Tasks |-> [s \in Resources |-> 0]]
        /\ call = [t \in Tasks |-> NoCall]
    BY DEF SemInit
  <1>3. \A s \in Sems : k.q[s] = <<>>
    BY QueuesAssumption, KernelAssumption DEF SemInit, Init, Objs
  <1>4. CountsTyped
    <2>1. \A s \in Sems : Lim[s] \in 0..MaxCount /\ 0 \in 0..MaxCount /\ 0 <= Lim[s]
      BY SemAssumption
    <2> QED BY <1>2, <2>1 DEF CountsTyped
  <1>5. HistoryTyped
    BY <1>2 DEF HistoryTyped
  <1>6. CallsKept
    BY <1>1, <1>2 DEF CallsKept, KernelInv
  <1>7. \A s \in Sems : Waiters(s) = 0
    BY <1>3, EmptySeq DEF Waiters
  <1>8. NoMissedSignal
    BY <1>7 DEF NoMissedSignal
  <1>9. InOrder
    BY <1>3, EmptySeq DEF InOrder, Descending
  <1>10. TokensBounded
    <2> SUFFICES ASSUME NEW s \in Resources
                 PROVE  IsFiniteSet(TokensOut(s)) /\ Tokens(s) <= Lim[s]
      BY DEF TokensBounded
    <2>1. TokensOut(s) = {}
      <3> SUFFICES ASSUME NEW x \in TokensOut(s) PROVE FALSE
        OBVIOUS
      <3>1. PICK t \in Tasks : \/ x = <<t, 0>> /\ Granted(t, s)
                               \/ \E i \in 1..held[t][s] : x = <<t, i>>
        BY Outstanding
      <3>2. held[t][s] = 0 /\ ~Granted(t, s)
        BY <1>2 DEF Granted
      <3> QED BY <3>1, <3>2
    <2>2. IsFiniteSet({}) /\ Cardinality({}) = 0
      BY FS_EmptySet
    <2>3. count[s] = Lim[s] /\ Lim[s] \in Nat
      BY <1>2, SemAssumption DEF Resources
    <2>4. Tokens(s) = Lim[s] + Cardinality({})
      BY <2>1, <2>3 DEF Tokens
    <2> QED BY <2>1, <2>2, <2>3, <2>4
  <1> QED BY <1>1, <1>4, <1>5, <1>6, <1>8, <1>9, <1>10 DEF SemInv

\* What the invariant says of the queues.
LEMMA SortedIfInv ==
  ASSUME SemInv
  PROVE  WaitersSorted
  <1>1. NoStaleTimeout
    BY ConsistentIfInv DEF SemInv, QueuesConsistent
  <1>2. ASSUME NEW s \in Sems \ FifoSems, NEW i \in 1..(Waiters(s) - 1)
        PROVE  k.pri[k.q[s][i]] >= k.pri[k.q[s][i + 1]]
    <2>1. /\ i \in 1..Len(k.q[s]) /\ i + 1 \in 1..Len(k.q[s]) /\ i < i + 1
      BY GoodNow, SemQueue DEF SemInv, Waiters
    <2>2. Descending(k.q[s], k.pri)
      BY DEF SemInv, InOrder
    <2> QED BY <2>1, <2>2 DEF Descending
  <1> QED BY <1>1, <1>2 DEF WaitersSorted

-----------------------------------------------------------------------------

\* The strengthened invariant holds in every state.
THEOREM SemInvariance == SemSpec => []SemInv
  <1>1. SemInv /\ [SemNext]_semVars => SemInv'
    BY SemNextStep
  <1> QED BY SemInitInv, <1>1, PTL DEF SemSpec

\* The counts, which xsem.c keeps in 8 bits, never exceed the limit of a
\* resource semaphore or of a binary event semaphore, and the kernel's data
\* stay what xsmx.c declares them to be.
THEOREM SemTyped == SemSpec => []SemTypeOK
  <1>1. SemInv => SemTypeOK
    BY DEF SemInv, CountsTyped, HistoryTyped, KernelInv, Valid, Good, Linked, TypeOK, SemTypeOK
  <1> QED BY SemInvariance, <1>1, PTL

\* No missed signal: after every signal, clear, test, timeout and task SSR, no
\* task waits at a semaphore that has what it waits for.
THEOREM NoSignalMissed == SemSpec => []NoMissedSignal
  <1>1. SemInv => NoMissedSignal
    BY DEF SemInv
  <1> QED BY SemInvariance, <1>1, PTL

\* The tasks waiting at a semaphore, except a gate, stay in the order of their
\* priorities, also when smx_TaskBump() changes these, and no task that was
\* resumed keeps its timeout.
THEOREM WaitersStaySorted == SemSpec => []WaitersSorted
  <1>1. SemInv => WaitersSorted
    BY SortedIfInv
  <1> QED BY SemInvariance, <1>1, PTL

\* Mutual exclusion: no more tokens of a resource semaphore are counted, held,
\* and granted to tasks that have yet to run, than its limit.
THEOREM TokensAlwaysBounded == SemSpec => []TokenBound
  <1>1. SemInv => TokenBound
    BY DEF SemInv, TokensBounded, TokenBound
  <1> QED BY SemInvariance, <1>1, PTL

\* Only a test that passes while the scheduler is locked leaves a task running
\* that is not the top task: it clears the lock without a preemption test.
THEOREM PreemptionMissedOnlyByPassedTest == SemSpec => OnlyPassedTestMissesPreemption
  <1>1. SemInv /\ [SemNext]_semVars
          => [TopKnown /\ ~TopKnown' => pc = "run" /\ k.lockctr > 0 /\ count' # count]_semVars
    BY SemNextStep
  <1> QED BY SemInvariance, <1>1, PTL DEF SemSpec, OnlyPassedTestMissesPreemption
=============================================================================
