--------------------------- MODULE SmxTimeProofs ----------------------------
(***************************************************************************)
(* Theorems about SmxTimeout and SmxTime, for every number of tasks and    *)
(* timers, every width of a word and every set of delays, waits and        *)
(* sleeps.                                                                 *)
(*                                                                         *)
(* The inductive invariant of the timeouts is TimeoutInv: smx_tmo_min may  *)
(* be stale, but only downwards, and a smx_tmo_min that has passed has an  *)
(* LSR on its way.  That of SmxTime, TimeInv, adds what the differences in *)
(* the timer queue add up to (Adds), that no delay is 0 or less (Phases),  *)
(* and what the delay of a smx_TimerStartAbs() on its way may be (AbsInv). *)
(***************************************************************************)
EXTENDS SmxTime, SmxLemmas, FiniteSetTheorems, TLAPS

\* The search of smx_TaskTimeout() finds a task, and none is due earlier.
LEMMA EarliestIsLeast ==
  ASSUME NEW f \in [Tasks -> 0..INF]
  PROVE  /\ Earliest(f) \in Tasks
         /\ \A u \in Tasks : f[Earliest(f)] <= f[u]
  <1> USE WordAssumption, TimeoutAssumption DEF Tasks, Word, INF
  <1>1. PICK x \in {f[t] : t \in Tasks} : \A y \in {f[t] : t \in Tasks} : x <= y
    <2>1. {f[t] : t \in Tasks} \in SUBSET Nat
      BY SMT
    <2>2. {f[t] : t \in Tasks} # {}
      <3>1. 0 \in Tasks
        BY SMT
      <3> QED BY <3>1
    <2> QED BY <2>1, <2>2, LeastNumber
  <1>2. PICK t \in {t \in Tasks : f[t] = x} : \A u \in {u \in Tasks : f[u] = x} : t <= u
    <2>1. {t \in Tasks : f[t] = x} \in SUBSET Nat
      BY SMT
    <2>2. {t \in Tasks : f[t] = x} # {}
      BY <1>1
    <2> QED BY <2>1, <2>2, LeastNumber
  <1>3. \A u \in Tasks : f[t] < f[u] \/ (f[t] = f[u] /\ t <= u)
    <2> SUFFICES ASSUME NEW u \in Tasks PROVE f[t] < f[u] \/ (f[t] = f[u] /\ t <= u)
      OBVIOUS
    <2>1. f[t] = x /\ x <= f[u] /\ (f[u] = x => t <= u)
      BY <1>1, <1>2
    <2> QED BY <2>1, SMT
  <1>4. /\ Earliest(f) \in Tasks
        /\ \A u \in Tasks : \/ f[Earliest(f)] < f[u]
                            \/ f[Earliest(f)] = f[u] /\ Earliest(f) <= u
    <2>1. \E s \in Tasks : \A u \in Tasks : f[s] < f[u] \/ (f[s] = f[u] /\ s <= u)
      BY <1>3
    <2> QED BY <2>1, Zenon DEF Earliest
  <1>5. ASSUME NEW u \in Tasks PROVE f[Earliest(f)] <= f[u]
    BY <1>4, SMT
  <1> QED BY <1>4, <1>5

-----------------------------------------------------------------------------
(* The invariant. *)

LEMMA InitInv == TimeoutInit => TimeoutInv
  BY WordAssumption, TimeoutAssumption, SMT
     DEF TimeoutInit, TimeoutInv, TimeoutType, MinBelow, LsrInvoked, InReach, Tasks, INF, Word

\* The timeouts and what the search remembers of them.
Timeouts == [ timeout : [Tasks -> 0..INF], min : 0..INF, indx : Tasks, ended : SUBSET Tasks ]

LEMMA QuietFields ==
  ASSUME NEW o \in Timeouts
  PROVE  /\ Quiet(o) \in Timeouts
         /\ Quiet(o).timeout = o.timeout
         /\ Quiet(o).min = o.min
         /\ Quiet(o).indx = o.indx
         /\ Quiet(o).ended = {}
  BY SMT DEF Quiet, Timeouts

\* The fields of the record of timeouts after one of them is set.
LEMMA PutTimeout ==
  ASSUME NEW q \in Timeouts, NEW f \in [Tasks -> 0..INF]
  PROVE  LET r == [q EXCEPT !.timeout = f]
         IN  r \in Timeouts /\ r.timeout = f /\ r.min = q.min /\ r.ended = q.ended
  BY SMT DEF Timeouts

LEMMA PutMin ==
  ASSUME NEW q \in Timeouts, NEW n \in 0..INF
  PROVE  LET r == [q EXCEPT !.min = n]
         IN  r \in Timeouts /\ r.timeout = q.timeout /\ r.min = n /\ r.ended = q.ended
  BY SMT DEF Timeouts

LEMMA PutIndx ==
  ASSUME NEW q \in Timeouts, NEW i \in Tasks
  PROVE  LET r == [q EXCEPT !.indx = i]
         IN  r \in Timeouts /\ r.timeout = q.timeout /\ r.min = q.min /\ r.ended = q.ended
  BY SMT DEF Timeouts

LEMMA TickInv == TimeoutInv /\ Tick => TimeoutInv'
  <1> SUFFICES ASSUME TimeoutInv, Tick PROVE TimeoutInv'
    OBVIOUS
  <1>1. to \in Timeouts
    BY DEF TimeoutInv, TimeoutType, Timeouts
  <1>2. to' \in Timeouts /\ to'.timeout = to.timeout /\ to'.min = to.min
    BY <1>1, QuietFields DEF Tick
  <1>3. TimeoutType'
    BY <1>2, WordAssumption, TimeoutAssumption, SMT
       DEF TimeoutInv, TimeoutType, Tick, Timeouts
  <1>4. MinBelow'
    BY <1>2 DEF TimeoutInv, MinBelow
  <1>5. LsrInvoked'
    BY <1>1, <1>2, WordAssumption, TimeoutAssumption, SMT
       DEF TimeoutInv, TimeoutType, LsrInvoked, Tick, Timeouts, INF, Word
  <1>6. InReach'
    BY <1>1, <1>2, WordAssumption, TimeoutAssumption, SMT
       DEF TimeoutInv, TimeoutType, InReach, Tick, Timeouts, INF, Word
  <1> QED BY <1>3, <1>4, <1>5, <1>6 DEF TimeoutInv

\* The fields after smx_TimeoutSet(t, d): the sum of smx_etime and d is a word.
LEMMA SetFields ==
  ASSUME TimeoutType, NEW t \in Tasks, NEW d \in Delays, TimeoutSet(t, d)
  PROVE  /\ etime + d \in 0..(INF - 1)
         /\ to' \in Timeouts
         /\ to'.timeout = [to.timeout EXCEPT ![t] = etime + d]
         /\ to'.min = IF etime + d < to.min THEN etime + d ELSE to.min
         /\ to'.ended = {}
  <1>1. to \in Timeouts
    BY DEF TimeoutType, Timeouts
  <1>2. etime + d \in 0..(INF - 1)
    BY WordAssumption, TimeoutAssumption, SMT DEF TimeoutType, INF, Word
  <1> DEFINE q == Quiet(to)
  <1>3. /\ q \in Timeouts
        /\ q.timeout = to.timeout
        /\ q.min = to.min
        /\ q.ended = {}
    BY <1>1, QuietFields
  <1> DEFINE tmo == etime + d
             n   == IF etime + d < q.min THEN etime + d ELSE q.min
             i   == IF etime + d < to.min THEN t ELSE q.indx
  <1>4. to' = [q EXCEPT !.timeout[t] = tmo, !.min = n, !.indx = i]
    BY DEF TimeoutSet
  <1>5. n \in 0..INF /\ i \in Tasks /\ tmo \in 0..INF
    BY <1>2, <1>3, WordAssumption, SMT DEF Timeouts, INF, Word
  <1>6. /\ to' \in Timeouts
        /\ to'.timeout = [to.timeout EXCEPT ![t] = tmo]
        /\ to'.min = n
        /\ to'.ended = {}
    <2> DEFINE f == [q.timeout EXCEPT ![t] = tmo]
    <2> HIDE DEF q, n, i, tmo
    <2>1. f \in [Tasks -> 0..INF]
      BY <1>3, <1>5 DEF Timeouts
    <2> HIDE DEF f
    <2> DEFINE a == [q EXCEPT !.timeout = f]
               b == [a EXCEPT !.min = n]
    <2>2. to' = [b EXCEPT !.indx = i]
      BY <1>4 DEF f
    <2>3. a \in Timeouts /\ a.timeout = f /\ a.ended = q.ended
      BY <1>3, <2>1, PutTimeout
    <2> HIDE DEF a
    <2>4. b \in Timeouts /\ b.timeout = f /\ b.min = n /\ b.ended = q.ended
      BY <1>5, <2>3, PutMin
    <2> HIDE DEF b
    <2>5. /\ to' \in Timeouts /\ to'.timeout = f
          /\ to'.min = n /\ to'.ended = q.ended
      BY <1>5, <2>2, <2>4, PutIndx
    <2> QED BY <1>3, <2>5 DEF f
  <1> QED BY <1>2, <1>3, <1>6

LEMMA SetInv ==
  ASSUME TimeoutInv, NEW t \in Tasks, NEW d \in Delays, TimeoutSet(t, d)
  PROVE  TimeoutInv'
  <1>1. /\ etime + d \in 0..(INF - 1)
        /\ to' \in Timeouts
        /\ to'.timeout = [to.timeout EXCEPT ![t] = etime + d]
        /\ to'.min = IF etime + d < to.min THEN etime + d ELSE to.min
    BY SetFields DEF TimeoutInv
  <1>2. etime' = etime /\ pend' = pend
    BY DEF TimeoutSet
  <1>3. to \in Timeouts /\ etime \in Nat /\ INF \in Nat /\ MaxWait \in Nat /\ d \in 0..MaxWait
    BY WordAssumption, TimeoutAssumption, SMT DEF TimeoutInv, TimeoutType, Timeouts, INF, Word
  <1>4. TimeoutType'
    BY <1>1, <1>2 DEF TimeoutInv, TimeoutType, Timeouts
  <1>5. MinBelow'
    BY <1>1, <1>3, SMT DEF TimeoutInv, MinBelow, Timeouts
  <1>6. LsrInvoked'
    BY <1>1, <1>2, <1>3, SMT DEF TimeoutInv, LsrInvoked, Timeouts
  <1>7. InReach'
    BY <1>1, <1>2, <1>3, SMT DEF TimeoutInv, InReach, Timeouts
  <1> QED BY <1>4, <1>5, <1>6, <1>7 DEF TimeoutInv

LEMMA CancelFields ==
  ASSUME TimeoutType, NEW t \in Tasks, TimeoutCancel(t)
  PROVE  /\ to' \in Timeouts
         /\ to'.timeout = [to.timeout EXCEPT ![t] = INF]
         /\ to'.min = to.min
         /\ to'.ended = {}
  <1>1. to \in Timeouts
    BY DEF TimeoutType, Timeouts
  <1> DEFINE q == Quiet(to)
  <1>2. /\ q \in Timeouts
        /\ q.timeout = to.timeout
        /\ q.min = to.min
        /\ q.ended = {}
    BY <1>1, QuietFields
  <1>3. to' = [q EXCEPT !.timeout[t] = INF]
    BY DEF TimeoutCancel
  <1>4. INF \in 0..INF
    BY WordAssumption, SMT DEF INF, Word
  <1> HIDE DEF q
  <1> QED BY <1>2, <1>3, <1>4, SMT DEF Timeouts

LEMMA CancelInv ==
  ASSUME TimeoutInv, NEW t \in Tasks, TimeoutCancel(t)
  PROVE  TimeoutInv'
  <1>1. /\ to' \in Timeouts
        /\ to'.timeout = [to.timeout EXCEPT ![t] = INF]
        /\ to'.min = to.min
    BY CancelFields DEF TimeoutInv
  <1>2. etime' = etime /\ pend' = pend
    BY DEF TimeoutCancel
  <1>3. to \in Timeouts
    BY DEF TimeoutInv, TimeoutType, Timeouts
  <1>4. TimeoutType'
    BY <1>1, <1>2 DEF TimeoutInv, TimeoutType, Timeouts
  <1>5. MinBelow'
    BY <1>1, <1>3, SMT DEF TimeoutInv, MinBelow, Timeouts
  <1>6. LsrInvoked'
    BY <1>1, <1>2, SMT DEF TimeoutInv, LsrInvoked
  <1>7. InReach'
    BY <1>1, <1>2, <1>3, SMT DEF TimeoutInv, InReach, Timeouts
  <1> QED BY <1>4, <1>5, <1>6, <1>7 DEF TimeoutInv

\* What smx_TaskTimeout() makes of the timeouts o: only the task at smx_tmo_indx
\* is resumed, and only if its timeout is smx_tmo_min; the new smx_tmo_min is the
\* earliest timeout that is left, and the new smx_tmo_indx is a task that has it.
LEMMA TaskTimeoutFacts ==
  ASSUME NEW o \in Timeouts
  PROVE  /\ TaskTimeout(o) \in Timeouts
         /\ TaskTimeout(o).timeout = IF o.timeout[o.indx] = o.min
                                     THEN [o.timeout EXCEPT ![o.indx] = INF] ELSE o.timeout
         /\ TaskTimeout(o).ended = IF o.timeout[o.indx] = o.min
                                   THEN o.ended \union {o.indx} ELSE o.ended
         /\ \A u \in Tasks : TaskTimeout(o).min <= TaskTimeout(o).timeout[u]
         /\ TaskTimeout(o).timeout[TaskTimeout(o).indx] = TaskTimeout(o).min
  <1> DEFINE f == IF o.timeout[o.indx] = o.min THEN [o.timeout EXCEPT ![o.indx] = INF]
                                               ELSE o.timeout
  <1>1. f \in [Tasks -> 0..INF]
    BY WordAssumption, SMT DEF INF, Word, Timeouts
  <1>2. Earliest(f) \in Tasks /\ \A u \in Tasks : f[Earliest(f)] <= f[u]
    BY <1>1, EarliestIsLeast
  <1>3. f[Earliest(f)] \in 0..INF
    BY <1>1, <1>2
  <1>4. TaskTimeout(o) = [ timeout |-> f, min |-> f[Earliest(f)], indx |-> Earliest(f),
                           ended |-> IF o.timeout[o.indx] = o.min
                                     THEN o.ended \union {o.indx} ELSE o.ended ]
    BY DEF TaskTimeout
  <1>5. o.ended \union {o.indx} \in SUBSET Tasks /\ o.ended \in SUBSET Tasks
    BY DEF Timeouts
  <1>6. /\ TaskTimeout(o) \in Timeouts
        /\ TaskTimeout(o).timeout = f
        /\ TaskTimeout(o).min = f[Earliest(f)]
        /\ TaskTimeout(o).indx = Earliest(f)
        /\ TaskTimeout(o).ended = IF o.timeout[o.indx] = o.min
                                  THEN o.ended \union {o.indx} ELSE o.ended
    <2> HIDE DEF f
    <2> QED BY <1>1, <1>2, <1>3, <1>4, <1>5, SMT DEF Timeouts
  <1> QED BY <1>2, <1>6

\* The timeouts smx_TimeoutLSR leaves.
LEMMA LsrFields ==
  ASSUME TimeoutType, TimeoutLSR
  PROVE  /\ to' \in Timeouts
         /\ \/ /\ etime < to.min
               /\ to'.timeout = to.timeout /\ to'.ended = {} /\ to'.min = to.min
            \/ /\ etime >= to.min
               /\ to'.timeout = IF to.timeout[to.indx] = to.min
                                THEN [to.timeout EXCEPT ![to.indx] = INF] ELSE to.timeout
               /\ to'.ended = IF to.timeout[to.indx] = to.min THEN {to.indx} ELSE {}
               /\ \A u \in Tasks : to'.min <= to'.timeout[u]
  <1>1. to \in Timeouts /\ etime \in Nat /\ to.min \in Nat
    BY WordAssumption, TimeoutAssumption, SMT DEF TimeoutType, Timeouts, INF, Word
  <1> DEFINE q == Quiet(to)
  <1>2. /\ q \in Timeouts /\ q.timeout = to.timeout
        /\ q.min = to.min /\ q.indx = to.indx /\ q.ended = {}
    BY <1>1, QuietFields
  <1>3. to' = IF etime >= to.min THEN TaskTimeout(q) ELSE q
    BY DEF TimeoutLSR
  <1> HIDE DEF q
  <1>4. CASE etime >= to.min
    <2>1. to' = TaskTimeout(q)
      BY <1>3, <1>4
    <2> QED BY <1>2, <1>4, <2>1, TaskTimeoutFacts
  <1>5. CASE etime < to.min
    <2>1. to' = q
      BY <1>1, <1>3, <1>5, SMT
    <2> QED BY <1>2, <1>5, <2>1
  <1> QED BY <1>1, <1>4, <1>5, SMT

LEMMA LsrInv == TimeoutInv /\ TimeoutLSR => TimeoutInv'
  <1> SUFFICES ASSUME TimeoutInv, TimeoutLSR PROVE TimeoutInv'
    OBVIOUS
  <1>1. /\ to' \in Timeouts
        /\ \/ to'.timeout = to.timeout /\ to'.min = to.min
           \/ /\ to'.timeout = to.timeout \/ to'.timeout = [to.timeout EXCEPT ![to.indx] = INF]
              /\ \A u \in Tasks : to'.min <= to'.timeout[u]
    BY LsrFields DEF TimeoutInv
  <1>2. /\ etime' = etime
        /\ pend' = IF etime >= to'.min THEN pend ELSE pend - 1
        /\ pend > 0
    BY DEF TimeoutLSR
  <1>3. to \in Timeouts /\ etime \in Nat /\ pend \in 0..MaxPend /\ MaxPend \in Nat
    BY WordAssumption, TimeoutAssumption, SMT DEF TimeoutInv, TimeoutType, Timeouts
  <1>4. to'.min \in Nat
    BY <1>1, WordAssumption, SMT DEF Timeouts, INF, Word
  <1>5. TimeoutType'
    BY <1>1, <1>2, <1>3, SMT DEF TimeoutInv, TimeoutType, Timeouts
  <1>6. MinBelow'
    BY <1>1 DEF TimeoutInv, MinBelow
  <1>7. LsrInvoked'
    BY <1>2, <1>3, <1>4, SMT DEF LsrInvoked
  <1>8. InReach'
    BY <1>1, <1>2, <1>3, SMT DEF TimeoutInv, InReach, Timeouts
  <1> QED BY <1>5, <1>6, <1>7, <1>8 DEF TimeoutInv

\* When the idle task runs, every timeout below 0x80000000 has been dealt with:
\* the test of them in smx_EtimeRollover() never fails.
THEOREM RolloverTestHolds ==
  ASSUME TimeoutInv, pend = 0, etime >= Half
  PROVE  \A t \in Tasks : to.timeout[t] >= Half
  BY WordAssumption, TimeoutAssumption, SMT
     DEF TimeoutInv, TimeoutType, MinBelow, LsrInvoked, INF, Word

\* The rollover moves the clock and every timeout by 0x80000000.
LEMMA RolloverFields ==
  ASSUME TimeoutInv, EtimeRollover
  PROVE  /\ etime' = etime - Half
         /\ to' \in Timeouts
         /\ \A t \in Tasks : to.timeout[t] >= Half
         /\ \A t \in Tasks : to'.timeout[t] = IF to.timeout[t] = INF THEN INF
                                              ELSE to.timeout[t] - Half
         /\ to.min >= etime
         /\ to'.min = to.min - Half
         /\ to'.ended = {}
  <1>1. /\ to \in Timeouts /\ etime \in 0..(Half + Lag) /\ etime >= Half
        /\ pend = 0 /\ to.min >= etime
        /\ \A t \in Tasks : to.timeout[t] >= Half
    BY WordAssumption, TimeoutAssumption, SMT
       DEF TimeoutInv, TimeoutType, LsrInvoked, EtimeRollover, Timeouts, INF, Word
  <1> DEFINE q == Quiet(to)
             f == [t \in Tasks |-> IF q.timeout[t] = INF THEN INF ELSE Mask(q.timeout[t])]
             n == Mask(q.min)
  <1>2. /\ q \in Timeouts /\ q.timeout = to.timeout
        /\ q.min = to.min /\ q.ended = {}
    BY <1>1, QuietFields
  <1>3. to' = [q EXCEPT !.timeout = f, !.min = n]
    BY DEF EtimeRollover
  <1>4. /\ f \in [Tasks -> 0..INF]
        /\ \A t \in Tasks : f[t] = IF to.timeout[t] = INF THEN INF ELSE to.timeout[t] - Half
    <2> HIDE DEF q
    <2> QED BY <1>1, <1>2, WordAssumption, SMT DEF Timeouts, Mask, INF, Word
  <1>5. n \in 0..INF /\ n = to.min - Half
    <2> HIDE DEF q
    <2> QED BY <1>1, <1>2, WordAssumption, SMT DEF Timeouts, Mask, INF, Word
  <1>6. /\ to' \in Timeouts /\ to'.timeout = f
        /\ to'.min = n /\ to'.ended = {}
    <2> DEFINE r == [q EXCEPT !.timeout = f]
    <2> HIDE DEF q, f, n
    <2>1. r \in Timeouts /\ r.timeout = f /\ r.ended = {}
      BY <1>2, <1>4, PutTimeout
    <2>2. to' = [r EXCEPT !.min = n]
      BY <1>3
    <2> HIDE DEF r
    <2> QED BY <1>5, <2>1, <2>2, PutMin
  <1>7. etime' = etime - Half
    BY <1>1, WordAssumption, SMT DEF EtimeRollover, Mask
  <1> QED BY <1>1, <1>4, <1>5, <1>6, <1>7

LEMMA RolloverInv == TimeoutInv /\ EtimeRollover => TimeoutInv'
  <1> SUFFICES ASSUME TimeoutInv, EtimeRollover PROVE TimeoutInv'
    OBVIOUS
  <1>1. /\ etime' = etime - Half
        /\ to' \in Timeouts
        /\ \A t \in Tasks : to.timeout[t] >= Half
        /\ \A t \in Tasks : to'.timeout[t] = IF to.timeout[t] = INF THEN INF
                                             ELSE to.timeout[t] - Half
        /\ to.min >= etime
        /\ to'.min = to.min - Half
    BY RolloverFields
  <1>2. pend' = pend /\ etime >= Half
    BY DEF EtimeRollover
  <1>3. /\ to \in Timeouts /\ etime \in 0..(Half + Lag) /\ to.min \in 0..INF
        /\ \A t \in Tasks : to.timeout[t] \in 0..INF /\ to.min <= to.timeout[t]
    BY DEF TimeoutInv, TimeoutType, Timeouts, MinBelow
  <1>4. TimeoutType'
    BY <1>1, <1>2, <1>3, WordAssumption, TimeoutAssumption, SMT
       DEF TimeoutInv, TimeoutType, Timeouts
  <1>5. MinBelow'
    BY <1>1, <1>3, WordAssumption, SMT DEF MinBelow, INF, Word
  <1>6. LsrInvoked'
    BY <1>1, <1>2, <1>3, WordAssumption, SMT DEF LsrInvoked, INF, Word
  <1>7. InReach'
    BY <1>1, <1>3, WordAssumption, TimeoutAssumption, SMT DEF TimeoutInv, InReach, INF, Word
  <1> QED BY <1>4, <1>5, <1>6, <1>7 DEF TimeoutInv

LEMMA NextInv == TimeoutInv /\ [TimeoutNext]_timeoutVars => TimeoutInv'
  <1> SUFFICES ASSUME TimeoutInv, [TimeoutNext]_timeoutVars PROVE TimeoutInv'
    OBVIOUS
  <1>1. CASE Tick
    BY <1>1, TickInv
  <1>2. CASE TimeoutLSR
    BY <1>2, LsrInv
  <1>3. CASE EtimeRollover
    BY <1>3, RolloverInv
  <1>4. ASSUME NEW t \in Tasks, TimeoutCancel(t) PROVE TimeoutInv'
    BY <1>4, CancelInv
  <1>5. ASSUME NEW t \in Tasks, NEW d \in Delays, TimeoutSet(t, d) PROVE TimeoutInv'
    BY <1>5, SetInv
  <1>6. CASE UNCHANGED timeoutVars
    BY <1>6 DEF timeoutVars, TimeoutInv, TimeoutType, MinBelow, LsrInvoked, InReach
  <1> QED BY <1>1, <1>2, <1>3, <1>4, <1>5, <1>6, Zenon DEF TimeoutNext

\* smx_tmo_min is never later than a timeout, and smx_TimeoutLSR is on its way
\* when it has passed.
THEOREM TimeoutInvariance == TimeoutSpec => []TimeoutInv
  <1>1. TimeoutInit => TimeoutInv
    BY InitInv
  <1>2. TimeoutInv /\ [TimeoutNext]_timeoutVars => TimeoutInv'
    BY NextInv
  <1> QED BY <1>1, <1>2, PTL DEF TimeoutSpec

-----------------------------------------------------------------------------
(* Timeouts are kept: every step of SmxTimeout is a step of SmxTimeoutSpec  *)
(* or leaves its variables alone.                                          *)

W == [t \in Tasks |-> Wait(t)]

\* A wait with a timeout is never mistaken for one without.
LEMMA WaitFacts ==
  ASSUME TimeoutInv, NEW t \in Tasks
  PROVE  /\ to.timeout[t] \in 0..INF /\ etime \in Nat /\ INF \in Nat /\ to.min \in Nat
         /\ W[t] \in Int
         /\ W[t] = INF <=> to.timeout[t] = INF
         /\ to.timeout[t] # INF => W[t] = to.timeout[t] - etime
  BY WordAssumption, TimeoutAssumption, SMT
     DEF W, Wait, None, TimeoutInv, TimeoutType, InReach, INF, Word

LEMMA InitPromise == TimeoutInit => Promise!Init
  BY WordAssumption, TimeoutAssumption, SMT
     DEF TimeoutInit, Promise!Init, Wait, None, INF, Word

LEMMA TickPromise == ASSUME TimeoutInv, TimeoutInv', Tick PROVE Promise!Tick
  <1>1. to \in Timeouts /\ etime' = etime + 1
    BY DEF TimeoutInv, TimeoutType, Timeouts, Tick
  <1>2. to'.timeout = to.timeout /\ to'.ended = {}
    BY <1>1, QuietFields DEF Tick
  <1>3. ASSUME NEW t \in Tasks
        PROVE  Wait(t)' = IF Wait(t) # None THEN Wait(t) - 1 ELSE None
    <2>1. /\ to.timeout[t] \in Int /\ etime \in Int /\ INF \in Int
          /\ W[t] = INF <=> to.timeout[t] = INF
      BY WaitFacts, SMT
    <2> QED BY <1>1, <1>2, <2>1, SMT DEF W, Wait, None
  <1> QED BY <1>2, <1>3, Zenon DEF Promise!Tick, Promise!After, Promise!Waiting

LEMMA SetPromise ==
  ASSUME TimeoutInv, TimeoutInv', NEW t \in Tasks, NEW d \in Delays, TimeoutSet(t, d)
  PROVE  Promise!Set(t, d) /\ d \in 0..MaxWait
  <1>1. /\ etime + d \in 0..(INF - 1)
        /\ to'.timeout = [to.timeout EXCEPT ![t] = etime + d]
        /\ to'.ended = {}
    BY SetFields DEF TimeoutInv
  <1>2. etime' = etime /\ d \in 0..MaxWait /\ MaxWait \in Nat
    BY TimeoutAssumption DEF TimeoutSet
  <1>3. to \in Timeouts /\ etime \in Nat /\ INF \in Nat
    BY WordAssumption, SMT DEF TimeoutInv, TimeoutType, Timeouts, INF, Word
  <1>4. ASSUME NEW u \in Tasks
        PROVE  Wait(u)' = IF u = t THEN d ELSE Wait(u)
    BY <1>1, <1>2, <1>3, SMT DEF Wait, None, Timeouts
  <1> QED BY <1>1, <1>2, <1>4, Zenon DEF Promise!Set

LEMMA CancelPromise ==
  ASSUME TimeoutInv, NEW t \in Tasks, TimeoutCancel(t) PROVE Promise!Cancel(t)
  <1>1. to'.timeout = [to.timeout EXCEPT ![t] = INF] /\ to'.ended = {}
    BY CancelFields DEF TimeoutInv
  <1>2. etime' = etime /\ to \in Timeouts
    BY DEF TimeoutCancel, TimeoutInv, TimeoutType, Timeouts
  <1>3. ASSUME NEW u \in Tasks
        PROVE  Wait(u)' = IF u = t THEN None ELSE Wait(u)
    BY <1>1, <1>2 DEF Wait, None, Timeouts
  <1> QED BY <1>1, <1>3, Zenon DEF Promise!Cancel

LEMMA LsrPromise ==
  ASSUME TimeoutInv, TimeoutLSR
  PROVE  Promise!Rest \/ \E t \in Tasks : Promise!Expire(t)
  <1> DEFINE t == to.indx
  <1>1. to \in Timeouts /\ t \in Tasks /\ etime' = etime /\ MinBelow
    BY DEF TimeoutInv, TimeoutType, Timeouts, TimeoutLSR
  <1>2. CASE to'.timeout = to.timeout /\ to'.ended = {}
    <2>1. \A u \in Tasks : Wait(u)' = Wait(u)
      BY <1>1, <1>2 DEF Wait
    <2> QED BY <1>2, <2>1, Zenon DEF Promise!Rest
  <1>3. CASE /\ etime >= to.min /\ to.timeout[t] = to.min
             /\ to'.timeout = [to.timeout EXCEPT ![t] = INF] /\ to'.ended = {t}
    <2>1. \A u \in Tasks : Wait(u)' = IF u = t THEN None ELSE Wait(u)
      BY <1>1, <1>3 DEF Wait, None, Timeouts
    <2>2. /\ to.timeout[t] # INF
          /\ Wait(t) = to.timeout[t] - etime
          /\ Wait(t) # None
          /\ Wait(t) <= 0
      <3>1. to.timeout[t] <= etime /\ etime <= Half + Lag
        BY <1>3 DEF TimeoutInv, TimeoutType
      <3>2. to.timeout[t] # INF
        BY <1>1, <3>1, WordAssumption, TimeoutAssumption, WaitFacts, SMT DEF INF, Word
      <3>3. W[t] = Wait(t)
        BY <1>1 DEF W
      <3> QED BY <1>1, <3>1, <3>2, <3>3, WaitFacts, SMT DEF None
    <2>3. ASSUME NEW u \in Tasks, Wait(u) # None PROVE Wait(t) <= Wait(u)
      <3>1. to.timeout[t] <= to.timeout[u]
        BY <1>1, <1>3 DEF MinBelow
      <3>2. /\ to.timeout[u] \in Int /\ to.timeout[t] \in Int /\ etime \in Int
            /\ to.timeout[u] # INF /\ Wait(u) = to.timeout[u] - etime
        BY <1>1, <2>3, WaitFacts, SMT DEF W, None
      <3> QED BY <2>2, <3>1, <3>2, SMT
    <2>4. Promise!Expire(t)
      BY <1>1, <1>3, <2>1, <2>2, <2>3, Zenon DEF Promise!Expire, Promise!Waiting
    <2> QED BY <1>1, <2>4
  <1>4. \/ to'.timeout = to.timeout /\ to'.ended = {}
        \/ /\ etime >= to.min /\ to.timeout[t] = to.min
           /\ to'.timeout = [to.timeout EXCEPT ![t] = INF] /\ to'.ended = {t}
    BY LsrFields DEF TimeoutInv
  <1> QED BY <1>2, <1>3, <1>4

LEMMA RolloverPromise == ASSUME TimeoutInv, EtimeRollover PROVE Promise!Rest
  <1>1. /\ etime' = etime - Half
        /\ \A t \in Tasks : to.timeout[t] >= Half
        /\ \A t \in Tasks : to'.timeout[t] = IF to.timeout[t] = INF THEN INF
                                             ELSE to.timeout[t] - Half
        /\ to'.ended = {}
    BY RolloverFields
  <1>2. ASSUME NEW t \in Tasks PROVE Wait(t)' = Wait(t)
    <2>1. to.timeout[t] \in 0..INF /\ etime \in Nat /\ INF \in Nat
      BY WaitFacts
    <2> QED BY <1>1, <2>1, WordAssumption, SMT DEF Wait, None, INF, Word
  <1> QED BY <1>1, <1>2, Zenon DEF Promise!Rest

LEMMA NextPromise ==
  TimeoutInv /\ TimeoutInv' /\ [TimeoutNext]_timeoutVars => [Promise!Next]_(Promise!vars)
  <1> SUFFICES ASSUME TimeoutInv, TimeoutInv', [TimeoutNext]_timeoutVars
               PROVE  [Promise!Next]_(Promise!vars)
    OBVIOUS
  <1> USE DEF Promise!Next
  <1>1. CASE Tick
    BY <1>1, TickPromise
  <1>2. CASE TimeoutLSR
    BY <1>2, LsrPromise
  <1>3. CASE EtimeRollover
    BY <1>3, RolloverPromise
  <1>4. CASE \E t \in Tasks : TimeoutCancel(t)
    BY <1>4, CancelPromise
  <1>5. CASE \E t \in Tasks, d \in Delays : TimeoutSet(t, d)
    BY <1>5, SetPromise
  <1>6. CASE UNCHANGED timeoutVars
    <2>1. \A t \in Tasks : Wait(t)' = Wait(t)
      BY <1>6 DEF timeoutVars, Wait
    <2>2. to'.ended = to.ended
      BY <1>6 DEF timeoutVars
    <2> QED BY <2>1, <2>2, Zenon DEF Promise!vars
  <1> QED BY <1>1, <1>2, <1>3, <1>4, <1>5, <1>6, Zenon DEF TimeoutNext

\* Timeouts are kept: a wait ends by its timeout only when it is due, the oldest
\* first, whatever is set and cancelled meanwhile and across the rollover.
THEOREM TimeoutsKept == TimeoutSpec => TimeoutsImplement
  <1>1. TimeoutInit => Promise!Init
    BY InitPromise
  <1>2. TimeoutInv /\ TimeoutInv' /\ [TimeoutNext]_timeoutVars => [Promise!Next]_(Promise!vars)
    BY NextPromise
  <1> QED BY <1>1, <1>2, TimeoutInvariance, PTL DEF TimeoutSpec, TimeoutsImplement, Promise!Spec

-----------------------------------------------------------------------------
(* The queue of differences. *)

\* The ticks until the timer ahead of place i of the queue q expires.
Before(q, L, i) == IF i = 1 THEN 0 ELSE L[q[i - 1]]

\* With the differences d, timer t expires in L[t] ticks.
Adds(q, d, L) ==
  /\ q \in Seq(Timers) /\ Injective(q)
  /\ d \in [Timers -> 0..(Word - 1)] /\ L \in [Timers -> 0..(Word - 1)]
  /\ \A i \in 1..Len(q) : /\ Before(q, L, i) <= L[q[i]]
                          /\ d[q[i]] = L[q[i]] - Before(q, L, i)
  /\ \A t \in Timers : ~Contains(q, t) => L[t] = 0

LEMMA WordType == Word \in Nat /\ Word > 0 /\ Word - 1 \in Nat /\ Half \in Nat /\ Half > 1 /\ INF = Word - 1
  BY WordAssumption DEF Word, INF

LEMMA ModWord ==
  ASSUME NEW x \in 0..(Word - 1)
  PROVE  x % Word = x
  <1>1. Word \in Nat /\ Word > 0 /\ x \in Nat /\ x < Word
    BY WordType
  <1> QED BY ONLY <1>1

LEMMA AddsTypes ==
  ASSUME NEW q, NEW d, NEW L, Adds(q, d, L)
  PROVE  /\ Len(q) \in Nat
         /\ \A i \in 1..Len(q) :
              /\ q[i] \in Timers /\ L[q[i]] \in Nat /\ L[q[i]] < Word /\ d[q[i]] \in Nat /\ d[q[i]] < Word
              /\ Before(q, L, i) \in Nat /\ Before(q, L, i) <= L[q[i]]
              /\ d[q[i]] = L[q[i]] - Before(q, L, i)
         /\ \A t \in Timers : L[t] \in Nat /\ L[t] < Word /\ d[t] \in Nat /\ d[t] < Word
  <1>1. q \in Seq(Timers) /\ Len(q) \in Nat /\ Word \in Nat
    BY WordType DEF Adds
  <1>2. \A t \in Timers : L[t] \in Nat /\ L[t] < Word /\ d[t] \in Nat /\ d[t] < Word
    BY <1>1 DEF Adds
  <1>3. \A i \in 1..Len(q) : q[i] \in Timers
    BY <1>1
  <1>4. \A i \in 1..Len(q) : Before(q, L, i) \in Nat
    <2> SUFFICES ASSUME NEW i \in 1..Len(q) PROVE Before(q, L, i) \in Nat
      OBVIOUS
    <2>1. i # 1 => i - 1 \in 1..Len(q)
      BY <1>1
    <2> QED BY <1>2, <1>3, <2>1 DEF Before
  <1> QED BY <1>1, <1>2, <1>3, <1>4 DEF Adds

LEMMA RisesTo ==
  ASSUME NEW q, NEW d, NEW L, Adds(q, d, L), NEW i \in 1..Len(q), NEW j \in 1..Len(q), i <= j
  PROVE  L[q[i]] <= L[q[j]]
  <1> SUFFICES ASSUME ~(L[q[i]] <= L[q[j]]) PROVE FALSE
    OBVIOUS
  <1>1. Len(q) \in Nat /\ \A k \in 1..Len(q) : L[q[k]] \in Nat
    BY AddsTypes
  <1> DEFINE S == {k \in i..Len(q) : ~(L[q[i]] <= L[q[k]])}
  <1>2. S \in SUBSET Nat /\ S # {}
    BY <1>1
  <1>3. PICK k \in S : \A l \in S : k <= l
    <2> HIDE DEF S
    <2> QED BY <1>2, LeastNumber
  <1>4. k \in i..Len(q) /\ ~(L[q[i]] <= L[q[k]]) /\ k # i
    BY <1>1, <1>3
  <1>5. k - 1 \in i..Len(q) /\ ~(k <= k - 1)
    BY <1>1, <1>4
  <1>6. L[q[i]] <= L[q[k - 1]]
    BY <1>3, <1>5
  <1>7. k \in 1..Len(q) /\ k - 1 \in 1..Len(q) /\ k # 1
    BY <1>1, <1>4, <1>5
  <1>8. L[q[k - 1]] <= L[q[k]]
    BY <1>7 DEF Adds, Before
  <1> QED BY <1>1, <1>4, <1>6, <1>7, <1>8

\* The sums of the differences are the ticks left.
LEMMA SumIs ==
  ASSUME NEW m, NEW L, Adds(m.tq, m.diffcnt, L), NEW i \in 0..Len(m.tq)
  PROVE  Sum(m, i) = IF i = 0 THEN 0 ELSE L[m.tq[i]]
  <1> DEFINE q == m.tq
             d == m.diffcnt
             w == [j \in 0..i |-> IF j = 0 THEN 0 ELSE L[q[j]]]
             s == CHOOSE f : f = [j \in 0..i |-> IF j = 0 THEN 0 ELSE f[j - 1] + d[q[j]]]
  <1>0. Sum(m, i) = s[i]
    BY DEF Sum
  <1>1. /\ Len(q) \in Nat /\ i \in Nat /\ i <= Len(q)
        /\ \A j \in 1..i : L[q[j]] \in Nat /\ d[q[j]] = L[q[j]] - Before(q, L, j)
    BY AddsTypes
  <1> HIDE DEF q, d
  <1>2. w = [j \in 0..i |-> IF j = 0 THEN 0 ELSE w[j - 1] + d[q[j]]]
    <2> SUFFICES ASSUME NEW j \in 0..i, j # 0 PROVE L[q[j]] = w[j - 1] + d[q[j]]
      OBVIOUS
    <2>1. j \in 1..i /\ j - 1 \in 0..i /\ (j # 1 => j - 1 # 0 /\ j - 1 \in 1..i) /\ (j = 1 => j - 1 = 0)
      BY <1>1
    <2>2. w[j - 1] = Before(q, L, j) /\ w[j - 1] \in Nat
      BY <1>1, <2>1 DEF Before
    <2> HIDE DEF w
    <2> QED BY <1>1, <2>1, <2>2
  <1>3. s = [j \in 0..i |-> IF j = 0 THEN 0 ELSE s[j - 1] + d[q[j]]]
    <2> HIDE DEF w
    <2> QED BY <1>2, Zenon
  <1>4. \A j \in 0..i : s[j] = IF j = 0 THEN 0 ELSE s[j - 1] + d[q[j]]
    <2> HIDE DEF s
    <2> QED BY <1>3, Zenon
  <1>5. \A j \in 0..i : w[j] = IF j = 0 THEN 0 ELSE w[j - 1] + d[q[j]]
    <2> HIDE DEF w
    <2> QED BY <1>2, Zenon
  <1>6. \A j \in 0..i : w[j] = IF j = 0 THEN 0 ELSE L[q[j]]
    OBVIOUS
  <1> HIDE DEF w, s
  <1>7. ASSUME s[i] # w[i] PROVE FALSE
    <2> DEFINE S == {j \in 0..i : s[j] # w[j]}
    <2>1. S \in SUBSET Nat /\ S # {}
      BY <1>1, <1>7
    <2>2. PICK j \in S : \A k \in S : j <= k
      <3> HIDE DEF S
      <3> QED BY <2>1, LeastNumber
    <2>3. j \in 0..i /\ s[j] # w[j] /\ j # 0
      BY <1>1, <1>4, <1>5, <2>2
    <2>4. j - 1 \in 0..i /\ ~(j <= j - 1)
      BY <1>1, <2>3
    <2>5. s[j - 1] = w[j - 1]
      BY <2>2, <2>4
    <2> QED BY <1>4, <1>5, <2>3, <2>5
  <1>8. i \in 0..i
    BY <1>1
  <1> QED BY <1>0, <1>6, <1>7, <1>8 DEF q

LEMMA PositionIs ==
  ASSUME NEW m, NEW L, Adds(m.tq, m.diffcnt, L), NEW t, Contains(m.tq, t)
  PROVE  Position(m, t) \in 1..Len(m.tq) /\ m.tq[Position(m, t)] = t
  <1>1. m.tq \in Seq(Timers)
    BY DEF Adds
  <1>2. DOMAIN m.tq = 1..Len(m.tq)
    BY <1>1
  <1>3. \E i \in DOMAIN m.tq : m.tq[i] = t
    BY <1>2 DEF Contains
  <1> QED BY <1>2, <1>3, Zenon DEF Position

LEMMA LeftIs ==
  ASSUME NEW m, NEW L, Adds(m.tq, m.diffcnt, L), NEW t \in Timers
  PROVE  TimeLeft(m, t) = L[t]
  <1>1. CASE Contains(m.tq, t)
    <2>1. Position(m, t) \in 1..Len(m.tq) /\ m.tq[Position(m, t)] = t
      BY <1>1, PositionIs
    <2>2. Position(m, t) \in 0..Len(m.tq) /\ Position(m, t) # 0
      BY <2>1
    <2>3. Sum(m, Position(m, t)) = L[t]
      BY <2>1, <2>2, SumIs
    <2> QED BY <1>1, <2>3 DEF TimeLeft, IsRunning
  <1>2. CASE ~Contains(m.tq, t)
    BY <1>2 DEF TimeLeft, IsRunning, Adds
  <1> QED BY <1>1, <1>2

-----------------------------------------------------------------------------
(* What the operations of the queue do to it. *)

\* The differences once the timer at place i is out, and once t, which expires
\* in x ticks, is in place i.
DiffsWithout(q, d, i) ==
  IF i = Len(q) THEN d ELSE [d EXCEPT ![q[i + 1]] = (d[q[i + 1]] + d[q[i]]) % Word]

DiffsWith(q, d, L, i, t, x) ==
  [u \in Timers |-> IF u = t THEN x - Before(q, L, i)
                    ELSE IF i <= Len(q) /\ u = q[i] THEN d[u] - (x - Before(q, L, i)) ELSE d[u]]

LEMMA RemovalAdds ==
  ASSUME NEW q, NEW d, NEW L, Adds(q, d, L), NEW i \in 1..Len(q)
  PROVE  /\ Adds(RemoveAt(q, i), DiffsWithout(q, d, i), [L EXCEPT ![q[i]] = 0])
         /\ \A u : Contains(RemoveAt(q, i), u) <=> Contains(q, u) /\ u # q[i]
  <1> DEFINE r == RemoveAt(q, i)
             e == DiffsWithout(q, d, i)
             M == [L EXCEPT ![q[i]] = 0]
             n == Len(q)
  <1>1. /\ q \in Seq(Timers) /\ Injective(q) /\ n \in Nat /\ i \in 1..n /\ i \in Nat /\ 1 <= i /\ i <= n
        /\ d \in [Timers -> 0..(Word - 1)] /\ L \in [Timers -> 0..(Word - 1)]
    BY DEF Adds
  <1>2. \A j \in 1..n : /\ q[j] \in Timers /\ L[q[j]] \in Nat /\ L[q[j]] < Word /\ d[q[j]] \in Nat
                        /\ Before(q, L, j) \in Nat /\ Before(q, L, j) <= L[q[j]]
                        /\ d[q[j]] = L[q[j]] - Before(q, L, j)
    BY AddsTypes
  <1>3. r \in Seq(Timers) /\ Len(r) = n - 1 /\ \A j \in 1..n - 1 : r[j] = IF j < i THEN q[j] ELSE q[j + 1]
    BY <1>1, RemoveAtProperties
  <1>4. \A j, k \in 1..n : q[j] = q[k] => j = k
    BY <1>1 DEF Injective
  <1>5. Injective(r)
    <2> SUFFICES ASSUME NEW j \in 1..n - 1, NEW k \in 1..n - 1, r[j] = r[k] PROVE j = k
      BY <1>3 DEF Injective
    <2> DEFINE a == IF j < i THEN j ELSE j + 1
               b == IF k < i THEN k ELSE k + 1
    <2>1. a \in 1..n /\ b \in 1..n
      BY <1>1
    <2>2. r[j] = q[a] /\ r[k] = q[b]
      BY <1>3
    <2>3. a = b
      <3> HIDE DEF a, b, r, n
      <3> QED BY <1>4, <2>1, <2>2
    <2> QED BY <1>1, <2>3
  <1>6. \A u : Contains(r, u) <=> Contains(q, u) /\ u # q[i]
    <2>1. ASSUME NEW u, Contains(r, u) PROVE Contains(q, u) /\ u # q[i]
      <3>1. PICK j \in 1..n - 1 : r[j] = u
        BY <1>3, <2>1 DEF Contains
      <3>2. j \in 1..n /\ j + 1 \in 1..n /\ (j < i => j # i) /\ (~(j < i) => j + 1 # i)
        BY <1>1
      <3> QED BY <1>1, <1>3, <1>4, <3>1, <3>2 DEF Contains
    <2>2. ASSUME NEW u, Contains(q, u), u # q[i] PROVE Contains(r, u)
      <3>1. PICK j \in 1..n : q[j] = u
        BY <2>2 DEF Contains
      <3>2. j # i
        BY <2>2, <3>1
      <3>3. CASE j < i
        <4>1. j \in 1..n - 1
          BY <1>1, <3>3
        <4> QED BY <1>3, <3>1, <3>3, <4>1 DEF Contains
      <3>4. CASE ~(j < i)
        <4>1. j - 1 \in 1..n - 1 /\ ~(j - 1 < i) /\ (j - 1) + 1 = j
          BY <1>1, <3>2, <3>4
        <4>2. r[j - 1] = q[j]
          BY <1>3, <4>1
        <4> QED BY <1>3, <3>1, <4>1, <4>2 DEF Contains
      <3> QED BY <3>3, <3>4
    <2> QED BY <2>1, <2>2
  <1>7. M \in [Timers -> 0..(Word - 1)] /\ \A t \in Timers : M[t] = IF t = q[i] THEN 0 ELSE L[t]
    BY <1>1, <1>2, WordType
  <1>13. /\ \A j \in 1..n : j # i => q[j] # q[i]
         /\ i < n => i + 1 \in 1..n /\ \A j \in 1..n : j # i + 1 => q[j] # q[i + 1]
    <2>1. i < n => i + 1 \in 1..n
      BY <1>1
    <2> HIDE DEF n
    <2> QED BY <1>1, <1>4, <2>1
  <1>8. ASSUME i < n
        PROVE  /\ i + 1 \in 1..n /\ i + 1 # 1 /\ (i + 1) - 1 = i
               /\ (d[q[i + 1]] + d[q[i]]) % Word = L[q[i + 1]] - Before(q, L, i)
               /\ L[q[i + 1]] - Before(q, L, i) \in 0..(Word - 1)
               /\ Before(q, L, i) <= L[q[i + 1]]
    <2>1. i + 1 \in 1..n /\ i + 1 # 1 /\ (i + 1) - 1 = i
      BY <1>1, <1>8
    <2>2. Before(q, L, i + 1) = L[q[i]]
      BY <2>1 DEF Before
    <2> DEFINE x == d[q[i + 1]] + d[q[i]]
    <2>3. x = L[q[i + 1]] - Before(q, L, i) /\ x \in 0..(Word - 1) /\ Before(q, L, i) <= L[q[i + 1]]
      <3>1. /\ L[q[i]] \in Nat /\ L[q[i + 1]] \in Nat /\ L[q[i + 1]] < Word /\ Before(q, L, i) \in Nat
            /\ Before(q, L, i) <= L[q[i]] /\ L[q[i]] <= L[q[i + 1]]
            /\ d[q[i]] = L[q[i]] - Before(q, L, i) /\ d[q[i + 1]] = L[q[i + 1]] - L[q[i]]
        BY <1>1, <1>2, <2>1, <2>2
      <3> QED BY <3>1, WordType, SMTT(30)
    <2> HIDE DEF x
    <2>4. x % Word = x
      BY <2>3, ModWord
    <2> QED BY <2>1, <2>3, <2>4 DEF x
  <1>9. /\ e \in [Timers -> 0..(Word - 1)]
        /\ \A t \in Timers : e[t] = IF i < n /\ t = q[i + 1] THEN L[q[i + 1]] - Before(q, L, i) ELSE d[t]
    <2>1. CASE i = n
      <3>1. e = d /\ ~(i < n)
        BY <1>1, <2>1 DEF DiffsWithout
      <3> QED BY <1>1, <3>1
    <2>2. CASE i < n
      <3>0. i # n
        BY <1>1, <2>2
      <3>1. e = [d EXCEPT ![q[i + 1]] = L[q[i + 1]] - Before(q, L, i)]
        BY <1>8, <2>2, <3>0 DEF DiffsWithout
      <3> HIDE DEF e, n
      <3> QED BY <1>1, <1>2, <1>8, <2>2, <3>1
    <2> QED BY <1>1, <2>1, <2>2
  <1> HIDE DEF e, M, r, n
  <1>10. ASSUME NEW j \in 1..n - 1
         PROVE  Before(r, M, j) <= M[r[j]] /\ e[r[j]] = M[r[j]] - Before(r, M, j)
    <2>1. CASE j < i
      <3>1. j \in 1..n /\ j # i /\ r[j] = q[j] /\ (i < n => j # i + 1)
        BY <1>1, <1>3, <2>1
      <3>2. M[r[j]] = L[q[j]] /\ e[r[j]] = d[q[j]]
        BY <1>2, <1>7, <1>9, <1>13, <3>1
      <3>3. Before(r, M, j) = Before(q, L, j)
        <4>1. CASE j = 1
          BY <4>1 DEF Before
        <4>2. CASE j # 1
          <5>1. j - 1 \in 1..n - 1 /\ j - 1 < i /\ j - 1 \in 1..n /\ j - 1 # i
            BY <1>1, <2>1, <4>2
          <5>2. r[j - 1] = q[j - 1] /\ M[q[j - 1]] = L[q[j - 1]]
            BY <1>2, <1>3, <1>7, <1>13, <5>1
          <5> QED BY <4>2, <5>2 DEF Before
        <4> QED BY <4>1, <4>2
      <3> QED BY <1>2, <3>1, <3>2, <3>3
    <2>2. CASE j = i
      <3>1. i < n /\ r[j] = q[i + 1]
        <4>1. i < n /\ ~(j < i) /\ j + 1 = i + 1
          BY <1>1, <2>2
        <4> QED BY <1>3, <2>2, <4>1
      <3>0. i + 1 # i
        BY <1>1
      <3>2. q[i + 1] # q[i] /\ q[i + 1] \in Timers
        BY <1>2, <1>13, <3>0, <3>1
      <3>3. M[r[j]] = L[q[i + 1]] /\ e[r[j]] = L[q[i + 1]] - Before(q, L, i)
        BY <1>7, <1>9, <3>1, <3>2
      <3>4. Before(r, M, j) = Before(q, L, i)
        <4>1. CASE j = 1
          BY <2>2, <4>1 DEF Before
        <4>2. CASE j # 1
          <5>1. j - 1 \in 1..n - 1 /\ j - 1 < i /\ j - 1 \in 1..n /\ j - 1 # i
            BY <1>1, <2>2, <4>2
          <5>2. r[j - 1] = q[i - 1] /\ M[q[i - 1]] = L[q[i - 1]]
            BY <1>2, <1>3, <1>7, <1>13, <2>2, <5>1
          <5> QED BY <2>2, <4>2, <5>2 DEF Before
        <4> QED BY <4>1, <4>2
      <3> QED BY <1>8, <3>1, <3>3, <3>4
    <2>3. CASE j > i
      <3>1. /\ j + 1 \in 1..n /\ j + 1 # i /\ r[j] = q[j + 1] /\ j + 1 # i + 1 /\ j # 1
            /\ j - 1 \in 1..n - 1 /\ ~(j - 1 < i) /\ r[j - 1] = q[j] /\ (j + 1) - 1 = j /\ j + 1 # 1
            /\ j \in 1..n /\ j # i
        <4>1. /\ j + 1 \in 1..n /\ j + 1 # i /\ j + 1 # i + 1 /\ j # 1 /\ ~(j < i)
              /\ j - 1 \in 1..n - 1 /\ ~(j - 1 < i) /\ (j - 1) + 1 = j /\ (j + 1) - 1 = j /\ j + 1 # 1
              /\ j \in 1..n /\ j # i
          BY <1>1, <2>3
        <4> QED BY <1>3, <4>1
      <3>2. q[j + 1] # q[i] /\ (i < n => q[j + 1] # q[i + 1]) /\ q[j] # q[i]
        BY <1>13, <3>1
      <3>3. M[r[j]] = L[q[j + 1]] /\ e[r[j]] = d[q[j + 1]] /\ M[q[j]] = L[q[j]]
        BY <1>2, <1>7, <1>9, <3>1, <3>2
      <3>4. Before(r, M, j) = L[q[j]] /\ Before(q, L, j + 1) = L[q[j]]
        BY <3>1, <3>3 DEF Before
      <3> QED BY <1>2, <3>1, <3>3, <3>4
    <2> QED BY <1>1, <2>1, <2>2, <2>3
  <1>11. \A t \in Timers : ~Contains(r, t) => M[t] = 0
    BY <1>6, <1>7 DEF Adds
  <1>12. Adds(r, e, M)
    BY <1>3, <1>5, <1>7, <1>9, <1>10, <1>11 DEF Adds
  <1> QED BY <1>6, <1>12 DEF r, e, M

LEMMA TimersInserted ==
  ASSUME NEW q \in Seq(Timers), NEW t \in Timers, NEW i \in 1..Len(q) + 1
  PROVE  /\ InsertAt(q, i, t) \in Seq(Timers) /\ Len(InsertAt(q, i, t)) = Len(q) + 1
         /\ \A j \in 1..Len(q) + 1 : InsertAt(q, i, t)[j] = IF j < i THEN q[j]
                                                            ELSE IF j = i THEN t ELSE q[j - 1]
  BY InsertAtProperties

LEMMA InsertionAdds ==
  ASSUME NEW q, NEW d, NEW L, Adds(q, d, L), NEW t \in Timers, ~Contains(q, t),
         NEW i \in 1..Len(q) + 1, NEW x \in 0..(Word - 1),
         Before(q, L, i) <= x, i <= Len(q) => x <= L[q[i]]
  PROVE  /\ Adds(InsertAt(q, i, t), DiffsWith(q, d, L, i, t, x), [L EXCEPT ![t] = x])
         /\ \A u : Contains(InsertAt(q, i, t), u) <=> Contains(q, u) \/ u = t
  <1> DEFINE r == InsertAt(q, i, t)
             e == DiffsWith(q, d, L, i, t, x)
             M == [L EXCEPT ![t] = x]
             n == Len(q)
  <1>1. /\ q \in Seq(Timers) /\ Injective(q) /\ n \in Nat /\ i \in Nat /\ 1 <= i /\ i <= n + 1
        /\ d \in [Timers -> 0..(Word - 1)] /\ L \in [Timers -> 0..(Word - 1)]
    BY DEF Adds
  <1>2. \A j \in 1..n : /\ q[j] \in Timers /\ L[q[j]] \in Nat /\ L[q[j]] < Word /\ d[q[j]] \in Nat
                        /\ Before(q, L, j) \in Nat /\ Before(q, L, j) <= L[q[j]]
                        /\ d[q[j]] = L[q[j]] - Before(q, L, j)
    BY AddsTypes
  <1>3. r \in Seq(Timers) /\ Len(r) = n + 1
        /\ \A j \in 1..n + 1 : r[j] = IF j < i THEN q[j] ELSE IF j = i THEN t ELSE q[j - 1]
    <2>1. q \in Seq(Timers) /\ t \in Timers /\ i \in 1..Len(q) + 1
      BY <1>1
    <2>2. /\ InsertAt(q, i, t) \in Seq(Timers) /\ Len(InsertAt(q, i, t)) = Len(q) + 1
          /\ \A j \in 1..Len(q) + 1 : InsertAt(q, i, t)[j] = IF j < i THEN q[j]
                                                             ELSE IF j = i THEN t ELSE q[j - 1]
      BY <2>1, TimersInserted
    <2> HIDE DEF r
    <2> QED BY <2>2 DEF r
  <1>4. \A j, k \in 1..n : q[j] = q[k] => j = k
    BY <1>1 DEF Injective
  <1>5. Injective(r) /\ \A u : Contains(r, u) <=> Contains(q, u) \/ u = t
    BY <1>1, InsertContains
  <1>6. \A j \in 1..n : q[j] # t
    BY DEF Contains
  <1>7. M \in [Timers -> 0..(Word - 1)] /\ \A u \in Timers : M[u] = IF u = t THEN x ELSE L[u]
    BY <1>1
  <1> DEFINE b == Before(q, L, i)
  <1>8. b \in Nat /\ b <= x /\ x \in Nat /\ x < Word
    <2>1. i # 1 => i - 1 \in 1..n
      BY <1>1
    <2>2. b \in Nat
      BY <1>2, <2>1 DEF Before
    <2> QED BY <2>2, WordType
  <1>9. \A u \in Timers : e[u] = IF u = t THEN x - b ELSE IF i <= n /\ u = q[i] THEN d[u] - (x - b) ELSE d[u]
    BY DEF DiffsWith
  <1>10. i <= n => i \in 1..n /\ x <= L[q[i]] /\ d[q[i]] = L[q[i]] - b /\ L[q[i]] \in Nat /\ L[q[i]] < Word
    BY <1>1, <1>2
  <1>11. e \in [Timers -> 0..(Word - 1)]
    <2>1. ASSUME NEW u \in Timers PROVE e[u] \in 0..(Word - 1)
      <3>1. CASE u = t
        BY <1>8, <1>9, <3>1, WordType
      <3>2. CASE u # t /\ i <= n /\ u = q[i]
        <4>1. e[u] = d[q[i]] - (x - b)
          BY <1>9, <3>2
        <4> HIDE DEF e, b
        <4> QED BY <1>8, <1>10, <3>2, <4>1, WordType
      <3>3. CASE u # t /\ ~(i <= n /\ u = q[i])
        BY <1>1, <1>9, <3>3
      <3> QED BY <3>1, <3>2, <3>3
    <2>2. e = [u \in Timers |-> e[u]]
      BY DEF DiffsWith
    <2> HIDE DEF e
    <2> QED BY <2>1, <2>2
  <1> HIDE DEF e, M, r, n, b
  <1>12. ASSUME NEW j \in 1..n + 1
         PROVE  Before(r, M, j) <= M[r[j]] /\ e[r[j]] = M[r[j]] - Before(r, M, j)
    <2>1. CASE j < i
      <3>1. j \in 1..n /\ j # i /\ r[j] = q[j]
        BY <1>1, <1>3, <2>1
      <3>2. M[r[j]] = L[q[j]] /\ e[r[j]] = d[q[j]]
        BY <1>2, <1>4, <1>6, <1>7, <1>9, <1>10, <3>1
      <3>3. Before(r, M, j) = Before(q, L, j)
        <4>1. CASE j = 1
          BY <4>1 DEF Before
        <4>2. CASE j # 1
          <5>1. j - 1 \in 1..n + 1 /\ j - 1 < i /\ j - 1 \in 1..n
            BY <1>1, <2>1, <4>2
          <5>2. r[j - 1] = q[j - 1] /\ M[q[j - 1]] = L[q[j - 1]]
            BY <1>1, <1>2, <1>3, <1>6, <1>7, <5>1
          <5> QED BY <4>2, <5>2 DEF Before
        <4> QED BY <4>1, <4>2
      <3> QED BY <1>2, <3>1, <3>2, <3>3
    <2>2. CASE j = i
      <3>1. r[j] = t
        BY <1>1, <1>3, <2>2
      <3>2. M[r[j]] = x /\ e[r[j]] = x - b
        BY <1>7, <1>9, <3>1
      <3>3. Before(r, M, j) = b
        <4>1. CASE j = 1
          BY <2>2, <4>1 DEF Before, b
        <4>2. CASE j # 1
          <5>1. j - 1 \in 1..n + 1 /\ j - 1 < i /\ j - 1 \in 1..n
            BY <1>1, <2>2, <4>2
          <5>2. r[j - 1] = q[j - 1] /\ M[q[j - 1]] = L[q[j - 1]]
            BY <1>1, <1>2, <1>3, <1>6, <1>7, <5>1
          <5> QED BY <2>2, <4>2, <5>2 DEF Before, b
        <4> QED BY <4>1, <4>2
      <3> QED BY <1>8, <3>2, <3>3
    <2>3. CASE j = i + 1
      <3>1. i <= n /\ i \in 1..n /\ ~(j < i) /\ j # i /\ j - 1 = i /\ j # 1 /\ i \in 1..n + 1 /\ ~(i < i)
        BY <1>1, <2>3
      <3>2. r[j] = q[i] /\ r[j - 1] = t
        BY <1>3, <3>1
      <3>3. q[i] \in Timers /\ q[i] # t
        BY <1>2, <1>6, <3>1
      <3>4. M[r[j]] = L[q[i]] /\ e[r[j]] = d[q[i]] - (x - b) /\ Before(r, M, j) = x
        BY <1>7, <1>9, <3>1, <3>2, <3>3 DEF Before
      <3> QED BY <1>8, <1>10, <3>1, <3>4
    <2>4. CASE j > i + 1
      <3>1. /\ j - 1 \in 1..n /\ ~(j < i) /\ j # i /\ j # 1 /\ j - 1 # i /\ j - 1 # 1
            /\ j - 1 \in 1..n + 1 /\ ~(j - 1 < i) /\ (j - 1) - 1 \in 1..n
        BY <1>1, <2>4
      <3>2. r[j] = q[j - 1] /\ r[j - 1] = q[(j - 1) - 1]
        BY <1>3, <3>1
      <3>3. q[j - 1] \in Timers /\ q[j - 1] # t /\ q[(j - 1) - 1] \in Timers /\ q[(j - 1) - 1] # t
        BY <1>2, <1>6, <3>1
      <3>4. i <= n => q[j - 1] # q[i]
        BY <1>4, <1>10, <3>1
      <3>5. M[r[j]] = L[q[j - 1]] /\ e[r[j]] = d[q[j - 1]] /\ M[r[j - 1]] = L[q[(j - 1) - 1]]
        BY <1>7, <1>9, <3>2, <3>3, <3>4
      <3>6. Before(r, M, j) = L[q[(j - 1) - 1]] /\ Before(q, L, j - 1) = L[q[(j - 1) - 1]]
        BY <3>1, <3>5 DEF Before
      <3> QED BY <1>2, <3>1, <3>5, <3>6
    <2> QED BY <1>1, <2>1, <2>2, <2>3, <2>4
  <1>13. \A u \in Timers : ~Contains(r, u) => M[u] = 0
    BY <1>5, <1>7 DEF Adds
  <1>14. Adds(r, e, M)
    BY <1>3, <1>5, <1>7, <1>11, <1>12, <1>13 DEF Adds
  <1> QED BY <1>5, <1>14 DEF r, e, M

LEMMA TailAdds ==
  ASSUME NEW q, NEW d, NEW L, Adds(q, d, L), q # <<>>, L[q[1]] = 0
  PROVE  Adds(Tail(q), d, L)
  <1> DEFINE r == Tail(q)
             n == Len(q)
  <1>1. q \in Seq(Timers) /\ n \in Nat /\ n > 0 /\ Injective(q) /\ Head(q) = q[1]
    BY DEF Adds
  <1>2. r \in Seq(Timers) /\ Injective(r) /\ \A u : Contains(r, u) <=> Contains(q, u) /\ u # q[1]
    BY <1>1, TailContains
  <1>3. Len(r) = n - 1 /\ \A j \in 1..n - 1 : r[j] = q[j + 1]
    BY <1>1
  <1>4. ASSUME NEW j \in 1..n - 1
        PROVE  Before(r, L, j) <= L[r[j]] /\ d[r[j]] = L[r[j]] - Before(r, L, j)
    <2>1. j + 1 \in 1..n /\ j + 1 # 1 /\ (j + 1) - 1 = j /\ r[j] = q[j + 1]
      BY <1>1, <1>3
    <2>2. Before(r, L, j) = L[q[j]]
      <3>1. CASE j = 1
        BY <3>1 DEF Before
      <3>2. CASE j # 1
        <4>1. j - 1 \in 1..n - 1 /\ (j - 1) + 1 = j
          BY <1>1, <3>2
        <4>2. r[j - 1] = q[j]
          BY <1>3, <4>1
        <4> QED BY <3>2, <4>2 DEF Before
      <3> QED BY <3>1, <3>2
    <2>3. Before(q, L, j + 1) = L[q[j]]
      BY <2>1 DEF Before
    <2> HIDE DEF r, n
    <2> QED BY <2>1, <2>2, <2>3 DEF Adds, n
  <1>5. ASSUME NEW t \in Timers, ~Contains(r, t) PROVE L[t] = 0
    <2>1. ~Contains(q, t) \/ t = q[1]
      BY <1>2, <1>5
    <2> QED BY <2>1 DEF Adds
  <1> HIDE DEF r, n
  <1>6. d \in [Timers -> 0..(Word - 1)] /\ L \in [Timers -> 0..(Word - 1)]
    BY DEF Adds
  <1> QED BY <1>2, <1>3, <1>4, <1>5, <1>6 DEF Adds, r, n

\* n ticks pass; no timer has less than n left.
ShiftedDiffs(q, d, n) == [d EXCEPT ![q[1]] = (d[q[1]] - n) % Word]

Shifted(q, L, n) == [t \in Timers |-> IF Contains(q, t) THEN L[t] - n ELSE 0]

LEMMA ShiftAdds ==
  ASSUME NEW q, NEW d, NEW L, Adds(q, d, L), q # <<>>, NEW n \in Nat, n <= L[q[1]]
  PROVE  /\ Adds(q, ShiftedDiffs(q, d, n), Shifted(q, L, n))
         /\ \A t \in Timers : Contains(q, t) => L[t] >= n
  <1> DEFINE e == ShiftedDiffs(q, d, n)
             M == Shifted(q, L, n)
  <1>1. /\ q \in Seq(Timers) /\ Len(q) \in Nat /\ Len(q) > 0 /\ Injective(q) /\ 1 \in 1..Len(q)
        /\ d \in [Timers -> 0..(Word - 1)] /\ L \in [Timers -> 0..(Word - 1)]
    BY DEF Adds
  <1>2. \A j \in 1..Len(q) : /\ q[j] \in Timers /\ L[q[j]] \in Nat /\ L[q[j]] < Word
                             /\ Before(q, L, j) \in Nat /\ Before(q, L, j) <= L[q[j]]
                             /\ d[q[j]] = L[q[j]] - Before(q, L, j)
    BY AddsTypes
  <1>3. \A j \in 1..Len(q) : L[q[j]] >= n
    <2> SUFFICES ASSUME NEW j \in 1..Len(q) PROVE L[q[j]] >= n
      OBVIOUS
    <2>1. 1 <= j
      BY <1>1
    <2>2. L[q[1]] <= L[q[j]]
      BY <1>1, <2>1, RisesTo
    <2> QED BY <1>1, <1>2, <2>2
  <1>4. \A t \in Timers : Contains(q, t) => L[t] >= n
    BY <1>3 DEF Contains
  <1>5. d[q[1]] = L[q[1]] /\ (d[q[1]] - n) % Word = L[q[1]] - n /\ L[q[1]] - n \in 0..(Word - 1)
    <2>1. d[q[1]] = L[q[1]] - 0
      BY <1>1, <1>2 DEF Before
    <2>2. d[q[1]] = L[q[1]] /\ L[q[1]] - n \in 0..(Word - 1)
      BY <1>1, <1>2, <2>1, WordType
    <2> QED BY <2>2, ModWord
  <1>6. /\ e \in [Timers -> 0..(Word - 1)]
        /\ \A t \in Timers : e[t] = IF t = q[1] THEN L[q[1]] - n ELSE d[t]
    <2>1. e = [d EXCEPT ![q[1]] = L[q[1]] - n]
      BY <1>5 DEF ShiftedDiffs
    <2> HIDE DEF e
    <2> QED BY <1>1, <1>5, <2>1
  <1>7. \A t \in Timers : M[t] = IF Contains(q, t) THEN L[t] - n ELSE 0
    BY DEF Shifted
  <1>8. M \in [Timers -> 0..(Word - 1)]
    <2>1. \A t \in Timers : M[t] \in 0..(Word - 1)
      <3> SUFFICES ASSUME NEW t \in Timers PROVE M[t] \in 0..(Word - 1)
        OBVIOUS
      <3>1. L[t] \in Nat /\ L[t] < Word
        BY AddsTypes
      <3> HIDE DEF M
      <3> QED BY <1>4, <1>7, <3>1, WordType
    <2>2. M = [t \in Timers |-> M[t]]
      BY DEF Shifted
    <2> HIDE DEF M
    <2> QED BY <2>1, <2>2
  <1>9. \A j \in 1..Len(q) : M[q[j]] = L[q[j]] - n
    BY <1>2, <1>7 DEF Contains
  <1> HIDE DEF e, M
  <1>10. ASSUME NEW j \in 1..Len(q)
         PROVE  Before(q, M, j) <= M[q[j]] /\ e[q[j]] = M[q[j]] - Before(q, M, j)
    <2>1. CASE j = 1
      <3>1. Before(q, M, j) = 0 /\ e[q[j]] = L[q[1]] - n /\ M[q[j]] = L[q[1]] - n
        BY <1>2, <1>6, <1>9, <2>1 DEF Before
      <3> QED BY <1>1, <1>2, <1>3, <2>1, <3>1
    <2>2. CASE j # 1
      <3>1. j - 1 \in 1..Len(q)
        BY <1>1, <2>2
      <3>2. q[j] # q[1]
        BY <1>1, <2>2 DEF Injective
      <3>3. /\ Before(q, M, j) = L[q[j - 1]] - n /\ Before(q, L, j) = L[q[j - 1]]
            /\ e[q[j]] = d[q[j]] /\ M[q[j]] = L[q[j]] - n
        BY <1>2, <1>6, <1>9, <2>2, <3>1, <3>2 DEF Before
      <3> QED BY <1>2, <3>1, <3>3
    <2> QED BY <2>1, <2>2
  <1>11. Adds(q, e, M)
    BY <1>1, <1>6, <1>7, <1>8, <1>10 DEF Adds
  <1> QED BY <1>4, <1>11 DEF e, M

-----------------------------------------------------------------------------
(* The record of timers. *)

SameFields(r, m) == /\ r.period = m.period /\ r.width = m.width /\ r.nxtdly = m.nxtdly
                    /\ r.state = m.state /\ r.fired = m.fired

\* The timers m expire in L ticks.
Queue(m, L) == m \in TimersType /\ Adds(m.tq, m.diffcnt, L)

LEMMA TimersFields ==
  ASSUME NEW m \in TimersType
  PROVE  /\ m.tq \in Seq(Timers)
         /\ m.diffcnt \in [Timers -> 0..(Word - 1)] /\ m.period \in [Timers -> 0..(Word - 1)]
         /\ m.width \in [Timers -> 0..(Word - 1)] /\ m.nxtdly \in [Timers -> 0..(Word - 1)]
         /\ m.state \in [Timers -> {"LO", "HI"}] /\ m.fired \in [Timers -> Nat]
  BY DEF TimersType

LEMMA PutQueue ==
  ASSUME NEW m \in TimersType, NEW q \in Seq(Timers), NEW d \in [Timers -> 0..(Word - 1)],
         NEW r, r = [m EXCEPT !.tq = q, !.diffcnt = d]
  PROVE  r \in TimersType /\ r.tq = q /\ r.diffcnt = d /\ SameFields(r, m)
  BY DEF TimersType, SameFields

LEMMA DQTimerIs ==
  ASSUME NEW m, NEW L, Queue(m, L), NEW t \in Timers, Contains(m.tq, t), NEW r, r = DQTimer(m, t)
  PROVE  /\ Queue(r, [L EXCEPT ![t] = 0]) /\ SameFields(r, m)
         /\ \A u : Contains(r.tq, u) <=> Contains(m.tq, u) /\ u # t
  <1> DEFINE i == Position(m, t)
             q == RemoveAt(m.tq, i)
             d == DiffsWithout(m.tq, m.diffcnt, i)
  <1>1. m \in TimersType /\ Adds(m.tq, m.diffcnt, L)
    BY DEF Queue
  <1>2. i \in 1..Len(m.tq) /\ m.tq[i] = t
    BY <1>1, PositionIs
  <1>3. r = [m EXCEPT !.tq = q, !.diffcnt = d]
    <2>1. CASE i = Len(m.tq)
      <3>1. r = [m EXCEPT !.tq = q] /\ d = m.diffcnt
        BY <2>1 DEF DQTimer, DiffsWithout
      <3> HIDE DEF q, d
      <3> QED BY <1>1, <3>1 DEF TimersType
    <2>2. CASE i # Len(m.tq)
      <3>1. r = [m EXCEPT !.tq = q, !.diffcnt[m.tq[i + 1]] = (@ + m.diffcnt[t]) % Word]
        BY <2>2 DEF DQTimer
      <3>2. d = [m.diffcnt EXCEPT ![m.tq[i + 1]] = (m.diffcnt[m.tq[i + 1]] + m.diffcnt[t]) % Word]
        BY <1>2, <2>2 DEF DiffsWithout
      <3> DEFINE u == m.tq[i + 1]
      <3> HIDE DEF q, d, u
      <3> QED BY <1>1, <3>1, <3>2 DEF TimersType, u
    <2> QED BY <2>1, <2>2
  <1>4. Adds(q, d, [L EXCEPT ![t] = 0]) /\ \A u : Contains(q, u) <=> Contains(m.tq, u) /\ u # t
    BY <1>1, <1>2, RemovalAdds
  <1>5. q \in Seq(Timers) /\ d \in [Timers -> 0..(Word - 1)]
    BY <1>4 DEF Adds
  <1>6. r \in TimersType /\ r.tq = q /\ r.diffcnt = d /\ SameFields(r, m)
    <2> HIDE DEF q, d
    <2> QED BY <1>1, <1>3, <1>5, PutQueue
  <1> QED BY <1>4, <1>6 DEF Queue

LEMMA NQTimerIs ==
  ASSUME NEW m, NEW L, Queue(m, L), NEW t \in Timers, ~Contains(m.tq, t), NEW x \in 0..(Word - 1),
         NEW r, r = NQTimer(m, t, x)
  PROVE  /\ Queue(r, [L EXCEPT ![t] = x]) /\ SameFields(r, m)
         /\ \A u : Contains(r.tq, u) <=> Contains(m.tq, u) \/ u = t
  <1> DEFINE n == Len(m.tq)
             S == {j \in DOMAIN m.tq : x < Sum(m, j)} \union {n + 1}
             i == Min(S)
             q == InsertAt(m.tq, i, t)
             d == DiffsWith(m.tq, m.diffcnt, L, i, t, x)
  <1>1. /\ m \in TimersType /\ Adds(m.tq, m.diffcnt, L) /\ n \in Nat /\ DOMAIN m.tq = 1..n
        /\ x \in Nat
    BY TimersFields, WordType DEF Queue
  <1>2. \A j \in 1..n : Sum(m, j) = L[m.tq[j]] /\ L[m.tq[j]] \in Nat
    <2> SUFFICES ASSUME NEW j \in 1..n PROVE Sum(m, j) = L[m.tq[j]] /\ L[m.tq[j]] \in Nat
      OBVIOUS
    <2>1. j \in 0..n /\ j # 0
      BY <1>1
    <2> QED BY <1>1, <2>1, SumIs, AddsTypes
  <1>3. \A j : j \in S <=> (j \in 1..n /\ x < L[m.tq[j]]) \/ j = n + 1
    BY <1>1, <1>2
  <1>4. i \in S /\ \A j \in S : i <= j
    <2>1. S \in SUBSET Nat /\ S # {}
      BY <1>1
    <2>2. i = Min(S)
      OBVIOUS
    <2> HIDE DEF S, i
    <2> QED BY <2>1, <2>2, MinProperties
  <1> HIDE DEF S, i
  <1>5. i \in 1..n + 1 /\ (i <= n => x <= L[m.tq[i]])
    BY <1>1, <1>2, <1>3, <1>4
  <1>6. i \in Nat /\ 1 <= i /\ i - 1 \in 0..n /\ (i # 1 => i - 1 \in 1..n)
    BY <1>1, <1>5
  <1>7. Before(m.tq, L, i) = Sum(m, i - 1) /\ Before(m.tq, L, i) <= x
    <2>1. CASE i = 1
      <3>0. i - 1 = 0 /\ 0 \in 0..n
        BY <1>1, <2>1
      <3>1. Sum(m, i - 1) = 0
        BY <1>1, <3>0, SumIs
      <3> QED BY <1>1, <2>1, <3>1 DEF Before
    <2>2. CASE i # 1
      <3>1. i - 1 \notin S
        BY <1>4, <1>6
      <3>2. ~(x < L[m.tq[i - 1]])
        BY <1>3, <1>6, <2>2, <3>1
      <3> QED BY <1>1, <1>2, <1>6, <2>2, <3>2 DEF Before
    <2> QED BY <2>1, <2>2
  <1>8. r = [m EXCEPT !.tq = q, !.diffcnt = d]
    <2>1. r = [m EXCEPT !.tq = q,
                        !.diffcnt = [u \in Timers |->
                                       IF u = t THEN x - Sum(m, i - 1)
                                       ELSE IF i <= n /\ u = m.tq[i] THEN m.diffcnt[u] - (x - Sum(m, i - 1))
                                       ELSE m.diffcnt[u]]]
      BY Zenon DEF NQTimer, i, S
    <2> QED BY <1>7, <2>1, Zenon DEF DiffsWith
  <1>9. Adds(q, d, [L EXCEPT ![t] = x]) /\ \A u : Contains(q, u) <=> Contains(m.tq, u) \/ u = t
    BY <1>1, <1>5, <1>7, InsertionAdds
  <1>10. q \in Seq(Timers) /\ d \in [Timers -> 0..(Word - 1)]
    BY <1>9 DEF Adds
  <1>11. r \in TimersType /\ r.tq = q /\ r.diffcnt = d /\ SameFields(r, m)
    <2> HIDE DEF q, d
    <2> QED BY <1>1, <1>8, <1>10, PutQueue
  <1> QED BY <1>9, <1>11 DEF Queue

LEMMA AdvanceIs ==
  ASSUME NEW m, NEW L, Queue(m, L), NEW n \in Nat, m.tq # <<>> => n <= L[m.tq[1]], NEW r, r = Advance(m, n)
  PROVE  /\ Queue(r, Shifted(m.tq, L, n)) /\ SameFields(r, m) /\ r.tq = m.tq
         /\ \A t \in Timers : Contains(m.tq, t) => L[t] >= n
  <1>1. m \in TimersType /\ Adds(m.tq, m.diffcnt, L) /\ m.tq \in Seq(Timers)
    BY DEF Queue, Adds
  <1>2. CASE m.tq = <<>>
    <2>1. \A u : ~Contains(m.tq, u)
      BY <1>2 DEF Contains
    <2>2. L = Shifted(m.tq, L, n)
      <3>1. \A t \in Timers : L[t] = Shifted(m.tq, L, n)[t]
        BY <1>1, <2>1 DEF Adds, Shifted
      <3> QED BY <1>1, <3>1 DEF Adds, Shifted
    <2>3. r = m
      BY <1>2 DEF Advance
    <2> QED BY <2>1, <2>2, <2>3 DEF SameFields
  <1>3. CASE m.tq # <<>>
    <2> DEFINE d == ShiftedDiffs(m.tq, m.diffcnt, n)
    <2>0. Head(m.tq) = m.tq[1]
      BY <1>1, <1>3
    <2>1. r = [m EXCEPT !.diffcnt[m.tq[1]] = (@ - n) % Word]
      BY <1>3, <2>0 DEF Advance
    <2>2. r = [m EXCEPT !.tq = m.tq, !.diffcnt = d]
      <3> DEFINE u == m.tq[1]
      <3> HIDE DEF u
      <3> QED BY <1>1, <2>1 DEF TimersType, ShiftedDiffs, u
    <2>3. Adds(m.tq, d, Shifted(m.tq, L, n)) /\ \A t \in Timers : Contains(m.tq, t) => L[t] >= n
      BY <1>1, <1>3, ShiftAdds
    <2>4. d \in [Timers -> 0..(Word - 1)]
      BY <2>3 DEF Adds
    <2>5. r \in TimersType /\ r.tq = m.tq /\ r.diffcnt = d /\ SameFields(r, m)
      <3> HIDE DEF d
      <3> QED BY <1>1, <2>2, <2>4, PutQueue
    <2> QED BY <2>3, <2>5 DEF Queue
  <1> QED BY <1>2, <1>3

-----------------------------------------------------------------------------
(* A timer expires. *)

\* Timer t as its abstract specification has it.
View(m, L, t) == [ left |-> L[t], period |-> m.period[t], width |-> m.width[t],
                   next |-> m.nxtdly[t], state |-> m.state[t], fired |-> m.fired[t] ]

\* What keeps a delay from being 0, or less.
Phases(m) ==
  \A t \in Timers :
    /\ ~Contains(m.tq, t) => /\ m.period[t] = 0 /\ m.width[t] = 0 /\ m.nxtdly[t] = 0
                             /\ m.state[t] = "LO"
    /\ Contains(m.tq, t) =>
         /\ (m.period[t] = 0 => m.nxtdly[t] > 0)
         /\ (m.period[t] > 0 => m.width[t] < m.period[t])
         /\ (m.period[t] > 0 /\ m.width[t] > 0 => m.nxtdly[t] > 0)
         /\ (m.state[t] = "HI" => m.nxtdly[t] > 0)

Sane(m, L) == Queue(m, L) /\ Phases(m)

\* The timers that are due.
Due(m, L) == {t \in Timers : Contains(m.tq, t) /\ L[t] = 0}

Same(r, R, m, L, t) == /\ View(r, R, t) = View(m, L, t)
                       /\ Contains(r.tq, t) <=> Contains(m.tq, t)

LEMMA ZeroIsAWord == 0 \in 0..(Word - 1)
  BY WordType

LEMMA SaneFields ==
  ASSUME NEW m, NEW L, Queue(m, L), NEW t \in Timers
  PROVE  /\ m \in TimersType /\ L[t] \in Nat /\ L[t] < Word /\ L \in [Timers -> 0..(Word - 1)]
         /\ m.diffcnt[t] \in 0..(Word - 1) /\ m.period[t] \in 0..(Word - 1)
         /\ m.width[t] \in 0..(Word - 1) /\ m.nxtdly[t] \in 0..(Word - 1)
         /\ m.period[t] \in Nat /\ m.width[t] \in Nat /\ m.nxtdly[t] \in Nat
         /\ m.period[t] < Word /\ m.width[t] < Word /\ m.nxtdly[t] < Word
         /\ m.state[t] \in {"LO", "HI"} /\ m.fired[t] \in Nat
  <1>1. m \in TimersType /\ Adds(m.tq, m.diffcnt, L)
    BY DEF Queue
  <1>2. /\ m.diffcnt[t] \in 0..(Word - 1) /\ m.period[t] \in 0..(Word - 1)
        /\ m.width[t] \in 0..(Word - 1) /\ m.nxtdly[t] \in 0..(Word - 1)
        /\ m.state[t] \in {"LO", "HI"} /\ m.fired[t] \in Nat
    BY <1>1, TimersFields
  <1>3. L[t] \in Nat /\ L[t] < Word /\ L \in [Timers -> 0..(Word - 1)]
    BY <1>1, AddsTypes DEF Adds
  <1> QED BY <1>1, <1>2, <1>3, WordType

Taken(m, t) == [m EXCEPT !.tq = Tail(@), !.fired[t] = @ + 1]

LEMMA TakeFirstIs ==
  ASSUME NEW m, NEW L, Queue(m, L), m.tq # <<>>, NEW t, t = m.tq[1], L[t] = 0,
         NEW r, r = Taken(m, t)
  PROVE  /\ Queue(r, L) /\ t \in Timers /\ Head(m.tq) = t /\ Contains(m.tq, t)
         /\ \A u : Contains(r.tq, u) <=> Contains(m.tq, u) /\ u # t
         /\ r.period = m.period /\ r.width = m.width /\ r.nxtdly = m.nxtdly /\ r.state = m.state
         /\ r.fired[t] = m.fired[t] + 1 /\ \A u \in Timers : u # t => r.fired[u] = m.fired[u]
  <1>1. m \in TimersType /\ Adds(m.tq, m.diffcnt, L) /\ m.tq \in Seq(Timers) /\ Injective(m.tq)
    BY DEF Queue, Adds
  <1>2. Head(m.tq) = t /\ t \in Timers
    BY <1>1
  <1>3. Adds(Tail(m.tq), m.diffcnt, L)
    BY <1>1, TailAdds
  <1>4. /\ Tail(m.tq) \in Seq(Timers) /\ Contains(m.tq, Head(m.tq))
        /\ \A u : Contains(Tail(m.tq), u) <=> Contains(m.tq, u) /\ u # Head(m.tq)
    BY <1>1, TailContains
  <1> DEFINE q == Tail(m.tq)
             f == [m.fired EXCEPT ![t] = @ + 1]
  <1>5. f \in [Timers -> Nat] /\ f[t] = m.fired[t] + 1 /\ \A u \in Timers : u # t => f[u] = m.fired[u]
    BY <1>1, <1>2, TimersFields
  <1>6. r = [m EXCEPT !.tq = q, !.fired = f]
    BY <1>1 DEF TimersType, Taken
  <1> HIDE DEF q, f
  <1>7. /\ r \in TimersType /\ r.tq = q /\ r.diffcnt = m.diffcnt /\ r.fired = f
        /\ r.period = m.period /\ r.width = m.width /\ r.nxtdly = m.nxtdly /\ r.state = m.state
    BY <1>1, <1>4, <1>5, <1>6 DEF TimersType, q
  <1> QED BY <1>2, <1>3, <1>4, <1>5, <1>7 DEF Queue, q

LEMMA ReleaseIs ==
  ASSUME NEW m, NEW L, Queue(m, L), NEW t \in Timers, ~Contains(m.tq, t), NEW r, r = Release(m, t)
  PROVE  /\ Queue(r, L) /\ r.tq = m.tq /\ r.fired = m.fired
         /\ r.period[t] = 0 /\ r.width[t] = 0 /\ r.nxtdly[t] = 0 /\ r.state[t] = "LO"
         /\ \A u \in Timers : u # t => /\ r.period[u] = m.period[u] /\ r.width[u] = m.width[u]
                                       /\ r.nxtdly[u] = m.nxtdly[u] /\ r.state[u] = m.state[u]
  <1>1. m \in TimersType /\ Adds(m.tq, m.diffcnt, L)
    BY DEF Queue
  <1> DEFINE d == [m.diffcnt EXCEPT ![t] = 0]
             p == [m.period EXCEPT ![t] = 0]
             w == [m.width EXCEPT ![t] = 0]
             x == [m.nxtdly EXCEPT ![t] = 0]
             s == [m.state EXCEPT ![t] = "LO"]
  <1>2. r = [m EXCEPT !.diffcnt = d, !.period = p, !.width = w, !.nxtdly = x, !.state = s]
    BY <1>1 DEF Release, TimersType
  <1>3. /\ d \in [Timers -> 0..(Word - 1)] /\ \A u \in Timers : u # t => d[u] = m.diffcnt[u]
        /\ p \in [Timers -> 0..(Word - 1)] /\ w \in [Timers -> 0..(Word - 1)]
        /\ x \in [Timers -> 0..(Word - 1)] /\ s \in [Timers -> {"LO", "HI"}]
    BY <1>1, TimersFields, ZeroIsAWord
  <1>4. /\ p[t] = 0 /\ w[t] = 0 /\ x[t] = 0 /\ s[t] = "LO"
        /\ \A u \in Timers : u # t => /\ p[u] = m.period[u] /\ w[u] = m.width[u]
                                      /\ x[u] = m.nxtdly[u] /\ s[u] = m.state[u]
    BY <1>1, TimersFields
  <1> HIDE DEF d, p, w, x, s
  <1>5. /\ r \in TimersType /\ r.tq = m.tq /\ r.diffcnt = d /\ r.period = p /\ r.width = w
        /\ r.nxtdly = x /\ r.state = s /\ r.fired = m.fired
    BY <1>1, <1>2, <1>3 DEF TimersType
  <1>6. Adds(m.tq, d, L)
    <2>1. \A i \in 1..Len(m.tq) : m.tq[i] # t /\ m.tq[i] \in Timers
      BY <1>1, AddsTypes DEF Contains
    <2> QED BY <1>1, <1>3, <2>1 DEF Adds
  <1> QED BY <1>4, <1>5, <1>6 DEF Queue

\* A cyclic timer begins its next period or, if it has pulses, its next phase.
PhaseState(m, t) == IF m.width[t] = 0 THEN m.state[t] ELSE IF m.state[t] = "HI" THEN "LO" ELSE "HI"

PhaseNext(m, t) == IF m.width[t] = 0 THEN m.nxtdly[t]
                   ELSE IF m.state[t] = "HI" THEN m.width[t] ELSE m.period[t] - m.width[t]

PhaseLeft(m, t) == IF m.width[t] = 0 THEN m.period[t] ELSE m.nxtdly[t]

Requeued(r, m, L, t) ==
  /\ Queue(r, [L EXCEPT ![t] = PhaseLeft(m, t)])
  /\ \A u : Contains(r.tq, u) <=> Contains(m.tq, u) \/ u = t
  /\ r.period = m.period /\ r.width = m.width /\ r.fired = m.fired
  /\ r.state[t] = PhaseState(m, t) /\ r.nxtdly[t] = PhaseNext(m, t)
  /\ \A u \in Timers : u # t => r.nxtdly[u] = m.nxtdly[u] /\ r.state[u] = m.state[u]

LEMMA RequeueIs ==
  ASSUME NEW m, NEW L, Queue(m, L), NEW t \in Timers, ~Contains(m.tq, t),
         m.width[t] < m.period[t], NEW r, r = Requeue(m, t)
  PROVE  Requeued(r, m, L, t)
  <1>1. m \in TimersType /\ Adds(m.tq, m.diffcnt, L)
    BY DEF Queue
  <1>2. /\ m.period[t] \in 0..(Word - 1) /\ m.width[t] \in Nat /\ m.nxtdly[t] \in 0..(Word - 1)
        /\ m.period[t] \in Nat /\ m.width[t] \in 0..(Word - 1) /\ m.state[t] \in {"LO", "HI"}
    BY SaneFields
  <1>3. CASE m.width[t] = 0
    <2>1. r = NQTimer(m, t, m.period[t])
      BY <1>3 DEF Requeue
    <2>2. /\ Queue(r, [L EXCEPT ![t] = m.period[t]]) /\ SameFields(r, m)
          /\ \A u : Contains(r.tq, u) <=> Contains(m.tq, u) \/ u = t
      BY <1>2, <2>1, NQTimerIs
    <2> QED BY <1>3, <2>2 DEF Requeued, SameFields, PhaseLeft, PhaseState, PhaseNext
  <1>4. CASE m.width[t] # 0
    <2> DEFINE s == [m.state EXCEPT ![t] = PhaseState(m, t)]
               x == [m.nxtdly EXCEPT ![t] = PhaseNext(m, t)]
               m1 == [m EXCEPT !.state = s, !.nxtdly = x]
    <2>1. /\ (m.period[t] - m.width[t]) % Word = m.period[t] - m.width[t]
          /\ m.period[t] - m.width[t] \in 0..(Word - 1)
      <3>1. m.period[t] - m.width[t] \in 0..(Word - 1)
        BY <1>2, WordType
      <3> QED BY <3>1, ModWord
    <2>2. r = NQTimer(m1, t, m.nxtdly[t])
      <3> DEFINE state == IF m.state[t] = "HI" THEN "LO" ELSE "HI"
                 next == IF state = "HI" THEN m.period[t] - m.width[t] ELSE m.width[t]
      <3>1. r = NQTimer([m EXCEPT !.state[t] = state, !.nxtdly[t] = next], t, m.nxtdly[t])
        BY <1>4, <2>1 DEF Requeue
      <3>2. state = PhaseState(m, t) /\ next = PhaseNext(m, t)
        BY <1>2, <1>4 DEF PhaseState, PhaseNext
      <3> HIDE DEF state, next
      <3>3. [m EXCEPT !.state[t] = state, !.nxtdly[t] = next] = m1
        BY <1>1, <3>2 DEF TimersType
      <3> QED BY <3>1, <3>3
    <2>3. PhaseState(m, t) \in {"LO", "HI"} /\ PhaseNext(m, t) \in 0..(Word - 1)
      BY <1>2, <2>1 DEF PhaseState, PhaseNext
    <2>4. /\ s \in [Timers -> {"LO", "HI"}] /\ x \in [Timers -> 0..(Word - 1)]
          /\ s[t] = PhaseState(m, t) /\ x[t] = PhaseNext(m, t)
          /\ \A u \in Timers : u # t => x[u] = m.nxtdly[u] /\ s[u] = m.state[u]
      BY <1>1, <2>3, TimersFields
    <2> HIDE DEF s, x
    <2>5. /\ m1 \in TimersType /\ m1.tq = m.tq /\ m1.diffcnt = m.diffcnt /\ m1.period = m.period
          /\ m1.width = m.width /\ m1.nxtdly = x /\ m1.state = s /\ m1.fired = m.fired
      BY <1>1, <2>4 DEF TimersType
    <2> HIDE DEF m1
    <2>6. Queue(m1, L) /\ ~Contains(m1.tq, t)
      BY <1>1, <2>5 DEF Queue
    <2>7. /\ Queue(r, [L EXCEPT ![t] = m.nxtdly[t]]) /\ SameFields(r, m1)
          /\ \A u : Contains(r.tq, u) <=> Contains(m1.tq, u) \/ u = t
      BY <1>2, <2>2, <2>6, NQTimerIs
    <2> QED BY <1>4, <2>4, <2>5, <2>7 DEF Requeued, SameFields, PhaseLeft
  <1> QED BY <1>3, <1>4

LEMMA NextPeriod ==
  ASSUME NEW l, NEW p, NEW w, NEW x, NEW s, NEW f, NEW n, NEW r, NEW e,
         r = [left |-> l, period |-> p, width |-> w, next |-> x, state |-> s, fired |-> f],
         e = [r EXCEPT !.left = p, !.fired = n]
  PROVE  e = [left |-> p, period |-> p, width |-> w, next |-> x, state |-> s, fired |-> n]
  <1>1. e.left = p /\ e.period = p /\ e.width = w /\ e.next = x /\ e.state = s /\ e.fired = n
    OBVIOUS
  <1>2. e \in [left : {p}, period : {p}, width : {w}, next : {x}, state : {s}, fired : {n}]
    OBVIOUS
  <1> QED BY <1>2

LEMMA NextPhase ==
  ASSUME NEW l, NEW p, NEW w, NEW x, NEW s, NEW f, NEW n, NEW c, NEW y, NEW r, NEW e,
         r = [left |-> l, period |-> p, width |-> w, next |-> x, state |-> s, fired |-> f],
         e = [r EXCEPT !.left = x, !.state = c, !.fired = n, !.next = y]
  PROVE  e = [left |-> x, period |-> p, width |-> w, next |-> y, state |-> c, fired |-> n]
  <1>1. e.left = x /\ e.period = p /\ e.width = w /\ e.next = y /\ e.state = c /\ e.fired = n
    OBVIOUS
  <1>2. e \in [left : {x}, period : {p}, width : {w}, next : {y}, state : {c}, fired : {n}]
    OBVIOUS
  <1> QED BY <1>2

LEMMA ExpireOf ==
  ASSUME NEW l, NEW p, NEW w, NEW x, NEW s \in {"LO", "HI"}, NEW f,
         NEW r, r = [left |-> l, period |-> p, width |-> w, next |-> x, state |-> s, fired |-> f]
  PROVE  Alone!Expire(r) =
           IF p = 0
           THEN [left |-> 0, period |-> 0, width |-> 0, next |-> 0, state |-> "LO", fired |-> f + 1]
           ELSE [left   |-> IF w = 0 THEN p ELSE x,
                 period |-> p,
                 width  |-> w,
                 next   |-> IF w = 0 THEN x ELSE IF s = "HI" THEN w ELSE p - w,
                 state  |-> IF w = 0 THEN s ELSE IF s = "HI" THEN "LO" ELSE "HI",
                 fired  |-> f + 1]
  <1>0. r = [left |-> l, period |-> p, width |-> w, next |-> x, state |-> s, fired |-> f]
    OBVIOUS
  <1>1. /\ r.left = l /\ r.period = p /\ r.width = w /\ r.next = x /\ r.state = s /\ r.fired = f
    OBVIOUS
  <1> DEFINE n == f + 1
             c == IF s = "LO" THEN "HI" ELSE "LO"
             y == IF c = "HI" THEN p - w ELSE w
  <1>2. Alone!Expire(r) = IF p = 0 THEN [Alone!Stopped EXCEPT !.fired = n]
                          ELSE IF w = 0 THEN [r EXCEPT !.left = p, !.fired = n]
                          ELSE [r EXCEPT !.left = x, !.state = c, !.fired = n, !.next = y]
    BY <1>1, Zenon DEF Alone!Expire
  <1>3. /\ c = IF s = "HI" THEN "LO" ELSE "HI"
        /\ y = IF s = "HI" THEN w ELSE p - w
    OBVIOUS
  <1>4. n = f + 1
    OBVIOUS
  <1> HIDE DEF n, c, y
  <1>5. [Alone!Stopped EXCEPT !.fired = n]
          = [left |-> 0, period |-> 0, width |-> 0, next |-> 0, state |-> "LO", fired |-> n]
    BY DEF Alone!Stopped
  <1>6. [r EXCEPT !.left = p, !.fired = n]
          = [left |-> p, period |-> p, width |-> w, next |-> x, state |-> s, fired |-> n]
    <2> DEFINE e == [r EXCEPT !.left = p, !.fired = n]
    <2>1. e = [r EXCEPT !.left = p, !.fired = n]
      OBVIOUS
    <2> HIDE DEF e
    <2>2. e = [left |-> p, period |-> p, width |-> w, next |-> x, state |-> s, fired |-> n]
      BY ONLY <1>0, <2>1, NextPeriod
    <2> QED BY <2>2 DEF e
  <1>7. [r EXCEPT !.left = x, !.state = c, !.fired = n, !.next = y]
          = [left |-> x, period |-> p, width |-> w, next |-> y, state |-> c, fired |-> n]
    <2> DEFINE e == [r EXCEPT !.left = x, !.state = c, !.fired = n, !.next = y]
    <2>1. e = [r EXCEPT !.left = x, !.state = c, !.fired = n, !.next = y]
      OBVIOUS
    <2> HIDE DEF e
    <2>2. e = [left |-> x, period |-> p, width |-> w, next |-> y, state |-> c, fired |-> n]
      BY ONLY <1>0, <2>1, NextPhase
    <2> QED BY <2>2 DEF e
  <1>8. CASE p = 0
    BY <1>2, <1>4, <1>5, <1>8
  <1>9. CASE p # 0 /\ w = 0
    BY <1>2, <1>4, <1>6, <1>9
  <1>10. CASE p # 0 /\ w # 0
    BY <1>2, <1>3, <1>4, <1>7, <1>10
  <1> QED BY <1>8, <1>9, <1>10

\* What a timer is after it expires.
LEMMA ExpireIs ==
  ASSUME NEW m, NEW L, Queue(m, L), NEW t \in Timers
  PROVE  Alone!Expire(View(m, L, t)) =
           IF m.period[t] = 0
           THEN [left |-> 0, period |-> 0, width |-> 0, next |-> 0, state |-> "LO",
                 fired |-> m.fired[t] + 1]
           ELSE [left |-> PhaseLeft(m, t), period |-> m.period[t], width |-> m.width[t],
                 next |-> PhaseNext(m, t), state |-> PhaseState(m, t), fired |-> m.fired[t] + 1]
  <1>1. m.state[t] \in {"LO", "HI"}
    BY SaneFields
  <1> DEFINE v == View(m, L, t)
  <1>2. v = [left |-> L[t], period |-> m.period[t], width |-> m.width[t],
             next |-> m.nxtdly[t], state |-> m.state[t], fired |-> m.fired[t]]
    BY DEF View
  <1> HIDE DEF v
  <1>3. Alone!Expire(v) =
          IF m.period[t] = 0
          THEN [left |-> 0, period |-> 0, width |-> 0, next |-> 0, state |-> "LO",
                fired |-> m.fired[t] + 1]
          ELSE [left   |-> IF m.width[t] = 0 THEN m.period[t] ELSE m.nxtdly[t],
                period |-> m.period[t],
                width  |-> m.width[t],
                next   |-> IF m.width[t] = 0 THEN m.nxtdly[t]
                           ELSE IF m.state[t] = "HI" THEN m.width[t] ELSE m.period[t] - m.width[t],
                state  |-> IF m.width[t] = 0 THEN m.state[t]
                           ELSE IF m.state[t] = "HI" THEN "LO" ELSE "HI",
                fired  |-> m.fired[t] + 1]
    BY ONLY <1>1, <1>2, ExpireOf
  <1> QED BY <1>3, Zenon DEF v, PhaseLeft, PhaseNext, PhaseState

LEMMA ExpireFirstIs ==
  ASSUME NEW m, NEW L, Sane(m, L), m.tq # <<>>, NEW t, t = m.tq[1], L[t] = 0, NEW r, r = ExpireFirst(m)
  PROVE  /\ t \in Due(m, L)
         /\ \E R : /\ Sane(r, R)
                   /\ View(r, R, t) = Alone!Expire(View(m, L, t))
                   /\ Contains(r.tq, t) => R[t] > 0
                   /\ \A u \in Timers : u # t => Same(r, R, m, L, u)
                   /\ Due(r, R) = Due(m, L) \ {t}
  <1> DEFINE m1 == Taken(m, t)
  <1>0. Queue(m, L) /\ Phases(m)
    BY DEF Sane
  <1>1. /\ Queue(m1, L) /\ t \in Timers /\ Head(m.tq) = t /\ Contains(m.tq, t)
        /\ \A u : Contains(m1.tq, u) <=> Contains(m.tq, u) /\ u # t
        /\ m1.period = m.period /\ m1.width = m.width /\ m1.nxtdly = m.nxtdly /\ m1.state = m.state
        /\ m1.fired[t] = m.fired[t] + 1 /\ \A u \in Timers : u # t => m1.fired[u] = m.fired[u]
    <2>1. Queue(m, L) /\ m.tq # <<>> /\ t = m.tq[1] /\ L[t] = 0 /\ m1 = Taken(m, t)
      BY <1>0
    <2> HIDE DEF m1
    <2> QED BY ONLY <2>1, TakeFirstIs
  <1>2. r = IF m.period[t] = 0 THEN Release(m1, t) ELSE Requeue(m1, t)
    BY <1>1 DEF ExpireFirst, Taken
  <1> HIDE DEF m1
  <1>3. t \in Due(m, L)
    BY <1>1 DEF Due
  <1>4. /\ m.period[t] \in Nat /\ m.width[t] \in Nat /\ m.nxtdly[t] \in Nat
        /\ m.state[t] \in {"LO", "HI"}
        /\ L \in [Timers -> 0..(Word - 1)]
    BY <1>0, <1>1, SaneFields
  <1>5. /\ m.period[t] = 0 => m.nxtdly[t] > 0
        /\ m.period[t] > 0 => m.width[t] < m.period[t]
        /\ m.period[t] > 0 /\ m.width[t] > 0 => m.nxtdly[t] > 0
        /\ m.state[t] = "HI" => m.nxtdly[t] > 0
    BY <1>0, <1>1 DEF Phases
  <1>6. CASE m.period[t] = 0
    <2>1. r = Release(m1, t)
      BY <1>2, <1>6
    <2>2. /\ Queue(r, L) /\ r.tq = m1.tq /\ r.fired = m1.fired
          /\ r.period[t] = 0 /\ r.width[t] = 0 /\ r.nxtdly[t] = 0 /\ r.state[t] = "LO"
          /\ \A u \in Timers : u # t => /\ r.period[u] = m1.period[u] /\ r.width[u] = m1.width[u]
                                        /\ r.nxtdly[u] = m1.nxtdly[u] /\ r.state[u] = m1.state[u]
      BY <1>1, <2>1, ReleaseIs
    <2>3. \A u \in Timers : u # t => Same(r, L, m, L, u)
      BY <1>1, <2>2 DEF Same, View
    <2>4. View(r, L, t) = Alone!Expire(View(m, L, t))
      <3>1. L[t] = 0 /\ Queue(m, L) /\ t \in Timers
        BY <1>0, <1>1
      <3>2. Alone!Expire(View(m, L, t))
              = [left |-> 0, period |-> 0, width |-> 0, next |-> 0, state |-> "LO",
                 fired |-> m.fired[t] + 1]
        BY <1>6, <3>1, ExpireIs
      <3>3. r.fired[t] = m.fired[t] + 1
        BY <1>1, <2>2
      <3> QED BY <2>2, <3>1, <3>2, <3>3 DEF View
    <2>5. Phases(r)
      BY <1>0, <1>1, <2>2 DEF Phases
    <2>6. ~Contains(r.tq, t) /\ Due(r, L) = Due(m, L) \ {t}
      BY <1>1, <2>2 DEF Due
    <2> QED BY <1>3, <2>2, <2>3, <2>4, <2>5, <2>6 DEF Sane
  <1>7. CASE m.period[t] # 0
    <2> DEFINE R == [L EXCEPT ![t] = PhaseLeft(m1, t)]
    <2>1. r = Requeue(m1, t) /\ m.width[t] < m.period[t]
      BY <1>2, <1>4, <1>5, <1>7
    <2>2. /\ Queue(r, R)
          /\ \A u : Contains(r.tq, u) <=> Contains(m1.tq, u) \/ u = t
          /\ r.period = m1.period /\ r.width = m1.width /\ r.fired = m1.fired
          /\ r.state[t] = PhaseState(m1, t) /\ r.nxtdly[t] = PhaseNext(m1, t)
          /\ \A u \in Timers : u # t => r.nxtdly[u] = m1.nxtdly[u] /\ r.state[u] = m1.state[u]
      <3>1. /\ Queue(m1, L) /\ t \in Timers /\ ~Contains(m1.tq, t) /\ m1.width[t] < m1.period[t]
            /\ r = Requeue(m1, t)
        BY <1>1, <2>1
      <3>2. Requeued(r, m1, L, t)
        BY <3>1, RequeueIs
      <3> QED BY <3>2 DEF Requeued
    <2>3. /\ PhaseLeft(m1, t) = PhaseLeft(m, t) /\ PhaseState(m1, t) = PhaseState(m, t)
          /\ PhaseNext(m1, t) = PhaseNext(m, t)
      BY <1>1 DEF PhaseLeft, PhaseState, PhaseNext
    <2>4. R[t] = PhaseLeft(m, t) /\ \A u \in Timers : u # t => R[u] = L[u]
      BY <1>1, <1>4, <2>3
    <2>5. R[t] > 0
      BY <1>4, <1>5, <1>7, <2>4 DEF PhaseLeft
    <2> HIDE DEF R
    <2>6. \A u \in Timers : u # t => Same(r, R, m, L, u)
      BY <1>1, <2>2, <2>4 DEF Same, View
    <2>7. View(r, R, t) = Alone!Expire(View(m, L, t))
      <3>1. Queue(m, L) /\ t \in Timers
        BY <1>0, <1>1
      <3>2. Alone!Expire(View(m, L, t))
              = [left |-> PhaseLeft(m, t), period |-> m.period[t], width |-> m.width[t],
                 next |-> PhaseNext(m, t), state |-> PhaseState(m, t), fired |-> m.fired[t] + 1]
        BY <1>7, <3>1, ExpireIs
      <3>3. /\ R[t] = PhaseLeft(m, t) /\ r.period[t] = m.period[t] /\ r.width[t] = m.width[t]
            /\ r.nxtdly[t] = PhaseNext(m, t) /\ r.state[t] = PhaseState(m, t)
            /\ r.fired[t] = m.fired[t] + 1
        BY <1>1, <2>2, <2>3, <2>4
      <3> QED BY <3>2, <3>3 DEF View
    <2>8. PhaseNext(m, t) > 0 \/ m.width[t] = 0
      BY <1>4, <2>1 DEF PhaseNext
    <2>9. Phases(r)
      <3>1. ASSUME NEW u \in Timers, u # t
            PROVE  /\ ~Contains(r.tq, u) => /\ r.period[u] = 0 /\ r.width[u] = 0 /\ r.nxtdly[u] = 0
                                            /\ r.state[u] = "LO"
                   /\ Contains(r.tq, u) =>
                        /\ (r.period[u] = 0 => r.nxtdly[u] > 0)
                        /\ (r.period[u] > 0 => r.width[u] < r.period[u])
                        /\ (r.period[u] > 0 /\ r.width[u] > 0 => r.nxtdly[u] > 0)
                        /\ (r.state[u] = "HI" => r.nxtdly[u] > 0)
        BY <1>0, <1>1, <2>2, <3>1 DEF Phases
      <3>2. /\ Contains(r.tq, t) /\ r.period[t] = m.period[t] /\ r.width[t] = m.width[t]
            /\ r.nxtdly[t] = PhaseNext(m, t) /\ r.state[t] = PhaseState(m, t)
        BY <1>1, <2>2, <2>3
      <3>3. r.state[t] = "HI" => r.nxtdly[t] > 0
        BY <1>4, <1>5, <2>8, <3>2 DEF PhaseNext, PhaseState
      <3> QED BY <1>7, <2>1, <2>8, <3>1, <3>2, <3>3 DEF Phases
    <2>10. Due(r, R) = Due(m, L) \ {t}
      BY <1>1, <2>2, <2>4, <2>5 DEF Due
    <2> QED BY <1>3, <2>2, <2>5, <2>6, <2>7, <2>9, <2>10 DEF Sane
  <1> QED BY <1>6, <1>7

-----------------------------------------------------------------------------
(* Loops. *)

\* One turn of a loop: of smx_TimerTimeout(), of smx_TickRecovery() up to the
\* time e, and of a timer on its own.
Turn(k, e, s) ==
    IF k = "timeout" THEN IF FirstExpired(s) THEN ExpireFirst(s) ELSE s
    ELSE IF k = "recovery" THEN IF s.etmr <= e \/ s.etmo <= e THEN Recover(s, e) ELSE s
    ELSE Alone!Tick(s)

\* h is the loop that starts with x, up to n turns.
IsLoop(h, k, e, x, n) == h = [i \in 0..n |-> IF i = 0 THEN x ELSE Turn(k, e, h[i - 1])]

LEMMA LoopUpTo ==
  ASSUME NEW k, NEW e, NEW x, NEW n \in Nat
  PROVE  \E h : IsLoop(h, k, e, x, n)
  <1> DEFINE P(m) == \E h : IsLoop(h, k, e, x, m)
             S == {m \in Nat : ~P(m)}
  <1> SUFFICES ASSUME ~P(n) PROVE FALSE
    OBVIOUS
  <1>1. S \in SUBSET Nat /\ S # {}
    <2> HIDE DEF P
    <2> QED OBVIOUS
  <1>2. PICK m \in S : \A j \in S : m <= j
    <2> HIDE DEF S
    <2> QED BY <1>1, LeastNumber
  <1>3. m \in Nat /\ ~P(m)
    <2> HIDE DEF P
    <2> QED OBVIOUS
  <1>4. P(0)
    <2> DEFINE h == [i \in 0..0 |-> x]
    <2>1. h = [i \in 0..0 |-> IF i = 0 THEN x ELSE Turn(k, e, h[i - 1])]
      OBVIOUS
    <2> HIDE DEF h
    <2> QED BY <2>1 DEF IsLoop
  <1>5. m # 0 /\ m - 1 \in Nat /\ ~(m <= m - 1)
    <2> HIDE DEF P
    <2> QED BY <1>3, <1>4
  <1>6. P(m - 1)
    <2> HIDE DEF P
    <2> QED BY <1>2, <1>5
  <1>7. PICK h : h = [i \in 0..m - 1 |-> IF i = 0 THEN x ELSE Turn(k, e, h[i - 1])]
    BY <1>6 DEF IsLoop
  <1> DEFINE g == [i \in 0..m |-> IF i = m THEN Turn(k, e, h[m - 1]) ELSE h[i]]
  <1>8. \A i \in 0..m - 1 : h[i] = IF i = 0 THEN x ELSE Turn(k, e, h[i - 1])
    BY <1>7, Zenon
  <1>9. g = [i \in 0..m |-> IF i = 0 THEN x ELSE Turn(k, e, g[i - 1])]
    <2> SUFFICES ASSUME NEW i \in 0..m PROVE g[i] = IF i = 0 THEN x ELSE Turn(k, e, g[i - 1])
      OBVIOUS
    <2>1. CASE i = 0
      BY <1>3, <1>5, <1>8, <2>1
    <2>2. CASE i = m
      BY <1>3, <1>5, <2>2
    <2>3. CASE i # 0 /\ i # m
      <3>1. i \in 0..m - 1 /\ i - 1 \in 0..m /\ i - 1 # m
        BY <1>3, <2>3
      <3>2. g[i] = h[i] /\ g[i - 1] = h[i - 1]
        BY <2>3, <3>1
      <3> HIDE DEF g
      <3> QED BY <1>8, <2>3, <3>1, <3>2
    <2> QED BY <2>1, <2>2, <2>3
  <1> HIDE DEF g
  <1> QED BY <1>3, <1>9 DEF IsLoop

LEMMA LoopTurns ==
  ASSUME NEW h, NEW k, NEW e, NEW x, NEW n \in Nat, IsLoop(h, k, e, x, n)
  PROVE  h[0] = x /\ \A i \in 1..n : h[i] = Turn(k, e, h[i - 1])
  <1>1. \A i \in 0..n : h[i] = IF i = 0 THEN x ELSE Turn(k, e, h[i - 1])
    <2>1. h = [i \in 0..n |-> IF i = 0 THEN x ELSE Turn(k, e, h[i - 1])]
      BY Zenon DEF IsLoop
    <2> QED BY <2>1, Zenon
  <1>2. 0 \in 0..n /\ \A i \in 1..n : i \in 0..n /\ i # 0
    OBVIOUS
  <1> QED BY <1>1, <1>2, Zenon

\* Loops of different lengths agree.
LEMMA LoopsAgree ==
  ASSUME NEW k, NEW e, NEW x, NEW a \in Nat, NEW b \in Nat, NEW g, NEW h,
         IsLoop(g, k, e, x, a), IsLoop(h, k, e, x, b), NEW i \in Nat, i <= a, i <= b
  PROVE  g[i] = h[i]
  <1> DEFINE S == {j \in Nat : j <= a /\ j <= b /\ g[j] # h[j]}
  <1> SUFFICES ASSUME g[i] # h[i] PROVE FALSE
    OBVIOUS
  <1>1. g[0] = x /\ h[0] = x
    BY LoopTurns
  <1>2. /\ \A j \in 1..a : g[j] = Turn(k, e, g[j - 1])
        /\ \A j \in 1..b : h[j] = Turn(k, e, h[j - 1])
    BY LoopTurns
  <1>3. S \in SUBSET Nat /\ S # {}
    OBVIOUS
  <1>4. PICK j \in S : \A c \in S : j <= c
    <2> HIDE DEF S
    <2> QED BY <1>3, LeastNumber
  <1>5. j \in Nat /\ j # 0 /\ j <= a /\ j <= b /\ g[j] # h[j]
    BY <1>1
  <1>6. j \in 1..a /\ j \in 1..b /\ j - 1 \in Nat /\ ~(j <= j - 1) /\ j - 1 <= a /\ j - 1 <= b
    BY <1>5
  <1>7. g[j - 1] = h[j - 1]
    BY <1>4, <1>6
  <1> QED BY <1>2, <1>5, <1>6, <1>7

LEMMA TimersAreFinite == Cardinality(Timers) \in Nat
  BY TimerAssumption, FS_CardinalityType

LEMMA TimeoutLoop ==
  ASSUME NEW m
  PROVE  \E h : /\ IsLoop(h, "timeout", 0, m, Cardinality(Timers))
                /\ TimerTimeout(m) = h[Cardinality(Timers)]
  <1> DEFINE n == Cardinality(Timers)
             f == CHOOSE h : h = [i \in 0..n |-> IF i = 0 THEN m ELSE
                                                 IF FirstExpired(h[i - 1]) THEN ExpireFirst(h[i - 1])
                                                                           ELSE h[i - 1]]
  <1>1. TimerTimeout(m) = f[n]
    BY Zenon DEF TimerTimeout
  <1>2. f = CHOOSE h : IsLoop(h, "timeout", 0, m, n)
    BY Zenon DEF IsLoop, Turn
  <1>3. \E h : IsLoop(h, "timeout", 0, m, n)
    BY LoopUpTo, TimersAreFinite
  <1> HIDE DEF f, n
  <1>4. IsLoop(f, "timeout", 0, m, n)
    BY <1>2, <1>3, Zenon
  <1> QED BY <1>1, <1>4, Zenon DEF n

LEMMA TicksLoop ==
  ASSUME NEW r, NEW n \in Nat
  PROVE  \E h : IsLoop(h, "tick", 0, [r EXCEPT !.fired = 0], n) /\ Alone!Ticks(r, n) = h[n]
  <1> DEFINE x == [r EXCEPT !.fired = 0]
             f == CHOOSE h : h = [i \in 0..n |-> IF i = 0 THEN x ELSE Alone!Tick(h[i - 1])]
  <1>1. Alone!Ticks(r, n) = f[n]
    BY Zenon DEF Alone!Ticks
  <1>2. f = CHOOSE h : IsLoop(h, "tick", 0, x, n)
    BY Zenon DEF IsLoop, Turn
  <1>3. \E h : IsLoop(h, "tick", 0, x, n)
    BY LoopUpTo
  <1> HIDE DEF f, x
  <1>4. IsLoop(f, "tick", 0, x, n)
    BY <1>2, <1>3, Zenon
  <1> QED BY <1>1, <1>4, Zenon DEF x

LEMMA TicksFirst ==
  ASSUME NEW r
  PROVE  Alone!Ticks(r, 0) = [r EXCEPT !.fired = 0]
  <1>1. PICK h : IsLoop(h, "tick", 0, [r EXCEPT !.fired = 0], 0) /\ Alone!Ticks(r, 0) = h[0]
    BY TicksLoop
  <1> DEFINE x == [r EXCEPT !.fired = 0]
  <1>2. IsLoop(h, "tick", 0, x, 0)
    BY <1>1
  <1> HIDE DEF x
  <1>3. h[0] = x
    BY <1>2, LoopTurns
  <1> QED BY <1>1, <1>3 DEF x

LEMMA TicksNext ==
  ASSUME NEW r, NEW n \in Nat
  PROVE  Alone!Ticks(r, n + 1) = Alone!Tick(Alone!Ticks(r, n))
  <1> DEFINE x == [r EXCEPT !.fired = 0]
  <1>1. PICK h : IsLoop(h, "tick", 0, x, n) /\ Alone!Ticks(r, n) = h[n]
    BY TicksLoop
  <1>2. n + 1 \in Nat
    OBVIOUS
  <1>3. PICK g : IsLoop(g, "tick", 0, x, n + 1) /\ Alone!Ticks(r, n + 1) = g[n + 1]
    BY <1>2, TicksLoop
  <1> HIDE DEF x
  <1>4. n <= n + 1 /\ n <= n /\ n + 1 \in 1..n + 1 /\ (n + 1) - 1 = n
    OBVIOUS
  <1>5. g[n + 1] = Turn("tick", 0, g[n])
    <2>1. \A i \in 1..n + 1 : g[i] = Turn("tick", 0, g[i - 1])
      BY <1>2, <1>3, LoopTurns
    <2> QED BY <1>4, <2>1
  <1>6. g[n] = h[n]
    BY <1>1, <1>2, <1>3, <1>4, LoopsAgree
  <1> QED BY <1>1, <1>3, <1>5, <1>6 DEF Turn

LEMMA RecoveryLoop ==
  ASSUME NEW n \in Nat
  PROVE  \E h : /\ IsLoop(h, "recovery", etime + n,
                          [ tm   |-> Remaining(NoneFired(tm), etime, etime + n),
                            to   |-> Quiet(to),
                            etmr |-> NextTimer(tm, etime, etime + n),
                            etmo |-> IF to.min <= etime + n THEN to.min ELSE Never ],
                          n + NumTasks + 1)
                /\ TickRecovery(n) = h[n + NumTasks + 1]
  <1> DEFINE end == etime + n
             x == [ tm   |-> Remaining(NoneFired(tm), etime, end),
                    to   |-> Quiet(to),
                    etmr |-> NextTimer(tm, etime, end),
                    etmo |-> IF to.min <= end THEN to.min ELSE Never ]
             c == n + NumTasks + 1
             f == CHOOSE h : h = [i \in 0..c |-> IF i = 0 THEN x ELSE
                                                 IF h[i - 1].etmr <= end \/ h[i - 1].etmo <= end
                                                 THEN Recover(h[i - 1], end) ELSE h[i - 1]]
  <1>1. TickRecovery(n) = f[c]
    BY Zenon DEF TickRecovery
  <1>2. f = CHOOSE h : IsLoop(h, "recovery", end, x, c)
    BY Zenon DEF IsLoop, Turn
  <1>3. \E h : IsLoop(h, "recovery", end, x, c)
    <2>1. c \in Nat
      BY TimeoutAssumption
    <2> HIDE DEF c
    <2> QED BY <2>1, LoopUpTo
  <1> HIDE DEF f, x, c, end
  <1>4. IsLoop(f, "recovery", end, x, c)
    BY <1>2, <1>3, Zenon
  <1> QED BY <1>1, <1>4, Zenon DEF end, x, c

-----------------------------------------------------------------------------
(* smx_TimerTimeout() *)

LEMMA FirstExpiredIs ==
  ASSUME NEW m, NEW L, Queue(m, L)
  PROVE  /\ FirstExpired(m) <=> Due(m, L) # {}
         /\ FirstExpired(m) => m.tq # <<>> /\ L[m.tq[1]] = 0
  <1>1. Adds(m.tq, m.diffcnt, L) /\ m.tq \in Seq(Timers)
    BY DEF Queue, Adds
  <1>2. ASSUME m.tq # <<>>
        PROVE  /\ Len(m.tq) \in Nat /\ 1 \in 1..Len(m.tq) /\ Head(m.tq) = m.tq[1] /\ m.tq[1] \in Timers
               /\ m.diffcnt[m.tq[1]] = L[m.tq[1]] /\ L[m.tq[1]] \in Nat
    <2>1. Len(m.tq) \in Nat /\ 1 \in 1..Len(m.tq) /\ Head(m.tq) = m.tq[1]
      BY <1>1, <1>2
    <2>2. /\ m.tq[1] \in Timers /\ L[m.tq[1]] \in Nat
          /\ m.diffcnt[m.tq[1]] = L[m.tq[1]] - Before(m.tq, L, 1)
      BY <1>1, <2>1, AddsTypes
    <2> QED BY <2>1, <2>2 DEF Before
  <1>3. ASSUME FirstExpired(m)
        PROVE  m.tq # <<>> /\ L[m.tq[1]] = 0 /\ Due(m, L) # {}
    <2>1. m.tq # <<>> /\ L[m.tq[1]] = 0
      BY <1>2, <1>3 DEF FirstExpired
    <2>2. m.tq[1] \in Due(m, L)
      BY <1>2, <2>1 DEF Due, Contains
    <2> QED BY <2>1, <2>2
  <1>4. ASSUME NEW t \in Due(m, L)
        PROVE  FirstExpired(m)
    <2>1. PICK i \in 1..Len(m.tq) : m.tq[i] = t /\ L[t] = 0
      BY DEF Due, Contains
    <2>2. m.tq # <<>>
      BY <1>1, <2>1
    <2>3. Len(m.tq) \in Nat /\ 1 \in 1..Len(m.tq) /\ 1 <= i /\ i \in 1..Len(m.tq)
      BY <1>2, <2>1, <2>2
    <2>4. L[m.tq[1]] <= L[m.tq[i]]
      BY <1>1, <2>3, RisesTo
    <2>5. L[m.tq[1]] = 0
      BY <1>2, <2>1, <2>2, <2>4
    <2> QED BY <1>2, <2>2, <2>5 DEF FirstExpired
  <1> QED BY <1>3, <1>4

\* A record of timers all of whose timers have ticks left.
Timely(m, L) == Sane(m, L) /\ \A t \in Timers : Contains(m.tq, t) => L[t] > 0

\* The timers s, on the way from m, have those in D left to expire.
HalfExpired(s, R, m, L, D) ==
  /\ Sane(s, R) /\ Due(s, R) = D /\ D \subseteq Due(m, L)
  /\ \A t \in Timers :
       /\ t \in Due(m, L) /\ t \notin D => View(s, R, t) = Alone!Expire(View(m, L, t))
       /\ t \in D \/ t \notin Due(m, L) => Same(s, R, m, L, t)

LEMMA OneExpires ==
  ASSUME NEW s, NEW R, NEW m, NEW L, NEW D, HalfExpired(s, R, m, L, D), D # {},
         NEW r, r = Turn("timeout", 0, s)
  PROVE  \E U : \E t \in D : HalfExpired(r, U, m, L, D \ {t})
  <1>1. Sane(s, R) /\ Due(s, R) = D /\ D \subseteq Due(m, L) /\ Queue(s, R) /\ D \subseteq Timers
    BY DEF HalfExpired, Sane, Due
  <1>2. FirstExpired(s) /\ s.tq # <<>> /\ R[s.tq[1]] = 0
    BY <1>1, FirstExpiredIs
  <1>3. r = ExpireFirst(s)
    BY <1>2 DEF Turn
  <1> DEFINE t == s.tq[1]
  <1>4. Sane(s, R) /\ s.tq # <<>> /\ t = s.tq[1] /\ R[t] = 0 /\ r = ExpireFirst(s)
    BY <1>1, <1>2, <1>3
  <1> HIDE DEF t
  <1>5. /\ t \in Due(s, R)
        /\ \E U : /\ Sane(r, U)
                  /\ View(r, U, t) = Alone!Expire(View(s, R, t))
                  /\ Contains(r.tq, t) => U[t] > 0
                  /\ \A u \in Timers : u # t => Same(r, U, s, R, u)
                  /\ Due(r, U) = Due(s, R) \ {t}
    BY ONLY <1>4, ExpireFirstIs
  <1>6. PICK U : /\ Sane(r, U)
                 /\ View(r, U, t) = Alone!Expire(View(s, R, t))
                 /\ \A u \in Timers : u # t => Same(r, U, s, R, u)
                 /\ Due(r, U) = Due(s, R) \ {t}
    BY <1>5
  <1>7. t \in D /\ Same(s, R, m, L, t) /\ t \in Due(m, L)
    BY <1>1, <1>5 DEF HalfExpired
  <1>8. View(r, U, t) = Alone!Expire(View(m, L, t))
    BY <1>6, <1>7 DEF Same
  <1>9. ASSUME NEW u \in Timers
        PROVE  /\ u \in Due(m, L) /\ u \notin D \ {t} => View(r, U, u) = Alone!Expire(View(m, L, u))
               /\ u \in D \ {t} \/ u \notin Due(m, L) => Same(r, U, m, L, u)
    <2>1. CASE u = t
      BY <1>7, <1>8, <2>1
    <2>2. CASE u # t
      <3>1. Same(r, U, s, R, u)
        BY <1>6, <2>2
      <3>2. /\ u \in Due(m, L) /\ u \notin D => View(s, R, u) = Alone!Expire(View(m, L, u))
            /\ u \in D \/ u \notin Due(m, L) => Same(s, R, m, L, u)
        BY DEF HalfExpired
      <3> QED BY <2>2, <3>1, <3>2 DEF Same
    <2> QED BY <2>1, <2>2
  <1>10. HalfExpired(r, U, m, L, D \ {t})
    BY <1>1, <1>6, <1>9 DEF HalfExpired
  <1> QED BY <1>7, <1>10

LEMMA TimersAreDue ==
  ASSUME NEW m, NEW L, NEW D, D \subseteq Due(m, L)
  PROVE  /\ IsFiniteSet(D) /\ Cardinality(D) \in Nat /\ Cardinality(D) <= Cardinality(Timers)
         /\ D # {} => Cardinality(D) > 0
         /\ \A t \in D : Cardinality(D \ {t}) = Cardinality(D) - 1
  <1>1. D \subseteq Timers
    BY DEF Due
  <1>2. IsFiniteSet(D) /\ Cardinality(D) <= Cardinality(Timers)
    BY <1>1, TimerAssumption, FS_Subset
  <1>3. Cardinality(D) \in Nat
    BY <1>2, FS_CardinalityType
  <1>4. D # {} => Cardinality(D) > 0
    BY <1>2, <1>3, FS_EmptySet
  <1>5. \A t \in D : Cardinality(D \ {t}) = Cardinality(D) - 1
    BY <1>2, FS_RemoveElement
  <1> QED BY <1>2, <1>3, <1>4, <1>5

\* Just the timers that are due expire, each once.
LEMMA TimerTimeoutIs ==
  ASSUME NEW m, NEW L, Sane(m, L), NEW r, r = TimerTimeout(m)
  PROVE  \E R : /\ Timely(r, R)
                /\ \A t \in Timers :
                     /\ t \in Due(m, L) => View(r, R, t) = Alone!Expire(View(m, L, t))
                     /\ t \notin Due(m, L) => Same(r, R, m, L, t)
  <1> DEFINE n == Cardinality(Timers)
  <1>0. n \in Nat
    BY TimersAreFinite
  <1>1. PICK h : IsLoop(h, "timeout", 0, m, n) /\ r = h[n]
    BY TimeoutLoop
  <1> HIDE DEF n
  <1>2. h[0] = m /\ \A i \in 1..n : h[i] = Turn("timeout", 0, h[i - 1])
    BY <1>0, <1>1, LoopTurns
  <1> DEFINE P(i) == \E R, D : HalfExpired(h[i], R, m, L, D) /\ (D = {} \/ Cardinality(D) + i <= n)
             S == {i \in Nat : i <= n /\ ~P(i)}
  <1>3. P(0)
    <2>1. Due(m, L) \subseteq Due(m, L)
      OBVIOUS
    <2>2. Cardinality(Due(m, L)) \in Nat /\ Cardinality(Due(m, L)) <= n
      BY <2>1, TimersAreDue DEF n
    <2>3. HalfExpired(h[0], L, m, L, Due(m, L))
      BY <1>2 DEF HalfExpired, Same
    <2> QED BY <2>2, <2>3
  <1>4. ASSUME NEW i \in 1..n, P(i - 1) PROVE P(i)
    <2>1. PICK R, D : HalfExpired(h[i - 1], R, m, L, D) /\ (D = {} \/ Cardinality(D) + (i - 1) <= n)
      BY <1>4
    <2>2. h[i] = Turn("timeout", 0, h[i - 1])
      BY <1>2
    <2>3. CASE D = {}
      <3>1. Sane(h[i - 1], R) /\ Due(h[i - 1], R) = {}
        BY <2>1, <2>3 DEF HalfExpired
      <3>2. ~FirstExpired(h[i - 1])
        BY <3>1, FirstExpiredIs DEF Sane
      <3>3. h[i] = h[i - 1]
        BY <2>2, <3>2 DEF Turn
      <3> QED BY <2>1, <2>3, <3>3
    <2>4. CASE D # {}
      <3> DEFINE s == h[i - 1]
                 o == h[i]
      <3>1. HalfExpired(s, R, m, L, D) /\ D # {} /\ o = Turn("timeout", 0, s)
        BY <2>1, <2>2, <2>4
      <3> HIDE DEF s, o
      <3>2. PICK U : \E t \in D : HalfExpired(o, U, m, L, D \ {t})
        BY ONLY <3>1, OneExpires
      <3>3. PICK t \in D : HalfExpired(o, U, m, L, D \ {t})
        BY <3>2
      <3>4. D \subseteq Due(m, L)
        BY <3>1 DEF HalfExpired
      <3>5. Cardinality(D) \in Nat /\ Cardinality(D \ {t}) = Cardinality(D) - 1
        BY <3>4, TimersAreDue
      <3>6. Cardinality(D \ {t}) + i <= n
        BY <1>0, <2>1, <2>4, <3>5
      <3> QED BY <3>3, <3>6 DEF o
    <2> QED BY <2>3, <2>4
  <1>5. P(n)
    <2> SUFFICES ASSUME ~P(n) PROVE FALSE
      OBVIOUS
    <2>1. S \in SUBSET Nat /\ S # {}
      <3> HIDE DEF P
      <3> QED BY <1>0
    <2>2. PICK i \in S : \A j \in S : i <= j
      <3> HIDE DEF S
      <3> QED BY <2>1, LeastNumber
    <2>3. i \in Nat /\ i <= n /\ ~P(i)
      <3> HIDE DEF P
      <3> QED OBVIOUS
    <2>4. i \in 1..n /\ i - 1 \in Nat /\ i - 1 <= n /\ ~(i <= i - 1)
      <3> HIDE DEF P
      <3> QED BY <1>0, <1>3, <2>3
    <2>5. P(i - 1)
      <3> HIDE DEF P
      <3> QED BY <2>2, <2>4
    <2> HIDE DEF P
    <2> QED BY <1>4, <2>3, <2>4, <2>5
  <1>6. PICK R, D : HalfExpired(r, R, m, L, D) /\ (D = {} \/ Cardinality(D) + n <= n)
    BY <1>1, <1>5
  <1>7. D = {}
    <2>1. D \subseteq Due(m, L)
      BY <1>6 DEF HalfExpired
    <2>2. Cardinality(D) \in Nat /\ (D # {} => Cardinality(D) > 0)
      BY <2>1, TimersAreDue
    <2> QED BY <1>0, <1>6, <2>2
  <1>8. Sane(r, R) /\ Due(r, R) = {}
    BY <1>6, <1>7 DEF HalfExpired
  <1>9. Timely(r, R)
    <2>1. ASSUME NEW t \in Timers, Contains(r.tq, t) PROVE R[t] > 0
      <3>1. R[t] # 0
        BY <1>8, <2>1 DEF Due
      <3>2. R[t] \in Nat
        BY <1>8, SaneFields DEF Sane
      <3> QED BY <3>1, <3>2
    <2> QED BY <1>8, <2>1 DEF Timely
  <1> QED BY <1>6, <1>7, <1>9 DEF HalfExpired

-----------------------------------------------------------------------------
(* Time passes. *)

\* Timer t with l ticks left.
With(m, l, t) == [ left |-> l, period |-> m.period[t], width |-> m.width[t],
                   next |-> m.nxtdly[t], state |-> m.state[t], fired |-> m.fired[t] ]

LEMMA ViewWith ==
  ASSUME NEW m, NEW L, NEW t
  PROVE  View(m, L, t) = With(m, L[t], t)
  BY DEF View, With

LEMMA WithSame ==
  ASSUME NEW m, NEW r, SameFields(r, m), NEW l, NEW t
  PROVE  With(r, l, t) = With(m, l, t)
  BY DEF SameFields, With

LEMMA OneLess ==
  ASSUME NEW m, NEW l, NEW x, NEW t
  PROVE  [With(m, l, t) EXCEPT !.left = x] = With(m, x, t)
  BY DEF With

LEMMA TickWith ==
  ASSUME NEW m, NEW l \in Nat, NEW t
  PROVE  Alone!Tick(With(m, l, t)) = IF l = 0 THEN With(m, 0, t)
                                     ELSE IF l = 1 THEN Alone!Expire(With(m, 1, t))
                                     ELSE With(m, l - 1, t)
  <1> DEFINE v == With(m, l, t)
  <1>1. v.left = l
    BY DEF With
  <1>2. [v EXCEPT !.left = l - 1] = With(m, l - 1, t)
    BY OneLess
  <1>3. l = 0 => v = With(m, 0, t)
    OBVIOUS
  <1>4. l = 1 => v = With(m, 1, t)
    OBVIOUS
  <1>5. Alone!Tick(v) = IF v.left = 0 THEN v
                        ELSE IF v.left = 1 THEN Alone!Expire(v) ELSE [v EXCEPT !.left = v.left - 1]
    BY Zenon DEF Alone!Tick
  <1> HIDE DEF v
  <1>6. Alone!Tick(v) = IF l = 0 THEN v
                        ELSE IF l = 1 THEN Alone!Expire(v) ELSE [v EXCEPT !.left = l - 1]
    BY <1>1, <1>5, Zenon
  <1>7. CASE l = 0
    BY <1>3, <1>6, <1>7 DEF v
  <1>8. CASE l = 1
    BY <1>4, <1>6, <1>8 DEF v
  <1>9. CASE l # 0 /\ l # 1
    BY <1>2, <1>6, <1>9 DEF v
  <1> QED BY <1>7, <1>8, <1>9

\* How long a timer had left does not matter once it expires.
LEMMA ExpireWith ==
  ASSUME NEW m \in TimersType, NEW t \in Timers, NEW l, NEW x
  PROVE  Alone!Expire(With(m, l, t)) = Alone!Expire(With(m, x, t))
  <1>1. m.state[t] \in {"LO", "HI"}
    BY TimersFields
  <1> DEFINE p == m.period[t]
             w == m.width[t]
             y == m.nxtdly[t]
             s == m.state[t]
             f == m.fired[t]
             E == IF p = 0
                  THEN [left |-> 0, period |-> 0, width |-> 0, next |-> 0, state |-> "LO", fired |-> f + 1]
                  ELSE [left   |-> IF w = 0 THEN p ELSE y,
                        period |-> p,
                        width  |-> w,
                        next   |-> IF w = 0 THEN y ELSE IF s = "HI" THEN w ELSE p - w,
                        state  |-> IF w = 0 THEN s ELSE IF s = "HI" THEN "LO" ELSE "HI",
                        fired  |-> f + 1]
  <1>2. s \in {"LO", "HI"}
    BY <1>1
  <1>3. /\ With(m, l, t) = [left |-> l, period |-> p, width |-> w, next |-> y, state |-> s, fired |-> f]
        /\ With(m, x, t) = [left |-> x, period |-> p, width |-> w, next |-> y, state |-> s, fired |-> f]
    BY DEF With
  <1> DEFINE a == With(m, l, t)
             b == With(m, x, t)
  <1>4. a = [left |-> l, period |-> p, width |-> w, next |-> y, state |-> s, fired |-> f]
    BY <1>3
  <1>5. b = [left |-> x, period |-> p, width |-> w, next |-> y, state |-> s, fired |-> f]
    BY <1>3
  <1> HIDE DEF p, w, y, s, f, a, b
  <1>6. Alone!Expire(a) = E
    BY ONLY <1>2, <1>4, ExpireOf
  <1>7. Alone!Expire(b) = E
    BY ONLY <1>2, <1>5, ExpireOf
  <1> HIDE DEF E
  <1> QED BY <1>6, <1>7 DEF a, b

\* A timer that does not expire within n ticks.
LEMMA TicksPass ==
  ASSUME NEW x, NEW k \in Nat, NEW m, NEW l \in Nat, NEW t, Alone!Ticks(x, k) = With(m, l, t),
         NEW n \in Nat, l = 0 \/ n < l
  PROVE  Alone!Ticks(x, k + n) = With(m, IF l = 0 THEN 0 ELSE l - n, t)
  <1> DEFINE P(j) == Alone!Ticks(x, k + j) = With(m, IF l = 0 THEN 0 ELSE l - j, t)
             S == {j \in Nat : j <= n /\ ~P(j)}
  <1>1. P(0)
    <2>1. k + 0 = k /\ (IF l = 0 THEN 0 ELSE l - 0) = l
      OBVIOUS
    <2> QED BY <2>1
  <1>2. ASSUME NEW j \in Nat, j + 1 <= n, P(j) PROVE P(j + 1)
    <2> DEFINE i == IF l = 0 THEN 0 ELSE l - j
    <2>1. k + j \in Nat /\ (k + j) + 1 = k + (j + 1)
      OBVIOUS
    <2>2. i \in Nat /\ i # 1 /\ (l = 0 <=> i = 0)
      BY <1>2
    <2>3. i # 0 => i - 1 = l - (j + 1)
      OBVIOUS
    <2>4. Alone!Ticks(x, (k + j) + 1) = Alone!Tick(Alone!Ticks(x, k + j))
      BY <2>1, TicksNext
    <2>5. Alone!Ticks(x, k + j) = With(m, i, t)
      BY <1>2
    <2> HIDE DEF i
    <2>6. Alone!Tick(With(m, i, t)) = IF i = 0 THEN With(m, 0, t) ELSE With(m, i - 1, t)
      BY <2>2, TickWith
    <2> QED BY <2>1, <2>2, <2>3, <2>4, <2>5, <2>6
  <1>3. P(n)
    <2> SUFFICES ASSUME ~P(n) PROVE FALSE
      OBVIOUS
    <2>1. S \in SUBSET Nat /\ S # {}
      <3> HIDE DEF P
      <3> QED OBVIOUS
    <2>2. PICK j \in S : \A i \in S : j <= i
      <3> HIDE DEF S
      <3> QED BY <2>1, LeastNumber
    <2>3. j \in Nat /\ j <= n /\ ~P(j)
      <3> HIDE DEF P
      <3> QED OBVIOUS
    <2>4. j # 0 /\ j - 1 \in Nat /\ j - 1 <= n /\ (j - 1) + 1 = j /\ ~(j <= j - 1)
      <3> HIDE DEF P
      <3> QED BY <1>1, <2>3
    <2>5. P(j - 1)
      <3> HIDE DEF P
      <3> QED BY <2>2, <2>4
    <2> HIDE DEF P
    <2> QED BY <1>2, <2>3, <2>4, <2>5
  <1> QED BY <1>3

\* The timers m after n ticks; those that are due expire.
Passed(m, n) == LET o == Advance(m, n) IN IF FirstExpired(o) THEN TimerTimeout(o) ELSE o

\* When m becomes r in n ticks, each timer is what it would be on its own.
EachAlone(m, L, n, r) ==
  \E R : /\ Timely(r, R)
         /\ \A x : \A t \in Timers, k \in Nat :
              Alone!Ticks(x, k) = View(m, L, t) => Alone!Ticks(x, k + n) = View(r, R, t)

\* So it is when the first timer does not expire before the ticks have passed.
LEMMA TimePasses ==
  ASSUME NEW m, NEW L, Timely(m, L), NEW n \in Nat, m.tq # <<>> => n <= L[m.tq[1]]
  PROVE  EachAlone(m, L, n, Passed(m, n))
  <1> DEFINE o == Advance(m, n)
             r == Passed(m, n)
  <1>0. r = IF FirstExpired(o) THEN TimerTimeout(o) ELSE o
    BY Zenon DEF Passed
  <1>00. o = Advance(m, n)
    OBVIOUS
  <1> HIDE DEF o, r
  <1> DEFINE M == Shifted(m.tq, L, n)
  <1>1. Queue(m, L) /\ Phases(m) /\ Sane(m, L) /\ \A t \in Timers : Contains(m.tq, t) => L[t] > 0
    BY DEF Timely, Sane
  <1>2. /\ Queue(o, M) /\ SameFields(o, m) /\ o.tq = m.tq
        /\ \A t \in Timers : Contains(m.tq, t) => L[t] >= n
    BY <1>00, <1>1, AdvanceIs
  <1>3. Sane(o, M)
    BY <1>1, <1>2 DEF Sane, Phases, SameFields
  <1>4. \A t \in Timers : M[t] = IF Contains(m.tq, t) THEN L[t] - n ELSE 0
    BY DEF Shifted
  <1>5. \A t \in Timers : /\ L[t] \in Nat /\ (~Contains(m.tq, t) => L[t] = 0)
                          /\ M[t] \in Nat
    BY <1>1, <1>2, SaneFields DEF Queue, Adds
  <1> HIDE DEF M
  <1>6. \E R : /\ Timely(r, R)
               /\ \A t \in Timers :
                    /\ t \in Due(o, M) => View(r, R, t) = Alone!Expire(View(o, M, t))
                    /\ t \notin Due(o, M) => View(r, R, t) = View(o, M, t)
    <2>1. CASE FirstExpired(o)
      <3>1. r = TimerTimeout(o)
        BY <1>0, <2>1
      <3>2. PICK R : /\ Timely(r, R)
                     /\ \A t \in Timers :
                          /\ t \in Due(o, M) => View(r, R, t) = Alone!Expire(View(o, M, t))
                          /\ t \notin Due(o, M) => Same(r, R, o, M, t)
        BY <1>3, <3>1, TimerTimeoutIs
      <3> QED BY <3>2 DEF Same
    <2>2. CASE ~FirstExpired(o)
      <3>1. r = o /\ Due(o, M) = {}
        BY <1>0, <1>2, <2>2, FirstExpiredIs
      <3>2. Timely(o, M)
        BY <1>3, <1>5, <3>1 DEF Timely, Due
      <3> QED BY <3>1, <3>2
    <2> QED BY <2>1, <2>2
  <1>7. PICK R : /\ Timely(r, R)
                 /\ \A t \in Timers :
                      /\ t \in Due(o, M) => View(r, R, t) = Alone!Expire(View(o, M, t))
                      /\ t \notin Due(o, M) => View(r, R, t) = View(o, M, t)
    BY <1>6
  <1>8. ASSUME NEW t \in Timers, NEW x, NEW k \in Nat, Alone!Ticks(x, k) = View(m, L, t)
        PROVE  Alone!Ticks(x, k + n) = View(r, R, t)
    <2>1. Alone!Ticks(x, k) = With(m, L[t], t) /\ L[t] \in Nat
      BY <1>5, <1>8, ViewWith
    <2>2. View(o, M, t) = With(m, M[t], t)
      <3>1. View(o, M, t) = With(o, M[t], t)
        BY ViewWith
      <3>2. With(o, M[t], t) = With(m, M[t], t)
        BY <1>2, WithSame
      <3> QED BY <3>1, <3>2
    <2>3. CASE t \notin Due(o, M)
      <3>1. L[t] = 0 \/ n < L[t]
        <4>1. ~Contains(m.tq, t) \/ M[t] # 0
          BY <1>2, <2>3 DEF Due
        <4> QED BY <1>2, <1>4, <1>5, <4>1
      <3>2. M[t] = IF L[t] = 0 THEN 0 ELSE L[t] - n
        BY <1>1, <1>4, <1>5
      <3>3. Alone!Ticks(x, k + n) = With(m, IF L[t] = 0 THEN 0 ELSE L[t] - n, t)
        <4> DEFINE l == L[t]
        <4>1. Alone!Ticks(x, k) = With(m, l, t) /\ l \in Nat /\ (l = 0 \/ n < l)
          BY <2>1, <3>1
        <4> HIDE DEF l
        <4>2. Alone!Ticks(x, k + n) = With(m, IF l = 0 THEN 0 ELSE l - n, t)
          BY <4>1, TicksPass
        <4> QED BY <4>2 DEF l
      <3> QED BY <1>7, <2>2, <2>3, <3>2, <3>3
    <2>4. CASE t \in Due(o, M)
      <3>1. Contains(m.tq, t) /\ L[t] = n /\ n > 0 /\ n - 1 \in Nat /\ n - 1 < L[t] /\ L[t] # 0
        BY <1>1, <1>2, <1>4, <1>5, <2>4 DEF Due
      <3>2. Alone!Ticks(x, k + (n - 1)) = With(m, 1, t)
        <4> DEFINE l == L[t]
                   j == n - 1
        <4>0. l \in Nat /\ j \in Nat /\ (l = 0 \/ j < l) /\ (IF l = 0 THEN 0 ELSE l - j) = 1
          BY <2>1, <3>1
        <4>1. Alone!Ticks(x, k) = With(m, l, t)
          BY <2>1
        <4> HIDE DEF l, j
        <4>2. Alone!Ticks(x, k + j) = With(m, IF l = 0 THEN 0 ELSE l - j, t)
          BY <4>0, <4>1, TicksPass
        <4>3. Alone!Ticks(x, k + j) = With(m, 1, t)
          BY <4>0, <4>2
        <4> QED BY <4>3 DEF j
      <3>3. k + (n - 1) \in Nat /\ (k + (n - 1)) + 1 = k + n
        BY <3>1
      <3>4. Alone!Ticks(x, (k + (n - 1)) + 1) = Alone!Tick(Alone!Ticks(x, k + (n - 1)))
        BY <3>3, TicksNext
      <3>5. Alone!Tick(With(m, 1, t)) = Alone!Expire(With(m, 1, t))
        BY TickWith
      <3>6. Alone!Expire(With(m, 1, t)) = Alone!Expire(With(m, M[t], t))
        BY <1>1, ExpireWith DEF Queue
      <3>7. View(r, R, t) = Alone!Expire(View(o, M, t))
        BY <1>7, <2>4
      <3> QED BY <2>2, <3>2, <3>3, <3>4, <3>5, <3>6, <3>7
    <2> QED BY <2>3, <2>4
  <1> QED BY <1>7, <1>8 DEF EachAlone, r

LEMMA NoneFiredIs ==
  ASSUME NEW m, NEW L, Timely(m, L), NEW r, r = NoneFired(m)
  PROVE  /\ Timely(r, L) /\ r.tq = m.tq /\ r.diffcnt = m.diffcnt
         /\ r.period = m.period /\ r.width = m.width /\ r.nxtdly = m.nxtdly /\ r.state = m.state
         /\ \A t \in Timers : /\ r.fired[t] = 0
                              /\ View(r, L, t) = [View(m, L, t) EXCEPT !.fired = 0]
                              /\ Alone!Ticks(View(m, L, t), 0) = View(r, L, t)
  <1>1. m \in TimersType /\ Adds(m.tq, m.diffcnt, L) /\ Phases(m)
    BY DEF Timely, Sane, Queue
  <1> DEFINE f == [t \in Timers |-> 0]
  <1>2. f \in [Timers -> Nat] /\ \A t \in Timers : f[t] = 0
    OBVIOUS
  <1>3. r = [m EXCEPT !.fired = f]
    BY DEF NoneFired
  <1> HIDE DEF f
  <1>4. /\ r \in TimersType /\ r.tq = m.tq /\ r.diffcnt = m.diffcnt /\ r.fired = f
        /\ r.period = m.period /\ r.width = m.width /\ r.nxtdly = m.nxtdly /\ r.state = m.state
    BY <1>1, <1>2, <1>3 DEF TimersType
  <1>5. Timely(r, L)
    BY <1>1, <1>4 DEF Timely, Sane, Queue, Phases
  <1>6. ASSUME NEW t \in Timers
        PROVE  View(r, L, t) = [View(m, L, t) EXCEPT !.fired = 0]
    BY <1>2, <1>4 DEF View
  <1>7. \A t \in Timers : Alone!Ticks(View(m, L, t), 0) = View(r, L, t)
    BY <1>6, TicksFirst
  <1> QED BY <1>2, <1>4, <1>5, <1>6, <1>7

\* The part of smx_KeepTimeLSRMain() that concerns timers.
LEMMA KeepTimersIs ==
  ASSUME NEW m, NEW L, Timely(m, L), NEW r, r = KeepTimers(m)
  PROVE  \E R : /\ Timely(r, R)
                /\ \A t \in Timers : View(r, R, t) = Alone!Ticks(View(m, L, t), 1)
  <1> DEFINE a == NoneFired(m)
  <1>1. r = Passed(a, 1)
    BY Zenon DEF KeepTimers, Passed
  <1>2. Timely(a, L) /\ \A t \in Timers : Alone!Ticks(View(m, L, t), 0) = View(a, L, t)
    <2>1. a = NoneFired(m)
      OBVIOUS
    <2> HIDE DEF a
    <2> QED BY <2>1, NoneFiredIs
  <1> HIDE DEF a
  <1>3. a.tq # <<>> => 1 <= L[a.tq[1]]
    <2> SUFFICES ASSUME a.tq # <<>> PROVE 1 <= L[a.tq[1]]
      OBVIOUS
    <2>1. a.tq \in Seq(Timers) /\ Queue(a, L)
      BY <1>2 DEF Timely, Sane, Queue, Adds
    <2>2. a.tq[1] \in Timers /\ Contains(a.tq, a.tq[1])
      BY <2>1 DEF Contains
    <2>3. L[a.tq[1]] > 0 /\ L[a.tq[1]] \in Nat
      BY <1>2, <2>1, <2>2, SaneFields DEF Timely
    <2> QED BY <2>3
  <1>4. EachAlone(a, L, 1, r)
    BY <1>1, <1>2, <1>3, TimePasses
  <1>5. PICK R : /\ Timely(r, R)
                 /\ \A x : \A t \in Timers, k \in Nat :
                      Alone!Ticks(x, k) = View(a, L, t) => Alone!Ticks(x, k + 1) = View(r, R, t)
    BY <1>4 DEF EachAlone
  <1>6. ASSUME NEW t \in Timers PROVE View(r, R, t) = Alone!Ticks(View(m, L, t), 1)
    <2>1. Alone!Ticks(View(m, L, t), 0) = View(a, L, t) /\ 0 \in Nat /\ 0 + 1 = 1
      BY <1>2
    <2> QED BY <1>5, <2>1
  <1> QED BY <1>5, <1>6

-----------------------------------------------------------------------------
(* smx_TickRecovery(): the timers. *)

\* The timers r as they are at time T, when etmr is the time the first of them
\* expires, and V what the timers were at first.
RecoveredTo(r, etmr, V, T, end) ==
  \E R : /\ Timely(r, R)
         /\ \A t \in Timers : Alone!Ticks(V[t], T - etime) = View(r, R, t)
         /\ \/ etmr = Never /\ T = end
            \/ r.tq # <<>> /\ etmr = T + R[r.tq[1]] /\ etmr <= end

LEMMA FirstLeft ==
  ASSUME NEW m, NEW L, Timely(m, L), m.tq # <<>>
  PROVE  /\ Head(m.tq) = m.tq[1] /\ m.tq[1] \in Timers
         /\ L[m.tq[1]] \in Nat /\ L[m.tq[1]] > 0 /\ L[m.tq[1]] < Word
         /\ m.diffcnt[m.tq[1]] = L[m.tq[1]]
  <1>1. m.tq \in Seq(Timers) /\ Queue(m, L) /\ Adds(m.tq, m.diffcnt, L)
    BY DEF Timely, Sane, Queue, Adds
  <1>2. Len(m.tq) \in Nat /\ 1 \in 1..Len(m.tq) /\ Head(m.tq) = m.tq[1]
    BY <1>1
  <1>3. /\ m.tq[1] \in Timers /\ L[m.tq[1]] \in Nat /\ L[m.tq[1]] < Word
        /\ m.diffcnt[m.tq[1]] = L[m.tq[1]] - Before(m.tq, L, 1)
    BY <1>1, <1>2, AddsTypes
  <1>4. L[m.tq[1]] > 0
    BY <1>2, <1>3 DEF Timely, Contains
  <1> QED BY <1>2, <1>3, <1>4 DEF Before

\* The ticks up to a time before the first timer expires.
LEMMA PassedEarly ==
  ASSUME NEW m, NEW L, Timely(m, L), NEW n \in Nat, m.tq # <<>> => n < L[m.tq[1]]
  PROVE  Passed(m, n) = Advance(m, n)
  <1> DEFINE o == Advance(m, n)
  <1>0. Queue(m, L)
    BY DEF Timely, Sane
  <1>1. m.tq # <<>> => n <= L[m.tq[1]]
    BY FirstLeft
  <1>2. o = Advance(m, n)
    OBVIOUS
  <1>3. Passed(m, n) = IF FirstExpired(o) THEN TimerTimeout(o) ELSE o
    BY Zenon DEF Passed
  <1> HIDE DEF o
  <1>4. Queue(o, Shifted(m.tq, L, n)) /\ o.tq = m.tq
    BY <1>0, <1>1, <1>2, AdvanceIs
  <1>5. ~FirstExpired(o)
    <2> SUFFICES ASSUME FirstExpired(o) PROVE FALSE
      OBVIOUS
    <2>1. m.tq # <<>> /\ Shifted(m.tq, L, n)[m.tq[1]] = 0
      BY <1>4, FirstExpiredIs
    <2>2. m.tq[1] \in Timers /\ L[m.tq[1]] \in Nat /\ Contains(m.tq, m.tq[1])
      <3>1. m.tq \in Seq(Timers)
        BY <1>0 DEF Queue, Adds
      <3>2. Len(m.tq) \in Nat /\ 1 \in 1..Len(m.tq)
        BY <2>1, <3>1
      <3> QED BY <2>1, <3>2, FirstLeft DEF Contains
    <2>3. L[m.tq[1]] - n = 0
      BY <2>1, <2>2 DEF Shifted
    <2> QED BY <2>1, <2>2, <2>3
  <1> QED BY <1>2, <1>3, <1>5

LEMMA RemainingIs ==
  ASSUME NEW m, NEW L, Timely(m, L), NEW V, NEW now \in Nat, NEW end \in Nat,
         etime \in Nat, etime <= now, now <= end, end < INF,
         \A t \in Timers : Alone!Ticks(V[t], now - etime) = View(m, L, t),
         NEW r, r = Remaining(m, now, end), NEW x, x = NextTimer(m, now, end)
  PROVE  \E T \in Nat : now <= T /\ T <= end /\ RecoveredTo(r, x, V, T, end)
  <1>1. CASE m.tq # <<>> /\ L[m.tq[1]] <= end - now
    <2>1. x = now + L[m.tq[1]] /\ x <= end /\ x # Never
      BY <1>1, FirstLeft, WordType DEF NextTimer, Never
    <2>2. r = m
      BY <2>1 DEF Remaining
    <2>3. RecoveredTo(r, x, V, now, end)
      BY <1>1, <2>1, <2>2 DEF RecoveredTo
    <2> QED BY <2>3
  <1>2. CASE ~(m.tq # <<>> /\ L[m.tq[1]] <= end - now)
    <2> DEFINE n == end - now
    <2>1. n \in Nat /\ (now - etime) + n = end - etime /\ now - etime \in Nat
      OBVIOUS
    <2>2. x = Never
      BY <1>2, FirstLeft DEF NextTimer
    <2>3. m.tq # <<>> => n < L[m.tq[1]]
      BY <1>2, FirstLeft
    <2>4. m.tq # <<>> => n <= L[m.tq[1]]
      BY <2>1, <2>3, FirstLeft
    <2>5. r = Advance(m, n)
      BY <2>2 DEF Remaining
    <2> HIDE DEF n
    <2>6. r = Passed(m, n)
      BY <2>1, <2>3, <2>5, PassedEarly
    <2>7. EachAlone(m, L, n, r)
      BY <2>1, <2>4, <2>6, TimePasses
    <2>8. PICK R : /\ Timely(r, R)
                   /\ \A y : \A t \in Timers, k \in Nat :
                        Alone!Ticks(y, k) = View(m, L, t) => Alone!Ticks(y, k + n) = View(r, R, t)
      BY <2>7 DEF EachAlone
    <2>9. \A t \in Timers : Alone!Ticks(V[t], end - etime) = View(r, R, t)
      BY <2>1, <2>8
    <2>10. RecoveredTo(r, x, V, end, end)
      BY <2>2, <2>8, <2>9 DEF RecoveredTo
    <2> QED BY <2>10
  <1> QED BY <1>1, <1>2

\* A round for the timers: time gets on.
LEMMA TimersRecover ==
  ASSUME NEW m, NEW etmr, NEW V, NEW T \in Nat, NEW end \in Nat, etime \in Nat, etime <= T, T <= end, end < INF,
         RecoveredTo(m, etmr, V, T, end), etmr <= end,
         NEW o, o = TimerTimeout([m EXCEPT !.diffcnt[Head(m.tq)] = 0]),
         NEW r, r = Remaining(o, etmr, end), NEW x, x = NextTimer(o, etmr, end)
  PROVE  \E U \in Nat : T < U /\ U <= end /\ RecoveredTo(r, x, V, U, end)
  <1>1. PICK L : /\ Timely(m, L)
                 /\ \A t \in Timers : Alone!Ticks(V[t], T - etime) = View(m, L, t)
                 /\ \/ etmr = Never /\ T = end
                    \/ m.tq # <<>> /\ etmr = T + L[m.tq[1]] /\ etmr <= end
    BY DEF RecoveredTo
  <1>2. m.tq # <<>> /\ etmr = T + L[m.tq[1]] /\ etmr <= end
    BY <1>1, WordType DEF Never
  <1> DEFINE n == L[m.tq[1]]
             a == [m EXCEPT !.diffcnt[Head(m.tq)] = 0]
  <1>3. /\ Head(m.tq) = m.tq[1] /\ m.tq[1] \in Timers
        /\ n \in Nat /\ n > 0 /\ n < Word /\ m.diffcnt[m.tq[1]] = n
    BY <1>1, <1>2, FirstLeft
  <1>4. a = Advance(m, n)
    <2>1. Advance(m, n) = [m EXCEPT !.diffcnt[Head(m.tq)] = (m.diffcnt[Head(m.tq)] - n) % Word]
      BY <1>2 DEF Advance
    <2>2. (m.diffcnt[Head(m.tq)] - n) % Word = 0
      BY <1>3, ModWord, ZeroIsAWord, WordType
    <2> QED BY <2>1, <2>2
  <1>5. Timely(m, L) /\ Queue(m, L) /\ n \in Nat /\ m.tq # <<>> /\ n <= L[m.tq[1]]
    BY <1>1, <1>2, <1>3 DEF Timely, Sane
  <1>6. o = TimerTimeout(a)
    OBVIOUS
  <1>7. n = L[m.tq[1]]
    OBVIOUS
  <1> HIDE DEF n, a
  <1>8. Queue(a, Shifted(m.tq, L, n)) /\ a.tq = m.tq
    BY <1>4, <1>5, AdvanceIs
  <1>9. FirstExpired(a)
    <2>1. m.tq \in Seq(Timers)
      BY <1>5 DEF Queue, Adds
    <2>2. Len(m.tq) \in Nat /\ 1 \in 1..Len(m.tq)
      BY <1>2, <2>1
    <2>3. Contains(m.tq, m.tq[1])
      BY <2>2 DEF Contains
    <2>4. Shifted(m.tq, L, n)[m.tq[1]] = 0
      BY <1>3, <1>7, <2>3 DEF Shifted
    <2>5. m.tq[1] \in Due(a, Shifted(m.tq, L, n))
      BY <1>3, <1>8, <2>3, <2>4 DEF Due
    <2> QED BY <1>8, <2>5, FirstExpiredIs
  <1>10. o = Passed(m, n)
    BY <1>4, <1>6, <1>9, Zenon DEF Passed
  <1>11. EachAlone(m, L, n, o)
    BY <1>5, <1>10, TimePasses
  <1>12. PICK R : /\ Timely(o, R)
                  /\ \A y : \A t \in Timers, k \in Nat :
                       Alone!Ticks(y, k) = View(m, L, t) => Alone!Ticks(y, k + n) = View(o, R, t)
    BY <1>11 DEF EachAlone
  <1>13. /\ etmr \in Nat /\ etime <= etmr /\ etmr <= end /\ T < etmr
         /\ T - etime \in Nat /\ (T - etime) + n = etmr - etime
    BY <1>2, <1>3, <1>7
  <1>14. \A t \in Timers : Alone!Ticks(V[t], etmr - etime) = View(o, R, t)
    BY <1>1, <1>12, <1>13
  <1>15. \E U \in Nat : etmr <= U /\ U <= end /\ RecoveredTo(r, x, V, U, end)
    BY <1>12, <1>13, <1>14, RemainingIs
  <1> QED BY <1>13, <1>15

-----------------------------------------------------------------------------
(* smx_TickRecovery(): the timeouts. *)

\* The timeouts that are not later than end.
DueBy(o, end) == {t \in Tasks : o.timeout[t] <= end}

\* smx_tmo_min is the timeout of the task at smx_tmo_indx no longer.
Stale(o) == IF o.timeout[o.indx] = o.min THEN 0 ELSE 1

\* The timeouts o, on the way from p, when etmo is the time of the next one.
WaitsTo(o, etmo, p, end) ==
  /\ o \in Timeouts /\ \A t \in Tasks : o.min <= o.timeout[t]
  /\ o.ended \subseteq DueBy(p, end)
  /\ \A t \in Tasks : o.timeout[t] = IF t \in o.ended THEN INF ELSE p.timeout[t]
  /\ etmo = o.min \/ (etmo = Never /\ o.min > end)

LEMMA TasksAreFinite ==
  ASSUME NEW o, NEW end
  PROVE  /\ IsFiniteSet(DueBy(o, end)) /\ Cardinality(DueBy(o, end)) \in Nat
         /\ Cardinality(DueBy(o, end)) <= NumTasks
         /\ \A t \in DueBy(o, end) : Cardinality(DueBy(o, end) \ {t}) = Cardinality(DueBy(o, end)) - 1
         /\ DueBy(o, end) # {} => Cardinality(DueBy(o, end)) > 0
  <1>1. NumTasks \in Nat /\ NumTasks - 1 \in Int /\ (NumTasks - 1) - 0 + 1 = NumTasks /\ 0 <= NumTasks - 1
    BY TimeoutAssumption
  <1>2. IsFiniteSet(Tasks) /\ Cardinality(Tasks) = NumTasks
    BY <1>1, FS_Interval DEF Tasks
  <1>3. DueBy(o, end) \subseteq Tasks
    BY DEF DueBy
  <1>4. IsFiniteSet(DueBy(o, end)) /\ Cardinality(DueBy(o, end)) <= NumTasks
    BY <1>2, <1>3, FS_Subset
  <1>5. Cardinality(DueBy(o, end)) \in Nat
    BY <1>4, FS_CardinalityType
  <1>6. \A t \in DueBy(o, end) : Cardinality(DueBy(o, end) \ {t}) = Cardinality(DueBy(o, end)) - 1
    BY <1>4, FS_RemoveElement
  <1>7. DueBy(o, end) # {} => Cardinality(DueBy(o, end)) > 0
    BY <1>4, <1>5, FS_EmptySet
  <1> QED BY <1>4, <1>5, <1>6, <1>7

\* A round for the timeouts: a task is resumed, or smx_tmo_min is put right.
LEMMA WaitsRecover ==
  ASSUME NEW o, NEW etmo, NEW p \in Timeouts, NEW end \in Nat, end < INF, WaitsTo(o, etmo, p, end), etmo <= end,
         NEW r, r = TaskTimeout(o)
  PROVE  /\ WaitsTo(r, r.min, p, end)
         /\ Cardinality(DueBy(r, end)) + Stale(r) < Cardinality(DueBy(o, end)) + Stale(o)
  <1>1. /\ o \in Timeouts /\ \A t \in Tasks : o.min <= o.timeout[t]
        /\ o.ended \subseteq DueBy(p, end)
        /\ \A t \in Tasks : o.timeout[t] = IF t \in o.ended THEN INF ELSE p.timeout[t]
    BY DEF WaitsTo
  <1>2. o.min <= end
    BY WordType DEF WaitsTo, Never
  <1>3. /\ r \in Timeouts
        /\ r.timeout = IF o.timeout[o.indx] = o.min THEN [o.timeout EXCEPT ![o.indx] = INF] ELSE o.timeout
        /\ r.ended = IF o.timeout[o.indx] = o.min THEN o.ended \union {o.indx} ELSE o.ended
        /\ \A u \in Tasks : r.min <= r.timeout[u]
        /\ r.timeout[r.indx] = r.min
    BY <1>1, TaskTimeoutFacts
  <1>4. Stale(r) = 0
    BY <1>3 DEF Stale
  <1>5. /\ Cardinality(DueBy(r, end)) \in Nat /\ Cardinality(DueBy(o, end)) \in Nat
    BY TasksAreFinite
  <1>6. o.indx \in Tasks /\ o.timeout \in [Tasks -> 0..INF] /\ INF \in Nat
    BY <1>1, WordType DEF Timeouts
  <1>7. CASE o.timeout[o.indx] = o.min
    <2>1. \A t \in Tasks : r.timeout[t] = IF t = o.indx THEN INF ELSE o.timeout[t]
      BY <1>3, <1>6, <1>7
    <2>2. DueBy(r, end) = DueBy(o, end) \ {o.indx} /\ o.indx \in DueBy(o, end)
      BY <1>2, <1>6, <1>7, <2>1 DEF DueBy
    <2>3. Cardinality(DueBy(r, end)) = Cardinality(DueBy(o, end)) - 1
      BY <2>2, TasksAreFinite
    <2>4. Stale(o) = 0
      BY <1>7 DEF Stale
    <2>5. o.indx \in DueBy(p, end)
      <3>1. o.timeout[o.indx] # INF
        BY <1>2, <1>6, <1>7
      <3>2. p.timeout[o.indx] = o.timeout[o.indx]
        BY <1>1, <1>6, <3>1
      <3> QED BY <1>2, <1>6, <1>7, <3>2 DEF DueBy
    <2>6. r.ended = o.ended \union {o.indx}
      BY <1>3, <1>7
    <2>7. \A t \in Tasks : r.timeout[t] = IF t \in r.ended THEN INF ELSE p.timeout[t]
      BY <1>1, <2>1, <2>6
    <2>8. WaitsTo(r, r.min, p, end)
      BY <1>1, <1>3, <2>5, <2>6, <2>7 DEF WaitsTo
    <2> QED BY <1>4, <1>5, <2>3, <2>4, <2>8
  <1>8. CASE o.timeout[o.indx] # o.min
    <2>1. r.timeout = o.timeout /\ r.ended = o.ended
      BY <1>3, <1>8
    <2>2. DueBy(r, end) = DueBy(o, end)
      BY <2>1 DEF DueBy
    <2>3. Stale(o) = 1
      BY <1>8 DEF Stale
    <2>4. WaitsTo(r, r.min, p, end)
      BY <1>1, <1>3, <2>1 DEF WaitsTo
    <2> QED BY <1>4, <1>5, <2>2, <2>3, <2>4
  <1> QED BY <1>7, <1>8

-----------------------------------------------------------------------------
(* smx_TickRecovery() *)

\* The state s of the recovery, from timers V and timeouts p, when the timers
\* are as they are at time T; and how many rounds there still may be.
Recovering(s, V, p, T, end) ==
  /\ s = [tm |-> s.tm, to |-> s.to, etmr |-> s.etmr, etmo |-> s.etmo]
  /\ T \in Nat /\ etime <= T /\ T <= end
  /\ RecoveredTo(s.tm, s.etmr, V, T, end)
  /\ WaitsTo(s.to, s.etmo, p, end)

Ahead(s, T, end) == (end - T) + Cardinality(DueBy(s.to, end)) + Stale(s.to)

Recovered(s, end) == ~(s.etmr <= end \/ s.etmo <= end)

LEMMA NextTimes ==
  ASSUME NEW s, NEW V, NEW p, NEW T, NEW end \in Nat, Recovering(s, V, p, T, end)
  PROVE  /\ s.etmr \in Nat /\ s.etmo \in Nat /\ s.to.min \in Nat /\ s.to \in Timeouts
         /\ Cardinality(DueBy(s.to, end)) \in Nat /\ Stale(s.to) \in {0, 1} /\ Ahead(s, T, end) \in Nat
  <1>1. s.to \in Timeouts /\ s.to.min \in Nat /\ s.etmo \in Nat
    BY WordType DEF Recovering, WaitsTo, Timeouts, Never
  <1>2. PICK R : /\ Timely(s.tm, R)
                 /\ \/ s.etmr = Never /\ T = end
                    \/ s.tm.tq # <<>> /\ s.etmr = T + R[s.tm.tq[1]] /\ s.etmr <= end
    BY DEF Recovering, RecoveredTo
  <1>3. T \in Nat /\ T <= end
    BY DEF Recovering
  <1>4. s.etmr \in Nat
    <2>1. CASE s.tm.tq # <<>>
      <3>1. R[s.tm.tq[1]] \in Nat
        BY <1>2, <2>1, FirstLeft
      <3> QED BY <1>2, <1>3, <3>1, WordType DEF Never
    <2>2. CASE s.tm.tq = <<>>
      BY <1>2, <2>2, WordType DEF Never
    <2> QED BY <2>1, <2>2
  <1>5. Cardinality(DueBy(s.to, end)) \in Nat /\ Stale(s.to) \in {0, 1}
    BY TasksAreFinite DEF Stale
  <1>6. Ahead(s, T, end) \in Nat
    BY <1>3, <1>5 DEF Ahead
  <1> QED BY <1>1, <1>4, <1>5, <1>6

LEMMA OneRecovers ==
  ASSUME NEW s, NEW V, NEW p \in Timeouts, NEW T, NEW end \in Nat, etime \in Nat, end < INF,
         Recovering(s, V, p, T, end), ~Recovered(s, end), NEW r, r = Turn("recovery", end, s)
  PROVE  \E U : Recovering(r, V, p, U, end) /\ Ahead(r, U, end) < Ahead(s, T, end)
  <1>1. /\ s.etmr \in Nat /\ s.etmo \in Nat /\ s.to.min \in Nat /\ s.to \in Timeouts
        /\ Cardinality(DueBy(s.to, end)) \in Nat /\ Stale(s.to) \in {0, 1} /\ Ahead(s, T, end) \in Nat
    BY NextTimes
  <1>2. /\ s = [tm |-> s.tm, to |-> s.to, etmr |-> s.etmr, etmo |-> s.etmo]
        /\ T \in Nat /\ etime <= T /\ T <= end
        /\ RecoveredTo(s.tm, s.etmr, V, T, end)
        /\ WaitsTo(s.to, s.etmo, p, end)
    BY DEF Recovering
  <1>3. r = Recover(s, end)
    BY DEF Turn, Recovered
  <1>4. CASE s.etmr <= s.etmo
    <2> DEFINE o == TimerTimeout([s.tm EXCEPT !.diffcnt[Head(s.tm.tq)] = 0])
               q == Remaining(o, s.etmr, end)
               x == NextTimer(o, s.etmr, end)
    <2>1. r = [s EXCEPT !.tm = q, !.etmr = x]
      BY <1>3, <1>4, Zenon DEF Recover
    <2>2. s.etmr <= end
      BY <1>1, <1>4 DEF Recovered
    <2>3. \E U \in Nat : T < U /\ U <= end /\ RecoveredTo(q, x, V, U, end)
      BY <1>2, <2>2, TimersRecover
    <2> HIDE DEF q, x
    <2>4. /\ r.tm = q /\ r.to = s.to /\ r.etmr = x /\ r.etmo = s.etmo
          /\ r = [tm |-> r.tm, to |-> r.to, etmr |-> r.etmr, etmo |-> r.etmo]
      <3> DEFINE a == s.tm
                 b == s.to
                 c == s.etmr
                 d == s.etmo
      <3>1. s = [tm |-> a, to |-> b, etmr |-> c, etmo |-> d]
        BY <1>2
      <3> HIDE DEF a, b, c, d
      <3>2. r.tm = q /\ r.to = b /\ r.etmr = x /\ r.etmo = d
        BY <2>1, <3>1
      <3>3. r \in [tm : {q}, to : {b}, etmr : {x}, etmo : {d}]
        BY <2>1, <3>1
      <3>4. r = [tm |-> q, to |-> b, etmr |-> x, etmo |-> d]
        BY <3>3
      <3> QED BY <3>2, <3>4 DEF b, d
    <2>5. PICK U \in Nat : T < U /\ U <= end /\ RecoveredTo(q, x, V, U, end)
      BY <2>3
    <2>6. Recovering(r, V, p, U, end)
      BY <1>2, <2>4, <2>5 DEF Recovering
    <2>7. Ahead(r, U, end) < Ahead(s, T, end)
      BY <1>1, <1>2, <2>4, <2>5 DEF Ahead
    <2> QED BY <2>6, <2>7
  <1>5. CASE ~(s.etmr <= s.etmo)
    <2> DEFINE o == TaskTimeout(s.to)
    <2>1. r = [s EXCEPT !.to = o, !.etmo = o.min]
      BY <1>3, <1>5, Zenon DEF Recover
    <2>2. s.etmo <= end
      BY <1>1, <1>5 DEF Recovered
    <2>3. /\ WaitsTo(o, o.min, p, end)
          /\ Cardinality(DueBy(o, end)) + Stale(o) < Cardinality(DueBy(s.to, end)) + Stale(s.to)
      BY <1>2, <2>2, WaitsRecover
    <2> HIDE DEF o
    <2>4. /\ r.tm = s.tm /\ r.to = o /\ r.etmr = s.etmr /\ r.etmo = o.min
          /\ r = [tm |-> r.tm, to |-> r.to, etmr |-> r.etmr, etmo |-> r.etmo]
      <3> DEFINE a == s.tm
                 b == s.to
                 c == s.etmr
                 d == s.etmo
                 y == o.min
      <3>1. s = [tm |-> a, to |-> b, etmr |-> c, etmo |-> d] /\ r = [s EXCEPT !.to = o, !.etmo = y]
        BY <1>2, <2>1
      <3> HIDE DEF a, b, c, d, y
      <3>2. r.tm = a /\ r.to = o /\ r.etmr = c /\ r.etmo = y
        BY <3>1
      <3>3. r \in [tm : {a}, to : {o}, etmr : {c}, etmo : {y}]
        BY <3>1
      <3>4. r = [tm |-> a, to |-> o, etmr |-> c, etmo |-> y]
        BY <3>3
      <3> QED BY <3>2, <3>4 DEF a, c, y
    <2>5. Recovering(r, V, p, T, end)
      BY <1>2, <2>3, <2>4 DEF Recovering
    <2>6. Ahead(r, T, end) < Ahead(s, T, end)
      <3>1. Cardinality(DueBy(o, end)) \in Nat /\ Stale(o) \in {0, 1}
        BY TasksAreFinite DEF Stale
      <3> QED BY <1>1, <1>2, <2>3, <2>4, <3>1 DEF Ahead
    <2> QED BY <2>5, <2>6
  <1> QED BY <1>4, <1>5

LEMMA NoneAhead ==
  ASSUME NEW s, NEW V, NEW p \in Timeouts, NEW T, NEW end \in Nat, end < INF,
         Recovering(s, V, p, T, end), Ahead(s, T, end) = 0
  PROVE  Recovered(s, end)
  <1>1. /\ s.etmr \in Nat /\ s.etmo \in Nat /\ s.to.min \in Nat /\ s.to \in Timeouts
        /\ Cardinality(DueBy(s.to, end)) \in Nat /\ Stale(s.to) \in {0, 1}
    BY NextTimes
  <1>2. /\ T \in Nat /\ T <= end
        /\ RecoveredTo(s.tm, s.etmr, V, T, end)
        /\ WaitsTo(s.to, s.etmo, p, end)
    BY DEF Recovering
  <1>3. T = end /\ Cardinality(DueBy(s.to, end)) = 0 /\ Stale(s.to) = 0
    BY <1>1, <1>2 DEF Ahead
  <1>4. ~(s.etmr <= end)
    <2>1. PICK R : /\ Timely(s.tm, R)
                   /\ \/ s.etmr = Never /\ T = end
                      \/ s.tm.tq # <<>> /\ s.etmr = T + R[s.tm.tq[1]] /\ s.etmr <= end
      BY <1>2 DEF RecoveredTo
    <2>2. CASE s.etmr = Never
      BY <2>2, WordType DEF Never
    <2>3. CASE s.tm.tq # <<>> /\ s.etmr = T + R[s.tm.tq[1]]
      <3>1. R[s.tm.tq[1]] \in Nat /\ R[s.tm.tq[1]] > 0
        BY <2>1, <2>3, FirstLeft
      <3> QED BY <1>3, <2>3, <3>1
    <2> QED BY <2>1, <2>2, <2>3
  <1>5. ~(s.etmo <= end)
    <2> SUFFICES ASSUME s.etmo <= end PROVE FALSE
      OBVIOUS
    <2>1. s.to.min <= end
      BY <1>2, WordType DEF WaitsTo, Never
    <2>2. s.to.indx \in Tasks /\ s.to.timeout[s.to.indx] = s.to.min
      BY <1>1, <1>3 DEF Stale, Timeouts
    <2>3. s.to.indx \in DueBy(s.to, end)
      BY <2>1, <2>2 DEF DueBy
    <2> QED BY <1>3, <2>3, TasksAreFinite
  <1> QED BY <1>4, <1>5 DEF Recovered

LEMMA RoundsSuffice ==
  ASSUME NEW h, NEW V, NEW p \in Timeouts, NEW end \in Nat, etime \in Nat, end < INF, NEW x, NEW n \in Nat,
         IsLoop(h, "recovery", end, x, n),
         NEW T, Recovering(x, V, p, T, end), Ahead(x, T, end) <= n
  PROVE  \E U : Recovering(h[n], V, p, U, end) /\ Recovered(h[n], end)
  <1>1. h[0] = x /\ \A i \in 1..n : h[i] = Turn("recovery", end, h[i - 1])
    BY LoopTurns
  <1> DEFINE P(i) == \E U : /\ Recovering(h[i], V, p, U, end)
                            /\ Recovered(h[i], end) \/ Ahead(h[i], U, end) + i <= n
             S == {i \in Nat : i <= n /\ ~P(i)}
  <1>2. P(0)
    <2>1. Ahead(x, T, end) \in Nat
      BY NextTimes
    <2>2. Ahead(x, T, end) + 0 <= n
      BY <2>1
    <2> QED BY <1>1, <2>2
  <1>3. ASSUME NEW i \in 1..n, P(i - 1) PROVE P(i)
    <2> DEFINE s == h[i - 1]
               r == h[i]
    <2>1. PICK U : /\ Recovering(s, V, p, U, end)
                   /\ Recovered(s, end) \/ Ahead(s, U, end) + (i - 1) <= n
      BY <1>3
    <2>2. r = Turn("recovery", end, s)
      BY <1>1
    <2> HIDE DEF s, r
    <2>3. CASE Recovered(s, end)
      <3>1. r = s
        BY <2>2, <2>3 DEF Turn, Recovered
      <3> QED BY <2>1, <2>3, <3>1 DEF r
    <2>4. CASE ~Recovered(s, end)
      <3>1. PICK W1 : Recovering(r, V, p, W1, end) /\ Ahead(r, W1, end) < Ahead(s, U, end)
        BY <2>1, <2>2, <2>4, OneRecovers
      <3>2. Ahead(r, W1, end) \in Nat /\ Ahead(s, U, end) \in Nat
        BY <2>1, <3>1, NextTimes
      <3>3. Ahead(r, W1, end) + i <= n
        BY <2>1, <2>4, <3>1, <3>2
      <3> QED BY <3>1, <3>3 DEF r
    <2> QED BY <2>3, <2>4
  <1>4. P(n)
    <2> SUFFICES ASSUME ~P(n) PROVE FALSE
      OBVIOUS
    <2>1. S \in SUBSET Nat /\ S # {}
      <3> HIDE DEF P
      <3> QED OBVIOUS
    <2>2. PICK i \in S : \A j \in S : i <= j
      <3> HIDE DEF S
      <3> QED BY <2>1, LeastNumber
    <2>3. i \in Nat /\ i <= n /\ ~P(i)
      <3> HIDE DEF P
      <3> QED OBVIOUS
    <2>4. i \in 1..n /\ i - 1 \in Nat /\ i - 1 <= n /\ ~(i <= i - 1)
      <3> HIDE DEF P
      <3> QED BY <1>2, <2>3
    <2>5. P(i - 1)
      <3> HIDE DEF P
      <3> QED BY <2>2, <2>4
    <2> HIDE DEF P
    <2> QED BY <1>3, <2>3, <2>4, <2>5
  <1>5. PICK U : /\ Recovering(h[n], V, p, U, end)
                 /\ Recovered(h[n], end) \/ Ahead(h[n], U, end) + n <= n
    BY <1>4
  <1>6. Recovered(h[n], end)
    <2>1. Ahead(h[n], U, end) \in Nat
      BY <1>5, NextTimes
    <2>2. ~Recovered(h[n], end) => Ahead(h[n], U, end) = 0
      BY <1>5, <2>1
    <2> QED BY <1>5, <2>2, NoneAhead
  <1> QED BY <1>5, <1>6

\* After n lost ticks each timer is what it would be on its own, and just the
\* waits that were due have ended.
LEMMA TickRecoveryIs ==
  ASSUME TimeoutInv, NEW L, Timely(tm, L), NEW n \in Nat, etime + n <= Half + Lag,
         NEW s, s = TickRecovery(n)
  PROVE  /\ \E R : /\ Timely(s.tm, R)
                   /\ \A t \in Timers : View(s.tm, R, t) = Alone!Ticks(View(tm, L, t), n)
         /\ s.to \in Timeouts /\ s.to.ended = DueBy(to, etime + n)
         /\ \A t \in Tasks : s.to.timeout[t] = IF t \in s.to.ended THEN INF ELSE to.timeout[t]
         /\ \A t \in Tasks : s.to.min <= s.to.timeout[t]
         /\ s.to.min > etime + n
  <1> DEFINE end == etime + n
             V == [t \in Timers |-> View(tm, L, t)]
             c == n + NumTasks + 1
             a == NoneFired(tm)
             b == Quiet(to)
             x == [ tm   |-> Remaining(a, etime, end),
                    to   |-> b,
                    etmr |-> NextTimer(tm, etime, end),
                    etmo |-> IF to.min <= end THEN to.min ELSE Never ]
  <1>1. /\ to \in Timeouts /\ etime \in Nat /\ end \in Nat /\ etime <= end /\ end < INF /\ c \in Nat
        /\ \A t \in Tasks : to.min <= to.timeout[t]
        /\ NumTasks \in Nat
    BY WordAssumption, TimeoutAssumption
       DEF TimeoutInv, TimeoutType, MinBelow, Timeouts, INF, Word
  <1>2. PICK h : IsLoop(h, "recovery", end, x, c) /\ s = h[c]
    BY RecoveryLoop
  <1>3. /\ b \in Timeouts /\ b.timeout = to.timeout /\ b.min = to.min /\ b.indx = to.indx /\ b.ended = {}
    BY <1>1, QuietFields
  <1>4. /\ Timely(a, L) /\ a.tq = tm.tq /\ a.diffcnt = tm.diffcnt
        /\ \A t \in Timers : Alone!Ticks(View(tm, L, t), 0) = View(a, L, t)
    <2>1. a = NoneFired(tm)
      OBVIOUS
    <2> HIDE DEF a
    <2> QED BY <2>1, NoneFiredIs
  <1> DEFINE q == Remaining(a, etime, end)
             y == NextTimer(a, etime, end)
             z == IF to.min <= end THEN to.min ELSE Never
  <1>5. y = NextTimer(tm, etime, end)
    BY <1>4 DEF NextTimer
  <1>6. q = Remaining(a, etime, end) /\ y = NextTimer(a, etime, end)
    OBVIOUS
  <1>7. x = [tm |-> q, to |-> b, etmr |-> y, etmo |-> z]
    BY <1>5
  <1>8. \A t \in Timers : V[t] = View(tm, L, t)
    OBVIOUS
  <1> HIDE DEF end, V, c, a, b, x, q, y
  <1>9. \A t \in Timers : Alone!Ticks(V[t], etime - etime) = View(a, L, t)
    <2>1. etime - etime = 0
      BY <1>1
    <2> QED BY <1>4, <1>8, <2>1
  <1>10. \E T \in Nat : etime <= T /\ T <= end /\ RecoveredTo(q, y, V, T, end)
    <2>1. /\ Timely(a, L) /\ etime \in Nat /\ end \in Nat /\ etime <= etime /\ etime <= end /\ end < INF
      BY <1>1, <1>4
    <2> QED BY <1>6, <1>9, <2>1, RemainingIs
  <1>11. WaitsTo(b, z, to, end)
    <2>1. z = b.min \/ (z = Never /\ b.min > end)
      BY <1>1, <1>3, WordType DEF Timeouts
    <2> HIDE DEF z
    <2>2. b.ended \subseteq DueBy(to, end)
      BY <1>3
    <2> QED BY <1>1, <1>3, <2>1, <2>2 DEF WaitsTo
  <1> HIDE DEF z
  <1>12. PICK T \in Nat : etime <= T /\ T <= end /\ RecoveredTo(q, y, V, T, end)
    BY <1>10
  <1>13. x.tm = q /\ x.to = b /\ x.etmr = y /\ x.etmo = z
    BY <1>7
  <1>14. Recovering(x, V, to, T, end)
    BY <1>7, <1>11, <1>12, <1>13 DEF Recovering
  <1>15. Ahead(x, T, end) <= c
    <2>1. /\ Cardinality(DueBy(b, end)) \in Nat /\ Cardinality(DueBy(b, end)) <= NumTasks
          /\ Stale(b) \in {0, 1}
      BY TasksAreFinite DEF Stale
    <2>2. end - T <= n
      BY <1>1, <1>12 DEF end
    <2> QED BY <1>1, <1>12, <1>13, <2>1, <2>2 DEF Ahead, c
  <1>16. PICK U : Recovering(s, V, to, U, end) /\ Recovered(s, end)
    <2>1. \E U : Recovering(h[c], V, to, U, end) /\ Recovered(h[c], end)
      BY <1>1, <1>2, <1>14, <1>15, RoundsSuffice
    <2> QED BY <1>2, <2>1
  <1>17. /\ U \in Nat /\ RecoveredTo(s.tm, s.etmr, V, U, end) /\ WaitsTo(s.to, s.etmo, to, end)
         /\ ~(s.etmr <= end) /\ ~(s.etmo <= end)
    BY <1>16 DEF Recovering, Recovered
  <1>18. \E R : /\ Timely(s.tm, R)
                /\ \A t \in Timers : View(s.tm, R, t) = Alone!Ticks(View(tm, L, t), n)
    <2>1. PICK R : /\ Timely(s.tm, R)
                   /\ \A t \in Timers : Alone!Ticks(V[t], U - etime) = View(s.tm, R, t)
                   /\ \/ s.etmr = Never /\ U = end
                      \/ s.tm.tq # <<>> /\ s.etmr = U + R[s.tm.tq[1]] /\ s.etmr <= end
      BY <1>17 DEF RecoveredTo
    <2>2. U - etime = n
      BY <1>1, <1>17, <2>1 DEF end
    <2> QED BY <1>8, <2>1, <2>2
  <1>19. s.to.min > end
    <2>1. s.etmo = s.to.min \/ s.to.min > end
      BY <1>17 DEF WaitsTo
    <2>2. s.etmo \in Nat /\ s.to.min \in Nat
      BY <1>1, <1>16, NextTimes
    <2> QED BY <1>1, <1>17, <2>1, <2>2
  <1>20. /\ s.to \in Timeouts /\ \A t \in Tasks : s.to.min <= s.to.timeout[t]
         /\ s.to.ended \subseteq DueBy(to, end)
         /\ \A t \in Tasks : s.to.timeout[t] = IF t \in s.to.ended THEN INF ELSE to.timeout[t]
    BY <1>17 DEF WaitsTo
  <1>21. ASSUME NEW t \in DueBy(to, end) PROVE t \in s.to.ended
    <2>1. t \in Tasks /\ to.timeout[t] <= end
      BY DEF DueBy
    <2>2. /\ s.to.min <= s.to.timeout[t] /\ s.to.min \in Nat
          /\ s.to.timeout[t] \in Nat /\ to.timeout[t] \in Nat
      BY <1>1, <1>20, <2>1, WordType DEF Timeouts
    <2>3. s.to.timeout[t] # to.timeout[t]
      BY <1>1, <1>19, <2>1, <2>2
    <2> QED BY <1>20, <2>1, <2>3
  <1> QED BY <1>18, <1>19, <1>20, <1>21 DEF end

-----------------------------------------------------------------------------
(* What the timer SSRs make of the timers. *)

\* Timer t becomes v, and nothing else changes; no timer has expired.
OnlyBecomes(r, R, m, L, t, v) ==
  /\ Timely(r, R)
  /\ \A u \in Timers : View(r, R, u) = [(IF u = t THEN v ELSE View(m, L, u)) EXCEPT !.fired = 0]

\* The fields of timer t are as its phases need them.
InPhase(m, t) ==
  /\ ~Contains(m.tq, t) => m.period[t] = 0 /\ m.width[t] = 0 /\ m.nxtdly[t] = 0 /\ m.state[t] = "LO"
  /\ Contains(m.tq, t) => /\ (m.period[t] = 0 => m.nxtdly[t] > 0)
                          /\ (m.period[t] > 0 => m.width[t] < m.period[t])
                          /\ (m.period[t] > 0 /\ m.width[t] > 0 => m.nxtdly[t] > 0)
                          /\ (m.state[t] = "HI" => m.nxtdly[t] > 0)

LEMMA PhasesAre == ASSUME NEW m PROVE Phases(m) <=> \A t \in Timers : InPhase(m, t)
  BY DEF Phases, InPhase

\* An operation on timer t alone.
LEMMA BecomesIs ==
  ASSUME NEW m, NEW L, Timely(m, L), NEW t \in Timers, NEW r, NEW R, Queue(r, R),
         r.fired = NoneFired(m).fired,
         \A u \in Timers : u # t =>
           /\ R[u] = L[u] /\ (Contains(r.tq, u) <=> Contains(m.tq, u))
           /\ r.period[u] = m.period[u] /\ r.width[u] = m.width[u]
           /\ r.nxtdly[u] = m.nxtdly[u] /\ r.state[u] = m.state[u],
         InPhase(r, t), Contains(r.tq, t) => R[t] > 0,
         NEW v, [v EXCEPT !.fired = 0]
                  = [left |-> R[t], period |-> r.period[t], width |-> r.width[t],
                     next |-> r.nxtdly[t], state |-> r.state[t], fired |-> 0]
  PROVE  OnlyBecomes(r, R, m, L, t, v)
  <1> DEFINE a == NoneFired(m)
  <1>1. /\ Timely(a, L) /\ a.period = m.period /\ a.width = m.width /\ a.nxtdly = m.nxtdly /\ a.state = m.state
        /\ \A u \in Timers : /\ a.fired[u] = 0
                             /\ View(a, L, u) = [View(m, L, u) EXCEPT !.fired = 0]
    <2>1. a = NoneFired(m)
      OBVIOUS
    <2> HIDE DEF a
    <2> QED BY <2>1, NoneFiredIs
  <1>2. r.fired = a.fired
    OBVIOUS
  <1> HIDE DEF a
  <1>3. ASSUME NEW u \in Timers, u # t
        PROVE  /\ InPhase(r, u) /\ (Contains(r.tq, u) => R[u] > 0)
               /\ View(r, R, u) = [View(m, L, u) EXCEPT !.fired = 0]
    <2>1. /\ R[u] = L[u] /\ (Contains(r.tq, u) <=> Contains(m.tq, u))
          /\ r.period[u] = m.period[u] /\ r.width[u] = m.width[u]
          /\ r.nxtdly[u] = m.nxtdly[u] /\ r.state[u] = m.state[u]
      BY <1>3
    <2>2. InPhase(m, u) /\ (Contains(m.tq, u) => L[u] > 0)
      BY PhasesAre DEF Timely, Sane
    <2>3. View(r, R, u) = View(a, L, u)
      BY <1>1, <1>2, <2>1 DEF View
    <2> QED BY <1>1, <2>1, <2>2, <2>3 DEF InPhase
  <1>4. View(r, R, t) = [v EXCEPT !.fired = 0]
    BY <1>1, <1>2 DEF View
  <1>5. Timely(r, R)
    <2>1. Phases(r)
      BY <1>3, PhasesAre
    <2> QED BY <1>3, <2>1 DEF Timely, Sane
  <1>6. \A u \in Timers : View(r, R, u) = [(IF u = t THEN v ELSE View(m, L, u)) EXCEPT !.fired = 0]
    BY <1>3, <1>4
  <1> QED BY <1>5, <1>6 DEF OnlyBecomes

\* A timer out of the queue has nothing left.
LEMMA Outside ==
  ASSUME NEW m, NEW L, Timely(m, L), NEW t \in Timers
  PROVE  /\ m \in TimersType /\ Queue(m, L) /\ InPhase(m, t)
         /\ L \in [Timers -> 0..(Word - 1)] /\ L[t] \in Nat
         /\ Contains(m.tq, t) <=> L[t] > 0
         /\ ~Contains(m.tq, t) => L[t] = 0
  <1>1. Queue(m, L) /\ m \in TimersType /\ Phases(m) /\ (Contains(m.tq, t) => L[t] > 0)
    BY DEF Timely, Sane, Queue
  <1>2. L \in [Timers -> 0..(Word - 1)] /\ L[t] \in Nat
    BY <1>1, SaneFields
  <1>3. ~Contains(m.tq, t) => L[t] = 0
    BY <1>1 DEF Queue, Adds
  <1> QED BY <1>1, <1>2, <1>3, PhasesAre

\* smx_TimerStop()
LEMMA StopIs ==
  ASSUME NEW m, NEW L, Timely(m, L), NEW t \in Timers, NEW r, r = TimerStop_F(NoneFired(m), t)
  PROVE  \E R : OnlyBecomes(r, R, m, L, t, Alone!Stopped)
  <1> DEFINE a == NoneFired(m)
  <1>1. /\ Timely(a, L) /\ a.tq = m.tq /\ a.period = m.period /\ a.width = m.width
        /\ a.nxtdly = m.nxtdly /\ a.state = m.state
    <2>1. a = NoneFired(m)
      OBVIOUS
    <2> HIDE DEF a
    <2> QED BY <2>1, NoneFiredIs
  <1>2. r = IF Contains(a.tq, t) THEN Release(DQTimer(a, t), t) ELSE a
    BY Zenon DEF TimerStop_F, IsRunning
  <1>3. a.fired = NoneFired(m).fired
    OBVIOUS
  <1> HIDE DEF a
  <1>4. Queue(a, L) /\ InPhase(a, t) /\ (~Contains(a.tq, t) => L[t] = 0) /\ L \in [Timers -> 0..(Word - 1)]
    BY <1>1, Outside
  <1>5. [Alone!Stopped EXCEPT !.fired = 0]
          = [left |-> 0, period |-> 0, width |-> 0, next |-> 0, state |-> "LO", fired |-> 0]
    BY DEF Alone!Stopped
  <1>6. CASE Contains(a.tq, t)
    <2> DEFINE b == DQTimer(a, t)
               R == [L EXCEPT ![t] = 0]
    <2>1. b = DQTimer(a, t)
      OBVIOUS
    <2> HIDE DEF b
    <2>2. /\ Queue(b, R) /\ SameFields(b, a)
          /\ \A u : Contains(b.tq, u) <=> Contains(a.tq, u) /\ u # t
      BY <1>4, <1>6, <2>1, DQTimerIs
    <2>3. R[t] = 0 /\ \A u \in Timers : u # t => R[u] = L[u]
      BY <1>4
    <2> HIDE DEF R
    <2>4. r = Release(b, t) /\ ~Contains(b.tq, t)
      BY <1>2, <1>6, <2>1, <2>2
    <2>5. /\ Queue(r, R) /\ r.tq = b.tq /\ r.fired = b.fired
          /\ r.period[t] = 0 /\ r.width[t] = 0 /\ r.nxtdly[t] = 0 /\ r.state[t] = "LO"
          /\ \A u \in Timers : u # t => /\ r.period[u] = b.period[u] /\ r.width[u] = b.width[u]
                                        /\ r.nxtdly[u] = b.nxtdly[u] /\ r.state[u] = b.state[u]
      BY <2>2, <2>4, ReleaseIs
    <2>6. InPhase(r, t) /\ ~Contains(r.tq, t)
      BY <2>4, <2>5 DEF InPhase
    <2>7. r.fired = NoneFired(m).fired
      BY <1>3, <2>2, <2>5 DEF SameFields
    <2>8. \A u \in Timers : u # t =>
            /\ R[u] = L[u] /\ (Contains(r.tq, u) <=> Contains(m.tq, u))
            /\ r.period[u] = m.period[u] /\ r.width[u] = m.width[u]
            /\ r.nxtdly[u] = m.nxtdly[u] /\ r.state[u] = m.state[u]
      BY <1>1, <2>2, <2>3, <2>5 DEF SameFields
    <2>9. [Alone!Stopped EXCEPT !.fired = 0]
            = [left |-> R[t], period |-> r.period[t], width |-> r.width[t],
               next |-> r.nxtdly[t], state |-> r.state[t], fired |-> 0]
      BY <1>5, <2>3, <2>5
    <2>10. OnlyBecomes(r, R, m, L, t, Alone!Stopped)
      BY <2>5, <2>6, <2>7, <2>8, <2>9, BecomesIs
    <2> QED BY <2>10
  <1>7. CASE ~Contains(a.tq, t)
    <2>1. r = a
      BY <1>2, <1>7
    <2>2. /\ r.period[t] = 0 /\ r.width[t] = 0 /\ r.nxtdly[t] = 0 /\ r.state[t] = "LO" /\ L[t] = 0
      BY <1>4, <1>7, <2>1 DEF InPhase
    <2>3. [Alone!Stopped EXCEPT !.fired = 0]
            = [left |-> L[t], period |-> r.period[t], width |-> r.width[t],
               next |-> r.nxtdly[t], state |-> r.state[t], fired |-> 0]
      BY <1>5, <2>2
    <2>4. /\ Queue(r, L) /\ InPhase(r, t) /\ r.fired = NoneFired(m).fired /\ (Contains(r.tq, t) => L[t] > 0)
          /\ \A u \in Timers : u # t =>
               /\ L[u] = L[u] /\ (Contains(r.tq, u) <=> Contains(m.tq, u))
               /\ r.period[u] = m.period[u] /\ r.width[u] = m.width[u]
               /\ r.nxtdly[u] = m.nxtdly[u] /\ r.state[u] = m.state[u]
      BY <1>1, <1>3, <1>4, <1>7, <2>1
    <2>5. OnlyBecomes(r, L, m, L, t, Alone!Stopped)
      BY <2>3, <2>4, BecomesIs
    <2> QED BY <2>5
  <1> QED BY <1>6, <1>7

\* The timers with no LSR invoked, and timer t out of the queue.
OutOf(m, t) == IF Contains(m.tq, t) THEN DQTimer(NoneFired(m), t) ELSE NoneFired(m)

LEMMA OutOfIs ==
  ASSUME NEW m, NEW L, Timely(m, L), NEW t \in Timers, NEW r, r = OutOf(m, t)
  PROVE  /\ Queue(r, [L EXCEPT ![t] = 0]) /\ r \in TimersType
         /\ r.period = m.period /\ r.width = m.width /\ r.nxtdly = m.nxtdly /\ r.state = m.state
         /\ r.fired = NoneFired(m).fired
         /\ ~Contains(r.tq, t)
         /\ \A u : u # t => (Contains(r.tq, u) <=> Contains(m.tq, u))
  <1> DEFINE a == NoneFired(m)
  <1>1. /\ Timely(a, L) /\ a.tq = m.tq /\ a.period = m.period /\ a.width = m.width
        /\ a.nxtdly = m.nxtdly /\ a.state = m.state
    <2>1. a = NoneFired(m)
      OBVIOUS
    <2> HIDE DEF a
    <2> QED BY <2>1, NoneFiredIs
  <1>2. r = IF Contains(m.tq, t) THEN DQTimer(a, t) ELSE a
    BY Zenon DEF OutOf
  <1>3. a.fired = NoneFired(m).fired
    OBVIOUS
  <1> HIDE DEF a
  <1>4. Queue(a, L) /\ (~Contains(a.tq, t) => L[t] = 0) /\ L \in [Timers -> 0..(Word - 1)]
    BY <1>1, Outside
  <1>5. CASE Contains(m.tq, t)
    <2>1. r = DQTimer(a, t) /\ Contains(a.tq, t)
      BY <1>1, <1>2, <1>5
    <2>2. /\ Queue(r, [L EXCEPT ![t] = 0]) /\ SameFields(r, a)
          /\ \A u : Contains(r.tq, u) <=> Contains(a.tq, u) /\ u # t
      BY <1>4, <2>1, DQTimerIs
    <2> QED BY <1>1, <1>3, <2>2 DEF SameFields, Queue
  <1>6. CASE ~Contains(m.tq, t)
    <2>1. r = a
      BY <1>2, <1>6
    <2>2. [L EXCEPT ![t] = 0] = L
      BY <1>1, <1>4, <1>6
    <2> QED BY <1>1, <1>3, <1>4, <1>6, <2>1, <2>2 DEF Queue
  <1> QED BY <1>5, <1>6

\* smx_TimerStart_F()
LEMMA StartIs ==
  ASSUME NEW m, NEW L, Timely(m, L), NEW t \in Timers,
         NEW delay \in 1..(Word - 1), NEW period \in 0..(Word - 1),
         Contains(m.tq, t) /\ m.width[t] > 0 => period = 0 \/ period > m.width[t],
         NEW r, r = TimerStart_F(NoneFired(m), t, delay, period)
  PROVE  \E R : OnlyBecomes(r, R, m, L, t,
                            [(IF L[t] > 0 THEN View(m, L, t) ELSE Alone!Stopped) EXCEPT
                               !.left = delay, !.period = period, !.next = delay])
  <1> DEFINE a == OutOf(m, t)
             p == [a.period EXCEPT ![t] = period]
             x == [a.nxtdly EXCEPT ![t] = delay]
             b == [a EXCEPT !.nxtdly = x, !.period = p]
             M == [L EXCEPT ![t] = 0]
             R == [M EXCEPT ![t] = delay]
  <1>1. delay \in 0..(Word - 1) /\ delay > 0 /\ delay \in Nat /\ period \in Nat
    BY WordType
  <1>2. /\ Queue(a, M) /\ a \in TimersType
        /\ a.period = m.period /\ a.width = m.width /\ a.nxtdly = m.nxtdly /\ a.state = m.state
        /\ a.fired = NoneFired(m).fired
        /\ ~Contains(a.tq, t)
        /\ \A u : u # t => (Contains(a.tq, u) <=> Contains(m.tq, u))
    <2>1. a = OutOf(m, t)
      OBVIOUS
    <2> HIDE DEF a
    <2> QED BY <2>1, OutOfIs
  <1>3. r = NQTimer([a EXCEPT !.nxtdly[t] = delay, !.period[t] = period], t, delay)
    <2>1. Contains(NoneFired(m).tq, t) <=> Contains(m.tq, t)
      BY NoneFiredIs
    <2>2. a = IF Contains(NoneFired(m).tq, t) THEN DQTimer(NoneFired(m), t) ELSE NoneFired(m)
      BY <2>1 DEF OutOf
    <2> HIDE DEF a
    <2> QED BY <2>2, Zenon DEF TimerStart_F, IsRunning
  <1> HIDE DEF a
  <1>4. b = [a EXCEPT !.nxtdly[t] = delay, !.period[t] = period]
    BY <1>2 DEF TimersType
  <1>5. /\ p \in [Timers -> 0..(Word - 1)] /\ x \in [Timers -> 0..(Word - 1)]
        /\ p[t] = period /\ x[t] = delay
        /\ \A u \in Timers : u # t => p[u] = m.period[u] /\ x[u] = m.nxtdly[u]
    BY <1>1, <1>2, TimersFields
  <1>6. /\ m \in TimersType /\ InPhase(m, t) /\ (Contains(m.tq, t) <=> L[t] > 0)
        /\ L \in [Timers -> 0..(Word - 1)]
    BY Outside
  <1>7. R[t] = delay /\ \A u \in Timers : u # t => R[u] = L[u]
    BY <1>6
  <1>8. R = [M EXCEPT ![t] = delay]
    OBVIOUS
  <1> HIDE DEF p, x, M, R
  <1>9. /\ b \in TimersType /\ b.tq = a.tq /\ b.diffcnt = a.diffcnt /\ b.period = p
        /\ b.width = m.width /\ b.nxtdly = x /\ b.state = m.state /\ b.fired = a.fired
    BY <1>2, <1>5 DEF TimersType
  <1>10. r = NQTimer(b, t, delay)
    BY <1>3, <1>4
  <1> HIDE DEF b
  <1>11. Queue(b, M) /\ ~Contains(b.tq, t)
    BY <1>2, <1>9 DEF Queue
  <1>12. /\ Queue(r, R) /\ SameFields(r, b)
         /\ \A u : Contains(r.tq, u) <=> Contains(b.tq, u) \/ u = t
    BY <1>1, <1>8, <1>10, <1>11, NQTimerIs
  <1>13. /\ r.period = p /\ r.width = m.width /\ r.nxtdly = x /\ r.state = m.state
         /\ r.fired = NoneFired(m).fired
    BY <1>2, <1>9, <1>12 DEF SameFields
  <1>14. /\ m.period[t] \in Nat /\ m.width[t] \in Nat /\ m.nxtdly[t] \in Nat
    BY <1>6, TimersFields, WordType
  <1>15. InPhase(r, t) /\ R[t] > 0
    <2>1. Contains(r.tq, t) /\ r.period[t] = period /\ r.width[t] = m.width[t] /\ r.nxtdly[t] = delay
      BY <1>5, <1>12, <1>13
    <2>2. period > 0 => m.width[t] < period
      BY <1>1, <1>6, <1>14 DEF InPhase
    <2> QED BY <1>1, <1>7, <2>1, <2>2 DEF InPhase
  <1>16. \A u \in Timers : u # t =>
           /\ R[u] = L[u] /\ (Contains(r.tq, u) <=> Contains(m.tq, u))
           /\ r.period[u] = m.period[u] /\ r.width[u] = m.width[u]
           /\ r.nxtdly[u] = m.nxtdly[u] /\ r.state[u] = m.state[u]
    BY <1>2, <1>5, <1>7, <1>9, <1>12, <1>13
  <1> DEFINE v == [(IF L[t] > 0 THEN View(m, L, t) ELSE Alone!Stopped) EXCEPT
                     !.left = delay, !.period = period, !.next = delay]
  <1>17. [v EXCEPT !.fired = 0]
           = [left |-> R[t], period |-> r.period[t], width |-> r.width[t],
              next |-> r.nxtdly[t], state |-> r.state[t], fired |-> 0]
    <2>1. R[t] = delay /\ r.period[t] = period /\ r.nxtdly[t] = delay
      BY <1>5, <1>7, <1>13
    <2>2. r.width[t] = m.width[t] /\ r.state[t] = m.state[t]
      BY <1>13
    <2>3. L[t] > 0 \/ (m.width[t] = 0 /\ m.state[t] = "LO")
      BY <1>6 DEF InPhase
    <2> DEFINE e == IF L[t] > 0 THEN View(m, L, t) ELSE Alone!Stopped
               w == m.width[t]
               c == m.state[t]
    <2>4. e = [left |-> e.left, period |-> e.period, width |-> w, next |-> e.next, state |-> c,
               fired |-> e.fired]
      <3>1. CASE L[t] > 0
        BY <3>1 DEF View
      <3>2. CASE ~(L[t] > 0)
        <4>1. e = [left |-> 0, period |-> 0, width |-> 0, next |-> 0, state |-> "LO", fired |-> 0]
          BY <3>2 DEF Alone!Stopped
        <4>2. w = 0 /\ c = "LO"
          BY <2>3, <3>2
        <4> HIDE DEF e, w, c
        <4> QED BY <4>1, <4>2
      <3> QED BY <3>1, <3>2
    <2>5. v = [e EXCEPT !.left = delay, !.period = period, !.next = delay]
      OBVIOUS
    <2> HIDE DEF e, w, c, v
    <2> DEFINE e1 == e.left
               e2 == e.period
               e3 == e.next
               e4 == e.fired
    <2>6. e = [left |-> e1, period |-> e2, width |-> w, next |-> e3, state |-> c, fired |-> e4]
      BY <2>4
    <2> HIDE DEF e1, e2, e3, e4
    <2>7. v \in [left : {delay}, period : {period}, width : {w}, next : {delay}, state : {c}, fired : {e4}]
      BY <2>5, <2>6
    <2>8. v = [left |-> delay, period |-> period, width |-> w, next |-> delay, state |-> c, fired |-> e4]
      BY <2>7
    <2>9. [v EXCEPT !.fired = 0]
            = [left |-> delay, period |-> period, width |-> w, next |-> delay, state |-> c, fired |-> 0]
      BY <2>8
    <2> QED BY <2>1, <2>2, <2>9 DEF w, c
  <1> HIDE DEF v
  <1>18. OnlyBecomes(r, R, m, L, t, v)
    BY <1>12, <1>13, <1>15, <1>16, <1>17, BecomesIs
  <1> QED BY <1>18 DEF v

LEMMA ResetView ==
  ASSUME NEW l, NEW p, NEW w, NEW x, NEW s, NEW f, NEW n, NEW c, NEW r, NEW e,
         r = [left |-> l, period |-> p, width |-> w, next |-> x, state |-> s, fired |-> f],
         e = [[r EXCEPT !.left = n, !.state = c] EXCEPT !.fired = 0]
  PROVE  e = [left |-> n, period |-> p, width |-> w, next |-> x, state |-> c, fired |-> 0]
  <1>1. e \in [left : {n}, period : {p}, width : {w}, next : {x}, state : {c}, fired : {0}]
    OBVIOUS
  <1> QED BY <1>1

LEMMA PulseView ==
  ASSUME NEW l, NEW p, NEW w, NEW x, NEW s, NEW f, NEW a, NEW b, NEW c, NEW r, NEW e,
         r = [left |-> l, period |-> p, width |-> w, next |-> x, state |-> s, fired |-> f],
         e = [[r EXCEPT !.period = a, !.width = b, !.next = c] EXCEPT !.fired = 0]
  PROVE  e = [left |-> l, period |-> a, width |-> b, next |-> c, state |-> s, fired |-> 0]
  <1>1. e \in [left : {l}, period : {a}, width : {b}, next : {c}, state : {s}, fired : {0}]
    OBVIOUS
  <1> QED BY <1>1

\* The ticks a timer that is reset has left.
LEMMA ResetDelayIs ==
  ASSUME NEW m, NEW L, Timely(m, L), NEW t \in Timers, Contains(m.tq, t)
  PROVE  /\ ResetDelay(m, t) \in 0..(Word - 1) /\ ResetDelay(m, t) > 0
         /\ ResetDelay(m, t) = IF m.period[t] = 0 THEN m.nxtdly[t] ELSE m.period[t] - m.width[t]
  <1>1. m \in TimersType /\ InPhase(m, t)
    BY Outside
  <1> DEFINE p == m.period[t]
             w == m.width[t]
             x == m.nxtdly[t]
  <1>2. p \in 0..(Word - 1) /\ w \in 0..(Word - 1) /\ x \in 0..(Word - 1)
    BY <1>1, TimersFields
  <1>3. (p = 0 => x > 0) /\ (p > 0 => w < p)
    BY <1>1 DEF InPhase
  <1>4. ResetDelay(m, t) = IF p = 0 THEN x ELSE (p - w) % Word
    BY DEF ResetDelay
  <1> HIDE DEF p, w, x
  <1>5. CASE p = 0
    BY <1>2, <1>3, <1>4, <1>5 DEF p, x
  <1>6. CASE p # 0
    <2>1. p - w \in 0..(Word - 1) /\ p - w > 0
      BY <1>2, <1>3, <1>6, WordType
    <2>2. (p - w) % Word = p - w
      BY <2>1, ModWord
    <2> QED BY <1>4, <1>6, <2>1, <2>2 DEF p, w
  <1> QED BY <1>5, <1>6

\* smx_TimerReset()
LEMMA ResetIs ==
  ASSUME NEW m, NEW L, Timely(m, L), NEW t \in Timers, Contains(m.tq, t),
         NEW r, r = TimerReset_F(NoneFired(m), t)
  PROVE  \E R : OnlyBecomes(r, R, m, L, t,
                            [View(m, L, t) EXCEPT
                               !.left  = IF m.period[t] = 0 THEN m.nxtdly[t]
                                         ELSE m.period[t] - m.width[t],
                               !.state = "LO"])
  <1> DEFINE a == OutOf(m, t)
             x == ResetDelay(m, t)
             b == NQTimer(a, t, x)
             M == [L EXCEPT ![t] = 0]
             R == [M EXCEPT ![t] = x]
             s == [m.state EXCEPT ![t] = "LO"]
  <1>1. /\ x \in 0..(Word - 1) /\ x > 0
        /\ x = IF m.period[t] = 0 THEN m.nxtdly[t] ELSE m.period[t] - m.width[t]
    BY ResetDelayIs
  <1>2. /\ Queue(a, M) /\ a \in TimersType
        /\ a.period = m.period /\ a.width = m.width /\ a.nxtdly = m.nxtdly /\ a.state = m.state
        /\ a.fired = NoneFired(m).fired
        /\ ~Contains(a.tq, t)
        /\ \A u : u # t => (Contains(a.tq, u) <=> Contains(m.tq, u))
    <2>1. a = OutOf(m, t)
      OBVIOUS
    <2> HIDE DEF a
    <2> QED BY <2>1, OutOfIs
  <1>3. r = [b EXCEPT !.state[t] = "LO"]
    <2>1. a = DQTimer(NoneFired(m), t)
      BY DEF OutOf
    <2>2. x = ResetDelay(NoneFired(m), t)
      <3>1. /\ NoneFired(m).period = m.period /\ NoneFired(m).width = m.width
            /\ NoneFired(m).nxtdly = m.nxtdly
        BY NoneFiredIs
      <3> QED BY <3>1 DEF ResetDelay
    <2> HIDE DEF a, x
    <2> QED BY <2>1, <2>2, Zenon DEF TimerReset_F
  <1>4. /\ m \in TimersType /\ InPhase(m, t) /\ L \in [Timers -> 0..(Word - 1)]
    BY Outside
  <1>5. s \in [Timers -> {"LO", "HI"}] /\ s[t] = "LO" /\ \A u \in Timers : u # t => s[u] = m.state[u]
    BY <1>4, TimersFields
  <1>6. R[t] = x /\ \A u \in Timers : u # t => R[u] = L[u]
    BY <1>4
  <1>7. R = [M EXCEPT ![t] = x] /\ b = NQTimer(a, t, x)
    OBVIOUS
  <1> HIDE DEF a, x, b, M, R
  <1>8. /\ Queue(b, R) /\ SameFields(b, a)
        /\ \A u : Contains(b.tq, u) <=> Contains(a.tq, u) \/ u = t
    <2>1. /\ Queue(a, M) /\ ~Contains(a.tq, t) /\ t \in Timers /\ x \in 0..(Word - 1)
          /\ b = NQTimer(a, t, x) /\ R = [M EXCEPT ![t] = x]
      BY <1>1, <1>2, <1>7
    <2> QED BY ONLY <2>1, NQTimerIs
  <1>9. r = [b EXCEPT !.state = s]
    <2>1. b \in TimersType /\ b.state = m.state
      BY <1>2, <1>8 DEF Queue, SameFields
    <2> QED BY <1>3, <2>1 DEF TimersType
  <1> HIDE DEF s
  <1>10. /\ r \in TimersType /\ r.tq = b.tq /\ r.diffcnt = b.diffcnt /\ r.period = m.period
         /\ r.width = m.width /\ r.nxtdly = m.nxtdly /\ r.state = s /\ r.fired = NoneFired(m).fired
    BY <1>2, <1>5, <1>8, <1>9 DEF TimersType, Queue, SameFields
  <1>11. Queue(r, R) /\ \A u : Contains(r.tq, u) <=> Contains(a.tq, u) \/ u = t
    BY <1>8, <1>10 DEF Queue
  <1>12. InPhase(r, t) /\ R[t] > 0
    BY <1>1, <1>4, <1>5, <1>6, <1>10, <1>11 DEF InPhase
  <1>13. \A u \in Timers : u # t =>
           /\ R[u] = L[u] /\ (Contains(r.tq, u) <=> Contains(m.tq, u))
           /\ r.period[u] = m.period[u] /\ r.width[u] = m.width[u]
           /\ r.nxtdly[u] = m.nxtdly[u] /\ r.state[u] = m.state[u]
    BY <1>2, <1>5, <1>6, <1>10, <1>11
  <1> DEFINE v == [View(m, L, t) EXCEPT !.left = x, !.state = "LO"]
  <1>14. [v EXCEPT !.fired = 0]
           = [left |-> R[t], period |-> r.period[t], width |-> r.width[t],
              next |-> r.nxtdly[t], state |-> r.state[t], fired |-> 0]
    <2> DEFINE e == View(m, L, t)
               f == [v EXCEPT !.fired = 0]
    <2>1. /\ r.period[t] = m.period[t] /\ r.width[t] = m.width[t] /\ r.nxtdly[t] = m.nxtdly[t]
          /\ r.state[t] = "LO" /\ R[t] = x
      BY <1>5, <1>6, <1>10
    <2>2. e = [left |-> L[t], period |-> m.period[t], width |-> m.width[t],
               next |-> m.nxtdly[t], state |-> m.state[t], fired |-> m.fired[t]]
      BY DEF View
    <2>3. f = [[e EXCEPT !.left = x, !.state = "LO"] EXCEPT !.fired = 0]
      OBVIOUS
    <2> HIDE DEF e, f, v
    <2>4. f = [left |-> x, period |-> m.period[t], width |-> m.width[t],
               next |-> m.nxtdly[t], state |-> "LO", fired |-> 0]
      BY ONLY <2>2, <2>3, ResetView
    <2> QED BY <2>1, <2>4 DEF f
  <1> HIDE DEF v
  <1>15. OnlyBecomes(r, R, m, L, t, v)
    BY <1>10, <1>11, <1>12, <1>13, <1>14, BecomesIs
  <1> QED BY <1>1, <1>15 DEF v

\* smx_TimerSetPulse()
LEMMA SetPulseIs ==
  ASSUME NEW m, NEW L, Timely(m, L), NEW t \in Timers, Contains(m.tq, t),
         NEW period \in 1..(Word - 1), NEW width \in 0..(Word - 1), width < period,
         NEW r, r = TimerSetPulse_F(NoneFired(m), t, period, width)
  PROVE  \E R : OnlyBecomes(r, R, m, L, t,
                            [View(m, L, t) EXCEPT
                               !.period = period, !.width = width,
                               !.next = IF m.state[t] = "LO" THEN width ELSE m.nxtdly[t]])
  <1> DEFINE a == NoneFired(m)
             n == IF m.state[t] = "LO" THEN width ELSE m.nxtdly[t]
             p == [m.period EXCEPT ![t] = period]
             w == [m.width EXCEPT ![t] = width]
             x == [m.nxtdly EXCEPT ![t] = n]
  <1>1. /\ a.tq = m.tq /\ a.diffcnt = m.diffcnt /\ a.period = m.period /\ a.width = m.width
        /\ a.nxtdly = m.nxtdly /\ a.state = m.state
        /\ Timely(a, L)
    <2>1. a = NoneFired(m)
      OBVIOUS
    <2> HIDE DEF a
    <2> QED BY <2>1, NoneFiredIs
  <1>2. r = [a EXCEPT !.period[t] = period, !.width[t] = width,
                      !.nxtdly[t] = IF a.state[t] = "LO" THEN width ELSE @]
    BY Zenon DEF TimerSetPulse_F
  <1>3. a.fired = NoneFired(m).fired
    OBVIOUS
  <1> HIDE DEF a
  <1>4. /\ m \in TimersType /\ InPhase(m, t) /\ L \in [Timers -> 0..(Word - 1)]
        /\ (Contains(m.tq, t) <=> L[t] > 0)
    BY Outside
  <1>5. a \in TimersType /\ Queue(a, L)
    BY <1>1 DEF Timely, Sane, Queue
  <1>6. n \in 0..(Word - 1)
    BY <1>4, TimersFields
  <1>7. /\ p \in [Timers -> 0..(Word - 1)] /\ w \in [Timers -> 0..(Word - 1)]
        /\ x \in [Timers -> 0..(Word - 1)] /\ p[t] = period /\ w[t] = width /\ x[t] = n
        /\ \A u \in Timers : u # t => p[u] = m.period[u] /\ w[u] = m.width[u] /\ x[u] = m.nxtdly[u]
    <2>1. period \in 0..(Word - 1)
      BY WordType
    <2> HIDE DEF n
    <2> QED BY <1>4, <1>6, <2>1, TimersFields
  <1>8. r = [[[a EXCEPT !.period = p] EXCEPT !.width = w] EXCEPT !.nxtdly = x]
    <2>1. a.nxtdly[t] = m.nxtdly[t] /\ a.state[t] = m.state[t]
      BY <1>1
    <2>2. r = [a EXCEPT !.period[t] = period, !.width[t] = width, !.nxtdly[t] = n]
      BY <1>2, <2>1
    <2> HIDE DEF n
    <2> QED BY <1>1, <1>5, <2>2 DEF TimersType
  <1>9. n = IF m.state[t] = "LO" THEN width ELSE m.nxtdly[t]
    OBVIOUS
  <1> HIDE DEF p, w, x, n
  <1>10. /\ r \in TimersType /\ r.tq = m.tq /\ r.diffcnt = m.diffcnt /\ r.period = p
         /\ r.width = w /\ r.nxtdly = x /\ r.state = m.state /\ r.fired = NoneFired(m).fired
    BY <1>1, <1>3, <1>5, <1>7, <1>8 DEF TimersType
  <1>11. Queue(r, L)
    BY <1>1, <1>5, <1>10 DEF Queue
  <1>12. InPhase(r, t) /\ L[t] > 0
    <2>1. period > 0 /\ period \in Nat /\ width \in Nat
      BY WordType
    <2>2. r.period[t] = period /\ r.width[t] = width /\ r.nxtdly[t] = n /\ r.state[t] = m.state[t]
          /\ Contains(r.tq, t)
      BY <1>7, <1>10
    <2>3. m.state[t] = "HI" => n = m.nxtdly[t] /\ m.nxtdly[t] > 0
      BY <1>4, <1>9 DEF InPhase
    <2>4. m.state[t] # "HI" => n = width
      <3>1. m.state[t] \in {"LO", "HI"}
        BY <1>4, TimersFields
      <3> QED BY <1>9, <3>1
    <2>5. width > 0 => n > 0
      BY <2>3, <2>4
    <2> QED BY <1>4, <2>1, <2>2, <2>3, <2>5 DEF InPhase
  <1>13. \A u \in Timers : u # t =>
           /\ L[u] = L[u] /\ (Contains(r.tq, u) <=> Contains(m.tq, u))
           /\ r.period[u] = m.period[u] /\ r.width[u] = m.width[u]
           /\ r.nxtdly[u] = m.nxtdly[u] /\ r.state[u] = m.state[u]
    BY <1>7, <1>10
  <1> DEFINE v == [View(m, L, t) EXCEPT !.period = period, !.width = width, !.next = n]
  <1>14. [v EXCEPT !.fired = 0]
           = [left |-> L[t], period |-> r.period[t], width |-> r.width[t],
              next |-> r.nxtdly[t], state |-> r.state[t], fired |-> 0]
    <2> DEFINE e == View(m, L, t)
               f == [v EXCEPT !.fired = 0]
    <2>1. /\ r.period[t] = period /\ r.width[t] = width /\ r.nxtdly[t] = n
          /\ r.state[t] = m.state[t]
      BY <1>7, <1>10
    <2>2. e = [left |-> L[t], period |-> m.period[t], width |-> m.width[t],
               next |-> m.nxtdly[t], state |-> m.state[t], fired |-> m.fired[t]]
      BY DEF View
    <2>3. f = [[e EXCEPT !.period = period, !.width = width, !.next = n] EXCEPT !.fired = 0]
      OBVIOUS
    <2> HIDE DEF e, f, v
    <2>4. f = [left |-> L[t], period |-> period, width |-> width,
               next |-> n, state |-> m.state[t], fired |-> 0]
      BY ONLY <2>2, <2>3, PulseView
    <2> QED BY <2>1, <2>4 DEF f
  <1> HIDE DEF v
  <1>15. OnlyBecomes(r, L, m, L, t, v)
    BY <1>10, <1>11, <1>12, <1>13, <1>14, BecomesIs
  <1> QED BY <1>9, <1>15 DEF v

\* smx_TimerDup()
LEMMA DupIs ==
  ASSUME NEW m, NEW L, Timely(m, L), NEW t \in Timers, NEW c \in Timers,
         Contains(m.tq, c), ~Contains(m.tq, t), NEW r, r = TimerDup_F(NoneFired(m), t, c)
  PROVE  \E R : OnlyBecomes(r, R, m, L, t, View(m, L, c))
  <1> DEFINE a == NoneFired(m)
             i == Position(a, c) + 1
             q == InsertAt(m.tq, i, t)
             d == [m.diffcnt EXCEPT ![t] = 0]
             p == [m.period EXCEPT ![t] = m.period[c]]
             w == [m.width EXCEPT ![t] = m.width[c]]
             x == [m.nxtdly EXCEPT ![t] = m.nxtdly[c]]
             s == [m.state EXCEPT ![t] = m.state[c]]
             R == [L EXCEPT ![t] = L[c]]
  <1>1. /\ a.tq = m.tq /\ a.diffcnt = m.diffcnt /\ a.period = m.period /\ a.width = m.width
        /\ a.nxtdly = m.nxtdly /\ a.state = m.state
        /\ Timely(a, L)
    <2>1. a = NoneFired(m)
      OBVIOUS
    <2> HIDE DEF a
    <2> QED BY <2>1, NoneFiredIs
  <1>2. r = [a EXCEPT !.tq = InsertAt(@, i, t), !.diffcnt[t] = 0, !.period[t] = a.period[c],
                      !.width[t] = a.width[c], !.nxtdly[t] = a.nxtdly[c], !.state[t] = a.state[c]]
    BY Zenon DEF TimerDup_F
  <1>3. a.fired = NoneFired(m).fired
    OBVIOUS
  <1>4. i = Position(a, c) + 1
    OBVIOUS
  <1> HIDE DEF a
  <1>5. /\ m \in TimersType /\ InPhase(m, c) /\ L \in [Timers -> 0..(Word - 1)]
        /\ (Contains(m.tq, c) <=> L[c] > 0) /\ Queue(m, L)
    BY Outside
  <1>6. a \in TimersType /\ Queue(a, L) /\ Adds(a.tq, a.diffcnt, L) /\ Adds(m.tq, m.diffcnt, L)
    BY <1>1, <1>5 DEF Timely, Sane, Queue
  <1>7. Position(a, c) \in 1..Len(m.tq) /\ m.tq[Position(a, c)] = c
    BY <1>1, <1>6, PositionIs
  <1>8. i \in 1..Len(m.tq) + 1 /\ Before(m.tq, L, i) = L[c]
    <2>1. Len(m.tq) \in Nat
      BY <1>6, AddsTypes
    <2>2. i - 1 = Position(a, c) /\ i # 1
      BY <1>7, <2>1
    <2> QED BY <1>7, <2>1, <2>2 DEF Before
  <1>9. i <= Len(m.tq) => L[c] <= L[m.tq[i]]
    BY <1>6, <1>8, AddsTypes
  <1>10. L[c] \in 0..(Word - 1) /\ L[c] \in Nat
    BY <1>5, WordType
  <1> DEFINE e == DiffsWith(m.tq, m.diffcnt, L, i, t, L[c])
  <1> HIDE DEF i
  <1>11. /\ Adds(q, e, R) /\ \A u : Contains(q, u) <=> Contains(m.tq, u) \/ u = t
    <2> DEFINE l == L[c]
    <2>1. l \in 0..(Word - 1) /\ l \in Nat /\ Before(m.tq, L, i) <= l /\ (i <= Len(m.tq) => l <= L[m.tq[i]])
      BY <1>8, <1>9, <1>10
    <2>2. q = InsertAt(m.tq, i, t) /\ e = DiffsWith(m.tq, m.diffcnt, L, i, t, l) /\ R = [L EXCEPT ![t] = l]
      OBVIOUS
    <2> HIDE DEF l, q, e, R
    <2> QED BY <1>6, <1>8, <2>1, <2>2, InsertionAdds
  <1>12. e = d
    <2>1. m.diffcnt \in [Timers -> 0..(Word - 1)]
      BY <1>5, TimersFields
    <2>2. ASSUME NEW u \in Timers PROVE e[u] = d[u]
      <3>1. CASE u = t
        BY <1>8, <1>10, <2>1, <3>1 DEF DiffsWith
      <3>2. CASE u # t /\ i <= Len(m.tq) /\ u = m.tq[i]
        <4>1. m.diffcnt[u] = L[u] - Before(m.tq, L, i)
          BY <1>6, <1>8, <3>2, AddsTypes
        <4>2. L[u] \in Nat /\ L[c] \in Nat
          BY <1>5, <1>10, WordType
        <4> QED BY <1>8, <2>1, <3>2, <4>1, <4>2 DEF DiffsWith
      <3>3. CASE u # t /\ ~(i <= Len(m.tq) /\ u = m.tq[i])
        BY <2>1, <3>3 DEF DiffsWith
      <3> QED BY <3>1, <3>2, <3>3
    <2>3. e = [u \in Timers |-> e[u]]
      BY DEF DiffsWith
    <2>4. d = [u \in Timers |-> d[u]]
      BY <2>1
    <2> HIDE DEF e, d
    <2> QED BY <2>2, <2>3, <2>4
  <1> HIDE DEF e
  <1>13. Adds(q, d, R) /\ q \in Seq(Timers) /\ d \in [Timers -> 0..(Word - 1)]
    BY <1>11, <1>12 DEF Adds
  <1>14. /\ p \in [Timers -> 0..(Word - 1)] /\ w \in [Timers -> 0..(Word - 1)]
         /\ x \in [Timers -> 0..(Word - 1)] /\ s \in [Timers -> {"LO", "HI"}]
    BY <1>5, TimersFields
  <1>15. /\ p[t] = m.period[c] /\ w[t] = m.width[c] /\ x[t] = m.nxtdly[c] /\ s[t] = m.state[c]
         /\ \A u \in Timers : u # t => /\ p[u] = m.period[u] /\ w[u] = m.width[u]
                                       /\ x[u] = m.nxtdly[u] /\ s[u] = m.state[u]
    BY <1>5, TimersFields
  <1>16. R[t] = L[c] /\ \A u \in Timers : u # t => R[u] = L[u]
    BY <1>5
  <1>17. r = [a EXCEPT !.tq = q, !.diffcnt = d, !.period = p, !.width = w, !.nxtdly = x, !.state = s]
    <2>1. r = [a EXCEPT !.tq = q, !.diffcnt[t] = 0, !.period[t] = m.period[c],
                        !.width[t] = m.width[c], !.nxtdly[t] = m.nxtdly[c], !.state[t] = m.state[c]]
      BY <1>1, <1>2
    <2> HIDE DEF q
    <2> QED BY <1>1, <1>6, <2>1 DEF TimersType
  <1> HIDE DEF q, d, p, w, x, s, R
  <1>18. /\ r \in TimersType /\ r.tq = q /\ r.diffcnt = d /\ r.period = p
         /\ r.width = w /\ r.nxtdly = x /\ r.state = s /\ r.fired = NoneFired(m).fired
    BY <1>3, <1>6, <1>13, <1>14, <1>17 DEF TimersType
  <1>19. Queue(r, R)
    BY <1>13, <1>18 DEF Queue
  <1>20. InPhase(r, t) /\ R[t] > 0
    BY <1>5, <1>11, <1>15, <1>16, <1>18 DEF InPhase
  <1>21. \A u \in Timers : u # t =>
           /\ R[u] = L[u] /\ (Contains(r.tq, u) <=> Contains(m.tq, u))
           /\ r.period[u] = m.period[u] /\ r.width[u] = m.width[u]
           /\ r.nxtdly[u] = m.nxtdly[u] /\ r.state[u] = m.state[u]
    BY <1>11, <1>15, <1>16, <1>18
  <1> DEFINE v == View(m, L, c)
  <1>22. [v EXCEPT !.fired = 0]
           = [left |-> R[t], period |-> r.period[t], width |-> r.width[t],
              next |-> r.nxtdly[t], state |-> r.state[t], fired |-> 0]
    BY <1>15, <1>16, <1>18 DEF View
  <1> HIDE DEF v
  <1>23. OnlyBecomes(r, R, m, L, t, v)
    BY <1>18, <1>19, <1>20, <1>21, <1>22, BecomesIs
  <1> QED BY <1>23 DEF v

-----------------------------------------------------------------------------
(* What time does to a timer on its own. *)

Clock == [ left : Int, period : 0..MaxDelay, width : 0..MaxDelay, next : Int,
           state : {"LO", "HI"}, fired : Int ]

\* A timer within reach, and one in shape.
Near(v) == v.left <= MaxDelay /\ v.next <= MaxDelay

Shaped(v) == v.width > 0 /\ v.period > 0 =>
               v.next = IF v.state = "HI" THEN v.period - v.width ELSE v.width

LEMMA MaxDelayType == MaxDelay \in Nat /\ MaxDelay > 0 /\ MaxDelay < Half /\ MaxDelay < Word - 1
  BY TimeAssumption, WordAssumption, SMT DEF Word

\* What the fields of a timer are.
IsClock(v, l, p, w, x, s, f) ==
  /\ v = [left |-> l, period |-> p, width |-> w, next |-> x, state |-> s, fired |-> f]
  /\ l \in Int /\ p \in 0..MaxDelay /\ w \in 0..MaxDelay /\ x \in Int
  /\ s \in {"LO", "HI"} /\ f \in Int

LEMMA ClockFields ==
  ASSUME NEW v \in Clock
  PROVE  \E l, p, w, x, s, f : IsClock(v, l, p, w, x, s, f)
  <1>1. IsClock(v, v.left, v.period, v.width, v.next, v.state, v.fired)
    BY DEF IsClock, Clock
  <1> QED BY <1>1

LEMMA ClockOf ==
  ASSUME NEW v, NEW l, NEW p, NEW w, NEW x, NEW s, NEW f, IsClock(v, l, p, w, x, s, f)
  PROVE  /\ v \in Clock
         /\ v.left = l /\ v.period = p /\ v.width = w /\ v.next = x /\ v.state = s /\ v.fired = f
  BY DEF IsClock, Clock

\* A timer that expires stays within reach and in shape.
LEMMA ExpireKeeps ==
  ASSUME NEW v \in Clock
  PROVE  /\ Alone!Expire(v) \in Clock
         /\ Near(v) => Near(Alone!Expire(v))
         /\ Shaped(v) => Shaped(Alone!Expire(v))
  <1>1. PICK l, p, w, x, s, f : IsClock(v, l, p, w, x, s, f)
    BY ClockFields
  <1>2. /\ l \in Int /\ p \in 0..MaxDelay /\ w \in 0..MaxDelay /\ x \in Int
        /\ s \in {"LO", "HI"} /\ f \in Int
        /\ v = [left |-> l, period |-> p, width |-> w, next |-> x, state |-> s, fired |-> f]
    BY <1>1 DEF IsClock
  <1>3. v.left = l /\ v.next = x
    BY <1>1, ClockOf
  <1> DEFINE e == Alone!Expire(v)
             y == IF w = 0 THEN p ELSE x
             z == IF w = 0 THEN x ELSE IF s = "HI" THEN w ELSE p - w
             c == IF w = 0 THEN s ELSE IF s = "HI" THEN "LO" ELSE "HI"
  <1>4. e = IF p = 0
            THEN [left |-> 0, period |-> 0, width |-> 0, next |-> 0, state |-> "LO", fired |-> f + 1]
            ELSE [left |-> y, period |-> p, width |-> w, next |-> z, state |-> c, fired |-> f + 1]
    BY <1>2, ExpireOf
  <1> HIDE DEF e
  <1>5. CASE p = 0
    <2>1. IsClock(e, 0, 0, 0, 0, "LO", f + 1)
      BY <1>2, <1>4, <1>5, MaxDelayType DEF IsClock
    <2> QED BY <2>1, ClockOf, MaxDelayType DEF Near, Shaped, e
  <1>6. CASE p # 0
    <2>1. y \in Int /\ z \in Int /\ c \in {"LO", "HI"}
      BY <1>2, MaxDelayType
    <2>2. y <= MaxDelay \/ y = x
      BY <1>2, MaxDelayType
    <2>3. z <= MaxDelay \/ z = x
      BY <1>2, MaxDelayType
    <2>4. w > 0 => z = IF c = "HI" THEN p - w ELSE w
      BY <1>2
    <2> HIDE DEF y, z, c
    <2>5. IsClock(e, y, p, w, z, c, f + 1)
      BY <1>2, <1>4, <1>6, <2>1 DEF IsClock
    <2>6. e \in Clock /\ e.left = y /\ e.period = p /\ e.width = w /\ e.next = z /\ e.state = c
      BY <2>5, ClockOf
    <2> QED BY <1>3, <2>2, <2>3, <2>4, <2>6 DEF Near, Shaped, e
  <1> QED BY <1>5, <1>6

LEMMA TickKeeps ==
  ASSUME NEW v \in Clock
  PROVE  /\ Alone!Tick(v) \in Clock
         /\ Near(v) => Near(Alone!Tick(v))
         /\ Shaped(v) => Shaped(Alone!Tick(v))
  <1>1. v.left \in Int
    BY DEF Clock
  <1>2. CASE v.left = 0
    <2>1. Alone!Tick(v) = v
      BY <1>2, Zenon DEF Alone!Tick
    <2> QED BY <2>1
  <1>3. CASE v.left = 1
    <2>1. Alone!Tick(v) = Alone!Expire(v)
      <3>1. v.left # 0
        BY <1>3
      <3> QED BY <1>3, <3>1, Zenon DEF Alone!Tick
    <2> QED BY <2>1, ExpireKeeps
  <1>4. CASE v.left # 0 /\ v.left # 1
    <2> DEFINE n == v.left - 1
               e == [v EXCEPT !.left = n]
    <2>1. Alone!Tick(v) = [v EXCEPT !.left = v.left - 1]
      BY <1>4, Zenon DEF Alone!Tick
    <2>2. n \in Int /\ n <= v.left
      BY <1>1
    <2>3. Alone!Tick(v) = e
      BY <2>1
    <2> HIDE DEF n
    <2>4. /\ e \in Clock /\ e.left = n /\ e.period = v.period /\ e.width = v.width
          /\ e.next = v.next /\ e.state = v.state
      BY <2>2 DEF Clock
    <2> HIDE DEF e
    <2> QED BY <1>1, <2>2, <2>3, <2>4, MaxDelayType DEF Near, Shaped
  <1> QED BY <1>2, <1>3, <1>4

\* It does so for any number of ticks.
Keeps(v, e) == e \in Clock /\ (Near(v) => Near(e)) /\ (Shaped(v) => Shaped(e))

LEMMA TicksKeep ==
  ASSUME NEW v \in Clock, NEW n \in Nat
  PROVE  Keeps(v, Alone!Ticks(v, n))
  <1> DEFINE S == {k \in Nat : ~Keeps(v, Alone!Ticks(v, k))}
  <1> SUFFICES ASSUME S # {} PROVE FALSE
    OBVIOUS
  <1>1. S \in SUBSET Nat
    OBVIOUS
  <1>2. PICK k \in S : \A i \in S : k <= i
    <2> HIDE DEF S
    <2> QED BY <1>1, LeastNumber
  <1>3. CASE k = 0
    <2> DEFINE e == [v EXCEPT !.fired = 0]
    <2>1. Alone!Ticks(v, 0) = e
      BY TicksFirst
    <2>2. /\ e \in Clock /\ e.left = v.left /\ e.period = v.period /\ e.width = v.width
          /\ e.next = v.next /\ e.state = v.state
      BY DEF Clock
    <2> HIDE DEF e
    <2>3. Keeps(v, e)
      BY <2>2 DEF Keeps, Near, Shaped
    <2>4. ~Keeps(v, Alone!Ticks(v, 0))
      BY <1>2, <1>3
    <2> QED BY <2>1, <2>3, <2>4
  <1>4. CASE k # 0
    <2>1. k \in Nat /\ k - 1 \in Nat /\ (k - 1) + 1 = k
      BY <1>2, <1>4
    <2> DEFINE e == Alone!Ticks(v, k - 1)
    <2>2. Keeps(v, e)
      <3>1. k - 1 \notin S
        BY <1>2, <2>1
      <3> QED BY <2>1, <3>1
    <2>3. Alone!Ticks(v, k) = Alone!Tick(e)
      <3>1. Alone!Ticks(v, (k - 1) + 1) = Alone!Tick(e)
        BY <2>1, TicksNext
      <3> QED BY <2>1, <3>1
    <2>4. ~Keeps(v, Alone!Ticks(v, k))
      BY <1>2
    <2> HIDE DEF e
    <2>5. Keeps(v, Alone!Tick(e))
      BY <2>2, TickKeeps DEF Keeps
    <2> QED BY <2>3, <2>4, <2>5
  <1> QED BY <1>3, <1>4

-----------------------------------------------------------------------------
(* The invariant of SmxTime. *)

\* The ticks each timer has left, and the timers as their abstract
\* specification has them.
Left == [t \in Timers |-> TimeLeft(tm, t)]

Now == [t \in Timers |-> View(tm, Left, t)]

\* A call of smx_TimerStartAbs() on its way: the delay is within reach unless
\* the time had passed when it was computed.
AbsInv ==
  \/ abs = NoCall
  \/ /\ abs \in [tmr : Timers, time : 0..(Word - 1), delay : 0..Unread]
     /\ abs.time <= etime + MaxDelay
     /\ abs.delay # Unread => abs.delay <= MaxDelay \/ abs.delay > abs.time

TimeInv == TimeoutInv /\ Timely(tm, Left) /\ Now \in [Timers -> Clock] /\ AbsInv

LEMMA LeftAre == ASSUME NEW L, Timely(tm, L) PROVE L = Left
  <1>1. Adds(tm.tq, tm.diffcnt, L) /\ L \in [Timers -> 0..(Word - 1)]
    BY DEF Timely, Sane, Queue, Adds
  <1>2. \A t \in Timers : L[t] = TimeLeft(tm, t)
    BY <1>1, LeftIs
  <1> QED BY <1>1, <1>2 DEF Left

LEMMA LeftAreNext == ASSUME NEW L, Timely(tm', L) PROVE L = Left'
  <1>1. Adds(tm'.tq, tm'.diffcnt, L) /\ L \in [Timers -> 0..(Word - 1)]
    BY DEF Timely, Sane, Queue, Adds
  <1>2. \A t \in Timers : L[t] = TimeLeft(tm', t)
    <2> DEFINE m == tm'
    <2>1. Adds(m.tq, m.diffcnt, L)
      BY <1>1
    <2>2. \A t \in Timers : TimeLeft(m, t) = TimeLeft(tm', t)
      OBVIOUS
    <2> HIDE DEF m
    <2>3. \A t \in Timers : L[t] = TimeLeft(m, t)
      BY <2>1, LeftIs
    <2> QED BY <2>2, <2>3
  <1> QED BY <1>1, <1>2 DEF Left

\* What the refinement mapping makes of the timers.
LEMMA NowIs ==
  /\ Now = [t \in Timers |-> [ left   |-> TimeLeft(tm, t),
                               period |-> tm.period[t],
                               width  |-> tm.width[t],
                               next   |-> tm.nxtdly[t],
                               state  |-> tm.state[t],
                               fired  |-> tm.fired[t] ]]
  BY DEF Now, View, Left

LEMMA ElapseIs ==
  ASSUME NEW n, Now' = [t \in Timers |-> Alone!Ticks(Now[t], n)], etime' = etime + n
  PROVE  Alone!Elapse(n)
  <1>1. Now = [t \in Timers |-> [ left |-> TimeLeft(tm, t), period |-> tm.period[t], width |-> tm.width[t],
                                  next |-> tm.nxtdly[t], state |-> tm.state[t], fired |-> tm.fired[t] ]]
    BY NowIs
  <1>2. Now' = [t \in Timers |-> [ left |-> TimeLeft(tm, t), period |-> tm.period[t], width |-> tm.width[t],
                                   next |-> tm.nxtdly[t], state |-> tm.state[t], fired |-> tm.fired[t] ]]'
    BY DEF Now, View, Left
  <1> HIDE DEF Now
  <1> QED BY <1>1, <1>2, Zenon DEF Alone!Elapse

LEMMA BecomeIs ==
  ASSUME NEW t, NEW v, etime' = etime,
         Now' = [u \in Timers |-> [(IF u = t THEN v ELSE Now[u]) EXCEPT !.fired = 0]]
  PROVE  Alone!Become(t, v)
  <1>1. Now = [u \in Timers |-> [ left |-> TimeLeft(tm, u), period |-> tm.period[u], width |-> tm.width[u],
                                  next |-> tm.nxtdly[u], state |-> tm.state[u], fired |-> tm.fired[u] ]]
    BY NowIs
  <1>2. Now' = [u \in Timers |-> [ left |-> TimeLeft(tm, u), period |-> tm.period[u], width |-> tm.width[u],
                                   next |-> tm.nxtdly[u], state |-> tm.state[u], fired |-> tm.fired[u] ]]'
    BY DEF Now, View, Left
  <1> QED BY <1>1, <1>2, Zenon DEF Alone!Become

\* n ticks pass for each timer; timer t becomes v.
Elapsing(n) == Timely(tm', Left') /\ Now' = [t \in Timers |-> Alone!Ticks(Now[t], n)]

Becoming(t, v) ==
  /\ Timely(tm', Left')
  /\ Now' = [u \in Timers |-> [(IF u = t THEN v ELSE Now[u]) EXCEPT !.fired = 0]]

LEMMA ElapsingClocks ==
  ASSUME Now \in [Timers -> Clock], NEW n \in Nat, Elapsing(n)
  PROVE  Now' \in [Timers -> Clock] /\ \A t \in Timers : Keeps(Now[t], Now'[t])
  <1>1. \A t \in Timers : Now'[t] = Alone!Ticks(Now[t], n) /\ Now[t] \in Clock
    BY DEF Elapsing
  <1>2. \A t \in Timers : Keeps(Now[t], Now'[t])
    BY <1>1, TicksKeep
  <1>3. Now' = [t \in Timers |-> Now'[t]]
    BY DEF Elapsing
  <1> QED BY <1>2, <1>3 DEF Keeps

LEMMA BecomingClocks ==
  ASSUME Now \in [Timers -> Clock], NEW t \in Timers, NEW v \in Clock, Becoming(t, v)
  PROVE  /\ Now' \in [Timers -> Clock]
         /\ \A u \in Timers : u # t => Keeps(Now[u], Now'[u])
         /\ Keeps(v, Now'[t])
  <1>1. ASSUME NEW e \in Clock PROVE Keeps(e, [e EXCEPT !.fired = 0])
    <2> DEFINE f == [e EXCEPT !.fired = 0]
    <2>1. /\ f \in Clock /\ f.left = e.left /\ f.period = e.period /\ f.width = e.width
          /\ f.next = e.next /\ f.state = e.state
      BY DEF Clock
    <2> HIDE DEF f
    <2>2. Keeps(e, f)
      BY <2>1 DEF Keeps, Near, Shaped
    <2> QED BY <2>2 DEF f
  <1>2. \A u \in Timers : Now'[u] = [(IF u = t THEN v ELSE Now[u]) EXCEPT !.fired = 0]
    BY DEF Becoming
  <1>3. \A u \in Timers : u # t => Now'[u] = [Now[u] EXCEPT !.fired = 0] /\ Now[u] \in Clock
    BY <1>2
  <1>4. Now'[t] = [v EXCEPT !.fired = 0]
    BY <1>2
  <1>5. (\A u \in Timers : u # t => Keeps(Now[u], Now'[u])) /\ Keeps(v, Now'[t])
    BY <1>1, <1>3, <1>4
  <1>6. Now' = [u \in Timers |-> Now'[u]]
    BY DEF Becoming
  <1> QED BY <1>5, <1>6 DEF Keeps

LEMMA ElapsingIs ==
  ASSUME NEW n, NEW R, Timely(tm', R),
         \A t \in Timers : View(tm', R, t) = Alone!Ticks(View(tm, Left, t), n)
  PROVE  Elapsing(n)
  <1>1. R = Left'
    BY LeftAreNext
  <1>2. \A t \in Timers : Now[t] = View(tm, Left, t)
    BY DEF Now
  <1>3. Now' = [t \in Timers |-> View(tm', Left', t)]
    BY DEF Now, View
  <1> QED BY <1>1, <1>2, <1>3 DEF Elapsing

LEMMA BecomingIs ==
  ASSUME NEW t, NEW v, NEW R, OnlyBecomes(tm', R, tm, Left, t, v)
  PROVE  Becoming(t, v)
  <1>1. /\ Timely(tm', R)
        /\ \A u \in Timers : View(tm', R, u) = [(IF u = t THEN v ELSE View(tm, Left, u)) EXCEPT !.fired = 0]
    BY DEF OnlyBecomes
  <1>2. R = Left'
    BY <1>1, LeftAreNext
  <1>3. \A u \in Timers : Now[u] = View(tm, Left, u)
    BY DEF Now
  <1>4. Now' = [u \in Timers |-> View(tm', Left', u)]
    BY DEF Now, View
  <1> QED BY <1>1, <1>2, <1>3, <1>4 DEF Becoming

-----------------------------------------------------------------------------
(* What each action does to the timers. *)

LEMMA InvFacts ==
  ASSUME TimeInv
  PROVE  /\ Timely(tm, Left) /\ Now \in [Timers -> Clock] /\ TimeoutInv
         /\ etime \in Nat /\ etime <= Half + Lag /\ etime < Word - 1
         /\ \A t \in Timers : /\ Now[t] = View(tm, Left, t) /\ View(tm, Left, t) \in Clock
                              /\ Left[t] \in Nat /\ (IsRunning(tm, t) <=> Left[t] > 0)
                              /\ Now[t].left = Left[t] /\ Now[t].period = tm.period[t]
                              /\ Now[t].width = tm.width[t] /\ Now[t].next = tm.nxtdly[t]
                              /\ Now[t].state = tm.state[t]
  <1>1. Timely(tm, Left) /\ Now \in [Timers -> Clock] /\ TimeoutInv
    BY DEF TimeInv
  <1>2. etime \in Nat /\ etime <= Half + Lag /\ etime < Word - 1
    BY <1>1, WordAssumption, TimeoutAssumption, SMT DEF TimeoutInv, TimeoutType, Word
  <1>3. ASSUME NEW t \in Timers
        PROVE  /\ Now[t] = View(tm, Left, t) /\ View(tm, Left, t) \in Clock
               /\ Left[t] \in Nat /\ (IsRunning(tm, t) <=> Left[t] > 0)
               /\ Now[t].left = Left[t] /\ Now[t].period = tm.period[t]
               /\ Now[t].width = tm.width[t] /\ Now[t].next = tm.nxtdly[t]
               /\ Now[t].state = tm.state[t]
    <2>1. Now[t] = View(tm, Left, t) /\ View(tm, Left, t) \in Clock
      BY <1>1 DEF Now
    <2>2. Left[t] \in Nat /\ (IsRunning(tm, t) <=> Left[t] > 0)
      BY <1>1, Outside DEF IsRunning
    <2> QED BY <2>1, <2>2 DEF View
  <1> QED BY <1>1, <1>2, <1>3

LEMMA KeepTimeStep ==
  ASSUME TimeInv, KeepTimeLSR
  PROVE  Elapsing(1) /\ etime' = etime + 1
  <1>1. Timely(tm, Left)
    BY DEF TimeInv
  <1>2. tm' = KeepTimers(tm) /\ etime' = etime + 1
    BY DEF KeepTimeLSR, Tick
  <1>3. PICK R : /\ Timely(tm', R)
                 /\ \A t \in Timers : View(tm', R, t) = Alone!Ticks(View(tm, Left, t), 1)
    BY <1>1, <1>2, KeepTimersIs
  <1> QED BY <1>2, <1>3, ElapsingIs

LEMMA QuietStep ==
  ASSUME TimeInv, tm' = NoneFired(tm)
  PROVE  Elapsing(0)
  <1>1. Timely(tm, Left)
    BY DEF TimeInv
  <1>2. /\ Timely(tm', Left)
        /\ \A t \in Timers : View(tm', Left, t) = Alone!Ticks(View(tm, Left, t), 0)
    BY <1>1, NoneFiredIs
  <1> QED BY <1>2, ElapsingIs

LEMMA StartStep ==
  ASSUME TimeInv, NEW t \in Timers, NEW delay \in 1..(Word - 1), NEW period \in 0..MaxDelay,
         IsRunning(tm, t) /\ tm.width[t] > 0 => period = 0 \/ period > tm.width[t],
         tm' = TimerStart_F(NoneFired(tm), t, delay, period)
  PROVE  Becoming(t, [(IF Left[t] > 0 THEN View(tm, Left, t) ELSE Alone!Stopped) EXCEPT
                        !.left = delay, !.period = period, !.next = delay])
  <1>1. Timely(tm, Left)
    BY DEF TimeInv
  <1>2. period \in 0..(Word - 1)
    BY MaxDelayType, WordType
  <1>3. \E R : OnlyBecomes(tm', R, tm, Left, t,
                 [(IF Left[t] > 0 THEN View(tm, Left, t) ELSE Alone!Stopped) EXCEPT
                    !.left = delay, !.period = period, !.next = delay])
    <2> DEFINE r == tm'
               m == tm
               L == Left
    <2>1. /\ Timely(m, L) /\ (Contains(m.tq, t) /\ m.width[t] > 0 => period = 0 \/ period > m.width[t])
          /\ r = TimerStart_F(NoneFired(m), t, delay, period)
      BY <1>1 DEF IsRunning
    <2> HIDE DEF r, m, L
    <2>2. \E R : OnlyBecomes(r, R, m, L, t,
                   [(IF L[t] > 0 THEN View(m, L, t) ELSE Alone!Stopped) EXCEPT
                      !.left = delay, !.period = period, !.next = delay])
      BY <1>2, <2>1, StartIs
    <2> QED BY <2>2 DEF r, m, L
  <1> QED BY <1>3, BecomingIs

LEMMA StopStep ==
  ASSUME TimeInv, NEW t \in Timers, TimerStop(t)
  PROVE  Becoming(t, Alone!Stopped)
  <1>1. Timely(tm, Left)
    BY DEF TimeInv
  <1>2. tm' = TimerStop_F(NoneFired(tm), t)
    BY DEF TimerStop, TimerSSR
  <1>3. \E R : OnlyBecomes(tm', R, tm, Left, t, Alone!Stopped)
    BY <1>1, <1>2, StopIs
  <1> QED BY <1>3, BecomingIs

LEMMA ResetStep ==
  ASSUME TimeInv, NEW t \in Timers, TimerReset(t)
  PROVE  Becoming(t, [View(tm, Left, t) EXCEPT
                        !.left  = IF tm.period[t] = 0 THEN tm.nxtdly[t]
                                  ELSE tm.period[t] - tm.width[t],
                        !.state = "LO"])
  <1> DEFINE r == tm'
             m == tm
             L == Left
  <1>1. Timely(m, L) /\ Contains(m.tq, t) /\ r = TimerReset_F(NoneFired(m), t)
    BY DEF TimeInv, TimerReset, TimerSSR, IsRunning
  <1> HIDE DEF r, m, L
  <1>2. \E R : OnlyBecomes(r, R, m, L, t,
                 [View(m, L, t) EXCEPT
                    !.left  = IF m.period[t] = 0 THEN m.nxtdly[t] ELSE m.period[t] - m.width[t],
                    !.state = "LO"])
    BY <1>1, ResetIs
  <1> QED BY <1>2, BecomingIs DEF r, m, L

LEMMA SetPulseStep ==
  ASSUME TimeInv, NEW t \in Timers, NEW s \in Pulses, TimerSetPulse(t, s[1], s[2])
  PROVE  Becoming(t, [View(tm, Left, t) EXCEPT
                        !.period = s[1], !.width = s[2],
                        !.next = IF tm.state[t] = "LO" THEN s[2] ELSE tm.nxtdly[t]])
  <1> DEFINE r == tm'
             m == tm
             L == Left
             p == s[1]
             w == s[2]
  <1>1. Timely(m, L) /\ Contains(m.tq, t) /\ r = TimerSetPulse_F(NoneFired(m), t, p, w)
    BY DEF TimeInv, TimerSetPulse, TimerSSR, IsRunning
  <1>2. p \in 1..(Word - 1) /\ w \in 0..(Word - 1) /\ w < p
    <2>1. p \in 1..MaxDelay /\ w \in 0..MaxDelay /\ w < p
      BY TimeAssumption
    <2> QED BY <2>1, MaxDelayType, WordType
  <1> HIDE DEF r, m, L, p, w
  <1>3. \E R : OnlyBecomes(r, R, m, L, t,
                 [View(m, L, t) EXCEPT
                    !.period = p, !.width = w,
                    !.next = IF m.state[t] = "LO" THEN w ELSE m.nxtdly[t]])
    BY <1>1, <1>2, SetPulseIs
  <1> QED BY <1>3, BecomingIs DEF r, m, L, p, w

LEMMA DupStep ==
  ASSUME TimeInv, NEW t \in Timers, NEW c \in Timers, TimerDup(t, c)
  PROVE  Becoming(t, View(tm, Left, c))
  <1> DEFINE r == tm'
             m == tm
             L == Left
  <1>1. Timely(m, L) /\ Contains(m.tq, c) /\ ~Contains(m.tq, t) /\ r = TimerDup_F(NoneFired(m), t, c)
    BY DEF TimeInv, TimerDup, TimerSSR, IsRunning
  <1> HIDE DEF r, m, L
  <1>2. \E R : OnlyBecomes(r, R, m, L, t, View(m, L, c))
    BY <1>1, DupIs
  <1> QED BY <1>2, BecomingIs DEF r, m, L

-----------------------------------------------------------------------------
(* What holds after each action. *)

Held == Timely(tm', Left') /\ Now' \in [Timers -> Clock]

ReachKept == DelaysInReach => DelaysInReach'

ShapeKept == PulsesInShape => PulsesInShape'

LEMMA ReachIs ==
  /\ DelaysInReach <=> \A t \in Timers : Near(Now[t])
  /\ DelaysInReach' <=> \A t \in Timers : Near(Now'[t])
  <1>1. \A t \in Timers : Now[t].left = TimeLeft(tm, t) /\ Now[t].next = tm.nxtdly[t]
    BY DEF Now, View, Left
  <1>2. \A t \in Timers : Now'[t].left = TimeLeft(tm', t) /\ Now'[t].next = tm'.nxtdly[t]
    BY DEF Now, View, Left
  <1> QED BY <1>1, <1>2 DEF DelaysInReach, Near

LEMMA ShapeIs ==
  /\ PulsesInShape <=> \A t \in Timers : Shaped(Now[t])
  /\ PulsesInShape' <=> \A t \in Timers : Shaped(Now'[t])
  <1>1. \A t \in Timers : /\ Now[t].period = tm.period[t] /\ Now[t].width = tm.width[t]
                          /\ Now[t].next = tm.nxtdly[t] /\ Now[t].state = tm.state[t]
    BY DEF Now, View
  <1>2. \A t \in Timers : /\ Now'[t].period = tm'.period[t] /\ Now'[t].width = tm'.width[t]
                          /\ Now'[t].next = tm'.nxtdly[t] /\ Now'[t].state = tm'.state[t]
    BY DEF Now, View
  <1> QED BY <1>1, <1>2 DEF PulsesInShape, Shaped

LEMMA ElapsingHolds ==
  ASSUME TimeInv, NEW n \in Nat, Elapsing(n)
  PROVE  Held /\ ReachKept /\ ShapeKept
  <1>1. Now \in [Timers -> Clock]
    BY DEF TimeInv
  <1>2. Now' \in [Timers -> Clock] /\ \A t \in Timers : Keeps(Now[t], Now'[t])
    BY <1>1, ElapsingClocks
  <1>3. Held
    BY <1>2 DEF Held, Elapsing
  <1>4. ReachKept
    BY <1>2, ReachIs DEF ReachKept, Keeps
  <1>5. ShapeKept
    BY <1>2, ShapeIs DEF ShapeKept, Keeps
  <1> QED BY <1>3, <1>4, <1>5

LEMMA BecomingHolds ==
  ASSUME TimeInv, NEW t \in Timers, NEW v \in Clock, Becoming(t, v)
  PROVE  /\ Held
         /\ ((\A u \in Timers : Near(Now[u])) => Near(v)) => ReachKept
         /\ ((\A u \in Timers : Shaped(Now[u])) => Shaped(v)) => ShapeKept
  <1>1. Now \in [Timers -> Clock]
    BY DEF TimeInv
  <1>2. /\ Now' \in [Timers -> Clock] /\ Keeps(v, Now'[t])
        /\ \A u \in Timers : u # t => Keeps(Now[u], Now'[u])
    BY <1>1, BecomingClocks
  <1>3. Held
    BY <1>2 DEF Held, Becoming
  <1>4. ASSUME (\A u \in Timers : Near(Now[u])) => Near(v) PROVE ReachKept
    BY <1>2, <1>4, ReachIs DEF ReachKept, Keeps
  <1>5. ASSUME (\A u \in Timers : Shaped(Now[u])) => Shaped(v) PROVE ShapeKept
    BY <1>2, <1>5, ShapeIs DEF ShapeKept, Keeps
  <1> QED BY <1>3, <1>4, <1>5

\* Timers as the SSRs leave them.
LEMMA StoppedClock == Alone!Stopped \in Clock /\ Near(Alone!Stopped) /\ Shaped(Alone!Stopped)
  <1>1. IsClock(Alone!Stopped, 0, 0, 0, 0, "LO", 0)
    BY MaxDelayType DEF IsClock, Alone!Stopped
  <1> QED BY <1>1, ClockOf, MaxDelayType DEF Near, Shaped

LEMMA StartedClock ==
  ASSUME NEW e \in Clock, NEW delay \in Nat, NEW period \in 0..MaxDelay,
         NEW v, v = [e EXCEPT !.left = delay, !.period = period, !.next = delay]
  PROVE  /\ v \in Clock
         /\ delay <= MaxDelay => Near(v)
         /\ period = 0 => Shaped(v)
  <1>1. v \in Clock
    <2>1. delay \in Int
      OBVIOUS
    <2> QED BY <2>1 DEF Clock
  <1>2. v.left = delay /\ v.period = period /\ v.next = delay
    BY DEF Clock
  <1> QED BY <1>1, <1>2 DEF Near, Shaped

LEMMA ResetClock ==
  ASSUME NEW e \in Clock, NEW v,
         v = [e EXCEPT !.left = IF e.period = 0 THEN e.next ELSE e.period - e.width, !.state = "LO"]
  PROVE  /\ v \in Clock
         /\ Near(e) => Near(v)
         /\ e.state = "LO" /\ Shaped(e) => Shaped(v)
  <1> DEFINE l == IF e.period = 0 THEN e.next ELSE e.period - e.width
  <1>1. /\ e.period \in 0..MaxDelay /\ e.width \in 0..MaxDelay /\ e.next \in Int
        /\ e.state \in {"LO", "HI"}
    BY DEF Clock
  <1>2. l \in Int /\ (l <= MaxDelay \/ l = e.next)
    BY <1>1, MaxDelayType
  <1>3. v = [e EXCEPT !.left = l, !.state = "LO"]
    OBVIOUS
  <1> HIDE DEF l
  <1>4. /\ v \in Clock /\ v.left = l /\ v.period = e.period /\ v.width = e.width /\ v.next = e.next
        /\ v.state = "LO"
    BY <1>2, <1>3 DEF Clock
  <1> QED BY <1>2, <1>4 DEF Near, Shaped

-----------------------------------------------------------------------------
(* Each action is one of the abstract specification. *)

LEMMA BecomingStep ==
  ASSUME NEW t, NEW v, Becoming(t, v), etime' = etime
  PROVE  Alone!Become(t, v)
  BY BecomeIs DEF Becoming

LEMMA ElapsingStep ==
  ASSUME NEW n, Elapsing(n), etime' = etime + n
  PROVE  Alone!Elapse(n)
  BY ElapseIs DEF Elapsing

LEMMA RunningIs ==
  ASSUME TimeInv, NEW t \in Timers
  PROVE  Alone!Running(t) <=> Left[t] > 0
  <1>1. Alone!Running(t) <=> TimeLeft(tm, t) > 0
    BY DEF Alone!Running
  <1> QED BY <1>1 DEF Left

LEMMA StartAlone ==
  ASSUME TimeInv, NEW t \in Timers, NEW delay, NEW period, etime' = etime, NEW v, Becoming(t, v),
         v = [(IF Left[t] > 0 THEN View(tm, Left, t) ELSE Alone!Stopped) EXCEPT
                !.left = delay, !.period = period, !.next = delay]
  PROVE  Alone!Start(t, delay, period)
  <1> DEFINE T == [u \in Timers |-> [ left |-> TimeLeft(tm, u), period |-> tm.period[u], width |-> tm.width[u],
                                   next |-> tm.nxtdly[u], state |-> tm.state[u], fired |-> tm.fired[u] ]]
             e == [(IF Alone!Running(t) THEN T[t] ELSE Alone!Stopped) EXCEPT
                     !.left = delay, !.period = period, !.next = delay]
  <1>1. Alone!Become(t, v)
    BY BecomingStep
  <1>2. v = e
    <2>1. T[t] = View(tm, Left, t)
      BY DEF View, Left
    <2> HIDE DEF T
    <2> QED BY <2>1, RunningIs
  <1>3. Alone!Become(t, e)
    <2> HIDE DEF e
    <2> QED BY <1>1, <1>2 DEF Alone!Become
  <1> QED BY ONLY <1>3 DEF Alone!Start, Alone!Become

LEMMA StopAlone ==
  ASSUME NEW t \in Timers, etime' = etime, Becoming(t, Alone!Stopped)
  PROVE  Alone!Stop(t)
  BY BecomingStep DEF Alone!Stop

LEMMA ResetAlone ==
  ASSUME TimeInv, NEW t \in Timers, etime' = etime, IsRunning(tm, t), NEW v, Becoming(t, v), NEW w,
         w = View(tm, Left, t),
         v = [w EXCEPT !.left = IF w.period = 0 THEN w.next ELSE w.period - w.width, !.state = "LO"]
  PROVE  Alone!Reset(t)
  <1> DEFINE T == [u \in Timers |-> [ left |-> TimeLeft(tm, u), period |-> tm.period[u], width |-> tm.width[u],
                                   next |-> tm.nxtdly[u], state |-> tm.state[u], fired |-> tm.fired[u] ]]
             e == [T[t] EXCEPT !.left = IF T[t].period = 0 THEN T[t].next ELSE T[t].period - T[t].width,
                             !.state = "LO"]
  <1>1. Alone!Become(t, v)
    BY BecomingStep
  <1>2. v = e
    <2>1. T[t] = View(tm, Left, t)
      BY DEF View, Left
    <2> HIDE DEF T
    <2> QED BY <2>1
  <1>3. Alone!Become(t, e)
    <2> HIDE DEF e
    <2> QED BY <1>1, <1>2 DEF Alone!Become
  <1>4. Alone!Running(t)
    BY RunningIs, InvFacts
  <1> QED BY ONLY <1>3, <1>4 DEF Alone!Reset, Alone!Become

LEMMA SetPulseAlone ==
  ASSUME TimeInv, NEW t \in Timers, NEW period, NEW width, etime' = etime, IsRunning(tm, t),
         NEW v, Becoming(t, v), NEW w, w = View(tm, Left, t),
         v = [w EXCEPT !.period = period, !.width = width,
                       !.next = IF w.state = "LO" THEN width ELSE w.next]
  PROVE  Alone!SetPulse(t, period, width)
  <1> DEFINE T == [u \in Timers |-> [ left |-> TimeLeft(tm, u), period |-> tm.period[u], width |-> tm.width[u],
                                   next |-> tm.nxtdly[u], state |-> tm.state[u], fired |-> tm.fired[u] ]]
             e == [T[t] EXCEPT !.period = period, !.width = width,
                             !.next = IF T[t].state = "LO" THEN width ELSE T[t].next]
  <1>1. Alone!Become(t, v)
    BY BecomingStep
  <1>2. v = e
    <2>1. T[t] = View(tm, Left, t)
      BY DEF View, Left
    <2> HIDE DEF T
    <2> QED BY <2>1
  <1>3. Alone!Become(t, e)
    <2> HIDE DEF e
    <2> QED BY <1>1, <1>2 DEF Alone!Become
  <1>4. Alone!Running(t)
    BY RunningIs, InvFacts
  <1> QED BY ONLY <1>3, <1>4 DEF Alone!SetPulse, Alone!Become

LEMMA DupAlone ==
  ASSUME TimeInv, NEW t \in Timers, NEW c \in Timers, etime' = etime,
         IsRunning(tm, c), ~IsRunning(tm, t), NEW v, Becoming(t, v), v = View(tm, Left, c)
  PROVE  Alone!Dup(t, c)
  <1> DEFINE T == [u \in Timers |-> [ left |-> TimeLeft(tm, u), period |-> tm.period[u], width |-> tm.width[u],
                                   next |-> tm.nxtdly[u], state |-> tm.state[u], fired |-> tm.fired[u] ]]
  <1>1. Alone!Become(t, v)
    BY BecomingStep
  <1>2. v = T[c]
    BY DEF View, Left
  <1>3. Alone!Become(t, T[c])
    <2> DEFINE e == T[c]
    <2>1. v = e
      BY <1>2
    <2> HIDE DEF e
    <2>2. Alone!Become(t, e)
      BY <1>1, <2>1 DEF Alone!Become
    <2> QED BY ONLY <2>2 DEF e, Alone!Become
  <1>4. Alone!Running(c) /\ ~Alone!Running(t)
    BY RunningIs, InvFacts
  <1> QED BY ONLY <1>3, <1>4 DEF Alone!Dup, Alone!Become

-----------------------------------------------------------------------------
(* The actions, one by one. *)

\* What every step of SmxTime does to the timers.
Steps == Held /\ Alone!Next

LEMMA KeepTimeHolds ==
  ASSUME TimeInv, KeepTimeLSR
  PROVE  Steps /\ ReachKept /\ ShapeKept
  <1>1. Elapsing(1) /\ etime' = etime + 1
    BY KeepTimeStep
  <1>2. Held /\ ReachKept /\ ShapeKept
    BY <1>1, ElapsingHolds
  <1>3. Alone!Elapse(1)
    BY <1>1, ElapsingStep
  <1> QED BY <1>2, <1>3 DEF Steps, Alone!Next

LEMMA QuietHolds ==
  ASSUME TimeInv, tm' = NoneFired(tm), etime' = etime
  PROVE  Steps /\ ReachKept /\ ShapeKept
  <1>1. Elapsing(0)
    BY QuietStep
  <1>2. Held /\ ReachKept /\ ShapeKept
    BY <1>1, ElapsingHolds
  <1>3. etime' = etime + 0
    BY InvFacts
  <1>4. Alone!Elapse(0)
    BY <1>1, <1>3, ElapsingStep
  <1> QED BY <1>2, <1>4 DEF Steps, Alone!Next

LEMMA RolloverHolds ==
  ASSUME TimeInv, IdleRollover
  PROVE  Steps /\ ReachKept /\ ShapeKept
  <1>1. tm' = NoneFired(tm) /\ etime' < etime
    <2>1. tm' = NoneFired(tm) /\ EtimeRollover
      BY DEF IdleRollover, TimeoutsOnly
    <2>2. TimeoutInv
      BY DEF TimeInv
    <2>3. etime' = etime - Half
      BY <2>1, <2>2, RolloverFields
    <2> QED BY <2>1, <2>3, InvFacts, WordType
  <1>2. Elapsing(0)
    BY <1>1, QuietStep
  <1>3. Held /\ ReachKept /\ ShapeKept
    BY <1>2, ElapsingHolds
  <1> DEFINE T == [u \in Timers |-> [ left |-> TimeLeft(tm, u), period |-> tm.period[u], width |-> tm.width[u],
                                   next |-> tm.nxtdly[u], state |-> tm.state[u], fired |-> tm.fired[u] ]]
  <1>4. Alone!SetBack
    <2>1. Now = T
      BY DEF Now, View, Left
    <2>2. Now' = T'
      BY DEF Now, View, Left
    <2>3. Now' = [t \in Timers |-> Alone!Ticks(Now[t], 0)]
      BY <1>2 DEF Elapsing
    <2>4. T' = [t \in Timers |-> Alone!Ticks(T[t], 0)]
      BY <2>1, <2>2, <2>3
    <2> QED BY <1>1, <2>4, Zenon DEF Alone!SetBack
  <1> QED BY <1>3, <1>4 DEF Steps, Alone!Next

LEMMA PowerDownHolds ==
  ASSUME TimeInv, NEW n \in Sleeps, SysPowerDown(n)
  PROVE  Steps /\ ReachKept /\ ShapeKept
  <1>1. n \in Nat
    BY TimeAssumption
  <1>2. /\ TimeoutInv /\ Timely(tm, Left) /\ etime + n <= Half + Lag
        /\ etime' = etime + n /\ tm' = TickRecovery(n).tm
    BY DEF TimeInv, SysPowerDown
  <1>3. PICK R : /\ Timely(tm', R)
                 /\ \A t \in Timers : View(tm', R, t) = Alone!Ticks(View(tm, Left, t), n)
    <2> DEFINE s == TickRecovery(n)
    <2>1. s = TickRecovery(n) /\ tm' = s.tm
      BY <1>2
    <2> HIDE DEF s
    <2> QED BY <1>1, <1>2, <2>1, TickRecoveryIs
  <1>4. Elapsing(n)
    BY <1>3, ElapsingIs
  <1>5. Held /\ ReachKept /\ ShapeKept
    BY <1>1, <1>4, ElapsingHolds
  <1>6. Alone!Elapse(n)
    BY <1>2, <1>4, ElapsingStep
  <1> QED BY <1>5, <1>6 DEF Steps, Alone!Next

\* A timer is started; how long it runs is what the application asks for.
LEMMA StartHolds ==
  ASSUME TimeInv, NEW t \in Timers, NEW delay \in 1..(Word - 1), NEW period \in 0..MaxDelay,
         <<delay, period>> \in Starts \union AbsStarts,
         IsRunning(tm, t) /\ tm.width[t] > 0 => period = 0 \/ period > tm.width[t],
         tm' = TimerStart_F(NoneFired(tm), t, delay, period), etime' = etime
  PROVE  /\ Steps
         /\ delay <= MaxDelay => ReachKept
         /\ period = 0 => ShapeKept
  <1> DEFINE e == IF Left[t] > 0 THEN View(tm, Left, t) ELSE Alone!Stopped
             v == [e EXCEPT !.left = delay, !.period = period, !.next = delay]
  <1>1. Becoming(t, v)
    BY StartStep
  <1>2. e \in Clock
    BY InvFacts, StoppedClock
  <1>3. delay \in Nat
    BY WordType
  <1>4. v = [(IF Left[t] > 0 THEN View(tm, Left, t) ELSE Alone!Stopped) EXCEPT
                !.left = delay, !.period = period, !.next = delay]
    OBVIOUS
  <1>5. v = [e EXCEPT !.left = delay, !.period = period, !.next = delay]
    OBVIOUS
  <1> HIDE DEF e
  <1>6. PICK w : w = v
    OBVIOUS
  <1>7. Becoming(t, w)
    BY <1>1, <1>6 DEF Becoming
  <1>8. w \in Clock /\ (delay <= MaxDelay => Near(w)) /\ (period = 0 => Shaped(w))
    BY <1>2, <1>3, <1>5, <1>6, StartedClock
  <1>9. Held /\ (delay <= MaxDelay => ReachKept) /\ (period = 0 => ShapeKept)
    BY <1>7, <1>8, BecomingHolds
  <1>10. w = [(IF Left[t] > 0 THEN View(tm, Left, t) ELSE Alone!Stopped) EXCEPT
                 !.left = delay, !.period = period, !.next = delay]
    BY <1>4, <1>6
  <1>11. Alone!Start(t, delay, period)
    BY <1>7, <1>10, StartAlone
  <1>12. Alone!Next
    <2> DEFINE s == <<delay, period>>
    <2>1. s[1] = delay /\ s[2] = period /\ s \in Starts \union AbsStarts
      OBVIOUS
    <2> HIDE DEF s
    <2>2. \E d \in Starts \union AbsStarts : Alone!Start(t, d[1], d[2])
      BY <1>11, <2>1
    <2> QED BY <2>2 DEF Alone!Next
  <1> QED BY <1>9, <1>12 DEF Steps

LEMMA StopHolds ==
  ASSUME TimeInv, NEW t \in Timers, TimerStop(t)
  PROVE  Steps /\ ReachKept /\ ShapeKept
  <1>1. Becoming(t, Alone!Stopped)
    BY StopStep
  <1>2. PICK w : w = Alone!Stopped
    OBVIOUS
  <1>3. Becoming(t, w) /\ w \in Clock /\ Near(w) /\ Shaped(w)
    BY <1>1, <1>2, StoppedClock
  <1>4. Held /\ ReachKept /\ ShapeKept
    BY <1>3, BecomingHolds
  <1>5. Alone!Stop(t)
    BY <1>1, StopAlone DEF TimerStop, TimerSSR
  <1> QED BY <1>4, <1>5 DEF Steps, Alone!Next

\* A pulse loses its shape only when it is reset in its HI phase.
LEMMA ResetHolds ==
  ASSUME TimeInv, NEW t \in Timers, TimerReset(t)
  PROVE  /\ Steps /\ ReachKept
         /\ tm.state[t] = "HI" \/ ShapeKept
  <1> DEFINE e == View(tm, Left, t)
  <1>1. Becoming(t, [e EXCEPT !.left  = IF tm.period[t] = 0 THEN tm.nxtdly[t]
                                        ELSE tm.period[t] - tm.width[t],
                              !.state = "LO"])
    BY ResetStep
  <1>2. /\ e.period = tm.period[t] /\ e.next = tm.nxtdly[t] /\ e.width = tm.width[t]
        /\ e.state = tm.state[t] /\ e \in Clock /\ Now[t] = e
    BY InvFacts DEF View
  <1>3. e = View(tm, Left, t)
    OBVIOUS
  <1> HIDE DEF e
  <1> DEFINE x == [e EXCEPT !.left  = IF tm.period[t] = 0 THEN tm.nxtdly[t]
                                      ELSE tm.period[t] - tm.width[t],
                            !.state = "LO"]
  <1>4. PICK w : w = x
    OBVIOUS
  <1>5. Becoming(t, w)
    <2>1. Becoming(t, x)
      BY <1>1
    <2> HIDE DEF x
    <2> QED BY <1>4, <2>1 DEF Becoming
  <1>6. w = [e EXCEPT !.left = IF e.period = 0 THEN e.next ELSE e.period - e.width, !.state = "LO"]
    BY <1>2, <1>4
  <1>7. w \in Clock /\ (Near(e) => Near(w)) /\ (e.state = "LO" /\ Shaped(e) => Shaped(w))
    BY <1>2, <1>6, ResetClock
  <1>8. /\ Held
        /\ ((\A u \in Timers : Near(Now[u])) => Near(w)) => ReachKept
        /\ ((\A u \in Timers : Shaped(Now[u])) => Shaped(w)) => ShapeKept
    BY <1>5, <1>7, BecomingHolds
  <1>9. e.state \in {"LO", "HI"}
    BY <1>2 DEF Clock
  <1>10. Alone!Reset(t)
    BY <1>3, <1>5, <1>6, ResetAlone DEF TimerReset, TimerSSR
  <1>11. Steps
    BY <1>8, <1>10 DEF Steps, Alone!Next
  <1> QED BY <1>2, <1>7, <1>8, <1>9, <1>11

LEMMA SetPulseHolds ==
  ASSUME TimeInv, NEW t \in Timers, NEW s \in Pulses, TimerSetPulse(t, s[1], s[2])
  PROVE  /\ Steps /\ ReachKept
         /\ tm.state[t] = "HI" \/ ShapeKept
  <1> DEFINE e == View(tm, Left, t)
             a == s[1]
             b == s[2]
  <1>1. Becoming(t, [e EXCEPT !.period = a, !.width = b,
                              !.next = IF tm.state[t] = "LO" THEN b ELSE tm.nxtdly[t]])
    BY SetPulseStep
  <1>2. e.next = tm.nxtdly[t] /\ e.state = tm.state[t] /\ e \in Clock /\ Now[t] = e
    BY InvFacts DEF View
  <1>3. e = View(tm, Left, t)
    OBVIOUS
  <1>4. a \in 0..MaxDelay /\ b \in 0..MaxDelay
    BY TimeAssumption
  <1>5. IsRunning(tm, t) /\ etime' = etime
    BY DEF TimerSetPulse, TimerSSR
  <1>6. s \in Pulses /\ a = s[1] /\ b = s[2]
    OBVIOUS
  <1> HIDE DEF e, a, b
  <1> DEFINE x == [e EXCEPT !.period = a, !.width = b,
                            !.next = IF tm.state[t] = "LO" THEN b ELSE tm.nxtdly[t]]
  <1>7. PICK w : w = x
    OBVIOUS
  <1>8. Becoming(t, w)
    <2>1. Becoming(t, x)
      BY <1>1
    <2> HIDE DEF x
    <2> QED BY <1>7, <2>1 DEF Becoming
  <1>9. w = [e EXCEPT !.period = a, !.width = b, !.next = IF e.state = "LO" THEN b ELSE e.next]
    BY <1>2, <1>7
  <1> HIDE DEF x
  <1>10. w \in Clock /\ (Near(e) => Near(w)) /\ (e.state = "LO" => Shaped(w))
    <2> DEFINE n == IF e.state = "LO" THEN b ELSE e.next
    <2>1. e \in Clock /\ a \in 0..MaxDelay /\ b \in 0..MaxDelay
      BY <1>2, <1>4
    <2>2. n \in Int /\ (n <= MaxDelay \/ n = e.next) /\ (e.state = "LO" => n = b)
      BY <2>1, MaxDelayType DEF Clock
    <2>3. w = [e EXCEPT !.period = a, !.width = b, !.next = n]
      BY <1>9
    <2> HIDE DEF n
    <2>4. /\ w \in Clock /\ w.left = e.left /\ w.period = a /\ w.width = b /\ w.next = n
          /\ w.state = e.state
      BY <2>1, <2>2, <2>3 DEF Clock
    <2> QED BY <2>2, <2>4 DEF Near, Shaped
  <1>11. /\ Held
         /\ ((\A u \in Timers : Near(Now[u])) => Near(w)) => ReachKept
         /\ ((\A u \in Timers : Shaped(Now[u])) => Shaped(w)) => ShapeKept
    BY <1>8, <1>10, BecomingHolds
  <1>12. e.state \in {"LO", "HI"}
    BY <1>2 DEF Clock
  <1>13. Alone!SetPulse(t, a, b)
    BY <1>3, <1>5, <1>8, <1>9, SetPulseAlone
  <1>14. \E d \in Pulses : Alone!SetPulse(t, d[1], d[2])
    BY <1>6, <1>13
  <1>15. Steps
    BY <1>11, <1>14 DEF Steps, Alone!Next
  <1> QED BY <1>2, <1>10, <1>11, <1>12, <1>15

LEMMA DupHolds ==
  ASSUME TimeInv, NEW t \in Timers, NEW c \in Timers, TimerDup(t, c)
  PROVE  Steps /\ ReachKept /\ ShapeKept
  <1>1. Becoming(t, View(tm, Left, c))
    BY DupStep
  <1>2. PICK w : w = View(tm, Left, c)
    OBVIOUS
  <1>3. Becoming(t, w)
    BY <1>1, <1>2 DEF Becoming
  <1>4. w \in Clock /\ w = Now[c]
    BY <1>2, InvFacts
  <1>5. Held /\ ReachKept /\ ShapeKept
    <2>1. (\A u \in Timers : Near(Now[u])) => Near(w)
      BY <1>4
    <2>2. (\A u \in Timers : Shaped(Now[u])) => Shaped(w)
      BY <1>4
    <2> QED BY <1>3, <1>4, <2>1, <2>2, BecomingHolds
  <1>6. Alone!Dup(t, c)
    BY <1>2, <1>3, DupAlone DEF TimerDup, TimerSSR
  <1> QED BY <1>5, <1>6 DEF Steps, Alone!Next

\* What may bring a pulse out of shape.
ShiftsPulse ==
  \E t \in Timers :
     \/ \E s \in Starts : TimerStart(t, s[1], s[2])
     \/ /\ tm.state[t] = "HI"
        /\ TimerReset(t) \/ \E s \in Pulses : TimerSetPulse(t, s[1], s[2])

LEMMA CallHolds ==
  ASSUME TimeInv, TimerCall
  PROVE  Steps /\ ReachKept /\ (ShiftsPulse \/ ShapeKept)
  <1>1. PICK t \in Timers :
          \/ TimerStop(t) \/ TimerReset(t)
          \/ \E s \in Starts : TimerStart(t, s[1], s[2])
          \/ \E s \in Pulses : TimerSetPulse(t, s[1], s[2])
          \/ \E a \in Timers : TimerDup(t, a)
    BY Zenon DEF TimerCall
  <1>2. CASE TimerStop(t)
    BY <1>2, StopHolds
  <1>3. CASE TimerReset(t)
    BY <1>3, ResetHolds DEF ShiftsPulse
  <1>4. ASSUME NEW s \in Starts, TimerStart(t, s[1], s[2])
        PROVE  Steps /\ ReachKept /\ (ShiftsPulse \/ ShapeKept)
    <2> DEFINE d == s[1]
               p == s[2]
    <2>1. d \in 1..MaxDelay /\ p \in 0..MaxDelay /\ s = <<d, p>>
      BY TimeAssumption
    <2>2. /\ IsRunning(tm, t) /\ tm.width[t] > 0 => p = 0 \/ p > tm.width[t]
          /\ tm' = TimerStart_F(NoneFired(tm), t, d, p) /\ etime' = etime
      BY <1>4 DEF TimerStart, TimerSSR
    <2>3. ShiftsPulse
      BY <1>4 DEF ShiftsPulse
    <2> HIDE DEF d, p
    <2>4. d \in 1..(Word - 1) /\ d <= MaxDelay
      BY <2>1, MaxDelayType, WordType
    <2>5. <<d, p>> \in Starts \union AbsStarts
      BY <2>1
    <2>6. Steps /\ (d <= MaxDelay => ReachKept)
      BY <2>1, <2>2, <2>4, <2>5, StartHolds
    <2> QED BY <2>3, <2>4, <2>6
  <1>5. ASSUME NEW s \in Pulses, TimerSetPulse(t, s[1], s[2])
        PROVE  Steps /\ ReachKept /\ (ShiftsPulse \/ ShapeKept)
    <2>1. Steps /\ ReachKept /\ (tm.state[t] = "HI" \/ ShapeKept)
      BY <1>5, SetPulseHolds
    <2>2. tm.state[t] = "HI" => ShiftsPulse
      BY <1>5 DEF ShiftsPulse
    <2> QED BY <2>1, <2>2
  <1>6. ASSUME NEW c \in Timers, TimerDup(t, c)
        PROVE  Steps /\ ReachKept /\ (ShiftsPulse \/ ShapeKept)
    BY <1>6, DupHolds
  <1> QED BY <1>1, <1>2, <1>3, <1>4, <1>5, <1>6

\* smx_TimerStartAbs() starts the timer for too long only when the time has
\* passed by the time the delay is computed.
LEMMA AbsHolds ==
  ASSUME TimeInv, AbsCall
  PROVE  Steps /\ ((StartAbs /\ abs.delay > abs.time) \/ ReachKept) /\ ShapeKept
  <1>1. CASE \E t \in Timers, d \in 1..MaxDelay : StartAbsTest(t, etime + d)
    <2>1. tm' = NoneFired(tm) /\ etime' = etime
      BY <1>1 DEF StartAbsTest, TimerSSR
    <2> QED BY <2>1, QuietHolds
  <1>2. CASE StartAbsDelay
    <2>1. tm' = NoneFired(tm) /\ etime' = etime
      BY <1>2 DEF StartAbsDelay, TimerSSR
    <2> QED BY <2>1, QuietHolds
  <1>3. CASE StartAbs
    <2> DEFINE d == abs.delay
               t == abs.tmr
    <2>1. /\ d # Unread /\ etime' = etime
          /\ tm' = IF d = 0 THEN NoneFired(tm) ELSE TimerStart_F(NoneFired(tm), t, d, 0)
      BY <1>3 DEF StartAbs, TimerSSR
    <2>2. /\ abs \in [tmr : Timers, time : 0..(Word - 1), delay : 0..Unread]
          /\ d <= MaxDelay \/ d > abs.time
      BY <1>3, <2>1 DEF StartAbs, TimeInv, AbsInv
    <2>3. t \in Timers /\ d \in 0..(Word - 1)
      BY <2>1, <2>2, WordType DEF Unread
    <2>4. d > abs.time => StartAbs /\ abs.delay > abs.time
      BY <1>3
    <2> HIDE DEF d, t
    <2>5. CASE d = 0
      <3>1. tm' = NoneFired(tm)
        BY <2>1, <2>5
      <3> QED BY <2>1, <3>1, QuietHolds
    <2>6. CASE d # 0
      <3>1. d \in 1..(Word - 1) /\ 0 \in 0..MaxDelay
        BY <2>3, <2>6, WordType, MaxDelayType
      <3>2. tm' = TimerStart_F(NoneFired(tm), t, d, 0)
        BY <2>1, <2>6
      <3>3. <<d, 0>> \in Starts \union AbsStarts
        BY <3>1 DEF AbsStarts
      <3>4. Steps /\ (d <= MaxDelay => ReachKept) /\ ShapeKept
        BY <2>1, <2>3, <3>1, <3>2, <3>3, StartHolds
      <3> QED BY <2>2, <2>4, <3>4
    <2> QED BY <2>5, <2>6
  <1> QED BY <1>1, <1>2, <1>3 DEF AbsCall

-----------------------------------------------------------------------------
(* The timeouts. *)

LEMMA QuietInv ==
  ASSUME TimeoutInv, to' = Quiet(to), UNCHANGED <<etime, pend>>
  PROVE  TimeoutInv'
  <1>1. to \in Timeouts
    BY DEF TimeoutInv, TimeoutType, Timeouts
  <1>2. to' \in Timeouts /\ to'.timeout = to.timeout /\ to'.min = to.min
    BY <1>1, QuietFields
  <1> QED BY <1>1, <1>2 DEF TimeoutInv, TimeoutType, MinBelow, LsrInvoked, InReach, Timeouts

LEMMA QuietPromise ==
  ASSUME TimeoutInv, to' = Quiet(to), etime' = etime
  PROVE  Promise!Rest
  <1>1. to \in Timeouts
    BY DEF TimeoutInv, TimeoutType, Timeouts
  <1>2. to'.timeout = to.timeout /\ to'.ended = {}
    BY <1>1, QuietFields
  <1>3. \A t \in Tasks : Wait(t)' = Wait(t)
    BY <1>2 DEF Wait
  <1> QED BY <1>2, <1>3, Zenon DEF Promise!Rest

\* What smx_TickRecovery() does to the timeouts.
LEMMA RecoveredTimeouts ==
  ASSUME TimeInv, NEW n \in Sleeps, SysPowerDown(n)
  PROVE  /\ n \in 1..MaxWait /\ n \in Nat /\ etime' = etime + n /\ etime + n <= Half + Lag
         /\ pend' = pend /\ pend = 0
         /\ to' \in Timeouts /\ to'.ended = DueBy(to, etime + n)
         /\ \A t \in Tasks : to'.timeout[t] = IF t \in to'.ended THEN INF ELSE to.timeout[t]
         /\ \A t \in Tasks : to'.min <= to'.timeout[t]
         /\ to'.min > etime + n
  <1>1. n \in 1..MaxWait /\ n \in Nat
    BY TimeAssumption
  <1>2. /\ TimeoutInv /\ Timely(tm, Left) /\ etime + n <= Half + Lag /\ pend = 0 /\ pend' = pend
        /\ etime' = etime + n /\ to' = TickRecovery(n).to
    BY DEF TimeInv, SysPowerDown
  <1> DEFINE s == TickRecovery(n)
  <1>3. s = TickRecovery(n) /\ to' = s.to
    BY <1>2
  <1> HIDE DEF s
  <1>4. /\ s.to \in Timeouts /\ s.to.ended = DueBy(to, etime + n)
        /\ \A t \in Tasks : s.to.timeout[t] = IF t \in s.to.ended THEN INF ELSE to.timeout[t]
        /\ \A t \in Tasks : s.to.min <= s.to.timeout[t]
        /\ s.to.min > etime + n
    BY <1>1, <1>2, <1>3, TickRecoveryIs
  <1> QED BY <1>1, <1>2, <1>3, <1>4

LEMMA PowerDownInv ==
  ASSUME TimeInv, NEW n \in Sleeps, SysPowerDown(n)
  PROVE  TimeoutInv'
  <1>1. /\ n \in Nat /\ etime' = etime + n /\ etime + n <= Half + Lag
        /\ pend' = pend /\ to' \in Timeouts
        /\ \A t \in Tasks : to'.timeout[t] = IF t \in to'.ended THEN INF ELSE to.timeout[t]
        /\ \A t \in Tasks : to'.min <= to'.timeout[t]
        /\ to'.min > etime + n
    BY RecoveredTimeouts
  <1>2. TimeoutInv /\ etime \in Nat
    BY InvFacts
  <1>3. TimeoutType'
    BY <1>1, <1>2, TimeoutAssumption, WordAssumption, SMT DEF TimeoutInv, TimeoutType, Timeouts
  <1>4. MinBelow'
    BY <1>1 DEF MinBelow
  <1>5. LsrInvoked'
    <2>1. to'.min \in Nat
      BY <1>1, WordType DEF Timeouts
    <2> QED BY <1>1, <1>2, <2>1 DEF LsrInvoked
  <1>6. InReach'
    <2>1. ASSUME NEW t \in Tasks PROVE to'.timeout[t] = INF \/ to'.timeout[t] <= etime' + MaxWait
      <3>1. /\ to.timeout[t] \in Nat /\ MaxWait \in Nat
            /\ to.timeout[t] = INF \/ to.timeout[t] <= etime + MaxWait
        BY <1>2, WordType, TimeoutAssumption DEF TimeoutInv, TimeoutType, InReach
      <3> QED BY <1>1, <1>2, <3>1
    <2> QED BY <2>1 DEF InReach
  <1> QED BY <1>3, <1>4, <1>5, <1>6 DEF TimeoutInv

LEMMA SleepPromise ==
  ASSUME TimeInv, NEW n \in Sleeps, SysPowerDown(n)
  PROVE  Promise!Sleep(n) /\ n \in 0..MaxWait
  <1>1. /\ n \in 1..MaxWait /\ n \in Nat /\ etime' = etime + n /\ etime + n <= Half + Lag
        /\ to'.ended = DueBy(to, etime + n)
        /\ \A t \in Tasks : to'.timeout[t] = IF t \in to'.ended THEN INF ELSE to.timeout[t]
    BY RecoveredTimeouts
  <1>2. TimeoutInv /\ etime \in Nat
    BY InvFacts
  <1>3. etime + n < INF
    BY <1>1, <1>2, WordAssumption, TimeoutAssumption, SMT DEF INF, Word
  <1>4. ASSUME NEW t \in Tasks
        PROVE  /\ t \in to'.ended <=> Wait(t) # None /\ Wait(t) <= n
               /\ Wait(t)' = IF t \in to'.ended THEN None
                             ELSE IF Wait(t) # None THEN Wait(t) - n ELSE None
    <2>1. /\ to.timeout[t] \in Nat /\ INF \in Nat /\ W[t] = Wait(t) /\ Wait(t) \in Int
          /\ (Wait(t) = INF <=> to.timeout[t] = INF)
          /\ (to.timeout[t] # INF => Wait(t) = to.timeout[t] - etime)
      <3>1. W[t] = Wait(t)
        BY DEF W
      <3> QED BY <1>2, <3>1, WaitFacts
    <2>2. t \in to'.ended <=> to.timeout[t] <= etime + n
      BY <1>1 DEF DueBy
    <2>3. t \in to'.ended <=> Wait(t) # None /\ Wait(t) <= n
      BY <1>1, <1>2, <1>3, <2>1, <2>2 DEF None
    <2>4. to'.timeout[t] = IF t \in to'.ended THEN INF ELSE to.timeout[t]
      BY <1>1
    <2>5. Wait(t)' = IF to'.timeout[t] = INF THEN None ELSE to'.timeout[t] - etime'
      BY DEF Wait, None
    <2>6. CASE t \in to'.ended
      BY <2>3, <2>4, <2>5, <2>6 DEF None
    <2>7. CASE t \notin to'.ended
      <3>1. to'.timeout[t] = to.timeout[t]
        BY <2>4, <2>7
      <3>2. to.timeout[t] # INF => to.timeout[t] - (etime + n) = Wait(t) - n
        BY <1>1, <1>2, <2>1
      <3> QED BY <1>1, <2>1, <2>3, <2>5, <2>7, <3>1, <3>2 DEF None
    <2> QED BY <2>3, <2>6, <2>7
  <1>5. to'.ended \subseteq Tasks
    BY <1>1 DEF DueBy
  <1>6. to'.ended = {t \in Tasks : Wait(t) # None /\ Wait(t) <= n}
    BY <1>4, <1>5
  <1>7. W' = [t \in Tasks |-> IF t \in to'.ended THEN None
                              ELSE IF Wait(t) # None THEN Wait(t) - n ELSE None]
    BY <1>4 DEF W
  <1> DEFINE V == [t \in Tasks |-> Wait(t)]
  <1>8. V = W /\ V' = W'
    BY DEF W
  <1>9. \A t \in Tasks : V[t] = Wait(t)
    OBVIOUS
  <1>10. to'.ended = {t \in {u \in Tasks : V[u] # None} : V[t] <= n}
    BY <1>6, <1>9
  <1>11. V' = [t \in Tasks |-> IF t \in to'.ended THEN None
                 ELSE [u \in Tasks |-> IF u \in {x \in Tasks : V[x] # None} THEN V[u] - n ELSE None][t]]
    BY <1>7, <1>8, <1>9
  <1> QED BY <1>1, <1>10, <1>11, SMT DEF Promise!Sleep, Promise!After, Promise!Waiting

-----------------------------------------------------------------------------
(* The invariant is inductive. *)

LEMMA NoTimersAre == Timely(NoTimers, [t \in Timers |-> 0])
  <1> DEFINE L == [t \in Timers |-> 0]
             m == NoTimers
  <1>1. /\ m.tq = <<>> /\ m.diffcnt = L /\ m.period = L /\ m.width = L /\ m.nxtdly = L
        /\ m.state = [t \in Timers |-> "LO"] /\ m.fired = L
        /\ m = [tq |-> m.tq, diffcnt |-> m.diffcnt, period |-> m.period, width |-> m.width,
                nxtdly |-> m.nxtdly, state |-> m.state, fired |-> m.fired]
    BY DEF NoTimers
  <1>2. L \in [Timers -> 0..(Word - 1)] /\ L \in [Timers -> Nat]
    BY ZeroIsAWord
  <1>3. [t \in Timers |-> "LO"] \in [Timers -> {"LO", "HI"}]
    OBVIOUS
  <1>4. \A t : ~Contains(<<>>, t)
    BY DEF Contains
  <1>5. \A t \in Timers : L[t] = 0
    OBVIOUS
  <1> HIDE DEF L, m
  <1>6. m \in TimersType
    <2>1. <<>> \in Seq(Timers)
      OBVIOUS
    <2> DEFINE c == m.state
    <2>2. c \in [Timers -> {"LO", "HI"}]
      BY <1>1, <1>3
    <2>3. m = [tq |-> <<>>, diffcnt |-> L, period |-> L, width |-> L, nxtdly |-> L, state |-> c,
               fired |-> L]
      BY <1>1
    <2> HIDE DEF c
    <2> QED BY <1>2, <2>1, <2>2, <2>3 DEF TimersType
  <1>7. Adds(<<>>, L, L)
    BY <1>2, <1>5 DEF Adds, Injective
  <1>8. Queue(m, L)
    BY <1>1, <1>6, <1>7 DEF Queue
  <1>9. \A t \in Timers : InPhase(m, t) /\ ~Contains(m.tq, t)
    BY <1>1, <1>4, <1>5 DEF InPhase
  <1>10. Timely(m, L)
    BY <1>8, <1>9, PhasesAre DEF Timely, Sane
  <1> QED BY <1>10 DEF m, L

LEMMA InitTimers ==
  ASSUME tm = NoTimers
  PROVE  Timely(tm, Left) /\ Now = [t \in Timers |-> Alone!Stopped]
  <1> DEFINE L == [t \in Timers |-> 0]
  <1>1. Timely(tm, L)
    BY NoTimersAre
  <1>2. L = Left
    <2> HIDE DEF L
    <2> QED BY <1>1, LeftAre
  <1>3. ASSUME NEW t \in Timers PROVE View(tm, L, t) = Alone!Stopped
    <2>1. /\ tm.period[t] = 0 /\ tm.width[t] = 0 /\ tm.nxtdly[t] = 0 /\ tm.state[t] = "LO"
          /\ tm.fired[t] = 0 /\ L[t] = 0
      BY DEF NoTimers
    <2> QED BY <2>1 DEF View, Alone!Stopped
  <1> QED BY <1>1, <1>2, <1>3 DEF Now

LEMMA TimeInitInv == TimeInit => TimeInv
  <1> SUFFICES ASSUME TimeInit PROVE TimeInv
    OBVIOUS
  <1>1. TimeoutInit /\ tm = NoTimers /\ abs = NoCall
    BY DEF TimeInit
  <1>2. Timely(tm, Left) /\ Now = [t \in Timers |-> Alone!Stopped]
    BY <1>1, InitTimers
  <1>3. Now \in [Timers -> Clock]
    BY <1>2, StoppedClock
  <1> QED BY <1>1, <1>2, <1>3, InitInv DEF TimeInv, AbsInv

LEMMA TimeSteps ==
  ASSUME TimeInv, TimeNext
  PROVE  /\ Steps
         /\ (StartAbs /\ abs.delay > abs.time) \/ ReachKept
         /\ ShiftsPulse \/ ShapeKept
  <1>1. CASE KeepTimeLSR
    BY <1>1, KeepTimeHolds
  <1>2. CASE RunTimeoutLSR
    <2>1. tm' = NoneFired(tm) /\ etime' = etime
      BY <1>2 DEF RunTimeoutLSR, TimeoutLSR, TimeoutsOnly
    <2> QED BY <2>1, QuietHolds
  <1>3. CASE IdleRollover
    BY <1>3, RolloverHolds
  <1>4. CASE PowerDown
    BY <1>4, PowerDownHolds DEF PowerDown
  <1>5. CASE WaitCall
    <2>1. tm' = NoneFired(tm) /\ etime' = etime
      BY <1>5 DEF WaitCall, TimeoutCancel, TimeoutSet, TimeoutsOnly
    <2> QED BY <2>1, QuietHolds
  <1>6. CASE TimerCall
    BY <1>6, CallHolds
  <1>7. CASE AbsCall
    BY <1>7, AbsHolds
  <1> QED BY <1>1, <1>2, <1>3, <1>4, <1>5, <1>6, <1>7 DEF TimeNext

\* The timer SSRs leave the timeouts alone.
LEMMA CallsAreQuiet ==
  ASSUME TimerCall \/ AbsCall
  PROVE  to' = Quiet(to) /\ UNCHANGED <<etime, pend>>
  <1>1. CASE TimerCall
    BY <1>1 DEF TimerCall, TimerStop, TimerReset, TimerStart, TimerSetPulse, TimerDup, TimerSSR
  <1>2. CASE AbsCall
    BY <1>2 DEF AbsCall, StartAbsTest, StartAbsDelay, StartAbs, TimerSSR
  <1> QED BY <1>1, <1>2

LEMMA TimeoutSteps ==
  ASSUME TimeInv, TimeNext
  PROVE  TimeoutInv'
  <1>1. TimeoutInv
    BY DEF TimeInv
  <1>2. CASE KeepTimeLSR
    BY <1>1, <1>2, TickInv DEF KeepTimeLSR
  <1>3. CASE RunTimeoutLSR
    BY <1>1, <1>3, LsrInv DEF RunTimeoutLSR
  <1>4. CASE IdleRollover
    BY <1>1, <1>4, RolloverInv DEF IdleRollover
  <1>5. CASE PowerDown
    BY <1>5, PowerDownInv DEF PowerDown
  <1>6. CASE WaitCall
    <2>1. \E t \in Tasks : TimeoutCancel(t) \/ \E d \in Delays : TimeoutSet(t, d)
      BY <1>6 DEF WaitCall
    <2> QED BY <1>1, <2>1, CancelInv, SetInv
  <1>7. CASE TimerCall \/ AbsCall
    BY <1>1, <1>7, CallsAreQuiet, QuietInv
  <1> QED BY <1>2, <1>3, <1>4, <1>5, <1>6, <1>7 DEF TimeNext

LEMMA PromiseSteps ==
  ASSUME TimeInv, TimeoutInv', TimeNext
  PROVE  Promise!Next
  <1> USE DEF Promise!Next
  <1>1. TimeoutInv
    BY DEF TimeInv
  <1>2. CASE KeepTimeLSR
    BY <1>1, <1>2, TickPromise DEF KeepTimeLSR
  <1>3. CASE RunTimeoutLSR
    BY <1>1, <1>3, LsrPromise DEF RunTimeoutLSR
  <1>4. CASE IdleRollover
    BY <1>1, <1>4, RolloverPromise DEF IdleRollover
  <1>5. CASE PowerDown
    BY <1>5, SleepPromise DEF PowerDown
  <1>6. CASE WaitCall
    <2>1. \/ \E t \in Tasks : TimeoutCancel(t)
          \/ \E t \in Tasks, d \in Delays : TimeoutSet(t, d)
      BY <1>6 DEF WaitCall
    <2>2. CASE \E t \in Tasks : TimeoutCancel(t)
      BY <1>1, <2>2, CancelPromise
    <2>3. CASE \E t \in Tasks, d \in Delays : TimeoutSet(t, d)
      BY <1>1, <2>3, SetPromise
    <2> QED BY <2>1, <2>2, <2>3
  <1>7. CASE TimerCall \/ AbsCall
    <2>1. to' = Quiet(to) /\ etime' = etime
      BY <1>7, CallsAreQuiet
    <2> QED BY <1>1, <2>1, QuietPromise
  <1> QED BY <1>2, <1>3, <1>4, <1>5, <1>6, <1>7 DEF TimeNext

LEMMA AbsSteps ==
  ASSUME TimeInv, TimeNext
  PROVE  AbsInv'
  <1>1. /\ AbsInv /\ etime \in Nat /\ etime < Word - 1 /\ TimeoutInv
        /\ Word \in Nat /\ MaxDelay \in Nat /\ MaxDelay > 0
    BY InvFacts, WordType, MaxDelayType DEF TimeInv
  <1>2. CASE abs' = abs /\ (abs = NoCall \/ etime' = etime \/ etime' = etime + 1)
    <2>1. CASE abs = NoCall
      BY <1>2, <2>1 DEF AbsInv
    <2>2. CASE abs # NoCall
      <3>1. /\ abs \in [tmr : Timers, time : 0..(Word - 1), delay : 0..Unread]
            /\ abs.time <= etime + MaxDelay
            /\ abs.delay # Unread => abs.delay <= MaxDelay \/ abs.delay > abs.time
        BY <1>1, <2>2 DEF AbsInv
      <3>2. abs.time \in Nat
        BY <1>1, <3>1
      <3>3. abs.time <= etime' + MaxDelay
        BY <1>1, <1>2, <2>2, <3>1, <3>2
      <3> QED BY <1>2, <3>1, <3>3 DEF AbsInv
    <2> QED BY <2>1, <2>2
  <1>3. CASE abs' = NoCall
    BY <1>3 DEF AbsInv
  <1>4. ASSUME NEW t \in Timers, NEW d \in 1..MaxDelay, etime + d < Word, StartAbsTest(t, etime + d)
        PROVE  AbsInv'
    <2> DEFINE x == [tmr |-> t, time |-> etime + d, delay |-> Unread]
    <2>1. abs' = x /\ etime' = etime
      BY <1>4 DEF StartAbsTest, TimerSSR
    <2>2. etime + d \in 0..(Word - 1) /\ Unread \in 0..Unread
      BY <1>1, <1>4 DEF Unread
    <2>3. x \in [tmr : Timers, time : 0..(Word - 1), delay : 0..Unread]
      BY <2>2
    <2>4. x.time = etime + d /\ x.delay = Unread
      OBVIOUS
    <2> HIDE DEF x
    <2>5. x.time <= etime + MaxDelay
      BY <1>1, <2>4
    <2> QED BY <2>1, <2>3, <2>4, <2>5 DEF AbsInv
  <1>5. CASE StartAbsDelay
    <2> DEFINE n == (abs.time - etime) % Word
               x == [abs EXCEPT !.delay = n]
    <2>1. abs # NoCall /\ abs' = x /\ etime' = etime
      BY <1>5 DEF StartAbsDelay, TimerSSR
    <2>2. /\ abs \in [tmr : Timers, time : 0..(Word - 1), delay : 0..Unread]
          /\ abs.time <= etime + MaxDelay /\ abs.time \in 0..(Word - 1)
      BY <1>1, <2>1 DEF AbsInv
    <2>3. n \in 0..(Word - 1) /\ (n <= MaxDelay \/ n > abs.time)
      <3> DEFINE c == abs.time
      <3>1. c \in 0..(Word - 1) /\ c <= etime + MaxDelay
        BY <2>2
      <3> HIDE DEF c
      <3>2. n = (c - etime) % Word
        BY DEF c
      <3>3. CASE c >= etime
        <4>1. c - etime \in 0..(Word - 1) /\ c - etime <= MaxDelay
          BY <1>1, <3>1, <3>3
        <4>2. n = c - etime
          BY <3>2, <4>1, ModWord
        <4> QED BY <4>1, <4>2
      <3>4. CASE c < etime
        <4>1. /\ c - etime + Word \in 0..(Word - 1) /\ c - etime + Word > c
              /\ c - etime \in Int
          BY <1>1, <3>1, <3>4
        <4>2. (c - etime) % Word = (c - etime + Word) % Word
          BY <1>1, <4>1, WordType, SMT
        <4>3. n = c - etime + Word
          <5>1. (c - etime + Word) % Word = c - etime + Word
            BY <4>1, ModWord
          <5> QED BY <3>2, <4>2, <5>1
        <4> QED BY <4>1, <4>3 DEF c
      <3> QED BY <1>1, <3>1, <3>3, <3>4 DEF c
    <2> HIDE DEF n
    <2>4. n \in 0..Unread
      BY <1>1, <2>3 DEF Unread
    <2>5. /\ x \in [tmr : Timers, time : 0..(Word - 1), delay : 0..Unread]
          /\ x.time = abs.time /\ x.delay = n
      BY <2>2, <2>4
    <2> HIDE DEF x
    <2> QED BY <2>1, <2>2, <2>3, <2>5 DEF AbsInv
  <1>6. CASE KeepTimeLSR
    BY <1>2, <1>6 DEF KeepTimeLSR, Tick
  <1>7. CASE RunTimeoutLSR
    BY <1>2, <1>7 DEF RunTimeoutLSR, TimeoutLSR, TimeoutsOnly
  <1>8. CASE IdleRollover
    BY <1>2, <1>8 DEF IdleRollover, TimeoutsOnly
  <1>9. CASE PowerDown
    BY <1>2, <1>9 DEF PowerDown, SysPowerDown
  <1>10. CASE WaitCall
    BY <1>2, <1>10 DEF WaitCall, TimeoutCancel, TimeoutSet, TimeoutsOnly
  <1>11. CASE TimerCall
    BY <1>2, <1>11
       DEF TimerCall, TimerStop, TimerReset, TimerStart, TimerSetPulse, TimerDup, TimerSSR
  <1>12. CASE AbsCall
    <2>1. CASE StartAbs
      BY <1>3, <2>1 DEF StartAbs
    <2> QED BY <1>4, <1>5, <1>12, <2>1, Zenon DEF AbsCall
  <1> QED BY <1>6, <1>7, <1>8, <1>9, <1>10, <1>11, <1>12 DEF TimeNext

LEMMA TimeNextInv == TimeInv /\ [TimeNext]_timeVars => TimeInv'
  <1> SUFFICES ASSUME TimeInv, [TimeNext]_timeVars PROVE TimeInv'
    OBVIOUS
  <1>1. CASE TimeNext
    <2>1. Held /\ TimeoutInv' /\ AbsInv'
      BY <1>1, TimeSteps, TimeoutSteps, AbsSteps DEF Steps
    <2> QED BY <2>1 DEF TimeInv, Held
  <1>2. CASE UNCHANGED timeVars
    <2>1. tm' = tm /\ abs' = abs /\ etime' = etime /\ to' = to /\ pend' = pend
      BY <1>2 DEF timeVars
    <2>2. Left' = Left
      BY <2>1 DEF Left
    <2>3. Now' = Now
      BY <2>1, <2>2 DEF Now, View
    <2>4. TimeoutInv'
      BY <2>1 DEF TimeInv, TimeoutInv, TimeoutType, MinBelow, LsrInvoked, InReach
    <2>5. AbsInv'
      BY <2>1 DEF TimeInv, AbsInv
    <2> QED BY <2>1, <2>2, <2>3, <2>4, <2>5 DEF TimeInv
  <1> QED BY <1>1, <1>2

\* Between the steps the differences in the timer queue add up to the ticks that
\* each timer has left, at least one; no field of a timer is out of range; and
\* the invariant of the timeouts holds, tick recovery included.
THEOREM TimeInvariance == TimeSpec => []TimeInv
  <1>1. TimeInit => TimeInv
    BY TimeInitInv
  <1>2. TimeInv /\ [TimeNext]_timeVars => TimeInv'
    BY TimeNextInv
  <1> QED BY <1>1, <1>2, PTL DEF TimeSpec

-----------------------------------------------------------------------------
(* The theorems. *)

LEMMA TimeTypes == TimeInv => TimeTypeOK
  <1> SUFFICES ASSUME TimeInv PROVE TimeTypeOK
    OBVIOUS
  <1>1. TimeoutType
    BY DEF TimeInv, TimeoutInv
  <1>2. tm \in TimersType /\ Adds(tm.tq, tm.diffcnt, Left)
    BY DEF TimeInv, Timely, Sane, Queue
  <1>3. IsInjective(tm.tq)
    <2>1. tm.tq \in Seq(Timers) /\ Injective(tm.tq)
      BY <1>2 DEF Adds
    <2>2. DOMAIN tm.tq = 1..Len(tm.tq)
      BY <2>1
    <2> QED BY <2>1, <2>2 DEF IsInjective, Injective
  <1>4. abs \in {NoCall} \union [tmr : Timers, time : 0..(Word - 1), delay : 0..Unread]
    BY DEF TimeInv, AbsInv
  <1> QED BY <1>1, <1>2, <1>3, <1>4 DEF TimeTypeOK

\* The queue of timers holds each timer once at most and every field is a word,
\* whatever smx_NQTimer(), smx_DQTimer(), smx_TimerTimeout() and
\* smx_TickRecovery() subtract from one another.
THEOREM TimersTyped == TimeSpec => []TimeTypeOK
  <1>1. TimeInv => TimeTypeOK
    BY TimeTypes
  <1> QED BY <1>1, TimeInvariance, PTL

LEMMA ReachSteps ==
  ASSUME TimeInv, [TimeNext]_timeVars
  PROVE  [DelaysInReach /\ ~DelaysInReach' => StartAbs /\ abs.delay > abs.time]_timeVars
  <1>1. CASE TimeNext
    <2>1. (StartAbs /\ abs.delay > abs.time) \/ ReachKept
      BY <1>1, TimeSteps
    <2> QED BY <2>1 DEF ReachKept
  <1>2. CASE UNCHANGED timeVars
    BY <1>2
  <1> QED BY <1>1, <1>2

\* A timer is put off beyond the longest delay the application asks for only by
\* smx_TimerStartAbs(), when the time comes between its two reads of smx_etime.
THEOREM AbsOverrunsOnly == TimeSpec => OnlyStartAbsOverruns
  <1>1. TimeInv /\ [TimeNext]_timeVars
          => [DelaysInReach /\ ~DelaysInReach' => StartAbs /\ abs.delay > abs.time]_timeVars
    BY ReachSteps
  <1> QED BY <1>1, TimeInvariance, PTL DEF TimeSpec, OnlyStartAbsOverruns

LEMMA ShapeSteps ==
  ASSUME TimeInv, [TimeNext]_timeVars
  PROVE  [PulsesInShape /\ ~PulsesInShape' =>
            \E t \in Timers :
               \/ \E s \in Starts : TimerStart(t, s[1], s[2])
               \/ /\ tm.state[t] = "HI"
                  /\ TimerReset(t) \/ \E s \in Pulses : TimerSetPulse(t, s[1], s[2])]_timeVars
  <1>1. CASE TimeNext
    <2>1. ShiftsPulse \/ ShapeKept
      BY <1>1, TimeSteps
    <2>2. CASE ShiftsPulse
      BY <2>2 DEF ShiftsPulse
    <2>3. CASE ShapeKept
      BY <2>3 DEF ShapeKept
    <2> QED BY <2>1, <2>2, <2>3
  <1>2. CASE UNCHANGED timeVars
    BY <1>2
  <1> QED BY <1>1, <1>2

\* Pulses keep their shape, phase after phase, unless the timer is started again
\* or is reset or given another pulse in its HI phase.
THEOREM PulsesKeepShape == TimeSpec => OnlyRestartsShiftPulse
  <1>1. TimeInv /\ [TimeNext]_timeVars
          => [PulsesInShape /\ ~PulsesInShape' =>
                \E t \in Timers :
                   \/ \E s \in Starts : TimerStart(t, s[1], s[2])
                   \/ /\ tm.state[t] = "HI"
                      /\ TimerReset(t) \/ \E s \in Pulses : TimerSetPulse(t, s[1], s[2])]_timeVars
    BY ShapeSteps
  <1> QED BY <1>1, TimeInvariance, PTL DEF TimeSpec, OnlyRestartsShiftPulse

LEMMA InitAlone == TimeInit => Alone!Init
  <1> SUFFICES ASSUME TimeInit PROVE Alone!Init
    OBVIOUS
  <1>1. tm = NoTimers /\ etime = 0
    BY DEF TimeInit, TimeoutInit
  <1>2. Now = [t \in Timers |-> Alone!Stopped]
    BY <1>1, InitTimers
  <1> QED BY <1>1, <1>2, NowIs, Zenon DEF Alone!Init

LEMMA AloneSteps ==
  ASSUME TimeInv, [TimeNext]_timeVars
  PROVE  [Alone!Next]_(Alone!vars)
  <1>1. CASE TimeNext
    BY <1>1, TimeSteps DEF Steps
  <1>2. CASE UNCHANGED timeVars
    <2>1. tm' = tm /\ etime' = etime
      BY <1>2 DEF timeVars
    <2> QED BY <2>1 DEF Alone!vars, TimeLeft, IsRunning, Position, Sum
  <1> QED BY <1>1, <1>2

\* One queue of differences, changed by SSRs, by the tick and by the recovery of
\* lost ticks, lets every timer expire at the ticks at which it would on its own.
THEOREM TimersRunAlone == TimeSpec => TimersImplement
  <1>1. TimeInit => Alone!Init
    BY InitAlone
  <1>2. TimeInv /\ [TimeNext]_timeVars => [Alone!Next]_(Alone!vars)
    BY AloneSteps
  <1> QED BY <1>1, <1>2, TimeInvariance, PTL DEF TimeSpec, TimersImplement, Alone!Spec

LEMMA PromisesInTime ==
  ASSUME TimeInv, TimeInv', [TimeNext]_timeVars
  PROVE  [Promise!Next]_(Promise!vars)
  <1>1. CASE TimeNext
    <2>1. TimeoutInv'
      BY DEF TimeInv
    <2> QED BY <1>1, <2>1, PromiseSteps
  <1>2. CASE UNCHANGED timeVars
    <2>1. /\ \A t \in Tasks : Wait(t)' = Wait(t)
          /\ to'.ended = to.ended
      BY <1>2 DEF timeVars, Wait
    <2> QED BY <2>1, Zenon DEF Promise!vars
  <1> QED BY <1>1, <1>2

\* Timeouts are kept beside the timers and across the ticks that are lost while
\* the processor is powered down.
THEOREM TimeoutsKeptInTime == TimeSpec => TimeoutsImplement
  <1>1. TimeInit => Promise!Init
    BY InitPromise DEF TimeInit
  <1>2. TimeInv /\ TimeInv' /\ [TimeNext]_timeVars => [Promise!Next]_(Promise!vars)
    BY PromisesInTime
  <1> QED BY <1>1, <1>2, TimeInvariance, PTL DEF TimeSpec, TimeoutsImplement, Promise!Spec
=============================================================================
