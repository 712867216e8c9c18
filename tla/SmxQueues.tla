----------------------------- MODULE SmxQueues ------------------------------
(***************************************************************************)
(* The queues of smx and the routines that move tasks between them         *)
(* (src/XSMX/xsmx.c), as operators on the kernel's data.                   *)
(*                                                                         *)
(* The kernel's data is a record k, because an SSR calls several of these  *)
(* routines in turn and each must see what the previous one did:           *)
(*                                                                         *)
(*   q        the queues: one per level of the ready queue, 0..MaxPri, and *)
(*            one per semaphore and mutex, each a sequence of tasks        *)
(*   rqtop    smx_rqtop: the level believed to be the highest non-empty    *)
(*   state    task->state                                                  *)
(*   pri, prinorm, pritmo   the task's priorities                          *)
(*   sp       task->sp # NULL: there is a saved context to resume          *)
(*   timeout  smx_timeout[]: "INF" or "SET" (when it expires is left open) *)
(*   rv       task->rv as a Boolean                                        *)
(*   sched    smx_sched                                                    *)
(*   lockctr  smx_lockctr                                                  *)
(*   onr      mutex->onr                                                   *)
(*   begun    the tasks that were started and have not been told to stop   *)
(*            or restart since (a history variable)                        *)
(***************************************************************************)
EXTENDS Integers, SmxSequences, FiniteSetsExt

CONSTANTS Tasks,      \* all tasks, the idle task included
          Idle,       \* smx_Idle
          NoTask,     \* a null task handle
          MaxPri,     \* SMX_PRI_NUM - 1
          Sems,       \* semaphores
          FifoSems,   \* those with a FIFO queue: gate semaphores
          Mutexes,    \* mutexes
          Inherit,    \* the mutexes created with pi = 1
          Ceil        \* the ceiling of each mutex, 0 for none

Levels == 0..MaxPri
Objs   == Sems \union Mutexes

ASSUME QueuesAssumption == /\ Idle \in Tasks
                           /\ NoTask \notin Tasks
                           /\ MaxPri \in Nat \ {0}
                           /\ Levels \intersect Objs = {}
                           /\ Sems \intersect Mutexes = {}
                           /\ FifoSems \subseteq Sems
                           /\ Inherit \subseteq Mutexes
                           /\ Ceil \in [Mutexes -> Levels]

\* Chains of owners are no longer than there are mutexes.
ASSUME MutexesFinite == IsFiniteSet(Mutexes)

\* smx_DO_CTTEST(): ask for a preemption test unless the scheduler is locked
\* or already has something to do.
DoCtTest(k) ==
    IF k.lockctr = 0 /\ k.sched = "NOP" THEN [k EXCEPT !.sched = "CTTEST"] ELSE k

-----------------------------------------------------------------------------
(* Where tasks are. *)

\* The queues that hold task t: task->fl # NULL iff there is one.
QueuesOf(k, t) == {x \in DOMAIN k.q : Contains(k.q[x], t)}

Queued(k, t) == QueuesOf(k, t) # {}

InRq(k, t) == QueuesOf(k, t) \intersect Levels # {}

\* flags.in_prq
InPrq(k, t) == QueuesOf(k, t) \intersect (Objs \ FifoSems) # {}

\* The task at the head of the level smx_rqtop points to.
Top(k) == Head(k.q[k.rqtop])

\* smx_rqtop-- while its level is empty.
Lower(k) ==
    [k EXCEPT !.rqtop = Max({p \in 0..k.rqtop : k.q[p] # <<>>} \union {0})]

\* Unlink t from whatever queue it is in.
Unlink(k, t) == [k EXCEPT !.q = [x \in DOMAIN @ |-> Without(@[x], t)]]

-----------------------------------------------------------------------------
(* Dequeueing and enqueueing. *)

\* Mutant: smx_rqtop is left at a level that has become empty.
DQRQTask_StaleTop(k, t) == [Unlink(k, t) EXCEPT !.state[t] = "WAIT"]

\* smx_DQRQTask(t); smx_rqtop moves when t was alone at the top level.
DQRQTask(k, t) ==
    LET k1 == [Unlink(k, t) EXCEPT !.state[t] = "WAIT"]
    IN  IF k.q[k.rqtop] = <<t>> THEN Lower(k1) ELSE k1

\* smx_DQFTask(q) takes the first task off the queue of object o.
DQFTask(k, o) == [k EXCEPT !.q[o] = Tail(@)]

\* smx_NQRQTask(t): last of its level; smx_rqtop is raised if need be.
NQRQTask(k, t) ==
    [k EXCEPT !.q[k.pri[t]] = Append(@, t),
              !.rqtop       = IF k.pri[t] > @ THEN k.pri[t] ELSE @,
              !.state[t]    = "READY"]

\* smx_NQTask(q, t), a FIFO queue.
NQTask(k, o, t) == [k EXCEPT !.q[o] = Append(@, t)]

\* The queue s with t inserted ahead of the first task of lower priority.
ByPriority(k, s, t) ==
    InsertAt(s, Min({i \in DOMAIN s : k.pri[s[i]] < k.pri[t]} \union {Len(s) + 1}), t)

\* Mutant: a waiting task stays where it is when its priority changes.
Requeue_NoMove(k, t) ==
    IF k.state[t] \in {"RUN", "READY"} THEN DoCtTest(NQRQTask(DQRQTask(k, t), t)) ELSE k

(***************************************************************************)
(* The part of smx_ReQTask(t) that does not concern mutex owners: a ready  *)
(* task goes to the end of its level and a preemption test is asked for; a *)
(* task in a priority queue is moved up past tasks of lower priority, or   *)
(* else down past those of the same or a higher one.  The other waiters    *)
(* are sorted, so both searches end where smx_PNQTask() would insert it.   *)
(***************************************************************************)
Requeue(k, t) ==
    IF k.state[t] \in {"RUN", "READY"} THEN DoCtTest(NQRQTask(DQRQTask(k, t), t))
    ELSE IF InPrq(k, t)
         THEN LET x == CHOOSE x \in QueuesOf(k, t) : TRUE
              IN  [k EXCEPT !.q[x] = ByPriority(k, Without(@, t), t)]
         ELSE k

-----------------------------------------------------------------------------
(* Priority inheritance: a change is handed on from owner to owner. *)

\* onr->pri as smx_MutexOnrPriAdj() sets it from the first waiter of m.
OnrPri(k, m) ==
    LET o  == k.onr[m]
        tt == k.pri[Head(k.q[m])]
    IN  IF tt < k.pri[o] THEN Max({tt, Ceil[m], k.prinorm[o]}) ELSE tt

\* The mutex the owner of m waits for, as a set.
Beyond(k, m) == QueuesOf(k, k.onr[m]) \intersect Mutexes

\* Mutant: the change stops at the first owner.
OnrPriAdj_NoChain(k, m) ==
    LET o == k.onr[m]
    IN  IF m \in Inherit THEN Requeue([k EXCEPT !.pri[o] = OnrPri(k, m)], o) ELSE k

\* smx_MutexOnrPriAdj() of one mutex, c.next, and the part of smx_ReQTask() that
\* concerns its owner: the data, and the next mutex of the chain, as a set.
AdjustOnr(c) ==
    LET m == CHOOSE m \in c.next : TRUE
        o == c.data.onr[m]
    IN  IF c.next = {} THEN c
        ELSE [ data |-> Requeue([c.data EXCEPT !.pri[o] = OnrPri(c.data, m)], o),
               next |-> Beyond(c.data, m) \intersect Inherit ]

(***************************************************************************)
(* smx_MutexOnrPriAdj(m) and smx_ReQTask(onr) call each other along the    *)
(* chain of owners; the chain ends at a mutex without inheritance or at an *)
(* owner that waits for no mutex.  Tasks lock mutexes in an order          *)
(* (SmxMutex), so the chain has no more links than there are mutexes.      *)
(***************************************************************************)
OnrPriAdj(k, m) ==
    LET chain[n \in 0..Cardinality(Mutexes)] ==
            IF n = 0 THEN [data |-> k, next |-> {m} \intersect Inherit]
            ELSE AdjustOnr(chain[n - 1])
    IN  chain[Cardinality(Mutexes)].data

\* smx_ReQTask(t)
ReQTask(k, t) ==
    LET k1 == Requeue(k, t)
        ms == QueuesOf(k, t) \intersect Mutexes
    IN  IF ms = {} THEN k1 ELSE OnrPriAdj(k1, CHOOSE m \in ms : TRUE)

\* smx_PNQTask(q, t, cb)
PNQTask(k, o, t) ==
    LET k1 == [k EXCEPT !.q[o] = ByPriority(k, @, t)]
    IN  IF o \in Mutexes THEN OnrPriAdj(k1, o) ELSE k1

\* Mutant: the next waiter is forgotten.
DemoteOwner_NoNext(k, m) ==
    LET o  == k.onr[m]
        k1 == [k EXCEPT !.pri[o] = Max({Ceil[m], k.prinorm[o]})]
    IN  IF Queued(k, o) /\ k1.pri[o] # k.pri[o] THEN ReQTask(k1, o) ELSE k1

\* smx_DQTask() when it has taken the first task out of the queue of mutex m:
\* the owner keeps the greatest of the next waiter's priority, the ceiling and
\* its own normal priority.
DemoteOwner(k, m) ==
    LET o    == k.onr[m]
        next == IF m \in Inherit /\ k.q[m] # <<>> THEN {k.pri[Head(k.q[m])]} ELSE {}
        k1   == [k EXCEPT !.pri[o] = Max(next \union {Ceil[m], k.prinorm[o]})]
    IN  IF Queued(k, o) /\ k1.pri[o] # k.pri[o] THEN ReQTask(k1, o) ELSE k1

\* The mutex that t is the first to wait for, as a set: the back link of t is
\* the mutex, and not another task.
FirstAt(k, t) == {m \in QueuesOf(k, t) \intersect Mutexes : Head(k.q[m]) = t}

\* smx_DQTask(t): from any queue.  Only the first task that waits for a mutex
\* may have promoted its owner.
DQTask(k, t) ==
    LET k1 == DQRQTask(k, t)
        ms == FirstAt(k, t)
    IN  IF ms = {} THEN k1 ELSE DemoteOwner(k1, CHOOSE m \in ms : TRUE)

-----------------------------------------------------------------------------
(* Timeouts. *)

\* Timeouts of a call: SMX_TMO_NOWAIT, or a wait that may be timed out.  A
\* wait with SMX_TMO_INF behaves as one whose timeout is never reached.
Timeouts == {"NOWAIT", "SET"}

\* smx_TimeoutSet(t, timeout)
TimeoutSet(k, t, tmo) == [k EXCEPT !.timeout[t] = tmo]

\* smx_timeout[t] = SMX_TMO_INF, which ends every wait.
NoTimeout(k, t) == [k EXCEPT !.timeout[t] = "INF"]

-----------------------------------------------------------------------------

KernelType == [ q        : [Levels \union Objs -> Seq(Tasks)],
                rqtop    : Levels,
                state    : [Tasks -> {"RUN", "READY", "WAIT"}],
                pri      : [Tasks -> Levels],
                prinorm  : [Tasks -> Levels],
                pritmo   : [Tasks -> Levels],
                sp       : [Tasks -> BOOLEAN],
                timeout  : [Tasks -> {"INF", "SET"}],
                rv       : [Tasks -> BOOLEAN],
                sched    : {"NOP", "CTTEST", "SUSP", "STOP"},
                lockctr  : Nat,
                onr      : [Mutexes -> Tasks \union {NoTask}],
                begun    : SUBSET Tasks ]
=============================================================================
