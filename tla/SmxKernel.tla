----------------------------- MODULE SmxKernel ------------------------------
(***************************************************************************)
(* The task scheduler of smx and the task SSRs (system service routines):  *)
(* smx_SchedRunTasks() in src/XSMX/xsched.c, smx_PendSV_Handler() in       *)
(* src/XSMX/xarmm_iar.s, src/XSMX/xtask.c and the timeouts of xtime.c.     *)
(*                                                                         *)
(* SSRs are called by the current task and by LSRs.  LSRs run inside       *)
(* PSVH(), before it decides what to do about the current task and again   *)
(* in the flyback after smx_SchedRunTasks() has switched to a new one.     *)
(* What LSRs do there is what is hard to test: they stop, suspend, resume  *)
(* and restart a task that is halfway through being switched.              *)
(*                                                                         *)
(* An SSR is one action (an LSR cannot run inside it).  How ISRs queue     *)
(* LSRs is modelled in SmxLsr; here any number of LSRs may be waiting      *)
(* whenever PSVH() looks.  Left out: task creation and deletion, runtime   *)
(* limits, the pool of shared stacks (a stack is always available), safe   *)
(* LSRs and user mode.                                                     *)
(***************************************************************************)
EXTENDS SmxQueues

CONSTANTS StartLocked,   \* tasks created with SMX_FL_LOCK
          InitPri,       \* each task's priority when it is created
          InitPriTmo,    \* its pritmo: smx_TaskSet(t, SMX_ST_PRITMO, p)
          LockLimit      \* SMX_LOCK_NEST_LIMIT

ASSUME KernelAssumption == /\ StartLocked \subseteq Tasks \ {Idle}
                           /\ InitPri \in [Tasks -> Levels]
                           /\ InitPriTmo \in [Tasks -> Levels]
                           /\ LockLimit \in Nat \ {0}

VARIABLES k,     \* the kernel's data, see SmxQueues
          ct,    \* smx_ct
          pc     \* "run": ct runs; "psv": PSVH() runs LSRs before it decides;
                 \* "fly": LSR flyback in smx_SchedRunTasks(); "tail": its tail

kernelVars == <<k, ct, pc>>

TypeOK == /\ k \in KernelType
          /\ k.lockctr <= LockLimit
          /\ ct \in Tasks
          /\ pc \in {"run", "psv", "fly", "tail"}

\* The idle task runs; the others have been created and not started.
Init == /\ k = [ q |-> [x \in Levels \union Objs |->
                          IF x = InitPri[Idle] THEN <<Idle>> ELSE <<>>],
                 rqtop    |-> InitPri[Idle],
                 state    |-> [t \in Tasks |-> IF t = Idle THEN "RUN" ELSE "WAIT"],
                 pri      |-> InitPri,
                 prinorm  |-> InitPri,
                 pritmo   |-> InitPriTmo,
                 sp       |-> [t \in Tasks |-> t = Idle],
                 timeout  |-> [t \in Tasks |-> "INF"],
                 rv       |-> [t \in Tasks |-> FALSE],
                 sched    |-> "NOP",
                 lockctr  |-> 0,
                 onr      |-> [m \in Mutexes |-> NoTask],
                 begun    |-> {Idle} ]
        /\ ct = Idle
        /\ pc = "run"

-----------------------------------------------------------------------------
(* Entering and leaving an SSR. *)

Callers == {"task", "lsr"}

\* The idle task never waits and is not the object of a task SSR.
Targets == Tasks \ {Idle}

MayCall(c) == IF c = "task" THEN pc = "run" ELSE pc \in {"psv", "fly"}

CallerMayWait == pc = "run" /\ ct # Idle

(***************************************************************************)
(* smx_SSRExit(): an LSR goes on; a task goes on if there is nothing to    *)
(* schedule and no LSR waits, and enters PSVH() otherwise.  An ISR may     *)
(* have invoked an LSR during any SSR.  The return value, which is then    *)
(* left in ct->rv, is modelled where a task may wait for it (SmxSem).      *)
(***************************************************************************)
Leave(c, k1) ==
    /\ k' = k1
    /\ UNCHANGED ct
    /\ \/ c = "lsr" /\ UNCHANGED pc
       \/ c = "task" /\ k1.sched = "NOP" /\ UNCHANGED pc
       \/ c = "task" /\ pc' = "psv"

-----------------------------------------------------------------------------
(* The task SSRs. *)

\* Mutant: t is not taken out of its queue.
Detach_NoDequeue(t) == [k EXCEPT !.rv[t] = FALSE]

\* Take t out of its queue, if any, and clear its return value.
Detach(t) == IF Queued(k, t) THEN [DQTask(k, t) EXCEPT !.rv[t] = FALSE] ELSE k

\* What stops a task: the current one through the scheduler, another one by
\* dropping its context.
Stop(k1, t) ==
    LET k2 == [k1 EXCEPT !.begun = @ \ {t}]
    IN  IF t = ct THEN [k2 EXCEPT !.sched = "STOP"] ELSE [k2 EXCEPT !.sp[t] = FALSE]

NoChange == MaxPri + 1      \* SMX_PRI_NOCHG

\* smx_TaskBump(t, p); smx_TaskYield() is the current task's, with NoChange.
TaskBump(c, t, p) ==
    /\ MayCall(c)
    /\ LET owns  == \E m \in Mutexes : k.onr[m] = t
           k1 == IF p = NoChange THEN k
                 ELSE [k EXCEPT !.prinorm[t] = p,
                                !.pri[t] = IF p > @ \/ ~owns THEN p ELSE @]
       IN  Leave(c, IF Queued(k, t) THEN ReQTask(k1, t) ELSE k1)

\* smx_TaskLock(), a function and not an SSR.
TaskLock == /\ pc = "run"
            /\ k.lockctr < LockLimit
            /\ k' = [k EXCEPT !.lockctr = @ + 1]
            /\ UNCHANGED <<ct, pc>>

\* Mutant: the lock is cleared without a preemption test.
TaskLockClear_NoTest == /\ MayCall("task")
                        /\ Leave("task", [k EXCEPT !.lockctr = 0])

\* smx_TaskLockClear(), also the last smx_TaskUnlock().
TaskLockClear ==
    /\ MayCall("task")
    /\ LET k1 == DoCtTest([k EXCEPT !.lockctr = 0])
       IN  Leave("task", IF k.lockctr > 0 THEN k1 ELSE k)

\* smx_TaskUnlock()
TaskUnlock ==
    \/ /\ pc = "run"
       /\ k.lockctr > 1
       /\ k' = [k EXCEPT !.lockctr = @ - 1]
       /\ UNCHANGED <<ct, pc>>
    \/ k.lockctr = 1 /\ TaskLockClear

\* smx_TaskUnlockQuick() never tests for preemption.
TaskUnlockQuick == /\ pc = "run"
                   /\ k.lockctr >= 1
                   /\ k' = [k EXCEPT !.lockctr = @ - 1]
                   /\ UNCHANGED <<ct, pc>>

\* What smx_TaskResume(t) does; smx_TaskTimeout() calls it too.
Resume(k1, t) == DoCtTest(NoTimeout(NQRQTask(k1, t), t))

TaskResume(c, t) == /\ MayCall(c)
                    /\ Leave(c, Resume(Detach(t), t))

\* smx_TaskSleep() and smx_TaskSleepStop(): a time that has passed is an
\* error, reported after smx_sched was set.
Sleep(sched) ==
    /\ CallerMayWait
    /\ LET k1 == [k EXCEPT !.sched = sched,
                           !.begun = IF sched = "STOP" THEN @ \ {ct} ELSE @]
       IN  \/ Leave("task", TimeoutSet(DQRQTask(k1, ct), ct, "SET"))
           \/ Leave("task", k1)

TaskSleep     == Sleep("SUSP")
TaskSleepStop == Sleep("STOP")

\* Mutant: the timeout of the wait that is broken off stays active.
Start_KeepTimeout(c, t, p) ==
    /\ MayCall(c)
    /\ LET k1 == Stop(IF Queued(k, t) THEN DQTask(k, t) ELSE k, t)
           k2 == [(IF t = ct THEN k1 ELSE DoCtTest(k1)) EXCEPT
                    !.pri[t] = p, !.prinorm[t] = p, !.pritmo[t] = p, !.rv[t] = FALSE]
       IN  Leave(c, NQRQTask(k2, t))

\* smx_TaskStart_F(); the parameter of the task, its rv, is left out (FALSE).
Start(c, t, p) ==
    /\ MayCall(c)
    /\ LET k1 == Stop(IF Queued(k, t) THEN DQTask(k, t) ELSE k, t)
           k2 == [(IF t = ct THEN k1 ELSE DoCtTest(k1)) EXCEPT
                    !.pri[t] = p, !.prinorm[t] = p, !.pritmo[t] = p,
                    !.rv[t] = IF t = ct THEN @ ELSE FALSE]
       IN  Leave(c, NoTimeout(NQRQTask(k2, t), t))

TaskStart(c, t)       == Start(c, t, k.pri[t])
TaskStartNew(c, t, p) == Start(c, t, p)

\* smx_TaskStop(t, timeout): without a timeout t is made ready at once.
TaskStop(c, t, tmo) ==
    /\ MayCall(c)
    /\ LET k1 == Stop(Detach(t), t)
           k2 == NQRQTask(NoTimeout(k1, t), t)
       IN  Leave(c, IF tmo # "NOWAIT" THEN TimeoutSet(k1, t, tmo)
                    ELSE IF t = ct THEN k2 ELSE DoCtTest(k2))

\* smx_TaskSuspend(t, timeout): sets smx_sched even if ct was being stopped.
TaskSuspend(c, t, tmo) ==
    /\ MayCall(c)
    /\ LET k1 == IF t = ct THEN [Detach(t) EXCEPT !.sched = "SUSP"] ELSE Detach(t)
       IN  Leave(c, IF tmo # "NOWAIT" THEN TimeoutSet(k1, t, tmo) ELSE Resume(k1, t))

-----------------------------------------------------------------------------
(* smx_TimeoutLSR: the timeout of t expires. *)

TaskTimeout(t) ==
    /\ MayCall("lsr")
    /\ k.timeout[t] = "SET"
    /\ LET k1 == IF k.pritmo[t] > k.pri[t]
                   THEN [k EXCEPT !.pri[t] = k.pritmo[t], !.prinorm[t] = k.pritmo[t]]
                   ELSE k
           k2 == IF Queued(k, t) THEN [DQTask(k1, t) EXCEPT !.rv[t] = FALSE] ELSE k1
       IN  Leave("lsr", Resume(k2, t))

-----------------------------------------------------------------------------
(* smx_PendSV_Handler() and smx_SchedRunTasks(). *)

\* An ISR that interrupts the current task has invoked an LSR.
Interrupt == /\ pc = "run"
             /\ pc' = "psv"
             /\ UNCHANGED <<k, ct>>

\* The end of the suspend or stop leg, smx_sched being acted upon, and the
\* switch to the top task: get_top_task and the resume and start legs up to
\* their LSR flyback.
SwitchTo(k1, n) ==
    /\ ct' = n
    /\ pc' = "fly"
    /\ k' = [k1 EXCEPT !.sched    = "NOP",
                       !.state[n] = "RUN",
                       !.lockctr  = IF ~k1.sp[n] /\ n \in StartLocked THEN 1 ELSE 0]

\* ct stops: its context is dropped.
StopLeg(k1) == [k1 EXCEPT !.sp[ct] = FALSE]

\* ct is suspended: it is ready if it was only tested.
SuspendLeg(k1) == IF k1.sched = "CTTEST" THEN [k1 EXCEPT !.state[ct] = "READY"] ELSE k1

Leg(k1) == IF k1.sched = "STOP" THEN StopLeg(k1) ELSE SuspendLeg(k1)

\* psv7: smx_sched is STOP.
PsvStop == /\ pc = "psv"
           /\ k.sched = "STOP"
           /\ SwitchTo(StopLeg(k), Top(k))

\* psv13: nothing to do, or ct is still the top task.
PsvContinue == /\ pc = "psv"
               /\ k.sched # "STOP"
               /\ k.sched = "NOP" \/ Top(k) = ct
               /\ k' = [k EXCEPT !.sched = "NOP"]
               /\ pc' = "tail"
               /\ UNCHANGED ct

\* Mutant: the context of the task that is suspended is not saved.
PsvSuspend_NoSave == /\ pc = "psv"
                     /\ k.sched \in {"CTTEST", "SUSP"}
                     /\ Top(k) # ct
                     /\ SwitchTo(SuspendLeg(k), Top(k))

\* psv6: ct is no longer the top task; its context is saved.
PsvSuspend == /\ pc = "psv"
              /\ k.sched \in {"CTTEST", "SUSP"}
              /\ Top(k) # ct
              /\ SwitchTo(SuspendLeg([k EXCEPT !.sp[ct] = TRUE]), Top(k))

\* The LSRs of the flyback, if any, left ct at the top: smx_sched is cleared
\* in case they set it.  A task in its start leg begins now.
FlyTop == /\ pc = "fly"
          /\ Top(k) = ct
          /\ k' = [k EXCEPT !.sched = "NOP",
                            !.begun = IF k.sp[ct] THEN @ ELSE @ \union {ct}]
          /\ pc' = "tail"
          /\ UNCHANGED ct

\* Resume flyback: ct is not the top task any more.
FlyResume == /\ pc = "fly"
             /\ Top(k) # ct
             /\ k.sp[ct]
             /\ SwitchTo(Leg(k), Top(k))

\* Start flyback: the start of ct is undone.
FlyStart == /\ pc = "fly"
            /\ Top(k) # ct
            /\ ~k.sp[ct]
            /\ SwitchTo(StopLeg(k), Top(k))

\* The tail: LSR flyback to the top of PSVH().
TailFlyback == /\ pc = "tail"
               /\ pc' = "psv"
               /\ UNCHANGED <<k, ct>>

\* The tail: return to ct, which starts or leaves its SSR with ct->rv.  It is
\* not read again and set to FALSE here, so that states differ less.
TailReturn == /\ pc = "tail"
              /\ pc' = "run"
              /\ k' = [k EXCEPT !.rv[ct] = FALSE]
              /\ UNCHANGED ct

-----------------------------------------------------------------------------

Scheduler == \/ Interrupt \/ PsvStop \/ PsvContinue \/ PsvSuspend
             \/ FlyTop \/ FlyResume \/ FlyStart
             \/ TailFlyback \/ TailReturn

\* The SSRs that move another task, or the caller, about.
TaskSSR == \E c \in Callers, t \in Targets :
             \/ TaskResume(c, t) \/ TaskStart(c, t)
             \/ \E tmo \in Timeouts : TaskStop(c, t, tmo) \/ TaskSuspend(c, t, tmo)

PrioritySSR == \E c \in Callers, t \in Targets :
                 \/ \E p \in Levels \union {NoChange} : TaskBump(c, t, p)
                 \/ \E p \in Levels : TaskStartNew(c, t, p)

LockSSR == TaskLock \/ TaskUnlock \/ TaskUnlockQuick

SleepSSR == TaskSleep \/ TaskSleepStop

Timeout == \E t \in Targets : TaskTimeout(t)

Next == \/ Scheduler \/ Timeout \/ TaskSSR \/ PrioritySSR \/ LockSSR \/ SleepSSR

Spec == Init /\ [][Next]_kernelVars

-----------------------------------------------------------------------------
(* Properties. *)

\* smx_rqtop is the highest level that holds a task.
RqTopCorrect == k.rqtop = Max({p \in Levels : k.q[p] # <<>>} \union {0})

\* No stale timeout: a task that is ready or running has none active.
NoStaleTimeout == \A t \in Tasks : InRq(k, t) => k.timeout[t] = "INF"

(***************************************************************************)
(* Every task is in at most one queue, once; it is ready or running iff it *)
(* is in the ready queue, at the level of its priority; the idle task is   *)
(* always there, so that there is a task to run; smx_rqtop is right, for   *)
(* the scheduler takes the first task of that level without looking        *)
(* anywhere else; and no task that is ready keeps a timeout, for it would  *)
(* break off the task's next wait.                                         *)
(***************************************************************************)
QueuesConsistent ==
    /\ \A x, y \in DOMAIN k.q : \A i \in DOMAIN k.q[x], j \in DOMAIN k.q[y] :
         k.q[x][i] = k.q[y][j] => x = y /\ i = j
    /\ \A t \in Tasks :
         /\ k.state[t] # "WAIT" <=> InRq(k, t)
         /\ InRq(k, t) => Contains(k.q[k.pri[t]], t)
    /\ InRq(k, Idle)
    /\ RqTopCorrect
    /\ NoStaleTimeout

(***************************************************************************)
(* The current task is the first of the highest level, or PSVH() has been  *)
(* told to find out (smx_sched), or the scheduler is locked.               *)
(***************************************************************************)
TopKnown == k.lockctr = 0 /\ k.sched = "NOP" => ct = Top(k)

(***************************************************************************)
(* Only smx_TaskUnlockQuick() leaves a task running that is not the top    *)
(* task: every other step that makes another task the top one, or unlocks  *)
(* the scheduler, sees to it that PSVH() decides again.                    *)
(***************************************************************************)
OnlyUnlockQuickMissesPreemption ==
    [][TopKnown /\ ~TopKnown' => TaskUnlockQuick]_kernelVars

(***************************************************************************)
(* A task that was started and not told to stop since keeps its context    *)
(* while another task runs: whatever LSRs do to it in PSVH() and in the    *)
(* flybacks, it is resumed where it was and not started anew.              *)
(***************************************************************************)
ContextKept == \A t \in k.begun \ {ct} : k.sp[t]

(***************************************************************************)
(* A task that is told to stop or to restart runs again only from its      *)
(* beginning, even if it is the current task (xtask.c:1254-1256: "If task  *)
(* is smx_ct, sets sched = SMX_CT_STOP so the scheduler will stop task").  *)
(***************************************************************************)
StopHonoured == pc = "run" => ct \in k.begun

\* Stops and starts only, of the current task and of others.
RestartNext ==
    \/ Scheduler \/ Timeout
    \/ \E c \in Callers, t \in Targets :
         TaskStart(c, t) \/ \E tmo \in Timeouts : TaskStop(c, t, tmo)

RestartSpec == Init /\ [][RestartNext]_kernelVars
=============================================================================
