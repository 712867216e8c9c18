------------------------------ MODULE SmxMutex ------------------------------
(***************************************************************************)
(* Mutexes (src/XSMX/xmtx.c) on top of the scheduler of SmxKernel, with    *)
(* priority inheritance and priority ceilings.                             *)
(*                                                                         *)
(* A task that owns a mutex is given the priority of the first task that   *)
(* waits for it (mutexes with pi) and at least the mutex's ceiling; what   *)
(* changes its priority changes that of the owner it waits for in turn.    *)
(* smx has no record of what promoted a task: each routine recomputes the  *)
(* priority from what it has at hand, smx_TaskPriAdj() from all mutexes    *)
(* the task owns, smx_DQTask() and smx_MutexOnrPriAdj() from one.          *)
(*                                                                         *)
(* Tasks lock mutexes in the order of their rank (smx does not detect      *)
(* deadlocks: a circular wait makes smx_ReQTask() recur for ever) and the  *)
(* idle task locks none.  Left out: smx_MutexGetFast() and                 *)
(* smx_MutexRelFast(), which the heap uses (see SmxLsr), and restarts of   *)
(* owners with another priority.                                           *)
(***************************************************************************)
EXTENDS SmxKernel

CONSTANTS Rank,      \* the order in which tasks lock mutexes
          MaxNest,   \* bound on the nesting count of each mutex
          Bumps      \* bound: the calls of smx_TaskBump(), pairs of a task and a priority

ASSUME MutexAssumption == /\ Rank \in [Mutexes -> Nat]
                          /\ \A m, n \in Mutexes : m # n => Rank[m] # Rank[n]
                          /\ MaxNest \in [Mutexes -> Nat \ {0}]
                          /\ Bumps \subseteq Targets \X Levels

VARIABLES ncnt,    \* mutex->ncnt; mutex->onr is k.onr
          mol,     \* each task's mutex-owned list, last locked first
          nested   \* the tasks that have owned two mutexes at once, until
                   \* they own none (a history variable)

mutexVars == <<k, ct, pc, ncnt, mol, nested>>

Owned(t) == Range(mol[t])

MutexTypeOK == /\ TypeOK
               /\ \A m \in Mutexes : ncnt[m] \in 0..MaxNest[m]
               /\ mol \in [Tasks -> Seq(Mutexes)]
               /\ nested \subseteq Tasks

\* smx_MutexCreate()
MutexInit == /\ Init
             /\ ncnt = [m \in Mutexes |-> 0]
             /\ mol = [t \in Tasks |-> <<>>]
             /\ nested = {}

-----------------------------------------------------------------------------
(* What the operations have in common. *)

\* smx_TaskPriAdj(t), which owns the mutexes ms.
TaskPriAdj(k1, t, ms) ==
    LET np == Max({k1.prinorm[t]} \union {Ceil[m] : m \in ms} \union
                  {k1.pri[Head(k1.q[m])] : m \in {x \in ms \intersect Inherit : k1.q[x] # <<>>}})
        k2 == [k1 EXCEPT !.pri[t] = np]
    IN  IF k1.pri[t] # np /\ Queued(k1, t) THEN ReQTask(k2, t) ELSE k2

\* The owner of m loses it: smx_MutexRemFromMOL() and the owner's demotion.
Disown(m) ==
    LET t == k.onr[m]
    IN  IF k.pri[t] = k.prinorm[t] THEN k ELSE TaskPriAdj(k, t, Owned(t) \ {m})

\* The first waiting task becomes the owner of m, and ready.
HandOver(k1, m) ==
    LET t  == Head(k1.q[m])
        k2 == [DQFTask(k1, m) EXCEPT !.onr[m] = t, !.pri[t] = Max({@, Ceil[m]})]
    IN  [NoTimeout(DoCtTest(NQRQTask(k2, t)), t) EXCEPT !.rv[t] = TRUE]

\* The mutex-owned lists when m passes from one task to another, or to NoTask.
Pass(m, t) == [u \in Tasks |-> (IF u = t THEN <<m>> ELSE <<>>) \o Without(mol[u], m)]

UpdateMol(mol1) ==
    /\ mol' = mol1
    /\ nested' = {t \in Tasks : Len(mol1[t]) > 1 \/ (t \in nested /\ mol1[t] # <<>>)}

-----------------------------------------------------------------------------
(* smx_MutexGet(m, timeout) and smx_MutexGetStop(m, timeout). *)

InOrder(m) == m \in Owned(ct) \/ \A x \in Owned(ct) : Rank[x] < Rank[m]

\* ct is promoted to the ceiling of m, in the ready queue too.
Promote(k1, m) ==
    IF k1.pri[ct] >= Ceil[m] THEN k1
    ELSE [Unlink(k1, ct) EXCEPT !.pri[ct]     = Ceil[m],
                                !.q[Ceil[m]]  = Append(@, ct),
                                !.rqtop       = Max({@, Ceil[m]})]

\* ct waits for m.  Its owner is promoted by smx_PNQTask(); the promotion that
\* follows it finds nothing left to do.
Wait(k1, m, tmo) ==
    LET k2 == PNQTask(DQRQTask(k1, ct), m, ct)
        o  == k1.onr[m]
        k3 == IF m \in Inherit /\ k2.pri[ct] > k2.pri[o]
                THEN ReQTask([k2 EXCEPT !.pri[o] = k2.pri[ct]], o) ELSE k2
    IN  [TimeoutSet(k3, ct, tmo) EXCEPT !.sched = "SUSP"]

\* smx_MutexGetStop() stops its caller, whether it was given the mutex or not.
Stopping(k1, stop) == IF stop THEN [k1 EXCEPT !.sched = "STOP", !.begun = @ \ {ct}] ELSE k1

\* smx_MutexGet_F(m, timeout) and the end of its caller.
MutexGet_F(k1, m, tmo, stop) ==
    /\ CallerMayWait
    /\ InOrder(m)
    /\ \/ /\ k.onr[m] = NoTask
          /\ Leave("task", Stopping(Promote([k1 EXCEPT !.onr[m] = ct], m), stop))
          /\ ncnt' = [ncnt EXCEPT ![m] = 1]
          /\ UpdateMol(Pass(m, ct))
       \/ /\ k.onr[m] = ct
          /\ ncnt[m] < MaxNest[m]
          /\ Leave("task", Stopping(k1, stop))
          /\ ncnt' = [ncnt EXCEPT ![m] = @ + 1]
          /\ UNCHANGED <<mol, nested>>
       \/ /\ k.onr[m] \notin {NoTask, ct}
          /\ Leave("task", Stopping(IF tmo = "NOWAIT" THEN k1 ELSE Wait(k1, m, tmo), stop))
          /\ UNCHANGED <<ncnt, mol, nested>>

MutexGet(m, tmo) ==
    MutexGet_F(IF tmo = "NOWAIT" THEN k ELSE [k EXCEPT !.lockctr = 0], m, tmo, FALSE)

MutexGetStop(m, tmo) == MutexGet_F(k, m, tmo, TRUE)

-----------------------------------------------------------------------------
(* Giving a mutex up. *)

\* Mutant: the next owner inherits the nesting count.
GiveUp_KeepNest(c, m) ==
    LET k1   == Disown(m)
        some == k1.q[m] # <<>>
    IN  /\ Leave(c, IF some THEN HandOver(k1, m) ELSE [k1 EXCEPT !.onr[m] = NoTask])
        /\ ncnt' = [ncnt EXCEPT ![m] = IF some THEN @ + 1 ELSE 0]
        /\ UpdateMol(Pass(m, IF some THEN Head(k1.q[m]) ELSE NoTask))

\* Mutant: the owner keeps the priority the mutex gave it.
GiveUp_NoDemotion(c, m) ==
    LET some == k.q[m] # <<>>
    IN  /\ Leave(c, IF some THEN HandOver(k, m) ELSE [k EXCEPT !.onr[m] = NoTask])
        /\ ncnt' = [ncnt EXCEPT ![m] = IF some THEN 1 ELSE 0]
        /\ UpdateMol(Pass(m, IF some THEN Head(k.q[m]) ELSE NoTask))

\* m goes from its owner to the first waiting task, if there is one.
GiveUp(c, m) ==
    LET k1   == Disown(m)
        some == k1.q[m] # <<>>
    IN  /\ Leave(c, IF some THEN HandOver(k1, m) ELSE [k1 EXCEPT !.onr[m] = NoTask])
        /\ ncnt' = [ncnt EXCEPT ![m] = IF some THEN 1 ELSE 0]
        /\ UpdateMol(Pass(m, IF some THEN Head(k1.q[m]) ELSE NoTask))

\* smx_MutexRel(m)
MutexRel(m) ==
    /\ MayCall("task")
    /\ k.onr[m] = ct
    /\ \/ ncnt[m] = 1 /\ GiveUp("task", m)
       \/ /\ ncnt[m] > 1
          /\ Leave("task", k)
          /\ ncnt' = [ncnt EXCEPT ![m] = @ - 1]
          /\ UNCHANGED <<mol, nested>>

\* smx_MutexFree(m), whoever owns it.
MutexFree(c, m) == /\ MayCall(c)
                   /\ k.onr[m] # NoTask
                   /\ GiveUp(c, m)

\* Mutant: the mutex stays in its owner's list.
MutexClear_KeepMol(c, m) ==
    /\ MayCall(c)
    /\ k.onr[m] # NoTask
    /\ LET k1 == [Disown(m) EXCEPT !.onr[m] = NoTask]
           n  == Len(k1.q[m])
           Ready(k2) == LET t == Head(k2.q[m])
                        IN  NoTimeout(DoCtTest(NQRQTask(DQFTask(k2, m), t)), t)
           after[i \in 0..n] == IF i = 0 THEN k1 ELSE Ready(after[i - 1])
       IN  Leave(c, after[n])
    /\ ncnt' = [ncnt EXCEPT ![m] = 0]
    /\ UNCHANGED <<mol, nested>>

\* smx_MutexClear(m): the waiting tasks become ready, one after the other,
\* without it.
MutexClear(c, m) ==
    /\ MayCall(c)
    /\ k.onr[m] # NoTask
    /\ LET k1 == [Disown(m) EXCEPT !.onr[m] = NoTask]
           n  == Len(k1.q[m])
           Ready(k2) == LET t == Head(k2.q[m])
                        IN  NoTimeout(DoCtTest(NQRQTask(DQFTask(k2, m), t)), t)
           after[i \in 0..n] == IF i = 0 THEN k1 ELSE Ready(after[i - 1])
       IN  Leave(c, after[n])
    /\ ncnt' = [ncnt EXCEPT ![m] = 0]
    /\ UpdateMol(Pass(m, NoTask))

-----------------------------------------------------------------------------

MutexSSR == \E m \in Mutexes :
              \/ \E tmo \in Timeouts : MutexGet(m, tmo) \/ MutexGetStop(m, tmo)
              \/ MutexRel(m)
              \/ \E c \in Callers : MutexFree(c, m) \/ MutexClear(c, m)

\* What else takes tasks out of queues and changes priorities.  To a mutex,
\* starting and stopping a task is the same as suspending it.
OtherSSR == /\ \/ Scheduler
               \/ Timeout
               \/ \E c \in Callers, t \in Targets : TaskResume(c, t) \/ TaskSuspend(c, t, "SET")
               \/ \E c \in Callers, b \in Bumps : TaskBump(c, b[1], b[2])
            /\ UNCHANGED <<ncnt, mol, nested>>

MutexNext == MutexSSR \/ OtherSSR

MutexSpec == MutexInit /\ [][MutexNext]_mutexVars

-----------------------------------------------------------------------------
(* Properties. *)

(***************************************************************************)
(* The mutex-owned lists, the owners and the nesting counts agree, and a   *)
(* mutex that tasks wait for has an owner, which is none of them: nobody   *)
(* waits for a mutex that nobody will release.  The promotions on the way  *)
(* leave smx_rqtop at the highest level that holds a task.  (The types of  *)
(* the variables, which the rest of it rests on, are part of it.)          *)
(***************************************************************************)
OwnershipConsistent ==
    /\ MutexTypeOK
    /\ \A m \in Mutexes :
          /\ \A t \in Tasks : Cardinality({i \in DOMAIN mol[t] : mol[t][i] = m})
                                = (IF k.onr[m] = t THEN 1 ELSE 0)
          /\ ncnt[m] > 0 <=> k.onr[m] # NoTask
          /\ k.q[m] # <<>> => k.onr[m] # NoTask /\ ~Contains(k.q[m], k.onr[m])
    /\ RqTopCorrect

(***************************************************************************)
(* The tasks waiting for a mutex are in the order of their priorities,     *)
(* which inheritance along a chain of owners changes while they wait.      *)
(***************************************************************************)
MutexWaitersSorted ==
    \A m \in Mutexes : \A i \in 1..(Len(k.q[m]) - 1) :
        k.pri[k.q[m][i]] >= k.pri[k.q[m][i + 1]]

\* The priority mutex m calls for in its owner.
CallsFor(m) == Max({Ceil[m]} \union IF m \in Inherit /\ k.q[m] # <<>>
                                      THEN {k.pri[Head(k.q[m])]} ELSE {})

(***************************************************************************)
(* No priority inversion: the owner of a mutex has at least its ceiling    *)
(* and the priority of the first task that waits for it, along chains of   *)
(* owners too, unless the owner has held several mutexes at once.          *)
(***************************************************************************)
NoInversion ==
    \A m \in Mutexes : k.onr[m] \in Tasks \ nested => k.pri[k.onr[m]] >= CallsFor(m)

(***************************************************************************)
(* No task stays promoted: one that owns no mutex has its normal priority, *)
(* and no task ever has less.                                              *)
(***************************************************************************)
PriorityRestored ==
    \A t \in Tasks : /\ k.pri[t] >= k.prinorm[t]
                     /\ mol[t] = <<>> => k.pri[t] = k.prinorm[t]

(***************************************************************************)
(* No priority inversion whatever the owner holds (xsmx.c:983-986: "If     *)
(* task owns other mutexes, set its priority to the highest priority of:   *)
(* the highest priority waiting task or mutex ceiling in its mutex-owned   *)
(* list or to its normal priority").                                       *)
(***************************************************************************)
NoInversionNested ==
    \A m \in Mutexes : k.onr[m] # NoTask => k.pri[k.onr[m]] >= CallsFor(m)
=============================================================================
