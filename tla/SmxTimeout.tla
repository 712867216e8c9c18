----------------------------- MODULE SmxTimeout -----------------------------
(***************************************************************************)
(* Task timeouts (src/XSMX/xtime.c).  Each task has a word, smx_timeout[], *)
(* that holds the time its wait ends.  Nothing is sorted: smx_tmo_min and  *)
(* smx_tmo_indx remember the earliest one, a timeout that is cancelled     *)
(* leaves them as they are, and smx_TimeoutLSR, which is invoked when      *)
(* smx_tmo_min is reached, finds out whether there is something to do.     *)
(* smx_etime and the timeouts are words that would overflow; the idle task *)
(* moves all of them down together.                                        *)
(*                                                                         *)
(* What resuming a task does to the ready queue is in SmxKernel.           *)
(***************************************************************************)
EXTENDS SmxWord

CONSTANTS NumTasks,  \* SMX_NUM_TASKS
          Delays,    \* the timeouts of calls, in ticks; 0 for 0 | SMX_FL_MSEC
          MaxWait,   \* the longest of them
          Lag,       \* bound: ticks past 0x80000000 until the idle task runs
          MaxPend    \* bound: invocations of smx_TimeoutLSR that wait

Tasks == 0..(NumTasks - 1)

\* No sum of a time and a delay reaches SMX_TMO_INF.
ASSUME TimeoutAssumption == /\ NumTasks \in Nat \ {0}
                            /\ MaxWait \in Nat
                            /\ Delays \subseteq 0..MaxWait
                            /\ Lag \in Nat
                            /\ Lag + MaxWait < Half - 1
                            /\ MaxPend \in Nat \ {0}

VARIABLES etime,   \* smx_etime
          to,      \* timeout: smx_timeout[]; min, indx: smx_tmo_min and
                   \* smx_tmo_indx; ended: the tasks the last step timed out
          pend     \* how often smx_TimeoutLSR has been invoked and not run

timeoutVars == <<etime, to, pend>>

TimeoutType == /\ etime \in 0..(Half + Lag)
               /\ to \in [ timeout : [Tasks -> 0..INF],
                           min     : 0..INF,
                           indx    : Tasks,
                           ended   : SUBSET Tasks ]
               /\ pend \in 0..MaxPend

TimeoutInit == /\ etime = 0
               /\ to = [ timeout |-> [t \in Tasks |-> INF],
                         min     |-> INF,
                         indx    |-> 0,
                         ended   |-> {} ]
               /\ pend = 0

Quiet(o) == [o EXCEPT !.ended = {}]

-----------------------------------------------------------------------------

\* The task with the earliest of the timeouts f; of several, the first.
Earliest(f) ==
    CHOOSE t \in Tasks : \A u \in Tasks : f[t] < f[u] \/ (f[t] = f[u] /\ t <= u)

\* Mutant: the task is resumed though its own timeout is another one by now.
TaskTimeout_NoTest(o) ==
    LET f == [o.timeout EXCEPT ![o.indx] = INF]
    IN  [ timeout |-> f, min |-> f[Earliest(f)], indx |-> Earliest(f),
          ended |-> o.ended \union {o.indx} ]

\* Mutant: the search for the next timeout leaves out the last task.
TaskTimeout_ShortScan(o) ==
    LET hit == o.timeout[o.indx] = o.min
        f   == IF hit THEN [o.timeout EXCEPT ![o.indx] = INF] ELSE o.timeout
        e   == Earliest([f EXCEPT ![NumTasks - 1] = INF])
    IN  [ timeout |-> f,
          min     |-> IF e = NumTasks - 1 THEN INF ELSE f[e],
          indx    |-> e,
          ended   |-> IF hit THEN o.ended \union {o.indx} ELSE o.ended ]

\* smx_TaskTimeout(): resumes the task unless it has been resumed already,
\* and finds the next timeout.
TaskTimeout(o) ==
    LET hit == o.timeout[o.indx] = o.min
        f   == IF hit THEN [o.timeout EXCEPT ![o.indx] = INF] ELSE o.timeout
    IN  [ timeout |-> f,
          min     |-> f[Earliest(f)],
          indx    |-> Earliest(f),
          ended   |-> IF hit THEN o.ended \union {o.indx} ELSE o.ended ]

\* The part of smx_KeepTimeLSRMain() that concerns timeouts.
Tick == /\ etime < Half + Lag
        /\ etime' = etime + 1
        /\ to' = Quiet(to)
        /\ IF etime + 1 >= to.min THEN pend < MaxPend /\ pend' = pend + 1
                                  ELSE pend' = pend

\* smx_TimeoutLSRMain(), which invokes itself as long as there is more to do.
TimeoutLSR ==
    /\ pend > 0
    /\ to' = IF etime >= to.min THEN TaskTimeout(Quiet(to)) ELSE Quiet(to)
    /\ pend' = IF etime >= to'.min THEN pend ELSE pend - 1
    /\ UNCHANGED etime

\* smx_TimeoutSet(t, d)
TimeoutSet(t, d) ==
    LET tmo == etime + d
    IN  /\ to' = [Quiet(to) EXCEPT !.timeout[t] = tmo,
                                   !.min  = IF tmo < @ THEN tmo ELSE @,
                                   !.indx = IF tmo < to.min THEN t ELSE @]
        /\ UNCHANGED <<etime, pend>>

\* smx_timeout[t] = SMX_TMO_INF, wherever a task is resumed.
TimeoutCancel(t) == /\ to' = [Quiet(to) EXCEPT !.timeout[t] = INF]
                    /\ UNCHANGED <<etime, pend>>

\* x & 0x7FFFFFFF
Mask(x) == IF x >= Half THEN x - Half ELSE x

(***************************************************************************)
(* smx_EtimeRollover(), by the idle task, which runs when no LSR waits.  A *)
(* smx_tmo_min of SMX_TMO_INF becomes 0x7FFFFFFF.  By then no timeout is   *)
(* below 0x80000000, so the test of them never fails (SmxTimeProofs).      *)
(***************************************************************************)
EtimeRollover ==
    /\ pend = 0
    /\ etime >= Half
    /\ \A t \in Tasks : to.timeout[t] >= Half
    /\ etime' = Mask(etime)
    /\ to' = [Quiet(to) EXCEPT
                !.timeout = [t \in Tasks |-> IF @[t] = INF THEN INF ELSE Mask(@[t])],
                !.min     = Mask(@)]
    /\ UNCHANGED pend

TimeoutNext == \/ Tick \/ TimeoutLSR \/ EtimeRollover
               \/ \E t \in Tasks : TimeoutCancel(t) \/ \E d \in Delays : TimeoutSet(t, d)

TimeoutSpec == TimeoutInit /\ [][TimeoutNext]_timeoutVars

-----------------------------------------------------------------------------
(* Properties. *)

None == INF     \* no wait is as long

\* The ticks task t has left to wait.
Wait(t) == IF to.timeout[t] = INF THEN None ELSE to.timeout[t] - etime

Promise == INSTANCE SmxTimeoutSpec WITH
             wait <- [t \in Tasks |-> Wait(t)], ended <- to.ended, Times <- 0..MaxWait

(***************************************************************************)
(* Timeouts are kept: a wait that its timeout ends was due and, of those   *)
(* that are due, the oldest; no wait is lengthened, shortened or ended by  *)
(* the search for the next timeout, by a smx_tmo_min that is stale, or by  *)
(* the rollover of smx_etime.                                              *)
(***************************************************************************)
TimeoutsImplement == Promise!Spec

\* The timeout of t has passed.
Overdue(t) == to.timeout[t] < etime

(***************************************************************************)
(* A timeout that has passed is dealt with, even when smx_tmo_min belonged *)
(* to a task that was resumed and others are set meanwhile.  LSRs run when *)
(* they have been invoked (SmxLsr); nothing else is needed, no tick either.*)
(***************************************************************************)
TimeoutsServed == \A t \in Tasks : Overdue(t) ~> ~Overdue(t)

(***************************************************************************)
(* What keeps them: smx_tmo_min is not later than any timeout, and when it *)
(* has passed smx_TimeoutLSR is on its way; no timeout is further ahead    *)
(* than the longest wait, so none overflows.                               *)
(***************************************************************************)
MinBelow   == \A t \in Tasks : to.min <= to.timeout[t]
LsrInvoked == to.min < etime => pend > 0
InReach    == \A t \in Tasks : to.timeout[t] = INF \/ to.timeout[t] <= etime + MaxWait

TimeoutInv == TimeoutType /\ MinBelow /\ LsrInvoked /\ InReach
=============================================================================
