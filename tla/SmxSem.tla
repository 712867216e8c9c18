------------------------------- MODULE SmxSem -------------------------------
(***************************************************************************)
(* Semaphores (src/XSMX/xsem.c) on top of the scheduler of SmxKernel.      *)
(*                                                                         *)
(* A task that tests a semaphore waits in its queue; it is taken out by a  *)
(* signal, by its timeout, or by any task SSR another task or an LSR       *)
(* applies to it, and learns which only from its return value, task->rv,   *)
(* when it runs again.  Signals, timeouts and task SSRs may come between   *)
(* the test and the moment PSVH() suspends the task, and between the       *)
(* signal and the moment the task runs.                                    *)
(*                                                                         *)
(* Two history variables follow the tokens of resource semaphores: held,   *)
(* those that a test returned true for, and call, the tests whose result   *)
(* has not been returned.  The application signals a resource semaphore    *)
(* only to give back a token it holds, and counts the tokens anew when it  *)
(* clears one.                                                             *)
(***************************************************************************)
EXTENDS SmxKernel

CONSTANTS Mode,      \* each semaphore's mode
          Lim,       \* and its limit
          MaxCount,  \* 0xFF, the largest count
          Bumps      \* bound: the calls of smx_TaskBump(), pairs of a task and a priority

Modes == {"RSRC", "EVENT", "THRES", "GATE"}

ASSUME SemAssumption ==
    /\ Mode \in [Sems -> Modes]
    /\ FifoSems = {s \in Sems : Mode[s] = "GATE"}
    /\ MaxCount \in Nat
    /\ Bumps \subseteq Targets \X Levels
    /\ Lim \in [Sems -> 0..MaxCount]
    /\ \A s \in Sems : Mode[s] \in {"RSRC", "THRES"} => Lim[s] >= 1

VARIABLES count,   \* sem->count
          held,    \* held[t][s]: the tokens of s that task t holds
          call     \* the test t has called and not returned from: the
                   \* semaphore and how, "susp", "stop", or "par" once a task
                   \* that was stopped has been started with the result

semVars == <<k, ct, pc, count, held, call>>

Resources == {s \in Sems : Mode[s] = "RSRC"}

NoCall == <<>>

SemTypeOK == /\ TypeOK
             /\ count \in [Sems -> 0..MaxCount]
             /\ \A s \in Sems : Mode[s] = "RSRC" \/ (Mode[s] = "EVENT" /\ Lim[s] = 1)
                                  => count[s] <= Lim[s]
             /\ held \in [Tasks -> [Resources -> Nat]]
             /\ call \in [Tasks -> {NoCall} \union (Resources \X {"susp", "stop", "par"})]

\* smx_SemCreate()
SemInit == /\ Init
           /\ count = [s \in Sems |-> IF Mode[s] = "RSRC" THEN Lim[s] ELSE 0]
           /\ held = [t \in Tasks |-> [s \in Resources |-> 0]]
           /\ call = [t \in Tasks |-> NoCall]

-----------------------------------------------------------------------------
(* Resuming waiting tasks. *)

\* The first task waiting at s becomes ready with return value ret.
Wake(k1, s, ret) ==
    LET t == Head(k1.q[s])
    IN  [NoTimeout(NQRQTask(DQFTask(k1, s), t), t) EXCEPT !.rv[t] = ret]

\* Mutant: no preemption test after the last task.
WakeFirst_NoTest(k1, s, n, ret) ==
    LET after[i \in 0..n] == IF i = 0 THEN k1 ELSE Wake(after[i - 1], s, ret) IN after[n]

\* The first n tasks, one after the other, and a preemption test.
WakeFirst(k1, s, n, ret) ==
    LET after[i \in 0..n] == IF i = 0 THEN k1 ELSE Wake(after[i - 1], s, ret)
    IN  IF n = 0 THEN k1 ELSE DoCtTest(after[n])

Waiters(s) == Len(k.q[s])

-----------------------------------------------------------------------------
(* smx_SemSignal(s) *)

\* Mutant: a threshold semaphore resumes its first task one signal late.
Enough_Late(s) == Mode[s] # "THRES" \/ count[s] > Lim[s] - 1

\* With this signal the semaphore has what its first task waits for.
Enough(s) == Mode[s] # "THRES" \/ count[s] >= Lim[s] - 1

\* The greatest count a signal may reach when no task waits.
Limit(s) == IF Mode[s] = "RSRC" \/ (Mode[s] = "EVENT" /\ Lim[s] = 1) THEN Lim[s]
            ELSE IF Mode[s] = "GATE" THEN 0 ELSE MaxCount

\* Mutant: the count goes up although the signal resumes a task.
SignalCount_Both(s) ==
    IF Waiters(s) = 0 THEN IF count[s] < Limit(s) THEN count[s] + 1 ELSE count[s]
    ELSE IF Mode[s] # "THRES" THEN count[s] + 1
    ELSE IF Enough(s) THEN count[s] - (Lim[s] - 1) ELSE count[s] + 1

\* The count after a signal.
SignalCount(s) ==
    IF Waiters(s) = 0 THEN IF count[s] < Limit(s) THEN count[s] + 1 ELSE count[s]
    ELSE IF Mode[s] # "THRES" THEN count[s]
    ELSE IF Enough(s) THEN count[s] - (Lim[s] - 1) ELSE count[s] + 1

\* How many tasks it resumes.
Resumed(s) == IF Waiters(s) = 0 \/ ~Enough(s) THEN 0
              ELSE IF Mode[s] = "GATE" THEN Waiters(s) ELSE 1

SemSignal(c, s) ==
    /\ MayCall(c)
    /\ s \in Resources => c = "task" /\ held[ct][s] > 0
    /\ held' = IF s \in Resources THEN [held EXCEPT ![ct][s] = @ - 1] ELSE held
    /\ count' = [count EXCEPT ![s] = SignalCount(s)]
    /\ Leave(c, WakeFirst(k, s, Resumed(s), TRUE))
    /\ UNCHANGED call

-----------------------------------------------------------------------------
(* smx_SemClear(s): every waiting task is resumed; its rv is still the     *)
(* FALSE its test left there.                                              *)

\* smx_SemClear_F(s)
SemClear_F(s) == WakeFirst(k, s, Waiters(s), FALSE)

SemClear(c, s) ==
    /\ MayCall(c)
    /\ count' = [count EXCEPT ![s] = IF s \in Resources THEN Lim[s] ELSE 0]
    /\ Leave(c, SemClear_F(s))
    /\ IF s \in Resources
         THEN /\ held' = [t \in Tasks |-> [held[t] EXCEPT ![s] = 0]]
              /\ call' = [t \in Tasks |-> IF call[t] # NoCall /\ call[t][1] = s
                                            THEN NoCall ELSE call[t]]
         ELSE UNCHANGED <<held, call>>

-----------------------------------------------------------------------------
(* smx_SemTest(s, timeout) and smx_SemTestStop(s, timeout). *)

Passes(s) == count[s] >= IF Mode[s] = "THRES" THEN Lim[s] ELSE 1

TestCount(s) == IF ~Passes(s) THEN count[s]
                ELSE count[s] - (IF Mode[s] = "THRES" THEN Lim[s] ELSE 1)

\* smx_SemTest_F(): the kernel's data after the test.
SemTest_F(k1, s, tmo) ==
    LET k2 == DQRQTask([k1 EXCEPT !.sched = "SUSP"], ct)
        k3 == IF s \in FifoSems THEN NQTask(k2, s, ct) ELSE PNQTask(k2, s, ct)
    IN  IF Passes(s) \/ tmo = "NOWAIT" THEN k1 ELSE TimeoutSet(k3, ct, tmo)

\* smx_SSRExit(ret) for a test of s: the task learns ret at once, or from
\* ct->rv when PSVH() returns to it.
LeaveTest(k1, s, how, ret) ==
    /\ UNCHANGED ct
    /\ \/ /\ k1.sched = "NOP"
          /\ k' = k1
          /\ held' = IF ret /\ s \in Resources THEN [held EXCEPT ![ct][s] = @ + 1] ELSE held
          /\ UNCHANGED <<pc, call>>
       \/ /\ pc' = "psv"
          /\ k' = [k1 EXCEPT !.rv[ct] = ret]
          /\ call' = IF s \in Resources THEN [call EXCEPT ![ct] = <<s, how>>] ELSE call
          /\ UNCHANGED held

\* A timeout other than NOWAIT clears the lock, whether the test passes or not.
SemTest(s, tmo) ==
    /\ IF tmo = "NOWAIT" THEN pc = "run" ELSE CallerMayWait
    /\ count' = [count EXCEPT ![s] = TestCount(s)]
    /\ LET k1 == IF tmo = "NOWAIT" THEN k ELSE [k EXCEPT !.lockctr = 0]
       IN  LeaveTest(SemTest_F(k1, s, tmo), s, "susp", Passes(s))

\* An LSR may test, not wait; it takes no resource.
SemTestLsr(s) ==
    /\ MayCall("lsr")
    /\ s \notin Resources
    /\ count' = [count EXCEPT ![s] = TestCount(s)]
    /\ UNCHANGED <<k, ct, pc, held, call>>

\* The caller is stopped and started again with the result as its parameter.
SemTestStop(s, tmo) ==
    /\ CallerMayWait
    /\ count' = [count EXCEPT ![s] = TestCount(s)]
    /\ LET k1 == [SemTest_F(k, s, tmo) EXCEPT !.sched = "STOP", !.begun = @ \ {ct}]
       IN  LeaveTest(k1, s, "stop", Passes(s))

-----------------------------------------------------------------------------
(* The scheduler returns a result, or starts a task that waited for one.   *)

\* A task that starts was stopped in its call or before: the parameter of its
\* main function is the result of smx_SemTestStop().
BeginCall == LET c == call[ct]
             IN  IF k.sp[ct] \/ c = NoCall THEN call
                 ELSE [call EXCEPT ![ct] = IF c[2] = "susp" THEN NoCall ELSE <<c[1], "par">>]

\* smx_SSRExit() returns ct->rv, or the task starts with it; smx_SemTestStop()
\* returns nothing if the stop it asked for did not come about.
ReturnCall ==
    LET c == call[ct]
    IN  /\ call' = [call EXCEPT ![ct] = NoCall]
        /\ held' = IF c # NoCall /\ c[2] # "stop" /\ k.rv[ct]
                     THEN [held EXCEPT ![ct][c[1]] = @ + 1] ELSE held

SemScheduler ==
    \/ /\ \/ Interrupt \/ PsvStop \/ PsvContinue \/ PsvSuspend
          \/ FlyResume \/ FlyStart \/ TailFlyback
       /\ UNCHANGED <<count, held, call>>
    \/ FlyTop /\ call' = BeginCall /\ UNCHANGED <<count, held>>
    \/ TailReturn /\ ReturnCall /\ UNCHANGED count

-----------------------------------------------------------------------------

SemSSR(s) == \/ \E c \in Callers : SemSignal(c, s) \/ SemClear(c, s)
             \/ \E tmo \in Timeouts : SemTest(s, tmo) \/ SemTestStop(s, tmo)
             \/ SemTestLsr(s)

\* What else may happen to a task that waits: its priority may change too.
OtherSSR == /\ \/ Timeout
               \/ TaskSSR
               \/ \E c \in Callers, b \in Bumps : TaskBump(c, b[1], b[2])
            /\ UNCHANGED <<count, held, call>>

SemNext == SemScheduler \/ OtherSSR \/ \E s \in Sems : SemSSR(s)

SemSpec == SemInit /\ [][SemNext]_semVars

-----------------------------------------------------------------------------
(* Properties. *)

(***************************************************************************)
(* No missed signal: no task waits at a semaphore that has what it waits   *)
(* for.  A test and a signal each look at both the count and the queue.    *)
(***************************************************************************)
NoMissedSignal == \A s \in Sems : Waiters(s) > 0 => ~Passes(s)

(***************************************************************************)
(* The tasks waiting at a semaphore, except a gate, are in the order of    *)
(* their priorities, whatever changes these while the tasks wait, and no   *)
(* task that was resumed keeps its timeout.                                *)
(***************************************************************************)
WaitersSorted ==
    /\ \A s \in Sems \ FifoSems : \A i \in 1..(Waiters(s) - 1) :
          k.pri[k.q[s][i]] >= k.pri[k.q[s][i + 1]]
    /\ NoStaleTimeout

\* A task has been granted a token of s that it has not learnt of yet.
Granted(t, s) == call[t] # NoCall /\ call[t][1] = s /\ k.rv[t]

\* The tokens of s that are out: a task's are numbered, a granted one is its 0.
TokensOut(s) ==
    UNION {{t} \X ((IF Granted(t, s) THEN {0} ELSE {}) \union 1..held[t][s]) : t \in Tasks}

Tokens(s) == count[s] + Cardinality(TokensOut(s))

(***************************************************************************)
(* Mutual exclusion: no more tokens of a resource semaphore are out than   *)
(* its limit: counted, held, or granted to a task that has yet to run.  A  *)
(* timeout, a clear or a task SSR that takes a task out of the queue must  *)
(* not make its test return true as well.                                  *)
(***************************************************************************)
TokenBound == \A s \in Resources : Tokens(s) <= Lim[s]

(***************************************************************************)
(* The only steps that leave a task running that is not the top task: a    *)
(* test that passes while the scheduler is locked clears the lock without  *)
(* a preemption test.                                                      *)
(***************************************************************************)
OnlyPassedTestMissesPreemption ==
    [][TopKnown /\ ~TopKnown' => pc = "run" /\ k.lockctr > 0 /\ count' # count]_semVars

(***************************************************************************)
(* No token is lost either: the token a signal handed to a task reaches    *)
(* it, although other tasks and LSRs may still apply task SSRs to it       *)
(* (xtask.c:617: smx_TaskResume() "Does nothing if task already in rq").   *)
(***************************************************************************)
TokensConserved == \A s \in Resources : Tokens(s) = Lim[s]
=============================================================================
