---------------------------- MODULE SmxEventQueue ---------------------------
(***************************************************************************)
(* Event queues (src/XSMX/xeq.c, and smx_DQTask() of src/XSMX/xsmx.c):     *)
(* a task waits until an event has been signalled a number of times.  The  *)
(* queue is differential: task->sv is the number of signals from the one   *)
(* that resumes the task before.                                           *)
(***************************************************************************)
EXTENDS SmxTask

CONSTANT MaxEvents   \* bound: the largest count of a call

ASSUME EventQueueAssumption == MaxEvents \in Nat

VARIABLES eqMade,    \* whether the queue exists
          counters,  \* the queue
          sv,        \* task->sv
          due        \* history: the signals each task still waits for

eqVars == <<eqMade, counters, sv, due>>

EventQueueInit == /\ eqMade = FALSE
                  /\ counters = <<>>
                  /\ sv = [t \in Tasks |-> 0]
                  /\ due = [t \in Tasks |-> 0]

\* The signals up to the ith task.
Total[i \in 0..Len(counters)] == IF i = 0 THEN 0 ELSE Total[i - 1] + sv[counters[i]]

\* The task which a count of n goes ahead of.
Place(n) == Min({i \in DOMAIN counters : n < Total[i]} \union {Len(counters) + 1})

\* smx_EventQueueCount() and smx_EventQueueCountStop(); a count of 0 returns.
EventQueueCount(t, n) ==
    /\ t \notin Range(counters)
    /\ n > 0
    /\ LET i    == Place(n)
           diff == n - Total[i - 1]
           next == {counters[j] : j \in {i} \intersect DOMAIN counters}
       IN  /\ counters' = InsertAt(counters, i, t)
           /\ sv' = [u \in Tasks |-> IF u = t THEN diff
                                     ELSE IF u \in next THEN sv[u] - diff ELSE sv[u]]
    /\ due' = [due EXCEPT ![t] = n]

\* smx_EventQueueSignal(eq), and the loop of smx_EventQueueSignal_F(): the first
\* task, and those behind it that wait for the same signal.
EventQueueSignal ==
    /\ counters # <<>>
    /\ LET sv1   == [sv EXCEPT ![Head(counters)] = @ - 1]
           later == {i \in DOMAIN counters : sv1[counters[i]] # 0}
       IN  /\ sv' = sv1
           /\ counters' = SubSeq(counters, Min(later \union {Len(counters) + 1}), Len(counters))
    /\ due' = [t \in Tasks |-> IF t \in Range(counters) THEN due[t] - 1 ELSE due[t]]

\* smx_EventQueueClear()
EventQueueClear == /\ counters' = <<>>
                   /\ sv' = [t \in Tasks |-> IF t \in Range(counters) THEN 0 ELSE sv[t]]
                   /\ due' = [t \in Tasks |-> 0]

\* smx_EventQueueCreate() and smx_EventQueueDelete(), which clears the queue.
EventQueueCreate == ~eqMade /\ eqMade' = TRUE /\ UNCHANGED <<counters, sv, due>>

EventQueueDelete == eqMade /\ EventQueueClear /\ eqMade' = FALSE

\* Mutant: the task behind keeps its difference.
UncountTask_NoHandOn(t) == [sv EXCEPT ![t] = 0]

\* smx_DQTask(t) adds sv to that of the task behind.
UncountTask(t) ==
    LET i    == CHOOSE i \in DOMAIN counters : counters[i] = t
        next == {counters[j] : j \in {i + 1} \intersect DOMAIN counters}
    IN  [u \in Tasks |-> IF u = t THEN 0 ELSE IF u \in next THEN sv[u] + sv[t] ELSE sv[u]]

\* A timeout or a task SSR takes a task out of the queue.
CountEnds(t) == /\ t \in Range(counters)
                /\ sv' = UncountTask(t)
                /\ counters' = Without(counters, t)
                /\ due' = [due EXCEPT ![t] = 0]

\* A call is refused when the queue does not exist.
EventQueueCall ==
    /\ eqMade
    /\ \/ EventQueueSignal \/ EventQueueClear
       \/ \E t \in Tasks : CountEnds(t) \/ \E n \in 1..MaxEvents : EventQueueCount(t, n)
    /\ UNCHANGED eqMade

EventQueueNext == EventQueueCall \/ EventQueueCreate \/ EventQueueDelete

EventQueueSpec == EventQueueInit /\ [][EventQueueNext]_eqVars

-----------------------------------------------------------------------------
(* Properties. *)

(***************************************************************************)
(* Each task waits for as many signals as it asked for, less those that    *)
(* came since, and no longer: although the count is kept as differences    *)
(* to the tasks ahead of it, which time out, are resumed or stopped, while *)
(* others get in between.                                                  *)
(***************************************************************************)
CountsExact ==
    /\ \A t \in Tasks : due[t] > 0 <=> t \in Range(counters)
    /\ \A i \in DOMAIN counters : due[counters[i]] = Total[i]
=============================================================================
