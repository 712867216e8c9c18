--------------------------- MODULE SmxTimeoutSpec ---------------------------
(***************************************************************************)
(* What the timeouts of smx promise.  wait[t] is the number of ticks task  *)
(* t has left to wait, negative when its timeout is overdue, or None.  A   *)
(* timeout ends the wait of a task only when it is due, and then the wait  *)
(* that is overdue for the longest time first.                             *)
(***************************************************************************)
EXTENDS Integers

CONSTANTS Tasks,
          None,     \* the task waits without a timeout, or does not wait
          Times     \* numbers of ticks

VARIABLES wait,
          ended     \* the tasks whose wait was ended by the last step, because
                    \* of its timeout

vars == <<wait, ended>>

Waiting == {t \in Tasks : wait[t] # None}

\* Every wait after n ticks.
After(n) == [t \in Tasks |-> IF t \in Waiting THEN wait[t] - n ELSE None]

Init == /\ wait = [t \in Tasks |-> None]
        /\ ended = {}

Set(t, n) == /\ wait' = [wait EXCEPT ![t] = n]
             /\ ended' = {}

\* Something else than a timeout ends the wait.
Cancel(t) == /\ wait' = [wait EXCEPT ![t] = None]
             /\ ended' = {}

Tick == /\ wait' = After(1)
        /\ ended' = {}

Expire(t) == /\ t \in Waiting
             /\ wait[t] <= 0
             /\ \A u \in Waiting : wait[t] <= wait[u]
             /\ wait' = [wait EXCEPT ![t] = None]
             /\ ended' = {t}

\* The processor has slept for n ticks: every wait that is due ends.
Sleep(n) == /\ ended' = {t \in Waiting : wait[t] <= n}
            /\ wait' = [t \in Tasks |-> IF t \in ended' THEN None ELSE After(n)[t]]

\* Nothing happens to the waits.
Rest == /\ wait' = wait
        /\ ended' = {}

Next == \/ \E t \in Tasks : Cancel(t) \/ Expire(t) \/ \E n \in Times : Set(t, n)
        \/ Tick
        \/ \E n \in Times : Sleep(n)
        \/ Rest

Spec == Init /\ [][Next]_vars
=============================================================================
