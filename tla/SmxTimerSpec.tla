---------------------------- MODULE SmxTimerSpec ----------------------------
(***************************************************************************)
(* What the timers of smx promise: every timer runs by itself, as if it    *)
(* were the only one.  A timer is a record                                 *)
(*                                                                         *)
(*   left     ticks until it expires, 0 when it does not run               *)
(*   period   0 for a one-shot timer                                       *)
(*   width    of the HI pulse, 0 for a timer without pulses                *)
(*   next     how long the phase after the current one lasts               *)
(*   state    "LO" or "HI"                                                 *)
(*   fired    how often the last step made it expire                       *)
(*                                                                         *)
(* SmxTimer implements this with one queue of differences.                 *)
(***************************************************************************)
EXTENDS Integers

CONSTANTS Timers,
          Starts,   \* pairs of a delay and a period
          Pulses,   \* pairs of a period and a width
          Sleeps    \* ticks that may pass at once

VARIABLES timer,
          now      \* the clock, in ticks

vars == <<timer, now>>

Stopped == [left |-> 0, period |-> 0, width |-> 0, next |-> 0, state |-> "LO", fired |-> 0]

\* A timer expires: a one-shot timer stops, a cyclic one begins its next
\* period, a pulse timer its next phase.
Expire(r) ==
    LET fired == r.fired + 1
        state == IF r.state = "LO" THEN "HI" ELSE "LO"
    IN  IF r.period = 0 THEN [Stopped EXCEPT !.fired = fired]
        ELSE IF r.width = 0 THEN [r EXCEPT !.left = r.period, !.fired = fired]
        ELSE [r EXCEPT !.left = r.next, !.state = state, !.fired = fired,
                       !.next = IF state = "HI" THEN r.period - r.width ELSE r.width]

\* A timer after one tick, and after n ticks.
Tick(r) == IF r.left = 0 THEN r
           ELSE IF r.left = 1 THEN Expire(r) ELSE [r EXCEPT !.left = @ - 1]

Ticks(r, n) == LET after[i \in 0..n] == IF i = 0 THEN [r EXCEPT !.fired = 0]
                                        ELSE Tick(after[i - 1])
               IN  after[n]

Running(t) == timer[t].left > 0

\* Timer t becomes r; none expires.
Become(t, r) == /\ timer' = [x \in Timers |-> [(IF x = t THEN r ELSE timer[x]) EXCEPT !.fired = 0]]
                /\ now' = now

Elapse(n) == /\ timer' = [t \in Timers |-> Ticks(timer[t], n)]
             /\ now' = now + n

\* The clock is set back; no timer knows.
SetBack == /\ timer' = [t \in Timers |-> Ticks(timer[t], 0)]
           /\ now' < now

Start(t, delay, period) ==
    Become(t, [(IF Running(t) THEN timer[t] ELSE Stopped) EXCEPT
                  !.left = delay, !.period = period, !.next = delay])

Stop(t) == Become(t, Stopped)

\* A running timer begins anew, in the LO state.
Reset(t) == LET r == timer[t]
            IN  /\ Running(t)
                /\ Become(t, [r EXCEPT !.left  = IF r.period = 0 THEN r.next ELSE r.period - r.width,
                                       !.state = "LO"])

\* The next HI phase has the new width; a phase that has begun is not changed.
SetPulse(t, period, width) ==
    LET r == timer[t]
    IN  /\ Running(t)
        /\ Become(t, [r EXCEPT !.period = period, !.width = width,
                               !.next = IF r.state = "LO" THEN width ELSE @])

Dup(t, a) == Running(a) /\ ~Running(t) /\ Become(t, timer[a])

Init == /\ timer = [t \in Timers |-> Stopped]
        /\ now = 0

Next == \/ \E n \in {0, 1} \union Sleeps : Elapse(n)
        \/ SetBack
        \/ \E t \in Timers :
             \/ Stop(t) \/ Reset(t)
             \/ \E s \in Starts : Start(t, s[1], s[2])
             \/ \E s \in Pulses : SetPulse(t, s[1], s[2])
             \/ \E a \in Timers : Dup(t, a)

Spec == Init /\ [][Next]_vars
=============================================================================
