------------------------------ MODULE SmxTimer ------------------------------
(***************************************************************************)
(* Timers (src/XSMX/xtmr.c and the timer queue in src/XSMX/xsmx.c), as     *)
(* operators on the timer queue m, a record:                               *)
(*                                                                         *)
(*   tq       smx_tq: the running timers, in the order they expire         *)
(*   diffcnt  ticks between the previous timer in tq and this one          *)
(*   period, width, nxtdly, state    the fields of TMRCB                   *)
(*   fired    how often the last step invoked the LSR of a timer           *)
(*                                                                         *)
(* A timer has a control block, and its handle is not NULL, just while it  *)
(* is in tq.  Its LSR, its parameter and its count of timeouts are left    *)
(* out, so smx_TimerSetLSR() changes nothing here.                         *)
(***************************************************************************)
EXTENDS SmxWord, SequencesExt, FiniteSetsExt

CONSTANT Timers

ASSUME TimerAssumption == IsFiniteSet(Timers)

\* The ticks before timer i of the queue expires.
Sum(m, i) == LET sum[j \in 0..i] == IF j = 0 THEN 0 ELSE sum[j - 1] + m.diffcnt[m.tq[j]]
             IN  sum[i]

IsRunning(m, t) == Contains(m.tq, t)

Position(m, t) == CHOOSE i \in DOMAIN m.tq : m.tq[i] = t

TimeLeft(m, t) == IF IsRunning(m, t) THEN Sum(m, Position(m, t)) ELSE 0

NoTimers == [ tq      |-> <<>>,
              diffcnt |-> [t \in Timers |-> 0],
              period  |-> [t \in Timers |-> 0],
              width   |-> [t \in Timers |-> 0],
              nxtdly  |-> [t \in Timers |-> 0],
              state   |-> [t \in Timers |-> "LO"],
              fired   |-> [t \in Timers |-> 0] ]

TimersType == [ tq      : Seq(Timers),
                diffcnt : [Timers -> 0..(Word - 1)],
                period  : [Timers -> 0..(Word - 1)],
                width   : [Timers -> 0..(Word - 1)],
                nxtdly  : [Timers -> 0..(Word - 1)],
                state   : [Timers -> {"LO", "HI"}],
                fired   : [Timers -> Nat] ]

-----------------------------------------------------------------------------
(* The timer queue. *)

\* smx_DQTimer(t): the next timer takes over its difference.
DQTimer(m, t) ==
    LET i == Position(m, t)
    IN  IF i = Len(m.tq) THEN [m EXCEPT !.tq = RemoveAt(@, i)]
        ELSE [m EXCEPT !.tq = RemoveAt(@, i),
                       !.diffcnt[m.tq[i + 1]] = (@ + m.diffcnt[t]) % Word]

\* Mutant: the timer behind the new one is put off.
NQTimer_NoSubtract(m, t, delay) ==
    LET i == Min({i \in DOMAIN m.tq : delay < Sum(m, i)} \union {Len(m.tq) + 1})
    IN  [m EXCEPT !.tq = InsertAt(@, i, t), !.diffcnt[t] = delay - Sum(m, i - 1)]

\* smx_NQTimer(t, delay): ahead of the first timer that expires later.
NQTimer(m, t, delay) ==
    LET i    == Min({i \in DOMAIN m.tq : delay < Sum(m, i)} \union {Len(m.tq) + 1})
        diff == delay - Sum(m, i - 1)
    IN  [m EXCEPT !.tq = InsertAt(@, i, t),
                  !.diffcnt = [x \in Timers |->
                                 IF x = t THEN diff
                                 ELSE IF i <= Len(m.tq) /\ x = m.tq[i] THEN m.diffcnt[x] - diff
                                 ELSE m.diffcnt[x]]]

\* The block of t is cleared and released, and its handle is cleared.
Release(m, t) == [m EXCEPT !.diffcnt[t] = 0, !.period[t] = 0, !.width[t] = 0,
                           !.nxtdly[t] = 0, !.state[t] = "LO"]

-----------------------------------------------------------------------------
(* The timer SSRs. *)

NoneFired(m) == [m EXCEPT !.fired = [t \in Timers |-> 0]]

\* Mutant: a timer that runs is put into the queue once more.
TimerStart_F_NoDequeue(m, t, delay, period) ==
    NQTimer([m EXCEPT !.nxtdly[t] = delay, !.period[t] = period], t, delay)

\* smx_TimerStart_F(): a timer that runs already keeps its width and state.
TimerStart_F(m, t, delay, period) ==
    LET m1 == IF IsRunning(m, t) THEN DQTimer(m, t) ELSE m
    IN  NQTimer([m1 EXCEPT !.nxtdly[t] = delay, !.period[t] = period], t, delay)

\* smx_TimerStop(t)
TimerStop_F(m, t) == IF IsRunning(m, t) THEN Release(DQTimer(m, t), t) ELSE m

ResetDelay(m, t) == IF m.period[t] = 0 THEN m.nxtdly[t]
                    ELSE (m.period[t] - m.width[t]) % Word

\* smx_TimerReset(t)
TimerReset_F(m, t) ==
    [NQTimer(DQTimer(m, t), t, ResetDelay(m, t)) EXCEPT !.state[t] = "LO"]

\* smx_TimerSetPulse(t, period, width)
TimerSetPulse_F(m, t, period, width) ==
    [m EXCEPT !.period[t] = period,
              !.width[t]  = width,
              !.nxtdly[t] = IF m.state[t] = "LO" THEN width ELSE @]

\* smx_TimerDup(): t becomes a copy of a and follows it in the queue.
TimerDup_F(m, t, a) ==
    [m EXCEPT !.tq         = InsertAt(@, Position(m, a) + 1, t),
              !.diffcnt[t] = 0,
              !.period[t]  = m.period[a],
              !.width[t]   = m.width[a],
              !.nxtdly[t]  = m.nxtdly[a],
              !.state[t]   = m.state[a]]

-----------------------------------------------------------------------------
(* smx_TimerTimeout(): every timer with nothing left is taken out and, if  *)
(* it is cyclic, put back.                                                 *)

\* Mutant: the phase that begins lasts as long as the one that ended.
Requeue_SamePhase(m, t) ==
    IF m.width[t] = 0 THEN NQTimer(m, t, m.period[t])
    ELSE LET state == IF m.state[t] = "HI" THEN "LO" ELSE "HI"
         IN  NQTimer([m EXCEPT !.state[t]  = state,
                               !.nxtdly[t] = IF state = "HI" THEN m.width[t]
                                             ELSE m.period[t] - m.width[t]],
                     t, m.nxtdly[t])

\* A cyclic timer that has expired is put back.
Requeue(m, t) ==
    IF m.width[t] = 0 THEN NQTimer(m, t, m.period[t])
    ELSE LET state == IF m.state[t] = "HI" THEN "LO" ELSE "HI"
         IN  NQTimer([m EXCEPT !.state[t]  = state,
                               !.nxtdly[t] = IF state = "HI"
                                             THEN (m.period[t] - m.width[t]) % Word
                                             ELSE m.width[t]],
                     t, m.nxtdly[t])

\* One round of the loop.
ExpireFirst(m) ==
    LET t  == Head(m.tq)
        m1 == [m EXCEPT !.tq = Tail(@), !.fired[t] = @ + 1]
    IN  IF m.period[t] = 0 THEN Release(m1, t) ELSE Requeue(m1, t)

FirstExpired(m) == m.tq # <<>> /\ m.diffcnt[Head(m.tq)] = 0

TimerTimeout(m) ==
    LET rounds == 0..Cardinality(Timers)
        after[i \in rounds] ==
            IF i = 0 THEN m
            ELSE IF FirstExpired(after[i - 1]) THEN ExpireFirst(after[i - 1]) ELSE after[i - 1]
    IN  after[Cardinality(Timers)]

\* The ticks between the first timer and the last event, less n.
Advance(m, n) == IF m.tq = <<>> THEN m
                 ELSE [m EXCEPT !.diffcnt[Head(m.tq)] = (@ - n) % Word]

\* The part of smx_KeepTimeLSRMain() that concerns timers.
KeepTimers(m) == LET m1 == Advance(NoneFired(m), 1)
                 IN  IF FirstExpired(m1) THEN TimerTimeout(m1) ELSE m1
=============================================================================
