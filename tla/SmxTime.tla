------------------------------ MODULE SmxTime -------------------------------
(***************************************************************************)
(* Time in smx: the tick LSR, which drives the timers (SmxTimer) and the   *)
(* task timeouts (SmxTimeout), the timer SSRs of src/XSMX/xtmr.c, and the  *)
(* recovery of the ticks lost while the processor was powered down         *)
(* (src/XSMX/xsys.c).                                                      *)
(*                                                                         *)
(* An SSR is one action: no LSR runs inside it.  smx_TimerStartAbs() reads *)
(* smx_etime twice before its SSR begins, so it is three.                  *)
(***************************************************************************)
EXTENDS SmxTimer, SmxTimeout

CONSTANTS Starts,     \* the calls of smx_TimerStart(): pairs of a delay and a period
          Pulses,     \* the calls of smx_TimerSetPulse(): pairs of a period and a width
          MaxDelay,   \* the longest delay or period
          Sleeps      \* the ticks that may be lost while powered down

ASSUME TimeAssumption == /\ MaxDelay \in 1..(Half - 1)
                         /\ Starts \subseteq (1..MaxDelay) \X (0..MaxDelay)
                         /\ Pulses \subseteq (1..MaxDelay) \X (0..MaxDelay)
                         /\ \A s \in Pulses : s[2] < s[1]
                         /\ Sleeps \subseteq 1..MaxWait

VARIABLES tm,     \* the timer queue and the timers, see SmxTimer
          abs     \* a call of smx_TimerStartAbs(tmr, time) that has not come
                  \* to its SSR, and the delay once it has been computed

timeVars == <<tm, abs, etime, to, pend>>

NoCall == <<>>
Unread == Word

\* Type invariant of SmxTime, SmxTimer and SmxTimeout; a timer is in the queue
\* once at most.
TimeTypeOK == /\ TimeoutType
              /\ tm \in TimersType
              /\ IsInjective(tm.tq)
              /\ abs \in {NoCall} \union
                         [tmr : Timers, time : 0..(Word - 1), delay : 0..Unread]

TimeInit == /\ TimeoutInit
            /\ tm = NoTimers
            /\ abs = NoCall

-----------------------------------------------------------------------------
(* LSRs and the idle task. *)

\* smx_KeepTimeLSRMain()
KeepTimeLSR == /\ Tick
               /\ tm' = KeepTimers(tm)
               /\ UNCHANGED abs

\* What concerns timeouts only: their LSR, and calls that set or end one.
TimeoutsOnly == tm' = NoneFired(tm) /\ UNCHANGED abs

RunTimeoutLSR == TimeoutLSR /\ TimeoutsOnly

WaitCall == /\ \E t \in Tasks : TimeoutCancel(t) \/ \E d \in Delays : TimeoutSet(t, d)
            /\ TimeoutsOnly

\* A task halfway through a call is ready, and the idle task does not run.
IdleRollover == /\ abs = NoCall
                /\ EtimeRollover
                /\ TimeoutsOnly

-----------------------------------------------------------------------------
(* The timer SSRs. *)

TimerSSR(m) == /\ tm' = m
               /\ to' = Quiet(to)
               /\ UNCHANGED <<etime, pend>>

(***************************************************************************)
(* smx_TimerStart(t, delay, period).  A pulse timer that is started again  *)
(* keeps its width, which the application has to keep below the period:    *)
(* nothing tests it.                                                       *)
(***************************************************************************)
TimerStart(t, delay, period) ==
    /\ IsRunning(tm, t) /\ tm.width[t] > 0 => period = 0 \/ period > tm.width[t]
    /\ TimerSSR(TimerStart_F(NoneFired(tm), t, delay, period))
    /\ UNCHANGED abs

TimerStop(t) == TimerSSR(TimerStop_F(NoneFired(tm), t)) /\ UNCHANGED abs

TimerReset(t) == /\ IsRunning(tm, t)
                 /\ TimerSSR(TimerReset_F(NoneFired(tm), t))
                 /\ UNCHANGED abs

TimerSetPulse(t, period, width) ==
    /\ IsRunning(tm, t)
    /\ TimerSSR(TimerSetPulse_F(NoneFired(tm), t, period, width))
    /\ UNCHANGED abs

TimerDup(t, a) == /\ IsRunning(tm, a)
                  /\ ~IsRunning(tm, t)
                  /\ TimerSSR(TimerDup_F(NoneFired(tm), t, a))
                  /\ UNCHANGED abs

(***************************************************************************)
(* smx_TimerStartAbs(t, time): time > smx_SysPeek(SMX_PK_ETIME) is tested, *)
(* then the delay is computed from another smx_SysPeek(), then the SSR is  *)
(* entered.  Only one-shot timers are started this way here.               *)
(***************************************************************************)
StartAbsTest(t, time) == /\ abs = NoCall
                         /\ time > etime
                         /\ abs' = [tmr |-> t, time |-> time, delay |-> Unread]
                         /\ TimerSSR(NoneFired(tm))

StartAbsDelay == /\ abs # NoCall
                 /\ abs.delay = Unread
                 /\ abs' = [abs EXCEPT !.delay = (abs.time - etime) % Word]
                 /\ TimerSSR(NoneFired(tm))

\* A delay of 0 is an error.
StartAbs == /\ abs # NoCall
            /\ abs.delay # Unread
            /\ abs' = NoCall
            /\ TimerSSR(IF abs.delay = 0 THEN NoneFired(tm)
                        ELSE TimerStart_F(NoneFired(tm), abs.tmr, abs.delay, 0))

-----------------------------------------------------------------------------
(* smx_SysPowerDown(), by the idle task. *)

\* The next timer, Never if there is none before time end; and the timers,
\* their first one nearer by the ticks from time now to end in that case.
Never == INF

NextTimer(m, now, end) ==
    IF m.tq # <<>> /\ m.diffcnt[Head(m.tq)] <= end - now
    THEN now + m.diffcnt[Head(m.tq)] ELSE Never

\* Mutant: the rest of the sleep is not taken from the timer that expires next.
Remaining_Whole(m, now, end) == m

Remaining(m, now, end) == IF NextTimer(m, now, end) = Never THEN Advance(m, end - now) ELSE m

\* One round of the loop of smx_TickRecovery(): s holds the timers, the
\* timeouts, and the times etmr and etmo of the next of each.
Recover(s, end) ==
    IF s.etmr <= s.etmo
    THEN LET m == TimerTimeout([s.tm EXCEPT !.diffcnt[Head(s.tm.tq)] = 0])
         IN  [s EXCEPT !.tm = Remaining(m, s.etmr, end), !.etmr = NextTimer(m, s.etmr, end)]
    ELSE LET o == TaskTimeout(s.to)
         IN  [s EXCEPT !.to = o, !.etmo = o.min]

\* smx_TickRecovery() after n ticks were lost: at most one round for each tick
\* and for each task.
TickRecovery(n) ==
    LET end    == etime + n
        first  == [ tm   |-> Remaining(NoneFired(tm), etime, end),
                    to   |-> Quiet(to),
                    etmr |-> NextTimer(tm, etime, end),
                    etmo |-> IF to.min <= end THEN to.min ELSE Never ]
        rounds == n + NumTasks + 1
        after[i \in 0..rounds] ==
            IF i = 0 THEN first
            ELSE LET s == after[i - 1]
                 IN  IF s.etmr <= end \/ s.etmo <= end THEN Recover(s, end) ELSE s
    IN  after[rounds]

SysPowerDown(n) == /\ pend = 0
                   /\ abs = NoCall
                   /\ etime + n <= Half + Lag
                   /\ etime' = etime + n
                   /\ tm' = TickRecovery(n).tm
                   /\ to' = TickRecovery(n).to
                   /\ UNCHANGED <<pend, abs>>

-----------------------------------------------------------------------------

TimerCall == \E t \in Timers :
               \/ TimerStop(t) \/ TimerReset(t)
               \/ \E s \in Starts : TimerStart(t, s[1], s[2])
               \/ \E s \in Pulses : TimerSetPulse(t, s[1], s[2])
               \/ \E a \in Timers : TimerDup(t, a)

AbsCall == \/ \E t \in Timers, d \in 1..MaxDelay : etime + d < Word /\ StartAbsTest(t, etime + d)
           \/ StartAbsDelay
           \/ StartAbs

PowerDown == \E n \in Sleeps : SysPowerDown(n)

TimeNext == \/ KeepTimeLSR \/ RunTimeoutLSR \/ IdleRollover \/ PowerDown
            \/ WaitCall \/ TimerCall \/ AbsCall

TimeSpec == TimeInit /\ [][TimeNext]_timeVars /\ WF_timeVars(RunTimeoutLSR)

-----------------------------------------------------------------------------
(* Properties. *)

\* Every delay smx_TimerStartAbs() may compute.
AbsStarts == (1..(Word - 1)) \X {0}

Alone == INSTANCE SmxTimerSpec WITH
           Starts <- Starts \union AbsStarts,
           timer  <- [t \in Timers |-> [ left   |-> TimeLeft(tm, t),
                                         period |-> tm.period[t],
                                         width  |-> tm.width[t],
                                         next   |-> tm.nxtdly[t],
                                         state  |-> tm.state[t],
                                         fired  |-> tm.fired[t] ]],
           now    <- etime

(***************************************************************************)
(* Timers do not disturb one another: with one queue of differences, from  *)
(* which timers are taken and into which they are put by SSRs, by the tick *)
(* LSR that walks it, and by the recovery of many lost ticks at once, each *)
(* timer expires at the ticks at which it would expire alone.              *)
(***************************************************************************)
TimersImplement == Alone!Spec

DelaysInReach == \A t \in Timers : TimeLeft(tm, t) <= MaxDelay /\ tm.nxtdly[t] <= MaxDelay

(***************************************************************************)
(* No timer is put off beyond the longest delay the application asks for,  *)
(* nor will be when it is reset or its next phase begins, except by        *)
(* smx_TimerStartAbs() when the time came between its two reads of         *)
(* smx_etime: the delay wraps, and the timer is started for as long as a   *)
(* word counts.                                                            *)
(***************************************************************************)
OnlyStartAbsOverruns ==
    [][DelaysInReach /\ ~DelaysInReach' => StartAbs /\ abs.delay > abs.time]_timeVars

\* The phase that follows has the length the period and the width call for.
PulsesInShape ==
    \A t \in Timers :
        tm.width[t] > 0 /\ tm.period[t] > 0 =>
            tm.nxtdly[t] = IF tm.state[t] = "HI" THEN tm.period[t] - tm.width[t]
                           ELSE tm.width[t]

(***************************************************************************)
(* Pulses keep their shape, phase after phase.  It is lost only when a     *)
(* pulse timer is started again, or in its HI phase is reset, which swaps  *)
(* the lengths of the next phases, or given another pulse.                 *)
(***************************************************************************)
OnlyRestartsShiftPulse ==
    [][PulsesInShape /\ ~PulsesInShape' =>
         \E t \in Timers :
            \/ \E s \in Starts : TimerStart(t, s[1], s[2])
            \/ /\ tm.state[t] = "HI"
               /\ TimerReset(t) \/ \E s \in Pulses : TimerSetPulse(t, s[1], s[2])]_timeVars
=============================================================================
