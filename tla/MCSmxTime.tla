----------------------------- MODULE MCSmxTime ------------------------------
(***************************************************************************)
(* An instance of SmxTime with small words, two timers and three tasks.    *)
(* Timers and timeouts share the tick and the power-down only, so a        *)
(* behaviour makes the calls of one kind and few of the others.            *)
(***************************************************************************)
EXTENDS SmxTime

CONSTANTS a, b

VARIABLE used   \* bound: the calls this behaviour makes

MCStarts == {<<1, 0>>, <<3, 0>>, <<2, 3>>}
MCPulses == {<<3, 1>>, <<2, 0>>}

MCInit == TimeInit /\ used \in {"timers", "absolute", "timeouts"}

\* Bounds: a call of smx_TimerStartAbs() on its way is late by one tick at
\* most, and only timer a is started like this.
AbsBound == abs # NoCall => etime <= abs.time

CallsForA == abs' # NoCall => abs'.tmr = a

MCNext == /\ \/ KeepTimeLSR /\ AbsBound
             \/ RunTimeoutLSR \/ IdleRollover \/ PowerDown
             \/ used = "timers" /\ TimerCall
             \/ used = "absolute" /\ ((AbsCall /\ CallsForA) \/ TimerStart(b, 2, 3) \/ TimerReset(a))
             \/ used = "timeouts" /\ (WaitCall \/ TimerStart(b, 2, 3))
          /\ UNCHANGED used

MCSpec == /\ MCInit
          /\ [][MCNext]_<<timeVars, used>>
          /\ WF_<<timeVars, used>>(RunTimeoutLSR /\ UNCHANGED used)
=============================================================================
