------------------------------ MODULE MCSmxSem ------------------------------
(***************************************************************************)
(* An instance of SmxSem: two tasks besides the idle task, and semaphores  *)
(* of every mode, of which a behaviour uses one.                           *)
(***************************************************************************)
EXTENDS SmxSem

CONSTANTS t1, t2, idle, rsrc, bevent, thres, gate

MCInitPri    == (t1 :> 2) @@ (t2 :> 3) @@ (idle :> 0)
MCInitPriTmo == MCInitPri
MCBumps      == {<<t2, 1>>}
MCCeil       == <<>>
MCMode       == (rsrc :> "RSRC") @@ (bevent :> "EVENT")
                @@ (thres :> "THRES") @@ (gate :> "GATE")
MCLim        == (rsrc :> 1) @@ (bevent :> 1) @@ (thres :> 2) @@ (gate :> 0)

VARIABLE used   \* bound: the one semaphore this behaviour uses

MCInit == SemInit /\ used \in Sems

MCNext == /\ SemScheduler \/ SemSSR(used) \/ OtherSSR
          /\ UNCHANGED used

\* What tells states apart: no action and no property of the runs reads begun,
\* nor whether a task is RUN or READY.
MCView == <<[k EXCEPT !.begun = {}, !.state = {t \in Tasks : k.state[t] = "WAIT"}],
            ct, pc, count, held, call, used>>

MCSpec == MCInit /\ [][MCNext]_<<semVars, used>>
=============================================================================
