---------------------------- MODULE MCSmxKernel -----------------------------
(***************************************************************************)
(* An instance of SmxKernel: two tasks besides the idle task, without      *)
(* semaphores or mutexes.                                                  *)
(***************************************************************************)
EXTENDS SmxKernel

CONSTANTS t1, t2, idle

MCInitPri    == (t1 :> 1) @@ (t2 :> 2) @@ (idle :> 0)
MCInitPriTmo == (t1 :> 2) @@ (t2 :> 1) @@ (idle :> 0)
MCCeil       == <<>>
=============================================================================
