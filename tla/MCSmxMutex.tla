----------------------------- MODULE MCSmxMutex -----------------------------
(***************************************************************************)
(* An instance of SmxMutex: three tasks of different priority besides the  *)
(* idle task, a mutex with priority inheritance and one with a ceiling.    *)
(***************************************************************************)
EXTENDS SmxMutex

CONSTANTS t1, t2, t3, idle, m1, m2, Ceil1, Ceil2

MCInitPri    == (t1 :> 1) @@ (t2 :> 2) @@ (t3 :> 3) @@ (idle :> 0)
MCInitPriTmo == (t1 :> 3) @@ (t2 :> 2) @@ (t3 :> 3) @@ (idle :> 0)
MCCeil       == (m1 :> Ceil1) @@ (m2 :> Ceil2)
MCBumps      == {<<t3, 1>>, <<t1, 2>>}
MCMaxNest    == (m1 :> 2) @@ (m2 :> 1)
MCRank       == (m1 :> 1) @@ (m2 :> 2)

\* What tells states apart.  No property of the runs reads task->rv, begun, sp
\* or whether a task is RUN or READY, and what the actions read them for is
\* nothing else: resuming and starting differ in them only, and smx_ReQTask()
\* treats RUN and READY alike.  (StartLocked is empty.)
MCView == <<[k EXCEPT !.rv = <<>>, !.begun = {}, !.sp = <<>>,
                      !.state = {t \in Tasks : k.state[t] = "WAIT"}],
            ct, pc, ncnt, mol, nested>>
=============================================================================
