------------------------------- MODULE SmxTask ------------------------------
(***************************************************************************)
(* What messages, pipes, event groups and event queues know of the tasks.  *)
(*                                                                         *)
(* SmxKernel has the scheduler.  Here any task that does not wait may be   *)
(* the current one and make the next call: it takes only that preemptions  *)
(* come at the wrong moment for a task of any priority to do so.           *)
(***************************************************************************)
EXTENDS Naturals, FiniteSets, SmxSequences

CONSTANTS Tasks,
          Lsr,     \* smx_clsr, when an LSR makes a call
          None     \* NULL

ASSUME TaskAssumption == /\ IsFiniteSet(Tasks)
                         /\ Lsr \notin Tasks
                         /\ None \notin Tasks \union {Lsr}
=============================================================================
