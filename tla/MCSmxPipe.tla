------------------------------ MODULE MCSmxPipe -----------------------------
(***************************************************************************)
(* A pipe that tasks put into and ISRs get from, one packet at a time.     *)
(***************************************************************************)
EXTENDS SmxPipe

MCInit == PipeInit /\ isr = "get"

MCNext == PipeStep \/ WaitCalls \/ OtherCalls \/ IsrCalls

MCSpec == MCInit /\ [][MCNext]_pipeVars
=============================================================================
