------------------------------ MODULE MCSmxLsr ------------------------------
(***************************************************************************)
(* Instances of SmxLsr: a buffer of two or three cells, one or two LSRs,   *)
(* ISRs nested up to two deep.  The values are in the .cfg files.          *)
(***************************************************************************)
EXTENDS SmxLsr, TLC
=============================================================================
