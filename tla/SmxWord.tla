------------------------------ MODULE SmxWord -------------------------------
(***************************************************************************)
(* The width of a time.  smx counts ticks in u32 variables; Half stands    *)
(* for 0x80000000, so that an instance can be small.                       *)
(***************************************************************************)
EXTENDS Integers

CONSTANT Half

ASSUME WordAssumption == Half \in Nat \ {0, 1}

Word == 2 * Half

INF == Word - 1       \* SMX_TMO_INF, 0xFFFFFFFF
=============================================================================
