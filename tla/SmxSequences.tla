----------------------------- MODULE SmxSequences ---------------------------
(***************************************************************************)
(* A queue of tasks, or of other control blocks, linked in both ways.      *)
(***************************************************************************)
EXTENDS Integers, SequencesExt

\* The queue s without t, which is in it once at most.
Without(s, t) ==
    IF Contains(s, t) THEN RemoveAt(s, CHOOSE i \in DOMAIN s : s[i] = t) ELSE s
=============================================================================
