---------------------------- MODULE SmxEventGroup ---------------------------
(***************************************************************************)
(* Event groups (src/XSMX/xeg.c): tasks that wait for any or all of a set  *)
(* of flags, or for a disjunction of conjunctions of them.                 *)
(*                                                                         *)
(* A set of bits is a set of numbers.  An and/or mask is written with a 0  *)
(* between its terms; the bits behind it stand for the flags one lower for *)
(* each term before them, so that 1011 asks for flags 0 and 1, or flag 2.  *)
(***************************************************************************)
EXTENDS SmxTask

CONSTANTS Width,  \* the bits of a word: 32
          Flags,  \* bound: the flags in use
          Tests   \* bound: the tests tasks make, records of a mode, a test
                  \* mask and a post-clear mask

Bits == 0..Width - 1

ASSUME EventGroupAssumption ==
    /\ Width \in Nat \ {0}
    /\ Flags \subseteq Bits
    /\ Tests \subseteq [mode : {"OR", "AND", "ANDOR"}, mask : (SUBSET Bits) \ {{}},
                        clear : SUBSET Bits]

VARIABLES made,    \* whether the group exists
          flags,   \* eg->flags
          waiters  \* the queue of the group, first come first served: each
                   \* task and what it tests (sv, sv2, ef_and, ef_andor)

egVars == <<made, flags, waiters>>

WaitsForFlags(c) == \E i \in DOMAIN waiters : waiters[i].task = c

EventGroupInit == made = FALSE /\ flags = {} /\ waiters = <<>>

-----------------------------------------------------------------------------
(* Testing. *)

\* mask >>= 1
ShiftRight(mask) == {b - 1 : b \in mask \ {0}}

(***************************************************************************)
(* One turn of the loop of andor_test(), whose variables s has: the first  *)
(* term at or above probe, up to the next 0 of the mask.                   *)
(***************************************************************************)
AndOrTurn(s) ==
    LET first == Min({b \in s.mask : b >= s.probe})
        next  == Min({b \in first..Width : b \notin s.mask})
        term  == first..next - 1
    IN  [flags |-> s.flags \ term, mask |-> ShiftRight(s.mask \ term), probe |-> next,
         save  |-> IF term \subseteq s.flags THEN s.save \union term ELSE s.save]

\* The loop after each turn; each takes one bit of the mask at least.
AndOrLoop(f, mask) ==
    LET loop[k \in 0..Width] ==
            IF k = 0 THEN [flags |-> f, mask |-> mask, probe |-> 0, save |-> {}]
            ELSE LET s == loop[k - 1]
                 IN  IF s.flags = {} \/ s.mask = {} THEN s ELSE AndOrTurn(s)
    IN  loop

\* The flags that satisfy the test w, none if it fails.
Selected(f, w) ==
    IF w.mode = "ANDOR" THEN AndOrLoop(f, w.mask)[Width].save
    ELSE IF w.mode = "AND" /\ ~(w.mask \subseteq f) THEN {}
    ELSE f \intersect w.mask

-----------------------------------------------------------------------------
(* Setting flags. *)

\* Mutant: a task that is resumed takes the flags it clears from those behind it.
Search_AtOnce(f) ==
    FoldLeft(LAMBDA r, w : LET s == Selected(r.flags, w.test)
                           IN  IF s = {} THEN [r EXCEPT !.waiters = Append(@, w)]
                               ELSE [r EXCEPT !.flags = @ \ (s \intersect w.test.clear)],
             [flags |-> f, waiters |-> <<>>], waiters)

\* The waiters up to the i-th whose tests fail.
Failing(f) ==
    LET left[i \in 0..Len(waiters)] ==
            IF i = 0 THEN <<>>
            ELSE IF Selected(f, waiters[i].test) = {} THEN Append(left[i - 1], waiters[i])
            ELSE left[i - 1]
    IN  left

\* smx_EventFlagsSearch_F(eg): all waiters test the same flags, and what they
\* clear is cleared after the last one.
Search(f) ==
    [flags   |-> f \ UNION {Selected(f, w.test) \intersect w.test.clear : w \in Range(waiters)},
     waiters |-> Failing(f)[Len(waiters)]]

\* smx_EventFlagsSet(eg, set_mask, pre_clear_mask)
EventFlagsSet(set, pre) ==
    LET f   == flags \ pre
        new == set \ f
        r   == IF new = {} THEN [flags |-> f, waiters |-> waiters] ELSE Search(f \union new)
    IN  flags' = r.flags /\ waiters' = r.waiters

\* smx_EventFlagsPulse(eg, pulse_mask)
EventFlagsPulse(pulse) ==
    LET new == pulse \ flags
        r   == IF new = {} THEN [flags |-> flags, waiters |-> waiters]
               ELSE Search(flags \union new)
    IN  flags' = r.flags \ new /\ waiters' = r.waiters

-----------------------------------------------------------------------------

\* smx_EventGroupCreate(init_mask, name, eghp)
EventGroupCreate(init) == /\ ~made
                          /\ made' = TRUE
                          /\ flags' = init
                          /\ UNCHANGED waiters

\* smx_EventGroupDelete(eghp): the waiters are resumed, the block is cleared.
EventGroupDelete == made' = FALSE /\ flags' = {} /\ waiters' = <<>>

\* smx_EventFlagsTest() and smx_EventFlagsTestStop(); a test that fails and may
\* not wait changes nothing.
EventFlagsTest(c, w) ==
    /\ ~WaitsForFlags(c)
    /\ LET s == Selected(flags, w)
       IN  \/ s # {} /\ flags' = flags \ (s \intersect w.clear) /\ UNCHANGED waiters
           \/ /\ s = {}
              /\ c # Lsr
              /\ waiters' = Append(waiters, [task |-> c, test |-> w])
              /\ UNCHANGED flags

\* smx_EventGroupClear(eg, init_mask)
EventGroupClear(init) == flags' = init /\ waiters' = <<>>

\* A timeout or a task SSR takes a waiter out of the queue.
EventWaitEnds(i) == waiters' = RemoveAt(waiters, i) /\ UNCHANGED flags

\* A call is refused when the group does not exist.
EventGroupCall ==
    /\ made
    /\ \/ \E m \in SUBSET Flags : EventGroupClear(m) \/ EventFlagsPulse(m)
       \/ \E m, pre \in SUBSET Flags : EventFlagsSet(m, pre)
       \/ \E c \in Tasks \union {Lsr}, w \in Tests : EventFlagsTest(c, w)
       \/ \E i \in DOMAIN waiters : EventWaitEnds(i)
    /\ UNCHANGED made

EventGroupNext == \/ EventGroupCall
                  \/ \E m \in SUBSET Flags : EventGroupCreate(m)
                  \/ made /\ EventGroupDelete

EventGroupSpec == EventGroupInit /\ [][EventGroupNext]_egVars

-----------------------------------------------------------------------------
(* Properties. *)

\* The lowest bits of the terms of an and/or mask.
TermStarts(mask) == {b \in mask : b - 1 \notin mask}

\* The flags that the term which starts at b stands for.
Term(mask, b) ==
    LET run == {c \in mask : c >= b /\ b..c \subseteq mask}
    IN  {c - Cardinality({d \in TermStarts(mask) : d < b}) : c \in run}

\* What a test asks for, without the loops of the code.
Holds(f, w) == CASE w.mode = "OR"    -> f \intersect w.mask # {}
                 [] w.mode = "AND"   -> w.mask \subseteq f
                 [] w.mode = "ANDOR" -> \E b \in TermStarts(w.mask) : Term(w.mask, b) \subseteq f

(***************************************************************************)
(* No event is missed: after flags have been set or pulsed, no task waits  *)
(* whose test the flags satisfied, although other tasks that were resumed  *)
(* have cleared flags it tested, although the search is left out when no   *)
(* flag is new, and although waiters come and go in between.               *)
(***************************************************************************)
NoMissedEvent ==
    [][LET Missed(f) == \E i \in DOMAIN waiters' : Holds(f, waiters'[i].test)
       IN  \A m \in SUBSET Flags :
              /\ Missed(flags \union m) => ~EventFlagsPulse(m)
              /\ \A pre \in SUBSET Flags :
                    Missed((flags \ pre) \union m) => ~EventFlagsSet(m, pre)]_egVars
=============================================================================
