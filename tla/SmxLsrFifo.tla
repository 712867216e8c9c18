----------------------------- MODULE SmxLsrFifo -----------------------------
(***************************************************************************)
(* What the LSR (link service routine) queue of smx promises its users:    *)
(* an invocation that is accepted is run exactly once, in the order in     *)
(* which the invocations were accepted, one LSR at a time, and at most     *)
(* Capacity invocations wait.  SmxLsr implements this specification with   *)
(* the cyclic buffer lqi..lqx of src/XSMX/xlsr.c and src/XSMX/xsched.c.    *)
(***************************************************************************)
EXTENDS Naturals, Sequences

CONSTANTS Lsrs,       \* the LSRs, each standing for a handle and a parameter
          NoLsr,      \* smx_clsr = NULL: no LSR is running
          Capacity    \* SMX_SIZE_LQ

VARIABLES pending,    \* the accepted invocations, oldest first
          running     \* smx_clsr

fifoVars == <<pending, running>>

FifoTypeOK == /\ pending \in Seq(Lsrs)
              /\ Len(pending) <= Capacity
              /\ running \in Lsrs \union {NoLsr}

FifoInit == pending = <<>> /\ running = NoLsr

\* smx_LSRInvoke() and smx_LSRInvokeF(): refused when the queue is full.
Accept(l) == /\ Len(pending) < Capacity
             /\ pending' = Append(pending, l)
             /\ UNCHANGED running

\* smx_SchedRunLSRs() takes the oldest invocation and runs it.
Start == /\ running = NoLsr
         /\ pending # <<>>
         /\ running' = Head(pending)
         /\ pending' = Tail(pending)

\* The LSR returns.
Finish == running # NoLsr /\ running' = NoLsr /\ UNCHANGED pending

FifoNext == (\E l \in Lsrs : Accept(l)) \/ Start \/ Finish

FifoSpec == FifoInit /\ [][FifoNext]_fifoVars
=============================================================================
