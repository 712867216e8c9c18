------------------------------- MODULE SmxLsr -------------------------------
(***************************************************************************)
(* The LSR service of smx: interrupt service routines and tasks invoke     *)
(* LSRs through a cyclic buffer, and smx_PendSV_Handler(), PSVH(), runs    *)
(* them.  The module models who looks at the buffer and when:              *)
(*                                                                         *)
(*   - ISRs may nest and may come between any two steps of the rest, save  *)
(*     inside the sections the code protects with sb_INT_DISABLE(): each   *)
(*     of those is one action here;                                        *)
(*   - smx_srnest > 0 keeps PSVH() from being triggered by an ISR, so      *)
(*     whoever lowers it to 0 must look at smx_lqctr first;                *)
(*   - PSVH() takes an entry in two steps, smx_lqctr-- with interrupts     *)
(*     disabled and the read of *smx_lqout with interrupts enabled.        *)
(*                                                                         *)
(* What the task scheduler decides is left out (SmxKernel models it); here *)
(* PSVH() passes from its LSR loop to its tail.  Safe LSRs, which return   *)
(* to PSVH() through an exception, are run like trusted ones.              *)
(***************************************************************************)
EXTENDS Naturals, Sequences

CONSTANTS Lsrs,       \* the LSRs that are invoked (handle and parameter)
          NoLsr,      \* a null handle
          SIZE_LQ,    \* SMX_SIZE_LQ, the number of cells
          MaxLoad,    \* the application leaves fewer invocations than this
          MaxIsr,     \* bound: how deep ISRs nest
          EhPre       \* a heap has a mutex: smx_MutexGetFast() is called

ASSUME LsrAssumption == /\ NoLsr \notin Lsrs
                        /\ SIZE_LQ \in Nat \ {0}
                        /\ MaxLoad \in Nat
                        /\ MaxIsr \in Nat \ {0}
                        /\ EhPre \in BOOLEAN

VARIABLES lq,         \* cells lqi..lqx
          lqin,       \* next cell to write
          lqout,      \* next cell to read
          lqctr,      \* smx_lqctr
          clsr,       \* smx_clsr
          srnest,     \* smx_srnest
          saved,      \* smx_ct->srnest, kept by smx_SSRExitIF()
          pend,       \* PENDSVSET: PSVH() will be entered
          isr,        \* the number of active ISRs
          hpc,        \* where PSVH() is: idle, psv, take, lsr, tail
          tpc         \* where the task is: task, ssr, fast, fastret, fastdec

queue == <<lq, lqin, lqout, lqctr>>
vars  == <<lq, lqin, lqout, lqctr, clsr, srnest, saved, pend, isr, hpc, tpc>>

Cells == 0..(SIZE_LQ - 1)

\* smx_srnest counts one level for smx_LSRsOff() and one for an SSR.
MaxNest == 2

TypeOK == /\ lq \in [Cells -> Lsrs \union {NoLsr}]
          /\ lqin \in Cells
          /\ lqout \in Cells
          /\ lqctr \in 0..SIZE_LQ
          /\ clsr \in Lsrs \union {NoLsr}
          /\ srnest \in 0..MaxNest
          /\ saved \in 0..MaxNest
          /\ pend \in BOOLEAN
          /\ isr \in 0..MaxIsr
          /\ hpc \in {"idle", "psv", "take", "lsr", "tail"}
          /\ tpc \in {"task", "ssr", "fast", "fastret", "fastdec"}

Init == /\ lq = [c \in Cells |-> NoLsr]
        /\ lqin = 0
        /\ lqout = 0
        /\ lqctr = 0
        /\ clsr = NoLsr
        /\ srnest = 0
        /\ saved = 0
        /\ pend = FALSE
        /\ isr = 0
        /\ hpc = "idle"
        /\ tpc = "task"

-----------------------------------------------------------------------------
(* The buffer. *)

\* Mutant: the wrap around smx_lqx is forgotten.
NextCell_NoWrap(c) == c + 1

NextCell(c) == IF c = SIZE_LQ - 1 THEN 0 ELSE c + 1

(***************************************************************************)
(* smx_LSRInvokeF(), and the same statements in smx_LSRInvoke(): a full    *)
(* queue refuses the invocation and reports SMXE_LQ_OVFL, which changes    *)
(* nothing here.  MaxLoad bounds what the application leaves waiting.      *)
(***************************************************************************)
Invoke(l) == /\ lqctr < MaxLoad
             /\ lqctr < SIZE_LQ
             /\ lqctr' = lqctr + 1
             /\ lq' = [lq EXCEPT ![lqin] = l]
             /\ lqin' = NextCell(lqin)
             /\ UNCHANGED lqout

-----------------------------------------------------------------------------
(* Interrupt service routines, which may run between any two other steps. *)

ISREnter == /\ isr < MaxIsr
            /\ isr' = isr + 1
            /\ UNCHANGED <<queue, clsr, srnest, saved, pend, hpc, tpc>>

ISRInvoke(l) == /\ isr > 0
                /\ Invoke(l)
                /\ UNCHANGED <<clsr, srnest, saved, pend, isr, hpc, tpc>>

\* Mutant: the outermost ISR returns without looking at smx_lqctr.
ISRExit_NoTrigger == /\ isr > 0
                     /\ isr' = isr - 1
                     /\ UNCHANGED <<queue, clsr, srnest, saved, pend, hpc, tpc>>

(***************************************************************************)
(* smx_ISRExit(): only the outermost ISR (RETTOBASE, hence not one that    *)
(* interrupted PSVH()) looks at smx_srnest and smx_lqctr.  FAULTMASK keeps *)
(* its last instructions from being interrupted.                           *)
(***************************************************************************)
ISRExit == /\ isr > 0
           /\ isr' = isr - 1
           /\ LET outermost == isr = 1 /\ hpc = "idle"
                  trigger   == outermost /\ srnest = 0 /\ lqctr > 0
              IN  /\ srnest' = IF trigger THEN 1 ELSE srnest
                  /\ pend' = (pend \/ trigger)
           /\ UNCHANGED <<queue, clsr, saved, hpc, tpc>>

-----------------------------------------------------------------------------
(* Task level code runs when no exception is active or pending. *)

TaskLevel == isr = 0 /\ ~pend /\ hpc = "idle"

\* Any SSR: smx_SSREnter0..7() increment smx_srnest.
SSREnter == /\ TaskLevel
            /\ tpc = "task"
            /\ srnest' = srnest + 1
            /\ tpc' = "ssr"
            /\ UNCHANGED <<queue, clsr, saved, pend, isr, hpc>>

\* The body of smx_LSRInvoke(), called by a task.
LSRInvoke(l) == /\ TaskLevel
                /\ tpc = "ssr"
                /\ Invoke(l)
                /\ UNCHANGED <<clsr, srnest, saved, pend, isr, hpc, tpc>>

(***************************************************************************)
(* smx_SSRExit(): the outermost SSR triggers PSVH() if the SSR set         *)
(* smx_sched or if LSRs wait, and otherwise clears smx_srnest, all with    *)
(* interrupts disabled.                                                    *)
(***************************************************************************)
SSRExit(sched) ==
    /\ TaskLevel
    /\ tpc = "ssr"
    /\ tpc' = "task"
    /\ LET trigger == srnest = 1 /\ (sched \/ lqctr > 0)
       IN  /\ pend' = trigger
           /\ srnest' = IF trigger THEN srnest ELSE srnest - 1
    /\ UNCHANGED <<queue, clsr, saved, isr, hpc>>

\* smx_LSRsOff(), called by a task.
LSRsOff == /\ TaskLevel
           /\ tpc = "task"
           /\ srnest = 0
           /\ srnest' = 1
           /\ UNCHANGED <<queue, clsr, saved, pend, isr, hpc, tpc>>

\* smx_LSRsOn(): an SSR that takes back the level of smx_LSRsOff().
LSRsOn == /\ TaskLevel
          /\ tpc = "task"
          /\ srnest = 1
          /\ tpc' = "ssr"
          /\ UNCHANGED <<queue, clsr, srnest, saved, pend, isr, hpc>>

(***************************************************************************)
(* smx_MutexGetFast() and smx_MutexRelFast() raise smx_srnest themselves   *)
(* and leave through smx_SSRExitIF().  smx_HeapEnter() and smx_HeapExit()  *)
(* call them outside of any SSR when the heap has a mutex.                 *)
(***************************************************************************)
FastEnter == /\ EhPre
             /\ TaskLevel
             /\ tpc = "task"
             /\ srnest' = srnest + 1
             /\ tpc' = "fast"
             /\ UNCHANGED <<queue, clsr, saved, pend, isr, hpc>>

\* smx_SSRExitIF() up to the point where interrupts are enabled again.
FastExitTest(sched) ==
    /\ TaskLevel
    /\ tpc = "fast"
    /\ IF sched \/ (srnest = 1 /\ lqctr > 0)
         THEN /\ saved' = srnest
              /\ srnest' = 1
              /\ pend' = TRUE
              /\ tpc' = "fastret"
         ELSE /\ tpc' = "fastdec"
              /\ UNCHANGED <<saved, srnest, pend>>
    /\ UNCHANGED <<queue, clsr, isr, hpc>>

\* PSVH() came back: smx_srnest = smx_ct->srnest.
FastResume == /\ TaskLevel
              /\ tpc = "fastret"
              /\ srnest' = saved
              /\ saved' = 0
              /\ tpc' = "fastdec"
              /\ UNCHANGED <<queue, clsr, pend, isr, hpc>>

\* The last statement of smx_SSRExitIF(): smx_srnest--.
FastExitDone == /\ TaskLevel
                /\ tpc = "fastdec"
                /\ srnest' = srnest - 1
                /\ tpc' = "task"
                /\ UNCHANGED <<queue, clsr, saved, pend, isr, hpc>>

-----------------------------------------------------------------------------
(* smx_PendSV_Handler() and smx_SchedRunLSRs(). *)

PsvEnter == /\ pend
            /\ isr = 0
            /\ hpc = "idle"
            /\ pend' = FALSE
            /\ hpc' = "psv"
            /\ UNCHANGED <<queue, clsr, srnest, saved, isr, tpc>>

\* while (smx_lqctr) ... smx_lqctr--; sb_INT_ENABLE();
TakeLsr == /\ isr = 0
           /\ hpc = "psv"
           /\ lqctr > 0
           /\ lqctr' = lqctr - 1
           /\ hpc' = "take"
           /\ UNCHANGED <<lq, lqin, lqout, clsr, srnest, saved, pend, isr, tpc>>

\* Mutant: smx_lqout is not advanced.
StartLsr_Stay == /\ isr = 0
                 /\ hpc = "take"
                 /\ clsr' = lq[lqout]
                 /\ hpc' = "lsr"
                 /\ UNCHANGED <<queue, srnest, saved, pend, isr, tpc>>

\* Mutant: smx_lqout is advanced before the cell is read.
StartLsr_Late == /\ isr = 0
                 /\ hpc = "take"
                 /\ lqout' = NextCell(lqout)
                 /\ clsr' = lq[lqout']
                 /\ hpc' = "lsr"
                 /\ UNCHANGED <<lq, lqin, lqctr, srnest, saved, pend, isr, tpc>>

\* smx_clsr = smx_lqout->lsr; smx_lqout++ around smx_lqx; the LSR is called.
StartLsr == /\ isr = 0
            /\ hpc = "take"
            /\ clsr' = lq[lqout]
            /\ lqout' = NextCell(lqout)
            /\ hpc' = "lsr"
            /\ UNCHANGED <<lq, lqin, lqctr, srnest, saved, pend, isr, tpc>>

\* The running LSR invokes an LSR: smx_TimeoutLSR from smx_KeepTimeLSRMain().
LsrInvoke(l) == /\ isr = 0
                /\ hpc = "lsr"
                /\ Invoke(l)
                /\ UNCHANGED <<clsr, srnest, saved, pend, isr, hpc, tpc>>

LsrReturn == /\ isr = 0
             /\ hpc = "lsr"
             /\ clsr' = NoLsr
             /\ hpc' = "psv"
             /\ UNCHANGED <<queue, srnest, saved, pend, isr, tpc>>

\* No LSR waits: PSVH() makes its scheduling decision and reaches its tail.
PsvSched == /\ isr = 0
            /\ hpc = "psv"
            /\ lqctr = 0
            /\ hpc' = "tail"
            /\ UNCHANGED <<queue, clsr, srnest, saved, pend, isr, tpc>>

\* Mutant: smx_srnest is cleared before the flyback test.
PsvTail_Early == /\ isr = 0
                 /\ hpc = "tail"
                 /\ srnest' = 0
                 /\ hpc' = IF lqctr > 0 THEN "psv" ELSE "idle"
                 /\ UNCHANGED <<queue, clsr, saved, pend, isr, tpc>>

\* Mutant: the tail has no flyback.
PsvTail_NoFlyback == /\ isr = 0
                     /\ hpc = "tail"
                     /\ srnest' = 0
                     /\ hpc' = "idle"
                     /\ UNCHANGED <<queue, clsr, saved, pend, isr, tpc>>

\* The tail, psv16: LSR flyback to the top, or smx_srnest = 0 and return.
PsvTail == /\ isr = 0
           /\ hpc = "tail"
           /\ IF lqctr > 0
                THEN hpc' = "psv" /\ UNCHANGED srnest
                ELSE hpc' = "idle" /\ srnest' = 0
           /\ UNCHANGED <<queue, clsr, saved, pend, isr, tpc>>

-----------------------------------------------------------------------------

ISR == ISREnter \/ ISRExit \/ \E l \in Lsrs : ISRInvoke(l)

\* A task leaves the SSR or the fast mutex function it is in.
TaskProgress == \/ \E sched \in BOOLEAN : SSRExit(sched) \/ FastExitTest(sched)
                \/ FastResume \/ FastExitDone

Task == \/ SSREnter \/ FastEnter \/ LSRsOff \/ LSRsOn
        \/ \E l \in Lsrs : LSRInvoke(l)
        \/ TaskProgress

\* What PSVH() does by itself.
PsvProgress == PsvEnter \/ TakeLsr \/ StartLsr \/ LsrReturn \/ PsvSched \/ PsvTail

Psv == PsvProgress \/ \E l \in Lsrs : LsrInvoke(l)

Next == ISR \/ Task \/ Psv

Spec == Init /\ [][Next]_vars

(***************************************************************************)
(* Fairness: interrupts keep coming (the tick does) and every active ISR   *)
(* returns, those that interrupt it notwithstanding (strong fairness);     *)
(* they do not take all of the processor's time, so that PSVH() and the    *)
(* task run again and again if they can (strong fairness); a task that     *)
(* called an SSR, smx_MutexGetFast() or smx_LSRsOff() goes on to the       *)
(* matching exit.                                                          *)
(***************************************************************************)
Fairness == /\ WF_vars(ISREnter)
            /\ \A d \in 1..MaxIsr : SF_vars(isr = d /\ ISRExit)
            /\ SF_vars(PsvProgress)
            /\ SF_vars(TaskProgress)
            /\ SF_vars(LSRsOn)

FairSpec == Spec /\ Fairness

-----------------------------------------------------------------------------
(* Properties. *)

\* 1 while PSVH() has counted an entry out of the buffer and not read it yet.
Taken == IF hpc = "take" THEN 1 ELSE 0

\* The cell k places after lqout, cyclically, for k up to SIZE_LQ.
CellAt(k) == IF lqout + k >= SIZE_LQ THEN lqout + k - SIZE_LQ ELSE lqout + k

(***************************************************************************)
(* The two pointers and the counter agree: lqin is lqctr cells after       *)
(* lqout, cyclically, counting the cell that is being taken.  xlsr.c and   *)
(* xsched.c each move one pointer and both change the counter.             *)
(***************************************************************************)
RingConsistent == lqin = CellAt(lqctr + Taken)

(***************************************************************************)
(* The buffer never holds more unread invocations than it has cells, so    *)
(* that no accepted invocation is overwritten before PSVH() has read it    *)
(* (xlsr.c:172-175: a full lq reports SMXE_LQ_OVFL).                       *)
(***************************************************************************)
NoUnreadOverwritten == lqctr + Taken <= SIZE_LQ

(***************************************************************************)
(* No LSR is stranded: while an invocation waits, someone is still going   *)
(* to look at smx_lqctr: PSVH() is pending or running, an outermost ISR or *)
(* an SSR has its exit test still to come, or LSRs are off.  Otherwise the *)
(* LSR would wait for the next interrupt or SSR (xsched.c:162-163: "LSR    *)
(* flybacks ensure that LSRs run quickly after being invoked").            *)
(***************************************************************************)
NoStrandedLsr ==
    lqctr > 0 => pend \/ hpc # "idle" \/ isr > 0 \/ srnest > 0

(***************************************************************************)
(* What the code does guarantee: no step but the last one of               *)
(* smx_SSRExitIF() strands an LSR.  ISR exits, SSR exits, PSVH() and       *)
(* smx_LSRsOn() all leave no window between their test of smx_lqctr and    *)
(* the moment an ISR could see smx_srnest = 0.                             *)
(***************************************************************************)
StrandedOnlyBySSRExitIF ==
    [][NoStrandedLsr /\ ~NoStrandedLsr' => tpc = "fastdec"]_vars

(***************************************************************************)
(* smx_srnest, which keeps PSVH() from being triggered by an ISR, is at    *)
(* least 1 whenever PSVH() is pending or running: it is never triggered    *)
(* while it is already in progress.                                        *)
(***************************************************************************)
PsvGuarded == pend \/ hpc # "idle" => srnest > 0 /\ ~(pend /\ hpc # "idle")

(***************************************************************************)
(* Invocations are run exactly once, in the order in which they were       *)
(* accepted.  The counter is decremented before the cell is read, so the   *)
(* cell being taken is the one the abstract queue already calls running.   *)
(***************************************************************************)
Waiting == [k \in 1..lqctr |-> lq[CellAt(k - 1 + Taken)]]

Running == IF hpc = "take" THEN lq[lqout] ELSE clsr

Fifo == INSTANCE SmxLsrFifo WITH
          Capacity <- SIZE_LQ, pending <- Waiting, running <- Running

ImplementsFifo == Fifo!FifoSpec

(***************************************************************************)
(* Every accepted invocation is eventually taken: the counter does not     *)
(* stay above 0 without PSVH() starting an LSR.                            *)
(***************************************************************************)
LsrsRun == lqctr > 0 ~> hpc = "lsr"
=============================================================================
