---------------------------- MODULE SmxLsrProofs ----------------------------
(***************************************************************************)
(* Theorems about SmxLsr, for every number of cells, every set of LSRs and *)
(* every depth of ISR nesting.                                             *)
(*                                                                         *)
(* Two invariants carry them: Control relates smx_srnest to where PSVH()   *)
(* and the task are, and Buffer, which holds when the application keeps    *)
(* one cell of the buffer free, describes the cells that are in use.       *)
(***************************************************************************)
EXTENDS SmxLsr, TLAPS

\* smx_srnest is above 0 inside an SSR and inside a fast mutex function, and
\* exactly 1 while PSVH() is pending or running.
Control ==
    /\ tpc = "task" => srnest <= 1
    /\ tpc = "fastret" => srnest <= 1 /\ saved > 0
    /\ tpc \in {"ssr", "fast", "fastdec"} => srnest > 0
    /\ tpc \in {"ssr", "fast", "fastdec"} => ~pend /\ hpc = "idle"
    /\ pend \/ hpc # "idle" => srnest = 1
    /\ ~(pend /\ hpc # "idle")
    /\ hpc \in {"idle", "psv", "take", "tail"} => clsr = NoLsr

CInv == TypeOK /\ Control

LEMMA InitControl == Init => CInv
  <1> SUFFICES ASSUME Init PROVE CInv
    OBVIOUS
  <1>1. pend \in BOOLEAN /\ ~pend
    BY Zenon DEF Init
  <1> QED
    BY <1>1, LsrAssumption, SMT DEF Init, CInv, TypeOK, Control, Cells, MaxNest

LEMMA NextCellInCells == ASSUME NEW c \in Cells PROVE NextCell(c) \in Cells
  BY LsrAssumption, SMT DEF Cells, NextCell

\* An invocation keeps the types of the queue's variables.
LEMMA InvokeType ==
  ASSUME TypeOK, NEW l \in Lsrs, Invoke(l)
  PROVE  /\ lq' \in [Cells -> Lsrs \union {NoLsr}]
         /\ lqin' \in Cells
         /\ lqout' = lqout
         /\ lqctr' \in 0..SIZE_LQ
  BY LsrAssumption, NextCellInCells, SMT DEF TypeOK, Invoke

\* Control does not mention the buffer: a step that changes only the buffer
\* keeps it.
LEMMA InvokeControl ==
  ASSUME CInv, NEW l \in Lsrs, Invoke(l),
         UNCHANGED <<clsr, srnest, saved, pend, isr, hpc, tpc>>
  PROVE  CInv'
  <1>1. TypeOK'
    BY InvokeType, SMT DEF CInv, TypeOK, MaxNest
  <1>2. Control'
    BY SMT DEF CInv, Control
  <1> QED BY <1>1, <1>2 DEF CInv

LEMMA NextControl == CInv /\ [Next]_vars => CInv'
  <1> SUFFICES ASSUME CInv, [Next]_vars PROVE CInv'
    OBVIOUS
  <1> USE LsrAssumption DEF CInv, TypeOK, Control, MaxNest, queue, TaskLevel
  <1>1. CASE ISREnter
    BY <1>1, SMT DEF ISREnter
  <1>2. CASE ISRExit
    BY <1>2, SMT DEF ISRExit
  <1>3. CASE \E l \in Lsrs : ISRInvoke(l)
    BY <1>3, InvokeControl DEF ISRInvoke
  <1>4. CASE SSREnter
    BY <1>4, SMT DEF SSREnter
  <1>5. CASE FastEnter
    BY <1>5, SMT DEF FastEnter
  <1>6. CASE LSRsOff
    BY <1>6, SMT DEF LSRsOff
  <1>7. CASE LSRsOn
    BY <1>7, SMT DEF LSRsOn
  <1>8. CASE \E l \in Lsrs : LSRInvoke(l)
    BY <1>8, InvokeControl DEF LSRInvoke
  <1>9. CASE \E sched \in BOOLEAN : SSRExit(sched)
    BY <1>9, SMT DEF SSRExit
  <1>10. CASE \E sched \in BOOLEAN : FastExitTest(sched)
    <2>1. pend' \in BOOLEAN
      BY <1>10, Zenon DEF FastExitTest
    <2> QED BY <1>10, <2>1, SMT DEF FastExitTest
  <1>11. CASE FastResume
    BY <1>11, SMT DEF FastResume
  <1>12. CASE FastExitDone
    BY <1>12, SMT DEF FastExitDone
  <1>13. CASE PsvEnter
    <2>1. pend' \in BOOLEAN /\ ~pend'
      BY <1>13, Zenon DEF PsvEnter
    <2> QED BY <1>13, <2>1, SMT DEF PsvEnter
  <1>14. CASE TakeLsr
    BY <1>14, SMT DEF TakeLsr
  <1>15. CASE StartLsr
    BY <1>15, NextCellInCells, SMT DEF StartLsr
  <1>16. CASE LsrReturn
    BY <1>16, SMT DEF LsrReturn
  <1>17. CASE PsvSched
    BY <1>17, SMT DEF PsvSched
  <1>18. CASE PsvTail
    BY <1>18, SMT DEF PsvTail
  <1>19. CASE \E l \in Lsrs : LsrInvoke(l)
    BY <1>19, InvokeControl DEF LsrInvoke
  <1>20. CASE UNCHANGED vars
    BY <1>20 DEF vars
  <1> QED
    BY <1>1, <1>2, <1>3, <1>4, <1>5, <1>6, <1>7, <1>8, <1>9, <1>10, <1>11,
       <1>12, <1>13, <1>14, <1>15, <1>16, <1>17, <1>18, <1>19, <1>20
       DEF Next, ISR, Task, TaskProgress, Psv, PsvProgress

(***************************************************************************)
(* The variables keep their types: in particular smx_lqctr stays within    *)
(* the buffer's size and smx_srnest within 0..2.                           *)
(***************************************************************************)
THEOREM TypeCorrect == Spec => []TypeOK
  <1>1. Spec => []CInv
    BY InitControl, NextControl, PTL DEF Spec
  <1> QED BY <1>1, PTL DEF CInv

(***************************************************************************)
(* PSVH() is never triggered while it is pending or running, and           *)
(* smx_srnest says so to every ISR.                                        *)
(***************************************************************************)
THEOREM PsvIsGuarded == Spec => []PsvGuarded
  <1>1. CInv => PsvGuarded
    BY SMT DEF CInv, TypeOK, Control, PsvGuarded
  <1> QED BY <1>1, InitControl, NextControl, PTL DEF Spec

\* An ISR that accepts an invocation has its own exit test still to come;
\* every test of smx_lqctr either triggers PSVH() or lowers smx_srnest in the
\* same section.
LEMMA NextStranded ==
  CInv /\ [Next]_vars /\ NoStrandedLsr /\ tpc # "fastdec" => NoStrandedLsr'
  <1> SUFFICES ASSUME CInv, [Next]_vars, NoStrandedLsr, ~NoStrandedLsr',
                      tpc # "fastdec"
               PROVE  FALSE
    OBVIOUS
  <1> USE LsrAssumption DEF CInv, TypeOK, Control, MaxNest, queue, TaskLevel,
                            NoStrandedLsr, Invoke
  <1>1. CASE ISR
    BY <1>1, SMT DEF ISR, ISREnter, ISRExit, ISRInvoke
  <1>2. CASE SSREnter \/ FastEnter \/ LSRsOff \/ LSRsOn
    BY <1>2, SMT DEF SSREnter, FastEnter, LSRsOff, LSRsOn
  <1>3. CASE \E l \in Lsrs : LSRInvoke(l)
    BY <1>3, SMT DEF LSRInvoke
  <1>4. CASE \E sched \in BOOLEAN : SSRExit(sched)
    BY <1>4, SMT DEF SSRExit
  <1>5. CASE \E sched \in BOOLEAN : FastExitTest(sched)
    BY <1>5, SMT DEF FastExitTest
  <1>6. CASE FastResume \/ FastExitDone
    BY <1>6, SMT DEF FastResume, FastExitDone
  <1>7. CASE Psv
    BY <1>7, SMT DEF Psv, PsvProgress, PsvEnter, TakeLsr, StartLsr, LsrReturn,
                     PsvSched, PsvTail, LsrInvoke
  <1>8. CASE UNCHANGED vars
    BY <1>8 DEF vars
  <1> QED BY <1>1, <1>2, <1>3, <1>4, <1>5, <1>6, <1>7, <1>8
          DEF Next, Task, TaskProgress

(***************************************************************************)
(* No step but the last of smx_SSRExitIF() strands an invocation.          *)
(***************************************************************************)
THEOREM StrandedOnlyBySSRExitIFHolds == Spec => StrandedOnlyBySSRExitIF
  <1>1. CInv /\ [Next]_vars
          => [NoStrandedLsr /\ ~NoStrandedLsr' => tpc = "fastdec"]_vars
    BY NextStranded
  <1> QED BY <1>1, InitControl, NextControl, PTL DEF Spec, StrandedOnlyBySSRExitIF

(***************************************************************************)
(* If no heap has a mutex (EH_PRE, hence smx_SSRExitIF() outside of an     *)
(* SSR, is not used), no invocation is ever stranded.                      *)
(***************************************************************************)
THEOREM NoStrandedLsrWithoutHeapMutex ==
  ASSUME ~EhPre PROVE Spec => []NoStrandedLsr
  <1> DEFINE NotFast == tpc \in {"task", "ssr"}
  <1>1. Init => NotFast /\ NoStrandedLsr
    BY SMT DEF Init, NoStrandedLsr
  <1>2. NotFast /\ [Next]_vars => NotFast'
    <2> SUFFICES ASSUME NotFast, [Next]_vars PROVE NotFast'
      OBVIOUS
    <2>1. CASE ISR
      BY <2>1 DEF ISR, ISREnter, ISRExit, ISRInvoke
    <2>2. CASE Task
      BY <2>2, ~EhPre DEF Task, TaskProgress, SSREnter, FastEnter, LSRsOff, LSRsOn,
           LSRInvoke, SSRExit, FastExitTest, FastResume, FastExitDone
    <2>3. CASE Psv
      BY <2>3 DEF Psv, PsvProgress, PsvEnter, TakeLsr, StartLsr, LsrReturn,
                       PsvSched, PsvTail, LsrInvoke
    <2>4. CASE UNCHANGED vars
      BY <2>4 DEF vars
    <2> QED BY <2>1, <2>2, <2>3, <2>4 DEF Next
  <1>3. NotFast => tpc # "fastdec"
    OBVIOUS
  <1> QED BY <1>1, <1>2, <1>3, InitControl, NextControl, NextStranded, PTL DEF Spec

-----------------------------------------------------------------------------
(* The buffer, when the application keeps one cell free: MaxLoad < SIZE_LQ. *)

Buffer ==
    /\ lqctr <= MaxLoad
    /\ RingConsistent
    /\ \A k \in 0..(SIZE_LQ - 1) : k < lqctr + Taken => lq[CellAt(k)] \in Lsrs
    /\ hpc = "lsr" => clsr \in Lsrs

LEMMA CellAtInCells ==
  ASSUME TypeOK, NEW k \in 0..SIZE_LQ PROVE CellAt(k) \in Cells
  BY LsrAssumption, SMT DEF TypeOK, Cells, CellAt

LEMMA CellAtDistinct ==
  ASSUME TypeOK, NEW k \in 0..(SIZE_LQ - 1), NEW n \in 0..(SIZE_LQ - 1), k # n
  PROVE  CellAt(k) # CellAt(n)
  BY LsrAssumption, SMT DEF TypeOK, Cells, CellAt

LEMMA TakenType == TypeOK => Taken \in 0..1
  BY SMT DEF TypeOK, Taken

LEMMA InitBuffer == Init => Buffer
  BY LsrAssumption, SMT DEF Init, Buffer, RingConsistent, CellAt, Taken, Cells

\* An invocation fills the first free cell and leaves the used ones alone.
LEMMA InvokeBuffer ==
  ASSUME CInv, MaxLoad < SIZE_LQ, Buffer, NEW l \in Lsrs, Invoke(l),
         UNCHANGED <<clsr, hpc>>
  PROVE  /\ Buffer'
         /\ \A k \in 0..(SIZE_LQ - 1) : k < lqctr + Taken => lq'[CellAt(k)] = lq[CellAt(k)]
         /\ lq'[CellAt(lqctr + Taken)] = l
  <1> USE DEF CInv
  <1> DEFINE n == lqctr + Taken
  <1>1. n \in 0..(SIZE_LQ - 1) /\ lqctr + 1 <= MaxLoad /\ Taken' = Taken
    BY LsrAssumption, TakenType, SMT DEF TypeOK, Buffer, Invoke, Taken
  <1>2. lqin = CellAt(n) /\ lqin \in Cells
    BY SMT DEF Buffer, RingConsistent, TypeOK
  <1>3. \A k \in 0..(SIZE_LQ - 1) : CellAt(k)' = CellAt(k)
    BY SMT DEF Invoke, CellAt
  <1>4. lq'[CellAt(n)] = l
    BY <1>2, SMT DEF Invoke, TypeOK
  <1>5. ASSUME NEW k \in 0..(SIZE_LQ - 1), k < n
        PROVE  lq'[CellAt(k)] = lq[CellAt(k)]
    <2>1. CellAt(k) \in Cells /\ CellAt(k) # lqin
      BY <1>1, <1>2, <1>5, CellAtInCells, CellAtDistinct, LsrAssumption, SMT
    <2> QED BY <2>1, SMT DEF Invoke, TypeOK
  <1>6. lqin' = CellAt(n + 1)
    <2>1. lqin' = NextCell(CellAt(n))
      BY <1>2, SMT DEF Invoke
    <2>2. n \in Nat /\ lqout \in 0..(SIZE_LQ - 1)
      BY <1>1, LsrAssumption, SMT DEF TypeOK, Cells
    <2> HIDE DEF n
    <2>3. NextCell(CellAt(n)) = CellAt(n + 1)
      BY <1>1, <2>2, LsrAssumption, SMT DEF CellAt, NextCell
    <2> QED BY <2>1, <2>3
  <1>7. RingConsistent'
    BY <1>1, <1>6, TakenType, SMT DEF RingConsistent, CellAt, Invoke, TypeOK
  <1>8. ASSUME NEW k \in 0..(SIZE_LQ - 1), k < lqctr' + Taken'
        PROVE  lq'[CellAt(k)'] \in Lsrs
    <2>1. k < n \/ k = n
      BY <1>1, <1>8, TakenType, SMT DEF Invoke, TypeOK
    <2> QED BY <2>1, <1>3, <1>4, <1>5, <1>8 DEF Buffer
  <1>9. lqctr' <= MaxLoad /\ (hpc' = "lsr" => clsr' \in Lsrs)
    BY <1>1, SMT DEF Invoke, Buffer
  <1> QED BY <1>4, <1>5, <1>7, <1>8, <1>9 DEF Buffer

\* A step that leaves the queue alone and takes no entry keeps Buffer.
LEMMA IdleBuffer ==
  ASSUME Buffer, UNCHANGED <<queue, clsr>>, Taken' = Taken, hpc' = "lsr" => hpc = "lsr"
  PROVE  Buffer'
  BY DEF Buffer, queue, RingConsistent, CellAt

\* smx_lqctr-- with interrupts disabled: the entry moves from the counter to
\* Taken.
LEMMA TakeLsrBuffer == ASSUME CInv, Buffer, TakeLsr PROVE Buffer'
  <1>1. lqctr' + Taken' = lqctr + Taken /\ lqctr' <= MaxLoad /\ hpc' # "lsr"
    BY LsrAssumption, SMT DEF TakeLsr, Taken, CInv, TypeOK, Buffer
  <1>2. UNCHANGED <<lq, lqin, lqout>>
    BY DEF TakeLsr
  <1> QED BY <1>1, <1>2 DEF Buffer, RingConsistent, CellAt

\* Reading *smx_lqout and advancing it shifts every cell's place by one.
LEMMA StartLsrShift ==
  ASSUME CInv, MaxLoad < SIZE_LQ, Buffer, StartLsr
  PROVE  /\ \A k \in 0..(SIZE_LQ - 1) : k < lqctr => CellAt(k)' = CellAt(k + 1)
         /\ lqout = CellAt(0)
         /\ UNCHANGED <<lq, lqin, lqctr>>
         /\ Taken = 1 /\ Taken' = 0
         /\ lqctr \in Nat /\ lqctr < SIZE_LQ
  BY LsrAssumption, SMT DEF StartLsr, NextCell, CellAt, Taken, CInv, TypeOK, Cells, Buffer

LEMMA StartLsrBuffer ==
  ASSUME CInv, MaxLoad < SIZE_LQ, Buffer, StartLsr PROVE Buffer'
  <1>1. RingConsistent'
    BY LsrAssumption, SMT DEF StartLsr, NextCell, CellAt, Taken, CInv, TypeOK, Cells,
                              Buffer, RingConsistent
  <1>2. clsr' \in Lsrs
    BY StartLsrShift, LsrAssumption, SMT DEF StartLsr, Buffer
  <1>3. ASSUME NEW k \in 0..(SIZE_LQ - 1), k < lqctr' + Taken'
        PROVE  lq'[CellAt(k)'] \in Lsrs
    BY <1>3, StartLsrShift, LsrAssumption, SMT DEF Buffer
  <1> QED BY <1>1, <1>2, <1>3, StartLsrShift DEF Buffer

LEMMA NextBuffer ==
  ASSUME MaxLoad < SIZE_LQ, CInv, Buffer, [Next]_vars PROVE Buffer'
  <1>1. CASE \E l \in Lsrs : ISRInvoke(l) \/ LSRInvoke(l) \/ LsrInvoke(l)
    BY <1>1, InvokeBuffer DEF ISRInvoke, LSRInvoke, LsrInvoke
  <1>2. CASE ISREnter \/ ISRExit
    BY <1>2, IdleBuffer DEF ISREnter, ISRExit, Taken
  <1>3. CASE SSREnter \/ FastEnter \/ LSRsOff \/ LSRsOn \/ TaskProgress
    BY <1>3, IdleBuffer DEF SSREnter, FastEnter, LSRsOff, LSRsOn, TaskProgress,
         SSRExit, FastExitTest, FastResume, FastExitDone, Taken
  <1>4. CASE PsvEnter \/ PsvSched \/ PsvTail
    BY <1>4, IdleBuffer DEF PsvEnter, PsvSched, PsvTail, Taken
  <1>5. CASE TakeLsr
    BY <1>5, TakeLsrBuffer
  <1>6. CASE StartLsr
    BY <1>6, StartLsrBuffer
  <1>7. CASE LsrReturn
    <2>1. UNCHANGED queue /\ Taken' = Taken /\ hpc' # "lsr"
      BY <1>7 DEF LsrReturn, Taken
    <2> QED BY <2>1 DEF Buffer, queue, RingConsistent, CellAt
  <1>8. CASE UNCHANGED vars
    BY <1>8, IdleBuffer DEF vars, queue, Taken
  <1> QED BY <1>1, <1>2, <1>3, <1>4, <1>5, <1>6, <1>7, <1>8
          DEF Next, ISR, Task, Psv, PsvProgress

(***************************************************************************)
(* smx_lqin stays smx_lqctr cells after smx_lqout, and no unread           *)
(* invocation is overwritten, provided one cell of the buffer is kept      *)
(* free: PSVH() may be between smx_lqctr-- and the read of the cell.       *)
(***************************************************************************)
THEOREM RingHolds ==
  ASSUME MaxLoad < SIZE_LQ PROVE Spec => [](RingConsistent /\ NoUnreadOverwritten)
  <1>1. CInv /\ Buffer => RingConsistent /\ NoUnreadOverwritten
    BY LsrAssumption, TakenType, MaxLoad < SIZE_LQ, SMT
       DEF CInv, TypeOK, Buffer, NoUnreadOverwritten
  <1>2. CInv /\ Buffer /\ [Next]_vars => Buffer'
    BY NextBuffer, MaxLoad < SIZE_LQ
  <1> QED BY <1>1, <1>2, InitControl, NextControl, InitBuffer, PTL DEF Spec

-----------------------------------------------------------------------------
(* Refinement: every step of the buffer is a step of the FIFO or a stutter. *)

IInv == CInv /\ Buffer

LEMMA SequenceAppend ==
  ASSUME NEW S, NEW s \in Seq(S), NEW t \in Seq(S), NEW x \in S,
         Len(t) = Len(s) + 1, \A i \in 1..Len(s) : t[i] = s[i], t[Len(s) + 1] = x
  PROVE  t = Append(s, x)
  OBVIOUS

LEMMA SequenceTail ==
  ASSUME NEW S, NEW s \in Seq(S), NEW t \in Seq(S), s # <<>>,
         Len(t) = Len(s) - 1, \A i \in 1..Len(t) : t[i] = s[i + 1]
  PROVE  t = Tail(s)
  OBVIOUS

WaitingSeq == /\ Waiting \in Seq(Lsrs)
              /\ Len(Waiting) = lqctr
              /\ lqctr \in Nat /\ lqctr < SIZE_LQ

LEMMA WaitingType == ASSUME IInv, MaxLoad < SIZE_LQ PROVE WaitingSeq
  <1>1. lqctr \in Nat /\ lqctr < SIZE_LQ
    BY LsrAssumption, SMT DEF IInv, CInv, TypeOK, Buffer
  <1>2. ASSUME NEW k \in 1..lqctr PROVE lq[CellAt(k - 1 + Taken)] \in Lsrs
    <2>1. k - 1 + Taken \in 0..(SIZE_LQ - 1) /\ k - 1 + Taken < lqctr + Taken
      BY <1>1, TakenType, LsrAssumption, SMT DEF IInv, CInv, Buffer
    <2> QED BY <2>1 DEF IInv, Buffer
  <1> QED BY <1>1, <1>2, SMT DEF Waiting, WaitingSeq

LEMMA AcceptRefined ==
  ASSUME IInv, WaitingSeq', MaxLoad < SIZE_LQ, NEW l \in Lsrs, Invoke(l),
         UNCHANGED <<clsr, hpc>>
  PROVE  Fifo!Accept(l)
  <1> DEFINE n == lqctr + Taken
  <1>1. /\ lqctr < SIZE_LQ /\ lqctr' = lqctr + 1 /\ lqout' = lqout
        /\ Taken' = Taken
    BY SMT DEF Invoke, Taken
  <1>2. /\ \A k \in 0..(SIZE_LQ - 1) : k < n => lq'[CellAt(k)] = lq[CellAt(k)]
        /\ lq'[CellAt(n)] = l
    BY InvokeBuffer, MaxLoad < SIZE_LQ DEF IInv
  <1>3. /\ Waiting \in Seq(Lsrs) /\ Len(Waiting) = lqctr
        /\ Waiting' \in Seq(Lsrs) /\ Len(Waiting') = lqctr'
        /\ lqctr \in Nat /\ n <= SIZE_LQ - 1
    BY WaitingType, TakenType, LsrAssumption, <1>1, SMT DEF IInv, CInv, Buffer, WaitingSeq
  <1>4. \A k \in 1..lqctr' : Waiting'[k] = lq'[CellAt(k - 1 + Taken)]
    BY <1>1 DEF Waiting, CellAt
  <1>5. \A k \in 1..lqctr : Waiting'[k] = Waiting[k]
    <2> SUFFICES ASSUME NEW k \in 1..lqctr PROVE Waiting'[k] = Waiting[k]
      OBVIOUS
    <2>1. k - 1 + Taken \in 0..(SIZE_LQ - 1) /\ k - 1 + Taken < n
      BY <1>3, TakenType, LsrAssumption, SMT DEF IInv, CInv
    <2>2. k \in 1..lqctr'
      BY <1>1, <1>3, SMT
    <2> QED BY <1>2, <1>4, <2>1, <2>2 DEF Waiting
  <1>6. Waiting'[lqctr + 1] = l
    <2>1. lqctr + 1 \in 1..lqctr' /\ (lqctr + 1) - 1 + Taken = n
      BY <1>1, <1>3, TakenType, SMT DEF IInv, CInv
    <2> QED BY <1>2, <1>4, <2>1
  <1>7. Waiting' = Append(Waiting, l)
    BY <1>1, <1>3, <1>5, <1>6, SequenceAppend
  <1>8. Running' = Running
    <2>1. CASE hpc = "take"
      <3>1. lqout = CellAt(0) /\ 0 < n /\ 0 \in 0..(SIZE_LQ - 1)
        BY <2>1, <1>3, LsrAssumption, SMT DEF Taken, CellAt, IInv, CInv, TypeOK, Cells
      <3> QED BY <1>1, <1>2, <2>1, <3>1 DEF Running
    <2>2. CASE hpc # "take"
      BY <2>2 DEF Running
    <2> QED BY <2>1, <2>2
  <1> QED BY <1>1, <1>3, <1>7, <1>8 DEF Fifo!Accept

LEMMA StartRefined ==
  ASSUME IInv, WaitingSeq', MaxLoad < SIZE_LQ, TakeLsr PROVE Fifo!Start
  <1>1. /\ hpc = "psv" /\ hpc' = "take" /\ lqctr > 0 /\ lqctr' = lqctr - 1
        /\ UNCHANGED <<lq, lqout>> /\ Taken = 0 /\ Taken' = 1
    BY SMT DEF TakeLsr, Taken
  <1>2. /\ Waiting \in Seq(Lsrs) /\ Len(Waiting) = lqctr
        /\ Waiting' \in Seq(Lsrs) /\ Len(Waiting') = lqctr'
        /\ lqctr \in Nat
    BY WaitingType DEF WaitingSeq
  <1>3. Running = NoLsr /\ Running' = lq[lqout]
    BY <1>1 DEF Running, IInv, CInv, Control
  <1>4. Waiting # <<>> /\ Head(Waiting) = lq[lqout]
    <2>1. Waiting[1] = lq[CellAt(0)] /\ CellAt(0) = lqout
      BY <1>1, <1>2, LsrAssumption, SMT DEF Waiting, CellAt, IInv, CInv, TypeOK, Cells
    <2> QED BY <1>1, <1>2, <2>1
  <1>5. \A k \in 1..lqctr' : Waiting'[k] = Waiting[k + 1]
    <2> SUFFICES ASSUME NEW k \in 1..lqctr' PROVE Waiting'[k] = Waiting[k + 1]
      OBVIOUS
    <2>1. k + 1 \in 1..lqctr /\ (k + 1) - 1 + 0 = k - 1 + 1
      BY <1>1, <1>2, SMT
    <2>2. Waiting'[k] = lq[CellAt(k - 1 + 1)]
      BY <1>1 DEF Waiting, CellAt
    <2>3. Waiting[k + 1] = lq[CellAt((k + 1) - 1 + 0)]
      BY <1>1, <2>1 DEF Waiting
    <2> QED BY <2>1, <2>2, <2>3
  <1>6. Waiting' = Tail(Waiting)
    BY <1>1, <1>2, <1>4, <1>5, SequenceTail
  <1> QED BY <1>3, <1>4, <1>6 DEF Fifo!Start

LEMMA StartLsrStutters ==
  ASSUME IInv, WaitingSeq', MaxLoad < SIZE_LQ, StartLsr PROVE UNCHANGED <<Waiting, Running>>
  <1>1. /\ hpc = "take" /\ hpc' = "lsr" /\ clsr' = lq[lqout]
        /\ UNCHANGED <<lq, lqctr>> /\ Taken = 1 /\ Taken' = 0
        /\ \A k \in 0..(SIZE_LQ - 1) : k < lqctr => CellAt(k)' = CellAt(k + 1)
        /\ lqctr \in Nat /\ lqctr < SIZE_LQ
    BY StartLsrShift, MaxLoad < SIZE_LQ DEF StartLsr, IInv
  <1>2. Running' = Running
    BY <1>1 DEF Running
  <1>3. \A k \in 1..lqctr : lq[CellAt(k - 1 + 0)'] = lq[CellAt(k - 1 + 1)]
    BY <1>1, LsrAssumption, SMT DEF CellAt
  <1> QED BY <1>1, <1>2, <1>3 DEF Waiting

\* A step that leaves the queue and the running LSR alone, and neither takes
\* nor reads an entry, is a stutter.
LEMMA IdleStutters ==
  ASSUME UNCHANGED <<queue, clsr>>, hpc' = "take" <=> hpc = "take"
  PROVE  UNCHANGED <<Waiting, Running>>
  BY DEF queue, Waiting, Running, CellAt, Taken

LEMMA NextRefined ==
  ASSUME IInv, WaitingSeq', MaxLoad < SIZE_LQ, [Next]_vars
  PROVE  [Fifo!FifoNext]_Fifo!fifoVars
  <1> USE DEF Fifo!FifoNext, Fifo!fifoVars
  <1>1. CASE \E l \in Lsrs : ISRInvoke(l) \/ LSRInvoke(l) \/ LsrInvoke(l)
    BY <1>1, AcceptRefined DEF ISRInvoke, LSRInvoke, LsrInvoke
  <1>2. CASE ISREnter \/ ISRExit
    BY <1>2, IdleStutters DEF ISREnter, ISRExit
  <1>3. CASE SSREnter \/ FastEnter \/ LSRsOff \/ LSRsOn \/ TaskProgress
    BY <1>3, IdleStutters DEF SSREnter, FastEnter, LSRsOff, LSRsOn, TaskProgress,
         SSRExit, FastExitTest, FastResume, FastExitDone
  <1>4. CASE PsvEnter \/ PsvSched \/ PsvTail
    BY <1>4, IdleStutters DEF PsvEnter, PsvSched, PsvTail
  <1>5. CASE TakeLsr
    BY <1>5, StartRefined
  <1>6. CASE StartLsr
    BY <1>6, StartLsrStutters
  <1>7. CASE LsrReturn
    <2>1. UNCHANGED Waiting
      BY <1>7 DEF LsrReturn, queue, Waiting, CellAt, Taken
    <2>2. Running \in Lsrs /\ Running' = NoLsr
      BY <1>7 DEF LsrReturn, Running, IInv, Buffer
    <2> QED BY <2>1, <2>2, LsrAssumption DEF Fifo!Finish
  <1>8. CASE UNCHANGED vars
    BY <1>8, IdleStutters DEF vars, queue
  <1> QED BY <1>1, <1>2, <1>3, <1>4, <1>5, <1>6, <1>7, <1>8
          DEF Next, ISR, Task, Psv, PsvProgress

LEMMA InitRefined == Init => Fifo!FifoInit
  BY SMT DEF Init, Fifo!FifoInit, Waiting, Running

(***************************************************************************)
(* Every accepted invocation runs once, and in order: the cyclic buffer of *)
(* SIZE_LQ cells, read in two steps, implements a FIFO queue if the        *)
(* application leaves at most SIZE_LQ - 1 invocations waiting.             *)
(***************************************************************************)
THEOREM LsrImplementsFifo ==
  ASSUME MaxLoad < SIZE_LQ PROVE Spec => ImplementsFifo
  <1>1. IInv /\ [Next]_vars => IInv'
    BY NextControl, NextBuffer, MaxLoad < SIZE_LQ DEF IInv
  <1>2. IInv /\ WaitingSeq' /\ [Next]_vars => [Fifo!FifoNext]_Fifo!fifoVars
    BY NextRefined, MaxLoad < SIZE_LQ
  <1>4. IInv => WaitingSeq
    BY WaitingType, MaxLoad < SIZE_LQ
  <1>3. Init => IInv
    BY InitControl, InitBuffer DEF IInv
  <1> QED BY <1>1, <1>2, <1>3, <1>4, InitRefined, PTL
          DEF Spec, ImplementsFifo, Fifo!FifoSpec
=============================================================================
