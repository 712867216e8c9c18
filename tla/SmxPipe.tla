------------------------------- MODULE SmxPipe ------------------------------
(***************************************************************************)
(* Pipes (src/XSMX/xpipe.c): a cyclic buffer of packets, and tasks waiting *)
(* to get or to put one.                                                   *)
(*                                                                         *)
(* An ISR may have one end of a pipe, through the functions that are not   *)
(* SSRs, and tasks or LSRs the other.  SSRs exclude each other, but not    *)
(* ISRs: a get of a task reads the flag full, the write pointer and the    *)
(* packet, stores the read pointer and clears full, and a put stores the   *)
(* write pointer and then sets full if it meets the read pointer.  A put   *)
(* to the front reads the read pointer, and then disables interrupts to    *)
(* store a new one.  ISRs come between these steps; where the order of the *)
(* two does not matter, steps are taken together.                          *)
(*                                                                         *)
(* The history variable kept holds the packets that have been put and not  *)
(* got.  Once the pipe holds others, the behaviour ends.  Left out: the    *)
(* bytes of a packet, priorities (a waiting task is put anywhere in the    *)
(* queue), callbacks, creation and deletion.                               *)
(***************************************************************************)
EXTENDS SmxTask

CONSTANTS Length,   \* the cells of the pipe
          Packets

ASSUME PipeAssumption == Length \in Nat \ {0} /\ Packets # {}

VARIABLES pipe,    \* the control block and the buffer
          call,    \* each waiting task's call
          op,      \* the call that is under way and that ISRs interrupt
          isr,     \* what ISRs do: "put", "get", or "none"
          kept     \* history

pipeVars == <<pipe, call, op, isr, kept>>

Cells == 0..Length - 1

NoCallOfPipe == [kind |-> "none", front |-> FALSE, pkt |-> None]

\* No call, or the rest of one: for task t, which is resumed if resume, and
\* waits if it must and may.  n packets are to be got, or pkt is to be put in
\* front of rp, the read pointer as it was.  History: over, a full pipe has been
\* written over meanwhile; stale, rp was no longer the read pointer.
NoOp == [step |-> "none", t |-> None, resume |-> FALSE, wait |-> FALSE, n |-> 0,
         pkt |-> None, rp |-> 0, over |-> FALSE, stale |-> FALSE]

\* smx_PipeCreate()
PipeInit == /\ pipe = [ rp |-> 0, wp |-> 0, full |-> FALSE, queue |-> <<>>,
                        cell |-> [i \in Cells |-> CHOOSE x \in Packets : TRUE] ]
            /\ call = [t \in Tasks |-> NoCallOfPipe]
            /\ op = NoOp
            /\ isr \in {"put", "get", "none"}
            /\ kept = <<>>

-----------------------------------------------------------------------------
(* Pointers. *)

After(i, n) == (i + n) % Length

Distance(i, j) == (j + Length - i) % Length

\* smx_PIPE_EMPTY(p, rp)
Empty == ~pipe.full /\ pipe.wp = pipe.rp

\* What the pipe p holds.
Contents(p) == LET n == IF p.full THEN Length ELSE Distance(p.rp, p.wp)
               IN  [i \in 1..n |-> p.cell[After(p.rp, i - 1)]]

\* Put the packets of s at wp; the flag comes later.
Store(p, s) == [p EXCEPT !.cell = [i \in Cells |-> LET j == Distance(p.wp, i) + 1
                                                   IN  IF j <= Len(s) THEN s[j] ELSE @[i]],
                         !.wp = After(@, Len(s))]

\* if (pipe->wp == pipe->rp) pipe->flags.full = 1
SetFull(p) == [p EXCEPT !.full = @ \/ p.wp = p.rp]

\* Mutant: a get leaves full set.
Fetched_StillFull(p) == p

\* pipe->flags.full = 0
Fetched(p) == [p EXCEPT !.full = FALSE]

Skip(p, n) == [p EXCEPT !.rp = After(@, n)]

Rest(s, n) == SubSeq(s, n + 1, Len(s))

-----------------------------------------------------------------------------
(* Waiting and being resumed. *)

PipeWaits(t) == call[t].kind # "none"

First == Head(pipe.queue)

FirstIs(kind) == pipe.queue # <<>> /\ call[First].kind = kind

Enqueue(t, c) ==
    /\ \E i \in 1..Len(pipe.queue) + 1 : pipe' = [pipe EXCEPT !.queue = InsertAt(@, i, t)]
    /\ call' = [call EXCEPT ![t] = c]

\* Mutant: a task that has left the queue is not resumed.
Returned_Not(ts) == call

Returned(ts) == [t \in Tasks |-> IF t \in ts THEN NoCallOfPipe ELSE call[t]]

\* The end of the pipe that tasks and LSRs have.
TasksGet == isr # "get" /\ op = NoOp
TasksPut == isr # "put" /\ op = NoOp

\* A task that makes a call, or an LSR: which task does not matter if it
\* cannot wait.
CallerOf(c, wait) == IF wait THEN c \in Tasks /\ ~PipeWaits(c) ELSE c = Lsr

-----------------------------------------------------------------------------
(* Getting. *)

\* A get for task t looks at full first, and then has a packet for sure.
BeginGet(t, resume, wait) ==
    op' = [NoOp EXCEPT !.step = IF pipe.full THEN "fetch" ELSE "test",
                       !.t = t, !.resume = resume, !.wait = wait]

\* smx_PipeGet8(), smx_PipeGetPkt(), and smx_PipeGetPktWait_F() if no task
\* waits to put.
PipeGet(c, wait) ==
    /\ TasksGet
    /\ CallerOf(c, wait)
    /\ ~FirstIs("put")
    /\ BeginGet(c, FALSE, wait)
    /\ UNCHANGED <<pipe, call, isr, kept>>

\* smx_PipeGetPkt_F(): the packet is copied, and rp stored.
Fetch == pipe' = Skip(pipe, 1)

FetchStep == /\ op.step = "fetch"
             /\ Fetch
             /\ kept' = Rest(kept, 1)
             /\ op' = [op EXCEPT !.step = "clear"]
             /\ UNCHANGED <<call, isr>>

\* The rest of smx_PIPE_EMPTY(): wp may have met rp since full was read.  A
\* task that finds the pipe empty waits, or is resumed in vain.
TestStep ==
    /\ op.step = "test"
    /\ \/ /\ pipe.wp # pipe.rp
          /\ op' = [op EXCEPT !.step = "fetch"]
          /\ UNCHANGED <<pipe, call>>
       \/ /\ pipe.wp = pipe.rp
          /\ op' = NoOp
          /\ IF op.wait THEN Enqueue(op.t, [NoCallOfPipe EXCEPT !.kind = "get"])
             ELSE UNCHANGED <<pipe, call>>
    /\ UNCHANGED <<isr, kept>>

ClearStep == /\ op.step = "clear"
             /\ pipe' = Fetched(pipe)
             /\ call' = IF op.resume THEN Returned({op.t}) ELSE call
             /\ op' = NoOp
             /\ UNCHANGED <<isr, kept>>

\* Mutant: full is not set again.
Swap_NotFull(p, x) == Store(Fetched(Skip(p, 1)), <<x>>)

\* smx_PipeGetPkt_F() and smx_PipePutPkt_F() on a pipe that is full.
Swap(p, x) == SetFull(Store(Fetched(Skip(p, 1)), <<x>>))

\* smx_PipeGetPktWait_F() when a task waits to put: one packet goes out and
\* the task's in, or the task's is handed over if it was for the front.  Here
\* no ISR has an end of the pipe.
GetFromPutter ==
    /\ TasksGet
    /\ FirstIs("put")
    /\ LET c  == call[First]
           p1 == [pipe EXCEPT !.queue = Tail(@)]
       IN  /\ pipe' = IF c.front THEN p1 ELSE Swap(p1, c.pkt)
           /\ kept' = IF c.front THEN kept ELSE Append(Rest(kept, 1), c.pkt)
    /\ call' = Returned({First})
    /\ UNCHANGED <<op, isr>>

\* smx_PipeGet8M(): the number of packets is found first; full is not asked.
PipeGet8M(lim) ==
    /\ TasksGet
    /\ isr = "put"
    /\ op' = [NoOp EXCEPT !.step = "fetchM", !.n = Min({lim, Distance(pipe.rp, pipe.wp)})]
    /\ UNCHANGED <<pipe, call, isr, kept>>

FetchMStep == /\ op.step = "fetchM"
              /\ pipe' = Skip(pipe, op.n)
              /\ kept' = Rest(kept, op.n)
              /\ op' = [op EXCEPT !.step = "clear"]
              /\ UNCHANGED <<call, isr>>

-----------------------------------------------------------------------------
(* Putting. *)

\* smx_PipePutPkt_F(), back: the packet is stored, for task t, and full is not
\* yet set.
StorePkt(p, t, x, resume) ==
    /\ pipe' = Store(p, <<x>>)
    /\ kept' = Append(kept, x)
    /\ op' = [NoOp EXCEPT !.step = "flag", !.t = t, !.resume = resume]

\* smx_PipePutPkt_F(), front: rp is read before interrupts are disabled.
BeginFront(t, x) ==
    /\ op' = [NoOp EXCEPT !.step = "front", !.t = t, !.pkt = x, !.rp = pipe.rp]
    /\ UNCHANGED <<pipe, kept>>

\* The packet x in front of cell rp.
InFront(p, rp, x) == LET i == After(rp, Length - 1)
                     IN  [p EXCEPT !.rp = i, !.cell[i] = x]

\* Then the packet is stored there, whatever ISRs have got meanwhile.
FrontStep == /\ op.step = "front"
             /\ pipe' = InFront(pipe, op.rp, op.pkt)
             /\ kept' = <<op.pkt>> \o kept
             /\ op' = [NoOp EXCEPT !.step = "flag", !.t = op.t, !.stale = op.rp # pipe.rp]
             /\ UNCHANGED <<call, isr>>

\* smx_PipePut8(), smx_PipePutPkt(), and smx_PipePutPktWait_F(), which may give
\* the packet to a task that waits to get one.
PipePut(c, x, front, wait) ==
    /\ TasksPut
    /\ CallerOf(c, wait)
    /\ \/ /\ FirstIs("get")
          /\ pipe' = [pipe EXCEPT !.queue = Tail(@)]
          /\ call' = Returned({First})
          /\ UNCHANGED <<op, kept>>
       \/ /\ ~FirstIs("get") /\ ~pipe.full
          /\ IF front THEN BeginFront(c, x) ELSE StorePkt(pipe, c, x, FALSE)
          /\ UNCHANGED call
       \/ /\ ~FirstIs("get") /\ pipe.full /\ wait
          /\ Enqueue(c, [kind |-> "put", front |-> front, pkt |-> x])
          /\ UNCHANGED <<op, kept>>
    /\ UNCHANGED isr

FlagStep == /\ op.step = "flag"
            /\ pipe' = SetFull(pipe)
            /\ call' = IF op.resume THEN Returned({op.t}) ELSE call
            /\ op' = NoOp
            /\ UNCHANGED <<isr, kept>>

\* The room smx_PipePut8M() finds; full is not asked.
Room == IF pipe.rp > pipe.wp THEN pipe.rp - pipe.wp - 1
        ELSE (Length - 1 - pipe.wp) + pipe.rp

\* smx_PipePut8M()
PipePut8M(s) ==
    /\ TasksPut
    /\ isr = "get"
    /\ Len(s) <= Room
    /\ pipe' = Store(pipe, s)
    /\ kept' = kept \o s
    /\ op' = [NoOp EXCEPT !.step = "flag", !.over = pipe.full]
    /\ UNCHANGED <<call, isr>>

-----------------------------------------------------------------------------
(* The other SSRs. *)

\* smx_PipeResume_F(): the first task leaves the queue whether it can get or put
\* or not.  Put-to-front is not implemented.
PipeResume ==
    /\ op = NoOp
    /\ pipe.queue # <<>>
    /\ LET c  == call[First]
           p1 == [pipe EXCEPT !.queue = Tail(@)]
       IN  \/ /\ c.kind = "put" /\ ~pipe.full
              /\ StorePkt(p1, First, c.pkt, TRUE)
           \/ /\ c.kind = "put" /\ pipe.full
              /\ pipe' = p1
              /\ UNCHANGED <<op, kept>>
           \/ /\ c.kind = "get"
              /\ pipe' = p1
              /\ BeginGet(First, TRUE, FALSE)
              /\ UNCHANGED kept
    /\ UNCHANGED <<call, isr>>

\* smx_PipeClear()
PipeClear == /\ op = NoOp
             /\ pipe' = [pipe EXCEPT !.queue = <<>>, !.rp = 0, !.wp = 0, !.full = FALSE]
             /\ call' = Returned(Range(pipe.queue))
             /\ kept' = <<>>
             /\ UNCHANGED <<op, isr>>

\* A timeout or a task SSR ends a task's wait.
PipeWaitEnds(t) == /\ op = NoOp
                   /\ PipeWaits(t)
                   /\ pipe' = [pipe EXCEPT !.queue = Without(@, t)]
                   /\ call' = Returned({t})
                   /\ UNCHANGED <<op, isr, kept>>

-----------------------------------------------------------------------------
(* ISRs: smx_PipePut8() and smx_PipePutPkt(), smx_PipeGet8() and               *)
(* smx_PipeGetPkt(), and the calls that move many.                           *)

IsrPut(x) == /\ isr = "put"
             /\ ~pipe.full
             /\ pipe' = SetFull(Store(pipe, <<x>>))
             /\ kept' = Append(kept, x)
             /\ UNCHANGED <<call, op, isr>>

IsrGet == /\ isr = "get"
          /\ ~Empty
          /\ pipe' = Fetched(Skip(pipe, 1))
          /\ kept' = Rest(kept, 1)
          /\ UNCHANGED <<call, op, isr>>

IsrPut8M(s) == /\ isr = "put"
               /\ Len(s) <= Room
               /\ pipe' = SetFull(Store(pipe, s))
               /\ kept' = kept \o s
               /\ op' = IF op = NoOp THEN op ELSE [op EXCEPT !.over = @ \/ pipe.full]
               /\ UNCHANGED <<call, isr>>

IsrGet8M(lim) ==
    /\ isr = "get"
    /\ LET n == Min({lim, Distance(pipe.rp, pipe.wp)})
       IN  /\ pipe' = Fetched(Skip(pipe, n))
           /\ kept' = Rest(kept, n)
    /\ UNCHANGED <<call, op, isr>>

-----------------------------------------------------------------------------

\* Bound: packets that one call moves.
Runs == UNION {[1..n -> Packets] : n \in 1..Length - 1}

PipeStep == FetchStep \/ TestStep \/ ClearStep \/ FetchMStep \/ FrontStep \/ FlagStep

WaitCalls == \E c \in Tasks \union {Lsr}, wait \in BOOLEAN :
    \/ PipeGet(c, wait)
    \/ \E x \in Packets, front \in BOOLEAN : PipePut(c, x, front, wait)

ManyCalls == \/ \E s \in Runs : PipePut8M(s) \/ IsrPut8M(s)
             \/ \E lim \in 1..Length : PipeGet8M(lim) \/ IsrGet8M(lim)

OtherCalls == GetFromPutter \/ PipeResume \/ PipeClear \/ \E t \in Tasks : PipeWaitEnds(t)

IsrCalls == IsrGet \/ \E x \in Packets : IsrPut(x)

\* Between calls the pipe holds what was put and not got.
PacketsKept == op = NoOp => Contents(pipe) = kept

PipeNext == \/ PacketsKept /\ (PipeStep \/ WaitCalls \/ ManyCalls \/ OtherCalls \/ IsrCalls)
            \/ ~PacketsKept /\ UNCHANGED pipeVars

PipeSpec == PipeInit /\ [][PipeNext]_pipeVars

-----------------------------------------------------------------------------
(* Properties. *)

\* Type invariant.
PipeTypeOK == /\ pipe.rp \in Cells /\ pipe.wp \in Cells
              /\ pipe.full \in BOOLEAN
              /\ pipe.cell \in [Cells -> Packets]
              /\ pipe.queue \in Seq(Tasks) /\ IsInjective(pipe.queue)
              /\ isr \in {"put", "get", "none"}

(***************************************************************************)
(* Every packet that is put is got once and in order, whatever ISRs do     *)
(* between the steps of the other end, but for five cases: a packet put    *)
(* into an empty pipe is got by an ISR before full is looked at, which     *)
(* then is set for the empty pipe; an ISR fills the pipe between the steps *)
(* of a get, which then clears full; smx_PipeGet8M() takes a full pipe for *)
(* an empty one, and clears full; smx_PipePut8M() writes over a full pipe; *)
(* a put to the front has read rp when an ISR gets packets, and moves rp   *)
(* back to before them, so that they are got again.                        *)
(***************************************************************************)
OnlyTheseLosePackets ==
    [][PacketsKept /\ ~PacketsKept' =>
          \/ FlagStep /\ kept = <<>>
          \/ ClearStep /\ pipe.full /\ Len(kept) = Length
          \/ pipe.full /\ \E lim \in 1..Length : IsrGet8M(lim)
          \/ pipe.full /\ \E s \in Runs : IsrPut8M(s)
          \/ op.over \/ op.stale]_pipeVars

\* Tasks that wait at the pipe, says their call, and are not in its queue.
Dropped == {t \in Tasks : /\ PipeWaits(t)
                          /\ t \notin Range(pipe.queue)
                          /\ ~(op.resume /\ op.t = t)}

(***************************************************************************)
(* A task that waits for a pipe is in its queue until it has got or put    *)
(* its packet or its wait has ended otherwise, but for smx_PipeResume():   *)
(* if the call cannot be completed the task is left neither in the queue   *)
(* nor ready, and nothing but its timeout or a task SSR will resume it.    *)
(***************************************************************************)
OnlyResumeDropsWaiter ==
    [][Dropped' \subseteq Dropped \/ (PipeResume /\ pipe.full) \/ (TestStep /\ op.resume)]_pipeVars

(***************************************************************************)
(* Between tasks only, none waits to get while the pipe has a packet or to *)
(* put while it has room, although a put is handed to a waiting task and a *)
(* get takes in the packet of one, and although tasks time out or are      *)
(* resumed in between.                                                     *)
(***************************************************************************)
TasksMeet == isr = "none" /\ op = NoOp => /\ FirstIs("get") => Empty
                                          /\ FirstIs("put") => pipe.full

(***************************************************************************)
(* The comments at smx_PipePutPkt() and smx_PipePutPkt_F() say that to     *)
(* store the write pointer last avoids a conflict with a get from an ISR,  *)
(* for an empty pipe: no packet is got twice or lost (the code goes on to  *)
(* compare the pointers, and sets full if the ISR has got the packet).     *)
(***************************************************************************)
NoConflictWithIsrGet == PacketsKept
=============================================================================
