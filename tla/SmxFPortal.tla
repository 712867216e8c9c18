----------------------------- MODULE SmxFPortal -----------------------------
(***************************************************************************)
(* Free message portals (src/SSMX/fportlc.c, and free messages in          *)
(* src/XSMX/xpmsg.c): a client has a resource exchange of its own, rxchg,  *)
(* with a number of messages.  It receives one from there, fills it and    *)
(* sends it to the server, which replies it to the exchange it came from.  *)
(* To close the portal the client takes its messages in and releases them. *)
(*                                                                         *)
(* A step is one service call with what the portal function does after it. *)
(* All messages have one priority.  Left out: portals opened without       *)
(* messages, regions, and mp_FPortalCreate() and mp_FPortalDelete(), which *)
(* has another task close the portals.                                     *)
(***************************************************************************)
EXTENDS SmxPortal

CONSTANTS FMsgs,   \* the MCBs
          XCBs     \* the control blocks of resource exchanges

ASSUME FPortalAssumption == /\ IsFiniteSet(FMsgs) /\ None \notin FMsgs
                            /\ IsFiniteSet(XCBs) /\ None \notin XCBs
                            /\ "xchg" \notin Clients \union {Svr, None}

VARIABLE fp

FPortalType ==
    [ \* The clients: where they are, the message just given to them, their FPCS.
      pc    : [Clients -> {"idle", "wait", "got", "close", "closewait", "closerel"}],
      hand  : [Clients -> FMsgs \union {None}],
      open  : [Clients -> BOOLEAN],
      num   : [Clients -> 0..Cardinality(FMsgs)],
      pmsg  : [Clients -> FMsgs \union {None}],
      rx    : [Clients -> XCBs \union {None}],     \* rxchg
      \* The messages; None: not in use, and "xchg": in a queue.
      onr   : [FMsgs -> Clients \union {Svr, "xchg", None}],
      fpcsh : [FMsgs -> Clients \union {None}],
      rpx   : [FMsgs -> XCBs \union {None}],
      \* The exchanges, free ones first in first, and sxchg.
      xfree : Seq(XCBs),
      rq    : [XCBs -> Seq(FMsgs)],
      sq    : Seq(FMsgs),
      swait : BOOLEAN,                             \* the server waits at sxchg
      \* History: all of the client's messages were at hand when it began to close.
      calm  : [Clients -> BOOLEAN] ]

FPortalInit ==
    fp = [ pc    |-> [c \in Clients |-> "idle"], hand  |-> [c \in Clients |-> None],
           open  |-> [c \in Clients |-> FALSE],  num   |-> [c \in Clients |-> 0],
           pmsg  |-> [c \in Clients |-> None],   rx    |-> [c \in Clients |-> None],
           onr   |-> [m \in FMsgs |-> None],     fpcsh |-> [m \in FMsgs |-> None],
           rpx   |-> [m \in FMsgs |-> None],     xfree |-> SetToSeq(XCBs),
           rq    |-> [x \in XCBs |-> <<>>],      sq    |-> <<>>, swait |-> FALSE,
           calm  |-> [c \in Clients |-> FALSE] ]

FAt(c, pc) == fp.pc[c] = pc

-----------------------------------------------------------------------------
(* Messages. *)

\* smx_MsgRel_F() of the messages of M.
FRel(p, M) == [p EXCEPT !.onr   = [m \in FMsgs |-> IF m \in M THEN None ELSE @[m]],
                        !.fpcsh = [m \in FMsgs |-> IF m \in M THEN None ELSE @[m]],
                        !.rpx   = [m \in FMsgs |-> IF m \in M THEN None ELSE @[m]]]

\* smx_PMsgRel(&pch->pmsg, 0) by the client.
RelHeld(p, c) == IF p.pmsg[c] # None /\ p.onr[p.pmsg[c]] = c
                 THEN [FRel(p, {p.pmsg[c]}) EXCEPT !.pmsg[c] = None] ELSE p

\* smx_PMsgReceive() of a message that waits loads it into the FPCS it belongs to,
\* whoever receives it.
FTake(p, m, t) == [p EXCEPT !.onr[m] = t,
                           !.pmsg = [c \in Clients |-> IF c = p.fpcsh[m] THEN m ELSE @[c]]]

\* The client that waits at a resource exchange.
WaitsAt(p, x) == {c \in Clients : p.rx[c] = x /\ p.pc[c] \in {"wait", "closewait"}}

\* smx_PMsgReply(m): to the client that waits there, or into the queue; if the exchange
\* has been deleted the message stays where it is.
FReply(p, m) ==
    LET x == p.rpx[m]
    IN  IF x \in Range(p.xfree) THEN p
        ELSE IF WaitsAt(p, x) = {} THEN [p EXCEPT !.onr[m] = "xchg", !.rq[x] = Append(@, m)]
        ELSE LET c == CHOOSE c \in WaitsAt(p, x) : TRUE
             IN  [p EXCEPT !.onr[m] = c, !.hand[c] = m,
                           !.pc[c] = IF @ = "wait" THEN "got" ELSE "closerel"]

-----------------------------------------------------------------------------
(* The client. *)

\* mp_FPortalOpen(pch, n): a resource exchange with the messages of s.
FPortalOpen(c, s) ==
    /\ FAt(c, "idle") /\ ~fp.open[c]
    /\ fp.xfree # <<>>
    /\ LET x   == Head(fp.xfree)
           new == Range(s)
       IN  fp' = [fp EXCEPT !.xfree = Tail(@), !.rx[c] = x, !.rq[x] = s,
                            !.onr   = [m \in FMsgs |-> IF m \in new THEN "xchg" ELSE @[m]],
                            !.fpcsh = [m \in FMsgs |-> IF m \in new THEN c ELSE @[m]],
                            !.rpx   = [m \in FMsgs |-> IF m \in new THEN x ELSE @[m]],
                            !.pmsg[c] = None, !.num[c] = Len(s), !.open[c] = TRUE,
                            !.calm[c] = FALSE]

\* mp_FPortalReceive(pch, dpp)
FPortalReceive(c) ==
    /\ FAt(c, "idle") /\ fp.open[c]
    /\ LET q == fp.rq[fp.rx[c]]
       IN  fp' = IF q = <<>> THEN [fp EXCEPT !.pc[c] = "wait"]
                 ELSE [FTake(fp, Head(q), c) EXCEPT !.rq[fp.rx[c]] = Tail(q), !.pmsg[c] = Head(q)]

ReceiveEnds(c) ==
    /\ FAt(c, "got") \/ FAt(c, "wait")
    /\ fp' = [fp EXCEPT !.pc[c] = "idle", !.pmsg[c] = fp.hand[c], !.hand[c] = None]

\* mp_FPortalSend(pch, m) and mp_FTPortalSend(pch, bp, m): to the server that waits, or
\* into the queue of sxchg.
FPortalSend(c, m) ==
    /\ FAt(c, "idle") /\ fp.open[c]
    /\ fp.onr[m] = c
    /\ LET p == [fp EXCEPT !.pmsg[c] = IF @ = m THEN None ELSE @, !.rpx[m] = fp.rx[c]]
       IN  fp' = IF p.swait THEN [p EXCEPT !.onr[m] = Svr, !.swait = FALSE]
                 ELSE [p EXCEPT !.onr[m] = "xchg", !.sq = Append(@, m)]

\* A message that the client is done with (sbp_ConDbgMsgMode()).
ClientReply(c, m) == /\ FAt(c, "idle")
                     /\ fp.onr[m] = c
                     /\ fp' = FReply(fp, m)

-----------------------------------------------------------------------------
(* mp_FPortalClose() *)

AtHand(c) == \A m \in FMsgs : fp.fpcsh[m] = c =>
    m \in Range(fp.rq[fp.rx[c]]) \/ (m = fp.pmsg[c] /\ fp.onr[m] = c)

\* The message held is released first.
FCloseBegin(c) ==
    /\ FAt(c, "idle") /\ fp.open[c]
    /\ LET held == fp.num[c] > 0 /\ fp.pmsg[c] # None
           p    == IF held THEN RelHeld(fp, c) ELSE fp
       IN  fp' = [p EXCEPT !.pc[c] = "close", !.num[c] = IF held THEN @ - 1 ELSE @,
                           !.calm[c] = AtHand(c)]

\* The next one is received.
FCloseReceive(c) ==
    /\ FAt(c, "close") /\ fp.num[c] > 0
    /\ LET q == fp.rq[fp.rx[c]]
       IN  fp' = IF q = <<>> THEN [fp EXCEPT !.pc[c] = "closewait"]
                 ELSE [FTake(fp, Head(q), c) EXCEPT !.rq[fp.rx[c]] = Tail(q), !.pc[c] = "closerel"]

\* Mutant: the count stays.
FCloseRel_KeepNum(c) ==
    /\ FAt(c, "closerel")
    /\ fp' = [RelHeld(fp, c) EXCEPT !.pc[c] = "close", !.hand[c] = None]

\* What is released is what the FPCS has, which is not the message that was waited for.
FCloseRel(c) ==
    /\ FAt(c, "closerel")
    /\ fp' = [RelHeld(fp, c) EXCEPT !.pc[c] = "close", !.num[c] = @ - 1, !.hand[c] = None]

\* The portal stays open.
FCloseTimeout(c) == FAt(c, "closewait") /\ fp' = [fp EXCEPT !.pc[c] = "idle"]

\* smx_MsgXchgDelete(&pch->rxchg) releases what waits there.
FCloseEnd(c) ==
    /\ FAt(c, "close") /\ fp.num[c] = 0
    /\ LET x == fp.rx[c]
           p == FRel(fp, Range(fp.rq[x]))
       IN  fp' = [p EXCEPT !.pc[c] = "idle", !.open[c] = FALSE, !.rx[c] = None,
                           !.rq[x] = <<>>, !.xfree = <<x>> \o @]

-----------------------------------------------------------------------------
(* The server. *)

FServerReceive == /\ ~fp.swait
                  /\ fp' = IF fp.sq = <<>> THEN [fp EXCEPT !.swait = TRUE]
                           ELSE [FTake(fp, Head(fp.sq), Svr) EXCEPT !.sq = Tail(@)]

FServerTimeout == fp.swait /\ fp' = [fp EXCEPT !.swait = FALSE]

FServerReply(m) == ~fp.swait /\ fp.onr[m] = Svr /\ fp' = FReply(fp, m)

-----------------------------------------------------------------------------

Unused == {m \in FMsgs : fp.onr[m] = None}

FPClient(c) ==
    \/ \E S \in (SUBSET Unused) \ {{}} : \E s \in SetToSeqs(S) : FPortalOpen(c, s)
    \/ FPortalReceive(c) \/ ReceiveEnds(c)
    \/ \E m \in FMsgs : FPortalSend(c, m) \/ ClientReply(c, m)
    \/ FCloseBegin(c) \/ FCloseReceive(c) \/ FCloseRel(c) \/ FCloseTimeout(c) \/ FCloseEnd(c)

FPortalNext == \/ \E c \in Clients : FPClient(c)
               \/ FServerReceive \/ FServerTimeout \/ \E m \in FMsgs : FServerReply(m)

FPortalSpec == FPortalInit /\ [][FPortalNext]_fp

-----------------------------------------------------------------------------
(* Properties. *)

\* Type invariant: every field of the portal keeps its type.
FPortalTypeOK == fp \in FPortalType

(***************************************************************************)
(* A portal that is closed while its messages are in its rxchg, or the one *)
(* of them that the client holds is the one its FPCS names, leaves no      *)
(* message behind and does not wait: whatever the FPCS named before, for   *)
(* the server's receiving changes it, and whatever a late reply put into   *)
(* an exchange that was used before.  A portal whose messages the server   *)
(* has, or will receive, is closed without them.                           *)
(***************************************************************************)
CloseReleasesAll == \A c \in Clients : fp.calm[c] =>
    /\ fp.pc[c] # "closewait"
    /\ ~fp.open[c] => \A m \in FMsgs : fp.fpcsh[m] # c
=============================================================================
