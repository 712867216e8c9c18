----------------------------- MODULE SmxTPortal -----------------------------
(***************************************************************************)
(* Tunnel portals (src/SSMX/tportlc.c, src/SSMX/tportls.c, and bound       *)
(* messages in src/XSMX/xpmsg.c and src/XSMX/xmsg.c): clients call a       *)
(* server through a message each, whose header both write, and two         *)
(* semaphores.  The client signals ssem and tests csem, the server does    *)
(* the reverse.  Each may time out and leave the other with a signal, a    *)
(* queued message or a handle that no longer means what it meant.          *)
(*                                                                         *)
(* A step is one service call together with the accesses to the header     *)
(* next to it, but cmd is written and read in steps of its own where the   *)
(* source has a note on it.  The two semaphores of a client are created    *)
(* and deleted in one step.  Sizes are blocks of data.  Left out: requests *)
(* refused for their size, free messages sent to a tunnel portal, regions, *)
(* and messages that do not exist: a client gets a new one before it opens *)
(* a portal that was deleted with its message.                             *)
(*                                                                         *)
(* A second bound message that is queued before the server has received    *)
(* any makes smx_MsgPriorityPromotion() use a server that is NULL; what    *)
(* the program does then is not modelled, and no such step is taken.       *)
(***************************************************************************)
EXTENDS SmxPortal

CONSTANTS SCBs,        \* the control blocks of semaphores
          MaxBlocks,   \* bound: the blocks of a request
          TopPri       \* bound: the highest priority

ASSUME TPortalAssumption == /\ None \notin SCBs
                            /\ IsFiniteSet(SCBs)
                            /\ Cardinality(SCBs) >= 2 * Cardinality(Clients)
                            /\ MaxBlocks \in Nat \ {0}
                            /\ None \notin 0..MaxBlocks
                            /\ TopPri \in Nat

VARIABLE tp

TPHeader == [ cmd  : {"NOP", "OPEN", "SEND", "RECEIVE", "CLOSE"},
              sod  : BOOLEAN, eod : BOOLEAN,
              inc  : BOOLEAN,                 \* errno = SPE_TRANS_INC
              rqsz : 0..MaxBlocks,
              csem : SCBs \union {None},      \* shares its word with cmpsz
              ssem : SCBs \union {None} ]     \* and this one with the shell's fields

TPortalType ==
    [ exists : BOOLEAN,                       \* the portal has been created
      pool   : Seq(SCBs),                     \* free SCBs, the next one first
      cnt    : [SCBs -> BOOLEAN],             \* sem->count, limit 1
      \* The clients: where they are, and their TPCS.
      pc     : [Clients -> {"idle", "load", "send", "shell", "ask", "test", "wait",
                            "passed", "failed", "close"}],
      op     : [Clients -> {"NOP", "OPEN", "SEND", "RECEIVE"}],
      cre    : [Clients -> BOOLEAN],          \* csem_cre
      left   : [Clients -> 0..MaxBlocks],     \* blocks to go
      open   : [Clients -> BOOLEAN],
      csem   : [Clients -> SCBs \union {None}],
      ssem   : [Clients -> SCBs \union {None}],
      hd     : [Clients -> TPHeader],         \* the header of the client's message
      norm   : [Clients -> 0..TopPri],        \* prinorm
      pri    : [Clients -> 0..TopPri],
      mpri   : [Clients -> 0..TopPri],        \* the priority of the message
      \* sxchg
      queue  : Seq(Clients),                  \* clients whose message waits
      onr    : BOOLEAN,                       \* xchg->onr # NULL
      bct    : Clients \union {Svr, None},    \* xchg->bct
      \* The server: where it is, and its TPSS.
      spc    : {"stopped", "start", "idle", "receive", "got", "switch", "send", "recv",
                "signal", "test", "wait", "lost"},
      sess   : Clients \union {None},         \* whose message it has
      sopen  : BOOLEAN,
      scsem  : SCBs \union {None},
      sssem  : SCBs \union {None},
      sz     : 0..MaxBlocks \union {None},   \* None: not initialised yet
      spri   : 0..TopPri,
      \* History.
      sound  : [Clients -> BOOLEAN],          \* the portal was at rest when it was opened
      stage  : [Clients -> {"none", "asked", "begun", "done", "unasked"}],
      direct : BOOLEAN ]                      \* the server waited for the message it has

TPortalInit == \E n \in [Clients -> 0..TopPri] :
    tp = [ exists |-> FALSE, pool |-> SetToSeq(SCBs), cnt |-> [x \in SCBs |-> FALSE],
           pc   |-> [c \in Clients |-> "idle"], op   |-> [c \in Clients |-> "NOP"],
           cre  |-> [c \in Clients |-> FALSE],  left |-> [c \in Clients |-> 0],
           open |-> [c \in Clients |-> FALSE],
           csem |-> [c \in Clients |-> None],   ssem |-> [c \in Clients |-> None],
           hd   |-> [c \in Clients |-> [cmd |-> "NOP", sod |-> FALSE, eod |-> FALSE,
                                        inc |-> FALSE, rqsz |-> 0,
                                        csem |-> None, ssem |-> None]],
           norm |-> n, pri |-> n, mpri |-> [c \in Clients |-> 0],
           queue |-> <<>>, onr |-> FALSE, bct |-> None,
           spc |-> "stopped", sess |-> None, sopen |-> FALSE,
           scsem |-> None, sssem |-> None, sz |-> None, spri |-> 0,
           sound |-> [c \in Clients |-> FALSE], stage |-> [c \in Clients |-> "none"],
           direct |-> FALSE ]

-----------------------------------------------------------------------------
(* The semaphores. *)

Live(p, s) == s # None /\ s \notin Range(p.pool)

TPWaiters(p, s) == {c \in Clients : p.pc[c] = "wait" /\ p.csem[c] = s}
                   \union {t \in {Svr} : p.spc = "wait" /\ p.sssem = s}

\* The tasks in ws stop waiting.
TPResume(p, ws, ok) ==
    [p EXCEPT !.pc  = [c \in Clients |-> IF c \notin ws THEN @[c]
                                         ELSE IF ok THEN "passed" ELSE "failed"],
              !.spc = IF Svr \notin ws THEN @ ELSE IF ok THEN "switch" ELSE "lost"]

\* smx_SemSignal(s): the outcomes, for more than one task may wait at an SCB that
\* was deleted and created again.
Signalled(p, s) ==
    IF ~Live(p, s) THEN {p}
    ELSE IF TPWaiters(p, s) = {} THEN {[p EXCEPT !.cnt[s] = TRUE]}
    ELSE {TPResume(p, {w}, TRUE) : w \in TPWaiters(p, s)}

\* smx_SemClear(s)
Cleared(p, s) ==
    IF Live(p, s) THEN [TPResume(p, TPWaiters(p, s), FALSE) EXCEPT !.cnt[s] = FALSE] ELSE p

\* smx_SemDelete(&s)
Deleted(p, s) ==
    IF Live(p, s) THEN [Cleared(p, s) EXCEPT !.pool = <<s>> \o @] ELSE p

-----------------------------------------------------------------------------
(* mp_TPortalOpen() *)

AtClient(c, pc) == tp.pc[c] = pc

ToIdle(p, c) == [p EXCEPT !.pc[c] = "idle", !.op[c] = "NOP", !.left[c] = 0]

\* The semaphores that do not exist yet, and the header, with cmd = CLOSE.
OpenCreate(c) ==
    /\ AtClient(c, "idle")
    /\ tp.exists
    /\ LET new == tp.csem[c] = None
           cs  == IF new THEN tp.pool[1] ELSE tp.csem[c]
           ss  == IF new THEN tp.pool[2] ELSE tp.ssem[c]
       IN  tp' = [tp EXCEPT !.pc[c] = "load", !.op[c] = "OPEN", !.cre[c] = new,
                            !.pool = IF new THEN SubSeq(@, 3, Len(@)) ELSE @,
                            !.csem[c] = cs, !.ssem[c] = ss,
                            !.hd[c] = [cmd |-> "CLOSE", sod |-> FALSE, eod |-> FALSE,
                                       inc |-> FALSE, rqsz |-> 0, csem |-> cs, ssem |-> ss]]

OpenLoad(c) == /\ AtClient(c, "load")
               /\ tp' = [tp EXCEPT !.pc[c] = "send", !.hd[c].cmd = "OPEN"]

\* Ahead of the first message of lower priority.
QueueMsg(p, c) ==
    LET q     == Without(p.queue, c)
        lower == {i \in DOMAIN q : p.mpri[q[i]] < p.mpri[c]}
    IN  [p EXCEPT !.queue = InsertAt(q, Min(lower \union {Len(q) + 1}), c)]

\* Mutant: the client that is served keeps its priority.
PromoteServer_Only(p, c) ==
    IF p.onr THEN [p EXCEPT !.spri = Max({@, p.mpri[c]})] ELSE p

\* smx_MsgPriorityPromotion(): the server, then the bound client.
PromoteServer(p, c) ==
    LET sp == IF p.onr THEN Max({p.spri, p.mpri[c]}) ELSE p.spri
    IN  [p EXCEPT !.spri = sp,
                  !.pri  = [d \in Clients |-> IF d = p.bct THEN sp ELSE @[d]]]

\* smx_PMsgSendB(): to the server that waits, or into the queue.
SendBound(p, c) ==
    IF ~p.exists THEN p
    ELSE IF p.spc = "receive"
         THEN [p EXCEPT !.spc = "got", !.sess = c, !.direct = TRUE,
                        !.bct = c, !.onr = TRUE, !.spri = p.mpri[c]]
         ELSE LET q == PromoteServer(QueueMsg(p, c), c)
              IN  [q EXCEPT !.bct = c, !.pri[c] = IF q.onr THEN q.spri ELSE @]

\* The semaphores that the server uses or may load.
InUse(p) == ({p.scsem, p.sssem}
             \union UNION {{p.hd[d].csem, p.hd[d].ssem} : d \in Clients \intersect {p.sess}})
            \ {None}

AtRest(p, c) == /\ ~p.open[c]
                /\ p.cre[c] => ~p.cnt[p.csem[c]]   \* otherwise it is cleared
                /\ ~p.cnt[p.ssem[c]]
                /\ {p.csem[c], p.ssem[c]} \intersect InUse(p) = {}

\* Mutant: csem is not cleared.
ClearCsem_No(p, c) == p

\* csem may have a signal from earlier use.
ClearCsem(p, c) == IF p.cre[c] THEN p ELSE Cleared(p, p.csem[c])

OpenSend(c) ==
    /\ AtClient(c, "send")
    /\ tp.bct = None \/ tp.onr \/ ~tp.exists
    /\ LET p == ClearCsem(tp, c)
       IN  tp' = SendBound([p EXCEPT !.pc[c] = "test", !.cre[c] = FALSE, !.mpri[c] = p.pri[c],
                                     !.sound[c] = AtRest(p, c), !.stage[c] = "none"], c)

\* smx_SemTest(csem, tmo)
ClientTest(c) ==
    /\ AtClient(c, "test")
    /\ LET s == tp.csem[c]
       IN  tp' = IF tp.cnt[s] THEN [tp EXCEPT !.cnt[s] = FALSE, !.pc[c] = "passed"]
                 ELSE [tp EXCEPT !.pc[c] = "wait"]

ClientTimeout(c) == AtClient(c, "wait") /\ tp' = TPResume(tp, {c}, FALSE)

\* A portal that was open stays open if this fails.
OpenEnds(c) ==
    /\ tp.op[c] = "OPEN"
    /\ \/ AtClient(c, "passed") /\ tp' = ToIdle([tp EXCEPT !.open[c] = TRUE], c)
       \/ AtClient(c, "failed") /\ tp' = ToIdle(tp, c)

-----------------------------------------------------------------------------
(* mp_TPortalSend() and mp_TPortalReceive(), called by a shell. *)

\* The shell writes its fields, for a request of n blocks.
Shell(c, o, n) ==
    /\ AtClient(c, "idle")
    /\ tp.csem[c] # None
    /\ tp' = [tp EXCEPT !.pc[c] = "shell", !.op[c] = o, !.left[c] = n, !.hd[c].ssem = None]

\* cmpsz and cmd are written before open is tested.
Command(c) ==
    /\ AtClient(c, "shell")
    /\ LET p == [tp EXCEPT !.hd[c].csem = None, !.hd[c].cmd = tp.op[c]]
       IN  tp' = IF tp.open[c] THEN [p EXCEPT !.pc[c] = "ask"]
                 ELSE ToIdle([p EXCEPT !.hd[c].inc = FALSE], c)

\* A block is asked for, or sent.
AskFor(c, h, n) ==
    tp' \in Signalled([tp EXCEPT !.pc[c] = "test", !.hd[c] = h, !.left[c] = n,
                                 !.stage[c] = "asked"], tp.ssem[c])

Ask(c) ==
    /\ AtClient(c, "ask")
    /\ AskFor(c, [tp.hd[c] EXCEPT !.sod = TRUE, !.inc = FALSE, !.rqsz = tp.left[c],
                                  !.eod = tp.op[c] = "SEND" /\ tp.left[c] = 1], tp.left[c])

RequestTimesOut(c) ==
    /\ AtClient(c, "failed")
    /\ tp.op[c] # "OPEN"
    /\ tp' = ToIdle([tp EXCEPT !.open[c] = FALSE, !.hd[c].inc = FALSE], c)

\* Whether the block that was answered is the last one.
IsLast(c) == IF tp.op[c] = "SEND" THEN tp.left[c] = 1 ELSE tp.hd[c].eod

\* The transfer is incomplete, complete, or the portal was closed meanwhile.
RequestEnds(c) ==
    /\ AtClient(c, "passed")
    /\ tp.op[c] # "OPEN"
    /\ tp.hd[c].inc \/ IsLast(c) \/ ~tp.open[c]
    /\ LET received == tp.op[c] = "RECEIVE" /\ ~tp.hd[c].inc /\ tp.open[c]
       IN  tp' = ToIdle([tp EXCEPT !.hd[c] = [tp.hd[c] EXCEPT !.inc = FALSE,
                                                              !.eod = @ /\ ~received]], c)

NextBlock(c) ==
    /\ AtClient(c, "passed")
    /\ tp.op[c] # "OPEN"
    /\ ~tp.hd[c].inc /\ ~IsLast(c) /\ tp.open[c]
    /\ LET n == Max({tp.left[c] - 1, 0})
       IN  AskFor(c, [tp.hd[c] EXCEPT !.eod = @ \/ (tp.op[c] = "SEND" /\ n = 1)], n)

-----------------------------------------------------------------------------
(* mp_TPortalClose() *)

CloseBegin(c) ==
    /\ AtClient(c, "idle")
    /\ tp.exists /\ tp.csem[c] # None
    /\ tp' \in Signalled([tp EXCEPT !.pc[c] = "close", !.hd[c].cmd = "CLOSE"], tp.ssem[c])

\* A portal that does not exist is closed at this end only.
CloseEnd(c) ==
    /\ AtClient(c, "close") \/ (AtClient(c, "idle") /\ ~tp.exists /\ tp.csem[c] # None)
    /\ LET p == Deleted(Deleted(tp, tp.csem[c]), tp.ssem[c])
       IN  tp' = [p EXCEPT !.pc[c] = "idle", !.open[c] = FALSE, !.pri[c] = p.norm[c],
                           !.csem[c] = None, !.ssem[c] = None]

-----------------------------------------------------------------------------
(* mp_TPortalServer() *)

\* smx_PMsgReceive(sxchg): the server becomes the owner of sxchg, and the bound
\* client, if a message waits; if none does there is neither.
ServerReceive ==
    /\ tp.spc \in {"start", "idle"}
    /\ tp' = IF tp.queue = <<>>
             THEN [tp EXCEPT !.spc = "receive", !.onr = FALSE, !.bct = None]
             ELSE LET c == Head(tp.queue)
                  IN  [tp EXCEPT !.spc = "got", !.sess = c, !.queue = Tail(@), !.direct = FALSE,
                                 !.onr = TRUE, !.bct = Svr, !.spri = tp.mpri[c]]

\* The TPSS is initialised for the next message.
ToNextMsg(p) == [p EXCEPT !.spc = "idle", !.sess = None, !.sopen = FALSE, !.direct = FALSE,
                          !.scsem = None, !.sssem = None]

\* The same, after an error was written to the header.
GivesUp(p) == ToNextMsg([p EXCEPT !.hd[p.sess].inc = FALSE])

\* The first command must be OPEN.
ServerGot ==
    /\ tp.spc = "got"
    /\ tp' = IF tp.hd[tp.sess].cmd = "OPEN" THEN [tp EXCEPT !.spc = "switch"] ELSE GivesUp(tp)

\* What is done once more, or without having been asked for, is "unasked".
Begin(p, c) == [p EXCEPT !.stage[c] = IF @ = "asked" THEN "begun" ELSE "unasked"]

BlocksToGo(h) == IF h.sod THEN {h.rqsz}
                 ELSE IF tp.sz = None THEN 0..MaxBlocks ELSE {tp.sz}

ServerSwitch ==
    /\ tp.spc = "switch"
    /\ LET c == tp.sess
           h == tp.hd[c]
       IN  \/ /\ h.cmd = "OPEN"
              /\ tp' = [tp EXCEPT !.spc = "signal", !.sopen = TRUE,
                                  !.scsem = h.csem, !.sssem = h.ssem]
           \/ h.cmd = "SEND" /\ tp' = [Begin(tp, c) EXCEPT !.spc = "send"]
           \/ /\ h.cmd = "RECEIVE"
              /\ \E n \in BlocksToGo(h) : tp' = [Begin(tp, c) EXCEPT !.spc = "recv", !.sz = n]
           \/ h.cmd = "CLOSE" /\ tp' = ToNextMsg(tp)

\* The loop ends if the portal is not open.
ServerServed(p) ==
    LET q == [p EXCEPT !.stage[p.sess] = IF @ = "begun" THEN "done" ELSE @]
    IN  IF q.sopen THEN [q EXCEPT !.spc = "signal"] ELSE ToNextMsg(q)

\* The server function returns; it may have failed.
ServerSent ==
    /\ tp.spc = "send"
    /\ \E fails \in BOOLEAN :
          tp' = ServerServed([tp EXCEPT !.hd[tp.sess] =
                    [tp.hd[tp.sess] EXCEPT !.sod = FALSE, !.eod = FALSE, !.inc = @ \/ fails]])

SetEod(n, eod) == n = 0 \/ eod

ServerReceived ==
    /\ tp.spc = "recv"
    /\ LET n == Max({tp.sz - 1, 0})
       IN  \E fails \in BOOLEAN :
              tp' = ServerServed([tp EXCEPT !.sz = n, !.hd[tp.sess] =
                        [tp.hd[tp.sess] EXCEPT !.sod = FALSE, !.eod = SetEod(n, @),
                                               !.inc = @ \/ fails]])

ServerSignal == /\ tp.spc = "signal"
                /\ tp' \in Signalled([tp EXCEPT !.spc = "test"], tp.scsem)

\* smx_SemTest(ssem, stmo); it fails if ssem is no semaphore.
ServerTest ==
    /\ tp.spc = "test"
    /\ LET s == tp.sssem
       IN  tp' = IF ~Live(tp, s) THEN GivesUp(tp)
                 ELSE IF tp.cnt[s] THEN [tp EXCEPT !.cnt[s] = FALSE, !.spc = "switch"]
                 ELSE [tp EXCEPT !.spc = "wait"]

\* A timeout, or ssem was deleted.
ServerTimeout == tp.spc \in {"wait", "lost"} /\ tp' = GivesUp(tp)

-----------------------------------------------------------------------------
(* mp_TPortalCreate(), after which the portal task is started, and           *)
(* mp_TPortalDelete(), which stops it and releases the messages that wait.   *)

TPortalCreate == ~tp.exists /\ tp' = [tp EXCEPT !.exists = TRUE, !.spc = "start"]

TPortalDelete ==
    /\ tp.exists
    /\ tp' = [ToNextMsg(tp) EXCEPT !.exists = FALSE, !.spc = "stopped", !.queue = <<>>,
                                   !.onr = FALSE, !.bct = None, !.sz = None,
                                   !.open = [c \in Clients |-> FALSE]]

-----------------------------------------------------------------------------

TPClient(c) ==
    \/ OpenCreate(c) \/ OpenLoad(c) \/ OpenSend(c) \/ OpenEnds(c)
    \/ \E o \in {"SEND", "RECEIVE"}, n \in 1..MaxBlocks : Shell(c, o, n)
    \/ Command(c) \/ Ask(c) \/ NextBlock(c) \/ RequestEnds(c) \/ RequestTimesOut(c)
    \/ ClientTest(c) \/ ClientTimeout(c)
    \/ CloseBegin(c) \/ CloseEnd(c)

TPServer == \/ ServerReceive \/ ServerGot \/ ServerSwitch \/ ServerSent \/ ServerReceived
            \/ ServerSignal \/ ServerTest \/ ServerTimeout

TPortalNext == (\E c \in Clients : TPClient(c)) \/ TPServer \/ TPortalCreate \/ TPortalDelete

TPortalSpec == TPortalInit /\ [][TPortalNext]_tp

-----------------------------------------------------------------------------
(* Properties. *)

\* Type invariant: every field of the portal keeps its type.
TPortalTypeOK == tp \in TPortalType

(***************************************************************************)
(* A client that opened the portal while nothing was left of earlier use   *)
(* takes no answer for another one's: when its test of csem passes, the    *)
(* server has served that block, once, and says that it was the last one   *)
(* when it was; and the two never wait for each other.  Both timeouts may  *)
(* come at any moment, and everything else may be reopened or closed.  It  *)
(* does not hold for a client that reopens a portal whose ssem the server  *)
(* has not tested since its last signal, or whose semaphores the server    *)
(* still uses.                                                             *)
(***************************************************************************)
AnswersMatch == \A c \in Clients : tp.sound[c] /\ tp.op[c] \in {"SEND", "RECEIVE"} =>
    /\ AtClient(c, "passed") =>
          /\ tp.stage[c] = "done"
          /\ tp.op[c] = "RECEIVE" => (tp.hd[c].eod <=> tp.left[c] = 1)
    /\ AtClient(c, "wait") => ~(tp.sess = c /\ tp.spc = "wait")

(***************************************************************************)
(* The client that is served keeps no other one waiting at a priority      *)
(* below that of the other's message, if the server waited for its message *)
(* and no third client has opened since.  If its message was queued, or    *)
(* with a third client, smx_MsgPriorityPromotion() promotes another task,  *)
(* the one that xchg->bct names: the server itself, or the client that was *)
(* queued last.  And xchg->bct is not left without an owner of sxchg to    *)
(* take the priority from, once the server has received.                   *)
(***************************************************************************)
ServedIsPromoted ==
    /\ tp.bct # None /\ ~tp.onr => tp.spc = "start"
    /\ \A c \in Clients :
          tp.sess = c /\ tp.sopen /\ tp.open[c] /\ tp.direct /\ Len(tp.queue) <= 1
          => \A d \in Range(tp.queue) : tp.pri[c] >= tp.mpri[d]
=============================================================================
