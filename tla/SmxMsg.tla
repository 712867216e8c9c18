------------------------------- MODULE SmxMsg -------------------------------
(***************************************************************************)
(* Messages and message exchanges (src/XSMX/xmsg.c, and the message queues *)
(* of src/XSMX/xsmx.c).                                                    *)
(*                                                                         *)
(* An exchange has one queue, which holds either messages or tasks that    *)
(* wait for one; the flags mq and tq say which, and the code decides by    *)
(* them what the first element of the queue is.  A normal exchange gives   *)
(* each message to one task; a pass exchange gives the task the priority   *)
(* of the message, too, and may promote its server, the last task that     *)
(* received from it; a broadcast exchange keeps one message, which stays   *)
(* its sender's and which any number of tasks receive.                     *)
(*                                                                         *)
(* A message whose exchange does not say that it has one would be taken    *)
(* for a task by the next caller: what the program does then is not        *)
(* modelled, and the behaviour ends.  Left out: blocks and their pools,    *)
(* handles, privileges, bound messages of portals and callbacks.           *)
(***************************************************************************)
EXTENDS SmxTask

CONSTANTS Msgs,    \* the MCBs
          Xchgs,
          Mode,    \* each exchange's mode
          Server,  \* the exchanges created with pi
          MaxPri   \* SMX_PRI_NUM - 1

ASSUME MsgAssumption == /\ IsFiniteSet(Xchgs)
                        /\ Tasks \intersect (Msgs \union Xchgs) = {}
                        /\ {Lsr, None} \intersect Xchgs = {}
                        /\ Mode \in [Xchgs -> {"NORM", "PASS", "BCST"}]
                        /\ Server \subseteq {x \in Xchgs : Mode[x] = "PASS"}
                        /\ MaxPri \in Nat

VARIABLE e   \* the messages, the exchanges and what they need of the tasks

Pris == 0..MaxPri

MsgType ==
    [ q    : [Xchgs -> Seq(Msgs \union Tasks)],
      mq   : [Xchgs -> BOOLEAN],
      tq   : [Xchgs -> BOOLEAN],
      xonr : [Xchgs -> Tasks \union {None}],               \* xchg->onr
      onr  : [Msgs -> Tasks \union Xchgs \union {Lsr, None}], \* None: in its pool
      mpri : [Msgs -> Pris],                               \* msg->pri
      pri  : [Tasks -> Pris],
      norm : [Tasks -> Pris],                              \* prinorm
      molp : SUBSET Tasks ]                                \* tasks that own a mutex

\* smx_MsgXchgCreate()
MsgInit == \E p \in [Tasks -> Pris] :
    e = [ q    |-> [x \in Xchgs |-> <<>>],
          mq   |-> [x \in Xchgs |-> FALSE],
          tq   |-> [x \in Xchgs |-> FALSE],
          xonr |-> [x \in Xchgs |-> None],
          onr  |-> [m \in Msgs |-> None],
          mpri |-> [m \in Msgs |-> 0],
          pri  |-> p, norm |-> p, molp |-> {} ]

-----------------------------------------------------------------------------
(* The queue of an exchange. *)

\* The exchanges whose queue holds z, a message or a task.
At(f, z) == {x \in Xchgs : z \in Range(f.q[x])}

Waits(t) == At(e, t) # {}

Pri(f, z) == IF z \in Tasks THEN f.pri[z] ELSE f.mpri[z]

\* Ahead of the first one of lower priority.
ByPriority(f, s, z) ==
    LET lower == {i \in DOMAIN s : Pri(f, s[i]) < Pri(f, z)}
    IN  InsertAt(s, Min(lower \union {Len(s) + 1}), z)

\* Mutant: the flag stays when the last message leaves.
DQMsg_KeepFlag(f, m) ==
    LET x == CHOOSE x \in At(f, m) : TRUE IN [f EXCEPT !.q[x] = Without(@, m)]

\* smx_DQMsg(m), and smx_DQFMsg(q) for the first message.
DQMsg(f, m) ==
    LET x == CHOOSE x \in At(f, m) : TRUE
    IN  [f EXCEPT !.q[x] = Without(@, m), !.mq[x] = @ /\ Len(f.q[x]) > 1]

\* Mutant: the message goes to the end.
PNQMsg_Last(f, x, m) == [f EXCEPT !.q[x] = Append(@, m)]

\* smx_PNQMsg(q, m, cb) leaves the flag to its caller.
PNQMsg(f, x, m) == [f EXCEPT !.q[x] = ByPriority(f, @, m)]

\* smx_DQTask(t) clears tq only if t was alone in the queue.
DQTask(f, t) ==
    LET x == CHOOSE x \in At(f, t) : TRUE
    IN  [f EXCEPT !.q[x] = Without(@, t), !.tq[x] = @ /\ Len(f.q[x]) > 1]

\* smx_ReQTask(t) moves t if it waits in a priority queue.
ReQTask(f, t) ==
    [f EXCEPT !.q = [x \in Xchgs |->
        IF x \in At(f, t) /\ Mode[x] # "BCST" THEN ByPriority(f, Without(@[x], t), t)
        ELSE @[x]]]

\* smx_MsgRel_F(msg) gives the MCB back, cleared.
MsgRel_F(f, m) == [f EXCEPT !.onr[m] = None, !.mpri[m] = 0]

\* smx_MCBOnrTest(msg): an LSR may use any message that is not in its pool.
Owned(c, m) == IF c = Lsr THEN e.onr[m] # None ELSE e.onr[m] = c

\* An LSR, or a task that does not wait.
MayCall(c) == c # Lsr => ~Waits(c)

Callers == Tasks \union {Lsr}

-----------------------------------------------------------------------------
(* Priorities. *)

\* Mutant: the server is promoted now, and not when it releases its mutex.
Promote_NotNormal(f, x, m) ==
    LET t == f.xonr[x]
    IN  IF t = None \/ f.mpri[m] <= f.pri[t] THEN f
        ELSE ReQTask([f EXCEPT !.pri[t] = f.mpri[m]], t)

\* smx_MsgPriorityPromotion(xchg, msg)
Promote(f, x, m) ==
    LET t == f.xonr[x]
        p == f.mpri[m]
    IN  IF t = None THEN f
        ELSE IF p > f.pri[t] THEN ReQTask([f EXCEPT !.pri[t] = p, !.norm[t] = p], t)
        ELSE IF p > f.norm[t] THEN [f EXCEPT !.norm[t] = p]
        ELSE f

\* A message of priority p changes the priority of t, lowering it only if t
\* owns no mutex.
Moves(f, t, p) == p > f.pri[t] \/ (p < f.pri[t] /\ t \notin f.molp)

\* Mutant: every exchange remembers its last receiver.
Serves_Any(x) == TRUE

\* The receiver becomes the server of x.
Serves(x) == x \in Server

-----------------------------------------------------------------------------
(* SSRs. *)

\* smx_MsgGet() and smx_MsgMake()
MsgGet(c, m) == /\ MayCall(c)
                /\ e.onr[m] = None
                /\ e' = [e EXCEPT !.onr[m] = c]

\* smx_MsgSend() when a task waits: it becomes the owner, and is resumed.
Give(f, x, m) ==
    LET t  == Head(f.q[x])
        p  == f.mpri[m]
        f1 == [f EXCEPT !.q[x] = Tail(@), !.tq[x] = Len(f.q[x]) > 1, !.onr[m] = t,
                        !.xonr[x] = IF Serves(x) THEN t ELSE @]
    IN  IF Mode[x] # "PASS" THEN f1
        ELSE [f1 EXCEPT !.norm[t] = p, !.pri[t] = IF Moves(f, t, p) THEN p ELSE @]

\* Otherwise the message waits, and the exchange is its owner.
Post(f, x, m) ==
    LET f1 == [PNQMsg(f, x, m) EXCEPT !.mq[x] = TRUE]
    IN  [(IF x \in Server THEN Promote(f1, x, m) ELSE f1) EXCEPT !.onr[m] = x]

\* A broadcast: all tasks are resumed, and the message stands in for the one
\* sent before, which is released whoever still uses it.  Its owner stays its
\* owner, be it an exchange that an LSR has taken the message out of.
Broadcast(f, x, m) ==
    LET f1  == IF f.tq[x] THEN [f EXCEPT !.q[x] = <<>>, !.tq[x] = FALSE] ELSE f
        old == f1.q[x]
        f2  == IF old = <<>> THEN f1 ELSE MsgRel_F(DQMsg(f1, Head(old)), Head(old))
    IN  [f2 EXCEPT !.q[x] = <<m>>, !.mq[x] = TRUE]

\* smx_MsgSend(msg, xchg, pri, reply); a message broadcast earlier, or sent by an
\* LSR, may be in a queue.
MsgSend(c, m, x, p) ==
    /\ MayCall(c)
    /\ Owned(c, m)
    /\ LET f1 == IF At(e, m) # {} THEN DQMsg(e, m) ELSE e
           f2 == [f1 EXCEPT !.mpri[m] = p]
       IN  e' = IF Mode[x] = "BCST" THEN Broadcast(f2, x, m)
                ELSE IF f2.tq[x] THEN Give(f2, x, m)
                ELSE Post(f2, x, m)

\* smx_MsgReceive_F() with a message; an LSR keeps the priority of its task.
Take(f, c, x) ==
    LET m  == Head(f.q[x])
        p  == f.mpri[m]
        f1 == [DQMsg(f, m) EXCEPT !.onr[m] = c]
        f2 == IF Moves(f, c, p) THEN [f1 EXCEPT !.pri[c] = p, !.norm[c] = p] ELSE f1
    IN  IF Mode[x] # "PASS" \/ c = Lsr THEN f1
        ELSE [f2 EXCEPT !.xonr[x] = IF Serves(x) THEN c ELSE @]

\* smx_MsgReceive_F() without one.
Wait(f, t, x) == [f EXCEPT !.q[x] = IF Mode[x] = "BCST" THEN Append(@, t)
                                    ELSE ByPriority(f, @, t),
                           !.tq[x] = TRUE]

\* smx_MsgReceive(), smx_MsgReceiveStop().  Any number of tasks receive a
\* broadcast, which changes nothing here.
MsgReceive(c, x) ==
    /\ MayCall(c)
    /\ Mode[x] = "BCST" => ~e.mq[x]
    /\ \/ e.mq[x] /\ e' = Take(e, c, x)
       \/ ~e.mq[x] /\ c # Lsr /\ e' = Wait(e, c, x)

\* smx_MsgBump(msg, pri), which need not be the owner's.  The exchange is found
\* before the message is taken out of it, and mq may be cleared.
MsgBump(m, p) ==
    /\ e.onr[m] # None
    /\ LET f1 == [e EXCEPT !.mpri[m] = p]
           xs == At(e, m)
           x  == CHOOSE x \in xs : TRUE
           f2 == PNQMsg(DQMsg(f1, m), x, m)
       IN  e' = IF xs = {} THEN f1
                ELSE IF x \in Server THEN Promote(f2, x, m) ELSE f2

\* smx_MsgRel(), smx_MsgUnmake()
MsgRel(c, m) ==
    /\ MayCall(c)
    /\ Owned(c, m)
    /\ e' = MsgRel_F(IF At(e, m) # {} THEN DQMsg(e, m) ELSE e, m)

\* smx_MsgRelAll(task), also when the task is deleted: nothing is dequeued.
MsgRelAll(t) ==
    e' = [e EXCEPT !.onr  = [m \in Msgs |-> IF @[m] = t THEN None ELSE @[m]],
                   !.mpri = [m \in Msgs |-> IF e.onr[m] = t THEN 0 ELSE @[m]]]

\* smx_MsgXchgClear(xchg): the tasks are resumed, the messages released.
MsgXchgClear(x) ==
    LET ms == Range(e.q[x]) \intersect Msgs
    IN  e' = [e EXCEPT !.q[x] = <<>>, !.tq[x] = FALSE, !.mq[x] = FALSE,
                       !.onr  = [m \in Msgs |-> IF m \in ms THEN None ELSE @[m]],
                       !.mpri = [m \in Msgs |-> IF m \in ms THEN 0 ELSE @[m]]]

-----------------------------------------------------------------------------
(* What happens to the tasks meanwhile. *)

\* A timeout, which may raise the task to its pritmo, or a task SSR that takes
\* it out of the queue.
Withdraw(t, p) ==
    /\ Waits(t)
    /\ p >= e.pri[t]
    /\ e' = [DQTask(e, t) EXCEPT !.pri[t] = p]

\* smx_TaskBump(task, pri)
TaskBump(t, p) ==
    e' = ReQTask([e EXCEPT !.norm[t] = p,
                           !.pri[t] = IF p > @ \/ t \notin e.molp THEN p ELSE @], t)

\* smx_MutexGet(): t owns a mutex.
MutexGet(t) == /\ MayCall(t)
               /\ t \notin e.molp
               /\ e' = [e EXCEPT !.molp = @ \union {t}]

\* A ceiling, or a task that waits for the mutex, promotes its owner.
MutexPromote(t, p) == /\ t \in e.molp
                      /\ p > e.pri[t]
                      /\ e' = ReQTask([e EXCEPT !.pri[t] = p], t)

\* smx_MutexRel(): the owner's last mutex.
MutexRel(t) == /\ MayCall(t)
               /\ t \in e.molp
               /\ e' = [e EXCEPT !.molp = @ \ {t}, !.pri[t] = e.norm[t]]

MsgCall == \E m \in Msgs : \/ \E c \in Callers : MsgGet(c, m) \/ MsgRel(c, m)
                           \/ \E p \in Pris : MsgBump(m, p)

XchgCall == \E x \in Xchgs : \/ MsgXchgClear(x)
                             \/ \E c \in Callers : MsgReceive(c, x)
                             \/ \E c \in Callers, m \in Msgs, p \in Pris : MsgSend(c, m, x, p)

TaskCall == \E t \in Tasks : \/ MsgRelAll(t) \/ MutexGet(t) \/ MutexRel(t)
                             \/ \E p \in Pris : \/ Withdraw(t, p)
                                                \/ TaskBump(t, p)
                                                \/ MutexPromote(t, p)

-----------------------------------------------------------------------------
(* Properties. *)

\* The flags say what is in the queues.
FlagsTrue ==
    \A x \in Xchgs : /\ e.tq[x] <=> Range(e.q[x]) \intersect Tasks # {}
                     /\ e.mq[x] <=> Range(e.q[x]) \intersect Msgs # {}
                     /\ ~(e.tq[x] /\ e.mq[x])

\* A task or a message is in one place at most.  A message that waits at an
\* exchange is the exchange's; a broadcast exchange has one, not a free one; and
\* what is an exchange's waits at some exchange.
PlacesTrue ==
    /\ \A z \in Tasks \union Msgs : Cardinality(At(e, z)) <= 1
    /\ \A x \in Xchgs : IsInjective(e.q[x])
    /\ \A m \in Msgs, x \in Xchgs : m \in Range(e.q[x]) =>
          IF Mode[x] = "BCST" THEN Len(e.q[x]) = 1 /\ e.onr[m] # None
          ELSE e.onr[m] = x
    /\ \A m \in Msgs : e.onr[m] \in Xchgs => At(e, m) # {}

Intact == FlagsTrue /\ PlacesTrue

\* The messages that belong to an exchange and have left it.
Astray == {m \in Msgs : e.onr[m] \in Xchgs /\ m \notin Range(e.q[e.onr[m]])}

MsgNext == \/ Intact /\ (MsgCall \/ XchgCall \/ TaskCall)
           \/ ~Intact /\ UNCHANGED e   \* the next caller takes a message for a task

MsgSpec == MsgInit /\ [][MsgNext]_e

\* Type invariant; only an exchange created with pi has a server.
MsgTypeOK == /\ e \in MsgType
             /\ \A x \in Xchgs \ Server : e.xonr[x] = None

(***************************************************************************)
(* Messages wait, and tasks wait for messages, the most urgent first       *)
(* whatever calls, bumps, promotions and timeouts came before: a message   *)
(* is not overtaken by a less urgent one.                                  *)
(***************************************************************************)
MostUrgentFirst ==
    \A x \in Xchgs : Mode[x] # "BCST" =>
        \A i \in 1..Len(e.q[x]) - 1 : Pri(e, e.q[x][i]) >= Pri(e, e.q[x][i + 1])

(***************************************************************************)
(* Whatever is sent, received, released, bumped, cleared or timed out, in  *)
(* whatever order, the flags of an exchange say what is in its queue and a *)
(* message has one place, which its owner knows, with three exceptions.    *)
(* smx_MsgBump() of the only message of an exchange clears mq, so that     *)
(* nobody will receive the message and a task is put in the queue behind   *)
(* it.  smx_MsgRelAll(), which smx_TaskDelete() calls, frees a message the *)
(* task has broadcast and leaves it in the queue.  And an LSR, which may   *)
(* send any message, broadcasts one that waits at another exchange: the    *)
(* message goes on belonging to the exchange it has been taken out of, and *)
(* no task can send or release it.                                         *)
(***************************************************************************)
OnlyTheseBreakExchanges ==
    [][/\ Intact /\ ~Intact' =>
             \/ \E x \in Xchgs, m \in Msgs, p \in Pris : e.q[x] = <<m>> /\ MsgBump(m, p)
             \/ \E x \in Xchgs, t \in Tasks : /\ Mode[x] = "BCST"
                                              /\ \E m \in Range(e.q[x]) : e.onr[m] = t
                                              /\ MsgRelAll(t)
       /\ \/ Astray' \subseteq Astray
          \/ \E m \in Msgs, x \in Xchgs, p \in Pris : /\ Mode[x] = "BCST"
                                                      /\ e.onr[m] \in Xchgs
                                                      /\ MsgSend(Lsr, m, x, p)]_e

\* The server of an exchange is as urgent as the first message that waits, and
\* stays so when it releases its mutexes or its priority returns to prinorm.
ServersKeepUp ==
    \A x \in Server : (e.xonr[x] # None /\ e.mq[x]) =>
        /\ e.pri[e.xonr[x]] >= e.mpri[Head(e.q[x])]
        /\ e.norm[e.xonr[x]] >= e.mpri[Head(e.q[x])]

(***************************************************************************)
(* A server falls behind the messages waiting for it in two ways only: its *)
(* prinorm is lowered, by smx_TaskBump() or by a less urgent message of    *)
(* another exchange; or smx_MsgReceive_F() leaves prinorm alone because    *)
(* the task's priority needs no change or it owns a mutex, although its    *)
(* comment says that it assigns the priority of the message to prinorm.    *)
(***************************************************************************)
OnlyTheseFallBehind ==
    [][ServersKeepUp /\ ~ServersKeepUp' /\ Intact /\ Intact' =>
          \/ \E t \in Tasks : e'.norm[t] < e.norm[t]
          \/ \E t \in Tasks, x \in Server : /\ MsgReceive(t, x)
                                            /\ e.mq[x]
                                            /\ e'.norm[t] = e.norm[t]]_e
=============================================================================
