------------------------------ MODULE MCSmxObjs -----------------------------
(***************************************************************************)
(* Messages, pipes, event groups, event queues, portals and heaps on small *)
(* instances.  A behaviour uses one kind of object, so that one run        *)
(* explores each.                                                          *)
(***************************************************************************)
EXTENDS SmxMsg, SmxPipe, SmxEventGroup, SmxEventQueue, SmxTPortal, SmxFPortal, SmxHeap

CONSTANTS a, b, spare,         \* tasks
          m1, m2,              \* messages
          norm, bcst,          \* exchanges
          pass, other

VARIABLES used,      \* bound: the objects of this behaviour
          active,    \* bound: the exchanges, or the clients of tunnel portals, that take part
          calls      \* bound: the calls that these clients may still start

MCMode == (norm :> "NORM") @@ (bcst :> "BCST") @@ (pass :> "PASS") @@ (other :> "PASS")

T(mode, mask, clear) == [mode |-> mode, mask |-> mask, clear |-> clear]

MCTests == { T("OR", {0, 1}, {}),        T("OR", {1, 2}, {1, 2}),
             T("AND", {0, 2}, {0, 2}),
             T("ANDOR", {0, 1, 3}, {2}), T("ANDOR", {0, 2, 3}, {0, 1, 2}),
             T("ANDOR", {0, 2, 4}, {1}) }

MCPerms == Permutations({a, b}) \union Permutations({m1, m2})

MCBinSz == (0 :> 3) @@ (1 :> 4)

\* Small blocks from a donor chunk; large blocks only, so that the top bin fills up and
\* is sorted; no donor chunk; and little but the donor chunk.
Setup(sz, dcsz, sizes, aligns, seeds, exts, max) ==
    [sz |-> sz, dcsz |-> dcsz, rec |-> TRUE, sizes |-> sizes, aligns |-> aligns,
     seeds |-> seeds, exts |-> exts, max |-> max]

MCSetups == { Setup(18, 6, {2, 5}, {0, 6}, {<<3, 2>>}, {<<19, 4>>, <<21, 4>>}, 3),
              Setup(23, 6, {3, 6}, {0, 6}, {<<3, 3>>}, {<<26, 5>>}, 2),
              Setup(16, 3, {2, 6}, {0}, {}, {<<19, 6>>}, 2),
              Setup(13, 8, {2}, {0, 4}, {}, {}, 2) }

Actives == [ messages |-> {{norm, bcst}, {pass, other}}, tunnel |-> {{a}, {a, b}},
             free |-> {{}}, pipe |-> {{}}, heap |-> {{}}, group |-> {{}}, queue |-> {{}} ]

MCInit ==
    /\ MsgInit /\ PipeInit /\ EventGroupInit /\ EventQueueInit /\ TPortalInit /\ FPortalInit
    /\ HeapInit
    /\ used \in DOMAIN Actives
    /\ active \in Actives[used]
    /\ calls = IF active = {a} THEN 5 ELSE 3
    /\ e.pri[spare] = 0
    /\ used # "messages" => \A t \in Tasks : e.pri[t] = 0
    /\ used # "pipe" => isr = "none"
    /\ used # "heap" => setup.max = 3
    /\ active # {a, b} => \A c \in Clients : tp.norm[c] = 0

\* Bound: task spare has no part in messages, and two exchanges are used.
MsgBound == /\ e'.pri[spare] = 0 /\ e'.norm[spare] = 0 /\ spare \notin e'.molp
            /\ \A m \in Msgs : e'.onr[m] # spare
            /\ \A x \in Xchgs : /\ spare \notin Range(e'.q[x])
                                /\ x \notin active => e'.q[x] = <<>>

\* Bound: one client makes 5 calls, or two make 3 between them; then these send one
\* block at a time to a server whose function does not fail, and the portal stays.
TPortalBound ==
    /\ calls' = calls - Cardinality({c \in Clients : AtClient(c, "idle")
                                                   /\ tp'.pc[c] \in {"load", "shell", "close"}})
    /\ calls' >= 0
    /\ \A c \in Clients \ active : tp'.pc[c] = "idle"
    /\ active = {a, b} =>
          /\ \A c \in Clients : ~tp'.hd[c].inc /\ tp'.op[c] # "RECEIVE" /\ tp'.left[c] <= 1
          /\ tp'.exists

MCNext ==
    /\ \/ used = "messages" /\ MsgNext /\ MsgBound
          /\ UNCHANGED <<pipeVars, egVars, eqVars, tp, fp, calls>>
       \/ used = "pipe" /\ PipeNext /\ UNCHANGED <<e, egVars, eqVars, tp, fp, calls>>
       \/ used = "group" /\ EventGroupNext /\ UNCHANGED <<e, pipeVars, eqVars, tp, fp, calls>>
       \/ used = "queue" /\ EventQueueNext /\ UNCHANGED <<e, pipeVars, egVars, tp, fp, calls>>
       \/ used = "tunnel" /\ TPortalNext /\ TPortalBound
          /\ UNCHANGED <<e, pipeVars, egVars, eqVars, fp>>
       \/ used = "free" /\ FPortalNext
          /\ UNCHANGED <<e, pipeVars, egVars, eqVars, tp, calls>>
       \/ used = "heap" /\ HeapNext
          /\ UNCHANGED <<e, pipeVars, egVars, eqVars, tp, fp, calls>>
       \/ used = "tunnel" /\ calls = 0
          /\ UNCHANGED <<e, pipeVars, egVars, eqVars, tp, fp, calls>>
       \/ used = "heap" /\ ~HeapDefined
          /\ UNCHANGED <<e, pipeVars, egVars, eqVars, tp, fp, heapVars, calls>>
    /\ used # "heap" => UNCHANGED heapVars
    /\ UNCHANGED <<used, active>>

MCSpec == MCInit /\ [][MCNext]_<<e, pipeVars, egVars, eqVars, tp, fp, heapVars,
                           used, active, calls>>

\* Type invariant of the six modules' variables.
ObjsTypeOK == /\ MsgTypeOK /\ PipeTypeOK /\ flags \subseteq Bits /\ sv \in [Tasks -> Nat]
              /\ TPortalTypeOK /\ FPortalTypeOK
=============================================================================
