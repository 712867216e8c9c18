--------------------------- MODULE SmxPortalProofs --------------------------
(***************************************************************************)
(* Theorems about SmxTPortal, for every number of clients, of semaphores   *)
(* and of priorities, and for requests of every size.                      *)
(***************************************************************************)
EXTENDS SmxTPortal, SmxLemmas, FiniteSetTheorems, TLAPS

-----------------------------------------------------------------------------
(* Tunnel portals.                                                         *)

SameSems(q, p) == q.pool = p.pool /\ q.csem = p.csem /\ q.ssem = p.ssem

SameXchg(q, p) == /\ q.norm = p.norm /\ q.pri = p.pri /\ q.mpri = p.mpri /\ q.spri = p.spri
                  /\ q.queue = p.queue /\ q.onr = p.onr /\ q.bct = p.bct

SameTPSS(q, p) == /\ q.exists = p.exists /\ q.sess = p.sess /\ q.sopen = p.sopen
                  /\ q.scsem = p.scsem /\ q.sssem = p.sssem /\ q.sz = p.sz /\ q.direct = p.direct

SameTPCS(q, p) == /\ q.op = p.op /\ q.cre = p.cre /\ q.left = p.left /\ q.open = p.open
                  /\ q.hd = p.hd /\ q.sound = p.sound /\ q.stage = p.stage

TPPcs == {"idle", "load", "send", "shell", "ask", "test", "wait", "passed", "failed", "close"}

TPOps == {"NOP", "OPEN", "SEND", "RECEIVE"}

Busy == {"got", "switch", "send", "recv", "signal", "test", "wait", "lost"}

TPSpcs == {"stopped", "start", "idle", "receive"} \union Busy

TPStages == {"none", "asked", "begun", "done", "unasked"}

\* Which semaphores the clients have: those of a client are not another's, nor free.
Handles(p) ==
    /\ Injective(p.pool)
    /\ \A c \in Clients : IF p.csem[c] = None
          THEN p.ssem[c] = None /\ p.pc[c] = "idle"
          ELSE /\ p.ssem[c] # None /\ p.csem[c] # p.ssem[c]
               /\ ~Contains(p.pool, p.csem[c]) /\ ~Contains(p.pool, p.ssem[c])
    /\ \A c, d \in Clients : c # d /\ p.csem[c] # None /\ p.csem[d] # None =>
          p.csem[c] # p.csem[d] /\ p.csem[c] # p.ssem[d] /\ p.ssem[c] # p.ssem[d]
    /\ 2 * Cardinality({c \in Clients : p.csem[c] = None}) <= Len(p.pool)

\* The server and sxchg.
Serving(p) ==
    /\ IF p.exists THEN p.spc # "stopped" /\ (p.onr \/ p.spc \in {"start", "receive"})
                   ELSE p.spc = "stopped" /\ p.bct = None /\ ~p.onr /\ p.queue = <<>>
    /\ p.spc = "receive" => p.bct = None /\ p.queue = <<>> /\ ~p.onr
    /\ IF p.spc \in Busy THEN p.sess \in Clients ELSE p.sess = None /\ ~p.direct
    /\ p.spc = "recv" => p.sz # None
    /\ Injective(p.queue)

LEMMA TPFields ==
  ASSUME NEW p \in TPortalType
  PROVE  /\ p.exists \in BOOLEAN /\ p.pool \in Seq(SCBs) /\ p.cnt \in [SCBs -> BOOLEAN]
         /\ p.pc \in [Clients -> TPPcs]
         /\ p.op \in [Clients -> TPOps]
         /\ p.cre \in [Clients -> BOOLEAN] /\ p.left \in [Clients -> 0..MaxBlocks]
         /\ p.open \in [Clients -> BOOLEAN]
         /\ p.csem \in [Clients -> SCBs \union {None}] /\ p.ssem \in [Clients -> SCBs \union {None}]
         /\ p.hd \in [Clients -> TPHeader] /\ p.norm \in [Clients -> 0..TopPri]
         /\ p.pri \in [Clients -> 0..TopPri] /\ p.mpri \in [Clients -> 0..TopPri]
         /\ p.queue \in Seq(Clients) /\ p.onr \in BOOLEAN /\ p.bct \in Clients \union {Svr, None}
         /\ p.spc \in TPSpcs /\ p.sess \in Clients \union {None} /\ p.sopen \in BOOLEAN
         /\ p.scsem \in SCBs \union {None} /\ p.sssem \in SCBs \union {None}
         /\ p.sz \in 0..MaxBlocks \union {None} /\ p.spri \in 0..TopPri
         /\ p.sound \in [Clients -> BOOLEAN] /\ p.stage \in [Clients -> TPStages]
         /\ p.direct \in BOOLEAN
  BY DEF TPortalType, TPPcs, TPOps, TPSpcs, Busy, TPStages

TPNames == {"exists", "pool", "cnt", "pc", "op", "cre", "left", "open", "csem", "ssem", "hd",
            "norm", "pri", "mpri", "queue", "onr", "bct", "spc", "sess", "sopen", "scsem",
            "sssem", "sz", "spri", "sound", "stage", "direct"}

\* A record with the fields of the portal.
IsTP(p) == p = [f \in TPNames |-> p[f]]

LEMMA IsTPType ==
  ASSUME NEW p \in TPortalType
  PROVE  IsTP(p)
  BY DEF TPortalType, IsTP, TPNames

LEMMA TPTyped ==
  ASSUME NEW p, IsTP(p),
         p.exists \in BOOLEAN, p.pool \in Seq(SCBs), p.cnt \in [SCBs -> BOOLEAN],
         p.pc \in [Clients -> TPPcs], p.op \in [Clients -> TPOps],
         p.cre \in [Clients -> BOOLEAN], p.left \in [Clients -> 0..MaxBlocks],
         p.open \in [Clients -> BOOLEAN],
         p.csem \in [Clients -> SCBs \union {None}], p.ssem \in [Clients -> SCBs \union {None}],
         p.hd \in [Clients -> TPHeader], p.norm \in [Clients -> 0..TopPri],
         p.pri \in [Clients -> 0..TopPri], p.mpri \in [Clients -> 0..TopPri],
         p.queue \in Seq(Clients), p.onr \in BOOLEAN, p.bct \in Clients \union {Svr, None},
         p.spc \in TPSpcs, p.sess \in Clients \union {None}, p.sopen \in BOOLEAN,
         p.scsem \in SCBs \union {None}, p.sssem \in SCBs \union {None},
         p.sz \in 0..MaxBlocks \union {None}, p.spri \in 0..TopPri,
         p.sound \in [Clients -> BOOLEAN], p.stage \in [Clients -> TPStages],
         p.direct \in BOOLEAN
  PROVE  p \in TPortalType
  BY DEF TPortalType, IsTP, TPNames, TPPcs, TPOps, TPSpcs, Busy, TPStages

LEMMA TPKinds ==
  /\ None \notin SCBs /\ None \notin Clients /\ Svr \notin Clients /\ Svr # None
  /\ None \notin 0..MaxBlocks /\ MaxBlocks \in Nat /\ MaxBlocks > 0 /\ TopPri \in Nat
  /\ IsFiniteSet(Clients) /\ IsFiniteSet(SCBs)
  /\ Cardinality(Clients) \in Nat /\ Cardinality(SCBs) \in Nat
  /\ Cardinality(SCBs) >= 2 * Cardinality(Clients)
  BY TPortalAssumption, PortalAssumption, FS_CardinalityType

LEMMA MaxOfTwo ==
  ASSUME NEW x \in Nat, NEW y \in Nat
  PROVE  Max({x, y}) = IF x >= y THEN x ELSE y
  <1>1. ASSUME NEW z, z \in {x, y}, \A w \in {x, y} : z >= w
        PROVE  z = IF x >= y THEN x ELSE y
    BY <1>1
  <1>2. \E z \in {x, y} : \A w \in {x, y} : z >= w
    OBVIOUS
  <1> DEFINE m == CHOOSE z \in {x, y} : \A w \in {x, y} : z >= w
  <1>3. m \in {x, y} /\ \A w \in {x, y} : m >= w
    BY <1>2
  <1>4. Max({x, y}) = m
    BY DEF Max
  <1> HIDE DEF m
  <1> QED BY <1>1, <1>3, <1>4

\* Tasks stop waiting.
LEMMA ResumeIs ==
  ASSUME NEW p \in TPortalType, NEW ws, NEW ok \in BOOLEAN, NEW r, r = TPResume(p, ws, ok)
  PROVE  /\ r \in TPortalType /\ SameSems(r, p) /\ SameXchg(r, p) /\ SameTPSS(r, p) /\ SameTPCS(r, p)
         /\ r.cnt = p.cnt
         /\ \A c \in Clients : r.pc[c] = IF c \notin ws THEN p.pc[c]
                                         ELSE IF ok THEN "passed" ELSE "failed"
         /\ r.spc = IF Svr \notin ws THEN p.spc ELSE IF ok THEN "switch" ELSE "lost"
  <1> DEFINE pc == [c \in Clients |-> IF c \notin ws THEN p.pc[c]
                                      ELSE IF ok THEN "passed" ELSE "failed"]
             spc == IF Svr \notin ws THEN p.spc ELSE IF ok THEN "switch" ELSE "lost"
  <1>1. r = [p EXCEPT !.pc = pc, !.spc = spc]
    BY DEF TPResume, TPortalType
  <1>2. pc \in [Clients -> TPPcs]
    BY TPFields DEF TPPcs
  <1>3. spc \in TPSpcs
    BY TPFields DEF TPSpcs, Busy
  <1>4. \A c \in Clients : pc[c] = IF c \notin ws THEN p.pc[c] ELSE IF ok THEN "passed" ELSE "failed"
    OBVIOUS
  <1>5. spc = IF Svr \notin ws THEN p.spc ELSE IF ok THEN "switch" ELSE "lost"
    OBVIOUS
  <1> HIDE DEF pc, spc
  <1>7. /\ SameSems(r, p) /\ SameXchg(r, p) /\ SameTPSS(r, p) /\ SameTPCS(r, p)
        /\ r.cnt = p.cnt /\ r.pc = pc /\ r.spc = spc
    BY <1>1 DEF TPortalType, SameSems, SameXchg, SameTPSS, SameTPCS
  <1>6. r \in TPortalType
    <2>1. IsTP(r)
      BY <1>1, IsTPType DEF IsTP
    <2> QED BY <1>2, <1>3, <1>7, <2>1, TPFields, TPTyped DEF SameSems, SameXchg, SameTPSS, SameTPCS
  <1> QED BY <1>4, <1>5, <1>6, <1>7

Held(p, c) == p.open[c] \/ (p.op[c] = "OPEN" /\ p.pc[c] \in {"test", "wait", "passed"})

\* A client that is served directly runs at least at the priority of the others.
Above(p, c, d) == /\ p.pri[c] >= p.mpri[d]
                  /\ d # c => /\ p.pri[c] >= p.spri
                              /\ p.pri[c] >= p.norm[d]
                              /\ p.pri[c] >= p.pri[d]

Promoted(p) ==
    /\ \A c \in Clients : p.pri[c] >= p.norm[c]
    /\ \A c \in Clients : Contains(p.queue, c) => p.mpri[c] >= p.norm[c]
    /\ p.onr /\ p.bct \in Clients => p.spri >= p.norm[p.bct]
    /\ \A c \in Clients : p.sess = c /\ p.direct /\ Held(p, c) =>
          /\ p.queue = <<>> => p.bct = c
          /\ \A d \in Clients : p.queue = <<d>> => Above(p, c, d)

\* The header that client c has written, when the server may read it.
Header(p, c) ==
    /\ IF p.csem[c] = None THEN Contains(p.queue, c) \/ p.sess = c => p.hd[c].cmd = "CLOSE"
                           ELSE /\ p.hd[c].csem \in {None, p.csem[c]}
                                /\ p.hd[c].ssem \in {None, p.ssem[c]}
    /\ p.pc[c] \notin {"idle", "close"} => p.op[c] # "NOP"
    /\ p.pc[c] = "close" => p.hd[c].cmd = "CLOSE"
    /\ p.pc[c] \in {"load", "send"} => /\ p.op[c] = "OPEN"
                                       /\ p.hd[c].csem = p.csem[c] /\ p.hd[c].ssem = p.ssem[c]
    /\ p.pc[c] = "send" => p.hd[c].cmd = "OPEN"
    /\ p.pc[c] \in {"shell", "ask"} => p.op[c] \in {"SEND", "RECEIVE"} /\ p.left[c] >= 1
    /\ p.pc[c] = "ask" => p.hd[c].cmd = p.op[c]

\* The semaphores of c have no signal.
Quiet(p, c) == ~p.cnt[p.csem[c]] /\ ~p.cnt[p.ssem[c]]

\* The server has the session of c, with its semaphores.
Tied(p, c) == p.sopen /\ p.scsem = p.csem[c] /\ p.sssem = p.ssem[c]

\* c opened the portal while nothing was left of earlier use.
Current(p, c) == p.sound[c] /\ p.csem[c] # None /\ p.pc[c] \notin {"load", "send"}

\* c waits for the answer to its OPEN.
Opening(p, c) ==
    p.op[c] = "OPEN" /\ p.pc[c] \in {"test", "wait"} =>
       /\ ~p.cnt[p.ssem[c]] /\ p.hd[c].cmd = "OPEN"
       /\ p.hd[c].csem = p.csem[c] /\ p.hd[c].ssem = p.ssem[c]
       /\ p.cnt[p.csem[c]] => p.pc[c] = "test" /\ ~Contains(p.queue, c)
       /\ p.sess = c =>
             /\ ~Contains(p.queue, c)
             /\ \/ ~p.cnt[p.csem[c]] /\ p.spc \in {"got", "switch"}
                \/ ~p.cnt[p.csem[c]] /\ p.spc = "signal" /\ Tied(p, c)
                \/ p.cnt[p.csem[c]] /\ p.spc \in {"test", "wait"} /\ Tied(p, c)

\* The portal is open and c has asked for nothing.
Resting(p, c) == \/ p.open[c] /\ p.pc[c] \in {"idle", "shell"}
                 \/ p.pc[c] = "ask"
                 \/ p.op[c] = "OPEN" /\ p.pc[c] = "passed"

Ready(p, c) ==
    Resting(p, c) =>
       /\ Quiet(p, c) /\ ~Contains(p.queue, c)
       /\ p.sess = c => Tied(p, c) /\ p.spc \in {"test", "wait"}

\* The blocks that c and the server count.
Counts(p, c) ==
    p.op[c] = "RECEIVE" =>
       /\ p.left[c] >= 1
       /\ p.stage[c] = "asked" => /\ ~p.hd[c].eod
                                  /\ p.hd[c].sod => p.hd[c].rqsz = p.left[c]
                                  /\ p.sess = c /\ ~p.hd[c].sod => p.sz = p.left[c]
       /\ p.stage[c] = "begun" => ~p.hd[c].eod /\ (p.sess = c => p.sz = p.left[c])
       /\ p.stage[c] = "done" => /\ ~p.hd[c].sod
                                 /\ p.hd[c].eod <=> p.left[c] = 1
                                 /\ p.sess = c => p.sz = p.left[c] - 1

\* c waits for a block.
Asked(p, c) ==
    p.op[c] \in {"SEND", "RECEIVE"} /\ p.pc[c] \in {"test", "wait"} =>
       /\ ~Contains(p.queue, c) /\ p.hd[c].cmd = p.op[c]
       /\ p.cnt[p.csem[c]] => p.pc[c] = "test" /\ p.stage[c] = "done"
       /\ p.stage[c] = "done" => ~p.cnt[p.ssem[c]]
       /\ p.sess = c =>
             /\ Tied(p, c)
             /\ \/ p.stage[c] = "asked" /\ p.spc = "test" /\ p.cnt[p.ssem[c]]
                \/ p.stage[c] = "asked" /\ p.spc = "switch" /\ ~p.cnt[p.ssem[c]]
                \/ /\ p.stage[c] = "begun" /\ ~p.cnt[p.ssem[c]]
                   /\ p.spc = (IF p.op[c] = "SEND" THEN "send" ELSE "recv")
                \/ p.stage[c] = "done" /\ p.spc = "signal" /\ ~p.cnt[p.csem[c]]
                \/ p.stage[c] = "done" /\ p.spc \in {"test", "wait"} /\ p.cnt[p.csem[c]]
       /\ Counts(p, c)

\* c has been answered.
Passed(p, c) ==
    p.op[c] \in {"SEND", "RECEIVE"} /\ p.pc[c] = "passed" =>
       /\ Quiet(p, c) /\ ~Contains(p.queue, c)
       /\ p.hd[c].cmd = p.op[c] /\ p.stage[c] = "done"
       /\ p.sess = c => Tied(p, c) /\ p.spc \in {"test", "wait"}
       /\ Counts(p, c)

\* Without the session of c, the server does not have its semaphores.
Loose(p, c) == p.sess # c => /\ p.scsem # p.csem[c] /\ p.scsem # p.ssem[c]
                             /\ p.sssem # p.csem[c] /\ p.sssem # p.ssem[c]

Matched(p, c) == /\ Opening(p, c) /\ Ready(p, c) /\ Asked(p, c) /\ Passed(p, c) /\ Loose(p, c)
                 /\ p.op[c] = "OPEN" => ~p.open[c]

About(p, c) == Header(p, c) /\ (Current(p, c) => Matched(p, c))

\* The server has no semaphores until it opens.
Unopened(p) == p.spc \in {"stopped", "start", "idle", "receive", "got"} =>
                  p.scsem = None /\ p.sssem = None

TPSound(p) == /\ p \in TPortalType
              /\ Handles(p) /\ Serving(p) /\ Promoted(p) /\ Unopened(p)
              /\ \A c \in Clients : About(p, c)

\* The outcomes of smx_SemSignal(s).
LEMMA SignalledIs ==
  ASSUME NEW p \in TPortalType, NEW s, NEW r \in Signalled(p, s)
  PROVE  /\ r \in TPortalType /\ SameSems(r, p) /\ SameXchg(r, p) /\ SameTPSS(r, p) /\ SameTPCS(r, p)
         /\ \/ ~Live(p, s) /\ r.cnt = p.cnt /\ r.pc = p.pc /\ r.spc = p.spc
            \/ /\ Live(p, s) /\ TPWaiters(p, s) = {}
               /\ r.cnt = [p.cnt EXCEPT ![s] = TRUE] /\ r.pc = p.pc /\ r.spc = p.spc
            \/ /\ Live(p, s) /\ r.cnt = p.cnt
               /\ \E w \in TPWaiters(p, s) :
                     /\ \A c \in Clients : r.pc[c] = IF c = w THEN "passed" ELSE p.pc[c]
                     /\ r.spc = IF w = Svr THEN "switch" ELSE p.spc
  <1>1. CASE ~Live(p, s)
    <2>1. r = p
      BY <1>1 DEF Signalled
    <2> QED BY <1>1, <2>1 DEF SameSems, SameXchg, SameTPSS, SameTPCS
  <1>2. CASE Live(p, s) /\ TPWaiters(p, s) = {}
    <2>1. r = [p EXCEPT !.cnt = [p.cnt EXCEPT ![s] = TRUE]]
      BY <1>2 DEF Signalled
    <2> DEFINE cnt == [p.cnt EXCEPT ![s] = TRUE]
    <2>2. cnt \in [SCBs -> BOOLEAN]
      BY TPFields
    <2> HIDE DEF cnt
    <2>3. /\ SameSems(r, p) /\ SameXchg(r, p) /\ SameTPSS(r, p) /\ SameTPCS(r, p)
          /\ r.cnt = cnt /\ r.pc = p.pc /\ r.spc = p.spc
      BY <2>1 DEF TPortalType, SameSems, SameXchg, SameTPSS, SameTPCS, cnt
    <2>4. IsTP(r)
      BY <2>1, IsTPType DEF IsTP
    <2>5. r \in TPortalType
      BY <2>2, <2>3, <2>4, TPFields, TPTyped DEF SameSems, SameXchg, SameTPSS, SameTPCS
    <2> QED BY <1>2, <2>3, <2>5 DEF cnt
  <1>3. CASE Live(p, s) /\ TPWaiters(p, s) # {}
    <2>1. PICK w \in TPWaiters(p, s) : r = TPResume(p, {w}, TRUE)
      BY <1>3 DEF Signalled
    <2> DEFINE ws == {w}
               ok == TRUE
    <2>a. ok \in BOOLEAN /\ r = TPResume(p, ws, ok)
      BY <2>1
    <2>b. ok /\ ws = {w}
      OBVIOUS
    <2> HIDE DEF ws, ok
    <2>c. /\ r \in TPortalType /\ SameSems(r, p) /\ SameXchg(r, p) /\ SameTPSS(r, p) /\ SameTPCS(r, p)
          /\ r.cnt = p.cnt
          /\ \A c \in Clients : r.pc[c] = IF c \notin ws THEN p.pc[c]
                                         ELSE IF ok THEN "passed" ELSE "failed"
          /\ r.spc = IF Svr \notin ws THEN p.spc ELSE IF ok THEN "switch" ELSE "lost"
      BY <2>a, ResumeIs
    <2>2. /\ r \in TPortalType /\ SameSems(r, p) /\ SameXchg(r, p) /\ SameTPSS(r, p) /\ SameTPCS(r, p)
          /\ r.cnt = p.cnt
          /\ \A c \in Clients : r.pc[c] = IF c \notin {w} THEN p.pc[c] ELSE "passed"
          /\ r.spc = IF Svr \notin {w} THEN p.spc ELSE "switch"
      BY <2>b, <2>c
    <2>3. /\ \A c \in Clients : r.pc[c] = IF c = w THEN "passed" ELSE p.pc[c]
          /\ r.spc = IF w = Svr THEN "switch" ELSE p.spc
      BY <2>2
    <2> QED BY <1>3, <2>2, <2>3
  <1> QED BY <1>1, <1>2, <1>3

\* smx_SemClear(s) and smx_SemDelete(&s).
LEMMA ClearedIs ==
  ASSUME NEW p \in TPortalType, NEW s, NEW r, r = Cleared(p, s)
  PROVE  /\ r \in TPortalType /\ SameSems(r, p) /\ SameXchg(r, p) /\ SameTPSS(r, p) /\ SameTPCS(r, p)
         /\ r.cnt = IF Live(p, s) THEN [p.cnt EXCEPT ![s] = FALSE] ELSE p.cnt
         /\ \A c \in Clients : r.pc[c] = IF Live(p, s) /\ c \in TPWaiters(p, s)
                                         THEN "failed" ELSE p.pc[c]
         /\ r.spc = IF Live(p, s) /\ Svr \in TPWaiters(p, s) THEN "lost" ELSE p.spc
  <1>1. CASE ~Live(p, s)
    <2>1. r = p
      BY <1>1 DEF Cleared
    <2> QED BY <1>1, <2>1 DEF SameSems, SameXchg, SameTPSS, SameTPCS
  <1>2. CASE Live(p, s)
    <2> DEFINE q == TPResume(p, TPWaiters(p, s), FALSE)
               cnt == [p.cnt EXCEPT ![s] = FALSE]
    <2>1. /\ q \in TPortalType /\ SameSems(q, p) /\ SameXchg(q, p) /\ SameTPSS(q, p) /\ SameTPCS(q, p)
          /\ q.cnt = p.cnt
          /\ \A c \in Clients : q.pc[c] = IF c \notin TPWaiters(p, s) THEN p.pc[c] ELSE "failed"
          /\ q.spc = IF Svr \notin TPWaiters(p, s) THEN p.spc ELSE "lost"
      <3> DEFINE ok == FALSE
                 ws == TPWaiters(p, s)
      <3>1. ok \in BOOLEAN /\ q = TPResume(p, ws, ok)
        OBVIOUS
      <3>2. ~ok
        OBVIOUS
      <3> HIDE DEF ok, q, ws
      <3>3. /\ q \in TPortalType /\ SameSems(q, p) /\ SameXchg(q, p) /\ SameTPSS(q, p) /\ SameTPCS(q, p)
            /\ q.cnt = p.cnt
            /\ \A c \in Clients : q.pc[c] = IF c \notin ws THEN p.pc[c]
                                            ELSE IF ok THEN "passed" ELSE "failed"
            /\ q.spc = IF Svr \notin ws THEN p.spc ELSE IF ok THEN "switch" ELSE "lost"
        BY <3>1, ResumeIs
      <3> QED BY <3>2, <3>3 DEF ws
    <2>2. r = [q EXCEPT !.cnt = [q.cnt EXCEPT ![s] = FALSE]]
      BY <1>2 DEF Cleared
    <2>3. cnt \in [SCBs -> BOOLEAN]
      BY TPFields
    <2> HIDE DEF q, cnt
    <2>4. r = [q EXCEPT !.cnt = cnt]
      BY <2>1, <2>2 DEF cnt
    <2>5. /\ SameSems(r, q) /\ SameXchg(r, q) /\ SameTPSS(r, q) /\ SameTPCS(r, q)
          /\ r.cnt = cnt /\ r.pc = q.pc /\ r.spc = q.spc
      BY <2>1, <2>4 DEF TPortalType, SameSems, SameXchg, SameTPSS, SameTPCS
    <2>6. SameSems(r, p) /\ SameXchg(r, p) /\ SameTPSS(r, p) /\ SameTPCS(r, p)
      BY <2>1, <2>5 DEF SameSems, SameXchg, SameTPSS, SameTPCS
    <2>7. IsTP(r)
      BY <2>1, <2>4, IsTPType DEF IsTP
    <2>8. r \in TPortalType
      BY <2>1, <2>3, <2>5, <2>7, TPFields, TPTyped DEF SameSems, SameXchg, SameTPSS, SameTPCS
    <2> QED BY <1>2, <2>1, <2>5, <2>6, <2>8 DEF cnt
  <1> QED BY <1>1, <1>2

LEMMA DeletedIs ==
  ASSUME NEW p \in TPortalType, NEW s \in SCBs \union {None}, NEW r, r = Deleted(p, s)
  PROVE  /\ r \in TPortalType /\ SameXchg(r, p) /\ SameTPSS(r, p) /\ SameTPCS(r, p)
         /\ r.csem = p.csem /\ r.ssem = p.ssem
         /\ r.pool = IF Live(p, s) THEN <<s>> \o p.pool ELSE p.pool
         /\ r.cnt = IF Live(p, s) THEN [p.cnt EXCEPT ![s] = FALSE] ELSE p.cnt
         /\ \A c \in Clients : r.pc[c] = IF Live(p, s) /\ c \in TPWaiters(p, s)
                                         THEN "failed" ELSE p.pc[c]
         /\ r.spc = IF Live(p, s) /\ Svr \in TPWaiters(p, s) THEN "lost" ELSE p.spc
  <1>1. CASE ~Live(p, s)
    <2>1. r = p
      BY <1>1 DEF Deleted
    <2> QED BY <1>1, <2>1 DEF SameXchg, SameTPSS, SameTPCS
  <1>2. CASE Live(p, s)
    <2> DEFINE q == Cleared(p, s)
               pool == <<s>> \o p.pool
    <2>1. /\ q \in TPortalType /\ SameSems(q, p) /\ SameXchg(q, p) /\ SameTPSS(q, p) /\ SameTPCS(q, p)
          /\ q.cnt = IF Live(p, s) THEN [p.cnt EXCEPT ![s] = FALSE] ELSE p.cnt
          /\ \A c \in Clients : q.pc[c] = IF Live(p, s) /\ c \in TPWaiters(p, s)
                                          THEN "failed" ELSE p.pc[c]
          /\ q.spc = IF Live(p, s) /\ Svr \in TPWaiters(p, s) THEN "lost" ELSE p.spc
      BY ClearedIs
    <2>2. r = [q EXCEPT !.pool = <<s>> \o q.pool]
      BY <1>2 DEF Deleted
    <2>3. pool \in Seq(SCBs)
      <3>1. s \in SCBs /\ p.pool \in Seq(SCBs)
        BY <1>2, TPFields DEF Live
      <3> QED BY <3>1
    <2> HIDE DEF q, pool
    <2>4. r = [q EXCEPT !.pool = pool]
      BY <2>1, <2>2 DEF pool, SameSems
    <2>5. /\ SameXchg(r, q) /\ SameTPSS(r, q) /\ SameTPCS(r, q)
          /\ r.csem = q.csem /\ r.ssem = q.ssem /\ r.pool = pool
          /\ r.cnt = q.cnt /\ r.pc = q.pc /\ r.spc = q.spc
      BY <2>1, <2>4 DEF TPortalType, SameXchg, SameTPSS, SameTPCS
    <2>6. /\ SameXchg(r, p) /\ SameTPSS(r, p) /\ SameTPCS(r, p)
          /\ r.csem = p.csem /\ r.ssem = p.ssem
      BY <2>1, <2>5 DEF SameSems, SameXchg, SameTPSS, SameTPCS
    <2>7. IsTP(r)
      BY <2>1, <2>4, IsTPType DEF IsTP
    <2>8. r \in TPortalType
      BY <2>1, <2>3, <2>5, <2>7, TPFields, TPTyped DEF SameXchg, SameTPSS, SameTPCS
    <2>9. /\ r.cnt = IF Live(p, s) THEN [p.cnt EXCEPT ![s] = FALSE] ELSE p.cnt
          /\ \A c \in Clients : r.pc[c] = IF Live(p, s) /\ c \in TPWaiters(p, s)
                                          THEN "failed" ELSE p.pc[c]
          /\ r.spc = IF Live(p, s) /\ Svr \in TPWaiters(p, s) THEN "lost" ELSE p.spc
      BY <2>1, <2>5
    <2> QED BY <1>2, <2>5, <2>6, <2>8, <2>9 DEF pool
  <1> QED BY <1>1, <1>2
LEMMA OpenLoadIs ==
  ASSUME NEW c \in Clients, tp \in TPortalType, OpenLoad(c)
  PROVE  /\ tp' \in TPortalType /\ SameSems(tp', tp) /\ SameXchg(tp', tp) /\ SameTPSS(tp', tp)
         /\ tp'.op = tp.op /\ tp'.cre = tp.cre /\ tp'.left = tp.left /\ tp'.open = tp.open
         /\ tp'.sound = tp.sound /\ tp'.stage = tp.stage /\ tp'.cnt = tp.cnt /\ tp'.spc = tp.spc
         /\ tp'.pc = [tp.pc EXCEPT ![c] = "send"]
         /\ tp'.hd = [tp.hd EXCEPT ![c] = [tp.hd[c] EXCEPT !.cmd = "OPEN"]]
  <1> DEFINE h == [tp.hd[c] EXCEPT !.cmd = "OPEN"]
             pc2 == [tp.pc EXCEPT ![c] = "send"]
             hd2 == [tp.hd EXCEPT ![c] = h]
  <1>1. tp' = [tp EXCEPT !.pc = pc2, !.hd = hd2]
    BY TPFields DEF OpenLoad
  <1>2. h \in TPHeader
    <2>1. tp.hd[c] \in TPHeader
      BY TPFields
    <2> QED BY <2>1 DEF TPHeader
  <1> HIDE DEF h
  <1>3. pc2 \in [Clients -> TPPcs]
    BY TPFields, TPKinds, <1>2 DEF TPPcs
  <1>4. hd2 \in [Clients -> TPHeader]
    BY TPFields, TPKinds, <1>2
  <1> HIDE DEF pc2, hd2
  <1>5. /\ SameSems(tp', tp) /\ SameXchg(tp', tp) /\ SameTPSS(tp', tp) /\ tp'.op = tp.op
       /\ tp'.cre = tp.cre /\ tp'.left = tp.left /\ tp'.open = tp.open /\ tp'.sound = tp.sound
       /\ tp'.stage = tp.stage /\ tp'.cnt = tp.cnt /\ tp'.spc = tp.spc /\ tp'.pc = pc2
       /\ tp'.hd = hd2
    BY <1>1 DEF TPortalType, SameSems, SameXchg, SameTPSS, SameTPCS
  <1>6. IsTP(tp')
    BY <1>1, IsTPType DEF IsTP
  <1>7. tp' \in TPortalType
    BY <1>3, <1>4, <1>5, <1>6, TPFields, TPTyped DEF SameSems, SameXchg, SameTPSS, SameTPCS
  <1> QED BY <1>5, <1>7 DEF h, pc2, hd2

\* A client tests csem.
LEMMA ClientPassesIs ==
  ASSUME NEW c \in Clients, tp \in TPortalType, ClientTest(c), tp.cnt[tp.csem[c]]
  PROVE  /\ tp' \in TPortalType /\ SameSems(tp', tp) /\ SameXchg(tp', tp) /\ SameTPSS(tp', tp)
         /\ SameTPCS(tp', tp) /\ tp'.spc = tp.spc
         /\ tp'.cnt = [tp.cnt EXCEPT ![tp.csem[c]] = FALSE]
         /\ tp'.pc = [tp.pc EXCEPT ![c] = "passed"]
  <1> DEFINE cnt2 == [tp.cnt EXCEPT ![tp.csem[c]] = FALSE]
             pc2 == [tp.pc EXCEPT ![c] = "passed"]
  <1>1. tp' = [tp EXCEPT !.cnt = cnt2, !.pc = pc2]
    BY TPFields DEF ClientTest
  <1>2. cnt2 \in [SCBs -> BOOLEAN]
    BY TPFields, TPKinds
  <1>3. pc2 \in [Clients -> TPPcs]
    BY TPFields, TPKinds DEF TPPcs
  <1> HIDE DEF cnt2, pc2
  <1>4. /\ SameSems(tp', tp) /\ SameXchg(tp', tp) /\ SameTPSS(tp', tp) /\ SameTPCS(tp', tp)
       /\ tp'.spc = tp.spc /\ tp'.cnt = cnt2 /\ tp'.pc = pc2
    BY <1>1 DEF TPortalType, SameSems, SameXchg, SameTPSS, SameTPCS
  <1>5. IsTP(tp')
    BY <1>1, IsTPType DEF IsTP
  <1>6. tp' \in TPortalType
    BY <1>2, <1>3, <1>4, <1>5, TPFields, TPTyped DEF SameSems, SameXchg, SameTPSS, SameTPCS
  <1> QED BY <1>4, <1>6 DEF cnt2, pc2

LEMMA ClientWaitsIs ==
  ASSUME NEW c \in Clients, tp \in TPortalType, ClientTest(c), ~tp.cnt[tp.csem[c]]
  PROVE  /\ tp' \in TPortalType /\ SameSems(tp', tp) /\ SameXchg(tp', tp) /\ SameTPSS(tp', tp)
         /\ SameTPCS(tp', tp) /\ tp'.cnt = tp.cnt /\ tp'.spc = tp.spc
         /\ tp'.pc = [tp.pc EXCEPT ![c] = "wait"]
  <1> DEFINE pc2 == [tp.pc EXCEPT ![c] = "wait"]
  <1>1. tp' = [tp EXCEPT !.pc = pc2]
    BY TPFields DEF ClientTest
  <1>2. pc2 \in [Clients -> TPPcs]
    BY TPFields, TPKinds DEF TPPcs
  <1> HIDE DEF pc2
  <1>3. /\ SameSems(tp', tp) /\ SameXchg(tp', tp) /\ SameTPSS(tp', tp) /\ SameTPCS(tp', tp)
       /\ tp'.cnt = tp.cnt /\ tp'.spc = tp.spc /\ tp'.pc = pc2
    BY <1>1 DEF TPortalType, SameSems, SameXchg, SameTPSS, SameTPCS
  <1>4. IsTP(tp')
    BY <1>1, IsTPType DEF IsTP
  <1>5. tp' \in TPortalType
    BY <1>2, <1>3, <1>4, TPFields, TPTyped DEF SameSems, SameXchg, SameTPSS, SameTPCS
  <1> QED BY <1>3, <1>5 DEF pc2

\* An open that succeeds, and one that fails.
LEMMA OpensIs ==
  ASSUME NEW c \in Clients, tp \in TPortalType, OpenEnds(c), AtClient(c, "passed")
  PROVE  /\ tp' \in TPortalType /\ SameSems(tp', tp) /\ SameXchg(tp', tp) /\ SameTPSS(tp', tp)
         /\ tp'.cre = tp.cre /\ tp'.hd = tp.hd /\ tp'.sound = tp.sound /\ tp'.stage = tp.stage
         /\ tp'.cnt = tp.cnt /\ tp'.spc = tp.spc
         /\ tp'.pc = [tp.pc EXCEPT ![c] = "idle"]
         /\ tp'.op = [tp.op EXCEPT ![c] = "NOP"]
         /\ tp'.left = [tp.left EXCEPT ![c] = 0]
         /\ tp'.open = [tp.open EXCEPT ![c] = TRUE]
  <1> DEFINE pc2 == [tp.pc EXCEPT ![c] = "idle"]
             op2 == [tp.op EXCEPT ![c] = "NOP"]
             left2 == [tp.left EXCEPT ![c] = 0]
             open2 == [tp.open EXCEPT ![c] = TRUE]
  <1>1. tp' = [tp EXCEPT !.pc = pc2, !.op = op2, !.left = left2, !.open = open2]
    BY TPFields DEF OpenEnds, ToIdle, AtClient
  <1>2. pc2 \in [Clients -> TPPcs]
    BY TPFields, TPKinds DEF TPPcs
  <1>3. op2 \in [Clients -> TPOps]
    BY TPFields, TPKinds DEF TPOps
  <1>4. left2 \in [Clients -> 0..MaxBlocks]
    BY TPFields, TPKinds
  <1>5. open2 \in [Clients -> BOOLEAN]
    BY TPFields, TPKinds
  <1> HIDE DEF pc2, op2, left2, open2
  <1>6. /\ SameSems(tp', tp) /\ SameXchg(tp', tp) /\ SameTPSS(tp', tp) /\ tp'.cre = tp.cre
       /\ tp'.hd = tp.hd /\ tp'.sound = tp.sound /\ tp'.stage = tp.stage /\ tp'.cnt = tp.cnt
       /\ tp'.spc = tp.spc /\ tp'.pc = pc2 /\ tp'.op = op2 /\ tp'.left = left2 /\ tp'.open = open2
    BY <1>1 DEF TPortalType, SameSems, SameXchg, SameTPSS, SameTPCS
  <1>7. IsTP(tp')
    BY <1>1, IsTPType DEF IsTP
  <1>8. tp' \in TPortalType
    BY <1>2, <1>3, <1>4, <1>5, <1>6, <1>7, TPFields, TPTyped DEF SameSems, SameXchg, SameTPSS, SameTPCS
  <1> QED BY <1>6, <1>8 DEF pc2, op2, left2, open2

LEMMA OpenFailsIs ==
  ASSUME NEW c \in Clients, tp \in TPortalType, OpenEnds(c), ~AtClient(c, "passed")
  PROVE  /\ tp' \in TPortalType /\ SameSems(tp', tp) /\ SameXchg(tp', tp) /\ SameTPSS(tp', tp)
         /\ tp'.cre = tp.cre /\ tp'.open = tp.open /\ tp'.hd = tp.hd /\ tp'.sound = tp.sound
         /\ tp'.stage = tp.stage /\ tp'.cnt = tp.cnt /\ tp'.spc = tp.spc
         /\ tp'.pc = [tp.pc EXCEPT ![c] = "idle"]
         /\ tp'.op = [tp.op EXCEPT ![c] = "NOP"]
         /\ tp'.left = [tp.left EXCEPT ![c] = 0]
  <1> DEFINE pc2 == [tp.pc EXCEPT ![c] = "idle"]
             op2 == [tp.op EXCEPT ![c] = "NOP"]
             left2 == [tp.left EXCEPT ![c] = 0]
  <1>1. tp' = [tp EXCEPT !.pc = pc2, !.op = op2, !.left = left2]
    BY TPFields DEF OpenEnds, ToIdle, AtClient
  <1>2. pc2 \in [Clients -> TPPcs]
    BY TPFields, TPKinds DEF TPPcs
  <1>3. op2 \in [Clients -> TPOps]
    BY TPFields, TPKinds DEF TPOps
  <1>4. left2 \in [Clients -> 0..MaxBlocks]
    BY TPFields, TPKinds
  <1> HIDE DEF pc2, op2, left2
  <1>5. /\ SameSems(tp', tp) /\ SameXchg(tp', tp) /\ SameTPSS(tp', tp) /\ tp'.cre = tp.cre
       /\ tp'.open = tp.open /\ tp'.hd = tp.hd /\ tp'.sound = tp.sound /\ tp'.stage = tp.stage
       /\ tp'.cnt = tp.cnt /\ tp'.spc = tp.spc /\ tp'.pc = pc2 /\ tp'.op = op2 /\ tp'.left = left2
    BY <1>1 DEF TPortalType, SameSems, SameXchg, SameTPSS, SameTPCS
  <1>6. IsTP(tp')
    BY <1>1, IsTPType DEF IsTP
  <1>7. tp' \in TPortalType
    BY <1>2, <1>3, <1>4, <1>5, <1>6, TPFields, TPTyped DEF SameSems, SameXchg, SameTPSS, SameTPCS
  <1> QED BY <1>5, <1>7 DEF pc2, op2, left2

LEMMA ShellIs ==
  ASSUME NEW c \in Clients, tp \in TPortalType, NEW o \in {"SEND", "RECEIVE"}, NEW n \in 1..MaxBlocks, Shell(c, o, n)
  PROVE  /\ tp' \in TPortalType /\ SameSems(tp', tp) /\ SameXchg(tp', tp) /\ SameTPSS(tp', tp)
         /\ tp'.cre = tp.cre /\ tp'.open = tp.open /\ tp'.sound = tp.sound /\ tp'.stage = tp.stage
         /\ tp'.cnt = tp.cnt /\ tp'.spc = tp.spc
         /\ tp'.pc = [tp.pc EXCEPT ![c] = "shell"]
         /\ tp'.op = [tp.op EXCEPT ![c] = o]
         /\ tp'.left = [tp.left EXCEPT ![c] = n]
         /\ tp'.hd = [tp.hd EXCEPT ![c] = [tp.hd[c] EXCEPT !.ssem = None]]
  <1> DEFINE h == [tp.hd[c] EXCEPT !.ssem = None]
             pc2 == [tp.pc EXCEPT ![c] = "shell"]
             op2 == [tp.op EXCEPT ![c] = o]
             left2 == [tp.left EXCEPT ![c] = n]
             hd2 == [tp.hd EXCEPT ![c] = h]
  <1>1. tp' = [tp EXCEPT !.pc = pc2, !.op = op2, !.left = left2, !.hd = hd2]
    BY TPFields DEF Shell
  <1>2. h \in TPHeader
    <2>1. tp.hd[c] \in TPHeader
      BY TPFields
    <2> QED BY <2>1 DEF TPHeader
  <1> HIDE DEF h
  <1>3. pc2 \in [Clients -> TPPcs]
    BY TPFields, TPKinds, <1>2 DEF TPPcs
  <1>4. op2 \in [Clients -> TPOps]
    BY TPFields, TPKinds, <1>2 DEF TPOps
  <1>5. left2 \in [Clients -> 0..MaxBlocks]
    BY TPFields, TPKinds, <1>2
  <1>6. hd2 \in [Clients -> TPHeader]
    BY TPFields, TPKinds, <1>2
  <1> HIDE DEF pc2, op2, left2, hd2
  <1>7. /\ SameSems(tp', tp) /\ SameXchg(tp', tp) /\ SameTPSS(tp', tp) /\ tp'.cre = tp.cre
       /\ tp'.open = tp.open /\ tp'.sound = tp.sound /\ tp'.stage = tp.stage /\ tp'.cnt = tp.cnt
       /\ tp'.spc = tp.spc /\ tp'.pc = pc2 /\ tp'.op = op2 /\ tp'.left = left2 /\ tp'.hd = hd2
    BY <1>1 DEF TPortalType, SameSems, SameXchg, SameTPSS, SameTPCS
  <1>8. IsTP(tp')
    BY <1>1, IsTPType DEF IsTP
  <1>9. tp' \in TPortalType
    BY <1>3, <1>4, <1>5, <1>6, <1>7, <1>8, TPFields, TPTyped DEF SameSems, SameXchg, SameTPSS, SameTPCS
  <1> QED BY <1>7, <1>9 DEF h, pc2, op2, left2, hd2

LEMMA CommandIs ==
  ASSUME NEW c \in Clients, tp \in TPortalType, Command(c), tp.open[c]
  PROVE  /\ tp' \in TPortalType /\ SameSems(tp', tp) /\ SameXchg(tp', tp) /\ SameTPSS(tp', tp)
         /\ tp'.op = tp.op /\ tp'.cre = tp.cre /\ tp'.left = tp.left /\ tp'.open = tp.open
         /\ tp'.sound = tp.sound /\ tp'.stage = tp.stage /\ tp'.cnt = tp.cnt /\ tp'.spc = tp.spc
         /\ tp'.pc = [tp.pc EXCEPT ![c] = "ask"]
         /\ tp'.hd = [tp.hd EXCEPT ![c] = [tp.hd[c] EXCEPT !.csem = None, !.cmd = tp.op[c]]]
  <1> DEFINE h == [tp.hd[c] EXCEPT !.csem = None, !.cmd = tp.op[c]]
             pc2 == [tp.pc EXCEPT ![c] = "ask"]
             hd2 == [tp.hd EXCEPT ![c] = h]
  <1>1. tp' = [tp EXCEPT !.pc = pc2, !.hd = hd2]
    BY TPFields DEF Command
  <1>2. h \in TPHeader
    <2>1. tp.hd[c] \in TPHeader
      BY TPFields
    <2>2. tp.op[c] \in TPOps
      BY TPFields
    <2> QED BY <2>1, <2>2 DEF TPHeader, TPOps
  <1> HIDE DEF h
  <1>3. pc2 \in [Clients -> TPPcs]
    BY TPFields, TPKinds, <1>2 DEF TPPcs
  <1>4. hd2 \in [Clients -> TPHeader]
    BY TPFields, TPKinds, <1>2
  <1> HIDE DEF pc2, hd2
  <1>5. /\ SameSems(tp', tp) /\ SameXchg(tp', tp) /\ SameTPSS(tp', tp) /\ tp'.op = tp.op
       /\ tp'.cre = tp.cre /\ tp'.left = tp.left /\ tp'.open = tp.open /\ tp'.sound = tp.sound
       /\ tp'.stage = tp.stage /\ tp'.cnt = tp.cnt /\ tp'.spc = tp.spc /\ tp'.pc = pc2
       /\ tp'.hd = hd2
    BY <1>1 DEF TPortalType, SameSems, SameXchg, SameTPSS, SameTPCS
  <1>6. IsTP(tp')
    BY <1>1, IsTPType DEF IsTP
  <1>7. tp' \in TPortalType
    BY <1>3, <1>4, <1>5, <1>6, TPFields, TPTyped DEF SameSems, SameXchg, SameTPSS, SameTPCS
  <1> QED BY <1>5, <1>7 DEF h, pc2, hd2

LEMMA CommandFailsIs ==
  ASSUME NEW c \in Clients, tp \in TPortalType, Command(c), ~tp.open[c]
  PROVE  /\ tp' \in TPortalType /\ SameSems(tp', tp) /\ SameXchg(tp', tp) /\ SameTPSS(tp', tp)
         /\ tp'.cre = tp.cre /\ tp'.open = tp.open /\ tp'.sound = tp.sound /\ tp'.stage = tp.stage
         /\ tp'.cnt = tp.cnt /\ tp'.spc = tp.spc
         /\ tp'.pc = [tp.pc EXCEPT ![c] = "idle"]
         /\ tp'.op = [tp.op EXCEPT ![c] = "NOP"]
         /\ tp'.left = [tp.left EXCEPT ![c] = 0]
         /\ tp'.hd = [tp.hd EXCEPT ![c] = [tp.hd[c] EXCEPT !.csem = None, !.cmd = tp.op[c], !.inc = FALSE]]
  <1> DEFINE h == [tp.hd[c] EXCEPT !.csem = None, !.cmd = tp.op[c], !.inc = FALSE]
             pc2 == [tp.pc EXCEPT ![c] = "idle"]
             op2 == [tp.op EXCEPT ![c] = "NOP"]
             left2 == [tp.left EXCEPT ![c] = 0]
             hd2 == [tp.hd EXCEPT ![c] = h]
  <1> DEFINE g == [tp.hd[c] EXCEPT !.csem = None, !.cmd = tp.op[c]]
             m == [tp EXCEPT !.hd = [tp.hd EXCEPT ![c] = g]]
             n == [tp EXCEPT !.hd[c].csem = None, !.hd[c].cmd = tp.op[c]]
  <1>c. n = m
    BY TPFields DEF TPortalType
  <1>d. tp' = ToIdle([n EXCEPT !.hd[c].inc = FALSE], c)
    BY DEF Command
  <1>a. tp' = ToIdle([m EXCEPT !.hd[c].inc = FALSE], c)
    <2> HIDE DEF n, m
    <2> QED BY <1>c, <1>d
  <1>b. [m EXCEPT !.hd[c].inc = FALSE] = [tp EXCEPT !.hd = hd2]
    BY TPFields DEF TPortalType
  <1>1. tp' = [tp EXCEPT !.pc = pc2, !.op = op2, !.left = left2, !.hd = hd2]
    BY <1>a, <1>b, TPFields DEF ToIdle
  <1>2. h \in TPHeader
    <2>1. tp.hd[c] \in TPHeader
      BY TPFields
    <2>2. tp.op[c] \in TPOps
      BY TPFields
    <2> QED BY <2>1, <2>2 DEF TPHeader, TPOps
  <1> HIDE DEF h
  <1>3. pc2 \in [Clients -> TPPcs]
    BY TPFields, TPKinds, <1>2 DEF TPPcs
  <1>4. op2 \in [Clients -> TPOps]
    BY TPFields, TPKinds, <1>2 DEF TPOps
  <1>5. left2 \in [Clients -> 0..MaxBlocks]
    BY TPFields, TPKinds, <1>2
  <1>6. hd2 \in [Clients -> TPHeader]
    BY TPFields, TPKinds, <1>2
  <1> HIDE DEF pc2, op2, left2, hd2
  <1>7. /\ SameSems(tp', tp) /\ SameXchg(tp', tp) /\ SameTPSS(tp', tp) /\ tp'.cre = tp.cre
       /\ tp'.open = tp.open /\ tp'.sound = tp.sound /\ tp'.stage = tp.stage /\ tp'.cnt = tp.cnt
       /\ tp'.spc = tp.spc /\ tp'.pc = pc2 /\ tp'.op = op2 /\ tp'.left = left2 /\ tp'.hd = hd2
    BY <1>1 DEF TPortalType, SameSems, SameXchg, SameTPSS, SameTPCS
  <1>8. IsTP(tp')
    BY <1>1, IsTPType DEF IsTP
  <1>9. tp' \in TPortalType
    BY <1>3, <1>4, <1>5, <1>6, <1>7, <1>8, TPFields, TPTyped DEF SameSems, SameXchg, SameTPSS, SameTPCS
  <1> QED BY <1>7, <1>9 DEF h, pc2, op2, left2, hd2

LEMMA RequestTimesOutIs ==
  ASSUME NEW c \in Clients, tp \in TPortalType, RequestTimesOut(c)
  PROVE  /\ tp' \in TPortalType /\ SameSems(tp', tp) /\ SameXchg(tp', tp) /\ SameTPSS(tp', tp)
         /\ tp'.cre = tp.cre /\ tp'.sound = tp.sound /\ tp'.stage = tp.stage /\ tp'.cnt = tp.cnt
         /\ tp'.spc = tp.spc
         /\ tp'.pc = [tp.pc EXCEPT ![c] = "idle"]
         /\ tp'.op = [tp.op EXCEPT ![c] = "NOP"]
         /\ tp'.left = [tp.left EXCEPT ![c] = 0]
         /\ tp'.open = [tp.open EXCEPT ![c] = FALSE]
         /\ tp'.hd = [tp.hd EXCEPT ![c] = [tp.hd[c] EXCEPT !.inc = FALSE]]
  <1> DEFINE h == [tp.hd[c] EXCEPT !.inc = FALSE]
             pc2 == [tp.pc EXCEPT ![c] = "idle"]
             op2 == [tp.op EXCEPT ![c] = "NOP"]
             left2 == [tp.left EXCEPT ![c] = 0]
             open2 == [tp.open EXCEPT ![c] = FALSE]
             hd2 == [tp.hd EXCEPT ![c] = h]
  <1>1. tp' = [tp EXCEPT !.pc = pc2, !.op = op2, !.left = left2, !.open = open2, !.hd = hd2]
    BY TPFields DEF RequestTimesOut, ToIdle
  <1>2. h \in TPHeader
    <2>1. tp.hd[c] \in TPHeader
      BY TPFields
    <2> QED BY <2>1 DEF TPHeader
  <1> HIDE DEF h
  <1>3. pc2 \in [Clients -> TPPcs]
    BY TPFields, TPKinds, <1>2 DEF TPPcs
  <1>4. op2 \in [Clients -> TPOps]
    BY TPFields, TPKinds, <1>2 DEF TPOps
  <1>5. left2 \in [Clients -> 0..MaxBlocks]
    BY TPFields, TPKinds, <1>2
  <1>6. open2 \in [Clients -> BOOLEAN]
    BY TPFields, TPKinds, <1>2
  <1>7. hd2 \in [Clients -> TPHeader]
    BY TPFields, TPKinds, <1>2
  <1> HIDE DEF pc2, op2, left2, open2, hd2
  <1>8. /\ SameSems(tp', tp) /\ SameXchg(tp', tp) /\ SameTPSS(tp', tp) /\ tp'.cre = tp.cre
       /\ tp'.sound = tp.sound /\ tp'.stage = tp.stage /\ tp'.cnt = tp.cnt /\ tp'.spc = tp.spc
       /\ tp'.pc = pc2 /\ tp'.op = op2 /\ tp'.left = left2 /\ tp'.open = open2 /\ tp'.hd = hd2
    <2>1. /\ SameSems(tp', tp) /\ SameXchg(tp', tp) /\ SameTPSS(tp', tp)
      BY <1>1 DEF TPortalType, SameSems, SameXchg, SameTPSS
    <2>2. /\ tp'.cre = tp.cre /\ tp'.sound = tp.sound /\ tp'.stage = tp.stage /\ tp'.cnt = tp.cnt
         /\ tp'.spc = tp.spc
      BY <1>1 DEF TPortalType
    <2>3. /\ tp'.pc = pc2 /\ tp'.op = op2 /\ tp'.left = left2 /\ tp'.open = open2 /\ tp'.hd = hd2
      BY <1>1 DEF TPortalType
    <2> QED BY <2>1, <2>2, <2>3
  <1>9. IsTP(tp')
    BY <1>1, IsTPType DEF IsTP
  <1>10. tp' \in TPortalType
    BY <1>3, <1>4, <1>5, <1>6, <1>7, <1>8, <1>9, TPFields, TPTyped DEF SameSems, SameXchg, SameTPSS, SameTPCS
  <1> QED BY <1>8, <1>10 DEF h, pc2, op2, left2, open2, hd2


AskRecord(p, c, h, n) == [p EXCEPT !.pc[c] = "test", !.hd[c] = h, !.left[c] = n, !.stage[c] = "asked"]

\* A request before ssem is signalled, and a close.
LEMMA AskMid ==
  ASSUME NEW c \in Clients, tp \in TPortalType, NEW h \in TPHeader, NEW n \in 0..MaxBlocks,
         NEW m, m = AskRecord(tp, c, h, n)
  PROVE  /\ m \in TPortalType /\ SameSems(m, tp) /\ SameXchg(m, tp) /\ SameTPSS(m, tp)
         /\ m.op = tp.op /\ m.cre = tp.cre /\ m.open = tp.open /\ m.sound = tp.sound
         /\ m.cnt = tp.cnt /\ m.spc = tp.spc
         /\ m.pc = [tp.pc EXCEPT ![c] = "test"]
         /\ m.hd = [tp.hd EXCEPT ![c] = h]
         /\ m.left = [tp.left EXCEPT ![c] = n]
         /\ m.stage = [tp.stage EXCEPT ![c] = "asked"]
  <1> DEFINE pc2 == [tp.pc EXCEPT ![c] = "test"]
             hd2 == [tp.hd EXCEPT ![c] = h]
             left2 == [tp.left EXCEPT ![c] = n]
             stage2 == [tp.stage EXCEPT ![c] = "asked"]
  <1>1. m = [tp EXCEPT !.pc = pc2, !.hd = hd2, !.left = left2, !.stage = stage2]
    BY TPFields DEF AskRecord
  <1>2. pc2 \in [Clients -> TPPcs]
    BY TPFields, TPKinds DEF TPPcs
  <1>3. hd2 \in [Clients -> TPHeader]
    BY TPFields, TPKinds
  <1>4. left2 \in [Clients -> 0..MaxBlocks]
    BY TPFields, TPKinds
  <1>5. stage2 \in [Clients -> TPStages]
    BY TPFields, TPKinds DEF TPStages
  <1> HIDE DEF pc2, hd2, left2, stage2
  <1>6. /\ SameSems(m, tp) /\ SameXchg(m, tp) /\ SameTPSS(m, tp) /\ m.op = tp.op /\ m.cre = tp.cre
       /\ m.open = tp.open /\ m.sound = tp.sound /\ m.cnt = tp.cnt /\ m.spc = tp.spc /\ m.pc = pc2
       /\ m.hd = hd2 /\ m.left = left2 /\ m.stage = stage2
    BY <1>1 DEF TPortalType, SameSems, SameXchg, SameTPSS, SameTPCS
  <1>7. IsTP(m)
    BY <1>1, IsTPType DEF IsTP
  <1>8. m \in TPortalType
    BY <1>2, <1>3, <1>4, <1>5, <1>6, <1>7, TPFields, TPTyped DEF SameSems, SameXchg, SameTPSS, SameTPCS
  <1> QED BY <1>6, <1>8 DEF pc2, hd2, left2, stage2

LEMMA CloseMid ==
  ASSUME NEW c \in Clients, tp \in TPortalType, NEW m, m = [tp EXCEPT !.pc[c] = "close", !.hd[c].cmd = "CLOSE"]
  PROVE  /\ m \in TPortalType /\ SameSems(m, tp) /\ SameXchg(m, tp) /\ SameTPSS(m, tp)
         /\ m.op = tp.op /\ m.cre = tp.cre /\ m.left = tp.left /\ m.open = tp.open
         /\ m.sound = tp.sound /\ m.stage = tp.stage /\ m.cnt = tp.cnt /\ m.spc = tp.spc
         /\ m.pc = [tp.pc EXCEPT ![c] = "close"]
         /\ m.hd = [tp.hd EXCEPT ![c] = [tp.hd[c] EXCEPT !.cmd = "CLOSE"]]
  <1> DEFINE h == [tp.hd[c] EXCEPT !.cmd = "CLOSE"]
             pc2 == [tp.pc EXCEPT ![c] = "close"]
             hd2 == [tp.hd EXCEPT ![c] = h]
  <1>1. m = [tp EXCEPT !.pc = pc2, !.hd = hd2]
    BY TPFields
  <1>2. h \in TPHeader
    <2>1. tp.hd[c] \in TPHeader
      BY TPFields
    <2> QED BY <2>1 DEF TPHeader
  <1> HIDE DEF h
  <1>3. pc2 \in [Clients -> TPPcs]
    BY TPFields, TPKinds, <1>2 DEF TPPcs
  <1>4. hd2 \in [Clients -> TPHeader]
    BY TPFields, TPKinds, <1>2
  <1> HIDE DEF pc2, hd2
  <1>5. /\ SameSems(m, tp) /\ SameXchg(m, tp) /\ SameTPSS(m, tp) /\ m.op = tp.op /\ m.cre = tp.cre
       /\ m.left = tp.left /\ m.open = tp.open /\ m.sound = tp.sound /\ m.stage = tp.stage
       /\ m.cnt = tp.cnt /\ m.spc = tp.spc /\ m.pc = pc2 /\ m.hd = hd2
    BY <1>1 DEF TPortalType, SameSems, SameXchg, SameTPSS, SameTPCS
  <1>6. IsTP(m)
    BY <1>1, IsTPType DEF IsTP
  <1>7. m \in TPortalType
    BY <1>3, <1>4, <1>5, <1>6, TPFields, TPTyped DEF SameSems, SameXchg, SameTPSS, SameTPCS
  <1> QED BY <1>5, <1>7 DEF h, pc2, hd2

ClosedRecord(p, c) == [p EXCEPT !.pc[c] = "idle", !.open[c] = FALSE, !.pri[c] = p.norm[c],
                                !.csem[c] = None, !.ssem[c] = None]

HasClosed(r, p, c) ==
    /\ r \in TPortalType /\ SameTPSS(r, p) /\ r.pool = p.pool /\ r.norm = p.norm
    /\ r.mpri = p.mpri /\ r.spri = p.spri /\ r.queue = p.queue /\ r.onr = p.onr
    /\ r.bct = p.bct /\ r.op = p.op /\ r.cre = p.cre /\ r.left = p.left /\ r.hd = p.hd
    /\ r.sound = p.sound /\ r.stage = p.stage /\ r.cnt = p.cnt /\ r.spc = p.spc
    /\ r.pc = [p.pc EXCEPT ![c] = "idle"]
    /\ r.open = [p.open EXCEPT ![c] = FALSE]
    /\ r.pri = [p.pri EXCEPT ![c] = p.norm[c]]
    /\ r.csem = [p.csem EXCEPT ![c] = None]
    /\ r.ssem = [p.ssem EXCEPT ![c] = None]

LEMMA CloseEndMid ==
  ASSUME NEW p \in TPortalType, NEW c \in Clients, NEW r, r = ClosedRecord(p, c)
  PROVE  HasClosed(r, p, c)
  <1> DEFINE pc2 == [p.pc EXCEPT ![c] = "idle"]
             open2 == [p.open EXCEPT ![c] = FALSE]
             pri2 == [p.pri EXCEPT ![c] = p.norm[c]]
             csem2 == [p.csem EXCEPT ![c] = None]
             ssem2 == [p.ssem EXCEPT ![c] = None]
  <1>1. r = [p EXCEPT !.pc = pc2, !.open = open2, !.pri = pri2, !.csem = csem2, !.ssem = ssem2]
    BY TPFields DEF ClosedRecord
  <1>2. pc2 \in [Clients -> TPPcs]
    BY TPFields, TPKinds DEF TPPcs
  <1>3. open2 \in [Clients -> BOOLEAN]
    BY TPFields, TPKinds
  <1>4. pri2 \in [Clients -> 0..TopPri]
    BY TPFields, TPKinds
  <1>5. csem2 \in [Clients -> SCBs \union {None}]
    BY TPFields, TPKinds
  <1>6. ssem2 \in [Clients -> SCBs \union {None}]
    BY TPFields, TPKinds
  <1> HIDE DEF pc2, open2, pri2, csem2, ssem2
  <1>7. /\ SameTPSS(r, p) /\ r.pool = p.pool /\ r.norm = p.norm /\ r.mpri = p.mpri /\ r.spri = p.spri
       /\ r.queue = p.queue /\ r.onr = p.onr /\ r.bct = p.bct /\ r.op = p.op /\ r.cre = p.cre
       /\ r.left = p.left /\ r.hd = p.hd /\ r.sound = p.sound /\ r.stage = p.stage /\ r.cnt = p.cnt
       /\ r.spc = p.spc /\ r.pc = pc2 /\ r.open = open2 /\ r.pri = pri2 /\ r.csem = csem2
       /\ r.ssem = ssem2
    <2>1. /\ SameTPSS(r, p)
      BY <1>1 DEF TPortalType, SameTPSS
    <2>2. /\ r.pool = p.pool /\ r.norm = p.norm /\ r.mpri = p.mpri /\ r.spri = p.spri
         /\ r.queue = p.queue /\ r.onr = p.onr /\ r.bct = p.bct /\ r.op = p.op /\ r.cre = p.cre
         /\ r.left = p.left
      BY <1>1 DEF TPortalType
    <2>3. /\ r.hd = p.hd /\ r.sound = p.sound /\ r.stage = p.stage /\ r.cnt = p.cnt /\ r.spc = p.spc
         /\ r.pc = pc2 /\ r.open = open2 /\ r.pri = pri2 /\ r.csem = csem2 /\ r.ssem = ssem2
      BY <1>1 DEF TPortalType
    <2> QED BY <2>1, <2>2, <2>3
  <1>8. IsTP(r)
    BY <1>1, IsTPType DEF IsTP
  <1>9. r \in TPortalType
    BY <1>2, <1>3, <1>4, <1>5, <1>6, <1>7, <1>8, TPFields, TPTyped DEF SameSems, SameXchg, SameTPSS, SameTPCS
  <1> QED BY <1>7, <1>9 DEF HasClosed, pc2, open2, pri2, csem2, ssem2

\* The server waits for the next message.
LEMMA ToNextMsgIs ==
  ASSUME NEW p \in TPortalType, NEW r, r = ToNextMsg(p)
  PROVE  /\ r \in TPortalType /\ SameSems(r, p) /\ SameXchg(r, p) /\ SameTPCS(r, p)
         /\ r.exists = p.exists /\ r.sz = p.sz /\ r.cnt = p.cnt /\ r.pc = p.pc
         /\ r.spc = "idle"
         /\ r.sess = None
         /\ r.sopen = FALSE
         /\ r.direct = FALSE
         /\ r.scsem = None
         /\ r.sssem = None
  <1> DEFINE spc2 == "idle"
             sess2 == None
             sopen2 == FALSE
             direct2 == FALSE
             scsem2 == None
             sssem2 == None
  <1>1. r = [p EXCEPT !.spc = spc2, !.sess = sess2, !.sopen = sopen2, !.direct = direct2, !.scsem = scsem2, !.sssem = sssem2]
    BY TPFields DEF ToNextMsg
  <1>2. spc2 \in TPSpcs
    BY TPFields, TPKinds DEF TPSpcs, Busy
  <1>3. sess2 \in Clients \union {None}
    BY TPFields, TPKinds
  <1>4. sopen2 \in BOOLEAN
    BY TPFields, TPKinds
  <1>5. direct2 \in BOOLEAN
    BY TPFields, TPKinds
  <1>6. scsem2 \in SCBs \union {None}
    BY TPFields, TPKinds
  <1>7. sssem2 \in SCBs \union {None}
    BY TPFields, TPKinds
  <1> HIDE DEF spc2, sess2, sopen2, direct2, scsem2, sssem2
  <1>8. /\ SameSems(r, p) /\ SameXchg(r, p) /\ SameTPCS(r, p) /\ r.exists = p.exists /\ r.sz = p.sz
       /\ r.cnt = p.cnt /\ r.pc = p.pc /\ r.spc = spc2 /\ r.sess = sess2 /\ r.sopen = sopen2
       /\ r.direct = direct2 /\ r.scsem = scsem2 /\ r.sssem = sssem2
    <2>1. /\ SameSems(r, p) /\ SameXchg(r, p) /\ SameTPCS(r, p)
      BY <1>1 DEF TPortalType, SameSems, SameXchg, SameTPCS
    <2>2. /\ r.exists = p.exists /\ r.sz = p.sz /\ r.cnt = p.cnt /\ r.pc = p.pc /\ r.spc = spc2
      BY <1>1 DEF TPortalType
    <2>3. /\ r.sess = sess2 /\ r.sopen = sopen2 /\ r.direct = direct2 /\ r.scsem = scsem2
         /\ r.sssem = sssem2
      BY <1>1 DEF TPortalType
    <2> QED BY <2>1, <2>2, <2>3
  <1>9. IsTP(r)
    BY <1>1, IsTPType DEF IsTP
  <1>10. r \in TPortalType
    BY <1>2, <1>3, <1>4, <1>5, <1>6, <1>7, <1>8, <1>9, TPFields, TPTyped DEF SameSems, SameXchg, SameTPSS, SameTPCS
  <1> QED BY <1>8, <1>10 DEF spc2, sess2, sopen2, direct2, scsem2, sssem2

ErrnoRecord(p, c) == [p EXCEPT !.hd[c].inc = FALSE]

LEMMA ErrnoIs ==
  ASSUME NEW p \in TPortalType, NEW c \in Clients, NEW r, r = ErrnoRecord(p, c)
  PROVE  /\ r \in TPortalType /\ SameSems(r, p) /\ SameXchg(r, p) /\ SameTPSS(r, p) /\ r.op = p.op
         /\ r.cre = p.cre /\ r.left = p.left /\ r.open = p.open /\ r.sound = p.sound
         /\ r.stage = p.stage /\ r.cnt = p.cnt /\ r.pc = p.pc /\ r.spc = p.spc
         /\ r.hd = [p.hd EXCEPT ![c] = [p.hd[c] EXCEPT !.inc = FALSE]]
  <1> DEFINE h == [p.hd[c] EXCEPT !.inc = FALSE]
             hd2 == [p.hd EXCEPT ![c] = h]
  <1>1. r = [p EXCEPT !.hd = hd2]
    BY TPFields DEF ErrnoRecord
  <1>2. h \in TPHeader
    <2>1. p.hd[c] \in TPHeader
      BY TPFields
    <2> QED BY <2>1 DEF TPHeader
  <1> HIDE DEF h
  <1>3. hd2 \in [Clients -> TPHeader]
    BY TPFields, TPKinds, <1>2
  <1> HIDE DEF hd2
  <1>4. /\ SameSems(r, p) /\ SameXchg(r, p) /\ SameTPSS(r, p) /\ r.op = p.op /\ r.cre = p.cre
       /\ r.left = p.left /\ r.open = p.open /\ r.sound = p.sound /\ r.stage = p.stage
       /\ r.cnt = p.cnt /\ r.pc = p.pc /\ r.spc = p.spc /\ r.hd = hd2
    BY <1>1 DEF TPortalType, SameSems, SameXchg, SameTPSS, SameTPCS
  <1>5. IsTP(r)
    BY <1>1, IsTPType DEF IsTP
  <1>6. r \in TPortalType
    BY <1>3, <1>4, <1>5, TPFields, TPTyped DEF SameSems, SameXchg, SameTPSS, SameTPCS
  <1> QED BY <1>4, <1>6 DEF h, hd2

LEMMA ServerWaitsIs ==
  ASSUME tp \in TPortalType, ServerReceive, tp.queue = <<>>
  PROVE  /\ tp' \in TPortalType /\ SameSems(tp', tp) /\ SameTPSS(tp', tp) /\ SameTPCS(tp', tp)
         /\ tp'.norm = tp.norm /\ tp'.pri = tp.pri /\ tp'.mpri = tp.mpri /\ tp'.spri = tp.spri
         /\ tp'.queue = tp.queue /\ tp'.cnt = tp.cnt /\ tp'.pc = tp.pc
         /\ tp'.spc = "receive"
         /\ tp'.onr = FALSE
         /\ tp'.bct = None
  <1> DEFINE spc2 == "receive"
             onr2 == FALSE
             bct2 == None
  <1>1. tp' = [tp EXCEPT !.spc = spc2, !.onr = onr2, !.bct = bct2]
    BY TPFields DEF ServerReceive
  <1>2. spc2 \in TPSpcs
    BY TPFields, TPKinds DEF TPSpcs, Busy
  <1>3. onr2 \in BOOLEAN
    BY TPFields, TPKinds
  <1>4. bct2 \in Clients \union {Svr, None}
    BY TPFields, TPKinds
  <1> HIDE DEF spc2, onr2, bct2
  <1>5. /\ SameSems(tp', tp) /\ SameTPSS(tp', tp) /\ SameTPCS(tp', tp) /\ tp'.norm = tp.norm
       /\ tp'.pri = tp.pri /\ tp'.mpri = tp.mpri /\ tp'.spri = tp.spri /\ tp'.queue = tp.queue
       /\ tp'.cnt = tp.cnt /\ tp'.pc = tp.pc /\ tp'.spc = spc2 /\ tp'.onr = onr2 /\ tp'.bct = bct2
    BY <1>1 DEF TPortalType, SameSems, SameXchg, SameTPSS, SameTPCS
  <1>6. IsTP(tp')
    BY <1>1, IsTPType DEF IsTP
  <1>7. tp' \in TPortalType
    BY <1>2, <1>3, <1>4, <1>5, <1>6, TPFields, TPTyped DEF SameSems, SameXchg, SameTPSS, SameTPCS
  <1> QED BY <1>5, <1>7 DEF spc2, onr2, bct2

LEMMA ServerReceivesIs ==
  ASSUME tp \in TPortalType, ServerReceive, tp.queue # <<>>
  PROVE  /\ tp' \in TPortalType /\ SameSems(tp', tp) /\ SameTPCS(tp', tp) /\ tp'.norm = tp.norm
         /\ tp'.pri = tp.pri /\ tp'.mpri = tp.mpri /\ tp'.exists = tp.exists /\ tp'.sopen = tp.sopen
         /\ tp'.scsem = tp.scsem /\ tp'.sssem = tp.sssem /\ tp'.sz = tp.sz /\ tp'.cnt = tp.cnt
         /\ tp'.pc = tp.pc
         /\ tp'.spc = "got"
         /\ tp'.sess = Head(tp.queue)
         /\ tp'.queue = Tail(tp.queue)
         /\ tp'.direct = FALSE
         /\ tp'.onr = TRUE
         /\ tp'.bct = Svr
         /\ tp'.spri = tp.mpri[Head(tp.queue)]
  <1> DEFINE spc2 == "got"
             sess2 == Head(tp.queue)
             queue2 == Tail(tp.queue)
             direct2 == FALSE
             onr2 == TRUE
             bct2 == Svr
             spri2 == tp.mpri[Head(tp.queue)]
  <1>0. Head(tp.queue) \in Clients /\ Tail(tp.queue) \in Seq(Clients)
    <2>1. tp.queue \in Seq(Clients)
      BY TPFields
    <2> QED BY <2>1
  <1>1. tp' = [tp EXCEPT !.spc = spc2, !.sess = sess2, !.queue = queue2, !.direct = direct2, !.onr = onr2, !.bct = bct2, !.spri = spri2]
    BY TPFields DEF ServerReceive
  <1>2. spc2 \in TPSpcs
    BY TPFields, TPKinds DEF TPSpcs, Busy
  <1>3. sess2 \in Clients \union {None}
    BY <1>0, TPFields, TPKinds
  <1>4. queue2 \in Seq(Clients)
    BY <1>0, TPFields, TPKinds
  <1>5. direct2 \in BOOLEAN
    BY TPFields, TPKinds
  <1>6. onr2 \in BOOLEAN
    BY TPFields, TPKinds
  <1>7. bct2 \in Clients \union {Svr, None}
    BY TPFields, TPKinds
  <1>8. spri2 \in 0..TopPri
    BY <1>0, TPFields, TPKinds
  <1> HIDE DEF spc2, sess2, queue2, direct2, onr2, bct2, spri2
  <1>9. /\ SameSems(tp', tp) /\ SameTPCS(tp', tp) /\ tp'.norm = tp.norm /\ tp'.pri = tp.pri
       /\ tp'.mpri = tp.mpri /\ tp'.exists = tp.exists /\ tp'.sopen = tp.sopen
       /\ tp'.scsem = tp.scsem /\ tp'.sssem = tp.sssem /\ tp'.sz = tp.sz /\ tp'.cnt = tp.cnt
       /\ tp'.pc = tp.pc /\ tp'.spc = spc2 /\ tp'.sess = sess2 /\ tp'.queue = queue2
       /\ tp'.direct = direct2 /\ tp'.onr = onr2 /\ tp'.bct = bct2 /\ tp'.spri = spri2
    <2>1. /\ SameSems(tp', tp) /\ SameTPCS(tp', tp)
      BY <1>1 DEF TPortalType, SameSems, SameTPCS
    <2>2. /\ tp'.norm = tp.norm /\ tp'.pri = tp.pri /\ tp'.mpri = tp.mpri /\ tp'.exists = tp.exists
         /\ tp'.sopen = tp.sopen /\ tp'.scsem = tp.scsem /\ tp'.sssem = tp.sssem /\ tp'.sz = tp.sz
      BY <1>1 DEF TPortalType
    <2>3. /\ tp'.cnt = tp.cnt /\ tp'.pc = tp.pc /\ tp'.spc = spc2 /\ tp'.sess = sess2
         /\ tp'.queue = queue2 /\ tp'.direct = direct2 /\ tp'.onr = onr2 /\ tp'.bct = bct2
         /\ tp'.spri = spri2
      BY <1>1 DEF TPortalType
    <2> QED BY <2>1, <2>2, <2>3
  <1>10. IsTP(tp')
    BY <1>1, IsTPType DEF IsTP
  <1>11. tp' \in TPortalType
    BY <1>2, <1>3, <1>4, <1>5, <1>6, <1>7, <1>8, <1>9, <1>10, TPFields, TPTyped DEF SameSems, SameXchg, SameTPSS, SameTPCS
  <1> QED BY <1>9, <1>11 DEF spc2, sess2, queue2, direct2, onr2, bct2, spri2

LEMMA ServerOpensIs ==
  ASSUME tp \in TPortalType, ServerGot, tp.hd[tp.sess].cmd = "OPEN"
  PROVE  /\ tp' \in TPortalType /\ SameSems(tp', tp) /\ SameXchg(tp', tp) /\ SameTPSS(tp', tp)
         /\ SameTPCS(tp', tp) /\ tp'.cnt = tp.cnt /\ tp'.pc = tp.pc
         /\ tp'.spc = "switch"
  <1> DEFINE spc2 == "switch"
  <1>1. tp' = [tp EXCEPT !.spc = spc2]
    BY TPFields DEF ServerGot
  <1>2. spc2 \in TPSpcs
    BY TPFields, TPKinds DEF TPSpcs, Busy
  <1> HIDE DEF spc2
  <1>3. /\ SameSems(tp', tp) /\ SameXchg(tp', tp) /\ SameTPSS(tp', tp) /\ SameTPCS(tp', tp)
       /\ tp'.cnt = tp.cnt /\ tp'.pc = tp.pc /\ tp'.spc = spc2
    BY <1>1 DEF TPortalType, SameSems, SameXchg, SameTPSS, SameTPCS
  <1>4. IsTP(tp')
    BY <1>1, IsTPType DEF IsTP
  <1>5. tp' \in TPortalType
    BY <1>2, <1>3, <1>4, TPFields, TPTyped DEF SameSems, SameXchg, SameTPSS, SameTPCS
  <1> QED BY <1>3, <1>5 DEF spc2

LEMMA SwitchOpenIs ==
  ASSUME tp \in TPortalType, tp.sess \in Clients, ServerSwitch, tp.hd[tp.sess].cmd = "OPEN"
  PROVE  /\ tp' \in TPortalType /\ SameSems(tp', tp) /\ SameXchg(tp', tp) /\ SameTPCS(tp', tp)
         /\ tp'.exists = tp.exists /\ tp'.sess = tp.sess /\ tp'.sz = tp.sz /\ tp'.direct = tp.direct
         /\ tp'.cnt = tp.cnt /\ tp'.pc = tp.pc
         /\ tp'.spc = "signal"
         /\ tp'.sopen = TRUE
         /\ tp'.scsem = tp.hd[tp.sess].csem
         /\ tp'.sssem = tp.hd[tp.sess].ssem
  <1> DEFINE spc2 == "signal"
             sopen2 == TRUE
             scsem2 == tp.hd[tp.sess].csem
             sssem2 == tp.hd[tp.sess].ssem
  <1>0. tp.hd[tp.sess].csem \in SCBs \union {None} /\ tp.hd[tp.sess].ssem \in SCBs \union {None}
    <2>1. tp.hd[tp.sess] \in TPHeader
      BY TPFields
    <2> QED BY <2>1 DEF TPHeader
  <1>1. tp' = [tp EXCEPT !.spc = spc2, !.sopen = sopen2, !.scsem = scsem2, !.sssem = sssem2]
    BY TPFields DEF ServerSwitch
  <1>2. spc2 \in TPSpcs
    BY TPFields, TPKinds DEF TPSpcs, Busy
  <1>3. sopen2 \in BOOLEAN
    BY TPFields, TPKinds
  <1>4. scsem2 \in SCBs \union {None}
    BY <1>0, TPFields, TPKinds
  <1>5. sssem2 \in SCBs \union {None}
    BY <1>0, TPFields, TPKinds
  <1> HIDE DEF spc2, sopen2, scsem2, sssem2
  <1>6. /\ SameSems(tp', tp) /\ SameXchg(tp', tp) /\ SameTPCS(tp', tp) /\ tp'.exists = tp.exists
       /\ tp'.sess = tp.sess /\ tp'.sz = tp.sz /\ tp'.direct = tp.direct /\ tp'.cnt = tp.cnt
       /\ tp'.pc = tp.pc /\ tp'.spc = spc2 /\ tp'.sopen = sopen2 /\ tp'.scsem = scsem2
       /\ tp'.sssem = sssem2
    BY <1>1 DEF TPortalType, SameSems, SameXchg, SameTPSS, SameTPCS
  <1>7. IsTP(tp')
    BY <1>1, IsTPType DEF IsTP
  <1>8. tp' \in TPortalType
    BY <1>2, <1>3, <1>4, <1>5, <1>6, <1>7, TPFields, TPTyped DEF SameSems, SameXchg, SameTPSS, SameTPCS
  <1> QED BY <1>6, <1>8 DEF spc2, sopen2, scsem2, sssem2

LEMMA SwitchSendIs ==
  ASSUME tp \in TPortalType, tp.sess \in Clients, tp' = [Begin(tp, tp.sess) EXCEPT !.spc = "send"]
  PROVE  /\ tp' \in TPortalType /\ SameSems(tp', tp) /\ SameXchg(tp', tp) /\ SameTPSS(tp', tp)
         /\ tp'.op = tp.op /\ tp'.cre = tp.cre /\ tp'.left = tp.left /\ tp'.open = tp.open
         /\ tp'.hd = tp.hd /\ tp'.sound = tp.sound /\ tp'.cnt = tp.cnt /\ tp'.pc = tp.pc
         /\ tp'.spc = "send"
         /\ tp'.stage = [tp.stage EXCEPT ![tp.sess] = IF tp.stage[tp.sess] = "asked" THEN "begun" ELSE "unasked"]
  <1> DEFINE spc2 == "send"
             stage2 == [tp.stage EXCEPT ![tp.sess] = IF tp.stage[tp.sess] = "asked" THEN "begun" ELSE "unasked"]
  <1>1. tp' = [tp EXCEPT !.spc = spc2, !.stage = stage2]
    BY TPFields DEF Begin, TPortalType
  <1>2. spc2 \in TPSpcs
    BY TPFields, TPKinds DEF TPSpcs, Busy
  <1>3. stage2 \in [Clients -> TPStages]
    BY TPFields, TPKinds DEF TPStages
  <1> HIDE DEF spc2, stage2
  <1>4. /\ SameSems(tp', tp) /\ SameXchg(tp', tp) /\ SameTPSS(tp', tp) /\ tp'.op = tp.op
       /\ tp'.cre = tp.cre /\ tp'.left = tp.left /\ tp'.open = tp.open /\ tp'.hd = tp.hd
       /\ tp'.sound = tp.sound /\ tp'.cnt = tp.cnt /\ tp'.pc = tp.pc /\ tp'.spc = spc2
       /\ tp'.stage = stage2
    BY <1>1 DEF TPortalType, SameSems, SameXchg, SameTPSS, SameTPCS
  <1>5. IsTP(tp')
    BY <1>1, IsTPType DEF IsTP
  <1>6. tp' \in TPortalType
    BY <1>2, <1>3, <1>4, <1>5, TPFields, TPTyped DEF SameSems, SameXchg, SameTPSS, SameTPCS
  <1> QED BY <1>4, <1>6 DEF spc2, stage2

LEMMA SwitchReceiveIs ==
  ASSUME tp \in TPortalType, tp.sess \in Clients, NEW n \in 0..MaxBlocks,
         tp' = [Begin(tp, tp.sess) EXCEPT !.spc = "recv", !.sz = n]
  PROVE  /\ tp' \in TPortalType /\ SameSems(tp', tp) /\ SameXchg(tp', tp) /\ tp'.exists = tp.exists
         /\ tp'.sess = tp.sess /\ tp'.sopen = tp.sopen /\ tp'.scsem = tp.scsem
         /\ tp'.sssem = tp.sssem /\ tp'.direct = tp.direct /\ tp'.op = tp.op /\ tp'.cre = tp.cre
         /\ tp'.left = tp.left /\ tp'.open = tp.open /\ tp'.hd = tp.hd /\ tp'.sound = tp.sound
         /\ tp'.cnt = tp.cnt /\ tp'.pc = tp.pc
         /\ tp'.spc = "recv"
         /\ tp'.stage = [tp.stage EXCEPT ![tp.sess] = IF tp.stage[tp.sess] = "asked" THEN "begun" ELSE "unasked"]
         /\ tp'.sz = n
  <1> DEFINE spc2 == "recv"
             stage2 == [tp.stage EXCEPT ![tp.sess] = IF tp.stage[tp.sess] = "asked" THEN "begun" ELSE "unasked"]
             sz2 == n
  <1>1. tp' = [tp EXCEPT !.spc = spc2, !.stage = stage2, !.sz = sz2]
    BY TPFields DEF Begin, TPortalType
  <1>2. spc2 \in TPSpcs
    BY TPFields, TPKinds DEF TPSpcs, Busy
  <1>3. stage2 \in [Clients -> TPStages]
    BY TPFields, TPKinds DEF TPStages
  <1>4. sz2 \in 0..MaxBlocks \union {None}
    BY TPFields, TPKinds
  <1> HIDE DEF spc2, stage2, sz2
  <1>5. /\ SameSems(tp', tp) /\ SameXchg(tp', tp) /\ tp'.exists = tp.exists /\ tp'.sess = tp.sess
       /\ tp'.sopen = tp.sopen /\ tp'.scsem = tp.scsem /\ tp'.sssem = tp.sssem
       /\ tp'.direct = tp.direct /\ tp'.op = tp.op /\ tp'.cre = tp.cre /\ tp'.left = tp.left
       /\ tp'.open = tp.open /\ tp'.hd = tp.hd /\ tp'.sound = tp.sound /\ tp'.cnt = tp.cnt
       /\ tp'.pc = tp.pc /\ tp'.spc = spc2 /\ tp'.stage = stage2 /\ tp'.sz = sz2
    BY <1>1 DEF TPortalType, SameSems, SameXchg, SameTPSS, SameTPCS
  <1>6. IsTP(tp')
    BY <1>1, IsTPType DEF IsTP
  <1>7. tp' \in TPortalType
    BY <1>2, <1>3, <1>4, <1>5, <1>6, TPFields, TPTyped DEF SameSems, SameXchg, SameTPSS, SameTPCS
  <1> QED BY <1>5, <1>7 DEF spc2, stage2, sz2

LEMMA ServedIs ==
  ASSUME NEW p \in TPortalType, p.sess \in Clients, p.sopen, NEW r, r = ServerServed(p)
  PROVE  /\ r \in TPortalType /\ SameSems(r, p) /\ SameXchg(r, p) /\ SameTPSS(r, p) /\ r.op = p.op
         /\ r.cre = p.cre /\ r.left = p.left /\ r.open = p.open /\ r.hd = p.hd /\ r.sound = p.sound
         /\ r.cnt = p.cnt /\ r.pc = p.pc
         /\ r.stage = [p.stage EXCEPT ![p.sess] = IF p.stage[p.sess] = "begun" THEN "done" ELSE p.stage[p.sess]]
         /\ r.spc = "signal"
  <1> DEFINE stage2 == [p.stage EXCEPT ![p.sess] = IF p.stage[p.sess] = "begun" THEN "done" ELSE p.stage[p.sess]]
             spc2 == "signal"
  <1>1. r = [p EXCEPT !.stage = stage2, !.spc = spc2]
    BY TPFields DEF ServerServed, TPortalType
  <1>2. stage2 \in [Clients -> TPStages]
    BY TPFields, TPKinds DEF TPStages
  <1>3. spc2 \in TPSpcs
    BY TPFields, TPKinds DEF TPSpcs, Busy
  <1> HIDE DEF stage2, spc2
  <1>4. /\ SameSems(r, p) /\ SameXchg(r, p) /\ SameTPSS(r, p) /\ r.op = p.op /\ r.cre = p.cre
       /\ r.left = p.left /\ r.open = p.open /\ r.hd = p.hd /\ r.sound = p.sound /\ r.cnt = p.cnt
       /\ r.pc = p.pc /\ r.stage = stage2 /\ r.spc = spc2
    BY <1>1 DEF TPortalType, SameSems, SameXchg, SameTPSS, SameTPCS
  <1>5. IsTP(r)
    BY <1>1, IsTPType DEF IsTP
  <1>6. r \in TPortalType
    BY <1>2, <1>3, <1>4, <1>5, TPFields, TPTyped DEF SameSems, SameXchg, SameTPSS, SameTPCS
  <1> QED BY <1>4, <1>6 DEF stage2, spc2

LEMMA ServedLastIs ==
  ASSUME NEW p \in TPortalType, p.sess \in Clients, ~p.sopen, NEW r, r = ServerServed(p)
  PROVE  /\ r \in TPortalType /\ SameSems(r, p) /\ SameXchg(r, p) /\ r.exists = p.exists
         /\ r.sz = p.sz /\ r.op = p.op /\ r.cre = p.cre /\ r.left = p.left /\ r.open = p.open
         /\ r.hd = p.hd /\ r.sound = p.sound /\ r.cnt = p.cnt /\ r.pc = p.pc
         /\ r.stage = [p.stage EXCEPT ![p.sess] = IF p.stage[p.sess] = "begun" THEN "done" ELSE p.stage[p.sess]]
         /\ r.spc = "idle"
         /\ r.sess = None
         /\ r.sopen = FALSE
         /\ r.direct = FALSE
         /\ r.scsem = None
         /\ r.sssem = None
  <1> DEFINE stage2 == [p.stage EXCEPT ![p.sess] = IF p.stage[p.sess] = "begun" THEN "done" ELSE p.stage[p.sess]]
             spc2 == "idle"
             sess2 == None
             sopen2 == FALSE
             direct2 == FALSE
             scsem2 == None
             sssem2 == None
  <1>1. r = [p EXCEPT !.stage = stage2, !.spc = spc2, !.sess = sess2, !.sopen = sopen2, !.direct = direct2, !.scsem = scsem2, !.sssem = sssem2]
    BY TPFields DEF ServerServed, ToNextMsg, TPortalType
  <1>2. stage2 \in [Clients -> TPStages]
    BY TPFields, TPKinds DEF TPStages
  <1>3. spc2 \in TPSpcs
    BY TPFields, TPKinds DEF TPSpcs, Busy
  <1>4. sess2 \in Clients \union {None}
    BY TPFields, TPKinds
  <1>5. sopen2 \in BOOLEAN
    BY TPFields, TPKinds
  <1>6. direct2 \in BOOLEAN
    BY TPFields, TPKinds
  <1>7. scsem2 \in SCBs \union {None}
    BY TPFields, TPKinds
  <1>8. sssem2 \in SCBs \union {None}
    BY TPFields, TPKinds
  <1> HIDE DEF stage2, spc2, sess2, sopen2, direct2, scsem2, sssem2
  <1>9. /\ SameSems(r, p) /\ SameXchg(r, p) /\ r.exists = p.exists /\ r.sz = p.sz /\ r.op = p.op
       /\ r.cre = p.cre /\ r.left = p.left /\ r.open = p.open /\ r.hd = p.hd /\ r.sound = p.sound
       /\ r.cnt = p.cnt /\ r.pc = p.pc /\ r.stage = stage2 /\ r.spc = spc2 /\ r.sess = sess2
       /\ r.sopen = sopen2 /\ r.direct = direct2 /\ r.scsem = scsem2 /\ r.sssem = sssem2
    <2>1. /\ SameSems(r, p) /\ SameXchg(r, p)
      BY <1>1 DEF TPortalType, SameSems, SameXchg
    <2>2. /\ r.exists = p.exists /\ r.sz = p.sz /\ r.op = p.op /\ r.cre = p.cre /\ r.left = p.left
         /\ r.open = p.open /\ r.hd = p.hd /\ r.sound = p.sound
      BY <1>1 DEF TPortalType
    <2>3. /\ r.cnt = p.cnt /\ r.pc = p.pc /\ r.stage = stage2 /\ r.spc = spc2 /\ r.sess = sess2
         /\ r.sopen = sopen2 /\ r.direct = direct2 /\ r.scsem = scsem2 /\ r.sssem = sssem2
      BY <1>1 DEF TPortalType
    <2> QED BY <2>1, <2>2, <2>3
  <1>10. IsTP(r)
    BY <1>1, IsTPType DEF IsTP
  <1>11. r \in TPortalType
    BY <1>2, <1>3, <1>4, <1>5, <1>6, <1>7, <1>8, <1>9, <1>10, TPFields, TPTyped DEF SameSems, SameXchg, SameTPSS, SameTPCS
  <1> QED BY <1>9, <1>11 DEF stage2, spc2, sess2, sopen2, direct2, scsem2, sssem2

HeaderRecord(p, c, h) == [p EXCEPT !.hd[c] = h]

SizedRecord(p, n, c, h) == [p EXCEPT !.sz = n, !.hd[c] = h]

LEMMA HeaderIs ==
  ASSUME NEW p \in TPortalType, NEW c \in Clients, NEW h \in TPHeader, NEW r, r = HeaderRecord(p, c, h)
  PROVE  /\ r \in TPortalType /\ SameSems(r, p) /\ SameXchg(r, p) /\ SameTPSS(r, p) /\ r.op = p.op
         /\ r.cre = p.cre /\ r.left = p.left /\ r.open = p.open /\ r.sound = p.sound
         /\ r.stage = p.stage /\ r.cnt = p.cnt /\ r.pc = p.pc /\ r.spc = p.spc
         /\ r.hd = [p.hd EXCEPT ![c] = h]
  <1> DEFINE hd2 == [p.hd EXCEPT ![c] = h]
  <1>1. r = [p EXCEPT !.hd = hd2]
    BY TPFields DEF HeaderRecord
  <1>2. hd2 \in [Clients -> TPHeader]
    BY TPFields, TPKinds
  <1> HIDE DEF hd2
  <1>3. /\ SameSems(r, p) /\ SameXchg(r, p) /\ SameTPSS(r, p) /\ r.op = p.op /\ r.cre = p.cre
       /\ r.left = p.left /\ r.open = p.open /\ r.sound = p.sound /\ r.stage = p.stage
       /\ r.cnt = p.cnt /\ r.pc = p.pc /\ r.spc = p.spc /\ r.hd = hd2
    BY <1>1 DEF TPortalType, SameSems, SameXchg, SameTPSS, SameTPCS
  <1>4. IsTP(r)
    BY <1>1, IsTPType DEF IsTP
  <1>5. r \in TPortalType
    BY <1>2, <1>3, <1>4, TPFields, TPTyped DEF SameSems, SameXchg, SameTPSS, SameTPCS
  <1> QED BY <1>3, <1>5 DEF hd2

LEMMA SizedHeaderIs ==
  ASSUME NEW p \in TPortalType, NEW c \in Clients, NEW h \in TPHeader, NEW n \in 0..MaxBlocks,
         NEW r, r = SizedRecord(p, n, c, h)
  PROVE  /\ r \in TPortalType /\ SameSems(r, p) /\ SameXchg(r, p) /\ r.exists = p.exists
         /\ r.sess = p.sess /\ r.sopen = p.sopen /\ r.scsem = p.scsem /\ r.sssem = p.sssem
         /\ r.direct = p.direct /\ r.op = p.op /\ r.cre = p.cre /\ r.left = p.left
         /\ r.open = p.open /\ r.sound = p.sound /\ r.stage = p.stage /\ r.cnt = p.cnt
         /\ r.pc = p.pc /\ r.spc = p.spc
         /\ r.sz = n
         /\ r.hd = [p.hd EXCEPT ![c] = h]
  <1> DEFINE sz2 == n
             hd2 == [p.hd EXCEPT ![c] = h]
  <1>1. r = [p EXCEPT !.sz = sz2, !.hd = hd2]
    BY TPFields DEF SizedRecord
  <1>2. sz2 \in 0..MaxBlocks \union {None}
    BY TPFields, TPKinds
  <1>3. hd2 \in [Clients -> TPHeader]
    BY TPFields, TPKinds
  <1> HIDE DEF sz2, hd2
  <1>4. /\ SameSems(r, p) /\ SameXchg(r, p) /\ r.exists = p.exists /\ r.sess = p.sess
       /\ r.sopen = p.sopen /\ r.scsem = p.scsem /\ r.sssem = p.sssem /\ r.direct = p.direct
       /\ r.op = p.op /\ r.cre = p.cre /\ r.left = p.left /\ r.open = p.open /\ r.sound = p.sound
       /\ r.stage = p.stage /\ r.cnt = p.cnt /\ r.pc = p.pc /\ r.spc = p.spc /\ r.sz = sz2
       /\ r.hd = hd2
    BY <1>1 DEF TPortalType, SameSems, SameXchg, SameTPSS, SameTPCS
  <1>5. IsTP(r)
    BY <1>1, IsTPType DEF IsTP
  <1>6. r \in TPortalType
    BY <1>2, <1>3, <1>4, <1>5, TPFields, TPTyped DEF SameSems, SameXchg, SameTPSS, SameTPCS
  <1> QED BY <1>4, <1>6 DEF sz2, hd2

LEMMA ServerGetsIs ==
  ASSUME tp \in TPortalType, ServerTest, Live(tp, tp.sssem), tp.cnt[tp.sssem]
  PROVE  /\ tp' \in TPortalType /\ SameSems(tp', tp) /\ SameXchg(tp', tp) /\ SameTPSS(tp', tp)
         /\ SameTPCS(tp', tp) /\ tp'.pc = tp.pc
         /\ tp'.cnt = [tp.cnt EXCEPT ![tp.sssem] = FALSE]
         /\ tp'.spc = "switch"
  <1> DEFINE cnt2 == [tp.cnt EXCEPT ![tp.sssem] = FALSE]
             spc2 == "switch"
  <1>1. tp' = [tp EXCEPT !.cnt = cnt2, !.spc = spc2]
    BY TPFields DEF ServerTest
  <1>2. cnt2 \in [SCBs -> BOOLEAN]
    BY TPFields, TPKinds
  <1>3. spc2 \in TPSpcs
    BY TPFields, TPKinds DEF TPSpcs, Busy
  <1> HIDE DEF cnt2, spc2
  <1>4. /\ SameSems(tp', tp) /\ SameXchg(tp', tp) /\ SameTPSS(tp', tp) /\ SameTPCS(tp', tp)
       /\ tp'.pc = tp.pc /\ tp'.cnt = cnt2 /\ tp'.spc = spc2
    BY <1>1 DEF TPortalType, SameSems, SameXchg, SameTPSS, SameTPCS
  <1>5. IsTP(tp')
    BY <1>1, IsTPType DEF IsTP
  <1>6. tp' \in TPortalType
    BY <1>2, <1>3, <1>4, <1>5, TPFields, TPTyped DEF SameSems, SameXchg, SameTPSS, SameTPCS
  <1> QED BY <1>4, <1>6 DEF cnt2, spc2

LEMMA CreateIs ==
  ASSUME tp \in TPortalType, TPortalCreate
  PROVE  /\ tp' \in TPortalType /\ SameSems(tp', tp) /\ SameXchg(tp', tp) /\ SameTPCS(tp', tp)
         /\ tp'.sess = tp.sess /\ tp'.sopen = tp.sopen /\ tp'.scsem = tp.scsem
         /\ tp'.sssem = tp.sssem /\ tp'.sz = tp.sz /\ tp'.direct = tp.direct /\ tp'.cnt = tp.cnt
         /\ tp'.pc = tp.pc
         /\ tp'.exists = TRUE
         /\ tp'.spc = "start"
  <1> DEFINE exists2 == TRUE
             spc2 == "start"
  <1>1. tp' = [tp EXCEPT !.exists = exists2, !.spc = spc2]
    BY TPFields DEF TPortalCreate
  <1>2. exists2 \in BOOLEAN
    BY TPFields, TPKinds
  <1>3. spc2 \in TPSpcs
    BY TPFields, TPKinds DEF TPSpcs, Busy
  <1> HIDE DEF exists2, spc2
  <1>4. /\ SameSems(tp', tp) /\ SameXchg(tp', tp) /\ SameTPCS(tp', tp) /\ tp'.sess = tp.sess
       /\ tp'.sopen = tp.sopen /\ tp'.scsem = tp.scsem /\ tp'.sssem = tp.sssem /\ tp'.sz = tp.sz
       /\ tp'.direct = tp.direct /\ tp'.cnt = tp.cnt /\ tp'.pc = tp.pc /\ tp'.exists = exists2
       /\ tp'.spc = spc2
    BY <1>1 DEF TPortalType, SameSems, SameXchg, SameTPSS, SameTPCS
  <1>5. IsTP(tp')
    BY <1>1, IsTPType DEF IsTP
  <1>6. tp' \in TPortalType
    BY <1>2, <1>3, <1>4, <1>5, TPFields, TPTyped DEF SameSems, SameXchg, SameTPSS, SameTPCS
  <1> QED BY <1>4, <1>6 DEF exists2, spc2

LEMMA DeleteIs ==
  ASSUME tp \in TPortalType, TPortalDelete
  PROVE  /\ tp' \in TPortalType /\ SameSems(tp', tp) /\ tp'.norm = tp.norm /\ tp'.pri = tp.pri
         /\ tp'.mpri = tp.mpri /\ tp'.spri = tp.spri /\ tp'.op = tp.op /\ tp'.cre = tp.cre
         /\ tp'.left = tp.left /\ tp'.hd = tp.hd /\ tp'.sound = tp.sound /\ tp'.stage = tp.stage
         /\ tp'.cnt = tp.cnt /\ tp'.pc = tp.pc
         /\ tp'.exists = FALSE
         /\ tp'.spc = "stopped"
         /\ tp'.sess = None
         /\ tp'.sopen = FALSE
         /\ tp'.direct = FALSE
         /\ tp'.scsem = None
         /\ tp'.sssem = None
         /\ tp'.queue = <<>>
         /\ tp'.onr = FALSE
         /\ tp'.bct = None
         /\ tp'.sz = None
         /\ tp'.open = [c \in Clients |-> FALSE]
  <1> DEFINE exists2 == FALSE
             spc2 == "stopped"
             sess2 == None
             sopen2 == FALSE
             direct2 == FALSE
             scsem2 == None
             sssem2 == None
             queue2 == <<>>
             onr2 == FALSE
             bct2 == None
             sz2 == None
             open2 == [c \in Clients |-> FALSE]
  <1>0. <<>> \in Seq(Clients)
    OBVIOUS
  <1>1. tp' = [tp EXCEPT !.exists = exists2, !.spc = spc2, !.sess = sess2, !.sopen = sopen2, !.direct = direct2, !.scsem = scsem2, !.sssem = sssem2, !.queue = queue2, !.onr = onr2, !.bct = bct2, !.sz = sz2, !.open = open2]
    BY TPFields DEF TPortalDelete, ToNextMsg, TPortalType
  <1>2. exists2 \in BOOLEAN
    BY TPFields, TPKinds
  <1>3. spc2 \in TPSpcs
    BY TPFields, TPKinds DEF TPSpcs, Busy
  <1>4. sess2 \in Clients \union {None}
    BY TPFields, TPKinds
  <1>5. sopen2 \in BOOLEAN
    BY TPFields, TPKinds
  <1>6. direct2 \in BOOLEAN
    BY TPFields, TPKinds
  <1>7. scsem2 \in SCBs \union {None}
    BY TPFields, TPKinds
  <1>8. sssem2 \in SCBs \union {None}
    BY TPFields, TPKinds
  <1>9. queue2 \in Seq(Clients)
    BY <1>0, TPFields, TPKinds
  <1>10. onr2 \in BOOLEAN
    BY TPFields, TPKinds
  <1>11. bct2 \in Clients \union {Svr, None}
    BY TPFields, TPKinds
  <1>12. sz2 \in 0..MaxBlocks \union {None}
    BY TPFields, TPKinds
  <1>13. open2 \in [Clients -> BOOLEAN]
    BY TPFields, TPKinds
  <1> HIDE DEF exists2, spc2, sess2, sopen2, direct2, scsem2, sssem2, queue2, onr2, bct2, sz2, open2
  <1>14. /\ SameSems(tp', tp) /\ tp'.norm = tp.norm /\ tp'.pri = tp.pri /\ tp'.mpri = tp.mpri
        /\ tp'.spri = tp.spri /\ tp'.op = tp.op /\ tp'.cre = tp.cre /\ tp'.left = tp.left
        /\ tp'.hd = tp.hd /\ tp'.sound = tp.sound /\ tp'.stage = tp.stage /\ tp'.cnt = tp.cnt
        /\ tp'.pc = tp.pc /\ tp'.exists = exists2 /\ tp'.spc = spc2 /\ tp'.sess = sess2
        /\ tp'.sopen = sopen2 /\ tp'.direct = direct2 /\ tp'.scsem = scsem2 /\ tp'.sssem = sssem2
        /\ tp'.queue = queue2 /\ tp'.onr = onr2 /\ tp'.bct = bct2 /\ tp'.sz = sz2
        /\ tp'.open = open2
    <2>1. /\ SameSems(tp', tp)
      BY <1>1 DEF TPortalType, SameSems
    <2>2. /\ tp'.norm = tp.norm /\ tp'.pri = tp.pri /\ tp'.mpri = tp.mpri /\ tp'.spri = tp.spri
         /\ tp'.op = tp.op /\ tp'.cre = tp.cre /\ tp'.left = tp.left /\ tp'.hd = tp.hd
         /\ tp'.sound = tp.sound /\ tp'.stage = tp.stage /\ tp'.cnt = tp.cnt /\ tp'.pc = tp.pc
      BY <1>1 DEF TPortalType
    <2>3. /\ tp'.exists = exists2 /\ tp'.spc = spc2 /\ tp'.sess = sess2 /\ tp'.sopen = sopen2
         /\ tp'.direct = direct2 /\ tp'.scsem = scsem2 /\ tp'.sssem = sssem2 /\ tp'.queue = queue2
         /\ tp'.onr = onr2 /\ tp'.bct = bct2 /\ tp'.sz = sz2 /\ tp'.open = open2
      BY <1>1 DEF TPortalType
    <2> QED BY <2>1, <2>2, <2>3
  <1>15. IsTP(tp')
    BY <1>1, IsTPType DEF IsTP
  <1>16. tp' \in TPortalType
    BY <1>2, <1>3, <1>4, <1>5, <1>6, <1>7, <1>8, <1>9, <1>10, <1>11, <1>12, <1>13, <1>14, <1>15, TPFields, TPTyped DEF SameSems, SameXchg, SameTPSS, SameTPCS
  <1> QED BY <1>14, <1>16 DEF exists2, spc2, sess2, sopen2, direct2, scsem2, sssem2, queue2, onr2, bct2, sz2, open2

LEMMA RequestEndsIs ==
  ASSUME NEW c \in Clients, tp \in TPortalType, RequestEnds(c)
  PROVE  /\ tp' \in TPortalType /\ SameSems(tp', tp) /\ SameXchg(tp', tp) /\ SameTPSS(tp', tp)
         /\ tp'.cre = tp.cre /\ tp'.open = tp.open /\ tp'.sound = tp.sound /\ tp'.stage = tp.stage
         /\ tp'.cnt = tp.cnt /\ tp'.spc = tp.spc
         /\ tp'.pc = [tp.pc EXCEPT ![c] = "idle"]
         /\ tp'.op = [tp.op EXCEPT ![c] = "NOP"]
         /\ tp'.left = [tp.left EXCEPT ![c] = 0]
         /\ tp'.hd = [tp.hd EXCEPT ![c] = [tp.hd[c] EXCEPT !.inc = FALSE,
                               !.eod = tp.hd[c].eod /\ ~(tp.op[c] = "RECEIVE" /\ ~tp.hd[c].inc /\ tp.open[c])]]
  <1> DEFINE h == [tp.hd[c] EXCEPT !.inc = FALSE,
                               !.eod = tp.hd[c].eod /\ ~(tp.op[c] = "RECEIVE" /\ ~tp.hd[c].inc /\ tp.open[c])]
             pc2 == [tp.pc EXCEPT ![c] = "idle"]
             op2 == [tp.op EXCEPT ![c] = "NOP"]
             left2 == [tp.left EXCEPT ![c] = 0]
             hd2 == [tp.hd EXCEPT ![c] = h]
             n == [tp EXCEPT !.hd[c] = h]
  <1>a. tp' = ToIdle(n, c)
    BY DEF RequestEnds
  <1>b. n = [tp EXCEPT !.hd = hd2]
    BY TPFields DEF TPortalType
  <1> HIDE DEF n
  <1>1. tp' = [tp EXCEPT !.pc = pc2, !.op = op2, !.left = left2, !.hd = hd2]
    BY <1>a, <1>b, TPFields DEF ToIdle
  <1>2. h \in TPHeader
    <2>1. tp.hd[c] \in TPHeader
      BY TPFields
    <2> QED BY <2>1 DEF TPHeader
  <1> HIDE DEF h
  <1>3. pc2 \in [Clients -> TPPcs]
    BY TPFields, TPKinds, <1>2 DEF TPPcs
  <1>4. op2 \in [Clients -> TPOps]
    BY TPFields, TPKinds, <1>2 DEF TPOps
  <1>5. left2 \in [Clients -> 0..MaxBlocks]
    BY TPFields, TPKinds, <1>2
  <1>6. hd2 \in [Clients -> TPHeader]
    BY TPFields, TPKinds, <1>2
  <1> HIDE DEF pc2, op2, left2, hd2
  <1>7. /\ SameSems(tp', tp) /\ SameXchg(tp', tp) /\ SameTPSS(tp', tp) /\ tp'.cre = tp.cre
       /\ tp'.open = tp.open /\ tp'.sound = tp.sound /\ tp'.stage = tp.stage /\ tp'.cnt = tp.cnt
       /\ tp'.spc = tp.spc /\ tp'.pc = pc2 /\ tp'.op = op2 /\ tp'.left = left2 /\ tp'.hd = hd2
    BY <1>1 DEF TPortalType, SameSems, SameXchg, SameTPSS, SameTPCS
  <1>8. IsTP(tp')
    BY <1>1, IsTPType DEF IsTP
  <1>9. tp' \in TPortalType
    BY <1>3, <1>4, <1>5, <1>6, <1>7, <1>8, TPFields, TPTyped DEF SameSems, SameXchg, SameTPSS, SameTPCS
  <1> QED BY <1>7, <1>9 DEF h, pc2, op2, left2, hd2


-----------------------------------------------------------------------------
(* What a step leaves alone.                                               *)

LEMMA HandlesKept ==
  ASSUME NEW p, NEW q, Handles(p), SameSems(q, p),
         \A c \in Clients : p.csem[c] = None => q.pc[c] = "idle"
  PROVE  Handles(q)
  BY DEF Handles, SameSems

LEMMA ServingKept ==
  ASSUME NEW p, NEW q, Serving(p), q.exists = p.exists, q.onr = p.onr, q.bct = p.bct,
         q.queue = p.queue, q.sess = p.sess, q.direct = p.direct, q.sz = p.sz,
         q.spc = p.spc \/ (p.spc \in Busy /\ q.spc \in Busy \ {"recv"})
  PROVE  Serving(q)
  BY DEF Serving, Busy

LEMMA PromotedKept ==
  ASSUME NEW p, NEW q, Promoted(p), SameXchg(q, p),
         ~q.direct \/ (q.direct = p.direct /\ q.sess = p.sess),
         \A c \in Clients : Held(q, c) => Held(p, c)
  PROVE  Promoted(q)
  BY DEF Promoted, SameXchg, Above

SameCommand(g, h) == /\ g.cmd = h.cmd /\ g.sod = h.sod /\ g.eod = h.eod /\ g.rqsz = h.rqsz
                     /\ g.csem = h.csem /\ g.ssem = h.ssem

\* Client c is where it was, but for its errno, and for open if it was cleared.
SameClient(q, p, c) ==
    /\ q.pc[c] = p.pc[c] /\ q.op[c] = p.op[c] /\ q.left[c] = p.left[c]
    /\ q.csem[c] = p.csem[c] /\ q.ssem[c] = p.ssem[c]
    /\ q.sound[c] = p.sound[c] /\ q.stage[c] = p.stage[c]
    /\ q.open[c] => p.open[c]
    /\ SameCommand(q.hd[c], p.hd[c])

LEMMA HeaderKept ==
  ASSUME NEW p, NEW q, NEW c \in Clients, Header(p, c),
         q.pc[c] = p.pc[c] \/ (p.pc[c] = "wait" /\ q.pc[c] \in {"passed", "failed"}),
         q.op[c] = p.op[c], q.left[c] = p.left[c],
         q.csem[c] = p.csem[c], q.ssem[c] = p.ssem[c], SameCommand(q.hd[c], p.hd[c]),
         Contains(q.queue, c) \/ q.sess = c => Contains(p.queue, c) \/ p.sess = c
  PROVE  Header(q, c)
  BY DEF Header, SameCommand

\* What is not about the server.
LEMMA AboutKept ==
  ASSUME NEW p, NEW q, NEW c \in Clients, About(p, c), SameClient(q, p, c),
         Current(p, c) => q.cnt[p.csem[c]] = p.cnt[p.csem[c]] /\ q.cnt[p.ssem[c]] = p.cnt[p.ssem[c]],
         Contains(q.queue, c) => Contains(p.queue, c),
         q.sess = c => p.sess = c,
         Current(p, c) => 
            \/ q.sess # c /\ Loose(q, c)
            \/ /\ q.sess = p.sess /\ q.sopen = p.sopen /\ q.scsem = p.scsem /\ q.sssem = p.sssem
               /\ q.sz = p.sz
               /\ q.spc = p.spc \/ (p.spc = "wait" /\ ~Tied(p, c))
  PROVE  About(q, c)
  <1>1. Header(q, c)
    BY HeaderKept DEF About, SameClient
  <1>2. ASSUME Current(q, c)
        PROVE  Matched(q, c)
    <2>1. Current(p, c) /\ Matched(p, c)
      BY <1>2 DEF Current, About, SameClient
    <2>2. SameClient(q, p, c) /\ SameCommand(q.hd[c], p.hd[c])
      BY DEF SameClient
    <2>3. /\ q.cnt[q.csem[c]] = p.cnt[p.csem[c]] /\ q.cnt[q.ssem[c]] = p.cnt[p.ssem[c]]
          /\ Contains(q.queue, c) => Contains(p.queue, c)
      BY <2>1, <2>2 DEF SameClient
    <2>4. CASE q.sess # c /\ Loose(q, c)
      <3>1. Opening(q, c)
        BY <2>1, <2>2, <2>3, <2>4 DEF Matched, Opening, SameClient, SameCommand
      <3>2. Ready(q, c)
        BY <2>1, <2>2, <2>3, <2>4 DEF Matched, Ready, Resting, Quiet, SameClient, SameCommand
      <3>3. Asked(q, c)
        BY <2>1, <2>2, <2>3, <2>4 DEF Matched, Asked, Counts, SameClient, SameCommand
      <3>4. Passed(q, c)
        BY <2>1, <2>2, <2>3, <2>4 DEF Matched, Passed, Counts, Quiet, SameClient, SameCommand
      <3> QED BY <2>1, <2>2, <2>4, <3>1, <3>2, <3>3, <3>4 DEF Matched, SameClient
    <2>5. CASE /\ q.sess = p.sess /\ q.sopen = p.sopen /\ q.scsem = p.scsem /\ q.sssem = p.sssem
               /\ q.sz = p.sz
               /\ q.spc = p.spc \/ (p.spc = "wait" /\ ~Tied(p, c))
      <3>0. Tied(q, c) <=> Tied(p, c)
        BY <2>2, <2>5 DEF Tied, SameClient
      <3>1. Opening(q, c)
        BY <2>1, <2>2, <2>3, <2>5, <3>0 DEF Matched, Opening, SameClient, SameCommand
      <3>2. Ready(q, c)
        BY <2>1, <2>2, <2>3, <2>5, <3>0 DEF Matched, Ready, Resting, Quiet, SameClient, SameCommand
      <3>3. Asked(q, c)
        BY <2>1, <2>2, <2>3, <2>5, <3>0 DEF Matched, Asked, Counts, SameClient, SameCommand
      <3>4. Passed(q, c)
        BY <2>1, <2>2, <2>3, <2>5, <3>0 DEF Matched, Passed, Counts, Quiet, SameClient, SameCommand
      <3>5. Loose(q, c)
        BY <2>1, <2>2, <2>5 DEF Matched, Loose, SameClient
      <3> QED BY <2>1, <2>2, <3>1, <3>2, <3>3, <3>4, <3>5 DEF Matched, SameClient
    <2> QED BY <2>1, <2>4, <2>5
  <1> QED BY <1>1, <1>2 DEF About

-----------------------------------------------------------------------------
(* The semaphores of a client.                                             *)

LEMMA HandleFacts ==
  ASSUME NEW p \in TPortalType, Handles(p), NEW c \in Clients, p.csem[c] # None
  PROVE  /\ p.csem[c] \in SCBs /\ p.ssem[c] \in SCBs /\ p.csem[c] # p.ssem[c]
         /\ Live(p, p.csem[c]) /\ Live(p, p.ssem[c])
         /\ \A d \in Clients : d # c /\ p.csem[d] # None =>
               /\ p.csem[d] # p.csem[c] /\ p.csem[d] # p.ssem[c]
               /\ p.ssem[d] # p.csem[c] /\ p.ssem[d] # p.ssem[c]
         /\ \A d \in Clients : p.pc[d] = "wait" => p.csem[d] # None
  <1>1. /\ p.csem[c] \in SCBs /\ p.ssem[c] \in SCBs /\ p.csem[c] # p.ssem[c]
        /\ ~Contains(p.pool, p.csem[c]) /\ ~Contains(p.pool, p.ssem[c])
    BY TPFields DEF Handles
  <1>2. Live(p, p.csem[c]) /\ Live(p, p.ssem[c])
    <2>1. p.pool \in Seq(SCBs)
      BY TPFields
    <2>2. \A u : u \in Range(p.pool) <=> Contains(p.pool, u)
      BY <2>1, RangeContains
    <2> QED BY <1>1, <2>2, TPKinds DEF Live
  <1>3. \A d \in Clients : d # c /\ p.csem[d] # None =>
               /\ p.csem[d] # p.csem[c] /\ p.csem[d] # p.ssem[c]
               /\ p.ssem[d] # p.csem[c] /\ p.ssem[d] # p.ssem[c]
    BY DEF Handles
  <1>4. \A d \in Clients : p.pc[d] = "wait" => p.csem[d] # None
    BY DEF Handles
  <1> QED BY <1>1, <1>2, <1>3, <1>4

LEMMA ClientSignals ==
  ASSUME NEW p \in TPortalType, Handles(p), NEW c \in Clients, p.csem[c] # None,
         NEW q, q \in Signalled(p, p.ssem[c])
  PROVE  /\ q \in TPortalType /\ SameSems(q, p) /\ SameXchg(q, p) /\ SameTPSS(q, p) /\ SameTPCS(q, p)
         /\ q.pc = p.pc
         /\ IF p.spc = "wait" /\ p.sssem = p.ssem[c]
            THEN q.spc = "switch" /\ q.cnt = p.cnt
            ELSE q.spc = p.spc /\ q.cnt = [p.cnt EXCEPT ![p.ssem[c]] = TRUE]
  <1> DEFINE s == p.ssem[c]
  <1>1. Live(p, s) /\ TPWaiters(p, s) = {t \in {Svr} : p.spc = "wait" /\ p.sssem = s}
    <2>1. \A d \in Clients : p.pc[d] = "wait" => p.csem[d] # s
      BY HandleFacts
    <2> QED BY <2>1, HandleFacts DEF TPWaiters
  <1>2. q \in Signalled(p, s)
    OBVIOUS
  <1> HIDE DEF s
  <1>3. /\ q \in TPortalType /\ SameSems(q, p) /\ SameXchg(q, p) /\ SameTPSS(q, p) /\ SameTPCS(q, p)
        /\ \/ ~Live(p, s) /\ q.cnt = p.cnt /\ q.pc = p.pc /\ q.spc = p.spc
           \/ /\ Live(p, s) /\ TPWaiters(p, s) = {}
              /\ q.cnt = [p.cnt EXCEPT ![s] = TRUE] /\ q.pc = p.pc /\ q.spc = p.spc
           \/ /\ Live(p, s) /\ q.cnt = p.cnt
              /\ \E w \in TPWaiters(p, s) :
                    /\ \A d \in Clients : q.pc[d] = IF d = w THEN "passed" ELSE p.pc[d]
                    /\ q.spc = IF w = Svr THEN "switch" ELSE p.spc
    BY <1>2, SignalledIs
  <1>4. CASE TPWaiters(p, s) = {}
    <2>1. ~(p.spc = "wait" /\ p.sssem = s)
      BY <1>1, <1>4
    <2>2. q.cnt = [p.cnt EXCEPT ![s] = TRUE] /\ q.pc = p.pc /\ q.spc = p.spc
      BY <1>1, <1>3, <1>4
    <2> QED BY <1>3, <2>1, <2>2 DEF s
  <1>5. CASE TPWaiters(p, s) # {}
    <2>1. p.spc = "wait" /\ p.sssem = s /\ TPWaiters(p, s) = {Svr}
      BY <1>1, <1>5
    <2>2. /\ q.cnt = p.cnt /\ q.spc = "switch"
          /\ \A d \in Clients : q.pc[d] = p.pc[d]
      BY <1>1, <1>3, <2>1, TPKinds
    <2>3. q.pc = p.pc
      <3>1. q.pc \in [Clients -> TPPcs] /\ p.pc \in [Clients -> TPPcs]
        BY <1>3, TPFields
      <3> QED BY <3>1, <2>2
    <2> QED BY <1>3, <2>1, <2>2, <2>3 DEF s
  <1> QED BY <1>4, <1>5

\* A block is asked for, or sent.
LEMMA AskForIs ==
  ASSUME NEW c \in Clients, tp \in TPortalType, Handles(tp), tp.csem[c] # None,
         NEW h \in TPHeader, NEW n \in 0..MaxBlocks, AskFor(c, h, n)
  PROVE  /\ tp' \in TPortalType /\ SameSems(tp', tp) /\ SameXchg(tp', tp) /\ SameTPSS(tp', tp)
         /\ tp'.op = tp.op /\ tp'.cre = tp.cre /\ tp'.open = tp.open /\ tp'.sound = tp.sound
         /\ tp'.pc = [tp.pc EXCEPT ![c] = "test"] /\ tp'.hd = [tp.hd EXCEPT ![c] = h]
         /\ tp'.left = [tp.left EXCEPT ![c] = n] /\ tp'.stage = [tp.stage EXCEPT ![c] = "asked"]
         /\ IF tp.spc = "wait" /\ tp.sssem = tp.ssem[c]
            THEN tp'.spc = "switch" /\ tp'.cnt = tp.cnt
            ELSE tp'.spc = tp.spc /\ tp'.cnt = [tp.cnt EXCEPT ![tp.ssem[c]] = TRUE]
  <1> DEFINE m == AskRecord(tp, c, h, n)
  <1>1. tp' \in Signalled(m, tp.ssem[c])
    BY DEF AskFor, AskRecord
  <1>2. m = AskRecord(tp, c, h, n)
    OBVIOUS
  <1> HIDE DEF m
  <1>3. /\ m \in TPortalType /\ SameSems(m, tp) /\ SameXchg(m, tp) /\ SameTPSS(m, tp)
        /\ m.op = tp.op /\ m.cre = tp.cre /\ m.open = tp.open /\ m.sound = tp.sound
        /\ m.cnt = tp.cnt /\ m.spc = tp.spc
        /\ m.pc = [tp.pc EXCEPT ![c] = "test"] /\ m.hd = [tp.hd EXCEPT ![c] = h]
        /\ m.left = [tp.left EXCEPT ![c] = n] /\ m.stage = [tp.stage EXCEPT ![c] = "asked"]
    BY <1>2, AskMid
  <1>4. Handles(m)
    <2>1. \A d \in Clients : tp.csem[d] = None => m.pc[d] = "idle"
      BY <1>3 DEF Handles
    <2> QED BY <1>3, <2>1, HandlesKept
  <1>5. /\ m.csem[c] # None /\ m.ssem[c] = tp.ssem[c] /\ m.sssem = tp.sssem
        /\ tp' \in Signalled(m, m.ssem[c])
    BY <1>1, <1>3 DEF SameSems, SameTPSS
  <1>6. /\ tp' \in TPortalType /\ SameSems(tp', m) /\ SameXchg(tp', m) /\ SameTPSS(tp', m)
        /\ SameTPCS(tp', m) /\ tp'.pc = m.pc
        /\ IF m.spc = "wait" /\ m.sssem = m.ssem[c]
           THEN tp'.spc = "switch" /\ tp'.cnt = m.cnt
           ELSE tp'.spc = m.spc /\ tp'.cnt = [m.cnt EXCEPT ![m.ssem[c]] = TRUE]
    BY <1>3, <1>4, <1>5, ClientSignals
  <1>7. SameSems(tp', tp) /\ SameXchg(tp', tp) /\ SameTPSS(tp', tp)
    BY <1>3, <1>6 DEF SameSems, SameXchg, SameTPSS
  <1>8. /\ tp'.op = tp.op /\ tp'.cre = tp.cre /\ tp'.open = tp.open /\ tp'.sound = tp.sound
        /\ tp'.pc = [tp.pc EXCEPT ![c] = "test"] /\ tp'.hd = [tp.hd EXCEPT ![c] = h]
        /\ tp'.left = [tp.left EXCEPT ![c] = n] /\ tp'.stage = [tp.stage EXCEPT ![c] = "asked"]
    BY <1>3, <1>6 DEF SameTPCS
  <1>9. IF tp.spc = "wait" /\ tp.sssem = tp.ssem[c]
        THEN tp'.spc = "switch" /\ tp'.cnt = tp.cnt
        ELSE tp'.spc = tp.spc /\ tp'.cnt = [tp.cnt EXCEPT ![tp.ssem[c]] = TRUE]
    BY <1>3, <1>5, <1>6
  <1> QED BY <1>6, <1>7, <1>8, <1>9

LEMMA CloseBeginIs ==
  ASSUME NEW c \in Clients, tp \in TPortalType, Handles(tp), CloseBegin(c)
  PROVE  /\ tp' \in TPortalType /\ SameSems(tp', tp) /\ SameXchg(tp', tp) /\ SameTPSS(tp', tp)
         /\ tp'.op = tp.op /\ tp'.cre = tp.cre /\ tp'.open = tp.open /\ tp'.sound = tp.sound
         /\ tp'.left = tp.left /\ tp'.stage = tp.stage
         /\ tp'.pc = [tp.pc EXCEPT ![c] = "close"]
         /\ tp'.hd = [tp.hd EXCEPT ![c] = [tp.hd[c] EXCEPT !.cmd = "CLOSE"]]
         /\ IF tp.spc = "wait" /\ tp.sssem = tp.ssem[c]
            THEN tp'.spc = "switch" /\ tp'.cnt = tp.cnt
            ELSE tp'.spc = tp.spc /\ tp'.cnt = [tp.cnt EXCEPT ![tp.ssem[c]] = TRUE]
  <1> DEFINE m == [tp EXCEPT !.pc[c] = "close", !.hd[c].cmd = "CLOSE"]
  <1>1. tp.csem[c] # None /\ tp' \in Signalled(m, tp.ssem[c])
    BY DEF CloseBegin
  <1>2. m = [tp EXCEPT !.pc[c] = "close", !.hd[c].cmd = "CLOSE"]
    OBVIOUS
  <1> HIDE DEF m
  <1>3. /\ m \in TPortalType /\ SameSems(m, tp) /\ SameXchg(m, tp) /\ SameTPSS(m, tp)
        /\ m.op = tp.op /\ m.cre = tp.cre /\ m.open = tp.open /\ m.sound = tp.sound
        /\ m.cnt = tp.cnt /\ m.spc = tp.spc /\ m.left = tp.left /\ m.stage = tp.stage
        /\ m.pc = [tp.pc EXCEPT ![c] = "close"]
        /\ m.hd = [tp.hd EXCEPT ![c] = [tp.hd[c] EXCEPT !.cmd = "CLOSE"]]
    BY <1>2, CloseMid
  <1>4. Handles(m)
    <2>1. \A d \in Clients : tp.csem[d] = None => m.pc[d] = "idle"
      BY <1>1, <1>3 DEF Handles
    <2> QED BY <1>3, <2>1, HandlesKept
  <1>5. /\ m.csem[c] # None /\ m.ssem[c] = tp.ssem[c] /\ m.sssem = tp.sssem
        /\ tp' \in Signalled(m, m.ssem[c])
    BY <1>1, <1>3 DEF SameSems, SameTPSS
  <1>6. /\ tp' \in TPortalType /\ SameSems(tp', m) /\ SameXchg(tp', m) /\ SameTPSS(tp', m)
        /\ SameTPCS(tp', m) /\ tp'.pc = m.pc
        /\ IF m.spc = "wait" /\ m.sssem = m.ssem[c]
           THEN tp'.spc = "switch" /\ tp'.cnt = m.cnt
           ELSE tp'.spc = m.spc /\ tp'.cnt = [m.cnt EXCEPT ![m.ssem[c]] = TRUE]
    BY <1>3, <1>4, <1>5, ClientSignals
  <1>7. SameSems(tp', tp) /\ SameXchg(tp', tp) /\ SameTPSS(tp', tp)
    BY <1>3, <1>6 DEF SameSems, SameXchg, SameTPSS
  <1>8. /\ tp'.op = tp.op /\ tp'.cre = tp.cre /\ tp'.open = tp.open /\ tp'.sound = tp.sound
        /\ tp'.left = tp.left /\ tp'.stage = tp.stage
        /\ tp'.pc = [tp.pc EXCEPT ![c] = "close"]
        /\ tp'.hd = [tp.hd EXCEPT ![c] = [tp.hd[c] EXCEPT !.cmd = "CLOSE"]]
    BY <1>3, <1>6 DEF SameTPCS
  <1>9. IF tp.spc = "wait" /\ tp.sssem = tp.ssem[c]
        THEN tp'.spc = "switch" /\ tp'.cnt = tp.cnt
        ELSE tp'.spc = tp.spc /\ tp'.cnt = [tp.cnt EXCEPT ![tp.ssem[c]] = TRUE]
    BY <1>3, <1>5, <1>6
  <1> QED BY <1>6, <1>7, <1>8, <1>9

-----------------------------------------------------------------------------
(* The steps of a client.                                                  *)

LEMMA OpenLoadKeeps ==
  ASSUME TPSound(tp), NEW c \in Clients, OpenLoad(c)
  PROVE  TPSound(tp')
  <1>1. /\ tp \in TPortalType /\ Handles(tp) /\ Serving(tp) /\ Promoted(tp) /\ Unopened(tp)
        /\ \A d \in Clients : About(tp, d)
        /\ tp.pc[c] = "load"
    BY DEF TPSound, OpenLoad, AtClient
  <1>2. /\ tp' \in TPortalType /\ SameSems(tp', tp) /\ SameXchg(tp', tp) /\ SameTPSS(tp', tp)
        /\ tp'.op = tp.op /\ tp'.cre = tp.cre /\ tp'.left = tp.left /\ tp'.open = tp.open
        /\ tp'.sound = tp.sound /\ tp'.stage = tp.stage /\ tp'.cnt = tp.cnt /\ tp'.spc = tp.spc
        /\ tp'.pc = [tp.pc EXCEPT ![c] = "send"]
        /\ tp'.hd = [tp.hd EXCEPT ![c] = [tp.hd[c] EXCEPT !.cmd = "OPEN"]]
    BY <1>1, OpenLoadIs
  <1>3. \A d \in Clients : d # c => SameClient(tp', tp, d)
    BY <1>1, <1>2, TPFields DEF SameClient, SameCommand, SameSems, SameXchg, SameTPSS, SameTPCS
  <1>4. /\ tp'.pc[c] = "send" /\ tp'.op[c] = tp.op[c] /\ tp'.left[c] = tp.left[c]
        /\ tp'.open[c] = tp.open[c] /\ tp'.csem[c] = tp.csem[c] /\ tp'.ssem[c] = tp.ssem[c]
        /\ tp'.sound[c] = tp.sound[c] /\ tp'.stage[c] = tp.stage[c]
        /\ tp'.hd[c].cmd = "OPEN" /\ tp'.hd[c].sod = tp.hd[c].sod /\ tp'.hd[c].eod = tp.hd[c].eod
        /\ tp'.hd[c].rqsz = tp.hd[c].rqsz /\ tp'.hd[c].csem = tp.hd[c].csem
        /\ tp'.hd[c].ssem = tp.hd[c].ssem
    <2>0. /\ tp'.pc = [tp.pc EXCEPT ![c] = "send"]
          /\ tp'.op = tp.op /\ tp'.cre = tp.cre /\ tp'.left = tp.left /\ tp'.open = tp.open
          /\ tp'.left = tp.left /\ tp'.open = tp.open /\ tp'.open = tp.open /\ tp'.csem = tp.csem
          /\ tp'.ssem = tp.ssem
          /\ tp'.sound = tp.sound /\ tp'.stage = tp.stage /\ tp'.cnt = tp.cnt /\ tp'.spc = tp.spc
          /\ tp'.stage = tp.stage /\ tp'.cnt = tp.cnt /\ tp'.spc = tp.spc
      BY <1>2 DEF SameSems, SameXchg, SameTPSS, SameTPCS
    <2>1. /\ tp.pc \in [Clients -> TPPcs] /\ tp.op \in [Clients -> TPOps]
          /\ tp.left \in [Clients -> 0..MaxBlocks] /\ tp.open \in [Clients -> BOOLEAN]
          /\ tp.csem \in [Clients -> SCBs \union {None}] /\ tp.ssem \in [Clients -> SCBs \union {None}]
          /\ tp.sound \in [Clients -> BOOLEAN] /\ tp.stage \in [Clients -> TPStages]
      BY <1>1, TPFields
    <2>2. /\ tp'.pc[c] = "send" /\ tp'.op[c] = tp.op[c] /\ tp'.left[c] = tp.left[c]
          /\ tp'.open[c] = tp.open[c] /\ tp'.csem[c] = tp.csem[c] /\ tp'.ssem[c] = tp.ssem[c]
          /\ tp'.sound[c] = tp.sound[c] /\ tp'.stage[c] = tp.stage[c]
      BY <2>0, <2>1
    <2>3. tp.hd[c] \in TPHeader /\ tp.hd \in [Clients -> TPHeader]
      BY <1>1, TPFields
    <2>4. /\ tp'.hd[c].cmd = "OPEN" /\ tp'.hd[c].sod = tp.hd[c].sod /\ tp'.hd[c].eod = tp.hd[c].eod
          /\ tp'.hd[c].rqsz = tp.hd[c].rqsz /\ tp'.hd[c].csem = tp.hd[c].csem
          /\ tp'.hd[c].ssem = tp.hd[c].ssem
      BY <1>2, <2>3 DEF TPHeader
    <2> QED BY <2>2, <2>4
  <1>5. Handles(tp')
    <2>1. \A d \in Clients : tp.csem[d] = None => tp'.pc[d] = "idle"
      BY <1>1, <1>3, <1>4 DEF Handles, SameClient
    <2> QED BY <1>1, <1>2, <2>1, HandlesKept
  <1>6. Serving(tp')
    BY <1>1, <1>2, ServingKept DEF SameXchg, SameTPSS, Busy
  <1>7. Promoted(tp')
    <2>1. \A d \in Clients : Held(tp', d) => Held(tp, d)
      BY <1>1, <1>3, <1>4 DEF Held, SameClient, About, Header
    <2> QED BY <1>1, <1>2, <2>1, PromotedKept DEF SameTPSS
  <1>8. Unopened(tp')
    BY <1>1, <1>2 DEF Unopened, SameTPSS
  <1>9. \A d \in Clients : d # c => About(tp', d)
    <2> SUFFICES ASSUME NEW d \in Clients, d # c
                 PROVE  About(tp', d)
      OBVIOUS
    <2>2. tp'.cnt = tp.cnt
      BY <1>2
    <2>3. /\ Contains(tp'.queue, d) => Contains(tp.queue, d)
          /\ tp'.sess = tp.sess /\ tp'.sopen = tp.sopen
          /\ tp'.scsem = tp.scsem /\ tp'.sssem = tp.sssem /\ tp'.sz = tp.sz
      BY <1>2 DEF SameXchg, SameTPSS
    <2>4. tp'.spc = tp.spc
      BY <1>2
    <2> QED BY <1>1, <1>3, <2>2, <2>3, <2>4, AboutKept
  <1>10. Header(tp', c)
    BY <1>1, <1>2, <1>4, TPFields, TPKinds DEF About, Header, SameXchg, SameTPSS, Handles
  <1>11. ~Current(tp', c)
    BY <1>4 DEF Current
  <1> QED BY <1>1, <1>2, <1>5, <1>6, <1>7, <1>8, <1>9, <1>10, <1>11 DEF TPSound, About

LEMMA ClientPassesKeeps ==
  ASSUME TPSound(tp), NEW c \in Clients, ClientTest(c), tp.cnt[tp.csem[c]]
  PROVE  TPSound(tp')
  <1>1. /\ tp \in TPortalType /\ Handles(tp) /\ Serving(tp) /\ Promoted(tp) /\ Unopened(tp)
        /\ \A d \in Clients : About(tp, d)
        /\ tp.pc[c] = "test" /\ tp.cnt[tp.csem[c]]
    BY DEF TPSound, ClientTest, AtClient
  <1>2. /\ tp' \in TPortalType /\ SameSems(tp', tp) /\ SameXchg(tp', tp) /\ SameTPSS(tp', tp)
        /\ SameTPCS(tp', tp) /\ tp'.spc = tp.spc
        /\ tp'.cnt = [tp.cnt EXCEPT ![tp.csem[c]] = FALSE]
        /\ tp'.pc = [tp.pc EXCEPT ![c] = "passed"]
    BY <1>1, ClientPassesIs
  <1>3. \A d \in Clients : d # c => SameClient(tp', tp, d)
    BY <1>1, <1>2, TPFields DEF SameClient, SameCommand, SameSems, SameXchg, SameTPSS, SameTPCS
  <1>4. /\ tp'.pc[c] = "passed" /\ tp'.op[c] = tp.op[c] /\ tp'.left[c] = tp.left[c]
        /\ tp'.open[c] = tp.open[c] /\ tp'.csem[c] = tp.csem[c] /\ tp'.ssem[c] = tp.ssem[c]
        /\ tp'.sound[c] = tp.sound[c] /\ tp'.stage[c] = tp.stage[c]
        /\ tp'.hd[c].cmd = tp.hd[c].cmd /\ tp'.hd[c].sod = tp.hd[c].sod
        /\ tp'.hd[c].eod = tp.hd[c].eod /\ tp'.hd[c].rqsz = tp.hd[c].rqsz
        /\ tp'.hd[c].csem = tp.hd[c].csem /\ tp'.hd[c].ssem = tp.hd[c].ssem
    <2>0. /\ tp'.pc = [tp.pc EXCEPT ![c] = "passed"] /\ tp'.op = tp.op /\ tp'.left = tp.left
          /\ tp'.open = tp.open /\ tp'.csem = tp.csem /\ tp'.ssem = tp.ssem /\ tp'.sound = tp.sound
          /\ tp'.stage = tp.stage
      BY <1>2 DEF SameSems, SameXchg, SameTPSS, SameTPCS
    <2>1. /\ tp.pc \in [Clients -> TPPcs] /\ tp.op \in [Clients -> TPOps]
          /\ tp.left \in [Clients -> 0..MaxBlocks] /\ tp.open \in [Clients -> BOOLEAN]
          /\ tp.csem \in [Clients -> SCBs \union {None}] /\ tp.ssem \in [Clients -> SCBs \union {None}]
          /\ tp.sound \in [Clients -> BOOLEAN] /\ tp.stage \in [Clients -> TPStages]
      BY <1>1, TPFields
    <2>2. /\ tp'.pc[c] = "passed" /\ tp'.op[c] = tp.op[c] /\ tp'.left[c] = tp.left[c]
          /\ tp'.open[c] = tp.open[c] /\ tp'.csem[c] = tp.csem[c] /\ tp'.ssem[c] = tp.ssem[c]
          /\ tp'.sound[c] = tp.sound[c] /\ tp'.stage[c] = tp.stage[c]
      BY <2>0, <2>1
    <2>3. tp'.hd = tp.hd
      BY <1>2 DEF SameSems, SameXchg, SameTPSS, SameTPCS
    <2> QED BY <2>2, <2>3
  <1>5. Handles(tp')
    <2>1. \A d \in Clients : tp.csem[d] = None => tp'.pc[d] = "idle"
      BY <1>1, <1>3, <1>4 DEF Handles, SameClient
    <2> QED BY <1>1, <1>2, <2>1, HandlesKept
  <1>6. Serving(tp')
    BY <1>1, <1>2, ServingKept DEF SameXchg, SameTPSS, Busy
  <1>7. Promoted(tp')
    <2>1. \A d \in Clients : Held(tp', d) => Held(tp, d)
      BY <1>1, <1>3, <1>4 DEF Held, SameClient, About, Header
    <2> QED BY <1>1, <1>2, <2>1, PromotedKept DEF SameTPSS
  <1>8. Unopened(tp')
    BY <1>1, <1>2 DEF Unopened, SameTPSS
  <1>9. \A d \in Clients : d # c => About(tp', d)
    <2> SUFFICES ASSUME NEW d \in Clients, d # c
                 PROVE  About(tp', d)
      OBVIOUS
    <2>0. tp.csem[c] # None
      BY <1>1 DEF Handles
    <2>1. /\ tp.csem[c] \in SCBs /\ tp.ssem[c] \in SCBs
          /\ tp.csem[d] # None => /\ tp.csem[d] # tp.csem[c] /\ tp.csem[d] # tp.ssem[c]
                                /\ tp.ssem[d] # tp.csem[c] /\ tp.ssem[d] # tp.ssem[c]
                                /\ tp.csem[d] \in SCBs /\ tp.ssem[d] \in SCBs
      BY <1>1, <2>0, HandleFacts
    <2>2. Current(tp, d) => /\ tp'.cnt[tp.csem[d]] = tp.cnt[tp.csem[d]]
                            /\ tp'.cnt[tp.ssem[d]] = tp.cnt[tp.ssem[d]]
      <3>1. tp.cnt \in [SCBs -> BOOLEAN]
        BY <1>1, TPFields
      <3>2. tp'.cnt = [tp.cnt EXCEPT ![tp.csem[c]] = FALSE]
        BY <1>2
      <3>3. Current(tp, d) => tp.csem[d] # None
        BY DEF Current
      <3> QED BY <2>1, <3>1, <3>2, <3>3
    <2>3. /\ Contains(tp'.queue, d) => Contains(tp.queue, d)
          /\ tp'.sess = tp.sess /\ tp'.sopen = tp.sopen
          /\ tp'.scsem = tp.scsem /\ tp'.sssem = tp.sssem /\ tp'.sz = tp.sz
      BY <1>2 DEF SameXchg, SameTPSS
    <2>4. tp'.spc = tp.spc
      BY <1>2
    <2> QED BY <1>1, <1>3, <2>2, <2>3, <2>4, AboutKept
  <1>10. Header(tp', c)
    BY <1>1, <1>2, <1>4, TPFields, TPKinds DEF About, Header, SameXchg, SameTPSS, Handles
  <1>11. Current(tp', c) => Matched(tp', c)
    <2> SUFFICES ASSUME Current(tp', c)
                 PROVE  Matched(tp', c)
      OBVIOUS
    <2>1. Current(tp, c) /\ Matched(tp, c) /\ Header(tp, c) /\ tp.op[c] \in TPOps
      BY <1>1, <1>4, TPFields DEF Current, About
    <2>2. /\ tp'.queue = tp.queue /\ tp'.sess = tp.sess /\ tp'.sopen = tp.sopen
          /\ tp'.scsem = tp.scsem /\ tp'.sssem = tp.sssem /\ tp'.sz = tp.sz
      BY <1>2 DEF SameXchg, SameTPSS
    <2>3. Tied(tp', c) <=> Tied(tp, c)
      BY <1>4, <2>2 DEF Tied
    <2>4. /\ tp'.spc = tp.spc
          /\ ~tp'.cnt[tp.csem[c]] /\ tp'.cnt[tp.ssem[c]] = tp.cnt[tp.ssem[c]]
      <3>1. tp.csem[c] \in SCBs /\ tp.ssem[c] \in SCBs /\ tp.csem[c] # tp.ssem[c]
        BY <1>1, <2>1, HandleFacts DEF Current
      <3>2. tp.cnt \in [SCBs -> BOOLEAN]
        BY <1>1, TPFields
      <3> QED BY <1>2, <3>1, <3>2
    <2>5. Opening(tp', c)
      BY <1>1, <1>4, <2>1, <2>2, <2>3, <2>4 DEF Matched, Opening, Header
    <2>6. Ready(tp', c)
      BY <1>1, <1>4, <2>1, <2>2, <2>3, <2>4
         DEF Matched, Opening, Ready, Resting, Passed, Quiet, Header, TPOps
    <2>7. Asked(tp', c)
      BY <1>1, <1>4, <2>1, <2>2, <2>3, <2>4
         DEF Matched, Ready, Resting, Asked, Passed, Counts, Quiet, Header, Tied
    <2>8. Passed(tp', c)
      BY <1>1, <1>4, <2>1, <2>2, <2>3, <2>4 DEF Matched, Passed, Asked, Counts, Quiet
    <2>9. Loose(tp', c) /\ (tp'.op[c] = "OPEN" => ~tp'.open[c])
      BY <1>1, <1>4, <2>1, <2>2 DEF Matched, Loose
    <2> QED BY <2>5, <2>6, <2>7, <2>8, <2>9 DEF Matched
  <1> QED BY <1>1, <1>2, <1>5, <1>6, <1>7, <1>8, <1>9, <1>10, <1>11 DEF TPSound, About

LEMMA ClientWaitsKeeps ==
  ASSUME TPSound(tp), NEW c \in Clients, ClientTest(c), ~tp.cnt[tp.csem[c]]
  PROVE  TPSound(tp')
  <1>1. /\ tp \in TPortalType /\ Handles(tp) /\ Serving(tp) /\ Promoted(tp) /\ Unopened(tp)
        /\ \A d \in Clients : About(tp, d)
        /\ tp.pc[c] = "test" /\ ~tp.cnt[tp.csem[c]]
    BY DEF TPSound, ClientTest, AtClient
  <1>2. /\ tp' \in TPortalType /\ SameSems(tp', tp) /\ SameXchg(tp', tp) /\ SameTPSS(tp', tp)
        /\ SameTPCS(tp', tp) /\ tp'.cnt = tp.cnt /\ tp'.spc = tp.spc
        /\ tp'.pc = [tp.pc EXCEPT ![c] = "wait"]
    BY <1>1, ClientWaitsIs
  <1>3. \A d \in Clients : d # c => SameClient(tp', tp, d)
    BY <1>1, <1>2, TPFields DEF SameClient, SameCommand, SameSems, SameXchg, SameTPSS, SameTPCS
  <1>4. /\ tp'.pc[c] = "wait" /\ tp'.op[c] = tp.op[c] /\ tp'.left[c] = tp.left[c]
        /\ tp'.open[c] = tp.open[c] /\ tp'.csem[c] = tp.csem[c] /\ tp'.ssem[c] = tp.ssem[c]
        /\ tp'.sound[c] = tp.sound[c] /\ tp'.stage[c] = tp.stage[c]
        /\ tp'.hd[c].cmd = tp.hd[c].cmd /\ tp'.hd[c].sod = tp.hd[c].sod
        /\ tp'.hd[c].eod = tp.hd[c].eod /\ tp'.hd[c].rqsz = tp.hd[c].rqsz
        /\ tp'.hd[c].csem = tp.hd[c].csem /\ tp'.hd[c].ssem = tp.hd[c].ssem
    <2>0. /\ tp'.pc = [tp.pc EXCEPT ![c] = "wait"] /\ tp'.op = tp.op /\ tp'.left = tp.left
          /\ tp'.open = tp.open /\ tp'.csem = tp.csem /\ tp'.ssem = tp.ssem /\ tp'.sound = tp.sound
          /\ tp'.stage = tp.stage
      BY <1>2 DEF SameSems, SameXchg, SameTPSS, SameTPCS
    <2>1. /\ tp.pc \in [Clients -> TPPcs] /\ tp.op \in [Clients -> TPOps]
          /\ tp.left \in [Clients -> 0..MaxBlocks] /\ tp.open \in [Clients -> BOOLEAN]
          /\ tp.csem \in [Clients -> SCBs \union {None}] /\ tp.ssem \in [Clients -> SCBs \union {None}]
          /\ tp.sound \in [Clients -> BOOLEAN] /\ tp.stage \in [Clients -> TPStages]
      BY <1>1, TPFields
    <2>2. /\ tp'.pc[c] = "wait" /\ tp'.op[c] = tp.op[c] /\ tp'.left[c] = tp.left[c]
          /\ tp'.open[c] = tp.open[c] /\ tp'.csem[c] = tp.csem[c] /\ tp'.ssem[c] = tp.ssem[c]
          /\ tp'.sound[c] = tp.sound[c] /\ tp'.stage[c] = tp.stage[c]
      BY <2>0, <2>1
    <2>3. tp'.hd = tp.hd
      BY <1>2 DEF SameSems, SameXchg, SameTPSS, SameTPCS
    <2> QED BY <2>2, <2>3
  <1>5. Handles(tp')
    <2>1. \A d \in Clients : tp.csem[d] = None => tp'.pc[d] = "idle"
      BY <1>1, <1>3, <1>4 DEF Handles, SameClient
    <2> QED BY <1>1, <1>2, <2>1, HandlesKept
  <1>6. Serving(tp')
    BY <1>1, <1>2, ServingKept DEF SameXchg, SameTPSS, Busy
  <1>7. Promoted(tp')
    <2>1. \A d \in Clients : Held(tp', d) => Held(tp, d)
      BY <1>1, <1>3, <1>4 DEF Held, SameClient, About, Header
    <2> QED BY <1>1, <1>2, <2>1, PromotedKept DEF SameTPSS
  <1>8. Unopened(tp')
    BY <1>1, <1>2 DEF Unopened, SameTPSS
  <1>9. \A d \in Clients : d # c => About(tp', d)
    <2> SUFFICES ASSUME NEW d \in Clients, d # c
                 PROVE  About(tp', d)
      OBVIOUS
    <2>2. tp'.cnt = tp.cnt
      BY <1>2
    <2>3. /\ Contains(tp'.queue, d) => Contains(tp.queue, d)
          /\ tp'.sess = tp.sess /\ tp'.sopen = tp.sopen
          /\ tp'.scsem = tp.scsem /\ tp'.sssem = tp.sssem /\ tp'.sz = tp.sz
      BY <1>2 DEF SameXchg, SameTPSS
    <2>4. tp'.spc = tp.spc
      BY <1>2
    <2> QED BY <1>1, <1>3, <2>2, <2>3, <2>4, AboutKept
  <1>10. Header(tp', c)
    BY <1>1, <1>2, <1>4, TPFields, TPKinds DEF About, Header, SameXchg, SameTPSS, Handles
  <1>11. Current(tp', c) => Matched(tp', c)
    <2> SUFFICES ASSUME Current(tp', c)
                 PROVE  Matched(tp', c)
      OBVIOUS
    <2>1. Current(tp, c) /\ Matched(tp, c) /\ Header(tp, c) /\ tp.op[c] \in TPOps
      BY <1>1, <1>4, TPFields DEF Current, About
    <2>2. /\ tp'.queue = tp.queue /\ tp'.sess = tp.sess /\ tp'.sopen = tp.sopen
          /\ tp'.scsem = tp.scsem /\ tp'.sssem = tp.sssem /\ tp'.sz = tp.sz
      BY <1>2 DEF SameXchg, SameTPSS
    <2>3. Tied(tp', c) <=> Tied(tp, c)
      BY <1>4, <2>2 DEF Tied
    <2>4. /\ tp'.spc = tp.spc
          /\ tp'.cnt[tp.csem[c]] = tp.cnt[tp.csem[c]] /\ tp'.cnt[tp.ssem[c]] = tp.cnt[tp.ssem[c]]
      BY <1>2
    <2>5. Opening(tp', c)
      BY <1>1, <1>4, <2>1, <2>2, <2>3, <2>4 DEF Matched, Opening, Header
    <2>6. Ready(tp', c)
      BY <1>1, <1>4, <2>1, <2>2, <2>3, <2>4
         DEF Matched, Opening, Ready, Resting, Passed, Quiet, Header, TPOps
    <2>7. Asked(tp', c)
      BY <1>1, <1>4, <2>1, <2>2, <2>3, <2>4
         DEF Matched, Ready, Resting, Asked, Passed, Counts, Quiet, Header, Tied
    <2>8. Passed(tp', c)
      BY <1>1, <1>4, <2>1, <2>2, <2>3, <2>4 DEF Matched, Passed, Asked, Counts, Quiet
    <2>9. Loose(tp', c) /\ (tp'.op[c] = "OPEN" => ~tp'.open[c])
      BY <1>1, <1>4, <2>1, <2>2 DEF Matched, Loose
    <2> QED BY <2>5, <2>6, <2>7, <2>8, <2>9 DEF Matched
  <1> QED BY <1>1, <1>2, <1>5, <1>6, <1>7, <1>8, <1>9, <1>10, <1>11 DEF TPSound, About

LEMMA OpensKeeps ==
  ASSUME TPSound(tp), NEW c \in Clients, OpenEnds(c), AtClient(c, "passed")
  PROVE  TPSound(tp')
  <1>1. /\ tp \in TPortalType /\ Handles(tp) /\ Serving(tp) /\ Promoted(tp) /\ Unopened(tp)
        /\ \A d \in Clients : About(tp, d)
        /\ tp.pc[c] = "passed" /\ tp.op[c] = "OPEN"
    BY DEF TPSound, OpenEnds, AtClient
  <1>2. /\ tp' \in TPortalType /\ SameSems(tp', tp) /\ SameXchg(tp', tp) /\ SameTPSS(tp', tp)
        /\ tp'.cre = tp.cre /\ tp'.hd = tp.hd /\ tp'.sound = tp.sound /\ tp'.stage = tp.stage
        /\ tp'.cnt = tp.cnt /\ tp'.spc = tp.spc
        /\ tp'.pc = [tp.pc EXCEPT ![c] = "idle"]
        /\ tp'.op = [tp.op EXCEPT ![c] = "NOP"]
        /\ tp'.left = [tp.left EXCEPT ![c] = 0]
        /\ tp'.open = [tp.open EXCEPT ![c] = TRUE]
    BY <1>1, OpensIs
  <1>3. \A d \in Clients : d # c => SameClient(tp', tp, d)
    BY <1>1, <1>2, TPFields DEF SameClient, SameCommand, SameSems, SameXchg, SameTPSS, SameTPCS
  <1>4. /\ tp'.pc[c] = "idle" /\ tp'.op[c] = "NOP" /\ tp'.left[c] = 0 /\ tp'.open[c] = TRUE
        /\ tp'.csem[c] = tp.csem[c] /\ tp'.ssem[c] = tp.ssem[c] /\ tp'.sound[c] = tp.sound[c]
        /\ tp'.stage[c] = tp.stage[c]
        /\ tp'.hd[c].cmd = tp.hd[c].cmd /\ tp'.hd[c].sod = tp.hd[c].sod
        /\ tp'.hd[c].eod = tp.hd[c].eod /\ tp'.hd[c].rqsz = tp.hd[c].rqsz
        /\ tp'.hd[c].csem = tp.hd[c].csem /\ tp'.hd[c].ssem = tp.hd[c].ssem
    <2>0. /\ tp'.pc = [tp.pc EXCEPT ![c] = "idle"] /\ tp'.op = [tp.op EXCEPT ![c] = "NOP"]
          /\ tp'.left = [tp.left EXCEPT ![c] = 0] /\ tp'.open = [tp.open EXCEPT ![c] = TRUE]
          /\ tp'.csem = tp.csem /\ tp'.ssem = tp.ssem
          /\ tp'.sound = tp.sound /\ tp'.stage = tp.stage /\ tp'.stage = tp.stage
      BY <1>2 DEF SameSems, SameXchg, SameTPSS, SameTPCS
    <2>1. /\ tp.pc \in [Clients -> TPPcs] /\ tp.op \in [Clients -> TPOps]
          /\ tp.left \in [Clients -> 0..MaxBlocks] /\ tp.open \in [Clients -> BOOLEAN]
          /\ tp.csem \in [Clients -> SCBs \union {None}] /\ tp.ssem \in [Clients -> SCBs \union {None}]
          /\ tp.sound \in [Clients -> BOOLEAN] /\ tp.stage \in [Clients -> TPStages]
      BY <1>1, TPFields
    <2>2. /\ tp'.pc[c] = "idle" /\ tp'.op[c] = "NOP" /\ tp'.left[c] = 0 /\ tp'.open[c] = TRUE
          /\ tp'.csem[c] = tp.csem[c] /\ tp'.ssem[c] = tp.ssem[c] /\ tp'.sound[c] = tp.sound[c]
          /\ tp'.stage[c] = tp.stage[c]
      BY <2>0, <2>1
    <2>3. tp'.hd = tp.hd
      BY <1>2 DEF SameSems, SameXchg, SameTPSS, SameTPCS
    <2> QED BY <2>2, <2>3
  <1>5. Handles(tp')
    <2>1. \A d \in Clients : tp.csem[d] = None => tp'.pc[d] = "idle"
      BY <1>1, <1>3, <1>4 DEF Handles, SameClient
    <2> QED BY <1>1, <1>2, <2>1, HandlesKept
  <1>6. Serving(tp')
    BY <1>1, <1>2, ServingKept DEF SameXchg, SameTPSS, Busy
  <1>7. Promoted(tp')
    <2>1. \A d \in Clients : Held(tp', d) => Held(tp, d)
      BY <1>1, <1>3, <1>4 DEF Held, SameClient, About, Header
    <2> QED BY <1>1, <1>2, <2>1, PromotedKept DEF SameTPSS
  <1>8. Unopened(tp')
    BY <1>1, <1>2 DEF Unopened, SameTPSS
  <1>9. \A d \in Clients : d # c => About(tp', d)
    <2> SUFFICES ASSUME NEW d \in Clients, d # c
                 PROVE  About(tp', d)
      OBVIOUS
    <2>2. tp'.cnt = tp.cnt
      BY <1>2
    <2>3. /\ Contains(tp'.queue, d) => Contains(tp.queue, d)
          /\ tp'.sess = tp.sess /\ tp'.sopen = tp.sopen
          /\ tp'.scsem = tp.scsem /\ tp'.sssem = tp.sssem /\ tp'.sz = tp.sz
      BY <1>2 DEF SameXchg, SameTPSS
    <2>4. tp'.spc = tp.spc
      BY <1>2
    <2> QED BY <1>1, <1>3, <2>2, <2>3, <2>4, AboutKept
  <1>10. Header(tp', c)
    BY <1>1, <1>2, <1>4, TPFields, TPKinds DEF About, Header, SameXchg, SameTPSS, Handles
  <1>11. Current(tp', c) => Matched(tp', c)
    <2> SUFFICES ASSUME Current(tp', c)
                 PROVE  Matched(tp', c)
      OBVIOUS
    <2>1. Current(tp, c) /\ Matched(tp, c) /\ Header(tp, c) /\ tp.op[c] \in TPOps
      BY <1>1, <1>4, TPFields DEF Current, About
    <2>2. /\ tp'.queue = tp.queue /\ tp'.sess = tp.sess /\ tp'.sopen = tp.sopen
          /\ tp'.scsem = tp.scsem /\ tp'.sssem = tp.sssem /\ tp'.sz = tp.sz
      BY <1>2 DEF SameXchg, SameTPSS
    <2>3. Tied(tp', c) <=> Tied(tp, c)
      BY <1>4, <2>2 DEF Tied
    <2>4. /\ tp'.spc = tp.spc
          /\ tp'.cnt[tp.csem[c]] = tp.cnt[tp.csem[c]] /\ tp'.cnt[tp.ssem[c]] = tp.cnt[tp.ssem[c]]
      BY <1>2
    <2>5. Opening(tp', c)
      BY <1>1, <1>4, <2>1, <2>2, <2>3, <2>4 DEF Matched, Opening, Header
    <2>6. Ready(tp', c)
      BY <1>1, <1>4, <2>1, <2>2, <2>3, <2>4
         DEF Matched, Opening, Ready, Resting, Passed, Quiet, Header, TPOps
    <2>7. Asked(tp', c)
      BY <1>1, <1>4, <2>1, <2>2, <2>3, <2>4
         DEF Matched, Ready, Resting, Asked, Passed, Counts, Quiet, Header, Tied
    <2>8. Passed(tp', c)
      BY <1>1, <1>4, <2>1, <2>2, <2>3, <2>4 DEF Matched, Passed, Asked, Counts, Quiet
    <2>9. Loose(tp', c) /\ (tp'.op[c] = "OPEN" => ~tp'.open[c])
      BY <1>1, <1>4, <2>1, <2>2 DEF Matched, Loose
    <2> QED BY <2>5, <2>6, <2>7, <2>8, <2>9 DEF Matched
  <1> QED BY <1>1, <1>2, <1>5, <1>6, <1>7, <1>8, <1>9, <1>10, <1>11 DEF TPSound, About

LEMMA OpenFailsKeeps ==
  ASSUME TPSound(tp), NEW c \in Clients, OpenEnds(c), ~AtClient(c, "passed")
  PROVE  TPSound(tp')
  <1>1. /\ tp \in TPortalType /\ Handles(tp) /\ Serving(tp) /\ Promoted(tp) /\ Unopened(tp)
        /\ \A d \in Clients : About(tp, d)
        /\ tp.pc[c] = "failed" /\ tp.op[c] = "OPEN"
    BY DEF TPSound, OpenEnds, AtClient
  <1>2. /\ tp' \in TPortalType /\ SameSems(tp', tp) /\ SameXchg(tp', tp) /\ SameTPSS(tp', tp)
        /\ tp'.cre = tp.cre /\ tp'.open = tp.open /\ tp'.hd = tp.hd /\ tp'.sound = tp.sound
        /\ tp'.stage = tp.stage /\ tp'.cnt = tp.cnt /\ tp'.spc = tp.spc
        /\ tp'.pc = [tp.pc EXCEPT ![c] = "idle"]
        /\ tp'.op = [tp.op EXCEPT ![c] = "NOP"]
        /\ tp'.left = [tp.left EXCEPT ![c] = 0]
    BY <1>1, OpenFailsIs
  <1>3. \A d \in Clients : d # c => SameClient(tp', tp, d)
    BY <1>1, <1>2, TPFields DEF SameClient, SameCommand, SameSems, SameXchg, SameTPSS, SameTPCS
  <1>4. /\ tp'.pc[c] = "idle" /\ tp'.op[c] = "NOP" /\ tp'.left[c] = 0 /\ tp'.open[c] = tp.open[c]
        /\ tp'.csem[c] = tp.csem[c] /\ tp'.ssem[c] = tp.ssem[c] /\ tp'.sound[c] = tp.sound[c]
        /\ tp'.stage[c] = tp.stage[c]
        /\ tp'.hd[c].cmd = tp.hd[c].cmd /\ tp'.hd[c].sod = tp.hd[c].sod
        /\ tp'.hd[c].eod = tp.hd[c].eod /\ tp'.hd[c].rqsz = tp.hd[c].rqsz
        /\ tp'.hd[c].csem = tp.hd[c].csem /\ tp'.hd[c].ssem = tp.hd[c].ssem
    <2>0. /\ tp'.pc = [tp.pc EXCEPT ![c] = "idle"] /\ tp'.op = [tp.op EXCEPT ![c] = "NOP"]
          /\ tp'.left = [tp.left EXCEPT ![c] = 0]
          /\ tp'.open = tp.open /\ tp'.hd = tp.hd /\ tp'.sound = tp.sound /\ tp'.csem = tp.csem
          /\ tp'.ssem = tp.ssem /\ tp'.sound = tp.sound
          /\ tp'.stage = tp.stage /\ tp'.cnt = tp.cnt /\ tp'.spc = tp.spc
      BY <1>2 DEF SameSems, SameXchg, SameTPSS, SameTPCS
    <2>1. /\ tp.pc \in [Clients -> TPPcs] /\ tp.op \in [Clients -> TPOps]
          /\ tp.left \in [Clients -> 0..MaxBlocks] /\ tp.open \in [Clients -> BOOLEAN]
          /\ tp.csem \in [Clients -> SCBs \union {None}] /\ tp.ssem \in [Clients -> SCBs \union {None}]
          /\ tp.sound \in [Clients -> BOOLEAN] /\ tp.stage \in [Clients -> TPStages]
      BY <1>1, TPFields
    <2>2. /\ tp'.pc[c] = "idle" /\ tp'.op[c] = "NOP" /\ tp'.left[c] = 0 /\ tp'.open[c] = tp.open[c]
          /\ tp'.csem[c] = tp.csem[c] /\ tp'.ssem[c] = tp.ssem[c] /\ tp'.sound[c] = tp.sound[c]
          /\ tp'.stage[c] = tp.stage[c]
      BY <2>0, <2>1
    <2>3. tp'.hd = tp.hd
      BY <1>2 DEF SameSems, SameXchg, SameTPSS, SameTPCS
    <2> QED BY <2>2, <2>3
  <1>5. Handles(tp')
    <2>1. \A d \in Clients : tp.csem[d] = None => tp'.pc[d] = "idle"
      BY <1>1, <1>3, <1>4 DEF Handles, SameClient
    <2> QED BY <1>1, <1>2, <2>1, HandlesKept
  <1>6. Serving(tp')
    BY <1>1, <1>2, ServingKept DEF SameXchg, SameTPSS, Busy
  <1>7. Promoted(tp')
    <2>1. \A d \in Clients : Held(tp', d) => Held(tp, d)
      BY <1>1, <1>3, <1>4 DEF Held, SameClient, About, Header
    <2> QED BY <1>1, <1>2, <2>1, PromotedKept DEF SameTPSS
  <1>8. Unopened(tp')
    BY <1>1, <1>2 DEF Unopened, SameTPSS
  <1>9. \A d \in Clients : d # c => About(tp', d)
    <2> SUFFICES ASSUME NEW d \in Clients, d # c
                 PROVE  About(tp', d)
      OBVIOUS
    <2>2. tp'.cnt = tp.cnt
      BY <1>2
    <2>3. /\ Contains(tp'.queue, d) => Contains(tp.queue, d)
          /\ tp'.sess = tp.sess /\ tp'.sopen = tp.sopen
          /\ tp'.scsem = tp.scsem /\ tp'.sssem = tp.sssem /\ tp'.sz = tp.sz
      BY <1>2 DEF SameXchg, SameTPSS
    <2>4. tp'.spc = tp.spc
      BY <1>2
    <2> QED BY <1>1, <1>3, <2>2, <2>3, <2>4, AboutKept
  <1>10. Header(tp', c)
    BY <1>1, <1>2, <1>4, TPFields, TPKinds DEF About, Header, SameXchg, SameTPSS, Handles
  <1>11. Current(tp', c) => Matched(tp', c)
    <2> SUFFICES ASSUME Current(tp', c)
                 PROVE  Matched(tp', c)
      OBVIOUS
    <2>1. Current(tp, c) /\ Matched(tp, c) /\ Header(tp, c) /\ tp.op[c] \in TPOps
      BY <1>1, <1>4, TPFields DEF Current, About
    <2>2. /\ tp'.queue = tp.queue /\ tp'.sess = tp.sess /\ tp'.sopen = tp.sopen
          /\ tp'.scsem = tp.scsem /\ tp'.sssem = tp.sssem /\ tp'.sz = tp.sz
      BY <1>2 DEF SameXchg, SameTPSS
    <2>3. Tied(tp', c) <=> Tied(tp, c)
      BY <1>4, <2>2 DEF Tied
    <2>4. /\ tp'.spc = tp.spc
          /\ tp'.cnt[tp.csem[c]] = tp.cnt[tp.csem[c]] /\ tp'.cnt[tp.ssem[c]] = tp.cnt[tp.ssem[c]]
      BY <1>2
    <2>5. Opening(tp', c)
      BY <1>1, <1>4, <2>1, <2>2, <2>3, <2>4 DEF Matched, Opening, Header
    <2>6. Ready(tp', c)
      BY <1>1, <1>4, <2>1, <2>2, <2>3, <2>4
         DEF Matched, Opening, Ready, Resting, Passed, Quiet, Header, TPOps
    <2>7. Asked(tp', c)
      BY <1>1, <1>4, <2>1, <2>2, <2>3, <2>4
         DEF Matched, Ready, Resting, Asked, Passed, Counts, Quiet, Header, Tied
    <2>8. Passed(tp', c)
      BY <1>1, <1>4, <2>1, <2>2, <2>3, <2>4 DEF Matched, Passed, Asked, Counts, Quiet
    <2>9. Loose(tp', c) /\ (tp'.op[c] = "OPEN" => ~tp'.open[c])
      BY <1>1, <1>4, <2>1, <2>2 DEF Matched, Loose
    <2> QED BY <2>5, <2>6, <2>7, <2>8, <2>9 DEF Matched
  <1> QED BY <1>1, <1>2, <1>5, <1>6, <1>7, <1>8, <1>9, <1>10, <1>11 DEF TPSound, About

LEMMA ShellKeeps ==
  ASSUME TPSound(tp), NEW c \in Clients, NEW o \in {"SEND", "RECEIVE"}, NEW n \in 1..MaxBlocks,
         Shell(c, o, n)
  PROVE  TPSound(tp')
  <1>1. /\ tp \in TPortalType /\ Handles(tp) /\ Serving(tp) /\ Promoted(tp) /\ Unopened(tp)
        /\ \A d \in Clients : About(tp, d)
        /\ tp.pc[c] = "idle" /\ tp.csem[c] # None
    BY DEF TPSound, Shell, AtClient
  <1>2. /\ tp' \in TPortalType /\ SameSems(tp', tp) /\ SameXchg(tp', tp) /\ SameTPSS(tp', tp)
        /\ tp'.cre = tp.cre /\ tp'.open = tp.open /\ tp'.sound = tp.sound /\ tp'.stage = tp.stage
        /\ tp'.cnt = tp.cnt /\ tp'.spc = tp.spc
        /\ tp'.pc = [tp.pc EXCEPT ![c] = "shell"]
        /\ tp'.op = [tp.op EXCEPT ![c] = o]
        /\ tp'.left = [tp.left EXCEPT ![c] = n]
        /\ tp'.hd = [tp.hd EXCEPT ![c] = [tp.hd[c] EXCEPT !.ssem = None]]
    BY <1>1, ShellIs
  <1>3. \A d \in Clients : d # c => SameClient(tp', tp, d)
    BY <1>1, <1>2, TPFields DEF SameClient, SameCommand, SameSems, SameXchg, SameTPSS, SameTPCS
  <1>4. /\ tp'.pc[c] = "shell" /\ tp'.op[c] = o /\ tp'.left[c] = n /\ tp'.open[c] = tp.open[c]
        /\ tp'.csem[c] = tp.csem[c] /\ tp'.ssem[c] = tp.ssem[c] /\ tp'.sound[c] = tp.sound[c]
        /\ tp'.stage[c] = tp.stage[c]
        /\ tp'.hd[c].cmd = tp.hd[c].cmd /\ tp'.hd[c].sod = tp.hd[c].sod
        /\ tp'.hd[c].eod = tp.hd[c].eod /\ tp'.hd[c].rqsz = tp.hd[c].rqsz
        /\ tp'.hd[c].csem = tp.hd[c].csem /\ tp'.hd[c].ssem = None
    <2>0. /\ tp'.pc = [tp.pc EXCEPT ![c] = "shell"] /\ tp'.op = [tp.op EXCEPT ![c] = o]
          /\ tp'.left = [tp.left EXCEPT ![c] = n]
          /\ tp'.open = tp.open /\ tp'.sound = tp.sound /\ tp'.stage = tp.stage
          /\ tp'.csem = tp.csem /\ tp'.ssem = tp.ssem
          /\ tp'.sound = tp.sound /\ tp'.stage = tp.stage /\ tp'.stage = tp.stage
      BY <1>2 DEF SameSems, SameXchg, SameTPSS, SameTPCS
    <2>1. /\ tp.pc \in [Clients -> TPPcs] /\ tp.op \in [Clients -> TPOps]
          /\ tp.left \in [Clients -> 0..MaxBlocks] /\ tp.open \in [Clients -> BOOLEAN]
          /\ tp.csem \in [Clients -> SCBs \union {None}] /\ tp.ssem \in [Clients -> SCBs \union {None}]
          /\ tp.sound \in [Clients -> BOOLEAN] /\ tp.stage \in [Clients -> TPStages]
      BY <1>1, TPFields
    <2>2. /\ tp'.pc[c] = "shell" /\ tp'.op[c] = o /\ tp'.left[c] = n /\ tp'.open[c] = tp.open[c]
          /\ tp'.csem[c] = tp.csem[c] /\ tp'.ssem[c] = tp.ssem[c] /\ tp'.sound[c] = tp.sound[c]
          /\ tp'.stage[c] = tp.stage[c]
      BY <2>0, <2>1
    <2>3. tp.hd[c] \in TPHeader /\ tp.hd \in [Clients -> TPHeader]
      BY <1>1, TPFields
    <2>4. /\ tp'.hd[c].cmd = tp.hd[c].cmd /\ tp'.hd[c].sod = tp.hd[c].sod
          /\ tp'.hd[c].eod = tp.hd[c].eod /\ tp'.hd[c].rqsz = tp.hd[c].rqsz
          /\ tp'.hd[c].csem = tp.hd[c].csem /\ tp'.hd[c].ssem = None
      BY <1>2, <2>3 DEF TPHeader
    <2> QED BY <2>2, <2>4
  <1>5. Handles(tp')
    <2>1. \A d \in Clients : tp.csem[d] = None => tp'.pc[d] = "idle"
      BY <1>1, <1>3, <1>4 DEF Handles, SameClient
    <2> QED BY <1>1, <1>2, <2>1, HandlesKept
  <1>6. Serving(tp')
    BY <1>1, <1>2, ServingKept DEF SameXchg, SameTPSS, Busy
  <1>7. Promoted(tp')
    <2>1. \A d \in Clients : Held(tp', d) => Held(tp, d)
      BY <1>1, <1>3, <1>4 DEF Held, SameClient, About, Header
    <2> QED BY <1>1, <1>2, <2>1, PromotedKept DEF SameTPSS
  <1>8. Unopened(tp')
    BY <1>1, <1>2 DEF Unopened, SameTPSS
  <1>9. \A d \in Clients : d # c => About(tp', d)
    <2> SUFFICES ASSUME NEW d \in Clients, d # c
                 PROVE  About(tp', d)
      OBVIOUS
    <2>2. tp'.cnt = tp.cnt
      BY <1>2
    <2>3. /\ Contains(tp'.queue, d) => Contains(tp.queue, d)
          /\ tp'.sess = tp.sess /\ tp'.sopen = tp.sopen
          /\ tp'.scsem = tp.scsem /\ tp'.sssem = tp.sssem /\ tp'.sz = tp.sz
      BY <1>2 DEF SameXchg, SameTPSS
    <2>4. tp'.spc = tp.spc
      BY <1>2
    <2> QED BY <1>1, <1>3, <2>2, <2>3, <2>4, AboutKept
  <1>10. Header(tp', c)
    BY <1>1, <1>2, <1>4, TPFields, TPKinds DEF About, Header, SameXchg, SameTPSS, Handles
  <1>11. Current(tp', c) => Matched(tp', c)
    <2> SUFFICES ASSUME Current(tp', c)
                 PROVE  Matched(tp', c)
      OBVIOUS
    <2>1. Current(tp, c) /\ Matched(tp, c) /\ Header(tp, c) /\ tp.op[c] \in TPOps
      BY <1>1, <1>4, TPFields DEF Current, About
    <2>2. /\ tp'.queue = tp.queue /\ tp'.sess = tp.sess /\ tp'.sopen = tp.sopen
          /\ tp'.scsem = tp.scsem /\ tp'.sssem = tp.sssem /\ tp'.sz = tp.sz
      BY <1>2 DEF SameXchg, SameTPSS
    <2>3. Tied(tp', c) <=> Tied(tp, c)
      BY <1>4, <2>2 DEF Tied
    <2>4. /\ tp'.spc = tp.spc
          /\ tp'.cnt[tp.csem[c]] = tp.cnt[tp.csem[c]] /\ tp'.cnt[tp.ssem[c]] = tp.cnt[tp.ssem[c]]
      BY <1>2
    <2>5. Opening(tp', c)
      BY <1>1, <1>4, <2>1, <2>2, <2>3, <2>4 DEF Matched, Opening, Header
    <2>6. Ready(tp', c)
      BY <1>1, <1>4, <2>1, <2>2, <2>3, <2>4
         DEF Matched, Opening, Ready, Resting, Passed, Quiet, Header, TPOps
    <2>7. Asked(tp', c)
      BY <1>1, <1>4, <2>1, <2>2, <2>3, <2>4
         DEF Matched, Ready, Resting, Asked, Passed, Counts, Quiet, Header, Tied
    <2>8. Passed(tp', c)
      BY <1>1, <1>4, <2>1, <2>2, <2>3, <2>4 DEF Matched, Passed, Asked, Counts, Quiet
    <2>9. Loose(tp', c) /\ (tp'.op[c] = "OPEN" => ~tp'.open[c])
      BY <1>1, <1>4, <2>1, <2>2 DEF Matched, Loose
    <2> QED BY <2>5, <2>6, <2>7, <2>8, <2>9 DEF Matched
  <1> QED BY <1>1, <1>2, <1>5, <1>6, <1>7, <1>8, <1>9, <1>10, <1>11 DEF TPSound, About

LEMMA CommandKeeps ==
  ASSUME TPSound(tp), NEW c \in Clients, Command(c), tp.open[c]
  PROVE  TPSound(tp')
  <1>1. /\ tp \in TPortalType /\ Handles(tp) /\ Serving(tp) /\ Promoted(tp) /\ Unopened(tp)
        /\ \A d \in Clients : About(tp, d)
        /\ tp.pc[c] = "shell" /\ tp.open[c]
    BY DEF TPSound, Command, AtClient
  <1>2. /\ tp' \in TPortalType /\ SameSems(tp', tp) /\ SameXchg(tp', tp) /\ SameTPSS(tp', tp)
        /\ tp'.op = tp.op /\ tp'.cre = tp.cre /\ tp'.left = tp.left /\ tp'.open = tp.open
        /\ tp'.sound = tp.sound /\ tp'.stage = tp.stage /\ tp'.cnt = tp.cnt /\ tp'.spc = tp.spc
        /\ tp'.pc = [tp.pc EXCEPT ![c] = "ask"]
        /\ tp'.hd = [tp.hd EXCEPT ![c] = [tp.hd[c] EXCEPT !.csem = None, !.cmd = tp.op[c]]]
    BY <1>1, CommandIs
  <1>3. \A d \in Clients : d # c => SameClient(tp', tp, d)
    BY <1>1, <1>2, TPFields DEF SameClient, SameCommand, SameSems, SameXchg, SameTPSS, SameTPCS
  <1>4. /\ tp'.pc[c] = "ask" /\ tp'.op[c] = tp.op[c] /\ tp'.left[c] = tp.left[c]
        /\ tp'.open[c] = tp.open[c] /\ tp'.csem[c] = tp.csem[c] /\ tp'.ssem[c] = tp.ssem[c]
        /\ tp'.sound[c] = tp.sound[c] /\ tp'.stage[c] = tp.stage[c]
        /\ tp'.hd[c].cmd = tp.op[c] /\ tp'.hd[c].sod = tp.hd[c].sod /\ tp'.hd[c].eod = tp.hd[c].eod
        /\ tp'.hd[c].rqsz = tp.hd[c].rqsz /\ tp'.hd[c].csem = None /\ tp'.hd[c].ssem = tp.hd[c].ssem
    <2>0. /\ tp'.pc = [tp.pc EXCEPT ![c] = "ask"]
          /\ tp'.op = tp.op /\ tp'.cre = tp.cre /\ tp'.left = tp.left /\ tp'.open = tp.open
          /\ tp'.left = tp.left /\ tp'.open = tp.open /\ tp'.open = tp.open /\ tp'.csem = tp.csem
          /\ tp'.ssem = tp.ssem
          /\ tp'.sound = tp.sound /\ tp'.stage = tp.stage /\ tp'.cnt = tp.cnt /\ tp'.spc = tp.spc
          /\ tp'.stage = tp.stage /\ tp'.cnt = tp.cnt /\ tp'.spc = tp.spc
      BY <1>2 DEF SameSems, SameXchg, SameTPSS, SameTPCS
    <2>1. /\ tp.pc \in [Clients -> TPPcs] /\ tp.op \in [Clients -> TPOps]
          /\ tp.left \in [Clients -> 0..MaxBlocks] /\ tp.open \in [Clients -> BOOLEAN]
          /\ tp.csem \in [Clients -> SCBs \union {None}] /\ tp.ssem \in [Clients -> SCBs \union {None}]
          /\ tp.sound \in [Clients -> BOOLEAN] /\ tp.stage \in [Clients -> TPStages]
      BY <1>1, TPFields
    <2>2. /\ tp'.pc[c] = "ask" /\ tp'.op[c] = tp.op[c] /\ tp'.left[c] = tp.left[c]
          /\ tp'.open[c] = tp.open[c] /\ tp'.csem[c] = tp.csem[c] /\ tp'.ssem[c] = tp.ssem[c]
          /\ tp'.sound[c] = tp.sound[c] /\ tp'.stage[c] = tp.stage[c]
      BY <2>0, <2>1
    <2>3. tp.hd[c] \in TPHeader /\ tp.hd \in [Clients -> TPHeader]
      BY <1>1, TPFields
    <2>4. /\ tp'.hd[c].cmd = tp.op[c] /\ tp'.hd[c].sod = tp.hd[c].sod
          /\ tp'.hd[c].eod = tp.hd[c].eod /\ tp'.hd[c].rqsz = tp.hd[c].rqsz /\ tp'.hd[c].csem = None
          /\ tp'.hd[c].ssem = tp.hd[c].ssem
      BY <1>2, <2>3 DEF TPHeader
    <2> QED BY <2>2, <2>4
  <1>5. Handles(tp')
    <2>1. \A d \in Clients : tp.csem[d] = None => tp'.pc[d] = "idle"
      BY <1>1, <1>3, <1>4 DEF Handles, SameClient
    <2> QED BY <1>1, <1>2, <2>1, HandlesKept
  <1>6. Serving(tp')
    BY <1>1, <1>2, ServingKept DEF SameXchg, SameTPSS, Busy
  <1>7. Promoted(tp')
    <2>1. \A d \in Clients : Held(tp', d) => Held(tp, d)
      BY <1>1, <1>3, <1>4 DEF Held, SameClient, About, Header
    <2> QED BY <1>1, <1>2, <2>1, PromotedKept DEF SameTPSS
  <1>8. Unopened(tp')
    BY <1>1, <1>2 DEF Unopened, SameTPSS
  <1>9. \A d \in Clients : d # c => About(tp', d)
    <2> SUFFICES ASSUME NEW d \in Clients, d # c
                 PROVE  About(tp', d)
      OBVIOUS
    <2>2. tp'.cnt = tp.cnt
      BY <1>2
    <2>3. /\ Contains(tp'.queue, d) => Contains(tp.queue, d)
          /\ tp'.sess = tp.sess /\ tp'.sopen = tp.sopen
          /\ tp'.scsem = tp.scsem /\ tp'.sssem = tp.sssem /\ tp'.sz = tp.sz
      BY <1>2 DEF SameXchg, SameTPSS
    <2>4. tp'.spc = tp.spc
      BY <1>2
    <2> QED BY <1>1, <1>3, <2>2, <2>3, <2>4, AboutKept
  <1>10. Header(tp', c)
    BY <1>1, <1>2, <1>4, TPFields, TPKinds DEF About, Header, SameXchg, SameTPSS, Handles
  <1>11. Current(tp', c) => Matched(tp', c)
    <2> SUFFICES ASSUME Current(tp', c)
                 PROVE  Matched(tp', c)
      OBVIOUS
    <2>1. Current(tp, c) /\ Matched(tp, c) /\ Header(tp, c) /\ tp.op[c] \in TPOps
      BY <1>1, <1>4, TPFields DEF Current, About
    <2>2. /\ tp'.queue = tp.queue /\ tp'.sess = tp.sess /\ tp'.sopen = tp.sopen
          /\ tp'.scsem = tp.scsem /\ tp'.sssem = tp.sssem /\ tp'.sz = tp.sz
      BY <1>2 DEF SameXchg, SameTPSS
    <2>3. Tied(tp', c) <=> Tied(tp, c)
      BY <1>4, <2>2 DEF Tied
    <2>4. /\ tp'.spc = tp.spc
          /\ tp'.cnt[tp.csem[c]] = tp.cnt[tp.csem[c]] /\ tp'.cnt[tp.ssem[c]] = tp.cnt[tp.ssem[c]]
      BY <1>2
    <2>5. Opening(tp', c)
      BY <1>1, <1>4, <2>1, <2>2, <2>3, <2>4 DEF Matched, Opening, Header
    <2>6. Ready(tp', c)
      BY <1>1, <1>4, <2>1, <2>2, <2>3, <2>4
         DEF Matched, Opening, Ready, Resting, Passed, Quiet, Header, TPOps
    <2>7. Asked(tp', c)
      BY <1>1, <1>4, <2>1, <2>2, <2>3, <2>4
         DEF Matched, Ready, Resting, Asked, Passed, Counts, Quiet, Header, Tied
    <2>8. Passed(tp', c)
      BY <1>1, <1>4, <2>1, <2>2, <2>3, <2>4 DEF Matched, Passed, Asked, Counts, Quiet
    <2>9. Loose(tp', c) /\ (tp'.op[c] = "OPEN" => ~tp'.open[c])
      BY <1>1, <1>4, <2>1, <2>2 DEF Matched, Loose
    <2> QED BY <2>5, <2>6, <2>7, <2>8, <2>9 DEF Matched
  <1> QED BY <1>1, <1>2, <1>5, <1>6, <1>7, <1>8, <1>9, <1>10, <1>11 DEF TPSound, About

LEMMA CommandFailsKeeps ==
  ASSUME TPSound(tp), NEW c \in Clients, Command(c), ~tp.open[c]
  PROVE  TPSound(tp')
  <1>1. /\ tp \in TPortalType /\ Handles(tp) /\ Serving(tp) /\ Promoted(tp) /\ Unopened(tp)
        /\ \A d \in Clients : About(tp, d)
        /\ tp.pc[c] = "shell" /\ ~tp.open[c]
    BY DEF TPSound, Command, AtClient
  <1>2. /\ tp' \in TPortalType /\ SameSems(tp', tp) /\ SameXchg(tp', tp) /\ SameTPSS(tp', tp)
        /\ tp'.cre = tp.cre /\ tp'.open = tp.open /\ tp'.sound = tp.sound /\ tp'.stage = tp.stage
        /\ tp'.cnt = tp.cnt /\ tp'.spc = tp.spc
        /\ tp'.pc = [tp.pc EXCEPT ![c] = "idle"]
        /\ tp'.op = [tp.op EXCEPT ![c] = "NOP"]
        /\ tp'.left = [tp.left EXCEPT ![c] = 0]
        /\ tp'.hd = [tp.hd EXCEPT ![c] = [tp.hd[c] EXCEPT !.csem = None, !.cmd = tp.op[c], !.inc = FALSE]]
    BY <1>1, CommandFailsIs
  <1>3. \A d \in Clients : d # c => SameClient(tp', tp, d)
    BY <1>1, <1>2, TPFields DEF SameClient, SameCommand, SameSems, SameXchg, SameTPSS, SameTPCS
  <1>4. /\ tp'.pc[c] = "idle" /\ tp'.op[c] = "NOP" /\ tp'.left[c] = 0 /\ tp'.open[c] = tp.open[c]
        /\ tp'.csem[c] = tp.csem[c] /\ tp'.ssem[c] = tp.ssem[c] /\ tp'.sound[c] = tp.sound[c]
        /\ tp'.stage[c] = tp.stage[c]
        /\ tp'.hd[c].cmd = tp.op[c] /\ tp'.hd[c].sod = tp.hd[c].sod /\ tp'.hd[c].eod = tp.hd[c].eod
        /\ tp'.hd[c].rqsz = tp.hd[c].rqsz /\ tp'.hd[c].csem = None /\ tp'.hd[c].ssem = tp.hd[c].ssem
    <2>0. /\ tp'.pc = [tp.pc EXCEPT ![c] = "idle"] /\ tp'.op = [tp.op EXCEPT ![c] = "NOP"]
          /\ tp'.left = [tp.left EXCEPT ![c] = 0]
          /\ tp'.open = tp.open /\ tp'.sound = tp.sound /\ tp'.stage = tp.stage
          /\ tp'.csem = tp.csem /\ tp'.ssem = tp.ssem
          /\ tp'.sound = tp.sound /\ tp'.stage = tp.stage /\ tp'.stage = tp.stage
      BY <1>2 DEF SameSems, SameXchg, SameTPSS, SameTPCS
    <2>1. /\ tp.pc \in [Clients -> TPPcs] /\ tp.op \in [Clients -> TPOps]
          /\ tp.left \in [Clients -> 0..MaxBlocks] /\ tp.open \in [Clients -> BOOLEAN]
          /\ tp.csem \in [Clients -> SCBs \union {None}] /\ tp.ssem \in [Clients -> SCBs \union {None}]
          /\ tp.sound \in [Clients -> BOOLEAN] /\ tp.stage \in [Clients -> TPStages]
      BY <1>1, TPFields
    <2>2. /\ tp'.pc[c] = "idle" /\ tp'.op[c] = "NOP" /\ tp'.left[c] = 0 /\ tp'.open[c] = tp.open[c]
          /\ tp'.csem[c] = tp.csem[c] /\ tp'.ssem[c] = tp.ssem[c] /\ tp'.sound[c] = tp.sound[c]
          /\ tp'.stage[c] = tp.stage[c]
      BY <2>0, <2>1
    <2>3. tp.hd[c] \in TPHeader /\ tp.hd \in [Clients -> TPHeader]
      BY <1>1, TPFields
    <2>4. /\ tp'.hd[c].cmd = tp.op[c] /\ tp'.hd[c].sod = tp.hd[c].sod
          /\ tp'.hd[c].eod = tp.hd[c].eod /\ tp'.hd[c].rqsz = tp.hd[c].rqsz /\ tp'.hd[c].csem = None
          /\ tp'.hd[c].ssem = tp.hd[c].ssem
      BY <1>2, <2>3 DEF TPHeader
    <2> QED BY <2>2, <2>4
  <1>5. Handles(tp')
    <2>1. \A d \in Clients : tp.csem[d] = None => tp'.pc[d] = "idle"
      BY <1>1, <1>3, <1>4 DEF Handles, SameClient
    <2> QED BY <1>1, <1>2, <2>1, HandlesKept
  <1>6. Serving(tp')
    BY <1>1, <1>2, ServingKept DEF SameXchg, SameTPSS, Busy
  <1>7. Promoted(tp')
    <2>1. \A d \in Clients : Held(tp', d) => Held(tp, d)
      BY <1>1, <1>3, <1>4 DEF Held, SameClient, About, Header
    <2> QED BY <1>1, <1>2, <2>1, PromotedKept DEF SameTPSS
  <1>8. Unopened(tp')
    BY <1>1, <1>2 DEF Unopened, SameTPSS
  <1>9. \A d \in Clients : d # c => About(tp', d)
    <2> SUFFICES ASSUME NEW d \in Clients, d # c
                 PROVE  About(tp', d)
      OBVIOUS
    <2>2. tp'.cnt = tp.cnt
      BY <1>2
    <2>3. /\ Contains(tp'.queue, d) => Contains(tp.queue, d)
          /\ tp'.sess = tp.sess /\ tp'.sopen = tp.sopen
          /\ tp'.scsem = tp.scsem /\ tp'.sssem = tp.sssem /\ tp'.sz = tp.sz
      BY <1>2 DEF SameXchg, SameTPSS
    <2>4. tp'.spc = tp.spc
      BY <1>2
    <2> QED BY <1>1, <1>3, <2>2, <2>3, <2>4, AboutKept
  <1>10. Header(tp', c)
    BY <1>1, <1>2, <1>4, TPFields, TPKinds DEF About, Header, SameXchg, SameTPSS, Handles
  <1>11. Current(tp', c) => Matched(tp', c)
    <2> SUFFICES ASSUME Current(tp', c)
                 PROVE  Matched(tp', c)
      OBVIOUS
    <2>1. Current(tp, c) /\ Matched(tp, c) /\ Header(tp, c) /\ tp.op[c] \in TPOps
      BY <1>1, <1>4, TPFields DEF Current, About
    <2>2. /\ tp'.queue = tp.queue /\ tp'.sess = tp.sess /\ tp'.sopen = tp.sopen
          /\ tp'.scsem = tp.scsem /\ tp'.sssem = tp.sssem /\ tp'.sz = tp.sz
      BY <1>2 DEF SameXchg, SameTPSS
    <2>3. Tied(tp', c) <=> Tied(tp, c)
      BY <1>4, <2>2 DEF Tied
    <2>4. /\ tp'.spc = tp.spc
          /\ tp'.cnt[tp.csem[c]] = tp.cnt[tp.csem[c]] /\ tp'.cnt[tp.ssem[c]] = tp.cnt[tp.ssem[c]]
      BY <1>2
    <2>5. Opening(tp', c)
      BY <1>1, <1>4, <2>1, <2>2, <2>3, <2>4 DEF Matched, Opening, Header
    <2>6. Ready(tp', c)
      BY <1>1, <1>4, <2>1, <2>2, <2>3, <2>4
         DEF Matched, Opening, Ready, Resting, Passed, Quiet, Header, TPOps
    <2>7. Asked(tp', c)
      BY <1>1, <1>4, <2>1, <2>2, <2>3, <2>4
         DEF Matched, Ready, Resting, Asked, Passed, Counts, Quiet, Header, Tied
    <2>8. Passed(tp', c)
      BY <1>1, <1>4, <2>1, <2>2, <2>3, <2>4 DEF Matched, Passed, Asked, Counts, Quiet
    <2>9. Loose(tp', c) /\ (tp'.op[c] = "OPEN" => ~tp'.open[c])
      BY <1>1, <1>4, <2>1, <2>2 DEF Matched, Loose
    <2> QED BY <2>5, <2>6, <2>7, <2>8, <2>9 DEF Matched
  <1> QED BY <1>1, <1>2, <1>5, <1>6, <1>7, <1>8, <1>9, <1>10, <1>11 DEF TPSound, About

LEMMA RequestTimesOutKeeps ==
  ASSUME TPSound(tp), NEW c \in Clients, RequestTimesOut(c)
  PROVE  TPSound(tp')
  <1>1. /\ tp \in TPortalType /\ Handles(tp) /\ Serving(tp) /\ Promoted(tp) /\ Unopened(tp)
        /\ \A d \in Clients : About(tp, d)
        /\ tp.pc[c] = "failed"
    BY DEF TPSound, RequestTimesOut, AtClient
  <1>2. /\ tp' \in TPortalType /\ SameSems(tp', tp) /\ SameXchg(tp', tp) /\ SameTPSS(tp', tp)
        /\ tp'.cre = tp.cre /\ tp'.sound = tp.sound /\ tp'.stage = tp.stage /\ tp'.cnt = tp.cnt
        /\ tp'.spc = tp.spc
        /\ tp'.pc = [tp.pc EXCEPT ![c] = "idle"]
        /\ tp'.op = [tp.op EXCEPT ![c] = "NOP"]
        /\ tp'.left = [tp.left EXCEPT ![c] = 0]
        /\ tp'.open = [tp.open EXCEPT ![c] = FALSE]
        /\ tp'.hd = [tp.hd EXCEPT ![c] = [tp.hd[c] EXCEPT !.inc = FALSE]]
    BY <1>1, RequestTimesOutIs
  <1>3. \A d \in Clients : d # c => SameClient(tp', tp, d)
    BY <1>1, <1>2, TPFields DEF SameClient, SameCommand, SameSems, SameXchg, SameTPSS, SameTPCS
  <1>4. /\ tp'.pc[c] = "idle" /\ tp'.op[c] = "NOP" /\ tp'.left[c] = 0 /\ tp'.open[c] = FALSE
        /\ tp'.csem[c] = tp.csem[c] /\ tp'.ssem[c] = tp.ssem[c] /\ tp'.sound[c] = tp.sound[c]
        /\ tp'.stage[c] = tp.stage[c]
        /\ tp'.hd[c].cmd = tp.hd[c].cmd /\ tp'.hd[c].sod = tp.hd[c].sod
        /\ tp'.hd[c].eod = tp.hd[c].eod /\ tp'.hd[c].rqsz = tp.hd[c].rqsz
        /\ tp'.hd[c].csem = tp.hd[c].csem /\ tp'.hd[c].ssem = tp.hd[c].ssem
    <2>0. /\ tp'.pc = [tp.pc EXCEPT ![c] = "idle"] /\ tp'.op = [tp.op EXCEPT ![c] = "NOP"]
          /\ tp'.left = [tp.left EXCEPT ![c] = 0] /\ tp'.open = [tp.open EXCEPT ![c] = FALSE]
          /\ tp'.csem = tp.csem /\ tp'.ssem = tp.ssem
          /\ tp'.sound = tp.sound /\ tp'.stage = tp.stage /\ tp'.cnt = tp.cnt
          /\ tp'.stage = tp.stage /\ tp'.cnt = tp.cnt
      BY <1>2 DEF SameSems, SameXchg, SameTPSS, SameTPCS
    <2>1. /\ tp.pc \in [Clients -> TPPcs] /\ tp.op \in [Clients -> TPOps]
          /\ tp.left \in [Clients -> 0..MaxBlocks] /\ tp.open \in [Clients -> BOOLEAN]
          /\ tp.csem \in [Clients -> SCBs \union {None}] /\ tp.ssem \in [Clients -> SCBs \union {None}]
          /\ tp.sound \in [Clients -> BOOLEAN] /\ tp.stage \in [Clients -> TPStages]
      BY <1>1, TPFields
    <2>2. /\ tp'.pc[c] = "idle" /\ tp'.op[c] = "NOP" /\ tp'.left[c] = 0 /\ tp'.open[c] = FALSE
          /\ tp'.csem[c] = tp.csem[c] /\ tp'.ssem[c] = tp.ssem[c] /\ tp'.sound[c] = tp.sound[c]
          /\ tp'.stage[c] = tp.stage[c]
      BY <2>0, <2>1
    <2>3. tp.hd[c] \in TPHeader /\ tp.hd \in [Clients -> TPHeader]
      BY <1>1, TPFields
    <2>4. /\ tp'.hd[c].cmd = tp.hd[c].cmd /\ tp'.hd[c].sod = tp.hd[c].sod
          /\ tp'.hd[c].eod = tp.hd[c].eod /\ tp'.hd[c].rqsz = tp.hd[c].rqsz
          /\ tp'.hd[c].csem = tp.hd[c].csem /\ tp'.hd[c].ssem = tp.hd[c].ssem
      BY <1>2, <2>3 DEF TPHeader
    <2> QED BY <2>2, <2>4
  <1>5. Handles(tp')
    <2>1. \A d \in Clients : tp.csem[d] = None => tp'.pc[d] = "idle"
      BY <1>1, <1>3, <1>4 DEF Handles, SameClient
    <2> QED BY <1>1, <1>2, <2>1, HandlesKept
  <1>6. Serving(tp')
    BY <1>1, <1>2, ServingKept DEF SameXchg, SameTPSS, Busy
  <1>7. Promoted(tp')
    <2>1. \A d \in Clients : Held(tp', d) => Held(tp, d)
      BY <1>1, <1>3, <1>4 DEF Held, SameClient, About, Header
    <2> QED BY <1>1, <1>2, <2>1, PromotedKept DEF SameTPSS
  <1>8. Unopened(tp')
    BY <1>1, <1>2 DEF Unopened, SameTPSS
  <1>9. \A d \in Clients : d # c => About(tp', d)
    <2> SUFFICES ASSUME NEW d \in Clients, d # c
                 PROVE  About(tp', d)
      OBVIOUS
    <2>2. tp'.cnt = tp.cnt
      BY <1>2
    <2>3. /\ Contains(tp'.queue, d) => Contains(tp.queue, d)
          /\ tp'.sess = tp.sess /\ tp'.sopen = tp.sopen
          /\ tp'.scsem = tp.scsem /\ tp'.sssem = tp.sssem /\ tp'.sz = tp.sz
      BY <1>2 DEF SameXchg, SameTPSS
    <2>4. tp'.spc = tp.spc
      BY <1>2
    <2> QED BY <1>1, <1>3, <2>2, <2>3, <2>4, AboutKept
  <1>10. Header(tp', c)
    BY <1>1, <1>2, <1>4, TPFields, TPKinds DEF About, Header, SameXchg, SameTPSS, Handles
  <1>11. Current(tp', c) => Matched(tp', c)
    <2> SUFFICES ASSUME Current(tp', c)
                 PROVE  Matched(tp', c)
      OBVIOUS
    <2>1. Current(tp, c) /\ Matched(tp, c) /\ Header(tp, c) /\ tp.op[c] \in TPOps
      BY <1>1, <1>4, TPFields DEF Current, About
    <2>2. /\ tp'.queue = tp.queue /\ tp'.sess = tp.sess /\ tp'.sopen = tp.sopen
          /\ tp'.scsem = tp.scsem /\ tp'.sssem = tp.sssem /\ tp'.sz = tp.sz
      BY <1>2 DEF SameXchg, SameTPSS
    <2>3. Tied(tp', c) <=> Tied(tp, c)
      BY <1>4, <2>2 DEF Tied
    <2>4. /\ tp'.spc = tp.spc
          /\ tp'.cnt[tp.csem[c]] = tp.cnt[tp.csem[c]] /\ tp'.cnt[tp.ssem[c]] = tp.cnt[tp.ssem[c]]
      BY <1>2
    <2>5. Opening(tp', c)
      BY <1>1, <1>4, <2>1, <2>2, <2>3, <2>4 DEF Matched, Opening, Header
    <2>6. Ready(tp', c)
      BY <1>1, <1>4, <2>1, <2>2, <2>3, <2>4
         DEF Matched, Opening, Ready, Resting, Passed, Quiet, Header, TPOps
    <2>7. Asked(tp', c)
      BY <1>1, <1>4, <2>1, <2>2, <2>3, <2>4
         DEF Matched, Ready, Resting, Asked, Passed, Counts, Quiet, Header, Tied
    <2>8. Passed(tp', c)
      BY <1>1, <1>4, <2>1, <2>2, <2>3, <2>4 DEF Matched, Passed, Asked, Counts, Quiet
    <2>9. Loose(tp', c) /\ (tp'.op[c] = "OPEN" => ~tp'.open[c])
      BY <1>1, <1>4, <2>1, <2>2 DEF Matched, Loose
    <2> QED BY <2>5, <2>6, <2>7, <2>8, <2>9 DEF Matched
  <1> QED BY <1>1, <1>2, <1>5, <1>6, <1>7, <1>8, <1>9, <1>10, <1>11 DEF TPSound, About

LEMMA RequestEndsKeeps ==
  ASSUME TPSound(tp), NEW c \in Clients, RequestEnds(c)
  PROVE  TPSound(tp')
  <1>1. /\ tp \in TPortalType /\ Handles(tp) /\ Serving(tp) /\ Promoted(tp) /\ Unopened(tp)
        /\ \A d \in Clients : About(tp, d)
        /\ tp.pc[c] = "passed" /\ tp.op[c] # "OPEN"
    BY DEF TPSound, RequestEnds, AtClient
  <1>2. /\ tp' \in TPortalType /\ SameSems(tp', tp) /\ SameXchg(tp', tp) /\ SameTPSS(tp', tp)
        /\ tp'.cre = tp.cre /\ tp'.open = tp.open /\ tp'.sound = tp.sound /\ tp'.stage = tp.stage
        /\ tp'.cnt = tp.cnt /\ tp'.spc = tp.spc
        /\ tp'.pc = [tp.pc EXCEPT ![c] = "idle"]
        /\ tp'.op = [tp.op EXCEPT ![c] = "NOP"]
        /\ tp'.left = [tp.left EXCEPT ![c] = 0]
        /\ tp'.hd = [tp.hd EXCEPT ![c] = [tp.hd[c] EXCEPT !.inc = FALSE,
                              !.eod = tp.hd[c].eod /\ ~(tp.op[c] = "RECEIVE" /\ ~tp.hd[c].inc /\ tp.open[c])]]
    BY <1>1, RequestEndsIs
  <1>3. \A d \in Clients : d # c => SameClient(tp', tp, d)
    BY <1>1, <1>2, TPFields DEF SameClient, SameCommand, SameSems, SameXchg, SameTPSS, SameTPCS
  <1>4. /\ tp'.pc[c] = "idle" /\ tp'.op[c] = "NOP" /\ tp'.left[c] = 0 /\ tp'.open[c] = tp.open[c]
        /\ tp'.csem[c] = tp.csem[c] /\ tp'.ssem[c] = tp.ssem[c] /\ tp'.sound[c] = tp.sound[c]
        /\ tp'.stage[c] = tp.stage[c]
        /\ tp'.hd[c].cmd = tp.hd[c].cmd /\ tp'.hd[c].sod = tp.hd[c].sod
        /\ tp'.hd[c].rqsz = tp.hd[c].rqsz /\ tp'.hd[c].csem = tp.hd[c].csem
        /\ tp'.hd[c].ssem = tp.hd[c].ssem
    <2>0. /\ tp'.pc = [tp.pc EXCEPT ![c] = "idle"] /\ tp'.op = [tp.op EXCEPT ![c] = "NOP"]
          /\ tp'.left = [tp.left EXCEPT ![c] = 0]
          /\ tp'.open = tp.open /\ tp'.sound = tp.sound /\ tp'.stage = tp.stage
          /\ tp'.csem = tp.csem /\ tp'.ssem = tp.ssem
          /\ tp'.sound = tp.sound /\ tp'.stage = tp.stage /\ tp'.stage = tp.stage
      BY <1>2 DEF SameSems, SameXchg, SameTPSS, SameTPCS
    <2>1. /\ tp.pc \in [Clients -> TPPcs] /\ tp.op \in [Clients -> TPOps]
          /\ tp.left \in [Clients -> 0..MaxBlocks] /\ tp.open \in [Clients -> BOOLEAN]
          /\ tp.csem \in [Clients -> SCBs \union {None}] /\ tp.ssem \in [Clients -> SCBs \union {None}]
          /\ tp.sound \in [Clients -> BOOLEAN] /\ tp.stage \in [Clients -> TPStages]
      BY <1>1, TPFields
    <2>2. /\ tp'.pc[c] = "idle" /\ tp'.op[c] = "NOP" /\ tp'.left[c] = 0 /\ tp'.open[c] = tp.open[c]
          /\ tp'.csem[c] = tp.csem[c] /\ tp'.ssem[c] = tp.ssem[c] /\ tp'.sound[c] = tp.sound[c]
          /\ tp'.stage[c] = tp.stage[c]
      BY <2>0, <2>1
    <2>3. tp.hd[c] \in TPHeader /\ tp.hd \in [Clients -> TPHeader]
      BY <1>1, TPFields
    <2>4. /\ tp'.hd[c].cmd = tp.hd[c].cmd /\ tp'.hd[c].sod = tp.hd[c].sod
          /\ tp'.hd[c].rqsz = tp.hd[c].rqsz /\ tp'.hd[c].csem = tp.hd[c].csem
          /\ tp'.hd[c].ssem = tp.hd[c].ssem
      BY <1>2, <2>3 DEF TPHeader
    <2> QED BY <2>2, <2>4
  <1>5. Handles(tp')
    <2>1. \A d \in Clients : tp.csem[d] = None => tp'.pc[d] = "idle"
      BY <1>1, <1>3, <1>4 DEF Handles, SameClient
    <2> QED BY <1>1, <1>2, <2>1, HandlesKept
  <1>6. Serving(tp')
    BY <1>1, <1>2, ServingKept DEF SameXchg, SameTPSS, Busy
  <1>7. Promoted(tp')
    <2>1. \A d \in Clients : Held(tp', d) => Held(tp, d)
      BY <1>1, <1>3, <1>4 DEF Held, SameClient, About, Header
    <2> QED BY <1>1, <1>2, <2>1, PromotedKept DEF SameTPSS
  <1>8. Unopened(tp')
    BY <1>1, <1>2 DEF Unopened, SameTPSS
  <1>9. \A d \in Clients : d # c => About(tp', d)
    <2> SUFFICES ASSUME NEW d \in Clients, d # c
                 PROVE  About(tp', d)
      OBVIOUS
    <2>2. tp'.cnt = tp.cnt
      BY <1>2
    <2>3. /\ Contains(tp'.queue, d) => Contains(tp.queue, d)
          /\ tp'.sess = tp.sess /\ tp'.sopen = tp.sopen
          /\ tp'.scsem = tp.scsem /\ tp'.sssem = tp.sssem /\ tp'.sz = tp.sz
      BY <1>2 DEF SameXchg, SameTPSS
    <2>4. tp'.spc = tp.spc
      BY <1>2
    <2> QED BY <1>1, <1>3, <2>2, <2>3, <2>4, AboutKept
  <1>10. Header(tp', c)
    BY <1>1, <1>2, <1>4, TPFields, TPKinds DEF About, Header, SameXchg, SameTPSS, Handles
  <1>11. Current(tp', c) => Matched(tp', c)
    <2> SUFFICES ASSUME Current(tp', c)
                 PROVE  Matched(tp', c)
      OBVIOUS
    <2>1. Current(tp, c) /\ Matched(tp, c) /\ Header(tp, c) /\ tp.op[c] \in TPOps
      BY <1>1, <1>4, TPFields DEF Current, About
    <2>2. /\ tp'.queue = tp.queue /\ tp'.sess = tp.sess /\ tp'.sopen = tp.sopen
          /\ tp'.scsem = tp.scsem /\ tp'.sssem = tp.sssem /\ tp'.sz = tp.sz
      BY <1>2 DEF SameXchg, SameTPSS
    <2>3. Tied(tp', c) <=> Tied(tp, c)
      BY <1>4, <2>2 DEF Tied
    <2>4. /\ tp'.spc = tp.spc
          /\ tp'.cnt[tp.csem[c]] = tp.cnt[tp.csem[c]] /\ tp'.cnt[tp.ssem[c]] = tp.cnt[tp.ssem[c]]
      BY <1>2
    <2>5. Opening(tp', c)
      BY <1>1, <1>4, <2>1, <2>2, <2>3, <2>4 DEF Matched, Opening, Header
    <2>6. Ready(tp', c)
      BY <1>1, <1>4, <2>1, <2>2, <2>3, <2>4
         DEF Matched, Opening, Ready, Resting, Passed, Quiet, Header, TPOps
    <2>7. Asked(tp', c)
      BY <1>1, <1>4, <2>1, <2>2, <2>3, <2>4
         DEF Matched, Ready, Resting, Asked, Passed, Counts, Quiet, Header, Tied
    <2>8. Passed(tp', c)
      BY <1>1, <1>4, <2>1, <2>2, <2>3, <2>4 DEF Matched, Passed, Asked, Counts, Quiet
    <2>9. Loose(tp', c) /\ (tp'.op[c] = "OPEN" => ~tp'.open[c])
      BY <1>1, <1>4, <2>1, <2>2 DEF Matched, Loose
    <2> QED BY <2>5, <2>6, <2>7, <2>8, <2>9 DEF Matched
  <1> QED BY <1>1, <1>2, <1>5, <1>6, <1>7, <1>8, <1>9, <1>10, <1>11 DEF TPSound, About

LEMMA CloseBeginKeeps ==
  ASSUME TPSound(tp), NEW c \in Clients, CloseBegin(c)
  PROVE  TPSound(tp')
  <1>1. /\ tp \in TPortalType /\ Handles(tp) /\ Serving(tp) /\ Promoted(tp) /\ Unopened(tp)
        /\ \A d \in Clients : About(tp, d)
        /\ tp.pc[c] = "idle" /\ tp.csem[c] # None
    BY DEF TPSound, CloseBegin, AtClient
  <1>2. /\ tp' \in TPortalType /\ SameSems(tp', tp) /\ SameXchg(tp', tp) /\ SameTPSS(tp', tp)
        /\ tp'.op = tp.op /\ tp'.cre = tp.cre /\ tp'.open = tp.open /\ tp'.sound = tp.sound
        /\ tp'.left = tp.left /\ tp'.stage = tp.stage
        /\ tp'.pc = [tp.pc EXCEPT ![c] = "close"]
        /\ tp'.hd = [tp.hd EXCEPT ![c] = [tp.hd[c] EXCEPT !.cmd = "CLOSE"]]
        /\ IF tp.spc = "wait" /\ tp.sssem = tp.ssem[c]
           THEN tp'.spc = "switch" /\ tp'.cnt = tp.cnt
           ELSE tp'.spc = tp.spc /\ tp'.cnt = [tp.cnt EXCEPT ![tp.ssem[c]] = TRUE]
    BY <1>1, CloseBeginIs
  <1>3. \A d \in Clients : d # c => SameClient(tp', tp, d)
    BY <1>1, <1>2, TPFields DEF SameClient, SameCommand, SameSems, SameXchg, SameTPSS, SameTPCS
  <1>4. /\ tp'.pc[c] = "close" /\ tp'.op[c] = tp.op[c] /\ tp'.left[c] = tp.left[c]
        /\ tp'.open[c] = tp.open[c] /\ tp'.csem[c] = tp.csem[c] /\ tp'.ssem[c] = tp.ssem[c]
        /\ tp'.sound[c] = tp.sound[c] /\ tp'.stage[c] = tp.stage[c]
        /\ tp'.hd[c].cmd = "CLOSE" /\ tp'.hd[c].sod = tp.hd[c].sod /\ tp'.hd[c].eod = tp.hd[c].eod
        /\ tp'.hd[c].rqsz = tp.hd[c].rqsz /\ tp'.hd[c].csem = tp.hd[c].csem
        /\ tp'.hd[c].ssem = tp.hd[c].ssem
    <2>0. /\ tp'.pc = [tp.pc EXCEPT ![c] = "close"]
          /\ tp'.op = tp.op /\ tp'.cre = tp.cre /\ tp'.open = tp.open /\ tp'.sound = tp.sound
          /\ tp'.left = tp.left /\ tp'.stage = tp.stage
          /\ tp'.open = tp.open /\ tp'.sound = tp.sound /\ tp'.csem = tp.csem /\ tp'.ssem = tp.ssem
          /\ tp'.sound = tp.sound /\ tp'.stage = tp.stage
      BY <1>2 DEF SameSems, SameXchg, SameTPSS, SameTPCS
    <2>1. /\ tp.pc \in [Clients -> TPPcs] /\ tp.op \in [Clients -> TPOps]
          /\ tp.left \in [Clients -> 0..MaxBlocks] /\ tp.open \in [Clients -> BOOLEAN]
          /\ tp.csem \in [Clients -> SCBs \union {None}] /\ tp.ssem \in [Clients -> SCBs \union {None}]
          /\ tp.sound \in [Clients -> BOOLEAN] /\ tp.stage \in [Clients -> TPStages]
      BY <1>1, TPFields
    <2>2. /\ tp'.pc[c] = "close" /\ tp'.op[c] = tp.op[c] /\ tp'.left[c] = tp.left[c]
          /\ tp'.open[c] = tp.open[c] /\ tp'.csem[c] = tp.csem[c] /\ tp'.ssem[c] = tp.ssem[c]
          /\ tp'.sound[c] = tp.sound[c] /\ tp'.stage[c] = tp.stage[c]
      BY <2>0, <2>1
    <2>3. tp.hd[c] \in TPHeader /\ tp.hd \in [Clients -> TPHeader]
      BY <1>1, TPFields
    <2>4. /\ tp'.hd[c].cmd = "CLOSE" /\ tp'.hd[c].sod = tp.hd[c].sod /\ tp'.hd[c].eod = tp.hd[c].eod
          /\ tp'.hd[c].rqsz = tp.hd[c].rqsz /\ tp'.hd[c].csem = tp.hd[c].csem
          /\ tp'.hd[c].ssem = tp.hd[c].ssem
      BY <1>2, <2>3 DEF TPHeader
    <2> QED BY <2>2, <2>4
  <1>5. Handles(tp')
    <2>1. \A d \in Clients : tp.csem[d] = None => tp'.pc[d] = "idle"
      BY <1>1, <1>3, <1>4 DEF Handles, SameClient
    <2> QED BY <1>1, <1>2, <2>1, HandlesKept
  <1>6. Serving(tp')
    BY <1>1, <1>2, ServingKept DEF SameXchg, SameTPSS, Busy
  <1>7. Promoted(tp')
    <2>1. \A d \in Clients : Held(tp', d) => Held(tp, d)
      BY <1>1, <1>3, <1>4 DEF Held, SameClient, About, Header
    <2> QED BY <1>1, <1>2, <2>1, PromotedKept DEF SameTPSS
  <1>8. Unopened(tp')
    BY <1>1, <1>2 DEF Unopened, SameTPSS
  <1>9. \A d \in Clients : d # c => About(tp', d)
    <2> SUFFICES ASSUME NEW d \in Clients, d # c
                 PROVE  About(tp', d)
      OBVIOUS
    <2>0. tp.csem[c] # None
      BY <1>1 DEF Handles
    <2>1. /\ tp.csem[c] \in SCBs /\ tp.ssem[c] \in SCBs
          /\ tp.csem[d] # None => /\ tp.csem[d] # tp.csem[c] /\ tp.csem[d] # tp.ssem[c]
                                /\ tp.ssem[d] # tp.csem[c] /\ tp.ssem[d] # tp.ssem[c]
                                /\ tp.csem[d] \in SCBs /\ tp.ssem[d] \in SCBs
      BY <1>1, <2>0, HandleFacts
    <2>2. Current(tp, d) => /\ tp'.cnt[tp.csem[d]] = tp.cnt[tp.csem[d]]
                            /\ tp'.cnt[tp.ssem[d]] = tp.cnt[tp.ssem[d]]
      <3>1. tp.cnt \in [SCBs -> BOOLEAN]
        BY <1>1, TPFields
      <3>2. tp'.cnt = tp.cnt \/ tp'.cnt = [tp.cnt EXCEPT ![tp.ssem[c]] = TRUE]
        BY <1>2
      <3>3. Current(tp, d) => tp.csem[d] # None
        BY DEF Current
      <3> QED BY <2>1, <3>1, <3>2, <3>3
    <2>3. /\ Contains(tp'.queue, d) => Contains(tp.queue, d)
          /\ tp'.sess = tp.sess /\ tp'.sopen = tp.sopen
          /\ tp'.scsem = tp.scsem /\ tp'.sssem = tp.sssem /\ tp'.sz = tp.sz
      BY <1>2 DEF SameXchg, SameTPSS
    <2>4. Current(tp, d) => tp'.spc = tp.spc \/ (tp.spc = "wait" /\ ~Tied(tp, d))
      BY <1>2, <2>1 DEF Current, Tied
    <2> QED BY <1>1, <1>3, <2>2, <2>3, <2>4, AboutKept
  <1>10. Header(tp', c)
    BY <1>1, <1>2, <1>4, TPFields, TPKinds DEF About, Header, SameXchg, SameTPSS, Handles
  <1>11. Current(tp', c) => Matched(tp', c)
    <2> SUFFICES ASSUME Current(tp', c)
                 PROVE  Matched(tp', c)
      OBVIOUS
    <2>1. Matched(tp, c)
      BY <1>1, <1>4 DEF Current, About
    <2>2. tp'.sess = tp.sess /\ tp'.scsem = tp.scsem /\ tp'.sssem = tp.sssem
      BY <1>2 DEF SameTPSS
    <2>3. Loose(tp', c) /\ (tp'.op[c] = "OPEN" => ~tp'.open[c])
      BY <1>4, <2>1, <2>2 DEF Matched, Loose
    <2>4. Opening(tp', c) /\ Ready(tp', c) /\ Asked(tp', c) /\ Passed(tp', c)
      BY <1>4 DEF Opening, Ready, Resting, Asked, Passed
    <2> QED BY <2>3, <2>4 DEF Matched
  <1> QED BY <1>1, <1>2, <1>5, <1>6, <1>7, <1>8, <1>9, <1>10, <1>11 DEF TPSound, About

\* A request.
LEMMA AskForKeeps ==
  ASSUME TPSound(tp), NEW c \in Clients, NEW h \in TPHeader, NEW n \in 0..MaxBlocks,
         AskFor(c, h, n),
         tp.pc[c] # "idle", tp.op[c] \in {"SEND", "RECEIVE"},
         h.csem = tp.hd[c].csem, h.ssem = tp.hd[c].ssem,
         Current(tp, c) => /\ Quiet(tp, c) /\ ~Contains(tp.queue, c) /\ h.cmd = tp.op[c]
                           /\ tp.sess = c => Tied(tp, c) /\ tp.spc \in {"test", "wait"},
         Current(tp, c) /\ tp.op[c] = "RECEIVE" =>
            n >= 1 /\ ~h.eod /\ (h.sod => h.rqsz = n) /\ (tp.sess = c /\ ~h.sod => tp.sz = n)
  PROVE  TPSound(tp')
  <1>1. /\ tp \in TPortalType /\ Handles(tp) /\ Serving(tp) /\ Promoted(tp) /\ Unopened(tp)
        /\ \A d \in Clients : About(tp, d)
        /\ tp.pc[c] # "idle" /\ tp.csem[c] # None
    BY DEF TPSound, AskFor, AtClient, Handles
  <1>2. /\ tp' \in TPortalType /\ SameSems(tp', tp) /\ SameXchg(tp', tp) /\ SameTPSS(tp', tp)
        /\ tp'.op = tp.op /\ tp'.cre = tp.cre /\ tp'.open = tp.open /\ tp'.sound = tp.sound
        /\ tp'.pc = [tp.pc EXCEPT ![c] = "test"] /\ tp'.hd = [tp.hd EXCEPT ![c] = h]
        /\ tp'.left = [tp.left EXCEPT ![c] = n] /\ tp'.stage = [tp.stage EXCEPT ![c] = "asked"]
        /\ IF tp.spc = "wait" /\ tp.sssem = tp.ssem[c]
           THEN tp'.spc = "switch" /\ tp'.cnt = tp.cnt
           ELSE tp'.spc = tp.spc /\ tp'.cnt = [tp.cnt EXCEPT ![tp.ssem[c]] = TRUE]
    BY <1>1, AskForIs
  <1>3. \A d \in Clients : d # c => SameClient(tp', tp, d)
    BY <1>1, <1>2, TPFields DEF SameClient, SameCommand, SameSems, SameXchg, SameTPSS, SameTPCS
  <1>4. /\ tp'.pc[c] = "test" /\ tp'.op[c] = tp.op[c] /\ tp'.left[c] = n /\ tp'.open[c] = tp.open[c]
        /\ tp'.csem[c] = tp.csem[c] /\ tp'.ssem[c] = tp.ssem[c] /\ tp'.sound[c] = tp.sound[c]
        /\ tp'.stage[c] = "asked"
        /\ tp'.hd[c].cmd = h.cmd /\ tp'.hd[c].sod = h.sod /\ tp'.hd[c].eod = h.eod
        /\ tp'.hd[c].rqsz = h.rqsz /\ tp'.hd[c].csem = h.csem /\ tp'.hd[c].ssem = h.ssem
    <2>0. /\ tp'.pc = [tp.pc EXCEPT ![c] = "test"] /\ tp'.hd = [tp.hd EXCEPT ![c] = h]
          /\ tp'.op = tp.op /\ tp'.cre = tp.cre /\ tp'.open = tp.open /\ tp'.sound = tp.sound
          /\ tp'.left = [tp.left EXCEPT ![c] = n] /\ tp'.stage = [tp.stage EXCEPT ![c] = "asked"]
          /\ tp'.open = tp.open /\ tp'.sound = tp.sound /\ tp'.csem = tp.csem /\ tp'.ssem = tp.ssem
          /\ tp'.sound = tp.sound /\ tp'.stage = [tp.stage EXCEPT ![c] = "asked"]
      BY <1>2 DEF SameSems, SameXchg, SameTPSS, SameTPCS
    <2>1. /\ tp.pc \in [Clients -> TPPcs] /\ tp.op \in [Clients -> TPOps]
          /\ tp.left \in [Clients -> 0..MaxBlocks] /\ tp.open \in [Clients -> BOOLEAN]
          /\ tp.csem \in [Clients -> SCBs \union {None}] /\ tp.ssem \in [Clients -> SCBs \union {None}]
          /\ tp.sound \in [Clients -> BOOLEAN] /\ tp.stage \in [Clients -> TPStages]
      BY <1>1, TPFields
    <2>2. /\ tp'.pc[c] = "test" /\ tp'.op[c] = tp.op[c] /\ tp'.left[c] = n
          /\ tp'.open[c] = tp.open[c] /\ tp'.csem[c] = tp.csem[c] /\ tp'.ssem[c] = tp.ssem[c]
          /\ tp'.sound[c] = tp.sound[c] /\ tp'.stage[c] = "asked"
      BY <2>0, <2>1
    <2>3. tp.hd[c] \in TPHeader /\ tp.hd \in [Clients -> TPHeader]
      BY <1>1, TPFields
    <2>4. /\ tp'.hd[c].cmd = h.cmd /\ tp'.hd[c].sod = h.sod /\ tp'.hd[c].eod = h.eod
          /\ tp'.hd[c].rqsz = h.rqsz /\ tp'.hd[c].csem = h.csem /\ tp'.hd[c].ssem = h.ssem
      BY <1>2, <2>3 DEF TPHeader
    <2> QED BY <2>2, <2>4
  <1>5. Handles(tp')
    <2>1. \A d \in Clients : tp.csem[d] = None => tp'.pc[d] = "idle"
      BY <1>1, <1>3, <1>4 DEF Handles, SameClient
    <2> QED BY <1>1, <1>2, <2>1, HandlesKept
  <1>6. Serving(tp')
    BY <1>1, <1>2, ServingKept DEF SameXchg, SameTPSS, Busy
  <1>7. Promoted(tp')
    <2>1. \A d \in Clients : Held(tp', d) => Held(tp, d)
      BY <1>1, <1>3, <1>4 DEF Held, SameClient, About, Header
    <2> QED BY <1>1, <1>2, <2>1, PromotedKept DEF SameTPSS
  <1>8. Unopened(tp')
    BY <1>1, <1>2 DEF Unopened, SameTPSS
  <1>9. \A d \in Clients : d # c => About(tp', d)
    <2> SUFFICES ASSUME NEW d \in Clients, d # c
                 PROVE  About(tp', d)
      OBVIOUS
    <2>0. tp.csem[c] # None
      BY <1>1 DEF Handles
    <2>1. /\ tp.csem[c] \in SCBs /\ tp.ssem[c] \in SCBs
          /\ tp.csem[d] # None => /\ tp.csem[d] # tp.csem[c] /\ tp.csem[d] # tp.ssem[c]
                                /\ tp.ssem[d] # tp.csem[c] /\ tp.ssem[d] # tp.ssem[c]
                                /\ tp.csem[d] \in SCBs /\ tp.ssem[d] \in SCBs
      BY <1>1, <2>0, HandleFacts
    <2>2. Current(tp, d) => /\ tp'.cnt[tp.csem[d]] = tp.cnt[tp.csem[d]]
                            /\ tp'.cnt[tp.ssem[d]] = tp.cnt[tp.ssem[d]]
      <3>1. tp.cnt \in [SCBs -> BOOLEAN]
        BY <1>1, TPFields
      <3>2. tp'.cnt = tp.cnt \/ tp'.cnt = [tp.cnt EXCEPT ![tp.ssem[c]] = TRUE]
        BY <1>2
      <3>3. Current(tp, d) => tp.csem[d] # None
        BY DEF Current
      <3> QED BY <2>1, <3>1, <3>2, <3>3
    <2>3. /\ Contains(tp'.queue, d) => Contains(tp.queue, d)
          /\ tp'.sess = tp.sess /\ tp'.sopen = tp.sopen
          /\ tp'.scsem = tp.scsem /\ tp'.sssem = tp.sssem /\ tp'.sz = tp.sz
      BY <1>2 DEF SameXchg, SameTPSS
    <2>4. Current(tp, d) => tp'.spc = tp.spc \/ (tp.spc = "wait" /\ ~Tied(tp, d))
      BY <1>2, <2>1 DEF Current, Tied
    <2> QED BY <1>1, <1>3, <2>2, <2>3, <2>4, AboutKept
  <1>10. Header(tp', c)
    BY <1>1, <1>2, <1>4, TPFields, TPKinds DEF About, Header, SameXchg, SameTPSS, Handles
  <1>11. Current(tp', c) => Matched(tp', c)
    <2> SUFFICES ASSUME Current(tp', c)
                 PROVE  Matched(tp', c)
      OBVIOUS
    <2>1. Current(tp, c) /\ Matched(tp, c)
      BY <1>1, <1>4 DEF Current, About, Header
    <2>2. /\ tp'.queue = tp.queue /\ tp'.sess = tp.sess /\ tp'.sopen = tp.sopen
          /\ tp'.scsem = tp.scsem /\ tp'.sssem = tp.sssem /\ tp'.sz = tp.sz
      BY <1>2 DEF SameXchg, SameTPSS
    <2>3. Tied(tp', c) <=> Tied(tp, c)
      BY <1>4, <2>2 DEF Tied
    <2>4. IF tp.spc = "wait" /\ tp.sssem = tp.ssem[c]
          THEN tp'.spc = "switch" /\ tp'.cnt[tp.csem[c]] = tp.cnt[tp.csem[c]]
                                 /\ tp'.cnt[tp.ssem[c]] = tp.cnt[tp.ssem[c]]
          ELSE tp'.spc = tp.spc /\ tp'.cnt[tp.csem[c]] = tp.cnt[tp.csem[c]] /\ tp'.cnt[tp.ssem[c]]
      <3>1. tp.csem[c] \in SCBs /\ tp.ssem[c] \in SCBs /\ tp.csem[c] # tp.ssem[c]
        BY <1>1, <2>1, HandleFacts DEF Current
      <3>2. tp.cnt \in [SCBs -> BOOLEAN]
        BY <1>1, TPFields
      <3> QED BY <1>2, <3>1, <3>2
    <2>5. /\ Quiet(tp, c) /\ ~Contains(tp.queue, c) /\ h.cmd = tp.op[c]
          /\ tp.sess = c => Tied(tp, c) /\ tp.spc \in {"test", "wait"}
          /\ tp.op[c] = "RECEIVE" => /\ n >= 1 /\ ~h.eod /\ (h.sod => h.rqsz = n)
                                      /\ (tp.sess = c /\ ~h.sod => tp.sz = n)
      BY <2>1
    <2>6. Counts(tp', c)
      BY <1>4, <2>2, <2>5 DEF Counts
    <2>7. /\ ~tp'.cnt[tp'.csem[c]]
          /\ tp.sess = c => IF tp'.spc = "test" THEN tp'.cnt[tp'.ssem[c]]
                           ELSE tp'.spc = "switch" /\ ~tp'.cnt[tp'.ssem[c]]
      BY <1>4, <2>4, <2>5 DEF Quiet, Tied
    <2>8. Asked(tp', c)
      BY <1>4, <2>2, <2>3, <2>5, <2>6, <2>7 DEF Asked
    <2>9. Loose(tp', c)
      BY <1>4, <2>1, <2>2 DEF Matched, Loose
    <2>10. Opening(tp', c) /\ Ready(tp', c) /\ Passed(tp', c) /\ tp'.op[c] # "OPEN"
      BY <1>4 DEF Opening, Ready, Resting, Passed
    <2> QED BY <2>8, <2>9, <2>10 DEF Matched
  <1> QED BY <1>1, <1>2, <1>5, <1>6, <1>7, <1>8, <1>9, <1>10, <1>11 DEF TPSound, About

LEMMA AskKeeps ==
  ASSUME TPSound(tp), NEW c \in Clients, Ask(c)
  PROVE  TPSound(tp')
  <1> DEFINE h == [tp.hd[c] EXCEPT !.sod = TRUE, !.inc = FALSE, !.rqsz = tp.left[c],
                                   !.eod = tp.op[c] = "SEND" /\ tp.left[c] = 1]
             n == tp.left[c]
  <1>1. /\ tp \in TPortalType /\ Handles(tp) /\ About(tp, c)
        /\ tp.pc[c] = "ask" /\ AskFor(c, h, n)
    BY DEF TPSound, Ask, AtClient
  <1>2. tp.hd[c] \in TPHeader /\ n \in 0..MaxBlocks
    BY <1>1, TPFields
  <1>3. /\ h \in TPHeader /\ h.sod /\ h.rqsz = n /\ h.cmd = tp.hd[c].cmd
        /\ h.csem = tp.hd[c].csem /\ h.ssem = tp.hd[c].ssem
    BY <1>2 DEF TPHeader
  <1>4. tp.op[c] = "RECEIVE" => ~h.eod
    BY <1>2 DEF TPHeader
  <1>5. /\ tp.pc[c] # "idle" /\ tp.csem[c] # None
        /\ tp.op[c] \in {"SEND", "RECEIVE"} /\ n >= 1 /\ h.cmd = tp.op[c]
    BY <1>1, <1>3 DEF Handles, About, Header
  <1>6. Current(tp, c) => /\ Quiet(tp, c) /\ ~Contains(tp.queue, c)
                          /\ tp.sess = c => Tied(tp, c) /\ tp.spc \in {"test", "wait"}
    BY <1>1 DEF About, Matched, Ready, Resting
  <1> HIDE DEF h, n
  <1> QED BY <1>1, <1>2, <1>3, <1>4, <1>5, <1>6, AskForKeeps

LEMMA NextBlockKeeps ==
  ASSUME TPSound(tp), NEW c \in Clients, NextBlock(c)
  PROVE  TPSound(tp')
  <1> DEFINE n == Max({tp.left[c] - 1, 0})
             h == [tp.hd[c] EXCEPT !.eod = @ \/ (tp.op[c] = "SEND" /\ n = 1)]
  <1>1. /\ tp \in TPortalType /\ Handles(tp) /\ About(tp, c)
        /\ tp.pc[c] = "passed" /\ tp.op[c] # "OPEN" /\ ~IsLast(c) /\ AskFor(c, h, n)
    BY DEF TPSound, NextBlock, AtClient
  <1>2. /\ tp.hd[c] \in TPHeader /\ tp.left[c] \in 0..MaxBlocks /\ tp.op[c] \in TPOps
    BY <1>1, TPFields
  <1>3. n = IF tp.left[c] = 0 THEN 0 ELSE tp.left[c] - 1
    <2>1. CASE tp.left[c] = 0
      <3>1. {tp.left[c] - 1, 0} = {0 - 1, 0}
        BY <2>1
      <3>2. ASSUME NEW z, z \in {0 - 1, 0}, \A w \in {0 - 1, 0} : z >= w
            PROVE  z = 0
        BY <3>2
      <3>3. \E z \in {0 - 1, 0} : \A w \in {0 - 1, 0} : z >= w
        OBVIOUS
      <3> DEFINE m == CHOOSE z \in {0 - 1, 0} : \A w \in {0 - 1, 0} : z >= w
      <3>4. m \in {0 - 1, 0} /\ \A w \in {0 - 1, 0} : m >= w
        BY <3>3
      <3>5. Max({0 - 1, 0}) = m
        BY DEF Max
      <3> HIDE DEF m
      <3> QED BY <2>1, <3>1, <3>2, <3>4, <3>5
    <2>2. CASE tp.left[c] # 0
      <3>1. tp.left[c] - 1 \in Nat /\ 0 \in Nat /\ tp.left[c] - 1 >= 0
        BY <1>2, <2>2, TPKinds
      <3> QED BY <2>2, <3>1, MaxOfTwo
    <2> QED BY <2>1, <2>2
  <1>4. n \in 0..MaxBlocks
    BY <1>2, <1>3, TPKinds
  <1>5. /\ h \in TPHeader /\ h.sod = tp.hd[c].sod /\ h.rqsz = tp.hd[c].rqsz /\ h.cmd = tp.hd[c].cmd
        /\ h.csem = tp.hd[c].csem /\ h.ssem = tp.hd[c].ssem
        /\ tp.op[c] = "RECEIVE" => (h.eod <=> tp.hd[c].eod)
    BY <1>2 DEF TPHeader
  <1>6. /\ tp.pc[c] # "idle" /\ tp.csem[c] # None
        /\ tp.op[c] \in {"SEND", "RECEIVE"}
    BY <1>1, <1>2 DEF Handles, About, Header, TPOps
  <1>7. Current(tp, c) => Passed(tp, c)
    BY <1>1 DEF About, Matched
  <1>8. Current(tp, c) => /\ Quiet(tp, c) /\ ~Contains(tp.queue, c) /\ h.cmd = tp.op[c]
                          /\ tp.sess = c => Tied(tp, c) /\ tp.spc \in {"test", "wait"}
    BY <1>1, <1>5, <1>6, <1>7 DEF Passed
  <1>9. Current(tp, c) /\ tp.op[c] = "RECEIVE" =>
            n >= 1 /\ ~h.eod /\ (h.sod => h.rqsz = n) /\ (tp.sess = c /\ ~h.sod => tp.sz = n)
    <2> SUFFICES ASSUME Current(tp, c), tp.op[c] = "RECEIVE"
                 PROVE  n >= 1 /\ ~h.eod /\ (h.sod => h.rqsz = n) /\ (tp.sess = c /\ ~h.sod => tp.sz = n)
      OBVIOUS
    <2>1. /\ tp.left[c] >= 1 /\ ~tp.hd[c].sod
          /\ tp.hd[c].eod <=> tp.left[c] = 1
          /\ tp.sess = c => tp.sz = tp.left[c] - 1
      BY <1>1, <1>7 DEF Passed, Counts
    <2>2. ~tp.hd[c].eod
      BY <1>1 DEF IsLast
    <2>3. tp.left[c] # 1 /\ tp.left[c] # 0 /\ n = tp.left[c] - 1
      BY <1>3, <1>2, <2>1, <2>2
    <2> HIDE DEF n, h
    <2> QED BY <1>2, <1>5, <2>1, <2>2, <2>3
  <1> HIDE DEF h, n
  <1> QED BY <1>1, <1>4, <1>5, <1>6, <1>8, <1>9, AskForKeeps

LEMMA ClientTimesOutIs ==
  ASSUME NEW c \in Clients, tp \in TPortalType, ClientTimeout(c)
  PROVE  /\ tp' \in TPortalType /\ SameSems(tp', tp) /\ SameXchg(tp', tp) /\ SameTPSS(tp', tp)
         /\ SameTPCS(tp', tp) /\ tp'.cnt = tp.cnt /\ tp'.spc = tp.spc
         /\ tp'.pc = [tp.pc EXCEPT ![c] = "failed"]
  <1> DEFINE ws == {c}
             ok == FALSE
             q == tp'
  <1>1. ok \in BOOLEAN /\ q = TPResume(tp, ws, ok)
    BY DEF ClientTimeout
  <1>2. ~ok /\ ws = {c} /\ Svr \notin ws
    BY TPKinds
  <1> HIDE DEF ws, ok, q
  <1>3. /\ q \in TPortalType /\ SameSems(q, tp) /\ SameXchg(q, tp) /\ SameTPSS(q, tp) /\ SameTPCS(q, tp)
        /\ q.cnt = tp.cnt
        /\ \A d \in Clients : q.pc[d] = IF d \notin ws THEN tp.pc[d]
                                        ELSE IF ok THEN "passed" ELSE "failed"
        /\ q.spc = IF Svr \notin ws THEN tp.spc ELSE IF ok THEN "switch" ELSE "lost"
    BY <1>1, ResumeIs
  <1>4. q.pc = [tp.pc EXCEPT ![c] = "failed"]
    <2>1. q.pc \in [Clients -> TPPcs] /\ tp.pc \in [Clients -> TPPcs]
      BY <1>3, TPFields
    <2>2. \A d \in Clients : q.pc[d] = IF d = c THEN "failed" ELSE tp.pc[d]
      BY <1>2, <1>3
    <2> QED BY <2>1, <2>2
  <1> QED BY <1>2, <1>3, <1>4 DEF q

LEMMA ClientTimeoutKeeps ==
  ASSUME TPSound(tp), NEW c \in Clients, ClientTimeout(c)
  PROVE  TPSound(tp')
  <1>1. /\ tp \in TPortalType /\ Handles(tp) /\ Serving(tp) /\ Promoted(tp) /\ Unopened(tp)
        /\ \A d \in Clients : About(tp, d)
        /\ tp.pc[c] = "wait"
    BY DEF TPSound, ClientTimeout, AtClient
  <1>2. /\ tp' \in TPortalType /\ SameSems(tp', tp) /\ SameXchg(tp', tp) /\ SameTPSS(tp', tp)
        /\ SameTPCS(tp', tp) /\ tp'.cnt = tp.cnt /\ tp'.spc = tp.spc
        /\ tp'.pc = [tp.pc EXCEPT ![c] = "failed"]
    BY <1>1, ClientTimesOutIs
  <1>3. \A d \in Clients : d # c => SameClient(tp', tp, d)
    BY <1>1, <1>2, TPFields DEF SameClient, SameCommand, SameSems, SameXchg, SameTPSS, SameTPCS
  <1>4. /\ tp'.pc[c] = "failed" /\ tp'.op[c] = tp.op[c] /\ tp'.left[c] = tp.left[c]
        /\ tp'.open[c] = tp.open[c] /\ tp'.csem[c] = tp.csem[c] /\ tp'.ssem[c] = tp.ssem[c]
        /\ tp'.sound[c] = tp.sound[c] /\ tp'.stage[c] = tp.stage[c]
        /\ tp'.hd[c].cmd = tp.hd[c].cmd /\ tp'.hd[c].sod = tp.hd[c].sod
        /\ tp'.hd[c].eod = tp.hd[c].eod /\ tp'.hd[c].rqsz = tp.hd[c].rqsz
        /\ tp'.hd[c].csem = tp.hd[c].csem /\ tp'.hd[c].ssem = tp.hd[c].ssem
    <2>0. /\ tp'.pc = [tp.pc EXCEPT ![c] = "failed"] /\ tp'.op = tp.op /\ tp'.left = tp.left
          /\ tp'.open = tp.open /\ tp'.csem = tp.csem /\ tp'.ssem = tp.ssem /\ tp'.sound = tp.sound
          /\ tp'.stage = tp.stage
      BY <1>2 DEF SameSems, SameXchg, SameTPSS, SameTPCS
    <2>1. /\ tp.pc \in [Clients -> TPPcs] /\ tp.op \in [Clients -> TPOps]
          /\ tp.left \in [Clients -> 0..MaxBlocks] /\ tp.open \in [Clients -> BOOLEAN]
          /\ tp.csem \in [Clients -> SCBs \union {None}] /\ tp.ssem \in [Clients -> SCBs \union {None}]
          /\ tp.sound \in [Clients -> BOOLEAN] /\ tp.stage \in [Clients -> TPStages]
      BY <1>1, TPFields
    <2>2. /\ tp'.pc[c] = "failed" /\ tp'.op[c] = tp.op[c] /\ tp'.left[c] = tp.left[c]
          /\ tp'.open[c] = tp.open[c] /\ tp'.csem[c] = tp.csem[c] /\ tp'.ssem[c] = tp.ssem[c]
          /\ tp'.sound[c] = tp.sound[c] /\ tp'.stage[c] = tp.stage[c]
      BY <2>0, <2>1
    <2>3. tp'.hd = tp.hd
      BY <1>2 DEF SameSems, SameXchg, SameTPSS, SameTPCS
    <2> QED BY <2>2, <2>3
  <1>5. Handles(tp')
    <2>1. \A d \in Clients : tp.csem[d] = None => tp'.pc[d] = "idle"
      BY <1>1, <1>3, <1>4 DEF Handles, SameClient
    <2> QED BY <1>1, <1>2, <2>1, HandlesKept
  <1>6. Serving(tp')
    BY <1>1, <1>2, ServingKept DEF SameXchg, SameTPSS, Busy
  <1>7. Promoted(tp')
    <2>1. \A d \in Clients : Held(tp', d) => Held(tp, d)
      BY <1>1, <1>3, <1>4 DEF Held, SameClient, About, Header
    <2> QED BY <1>1, <1>2, <2>1, PromotedKept DEF SameTPSS
  <1>8. Unopened(tp')
    BY <1>1, <1>2 DEF Unopened, SameTPSS
  <1>9. \A d \in Clients : d # c => About(tp', d)
    <2> SUFFICES ASSUME NEW d \in Clients, d # c
                 PROVE  About(tp', d)
      OBVIOUS
    <2>2. tp'.cnt = tp.cnt
      BY <1>2
    <2>3. /\ Contains(tp'.queue, d) => Contains(tp.queue, d)
          /\ tp'.sess = tp.sess /\ tp'.sopen = tp.sopen
          /\ tp'.scsem = tp.scsem /\ tp'.sssem = tp.sssem /\ tp'.sz = tp.sz
      BY <1>2 DEF SameXchg, SameTPSS
    <2>4. tp'.spc = tp.spc
      BY <1>2
    <2> QED BY <1>1, <1>3, <2>2, <2>3, <2>4, AboutKept
  <1>10. Header(tp', c)
    BY <1>1, <1>2, <1>4, TPFields, TPKinds DEF About, Header, SameXchg, SameTPSS, Handles
  <1>11. Current(tp', c) => Matched(tp', c)
    <2> SUFFICES ASSUME Current(tp', c)
                 PROVE  Matched(tp', c)
      OBVIOUS
    <2>1. Current(tp, c) /\ Matched(tp, c) /\ Header(tp, c) /\ tp.op[c] \in TPOps
      BY <1>1, <1>4, TPFields DEF Current, About
    <2>2. /\ tp'.queue = tp.queue /\ tp'.sess = tp.sess /\ tp'.sopen = tp.sopen
          /\ tp'.scsem = tp.scsem /\ tp'.sssem = tp.sssem /\ tp'.sz = tp.sz
      BY <1>2 DEF SameXchg, SameTPSS
    <2>3. Tied(tp', c) <=> Tied(tp, c)
      BY <1>4, <2>2 DEF Tied
    <2>4. /\ tp'.spc = tp.spc
          /\ tp'.cnt[tp.csem[c]] = tp.cnt[tp.csem[c]] /\ tp'.cnt[tp.ssem[c]] = tp.cnt[tp.ssem[c]]
      BY <1>2
    <2>5. Opening(tp', c)
      BY <1>1, <1>4, <2>1, <2>2, <2>3, <2>4 DEF Matched, Opening, Header
    <2>6. Ready(tp', c)
      BY <1>1, <1>4, <2>1, <2>2, <2>3, <2>4
         DEF Matched, Opening, Ready, Resting, Passed, Quiet, Header, TPOps
    <2>7. Asked(tp', c)
      BY <1>1, <1>4, <2>1, <2>2, <2>3, <2>4
         DEF Matched, Ready, Resting, Asked, Passed, Counts, Quiet, Header, Tied
    <2>8. Passed(tp', c)
      BY <1>1, <1>4, <2>1, <2>2, <2>3, <2>4 DEF Matched, Passed, Asked, Counts, Quiet
    <2>9. Loose(tp', c) /\ (tp'.op[c] = "OPEN" => ~tp'.open[c])
      BY <1>1, <1>4, <2>1, <2>2 DEF Matched, Loose
    <2> QED BY <2>5, <2>6, <2>7, <2>8, <2>9 DEF Matched
  <1> QED BY <1>1, <1>2, <1>5, <1>6, <1>7, <1>8, <1>9, <1>10, <1>11 DEF TPSound, About

LEMMA PoolHasTwo ==
  ASSUME NEW p \in TPortalType, Handles(p), NEW c \in Clients, p.csem[c] = None
  PROVE  /\ Len(p.pool) \in Nat /\ Len(p.pool) >= 2 /\ p.pool[1] \in SCBs /\ p.pool[2] \in SCBs
         /\ p.pool[1] # p.pool[2]
         /\ Cardinality({d \in Clients : p.csem[d] = None}) \in Nat
         /\ Cardinality({d \in Clients : p.csem[d] = None} \ {c}) =
               Cardinality({d \in Clients : p.csem[d] = None}) - 1
  <1> DEFINE S == {d \in Clients : p.csem[d] = None}
  <1>1. IsFiniteSet(S)
    BY TPKinds, FS_Subset
  <1>2. c \in S /\ 2 * Cardinality(S) <= Len(p.pool) /\ p.pool \in Seq(SCBs) /\ Injective(p.pool)
    BY TPFields DEF Handles
  <1> HIDE DEF S
  <1>3. Cardinality(S) \in Nat /\ Cardinality(S \ {c}) = Cardinality(S) - 1 /\ Cardinality(S \ {c}) \in Nat
    <2>1. IsFiniteSet(S \ {c}) /\ Cardinality(S \ {c}) = Cardinality(S) - 1
      BY <1>1, <1>2, FS_RemoveElement
    <2> QED BY <1>1, <2>1, FS_CardinalityType
  <1>4. Len(p.pool) \in Nat /\ Len(p.pool) >= 2
    BY <1>2, <1>3
  <1>5. p.pool[1] \in SCBs /\ p.pool[2] \in SCBs /\ p.pool[1] # p.pool[2]
    BY <1>2, <1>4 DEF Injective
  <1> QED BY <1>3, <1>4, <1>5 DEF S

\* The semaphores of a client are created, or there already.
LEMMA OpenCreateNewIs ==
  ASSUME NEW c \in Clients, tp \in TPortalType, Handles(tp), OpenCreate(c), tp.csem[c] = None
  PROVE  /\ tp' \in TPortalType /\ SameXchg(tp', tp) /\ SameTPSS(tp', tp) /\ tp'.left = tp.left
         /\ tp'.open = tp.open /\ tp'.sound = tp.sound /\ tp'.stage = tp.stage /\ tp'.cnt = tp.cnt
         /\ tp'.spc = tp.spc
         /\ tp'.pc = [tp.pc EXCEPT ![c] = "load"]
         /\ tp'.op = [tp.op EXCEPT ![c] = "OPEN"]
         /\ tp'.cre = [tp.cre EXCEPT ![c] = TRUE]
         /\ tp'.pool = SubSeq(tp.pool, 3, Len(tp.pool))
         /\ tp'.csem = [tp.csem EXCEPT ![c] = tp.pool[1]]
         /\ tp'.ssem = [tp.ssem EXCEPT ![c] = tp.pool[2]]
         /\ tp'.hd = [tp.hd EXCEPT ![c] =
                  [cmd |-> "CLOSE", sod |-> FALSE, eod |-> FALSE, inc |-> FALSE, rqsz |-> 0,
                   csem |-> tp.pool[1], ssem |-> tp.pool[2]]]
  <1> DEFINE pc2 == [tp.pc EXCEPT ![c] = "load"]
             op2 == [tp.op EXCEPT ![c] = "OPEN"]
             cre2 == [tp.cre EXCEPT ![c] = TRUE]
             pool2 == SubSeq(tp.pool, 3, Len(tp.pool))
             csem2 == [tp.csem EXCEPT ![c] = tp.pool[1]]
             ssem2 == [tp.ssem EXCEPT ![c] = tp.pool[2]]
             hnew == [cmd |-> "CLOSE", sod |-> FALSE, eod |-> FALSE, inc |-> FALSE, rqsz |-> 0,
                   csem |-> tp.pool[1], ssem |-> tp.pool[2]]
             hd2 == [tp.hd EXCEPT ![c] = hnew]
  <1>0. tp.pool \in Seq(SCBs) /\ Len(tp.pool) >= 2 /\ tp.pool[1] \in SCBs /\ tp.pool[2] \in SCBs
    BY TPFields, PoolHasTwo
  <1>h. hnew \in TPHeader
    BY <1>0, TPKinds DEF TPHeader
  <1>1. tp' = [tp EXCEPT !.pc = pc2, !.op = op2, !.cre = cre2, !.pool = pool2, !.csem = csem2, !.ssem = ssem2, !.hd = hd2]
    BY TPFields DEF OpenCreate, TPortalType
  <1>2. pc2 \in [Clients -> TPPcs]
    BY TPFields, TPKinds DEF TPPcs
  <1>3. op2 \in [Clients -> TPOps]
    BY TPFields, TPKinds DEF TPOps
  <1>4. cre2 \in [Clients -> BOOLEAN]
    BY TPFields, TPKinds
  <1>5. pool2 \in Seq(SCBs)
    BY <1>0, TPFields, TPKinds
  <1>6. csem2 \in [Clients -> SCBs \union {None}]
    BY <1>0, TPFields, TPKinds
  <1>7. ssem2 \in [Clients -> SCBs \union {None}]
    BY <1>0, TPFields, TPKinds
  <1>8. hd2 \in [Clients -> TPHeader]
    BY <1>h, TPFields, TPKinds
  <1> HIDE DEF pc2, op2, cre2, pool2, csem2, ssem2, hd2
  <1>9. /\ SameXchg(tp', tp) /\ SameTPSS(tp', tp) /\ tp'.left = tp.left /\ tp'.open = tp.open
       /\ tp'.sound = tp.sound /\ tp'.stage = tp.stage /\ tp'.cnt = tp.cnt /\ tp'.spc = tp.spc
       /\ tp'.pc = pc2 /\ tp'.op = op2 /\ tp'.cre = cre2 /\ tp'.pool = pool2 /\ tp'.csem = csem2
       /\ tp'.ssem = ssem2 /\ tp'.hd = hd2
    BY <1>1 DEF TPortalType, SameSems, SameXchg, SameTPSS, SameTPCS
  <1>10. IsTP(tp')
    BY <1>1, IsTPType DEF IsTP
  <1>11. tp' \in TPortalType
    BY <1>2, <1>3, <1>4, <1>5, <1>6, <1>7, <1>8, <1>9, <1>10, TPFields, TPTyped DEF SameSems, SameXchg, SameTPSS, SameTPCS
  <1> QED BY <1>9, <1>11 DEF pc2, op2, cre2, pool2, csem2, ssem2, hd2

LEMMA OpenCreateOldIs ==
  ASSUME NEW c \in Clients, tp \in TPortalType, Handles(tp), OpenCreate(c), tp.csem[c] # None
  PROVE  /\ tp' \in TPortalType /\ SameSems(tp', tp) /\ SameXchg(tp', tp) /\ SameTPSS(tp', tp)
         /\ tp'.left = tp.left /\ tp'.open = tp.open /\ tp'.sound = tp.sound /\ tp'.stage = tp.stage
         /\ tp'.cnt = tp.cnt /\ tp'.spc = tp.spc
         /\ tp'.pc = [tp.pc EXCEPT ![c] = "load"]
         /\ tp'.op = [tp.op EXCEPT ![c] = "OPEN"]
         /\ tp'.cre = [tp.cre EXCEPT ![c] = FALSE]
         /\ tp'.hd = [tp.hd EXCEPT ![c] =
                  [cmd |-> "CLOSE", sod |-> FALSE, eod |-> FALSE, inc |-> FALSE, rqsz |-> 0,
                   csem |-> tp.csem[c], ssem |-> tp.ssem[c]]]
  <1> DEFINE pc2 == [tp.pc EXCEPT ![c] = "load"]
             op2 == [tp.op EXCEPT ![c] = "OPEN"]
             cre2 == [tp.cre EXCEPT ![c] = FALSE]
             hnew == [cmd |-> "CLOSE", sod |-> FALSE, eod |-> FALSE, inc |-> FALSE, rqsz |-> 0,
                   csem |-> tp.csem[c], ssem |-> tp.ssem[c]]
             hd2 == [tp.hd EXCEPT ![c] = hnew]
  <1>0. tp.csem[c] \in SCBs /\ tp.ssem[c] \in SCBs
    BY HandleFacts
  <1>h. hnew \in TPHeader
    BY <1>0, TPKinds DEF TPHeader
  <1>a. tp' = [tp EXCEPT !.pc[c] = "load", !.op[c] = "OPEN", !.cre[c] = FALSE, !.pool = tp.pool,
                         !.csem[c] = tp.csem[c], !.ssem[c] = tp.ssem[c], !.hd[c] = hnew]
    BY DEF OpenCreate
  <1>b. [tp.csem EXCEPT ![c] = tp.csem[c]] = tp.csem /\ [tp.ssem EXCEPT ![c] = tp.ssem[c]] = tp.ssem
    BY TPFields
  <1>c. tp' = [tp EXCEPT !.pc = pc2, !.op = op2, !.cre = cre2, !.pool = tp.pool,
                         !.csem = tp.csem, !.ssem = tp.ssem, !.hd = hd2]
    <2> HIDE DEF hnew
    <2> QED BY <1>a, <1>b DEF TPortalType
  <1>1. tp' = [tp EXCEPT !.pc = pc2, !.op = op2, !.cre = cre2, !.hd = hd2]
    BY <1>c, TPFields DEF TPortalType
  <1>2. pc2 \in [Clients -> TPPcs]
    BY TPFields, TPKinds DEF TPPcs
  <1>3. op2 \in [Clients -> TPOps]
    BY TPFields, TPKinds DEF TPOps
  <1>4. cre2 \in [Clients -> BOOLEAN]
    BY TPFields, TPKinds
  <1>5. hd2 \in [Clients -> TPHeader]
    BY <1>h, TPFields, TPKinds
  <1> HIDE DEF pc2, op2, cre2, hd2
  <1>6. /\ SameSems(tp', tp) /\ SameXchg(tp', tp) /\ SameTPSS(tp', tp) /\ tp'.left = tp.left
       /\ tp'.open = tp.open /\ tp'.sound = tp.sound /\ tp'.stage = tp.stage /\ tp'.cnt = tp.cnt
       /\ tp'.spc = tp.spc /\ tp'.pc = pc2 /\ tp'.op = op2 /\ tp'.cre = cre2 /\ tp'.hd = hd2
    BY <1>1 DEF TPortalType, SameSems, SameXchg, SameTPSS, SameTPCS
  <1>7. IsTP(tp')
    BY <1>1, IsTPType DEF IsTP
  <1>8. tp' \in TPortalType
    BY <1>2, <1>3, <1>4, <1>5, <1>6, <1>7, TPFields, TPTyped DEF SameSems, SameXchg, SameTPSS, SameTPCS
  <1> QED BY <1>6, <1>8 DEF pc2, op2, cre2, hd2

LEMMA OpenCreateOldKeeps ==
  ASSUME TPSound(tp), NEW c \in Clients, OpenCreate(c), tp.csem[c] # None
  PROVE  TPSound(tp')
  <1>1. /\ tp \in TPortalType /\ Handles(tp) /\ Serving(tp) /\ Promoted(tp) /\ Unopened(tp)
        /\ \A d \in Clients : About(tp, d)
        /\ tp.csem[c] # None
    BY DEF TPSound, OpenCreate, AtClient
  <1>2. /\ tp' \in TPortalType /\ SameSems(tp', tp) /\ SameXchg(tp', tp) /\ SameTPSS(tp', tp)
        /\ tp'.left = tp.left /\ tp'.open = tp.open /\ tp'.sound = tp.sound /\ tp'.stage = tp.stage
        /\ tp'.cnt = tp.cnt /\ tp'.spc = tp.spc
        /\ tp'.pc = [tp.pc EXCEPT ![c] = "load"]
        /\ tp'.op = [tp.op EXCEPT ![c] = "OPEN"]
        /\ tp'.cre = [tp.cre EXCEPT ![c] = FALSE]
        /\ tp'.hd = [tp.hd EXCEPT ![c] =
                 [cmd |-> "CLOSE", sod |-> FALSE, eod |-> FALSE, inc |-> FALSE, rqsz |-> 0,
                  csem |-> tp.csem[c], ssem |-> tp.ssem[c]]]
    BY <1>1, OpenCreateOldIs
  <1>3. \A d \in Clients : d # c => SameClient(tp', tp, d)
    BY <1>1, <1>2, TPFields DEF SameClient, SameCommand, SameSems, SameXchg, SameTPSS, SameTPCS
  <1>4. /\ tp'.pc[c] = "load" /\ tp'.op[c] = "OPEN" /\ tp'.left[c] = tp.left[c]
        /\ tp'.open[c] = tp.open[c] /\ tp'.csem[c] = tp.csem[c] /\ tp'.ssem[c] = tp.ssem[c]
        /\ tp'.sound[c] = tp.sound[c] /\ tp'.stage[c] = tp.stage[c]
        /\ tp'.hd[c].cmd = "CLOSE" /\ tp'.hd[c].csem = tp.csem[c] /\ tp'.hd[c].ssem = tp.ssem[c]
    <2>0. /\ tp'.pc = [tp.pc EXCEPT ![c] = "load"] /\ tp'.op = [tp.op EXCEPT ![c] = "OPEN"]
          /\ tp'.left = tp.left /\ tp'.open = tp.open /\ tp'.sound = tp.sound /\ tp'.stage = tp.stage
          /\ tp'.open = tp.open /\ tp'.sound = tp.sound /\ tp'.stage = tp.stage
          /\ tp'.csem = tp.csem /\ tp'.ssem = tp.ssem
          /\ tp'.sound = tp.sound /\ tp'.stage = tp.stage /\ tp'.stage = tp.stage
      BY <1>2 DEF SameSems, SameXchg, SameTPSS, SameTPCS
    <2>1. /\ tp.pc \in [Clients -> TPPcs] /\ tp.op \in [Clients -> TPOps]
          /\ tp.left \in [Clients -> 0..MaxBlocks] /\ tp.open \in [Clients -> BOOLEAN]
          /\ tp.csem \in [Clients -> SCBs \union {None}] /\ tp.ssem \in [Clients -> SCBs \union {None}]
          /\ tp.sound \in [Clients -> BOOLEAN] /\ tp.stage \in [Clients -> TPStages]
      BY <1>1, TPFields
    <2>2. /\ tp'.pc[c] = "load" /\ tp'.op[c] = "OPEN" /\ tp'.left[c] = tp.left[c]
          /\ tp'.open[c] = tp.open[c] /\ tp'.csem[c] = tp.csem[c] /\ tp'.ssem[c] = tp.ssem[c]
          /\ tp'.sound[c] = tp.sound[c] /\ tp'.stage[c] = tp.stage[c]
      BY <2>0, <2>1
    <2>3. tp.hd[c] \in TPHeader /\ tp.hd \in [Clients -> TPHeader]
      BY <1>1, TPFields
    <2>4. /\ tp'.hd[c].cmd = "CLOSE" /\ tp'.hd[c].csem = tp.csem[c] /\ tp'.hd[c].ssem = tp.ssem[c]
      BY <1>2, <2>3 DEF TPHeader
    <2> QED BY <2>2, <2>4
  <1>5. Handles(tp')
    <2>1. \A d \in Clients : tp.csem[d] = None => tp'.pc[d] = "idle"
      BY <1>1, <1>3, <1>4 DEF Handles, SameClient
    <2> QED BY <1>1, <1>2, <2>1, HandlesKept
  <1>6. Serving(tp')
    BY <1>1, <1>2, ServingKept DEF SameXchg, SameTPSS, Busy
  <1>7. Promoted(tp')
    <2>1. \A d \in Clients : Held(tp', d) => Held(tp, d)
      BY <1>1, <1>3, <1>4 DEF Held, SameClient, About, Header
    <2> QED BY <1>1, <1>2, <2>1, PromotedKept DEF SameTPSS
  <1>8. Unopened(tp')
    BY <1>1, <1>2 DEF Unopened, SameTPSS
  <1>9. \A d \in Clients : d # c => About(tp', d)
    <2> SUFFICES ASSUME NEW d \in Clients, d # c
                 PROVE  About(tp', d)
      OBVIOUS
    <2>2. tp'.cnt = tp.cnt
      BY <1>2
    <2>3. /\ Contains(tp'.queue, d) => Contains(tp.queue, d)
          /\ tp'.sess = tp.sess /\ tp'.sopen = tp.sopen
          /\ tp'.scsem = tp.scsem /\ tp'.sssem = tp.sssem /\ tp'.sz = tp.sz
      BY <1>2 DEF SameXchg, SameTPSS
    <2>4. tp'.spc = tp.spc
      BY <1>2
    <2> QED BY <1>1, <1>3, <2>2, <2>3, <2>4, AboutKept
  <1>10. Header(tp', c)
    BY <1>1, <1>2, <1>4, TPFields, TPKinds DEF About, Header, SameXchg, SameTPSS, Handles
  <1>11. ~Current(tp', c)
    BY <1>4 DEF Current
  <1> QED BY <1>1, <1>2, <1>5, <1>6, <1>7, <1>8, <1>9, <1>10, <1>11 DEF TPSound, About

LEMMA OpenCreateNewKeeps ==
  ASSUME TPSound(tp), NEW c \in Clients, OpenCreate(c), tp.csem[c] = None
  PROVE  TPSound(tp')
  <1>1. /\ tp \in TPortalType /\ Handles(tp) /\ Serving(tp) /\ Promoted(tp) /\ Unopened(tp)
        /\ \A d \in Clients : About(tp, d)
        /\ tp.pc[c] = "idle" /\ tp.csem[c] = None
    BY DEF TPSound, OpenCreate, AtClient
  <1>2. /\ tp' \in TPortalType /\ SameXchg(tp', tp) /\ SameTPSS(tp', tp) /\ tp'.left = tp.left
        /\ tp'.open = tp.open /\ tp'.sound = tp.sound /\ tp'.stage = tp.stage /\ tp'.cnt = tp.cnt
        /\ tp'.spc = tp.spc
        /\ tp'.pc = [tp.pc EXCEPT ![c] = "load"]
        /\ tp'.op = [tp.op EXCEPT ![c] = "OPEN"]
        /\ tp'.cre = [tp.cre EXCEPT ![c] = TRUE]
        /\ tp'.pool = SubSeq(tp.pool, 3, Len(tp.pool))
        /\ tp'.csem = [tp.csem EXCEPT ![c] = tp.pool[1]]
        /\ tp'.ssem = [tp.ssem EXCEPT ![c] = tp.pool[2]]
        /\ tp'.hd = [tp.hd EXCEPT ![c] =
                 [cmd |-> "CLOSE", sod |-> FALSE, eod |-> FALSE, inc |-> FALSE, rqsz |-> 0,
                  csem |-> tp.pool[1], ssem |-> tp.pool[2]]]
    BY <1>1, OpenCreateNewIs, Zenon
  <1>3. \A d \in Clients : d # c => SameClient(tp', tp, d)
    <2>1. /\ tp'.pc = [tp.pc EXCEPT ![c] = "load"] /\ tp'.op = [tp.op EXCEPT ![c] = "OPEN"]
          /\ tp'.left = tp.left
          /\ tp'.open = tp.open /\ tp'.sound = tp.sound /\ tp'.stage = tp.stage /\ tp'.cnt = tp.cnt
          /\ tp'.csem = [tp.csem EXCEPT ![c] = tp.pool[1]]
          /\ tp'.ssem = [tp.ssem EXCEPT ![c] = tp.pool[2]]
          /\ tp'.sound = tp.sound /\ tp'.stage = tp.stage /\ tp'.cnt = tp.cnt
          /\ tp'.stage = tp.stage /\ tp'.cnt = tp.cnt
      BY <1>2 DEF SameSems, SameXchg, SameTPSS, SameTPCS
    <2>2. \A d \in Clients : d # c => tp'.hd[d] = tp.hd[d]
      BY <1>1, <1>2, TPFields
    <2>3. /\ tp.pc \in [Clients -> TPPcs] /\ tp.op \in [Clients -> TPOps]
          /\ tp.left \in [Clients -> 0..MaxBlocks] /\ tp.open \in [Clients -> BOOLEAN]
          /\ tp.csem \in [Clients -> SCBs \union {None}] /\ tp.ssem \in [Clients -> SCBs \union {None}]
          /\ tp.sound \in [Clients -> BOOLEAN] /\ tp.stage \in [Clients -> TPStages]
      BY <1>1, TPFields
    <2> QED BY <2>1, <2>2, <2>3 DEF SameClient, SameCommand
  <1>4. /\ tp'.pc[c] = "load" /\ tp'.op[c] = "OPEN" /\ tp'.left[c] = tp.left[c]
        /\ tp'.open[c] = tp.open[c] /\ tp'.csem[c] = tp.pool[1] /\ tp'.ssem[c] = tp.pool[2]
        /\ tp'.sound[c] = tp.sound[c] /\ tp'.stage[c] = tp.stage[c]
        /\ tp'.hd[c].cmd = "CLOSE" /\ tp'.hd[c].csem = tp.pool[1] /\ tp'.hd[c].ssem = tp.pool[2]
    <2>0. /\ tp'.pc = [tp.pc EXCEPT ![c] = "load"] /\ tp'.op = [tp.op EXCEPT ![c] = "OPEN"]
          /\ tp'.left = tp.left
          /\ tp'.open = tp.open /\ tp'.sound = tp.sound /\ tp'.stage = tp.stage /\ tp'.cnt = tp.cnt
          /\ tp'.csem = [tp.csem EXCEPT ![c] = tp.pool[1]]
          /\ tp'.ssem = [tp.ssem EXCEPT ![c] = tp.pool[2]]
          /\ tp'.sound = tp.sound /\ tp'.stage = tp.stage /\ tp'.cnt = tp.cnt
          /\ tp'.stage = tp.stage /\ tp'.cnt = tp.cnt
      BY <1>2 DEF SameSems, SameXchg, SameTPSS, SameTPCS
    <2>1. /\ tp.pc \in [Clients -> TPPcs] /\ tp.op \in [Clients -> TPOps]
          /\ tp.left \in [Clients -> 0..MaxBlocks] /\ tp.open \in [Clients -> BOOLEAN]
          /\ tp.csem \in [Clients -> SCBs \union {None}] /\ tp.ssem \in [Clients -> SCBs \union {None}]
          /\ tp.sound \in [Clients -> BOOLEAN] /\ tp.stage \in [Clients -> TPStages]
      BY <1>1, TPFields
    <2>2. /\ tp'.pc[c] = "load" /\ tp'.op[c] = "OPEN" /\ tp'.left[c] = tp.left[c]
          /\ tp'.open[c] = tp.open[c] /\ tp'.csem[c] = tp.pool[1] /\ tp'.ssem[c] = tp.pool[2]
          /\ tp'.sound[c] = tp.sound[c] /\ tp'.stage[c] = tp.stage[c]
      BY <2>0, <2>1
    <2>3. tp.hd[c] \in TPHeader /\ tp.hd \in [Clients -> TPHeader]
      BY <1>1, TPFields
    <2>4. /\ tp'.hd[c].cmd = "CLOSE" /\ tp'.hd[c].csem = tp.pool[1] /\ tp'.hd[c].ssem = tp.pool[2]
      BY <1>2, <2>3 DEF TPHeader
    <2> QED BY <2>2, <2>4
  <1>5. Handles(tp')
    <2> DEFINE w == SubSeq(tp.pool, 3, Len(tp.pool))
               S == {d \in Clients : tp.csem[d] = None}
    <2>1. /\ Len(tp.pool) \in Nat /\ Len(tp.pool) >= 2 /\ tp.pool[1] \in SCBs /\ tp.pool[2] \in SCBs
          /\ tp.pool[1] # tp.pool[2]
          /\ Cardinality(S) \in Nat /\ Cardinality(S \ {c}) = Cardinality(S) - 1
      BY <1>1, PoolHasTwo
    <2>2. tp.pool \in Seq(SCBs) /\ Injective(tp.pool) /\ 2 * Cardinality(S) <= Len(tp.pool)
      BY <1>1, TPFields DEF Handles
    <2>3. /\ w \in Seq(SCBs) /\ Len(w) = Len(tp.pool) - 2
          /\ \A i \in 1..Len(w) : w[i] = tp.pool[i + 2]
      BY <2>1, <2>2
    <2>4. tp'.pool = w /\ tp'.csem[c] = tp.pool[1] /\ tp'.ssem[c] = tp.pool[2]
      BY <1>2, <1>4
    <2>5. \A d \in Clients : d # c => /\ tp'.csem[d] = tp.csem[d] /\ tp'.ssem[d] = tp.ssem[d]
                                     /\ tp'.pc[d] = tp.pc[d]
      BY <1>3 DEF SameClient
    <2>6. {d \in Clients : tp'.csem[d] = None} = S \ {c}
      BY <2>1, <2>4, <2>5, TPKinds
    <2> HIDE DEF w, S
    <2>7. Injective(w)
      <3> SUFFICES ASSUME NEW i \in 1..Len(w), NEW j \in 1..Len(w), w[i] = w[j]
                   PROVE  i = j
        BY DEF Injective
      <3>1. /\ i \in Int /\ j \in Int /\ i + 2 \in 1..Len(tp.pool) /\ j + 2 \in 1..Len(tp.pool)
            /\ tp.pool[i + 2] = tp.pool[j + 2]
        BY <2>1, <2>3
      <3>2. i + 2 = j + 2
        BY <2>2, <3>1 DEF Injective
      <3> QED BY <3>1, <3>2
    <2>8. \A u : Contains(w, u) => Contains(tp.pool, u)
      BY <2>1, <2>3 DEF Contains
    <2>9. Contains(tp.pool, tp.pool[1]) /\ Contains(tp.pool, tp.pool[2])
      BY <2>1 DEF Contains
    <2>10. ~Contains(w, tp.pool[1]) /\ ~Contains(w, tp.pool[2])
      <3>1. \A i \in 1..Len(w) : i + 2 \in 1..Len(tp.pool) /\ i + 2 # 1 /\ i + 2 # 2
        BY <2>1, <2>3
      <3>2. \A i \in 1..Len(tp.pool) : (tp.pool[i] = tp.pool[1] => i = 1) /\ (tp.pool[i] = tp.pool[2] => i = 2)
        BY <2>1, <2>2 DEF Injective
      <3> QED BY <2>3, <3>1, <3>2 DEF Contains
    <2>11. ASSUME NEW d \in Clients
           PROVE  IF tp'.csem[d] = None
                  THEN tp'.ssem[d] = None /\ tp'.pc[d] = "idle"
                  ELSE /\ tp'.ssem[d] # None /\ tp'.csem[d] # tp'.ssem[d]
                       /\ ~Contains(w, tp'.csem[d]) /\ ~Contains(w, tp'.ssem[d])
      <3>1. CASE d = c
        BY <2>1, <2>4, <2>10, <3>1, TPKinds
      <3>2. CASE d # c
        BY <1>1, <2>5, <2>8, <3>2 DEF Handles
      <3> QED BY <3>1, <3>2
    <2>12. ASSUME NEW d \in Clients, NEW e \in Clients, d # e, tp'.csem[d] # None, tp'.csem[e] # None
           PROVE  /\ tp'.csem[d] # tp'.csem[e] /\ tp'.csem[d] # tp'.ssem[e] /\ tp'.ssem[d] # tp'.ssem[e]
      <3>1. CASE d = c
        BY <1>1, <2>4, <2>5, <2>9, <2>12, <3>1 DEF Handles
      <3>2. CASE e = c
        BY <1>1, <2>4, <2>5, <2>9, <2>12, <3>2 DEF Handles
      <3>3. CASE d # c /\ e # c
        BY <1>1, <2>5, <2>12, <3>3 DEF Handles
      <3> QED BY <3>1, <3>2, <3>3
    <2>13. 2 * Cardinality(S \ {c}) <= Len(w)
      BY <2>1, <2>2, <2>3
    <2> QED BY <2>4, <2>6, <2>7, <2>11, <2>12, <2>13 DEF Handles
  <1>6. Serving(tp')
    BY <1>1, <1>2, ServingKept DEF SameXchg, SameTPSS, Busy
  <1>7. Promoted(tp')
    <2>1. \A d \in Clients : Held(tp', d) => Held(tp, d)
      BY <1>1, <1>3, <1>4 DEF Held, SameClient, About, Header
    <2> QED BY <1>1, <1>2, <2>1, PromotedKept DEF SameTPSS
  <1>8. Unopened(tp')
    BY <1>1, <1>2 DEF Unopened, SameTPSS
  <1>9. \A d \in Clients : d # c => About(tp', d)
    <2> SUFFICES ASSUME NEW d \in Clients, d # c
                 PROVE  About(tp', d)
      OBVIOUS
    <2>2. tp'.cnt = tp.cnt
      BY <1>2
    <2>3. /\ Contains(tp'.queue, d) => Contains(tp.queue, d)
          /\ tp'.sess = tp.sess /\ tp'.sopen = tp.sopen
          /\ tp'.scsem = tp.scsem /\ tp'.sssem = tp.sssem /\ tp'.sz = tp.sz
      BY <1>2 DEF SameXchg, SameTPSS
    <2>4. tp'.spc = tp.spc
      BY <1>2
    <2> QED BY <1>1, <1>3, <2>2, <2>3, <2>4, AboutKept
  <1>10. Header(tp', c)
    BY <1>1, <1>2, <1>4, TPFields, TPKinds DEF About, Header, SameXchg, SameTPSS, Handles
  <1>11. ~Current(tp', c)
    BY <1>4 DEF Current
  <1> QED BY <1>1, <1>2, <1>5, <1>6, <1>7, <1>8, <1>9, <1>10, <1>11 DEF TPSound, About

\* The semaphores of a client are deleted.
LEMMA CloseEndIs ==
  ASSUME NEW c \in Clients, tp \in TPortalType, Handles(tp), tp.csem[c] # None, tp.pc[c] # "wait",
         CloseEnd(c)
  PROVE  /\ tp' \in TPortalType /\ SameTPSS(tp', tp) /\ tp'.norm = tp.norm /\ tp'.mpri = tp.mpri
         /\ tp'.spri = tp.spri /\ tp'.queue = tp.queue /\ tp'.onr = tp.onr /\ tp'.bct = tp.bct
         /\ tp'.op = tp.op /\ tp'.cre = tp.cre /\ tp'.left = tp.left /\ tp'.hd = tp.hd
         /\ tp'.sound = tp.sound /\ tp'.stage = tp.stage
         /\ tp'.pc = [tp.pc EXCEPT ![c] = "idle"]
         /\ tp'.open = [tp.open EXCEPT ![c] = FALSE]
         /\ tp'.pri = [tp.pri EXCEPT ![c] = tp.norm[c]]
         /\ tp'.csem = [tp.csem EXCEPT ![c] = None]
         /\ tp'.ssem = [tp.ssem EXCEPT ![c] = None]
         /\ tp'.pool = <<tp.ssem[c]>> \o (<<tp.csem[c]>> \o tp.pool)
         /\ tp'.cnt = [[tp.cnt EXCEPT ![tp.csem[c]] = FALSE] EXCEPT ![tp.ssem[c]] = FALSE]
         /\ tp'.spc = IF tp.spc = "wait" /\ tp.sssem \in {tp.csem[c], tp.ssem[c]} THEN "lost" ELSE tp.spc
  <1> DEFINE cs == tp.csem[c]
             ss == tp.ssem[c]
             d1 == Deleted(tp, cs)
             d2 == Deleted(d1, ss)
             r == ClosedRecord(d2, c)
  <1>1. tp' = r
    <2> DEFINE z == [d2 EXCEPT !.pc[c] = "idle", !.open[c] = FALSE, !.pri[c] = d2.norm[c],
                               !.csem[c] = None, !.ssem[c] = None]
    <2>1. tp' = z
      BY DEF CloseEnd
    <2> HIDE DEF d2
    <2>2. z = ClosedRecord(d2, c)
      BY DEF ClosedRecord
    <2> QED BY <2>1, <2>2
  <1>2. /\ cs \in SCBs /\ ss \in SCBs /\ cs # ss /\ Live(tp, cs) /\ Live(tp, ss)
        /\ \A d \in Clients : d # c /\ tp.csem[d] # None => tp.csem[d] # cs /\ tp.csem[d] # ss
        /\ \A d \in Clients : tp.pc[d] = "wait" => tp.csem[d] # None
    BY HandleFacts
  <1>3. cs \in SCBs \union {None} /\ ss \in SCBs \union {None} /\ d1 = Deleted(tp, cs) /\ d2 = Deleted(d1, ss)
    BY <1>2
  <1>4. r = ClosedRecord(d2, c)
    OBVIOUS
  <1>0. cs = tp.csem[c] /\ ss = tp.ssem[c]
    OBVIOUS
  <1> HIDE DEF cs, ss, d1, d2, r
  <1>5. /\ d1 \in TPortalType /\ SameXchg(d1, tp) /\ SameTPSS(d1, tp) /\ SameTPCS(d1, tp)
        /\ d1.csem = tp.csem /\ d1.ssem = tp.ssem
        /\ d1.pool = <<cs>> \o tp.pool /\ d1.cnt = [tp.cnt EXCEPT ![cs] = FALSE]
        /\ \A d \in Clients : d1.pc[d] = IF d \in TPWaiters(tp, cs) THEN "failed" ELSE tp.pc[d]
        /\ d1.spc = IF Svr \in TPWaiters(tp, cs) THEN "lost" ELSE tp.spc
    <2>1. /\ d1 \in TPortalType /\ SameXchg(d1, tp) /\ SameTPSS(d1, tp) /\ SameTPCS(d1, tp)
          /\ d1.csem = tp.csem /\ d1.ssem = tp.ssem
          /\ d1.pool = IF Live(tp, cs) THEN <<cs>> \o tp.pool ELSE tp.pool
          /\ d1.cnt = IF Live(tp, cs) THEN [tp.cnt EXCEPT ![cs] = FALSE] ELSE tp.cnt
          /\ \A d \in Clients : d1.pc[d] = IF Live(tp, cs) /\ d \in TPWaiters(tp, cs)
                                           THEN "failed" ELSE tp.pc[d]
          /\ d1.spc = IF Live(tp, cs) /\ Svr \in TPWaiters(tp, cs) THEN "lost" ELSE tp.spc
      BY <1>3, DeletedIs
    <2> QED BY <1>2, <2>1
  <1>6. \A d \in Clients : d \notin TPWaiters(tp, cs)
    BY <1>0, <1>2, TPKinds DEF TPWaiters
  <1>7. Svr \in TPWaiters(tp, cs) <=> tp.spc = "wait" /\ tp.sssem = cs
    BY TPKinds DEF TPWaiters
  <1>8. d1.pc = tp.pc /\ d1.spc = IF tp.spc = "wait" /\ tp.sssem = cs THEN "lost" ELSE tp.spc
    <2>1. d1.pc \in [Clients -> TPPcs] /\ tp.pc \in [Clients -> TPPcs]
      BY <1>5, TPFields
    <2> QED BY <1>5, <1>6, <1>7, <2>1
  <1>9. Live(d1, ss)
    <2>1. tp.pool \in Seq(SCBs) /\ Injective(tp.pool) /\ ~Contains(tp.pool, cs)
      BY <1>0, TPFields DEF Handles
    <2>2. ~Contains(tp.pool, ss)
      BY <1>0 DEF Handles
    <2>3. /\ d1.pool \in Seq(SCBs)
          /\ \A u : Contains(d1.pool, u) <=> Contains(tp.pool, u) \/ u = cs
      BY <1>2, <1>5, <2>1, PrependContains
    <2>4. \A u : u \in Range(d1.pool) <=> Contains(d1.pool, u)
      BY <2>3, RangeContains
    <2> QED BY <1>2, <2>2, <2>3, <2>4 DEF Live
  <1>10. \A d \in Clients : d \notin TPWaiters(d1, ss)
    BY <1>0, <1>2, <1>5, <1>8, TPKinds DEF TPWaiters
  <1>11. Svr \in TPWaiters(d1, ss) <=> d1.spc = "wait" /\ tp.sssem = ss
    BY <1>5, TPKinds DEF TPWaiters, SameTPSS
  <1>12. /\ d2 \in TPortalType /\ SameXchg(d2, d1) /\ SameTPSS(d2, d1) /\ SameTPCS(d2, d1)
         /\ d2.csem = d1.csem /\ d2.ssem = d1.ssem
         /\ d2.pool = <<ss>> \o d1.pool /\ d2.cnt = [d1.cnt EXCEPT ![ss] = FALSE]
         /\ \A d \in Clients : d2.pc[d] = d1.pc[d]
         /\ d2.spc = IF Svr \in TPWaiters(d1, ss) THEN "lost" ELSE d1.spc
    <2>1. /\ d2 \in TPortalType /\ SameXchg(d2, d1) /\ SameTPSS(d2, d1) /\ SameTPCS(d2, d1)
          /\ d2.csem = d1.csem /\ d2.ssem = d1.ssem
          /\ d2.pool = IF Live(d1, ss) THEN <<ss>> \o d1.pool ELSE d1.pool
          /\ d2.cnt = IF Live(d1, ss) THEN [d1.cnt EXCEPT ![ss] = FALSE] ELSE d1.cnt
          /\ \A d \in Clients : d2.pc[d] = IF Live(d1, ss) /\ d \in TPWaiters(d1, ss)
                                           THEN "failed" ELSE d1.pc[d]
          /\ d2.spc = IF Live(d1, ss) /\ Svr \in TPWaiters(d1, ss) THEN "lost" ELSE d1.spc
      <3>1. d1 \in TPortalType /\ ss \in SCBs \union {None} /\ d2 = Deleted(d1, ss)
        BY <1>3, <1>5
      <3> QED BY <3>1, DeletedIs
    <2> QED BY <1>9, <1>10, <2>1
  <1>13. d2.pc = tp.pc
    <2>1. d2.pc \in [Clients -> TPPcs] /\ tp.pc \in [Clients -> TPPcs]
      BY <1>12, TPFields
    <2> QED BY <1>8, <1>12, <2>1
  <1>14. d2.spc = IF tp.spc = "wait" /\ tp.sssem \in {cs, ss} THEN "lost" ELSE tp.spc
    BY <1>2, <1>8, <1>11, <1>12
  <1>15. /\ r \in TPortalType /\ SameTPSS(r, d2) /\ r.pool = d2.pool /\ r.norm = d2.norm
         /\ r.mpri = d2.mpri /\ r.spri = d2.spri /\ r.queue = d2.queue /\ r.onr = d2.onr
         /\ r.bct = d2.bct /\ r.op = d2.op /\ r.cre = d2.cre /\ r.left = d2.left /\ r.hd = d2.hd
         /\ r.sound = d2.sound /\ r.stage = d2.stage /\ r.cnt = d2.cnt /\ r.spc = d2.spc
         /\ r.pc = [d2.pc EXCEPT ![c] = "idle"]
         /\ r.open = [d2.open EXCEPT ![c] = FALSE]
         /\ r.pri = [d2.pri EXCEPT ![c] = d2.norm[c]]
         /\ r.csem = [d2.csem EXCEPT ![c] = None]
         /\ r.ssem = [d2.ssem EXCEPT ![c] = None]
    <2>1. d2 \in TPortalType /\ r = ClosedRecord(d2, c)
      BY <1>4, <1>12
    <2>2. HasClosed(r, d2, c)
      BY <2>1, CloseEndMid
    <2> QED BY <2>2 DEF HasClosed
  <1>16. /\ SameTPSS(r, tp) /\ r.norm = tp.norm /\ r.mpri = tp.mpri
         /\ r.spri = tp.spri /\ r.queue = tp.queue /\ r.onr = tp.onr /\ r.bct = tp.bct
         /\ r.op = tp.op /\ r.cre = tp.cre /\ r.left = tp.left /\ r.hd = tp.hd
         /\ r.sound = tp.sound /\ r.stage = tp.stage
         /\ r.pc = [tp.pc EXCEPT ![c] = "idle"]
         /\ r.open = [tp.open EXCEPT ![c] = FALSE]
         /\ r.pri = [tp.pri EXCEPT ![c] = tp.norm[c]]
         /\ r.csem = [tp.csem EXCEPT ![c] = None]
         /\ r.ssem = [tp.ssem EXCEPT ![c] = None]
    BY <1>5, <1>12, <1>13, <1>15 DEF SameXchg, SameTPSS, SameTPCS
  <1>17. /\ r.pool = <<ss>> \o (<<cs>> \o tp.pool)
         /\ r.cnt = [[tp.cnt EXCEPT ![cs] = FALSE] EXCEPT ![ss] = FALSE]
    BY <1>5, <1>12, <1>15
  <1> QED BY <1>0, <1>1, <1>14, <1>15, <1>16, <1>17

LEMMA CloseEndKeeps ==
  ASSUME TPSound(tp), NEW c \in Clients, CloseEnd(c)
  PROVE  TPSound(tp')
  <1>1. /\ tp \in TPortalType /\ Handles(tp) /\ Serving(tp) /\ Promoted(tp) /\ Unopened(tp)
        /\ \A d \in Clients : About(tp, d)
        /\ tp.csem[c] # None /\ tp.pc[c] # "wait"
    BY DEF TPSound, CloseEnd, AtClient, Handles
  <1>2. /\ tp' \in TPortalType /\ SameTPSS(tp', tp) /\ tp'.norm = tp.norm /\ tp'.mpri = tp.mpri
        /\ tp'.spri = tp.spri /\ tp'.queue = tp.queue /\ tp'.onr = tp.onr /\ tp'.bct = tp.bct
        /\ tp'.op = tp.op /\ tp'.cre = tp.cre /\ tp'.left = tp.left /\ tp'.hd = tp.hd
        /\ tp'.sound = tp.sound /\ tp'.stage = tp.stage
        /\ tp'.pc = [tp.pc EXCEPT ![c] = "idle"]
        /\ tp'.open = [tp.open EXCEPT ![c] = FALSE]
        /\ tp'.pri = [tp.pri EXCEPT ![c] = tp.norm[c]]
        /\ tp'.csem = [tp.csem EXCEPT ![c] = None]
        /\ tp'.ssem = [tp.ssem EXCEPT ![c] = None]
        /\ tp'.pool = <<tp.ssem[c]>> \o (<<tp.csem[c]>> \o tp.pool)
        /\ tp'.cnt = [[tp.cnt EXCEPT ![tp.csem[c]] = FALSE] EXCEPT ![tp.ssem[c]] = FALSE]
        /\ tp'.spc = IF tp.spc = "wait" /\ tp.sssem \in {tp.csem[c], tp.ssem[c]} THEN "lost" ELSE tp.spc
    BY <1>1, CloseEndIs
  <1>3. \A d \in Clients : d # c => SameClient(tp', tp, d)
    <2>1. /\ tp'.pc = [tp.pc EXCEPT ![c] = "idle"]
          /\ tp'.op = tp.op /\ tp'.cre = tp.cre /\ tp'.left = tp.left /\ tp'.hd = tp.hd
          /\ tp'.left = tp.left /\ tp'.hd = tp.hd /\ tp'.open = [tp.open EXCEPT ![c] = FALSE]
          /\ tp'.csem = [tp.csem EXCEPT ![c] = None] /\ tp'.ssem = [tp.ssem EXCEPT ![c] = None]
          /\ tp'.sound = tp.sound /\ tp'.stage = tp.stage /\ tp'.stage = tp.stage
      BY <1>2 DEF SameSems, SameXchg, SameTPSS, SameTPCS
    <2>2. \A d \in Clients : d # c => tp'.hd[d] = tp.hd[d]
      BY <1>1, <1>2, TPFields
    <2>3. /\ tp.pc \in [Clients -> TPPcs] /\ tp.op \in [Clients -> TPOps]
          /\ tp.left \in [Clients -> 0..MaxBlocks] /\ tp.open \in [Clients -> BOOLEAN]
          /\ tp.csem \in [Clients -> SCBs \union {None}] /\ tp.ssem \in [Clients -> SCBs \union {None}]
          /\ tp.sound \in [Clients -> BOOLEAN] /\ tp.stage \in [Clients -> TPStages]
      BY <1>1, TPFields
    <2> QED BY <2>1, <2>2, <2>3 DEF SameClient, SameCommand
  <1>4. /\ tp'.pc[c] = "idle" /\ tp'.op[c] = tp.op[c] /\ tp'.left[c] = tp.left[c]
        /\ tp'.open[c] = FALSE /\ tp'.csem[c] = None /\ tp'.ssem[c] = None
        /\ tp'.sound[c] = tp.sound[c] /\ tp'.stage[c] = tp.stage[c]
        /\ tp'.hd[c].cmd = tp.hd[c].cmd /\ tp'.hd[c].sod = tp.hd[c].sod
        /\ tp'.hd[c].eod = tp.hd[c].eod /\ tp'.hd[c].rqsz = tp.hd[c].rqsz
        /\ tp'.hd[c].csem = tp.hd[c].csem /\ tp'.hd[c].ssem = tp.hd[c].ssem
    <2>0. /\ tp'.pc = [tp.pc EXCEPT ![c] = "idle"]
          /\ tp'.op = tp.op /\ tp'.cre = tp.cre /\ tp'.left = tp.left /\ tp'.hd = tp.hd
          /\ tp'.left = tp.left /\ tp'.hd = tp.hd /\ tp'.open = [tp.open EXCEPT ![c] = FALSE]
          /\ tp'.csem = [tp.csem EXCEPT ![c] = None] /\ tp'.ssem = [tp.ssem EXCEPT ![c] = None]
          /\ tp'.sound = tp.sound /\ tp'.stage = tp.stage /\ tp'.stage = tp.stage
      BY <1>2 DEF SameSems, SameXchg, SameTPSS, SameTPCS
    <2>1. /\ tp.pc \in [Clients -> TPPcs] /\ tp.op \in [Clients -> TPOps]
          /\ tp.left \in [Clients -> 0..MaxBlocks] /\ tp.open \in [Clients -> BOOLEAN]
          /\ tp.csem \in [Clients -> SCBs \union {None}] /\ tp.ssem \in [Clients -> SCBs \union {None}]
          /\ tp.sound \in [Clients -> BOOLEAN] /\ tp.stage \in [Clients -> TPStages]
      BY <1>1, TPFields
    <2>2. /\ tp'.pc[c] = "idle" /\ tp'.op[c] = tp.op[c] /\ tp'.left[c] = tp.left[c]
          /\ tp'.open[c] = FALSE /\ tp'.csem[c] = None /\ tp'.ssem[c] = None
          /\ tp'.sound[c] = tp.sound[c] /\ tp'.stage[c] = tp.stage[c]
      BY <2>0, <2>1
    <2>3. tp'.hd = tp.hd
      BY <1>2 DEF SameSems, SameXchg, SameTPSS, SameTPCS
    <2> QED BY <2>2, <2>3
  <1>5. Handles(tp')
    <2> DEFINE cs == tp.csem[c]
               ss == tp.ssem[c]
               v == <<cs>> \o tp.pool
               w == <<ss>> \o v
               S == {d \in Clients : tp.csem[d] = None}
    <2>1. /\ cs \in SCBs /\ ss \in SCBs /\ cs # ss
          /\ \A d \in Clients : d # c /\ tp.csem[d] # None =>
                tp.csem[d] # cs /\ tp.csem[d] # ss /\ tp.ssem[d] # cs /\ tp.ssem[d] # ss
      BY <1>1, HandleFacts
    <2>2. /\ tp.pool \in Seq(SCBs) /\ Injective(tp.pool) /\ 2 * Cardinality(S) <= Len(tp.pool)
          /\ ~Contains(tp.pool, cs) /\ ~Contains(tp.pool, ss)
      BY <1>1, TPFields DEF Handles
    <2>3. IsFiniteSet(S) /\ Cardinality(S) \in Nat /\ c \notin S
      <3>1. IsFiniteSet(S)
        BY TPKinds, FS_Subset
      <3> QED BY <1>1, <3>1, FS_CardinalityType
    <2>4. tp'.pool = w /\ tp'.csem[c] = None /\ tp'.ssem[c] = None /\ tp'.pc[c] = "idle"
      BY <1>2, <1>4
    <2>5. \A d \in Clients : d # c => /\ tp'.csem[d] = tp.csem[d] /\ tp'.ssem[d] = tp.ssem[d]
                                     /\ tp'.pc[d] = tp.pc[d]
      BY <1>3 DEF SameClient
    <2>6. {d \in Clients : tp'.csem[d] = None} = S \union {c}
      BY <2>4, <2>5
    <2>0. v = <<cs>> \o tp.pool /\ w = <<ss>> \o v
      OBVIOUS
    <2> HIDE DEF w, v, S, cs, ss
    <2>7. Cardinality(S \union {c}) = Cardinality(S) + 1
      BY <2>3, FS_AddElement
    <2>8. /\ v \in Seq(SCBs) /\ Injective(v) /\ \A u : Contains(v, u) <=> Contains(tp.pool, u) \/ u = cs
      BY <2>0, <2>1, <2>2, PrependContains
    <2>9. ~Contains(v, ss)
      <3>1. Contains(v, ss) <=> Contains(tp.pool, ss) \/ ss = cs
        BY <2>8
      <3>2. ~Contains(tp.pool, ss) /\ cs # ss
        BY <2>1, <2>2
      <3> QED BY <3>1, <3>2
    <2>10. /\ w \in Seq(SCBs) /\ Injective(w) /\ \A u : Contains(w, u) <=> Contains(v, u) \/ u = ss
      <3>1. w = <<ss>> \o v /\ v \in Seq(SCBs) /\ Injective(v) /\ ss \in SCBs /\ ~Contains(v, ss)
        BY <2>0, <2>1, <2>8, <2>9
      <3> QED BY <3>1, PrependContains
    <2>11. Len(w) = Len(tp.pool) + 2 /\ Len(tp.pool) \in Nat
      BY <2>0, <2>1, <2>2, <2>8
    <2>12. 2 * Cardinality(S \union {c}) <= Len(w)
      BY <2>2, <2>3, <2>7, <2>11
    <2>13. ASSUME NEW d \in Clients
           PROVE  IF tp'.csem[d] = None
                  THEN tp'.ssem[d] = None /\ tp'.pc[d] = "idle"
                  ELSE /\ tp'.ssem[d] # None /\ tp'.csem[d] # tp'.ssem[d]
                       /\ ~Contains(w, tp'.csem[d]) /\ ~Contains(w, tp'.ssem[d])
      <3>1. CASE d = c
        BY <2>4, <3>1
      <3>2. CASE d # c
        BY <1>1, <2>1, <2>5, <2>8, <2>10, <3>2 DEF Handles
      <3> QED BY <3>1, <3>2
    <2>14. ASSUME NEW d \in Clients, NEW e \in Clients, d # e, tp'.csem[d] # None, tp'.csem[e] # None
           PROVE  /\ tp'.csem[d] # tp'.csem[e] /\ tp'.csem[d] # tp'.ssem[e] /\ tp'.ssem[d] # tp'.ssem[e]
      <3>1. d # c /\ e # c
        BY <2>4, <2>14
      <3> QED BY <1>1, <2>5, <2>14, <3>1 DEF Handles
    <2> QED BY <2>4, <2>6, <2>10, <2>12, <2>13, <2>14 DEF Handles
  <1>6. Serving(tp')
    <2>1. /\ tp'.exists = tp.exists /\ tp'.onr = tp.onr /\ tp'.bct = tp.bct /\ tp'.queue = tp.queue
          /\ tp'.sess = tp.sess /\ tp'.direct = tp.direct /\ tp'.sz = tp.sz
          /\ tp'.spc = tp.spc \/ (tp.spc \in Busy /\ tp'.spc \in Busy \ {"recv"})
      BY <1>2 DEF SameTPSS, Busy
    <2> QED BY <1>1, <2>1, ServingKept
  <1>7. Promoted(tp')
    <2>1. \A d \in Clients : Held(tp', d) => Held(tp, d) /\ d # c
      BY <1>3, <1>4 DEF Held, SameClient
    <2>2. /\ tp'.norm = tp.norm /\ tp'.mpri = tp.mpri /\ tp'.spri = tp.spri /\ tp'.queue = tp.queue
          /\ tp'.onr = tp.onr /\ tp'.bct = tp.bct /\ tp'.sess = tp.sess /\ tp'.direct = tp.direct
      BY <1>2 DEF SameTPSS
    <2>3. \A d \in Clients : tp'.pri[d] = IF d = c THEN tp.norm[c] ELSE tp.pri[d]
      BY <1>1, <1>2, TPFields
    <2>4. \A d \in Clients : tp.norm[d] \in 0..TopPri /\ tp.pri[d] \in 0..TopPri
      BY <1>1, TPFields
    <2>5. \A d \in Clients : tp'.pri[d] >= tp'.norm[d]
      BY <1>1, <2>2, <2>3, <2>4, TPKinds DEF Promoted
    <2>6. ASSUME NEW s \in Clients, NEW d \in Clients, Above(tp, s, d), s # c
          PROVE  Above(tp', s, d)
      BY <2>2, <2>3, <2>6 DEF Above
    <2>7. ASSUME NEW s \in Clients, tp'.sess = s, tp'.direct, Held(tp', s)
          PROVE  /\ tp'.queue = <<>> => tp'.bct = s
                 /\ \A d \in Clients : tp'.queue = <<d>> => Above(tp', s, d)
      BY <1>1, <2>1, <2>2, <2>6, <2>7 DEF Promoted
    <2>8. /\ \A d \in Clients : Contains(tp'.queue, d) => tp'.mpri[d] >= tp'.norm[d]
          /\ tp'.onr /\ tp'.bct \in Clients => tp'.spri >= tp'.norm[tp'.bct]
      BY <1>1, <2>2 DEF Promoted
    <2> QED BY <2>5, <2>7, <2>8 DEF Promoted
  <1>8. Unopened(tp')
    BY <1>1, <1>2 DEF Unopened, SameTPSS
  <1>9. \A d \in Clients : d # c => About(tp', d)
    <2> SUFFICES ASSUME NEW d \in Clients, d # c
                 PROVE  About(tp', d)
      OBVIOUS
    <2>1. /\ tp.csem[c] \in SCBs /\ tp.ssem[c] \in SCBs
          /\ tp.csem[d] # None => /\ tp.csem[d] # tp.csem[c] /\ tp.csem[d] # tp.ssem[c]
                                /\ tp.ssem[d] # tp.csem[c] /\ tp.ssem[d] # tp.ssem[c]
                                /\ tp.csem[d] \in SCBs /\ tp.ssem[d] \in SCBs
      BY <1>1, HandleFacts
    <2>2. Current(tp, d) => /\ tp'.cnt[tp.csem[d]] = tp.cnt[tp.csem[d]]
                            /\ tp'.cnt[tp.ssem[d]] = tp.cnt[tp.ssem[d]]
      <3>1. tp.cnt \in [SCBs -> BOOLEAN]
        BY <1>1, TPFields
      <3>2. tp'.cnt = [[tp.cnt EXCEPT ![tp.csem[c]] = FALSE] EXCEPT ![tp.ssem[c]] = FALSE]
        BY <1>2
      <3>3. Current(tp, d) => tp.csem[d] # None
        BY DEF Current
      <3> QED BY <2>1, <3>1, <3>2, <3>3
    <2>3. /\ Contains(tp'.queue, d) => Contains(tp.queue, d)
          /\ tp'.sess = tp.sess /\ tp'.sopen = tp.sopen
          /\ tp'.scsem = tp.scsem /\ tp'.sssem = tp.sssem /\ tp'.sz = tp.sz
      BY <1>2 DEF SameTPSS
    <2>4. Current(tp, d) => tp'.spc = tp.spc \/ (tp.spc = "wait" /\ ~Tied(tp, d))
      BY <1>2, <2>1 DEF Current, Tied
    <2> QED BY <1>1, <1>3, <2>2, <2>3, <2>4, AboutKept
  <1>10. Header(tp', c)
    <2>1. tp.pc[c] = "close" \/ ~tp.exists
      BY DEF CloseEnd, AtClient
    <2>2. ~tp.exists => tp.sess = None /\ tp.queue = <<>>
      BY <1>1 DEF Serving, Busy
    <2>3. ~Contains(<<>>, c)
      BY DEF Contains
    <2>4. tp'.queue = tp.queue /\ tp'.sess = tp.sess
      BY <1>2 DEF SameTPSS
    <2> QED BY <1>1, <1>4, <2>1, <2>2, <2>3, <2>4, TPKinds DEF About, Header
  <1>11. ~Current(tp', c)
    BY <1>4 DEF Current
  <1> QED BY <1>1, <1>2, <1>5, <1>6, <1>7, <1>8, <1>9, <1>10, <1>11 DEF TPSound, About


-----------------------------------------------------------------------------
(* The client sends its message.                                           *)

LEMMA ClearsIs ==
  ASSUME NEW c \in Clients, tp \in TPortalType, Handles(tp), tp.pc[c] = "send",
         NEW p, p = ClearCsem(tp, c)
  PROVE  /\ p \in TPortalType /\ SameSems(p, tp) /\ SameXchg(p, tp) /\ SameTPSS(p, tp) /\ SameTPCS(p, tp)
         /\ p.pc = tp.pc
         /\ p.cnt = IF tp.cre[c] THEN tp.cnt ELSE [tp.cnt EXCEPT ![tp.csem[c]] = FALSE]
         /\ p.spc = IF ~tp.cre[c] /\ tp.spc = "wait" /\ tp.sssem = tp.csem[c] THEN "lost" ELSE tp.spc
  <1>1. CASE tp.cre[c]
    <2>1. p = tp
      BY <1>1 DEF ClearCsem
    <2> QED BY <1>1, <2>1 DEF SameSems, SameXchg, SameTPSS, SameTPCS
  <1>2. CASE ~tp.cre[c]
    <2> DEFINE s == tp.csem[c]
    <2>0. p = Cleared(tp, s)
      BY <1>2 DEF ClearCsem
    <2>1. tp.csem[c] # None
      BY DEF Handles
    <2>2. Live(tp, s) /\ \A d \in Clients : d \notin TPWaiters(tp, s)
      <3>1. /\ Live(tp, s) /\ \A d \in Clients : tp.pc[d] = "wait" => tp.csem[d] # None
            /\ \A d \in Clients : d # c /\ tp.csem[d] # None => tp.csem[d] # s
        BY <2>1, HandleFacts
      <3>2. \A d \in Clients : ~(tp.pc[d] = "wait" /\ tp.csem[d] = s)
        BY <3>1
      <3> QED BY <3>1, <3>2, TPKinds DEF TPWaiters
    <2>3. Svr \in TPWaiters(tp, s) <=> tp.spc = "wait" /\ tp.sssem = s
      BY TPKinds DEF TPWaiters
    <2>9. s = tp.csem[c]
      OBVIOUS
    <2> HIDE DEF s
    <2>4. /\ p \in TPortalType /\ SameSems(p, tp) /\ SameXchg(p, tp) /\ SameTPSS(p, tp) /\ SameTPCS(p, tp)
          /\ p.cnt = IF Live(tp, s) THEN [tp.cnt EXCEPT ![s] = FALSE] ELSE tp.cnt
          /\ \A d \in Clients : p.pc[d] = IF Live(tp, s) /\ d \in TPWaiters(tp, s)
                                          THEN "failed" ELSE tp.pc[d]
          /\ p.spc = IF Live(tp, s) /\ Svr \in TPWaiters(tp, s) THEN "lost" ELSE tp.spc
      <3>1. tp \in TPortalType /\ p = Cleared(tp, s)
        BY <2>0
      <3> QED BY ONLY <3>1, ClearedIs
    <2>5. p.pc = tp.pc
      <3>1. p.pc \in [Clients -> TPPcs] /\ tp.pc \in [Clients -> TPPcs]
        BY <2>4, TPFields
      <3> QED BY <2>2, <2>4, <3>1
    <2> QED BY <1>2, <2>2, <2>3, <2>4, <2>5, <2>9
  <1> QED BY <1>1, <1>2

SendRecord(p, c) == [p EXCEPT !.pc[c] = "test", !.cre[c] = FALSE, !.mpri[c] = p.pri[c],
                              !.sound[c] = AtRest(p, c), !.stage[c] = "none"]

HasSent(m, p, c) ==
    /\ m \in TPortalType /\ SameSems(m, p) /\ SameTPSS(m, p) /\ m.norm = p.norm
    /\ m.pri = p.pri /\ m.spri = p.spri /\ m.queue = p.queue /\ m.onr = p.onr /\ m.bct = p.bct
    /\ m.op = p.op /\ m.left = p.left /\ m.open = p.open /\ m.hd = p.hd /\ m.cnt = p.cnt
    /\ m.spc = p.spc
    /\ m.pc = [p.pc EXCEPT ![c] = "test"]
    /\ m.cre = [p.cre EXCEPT ![c] = FALSE]
    /\ m.mpri = [p.mpri EXCEPT ![c] = p.pri[c]]
    /\ m.sound = [p.sound EXCEPT ![c] = AtRest(p, c)]
    /\ m.stage = [p.stage EXCEPT ![c] = "none"]

LEMMA SendMid ==
  ASSUME NEW p \in TPortalType, NEW c \in Clients, NEW m, m = SendRecord(p, c)
  PROVE  HasSent(m, p, c)
  <1> DEFINE pc2 == [p.pc EXCEPT ![c] = "test"]
             cre2 == [p.cre EXCEPT ![c] = FALSE]
             mpri2 == [p.mpri EXCEPT ![c] = p.pri[c]]
             sound2 == [p.sound EXCEPT ![c] = AtRest(p, c)]
             stage2 == [p.stage EXCEPT ![c] = "none"]
  <1>0. AtRest(p, c) \in BOOLEAN
    BY DEF AtRest
  <1>1. m = [p EXCEPT !.pc = pc2, !.cre = cre2, !.mpri = mpri2, !.sound = sound2, !.stage = stage2]
    BY TPFields DEF SendRecord
  <1>2. pc2 \in [Clients -> TPPcs]
    BY TPFields, TPKinds DEF TPPcs
  <1>3. cre2 \in [Clients -> BOOLEAN]
    BY TPFields, TPKinds
  <1>4. mpri2 \in [Clients -> 0..TopPri]
    BY TPFields, TPKinds
  <1>5. sound2 \in [Clients -> BOOLEAN]
    BY <1>0, TPFields, TPKinds
  <1>6. stage2 \in [Clients -> TPStages]
    BY TPFields, TPKinds DEF TPStages
  <1> HIDE DEF pc2, cre2, mpri2, sound2, stage2
  <1>7. /\ SameSems(m, p) /\ SameTPSS(m, p) /\ m.norm = p.norm /\ m.pri = p.pri /\ m.spri = p.spri
       /\ m.queue = p.queue /\ m.onr = p.onr /\ m.bct = p.bct /\ m.op = p.op /\ m.left = p.left
       /\ m.open = p.open /\ m.hd = p.hd /\ m.cnt = p.cnt /\ m.spc = p.spc /\ m.pc = pc2
       /\ m.cre = cre2 /\ m.mpri = mpri2 /\ m.sound = sound2 /\ m.stage = stage2
    <2>1. /\ SameSems(m, p) /\ SameTPSS(m, p)
      BY <1>1 DEF TPortalType, SameSems, SameTPSS
    <2>2. /\ m.norm = p.norm /\ m.pri = p.pri /\ m.spri = p.spri /\ m.queue = p.queue
         /\ m.onr = p.onr /\ m.bct = p.bct /\ m.op = p.op /\ m.left = p.left
      BY <1>1 DEF TPortalType
    <2>3. /\ m.open = p.open /\ m.hd = p.hd /\ m.cnt = p.cnt /\ m.spc = p.spc /\ m.pc = pc2
         /\ m.cre = cre2 /\ m.mpri = mpri2 /\ m.sound = sound2 /\ m.stage = stage2
      BY <1>1 DEF TPortalType
    <2> QED BY <2>1, <2>2, <2>3
  <1>8. IsTP(m)
    BY <1>1, IsTPType DEF IsTP
  <1>9. m \in TPortalType
    BY <1>2, <1>3, <1>4, <1>5, <1>6, <1>7, <1>8, TPFields, TPTyped DEF SameSems, SameXchg, SameTPSS, SameTPCS
  <1> QED BY <1>7, <1>9 DEF HasSent, pc2, cre2, mpri2, sound2, stage2

HasTaken(r, p, c) ==
    /\ r \in TPortalType /\ SameSems(r, p) /\ SameTPCS(r, p) /\ r.norm = p.norm
    /\ r.pri = p.pri /\ r.mpri = p.mpri /\ r.queue = p.queue /\ r.exists = p.exists
    /\ r.sopen = p.sopen /\ r.scsem = p.scsem /\ r.sssem = p.sssem /\ r.sz = p.sz
    /\ r.cnt = p.cnt /\ r.pc = p.pc
    /\ r.spc = "got"
    /\ r.sess = c
    /\ r.direct = TRUE
    /\ r.bct = c
    /\ r.onr = TRUE
    /\ r.spri = p.mpri[c]

\* The server waits: it takes the message.
LEMMA SendDirectIs ==
  ASSUME NEW p \in TPortalType, NEW c \in Clients, p.exists, p.spc = "receive", NEW r, r = SendBound(p, c)
  PROVE  HasTaken(r, p, c)
  <1> DEFINE spc2 == "got"
             sess2 == c
             direct2 == TRUE
             bct2 == c
             onr2 == TRUE
             spri2 == p.mpri[c]
  <1>1. r = [p EXCEPT !.spc = spc2, !.sess = sess2, !.direct = direct2, !.bct = bct2, !.onr = onr2, !.spri = spri2]
    BY TPFields DEF SendBound
  <1>2. spc2 \in TPSpcs
    BY TPFields, TPKinds DEF TPSpcs, Busy
  <1>3. sess2 \in Clients \union {None}
    BY TPFields, TPKinds
  <1>4. direct2 \in BOOLEAN
    BY TPFields, TPKinds
  <1>5. bct2 \in Clients \union {Svr, None}
    BY TPFields, TPKinds
  <1>6. onr2 \in BOOLEAN
    BY TPFields, TPKinds
  <1>7. spri2 \in 0..TopPri
    BY TPFields, TPKinds
  <1> HIDE DEF spc2, sess2, direct2, bct2, onr2, spri2
  <1>8. /\ SameSems(r, p) /\ SameTPCS(r, p) /\ r.norm = p.norm /\ r.pri = p.pri /\ r.mpri = p.mpri
       /\ r.queue = p.queue /\ r.exists = p.exists /\ r.sopen = p.sopen /\ r.scsem = p.scsem
       /\ r.sssem = p.sssem /\ r.sz = p.sz /\ r.cnt = p.cnt /\ r.pc = p.pc /\ r.spc = spc2
       /\ r.sess = sess2 /\ r.direct = direct2 /\ r.bct = bct2 /\ r.onr = onr2 /\ r.spri = spri2
    <2>1. /\ SameSems(r, p) /\ SameTPCS(r, p)
      BY <1>1 DEF TPortalType, SameSems, SameTPCS
    <2>2. /\ r.norm = p.norm /\ r.pri = p.pri /\ r.mpri = p.mpri /\ r.queue = p.queue
         /\ r.exists = p.exists /\ r.sopen = p.sopen /\ r.scsem = p.scsem /\ r.sssem = p.sssem
      BY <1>1 DEF TPortalType
    <2>3. /\ r.sz = p.sz /\ r.cnt = p.cnt /\ r.pc = p.pc /\ r.spc = spc2 /\ r.sess = sess2
         /\ r.direct = direct2 /\ r.bct = bct2 /\ r.onr = onr2 /\ r.spri = spri2
      BY <1>1 DEF TPortalType
    <2> QED BY <2>1, <2>2, <2>3
  <1>9. IsTP(r)
    BY <1>1, IsTPType DEF IsTP
  <1>10. r \in TPortalType
    BY <1>2, <1>3, <1>4, <1>5, <1>6, <1>7, <1>8, <1>9, TPFields, TPTyped DEF SameSems, SameXchg, SameTPSS, SameTPCS
  <1> QED BY <1>8, <1>10 DEF HasTaken, spc2, sess2, direct2, bct2, onr2, spri2

\* The message is put into the queue.
LEMMA QueueMsgIs ==
  ASSUME NEW p \in TPortalType, Injective(p.queue), NEW c \in Clients, NEW r, r = QueueMsg(p, c)
  PROVE  /\ r \in TPortalType /\ SameSems(r, p) /\ SameTPSS(r, p) /\ SameTPCS(r, p)
         /\ r.norm = p.norm /\ r.pri = p.pri /\ r.mpri = p.mpri /\ r.spri = p.spri
         /\ r.onr = p.onr /\ r.bct = p.bct /\ r.cnt = p.cnt /\ r.pc = p.pc /\ r.spc = p.spc
         /\ Injective(r.queue) /\ r.queue # <<>>
         /\ \A u : Contains(r.queue, u) <=> Contains(p.queue, u) \/ u = c
         /\ \A d : r.queue = <<d>> => d = c /\ p.queue \in {<<>>, <<c>>}
  <1> DEFINE q == Without(p.queue, c)
             lower == {i \in DOMAIN q : p.mpri[q[i]] < p.mpri[c]}
             n == Min(lower \union {Len(q) + 1})
             w == InsertAt(q, n, c)
  <1>1. r = [p EXCEPT !.queue = w]
    BY DEF QueueMsg
  <1>2. p.queue \in Seq(Clients)
    BY TPFields
  <1>3. /\ q \in Seq(Clients) /\ Injective(q)
        /\ \A u : Contains(q, u) <=> Contains(p.queue, u) /\ u # c
        /\ ~Contains(p.queue, c) => q = p.queue
        /\ Contains(p.queue, c) /\ p.queue # <<c>> => q # <<>>
    BY <1>2, WithoutProperties
  <1> HIDE DEF q
  <1>4. n \in 1..Len(q) + 1
    <2> DEFINE S == lower \union {Len(q) + 1}
    <2>1. Len(q) \in Nat /\ DOMAIN q = 1..Len(q)
      BY <1>3
    <2>2. S \in SUBSET Nat /\ S # {} /\ Len(q) + 1 \in S /\ \A i \in S : i >= 1
      BY <2>1
    <2>3. n = Min(S)
      OBVIOUS
    <2> HIDE DEF S, n
    <2>4. n \in S /\ \A y \in S : n <= y
      BY <2>2, <2>3, MinProperties
    <2> QED BY <2>1, <2>2, <2>4
  <1> HIDE DEF n
  <1>5. /\ w \in Seq(Clients) /\ Injective(w)
        /\ \A u : Contains(w, u) <=> Contains(q, u) \/ u = c
        /\ Len(w) = Len(q) + 1
    <2>1. q \in Seq(Clients) /\ Injective(q) /\ ~Contains(q, c)
      BY <1>3
    <2>2. w = InsertAt(q, n, c)
      OBVIOUS
    <2> HIDE DEF w
    <2>3. w \in Seq(Clients) /\ Injective(w) /\ \A u : Contains(w, u) <=> Contains(q, u) \/ u = c
      BY <1>4, <2>1, <2>2, InsertContains
    <2>4. Len(w) = Len(q) + 1
      BY <1>4, <2>1, <2>2, InsertAtProperties
    <2> QED BY <2>3, <2>4
  <1> HIDE DEF w
  <1>6. \A u : Contains(w, u) <=> Contains(p.queue, u) \/ u = c
    BY <1>3, <1>5
  <1>7. w # <<>>
    BY <1>3, <1>5
  <1>8. ASSUME NEW d, w = <<d>>
        PROVE  d = c /\ p.queue \in {<<>>, <<c>>}
    <2>1. Contains(w, c) /\ Len(w) = 1
      BY <1>5, <1>8
    <2>2. d = c
      BY <1>8, <2>1 DEF Contains
    <2>3. q = <<>>
      BY <1>3, <1>5, <2>1
    <2> QED BY <1>3, <2>2, <2>3
  <1>9. /\ SameSems(r, p) /\ SameTPSS(r, p) /\ SameTPCS(r, p)
        /\ r.norm = p.norm /\ r.pri = p.pri /\ r.mpri = p.mpri /\ r.spri = p.spri
        /\ r.onr = p.onr /\ r.bct = p.bct /\ r.cnt = p.cnt /\ r.pc = p.pc /\ r.spc = p.spc
        /\ r.queue = w
    BY <1>1 DEF TPortalType, SameSems, SameTPSS, SameTPCS
  <1>10. IsTP(r)
    BY <1>1, IsTPType DEF IsTP
  <1>11. r \in TPortalType
    BY <1>5, <1>9, <1>10, TPFields, TPTyped DEF SameSems, SameTPSS, SameTPCS
  <1> QED BY <1>5, <1>6, <1>7, <1>8, <1>9, <1>11

\* The priority that the server takes from the message of c.
ServerPri(p, c) == IF p.onr THEN Max({p.spri, p.mpri[c]}) ELSE p.spri

LEMMA ServerPriIs ==
  ASSUME NEW p \in TPortalType, NEW c \in Clients
  PROVE  /\ ServerPri(p, c) \in 0..TopPri
         /\ p.onr => ServerPri(p, c) >= p.spri /\ ServerPri(p, c) >= p.mpri[c]
                     /\ ServerPri(p, c) \in {p.spri, p.mpri[c]}
         /\ ~p.onr => ServerPri(p, c) = p.spri
  <1>1. p.spri \in 0..TopPri /\ p.mpri[c] \in 0..TopPri
    BY TPFields
  <1>2. p.spri \in Nat /\ p.mpri[c] \in Nat
    BY <1>1, TPKinds
  <1>3. Max({p.spri, p.mpri[c]}) = IF p.spri >= p.mpri[c] THEN p.spri ELSE p.mpri[c]
    BY <1>2, MaxOfTwo
  <1> QED BY <1>1, <1>2, <1>3 DEF ServerPri

\* The server takes the priority of the message, and the bound client that of the server.
LEMMA PromoteServerIs ==
  ASSUME NEW p \in TPortalType, NEW c \in Clients, NEW r, r = PromoteServer(p, c)
  PROVE  /\ r \in TPortalType /\ SameSems(r, p) /\ SameTPSS(r, p) /\ SameTPCS(r, p)
         /\ r.norm = p.norm /\ r.mpri = p.mpri /\ r.queue = p.queue /\ r.onr = p.onr
         /\ r.bct = p.bct /\ r.cnt = p.cnt /\ r.pc = p.pc /\ r.spc = p.spc
         /\ r.pri = [d \in Clients |-> IF d = p.bct THEN ServerPri(p, c) ELSE p.pri[d]]
         /\ r.spri = ServerPri(p, c)
  <1> DEFINE pri2 == [d \in Clients |-> IF d = p.bct THEN ServerPri(p, c) ELSE p.pri[d]]
             spri2 == ServerPri(p, c)
  <1>0. ServerPri(p, c) \in 0..TopPri
    BY ServerPriIs
  <1>1. r = [p EXCEPT !.pri = pri2, !.spri = spri2]
    BY TPFields DEF PromoteServer, ServerPri
  <1>2. pri2 \in [Clients -> 0..TopPri]
    BY <1>0, TPFields, TPKinds
  <1>3. spri2 \in 0..TopPri
    BY <1>0, TPFields, TPKinds
  <1> HIDE DEF pri2, spri2
  <1>4. /\ SameSems(r, p) /\ SameTPSS(r, p) /\ SameTPCS(r, p) /\ r.norm = p.norm /\ r.mpri = p.mpri
       /\ r.queue = p.queue /\ r.onr = p.onr /\ r.bct = p.bct /\ r.cnt = p.cnt /\ r.pc = p.pc
       /\ r.spc = p.spc /\ r.pri = pri2 /\ r.spri = spri2
    BY <1>1 DEF TPortalType, SameSems, SameXchg, SameTPSS, SameTPCS
  <1>5. IsTP(r)
    BY <1>1, IsTPType DEF IsTP
  <1>6. r \in TPortalType
    BY <1>2, <1>3, <1>4, <1>5, TPFields, TPTyped DEF SameSems, SameXchg, SameTPSS, SameTPCS
  <1> QED BY <1>4, <1>6 DEF pri2, spri2

BoundRecord(p, c, x) == [p EXCEPT !.bct = c, !.pri[c] = x]

LEMMA BoundIs ==
  ASSUME NEW p \in TPortalType, NEW c \in Clients, NEW x \in 0..TopPri, NEW r, r = BoundRecord(p, c, x)
  PROVE  /\ r \in TPortalType /\ SameSems(r, p) /\ SameTPSS(r, p) /\ SameTPCS(r, p)
         /\ r.norm = p.norm /\ r.mpri = p.mpri /\ r.spri = p.spri /\ r.queue = p.queue
         /\ r.onr = p.onr /\ r.cnt = p.cnt /\ r.pc = p.pc /\ r.spc = p.spc
         /\ r.bct = c
         /\ r.pri = [p.pri EXCEPT ![c] = x]
  <1> DEFINE bct2 == c
             pri2 == [p.pri EXCEPT ![c] = x]
  <1>1. r = [p EXCEPT !.bct = bct2, !.pri = pri2]
    BY TPFields DEF BoundRecord
  <1>2. bct2 \in Clients \union {Svr, None}
    BY TPFields, TPKinds
  <1>3. pri2 \in [Clients -> 0..TopPri]
    BY TPFields, TPKinds
  <1> HIDE DEF bct2, pri2
  <1>4. /\ SameSems(r, p) /\ SameTPSS(r, p) /\ SameTPCS(r, p) /\ r.norm = p.norm /\ r.mpri = p.mpri
       /\ r.spri = p.spri /\ r.queue = p.queue /\ r.onr = p.onr /\ r.cnt = p.cnt /\ r.pc = p.pc
       /\ r.spc = p.spc /\ r.bct = bct2 /\ r.pri = pri2
    BY <1>1 DEF TPortalType, SameSems, SameXchg, SameTPSS, SameTPCS
  <1>5. IsTP(r)
    BY <1>1, IsTPType DEF IsTP
  <1>6. r \in TPortalType
    BY <1>2, <1>3, <1>4, <1>5, TPFields, TPTyped DEF SameSems, SameXchg, SameTPSS, SameTPCS
  <1> QED BY <1>4, <1>6 DEF bct2, pri2

\* Client c has filled in its message.
Sending(m, c) ==
    /\ m \in TPortalType /\ Handles(m) /\ Serving(m) /\ Unopened(m)
    /\ \A d \in Clients : About(m, d)
    /\ m.op[c] = "OPEN" /\ m.pc[c] = "test" /\ m.csem[c] # None /\ m.mpri[c] = m.pri[c]
    /\ Current(m, c) => m.sess # c /\ ~m.cnt[m.csem[c]]
    /\ m.bct = None \/ m.onr \/ ~m.exists
    /\ \A d \in Clients : m.pri[d] >= m.norm[d]
    /\ \A d \in Clients : Contains(m.queue, d) => m.mpri[d] >= m.norm[d]
    /\ m.onr /\ m.bct \in Clients => m.spri >= m.norm[m.bct]
    /\ \A s \in Clients : s # c /\ m.sess = s /\ m.direct /\ Held(m, s) =>
          /\ m.queue = <<>> => m.bct = s
          /\ \A d \in Clients : m.queue = <<d>> => Above(m, s, d)

LEMMA SendBegins ==
  ASSUME TPSound(tp), NEW c \in Clients, OpenSend(c)
  PROVE  \E m : Sending(m, c) /\ tp' = SendBound(m, c)
  <1> DEFINE p == ClearCsem(tp, c)
             m == SendRecord(p, c)
  <1>1. /\ tp \in TPortalType /\ Handles(tp) /\ Serving(tp) /\ Promoted(tp) /\ Unopened(tp)
        /\ \A d \in Clients : About(tp, d)
        /\ tp.pc[c] = "send" /\ (tp.bct = None \/ tp.onr \/ ~tp.exists)
    BY DEF TPSound, OpenSend, AtClient
  <1>2. tp' = SendBound(m, c)
    BY DEF OpenSend, SendRecord
  <1>3. /\ p \in TPortalType /\ SameSems(p, tp) /\ SameXchg(p, tp) /\ SameTPSS(p, tp) /\ SameTPCS(p, tp)
        /\ p.pc = tp.pc
        /\ p.cnt = IF tp.cre[c] THEN tp.cnt ELSE [tp.cnt EXCEPT ![tp.csem[c]] = FALSE]
        /\ p.spc = IF ~tp.cre[c] /\ tp.spc = "wait" /\ tp.sssem = tp.csem[c] THEN "lost" ELSE tp.spc
    BY <1>1, ClearsIs
  <1>4. m = SendRecord(p, c)
    OBVIOUS
  <1> HIDE DEF p, m
  <1>5. HasSent(m, p, c)
    BY <1>3, <1>4, SendMid
  <1>6. m \in TPortalType
    BY <1>5 DEF HasSent
  <1>7. /\ SameSems(m, tp) /\ SameTPSS(m, tp) /\ m.norm = tp.norm
        /\ m.pri = tp.pri /\ m.spri = tp.spri /\ m.queue = tp.queue /\ m.onr = tp.onr /\ m.bct = tp.bct
        /\ m.op = tp.op /\ m.left = tp.left /\ m.open = tp.open /\ m.hd = tp.hd /\ m.cnt = p.cnt
        /\ m.spc = p.spc
        /\ m.pc = [tp.pc EXCEPT ![c] = "test"]
        /\ m.mpri = [tp.mpri EXCEPT ![c] = tp.pri[c]]
        /\ m.sound = [tp.sound EXCEPT ![c] = AtRest(p, c)]
        /\ m.stage = [tp.stage EXCEPT ![c] = "none"]
    BY <1>3, <1>5 DEF HasSent, SameSems, SameXchg, SameTPSS, SameTPCS
  <1>8. /\ \A d \in Clients : m.pc[d] = IF d = c THEN "test" ELSE tp.pc[d]
        /\ \A d \in Clients : m.mpri[d] = IF d = c THEN tp.pri[c] ELSE tp.mpri[d]
        /\ \A d \in Clients : d # c => m.sound[d] = tp.sound[d] /\ m.stage[d] = tp.stage[d]
        /\ m.sound[c] = AtRest(p, c)
    <2>1. /\ tp.pc \in [Clients -> TPPcs] /\ tp.mpri \in [Clients -> 0..TopPri]
          /\ tp.sound \in [Clients -> BOOLEAN] /\ tp.stage \in [Clients -> TPStages]
      BY <1>1, TPFields
    <2>2. /\ m.pc = [tp.pc EXCEPT ![c] = "test"]
          /\ m.mpri = [tp.mpri EXCEPT ![c] = tp.pri[c]]
          /\ m.sound = [tp.sound EXCEPT ![c] = AtRest(p, c)]
          /\ m.stage = [tp.stage EXCEPT ![c] = "none"]
      BY <1>7
    <2> QED BY <2>1, <2>2
  <1>9. tp.csem[c] # None
    BY <1>1 DEF Handles
  <1>10. Handles(m)
    <2>1. \A d \in Clients : tp.csem[d] = None => m.pc[d] = "idle"
      BY <1>1, <1>8, <1>9 DEF Handles
    <2> QED BY <1>1, <1>7, <2>1, HandlesKept
  <1>11. Serving(m)
    <2>1. /\ m.exists = tp.exists /\ m.onr = tp.onr /\ m.bct = tp.bct /\ m.queue = tp.queue
          /\ m.sess = tp.sess /\ m.direct = tp.direct /\ m.sz = tp.sz
          /\ m.spc = tp.spc \/ (tp.spc \in Busy /\ m.spc \in Busy \ {"recv"})
      BY <1>3, <1>7 DEF SameTPSS, Busy
    <2> QED BY <1>1, <2>1, ServingKept
  <1>12. Unopened(m)
    BY <1>1, <1>3, <1>7 DEF Unopened, SameTPSS
  <1>13. /\ tp.csem[c] \in SCBs /\ tp.ssem[c] \in SCBs /\ tp.csem[c] # tp.ssem[c]
         /\ \A d \in Clients : d # c /\ tp.csem[d] # None =>
               /\ tp.csem[d] # tp.csem[c] /\ tp.csem[d] # tp.ssem[c]
               /\ tp.ssem[d] # tp.csem[c] /\ tp.ssem[d] # tp.ssem[c]
               /\ tp.csem[d] \in SCBs /\ tp.ssem[d] \in SCBs
    BY <1>1, <1>9, HandleFacts
  <1>14. ASSUME NEW d \in Clients, d # c
         PROVE  About(m, d)
    <2>1. SameClient(m, tp, d)
      BY <1>7, <1>8, <1>14 DEF SameClient, SameCommand, SameSems
    <2>2. Current(tp, d) => /\ m.cnt[tp.csem[d]] = tp.cnt[tp.csem[d]]
                            /\ m.cnt[tp.ssem[d]] = tp.cnt[tp.ssem[d]]
      <3>1. tp.cnt \in [SCBs -> BOOLEAN]
        BY <1>1, TPFields
      <3>2. m.cnt = tp.cnt \/ m.cnt = [tp.cnt EXCEPT ![tp.csem[c]] = FALSE]
        BY <1>3, <1>7
      <3>3. Current(tp, d) => tp.csem[d] # None
        BY DEF Current
      <3> QED BY <1>13, <1>14, <3>1, <3>2, <3>3
    <2>3. /\ Contains(m.queue, d) => Contains(tp.queue, d)
          /\ m.sess = tp.sess /\ m.sopen = tp.sopen
          /\ m.scsem = tp.scsem /\ m.sssem = tp.sssem /\ m.sz = tp.sz
      BY <1>7 DEF SameTPSS
    <2>4. Current(tp, d) => m.spc = tp.spc \/ (tp.spc = "wait" /\ ~Tied(tp, d))
      BY <1>3, <1>7, <1>13, <1>14 DEF Current, Tied
    <2> QED BY <1>1, <2>1, <2>2, <2>3, <2>4, AboutKept
  <1>15. /\ m.pc[c] = "test" /\ m.op[c] = "OPEN" /\ m.csem[c] # None /\ m.mpri[c] = m.pri[c]
         /\ m.hd[c].cmd = "OPEN" /\ m.hd[c].csem = m.csem[c] /\ m.hd[c].ssem = m.ssem[c]
    <2>1. Header(tp, c)
      BY <1>1 DEF About
    <2>2. /\ tp.op[c] = "OPEN" /\ tp.hd[c].cmd = "OPEN"
          /\ tp.hd[c].csem = tp.csem[c] /\ tp.hd[c].ssem = tp.ssem[c]
      BY <1>1, <2>1 DEF Header
    <2> QED BY <1>7, <1>8, <1>9, <2>2 DEF SameSems
  <1>16. Header(m, c)
    BY <1>15 DEF Header
  <1>17. Current(m, c) => /\ m.sess # c /\ ~m.open[c] /\ Quiet(m, c) /\ Loose(m, c)
    <2> SUFFICES ASSUME Current(m, c)
                 PROVE  m.sess # c /\ ~m.open[c] /\ Quiet(m, c) /\ Loose(m, c)
      OBVIOUS
    <2>1. AtRest(p, c)
      BY <1>8 DEF Current
    <2>2. /\ p.open = tp.open /\ p.cre = tp.cre /\ p.csem = tp.csem /\ p.ssem = tp.ssem
          /\ p.scsem = tp.scsem /\ p.sssem = tp.sssem /\ p.hd = tp.hd /\ p.sess = tp.sess
      BY <1>3 DEF SameSems, SameTPSS, SameTPCS
    <2>3. /\ ~tp.open[c] /\ (tp.cre[c] => ~p.cnt[tp.csem[c]]) /\ ~p.cnt[tp.ssem[c]]
          /\ tp.csem[c] \notin InUse(p) /\ tp.ssem[c] \notin InUse(p)
      BY <2>1, <2>2 DEF AtRest
    <2>4. ~p.cnt[tp.csem[c]]
      <3>1. tp.cnt \in [SCBs -> BOOLEAN]
        BY <1>1, TPFields
      <3>2. ~tp.cre[c] => p.cnt = [tp.cnt EXCEPT ![tp.csem[c]] = FALSE]
        BY <1>3
      <3> QED BY <1>13, <2>3, <3>1, <3>2
    <2>5. tp.csem[c] # tp.scsem /\ tp.csem[c] # tp.sssem /\ tp.ssem[c] # tp.scsem /\ tp.ssem[c] # tp.sssem
      BY <1>13, <2>2, <2>3, TPKinds DEF InUse
    <2>6. tp.sess # c
      <3>1. tp.hd[c].csem = tp.csem[c]
        BY <1>7, <1>15 DEF SameSems
      <3> QED BY <1>13, <2>2, <2>3, <3>1, TPKinds DEF InUse
    <2> QED BY <1>7, <2>3, <2>4, <2>5, <2>6 DEF Quiet, Loose, SameSems, SameTPSS
  <1>18. Current(m, c) => Matched(m, c)
    <2> SUFFICES ASSUME Current(m, c)
                 PROVE  Matched(m, c)
      OBVIOUS
    <2>1. Opening(m, c)
      BY <1>15, <1>17 DEF Opening, Quiet
    <2>2. Ready(m, c)
      BY <1>15, <1>17 DEF Ready, Resting
    <2>3. Asked(m, c) /\ Passed(m, c)
      BY <1>15 DEF Asked, Passed
    <2> QED BY <1>17, <2>1, <2>2, <2>3 DEF Matched
  <1>19. \A d \in Clients : About(m, d)
    BY <1>14, <1>16, <1>18 DEF About
  <1>20. \A d \in Clients : m.pri[d] >= m.norm[d]
    BY <1>1, <1>7 DEF Promoted
  <1>21. \A d \in Clients : Contains(m.queue, d) => m.mpri[d] >= m.norm[d]
    BY <1>1, <1>7, <1>8 DEF Promoted
  <1>22. m.onr /\ m.bct \in Clients => m.spri >= m.norm[m.bct]
    BY <1>1, <1>7 DEF Promoted
  <1>23. ASSUME NEW s \in Clients, s # c, m.sess = s, m.direct, Held(m, s)
         PROVE  /\ m.queue = <<>> => m.bct = s
                /\ \A d \in Clients : m.queue = <<d>> => Above(m, s, d)
    <2>1. tp.sess = s /\ tp.direct /\ Held(tp, s)
      BY <1>7, <1>8, <1>23 DEF Held, SameTPSS
    <2>2. /\ tp.queue = <<>> => tp.bct = s
          /\ \A d \in Clients : tp.queue = <<d>> => Above(tp, s, d)
      BY <1>1, <2>1 DEF Promoted
    <2>3. ASSUME NEW d \in Clients, Above(tp, s, d)
          PROVE  Above(m, s, d)
      BY <1>7, <1>8, <1>23, <2>3 DEF Above
    <2> QED BY <1>7, <2>2, <2>3
  <1>24. m.bct = None \/ m.onr \/ ~m.exists
    BY <1>1, <1>7 DEF SameTPSS
  <1>25. Current(m, c) => m.sess # c /\ ~m.cnt[m.csem[c]]
    BY <1>17 DEF Quiet
  <1>26. Sending(m, c)
    BY <1>6, <1>10, <1>11, <1>12, <1>15, <1>19, <1>20, <1>21, <1>22, <1>23, <1>24, <1>25 DEF Sending
  <1> QED BY <1>2, <1>26

\* A client is in session, or in the queue, with the message that it has sent.
LEMMA SentAbout ==
  ASSUME NEW m, NEW c \in Clients, Sending(m, c), NEW r, SameTPCS(r, m), SameSems(r, m),
         r.pc = m.pc, r.cnt = m.cnt,
         \/ r.sess = m.sess /\ r.spc = m.spc
         \/ r.sess = c /\ r.spc = "got" /\ ~Contains(r.queue, c) /\ Unopened(r) /\ m.sess = None,
         r.sopen = m.sopen, r.scsem = m.scsem, r.sssem = m.sssem, r.sz = m.sz,
         \A u : Contains(r.queue, u) => Contains(m.queue, u) \/ u = c
  PROVE  \A d \in Clients : About(r, d)
  <1>1. /\ m \in TPortalType /\ Handles(m) /\ \A d \in Clients : About(m, d)
        /\ m.op[c] = "OPEN" /\ m.pc[c] = "test" /\ m.csem[c] # None
        /\ Current(m, c) => m.sess # c /\ ~m.cnt[m.csem[c]]
    BY DEF Sending
  <1>2. ASSUME NEW d \in Clients, d # c
        PROVE  About(r, d)
    <2>1. SameClient(r, m, d)
      BY DEF SameClient, SameCommand, SameTPCS, SameSems
    <2>2. /\ Contains(r.queue, d) => Contains(m.queue, d)
          /\ r.sess = d => m.sess = d
      BY <1>2
    <2>3. Current(m, d) =>
            \/ r.sess # d /\ Loose(r, d)
            \/ /\ r.sess = m.sess /\ r.sopen = m.sopen /\ r.scsem = m.scsem /\ r.sssem = m.sssem
               /\ r.sz = m.sz
               /\ r.spc = m.spc \/ (m.spc = "wait" /\ ~Tied(m, d))
      <3> SUFFICES ASSUME Current(m, d), ~(r.sess = m.sess /\ r.spc = m.spc)
                   PROVE  r.sess # d /\ Loose(r, d)
        OBVIOUS
      <3>1. r.sess = c /\ r.scsem = None /\ r.sssem = None
        BY DEF Unopened
      <3>2. r.csem[d] # None /\ r.ssem[d] # None
        BY <1>1 DEF Current, Handles, SameSems
      <3> QED BY <1>2, <3>1, <3>2 DEF Loose
    <2>4. Current(m, d) => r.cnt[m.csem[d]] = m.cnt[m.csem[d]] /\ r.cnt[m.ssem[d]] = m.cnt[m.ssem[d]]
      OBVIOUS
    <2> QED BY <1>1, <2>1, <2>2, <2>3, <2>4, AboutKept
  <1>3. /\ r.op[c] = "OPEN" /\ r.pc[c] = "test" /\ r.csem[c] # None
        /\ SameCommand(r.hd[c], m.hd[c]) /\ r.csem[c] = m.csem[c] /\ r.ssem[c] = m.ssem[c]
        /\ r.left[c] = m.left[c] /\ r.open[c] = m.open[c] /\ r.sound[c] = m.sound[c]
        /\ r.hd[c] = m.hd[c]
    BY <1>1 DEF SameTPCS, SameSems, SameCommand
  <1>4. Header(m, c)
    BY <1>1 DEF About
  <1>5. Header(r, c)
    BY <1>3, <1>4 DEF Header
  <1>6. ASSUME Current(r, c)
        PROVE  Matched(r, c)
    <2>1. Current(m, c) /\ Matched(m, c)
      BY <1>1, <1>3, <1>6 DEF Current, About
    <2>2. m.sess # c /\ ~m.cnt[m.csem[c]]
      BY <1>1, <2>1
    <2>3. /\ ~m.cnt[m.ssem[c]] /\ m.hd[c].cmd = "OPEN"
          /\ m.hd[c].csem = m.csem[c] /\ m.hd[c].ssem = m.ssem[c]
      BY <1>1, <2>1 DEF Matched, Opening
    <2>4. Opening(r, c)
      BY <1>3, <2>2, <2>3 DEF Opening
    <2>5. ~m.open[c] /\ Loose(m, c)
      BY <1>1, <2>1 DEF Matched
    <2>6. Ready(r, c) /\ Asked(r, c) /\ Passed(r, c)
      BY <1>3, <2>5 DEF Ready, Resting, Asked, Passed
    <2>7. Loose(r, c)
      BY <1>3, <2>2, <2>5 DEF Loose
    <2> QED BY <1>3, <2>4, <2>5, <2>6, <2>7 DEF Matched
  <1> QED BY <1>2, <1>5, <1>6 DEF About

\* The server waits for it.
LEMMA SendDirectKeeps ==
  ASSUME NEW m, NEW c \in Clients, Sending(m, c), m.exists, m.spc = "receive",
         NEW r, r = SendBound(m, c)
  PROVE  TPSound(r)
  <1>1. /\ m \in TPortalType /\ Handles(m) /\ Serving(m) /\ Unopened(m)
        /\ m.op[c] = "OPEN" /\ m.pc[c] = "test" /\ m.csem[c] # None /\ m.mpri[c] = m.pri[c]
        /\ \A d \in Clients : m.pri[d] >= m.norm[d]
    BY DEF Sending
  <1>2. HasTaken(r, m, c)
    BY <1>1, SendDirectIs
  <1>3. /\ r \in TPortalType /\ SameSems(r, m) /\ SameTPCS(r, m) /\ r.norm = m.norm
        /\ r.pri = m.pri /\ r.mpri = m.mpri /\ r.queue = m.queue /\ r.exists = m.exists
        /\ r.sopen = m.sopen /\ r.scsem = m.scsem /\ r.sssem = m.sssem /\ r.sz = m.sz
        /\ r.cnt = m.cnt /\ r.pc = m.pc /\ r.spc = "got" /\ r.sess = c /\ r.direct
        /\ r.bct = c /\ r.onr /\ r.spri = m.mpri[c]
    BY <1>2 DEF HasTaken
  <1>4. m.bct = None /\ m.queue = <<>> /\ m.sess = None
    BY <1>1 DEF Serving, Busy
  <1>5. m.scsem = None /\ m.sssem = None
    BY <1>1 DEF Unopened
  <1>6. Handles(r)
    <2>1. \A d \in Clients : m.csem[d] = None => r.pc[d] = "idle"
      BY <1>1, <1>3 DEF Handles
    <2> QED BY <1>1, <1>3, <2>1, HandlesKept
  <1>7. Serving(r)
    BY <1>1, <1>3, <1>4 DEF Serving, Busy
  <1>8. Unopened(r)
    BY <1>3, <1>5 DEF Unopened
  <1>9. \A d : ~Contains(r.queue, d)
    BY <1>3, <1>4 DEF Contains
  <1>10. Promoted(r)
    <2>1. \A d \in Clients : r.pri[d] >= r.norm[d]
      BY <1>1, <1>3
    <2>2. r.spri >= r.norm[r.bct]
      BY <1>1, <1>3
    <2>3. r.queue = <<>> /\ \A d : r.queue # <<d>>
      BY <1>3, <1>4
    <2> QED BY <1>3, <1>9, <2>1, <2>2, <2>3 DEF Promoted
  <1>11. \A d \in Clients : About(r, d)
    <2>1. ~Contains(r.queue, c) /\ \A u : Contains(r.queue, u) => Contains(m.queue, u) \/ u = c
      BY <1>9
    <2> QED BY <1>3, <1>4, <1>8, <2>1, SentAbout
  <1> QED BY <1>3, <1>6, <1>7, <1>8, <1>10, <1>11 DEF TPSound

\* It is put into the queue.
LEMMA SendQueuedIs ==
  ASSUME NEW m \in TPortalType, Injective(m.queue), NEW c \in Clients, m.exists, m.spc # "receive",
         NEW r, r = SendBound(m, c)
  PROVE  /\ r \in TPortalType /\ SameSems(r, m) /\ SameTPSS(r, m) /\ SameTPCS(r, m)
         /\ r.norm = m.norm /\ r.mpri = m.mpri /\ r.onr = m.onr /\ r.cnt = m.cnt /\ r.pc = m.pc
         /\ r.spc = m.spc /\ r.spri = ServerPri(m, c) /\ r.bct = c
         /\ \A d \in Clients : r.pri[d] = IF m.onr /\ d = c THEN ServerPri(m, c)
                                          ELSE IF d = m.bct THEN ServerPri(m, c) ELSE m.pri[d]
         /\ Injective(r.queue) /\ r.queue # <<>>
         /\ \A u : Contains(r.queue, u) <=> Contains(m.queue, u) \/ u = c
         /\ \A d : r.queue = <<d>> => d = c /\ m.queue \in {<<>>, <<c>>}
  <1> DEFINE q1 == QueueMsg(m, c)
             q2 == PromoteServer(q1, c)
             x == IF q2.onr THEN q2.spri ELSE q2.pri[c]
             b == [q2 EXCEPT !.bct = c, !.pri[c] = x]
  <1>1. r = b
    BY DEF SendBound
  <1>2. q1 = QueueMsg(m, c) /\ q2 = PromoteServer(q1, c)
    OBVIOUS
  <1>3. x = IF q2.onr THEN q2.spri ELSE q2.pri[c]
    OBVIOUS
  <1>4. b = BoundRecord(q2, c, x)
    BY DEF BoundRecord
  <1> HIDE DEF q1, q2, x, b
  <1>5. /\ q1 \in TPortalType /\ SameSems(q1, m) /\ SameTPSS(q1, m) /\ SameTPCS(q1, m)
        /\ q1.norm = m.norm /\ q1.pri = m.pri /\ q1.mpri = m.mpri /\ q1.spri = m.spri
        /\ q1.onr = m.onr /\ q1.bct = m.bct /\ q1.cnt = m.cnt /\ q1.pc = m.pc /\ q1.spc = m.spc
        /\ Injective(q1.queue) /\ q1.queue # <<>>
        /\ \A u : Contains(q1.queue, u) <=> Contains(m.queue, u) \/ u = c
        /\ \A d : q1.queue = <<d>> => d = c /\ m.queue \in {<<>>, <<c>>}
    BY <1>2, QueueMsgIs
  <1>6. ServerPri(q1, c) = ServerPri(m, c)
    BY <1>5 DEF ServerPri
  <1>7. /\ q2 \in TPortalType /\ SameSems(q2, q1) /\ SameTPSS(q2, q1) /\ SameTPCS(q2, q1)
        /\ q2.norm = q1.norm /\ q2.mpri = q1.mpri /\ q2.queue = q1.queue /\ q2.onr = q1.onr
        /\ q2.bct = q1.bct /\ q2.cnt = q1.cnt /\ q2.pc = q1.pc /\ q2.spc = q1.spc
        /\ q2.pri = [d \in Clients |-> IF d = q1.bct THEN ServerPri(q1, c) ELSE q1.pri[d]]
        /\ q2.spri = ServerPri(q1, c)
    BY <1>2, <1>5, PromoteServerIs
  <1>8. x \in 0..TopPri
    BY <1>3, <1>7, TPFields
  <1>9. /\ b \in TPortalType /\ SameSems(b, q2) /\ SameTPSS(b, q2) /\ SameTPCS(b, q2)
        /\ b.norm = q2.norm /\ b.mpri = q2.mpri /\ b.spri = q2.spri /\ b.queue = q2.queue
        /\ b.onr = q2.onr /\ b.cnt = q2.cnt /\ b.pc = q2.pc /\ b.spc = q2.spc
        /\ b.bct = c
        /\ b.pri = [q2.pri EXCEPT ![c] = x]
    <2>1. q2 \in TPortalType /\ c \in Clients /\ x \in 0..TopPri /\ b = BoundRecord(q2, c, x)
      BY <1>4, <1>7, <1>8
    <2> QED BY ONLY <2>1, BoundIs
  <1>10. \A d \in Clients : q2.pri[d] = IF d = m.bct THEN ServerPri(m, c) ELSE m.pri[d]
    BY <1>5, <1>6, <1>7
  <1>11. \A d \in Clients : b.pri[d] = IF d = c THEN x ELSE q2.pri[d]
    <2>1. q2.pri \in [Clients -> 0..TopPri]
      BY <1>7, TPFields
    <2> QED BY <1>9, <2>1
  <1>12. x = IF m.onr THEN ServerPri(m, c) ELSE q2.pri[c]
    BY <1>3, <1>5, <1>6, <1>7
  <1>13. \A d \in Clients : b.pri[d] = IF m.onr /\ d = c THEN ServerPri(m, c)
                                       ELSE IF d = m.bct THEN ServerPri(m, c) ELSE m.pri[d]
    BY <1>10, <1>11, <1>12
  <1>14. /\ SameSems(b, m) /\ SameTPSS(b, m) /\ SameTPCS(b, m)
         /\ b.norm = m.norm /\ b.mpri = m.mpri /\ b.onr = m.onr /\ b.cnt = m.cnt /\ b.pc = m.pc
         /\ b.spc = m.spc /\ b.spri = ServerPri(m, c) /\ b.bct = c /\ b.queue = q1.queue
    BY <1>5, <1>6, <1>7, <1>9 DEF SameSems, SameTPSS, SameTPCS
  <1> QED BY <1>1, <1>5, <1>9, <1>13, <1>14

LEMMA SendQueuedKeeps ==
  ASSUME NEW m, NEW c \in Clients, Sending(m, c), m.exists, m.spc # "receive",
         NEW r, r = SendBound(m, c)
  PROVE  TPSound(r)
  <1> DEFINE sp == ServerPri(m, c)
  <1>1. /\ m \in TPortalType /\ Handles(m) /\ Serving(m) /\ Unopened(m) /\ Injective(m.queue)
        /\ m.op[c] = "OPEN" /\ m.pc[c] = "test" /\ m.csem[c] # None /\ m.mpri[c] = m.pri[c]
        /\ m.bct = None \/ m.onr
    BY DEF Sending, Serving
  <1>2. /\ \A d \in Clients : m.pri[d] >= m.norm[d]
        /\ \A d \in Clients : Contains(m.queue, d) => m.mpri[d] >= m.norm[d]
        /\ m.onr /\ m.bct \in Clients => m.spri >= m.norm[m.bct]
        /\ \A s \in Clients : s # c /\ m.sess = s /\ m.direct /\ Held(m, s) =>
              /\ m.queue = <<>> => m.bct = s
              /\ \A d \in Clients : m.queue = <<d>> => Above(m, s, d)
    BY DEF Sending
  <1>3. /\ r \in TPortalType /\ SameSems(r, m) /\ SameTPSS(r, m) /\ SameTPCS(r, m)
        /\ r.norm = m.norm /\ r.mpri = m.mpri /\ r.onr = m.onr /\ r.cnt = m.cnt /\ r.pc = m.pc
        /\ r.spc = m.spc /\ r.spri = sp /\ r.bct = c
        /\ \A d \in Clients : r.pri[d] = IF m.onr /\ d = c THEN sp
                                         ELSE IF d = m.bct THEN sp ELSE m.pri[d]
        /\ Injective(r.queue) /\ r.queue # <<>>
        /\ \A u : Contains(r.queue, u) <=> Contains(m.queue, u) \/ u = c
        /\ \A d : r.queue = <<d>> => d = c /\ m.queue \in {<<>>, <<c>>}
    BY <1>1, SendQueuedIs
  <1>4. /\ sp \in 0..TopPri
        /\ m.onr => sp >= m.spri /\ sp >= m.mpri[c] /\ sp \in {m.spri, m.mpri[c]}
        /\ ~m.onr => sp = m.spri
    BY <1>1, ServerPriIs
  <1> HIDE DEF sp
  <1>5. Handles(r)
    <2>1. \A d \in Clients : m.csem[d] = None => r.pc[d] = "idle"
      BY <1>1, <1>3 DEF Handles
    <2> QED BY <1>1, <1>3, <2>1, HandlesKept
  <1>6. Serving(r)
    BY <1>1, <1>3 DEF Serving, SameTPSS
  <1>7. Unopened(r)
    BY <1>1, <1>3 DEF Unopened, SameTPSS
  <1>8. \A d \in Clients : /\ m.pri[d] \in 0..TopPri /\ m.norm[d] \in 0..TopPri
                           /\ m.mpri[d] \in 0..TopPri
    BY <1>1, TPFields
  <1>9. m.spri \in 0..TopPri /\ TopPri \in Nat /\ None \notin Clients
    BY <1>1, TPFields, TPKinds
  <1>10. \A d \in Clients : r.pri[d] >= r.norm[d]
    <2> SUFFICES ASSUME NEW d \in Clients
                 PROVE  r.pri[d] >= r.norm[d]
      OBVIOUS
    <2>1. CASE m.onr /\ d = c
      <3>1. sp >= m.mpri[c] /\ m.mpri[c] >= m.norm[c] /\ r.pri[d] = sp /\ r.norm[d] = m.norm[c]
        BY <1>1, <1>2, <1>3, <1>4, <2>1
      <3> QED BY <1>4, <1>8, <1>9, <3>1
    <2>2. CASE ~(m.onr /\ d = c) /\ d = m.bct
      <3>1. m.onr
        BY <1>1, <1>9, <2>2
      <3>2. sp >= m.spri /\ m.spri >= m.norm[d] /\ r.pri[d] = sp /\ r.norm[d] = m.norm[d]
        BY <1>2, <1>3, <1>4, <2>2, <3>1
      <3> QED BY <1>4, <1>8, <1>9, <3>2
    <2>3. CASE ~(m.onr /\ d = c) /\ d # m.bct
      BY <1>2, <1>3, <2>3
    <2> QED BY <2>1, <2>2, <2>3
  <1>11. \A d \in Clients : Contains(r.queue, d) => r.mpri[d] >= r.norm[d]
    BY <1>1, <1>2, <1>3
  <1>12. r.onr /\ r.bct \in Clients => r.spri >= r.norm[r.bct]
    <2> SUFFICES ASSUME m.onr
                 PROVE  sp >= m.norm[c]
      BY <1>3
    <2>1. sp >= m.mpri[c] /\ m.mpri[c] >= m.norm[c]
      BY <1>1, <1>2, <1>4
    <2> QED BY <1>4, <1>8, <1>9, <2>1
  <1>13. ASSUME NEW s \in Clients, r.sess = s, r.direct, Held(r, s), NEW d \in Clients, r.queue = <<d>>
         PROVE  Above(r, s, d)
    <2>1. m.sess = s /\ m.direct /\ Held(m, s)
      BY <1>3, <1>13 DEF SameTPSS, SameTPCS, Held
    <2>2. m.onr
      BY <1>1, <2>1, TPKinds DEF Serving, Busy
    <2>3. d = c /\ m.queue \in {<<>>, <<c>>}
      BY <1>3, <1>13
    <2>4. sp >= m.spri /\ sp >= m.mpri[c] /\ r.pri[c] = sp /\ r.mpri[c] = m.mpri[c] /\ r.spri = sp
          /\ r.norm[c] = m.norm[c] /\ m.mpri[c] = m.pri[c] /\ m.pri[c] >= m.norm[c]
          /\ sp \in {m.spri, m.mpri[c]}
      BY <1>1, <1>2, <1>3, <1>4, <2>2
    <2>5. CASE s = c
      BY <2>3, <2>4, <2>5 DEF Above
    <2>6. CASE s # c
      <3>1. r.pri[s] >= sp
        <4>1. CASE m.bct = s
          BY <1>3, <1>4, <2>6, <4>1
        <4>2. CASE m.bct # s
          <5>1. m.queue = <<c>>
            BY <1>2, <2>1, <2>3, <2>6, <4>2
          <5>2. Above(m, s, c)
            BY <1>2, <2>1, <2>6, <5>1
          <5>3. m.pri[s] >= m.mpri[c] /\ m.pri[s] >= m.spri
            BY <2>6, <5>2 DEF Above
          <5>4. r.pri[s] = m.pri[s]
            BY <1>3, <2>6, <4>2
          <5> QED BY <2>4, <5>3, <5>4
        <4> QED BY <4>1, <4>2
      <3>2. r.pri[s] \in 0..TopPri
        BY <1>3, TPFields
      <3>3. r.pri[s] >= r.mpri[c] /\ r.pri[s] >= r.spri /\ r.pri[s] >= r.norm[c] /\ r.pri[s] >= r.pri[c]
        BY <1>4, <1>8, <1>9, <2>4, <3>1, <3>2
      <3> QED BY <2>3, <3>3 DEF Above
    <2> QED BY <2>5, <2>6
  <1>14. Promoted(r)
    BY <1>3, <1>10, <1>11, <1>12, <1>13 DEF Promoted
  <1>15. \A d \in Clients : About(r, d)
    <2>1. /\ r.sess = m.sess /\ r.sopen = m.sopen /\ r.scsem = m.scsem /\ r.sssem = m.sssem
          /\ r.sz = m.sz
      BY <1>3 DEF SameTPSS
    <2>2. \A u : Contains(r.queue, u) => Contains(m.queue, u) \/ u = c
      BY <1>3
    <2> QED BY <1>3, <2>1, <2>2, SentAbout
  <1> QED BY <1>3, <1>5, <1>6, <1>7, <1>14, <1>15 DEF TPSound

LEMMA OpenSendKeeps ==
  ASSUME TPSound(tp), NEW c \in Clients, OpenSend(c)
  PROVE  TPSound(tp')
  <1>1. PICK m : Sending(m, c) /\ tp' = SendBound(m, c)
    BY SendBegins
  <1>2. CASE ~m.exists
    <2>1. tp' = m
      BY <1>1, <1>2 DEF SendBound
    <2>2. /\ m \in TPortalType /\ Handles(m) /\ Serving(m) /\ Unopened(m)
          /\ \A d \in Clients : About(m, d)
      BY <1>1 DEF Sending
    <2>3. Promoted(m)
      <3>1. ~m.direct
        BY <1>2, <2>2 DEF Serving, Busy
      <3> QED BY <1>1, <3>1 DEF Sending, Promoted
    <2> QED BY <2>1, <2>2, <2>3 DEF TPSound
  <1>3. CASE m.exists /\ m.spc = "receive"
    <2> DEFINE r == SendBound(m, c)
    <2>1. r = SendBound(m, c)
      OBVIOUS
    <2> HIDE DEF r
    <2>2. TPSound(r)
      BY <1>1, <1>3, <2>1, SendDirectKeeps
    <2> QED BY <1>1, <2>1, <2>2
  <1>4. CASE m.exists /\ m.spc # "receive"
    <2> DEFINE r == SendBound(m, c)
    <2>1. r = SendBound(m, c)
      OBVIOUS
    <2> HIDE DEF r
    <2>2. TPSound(r)
      BY <1>1, <1>4, <2>1, SendQueuedKeeps
    <2> QED BY <1>1, <2>1, <2>2
  <1> QED BY <1>2, <1>3, <1>4

-----------------------------------------------------------------------------
(* The steps of the server.                                                *)

LEMMA SoundFacts ==
  ASSUME TPSound(tp)
  PROVE  /\ tp \in TPortalType /\ Handles(tp) /\ Serving(tp) /\ Promoted(tp) /\ Unopened(tp)
         /\ \A d \in Clients : About(tp, d)
         /\ tp.spc \in Busy => tp.sess \in Clients /\ tp.exists /\ tp.onr
         /\ tp.spc \notin Busy => tp.sess = None /\ ~tp.direct
         /\ \A d \in Clients : Current(tp, d) =>
               /\ tp.csem[d] # None /\ tp.ssem[d] # None
               /\ Matched(tp, d) /\ Header(tp, d)
  <1>1. /\ tp \in TPortalType /\ Handles(tp) /\ Serving(tp) /\ Promoted(tp) /\ Unopened(tp)
        /\ \A d \in Clients : About(tp, d)
    BY DEF TPSound
  <1>2. /\ tp.spc \in Busy => tp.sess \in Clients /\ tp.exists /\ tp.onr
        /\ tp.spc \notin Busy => tp.sess = None /\ ~tp.direct
    BY <1>1 DEF Serving, Busy
  <1>3. \A d \in Clients : Current(tp, d) => tp.csem[d] # None /\ tp.ssem[d] # None
    BY <1>1 DEF Current, Handles
  <1>4. \A d \in Clients : Current(tp, d) => Matched(tp, d) /\ Header(tp, d)
    BY <1>1 DEF About
  <1> QED BY <1>1, <1>2, <1>3, <1>4

\* The server stays with the message that it has.
LEMMA SessionKept ==
  ASSUME TPSound(tp), tp.spc \in Busy, tp' \in TPortalType, SameSems(tp', tp), SameXchg(tp', tp),
         tp'.exists = tp.exists, tp'.sess = tp.sess, tp'.direct = tp.direct,
         tp'.spc \in Busy \ {"got"}, tp'.spc = "recv" => tp'.sz # None,
         \A d \in Clients : Held(tp', d) => Held(tp, d),
         \A d \in Clients : tp.csem[d] = None => tp'.pc[d] = "idle",
         \A d \in Clients : About(tp', d)
  PROVE  TPSound(tp')
  <1>1. /\ Handles(tp) /\ Serving(tp) /\ Promoted(tp)
        /\ tp.sess \in Clients /\ tp.exists /\ tp.onr
    BY SoundFacts
  <1>2. Handles(tp')
    BY <1>1, HandlesKept
  <1>3. Serving(tp')
    BY <1>1 DEF Serving, SameXchg, Busy
  <1>4. Promoted(tp')
    BY <1>1, PromotedKept
  <1>5. Unopened(tp')
    BY DEF Unopened, Busy
  <1> QED BY <1>2, <1>3, <1>4, <1>5 DEF TPSound

\* It goes to the next one.
LEMMA SessionLeft ==
  ASSUME TPSound(tp), tp.spc \in Busy, tp' \in TPortalType, SameSems(tp', tp), SameXchg(tp', tp),
         tp'.exists = tp.exists, tp'.pc = tp.pc, tp'.cnt = tp.cnt,
         tp'.spc = "idle", tp'.sess = None, ~tp'.sopen, ~tp'.direct,
         tp'.scsem = None, tp'.sssem = None,
         \A d \in Clients : d # tp.sess => SameClient(tp', tp, d),
         SameClient(tp', tp, tp.sess) \/ About(tp', tp.sess)
  PROVE  TPSound(tp')
  <1>1. /\ tp \in TPortalType /\ Handles(tp) /\ Serving(tp) /\ Promoted(tp)
        /\ \A d \in Clients : About(tp, d)
        /\ tp.sess \in Clients /\ tp.exists /\ tp.onr
        /\ \A d \in Clients : Current(tp, d) => tp.csem[d] # None /\ tp.ssem[d] # None
    BY SoundFacts
  <1>2. Handles(tp')
    <2>1. \A d \in Clients : tp.csem[d] = None => tp'.pc[d] = "idle"
      BY <1>1 DEF Handles
    <2> QED BY <1>1, <2>1, HandlesKept
  <1>3. Serving(tp')
    BY <1>1 DEF Serving, SameXchg, Busy
  <1>4. Promoted(tp')
    BY <1>1, TPKinds DEF Promoted, SameXchg
  <1>5. Unopened(tp')
    BY DEF Unopened
  <1>6. ASSUME NEW d \in Clients, SameClient(tp', tp, d)
        PROVE  About(tp', d)
    <2>1. /\ Contains(tp'.queue, d) => Contains(tp.queue, d)
          /\ tp'.sess # d
      BY TPKinds DEF SameXchg
    <2>2. Current(tp, d) => Loose(tp', d)
      BY <1>1 DEF Loose, SameSems
    <2>3. Current(tp, d) => tp'.cnt[tp.csem[d]] = tp.cnt[tp.csem[d]] /\ tp'.cnt[tp.ssem[d]] = tp.cnt[tp.ssem[d]]
      OBVIOUS
    <2> QED BY <1>1, <1>6, <2>1, <2>2, <2>3, AboutKept
  <1> QED BY <1>1, <1>2, <1>3, <1>4, <1>5, <1>6 DEF TPSound

\* What the server does is not about another client.
LEMMA OthersKept ==
  ASSUME TPSound(tp), NEW d \in Clients, d # tp.sess, SameClient(tp', tp, d),
         Current(tp, d) => tp'.cnt[tp.csem[d]] = tp.cnt[tp.csem[d]] /\ tp'.cnt[tp.ssem[d]] = tp.cnt[tp.ssem[d]],
         SameXchg(tp', tp), tp'.sess = tp.sess,
         \/ tp'.scsem = tp.scsem /\ tp'.sssem = tp.sssem
         \/ Current(tp, d) => Loose(tp', d)
  PROVE  About(tp', d)
  <1>1. About(tp, d) /\ (Current(tp, d) => Matched(tp, d))
    BY SoundFacts
  <1>2. Current(tp, d) => Loose(tp', d)
    BY <1>1 DEF Matched, Loose, SameClient
  <1>3. /\ Contains(tp'.queue, d) => Contains(tp.queue, d)
        /\ tp'.sess # d
    BY DEF SameXchg
  <1> QED BY <1>1, <1>2, <1>3, AboutKept

\* The server waits for a message.
LEMMA ServerWaitsKeeps ==
  ASSUME TPSound(tp), ServerReceive, tp.queue = <<>>
  PROVE  TPSound(tp')
  <1>1. tp.spc \in {"start", "idle"} /\ tp.spc \notin Busy
    BY DEF ServerReceive, Busy
  <1>2. /\ tp \in TPortalType /\ Handles(tp) /\ Serving(tp) /\ Promoted(tp) /\ Unopened(tp)
        /\ \A d \in Clients : About(tp, d)
        /\ tp.sess = None /\ ~tp.direct
        /\ \A d \in Clients : Current(tp, d) => Matched(tp, d)
    BY <1>1, SoundFacts
  <1>3. /\ tp' \in TPortalType /\ SameSems(tp', tp) /\ SameTPSS(tp', tp) /\ SameTPCS(tp', tp)
        /\ tp'.norm = tp.norm /\ tp'.pri = tp.pri /\ tp'.mpri = tp.mpri /\ tp'.spri = tp.spri
        /\ tp'.queue = tp.queue /\ tp'.cnt = tp.cnt /\ tp'.pc = tp.pc
        /\ tp'.spc = "receive" /\ tp'.onr = FALSE /\ tp'.bct = None
    BY <1>2, ServerWaitsIs
  <1>4. Handles(tp')
    <2>1. \A d \in Clients : tp.csem[d] = None => tp'.pc[d] = "idle"
      BY <1>2, <1>3 DEF Handles
    <2> QED BY <1>2, <1>3, <2>1, HandlesKept
  <1>5. Serving(tp')
    BY <1>1, <1>2, <1>3 DEF Serving, SameTPSS, Busy
  <1>6. Promoted(tp')
    BY <1>2, <1>3 DEF Promoted, SameTPSS
  <1>7. Unopened(tp')
    BY <1>1, <1>2, <1>3 DEF Unopened, SameTPSS
  <1>8. ASSUME NEW d \in Clients
        PROVE  About(tp', d)
    <2>1. SameClient(tp', tp, d)
      BY <1>3 DEF SameClient, SameCommand, SameSems, SameTPCS
    <2>2. tp'.sess # d /\ (Contains(tp'.queue, d) => Contains(tp.queue, d))
      BY <1>2, <1>3, TPKinds DEF SameTPSS
    <2>3. Current(tp, d) => Loose(tp', d)
      BY <1>2, <1>3, TPKinds DEF Matched, Loose, SameSems, SameTPSS
    <2> QED BY <1>2, <1>3, <2>1, <2>2, <2>3, AboutKept
  <1> QED BY <1>3, <1>4, <1>5, <1>6, <1>7, <1>8 DEF TPSound

\* The server takes a message from the queue.
LEMMA ServerReceivesKeeps ==
  ASSUME TPSound(tp), ServerReceive, tp.queue # <<>>
  PROVE  TPSound(tp')
  <1> DEFINE c == Head(tp.queue)
  <1>1. tp.spc \in {"start", "idle"} /\ tp.spc \notin Busy
    BY DEF ServerReceive, Busy
  <1>2. /\ tp \in TPortalType /\ Handles(tp) /\ Serving(tp) /\ Promoted(tp) /\ Unopened(tp)
        /\ \A d \in Clients : About(tp, d)
        /\ tp.sess = None /\ ~tp.direct
        /\ \A d \in Clients : Current(tp, d) => Matched(tp, d) /\ tp.csem[d] # None /\ tp.ssem[d] # None
    BY <1>1, SoundFacts
  <1>3. /\ tp' \in TPortalType /\ SameSems(tp', tp) /\ SameTPCS(tp', tp) /\ tp'.norm = tp.norm
        /\ tp'.pri = tp.pri /\ tp'.mpri = tp.mpri /\ tp'.exists = tp.exists /\ tp'.sopen = tp.sopen
        /\ tp'.scsem = tp.scsem /\ tp'.sssem = tp.sssem /\ tp'.sz = tp.sz /\ tp'.cnt = tp.cnt
        /\ tp'.pc = tp.pc
        /\ tp'.spc = "got" /\ tp'.sess = c /\ tp'.queue = Tail(tp.queue) /\ tp'.direct = FALSE
        /\ tp'.onr = TRUE /\ tp'.bct = Svr /\ tp'.spri = tp.mpri[c]
    BY <1>2, ServerReceivesIs
  <1>4. /\ c \in Clients /\ Contains(tp.queue, c) /\ Injective(tp'.queue)
        /\ \A u : Contains(tp'.queue, u) <=> Contains(tp.queue, u) /\ u # c
    <2>1. tp.queue \in Seq(Clients) /\ Injective(tp.queue)
      BY <1>2, TPFields DEF Serving
    <2> QED BY <1>3, <2>1, TailContains
  <1> HIDE DEF c
  <1>5. Handles(tp')
    <2>1. \A d \in Clients : tp.csem[d] = None => tp'.pc[d] = "idle"
      BY <1>2, <1>3 DEF Handles
    <2> QED BY <1>2, <1>3, <2>1, HandlesKept
  <1>6. Serving(tp')
    BY <1>1, <1>2, <1>3, <1>4 DEF Serving, Busy
  <1>7. Promoted(tp')
    BY <1>2, <1>3, <1>4, TPKinds DEF Promoted
  <1>8. tp.scsem = None /\ tp.sssem = None
    BY <1>1, <1>2 DEF Unopened
  <1>9. Unopened(tp')
    BY <1>3, <1>8 DEF Unopened
  <1>10. \A d \in Clients : SameClient(tp', tp, d)
    BY <1>3 DEF SameClient, SameCommand, SameSems, SameTPCS
  <1>11. ASSUME NEW d \in Clients, d # c
         PROVE  About(tp', d)
    <2>1. tp'.sess # d /\ (Contains(tp'.queue, d) => Contains(tp.queue, d))
      BY <1>3, <1>4, <1>11
    <2>2. Current(tp, d) => Loose(tp', d)
      BY <1>2, <1>3, <1>8 DEF Loose, SameSems
    <2> QED BY <1>2, <1>3, <1>10, <2>1, <2>2, AboutKept
  <1>12. About(tp', c)
    <2>1. Header(tp', c)
      <3>1. Header(tp, c)
        BY <1>2, <1>4 DEF About
      <3> QED BY <1>3, <1>4, <1>10, <3>1, HeaderKept DEF SameClient
    <2>2. ASSUME Current(tp', c)
          PROVE  Matched(tp', c)
      <3>1. Current(tp, c) /\ Matched(tp, c)
        BY <1>2, <1>4, <1>10, <2>2 DEF Current, SameClient
      <3>2. SameClient(tp', tp, c) /\ SameCommand(tp'.hd[c], tp.hd[c])
        BY <1>4, <1>10 DEF SameClient
      <3>3. /\ ~Contains(tp'.queue, c) /\ Contains(tp.queue, c) /\ tp'.cnt = tp.cnt
            /\ tp'.spc = "got" /\ tp'.sess = c
        BY <1>3, <1>4
      <3>4. Opening(tp', c)
        BY <3>1, <3>2, <3>3 DEF Matched, Opening, SameClient, SameCommand
      <3>5. Ready(tp', c) /\ Asked(tp', c) /\ Passed(tp', c)
        BY <3>1, <3>2, <3>3 DEF Matched, Ready, Resting, Asked, Passed, SameClient
      <3>6. Loose(tp', c) /\ (tp'.op[c] = "OPEN" => ~tp'.open[c])
        BY <3>1, <3>2, <3>3 DEF Matched, Loose, SameClient
      <3> QED BY <3>4, <3>5, <3>6 DEF Matched
    <2> QED BY <2>1, <2>2 DEF About
  <1> QED BY <1>3, <1>5, <1>6, <1>7, <1>9, <1>11, <1>12 DEF TPSound

\* The server gives up the session.
LEMMA GivesUpKeeps ==
  ASSUME TPSound(tp), tp.spc \in Busy, tp' = GivesUp(tp)
  PROVE  TPSound(tp')
  <1>1. tp \in TPortalType /\ tp.sess \in Clients
    BY SoundFacts
  <1> DEFINE c == tp.sess
             m == ErrnoRecord(tp, c)
  <1>2. m = ErrnoRecord(tp, c) /\ tp' = ToNextMsg(m) /\ c = tp.sess /\ c \in Clients
    BY <1>1 DEF GivesUp, ErrnoRecord
  <1> HIDE DEF m, c
  <1>3. /\ m \in TPortalType /\ SameSems(m, tp) /\ SameXchg(m, tp) /\ SameTPSS(m, tp) /\ m.op = tp.op
        /\ m.cre = tp.cre /\ m.left = tp.left /\ m.open = tp.open /\ m.sound = tp.sound
        /\ m.stage = tp.stage /\ m.cnt = tp.cnt /\ m.pc = tp.pc /\ m.spc = tp.spc
        /\ m.hd = [tp.hd EXCEPT ![c] = [tp.hd[c] EXCEPT !.inc = FALSE]]
    BY <1>1, <1>2, ErrnoIs
  <1>4. /\ tp' \in TPortalType /\ SameSems(tp', m) /\ SameXchg(tp', m) /\ SameTPCS(tp', m)
        /\ tp'.exists = m.exists /\ tp'.sz = m.sz /\ tp'.cnt = m.cnt /\ tp'.pc = m.pc
        /\ tp'.spc = "idle" /\ tp'.sess = None /\ tp'.sopen = FALSE /\ tp'.direct = FALSE
        /\ tp'.scsem = None /\ tp'.sssem = None
    BY <1>2, <1>3, ToNextMsgIs
  <1>5. /\ SameSems(tp', tp) /\ SameXchg(tp', tp) /\ tp'.exists = tp.exists /\ tp'.pc = tp.pc
        /\ tp'.cnt = tp.cnt /\ tp'.op = tp.op /\ tp'.left = tp.left /\ tp'.open = tp.open
        /\ tp'.sound = tp.sound /\ tp'.stage = tp.stage /\ tp'.hd = m.hd
    BY <1>3, <1>4 DEF SameSems, SameXchg, SameTPSS, SameTPCS
  <1>6. \A d \in Clients : SameCommand(tp'.hd[d], tp.hd[d])
    <2> SUFFICES ASSUME NEW d \in Clients
                 PROVE  SameCommand(m.hd[d], tp.hd[d])
      BY <1>5
    <2>1. tp.hd \in [Clients -> TPHeader] /\ tp.hd[d] \in TPHeader
      BY <1>1, TPFields
    <2>2. CASE d = c
      <3>1. m.hd[d] = [tp.hd[d] EXCEPT !.inc = FALSE]
        BY <1>3, <2>1, <2>2
      <3> QED BY <2>1, <3>1 DEF SameCommand, TPHeader
    <2>3. CASE d # c
      <3>1. m.hd[d] = tp.hd[d]
        BY <1>3, <2>1, <2>3
      <3> QED BY <3>1 DEF SameCommand
    <2> QED BY <2>2, <2>3
  <1>7. \A d \in Clients : SameClient(tp', tp, d)
    BY <1>5, <1>6 DEF SameClient, SameSems
  <1> QED BY <1>1, <1>4, <1>5, <1>7, SessionLeft

LEMMA NextMsgKeeps ==
  ASSUME TPSound(tp), tp.spc \in Busy, tp' = ToNextMsg(tp)
  PROVE  TPSound(tp')
  <1>1. tp \in TPortalType /\ tp.sess \in Clients
    BY SoundFacts
  <1>2. /\ tp' \in TPortalType /\ SameSems(tp', tp) /\ SameXchg(tp', tp) /\ SameTPCS(tp', tp)
        /\ tp'.exists = tp.exists /\ tp'.sz = tp.sz /\ tp'.cnt = tp.cnt /\ tp'.pc = tp.pc
        /\ tp'.spc = "idle" /\ tp'.sess = None /\ tp'.sopen = FALSE /\ tp'.direct = FALSE
        /\ tp'.scsem = None /\ tp'.sssem = None
    BY <1>1, ToNextMsgIs
  <1>3. \A d \in Clients : SameClient(tp', tp, d)
    BY <1>2 DEF SameClient, SameCommand, SameSems, SameTPCS
  <1> QED BY <1>1, <1>2, <1>3, SessionLeft

LEMMA ServerGotKeeps ==
  ASSUME TPSound(tp), ServerGot
  PROVE  TPSound(tp')
  <1>1. tp.spc = "got" /\ tp.spc \in Busy
    BY DEF ServerGot, Busy
  <1>2. /\ tp \in TPortalType /\ Handles(tp) /\ tp.sess \in Clients
        /\ \A d \in Clients : About(tp, d) /\ (Current(tp, d) => Matched(tp, d))
    BY <1>1, SoundFacts
  <1>3. CASE tp.hd[tp.sess].cmd # "OPEN"
    <2>1. tp' = GivesUp(tp)
      BY <1>3 DEF ServerGot
    <2> QED BY <1>1, <2>1, GivesUpKeeps
  <1>4. CASE tp.hd[tp.sess].cmd = "OPEN"
    <2>1. /\ tp' \in TPortalType /\ SameSems(tp', tp) /\ SameXchg(tp', tp) /\ SameTPSS(tp', tp)
          /\ SameTPCS(tp', tp) /\ tp'.cnt = tp.cnt /\ tp'.pc = tp.pc /\ tp'.spc = "switch"
      BY <1>2, <1>4, ServerOpensIs
    <2>2. \A d \in Clients : SameClient(tp', tp, d)
      BY <2>1 DEF SameClient, SameCommand, SameSems, SameTPCS
    <2>3. ASSUME NEW d \in Clients, d # tp.sess
          PROVE  About(tp', d)
      BY <2>1, <2>2, <2>3, OthersKept DEF SameTPSS
    <2>4. ASSUME NEW c \in Clients, c = tp.sess
          PROVE  About(tp', c)
      <3>1. SameClient(tp', tp, c) /\ SameCommand(tp'.hd[c], tp.hd[c])
        BY <2>2 DEF SameClient
      <3>2. Header(tp', c)
        BY <1>2, <2>1, <2>4, <3>1, HeaderKept DEF About, SameClient
      <3>3. ASSUME Current(tp', c)
            PROVE  Matched(tp', c)
        <4>1. Current(tp, c) /\ Matched(tp, c)
          BY <1>2, <3>1, <3>3 DEF Current, SameClient
        <4>2. tp'.sess = c /\ tp'.queue = tp.queue /\ tp'.cnt = tp.cnt /\ tp'.spc = "switch"
          BY <2>1, <2>4 DEF SameXchg, SameTPSS
        <4>3. Opening(tp', c)
          BY <1>1, <2>4, <3>1, <4>1, <4>2 DEF Matched, Opening, SameClient, SameCommand
        <4>4. Ready(tp', c) /\ Asked(tp', c) /\ Passed(tp', c)
          BY <1>1, <2>4, <3>1, <4>1, <4>2 DEF Matched, Ready, Resting, Asked, Passed, SameClient
        <4>5. Loose(tp', c) /\ (tp'.op[c] = "OPEN" => ~tp'.open[c])
          BY <3>1, <4>1, <4>2 DEF Matched, Loose, SameClient
        <4> QED BY <4>3, <4>4, <4>5 DEF Matched
      <3> QED BY <3>2, <3>3 DEF About
    <2>5. \A d \in Clients : About(tp', d)
      BY <2>3, <2>4
    <2>6. \A d \in Clients : (tp.csem[d] = None => tp'.pc[d] = "idle") /\ (Held(tp', d) => Held(tp, d))
      BY <1>2, <2>1 DEF Handles, Held, SameTPCS
    <2> QED BY <1>1, <2>1, <2>5, <2>6, SessionKept DEF SameTPSS, Busy
  <1> QED BY <1>3, <1>4

LEMMA SwitchOpenKeeps ==
  ASSUME TPSound(tp), ServerSwitch, tp.hd[tp.sess].cmd = "OPEN"
  PROVE  TPSound(tp')
  <1>1. tp.spc = "switch" /\ tp.spc \in Busy
    BY DEF ServerSwitch, Busy
  <1>2. /\ tp \in TPortalType /\ Handles(tp) /\ tp.sess \in Clients
        /\ \A d \in Clients : About(tp, d) /\ (Current(tp, d) => Matched(tp, d))
    BY <1>1, SoundFacts
  <1>3. /\ tp' \in TPortalType /\ SameSems(tp', tp) /\ SameXchg(tp', tp) /\ SameTPCS(tp', tp)
        /\ tp'.exists = tp.exists /\ tp'.sess = tp.sess /\ tp'.sz = tp.sz /\ tp'.direct = tp.direct
        /\ tp'.cnt = tp.cnt /\ tp'.pc = tp.pc /\ tp'.spc = "signal" /\ tp'.sopen = TRUE
        /\ tp'.scsem = tp.hd[tp.sess].csem /\ tp'.sssem = tp.hd[tp.sess].ssem
    BY <1>2, SwitchOpenIs
  <1>4. \A d \in Clients : SameClient(tp', tp, d)
    BY <1>3 DEF SameClient, SameCommand, SameSems, SameTPCS
  <1>5. ASSUME NEW c \in Clients, c = tp.sess
        PROVE  /\ tp.csem[c] # None
               /\ tp.hd[c].csem \in {None, tp.csem[c]} /\ tp.hd[c].ssem \in {None, tp.ssem[c]}
    BY <1>2, <1>5 DEF About, Header
  <1>6. ASSUME NEW d \in Clients, d # tp.sess
        PROVE  About(tp', d)
    <2>1. ASSUME Current(tp, d)
          PROVE  Loose(tp', d)
      <3>1. /\ tp.csem[d] # None /\ tp.ssem[d] # None
            /\ tp.csem[d] # tp.csem[tp.sess] /\ tp.csem[d] # tp.ssem[tp.sess]
            /\ tp.ssem[d] # tp.csem[tp.sess] /\ tp.ssem[d] # tp.ssem[tp.sess]
        BY <1>2, <1>5, <1>6, <2>1 DEF Current, Handles
      <3> QED BY <1>2, <1>3, <1>5, <3>1 DEF Loose, SameSems
    <2> QED BY <1>3, <1>4, <1>6, <2>1, OthersKept
  <1>7. ASSUME NEW c \in Clients, c = tp.sess
        PROVE  About(tp', c)
    <2>1. SameClient(tp', tp, c) /\ SameCommand(tp'.hd[c], tp.hd[c])
      BY <1>4 DEF SameClient
    <2>2. Header(tp', c)
      BY <1>2, <1>3, <1>7, <2>1, HeaderKept DEF About, SameClient
    <2>3. ASSUME Current(tp', c)
          PROVE  Matched(tp', c)
      <3>1. Current(tp, c) /\ Matched(tp, c)
        BY <1>2, <2>1, <2>3 DEF Current, SameClient
      <3>2. /\ tp'.sess = c /\ tp'.queue = tp.queue /\ tp'.cnt = tp.cnt /\ tp'.spc = "signal"
            /\ tp.hd[c].cmd = "OPEN" /\ tp'.sopen
            /\ tp'.scsem = tp.hd[c].csem /\ tp'.sssem = tp.hd[c].ssem
        BY <1>3, <1>7 DEF SameXchg
      <3>3. Opening(tp', c)
        BY <1>1, <1>7, <2>1, <3>1, <3>2 DEF Matched, Opening, Tied, SameClient, SameCommand
      <3>4. Ready(tp', c)
        BY <1>1, <1>7, <2>1, <3>1, <3>2 DEF Matched, Ready, Resting, SameClient
      <3>5. Asked(tp', c)
        BY <2>1, <3>1, <3>2 DEF Matched, Asked, SameClient
      <3>6. Passed(tp', c)
        BY <2>1, <3>1, <3>2 DEF Matched, Passed, SameClient
      <3>7. Loose(tp', c) /\ (tp'.op[c] = "OPEN" => ~tp'.open[c])
        BY <2>1, <3>1, <3>2 DEF Matched, Loose, SameClient
      <3> QED BY <3>3, <3>4, <3>5, <3>6, <3>7 DEF Matched
    <2> QED BY <2>2, <2>3 DEF About
  <1>8. \A d \in Clients : About(tp', d)
    BY <1>6, <1>7
  <1>9. \A d \in Clients : (tp.csem[d] = None => tp'.pc[d] = "idle") /\ (Held(tp', d) => Held(tp, d))
    BY <1>2, <1>3 DEF Handles, Held, SameTPCS
  <1> QED BY <1>1, <1>3, <1>8, <1>9, SessionKept DEF Busy


\* The server writes the rest of a header.
LEMMA HeaderServed ==
  ASSUME NEW p, NEW q, NEW c \in Clients, Header(p, c), q.pc[c] = p.pc[c],
         q.op[c] = p.op[c], q.left[c] = p.left[c], q.csem[c] = p.csem[c], q.ssem[c] = p.ssem[c],
         q.hd[c].cmd = p.hd[c].cmd, q.hd[c].csem = p.hd[c].csem, q.hd[c].ssem = p.hd[c].ssem,
         Contains(q.queue, c) \/ q.sess = c => Contains(p.queue, c) \/ p.sess = c
  PROVE  Header(q, c)
  BY DEF Header

\* What the client that the server serves is told.
Told(q, p, c) == /\ q.pc[c] = p.pc[c] /\ q.op[c] = p.op[c] /\ q.left[c] = p.left[c]
                 /\ q.csem[c] = p.csem[c] /\ q.ssem[c] = p.ssem[c] /\ q.sound[c] = p.sound[c]
                 /\ q.open[c] = p.open[c] /\ q.hd[c].cmd = p.hd[c].cmd
                 /\ q.hd[c].csem = p.hd[c].csem /\ q.hd[c].ssem = p.hd[c].ssem

\* The client whose command the server has read: its command is no OPEN.
LEMMA SwitchTold ==
  ASSUME TPSound(tp), tp.spc = "switch", NEW c \in Clients, c = tp.sess, Current(tp, c),
         tp.hd[c].cmd \in {"SEND", "RECEIVE"}
  PROVE  /\ Matched(tp, c) /\ ~Resting(tp, c)
         /\ ~(tp.op[c] = "OPEN" /\ tp.pc[c] \in {"test", "wait"})
         /\ ~(tp.op[c] \in {"SEND", "RECEIVE"} /\ tp.pc[c] = "passed")
         /\ tp.op[c] \in {"SEND", "RECEIVE"} /\ tp.pc[c] \in {"test", "wait"} =>
               /\ tp.op[c] = tp.hd[c].cmd /\ tp.stage[c] = "asked" /\ ~tp.cnt[tp.ssem[c]]
               /\ ~Contains(tp.queue, c) /\ Tied(tp, c) /\ ~tp.cnt[tp.csem[c]]
               /\ Counts(tp, c)
  <1>1. Matched(tp, c)
    BY SoundFacts
  <1>2. ~Resting(tp, c)
    BY <1>1 DEF Matched, Ready
  <1>3. ~(tp.op[c] = "OPEN" /\ tp.pc[c] \in {"test", "wait"})
    BY <1>1 DEF Matched, Opening
  <1>4. ~(tp.op[c] \in {"SEND", "RECEIVE"} /\ tp.pc[c] = "passed")
    BY <1>1 DEF Matched, Passed
  <1>5. tp.op[c] \in {"SEND", "RECEIVE"} /\ tp.pc[c] \in {"test", "wait"} =>
               /\ tp.op[c] = tp.hd[c].cmd /\ tp.stage[c] = "asked" /\ ~tp.cnt[tp.ssem[c]]
               /\ ~Contains(tp.queue, c) /\ Tied(tp, c) /\ ~tp.cnt[tp.csem[c]]
               /\ Counts(tp, c)
    BY <1>1 DEF Matched, Asked
  <1> QED BY <1>1, <1>2, <1>3, <1>4, <1>5

LEMMA SwitchSendKeeps ==
  ASSUME TPSound(tp), tp.spc = "switch", tp.hd[tp.sess].cmd = "SEND",
         tp' = [Begin(tp, tp.sess) EXCEPT !.spc = "send"]
  PROVE  TPSound(tp')
  <1>1. tp.spc \in Busy
    BY DEF Busy
  <1>2. /\ tp \in TPortalType /\ Handles(tp) /\ tp.sess \in Clients
        /\ \A d \in Clients : About(tp, d) /\ (Current(tp, d) => Matched(tp, d))
    BY <1>1, SoundFacts
  <1>3. /\ tp' \in TPortalType /\ SameSems(tp', tp) /\ SameXchg(tp', tp) /\ SameTPSS(tp', tp)
        /\ tp'.op = tp.op /\ tp'.cre = tp.cre /\ tp'.left = tp.left /\ tp'.open = tp.open
        /\ tp'.hd = tp.hd /\ tp'.sound = tp.sound /\ tp'.cnt = tp.cnt /\ tp'.pc = tp.pc
        /\ tp'.spc = "send"
        /\ tp'.stage = [tp.stage EXCEPT ![tp.sess] = IF tp.stage[tp.sess] = "asked" THEN "begun" ELSE "unasked"]
    BY <1>2, SwitchSendIs
  <1>4. /\ tp'.exists = tp.exists /\ tp'.sess = tp.sess /\ tp'.direct = tp.direct
        /\ tp'.sopen = tp.sopen /\ tp'.scsem = tp.scsem /\ tp'.sssem = tp.sssem
    BY <1>3 DEF SameTPSS
  <1>5. \A d \in Clients : tp'.stage[d] = IF d = tp.sess
                  THEN IF tp.stage[d] = "asked" THEN "begun" ELSE "unasked" ELSE tp.stage[d]
    <2>1. tp.stage \in [Clients -> TPStages]
      BY <1>2, TPFields
    <2> QED BY <1>3, <2>1
  <1>6. ASSUME NEW d \in Clients, d # tp.sess
        PROVE  About(tp', d)
    <2>1. SameClient(tp', tp, d)
      BY <1>3, <1>5, <1>6 DEF SameClient, SameCommand, SameSems
    <2> QED BY <1>3, <1>4, <1>6, <2>1, OthersKept
  <1>7. ASSUME NEW c \in Clients, c = tp.sess
        PROVE  About(tp', c)
    <2>1. /\ Told(tp', tp, c) /\ tp'.queue = tp.queue /\ tp'.sess = tp.sess /\ tp'.cnt = tp.cnt
          /\ tp'.hd = tp.hd
      BY <1>3, <1>4 DEF Told, SameSems, SameXchg
    <2>2. Header(tp', c)
      BY <1>2, <2>1, HeaderServed DEF About, Told
    <2>3. ASSUME Current(tp', c)
          PROVE  Matched(tp', c)
      <3>1. Current(tp, c)
        BY <2>1, <2>3 DEF Current, Told
      <3>2. /\ Matched(tp, c) /\ ~Resting(tp, c)
            /\ ~(tp.op[c] = "OPEN" /\ tp.pc[c] \in {"test", "wait"})
            /\ ~(tp.op[c] \in {"SEND", "RECEIVE"} /\ tp.pc[c] = "passed")
            /\ tp.op[c] \in {"SEND", "RECEIVE"} /\ tp.pc[c] \in {"test", "wait"} =>
                  /\ tp.op[c] = tp.hd[c].cmd /\ tp.stage[c] = "asked" /\ ~tp.cnt[tp.ssem[c]]
                  /\ ~Contains(tp.queue, c) /\ Tied(tp, c) /\ ~tp.cnt[tp.csem[c]]
                  /\ Counts(tp, c)
        BY <1>7, <3>1, SwitchTold
      <3>3. Opening(tp', c) /\ Passed(tp', c)
        BY <2>1, <3>2 DEF Opening, Passed, Told
      <3>4. Ready(tp', c)
        BY <2>1, <3>2 DEF Ready, Resting, Told
      <3>5. Asked(tp', c)
        <4> SUFFICES ASSUME tp.op[c] \in {"SEND", "RECEIVE"} /\ tp.pc[c] \in {"test", "wait"}
                     PROVE  Asked(tp', c)
          BY <2>1 DEF Asked, Told
        <4>1. tp'.stage[c] = "begun" /\ tp'.spc = "send" /\ tp.op[c] = "SEND"
          BY <1>3, <1>5, <1>7, <3>2
        <4>2. Tied(tp', c)
          BY <1>3, <1>4, <2>1, <3>2 DEF Tied, Told
        <4>3. Counts(tp', c)
          BY <2>1, <4>1 DEF Counts, Told
        <4> QED BY <2>1, <3>2, <4>1, <4>2, <4>3 DEF Asked, Told
      <3>6. Loose(tp', c) /\ (tp'.op[c] = "OPEN" => ~tp'.open[c])
        BY <1>7, <2>1, <3>2 DEF Matched, Loose, Told
      <3> QED BY <3>3, <3>4, <3>5, <3>6 DEF Matched
    <2> QED BY <2>2, <2>3 DEF About
  <1>8. \A d \in Clients : About(tp', d)
    BY <1>6, <1>7
  <1>9. \A d \in Clients : (tp.csem[d] = None => tp'.pc[d] = "idle") /\ (Held(tp', d) => Held(tp, d))
    BY <1>2, <1>3 DEF Handles, Held
  <1> QED BY <1>1, <1>3, <1>4, <1>8, <1>9, SessionKept DEF Busy

LEMMA SwitchReceiveKeeps ==
  ASSUME TPSound(tp), tp.spc = "switch", tp.hd[tp.sess].cmd = "RECEIVE",
         NEW n \in BlocksToGo(tp.hd[tp.sess]),
         tp' = [Begin(tp, tp.sess) EXCEPT !.spc = "recv", !.sz = n]
  PROVE  TPSound(tp')
  <1>1. tp.spc \in Busy
    BY DEF Busy
  <1>2. /\ tp \in TPortalType /\ Handles(tp) /\ tp.sess \in Clients
        /\ \A d \in Clients : About(tp, d) /\ (Current(tp, d) => Matched(tp, d))
    BY <1>1, SoundFacts
  <1>a. n \in 0..MaxBlocks
    <2>1. tp.sz \in 0..MaxBlocks \union {None} /\ tp.hd[tp.sess] \in TPHeader
      BY <1>2, TPFields
    <2> QED BY <2>1 DEF BlocksToGo, TPHeader
  <1>3. /\ tp' \in TPortalType /\ SameSems(tp', tp) /\ SameXchg(tp', tp) /\ tp'.exists = tp.exists
        /\ tp'.sess = tp.sess /\ tp'.sopen = tp.sopen /\ tp'.scsem = tp.scsem
        /\ tp'.sssem = tp.sssem /\ tp'.direct = tp.direct /\ tp'.op = tp.op /\ tp'.cre = tp.cre
        /\ tp'.left = tp.left /\ tp'.open = tp.open /\ tp'.hd = tp.hd /\ tp'.sound = tp.sound
        /\ tp'.cnt = tp.cnt /\ tp'.pc = tp.pc
        /\ tp'.spc = "recv"
        /\ tp'.stage = [tp.stage EXCEPT ![tp.sess] = IF tp.stage[tp.sess] = "asked" THEN "begun" ELSE "unasked"]
        /\ tp'.sz = n
    BY <1>2, <1>a, SwitchReceiveIs
  <1>4. n # None
    BY <1>a, TPKinds
  <1>5. \A d \in Clients : tp'.stage[d] = IF d = tp.sess
                  THEN IF tp.stage[d] = "asked" THEN "begun" ELSE "unasked" ELSE tp.stage[d]
    <2>1. tp.stage \in [Clients -> TPStages]
      BY <1>2, TPFields
    <2> QED BY <1>3, <2>1
  <1>6. ASSUME NEW d \in Clients, d # tp.sess
        PROVE  About(tp', d)
    <2>1. SameClient(tp', tp, d)
      BY <1>3, <1>5, <1>6 DEF SameClient, SameCommand, SameSems
    <2> QED BY <1>3, <1>4, <1>6, <2>1, OthersKept
  <1>7. ASSUME NEW c \in Clients, c = tp.sess
        PROVE  About(tp', c)
    <2>1. /\ Told(tp', tp, c) /\ tp'.queue = tp.queue /\ tp'.sess = tp.sess /\ tp'.cnt = tp.cnt
          /\ tp'.hd = tp.hd
      BY <1>3, <1>4 DEF Told, SameSems, SameXchg
    <2>2. Header(tp', c)
      BY <1>2, <2>1, HeaderServed DEF About, Told
    <2>3. ASSUME Current(tp', c)
          PROVE  Matched(tp', c)
      <3>1. Current(tp, c)
        BY <2>1, <2>3 DEF Current, Told
      <3>2. /\ Matched(tp, c) /\ ~Resting(tp, c)
            /\ ~(tp.op[c] = "OPEN" /\ tp.pc[c] \in {"test", "wait"})
            /\ ~(tp.op[c] \in {"SEND", "RECEIVE"} /\ tp.pc[c] = "passed")
            /\ tp.op[c] \in {"SEND", "RECEIVE"} /\ tp.pc[c] \in {"test", "wait"} =>
                  /\ tp.op[c] = tp.hd[c].cmd /\ tp.stage[c] = "asked" /\ ~tp.cnt[tp.ssem[c]]
                  /\ ~Contains(tp.queue, c) /\ Tied(tp, c) /\ ~tp.cnt[tp.csem[c]]
                  /\ Counts(tp, c)
        BY <1>7, <3>1, SwitchTold
      <3>3. Opening(tp', c) /\ Passed(tp', c)
        BY <2>1, <3>2 DEF Opening, Passed, Told
      <3>4. Ready(tp', c)
        BY <2>1, <3>2 DEF Ready, Resting, Told
      <3>5. Asked(tp', c)
        <4> SUFFICES ASSUME tp.op[c] \in {"SEND", "RECEIVE"} /\ tp.pc[c] \in {"test", "wait"}
                     PROVE  Asked(tp', c)
          BY <2>1 DEF Asked, Told
        <4>1. tp'.stage[c] = "begun" /\ tp'.spc = "recv" /\ tp.op[c] = "RECEIVE"
          BY <1>3, <1>5, <1>7, <3>2
        <4>2. Tied(tp', c)
          BY <1>3, <1>4, <2>1, <3>2 DEF Tied, Told
        <4>3. Counts(tp', c)
          <5>1. /\ tp.left[c] >= 1 /\ ~tp.hd[c].eod
                /\ tp.hd[c].sod => tp.hd[c].rqsz = tp.left[c]
                /\ ~tp.hd[c].sod => tp.sz = tp.left[c]
            BY <1>7, <3>2, <4>1 DEF Counts
          <5>2. tp.left[c] \in 0..MaxBlocks
            BY <1>2, TPFields
          <5>3. n = tp.left[c]
            BY <1>7, <5>1, <5>2, TPKinds DEF BlocksToGo
          <5> QED BY <1>3, <2>1, <4>1, <5>1, <5>3 DEF Counts, Told
        <4> QED BY <2>1, <3>2, <4>1, <4>2, <4>3 DEF Asked, Told
      <3>6. Loose(tp', c) /\ (tp'.op[c] = "OPEN" => ~tp'.open[c])
        BY <1>7, <2>1, <3>2 DEF Matched, Loose, Told
      <3> QED BY <3>3, <3>4, <3>5, <3>6 DEF Matched
    <2> QED BY <2>2, <2>3 DEF About
  <1>8. \A d \in Clients : About(tp', d)
    BY <1>6, <1>7
  <1>9. \A d \in Clients : (tp.csem[d] = None => tp'.pc[d] = "idle") /\ (Held(tp', d) => Held(tp, d))
    BY <1>2, <1>3 DEF Handles, Held
  <1> QED BY <1>1, <1>3, <1>4, <1>8, <1>9, SessionKept DEF Busy

LEMMA ServerSwitchKeeps ==
  ASSUME TPSound(tp), ServerSwitch
  PROVE  TPSound(tp')
  <1>1. tp.spc = "switch" /\ tp.spc \in Busy
    BY DEF ServerSwitch, Busy
  <1>2. CASE tp.hd[tp.sess].cmd = "OPEN"
    BY <1>2, SwitchOpenKeeps
  <1>3. CASE tp.hd[tp.sess].cmd = "SEND"
    <2>1. tp' = [Begin(tp, tp.sess) EXCEPT !.spc = "send"]
      BY <1>3 DEF ServerSwitch
    <2> QED BY <1>1, <1>3, <2>1, SwitchSendKeeps
  <1>4. CASE tp.hd[tp.sess].cmd = "RECEIVE"
    <2>1. PICK n \in BlocksToGo(tp.hd[tp.sess]) : tp' = [Begin(tp, tp.sess) EXCEPT !.spc = "recv", !.sz = n]
      BY <1>4 DEF ServerSwitch
    <2> QED BY <1>1, <1>4, <2>1, SwitchReceiveKeeps
  <1>5. CASE tp.hd[tp.sess].cmd = "CLOSE"
    <2>1. tp' = ToNextMsg(tp)
      BY <1>5 DEF ServerSwitch
    <2> QED BY <1>1, <2>1, NextMsgKeeps
  <1> QED BY <1>2, <1>3, <1>4, <1>5 DEF ServerSwitch

\* The server function has answered: it wrote header h, and perhaps sz.
Answered(m, p, c, h) ==
    /\ m \in TPortalType /\ SameSems(m, p) /\ SameXchg(m, p)
    /\ m.exists = p.exists /\ m.sess = p.sess /\ m.sopen = p.sopen /\ m.scsem = p.scsem
    /\ m.sssem = p.sssem /\ m.direct = p.direct /\ m.op = p.op /\ m.left = p.left
    /\ m.open = p.open /\ m.sound = p.sound /\ m.stage = p.stage /\ m.cnt = p.cnt /\ m.pc = p.pc
    /\ m.hd = [p.hd EXCEPT ![c] = h]
    /\ h.cmd = p.hd[c].cmd /\ ~h.sod /\ h.csem = p.hd[c].csem /\ h.ssem = p.hd[c].ssem
    /\ p.spc = "recv" => /\ m.sz \in 0..MaxBlocks /\ m.sz = IF p.sz = 0 THEN 0 ELSE p.sz - 1
                         /\ h.eod <=> m.sz = 0 \/ p.hd[c].eod

\* A client whose block the server has served waits for the answer.
LEMMA AnsweredTold ==
  ASSUME TPSound(tp), tp.spc \in {"send", "recv"}, NEW c \in Clients, c = tp.sess, Current(tp, c)
  PROVE  /\ Matched(tp, c) /\ ~Resting(tp, c)
         /\ ~(tp.op[c] = "OPEN" /\ tp.pc[c] \in {"test", "wait"})
         /\ ~(tp.op[c] \in {"SEND", "RECEIVE"} /\ tp.pc[c] = "passed")
         /\ tp.op[c] \in {"SEND", "RECEIVE"} /\ tp.pc[c] \in {"test", "wait"} =>
               /\ ~Contains(tp.queue, c) /\ tp.hd[c].cmd = tp.op[c] /\ Tied(tp, c)
               /\ ~tp.cnt[tp.csem[c]] /\ ~tp.cnt[tp.ssem[c]] /\ tp.stage[c] = "begun"
               /\ tp.spc = (IF tp.op[c] = "SEND" THEN "send" ELSE "recv")
               /\ Counts(tp, c)
  <1>1. Matched(tp, c)
    BY SoundFacts
  <1>2. ~Resting(tp, c)
    BY <1>1 DEF Matched, Ready
  <1>3. ~(tp.op[c] = "OPEN" /\ tp.pc[c] \in {"test", "wait"})
    BY <1>1 DEF Matched, Opening
  <1>4. ~(tp.op[c] \in {"SEND", "RECEIVE"} /\ tp.pc[c] = "passed")
    BY <1>1 DEF Matched, Passed
  <1>5. tp.op[c] \in {"SEND", "RECEIVE"} /\ tp.pc[c] \in {"test", "wait"} =>
               /\ ~Contains(tp.queue, c) /\ tp.hd[c].cmd = tp.op[c] /\ Tied(tp, c)
               /\ ~tp.cnt[tp.csem[c]] /\ ~tp.cnt[tp.ssem[c]] /\ tp.stage[c] = "begun"
               /\ tp.spc = (IF tp.op[c] = "SEND" THEN "send" ELSE "recv")
               /\ Counts(tp, c)
    BY <1>1 DEF Matched, Asked
  <1> QED BY <1>1, <1>2, <1>3, <1>4, <1>5

\* The loop of the server goes on.
LEMMA ServedKeeps ==
  ASSUME TPSound(tp), tp.spc \in {"send", "recv"}, tp.sopen, NEW m, NEW h,
         Answered(m, tp, tp.sess, h), tp' = ServerServed(m)
  PROVE  TPSound(tp')
  <1>1. tp.spc \in Busy
    BY DEF Busy
  <1>2. /\ tp \in TPortalType /\ Handles(tp) /\ tp.sess \in Clients
        /\ \A d \in Clients : About(tp, d) /\ (Current(tp, d) => Matched(tp, d))
    BY <1>1, SoundFacts
  <1>3. m \in TPortalType /\ m.sess \in Clients /\ m.sopen
    BY <1>2 DEF Answered
  <1>4. /\ tp' \in TPortalType /\ SameSems(tp', m) /\ SameXchg(tp', m) /\ SameTPSS(tp', m)
        /\ tp'.op = m.op /\ tp'.cre = m.cre /\ tp'.left = m.left /\ tp'.open = m.open
        /\ tp'.hd = m.hd /\ tp'.sound = m.sound /\ tp'.cnt = m.cnt /\ tp'.pc = m.pc
        /\ tp'.stage = [m.stage EXCEPT ![m.sess] = IF m.stage[m.sess] = "begun" THEN "done" ELSE m.stage[m.sess]]
        /\ tp'.spc = "signal"
    BY <1>3, ServedIs
  <1>5. /\ SameSems(tp', tp) /\ SameXchg(tp', tp) /\ tp'.exists = tp.exists /\ tp'.sess = tp.sess
        /\ tp'.sopen = tp.sopen /\ tp'.scsem = tp.scsem /\ tp'.sssem = tp.sssem
        /\ tp'.direct = tp.direct /\ tp'.op = tp.op /\ tp'.left = tp.left /\ tp'.open = tp.open
        /\ tp'.sound = tp.sound /\ tp'.cnt = tp.cnt /\ tp'.pc = tp.pc /\ tp'.sz = m.sz
    BY <1>4 DEF Answered, SameSems, SameXchg, SameTPSS
  <1>6. \A d \in Clients : /\ tp'.hd[d] = IF d = tp.sess THEN h ELSE tp.hd[d]
                           /\ tp'.stage[d] = IF d = tp.sess /\ tp.stage[d] = "begun" THEN "done"
                                             ELSE tp.stage[d]
    <2>1. tp.stage \in [Clients -> TPStages] /\ tp.hd \in [Clients -> TPHeader]
      BY <1>2, TPFields
    <2>2. /\ m.hd = [tp.hd EXCEPT ![tp.sess] = h] /\ m.stage = tp.stage /\ m.sess = tp.sess
      BY DEF Answered
    <2> QED BY <1>2, <1>4, <2>1, <2>2
  <1>7. ASSUME NEW d \in Clients, d # tp.sess
        PROVE  About(tp', d)
    <2>1. SameClient(tp', tp, d)
      BY <1>5, <1>6, <1>7 DEF SameClient, SameCommand, SameSems
    <2> QED BY <1>5, <1>7, <2>1, OthersKept
  <1>8. ASSUME NEW c \in Clients, c = tp.sess
        PROVE  About(tp', c)
    <2>1. /\ Told(tp', tp, c) /\ tp'.queue = tp.queue /\ tp'.sess = tp.sess /\ tp'.cnt = tp.cnt
          /\ tp'.hd[c] = h
      BY <1>5, <1>6, <1>8 DEF Told, SameSems, SameXchg, Answered
    <2>2. Header(tp', c)
      BY <1>2, <2>1, HeaderServed DEF About, Told
    <2>3. ASSUME Current(tp', c)
          PROVE  Matched(tp', c)
      <3>1. Current(tp, c)
        BY <2>1, <2>3 DEF Current, Told
      <3>2. /\ Matched(tp, c) /\ ~Resting(tp, c)
            /\ ~(tp.op[c] = "OPEN" /\ tp.pc[c] \in {"test", "wait"})
            /\ ~(tp.op[c] \in {"SEND", "RECEIVE"} /\ tp.pc[c] = "passed")
            /\ tp.op[c] \in {"SEND", "RECEIVE"} /\ tp.pc[c] \in {"test", "wait"} =>
                  /\ ~Contains(tp.queue, c) /\ tp.hd[c].cmd = tp.op[c] /\ Tied(tp, c)
                  /\ ~tp.cnt[tp.csem[c]] /\ ~tp.cnt[tp.ssem[c]] /\ tp.stage[c] = "begun"
                  /\ tp.spc = (IF tp.op[c] = "SEND" THEN "send" ELSE "recv")
                  /\ Counts(tp, c)
        BY <1>8, <3>1, AnsweredTold
      <3>3. Opening(tp', c) /\ Passed(tp', c)
        BY <2>1, <3>2 DEF Opening, Passed, Told
      <3>4. Ready(tp', c)
        BY <2>1, <3>2 DEF Ready, Resting, Told
      <3>5. Asked(tp', c)
        <4> SUFFICES ASSUME tp.op[c] \in {"SEND", "RECEIVE"} /\ tp.pc[c] \in {"test", "wait"}
                     PROVE  Asked(tp', c)
          BY <2>1 DEF Asked, Told
        <4>1. tp'.stage[c] = "done" /\ tp'.spc = "signal"
          BY <1>4, <1>6, <1>8, <3>2
        <4>2. Tied(tp', c)
          BY <1>5, <2>1, <3>2 DEF Tied, Told
        <4>3. Counts(tp', c)
          <5> SUFFICES ASSUME tp.op[c] = "RECEIVE"
                       PROVE  Counts(tp', c)
            BY <2>1 DEF Counts, Told
          <5>1. tp.left[c] >= 1 /\ ~tp.hd[c].eod /\ tp.sz = tp.left[c] /\ tp.spc = "recv"
            BY <1>8, <3>2 DEF Counts
          <5>2. tp.left[c] \in Nat
            BY <1>2, TPFields, TPKinds
          <5>3. ~h.sod /\ tp'.sz = tp.left[c] - 1 /\ (h.eod <=> tp.left[c] = 1)
            <6>1. m.sz = (IF tp.sz = 0 THEN 0 ELSE tp.sz - 1) /\ ~h.sod /\ (h.eod <=> m.sz = 0 \/ tp.hd[c].eod)
              BY <1>8, <5>1 DEF Answered
            <6>2. m.sz = tp.left[c] - 1
              BY <5>1, <5>2, <6>1
            <6>3. h.eod <=> tp.left[c] - 1 = 0
              BY <5>1, <6>1, <6>2
            <6> QED BY <1>5, <5>2, <6>1, <6>2, <6>3
          <5> QED BY <2>1, <4>1, <5>1, <5>3 DEF Counts, Told
        <4>4. tp'.hd[c].cmd = tp.hd[c].cmd
          BY <2>1 DEF Told
        <4> QED BY <2>1, <3>2, <4>1, <4>2, <4>3, <4>4 DEF Asked, Told
      <3>6. Loose(tp', c) /\ (tp'.op[c] = "OPEN" => ~tp'.open[c])
        BY <1>8, <2>1, <3>2 DEF Matched, Loose, Told
      <3> QED BY <3>3, <3>4, <3>5, <3>6 DEF Matched
    <2> QED BY <2>2, <2>3 DEF About
  <1>9. \A d \in Clients : About(tp', d)
    BY <1>7, <1>8
  <1>10. \A d \in Clients : (tp.csem[d] = None => tp'.pc[d] = "idle") /\ (Held(tp', d) => Held(tp, d))
    BY <1>2, <1>5 DEF Handles, Held
  <1> QED BY <1>1, <1>4, <1>5, <1>9, <1>10, SessionKept DEF Busy

\* The portal is not open: it ends.
LEMMA ServedLastKeeps ==
  ASSUME TPSound(tp), tp.spc \in {"send", "recv"}, ~tp.sopen, NEW m, NEW h,
         Answered(m, tp, tp.sess, h), tp' = ServerServed(m)
  PROVE  TPSound(tp')
  <1>1. tp.spc \in Busy
    BY DEF Busy
  <1>2. /\ tp \in TPortalType /\ Handles(tp) /\ tp.sess \in Clients
        /\ \A d \in Clients : About(tp, d) /\ (Current(tp, d) => Matched(tp, d))
    BY <1>1, SoundFacts
  <1>3. m \in TPortalType /\ m.sess \in Clients /\ ~m.sopen
    BY <1>2 DEF Answered
  <1>4. /\ tp' \in TPortalType /\ SameSems(tp', m) /\ SameXchg(tp', m) /\ tp'.exists = m.exists
        /\ tp'.sz = m.sz /\ tp'.op = m.op /\ tp'.cre = m.cre /\ tp'.left = m.left /\ tp'.open = m.open
        /\ tp'.hd = m.hd /\ tp'.sound = m.sound /\ tp'.cnt = m.cnt /\ tp'.pc = m.pc
        /\ tp'.stage = [m.stage EXCEPT ![m.sess] = IF m.stage[m.sess] = "begun" THEN "done" ELSE m.stage[m.sess]]
        /\ tp'.spc = "idle" /\ tp'.sess = None /\ tp'.sopen = FALSE /\ tp'.direct = FALSE
        /\ tp'.scsem = None /\ tp'.sssem = None
    BY <1>3, ServedLastIs
  <1>5. /\ SameSems(tp', tp) /\ SameXchg(tp', tp) /\ tp'.exists = tp.exists /\ tp'.op = tp.op
        /\ tp'.left = tp.left /\ tp'.open = tp.open /\ tp'.sound = tp.sound /\ tp'.cnt = tp.cnt
        /\ tp'.pc = tp.pc
    BY <1>4 DEF Answered, SameSems, SameXchg
  <1>6. \A d \in Clients : /\ tp'.hd[d] = IF d = tp.sess THEN h ELSE tp.hd[d]
                           /\ d # tp.sess => tp'.stage[d] = tp.stage[d]
    <2>1. tp.stage \in [Clients -> TPStages] /\ tp.hd \in [Clients -> TPHeader]
      BY <1>2, TPFields
    <2>2. /\ m.hd = [tp.hd EXCEPT ![tp.sess] = h] /\ m.stage = tp.stage /\ m.sess = tp.sess
      BY DEF Answered
    <2> QED BY <1>2, <1>4, <2>1, <2>2
  <1>7. \A d \in Clients : d # tp.sess => SameClient(tp', tp, d)
    BY <1>5, <1>6 DEF SameClient, SameCommand, SameSems
  <1>8. ASSUME NEW c \in Clients, c = tp.sess
        PROVE  About(tp', c)
    <2>1. /\ Told(tp', tp, c) /\ tp'.queue = tp.queue
      BY <1>5, <1>6, <1>8 DEF Told, SameSems, SameXchg, Answered
    <2>2. Header(tp', c)
      BY <1>2, <1>8, <2>1, HeaderServed DEF About, Told
    <2>3. ASSUME Current(tp', c)
          PROVE  Matched(tp', c)
      <3>1. Current(tp, c)
        BY <2>1, <2>3 DEF Current, Told
      <3>2. /\ Matched(tp, c) /\ ~Resting(tp, c)
            /\ ~(tp.op[c] = "OPEN" /\ tp.pc[c] \in {"test", "wait"})
            /\ ~(tp.op[c] \in {"SEND", "RECEIVE"} /\ tp.pc[c] = "passed")
            /\ ~(tp.op[c] \in {"SEND", "RECEIVE"} /\ tp.pc[c] \in {"test", "wait"})
        BY <1>8, <3>1, AnsweredTold DEF Tied
      <3>3. Opening(tp', c) /\ Passed(tp', c) /\ Asked(tp', c)
        BY <2>1, <3>2 DEF Opening, Passed, Asked, Told
      <3>4. Ready(tp', c)
        BY <2>1, <3>2 DEF Ready, Resting, Told
      <3>5. tp.csem[c] # None /\ tp.ssem[c] # None
        BY <3>1, SoundFacts
      <3>6. Loose(tp', c) /\ (tp'.op[c] = "OPEN" => ~tp'.open[c])
        BY <1>4, <2>1, <3>2, <3>5 DEF Matched, Loose, Told
      <3> QED BY <3>3, <3>4, <3>6 DEF Matched
    <2> QED BY <2>2, <2>3 DEF About
  <1> QED BY <1>1, <1>2, <1>4, <1>5, <1>7, <1>8, SessionLeft

LEMMA ServerSentKeeps ==
  ASSUME TPSound(tp), ServerSent
  PROVE  TPSound(tp')
  <1>1. tp.spc = "send" /\ tp.spc \in Busy
    BY DEF ServerSent, Busy
  <1>2. tp \in TPortalType /\ tp.sess \in Clients
    BY <1>1, SoundFacts
  <1>3. \E fails \in BOOLEAN : tp' = ServerServed(HeaderRecord(tp, tp.sess,
              [tp.hd[tp.sess] EXCEPT !.sod = FALSE, !.eod = FALSE, !.inc = tp.hd[tp.sess].inc \/ fails]))
    BY DEF ServerSent, HeaderRecord
  <1>4. PICK fails \in BOOLEAN : tp' = ServerServed(HeaderRecord(tp, tp.sess,
              [tp.hd[tp.sess] EXCEPT !.sod = FALSE, !.eod = FALSE, !.inc = tp.hd[tp.sess].inc \/ fails]))
    BY <1>3
  <1> DEFINE c == tp.sess
             inc == tp.hd[c].inc \/ fails
             h == [tp.hd[c] EXCEPT !.sod = FALSE, !.eod = FALSE, !.inc = inc]
             m == HeaderRecord(tp, c, h)
  <1>5. tp' = ServerServed(m) /\ m = HeaderRecord(tp, c, h) /\ c \in Clients
    BY <1>2, <1>4
  <1>6. /\ h \in TPHeader /\ h.cmd = tp.hd[c].cmd /\ ~h.sod
        /\ h.csem = tp.hd[c].csem /\ h.ssem = tp.hd[c].ssem
    <2>1. tp.hd[c] \in TPHeader
      BY <1>2, TPFields
    <2>2. inc \in BOOLEAN
      BY <2>1 DEF TPHeader
    <2> HIDE DEF inc, c
    <2> QED BY <2>1, <2>2 DEF TPHeader
  <1> HIDE DEF h, m
  <1>7. /\ m \in TPortalType /\ SameSems(m, tp) /\ SameXchg(m, tp) /\ SameTPSS(m, tp) /\ m.op = tp.op
        /\ m.cre = tp.cre /\ m.left = tp.left /\ m.open = tp.open /\ m.sound = tp.sound
        /\ m.stage = tp.stage /\ m.cnt = tp.cnt /\ m.pc = tp.pc /\ m.spc = tp.spc
        /\ m.hd = [tp.hd EXCEPT ![c] = h]
    BY <1>2, <1>5, <1>6, HeaderIs
  <1>8. Answered(m, tp, tp.sess, h)
    BY <1>1, <1>6, <1>7 DEF Answered, SameTPSS
  <1> QED BY <1>1, <1>5, <1>8, ServedKeeps, ServedLastKeeps

LEMMA ServerReceivedKeeps ==
  ASSUME TPSound(tp), ServerReceived
  PROVE  TPSound(tp')
  <1>1. tp.spc = "recv" /\ tp.spc \in Busy
    BY DEF ServerReceived, Busy
  <1>2. tp \in TPortalType /\ tp.sess \in Clients /\ Serving(tp)
    BY <1>1, SoundFacts
  <1> DEFINE n == Max({tp.sz - 1, 0})
  <1>3. \E fails \in BOOLEAN : tp' = ServerServed(SizedRecord(tp, n, tp.sess,
              [tp.hd[tp.sess] EXCEPT !.sod = FALSE, !.eod = SetEod(n, tp.hd[tp.sess].eod),
                                     !.inc = tp.hd[tp.sess].inc \/ fails]))
    BY DEF ServerReceived, SizedRecord
  <1>4. PICK fails \in BOOLEAN : tp' = ServerServed(SizedRecord(tp, n, tp.sess,
              [tp.hd[tp.sess] EXCEPT !.sod = FALSE, !.eod = SetEod(n, tp.hd[tp.sess].eod),
                                     !.inc = tp.hd[tp.sess].inc \/ fails]))
    BY <1>3
  <1>a. n \in 0..MaxBlocks /\ n = IF tp.sz = 0 THEN 0 ELSE tp.sz - 1
    <2>1. tp.sz \in 0..MaxBlocks
      BY <1>1, <1>2, TPFields DEF Serving
    <2>2. CASE tp.sz = 0
      <3>1. n = 0
        <4>1. {tp.sz - 1, 0} = {0 - 1, 0}
          BY <2>2
        <4>2. \A z \in {0 - 1, 0} : (\A w \in {0 - 1, 0} : z >= w) <=> z = 0
          OBVIOUS
        <4>3. Max({0 - 1, 0}) = 0
          BY <4>2, Zenon DEF Max
        <4> QED BY <4>1, <4>3
      <3> QED BY <2>2, <3>1, TPKinds
    <2>3. CASE tp.sz # 0
      <3>1. tp.sz - 1 \in Nat /\ tp.sz - 1 >= 0 /\ 0 \in Nat
        BY <2>1, <2>3, TPKinds
      <3>2. n = tp.sz - 1
        BY <3>1, MaxOfTwo
      <3> QED BY <2>1, <2>3, <3>2, TPKinds
    <2> QED BY <2>2, <2>3
  <1> HIDE DEF n
  <1> DEFINE c == tp.sess
             inc == tp.hd[c].inc \/ fails
             eod == SetEod(n, tp.hd[c].eod)
             h == [tp.hd[c] EXCEPT !.sod = FALSE, !.eod = eod, !.inc = inc]
             m == SizedRecord(tp, n, c, h)
  <1>5. tp' = ServerServed(m) /\ m = SizedRecord(tp, n, c, h) /\ c \in Clients
    BY <1>2, <1>4
  <1>6. /\ h \in TPHeader /\ h.cmd = tp.hd[c].cmd /\ ~h.sod /\ (h.eod <=> n = 0 \/ tp.hd[c].eod)
        /\ h.csem = tp.hd[c].csem /\ h.ssem = tp.hd[c].ssem
    <2>1. tp.hd[c] \in TPHeader
      BY <1>2, TPFields
    <2>2. inc \in BOOLEAN /\ eod \in BOOLEAN
      BY <2>1 DEF TPHeader, SetEod
    <2>3. eod <=> n = 0 \/ tp.hd[c].eod
      BY DEF SetEod
    <2> HIDE DEF inc, eod, c
    <2>4. /\ h \in TPHeader /\ h.cmd = tp.hd[c].cmd /\ ~h.sod /\ h.eod = eod
          /\ h.csem = tp.hd[c].csem /\ h.ssem = tp.hd[c].ssem
      BY <2>1, <2>2 DEF TPHeader
    <2> QED BY <2>3, <2>4
  <1> HIDE DEF h, m
  <1>7. /\ m \in TPortalType /\ SameSems(m, tp) /\ SameXchg(m, tp) /\ m.exists = tp.exists
        /\ m.sess = tp.sess /\ m.sopen = tp.sopen /\ m.scsem = tp.scsem /\ m.sssem = tp.sssem
        /\ m.direct = tp.direct /\ m.op = tp.op /\ m.cre = tp.cre /\ m.left = tp.left
        /\ m.open = tp.open /\ m.sound = tp.sound /\ m.stage = tp.stage /\ m.cnt = tp.cnt
        /\ m.pc = tp.pc /\ m.spc = tp.spc /\ m.sz = n /\ m.hd = [tp.hd EXCEPT ![c] = h]
    BY <1>2, <1>a, <1>5, <1>6, SizedHeaderIs
  <1>8. Answered(m, tp, tp.sess, h)
    BY <1>a, <1>6, <1>7 DEF Answered
  <1> QED BY <1>1, <1>5, <1>8, ServedKeeps, ServedLastKeeps
\* The server before csem is signalled, and when it waits.
LEMMA SignalMid ==
  ASSUME tp \in TPortalType, NEW m, m = [tp EXCEPT !.spc = "test"]
  PROVE  /\ m \in TPortalType /\ SameSems(m, tp) /\ SameXchg(m, tp) /\ SameTPSS(m, tp)
         /\ SameTPCS(m, tp) /\ m.cnt = tp.cnt /\ m.pc = tp.pc
         /\ m.spc = "test"
  <1> DEFINE spc2 == "test"
  <1>1. m = [tp EXCEPT !.spc = spc2]
    BY TPFields
  <1>2. spc2 \in TPSpcs
    BY TPFields, TPKinds DEF TPSpcs, Busy
  <1> HIDE DEF spc2
  <1>3. /\ SameSems(m, tp) /\ SameXchg(m, tp) /\ SameTPSS(m, tp) /\ SameTPCS(m, tp) /\ m.cnt = tp.cnt
       /\ m.pc = tp.pc /\ m.spc = spc2
    BY <1>1 DEF TPortalType, SameSems, SameXchg, SameTPSS, SameTPCS
  <1>4. IsTP(m)
    BY <1>1, IsTPType DEF IsTP
  <1>5. m \in TPortalType
    BY <1>2, <1>3, <1>4, TPFields, TPTyped DEF SameSems, SameXchg, SameTPSS, SameTPCS
  <1> QED BY <1>3, <1>5 DEF spc2

LEMMA ServerSleepsIs ==
  ASSUME tp \in TPortalType, tp' = [tp EXCEPT !.spc = "wait"]
  PROVE  /\ tp' \in TPortalType /\ SameSems(tp', tp) /\ SameXchg(tp', tp) /\ SameTPSS(tp', tp)
         /\ SameTPCS(tp', tp) /\ tp'.cnt = tp.cnt /\ tp'.pc = tp.pc
         /\ tp'.spc = "wait"
  <1> DEFINE spc2 == "wait"
  <1>1. tp' = [tp EXCEPT !.spc = spc2]
    BY TPFields
  <1>2. spc2 \in TPSpcs
    BY TPFields, TPKinds DEF TPSpcs, Busy
  <1> HIDE DEF spc2
  <1>3. /\ SameSems(tp', tp) /\ SameXchg(tp', tp) /\ SameTPSS(tp', tp) /\ SameTPCS(tp', tp)
       /\ tp'.cnt = tp.cnt /\ tp'.pc = tp.pc /\ tp'.spc = spc2
    BY <1>1 DEF TPortalType, SameSems, SameXchg, SameTPSS, SameTPCS
  <1>4. IsTP(tp')
    BY <1>1, IsTPType DEF IsTP
  <1>5. tp' \in TPortalType
    BY <1>2, <1>3, <1>4, TPFields, TPTyped DEF SameSems, SameXchg, SameTPSS, SameTPCS
  <1> QED BY <1>3, <1>5 DEF spc2


\* The client whose answer the server signals waits for it, or tests csem next.
LEMMA SignalTold ==
  ASSUME TPSound(tp), tp.spc = "signal", NEW c \in Clients, c = tp.sess, Current(tp, c)
  PROVE  /\ Matched(tp, c) /\ ~Resting(tp, c)
         /\ ~(tp.op[c] \in {"SEND", "RECEIVE"} /\ tp.pc[c] = "passed")
         /\ tp.pc[c] \in {"test", "wait"} =>
               /\ Tied(tp, c) /\ ~Contains(tp.queue, c) /\ Quiet(tp, c)
               /\ tp.op[c] # "OPEN" => /\ tp.op[c] \in {"SEND", "RECEIVE"} /\ tp.stage[c] = "done"
                                       /\ tp.hd[c].cmd = tp.op[c] /\ Counts(tp, c)
               /\ tp.op[c] = "OPEN" => /\ tp.hd[c].cmd = "OPEN" /\ tp.hd[c].csem = tp.csem[c]
                                       /\ tp.hd[c].ssem = tp.ssem[c]
  <1>1. Matched(tp, c) /\ Header(tp, c)
    BY SoundFacts
  <1>2. ~Resting(tp, c)
    BY <1>1 DEF Matched, Ready
  <1>3. ~(tp.op[c] \in {"SEND", "RECEIVE"} /\ tp.pc[c] = "passed")
    BY <1>1 DEF Matched, Passed
  <1>4. ASSUME tp.pc[c] \in {"test", "wait"}, tp.op[c] = "OPEN"
        PROVE  /\ Tied(tp, c) /\ ~Contains(tp.queue, c) /\ Quiet(tp, c)
               /\ tp.hd[c].cmd = "OPEN" /\ tp.hd[c].csem = tp.csem[c] /\ tp.hd[c].ssem = tp.ssem[c]
    BY <1>1, <1>4 DEF Matched, Opening, Quiet
  <1>5. ASSUME tp.pc[c] \in {"test", "wait"}, tp.op[c] # "OPEN"
        PROVE  /\ Tied(tp, c) /\ ~Contains(tp.queue, c) /\ Quiet(tp, c)
               /\ tp.op[c] \in {"SEND", "RECEIVE"} /\ tp.stage[c] = "done"
               /\ tp.hd[c].cmd = tp.op[c] /\ Counts(tp, c)
    <2>1. tp.op[c] \in {"SEND", "RECEIVE"}
      <3>1. tp.op[c] \in TPOps
        BY SoundFacts, TPFields
      <3>2. tp.op[c] # "NOP"
        BY <1>1, <1>5 DEF Header
      <3> QED BY <1>5, <3>1, <3>2 DEF TPOps
    <2> QED BY <1>1, <1>5, <2>1 DEF Matched, Asked, Quiet
  <1> QED BY <1>1, <1>2, <1>3, <1>4, <1>5

\* The outcomes for that client.
LEMMA SignalAnswers ==
  ASSUME TPSound(tp), tp.spc = "signal", NEW c \in Clients, c = tp.sess,
         SameSems(tp', tp), SameXchg(tp', tp), SameTPSS(tp', tp), SameTPCS(tp', tp), tp'.spc = "test",
         \/ tp.pc[c] \notin {"test", "wait"} /\ tp'.pc[c] = tp.pc[c]
         \/ tp.pc[c] = "test" /\ tp'.pc[c] = "test" /\
            (Current(tp, c) => tp'.cnt[tp.csem[c]] /\ tp'.cnt[tp.ssem[c]] = tp.cnt[tp.ssem[c]])
         \/ tp.pc[c] = "wait" /\ tp'.pc[c] = "wait" /\ ~Current(tp, c)
         \/ tp.pc[c] = "wait" /\ tp'.pc[c] = "passed" /\ tp'.cnt = tp.cnt
  PROVE  About(tp', c)
  <1>1. Header(tp', c)
    <2>1. Header(tp, c)
      BY SoundFacts DEF About
    <2>2. /\ tp'.op[c] = tp.op[c] /\ tp'.left[c] = tp.left[c] /\ tp'.csem[c] = tp.csem[c]
          /\ tp'.ssem[c] = tp.ssem[c] /\ SameCommand(tp'.hd[c], tp.hd[c])
          /\ Contains(tp'.queue, c) \/ tp'.sess = c => Contains(tp.queue, c) \/ tp.sess = c
      BY DEF SameSems, SameXchg, SameTPSS, SameTPCS, SameCommand
    <2> QED BY <2>1, <2>2, HeaderKept
  <1>2. ASSUME Current(tp', c)
        PROVE  Matched(tp', c)
    <2>1. Current(tp, c)
      BY <1>2 DEF Current, SameSems, SameTPCS
    <2>2. /\ Matched(tp, c) /\ ~Resting(tp, c)
          /\ ~(tp.op[c] \in {"SEND", "RECEIVE"} /\ tp.pc[c] = "passed")
          /\ tp.pc[c] \in {"test", "wait"} =>
               /\ Tied(tp, c) /\ ~Contains(tp.queue, c) /\ Quiet(tp, c)
               /\ tp.op[c] # "OPEN" => /\ tp.op[c] \in {"SEND", "RECEIVE"} /\ tp.stage[c] = "done"
                                       /\ tp.hd[c].cmd = tp.op[c] /\ Counts(tp, c)
               /\ tp.op[c] = "OPEN" => /\ tp.hd[c].cmd = "OPEN" /\ tp.hd[c].csem = tp.csem[c]
                                       /\ tp.hd[c].ssem = tp.ssem[c]
      BY <2>1, SignalTold
    <2>3. /\ tp'.csem = tp.csem /\ tp'.ssem = tp.ssem /\ tp'.queue = tp.queue /\ tp'.sess = c
          /\ tp'.op = tp.op /\ tp'.hd = tp.hd /\ tp'.open = tp.open /\ tp'.stage = tp.stage
          /\ tp'.left = tp.left /\ tp'.sz = tp.sz
          /\ tp'.sopen = tp.sopen /\ tp'.scsem = tp.scsem /\ tp'.sssem = tp.sssem
      BY DEF SameSems, SameXchg, SameTPSS, SameTPCS
    <2>4. /\ Tied(tp, c) => Tied(tp', c)
          /\ Counts(tp, c) => Counts(tp', c)
      BY <2>3 DEF Tied, Counts
    <2>5. Loose(tp', c) /\ (tp'.op[c] = "OPEN" => ~tp'.open[c])
      BY <2>2, <2>3 DEF Matched, Loose
    <2>6. CASE tp.pc[c] \notin {"test", "wait"} /\ tp'.pc[c] = tp.pc[c]
      <3>1. Opening(tp', c) /\ Asked(tp', c)
        BY <2>3, <2>6 DEF Opening, Asked
      <3>2. Ready(tp', c) /\ Passed(tp', c)
        BY <2>2, <2>3, <2>6 DEF Ready, Resting, Passed
      <3> QED BY <2>5, <3>1, <3>2 DEF Matched
    <2>7. CASE /\ tp.pc[c] = "test" /\ tp'.pc[c] = "test"
               /\ tp'.cnt[tp.csem[c]] /\ tp'.cnt[tp.ssem[c]] = tp.cnt[tp.ssem[c]]
      <3>1. Opening(tp', c)
        BY <2>2, <2>3, <2>4, <2>7 DEF Opening, Quiet
      <3>2. Asked(tp', c)
        BY <2>2, <2>3, <2>4, <2>7 DEF Asked, Quiet
      <3>3. Ready(tp', c) /\ Passed(tp', c)
        BY <2>2, <2>3, <2>7 DEF Matched, Ready, Resting, Passed
      <3> QED BY <2>5, <3>1, <3>2, <3>3 DEF Matched
    <2>8. CASE tp.pc[c] = "wait" /\ tp'.pc[c] = "passed" /\ tp'.cnt = tp.cnt
      <3>1. Opening(tp', c) /\ Asked(tp', c)
        BY <2>8 DEF Opening, Asked
      <3>2. Ready(tp', c)
        BY <2>2, <2>3, <2>4, <2>8 DEF Ready, Quiet
      <3>3. Passed(tp', c)
        BY <2>2, <2>3, <2>4, <2>8 DEF Passed, Quiet
      <3> QED BY <2>5, <3>1, <3>2, <3>3 DEF Matched
    <2> QED BY <2>1, <2>6, <2>7, <2>8
  <1> QED BY <1>1, <1>2 DEF About

LEMMA ServerSignalKeeps ==
  ASSUME TPSound(tp), ServerSignal
  PROVE  TPSound(tp')
  <1> DEFINE m == [tp EXCEPT !.spc = "test"]
             s == tp.scsem
  <1>1. tp.spc = "signal" /\ tp.spc \in Busy /\ tp' \in Signalled(m, s)
    BY DEF ServerSignal, Busy
  <1>2. /\ tp \in TPortalType /\ Handles(tp) /\ tp.sess \in Clients
        /\ \A d \in Clients : About(tp, d) /\ (Current(tp, d) => Matched(tp, d) /\ tp.csem[d] # None /\ tp.ssem[d] # None)
    BY <1>1, SoundFacts
  <1>3. /\ m \in TPortalType /\ SameSems(m, tp) /\ SameXchg(m, tp) /\ SameTPSS(m, tp)
        /\ SameTPCS(m, tp) /\ m.cnt = tp.cnt /\ m.pc = tp.pc /\ m.spc = "test"
    BY <1>2, SignalMid
  <1>a. s = tp.scsem
    OBVIOUS
  <1> HIDE DEF m, s
  <1>4. /\ tp' \in TPortalType /\ SameSems(tp', m) /\ SameXchg(tp', m) /\ SameTPSS(tp', m) /\ SameTPCS(tp', m)
        /\ \/ ~Live(m, s) /\ tp'.cnt = m.cnt /\ tp'.pc = m.pc /\ tp'.spc = m.spc
           \/ /\ Live(m, s) /\ TPWaiters(m, s) = {}
              /\ tp'.cnt = [m.cnt EXCEPT ![s] = TRUE] /\ tp'.pc = m.pc /\ tp'.spc = m.spc
           \/ /\ Live(m, s) /\ tp'.cnt = m.cnt
              /\ \E w \in TPWaiters(m, s) :
                    /\ \A c \in Clients : tp'.pc[c] = IF c = w THEN "passed" ELSE m.pc[c]
                    /\ tp'.spc = IF w = Svr THEN "switch" ELSE m.spc
    BY <1>1, <1>3, SignalledIs
  <1>5. SameSems(tp', tp) /\ SameXchg(tp', tp) /\ SameTPSS(tp', tp) /\ SameTPCS(tp', tp)
    BY <1>3, <1>4 DEF SameSems, SameXchg, SameTPSS, SameTPCS
  <1>6. \A d : d \in TPWaiters(m, s) <=> d \in Clients /\ tp.pc[d] = "wait" /\ tp.csem[d] = s
    BY <1>3 DEF TPWaiters, SameSems
  <1>7. ASSUME NEW c \in Clients, c = tp.sess, Current(tp, c), tp.pc[c] \in {"test", "wait"}
        PROVE  Live(m, s) /\ s = tp.csem[c] /\ s # tp.ssem[c] /\ s \in SCBs
    <2>1. Tied(tp, c)
      BY <1>1, <1>7, SignalTold
    <2>2. s = tp.csem[c] /\ tp.csem[c] # None
      BY <1>2, <1>7, <1>a, <2>1 DEF Tied
    <2>3. ~Contains(tp.pool, s) /\ s # tp.ssem[c]
      BY <1>2, <2>2 DEF Handles
    <2>4. tp.pool \in Seq(SCBs) /\ tp.csem[c] \in SCBs \union {None}
      BY <1>2, TPFields
    <2>5. m.pool = tp.pool
      BY <1>3 DEF SameSems
    <2> QED BY <2>2, <2>3, <2>4, <2>5 DEF Live, Contains, Range
  <1>8. ASSUME NEW d \in Clients, d # tp.sess, Current(tp, d)
        PROVE  s # tp.csem[d] /\ s # tp.ssem[d]
    BY <1>2, <1>8, <1>a DEF Matched, Loose
  <1>9. tp.cnt \in [SCBs -> BOOLEAN] /\ tp'.pc \in [Clients -> TPPcs]
    BY <1>2, <1>4, TPFields
  \* What is left of each outcome.
  <1>10. /\ tp'.spc = "test"
         /\ \A d \in Clients : d # tp.sess => About(tp', d)
         /\ \A d \in Clients : d = tp.sess => About(tp', d)
         /\ \A d \in Clients : tp'.pc[d] = tp.pc[d] \/ (tp.pc[d] = "wait" /\ tp'.pc[d] = "passed" /\ tp.csem[d] = s /\ s # None)
    <2>1. CASE ~Live(m, s) /\ tp'.cnt = m.cnt /\ tp'.pc = m.pc /\ tp'.spc = m.spc
      <3>1. tp'.cnt = tp.cnt /\ tp'.pc = tp.pc /\ tp'.spc = "test"
        BY <1>3, <2>1
      <3>2. ASSUME NEW d \in Clients, d # tp.sess
            PROVE  About(tp', d)
        <4>1. SameClient(tp', tp, d)
          BY <1>5, <3>1 DEF SameClient, SameCommand, SameSems, SameTPCS
        <4>2. tp'.sess = tp.sess /\ tp'.scsem = tp.scsem /\ tp'.sssem = tp.sssem
          BY <1>5 DEF SameTPSS
        <4> QED BY <1>5, <3>1, <3>2, <4>1, <4>2, OthersKept
      <3>3. ASSUME NEW c \in Clients, c = tp.sess
            PROVE  About(tp', c)
        <4>1. Current(tp, c) => tp.pc[c] \notin {"test", "wait"}
          BY <1>7, <2>1, <3>3
        <4>2. CASE tp.pc[c] = "test" /\ ~Current(tp, c)
          BY <1>1, <1>5, <3>1, <3>3, <4>2, SignalAnswers
        <4>3. CASE tp.pc[c] = "wait" /\ ~Current(tp, c)
          BY <1>1, <1>5, <3>1, <3>3, <4>3, SignalAnswers
        <4>4. CASE tp.pc[c] \notin {"test", "wait"}
          BY <1>1, <1>5, <3>1, <3>3, <4>4, SignalAnswers
        <4> QED BY <4>1, <4>2, <4>3, <4>4
      <3> QED BY <3>1, <3>2, <3>3
    <2>2. CASE /\ Live(m, s) /\ TPWaiters(m, s) = {}
               /\ tp'.cnt = [m.cnt EXCEPT ![s] = TRUE] /\ tp'.pc = m.pc /\ tp'.spc = m.spc
      <3>1. tp'.pc = tp.pc /\ tp'.spc = "test" /\ tp'.cnt = [tp.cnt EXCEPT ![s] = TRUE]
        BY <1>3, <2>2
      <3>2. ASSUME NEW d \in Clients, d # tp.sess
            PROVE  About(tp', d)
        <4>1. SameClient(tp', tp, d)
          BY <1>5, <3>1 DEF SameClient, SameCommand, SameSems, SameTPCS
        <4>2. tp'.sess = tp.sess /\ tp'.scsem = tp.scsem /\ tp'.sssem = tp.sssem
          BY <1>5 DEF SameTPSS
        <4>3. Current(tp, d) => tp'.cnt[tp.csem[d]] = tp.cnt[tp.csem[d]] /\ tp'.cnt[tp.ssem[d]] = tp.cnt[tp.ssem[d]]
          <5>1. tp.csem[d] \in SCBs \union {None} /\ tp.ssem[d] \in SCBs \union {None}
            BY <1>2, TPFields
          <5> QED BY <1>2, <1>8, <1>9, <3>1, <3>2, <5>1
        <4> QED BY <1>5, <3>2, <4>1, <4>2, <4>3, OthersKept
      <3>3. ASSUME NEW c \in Clients, c = tp.sess
            PROVE  About(tp', c)
        <4>1. CASE tp.pc[c] \notin {"test", "wait"}
          BY <1>1, <1>5, <3>1, <3>3, <4>1, SignalAnswers
        <4>2. CASE tp.pc[c] = "test"
          <5>1. Current(tp, c) => tp'.cnt[tp.csem[c]] /\ tp'.cnt[tp.ssem[c]] = tp.cnt[tp.ssem[c]]
            <6> SUFFICES ASSUME Current(tp, c)
                         PROVE  tp'.cnt[tp.csem[c]] /\ tp'.cnt[tp.ssem[c]] = tp.cnt[tp.ssem[c]]
              OBVIOUS
            <6>1. s = tp.csem[c] /\ s # tp.ssem[c] /\ s \in SCBs
              BY <1>7, <3>3, <4>2
            <6>2. tp.ssem[c] \in SCBs
              BY <1>2, TPFields
            <6> QED BY <1>9, <3>1, <6>1, <6>2
          <5> QED BY <1>1, <1>5, <3>1, <3>3, <4>2, <5>1, SignalAnswers
        <4>3. CASE tp.pc[c] = "wait"
          <5>1. ~Current(tp, c)
            <6>1. c \notin TPWaiters(m, s)
              BY <2>2
            <6> QED BY <1>6, <1>7, <3>3, <4>3, <6>1
          <5> QED BY <1>1, <1>5, <3>1, <3>3, <4>3, <5>1, SignalAnswers
        <4> QED BY <4>1, <4>2, <4>3
      <3> QED BY <3>1, <3>2, <3>3
    <2>3. CASE /\ Live(m, s) /\ tp'.cnt = m.cnt
               /\ \E w \in TPWaiters(m, s) :
                    /\ \A c \in Clients : tp'.pc[c] = IF c = w THEN "passed" ELSE m.pc[c]
                    /\ tp'.spc = IF w = Svr THEN "switch" ELSE m.spc
      <3>1. PICK w \in TPWaiters(m, s) :
                    /\ \A c \in Clients : tp'.pc[c] = IF c = w THEN "passed" ELSE m.pc[c]
                    /\ tp'.spc = IF w = Svr THEN "switch" ELSE m.spc
        BY <2>3
      <3>2. /\ w \in Clients /\ tp.pc[w] = "wait" /\ tp.csem[w] = s /\ s # None
            /\ \A c \in Clients : tp'.pc[c] = IF c = w THEN "passed" ELSE tp.pc[c]
            /\ tp'.spc = "test" /\ tp'.cnt = tp.cnt
        BY <1>3, <1>6, <2>3, <3>1, TPKinds DEF Live
      <3>3. ASSUME NEW d \in Clients, d # tp.sess, d # w
            PROVE  About(tp', d)
        <4>1. SameClient(tp', tp, d)
          BY <1>5, <3>2, <3>3 DEF SameClient, SameCommand, SameSems, SameTPCS
        <4>2. tp'.sess = tp.sess /\ tp'.scsem = tp.scsem /\ tp'.sssem = tp.sssem
          BY <1>5 DEF SameTPSS
        <4> QED BY <1>5, <3>2, <3>3, <4>1, <4>2, OthersKept
      <3>4. ASSUME w # tp.sess
            PROVE  About(tp', w)
        <4>1. ~Current(tp, w)
          BY <1>8, <3>2, <3>4
        <4>2. ~Current(tp', w)
          BY <1>5, <3>2, <4>1 DEF Current, SameSems, SameTPCS
        <4>3. Header(tp', w)
          <5>1. Header(tp, w)
            BY <1>2, <3>2 DEF About
          <5>2. /\ tp'.op[w] = tp.op[w] /\ tp'.left[w] = tp.left[w] /\ tp'.csem[w] = tp.csem[w]
                /\ tp'.ssem[w] = tp.ssem[w] /\ SameCommand(tp'.hd[w], tp.hd[w])
                /\ tp'.queue = tp.queue /\ tp'.sess = tp.sess /\ tp'.pc[w] = "passed"
            BY <1>5, <3>2 DEF SameSems, SameXchg, SameTPSS, SameTPCS, SameCommand
          <5> QED BY <3>2, <5>1, <5>2, HeaderKept
        <4> QED BY <4>2, <4>3 DEF About
      <3>5. ASSUME NEW c \in Clients, c = tp.sess
            PROVE  About(tp', c)
        <4>1. CASE c = w
          BY <1>1, <1>5, <3>2, <3>5, <4>1, SignalAnswers
        <4>2. CASE c # w
          <5>1. tp'.pc[c] = tp.pc[c]
            BY <3>2, <4>2
          <5>2. Current(tp, c) => tp.pc[c] \notin {"test", "wait"}
            <6>1. ~(tp.csem[c] = s)
              BY <1>2, <3>2, <4>2 DEF Handles
            <6> QED BY <1>7, <3>5, <6>1
          <5>3. CASE tp.pc[c] = "test" /\ ~Current(tp, c)
            BY <1>1, <1>5, <3>2, <3>5, <5>1, <5>3, SignalAnswers
          <5>4. CASE tp.pc[c] = "wait" /\ ~Current(tp, c)
            BY <1>1, <1>5, <3>2, <3>5, <5>1, <5>4, SignalAnswers
          <5>5. CASE tp.pc[c] \notin {"test", "wait"}
            BY <1>1, <1>5, <3>2, <3>5, <5>1, <5>5, SignalAnswers
          <5> QED BY <5>2, <5>3, <5>4, <5>5
        <4> QED BY <4>1, <4>2
      <3> QED BY <3>2, <3>3, <3>4, <3>5
    <2> QED BY <1>4, <2>1, <2>2, <2>3
  <1>11. \A d \in Clients : (tp.csem[d] = None => tp'.pc[d] = "idle") /\ (Held(tp', d) => Held(tp, d))
    BY <1>2, <1>5, <1>10 DEF Handles, Held, SameTPCS
  <1> QED BY <1>1, <1>4, <1>5, <1>10, <1>11, SessionKept DEF SameTPSS, Busy

\* The server tests ssem and finds a signal.
LEMMA ServerGetsKeeps ==
  ASSUME TPSound(tp), ServerTest, Live(tp, tp.sssem), tp.cnt[tp.sssem]
  PROVE  TPSound(tp')
  <1>1. tp.spc = "test" /\ tp.spc \in Busy
    BY DEF ServerTest, Busy
  <1>2. /\ tp \in TPortalType /\ Handles(tp) /\ tp.sess \in Clients
        /\ \A d \in Clients : About(tp, d) /\ (Current(tp, d) => Matched(tp, d) /\ tp.csem[d] # None /\ tp.ssem[d] # None)
    BY <1>1, SoundFacts
  <1>3. /\ tp' \in TPortalType /\ SameSems(tp', tp) /\ SameXchg(tp', tp) /\ SameTPSS(tp', tp)
        /\ SameTPCS(tp', tp) /\ tp'.pc = tp.pc
        /\ tp'.cnt = [tp.cnt EXCEPT ![tp.sssem] = FALSE] /\ tp'.spc = "switch"
    BY <1>2, ServerGetsIs
  <1>4. \A d \in Clients : SameClient(tp', tp, d)
    BY <1>3 DEF SameClient, SameCommand, SameSems, SameTPCS
  <1>5. tp'.sess = tp.sess /\ tp'.scsem = tp.scsem /\ tp'.sssem = tp.sssem /\ tp'.sopen = tp.sopen /\ tp'.sz = tp.sz
    BY <1>3 DEF SameTPSS
  <1>6. /\ tp.cnt \in [SCBs -> BOOLEAN]
        /\ \A d \in Clients : tp.csem[d] \in SCBs \union {None} /\ tp.ssem[d] \in SCBs \union {None}
    BY <1>2, TPFields
  <1>7. ASSUME NEW d \in Clients, d # tp.sess
        PROVE  About(tp', d)
    <2>1. Current(tp, d) => tp'.cnt[tp.csem[d]] = tp.cnt[tp.csem[d]] /\ tp'.cnt[tp.ssem[d]] = tp.cnt[tp.ssem[d]]
      <3> SUFFICES ASSUME Current(tp, d)
                   PROVE  tp'.cnt[tp.csem[d]] = tp.cnt[tp.csem[d]] /\ tp'.cnt[tp.ssem[d]] = tp.cnt[tp.ssem[d]]
        OBVIOUS
      <3>1. Loose(tp, d) /\ tp.csem[d] # None /\ tp.ssem[d] # None
        BY <1>2 DEF Matched
      <3>2. tp.sssem # tp.csem[d] /\ tp.sssem # tp.ssem[d]
        BY <1>7, <3>1 DEF Loose
      <3>3. tp.csem[d] \in SCBs /\ tp.ssem[d] \in SCBs
        BY <1>6, <3>1
      <3> QED BY <1>3, <1>6, <3>2, <3>3
    <2> QED BY <1>3, <1>4, <1>5, <1>7, <2>1, OthersKept
  <1>8. ASSUME NEW c \in Clients, c = tp.sess
        PROVE  About(tp', c)
    <2>1. SameClient(tp', tp, c) /\ SameCommand(tp'.hd[c], tp.hd[c]) /\ tp'.queue = tp.queue
      BY <1>3, <1>4 DEF SameClient, SameXchg
    <2>2. Header(tp', c)
      BY <1>2, <1>5, <2>1, HeaderKept DEF About, SameClient
    <2>3. ASSUME Current(tp', c)
          PROVE  Matched(tp', c)
      <3>1. Current(tp, c) /\ Matched(tp, c) /\ tp.csem[c] # None /\ tp.csem[c] # tp.ssem[c]
        BY <1>2, <2>1, <2>3 DEF Current, SameClient, Handles
      <3>2. Tied(tp, c) => tp.cnt[tp.ssem[c]] /\ Tied(tp', c)
        BY <1>5, <2>1 DEF Tied, SameClient
      <3>3. Opening(tp', c)
        BY <1>1, <1>8, <2>1, <3>1, <3>2 DEF Matched, Opening, SameClient
      <3>4. Ready(tp', c)
        BY <1>1, <1>8, <2>1, <3>1, <3>2 DEF Matched, Ready, Resting, Quiet, SameClient
      <3>5. Passed(tp', c)
        BY <1>1, <1>8, <2>1, <3>1, <3>2 DEF Matched, Passed, Quiet, SameClient
      <3>6. Asked(tp', c)
        <4> SUFFICES ASSUME tp.op[c] \in {"SEND", "RECEIVE"}, tp.pc[c] \in {"test", "wait"}
                     PROVE  Asked(tp', c)
          BY <2>1 DEF Asked, SameClient
        <4>1. /\ ~Contains(tp.queue, c) /\ tp.hd[c].cmd = tp.op[c] /\ Tied(tp, c)
              /\ tp.stage[c] = "asked" /\ ~tp.cnt[tp.csem[c]] /\ Counts(tp, c)
          BY <1>1, <1>8, <3>1, <3>2 DEF Matched, Asked
        <4>2. /\ tp'.cnt[tp.csem[c]] = tp.cnt[tp.csem[c]] /\ ~tp'.cnt[tp.ssem[c]]
          <5>1. tp.sssem = tp.ssem[c] /\ tp.ssem[c] \in SCBs
            BY <1>2, <1>6, <3>1, <4>1 DEF Tied
          <5> QED BY <1>3, <1>6, <3>1, <5>1
        <4>3. Counts(tp', c)
          BY <1>5, <2>1, <4>1 DEF Counts, SameClient, SameCommand
        <4> QED BY <1>3, <1>5, <2>1, <3>2, <4>1, <4>2, <4>3 DEF Asked, SameClient, SameCommand
      <3>7. Loose(tp', c) /\ (tp'.op[c] = "OPEN" => ~tp'.open[c])
        BY <1>5, <2>1, <3>1 DEF Matched, Loose, SameClient
      <3> QED BY <3>3, <3>4, <3>5, <3>6, <3>7 DEF Matched
    <2> QED BY <2>2, <2>3 DEF About
  <1>9. \A d \in Clients : About(tp', d)
    BY <1>7, <1>8
  <1>10. \A d \in Clients : (tp.csem[d] = None => tp'.pc[d] = "idle") /\ (Held(tp', d) => Held(tp, d))
    BY <1>2, <1>3 DEF Handles, Held, SameTPCS
  <1> QED BY <1>1, <1>3, <1>9, <1>10, SessionKept DEF SameTPSS, Busy

\* It finds none, and waits.
LEMMA ServerSleepsKeeps ==
  ASSUME TPSound(tp), ServerTest, Live(tp, tp.sssem), ~tp.cnt[tp.sssem]
  PROVE  TPSound(tp')
  <1>1. tp.spc = "test" /\ tp.spc \in Busy /\ tp' = [tp EXCEPT !.spc = "wait"]
    BY DEF ServerTest, Busy
  <1>2. /\ tp \in TPortalType /\ Handles(tp) /\ tp.sess \in Clients
        /\ \A d \in Clients : About(tp, d) /\ (Current(tp, d) => Matched(tp, d))
    BY <1>1, SoundFacts
  <1>3. /\ tp' \in TPortalType /\ SameSems(tp', tp) /\ SameXchg(tp', tp) /\ SameTPSS(tp', tp)
        /\ SameTPCS(tp', tp) /\ tp'.cnt = tp.cnt /\ tp'.pc = tp.pc /\ tp'.spc = "wait"
    BY <1>1, <1>2, ServerSleepsIs
  <1>4. \A d \in Clients : SameClient(tp', tp, d)
    BY <1>3 DEF SameClient, SameCommand, SameSems, SameTPCS
  <1>5. tp'.sess = tp.sess /\ tp'.scsem = tp.scsem /\ tp'.sssem = tp.sssem /\ tp'.sopen = tp.sopen /\ tp'.sz = tp.sz
    BY <1>3 DEF SameTPSS
  <1>6. ASSUME NEW d \in Clients, d # tp.sess
        PROVE  About(tp', d)
    BY <1>3, <1>4, <1>5, <1>6, OthersKept
  <1>7. ASSUME NEW c \in Clients, c = tp.sess
        PROVE  About(tp', c)
    <2>1. SameClient(tp', tp, c) /\ SameCommand(tp'.hd[c], tp.hd[c]) /\ tp'.queue = tp.queue
      BY <1>3, <1>4 DEF SameClient, SameXchg
    <2>2. Header(tp', c)
      BY <1>2, <1>5, <2>1, HeaderKept DEF About, SameClient
    <2>3. ASSUME Current(tp', c)
          PROVE  Matched(tp', c)
      <3>1. Current(tp, c) /\ Matched(tp, c)
        BY <1>2, <2>1, <2>3 DEF Current, SameClient
      <3>2. Tied(tp, c) => ~tp.cnt[tp.ssem[c]] /\ Tied(tp', c)
        BY <1>5, <2>1 DEF Tied, SameClient
      <3>3. Opening(tp', c)
        BY <1>1, <1>3, <1>5, <1>7, <2>1, <3>1, <3>2 DEF Matched, Opening, SameClient, SameCommand
      <3>4. Ready(tp', c)
        BY <1>1, <1>3, <1>5, <1>7, <2>1, <3>1, <3>2 DEF Matched, Ready, Resting, Quiet, SameClient
      <3>a. Counts(tp, c) => Counts(tp', c)
        BY <1>5, <2>1 DEF Counts, SameClient, SameCommand
      <3>5. Passed(tp', c)
        BY <1>1, <1>3, <1>5, <1>7, <2>1, <3>1, <3>2, <3>a DEF Matched, Passed, Quiet, SameClient, SameCommand
      <3>6. Asked(tp', c)
        BY <1>1, <1>3, <1>5, <1>7, <2>1, <3>1, <3>2, <3>a DEF Matched, Asked, SameClient, SameCommand
      <3>7. Loose(tp', c) /\ (tp'.op[c] = "OPEN" => ~tp'.open[c])
        BY <1>5, <2>1, <3>1 DEF Matched, Loose, SameClient
      <3> QED BY <3>3, <3>4, <3>5, <3>6, <3>7 DEF Matched
    <2> QED BY <2>2, <2>3 DEF About
  <1>8. \A d \in Clients : About(tp', d)
    BY <1>6, <1>7
  <1>9. \A d \in Clients : (tp.csem[d] = None => tp'.pc[d] = "idle") /\ (Held(tp', d) => Held(tp, d))
    BY <1>2, <1>3 DEF Handles, Held, SameTPCS
  <1> QED BY <1>1, <1>3, <1>8, <1>9, SessionKept DEF SameTPSS, Busy

LEMMA TPServerKeeps ==
  ASSUME TPSound(tp), TPServer
  PROVE  TPSound(tp')
  <1>1. CASE ServerReceive
    BY <1>1, ServerWaitsKeeps, ServerReceivesKeeps
  <1>2. CASE ServerGot
    BY <1>2, ServerGotKeeps
  <1>3. CASE ServerSwitch
    BY <1>3, ServerSwitchKeeps
  <1>4. CASE ServerSent
    BY <1>4, ServerSentKeeps
  <1>5. CASE ServerReceived
    BY <1>5, ServerReceivedKeeps
  <1>6. CASE ServerSignal
    BY <1>6, ServerSignalKeeps
  <1>7. CASE ServerTest
    <2>1. CASE ~Live(tp, tp.sssem)
      <3>1. tp.spc \in Busy /\ tp' = GivesUp(tp)
        BY <1>7, <2>1 DEF ServerTest, Busy
      <3> QED BY <3>1, GivesUpKeeps
    <2>2. CASE Live(tp, tp.sssem)
      BY <1>7, <2>2, ServerGetsKeeps, ServerSleepsKeeps
    <2> QED BY <2>1, <2>2
  <1>8. CASE ServerTimeout
    <2>1. tp.spc \in Busy /\ tp' = GivesUp(tp)
      BY <1>8 DEF ServerTimeout, Busy
    <2> QED BY <2>1, GivesUpKeeps
  <1> QED BY <1>1, <1>2, <1>3, <1>4, <1>5, <1>6, <1>7, <1>8 DEF TPServer

-----------------------------------------------------------------------------
(* The portal is created and deleted.                                      *)

LEMMA TPortalCreateKeeps ==
  ASSUME TPSound(tp), TPortalCreate
  PROVE  TPSound(tp')
  <1>1. /\ tp \in TPortalType /\ Handles(tp) /\ Serving(tp) /\ Promoted(tp) /\ Unopened(tp)
        /\ \A d \in Clients : About(tp, d) /\ (Current(tp, d) => Matched(tp, d))
    BY SoundFacts
  <1>2. ~tp.exists /\ tp.spc = "stopped" /\ tp.sess = None /\ ~tp.direct
    BY <1>1 DEF TPortalCreate, Serving, Busy
  <1>3. /\ tp' \in TPortalType /\ SameSems(tp', tp) /\ SameXchg(tp', tp) /\ SameTPCS(tp', tp)
        /\ tp'.sess = tp.sess /\ tp'.sopen = tp.sopen /\ tp'.scsem = tp.scsem
        /\ tp'.sssem = tp.sssem /\ tp'.sz = tp.sz /\ tp'.direct = tp.direct /\ tp'.cnt = tp.cnt
        /\ tp'.pc = tp.pc /\ tp'.exists = TRUE /\ tp'.spc = "start"
    BY <1>1, CreateIs
  <1>4. \A d \in Clients : (tp.csem[d] = None => tp'.pc[d] = "idle") /\ (Held(tp', d) => Held(tp, d))
    BY <1>1, <1>3 DEF Handles, Held, SameTPCS
  <1>5. Handles(tp')
    BY <1>1, <1>3, <1>4, HandlesKept
  <1>6. Serving(tp')
    BY <1>1, <1>2, <1>3 DEF Serving, SameXchg, Busy
  <1>7. Promoted(tp')
    BY <1>1, <1>2, <1>3, <1>4, PromotedKept
  <1>8. Unopened(tp')
    BY <1>1, <1>2, <1>3 DEF Unopened
  <1>9. ASSUME NEW d \in Clients
        PROVE  About(tp', d)
    <2>1. SameClient(tp', tp, d)
      BY <1>3 DEF SameClient, SameCommand, SameSems, SameTPCS
    <2>2. tp'.sess # d /\ (Contains(tp'.queue, d) => Contains(tp.queue, d))
      BY <1>2, <1>3, TPKinds DEF SameXchg
    <2>3. Current(tp, d) => Loose(tp', d)
      BY <1>1, <1>2, <1>3, TPKinds DEF Matched, Loose, SameSems
    <2> QED BY <1>1, <1>3, <2>1, <2>2, <2>3, AboutKept
  <1> QED BY <1>3, <1>5, <1>6, <1>7, <1>8, <1>9 DEF TPSound

LEMMA TPortalDeleteKeeps ==
  ASSUME TPSound(tp), TPortalDelete
  PROVE  TPSound(tp')
  <1>1. /\ tp \in TPortalType /\ Handles(tp) /\ Serving(tp) /\ Promoted(tp) /\ Unopened(tp)
        /\ \A d \in Clients : /\ About(tp, d)
                              /\ Current(tp, d) => Matched(tp, d) /\ tp.csem[d] # None /\ tp.ssem[d] # None
    BY SoundFacts
  <1>2. /\ tp' \in TPortalType /\ SameSems(tp', tp) /\ tp'.norm = tp.norm /\ tp'.pri = tp.pri
        /\ tp'.mpri = tp.mpri /\ tp'.spri = tp.spri /\ tp'.op = tp.op /\ tp'.cre = tp.cre
        /\ tp'.left = tp.left /\ tp'.hd = tp.hd /\ tp'.sound = tp.sound /\ tp'.stage = tp.stage
        /\ tp'.cnt = tp.cnt /\ tp'.pc = tp.pc
        /\ tp'.exists = FALSE /\ tp'.spc = "stopped" /\ tp'.sess = None /\ tp'.sopen = FALSE
        /\ tp'.direct = FALSE /\ tp'.scsem = None /\ tp'.sssem = None /\ tp'.queue = <<>>
        /\ tp'.onr = FALSE /\ tp'.bct = None /\ tp'.sz = None
        /\ tp'.open = [c \in Clients |-> FALSE]
    BY <1>1, DeleteIs
  <1>3. \A d : ~Contains(tp'.queue, d)
    BY <1>2 DEF Contains
  <1>4. \A d \in Clients : tp.csem[d] = None => tp'.pc[d] = "idle"
    BY <1>1, <1>2 DEF Handles
  <1>5. Handles(tp')
    BY <1>1, <1>2, <1>4, HandlesKept
  <1>6. Serving(tp')
    BY <1>2 DEF Serving, Busy, Injective
  <1>7. Promoted(tp')
    BY <1>1, <1>2, <1>3, TPKinds DEF Promoted
  <1>8. Unopened(tp')
    BY <1>2 DEF Unopened
  <1>9. ASSUME NEW d \in Clients
        PROVE  About(tp', d)
    <2>1. SameClient(tp', tp, d)
      BY <1>2 DEF SameClient, SameCommand, SameSems
    <2>2. tp'.sess # d
      BY <1>2, TPKinds
    <2>3. Current(tp, d) => Loose(tp', d)
      BY <1>1, <1>2 DEF Loose, SameSems
    <2> QED BY <1>1, <1>2, <1>3, <2>1, <2>2, <2>3, AboutKept
  <1> QED BY <1>2, <1>5, <1>6, <1>7, <1>8, <1>9 DEF TPSound

-----------------------------------------------------------------------------
(* The invariant and the theorems.                                         *)

LEMMA TPClientKeeps ==
  ASSUME TPSound(tp), NEW c \in Clients, TPClient(c)
  PROVE  TPSound(tp')
  <1>1. CASE OpenCreate(c)
    BY <1>1, OpenCreateOldKeeps, OpenCreateNewKeeps
  <1>2. CASE OpenLoad(c)
    BY <1>2, OpenLoadKeeps
  <1>3. CASE OpenSend(c)
    BY <1>3, OpenSendKeeps
  <1>4. CASE OpenEnds(c)
    BY <1>4, OpensKeeps, OpenFailsKeeps
  <1>5. CASE \E o \in {"SEND", "RECEIVE"}, n \in 1..MaxBlocks : Shell(c, o, n)
    BY <1>5, ShellKeeps
  <1>6. CASE Command(c)
    BY <1>6, CommandKeeps, CommandFailsKeeps
  <1>7. CASE Ask(c)
    BY <1>7, AskKeeps
  <1>8. CASE NextBlock(c)
    BY <1>8, NextBlockKeeps
  <1>9. CASE RequestEnds(c)
    BY <1>9, RequestEndsKeeps
  <1>10. CASE RequestTimesOut(c)
    BY <1>10, RequestTimesOutKeeps
  <1>11. CASE ClientTest(c)
    BY <1>11, ClientPassesKeeps, ClientWaitsKeeps
  <1>12. CASE ClientTimeout(c)
    BY <1>12, ClientTimeoutKeeps
  <1>13. CASE CloseBegin(c)
    BY <1>13, CloseBeginKeeps
  <1>14. CASE CloseEnd(c)
    BY <1>14, CloseEndKeeps
  <1> QED BY <1>1, <1>2, <1>3, <1>4, <1>5, <1>6, <1>7, <1>8, <1>9, <1>10, <1>11, <1>12,
             <1>13, <1>14 DEF TPClient

LEMMA TPStepKeeps ==
  ASSUME TPSound(tp), [TPortalNext]_tp
  PROVE  TPSound(tp')
  <1>1. CASE \E c \in Clients : TPClient(c)
    BY <1>1, TPClientKeeps
  <1>2. CASE TPServer
    BY <1>2, TPServerKeeps
  <1>3. CASE TPortalCreate
    BY <1>3, TPortalCreateKeeps
  <1>4. CASE TPortalDelete
    BY <1>4, TPortalDeleteKeeps
  <1>5. CASE UNCHANGED tp
    BY <1>5
  <1> QED BY <1>1, <1>2, <1>3, <1>4, <1>5 DEF TPortalNext

LEMMA TPStarts ==
  ASSUME TPortalInit
  PROVE  TPSound(tp)
  <1> DEFINE h == [cmd |-> "NOP", sod |-> FALSE, eod |-> FALSE, inc |-> FALSE, rqsz |-> 0,
                   csem |-> None, ssem |-> None]
  <1>1. PICK n \in [Clients -> 0..TopPri] :
    tp = [ exists |-> FALSE, pool |-> SetToSeq(SCBs), cnt |-> [x \in SCBs |-> FALSE],
           pc   |-> [c \in Clients |-> "idle"], op   |-> [c \in Clients |-> "NOP"],
           cre  |-> [c \in Clients |-> FALSE],  left |-> [c \in Clients |-> 0],
           open |-> [c \in Clients |-> FALSE],
           csem |-> [c \in Clients |-> None],   ssem |-> [c \in Clients |-> None],
           hd   |-> [c \in Clients |-> h],
           norm |-> n, pri |-> n, mpri |-> [c \in Clients |-> 0],
           queue |-> <<>>, onr |-> FALSE, bct |-> None,
           spc |-> "stopped", sess |-> None, sopen |-> FALSE,
           scsem |-> None, sssem |-> None, sz |-> None, spri |-> 0,
           sound |-> [c \in Clients |-> FALSE], stage |-> [c \in Clients |-> "none"],
           direct |-> FALSE ]
    BY DEF TPortalInit
  <1>2. /\ SetToSeq(SCBs) \in Seq(SCBs) /\ Injective(SetToSeq(SCBs))
        /\ Len(SetToSeq(SCBs)) = Cardinality(SCBs)
    BY SetToSeqProperties, TPKinds
  <1>3. h \in TPHeader
    BY TPKinds DEF TPHeader
  <1> DEFINE hd == [c \in Clients |-> h]
             pool == SetToSeq(SCBs)
             cnt == [x \in SCBs |-> FALSE]
  <1>4. /\ hd \in [Clients -> TPHeader] /\ pool \in Seq(SCBs) /\ cnt \in [SCBs -> BOOLEAN]
        /\ Injective(pool) /\ Len(pool) = Cardinality(SCBs)
        /\ \A c \in Clients : hd[c].csem = None /\ hd[c].ssem = None
    BY <1>2, <1>3
  <1>5. tp = [ exists |-> FALSE, pool |-> pool, cnt |-> cnt,
           pc   |-> [c \in Clients |-> "idle"], op   |-> [c \in Clients |-> "NOP"],
           cre  |-> [c \in Clients |-> FALSE],  left |-> [c \in Clients |-> 0],
           open |-> [c \in Clients |-> FALSE],
           csem |-> [c \in Clients |-> None],   ssem |-> [c \in Clients |-> None],
           hd   |-> hd,
           norm |-> n, pri |-> n, mpri |-> [c \in Clients |-> 0],
           queue |-> <<>>, onr |-> FALSE, bct |-> None,
           spc |-> "stopped", sess |-> None, sopen |-> FALSE,
           scsem |-> None, sssem |-> None, sz |-> None, spri |-> 0,
           sound |-> [c \in Clients |-> FALSE], stage |-> [c \in Clients |-> "none"],
           direct |-> FALSE ]
    BY <1>1
  <1> HIDE DEF h, hd, pool, cnt
  <1>6. /\ tp.exists = FALSE /\ tp.pool = pool /\ tp.cnt = cnt
        /\ tp.pc = [c \in Clients |-> "idle"] /\ tp.op = [c \in Clients |-> "NOP"]
        /\ tp.cre = [c \in Clients |-> FALSE] /\ tp.left = [c \in Clients |-> 0]
        /\ tp.open = [c \in Clients |-> FALSE] /\ tp.csem = [c \in Clients |-> None]
        /\ tp.ssem = [c \in Clients |-> None] /\ tp.hd = hd /\ tp.norm = n /\ tp.pri = n
        /\ tp.mpri = [c \in Clients |-> 0] /\ tp.queue = <<>> /\ tp.onr = FALSE /\ tp.bct = None
        /\ tp.spc = "stopped" /\ tp.sess = None /\ tp.sopen = FALSE /\ tp.scsem = None
        /\ tp.sssem = None /\ tp.sz = None /\ tp.spri = 0
        /\ tp.sound = [c \in Clients |-> FALSE] /\ tp.stage = [c \in Clients |-> "none"]
        /\ tp.direct = FALSE
    BY <1>5
  <1>7. IsTP(tp)
    BY <1>5 DEF IsTP, TPNames
  <1>8. tp \in TPortalType
    <2>1. <<>> \in Seq(Clients)
      OBVIOUS
    <2>2. 0 \in 0..MaxBlocks /\ 0 \in 0..TopPri
      BY TPKinds
    <2>3. /\ tp.exists \in BOOLEAN /\ tp.pool \in Seq(SCBs) /\ tp.cnt \in [SCBs -> BOOLEAN]
          /\ tp.pc \in [Clients -> TPPcs] /\ tp.op \in [Clients -> TPOps]
      BY <1>4, <1>6 DEF TPPcs, TPOps
    <2>4. /\ tp.cre \in [Clients -> BOOLEAN] /\ tp.left \in [Clients -> 0..MaxBlocks]
          /\ tp.open \in [Clients -> BOOLEAN]
          /\ tp.csem \in [Clients -> SCBs \union {None}] /\ tp.ssem \in [Clients -> SCBs \union {None}]
          /\ tp.hd \in [Clients -> TPHeader]
      BY <1>4, <1>6, <2>2
    <2>5. /\ tp.norm \in [Clients -> 0..TopPri] /\ tp.pri \in [Clients -> 0..TopPri]
          /\ tp.mpri \in [Clients -> 0..TopPri] /\ tp.queue \in Seq(Clients) /\ tp.onr \in BOOLEAN
          /\ tp.bct \in Clients \union {Svr, None} /\ tp.sess \in Clients \union {None}
          /\ tp.sopen \in BOOLEAN /\ tp.spri \in 0..TopPri
      BY <1>6, <2>1, <2>2
    <2>6. /\ tp.spc \in TPSpcs /\ tp.scsem \in SCBs \union {None} /\ tp.sssem \in SCBs \union {None}
          /\ tp.sz \in 0..MaxBlocks \union {None} /\ tp.sound \in [Clients -> BOOLEAN]
          /\ tp.stage \in [Clients -> TPStages] /\ tp.direct \in BOOLEAN
      BY <1>6 DEF TPSpcs, TPStages
    <2> QED BY <1>7, <2>3, <2>4, <2>5, <2>6, TPTyped
  <1>9. Handles(tp)
    <2>1. {c \in Clients : tp.csem[c] = None} = Clients
      BY <1>6
    <2>2. 2 * Cardinality({c \in Clients : tp.csem[c] = None}) <= Len(tp.pool)
      BY <1>4, <1>6, <2>1, TPKinds
    <2> QED BY <1>4, <1>6, <2>2 DEF Handles
  <1>10. Serving(tp)
    BY <1>6 DEF Serving, Busy, Injective
  <1>11. \A d : ~Contains(tp.queue, d)
    BY <1>6 DEF Contains
  <1>12. Promoted(tp)
    BY <1>6, <1>11, TPKinds DEF Promoted
  <1>13. Unopened(tp)
    BY <1>6 DEF Unopened
  <1>14. ASSUME NEW c \in Clients
         PROVE  About(tp, c)
    <2>1. tp.csem[c] = None /\ tp.pc[c] = "idle" /\ tp.sess # c /\ ~Current(tp, c)
      BY <1>6, TPKinds DEF Current
    <2>2. Header(tp, c)
      BY <1>11, <2>1 DEF Header
    <2> QED BY <2>1, <2>2 DEF About
  <1> QED BY <1>8, <1>9, <1>10, <1>12, <1>13, <1>14 DEF TPSound

LEMMA TPSoundPromotes ==
  ASSUME TPSound(tp)
  PROVE  ServedIsPromoted
  <1>1. /\ tp \in TPortalType /\ Serving(tp) /\ Promoted(tp)
    BY SoundFacts
  <1>2. tp.bct # None /\ ~tp.onr => tp.spc = "start"
    BY <1>1 DEF Serving
  <1>3. ASSUME NEW c \in Clients, tp.sess = c, tp.sopen, tp.open[c], tp.direct, Len(tp.queue) <= 1,
               NEW d \in Range(tp.queue)
        PROVE  tp.pri[c] >= tp.mpri[d]
    <2>1. tp.queue \in Seq(Clients) /\ Len(tp.queue) \in Nat
      BY <1>1, TPFields
    <2>2. PICK i \in DOMAIN tp.queue : d = tp.queue[i]
      BY <1>3 DEF Range
    <2>3. DOMAIN tp.queue = 1..Len(tp.queue)
      BY <2>1
    <2>a. i \in 1..Len(tp.queue)
      BY <2>2, <2>3
    <2>b. i = 1 /\ Len(tp.queue) = 1
      <3>1. Len(tp.queue) <= 1
        BY <1>3
      <3> DEFINE k == Len(tp.queue)
      <3>2. k \in Nat /\ k <= 1 /\ i \in 1..k
        BY <2>1, <2>a, <3>1
      <3> HIDE DEF k
      <3>3. i = 1 /\ k = 1
        BY <3>2
      <3> QED BY <3>3 DEF k
    <2>4. i = 1 /\ Len(tp.queue) = 1 /\ d \in Clients
      BY <2>1, <2>2, <2>a, <2>b
    <2>5. tp.queue = <<d>>
      BY <2>1, <2>2, <2>4
    <2>6. Above(tp, c, d)
      BY <1>1, <1>3, <2>4, <2>5 DEF Promoted, Held
    <2> QED BY <2>6 DEF Above
  <1> QED BY <1>2, <1>3 DEF ServedIsPromoted

LEMMA TPSoundMatches ==
  ASSUME TPSound(tp)
  PROVE  AnswersMatch
  <1> SUFFICES ASSUME NEW c \in Clients, tp.sound[c], tp.op[c] \in {"SEND", "RECEIVE"}
               PROVE  /\ tp.pc[c] = "passed" =>
                            /\ tp.stage[c] = "done"
                            /\ tp.op[c] = "RECEIVE" => (tp.hd[c].eod <=> tp.left[c] = 1)
                      /\ tp.pc[c] = "wait" => ~(tp.sess = c /\ tp.spc = "wait")
    BY DEF AnswersMatch, AtClient
  <1>1. Handles(tp)
    BY SoundFacts
  <1>2. ASSUME tp.pc[c] \in {"passed", "wait"}
        PROVE  Matched(tp, c)
    <2>1. Current(tp, c)
      BY <1>1, <1>2 DEF Handles, Current
    <2> QED BY <2>1, SoundFacts
  <1>3. ASSUME tp.pc[c] = "passed"
        PROVE  /\ tp.stage[c] = "done"
               /\ tp.op[c] = "RECEIVE" => (tp.hd[c].eod <=> tp.left[c] = 1)
    BY <1>2, <1>3 DEF Matched, Passed, Counts
  <1>4. ASSUME tp.pc[c] = "wait", tp.sess = c, tp.spc = "wait"
        PROVE  FALSE
    BY <1>2, <1>4 DEF Matched, Asked
  <1> QED BY <1>3, <1>4

LEMMA TPSoundAlways == TPortalSpec => []TPSound(tp)
  <1>1. TPortalInit => TPSound(tp)
    BY TPStarts
  <1>2. TPSound(tp) /\ [TPortalNext]_tp => TPSound(tp')
    BY TPStepKeeps
  <1>3. TPSound(tp) /\ [TPortalNext]_tp => TPSound(tp)'
    BY <1>2
  <1> QED BY <1>1, <1>3, PTL DEF TPortalSpec

\* Every field of a tunnel portal keeps its type: the server never loads a handle,
\* a size or a client that is none, whatever the header of a message has become.
THEOREM TunnelPortalsTyped == TPortalSpec => []TPortalTypeOK
  <1>1. TPSound(tp) => TPortalTypeOK
    BY SoundFacts DEF TPortalTypeOK
  <1> QED BY <1>1, TPSoundAlways, PTL

\* The client that mp_TPortalServer() serves directly keeps the only one that waits
\* from waiting at a lower priority, and xchg->bct has an owner of sxchg to take the
\* priority from (smx_MsgPriorityPromotion()).
THEOREM TunnelPortalsPromote == TPortalSpec => []ServedIsPromoted
  <1>1. TPSound(tp) => ServedIsPromoted
    BY TPSoundPromotes
  <1> QED BY <1>1, TPSoundAlways, PTL

\* A client that opened the portal at rest takes no answer to another request for its
\* own, whoever times out, closes or opens again, and the two never wait for each other.
THEOREM TunnelPortalsAnswer == TPortalSpec => []AnswersMatch
  <1>1. TPSound(tp) => AnswersMatch
    BY TPSoundMatches
  <1> QED BY <1>1, TPSoundAlways, PTL
=============================================================================
