------------------------------ MODULE SmxChunks ------------------------------
(***************************************************************************)
(* The chunks and bins of a heap (src/EHEAP/eheap.c), as operators on its  *)
(* variables h, a record.  Addresses and sizes are in units of 8 bytes.    *)
(*                                                                         *)
(*   c       the control blocks, by the address of the chunk: links to the *)
(*           next (fl) and the previous chunk (blf), the size (of a free   *)
(*           chunk), the flag EH_INUSE (use), and the start of the spare   *)
(*           space that the last word holds if EH_SSP is set (ssp)         *)
(*   q       the free list of each bin, in place of links                  *)
(*   bsmap, csbin, ccp, ltp, bsort     the incremental sort of a bin       *)
(*   dcp, tcp, px                      donor, top and end chunk            *)
(*   hsp     the next chunk of the incremental heap scan                   *)
(*   cmerge  free chunks are merged                                        *)
(*   grew    history: the bins in which merge_space() made a chunk larger  *)
(*           and that were not sorted since                                *)
(*                                                                         *)
(* The bin map has a bit for each list that is not empty, and binx8 names  *)
(* the list a chunk is in.  A chunk that is absorbed leaves c: its control *)
(* block is no longer one.                                                 *)
(***************************************************************************)
EXTENDS Integers, SequencesExt, FiniteSetsExt

CONSTANT BinSz    \* bszap: the least size of the chunks of each bin

Hdr     == 1      \* EH_CHK_OVH without debug
CcbSz   == 3      \* sizeof(CCB)
MinFrag == 5      \* EH_MIN_FRAG
MinBlk  == 2      \* the smallest block

Null == 0
Pi   == 1         \* pi: the start chunk
Junk == -1        \* what a block's data leave in a word that held a pointer
NoBin == -1

Bins   == DOMAIN BinSz
TopBin == Max(Bins)

\* The bins of the small bin array hold one size each.
SbaTop   == Min({i \in Bins : i = TopBin \/ BinSz[i + 1] - BinSz[i] # 1}) - 1
SbaTopSz == BinSz[SbaTop]

ASSUME BinAssumption == /\ Bins = 0..TopBin
                        /\ \A i \in Bins \ {TopBin} : BinSz[i] < BinSz[i + 1]
                        /\ BinSz[0] = CcbSz
                        /\ SbaTop >= 0

\* bin_find(sz), and the exact bin of a small size.
BinFor(sz) == Max({i \in Bins : BinSz[i] <= sz})

Chunks(h) == DOMAIN h.c

IsFree(h, p) == ~h.c[p].use

\* The bin whose list p is in.
BinOf(h, p) == CHOOSE i \in Bins : Contains(h.q[i], p)

PosIn(s, p) == CHOOSE i \in DOMAIN s : s[i] = p

-----------------------------------------------------------------------------
(* Bins. *)

\* Mutant: a sort of the bin goes on with the pointers it had.
BinDq_NoRestart(h, p) ==
    LET i   == BinOf(h, p)
        s   == Remove(h.q[i], p)
        few == Len(s) < 2
    IN  [h EXCEPT !.q[i]   = s,
                  !.bsmap  = IF few THEN @ \ {i} ELSE @,
                  !.csbin  = IF few /\ @ = i THEN NoBin ELSE @,
                  !.grew   = IF few THEN @ \ {i} ELSE @]

\* bin_dq(p): a sort of the bin is started over, or given up.
BinDq(h, p) ==
    LET i   == BinOf(h, p)
        s   == Remove(h.q[i], p)
        few == Len(s) < 2
    IN  [h EXCEPT !.q[i]   = s,
                  !.bsmap  = IF few THEN @ \ {i}
                             ELSE IF h.csbin = i THEN @ \union {i} ELSE @,
                  !.csbin  = IF few /\ @ = i THEN NoBin ELSE @,
                  !.grew   = IF few THEN @ \ {i} ELSE @]

\* bin_nq(p): to the front if it is no larger than the first, else to the end.
BinNq(h, p) ==
    LET i     == BinFor(h.c[p].sz)
        s     == h.q[i]
        front == s # <<>> /\ h.c[p].sz <= h.c[Head(s)].sz
    IN  [h EXCEPT !.q[i]  = IF front THEN <<p>> \o s ELSE Append(s, p),
                  !.bsmap = IF ~front /\ Len(s) > 1 THEN @ \union {i} ELSE @]

\* Mutant: the donor chunk is put into a bin.
BinNqUnlessDcTc_OnlyTc(h, p) == IF p = h.tcp THEN h ELSE BinNq(h, p)

BinNqUnlessDcTc(h, p) == IF p \in {h.dcp, h.tcp} THEN h ELSE BinNq(h, p)

-----------------------------------------------------------------------------
(* Chunks. *)

\* chunk_split(p, csz): the remnant, at p + csz, is in no bin yet.
ChunkSplit(h, p, csz) ==
    LET n  == p + csz
        nx == h.c[p].fl
    IN  [h EXCEPT !.c = (n :> [fl |-> nx, blf |-> p, sz |-> nx - n, use |-> FALSE, ssp |-> Null])
                        @@ [h.c EXCEPT ![p].fl   = n,
                                       ![p].sz   = IF h.c[p].use THEN @ ELSE csz,
                                       ![nx].blf = n]]

\* Chunk lo takes in the next chunk, hi, and the heap scan pointer follows.
Absorb(h, lo, hi) ==
    LET nx == h.c[hi].fl
    IN  [h EXCEPT !.c = [p \in Chunks(h) \ {hi} |->
                           CASE p = lo -> [h.c[lo] EXCEPT !.fl = nx, !.sz = @ + h.c[hi].sz]
                             [] p = nx -> [h.c[nx] EXCEPT !.blf = lo]
                             [] OTHER  -> h.c[p]],
                  !.hsp = IF @ = hi THEN lo ELSE @]

\* The free chunk at p begins at m instead.
MoveStart(h, p, m) ==
    LET old == h.c[p]
    IN  [h EXCEPT !.c = [x \in (Chunks(h) \ {p}) \union {m} |->
                           CASE x = m       -> [old EXCEPT !.sz = old.fl - m]
                             [] x = old.blf -> [h.c[x] EXCEPT !.fl = m]
                             [] x = old.fl  -> [h.c[x] EXCEPT !.blf = m]
                             [] OTHER       -> h.c[x]]]

\* chunk_merge_up(p): the next chunk is free.
ChunkMergeUp(h, p) ==
    LET n  == h.c[p].fl
        h1 == CASE n = h.tcp -> [h EXCEPT !.tcp = p]
                [] n = h.dcp -> [h EXCEPT !.dcp = p]
                [] OTHER     -> BinDq(h, n)
    IN  Absorb(h1, p, n)

\* What is left of a chunk above csz becomes a free chunk.
SplitOff(h, p, csz) ==
    LET h1 == ChunkSplit(h, p, csz)
        n  == p + csz
    IN  BinNqUnlessDcTc(IF h.cmerge /\ IsFree(h1, h1.c[n].fl) THEN ChunkMergeUp(h1, n) ELSE h1, n)

-----------------------------------------------------------------------------
(* Searches: a found chunk is out of its bin, or cut off the donor or top  *)
(* chunk.                                                                  *)

NotFound(h) == [h |-> h, p |-> Null]

FromBin(h, p) == [h |-> BinDq(h, p), p |-> p]

FromDonor(h, csz) ==
    [h |-> [ChunkSplit(h, h.dcp, csz) EXCEPT !.dcp = h.dcp + csz], p |-> h.dcp]

FromTop(h, csz) ==
    [h |-> [ChunkSplit(h, h.tcp, csz) EXCEPT !.tcp = h.tcp + csz], p |-> h.tcp]

\* From the chunk's address to the first one at which its block is aligned.
Dist(p, an) == IF an <= 3 THEN 0 ELSE (-(p + Hdr)) % 2^(an - 3)

\* merge_space(p, d): the d units below an aligned chunk join the chunk below.
MergeSpace(h, p, d) ==
    LET m     == p + d
        lo    == h.c[p].blf
        h1    == [MoveStart(h, p, m) EXCEPT !.hsp = IF @ = p THEN lo ELSE @]
        nsz   == h.c[lo].sz + d
        grown == [h1 EXCEPT !.c[lo].sz = nsz]
        n     == BinOf(h, lo)
        ssp   == IF h.c[lo].ssp = Null THEN p ELSE h.c[lo].ssp
    IN  [ p |-> m,
          h |-> CASE lo = h.dcp /\ d < MinFrag  -> grown
                  [] lo = h.dcp /\ d >= MinFrag -> BinNq(ChunkSplit(h1, lo, p - lo), p)
                  [] lo # h.dcp /\ IsFree(h, lo) ->
                        IF n = BinFor(nsz) THEN [grown EXCEPT !.grew = @ \union {n}]
                        ELSE BinNq([BinDq(h1, lo) EXCEPT !.c[lo].sz = nsz], lo)
                  [] ~IsFree(h, lo) /\ m - ssp >= MinFrag ->
                        BinNq([ChunkSplit(h1, lo, ssp - lo) EXCEPT !.c[lo].ssp = Null], ssp)
                  [] OTHER -> [h1 EXCEPT !.c[lo].ssp = ssp] ]

\* The first chunk of the list that holds csz units from its alignment on.
FirstFit(h, s, csz, an) == SelectInSeq(s, LAMBDA p : h.c[p].sz >= csz + Dist(p, an))

\* The search of eh_Malloc(), and with an > 3 that of aligned_srch(): the best bin,
\* the donor chunk for small chunks, a higher bin, the top chunk.
FitSearch(h, csz, an, useDc) ==
    LET i     == BinFor(csz)
        small == csz <= SbaTopSz
        above == {j \in Bins : j > i /\ FirstFit(h, h.q[j], csz, an) # 0}
        ds    == csz + Dist(h.dcp, an)
        ts    == csz + Dist(h.tcp, an)
    IN  IF FirstFit(h, h.q[i], csz, an) # 0
          THEN FromBin(h, h.q[i][FirstFit(h, h.q[i], csz, an)])
        ELSE IF small /\ useDc /\ ds <= SbaTopSz /\ ds + CcbSz <= h.c[h.dcp].sz
          THEN FromDonor(h, ds)
        ELSE IF above # {}
          THEN LET s == h.q[Min(above)] IN FromBin(h, s[FirstFit(h, s, csz, an)])
        ELSE IF ts + CcbSz <= h.c[h.tcp].sz
          THEN FromTop(h, ts)
        ELSE NotFound(h)

\* With the space below an aligned block dealt with.
Find(h, csz, an, useDc) ==
    LET f == FitSearch(h, csz, an, useDc)
        d == Dist(f.p, an)
    IN  IF f.p = Null \/ d = 0 THEN f ELSE MergeSpace(f.h, f.p, d)

-----------------------------------------------------------------------------
(* eh_Recover(): free chunks that follow each other are merged if they     *)
(* make up csz units.                                                      *)

\* Chunks p to e are free, and the donor chunk may only be the last.
IsRun(h, p, e) == \A x \in Chunks(h) : p <= x /\ x <= e => IsFree(h, x) /\ (x = h.dcp => x = e)

\* Where the search looks: above the donor chunk for large chunks; the run that
\* begins at p is not part of one that begins below.
RunStarts(h, csz) ==
    LET from == IF csz <= SbaTopSz THEN Pi ELSE h.dcp
    IN  {p \in Chunks(h) : /\ p > from /\ IsFree(h, p)
                           /\ h.c[p].blf = h.dcp \/ ~IsFree(h, h.c[p].blf)}

\* Mutant: a run may end at the donor chunk although that is not to be used.
RunEnds_AnyDonor(h, p, csz, an) ==
    {e \in Chunks(h) : /\ p <= e /\ IsRun(h, p, e)
                       /\ csz + Dist(p, an) <= h.c[e].fl - p}

\* The chunks at which the run that begins at p is long enough.
RunEnds(h, p, csz, an) ==
    {e \in Chunks(h) : /\ p <= e /\ IsRun(h, p, e)
                       /\ csz + Dist(p, an) <= h.c[e].fl - p
                       /\ ~(an > 3 /\ e = h.dcp /\ csz + Dist(p, an) > SbaTopSz)}

Recoverable(h, csz, an) == {p \in RunStarts(h, csz) : RunEnds(h, p, csz, an) # {}}

Recover(h, csz, an) ==
    LET p    == Min(Recoverable(h, csz, an))
        e    == Min(RunEnds(h, p, csz, an))
        run  == SetToSortSeq({x \in Chunks(h) : p <= x /\ x <= e}, <)
        out  == FoldLeft(BinDq, h, SelectSeq(run, LAMBDA x : x \notin {h.dcp, h.tcp}))
        h1   == FoldLeft(LAMBDA g, x : Absorb(g, p, x), out, Tail(run))
    IN  [ CASE e = h.dcp -> [h1 EXCEPT !.dcp = p]
            [] e = h.tcp -> [h1 EXCEPT !.tcp = p]
            [] OTHER     -> BinNq(h1, p) EXCEPT !.hsp = Null ]
=============================================================================
