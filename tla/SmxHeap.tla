------------------------------- MODULE SmxHeap -------------------------------
(***************************************************************************)
(* A heap (src/EHEAP/eheap.c), and what its manager in the idle task does  *)
(* a little at a time between the calls of the other tasks: a bin is       *)
(* sorted, the chunks are scanned, merging is turned on and off            *)
(* (smx_HeapManager(), src/APP/sys.c).  The mutex of the heap makes each   *)
(* call one step (smx_HeapEnter(), src/XSMX/xheap.c).                      *)
(*                                                                         *)
(* Sizes and addresses are in units of 8 bytes, to which eheap rounds.     *)
(* Left out: debug chunks and fill patterns, the pools of blocks of 8 and  *)
(* 12 bytes, regions and subregions of the MPU (region_srch()), the bin    *)
(* scan, and the repair of broken links.                                   *)
(***************************************************************************)
EXTENDS SmxChunks

(***************************************************************************)
(* Bound: the setups, of which a behaviour has one.  What eh_Init() is     *)
(* given: the sizes of the heap and of its donor chunk (sz, dcsz) and      *)
(* mode.fl.auto_rec (rec); and what the tasks call the heap with: the      *)
(* sizes of blocks and alignments, 2^n bytes (sizes, aligns), the counts   *)
(* and sizes for eh_BinSeed() (seeds), the addresses and sizes of          *)
(* extensions (exts), and the number of blocks allocated at a time (max).  *)
(***************************************************************************)
CONSTANT Setups

ASSUME HeapAssumption ==
    \A s \in Setups :
       /\ s.dcsz >= CcbSz /\ s.sz >= s.dcsz + CcbSz + 2
       /\ s.rec \in BOOLEAN /\ s.max \in Nat
       /\ s.sizes \subseteq Nat \ {0} /\ s.aligns \subseteq Nat
       /\ s.seeds \subseteq Nat \X s.sizes
       /\ \A x \in s.exts : x[1] > s.sz /\ x[2] > CcbSz   \* see note 8 of eheap.c

VARIABLES setup,    \* one of Setups
          hv,       \* eh_hvp[hn]
          blocks,   \* the sizes that were asked for, by the chunks of the allocated blocks
          hung      \* the chunk, a size and an alignment, that eh_Malloc() searches for ever

heapVars == <<setup, hv, blocks, hung>>

UseDc == setup.dcsz > CcbSz    \* mode.fl.use_dc

\* eh_Init()
HeapInit ==
    /\ setup \in Setups
    /\ LET tc == Pi + Hdr + setup.dcsz
           px == Pi + setup.sz - Hdr
           Chunk(fl, blf, use) == [fl |-> fl, blf |-> blf, sz |-> 0, use |-> use, ssp |-> Null]
       IN  hv = [ c |-> (Pi :> Chunk(Pi + Hdr, Null, TRUE))
                        @@ (Pi + Hdr :> [Chunk(tc, Pi, FALSE) EXCEPT !.sz = setup.dcsz])
                        @@ (tc :> [Chunk(px, Pi + Hdr, FALSE) EXCEPT !.sz = px - tc])
                        @@ (px :> Chunk(Null, tc, TRUE)),
                  q |-> [i \in Bins |-> <<>>],
                  bsmap |-> {}, csbin |-> NoBin, ccp |-> Null, ltp |-> Null, bsort |-> FALSE,
                  dcp |-> Pi + Hdr, tcp |-> tc, px |-> px, hsp |-> Pi,
                  cmerge |-> FALSE, grew |-> {} ]
    /\ blocks = <<>>
    /\ hung = <<>>

\* The chunk that a block of sz units needs.
ChunkFor(sz) == Max({sz, MinBlk}) + Hdr

-----------------------------------------------------------------------------
(* eh_Malloc(), eh_Calloc() *)

\* The chunk p that was found is in use: what it has to spare is split off, or it
\* is spare space.
Allot(h, p, csz) ==
    LET rest == h.c[p].sz - csz
        h1   == [h EXCEPT !.c[p].use = TRUE]
        h2   == IF rest >= MinFrag THEN SplitOff(h1, p, csz)
                ELSE [h1 EXCEPT !.c[p].ssp = IF rest > 0 THEN p + csz ELSE Null]
    IN  [h2 EXCEPT !.c[p].sz = 0]

Found(h, csz, an) == Find(h, csz, an, UseDc)

\* The heap, the new chunk, and whether the search goes on for ever: if nothing is
\* found chunks are recovered, and if nothing is found then this is done again.
Malloc(h, csz, an) ==
    LET f == Found(h, csz, an)
        r == Recover(h, csz, an)
        g == Found(r, csz, an)
        Result(x) == [h |-> Allot(x.h, x.p, csz), p |-> x.p, hung |-> <<>>]
    IN  IF f.p # Null THEN Result(f)
        ELSE IF ~setup.rec \/ Recoverable(h, csz, an) = {} THEN [h |-> h, p |-> Null, hung |-> <<>>]
        ELSE IF g.p # Null THEN Result(g)
        ELSE [h |-> r, p |-> Null, hung |-> <<csz, an>>]

HeapMalloc(sz, an) ==
    /\ Cardinality(DOMAIN blocks) < setup.max
    /\ \E m \in {Malloc(hv, ChunkFor(sz), an)} :
          /\ hv' = m.h
          /\ blocks' = IF m.p = Null THEN blocks ELSE (m.p :> sz) @@ blocks
          /\ hung' = m.hung

-----------------------------------------------------------------------------
(* eh_Free() *)

\* The spare space of the chunk below joins the free chunk p.
MergeSpare(h, p) ==
    LET lo == h.c[p].blf
        m  == h.c[lo].ssp
    IN  [MoveStart(h, p, m) EXCEPT !.c[lo].ssp = Null, !.hsp = IF @ = p THEN m ELSE @]

\* The heap without chunk p, and what eh_Free() leaves in pcp and ncp: the chunks it
\* merged with.  From eh_Realloc() it merges in any case, but no spare space.
Free(h, p, realloc) ==
    LET lo    == h.c[p].blf
        n     == h.c[p].fl
        merge == h.cmerge \/ realloc
        share == h.c[lo].ssp # Null /\ ~realloc
        down  == merge /\ lo # h.dcp /\ IsFree(h, lo)
        up    == merge /\ IsFree(h, n)
        h1 == [h EXCEPT !.c[p].use = FALSE, !.c[p].ssp = Null, !.c[p].sz = n - p]
        h2 == IF share THEN MergeSpare(h1, p) ELSE h1
        p2 == h2.c[n].blf
        h3 == IF down THEN Absorb(BinDq(h2, lo), lo, p2) ELSE h2
        p3 == h3.c[n].blf
        h4 == IF up THEN ChunkMergeUp(h3, p3) ELSE h3
    IN  [ h   |-> BinNqUnlessDcTc(h4, p3),
          pcp |-> IF down THEN lo ELSE Null,
          ncp |-> IF up THEN n ELSE Null ]

BlocksBut(p) == [b \in DOMAIN blocks \ {p} |-> blocks[b]]

HeapFree(p) ==
    /\ hv' = Free(hv, p, FALSE).h
    /\ blocks' = BlocksBut(p)
    /\ UNCHANGED hung

-----------------------------------------------------------------------------
(* eh_Realloc() *)

\* chunk_unfree(p): what eh_Free() merged is taken apart again, and the chunk's
\* flags are restored.
ChunkUnfree(f, p, ssp) ==
    LET g     == f.h
        merged == IF f.pcp # Null THEN f.pcp ELSE p     \* the chunk that has p in it
        h1 == CASE merged = g.dcp -> [g EXCEPT !.dcp = p]
                [] merged = g.tcp -> [g EXCEPT !.tcp = p]
                [] OTHER          -> BinDq(g, merged)
        h2 == IF f.pcp = Null THEN h1
              ELSE BinNq(ChunkSplit(h1, f.pcp, p - f.pcp), f.pcp)
        h3 == IF f.ncp = Null THEN h2 ELSE ChunkSplit(h2, p, f.ncp - p)
        h4 == CASE f.ncp = Null -> h3
                [] p = h3.dcp   -> [h3 EXCEPT !.dcp = f.ncp]
                [] p = h3.tcp   -> [h3 EXCEPT !.tcp = f.ncp]
                [] OTHER        -> BinNq(h3, f.ncp)
    IN  [h4 EXCEPT !.c[p].use = TRUE, !.c[p].ssp = ssp, !.c[p].sz = 0]

\* Another chunk, perhaps the same one after it was merged; or the old one is kept.
ReallocMove(p, sz, an) ==
    \E f \in {Free(hv, p, TRUE)} : \E m \in {Malloc(f.h, ChunkFor(sz), an)} :
        /\ hv' = IF m.p = Null /\ m.hung = <<>> THEN ChunkUnfree(f, p, hv.c[p].ssp) ELSE m.h
        /\ blocks' = CASE m.p # Null     -> (m.p :> sz) @@ BlocksBut(p)
                       [] m.hung # <<>> -> BlocksBut(p)
                       [] OTHER         -> blocks
        /\ hung' = m.hung

\* The chunk is large enough and its block aligned: it is kept, and what it has to
\* spare is split off.  EH_SSP stays as it is, and the block's data may replace the
\* address it stands for.
ReallocInPlace(p, sz) ==
    LET csz  == ChunkFor(sz)
        ccsz == hv.c[p].fl - p
        split == ccsz >= csz + MinFrag
        lost == hv.c[p].ssp # Null /\ (split \/ csz = ccsz)
        h1   == IF split THEN SplitOff(hv, p, csz) ELSE hv
    IN  /\ hv' = [h1 EXCEPT !.c[p].ssp = IF lost THEN Junk ELSE @]
        /\ blocks' = [blocks EXCEPT ![p] = sz]
        /\ UNCHANGED hung

\* Mutant: a chunk is kept if the block fits, without its header.
HeapRealloc_NoHeader(p, sz, an) ==
    IF sz > hv.c[p].fl - p \/ Dist(p, an) # 0
      THEN ReallocMove(p, sz, an)
      ELSE ReallocInPlace(p, sz)

HeapRealloc(p, sz, an) ==
    IF ChunkFor(sz) > hv.c[p].fl - p \/ Dist(p, an) # 0
      THEN ReallocMove(p, sz, an)
      ELSE ReallocInPlace(p, sz)

-----------------------------------------------------------------------------
(* eh_BinSeed(num, bsz): a chunk for num blocks is divided among them and  *)
(* they are freed, without merging.                                        *)

HeapBinSeed(num, bsz) ==
    /\ blocks = <<>>    \* Bound: bins are seeded before blocks are allocated
    /\ \E m \in {Malloc(hv, num * (bsz + Hdr), 0)} :
          LET At(i) == m.p + (i - 1) * (bsz + Hdr)
              Cut(g, i) == LET s == ChunkSplit(g, At(i), bsz + Hdr)
                           IN  [s EXCEPT !.c[At(i + 1)].use = TRUE, !.c[At(i + 1)].sz = 0]
              cut  == FoldLeft(Cut, [m.h EXCEPT !.cmerge = FALSE], [i \in 1..(num - 1) |-> i])
              free == FoldLeft(LAMBDA g, i : Free(g, At(i), FALSE).h, cut, [i \in 1..num |-> i])
          IN  /\ hv' = IF m.p = Null THEN m.h ELSE [free EXCEPT !.cmerge = hv.cmerge]
              /\ hung' = m.hung
    /\ UNCHANGED blocks

-----------------------------------------------------------------------------
(* eh_Recover(sz, -1, an), when somebody calls it *)

HeapRecover(sz, an) ==
    /\ Recoverable(hv, sz + Hdr, an) # {}
    /\ hv' = Recover(hv, sz + Hdr, an)
    /\ UNCHANGED <<blocks, hung>>

-----------------------------------------------------------------------------
(* eh_Extend(xsz, xp) *)

\* The extension follows the heap: it joins the top chunk.
ExtendTop(xsz) ==
    LET px == hv.px + xsz
        c1 == [x \in Chunks(hv) \ {hv.px} |->
                 IF x = hv.tcp THEN [hv.c[x] EXCEPT !.fl = px, !.sz = @ + xsz] ELSE hv.c[x]]
    IN  [hv EXCEPT !.c = (px :> hv.c[hv.px]) @@ c1, !.px = px]

\* There is a gap: it becomes a chunk in use, and the extension the top chunk.
ExtendGap(xp, xsz) ==
    LET px == xp + xsz - Hdr
        c1 == (xp :> [fl |-> px, blf |-> hv.px, sz |-> xsz - Hdr, use |-> FALSE, ssp |-> Null])
              @@ (px :> [hv.c[hv.px] EXCEPT !.blf = xp])
              @@ [hv.c EXCEPT ![hv.px].fl = xp]
    IN  [BinNq([hv EXCEPT !.c = c1], hv.tcp) EXCEPT !.tcp = xp, !.px = px]

HeapExtend(xp, xsz) ==
    /\ xp > hv.px
    /\ hv' = IF xp = hv.px + Hdr THEN ExtendTop(xsz) ELSE ExtendGap(xp, xsz)
    /\ UNCHANGED <<blocks, hung>>

-----------------------------------------------------------------------------
(* The heap manager *)

\* s with x moved to before y.
MoveBefore(s, x, y) == LET r == Remove(s, x) IN InsertAt(r, PosIn(r, y), x)

\* Start or restart the sort of bin i.
SortStart(h, i) ==
    IF i \notin h.bsmap THEN h
    ELSE [h EXCEPT !.csbin = i, !.ccp = Head(h.q[i]), !.ltp = Last(h.q[i]), !.bsort = TRUE,
                   !.bsmap = @ \ {i}, !.grew = @ \ {i}]

\* The last turtle goes before the current chunk if it is smaller.
SortTurtle(h, end) ==
    LET s == h.q[h.csbin]
    IN  IF h.c[h.ltp].sz >= h.c[h.ccp].sz THEN h
        ELSE [h EXCEPT !.q[h.csbin] = MoveBefore(s, h.ltp, h.ccp),
                       !.ltp   = IF end THEN @ ELSE s[PosIn(s, h.ltp) - 1],
                       !.bsort = @ /\ end]

\* The chunk after the current one goes before it if it is smaller; the result says
\* whether the pass is done as well.
SortBubble(h) ==
    LET s    == h.q[h.csbin]
        n    == s[PosIn(s, h.ccp) + 1]
        last == n = h.ltp
    IN  [ done |-> last,
          h |-> IF h.c[n].sz < h.c[h.ccp].sz
                  THEN [h EXCEPT !.q[h.csbin] = MoveBefore(s, n, h.ccp), !.bsort = @ /\ last]
                ELSE IF last THEN [h EXCEPT !.ltp = s[PosIn(s, n) - 1]]
                ELSE [h EXCEPT !.ccp = n] ]

\* One round of the loop of eh_BinSort().
SortRound(h) ==
    LET s   == h.q[h.csbin]
        end == PosIn(s, h.ccp) + 1 = PosIn(s, h.ltp)
        h1  == SortTurtle(h, end)
        r   == IF end THEN [h |-> h1, done |-> TRUE] ELSE SortBubble(h1)
    IN  IF ~r.done THEN r.h
        ELSE IF r.h.bsort THEN [r.h EXCEPT !.csbin = NoBin, !.ccp = Null, !.ltp = Null, !.bsort = FALSE]
        ELSE [r.h EXCEPT !.ccp = Head(r.h.q[h.csbin]), !.bsort = TRUE]

\* eh_BinSort(binno, 1), for a bin of the caller's choice unless one is being sorted.
HeapBinSort(i) ==
    /\ IF hv.csbin = NoBin THEN i \in hv.bsmap ELSE i = hv.csbin
    /\ hv' = SortRound(SortStart(hv, i))
    /\ UNCHANGED <<blocks, hung>>

\* eh_Scan(NULL, 1, bnum) of a heap whose links are right.  Bound: not while a bin is
\* being sorted, with which it has nothing to do.
HeapScan ==
    /\ hv.csbin = NoBin
    /\ LET p == IF hv.hsp = Null THEN Pi ELSE hv.hsp
       IN  hv' = [hv EXCEPT !.hsp = IF hv.c[p].fl = hv.px THEN Pi ELSE hv.c[p].fl]
    /\ UNCHANGED <<blocks, hung>>

\* eh_Set(EH_ST_MERGE, val), by the heap manager or someone else.
HeapSetMerge(val) == /\ hv' = [hv EXCEPT !.cmerge = val]
                     /\ UNCHANGED <<blocks, hung>>

-----------------------------------------------------------------------------

HeapCall == \/ \E sz \in setup.sizes, an \in setup.aligns :
                  \/ HeapMalloc(sz, an)
                  \/ HeapRecover(sz, an)
                  \/ \E p \in DOMAIN blocks : HeapRealloc(p, sz, an)
            \/ \E p \in DOMAIN blocks : HeapFree(p)
            \/ \E s \in setup.seeds : HeapBinSeed(s[1], s[2])
            \/ \E x \in setup.exts : HeapExtend(x[1], x[2])
            \/ \E i \in Bins : HeapBinSort(i)
            \/ HeapScan
            \/ \E val \in BOOLEAN : HeapSetMerge(val)

\* Bound: nothing is done any more when a call has not returned, or a block's data
\* have replaced the address of spare space: what is done with them is undefined.
HeapDefined == hung = <<>> /\ \A p \in Chunks(hv) : hv.c[p].ssp # Junk

HeapNext == /\ HeapDefined
            /\ HeapCall
            /\ UNCHANGED setup

HeapSpec == HeapInit /\ [][HeapNext]_heapVars

-----------------------------------------------------------------------------
(* Properties *)

(***************************************************************************)
(* The chunks follow each other without gaps from the start to the end     *)
(* chunk, the back links and the sizes of free chunks agree with the       *)
(* forward links, and every free chunk is the donor chunk, the top chunk,  *)
(* or in just one bin, the one for its size.                               *)
(***************************************************************************)
HeapConsistent ==
    LET c == hv.c
        binned == {p \in Chunks(hv) : IsFree(hv, p)} \ {hv.dcp, hv.tcp}
    IN  /\ Min(Chunks(hv)) = Pi /\ Max(Chunks(hv)) = hv.px
        /\ \A p \in Chunks(hv) \ {hv.px} :
              /\ c[p].fl = Min({x \in Chunks(hv) : x > p})
              /\ c[c[p].fl].blf = p
              /\ IsFree(hv, p) => c[p].sz = c[p].fl - p /\ c[p].sz >= CcbSz
        /\ hv.dcp # hv.tcp /\ {hv.dcp, hv.tcp} \subseteq {p \in Chunks(hv) : IsFree(hv, p)}
        /\ \A i \in Bins : IsInjective(hv.q[i]) /\ Range(hv.q[i]) = {p \in binned : BinFor(c[p].sz) = i}

BlockRoom(p) == hv.c[p].fl - p

(***************************************************************************)
(* No call takes room from a block that is not its own, except from one    *)
(* that eh_Realloc() has let grow into the spare space of its chunk:       *)
(* EH_SSP is still set then and the old address still there.               *)
(***************************************************************************)
OnlyRegrownBlocksLoseRoom ==
    [][\A p \in DOMAIN blocks :
          \/ p \notin DOMAIN blocks'
          \/ BlockRoom(p)' >= ChunkFor(blocks'[p])
          \/ blocks'[p] = blocks[p] /\ BlockRoom(p)' >= BlockRoom(p)
          \/ hv.c[p].ssp # Null /\ hv.c[p].ssp < p + ChunkFor(blocks[p])]_heapVars

Sorted(h, i) == \A j \in 2..Len(h.q[i]) : h.c[h.q[i][j - 1]].sz <= h.c[h.q[i][j]].sz

(***************************************************************************)
(* The heap manager resumes the scan and the sort where it left them: at a *)
(* chunk, and at two chunks of the bin in their order, or the sort is      *)
(* marked to start over.  A bin that is neither marked nor being sorted is *)
(* in order, so that the first chunk that is large enough is the best,     *)
(* unless a chunk of it was made larger where it is by merge_space().      *)
(***************************************************************************)
SortResumes ==
    /\ hv.hsp = Null \/ hv.hsp \in Chunks(hv) \ {hv.px}
    /\ hv.csbin # NoBin /\ hv.csbin \notin hv.bsmap =>
          LET s == hv.q[hv.csbin]
          IN  /\ {hv.ccp, hv.ltp} \subseteq Range(s)
              /\ PosIn(s, hv.ccp) < PosIn(s, hv.ltp)
    /\ \A i \in Bins : \/ i \in hv.bsmap \/ hv.csbin = i \/ i \in hv.grew
                       \/ Sorted(hv, i)

(***************************************************************************)
(* With auto-recovery eh_Malloc() searches for ever only if what           *)
(* eh_Recover() finds is the top chunk or the donor chunk, and it is large *)
(* enough for the chunk but not for the control block of what would be     *)
(* left, or the donor chunk is not to be used.                             *)
(***************************************************************************)
HangsOnlyAtEnds ==
    hung # <<>> =>
        \E p \in {hv.dcp, hv.tcp} :
            /\ hv.c[p].sz >= hung[1] + Dist(p, hung[2])
            /\ \/ hv.c[p].sz < hung[1] + Dist(p, hung[2]) + CcbSz
               \/ p = hv.dcp /\ ~UseDc
=============================================================================
