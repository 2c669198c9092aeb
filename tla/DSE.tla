-------------------------------- MODULE DSE --------------------------------
(***************************************************************************)
(* The dead-store tracker of DSE.cpp on one allocation of Size bytes.     *)
(*                                                                         *)
(* Each block has a DSELocalStore, shared copy-on-write and counted by     *)
(* refCount.  Its DSEMapPointer for the allocation holds an IntervalMap   *)
(* from half-open byte ranges to a DSEMapEntry, the vector of             *)
(* TrackedStores that may have written those bytes last.  Every           *)
(* TrackedStore counts outstandingBytes, the bytes of all maps that name  *)
(* it.  When the count reaches zero and the store is not isNeeded, the    *)
(* store instruction is dead (TrackedStore::derefBytes).                   *)
(*                                                                         *)
(* The allocation is a global, or an alloca or malloc the entry block    *)
(* runs first.  Then each map also holds the allocation's TrackedAlloc    *)
(* (its A), counted by nRefs; when the last reference goes and the        *)
(* allocation is not isNeeded, the allocation instruction is dead         *)
(* (TrackedAlloc::dropReference).  A block with no successors pops the    *)
(* stack frame, releasing an alloca's map.                                 *)
(***************************************************************************)
EXTENDS Integers, Sequences, FiniteSets, TLC

LOCAL SE == INSTANCE SequencesExt
LOCAL FS == INSTANCE FiniteSetsExt

CONSTANTS
    Size,        \* bytes of the allocation
    UMax,        \* stands for 2^64 - 1, an End past every byte
    Blocks, Entry,
    Order,       \* the walk order of tryKillStoresInLoop: a topological order
    Preds,       \* Preds[b]: live predecessors in visit order
    Returns,     \* blocks ending in a ReturnInst
    Code,        \* Code[b]: the instruction sequences block b may hold
    PathCond,    \* blocks that start with a path-condition check
    MaxLS,       \* size of the DSELocalStore pool
    LoopBlocks,  \* the blocks of one unbounded loop, contiguous in Order ({} for none)
    Header, Latch, Preheader   \* its header, its latch, and the block before it

Bytes == 0 .. Size - 1
UnknownSize == -1                       \* AliasAnalysis::UnknownSize
NIL == 0
LSIds == 1 .. MaxLS
Succs(b) == {s \in Blocks : \E i \in DOMAIN Preds[s] : Preds[s][i] = b}
\* A TrackedStore is named by its instruction: block and position.
SIds == {<<b, j>> : b \in Blocks, j \in 1 .. 4}

(***************************************************************************)
(* IntervalMap with half-open keys, while it is a root leaf: a sorted     *)
(* sequence of [lo, hi, e].  insert coalesces the new interval with an    *)
(* adjacent one holding an equal value; iterators are leaf offsets.        *)
(***************************************************************************)
Iv(lo, hi, e) == [lo |-> lo, hi |-> hi, e |-> e]

\* find(x): the first interval whose stop is past x (end = Len + 1).
Find(M, x) == Cardinality({i \in DOMAIN M : M[i].hi <= x}) + 1

CoalescePrev(M, i, a, y) == i > 1 /\ M[i - 1].e = y /\ M[i - 1].hi = a
CoalesceNext(M, i, b, y) == i <= Len(M) /\ M[i].e = y /\ M[i].lo = b

\* LeafNode::insertFrom at the position findFrom gives.
LeafInsert(M, i, a, b, y) ==
    CASE CoalescePrev(M, i, a, y) /\ CoalesceNext(M, i, b, y) ->
            SE!RemoveAt([M EXCEPT ![i - 1].hi = M[i].hi], i)
      [] CoalescePrev(M, i, a, y) -> [M EXCEPT ![i - 1].hi = b]
      [] CoalesceNext(M, i, b, y) -> [M EXCEPT ![i].lo = a]
      [] OTHER -> SE!InsertAt(M, i, Iv(a, b, y))

IMInsert(M, a, b, y) == LeafInsert(M, Find(M, a), a, b, y)

(***************************************************************************)
(* TrackedStore records and their byte counts.                            *)
(***************************************************************************)
NoStore == [st |-> "none", out |-> 0, needed |-> FALSE]

\* TrackedStore::canKill, for a store never committed.
CanKill(s, t) == ~s.ts[t].needed

\* TrackedStore::derefBytes: at zero, kill if it can be killed, and delete.
DerefOne(s, t, n) ==
    IF s.ts[t].out - n = 0
    THEN [s EXCEPT !.ts[t] = [@ EXCEPT !.st = "freed", !.out = 0],
                   !.dead = IF CanKill(s, t) THEN @ \cup {t} ELSE @]
    ELSE [s EXCEPT !.ts[t].out = @ - n]

\* derefBytes(DSEMapEntry&, nBytes): every store of the entry.
RECURSIVE DerefEntry(_, _, _)
DerefEntry(s, e, n) ==
    IF e = <<>> THEN s ELSE DerefEntry(DerefOne(s, Head(e), n), Tail(e), n)

\* The bytes of a copied or merged entry are added to each of its stores.
AddBytes(s, e, n) == [s EXCEPT !.ts = [t \in DOMAIN @ |->
                         IF t \in SE!ToSet(e) THEN [@[t] EXCEPT !.out = @ + n]
                         ELSE @[t]]]

MarkNeeded(s, e) == [s EXCEPT !.ts = [t \in DOMAIN @ |->
                        IF t \in SE!ToSet(e) THEN [@[t] EXCEPT !.needed = TRUE]
                        ELSE @[t]]]

(***************************************************************************)
(* GCStores: drop the stores of an entry that are already needed.  After  *)
(* swapping the last store into slot i it still advances past slot i.     *)
(***************************************************************************)
SwapPop(e, i) == [SE!RemoveAt(e, Len(e)) EXCEPT ![i] = e[Len(e)]]

RECURSIVE GCLoop(_, _, _, _)
GCLoop(s, e, i, n) ==
    CASE i > Len(e) -> [s |-> s, e |-> e]
      [] CanKill(s, e[i]) -> GCLoop(s, e, i + 1, n)
      [] i = Len(e) -> [s |-> DerefOne(s, e[i], n), e |-> SE!RemoveAt(e, i)]
      [] OTHER -> GCLoop(DerefOne(s, e[i], n), SwapPop(e, i), i + 1, n)

GCStores(s, e, n) == GCLoop(s, e, 1, n)

(***************************************************************************)
(* The TrackedAlloc of the allocation: not yet created, live or deleted,  *)
(* with nRefs, isNeeded, whether dropReference killed it, and the kind of *)
(* the instruction that made it.                                           *)
(***************************************************************************)
NoAlloc == [st |-> "none", refs |-> 0, needed |-> FALSE, dead |-> FALSE, kind |-> "global"]

\* TrackedAlloc::dropReference: the last reference kills the allocation
\* unless it is needed, and deletes the TrackedAlloc.
DropAlloc(s) ==
    IF s.ta.refs = 1
    THEN [s EXCEPT !.ta = [@ EXCEPT !.st = "freed", !.refs = 0, !.dead = ~s.ta.needed]]
    ELSE [s EXCEPT !.ta.refs = @ - 1]

\* The end of DSEMapPointer::release: if (A) { A->dropReference(); A = 0; }
ReleaseA(s, id) == IF s.ls[id].a THEN [DropAlloc(s) EXCEPT !.ls[id].a = FALSE] ELSE s

(***************************************************************************)
(* The DSELocalStore pool.  A store's map for the allocation is m, and a  *)
(* tells whether the map holds the TrackedAlloc.                           *)
(***************************************************************************)
FreeLS == [live |-> FALSE, rc |-> 0, m |-> <<>>, a |-> FALSE]
NewLS(ls) == CHOOSE i \in LSIds : ~ls[i].live
Width(iv) == iv.hi - iv.lo
StoresOf(M) == UNION {SE!ToSet(M[i].e) : i \in DOMAIN M}

SetEntry(M, lo, e) == [M EXCEPT ![Find(M, lo)].e = e]

\* getReadableCopy: GC each old entry, erase it from the old map if it is
\* empty, else copy it and add its bytes to each of its stores.
RECURSIVE CopyLoop(_, _, _, _)
CopyAt(r, id, i, nm) ==
    IF r.e = <<>>
    THEN CopyLoop([r.s EXCEPT !.ls[id].m = SE!RemoveAt(@, i)], id, i, nm)
    ELSE CopyLoop(AddBytes([r.s EXCEPT !.ls[id].m[i].e = r.e], r.e,
                           Width(r.s.ls[id].m[i])),
                  id, i + 1,
                  SetEntry(IMInsert(nm, r.s.ls[id].m[i].lo, r.s.ls[id].m[i].hi, <<>>),
                           r.s.ls[id].m[i].lo, r.e))
CopyLoop(s, id, i, nm) ==
    IF i > Len(s.ls[id].m) THEN [s |-> s, m |-> nm]
    ELSE CopyAt(GCStores(s, s.ls[id].m[i].e, Width(s.ls[id].m[i])), id, i, nm)

\* getWritableFrameList: the store itself if unshared, else a copy; the
\* copy of the map adds a reference to its allocation.
CopyLS(r, old, n) ==
    [s |-> [r.s EXCEPT !.ls[n] = [live |-> TRUE, rc |-> 1, m |-> r.m, a |-> r.s.ls[old].a],
                       !.ls[old].rc = @ - 1,
                       !.ta.refs = IF r.s.ls[old].a THEN @ + 1 ELSE @],
     id |-> n]
GetWritableId(s, id) ==
    IF s.ls[id].rc = 1 THEN [s |-> s, id |-> id]
    ELSE CopyLS(CopyLoop(s, id, 1, <<>>), id, NewLS(s.ls))
Adopt(r, b) == [r.s EXCEPT !.bb[b] = r.id]
GetWritableLS(s, b) == Adopt(GetWritableId(s, s.bb[b]), b)

\* DSEMapPointer::release: drop every entry's bytes.
RECURSIVE ReleaseMap(_, _)
ReleaseMap(s, M) ==
    IF M = <<>> THEN s
    ELSE ReleaseMap(DerefEntry(s, Head(M).e, Width(Head(M))), Tail(M))

\* DSELocalStore::dropReference: the last reference releases the maps.
DropLS(s, id) ==
    IF s.ls[id].rc = 1 THEN [ReleaseA(ReleaseMap(s, s.ls[id].m), id) EXCEPT !.ls[id] = FreeLS]
    ELSE [s EXCEPT !.ls[id].rc = @ - 1]

\* DSELocalStore::getEmptyMap.
NewEmptyLS(s, b) ==
    [s EXCEPT !.ls[NewLS(s.ls)] = [live |-> TRUE, rc |-> 1, m |-> <<>>, a |-> FALSE],
              !.bb[b] = NewLS(s.ls)]
GetEmptyLS(s, b) ==
    CASE s.ls[s.bb[b]].m = <<>> /\ ~s.ls[s.bb[b]].a -> s
      [] s.ls[s.bb[b]].rc = 1 ->
            [ReleaseA(ReleaseMap(s, s.ls[s.bb[b]].m), s.bb[b]) EXCEPT !.ls[s.bb[b]].m = <<>>]
      [] OTHER -> NewEmptyLS(DropLS(s, s.bb[b]), b)

\* setAllNeededTop: every store the block's maps name becomes needed, and
\* so does the allocation of a map holding its TrackedAlloc.
SetAllNeededTopNoAlloc(s, b) == MarkNeeded(s, SE!SetToSeq(StoresOf(s.ls[s.bb[b]].m)))
SetAllNeededTop(s, b) ==
    [MarkNeeded(s, SE!SetToSeq(StoresOf(s.ls[s.bb[b]].m)))
        EXCEPT !.ta.needed = @ \/ s.ls[s.bb[b]].a]

(***************************************************************************)
(* useWriters and setWriter.  End is (uint64_t)(Offset + Size): with      *)
(* Size = UnknownSize (2^64 - 1) it wraps to Offset - 1 unless Offset = 0. *)
(***************************************************************************)
EndOf(off, size) ==
    IF size = UnknownSize THEN (IF off = 0 THEN UMax ELSE off - 1) ELSE off + size

EraseAt(s, id, i) ==
    [DerefEntry(s, s.ls[id].m[i].e, Width(s.ls[id].m[i]))
        EXCEPT !.ls[id].m = SE!RemoveAt(@, i)]

\* Knock out every entry from find(Offset) that starts before End.
\* Mutant: the entry is erased without marking its stores needed.
ReadEntryNoMark(s, id, i) == EraseAt(s, id, i)
\* Every store of the entry is needed; the entry is erased.
ReadEntry(s, id, i) == EraseAt(MarkNeeded(s, s.ls[id].m[i].e), id, i)

RECURSIVE UseLoop(_, _, _, _)
UseLoop(s, id, i, end) ==
    IF i > Len(s.ls[id].m) \/ s.ls[id].m[i].lo >= end THEN s
    ELSE UseLoop(ReadEntry(s, id, i), id, i, end)

UseWriters(s, id, off, size) == UseLoop(s, id, Find(s.ls[id].m, off), EndOf(off, size))

\* The entry at i starts before Offset: trim it, and if it also ends past
\* End, put its tail back after the new write and stop.
Straddle(s, id, i, off, end, oldStop) ==
    IF oldStop > end
    THEN [s EXCEPT !.ls[id].m = IMInsert(@, end, oldStop, @[i].e)]
    ELSE s

\* Mutant: the straddling entry keeps its stop.
TrimAtNoop(s, id, i, off) == s
\* it.setStop(Offset).
TrimAt(s, id, i, off) == [s EXCEPT !.ls[id].m[i].hi = off]

RECURSIVE SetLoop(_, _, _, _, _)
SetLoop(s, id, i, off, end) ==
    CASE i > Len(s.ls[id].m) \/ s.ls[id].m[i].lo >= end -> s
      [] s.ls[id].m[i].lo < off /\ s.ls[id].m[i].hi > end ->
            Straddle(DerefEntry(TrimAt(s, id, i, off), s.ls[id].m[i].e,
                                end - off),
                     id, i, off, end, s.ls[id].m[i].hi)
      [] s.ls[id].m[i].lo < off ->
            SetLoop(DerefEntry(TrimAt(s, id, i, off), s.ls[id].m[i].e,
                               s.ls[id].m[i].hi - off),
                    id, i + 1, off, end)
      [] s.ls[id].m[i].hi > end ->
            SetLoop(DerefEntry([s EXCEPT !.ls[id].m[i].lo = end], s.ls[id].m[i].e,
                               end - s.ls[id].m[i].lo),
                    id, i + 1, off, end)
      [] OTHER -> SetLoop(EraseAt(s, id, i), id, i, off, end)

NewWriter(s, id, off, size, t) ==
    [s EXCEPT !.ts[t] = [st |-> "live", out |-> size, needed |-> FALSE],
              !.ls[id].m = IMInsert(@, off, off + size, <<t>>)]

SetWriter(s, id, off, size, t) ==
    NewWriter(SetLoop(s, id, Find(s.ls[id].m, off), off, off + size), id, off, size, t)

\* DSEHandleRead / DSEHandleWrite on a precise pointer into the allocation,
\* after getWritableDSEStore.
\* The allocation is needed, and no longer tracked by this map.
ReadAlloc(s, id) == IF s.ls[id].a THEN ReleaseA([s EXCEPT !.ta.needed = TRUE], id) ELSE s
HandleReadW(s, b, off, size) == UseWriters(ReadAlloc(s, s.bb[b]), s.bb[b], off, size)
DSEHandleRead(s, b, off, size) == HandleReadW(GetWritableLS(s, b), b, off, size)
HandleWriteW(s, b, off, size, t) == SetWriter(s, s.bb[b], off, size, t)
DSEHandleWrite(s, b, off, size, t) == HandleWriteW(GetWritableLS(s, b), b, off, size, t)

\* The arguments of a known system call: a non-pointer argument returns
\* from the whole analysis of the call; a pointer is read for UnknownSize.
RECURSIVE CallArgs(_, _, _)
CallArgs(s, b, args) ==
    CASE args = <<>> -> s
      [] Head(args).k = "int" -> s
      [] OTHER -> CallArgs(DSEHandleRead(s, b, Head(args).off, UnknownSize), b, Tail(args))

\* An alloca or a malloc: the allocation's map gets a new TrackedAlloc.
NewAlloc(w, b, kind) ==
    [w EXCEPT !.ls[w.bb[b]].a = TRUE,
              !.ta = [st |-> "live", refs |-> 1, needed |-> FALSE, dead |-> FALSE, kind |-> kind]]
\* DSEMapPointer::release of the block's map, after getWritableDSEStore:
\* free, and popStackFrame for an alloca.
ReleaseW(w, b) ==
    ReleaseA([ReleaseMap(w, w.ls[w.bb[b]].m) EXCEPT !.ls[w.bb[b]].m = <<>>], w.bb[b])
FreeW(s, b) == ReleaseW(GetWritableLS(s, b), b)

\* A read through an unknown pointer, or an unknown call.
ReadAll(s, b) == GetEmptyLS(SetAllNeededTop(s, b), b)

\* DSEAnalyseInstruction for the instruction at position j of block b.
\* With writes disabled only loads and memory transfers are looked at, and
\* a memory transfer only for what it reads.
DSEAnalyseInstruction(s, b, j, ins, disableWrites) ==
    IF disableWrites /\ ins.op \notin {"load", "memcpy"} THEN s
    ELSE CASE ins.op = "store"  -> DSEHandleWrite(s, b, ins.off, ins.len, <<b, j>>)
      [] ins.op = "load"   -> DSEHandleRead(s, b, ins.off, ins.len)
      [] ins.op = "memcpy" -> DSEHandleRead(s, b, ins.off, UnknownSize)
      [] ins.op = "call"   -> CallArgs(s, b, ins.args)
      [] ins.op = "opaque" -> ReadAll(s, b)
      [] ins.op = "alloca" -> NewAlloc(GetWritableLS(s, b), b, "stack")
      [] ins.op = "malloc" -> NewAlloc(GetWritableLS(s, b), b, "heap")
      [] ins.op = "free"   -> FreeW(s, b)

(***************************************************************************)
(* DSEMapPointer::mergeStores(mergeFrom, mergeTo).  Both maps are GC'd,   *)
(* then to is split wherever from has a boundary, then each from store is *)
(* added to the to entries the final loop visits.  Maps are changed only  *)
(* through IntervalMap insert, setStop and erase, so the splits are        *)
(* subject to coalescing.                                                   *)
(***************************************************************************)
RECURSIVE GCMap(_, _, _)
GCAt(r, id, i) ==
    IF r.e = <<>> THEN GCMap([r.s EXCEPT !.ls[id].m = SE!RemoveAt(@, i)], id, i)
    ELSE GCMap([r.s EXCEPT !.ls[id].m[i].e = r.e], id, i + 1)
GCMap(s, id, i) ==
    IF i > Len(s.ls[id].m) THEN s
    ELSE GCAt(GCStores(s, s.ls[id].m[i].e, Width(s.ls[id].m[i])), id, i)

MinOf(x, y) == IF x < y THEN x ELSE y

\* Before the gap loop: fill a gap at the start of f, or break at its start.
SplitStart(M, f, i) ==
    CASE i > Len(M)      -> IMInsert(M, f.lo, f.hi, <<>>)
      [] M[i].lo > f.lo  -> IMInsert(M, f.lo, MinOf(M[i].lo, f.hi), <<>>)
      [] M[i].lo < f.lo  -> IMInsert([M EXCEPT ![i].hi = f.lo], f.lo, M[i].hi, M[i].e)
      [] OTHER           -> M

GapStop(M, i, f) == IF i + 1 > Len(M) THEN f.hi ELSE MinOf(M[i + 1].lo, f.hi)
HasGap(M, i) == i + 1 > Len(M) \/ M[i + 1].lo # M[i].hi

\* toit = find(toit.stop()) reads the stop through the iterator taken before
\* the insert, i.e. at the same leaf offset; then ++toit.
RECURSIVE GapLoop(_, _, _)
Refind(M1, i, f) == GapLoop(M1, Find(M1, M1[i].hi) + 1, f)
GapLoop(M, i, f) ==
    CASE i > Len(M) \/ M[i].hi >= f.hi -> [m |-> M, i |-> i]
      [] HasGap(M, i) -> Refind(IMInsert(M, M[i].hi, GapStop(M, i, f), <<>>), i, f)
      [] OTHER -> GapLoop(M, i + 1, f)

\* Last entry over-long: split it at the stop of f.
OverLong(r, f) ==
    IF r.i <= Len(r.m) /\ r.m[r.i].lo < f.hi /\ r.m[r.i].hi > f.hi
    THEN IMInsert([r.m EXCEPT ![r.i].hi = f.hi], f.hi, r.m[r.i].hi, r.m[r.i].e)
    ELSE r.m

SplitGaps(M1, f) == OverLong(GapLoop(M1, Find(M1, f.lo), f), f)
SplitOne(M, f) == SplitGaps(SplitStart(M, f, Find(M, f.lo)), f)

RECURSIVE SplitAll(_, _)
SplitAll(M, F) == IF F = <<>> THEN M ELSE SplitAll(SplitOne(M, Head(F)), Tail(F))

\* Mutant: the store is pushed without counting the entry's bytes.
AddOneNoCount(s, to, ti, t) ==
    IF t \in SE!ToSet(s.ls[to].m[ti].e) THEN s
    ELSE [s EXCEPT !.ls[to].m[ti].e = Append(@, t)]

\* Add one from store to the to entry at ti unless it is already there.
AddOne(s, to, ti, t) ==
    IF t \in SE!ToSet(s.ls[to].m[ti].e) THEN s
    ELSE [s EXCEPT !.ls[to].m[ti].e = Append(@, t),
                   !.ts[t].out = @ + Width(s.ls[to].m[ti])]

RECURSIVE AddEntry(_, _, _, _)
AddEntry(s, to, ti, fe) ==
    IF fe = <<>> THEN s ELSE AddEntry(AddOne(s, to, ti, Head(fe)), to, ti, Tail(fe))

\* The final loop: for each from entry, every to entry from toit whose stop
\* is within it.  toit at end() is read as a stop past the from entry.
RECURSIVE AddFrom(_, _, _, _, _)
AddFrom(s, to, F, fi, ti) ==
    CASE fi > Len(F) -> s
      [] ti <= Len(s.ls[to].m) /\ s.ls[to].m[ti].hi <= F[fi].hi ->
            AddFrom(AddEntry(s, to, ti, F[fi].e), to, F, fi, ti + 1)
      [] OTHER -> AddFrom(s, to, F, fi + 1, ti)

SplitPhase(s, from, to) == [s EXCEPT !.ls[to].m = SplitAll(@, s.ls[from].m)]
AddPhase(s, from, to) ==
    IF s.ls[from].m = <<>> THEN s
    ELSE AddFrom(s, to, s.ls[from].m, 1, Find(s.ls[to].m, s.ls[from].m[1].lo))

\* The target map takes the allocation's reference if it has none.
MergeAllocNoRef(s, from, to) ==
    IF ~s.ls[to].a /\ s.ls[from].a THEN [s EXCEPT !.ls[to].a = TRUE] ELSE s
MergeAlloc(s, from, to) ==
    IF ~s.ls[to].a /\ s.ls[from].a THEN [s EXCEPT !.ls[to].a = TRUE, !.ta.refs = @ + 1] ELSE s

MergeStores(s, from, to) ==
    AddPhase(SplitPhase(GCMap(GCMap(MergeAlloc(s, from, to), from, 1), to, 1), from, to), from, to)

(***************************************************************************)
(* doDSEStoreMerge: the DSEMerger visits the predecessors.  The first map *)
(* is taken over; each further distinct map is merged into a writable     *)
(* copy of it and its reference dropped; a map seen before only loses the *)
(* reference its edge held.                                                 *)
(***************************************************************************)
Merged(s, nm, seen) == [s |-> s, v |-> [newMap |-> nm, seen |-> seen]]
MergeInto(r, from, seen) ==
    Merged(DropLS(MergeStores(r.s, from, r.id), from), r.id, seen \cup {from})

VisitPred(s, v, p) ==
    CASE v.newMap = NIL -> Merged(s, s.bb[p], {s.bb[p]})
      [] s.bb[p] \in v.seen -> Merged(DropLS(s, s.bb[p]), v.newMap, v.seen)
      [] OTHER -> MergeInto(GetWritableId(s, v.newMap), s.bb[p], v.seen)

RECURSIVE VisitPreds(_, _, _)
VisitRest(r, ps) == VisitPreds(r.s, r.v, ps)
VisitPreds(s, v, ps) ==
    IF ps = <<>> THEN [s |-> s, v |-> v]
    ELSE VisitRest(VisitPred(s, v, Head(ps)), Tail(ps))

MergeDone(r, b) == [r.s EXCEPT !.bb[b] = r.v.newMap]
DoDSEStoreMerge(s, b) ==
    MergeDone(VisitPreds(s, [newMap |-> NIL, seen |-> {}], Preds[b]), b)

(***************************************************************************)
(* The block walk of tryKillStoresInLoop, with at most one unbounded loop  *)
(* walked by tryKillStoresInUnboundedLoop: a first pass (pass = 1) that    *)
(* hands the latch's map to the header and none to the exits, then a      *)
(* second pass (pass = 2) from the latch's map with writes disabled.      *)
(* Ghosts: last[b][k] are the stores that may have written byte k last    *)
(* when b ends, over every execution of b; readFrom are the stores some   *)
(* instruction may read.  progOf keeps each block's instructions for the  *)
(* second pass.                                                            *)
(***************************************************************************)
VARIABLES ts, dead, ls, bb, ta, pc, phase, prog, ip, last, readFrom, pass, progOf
vars == <<ts, dead, ls, bb, ta, pc, phase, prog, ip, last, readFrom, pass, progOf>>

St == [ts |-> ts, dead |-> dead, ls |-> ls, bb |-> bb, ta |-> ta]
Apply(s) == ts' = s.ts /\ dead' = s.dead /\ ls' = s.ls /\ bb' = s.bb /\ ta' = s.ta

Idx(b) == CHOOSE i \in DOMAIN Order : Order[i] = b
Cur == Order[pc]
Left(b) == Idx(b) < pc
Entered(b) == Idx(b) < pc \/ (Idx(b) = pc /\ phase # "enter")
NoBytes == [k \in Bytes |-> {}]

\* Bytes an instruction may read, and the ghost writers it leaves.
ReadBytes(ins) ==
    CASE ins.op = "load"   -> {k \in Bytes : ins.off <= k /\ k < ins.off + ins.len}
      [] ins.op = "memcpy" -> {k \in Bytes : ins.off <= k}
      [] ins.op = "call"   -> {k \in Bytes : \E a \in SE!ToSet(ins.args) :
                                                a.k = "ptr" /\ a.off <= k}
      [] ins.op = "opaque" -> Bytes
      [] OTHER -> {}
WriteBytes(ins) ==
    IF ins.op = "store" THEN {k \in Bytes : ins.off <= k /\ k < ins.off + ins.len}
    ELSE {}

Init ==
    /\ ts = [t \in SIds |-> NoStore]
    /\ dead = {}
    /\ ls = [i \in LSIds |-> FreeLS]
    /\ bb = [b \in Blocks |-> NIL]
    /\ ta = NoAlloc
    /\ pc = 1
    /\ phase = "enter"
    /\ prog = << >>
    /\ ip = 1
    /\ last = [b \in Blocks |-> NoBytes]
    /\ readFrom = {}
    /\ pass = 1
    /\ progOf = [b \in Blocks |-> << >>]

\* A path-condition check at block start: unspecialised code may read
\* anything, as for an unknown call.
BlockStart(s, b) == IF b \in PathCond THEN ReadAll(s, b) ELSE s

\* The root main call: BBs[0]->dseStore = new DSELocalStore(0).
NewRoot(s) == [s EXCEPT !.ls[1] = [live |-> TRUE, rc |-> 1, m |-> << >>, a |-> FALSE],
                        !.bb[Entry] = 1]

\* A block's instructions: chosen on its first visit, the same ones again
\* in the second pass over the loop.
Again(b) == pass = 2 /\ b \in LoopBlocks
TakeProg(b) ==
    /\ prog' \in (IF Again(b) THEN {progOf[b]} ELSE Code[b])
    /\ progOf' = [progOf EXCEPT ![b] = prog']

StartFunction ==
    /\ pc <= Len(Order) /\ phase = "enter" /\ Cur = Entry
    /\ Apply(BlockStart(NewRoot(St), Entry))
    /\ TakeProg(Entry)
    /\ phase' = "exec" /\ ip' = 1
    /\ UNCHANGED <<pc, last, readFrom, pass>>

\* The path-condition check reads every last writer of the block.
PathReads(b) == IF b \in PathCond THEN UNION {last'[b][k] : k \in Bytes} ELSE {}

\* A later block: doDSEStoreMerge, then the path-condition check.
EnterBlock ==
    /\ pc <= Len(Order) /\ phase = "enter" /\ Cur # Entry /\ Cur # Header
    /\ Apply(BlockStart(DoDSEStoreMerge(St, Cur), Cur))
    /\ last' = [last EXCEPT ![Cur] =
                  [k \in Bytes |-> UNION {last[Preds[Cur][i]][k] : i \in DOMAIN Preds[Cur]}]]
    /\ readFrom' = readFrom \cup PathReads(Cur)
    /\ TakeProg(Cur)
    /\ phase' = "exec" /\ ip' = 1
    /\ UNCHANGED <<pc, pass>>

\* The loop header is not merged: tryKillStoresInUnboundedLoop gives it the
\* preheader's map for the first pass and the latch's for the second,
\* taking over the reference each of them left for it.  The header runs
\* on the preheader's writers in the first iteration and on the latch's
\* after it.
HeaderMap(s) == [s EXCEPT !.bb[Header] = s.bb[IF pass = 1 THEN Preheader ELSE Latch]]
EnterHeader ==
    /\ pc <= Len(Order) /\ phase = "enter" /\ Cur = Header
    /\ Apply(BlockStart(HeaderMap(St), Header))
    /\ last' = [last EXCEPT ![Header] =
                  [k \in Bytes |-> last[Preheader][k] \cup (IF pass = 2 THEN last[Latch][k] ELSE {})]]
    /\ readFrom' = readFrom \cup PathReads(Header)
    /\ TakeProg(Header)
    /\ phase' = "exec" /\ ip' = 1
    /\ UNCHANGED <<pc, pass>>

\* One DSEAnalyseInstruction.
Step ==
    /\ pc <= Len(Order) /\ phase = "exec" /\ ip <= Len(prog)
    /\ Apply(DSEAnalyseInstruction(St, Cur, ip, prog[ip], Again(Cur)))
    /\ readFrom' = readFrom \cup UNION {last[Cur][k] : k \in ReadBytes(prog[ip])}
    /\ last' = [last EXCEPT ![Cur] = [k \in Bytes |->
                  CASE k \in WriteBytes(prog[ip]) -> {<<Cur, ip>>}
                    [] prog[ip].op = "free" -> {}
                    [] OTHER -> @[k]]]
    /\ ip' = ip + 1
    /\ UNCHANGED <<pc, phase, prog, pass, progOf>>

\* One reference per live successor, then drop the block's own unless it
\* ends in a return.
EndBlockAll(s, b) == DropLS(s, s.bb[b])
EndBlockKeep(s, b) == s
EndBlock(s, b) ==
    IF b \in Returns THEN s ELSE DropLS(s, s.bb[b])
\* A block with no successors pops the function's stack frame, which holds
\* the map of an alloca.
PopStackFrame(s, b) == IF Succs(b) = {} /\ s.ta.kind = "stack" THEN FreeW(s, b) ELSE s
\* The successors given a reference: in the loop's first pass only those
\* inside the loop, in its second pass all but the latch's header.
RefSuccs(b) ==
    IF b \notin LoopBlocks THEN Succs(b)
    ELSE IF pass = 1 THEN Succs(b) \cap LoopBlocks
    ELSE Succs(b) \ (IF b = Latch THEN {Header} ELSE {})
LeaveRefs(s, b) == [s EXCEPT !.ls[s.bb[b]].rc = @ + Cardinality(RefSuccs(b))]

\* The last block of the loop in its first pass goes back to the header.
LoopEnd(b) == pass = 1 /\ b \in LoopBlocks /\ \A c \in LoopBlocks : Idx(c) <= Idx(b)

LeaveBlock ==
    /\ pc <= Len(Order) /\ phase = "exec" /\ ip > Len(prog)
    /\ Apply(EndBlock(PopStackFrame(LeaveRefs(St, Cur), Cur), Cur))
    /\ IF LoopEnd(Cur) THEN pc' = Idx(Header) /\ pass' = 2 ELSE pc' = pc + 1 /\ pass' = pass
    /\ phase' = "enter"
    /\ UNCHANGED <<prog, ip, last, readFrom, progOf>>

Next == StartFunction \/ EnterBlock \/ EnterHeader \/ Step \/ LeaveBlock

Spec == Init /\ [][Next]_vars

\* tryKillStoresInLoop is a plain loop over the blocks and their
\* instructions: once the walk can move on it does.  WalkStep is that
\* walk seen through its position alone (pc, phase, ip): every action's
\* guard tests only these, and every action moves them as WalkStep says,
\* so weak fairness of WalkStep on the position is weak fairness of the
\* loop, without TLC having to evaluate the stores to decide ENABLED.
WalkStep ==
    /\ pc <= Len(Order)
    /\ \/ phase = "enter" /\ phase' = "exec" /\ ip' = 1 /\ UNCHANGED <<pc, pass>>
       \/ phase = "exec" /\ ip <= Len(prog) /\ ip' = ip + 1 /\ UNCHANGED <<pc, phase, pass>>
       \/ /\ phase = "exec" /\ ip > Len(prog) /\ phase' = "enter" /\ ip' = ip
          /\ IF LoopEnd(Cur) THEN pc' = Idx(Header) /\ pass' = 2 ELSE pc' = pc + 1 /\ pass' = pass
FairSpec == Spec /\ WF_<<pc, phase, ip, pass>>(WalkStep)

-----------------------------------------------------------------------------
(***************************************************************************)
(* Properties                                                              *)
(***************************************************************************)

Interval == [lo : Bytes, hi : 1 .. Size, e : Seq(SIds)]

\* The state keeps its shape, and every live map is what IntervalMap
\* requires: non-empty intervals inside the allocation, sorted, disjoint,
\* each naming a store at most once.
TypeOK ==
    /\ ts \in [SIds -> [st : {"none", "live", "freed"}, out : Nat, needed : BOOLEAN]]
    /\ dead \subseteq SIds
    /\ bb \in [Blocks -> LSIds \cup {NIL}]
    /\ ta \in [st : {"none", "live", "freed"}, refs : Nat, needed : BOOLEAN,
               dead : BOOLEAN, kind : {"global", "stack", "heap"}]
    /\ \A i \in LSIds :
          /\ ls[i].live \in BOOLEAN /\ ls[i].rc \in Nat /\ ls[i].a \in BOOLEAN
          /\ ls[i].m \in Seq(Interval)
          /\ \A j \in DOMAIN ls[i].m :
                /\ ls[i].m[j].lo < ls[i].m[j].hi
                /\ j > 1 => ls[i].m[j - 1].hi <= ls[i].m[j].lo
                /\ SE!IsInjective(ls[i].m[j].e)

\* Bytes of live maps that name store t.
Held(t) ==
    FS!MapThenSumSet(LAMBDA p : Width(ls[p[1]].m[p[2]]),
                     {p \in LSIds \X (1 .. Size) :
                         ls[p[1]].live /\ p[2] \in DOMAIN ls[p[1]].m
                         /\ t \in SE!ToSet(ls[p[1]].m[p[2]].e)})

\* outstandingBytes of every TrackedStore equals the bytes of all live maps
\* that name it, and a store is deleted exactly when no map names it
\* (spec: "outstandingBytes(TS) = total bytes across all DSE maps that
\* still reference it").  setWriter, useWriters, GCStores,
\* getReadableCopy, mergeStores and release each move these counts.
OutstandingExact ==
    \A t \in SIds : /\ ts[t].out = Held(t)
                    /\ (ts[t].st = "live") = (Held(t) > 0)

\* nRefs of the TrackedAlloc is the number of live maps holding it, and it
\* is deleted exactly when none does: getReadableCopy, mergeStores,
\* release (on a read, a free, a frame pop, getEmptyMap or the drop of a
\* block's store) each move the count, in maps shared by several blocks.
AllocRefsExact ==
    /\ ta.refs = Cardinality({i \in LSIds : ls[i].live /\ ls[i].a})
    /\ (ta.st = "live") = (ta.refs > 0)

\* An allocation that TrackedAlloc::dropReference declares dead leaves no
\* store into it behind: every store instruction DSE tracked is dead too.
\* A store kept because it is needed, with its alloca or malloc deleted,
\* would write through a pointer the output program never computes.
DeadAllocStoresDead ==
    ta.dead => \A t \in SIds : ts[t].st # "none" => t \in dead

\* A store instruction that derefBytes declares dead is never read by a
\* load, memcpy, system call or unknown call on any path after it.
DeadStoresUnread == dead \cap readFrom = {}

\* When the walk is over, every DSELocalStore still allocated is held by
\* the returning blocks that point at it, once for each: the references
\* each block takes for its successors (LeaveRefs) have all been given
\* back by the merges of doDSEStoreMerge and the drops of EndBlock.
ReturnHolders(i) == {b \in Returns : Entered(b) /\ bb[b] = i}
MapsReleased ==
    <>[](\A i \in LSIds : ls[i].live => ls[i].rc = Cardinality(ReturnHolders(i)))

\* The walk implements the contract of DSEContract: hiding the maps,
\* reference counts and TrackedStores, every step that derefBytes makes
\* kill a store is one the contract allows, because the store has not
\* been read and no block that may still be continued from, or that
\* returns its map to the caller, has it as the last writer of a byte.
Contract == INSTANCE DSEContract
               WITH blk <- pc, stage <- phase, code <- prog, at <- ip,
                    writers <- last, reads <- readFrom, killed <- dead, round <- pass,
                    frame <- \E i \in DOMAIN progOf[Entry] : progOf[Entry][i].op = "alloca"
ImplementsContract == Contract!Spec

====
