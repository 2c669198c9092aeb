----------------------------- MODULE BlockStore -----------------------------
(***************************************************************************)
(* The symbolic heap of the specialiser (LoadForward.cpp): per-block      *)
(* copy-on-write LocalStoreMaps, the per-allocation base stores, the      *)
(* ImprovedValSet objects they point to (private Singles and shared,      *)
(* refcounted Multis with an Underlying delegation chain), the writes of  *)
(* executeWriteInst and the merge at control-flow joins                   *)
(* (MergeBlockVisitor, getCommonAncestor, mergeStores, commitStoreToBase). *)
(*                                                                         *)
(* Blocks of a constant acyclic CFG are entered in a constant topological  *)
(* order; each executes one instruction of its constant instruction set.  *)
(* A ghost variable `exact' carries, per block, the set of byte values     *)
(* each location can concretely hold there, so the symbolic store can be  *)
(* compared with what the program can really do.                          *)
(***************************************************************************)
EXTENDS Integers, Sequences, FiniteSets

LOCAL SE == INSTANCE SequencesExt

CONSTANTS
    Locs,        \* allocations (the ShadowValue keys of the store maps)
    AllocSize,   \* V.getAllocSize(), the same for every allocation
    ByteVals,    \* byte values a store instruction may write
    UNDEF,       \* the byte of an UndefValue: contents of a fresh allocation
    PBMAX,       \* values an ImprovedValSetSingle holds before going overdef
    Blocks,      \* basic blocks
    Entry,       \* the function's entry block
    Order,       \* a topological order of Blocks (the order blocks are entered)
    Preds,       \* Preds[b]: predecessors of b, in visitNormalPredecessorsBW order
    Certain,     \* blocks with status BBSTATUS_CERTAIN
    Code,        \* Code[b]: the instructions block b may execute (one is run)
    MaxObj,      \* size of the pool of ImprovedValSet objects
    MaxMaps,     \* size of the pool of LocalStoreMaps
    BackChoices  \* outcomes of LHSVals.back() on an empty vector (mergeStores)

ASSUME AllocSize \in Nat \ {0} /\ PBMAX \in Nat \ {0}
ASSUME UNDEF \notin ByteVals
ASSUME Entry \in Blocks /\ Certain \subseteq Blocks /\ Entry \in Certain
ASSUME BackChoices \subseteq BOOLEAN /\ BackChoices # {}

NIL == 0                               \* null ImprovedValSet* / LocalStoreMap*
Bytes == 0 .. AllocSize - 1
AllBytes == ByteVals \cup {UNDEF}
Succs(b) == {s \in Blocks : \E i \in DOMAIN Preds[s] : Preds[s][i] = b}
UnknownSize == -1                      \* ULONG_MAX as a store size
ObjIds == 1 .. MaxObj
MapIds == 1 .. MaxMaps

(***************************************************************************)
(* ImprovedValSetSingle, abstracted to scalar constants: a constant of n  *)
(* bytes is an n-tuple of bytes.  vs = {} is the uninitialised set.        *)
(***************************************************************************)
\* A sub-value of a narrower constant may hold zero bytes (ByteOf).
Consts == UNION {[1 .. n -> AllBytes \cup {0}] : n \in 1 .. AllocSize}
Val == [od : BOOLEAN, vs : SUBSET Consts]
Overdef == [od |-> TRUE, vs |-> {}]
Blank == [od |-> FALSE, vs |-> {}]
ConstVal(c) == [od |-> FALSE, vs |-> {c}]

\* ImprovedValSetSingle::merge and insert: overdef absorbs, sets union,
\* and more than PBMAX values become overdef.
ValMerge(a, b) ==
    IF a.od \/ b.od THEN Overdef
    ELSE IF Cardinality(a.vs \cup b.vs) > PBMAX THEN Overdef
    ELSE [od |-> FALSE, vs |-> a.vs \cup b.vs]

\* Byte i of constant c as ReadDataFromGlobal puts it in its zeroed
\* buffer: a byte past the end of a narrower constant is left 0.
ByteOf(c, i) == IF i <= Len(c) THEN c[i] ELSE 0

\* getIVSSubVal: the bytes [off, off+size) of each constant of the set;
\* extractAggregateMemberAt fails on a sub-range, so the bytes are read
\* into a zeroed PartialVal.
SubVal(v, off, size) ==
    IF v.od THEN v
    ELSE [od |-> FALSE,
          vs |-> {[i \in 1 .. size |-> ByteOf(c, off + i)] : c \in v.vs}]

(***************************************************************************)
(* Heap objects.  A Single is private to the LocStore holding it; a Multi *)
(* maps disjoint extents [lo, hi) to values, defers the rest of the       *)
(* allocation to Underlying and counts its references in rc               *)
(* (MapRefCount).                                                          *)
(***************************************************************************)
Extent == [lo : Bytes, hi : 1 .. AllocSize, v : Val]
Single(v) == [k |-> "S", v |-> v]
Multi(ext, u) == [k |-> "M", ext |-> ext, u |-> u, rc |-> 1]
FreeObj == [k |-> "F"]
ObjRec == [k : {"S"}, v : Val] \cup {FreeObj}
          \cup [k : {"M"}, ext : SUBSET Extent, u : {NIL} \cup ObjIds, rc : Nat \ {0}]

\* LocalStoreMap: entries st[l] (NIL when absent), allOthersClobbered, refCount.
MapRec == [live : {TRUE}, st : [Locs -> {NIL} \cup ObjIds], aoc : BOOLEAN, rc : Nat \ {0}]
EmptyMap == [live |-> TRUE, st |-> [l \in Locs |-> NIL], aoc |-> FALSE, rc |-> 1]
FreeMap == [live |-> FALSE, st |-> [l \in Locs |-> NIL], aoc |-> FALSE, rc |-> 0]

\* `new': the lowest free slot of the pool.
NewObj(h) == CHOOSE i \in ObjIds : h[i] = FreeObj
NewMap(m) == CHOOSE i \in MapIds : ~m[i].live

IsWritableMulti(h, o) == h[o].k = "M" /\ h[o].rc = 1

\* getReadableCopy: Singles are copied, Multis shared.
ReadableCopy(h, o) ==
    IF h[o].k = "S"
    THEN LET n == NewObj(h) IN [h |-> [h EXCEPT ![n] = h[o]], id |-> n]
    ELSE [h |-> [h EXCEPT ![o].rc = @ + 1], id |-> o]

\* ImprovedValSet::dropReference: a Single is deleted; a Multi whose count
\* reaches zero is deleted and drops its Underlying.
RECURSIVE DropRef(_, _)
DropRef(h, o) ==
    IF h[o].k = "S" THEN [h EXCEPT ![o] = FreeObj]
    ELSE IF h[o].rc > 1 THEN [h EXCEPT ![o].rc = @ - 1]
    ELSE IF h[o].u = NIL THEN [h EXCEPT ![o] = FreeObj]
    ELSE DropRef([h EXCEPT ![o] = FreeObj], h[o].u)

\* replaceRangeWithPB: a Single is only ever overwritten whole; a Multi has
\* [off, off+size) punched out of its extents (cut extents keep their
\* remaining sub-values) and v inserted there.
PunchRange(ext, off, end) ==
    {e \in ext : e.hi <= off \/ e.lo >= end}
    \cup {[lo |-> e.lo, hi |-> off, v |-> SubVal(e.v, 0, off - e.lo)] :
            e \in {x \in ext : x.lo < off /\ off < x.hi}}
    \cup {[lo |-> end, hi |-> e.hi, v |-> SubVal(e.v, end - e.lo, e.hi - end)] :
            e \in {x \in ext : x.lo < end /\ end < x.hi}}

\* IntervalMap::insert of the extent e (the map is half-open): a neighbour
\* that ends where e starts, or starts where e ends, and holds an equal
\* ImprovedValSetSingle is coalesced with e into one extent of e's value,
\* whatever the width of its constants.
IMInsert(ext, e) ==
    LET near == {x \in ext : x.v = e.v /\ (x.hi = e.lo \/ x.lo = e.hi)}
        lo == IF \E x \in near : x.hi = e.lo THEN (CHOOSE x \in near : x.hi = e.lo).lo ELSE e.lo
        hi == IF \E x \in near : x.lo = e.hi THEN (CHOOSE x \in near : x.lo = e.hi).hi ELSE e.hi
    IN (ext \ near) \cup {[lo |-> lo, hi |-> hi, v |-> e.v]}

\* Inserting the extents of the sequence L one after the other.
IMInsertAll(ext, L) == SE!FoldLeft(LAMBDA acc, e : IMInsert(acc, e), ext, L)

ReplaceRange(h, o, v, off, size) ==
    IF h[o].k = "S" THEN [h EXCEPT ![o].v = v]
    ELSE LET end == IF size = UnknownSize THEN AllocSize ELSE off + size
         IN [h EXCEPT ![o].ext = IMInsert(PunchRange(@, off, end), [lo |-> off, hi |-> end, v |-> v])]

\* replaceRangeWithPBs: the extents L, read at L[1].lo, are written from off
\* on; a Single is only ever overwritten whole, by a one-extent list.
ReplaceRangeWithPBs(h, o, L, off, size) ==
    IF h[o].k = "S" THEN [h EXCEPT ![o].v = L[1].v]
    ELSE [h EXCEPT ![o].ext =
            IMInsertAll(PunchRange(@, off, off + size),
                        [k \in DOMAIN L |-> [lo |-> L[k].lo + off - L[1].lo,
                                             hi |-> L[k].hi + off - L[1].lo, v |-> L[k].v]])]

(***************************************************************************)
(* readValRangeMultiFrom: the extents of [off, off+size) read down the     *)
(* chain from o, leaving gaps where the chain reaches `ign'.               *)
(***************************************************************************)
RECURSIVE ReadMultiFrom(_, _, _, _, _), ReadSorted(_, _, _, _, _, _),
          ReadExtents(_, _, _, _, _, _, _)
ReadMultiFrom(h, off, size, o, ign) ==
    IF ign # NIL /\ ign = o THEN << >>
    ELSE IF h[o].k = "S"
    THEN IF off = 0 /\ size = AllocSize
         THEN << [lo |-> 0, hi |-> size, v |-> h[o].v] >>
         ELSE << [lo |-> off, hi |-> off + size, v |-> SubVal(h[o].v, off, size)] >>
    ELSE ReadSorted(h, off, size, o, ign,
                    SE!SetToSortSeq({e \in h[o].ext : e.hi > off}, LAMBDA x, y : x.lo < y.lo))

\* Map.find(off) on the extents s ending after off, in order: an extent
\* straddling off contributes its sub-value first.
ReadSorted(h, off, size, o, ign, s) ==
    IF s # << >> /\ s[1].lo < off
    THEN LET sub == IF off + size < s[1].hi THEN size ELSE s[1].hi - off
         IN << [lo |-> off, hi |-> off + sub, v |-> SubVal(s[1].v, off - s[1].lo, sub)] >>
            \o ReadExtents(h, o, ign, off + sub, size - sub, s, 2)
    ELSE ReadExtents(h, o, ign, off, size, s, 1)

\* The loop over extents starting at or after off, and the gap on the right.
ReadExtents(h, o, ign, off, size, s, i) ==
    IF i <= Len(s) /\ s[i].lo < off + size
    THEN LET gap == IF s[i].lo # off
                    THEN ReadMultiFrom(h, off, s[i].lo - off, h[o].u, ign)
                    ELSE << >>
             rest == size - (s[i].lo - off)
         IN IF s[i].hi > s[i].lo + rest
            THEN gap \o << [lo |-> s[i].lo, hi |-> s[i].lo + rest,
                            v |-> SubVal(s[i].v, 0, rest)] >>
            ELSE gap \o << s[i] >>
                     \o ReadExtents(h, o, ign, s[i].hi, rest - (s[i].hi - s[i].lo), s, i + 1)
    ELSE IF size # 0 THEN ReadMultiFrom(h, off, size, h[o].u, ign)
    ELSE << >>

(***************************************************************************)
(* The store state threaded through the operations below:                 *)
(*   h: ImprovedValSet objects, m: LocalStoreMaps,                         *)
(*   base: each allocation's base LocStore, bb: each block's localStore.   *)
(* A slot names a LocStore: a base store or an entry of a map.             *)
(***************************************************************************)
BaseSlot(l) == [isBase |-> TRUE, map |-> NIL, loc |-> l]
MapSlot(mid, l) == [isBase |-> FALSE, map |-> mid, loc |-> l]
SlotObj(s, sl) == IF sl.isBase THEN s.base[sl.loc] ELSE s.m[sl.map].st[sl.loc]
SetSlot(s, sl, o) ==
    IF sl.isBase THEN [s EXCEPT !.base[sl.loc] = o]
    ELSE [s EXCEPT !.m[sl.map].st[sl.loc] = o]

\* The entry loop of LocalStoreMap::getWritableStoreMap: Singles are copied,
\* Multis shared with MapRefCount++.
RECURSIVE CopyEntries(_, _, _, _)
CopyEntries(h, st, acc, L) ==
    IF L = {} THEN [h |-> h, st |-> acc]
    ELSE LET l == CHOOSE x \in L : TRUE
         IN IF st[l] = NIL THEN CopyEntries(h, st, acc, L \ {l})
            ELSE LET c == ReadableCopy(h, st[l])
                 IN CopyEntries(c.h, st, [acc EXCEPT ![l] = c.id], L \ {l})

\* The COW copy: a new map with the copied entries and the same
\* allOthersClobbered, and one reference dropped from the shared map.
LSMCopyKeepCount(s, mid, n, c) ==
    [s |-> [s EXCEPT !.h = c.h,
                     !.m[n] = [EmptyMap EXCEPT !.st = c.st, !.aoc = s.m[mid].aoc]],
     id |-> n]
LSMCopy(s, mid, n, c) ==
    [s |-> [s EXCEPT !.h = c.h,
                     !.m[n] = [EmptyMap EXCEPT !.st = c.st, !.aoc = s.m[mid].aoc],
                     !.m[mid].rc = @ - 1],
     id |-> n]

\* LocalStoreMap::getWritableStoreMap: in place when unshared, otherwise a
\* COW copy.
LSMGetWritable(s, mid) ==
    IF s.m[mid].rc = 1 THEN [s |-> s, id |-> mid]
    ELSE LSMCopy(s, mid, NewMap(s.m), CopyEntries(s.h, s.m[mid].st, [l \in Locs |-> NIL], Locs))

\* The block adopts the map r.id as its localStore.
Adopt(r, b) == [r.s EXCEPT !.bb[b] = r.id]

\* ShadowBB::getWritableStoreMap: the block adopts the writable map.
BBGetWritable(s, b) == Adopt(LSMGetWritable(s, s.bb[b]), b)

\* A fresh Single(Blank) in h1 becomes the LocStore sl's object.
PutSingle(s, sl, h1) ==
    LET n == NewObj(h1) IN SetSlot([s EXCEPT !.h = [h1 EXCEPT ![n] = Single(Blank)]], sl, n)

\* The tail of getWritableStoreFor for an existing LocStore: a whole write
\* turns a Multi into a fresh Single; a partial write makes the Multi private,
\* pushing a shared Multi or a Single down as the new one's Underlying.
AdjustStore(s, sl, whole, wso) ==
    LET o == SlotObj(s, sl)
    IN IF whole /\ wso
       THEN IF s.h[o].k = "M" THEN PutSingle(s, sl, DropRef(s.h, o)) ELSE s
       ELSE IF ~IsWritableMulti(s.h, o)
            THEN LET n == NewObj(s.h)
                 IN SetSlot([s EXCEPT !.h[n] = Multi({}, o)], sl, n)
            ELSE s

\* The new Multi n, its Underlying the copy c of the base store, as sl's object.
NewMultiEntry(w, sl, n, c) == SetSlot([w EXCEPT !.h = [c.h EXCEPT ![n].u = c.id]], sl, n)

\* A new local entry for V with no previous one: a blank Single for a whole
\* write, else a Multi deferring to a readable copy of the base store.
NewEntry(w, sl, V, whole) ==
    IF whole THEN PutSingle(w, sl, w.h)
    ELSE LET n == NewObj(w.h)
         IN NewMultiEntry(w, sl, n, ReadableCopy([w.h EXCEPT ![n] = Multi({}, NIL)], w.base[V]))

\* The entry sl of the block's (now writable) map: a new one, or the
\* existing one adjusted.
MapEntry(w, sl, V, whole, wso) ==
    [s |-> IF w.m[sl.map].st[V] # NIL THEN AdjustStore(w, sl, whole, wso)
           ELSE NewEntry(w, sl, V, whole),
     slot |-> sl]

MapEntryOf(w, b, V, whole, wso) == MapEntry(w, MapSlot(w.bb[b], V), V, whole, wso)

\* ShadowBB::getWritableStoreFor: the LocStore of V that a write of
\* [off, off+size) may update, and the state after making it writable.
GetWritableStoreFor(s, b, V, off, size, wso) ==
    LET whole == off = 0 /\ (size = UnknownSize \/ size = AllocSize)
    IN IF b \in Certain /\ ~s.m[s.bb[b]].aoc
       THEN [s |-> AdjustStore(s, BaseSlot(V), whole, wso), slot |-> BaseSlot(V)]
       ELSE MapEntryOf(BBGetWritable(s, b), b, V, whole, wso)

\* Dropping the references held by a set of LocStores (distinct objects).
RECURSIVE DropSet(_, _)
DropSet(h, S) ==
    IF S = {} THEN h
    ELSE LET o == CHOOSE x \in S : TRUE IN DropSet(DropRef(h, o), S \ {o})

Entries(s, mid) == {l \in Locs : s.m[mid].st[l] # NIL}

\* LocalStoreMap::clear: drop every entry's reference and empty the map.
ClearMap(s, mid) ==
    [s EXCEPT !.h = DropSet(s.h, {s.m[mid].st[l] : l \in Entries(s, mid)}),
              !.m[mid].st = [l \in Locs |-> NIL]]

LSMDropRefNoFree(s, mid) == [s EXCEPT !.m[mid].rc = @ - 1]

\* LocalStoreMap::dropReference: the last reference clears and frees it.
LSMDropRef(s, mid) ==
    IF s.m[mid].rc = 1 THEN [ClearMap(s, mid) EXCEPT !.m[mid] = FreeMap]
    ELSE [s EXCEPT !.m[mid].rc = @ - 1]

\* `new LocalStoreMap()' in the state s1.
NewEmptyMap(s1) == LET n == NewMap(s1.m) IN [s |-> [s1 EXCEPT !.m[n] = EmptyMap], id |-> n]

\* LocalStoreMap::getEmptyMap: an empty map is returned as it is, an
\* unshared one cleared, a shared one released for a new blank map.
GetEmptyMap(s, mid) ==
    IF Entries(s, mid) = {} THEN [s |-> s, id |-> mid]
    ELSE IF s.m[mid].rc = 1 THEN [s |-> ClearMap(s, mid), id |-> mid]
    ELSE NewEmptyMap(LSMDropRef(s, mid))

\* replaceRangeWithPB on the LocStore getWritableStoreFor returned.
WriteInto(w, v, off, size) ==
    [w.s EXCEPT !.h = ReplaceRange(w.s.h, SlotObj(w.s, w.slot), v, off, size)]

\* The block adopts the empty map and marks it allOthersClobbered.
Clobbered(r, b) == [r.s EXCEPT !.bb[b] = r.id, !.m[r.id].aoc = TRUE]

\* readValRangeMulti: the extents of [off, off+size) of V as block b sees
\* them; an allocation missing from an allOthersClobbered map is one
\* overdef extent.
ReadValRangeMulti(s, b, V, off, size) ==
    LET mp == s.m[s.bb[b]]
    IN IF mp.st[V] = NIL /\ mp.aoc THEN << [lo |-> off, hi |-> off + size, v |-> Overdef] >>
       ELSE ReadMultiFrom(s.h, off, size, IF mp.st[V] # NIL THEN mp.st[V] ELSE s.base[V], NIL)

\* executeCopyInst with a known size and one pointer on each side: the
\* source extents are read first, then the destination made writable (a
\* whole Single only when one extent is copied) and the extents written.
ExecuteCopyInst(s, b, ins) ==
    LET L == ReadValRangeMulti(s, b, ins.loc, ins.src, ins.n)
        w == GetWritableStoreFor(s, b, ins.loc, ins.off, ins.n, Len(L) = 1)
    IN [w.s EXCEPT !.h = ReplaceRangeWithPBs(w.s.h, SlotObj(w.s, w.slot), L, ins.off, ins.n)]

(***************************************************************************)
(* executeWriteInst for the pointer sets a store can have: overdef (an    *)
(* unknown call or a store through an unknown pointer), one precise       *)
(* pointer, one vague pointer (offset LLONG_MAX).                          *)
(***************************************************************************)
\* executeUnexpandedCall for a call the special-functions map does not
\* know: a call annotated read-only writes nothing; an annotated library
\* call writes overdef into each location it names (here one, through a
\* precise pointer, of known or unknown size); any other call writes
\* through an overdef pointer, clobbering every location.
ExecuteUnexpandedCall(s, b, ins) ==
    CASE ins.fn = "readonly" -> s
      [] ins.fn = "lib" ->
            WriteInto(GetWritableStoreFor(s, b, ins.loc, ins.off, ins.n, TRUE),
                      Overdef, ins.off, ins.n)
      [] OTHER -> Clobbered(GetEmptyMap(s, s.bb[b]), b)

ExecuteWriteInst(s, b, ins) ==
    CASE ins.op = "call" -> ExecuteUnexpandedCall(s, b, ins)
      [] ins.op = "store" ->
            WriteInto(GetWritableStoreFor(s, b, ins.loc, ins.off, Len(ins.c), TRUE),
                      ConstVal(ins.c), ins.off, Len(ins.c))
      [] ins.op = "vague" ->
            WriteInto(GetWritableStoreFor(s, b, ins.loc, 0, UnknownSize, TRUE),
                      Overdef, 0, UnknownSize)
      [] ins.op = "copy" /\ ins.n = UnknownSize ->
            WriteInto(GetWritableStoreFor(s, b, ins.loc, ins.off, UnknownSize, TRUE),
                      Overdef, ins.off, UnknownSize)
      [] ins.op = "copy" -> ExecuteCopyInst(s, b, ins)
      [] OTHER -> s

(***************************************************************************)
(* getCommonAncestor: walks the two delegation chains alternately,        *)
(* recording visited Multis; the result slots swap with every flip.        *)
(***************************************************************************)
NoAnc == [l |-> NIL, r |-> NIL]
Flip(g) == [l |-> g.r, r |-> g.l]
RECURSIVE GetCommonAncestor(_, _, _, _)
GetCommonAncestor(h, L, R, seen) ==
    IF h[L].k = "S"
    THEN IF h[R].k = "S"
         THEN IF h[L].v = h[R].v THEN [l |-> L, r |-> R] ELSE NoAnc
         ELSE Flip(GetCommonAncestor(h, R, L, seen))
    ELSE IF L = R \/ L \in seen THEN [l |-> L, r |-> R]
    ELSE IF h[L].u = NIL /\ (h[R].k = "S" \/ h[R].u = NIL) THEN NoAnc
    ELSE IF h[L].u = NIL THEN Flip(GetCommonAncestor(h, R, L, seen))
    ELSE Flip(GetCommonAncestor(h, R, h[L].u, seen \cup {L}))

(***************************************************************************)
(* The sweep of mergeStores over the two extent lists: (d) leave a gap,   *)
(* (b) merge one side with the LHS ancestor, (c) merge both sides.         *)
(***************************************************************************)
\* Case (b): the extent c, defined on [last, stop) where the other side is
\* not, merged with what the LHS ancestor holds there.
MergeWithBase(h, c, last, stop, la) ==
    LET base == ReadMultiFrom(h, last, stop - last, la, NIL)
    IN [k \in DOMAIN base |->
          [lo |-> base[k].lo, hi |-> base[k].hi,
           v |-> ValMerge(SubVal(c.v, base[k].lo - c.lo, base[k].hi - base[k].lo),
                          base[k].v)]]

RECURSIVE MergeSweep(_, _, _, _, _, _, _, _, _)
MergeSweep(h, lv, rv, i, j, last, gaps, acc, la) ==
    IF i > Len(lv) /\ j > Len(rv) THEN [vals |-> acc, gaps |-> gaps]
    ELSE
    LET useL == IF i > Len(lv) THEN FALSE
                ELSE IF j > Len(rv) THEN TRUE
                ELSE LET cl == IF lv[i].lo > last THEN lv[i].lo ELSE last
                         cr == IF rv[j].lo > last THEN rv[j].lo ELSE last
                     IN IF cl = cr THEN lv[i].hi <= rv[j].hi ELSE cl < cr
        c == IF useL THEN lv[i] ELSE rv[j]
        oEnd == IF useL THEN j > Len(rv) ELSE i > Len(lv)
        o == IF useL THEN rv[j] ELSE lv[i]
        \* advance the consumed iterator by dc and the other one by do
        NI(dc, do) == IF useL THEN i + dc ELSE i + do
        NJ(dc, do) == IF useL THEN j + do ELSE j + dc
    IN IF last < c.lo
       THEN MergeSweep(h, lv, rv, i, j, c.lo, TRUE, acc, la)
       ELSE IF oEnd \/ o.lo > last
       THEN LET bump == oEnd \/ o.lo >= c.hi
                stop == IF bump THEN c.hi ELSE o.lo
                d == IF bump THEN 1 ELSE 0
            IN MergeSweep(h, lv, rv, NI(d, 0), NJ(d, 0), stop, gaps,
                          acc \o MergeWithBase(h, c, last, stop, la), la)
       ELSE LET cv == SubVal(c.v, last - c.lo, c.hi - last)
                ov == SubVal(o.v, last - o.lo, c.hi - last)
                d == IF c.hi = o.hi THEN 1 ELSE 0
            IN MergeSweep(h, lv, rv, NI(1, d), NJ(1, d), c.hi, gaps,
                          Append(acc, [lo |-> last, hi |-> c.hi, v |-> ValMerge(cv, ov)]), la)

\* Whether the merged Multi needs the ancestor as Underlying: a gap inside
\* the sweep, or neither side reaching the end of the allocation.  back()
\* of an empty list is undefined; `back' is the outcome of the comparison.
NeedsUnderlyingNoGaps(gaps, lv, rv, back) ==
    LET lEnd == IF lv = << >> THEN back ELSE lv[Len(lv)].hi = AllocSize
        rEnd == IF rv = << >> THEN back ELSE rv[Len(rv)].hi = AllocSize
    IN ~lEnd /\ ~rEnd
NeedsUnderlying(gaps, lv, rv, back) ==
    LET lEnd == IF lv = << >> THEN back ELSE lv[Len(lv)].hi = AllocSize
        rEnd == IF rv = << >> THEN back ELSE rv[Len(rv)].hi = AllocSize
    IN gaps \/ (~lEnd /\ ~rEnd)

\* A new Multi of the merged extents takes the target's place.
InstallNew(s, sl, vals, uid, h1) ==
    LET n == NewObj(h1) IN SetSlot([s EXCEPT !.h = [h1 EXCEPT ![n] = Multi(vals, uid)]], sl, n)

\* The end of mergeStores: the merged extents `vals', in order, are
\* inserted at the end of the map (coalescing with the one before when
\* equal), with Underlying u.id, into the target's Multi when it is
\* writable (its extents cleared and its old Underlying dropped), else into
\* a new Multi replacing it.
InstallMerged(s, sl, toO, vals, u) ==
    LET ext == IMInsertAll({}, vals)
    IN IF IsWritableMulti(u.h, toO)
       THEN LET h1 == IF u.h[toO].u # NIL THEN DropRef(u.h, u.h[toO].u) ELSE u.h
            IN SetSlot([s EXCEPT !.h = [h1 EXCEPT ![toO].u = u.id, ![toO].ext = ext]], sl, toO)
       ELSE InstallNew(s, sl, ext, u.id, DropRef(u.h, toO))

\* After the sweep r: take a readable copy of the LHS ancestor la as
\* Underlying if the merged extents leave anything undefined.
MergeResult(s, sl, toO, la, lv, rv, r, back) ==
    InstallMerged(s, sl, toO, r.vals,
                  IF NeedsUnderlying(r.gaps, lv, rv, back) THEN ReadableCopy(s.h, la)
                  ELSE [h |-> s.h, id |-> NIL])

\* The extent lists of both sides, down to (not into) the ancestors g.
MergeLists(s, sl, toO, la, lv, rv, back) ==
    MergeResult(s, sl, toO, la, lv, rv, MergeSweep(s.h, lv, rv, 1, 1, 0, FALSE, << >>, la), back)
MergeAncestor(s, fromO, sl, toO, g, back) ==
    MergeLists(s, sl, toO, g.l, ReadMultiFrom(s.h, 0, AllocSize, toO, g.l),
               ReadMultiFrom(s.h, 0, AllocSize, fromO, g.r), back)

\* MergeBlockVisitor::mergeStores: merge the store fromO into the LocStore
\* sl of the merge map.  `back' is what LHSVals.back() / RHSVals.back()
\* report about reaching the end when the list is empty.
MergeStores(s, fromO, sl, V, toBase, back) ==
    LET toO == SlotObj(s, sl)
    IN IF s.h[toO].k = "S" /\ s.h[toO].v.od THEN s
       ELSE IF s.h[toO].k = "S" /\ s.h[fromO].k = "S"
       THEN [s EXCEPT !.h[toO].v = ValMerge(@, s.h[fromO].v)]
       ELSE MergeAncestor(s, fromO, sl, toO,
                          IF toBase THEN NoAnc ELSE GetCommonAncestor(s.h, toO, fromO, {}), back)

\* The loop of visit over the merge map's keys: merge in mergeFrom's entry,
\* or the base store where mergeFrom has none, when the objects differ.
RECURSIVE MergeKeys(_, _, _, _, _, _)
MergeKeys(s, mm, from, K, toBase, back) ==
    IF K = {} THEN s
    ELSE LET l == CHOOSE x \in K : TRUE
             fo == IF s.m[from].st[l] # NIL THEN s.m[from].st[l] ELSE s.base[l]
         IN MergeKeys(IF fo # s.m[mm].st[l] THEN MergeStores(s, fo, MapSlot(mm, l), l, toBase, back)
                      ELSE s,
                      mm, from, K \ {l}, toBase, back)

\* The tail of visit: merge every key, release mergeFrom.
VisitMerge(s2, mm, from, vs, toBase, back) ==
    [s |-> LSMDropRef(MergeKeys(s2, mm, from, Entries(s2, mm), toBase, back), from),
     vs |-> [newMap |-> mm, valid |-> TRUE, seen |-> vs.seen \cup {from}]]

\* visit with the writable merge map mm in s1: reconcile the key sets by
\* allOthersClobbered.
VisitInto(s1, mm, from, vs, toBase, back) ==
    LET onlyTo == {l \in Entries(s1, mm) : s1.m[from].st[l] = NIL}
        onlyFrom == {l \in Entries(s1, from) : s1.m[mm].st[l] = NIL}
    IN VisitMerge(
         IF s1.m[from].aoc
         THEN [s1 EXCEPT !.h = DropSet(s1.h, {s1.m[mm].st[l] : l \in onlyTo}),
                         !.m[mm].st = [l \in Locs |-> IF l \in onlyTo THEN NIL ELSE @[l]],
                         !.m[mm].aoc = TRUE]
         ELSE IF ~s1.m[mm].aoc
         THEN [s1 EXCEPT !.m[mm].st = [l \in Locs |-> IF l \in onlyFrom THEN s1.m[from].st[l] ELSE @[l]],
                         !.m[from].st = [l \in Locs |-> IF l \in onlyFrom THEN NIL ELSE @[l]]]
         ELSE s1,
         mm, from, vs, toBase, back)
VisitWritable(w, from, vs, toBase, back) == VisitInto(w.s, w.id, from, vs, toBase, back)

\* MergeBlockVisitor::visit for one predecessor's map: a map already seen
\* only loses the reference, the first is borrowed, the others are merged
\* into a writable copy of the merge map.
Visit(s, vs, pred, toBase, back) ==
    LET from == s.bb[pred]
    IN IF from \in vs.seen
       THEN [s |-> LSMDropRef(s, from), vs |-> vs]
       ELSE IF ~vs.valid
       THEN [s |-> s, vs |-> [newMap |-> from, valid |-> TRUE, seen |-> vs.seen \cup {from}]]
       ELSE VisitWritable(LSMGetWritable(s, vs.newMap), from, vs, toBase, back)

RECURSIVE VisitPreds(_, _, _, _, _), VisitRest(_, _, _, _)
VisitPreds(s, vs, ps, toBase, back) ==
    IF ps = << >> THEN [s |-> s, vs |-> vs]
    ELSE VisitRest(Visit(s, vs, Head(ps), toBase, back), Tail(ps), toBase, back)
VisitRest(r, ps, toBase, back) == VisitPreds(r.s, r.vs, ps, toBase, back)

\* commitStoreToBase: every entry replaces its allocation's base store.
CommitOne(s, l, c) == [s EXCEPT !.h = c.h, !.base[l] = c.id]
RECURSIVE CommitEntries(_, _, _)
CommitEntries(s, mid, K) ==
    IF K = {} THEN s
    ELSE LET l == CHOOSE x \in K : TRUE
         IN CommitEntries(CommitOne(s, l, ReadableCopy(DropRef(s.h, s.base[l]), s.m[mid].st[l])),
                          mid, K \ {l})

\* The end of doBlockStoreMerge once every predecessor is visited: a
\* CERTAIN block commits the merged map to the base stores and starts
\* from an empty map, unless it is clobbered.
MergeDone(v, b) ==
    LET nm == v.vs.newMap
    IN IF b \in Certain /\ ~v.s.m[nm].aoc
       THEN Adopt(GetEmptyMap(CommitEntries(v.s, nm, Entries(v.s, nm)), nm), b)
       ELSE [v.s EXCEPT !.bb[b] = nm]

\* doBlockStoreMerge: merge the predecessors' maps, to base if CERTAIN.
DoBlockStoreMerge(s, b, back) ==
    MergeDone(VisitPreds(s, [newMap |-> NIL, valid |-> FALSE, seen |-> {}], Preds[b],
                         b \in Certain, back), b)

-----------------------------------------------------------------------------
(***************************************************************************)
(* The specification.  heap, maps, base and bb are the store state above; *)
(* pc/phase is the position of the walk over Order; exact and snap are     *)
(* ghost state used only by the properties.                                *)
(***************************************************************************)
VARIABLES heap, maps, base, bb, pc, phase, exact, snap
vars == <<heap, maps, base, bb, pc, phase, exact, snap>>

St == [h |-> heap, m |-> maps, base |-> base, bb |-> bb]
Apply(s) == heap' = s.h /\ maps' = s.m /\ base' = s.base /\ bb' = s.bb

LocIdx == CHOOSE f \in [Locs -> 1 .. Cardinality(Locs)] :
              \A x, y \in Locs : f[x] = f[y] => x = y
UndefConst == [k \in 1 .. AllocSize |-> UNDEF]
Idx(b) == CHOOSE i \in DOMAIN Order : Order[i] = b
Cur == Order[pc]
Left(b) == Idx(b) < pc
Entered(b) == Idx(b) < pc \/ (Idx(b) = pc /\ phase # "enter")
InBlock == pc <= Len(Order) /\ phase # "enter"
NoBytes == [l \in Locs |-> [k \in Bytes |-> {}]]

Init ==
    /\ heap = [i \in ObjIds |-> IF i <= Cardinality(Locs)
                                THEN Single(ConstVal(UndefConst)) ELSE FreeObj]
    /\ base = LocIdx
    /\ maps = [i \in MapIds |-> FreeMap]
    /\ bb = [b \in Blocks |-> NIL]
    /\ pc = 1
    /\ phase = "enter"
    /\ exact = [b \in Blocks |-> NoBytes]
    /\ snap = [b \in Blocks |-> NoBytes]

\* The entry block starts with a fresh, empty local map.
StartFunction ==
    /\ pc <= Len(Order) /\ phase = "enter" /\ Cur = Entry
    /\ LET n == NewMap(maps)
       IN /\ maps' = [maps EXCEPT ![n] = EmptyMap]
          /\ bb' = [bb EXCEPT ![Entry] = n]
    /\ exact' = [exact EXCEPT ![Entry] = [l \in Locs |-> [k \in Bytes |-> {UNDEF}]]]
    /\ phase' = "exec"
    /\ UNCHANGED <<heap, base, pc, snap>>

\* Entering a block with predecessors: doBlockStoreMerge.
EnterBlock ==
    /\ pc <= Len(Order) /\ phase = "enter" /\ Cur # Entry
    /\ \E back \in BackChoices : Apply(DoBlockStoreMerge(St, Cur, back))
    /\ LET ps == {Preds[Cur][i] : i \in DOMAIN Preds[Cur]}
       IN exact' = [exact EXCEPT ![Cur] =
                     [l \in Locs |-> [k \in Bytes |-> UNION {exact[p][l][k] : p \in ps}]]]
    /\ phase' = "exec"
    /\ UNCHANGED <<pc, snap>>

\* What the instruction can do to the concrete bytes.
ExactAfter(e, ins) ==
    CASE ins.op = "call" /\ ins.fn = "unknown" -> [l \in Locs |-> [k \in Bytes |-> AllBytes]]
      [] ins.op = "call" /\ ins.fn = "lib" ->
            [e EXCEPT ![ins.loc] = [k \in Bytes |->
                IF k >= ins.off /\ (ins.n = UnknownSize \/ k < ins.off + ins.n) THEN AllBytes
                ELSE @[k]]]
      [] ins.op = "store" ->
            [e EXCEPT ![ins.loc] = [k \in Bytes |->
                IF ins.off <= k /\ k < ins.off + Len(ins.c) THEN {ins.c[k - ins.off + 1]}
                ELSE @[k]]]
      [] ins.op = "vague" ->
            [e EXCEPT ![ins.loc] = [k \in Bytes |-> @[k] \cup {ins.c[i] : i \in DOMAIN ins.c}]]
      [] ins.op = "copy" /\ ins.n = UnknownSize ->
            [e EXCEPT ![ins.loc] = [k \in Bytes |->
                IF k >= ins.off /\ k - ins.off + ins.src < AllocSize
                THEN @[k] \cup e[ins.loc][k - ins.off + ins.src] ELSE @[k]]]
      [] ins.op = "copy" ->
            [e EXCEPT ![ins.loc] = [k \in Bytes |->
                IF ins.off <= k /\ k < ins.off + ins.n THEN e[ins.loc][k - ins.off + ins.src]
                ELSE @[k]]]
      [] OTHER -> e

\* One instruction of the block: executeWriteInst.
Execute ==
    /\ pc <= Len(Order) /\ phase = "exec"
    /\ \E ins \in Code[Cur] :
          /\ Apply(ExecuteWriteInst(St, Cur, ins))
          /\ exact' = [exact EXCEPT ![Cur] = ExactAfter(@, ins)]
    /\ phase' = "leave"
    /\ UNCHANGED <<pc, snap>>

\* What a block's map, with the base stores, says each byte can hold.
RECURSIVE ByteAt(_, _, _)
ByteAt(h, o, k) ==
    IF h[o].k = "S"
    THEN IF h[o].v.od THEN AllBytes ELSE {ByteOf(c, k + 1) : c \in h[o].v.vs}
    ELSE IF \E e \in h[o].ext : e.lo <= k /\ k < e.hi
    THEN LET e == CHOOSE x \in h[o].ext : x.lo <= k /\ k < x.hi
         IN IF e.v.od THEN AllBytes ELSE {ByteOf(c, k - e.lo + 1) : c \in e.v.vs}
    ELSE IF h[o].u = NIL THEN {}
    ELSE ByteAt(h, h[o].u, k)

View(b) ==
    LET mp == maps[bb[b]]
    IN [l \in Locs |-> [k \in Bytes |->
          IF mp.st[l] # NIL THEN ByteAt(heap, mp.st[l], k)
          ELSE IF mp.aoc THEN AllBytes
          ELSE ByteAt(heap, base[l], k)]]

(***************************************************************************)
(* Load forwarding: readValRange, readValRangeFrom and the PartialVal    *)
(* byte array they assemble a value in.  A PartialVal of n bytes is buf  *)
(* with the set of valid positions.  extractAggregateMemberAt (not in     *)
(* this tree) is taken to extract only a whole constant, so a sub-range   *)
(* is always built from bytes.                                             *)
(***************************************************************************)
NewPV(n) == [n |-> n, buf |-> [i \in 1 .. n |-> 0], valid |-> {}]

\* ReadDataFromGlobal: the bytes [off, off+n) of a constant; an UndefValue
\* reads as zero bytes.
ReadData(c, off, n) == [i \in 1 .. n |-> IF ByteOf(c, off + i) = UNDEF THEN 0 ELSE ByteOf(c, off + i)]

\* PartialVal::combineWith on a byte array: bytes [first, notDef) are copied
\* unless already defined, then marked valid.
CombineWith(pv, bytes, first, notDef) ==
    [pv EXCEPT !.buf = [i \in 1 .. pv.n |->
                         IF first < i /\ i <= notDef /\ i \notin pv.valid
                         THEN bytes[i - first] ELSE pv.buf[i]],
               !.valid = @ \cup (first + 1 .. notDef)]
IsComplete(pv) == pv.valid = 1 .. pv.n

\* addIVSToPartialVal: only a set of exactly one constant is added.
AddIVSToPartialVal(v, ivsOff, pvOff, size, pv) ==
    IF v.od \/ Cardinality(v.vs) # 1 THEN [ok |-> FALSE, pv |-> pv]
    ELSE [ok |-> TRUE,
          pv |-> CombineWith(pv, ReadData(CHOOSE c \in v.vs : TRUE, ivsOff, size),
                             pvOff, pvOff + size)]

\* The loop of readValRangeFrom over the extents of a Multi from
\* Map.find(off) while they start before off+size.
RECURSIVE AddExtents(_, _, _, _, _)
AddExtents(s, i, off, size, pv) ==
    IF i > Len(s) THEN [ok |-> TRUE, pv |-> pv]
    ELSE LET first == IF off > s[i].lo THEN off ELSE s[i].lo
             last == IF off + size < s[i].hi THEN off + size ELSE s[i].hi
             a == AddIVSToPartialVal(s[i].v, first - s[i].lo, first - off, last - first, pv)
         IN IF a.ok THEN AddExtents(s, i + 1, off, size, a.pv) ELSE a

\* readValRangeFrom: r is the result when no PartialVal was started (has
\* false); otherwise pv holds the bytes.  A Single, or an extent covering
\* the whole range, answers; a Multi adds its extents and defers to its
\* Underlying while the PartialVal is incomplete.
RECURSIVE ReadValRangeFrom(_, _, _, _, _, _)
ReadValRangeFrom(h, o, off, size, has, pv) ==
    LET cover == IF h[o].k = "S" THEN {[lo |-> 0, hi |-> AllocSize, v |-> h[o].v]}
                 ELSE {e \in h[o].ext : e.lo <= off /\ e.hi >= off + size}
        Fail == [r |-> Overdef, has |-> FALSE, pv |-> pv]
    IN IF cover # {}
       THEN LET e == CHOOSE x \in cover : TRUE
                a == AddIVSToPartialVal(e.v, off - e.lo, 0, size, IF has THEN pv ELSE NewPV(size))
            IN IF ~has /\ e.hi - e.lo = size /\ off = e.lo THEN [r |-> e.v, has |-> FALSE, pv |-> pv]
               ELSE IF a.ok THEN [r |-> Blank, has |-> TRUE, pv |-> a.pv] ELSE Fail
       ELSE LET s == SE!SetToSortSeq({x \in h[o].ext : x.hi > off /\ x.lo < off + size},
                                     LAMBDA x, y : x.lo < y.lo)
                a == AddExtents(s, 1, off, size, IF has THEN pv ELSE NewPV(size))
                has2 == has \/ s # << >>
            IN IF ~a.ok THEN Fail
               ELSE IF ~has2 \/ ~IsComplete(a.pv)
               THEN ReadValRangeFrom(h, h[o].u, off, size, has2, a.pv)
               ELSE [r |-> Blank, has |-> TRUE, pv |-> a.pv]

\* PVToPB of a byte array: PVToSV builds the constant of its bytes.
PVToPB(pv) == ConstVal(pv.buf)

\* readValRange for [off, off+size) of l in block b: the local entry, else
\* overdef under allOthersClobbered, else the base store; a PartialVal
\* becomes the constant of its bytes (PVToPB).
ReadValRange(b, l, off, size) ==
    LET mp == maps[bb[b]]
        x == ReadValRangeFrom(heap, IF mp.st[l] # NIL THEN mp.st[l] ELSE base[l],
                              off, size, FALSE, NewPV(size))
    IN IF mp.st[l] = NIL /\ mp.aoc THEN Overdef
       ELSE IF x.has THEN PVToPB(x.pv) ELSE x.r

\* tryForwardLoadPB through a set P of precise pointers [l, off], the null
\* pointer among them: shouldMultiload needs a non-null pointer, and
\* tryMultiload merges a null constant for the null pointer and the range
\* read through each other one, coerced to the loaded type.  Blank means
\* the load is not forwarded.
NullPtr == [l |-> "null", off |-> 0]
ShouldMultiload(P) == \E p \in P : p # NullPtr

\* ImprovedValSetSingle::coerceToType to a size-byte integer: a constant of
\* that width is left as it is; a narrower one (a whole value returned for
\* an extent wider than its constants) is reinterpreted through
\* convertToBytes, whose combineWith reads it into a zeroed buffer.
CoerceToType(v, size) ==
    IF v.od THEN v
    ELSE [od |-> FALSE, vs |-> {IF Len(c) = size THEN c ELSE ReadData(c, 0, size) : c \in v.vs}]
LoadOne(b, p, size) ==
    IF p = NullPtr THEN ConstVal([i \in 1 .. size |-> 0])
    ELSE CoerceToType(ReadValRange(b, p.l, p.off, size), size)
TryMultiload(b, P, size) ==
    SE!FoldSet(LAMBDA p, acc : ValMerge(acc, LoadOne(b, p, size)), Blank, P)
TryForwardLoadPB(b, P, size) ==
    IF ShouldMultiload(P) THEN TryMultiload(b, P, size) ELSE Overdef

\* Leaving a block: one map reference per successor, the block's own
\* reference dropped unless it returns.
LeaveBlock ==
    /\ pc <= Len(Order) /\ phase = "leave"
    /\ maps' = [maps EXCEPT ![bb[Cur]].rc =
                  @ + Cardinality(Succs(Cur)) - (IF Succs(Cur) = {} THEN 0 ELSE 1)]
    /\ snap' = [snap EXCEPT ![Cur] = View(Cur)]
    /\ pc' = pc + 1
    /\ phase' = "enter"
    /\ UNCHANGED <<heap, base, bb, exact>>

Next == StartFunction \/ EnterBlock \/ Execute \/ LeaveBlock

Spec == Init /\ [][Next]_vars

-----------------------------------------------------------------------------
(***************************************************************************)
(* Properties                                                              *)
(***************************************************************************)

\* The store state keeps its shape: objects, maps, references in range.
TypeOK ==
    /\ heap \in [ObjIds -> ObjRec]
    /\ maps \in [MapIds -> MapRec \cup {FreeMap}]
    /\ base \in [Locs -> ObjIds]
    /\ bb \in [Blocks -> {NIL} \cup MapIds]
    /\ pc \in 1 .. Len(Order) + 1
    /\ phase \in {"enter", "exec", "leave"}

\* Blocks whose map some not-yet-entered successor will still take, and the
\* block being executed: the maps whose contents still matter.
Pending(b) == Left(b) /\ \E t \in Succs(b) : ~Entered(t)
Observed == {b \in Blocks : Pending(b) \/ (InBlock /\ b = Cur)}

\* References to each map: one per successor still to take it from a block
\* that left, the map of the block being executed, the map kept by a
\* returning block.
MapHolders(mid) ==
    Cardinality({bt \in Blocks \X Blocks :
                    Left(bt[1]) /\ bt[2] \in Succs(bt[1]) /\ ~Entered(bt[2])
                    /\ bb[bt[1]] = mid})
    + Cardinality({b \in Blocks : Left(b) /\ Succs(b) = {} /\ bb[b] = mid})
    + (IF InBlock /\ bb[Cur] = mid THEN 1 ELSE 0)

\* References to each object: entries of live maps, base stores, and the
\* Underlying of live Multis.
ObjRefs(o) ==
    Cardinality({ml \in MapIds \X Locs : maps[ml[1]].live /\ maps[ml[1]].st[ml[2]] = o})
    + Cardinality({l \in Locs : base[l] = o})
    + Cardinality({p \in ObjIds : heap[p].k = "M" /\ heap[p].u = o})

\* Refcounting of the COW store (getWritableStoreMap, getWritableStoreFor,
\* dropReference, the merge visitor and the block walk): every map's
\* refCount and every Multi's MapRefCount equal the references really held,
\* a Single is held by exactly one LocStore, and nothing freed is still
\* referenced (no leak, no use after free).
RefCountsExact ==
    /\ \A mid \in MapIds : maps[mid].rc = MapHolders(mid)
                           /\ (maps[mid].live <=> MapHolders(mid) > 0)
    /\ \A o \in ObjIds :
          CASE heap[o].k = "M" -> heap[o].rc = ObjRefs(o)
            [] heap[o].k = "S" -> ObjRefs(o) = 1
            [] OTHER -> ObjRefs(o) = 0

\* Every live Multi produced by replaceRangeWithPB, getWritableStoreFor and
\* mergeStores has pairwise disjoint extents, and a Multi without Underlying
\* defines every byte of its allocation (readValRangeMultiFrom asserts it).
WellFormedMulti ==
    \A o \in ObjIds : heap[o].k = "M" =>
        /\ \A e1, e2 \in heap[o].ext : e1 # e2 => (e1.hi <= e2.lo \/ e2.hi <= e1.lo)
        /\ \A e \in heap[o].ext : e.lo < e.hi
        /\ heap[o].u = NIL => \A k \in Bytes : \E e \in heap[o].ext : e.lo <= k /\ k < e.hi

\* Soundness of the symbolic store (writes, COW breaks, merges, commits to
\* the base store): in the block being executed and in every block whose map
\* a successor will still take, each byte can only hold values the store
\* says it may hold.
Soundness ==
    \A b \in Observed : \A l \in Locs : \A k \in Bytes : exact[b][l][k] \subseteq View(b)[l][k]

\* Load forwarding is sound: a load of size bytes through a set of one or
\* two pointers (null among them) in a block whose map still matters,
\* forwarded by tryForwardLoadPB and tryMultiload through
\* readValRange, readValRangeFrom down the Underlying chain and the
\* PartialVal it assembles with combineWith, either gives up (overdef) or
\* offers, for each byte, every defined value that byte can concretely
\* hold there (an undefined byte may be read as anything).
LoadPtrs(size) ==
    {P \in SUBSET ({NullPtr} \cup {[l |-> l, off |-> o] : l \in Locs, o \in 0 .. AllocSize - size}) :
        P # {} /\ Cardinality(P) <= 2}
LoadsForwardSound ==
    \A b \in Observed : \A size \in 1 .. AllocSize : \A P \in LoadPtrs(size) :
        LET r == TryForwardLoadPB(b, P, size)
        IN ~r.od => \A p \in P \ {NullPtr} : \A i \in 1 .. size :
                       exact[b][p.l][p.off + i - 1] \ {UNDEF} \subseteq {c[i] : c \in r.vs}

\* Copy-on-write isolation (the rule that every mutation first obtains a
\* writable map/store): what a block left for its successors does not change
\* while other blocks run, until its last successor takes it.
Isolation ==
    \A b \in Blocks : Pending(b) => View(b) = snap[b]
=============================================================================
