---------------------------- MODULE AliasQueries ----------------------------
(***************************************************************************)
(* The alias queries of LoadForward.cpp: tryResolveImprovedValSetSingles  *)
(* in its three forms, PBsMustAliasIfStoredAndLoaded, basesAlias and      *)
(* ctxContains, with the entry points aliasSVs and isNoAliasPBs.  A query *)
(* is an input; the one step answers it.  The answers are checked against *)
(* a reference definition: the concrete objects and bytes the two         *)
(* accesses may touch.                                                    *)
(***************************************************************************)
EXTENDS Integers, FiniteSets
LOCAL INSTANCE Relation

CONSTANTS
    Ctxs, Kind, Parent,   \* contexts: "inline" (InlineAttempt) or "peel" (PeelIteration)
    NullV,                \* the ConstantPointerNull among the SHADOWVAL_OTHER values
    IVs,                  \* the ImprovedVals [v |-> ShadowValue, off |-> offset] inputs use
    PBs,                  \* the ImprovedValSetSingles inputs use
    Sizes,                \* access sizes, UnknownSize among them
    UnknownSize,          \* AliasAnalysis::UnknownSize
    LLMax,                \* LLONG_MAX: the offset of a vague pointer
    ObjSize               \* bytes of an object, for the reference only

VARIABLES query, result
vars == <<query, result>>

(***************************************************************************)
(* The code                                                                *)
(***************************************************************************)
\* getUniqueNonNullIV: the one value that is not a null constant, if there
\* is exactly one.
IsNullIV(iv) == iv.v.t = "other" /\ iv.v.v = NullV
NonNullIVs(pb) == {iv \in pb.vals : ~IsNullIV(iv)}
UniqueNonNull(pb) == {iv \in NonNullIVs(pb) : NonNullIVs(pb) = {iv}}

\* Must-alias when both sides have one non-null value, with the same base
\* and the same known offset; a possible null is ignored.
MustAliasIfStoredAndLoadedAnyOff(pb1, pb2) ==
    \E iv1 \in UniqueNonNull(pb1), iv2 \in UniqueNonNull(pb2) :
        iv1.off = iv2.off /\ iv1.v = iv2.v
MustAliasIfStoredAndLoaded(pb1, pb2) ==
    \E iv1 \in UniqueNonNull(pb1), iv2 \in UniqueNonNull(pb2) :
        iv1.off # LLMax /\ iv1.off = iv2.off /\ iv1.v = iv2.v

\* ctxContains: an InlineAttempt contains only itself, a PeelIteration
\* itself and what its parent contains.
RECURSIVE CtxContains(_, _)
CtxContainsSelf(c, ia) == c = ia
CtxContains(c, ia) == c = ia \/ (Kind[c] = "peel" /\ CtxContains(Parent[c], ia))

\* basesAlias: values, arguments and globals by identity; instructions by
\* the static instruction and contexts of which one contains the other.
BasesAliasAnyCtx(v1, v2) == v2.t = v1.t /\ v2.v = v1.v
BasesAlias(v1, v2) ==
    /\ v2.t = v1.t /\ v2.v = v1.v
    /\ v1.t = "inst" => CtxContains(v1.ctx, v2.ctx) \/ CtxContains(v2.ctx, v1.ctx)

\* The two intervals are provably apart; an unknown size reaches forward
\* without end.
Disjoint(o1, s1, o2, s2) ==
    \/ s2 # UnknownSize /\ o1 >= o2 + s2
    \/ s1 # UnknownSize /\ o1 + s1 <= o2

TryResolveSingles(pb1, s1, pb2, s2) ==
    IF s1 = s2 /\ MustAliasIfStoredAndLoaded(pb1, pb2) THEN "must"
    ELSE IF \E i \in pb1.vals, j \in pb2.vals :
                /\ BasesAlias(i.v, j.v)
                /\ i.off = LLMax \/ j.off = LLMax \/ ~Disjoint(i.off, s1, j.off, s2)
         THEN "partial"
         ELSE "no"

\* An initialised, defined, non-empty set of pointers.
Usable(pb) == pb.init /\ ~pb.overdef /\ pb.vals # {} /\ pb.type = "pb"
PBOf(iv) == [init |-> TRUE, type |-> "pb", overdef |-> FALSE, vals |-> {iv}]

TryResolveValues(pb1, s1, pb2, s2) ==
    IF Usable(pb1) /\ Usable(pb2) THEN TryResolveSingles(pb1, s1, pb2, s2) ELSE "may"
TryResolveBase(iv, s1, pb2, s2) ==
    IF Usable(pb2) THEN TryResolveSingles(PBOf(iv), s1, pb2, s2) ELSE "may"

\* aliasSVs hands an undecided query to the LLVM alias analysis chain.
AliasSVsResultNoAA(r) == r
AliasSVsResult(r) == IF r = "may" THEN "global" ELSE r

(***************************************************************************)
(* The queries                                                             *)
(***************************************************************************)
Queries ==
    [op : {"aliasSVs"}, pb1 : PBs, s1 : Sizes, pb2 : PBs, s2 : Sizes]
    \cup [op : {"isNoAliasPBs"}, pb1 : {PBOf(iv) : iv \in IVs}, s1 : Sizes,
          pb2 : PBs, s2 : Sizes]

Init == query \in Queries /\ result = "pending"

AliasSVs ==
    /\ result = "pending" /\ query.op = "aliasSVs"
    /\ result' = AliasSVsResult(TryResolveValues(query.pb1, query.s1, query.pb2, query.s2))
    /\ UNCHANGED query

\* isNoAliasPBs answers only whether the query resolved to NoAlias.
IsNoAliasPBs ==
    /\ result = "pending" /\ query.op = "isNoAliasPBs"
    /\ result' = IF TryResolveBase(CHOOSE iv \in query.pb1.vals : TRUE, query.s1,
                                   query.pb2, query.s2) = "no"
                 THEN "no" ELSE "may"
    /\ UNCHANGED query

Next == AliasSVs \/ IsNoAliasPBs

Spec == Init /\ [][Next]_vars

-----------------------------------------------------------------------------
(***************************************************************************)
(* The reference: concrete objects and bytes                               *)
(***************************************************************************)
\* Runs[d, c]: context d runs within c's frame: c itself, or a peeled
\* iteration below it with no InlineAttempt in between.  A disabled
\* PeelAttempt is committed as the parent's residual loop, so a value of
\* the parent stands for the iterations' executions too.
Runs == ReflexiveTransitiveClosure([x, y \in Ctxs |-> Kind[x] = "peel" /\ Parent[x] = y], Ctxs)
Objects(b) ==
    IF b.t = "inst" THEN {<<b.v, d>> : d \in {e \in Ctxs : Runs[e, b.ctx]}}
    ELSE {<<b.t, b.v>>}
Offs(iv) == IF iv.off = LLMax THEN 0 .. ObjSize - 1 ELSE {iv.off}
Bytes(k, s) == IF s = UnknownSize THEN k .. ObjSize - 1 ELSE k .. k + s - 1
Ptrs(pb) == UNION {{<<o, k>> : o \in Objects(iv.v), k \in Offs(iv)} : iv \in pb.vals}
Overlap(p1, s1, p2, s2) == p1[1] = p2[1] /\ Bytes(p1[2], s1) \cap Bytes(p2[2], s2) # {}
NullObj == <<"other", NullV>>

\* One instance for each base of the query, shared by both sides.
QBases == {iv.v : iv \in query.pb1.vals \cup query.pb2.vals}
Valuations == {f \in [QBases -> UNION {Objects(b) : b \in QBases}] :
                  \A b \in QBases : f[b] \in Objects(b)}
Under(pb, f) == UNION {{<<f[iv.v], k>> : k \in Offs(iv)} : iv \in {x \in pb.vals : f[x.v] # NullObj}}

(***************************************************************************)
(* Properties                                                              *)
(***************************************************************************)
\* The query and the answer keep their shapes: aliasSVs never answers
\* MayAlias itself but passes the query on to the LLVM chain, and
\* isNoAliasPBs answers only yes or no.
TypeOK ==
    /\ query \in Queries
    /\ result \in {"pending", "must", "partial", "no", "global", "may"}
    /\ query.op = "aliasSVs" => result # "may"
    /\ query.op = "isNoAliasPBs" => result \in {"pending", "no", "may"}

\* NoAlias is sound: no object and byte either access may touch is touched
\* by the other, over every instance of the bases, including a value of
\* a loop's parent context against one of its iterations (ctxContains)
\* and accesses of unknown size.  The alias analysis chain that consults
\* IntAAProxy::isNoAliasPBs takes NoAlias as licence to ignore the other
\* access, so an unsound answer hides a write from a read.
NoAliasSound ==
    result = "no" =>
        \A p1 \in Ptrs(query.pb1), p2 \in Ptrs(query.pb2) :
            ~Overlap(p1, query.s1, p2, query.s2)

\* PartialAlias is only reported when the two accesses can overlap: the
\* pair loop of tryResolveImprovedValSetSingles stops at bases that may be
\* one object and intervals that may meet.
PartialOverlaps ==
    result = "partial" =>
        \E p1 \in Ptrs(query.pb1), p2 \in Ptrs(query.pb2) :
            Overlap(p1, query.s1, p2, query.s2)

\* MustAlias holds for the two pointers as evaluated together: for every
\* choice of one instance per base, every non-null pointer either side
\* may hold is the same object and byte as every one of the other's
\* (the null case is the exception the comment at PBsMustAliasIfStoredAndLoaded
\* argues for).
MustAliasSound ==
    result = "must" =>
        \A f \in Valuations :
            \A p1 \in Under(query.pb1, f), p2 \in Under(query.pb2, f) : p1 = p2

====
