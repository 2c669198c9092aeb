---------------------------- MODULE PointerBase ----------------------------
(***************************************************************************)
(* The pointer value-set lattice of ShadowInlines.h: PointerBase::insert, *)
(* merge and removeValsWithBase, for sets of pointer values (ValSetTypePB) *)
(* ImprovedVal(V, Offset), Offset LLONG_MAX meaning "somewhere in V".      *)
(* The accumulator acc absorbs one merge per step; the ghost `inputs'      *)
(* holds every pointer merged in so far.                                   *)
(***************************************************************************)
EXTENDS Integers, Sequences, FiniteSets

CONSTANTS
    Bases,          \* the ShadowValues pointed into
    Offsets,        \* precise offsets
    PBMAX,          \* values held before generalising / going overdef
    Others,         \* the PointerBases that may be merged in (sequences of ImprovedVals)
    MaxOps,         \* merges per behaviour
    EraseEndOutcomes \* what Values.erase(Values.end()) does: "pop" or "crash"

VAGUE == -1                       \* LLONG_MAX
IVal == [v : Bases, off : Offsets \cup {VAGUE}]
Vague(b) == [v |-> b, off |-> VAGUE]
InSeq(s, x) == \E i \in DOMAIN s : s[i] = x
DropAt(s, i) == [k \in 1 .. Len(s) - 1 |-> IF k < i THEN s[k] ELSE s[k + 1]]

ASSUME PBMAX \in Nat \ {0} /\ MaxOps \in Nat
ASSUME EraseEndOutcomes \subseteq {"pop", "crash"} /\ EraseEndOutcomes # {}

\* Outcomes are records [vals, crash]; the UB erase of end() makes the
\* operators below return sets of them.
Ok(vals) == [vals |-> vals, crash |-> FALSE]

(***************************************************************************)
(* removeValsWithBase: `it' runs from end() down to begin()+1 testing      *)
(* *(it-1) but erasing *it, the element after the one that matched.        *)
(***************************************************************************)
RECURSIVE RemoveLoop(_, _, _)
RemoveLoop(vals, base, i) ==
    IF i = 0 THEN {Ok(vals)}
    ELSE IF vals[i].v # base THEN RemoveLoop(vals, base, i - 1)
    ELSE IF i < Len(vals) THEN RemoveLoop(DropAt(vals, i + 1), base, i - 1)
    ELSE UNION {IF o = "pop" THEN RemoveLoop(SubSeq(vals, 1, i - 1), base, i - 1)
                ELSE {[vals |-> vals, crash |-> TRUE]} : o \in EraseEndOutcomes}
RemoveValsWithBase(vals, base) == RemoveLoop(vals, base, Len(vals))

\* Step 3 of insert: for every base with two or more values (counted before
\* any change, in order of first appearance), removeValsWithBase and push
\* the vague pointer.
FirstBases(vals) ==
    LET firsts == {i \in DOMAIN vals : \A j \in 1 .. i - 1 : vals[j].v # vals[i].v}
    IN [k \in 1 .. Cardinality(firsts) |->
          vals[CHOOSE i \in firsts : Cardinality({j \in firsts : j < i}) = k - 1].v]
RECURSIVE Generalise(_, _, _)
Generalise(r, bs, counts) ==
    IF bs = << >> \/ r.crash THEN {r}
    ELSE IF counts[Head(bs)] >= 2
    THEN UNION {Generalise(IF x.crash THEN x ELSE Ok(Append(x.vals, Vague(Head(bs)))),
                           Tail(bs), counts)
                  : x \in RemoveValsWithBase(r.vals, Head(bs))}
    ELSE Generalise(r, Tail(bs), counts)

\* PointerBase::insert for a PB-typed set; setOverdef clears the values.
Insert(pb, V) ==
    IF pb.od \/ InSeq(pb.vals, V) \/ InSeq(pb.vals, Vague(V.v)) THEN {[pb |-> pb, crash |-> FALSE]}
    ELSE LET removed == IF V.off = VAGUE THEN RemoveValsWithBase(pb.vals, V.v) ELSE {Ok(pb.vals)}
             pushed == {IF x.crash THEN x ELSE Ok(Append(x.vals, V)) : x \in removed}
             gen == UNION {IF ~x.crash /\ Len(x.vals) > PBMAX
                           THEN Generalise(x, FirstBases(x.vals),
                                  [b \in Bases |-> Cardinality({i \in DOMAIN x.vals : x.vals[i].v = b})])
                           ELSE {x} : x \in pushed}
         IN {[pb |-> IF ~x.crash /\ Len(x.vals) > PBMAX THEN [od |-> TRUE, vals |-> << >>]
                     ELSE [od |-> FALSE, vals |-> x.vals],
              crash |-> x.crash] : x \in gen}

\* PointerBase::merge: insert each of the other set's values while not overdef.
RECURSIVE MergeFrom(_, _)
MergeFrom(r, others) ==
    IF others = << >> \/ r.crash \/ r.pb.od THEN {r}
    ELSE UNION {MergeFrom(x, Tail(others)) : x \in Insert(r.pb, Head(others))}
Merge(pb, other) ==
    IF other.od THEN {[pb |-> [od |-> TRUE, vals |-> << >>], crash |-> FALSE]}
    ELSE MergeFrom([pb |-> pb, crash |-> FALSE], other.vals)

VARIABLES acc, inputs, crashed, ops
vars == <<acc, inputs, crashed, ops>>

Init == acc = [od |-> FALSE, vals |-> << >>] /\ inputs = {} /\ crashed = FALSE /\ ops = 0

\* acc.merge(other) for one of the sets a caller may merge in.
MergeStep ==
    /\ ~crashed /\ ops < MaxOps
    /\ \E other \in Others :
       \E r \in Merge(acc, [od |-> FALSE, vals |-> other]) :
          /\ acc' = r.pb
          /\ crashed' = r.crash
          /\ inputs' = inputs \cup {other[i] : i \in DOMAIN other}
    /\ ops' = ops + 1

Next == MergeStep
Spec == Init /\ [][Next]_vars

TypeOK ==
    /\ acc.od \in BOOLEAN /\ acc.vals \in Seq(IVal)
    /\ inputs \subseteq IVal /\ crashed \in BOOLEAN /\ ops \in 0 .. MaxOps

\* A merged value set over-approximates what was merged into it (the
\* contract of PointerBase::merge/insert that every alias and load query
\* relies on): every pointer merged in is still in the set, or its vague
\* pointer is, or the set is overdef.
CoversInputs ==
    ~crashed => \A p \in inputs : acc.od \/ InSeq(acc.vals, p) \/ InSeq(acc.vals, Vague(p.v))
=============================================================================
