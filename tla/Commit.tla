------------------------------- MODULE Commit -------------------------------
(***************************************************************************)
(* Emitting the specialised program (Save.cpp, the older tree under       *)
(* src/llvm).  Three walks over the tree of contexts run one after the    *)
(* other: prepareCommit creates the blocks of loops whose peel is         *)
(* ignored, commitCFG creates a committed block for every shadow block    *)
(* and a return block for every call inlined in place, and               *)
(* commitArgsAndInstructions fills those blocks: inlined calls branch to *)
(* the callee's entry, terminators branch through getSuccessorBB, and    *)
(* loop-header PHIs name the blocks that branch to them.  Instructions   *)
(* other than calls, PHIs and terminators are not modelled: they go into *)
(* the current block and never change it.                                *)
(***************************************************************************)
EXTENDS Integers, Sequences, FiniteSets
LOCAL SE == INSTANCE SequencesExt

CONSTANTS
    NoLoop, LoopParent,     \* the loop tree: LoopParent[l] is l's parent or NoLoop
    Scope,                  \* Scope[f][b]: naturalScope of block b of function f
    Header, Latch, Preheader,
    Succs,                  \* Succs[f][b]: the successor blocks of b's terminator
    Ctxs, RootIA,
    Kind,                   \* "inline" (InlineAttempt) or "peel" (PeelIteration)
    Fn, LoopOf, FRoot,      \* function, L, and getFunctionRoot() of each context
    Parent,                 \* the context holding a PeelIteration's PeelAttempt
    Peels,                  \* Peels[c]: the loops with a PeelAttempt in c
    Iters,                  \* Iters[<<c, l>>]: the PeelAttempt's Iterations
    CallsIn,                \* CallsIn[<<c, b>>]: the InlineAttempts of b's calls, in order
    Vararg,                 \* InlineAttempts of vararg functions
    AliveChoice             \* per block, the succsAlive sets the analysis may leave

Loops == DOMAIN LoopParent
IAs == {c \in Ctxs : Kind[c] = "inline"}
PeelKeys == UNION {{<<c, l>> : l \in SE!ToSet(Peels[c])} : c \in Ctxs}
Null == <<"null", 0>>           \* a null ShadowBB or BasicBlock

RECURSIVE Contains(_, _)
\* Loop::contains; contains(0) is false.
Contains(a, b) == b # NoLoop /\ (a = b \/ Contains(a, LoopParent[b]))

Sc(c, b) == Scope[Fn[c]][b]
Blocks(c) == {b \in DOMAIN Scope[Fn[c]] :
                 Kind[c] = "inline" \/ Contains(LoopOf[c], Sc(c, b))}
Lo(c) == CHOOSE b \in Blocks(c) : \A x \in Blocks(c) : b <= x
Hi(c) == CHOOSE b \in Blocks(c) : \A x \in Blocks(c) : x <= b
Calls(c, b) == IF <<c, b>> \in DOMAIN CallsIn THEN CallsIn[<<c, b>>] ELSE << >>
HasPA(c, l) == l \in SE!ToSet(Peels[c])
IterIdx(c) == CHOOSE n \in DOMAIN Iters[<<Parent[c], LoopOf[c]>>] :
                 Iters[<<Parent[c], LoopOf[c]>>][n] = c
LoopBlocks(c, l) == {b \in Blocks(c) : Contains(l, Sc(c, b))}

VARIABLES
    iaOn, paOn,     \* isEnabled() of each InlineAttempt and PeelAttempt
    alive,          \* succsAlive of the blocks the analysis decides
    terminated,     \* isTerminated() of each PeelAttempt
    bbs,            \* the ShadowBBs each context has
    phase,
    cfg,            \* what commitCFG created: [k |-> "blk", x |-> block, y |-> <<function, 0>>]
    code            \* what was emitted: "emit" (a block filled), "br", "phi"
vars == <<iaOn, paOn, alive, terminated, bbs, phase, cfg, code>>

AliveSet(c, b) ==
    IF <<c, b>> \in DOMAIN alive THEN alive[<<c, b>>] ELSE DOMAIN Succs[Fn[c]][b]
AliveTargets(c, b) == {Succs[Fn[c]][b][p] : p \in AliveSet(c, b)}

(***************************************************************************)
(* The blocks the analysis reached (not in this tree): from the entry     *)
(* along live edges; a loop whose peel terminated keeps only its header   *)
(* in the parent, whose exit blocks the iterations reach.                 *)
(***************************************************************************)
RECURSIVE Analysed(_), Grow(_, _, _), Finished(_)
Finished(pa) == Latch[pa[2]] \notin Analysed(SE!Last(Iters[pa]))
IterExits(c) ==
    UNION {UNION {AliveTargets(it, x) : x \in Analysed(it)} \cap (Blocks(c) \ Blocks(it)) :
              it \in UNION {SE!ToSet(Iters[pa]) : pa \in {k \in PeelKeys : k[1] = c}}}
Grow(c, S, n) ==
    IF n = 0 THEN S
    ELSE Grow(c, S \cup IterExits(c) \cup (Blocks(c) \cap UNION {AliveTargets(c, b) :
              b \in {x \in S : ~\E l \in SE!ToSet(Peels[c]) : x = Header[l] /\ Finished(<<c, l>>)}}),
              n - 1)
Analysed(c) == Grow(c, {Lo(c)}, Cardinality(Blocks(c)))

(***************************************************************************)
(* prepareCommit: the contexts it visits, and the blocks it creates for a *)
(* loop whose PeelAttempt is ignored but terminated.                       *)
(***************************************************************************)
RECURSIVE Prepared(_)
IterLimit(pa) == IF terminated[pa] THEN Len(Iters[pa]) ELSE Len(Iters[pa]) - 1
Prepared(c) ==
    {c} \cup UNION {Prepared(ia) : ia \in {x \in UNION {SE!ToSet(Calls(c, b)) : b \in bbs[c]} :
                                              iaOn[x]}}
        \cup UNION {UNION {Prepared(Iters[pa][n]) : n \in 1 .. IterLimit(pa)} :
                       pa \in {k \in PeelKeys : k[1] = c /\ paOn[k]}}
PrepareCreates(c) ==
    UNION {LoopBlocks(c, l) : l \in {x \in SE!ToSet(Peels[c]) :
                                        ~paOn[<<c, x>>] /\ terminated[<<c, x>>]}}

\* The walks step over a terminated loop: to the first block that exists
\* and is outside it.
SkipPast(c, i, l) ==
    LET J == {j \in i .. Hi(c) : j \in bbs[c] /\ ~Contains(l, Sc(c, j))}
    IN IF J = {} THEN Hi(c) + 1 ELSE CHOOSE j \in J : \A x \in J : j <= x
On(c, l) == HasPA(c, l) /\ paOn[<<c, l>>]
Blk(id, f) == [k |-> "blk", x |-> id, y |-> <<f, 0>>]
Br(from, to) == [k |-> "br", x |-> from, y |-> to]
Phi(at, from) == [k |-> "phi", x |-> at, y |-> from]

(***************************************************************************)
(* commitCFG                                                               *)
(***************************************************************************)
RECURSIVE CommitCFG(_, _), CFGFrom(_, _, _, _), CreateBlock(_, _, _)
\* Entering a loop: a terminated enabled PeelAttempt's blocks are skipped.
CFGSkipsTerminated(c, l) == HasPA(c, l) /\ terminated[<<c, l>>]
CFGSkips(c, l) == On(c, l) /\ terminated[<<c, l>>]
CreateCallOutlined(cf, ia) == {Blk(<<ia, 0>>, cf)} \cup CommitCFG(ia, ia)
CreateCall(cf, ia) ==
    IF ia \notin Vararg THEN {Blk(<<ia, 0>>, cf)} \cup CommitCFG(ia, cf)
    ELSE CommitCFG(ia, ia)
CreateBlock(c, cf, i) ==
    {Blk(<<c, i>>, cf)}
    \cup UNION {CreateCall(cf, ia) : ia \in {x \in SE!ToSet(Calls(c, i)) : iaOn[x]}}
CFGFrom(c, cf, i, cur) ==
    IF i > Hi(c) THEN {}
    ELSE IF i \notin bbs[c] THEN CFGFrom(c, cf, i + 1, cur)
    ELSE IF cur = LoopOf[c] /\ Sc(c, i) # LoopOf[c]
    THEN (IF On(c, Sc(c, i))
          THEN UNION {CommitCFG(it, cf) : it \in SE!ToSet(Iters[<<c, Sc(c, i)>>])}
          ELSE {})
         \cup IF CFGSkips(c, Sc(c, i))
              THEN CFGFrom(c, cf, SkipPast(c, i, Sc(c, i)), cur)
              ELSE CreateBlock(c, cf, i) \cup CFGFrom(c, cf, i + 1, Sc(c, i))
    ELSE CreateBlock(c, cf, i) \cup CFGFrom(c, cf, i + 1, Sc(c, i))
CommitCFG(c, cf) == CFGFrom(c, cf, Lo(c), LoopOf[c])

\* committedTail: the return block of the last call inlined in place.
TailOf(c, b) ==
    LET inPlace == SelectSeq(Calls(c, b), LAMBDA x : iaOn[x] /\ x \notin Vararg)
    IN CASE b \notin bbs[c] -> Null
         [] inPlace = << >> -> <<c, b>>
         [] OTHER -> <<SE!Last(inPlace), 0>>

(***************************************************************************)
(* getSuccessorBB and the getBBFalling it falls back on                    *)
(***************************************************************************)
GetBB(c, b) == IF b \in bbs[c] THEN <<c, b>> ELSE Null
RECURSIVE Falling2(_, _)
Falling2(c, t) == IF Sc(c, t) = LoopOf[c] THEN GetBB(c, t) ELSE Falling2(Parent[c], t)
Falling(c, t) ==
    IF LoopOf[c] = NoLoop \/ Contains(LoopOf[c], Sc(c, t)) THEN GetBB(c, t)
    ELSE Falling2(Parent[c], t)
HasNext(c) == IterIdx(c) < Len(Iters[<<Parent[c], LoopOf[c]>>])
NextIter(c) == Iters[<<Parent[c], LoopOf[c]>>][IterIdx(c) + 1]
SuccBBAnyPA(c, b, t) ==
    CASE Kind[c] = "peel" /\ b = Latch[LoopOf[c]] /\ t = Header[LoopOf[c]] ->
              IF HasNext(c) THEN GetBB(NextIter(c), t) ELSE GetBB(Parent[c], t)
      [] Sc(c, t) = NoLoop \/ Contains(Sc(c, t), LoopOf[c]) -> Falling(c, t)
      [] Sc(c, b) = LoopOf[c] /\ HasPA(c, Sc(c, t)) -> GetBB(Iters[<<c, Sc(c, t)>>][1], t)
      [] OTHER -> GetBB(c, t)
SuccBB(c, b, t) ==
    CASE Kind[c] = "peel" /\ b = Latch[LoopOf[c]] /\ t = Header[LoopOf[c]] ->
              IF HasNext(c) THEN GetBB(NextIter(c), t) ELSE GetBB(Parent[c], t)
      [] Sc(c, t) = NoLoop \/ Contains(Sc(c, t), LoopOf[c]) -> Falling(c, t)
      [] Sc(c, b) = LoopOf[c] /\ On(c, Sc(c, t)) -> GetBB(Iters[<<c, Sc(c, t)>>][1], t)
      [] OTHER -> GetBB(c, t)

\* The branches emitTerminator writes at the end of emitBB: to the
\* caller's return block, to the one live successor, or a clone of the
\* branch naming every successor.
Terminator(c, i, ebb) ==
    LET ss == Succs[Fn[c]][i]
        live == AliveSet(c, i)
    IN CASE ss = << >> ->
              IF FRoot[c] # RootIA /\ FRoot[c] \notin Vararg
              THEN {Br(ebb, <<FRoot[c], 0>>)} ELSE {}
         [] Cardinality(live) = 1 -> {Br(ebb, SuccBB(c, i, ss[p])) : p \in live}
         [] OTHER -> {Br(ebb, SuccBB(c, i, ss[p])) : p \in DOMAIN ss}

\* PeelIteration::emitPHINode: an iteration's header PHI takes the
\* preheader of the parent, or the latch of the iteration before.
PhiSourceHead(c) ==
    LET l == LoopOf[c]
        n == IterIdx(c)
    IN IF n = 1 THEN GetBB(Parent[c], Preheader[l])
       ELSE GetBB(Iters[<<Parent[c], l>>][n - 1], Latch[l])
PhiSource(c) ==
    LET l == LoopOf[c]
        n == IterIdx(c)
    IN IF n = 1 THEN TailOf(Parent[c], Preheader[l])
       ELSE TailOf(Iters[<<Parent[c], l>>][n - 1], Latch[l])
HeaderPhi(c, i) ==
    IF Kind[c] = "peel" /\ i = Header[LoopOf[c]] THEN {Phi(<<c, i>>, PhiSource(c))} ELSE {}

\* populatePHINode for the header of a residual loop: the last iteration's
\* latch and the residual latch when the loop has an enabled PeelAttempt,
\* else every predecessor whose edge is live.
Preds(c, i) == {p \in Blocks(c) : i \in SE!ToSet(Succs[Fn[c]][p])}
Populate(c, i) ==
    LET l == Sc(c, i)
    IN IF On(c, l)
       THEN {Phi(<<c, i>>, TailOf(SE!Last(Iters[<<c, l>>]), Latch[l])),
             Phi(<<c, i>>, TailOf(c, Latch[l]))}
       ELSE {Phi(<<c, i>>, TailOf(c, p)) :
                p \in {q \in Preds(c, i) : q \in bbs[c] /\ i \in AliveTargets(c, q)}}
FixupHeaderPhis(c, i) == IF i = Header[Sc(c, i)] THEN Populate(c, i) ELSE {}

(***************************************************************************)
(* commitArgsAndInstructions                                               *)
(***************************************************************************)
RECURSIVE CommitInstructions(_), CLI(_, _, _), EmitCalls(_, _, _, _), ResidualLoop(_, _, _)
\* emitCall for each call of the block: an inlined call branches to the
\* callee's entry and the rest of the block goes to its return block; a
\* vararg one stays a call of its clone.  Either way the callee is filled.
EmitCalls(c, i, cs, ebb) ==
    IF cs = << >> THEN Terminator(c, i, ebb)
    ELSE LET ia == Head(cs) IN
         IF iaOn[ia] /\ ia \notin Vararg
         THEN {Br(ebb, <<ia, Lo(ia)>>)} \cup CommitInstructions(ia)
              \cup EmitCalls(c, i, Tail(cs), <<ia, 0>>)
         ELSE (IF iaOn[ia] THEN CommitInstructions(ia) ELSE {})
              \cup EmitCalls(c, i, Tail(cs), ebb)
EmitBlock(c, i) ==
    {[k |-> "emit", x |-> <<c, i>>, y |-> <<c, i>>]} \cup HeaderPhi(c, i)
    \cup EmitCalls(c, i, Calls(c, i), <<c, i>>)
\* commitLoopInstructions(ScopeL, i): the facts emitted and where i ends.
CLI(c, scopeL, i) ==
    CASE i > Hi(c) -> [i |-> i, f |-> {}]
      [] i \notin bbs[c] -> CLI(c, scopeL, i + 1)
      [] scopeL # NoLoop /\ ~Contains(scopeL, Sc(c, i)) -> [i |-> i, f |-> {}]
      [] Sc(c, i) # scopeL ->
            LET l == Sc(c, i)
                iters == IF On(c, l)
                         THEN UNION {CommitInstructions(it) : it \in SE!ToSet(Iters[<<c, l>>])}
                         ELSE {}
                inner == IF On(c, l) /\ terminated[<<c, l>>]
                         THEN [i |-> SkipPast(c, i, l), f |-> {}]
                         ELSE ResidualLoop(c, l, i)
                rest == CLI(c, scopeL, inner.i)
            IN [i |-> rest.i, f |-> iters \cup inner.f \cup rest.f]
      [] OTHER -> LET rest == CLI(c, scopeL, i + 1)
                  IN [i |-> rest.i, f |-> EmitBlock(c, i) \cup rest.f]
\* The residual body of loop l, then fixupHeaderPHIs on its header.
ResidualLoop(c, l, i) ==
    LET r == CLI(c, l, i) IN [i |-> r.i, f |-> r.f \cup FixupHeaderPhis(c, i)]
CommitInstructions(c) == CLI(c, LoopOf[c], Lo(c)).f

(***************************************************************************)
(* The commit phases, in the order the driver runs them.                   *)
(***************************************************************************)
AliveChoices ==
    {a \in [DOMAIN AliveChoice -> UNION {AliveChoice[k] : k \in DOMAIN AliveChoice}] : \A k \in DOMAIN AliveChoice : a[k] \in AliveChoice[k]}

Init ==
    /\ iaOn \in {f \in [IAs -> BOOLEAN] : f[RootIA]}
    /\ paOn \in [PeelKeys -> BOOLEAN]
    /\ alive \in AliveChoices
    /\ terminated = [pa \in PeelKeys |-> Finished(pa)]
    /\ bbs = [c \in Ctxs |-> Analysed(c)]
    /\ phase = "analysed"
    /\ cfg = {}
    /\ code = {}

PrepareCommit ==
    /\ phase = "analysed"
    /\ bbs' = [c \in Ctxs |-> IF c \in Prepared(RootIA) THEN bbs[c] \cup PrepareCreates(c)
                                                     ELSE bbs[c]]
    /\ phase' = "prepared"
    /\ UNCHANGED <<iaOn, paOn, alive, terminated, cfg, code>>

CommitCFGPhase ==
    /\ phase = "prepared"
    /\ cfg' = CommitCFG(RootIA, RootIA)
    /\ phase' = "cfg"
    /\ UNCHANGED <<iaOn, paOn, alive, terminated, bbs, code>>

CommitInstructionsPhase ==
    /\ phase = "cfg"
    /\ code' = CommitInstructions(RootIA)
    /\ phase' = "done"
    /\ UNCHANGED <<iaOn, paOn, alive, terminated, bbs, cfg>>

Next == PrepareCommit \/ CommitCFGPhase \/ CommitInstructionsPhase

Spec == Init /\ [][Next]_vars

-----------------------------------------------------------------------------
(***************************************************************************)
(* Properties                                                              *)
(***************************************************************************)

BlockIds == (Ctxs \X Nat) \cup {Null}
\* The variables keep their types, and commitCFG creates every block in
\* the root's CommitF or in the clone of a vararg callee: an InlineAttempt
\* inlined in place shares its caller's function (IA->CommitF = CF).
TypeOK ==
    /\ iaOn \in [IAs -> BOOLEAN] /\ paOn \in [PeelKeys -> BOOLEAN]
    /\ terminated \in [PeelKeys -> BOOLEAN]
    /\ \A c \in Ctxs : bbs[c] \subseteq Blocks(c)
    /\ phase \in {"analysed", "prepared", "cfg", "done"}
    /\ \A f \in cfg : f.k = "blk" /\ f.x \in Ctxs \X Nat /\ f.y \in {<<g, 0>> : g \in {RootIA} \cup Vararg}
    /\ \A f \in code : f.k \in {"emit", "br", "phi"} /\ f.x \in BlockIds /\ f.y \in BlockIds

Created == {f.x : f \in {g \in cfg : g.k = "blk"}}
FnOf(id) == (CHOOSE f \in cfg : f.k = "blk" /\ f.x = id).y
Filled == {f.x : f \in {g \in code : g.k = "emit"}}
Branches == {f \in code : f.k = "br"}

\* commitCFG and commitLoopInstructions walk the contexts separately, each
\* with its own test for entering and skipping a loop; the blocks the
\* second fills with instructions are exactly the ones the first created
\* (apart from the return blocks of inlined calls, which emitCall fills).
\* A block created and never filled has no terminator; one filled and not
\* created is a null committedHead.
CommitWalksAgree ==
    phase = "done" => Filled = {id \in Created : id[2] # 0}

\* Every branch emitTerminator or emitCall writes leaves a created block
\* and lands on a created block of the same committed function:
\* getSuccessorBB never yields a null or uncommitted ShadowBB
\* (release_assert at Save.cpp:588 and 611), and no branch crosses from
\* one function to another.
BranchesResolve ==
    phase = "done" =>
        \A b \in Branches : /\ b.x \in Created /\ b.y \in Created
                            /\ FnOf(b.x) = FnOf(b.y)

\* Every loop-header PHI that is emitted names, as its incoming blocks,
\* exactly the blocks whose emitted branches reach that header: the
\* preheader or the previous iteration's latch for a peeled iteration
\* (PeelIteration::emitPHINode), the last iteration's latch and the
\* residual latch for a residual loop with iterations (populatePHINode).
\* Both sides name committedTail, which the return blocks of inlined
\* calls move.
PhisMatchPreds ==
    phase = "done" =>
        \A a \in {f.x : f \in {g \in code : g.k = "phi"}} :
            {f.y : f \in {g \in code : g.k = "phi" /\ g.x = a}} = {b.x : b \in {g \in Branches : g.y = a}}

====

