------------------------------ MODULE SaveSplit ------------------------------
(***************************************************************************)
(* IntegrationHeuristicsPass::saveSplitPhase of SaveSplit.cpp: splitting   *)
(* the tree of specialisation contexts into the functions it will be      *)
(* committed to.                                                           *)
(*                                                                         *)
(* A context is an InlineAttempt (a specialised call) or a PeelIteration  *)
(* (one unrolled iteration of a loop of its parent).  Each holds the      *)
(* blocks of its function, or of its loop, some of which belong to a      *)
(* child loop that a PeelAttempt unrolled into iterations of their own.   *)
(* The phase makes three walks over the tree:                             *)
(*   findSaveSplits         counts residual instructions bottom-up and    *)
(*                          gives an InlineAttempt its own function when  *)
(*                          it must be out of line or is too large;       *)
(*   inheritCommitFunction  gives every other InlineAttempt the function  *)
(*                          of its first call site's context;             *)
(*   findNonLocalPointers   creates a global for every allocation,        *)
(*                          argument or file descriptor that is used from *)
(*                          a function other than the one owning it.      *)
(* Only the phase itself changes state; the tree and its analysis         *)
(* results are inputs, chosen in Init.                                     *)
(***************************************************************************)
EXTENDS Integers, Sequences, FiniteSets

LOCAL FS == INSTANCE FiniteSetsExt
LOCAL SE == INSTANCE SequencesExt

CONSTANTS
    NoLoop,          \* the null Loop*: a block in no loop
    LoopParent,      \* LoopParent[l]: the loop l is nested in, or NoLoop
    Scope,           \* Scope[f][i]: the naturalScope of block i of function f
    Ctxs, RootIA,    \* contexts; RootIA is the root main call
    Kind,            \* Kind[c] \in {"inline", "peel"}
    Fn,              \* Fn[c]: the function whose blocks c holds
    LoopOf,          \* LoopOf[c]: L, NoLoop for an InlineAttempt
    FRoot,           \* FRoot[c]: getFunctionRoot(), an InlineAttempt
    Peels,           \* Peels[c]: the loops of c's peelChildren, in map order
    Iters,           \* Iters[<<c, l>>]: that PeelAttempt's Iterations
    Sites,           \* call instructions with an InlineAttempt
    Site,            \* Site[s] = [in |-> context, ia |-> InlineAttempt]
    Callers,         \* Callers[ia]: the call sites sharing ia, Callers[0] first
    Reached,         \* Reached[c]: blocks of c with a ShadowBB (getBB # 0)
    Residual,        \* Residual[<<c, i>>]: instructions of block i left in
    Uses,            \* Uses[<<c, i>>]: objects alive instructions point to
    ArgUses,         \* ArgUses[ia]: objects ia's live arguments point to
    Owner,           \* Owner[o]: the context that allocates o
    SplitThreshold,  \* SPLIT_THRESHOLD
    NoF              \* a null CommitF

Loops == DOMAIN LoopParent
Objs == DOMAIN Owner
IAs == {c \in Ctxs : Kind[c] = "inline"}
PeelKeys == UNION {{<<c, l>> : l \in SE!ToSet(Peels[c])} : c \in Ctxs}

ASSUME /\ Kind[RootIA] = "inline" /\ Callers[RootIA] = << >>
       /\ \A ia \in IAs \ {RootIA} : Len(Callers[ia]) > 0

-----------------------------------------------------------------------------
(***************************************************************************)
(* Loops and blocks                                                        *)
(***************************************************************************)

\* Loop::contains(L): L is this loop or nested in it (false for null L).
RECURSIVE Contains(_, _)
Contains(a, b) == b # NoLoop /\ (a = b \/ Contains(a, LoopParent[b]))

\* immediateChildLoop(L, S): the loop directly inside L that holds S.
RECURSIVE ImmediateChildLoop(_, _)
ImmediateChildLoop(L, S) ==
    IF LoopParent[S] = L THEN S ELSE ImmediateChildLoop(L, LoopParent[S])

\* BBsOffset .. BBsOffset + nBBs - 1: all blocks of an InlineAttempt's
\* function, the blocks of the loop for a PeelIteration.
Blocks(c) ==
    {i \in DOMAIN Scope[Fn[c]] :
        LoopOf[c] = NoLoop \/ Contains(LoopOf[c], Scope[Fn[c]][i])}
Lo(c) == FS!Min(Blocks(c))
Hi(c) == FS!Max(Blocks(c))

-----------------------------------------------------------------------------
(***************************************************************************)
(* State: the analysis results read by the phase, chosen in Init, and     *)
(* what the phase writes.                                                  *)
(***************************************************************************)
VARIABLES
    mustOOL,      \* mustCommitOutOfLine() of each InlineAttempt
    iaOn,         \* InlineAttempt::isEnabled()
    peel,         \* peel[k]: [en |-> isEnabled(), term |-> isTerminated()]
    order,        \* order[c]: c's inlineChildren in DenseMap order
    commitF,      \* commitF[ia]: CommitF, the clone of an InlineAttempt
    globalised,   \* objects with commitGlobalised / fwdGV / Globalised
    phase
vars == <<mustOOL, iaOn, peel, order, commitF, globalised, phase>>

\* The loops at lines 126-146, 152-172 and 224-244 descend into the
\* iterations of enabled, terminated PeelAttempts and into enabled
\* InlineAttempts.
PeelDone(c, l) == l \in SE!ToSet(Peels[c]) /\ peel[<<c, l>>].en /\ peel[<<c, l>>].term
IterKids(c) == UNION {SE!ToSet(Iters[<<c, l>>]) : l \in {m \in SE!ToSet(Peels[c]) : PeelDone(c, m)}}
SiteKids(c) == {s \in Sites : Site[s].in = c /\ iaOn[Site[s].ia]}

\* The contexts the three walks visit.
RECURSIVE Visited(_)
Visited(c) == {c} \cup UNION {Visited(k) : k \in IterKids(c) \cup {Site[s].ia : s \in SiteKids(c)}}

\* Block i lies in a loop below c's own (the test at lines 93 and 195).
InChildLoop(c, i) ==
    Scope[Fn[c]][i] # LoopOf[c]
    /\ (LoopOf[c] = NoLoop \/ Contains(LoopOf[c], Scope[Fn[c]][i]))

\* The while loop of lines 100-102 and 202-204: from block i, step over
\* every block whose scope contains the scope of block b.
RECURSIVE SkipFrom(_, _, _)
SkipFrom(c, b, i) ==
    IF i <= Hi(c) /\ Scope[Fn[c]][i] # NoLoop
                  /\ Contains(Scope[Fn[c]][i], Scope[Fn[c]][b])
    THEN SkipFrom(c, b, i + 1) ELSE i

\* The blocks of c whose instructions the loops at lines 90-124 and
\* 192-222 look at, from block i on.
RECURSIVE ScanFrom(_, _)
ScanFrom(c, i) ==
    IF i > Hi(c) THEN {}
    ELSE IF InChildLoop(c, i)
            /\ PeelDone(c, ImmediateChildLoop(LoopOf[c], Scope[Fn[c]][i]))
         THEN ScanFrom(c, SkipFrom(c, i, i))
         ELSE (IF i \in Reached[c] THEN {i} ELSE {}) \cup ScanFrom(c, i + 1)
Scanned(c) == ScanFrom(c, Lo(c))

-----------------------------------------------------------------------------
(***************************************************************************)
(* findSaveSplits                                                          *)
(***************************************************************************)

\* uint64_t IntegrationAttempt::findSaveSplits(): the residual
\* instructions of c's own blocks, of its unrolled iterations and of its
\* inlined calls, each call counting as what its findSaveSplits returns.
RECURSIVE CtxResiduals(_), SaveSplits(_)
\* A count that leaves out inlined calls.
CtxResidualsNoCalls(c) ==
    FS!MapThenSumSet(LAMBDA i : Residual[<<c, i>>], Scanned(c))
    + FS!MapThenSumSet(LAMBDA k : SaveSplits(k), IterKids(c))
\* Line 278: out of line, or too large to stay in the caller.
IsSplit(ia) == mustOOL[ia] \/ CtxResiduals(ia) > SplitThreshold
CtxResiduals(c) ==
    FS!MapThenSumSet(LAMBDA i : Residual[<<c, i>>], Scanned(c))
    + FS!MapThenSumSet(LAMBDA k : SaveSplits(k), IterKids(c))
    + FS!MapThenSumSet(LAMBDA s : SaveSplits(Site[s].ia), SiteKids(c))

\* InlineAttempt::findSaveSplits: a split call leaves one call
\* instruction behind.
SaveSplits(c) ==
    IF Kind[c] = "inline" /\ IsSplit(c) THEN 1 ELSE CtxResiduals(c)

\* One clone per function F rather than per InlineAttempt.
SplitCommitsPerFn(cf) ==
    [ia \in IAs |-> IF ia \in Visited(RootIA) /\ IsSplit(ia) /\ cf[ia] = NoF
                    THEN Fn[ia] ELSE cf[ia]]

\* splitCommitHere: a fresh clone, named here by its InlineAttempt; a
\* shared InlineAttempt reached again keeps the first.
SplitCommits(cf) ==
    [ia \in IAs |-> IF ia \in Visited(RootIA) /\ IsSplit(ia) /\ cf[ia] = NoF
                    THEN ia ELSE cf[ia]]

-----------------------------------------------------------------------------
(***************************************************************************)
(* inheritCommitFunction                                                   *)
(***************************************************************************)

\* The context holding an InlineAttempt's first call site.
FirstCaller(ia) == Site[Callers[ia][1]].in
CommitOf(cf, c) == cf[FRoot[c]]

\* The iterations in peelChildren order, then the calls in DenseMap order.
KidSeq(c) ==
    LET ls == SelectSeq(Peels[c], LAMBDA l : PeelDone(c, l))
        its == SE!FlattenSeq([j \in DOMAIN ls |-> Iters[<<c, ls[j]>>]])
        ss == SelectSeq(order[c], LAMBDA s : iaOn[Site[s].ia])
    IN its \o [j \in DOMAIN ss |-> Site[ss[j]].ia]

\* Inheriting without the test of line 178.
AdoptAlways(cf, c) ==
    IF Kind[c] = "inline" /\ c # RootIA
    THEN [cf EXCEPT ![c] = CommitOf(cf, FirstCaller(c))] ELSE cf

\* InlineAttempt::inheritCommitFunction takes the CommitF of Callers[0]'s
\* function when it has none of its own, then recurses.
Adopt(cf, c) ==
    IF Kind[c] = "inline" /\ cf[c] = NoF
    THEN [cf EXCEPT ![c] = CommitOf(cf, FirstCaller(c))] ELSE cf

RECURSIVE Inherit(_, _), InheritAll(_, _)
Inherit(cf, c) == InheritAll(Adopt(cf, c), KidSeq(c))
InheritAll(cf, ks) ==
    IF ks = << >> THEN cf ELSE InheritAll(Inherit(cf, Head(ks)), Tail(ks))

-----------------------------------------------------------------------------
(***************************************************************************)
(* findNonLocalPointers                                                    *)
(***************************************************************************)

\* checkNonLocalReference: the object is used from a function other than
\* the one its allocation (or fd, or root argument) is committed to.
NonLocal(cf, c, o) == CommitOf(cf, Owner[o]) # CommitOf(cf, c)

\* A walk that skips the argument loop of lines 74-82.
ScannedUsesNoArgs(c) == UNION {Uses[<<c, i>>] : i \in Scanned(c)}

\* The objects an InlineAttempt's live arguments and c's scanned
\* instructions point to.
ScannedUses(c) ==
    (IF Kind[c] = "inline" THEN ArgUses[c] ELSE {})
    \cup UNION {Uses[<<c, i>>] : i \in Scanned(c)}

FindNonLocalPointers(cf) ==
    {o \in Objs : \E c \in Visited(RootIA) : o \in ScannedUses(c) /\ NonLocal(cf, c, o)}

-----------------------------------------------------------------------------

\* The orders a DenseMap may iterate c's call sites in; only a context
\* with two call sites has a choice.
SitesIn(c) == {s \in Sites : Site[s].in = c}
Orders(c) == SE!SetToSeqs(SitesIn(c))
Choosing == {c \in Ctxs : Cardinality(SitesIn(c)) > 1}
OrderChoices ==
    {[c \in Ctxs |-> IF c \in Choosing THEN g[c] ELSE SE!SetToSeq(SitesIn(c))] :
        g \in {h \in [Choosing -> UNION {Orders(c) : c \in Choosing}] :
                  \A c \in Choosing : h[c] \in Orders(c)}}

\* The analysis is over; no InlineAttempt has a CommitF yet.  The root
\* main call is always committed out of line (splitCommitHere gives it
\* the linkage of F; inheriting would read Callers[0] of the root).  A
\* shared InlineAttempt that is committed has its first call site in a
\* committed context: the sharing code is not in this repository, and
\* this is assumed of it.
Init ==
    /\ mustOOL \in {f \in [IAs -> BOOLEAN] : f[RootIA]}
    /\ iaOn \in {f \in [IAs -> BOOLEAN] : f[RootIA]}
    /\ peel \in [PeelKeys -> [en : BOOLEAN, term : BOOLEAN]]
    /\ order \in OrderChoices
    /\ \A ia \in (Visited(RootIA) \cap IAs) \ {RootIA} : FirstCaller(ia) \in Visited(RootIA)
    /\ commitF = [ia \in IAs |-> NoF]
    /\ globalised = {}
    /\ phase = "analysed"

\* saveSplitPhase: the three walks from the root, in this order.
SaveSplitPhase ==
    /\ phase = "analysed"
    /\ LET cf == Inherit(SplitCommits(commitF), RootIA)
       IN /\ commitF' = cf
          /\ globalised' = FindNonLocalPointers(cf)
    /\ phase' = "split"
    /\ UNCHANGED <<mustOOL, iaOn, peel, order>>

Next == SaveSplitPhase

Spec == Init /\ [][Next]_vars

-----------------------------------------------------------------------------
(***************************************************************************)
(* Properties                                                              *)
(***************************************************************************)

TypeOK ==
    /\ mustOOL \in [IAs -> BOOLEAN] /\ iaOn \in [IAs -> BOOLEAN]
    /\ peel \in [PeelKeys -> [en : BOOLEAN, term : BOOLEAN]]
    /\ commitF \in [IAs -> IAs \cup {NoF}]
    /\ globalised \subseteq Objs
    /\ phase \in {"analysed", "split"}

\* The blocks a context emits itself: all its blocks but those of a child
\* loop whose iterations were unrolled, the test commitCFG (Save.cpp:151)
\* and tryKillStoresInLoop (DSE.cpp:1019) make: the child loop contains
\* the block's scope.
OwnBlocks(c) ==
    {i \in Blocks(c) \cap Reached[c] :
        ~(InChildLoop(c, i)
          /\ PeelDone(c, ImmediateChildLoop(LoopOf[c], Scope[Fn[c]][i])))}
OwnUses(c) ==
    (IF Kind[c] = "inline" THEN ArgUses[c] ELSE {})
    \cup UNION {Uses[<<c, i>>] : i \in OwnBlocks(c)}

\* After saveSplitPhase every InlineAttempt the commit will reach has a
\* function: its own clone when findSaveSplits split it, otherwise that
\* of the context of its first call site, whatever order the DenseMaps
\* of inlineChildren visit shared InlineAttempts in.
CommitFunctionsConsistent ==
    phase = "split" =>
        \A ia \in Visited(RootIA) \cap IAs :
            /\ commitF[ia] # NoF
            /\ IsSplit(ia) => commitF[ia] = ia
            /\ ~IsSplit(ia) => commitF[ia] = CommitOf(commitF, FirstCaller(ia))

\* Every object that an instruction or live argument of a committed block
\* points to, and whose owner is committed too, but to another function, has a
\* global to carry the pointer (checkNonLocalReference: "Where a pointer
\* is used in a context that will be committed to a different function,
\* create a global that will store the pointer").
NonLocalGlobalised ==
    phase = "split" =>
        \A c \in Visited(RootIA) :
            \A o \in OwnUses(c) :
                Owner[o] \in Visited(RootIA) /\ NonLocal(commitF, c, o)
                    => o \in globalised

\* The residual instructions an InlineAttempt's own blocks, and those of
\* every context below it that lands in the same function, bring to it.
CommittedSize(ia) ==
    FS!MapThenSumSet(LAMBDA c : FS!MapThenSumSet(LAMBDA i : Residual[<<c, i>>], OwnBlocks(c)),
                     {c \in Visited(ia) : CommitOf(commitF, c) = commitF[ia]})

\* An InlineAttempt left in its caller's function brings at most
\* SPLIT_THRESHOLD residual instructions into it (findSaveSplits: "split
\* a specialised program up into chunks").
SplitBound ==
    phase = "split" =>
        \A ia \in Visited(RootIA) \cap IAs :
            commitF[ia] # ia => CommittedSize(ia) <= SplitThreshold

====
