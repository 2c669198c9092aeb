# TLA+ models of the llpe specialiser's symbolic memory

llpe is a partial evaluator for LLVM IR. It walks a function's blocks in
order and keeps a symbolic image of memory. At each join it merges the
images of the incoming paths. Loads are then forwarded from that image, and
dead stores are found by a second analysis (DSE). This directory holds TLA+
models of the memory image, of the value sets it stores, of the DSE
tracker, of the commit-function split and of the control-flow skeleton
the emitter commits, of the alias queries, with TLC configurations that check them.

## The system

| Part | Source | What it does |
|---|---|---|
| Symbolic store | `LoadForward.cpp` 732-887, 1358-1386, 1520-1537, 1636-1833 | Each block has a `localStore`, a `LocalStoreMap` from allocation to `LocStore`. Maps are shared copy-on-write, counted by `refCount`. Each allocation also has a base `LocStore`, which `CERTAIN` blocks write directly. A `LocStore` points to an `ImprovedValSet`. A Single holds one value set and is private to its holder. A Multi maps byte extents to values, defers the rest to its `Underlying`, and is counted by `MapRefCount`. `executeWriteInst` writes through overdef, precise or vague pointers. |
| Join merge | `LoadForward.cpp` 1835-2266 | `doBlockStoreMerge` runs `MergeBlockVisitor::visit` over the predecessors. `visit` picks or copies a merge map, handles `allOthersClobbered`, moves over entries only the incoming map has, and calls `mergeStores` for each key. `mergeStores` finds a common ancestor of the two `Underlying` chains (`getCommonAncestor`) and sweeps the two extent lists. A `CERTAIN` block's merge result is committed to the base stores (`commitStoreToBase`). |
| Store reads | `LoadForward.cpp` 928-1102, 1256-1357 | `readValRange` reads through the local map, or the base store, down the `Underlying` chain. `readValRangeMultiFrom` lists extents and stops at a given ancestor. |
| Value sets | `ShadowInlines.h` 183-430 | `PointerBase` is the older form of the value set: `insert` and `merge`, vague-pointer generalisation and `PBMAX`. |
| DSE | `DSE.cpp` | Each block has a `DSELocalStore`, shared copy-on-write by `refCount`. For each allocation it holds a `DSEMapPointer`: an `IntervalMap` (`DSEMapTy`) from byte ranges to the vector of `TrackedStore`s that may have written them last. A `TrackedStore` counts `outstandingBytes`, the bytes of all maps naming it. At zero, `derefBytes` deletes the store instruction unless it `isNeeded`. |
| Alias queries | `LoadForward.cpp` 16-20, 629-728, 2287-2360 | Pure functions of value sets. `tryResolveImprovedValSetSingles` answers MustAlias when both sides hold one non-null pointer with the same base and known offset, PartialAlias when some pair of pointers has aliasing bases (`basesAlias`, `ctxContains`) and intervals that may meet, and NoAlias otherwise. `aliasSVs` passes an undecided query to LLVM's alias analysis; `IntAAProxy::isNoAliasPBs` lets that analysis ask back whether a base+offset is NoAlias. |
| Commit splitting | `SaveSplit.cpp` | `findSaveSplits` walks the tree of contexts (inlined calls and peeled loop iterations) bottom up and gives a context its own commit function when it must be committed out of line or its residual instructions exceed `SPLIT_THRESHOLD`. `inheritCommitFunction` then gives every other context the commit function of its first caller. `findNonLocalPointers` makes an allocation, argument or file descriptor global when code committed to another function uses it. |
| Emitter | `Save.cpp` (older `src/llvm` tree) | Emits the specialised IR in three walks of the context tree. `prepareCommit` creates the blocks of ignored but terminated loops. `commitCFG` creates a `BasicBlock` per `ShadowBB` and a return block per call inlined in place, and an empty clone for a vararg callee. `commitInstructions` fills the blocks: `emitCall` branches into inlined callees, `emitTerminator` writes each block's branch through `getSuccessorBB`, and the PHI emitters name the incoming blocks. |

The parts interact as follows. Writes go through `getWritableStoreFor`, which
breaks copy-on-write sharing. Joins combine the maps their predecessors
leave. The view a load reads is the combination of local map, base store and
`Underlying` chain. All of this state is single-threaded. The hard
behaviours are long legal sequences: sharing through several refcounts,
chains of delegating Multis, merges of chains of different shape, and the
point where a block's map is handed to several successors.

## Modules

### `BlockStore.tla`: the store and the join merge

**State**
- `heap`: the pool of `ImprovedValSet` objects. A Single is `[k: "S", v]`. A Multi is `[k: "M", ext, u, rc]`.
- `maps`: the pool of `LocalStoreMap`s (`st`, `aoc` = `allOthersClobbered`, `rc`).
- `base`: each allocation's base store.
- `bb`: each block's `localStore`.
- `pc` and `phase`: the walk over a constant topological `Order`.
- Two ghosts, used only by the properties:
  - `exact`: the concrete byte values each location may hold in each block;
  - `snap`: the view each block left behind.

**Actions**
- `StartFunction`: the entry block gets a fresh map.
- `EnterBlock`: `doBlockStoreMerge` as a whole, including `visit`, `mergeStores`, `getCommonAncestor`, the commit to base and `getEmptyMap`.
- `Execute`: one `executeStoreInst` → `executeWriteInst`. It is chosen from the block's constant instruction set: nothing, a precise store of a byte tuple, a store through a vague pointer, a call (`executeUnexpandedCall`: a read-only call writes nothing, an annotated library call writes overdef into the bytes it names, any other call writes through an overdef pointer and clobbers everything), or a memcpy within the allocation (`executeCopyInst`). A memcpy of known length reads the source extents with `readValRangeMulti`, then makes the destination writable, then writes the extents with `replaceRangeWithPBs` moved to the destination offset. A memcpy of unknown length is an overdef write from the destination offset on.
- `LeaveBlock`: hands the map to the successors. There is one reference per successor, replacing the block's own reference.

**Operators**
Every code operation is an operator translated from the function it is named after:
- `LSMGetWritable`, `GetWritableStoreFor`, `AdjustStore`;
- `ClearMap`, `GetEmptyMap`, `LSMDropRef`;
- `GetCommonAncestor`, `MergeSweep`, `MergeWithBase`, `NeedsUnderlying`, `MergeStores`;
- `Visit`, `CommitEntries`, `DoBlockStoreMerge`, `ReadMultiFrom`;
- `ExecuteUnexpandedCall` for calls without a special handler;
- `ExecuteCopyInst`, `ReadValRangeMulti` and `ReplaceRangeWithPBs` for memcpy (`replaceRangeWithPBs` is not in `src/` and follows the spec);
- load forwarding, a query on the state the properties evaluate for every load a block could issue:
  - `TryForwardLoadPB`, `ShouldMultiload` and `TryMultiload` for `tryForwardLoadPB` through a set of precise pointers, the null pointer among them;
  - `ReadValRange` and `ReadValRangeFrom` (with its extent loop `AddExtents`) for `readValRange` and `readValRangeFrom`;
  - `AddIVSToPartialVal`, `NewPV`, `CombineWith`, `IsComplete` and `PVToPB` for the byte-array `PartialVal`.

`PROJECT.json` ("map") gives the lines of each.

**Abstractions**
- **Values.** A value set is `[od, vs]`. `vs` is a set of constants, and a constant is a tuple of bytes. Sub-values take bytes of each tuple (`getIVSSubVal`). Merge is union, and it becomes overdef past `PBMAX`.
- **`IntervalMap` coalescing.** `ImprovedValSetMulti`'s map is an LLVM `IntervalMap`. Its `insert` joins the new extent with a neighbour that touches it and holds an equal `ImprovedValSetSingle` (`IMInsert`). This applies to `replaceRangeWithPB(s)` and to the install loop of `mergeStores` (`IMInsertAll`, line 2084). The joined extent keeps the value, so two adjacent extents each holding the one-byte constant 1 become one two-byte extent holding that one-byte constant.
- **Narrow constants.** `ReadDataFromGlobal` leaves the bytes past the end of a constant at the zero its buffer was initialised with (`ByteOf`). `getIVSSubVal`, `addIVSToPartialVal` and `coerceToType` (`CoerceToType`, through `convertToBytes`) all read a narrower constant this way. A constant of the loaded width is left unchanged. `extractAggregateMemberAt` (LLVM, outside this tree) is taken to extract only a whole constant, so a sub-range is built from bytes. `ReadDataFromGlobal` reads an `UndefValue` as zero bytes, as LLVM's does. A constant stored in the model may therefore hold the byte 0.
- **One instruction per block.** Sequences are obtained by chains of blocks.
- **Unmodelled code.** The `ImprovedValSetMulti` methods and the block walk are not in `src/`. Their definitions come from the spec and are marked `spec_modelled` in the map.
- **Undefined behaviour.** `LHSVals.back()` on an empty vector is undefined. `BackChoices` gives the outcomes of the comparison it feeds.

**Properties**
- `TypeOK`.
- `RefCountsExact`: every map's `refCount` and every Multi's `MapRefCount` equals the references really held, and nothing freed is still referenced.
- `WellFormedMulti`: extents are disjoint, and a Multi without `Underlying` covers its whole allocation.
- `Soundness` (checked by the violation runs only): in the running block, and in every block whose map a successor will still take, each concrete byte value is one the symbolic view allows.
- `LoadsForwardSound` (checked by `bs_coalesce`): a load of one or two bytes through one or two pointers, forwarded in a block whose map still matters, either gives up (overdef) or offers, for each byte, every defined value the byte can concretely hold. An undefined byte may be read as anything.
- `Isolation`: a map left for successors does not change until the last of them takes it.

### `PointerBase.tla`: the pointer value-set lattice

**State**
- `acc`: a `PointerBase`, an ordered sequence of `ImprovedVal`s plus `Overdef`.
- `inputs`: the ghost set of pointers merged in.
- `crashed`: records that the undefined `erase(end())` crashed.

**Actions**
- `MergeStep`: one `PointerBase::merge` of a one-pointer set.

**Operators**
- `Insert`, `RemoveValsWithBase` and `Generalise` translate `insert` and `removeValsWithBase`. The loop index is kept exactly as the code's iterator.

**Properties**
- `CoversInputs`: the merged set still covers every pointer merged in.

No run of the project checks this module. `MCPointerBase_covers.cfg`
reproduces the `removeValsWithBase` slip: `tlc -config
MCPointerBase_covers.cfg MCPointerBase` finds `CoversInputs` violated when
`{A+?}` is merged into `{A+0, B+0}`, because `B+0` is lost. It is recorded
as a hazard.

### `DSE.tla`: the dead-store tracker

**State**
- `ts`: one `TrackedStore` record per store instruction `<<block, position>>`: `out` = `outstandingBytes`, `needed` = `isNeeded`, and whether it is not yet created, live or deleted.
- `dead`: the store instructions `derefBytes` has killed (`DSEInstructionDead`).
- `ls`: the pool of `DSELocalStore`s (`rc` = `refCount`, `m` = the one allocation's map, `a` = whether its `DSEMapPointer` holds the `TrackedAlloc` `A`).
- `ta`: the allocation's `TrackedAlloc`: `nRefs`, `isNeeded`, whether it is live or deleted, whether `dropReference` declared it dead (`DSEInstructionDead`), and its kind (global, stack or heap).
- `bb`: each block's `dseStore`.
- `pc`, `phase`, `prog`, `ip`: the walk of `tryKillStoresInLoop`. Each block's instruction sequence is chosen from a constant set when the block is entered.
- `pass`, `progOf`: the pass over the unbounded loop (1, then 2), and the instructions each block ran, so that the second pass runs the same ones.
- Two ghosts:
  - `last[b][k]`: the stores that may have written byte `k` last when `b` ends, on the concrete paths;
  - `readFrom`: every store some instruction may read.

**Actions**
- `StartFunction`: `tryKillStores` for the root call, with a fresh store.
- `EnterBlock`: `doDSEStoreMerge`, then the path-condition check (`setAllNeededTop` and `getEmptyMap`).
- `EnterHeader`: the loop header takes, with no merge, the preheader's map in the first pass and the latch's in the second (`tryKillStoresInUnboundedLoop`); then the path-condition check.
- `Step`: one `DSEAnalyseInstruction`. The instructions are:
  - a store;
  - a load;
  - a memcpy of unknown length (its source read);
  - a known system call with int and pointer arguments;
  - an unknown call;
  - an alloca or a malloc, which gives the block's map a new `TrackedAlloc` (`NewAlloc`);
  - a free (`SF_FREE`), which releases the block's map and its `A` (`FreeW`).
- `LeaveBlock`: one reference per successor, then, at a block with no successors whose allocation is on the stack, the frame is popped (`PopStackFrame`: the map and `A` are released), then the block's own reference is dropped unless it returns. In the first pass a loop block gives none to an exit (`latchToHeader`), in the second the latch gives none to the header (`RefSuccs`). After the loop's last block in the first pass the walk goes back to the header (`LoopEnd`).

The loop (`LoopBlocks`, `Header`, `Latch`, `Preheader`) is one unbounded loop, contiguous in `Order`. In its second pass `DSEAnalyseInstruction` is called with `disableWrites`, and returns at once for everything but loads and memcpys (`DSE.cpp:715`). The ghost `last` of the header in the second pass is the union of the preheader's and the latch's: with per-byte writer sets the latch's set after one iteration is already the fixpoint of every later one.

**Operators**
Each translates the function it is named after, or the loop of it named in the map:
- `GCStores`, `getReadableCopy` (`CopyLS` also takes a reference on `A`), `release` (`ReleaseA`);
- `TrackedAlloc::dropReference` (`DropAlloc`), and the allocation side of `mergeStores` (`MergeAlloc`) and `DSEHandleRead` (`ReadAlloc`);
- `useWriters` (`UseWriters`), `setWriter` (`SetWriter`);
- `DSEHandleRead`, `DSEHandleWrite`, `DSEAnalyseInstruction`, `setAllNeededTop`;
- `mergeStores`, by phase: `GCMap`, `SplitStart`, `GapLoop`, `OverLong`, `AddFrom`.

**Abstractions**
- **`IntervalMap`** is not in `src/`. It is modelled from LLVM's definition, while the map is a root leaf, as a sorted sequence (`Find`, `LeafInsert`). `insert` coalesces the new interval with an adjacent one holding an equal value. An iterator is a leaf offset, so an iterator kept across an insert reads whatever the leaf holds at that offset.
- **The `DSELocalStore` methods and `DSEMerger`** are not in `src/`. Their definitions come from the spec and the `LocalStoreMap` analogues, and are marked `spec_modelled`. The merger takes over the first predecessor's store, merges each further one into a writable copy, and drops it.
- **One allocation.** It is a global (no `TrackedAlloc`) or is created by the entry block's alloca or malloc. Stores before the creating instruction in the same block are stores to the same object. The function's `frameSize` is -1 unless its code has an alloca. An absent map is an empty one. Committed allocations (`isCommitted`) are not modelled.
- **Undefined behaviour.** The final loop of `mergeStores` reads `toit.stop()` at `end()`. The model takes the outcome where that loop ends.

**Properties**
- `TypeOK`: this includes what `IntervalMap` requires of every live map: non-empty intervals inside the allocation, sorted and disjoint, each naming a store once.
- `OutstandingExact`: every `outstandingBytes` equals the bytes of the live maps naming the store (spec §4.8). A store is deleted exactly when no map names it.
- `DeadStoresUnread`: no killed store is ever read on any path.
- `ImplementsContract`: the walk implements `DSEContract` (below) under the mapping that hides `ts`, `ls` and `bb`.
- `AllocRefsExact`: the `TrackedAlloc`'s `nRefs` equals the number of live maps holding it as `A`, and it is deleted exactly when that number reaches zero. A merge that adopts `A` without counting it, or a read or free that drops it twice, breaks it.
- `DeadAllocStoresDead`: when `dropReference` declares the allocation dead (it was never needed), every store created in it has been killed. A path-condition check or call that reads the map but does not mark `A` needed would delete an allocation whose stores are still needed.
- `MapsReleased` (liveness): once the walk ends, every map still allocated is held only by the returning blocks that point at it, once each.

### `DSEContract.tla`: what DSE promises

An abstract specification of the same walk with the maps, counts and
`TrackedStore`s gone. Its state is the walk position (`blk`, `stage`,
`code`, `at`), per-block last writers per byte (`writers`), the stores read
(`reads`), the stores declared dead (`killed`) and the loop pass (`round`).
`Start`, `Enter`, `Exec` and `Leave` move the walk as `DSE` does. Any of them may also declare dead a
store that, after the step, has not been read and is the last writer of no
open block. A block is open when a successor has not been entered yet, when
it is running, or when it returns its map to the caller. Between the two walks
over the loop, the latch and the loop blocks with an exit stay open until
the second walk re-enters them: later iterations continue from them.

`DSE` instantiates it with `blk <- pc`, `stage <- phase`, `code <- prog`,
`at <- ip`, `writers <- last`, `reads <- readFrom`, `killed <- dead`,
`round <- pass` and `frame <-` "the entry block has an alloca".
A free ends the allocation: after it no byte has a last writer. With an
alloca (`frame`), a returning block hands nothing to the caller, so it is
not open.
The contract is stronger than `DeadStoresUnread`. A store killed while a
returning block still holds it breaks the contract, although no later
instruction of the function reads it: the caller's `doDSECallMerge` would.

### `SaveSplit.tla`: commit functions

**State**
- Fixed by the analyses that run before: the context tree (`Ctxs`, `Kind`, `Peels`, `Iters`, `Sites`, `Callers`), block scopes, residual counts and the objects each block or argument uses (`Uses`, `ArgUses`, `Owner`).
- Left open, because they come from earlier phases and the model tries every value:
  - `mustOOL` (`mustCommitOutOfLine`);
  - `iaOn` (`isEnabled` of each call site);
  - `peel` (whether each peel attempt is terminated);
  - `order` (the order of the call sites in each context).
- Written by the phase: `commitF` (each inline context's `CommitF`), `globalised` (the objects given a global), and `phase`.

**Action.** `SaveSplitPhase` is the whole phase, done in the order the code
runs it:
1. `findSaveSplits` (`SaveSplits`, `SplitCommits`);
2. `inheritCommitFunction` (`Inherit`);
3. `findNonLocalPointers` (`FindNonLocalPointers`).

The walks are recursive operators. `ScanFrom` and `SkipFrom` translate the
block loop of both walks, with the skip test as written
(`getBBInvar(i)->naturalScope->contains(BBI->naturalScope)`).

**Abstractions.**
- A block's residual count is one number.
- An object is a model value.
- Shared `InlineAttempt`s (several `Callers`) are part of the tree. `Init` assumes that the context of the first caller is walked, which the sharing code (not in the repository) would have to ensure.

**Properties**
- `TypeOK`.
- `CommitFunctionsConsistent`: every walked context has a commit function. A split context has its own. Every other context has that of its first caller's function.
- `NonLocalGlobalised`: every object used by a block, or passed as an argument, is made global when the function that owns it is committed to a different function. The blocks counted are the ones a correct skip leaves in (`OwnBlocks`, with the containment of `DSE.cpp:1019`).
- `SplitBound`: every context that is not split commits no more than `SPLIT_THRESHOLD` instructions into its parent.

### `Commit.tla`: the commit of the control-flow graph

**State**
- Fixed by the analyses that run before, as constants: the context tree (`Ctxs`, `Kind`, `Fn`, `LoopOf`, `Parent`, `Peels`, `Iters`, `CallsIn`, `Vararg`) and the per-function CFG (`Scope`, `Succs`, loop `Header`, `Latch`, `Preheader`).
- Left open, and tried at every value: `iaOn` and `paOn` (`isEnabled`), and `alive` (`succsAlive`) for the blocks `AliveChoice` names.
- Derived in `Init` from those by a reachability analysis that is not in this tree (`Analysed`, `Finished`): `bbs`, the `ShadowBB`s each context has, and `terminated`.
- Written by the phases: `bbs` (by `prepareCommit`), `cfg` (the blocks `commitCFG` creates, each with its function) and `code` (what `commitInstructions` emits: filled blocks, branches and PHIs).

**Actions.** `PrepareCommit`, `CommitCFGPhase` and
`CommitInstructionsPhase` are the three walks, in the order the driver runs
them. Each is a recursive operator that translates the code's block loop:
- `CFGFrom` is the loop of `commitCFG`, with the enter test and the skip test (`CFGSkips`).
- `CLI` is `commitLoopInstructions`. It returns where the index ends, as the code's `uint32_t& i` does.
- `EmitCalls`, `Terminator`, `SuccBB`, `Falling`, `PhiSource` and `Populate` translate `emitCall`, `emitTerminator`, `getSuccessorBB`, `getBBFalling`, `PeelIteration::emitPHINode` and `populatePHINode`.

**Abstractions.** Only the control flow is kept. A block is named
`<<context, index>>`, and a call's return block is `<<callee, 0>>`.
Instruction values, synthesised pointers, VFS calls, PHI values and
arguments build IR operands, which no property here depends on.

**Properties**
- `TypeOK`: every created block lies in the root function or in a vararg clone.
- `CommitWalksAgree`: the blocks `commitInstructions` fills are exactly the non-return blocks `commitCFG` created.
- `BranchesResolve`: every emitted branch goes from a created block to a created block of the same function. This is the `release_assert`s of `emitTerminator`, plus no branch between functions.
- `PhisMatchPreds`: every loop-header PHI names exactly the blocks whose emitted branches reach it. Both sides are `committedTail`, which inlined calls move.

### `AliasQueries.tla`: alias queries on value sets

**State.** `query` is the input, a record with the operation (`aliasSVs`
or `isNoAliasPBs`), two value sets and two access sizes; `result` starts
`pending`. A value set has the flags `getImprovedValSetSingle` and the
code test (initialised, `Overdef`, `SetType`) and its `ImprovedVal`s, each a
`ShadowValue` (`t`: other, arg, gv or inst; for inst, the context) and an
offset, `LLMax` standing for `LLONG_MAX`.

**Actions.** `AliasSVs` and `IsNoAliasPBs` each answer the query in one
step. The code is translated into operators:
- `UniqueNonNull` and `MustAliasIfStoredAndLoaded` for `getUniqueNonNullIV` and `PBsMustAliasIfStoredAndLoaded`;
- `CtxContains` (RECURSIVE) and `BasesAlias` for `ctxContains` and `basesAlias`;
- `TryResolveSingles`, `TryResolveValues` and `TryResolveBase` for the three forms of `tryResolveImprovedValSetSingles`, with `Disjoint` the interval test;
- `AliasSVsResult` for the fallback of `aliasSVs`. LLVM's alias analysis is not in this repository, so its answer is the opaque `global`.

**Reference.** Concrete objects and bytes. A non-instruction base is one
object. An instruction base of context `c` is one object per context that
runs in `c`'s frame: `c` itself and the peeled iterations below it with no
`InlineAttempt` between (`Runs`, the reflexive transitive closure of the
parent relation). A disabled `PeelAttempt` is committed as the parent's
residual loop, so the parent's value stands for the iterations' executions
too. A vague offset is any byte of the object, and an unknown size reaches
to the object's end.

**Properties**
- `TypeOK`: `aliasSVs` never answers MayAlias itself, and `isNoAliasPBs` answers only NoAlias or not.
- `NoAliasSound`: a NoAlias answer means that no byte either access may touch is touched by the other.
- `PartialOverlaps`: a PartialAlias answer means that the two accesses can overlap.
- `MustAliasSound`: a MustAlias answer means that, for every choice of one instance per base shared by both sides, every non-null pointer of one side equals every one of the other's.

`spec.md` 4.7 says the pair loop gives MayAlias for intervals that may
overlap; the code (line 687) returns PartialAlias. The model follows the
code. `PartialOverlaps` is stated for what the code returns.

## Runs

| Run | Expect | Shows |
|---|---|---|
| `bs_diamond` | pass (8281 states) | On a nested diamond with two `CERTAIN` blocks, every combination of writes keeps refcounts exact, frees nothing still referenced, and keeps Multis well formed. The contents are not claimed sound here: the diamond stores equal bytes side by side, which the code coalesces (`bs_coalesce`). The writes cover every kind, including a clobber at the inner join, a read-only call, annotated library calls of known and unknown size, and memcpys of one byte (into a base store, into a Multi, and before a partial write) and of unknown length. The run covers COW breaks, chains of Multis, `getCommonAncestor`, all three sweep cases, commits to base and `getEmptyMap`. |
| `bs_clobber_partial` | violation of `Soundness` | A partial store after a clobber reads stale base bytes. |
| `bs_chains` | violation of `Soundness` | `getCommonAncestor` mispairs ancestors of chains of different lengths, and the merge drops a written value. |
| `bs_shared_transfer` | violation of `Soundness` | `visit` erases entries from a map another successor still shares. |
| `bs_clobber_arm` | violation of `Isolation` | `getEmptyMap` returns a shared empty map, and the clobber flag lands on the sibling's map too. |
| `bs_coalesce` | violation of `LoadsForwardSound` | `p[0] = 1; p[1] = 1` in a block that is not `CERTAIN` leaves one extent `[0, 2)` holding the one-byte constant 1. A two-byte load is forwarded as `<1, 0>`, and a load of `p[1]` as 0. |
| `dse_diamond` | pass (21725 states) | Over a diamond whose left arm may free the allocation and branch to an exit block with a path condition, followed by a loop of two blocks walked in both passes, all choices of stores, loads, memcpy, system calls, unknown calls, an allocation (global, alloca or malloc) and a free keep the maps well formed, the byte counts and the `TrackedAlloc`'s `nRefs` exact, and kill no store that is read. An allocation is declared dead only when all its stores are dead. The walk implements `DSEContract`, and ends with only the returning block holding a map. The run covers COW copies, GC, punching writes, gap filling, `release` at the exit arm, `getEmptyMap`, and a load in the second pass reading a store of the first. The allocation dies at a free, or at the frame pop of the returning block. |
| `dse_coalesce` | violation of `DeadStoresUnread` | `IntervalMap` coalescing undoes the splits of `mergeStores`, so a store of the finer map is dropped at the join and killed, though the join reads it. |
| `ss_flat` | pass (3584 states) | In a tree with a peeled loop, calls from an iteration and an `InlineAttempt` shared by two callers, every choice of out-of-line flags, enabled sites, terminated peels and site orders gives each context a consistent commit function. Every object used across commit functions is made global, and no unsplit context commits more than the threshold. |
| `aa_sound` | pass (135594 states) | Every query over 81 value sets (every set of one or two of 12 pointers, plus an uninitialised, an overdef and a scalar set) and sizes {1, 2, unknown}: values of globals, arguments, null and instructions in five contexts (two inline, three peeled, one iteration nested below another), with vague offsets. No answer is unsound. |
| `commit_loop` | pass (1536 states) | The root has a loop with two peeled iterations. It has a call before the loop, a call in the latch of each iteration and of the residual loop, and a vararg call at the exit. Over every enabled/disabled choice and every live-edge choice of the iterations, the walks agree, every branch resolves within its function, and every header PHI matches its predecessors. The choices cover terminated and unterminated loops, residual loops, disabled peels and inlined returns. |
| `ss_nested` | violation of `NonLocalGlobalised` | In an iteration of loop `o` holding an unrolled loop `i`, the skip loop steps over `o`'s latch. A buffer of a split call used there gets no global. |

Each violation is a finding in `PROJECT.json`, with the line where it bites.
Each property of the passing run has a mutant in `PROJECT.json`: a
plausible bug in the code operator it guards. TLC finds each mutant:
- an unfreed map (`TypeOK`);
- a COW copy that keeps the old count (`RefCountsExact`);
- an `Underlying` decision that ignores gaps (`WellFormedMulti`);
- a `setWriter` that does not trim a straddling interval (`TypeOK`);
- a merge that adds a store without counting its bytes (`OutstandingExact`);
- a `useWriters` that does not mark the stores it reads needed (`DeadStoresUnread`);
- an `EndBlock` that never drops a map (`MapsReleased`);
- an `EndBlock` that drops the returning block's map too (`ImplementsContract`; `DeadStoresUnread` misses it);
- a split that names the clone by the function instead of the context (`TypeOK`);
- an inherit that overwrites a context's own commit function (`CommitFunctionsConsistent`);
- a `findNonLocalPointers` that ignores arguments (`NonLocalGlobalised`);
- a residual count that leaves out the inlined calls (`SplitBound`);
- a `commitCFG` that commits every callee into its own function (`TypeOK`);
- a `commitCFG` skip test that ignores `isEnabled` (`CommitWalksAgree`);
- a `getSuccessorBB` that enters the iterations of a disabled `PeelAttempt` (`BranchesResolve`);
- a header PHI that names the preheader's head instead of its tail (`PhisMatchPreds`);
- an `aliasSVs` that returns MayAlias without asking LLVM's analysis (`TypeOK`);
- a `ctxContains` that ignores the parent chain (`NoAliasSound`);
- a `basesAlias` that ignores contexts (`PartialOverlaps`);
- a must-alias test that accepts vague offsets (`MustAliasSound`).

Three violations found while modelling are not kept as runs.
`LoadForward.cpp:2048` calls `back()` on an empty extent list, which is
undefined. The model makes this a nondeterministic choice (`BackChoices`),
and the passing run fixes the defined outcome. With both outcomes allowed,
TLC finds `WellFormedMulti` violated on the `BackBlocks` CFG of
`MCBlockStore`. `DSE.cpp:519` computes `Offset + UnknownSize` in 64 bits,
which wraps to `Offset - 1`. With `Code <- WrapCode`, a memcpy of unknown
length from offset 1, TLC finds `DeadStoresUnread` violated: the store the
memcpy reads is killed. `DSE.cpp:868` returns from the system-call argument
loop at a non-pointer argument. With `Code <- SyscallCode`, `write(fd, buf, n)`
after a store to `buf`, TLC finds `DeadStoresUnread` violated: `buf` is
never marked read. Two loops break the two-pass walk of
`tryKillStoresInUnboundedLoop`. The first pass gives exits no map, and the
second has writes disabled and ignores calls. With `WhilePreds`/`WhileCode`,
a while loop leaving from its header, TLC finds `DeadStoresUnread` violated:
the store before the loop, overwritten in the body, is killed although the
zero-trip exit reads it. With `RotPreds`/`RotCallCode`, a call in the header
reading the body's store of the iteration before, TLC finds the same. The
hazard list in `PROJECT.json` records all these cases.

**Bounds.** These are enough because each bug needs only a handful of
steps, and the passing run still reaches every branch of the merge.
- One allocation of two bytes, and byte values {1, 2}. This allows partial writes, extents that split, and two distinct constants.
- `PBMAX` = 16, as in the code.
- Pools of 12 objects and 6 maps. These are never exhausted; the pool's `CHOOSE` would fail otherwise.
- CFGs of six to eight blocks (eight in the DSE diamond, two of them a loop).
- DSE: an allocation of three bytes, enough for an interval that straddles a write on both sides and for a gap between two intervals. Sequences of up to three instructions, and a pool of 12 local stores, so that a leaked map exhausts nothing before `MapsReleased` sees it. The loop is walked twice by the code whatever its trip count, so one loop of two blocks covers both passes, the second-pass header map, and a load of one iteration reading the store of the iteration before.
- SaveSplit: trees of four to seven contexts, each instruction counting one, with `SPLIT_THRESHOLD` = 2 in `ss_flat` standing for 50000. This lets both a split and an unsplit context occur in one tree. `ss_nested` uses a threshold of 10, so that only `mustCommitOutOfLine` splits.
- AliasQueries: five contexts, enough for an iteration nested below another, a sibling iteration, and an `InlineAttempt` that stops the parent chain. Objects of three bytes and sizes 1, 2 and unknown, so intervals can be apart, touch, overlap or reach the end; offsets 0, 1 and vague. Value sets of one or two pointers, with null. `LLMax` = 100 stands for `LLONG_MAX`: no offset plus size reaches it.
- Commit: a four-block function with one loop (preheader, header, latch, exit) peeled into two iterations, and five call sites. With a terminated and an unterminated outcome, this covers every case of `getSuccessorBB`: a latch into the next iteration or back to the parent, falling out of a loop, and entering the first iteration or the residual loop. It also covers both cases of `populatePHINode`. Branches have two targets, so a clone never meets a dead target.

**Deadlock.** No run checks deadlock. The walks really stop after the last block, and the commit stops after its third phase.

**Fairness.** Only `dse_diamond` checks a temporal property, and only it
assumes fairness: `FairSpec` is `Spec /\ WF_<<pc, phase, ip, pass>>(WalkStep)`.
`WalkStep` is the walk seen through its position: enter a block, run its
next instruction, leave it for the next block or go back to the loop
header. Every action's guard tests only `pc`, `phase`, `ip` and `pass`, and every action moves them as `WalkStep` says,
so this is weak fairness of the block loop. `tryKillStoresInLoop` is a
plain `for` loop over the blocks and their instructions, so a step that can
be taken is taken. Stating it on the position keeps TLC from evaluating the
stores to decide `ENABLED`, which `WF_vars(Next)` would make it do in every
state. `MapsReleased` needs this fairness; without it the walk may stutter
with references outstanding. The other modules check safety only.

**What the passing runs avoid.**
- The BlockStore diamond checks no property of the contents. Equal adjacent bytes occur in any program that stores them, and the coalescing then makes the store unsound (`bs_coalesce`). A diamond that avoided them would lose its copies (a one-byte copy always makes its destination equal to its neighbour), its merges of two values per byte and its undefined bytes, and would prove little. The diamond also avoids a clobber followed by a partial store in one block chain, which `bs_clobber_partial` shows unsound. A one-byte memcpy or library call is a partial store too, so the diamond has none after its clobber. With one allocation of two bytes, a whole-allocation memcpy would copy onto itself (undefined); a copy of several extents into a whole destination (`wso` false) is therefore not reached.
- The SaveSplit flat tree has no unrolled loop inside an unrolled iteration, the only shape where the reversed skip test bites (`ss_nested`).
- The commit configuration has one loop level and two-way branches only. A nested loop in the last, unprepared iteration and a switch with a dead target are listed as hazards.
- The DSE diamond writes single bytes before the join's first predecessor, so the to-map of its merge is never coarser than the from-map. It has no system call with a leading int, and no unknown-length read at a non-zero offset. Each of these kills a read store, as `dse_coalesce` and the two DSE cases above show. Its loop leaves only from the latch and calls nothing: an exit from another loop block, or a call in the loop, kills a read store (the two loop cases above).

## Not modelled yet (plan for later work)

1. **DSE, the rest.**
   - Several allocations in one function, and committed (`isCommitted`) allocations.
   - Committed stores.
   - `doDSECallMerge`.
   - Nested loops, and the iterations of terminated `PeelAttempt`s.
   - A run where `GCStores` meets two needed stores in one entry (this loses precision only).
2. **Remaining writers and reads in the symbolic store.**
   - The read-modify-write branch of `executeWriteInst` for sets of several precise pointers; memset (its `ScalarSplat` values need the splat paths of the reads, also not modelled), malloc, realloc, va_copy, va_start and read(); memcpy between two allocations or through pointer sets.
   - `doCallStoreMerge`.
   - `tryResolveLoadFromConstant`, and memset splats in `addIVSToPartialVal`.
   - Loop-header merges.
3. **An abstract memory specification** (per-block sets of possible contents), with `BlockStore` shown to refine it through `View`. This needs the bugs above to be excluded by configuration, or fixed.
4. **Pure algorithms as operators.** `PartialVal::combineWith`, checked against a reference definition.
5. **`PointerBase`.** The scalar and function/null merge paths, and a run reaching the `PBMAX` generalisation. The module is checked by no run: it has only the `removeValsWithBase` reproduction.

`SaveSplit`'s per-instruction residual count (`isCommitted` and friends) is
a constant. Of `Save.cpp`, the value side of emission is not modelled
(instructions, operands, synthesised pointers, VFS calls, loop
invariants). The shadow IR declarations,
`LibCallAliasAnalysis.h` (a declaration) and `test/wc.c` (an input program)
are not modelled, for the reasons given in `PROJECT.json`.
