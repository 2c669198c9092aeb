----------------------------- MODULE DSEContract -----------------------------
(***************************************************************************)
(* What dead-store elimination promises, with the maps and counts of      *)
(* DSE.cpp hidden.  The walk visits the blocks of a function in its       *)
(* order and runs their instructions.  For every block it knows, per      *)
(* byte, the stores that may have written that byte last.  A store may   *)
(* be declared dead only when no instruction has read it and no block    *)
(* that may still be continued from (an entered block with a successor    *)
(* not yet entered, the block running now, or a block that returns to    *)
(* the caller) may have it as a last writer of any byte.  An unbounded    *)
(* loop is walked twice: once for its first iteration, once for all the  *)
(* later ones, whose header starts from the writers of the preheader and *)
(* the latch.  Until the second walk reaches them, the latch and the      *)
(* loop blocks with an exit stay open: their first iteration continues.   *)
(* A free ends the allocation: no store is a last writer after it.  When  *)
(* the allocation is an alloca (frame), returning hands nothing to the    *)
(* caller: the frame is popped.                                            *)
(***************************************************************************)
EXTENDS Integers, Sequences, FiniteSets

CONSTANTS Size, Blocks, Entry, Order, Preds, Returns, Code, PathCond,
          LoopBlocks, Header, Latch, Preheader

VARIABLES
    blk,       \* position of the walk in Order
    stage,     \* "enter" before a block's merge, "exec" while it runs
    code,      \* the instructions of the running block
    at,        \* the next of them
    writers,   \* writers[b][k]: stores that may have written byte k last in b
    reads,     \* stores some instruction may have read
    killed,    \* stores declared dead
    round,     \* 1, then 2 for the second walk over the loop
    frame      \* the allocation is an alloca of the function's frame

Bytes == 0 .. Size - 1
SIds == {<<b, j>> : b \in Blocks, j \in 1 .. 4}
Succs(b) == {s \in Blocks : \E i \in DOMAIN Preds[s] : Preds[s][i] = b}
Pos(b) == CHOOSE i \in DOMAIN Order : Order[i] = b
NoWriters == [k \in Bytes |-> {}]

\* The bytes an instruction may read, and those a store writes.
Reads(ins) ==
    CASE ins.op = "load"   -> {k \in Bytes : ins.off <= k /\ k < ins.off + ins.len}
      [] ins.op = "memcpy" -> {k \in Bytes : ins.off <= k}
      [] ins.op = "call"   -> {k \in Bytes : \E i \in DOMAIN ins.args :
                                 ins.args[i].k = "ptr" /\ ins.args[i].off <= k}
      [] ins.op = "opaque" -> Bytes
      [] OTHER -> {}
Writes(ins) ==
    IF ins.op = "store" THEN {k \in Bytes : ins.off <= k /\ k < ins.off + ins.len}
    ELSE {}
After(ins, b, j, k, w) ==
    CASE k \in Writes(ins) -> {<<b, j>>}
      [] ins.op = "free" -> {}
      [] OTHER -> w

Entered(b) == Pos(b) < blk \/ (Pos(b) = blk /\ stage # "enter")
LoopOpen(b) ==
    /\ b \in LoopBlocks
    /\ b = Latch \/ Succs(b) \ LoopBlocks # {}
    /\ IF round = 1 THEN Entered(b) ELSE ~Entered(b)
\* A block whose contents the rest of the walk, or the caller, may see.
Open(b) ==
    \/ LoopOpen(b)
    \/ /\ Entered(b)
       /\ \/ b \in Returns /\ ~frame
          \/ Pos(b) = blk /\ stage = "exec"
          \/ \E s \in Succs(b) : ~Entered(s)
Visible == UNION {writers[b][k] : b \in {c \in Blocks : Open(c)}, k \in Bytes}

\* A step may declare dead any stores that, once it is taken, have not
\* been read and are last writers of no open block.
Kill ==
    /\ killed \subseteq killed'
    /\ \A s \in killed' \ killed : (s \notin reads /\ s \notin Visible)'

Init ==
    /\ blk = 1 /\ stage = "enter" /\ code = << >> /\ at = 1
    /\ writers = [b \in Blocks |-> NoWriters]
    /\ reads = {}
    /\ killed = {}
    /\ round = 1
    /\ frame = FALSE

Start ==
    /\ blk <= Len(Order) /\ stage = "enter" /\ Order[blk] = Entry
    /\ code' \in Code[Entry] /\ stage' = "exec" /\ at' = 1
    /\ frame' = \E i \in DOMAIN code' : code'[i].op = "alloca"
    /\ UNCHANGED <<blk, writers, reads, round>>
    /\ Kill

\* A join sees the last writers of all its predecessors, the loop header
\* those of the preheader and, after the first iteration, of the latch; a
\* path-condition check may read all of them.
Into(b, k) ==
    IF b = Header
    THEN writers[Preheader][k] \cup (IF round = 2 THEN writers[Latch][k] ELSE {})
    ELSE UNION {writers[Preds[b][i]][k] : i \in DOMAIN Preds[b]}
Enter ==
    LET b == Order[blk] IN
    /\ blk <= Len(Order) /\ stage = "enter" /\ b # Entry
    /\ writers' = [writers EXCEPT ![b] = [k \in Bytes |-> Into(b, k)]]
    /\ reads' = reads \cup (IF b \in PathCond
                            THEN UNION {writers'[b][k] : k \in Bytes} ELSE {})
    /\ code' \in Code[b] /\ stage' = "exec" /\ at' = 1
    /\ UNCHANGED <<blk, round, frame>>
    /\ Kill

Exec ==
    LET b == Order[blk] IN
    /\ blk <= Len(Order) /\ stage = "exec" /\ at <= Len(code)
    /\ reads' = reads \cup UNION {writers[b][k] : k \in Reads(code[at])}
    /\ writers' = [writers EXCEPT ![b] = [k \in Bytes |-> After(code[at], b, at, k, @[k])]]
    /\ at' = at + 1
    /\ UNCHANGED <<blk, stage, code, round, frame>>
    /\ Kill

\* After the loop's last block the first time, back to its header.
Leave ==
    /\ blk <= Len(Order) /\ stage = "exec" /\ at > Len(code)
    /\ IF round = 1 /\ Order[blk] \in LoopBlocks /\ \A c \in LoopBlocks : Pos(c) <= blk
       THEN blk' = Pos(Header) /\ round' = 2
       ELSE blk' = blk + 1 /\ round' = round
    /\ stage' = "enter"
    /\ UNCHANGED <<code, at, writers, reads, frame>>
    /\ Kill

Next == Start \/ Enter \/ Exec \/ Leave

Spec == Init /\ [][Next]_<<blk, stage, code, at, writers, reads, killed, round, frame>>

====
