------------------------------- MODULE MCDSE -------------------------------
(***************************************************************************)
(* Instances of DSE for TLC: one global of two or three bytes and small   *)
(* CFGs, one with a loop, whose blocks hold short instruction sequences. *)
(***************************************************************************)
EXTENDS DSE

St0(off, len) == [op |-> "store", off |-> off, len |-> len]
Ld(off, len) == [op |-> "load", off |-> off, len |-> len]
Memcpy(off) == [op |-> "memcpy", off |-> off]
Ptr(off) == [k |-> "ptr", off |-> off]
IntArg == [k |-> "int", off |-> 0]
Call(args) == [op |-> "call", args |-> args]
Opaque == [op |-> "opaque"]
Alloca == [op |-> "alloca"]
Malloc == [op |-> "malloc"]
Free == [op |-> "free"]

(***************************************************************************)
(* A diamond with an early exit, then a rotated loop:  E -> {L, R},       *)
(* L -> {U, J}, R -> J, J -> H, H -> B, B -> {H, X}.  X returns; U ends in *)
(* unreachable after an exit call, so its map is dropped.  E and L write  *)
(* single bytes, so the to-map of J's merge is never coarser than the     *)
(* from-map (run dse_coalesce shows that case); R may write all three     *)
(* bytes, which J's merge fills into gaps.  H and B are an unbounded loop *)
(* with preheader J, header H and latch B, left only from the latch: a    *)
(* store of one iteration is read by the next, or overwritten by it.      *)
(* The allocation is a global, an alloca or a malloc made first in E;     *)
(* L may free it (undefined for the global and the alloca, but DSE.cpp     *)
(* releases the map all the same), so that U's path-condition check may   *)
(* or may not find the allocation live.                                    *)
(***************************************************************************)
DBlocks == {"E", "L", "R", "U", "J", "H", "B", "X"}
DOrder == << "E", "L", "U", "R", "J", "H", "B", "X" >>
DPreds == [b \in DBlocks |->
              CASE b = "E" -> << >>
                [] b \in {"L", "R"} -> << "E" >>
                [] b = "U" -> << "L" >>
                [] b = "J" -> << "L", "R" >>
                [] b = "H" -> << "J", "B" >>
                [] b = "B" -> << "H" >>
                [] b = "X" -> << "B" >>]
DReturns == {"X"}
DCode == [b \in DBlocks |->
             CASE b = "E" -> {<< St0(0, 1), St0(2, 1) >>, << Alloca, St0(0, 1) >>,
                              << Malloc, St0(0, 1), St0(2, 1) >>}
               [] b = "L" -> {<< >>, << St0(0, 1) >>, << Ld(0, 1), St0(1, 1) >>,
                              << St0(1, 1), Free >>}
               [] b = "R" -> {<< >>, << St0(0, 3) >>, << Opaque, St0(0, 1) >>}
               [] b = "U" -> {<< St0(0, 1) >>, << Call(<< Ptr(0), Ptr(1) >>) >>}
               [] b = "J" -> {<< St0(1, 1) >>, << Ld(1, 1) >>, << Memcpy(0) >>}
               [] b = "H" -> {<< >>, << St0(0, 1) >>, << Ld(2, 1) >>}
               [] b = "B" -> {<< Ld(1, 1), St0(1, 1) >>, << St0(2, 1) >>}
               [] b = "X" -> {<< >>, << Ld(0, 3) >>}]

(***************************************************************************)
(* Bytes written apart on one arm and together before the branch:         *)
(* E -> {A, B}, A -> J, B -> J; J returns.  E writes both bytes, A leaves *)
(* them, B writes byte 0 and byte 1 separately.  J takes A's map first,   *)
(* merges B's into it, and reads byte 0.                                   *)
(***************************************************************************)
GBlocks == {"E", "A", "B", "J"}
GOrder == << "E", "A", "B", "J" >>
GPreds == [b \in GBlocks |->
              CASE b = "E" -> << >>
                [] b \in {"A", "B"} -> << "E" >>
                [] b = "J" -> << "A", "B" >>]
GReturns == {"J"}
GCode == [b \in GBlocks |->
             CASE b = "E" -> {<< St0(0, 2) >>}
               [] b = "A" -> {<< >>}
               [] b = "B" -> {<< St0(0, 1), St0(1, 1) >>}
               [] b = "J" -> {<< Ld(0, 1) >>}]

(***************************************************************************)
(* One returning block, E, whose instruction sequences each store, hand   *)
(* the bytes to a reader, and store again.                                  *)
(***************************************************************************)
OneBlocks == {"E"}
OneOrder == << "E" >>
OnePreds == [b \in OneBlocks |-> << >>]
OneReturns == {"E"}
\* write(fd, buf, n): a known system call whose first argument is an int.
SyscallCode == [b \in OneBlocks |->
                   {<< St0(0, 2), Call(<< IntArg, Ptr(0), IntArg >>), St0(0, 2) >>}]
\* memcpy(dst, &g[1], n) with n unknown, emitted for real.
WrapCode == [b \in OneBlocks |-> {<< St0(1, 1), Memcpy(1), St0(1, 1) >>}]

(***************************************************************************)
(* Two loops for the first iteration's exits: a while loop E -> H,        *)
(* H -> {B, X}, B -> H left from its header, whose first test may fail    *)
(* before B runs; and a rotated loop H -> B, B -> {H, X} whose body calls *)
(* a function that reads the store of the iteration before.               *)
(***************************************************************************)
WBlocks == {"E", "H", "B", "X"}
WOrder == << "E", "H", "B", "X" >>
WhilePreds == [b \in WBlocks |->
                  CASE b = "E" -> << >> [] b = "H" -> << "E", "B" >>
                    [] b = "B" -> << "H" >> [] b = "X" -> << "H" >>]
WhileCode == [b \in WBlocks |->
                 CASE b \in {"E", "B"} -> {<< St0(0, 1) >>} [] b = "H" -> {<< >>}
                   [] b = "X" -> {<< Ld(0, 1) >>}]
RotPreds == [b \in WBlocks |->
                CASE b = "E" -> << >> [] b = "H" -> << "E", "B" >>
                  [] b = "B" -> << "H" >> [] b = "X" -> << "B" >>]
RotCallCode == [b \in WBlocks |->
                   CASE b = "E" -> {<< >>} [] b = "H" -> {<< Call(<< Ptr(0) >>) >>}
                     [] b \in {"B", "X"} -> {<< St0(0, 1) >>}]

====
