---------------------------- MODULE MCBlockStore ----------------------------
(***************************************************************************)
(* Instances of BlockStore for TLC: one allocation of two bytes, byte     *)
(* values 1 and 2, and small acyclic CFGs with per-block instruction sets. *)
(***************************************************************************)
EXTENDS BlockStore

Ins(op, off, c) == [op |-> op, loc |-> "x", off |-> off, c |-> c]
Skip == Ins("skip", 0, << >>)
Call(fn, off, n) == [op |-> "call", fn |-> fn, loc |-> "x", off |-> off, c |-> << >>, n |-> n]
Clobber == Call("unknown", 0, UnknownSize)
Store(off, c) == Ins("store", off, c)
Vague(c) == Ins("vague", 0, c)
Copy(off, src, n) == [op |-> "copy", loc |-> "x", off |-> off, c |-> << >>, src |-> src, n |-> n]

(***************************************************************************)
(* A conditional diamond:  E -> {N, X}, N -> {L, R}, L -> J, R -> J,       *)
(* J -> X.  E and X lie on every path (CERTAIN); N, L, R, J do not.        *)
(***************************************************************************)
DiamondBlocks == {"E", "N", "L", "R", "J", "X"}
DiamondOrder == << "E", "N", "L", "R", "J", "X" >>
DiamondPreds == [b \in DiamondBlocks |->
                    CASE b = "E" -> << >>
                      [] b = "N" -> << "E" >>
                      [] b = "L" -> << "N" >>
                      [] b = "R" -> << "N" >>
                      [] b = "J" -> << "L", "R" >>
                      [] b = "X" -> << "J", "E" >>]
DiamondCertain == {"E", "X"}
DiamondCode == [b \in DiamondBlocks |->
                    CASE b = "E" -> {Skip, Store(0, <<1, 1>>), Copy(1, 0, 1), Call("readonly", 0, 0)}
                      [] b = "N" -> {Skip, Store(0, <<1>>), Store(1, <<2>>), Vague(<<2>>), Copy(0, 1, 1), Call("lib", 1, 1)}
                      [] b = "L" -> {Skip, Store(0, <<2>>), Store(1, <<2>>), Store(0, <<2, 1>>), Copy(1, 0, 1)}
                      [] b = "R" -> {Skip, Store(1, <<1>>), Store(0, <<1>>), Copy(1, 0, UnknownSize), Call("lib", 0, UnknownSize)}
                      [] b = "J" -> {Skip, Store(1, <<2>>), Clobber}
                      [] b = "X" -> {Skip, Store(0, <<2, 2>>)}]

(***************************************************************************)
(* Two one-byte stores of the same value:  E -> {N, X}, N -> M, M -> X;    *)
(* E and X are CERTAIN.  N stores 1 at byte 0 and M stores 1 at byte 1,    *)
(* both into the Multi N's map holds.                                      *)
(***************************************************************************)
PairBlocks == {"E", "N", "M", "X"}
PairOrder == << "E", "N", "M", "X" >>
PairPreds == [b \in PairBlocks |->
                 CASE b = "E" -> << >> [] b = "N" -> << "E" >>
                   [] b = "M" -> << "N" >> [] b = "X" -> << "M", "E" >>]
PairCertain == {"E", "X"}
PairCode == [b \in PairBlocks |->
                CASE b = "N" -> {Store(0, <<1>>)}
                  [] b = "M" -> {Store(1, <<1>>)}
                  [] OTHER -> {Skip}]

(***************************************************************************)
(* Clobber then partial store:  E -> C -> B, all CERTAIN.  E stores the   *)
(* allocation, C makes an unknown call, B stores one byte.                 *)
(***************************************************************************)
ChainBlocks == {"E", "C", "B"}
ChainOrder == << "E", "C", "B" >>
ChainPreds == [b \in ChainBlocks |->
                  CASE b = "E" -> << >> [] b = "C" -> << "E" >> [] b = "B" -> << "C" >>]
ChainCertain == {"E", "C", "B"}
ChainCode == [b \in ChainBlocks |->
                  CASE b = "E" -> {Store(0, <<2, 2>>)}
                    [] b = "C" -> {Clobber}
                    [] b = "B" -> {Store(0, <<1>>)}]

(***************************************************************************)
(* Delegation chains of different lengths meeting at a join:              *)
(*   S -> {N, X}, N -> {L, R}, R -> {R1, R2}, L -> J, R1 -> J, R2 -> X,    *)
(*   J -> X.  S stores the allocation, N writes byte 0, L overwrites it,  *)
(*   R and R1 write byte 1.                                                *)
(***************************************************************************)
ChainsBlocks == {"S", "N", "L", "R", "R1", "R2", "J", "X"}
ChainsOrder == << "S", "N", "L", "R", "R1", "R2", "J", "X" >>
ChainsPreds == [b \in ChainsBlocks |->
                   CASE b = "S" -> << >>
                     [] b \in {"N"} -> << "S" >>
                     [] b \in {"L", "R"} -> << "N" >>
                     [] b \in {"R1", "R2"} -> << "R" >>
                     [] b = "J" -> << "L", "R1" >>
                     [] b = "X" -> << "J", "R2", "S" >>]
ChainsCertain == {"S", "X"}
ChainsCode == [b \in ChainsBlocks |->
                   CASE b = "S" -> {Store(0, <<2, 2>>)}
                     [] b = "N" -> {Store(0, <<1>>)}
                     [] b = "L" -> {Store(0, <<2>>)}
                     [] b = "R" -> {Store(1, <<2>>)}
                     [] b = "R1" -> {Store(1, <<1>>)}
                     [] OTHER -> {Skip}]

(***************************************************************************)
(* A join taking a location from a shared map:  E -> {A, P}, A -> J,      *)
(* P -> {J, K}, J -> X, K -> X.  E and P store the whole allocation.     *)
(***************************************************************************)
ShareBlocks == {"E", "A", "P", "J", "K", "X"}
ShareOrder == << "E", "A", "P", "J", "K", "X" >>
SharePreds == [b \in ShareBlocks |->
                  CASE b = "E" -> << >>
                    [] b \in {"A", "P"} -> << "E" >>
                    [] b = "J" -> << "A", "P" >>
                    [] b = "K" -> << "P" >>
                    [] b = "X" -> << "J", "K" >>]
ShareCertain == {"E", "X"}
ShareCode == [b \in ShareBlocks |->
                  CASE b = "E" -> {Store(0, <<2, 2>>)}
                    [] b = "P" -> {Store(0, <<1, 1>>)}
                    [] OTHER -> {Skip}]

(***************************************************************************)
(* An unknown call in one arm of a branch:  E -> {A, B}, A -> X, B -> X.   *)
(***************************************************************************)
ArmBlocks == {"E", "A", "B", "X"}
ArmOrder == << "E", "A", "B", "X" >>
ArmPreds == [b \in ArmBlocks |->
                CASE b = "E" -> << >>
                  [] b \in {"A", "B"} -> << "E" >>
                  [] b = "X" -> << "A", "B" >>]
ArmCertain == {"E", "X"}
ArmCode == [b \in ArmBlocks |-> IF b = "A" THEN {Clobber} ELSE {Skip}]

(***************************************************************************)
(* A fully defined merged Multi shared by two arms, one of which writes:   *)
(*   E -> {L, R, X}, L -> J, R -> J, J -> {K1, K2}, K1 -> Z, K2 -> Z,      *)
(*   Z -> X.  Z takes K2's map first.                                      *)
(***************************************************************************)
BackBlocks == {"E", "L", "R", "J", "K1", "K2", "Z", "X"}
BackOrder == << "E", "L", "R", "J", "K1", "K2", "Z", "X" >>
BackPreds == [b \in BackBlocks |->
                 CASE b = "E" -> << >>
                   [] b \in {"L", "R"} -> << "E" >>
                   [] b = "J" -> << "L", "R" >>
                   [] b \in {"K1", "K2"} -> << "J" >>
                   [] b = "Z" -> << "K2", "K1" >>
                   [] b = "X" -> << "Z", "E" >>]
BackCertain == {"E", "X"}
BackCode == [b \in BackBlocks |->
                CASE b = "L" -> {Store(0, <<1>>)}
                  [] b = "R" -> {Store(0, <<2, 2>>)}
                  [] b = "K1" -> {Store(0, <<1>>)}
                  [] OTHER -> {Skip}]
=============================================================================
