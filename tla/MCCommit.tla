------------------------------- MODULE MCCommit -------------------------------
(***************************************************************************)
(* One program for Commit.  main has a loop l (blocks 2-3; block 1 is its *)
(* preheader, 2 its header, 3 its latch; the header exits to 4, which     *)
(* returns).  The root R runs main; l is peeled twice, I1 and I2.  main   *)
(* calls f from the preheader (A) and h, a vararg function, from block 4  *)
(* (H); the latch calls g, inlined as B1 and B2 in the iterations and as  *)
(* B0 in the residual loop.  Iteration 1 always continues; where          *)
(* iteration 2 goes decides whether the peel terminated.                  *)
(***************************************************************************)
EXTENDS Commit

PLoopParent == [l \in {"l"} |-> "noloop"]
PHeader == [l \in {"l"} |-> 2]
PLatch == [l \in {"l"} |-> 3]
PPreheader == [l \in {"l"} |-> 1]
MainScope == << "noloop", "l", "l", "noloop" >>
OneBlock == << "noloop" >>
PScope == [f \in {"main", "f", "g", "h"} |-> IF f = "main" THEN MainScope ELSE OneBlock]
PSuccs == [f \in {"main", "f", "g", "h"} |->
              IF f = "main" THEN << << 2 >>, << 3, 4 >>, << 2 >>, << >> >>
              ELSE << << >> >>]
PCtxs == {"R", "I1", "I2", "A", "B0", "B1", "B2", "H"}
PKind == [c \in PCtxs |-> IF c \in {"I1", "I2"} THEN "peel" ELSE "inline"]
PFn == [c \in PCtxs |->
           CASE c \in {"R", "I1", "I2"} -> "main"
             [] c = "A" -> "f"
             [] c = "H" -> "h"
             [] OTHER -> "g"]
PLoopOf == [c \in PCtxs |-> IF c \in {"I1", "I2"} THEN "l" ELSE "noloop"]
PFRoot == [c \in PCtxs |-> IF c \in {"I1", "I2"} THEN "R" ELSE c]
PParent == [c \in PCtxs |->
               CASE c = "B1" -> "I1" [] c = "B2" -> "I2" [] OTHER -> "R"]
PPeels == [c \in PCtxs |-> IF c = "R" THEN << "l" >> ELSE << >>]
PIters == [k \in {<< "R", "l" >>} |-> << "I1", "I2" >>]
PCallsIn == [k \in {<< "R", 1 >>, << "R", 3 >>, << "R", 4 >>, << "I1", 3 >>, << "I2", 3 >>} |->
                CASE k = << "R", 1 >> -> << "A" >>
                  [] k = << "R", 3 >> -> << "B0" >>
                  [] k = << "R", 4 >> -> << "H" >>
                  [] k = << "I1", 3 >> -> << "B1" >>
                  [] k = << "I2", 3 >> -> << "B2" >>]
PAlive == [k \in {<< "I1", 2 >>, << "I2", 2 >>} |->
              IF k[1] = "I1" THEN {{1}, {1, 2}} ELSE {{1}, {2}, {1, 2}}]

====
