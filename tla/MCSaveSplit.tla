---------------------------- MODULE MCSaveSplit ----------------------------
(***************************************************************************)
(* Context trees for SaveSplit.  Every instruction left in counts one,    *)
(* every block is reached, and the objects are an argument of main, a     *)
(* buffer, a file descriptor and a temporary.                             *)
(***************************************************************************)
EXTENDS SaveSplit

AllReached == [c \in Ctxs |-> Blocks(c)]
OneEach == [k \in Ctxs \X (1 .. 5) |-> 1]

(***************************************************************************)
(* A loop in main peeled twice, and calls.  Root R runs main, whose block *)
(* 2-3 form loop l; I1 and I2 are l's iterations.  R calls f (A) and h    *)
(* (E); I1 calls f again (B).  A and E both call g, sharing one           *)
(* InlineAttempt S whose first call site is A's.                           *)
(***************************************************************************)
FlatParent == [l \in {"l"} |-> "noloop"]
FlatScope == [f \in {"main", "f", "g", "h"} |->
                 CASE f = "main" -> << "noloop", "l", "l", "noloop" >>
                   [] f = "f"    -> << "noloop", "noloop" >>
                   [] f \in {"g", "h"} -> << "noloop" >>]
FlatCtxs == {"R", "I1", "I2", "A", "B", "E", "S"}
FlatKind == [c \in FlatCtxs |-> IF c \in {"I1", "I2"} THEN "peel" ELSE "inline"]
FlatFn == [c \in FlatCtxs |->
              CASE c \in {"R", "I1", "I2"} -> "main"
                [] c \in {"A", "B"} -> "f"
                [] c = "S" -> "g"
                [] c = "E" -> "h"]
FlatLoopOf == [c \in FlatCtxs |-> IF c \in {"I1", "I2"} THEN "l" ELSE "noloop"]
FlatFRoot == [c \in FlatCtxs |-> IF c \in {"I1", "I2"} THEN "R" ELSE c]
FlatPeels == [c \in FlatCtxs |-> IF c = "R" THEN << "l" >> ELSE << >>]
FlatIters == [k \in {<< "R", "l" >>} |-> << "I1", "I2" >>]
FlatSites == {"sA", "sB", "sE", "sS1", "sS2"}
FlatSite == [s \in FlatSites |->
                CASE s = "sA"  -> [in |-> "R",  ia |-> "A"]
                  [] s = "sB"  -> [in |-> "I1", ia |-> "B"]
                  [] s = "sE"  -> [in |-> "R",  ia |-> "E"]
                  [] s = "sS1" -> [in |-> "A",  ia |-> "S"]
                  [] s = "sS2" -> [in |-> "E",  ia |-> "S"]]
FlatCallers == [c \in FlatCtxs |->
                   CASE c = "R" -> << >>
                     [] c = "A" -> << "sA" >>
                     [] c = "B" -> << "sB" >>
                     [] c = "E" -> << "sE" >>
                     [] c = "S" -> << "sS1", "sS2" >>
                     [] OTHER -> << >>]
FlatOwner == [o \in {"argv", "buf", "fd", "tmp"} |->
                 CASE o = "argv" -> "R"
                   [] o = "buf"  -> "A"
                   [] o = "fd"   -> "E"
                   [] o = "tmp"  -> "S"]
FlatUses == [k \in FlatCtxs \X (1 .. 5) |->
                CASE k = << "I2", 3 >> -> {"buf"}
                  [] k = << "S", 1 >>  -> {"fd"}
                  [] k = << "B", 2 >>  -> {"fd"}
                  [] k = << "R", 4 >>  -> {"tmp"}
                  [] OTHER -> {}]
FlatArgUses == [c \in FlatCtxs |->
                   CASE c = "A" -> {"argv"}
                     [] c = "S" -> {"buf"}
                     [] OTHER -> {}]

(***************************************************************************)
(* Nested loops in main: o (blocks 2-4) holds i (block 3).  O1 is o's     *)
(* iteration, N1 the iteration of i inside it.  R calls f (A), which      *)
(* allocates buf; the latch of o, block 4, uses it.                        *)
(***************************************************************************)
NestParent == [l \in {"o", "i"} |-> IF l = "i" THEN "o" ELSE "noloop"]
NestScope == [f \in {"main", "f"} |->
                 IF f = "main" THEN << "noloop", "o", "i", "o", "noloop" >>
                 ELSE << "noloop" >>]
NestCtxs == {"R", "O1", "N1", "A"}
NestKind == [c \in NestCtxs |-> IF c \in {"O1", "N1"} THEN "peel" ELSE "inline"]
NestFn == [c \in NestCtxs |-> IF c = "A" THEN "f" ELSE "main"]
NestLoopOf == [c \in NestCtxs |->
                  CASE c = "O1" -> "o" [] c = "N1" -> "i" [] OTHER -> "noloop"]
NestFRoot == [c \in NestCtxs |-> IF c = "A" THEN "A" ELSE "R"]
NestPeels == [c \in NestCtxs |->
                 CASE c = "R" -> << "o" >> [] c = "O1" -> << "i" >> [] OTHER -> << >>]
NestIters == [k \in {<< "R", "o" >>, << "O1", "i" >>} |->
                 IF k[1] = "R" THEN << "O1" >> ELSE << "N1" >>]
NestSites == {"sA"}
NestSite == [s \in NestSites |-> [in |-> "R", ia |-> "A"]]
NestCallers == [c \in NestCtxs |-> IF c = "A" THEN << "sA" >> ELSE << >>]
NestOwner == [o \in {"buf"} |-> "A"]
NestUses == [k \in NestCtxs \X (1 .. 5) |-> IF k = << "O1", 4 >> THEN {"buf"} ELSE {}]
NestArgUses == [c \in NestCtxs |-> {}]

====
