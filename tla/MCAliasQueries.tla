--------------------------- MODULE MCAliasQueries ---------------------------
(***************************************************************************)
(* A function f analysed as the root R and again as a recursive call B;   *)
(* its loop peeled into iterations I1 and I2, and an inner loop peeled    *)
(* into J inside I1.  The bases are a null constant, a global g, an       *)
(* argument a, and allocations x (in the inner loop) and z (before it).   *)
(***************************************************************************)
EXTENDS AliasQueries

PKind == [c \in {"R", "B", "I1", "I2", "J"} |-> IF c \in {"R", "B"} THEN "inline" ELSE "peel"]
PParent == [c \in {"R", "B", "I1", "I2", "J"} |->
               CASE c \in {"I1", "I2"} -> "R" [] c = "J" -> "I1" [] OTHER -> c]

SV(t, v, c) == [t |-> t, v |-> v, ctx |-> c]
IV(b, o) == [v |-> b, off |-> o]
PIVs ==
    {IV(SV("other", "null", "none"), 0),
     IV(SV("gv", "g", "none"), 0), IV(SV("gv", "g", "none"), LLMax),
     IV(SV("arg", "a", "none"), 0),
     IV(SV("inst", "z", "R"), 0), IV(SV("inst", "x", "I1"), 1), IV(SV("inst", "x", "J"), LLMax)}
    \cup {IV(SV("inst", "x", c), 0) : c \in {"R", "B", "I1", "I2", "J"}}

Set(S) == [init |-> TRUE, type |-> "pb", overdef |-> FALSE, vals |-> S]
PPBs ==
    {Set(S) : S \in {S \in SUBSET PIVs : Cardinality(S) \in 1 .. 2}}
    \cup {[init |-> FALSE, type |-> "pb", overdef |-> FALSE, vals |-> {}],
          [init |-> TRUE, type |-> "pb", overdef |-> TRUE, vals |-> {}],
          [init |-> TRUE, type |-> "scalar", overdef |-> FALSE,
           vals |-> {IV(SV("other", "null", "none"), 0)}]}
====
