--------------------------- MODULE MCPointerBase ---------------------------
(* Two allocations, two precise offsets, and single-pointer merges. *)
EXTENDS PointerBase

CONSTANTS A, B
MCBases == {A, B}
MCOthers == {<< [v |-> b, off |-> o] >> : b \in MCBases, o \in {0, 1, VAGUE}}
=============================================================================
