--------------------------- MODULE MCExtentCache ----------------------------
(***************************************************************************)
(* ExtentCache for TLC.                                                    *)
(***************************************************************************)
EXTENDS ExtentCache, TLC

Symmetry == Permutations(Client) \cup Permutations(Eid) \cup Permutations(Data)
=============================================================================
