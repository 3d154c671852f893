------------------------------- MODULE MCRpc -------------------------------
(***************************************************************************)
(* Model checking of Rpc: two calling threads, two pool threads and a      *)
(* queue of one job.  The threads of a side are interchangeable.           *)
(***************************************************************************)
EXTENDS Rpc, TLC

MCSymmetry == Permutations(Thread) \union Permutations(Worker)
=============================================================================
