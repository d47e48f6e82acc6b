---------------------------- MODULE MCOrderRepo ----------------------------
(***************************************************************************)
(* OrderRepo on small instances.  Requests of one kind and keys are        *)
(* interchangeable: no definition tells one from another.                  *)
(***************************************************************************)
EXTENDS OrderRepo, TLC

Symmetry ==
    Permutations(Creates) \cup Permutations(Reads)
        \cup Permutations(Keys) \cup Permutations(Instances)
=============================================================================
