--------------------------- MODULE MCOrderServer ---------------------------
(***************************************************************************)
(* OrderServer on a small instance; requests are interchangeable.          *)
(***************************************************************************)
EXTENDS OrderServer, TLC

Symmetry == Permutations(Requests)
=============================================================================
