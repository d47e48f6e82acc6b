----------------------------- MODULE MCOrderApi ----------------------------
(***************************************************************************)
(* OrderApi on small instances.  No definition tells two creates, logins,  *)
(* users or keys apart.                                                    *)
(***************************************************************************)
EXTENDS OrderApi, TLC

Symmetry ==
    Permutations(Creates) \cup Permutations(Logins)
        \cup Permutations(Users) \cup Permutations(Keys)
=============================================================================
