---------------------------- MODULE MCOrderTotal ----------------------------
(***************************************************************************)
(* A six-bit Money with columns in the service's proportions: 2^64 is to   *)
(* 10^10 * 2^31 roughly as 64 is to 10 * 7.  One value beyond each column  *)
(* and each sign is among the inputs.                                      *)
(***************************************************************************)
EXTENDS OrderTotal

MCQuantities == 0..8
MCPrices == -1..11
=============================================================================
