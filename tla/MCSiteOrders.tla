---------------------------- MODULE MCSiteOrders ----------------------------
(***************************************************************************)
(* SiteOrders for TLC.                                                     *)
(***************************************************************************)
EXTENDS SiteOrders, TLC

CONSTANTS o1, o2

Symmetry == Permutations(ExternalIds)
==============================================================================
