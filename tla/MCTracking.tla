----------------------------- MODULE MCTracking -----------------------------
(***************************************************************************)
(* Tracking for TLC.  The codes of the runs: 4 and 101 are two ranks of    *)
(* one stage, transit; 7 is arrived, 9 received, 102 refused; 2 is a       *)
(* deleted document.                                                       *)
(***************************************************************************)
EXTENDS Tracking, TLC

CONSTANTS o1, o2

\* Orders are told apart by nothing but their names.
Symmetry == Permutations({o1, o2})
==============================================================================
