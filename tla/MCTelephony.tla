---------------------------- MODULE MCTelephony ----------------------------
(***************************************************************************)
(* Telephony for TLC: calls from one number, but for c3, which in the      *)
(* safety run is another caller's.  The second number begins with the      *)
(* digits of a prefix.                                                     *)
(***************************************************************************)
EXTENDS Telephony, TLC

CONSTANTS c1, c2, c3

LeadIds == {LeadId(c) : c \in CallIds}

Number == <<5, 0, 1, 2, 3, 4, 5, 6, 7>>
OtherNumber == <<8, 0, 5, 0, 1, 2, 3, 4, 5>>

OneCaller == [c \in CallIds |-> Number]
TwoCallers == [c \in CallIds |-> IF c = c3 THEN OtherNumber ELSE Number]

\* The calls of one caller are alike.
Symmetry == Permutations(CallIds \ {c3})
==============================================================================
