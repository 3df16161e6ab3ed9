------------------------------- MODULE MCBridge -------------------------------
(***************************************************************************)
(* Bridge for TLC.  An order id of the shop may be the very one that the   *)
(* lead of a call would get (Service.Ingest takes any id).                 *)
(***************************************************************************)
EXTENDS Bridge

CONSTANTS c1, c2

\* The ids of the calls' leads (Telephony's LeadId).
LeadIds == {<<"call", c>> : c \in CallIds}

\* The id that the lead of the call c1 would get.
LeadIdOfC1 == {<<"call", c1>>}

OneCaller == [c \in CallIds |-> <<5, 0, 1, 2, 3, 4, 5, 6, 7>>]
==============================================================================
