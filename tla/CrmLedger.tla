------------------------------ MODULE CrmLedger ------------------------------
(***************************************************************************)
(* What the bridge promises about orders on their way into the CRM, with   *)
(* no queue, worker, lookup or attempt in sight.  An accepted order is     *)
(* open until it is done or given up; it is done only with a deal of its   *)
(* own linked to it; a link is for good; and there are no more deals than  *)
(* the one due and those that lapses have allowed for.  A lapse is the     *)
(* bridge's losing track of a create request; it takes one only while an   *)
(* order is open or as it is given up or revived, never once it is done.   *)
(***************************************************************************)
EXTENDS Naturals, Sequences, FiniteSets

CONSTANT Orders

VARIABLES
    status,  \* of each order: none, open, done, failed
    link,    \* the CRM id shown for each order, 0 for none
    deals,   \* the order of each deal in the CRM, a deal's position its id
    slack    \* how many deals beyond the first each order is allowed

vars == <<status, link, deals, slack>>

Init ==
    /\ status = [o \in Orders |-> "none"]
    /\ link = [o \in Orders |-> 0]
    /\ deals = <<>>
    /\ slack = [o \in Orders |-> 0]

Becomes(o, from, to) ==
    /\ status[o] = from
    /\ status' = [status EXCEPT ![o] = to]

Lapses(o) == slack' = [slack EXCEPT ![o] = @ + 1]

Accept(o) ==
    /\ Becomes(o, "none", "open")
    /\ UNCHANGED <<link, deals, slack>>

MakeDeal(o) ==
    /\ status[o] # "none"
    /\ Cardinality({id \in DOMAIN deals : deals[id] = o}) <= slack[o]
    /\ deals' = Append(deals, o)
    /\ UNCHANGED <<status, link, slack>>

\* An order gets a deal of its own for its link, unless it has one.
Links(o) ==
    \E id \in DOMAIN deals :
        /\ deals[id] = o
        /\ link' = [link EXCEPT ![o] = IF @ = 0 THEN id ELSE @]

Link(o) == Links(o) /\ UNCHANGED <<status, deals, slack>>

Complete(o) ==
    /\ Becomes(o, "open", "done")
    /\ Links(o)
    /\ UNCHANGED <<deals, slack>>

Lapse(o) ==
    /\ status[o] = "open"
    /\ Lapses(o)
    /\ UNCHANGED <<status, link, deals>>

GiveUpOrRevive(o) ==
    /\ Becomes(o, "open", "failed") \/ Becomes(o, "failed", "open")
    /\ UNCHANGED slack \/ Lapses(o)
    /\ UNCHANGED <<link, deals>>

Next ==
    \E o \in Orders :
        \/ Accept(o)
        \/ MakeDeal(o)
        \/ Link(o)
        \/ Complete(o)
        \/ Lapse(o)
        \/ GiveUpOrRevive(o)

Spec == Init /\ [][Next]_vars
==============================================================================
