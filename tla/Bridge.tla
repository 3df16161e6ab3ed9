-------------------------------- MODULE Bridge --------------------------------
(***************************************************************************)
(* The whole bridge: the handlers of internal/api, and the goroutine of    *)
(* Service.Run that works through one outbox of create, note and status    *)
(* jobs and polls Nova Poshta.  Telephony and Tracking act on the same     *)
(* orders, outbox and CRM; this module says what each of their steps       *)
(* leaves to the other, and what must hold where they meet.                *)
(*                                                                         *)
(* The handlers decode a request, call one method of the service and give  *)
(* its outcome as a status code.  Requests that they or the service refuse *)
(* (a bad token, body or id) change nothing and are left out, as are the   *)
(* routes that only read.                                                  *)
(***************************************************************************)
EXTENDS Outbox

CONSTANTS
    ShopIds,                                   \* the ids the shop may give orders
    CallIds, Caller, Window, MaxTime,          \* see Telephony
    Numbers, Codes, Mapped, NoExt, Manager,    \* see Tracking
    Chats, ByHand, TrackLimit

VARIABLES
    calls, leads, now, notes,                          \* see Telephony
    ttns, turns, poll, polled, toSend, sent,           \* see Tracking
    contacts, funnel,
    posted  \* history: the orders that the shop has been told are accepted

Phones == INSTANCE Telephony
Parcels == INSTANCE Tracking

telephonyVars == <<calls, leads, now, notes>>
trackingVars == <<ttns, turns, poll, polled, toSend, sent, contacts, funnel>>
vars == <<outboxVars, telephonyVars, trackingVars, posted>>

\* The shop may give an order any id, "call-" and a call's id included.
ASSUME BridgeAssumption == ShopIds \subseteq ExternalIds

\* What the two parts assume of the constants they share with the bridge.
ASSUME PartsAssumption == Phones!TelephonyAssumption /\ Parcels!TrackingAssumption

Init == Phones!Init /\ Parcels!Init /\ posted = {}

------------------------------------------------------------------------------
(* The handlers of internal/api *)

\* POST /site/orders; a repeated order is answered like a new one.
siteOrder(ext) ==
    /\ Parcels!Ingest(ext)
    /\ posted' = posted \cup {ext}
    /\ UNCHANGED telephonyVars

\* POST /webhooks/binotel, with the number spelled as it is dialled at home.
binotel(call, kind) ==
    /\ Phones!OnCall(call, <<0>> \o Caller[call], kind)
    /\ UNCHANGED <<trackingVars, posted>>

\* POST /webhooks/salesdrive, about a deal with a parcel or without.
salesdrive(id) ==
    /\ \/ OnSalesDrive(id) /\ UNCHANGED trackingVars
       \/ \E n \in Numbers : Parcels!WebhookWithTTN(id, n)
    /\ UNCHANGED <<telephonyVars, posted>>

\* POST /api/ttn
addTTN(n, ext) ==
    /\ Parcels!AddTTNByHand(n, ext)
    /\ UNCHANGED <<telephonyVars, posted>>

\* POST /api/jobs/{id}/requeue
requeue(i) ==
    /\ Requeue(i)
    /\ UNCHANGED <<telephonyVars, trackingVars, posted>>

Handler ==
    \/ \E ext \in ShopIds : siteOrder(ext)
    \/ \E call \in CallIds, kind \in {"missed", "answered"} : binotel(call, kind)
    \/ \E id \in DOMAIN deals : salesdrive(id)
    \/ \E n \in Numbers, ext \in ByHand : addTTN(n, ext)
    \/ \E i \in DOMAIN outbox : requeue(i)

------------------------------------------------------------------------------
(* The goroutine of Run: rounds of the outbox and polls take turns *)

\* step: what each kind of job does, and the answers that are alike for all.
step(i) ==
    \/ (CreateStep(i) \/ CallRefused(i) \/ CallLost(i))
          /\ UNCHANGED <<telephonyVars, trackingVars>>
    \/ Phones!NoteStep(i) /\ UNCHANGED trackingVars
    \/ Parcels!StatusStep(i) /\ UNCHANGED telephonyVars

Outbox ==
    \/ Parcels!Round /\ UNCHANGED telephonyVars
    \/ \E i \in DOMAIN batch : step(i)

Polling ==
    /\ Parcels!PollBegins \/ Parcels!PollStep
    /\ UNCHANGED telephonyVars

Run == (Outbox \/ Polling) /\ UNCHANGED posted

\* The process stops in a round or in a poll, and starts again.
Stop ==
    /\ \/ (Abort \/ \E i \in DOMAIN batch : AbortInFlight(i))
             /\ UNCHANGED trackingVars
       \/ Parcels!PollAbort
    /\ UNCHANGED <<telephonyVars, posted>>

------------------------------------------------------------------------------

\* The CRM acts on a request, in time or late.
CRM ==
    /\ \/ (\E i \in DOMAIN batch : CreateDeal(i))
             /\ UNCHANGED <<telephonyVars, trackingVars>>
       \/ (\E ext \in ExternalIds : LateDeal(ext))
             /\ UNCHANGED <<telephonyVars, trackingVars>>
       \/ (\E i \in DOMAIN batch : Phones!AddNote(i)) /\ UNCHANGED trackingVars
       \/ (\E i \in DOMAIN batch : Parcels!MoveDeal(i)) /\ UNCHANGED telephonyVars
    /\ UNCHANGED posted

Time ==
    /\ \/ (\E i \in DOMAIN outbox : BackoffElapses(i))
             /\ UNCHANGED <<telephonyVars, trackingVars>>
       \/ Phones!Tick /\ UNCHANGED trackingVars
       \/ /\ \E n \in DOMAIN ttns : Parcels!PollEveryElapses(n) \/ Parcels!Ages(n)
          /\ UNCHANGED telephonyVars
    /\ UNCHANGED posted

Next == Handler \/ Run \/ Stop \/ CRM \/ Time

Spec == Init /\ [][Next]_vars

Keys == {CreateKey(ext) : ext \in ExternalIds}
            \cup {Phones!NoteKey(c) : c \in CallIds}
            \cup {Parcels!StatusKey(n, code) : n \in Numbers, code \in Mapped}

\* As in Telephony and Tracking: the loop runs on a ticker, every call out ends
\* within its timeout one way or another, a poll does not keep the round after
\* it away, and the clock reaches the next_at of every job.
Fairness ==
    /\ SF_vars(Parcels!Round /\ UNCHANGED <<telephonyVars, posted>>)
    /\ WF_vars(\E i \in DOMAIN batch : step(i) /\ UNCHANGED posted)
    /\ WF_vars(Parcels!PollStep /\ UNCHANGED <<telephonyVars, posted>>)
    /\ \A key \in Keys :
          WF_vars(\E i \in DOMAIN outbox :
                     /\ outbox[i].key = key
                     /\ BackoffElapses(i)
                     /\ UNCHANGED <<telephonyVars, trackingVars, posted>>)

FairSpec == Spec /\ Fairness

------------------------------------------------------------------------------
(* Properties *)

LeadsOf(call) == {k \in DOMAIN leads : leads[k].ext = Phones!LeadId(call)}

\* Orders and leads share one table, one outbox and one space of ids: every
\* missed call has a lead or a note of its own, unless the shop has taken the
\* lead's id, and then it has neither; and every row of orders, which those that
\* the shop was told are accepted have, has the one job that brings it to the CRM.
EachHasItsOwnJob ==
    /\ \A call \in DOMAIN calls :
          LET shares == Cardinality(LeadsOf(call))
                            + Cardinality(Phones!NoteJobs(call))
          IN  calls[call].kind = "missed" =>
                  shares = 1 \/ (shares = 0 /\ Phones!LeadId(call) \in posted)
    /\ posted \subseteq DOMAIN orders
    /\ \A ext \in DOMAIN orders :
          Cardinality({i \in DOMAIN outbox : outbox[i].key = CreateKey(ext)}) = 1

\* Notes and funnel moves end up at the deals they are for, although the deals
\* of shop orders and of leads are made, linked and moved side by side.
EachAtItsOwnDeal == Phones!NotesAtTheirLead /\ Parcels!FunnelFromOwnParcel

\* What waits in a batch for its turn is about tables that others write to: a
\* note that is done is there, at the deal that the bridge shows as the lead's.
NotesArrive == Phones!DoneNoteIsThere

\* A customer hears of parcels of the customer's own order only, and it is an
\* order that the shop has been told is accepted: what leads, notes and webhooks
\* do to the same tables brings nobody a message about another's parcel, and the
\* caller of a lead none at all.
MessagesArrive ==
    /\ Parcels!MessagesToOwner
    /\ \A k \in DOMAIN (sent \o toSend) :
          LET to == (sent \o toSend)[k].to
          IN  to \in ExternalIds =>
                  to \in posted /\ \A j \in DOMAIN leads : leads[j].ext # to

\* Create jobs that fail, notes that wait for them, status jobs and polls, all in
\* one goroutine: none keeps another from being brought to an end.
EverythingSettles ==
    \A key \in Keys :
        HasKey(outbox, key)
            ~> \E i \in DOMAIN outbox :
                  outbox[i].key = key /\ outbox[i].state # "pending"
==============================================================================
