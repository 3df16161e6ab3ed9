------------------------------ MODULE SiteOrders ------------------------------
(***************************************************************************)
(* Site and bot orders on their way into the CRM: Service.Ingest puts an   *)
(* order and its create_order job into the store, the worker of Outbox     *)
(* makes the deal, SalesDrive's webhook may name the deal first, and an    *)
(* operator may requeue a create job that failed.                          *)
(*                                                                         *)
(* Orders that Ingest rejects (no id, no Ukrainian phone, no items, a zero *)
(* price or quantity) change nothing and are left out; so are the fields   *)
(* of an order other than its id.                                          *)
(***************************************************************************)
EXTENDS Outbox

vars == outboxVars

Init == OutboxInit

------------------------------------------------------------------------------
(* The handlers *)

\* POST /site/orders: the row and the job together, or nothing for a known id.
Ingest(ext) ==
    /\ orders' = InsertOrder(orders, ext)
    /\ outbox' = IF ext \in DOMAIN orders THEN outbox
                                          ELSE EnqueueCreate(outbox, ext)
    /\ UNCHANGED <<workerVars, crmVars, lapses, spent>>

------------------------------------------------------------------------------

WorkerStep(i) == CreateStep(i) \/ CallRefused(i) \/ CallLost(i)

Next ==
    \/ \E ext \in ExternalIds : Ingest(ext)
    \/ \E id \in DOMAIN deals : OnSalesDrive(id)
    \/ \E i \in DOMAIN outbox : Requeue(i)
    \/ ProcessOnce
    \/ \E i \in DOMAIN batch : WorkerStep(i)
    \/ \E i \in DOMAIN batch : CreateDeal(i)
    \/ \E ext \in ExternalIds : LateDeal(ext)
    \/ \E i \in DOMAIN outbox : BackoffElapses(i)
    \/ Abort
    \/ \E i \in DOMAIN batch : AbortInFlight(i)

Spec == Init /\ [][Next]_vars

------------------------------------------------------------------------------
(* Properties *)

CreateJob == [key : {"create"} \X ExternalIds, kind : {"create_order"},
              payload : [ext : ExternalIds], state : JobStates,
              attempts : Nat, due : BOOLEAN]

\* The tables, the worker and the CRM have the values they should have.
TypeOK ==
    /\ DOMAIN orders \subseteq ExternalIds
    /\ orders \in [DOMAIN orders -> Nat]
    /\ outbox \in Seq(CreateJob)
    /\ pc \in {"idle", "step", "lookedUp", "sent", "executed"}
    /\ DOMAIN batch \subseteq DOMAIN outbox
    /\ batch \in [DOMAIN batch -> CreateJob]
    /\ dealId \in Nat
    /\ deals \in Seq(ExternalIds)
    /\ late \in [ExternalIds -> Nat]
    /\ lapses \in [ExternalIds -> Nat]
    /\ spent \in [aborts : Nat, requeues : Nat, late : Nat]

DealsOf(ext) == {id \in DOMAIN deals : deals[id] = ext}

\* A shop order becomes one deal however often the shop retries and however
\* often the CRM fails or loses an answer: a further deal, made or still to be
\* made by the CRM, always goes back to a lapse -- the worker cut short with a
\* first create request unrecorded, a create job requeued after an attempt, or
\* a timed-out request the CRM acts on later.
DealsAccounted ==
    \A ext \in ExternalIds :
        Cardinality(DealsOf(ext)) + late[ext] <= 1 + lapses[ext]

\* The CRM id stored with an order is that of a deal the CRM made for this
\* very order, whichever of the worker, the lookup and the webhook stored it.
KnownIdIsItsDeal ==
    \A ext \in DOMAIN orders :
        orders[ext] # NoId => orders[ext] \in DealsOf(ext)

\* A create job that is done has left its order with a CRM id, so what waits
\* for that id (notes, status updates) need not wait for ever.
DoneMeansLinked ==
    \A i \in DOMAIN outbox :
        outbox[i].state = "done" => orders[outbox[i].payload.ext] # NoId

KeepsSettled ==
    /\ \A i \in DOMAIN outbox :
          outbox[i].state = "done" => outbox'[i] = outbox[i]
    /\ \A ext \in DOMAIN orders :
          orders[ext] # NoId => orders'[ext] = orders[ext]

\* What is settled stays settled: no step, by whatever copy of a job, takes a
\* job out of "done", and no answer or webhook replaces an order's CRM id.
SettledIsFinal == [][KeepsSettled]_vars

\* The README's promise, taken literally: a lost answer cannot make a second
\* deal.
OneDealPerOrder ==
    \A ext \in ExternalIds : Cardinality(DealsOf(ext)) <= 1
------------------------------------------------------------------------------
(* The inductive invariant: what makes DealsAccounted true of every step *)

\* Deals of an order, those the CRM has made and those it is still to make.
Made(ext) == Cardinality(DealsOf(ext)) + late[ext]

Executing(i) == pc = "executed" /\ Current(i)

\* Each order has one create job: keys are unique and the row comes with the job.
QueueInv ==
    /\ \A i \in DOMAIN outbox :
          /\ outbox[i].key = CreateKey(outbox[i].payload.ext)
          /\ outbox[i].payload.ext \in DOMAIN orders
    /\ \A i, j \in DOMAIN outbox :
          outbox[i].payload.ext = outbox[j].payload.ext => i = j

\* The worker is idle with nothing in hand; an answer under way names a deal of
\* the order whose job the worker is at.
WorkerInv ==
    /\ pc = "idle" <=> DOMAIN batch = {}
    /\ pc = "executed" =>
          \A i \in DOMAIN batch :
              Current(i) => /\ dealId \in DOMAIN deals
                            /\ deals[dealId] = outbox[i].payload.ext

\* There is at most one deal beyond the lapses, and none before a job exists.
EvidenceOfAll ==
    \A ext \in ExternalIds :
        /\ late[ext] <= lapses[ext]
        /\ Made(ext) <= 1 + lapses[ext]
        /\ (\A i \in DOMAIN outbox : outbox[i].payload.ext # ext)
              => Made(ext) <= lapses[ext]

\* Nor is there one where the outbox shows no attempt, an answer under way apart.
EvidenceOfJobs ==
    \A ext \in ExternalIds, i \in DOMAIN outbox :
        /\ outbox[i].payload.ext = ext
        /\ outbox[i].state # "done"
        /\ outbox[i].attempts = 0
        /\ ~Executing(i)
        => Made(ext) <= lapses[ext]

\* Nor where the worker has ruled one out.
EvidenceOfWorker ==
    \A ext \in ExternalIds, i \in DOMAIN batch :
        /\ outbox[i].payload.ext = ext
        /\ pc \in {"lookedUp", "sent"}
        /\ Current(i)
        => Made(ext) <= lapses[ext]

EvidenceInv == EvidenceOfAll /\ EvidenceOfJobs /\ EvidenceOfWorker

\* The outbox never knows less than it should of what the CRM was asked: the
\* reason why counting attempts before each retry keeps deals from doubling.
IInv ==
    /\ TypeOK
    /\ QueueInv
    /\ BatchFresh
    /\ WorkerInv
    /\ EvidenceInv
    /\ KnownIdIsItsDeal
    /\ DoneMeansLinked
==============================================================================
