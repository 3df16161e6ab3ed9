-------------------------------- MODULE Outbox --------------------------------
(***************************************************************************)
(* The outbox worker of internal/service/worker.go and the part of the CRM *)
(* it talks to.  One goroutine takes a snapshot of the due jobs in one     *)
(* transaction (ProcessOnce) and then works through it job by job, each    *)
(* job being: read the snapshot, call the CRM outside of any transaction,  *)
(* write the outcome in a second transaction.  HTTP handlers run between   *)
(* any two of those steps.                                                 *)
(*                                                                         *)
(* This module holds the queue, the handling of answers and errors that is *)
(* the same for every job kind, and the create_order job.  The modules     *)
(* that extend it add what puts jobs into the outbox and, where they need  *)
(* them, the other job kinds.                                              *)
(*                                                                         *)
(* A CRM call is split where another process can come between: the request *)
(* is on its way ("sent"), the CRM has acted on it and the answer is on    *)
(* its way ("executed"), the outcome is stored.  Receiving an answer and   *)
(* the transaction that follows it are one action: nothing the code does   *)
(* between them is visible to others, and the process stopping there is    *)
(* the same as its stopping just before the answer (Abort).                *)
(***************************************************************************)
EXTENDS Store

CONSTANTS
    ExternalIds,  \* order ids: the idempotency keys of site orders and leads
    MaxAttempts,  \* Config.MaxAttempts: tries before a job is given up
    BatchLimit,   \* the LIMIT of DueJobs (50 in the code)
    MaxAborts,    \* bound: how often the worker is cut short
    MaxRequeues,  \* bound: how often an operator requeues a failed job
    MaxLate       \* bound: how many create calls time out before the CRM acts

ASSUME OutboxAssumption ==
    /\ IsFiniteSet(ExternalIds)
    /\ MaxAttempts \in Nat \ {0}
    /\ BatchLimit \in Nat \ {0}
    /\ MaxAborts \in Nat
    /\ MaxRequeues \in Nat
    /\ MaxLate \in Nat

VARIABLES
    orders,  \* the table orders
    outbox,  \* the table outbox
    pc,      \* where the worker is: idle, step, lookedUp, sent, executed
    batch,   \* the jobs ProcessOnce read and has not stepped yet, by id
    dealId,  \* the variable id of step: the CRM id it goes by, NoId when none
    deals,   \* the CRM: the external id of each deal, a deal's position its id
    late,    \* timed-out create requests the CRM has yet to act on, per order
    lapses,  \* history: create requests the outbox may know nothing of
    spent    \* how much of each bound is used up

workerVars == <<pc, batch, dealId>>
crmVars == <<deals, late>>
outboxVars == <<orders, outbox, workerVars, crmVars, lapses, spent>>

OutboxInit ==
    /\ orders = NoOrders
    /\ outbox = <<>>
    /\ pc = "idle"
    /\ batch = <<>>
    /\ dealId = NoId
    /\ deals = <<>>
    /\ late = [ext \in ExternalIds |-> 0]
    /\ lapses = [ext \in ExternalIds |-> 0]
    /\ spent = [aborts |-> 0, requeues |-> 0, late |-> 0]

------------------------------------------------------------------------------
(* The queue *)

CreateKey(ext) == <<"create", ext>>

EnqueueCreate(table, ext) ==
    Enqueue(table, CreateKey(ext), "create_order", [ext |-> ext])

\* A round of the worker: one transaction copies the due jobs, oldest first.
ProcessOnce ==
    /\ pc = "idle"
    /\ DueJobs(outbox, BatchLimit) # {}
    /\ batch' = [i \in DueJobs(outbox, BatchLimit) |-> outbox[i]]
    /\ pc' = "step"
    /\ UNCHANGED <<orders, outbox, dealId, crmVars, lapses, spent>>

\* The job the loop is at: the oldest one of the batch not stepped yet.
Current(i) ==
    /\ i \in DOMAIN batch
    /\ \A k \in DOMAIN batch : i <= k

\* step returned nil: on to the next job, or out of the round.
Advance(i) ==
    /\ batch' = [k \in DOMAIN batch \ {i} |-> batch[k]]
    /\ pc' = IF DOMAIN batch = {i} THEN "idle" ELSE "step"
    /\ dealId' = NoId

Finish(i) ==
    /\ outbox' = UpdateJob(outbox, i, [batch[i] EXCEPT !.state = "done"])
    /\ Advance(i)

\* Mutant of Fail: a state that no query selects.
FailAsError(i) ==
    /\ outbox' = UpdateJob(outbox, i, [batch[i] EXCEPT !.state = "error"])
    /\ Advance(i)

Fail(i) ==
    /\ outbox' = UpdateJob(outbox, i, [batch[i] EXCEPT !.state = "failed"])
    /\ Advance(i)

\* Mutant of Retry: the attempt is not counted.
RetryUncounted(i) ==
    /\ outbox' = UpdateJob(outbox, i, [batch[i] EXCEPT !.due = FALSE])
    /\ Advance(i)

\* A transient error: another try after a backoff, or the last straw.
Retry(i) ==
    LET tried == [batch[i] EXCEPT !.attempts = @ + 1]
    IN  /\ outbox' = UpdateJob(outbox, i,
                         IF tried.attempts >= MaxAttempts
                         THEN [tried EXCEPT !.state = "failed"]
                         ELSE [tried EXCEPT !.due = FALSE])
        /\ Advance(i)

\* The CRM answered with an error: a transient or a permanent one.
Failed(i) == Retry(i) \/ Fail(i)

\* The clock reaches the next_at of a job that is waiting.
BackoffElapses(i) ==
    /\ outbox[i].state = "pending"
    /\ ~outbox[i].due
    /\ outbox' = [outbox EXCEPT ![i] = [@ EXCEPT !.due = TRUE]]
    /\ UNCHANGED <<orders, workerVars, crmVars, lapses, spent>>

------------------------------------------------------------------------------
(* Answers, the same for every job kind *)

\* An error answer, and the CRM has not acted on the request.
CallRefused(i) ==
    /\ pc = "sent"
    /\ Current(i)
    /\ Failed(i)
    /\ UNCHANGED <<orders, crmVars, lapses, spent>>

\* The CRM has acted, but its answer is lost or unreadable: a transient error.
CallLost(i) ==
    /\ pc = "executed"
    /\ Current(i)
    /\ Retry(i)
    /\ UNCHANGED <<orders, crmVars, lapses, spent>>

------------------------------------------------------------------------------
(* The create_order job *)

AtCreate(i) == Current(i) /\ batch[i].kind = "create_order"
Ext(i) == batch[i].payload.ext
Lapse(ext) == [lapses EXCEPT ![ext] = @ + 1]

\* A retried job looks the order up first; the deal found is its outcome.
LookupFound(i) ==
    /\ pc = "step"
    /\ AtCreate(i)
    /\ batch[i].attempts > 0
    /\ \E id \in DOMAIN deals :
          /\ deals[id] = Ext(i)
          /\ orders' = SetSDOrderID(orders, Ext(i), id)
    /\ Finish(i)
    /\ UNCHANGED <<crmVars, lapses, spent>>

\* Mutant of LookupMissed: the deals found are not looked at.
LookupMissedAnyway(i) ==
    /\ pc = "step"
    /\ AtCreate(i)
    /\ batch[i].attempts > 0
    /\ pc' = "lookedUp"
    /\ UNCHANGED <<orders, outbox, batch, dealId, crmVars, lapses, spent>>

LookupMissed(i) ==
    /\ pc = "step"
    /\ AtCreate(i)
    /\ batch[i].attempts > 0
    /\ \A id \in DOMAIN deals : deals[id] # Ext(i)
    /\ pc' = "lookedUp"
    /\ UNCHANGED <<orders, outbox, batch, dealId, crmVars, lapses, spent>>

LookupFailed(i) ==
    /\ pc = "step"
    /\ AtCreate(i)
    /\ batch[i].attempts > 0
    /\ Failed(i)
    /\ UNCHANGED <<orders, crmVars, lapses, spent>>

\* Mutant of SendCreate: a retry does not look the order up.
SendCreateUnchecked(i) ==
    /\ AtCreate(i)
    /\ pc \in {"step", "lookedUp"}
    /\ pc' = "sent"
    /\ UNCHANGED <<orders, outbox, batch, dealId, crmVars, lapses, spent>>

\* POST /handler/: at once on a first attempt, else after a lookup that missed.
SendCreate(i) ==
    /\ AtCreate(i)
    /\ \/ pc = "step" /\ batch[i].attempts = 0
       \/ pc = "lookedUp"
    /\ pc' = "sent"
    /\ UNCHANGED <<orders, outbox, batch, dealId, crmVars, lapses, spent>>

\* The CRM makes the deal; it does not compare external ids.
CreateDeal(i) ==
    /\ pc = "sent"
    /\ AtCreate(i)
    /\ deals' = Append(deals, Ext(i))
    /\ dealId' = Len(deals) + 1
    /\ pc' = "executed"
    /\ UNCHANGED <<orders, outbox, batch, late, lapses, spent>>

\* Mutant of CreateAnswered: the job is finished without its callback.
CreateAnsweredUnlinked(i) ==
    /\ pc = "executed"
    /\ AtCreate(i)
    /\ Finish(i)
    /\ UNCHANGED <<orders, crmVars, lapses, spent>>

\* The answer came: the job is done and the order has its CRM id, in one go.
CreateAnswered(i) ==
    /\ pc = "executed"
    /\ AtCreate(i)
    /\ orders' = SetSDOrderID(orders, Ext(i), dealId)
    /\ Finish(i)
    /\ UNCHANGED <<crmVars, lapses, spent>>

\* The client gives up (20 s) on a request the CRM will act on later.
CreateTimedOut(i) ==
    /\ pc = "sent"
    /\ AtCreate(i)
    /\ spent.late < MaxLate
    /\ spent' = [spent EXCEPT !.late = @ + 1]
    /\ late' = [late EXCEPT ![Ext(i)] = @ + 1]
    /\ lapses' = Lapse(Ext(i))
    /\ Retry(i)
    /\ UNCHANGED <<orders, deals>>

LateDeal(ext) ==
    /\ late[ext] > 0
    /\ late' = [late EXCEPT ![ext] = @ - 1]
    /\ deals' = Append(deals, ext)
    /\ UNCHANGED <<orders, outbox, workerVars, lapses, spent>>

CreateStep(i) ==
    \/ LookupFound(i) \/ LookupMissed(i) \/ LookupFailed(i)
    \/ SendCreate(i) \/ CreateAnswered(i) \/ CreateTimedOut(i)

------------------------------------------------------------------------------
(* The worker cut short: the process stops (and starts again), its context *)
(* is cancelled, or the transaction that stores an outcome fails.  In each *)
(* case the rest of the batch is dropped and the tables stay as they were. *)

DropBatch ==
    /\ spent.aborts < MaxAborts
    /\ spent' = [spent EXCEPT !.aborts = @ + 1]
    /\ pc' = "idle"
    /\ batch' = <<>>
    /\ dealId' = NoId
    /\ UNCHANGED <<orders, outbox, deals>>

\* Whatever the worker had asked for has been executed or never will be.  A
\* deal made by a first attempt is one the outbox does not know of.
Abort ==
    /\ pc # "idle"
    /\ DropBatch
    /\ \E i \in DOMAIN batch :
          /\ Current(i)
          /\ lapses' = IF /\ pc = "executed"
                          /\ batch[i].kind = "create_order"
                          /\ batch[i].attempts = 0
                       THEN Lapse(Ext(i))
                       ELSE lapses
    /\ UNCHANGED late

\* The worker stops while its create request is still on its way to the CRM.
AbortInFlight(i) ==
    /\ pc = "sent"
    /\ AtCreate(i)
    /\ DropBatch
    /\ late' = [late EXCEPT ![Ext(i)] = @ + 1]
    /\ lapses' = Lapse(Ext(i))

------------------------------------------------------------------------------
(* POST /api/jobs/{id}/requeue *)

Requeue(i) ==
    /\ spent.requeues < MaxRequeues
    /\ outbox' = RequeueJob(outbox, i)
    /\ lapses' = IF /\ outbox[i].state = "failed"
                    /\ outbox[i].kind = "create_order"
                    /\ outbox[i].attempts > 0
                 THEN Lapse(outbox[i].payload.ext)
                 ELSE lapses
    /\ spent' = [spent EXCEPT !.requeues = @ + 1]
    /\ UNCHANGED <<orders, workerVars, crmVars>>

------------------------------------------------------------------------------
(* POST /webhooks/salesdrive about a deal, its id and external id.  The CRM *)
(* sends one when it makes or changes a deal, so it may come at any time    *)
(* after that, any number of times, and in any order.                       *)

OnSalesDrive(id) ==
    /\ orders' = SetSDOrderID(orders, deals[id], id)
    /\ UNCHANGED <<outbox, workerVars, crmVars, lapses, spent>>

------------------------------------------------------------------------------
(* What does not depend on who fills the outbox, and with which jobs *)

\* The copies the worker goes by are never stale: until it has stepped a job of
\* its batch, handlers leave that job's row as ProcessOnce read it.
BatchFresh ==
    \A i \in DOMAIN batch : IsDue(outbox[i]) /\ batch[i] = outbox[i]

------------------------------------------------------------------------------
(* What the shop and the CRM see of all this: an order's status is that of  *)
(* its create job, its link the CRM id of its row.                          *)

InState(ext, state) ==
    \E i \in DOMAIN outbox :
        outbox[i].key = CreateKey(ext) /\ outbox[i].state = state

Status ==
    [ext \in ExternalIds |-> CASE InState(ext, "done")    -> "done"
                               [] InState(ext, "failed")  -> "failed"
                               [] InState(ext, "pending") -> "open"
                               [] OTHER                   -> "none"]

Links == [ext \in ExternalIds |->
             IF ext \in DOMAIN orders THEN orders[ext] ELSE NoId]

Ledger == INSTANCE CrmLedger WITH
              Orders <- ExternalIds, status <- Status, link <- Links,
              slack <- lapses

\* The worker with its retries, lookups, lost and late answers, the webhooks and
\* the operators that race it: all of it does no more than the ledger's steps.
LedgerSpec == Ledger!Spec
==============================================================================
