----------------------------- MODULE LedgerProofs -----------------------------
(***************************************************************************)
(* SiteOrders implements CrmLedger, for any orders and any bounds: every   *)
(* step of the worker, the CRM, the handlers and the operator is, by what  *)
(* the shop and the CRM see of it, a step of the ledger or none at all.    *)
(* The guard that matters is MakeDeal's, which has no more than the slack  *)
(* to go by: it is where the evidence of IInv is needed.                   *)
(***************************************************************************)
EXTENDS SiteOrdersProofs

\* Lapses are those of orders that have a job.
LapsesInv ==
    \A ext \in ExternalIds :
        lapses[ext] > 0 => \E i \in DOMAIN outbox : outbox[i].payload.ext = ext

LedgerInv == IInv /\ LapsesInv

LedgerStep == [Ledger!Next]_(Ledger!vars)

\* How a job's state is shown as a status.
Shown(state) == IF state = "pending" THEN "open" ELSE state

\* An order's status is that of its job.
LEMMA StatusOfJob ==
    ASSUME TypeOK, QueueInv, NEW i \in DOMAIN outbox
    PROVE  Status[outbox[i].payload.ext] = Shown(outbox[i].state)
<1> DEFINE e == outbox[i].payload.ext
<1>1. e \in ExternalIds /\ outbox[i].state \in JobStates
  BY JobTyped
<1>2. \A s : InState(e, s) <=> s = outbox[i].state
  BY DEF InState, QueueInv, CreateKey
<1>3. Status[e] = CASE InState(e, "done")    -> "done"
                    [] InState(e, "failed")  -> "failed"
                    [] InState(e, "pending") -> "open"
                    [] OTHER                 -> "none"
  BY <1>1 DEF Status
<1>. QED
  BY <1>1, <1>2, <1>3 DEF JobStates, Shown

\* One without a job has none.
LEMMA StatusOfNone ==
    ASSUME QueueInv, NEW ext \in ExternalIds,
           \A i \in DOMAIN outbox : outbox[i].payload.ext # ext
    PROVE  Status[ext] = "none"
<1>1. \A s : ~InState(ext, s)
  BY DEF InState, QueueInv, CreateKey
<1>. QED
  BY <1>1 DEF Status

\* A job's row being written shows as its order's status and no other's.
LEMMA StatusWritten ==
    ASSUME TypeOK, QueueInv, NEW i \in DOMAIN outbox,
           NEW s \in JobStates, NEW a, NEW d, Rows(i, s, a, d)
    PROVE  Status' = [Status EXCEPT ![outbox[i].payload.ext] = Shown(s)]
<1> DEFINE e == outbox[i].payload.ext
<1>1. e \in ExternalIds /\ outbox[i].key = CreateKey(e)
  BY JobTyped DEF QueueInv
<1>2. ASSUME NEW x \in ExternalIds, NEW t
      PROVE  InState(x, t)' <=> IF x = e THEN t = s ELSE InState(x, t)
  BY <1>1 DEF InState, QueueInv, CreateKey, Rows
<1>3. \A x \in ExternalIds : x # e => Status'[x] = Status[x]
  BY <1>2 DEF Status
<1>4. Status'[e] = Shown(s)
  BY <1>1, <1>2 DEF Status, JobStates, Shown
<1>. QED
  BY <1>1, <1>3, <1>4 DEF Status

------------------------------------------------------------------------------
(* What the kinds of steps come to *)

\* Where none of what the ledger is read from changes, nothing happens to it.
LEMMA NothingShows ==
    ASSUME UNCHANGED <<orders, outbox, deals, lapses>>
    PROVE  LedgerStep
  BY DEF LedgerStep, Ledger!vars, Status, Links, InState

\* Storing a CRM id of a deal of the order links the order, unless it is linked
\* or not the bridge's.
LEMMA LinkShows ==
    ASSUME TypeOK, NEW ext \in ExternalIds, NEW id \in DealsOf(ext),
           orders' = SetSDOrderID(orders, ext, id)
    PROVE  \/ Links' = Links /\ ext \notin DOMAIN orders
           \/ Ledger!Links(ext)
<1>1. id \in Nat /\ id \in DOMAIN deals /\ deals[id] = ext
  BY DealsFinite DEF DealsOf
<1>2. /\ DOMAIN orders' = DOMAIN orders
      /\ \A x \in DOMAIN orders :
            orders'[x] = IF x = ext /\ orders[x] = NoId THEN id ELSE orders[x]
  BY <1>1, SetIdWrites
<1>3. CASE ext \notin DOMAIN orders
  BY <1>2, <1>3 DEF Links
<1>4. CASE ext \in DOMAIN orders
  <2>1. Links' = [Links EXCEPT ![ext] = IF @ = 0 THEN id ELSE @]
    BY <1>2, <1>4 DEF Links, NoId
  <2>. QED
    BY <1>1, <2>1 DEF Ledger!Links
<1>. QED
  BY <1>3, <1>4

\* An order's job being written, with or without a lapse, and nothing else: the
\* order is given up or revived, or it stays open.
LEMMA OutcomeShows ==
    ASSUME TypeOK, QueueInv, NEW i \in DOMAIN outbox,
           NEW s \in {"pending", "failed"}, NEW a, NEW d, Rows(i, s, a, d),
           outbox[i].state = "pending" \/ (outbox[i].state = "failed" /\ s = "pending"),
           UNCHANGED <<orders, deals>>,
           \/ lapses' = lapses
           \/ lapses' = [lapses EXCEPT ![outbox[i].payload.ext] = @ + 1]
    PROVE  LedgerStep
<1> DEFINE e == outbox[i].payload.ext
<1>1. e \in ExternalIds /\ s \in JobStates
  BY JobTyped DEF JobStates
<1>2. Status[e] = Shown(outbox[i].state)
  BY StatusOfJob
<1>3. Status' = [Status EXCEPT ![e] = Shown(s)]
  BY <1>1, StatusWritten
<1>4. Links' = Links
  BY DEF Links
<1>5. lapses' = lapses \/ Ledger!Lapses(e)
  BY DEF Ledger!Lapses
<1>6. CASE Shown(s) = Shown(outbox[i].state)
  <2>1. Status' = Status /\ Status[e] = "open"
    BY <1>2, <1>3, <1>6 DEF Status, Shown
  <2>2. CASE lapses' = lapses
    BY <1>4, <2>1, <2>2 DEF LedgerStep, Ledger!vars
  <2>3. CASE Ledger!Lapses(e)
    <3>1. Ledger!Lapse(e)
      BY <1>4, <2>1, <2>3 DEF Ledger!Lapse
    <3>. QED
      BY <1>1, <3>1 DEF LedgerStep, Ledger!Next
  <2>. QED
    BY <1>5, <2>2, <2>3
<1>7. CASE Shown(s) # Shown(outbox[i].state)
  <2>1. Ledger!Becomes(e, "open", "failed") \/ Ledger!Becomes(e, "failed", "open")
    BY <1>2, <1>3, <1>7 DEF Ledger!Becomes, Shown
  <2>2. Ledger!GiveUpOrRevive(e)
    BY <1>4, <1>5, <2>1 DEF Ledger!GiveUpOrRevive
  <2>. QED
    BY <1>1, <2>2 DEF LedgerStep, Ledger!Next
<1>. QED
  BY <1>6, <1>7

\* A job that is retried or given up.
LEMMA FailedShows ==
    ASSUME IInv, NEW i, Current(i), Failed(i), UNCHANGED <<orders, deals>>,
           \/ lapses' = lapses
           \/ lapses' = [lapses EXCEPT ![outbox[i].payload.ext] = @ + 1]
    PROVE  LedgerStep
<1>1. TypeOK /\ QueueInv /\ BatchFresh
  BY DEF IInv
<1>2. i \in DOMAIN outbox /\ outbox[i].state = "pending"
  BY <1>1, CurrentJob
<1>3. \E s \in {"pending", "failed"} : \E a, d : Rows(i, s, a, d)
  BY <1>1, RetryWrites, FailWrites DEF Failed
<1>. QED
  BY <1>1, <1>2, <1>3, OutcomeShows

\* A job that is done with a deal of its order.
LEMMA FinishedShows ==
    ASSUME IInv, NEW i, Current(i), Finish(i),
           NEW id \in DealsOf(outbox[i].payload.ext),
           orders' = SetSDOrderID(orders, outbox[i].payload.ext, id),
           UNCHANGED <<deals, lapses>>
    PROVE  LedgerStep
<1>1. TypeOK /\ QueueInv /\ BatchFresh
  BY DEF IInv
<1>2. i \in DOMAIN outbox /\ outbox[i].state = "pending"
      /\ outbox[i].payload.ext \in ExternalIds
  BY <1>1, CurrentJob
<1> PICK e \in ExternalIds : e = outbox[i].payload.ext
  BY <1>2
<1>3. Rows(i, "done", outbox[i].attempts, TRUE)
  BY <1>1, FinishWrites
<1>4. Ledger!Becomes(e, "open", "done")
  <2>1. Status[e] = "open"
    BY <1>1, <1>2, StatusOfJob DEF Shown
  <2>2. Status' = [Status EXCEPT ![e] = "done"]
    BY <1>1, <1>2, <1>3, StatusWritten DEF Shown, JobStates
  <2>. QED
    BY <2>1, <2>2 DEF Ledger!Becomes
<1>5. Ledger!Links(e)
  <2>1. e \in DOMAIN orders
    BY <1>1, <1>2 DEF QueueInv
  <2>. QED
    BY <1>1, <2>1, LinkShows
<1>6. Ledger!Complete(e)
  BY <1>4, <1>5 DEF Ledger!Complete
<1>. QED
  BY <1>6 DEF LedgerStep, Ledger!Next

\* A deal is made where the slack allows for one.
LEMMA DealShows ==
    ASSUME IInv, NEW ext \in ExternalIds, deals' = Append(deals, ext),
           \E i \in DOMAIN outbox : outbox[i].payload.ext = ext,
           Cardinality(DealsOf(ext)) <= lapses[ext],
           UNCHANGED <<orders, outbox, lapses>>
    PROVE  LedgerStep
<1>1. TypeOK /\ QueueInv
  BY DEF IInv
<1>2. PICK i \in DOMAIN outbox : outbox[i].payload.ext = ext
  OBVIOUS
<1>3. Status[ext] # "none"
  <2>1. Status[ext] = Shown(outbox[i].state) /\ outbox[i].state \in JobStates
    BY <1>1, <1>2, StatusOfJob, JobTyped
  <2>. QED
    BY <2>1 DEF Shown, JobStates
<1>4. Status' = Status /\ Links' = Links
  BY DEF Status, Links, InState
<1>5. \A S : Ledger!Cardinality(S) = Cardinality(S)
  BY Zenon DEF Ledger!Cardinality, Cardinality
<1>6. Ledger!MakeDeal(ext)
  BY <1>3, <1>4, <1>5 DEF Ledger!MakeDeal, DealsOf
<1>. QED
  BY <1>6 DEF LedgerStep, Ledger!Next

------------------------------------------------------------------------------
(* The steps, by actor *)

\* A new order is accepted; a repeated one shows nowhere.
LEMMA IngestShows ==
    ASSUME IInv, NEW ext \in ExternalIds, Ingest(ext)
    PROVE  LedgerStep
<1>1. TypeOK /\ QueueInv
  BY DEF IInv
<1>2. deals' = deals /\ lapses' = lapses
  BY DEF Ingest, crmVars
<1>3. CASE orders' = orders /\ outbox' = outbox
  BY <1>2, <1>3, NothingShows
<1>4. CASE ~(orders' = orders /\ outbox' = outbox)
  <2> DEFINE n == Len(outbox) + 1
  <2>1. /\ ext \notin DOMAIN orders
        /\ DOMAIN orders' = DOMAIN orders \cup {ext}
        /\ \A x \in DOMAIN orders : orders'[x] = orders[x]
        /\ orders'[ext] = NoId
        /\ DOMAIN outbox' = DOMAIN outbox \cup {n}
        /\ n \notin DOMAIN outbox
        /\ \A k \in DOMAIN outbox : outbox'[k] = outbox[k]
        /\ outbox'[n].key = CreateKey(ext)
        /\ outbox'[n].state = "pending"
    BY <1>1, <1>4, IngestWrites
  <2>2. Status[ext] = "none"
    BY <1>1, <2>1, StatusOfNone DEF QueueInv
  <2>3. \A x \in ExternalIds : \A t :
            InState(x, t)' <=> InState(x, t) \/ (x = ext /\ t = "pending")
    BY <2>1 DEF InState, CreateKey
  <2>4. \A t : ~InState(ext, t)
    BY <1>1, <2>1 DEF InState, QueueInv, CreateKey
  <2>5. /\ Status'[ext] = "open"
        /\ \A x \in ExternalIds : x # ext => Status'[x] = Status[x]
    BY <2>3, <2>4 DEF Status
  <2>6. Status' = [Status EXCEPT ![ext] = "open"]
    BY <2>5 DEF Status
  <2>7. Links' = Links
    BY <2>1 DEF Links
  <2>8. Ledger!Accept(ext)
    BY <1>2, <2>2, <2>6, <2>7 DEF Ledger!Accept, Ledger!Becomes
  <2>. QED
    BY <2>8 DEF LedgerStep, Ledger!Next
<1>. QED
  BY <1>3, <1>4

\* A webhook links an order, or shows nowhere.
LEMMA OnSalesDriveShows ==
    ASSUME IInv, NEW id \in DOMAIN deals, OnSalesDrive(id)
    PROVE  LedgerStep
<1>1. TypeOK
  BY DEF IInv
<1>2. PICK e \in ExternalIds : e = deals[id]
  BY <1>1 DEF TypeOK
<1>3. UNCHANGED <<outbox, deals, lapses>> /\ orders' = SetSDOrderID(orders, e, id)
  BY <1>2 DEF OnSalesDrive, crmVars
<1>4. Status' = Status
  BY <1>3 DEF Status, InState
<1>5. Links' = Links \/ Ledger!Links(e)
  BY <1>1, <1>2, <1>3, LinkShows DEF DealsOf
<1>6. CASE Links' = Links
  BY <1>3, <1>4, <1>6 DEF LedgerStep, Ledger!vars
<1>7. CASE Ledger!Links(e)
  <2>1. Ledger!Link(e)
    BY <1>3, <1>4, <1>7 DEF Ledger!Link
  <2>. QED
    BY <2>1 DEF LedgerStep, Ledger!Next
<1>. QED
  BY <1>5, <1>6, <1>7

\* A failed job's requeue revives its order.
LEMMA RequeueShows ==
    ASSUME IInv, NEW i \in DOMAIN outbox, Requeue(i)
    PROVE  LedgerStep
<1>1. TypeOK /\ QueueInv
  BY DEF IInv
<1>2. UNCHANGED <<orders, deals>>
  BY DEF Requeue, crmVars
<1>3. CASE outbox[i].state # "failed"
  <2>1. outbox' = outbox /\ lapses' = lapses
    BY <1>3 DEF Requeue, RequeueJob
  <2>. QED
    BY <1>2, <2>1, NothingShows
<1>4. CASE outbox[i].state = "failed"
  <2>1. Rows(i, "pending", 0, TRUE)
    BY <1>1, <1>4, RequeueWrites
  <2>2. \/ lapses' = lapses
        \/ lapses' = [lapses EXCEPT ![outbox[i].payload.ext] = @ + 1]
    BY DEF Requeue, Lapse
  <2>. QED
    BY <1>1, <1>2, <1>4, <2>1, <2>2, OutcomeShows
<1>. QED
  BY <1>3, <1>4

\* A backoff that elapses leaves the order open.
LEMMA BackoffShows ==
    ASSUME IInv, NEW i \in DOMAIN outbox, BackoffElapses(i)
    PROVE  LedgerStep
<1>1. TypeOK /\ QueueInv
  BY DEF IInv
<1>2. UNCHANGED <<orders, deals, lapses>> /\ outbox[i].state = "pending"
  BY DEF BackoffElapses, crmVars
<1>. QED
  BY <1>1, <1>2, BackoffWrites, OutcomeShows

\* The worker is cut short: a lapse at most, of an order that is open.
LEMMA DropBatchShows ==
    ASSUME IInv, DropBatch, NEW i, Current(i),
           \/ lapses' = lapses
           \/ lapses' = [lapses EXCEPT ![outbox[i].payload.ext] = @ + 1]
    PROVE  LedgerStep
<1>1. TypeOK /\ QueueInv /\ BatchFresh
  BY DEF IInv
<1>2. UNCHANGED <<orders, outbox, deals>>
  BY DEF DropBatch
<1>3. CASE lapses' = lapses
  BY <1>2, <1>3, NothingShows
<1>4. CASE lapses' = [lapses EXCEPT ![outbox[i].payload.ext] = @ + 1]
  <2>1. /\ i \in DOMAIN outbox /\ outbox[i].state = "pending"
        /\ outbox[i].payload.ext \in ExternalIds
    BY <1>1, CurrentJob
  <2>2. Status[outbox[i].payload.ext] = "open"
    BY <1>1, <2>1, StatusOfJob DEF Shown
  <2>3. Status' = Status /\ Links' = Links
    BY <1>2 DEF Status, Links, InState
  <2>4. Ledger!Lapse(outbox[i].payload.ext)
    BY <1>2, <1>4, <2>2, <2>3 DEF Ledger!Lapse, Ledger!Lapses
  <2>. QED
    BY <2>1, <2>4 DEF LedgerStep, Ledger!Next
<1>. QED
  BY <1>3, <1>4

\* What the worker does next: it asks, or it settles the job one way or another.
LEMMA WorkerShows ==
    ASSUME IInv, NEW i \in DOMAIN batch, WorkerStep(i)
    PROVE  LedgerStep
<1>1. TypeOK /\ BatchFresh /\ WorkerInv
  BY DEF IInv
<1>2. CASE LookupFound(i)
  <2>1. Current(i) /\ batch[i] = outbox[i]
    BY <1>1, <1>2, CurrentJob DEF LookupFound, AtCreate
  <2>2. PICK id \in DOMAIN deals :
            /\ deals[id] = Ext(i)
            /\ orders' = SetSDOrderID(orders, Ext(i), id)
    BY <1>2 DEF LookupFound
  <2>. QED
    BY <1>2, <2>1, <2>2, FinishedShows DEF LookupFound, DealsOf, Ext, crmVars
<1>3. CASE CreateAnswered(i)
  <2>1. Current(i) /\ batch[i] = outbox[i]
    BY <1>1, <1>3, CurrentJob DEF CreateAnswered, AtCreate
  <2>2. dealId \in DealsOf(outbox[i].payload.ext)
    BY <1>1, <1>3, <2>1 DEF CreateAnswered, WorkerInv, DealsOf
  <2>. QED
    BY <1>3, <2>1, <2>2, FinishedShows DEF CreateAnswered, Ext, crmVars
<1>4. CASE LookupMissed(i) \/ SendCreate(i)
  BY <1>4, NothingShows DEF LookupMissed, SendCreate, crmVars
<1>5. CASE LookupFailed(i) \/ CallRefused(i) \/ CallLost(i)
  BY <1>5, FailedShows
  DEF LookupFailed, CallRefused, CallLost, AtCreate, Failed, crmVars
<1>6. CASE CreateTimedOut(i)
  <2>1. Current(i) /\ batch[i] = outbox[i]
    BY <1>1, <1>6, CurrentJob DEF CreateTimedOut, AtCreate
  <2>. QED
    BY <1>6, <2>1, FailedShows DEF CreateTimedOut, Failed, Lapse, Ext
<1>. QED
  BY <1>2, <1>3, <1>4, <1>5, <1>6 DEF WorkerStep, CreateStep

\* The CRM makes a deal for the request on its way, or for a late one.
LEMMA CreateDealShows ==
    ASSUME IInv, NEW i \in DOMAIN batch, CreateDeal(i)
    PROVE  LedgerStep
<1>1. TypeOK /\ BatchFresh /\ EvidenceInv
  BY DEF IInv
<1>2. Current(i) /\ pc = "sent" /\ UNCHANGED <<orders, outbox, lapses>>
  BY DEF CreateDeal, AtCreate
<1>3. /\ batch[i] = outbox[i] /\ outbox[i].payload.ext \in ExternalIds
      /\ i \in DOMAIN outbox
  BY <1>1, <1>2, CurrentJob
<1> PICK e \in ExternalIds : e = outbox[i].payload.ext
  BY <1>3
<1>4. deals' = Append(deals, e)
  BY <1>3 DEF CreateDeal, Ext
<1>5. Made(e) <= lapses[e]
  BY <1>1, <1>2, <1>3 DEF EvidenceInv, EvidenceOfWorker
<1>6. Cardinality(DealsOf(e)) <= lapses[e]
  BY <1>1, <1>5, DealsFinite DEF Made, TypeOK
<1>. QED
  BY <1>2, <1>3, <1>4, <1>6, DealShows

LEMMA LateDealShows ==
    ASSUME LedgerInv, NEW ext \in ExternalIds, LateDeal(ext)
    PROVE  LedgerStep
<1>1. TypeOK /\ EvidenceInv /\ IInv
  BY DEF LedgerInv, IInv
<1>2. /\ late[ext] > 0 /\ deals' = Append(deals, ext)
      /\ UNCHANGED <<orders, outbox, lapses>>
  BY DEF LateDeal
<1>3. /\ late[ext] \in Nat /\ lapses[ext] \in Nat
      /\ late[ext] <= lapses[ext] /\ Made(ext) <= 1 + lapses[ext]
  BY <1>1 DEF TypeOK, EvidenceInv, EvidenceOfAll
<1>4. Cardinality(DealsOf(ext)) <= lapses[ext]
  BY <1>1, <1>2, <1>3, DealsFinite DEF Made
<1>5. \E i \in DOMAIN outbox : outbox[i].payload.ext = ext
  BY <1>2, <1>3 DEF LedgerInv, LapsesInv
<1>. QED
  BY <1>1, <1>2, <1>4, <1>5, DealShows

\* The worker is cut short, at once or with its request on its way.
LEMMA AbortShows ==
    ASSUME IInv, Abort \/ \E i \in DOMAIN batch : AbortInFlight(i)
    PROVE  LedgerStep
<1>1. TypeOK /\ BatchFresh
  BY DEF IInv
<1>2. DropBatch
  BY DEF Abort, AbortInFlight
<1>3. PICK i \in DOMAIN batch :
          /\ Current(i)
          /\ lapses' = lapses \/ lapses' = Lapse(Ext(i))
  BY DEF Abort, AbortInFlight, AtCreate
<1>4. batch[i] = outbox[i]
  BY <1>1, <1>3, CurrentJob
<1>. QED
  BY <1>2, <1>3, <1>4, DropBatchShows DEF Lapse, Ext

\* Every step is one of the ledger's or shows nowhere in it.
LEMMA StepShows == LedgerInv /\ [Next]_vars => LedgerStep
<1>. SUFFICES ASSUME LedgerInv, [Next]_vars PROVE LedgerStep
  OBVIOUS
<1>1. IInv
  BY DEF LedgerInv
<1>2. CASE ProcessOnce
  BY <1>2, NothingShows DEF ProcessOnce, crmVars
<1>3. CASE UNCHANGED vars
  BY <1>3, NothingShows DEF vars, outboxVars, crmVars
<1>. QED
  BY <1>1, <1>2, <1>3, IngestShows, OnSalesDriveShows, RequeueShows, BackoffShows,
     WorkerShows, CreateDealShows, LateDealShows, AbortShows
  DEF Next

------------------------------------------------------------------------------
(* Lapses belong to jobs *)

\* Jobs keep their orders, and a lapse is one of a job's order.
Keeps ==
    /\ \A k \in DOMAIN outbox :
          k \in DOMAIN outbox' /\ outbox'[k].payload.ext = outbox[k].payload.ext
    /\ \/ lapses' = lapses
       \/ \E i \in DOMAIN outbox :
             lapses' = [lapses EXCEPT ![outbox[i].payload.ext] = @ + 1]

LEMMA KeepsLapses ==
    ASSUME LedgerInv, Keeps
    PROVE  LapsesInv'
<1>1. lapses \in [ExternalIds -> Nat] /\ TypeOK
  BY DEF LedgerInv, IInv, TypeOK
<1>2. ASSUME NEW x \in ExternalIds, lapses'[x] > 0
      PROVE  \E k \in DOMAIN outbox : outbox[k].payload.ext = x
  <2>1. CASE lapses[x] > 0
    BY <2>1 DEF LedgerInv, LapsesInv
  <2>2. CASE ~(lapses[x] > 0)
    <3>1. lapses' # lapses
      BY <1>2, <2>2
    <3>2. PICK i \in DOMAIN outbox :
              lapses' = [lapses EXCEPT ![outbox[i].payload.ext] = @ + 1]
      BY <3>1 DEF Keeps
    <3>3. outbox[i].payload.ext = x
      BY <1>1, <1>2, <2>2, <3>2
    <3>. QED
      BY <3>3
  <2>. QED
    BY <2>1, <2>2
<1>. QED
  BY <1>2 DEF LapsesInv, Keeps

\* A job's row being written keeps both.
LEMMA RowsKeep ==
    ASSUME NEW i \in DOMAIN outbox, NEW s, NEW a, NEW d, Rows(i, s, a, d),
           \/ lapses' = lapses
           \/ lapses' = [lapses EXCEPT ![outbox[i].payload.ext] = @ + 1]
    PROVE  Keeps
  BY DEF Rows, Keeps

LEMMA FailedKeep ==
    ASSUME IInv, NEW i, Current(i), Failed(i) \/ Finish(i),
           \/ lapses' = lapses
           \/ lapses' = Lapse(Ext(i))
    PROVE  Keeps
<1>1. TypeOK /\ BatchFresh
  BY DEF IInv
<1>2. i \in DOMAIN outbox /\ Ext(i) = outbox[i].payload.ext
  BY <1>1, CurrentJob DEF Ext
<1>3. \E s, a, d : Rows(i, s, a, d)
  BY <1>1, RetryWrites, FailWrites, FinishWrites DEF Failed
<1>. QED
  BY <1>2, <1>3, RowsKeep DEF Lapse

LEMMA StepKeeps == LedgerInv /\ [Next]_vars => Keeps
<1>. SUFFICES ASSUME LedgerInv, [Next]_vars PROVE Keeps
  OBVIOUS
<1>1. IInv /\ TypeOK /\ QueueInv /\ BatchFresh
  BY DEF LedgerInv, IInv
<1>2. CASE UNCHANGED <<outbox, lapses>>
  BY <1>2 DEF Keeps
<1>3. ASSUME NEW ext \in ExternalIds, Ingest(ext) PROVE Keeps
  <2>1. lapses' = lapses
    BY <1>3 DEF Ingest
  <2>2. \/ outbox' = outbox
        \/ /\ DOMAIN outbox \subseteq DOMAIN outbox'
           /\ \A k \in DOMAIN outbox : outbox'[k] = outbox[k]
    BY <1>1, <1>3, IngestWrites
  <2>. QED
    BY <2>1, <2>2 DEF Keeps
<1>4. ASSUME NEW i \in DOMAIN outbox, Requeue(i) PROVE Keeps
  <2>1. CASE outbox[i].state # "failed"
    BY <1>2, <1>4, <2>1 DEF Requeue, RequeueJob
  <2>2. CASE outbox[i].state = "failed"
    <3>1. Rows(i, "pending", 0, TRUE)
      BY <1>1, <1>4, <2>2, RequeueWrites
    <3>2. \/ lapses' = lapses
          \/ lapses' = [lapses EXCEPT ![outbox[i].payload.ext] = @ + 1]
      BY <1>4 DEF Requeue, Lapse
    <3>. QED
      BY <3>1, <3>2, RowsKeep
  <2>. QED
    BY <2>1, <2>2
<1>5. ASSUME NEW i \in DOMAIN outbox, BackoffElapses(i) PROVE Keeps
  BY <1>1, <1>5, BackoffWrites, RowsKeep DEF BackoffElapses
<1>6. ASSUME NEW i \in DOMAIN batch, WorkerStep(i) PROVE Keeps
  <2>1. CASE LookupMissed(i) \/ SendCreate(i)
    BY <1>2, <2>1 DEF LookupMissed, SendCreate
  <2>2. CASE ~(LookupMissed(i) \/ SendCreate(i))
    <3>1. Current(i) /\ (Failed(i) \/ Finish(i))
      BY <1>6, <2>2
      DEF WorkerStep, CreateStep, LookupFound, LookupFailed, CreateAnswered,
          CreateTimedOut, CallRefused, CallLost, AtCreate, Failed
    <3>2. lapses' = lapses \/ lapses' = Lapse(Ext(i))
      BY <1>6, <2>2
      DEF WorkerStep, CreateStep, LookupFound, LookupFailed, CreateAnswered,
          CreateTimedOut, CallRefused, CallLost
    <3>. QED
      BY <1>1, <3>1, <3>2, FailedKeep
  <2>. QED
    BY <2>1, <2>2
<1>7. CASE Abort \/ \E i \in DOMAIN batch : AbortInFlight(i)
  <2>1. outbox' = outbox
    BY <1>7 DEF Abort, AbortInFlight, DropBatch
  <2>2. PICK i \in DOMAIN batch :
            Current(i) /\ (lapses' = lapses \/ lapses' = Lapse(Ext(i)))
    BY <1>7 DEF Abort, AbortInFlight, AtCreate
  <2>3. i \in DOMAIN outbox /\ Ext(i) = outbox[i].payload.ext
    BY <1>1, <2>2, CurrentJob DEF Ext
  <2>. QED
    BY <2>1, <2>2, <2>3 DEF Keeps, Lapse
<1>8. CASE Abort
  BY <1>7, <1>8
<1>9. ASSUME NEW i \in DOMAIN batch, AbortInFlight(i) PROVE Keeps
  BY <1>7, <1>9
<1>10. ASSUME NEW id \in DOMAIN deals, OnSalesDrive(id) PROVE Keeps
  BY <1>2, <1>10 DEF OnSalesDrive
<1>11. ASSUME NEW i \in DOMAIN batch, CreateDeal(i) PROVE Keeps
  BY <1>2, <1>11 DEF CreateDeal
<1>12. ASSUME NEW ext \in ExternalIds, LateDeal(ext) PROVE Keeps
  BY <1>2, <1>12 DEF LateDeal
<1>13. CASE ProcessOnce \/ UNCHANGED vars
  BY <1>2, <1>13 DEF ProcessOnce, vars, outboxVars
<1>. QED
  BY <1>3, <1>4, <1>5, <1>6, <1>8, <1>9, <1>10, <1>11, <1>12, <1>13 DEF Next

------------------------------------------------------------------------------

\* The bridge does what the ledger promises: an order that is done is linked to
\* a deal of its own, links are for good, and no deal is made beyond the first
\* but where a lapse has allowed for it.
THEOREM Implementation == Spec => LedgerSpec
<1>1. Init => LapsesInv /\ Ledger!Init
  <2>. SUFFICES ASSUME Init PROVE LapsesInv /\ Ledger!Init
    OBVIOUS
  <2>1. /\ orders = [ext \in {} |-> NoId] /\ outbox = <<>> /\ deals = <<>>
        /\ lapses = [ext \in ExternalIds |-> 0]
    BY DEF Init, OutboxInit, NoOrders
  <2>. QED
    BY <2>1 DEF LapsesInv, Ledger!Init, Status, InState, Links, NoId
<1>2. IInv /\ LapsesInv /\ [Next]_vars => LapsesInv'
  BY StepKeeps, KeepsLapses DEF LedgerInv
<1>3. IInv /\ LapsesInv /\ [Next]_vars => [Ledger!Next]_(Ledger!vars)
  BY StepShows DEF LedgerInv, LedgerStep
<1>. QED
  BY <1>1, <1>2, <1>3, Invariance, PTL DEF Spec, LedgerSpec, Ledger!Spec
==============================================================================
