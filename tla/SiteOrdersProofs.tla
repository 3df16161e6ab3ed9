--------------------------- MODULE SiteOrdersProofs ---------------------------
(***************************************************************************)
(* Proofs about SiteOrders, for any set of orders, any bound on attempts,  *)
(* any batch limit and any number of lapses.  IInv is inductive; it holds  *)
(* the safety properties of SiteOrders as conjuncts or implies them.       *)
(***************************************************************************)
EXTENDS SiteOrders, FiniteSetTheorems, TLAPS

------------------------------------------------------------------------------
(* What the outcomes of a step write *)

\* Job i of the next state's outbox has these mutable columns; all else is kept.
Written(i, s, a, d) ==
    outbox' = [outbox EXCEPT ![i] = [@ EXCEPT !.state = s, !.attempts = a,
                                              !.due = d]]

\* The row-by-row meaning of Written.
Rows(i, s, a, d) ==
    /\ outbox' \in Seq(CreateJob)
    /\ DOMAIN outbox' = DOMAIN outbox
    /\ \A k \in DOMAIN outbox : k # i => outbox'[k] = outbox[k]
    /\ outbox'[i].key = outbox[i].key
    /\ outbox'[i].kind = outbox[i].kind
    /\ outbox'[i].payload = outbox[i].payload
    /\ outbox'[i].state = s
    /\ outbox'[i].attempts = a
    /\ outbox'[i].due = d

\* A row written with proper values leaves a proper outbox.
LEMMA WrittenRows ==
    ASSUME TypeOK, NEW i \in DOMAIN outbox,
           NEW s \in JobStates, NEW a \in Nat, NEW d \in BOOLEAN,
           Written(i, s, a, d)
    PROVE  Rows(i, s, a, d)
<1> DEFINE job == [outbox[i] EXCEPT !.state = s, !.attempts = a, !.due = d]
<1>1. outbox \in Seq(CreateJob) /\ outbox[i] \in CreateJob
  BY DEF TypeOK
<1>2. job \in CreateJob
  BY <1>1 DEF CreateJob
<1>3. outbox' = [outbox EXCEPT ![i] = job]
  BY DEF Written
<1>4. outbox' \in Seq(CreateJob) /\ DOMAIN outbox' = DOMAIN outbox
  BY <1>1, <1>2, <1>3
<1>5. /\ \A k \in DOMAIN outbox : k # i => outbox'[k] = outbox[k]
      /\ outbox'[i] = job
  BY <1>1, <1>3
<1>6. /\ job.key = outbox[i].key
      /\ job.kind = outbox[i].kind
      /\ job.payload = outbox[i].payload
      /\ job.state = s /\ job.attempts = a /\ job.due = d
  BY <1>1 DEF CreateJob
<1>. QED
  BY <1>4, <1>5, <1>6 DEF Rows

\* Every job of the outbox creates the order it names.
LEMMA JobTyped ==
    ASSUME TypeOK, NEW i \in DOMAIN outbox
    PROVE  /\ outbox[i] \in CreateJob
           /\ outbox[i].kind = "create_order"
           /\ outbox[i].payload.ext \in ExternalIds
           /\ outbox[i].state \in JobStates
           /\ outbox[i].attempts \in Nat
<1>1. outbox[i] \in CreateJob
  BY DEF TypeOK
<1>. QED
  BY <1>1 DEF CreateJob

\* The job the worker is at is one of the outbox, pending and due, and the
\* worker's copy of it is fresh.
LEMMA CurrentJob ==
    ASSUME TypeOK, BatchFresh, NEW i, Current(i)
    PROVE  /\ i \in DOMAIN batch /\ i \in DOMAIN outbox
           /\ batch[i] = outbox[i] /\ outbox[i] \in CreateJob
           /\ outbox[i].state = "pending" /\ outbox[i].due = TRUE
           /\ outbox[i].attempts \in Nat
           /\ outbox[i].payload.ext \in ExternalIds
<1>1. i \in DOMAIN batch /\ i \in DOMAIN outbox /\ outbox[i] \in CreateJob
  BY DEF Current, TypeOK
<1>2. /\ outbox[i].due \in BOOLEAN /\ outbox[i].attempts \in Nat
      /\ outbox[i].payload.ext \in ExternalIds
  BY <1>1 DEF CreateJob
<1>. QED
  BY <1>1, <1>2 DEF BatchFresh, IsDue

\* The worker's copy being fresh, a finished job's row changes to done only.
LEMMA FinishWrites ==
    ASSUME TypeOK, BatchFresh, NEW i, Current(i), Finish(i)
    PROVE  Rows(i, "done", outbox[i].attempts, TRUE) /\ Advance(i)
<1>1. /\ i \in DOMAIN batch /\ i \in DOMAIN outbox
      /\ batch[i] = outbox[i] /\ outbox[i].due = TRUE
      /\ outbox[i] \in CreateJob
  BY CurrentJob
<1>2. Written(i, "done", outbox[i].attempts, TRUE)
  BY <1>1 DEF Finish, UpdateJob, Written, CreateJob
<1>. QED
  BY <1>1, <1>2, WrittenRows DEF Finish, CreateJob, JobStates

\* A failed job's row changes to failed, its attempts being kept.
LEMMA FailWrites ==
    ASSUME TypeOK, BatchFresh, NEW i, Current(i), Fail(i)
    PROVE  Rows(i, "failed", outbox[i].attempts, TRUE) /\ Advance(i)
<1>1. /\ i \in DOMAIN batch /\ i \in DOMAIN outbox
      /\ batch[i] = outbox[i] /\ outbox[i].due = TRUE
      /\ outbox[i] \in CreateJob
  BY CurrentJob
<1>2. Written(i, "failed", outbox[i].attempts, TRUE)
  BY <1>1 DEF Fail, UpdateJob, Written, CreateJob
<1>. QED
  BY <1>1, <1>2, WrittenRows DEF Fail, CreateJob, JobStates

\* A retried job's row shows one attempt more, whether it waits or has failed.
LEMMA RetryWrites ==
    ASSUME TypeOK, BatchFresh, NEW i, Current(i), Retry(i)
    PROVE  /\ \E s \in {"pending", "failed"}, d \in BOOLEAN :
                  Rows(i, s, outbox[i].attempts + 1, d)
           /\ Advance(i)
<1>1. /\ i \in DOMAIN batch /\ i \in DOMAIN outbox
      /\ batch[i] = outbox[i] /\ outbox[i].due = TRUE
      /\ outbox[i].state = "pending"
      /\ outbox[i] \in CreateJob
  BY CurrentJob
<1> DEFINE tried == [batch[i] EXCEPT !.attempts = @ + 1]
<1>2. /\ tried.state = "pending" /\ tried.due = TRUE
      /\ tried.attempts = outbox[i].attempts + 1
      /\ tried.attempts \in Nat
  BY <1>1 DEF CreateJob
<1>3. CASE tried.attempts >= MaxAttempts
  <2>1. outbox' = UpdateJob(outbox, i, [tried EXCEPT !.state = "failed"])
    BY <1>3 DEF Retry
  <2>2. Written(i, "failed", outbox[i].attempts + 1, TRUE)
    BY <1>1, <1>2, <2>1 DEF UpdateJob, Written, CreateJob
  <2>. QED
    BY <1>1, <1>2, <2>2, WrittenRows DEF Retry, CreateJob, JobStates
<1>4. CASE ~(tried.attempts >= MaxAttempts)
  <2>1. outbox' = UpdateJob(outbox, i, [tried EXCEPT !.due = FALSE])
    BY <1>4 DEF Retry
  <2>2. Written(i, "pending", outbox[i].attempts + 1, FALSE)
    BY <1>1, <1>2, <2>1 DEF UpdateJob, Written, CreateJob
  <2>. QED
    BY <1>1, <1>2, <2>2, WrittenRows DEF Retry, CreateJob, JobStates
<1>. QED
  BY <1>3, <1>4
------------------------------------------------------------------------------
(* What the handlers write *)

\* Storing a CRM id touches one order, and that only while it has none.
LEMMA SetIdWrites ==
    ASSUME TypeOK, NEW ext, NEW id \in Nat,
           orders' = SetSDOrderID(orders, ext, id)
    PROVE  /\ DOMAIN orders' = DOMAIN orders
           /\ orders' \in [DOMAIN orders' -> Nat]
           /\ \A x \in DOMAIN orders :
                 orders'[x] = IF x = ext /\ orders[x] = NoId
                              THEN id ELSE orders[x]
  BY DEF TypeOK, SetSDOrderID

\* A repeated order changes nothing; a new one gets a row and, no job having its
\* key, a create job at the end of the outbox.
LEMMA IngestWrites ==
    ASSUME TypeOK, QueueInv, NEW ext \in ExternalIds, Ingest(ext)
    PROVE  \/ orders' = orders /\ outbox' = outbox
           \/ /\ ext \notin DOMAIN orders
              /\ DOMAIN orders' = DOMAIN orders \cup {ext}
              /\ orders' \in [DOMAIN orders' -> Nat]
              /\ \A x \in DOMAIN orders : orders'[x] = orders[x]
              /\ orders'[ext] = NoId
              /\ outbox' \in Seq(CreateJob)
              /\ DOMAIN outbox' = DOMAIN outbox \cup {Len(outbox) + 1}
              /\ Len(outbox) + 1 \notin DOMAIN outbox
              /\ \A k \in DOMAIN outbox : outbox'[k] = outbox[k]
              /\ outbox'[Len(outbox) + 1].key = CreateKey(ext)
              /\ outbox'[Len(outbox) + 1].payload.ext = ext
              /\ outbox'[Len(outbox) + 1].state = "pending"
<1>1. CASE ext \in DOMAIN orders
  BY <1>1 DEF Ingest, InsertOrder, TypeOK
<1>2. CASE ext \notin DOMAIN orders
  <2> DEFINE job == [key |-> CreateKey(ext), kind |-> "create_order",
                     payload |-> [ext |-> ext], state |-> "pending",
                     attempts |-> 0, due |-> TRUE]
  <2>1. ~HasKey(outbox, CreateKey(ext))
    BY <1>2 DEF QueueInv, HasKey, CreateKey
  <2>2. outbox' = Append(outbox, job)
    BY <1>2, <2>1 DEF Ingest, EnqueueCreate, Enqueue, NewJob
  <2>3. job \in CreateJob /\ outbox \in Seq(CreateJob)
    BY DEF CreateJob, CreateKey, JobStates, TypeOK
  <2>4. /\ outbox' \in Seq(CreateJob)
        /\ DOMAIN outbox' = DOMAIN outbox \cup {Len(outbox) + 1}
        /\ Len(outbox) + 1 \notin DOMAIN outbox
        /\ \A k \in DOMAIN outbox : outbox'[k] = outbox[k]
        /\ outbox'[Len(outbox) + 1] = job
    BY <2>2, <2>3
  <2>5. /\ DOMAIN orders' = DOMAIN orders \cup {ext}
        /\ orders' \in [DOMAIN orders' -> Nat]
        /\ \A x \in DOMAIN orders : orders'[x] = orders[x]
        /\ orders'[ext] = NoId
    BY <1>2 DEF Ingest, InsertOrder, TypeOK, NoId
  <2>. QED
    BY <1>2, <2>4, <2>5
<1>. QED
  BY <1>1, <1>2

\* A requeue rewrites a failed job's row and nothing else.
LEMMA RequeueWrites ==
    ASSUME TypeOK, NEW i \in DOMAIN outbox, Requeue(i)
    PROVE  \/ outbox[i].state # "failed" /\ outbox' = outbox
           \/ outbox[i].state = "failed" /\ Rows(i, "pending", 0, TRUE)
<1>1. CASE outbox[i].state # "failed"
  BY <1>1 DEF Requeue, RequeueJob
<1>2. CASE outbox[i].state = "failed"
  <2>1. Written(i, "pending", 0, TRUE)
    BY <1>2 DEF Requeue, RequeueJob, Written
  <2>. QED
    BY <1>2, <2>1, WrittenRows DEF JobStates
<1>. QED
  BY <1>1, <1>2

\* A backoff that elapses makes the job's row due and keeps the rest of it.
LEMMA BackoffWrites ==
    ASSUME TypeOK, NEW i \in DOMAIN outbox, BackoffElapses(i)
    PROVE  Rows(i, "pending", outbox[i].attempts, TRUE)
<1>1. outbox[i] \in CreateJob
  BY DEF TypeOK
<1>2. Written(i, "pending", outbox[i].attempts, TRUE)
  BY <1>1 DEF BackoffElapses, Written, CreateJob
<1>. QED
  BY <1>1, <1>2, WrittenRows DEF CreateJob, JobStates

------------------------------------------------------------------------------
(* Counting deals *)

\* The deals of an order are finitely many.
LEMMA DealsFinite ==
    ASSUME TypeOK, NEW ext
    PROVE  /\ IsFiniteSet(DealsOf(ext))
           /\ Cardinality(DealsOf(ext)) \in Nat
           /\ DealsOf(ext) \subseteq Nat \ {0}
<1>1. deals \in Seq(ExternalIds) /\ Len(deals) \in Nat
      /\ DOMAIN deals = 1 .. Len(deals)
  BY DEF TypeOK
<1>2. IsFiniteSet(1 .. Len(deals))
  BY <1>1, FS_Interval
<1>3. DealsOf(ext) \in SUBSET (1 .. Len(deals))
  BY <1>1 DEF DealsOf
<1>4. IsFiniteSet(DealsOf(ext))
  BY <1>2, <1>3, FS_Subset
<1>. QED
  BY <1>1, <1>3, <1>4, FS_CardinalityType

\* A deal more for one order is one more of its deals, and none of another's.
LEMMA DealAppended ==
    ASSUME TypeOK, NEW ext \in ExternalIds, deals' = Append(deals, ext)
    PROVE  /\ deals' \in Seq(ExternalIds)
           /\ Len(deals) + 1 \in DealsOf(ext)'
           /\ \A x : DealsOf(x) \subseteq DealsOf(x)'
           /\ \A x : Cardinality(DealsOf(x))'
                      = IF x = ext THEN Cardinality(DealsOf(x)) + 1
                                   ELSE Cardinality(DealsOf(x))
<1>1. deals \in Seq(ExternalIds) /\ Len(deals) \in Nat
  BY DEF TypeOK
<1>2. /\ deals' \in Seq(ExternalIds)
      /\ DOMAIN deals' = DOMAIN deals \cup {Len(deals) + 1}
      /\ Len(deals) + 1 \notin DOMAIN deals
      /\ \A k \in DOMAIN deals : deals'[k] = deals[k]
      /\ deals'[Len(deals) + 1] = ext
  BY <1>1
<1>3. DealsOf(ext)' = DealsOf(ext) \cup {Len(deals) + 1}
      /\ Len(deals) + 1 \notin DealsOf(ext)
  BY <1>2 DEF DealsOf
<1>4. \A x : x # ext => DealsOf(x)' = DealsOf(x)
  BY <1>2 DEF DealsOf
<1>5. Cardinality(DealsOf(ext))' = Cardinality(DealsOf(ext)) + 1
  <2>1. IsFiniteSet(DealsOf(ext))
    BY DealsFinite
  <2>. QED
    BY <1>3, <2>1, FS_AddElement
<1>. QED
  BY <1>2, <1>3, <1>4, <1>5
------------------------------------------------------------------------------
(* What every outcome keeps, whichever it is *)

\* One row rewritten does not disturb the queue.
LEMMA RowsKeepQueue ==
    ASSUME TypeOK, QueueInv, NEW i \in DOMAIN outbox, NEW s, NEW a, NEW d,
           Rows(i, s, a, d), DOMAIN orders' = DOMAIN orders
    PROVE  QueueInv'
<1>1. \A k \in DOMAIN outbox : /\ outbox'[k].key = outbox[k].key
                               /\ outbox'[k].payload = outbox[k].payload
  BY DEF Rows
<1>. QED
  BY <1>1 DEF QueueInv, Rows, CreateKey

\* The worker goes on to the jobs after the one it has settled.
LEMMA AdvanceKeepsWorker ==
    ASSUME TypeOK, QueueInv, BatchFresh, WorkerInv,
           NEW i, Current(i), NEW s, NEW a, NEW d,
           Rows(i, s, a, d), Advance(i)
    PROVE  /\ pc' \in {"idle", "step"}
           /\ dealId' \in Nat
           /\ DOMAIN batch' \subseteq DOMAIN outbox'
           /\ batch' \in [DOMAIN batch' -> CreateJob]
           /\ BatchFresh'
           /\ WorkerInv'
<1>1. /\ i \in DOMAIN batch
      /\ DOMAIN batch \subseteq DOMAIN outbox
      /\ batch \in [DOMAIN batch -> CreateJob]
  BY DEF Current, TypeOK
<1>2. /\ DOMAIN batch' = DOMAIN batch \ {i}
      /\ \A k \in DOMAIN batch' : batch'[k] = batch[k]
      /\ batch' \in [DOMAIN batch' -> CreateJob]
  BY <1>1 DEF Advance
<1>3. pc' = IF DOMAIN batch = {i} THEN "idle" ELSE "step"
  BY DEF Advance
<1>4. dealId' \in Nat
  BY DEF Advance, NoId
<1>5. BatchFresh'
  BY <1>1, <1>2 DEF BatchFresh, IsDue, Rows
<1>6. WorkerInv'
  BY <1>1, <1>2, <1>3 DEF WorkerInv
<1>. QED
  BY <1>1, <1>2, <1>3, <1>4, <1>5, <1>6 DEF Rows

\* The worker is at one job at most.
LEMMA CurrentUnique ==
    ASSUME TypeOK, NEW i, NEW k, Current(i), Current(k)
    PROVE  i = k
<1>1. DOMAIN outbox = 1 .. Len(outbox) /\ Len(outbox) \in Nat
  BY DEF TypeOK
<1>2. i \in Nat /\ k \in Nat
  BY <1>1 DEF Current, TypeOK
<1>. QED
  BY <1>2 DEF Current

\* An outcome that is done, counts an attempt, or is an answer given before the
\* CRM has acted, leaves the outbox with the evidence it should have.
LEMMA OutcomeKeepsEvidence ==
    ASSUME IInv, NEW i, Current(i), NEW s, NEW a \in Nat, NEW d,
           Rows(i, s, a, d), Advance(i),
           UNCHANGED <<crmVars, lapses>>,
           \/ s = "done"
           \/ a > 0
           \/ pc # "executed" /\ a = outbox[i].attempts
    PROVE  EvidenceInv'
<1>1. TypeOK /\ QueueInv /\ BatchFresh /\ WorkerInv /\ EvidenceInv
  BY DEF IInv
<1>2. i \in DOMAIN outbox /\ outbox[i].state = "pending"
  BY <1>1 DEF Current, TypeOK, BatchFresh, IsDue
<1>3. /\ late' = late /\ lapses' = lapses
      /\ \A ext : Made(ext)' = Made(ext)
  BY DEF crmVars, Made, DealsOf
<1>4. pc' \in {"idle", "step"}
  BY DEF Advance
<1>5. \A k \in DOMAIN outbox : outbox'[k].payload = outbox[k].payload
  BY DEF Rows
<1>6. DOMAIN outbox' = DOMAIN outbox
  BY DEF Rows
<1>7. EvidenceOfAll'
  BY <1>1, <1>3, <1>5, <1>6 DEF EvidenceInv, EvidenceOfAll
<1>8. ASSUME NEW ext \in ExternalIds, NEW k \in DOMAIN outbox,
             outbox'[k].payload.ext = ext,
             outbox'[k].state # "done", outbox'[k].attempts = 0
      PROVE  Made(ext)' <= lapses'[ext]
  <2>1. CASE k = i
    <3>1. s # "done" /\ ~(a > 0)
      BY <1>8, <2>1 DEF Rows
    <3>2. outbox[i].attempts = 0 /\ ~Executing(i)
      BY <3>1, <1>8, <2>1 DEF Rows, Executing
    <3>3. Made(ext) <= lapses[ext]
      BY <1>1, <1>2, <1>5, <1>8, <2>1, <3>2
      DEF EvidenceInv, EvidenceOfJobs
    <3>. QED
      BY <3>3, <1>3
  <2>2. CASE k # i
    <3>1. ~Executing(k)
      BY <1>1, <2>2, CurrentUnique DEF Executing
    <3>2. outbox'[k] = outbox[k]
      BY <2>2 DEF Rows
    <3>3. Made(ext) <= lapses[ext]
      BY <1>1, <1>8, <3>1, <3>2 DEF EvidenceInv, EvidenceOfJobs
    <3>. QED
      BY <3>3, <1>3
  <2>. QED
    BY <2>1, <2>2
<1>9. EvidenceOfJobs'
  BY <1>6, <1>8 DEF EvidenceOfJobs
<1>10. EvidenceOfWorker'
  BY <1>4 DEF EvidenceOfWorker
<1>. QED
  BY <1>7, <1>9, <1>10 DEF EvidenceInv

\* Links survive whatever becomes of a job, unless it is done without one.
LEMMA LinksKept ==
    ASSUME TypeOK, QueueInv, KnownIdIsItsDeal, DoneMeansLinked,
           NEW i \in DOMAIN outbox, NEW s, NEW a, NEW d, Rows(i, s, a, d),
           UNCHANGED orders,
           s = "done" => orders[outbox[i].payload.ext] # NoId,
           \A x : DealsOf(x) \subseteq DealsOf(x)'
    PROVE  KnownIdIsItsDeal' /\ DoneMeansLinked'
  BY DEF KnownIdIsItsDeal, DoneMeansLinked, Rows
\* A job is done together with its order's getting a CRM id, one of its deals.
LEMMA LinkStored ==
    ASSUME TypeOK, QueueInv, KnownIdIsItsDeal, DoneMeansLinked,
           NEW i \in DOMAIN outbox, NEW a, NEW d, Rows(i, "done", a, d),
           NEW id \in DealsOf(outbox[i].payload.ext),
           orders' = SetSDOrderID(orders, outbox[i].payload.ext, id),
           UNCHANGED deals
    PROVE  KnownIdIsItsDeal' /\ DoneMeansLinked'
<1> DEFINE ext == outbox[i].payload.ext
<1>1. id \in Nat \ {0}
  BY DealsFinite
<1>2. /\ DOMAIN orders' = DOMAIN orders
      /\ \A x \in DOMAIN orders :
            orders'[x] = IF x = ext /\ orders[x] = NoId THEN id ELSE orders[x]
  BY <1>1, SetIdWrites
<1>3. ext \in DOMAIN orders
  BY DEF QueueInv
<1>4. \A x : DealsOf(x)' = DealsOf(x)
  BY DEF DealsOf
<1>5. KnownIdIsItsDeal'
  BY <1>2, <1>4 DEF KnownIdIsItsDeal
<1>6. DoneMeansLinked'
  BY <1>1, <1>2, <1>3 DEF DoneMeansLinked, QueueInv, Rows, NoId
<1>. QED
  BY <1>5, <1>6

------------------------------------------------------------------------------
(* The steps of the worker *)

\* A job that is retried or fails, the CRM having done nothing since the last
\* step or the attempt being counted.
LEMMA FailedStep ==
    ASSUME IInv, NEW i, Current(i),
           \/ Retry(i)
           \/ Fail(i) /\ pc # "executed",
           UNCHANGED <<orders, crmVars, lapses, spent>>
    PROVE  IInv'
<1>1. /\ TypeOK /\ QueueInv /\ BatchFresh /\ WorkerInv
      /\ KnownIdIsItsDeal /\ DoneMeansLinked
  BY DEF IInv
<1>2. i \in DOMAIN outbox /\ outbox[i].attempts \in Nat
  BY <1>1, CurrentJob
<1>3. PICK s \in {"pending", "failed"}, a \in Nat, d \in BOOLEAN :
          /\ Rows(i, s, a, d)
          /\ Advance(i)
          /\ a > 0 \/ (pc # "executed" /\ a = outbox[i].attempts)
  <2>1. CASE Retry(i)
    BY <1>1, <1>2, <2>1, RetryWrites
  <2>2. CASE Fail(i) /\ pc # "executed"
    BY <1>1, <1>2, <2>2, FailWrites
  <2>. QED
    BY <2>1, <2>2
<1>4. EvidenceInv'
  BY <1>2, <1>3, OutcomeKeepsEvidence
<1>5. QueueInv'
  BY <1>1, <1>2, <1>3, RowsKeepQueue
<1>6. /\ pc' \in {"idle", "step"}
      /\ dealId' \in Nat
      /\ DOMAIN batch' \subseteq DOMAIN outbox'
      /\ batch' \in [DOMAIN batch' -> CreateJob]
      /\ BatchFresh' /\ WorkerInv'
  BY <1>1, <1>3, AdvanceKeepsWorker
<1>7. KnownIdIsItsDeal' /\ DoneMeansLinked'
  <2>1. \A x : DealsOf(x) \subseteq DealsOf(x)'
    BY DEF DealsOf, crmVars
  <2>. QED
    BY <1>1, <1>2, <1>3, <2>1, LinksKept
<1>8. TypeOK'
  BY <1>1, <1>3, <1>6 DEF TypeOK, Rows, crmVars
<1>. QED
  BY <1>4, <1>5, <1>6, <1>7, <1>8 DEF IInv

\* A job that is done, by an answer or a lookup that named a deal of its order.
LEMMA FinishedStep ==
    ASSUME IInv, NEW i, Current(i), Finish(i),
           NEW id \in DealsOf(outbox[i].payload.ext),
           orders' = SetSDOrderID(orders, outbox[i].payload.ext, id),
           UNCHANGED <<crmVars, lapses, spent>>
    PROVE  IInv'
<1>1. /\ TypeOK /\ QueueInv /\ BatchFresh /\ WorkerInv
      /\ KnownIdIsItsDeal /\ DoneMeansLinked
  BY DEF IInv
<1>2. i \in DOMAIN outbox /\ outbox[i].attempts \in Nat
  BY <1>1, CurrentJob
<1>3. Rows(i, "done", outbox[i].attempts, TRUE) /\ Advance(i)
  BY <1>1, FinishWrites
<1>4. EvidenceInv'
  BY <1>2, <1>3, OutcomeKeepsEvidence
<1>5. id \in Nat
  BY <1>1, DealsFinite
<1>6. DOMAIN orders' = DOMAIN orders /\ orders' \in [DOMAIN orders' -> Nat]
  BY <1>1, <1>5, SetIdWrites
<1>7. QueueInv'
  BY <1>1, <1>2, <1>3, <1>6, RowsKeepQueue
<1>8. /\ pc' \in {"idle", "step"}
      /\ dealId' \in Nat
      /\ DOMAIN batch' \subseteq DOMAIN outbox'
      /\ batch' \in [DOMAIN batch' -> CreateJob]
      /\ BatchFresh' /\ WorkerInv'
  BY <1>1, <1>3, AdvanceKeepsWorker
<1>9. KnownIdIsItsDeal' /\ DoneMeansLinked'
  BY <1>1, <1>2, <1>3, LinkStored DEF crmVars
<1>10. TypeOK'
  BY <1>1, <1>3, <1>6, <1>8 DEF TypeOK, Rows, crmVars
<1>. QED
  BY <1>4, <1>7, <1>8, <1>9, <1>10 DEF IInv

\* A timed-out request the CRM will act on later: a lapse pays for its deal.
LEMMA CreateTimedOutStep ==
    ASSUME IInv, NEW i, CreateTimedOut(i)
    PROVE  IInv'
<1>1. /\ TypeOK /\ QueueInv /\ BatchFresh /\ WorkerInv /\ EvidenceInv
      /\ KnownIdIsItsDeal /\ DoneMeansLinked
  BY DEF IInv
<1>2. Current(i) /\ i \in DOMAIN outbox /\ batch[i] = outbox[i]
  BY <1>1, CurrentJob DEF CreateTimedOut, AtCreate
<1> DEFINE e == outbox[i].payload.ext
<1>3. outbox[i] \in CreateJob /\ e \in ExternalIds /\ outbox[i].attempts \in Nat
  BY <1>1, <1>2, CurrentJob
<1>4. PICK s \in {"pending", "failed"}, d \in BOOLEAN :
          Rows(i, s, outbox[i].attempts + 1, d) /\ Advance(i)
  BY <1>1, <1>2, RetryWrites DEF CreateTimedOut
<1>5. /\ late' = [late EXCEPT ![e] = @ + 1]
      /\ lapses' = [lapses EXCEPT ![e] = @ + 1]
      /\ orders' = orders /\ deals' = deals
  BY <1>2 DEF CreateTimedOut, Lapse, Ext
<1>6. \A x \in ExternalIds :
          /\ Cardinality(DealsOf(x)) \in Nat /\ late[x] \in Nat
          /\ lapses[x] \in Nat
          /\ lapses'[x] = IF x = e THEN lapses[x] + 1 ELSE lapses[x]
          /\ late'[x] = IF x = e THEN late[x] + 1 ELSE late[x]
  BY <1>1, <1>3, <1>5, DealsFinite DEF TypeOK
<1>7. \A x : Cardinality(DealsOf(x))' = Cardinality(DealsOf(x))
  BY <1>5 DEF DealsOf
<1>8. \A x \in ExternalIds :
          Made(x)' = IF x = e THEN Made(x) + 1 ELSE Made(x)
  BY <1>6, <1>7 DEF Made
<1>9. EvidenceInv'
  <2>1. \A x \in ExternalIds : Made(x) \in Nat
    BY <1>6 DEF Made
  <2>2. EvidenceOfAll'
    <3>1. \A x \in ExternalIds : /\ late[x] <= lapses[x]
                                 /\ Made(x) <= 1 + lapses[x]
      BY <1>1 DEF EvidenceInv, EvidenceOfAll
    <3>2. \A x \in ExternalIds : /\ late'[x] <= lapses'[x]
                                 /\ Made(x)' <= 1 + lapses'[x]
      BY <1>6, <1>8, <2>1, <3>1
    <3>3. ASSUME NEW x \in ExternalIds,
                 \A k \in DOMAIN outbox' : outbox'[k].payload.ext # x
          PROVE  Made(x)' <= lapses'[x]
      <4>1. \A k \in DOMAIN outbox : outbox'[k].payload = outbox[k].payload
        BY <1>4 DEF Rows
      <4>2. x # e /\ \A k \in DOMAIN outbox : outbox[k].payload.ext # x
        BY <1>2, <1>4, <3>3, <4>1 DEF Rows
      <4>3. Made(x) <= lapses[x]
        BY <1>1, <4>2 DEF EvidenceInv, EvidenceOfAll
      <4>. QED
        BY <1>6, <1>8, <4>2, <4>3
    <3>. QED
      BY <3>2, <3>3 DEF EvidenceOfAll
  <2>3. ASSUME NEW x \in ExternalIds, NEW k \in DOMAIN outbox,
               outbox'[k].payload.ext = x,
               outbox'[k].state # "done", outbox'[k].attempts = 0
        PROVE  Made(x)' <= lapses'[x]
    <3>1. k # i
      BY <1>3, <1>4, <2>3 DEF Rows
    <3>2. outbox'[k] = outbox[k] /\ x # e
      BY <1>1, <1>2, <1>4, <2>3, <3>1 DEF Rows, QueueInv
    <3>3. ~Executing(k)
      BY <1>1, <1>2, <3>1, CurrentUnique DEF Executing
    <3>4. Made(x) <= lapses[x]
      BY <1>1, <2>3, <3>2, <3>3 DEF EvidenceInv, EvidenceOfJobs
    <3>. QED
      BY <1>6, <1>8, <3>2, <3>4
  <2>4. EvidenceOfJobs'
    BY <1>4, <2>3 DEF EvidenceOfJobs, Rows
  <2>5. EvidenceOfWorker'
    BY <1>4 DEF EvidenceOfWorker, Advance
  <2>. QED
    BY <2>2, <2>4, <2>5 DEF EvidenceInv
<1>10. QueueInv'
  BY <1>1, <1>2, <1>4, <1>5, RowsKeepQueue
<1>11. /\ pc' \in {"idle", "step"}
       /\ dealId' \in Nat
       /\ DOMAIN batch' \subseteq DOMAIN outbox'
       /\ batch' \in [DOMAIN batch' -> CreateJob]
       /\ BatchFresh' /\ WorkerInv'
  BY <1>1, <1>2, <1>4, AdvanceKeepsWorker
<1>12. KnownIdIsItsDeal' /\ DoneMeansLinked'
  <2>1. \A x : DealsOf(x) \subseteq DealsOf(x)'
    BY <1>5 DEF DealsOf
  <2>. QED
    BY <1>1, <1>2, <1>4, <1>5, <2>1, LinksKept
<1>13. TypeOK'
  <2>1. spent' \in [aborts : Nat, requeues : Nat, late : Nat]
    <3>1. spent \in [aborts : Nat, requeues : Nat, late : Nat]
      BY <1>1 DEF TypeOK
    <3>2. spent' = [spent EXCEPT !.late = @ + 1]
      BY DEF CreateTimedOut
    <3>. QED
      BY <3>1, <3>2
  <2>2. late' \in [ExternalIds -> Nat] /\ lapses' \in [ExternalIds -> Nat]
    BY <1>1, <1>3, <1>5 DEF TypeOK
  <2>. QED
    BY <1>1, <1>4, <1>5, <1>11, <2>1, <2>2 DEF TypeOK, Rows
<1>. QED
  BY <1>9, <1>10, <1>11, <1>12, <1>13 DEF IInv
\* A lookup that finds no deal leaves only the late ones, which lapses pay for.
LEMMA LookupMissedStep ==
    ASSUME IInv, NEW i, LookupMissed(i)
    PROVE  IInv'
<1>1. /\ TypeOK /\ QueueInv /\ BatchFresh /\ WorkerInv /\ EvidenceInv
      /\ KnownIdIsItsDeal /\ DoneMeansLinked
  BY DEF IInv
<1>2. /\ Current(i) /\ pc = "step" /\ pc' = "lookedUp"
      /\ UNCHANGED <<orders, outbox, batch, dealId, deals, late, lapses, spent>>
  BY DEF LookupMissed, AtCreate, crmVars
<1> DEFINE e == outbox[i].payload.ext
<1>3. batch[i] = outbox[i] /\ e \in ExternalIds
  BY <1>1, <1>2, CurrentJob
<1>4. Made(e) <= lapses[e]
  <2>1. DealsOf(e) = {}
    BY <1>3 DEF LookupMissed, DealsOf, Ext
  <2>2. Cardinality(DealsOf(e)) = 0
    BY <2>1, FS_EmptySet
  <2>3. late[e] \in Nat /\ late[e] <= lapses[e]
    BY <1>1, <1>3 DEF TypeOK, EvidenceInv, EvidenceOfAll
  <2>. QED
    BY <2>2, <2>3 DEF Made
<1>5. \A x : Made(x)' = Made(x)
  BY <1>2 DEF Made, DealsOf
<1>6. \A k : Current(k)' <=> Current(k)
  BY <1>2 DEF Current
<1>7. EvidenceOfWorker'
  BY <1>1, <1>2, <1>3, <1>4, <1>5, <1>6, CurrentUnique DEF EvidenceOfWorker
<1>8. EvidenceOfAll' /\ EvidenceOfJobs'
  BY <1>1, <1>2, <1>5
  DEF EvidenceInv, EvidenceOfAll, EvidenceOfJobs, Executing
<1>9. TypeOK' /\ QueueInv' /\ BatchFresh' /\ WorkerInv'
  BY <1>1, <1>2 DEF TypeOK, QueueInv, BatchFresh, WorkerInv
<1>10. KnownIdIsItsDeal' /\ DoneMeansLinked'
  BY <1>1, <1>2 DEF KnownIdIsItsDeal, DoneMeansLinked, DealsOf
<1>. QED
  BY <1>7, <1>8, <1>9, <1>10 DEF EvidenceInv, IInv

\* A create request goes out only where the outbox or a lookup rules a deal out.
LEMMA SendCreateStep ==
    ASSUME IInv, NEW i, SendCreate(i)
    PROVE  IInv'
<1>1. /\ TypeOK /\ QueueInv /\ BatchFresh /\ WorkerInv /\ EvidenceInv
      /\ KnownIdIsItsDeal /\ DoneMeansLinked
  BY DEF IInv
<1>2. /\ Current(i) /\ pc \in {"step", "lookedUp"} /\ pc' = "sent"
      /\ UNCHANGED <<orders, outbox, batch, dealId, deals, late, lapses, spent>>
  BY DEF SendCreate, AtCreate, crmVars
<1> DEFINE e == outbox[i].payload.ext
<1>3. /\ batch[i] = outbox[i] /\ e \in ExternalIds
      /\ i \in DOMAIN outbox /\ i \in DOMAIN batch
      /\ outbox[i].state = "pending"
  BY <1>1, <1>2, CurrentJob
<1>4. Made(e) <= lapses[e]
  <2>1. CASE pc = "step" /\ batch[i].attempts = 0
    BY <1>1, <1>3, <2>1 DEF EvidenceInv, EvidenceOfJobs, Executing
  <2>2. CASE pc = "lookedUp"
    BY <1>1, <1>2, <1>3, <2>2 DEF EvidenceInv, EvidenceOfWorker
  <2>. QED
    BY <2>1, <2>2 DEF SendCreate
<1>5. \A x : Made(x)' = Made(x)
  BY <1>2 DEF Made, DealsOf
<1>6. \A k : Current(k)' <=> Current(k)
  BY <1>2 DEF Current
<1>7. EvidenceOfWorker'
  BY <1>1, <1>2, <1>3, <1>4, <1>5, <1>6, CurrentUnique DEF EvidenceOfWorker
<1>8. EvidenceOfAll' /\ EvidenceOfJobs'
  BY <1>1, <1>2, <1>5
  DEF EvidenceInv, EvidenceOfAll, EvidenceOfJobs, Executing
<1>9. TypeOK' /\ QueueInv' /\ BatchFresh' /\ WorkerInv'
  BY <1>1, <1>2 DEF TypeOK, QueueInv, BatchFresh, WorkerInv
<1>10. KnownIdIsItsDeal' /\ DoneMeansLinked'
  BY <1>1, <1>2 DEF KnownIdIsItsDeal, DoneMeansLinked, DealsOf
<1>. QED
  BY <1>7, <1>8, <1>9, <1>10 DEF EvidenceInv, IInv

\* The deal the CRM makes is the first beyond the lapses, and its job is the one
\* the worker has an answer coming for.
LEMMA CreateDealStep ==
    ASSUME IInv, NEW i, CreateDeal(i)
    PROVE  IInv'
<1>1. /\ TypeOK /\ QueueInv /\ BatchFresh /\ WorkerInv /\ EvidenceInv
      /\ KnownIdIsItsDeal /\ DoneMeansLinked
  BY DEF IInv
<1>2. /\ Current(i) /\ pc = "sent" /\ pc' = "executed"
      /\ UNCHANGED <<orders, outbox, batch, late, lapses, spent>>
      /\ dealId' = Len(deals) + 1
  BY DEF CreateDeal, AtCreate
<1>3. /\ batch[i] = outbox[i] /\ outbox[i].payload.ext \in ExternalIds
      /\ i \in DOMAIN outbox /\ i \in DOMAIN batch
  BY <1>1, <1>2, CurrentJob
<1> PICK e \in ExternalIds : e = outbox[i].payload.ext
  BY <1>3
<1>4. deals' = Append(deals, e)
  BY <1>3 DEF CreateDeal, Ext
<1>5. /\ deals' \in Seq(ExternalIds)
      /\ Len(deals) + 1 \in DealsOf(e)'
      /\ \A x : DealsOf(x) \subseteq DealsOf(x)'
      /\ \A x : Cardinality(DealsOf(x))'
                  = IF x = e THEN Cardinality(DealsOf(x)) + 1
                             ELSE Cardinality(DealsOf(x))
  BY <1>1, <1>3, <1>4, DealAppended
<1>6. \A x \in ExternalIds :
          /\ Made(x) \in Nat /\ lapses[x] \in Nat
          /\ Made(x)' = IF x = e THEN Made(x) + 1 ELSE Made(x)
  <2>1. \A x \in ExternalIds : late[x] \in Nat /\ lapses[x] \in Nat
    BY <1>1 DEF TypeOK
  <2>2. \A x \in ExternalIds : Cardinality(DealsOf(x)) \in Nat
    BY <1>1, DealsFinite
  <2>. SUFFICES ASSUME NEW x \in ExternalIds
                PROVE  /\ Made(x) \in Nat /\ lapses[x] \in Nat
                       /\ Made(x)' = IF x = e THEN Made(x) + 1 ELSE Made(x)
    OBVIOUS
  <2>3. Made(x)' = Cardinality(DealsOf(x))' + late[x]
    BY <1>2 DEF Made
  <2>4. Made(x) = Cardinality(DealsOf(x)) + late[x] /\ Made(x) \in Nat
    BY <2>1, <2>2 DEF Made
  <2>5. CASE x = e
    BY <1>5, <2>1, <2>2, <2>3, <2>4, <2>5
  <2>6. CASE x # e
    BY <1>5, <2>1, <2>2, <2>3, <2>4, <2>6
  <2>. QED
    BY <2>1, <2>4, <2>5, <2>6
<1>7. \A k : Current(k)' <=> Current(k)
  BY <1>2 DEF Current
<1>8. Made(e) <= lapses[e]
  BY <1>1, <1>2, <1>3 DEF EvidenceInv, EvidenceOfWorker
<1>9. EvidenceOfAll'
  BY <1>1, <1>2, <1>3, <1>6, <1>8 DEF EvidenceInv, EvidenceOfAll
<1>10. EvidenceOfJobs'
  <2>1. ASSUME NEW x \in ExternalIds, NEW k \in DOMAIN outbox,
               outbox[k].payload.ext = x, outbox[k].state # "done",
               outbox[k].attempts = 0, ~Executing(k)'
        PROVE  Made(x)' <= lapses[x]
    <3>1. k # i
      BY <1>2, <1>7, <2>1 DEF Executing
    <3>2. x # e
      BY <1>1, <1>3, <2>1, <3>1 DEF QueueInv
    <3>3. ~Executing(k)
      BY <1>2 DEF Executing
    <3>4. Made(x) <= lapses[x]
      BY <1>1, <2>1, <3>3 DEF EvidenceInv, EvidenceOfJobs
    <3>. QED
      BY <1>6, <3>2, <3>4
  <2>. QED
    BY <1>2, <2>1 DEF EvidenceOfJobs
<1>11. EvidenceOfWorker'
  BY <1>2 DEF EvidenceOfWorker
<1>12. QueueInv' /\ BatchFresh'
  BY <1>1, <1>2 DEF QueueInv, BatchFresh
<1>13. WorkerInv'
  BY <1>1, <1>2, <1>3, <1>5, <1>7, CurrentUnique DEF WorkerInv, DealsOf
<1>14. KnownIdIsItsDeal' /\ DoneMeansLinked'
  BY <1>1, <1>2, <1>5 DEF KnownIdIsItsDeal, DoneMeansLinked
<1>15. TypeOK'
  BY <1>1, <1>2, <1>5 DEF TypeOK
<1>. QED
  BY <1>9, <1>10, <1>11, <1>12, <1>13, <1>14, <1>15 DEF EvidenceInv, IInv
\* A round begins with fresh copies of due jobs and nothing asked of the CRM.
LEMMA ProcessOnceStep ==
    ASSUME IInv, ProcessOnce
    PROVE  IInv'
<1>1. /\ TypeOK /\ QueueInv /\ BatchFresh /\ WorkerInv /\ EvidenceInv
      /\ KnownIdIsItsDeal /\ DoneMeansLinked
  BY DEF IInv
<1> DEFINE due == DueJobs(outbox, BatchLimit)
<1>2. /\ pc = "idle" /\ pc' = "step" /\ due # {}
      /\ batch' = [i \in due |-> outbox[i]]
      /\ UNCHANGED <<orders, outbox, dealId, deals, late, lapses, spent>>
  BY DEF ProcessOnce, crmVars
<1>3. due \subseteq DOMAIN outbox /\ \A i \in due : IsDue(outbox[i])
  BY DEF DueJobs
<1>4. \A x : Made(x)' = Made(x)
  BY <1>2 DEF Made, DealsOf
<1>5. EvidenceOfAll' /\ EvidenceOfJobs' /\ EvidenceOfWorker'
  BY <1>1, <1>2, <1>4
  DEF EvidenceInv, EvidenceOfAll, EvidenceOfJobs, EvidenceOfWorker, Executing
<1>6. BatchFresh' /\ WorkerInv'
  BY <1>2, <1>3 DEF BatchFresh, WorkerInv, IsDue
<1>7. TypeOK'
  <2>1. /\ DOMAIN batch' \subseteq DOMAIN outbox'
        /\ batch' \in [DOMAIN batch' -> CreateJob]
    BY <1>1, <1>2, <1>3 DEF TypeOK
  <2>. QED
    BY <1>1, <1>2, <2>1 DEF TypeOK
<1>8. QueueInv' /\ KnownIdIsItsDeal' /\ DoneMeansLinked'
  BY <1>1, <1>2 DEF QueueInv, KnownIdIsItsDeal, DoneMeansLinked, DealsOf
<1>. QED
  BY <1>5, <1>6, <1>7, <1>8 DEF EvidenceInv, IInv

------------------------------------------------------------------------------
(* The steps of the others *)

\* Where only a bound is used up, nothing else is disturbed.
LEMMA UnmovedStep ==
    ASSUME IInv, UNCHANGED <<orders, outbox, workerVars, crmVars, lapses>>,
           spent' \in [aborts : Nat, requeues : Nat, late : Nat]
    PROVE  IInv'
<1>1. UNCHANGED <<orders, outbox, pc, batch, dealId, deals, late, lapses>>
  BY DEF workerVars, crmVars
<1>2. TypeOK' /\ QueueInv' /\ BatchFresh'
  BY <1>1 DEF IInv, TypeOK, QueueInv, BatchFresh
<1>3. WorkerInv'
  BY <1>1 DEF IInv, WorkerInv, Current
<1>4. EvidenceInv'
  BY <1>1 DEF IInv, EvidenceInv, EvidenceOfAll, EvidenceOfJobs,
              EvidenceOfWorker, Made, DealsOf, Executing, Current
<1>5. KnownIdIsItsDeal' /\ DoneMeansLinked'
  BY <1>1 DEF IInv, KnownIdIsItsDeal, DoneMeansLinked, DealsOf
<1>. QED
  BY <1>2, <1>3, <1>4, <1>5 DEF IInv

\* A new order's job starts with no attempt, and no deal but for lapses.
LEMMA IngestStep ==
    ASSUME IInv, NEW ext \in ExternalIds, Ingest(ext)
    PROVE  IInv'
<1>1. /\ TypeOK /\ QueueInv /\ BatchFresh /\ WorkerInv /\ EvidenceInv
      /\ KnownIdIsItsDeal /\ DoneMeansLinked
  BY DEF IInv
<1>2. UNCHANGED <<pc, batch, dealId, deals, late, lapses, spent>>
  BY DEF Ingest, workerVars, crmVars
<1>3. CASE orders' = orders /\ outbox' = outbox
  BY <1>1, <1>2, <1>3, UnmovedStep DEF TypeOK, workerVars, crmVars
<1>4. CASE ~(orders' = orders /\ outbox' = outbox)
  <2> DEFINE n == Len(outbox) + 1
  <2>1. /\ ext \notin DOMAIN orders
        /\ DOMAIN orders' = DOMAIN orders \cup {ext}
        /\ orders' \in [DOMAIN orders' -> Nat]
        /\ \A x \in DOMAIN orders : orders'[x] = orders[x]
        /\ orders'[ext] = NoId
        /\ outbox' \in Seq(CreateJob)
        /\ DOMAIN outbox' = DOMAIN outbox \cup {n}
        /\ n \notin DOMAIN outbox
        /\ \A k \in DOMAIN outbox : outbox'[k] = outbox[k]
        /\ outbox'[n].key = CreateKey(ext)
        /\ outbox'[n].payload.ext = ext
        /\ outbox'[n].state = "pending"
    BY <1>1, <1>4, IngestWrites
  <2>2. \A k \in DOMAIN outbox : outbox[k].payload.ext # ext
    BY <1>1, <2>1 DEF QueueInv
  <2>3. DOMAIN batch \subseteq DOMAIN outbox
    BY <1>1 DEF TypeOK
  <2>4. /\ \A x : Made(x)' = Made(x)
        /\ \A x : DealsOf(x)' = DealsOf(x)
        /\ \A k : Executing(k)' <=> Executing(k)
        /\ \A k : Current(k)' <=> Current(k)
    BY <1>2 DEF Made, DealsOf, Executing, Current
  <2>5. TypeOK'
    BY <1>1, <1>2, <2>1 DEF TypeOK
  <2>6. QueueInv'
    BY <1>1, <2>1, <2>2 DEF QueueInv
  <2>7. BatchFresh' /\ WorkerInv'
    BY <1>1, <1>2, <2>1, <2>3, <2>4 DEF BatchFresh, WorkerInv, IsDue
  <2>8. Made(ext) <= lapses[ext]
    BY <1>1, <2>2 DEF EvidenceInv, EvidenceOfAll
  <2>9. EvidenceOfAll'
    BY <1>1, <1>2, <2>1, <2>4 DEF EvidenceInv, EvidenceOfAll
  <2>10. EvidenceOfJobs'
    BY <1>1, <1>2, <2>1, <2>4, <2>8 DEF EvidenceInv, EvidenceOfJobs
  <2>11. EvidenceOfWorker'
    BY <1>1, <1>2, <2>1, <2>3, <2>4 DEF EvidenceInv, EvidenceOfWorker
  <2>12. KnownIdIsItsDeal'
    BY <1>1, <2>1, <2>4 DEF KnownIdIsItsDeal
  <2>13. DoneMeansLinked'
    BY <1>1, <2>1 DEF DoneMeansLinked, QueueInv
  <2>. QED
    BY <2>5, <2>6, <2>7, <2>9, <2>10, <2>11, <2>12, <2>13
    DEF EvidenceInv, IInv
<1>. QED
  BY <1>3, <1>4

\* A webhook links an order to a deal that is its own.
LEMMA OnSalesDriveStep ==
    ASSUME IInv, NEW id \in DOMAIN deals, OnSalesDrive(id)
    PROVE  IInv'
<1>1. /\ TypeOK /\ QueueInv /\ BatchFresh /\ WorkerInv /\ EvidenceInv
      /\ KnownIdIsItsDeal /\ DoneMeansLinked
  BY DEF IInv
<1>2. UNCHANGED <<outbox, pc, batch, dealId, deals, late, lapses, spent>>
  BY DEF OnSalesDrive, workerVars, crmVars
<1>3. id \in DealsOf(deals[id]) /\ id \in Nat \ {0}
  BY <1>1, DealsFinite DEF DealsOf
<1>4. /\ DOMAIN orders' = DOMAIN orders
      /\ orders' \in [DOMAIN orders' -> Nat]
      /\ \A x \in DOMAIN orders :
            orders'[x] = IF x = deals[id] /\ orders[x] = NoId
                         THEN id ELSE orders[x]
  BY <1>1, <1>3, SetIdWrites DEF OnSalesDrive
<1>5. EvidenceInv'
  BY <1>1, <1>2
  DEF EvidenceInv, EvidenceOfAll, EvidenceOfJobs, EvidenceOfWorker,
      Made, DealsOf, Executing, Current
<1>6. BatchFresh' /\ WorkerInv'
  BY <1>1, <1>2 DEF BatchFresh, WorkerInv, Current
<1>7. QueueInv'
  BY <1>1, <1>2, <1>4 DEF QueueInv
<1>8. KnownIdIsItsDeal'
  BY <1>1, <1>2, <1>3, <1>4 DEF KnownIdIsItsDeal, DealsOf
<1>9. DoneMeansLinked'
  BY <1>1, <1>2, <1>3, <1>4 DEF DoneMeansLinked, QueueInv, NoId
<1>10. TypeOK'
  BY <1>1, <1>2, <1>4 DEF TypeOK
<1>. QED
  BY <1>5, <1>6, <1>7, <1>8, <1>9, <1>10 DEF IInv
\* A row that is not in the worker's hands is made pending and due again: its
\* deals stay accounted for if it kept its attempts, or a lapse was written down.
LEMMA RevivedStep ==
    ASSUME IInv, NEW i \in DOMAIN outbox, i \notin DOMAIN batch,
           outbox[i].state # "done", NEW a \in Nat,
           Rows(i, "pending", a, TRUE),
           UNCHANGED <<orders, workerVars, crmVars>>,
           spent' \in [aborts : Nat, requeues : Nat, late : Nat],
           \/ lapses' = lapses /\ (a = 0 => outbox[i].attempts = 0)
           \/ lapses' = [lapses EXCEPT ![outbox[i].payload.ext] = @ + 1]
    PROVE  IInv'
<1>1. /\ TypeOK /\ QueueInv /\ BatchFresh /\ WorkerInv /\ EvidenceInv
      /\ KnownIdIsItsDeal /\ DoneMeansLinked
  BY DEF IInv
<1>2. UNCHANGED <<orders, pc, batch, dealId, deals, late>>
  BY DEF workerVars, crmVars
<1>3. outbox[i].payload.ext \in ExternalIds
  BY <1>1, JobTyped
<1> DEFINE e == outbox[i].payload.ext
<1>4. /\ lapses' \in [ExternalIds -> Nat]
      /\ \A x \in ExternalIds : lapses[x] \in Nat /\ lapses'[x] >= lapses[x]
      /\ (a = 0 /\ outbox[i].attempts # 0) => lapses'[e] = lapses[e] + 1
  <2>1. lapses \in [ExternalIds -> Nat]
    BY <1>1 DEF TypeOK
  <2>. QED
    BY <1>3, <2>1
<1>5. /\ \A x : Made(x)' = Made(x)
      /\ \A x : DealsOf(x)' = DealsOf(x)
      /\ \A k : Executing(k)' <=> Executing(k)
      /\ \A k : Current(k)' <=> Current(k)
  BY <1>2 DEF Made, DealsOf, Executing, Current
<1>6. \A x \in ExternalIds : Made(x) \in Nat
  <2>1. \A x \in ExternalIds : late[x] \in Nat
    BY <1>1 DEF TypeOK
  <2>2. \A x \in ExternalIds : Cardinality(DealsOf(x)) \in Nat
    BY <1>1, DealsFinite
  <2>. QED
    BY <2>1, <2>2 DEF Made
<1>7. \A k \in DOMAIN outbox : outbox'[k].payload = outbox[k].payload
  BY DEF Rows
<1>8. EvidenceOfAll'
  <2>1. \A x \in ExternalIds :
            late[x] \in Nat /\ late[x] <= lapses[x] /\ Made(x) <= 1 + lapses[x]
    BY <1>1 DEF EvidenceInv, EvidenceOfAll, TypeOK
  <2>2. \A x \in ExternalIds :
            late'[x] <= lapses'[x] /\ Made(x)' <= 1 + lapses'[x]
    BY <1>2, <1>4, <1>5, <1>6, <2>1
  <2>3. ASSUME NEW x \in ExternalIds,
               \A k \in DOMAIN outbox' : outbox'[k].payload.ext # x
        PROVE  Made(x)' <= lapses'[x]
    <3>1. Made(x) <= lapses[x]
      BY <1>1, <1>7, <2>3 DEF EvidenceInv, EvidenceOfAll, Rows
    <3>. QED
      BY <1>4, <1>5, <1>6, <3>1
  <2>. QED
    BY <2>2, <2>3 DEF EvidenceOfAll
<1>9. ASSUME NEW x \in ExternalIds, NEW k \in DOMAIN outbox,
             outbox'[k].payload.ext = x, outbox'[k].state # "done",
             outbox'[k].attempts = 0, ~Executing(k)'
      PROVE  Made(x)' <= lapses'[x]
  <2>1. CASE k # i \/ outbox[i].attempts = 0
    <3>1. /\ outbox[k].payload.ext = x /\ outbox[k].state # "done"
          /\ outbox[k].attempts = 0
      BY <1>9, <2>1 DEF Rows
    <3>2. Made(x) <= lapses[x]
      BY <1>1, <1>5, <1>9, <3>1 DEF EvidenceInv, EvidenceOfJobs
    <3>. QED
      BY <1>4, <1>5, <1>6, <3>2
  <2>2. CASE k = i /\ outbox[i].attempts # 0
    <3>1. a = 0 /\ x = e
      BY <1>9, <2>2 DEF Rows
    <3>2. Made(x) <= 1 + lapses[x]
      BY <1>1 DEF EvidenceInv, EvidenceOfAll
    <3>. QED
      BY <1>4, <1>5, <1>6, <2>2, <3>1, <3>2
  <2>. QED
    BY <2>1, <2>2
<1>10. EvidenceOfJobs'
  BY <1>9 DEF EvidenceOfJobs, Rows
<1>11. EvidenceOfWorker'
  <2>1. DOMAIN batch \subseteq DOMAIN outbox
    BY <1>1 DEF TypeOK
  <2>2. ASSUME NEW x \in ExternalIds, NEW k \in DOMAIN batch,
               outbox'[k].payload.ext = x, pc \in {"lookedUp", "sent"},
               Current(k)
        PROVE  Made(x)' <= lapses'[x]
    <3>1. Made(x) <= lapses[x]
      BY <1>1, <1>7, <2>1, <2>2 DEF EvidenceInv, EvidenceOfWorker
    <3>. QED
      BY <1>4, <1>5, <1>6, <3>1
  <2>. QED
    BY <1>2, <1>5, <2>2 DEF EvidenceOfWorker
<1>12. QueueInv'
  BY <1>1, <1>2, RowsKeepQueue
<1>13. BatchFresh' /\ WorkerInv'
  BY <1>1, <1>2, <1>5, <1>7 DEF BatchFresh, WorkerInv, Rows, TypeOK
<1>14. KnownIdIsItsDeal' /\ DoneMeansLinked'
  BY <1>1, <1>2, <1>5, LinksKept
<1>15. TypeOK'
  BY <1>1, <1>2, <1>4 DEF TypeOK, Rows
<1>. QED
  BY <1>8, <1>10, <1>11, <1>12, <1>13, <1>14, <1>15 DEF EvidenceInv, IInv

\* A requeue forgets the attempts of a failed job: a lapse, if there were any.
LEMMA RequeueStep ==
    ASSUME IInv, NEW i \in DOMAIN outbox, Requeue(i)
    PROVE  IInv'
<1>1. TypeOK /\ BatchFresh
  BY DEF IInv
<1>2. /\ UNCHANGED <<orders, workerVars, crmVars>>
      /\ spent' = [spent EXCEPT !.requeues = @ + 1]
  BY DEF Requeue
<1>3. spent' \in [aborts : Nat, requeues : Nat, late : Nat]
  <2>1. spent \in [aborts : Nat, requeues : Nat, late : Nat]
    BY <1>1 DEF TypeOK
  <2>. QED
    BY <1>2, <2>1
<1>4. CASE outbox[i].state # "failed"
  <2>1. outbox' = outbox /\ lapses' = lapses
    BY <1>4 DEF Requeue, RequeueJob
  <2>. QED
    BY <1>2, <1>3, <2>1, UnmovedStep
<1>5. CASE outbox[i].state = "failed"
  <2>1. i \notin DOMAIN batch
    BY <1>1, <1>5 DEF BatchFresh, IsDue
  <2>2. Rows(i, "pending", 0, TRUE)
    BY <1>1, <1>5, RequeueWrites
  <2>3. outbox[i].kind = "create_order" /\ outbox[i].attempts \in Nat
    BY <1>1, JobTyped
  <2>4. \/ lapses' = lapses /\ outbox[i].attempts = 0
        \/ lapses' = [lapses EXCEPT ![outbox[i].payload.ext] = @ + 1]
    BY <1>5, <2>3 DEF Requeue, Lapse
  <2>. QED
    BY <1>2, <1>3, <1>5, <2>1, <2>2, <2>4, RevivedStep
<1>. QED
  BY <1>4, <1>5

\* A backoff that elapses forgets nothing.
LEMMA BackoffElapsesStep ==
    ASSUME IInv, NEW i \in DOMAIN outbox, BackoffElapses(i)
    PROVE  IInv'
<1>1. TypeOK /\ BatchFresh
  BY DEF IInv
<1>2. /\ UNCHANGED <<orders, workerVars, crmVars, lapses, spent>>
      /\ outbox[i].state = "pending" /\ ~outbox[i].due
  BY DEF BackoffElapses
<1>3. i \notin DOMAIN batch
  BY <1>1, <1>2 DEF BatchFresh, IsDue
<1>4. Rows(i, "pending", outbox[i].attempts, TRUE)
  BY <1>1, BackoffWrites
<1>5. outbox[i].attempts \in Nat
  BY <1>1, JobTyped
<1>6. spent' \in [aborts : Nat, requeues : Nat, late : Nat]
  BY <1>1, <1>2 DEF TypeOK
<1>. QED
  BY <1>2, <1>3, <1>4, <1>5, <1>6, RevivedStep
\* A late deal was counted when its request timed out.
LEMMA LateDealStep ==
    ASSUME IInv, NEW ext \in ExternalIds, LateDeal(ext)
    PROVE  IInv'
<1>1. /\ TypeOK /\ QueueInv /\ BatchFresh /\ WorkerInv /\ EvidenceInv
      /\ KnownIdIsItsDeal /\ DoneMeansLinked
  BY DEF IInv
<1>2. /\ UNCHANGED <<orders, outbox, pc, batch, dealId, lapses, spent>>
      /\ late[ext] > 0
      /\ late' = [late EXCEPT ![ext] = @ - 1]
      /\ deals' = Append(deals, ext)
  BY DEF LateDeal, workerVars
<1>3. /\ deals' \in Seq(ExternalIds)
      /\ \A x : DealsOf(x) \subseteq DealsOf(x)'
      /\ \A x : Cardinality(DealsOf(x))'
                  = IF x = ext THEN Cardinality(DealsOf(x)) + 1
                               ELSE Cardinality(DealsOf(x))
  BY <1>1, <1>2, DealAppended
<1>4. late' \in [ExternalIds -> Nat] /\ \A x \in ExternalIds : late'[x] <= late[x]
  <2>1. late \in [ExternalIds -> Nat]
    BY <1>1 DEF TypeOK
  <2>. QED
    BY <1>2, <2>1
<1>5. ASSUME NEW x \in ExternalIds
      PROVE  Made(x)' = Made(x)
  <2>1. /\ late[x] \in Nat
        /\ late'[x] = IF x = ext THEN late[x] - 1 ELSE late[x]
    BY <1>1, <1>2 DEF TypeOK
  <2>2. Cardinality(DealsOf(x)) \in Nat
    BY <1>1, DealsFinite
  <2>3. Made(x)' = Cardinality(DealsOf(x))' + late'[x]
    BY DEF Made
  <2>4. Made(x) = Cardinality(DealsOf(x)) + late[x]
    BY DEF Made
  <2>5. CASE x = ext
    BY <1>3, <2>1, <2>2, <2>3, <2>4, <2>5
  <2>6. CASE x # ext
    BY <1>3, <2>1, <2>2, <2>3, <2>4, <2>6
  <2>. QED
    BY <2>5, <2>6
<1>6. \A k : (Executing(k)' <=> Executing(k)) /\ (Current(k)' <=> Current(k))
  BY <1>2 DEF Executing, Current
<1>7. EvidenceOfAll'
  <2>1. \A x \in ExternalIds : late[x] \in Nat /\ lapses[x] \in Nat
    BY <1>1 DEF TypeOK
  <2>2. \A x \in ExternalIds : late'[x] \in Nat /\ late'[x] <= lapses[x]
    BY <1>1, <1>4, <2>1 DEF EvidenceInv, EvidenceOfAll
  <2>. QED
    BY <1>1, <1>2, <1>5, <2>2 DEF EvidenceInv, EvidenceOfAll
<1>8. EvidenceOfJobs' /\ EvidenceOfWorker'
  BY <1>1, <1>2, <1>5, <1>6
  DEF EvidenceInv, EvidenceOfJobs, EvidenceOfWorker
<1>9. QueueInv' /\ BatchFresh'
  BY <1>1, <1>2 DEF QueueInv, BatchFresh
<1>10. WorkerInv'
  <2>1. \A id \in DOMAIN deals : id \in DOMAIN deals' /\ deals'[id] = deals[id]
    BY <1>1, <1>2 DEF TypeOK
  <2>. QED
    BY <1>1, <1>2, <1>6, <2>1 DEF WorkerInv
<1>11. KnownIdIsItsDeal' /\ DoneMeansLinked'
  BY <1>1, <1>2, <1>3 DEF KnownIdIsItsDeal, DoneMeansLinked
<1>12. TypeOK'
  BY <1>1, <1>2, <1>3, <1>4 DEF TypeOK
<1>. QED
  BY <1>7, <1>8, <1>9, <1>10, <1>11, <1>12 DEF EvidenceInv, IInv

\* The worker cut short leaves the tables; what it had asked for and not recorded
\* is a lapse.
LEMMA DropBatchStep ==
    ASSUME IInv, DropBatch, NEW i, Current(i),
           \/ late' = late /\ lapses' = lapses
              /\ (Executing(i) => outbox[i].attempts # 0)
           \/ late' = late
              /\ lapses' = [lapses EXCEPT ![outbox[i].payload.ext] = @ + 1]
           \/ late' = [late EXCEPT ![outbox[i].payload.ext] = @ + 1]
              /\ lapses' = [lapses EXCEPT ![outbox[i].payload.ext] = @ + 1]
              /\ pc = "sent"
    PROVE  IInv'
<1>1. /\ TypeOK /\ QueueInv /\ BatchFresh /\ WorkerInv /\ EvidenceInv
      /\ KnownIdIsItsDeal /\ DoneMeansLinked
  BY DEF IInv
<1>2. /\ UNCHANGED <<orders, outbox, deals>>
      /\ pc' = "idle" /\ batch' = <<>> /\ dealId' = NoId
      /\ spent' = [spent EXCEPT !.aborts = @ + 1]
  BY DEF DropBatch
<1>3. outbox[i].payload.ext \in ExternalIds /\ i \in DOMAIN outbox
  BY <1>1, CurrentJob
<1> PICK e \in ExternalIds : e = outbox[i].payload.ext
  BY <1>3
<1>4. late \in [ExternalIds -> Nat] /\ lapses \in [ExternalIds -> Nat]
  BY <1>1 DEF TypeOK
<1>5. late' \in [ExternalIds -> Nat] /\ lapses' \in [ExternalIds -> Nat]
  BY <1>4
<1>6. ASSUME NEW x \in ExternalIds
      PROVE  /\ Made(x) \in Nat /\ lapses[x] \in Nat /\ lapses'[x] \in Nat
             /\ Made(x)' \in Nat
             /\ Made(x)' - lapses'[x] <= Made(x) - lapses[x]
             /\ late'[x] - lapses'[x] <= late[x] - lapses[x]
             /\ late[x] \in Nat /\ late'[x] \in Nat
             /\ Executing(i) /\ x = e /\ outbox[i].attempts = 0
                => Made(x)' - lapses'[x] <= Made(x) - lapses[x] - 1
  <2>1. Cardinality(DealsOf(x)) \in Nat
    BY <1>1, DealsFinite
  <2>2. Cardinality(DealsOf(x))' = Cardinality(DealsOf(x))
    BY <1>2 DEF DealsOf
  <2>3. /\ Made(x) = Cardinality(DealsOf(x)) + late[x]
        /\ Made(x)' = Cardinality(DealsOf(x))' + late'[x]
    BY DEF Made
  <2>4. /\ late[x] \in Nat /\ late'[x] \in Nat
        /\ lapses[x] \in Nat /\ lapses'[x] \in Nat
    BY <1>4, <1>5
  <2>5. /\ late'[x] - lapses'[x] <= late[x] - lapses[x]
        /\ Executing(i) /\ x = e /\ outbox[i].attempts = 0
              => late'[x] - lapses'[x] <= late[x] - lapses[x] - 1
    BY <1>4 DEF Executing
  <2>. QED
    BY <2>1, <2>2, <2>3, <2>4, <2>5
<1>7. EvidenceOfAll'
  <2>1. \A x \in ExternalIds :
            late'[x] <= lapses'[x] /\ Made(x)' <= 1 + lapses'[x]
    <3>1. \A x \in ExternalIds :
              late[x] <= lapses[x] /\ Made(x) <= 1 + lapses[x]
      BY <1>1 DEF EvidenceInv, EvidenceOfAll
    <3>. QED
      BY <1>6, <3>1
  <2>2. ASSUME NEW x \in ExternalIds,
               \A k \in DOMAIN outbox : outbox[k].payload.ext # x
        PROVE  Made(x)' <= lapses'[x]
    <3>1. Made(x) <= lapses[x]
      BY <1>1, <2>2 DEF EvidenceInv, EvidenceOfAll
    <3>. QED
      BY <1>6, <3>1
  <2>. QED
    BY <1>2, <2>1, <2>2 DEF EvidenceOfAll
<1>8. EvidenceOfJobs'
  <2>1. ASSUME NEW x \in ExternalIds, NEW k \in DOMAIN outbox,
               outbox[k].payload.ext = x, outbox[k].state # "done",
               outbox[k].attempts = 0
        PROVE  Made(x)' <= lapses'[x]
    <3>1. CASE ~Executing(k)
      <4>1. Made(x) <= lapses[x]
        BY <1>1, <2>1, <3>1 DEF EvidenceInv, EvidenceOfJobs
      <4>. QED
        BY <1>6, <4>1
    <3>2. CASE Executing(k)
      <4>1. k = i
        BY <1>1, <3>2, CurrentUnique DEF Executing
      <4>2. Made(x) <= 1 + lapses[x]
        BY <1>1 DEF EvidenceInv, EvidenceOfAll
      <4>. QED
        BY <1>6, <2>1, <3>2, <4>1, <4>2
    <3>. QED
      BY <3>1, <3>2
  <2>. QED
    BY <1>2, <2>1 DEF EvidenceOfJobs
<1>9. EvidenceOfWorker' /\ WorkerInv' /\ BatchFresh'
  BY <1>2 DEF EvidenceOfWorker, WorkerInv, BatchFresh
<1>10. QueueInv' /\ KnownIdIsItsDeal' /\ DoneMeansLinked'
  BY <1>1, <1>2 DEF QueueInv, KnownIdIsItsDeal, DoneMeansLinked, DealsOf
<1>11. TypeOK'
  <2>1. spent \in [aborts : Nat, requeues : Nat, late : Nat]
    BY <1>1 DEF TypeOK
  <2>2. spent' \in [aborts : Nat, requeues : Nat, late : Nat]
    BY <1>2, <2>1
  <2>3. /\ DOMAIN batch' \subseteq DOMAIN outbox'
        /\ batch' \in [DOMAIN batch' -> CreateJob]
    BY <1>2
  <2>4. dealId' \in Nat /\ pc' = "idle"
    BY <1>2 DEF NoId
  <2>. QED
    BY <1>1, <1>2, <1>5, <2>2, <2>3, <2>4 DEF TypeOK
<1>. QED
  BY <1>7, <1>8, <1>9, <1>10, <1>11 DEF EvidenceInv, IInv

\* Stopping writes a lapse down exactly where a first attempt is under way.
LEMMA AbortStep ==
    ASSUME IInv, Abort
    PROVE  IInv'
<1>1. TypeOK /\ BatchFresh
  BY DEF IInv
<1>2. PICK i \in DOMAIN batch :
          /\ Current(i)
          /\ lapses' = IF /\ pc = "executed"
                          /\ batch[i].kind = "create_order"
                          /\ batch[i].attempts = 0
                       THEN Lapse(Ext(i))
                       ELSE lapses
  BY DEF Abort
<1>3. /\ batch[i] = outbox[i] /\ outbox[i].kind = "create_order"
  BY <1>1, <1>2, CurrentJob, JobTyped
<1>4. DropBatch /\ late' = late
  BY DEF Abort
<1>5. \/ lapses' = lapses /\ (Executing(i) => outbox[i].attempts # 0)
      \/ lapses' = [lapses EXCEPT ![outbox[i].payload.ext] = @ + 1]
  BY <1>2, <1>3 DEF Lapse, Ext, Executing
<1>. QED
  BY <1>2, <1>4, <1>5, DropBatchStep

\* Stopping with a create request on its way writes a lapse and the late deal.
LEMMA AbortInFlightStep ==
    ASSUME IInv, NEW i \in DOMAIN batch, AbortInFlight(i)
    PROVE  IInv'
<1>1. TypeOK /\ BatchFresh
  BY DEF IInv
<1>2. Current(i) /\ pc = "sent" /\ DropBatch
  BY DEF AbortInFlight, AtCreate
<1>3. batch[i] = outbox[i]
  BY <1>1, <1>2, CurrentJob
<1>4. /\ late' = [late EXCEPT ![outbox[i].payload.ext] = @ + 1]
      /\ lapses' = [lapses EXCEPT ![outbox[i].payload.ext] = @ + 1]
  BY <1>3 DEF AbortInFlight, Lapse, Ext
<1>. QED
  BY <1>2, <1>4, DropBatchStep

\* A row that is not done may be rewritten, and an order that has no id linked.
LEMMA RowsKeepSettled ==
    ASSUME TypeOK, NEW i \in DOMAIN outbox, outbox[i].state # "done",
           NEW s, NEW a, NEW d, Rows(i, s, a, d),
           \/ UNCHANGED orders
           \/ \E ext : \E id \in Nat : orders' = SetSDOrderID(orders, ext, id)
    PROVE  KeepsSettled
<1>1. \A k \in DOMAIN outbox :
          outbox[k].state = "done" => outbox'[k] = outbox[k]
  BY DEF Rows
<1>2. \A x \in DOMAIN orders : orders[x] # NoId => orders'[x] = orders[x]
  BY SetIdWrites
<1>. QED
  BY <1>1, <1>2 DEF KeepsSettled

\* Only pending and failed jobs are ever written, and only ids that are not set.
LEMMA SettledStep == IInv /\ [Next]_vars => KeepsSettled
<1>. SUFFICES ASSUME IInv, [Next]_vars PROVE KeepsSettled
  OBVIOUS
<1>1. TypeOK /\ QueueInv /\ BatchFresh /\ WorkerInv
  BY DEF IInv
<1>2. CASE UNCHANGED <<orders, outbox>>
  BY <1>2 DEF KeepsSettled
<1>3. ASSUME NEW ext \in ExternalIds, Ingest(ext) PROVE KeepsSettled
  BY <1>1, <1>3, IngestWrites DEF KeepsSettled
<1>4. ASSUME NEW id \in DOMAIN deals, OnSalesDrive(id) PROVE KeepsSettled
  <2>1. id \in Nat
    BY <1>1 DEF TypeOK
  <2>. QED
    BY <1>1, <1>4, <2>1, SetIdWrites DEF OnSalesDrive, KeepsSettled
<1>5. ASSUME NEW i \in DOMAIN outbox, Requeue(i) PROVE KeepsSettled
  <2>1. UNCHANGED orders
    BY <1>5 DEF Requeue
  <2>2. CASE outbox' = outbox
    BY <1>2, <2>1, <2>2
  <2>3. CASE outbox[i].state = "failed" /\ Rows(i, "pending", 0, TRUE)
    BY <1>1, <2>1, <2>3, RowsKeepSettled
  <2>. QED
    BY <1>1, <1>5, <2>2, <2>3, RequeueWrites
<1>6. ASSUME NEW i \in DOMAIN outbox, BackoffElapses(i) PROVE KeepsSettled
  <2>1. UNCHANGED orders /\ outbox[i].state # "done"
    BY <1>6 DEF BackoffElapses
  <2>. QED
    BY <1>1, <1>6, <2>1, BackoffWrites, RowsKeepSettled
<1>7. ASSUME NEW i \in DOMAIN batch, Current(i), Failed(i), UNCHANGED orders
      PROVE  KeepsSettled
  <2>1. i \in DOMAIN outbox /\ outbox[i].state # "done"
    BY <1>1, <1>7, CurrentJob
  <2>2. \E s, a, d : Rows(i, s, a, d)
    BY <1>1, <1>7, RetryWrites, FailWrites DEF Failed
  <2>. QED
    BY <1>1, <1>7, <2>1, <2>2, RowsKeepSettled
<1>8. ASSUME NEW i \in DOMAIN batch, Current(i), Finish(i),
             NEW ext, NEW id \in Nat, orders' = SetSDOrderID(orders, ext, id)
      PROVE  KeepsSettled
  <2>1. i \in DOMAIN outbox /\ outbox[i].state # "done"
    BY <1>1, <1>8, CurrentJob
  <2>. QED
    BY <1>1, <1>8, <2>1, FinishWrites, RowsKeepSettled
<1>9. ASSUME NEW i \in DOMAIN batch, WorkerStep(i) PROVE KeepsSettled
  <2>1. CASE LookupFound(i)
    <3>1. PICK id \in DOMAIN deals : orders' = SetSDOrderID(orders, Ext(i), id)
      BY <2>1 DEF LookupFound
    <3>2. id \in Nat
      BY <1>1 DEF TypeOK
    <3>. QED
      BY <1>8, <2>1, <3>1, <3>2 DEF LookupFound, AtCreate
  <2>2. CASE CreateAnswered(i)
    <3>1. dealId \in Nat
      BY <1>1 DEF TypeOK
    <3>. QED
      BY <1>8, <2>2, <3>1 DEF CreateAnswered, AtCreate
  <2>3. CASE LookupMissed(i) \/ SendCreate(i)
    BY <1>2, <2>3 DEF LookupMissed, SendCreate
  <2>4. CASE LookupFailed(i) \/ CreateTimedOut(i) \/ CallRefused(i) \/ CallLost(i)
    BY <1>7, <2>4
    DEF LookupFailed, CreateTimedOut, CallRefused, CallLost, AtCreate, Failed
  <2>. QED
    BY <1>9, <2>1, <2>2, <2>3, <2>4 DEF WorkerStep, CreateStep
<1>10. CASE ProcessOnce \/ Abort
  BY <1>2, <1>10 DEF ProcessOnce, Abort, DropBatch
<1>11. ASSUME NEW i \in DOMAIN batch, CreateDeal(i) \/ AbortInFlight(i)
       PROVE  KeepsSettled
  BY <1>2, <1>11 DEF CreateDeal, AbortInFlight, DropBatch
<1>12. ASSUME NEW ext \in ExternalIds, LateDeal(ext) PROVE KeepsSettled
  BY <1>2, <1>12 DEF LateDeal
<1>13. CASE UNCHANGED vars
  BY <1>2, <1>13 DEF vars, outboxVars
<1>. QED
  BY <1>3, <1>4, <1>5, <1>6, <1>9, <1>10, <1>11, <1>12, <1>13 DEF Next

------------------------------------------------------------------------------
(* The theorems *)

\* Nothing has been accepted, asked or made at the start.
LEMMA Initially == Init => IInv
<1>. SUFFICES ASSUME Init PROVE IInv
  OBVIOUS
<1>1. /\ orders = [ext \in {} |-> NoId] /\ outbox = <<>> /\ pc = "idle"
      /\ batch = <<>> /\ dealId = NoId /\ deals = <<>>
      /\ late = [ext \in ExternalIds |-> 0]
      /\ lapses = [ext \in ExternalIds |-> 0]
      /\ spent = [aborts |-> 0, requeues |-> 0, late |-> 0]
  BY DEF Init, OutboxInit, NoOrders
<1>2. TypeOK
  BY <1>1 DEF TypeOK, NoId
<1>3. \A ext \in ExternalIds : Made(ext) = 0
  <2>1. \A ext : DealsOf(ext) = {}
    BY <1>1 DEF DealsOf
  <2>. QED
    BY <1>1, <2>1, FS_EmptySet DEF Made
<1>4. EvidenceInv
  BY <1>1, <1>3
  DEF EvidenceInv, EvidenceOfAll, EvidenceOfJobs, EvidenceOfWorker
<1>5. QueueInv /\ BatchFresh /\ WorkerInv /\ KnownIdIsItsDeal /\ DoneMeansLinked
  BY <1>1 DEF QueueInv, BatchFresh, WorkerInv, KnownIdIsItsDeal, DoneMeansLinked
<1>. QED
  BY <1>2, <1>4, <1>5 DEF IInv

\* One step of anyone, the handlers, the operator, the worker, the CRM or the
\* clock, keeps the invariant.
LEMMA Inductive == IInv /\ [Next]_vars => IInv'
<1>. SUFFICES ASSUME IInv, [Next]_vars PROVE IInv'
  OBVIOUS
<1>1. TypeOK /\ BatchFresh /\ WorkerInv
  BY DEF IInv
<1>2. ASSUME NEW ext \in ExternalIds, Ingest(ext) PROVE IInv'
  BY <1>2, IngestStep
<1>3. ASSUME NEW id \in DOMAIN deals, OnSalesDrive(id) PROVE IInv'
  BY <1>3, OnSalesDriveStep
<1>4. ASSUME NEW i \in DOMAIN outbox, Requeue(i) PROVE IInv'
  BY <1>4, RequeueStep
<1>5. CASE ProcessOnce
  BY <1>5, ProcessOnceStep
<1>6. ASSUME NEW i \in DOMAIN batch, WorkerStep(i) PROVE IInv'
  <2>1. CASE LookupFound(i)
    <3>1. Current(i) /\ batch[i] = outbox[i]
      BY <1>1, <2>1, CurrentJob DEF LookupFound, AtCreate
    <3>2. PICK id \in DOMAIN deals :
              /\ deals[id] = Ext(i)
              /\ orders' = SetSDOrderID(orders, Ext(i), id)
      BY <2>1 DEF LookupFound
    <3>3. id \in DealsOf(outbox[i].payload.ext)
      BY <3>1, <3>2 DEF DealsOf, Ext
    <3>. QED
      BY <2>1, <3>1, <3>2, <3>3, FinishedStep DEF LookupFound, Ext
  <2>2. CASE LookupMissed(i)
    BY <2>2, LookupMissedStep
  <2>3. CASE LookupFailed(i)
    BY <2>3, FailedStep DEF LookupFailed, AtCreate, Failed
  <2>4. CASE SendCreate(i)
    BY <2>4, SendCreateStep
  <2>5. CASE CreateAnswered(i)
    <3>1. Current(i) /\ batch[i] = outbox[i]
      BY <1>1, <2>5, CurrentJob DEF CreateAnswered, AtCreate
    <3>2. dealId \in DealsOf(outbox[i].payload.ext)
      BY <1>1, <2>5, <3>1 DEF CreateAnswered, WorkerInv, DealsOf
    <3>. QED
      BY <2>5, <3>1, <3>2, FinishedStep DEF CreateAnswered, Ext
  <2>6. CASE CreateTimedOut(i)
    BY <2>6, CreateTimedOutStep
  <2>7. CASE CallRefused(i)
    BY <2>7, FailedStep DEF CallRefused, Failed
  <2>8. CASE CallLost(i)
    BY <2>8, FailedStep DEF CallLost
  <2>. QED
    BY <1>6, <2>1, <2>2, <2>3, <2>4, <2>5, <2>6, <2>7, <2>8
    DEF WorkerStep, CreateStep
<1>7. ASSUME NEW i \in DOMAIN batch, CreateDeal(i) PROVE IInv'
  BY <1>7, CreateDealStep
<1>8. ASSUME NEW ext \in ExternalIds, LateDeal(ext) PROVE IInv'
  BY <1>8, LateDealStep
<1>9. ASSUME NEW i \in DOMAIN outbox, BackoffElapses(i) PROVE IInv'
  BY <1>9, BackoffElapsesStep
<1>10. CASE Abort
  BY <1>10, AbortStep
<1>11. ASSUME NEW i \in DOMAIN batch, AbortInFlight(i) PROVE IInv'
  BY <1>11, AbortInFlightStep
<1>12. CASE UNCHANGED vars
  BY <1>1, <1>12, UnmovedStep
  DEF vars, outboxVars, TypeOK, workerVars, crmVars
<1>. QED
  BY <1>2, <1>3, <1>4, <1>5, <1>6, <1>7, <1>8, <1>9, <1>10, <1>11, <1>12
  DEF Next

\* The inductive invariant holds of every run of the bridge on site orders.
THEOREM Invariance == Spec => []IInv
  BY Initially, Inductive, PTL DEF Spec

\* The tables, the worker and the CRM always have values of their types.
THEOREM TypeCorrect == Spec => []TypeOK
<1>1. IInv => TypeOK
  BY DEF IInv
<1>. QED
  BY <1>1, Invariance, PTL

\* Retries never double a deal: for any number of orders, attempts, aborts,
\* requeues and late requests, the deals of an order never outnumber its lapses
\* by more than one.
THEOREM DealsAreAccountedFor == Spec => []DealsAccounted
<1>1. IInv => DealsAccounted
  BY DEF IInv, EvidenceInv, EvidenceOfAll, DealsAccounted, Made
<1>. QED
  BY <1>1, Invariance, PTL

\* The id stored with an order is always that of one of its own deals.
THEOREM KnownIdsAreRight == Spec => []KnownIdIsItsDeal
<1>1. IInv => KnownIdIsItsDeal
  BY DEF IInv
<1>. QED
  BY <1>1, Invariance, PTL

\* A create job that is done has always left its order linked.
THEOREM DoneIsLinked == Spec => []DoneMeansLinked
<1>1. IInv => DoneMeansLinked
  BY DEF IInv
<1>. QED
  BY <1>1, Invariance, PTL

\* The worker's copies of the jobs still to step are never stale.
THEOREM BatchStaysFresh == Spec => []BatchFresh
<1>1. IInv => BatchFresh
  BY DEF IInv
<1>. QED
  BY <1>1, Invariance, PTL

\* A done job is never written again, nor an order's CRM id replaced.
THEOREM SettledStaysSettled == Spec => SettledIsFinal
<1>1. IInv /\ [Next]_vars => [KeepsSettled]_vars
  BY SettledStep
<1>. QED
  BY <1>1, Invariance, PTL DEF Spec, SettledIsFinal
==============================================================================
