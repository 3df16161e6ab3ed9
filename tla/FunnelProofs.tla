----------------------------- MODULE FunnelProofs -----------------------------
(***************************************************************************)
(* Proofs about what tracking does to the deals, for any parcels, codes,   *)
(* orders and bounds: a deal has its funnel status from a parcel of its    *)
(* own, a status job is done only as the CRM has moved a deal by it, and   *)
(* the tables, the worker and the poll have the values they should.        *)
(*                                                                         *)
(* A status job names its deal by links that the poll copied before it     *)
(* queued the job, and the worker goes by a copy of the job.  Both are     *)
(* right when the CRM acts because links, once made, are kept.             *)
(***************************************************************************)
EXTENDS TrackingProofs

------------------------------------------------------------------------------
(* The inductive invariant *)

\* What the jobs of each kind carry.
CreateData == [ext : ExternalIds]
StatusData == [ext : ExternalIds \cup {NoExt}, sd : Nat, status : Mapped]

Carries(job) ==
    /\ job.kind = "create_order" => job.payload \in CreateData
    /\ job.kind = "status" => job.payload \in StatusData

\* The outbox and the copies the worker has of its rows.
QueueInv ==
    /\ outbox \in Seq(Job)
    /\ \A i \in DOMAIN outbox : Carries(outbox[i])
    /\ batch \in [DOMAIN batch -> Job] /\ DOMAIN batch \subseteq DOMAIN outbox
    /\ BatchFresh

\* A CRM id that an order has is that of a deal made for it.
CrmInv ==
    /\ orders \in [DOMAIN orders -> Nat] /\ DOMAIN orders \subseteq ExternalIds
    /\ deals \in Seq(ExternalIds)
    /\ \A ext \in DOMAIN orders :
          orders[ext] # NoId => /\ orders[ext] \in DOMAIN deals
                                /\ deals[orders[ext]] = ext

\* An order with a contact is one that has come.
ContactsInv == contacts \subseteq DOMAIN orders

CountsInv ==
    late \in [ExternalIds -> Nat] /\ lapses \in [ExternalIds -> Nat]

ParcelsInv ==
    /\ ttns \in [DOMAIN ttns -> Row] /\ DOMAIN ttns \subseteq Numbers
    /\ poll \in {"idle", "asked", "sending"}
    /\ polled \in [DOMAIN polled -> Row] /\ DOMAIN polled \subseteq DOMAIN ttns

TimesInv == turns \in [Numbers -> 0 .. Cardinality(Numbers)]

NoticesInv == toSend \in Seq(Notice) /\ sent \in Seq(Notice)

\* What is known of a parcel's deal and order is what its row says.
LinkedAs(n, sd, ext) ==
    /\ sd # NoId => ttns[n].sd = sd
    /\ ext # NoExt => ttns[n].ext = ext

LinksInv ==
    /\ \A n \in DOMAIN polled : LinkedAs(n, polled[n].sd, polled[n].ext)
    /\ \A i \in DOMAIN outbox :
          outbox[i].kind = "status" =>
             LinkedAs(outbox[i].key[2], outbox[i].payload.sd, outbox[i].payload.ext)

\* The CRM has moved a deal by this job, and none has moved it since.
MovedBy(job) ==
    \E id \in DOMAIN funnel :
        funnel[id] = [number |-> job.key[2], code |-> job.payload.status]

OrdersDeal(i) == dealId \in DOMAIN deals /\ deals[dealId] = Ext(i)

\* The job at hand: the deal it goes by is its own, and what was asked is done.
HandInv ==
    /\ pc \in {"idle", "step", "lookedUp", "sent", "executed"}
    /\ dealId \in Nat
    /\ \A i \in DOMAIN batch :
          Current(i) =>
             /\ pc = "executed" /\ batch[i].kind = "create_order" => OrdersDeal(i)
             /\ (/\ pc \in {"sent", "executed"}
                 /\ batch[i].kind = "status"
                 /\ dealId # NoId)
                   => dealId = batch[i].payload.sd \/ OrdersDeal(i)
             /\ pc = "executed" /\ batch[i].kind = "status" => MovedBy(batch[i])

MovedInv ==
    /\ funnel \in [DOMAIN funnel -> [number : Numbers, code : Mapped]]
    /\ DOMAIN funnel \subseteq DOMAIN deals
    /\ \A id \in DOMAIN funnel : funnel[id].number \in DOMAIN ttns
    /\ FunnelFromOwnParcel

FunnelInv ==
    /\ DeliveryInv
    /\ QueueInv /\ CrmInv /\ ContactsInv /\ CountsInv
    /\ ParcelsInv /\ TimesInv /\ NoticesInv
    /\ LinksInv /\ HandInv /\ MovedInv

------------------------------------------------------------------------------
(* The outbox and the batch *)

JobKeys == {<<"create", ext>> : ext \in ExternalIds}
              \cup {<<"status", n, code>> : n \in Numbers, code \in Mapped}
JobData == CreateData \cup StatusData

LEMMA JobMeans ==
    Job = [key : JobKeys, kind : {"create_order", "status"}, payload : JobData,
           state : JobStates, attempts : Nat, due : BOOLEAN]
  BY DEF Job, JobKeys, JobData, CreateData, StatusData

\* A job with its mutable columns written.
WrittenJob(job, s, a, d) == [job EXCEPT !.state = s, !.attempts = a, !.due = d]

LEMMA WrittenJobTyped ==
    ASSUME NEW job \in Job, Carries(job), NEW s \in JobStates, NEW a \in Nat,
           NEW d \in BOOLEAN
    PROVE  WrittenJob(job, s, a, d) \in Job /\ Carries(WrittenJob(job, s, a, d))
<1>1. job \in [key : JobKeys, kind : {"create_order", "status"}, payload : JobData,
               state : JobStates, attempts : Nat, due : BOOLEAN]
  BY JobMeans
<1>2. PICK r : r = WrittenJob(job, s, a, d)
  OBVIOUS
<1>3. /\ r \in [key : JobKeys, kind : {"create_order", "status"}, payload : JobData,
                state : JobStates, attempts : Nat, due : BOOLEAN]
      /\ r.kind = job.kind /\ r.payload = job.payload
  BY <1>1, <1>2 DEF WrittenJob
<1>. QED
  BY <1>2, <1>3, JobMeans DEF Carries

\* The queue is kept if the jobs are proper and those of the batch untouched.
LEMMA QueueKept ==
    ASSUME QueueInv,
           outbox' \in Seq(Job), DOMAIN outbox \subseteq DOMAIN outbox',
           \A k \in DOMAIN outbox' : Carries(outbox'[k]),
           DOMAIN batch' \subseteq DOMAIN batch,
           batch' = [k \in DOMAIN batch' |-> batch[k]],
           \A k \in DOMAIN batch' : outbox'[k] = outbox[k]
    PROVE  QueueInv'
<1>1. PICK b, o : b = batch' /\ o = outbox'
  OBVIOUS
<1>2. /\ DOMAIN b \subseteq DOMAIN batch
      /\ b = [k \in DOMAIN b |-> batch[k]]
      /\ \A k \in DOMAIN b : o[k] = outbox[k]
      /\ DOMAIN outbox \subseteq DOMAIN o
  BY <1>1
<1>3. /\ batch \in [DOMAIN batch -> Job] /\ DOMAIN batch \subseteq DOMAIN outbox
      /\ \A i \in DOMAIN batch : IsDue(outbox[i]) /\ batch[i] = outbox[i]
  BY DEF QueueInv, BatchFresh
<1>4. b \in [DOMAIN b -> Job] /\ DOMAIN b \subseteq DOMAIN o
  BY ONLY <1>2, <1>3
<1>5. \A i \in DOMAIN b : IsDue(o[i]) /\ b[i] = o[i]
  BY ONLY <1>2, <1>3
<1>6. BatchFresh'
  BY <1>1, <1>5 DEF BatchFresh, IsDue
<1>. QED
  BY <1>1, <1>4, <1>6 DEF QueueInv, Carries

\* A row of the outbox is written.
LEMMA RowWritten ==
    ASSUME QueueInv, NEW i \in DOMAIN outbox,
           NEW s \in JobStates, NEW a \in Nat, NEW d \in BOOLEAN,
           Written(i, s, a, d)
    PROVE  /\ outbox' \in Seq(Job) /\ DOMAIN outbox' = DOMAIN outbox
           /\ \A k \in DOMAIN outbox' : Carries(outbox'[k])
           /\ \A k \in DOMAIN outbox : k # i => outbox'[k] = outbox[k]
           /\ outbox'[i] = WrittenJob(outbox[i], s, a, d)
<1>1. outbox[i] \in Job /\ Carries(outbox[i])
  BY DEF QueueInv
<1>2. PICK r : r = WrittenJob(outbox[i], s, a, d)
  OBVIOUS
<1>3. r \in Job /\ Carries(r)
  BY <1>1, <1>2, WrittenJobTyped
<1>4. outbox' = [outbox EXCEPT ![i] = r]
  BY <1>2 DEF Written, WrittenJob
<1>5. outbox \in Seq(Job) /\ \A k \in DOMAIN outbox : Carries(outbox[k])
  BY DEF QueueInv
<1>6. outbox' \in Seq(Job) /\ DOMAIN outbox' = DOMAIN outbox
  BY <1>3, <1>4, <1>5
<1>7. \A k \in DOMAIN outbox : outbox'[k] = IF k = i THEN r ELSE outbox[k]
  BY <1>4, <1>5
<1>8. \A k \in DOMAIN outbox' : Carries(outbox'[k])
  BY ONLY <1>3, <1>5, <1>6, <1>7
<1>. QED
  BY ONLY <1>2, <1>6, <1>7, <1>8

\* A row of the batch is a row of the outbox, and due.
LEMMA InBatch ==
    ASSUME QueueInv, NEW i \in DOMAIN batch
    PROVE  /\ i \in DOMAIN outbox /\ i \in Nat
           /\ batch[i] = outbox[i] /\ IsDue(outbox[i])
           /\ batch[i] \in Job /\ Carries(batch[i])
           /\ batch[i].attempts \in Nat /\ batch[i].due \in BOOLEAN
           /\ batch[i].state \in JobStates
<1>1. i \in DOMAIN outbox /\ batch[i] = outbox[i] /\ IsDue(outbox[i])
  BY DEF QueueInv, BatchFresh
<1>2. outbox \in Seq(Job) /\ Carries(outbox[i])
  BY <1>1 DEF QueueInv
<1>3. outbox[i] \in Job /\ i \in Nat
  BY <1>1, <1>2
<1>4. outbox[i] \in [key : JobKeys, kind : {"create_order", "status"},
                     payload : JobData, state : JobStates, attempts : Nat,
                     due : BOOLEAN]
  BY <1>3, JobMeans
<1>. QED
  BY ONLY <1>1, <1>2, <1>3, <1>4

\* Only one job is at hand.
LEMMA OneAtHand ==
    ASSUME QueueInv, NEW i, NEW j, Current(i), Current(j)
    PROVE  i = j
<1>1. i \in DOMAIN batch /\ j \in DOMAIN batch /\ i <= j /\ j <= i
  BY DEF Current
<1>2. i \in Nat /\ j \in Nat
  BY <1>1, InBatch
<1>. QED
  BY <1>1, <1>2

\* A job is set to one of these states.
Settles(i, states) ==
    \E s \in states, a \in Nat, d \in BOOLEAN : Written(i, s, a, d)

\* What the worker does with a job it has stepped: it is done, or it is not.
LEMMA FinishSettles ==
    ASSUME QueueInv, NEW i \in DOMAIN batch, Finish(i)
    PROVE  Settles(i, {"done"})
<1>1. batch[i] \in Job
  BY InBatch
<1>2. PICK j, r : j = batch[i] /\ r = [j EXCEPT !.state = "done"]
  OBVIOUS
<1>3. j \in [key : JobKeys, kind : {"create_order", "status"}, payload : JobData,
             state : JobStates, attempts : Nat, due : BOOLEAN]
  BY <1>1, <1>2, JobMeans
<1>4. r.state = "done" /\ r.attempts \in Nat /\ r.due \in BOOLEAN
  BY ONLY <1>2, <1>3
<1>5. Written(i, r.state, r.attempts, r.due)
  BY <1>2 DEF Finish, UpdateJob, Written
<1>. QED
  BY <1>4, <1>5 DEF Settles

LEMMA FailSettles ==
    ASSUME QueueInv, NEW i \in DOMAIN batch, Fail(i) \/ Retry(i)
    PROVE  Settles(i, {"pending", "failed"})
<1>1. batch[i] \in Job /\ batch[i].state = "pending"
  BY InBatch DEF IsDue
<1>2. PICK j : j = batch[i]
  OBVIOUS
<1>3. j \in [key : JobKeys, kind : {"create_order", "status"}, payload : JobData,
             state : JobStates, attempts : Nat, due : BOOLEAN]
  BY <1>1, <1>2, JobMeans
<1>4. PICK t : t = [j EXCEPT !.attempts = @ + 1]
  OBVIOUS
<1>5. PICK f, g, h : /\ f = [j EXCEPT !.state = "failed"]
                     /\ g = [t EXCEPT !.state = "failed"]
                     /\ h = [t EXCEPT !.due = FALSE]
  OBVIOUS
<1>6. PICK r \in {f, g, h} : outbox' = UpdateJob(outbox, i, r)
  BY <1>2, <1>4, <1>5 DEF Fail, Retry
<1>7. /\ t \in [key : JobKeys, kind : {"create_order", "status"}, payload : JobData,
                state : JobStates, attempts : Nat, due : BOOLEAN]
      /\ t.state = j.state
  BY ONLY <1>3, <1>4
<1>8. /\ r.state \in {"pending", "failed"}
      /\ r.attempts \in Nat /\ r.due \in BOOLEAN
  BY ONLY <1>1, <1>2, <1>3, <1>5, <1>6, <1>7
<1>9. Written(i, r.state, r.attempts, r.due)
  BY <1>6 DEF UpdateJob, Written
<1>. QED
  BY <1>8, <1>9 DEF Settles

LEMMA OutcomeSettles ==
    ASSUME QueueInv, NEW i \in DOMAIN batch, Finish(i) \/ Fail(i) \/ Retry(i)
    PROVE  Settles(i, JobStates)
  BY FinishSettles, FailSettles DEF Settles, JobStates

\* A job is stepped, and leaves the batch.
LEMMA OutcomeQueue ==
    ASSUME QueueInv, NEW i \in DOMAIN batch, Finish(i) \/ Fail(i) \/ Retry(i)
    PROVE  QueueInv'
<1>1. PICK s \in JobStates, a \in Nat, d \in BOOLEAN : Written(i, s, a, d)
  BY OutcomeSettles DEF Settles
<1>2. i \in DOMAIN outbox
  BY InBatch
<1>3. /\ outbox' \in Seq(Job) /\ DOMAIN outbox' = DOMAIN outbox
      /\ \A k \in DOMAIN outbox' : Carries(outbox'[k])
      /\ \A k \in DOMAIN outbox : k # i => outbox'[k] = outbox[k]
  BY <1>1, <1>2, RowWritten
<1>4. batch' = [k \in DOMAIN batch \ {i} |-> batch[k]]
  BY DEF Finish, Fail, Retry, Advance
<1>5. \A k \in DOMAIN batch : k \in DOMAIN outbox
  BY InBatch
<1>6. /\ DOMAIN batch' \subseteq DOMAIN batch
      /\ batch' = [k \in DOMAIN batch' |-> batch[k]]
      /\ \A k \in DOMAIN batch' : outbox'[k] = outbox[k]
  BY <1>3, <1>4, <1>5
<1>. QED
  BY <1>3, <1>6, QueueKept

\* A row that is not of the batch is written.
LEMMA RowQueue ==
    ASSUME QueueInv, NEW i \in DOMAIN outbox, BackoffElapses(i) \/ Requeue(i)
    PROVE  QueueInv'
<1>1. batch' = batch
  BY DEF BackoffElapses, Requeue, workerVars
<1>2. batch' = [k \in DOMAIN batch' |-> batch[k]] /\ DOMAIN batch' = DOMAIN batch
  BY <1>1 DEF QueueInv
<1>3. \A k \in DOMAIN batch : k \in DOMAIN outbox /\ IsDue(outbox[k])
  BY InBatch
<1>4. ASSUME NEW s \in JobStates, NEW a \in Nat, NEW d \in BOOLEAN,
             Written(i, s, a, d), ~IsDue(outbox[i])
      PROVE  QueueInv'
  <2>1. /\ outbox' \in Seq(Job) /\ DOMAIN outbox' = DOMAIN outbox
        /\ \A k \in DOMAIN outbox' : Carries(outbox'[k])
        /\ \A k \in DOMAIN outbox : k # i => outbox'[k] = outbox[k]
    BY <1>4, RowWritten
  <2>2. \A k \in DOMAIN batch' : outbox'[k] = outbox[k]
    BY ONLY <1>2, <1>3, <1>4, <2>1
  <2>. QED
    BY <1>2, <2>1, <2>2, QueueKept
<1>5. outbox[i] \in [key : JobKeys, kind : {"create_order", "status"},
                     payload : JobData, state : JobStates, attempts : Nat,
                     due : BOOLEAN]
  <2>1. outbox[i] \in Job
    BY DEF QueueInv
  <2>. QED
    BY <2>1, JobMeans
<1>6. CASE BackoffElapses(i)
  <2>1. Written(i, outbox[i].state, outbox[i].attempts, TRUE)
    BY <1>5, <1>6 DEF BackoffElapses, Written
  <2>2. outbox[i].state \in JobStates /\ outbox[i].attempts \in Nat
    BY ONLY <1>5
  <2>3. ~IsDue(outbox[i])
    BY <1>6 DEF BackoffElapses, IsDue
  <2>. QED
    BY <1>4, <2>1, <2>2, <2>3
<1>7. CASE Requeue(i) /\ outbox[i].state = "failed"
  <2>1. Written(i, "pending", 0, TRUE)
    BY <1>7 DEF Requeue, RequeueJob, Written
  <2>2. ~IsDue(outbox[i])
    BY <1>7 DEF IsDue
  <2>. QED
    BY <1>4, <2>1, <2>2 DEF JobStates
<1>8. CASE Requeue(i) /\ outbox[i].state # "failed"
  <2>1. outbox' = outbox
    BY <1>8 DEF Requeue, RequeueJob
  <2>. QED
    BY <1>2, <2>1, QueueKept DEF QueueInv
<1>. QED
  BY <1>6, <1>7, <1>8

\* An order's create job is added.
LEMMA EnqueueQueue ==
    ASSUME QueueInv, NEW ext \in ExternalIds, batch' = batch,
           outbox' = EnqueueCreate(outbox, ext)
    PROVE  QueueInv'
<1>1. PICK r : r = NewJob(CreateKey(ext), "create_order", [ext |-> ext])
  OBVIOUS
<1>2. r \in Job /\ Carries(r)
  <2>1. CreateKey(ext) \in JobKeys
    BY DEF CreateKey, JobKeys
  <2>2. [ext |-> ext] \in CreateData /\ [ext |-> ext] \in JobData
    BY DEF CreateData, JobData
  <2>. QED
    BY <1>1, <2>1, <2>2, JobMeans DEF NewJob, Carries, JobStates
<1>3. batch' = [k \in DOMAIN batch' |-> batch[k]] /\ DOMAIN batch' = DOMAIN batch
  BY DEF QueueInv
<1>4. \A k \in DOMAIN batch : k \in DOMAIN outbox
  BY InBatch
<1>5. CASE outbox' = outbox
  BY <1>3, <1>5, QueueKept DEF QueueInv
<1>6. CASE outbox' = Append(outbox, r)
  <2>1. outbox \in Seq(Job) /\ \A k \in DOMAIN outbox : Carries(outbox[k])
    BY DEF QueueInv
  <2>2. outbox' \in Seq(Job)
    BY <1>2, <1>6, <2>1
  <2>3. /\ DOMAIN outbox \subseteq DOMAIN outbox'
        /\ \A k \in DOMAIN outbox : outbox'[k] = outbox[k]
        /\ \A k \in DOMAIN outbox' \ DOMAIN outbox : outbox'[k] = r
    BY <1>2, <1>6, <2>1
  <2>4. \A k \in DOMAIN outbox' : Carries(outbox'[k])
    BY ONLY <1>2, <2>1, <2>3
  <2>5. \A k \in DOMAIN batch' : outbox'[k] = outbox[k]
    BY ONLY <1>3, <1>4, <2>3
  <2>. QED
    BY <1>3, <2>2, <2>3, <2>4, <2>5, QueueKept
<1>. QED
  BY <1>1, <1>5, <1>6 DEF EnqueueCreate, Enqueue

\* The worker reads the jobs that are due.
LEMMA RoundQueue ==
    ASSUME QueueInv, ProcessOnce
    PROVE  QueueInv'
<1>1. PICK B : B = DueJobs(outbox, BatchLimit)
  OBVIOUS
<1>2. \A i \in B : i \in DOMAIN outbox /\ IsDue(outbox[i])
  BY <1>1 DEF DueJobs
<1>3. batch' = [i \in B |-> outbox[i]] /\ outbox' = outbox
  BY <1>1 DEF ProcessOnce
<1>4. \A i \in DOMAIN outbox : outbox[i] \in Job
  BY DEF QueueInv
<1>5. batch' \in [DOMAIN batch' -> Job] /\ DOMAIN batch' \subseteq DOMAIN outbox'
  BY ONLY <1>2, <1>3, <1>4
<1>6. BatchFresh'
  BY <1>2, <1>3 DEF BatchFresh
<1>. QED
  BY <1>3, <1>5, <1>6 DEF QueueInv

\* The queue is left alone, or the batch dropped.
LEMMA StillQueue ==
    ASSUME QueueInv, outbox' = outbox, batch' = batch \/ batch' = <<>>
    PROVE  QueueInv'
<1>1. batch = [k \in DOMAIN batch |-> batch[k]]
  BY DEF QueueInv
<1>2. CASE batch' = batch
  BY <1>1, <1>2, QueueKept DEF QueueInv
<1>3. CASE batch' = <<>>
  <2>1. DOMAIN batch' = {} /\ batch' = [k \in DOMAIN batch' |-> batch[k]]
    BY <1>3
  <2>. QED
    BY <2>1, QueueKept DEF QueueInv
<1>. QED
  BY <1>2, <1>3

\* A poll adds status jobs, made from its copies and the answers.
LEMMA PolledQueue ==
    ASSUME DeliveryInv, QueueInv, ParcelsInv, batch' = batch,
           NEW got, Answers(got), PollStored(got)
    PROVE  QueueInv'
<1>1. PICK o : o = outbox'
  OBVIOUS
<1>2. /\ \E S : o \in Seq(S)
      /\ DOMAIN outbox \subseteq DOMAIN o
      /\ \A k \in DOMAIN outbox : o[k] = outbox[k]
      /\ \A k \in DOMAIN o \ DOMAIN outbox :
            \E n \in NewsMoved(got) : o[k] = StatusJobFor(n, got)
  BY <1>1, JobsPolled DEF DeliveryInv
<1>3. ASSUME NEW n \in NewsMoved(got)
      PROVE  StatusJobFor(n, got) \in Job /\ Carries(StatusJobFor(n, got))
  <2>1. n \in DOMAIN polled /\ got[n] \in Mapped
    BY DEF NewsMoved, News, Answers
  <2>2. n \in Numbers /\ polled[n] \in Row
    BY <2>1 DEF ParcelsInv
  <2>3. PICK data : data = [ext |-> polled[n].ext, sd |-> polled[n].sd, status |-> got[n]]
    OBVIOUS
  <2>4. polled[n].ext \in ExternalIds \cup {NoExt} /\ polled[n].sd \in Nat
    BY <2>2 DEF Row
  <2>5. data \in StatusData
    BY <2>1, <2>3, <2>4 DEF StatusData
  <2>6. StatusKey(n, got[n]) \in JobKeys
    BY <2>1, <2>2 DEF StatusKey, JobKeys
  <2>7. PICK r : r = NewJob(StatusKey(n, got[n]), "status", data)
    OBVIOUS
  <2>8. r \in Job /\ Carries(r)
    BY <2>5, <2>6, <2>7, JobMeans DEF NewJob, Carries, JobStates, JobData
  <2>. QED
    BY <2>3, <2>7, <2>8 DEF StatusJobFor
<1>4. \A k \in DOMAIN outbox : outbox[k] \in Job /\ Carries(outbox[k])
  BY DEF QueueInv
<1>5. \A k \in DOMAIN o : o[k] \in Job /\ Carries(o[k])
  <2>1. ASSUME NEW k \in DOMAIN o, k \notin DOMAIN outbox
        PROVE  o[k] \in Job /\ Carries(o[k])
    <3>1. PICK n \in NewsMoved(got) : o[k] = StatusJobFor(n, got)
      BY <1>2, <2>1
    <3>. QED
      BY <1>3, <3>1
  <2>. QED
    BY ONLY <1>2, <1>4, <2>1
<1>6. o \in Seq(Job)
  <2>1. PICK S : o \in Seq(S)
    BY <1>2
  <2>2. o \in [1 .. Len(o) -> S] /\ Len(o) \in Nat
    BY <2>1
  <2>3. o \in [1 .. Len(o) -> Job]
    BY ONLY <1>5, <2>2
  <2>. QED
    BY ONLY <2>2, <2>3
<1>7. batch' = [k \in DOMAIN batch' |-> batch[k]] /\ DOMAIN batch' = DOMAIN batch
  BY DEF QueueInv
<1>8. \A k \in DOMAIN batch : k \in DOMAIN outbox
  BY InBatch
<1>9. \A k \in DOMAIN batch' : outbox'[k] = outbox[k]
  BY ONLY <1>1, <1>2, <1>7, <1>8
<1>. QED
  BY <1>1, <1>2, <1>5, <1>6, <1>7, <1>9, QueueKept

------------------------------------------------------------------------------
(* Orders, deals and counts *)

\* Deals are only added.
DealsGrow ==
    /\ deals' \in Seq(ExternalIds)
    /\ DOMAIN deals \subseteq DOMAIN deals'
    /\ \A id \in DOMAIN deals : deals'[id] = deals[id]

LEMMA AppendGrows ==
    ASSUME CrmInv, deals' = deals \/ \E ext \in ExternalIds : deals' = Append(deals, ext)
    PROVE  DealsGrow
<1>1. deals \in Seq(ExternalIds)
  BY DEF CrmInv
<1>2. CASE deals' = deals
  BY <1>1, <1>2 DEF DealsGrow
<1>3. ASSUME NEW ext \in ExternalIds, deals' = Append(deals, ext) PROVE DealsGrow
  BY <1>1, <1>3 DEF DealsGrow
<1>. QED
  BY <1>2, <1>3

\* An id of a deal is one, and its order one of the bridge's.
LEMMA DealIds ==
    ASSUME CrmInv, NEW id \in DOMAIN deals
    PROVE  id \in Nat /\ id # NoId /\ deals[id] \in ExternalIds /\ deals[id] # NoExt
<1>1. deals \in Seq(ExternalIds)
  BY DEF CrmInv
<1>. QED
  BY <1>1, TrackingAssumption DEF NoId

\* What is done to the table orders: an order comes, or has the id of its deal.
OrdersStep ==
    \/ orders' = orders
    \/ \E ext \in ExternalIds : orders' = InsertOrder(orders, ext)
    \/ \E id \in DOMAIN deals : orders' = SetSDOrderID(orders, deals[id], id)

LEMMA CrmKept ==
    ASSUME CrmInv, OrdersStep, DealsGrow
    PROVE  CrmInv'
<1>1. /\ orders \in [DOMAIN orders -> Nat] /\ DOMAIN orders \subseteq ExternalIds
      /\ \A ext \in DOMAIN orders :
            orders[ext] # NoId => /\ orders[ext] \in DOMAIN deals
                                  /\ deals[orders[ext]] = ext
  BY DEF CrmInv
<1>2. PICK o : o = orders'
  OBVIOUS
<1> DEFINE Right == /\ o \in [DOMAIN o -> Nat] /\ DOMAIN o \subseteq ExternalIds
                    /\ \A ext \in DOMAIN o :
                          o[ext] # NoId => /\ o[ext] \in DOMAIN deals
                                           /\ deals[o[ext]] = ext
<1>3. Right
  <2>1. CASE o = orders
    BY <1>1, <2>1
  <2>2. ASSUME NEW ext \in ExternalIds, o = InsertOrder(orders, ext)
        PROVE  Right
    BY <1>1, <2>2 DEF InsertOrder, NoId
  <2>3. ASSUME NEW id \in DOMAIN deals, o = SetSDOrderID(orders, deals[id], id)
        PROVE  Right
    <3>1. id \in Nat
      BY DealIds
    <3>. QED
      BY <1>1, <2>3, <3>1 DEF SetSDOrderID
  <2>. QED
    BY <1>2, <2>1, <2>2, <2>3 DEF OrdersStep
<1>. QED
  BY <1>2, <1>3 DEF DealsGrow, CrmInv

\* What is done to the counts of requests.
CountsStep ==
    /\ \/ late' = late
       \/ \E ext : late' = [late EXCEPT ![ext] = @ + 1]
       \/ \E ext \in ExternalIds :
             late[ext] > 0 /\ late' = [late EXCEPT ![ext] = @ - 1]
    /\ \/ lapses' = lapses
       \/ \E ext : lapses' = Lapse(ext)

LEMMA CountRaised ==
    ASSUME NEW c \in [ExternalIds -> Nat], NEW ext
    PROVE  [c EXCEPT ![ext] = @ + 1] \in [ExternalIds -> Nat]
<1>1. CASE ext \in ExternalIds
  BY <1>1
<1>2. CASE ext \notin ExternalIds
  <2>1. [c EXCEPT ![ext] = @ + 1] = c
    BY <1>2, Zenon
  <2>. QED
    BY <2>1
<1>. QED
  BY <1>1, <1>2

LEMMA CountsKept ==
    ASSUME CountsInv, CountsStep
    PROVE  CountsInv'
<1>1. late \in [ExternalIds -> Nat] /\ lapses \in [ExternalIds -> Nat]
  BY DEF CountsInv
<1>2. late' \in [ExternalIds -> Nat]
  <2>1. ASSUME NEW ext, late' = [late EXCEPT ![ext] = @ + 1]
        PROVE  late' \in [ExternalIds -> Nat]
    BY <1>1, <2>1, CountRaised
  <2>2. ASSUME NEW ext \in ExternalIds, late[ext] > 0,
               late' = [late EXCEPT ![ext] = @ - 1]
        PROVE  late' \in [ExternalIds -> Nat]
    BY <1>1, <2>2
  <2>. QED
    BY <1>1, <2>1, <2>2 DEF CountsStep
<1>3. lapses' \in [ExternalIds -> Nat]
  <2>1. ASSUME NEW ext, lapses' = Lapse(ext)
        PROVE  lapses' \in [ExternalIds -> Nat]
    BY <1>1, <2>1, CountRaised DEF Lapse
  <2>. QED
    BY <1>1, <2>1 DEF CountsStep
<1>. QED
  BY <1>2, <1>3 DEF CountsInv

------------------------------------------------------------------------------
(* Parcels *)

LEMMA RankBounded == ASSUME NEW code PROVE Rank(code) \in 0 .. 8
  BY DEF Rank

\* What is done to the table ttns but for a poll's second transaction.
RowsStep ==
    \/ ttns' = ttns
    \/ \E n \in Numbers, ext \in ExternalIds \cup {NoExt}, id \in Nat :
          ttns' = AddTTN(ttns, n, ext, id)
    \/ \E n \in DOMAIN ttns : PollEveryElapses(n) \/ Ages(n)

RowsTyped == ttns \in [DOMAIN ttns -> Row] /\ DOMAIN ttns \subseteq Numbers

LEMMA AddTTNTyped ==
    ASSUME RowsTyped, NEW n \in Numbers, NEW ext \in ExternalIds \cup {NoExt},
           NEW id \in Nat, ttns' = AddTTN(ttns, n, ext, id)
    PROVE  RowsTyped'
<1>1. ttns \in [DOMAIN ttns -> Row] /\ DOMAIN ttns \subseteq Numbers
  BY DEF RowsTyped
<1>2. PICK t : t = ttns'
  OBVIOUS
<1>3. CASE n \in DOMAIN ttns
  <2>1. PICK e, s : /\ e = IF ttns[n].ext = NoExt THEN ext ELSE ttns[n].ext
                    /\ s = IF ttns[n].sd = NoId THEN id ELSE ttns[n].sd
    OBVIOUS
  <2>2. ttns[n] \in Row
    BY <1>1, <1>3
  <2>3. e \in ExternalIds \cup {NoExt} /\ s \in Nat
    BY <2>1, <2>2 DEF Row
  <2>4. PICK r : r = [[ttns[n] EXCEPT !.ext = e] EXCEPT !.sd = s]
    OBVIOUS
  <2>5. r \in Row
    BY ONLY <2>2, <2>3, <2>4 DEF Row
  <2>6. t = [ttns EXCEPT ![n] = r]
    BY <1>2, <1>3, <2>1, <2>4 DEF AddTTN
  <2>7. t \in [DOMAIN t -> Row] /\ DOMAIN t \subseteq Numbers
    BY ONLY <1>1, <2>5, <2>6
  <2>. QED
    BY <1>2, <2>7 DEF RowsTyped
<1>4. CASE n \notin DOMAIN ttns
  <2>1. PICK r : r = [ext |-> ext, sd |-> id, code |-> 0, rank |-> 0,
                      final |-> FALSE, due |-> TRUE, old |-> FALSE]
    OBVIOUS
  <2>2. r \in Row
    BY <2>1 DEF Row
  <2>3. t = [m \in DOMAIN ttns \cup {n} |-> IF m = n THEN r ELSE ttns[m]]
    BY <1>2, <1>4, <2>1 DEF AddTTN, InsertTTN
  <2>4. t \in [DOMAIN t -> Row] /\ DOMAIN t \subseteq Numbers
    BY <1>1, <2>2, <2>3
  <2>. QED
    BY <1>2, <2>4 DEF RowsTyped
<1>. QED
  BY <1>3, <1>4

LEMMA RowsKept ==
    ASSUME RowsTyped, RowsStep
    PROVE  RowsTyped'
<1>1. ttns \in [DOMAIN ttns -> Row] /\ DOMAIN ttns \subseteq Numbers
  BY DEF RowsTyped
<1>2. CASE ttns' = ttns
  BY <1>1, <1>2 DEF RowsTyped
<1>3. ASSUME NEW n \in Numbers, NEW ext \in ExternalIds \cup {NoExt},
             NEW id \in Nat, ttns' = AddTTN(ttns, n, ext, id)
      PROVE  RowsTyped'
  BY <1>3, AddTTNTyped
<1>4. ASSUME NEW n \in DOMAIN ttns, PollEveryElapses(n) \/ Ages(n)
      PROVE  RowsTyped'
  <2>1. ttns[n] \in Row
    BY <1>1
  <2>2. PICK r \in Row : ttns' = [ttns EXCEPT ![n] = r]
    <3>1. PICK d, o : /\ d = [ttns[n] EXCEPT !.due = TRUE]
                      /\ o = [ttns[n] EXCEPT !.old = TRUE]
      OBVIOUS
    <3>2. d \in Row /\ o \in Row
      BY ONLY <2>1, <3>1 DEF Row
    <3>3. ttns' = [ttns EXCEPT ![n] = d] \/ ttns' = [ttns EXCEPT ![n] = o]
      BY <1>4, <3>1 DEF PollEveryElapses, Ages
    <3>. QED
      BY <3>2, <3>3
  <2>3. PICK t : t = ttns'
    OBVIOUS
  <2>4. t \in [DOMAIN t -> Row] /\ DOMAIN t \subseteq Numbers
    BY ONLY <1>1, <2>2, <2>3
  <2>. QED
    BY <2>3, <2>4 DEF RowsTyped
<1>. QED
  BY <1>2, <1>3, <1>4 DEF RowsStep

\* The rows that a poll writes.
LEMMA RowsPolled ==
    ASSUME RowsTyped, polled \in [DOMAIN polled -> Row],
           NEW got, Answers(got), \A n \in DOMAIN got : got[n] \in Codes,
           PollStored(got)
    PROVE  RowsTyped'
<1>1. ttns \in [DOMAIN ttns -> Row] /\ DOMAIN ttns \subseteq Numbers
  BY DEF RowsTyped
<1>2. PICK t : t = ttns'
  OBVIOUS
<1>3. t = [n \in DOMAIN ttns |->
              IF n \in DOMAIN polled THEN UpdateTTN(ttns[n], PolledRow(n, got))
                                     ELSE ttns[n]]
  BY <1>2 DEF PollStored, WriteBack
<1>4. ASSUME NEW n \in DOMAIN ttns, n \in DOMAIN polled
      PROVE  UpdateTTN(ttns[n], PolledRow(n, got)) \in Row
  <2>1. PICK x, r : x = polled[n] /\ r = ttns[n]
    OBVIOUS
  <2>2. x \in Row /\ r \in Row
    BY <1>1, <1>4, <2>1
  <2>3. PICK c, k, f :
            /\ c = IF n \in News(got) THEN got[n] ELSE x.code
            /\ k = IF n \in News(got) THEN Rank(got[n]) ELSE x.rank
            /\ f = (x.final \/ r.old \/ (n \in News(got) /\ Final(got[n])))
    OBVIOUS
  <2>4. c \in Codes \cup {0} /\ k \in 0 .. 8 /\ f \in BOOLEAN
    <3>1. n \in News(got) => got[n] \in Codes
      BY DEF News
    <3>2. Rank(got[n]) \in 0 .. 8
      BY RankBounded
    <3>3. c \in Codes \cup {0}
      BY <2>2, <2>3, <3>1 DEF Row
    <3>4. k \in 0 .. 8
      BY <2>2, <2>3, <3>2 DEF Row
    <3>. QED
      BY <2>3, <3>3, <3>4
  <2>5. PICK p : p = [x EXCEPT !.code = c, !.rank = k, !.final = f, !.due = FALSE]
    OBVIOUS
  <2>6. p = PolledRow(n, got)
    BY <2>1, <2>3, <2>5 DEF PolledRow
  <2>7. p.code = c /\ p.rank = k /\ p.final = f /\ p.due = FALSE
    BY ONLY <2>2, <2>5 DEF Row
  <2>8. PICK s : s = UpdateTTN(r, p)
    OBVIOUS
  <2>9. s \in Row
    BY ONLY <2>2, <2>4, <2>7, <2>8 DEF Row, UpdateTTN
  <2>. QED
    BY <2>1, <2>6, <2>8, <2>9
<1>5. t \in [DOMAIN t -> Row] /\ DOMAIN t \subseteq Numbers
  BY ONLY <1>1, <1>3, <1>4
<1>. QED
  BY <1>2, <1>5 DEF RowsTyped

\* What is done to the poll and its copies.
CopiesStep ==
    /\ poll' \in {"idle", "asked", "sending"}
    /\ \/ polled' = polled
       \/ polled' = <<>>
       \/ PollBegins

LEMMA CopiesTypedKept ==
    ASSUME ProgressInv, ParcelsInv, CopiesStep, DOMAIN ttns \subseteq DOMAIN ttns'
    PROVE  /\ poll' \in {"idle", "asked", "sending"}
           /\ polled' \in [DOMAIN polled' -> Row]
           /\ DOMAIN polled' \subseteq DOMAIN ttns'
<1>1. /\ ttns \in [DOMAIN ttns -> Row]
      /\ polled \in [DOMAIN polled -> Row] /\ DOMAIN polled \subseteq DOMAIN ttns
  BY DEF ParcelsInv
<1>2. PICK p : p = polled'
  OBVIOUS
<1>3. p \in [DOMAIN p -> Row] /\ DOMAIN p \subseteq DOMAIN ttns
  <2>1. CASE p = polled
    BY <1>1, <2>1
  <2>2. CASE p = <<>>
    BY <2>2
  <2>3. CASE PollBegins
    <3>1. PICK D : D = DueTTNs
      OBVIOUS
    <3>2. D \subseteq DOMAIN ttns /\ p = [n \in D |-> ttns[n]]
      BY <1>2, <2>3, <3>1 DEF PollBegins, DueTTNs, Unpolled
    <3>. QED
      BY ONLY <1>1, <3>2
  <2>. QED
    BY <1>2, <2>1, <2>2, <2>3 DEF CopiesStep
<1>. QED
  BY <1>2, <1>3 DEF CopiesStep

\* The times of the last polls are as many as there are parcels, at most.
LEMMA TurnsTaken ==
    ASSUME TakeTurn
    PROVE  TimesInv'
<1> DEFINE after(n) == IF n \in DOMAIN polled THEN 1 + Cardinality(Numbers)
                                              ELSE turns[n]
           f == [m \in Numbers |-> after(m)]
           all == {after(m) : m \in Numbers}
<1>1. turns' = [n \in Numbers |-> Cardinality({t \in all \ {0} : t <= after(n)})]
  BY DEF TakeTurn
<1>2. f \in Surjection(Numbers, all)
  BY DEF Surjection
<1>3. /\ IsFiniteSet(all) /\ Cardinality(all) <= Cardinality(Numbers)
      /\ Cardinality(all) \in Nat /\ Cardinality(Numbers) \in Nat
  <2>1. IsFiniteSet(Numbers)
    BY TrackingAssumption
  <2>2. IsFiniteSet(all) /\ Cardinality(all) <= Cardinality(Numbers)
    BY <1>2, <2>1, FS_Surjection
  <2>. QED
    BY <2>1, <2>2, FS_CardinalityType
<1>. HIDE DEF all, after
<1>4. ASSUME NEW n \in Numbers
      PROVE  Cardinality({t \in all \ {0} : t <= after(n)})
                 \in 0 .. Cardinality(Numbers)
  <2>1. PICK T : T = {t \in all \ {0} : t <= after(n)}
    OBVIOUS
  <2>2. T \in SUBSET all
    BY <2>1
  <2>3. IsFiniteSet(T) /\ Cardinality(T) <= Cardinality(all)
    BY <1>3, <2>2, FS_Subset
  <2>4. Cardinality(T) \in Nat
    BY <2>3, FS_CardinalityType
  <2>. QED
    BY <1>3, <2>1, <2>3, <2>4
<1>5. PICK u : u = turns'
  OBVIOUS
<1>6. u \in [Numbers -> 0 .. Cardinality(Numbers)]
  BY <1>1, <1>4, <1>5
<1>. QED
  BY <1>5, <1>6 DEF TimesInv

\* What is done to the messages but for a poll's second transaction.
NoticesStep ==
    \/ UNCHANGED <<toSend, sent>>
    \/ toSend' = <<>> /\ sent' = sent
    \/ SendNotice

LEMMA NoticesKept ==
    ASSUME PollInv, NoticesInv, NoticesStep
    PROVE  NoticesInv'
<1>1. toSend \in Seq(Notice) /\ sent \in Seq(Notice)
  BY DEF NoticesInv
<1>2. CASE UNCHANGED <<toSend, sent>> \/ (toSend' = <<>> /\ sent' = sent)
  <2>1. <<>> \in Seq(Notice)
    OBVIOUS
  <2>. QED
    BY <1>1, <1>2, <2>1 DEF NoticesInv
<1>3. CASE SendNotice
  <2>1. toSend # <<>>
    BY <1>3 DEF SendNotice, PollInv
  <2>2. Append(sent, Head(toSend)) \in Seq(Notice) /\ Tail(toSend) \in Seq(Notice)
    BY ONLY <1>1, <2>1
  <2>. QED
    BY <1>3, <2>2 DEF SendNotice, NoticesInv
<1>. QED
  BY <1>2, <1>3 DEF NoticesStep

\* The messages that a poll makes.
LEMMA NoticesPolled ==
    ASSUME ProgressInv, PollInv, CrmInv, ContactsInv, ParcelsInv, NoticesInv,
           NEW got, Answers(got), PollStored(got)
    PROVE  NoticesInv'
<1>1. PICK T : T = NewsTold(got)
  OBVIOUS
<1>2. \A n \in T : n \in Numbers /\ n \in DOMAIN polled /\ Announced(n, got[n])
  BY <1>1 DEF NewsTold, News, Answers, ParcelsInv
<1>3. PICK told : told = InTurn(T)
  OBVIOUS
<1>4. Lists(told, T)
  BY <1>2, <1>3, InTurnLists DEF PollInv
<1>5. PICK c : c = Cardinality(T)
  OBVIOUS
<1>6. c \in Nat /\ DOMAIN told = 1 .. c /\ \A k \in 1 .. c : told[k] \in T
  BY <1>4, <1>5 DEF Lists
<1>7. toSend' = [k \in 1 .. c |-> NoticeFor(told[k], got)] /\ sent' = sent
  BY <1>1, <1>3, <1>6, QueueNewsMeans DEF PollStored
<1>8. ASSUME NEW n \in T PROVE NoticeFor(n, got) \in Notice
  <2>1. Stage(got[n]) \in {"transit", "arrived", "received", "refused"}
    BY <1>2 DEF Announced
  <2>2. Recipient(n, got[n]) \in ExternalIds \cup {NoExt, Manager}
    BY DEF Recipient, ContactsInv, CrmInv
  <2>3. n \in Numbers
    BY <1>2
  <2>. QED
    BY <2>1, <2>2, <2>3 DEF NoticeFor, Notice
<1>9. PICK t : t = toSend'
  OBVIOUS
<1>10. t \in [1 .. c -> Notice]
  BY <1>6, <1>7, <1>8, <1>9
<1>11. t \in Seq(Notice)
  BY ONLY <1>6, <1>10
<1>. QED
  BY <1>7, <1>9, <1>11 DEF NoticesInv

------------------------------------------------------------------------------
(* Links *)

\* A link that is known stays right.
LEMMA LinkedStays ==
    ASSUME KeepsLinks, NEW n \in DOMAIN ttns, NEW sd, NEW ext, LinkedAs(n, sd, ext)
    PROVE  LinkedAs(n, sd, ext)'
<1>1. /\ ttns[n].ext # NoExt => ttns'[n].ext = ttns[n].ext
      /\ ttns[n].sd # NoId => ttns'[n].sd = ttns[n].sd
  BY DEF KeepsLinks
<1>. QED
  BY <1>1 DEF LinkedAs

LEMMA StatusJobParcel ==
    ASSUME JobsInv, NEW i \in DOMAIN outbox, outbox[i].kind = "status"
    PROVE  /\ outbox[i].key[2] \in DOMAIN ttns
           /\ Rank(outbox[i].payload.status) <= ttns[outbox[i].key[2]].rank
<1>1. StatusJob(i)
  BY DEF JobsInv, CreateJob
<1>. QED
  BY <1>1 DEF StatusJob

LEMMA CopiesLinked ==
    ASSUME ProgressInv, LinksInv, KeepsLinks, CopiesStep
    PROVE  \A n \in DOMAIN polled' : LinkedAs(n, polled[n].sd, polled[n].ext)'
<1>1. CASE polled' = polled
  <2>1. ASSUME NEW n \in DOMAIN polled'
        PROVE  LinkedAs(n, polled[n].sd, polled[n].ext)'
    <3>1. PICK s, e : s = polled[n].sd /\ e = polled[n].ext
      OBVIOUS
    <3>2. n \in DOMAIN ttns /\ LinkedAs(n, s, e)
      BY <1>1, <2>1, <3>1 DEF LinksInv, ProgressInv, PolledFresh
    <3>3. LinkedAs(n, s, e)'
      BY <3>2, LinkedStays
    <3>4. s = polled'[n].sd /\ e = polled'[n].ext
      BY <1>1, <3>1
    <3>. QED
      BY <3>3, <3>4 DEF LinkedAs
  <2>. QED
    BY <2>1
<1>2. CASE polled' = <<>>
  BY <1>2
<1>3. CASE PollBegins
  <2>1. ttns' = ttns /\ polled' = [n \in DueTTNs |-> ttns[n]]
    BY <1>3 DEF PollBegins
  <2>. QED
    BY <2>1 DEF LinkedAs
<1>. QED
  BY <1>1, <1>2, <1>3 DEF CopiesStep

\* Steps that do not queue status jobs.
LEMMA LinksAside ==
    ASSUME ProgressInv, JobsInv, LinksInv, KeepsLinks, CopiesStep, JobsAside
    PROVE  LinksInv'
<1>1. \A n \in DOMAIN polled' : LinkedAs(n, polled[n].sd, polled[n].ext)'
  BY CopiesLinked
<1>2. ASSUME NEW i \in DOMAIN outbox', outbox'[i].kind = "status"
      PROVE  LinkedAs(outbox[i].key[2], outbox[i].payload.sd,
                      outbox[i].payload.ext)'
  <2>1. /\ i \in DOMAIN outbox
        /\ outbox'[i].key = outbox[i].key /\ outbox'[i].payload = outbox[i].payload
        /\ outbox[i].kind = "status"
    BY <1>2 DEF JobsAside, CreateJob
  <2>2. PICK n, s, e : /\ n = outbox[i].key[2]
                       /\ s = outbox[i].payload.sd /\ e = outbox[i].payload.ext
    OBVIOUS
  <2>3. n \in DOMAIN ttns /\ LinkedAs(n, s, e)
    BY <2>1, <2>2, StatusJobParcel DEF LinksInv
  <2>4. LinkedAs(n, s, e)'
    BY <2>3, LinkedStays
  <2>5. /\ n = outbox'[i].key[2]
        /\ s = outbox'[i].payload.sd /\ e = outbox'[i].payload.ext
    BY <2>1, <2>2
  <2>. QED
    BY <2>4, <2>5 DEF LinkedAs
<1>. QED
  BY <1>1, <1>2 DEF LinksInv

\* The jobs that a poll queues have the links of its copies.
LEMMA LinksPolled ==
    ASSUME ProgressInv, PollInv, JobsInv, LinksInv, KeepsLinks,
           NEW got, Answers(got), PollStored(got)
    PROVE  LinksInv'
<1>1. PICK o : o = outbox'
  OBVIOUS
<1>2. /\ \A k \in DOMAIN outbox : o[k] = outbox[k]
      /\ \A k \in DOMAIN o \ DOMAIN outbox :
            \E n \in NewsMoved(got) : o[k] = StatusJobFor(n, got)
  BY <1>1, JobsPolled
<1>3. ASSUME NEW i \in DOMAIN o, o[i].kind = "status"
      PROVE  LinkedAs(o[i].key[2], o[i].payload.sd, o[i].payload.ext)'
  <2>1. PICK n, s, e : /\ n = o[i].key[2]
                       /\ s = o[i].payload.sd /\ e = o[i].payload.ext
    OBVIOUS
  <2>2. n \in DOMAIN ttns /\ LinkedAs(n, s, e)
    <3>1. CASE i \in DOMAIN outbox
      BY <1>2, <1>3, <2>1, <3>1, StatusJobParcel DEF LinksInv
    <3>2. CASE i \notin DOMAIN outbox
      <4>1. PICK m \in NewsMoved(got) : o[i] = StatusJobFor(m, got)
        BY <1>2, <3>2
      <4>2. n = m /\ s = polled[m].sd /\ e = polled[m].ext
        BY <2>1, <4>1 DEF StatusJobFor, NewJob, StatusKey
      <4>3. m \in DOMAIN polled
        BY DEF NewsMoved, News, Answers
      <4>. QED
        BY <4>2, <4>3 DEF LinksInv, ProgressInv, PolledFresh
    <3>. QED
      BY <3>1, <3>2
  <2>3. LinkedAs(n, s, e)'
    BY <2>2, LinkedStays
  <2>. QED
    BY <2>1, <2>3
<1>4. polled' = <<>>
  BY DEF PollStored
<1>. QED
  BY <1>1, <1>3, <1>4 DEF LinksInv

------------------------------------------------------------------------------
(* The job at hand *)

\* Nothing is known of it yet, or any more.
LEMMA HandEmpty ==
    ASSUME pc' \in {"idle", "step", "lookedUp"}, dealId' \in Nat
    PROVE  HandInv'
  BY DEF HandInv

LEMMA HandSame ==
    ASSUME QueueInv, HandInv, UNCHANGED <<pc, batch, dealId, funnel>>, DealsGrow
    PROVE  HandInv'
<1>1. \A i : Current(i)' <=> Current(i)
  BY DEF Current
<1>2. \A i : Ext(i)' = Ext(i)
  BY DEF Ext
<1>3. \A i : OrdersDeal(i) => OrdersDeal(i)'
  BY <1>2 DEF OrdersDeal, DealsGrow
<1>4. \A job : MovedBy(job) => MovedBy(job)'
  BY DEF MovedBy
<1>. QED
  BY <1>1, <1>3, <1>4 DEF HandInv

\* A request for a deal is sent.
LEMMA SendCreateHand ==
    ASSUME QueueInv, HandInv, NEW i \in DOMAIN batch, SendCreate(i)
    PROVE  HandInv'
<1>1. /\ pc' = "sent" /\ batch' = batch /\ dealId' = dealId
      /\ Current(i) /\ batch[i].kind = "create_order"
  BY DEF SendCreate, AtCreate
<1>2. \A j : Current(j)' => j = i
  BY <1>1, OneAtHand DEF Current
<1>. QED
  BY <1>1, <1>2 DEF HandInv

\* The CRM makes the deal.
LEMMA CreateDealHand ==
    ASSUME QueueInv, CrmInv, HandInv, NEW i \in DOMAIN batch, CreateDeal(i)
    PROVE  HandInv'
<1>1. /\ pc' = "executed" /\ batch' = batch
      /\ deals' = Append(deals, Ext(i)) /\ dealId' = Len(deals) + 1
      /\ Current(i) /\ batch[i].kind = "create_order"
  BY DEF CreateDeal, AtCreate
<1>2. \A j : Current(j)' => j = i
  BY <1>1, OneAtHand DEF Current
<1>3. PICK e : e = Ext(i)
  OBVIOUS
<1>4. Ext(i)' = e
  BY <1>1, <1>3 DEF Ext
<1>5. e \in ExternalIds
  <2>1. batch[i].payload \in CreateData
    BY <1>1, InBatch DEF Carries
  <2>. QED
    BY <1>3, <2>1 DEF Ext, CreateData
<1>6. deals \in Seq(ExternalIds)
  BY DEF CrmInv
<1>7. dealId' \in Nat /\ dealId' \in DOMAIN deals' /\ deals'[dealId'] = e
  BY <1>1, <1>3, <1>5, <1>6
<1>8. OrdersDeal(i)'
  BY <1>4, <1>7 DEF OrdersDeal
<1>. QED
  BY <1>1, <1>2, <1>7, <1>8 DEF HandInv

\* A status request goes out, for the deal that the job's links name.
LEMMA SendStatusHand ==
    ASSUME QueueInv, CrmInv, HandInv, NEW i \in DOMAIN batch, SendStatus(i)
    PROVE  HandInv'
<1>1. /\ pc' = "sent" /\ batch' = batch /\ deals' = deals
      /\ dealId' = StatusId(i)
      /\ Current(i) /\ batch[i].kind = "status"
      /\ batch[i].payload.sd # NoId \/ Ext(i) \in DOMAIN orders
  BY DEF SendStatus, AtStatus, crmVars
<1>2. \A j : Current(j)' => j = i
  BY <1>1, OneAtHand DEF Current
<1>3. batch[i].payload \in StatusData
  BY <1>1, InBatch DEF Carries
<1>4. Ext(i)' = Ext(i)
  BY <1>1 DEF Ext
<1>5. CASE dealId' = batch[i].payload.sd
  <2>1. dealId' \in Nat
    BY <1>3, <1>5 DEF StatusData
  <2>. QED
    BY <1>1, <1>2, <1>5, <2>1 DEF HandInv
<1>6. CASE dealId' # batch[i].payload.sd
  <2>1. dealId' = orders[Ext(i)] /\ batch[i].payload.sd = NoId
    BY <1>1, <1>6 DEF StatusId
  <2>2. Ext(i) \in DOMAIN orders
    BY <1>1, <2>1
  <2>3. dealId' \in Nat
    BY <2>1, <2>2 DEF CrmInv
  <2>4. dealId' # NoId => OrdersDeal(i)'
    BY <1>1, <1>4, <2>1, <2>2 DEF CrmInv, OrdersDeal
  <2>. QED
    BY <1>1, <1>2, <2>3, <2>4 DEF HandInv
<1>. QED
  BY <1>5, <1>6

LEMMA OutcomeHand ==
    ASSUME NEW i, Finish(i) \/ Fail(i) \/ Retry(i)
    PROVE  HandInv'
<1>1. pc' \in {"idle", "step", "lookedUp"} /\ dealId' \in Nat
  BY DEF Finish, Fail, Retry, Advance, NoId
<1>. QED
  BY <1>1, HandEmpty

------------------------------------------------------------------------------
(* The funnel *)

\* A deal keeps its own parcel, and this the stage it has reached.
LEMMA MovedStays ==
    ASSUME ParcelsInv, CrmInv, MovedInv, funnel' = funnel, DealsGrow,
           MovesForward, KeepsLinks, DOMAIN ttns \subseteq DOMAIN ttns',
           ProgressInv'
    PROVE  MovedInv'
<1>1. ASSUME NEW id \in DOMAIN funnel
      PROVE  /\ id \in DOMAIN deals'
             /\ funnel[id].number \in DOMAIN ttns'
             /\ \/ ttns'[funnel[id].number].sd = id
                \/ ttns'[funnel[id].number].ext = deals'[id]
             /\ Rank(funnel[id].code) <= ttns'[funnel[id].number].rank
  <2>1. PICK n, c : n = funnel[id].number /\ c = Rank(funnel[id].code)
    OBVIOUS
  <2>2. /\ id \in DOMAIN deals /\ n \in DOMAIN ttns
        /\ ttns[n].sd = id \/ ttns[n].ext = deals[id]
        /\ c <= ttns[n].rank
    BY <2>1 DEF MovedInv, FunnelFromOwnParcel
  <2>3. id # NoId /\ deals[id] # NoExt /\ deals'[id] = deals[id]
    BY <2>2, DealIds DEF DealsGrow
  <2>4. ttns'[n].sd = id \/ ttns'[n].ext = deals'[id]
    BY <2>2, <2>3 DEF KeepsLinks
  <2>5. ttns'[n].rank >= ttns[n].rank
    BY <2>2 DEF MovesForward
  <2>6. ttns[n].rank \in Nat /\ ttns'[n].rank \in Nat /\ c \in Nat
    <3>1. ttns[n] \in Row
      BY <2>2 DEF ParcelsInv
    <3>2. RowOK(ttns'[n])
      BY <2>2 DEF ProgressInv, RowsInv, RowOK
    <3>. QED
      BY <2>1, <3>1, <3>2, RankNat DEF Row, RowOK
  <2>. QED
    BY <2>1, <2>2, <2>4, <2>5, <2>6 DEF DealsGrow
<1>2. FunnelFromOwnParcel'
  BY <1>1 DEF FunnelFromOwnParcel
<1>. QED
  BY <1>1, <1>2 DEF MovedInv

\* The deal that a status job moves is its own: the one the job names by an id
\* is that of its parcel, and so is the order of one it finds.
LEMMA OwnDeal ==
    ASSUME DeliveryInv, QueueInv, CrmInv, LinksInv, HandInv,
           NEW i \in DOMAIN batch, pc = "sent", AtStatus(i),
           NEW id \in DOMAIN deals,
           IF dealId # NoId THEN id = dealId ELSE deals[id] = Ext(i)
    PROVE  /\ batch[i].key[2] \in DOMAIN ttns
           /\ batch[i].payload.status \in Mapped
           /\ \/ ttns[batch[i].key[2]].sd = id
              \/ ttns[batch[i].key[2]].ext = deals[id]
           /\ Rank(batch[i].payload.status) <= ttns[batch[i].key[2]].rank
<1>1. /\ i \in DOMAIN outbox /\ batch[i] = outbox[i]
      /\ batch[i].kind = "status" /\ Carries(batch[i])
  BY InBatch DEF AtStatus
<1>2. PICK n, data : n = batch[i].key[2] /\ data = batch[i].payload
  OBVIOUS
<1>3. data \in StatusData
  BY <1>1, <1>2 DEF Carries
<1>4. n \in DOMAIN ttns /\ Rank(data.status) <= ttns[n].rank
  BY <1>1, <1>2, StatusJobParcel DEF DeliveryInv
<1>5. LinkedAs(n, data.sd, data.ext)
  BY <1>1, <1>2 DEF LinksInv
<1>6. id # NoId /\ deals[id] # NoExt
  BY DealIds
<1>7. dealId # NoId => dealId = data.sd \/ OrdersDeal(i)
  BY <1>1, <1>2 DEF HandInv, AtStatus
<1>8. id = data.sd \/ deals[id] = data.ext
  BY <1>2, <1>7 DEF OrdersDeal, Ext
<1>9. ttns[n].sd = id \/ ttns[n].ext = deals[id]
  BY <1>5, <1>6, <1>8 DEF LinkedAs
<1>. QED
  BY <1>2, <1>3, <1>4, <1>9 DEF StatusData

LEMMA MoveDealMoves ==
    ASSUME FunnelInv, NEW i \in DOMAIN batch, MoveDeal(i)
    PROVE  HandInv' /\ MovedInv'
<1>1. DeliveryInv /\ QueueInv /\ CrmInv /\ LinksInv /\ HandInv /\ MovedInv
  BY DEF FunnelInv
<1>2. /\ pc = "sent" /\ AtStatus(i) /\ pc' = "executed"
      /\ UNCHANGED <<batch, dealId, deals, ttns>>
  BY DEF MoveDeal, crmVars
<1>3. PICK n, c : n = batch[i].key[2] /\ c = batch[i].payload.status
  OBVIOUS
<1>4. PICK id \in DOMAIN deals :
          /\ IF dealId # NoId THEN id = dealId ELSE deals[id] = Ext(i)
          /\ funnel' = [d \in DOMAIN funnel \cup {id} |->
                           IF d = id THEN [number |-> n, code |-> c] ELSE funnel[d]]
  BY <1>3 DEF MoveDeal
<1>5. /\ n \in DOMAIN ttns /\ c \in Mapped
      /\ ttns[n].sd = id \/ ttns[n].ext = deals[id]
      /\ Rank(c) <= ttns[n].rank
  BY <1>1, <1>2, <1>3, <1>4, OwnDeal
<1>6. PICK f, moved : f = funnel' /\ moved = [number |-> n, code |-> c]
  OBVIOUS
<1>7. /\ DOMAIN f = DOMAIN funnel \cup {id} /\ f[id] = moved
      /\ \A d \in DOMAIN funnel : d # id => f[d] = funnel[d]
      /\ f = [d \in DOMAIN f |-> f[d]]
  BY <1>4, <1>6
<1>8. HandInv'
  <2>1. Current(i) /\ batch[i].kind = "status"
    BY <1>2 DEF AtStatus
  <2>2. \A j : Current(j)' => j = i
    BY <1>1, <1>2, <2>1, OneAtHand DEF Current
  <2>3. MovedBy(batch[i])'
    BY <1>2, <1>3, <1>6, <1>7 DEF MovedBy
  <2>4. dealId # NoId => dealId = batch[i].payload.sd \/ OrdersDeal(i)
    BY <1>1, <1>2, <2>1 DEF HandInv
  <2>5. OrdersDeal(i) => OrdersDeal(i)'
    BY <1>2 DEF OrdersDeal, Ext
  <2>6. dealId' \in Nat
    BY <1>1, <1>2 DEF HandInv
  <2>. QED
    BY <1>2, <2>1, <2>2, <2>3, <2>4, <2>5, <2>6 DEF HandInv
<1>9. MovedInv'
  <2>1. n \in Numbers
    BY <1>1, <1>5 DEF DeliveryInv, PollInv, TurnsInv
  <2>2. moved \in [number : Numbers, code : Mapped] /\ moved.number = n /\ moved.code = c
    BY <1>5, <1>6, <2>1
  <2>3. /\ funnel \in [DOMAIN funnel -> [number : Numbers, code : Mapped]]
        /\ DOMAIN funnel \subseteq DOMAIN deals
        /\ \A d \in DOMAIN funnel :
              /\ funnel[d].number \in DOMAIN ttns
              /\ \/ ttns[funnel[d].number].sd = d
                 \/ ttns[funnel[d].number].ext = deals[d]
              /\ Rank(funnel[d].code) <= ttns[funnel[d].number].rank
    BY <1>1 DEF MovedInv, FunnelFromOwnParcel
  <2>4. /\ f \in [DOMAIN f -> [number : Numbers, code : Mapped]]
        /\ DOMAIN f \subseteq DOMAIN deals
    BY ONLY <1>4, <1>7, <2>2, <2>3
  <2>5. ASSUME NEW d \in DOMAIN f
        PROVE  /\ f[d].number \in DOMAIN ttns
               /\ \/ ttns[f[d].number].sd = d
                  \/ ttns[f[d].number].ext = deals[d]
               /\ Rank(f[d].code) <= ttns[f[d].number].rank
    <3>1. CASE d = id
      BY <1>5, <1>7, <2>2, <3>1
    <3>2. CASE d # id
      <4>1. d \in DOMAIN funnel /\ f[d] = funnel[d]
        BY <1>7, <3>2
      <4>. QED
        BY <2>3, <4>1
    <3>. QED
      BY <3>1, <3>2
  <2>6. FunnelFromOwnParcel'
    BY <1>2, <1>6, <2>5 DEF FunnelFromOwnParcel
  <2>. QED
    BY <1>2, <1>6, <2>4, <2>5, <2>6 DEF MovedInv
<1>. QED
  BY <1>8, <1>9

------------------------------------------------------------------------------
(* Every step *)

\* What a step does, unless it is a poll's second transaction.
Does ==
    /\ OrdersStep /\ DealsGrow /\ CountsStep
    /\ RowsStep /\ CopiesStep /\ NoticesStep /\ turns' = turns
    /\ QueueInv' /\ HandInv'
    /\ funnel' = funnel \/ MovedInv'

LEMMA SameDeals == ASSUME CrmInv, deals' = deals PROVE DealsGrow
  BY AppendGrows

\* A step that tracking has no part in.
LEMMA OtherDoes ==
    ASSUME FunnelInv, UNCHANGED trackingVars, OrdersStep, DealsGrow, CountsStep,
           QueueInv', HandInv'
    PROVE  Does
<1>1. /\ ttns' = ttns /\ turns' = turns /\ poll' = poll /\ polled' = polled
      /\ toSend' = toSend /\ sent' = sent /\ funnel' = funnel
  BY DEF trackingVars, pollVars
<1>2. poll \in {"idle", "asked", "sending"}
  BY DEF FunnelInv, ParcelsInv
<1>. QED
  BY <1>1, <1>2 DEF Does, RowsStep, CopiesStep, NoticesStep

\* The worker has stepped a job.
LEMMA OutcomeDoes ==
    ASSUME FunnelInv, UNCHANGED trackingVars, OrdersStep, deals' = deals, CountsStep,
           NEW i \in DOMAIN batch, Finish(i) \/ Fail(i) \/ Retry(i)
    PROVE  Does
<1>1. QueueInv /\ CrmInv
  BY DEF FunnelInv
<1>2. QueueInv' /\ HandInv' /\ DealsGrow
  BY <1>1, OutcomeQueue, OutcomeHand, SameDeals
<1>. QED
  BY <1>2, OtherDoes

\* The worker has got a step further with a job, or has dropped its batch.
LEMMA FurtherDoes ==
    ASSUME FunnelInv, UNCHANGED trackingVars, OrdersStep, deals' = deals, CountsStep,
           outbox' = outbox, batch' = batch \/ batch' = <<>>, HandInv'
    PROVE  Does
<1>1. QueueInv /\ CrmInv
  BY DEF FunnelInv
<1>2. QueueInv' /\ DealsGrow
  BY <1>1, StillQueue, SameDeals
<1>. QED
  BY <1>2, OtherDoes

LEMMA WorkerDoes ==
    ASSUME FunnelInv, NEW i \in DOMAIN batch, WorkerStep(i)
    PROVE  Does
<1>1. QueueInv /\ CrmInv /\ HandInv
  BY DEF FunnelInv
<1>2. UNCHANGED trackingVars
  BY DEF WorkerStep, StatusStep, StatusUnlinked, StatusStuck, SendStatus,
         StatusAnswered
<1>3. UNCHANGED <<deals, late, lapses>> => deals' = deals /\ CountsStep
  BY DEF CountsStep
<1>4. orders' = orders => OrdersStep
  BY DEF OrdersStep
<1>5. dealId \in Nat
  BY <1>1 DEF HandInv
<1>6. CASE StatusStuck(i) \/ LookupMissed(i)
  <2>1. /\ UNCHANGED <<orders, outbox, dealId, deals, late, lapses>>
        /\ batch' = batch \/ batch' = <<>>
        /\ pc' \in {"idle", "lookedUp"}
    BY <1>6 DEF StatusStuck, LookupMissed, crmVars
  <2>2. HandInv'
    BY <1>5, <2>1, HandEmpty
  <2>. QED
    BY <1>2, <1>3, <1>4, <2>1, <2>2, FurtherDoes
<1>7. CASE SendStatus(i) \/ SendCreate(i)
  <2>1. UNCHANGED <<orders, outbox, batch, deals, late, lapses>>
    BY <1>7 DEF SendStatus, SendCreate, crmVars
  <2>2. HandInv'
    BY <1>1, <1>7, SendStatusHand, SendCreateHand
  <2>. QED
    BY <1>2, <1>3, <1>4, <2>1, <2>2, FurtherDoes
<1>8. CASE \/ StatusUnlinked(i) \/ StatusAnswered(i) \/ LookupFailed(i)
           \/ CallRefused(i) \/ CallLost(i)
  <2>1. /\ UNCHANGED <<orders, deals, late, lapses>>
        /\ Finish(i) \/ Fail(i) \/ Retry(i)
    BY <1>8 DEF StatusUnlinked, StatusAnswered, LookupFailed, CallRefused, CallLost,
                Failed, crmVars
  <2>. QED
    BY <1>2, <1>3, <1>4, <2>1, OutcomeDoes
<1>9. CASE LookupFound(i)
  <2>1. PICK id \in DOMAIN deals :
            deals[id] = Ext(i) /\ orders' = SetSDOrderID(orders, Ext(i), id)
    BY <1>9 DEF LookupFound
  <2>2. OrdersStep
    BY <2>1 DEF OrdersStep
  <2>3. UNCHANGED <<deals, late, lapses>> /\ Finish(i)
    BY <1>9 DEF LookupFound, crmVars
  <2>. QED
    BY <1>2, <1>3, <2>2, <2>3, OutcomeDoes
<1>10. CASE CreateAnswered(i)
  <2>1. OrdersDeal(i)
    BY <1>1, <1>10 DEF CreateAnswered, AtCreate, HandInv
  <2>2. OrdersStep
    BY <1>10, <2>1 DEF CreateAnswered, OrdersDeal, OrdersStep
  <2>3. UNCHANGED <<deals, late, lapses>> /\ Finish(i)
    BY <1>10 DEF CreateAnswered, crmVars
  <2>. QED
    BY <1>2, <1>3, <2>2, <2>3, OutcomeDoes
<1>11. CASE CreateTimedOut(i)
  <2>1. orders' = orders /\ deals' = deals /\ CountsStep /\ Retry(i)
    BY <1>11 DEF CreateTimedOut, CountsStep
  <2>. QED
    BY <1>2, <1>4, <2>1, OutcomeDoes
<1>. QED
  BY <1>6, <1>7, <1>8, <1>9, <1>10, <1>11 DEF WorkerStep, StatusStep, CreateStep

\* The steps of the outbox and the CRM on their own.
LEMMA OutboxDoes ==
    ASSUME FunnelInv, OutboxNext, UNCHANGED trackingVars
    PROVE  Does
<1>1. QueueInv /\ CrmInv /\ HandInv
  BY DEF FunnelInv
<1>2. funnel' = funnel
  BY DEF trackingVars
<1>3. ASSUME UNCHANGED <<pc, batch, dealId>>, DealsGrow, OrdersStep, CountsStep,
             QueueInv'
      PROVE  Does
  <2>1. HandInv'
    BY <1>1, <1>2, <1>3, HandSame
  <2>. QED
    BY <1>3, <2>1, OtherDoes
<1>4. orders' = orders => OrdersStep
  BY DEF OrdersStep
<1>5. ASSUME NEW id \in DOMAIN deals, OnSalesDrive(id) PROVE Does
  <2>1. UNCHANGED <<outbox, pc, batch, dealId, deals, late, lapses>> /\ OrdersStep
    BY <1>5 DEF OnSalesDrive, workerVars, crmVars, OrdersStep
  <2>2. CountsStep
    BY <2>1 DEF CountsStep
  <2>. QED
    BY <1>1, <1>3, <2>1, <2>2, SameDeals, StillQueue
<1>6. ASSUME NEW i \in DOMAIN outbox, Requeue(i) \/ BackoffElapses(i) PROVE Does
  <2>1. UNCHANGED <<orders, pc, batch, dealId, deals>> /\ CountsStep
    BY <1>6 DEF Requeue, BackoffElapses, workerVars, crmVars, CountsStep
  <2>. QED
    BY <1>1, <1>3, <1>4, <1>6, <2>1, SameDeals, RowQueue
<1>7. ASSUME NEW i \in DOMAIN batch, CreateDeal(i) PROVE Does
  <2>1. /\ UNCHANGED <<orders, outbox, batch, late, lapses>>
        /\ deals' = Append(deals, Ext(i))
        /\ batch[i].kind = "create_order"
    BY <1>7 DEF CreateDeal, AtCreate
  <2>2. Ext(i) \in ExternalIds
    <3>1. batch[i].payload \in CreateData
      BY <1>1, <2>1, InBatch DEF Carries
    <3>. QED
      BY <3>1 DEF Ext, CreateData
  <2>3. DealsGrow
    BY <1>1, <2>1, <2>2, AppendGrows
  <2>4. CountsStep
    BY <2>1 DEF CountsStep
  <2>5. HandInv' /\ QueueInv'
    BY <1>1, <1>7, <2>1, CreateDealHand, StillQueue
  <2>. QED
    BY <1>4, <2>1, <2>3, <2>4, <2>5, OtherDoes
<1>8. ASSUME NEW ext \in ExternalIds, LateDeal(ext) PROVE Does
  <2>1. /\ UNCHANGED <<orders, outbox, pc, batch, dealId>>
        /\ deals' = Append(deals, ext) /\ CountsStep
    BY <1>8 DEF LateDeal, workerVars, CountsStep
  <2>2. DealsGrow
    BY <1>1, <2>1, AppendGrows
  <2>. QED
    BY <1>1, <1>3, <1>4, <2>1, <2>2, StillQueue
<1>9. ASSUME DropBatch, CountsStep PROVE Does
  <2>1. /\ UNCHANGED <<orders, outbox, deals>>
        /\ batch' = <<>> /\ pc' = "idle" /\ dealId' = NoId
    BY <1>9 DEF DropBatch
  <2>2. HandInv'
    BY <2>1, HandEmpty DEF NoId
  <2>. QED
    BY <1>4, <1>9, <2>1, <2>2, FurtherDoes
<1>10. CASE Abort
  <2>1. CountsStep
    BY <1>10 DEF Abort, CountsStep
  <2>. QED
    BY <1>9, <1>10, <2>1 DEF Abort
<1>11. ASSUME NEW i \in DOMAIN batch, AbortInFlight(i) PROVE Does
  <2>1. CountsStep
    BY <1>11 DEF AbortInFlight, CountsStep
  <2>. QED
    BY <1>9, <1>11, <2>1 DEF AbortInFlight
<1>. QED
  BY <1>5, <1>6, <1>7, <1>8, <1>10, <1>11 DEF OutboxNext

\* A step beside the worker and the CRM.
LEMMA BesideDoes ==
    ASSUME FunnelInv, UNCHANGED <<pc, batch, dealId, deals, late, lapses>>,
           funnel' = funnel, turns' = turns,
           OrdersStep, RowsStep, CopiesStep, NoticesStep, QueueInv'
    PROVE  Does
<1>1. QueueInv /\ CrmInv /\ HandInv
  BY DEF FunnelInv
<1>2. CountsStep
  BY DEF CountsStep
<1>3. DealsGrow
  BY <1>1, SameDeals
<1>4. HandInv'
  BY <1>1, <1>3, HandSame
<1>. QED
  BY <1>2, <1>3, <1>4 DEF Does

\* A handler, besides what it does to the orders, the outbox and the parcels.
LEMMA HandlerDoes ==
    ASSUME FunnelInv, UNCHANGED <<pc, batch, dealId, deals, late, lapses>>,
           UNCHANGED <<pollVars, sent, funnel>>,
           OrdersStep, RowsStep, QueueInv'
    PROVE  Does
<1>1. UNCHANGED <<turns, poll, polled, toSend, sent, funnel>>
  BY DEF pollVars
<1>2. poll \in {"idle", "asked", "sending"}
  BY DEF FunnelInv, ParcelsInv
<1>3. CopiesStep /\ NoticesStep
  BY <1>1, <1>2 DEF CopiesStep, NoticesStep
<1>. QED
  BY <1>1, <1>3, BesideDoes

LEMMA StepDoes ==
    ASSUME FunnelInv, [Next]_vars
    PROVE  Does \/ PollAnswered
<1>1. QueueInv /\ CrmInv /\ HandInv
  BY DEF FunnelInv
<1>2. orders' = orders => OrdersStep
  BY DEF OrdersStep
<1>3. UNCHANGED <<outbox, batch>> => QueueInv'
  BY <1>1, StillQueue
<1>4. ttns' = ttns => RowsStep
  BY DEF RowsStep
<1>5. ASSUME NEW ext \in ExternalIds, Ingest(ext) PROVE Does
  <2>1. /\ UNCHANGED <<pc, batch, dealId, deals, late, lapses>>
        /\ UNCHANGED <<pollVars, sent, funnel>>
        /\ orders' = InsertOrder(orders, ext)
        /\ outbox' = outbox \/ outbox' = EnqueueCreate(outbox, ext)
        /\ ttns' = ttns \/ \E n \in Numbers : ttns' = AddTTN(ttns, n, ext, NoId)
    BY <1>5 DEF Ingest, workerVars, crmVars
  <2>2. OrdersStep
    BY <2>1 DEF OrdersStep
  <2>3. RowsStep
    BY <2>1 DEF RowsStep, NoId
  <2>4. QueueInv'
    BY <1>1, <1>3, <2>1, EnqueueQueue
  <2>. QED
    BY <2>1, <2>2, <2>3, <2>4, HandlerDoes
<1>6. ASSUME NEW id \in DOMAIN deals, NEW n \in Numbers, WebhookWithTTN(id, n)
      PROVE  Does
  <2>1. /\ UNCHANGED <<outbox, pc, batch, dealId, deals, late, lapses>>
        /\ UNCHANGED <<pollVars, sent, funnel>>
        /\ orders' = SetSDOrderID(orders, deals[id], id)
        /\ ttns' = AddTTN(ttns, n, deals[id], id)
    BY <1>6 DEF WebhookWithTTN, OnSalesDrive, workerVars, crmVars
  <2>2. id \in Nat /\ deals[id] \in ExternalIds
    BY <1>1, DealIds
  <2>3. OrdersStep /\ RowsStep
    BY <2>1, <2>2 DEF OrdersStep, RowsStep
  <2>. QED
    BY <1>3, <2>1, <2>3, HandlerDoes
<1>7. ASSUME NEW n \in Numbers, NEW ext \in ByHand, AddTTNByHand(n, ext)
      PROVE  Does
  <2>1. PICK id : id = IF ext \in DOMAIN orders THEN orders[ext] ELSE NoId
    OBVIOUS
  <2>2. /\ UNCHANGED <<orders, outbox, pc, batch, dealId, deals, late, lapses>>
        /\ UNCHANGED <<pollVars, sent, funnel>>
        /\ ttns' = AddTTN(ttns, n, ext, id)
    BY <1>7, <2>1 DEF AddTTNByHand, outboxVars, workerVars, crmVars
  <2>3. id \in Nat /\ ext \in ExternalIds \cup {NoExt}
    BY <1>1, <2>1, TrackingAssumption DEF CrmInv, NoId
  <2>4. RowsStep
    BY <2>2, <2>3 DEF RowsStep
  <2>. QED
    BY <1>2, <1>3, <2>2, <2>4, HandlerDoes
<1>8. CASE PollBegins \/ PollFailed \/ SendNotice
  <2>1. /\ UNCHANGED <<orders, outbox, pc, batch, dealId, deals, late, lapses>>
        /\ UNCHANGED <<ttns, turns, funnel>>
    BY <1>8 DEF PollBegins, PollFailed, SendNotice, outboxVars, workerVars, crmVars
  <2>2. CopiesStep /\ NoticesStep
    BY <1>8 DEF PollBegins, PollFailed, SendNotice, CopiesStep, NoticesStep
  <2>. QED
    BY <1>2, <1>3, <1>4, <2>1, <2>2, BesideDoes
<1>9. CASE PollAbort
  <2>1. /\ UNCHANGED <<orders, outbox, pc, batch, dealId, deals, late, lapses>>
        /\ UNCHANGED <<ttns, turns, funnel>>
        /\ CopiesStep /\ NoticesStep
    BY <1>9 DEF PollAbort, workerVars, crmVars, CopiesStep, NoticesStep
  <2>. QED
    BY <1>2, <1>3, <1>4, <2>1, BesideDoes
<1>10. ASSUME NEW n \in DOMAIN ttns, PollEveryElapses(n) \/ Ages(n) PROVE Does
  <2>1. /\ UNCHANGED <<orders, outbox, pc, batch, dealId, deals, late, lapses>>
        /\ UNCHANGED <<pollVars, sent, funnel>>
    BY <1>10 DEF PollEveryElapses, Ages, outboxVars, workerVars, crmVars
  <2>2. RowsStep
    BY <1>10 DEF RowsStep
  <2>. QED
    BY <1>2, <1>3, <2>1, <2>2, HandlerDoes
<1>11. CASE Round
  <2>1. /\ UNCHANGED <<orders, dealId, deals, late, lapses>> /\ pc' = "step"
        /\ UNCHANGED trackingVars
        /\ ProcessOnce
    BY <1>11 DEF Round, ProcessOnce, crmVars
  <2>2. HandInv' /\ QueueInv' /\ DealsGrow /\ CountsStep
    BY <1>1, <2>1, HandEmpty, RoundQueue, SameDeals DEF HandInv, CountsStep
  <2>. QED
    BY <1>2, <2>1, <2>2, OtherDoes
<1>12. ASSUME NEW i \in DOMAIN batch, MoveDeal(i) PROVE Does
  <2>1. /\ UNCHANGED <<orders, outbox, batch, deals, late, lapses>>
        /\ UNCHANGED <<ttns, turns, poll, polled, toSend, sent>>
    BY <1>12 DEF MoveDeal, crmVars, pollVars
  <2>2. HandInv' /\ MovedInv' /\ DealsGrow
    BY <1>1, <1>12, <2>1, MoveDealMoves, SameDeals
  <2>3. poll \in {"idle", "asked", "sending"}
    BY DEF FunnelInv, ParcelsInv
  <2>. QED
    BY <1>2, <1>3, <1>4, <2>1, <2>2, <2>3
    DEF Does, CountsStep, CopiesStep, NoticesStep
<1>13. CASE UNCHANGED vars
  <2>1. /\ UNCHANGED <<orders, outbox, pc, batch, dealId, deals, late, lapses>>
        /\ UNCHANGED <<ttns, pollVars, sent, funnel>>
    BY <1>13 DEF vars, trackingVars, outboxVars, workerVars, crmVars
  <2>. QED
    BY <1>2, <1>3, <1>4, <2>1, HandlerDoes
<1>. QED
  BY <1>5, <1>6, <1>7, <1>8, <1>9, <1>10, <1>11, <1>12, <1>13, WorkerDoes, OutboxDoes
  DEF Next, PollStep

\* No order is ever dropped from the table.
LEMMA OrdersStay ==
    ASSUME OrdersStep PROVE DOMAIN orders \subseteq DOMAIN orders'
  BY DEF OrdersStep, InsertOrder, SetSDOrderID

\* A contact comes with its order, or not at all.
LEMMA ContactsStay ==
    ASSUME ContactsInv, [Next]_vars
    PROVE  contacts' = contacts \/ ContactsInv'
<1>1. ASSUME NEW ext \in ExternalIds, Ingest(ext) PROVE ContactsInv'
  BY <1>1 DEF Ingest, InsertOrder, ContactsInv
<1>2. ASSUME NEW id \in DOMAIN deals, NEW n \in Numbers, WebhookWithTTN(id, n)
      PROVE  contacts' = contacts
  BY <1>2 DEF WebhookWithTTN
<1>3. ASSUME NEW n \in Numbers, NEW ext \in ByHand, AddTTNByHand(n, ext)
      PROVE  contacts' = contacts
  BY <1>3 DEF AddTTNByHand
<1>4. CASE PollBegins \/ PollStep \/ PollAbort
  BY <1>4 DEF PollBegins, PollStep, PollFailed, PollAnswered, PollStored, SendNotice,
              PollAbort
<1>5. ASSUME NEW n \in DOMAIN ttns, PollEveryElapses(n) \/ Ages(n)
      PROVE  contacts' = contacts
  BY <1>5 DEF PollEveryElapses, Ages
<1>6. CASE UNCHANGED trackingVars
  BY <1>6 DEF trackingVars
<1>7. ASSUME NEW i \in DOMAIN batch, WorkerStep(i) PROVE UNCHANGED trackingVars
  BY <1>7 DEF WorkerStep, StatusStep, StatusUnlinked, StatusStuck, SendStatus,
              StatusAnswered
<1>8. ASSUME NEW i \in DOMAIN batch, MoveDeal(i) PROVE contacts' = contacts
  BY <1>8 DEF MoveDeal
<1>9. CASE UNCHANGED vars
  BY <1>6, <1>9 DEF vars
<1>10. Round => UNCHANGED trackingVars
  BY DEF Round
<1>. QED
  BY <1>1, <1>2, <1>3, <1>4, <1>5, <1>6, <1>7, <1>8, <1>9, <1>10 DEF Next

\* No parcel is ever dropped from the table.
LEMMA RowsStay ==
    ASSUME RowsStep PROVE DOMAIN ttns \subseteq DOMAIN ttns'
<1>1. ASSUME NEW n, NEW ext, NEW id, ttns' = AddTTN(ttns, n, ext, id)
      PROVE  DOMAIN ttns \subseteq DOMAIN ttns'
  <2>1. DOMAIN AddTTN(ttns, n, ext, id) = DOMAIN ttns \cup {n}
    BY DEF AddTTN, InsertTTN
  <2>. QED
    BY <1>1, <2>1
<1>2. ASSUME NEW n \in DOMAIN ttns, PollEveryElapses(n) \/ Ages(n)
      PROVE  DOMAIN ttns \subseteq DOMAIN ttns'
  BY <1>2 DEF PollEveryElapses, Ages
<1>. QED
  BY <1>1, <1>2 DEF RowsStep

\* A step that does one of the things above keeps the invariant.
LEMMA DoesKeeps ==
    ASSUME FunnelInv, DeliveryInv', Kept, JobsAside, Does,
           contacts' = contacts \/ ContactsInv'
    PROVE  FunnelInv'
<1>1. /\ DeliveryInv /\ QueueInv /\ CrmInv /\ ContactsInv /\ CountsInv
      /\ ParcelsInv /\ TimesInv /\ NoticesInv
      /\ LinksInv /\ HandInv /\ MovedInv
  BY DEF FunnelInv
<1>2. /\ OrdersStep /\ DealsGrow /\ CountsStep
      /\ RowsStep /\ CopiesStep /\ NoticesStep /\ turns' = turns
      /\ QueueInv' /\ HandInv'
      /\ funnel' = funnel \/ MovedInv'
  BY DEF Does
<1>3. ProgressInv /\ PollInv /\ JobsInv
  BY <1>1 DEF DeliveryInv
<1>4. ProgressInv' /\ MovesForward /\ KeepsLinks
  BY DEF Kept
<1>5. DOMAIN ttns \subseteq DOMAIN ttns'
  BY <1>2, RowsStay
<1>6. CrmInv' /\ CountsInv' /\ ContactsInv'
  BY <1>1, <1>2, CrmKept, CountsKept, OrdersStay DEF ContactsInv
<1>7. ParcelsInv'
  <2>1. RowsTyped
    BY <1>1 DEF ParcelsInv, RowsTyped
  <2>2. RowsTyped'
    BY <1>2, <2>1, RowsKept
  <2>3. /\ poll' \in {"idle", "asked", "sending"}
        /\ polled' \in [DOMAIN polled' -> Row]
        /\ DOMAIN polled' \subseteq DOMAIN ttns'
    BY <1>1, <1>2, <1>3, <1>5, CopiesTypedKept
  <2>. QED
    BY <2>2, <2>3 DEF ParcelsInv, RowsTyped
<1>8. TimesInv' /\ NoticesInv'
  BY <1>1, <1>2, <1>3, NoticesKept DEF TimesInv
<1>9. LinksInv'
  BY <1>1, <1>2, <1>3, <1>4, LinksAside
<1>10. MovedInv'
  BY <1>1, <1>2, <1>4, <1>5, MovedStays
<1>. QED
  BY <1>2, <1>6, <1>7, <1>8, <1>9, <1>10 DEF FunnelInv

\* So does the second transaction of a poll.
LEMMA PollStoredFunnel ==
    ASSUME FunnelInv, DeliveryInv', Kept,
           NEW S \in SUBSET DOMAIN polled, NEW got \in [S -> Codes], PollStored(got)
    PROVE  FunnelInv'
<1>1. /\ DeliveryInv /\ QueueInv /\ CrmInv /\ ContactsInv /\ CountsInv
      /\ ParcelsInv /\ TimesInv /\ NoticesInv
      /\ LinksInv /\ HandInv /\ MovedInv
  BY DEF FunnelInv
<1>2. /\ UNCHANGED <<orders, pc, batch, dealId, deals, late, lapses, contacts, funnel>>
      /\ polled' = <<>> /\ TakeTurn
      /\ poll' \in {"idle", "asked", "sending"}
      /\ DOMAIN ttns' = DOMAIN ttns
  BY DEF PollStored, WriteBack, workerVars, crmVars
<1>3. Answers(got) /\ \A n \in DOMAIN got : got[n] \in Codes
  BY DEF Answers
<1>4. ProgressInv /\ PollInv /\ JobsInv
  BY <1>1 DEF DeliveryInv
<1>5. ProgressInv' /\ MovesForward /\ KeepsLinks
  BY DEF Kept
<1>6. DealsGrow
  BY <1>1, <1>2, SameDeals
<1>7. CrmInv' /\ CountsInv' /\ ContactsInv'
  BY <1>1, <1>2, <1>6, CrmKept, CountsKept DEF OrdersStep, CountsStep, ContactsInv
<1>8. ParcelsInv'
  <2>1. RowsTyped /\ polled \in [DOMAIN polled -> Row]
    BY <1>1 DEF ParcelsInv, RowsTyped
  <2>2. RowsTyped'
    BY <1>3, <2>1, RowsPolled
  <2>3. polled' \in [DOMAIN polled' -> Row] /\ DOMAIN polled' \subseteq DOMAIN ttns'
    BY <1>2
  <2>. QED
    BY <1>2, <2>2, <2>3 DEF ParcelsInv, RowsTyped
<1>9. TimesInv'
  BY <1>2, TurnsTaken
<1>10. NoticesInv' /\ QueueInv' /\ LinksInv'
  BY <1>1, <1>2, <1>3, <1>4, <1>5, NoticesPolled, PolledQueue, LinksPolled
<1>11. HandInv' /\ MovedInv'
  BY <1>1, <1>2, <1>5, <1>6, HandSame, MovedStays
<1>. QED
  BY <1>7, <1>8, <1>9, <1>10, <1>11 DEF FunnelInv

LEMMA FunnelInductive ==
    ASSUME FunnelInv, [Next]_vars
    PROVE  FunnelInv'
<1>1. DeliveryInv /\ ProgressInv /\ JobsInv /\ ContactsInv
  BY DEF FunnelInv, DeliveryInv
<1>2. DeliveryInv' /\ Kept
  BY <1>1, Inductive, StepKeeps
<1>3. CASE PollAnswered
  BY <1>2, <1>3, PollStoredFunnel DEF PollAnswered
<1>4. CASE Does /\ ~PollAnswered
  <2>1. JobsAside
    <3>1. CASE Aside
      BY <3>1 DEF Aside
    <3>2. CASE SendNotice
      BY <1>1, <3>2, SameJobsAside DEF SendNotice, outboxVars
    <3>. QED
      BY <1>1, <1>4, <3>1, <3>2, StepTellsOrNot DEF Telling, PollAnswered
  <2>. QED
    BY <1>1, <1>2, <1>4, <2>1, ContactsStay, DoesKeeps
<1>. QED
  BY <1>3, <1>4, StepDoes

LEMMA FunnelInitially == Init => FunnelInv
<1> SUFFICES ASSUME Init PROVE FunnelInv
  OBVIOUS
<1>1. /\ ttns = [n \in {} |-> 0] /\ turns = [n \in Numbers |-> 0] /\ poll = "idle"
      /\ polled = [n \in {} |-> 0] /\ toSend = <<>> /\ sent = <<>> /\ outbox = <<>>
      /\ funnel = [id \in {} |-> 0] /\ pc = "idle" /\ batch = <<>> /\ dealId = 0
      /\ deals = <<>> /\ orders = [ext \in {} |-> 0]
      /\ late = [ext \in ExternalIds |-> 0] /\ lapses = [ext \in ExternalIds |-> 0]
      /\ contacts = {}
  BY DEF Init, OutboxInit, NoOrders, NoId
<1>2. QueueInv
  BY <1>1 DEF QueueInv, BatchFresh
<1>3. CrmInv /\ CountsInv /\ ContactsInv
  BY <1>1 DEF CrmInv, CountsInv, ContactsInv
<1>4. ParcelsInv /\ NoticesInv /\ LinksInv
  BY <1>1 DEF ParcelsInv, NoticesInv, LinksInv
<1>5. TimesInv
  <2>1. Cardinality(Numbers) \in Nat
    BY TrackingAssumption, FS_CardinalityType
  <2>. QED
    BY <1>1, <2>1 DEF TimesInv
<1>6. HandInv
  BY <1>1 DEF HandInv
<1>7. MovedInv
  BY <1>1 DEF MovedInv, FunnelFromOwnParcel
<1>. QED
  BY <1>2, <1>3, <1>4, <1>5, <1>6, <1>7, Initially DEF FunnelInv

------------------------------------------------------------------------------
(* Jobs that are done *)

\* What DoneMeansMoved says of a step.
MeansMoved ==
    \A i \in DOMAIN outbox :
        (/\ outbox[i].kind = "status"
         /\ outbox[i].state # "done"
         /\ outbox'[i].state = "done")
            => \E id \in DOMAIN funnel :
                  funnel[id] = [number |-> outbox[i].key[2],
                                code |-> outbox[i].payload.status]

\* The one job that a step writes, in one of these states.
LEMMA OneWritten ==
    ASSUME QueueInv, NEW i \in DOMAIN batch, NEW states \in SUBSET JobStates,
           Settles(i, states)
    PROVE  /\ i \in DOMAIN outbox /\ outbox'[i].state \in states
           /\ \A k \in DOMAIN outbox : k # i => outbox'[k] = outbox[k]
<1>1. PICK s \in states, a \in Nat, d \in BOOLEAN : Written(i, s, a, d)
  BY DEF Settles
<1>2. i \in DOMAIN outbox /\ outbox[i] \in Job /\ s \in JobStates
  BY InBatch
<1>3. /\ \A k \in DOMAIN outbox : k # i => outbox'[k] = outbox[k]
      /\ outbox'[i] = WrittenJob(outbox[i], s, a, d)
  BY <1>1, <1>2, RowWritten
<1>4. PICK j : j = outbox[i]
  OBVIOUS
<1>5. j \in [key : JobKeys, kind : {"create_order", "status"}, payload : JobData,
             state : JobStates, attempts : Nat, due : BOOLEAN]
  BY <1>2, <1>4, JobMeans
<1>6. WrittenJob(j, s, a, d).state = s
  BY ONLY <1>5 DEF WrittenJob
<1>. QED
  BY <1>2, <1>3, <1>4, <1>6

\* A status job is finished only when the answer to its own request has come.
LEMMA FinishMoved ==
    ASSUME FunnelInv, NEW i \in DOMAIN batch, Finish(i),
           batch[i].kind = "status" => pc = "executed" /\ Current(i)
    PROVE  MeansMoved
<1>1. QueueInv /\ HandInv
  BY DEF FunnelInv
<1>2. Settles(i, {"done"}) /\ {"done"} \in SUBSET JobStates
  BY <1>1, FinishSettles DEF JobStates
<1>3. \A k \in DOMAIN outbox : k # i => outbox'[k] = outbox[k]
  BY <1>1, <1>2, OneWritten
<1>4. batch[i] = outbox[i]
  BY <1>1, InBatch
<1>5. outbox[i].kind = "status" => MovedBy(outbox[i])
  BY <1>1, <1>4 DEF HandInv
<1>. QED
  BY <1>3, <1>5 DEF MeansMoved, MovedBy

\* A job that is given up or tried again is not done.
LEMMA FailMoved ==
    ASSUME FunnelInv, NEW i \in DOMAIN batch, Fail(i) \/ Retry(i)
    PROVE  MeansMoved
<1>1. QueueInv
  BY DEF FunnelInv
<1>2. Settles(i, {"pending", "failed"}) /\ {"pending", "failed"} \in SUBSET JobStates
  BY <1>1, FailSettles DEF JobStates
<1>3. /\ outbox'[i].state \in {"pending", "failed"}
      /\ \A k \in DOMAIN outbox : k # i => outbox'[k] = outbox[k]
  BY <1>1, <1>2, OneWritten
<1>. QED
  BY <1>3 DEF MeansMoved

\* No other step finishes a job.
LEMMA RowMoved ==
    ASSUME FunnelInv, NEW i \in DOMAIN outbox, Requeue(i) \/ BackoffElapses(i)
    PROVE  MeansMoved
<1>1. outbox \in Seq(Job)
  BY DEF FunnelInv, QueueInv
<1>2. PICK j : j = outbox[i]
  OBVIOUS
<1>3. j \in [key : JobKeys, kind : {"create_order", "status"}, payload : JobData,
             state : JobStates, attempts : Nat, due : BOOLEAN]
  <2>1. j \in Job
    BY <1>1, <1>2
  <2>. QED
    BY <2>1, JobMeans
<1>4. PICK r, q : /\ r = [j EXCEPT !.due = TRUE]
                  /\ q = [j EXCEPT !.state = "pending", !.attempts = 0, !.due = TRUE]
  OBVIOUS
<1>5. r.state = j.state /\ q.state # "done"
  BY ONLY <1>3, <1>4
<1>6. \/ outbox' = outbox
      \/ outbox' = [outbox EXCEPT ![i] = r]
      \/ outbox' = [outbox EXCEPT ![i] = q]
  BY <1>2, <1>4 DEF Requeue, RequeueJob, BackoffElapses
<1>7. ASSUME NEW k \in DOMAIN outbox, outbox'[k].state = "done"
      PROVE  outbox[k].state = "done"
  BY <1>1, <1>2, <1>5, <1>6, <1>7
<1>. QED
  BY <1>7 DEF MeansMoved

LEMMA AddMoved ==
    ASSUME \A k \in DOMAIN outbox : outbox'[k] = outbox[k]
    PROVE  MeansMoved
  BY DEF MeansMoved

LEMMA WorkerMoved ==
    ASSUME FunnelInv, NEW i \in DOMAIN batch, WorkerStep(i)
    PROVE  MeansMoved
<1>1. CASE \/ StatusStuck(i) \/ SendStatus(i) \/ LookupMissed(i) \/ SendCreate(i)
  <2>1. outbox' = outbox
    BY <1>1 DEF StatusStuck, SendStatus, LookupMissed, SendCreate
  <2>. QED
    BY <2>1, AddMoved
<1>2. CASE StatusAnswered(i) \/ LookupFound(i) \/ CreateAnswered(i)
  <2>1. /\ Finish(i)
        /\ batch[i].kind = "status" => pc = "executed" /\ Current(i)
    BY <1>2 DEF StatusAnswered, AtStatus, LookupFound, CreateAnswered, AtCreate
  <2>. QED
    BY <2>1, FinishMoved
<1>3. CASE \/ StatusUnlinked(i) \/ LookupFailed(i) \/ CallRefused(i) \/ CallLost(i)
           \/ CreateTimedOut(i)
  <2>1. Fail(i) \/ Retry(i)
    BY <1>3 DEF StatusUnlinked, LookupFailed, CallRefused, CallLost, CreateTimedOut,
                Failed
  <2>. QED
    BY <2>1, FailMoved
<1>. QED
  BY <1>1, <1>2, <1>3 DEF WorkerStep, StatusStep, CreateStep

\* The steps of the outbox on their own, of the handlers and of the poll.
LEMMA StepMoved ==
    ASSUME FunnelInv, [Next]_vars
    PROVE  MeansMoved
<1>1. outbox' = outbox => MeansMoved
  BY AddMoved
<1>2. ASSUME NEW ext \in ExternalIds, Ingest(ext) PROVE MeansMoved
  <2>1. outbox \in Seq(Job)
    BY DEF FunnelInv, QueueInv
  <2>2. PICK r : r = NewJob(CreateKey(ext), "create_order", [ext |-> ext])
    OBVIOUS
  <2>3. outbox' = outbox \/ outbox' = Append(outbox, r)
    BY <1>2, <2>2 DEF Ingest, EnqueueCreate, Enqueue
  <2>4. \A k \in DOMAIN outbox : outbox'[k] = outbox[k]
    BY ONLY <2>1, <2>3
  <2>. QED
    BY <2>4, AddMoved
<1>3. ASSUME NEW S \in SUBSET DOMAIN polled, NEW got \in [S -> Codes],
             PollStored(got)
      PROVE  MeansMoved
  <2>1. Answers(got)
    BY DEF Answers
  <2>2. \A k \in DOMAIN outbox : outbox'[k] = outbox[k]
    BY <1>3, <2>1, JobsPolled DEF FunnelInv, DeliveryInv
  <2>. QED
    BY <2>2, AddMoved
<1>4. CASE OutboxNext
  <2>1. ASSUME NEW i \in DOMAIN outbox, Requeue(i) \/ BackoffElapses(i)
        PROVE  MeansMoved
    BY <2>1, RowMoved
  <2>. QED
    BY <1>1, <1>4, <2>1
    DEF OutboxNext, OnSalesDrive, CreateDeal, LateDeal, Abort, AbortInFlight, DropBatch
<1>5. ASSUME NEW i \in DOMAIN batch, WorkerStep(i) PROVE MeansMoved
  BY <1>5, WorkerMoved
<1>6. CASE PollFailed \/ SendNotice
  BY <1>1, <1>6 DEF PollFailed, SendNotice, outboxVars
<1>7. CASE PollStep
  BY <1>3, <1>6, <1>7 DEF PollStep, PollAnswered
<1>8. ASSUME NEW id \in DOMAIN deals, NEW n \in Numbers, WebhookWithTTN(id, n)
      PROVE  MeansMoved
  BY <1>1, <1>8 DEF WebhookWithTTN, OnSalesDrive
<1>9. ASSUME NEW n \in Numbers, NEW ext \in ByHand, AddTTNByHand(n, ext)
      PROVE  MeansMoved
  BY <1>1, <1>9 DEF AddTTNByHand, outboxVars
<1>10. CASE PollBegins \/ PollAbort \/ Round
  BY <1>1, <1>10 DEF PollBegins, PollAbort, Round, ProcessOnce, outboxVars
<1>11. ASSUME NEW n \in DOMAIN ttns, PollEveryElapses(n) \/ Ages(n)
       PROVE  MeansMoved
  BY <1>1, <1>11 DEF PollEveryElapses, Ages, outboxVars
<1>12. ASSUME NEW i \in DOMAIN batch, MoveDeal(i) PROVE MeansMoved
  BY <1>1, <1>12 DEF MoveDeal
<1>13. CASE UNCHANGED vars
  BY <1>1, <1>13 DEF vars, outboxVars
<1>. QED
  BY <1>2, <1>4, <1>5, <1>7, <1>8, <1>9, <1>10, <1>11, <1>12, <1>13 DEF Next

------------------------------------------------------------------------------
(* The theorems *)

\* The invariant of this module holds in all that tracking does, and a status
\* job is done only as the CRM has moved a deal.
THEOREM FunnelInvariant == Spec => []FunnelInv /\ [][MeansMoved]_vars
<1>1. FunnelInv /\ [Next]_vars => FunnelInv' /\ MeansMoved
  BY FunnelInductive, StepMoved
<1>. QED
  BY <1>1, FunnelInitially, PTL DEF Spec

\* The tables, the worker, the poll and the CRM have the values they should,
\* in each state of tracking.
THEOREM TrackingTyped == Spec => []TypeOK
<1>1. FunnelInv => TypeOK
  <2> SUFFICES ASSUME FunnelInv PROVE TypeOK
    OBVIOUS
  <2>1. /\ QueueInv /\ CrmInv /\ ContactsInv /\ CountsInv
        /\ ParcelsInv /\ TimesInv /\ NoticesInv /\ HandInv /\ MovedInv
    BY DEF FunnelInv
  <2>2. spent \in [aborts : Nat, requeues : Nat, late : Nat]
    BY DEF FunnelInv, DeliveryInv, PollInv
  <2>. QED
    BY <2>1, <2>2
    DEF TypeOK, QueueInv, CrmInv, ContactsInv, CountsInv, ParcelsInv, TimesInv,
        NoticesInv, HandInv, MovedInv
<1>. QED
  BY <1>1, FunnelInvariant, PTL

\* A deal has its funnel status from a parcel that is linked to it, by its id or
\* by its order, and from a stage this parcel has reached; although the job that
\* moved it was queued and read when the links may not have been made yet.
THEOREM FunnelIsOwn == Spec => []FunnelFromOwnParcel
<1>1. FunnelInv => FunnelFromOwnParcel
  BY DEF FunnelInv, MovedInv
<1>. QED
  BY <1>1, FunnelInvariant, PTL

\* A status job that becomes done had its deal moved, by this very job, and no
\* other job has moved that deal since.
THEOREM DoneIsMoved == Spec => DoneMeansMoved
<1>1. [MeansMoved]_vars
         => [\A i \in DOMAIN outbox :
                (/\ outbox[i].kind = "status"
                 /\ outbox[i].state # "done"
                 /\ outbox'[i].state = "done")
                    => \E id \in DOMAIN funnel :
                          funnel[id] = [number |-> outbox[i].key[2],
                                        code |-> outbox[i].payload.status]]_vars
  BY DEF MeansMoved
<1>. QED
  BY <1>1, FunnelInvariant, PTL DEF DoneMeansMoved
==============================================================================
