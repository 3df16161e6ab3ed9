--------------------------- MODULE TelephonyProofs ---------------------------
(***************************************************************************)
(* Proofs about Telephony, for any calls, numbers, window and bounds: a    *)
(* call counts once, notes go to their lead's deal and are there when they *)
(* count as done, and leads keep the window's distance.                    *)
(*                                                                         *)
(* What phone.Normalize makes of a spelling is left open here: these       *)
(* theorems are about the numbers that it gives, whatever they are.        *)
(* CallerProofs goes on from here with what it does give.                  *)
(***************************************************************************)
EXTENDS Telephony, FiniteSetTheorems, TLAPS

------------------------------------------------------------------------------
(* The inductive invariant *)

\* What the tables and the CRM must be for their writes to mean something; and
\* the batch is as the outbox has it, see BatchFresh.
TypeInv ==
    /\ outbox \in Seq(Job)
    /\ DOMAIN batch \subseteq DOMAIN outbox
    /\ BatchFresh
    /\ pc \in {"idle", "step", "lookedUp", "sent", "executed"}
    /\ deals \in Seq(ExternalIds)
    /\ notes \in [CallIds -> Seq(Nat)]

Missed(call) == call \in DOMAIN calls /\ calls[call].kind = "missed"

\* Each job is one of a missed call.
JobOfCall(i) ==
    \E call \in CallIds :
        /\ Missed(call)
        /\ \/ /\ outbox[i].kind = "create_order"
              /\ outbox[i].key = CreateKey(LeadId(call))
              /\ outbox[i].payload.ext = LeadId(call)
           \/ /\ outbox[i].kind = "note"
              /\ outbox[i].key = NoteKey(call)

CallsInv ==
    /\ DOMAIN calls \subseteq CallIds
    /\ \A i \in DOMAIN outbox : JobOfCall(i)
    /\ \A call \in CallIds :
          /\ Missed(call) => JobsOfCall(call) # {}
          /\ \A i, j \in JobsOfCall(call) : i = j

\* A number gets a second lead only after the window of the one before it.
OneLeadPerNumber ==
    \A j, k \in DOMAIN leads :
        (j < k /\ leads[j].phone = leads[k].phone)
            => leads[j].at + Window < leads[k].at

\* Lead k is what job i is to put its call's note on.
NoteFits(i, k) ==
    /\ leads[k].ext = outbox[i].payload.ext
    /\ leads[k].phone = calls[outbox[i].key[2]].phone
    /\ calls[outbox[i].key[2]].at - leads[k].at \in 0 .. Window

\* A repeat miss goes to a lead of the same number, in its window.
NotesFitLeads ==
    \A i \in DOMAIN outbox :
        outbox[i].kind = "note" => \E k \in DOMAIN leads : NoteFits(i, k)

LeadsInv ==
    /\ \E S : leads \in Seq(S)
    /\ now \in Nat
    /\ \A k \in DOMAIN leads :
          /\ leads[k].ext \in DOMAIN orders /\ leads[k].ext \in ExternalIds
          /\ leads[k].at \in Nat /\ leads[k].at <= now
    /\ OneLeadPerNumber
    /\ NotesFitLeads

\* The bridge knows the CRM id of this order.
Linked(ext) == ext \in DOMAIN orders /\ orders[ext] # NoId

\* The note of job i stands at the deal that is known to be its lead's.
NoteIsThere(i) ==
    LET ext == outbox[i].payload.ext
        copies == notes[outbox[i].key[2]]
    IN  Linked(ext) /\ \E n \in DOMAIN copies : copies[n] = orders[ext]

KnownIds ==
    \A ext : Linked(ext) => orders[ext] \in DOMAIN deals /\ deals[orders[ext]] = ext

NoteAtLead(call, id) ==
    \E i \in NoteJobs(call) : id \in DOMAIN deals /\ deals[id] = outbox[i].payload.ext

NotesInv ==
    \A call \in CallIds : \A n \in DOMAIN notes[call] : NoteAtLead(call, notes[call][n])

DoneInv ==
    \A i \in DOMAIN outbox :
        (outbox[i].kind = "note" /\ outbox[i].state = "done") => NoteIsThere(i)

\* What the worker has asked the CRM for, and what the CRM has made of it.
SentNote(i) == Linked(Ext(i)) /\ dealId = orders[Ext(i)]
MadeDeal(i) == dealId \in DOMAIN deals /\ deals[dealId] = Ext(i)

WorkerInv ==
    \A i :
        /\ pc = "sent" /\ AtNote(i) => SentNote(i)
        /\ pc = "executed" /\ AtNote(i) => NoteIsThere(i)
        /\ pc = "executed" /\ AtCreate(i) => MadeDeal(i)

CrmInv == KnownIds /\ NotesInv /\ DoneInv /\ WorkerInv

CallInv == TypeInv /\ CallsInv /\ LeadsInv /\ CrmInv

------------------------------------------------------------------------------
(* What steps keep *)

\* No job comes or goes, and each stays what it is about.
SameJobs ==
    /\ DOMAIN outbox' = DOMAIN outbox
    /\ \A k \in DOMAIN outbox : /\ outbox'[k].key = outbox[k].key
                                /\ outbox'[k].kind = outbox[k].kind
                                /\ outbox'[k].payload = outbox[k].payload

\* The old jobs are as they were; there may be more.
OldJobs ==
    /\ DOMAIN outbox \subseteq DOMAIN outbox'
    /\ \A k \in DOMAIN outbox : /\ outbox'[k].key = outbox[k].key
                                /\ outbox'[k].kind = outbox[k].kind
                                /\ outbox'[k].payload = outbox[k].payload

\* Orders may come and be linked, deals and notes may come.
OrdersGrow ==
    /\ DOMAIN orders \subseteq DOMAIN orders'
    /\ \A x \in DOMAIN orders : orders[x] # NoId => orders'[x] = orders[x]
DealsGrow ==
    /\ DOMAIN deals \subseteq DOMAIN deals'
    /\ \A id \in DOMAIN deals : deals'[id] = deals[id]
NotesGrow ==
    \A c \in CallIds : /\ DOMAIN notes[c] \subseteq DOMAIN notes'[c]
                       /\ \A n \in DOMAIN notes[c] : notes'[c][n] = notes[c][n]

\* Job i is given state s, nothing else of the outbox that matters here changes.
Rewritten(i, s) ==
    /\ outbox' \in Seq(Job)
    /\ SameJobs
    /\ \A k \in DOMAIN outbox : k # i => outbox'[k] = outbox[k]
    /\ outbox'[i].state = s

LEMMA CallKeys ==
    ASSUME NEW c, NEW d
    PROVE  /\ LeadId(c) = LeadId(d) => c = d
           /\ NoteKey(c) = NoteKey(d) => c = d
           /\ CreateKey(c) = CreateKey(d) => c = d
           /\ CreateKey(c) # NoteKey(d)
           /\ NoteKey(c)[2] = c
  BY DEF LeadId, NoteKey, CreateKey

\* Calls and their jobs being the same, they still fit each other.
LEMMA SameJobsSameCalls ==
    ASSUME CallsInv, SameJobs, UNCHANGED calls
    PROVE  CallsInv'
<1>1. \A call : Missed(call)' <=> Missed(call)
  BY DEF Missed
<1>2. \A call : JobsOfCall(call)' = JobsOfCall(call)
  BY DEF JobsOfCall, SameJobs
<1>3. \A i \in DOMAIN outbox : JobOfCall(i)'
  BY <1>1 DEF CallsInv, JobOfCall, SameJobs
<1>. QED
  BY <1>1, <1>2, <1>3 DEF CallsInv, SameJobs

\* Leads and calls being the same, notes still fit their leads.
LEMMA SameJobsSameLeads ==
    ASSUME LeadsInv, SameJobs, OrdersGrow, UNCHANGED <<calls, leads>>,
           now' \in Nat, now <= now'
    PROVE  LeadsInv'
<1>1. NotesFitLeads'
  BY DEF LeadsInv, NotesFitLeads, NoteFits, SameJobs
<1>2. OneLeadPerNumber'
  BY DEF LeadsInv, OneLeadPerNumber
<1>3. \A k \in DOMAIN leads :
          leads[k].ext \in DOMAIN orders' /\ leads[k].at \in Nat /\ leads[k].at <= now'
  BY DEF LeadsInv, OrdersGrow
<1>. QED
  BY <1>1, <1>2, <1>3 DEF LeadsInv

\* A note that is there stays there, at the deal that stays the lead's.
LEMMA ThereStays ==
    ASSUME TypeInv, CallsInv, OldJobs, OrdersGrow, NotesGrow,
           NEW i \in DOMAIN outbox, outbox[i].kind = "note", NoteIsThere(i)
    PROVE  NoteIsThere(i)'
<1>1. PICK call \in CallIds : outbox[i].key = NoteKey(call)
  BY DEF CallsInv, JobOfCall
<1>2. outbox[i].key[2] \in CallIds
  BY <1>1, CallKeys
<1>. QED
  BY <1>2 DEF NoteIsThere, Linked, OldJobs, OrdersGrow, NotesGrow

LEMMA NotesStay ==
    ASSUME NotesInv, OldJobs, DealsGrow, UNCHANGED notes
    PROVE  NotesInv'
<1>1. ASSUME NEW call, NEW id, NoteAtLead(call, id) PROVE NoteAtLead(call, id)'
  BY <1>1 DEF NoteAtLead, NoteJobs, OldJobs, DealsGrow
<1>. QED
  BY <1>1 DEF NotesInv

\* Where a job is the worker's, it is the only one.
LEMMA CurrentUnique ==
    ASSUME TypeInv, NEW i, NEW k, Current(i), Current(k)
    PROVE  i = k
<1>1. DOMAIN outbox = 1 .. Len(outbox) /\ Len(outbox) \in Nat
  BY DEF TypeInv
<1>2. i \in Nat /\ k \in Nat
  BY <1>1 DEF Current, TypeInv
<1>. QED
  BY <1>2 DEF Current

\* The worker's copy is the row, pending and due.
LEMMA CurrentJob ==
    ASSUME TypeInv, NEW i, Current(i)
    PROVE  /\ i \in DOMAIN batch /\ i \in DOMAIN outbox
           /\ batch[i] = outbox[i] /\ outbox[i] \in Job
           /\ outbox[i].state = "pending" /\ outbox[i].due = TRUE
<1>1. i \in DOMAIN batch /\ i \in DOMAIN outbox /\ outbox[i] \in Job
  BY DEF Current, TypeInv
<1>2. outbox[i].due \in BOOLEAN
  BY <1>1 DEF Job
<1>. QED
  BY <1>1, <1>2 DEF TypeInv, BatchFresh, IsDue

------------------------------------------------------------------------------
(* What is written into the outbox *)

\* A row given other mutable columns.
Written(i, s, a, d) ==
    outbox' = [outbox EXCEPT ![i] = [@ EXCEPT !.state = s, !.attempts = a,
                                              !.due = d]]

LEMMA WrittenRow ==
    ASSUME TypeInv, NEW i \in DOMAIN outbox,
           NEW s \in JobStates, NEW a \in Nat, NEW d \in BOOLEAN,
           Written(i, s, a, d)
    PROVE  Rewritten(i, s) /\ outbox'[i].attempts = a
<1> DEFINE job == [outbox[i] EXCEPT !.state = s, !.attempts = a, !.due = d]
<1>1. outbox \in Seq(Job) /\ outbox[i] \in Job
  BY DEF TypeInv
<1>2. job \in Job
  BY <1>1 DEF Job
<1>3. outbox' = [outbox EXCEPT ![i] = job]
  BY DEF Written
<1>4. outbox' \in Seq(Job) /\ DOMAIN outbox' = DOMAIN outbox
  BY <1>1, <1>2, <1>3
<1>5. /\ \A k \in DOMAIN outbox : k # i => outbox'[k] = outbox[k]
      /\ outbox'[i] = job
  BY <1>1, <1>3
<1>6. /\ job.key = outbox[i].key
      /\ job.kind = outbox[i].kind
      /\ job.payload = outbox[i].payload
      /\ job.state = s
      /\ job.attempts = a
  BY <1>1 DEF Job
<1>. QED
  BY <1>4, <1>5, <1>6 DEF Rewritten, SameJobs

\* The outcome of a job is written to its row alone.
LEMMA FinishWrites ==
    ASSUME TypeInv, NEW i, Current(i), Finish(i)
    PROVE  /\ Rewritten(i, "done") /\ Advance(i)
           /\ outbox'[i].attempts = outbox[i].attempts
<1>1. /\ i \in DOMAIN outbox /\ outbox[i] \in Job /\ batch[i] = outbox[i]
      /\ outbox[i].due \in BOOLEAN /\ outbox[i].attempts \in Nat
  BY CurrentJob DEF Job
<1>2. Written(i, "done", outbox[i].attempts, outbox[i].due)
  BY <1>1 DEF Finish, UpdateJob, Written, Job
<1>. QED
  BY <1>1, <1>2, WrittenRow DEF Finish, JobStates

LEMMA FailWrites ==
    ASSUME TypeInv, NEW i, Current(i), Fail(i)
    PROVE  /\ Rewritten(i, "failed") /\ Advance(i)
           /\ outbox'[i].attempts = outbox[i].attempts
<1>1. /\ i \in DOMAIN outbox /\ outbox[i] \in Job /\ batch[i] = outbox[i]
      /\ outbox[i].due \in BOOLEAN /\ outbox[i].attempts \in Nat
  BY CurrentJob DEF Job
<1>2. Written(i, "failed", outbox[i].attempts, outbox[i].due)
  BY <1>1 DEF Fail, UpdateJob, Written, Job
<1>. QED
  BY <1>1, <1>2, WrittenRow DEF Fail, JobStates

LEMMA RetryWrites ==
    ASSUME TypeInv, NEW i, Current(i), Retry(i)
    PROVE  /\ \/ Rewritten(i, "pending") /\ outbox[i].attempts + 1 < MaxAttempts
              \/ Rewritten(i, "failed")
           /\ Advance(i)
           /\ outbox'[i].attempts = outbox[i].attempts + 1
<1>1. /\ i \in DOMAIN outbox /\ outbox[i] \in Job /\ batch[i] = outbox[i]
      /\ outbox[i].due = TRUE /\ outbox[i].state = "pending"
      /\ MaxAttempts \in Nat
  BY CurrentJob, OutboxAssumption
<1> DEFINE tried == [batch[i] EXCEPT !.attempts = @ + 1]
<1>2. /\ tried.state = "pending" /\ tried.due = TRUE
      /\ tried.attempts = outbox[i].attempts + 1
      /\ outbox[i].attempts + 1 \in Nat /\ tried \in Job
  BY <1>1 DEF Job
<1>3. CASE tried.attempts >= MaxAttempts
  <2>1. outbox' = UpdateJob(outbox, i, [tried EXCEPT !.state = "failed"])
    BY <1>3 DEF Retry
  <2>2. Written(i, "failed", outbox[i].attempts + 1, TRUE)
    BY <1>1, <1>2, <2>1 DEF UpdateJob, Written, Job
  <2>. QED
    BY <1>1, <1>2, <2>2, WrittenRow DEF Retry, JobStates
<1>4. CASE ~(tried.attempts >= MaxAttempts)
  <2>1. outbox' = UpdateJob(outbox, i, [tried EXCEPT !.due = FALSE])
    BY <1>4 DEF Retry
  <2>2. Written(i, "pending", outbox[i].attempts + 1, FALSE)
    BY <1>1, <1>2, <2>1 DEF UpdateJob, Written, Job
  <2>3. outbox[i].attempts + 1 < MaxAttempts
    BY <1>1, <1>2, <1>4
  <2>4. Rewritten(i, "pending") /\ outbox'[i].attempts = outbox[i].attempts + 1
    BY <1>1, <1>2, <2>2, WrittenRow DEF JobStates
  <2>5. Advance(i)
    BY DEF Retry
  <2>. QED
    BY <2>3, <2>4, <2>5
<1>. QED
  BY <1>3, <1>4

LEMMA WaitWrites ==
    ASSUME TypeInv, NEW i, Current(i),
           outbox' = UpdateJob(outbox, i, [batch[i] EXCEPT !.due = FALSE])
    PROVE  Rewritten(i, "pending") /\ outbox'[i].attempts = outbox[i].attempts
<1>1. /\ i \in DOMAIN outbox /\ outbox[i] \in Job /\ batch[i] = outbox[i]
      /\ outbox[i].state = "pending" /\ outbox[i].attempts \in Nat
  BY CurrentJob DEF Job
<1>2. Written(i, "pending", outbox[i].attempts, FALSE)
  BY <1>1 DEF UpdateJob, Written, Job
<1>. QED
  BY <1>1, <1>2, WrittenRow DEF JobStates

\* A requeue and the clock touch rows that are not in the batch.
LEMMA RequeueWrites ==
    ASSUME TypeInv, NEW i \in DOMAIN outbox, Requeue(i)
    PROVE  \/ outbox' = outbox
           \/ /\ i \notin DOMAIN batch /\ Rewritten(i, "pending")
              /\ outbox[i].state = "failed" /\ outbox'[i].attempts = 0
<1>1. CASE outbox[i].state # "failed"
  BY <1>1 DEF Requeue, RequeueJob
<1>2. CASE outbox[i].state = "failed"
  <2>1. Written(i, "pending", 0, TRUE)
    BY <1>2 DEF Requeue, RequeueJob, Written
  <2>2. i \notin DOMAIN batch
    BY <1>2 DEF TypeInv, BatchFresh, IsDue
  <2>. QED
    BY <1>2, <2>1, <2>2, WrittenRow DEF JobStates
<1>. QED
  BY <1>1, <1>2

LEMMA BackoffWrites ==
    ASSUME TypeInv, NEW i \in DOMAIN outbox, BackoffElapses(i)
    PROVE  /\ i \notin DOMAIN batch /\ Rewritten(i, "pending")
           /\ outbox[i].state = "pending"
           /\ outbox'[i].attempts = outbox[i].attempts
<1>1. outbox[i] \in Job
  BY DEF TypeInv
<1>2. Written(i, "pending", outbox[i].attempts, TRUE) /\ outbox[i].attempts \in Nat
  BY <1>1 DEF BackoffElapses, Written, Job
<1>3. i \notin DOMAIN batch
  BY DEF BackoffElapses, TypeInv, BatchFresh, IsDue
<1>. QED
  BY <1>1, <1>2, <1>3, WrittenRow DEF JobStates, BackoffElapses

------------------------------------------------------------------------------
(* What the kinds of steps keep *)

\* An id that is stored is that of a deal of the order, and never over another.
LEMMA IdStored ==
    ASSUME KnownIds, NEW ext, NEW id \in DOMAIN deals, deals[id] = ext,
           orders' = SetSDOrderID(orders, ext, id), UNCHANGED deals
    PROVE  OrdersGrow /\ KnownIds'
  BY DEF KnownIds, Linked, SetSDOrderID, OrdersGrow

LEMMA SameOrders ==
    ASSUME KnownIds, UNCHANGED orders, DealsGrow
    PROVE  OrdersGrow /\ KnownIds'
  BY DEF KnownIds, Linked, OrdersGrow, DealsGrow

\* A row rewritten makes no note done that is not there.
LEMMA RewrittenKeeps ==
    ASSUME CallInv, NEW i \in DOMAIN outbox, NEW s, Rewritten(i, s),
           OrdersGrow, KnownIds', UNCHANGED <<deals, telephonyVars>>,
           (outbox[i].kind = "note" /\ s = "done") => NoteIsThere(i)
    PROVE  CallsInv' /\ LeadsInv' /\ KnownIds' /\ NotesInv' /\ DoneInv'
<1>1. TypeInv /\ CallsInv /\ LeadsInv /\ NotesInv /\ DoneInv
  BY DEF CallInv, CrmInv
<1>2. SameJobs /\ OldJobs /\ DealsGrow /\ NotesGrow
  BY DEF Rewritten, SameJobs, OldJobs, DealsGrow, NotesGrow, telephonyVars
<1>3. CallsInv' /\ LeadsInv' /\ NotesInv'
  <2>1. now' \in Nat /\ now <= now'
    BY <1>1 DEF LeadsInv, telephonyVars
  <2>. QED
    BY <1>1, <1>2, <2>1, SameJobsSameCalls, SameJobsSameLeads, NotesStay
    DEF telephonyVars
<1>4. ASSUME NEW k \in DOMAIN outbox, outbox[k].kind = "note", outbox'[k].state = "done"
      PROVE  NoteIsThere(k)'
  <2>1. NoteIsThere(k)
    BY <1>1, <1>4 DEF Rewritten, DoneInv
  <2>. QED
    BY <1>1, <1>2, <1>4, <2>1, ThereStays
<1>5. DoneInv'
  BY <1>2, <1>4 DEF DoneInv, SameJobs
<1>. QED
  BY <1>3, <1>5

\* The worker has settled a job and is on to the next.
LEMMA OutcomeKeeps ==
    ASSUME CallInv, NEW i, Current(i), NEW s, Rewritten(i, s), Advance(i),
           OrdersGrow, KnownIds', UNCHANGED <<deals, telephonyVars>>,
           (outbox[i].kind = "note" /\ s = "done") => NoteIsThere(i)
    PROVE  CallInv'
<1>1. TypeInv
  BY DEF CallInv
<1>2. i \in DOMAIN outbox /\ i \in DOMAIN batch
  BY <1>1, CurrentJob
<1>3. /\ DOMAIN batch' = DOMAIN batch \ {i}
      /\ \A k \in DOMAIN batch' : batch'[k] = batch[k]
      /\ pc' \in {"idle", "step"}
  BY DEF Advance
<1>4. TypeInv'
  BY <1>1, <1>2, <1>3 DEF TypeInv, BatchFresh, IsDue, Rewritten, SameJobs, telephonyVars
<1>5. WorkerInv'
  BY <1>3 DEF WorkerInv
<1>. QED
  BY <1>2, <1>4, <1>5, RewrittenKeeps DEF CallInv, CrmInv

\* What the worker has under way is still right when others have linked orders.
LEMMA WorkerStays ==
    ASSUME TypeInv, CallsInv, WorkerInv, UNCHANGED workerVars,
           OldJobs, OrdersGrow, DealsGrow, NotesGrow
    PROVE  WorkerInv'
<1> SUFFICES ASSUME NEW i
             PROVE  /\ pc = "sent" /\ AtNote(i) => SentNote(i)'
                    /\ pc = "executed" /\ AtNote(i) => NoteIsThere(i)'
                    /\ pc = "executed" /\ AtCreate(i) => MadeDeal(i)'
  BY DEF WorkerInv, workerVars, AtNote, AtCreate, Current
<1>1. ASSUME pc = "sent", AtNote(i) PROVE SentNote(i)'
  <2>1. SentNote(i)
    BY <1>1 DEF WorkerInv
  <2>. QED
    BY <2>1 DEF SentNote, Linked, Ext, OrdersGrow, workerVars
<1>2. ASSUME pc = "executed", AtNote(i) PROVE NoteIsThere(i)'
  <2>1. NoteIsThere(i)
    BY <1>2 DEF WorkerInv
  <2>2. i \in DOMAIN outbox /\ outbox[i].kind = "note"
    BY <1>2, CurrentJob DEF AtNote
  <2>. QED
    BY <2>1, <2>2, ThereStays
<1>3. ASSUME pc = "executed", AtCreate(i) PROVE MadeDeal(i)'
  <2>1. MadeDeal(i)
    BY <1>3 DEF WorkerInv
  <2>. QED
    BY <2>1 DEF MadeDeal, Ext, DealsGrow, workerVars
<1>. QED
  BY <1>1, <1>2, <1>3

\* Webhooks, requeues and the clock leave the batch and what it is about alone.
LEMMA AsideKeeps ==
    ASSUME CallInv, UNCHANGED <<workerVars, deals, telephonyVars>>,
           OrdersGrow, KnownIds',
           \/ outbox' = outbox
           \/ \E i \in DOMAIN outbox : i \notin DOMAIN batch /\ Rewritten(i, "pending")
    PROVE  CallInv'
<1>1. TypeInv /\ CallsInv /\ LeadsInv /\ CrmInv
  BY DEF CallInv
<1>2. DealsGrow /\ NotesGrow
  BY DEF DealsGrow, NotesGrow, telephonyVars
<1>3. CASE outbox' = outbox
  <2>1. SameJobs /\ OldJobs
    BY <1>3 DEF SameJobs, OldJobs
  <2>2. TypeInv'
    BY <1>1, <1>3 DEF TypeInv, BatchFresh, IsDue, workerVars, telephonyVars
  <2>3. now' \in Nat /\ now <= now'
    BY <1>1 DEF LeadsInv, telephonyVars
  <2>4. CallsInv' /\ LeadsInv' /\ NotesInv' /\ WorkerInv'
    BY <1>1, <1>2, <2>1, <2>3, SameJobsSameCalls, SameJobsSameLeads, NotesStay,
       WorkerStays DEF CrmInv, telephonyVars
  <2>5. DoneInv'
    BY <1>1, <1>2, <1>3, <2>1, ThereStays DEF CrmInv, DoneInv
  <2>. QED
    BY <2>2, <2>4, <2>5 DEF CallInv, CrmInv
<1>4. CASE \E i \in DOMAIN outbox : i \notin DOMAIN batch /\ Rewritten(i, "pending")
  <2>1. PICK i \in DOMAIN outbox : i \notin DOMAIN batch /\ Rewritten(i, "pending")
    BY <1>4
  <2>2. SameJobs /\ OldJobs
    BY <2>1 DEF Rewritten, SameJobs, OldJobs
  <2>3. TypeInv'
    BY <1>1, <2>1 DEF TypeInv, BatchFresh, IsDue, Rewritten, SameJobs, workerVars,
                      telephonyVars
  <2>4. WorkerInv'
    BY <1>1, <1>2, <2>2, WorkerStays DEF CrmInv
  <2>. QED
    BY <2>1, <2>3, <2>4, RewrittenKeeps DEF CallInv, CrmInv
<1>. QED
  BY <1>3, <1>4

\* The outbox and the tables of calls and leads being left alone, all that is
\* said of them still holds.
LEMMA TablesKeep ==
    ASSUME CallInv, UNCHANGED <<orders, outbox, calls, leads, now>>,
           DealsGrow, NotesGrow
    PROVE  /\ SameJobs /\ OldJobs /\ OrdersGrow
           /\ CallsInv' /\ LeadsInv' /\ KnownIds' /\ DoneInv'
<1>1. TypeInv /\ CallsInv /\ LeadsInv /\ KnownIds /\ DoneInv
  BY DEF CallInv, CrmInv
<1>2. SameJobs /\ OldJobs /\ OrdersGrow /\ KnownIds'
  BY <1>1, SameOrders DEF SameJobs, OldJobs
<1>3. now' \in Nat /\ now <= now'
  BY <1>1 DEF LeadsInv
<1>4. CallsInv' /\ LeadsInv'
  BY <1>1, <1>2, <1>3, SameJobsSameCalls, SameJobsSameLeads
<1>5. DoneInv'
  BY <1>1, <1>2, ThereStays DEF DoneInv
<1>. QED
  BY <1>2, <1>4, <1>5

------------------------------------------------------------------------------
(* The worker *)

\* Which of the three kinds of outcome each of the worker's answers is.
LEMMA WorkerSettles ==
    ASSUME CallInv, NEW i,
           \/ NoteWaits(i) \/ NoteOrphaned(i) \/ NoteAnswered(i)
           \/ /\ LookupFound(i) \/ LookupFailed(i) \/ CreateAnswered(i)
                 \/ CreateTimedOut(i) \/ CallRefused(i) \/ CallLost(i)
              /\ UNCHANGED telephonyVars
    PROVE  CallInv'
<1>1. TypeInv /\ KnownIds /\ WorkerInv
  BY DEF CallInv, CrmInv
<1>2. Current(i) /\ UNCHANGED <<deals, telephonyVars>>
  BY DEF NoteWaits, NoteOrphaned, NoteAnswered, LookupFound, LookupFailed,
         CreateAnswered, CreateTimedOut, CallRefused, CallLost, AtNote, AtCreate,
         crmVars
<1>3. i \in DOMAIN outbox /\ batch[i] = outbox[i]
  BY <1>1, <1>2, CurrentJob
<1>4. DealsGrow
  BY <1>2 DEF DealsGrow
<1>5. CASE NoteWaits(i)
  <2>1. Rewritten(i, "pending") /\ Advance(i) /\ UNCHANGED orders
    BY <1>1, <1>2, <1>5, WaitWrites DEF NoteWaits
  <2>. QED
    BY <1>1, <1>2, <1>4, <2>1, SameOrders, OutcomeKeeps
<1>6. CASE NoteOrphaned(i)
  <2>1. Rewritten(i, "failed") /\ Advance(i) /\ UNCHANGED orders
    BY <1>1, <1>2, <1>6, FailWrites DEF NoteOrphaned
  <2>. QED
    BY <1>1, <1>2, <1>4, <2>1, SameOrders, OutcomeKeeps
<1>7. CASE NoteAnswered(i)
  <2>1. Rewritten(i, "done") /\ Advance(i) /\ UNCHANGED orders
    BY <1>1, <1>2, <1>7, FinishWrites DEF NoteAnswered
  <2>2. NoteIsThere(i)
    BY <1>1, <1>7 DEF NoteAnswered, WorkerInv
  <2>. QED
    BY <1>1, <1>2, <1>4, <2>1, <2>2, SameOrders, OutcomeKeeps
<1>8. CASE LookupFailed(i) \/ CreateTimedOut(i) \/ CallRefused(i) \/ CallLost(i)
  <2>1. (Retry(i) \/ Fail(i)) /\ UNCHANGED orders
    BY <1>8 DEF LookupFailed, CreateTimedOut, CallRefused, CallLost, Failed
  <2>2. (Rewritten(i, "pending") \/ Rewritten(i, "failed")) /\ Advance(i)
    BY <1>1, <1>2, <2>1, RetryWrites, FailWrites
  <2>. QED
    BY <1>1, <1>2, <1>4, <2>1, <2>2, SameOrders, OutcomeKeeps
<1>9. CASE LookupFound(i) \/ CreateAnswered(i)
  <2>1. Rewritten(i, "done") /\ Advance(i) /\ outbox[i].kind # "note"
    BY <1>1, <1>2, <1>3, <1>9, FinishWrites DEF LookupFound, CreateAnswered, AtCreate
  <2>2. PICK id \in DOMAIN deals :
             deals[id] = Ext(i) /\ orders' = SetSDOrderID(orders, Ext(i), id)
    <3>1. CASE LookupFound(i)
      BY <3>1 DEF LookupFound
    <3>2. CASE CreateAnswered(i)
      BY <1>1, <3>2 DEF CreateAnswered, WorkerInv, MadeDeal
    <3>. QED
      BY <1>9, <3>1, <3>2
  <2>3. PICK ext : ext = Ext(i)
    OBVIOUS
  <2>4. OrdersGrow /\ KnownIds'
    BY <1>1, <1>2, <2>2, <2>3, IdStored
  <2>. QED
    BY <1>2, <2>1, <2>4, OutcomeKeeps
<1>. QED
  BY <1>5, <1>6, <1>7, <1>8, <1>9

\* A request goes out, or is about to: a note's for the deal of its lead.
LEMMA WorkerAsks ==
    ASSUME CallInv, NEW i,
           \/ SendNote(i)
           \/ (LookupMissed(i) \/ SendCreate(i)) /\ UNCHANGED telephonyVars
    PROVE  CallInv'
<1>1. TypeInv /\ CallsInv /\ LeadsInv /\ NotesInv
  BY DEF CallInv, CrmInv
<1>2. /\ UNCHANGED <<orders, outbox, batch, deals, telephonyVars>>
      /\ pc' \in {"lookedUp", "sent"} /\ Current(i)
  BY DEF SendNote, LookupMissed, SendCreate, AtNote, AtCreate, crmVars
<1>3. DealsGrow /\ NotesGrow
  BY <1>2 DEF DealsGrow, NotesGrow, telephonyVars
<1>4. /\ SameJobs /\ OldJobs
      /\ CallsInv' /\ LeadsInv' /\ KnownIds' /\ DoneInv'
  BY <1>2, <1>3, TablesKeep DEF telephonyVars
<1>5. TypeInv'
  BY <1>1, <1>2 DEF TypeInv, BatchFresh, IsDue, telephonyVars
<1>6. NotesInv'
  BY <1>1, <1>2, <1>3, <1>4, NotesStay DEF telephonyVars
<1>7. ASSUME NEW k, pc' = "sent", AtNote(k)' PROVE SentNote(k)'
  <2>1. k = i /\ AtNote(i)
    BY <1>1, <1>2, <1>7, CurrentUnique DEF AtNote, Current
  <2>2. i \in DOMAIN outbox /\ batch[i] = outbox[i]
    BY <1>1, <1>2, CurrentJob
  <2>3. Ext(i) \in DOMAIN orders
    BY <1>1, <2>1, <2>2 DEF LeadsInv, NotesFitLeads, NoteFits, Ext, AtNote
  <2>4. SendNote(i)
    BY <1>7, <2>1 DEF LookupMissed, SendCreate, AtCreate, AtNote
  <2>. QED
    BY <2>1, <2>3, <2>4 DEF SendNote, SentNote, Linked, Ext
<1>8. WorkerInv'
  BY <1>2, <1>7 DEF WorkerInv
<1>. QED
  BY <1>4, <1>5, <1>6, <1>8 DEF CallInv, CrmInv

\* A round begins with the rows as they are.
LEMMA RoundKeeps ==
    ASSUME CallInv, ProcessOnce, UNCHANGED telephonyVars
    PROVE  CallInv'
<1>1. TypeInv /\ NotesInv
  BY DEF CallInv, CrmInv
<1>2. UNCHANGED <<orders, outbox, deals>> /\ pc' = "step"
  BY DEF ProcessOnce, crmVars
<1>3. DealsGrow /\ NotesGrow
  BY <1>2 DEF DealsGrow, NotesGrow, telephonyVars
<1>4. /\ OldJobs
      /\ CallsInv' /\ LeadsInv' /\ KnownIds' /\ DoneInv'
  BY <1>2, <1>3, TablesKeep DEF telephonyVars
<1>5. \A k \in DueJobs(outbox, BatchLimit) : k \in DOMAIN outbox /\ IsDue(outbox[k])
  BY DEF DueJobs
<1>6. TypeInv'
  BY <1>1, <1>2, <1>5 DEF TypeInv, BatchFresh, IsDue, telephonyVars, ProcessOnce
<1>7. NotesInv' /\ WorkerInv'
  BY <1>1, <1>2, <1>3, <1>4, NotesStay DEF telephonyVars, WorkerInv
<1>. QED
  BY <1>4, <1>6, <1>7 DEF CallInv, CrmInv

\* Nor does a stop lose anything but the batch.
LEMMA StopKeeps ==
    ASSUME CallInv, DropBatch, UNCHANGED telephonyVars
    PROVE  CallInv'
<1>1. TypeInv /\ NotesInv
  BY DEF CallInv, CrmInv
<1>2. UNCHANGED <<orders, outbox, deals>> /\ pc' = "idle" /\ batch' = <<>>
  BY DEF DropBatch
<1>3. DealsGrow /\ NotesGrow
  BY <1>2 DEF DealsGrow, NotesGrow, telephonyVars
<1>4. /\ OldJobs
      /\ CallsInv' /\ LeadsInv' /\ KnownIds' /\ DoneInv'
  BY <1>2, <1>3, TablesKeep DEF telephonyVars
<1>5. TypeInv'
  BY <1>1, <1>2 DEF TypeInv, BatchFresh, IsDue, telephonyVars
<1>6. NotesInv' /\ WorkerInv'
  BY <1>1, <1>2, <1>3, <1>4, NotesStay DEF telephonyVars, WorkerInv
<1>. QED
  BY <1>4, <1>5, <1>6 DEF CallInv, CrmInv

------------------------------------------------------------------------------
(* The CRM *)

\* A deal more leaves those there are, and is the worker's if it asked for it.
LEMMA DealKeeps ==
    ASSUME CallInv, UNCHANGED <<orders, outbox, batch, telephonyVars>>,
           NEW ext \in ExternalIds, deals' = Append(deals, ext),
           \/ UNCHANGED <<pc, dealId>>
           \/ /\ pc' = "executed" /\ dealId' = Len(deals) + 1
              /\ \E i : AtCreate(i) /\ Ext(i) = ext
    PROVE  CallInv'
<1>1. TypeInv /\ CallsInv /\ NotesInv /\ WorkerInv
  BY DEF CallInv, CrmInv
<1>2. /\ deals \in Seq(ExternalIds) /\ deals' \in Seq(ExternalIds)
      /\ DOMAIN deals' = DOMAIN deals \cup {Len(deals) + 1}
      /\ \A id \in DOMAIN deals : deals'[id] = deals[id]
      /\ deals'[Len(deals) + 1] = ext
  BY <1>1 DEF TypeInv
<1>3. DealsGrow /\ NotesGrow
  BY <1>2 DEF DealsGrow, NotesGrow, telephonyVars
<1>4. /\ OldJobs /\ OrdersGrow
      /\ CallsInv' /\ LeadsInv' /\ KnownIds' /\ DoneInv'
  BY <1>3, TablesKeep DEF telephonyVars
<1>5. TypeInv'
  BY <1>1, <1>2 DEF TypeInv, BatchFresh, IsDue, telephonyVars
<1>6. NotesInv'
  BY <1>1, <1>3, <1>4, NotesStay DEF telephonyVars
<1>7. WorkerInv'
  <2>1. CASE UNCHANGED <<pc, dealId>>
    BY <1>1, <1>3, <1>4, <2>1, WorkerStays DEF workerVars
  <2>2. CASE /\ pc' = "executed" /\ dealId' = Len(deals) + 1
             /\ \E i : AtCreate(i) /\ Ext(i) = ext
    <3>1. PICK i : AtCreate(i) /\ Ext(i) = ext
      BY <2>2
    <3>2. ASSUME NEW k, Current(k)' PROVE k = i
      BY <1>1, <3>1, <3>2, CurrentUnique DEF AtCreate, Current
    <3>3. MadeDeal(i)' /\ ~AtNote(i)'
      BY <1>2, <2>2, <3>1 DEF MadeDeal, Ext, AtCreate, AtNote
    <3>. QED
      BY <2>2, <3>2, <3>3 DEF WorkerInv, AtNote, AtCreate
  <2>. QED
    BY <2>1, <2>2
<1>. QED
  BY <1>4, <1>5, <1>6, <1>7 DEF CallInv, CrmInv

\* A note that is added is there, at the deal of its lead.
LEMMA AddNoteKeeps ==
    ASSUME CallInv, NEW i, AddNote(i)
    PROVE  CallInv'
<1>1. TypeInv /\ CallsInv /\ KnownIds /\ NotesInv /\ WorkerInv
  BY DEF CallInv, CrmInv
<1>2. /\ UNCHANGED <<orders, outbox, batch, dealId, deals, calls, leads, now>>
      /\ Current(i) /\ pc' = "executed" /\ AtNote(i)
  BY DEF AddNote, AtNote, crmVars
<1>3. i \in DOMAIN outbox /\ batch[i] = outbox[i] /\ outbox[i].kind = "note"
  BY <1>1, <1>2, CurrentJob DEF AtNote
<1>4. PICK call \in CallIds : outbox[i].key = NoteKey(call)
  BY <1>1, <1>3 DEF CallsInv, JobOfCall
<1>5. /\ dealId \in DOMAIN deals /\ deals[dealId] = outbox[i].payload.ext
      /\ dealId = orders[outbox[i].payload.ext] /\ Linked(outbox[i].payload.ext)
  BY <1>1, <1>2, <1>3 DEF AddNote, WorkerInv, SentNote, KnownIds, Ext
<1>6. dealId \in Nat
  BY <1>1, <1>5 DEF TypeInv
<1>7. notes' = [notes EXCEPT ![call] = Append(@, dealId)] /\ outbox[i].key[2] = call
  BY <1>3, <1>4, CallKeys DEF AddNote
<1>8. /\ notes' \in [CallIds -> Seq(Nat)]
      /\ DOMAIN notes'[call] = DOMAIN notes[call] \cup {Len(notes[call]) + 1}
      /\ \A n \in DOMAIN notes[call] : notes'[call][n] = notes[call][n]
      /\ notes'[call][Len(notes[call]) + 1] = dealId
      /\ \A c \in CallIds : c # call => notes'[c] = notes[c]
  <2>1. notes \in [CallIds -> Seq(Nat)] /\ notes[call] \in Seq(Nat)
    BY <1>1 DEF TypeInv
  <2>2. notes'[call] = Append(notes[call], dealId) /\ notes' \in [CallIds -> Seq(Nat)]
    BY <1>6, <1>7, <2>1
  <2>3. \A c \in CallIds : c # call => notes'[c] = notes[c]
    BY <1>7, <2>1
  <2>. QED
    BY <1>6, <2>1, <2>2, <2>3
<1>9. DealsGrow /\ NotesGrow
  BY <1>2, <1>8 DEF DealsGrow, NotesGrow
<1>10. CallsInv' /\ LeadsInv' /\ KnownIds' /\ DoneInv'
  BY <1>2, <1>9, TablesKeep
<1>11. TypeInv'
  BY <1>1, <1>2, <1>8 DEF TypeInv, BatchFresh, IsDue
<1>12. NotesInv'
  <2>1. \A c, id : NoteAtLead(c, id)' <=> NoteAtLead(c, id)
    BY <1>2 DEF NoteAtLead, NoteJobs
  <2>2. NoteAtLead(call, dealId)
    BY <1>3, <1>4, <1>5 DEF NoteAtLead, NoteJobs
  <2>. QED
    BY <1>1, <1>8, <2>1, <2>2 DEF NotesInv
<1>13. NoteIsThere(i)' /\ ~AtCreate(i)'
  BY <1>2, <1>3, <1>5, <1>7, <1>8 DEF NoteIsThere, Linked, AtCreate, AtNote
<1>14. ASSUME NEW k, Current(k)' PROVE k = i
  BY <1>1, <1>2, <1>14, CurrentUnique DEF Current
<1>15. WorkerInv'
  BY <1>2, <1>13, <1>14 DEF WorkerInv, AtNote, AtCreate
<1>. QED
  BY <1>10, <1>11, <1>12, <1>15 DEF CallInv, CrmInv

------------------------------------------------------------------------------
(* Call events *)

\* The row of a call that was not recorded yet.
Recorded(call, phone, kind) ==
    calls' = [c \in DOMAIN calls \cup {call} |->
                 IF c = call THEN [phone |-> phone, kind |-> kind, at |-> now]
                             ELSE calls[c]]

LEMMA RecordedRows ==
    ASSUME NEW call, NEW phone, NEW kind, Recorded(call, phone, kind),
           call \notin DOMAIN calls
    PROVE  /\ DOMAIN calls' = DOMAIN calls \cup {call}
           /\ \A c \in DOMAIN calls : calls'[c] = calls[c] /\ c # call
           /\ calls'[call].phone = phone /\ calls'[call].at = now
           /\ Missed(call)' <=> kind = "missed"
           /\ ~Missed(call)
           /\ \A c : c # call => (Missed(c)' <=> Missed(c))
  BY DEF Recorded, Missed

\* A call that is not recorded has no job.
LEMMA NoJobYet ==
    ASSUME CallsInv, NEW call, call \notin DOMAIN calls
    PROVE  /\ ~HasKey(outbox, NoteKey(call))
           /\ ~HasKey(outbox, CreateKey(LeadId(call)))
           /\ JobsOfCall(call) = {}
  BY CallKeys DEF CallsInv, JobOfCall, Missed, HasKey, JobsOfCall

\* Notes of earlier calls still fit their leads, of which there may be more.
LEMMA OldNotesFit ==
    ASSUME CallsInv, LeadsInv, NEW call, NEW phone, NEW kind,
           Recorded(call, phone, kind), call \notin DOMAIN calls, OldJobs,
           DOMAIN leads \subseteq DOMAIN leads',
           \A k \in DOMAIN leads : leads'[k] = leads[k],
           NEW i \in DOMAIN outbox, outbox[i].kind = "note"
    PROVE  \E k \in DOMAIN leads' : NoteFits(i, k)'
<1>1. PICK c \in DOMAIN calls : outbox[i].key[2] = c
  BY CallKeys DEF CallsInv, JobOfCall, Missed
<1>2. calls'[c] = calls[c]
  BY <1>1, RecordedRows
<1>3. PICK k \in DOMAIN leads : NoteFits(i, k)
  BY DEF LeadsInv, NotesFitLeads
<1>4. NoteFits(i, k)'
  BY <1>1, <1>2, <1>3 DEF NoteFits, OldJobs
<1>. QED
  BY <1>3, <1>4

\* A call that was answered, or the like, is recorded and no more.
LEMMA AnsweredKeeps ==
    ASSUME CallInv, NEW call \in CallIds, NEW phone, NEW kind,
           Recorded(call, phone, kind), call \notin DOMAIN calls, kind # "missed",
           UNCHANGED <<orders, outbox, leads, workerVars, crmVars, now, notes>>
    PROVE  CallInv'
<1>1. TypeInv /\ CallsInv /\ LeadsInv /\ CrmInv
  BY DEF CallInv
<1>2. TypeInv'
  BY <1>1 DEF TypeInv, BatchFresh, IsDue, workerVars, crmVars
<1>3. CallsInv'
  <2>1. \A c : Missed(c)' <=> Missed(c)
    BY DEF Recorded, Missed
  <2>2. \A i \in DOMAIN outbox : JobOfCall(i)'
    BY <1>1, <2>1 DEF CallsInv, JobOfCall
  <2>3. \A c : JobsOfCall(c)' = JobsOfCall(c)
    BY DEF JobsOfCall
  <2>. QED
    BY <1>1, <2>1, <2>2, <2>3, RecordedRows DEF CallsInv
<1>4. LeadsInv'
  <2>1. OldJobs
    BY DEF OldJobs
  <2>2. NotesFitLeads'
    BY <1>1, <2>1, OldNotesFit DEF NotesFitLeads
  <2>. QED
    BY <1>1, <2>2 DEF LeadsInv, OneLeadPerNumber
<1>5. CrmInv'
  BY <1>1 DEF CrmInv, KnownIds, NotesInv, DoneInv, WorkerInv, Linked, NoteAtLead,
              NoteJobs, NoteIsThere, SentNote, MadeDeal, AtNote, AtCreate, Current,
              Ext, workerVars, crmVars
<1>. QED
  BY <1>2, <1>3, <1>4, <1>5 DEF CallInv

\* A job for a missed call, which has none yet.
JobFor(call, job) ==
    /\ job \in Job
    /\ job.state = "pending"
    /\ \/ /\ job.kind = "create_order"
          /\ job.key = CreateKey(LeadId(call))
          /\ job.payload.ext = LeadId(call)
       \/ /\ job.kind = "note"
          /\ job.key = NoteKey(call)

LEMMA JobAdded ==
    ASSUME TypeInv, NEW job, job \in Job, outbox' = Append(outbox, job)
    PROVE  /\ outbox' \in Seq(Job)
           /\ DOMAIN outbox' = DOMAIN outbox \cup {Len(outbox) + 1}
           /\ Len(outbox) + 1 \notin DOMAIN outbox
           /\ \A k \in DOMAIN outbox : outbox'[k] = outbox[k]
           /\ outbox'[Len(outbox) + 1] = job
           /\ OldJobs
<1>1. outbox \in Seq(Job)
  BY DEF TypeInv
<1>2. /\ outbox' \in Seq(Job)
      /\ DOMAIN outbox' = DOMAIN outbox \cup {Len(outbox) + 1}
      /\ Len(outbox) + 1 \notin DOMAIN outbox
      /\ \A k \in DOMAIN outbox : outbox'[k] = outbox[k]
      /\ outbox'[Len(outbox) + 1] = job
  BY <1>1
<1>. QED
  BY <1>2 DEF OldJobs

LEMMA MissedKeeps ==
    ASSUME CallInv, NEW call \in CallIds, NEW phone,
           Recorded(call, phone, "missed"), call \notin DOMAIN calls,
           NEW job, JobFor(call, job), outbox' = Append(outbox, job),
           OrdersGrow, KnownIds',
           UNCHANGED <<workerVars, crmVars, now, notes>>
    PROVE  TypeInv' /\ CallsInv' /\ CrmInv'
<1> PICK new : new = Len(outbox) + 1
  OBVIOUS
<1>1. TypeInv /\ CallsInv /\ CrmInv
  BY DEF CallInv
<1>2. /\ outbox' \in Seq(Job)
      /\ DOMAIN outbox' = DOMAIN outbox \cup {new} /\ new \notin DOMAIN outbox
      /\ \A k \in DOMAIN outbox : outbox'[k] = outbox[k]
      /\ outbox'[new] = job
      /\ OldJobs
  BY <1>1, JobAdded DEF JobFor
<1>3. TypeInv'
  BY <1>1, <1>2 DEF TypeInv, BatchFresh, IsDue, workerVars, crmVars
<1>4. CallsInv'
  <2>0. /\ DOMAIN calls' = DOMAIN calls \cup {call}
        /\ Missed(call)' /\ ~Missed(call)
        /\ \A c : c # call => (Missed(c)' <=> Missed(c))
    BY RecordedRows
  <2>1. JobOfCall(new)'
    BY <1>2, <2>0 DEF JobFor, JobOfCall
  <2>2. \A i \in DOMAIN outbox : JobOfCall(i)'
    BY <1>1, <1>2, <2>0 DEF CallsInv, JobOfCall
  <2>3. JobsOfCall(call)' = {new}
    <3>1. JobsOfCall(call) = {}
      BY <1>1, NoJobYet
    <3>2. job.key \in {CreateKey(LeadId(call)), NoteKey(call)}
      BY DEF JobFor
    <3>. QED
      BY <1>2, <3>1, <3>2 DEF JobsOfCall
  <2>4. \A c \in CallIds : c # call => JobsOfCall(c)' = JobsOfCall(c)
    <3>1. \A c : c # call => job.key \notin {CreateKey(LeadId(c)), NoteKey(c)}
      BY CallKeys DEF JobFor
    <3>. QED
      BY <1>2, <3>1 DEF JobsOfCall
  <2>. QED
    <3>1. \A i \in DOMAIN outbox' : JobOfCall(i)'
      BY <1>2, <2>1, <2>2
    <3>2. ASSUME NEW c \in CallIds
          PROVE  /\ Missed(c)' => JobsOfCall(c)' # {}
                 /\ \A i, j \in JobsOfCall(c)' : i = j
      <4>1. CASE c = call
        BY <2>3, <4>1
      <4>2. CASE c # call
        BY <1>1, <2>0, <2>4, <4>2 DEF CallsInv
      <4>. QED
        BY <4>1, <4>2
    <3>. QED
      BY <1>1, <2>0, <3>1, <3>2 DEF CallsInv
<1>5. DealsGrow /\ NotesGrow
  BY DEF DealsGrow, NotesGrow, crmVars
<1>6. NotesInv' /\ WorkerInv'
  BY <1>1, <1>2, <1>5, NotesStay, WorkerStays DEF CrmInv
<1>7. DoneInv'
  BY <1>1, <1>2, <1>5, ThereStays DEF CrmInv, DoneInv, JobFor
<1>. QED
  BY <1>3, <1>4, <1>6, <1>7 DEF CrmInv

\* A repeat miss: the note names a lead that fits.
LEMMA NoteOnLeadKeeps ==
    ASSUME CallInv, NEW call \in CallIds, NEW phone,
           Recorded(call, phone, "missed"), call \notin DOMAIN calls,
           NoteOnLead(call, phone), UNCHANGED <<workerVars, crmVars, now, notes>>
    PROVE  CallInv'
<1>1. TypeInv /\ CallsInv /\ LeadsInv /\ KnownIds
  BY DEF CallInv, CrmInv
<1>2. PICK k \in RecentLeads(phone) :
           outbox' = Enqueue(outbox, NoteKey(call), "note", [ext |-> leads[k].ext])
  BY DEF NoteOnLead
<1>3. UNCHANGED <<orders, leads>> /\ OrdersGrow /\ KnownIds'
  BY <1>1, SameOrders DEF NoteOnLead, DealsGrow, crmVars
<1>4. /\ k \in DOMAIN leads /\ leads[k].phone = phone
      /\ leads[k].ext \in ExternalIds
      /\ leads[k].at \in Nat /\ now \in Nat
      /\ now - leads[k].at \in 0 .. Window
  BY <1>1, TelephonyAssumption DEF RecentLeads, LeadsInv
<1>5. PICK job : job = NewJob(NoteKey(call), "note", [ext |-> leads[k].ext])
  OBVIOUS
<1>6. JobFor(call, job) /\ job.payload.ext = leads[k].ext
  BY <1>4, <1>5 DEF JobFor, NewJob, Job, NoteKey, JobStates
<1>7. outbox' = Append(outbox, job)
  BY <1>1, <1>2, <1>5, NoJobYet DEF Enqueue
<1>8. TypeInv' /\ CallsInv' /\ CrmInv'
  BY <1>3, <1>6, <1>7, MissedKeeps
<1>9. NotesFitLeads'
  <2> PICK new : new = Len(outbox) + 1
    OBVIOUS
  <2>1. /\ DOMAIN outbox' = DOMAIN outbox \cup {new}
        /\ \A i \in DOMAIN outbox : outbox'[i] = outbox[i]
        /\ outbox'[new] = job
        /\ OldJobs
    BY <1>1, <1>6, <1>7, JobAdded DEF JobFor
  <2>2. \A i \in DOMAIN outbox :
           outbox'[i].kind = "note" => \E l \in DOMAIN leads' : NoteFits(i, l)'
    BY <1>1, <1>3, <2>1, OldNotesFit
  <2>3. /\ outbox'[new].key[2] = call
        /\ outbox'[new].payload.ext = leads[k].ext
    BY <1>5, <1>6, <2>1, CallKeys DEF NewJob
  <2>4. calls'[call].phone = phone /\ calls'[call].at = now
    BY RecordedRows
  <2>5. NoteFits(new, k)'
    BY <1>3, <1>4, <2>3, <2>4 DEF NoteFits
  <2>. QED
    BY <1>3, <1>4, <2>1, <2>2, <2>5 DEF NotesFitLeads
<1>10. LeadsInv'
  BY <1>1, <1>3, <1>9 DEF LeadsInv, OneLeadPerNumber
<1>. QED
  BY <1>8, <1>10 DEF CallInv

\* A first miss: the lead is new and keeps the distance to the last one.
LEMMA NewLeadKeeps ==
    ASSUME CallInv, NEW call \in CallIds, NEW phone,
           Recorded(call, phone, "missed"), call \notin DOMAIN calls,
           NewLead(call, phone), UNCHANGED <<workerVars, crmVars, now, notes>>
    PROVE  CallInv'
<1> DEFINE ext == LeadId(call)
<1>1. TypeInv /\ CallsInv /\ LeadsInv /\ KnownIds /\ ext \in ExternalIds
  BY TelephonyAssumption DEF CallInv, CrmInv
<1>2. /\ OrdersGrow /\ DOMAIN orders' = DOMAIN orders \cup {ext}
      /\ \A x : Linked(x)' => Linked(x) /\ orders'[x] = orders[x]
  BY DEF NewLead, InsertOrder, OrdersGrow, Linked
<1>3. KnownIds'
  BY <1>1, <1>2 DEF KnownIds, crmVars
<1>4. PICK job : job = NewJob(CreateKey(ext), "create_order", [ext |-> ext])
  OBVIOUS
<1>5. JobFor(call, job) /\ job.kind = "create_order"
  BY <1>1, <1>4 DEF JobFor, NewJob, Job, CreateKey, JobStates
<1>6. outbox' = Append(outbox, job)
  BY <1>1, <1>4, NoJobYet DEF NewLead, EnqueueCreate, Enqueue
<1>7. TypeInv' /\ CallsInv' /\ CrmInv'
  BY <1>2, <1>3, <1>5, <1>6, MissedKeeps
<1>8. ASSUME DOMAIN leads \subseteq DOMAIN leads',
             \A k \in DOMAIN leads : leads'[k] = leads[k]
      PROVE  NotesFitLeads'
  <2> PICK new : new = Len(outbox) + 1
    OBVIOUS
  <2>1. /\ DOMAIN outbox' = DOMAIN outbox \cup {new}
        /\ \A i \in DOMAIN outbox : outbox'[i] = outbox[i]
        /\ outbox'[new] = job
        /\ OldJobs
    BY <1>1, <1>5, <1>6, JobAdded DEF JobFor
  <2>2. \A i \in DOMAIN outbox :
           outbox'[i].kind = "note" => \E l \in DOMAIN leads' : NoteFits(i, l)'
    BY <1>1, <1>8, <2>1, OldNotesFit
  <2>. QED
    BY <1>5, <2>1, <2>2 DEF NotesFitLeads
<1>9. CASE ext \in DOMAIN orders
  <2>1. UNCHANGED leads
    BY <1>9 DEF NewLead
  <2>2. NotesFitLeads'
    BY <1>8, <2>1
  <2>. QED
    BY <1>1, <1>2, <1>7, <2>1, <2>2 DEF CallInv, LeadsInv, OneLeadPerNumber
<1>10. CASE ext \notin DOMAIN orders
  <2> PICK lead : lead = [ext |-> ext, phone |-> phone, at |-> now]
    OBVIOUS
  <2>1. lead.ext = ext /\ lead.phone = phone /\ lead.at = now
    OBVIOUS
  <2>2. leads' = Append(leads, lead)
    BY <1>10 DEF NewLead
  <2>3. PICK S : leads \in Seq(S)
    BY <1>1 DEF LeadsInv
  <2> PICK T : T = S \cup {lead}
    OBVIOUS
  <2>4. leads \in Seq(T) /\ lead \in T
    BY <2>3
  <2> PICK last : last = Len(leads) + 1
    OBVIOUS
  <2>5. /\ leads' \in Seq(T)
        /\ DOMAIN leads' = DOMAIN leads \cup {last}
        /\ last \notin DOMAIN leads
        /\ \A k \in DOMAIN leads : leads'[k] = leads[k] /\ k < last
        /\ leads'[last] = lead /\ last \in Nat
    BY <2>2, <2>4
  <2>6. \A k \in DOMAIN leads :
           leads[k].phone = phone => leads[k].at + Window < now
    BY <1>1, TelephonyAssumption DEF NewLead, RecentLeads, LeadsInv
  <2>7. OneLeadPerNumber'
    <3>1. ASSUME NEW j \in DOMAIN leads', NEW k \in DOMAIN leads', j < k,
                 leads'[j].phone = leads'[k].phone
          PROVE  leads'[j].at + Window < leads'[k].at
      <4>1. j \in DOMAIN leads
        BY <2>5, <3>1
      <4>2. CASE k \in DOMAIN leads
        BY <1>1, <2>5, <3>1, <4>1, <4>2 DEF LeadsInv, OneLeadPerNumber
      <4>3. CASE k = last
        BY <2>1, <2>5, <2>6, <3>1, <4>1, <4>3
      <4>. QED
        BY <2>5, <4>2, <4>3
    <3>. QED
      BY <3>1 DEF OneLeadPerNumber
  <2>8. NotesFitLeads'
    BY <1>8, <2>5
  <2>9. \A k \in DOMAIN leads' :
           /\ leads'[k].ext \in DOMAIN orders' /\ leads'[k].ext \in ExternalIds
           /\ leads'[k].at \in Nat /\ leads'[k].at <= now'
    BY <1>1, <1>2, <2>1, <2>5 DEF LeadsInv
  <2>10. \E U : leads' \in Seq(U)
    BY <2>5
  <2>. QED
    BY <1>1, <1>7, <2>7, <2>8, <2>9, <2>10 DEF CallInv, LeadsInv
<1>. QED
  BY <1>9, <1>10

\* An event is ignored, or recorded with what follows from it.
LEMMA OnCallKeeps ==
    ASSUME CallInv, NEW call \in CallIds, NEW spelled, NEW kind,
           OnCall(call, spelled, kind)
    PROVE  CallInv'
<1>1. KnownIds
  BY DEF CallInv, CrmInv
<1>2. UNCHANGED <<workerVars, crmVars, now, notes>>
  BY DEF OnCall
<1>3. CASE UNCHANGED <<orders, outbox, calls, leads>>
  <2>1. UNCHANGED <<workerVars, deals, telephonyVars>> /\ DealsGrow
    BY <1>2, <1>3 DEF crmVars, telephonyVars, DealsGrow
  <2>. QED
    BY <1>1, <1>3, <2>1, SameOrders, AsideKeeps
<1>4. CASE call \notin DOMAIN calls /\ Completed(call, Normalize(spelled), kind)
  <2> PICK phone : phone = Normalize(spelled)
    OBVIOUS
  <2>1. Recorded(call, phone, kind)
    BY <1>4 DEF Completed, Recorded
  <2>2. CASE kind # "missed"
    BY <1>2, <1>4, <2>1, <2>2, AnsweredKeeps DEF Completed
  <2>3. CASE kind = "missed"
    BY <1>2, <1>4, <2>1, <2>3, NoteOnLeadKeeps, NewLeadKeeps DEF Completed
  <2>. QED
    BY <2>2, <2>3
<1>. QED
  BY <1>3, <1>4 DEF OnCall

LEMMA TickKeeps ==
    ASSUME CallInv, Tick
    PROVE  CallInv'
<1>1. TypeInv /\ CallsInv /\ LeadsInv /\ CrmInv
  BY DEF CallInv
<1>2. UNCHANGED <<orders, outbox, workerVars, deals, calls, leads, notes>>
  BY DEF Tick, outboxVars, crmVars
<1>3. SameJobs /\ OrdersGrow
  BY <1>2 DEF SameJobs, OrdersGrow
<1>4. now' \in Nat /\ now <= now'
  BY <1>1 DEF LeadsInv, Tick
<1>5. CallsInv' /\ LeadsInv'
  BY <1>1, <1>2, <1>3, <1>4, SameJobsSameCalls, SameJobsSameLeads
<1>6. TypeInv'
  BY <1>1, <1>2 DEF TypeInv, BatchFresh, IsDue, workerVars
<1>7. CrmInv'
  BY <1>1, <1>2 DEF CrmInv, KnownIds, NotesInv, DoneInv, WorkerInv, Linked,
                    NoteAtLead, NoteJobs, NoteIsThere, SentNote, MadeDeal, AtNote,
                    AtCreate, Current, Ext, workerVars
<1>. QED
  BY <1>5, <1>6, <1>7 DEF CallInv

------------------------------------------------------------------------------
(* Every step keeps the invariant *)

LEMMA Initially == Init => CallInv
<1> SUFFICES ASSUME Init PROVE CallInv
  OBVIOUS
<1>1. /\ outbox = <<>> /\ batch = <<>> /\ pc = "idle" /\ deals = <<>>
      /\ orders = NoOrders /\ calls = [c \in {} |-> 0] /\ leads = <<>> /\ now = 0
      /\ notes = [c \in CallIds |-> <<>>]
  BY DEF Init, OutboxInit, TelephonyInit
<1>2. DOMAIN outbox = {} /\ DOMAIN batch = {} /\ DOMAIN leads = {}
      /\ DOMAIN calls = {} /\ DOMAIN orders = {}
      /\ \A c \in CallIds : DOMAIN notes[c] = {}
  BY <1>1 DEF NoOrders
<1>3. TypeInv
  BY <1>1, <1>2 DEF TypeInv, BatchFresh
<1>4. CallsInv
  BY <1>2 DEF CallsInv, Missed, JobsOfCall
<1>5. LeadsInv
  <2>1. leads \in Seq({})
    BY <1>1
  <2>. QED
    BY <1>1, <1>2, <2>1 DEF LeadsInv, OneLeadPerNumber, NotesFitLeads
<1>6. CrmInv
  BY <1>1, <1>2 DEF CrmInv, KnownIds, Linked, NotesInv, DoneInv, WorkerInv
<1>. QED
  BY <1>3, <1>4, <1>5, <1>6 DEF CallInv

LEMMA OutboxKeeps ==
    ASSUME CallInv, OutboxNext, UNCHANGED telephonyVars
    PROVE  CallInv'
<1>1. TypeInv /\ KnownIds
  BY DEF CallInv, CrmInv
<1>2. ASSUME NEW id \in DOMAIN deals, OnSalesDrive(id) PROVE CallInv'
  <2>1. UNCHANGED <<outbox, workerVars, deals>>
    BY <1>2 DEF OnSalesDrive, crmVars
  <2> PICK ext : ext = deals[id]
    OBVIOUS
  <2>2. OrdersGrow /\ KnownIds'
    BY <1>1, <1>2, <2>1, IdStored DEF OnSalesDrive
  <2>. QED
    BY <2>1, <2>2, AsideKeeps
<1>3. ASSUME NEW i \in DOMAIN outbox, Requeue(i) \/ BackoffElapses(i) PROVE CallInv'
  <2>1. UNCHANGED <<orders, workerVars, deals>>
    BY <1>3 DEF Requeue, BackoffElapses, crmVars
  <2>2. DealsGrow
    BY <2>1 DEF DealsGrow
  <2>. QED
    BY <1>1, <1>3, <2>1, <2>2, SameOrders, RequeueWrites, BackoffWrites, AsideKeeps
<1>4. ASSUME NEW i \in DOMAIN batch, CreateDeal(i) PROVE CallInv'
  <2> PICK ext : ext = Ext(i)
    OBVIOUS
  <2>1. AtCreate(i) /\ ext \in ExternalIds
    <3>1. AtCreate(i) /\ Current(i)
      BY <1>4 DEF CreateDeal, AtCreate
    <3>2. outbox[i] \in Job /\ batch[i] = outbox[i]
      BY <1>1, <3>1, CurrentJob
    <3>. QED
      BY <3>1, <3>2 DEF Job, Ext
  <2>. QED
    BY <1>4, <2>1, DealKeeps DEF CreateDeal
<1>5. ASSUME NEW ext \in ExternalIds, LateDeal(ext) PROVE CallInv'
  BY <1>5, DealKeeps DEF LateDeal, workerVars
<1>6. ASSUME Abort \/ \E i \in DOMAIN batch : AbortInFlight(i) PROVE CallInv'
  BY <1>6, StopKeeps DEF Abort, AbortInFlight
<1>. QED
  BY <1>2, <1>3, <1>4, <1>5, <1>6, RoundKeeps DEF OutboxNext

LEMMA Inductive == CallInv /\ [Next]_vars => CallInv'
<1> SUFFICES ASSUME CallInv, [Next]_vars PROVE CallInv'
  OBVIOUS
<1>1. ASSUME NEW call \in CallIds, NEW kind, NEW spelled, OnCall(call, spelled, kind)
      PROVE  CallInv'
  BY <1>1, OnCallKeeps
<1>2. CASE Tick
  BY <1>2, TickKeeps
<1>3. ASSUME NEW i, WorkerStep(i) PROVE CallInv'
  BY <1>3, WorkerSettles, WorkerAsks DEF WorkerStep, NoteStep, CreateStep
<1>4. ASSUME NEW i, AddNote(i) PROVE CallInv'
  BY <1>4, AddNoteKeeps
<1>5. CASE OutboxNext /\ UNCHANGED telephonyVars
  BY <1>5, OutboxKeeps
<1>6. CASE UNCHANGED vars
  <2>1. UNCHANGED <<orders, outbox, workerVars, deals, telephonyVars>>
    BY <1>6 DEF vars, outboxVars, crmVars
  <2>2. KnownIds /\ DealsGrow
    BY <2>1 DEF CallInv, CrmInv, DealsGrow
  <2>. QED
    BY <2>1, <2>2, SameOrders, AsideKeeps
<1>. QED
  BY <1>1, <1>2, <1>3, <1>4, <1>5, <1>6 DEF Next

\* The invariant of this module holds in all that telephony does.
THEOREM CallsInvariant == Spec => []CallInv
  BY Initially, Inductive, PTL DEF Spec

\* However often Binotel sends an event, a missed call has one job and any other
\* call has none.
THEOREM CallsCountOnce == Spec => []CallCountsOnce
<1>1. CallInv => CallCountsOnce
  <2> SUFFICES ASSUME CallInv, NEW call \in CallIds
               PROVE  Cardinality(JobsOfCall(call)) = IF Missed(call) THEN 1 ELSE 0
    BY DEF CallCountsOnce, Missed
  <2>1. CallsInv
    BY DEF CallInv
  <2>2. CASE Missed(call)
    <3>1. PICK i : i \in JobsOfCall(call)
      BY <2>1, <2>2 DEF CallsInv
    <3>2. JobsOfCall(call) = {i}
      BY <2>1, <3>1 DEF CallsInv
    <3>. QED
      BY <2>2, <3>2, FS_Singleton
  <2>3. CASE ~Missed(call)
    <3>1. JobsOfCall(call) = {}
      BY <2>1, <2>3, CallKeys DEF CallsInv, JobOfCall, JobsOfCall
    <3>. QED
      BY <2>3, <3>1, FS_EmptySet
  <2>. QED
    BY <2>2, <2>3
<1>. QED
  BY <1>1, CallsInvariant, PTL

\* A note stands at a deal of the lead that its job names, whatever links, lost
\* answers and second deals there have been.
THEOREM NotesStandAtTheirLead == Spec => []NotesAtTheirLead
<1>1. CallInv => NotesAtTheirLead
  BY DEF CallInv, CrmInv, NotesInv, NoteAtLead, NotesAtTheirLead
<1>. QED
  BY <1>1, CallsInvariant, PTL

\* A note job that counts as done has its note at the deal shown as the lead's.
THEOREM DoneNotesAreThere == Spec => []DoneNoteIsThere
<1>1. CallInv => DoneNoteIsThere
  <2> SUFFICES ASSUME CallInv, NEW call \in CallIds, NEW i \in NoteJobs(call),
                      outbox[i].state = "done"
               PROVE  \E n \in DOMAIN notes[call] :
                         notes[call][n] = orders[outbox[i].payload.ext]
    BY DEF DoneNoteIsThere
  <2>1. i \in DOMAIN outbox /\ outbox[i].key = NoteKey(call)
    BY DEF NoteJobs
  <2>2. outbox[i].kind = "note" /\ outbox[i].key[2] = call
    BY <2>1, CallKeys DEF CallInv, CallsInv, JobOfCall
  <2>3. NoteIsThere(i)
    BY <2>1, <2>2 DEF CallInv, CrmInv, DoneInv
  <2>. QED
    BY <2>2, <2>3 DEF NoteIsThere
<1>. QED
  BY <1>1, CallsInvariant, PTL

\* One number, as Normalize gives it, has one lead per window; and each note is
\* for a lead of its call's number that was in the window when the call came.
THEOREM LeadsKeepTheWindow == Spec => [](OneLeadPerNumber /\ NotesFitLeads)
<1>1. CallInv => OneLeadPerNumber /\ NotesFitLeads
  BY DEF CallInv, LeadsInv
<1>. QED
  BY <1>1, CallsInvariant, PTL
==============================================================================
