----------------------------- MODULE BridgeProofs -----------------------------
(***************************************************************************)
(* Proofs about Bridge: orders of the shop, leads, notes and parcels share *)
(* one table of orders, one outbox and one worker, for any ids, calls,     *)
(* parcels and bounds, and keep apart what is each one's own.              *)
(***************************************************************************)
EXTENDS Bridge, FiniteSetTheorems, TLAPS

------------------------------------------------------------------------------
(* The inductive invariant *)

\* A row of the outbox; key, kind and payload may be anything.
IsJob(job) ==
    job \in [key : {job.key}, kind : {job.kind}, payload : {job.payload},
             state : JobStates, attempts : Nat, due : BOOLEAN]

\* The outbox, and the copies the worker has of its rows.
QueueInv ==
    /\ \E S : outbox \in Seq(S)
    /\ \A i \in DOMAIN outbox : IsJob(outbox[i])
    /\ DOMAIN batch \subseteq DOMAIN outbox
    /\ BatchFresh

NoteKey(call) == <<"note", call>>
LeadId(call) == <<"call", call>>
StatusKey(n, code) == <<"status", n, code>>

Missed(call) == call \in DOMAIN calls /\ calls[call].kind = "missed"
HasLead(call) == \E k \in DOMAIN leads : leads[k].ext = LeadId(call)
HasNote(call) == HasKey(outbox, NoteKey(call))

\* What is known of a parcel's deal and order is what its row says.
LinkedAs(n, sd, ext) ==
    /\ sd # NoId => ttns[n].sd = sd
    /\ ext # NoExt => ttns[n].ext = ext

\* What the jobs of each kind are about.
CreateJob(i) ==
    /\ outbox[i].kind = "create_order"
    /\ \E ext \in DOMAIN orders :
          outbox[i].key = CreateKey(ext) /\ outbox[i].payload.ext = ext

NoteJob(i) ==
    /\ outbox[i].kind = "note"
    /\ \E call \in CallIds : Missed(call) /\ outbox[i].key = NoteKey(call)
    /\ \E k \in DOMAIN leads : leads[k].ext = outbox[i].payload.ext

StatusJob(i) ==
    /\ outbox[i].kind = "status"
    /\ \E n \in DOMAIN ttns :
          /\ outbox[i].key = StatusKey(n, outbox[i].payload.status)
          /\ LinkedAs(n, outbox[i].payload.sd, outbox[i].payload.ext)
          /\ Parcels!Rank(outbox[i].payload.status) <= ttns[n].rank

JobsInv ==
    \A i \in DOMAIN outbox : CreateJob(i) \/ NoteJob(i) \/ StatusJob(i)

\* Create jobs and notes are one of a kind, and each order has its create job.
OwnJobsInv ==
    /\ \A i, j \in DOMAIN outbox :
          outbox[i].kind # "status" /\ outbox[j].key = outbox[i].key => i = j
    /\ \A ext \in DOMAIN orders : HasKey(outbox, CreateKey(ext))

\* Who the orders belong to: the shop or a lead.  A missed call has a lead of its
\* own or a note, unless the shop has taken the lead's id; and only the shop's
\* orders have a contact.
OwnersInv ==
    /\ DOMAIN calls \subseteq CallIds
    /\ DOMAIN orders \subseteq ExternalIds
    /\ \A ext \in DOMAIN orders :
          ext \in posted \/ \E k \in DOMAIN leads : leads[k].ext = ext
    /\ posted \subseteq DOMAIN orders
    /\ contacts \subseteq posted
    /\ \E S : leads \in Seq(S)
    /\ \A k \in DOMAIN leads :
          /\ leads[k].ext \in DOMAIN orders \ contacts
          /\ \E call \in DOMAIN calls : Missed(call) /\ leads[k].ext = LeadId(call)
    /\ \A j, k \in DOMAIN leads : leads[j].ext = leads[k].ext => j = k
    /\ \A call : Missed(call) => \/ HasLead(call) \/ HasNote(call)
                               \/ LeadId(call) \in posted
    /\ \A call : ~(HasLead(call) /\ HasNote(call))

Linked(ext) == ext \in DOMAIN orders /\ orders[ext] # NoId

\* A CRM id that an order has is that of a deal made for it.
CrmInv ==
    /\ deals \in Seq(ExternalIds)
    /\ \A ext : Linked(ext) => orders[ext] \in DOMAIN deals /\ deals[orders[ext]] = ext

\* The note of job i stands at the deal that is known to be its lead's.
NoteIsThere(i) ==
    LET ext == outbox[i].payload.ext
        copies == notes[outbox[i].key[2]]
    IN  Linked(ext) /\ \E n \in DOMAIN copies : copies[n] = orders[ext]

NoteAtLead(call, id) ==
    \E i \in DOMAIN outbox :
        /\ outbox[i].key = NoteKey(call)
        /\ id \in DOMAIN deals /\ deals[id] = outbox[i].payload.ext

NotesInv ==
    /\ notes \in [CallIds -> Seq(Nat)]
    /\ \A call \in CallIds : \A n \in DOMAIN notes[call] :
          NoteAtLead(call, notes[call][n])

DoneInv ==
    \A i \in DOMAIN outbox :
        outbox[i].kind = "note" /\ outbox[i].state = "done" => NoteIsThere(i)

\* A row of ttns; links and code may be anything.
IsRow(row) ==
    row \in [ext : {row.ext}, sd : {row.sd}, code : {row.code}, rank : Nat,
             final : {row.final}, due : {row.due}, old : {row.old}]

\* The copies of a poll may know fewer links than the table, never other ones.
ParcelsInv ==
    /\ DOMAIN ttns \subseteq Numbers
    /\ \A n \in DOMAIN ttns : IsRow(ttns[n])
    /\ turns \in [Numbers -> Nat]
    /\ \A n \in DOMAIN polled :
          /\ n \in DOMAIN ttns
          /\ IsRow(polled[n]) /\ polled[n].rank = ttns[n].rank
          /\ LinkedAs(n, polled[n].sd, polled[n].ext)

\* A message is for the customer that its parcel belongs to, one with a contact.
MessageFits(m) ==
    /\ m.number \in DOMAIN ttns
    /\ m.to \in ExternalIds => ttns[m.number].ext = m.to /\ m.to \in contacts

MessagesInv ==
    /\ \E S : sent \in Seq(S) /\ toSend \in Seq(S)
    /\ poll = "sending" => toSend # <<>>
    /\ \A k \in DOMAIN sent : MessageFits(sent[k])
    /\ \A k \in DOMAIN toSend : MessageFits(toSend[k])

\* A deal has its status from a parcel that is linked to it.
MovedInv ==
    \A id \in DOMAIN funnel :
        /\ id \in DOMAIN deals
        /\ funnel[id].number \in DOMAIN ttns
        /\ \/ ttns[funnel[id].number].sd = id
           \/ ttns[funnel[id].number].ext = deals[id]
        /\ Parcels!Rank(funnel[id].code) <= ttns[funnel[id].number].rank

\* The job at hand: what the worker has asked the CRM for, and what came of it.
SentNote(i) == Linked(Ext(i)) /\ dealId = orders[Ext(i)]
OrdersDeal(i) == dealId \in DOMAIN deals /\ deals[dealId] = Ext(i)

HandInv ==
    \A i \in DOMAIN batch :
        Current(i) =>
           /\ pc = "sent" /\ batch[i].kind = "note" => SentNote(i)
           /\ pc = "executed" /\ batch[i].kind = "note" => NoteIsThere(i)
           /\ pc = "executed" /\ batch[i].kind = "create_order" => OrdersDeal(i)
           /\ pc = "sent" /\ batch[i].kind = "status" /\ dealId # NoId
                 => dealId = batch[i].payload.sd \/ OrdersDeal(i)

BridgeInv ==
    /\ QueueInv /\ JobsInv /\ OwnJobsInv /\ OwnersInv
    /\ CrmInv /\ NotesInv /\ DoneInv
    /\ ParcelsInv /\ MessagesInv /\ MovedInv /\ HandInv

------------------------------------------------------------------------------
(* What every step keeps *)

\* The jobs there are stay about what they are about; there may be more.
OldJobs ==
    /\ DOMAIN outbox \subseteq DOMAIN outbox'
    /\ \A k \in DOMAIN outbox : /\ outbox'[k].key = outbox[k].key
                                /\ outbox'[k].kind = outbox[k].kind
                                /\ outbox'[k].payload = outbox[k].payload

OrdersGrow ==
    /\ DOMAIN orders \subseteq DOMAIN orders'
    /\ \A ext \in DOMAIN orders : orders[ext] # NoId => orders'[ext] = orders[ext]

DealsGrow ==
    /\ DOMAIN deals \subseteq DOMAIN deals'
    /\ \A id \in DOMAIN deals : deals'[id] = deals[id]

NotesGrow ==
    \A c \in CallIds : /\ DOMAIN notes[c] \subseteq DOMAIN notes'[c]
                       /\ \A n \in DOMAIN notes[c] : notes'[c][n] = notes[c][n]

CallsGrow ==
    /\ \A c : Missed(c) => Missed(c)'
    /\ DOMAIN leads \subseteq DOMAIN leads'
    /\ \A k \in DOMAIN leads : leads'[k].ext = leads[k].ext

\* Parcels keep their links and go forward.
RowsGrow ==
    /\ DOMAIN ttns \subseteq DOMAIN ttns'
    /\ \A n \in DOMAIN ttns :
          /\ ttns[n].ext # NoExt => ttns'[n].ext = ttns[n].ext
          /\ ttns[n].sd # NoId => ttns'[n].sd = ttns[n].sd
          /\ ttns'[n].rank \in Nat /\ ttns[n].rank <= ttns'[n].rank

Grow ==
    /\ OldJobs /\ OrdersGrow /\ DealsGrow /\ NotesGrow /\ CallsGrow /\ RowsGrow
    /\ contacts \subseteq contacts'

------------------------------------------------------------------------------
(* What is written into a row of the outbox *)

\* Job i is given state s; nothing else of the outbox that matters here changes.
Rewritten(i, s) ==
    /\ \E S : outbox' \in Seq(S)
    /\ DOMAIN outbox' = DOMAIN outbox
    /\ \A k \in DOMAIN outbox : k # i => outbox'[k] = outbox[k]
    /\ IsJob(outbox'[i])
    /\ outbox'[i].key = outbox[i].key
    /\ outbox'[i].kind = outbox[i].kind
    /\ outbox'[i].payload = outbox[i].payload
    /\ outbox'[i].state = s

Written(i, s, a, d) ==
    outbox' = [outbox EXCEPT ![i] = [@ EXCEPT !.state = s, !.attempts = a,
                                              !.due = d]]

LEMMA WrittenRow ==
    ASSUME QueueInv, NEW i \in DOMAIN outbox,
           NEW s \in JobStates, NEW a \in Nat, NEW d \in BOOLEAN,
           Written(i, s, a, d)
    PROVE  Rewritten(i, s)
<1>1. PICK j, r : /\ j = outbox[i]
                  /\ r = [j EXCEPT !.state = s, !.attempts = a, !.due = d]
  OBVIOUS
<1>2. IsJob(j)
  BY <1>1 DEF QueueInv
<1>3. /\ r.key = j.key /\ r.kind = j.kind /\ r.payload = j.payload
      /\ r.state = s /\ IsJob(r)
  BY ONLY <1>1, <1>2, s \in JobStates, a \in Nat, d \in BOOLEAN DEF IsJob
<1>4. outbox' = [outbox EXCEPT ![i] = r]
  BY <1>1 DEF Written
<1>5. PICK S : outbox \in Seq(S)
  BY DEF QueueInv
<1>6. PICK T : T = S \cup {r}
  OBVIOUS
<1>7. outbox \in Seq(T) /\ r \in T
  BY <1>5, <1>6
<1>8. outbox' \in Seq(T) /\ DOMAIN outbox' = DOMAIN outbox
  BY <1>4, <1>7
<1>9. \A k \in DOMAIN outbox : outbox'[k] = IF k = i THEN r ELSE outbox[k]
  BY <1>4, <1>5
<1>10. outbox'[i] = r
  BY <1>9
<1>. QED
  BY <1>1, <1>3, <1>8, <1>9, <1>10 DEF Rewritten

\* The worker's copy of a job is its row, pending and due.
LEMMA InBatch ==
    ASSUME QueueInv, NEW i \in DOMAIN batch
    PROVE  /\ i \in DOMAIN outbox /\ i \in Nat
           /\ batch[i] = outbox[i] /\ IsJob(outbox[i])
           /\ outbox[i].state = "pending" /\ outbox[i].due
           /\ outbox[i].due \in BOOLEAN /\ outbox[i].attempts \in Nat
<1>1. PICK S : outbox \in Seq(S)
  BY DEF QueueInv
<1>2. i \in DOMAIN outbox /\ i \in Nat
  BY <1>1 DEF QueueInv
<1>3. batch[i] = outbox[i] /\ IsDue(outbox[i]) /\ IsJob(outbox[i])
  BY <1>2 DEF QueueInv, BatchFresh
<1>. QED
  BY <1>2, <1>3 DEF IsDue, IsJob

\* Only one job is at hand.
LEMMA OneAtHand ==
    ASSUME QueueInv, NEW i, NEW j, Current(i), Current(j)
    PROVE  i = j
<1>1. i \in DOMAIN batch /\ j \in DOMAIN batch /\ i <= j /\ j <= i
  BY DEF Current
<1>2. i \in Nat /\ j \in Nat
  BY <1>1, InBatch
<1>. QED
  BY <1>1, <1>2

\* The outcome of a job is written to its row.
LEMMA CopyWritten ==
    ASSUME QueueInv, NEW i \in DOMAIN batch, NEW r, IsJob(r),
           outbox' = UpdateJob(outbox, i, r)
    PROVE  Rewritten(i, r.state)
<1>1. i \in DOMAIN outbox
  BY InBatch
<1>2. r.state \in JobStates /\ r.attempts \in Nat /\ r.due \in BOOLEAN
  BY DEF IsJob
<1>3. Written(i, r.state, r.attempts, r.due)
  BY DEF UpdateJob, Written
<1>. QED
  BY <1>1, <1>2, <1>3, WrittenRow

LEMMA Copies ==
    ASSUME NEW j, IsJob(j)
    PROVE  /\ \A s \in JobStates : /\ IsJob([j EXCEPT !.state = s])
                                   /\ [j EXCEPT !.state = s].state = s
           /\ IsJob([j EXCEPT !.due = FALSE])
           /\ [j EXCEPT !.due = FALSE].state = j.state
           /\ IsJob([j EXCEPT !.attempts = @ + 1])
           /\ [j EXCEPT !.attempts = @ + 1].state = j.state
<1>1. ASSUME NEW s \in JobStates
      PROVE  IsJob([j EXCEPT !.state = s]) /\ [j EXCEPT !.state = s].state = s
  <2>1. PICK r : r = [j EXCEPT !.state = s]
    OBVIOUS
  <2>2. IsJob(r) /\ r.state = s
    BY <2>1 DEF IsJob
  <2>. QED
    BY <2>1, <2>2
<1>2. IsJob([j EXCEPT !.due = FALSE]) /\ [j EXCEPT !.due = FALSE].state = j.state
  <2>1. PICK r : r = [j EXCEPT !.due = FALSE]
    OBVIOUS
  <2>2. IsJob(r) /\ r.state = j.state
    BY <2>1 DEF IsJob
  <2>. QED
    BY <2>1, <2>2
<1>3. /\ IsJob([j EXCEPT !.attempts = @ + 1])
      /\ [j EXCEPT !.attempts = @ + 1].state = j.state
  <2>1. PICK r : r = [j EXCEPT !.attempts = @ + 1]
    OBVIOUS
  <2>2. IsJob(r) /\ r.state = j.state
    BY <2>1 DEF IsJob
  <2>. QED
    BY <2>1, <2>2
<1>. QED
  BY <1>1, <1>2, <1>3

\* The worker has stepped job i and is on to the next.
Outcome(i, s) == Current(i) /\ Rewritten(i, s) /\ Advance(i)

LEMMA FinishWrites ==
    ASSUME QueueInv, NEW i, Current(i), Finish(i)
    PROVE  Outcome(i, "done")
<1>1. i \in DOMAIN batch
  BY DEF Current
<1>2. IsJob(batch[i])
  BY <1>1, InBatch
<1>3. PICK r : r = [batch[i] EXCEPT !.state = "done"]
  OBVIOUS
<1>4. IsJob(r) /\ r.state = "done"
  BY <1>2, <1>3, Copies DEF JobStates
<1>5. Rewritten(i, r.state)
  BY <1>1, <1>3, <1>4, CopyWritten DEF Finish
<1>. QED
  BY <1>4, <1>5 DEF Outcome, Finish

LEMMA FailWrites ==
    ASSUME QueueInv, NEW i, Current(i), Fail(i)
    PROVE  Outcome(i, "failed")
<1>1. i \in DOMAIN batch
  BY DEF Current
<1>2. IsJob(batch[i])
  BY <1>1, InBatch
<1>3. PICK r : r = [batch[i] EXCEPT !.state = "failed"]
  OBVIOUS
<1>4. IsJob(r) /\ r.state = "failed"
  BY <1>2, <1>3, Copies DEF JobStates
<1>5. Rewritten(i, r.state)
  BY <1>1, <1>3, <1>4, CopyWritten DEF Fail
<1>. QED
  BY <1>4, <1>5 DEF Outcome, Fail

LEMMA WaitWrites ==
    ASSUME QueueInv, NEW i, Current(i), Advance(i),
           outbox' = UpdateJob(outbox, i, [batch[i] EXCEPT !.due = FALSE])
    PROVE  Outcome(i, "pending")
<1>1. i \in DOMAIN batch
  BY DEF Current
<1>2. IsJob(batch[i]) /\ batch[i].state = "pending"
  BY <1>1, InBatch
<1>3. PICK r : r = [batch[i] EXCEPT !.due = FALSE]
  OBVIOUS
<1>4. IsJob(r) /\ r.state = "pending"
  BY <1>2, <1>3, Copies
<1>5. Rewritten(i, r.state)
  BY <1>1, <1>3, <1>4, CopyWritten
<1>. QED
  BY <1>4, <1>5 DEF Outcome

LEMMA RetryWrites ==
    ASSUME QueueInv, NEW i, Current(i), Retry(i)
    PROVE  Outcome(i, "pending") \/ Outcome(i, "failed")
<1>1. i \in DOMAIN batch
  BY DEF Current
<1>2. IsJob(batch[i]) /\ batch[i].state = "pending"
  BY <1>1, InBatch
<1>3. PICK t : t = [batch[i] EXCEPT !.attempts = @ + 1]
  OBVIOUS
<1>4. IsJob(t) /\ t.state = "pending"
  BY <1>2, <1>3, Copies
<1>5. PICK f, w : f = [t EXCEPT !.state = "failed"] /\ w = [t EXCEPT !.due = FALSE]
  OBVIOUS
<1>6. IsJob(f) /\ f.state = "failed" /\ IsJob(w) /\ w.state = "pending"
  BY <1>4, <1>5, Copies DEF JobStates
<1>7. Advance(i) /\ \E r \in {f, w} : outbox' = UpdateJob(outbox, i, r)
  BY <1>3, <1>5 DEF Retry
<1>8. PICK r \in {f, w} : outbox' = UpdateJob(outbox, i, r)
  BY <1>7
<1>9. Rewritten(i, r.state)
  BY <1>1, <1>6, <1>8, CopyWritten
<1>. QED
  BY <1>6, <1>7, <1>9 DEF Outcome

\* A requeue and the clock touch rows that are not in the batch.
LEMMA RowWrites ==
    ASSUME QueueInv, NEW i \in DOMAIN outbox, Requeue(i) \/ BackoffElapses(i)
    PROVE  \/ outbox' = outbox
           \/ i \notin DOMAIN batch /\ Rewritten(i, "pending")
<1>1. CASE Requeue(i) /\ outbox[i].state # "failed"
  BY <1>1 DEF Requeue, RequeueJob
<1>2. CASE Requeue(i) /\ outbox[i].state = "failed"
  <2>1. Written(i, "pending", 0, TRUE)
    BY <1>2 DEF Requeue, RequeueJob, Written
  <2>2. i \notin DOMAIN batch
    BY <1>2, InBatch
  <2>. QED
    BY <2>1, <2>2, WrittenRow DEF JobStates
<1>3. CASE BackoffElapses(i)
  <2>1. IsJob(outbox[i])
    BY DEF QueueInv
  <2>2. outbox[i].attempts \in Nat /\ outbox[i].state = "pending" /\ ~outbox[i].due
    BY <1>3, <2>1 DEF IsJob, BackoffElapses
  <2>3. Written(i, "pending", outbox[i].attempts, TRUE)
    BY <1>3, <2>1, <2>2 DEF BackoffElapses, Written, IsJob
  <2>4. i \notin DOMAIN batch
    BY <2>2, InBatch
  <2>. QED
    BY <2>2, <2>3, <2>4, WrittenRow DEF JobStates
<1>. QED
  BY <1>1, <1>2, <1>3

------------------------------------------------------------------------------
(* What is said of the old stays true as tables grow *)

LEMMA RankNat == ASSUME NEW code PROVE Parcels!Rank(code) \in Nat
  BY DEF Parcels!Rank

\* A link, once known, is kept.
LEMMA LinkedStays ==
    ASSUME RowsGrow, NEW n \in DOMAIN ttns, NEW sd, NEW ext, LinkedAs(n, sd, ext)
    PROVE  LinkedAs(n, sd, ext)'
  BY DEF LinkedAs, RowsGrow

LEMMA OldJobsStay ==
    ASSUME JobsInv, ParcelsInv, Grow, NEW i \in DOMAIN outbox
    PROVE  CreateJob(i)' \/ NoteJob(i)' \/ StatusJob(i)'
<1>1. /\ i \in DOMAIN outbox' /\ outbox'[i].key = outbox[i].key
      /\ outbox'[i].kind = outbox[i].kind /\ outbox'[i].payload = outbox[i].payload
  BY DEF Grow, OldJobs
<1>2. CASE CreateJob(i)
  BY <1>1, <1>2 DEF CreateJob, Grow, OrdersGrow
<1>3. CASE NoteJob(i)
  BY <1>1, <1>3 DEF NoteJob, Grow, CallsGrow
<1>4. CASE StatusJob(i)
  <2>1. PICK data : data = outbox[i].payload
    OBVIOUS
  <2>2. PICK n \in DOMAIN ttns : /\ outbox[i].key = StatusKey(n, data.status)
                                 /\ LinkedAs(n, data.sd, data.ext)
                                 /\ Parcels!Rank(data.status) <= ttns[n].rank
    BY <1>4, <2>1 DEF StatusJob
  <2>3. /\ n \in DOMAIN ttns' /\ ttns'[n].rank \in Nat
        /\ ttns[n].rank \in Nat /\ ttns[n].rank <= ttns'[n].rank
    BY DEF Grow, RowsGrow, ParcelsInv, IsRow
  <2>4. LinkedAs(n, data.sd, data.ext)'
    BY <2>2, LinkedStays DEF Grow
  <2>5. Parcels!Rank(data.status) <= ttns'[n].rank
    BY <2>2, <2>3, RankNat
  <2>. QED
    BY <1>1, <1>4, <2>1, <2>2, <2>3, <2>4, <2>5 DEF StatusJob
<1>. QED
  BY <1>2, <1>3, <1>4 DEF JobsInv

\* The key of a job says of what kind it is.
LEMMA KeysAndKinds ==
    ASSUME JobsInv, NEW i \in DOMAIN outbox
    PROVE  /\ outbox[i].kind = "create_order" =>
                 CreateJob(i) /\ \A c : outbox[i].key # NoteKey(c)
           /\ outbox[i].kind = "note" =>
                 /\ NoteJob(i) /\ outbox[i].key[2] \in CallIds
                 /\ Missed(outbox[i].key[2])
                 /\ outbox[i].key = NoteKey(outbox[i].key[2])
                 /\ \A e : outbox[i].key # CreateKey(e)
           /\ outbox[i].kind = "status" =>
                 /\ StatusJob(i)
                 /\ \A c : outbox[i].key # NoteKey(c)
                 /\ \A e : outbox[i].key # CreateKey(e)
           /\ outbox[i].kind \in {"create_order", "note", "status"}
<1>1. CreateJob(i) \/ NoteJob(i) \/ StatusJob(i)
  BY DEF JobsInv
<1>2. CASE CreateJob(i)
  BY <1>2 DEF CreateJob, CreateKey, NoteKey
<1>3. CASE NoteJob(i)
  BY <1>3 DEF NoteJob, CreateKey, NoteKey
<1>4. CASE StatusJob(i)
  BY <1>4 DEF StatusJob, CreateKey, NoteKey, StatusKey
<1>. QED
  BY <1>1, <1>2, <1>3, <1>4

\* A note that is there stays there, at the deal that stays the lead's.
LEMMA ThereStays ==
    ASSUME JobsInv, Grow, NEW i \in DOMAIN outbox, outbox[i].kind = "note",
           NoteIsThere(i)
    PROVE  NoteIsThere(i)'
<1>1. outbox[i].key[2] \in CallIds
  BY KeysAndKinds
<1>. QED
  BY <1>1 DEF NoteIsThere, Linked, Grow, OldJobs, OrdersGrow, NotesGrow

LEMMA AtLeadStays ==
    ASSUME Grow, NEW call, NEW id, NoteAtLead(call, id)
    PROVE  NoteAtLead(call, id)'
  BY DEF NoteAtLead, Grow, OldJobs, DealsGrow

LEMMA MessageStays ==
    ASSUME Grow, NEW m, MessageFits(m)
    PROVE  MessageFits(m)'
<1>1. CASE m.to \in ExternalIds
  <2>1. m.to # NoExt
    BY <1>1, PartsAssumption DEF Parcels!TrackingAssumption
  <2>. QED
    BY <1>1, <2>1 DEF MessageFits, Grow, RowsGrow
<1>2. CASE m.to \notin ExternalIds
  BY <1>2 DEF MessageFits, Grow, RowsGrow
<1>. QED
  BY <1>1, <1>2

\* A deal has an id, and its order is one that the bridge may have.
LEMMA DealIds ==
    ASSUME CrmInv, NEW id \in DOMAIN deals
    PROVE  id \in Nat /\ id # NoId /\ deals[id] \in ExternalIds /\ deals[id] # NoExt
<1>1. deals \in Seq(ExternalIds)
  BY DEF CrmInv
<1>. QED
  BY <1>1, PartsAssumption DEF NoId, Parcels!TrackingAssumption

\* A parcel that has moved a deal stays linked to it.
OwnParcel(id, n, code) ==
    /\ id \in DOMAIN deals /\ n \in DOMAIN ttns
    /\ ttns[n].sd = id \/ ttns[n].ext = deals[id]
    /\ Parcels!Rank(code) <= ttns[n].rank

LEMMA OwnParcelStays ==
    ASSUME CrmInv, ParcelsInv, Grow, NEW id, NEW n, NEW code, OwnParcel(id, n, code)
    PROVE  OwnParcel(id, n, code)'
<1>1. id # NoId /\ deals[id] # NoExt
  BY DealIds DEF OwnParcel
<1>2. ttns[n].rank \in Nat /\ Parcels!Rank(code) \in Nat
  BY RankNat DEF OwnParcel, ParcelsInv, IsRow
<1>. QED
  BY <1>1, <1>2 DEF OwnParcel, Grow, RowsGrow, DealsGrow

LEMMA MovedMeans == MovedInv <=> \A id \in DOMAIN funnel :
                                    OwnParcel(id, funnel[id].number, funnel[id].code)
  BY DEF MovedInv, OwnParcel

LEMMA MovedStays ==
    ASSUME CrmInv, ParcelsInv, MovedInv, Grow, UNCHANGED funnel
    PROVE  MovedInv'
<1>1. ASSUME NEW id \in DOMAIN funnel
      PROVE  OwnParcel(id, funnel[id].number, funnel[id].code)'
  <2>1. PICK n, code : n = funnel[id].number /\ code = funnel[id].code
    OBVIOUS
  <2>2. OwnParcel(id, n, code)
    BY <2>1, MovedMeans
  <2>3. OwnParcel(id, n, code)'
    BY <2>2, OwnParcelStays
  <2>. QED
    BY <2>1, <2>3 DEF OwnParcel
<1>. QED
  BY <1>1 DEF OwnParcel, MovedInv

\* What the worker has under way stays right as others go on.
LEMMA HandStays ==
    ASSUME QueueInv, JobsInv, CrmInv, HandInv, Grow, UNCHANGED <<batch, pc, dealId>>
    PROVE  HandInv'
<1> SUFFICES ASSUME NEW i \in DOMAIN batch, Current(i)
             PROVE  /\ pc = "sent" /\ batch[i].kind = "note" => SentNote(i)'
                    /\ pc = "executed" /\ batch[i].kind = "note" => NoteIsThere(i)'
                    /\ pc = "executed" /\ batch[i].kind = "create_order"
                          => OrdersDeal(i)'
                    /\ pc = "sent" /\ batch[i].kind = "status" /\ dealId # NoId
                          => dealId = batch[i].payload.sd \/ OrdersDeal(i)'
  BY DEF HandInv, Current
<1>1. i \in DOMAIN outbox /\ batch[i] = outbox[i]
  BY InBatch
<1>2. SentNote(i) => SentNote(i)'
  BY DEF SentNote, Linked, Ext, Grow, OrdersGrow
<1>3. OrdersDeal(i) => OrdersDeal(i)'
  BY DEF OrdersDeal, Ext, Grow, DealsGrow
<1>4. batch[i].kind = "note" /\ NoteIsThere(i) => NoteIsThere(i)'
  BY <1>1, ThereStays
<1>. QED
  BY <1>2, <1>3, <1>4 DEF HandInv

LEMMA HandFree == ASSUME pc' \notin {"sent", "executed"} PROVE HandInv'
  BY DEF HandInv

------------------------------------------------------------------------------
(* What steps do to the outbox and the batch *)

\* Jobs are added, and nothing else changes.
Added ==
    /\ UNCHANGED <<batch, pc, dealId>>
    /\ \E S : outbox' \in Seq(S)
    /\ DOMAIN outbox \subseteq DOMAIN outbox'
    /\ \A k \in DOMAIN outbox : outbox'[k] = outbox[k]
    /\ \A k \in DOMAIN outbox' \ DOMAIN outbox :
          IsJob(outbox'[k]) /\ outbox'[k].state = "pending"

\* A job is stepped; a note counts as done only after the CRM has added it.
Stepped ==
    \E i, s : /\ Outcome(i, s)
              /\ s = "done" /\ outbox[i].kind = "note" => pc = "executed"

\* What is done but for adding jobs.
QueueStep ==
    \/ outbox' = outbox /\ (batch' = batch \/ batch' = <<>>)
    \/ batch' = batch /\ \E i \in DOMAIN outbox \ DOMAIN batch : Rewritten(i, "pending")
    \/ Stepped
    \/ ProcessOnce

LEMMA RowKept ==
    ASSUME QueueInv, NEW i \in DOMAIN outbox, NEW s, Rewritten(i, s)
    PROVE  /\ \E S : outbox' \in Seq(S)
           /\ \A k \in DOMAIN outbox' : IsJob(outbox'[k])
           /\ OldJobs /\ DOMAIN outbox' = DOMAIN outbox
           /\ \A k \in DOMAIN outbox :
                 outbox'[k].state = "done" =>
                    outbox[k].state = "done" \/ (k = i /\ s = "done")
<1>1. \A k \in DOMAIN outbox : k # i => outbox'[k] = outbox[k]
  BY DEF Rewritten
<1>2. \A k \in DOMAIN outbox' : IsJob(outbox'[k])
  <2>1. ASSUME NEW k \in DOMAIN outbox' PROVE IsJob(outbox'[k])
    <3>1. CASE k = i
      BY <3>1 DEF Rewritten
    <3>2. CASE k # i
      <4>1. outbox'[k] = outbox[k] /\ IsJob(outbox[k])
        BY <1>1, <2>1, <3>2 DEF Rewritten, QueueInv
      <4>. QED
        BY <4>1
    <3>. QED
      BY <3>1, <3>2
  <2>. QED
    BY <2>1
<1>3. OldJobs
  BY DEF Rewritten, OldJobs
<1>. QED
  BY <1>1, <1>2, <1>3 DEF Rewritten

LEMMA QueueKept ==
    ASSUME QueueInv, QueueStep \/ Added
    PROVE  /\ QueueInv' /\ OldJobs
           /\ QueueStep => DOMAIN outbox' = DOMAIN outbox
           /\ \A k \in DOMAIN outbox' :
                 outbox'[k].state = "done" =>
                    /\ k \in DOMAIN outbox
                    /\ \/ outbox[k].state = "done"
                       \/ /\ k \in DOMAIN batch /\ Current(k)
                          /\ outbox[k].kind = "note" => pc = "executed"
<1> DEFINE DoneBefore ==
             \A k \in DOMAIN outbox' :
                outbox'[k].state = "done" =>
                   /\ k \in DOMAIN outbox
                   /\ \/ outbox[k].state = "done"
                      \/ /\ k \in DOMAIN batch /\ Current(k)
                         /\ outbox[k].kind = "note" => pc = "executed"
<1>1. ASSUME outbox' = outbox, batch' = batch \/ batch' = <<>>
      PROVE  QueueInv' /\ OldJobs /\ DOMAIN outbox' = DOMAIN outbox /\ DoneBefore
  <2>1. QueueInv'
    BY <1>1 DEF QueueInv, BatchFresh
  <2>. QED
    BY <1>1, <2>1 DEF OldJobs
<1>2. ASSUME batch' = batch, NEW i \in DOMAIN outbox, i \notin DOMAIN batch,
             Rewritten(i, "pending")
      PROVE  QueueInv' /\ OldJobs /\ DOMAIN outbox' = DOMAIN outbox /\ DoneBefore
  <2>1. /\ \E S : outbox' \in Seq(S)
        /\ \A k \in DOMAIN outbox' : IsJob(outbox'[k])
        /\ OldJobs /\ DOMAIN outbox' = DOMAIN outbox
        /\ \A k \in DOMAIN outbox :
              outbox'[k].state = "done" => outbox[k].state = "done"
    BY <1>2, RowKept
  <2>2. \A k \in DOMAIN batch : outbox'[k] = outbox[k]
    BY <1>2 DEF Rewritten, QueueInv
  <2>3. BatchFresh'
    BY <1>2, <2>2 DEF QueueInv, BatchFresh
  <2>. QED
    BY <1>2, <2>1, <2>3 DEF QueueInv
<1>3. ASSUME Stepped
      PROVE  QueueInv' /\ OldJobs /\ DOMAIN outbox' = DOMAIN outbox /\ DoneBefore
  <2>1. PICK i, s : /\ Outcome(i, s)
                    /\ s = "done" /\ outbox[i].kind = "note" => pc = "executed"
    BY <1>3 DEF Stepped
  <2>2. i \in DOMAIN batch /\ i \in DOMAIN outbox /\ Current(i) /\ Rewritten(i, s)
    BY <2>1, InBatch DEF Outcome, Current
  <2>3. /\ \E S : outbox' \in Seq(S)
        /\ \A k \in DOMAIN outbox' : IsJob(outbox'[k])
        /\ OldJobs /\ DOMAIN outbox' = DOMAIN outbox
        /\ \A k \in DOMAIN outbox :
              outbox'[k].state = "done" =>
                 outbox[k].state = "done" \/ (k = i /\ s = "done")
    BY <2>2, RowKept
  <2>4. batch' = [k \in DOMAIN batch \ {i} |-> batch[k]]
    BY <2>1 DEF Outcome, Advance
  <2>5. \A k \in DOMAIN batch' : /\ k \in DOMAIN batch /\ batch'[k] = batch[k]
                                 /\ outbox'[k] = outbox[k]
    BY <2>2, <2>4 DEF Rewritten, QueueInv
  <2>6. BatchFresh'
    BY <2>5 DEF QueueInv, BatchFresh
  <2>7. DOMAIN batch' \subseteq DOMAIN outbox'
    BY <2>3, <2>5 DEF QueueInv
  <2>8. QueueInv'
    BY <2>3, <2>6, <2>7 DEF QueueInv
  <2>9. DoneBefore
    BY <2>1, <2>2, <2>3
  <2>. QED
    BY <2>3, <2>8, <2>9
<1>4. ASSUME ProcessOnce
      PROVE  QueueInv' /\ OldJobs /\ DOMAIN outbox' = DOMAIN outbox /\ DoneBefore
  <2>1. /\ outbox' = outbox
        /\ batch' = [i \in DueJobs(outbox, BatchLimit) |-> outbox[i]]
    BY <1>4 DEF ProcessOnce
  <2>2. \A i \in DueJobs(outbox, BatchLimit) : i \in DOMAIN outbox /\ IsDue(outbox[i])
    BY DEF DueJobs
  <2>3. BatchFresh' /\ DOMAIN batch' \subseteq DOMAIN outbox'
    BY <2>1, <2>2 DEF BatchFresh
  <2>. QED
    BY <2>1, <2>3 DEF QueueInv, OldJobs
<1>5. ASSUME Added PROVE QueueInv' /\ OldJobs /\ DoneBefore
  <2>1. OldJobs
    BY <1>5 DEF Added, OldJobs
  <2>2. \A k \in DOMAIN outbox' : IsJob(outbox'[k])
    <3>1. ASSUME NEW k \in DOMAIN outbox' PROVE IsJob(outbox'[k])
      <4>1. CASE k \in DOMAIN outbox
        <5>1. outbox'[k] = outbox[k] /\ IsJob(outbox[k])
          BY <1>5, <4>1 DEF Added, QueueInv
        <5>. QED
          BY <5>1
      <4>2. CASE k \notin DOMAIN outbox
        BY <1>5, <3>1, <4>2 DEF Added
      <4>. QED
        BY <4>1, <4>2
    <3>. QED
      BY <3>1
  <2>3. BatchFresh' /\ DOMAIN batch' \subseteq DOMAIN outbox'
    BY <1>5 DEF Added, QueueInv, BatchFresh
  <2>4. DoneBefore
    BY <1>5 DEF Added
  <2>. QED
    BY <1>5, <2>1, <2>2, <2>3, <2>4 DEF Added, QueueInv
<1>. HIDE DEF DoneBefore
<1>6. ASSUME QueueStep
      PROVE  QueueInv' /\ OldJobs /\ DOMAIN outbox' = DOMAIN outbox /\ DoneBefore
  BY <1>1, <1>2, <1>3, <1>4, <1>6 DEF QueueStep
<1>7. /\ QueueInv' /\ OldJobs /\ DoneBefore
      /\ QueueStep => DOMAIN outbox' = DOMAIN outbox
  BY <1>5, <1>6
<1>. QED
  BY <1>7 DEF DoneBefore

\* A note that comes to count as done is there, and those done before stay.
LEMMA DoneKept ==
    ASSUME QueueInv, JobsInv, HandInv, DoneInv, QueueStep \/ Added, Grow
    PROVE  DoneInv'
<1>1. ASSUME NEW k \in DOMAIN outbox', outbox'[k].kind = "note",
             outbox'[k].state = "done"
      PROVE  NoteIsThere(k)'
  <2>1. /\ k \in DOMAIN outbox
        /\ \/ outbox[k].state = "done"
           \/ /\ k \in DOMAIN batch /\ Current(k)
              /\ outbox[k].kind = "note" => pc = "executed"
    BY <1>1, QueueKept
  <2>2. outbox[k].kind = "note"
    BY <1>1, <2>1 DEF Grow, OldJobs
  <2>3. NoteIsThere(k)
    <3>1. CASE outbox[k].state = "done"
      BY <2>1, <2>2, <3>1 DEF DoneInv
    <3>2. CASE k \in DOMAIN batch /\ Current(k) /\ pc = "executed"
      <4>1. batch[k] = outbox[k]
        BY <3>2, InBatch
      <4>. QED
        BY <2>2, <3>2, <4>1 DEF HandInv
    <3>. QED
      BY <2>1, <2>2, <3>1, <3>2
  <2>. QED
    BY <2>1, <2>2, <2>3, ThereStays
<1>. QED
  BY <1>1 DEF DoneInv

\* Without new jobs, orders or calls all of them belong together as before.
LEMMA OwnersKept ==
    ASSUME OwnJobsInv, OwnersInv, OldJobs, DOMAIN outbox' = DOMAIN outbox,
           DOMAIN orders' = DOMAIN orders,
           UNCHANGED <<calls, leads, posted, contacts>>
    PROVE  OwnJobsInv' /\ OwnersInv'
<1>1. \A key : HasKey(outbox, key)' <=> HasKey(outbox, key)
  BY DEF OldJobs, HasKey
<1>2. OwnJobsInv'
  BY <1>1 DEF OwnJobsInv, OldJobs, HasKey
<1>3. \A call : /\ Missed(call)' <=> Missed(call)
                /\ HasLead(call)' <=> HasLead(call)
                /\ HasNote(call)' <=> HasNote(call)
  BY <1>1 DEF Missed, HasLead, HasNote
<1>. QED
  BY <1>2, <1>3 DEF OwnersInv

------------------------------------------------------------------------------
(* What steps do to the orders and the deals *)

Linking ==
    \/ orders' = orders
    \/ \E id \in DOMAIN deals : orders' = SetSDOrderID(orders, deals[id], id)

Making == deals' = deals \/ \E ext \in ExternalIds : deals' = Append(deals, ext)

LEMMA DealsMade ==
    ASSUME CrmInv, Making
    PROVE  DealsGrow /\ deals' \in Seq(ExternalIds)
<1>1. deals \in Seq(ExternalIds)
  BY DEF CrmInv
<1>2. CASE deals' = deals
  BY <1>1, <1>2 DEF DealsGrow
<1>3. ASSUME NEW ext \in ExternalIds, deals' = Append(deals, ext)
      PROVE  DealsGrow /\ deals' \in Seq(ExternalIds)
  BY <1>1, <1>3 DEF DealsGrow
<1>. QED
  BY <1>2, <1>3 DEF Making

LEMMA CrmKept ==
    ASSUME CrmInv, Making,
           Linking \/ \E ext \in ExternalIds : orders' = InsertOrder(orders, ext)
    PROVE  CrmInv' /\ OrdersGrow /\ (Linking => DOMAIN orders' = DOMAIN orders)
<1>1. DealsGrow /\ deals' \in Seq(ExternalIds)
  BY DealsMade
<1>2. CASE orders' = orders
  <2>1. OrdersGrow
    BY <1>2 DEF OrdersGrow
  <2>. QED
    BY <1>1, <1>2, <2>1 DEF CrmInv, Linked, DealsGrow
<1>3. ASSUME NEW id \in DOMAIN deals, orders' = SetSDOrderID(orders, deals[id], id)
      PROVE  CrmInv' /\ OrdersGrow /\ DOMAIN orders' = DOMAIN orders
  <2>1. OrdersGrow /\ DOMAIN orders' = DOMAIN orders
    BY <1>3 DEF OrdersGrow, SetSDOrderID
  <2>2. ASSUME NEW ext, Linked(ext)'
        PROVE  orders'[ext] \in DOMAIN deals' /\ deals'[orders'[ext]] = ext
    BY <1>1, <1>3, <2>1, <2>2 DEF SetSDOrderID, Linked, CrmInv, DealsGrow
  <2>. QED
    BY <1>1, <2>1, <2>2 DEF CrmInv
<1>4. ASSUME NEW ext \in ExternalIds, orders' = InsertOrder(orders, ext)
      PROVE  CrmInv' /\ OrdersGrow
  <2>1. OrdersGrow
    BY <1>4 DEF OrdersGrow, InsertOrder
  <2>2. \A x : Linked(x)' => Linked(x) /\ orders'[x] = orders[x]
    BY <1>4 DEF InsertOrder, Linked
  <2>. QED
    BY <1>1, <2>1, <2>2 DEF CrmInv, DealsGrow
<1>5. Linking => CrmInv' /\ OrdersGrow /\ DOMAIN orders' = DOMAIN orders
  BY <1>2, <1>3 DEF Linking
<1>. QED
  BY <1>4, <1>5

------------------------------------------------------------------------------
(* What steps do to the parcels *)

RowsTyped ==
    /\ DOMAIN ttns \subseteq Numbers
    /\ \A n \in DOMAIN ttns : IsRow(ttns[n])

\* What is done to the table ttns but for a poll's second transaction.
RowsStep ==
    \/ ttns' = ttns
    \/ \E n \in Numbers : \E ext, id : ttns' = Parcels!AddTTN(ttns, n, ext, id)
    \/ \E n \in DOMAIN ttns :
          \/ ttns' = [ttns EXCEPT ![n].due = TRUE]
          \/ ttns' = [ttns EXCEPT ![n].old = TRUE]

\* A row with its links filled in, or with the passing of time noted.
LEMMA RowFilled ==
    ASSUME NEW n \in DOMAIN ttns, ParcelsInv, NEW r,
           \/ \E e, s : /\ r = [[ttns[n] EXCEPT !.ext = e] EXCEPT !.sd = s]
                        /\ ttns[n].ext # NoExt => e = ttns[n].ext
                        /\ ttns[n].sd # NoId => s = ttns[n].sd
           \/ r = [ttns[n] EXCEPT !.due = TRUE]
           \/ r = [ttns[n] EXCEPT !.old = TRUE],
           ttns' = [ttns EXCEPT ![n] = r]
    PROVE  /\ RowsGrow /\ RowsTyped'
           /\ \A m \in DOMAIN ttns : ttns'[m].rank = ttns[m].rank
<1>1. PICK x : x = ttns[n]
  OBVIOUS
<1>2. IsRow(x)
  BY <1>1 DEF ParcelsInv
<1>3. /\ IsRow(r) /\ r.rank = x.rank /\ x.rank \in Nat
      /\ x.ext # NoExt => r.ext = x.ext
      /\ x.sd # NoId => r.sd = x.sd
  <2>1. CASE \E e, s : /\ r = [[x EXCEPT !.ext = e] EXCEPT !.sd = s]
                       /\ x.ext # NoExt => e = x.ext
                       /\ x.sd # NoId => s = x.sd
    BY <1>2, <2>1 DEF IsRow
  <2>2. CASE r = [x EXCEPT !.due = TRUE] \/ r = [x EXCEPT !.old = TRUE]
    BY <1>2, <2>2 DEF IsRow
  <2>. QED
    BY <1>1, <2>1, <2>2
<1>4. /\ DOMAIN ttns' = DOMAIN ttns
      /\ \A m \in DOMAIN ttns : ttns'[m] = IF m = n THEN r ELSE ttns[m]
  OBVIOUS
<1>5. \A m \in DOMAIN ttns : IsRow(ttns[m]) /\ ttns[m].rank \in Nat
  BY DEF ParcelsInv, IsRow
<1>6. ASSUME NEW m \in DOMAIN ttns
      PROVE  /\ IsRow(ttns'[m])
             /\ ttns[m].ext # NoExt => ttns'[m].ext = ttns[m].ext
             /\ ttns[m].sd # NoId => ttns'[m].sd = ttns[m].sd
             /\ ttns'[m].rank \in Nat /\ ttns'[m].rank = ttns[m].rank
  <2>1. CASE m = n
    <3>1. ttns'[m] = r
      BY <1>4, <2>1
    <3>. QED
      BY <1>1, <1>3, <2>1, <3>1
  <2>2. CASE m # n
    <3>1. ttns'[m] = ttns[m]
      BY <1>4, <2>2
    <3>. QED
      BY <1>5, <3>1
  <2>. QED
    BY <2>1, <2>2
<1>7. RowsTyped'
  <2>1. PICK t : t = ttns'
    OBVIOUS
  <2>2. \A m \in DOMAIN t : IsRow(t[m])
    BY <1>4, <1>6, <2>1
  <2>3. DOMAIN t \subseteq Numbers
    BY <1>4, <2>1 DEF ParcelsInv
  <2>. QED
    BY <2>1, <2>2, <2>3 DEF RowsTyped
<1>8. ASSUME NEW m \in DOMAIN ttns
      PROVE  ttns'[m].rank \in Nat /\ ttns[m].rank <= ttns'[m].rank
  <2>1. PICK j, k : j = ttns[m].rank /\ k = ttns'[m].rank
    OBVIOUS
  <2>2. j \in Nat /\ k \in Nat /\ j = k
    BY <1>5, <1>6, <2>1
  <2>3. j <= k
    BY ONLY <2>2
  <2>. QED
    BY <2>1, <2>2, <2>3
<1>. QED
  BY <1>4, <1>6, <1>7, <1>8 DEF RowsGrow

LEMMA RowsKept ==
    ASSUME ParcelsInv, RowsStep
    PROVE  /\ RowsGrow /\ RowsTyped'
           /\ \A m \in DOMAIN ttns : ttns'[m].rank = ttns[m].rank
<1>1. \A m \in DOMAIN ttns : IsRow(ttns[m]) /\ ttns[m].rank \in Nat
  BY DEF ParcelsInv, IsRow
<1>2. CASE ttns' = ttns
  BY <1>1, <1>2 DEF RowsGrow, RowsTyped, ParcelsInv
<1>3. ASSUME NEW n \in Numbers, NEW ext, NEW id,
             ttns' = Parcels!AddTTN(ttns, n, ext, id), n \in DOMAIN ttns
      PROVE  /\ RowsGrow /\ RowsTyped'
             /\ \A m \in DOMAIN ttns : ttns'[m].rank = ttns[m].rank
  <2>1. PICK e, s : /\ e = IF ttns[n].ext = NoExt THEN ext ELSE ttns[n].ext
                    /\ s = IF ttns[n].sd = NoId THEN id ELSE ttns[n].sd
    OBVIOUS
  <2>2. PICK r : r = [[ttns[n] EXCEPT !.ext = e] EXCEPT !.sd = s]
    OBVIOUS
  <2>3. ttns' = [ttns EXCEPT ![n] = r]
    BY <1>3, <2>1, <2>2 DEF Parcels!AddTTN, Parcels!NoId, NoId
  <2>4. /\ ttns[n].ext # NoExt => e = ttns[n].ext
        /\ ttns[n].sd # NoId => s = ttns[n].sd
    BY <2>1
  <2>. QED
    BY <1>3, <2>2, <2>3, <2>4, RowFilled
<1>4. ASSUME NEW n \in Numbers, NEW ext, NEW id,
             ttns' = Parcels!AddTTN(ttns, n, ext, id), n \notin DOMAIN ttns
      PROVE  /\ RowsGrow /\ RowsTyped'
             /\ \A m \in DOMAIN ttns : ttns'[m].rank = ttns[m].rank
  <2>1. PICK r : r = [ext |-> ext, sd |-> id, code |-> 0, rank |-> 0,
                      final |-> FALSE, due |-> TRUE, old |-> FALSE]
    OBVIOUS
  <2>2. IsRow(r)
    BY <2>1 DEF IsRow
  <2>3. ttns' = [m \in DOMAIN ttns \cup {n} |-> IF m = n THEN r ELSE ttns[m]]
    BY <1>4, <2>1 DEF Parcels!AddTTN, Parcels!InsertTTN
  <2>4. /\ DOMAIN ttns' = DOMAIN ttns \cup {n} /\ ttns'[n] = r
        /\ \A m \in DOMAIN ttns : ttns'[m] = ttns[m]
    BY <1>4, <2>3
  <2>5. RowsGrow
    BY <1>1, <2>4 DEF RowsGrow
  <2>6. RowsTyped'
    <3>1. ASSUME NEW m \in DOMAIN ttns' PROVE IsRow(ttns'[m])
      <4>1. CASE m \in DOMAIN ttns
        <5>1. ttns'[m] = ttns[m]
          BY <2>4, <4>1
        <5>. QED
          BY <1>1, <4>1, <5>1
      <4>2. CASE m = n
        BY <2>2, <2>4, <4>2
      <4>. QED
        BY <2>4, <3>1, <4>1, <4>2
    <3>. QED
      BY <2>4, <3>1 DEF RowsTyped, ParcelsInv
  <2>. QED
    BY <2>4, <2>5, <2>6
<1>5. ASSUME NEW n \in DOMAIN ttns,
             \/ ttns' = [ttns EXCEPT ![n].due = TRUE]
             \/ ttns' = [ttns EXCEPT ![n].old = TRUE]
      PROVE  /\ RowsGrow /\ RowsTyped'
             /\ \A m \in DOMAIN ttns : ttns'[m].rank = ttns[m].rank
  <2>1. PICK d, o : /\ d = [ttns[n] EXCEPT !.due = TRUE]
                    /\ o = [ttns[n] EXCEPT !.old = TRUE]
    OBVIOUS
  <2>2. ttns' = [ttns EXCEPT ![n] = d] \/ ttns' = [ttns EXCEPT ![n] = o]
    BY <1>5, <2>1
  <2>. QED
    BY <2>1, <2>2, RowFilled
<1>. QED
  BY <1>2, <1>3, <1>4, <1>5 DEF RowsStep

\* What is done to the copies of a poll but for storing its answers.
CopiesStep ==
    \/ polled' = polled
    \/ polled' = <<>>
    \/ Parcels!PollBegins

LEMMA CopiesKept ==
    ASSUME ParcelsInv, RowsStep, CopiesStep, UNCHANGED turns
    PROVE  ParcelsInv'
<1>1. /\ RowsGrow /\ RowsTyped'
      /\ \A m \in DOMAIN ttns : ttns'[m].rank = ttns[m].rank
  BY RowsKept
<1> DEFINE Copied(n) ==
             /\ n \in DOMAIN ttns' /\ IsRow(polled'[n])
             /\ polled'[n].rank = ttns'[n].rank
             /\ LinkedAs(n, polled[n].sd, polled[n].ext)'
<1>2. CASE polled' = polled
  <2>1. ASSUME NEW n \in DOMAIN polled' PROVE Copied(n)
    <3>1. /\ n \in DOMAIN ttns /\ IsRow(polled[n]) /\ polled[n].rank = ttns[n].rank
          /\ LinkedAs(n, polled[n].sd, polled[n].ext)
      BY <1>2, <2>1 DEF ParcelsInv
    <3>2. PICK s, e : s = polled[n].sd /\ e = polled[n].ext
      OBVIOUS
    <3>3. LinkedAs(n, s, e)'
      BY <1>1, <3>1, <3>2, LinkedStays
    <3>4. LinkedAs(n, polled[n].sd, polled[n].ext)'
      BY <1>2, <3>2, <3>3
    <3>. QED
      BY <1>1, <1>2, <3>1, <3>4 DEF RowsGrow
  <2>. QED
    BY <1>1, <2>1 DEF ParcelsInv, RowsTyped
<1>3. CASE polled' = <<>>
  <2>1. DOMAIN polled' = {}
    BY <1>3
  <2>. QED
    BY <1>1, <2>1 DEF ParcelsInv, RowsTyped
<1>4. CASE Parcels!PollBegins
  <2>1. /\ polled' = [n \in Parcels!DueTTNs |-> ttns[n]] /\ ttns' = ttns
        /\ Parcels!DueTTNs \subseteq DOMAIN ttns
    BY <1>4 DEF Parcels!PollBegins, Parcels!DueTTNs, Parcels!Unpolled
  <2>2. ASSUME NEW n \in DOMAIN polled'
        PROVE  /\ n \in DOMAIN ttns' /\ IsRow(polled'[n])
               /\ polled'[n].rank = ttns'[n].rank
               /\ LinkedAs(n, polled[n].sd, polled[n].ext)'
    <3>1. n \in DOMAIN ttns /\ polled'[n] = ttns[n]
      BY <2>1, <2>2
    <3>2. IsRow(ttns[n])
      BY <3>1 DEF ParcelsInv
    <3>. QED
      BY <2>1, <3>1, <3>2 DEF LinkedAs
  <2>. QED
    BY <1>1, <2>2 DEF ParcelsInv, RowsTyped
<1>. QED
  BY <1>2, <1>3, <1>4 DEF CopiesStep

\* What is done to the messages but for queueing them.
MessagesStep ==
    \/ UNCHANGED <<sent, toSend>> /\ (poll' = poll \/ poll' # "sending")
    \/ UNCHANGED sent /\ toSend' = <<>> /\ poll' # "sending"
    \/ Parcels!SendNotice

LEMMA MessagesKept ==
    ASSUME MessagesInv, MessagesStep, Grow
    PROVE  MessagesInv'
<1>1. PICK S : sent \in Seq(S) /\ toSend \in Seq(S)
  BY DEF MessagesInv
<1>2. \A m : MessageFits(m) => MessageFits(m)'
  BY MessageStays
<1>3. /\ \A k \in DOMAIN sent : MessageFits(sent[k])
      /\ \A k \in DOMAIN toSend : MessageFits(toSend[k])
  BY DEF MessagesInv
<1>4. CASE UNCHANGED <<sent, toSend>> /\ (poll' = poll \/ poll' # "sending")
  BY <1>1, <1>2, <1>3, <1>4 DEF MessagesInv, MessageFits
<1>5. CASE UNCHANGED sent /\ toSend' = <<>> /\ poll' # "sending"
  <2>1. toSend' \in Seq(S) /\ DOMAIN toSend' = {}
    BY <1>5
  <2>. QED
    BY <1>1, <1>2, <1>3, <1>5, <2>1 DEF MessagesInv, MessageFits
<1>6. CASE Parcels!SendNotice
  <2>1. /\ sent' = Append(sent, Head(toSend)) /\ toSend' = Tail(toSend)
        /\ poll = "sending"
        /\ poll' = IF Len(toSend) = 1 THEN "idle" ELSE "sending"
    BY <1>6 DEF Parcels!SendNotice
  <2>2. toSend # <<>>
    BY <2>1 DEF MessagesInv
  <2>3. PICK m : m = toSend[1]
    OBVIOUS
  <2>4. m \in S /\ Head(toSend) = m /\ MessageFits(m)
    BY <1>1, <1>3, <2>2, <2>3
  <2>5. /\ sent' \in Seq(S)
        /\ \A k \in DOMAIN sent' : sent'[k] = m \/ (k \in DOMAIN sent /\ sent'[k] = sent[k])
    BY <1>1, <2>1, <2>4
  <2>6. /\ toSend' \in Seq(S)
        /\ \A k \in DOMAIN toSend' :
              k + 1 \in DOMAIN toSend /\ toSend'[k] = toSend[k + 1]
        /\ Len(toSend) # 1 => toSend' # <<>>
    <3>1. PICK t, u : t = toSend /\ u = Tail(t)
      OBVIOUS
    <3>2. t \in Seq(S) /\ t # <<>>
      BY <1>1, <2>2, <3>1
    <3>3. /\ u \in Seq(S) /\ Len(u) = Len(t) - 1
          /\ \A k \in 1 .. Len(u) : u[k] = t[k + 1]
      BY ONLY <3>1, <3>2
    <3>4. Len(t) \in Nat /\ DOMAIN t = 1 .. Len(t) /\ DOMAIN u = 1 .. Len(u)
      BY ONLY <3>2, <3>3
    <3>5. \A k \in DOMAIN u : k + 1 \in DOMAIN t /\ u[k] = t[k + 1]
      BY ONLY <3>3, <3>4
    <3>6. Len(t) # 1 => u # <<>>
      BY ONLY <3>3
    <3>. QED
      BY <2>1, <3>1, <3>3, <3>5, <3>6
  <2>7. \A k \in DOMAIN sent' : MessageFits(sent'[k])
    BY <1>3, <2>4, <2>5
  <2>8. \A k \in DOMAIN toSend' : MessageFits(toSend'[k])
    BY <1>3, <2>6
  <2>9. ttns' = ttns /\ contacts' = contacts
    BY <1>6 DEF Parcels!SendNotice
  <2>. QED
    BY <2>1, <2>5, <2>6, <2>7, <2>8, <2>9 DEF MessagesInv, MessageFits
<1>. QED
  BY <1>4, <1>5, <1>6 DEF MessagesStep

------------------------------------------------------------------------------
(* What the worker comes to have under way *)

\* The job at hand stays the same one.
LEMMA HandOf ==
    ASSUME QueueInv, NEW i, Current(i), UNCHANGED batch,
           pc' = "sent" /\ batch[i].kind = "note" => SentNote(i)',
           pc' = "executed" /\ batch[i].kind = "note" => NoteIsThere(i)',
           pc' = "executed" /\ batch[i].kind = "create_order" => OrdersDeal(i)',
           pc' = "sent" /\ batch[i].kind = "status" /\ dealId' # NoId
              => dealId' = batch[i].payload.sd \/ OrdersDeal(i)'
    PROVE  HandInv'
<1>1. ASSUME NEW k \in DOMAIN batch', Current(k)' PROVE k = i
  <2>1. Current(k)
    BY <1>1 DEF Current
  <2>. QED
    BY <2>1, OneAtHand
<1>. QED
  BY <1>1 DEF HandInv

LEMMA SendCreateHand ==
    ASSUME QueueInv, NEW i, SendCreate(i)
    PROVE  HandInv'
<1>1. Current(i) /\ batch' = batch /\ batch[i].kind = "create_order" /\ pc' = "sent"
  BY DEF SendCreate, AtCreate
<1>. QED
  BY <1>1, HandOf

LEMMA CreateDealHand ==
    ASSUME QueueInv, JobsInv, OwnersInv, CrmInv, NEW i, CreateDeal(i)
    PROVE  HandInv' /\ \E ext \in ExternalIds : deals' = Append(deals, ext)
<1>1. /\ Current(i) /\ batch' = batch /\ batch[i].kind = "create_order"
      /\ pc' = "executed"
      /\ deals' = Append(deals, Ext(i)) /\ dealId' = Len(deals) + 1
  BY DEF CreateDeal, AtCreate
<1>2. i \in DOMAIN outbox /\ batch[i] = outbox[i]
  BY <1>1, InBatch DEF Current
<1>3. CreateJob(i)
  BY <1>1, <1>2, KeysAndKinds
<1>4. Ext(i) \in ExternalIds
  BY <1>2, <1>3 DEF CreateJob, Ext, OwnersInv
<1>5. PICK ext \in ExternalIds : ext = Ext(i)
  BY <1>4
<1>6. deals \in Seq(ExternalIds)
  BY DEF CrmInv
<1>7. /\ Len(deals) + 1 \in DOMAIN Append(deals, ext)
      /\ Append(deals, ext)[Len(deals) + 1] = ext
  BY ONLY <1>6, ext \in ExternalIds
<1>8. OrdersDeal(i)'
  BY <1>1, <1>5, <1>7 DEF OrdersDeal, Ext
<1>9. HandInv'
  BY <1>1, <1>8, HandOf
<1>. QED
  BY <1>1, <1>5, <1>9

\* A note goes to the deal that its lead is known to have.
LEMMA SendNoteHand ==
    ASSUME QueueInv, JobsInv, OwnersInv, NEW i, Phones!SendNote(i)
    PROVE  HandInv'
<1>1. /\ Current(i) /\ batch' = batch /\ batch[i].kind = "note"
      /\ pc' = "sent" /\ orders' = orders
      /\ orders[Ext(i)] # NoId /\ dealId' = orders[Ext(i)]
  BY DEF Phones!SendNote, Phones!AtNote, Phones!Current, Current, Phones!Ext, Ext,
         Phones!NoId, NoId
<1>2. i \in DOMAIN outbox /\ batch[i] = outbox[i]
  BY <1>1, InBatch DEF Current
<1>3. NoteJob(i)
  BY <1>1, <1>2, KeysAndKinds
<1>4. Ext(i) \in DOMAIN orders
  BY <1>2, <1>3 DEF NoteJob, Ext, OwnersInv
<1>5. SentNote(i)'
  BY <1>1, <1>4 DEF SentNote, Linked, Ext
<1>. QED
  BY <1>1, <1>5, HandOf

\* The CRM adds the note where the worker has asked it to.
LEMMA AddNoteKeeps ==
    ASSUME QueueInv, JobsInv, CrmInv, NotesInv, HandInv,
           NEW i, Phones!AddNote(i)
    PROVE  NotesInv' /\ NotesGrow /\ HandInv'
<1>1. /\ Current(i) /\ i \in DOMAIN batch /\ batch[i].kind = "note"
      /\ pc = "sent" /\ pc' = "executed" /\ dealId \in DOMAIN deals
      /\ notes' = [notes EXCEPT ![batch[i].key[2]] = Append(@, dealId)]
      /\ UNCHANGED <<orders, outbox, batch, deals>>
  BY DEF Phones!AddNote, Phones!AtNote, Phones!Current, Current, Phones!crmVars
<1>2. i \in DOMAIN outbox /\ batch[i] = outbox[i]
  BY <1>1, InBatch
<1>3. PICK call, ext, id :
         call = outbox[i].key[2] /\ ext = outbox[i].payload.ext /\ id = dealId
  OBVIOUS
<1>4. call \in CallIds /\ outbox[i].key = NoteKey(call)
  BY <1>1, <1>2, <1>3, KeysAndKinds
<1>5. Linked(ext) /\ id = orders[ext]
  BY <1>1, <1>2, <1>3 DEF HandInv, SentNote, Ext
<1>6. id \in DOMAIN deals /\ deals[id] = ext /\ id \in Nat
  BY <1>5, DealIds DEF CrmInv
<1>7. notes' = [notes EXCEPT ![call] = Append(@, id)]
  BY <1>1, <1>2, <1>3
<1>8. PICK old, new : old = notes[call] /\ new = Append(old, id)
  OBVIOUS
<1>9. notes \in [CallIds -> Seq(Nat)] /\ old \in Seq(Nat)
  BY <1>4, <1>8 DEF NotesInv
<1>10. /\ new \in Seq(Nat) /\ DOMAIN old \subseteq DOMAIN new
       /\ \A n \in DOMAIN old : new[n] = old[n]
       /\ \A n \in DOMAIN new : new[n] = id \/ (n \in DOMAIN old /\ new[n] = old[n])
       /\ \E n \in DOMAIN new : new[n] = id
  <2>1. /\ new \in Seq(Nat) /\ Len(new) = Len(old) + 1 /\ Len(old) \in Nat
        /\ DOMAIN new = 1 .. (Len(old) + 1) /\ DOMAIN old = 1 .. Len(old)
        /\ new[Len(old) + 1] = id /\ \A n \in 1 .. Len(old) : new[n] = old[n]
    BY ONLY <1>6, <1>8, <1>9
  <2>. QED
    BY ONLY <2>1
<1>11. notes' \in [CallIds -> Seq(Nat)]
       /\ \A c \in CallIds : notes'[c] = IF c = call THEN new ELSE notes[c]
  BY <1>7, <1>8, <1>9, <1>10
<1>12. NoteAtLead(call, id)
  BY <1>2, <1>3, <1>4, <1>6 DEF NoteAtLead
<1>13. ASSUME NEW c \in CallIds, NEW n \in DOMAIN notes'[c]
       PROVE  NoteAtLead(c, notes'[c][n])
  <2>1. CASE c = call
    BY <1>8, <1>10, <1>11, <1>12, <1>13, <2>1 DEF NotesInv
  <2>2. CASE c # call
    <3>1. notes'[c] = notes[c]
      BY <1>11, <2>2
    <3>. QED
      BY <1>13, <3>1 DEF NotesInv
  <2>. QED
    BY <2>1, <2>2
<1>14. NotesInv'
  <2>1. ASSUME NEW c \in CallIds, NEW n \in DOMAIN notes'[c]
        PROVE  NoteAtLead(c, notes[c][n])'
    <3>1. NoteAtLead(c, notes'[c][n])
      BY <1>13, <2>1
    <3>. QED
      BY <1>1, <3>1 DEF NoteAtLead
  <2>. QED
    BY <1>11, <2>1 DEF NotesInv
<1>15. NotesGrow
  BY <1>8, <1>10, <1>11 DEF NotesGrow
<1>16. NoteIsThere(i)'
  BY <1>1, <1>3, <1>4, <1>5, <1>10, <1>11 DEF NoteIsThere, Linked
<1>17. HandInv'
  BY <1>1, <1>16, HandOf
<1>. QED
  BY <1>14, <1>15, <1>17

LEMMA SendStatusHand ==
    ASSUME QueueInv, CrmInv, NEW i, Parcels!SendStatus(i)
    PROVE  HandInv'
<1>1. /\ Current(i) /\ batch' = batch /\ batch[i].kind = "status"
      /\ pc' = "sent" /\ deals' = deals
      /\ batch[i].payload.sd # NoId \/ Ext(i) \in DOMAIN orders
      /\ dealId' = IF batch[i].payload.sd # NoId \/ Ext(i) = NoExt
                   THEN batch[i].payload.sd ELSE orders[Ext(i)]
  BY DEF Parcels!SendStatus, Parcels!AtStatus, Parcels!Current, Current,
         Parcels!Ext, Ext, Parcels!StatusId, Parcels!NoId, NoId, Parcels!crmVars
<1>2. dealId' # NoId => dealId' = batch[i].payload.sd \/ OrdersDeal(i)'
  <2>1. ASSUME dealId' # NoId, dealId' # batch[i].payload.sd PROVE OrdersDeal(i)'
    <3>1. dealId' = orders[Ext(i)] /\ Linked(Ext(i))
      BY <1>1, <2>1 DEF Linked
    <3>2. orders[Ext(i)] \in DOMAIN deals /\ deals[orders[Ext(i)]] = Ext(i)
      BY <3>1 DEF CrmInv
    <3>. QED
      BY <1>1, <3>1, <3>2 DEF OrdersDeal, Ext
  <2>. QED
    BY <2>1
<1>. QED
  BY <1>1, <1>2, HandOf

\* The CRM moves the deal that the job's parcel is linked to.
LEMMA MoveDealKeeps ==
    ASSUME QueueInv, JobsInv, CrmInv, MovedInv, HandInv,
           NEW i, Parcels!MoveDeal(i)
    PROVE  MovedInv' /\ HandInv'
<1>1. /\ Current(i) /\ i \in DOMAIN batch /\ batch[i].kind = "status"
      /\ pc = "sent" /\ pc' = "executed" /\ UNCHANGED <<deals, batch, ttns>>
  BY DEF Parcels!MoveDeal, Parcels!AtStatus, Parcels!Current, Current, Parcels!crmVars
<1>2. i \in DOMAIN outbox /\ batch[i] = outbox[i]
  BY <1>1, InBatch
<1>3. PICK job, code : job = outbox[i] /\ code = outbox[i].payload.status
  OBVIOUS
<1>4. PICK id \in DOMAIN deals :
         /\ IF dealId # NoId THEN id = dealId ELSE deals[id] = job.payload.ext
         /\ funnel' = [d \in DOMAIN funnel \cup {id} |->
                          IF d = id THEN [number |-> job.key[2], code |-> code]
                                    ELSE funnel[d]]
  BY <1>2, <1>3 DEF Parcels!MoveDeal, Parcels!Ext, Parcels!NoId, NoId
<1>5. StatusJob(i)
  BY <1>1, <1>2, KeysAndKinds
<1>6. PICK n \in DOMAIN ttns : /\ job.key = StatusKey(n, code)
                               /\ LinkedAs(n, job.payload.sd, job.payload.ext)
                               /\ Parcels!Rank(code) <= ttns[n].rank
  BY <1>3, <1>5 DEF StatusJob
<1>7. job.key[2] = n
  BY <1>6 DEF StatusKey
<1>8. id \in Nat /\ id # NoId /\ deals[id] # NoExt
  BY DealIds
<1>9. ttns[n].sd = id \/ ttns[n].ext = deals[id]
  <2>1. CASE dealId # NoId /\ dealId = job.payload.sd
    BY <1>4, <1>6, <2>1 DEF LinkedAs
  <2>2. CASE dealId # NoId /\ OrdersDeal(i)
    BY <1>2, <1>3, <1>4, <1>6, <1>8, <2>2 DEF OrdersDeal, LinkedAs, Ext
  <2>3. CASE dealId = NoId
    BY <1>4, <1>6, <1>8, <2>3 DEF LinkedAs
  <2>4. dealId # NoId => dealId = job.payload.sd \/ OrdersDeal(i)
    BY <1>1, <1>2, <1>3 DEF HandInv
  <2>. QED
    BY <2>1, <2>2, <2>3, <2>4
<1>10. OwnParcel(id, n, code)
  BY <1>6, <1>9 DEF OwnParcel
<1>11. ASSUME NEW d \in DOMAIN funnel'
       PROVE  OwnParcel(d, funnel'[d].number, funnel'[d].code)
  <2>1. CASE d = id
    <3>1. funnel'[d] = [number |-> n, code |-> code]
      BY <1>4, <1>7, <2>1
    <3>. QED
      BY <1>10, <2>1, <3>1
  <2>2. CASE d # id
    <3>1. d \in DOMAIN funnel /\ funnel'[d] = funnel[d]
      BY <1>4, <1>11, <2>2
    <3>. QED
      BY <3>1, MovedMeans
  <2>. QED
    BY <2>1, <2>2
<1>12. MovedInv'
  BY <1>1, <1>11 DEF MovedInv, OwnParcel
<1>13. HandInv'
  BY <1>1, HandOf
<1>. QED
  BY <1>12, <1>13

------------------------------------------------------------------------------
(* Steps that bring no new job, order or call *)

NotesStep == notes' = notes \/ \E i : Phones!AddNote(i)

FunnelStep == funnel' = funnel \/ \E i : Parcels!MoveDeal(i)

HandStep ==
    \/ UNCHANGED <<batch, pc, dealId>>
    \/ pc' \notin {"sent", "executed"}
    \/ \E i : \/ SendCreate(i) \/ CreateDeal(i)
              \/ Phones!SendNote(i) \/ Phones!AddNote(i)
              \/ Parcels!SendStatus(i) \/ Parcels!MoveDeal(i)

Aside ==
    /\ QueueStep /\ Linking /\ Making
    /\ RowsStep /\ CopiesStep /\ MessagesStep
    /\ NotesStep /\ FunnelStep /\ HandStep
    /\ UNCHANGED <<calls, leads, turns, posted, contacts>>

LEMMA HandKept ==
    ASSUME QueueInv, JobsInv, OwnersInv, CrmInv, NotesInv, MovedInv, HandInv,
           HandStep, Grow
    PROVE  HandInv'
<1>1. CASE UNCHANGED <<batch, pc, dealId>>
  BY <1>1, HandStays
<1>2. CASE pc' \notin {"sent", "executed"}
  BY <1>2, HandFree
<1>3. ASSUME NEW i, SendCreate(i) PROVE HandInv'
  BY <1>3, SendCreateHand
<1>4. ASSUME NEW i, CreateDeal(i) PROVE HandInv'
  BY <1>4, CreateDealHand
<1>5. ASSUME NEW i, Phones!SendNote(i) PROVE HandInv'
  BY <1>5, SendNoteHand
<1>6. ASSUME NEW i, Phones!AddNote(i) PROVE HandInv'
  BY <1>6, AddNoteKeeps
<1>7. ASSUME NEW i, Parcels!SendStatus(i) PROVE HandInv'
  BY <1>7, SendStatusHand
<1>8. ASSUME NEW i, Parcels!MoveDeal(i) PROVE HandInv'
  BY <1>8, MoveDealKeeps
<1>. QED
  BY <1>1, <1>2, <1>3, <1>4, <1>5, <1>6, <1>7, <1>8 DEF HandStep

LEMMA NotesKept ==
    ASSUME QueueInv, JobsInv, CrmInv, NotesInv, HandInv, NotesStep
    PROVE  /\ NotesGrow
           /\ Grow => NotesInv'
<1>1. CASE notes' = notes
  <2>1. NotesGrow
    BY <1>1 DEF NotesGrow
  <2>2. ASSUME Grow, NEW call \in CallIds, NEW n \in DOMAIN notes[call]
        PROVE  NoteAtLead(call, notes[call][n])'
    <3>1. PICK id : id = notes[call][n]
      OBVIOUS
    <3>2. NoteAtLead(call, id)
      BY <2>2, <3>1 DEF NotesInv
    <3>3. NoteAtLead(call, id)'
      BY <2>2, <3>2, AtLeadStays
    <3>. QED
      BY <1>1, <3>1, <3>3
  <2>. QED
    BY <1>1, <2>1, <2>2 DEF NotesInv
<1>2. ASSUME NEW i, Phones!AddNote(i) PROVE NotesInv' /\ NotesGrow
  BY <1>2, AddNoteKeeps
<1>. QED
  BY <1>1, <1>2 DEF NotesStep

LEMMA FunnelKept ==
    ASSUME QueueInv, JobsInv, CrmInv, ParcelsInv, MovedInv, HandInv,
           FunnelStep, Grow
    PROVE  MovedInv'
<1>1. CASE funnel' = funnel
  BY <1>1, MovedStays
<1>2. ASSUME NEW i, Parcels!MoveDeal(i) PROVE MovedInv'
  BY <1>2, MoveDealKeeps
<1>. QED
  BY <1>1, <1>2 DEF FunnelStep

LEMMA SameCalls == ASSUME UNCHANGED <<calls, leads>> PROVE CallsGrow
  BY DEF CallsGrow, Missed

LEMMA AsideKeeps ==
    ASSUME BridgeInv, Aside
    PROVE  BridgeInv'
<1>1. /\ QueueInv /\ JobsInv /\ OwnJobsInv /\ OwnersInv
      /\ CrmInv /\ NotesInv /\ DoneInv
      /\ ParcelsInv /\ MessagesInv /\ MovedInv /\ HandInv
  BY DEF BridgeInv
<1>2. /\ QueueStep /\ Linking /\ Making
      /\ RowsStep /\ CopiesStep /\ MessagesStep
      /\ NotesStep /\ FunnelStep /\ HandStep
      /\ UNCHANGED <<calls, leads, turns, posted, contacts>>
  BY DEF Aside
<1>3. QueueInv' /\ OldJobs /\ DOMAIN outbox' = DOMAIN outbox
  BY <1>1, <1>2, QueueKept
<1>4. CrmInv' /\ OrdersGrow /\ DOMAIN orders' = DOMAIN orders
  BY <1>1, <1>2, CrmKept
<1>5. DealsGrow
  BY <1>1, <1>2, DealsMade
<1>6. RowsGrow
  BY <1>1, <1>2, RowsKept
<1>7. NotesGrow
  BY <1>1, <1>2, NotesKept
<1>8. CallsGrow
  BY <1>2, SameCalls
<1>9. Grow
  BY <1>2, <1>3, <1>4, <1>5, <1>6, <1>7, <1>8 DEF Grow
<1>10. JobsInv'
  <2>1. \A i \in DOMAIN outbox : CreateJob(i)' \/ NoteJob(i)' \/ StatusJob(i)'
    BY <1>1, <1>9, OldJobsStay
  <2>. QED
    BY <1>3, <2>1 DEF JobsInv
<1>11. OwnJobsInv' /\ OwnersInv'
  BY <1>1, <1>2, <1>3, <1>4, OwnersKept
<1>12. NotesInv'
  BY <1>1, <1>2, <1>9, NotesKept
<1>13. DoneInv'
  BY <1>1, <1>2, <1>9, DoneKept
<1>14. ParcelsInv'
  BY <1>1, <1>2, CopiesKept
<1>15. MessagesInv'
  BY <1>1, <1>2, <1>9, MessagesKept
<1>16. MovedInv'
  BY <1>1, <1>2, <1>9, FunnelKept
<1>17. HandInv'
  BY <1>1, <1>2, <1>9, HandKept
<1>. QED
  BY <1>3, <1>4, <1>10, <1>11, <1>12, <1>13, <1>14, <1>15, <1>16, <1>17 DEF BridgeInv

------------------------------------------------------------------------------
(* Which steps those are *)

\* The parts' copies of what they take from Outbox are the bridge's own.
LEMMA SameOutcomes ==
    ASSUME NEW i
    PROVE  /\ Phones!Finish(i) <=> Finish(i)
           /\ Phones!Fail(i) <=> Fail(i)
           /\ Phones!Advance(i) <=> Advance(i)
           /\ Parcels!Finish(i) <=> Finish(i)
           /\ Parcels!Fail(i) <=> Fail(i)
           /\ Phones!AtNote(i) <=> Current(i) /\ batch[i].kind = "note"
           /\ Parcels!AtStatus(i) <=> Current(i) /\ batch[i].kind = "status"
<1>1. (Phones!Advance(i) <=> Advance(i)) /\ (Parcels!Advance(i) <=> Advance(i))
  BY DEF Phones!Advance, Parcels!Advance, Advance, Phones!NoId, Parcels!NoId, NoId
<1>2. \A r : /\ Phones!UpdateJob(outbox, i, r) = UpdateJob(outbox, i, r)
             /\ Parcels!UpdateJob(outbox, i, r) = UpdateJob(outbox, i, r)
  BY DEF Phones!UpdateJob, Parcels!UpdateJob, UpdateJob
<1>3. (Phones!Current(i) <=> Current(i)) /\ (Parcels!Current(i) <=> Current(i))
  BY DEF Phones!Current, Parcels!Current, Current
<1>4. (Phones!Finish(i) <=> Finish(i)) /\ (Phones!Fail(i) <=> Fail(i))
  BY <1>1, <1>2 DEF Phones!Finish, Phones!Fail, Finish, Fail
<1>5. (Parcels!Finish(i) <=> Finish(i)) /\ (Parcels!Fail(i) <=> Fail(i))
  BY <1>1, <1>2 DEF Parcels!Finish, Parcels!Fail, Finish, Fail
<1>. QED
  BY <1>1, <1>3, <1>4, <1>5 DEF Phones!AtNote, Parcels!AtStatus

\* A step that the parcels have no part in.
LEMMA Beside ==
    ASSUME QueueStep, Linking, Making, HandStep, NotesStep,
           UNCHANGED <<calls, leads, posted>>, UNCHANGED trackingVars
    PROVE  Aside
<1>1. UNCHANGED <<ttns, turns, poll, polled, toSend, sent, contacts, funnel>>
  BY DEF trackingVars
<1>2. RowsStep /\ CopiesStep /\ MessagesStep /\ FunnelStep
  BY <1>1 DEF RowsStep, CopiesStep, MessagesStep, FunnelStep
<1>. QED
  BY <1>1, <1>2 DEF Aside

\* A step that the orders, the outbox, the worker and the CRM have no part in.
LEMMA BesideOutbox ==
    ASSUME UNCHANGED <<orders, outbox, batch, pc, dealId, deals>>
    PROVE  QueueStep /\ Linking /\ Making /\ HandStep
  BY DEF QueueStep, Linking, Making, HandStep

LEMMA OutcomeAside ==
    ASSUME NEW i, NEW s, Outcome(i, s),
           s = "done" /\ outbox[i].kind = "note" => pc = "executed"
    PROVE  QueueStep /\ HandStep
<1>1. QueueStep
  BY DEF QueueStep, Stepped
<1>2. pc' \notin {"sent", "executed"}
  BY DEF Outcome, Advance
<1>. QED
  BY <1>1, <1>2 DEF HandStep

\* A job that failed, or is to be tried again.
LEMMA FailedAside ==
    ASSUME QueueInv, NEW i, Current(i), Fail(i) \/ Retry(i)
    PROVE  QueueStep /\ HandStep
<1>1. CASE Fail(i)
  BY <1>1, FailWrites, OutcomeAside
<1>2. CASE Retry(i)
  BY <1>2, RetryWrites, OutcomeAside
<1>. QED
  BY <1>1, <1>2

\* A finished job that is not a note, or whose note the CRM has added.
LEMMA FinishAside ==
    ASSUME QueueInv, NEW i, Current(i), Finish(i),
           batch[i].kind = "note" => pc = "executed"
    PROVE  QueueStep /\ HandStep
<1>1. batch[i] = outbox[i]
  BY InBatch DEF Current
<1>. QED
  BY <1>1, FinishWrites, OutcomeAside

\* The steps of create jobs, and the answers that are alike for all jobs.
LEMMA CreateStepAside ==
    ASSUME BridgeInv, NEW i, CreateStep(i) \/ CallRefused(i) \/ CallLost(i),
           UNCHANGED <<telephonyVars, trackingVars, posted>>
    PROVE  Aside
<1>1. QueueInv /\ JobsInv /\ HandInv
  BY DEF BridgeInv
<1>2. UNCHANGED <<calls, leads, posted>> /\ UNCHANGED trackingVars /\ NotesStep
  BY DEF telephonyVars, NotesStep
<1>3. CASE LookupFound(i)
  <2>1. /\ Current(i) /\ Finish(i) /\ batch[i].kind = "create_order"
        /\ \E id \in DOMAIN deals : orders' = SetSDOrderID(orders, deals[id], id)
        /\ deals' = deals
    BY <1>3 DEF LookupFound, AtCreate, crmVars
  <2>2. QueueStep /\ HandStep
    BY <1>1, <2>1, FinishAside
  <2>. QED
    BY <1>2, <2>1, <2>2, Beside DEF Linking, Making
<1>4. CASE LookupMissed(i)
  <2>1. UNCHANGED <<orders, outbox, batch, deals>> /\ pc' = "lookedUp"
    BY <1>4 DEF LookupMissed, crmVars
  <2>2. QueueStep /\ HandStep
    BY <2>1 DEF QueueStep, HandStep
  <2>. QED
    BY <1>2, <2>1, <2>2, Beside DEF Linking, Making
<1>5. CASE LookupFailed(i) \/ CallRefused(i) \/ CallLost(i) \/ CreateTimedOut(i)
  <2>1. /\ Current(i) /\ (Fail(i) \/ Retry(i))
        /\ UNCHANGED <<orders, deals>>
    BY <1>5 DEF LookupFailed, CallRefused, CallLost, CreateTimedOut, Failed,
                AtCreate, crmVars
  <2>2. QueueStep /\ HandStep
    BY <1>1, <2>1, FailedAside
  <2>. QED
    BY <1>2, <2>1, <2>2, Beside DEF Linking, Making
<1>6. CASE SendCreate(i)
  <2>1. UNCHANGED <<orders, outbox, batch, deals>>
    BY <1>6 DEF SendCreate, crmVars
  <2>2. QueueStep /\ HandStep
    BY <1>6, <2>1 DEF QueueStep, HandStep
  <2>. QED
    BY <1>2, <2>1, <2>2, Beside DEF Linking, Making
<1>7. CASE CreateAnswered(i)
  <2>1. /\ Current(i) /\ i \in DOMAIN batch /\ Finish(i) /\ pc = "executed"
        /\ batch[i].kind = "create_order"
        /\ orders' = SetSDOrderID(orders, Ext(i), dealId) /\ deals' = deals
    BY <1>7 DEF CreateAnswered, AtCreate, Current, crmVars
  <2>2. OrdersDeal(i)
    BY <1>1, <2>1 DEF HandInv
  <2>3. Linking /\ Making
    BY <2>1, <2>2 DEF OrdersDeal, Linking, Making
  <2>4. QueueStep /\ HandStep
    BY <1>1, <2>1, FinishAside
  <2>. QED
    BY <1>2, <2>3, <2>4, Beside
<1>. QED
  BY <1>3, <1>4, <1>5, <1>6, <1>7 DEF CreateStep

LEMMA NoteStepAside ==
    ASSUME BridgeInv, NEW i, Phones!NoteStep(i), UNCHANGED <<trackingVars, posted>>
    PROVE  Aside
<1>1. QueueInv
  BY DEF BridgeInv
<1>2. UNCHANGED <<orders, deals, calls, leads, notes, posted>>
  BY DEF Phones!NoteStep, Phones!NoteWaits, Phones!NoteOrphaned, Phones!SendNote,
         Phones!NoteAnswered, Phones!crmVars, Phones!telephonyVars
<1>3. CASE Phones!NoteWaits(i)
  <2>1. /\ Current(i) /\ Advance(i)
        /\ outbox' = UpdateJob(outbox, i, [batch[i] EXCEPT !.due = FALSE])
    BY <1>3, SameOutcomes DEF Phones!NoteWaits, Phones!UpdateJob, UpdateJob
  <2>2. Outcome(i, "pending")
    BY <1>1, <2>1, WaitWrites
  <2>3. QueueStep /\ HandStep
    BY <2>2, OutcomeAside
  <2>. QED
    BY <1>2, <2>3, Beside DEF Linking, Making, NotesStep
<1>4. CASE Phones!NoteOrphaned(i)
  <2>1. Current(i) /\ Fail(i)
    BY <1>4, SameOutcomes DEF Phones!NoteOrphaned
  <2>2. QueueStep /\ HandStep
    BY <1>1, <2>1, FailedAside
  <2>. QED
    BY <1>2, <2>2, Beside DEF Linking, Making, NotesStep
<1>5. CASE Phones!SendNote(i)
  <2>1. UNCHANGED <<outbox, batch>>
    BY <1>5 DEF Phones!SendNote
  <2>2. QueueStep /\ HandStep
    BY <1>5, <2>1 DEF QueueStep, HandStep
  <2>. QED
    BY <1>2, <2>2, Beside DEF Linking, Making, NotesStep
<1>6. CASE Phones!NoteAnswered(i)
  <2>1. Current(i) /\ Finish(i) /\ pc = "executed"
    BY <1>6, SameOutcomes DEF Phones!NoteAnswered
  <2>2. QueueStep /\ HandStep
    BY <1>1, <2>1, FinishAside
  <2>. QED
    BY <1>2, <2>2, Beside DEF Linking, Making, NotesStep
<1>. QED
  BY <1>3, <1>4, <1>5, <1>6 DEF Phones!NoteStep

LEMMA StatusStepAside ==
    ASSUME BridgeInv, NEW i, Parcels!StatusStep(i),
           UNCHANGED <<telephonyVars, posted>>
    PROVE  Aside
<1>1. QueueInv
  BY DEF BridgeInv
<1>2. UNCHANGED trackingVars /\ UNCHANGED <<orders, deals>>
  BY DEF Parcels!StatusStep, Parcels!StatusUnlinked, Parcels!StatusStuck,
         Parcels!SendStatus, Parcels!StatusAnswered, Parcels!crmVars,
         Parcels!trackingVars, Parcels!pollVars, trackingVars
<1>3. UNCHANGED <<calls, leads, posted>> /\ NotesStep
  BY DEF telephonyVars, NotesStep
<1>4. CASE Parcels!StatusUnlinked(i)
  <2>1. Current(i) /\ Fail(i)
    BY <1>4, SameOutcomes DEF Parcels!StatusUnlinked
  <2>2. QueueStep /\ HandStep
    BY <1>1, <2>1, FailedAside
  <2>. QED
    BY <1>2, <1>3, <2>2, Beside DEF Linking, Making
<1>5. CASE Parcels!StatusStuck(i)
  <2>1. outbox' = outbox /\ batch' = <<>> /\ pc' = "idle"
    BY <1>5 DEF Parcels!StatusStuck
  <2>2. QueueStep /\ HandStep
    BY <2>1 DEF QueueStep, HandStep
  <2>. QED
    BY <1>2, <1>3, <2>2, Beside DEF Linking, Making
<1>6. CASE Parcels!SendStatus(i)
  <2>1. UNCHANGED <<outbox, batch>>
    BY <1>6 DEF Parcels!SendStatus
  <2>2. QueueStep /\ HandStep
    BY <1>6, <2>1 DEF QueueStep, HandStep
  <2>. QED
    BY <1>2, <1>3, <2>2, Beside DEF Linking, Making
<1>7. CASE Parcels!StatusAnswered(i)
  <2>1. Current(i) /\ Finish(i) /\ pc = "executed"
    BY <1>7, SameOutcomes DEF Parcels!StatusAnswered
  <2>2. QueueStep /\ HandStep
    BY <1>1, <2>1, FinishAside
  <2>. QED
    BY <1>2, <1>3, <2>2, Beside DEF Linking, Making
<1>. QED
  BY <1>4, <1>5, <1>6, <1>7 DEF Parcels!StatusStep

LEMMA CrmAside ==
    ASSUME BridgeInv, CRM
    PROVE  Aside
<1>1. QueueInv /\ JobsInv /\ OwnersInv /\ CrmInv /\ UNCHANGED posted
  BY DEF BridgeInv, CRM
<1>2. ASSUME NEW i \in DOMAIN batch, CreateDeal(i),
             UNCHANGED <<telephonyVars, trackingVars>>
      PROVE  Aside
  <2>1. UNCHANGED <<orders, outbox, batch>>
    BY <1>2 DEF CreateDeal
  <2>2. QueueStep /\ HandStep /\ Linking
    BY <1>2, <2>1 DEF QueueStep, HandStep, Linking
  <2>3. Making
    BY <1>1, <1>2, CreateDealHand DEF Making
  <2>. QED
    BY <1>1, <1>2, <2>2, <2>3, Beside DEF telephonyVars, NotesStep
<1>3. ASSUME NEW ext \in ExternalIds, LateDeal(ext),
             UNCHANGED <<telephonyVars, trackingVars>>
      PROVE  Aside
  <2>1. UNCHANGED <<orders, outbox, batch, pc, dealId>> /\ deals' = Append(deals, ext)
    BY <1>3 DEF LateDeal, workerVars
  <2>2. QueueStep /\ HandStep /\ Linking /\ Making
    BY <2>1 DEF QueueStep, HandStep, Linking, Making
  <2>. QED
    BY <1>1, <1>3, <2>2, Beside DEF telephonyVars, NotesStep
<1>4. ASSUME NEW i \in DOMAIN batch, Phones!AddNote(i), UNCHANGED trackingVars
      PROVE  Aside
  <2>1. UNCHANGED <<orders, outbox, batch, deals, calls, leads>>
    BY <1>4 DEF Phones!AddNote, Phones!crmVars
  <2>2. QueueStep /\ HandStep /\ Linking /\ Making /\ NotesStep
    BY <1>4, <2>1 DEF QueueStep, HandStep, Linking, Making, NotesStep
  <2>. QED
    BY <1>1, <1>4, <2>1, <2>2, Beside
<1>5. ASSUME NEW i \in DOMAIN batch, Parcels!MoveDeal(i), UNCHANGED telephonyVars
      PROVE  Aside
  <2>1. /\ UNCHANGED <<orders, outbox, batch, deals>>
        /\ UNCHANGED <<ttns, turns, poll, polled, toSend, sent, contacts>>
    BY <1>5 DEF Parcels!MoveDeal, Parcels!crmVars, Parcels!pollVars
  <2>2. QueueStep /\ HandStep /\ Linking /\ Making
    BY <1>5, <2>1 DEF QueueStep, HandStep, Linking, Making
  <2>3. RowsStep /\ CopiesStep /\ MessagesStep /\ FunnelStep
    BY <1>5, <2>1 DEF RowsStep, CopiesStep, MessagesStep, FunnelStep
  <2>. QED
    BY <1>1, <1>5, <2>1, <2>2, <2>3 DEF Aside, telephonyVars, NotesStep
<1>. QED
  BY <1>2, <1>3, <1>4, <1>5 DEF CRM

LEMMA TimeAside ==
    ASSUME BridgeInv, Time
    PROVE  Aside
<1>1. QueueInv /\ UNCHANGED posted
  BY DEF BridgeInv, Time
<1>2. ASSUME NEW i \in DOMAIN outbox, BackoffElapses(i),
             UNCHANGED <<telephonyVars, trackingVars>>
      PROVE  Aside
  <2>1. UNCHANGED <<orders, batch, pc, dealId, deals>>
    BY <1>2 DEF BackoffElapses, workerVars, crmVars
  <2>2. QueueStep
    BY <1>1, <1>2, <2>1, RowWrites DEF QueueStep
  <2>3. HandStep /\ Linking /\ Making
    BY <2>1 DEF HandStep, Linking, Making
  <2>. QED
    BY <1>1, <1>2, <2>2, <2>3, Beside DEF telephonyVars, NotesStep
<1>3. ASSUME Phones!Tick, UNCHANGED trackingVars PROVE Aside
  <2>1. UNCHANGED <<orders, outbox, batch, pc, dealId, deals, calls, leads, notes>>
    BY <1>3 DEF Phones!Tick, Phones!outboxVars, Phones!workerVars, Phones!crmVars
  <2>2. QueueStep /\ Linking /\ Making /\ HandStep
    BY <2>1, BesideOutbox
  <2>. QED
    BY <1>1, <1>3, <2>1, <2>2, Beside DEF NotesStep
<1>4. ASSUME NEW n \in DOMAIN ttns, Parcels!PollEveryElapses(n) \/ Parcels!Ages(n),
             UNCHANGED telephonyVars
      PROVE  Aside
  <2>1. /\ UNCHANGED <<orders, outbox, batch, pc, dealId, deals>>
        /\ UNCHANGED <<turns, poll, polled, toSend, sent, contacts, funnel>>
    BY <1>4 DEF Parcels!PollEveryElapses, Parcels!Ages, Parcels!outboxVars,
                Parcels!workerVars, Parcels!crmVars, Parcels!pollVars
  <2>2. QueueStep /\ Linking /\ Making /\ HandStep
    BY <2>1, BesideOutbox
  <2>3. \/ ttns' = [ttns EXCEPT ![n].due = TRUE]
        \/ ttns' = [ttns EXCEPT ![n].old = TRUE]
    BY <1>4 DEF Parcels!PollEveryElapses, Parcels!Ages
  <2>4. RowsStep
    BY <2>3 DEF RowsStep
  <2>5. CopiesStep /\ MessagesStep /\ FunnelStep
    BY <2>1 DEF CopiesStep, MessagesStep, FunnelStep
  <2>. QED
    BY <1>1, <1>4, <2>1, <2>2, <2>4, <2>5 DEF Aside, telephonyVars, NotesStep
<1>. QED
  BY <1>2, <1>3, <1>4 DEF Time

LEMMA StopAside ==
    ASSUME BridgeInv, Stop
    PROVE  Aside
<1>1. UNCHANGED <<telephonyVars, posted>>
  BY DEF Stop
<1>2. ASSUME Abort \/ \E i \in DOMAIN batch : AbortInFlight(i), UNCHANGED trackingVars
      PROVE  Aside
  <2>1. UNCHANGED <<orders, outbox, deals>> /\ batch' = <<>> /\ pc' = "idle"
    BY <1>2 DEF Abort, AbortInFlight, DropBatch
  <2>2. QueueStep /\ Linking /\ Making /\ HandStep
    BY <2>1 DEF QueueStep, Linking, Making, HandStep
  <2>. QED
    BY <1>1, <1>2, <2>2, Beside DEF telephonyVars, NotesStep
<1>3. ASSUME Parcels!PollAbort PROVE Aside
  <2>1. /\ UNCHANGED <<orders, outbox, batch, pc, dealId, deals>>
        /\ UNCHANGED <<ttns, turns, sent, contacts, funnel>>
        /\ polled' = <<>> /\ toSend' = <<>> /\ poll' = "idle"
    BY <1>3 DEF Parcels!PollAbort, Parcels!workerVars, Parcels!crmVars
  <2>2. QueueStep /\ Linking /\ Making /\ HandStep
    BY <2>1, BesideOutbox
  <2>3. RowsStep /\ CopiesStep /\ MessagesStep /\ FunnelStep
    BY <2>1 DEF RowsStep, CopiesStep, MessagesStep, FunnelStep
  <2>. QED
    BY <1>1, <2>1, <2>2, <2>3 DEF Aside, telephonyVars, NotesStep
<1>. QED
  BY <1>2, <1>3 DEF Stop

\* What the goroutine of Run does, but for storing the answers of a poll.
LEMMA RunAside ==
    ASSUME BridgeInv, Run
    PROVE  Aside \/ (Parcels!PollAnswered /\ UNCHANGED <<telephonyVars, posted>>)
<1>1. UNCHANGED posted
  BY DEF Run
<1>2. ASSUME Parcels!Round, UNCHANGED telephonyVars PROVE Aside
  <2>1. ProcessOnce /\ UNCHANGED trackingVars
    BY <1>2 DEF Parcels!Round, Parcels!ProcessOnce, ProcessOnce,
                Parcels!DueJobs, DueJobs, Parcels!IsDue, IsDue, Parcels!Cardinality,
                Cardinality, Parcels!IsFiniteSet, IsFiniteSet, Parcels!crmVars, crmVars,
                Parcels!trackingVars, Parcels!pollVars, trackingVars
  <2>2. UNCHANGED <<orders, deals>> /\ pc' = "step"
    BY <2>1 DEF ProcessOnce, crmVars
  <2>3. QueueStep /\ Linking /\ Making /\ HandStep
    BY <2>1, <2>2 DEF QueueStep, Linking, Making, HandStep
  <2>. QED
    BY <1>1, <1>2, <2>1, <2>3, Beside DEF telephonyVars, NotesStep
<1>3. ASSUME NEW i \in DOMAIN batch, step(i) PROVE Aside
  <2>1. CASE /\ CreateStep(i) \/ CallRefused(i) \/ CallLost(i)
             /\ UNCHANGED <<telephonyVars, trackingVars>>
    BY <1>1, <2>1, CreateStepAside
  <2>2. CASE Phones!NoteStep(i) /\ UNCHANGED trackingVars
    BY <1>1, <2>2, NoteStepAside
  <2>3. CASE Parcels!StatusStep(i) /\ UNCHANGED telephonyVars
    BY <1>1, <2>3, StatusStepAside
  <2>. QED
    BY <1>3, <2>1, <2>2, <2>3 DEF step
<1>4. ASSUME Parcels!PollBegins \/ Parcels!PollFailed \/ Parcels!SendNotice,
             UNCHANGED telephonyVars
      PROVE  Aside
  <2>1. UNCHANGED <<orders, outbox, batch, pc, dealId, deals>>
    BY <1>4 DEF Parcels!PollBegins, Parcels!PollFailed, Parcels!SendNotice,
                Parcels!outboxVars, Parcels!workerVars, Parcels!crmVars
  <2>2. QueueStep /\ Linking /\ Making /\ HandStep
    BY <2>1, BesideOutbox
  <2>3. UNCHANGED <<ttns, turns, contacts, funnel>>
    BY <1>4 DEF Parcels!PollBegins, Parcels!PollFailed, Parcels!SendNotice
  <2>4. CopiesStep
    BY <1>4 DEF CopiesStep, Parcels!PollFailed, Parcels!SendNotice
  <2>5. MessagesStep
    BY <1>4 DEF MessagesStep, Parcels!PollBegins, Parcels!PollFailed
  <2>6. RowsStep /\ FunnelStep
    BY <2>3 DEF RowsStep, FunnelStep
  <2>. QED
    BY <1>1, <1>4, <2>2, <2>3, <2>4, <2>5, <2>6 DEF Aside, telephonyVars, NotesStep
<1>. QED
  BY <1>1, <1>2, <1>3, <1>4 DEF Run, Outbox, Polling, Parcels!PollStep

\* The handlers but for those that bring new orders or calls.
LEMMA HandlerAside ==
    ASSUME BridgeInv,
           \/ \E id \in DOMAIN deals : salesdrive(id)
           \/ \E n \in Numbers, ext \in ByHand : addTTN(n, ext)
           \/ \E i \in DOMAIN outbox : requeue(i)
    PROVE  Aside
<1>1. QueueInv
  BY DEF BridgeInv
<1>2. ASSUME NEW id \in DOMAIN deals, salesdrive(id) PROVE Aside
  <2>1. UNCHANGED <<calls, leads, posted>> /\ NotesStep
    BY <1>2 DEF salesdrive, telephonyVars, NotesStep
  <2>2. ASSUME OnSalesDrive(id), UNCHANGED trackingVars PROVE Aside
    <3>1. /\ UNCHANGED <<outbox, batch, pc, dealId, deals>>
          /\ orders' = SetSDOrderID(orders, deals[id], id)
      BY <2>2 DEF OnSalesDrive, workerVars, crmVars
    <3>2. QueueStep /\ Linking /\ Making /\ HandStep
      BY <3>1 DEF QueueStep, Linking, Making, HandStep
    <3>. QED
      BY <2>1, <2>2, <3>2, Beside
  <2>3. ASSUME NEW n \in Numbers, Parcels!WebhookWithTTN(id, n) PROVE Aside
    <3>1. /\ UNCHANGED <<outbox, batch, pc, dealId, deals>>
          /\ orders' = SetSDOrderID(orders, deals[id], id)
          /\ UNCHANGED <<turns, poll, polled, toSend, sent, contacts, funnel>>
          /\ ttns' = Parcels!AddTTN(ttns, n, deals[id], id)
      BY <2>3 DEF Parcels!WebhookWithTTN, Parcels!OnSalesDrive, Parcels!workerVars,
                  Parcels!crmVars, Parcels!pollVars, Parcels!SetSDOrderID,
                  SetSDOrderID, Parcels!NoId, NoId
    <3>2. QueueStep /\ Linking /\ Making /\ HandStep
      BY <3>1 DEF QueueStep, Linking, Making, HandStep
    <3>3. RowsStep
      BY <3>1 DEF RowsStep
    <3>4. CopiesStep /\ MessagesStep /\ FunnelStep
      BY <3>1 DEF CopiesStep, MessagesStep, FunnelStep
    <3>. QED
      BY <2>1, <3>1, <3>2, <3>3, <3>4 DEF Aside
  <2>. QED
    BY <1>2, <2>2, <2>3 DEF salesdrive
<1>3. ASSUME NEW n \in Numbers, NEW ext, addTTN(n, ext) PROVE Aside
  <2>1. /\ UNCHANGED <<orders, outbox, batch, pc, dealId, deals>>
        /\ UNCHANGED <<turns, poll, polled, toSend, sent, contacts, funnel>>
        /\ UNCHANGED <<calls, leads, notes, posted>>
    BY <1>3 DEF addTTN, Parcels!AddTTNByHand, Parcels!outboxVars,
                Parcels!workerVars, Parcels!crmVars, Parcels!pollVars, telephonyVars
  <2>2. \E id : ttns' = Parcels!AddTTN(ttns, n, ext, id)
    BY <1>3 DEF addTTN, Parcels!AddTTNByHand
  <2>3. QueueStep /\ Linking /\ Making /\ HandStep
    BY <2>1, BesideOutbox
  <2>4. RowsStep
    BY <2>2 DEF RowsStep
  <2>5. CopiesStep /\ MessagesStep /\ FunnelStep /\ NotesStep
    BY <2>1 DEF CopiesStep, MessagesStep, FunnelStep, NotesStep
  <2>. QED
    BY <2>1, <2>3, <2>4, <2>5 DEF Aside
<1>4. ASSUME NEW i \in DOMAIN outbox, requeue(i) PROVE Aside
  <2>1. /\ UNCHANGED <<orders, batch, pc, dealId, deals, calls, leads, notes, posted>>
        /\ UNCHANGED trackingVars /\ Requeue(i)
    BY <1>4 DEF requeue, Requeue, workerVars, crmVars, telephonyVars
  <2>2. QueueStep
    BY <1>1, <2>1, RowWrites DEF QueueStep
  <2>3. HandStep /\ Linking /\ Making
    BY <2>1 DEF HandStep, Linking, Making
  <2>. QED
    BY <2>1, <2>2, <2>3, Beside DEF NotesStep
<1>. QED
  BY <1>2, <1>3, <1>4

------------------------------------------------------------------------------
(* Steps that bring new jobs *)

\* What they leave alone; orders may be new.
Adds ==
    /\ Added /\ CallsGrow /\ RowsGrow
    /\ Linking \/ \E ext \in ExternalIds : orders' = InsertOrder(orders, ext)
    /\ contacts \subseteq contacts'
    /\ UNCHANGED <<deals, notes, funnel>>

LEMMA AddsKeeps ==
    ASSUME BridgeInv, Adds
    PROVE  /\ Grow
           /\ QueueInv' /\ CrmInv' /\ NotesInv' /\ DoneInv' /\ MovedInv' /\ HandInv'
           /\ \A i \in DOMAIN outbox : CreateJob(i)' \/ NoteJob(i)' \/ StatusJob(i)'
<1>1. /\ QueueInv /\ JobsInv /\ OwnJobsInv /\ OwnersInv
      /\ CrmInv /\ NotesInv /\ DoneInv
      /\ ParcelsInv /\ MessagesInv /\ MovedInv /\ HandInv
  BY DEF BridgeInv
<1>2. /\ Added /\ CallsGrow /\ RowsGrow /\ Making
      /\ NotesStep /\ FunnelStep /\ HandStep
      /\ Linking \/ \E ext \in ExternalIds : orders' = InsertOrder(orders, ext)
      /\ contacts \subseteq contacts'
  BY DEF Adds, Making, NotesStep, FunnelStep, HandStep, Added
<1>3. QueueInv' /\ OldJobs
  BY <1>1, <1>2, QueueKept
<1>4. CrmInv' /\ OrdersGrow
  BY <1>1, <1>2, CrmKept
<1>5. DealsGrow
  BY <1>1, <1>2, DealsMade
<1>6. NotesGrow
  BY <1>1, <1>2, NotesKept
<1>7. Grow
  BY <1>2, <1>3, <1>4, <1>5, <1>6 DEF Grow
<1>8. NotesInv'
  BY <1>1, <1>2, <1>7, NotesKept
<1>9. DoneInv'
  BY <1>1, <1>2, <1>7, DoneKept
<1>10. MovedInv'
  BY <1>1, <1>2, <1>7, FunnelKept
<1>11. HandInv'
  BY <1>1, <1>2, <1>7, HandKept
<1>12. \A i \in DOMAIN outbox : CreateJob(i)' \/ NoteJob(i)' \/ StatusJob(i)'
  BY <1>1, <1>7, OldJobsStay
<1>. QED
  BY <1>3, <1>4, <1>7, <1>8, <1>9, <1>10, <1>11, <1>12

\* Parcels and messages, when no poll has a part in the step.
LEMMA ParcelsBeside ==
    ASSUME BridgeInv, Grow, RowsStep,
           UNCHANGED <<turns, poll, polled, toSend, sent>>
    PROVE  ParcelsInv' /\ MessagesInv'
<1>1. ParcelsInv /\ MessagesInv
  BY DEF BridgeInv
<1>2. CopiesStep /\ MessagesStep
  BY DEF CopiesStep, MessagesStep
<1>3. ParcelsInv'
  BY <1>1, <1>2, CopiesKept
<1>4. MessagesInv'
  BY <1>1, <1>2, MessagesKept
<1>. QED
  BY <1>3, <1>4

LEMMA NothingAdded ==
    ASSUME QueueInv, UNCHANGED <<outbox, batch, pc, dealId>>
    PROVE  Added
  BY DEF QueueInv, Added

\* A job is put at the end of the outbox.
LEMMA OneAdded ==
    ASSUME QueueInv, NEW job, IsJob(job), job.state = "pending",
           outbox' = Append(outbox, job), UNCHANGED <<batch, pc, dealId>>
    PROVE  /\ Added
           /\ Len(outbox) + 1 \notin DOMAIN outbox
           /\ DOMAIN outbox' = DOMAIN outbox \cup {Len(outbox) + 1}
           /\ outbox'[Len(outbox) + 1] = job
<1>1. PICK S : outbox \in Seq(S)
  BY DEF QueueInv
<1>2. PICK T : T = S \cup {job}
  OBVIOUS
<1>3. outbox \in Seq(T) /\ job \in T
  BY <1>1, <1>2
<1>4. /\ outbox' \in Seq(T) /\ outbox'[Len(outbox) + 1] = job
      /\ Len(outbox) + 1 \notin DOMAIN outbox
      /\ DOMAIN outbox' = DOMAIN outbox \cup {Len(outbox) + 1}
      /\ \A k \in DOMAIN outbox : outbox'[k] = outbox[k]
  BY <1>3
<1>5. Added
  BY <1>4 DEF Added
<1>. QED
  BY <1>4, <1>5

LEMMA NewJobs ==
    ASSUME NEW key, NEW kind, NEW payload
    PROVE  LET job == NewJob(key, kind, payload)
           IN  /\ IsJob(job) /\ job.state = "pending"
               /\ job.key = key /\ job.kind = kind /\ job.payload = payload
<1>1. PICK job : job = NewJob(key, kind, payload)
  OBVIOUS
<1>2. /\ IsJob(job) /\ job.state = "pending"
      /\ job.key = key /\ job.kind = kind /\ job.payload = payload
  BY <1>1 DEF NewJob, IsJob, JobStates
<1>. QED
  BY <1>1, <1>2

\* A new job of a kind that each key has one of.
LEMMA OwnJobAdded ==
    ASSUME OwnJobsInv, OldJobs, NEW n, n \notin DOMAIN outbox,
           DOMAIN outbox' = DOMAIN outbox \cup {n},
           ~HasKey(outbox, outbox'[n].key)
    PROVE  \A i, j \in DOMAIN outbox' :
              outbox'[i].kind # "status" /\ outbox'[j].key = outbox'[i].key => i = j
<1> SUFFICES ASSUME NEW i \in DOMAIN outbox', NEW j \in DOMAIN outbox',
                    outbox'[i].kind # "status", outbox'[j].key = outbox'[i].key
             PROVE  i = j
  OBVIOUS
<1>1. \A k \in DOMAIN outbox : outbox'[k].key # outbox'[n].key
  BY DEF HasKey, OldJobs
<1>2. CASE i = n \/ j = n
  BY <1>1, <1>2
<1>3. CASE i # n /\ j # n
  BY <1>3 DEF OwnJobsInv, OldJobs
<1>. QED
  BY <1>2, <1>3

\* An order comes with the job that brings it to the CRM.
LEMMA OrderAdded ==
    ASSUME QueueInv, JobsInv, OwnJobsInv, NEW ext, ext \notin DOMAIN orders,
           DOMAIN orders' = DOMAIN orders \cup {ext},
           outbox' = EnqueueCreate(outbox, ext), UNCHANGED <<batch, pc, dealId>>
    PROVE  /\ Added /\ OwnJobsInv'
           /\ \A i \in DOMAIN outbox' \ DOMAIN outbox : CreateJob(i)'
           /\ \A call : HasNote(call)' <=> HasNote(call)
<1>1. ~HasKey(outbox, CreateKey(ext))
  <2>1. ASSUME NEW i \in DOMAIN outbox, outbox[i].key = CreateKey(ext) PROVE FALSE
    <3>1. CreateJob(i)
      BY <2>1, KeysAndKinds
    <3>. QED
      BY <2>1, <3>1 DEF CreateJob, CreateKey
  <2>. QED
    BY <2>1 DEF HasKey
<1>2. PICK job : job = NewJob(CreateKey(ext), "create_order", [ext |-> ext])
  OBVIOUS
<1>3. /\ IsJob(job) /\ job.state = "pending" /\ job.key = CreateKey(ext)
      /\ job.kind = "create_order" /\ job.payload = [ext |-> ext]
  BY <1>2, NewJobs
<1>4. outbox' = Append(outbox, job)
  BY <1>1, <1>2 DEF EnqueueCreate, Enqueue
<1>5. PICK n : n = Len(outbox) + 1
  OBVIOUS
<1>6. /\ Added /\ n \notin DOMAIN outbox /\ DOMAIN outbox' = DOMAIN outbox \cup {n}
      /\ outbox'[n] = job
  BY <1>3, <1>4, <1>5, OneAdded
<1>7. OldJobs
  BY <1>6 DEF Added, OldJobs
<1>8. CreateJob(n)'
  BY <1>3, <1>6 DEF CreateJob
<1>9. OwnJobsInv'
  <2>1. \A i, j \in DOMAIN outbox' :
           outbox'[i].kind # "status" /\ outbox'[j].key = outbox'[i].key => i = j
    BY <1>1, <1>3, <1>6, <1>7, OwnJobAdded
  <2>2. \A e \in DOMAIN orders' : \E i \in DOMAIN outbox' : outbox'[i].key = CreateKey(e)
    BY <1>3, <1>6, <1>7 DEF OwnJobsInv, HasKey, OldJobs
  <2>. QED
    BY <2>1, <2>2 DEF OwnJobsInv, HasKey
<1>10. \A call : HasNote(call)' <=> HasNote(call)
  <2>1. \A call : NoteKey(call) # job.key
    BY <1>3 DEF NoteKey, CreateKey
  <2>. QED
    BY <1>6, <1>7, <2>1 DEF HasNote, HasKey, OldJobs
<1>. QED
  BY <1>6, <1>8, <1>9, <1>10

------------------------------------------------------------------------------
(* Orders of the shop *)

LEMMA SiteOrderKeeps ==
    ASSUME BridgeInv, NEW ext \in ShopIds, siteOrder(ext)
    PROVE  BridgeInv'
<1>1. /\ QueueInv /\ JobsInv /\ OwnJobsInv /\ OwnersInv
      /\ ParcelsInv /\ MessagesInv
  BY DEF BridgeInv
<1>2. ext \in ExternalIds
  BY BridgeAssumption
<1>3. /\ orders' = InsertOrder(orders, ext) /\ posted' = posted \cup {ext}
      /\ UNCHANGED <<batch, pc, dealId, deals, calls, leads, notes>>
      /\ UNCHANGED <<turns, poll, polled, toSend, sent, funnel>>
      /\ IF ext \in DOMAIN orders
         THEN UNCHANGED <<outbox, ttns, contacts>>
         ELSE /\ outbox' = EnqueueCreate(outbox, ext)
              /\ contacts' = contacts \cup ({ext} \cap Chats)
              /\ \/ ttns' = ttns
                 \/ \E n \in Numbers : ttns' = Parcels!AddTTN(ttns, n, ext, NoId)
  BY DEF siteOrder, Parcels!Ingest, telephonyVars, Parcels!workerVars,
         Parcels!crmVars, Parcels!pollVars, Parcels!InsertOrder, InsertOrder,
         Parcels!NoId, NoId, Parcels!EnqueueCreate, EnqueueCreate,
         Parcels!Enqueue, Enqueue, Parcels!HasKey, HasKey, Parcels!NewJob, NewJob,
         Parcels!CreateKey, CreateKey
<1>4. DOMAIN orders' = DOMAIN orders \cup {ext}
  BY <1>3 DEF InsertOrder
<1>5. RowsStep
  BY <1>3 DEF RowsStep
<1>6. /\ Added /\ OwnJobsInv'
      /\ \A i \in DOMAIN outbox' \ DOMAIN outbox : CreateJob(i)'
      /\ \A call : HasNote(call)' <=> HasNote(call)
  <2>1. CASE ext \in DOMAIN orders
    <3>1. outbox' = outbox /\ DOMAIN orders' = DOMAIN orders
      BY <1>3, <1>4, <2>1
    <3>2. Added
      BY <1>1, <1>3, <3>1, NothingAdded
    <3>. QED
      BY <1>1, <3>1, <3>2 DEF OwnJobsInv, HasNote
  <2>2. CASE ext \notin DOMAIN orders
    <3>1. outbox' = EnqueueCreate(outbox, ext)
      BY <1>3, <2>2
    <3>. QED
      BY <1>1, <1>3, <1>4, <2>2, <3>1, OrderAdded
  <2>. QED
    BY <2>1, <2>2
<1>7. CallsGrow /\ RowsGrow
  BY <1>1, <1>3, <1>5, SameCalls, RowsKept
<1>8. Adds
  BY <1>2, <1>3, <1>6, <1>7 DEF Adds
<1>9. /\ Grow
      /\ QueueInv' /\ CrmInv' /\ NotesInv' /\ DoneInv' /\ MovedInv' /\ HandInv'
      /\ \A i \in DOMAIN outbox : CreateJob(i)' \/ NoteJob(i)' \/ StatusJob(i)'
  BY <1>8, AddsKeeps
<1>10. JobsInv'
  <2>1. \A i \in DOMAIN outbox' : CreateJob(i)' \/ NoteJob(i)' \/ StatusJob(i)'
    BY <1>6, <1>9
  <2>. QED
    BY <2>1 DEF JobsInv
<1>11. OwnersInv'
  <2>1. \A call : /\ Missed(call)' <=> Missed(call)
                  /\ HasLead(call)' <=> HasLead(call)
                  /\ HasNote(call)' <=> HasNote(call)
    BY <1>3, <1>6 DEF Missed, HasLead
  <2>2. \A k \in DOMAIN leads :
           leads[k].ext \in DOMAIN orders \ contacts /\ leads[k].ext \notin contacts'
    BY <1>1, <1>3 DEF OwnersInv
  <2>3. contacts' \subseteq posted'
    BY <1>1, <1>3 DEF OwnersInv
  <2>4. /\ DOMAIN calls' \subseteq CallIds /\ DOMAIN orders' \subseteq ExternalIds
        /\ posted' \subseteq DOMAIN orders'
    BY <1>1, <1>2, <1>3, <1>4 DEF OwnersInv
  <2>5. \A e \in DOMAIN orders' :
           e \in posted' \/ \E k \in DOMAIN leads' : leads'[k].ext = e
    BY <1>1, <1>3, <1>4 DEF OwnersInv
  <2>6. \A c : Missed(c)' => HasLead(c)' \/ HasNote(c)' \/ LeadId(c) \in posted'
    BY <1>1, <1>3, <2>1 DEF OwnersInv
  <2>. QED
    BY <1>1, <1>3, <1>4, <2>1, <2>2, <2>3, <2>4, <2>5, <2>6 DEF OwnersInv
<1>12. ParcelsInv' /\ MessagesInv'
  BY <1>3, <1>5, <1>9, ParcelsBeside
<1>. QED
  BY <1>6, <1>9, <1>10, <1>11, <1>12 DEF BridgeInv

------------------------------------------------------------------------------
(* Calls *)

Recorded(call, phone, kind) ==
    calls' = [c \in DOMAIN calls \cup {call} |->
                 IF c = call THEN [phone |-> phone, kind |-> kind, at |-> now]
                             ELSE calls[c]]

\* The call is recorded; nobody has a lead or a note of that name yet, and who has
\* an order of that name is the shop.
LEMMA RecordedCalls ==
    ASSUME JobsInv, OwnersInv, NEW call \in CallIds, call \notin DOMAIN calls,
           NEW phone, NEW kind, Recorded(call, phone, kind)
    PROVE  /\ DOMAIN calls' = DOMAIN calls \cup {call}
           /\ \A c : Missed(c)' <=> Missed(c) \/ (c = call /\ kind = "missed")
           /\ LeadId(call) \in DOMAIN orders => LeadId(call) \in posted
           /\ ~HasLead(call) /\ ~HasKey(outbox, NoteKey(call))
<1>1. PICK r : r = [phone |-> phone, kind |-> kind, at |-> now]
  OBVIOUS
<1>2. r.kind = kind
  BY <1>1
<1>3. /\ DOMAIN calls' = DOMAIN calls \cup {call} /\ calls'[call] = r
      /\ \A c \in DOMAIN calls : calls'[c] = calls[c]
  BY <1>1 DEF Recorded
<1>4. \A c : Missed(c)' <=> Missed(c) \/ (c = call /\ kind = "missed")
  BY <1>2, <1>3 DEF Missed
<1>5. \A c : LeadId(c) = LeadId(call) => c = call
  BY DEF LeadId
<1>6. ~HasLead(call)
  BY <1>5 DEF HasLead, OwnersInv, Missed
<1>7. LeadId(call) \in DOMAIN orders => LeadId(call) \in posted
  BY <1>6 DEF HasLead, OwnersInv
<1>8. ~HasKey(outbox, NoteKey(call))
  <2>1. ASSUME NEW i \in DOMAIN outbox, outbox[i].key = NoteKey(call) PROVE FALSE
    <3>1. /\ outbox[i].key = NoteKey(outbox[i].key[2])
          /\ Missed(outbox[i].key[2])
      BY <2>1, KeysAndKinds
    <3>2. outbox[i].key[2] = call
      BY <2>1 DEF NoteKey
    <3>. QED
      BY <3>1, <3>2 DEF Missed
  <2>. QED
    BY <2>1 DEF HasKey
<1>. QED
  BY <1>3, <1>4, <1>6, <1>7, <1>8

\* A call that was answered leaves nothing but its row.
LEMMA AnsweredKeeps ==
    ASSUME BridgeInv, NEW call \in CallIds, call \notin DOMAIN calls,
           NEW phone, NEW kind, kind # "missed", Recorded(call, phone, kind),
           UNCHANGED <<orders, outbox, batch, pc, dealId, deals, leads, notes>>,
           UNCHANGED <<ttns, turns, poll, polled, toSend, sent, funnel>>,
           UNCHANGED <<posted, contacts>>
    PROVE  BridgeInv'
<1>1. /\ QueueInv /\ JobsInv /\ OwnJobsInv /\ OwnersInv
      /\ ParcelsInv /\ MessagesInv
  BY DEF BridgeInv
<1>2. /\ DOMAIN calls' = DOMAIN calls \cup {call}
      /\ \A c : Missed(c)' <=> Missed(c)
  BY <1>1, RecordedCalls
<1>3. RowsStep /\ Linking
  BY DEF RowsStep, Linking
<1>4. CallsGrow /\ RowsGrow /\ Added
  BY <1>1, <1>2, <1>3, RowsKept, NothingAdded DEF CallsGrow
<1>5. Adds
  BY <1>3, <1>4 DEF Adds
<1>6. /\ Grow
      /\ QueueInv' /\ CrmInv' /\ NotesInv' /\ DoneInv' /\ MovedInv' /\ HandInv'
      /\ \A i \in DOMAIN outbox : CreateJob(i)' \/ NoteJob(i)' \/ StatusJob(i)'
  BY <1>5, AddsKeeps
<1>7. JobsInv'
  BY <1>6 DEF JobsInv
<1>8. OwnJobsInv'
  BY <1>1 DEF OwnJobsInv, HasKey
<1>9. OwnersInv'
  <2>1. \A c : /\ HasLead(c)' <=> HasLead(c)
               /\ HasNote(c)' <=> HasNote(c)
    BY DEF HasLead, HasNote, HasKey
  <2>. QED
    BY <1>1, <1>2, <2>1 DEF OwnersInv
<1>10. ParcelsInv' /\ MessagesInv'
  BY <1>3, <1>6, ParcelsBeside
<1>. QED
  BY <1>6, <1>7, <1>8, <1>9, <1>10 DEF BridgeInv

\* A repeat miss has a note, and no lead.
LEMMA NoteOnLeadKeeps ==
    ASSUME BridgeInv, NEW call \in CallIds, call \notin DOMAIN calls,
           NEW phone, Recorded(call, phone, "missed"), NEW k \in DOMAIN leads,
           outbox' = Enqueue(outbox, NoteKey(call), "note", [ext |-> leads[k].ext]),
           UNCHANGED <<orders, batch, pc, dealId, deals, leads, notes>>,
           UNCHANGED <<ttns, turns, poll, polled, toSend, sent, funnel>>,
           UNCHANGED <<posted, contacts>>
    PROVE  BridgeInv'
<1>1. /\ QueueInv /\ JobsInv /\ OwnJobsInv /\ OwnersInv
      /\ ParcelsInv /\ MessagesInv
  BY DEF BridgeInv
<1>2. /\ DOMAIN calls' = DOMAIN calls \cup {call}
      /\ \A c : Missed(c)' <=> Missed(c) \/ c = call
      /\ ~HasLead(call) /\ ~HasKey(outbox, NoteKey(call))
  BY <1>1, RecordedCalls
<1>3. PICK job : job = NewJob(NoteKey(call), "note", [ext |-> leads[k].ext])
  OBVIOUS
<1>4. /\ IsJob(job) /\ job.state = "pending" /\ job.key = NoteKey(call)
      /\ job.kind = "note" /\ job.payload = [ext |-> leads[k].ext]
  BY <1>3, NewJobs
<1>5. outbox' = Append(outbox, job)
  BY <1>2, <1>3 DEF Enqueue
<1>6. PICK n : n = Len(outbox) + 1
  OBVIOUS
<1>7. /\ Added /\ n \notin DOMAIN outbox /\ DOMAIN outbox' = DOMAIN outbox \cup {n}
      /\ outbox'[n] = job
  BY <1>1, <1>4, <1>5, <1>6, OneAdded
<1>8. OldJobs
  BY <1>7 DEF Added, OldJobs
<1>9. RowsStep /\ Linking
  BY DEF RowsStep, Linking
<1>10. CallsGrow /\ RowsGrow
  BY <1>1, <1>2, <1>9, RowsKept DEF CallsGrow
<1>11. Adds
  BY <1>7, <1>9, <1>10 DEF Adds
<1>12. /\ Grow
       /\ QueueInv' /\ CrmInv' /\ NotesInv' /\ DoneInv' /\ MovedInv' /\ HandInv'
       /\ \A i \in DOMAIN outbox : CreateJob(i)' \/ NoteJob(i)' \/ StatusJob(i)'
  BY <1>11, AddsKeeps
<1>13. NoteJob(n)'
  BY <1>2, <1>4, <1>7 DEF NoteJob
<1>14. JobsInv'
  BY <1>7, <1>12, <1>13 DEF JobsInv
<1>15. OwnJobsInv'
  <2>1. \A i, j \in DOMAIN outbox' :
           outbox'[i].kind # "status" /\ outbox'[j].key = outbox'[i].key => i = j
    BY <1>1, <1>2, <1>4, <1>7, <1>8, OwnJobAdded
  <2>. QED
    BY <1>1, <1>7, <1>8, <2>1 DEF OwnJobsInv, HasKey, OldJobs
<1>16. \A c : /\ HasLead(c)' <=> HasLead(c)
              /\ HasNote(c)' <=> HasNote(c) \/ c = call
  <2>1. \A c : NoteKey(c) = NoteKey(call) => c = call
    BY DEF NoteKey
  <2>. QED
    BY <1>4, <1>7, <1>8, <2>1 DEF HasLead, HasNote, HasKey, OldJobs
<1>17. OwnersInv'
  BY <1>1, <1>2, <1>16 DEF OwnersInv
<1>18. ParcelsInv' /\ MessagesInv'
  BY <1>9, <1>12, ParcelsBeside
<1>. QED
  BY <1>12, <1>14, <1>15, <1>17, <1>18 DEF BridgeInv

\* A miss whose lead's id the shop has taken leaves nothing but its row.
LEMMA LeadTakenKeeps ==
    ASSUME BridgeInv, NEW call \in CallIds, call \notin DOMAIN calls,
           NEW phone, Recorded(call, phone, "missed"),
           LeadId(call) \in DOMAIN orders,
           orders' = InsertOrder(orders, LeadId(call)),
           outbox' = EnqueueCreate(outbox, LeadId(call)),
           UNCHANGED <<leads, batch, pc, dealId, deals, notes>>,
           UNCHANGED <<ttns, turns, poll, polled, toSend, sent, funnel>>,
           UNCHANGED <<posted, contacts>>
    PROVE  BridgeInv'
<1>1. /\ QueueInv /\ JobsInv /\ OwnJobsInv /\ OwnersInv
      /\ ParcelsInv /\ MessagesInv
  BY DEF BridgeInv
<1>2. /\ DOMAIN calls' = DOMAIN calls \cup {call}
      /\ \A c : Missed(c)' <=> Missed(c) \/ c = call
      /\ LeadId(call) \in posted
  BY <1>1, RecordedCalls
<1>3. PICK ext : ext = LeadId(call)
  OBVIOUS
<1>4. ext \in ExternalIds /\ ext \in DOMAIN orders
  BY <1>1, <1>3 DEF OwnersInv
<1>5. orders' = InsertOrder(orders, ext) /\ DOMAIN orders' = DOMAIN orders
  BY <1>3, <1>4 DEF InsertOrder
<1>6. outbox' = outbox
  <2>1. HasKey(outbox, CreateKey(ext))
    BY <1>1, <1>4 DEF OwnJobsInv
  <2>. QED
    BY <1>3, <2>1 DEF EnqueueCreate, Enqueue
<1>7. RowsStep
  BY DEF RowsStep
<1>8. CallsGrow /\ RowsGrow /\ Added
  BY <1>1, <1>2, <1>6, <1>7, RowsKept, NothingAdded DEF CallsGrow
<1>9. Adds
  BY <1>4, <1>5, <1>8 DEF Adds
<1>10. /\ Grow
       /\ QueueInv' /\ CrmInv' /\ NotesInv' /\ DoneInv' /\ MovedInv' /\ HandInv'
       /\ \A i \in DOMAIN outbox : CreateJob(i)' \/ NoteJob(i)' \/ StatusJob(i)'
  BY <1>9, AddsKeeps
<1>11. JobsInv'
  <2>1. \A i \in DOMAIN outbox' : CreateJob(i)' \/ NoteJob(i)' \/ StatusJob(i)'
    BY <1>6, <1>10
  <2>. QED
    BY <2>1 DEF JobsInv
<1>12. OwnJobsInv'
  BY <1>1, <1>5, <1>6 DEF OwnJobsInv, HasKey
<1>13. OwnersInv'
  <2>1. \A c : /\ HasLead(c)' <=> HasLead(c)
               /\ HasNote(c)' <=> HasNote(c)
    BY <1>6 DEF HasLead, HasNote, HasKey
  <2>. QED
    BY <1>1, <1>2, <1>5, <2>1 DEF OwnersInv
<1>14. ParcelsInv' /\ MessagesInv'
  BY <1>7, <1>10, ParcelsBeside
<1>. QED
  BY <1>10, <1>11, <1>12, <1>13, <1>14 DEF BridgeInv

\* A first miss has a lead, an order with its job, and no note.
LEMMA NewLeadKeeps ==
    ASSUME BridgeInv, NEW call \in CallIds, call \notin DOMAIN calls,
           NEW phone, Recorded(call, phone, "missed"),
           NEW row, row.ext = LeadId(call),
           orders' = InsertOrder(orders, LeadId(call)),
           LeadId(call) \notin DOMAIN orders, leads' = Append(leads, row),
           outbox' = EnqueueCreate(outbox, LeadId(call)),
           UNCHANGED <<batch, pc, dealId, deals, notes>>,
           UNCHANGED <<ttns, turns, poll, polled, toSend, sent, funnel>>,
           UNCHANGED <<posted, contacts>>
    PROVE  BridgeInv'
<1>1. /\ QueueInv /\ JobsInv /\ OwnJobsInv /\ OwnersInv
      /\ ParcelsInv /\ MessagesInv
  BY DEF BridgeInv
<1>2. /\ DOMAIN calls' = DOMAIN calls \cup {call}
      /\ \A c : Missed(c)' <=> Missed(c) \/ c = call
      /\ ~HasLead(call) /\ ~HasKey(outbox, NoteKey(call))
  BY <1>1, RecordedCalls
<1>3. PICK ext : ext = LeadId(call)
  OBVIOUS
<1>4. ext \in ExternalIds /\ ext \notin DOMAIN orders
  BY <1>3, PartsAssumption DEF Phones!TelephonyAssumption, Phones!LeadId, LeadId
<1>5. orders' = InsertOrder(orders, ext) /\ DOMAIN orders' = DOMAIN orders \cup {ext}
  BY <1>3 DEF InsertOrder
<1>6. outbox' = EnqueueCreate(outbox, ext)
  BY <1>3
<1>7. /\ Added /\ OwnJobsInv'
      /\ \A i \in DOMAIN outbox' \ DOMAIN outbox : CreateJob(i)'
      /\ \A c : HasNote(c)' <=> HasNote(c)
  BY <1>1, <1>4, <1>5, <1>6, OrderAdded
<1>8. PICK n : n = Len(leads) + 1
  OBVIOUS
<1>9. /\ \E S : leads' \in Seq(S)
      /\ n \notin DOMAIN leads /\ DOMAIN leads' = DOMAIN leads \cup {n}
      /\ leads'[n] = row /\ \A k \in DOMAIN leads : leads'[k] = leads[k]
  <2>1. PICK S : leads \in Seq(S)
    BY <1>1 DEF OwnersInv
  <2>2. PICK T : T = S \cup {row}
    OBVIOUS
  <2>3. leads \in Seq(T) /\ row \in T
    BY <2>1, <2>2
  <2>. QED
    BY <1>8, <2>3
<1>10. RowsStep
  BY DEF RowsStep
<1>11. CallsGrow /\ RowsGrow
  BY <1>1, <1>2, <1>9, <1>10, RowsKept DEF CallsGrow
<1>12. Adds
  BY <1>4, <1>5, <1>7, <1>11 DEF Adds
<1>13. /\ Grow
       /\ QueueInv' /\ CrmInv' /\ NotesInv' /\ DoneInv' /\ MovedInv' /\ HandInv'
       /\ \A i \in DOMAIN outbox : CreateJob(i)' \/ NoteJob(i)' \/ StatusJob(i)'
  BY <1>12, AddsKeeps
<1>14. JobsInv'
  <2>1. \A i \in DOMAIN outbox' : CreateJob(i)' \/ NoteJob(i)' \/ StatusJob(i)'
    BY <1>7, <1>13
  <2>. QED
    BY <2>1 DEF JobsInv
<1>15. \A c : LeadId(c) = ext => c = call
  BY <1>3 DEF LeadId
<1>16. /\ leads'[n].ext = ext
       /\ \A k \in DOMAIN leads : leads'[k].ext = leads[k].ext /\ leads[k].ext # ext
  BY <1>1, <1>3, <1>4, <1>9 DEF OwnersInv
<1>17. \A c : HasLead(c)' <=> HasLead(c) \/ c = call
  BY <1>3, <1>9, <1>15, <1>16 DEF HasLead
<1>18. ~HasNote(call)
  BY <1>2 DEF HasNote
<1>19. OwnersInv'
  <2>1. DOMAIN calls' \subseteq CallIds /\ DOMAIN orders' \subseteq ExternalIds
    BY <1>1, <1>2, <1>4, <1>5 DEF OwnersInv
  <2>2. \A e \in DOMAIN orders' :
           e \in posted' \/ \E k \in DOMAIN leads' : leads'[k].ext = e
    BY <1>1, <1>5, <1>9, <1>16 DEF OwnersInv
  <2>3. posted' \subseteq DOMAIN orders' /\ contacts' \subseteq posted'
    BY <1>1, <1>5 DEF OwnersInv
  <2>4. \A k \in DOMAIN leads' :
           /\ leads'[k].ext \in DOMAIN orders' \ contacts'
           /\ \E c \in DOMAIN calls' : Missed(c)' /\ leads'[k].ext = LeadId(c)
    BY <1>1, <1>2, <1>3, <1>4, <1>5, <1>9, <1>16 DEF OwnersInv
  <2>5. \A j, k \in DOMAIN leads' : leads'[j].ext = leads'[k].ext => j = k
    BY <1>1, <1>9, <1>16 DEF OwnersInv
  <2>6. \A c : Missed(c)' => HasLead(c)' \/ HasNote(c)' \/ LeadId(c) \in posted'
    BY <1>1, <1>2, <1>7, <1>17 DEF OwnersInv
  <2>7. \A c : ~(HasLead(c)' /\ HasNote(c)')
    BY <1>1, <1>7, <1>17, <1>18 DEF OwnersInv
  <2>. QED
    BY <1>9, <2>1, <2>2, <2>3, <2>4, <2>5, <2>6, <2>7 DEF OwnersInv
<1>20. ParcelsInv' /\ MessagesInv'
  BY <1>10, <1>13, ParcelsBeside
<1>. QED
  BY <1>7, <1>13, <1>14, <1>19, <1>20 DEF BridgeInv

LEMMA CallKeeps ==
    ASSUME BridgeInv, NEW call \in CallIds, NEW kind, binotel(call, kind)
    PROVE  BridgeInv'
<1>1. /\ UNCHANGED <<batch, pc, dealId, deals, notes>>
      /\ UNCHANGED <<ttns, turns, poll, polled, toSend, sent, funnel>>
      /\ UNCHANGED <<posted, contacts>>
  BY DEF binotel, Phones!OnCall, Phones!workerVars, Phones!crmVars, trackingVars
<1>2. CASE UNCHANGED <<orders, outbox, calls, leads>>
  <2>1. QueueStep /\ Linking /\ Making /\ HandStep
    BY <1>1, <1>2, BesideOutbox
  <2>2. Aside
    BY <1>1, <1>2, <2>1, Beside DEF NotesStep, trackingVars
  <2>. QED
    BY <2>2, AsideKeeps
<1>3. ASSUME call \notin DOMAIN calls, NEW phone, Phones!Completed(call, phone, kind)
      PROVE  BridgeInv'
  <2>1. Recorded(call, phone, kind)
    BY <1>3 DEF Phones!Completed, Recorded
  <2>2. CASE kind # "missed"
    <3>1. UNCHANGED <<orders, outbox, leads>>
      BY <1>3, <2>2 DEF Phones!Completed
    <3>. QED
      BY <1>1, <1>3, <2>1, <2>2, <3>1, AnsweredKeeps
  <2>3. CASE kind = "missed" /\ Phones!NoteOnLead(call, phone)
    <3>1. PICK k \in DOMAIN leads :
             /\ outbox' = Enqueue(outbox, NoteKey(call), "note",
                                  [ext |-> leads[k].ext])
             /\ UNCHANGED <<orders, leads>>
      BY <2>3 DEF Phones!NoteOnLead, Phones!RecentLeads, Phones!NoteKey, NoteKey,
                  Phones!Enqueue, Enqueue, Phones!HasKey, HasKey, Phones!NewJob, NewJob
    <3>2. Recorded(call, phone, "missed")
      BY <2>1, <2>3
    <3>. QED
      BY <1>1, <1>3, <3>1, <3>2, NoteOnLeadKeeps
  <2>4. CASE kind = "missed" /\ Phones!NewLead(call, phone)
    <3>1. PICK row : row = [ext |-> LeadId(call), phone |-> phone, at |-> now]
      OBVIOUS
    <3>2. /\ orders' = InsertOrder(orders, LeadId(call))
          /\ leads' = IF LeadId(call) \in DOMAIN orders THEN leads
                      ELSE Append(leads, row)
          /\ outbox' = EnqueueCreate(outbox, LeadId(call))
      BY <2>4, <3>1
         DEF Phones!NewLead, Phones!LeadId, LeadId, Phones!InsertOrder, InsertOrder,
             Phones!NoId, NoId, Phones!EnqueueCreate, EnqueueCreate,
             Phones!Enqueue, Enqueue, Phones!HasKey, HasKey, Phones!NewJob, NewJob,
             Phones!CreateKey, CreateKey
    <3>3. row.ext = LeadId(call) /\ Recorded(call, phone, "missed")
      BY <2>1, <2>4, <3>1
    <3>4. CASE LeadId(call) \in DOMAIN orders
      BY <1>1, <1>3, <3>2, <3>3, <3>4, LeadTakenKeeps
    <3>5. CASE LeadId(call) \notin DOMAIN orders
      BY <1>1, <1>3, <3>2, <3>3, <3>5, NewLeadKeeps
    <3>. QED
      BY <3>4, <3>5
  <2>. QED
    BY <1>3, <2>2, <2>3, <2>4 DEF Phones!Completed
<1>4. \/ UNCHANGED <<orders, outbox, calls, leads>>
      \/ /\ call \notin DOMAIN calls
         /\ \E phone : Phones!Completed(call, phone, kind)
  BY DEF binotel, Phones!OnCall
<1>. QED
  BY <1>2, <1>3, <1>4

------------------------------------------------------------------------------
(* The order of a poll *)

\* The parts count sets as the bridge does.
LEMMA SameCounts ==
    ASSUME NEW S
    PROVE  /\ Parcels!Cardinality(S) = Cardinality(S)
           /\ Phones!Cardinality(S) = Cardinality(S)
           /\ Parcels!IsFiniteSet(S) <=> IsFiniteSet(S)
  BY DEF Parcels!Cardinality, Phones!Cardinality, Cardinality,
         Parcels!IsFiniteSet, IsFiniteSet

LEMMA FewParcels == Numbers \subseteq Nat /\ IsFiniteSet(Numbers)
  BY PartsAssumption, SameCounts DEF Parcels!TrackingAssumption

\* The parcels of S that come before n.
Ahead(S, n) == {m \in S : Parcels!Before(m, n)}

LEMMA BeforeOrders ==
    ASSUME ParcelsInv
    PROVE  \A l, m, n \in Numbers :
              /\ ~Parcels!Before(n, n)
              /\ Parcels!Before(l, m) /\ Parcels!Before(m, n) => Parcels!Before(l, n)
              /\ m # n => Parcels!Before(m, n) \/ Parcels!Before(n, m)
<1> SUFFICES ASSUME NEW l \in Numbers, NEW m \in Numbers, NEW n \in Numbers
             PROVE  /\ ~Parcels!Before(n, n)
                    /\ Parcels!Before(l, m) /\ Parcels!Before(m, n)
                          => Parcels!Before(l, n)
                    /\ m # n => Parcels!Before(m, n) \/ Parcels!Before(n, m)
  OBVIOUS
<1>1. /\ turns[l] \in Nat /\ turns[m] \in Nat /\ turns[n] \in Nat
      /\ l \in Nat /\ m \in Nat /\ n \in Nat
  BY FewParcels DEF ParcelsInv
<1>. QED
  BY <1>1 DEF Parcels!Before

\* Places are below the number of parcels, and two parcels have two places.
LEMMA PlacesDiffer ==
    ASSUME ParcelsInv, NEW S \in SUBSET Numbers
    PROVE  /\ IsFiniteSet(S) /\ Cardinality(S) \in Nat
           /\ \A n \in S : Parcels!Place(S, n) \in 0 .. (Cardinality(S) - 1)
           /\ \A m, n \in S : Parcels!Place(S, m) = Parcels!Place(S, n) => m = n
<1>1. IsFiniteSet(S) /\ Cardinality(S) \in Nat
  BY FewParcels, FS_Subset, FS_CardinalityType
<1>2. ASSUME NEW n \in S
      PROVE  /\ IsFiniteSet(Ahead(S, n))
             /\ Parcels!Place(S, n) = Cardinality(Ahead(S, n))
             /\ Parcels!Place(S, n) \in 0 .. (Cardinality(S) - 1)
  <2>1. Ahead(S, n) \in SUBSET (S \ {n})
    BY <1>2, BeforeOrders DEF Ahead
  <2>2. IsFiniteSet(S \ {n}) /\ Cardinality(S \ {n}) = Cardinality(S) - 1
    BY <1>1, <1>2, FS_RemoveElement
  <2>3. /\ IsFiniteSet(Ahead(S, n))
        /\ Cardinality(Ahead(S, n)) <= Cardinality(S \ {n})
    BY <2>1, <2>2, FS_Subset
  <2>4. Cardinality(Ahead(S, n)) \in Nat
    BY <2>3, FS_CardinalityType
  <2>5. Parcels!Place(S, n) = Cardinality(Ahead(S, n))
    BY SameCounts DEF Parcels!Place, Ahead
  <2>. QED
    BY <1>1, <2>2, <2>3, <2>4, <2>5
<1>3. ASSUME NEW m \in S, NEW n \in S, Parcels!Before(m, n)
      PROVE  Parcels!Place(S, m) # Parcels!Place(S, n)
  <2>1. /\ Ahead(S, m) \in SUBSET Ahead(S, n)
        /\ m \in Ahead(S, n) /\ m \notin Ahead(S, m)
    BY <1>3, BeforeOrders DEF Ahead
  <2>2. IsFiniteSet(Ahead(S, n))
    BY <1>2
  <2>3. Cardinality(Ahead(S, n)) = Cardinality(Ahead(S, m))
           => Ahead(S, n) = Ahead(S, m)
    BY <2>1, <2>2, FS_Subset
  <2>. QED
    BY <1>2, <2>1, <2>3
<1>4. \A m, n \in S : Parcels!Place(S, m) = Parcels!Place(S, n) => m = n
  BY <1>3, BeforeOrders
<1>. QED
  BY <1>1, <1>2, <1>4

\* InTurn lists parcels of the set it is given.
LEMMA InTurnLists ==
    ASSUME ParcelsInv, NEW S \in SUBSET Numbers
    PROVE  /\ Cardinality(S) \in Nat
           /\ Parcels!InTurn(S) \in [1 .. Cardinality(S) -> S]
<1> DEFINE c == Cardinality(S)
           f == [n \in S |-> Parcels!Place(S, n) + 1]
<1>1. /\ IsFiniteSet(S) /\ c \in Nat
      /\ \A n \in S : Parcels!Place(S, n) \in 0 .. (c - 1)
      /\ \A m, n \in S : Parcels!Place(S, m) = Parcels!Place(S, n) => m = n
  BY PlacesDiffer
<1>2. f \in Injection(S, 1 .. c)
  BY <1>1 DEF Injection, IsInjective
<1>3. IsFiniteSet(1 .. c) /\ Cardinality(1 .. c) = c
  BY <1>1, FS_Interval
<1>4. f \in Surjection(S, 1 .. c)
  BY <1>1, <1>2, <1>3, FS_Injection
<1>5. ASSUME NEW k \in 1 .. c PROVE \E n \in S : Parcels!Place(S, n) = k - 1
  <2>1. PICK n \in S : f[n] = k
    BY <1>4, <1>5 DEF Surjection
  <2>. QED
    BY <1>1, <1>5, <2>1
<1>6. PICK s : s = Parcels!InTurn(S)
  OBVIOUS
<1>7. s = [k \in 1 .. c |-> CHOOSE n \in S : Parcels!Place(S, n) = k - 1]
  BY <1>6, SameCounts DEF Parcels!InTurn
<1>8. s \in [1 .. c -> S]
  BY <1>5, <1>7
<1>. QED
  BY <1>1, <1>6, <1>8

\* A list put after another.
LEMMA Joined ==
    ASSUME NEW S, NEW s \in Seq(S), NEW T, NEW t \in Seq(T), NEW M, M = s \o t
    PROVE  /\ \E U : M \in Seq(U)
           /\ DOMAIN s \subseteq DOMAIN M
           /\ \A k \in DOMAIN s : M[k] = s[k]
           /\ \A k \in DOMAIN M \ DOMAIN s : \E p \in DOMAIN t : M[k] = t[p]
<1>1. PICK U : U = S \cup T
  OBVIOUS
<1>2. s \in Seq(U) /\ t \in Seq(U)
  BY <1>1
<1>3. M \in Seq(U)
  BY ONLY <1>2, M = s \o t
<1>4. PICK a, c : a = Len(s) /\ c = Len(t)
  OBVIOUS
<1>5. a \in Nat /\ c \in Nat /\ DOMAIN s = 1 .. a /\ DOMAIN t = 1 .. c
  BY ONLY <1>2, <1>4
<1>6. Len(M) = a + c /\ DOMAIN M = 1 .. (a + c)
  <2>1. Len(M) = Len(s) + Len(t)
    BY ONLY <1>2, M = s \o t
  <2>2. DOMAIN M = 1 .. Len(M)
    BY ONLY <1>3
  <2>. QED
    BY <1>4, <2>1, <2>2
<1>7. \A k \in 1 .. a : M[k] = s[k]
  BY ONLY <1>2, <1>4, M = s \o t
<1>8. \A p \in 1 .. c : M[a + p] = t[p]
  BY ONLY <1>2, <1>4, M = s \o t
<1>9. ASSUME NEW k \in DOMAIN M, k \notin DOMAIN s
      PROVE  \E p \in DOMAIN t : M[k] = t[p]
  <2>1. k - a \in 1 .. c /\ k = a + (k - a)
    BY <1>5, <1>6, <1>9
  <2>. QED
    BY <1>5, <1>8, <2>1
<1>10. DOMAIN s \subseteq DOMAIN M
  BY <1>5, <1>6
<1>11. \A k \in DOMAIN s : M[k] = s[k]
  BY <1>5, <1>7
<1>. QED
  BY <1>3, <1>9, <1>10, <1>11

------------------------------------------------------------------------------
(* What a poll stores *)

\* Answers for some of the parcels that were asked about.
Answers(got) == DOMAIN got \subseteq DOMAIN polled

\* The parcels that a poll tells of, the ones it moves, and with what.
NewsTold(got) == {n \in Parcels!News(got) : Parcels!Announced(n, got[n])}
NewsMoved(got) ==
    {n \in Parcels!News(got) :
        got[n] \in Mapped /\ ~HasKey(outbox, StatusKey(n, got[n]))}
NoticeFor(n, got) ==
    [number |-> n, stage |-> Parcels!Stage(got[n]),
     to |-> Parcels!Recipient(n, got[n])]
StatusJobFor(n, got) ==
    NewJob(StatusKey(n, got[n]), "status",
           [ext |-> polled[n].ext, sd |-> polled[n].sd, status |-> got[n]])

LEMMA QueueNewsMeans ==
    ASSUME NEW got, Parcels!QueueNews(got)
    PROVE  /\ outbox' = outbox \o
                 [k \in DOMAIN Parcels!InTurn(NewsMoved(got)) |->
                     StatusJobFor(Parcels!InTurn(NewsMoved(got))[k], got)]
           /\ toSend' = [k \in DOMAIN Parcels!InTurn(NewsTold(got)) |->
                            NoticeFor(Parcels!InTurn(NewsTold(got))[k], got)]
  BY DEF Parcels!QueueNews, NewsMoved, NewsTold, NoticeFor, StatusJobFor,
         Parcels!HasKey, HasKey, Parcels!StatusKey, StatusKey, Parcels!NewJob, NewJob

\* The parcels that there are news of, in this state.
LEMMA NewsKnown ==
    ASSUME ParcelsInv, NEW got, Answers(got), NEW n \in Parcels!News(got)
    PROVE  /\ n \in Numbers /\ n \in DOMAIN ttns /\ n \in DOMAIN polled
           /\ ttns[n].rank < Parcels!Rank(got[n])
           /\ LinkedAs(n, polled[n].sd, polled[n].ext)
<1>1. n \in DOMAIN got /\ Parcels!Rank(got[n]) > polled[n].rank
  BY DEF Parcels!News, Parcels!Forward
<1>2. n \in DOMAIN polled
  BY <1>1 DEF Answers
<1>3. /\ n \in Numbers /\ n \in DOMAIN ttns /\ polled[n].rank = ttns[n].rank
      /\ LinkedAs(n, polled[n].sd, polled[n].ext)
  BY <1>2 DEF ParcelsInv
<1>. QED
  BY <1>1, <1>2, <1>3

\* A poll writes the progress of a row and none of its links.
LEMMA RowPolled ==
    ASSUME ParcelsInv, NEW got, Answers(got), Parcels!WriteBack(got),
           NEW n \in DOMAIN ttns
    PROVE  /\ IsRow(ttns'[n])
           /\ ttns'[n].ext = ttns[n].ext /\ ttns'[n].sd = ttns[n].sd
           /\ n \in Parcels!News(got) => ttns'[n].rank = Parcels!Rank(got[n])
           /\ ttns'[n].rank \in Nat /\ ttns[n].rank <= ttns'[n].rank
<1>1. PICK r : r = ttns[n]
  OBVIOUS
<1>2. IsRow(r) /\ r.rank \in Nat
  BY <1>1 DEF ParcelsInv, IsRow
<1>3. CASE n \notin DOMAIN polled
  <2>1. ttns'[n] = r
    BY <1>1, <1>3 DEF Parcels!WriteBack
  <2>2. n \notin Parcels!News(got)
    BY <1>3 DEF Parcels!News, Answers
  <2>. QED
    BY <1>1, <1>2, <2>1, <2>2
<1>4. CASE n \in DOMAIN polled
  <2>1. PICK p, x : p = polled[n] /\ x = Parcels!PolledRow(n, got)
    OBVIOUS
  <2>2. IsRow(p) /\ p.rank = r.rank
    BY <1>1, <1>4, <2>1 DEF ParcelsInv
  <2>3. PICK c, k, f :
           /\ c = IF n \in Parcels!News(got) THEN got[n] ELSE p.code
           /\ k = IF n \in Parcels!News(got) THEN Parcels!Rank(got[n]) ELSE p.rank
           /\ f = (\/ p.final \/ ttns[n].old
                   \/ n \in Parcels!News(got) /\ Parcels!Final(got[n]))
    OBVIOUS
  <2>4. x = [p EXCEPT !.code = c, !.rank = k, !.final = f, !.due = FALSE]
    BY <2>1, <2>3 DEF Parcels!PolledRow
  <2>5. x.rank = k
    BY <2>2, <2>4 DEF IsRow
  <2>6. PICK a, b, d, e : a = x.code /\ b = x.rank /\ d = x.final /\ e = x.due
    OBVIOUS
  <2>7. PICK y : y = [r EXCEPT !.code = a, !.rank = b, !.final = d, !.due = e]
    OBVIOUS
  <2>8. ttns'[n] = y
    BY <1>1, <1>4, <2>1, <2>6, <2>7 DEF Parcels!WriteBack, Parcels!UpdateTTN
  <2>9. k \in Nat
    BY <2>2, <2>3, <1>2, RankNat
  <2>10. IsRow(y) /\ y.ext = r.ext /\ y.sd = r.sd /\ y.rank = k
    BY <1>2, <2>5, <2>6, <2>7, <2>9 DEF IsRow
  <2>11. r.rank <= k
    <3>1. CASE n \in Parcels!News(got)
      <4>1. r.rank < Parcels!Rank(got[n])
        BY <1>1, <3>1, NewsKnown
      <4>. QED
        BY <1>2, <2>3, <2>9, <3>1, <4>1
    <3>2. CASE n \notin Parcels!News(got)
      BY <1>2, <2>2, <2>3, <3>2
    <3>. QED
      BY <3>1, <3>2
  <2>. QED
    BY <1>1, <2>3, <2>8, <2>9, <2>10, <2>11
<1>. QED
  BY <1>3, <1>4

\* polled_at stays a time.
LEMMA TurnsTaken ==
    ASSUME Parcels!TakeTurn
    PROVE  turns' \in [Numbers -> Nat]
<1> DEFINE after(n) == IF n \in DOMAIN polled THEN 1 + Cardinality(Numbers)
                                              ELSE turns[n]
           f == [m \in Numbers |-> after(m)]
           all == {after(m) : m \in Numbers}
<1>1. turns' = [n \in Numbers |-> Cardinality({t \in all \ {0} : t <= after(n)})]
  BY SameCounts DEF Parcels!TakeTurn
<1>2. f \in Surjection(Numbers, all)
  BY DEF Surjection
<1>3. IsFiniteSet(all)
  BY <1>2, FewParcels, FS_Surjection
<1>. HIDE DEF all, after
<1>4. ASSUME NEW n \in Numbers
      PROVE  Cardinality({t \in all \ {0} : t <= after(n)}) \in Nat
  <2>1. PICK T : T = {t \in all \ {0} : t <= after(n)}
    OBVIOUS
  <2>2. T \in SUBSET all
    BY <2>1
  <2>3. IsFiniteSet(T)
    BY <1>3, <2>2, FS_Subset
  <2>4. Cardinality(T) \in Nat
    BY <2>3, FS_CardinalityType
  <2>. QED
    BY <2>1, <2>4
<1>5. PICK u : u = turns'
  OBVIOUS
<1>6. u \in [Numbers -> Nat]
  BY <1>1, <1>4, <1>5
<1>. QED
  BY <1>5, <1>6

\* The jobs a poll adds are status jobs of the parcels it moves.
LEMMA JobsPolled ==
    ASSUME QueueInv, ParcelsInv, NEW got, Answers(got), Parcels!QueueNews(got),
           UNCHANGED <<batch, pc, dealId>>
    PROVE  /\ Added
           /\ \A i \in DOMAIN outbox' \ DOMAIN outbox :
                 \E n \in Parcels!News(got) : outbox'[i] = StatusJobFor(n, got)
<1>1. PICK moved, c : /\ moved = Parcels!InTurn(NewsMoved(got))
                      /\ c = Cardinality(NewsMoved(got))
  OBVIOUS
<1>2. NewsMoved(got) \in SUBSET Numbers
  BY NewsKnown DEF NewsMoved
<1>3. c \in Nat /\ moved \in [1 .. c -> NewsMoved(got)]
  BY <1>1, <1>2, InTurnLists
<1>4. PICK T : T = {StatusJobFor(n, got) : n \in NewsMoved(got)}
  OBVIOUS
<1>5. PICK t : t = [k \in 1 .. c |-> StatusJobFor(moved[k], got)]
  OBVIOUS
<1>6. t \in Seq(T) /\ DOMAIN t = 1 .. c
  <2>1. t \in [1 .. c -> T]
    BY <1>3, <1>4, <1>5
  <2>. QED
    BY <1>3, <2>1
<1>7. outbox' = outbox \o t
  BY <1>1, <1>3, <1>5, QueueNewsMeans
<1>8. PICK S : outbox \in Seq(S)
  BY DEF QueueInv
<1>9. PICK s, M : s = outbox /\ M = s \o t
  OBVIOUS
<1>10. /\ \E U : M \in Seq(U)
       /\ DOMAIN s \subseteq DOMAIN M
       /\ \A k \in DOMAIN s : M[k] = s[k]
       /\ \A k \in DOMAIN M \ DOMAIN s : \E p \in DOMAIN t : M[k] = t[p]
  <2>1. s \in Seq(S) /\ M = s \o t
    BY <1>8, <1>9
  <2>2. t \in Seq(T)
    BY <1>6
  <2>3. \E U : M \in Seq(U)
    BY <2>1, <2>2, Joined
  <2>4. DOMAIN s \subseteq DOMAIN M
    BY <2>1, <2>2, Joined
  <2>5. \A k \in DOMAIN s : M[k] = s[k]
    BY <2>1, <2>2, Joined
  <2>6. \A k \in DOMAIN M \ DOMAIN s : \E p \in DOMAIN t : M[k] = t[p]
    BY <2>1, <2>2, Joined
  <2>. QED
    BY <2>3, <2>4, <2>5, <2>6
<1>11. \A k \in DOMAIN M \ DOMAIN s :
          \E n \in Parcels!News(got) : M[k] = StatusJobFor(n, got)
  <2>1. \A p \in 1 .. c : \E n \in Parcels!News(got) : t[p] = StatusJobFor(n, got)
    BY <1>3, <1>5 DEF NewsMoved
  <2>. QED
    BY <1>6, <1>10, <2>1
<1>12. \A n : IsJob(StatusJobFor(n, got)) /\ StatusJobFor(n, got).state = "pending"
  BY NewJobs DEF StatusJobFor
<1>13. outbox' = M
  BY <1>7, <1>9
<1>14. Added
  <2>1. \A k \in DOMAIN M \ DOMAIN s : IsJob(M[k]) /\ M[k].state = "pending"
    BY <1>11, <1>12
  <2>. QED
    BY <1>9, <1>10, <1>13, <2>1 DEF Added
<1>. QED
  BY <1>9, <1>11, <1>13, <1>14

\* The messages a poll queues are for the customers of its parcels.
LEMMA NoticesPolled ==
    ASSUME ParcelsInv, NEW got, Answers(got), Parcels!QueueNews(got)
    PROVE  /\ \E T : toSend' \in Seq(T)
           /\ \A k \in DOMAIN toSend' : MessageFits(toSend'[k])
<1>1. PICK told, c : /\ told = Parcels!InTurn(NewsTold(got))
                     /\ c = Cardinality(NewsTold(got))
  OBVIOUS
<1>2. NewsTold(got) \in SUBSET Numbers
  BY NewsKnown DEF NewsTold
<1>3. c \in Nat /\ told \in [1 .. c -> NewsTold(got)]
  BY <1>1, <1>2, InTurnLists
<1>4. PICK t : t = [k \in 1 .. c |-> NoticeFor(told[k], got)]
  OBVIOUS
<1>5. toSend' = t
  BY <1>1, <1>3, <1>4, QueueNewsMeans
<1>6. PICK T : T = {NoticeFor(n, got) : n \in NewsTold(got)}
  OBVIOUS
<1>7. t \in [1 .. c -> T]
  BY <1>3, <1>4, <1>6
<1>8. t \in Seq(T)
  BY <1>3, <1>7
<1>9. ASSUME NEW n \in NewsTold(got) PROVE MessageFits(NoticeFor(n, got))
  <2>1. PICK m, to : m = NoticeFor(n, got) /\ to = Parcels!Recipient(n, got[n])
    OBVIOUS
  <2>2. m.number = n /\ m.to = to
    BY <2>1 DEF NoticeFor
  <2>3. /\ n \in DOMAIN ttns
        /\ LinkedAs(n, polled[n].sd, polled[n].ext)
    BY <1>9, NewsKnown DEF NewsTold
  <2>4. to \in ExternalIds => to = polled[n].ext /\ to # NoExt /\ to \in contacts
    BY <2>1, PartsAssumption DEF Parcels!Recipient, Parcels!TrackingAssumption
  <2>. QED
    BY <2>1, <2>2, <2>3, <2>4 DEF MessageFits, LinkedAs
<1>10. \A k \in DOMAIN t : MessageFits(t[k])
  <2>1. ASSUME NEW k \in 1 .. c PROVE MessageFits(t[k])
    <3>1. told[k] \in NewsTold(got) /\ t[k] = NoticeFor(told[k], got)
      BY <1>3, <1>4
    <3>. QED
      BY <1>9, <3>1
  <2>. QED
    BY <1>4, <2>1
<1>. QED
  BY <1>5, <1>8, <1>10

\* A new job of a poll is about its parcel, as the parcel now is.
LEMMA NewStatusJob ==
    ASSUME ParcelsInv, RowsGrow, NEW got, Answers(got), Parcels!WriteBack(got),
           NEW i, NEW n \in Parcels!News(got), outbox'[i] = StatusJobFor(n, got)
    PROVE  /\ StatusJob(i)'
           /\ outbox'[i].kind = "status" /\ outbox'[i].key = StatusKey(n, got[n])
<1>1. /\ n \in DOMAIN ttns
      /\ LinkedAs(n, polled[n].sd, polled[n].ext)
  BY NewsKnown
<1>2. PICK e, s, code : e = polled[n].ext /\ s = polled[n].sd /\ code = got[n]
  OBVIOUS
<1>3. PICK data : data = [ext |-> e, sd |-> s, status |-> code]
  OBVIOUS
<1>4. data.ext = e /\ data.sd = s /\ data.status = code
  BY <1>3
<1>5. outbox'[i] = NewJob(StatusKey(n, code), "status", data)
  BY <1>2, <1>3 DEF StatusJobFor
<1>6. /\ outbox'[i].kind = "status" /\ outbox'[i].key = StatusKey(n, code)
      /\ outbox'[i].payload = data
  BY <1>5, NewJobs
<1>7. n \in DOMAIN ttns'
  BY <1>1 DEF RowsGrow
<1>8. LinkedAs(n, s, e)'
  <2>1. LinkedAs(n, s, e)
    BY <1>1, <1>2
  <2>. QED
    BY <1>1, <2>1, LinkedStays
<1>9. Parcels!Rank(code) <= ttns'[n].rank
  <2>1. ttns'[n].rank = Parcels!Rank(code)
    BY <1>1, <1>2, RowPolled
  <2>. QED
    BY <2>1, RankNat
<1>10. StatusJob(i)'
  BY <1>4, <1>6, <1>7, <1>8, <1>9 DEF StatusJob
<1>. QED
  BY <1>2, <1>6, <1>10

\* The second transaction of a poll.
LEMMA PollStoredKeeps ==
    ASSUME BridgeInv, NEW got, Answers(got), Parcels!PollStored(got),
           UNCHANGED <<telephonyVars, posted>>
    PROVE  BridgeInv'
<1>1. /\ QueueInv /\ JobsInv /\ OwnJobsInv /\ OwnersInv
      /\ ParcelsInv /\ MessagesInv
  BY DEF BridgeInv
<1>2. /\ Parcels!QueueNews(got) /\ Parcels!WriteBack(got) /\ Parcels!TakeTurn
      /\ poll' = IF toSend' = <<>> THEN "idle" ELSE "sending"
      /\ polled' = <<>>
      /\ UNCHANGED <<orders, batch, pc, dealId, deals, sent, funnel>>
      /\ UNCHANGED <<calls, leads, notes, posted, contacts>>
  BY DEF Parcels!PollStored, Parcels!workerVars, Parcels!crmVars, telephonyVars
<1>3. RowsGrow /\ RowsTyped'
  <2>1. DOMAIN ttns' = DOMAIN ttns
    BY <1>2 DEF Parcels!WriteBack
  <2>2. \A n \in DOMAIN ttns :
           /\ IsRow(ttns'[n])
           /\ ttns'[n].ext = ttns[n].ext /\ ttns'[n].sd = ttns[n].sd
           /\ ttns'[n].rank \in Nat /\ ttns[n].rank <= ttns'[n].rank
    BY <1>1, <1>2, RowPolled
  <2>3. RowsGrow
    BY <2>1, <2>2 DEF RowsGrow
  <2>4. PICK t : t = ttns'
    OBVIOUS
  <2>5. DOMAIN t \subseteq Numbers /\ \A n \in DOMAIN t : IsRow(t[n])
    BY <1>1, <2>1, <2>2, <2>4 DEF ParcelsInv
  <2>. QED
    BY <2>3, <2>4, <2>5 DEF RowsTyped
<1>4. /\ Added
      /\ \A i \in DOMAIN outbox' \ DOMAIN outbox :
            \E n \in Parcels!News(got) : outbox'[i] = StatusJobFor(n, got)
  BY <1>1, <1>2, JobsPolled
<1>5. CallsGrow /\ Linking
  BY <1>2, SameCalls DEF Linking
<1>6. Adds
  BY <1>2, <1>3, <1>4, <1>5 DEF Adds
<1>7. /\ Grow
      /\ QueueInv' /\ CrmInv' /\ NotesInv' /\ DoneInv' /\ MovedInv' /\ HandInv'
      /\ \A i \in DOMAIN outbox : CreateJob(i)' \/ NoteJob(i)' \/ StatusJob(i)'
  BY <1>6, AddsKeeps
<1>8. \A i \in DOMAIN outbox' \ DOMAIN outbox :
         /\ StatusJob(i)' /\ outbox'[i].kind = "status"
         /\ \E n : outbox'[i].key = StatusKey(n, got[n])
  <2>1. ASSUME NEW i \in DOMAIN outbox' \ DOMAIN outbox
        PROVE  /\ StatusJob(i)' /\ outbox'[i].kind = "status"
               /\ \E n : outbox'[i].key = StatusKey(n, got[n])
    <3>1. PICK n \in Parcels!News(got) : outbox'[i] = StatusJobFor(n, got)
      BY <1>4, <2>1
    <3>2. /\ StatusJob(i)' /\ outbox'[i].kind = "status"
          /\ outbox'[i].key = StatusKey(n, got[n])
      BY <1>1, <1>2, <1>3, <3>1, NewStatusJob
    <3>. QED
      BY <3>2
  <2>. QED
    BY <2>1
<1>9. JobsInv'
  <2>1. \A i \in DOMAIN outbox' : CreateJob(i)' \/ NoteJob(i)' \/ StatusJob(i)'
    BY <1>7, <1>8
  <2>. QED
    BY <2>1 DEF JobsInv
<1>10. /\ DOMAIN outbox \subseteq DOMAIN outbox'
       /\ \A i \in DOMAIN outbox : outbox'[i] = outbox[i]
  BY <1>4 DEF Added
<1>11. \A n, code : /\ \A ext : StatusKey(n, code) # CreateKey(ext)
                    /\ \A c : StatusKey(n, code) # NoteKey(c)
  BY DEF StatusKey, CreateKey, NoteKey
<1>12. OwnJobsInv'
  <2>1. ASSUME NEW i \in DOMAIN outbox', NEW j \in DOMAIN outbox',
               outbox'[i].kind # "status", outbox'[j].key = outbox'[i].key
        PROVE  i = j
    <3>1. i \in DOMAIN outbox /\ outbox'[i] = outbox[i]
      BY <1>8, <1>10, <2>1
    <3>2. \/ \E ext : outbox[i].key = CreateKey(ext)
          \/ \E c : outbox[i].key = NoteKey(c)
      BY <1>1, <2>1, <3>1, KeysAndKinds DEF CreateJob
    <3>3. j \in DOMAIN outbox /\ outbox'[j] = outbox[j]
      BY <1>8, <1>10, <1>11, <2>1, <3>1, <3>2
    <3>. QED
      BY <1>1, <2>1, <3>1, <3>3 DEF OwnJobsInv
  <2>2. \A ext \in DOMAIN orders : \E i \in DOMAIN outbox' : outbox'[i].key = CreateKey(ext)
    BY <1>1, <1>10 DEF OwnJobsInv, HasKey
  <2>. QED
    BY <1>2, <2>1, <2>2 DEF OwnJobsInv, HasKey
<1>13. OwnersInv'
  <2>1. \A c : /\ Missed(c)' <=> Missed(c)
               /\ HasLead(c)' <=> HasLead(c)
               /\ HasNote(c)' <=> HasNote(c)
    BY <1>2, <1>8, <1>10, <1>11 DEF Missed, HasLead, HasNote, HasKey
  <2>. QED
    BY <1>1, <1>2, <2>1 DEF OwnersInv
<1>14. ParcelsInv'
  <2>1. turns' \in [Numbers -> Nat]
    BY <1>2, TurnsTaken
  <2>2. DOMAIN polled' = {}
    BY <1>2
  <2>. QED
    BY <1>3, <2>1, <2>2 DEF ParcelsInv, RowsTyped
<1>15. MessagesInv'
  <2>1. PICK S, T : sent \in Seq(S) /\ toSend' \in Seq(T)
    BY <1>1, <1>2, NoticesPolled DEF MessagesInv
  <2>2. PICK U : U = S \cup T
    OBVIOUS
  <2>3. sent' \in Seq(U) /\ toSend' \in Seq(U)
    <3>1. sent \in Seq(U) /\ toSend' \in Seq(U)
      BY <2>1, <2>2
    <3>. QED
      BY <1>2, <3>1
  <2>4. \A m : MessageFits(m) => MessageFits(m)'
    BY <1>7, MessageStays
  <2>5. /\ \A k \in DOMAIN sent' : MessageFits(sent'[k])
        /\ \A k \in DOMAIN toSend' : MessageFits(toSend'[k])
    BY <1>1, <1>2, NoticesPolled DEF MessagesInv
  <2>6. poll' = "sending" => toSend' # <<>>
    BY <1>2
  <2>7. /\ \A k \in DOMAIN sent' : MessageFits(sent[k])'
        /\ \A k \in DOMAIN toSend' : MessageFits(toSend[k])'
    BY <2>4, <2>5 DEF MessageFits
  <2>. QED
    BY <2>3, <2>6, <2>7 DEF MessagesInv
<1>. QED
  BY <1>7, <1>9, <1>12, <1>13, <1>14, <1>15 DEF BridgeInv

------------------------------------------------------------------------------
(* The invariant is inductive *)

LEMMA Initially == Init => BridgeInv
<1> SUFFICES ASSUME Init PROVE BridgeInv
  OBVIOUS
<1>1. /\ orders = Phones!NoOrders /\ outbox = <<>> /\ pc = "idle" /\ batch = <<>>
      /\ dealId = NoId /\ deals = <<>>
      /\ calls = [c \in {} |-> 0] /\ leads = <<>>
      /\ notes = [c \in CallIds |-> <<>>]
  BY DEF Init, Phones!Init, Phones!OutboxInit, Phones!TelephonyInit, Phones!NoId, NoId
<1>2. /\ ttns = [n \in {} |-> 0] /\ turns = [n \in Numbers |-> 0]
      /\ poll = "idle" /\ polled = [n \in {} |-> 0]
      /\ toSend = <<>> /\ sent = <<>> /\ funnel = [id \in {} |-> 0]
      /\ posted = {} /\ contacts = {}
  BY DEF Init, Parcels!Init
<1>3. /\ DOMAIN orders = {} /\ DOMAIN outbox = {} /\ DOMAIN batch = {}
      /\ DOMAIN deals = {} /\ DOMAIN calls = {} /\ DOMAIN leads = {}
      /\ DOMAIN ttns = {} /\ DOMAIN polled = {} /\ DOMAIN toSend = {}
      /\ DOMAIN sent = {} /\ DOMAIN funnel = {}
  BY <1>1, <1>2 DEF Phones!NoOrders
<1>4. QueueInv /\ JobsInv /\ OwnJobsInv /\ DoneInv
  <2>1. outbox \in Seq({})
    BY <1>1
  <2>. QED
    BY <1>3, <2>1 DEF QueueInv, JobsInv, OwnJobsInv, DoneInv, BatchFresh
<1>5. OwnersInv
  <2>1. leads \in Seq({})
    BY <1>1
  <2>2. \A call : ~Missed(call) /\ ~HasLead(call)
    BY <1>3 DEF Missed, HasLead
  <2>. QED
    BY <1>2, <1>3, <2>1, <2>2 DEF OwnersInv
<1>6. CrmInv
  <2>1. deals \in Seq(ExternalIds)
    BY <1>1
  <2>. QED
    BY <1>3, <2>1 DEF CrmInv, Linked
<1>7. NotesInv
  <2>1. \A call \in CallIds : notes[call] = <<>>
    BY <1>1
  <2>2. notes \in [CallIds -> Seq(Nat)]
    <3>1. PICK e : e = <<>>
      OBVIOUS
    <3>2. e \in Seq(Nat)
      BY <3>1
    <3>. QED
      BY <1>1, <3>1, <3>2
  <2>3. \A call \in CallIds : DOMAIN notes[call] = {}
    BY <2>1
  <2>. QED
    BY <2>2, <2>3 DEF NotesInv
<1>8. ParcelsInv
  BY <1>2, <1>3 DEF ParcelsInv
<1>9. MessagesInv
  <2>1. sent \in Seq({}) /\ toSend \in Seq({})
    BY <1>2
  <2>. QED
    BY <1>2, <1>3, <2>1 DEF MessagesInv
<1>10. MovedInv /\ HandInv
  BY <1>3 DEF MovedInv, HandInv
<1>. QED
  BY <1>4, <1>5, <1>6, <1>7, <1>8, <1>9, <1>10 DEF BridgeInv

LEMMA Stutters == ASSUME BridgeInv, UNCHANGED vars PROVE BridgeInv'
<1>1. /\ UNCHANGED <<orders, outbox, batch, pc, dealId, deals>>
      /\ UNCHANGED <<calls, leads, notes, posted>>
      /\ UNCHANGED trackingVars
  BY DEF vars, outboxVars, workerVars, crmVars, telephonyVars
<1>2. QueueStep /\ Linking /\ Making /\ HandStep
  BY <1>1, BesideOutbox
<1>3. Aside
  BY <1>1, <1>2, Beside DEF NotesStep
<1>. QED
  BY <1>3, AsideKeeps

LEMMA Inductive == BridgeInv /\ [Next]_vars => BridgeInv'
<1> SUFFICES ASSUME BridgeInv, [Next]_vars PROVE BridgeInv'
  OBVIOUS
<1>1. ASSUME NEW ext \in ShopIds, siteOrder(ext) PROVE BridgeInv'
  BY <1>1, SiteOrderKeeps
<1>2. ASSUME NEW call \in CallIds, NEW kind, binotel(call, kind) PROVE BridgeInv'
  BY <1>2, CallKeeps
<1>3. CASE \/ \E id \in DOMAIN deals : salesdrive(id)
           \/ \E n \in Numbers, ext \in ByHand : addTTN(n, ext)
           \/ \E i \in DOMAIN outbox : requeue(i)
  BY <1>3, HandlerAside, AsideKeeps
<1>4. CASE Handler
  BY <1>1, <1>2, <1>3, <1>4 DEF Handler
<1>5. ASSUME Parcels!PollAnswered, UNCHANGED <<telephonyVars, posted>>
      PROVE  BridgeInv'
  <2>1. PICK S \in SUBSET DOMAIN polled : \E got \in [S -> Codes] : Parcels!PollStored(got)
    BY <1>5 DEF Parcels!PollAnswered
  <2>2. PICK got \in [S -> Codes] : Parcels!PollStored(got)
    BY <2>1
  <2>3. Answers(got)
    BY <2>2 DEF Answers
  <2>. QED
    BY <1>5, <2>2, <2>3, PollStoredKeeps
<1>6. CASE Run
  BY <1>5, <1>6, RunAside, AsideKeeps
<1>7. CASE Stop
  BY <1>7, StopAside, AsideKeeps
<1>8. CASE CRM
  BY <1>8, CrmAside, AsideKeeps
<1>9. CASE Time
  BY <1>9, TimeAside, AsideKeeps
<1>10. CASE UNCHANGED vars
  BY <1>10, Stutters
<1>. QED
  BY <1>4, <1>6, <1>7, <1>8, <1>9, <1>10 DEF Next

\* The parts of the bridge keep to their own, although they share the orders,
\* the outbox, the worker and the CRM.
THEOREM BridgeInvariant == Spec => []BridgeInv
<1>. QED
  BY Initially, Inductive, PTL DEF Spec

------------------------------------------------------------------------------
(* What follows from it *)

\* A set whose members are all the same.
LEMMA CountOfOne ==
    ASSUME NEW S, \A x, y \in S : x = y
    PROVE  /\ S # {} => Cardinality(S) = 1
           /\ S = {} => Cardinality(S) = 0
<1>1. ASSUME S # {} PROVE Cardinality(S) = 1
  <2>1. PICK x \in S : TRUE
    BY <1>1
  <2>2. S = {x}
    BY <2>1
  <2>. QED
    BY <2>2, FS_Singleton
<1>. QED
  BY <1>1, FS_EmptySet

\* Every missed call has a lead or a note of its own and not both, or neither when
\* the shop has taken the lead's id; an order that the shop was told is accepted has
\* a row; and every order has one create job.
THEOREM OneJobEach == Spec => []EachHasItsOwnJob
<1>1. BridgeInv => EachHasItsOwnJob
  <2> SUFFICES ASSUME BridgeInv PROVE EachHasItsOwnJob
    OBVIOUS
  <2>1. JobsInv /\ OwnJobsInv /\ OwnersInv
    BY DEF BridgeInv
  <2>2. ASSUME NEW call \in DOMAIN calls, calls[call].kind = "missed"
        PROVE  LET shares == Cardinality(LeadsOf(call))
                                 + Cardinality(Phones!NoteJobs(call))
               IN  shares = 1 \/ (shares = 0 /\ Phones!LeadId(call) \in posted)
    <3>1. PICK L, N : L = LeadsOf(call) /\ N = Phones!NoteJobs(call)
      OBVIOUS
    <3>2. \A j, k \in L : j = k
      BY <2>1, <3>1 DEF LeadsOf, OwnersInv
    <3>3. \A i, j \in N : i = j
      <4>1. ASSUME NEW i \in N, NEW j \in N PROVE i = j
        <5>1. /\ i \in DOMAIN outbox /\ outbox[i].key = NoteKey(call)
              /\ j \in DOMAIN outbox /\ outbox[j].key = NoteKey(call)
          BY <3>1, <4>1 DEF Phones!NoteJobs, Phones!NoteKey, NoteKey
        <5>2. outbox[i].kind # "status"
          BY <2>1, <5>1, KeysAndKinds
        <5>. QED
          BY <2>1, <5>1, <5>2 DEF OwnJobsInv
      <4>. QED
        BY <4>1
    <3>4. L # {} <=> HasLead(call)
      BY <3>1 DEF LeadsOf, HasLead, Phones!LeadId, LeadId
    <3>5. N # {} <=> HasNote(call)
      BY <3>1 DEF Phones!NoteJobs, Phones!NoteKey, NoteKey, HasNote, HasKey
    <3>6. /\ L # {} \/ N # {} \/ Phones!LeadId(call) \in posted
          /\ ~(L # {} /\ N # {})
      BY <2>1, <2>2, <3>4, <3>5 DEF OwnersInv, Missed, Phones!LeadId, LeadId
    <3>7. /\ L # {} => Cardinality(L) = 1
          /\ L = {} => Cardinality(L) = 0
      BY <3>2, CountOfOne
    <3>8. /\ N # {} => Cardinality(N) = 1
          /\ N = {} => Cardinality(N) = 0
      BY <3>3, CountOfOne
    <3>9. PICK p, q : p = Cardinality(L) /\ q = Cardinality(N)
      OBVIOUS
    <3>10. p + q = 1 \/ (p + q = 0 /\ Phones!LeadId(call) \in posted)
      BY <3>6, <3>7, <3>8, <3>9
    <3>. QED
      BY <3>1, <3>9, <3>10
  <2>3. posted \subseteq DOMAIN orders
    BY <2>1 DEF OwnersInv
  <2>4. ASSUME NEW ext \in DOMAIN orders
        PROVE  Cardinality({i \in DOMAIN outbox : outbox[i].key = CreateKey(ext)}) = 1
    <3>1. PICK C : C = {i \in DOMAIN outbox : outbox[i].key = CreateKey(ext)}
      OBVIOUS
    <3>2. C # {}
      BY <2>1, <2>4, <3>1 DEF OwnJobsInv, HasKey
    <3>3. \A i, j \in C : i = j
      BY <2>1, <3>1, KeysAndKinds DEF OwnJobsInv
    <3>4. Cardinality(C) = 1
      BY <3>2, <3>3, CountOfOne
    <3>. QED
      BY <3>1, <3>4
  <2>. QED
    BY <2>2, <2>3, <2>4 DEF EachHasItsOwnJob
<1>. QED
  BY <1>1, BridgeInvariant, PTL

\* Notes and funnel moves are at the deals they are for.
THEOREM OwnDeals == Spec => []EachAtItsOwnDeal
<1>1. BridgeInv => EachAtItsOwnDeal
  <2> SUFFICES ASSUME BridgeInv PROVE EachAtItsOwnDeal
    OBVIOUS
  <2>1. NotesInv /\ MovedInv
    BY DEF BridgeInv
  <2>2. ASSUME NEW call \in CallIds, NEW n \in DOMAIN notes[call]
        PROVE  \E i \in Phones!NoteJobs(call) :
                  deals[notes[call][n]] = outbox[i].payload.ext
    <3>1. PICK id : id = notes[call][n]
      OBVIOUS
    <3>2. NoteAtLead(call, id)
      BY <2>1, <2>2, <3>1 DEF NotesInv
    <3>. QED
      BY <3>1, <3>2 DEF NoteAtLead, Phones!NoteJobs, Phones!NoteKey, NoteKey
  <2>3. Phones!NotesAtTheirLead
    BY <2>2 DEF Phones!NotesAtTheirLead
  <2>4. Parcels!FunnelFromOwnParcel
    BY <2>1 DEF MovedInv, Parcels!FunnelFromOwnParcel
  <2>. QED
    BY <2>3, <2>4 DEF EachAtItsOwnDeal
<1>. QED
  BY <1>1, BridgeInvariant, PTL

\* A note that counts as done is at its lead's deal.
THEOREM NotesAllArrive == Spec => []NotesArrive
<1>1. BridgeInv => NotesArrive
  <2> SUFFICES ASSUME BridgeInv PROVE NotesArrive
    OBVIOUS
  <2>1. JobsInv /\ DoneInv
    BY DEF BridgeInv
  <2>2. ASSUME NEW call \in CallIds, NEW i \in Phones!NoteJobs(call),
               outbox[i].state = "done"
        PROVE  \E n \in DOMAIN notes[call] :
                  notes[call][n] = orders[outbox[i].payload.ext]
    <3>1. i \in DOMAIN outbox /\ outbox[i].key = NoteKey(call)
      BY <2>2 DEF Phones!NoteJobs, Phones!NoteKey, NoteKey
    <3>2. outbox[i].kind = "note" /\ outbox[i].key = NoteKey(outbox[i].key[2])
      BY <2>1, <3>1, KeysAndKinds
    <3>3. outbox[i].key[2] = call
      BY <3>1, <3>2 DEF NoteKey
    <3>4. NoteIsThere(i)
      BY <2>1, <2>2, <3>1, <3>2 DEF DoneInv
    <3>. QED
      BY <3>3, <3>4 DEF NoteIsThere
  <2>. QED
    BY <2>2 DEF Phones!DoneNoteIsThere, NotesArrive
<1>. QED
  BY <1>1, BridgeInvariant, PTL

\* Messages about a parcel are for its own customer, who has ordered in the shop
\* and left a contact there; those who called get none.
THEOREM MessagesReachOwners == Spec => []MessagesArrive
<1>1. BridgeInv => MessagesArrive
  <2> SUFFICES ASSUME BridgeInv PROVE MessagesArrive
    OBVIOUS
  <2>1. OwnersInv /\ MessagesInv
    BY DEF BridgeInv
  <2>2. PICK M : M = sent \o toSend
    OBVIOUS
  <2>3. ASSUME NEW k \in DOMAIN M PROVE MessageFits(M[k])
    <3>1. PICK S : sent \in Seq(S) /\ toSend \in Seq(S)
      BY <2>1 DEF MessagesInv
    <3>2. CASE k \in DOMAIN sent
      <4>1. M[k] = sent[k]
        BY <2>2, <3>1, <3>2, Joined
      <4>. QED
        BY <2>1, <3>2, <4>1 DEF MessagesInv
    <3>3. CASE k \notin DOMAIN sent
      <4>1. \A j \in DOMAIN M \ DOMAIN sent : \E p \in DOMAIN toSend : M[j] = toSend[p]
        BY <2>2, <3>1, Joined
      <4>2. PICK p \in DOMAIN toSend : M[k] = toSend[p]
        BY <2>3, <3>3, <4>1
      <4>. QED
        BY <2>1, <4>2 DEF MessagesInv
    <3>. QED
      BY <3>2, <3>3
  <2>4. Parcels!MessagesToOwner
    BY <2>2, <2>3 DEF MessageFits, Parcels!MessagesToOwner
  <2>5. ASSUME NEW k \in DOMAIN M, M[k].to \in ExternalIds
        PROVE  M[k].to \in posted /\ \A j \in DOMAIN leads : leads[j].ext # M[k].to
    <3>1. M[k].to \in contacts
      BY <2>3, <2>5 DEF MessageFits
    <3>. QED
      BY <2>1, <3>1 DEF OwnersInv
  <2>. QED
    BY <2>2, <2>4, <2>5 DEF MessagesArrive
<1>. QED
  BY <1>1, BridgeInvariant, PTL
==============================================================================
