------------------------------ MODULE Telephony ------------------------------
(***************************************************************************)
(* Binotel call events: Service.OnCall turns a missed call into a lead, or *)
(* into a note on the lead the same caller produced recently, and the      *)
(* worker brings both to the CRM.  A note waits in the outbox until its    *)
(* lead has a CRM id.                                                      *)
(*                                                                         *)
(* Outgoing calls and other request types change nothing, and a ring       *)
(* (screenPop) only reads the CRM and sends a message: these are left out. *)
(* Time passes in ticks; texts are left out.                               *)
(***************************************************************************)
EXTENDS Outbox, Phone

CONSTANTS
    CallIds,  \* Binotel's ids of calls
    Caller,   \* the number of each call
    Window,   \* Config.LeadDedupe, in ticks
    MaxTime   \* bound: how many ticks pass

\* Mutant of LeadId: without the prefix.
LeadIdBare(call) == call

\* A lead's external id, "call-" + the call's id.
LeadId(call) == <<"call", call>>

ASSUME TelephonyAssumption ==
    /\ \A call \in CallIds : LeadId(call) \in ExternalIds
    /\ Caller \in [CallIds -> [1 .. 9 -> 0 .. 9]]
    /\ Window \in Nat
    /\ MaxTime \in Nat

VARIABLES
    calls,  \* the table calls: phone, kind and created_at of each recorded call
    leads,  \* the orders with source "call", in rowid order: phone, created_at
    now,    \* the clock
    notes   \* the CRM: the deals at which it has added a call's note, in order

telephonyVars == <<calls, leads, now, notes>>
vars == <<outboxVars, telephonyVars>>

TelephonyInit ==
    /\ calls = [c \in {} |-> 0]
    /\ leads = <<>>
    /\ now = 0
    /\ notes = [c \in CallIds |-> <<>>]

Init == OutboxInit /\ TelephonyInit

------------------------------------------------------------------------------
(* POST /webhooks/binotel, "apiCallCompleted": one transaction *)

NoteKey(call) == <<"note", call>>

\* Mutant of RecentLeads: the window's edge is not in it.
RecentLeadsStrict(phone) ==
    {k \in DOMAIN leads : leads[k].phone = phone /\ leads[k].at + Window > now}

\* Mutant of RecentLeads: another caller's lead will do.
RecentLeadsOfAll(phone) == {k \in DOMAIN leads : leads[k].at + Window >= now}

\* The leads of this phone created since Window ago, by position.
RecentLeads(phone) ==
    {k \in DOMAIN leads : leads[k].phone = phone /\ leads[k].at + Window >= now}

\* A repeat miss: a note on the newest of them.
NoteOnLead(call, phone) ==
    \E k \in RecentLeads(phone) :
        /\ \A j \in RecentLeads(phone) : j <= k
        /\ outbox' = Enqueue(outbox, NoteKey(call), "note", [ext |-> leads[k].ext])
        /\ UNCHANGED <<orders, leads>>

\* The row and the job are new or, should the id be taken, neither is; the code
\* does not look which.
NewLead(call, phone) ==
    LET ext == LeadId(call)
    IN  /\ RecentLeads(phone) = {}
        /\ orders' = InsertOrder(orders, ext)
        /\ leads' = IF ext \in DOMAIN orders THEN leads
                    ELSE Append(leads, [ext |-> ext, phone |-> phone, at |-> now])
        /\ outbox' = EnqueueCreate(outbox, ext)

Completed(call, phone, kind) ==
    /\ calls' = [c \in DOMAIN calls \cup {call} |->
                    IF c = call THEN [phone |-> phone, kind |-> kind, at |-> now]
                                ELSE calls[c]]
    /\ IF kind = "missed"
       THEN NoteOnLead(call, phone) \/ NewLead(call, phone)
       ELSE UNCHANGED <<orders, outbox, leads>>

\* Mutant of OnCall: whether the row is new is not looked at.
OnCallAgain(call, spelled, kind) ==
    /\ Normalize(spelled) # NoPhone
    /\ Completed(call, Normalize(spelled), kind)
    /\ UNCHANGED <<workerVars, crmVars, lapses, spent, now, notes>>

\* Ignored without a Ukrainian number, and for a call that is recorded: Binotel
\* may send an event again, and need not repeat the spelling or the disposition.
OnCall(call, spelled, kind) ==
    /\ IF call \in DOMAIN calls \/ Normalize(spelled) = NoPhone
       THEN UNCHANGED <<orders, outbox, calls, leads>>
       ELSE Completed(call, Normalize(spelled), kind)
    /\ UNCHANGED <<workerVars, crmVars, lapses, spent, now, notes>>

Tick ==
    /\ now < MaxTime
    /\ now' = now + 1
    /\ UNCHANGED <<outboxVars, calls, leads, notes>>

------------------------------------------------------------------------------
(* The note job *)

AtNote(i) == Current(i) /\ batch[i].kind = "note"

\* Mutant of NeverCreated: the key of a note instead of the lead's.
NeverCreatedMistaken(ext) ==
    \E j \in DOMAIN outbox : /\ outbox[j].key = NoteKey(ext)
                             /\ outbox[j].state = "failed"

\* Whether the lead's create job has failed for good.
NeverCreated(ext) ==
    \E j \in DOMAIN outbox : /\ outbox[j].key = CreateKey(ext)
                             /\ outbox[j].state = "failed"

\* Mutant of NoteWaits: the job is finished instead of put off.
NoteWaitsNot(i) ==
    /\ pc = "step"
    /\ AtNote(i)
    /\ orders[Ext(i)] = NoId
    /\ ~NeverCreated(Ext(i))
    /\ Finish(i)
    /\ UNCHANGED <<orders, crmVars, lapses, spent, telephonyVars>>

\* The lead is not in the CRM yet: look again in two seconds, no attempt counted.
NoteWaits(i) ==
    /\ pc = "step"
    /\ AtNote(i)
    /\ orders[Ext(i)] = NoId
    /\ ~NeverCreated(Ext(i))
    /\ outbox' = UpdateJob(outbox, i, [batch[i] EXCEPT !.due = FALSE])
    /\ Advance(i)
    /\ UNCHANGED <<orders, crmVars, lapses, spent, telephonyVars>>

NoteOrphaned(i) ==
    /\ pc = "step"
    /\ AtNote(i)
    /\ orders[Ext(i)] = NoId
    /\ NeverCreated(Ext(i))
    /\ Fail(i)
    /\ UNCHANGED <<orders, crmVars, lapses, spent, telephonyVars>>

SendNote(i) ==
    /\ pc = "step"
    /\ AtNote(i)
    /\ orders[Ext(i)] # NoId
    /\ dealId' = orders[Ext(i)]
    /\ pc' = "sent"
    /\ UNCHANGED <<orders, outbox, batch, crmVars, lapses, spent, telephonyVars>>

\* The CRM adds the note, each time it is asked to.  One that it adds after the
\* client has given up is not modelled.
AddNote(i) ==
    /\ pc = "sent"
    /\ AtNote(i)
    /\ dealId \in DOMAIN deals
    /\ notes' = [notes EXCEPT ![batch[i].key[2]] = Append(@, dealId)]
    /\ pc' = "executed"
    /\ UNCHANGED <<orders, outbox, batch, dealId, crmVars, lapses, spent,
                   calls, leads, now>>

NoteAnswered(i) ==
    /\ pc = "executed"
    /\ AtNote(i)
    /\ Finish(i)
    /\ UNCHANGED <<orders, crmVars, lapses, spent, telephonyVars>>

NoteStep(i) == NoteWaits(i) \/ NoteOrphaned(i) \/ SendNote(i) \/ NoteAnswered(i)

------------------------------------------------------------------------------

WorkerStep(i) ==
    \/ NoteStep(i)
    \/ (CreateStep(i) \/ CallRefused(i) \/ CallLost(i)) /\ UNCHANGED telephonyVars

\* Steps of the outbox, the worker and the CRM that telephony has no part in.
OutboxNext ==
    \/ \E id \in DOMAIN deals : OnSalesDrive(id)
    \/ \E i \in DOMAIN outbox : Requeue(i)
    \/ ProcessOnce
    \/ \E i \in DOMAIN batch : CreateDeal(i)
    \/ \E ext \in ExternalIds : LateDeal(ext)
    \/ \E i \in DOMAIN outbox : BackoffElapses(i)
    \/ Abort
    \/ \E i \in DOMAIN batch : AbortInFlight(i)

Next ==
    \/ \E call \in CallIds, kind \in {"missed", "answered"} :
          \E spelled \in Spellings(Caller[call]) \cup {NoPhone} :
              OnCall(call, spelled, kind)
    \/ Tick
    \/ \E i \in DOMAIN batch : WorkerStep(i)
    \/ \E i \in DOMAIN batch : AddNote(i)
    \/ OutboxNext /\ UNCHANGED telephonyVars

Spec == Init /\ [][Next]_vars

------------------------------------------------------------------------------
(* Properties *)

Job == [key : {"create"} \X ExternalIds \cup {"note"} \X CallIds,
        kind : {"create_order", "note"}, payload : [ext : ExternalIds],
        state : JobStates, attempts : Nat, due : BOOLEAN]

Phones == {Normalize(Caller[c]) : c \in CallIds}

\* The tables, the worker, the clock and the CRM have the values they should.
TypeOK ==
    /\ orders \in [DOMAIN orders -> Nat] /\ DOMAIN orders \subseteq ExternalIds
    /\ outbox \in Seq(Job)
    /\ pc \in {"idle", "step", "lookedUp", "sent", "executed"}
    /\ batch \in [DOMAIN batch -> Job] /\ DOMAIN batch \subseteq DOMAIN outbox
    /\ dealId \in Nat
    /\ deals \in Seq(ExternalIds)
    /\ late \in [ExternalIds -> Nat] /\ lapses \in [ExternalIds -> Nat]
    /\ spent \in [aborts : Nat, requeues : Nat, late : Nat]
    /\ DOMAIN calls \subseteq CallIds
    /\ calls \in [DOMAIN calls ->
                     [phone : Phones, kind : {"missed", "answered"}, at : Nat]]
    /\ leads \in Seq([ext : ExternalIds, phone : Phones, at : Nat])
    /\ now \in Nat
    /\ notes \in [CallIds -> Seq(Nat)]

JobsOfCall(call) ==
    {i \in DOMAIN outbox :
        outbox[i].key \in {CreateKey(LeadId(call)), NoteKey(call)}}

\* "Each call event is stored by its call id; the same event again does
\* nothing": a missed call has one job, a lead's or a note's, and no other call
\* has any, however often and in whatever order Binotel sends the events.
CallCountsOnce ==
    \A call \in CallIds :
        Cardinality(JobsOfCall(call)) =
            IF call \in DOMAIN calls /\ calls[call].kind = "missed" THEN 1 ELSE 0

\* The caller of a lead.
LeadCaller(k) == Caller[leads[k].ext[2]]

\* A caller gets a second lead only after the window of the one before it,
\* however the number was spelled each time.
OneLeadPerWindow ==
    \A j, k \in DOMAIN leads :
        (j < k /\ LeadCaller(j) = LeadCaller(k))
            => leads[j].at + Window < leads[k].at

\* A repeat miss goes to a lead of the same caller that was in its window when
\* the call came; the note job never names a lead that does not exist.
NoteNamesRecentLead ==
    \A i \in DOMAIN outbox :
        outbox[i].kind = "note" =>
            LET call == outbox[i].key[2]
            IN  \E k \in DOMAIN leads :
                    /\ leads[k].ext = outbox[i].payload.ext
                    /\ LeadCaller(k) = Caller[call]
                    /\ calls[call].at - leads[k].at \in 0 .. Window

NoteJobs(call) == {i \in DOMAIN outbox : outbox[i].key = NoteKey(call)}

\* A note in the CRM stands at a deal of the lead its job names.
NotesAtTheirLead ==
    \A call \in CallIds : \A n \in DOMAIN notes[call] :
        \E i \in NoteJobs(call) : deals[notes[call][n]] = outbox[i].payload.ext

\* A note job is done only once its note is in the CRM, at the deal that the
\* bridge shows as the lead's, whether the note waited for it or not.
DoneNoteIsThere ==
    \A call \in CallIds : \A i \in NoteJobs(call) :
        outbox[i].state = "done" =>
            \E n \in DOMAIN notes[call] :
                notes[call][n] = orders[outbox[i].payload.ext]

\* A note has no lookup, so a lost answer doubles it.  It is never there more
\* often than the attempts that the outbox shows, the one that settled it and
\* what stops and requeues made it forget.
NoteCopiesAccounted ==
    \A call \in CallIds : \A i \in NoteJobs(call) :
        Len(notes[call]) <=
            outbox[i].attempts
            + (IF \/ outbox[i].state = "done"
                  \/ pc = "executed" /\ Current(i) THEN 1 ELSE 0)
            + spent.aborts + spent.requeues * MaxAttempts
==============================================================================
