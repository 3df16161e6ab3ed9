------------------------------- MODULE Tracking -------------------------------
(***************************************************************************)
(* Nova Poshta parcels: the table ttns, the three places that add to it,   *)
(* Service.PollTTNs, and the status jobs by which the worker moves deals   *)
(* along the funnel.                                                       *)
(*                                                                         *)
(* A poll reads the due rows in one transaction, asks Nova Poshta, and     *)
(* writes stages, status jobs and rows in a second one, from the rows as   *)
(* it read them; handlers run between the two.  Outbox rounds do not: the  *)
(* goroutine that runs them is the one that polls.                         *)
(*                                                                         *)
(* Times are kept as what the code compares them for: whether a parcel's   *)
(* next poll is due, whose turn comes first, and whether a parcel has been *)
(* tracked for MaxTrackAge.  The parcels of one poll get the same time.    *)
(* The texts of messages, deals that the CRM did not get from the bridge,  *)
(* and status requests acted on after their timeout are left out.          *)
(***************************************************************************)
EXTENDS Outbox

CONSTANTS
    Numbers,  \* parcel numbers (TTNs), which a poll takes in their order
    Codes,    \* the Nova Poshta status codes that occur
    Mapped,   \* the codes that Config.StatusMap gives a funnel status
    NoExt,    \* external_id of a parcel whose order is not known
    Chats,    \* the orders that come with a telegram_chat to write to
    Manager,  \* Config.DefaultManager as a recipient of messages
    ByHand,   \* the order ids an operator may name with a parcel; NoExt: none
    TrackLimit \* the LIMIT of DueTTNs (100 in the code)

ASSUME TrackingAssumption ==
    /\ Numbers \subseteq Nat /\ IsFiniteSet(Numbers)
    /\ Codes \subseteq Nat
    /\ Mapped \subseteq Codes
    /\ NoExt \notin ExternalIds /\ Manager \notin ExternalIds
    /\ ByHand \subseteq ExternalIds \cup {NoExt}
    /\ TrackLimit \in Nat \ {0}

VARIABLES
    ttns,    \* the table ttns, by number
    turns,   \* its column polled_at: the order of the last polls, 0 for never
    poll,    \* where PollTTNs is: idle, asked, sending
    polled,  \* the rows it has read, by number
    toSend,  \* the messages it has yet to send
    sent,    \* history: the messages it has tried to send, in order
    contacts, \* the column orders.contact: the orders where it is not empty
    funnel   \* the CRM: the parcel and code that gave a deal its status, if any

pollVars == <<turns, poll, polled, toSend>>
trackingVars == <<ttns, pollVars, sent, contacts, funnel>>
vars == <<outboxVars, trackingVars>>

Init ==
    /\ OutboxInit
    /\ ttns = [n \in {} |-> 0]
    /\ turns = [n \in Numbers |-> 0]
    /\ poll = "idle"
    /\ polled = [n \in {} |-> 0]
    /\ toSend = <<>>
    /\ sent = <<>>
    /\ contacts = {}
    /\ funnel = [id \in {} |-> 0]

------------------------------------------------------------------------------
(* Stages of a delivery *)

Stage(code) ==
    CASE code = 1               -> "created"
      [] code \in {4, 5, 6, 101} -> "transit"
      [] code \in {7, 8}         -> "arrived"
      [] code \in {9, 10, 11}    -> "received"
      [] code \in 102 .. 108     -> "refused"
      [] code \in {2, 3}         -> "deleted"
      [] OTHER                   -> "unknown"

Rank(code) ==
    CASE code = 1                       -> 1
      [] code \in {4, 5, 6}              -> code - 2
      [] code = 101                      -> 5
      [] Stage(code) = "arrived"         -> 6
      [] Stage(code) \in {"received", "refused"} -> 8
      [] OTHER                           -> 0

Final(code) == Stage(code) \in {"received", "refused"} \/ code = 2

------------------------------------------------------------------------------
(* The table ttns *)

\* A new row, due at once.
InsertTTN(table, n, ext, id) ==
    [m \in DOMAIN table \cup {n} |->
        IF m = n THEN [ext |-> ext, sd |-> id, code |-> 0, rank |-> 0,
                       final |-> FALSE, due |-> TRUE, old |-> FALSE]
                 ELSE table[m]]

\* Mutant of AddTTN: an existing row is replaced.
AddTTNAfresh(table, n, ext, id) == InsertTTN(table, n, ext, id)

\* Mutant of AddTTN: the links given last are the ones kept.
AddTTNLastWins(table, n, ext, id) ==
    IF n \in DOMAIN table
    THEN [table EXCEPT ![n].ext = IF ext = NoExt THEN @ ELSE ext,
                       ![n].sd = IF id = NoId THEN @ ELSE id]
    ELSE InsertTTN(table, n, ext, id)

\* A known parcel only gains the links it lacks.
AddTTN(table, n, ext, id) ==
    IF n \in DOMAIN table
    THEN [table EXCEPT ![n].ext = IF @ = NoExt THEN ext ELSE @,
                       ![n].sd = IF @ = NoId THEN id ELSE @]
    ELSE InsertTTN(table, n, ext, id)

\* Mutant of Unpolled: finished parcels are not left out.
UnpolledAll == {n \in DOMAIN ttns : ttns[n].due}

\* The unfinished parcels that have not been polled for PollEvery.
Unpolled == {n \in DOMAIN ttns : ~ttns[n].final /\ ttns[n].due}

\* Mutant of Before: in the order of their numbers only.
BeforeByNumber(m, n) == m < n

\* ORDER BY polled_at, number.
Before(m, n) == turns[m] < turns[n] \/ (turns[m] = turns[n] /\ m < n)

\* How many parcels of S come before n, and S as a sequence in that order.
Place(S, n) == Cardinality({m \in S : Before(m, n)})
InTurn(S) ==
    [k \in 1 .. Cardinality(S) |-> CHOOSE n \in S : Place(S, n) = k - 1]

DueTTNs == {n \in Unpolled : Place(Unpolled, n) < TrackLimit}

\* Mutant of UpdateTTN: the whole row is written, links included.
UpdateTTNWhole(row, x) == x

\* Writes the progress columns of the poll's copy, and none of the links.
UpdateTTN(row, x) ==
    [row EXCEPT !.code = x.code, !.rank = x.rank, !.final = x.final,
                !.due = x.due]

------------------------------------------------------------------------------
(* The handlers that add parcels *)

\* Mutant of Ingest: a repeated order updates the contact of the row there is.
IngestUpserting(ext) ==
    /\ orders' = InsertOrder(orders, ext)
    /\ contacts' = contacts \cup ({ext} \cap Chats)
    /\ IF ext \in DOMAIN orders
       THEN UNCHANGED <<outbox, ttns>>
       ELSE /\ outbox' = EnqueueCreate(outbox, ext)
            /\ \/ UNCHANGED ttns
               \/ \E n \in Numbers : ttns' = AddTTN(ttns, n, ext, NoId)
    /\ UNCHANGED <<workerVars, crmVars, lapses, spent, pollVars, sent, funnel>>

\* POST /site/orders, with a parcel already on its way or without.
Ingest(ext) ==
    /\ orders' = InsertOrder(orders, ext)
    /\ IF ext \in DOMAIN orders
       THEN UNCHANGED <<outbox, ttns, contacts>>
       ELSE /\ outbox' = EnqueueCreate(outbox, ext)
            /\ contacts' = contacts \cup ({ext} \cap Chats)
            /\ \/ UNCHANGED ttns
               \/ \E n \in Numbers : ttns' = AddTTN(ttns, n, ext, NoId)
    /\ UNCHANGED <<workerVars, crmVars, lapses, spent, pollVars, sent, funnel>>

\* A webhook about a deal on which the CRM has a parcel.
WebhookWithTTN(id, n) ==
    /\ OnSalesDrive(id)
    /\ ttns' = AddTTN(ttns, n, deals[id], id)
    /\ UNCHANGED <<pollVars, sent, contacts, funnel>>

\* POST /api/ttn: the order may be left out, or be one the bridge has not got.
AddTTNByHand(n, ext) ==
    /\ ttns' = AddTTN(ttns, n, ext,
                      IF ext \in DOMAIN orders THEN orders[ext] ELSE NoId)
    /\ UNCHANGED <<outboxVars, pollVars, sent, contacts, funnel>>

------------------------------------------------------------------------------
(* PollTTNs *)

PollBegins ==
    /\ pc = "idle"
    /\ poll = "idle"
    /\ DueTTNs # {}
    /\ polled' = [n \in DueTTNs |-> ttns[n]]
    /\ poll' = "asked"
    /\ UNCHANGED <<outboxVars, ttns, turns, toSend, sent, contacts, funnel>>

PollFailed ==
    /\ poll = "asked"
    /\ poll' = "idle"
    /\ polled' = <<>>
    /\ UNCHANGED <<outboxVars, ttns, turns, toSend, sent, contacts, funnel>>

\* Mutant of Forward: any known stage counts.
ForwardOrBack(n, code) == Rank(code) > 0

\* Only forward progress counts.
Forward(n, code) == Rank(code) > polled[n].rank

\* Mutant of StatusKey: one key for all stages of a parcel.
StatusKeyOfParcel(n, code) == <<"status", n>>

StatusKey(n, code) == <<"status", n, code>>

\* Mutant of Announced: only a parcel just created can leave.
AnnouncedFromCreated(n, code) ==
    \/ Stage(code) = "transit" /\ polled[n].rank = 1
    \/ Stage(code) \in {"arrived", "received", "refused"}

\* Mutant of Announced: each step on the way is announced.
AnnouncedAlways(n, code) ==
    Stage(code) \in {"transit", "arrived", "received", "refused"}

\* Whether this progress is worth a message.
Announced(n, code) ==
    \/ Stage(code) = "transit" /\ polled[n].rank < 2
    \/ Stage(code) \in {"arrived", "received", "refused"}

\* The parcels whose answers are progress.
News(got) == {n \in DOMAIN got : Forward(n, got[n])}

\* What a poll with these answers makes of its copy of a row.
PolledRow(n, got) ==
    LET news == n \in News(got)
    IN  [polled[n] EXCEPT !.code = IF news THEN got[n] ELSE @,
                          !.rank = IF news THEN Rank(got[n]) ELSE @,
                          !.final = @ \/ ttns[n].old \/ (news /\ Final(got[n])),
                          !.due = FALSE]

WriteBack(got) ==
    ttns' = [n \in DOMAIN ttns |->
                IF n \in DOMAIN polled THEN UpdateTTN(ttns[n], PolledRow(n, got))
                                       ELSE ttns[n]]

\* Whom a message is for: the contact of the order, if the bridge has one, or
\* the manager when a parcel is refused.  A contact goes by its order's id.
Recipient(n, code) ==
    IF Stage(code) = "refused" THEN Manager
    ELSE IF polled[n].ext \in contacts THEN polled[n].ext ELSE NoExt

\* The status jobs and the messages of these answers, parcel by parcel.
QueueNews(got) ==
    LET moved == InTurn({n \in News(got) :
                            /\ got[n] \in Mapped
                            /\ ~HasKey(outbox, StatusKey(n, got[n]))})
        told == InTurn({n \in News(got) : Announced(n, got[n])})
        job(n) == NewJob(StatusKey(n, got[n]), "status",
                         [ext |-> polled[n].ext, sd |-> polled[n].sd,
                          status |-> got[n]])
        notice(n) == [number |-> n, stage |-> Stage(got[n]),
                      to |-> Recipient(n, got[n])]
    IN  /\ outbox' = outbox \o [k \in DOMAIN moved |-> job(moved[k])]
        /\ toSend' = [k \in DOMAIN told |-> notice(told[k])]

\* polled_at becomes the present time; of the times only the order is kept.
TakeTurn ==
    LET after(n) == IF n \in DOMAIN polled THEN 1 + Cardinality(Numbers)
                                           ELSE turns[n]
        times == {after(m) : m \in Numbers} \ {0}
    IN  turns' = [n \in Numbers |->
                     Cardinality({t \in times : t <= after(n)})]

\* The second transaction, with the answers for some or all of the parcels.
PollStored(got) ==
    /\ poll = "asked"
    /\ QueueNews(got)
    /\ WriteBack(got)
    /\ TakeTurn
    /\ poll' = IF toSend' = <<>> THEN "idle" ELSE "sending"
    /\ polled' = <<>>
    /\ UNCHANGED <<orders, workerVars, crmVars, lapses, spent, sent, contacts, funnel>>

\* A message goes out, or cannot be sent: the next one follows either way.
SendNotice ==
    /\ poll = "sending"
    /\ sent' = Append(sent, Head(toSend))
    /\ toSend' = Tail(toSend)
    /\ poll' = IF Len(toSend) = 1 THEN "idle" ELSE "sending"
    /\ UNCHANGED <<outboxVars, ttns, turns, polled, contacts, funnel>>

\* The process stops in a poll, or its second transaction fails.
PollAbort ==
    /\ poll # "idle"
    /\ spent.aborts < MaxAborts
    /\ spent' = [spent EXCEPT !.aborts = @ + 1]
    /\ poll' = "idle"
    /\ polled' = <<>>
    /\ toSend' = <<>>
    /\ UNCHANGED <<orders, outbox, workerVars, crmVars, lapses, ttns, turns, sent,
                   contacts, funnel>>

\* PollEvery has passed since the parcel's last poll.
PollEveryElapses(n) ==
    /\ ~ttns[n].due
    /\ ttns' = [ttns EXCEPT ![n].due = TRUE]
    /\ UNCHANGED <<outboxVars, pollVars, sent, contacts, funnel>>

\* MaxTrackAge has passed since the parcel was added.
Ages(n) ==
    /\ ~ttns[n].old
    /\ ttns' = [ttns EXCEPT ![n].old = TRUE]
    /\ UNCHANGED <<outboxVars, pollVars, sent, contacts, funnel>>

------------------------------------------------------------------------------
(* The status job *)

AtStatus(i) == Current(i) /\ batch[i].kind = "status"

\* The id the job goes by: its own, or the one its order has come to have.
StatusId(i) ==
    IF batch[i].payload.sd # NoId \/ Ext(i) = NoExt
    THEN batch[i].payload.sd
    ELSE orders[Ext(i)]

\* Mutant of StatusUnlinked: nothing to do is as good as done.
StatusUnlinkedDone(i) ==
    /\ pc = "step"
    /\ AtStatus(i)
    /\ batch[i].payload.sd = NoId /\ Ext(i) = NoExt
    /\ Finish(i)
    /\ UNCHANGED <<orders, crmVars, lapses, spent, trackingVars>>

StatusUnlinked(i) ==
    /\ pc = "step"
    /\ AtStatus(i)
    /\ batch[i].payload.sd = NoId /\ Ext(i) = NoExt
    /\ Fail(i)
    /\ UNCHANGED <<orders, crmVars, lapses, spent, trackingVars>>

\* The order of the job is not the bridge's: step returns the error, and with
\* it the round ends, leaving the job and those behind it as they were.
StatusStuck(i) ==
    /\ pc = "step"
    /\ AtStatus(i)
    /\ batch[i].payload.sd = NoId
    /\ Ext(i) \notin DOMAIN orders \cup {NoExt}
    /\ pc' = "idle"
    /\ batch' = <<>>
    /\ UNCHANGED <<orders, outbox, dealId, crmVars, lapses, spent, trackingVars>>

SendStatus(i) ==
    /\ pc = "step"
    /\ AtStatus(i)
    /\ batch[i].payload.sd # NoId \/ Ext(i) \in DOMAIN orders
    /\ dealId' = StatusId(i)
    /\ pc' = "sent"
    /\ UNCHANGED <<orders, outbox, batch, crmVars, lapses, spent, trackingVars>>

\* The CRM moves the deal of this id or, without one, a deal of the external id.
MoveDeal(i) ==
    /\ pc = "sent"
    /\ AtStatus(i)
    /\ \E id \in DOMAIN deals :
          /\ IF dealId # NoId THEN id = dealId ELSE deals[id] = Ext(i)
          /\ funnel' = [d \in DOMAIN funnel \cup {id} |->
                           IF d = id THEN [number |-> batch[i].key[2],
                                           code |-> batch[i].payload.status]
                                     ELSE funnel[d]]
    /\ pc' = "executed"
    /\ UNCHANGED <<orders, outbox, batch, dealId, crmVars, lapses, spent,
                   ttns, pollVars, sent, contacts>>

StatusAnswered(i) ==
    /\ pc = "executed"
    /\ AtStatus(i)
    /\ Finish(i)
    /\ UNCHANGED <<orders, crmVars, lapses, spent, trackingVars>>

StatusStep(i) ==
    StatusUnlinked(i) \/ StatusStuck(i) \/ SendStatus(i) \/ StatusAnswered(i)

------------------------------------------------------------------------------

\* ProcessOnce comes before PollTTNs in the loop, never in the middle of it.
Round == poll = "idle" /\ ProcessOnce /\ UNCHANGED trackingVars

WorkerStep(i) ==
    \/ StatusStep(i)
    \/ (CreateStep(i) \/ CallRefused(i) \/ CallLost(i)) /\ UNCHANGED trackingVars

PollAnswered ==
    \E S \in SUBSET DOMAIN polled : \E got \in [S -> Codes] : PollStored(got)

PollStep == PollFailed \/ PollAnswered \/ SendNotice

\* Steps of the outbox and the CRM that tracking has no part in.
OutboxNext ==
    \/ \E id \in DOMAIN deals : OnSalesDrive(id)
    \/ \E i \in DOMAIN outbox : Requeue(i)
    \/ \E i \in DOMAIN batch : CreateDeal(i)
    \/ \E ext \in ExternalIds : LateDeal(ext)
    \/ \E i \in DOMAIN outbox : BackoffElapses(i)
    \/ Abort
    \/ \E i \in DOMAIN batch : AbortInFlight(i)

Next ==
    \/ \E ext \in ExternalIds : Ingest(ext)
    \/ \E id \in DOMAIN deals, n \in Numbers : WebhookWithTTN(id, n)
    \/ \E n \in Numbers, ext \in ByHand : AddTTNByHand(n, ext)
    \/ PollBegins
    \/ PollStep
    \/ PollAbort
    \/ \E n \in DOMAIN ttns : PollEveryElapses(n)
    \/ \E n \in DOMAIN ttns : Ages(n)
    \/ Round
    \/ \E i \in DOMAIN batch : WorkerStep(i)
    \/ \E i \in DOMAIN batch : MoveDeal(i)
    \/ OutboxNext /\ UNCHANGED trackingVars

Spec == Init /\ [][Next]_vars

Keys == {CreateKey(ext) : ext \in ExternalIds}
            \cup {StatusKey(n, code) : n \in Numbers, code \in Mapped}

\* The loop runs on a ticker and every call out ends within its timeout, one
\* way or another.  Outbox rounds and polls take turns, so a poll may put a
\* round off but, jobs being due, the round after the poll is not skipped.
Fairness ==
    /\ SF_vars(Round)
    /\ WF_vars(\E i \in DOMAIN batch : WorkerStep(i))
    /\ WF_vars(PollStep)
    /\ \A key \in Keys :
          WF_vars(\E i \in DOMAIN outbox : /\ outbox[i].key = key
                                           /\ BackoffElapses(i)
                                           /\ UNCHANGED trackingVars)

FairSpec == Spec /\ Fairness

\* The loop polls after each round, and requests to Nova Poshta do not fail for
\* ever: one that fails writes no polled_at and is made again as it was.
TurnSpec == FairSpec /\ SF_vars(PollBegins) /\ SF_vars(PollAnswered)

------------------------------------------------------------------------------
(* Properties *)

Job == [key : {<<"create", ext>> : ext \in ExternalIds}
                  \cup {<<"status", n, code>> : n \in Numbers, code \in Mapped},
        kind : {"create_order", "status"},
        payload : [ext : ExternalIds]
                      \cup [ext : ExternalIds \cup {NoExt}, sd : Nat,
                            status : Mapped],
        state : JobStates, attempts : Nat, due : BOOLEAN]

Row == [ext : ExternalIds \cup {NoExt}, sd : Nat, code : Codes \cup {0},
        rank : 0 .. 8, final : BOOLEAN, due : BOOLEAN, old : BOOLEAN]

Notice == [number : Numbers,
           stage : {"transit", "arrived", "received", "refused"},
           to : ExternalIds \cup {NoExt, Manager}]

\* The tables, the worker, the poll and the CRM have the values they should.
TypeOK ==
    /\ orders \in [DOMAIN orders -> Nat] /\ DOMAIN orders \subseteq ExternalIds
    /\ outbox \in Seq(Job)
    /\ pc \in {"idle", "step", "lookedUp", "sent", "executed"}
    /\ batch \in [DOMAIN batch -> Job] /\ DOMAIN batch \subseteq DOMAIN outbox
    /\ dealId \in Nat
    /\ deals \in Seq(ExternalIds)
    /\ late \in [ExternalIds -> Nat] /\ lapses \in [ExternalIds -> Nat]
    /\ spent \in [aborts : Nat, requeues : Nat, late : Nat]
    /\ ttns \in [DOMAIN ttns -> Row] /\ DOMAIN ttns \subseteq Numbers
    /\ turns \in [Numbers -> 0 .. Cardinality(Numbers)]
    /\ poll \in {"idle", "asked", "sending"}
    /\ polled \in [DOMAIN polled -> Row] /\ DOMAIN polled \subseteq DOMAIN ttns
    /\ toSend \in Seq(Notice) /\ sent \in Seq(Notice)
    /\ contacts \subseteq DOMAIN orders
    /\ funnel \in [DOMAIN funnel -> [number : Numbers, code : Mapped]]
    /\ DOMAIN funnel \subseteq DOMAIN deals

MovesForward ==
    \A n \in DOMAIN ttns :
        /\ ttns'[n].rank >= ttns[n].rank
        /\ ttns'[n].code # ttns[n].code => ttns'[n].rank > ttns[n].rank
        /\ ttns[n].final => ttns'[n].final

\* "A status only counts when it moves forward", whatever Nova Poshta answers
\* and however polls are repeated or cut short; and a finished parcel stays so.
ForwardOnly == [][MovesForward]_vars

KeepsLinks ==
    \A n \in DOMAIN ttns :
        /\ ttns[n].ext # NoExt => ttns'[n].ext = ttns[n].ext
        /\ ttns[n].sd # NoId => ttns'[n].sd = ttns[n].sd

\* A link to an order, once made, is never lost or changed: not by another
\* handler, nor by the poll that writes back a row it read before the link.
LinksAreKept == [][KeepsLinks]_vars

\* The status jobs tell the whole story of a parcel: the stage it has come to
\* (a new row's code, 0, is none) has a job, if it is mapped, and jobs were queued
\* in the order of the stages.
StagesHaveJobs ==
    LET statusJobs(n) == {i \in DOMAIN outbox : /\ outbox[i].kind = "status"
                                                /\ outbox[i].key[2] = n}
        code(i) == outbox[i].payload.status
    IN  \A n \in DOMAIN ttns :
            /\ ttns[n].rank > 0 /\ ttns[n].code \in Mapped =>
                  \E i \in statusJobs(n) : code(i) = ttns[n].code
            /\ \A i, j \in statusJobs(n) : i < j => Rank(code(i)) < Rank(code(j))

\* No stage is announced twice, nor out of order, nor both received and refused.
MessagesInOrder ==
    LET messages == sent \o toSend
        stageRank(m) == CASE m.stage = "transit" -> 2
                          [] m.stage = "arrived" -> 6
                          [] OTHER               -> 8
    IN  \A j, k \in DOMAIN messages :
            (j < k /\ messages[j].number = messages[k].number)
                => stageRank(messages[j]) < stageRank(messages[k])

\* Unless the process was stopped, whatever stage a parcel has come to, the
\* sending of a message about it has been tried or is about to be.
StageIsTold ==
    \A n \in DOMAIN ttns :
        (/\ Stage(ttns[n].code) \in {"transit", "arrived", "received", "refused"}
         /\ spent.aborts = 0)
            => \E k \in DOMAIN (sent \o toSend) :
                  /\ (sent \o toSend)[k].number = n
                  /\ (sent \o toSend)[k].stage = Stage(ttns[n].code)

\* A customer only hears of parcels of the customer's own order.
MessagesToOwner ==
    \A k \in DOMAIN (sent \o toSend) :
        LET m == (sent \o toSend)[k]
        IN  m.to \in ExternalIds => ttns[m.number].ext = m.to

\* A deal has its funnel status from a parcel of its own, linked to it by its
\* id or by its order, and from a stage that this parcel has reached.
FunnelFromOwnParcel ==
    \A id \in DOMAIN funnel :
        LET row == ttns[funnel[id].number]
        IN  /\ row.sd = id \/ row.ext = deals[id]
            /\ Rank(funnel[id].code) <= row.rank

\* The copies a poll goes by are never stale in what it writes back: handlers
\* may add links meanwhile, but the progress is as it was read.
PolledFresh ==
    \A n \in DOMAIN polled :
        /\ n \in DOMAIN ttns
        /\ polled[n].code = ttns[n].code
        /\ polled[n].rank = ttns[n].rank
        /\ polled[n].final = ttns[n].final

Ended(code) == Stage(code) \in {"received", "refused"}

\* "Finished parcels stop being polled."
FinishedNotPolled == \A n \in DOMAIN polled : ~Ended(polled[n].code)

Settled(key) ==
    \E i \in DOMAIN outbox : outbox[i].key = key /\ outbox[i].state # "pending"

\* A status job is done only as the CRM has moved a deal by this very job.
DoneMeansMoved ==
    [][\A i \in DOMAIN outbox :
          (/\ outbox[i].kind = "status"
           /\ outbox[i].state # "done"
           /\ outbox'[i].state = "done")
              => \E id \in DOMAIN funnel :
                    funnel[id] = [number |-> outbox[i].key[2],
                                  code |-> outbox[i].payload.status]]_vars

\* More parcels than fit into one request: those that wait get their turn.
EveryParcelHasItsTurn ==
    \A n \in Numbers : n \in Unpolled ~> n \in DOMAIN polled

\* "ProcessOnce works through the outbox jobs that are due": an accepted order
\* is brought to an end, whatever else is in the outbox.
OrderSettles ==
    \A ext \in ExternalIds : ext \in DOMAIN orders ~> Settled(CreateKey(ext))

\* A deal moves along the funnel: a parcel does not take it back to a stage
\* before one it was at.
DealNeverGoesBack ==
    [][\A id \in DOMAIN funnel :
          funnel'[id].number = funnel[id].number
              => Rank(funnel'[id].code) >= Rank(funnel[id].code)]_vars

\* Final: the parcel "needs no more polling" once its code is one of these.
FinalEndsPolling ==
    [][\A S \in SUBSET DOMAIN polled : \A got \in [S -> Codes] :
          PollStored(got) => \A n \in S : Final(got[n]) => ttns'[n].final]_vars
==============================================================================
