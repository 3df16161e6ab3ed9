# crmbridge in TLA+

crmbridge is a Go service between a shop or a Telegram bot, Binotel telephony,
Nova Poshta parcels and a SalesDrive CRM. Its hard part is to keep the CRM right
while requests are repeated, answers are lost, webhooks race the calls that
cause them and the process stops at any point. These modules model that part,
TLC checks them on small instances, and TLAPS proves the core of them for every
value of the constants.

## 1. The system

| Part | Code | State | Operations |
|---|---|---|---|
| Store | `internal/store` | SQLite tables `orders`, `outbox`, `ttns`, `calls` | one method per statement, inside `Store.Do` transactions |
| Site orders | `service.go` `Ingest` | - | validates; one transaction adds the order row and its `create_order` job (and a TTN) |
| Outbox worker | `worker.go` `Run`, `ProcessOnce`, `step` | the batch it is working through | takes due jobs, calls the CRM, stores the outcome; backoff, give up, fail |
| Requeue | `worker.go` `Requeue` | - | an operator revives a failed job |
| SalesDrive webhook | `service.go` `OnSalesDrive` | - | stores the CRM id of an order, registers TTNs |
| Telephony | `service.go` `OnCall` | - | missed call -> lead or note, each call id once; ring -> card to a manager |
| Parcel tracking | `worker.go` `PollTTNs`, `service.go` `AddTTN`, `novaposhta` | - | asks Nova Poshta, moves stages forward, queues status jobs, sends messages |
| CRM client | `internal/salesdrive` | - | create, find by external id, update status, add note, manager by phone |
| CRM (outside) | `internal/fakesalesdrive` as a stand-in | deals, notes, statuses | acts on requests, sends webhooks |
| API, config, notify, binotel, phone | the packages of those names | - | decoding, tokens, texts, normalising |

How they interact:

* HTTP handlers and one worker goroutine share nothing but the store. The pool
  has a single connection (`store.go:95`), so **transactions are serial** and a
  transaction is the unit of interleaving.
* The worker never holds a transaction while it calls out. It reads a batch in
  one transaction, then per job calls the CRM and stores the outcome in another.
  **Handlers run between any two of those steps**, and so do webhooks caused by
  the very call that is under way.
* Outbox jobs and polling run in the same goroutine (`worker.go:18-30`), one
  after the other: a round and a poll never interleave with each other.
* The CRM's webhook may come before, between, after or instead of the answer to
  the call that caused it.
* Everything the process keeps outside the store (the batch, an answer just
  received, messages to send) is lost when it stops.

What is hard: the create call has no idempotency key, so *knowing whether a deal
exists* is the worker's job, from the attempts it has recorded and from a
lookup; the batch and the parcel rows are copies used after other transactions
have run; jobs of several kinds depend on each other only through the tables.
`PROJECT.json` lists the hazards at their lines.

What makes each part correct:

* **Outbox and site orders.** One deal per order but for lapses that are named
  one by one; the stored CRM id is that of the order's own deal; a done job has
  left its order linked; copies are not stale when they are written back;
  settled outcomes are final; every job is brought to an end.
* **Telephony.** A call id has one effect; one lead per caller and window,
  however the number is spelled; a note reaches the lead's deal once there is one,
  and copies of it go back to attempts, stops and requeues.
* **Tracking.** Stages only move forward, one message per stage, finished
  parcels are polled no more and waiting ones get their turn, links are never
  lost to the poll in flight, messages go to the parcel's own customer, a deal is
  moved by its own parcel only and (which the code does not ensure) never back.
* **Together.** Shop orders, leads and parcels meet in one outbox and one space of
  ids without taking each other's rows, jobs or deals, and all is settled in the
  end.
* **CRM client.** Which errors may be retried, and what a missing answer says.

## 2. The modules

| Module | Models | Extends |
|---|---|---|
| `Store` | the tables `orders` and `outbox` as values, the `Tx` methods as operators | |
| `Outbox` | the worker's rounds, `create_order` jobs, the CRM's side of a create, the webhook that brings an id, requeue; the mapping to `CrmLedger` | `Store` |
| `SiteOrders` | the site order slice: `Ingest`, next-state relation, properties, inductive invariant | `Outbox` |
| `Phone` | `phone.Normalize` over sequences of digits | |
| `Telephony` | call events, leads, notes and note jobs | `Outbox`, `Phone` |
| `Tracking` | the table `ttns`, the poll, messages, status jobs, the funnel | `Outbox` |
| `Bridge` | the composition: the handlers of `internal/api`, the goroutine of `Run`, the CRM | `Outbox`; instances of `Telephony` and `Tracking` |
| `Backoff` | the wait before a retry, as the integer shift it is | |
| `CrmLedger` | abstract: what the bridge promises about orders, with no queue or worker | |
| `SiteOrdersProofs`, `TelephonyProofs`, `TrackingProofs`, `BackoffProofs` | theorems about the module each is named after | it, `TLAPS` |
| `CallerProofs` | theorems about `Phone`, the callers, the copies of notes and the types of `Telephony` | `TelephonyProofs`, `WellFoundedInduction`, `SequenceTheorems` |
| `FunnelProofs` | theorems about what tracking does to the deals, and the types of `Tracking` | `TrackingProofs` |
| `BridgeProofs` | theorems about the composition | `Bridge`, `TLAPS` |
| `LedgerProofs` | `SiteOrders` implements `CrmLedger` | `SiteOrdersProofs` |
| `MCSiteOrders`, `MCTelephony`, `MCTracking`, `MCBridge` | constants and symmetry for TLC | their module |

`SiteOrders`, `Telephony` and `Tracking` are slices: each adds one part's tables
and actions to the worker and the CRM of `Outbox`. `Bridge` puts the last two on
one outbox (and `Tracking` has `Ingest`), and says of every step what it leaves
alone of the other's.

### Store

`orders` is a function from the external ids that have a row to the CRM id (0:
none known). `outbox` is a sequence: ids are AUTOINCREMENT and rows are never
deleted, so a job's position is its id. A job's `next_at` is kept as the bit
`due`, which is all `DueJobs` reads of it: a retry clears it, the clock
(`BackoffElapses`) sets it. `InsertOrder`, `Enqueue`, `SetSDOrderID` and
`RequeueJob` keep the WHERE clauses and UNIQUE keys that make them no-ops.

### Outbox

`pc` is the place of the worker in its loop:

    idle --ProcessOnce--> step --SendCreate--> sent --CreateDeal--> executed
                           |  \--LookupMissed--> lookedUp --SendCreate--^
                           \--LookupFound / LookupFailed--> next job

From `sent` the answer may be an error (`CallRefused`), or the client gives up
and the CRM acts later (`CreateTimedOut`, then `LateDeal`). From `executed` the
answer arrives (`CreateAnswered`) or is lost (`CallLost`). An error answer is
`Retry` (attempts + 1, backoff, given up at `MaxAttempts`) or `Fail` (a
permanent one); both are always possible, since what the CRM answers is not the
bridge's choice. A lookup is one step: it reads the CRM and its answer leads
straight to the next transaction or call. `dealId` is the CRM id that the call
under way is about: the one it answers with, or, for notes and status updates,
the one it names.

`OnSalesDrive(id)` may happen at any time after deal `id` exists, any number of
times.

`Abort` stands for everything that drops the rest of a round: the process
stopping and starting again, its context being cancelled, a storing transaction
that fails. The tables stay as they were. `AbortInFlight` is the same with a
create request still on its way.

`lapses` is a history variable. It counts, per order, the create requests the
outbox may know nothing of when it next creates: an abort during a first
attempt, a requeue after an attempt, a request that outlives its timeout. No
action's guard reads it.

### SiteOrders

`Ingest(ext)` covers new and repeated orders; an order with invalid fields
changes nothing and is left out.

### Phone and Telephony

A spelling is a sequence of digits and of `Other`, any character that is not
one. `Normalize` maps it to twelve digits or to `NoPhone`. `Spellings(number)`
are the ways to write a number that its comment lists.

`calls` is the table of that name, by call id; `leads` lists the orders with
source "call" in the order of their rows, with phone and time; `now` is a clock
in ticks, `Window` the lead window in the same ticks. A lead's external id is
`LeadId(call)`, "call-" and the call's id. `notes` is the CRM: where it has put a
call's note, each time it was asked to.

`OnCall(call, spelled, kind)` is one transaction. A known call id and a number
that is not Ukrainian change nothing; a missed call becomes a note on the newest
lead of its caller in the window (`NoteOnLead`) or a lead (`NewLead`). A repeated
event may come at any time, with another spelling and another disposition. The
note job waits two seconds at a time, with no attempt counted, until its lead
has a CRM id (`NoteWaits`), is given up when the lead's job has failed
(`NoteOrphaned`), and otherwise goes out (`SendNote`, `AddNote`, `NoteAnswered`).

### Tracking

`ttns` has the row of each parcel: its two links (`ext`, `sd`), the progress
(`code`, `rank`, `final`), and two bits for the times: `due` (PollEvery has
passed) and `old` (MaxTrackAge has). The column `polled_at` is `turns`, of which
only the order is kept. Rows come from a shop's order (`Ingest`), a webhook
(`WebhookWithTTN`) and an operator (`AddTTNByHand`); `AddTTN` fills the links a
known row lacks and changes nothing else.

A poll is `PollBegins` (`DueTTNs`: the due rows in turn, `TrackLimit` of them), an
answer for some or all of them, and `PollStored` (the second transaction:
`QueueNews` for status jobs and messages, `WriteBack` for the rows, both from the
rows as read, and `TakeTurn`), then one `SendNotice` per message. A message has
its recipient (`Recipient`): the contact of the order, which goes by the order's
id, the manager for a refused parcel, or nobody. `contacts` is the column
`orders.contact`: the orders where it is not empty, because the shop gave a
telegram chat with them (`Chats`); the rows of leads have none. Handlers run
between any two of these; `PollFailed` is an error answer, `PollAbort` a stop or a
failed commit. Rounds and polls take turns (`Round` needs `poll = "idle"`,
`PollBegins` needs `pc = "idle"`).

The status job takes its id from the payload or from the order (`StatusId`),
fails if it has neither link (`StatusUnlinked`), ends the round if its order is
not the bridge's (`StatusStuck`), and otherwise moves the deal (`MoveDeal`).
`funnel` is what the CRM makes of it: which parcel and stage gave each deal its
status.

### Bridge

`siteOrder`, `binotel`, `salesdrive`, `addTTN` and `requeue` are the handlers of
`internal/api` that change something, each with the service call it makes.
`step(i)` is the `switch` over job kinds, `Run` the goroutine with its rounds
(`Outbox`) and polls (`Polling`), `Stop` what cuts either short, `CRM` and `Time`
the rest of the world. `posted` is a history variable: the orders that the shop
has been told are accepted.

Leads and shop orders share one space of external ids, and the shop may use any
of them: `Ingest` takes "call-" and a call's id like another. The table has the
row of whoever came first. If that is the shop, `InsertOrder` and `Enqueue` do
nothing for the call, which gets neither lead nor note and is answered "lead" all
the same; if it is the call, the shop's order is answered as a duplicate and its
items and contact are dropped. `PartsAssumption` is what `Telephony` and
`Tracking` assume of the constants they share with `Bridge`.

### Backoff

One job's attempts and waits. `Shifted` is `BackoffBase << (Attempts-1)` at
`Width` bits with its sign; `Delay` is what `failed` makes of it, cap included.
`DurationsAssumption` asks no more of bases and caps than to be positive durations:
the configuration is not validated, and a shift may wrap to anything.

### CrmLedger

An order is open once accepted, then done or given up; it is done only with a
deal of its own linked; a link is for good; there is one deal per order and one
more per lapse; and lapses happen only while an order is open, or as it is given
up or revived. The mapping is in `Outbox`: the status of an order is the state of
its create job, its link the column `sd_order_id`, the slack its `lapses`.

## 3. What is checked

| Run | Bounds | Shows |
|---|---|---|
| `orders` | 2 orders, 2 attempts, batches of 2, one abort, one requeue, one late request | `DealsAccounted`, `KnownIdIsItsDeal`, `DoneMeansLinked`, `BatchFresh`, `SettledIsFinal`; `IInv`, the invariant of the proofs; `LedgerSpec`: all of it implements `CrmLedger` |
| `calls` | 3 calls of 2 numbers in 5 spellings each, 2 points in time, window 0, 1 attempt, batches of 2, one abort, one requeue | `CallCountsOnce`, `OneLeadPerWindow`, `NoteNamesRecentLead`, `NotesAtTheirLead`, `DoneNoteIsThere`, `NoteCopiesAccounted` |
| `parcel` | 2 orders of 2 customers, 1 parcel that a webhook or its order links, 4 codes (two ranks of transit, received, refused), 1 attempt, batches of 2, one abort | `StagesHaveJobs`, `MessagesInOrder`, `StageIsTold`, `MessagesToOwner`, `FunnelFromOwnParcel`, `DoneMeansMoved`, `PolledFresh`, `FinishedNotPolled`, `ForwardOnly`, `LinksAreKept` |
| `parcel_turns` | 3 parcels, 1 per request, fairness | `EveryParcelHasItsTurn`: parcels beyond the limit of one request are not starved by those that become due again |
| `bridge` | a shop order with the id that a call's lead would get, 2 calls of one caller, a parcel that the operator and webhooks may link to either order; batches of 3 | `EachHasItsOwnJob`, `EachAtItsOwnDeal`, `MessagesArrive`: the parts do not take each other's rows, jobs, deals or messages, also when two of them want one id |
| `bridge_faults` | 2 calls and a parcel, one stop, one requeue, one late request, batches of 3 | `NotesArrive`: notes reach the deals of their leads although their jobs wait in one batch with others |
| `bridge_live` | 2 calls and a parcel, 2 attempts, batches of 1, fairness; operators name no order | `EverythingSettles`: every create, note and status job ends as done or failed; `LedgerSpec` for the composition |
| `backoff` | 12 bits, 21 attempts, odd and even bases, caps below and above what a wrapped shift comes to | `WaitInBounds`, `WaitDoubles` |
| `orders_abort`, `parcel_stuck`, `parcel_back`, `parcel_deleted` | the least that shows it | statements of the repository that the code does not keep: see the findings |

Why the bounds are enough. Two attempts are a first attempt (no lookup), a retry
(with lookup) and giving up. Two orders are needed for jobs of one batch to wait
for each other, for an id stored with the wrong order, and for one order's job
to starve the other's. One lapse of each kind lets each happen alone and with
the others. Three calls of two numbers give two leads and a note, so that a note
may name the wrong one; with a window of 0, a call in the same tick is at the
window's edge and one in the next tick is past it. The second number begins with
a prefix of the first's spellings. With one attempt, an error gives a note up, so
that a lost note comes again by a stop or a requeue only; its counted retry is the
business of the theorem `CopiesAreAccounted`.

In `parcel` the two orders have a customer each, and the parcel may be linked to
either, before, between and after the two transactions of a poll, so that a
message may go to the wrong one; the orders differ in nothing else, and are
symmetric. The codes are two ranks of one stage, of which the second is not
announced, and the two ways in which a delivery ends, of which one has no status in
the mapping and its message goes to the manager. The parcels of one poll touch only
their own rows and keys, so one parcel is enough there; where they do compete, for
the limit of a request, `parcel_turns` has three. One attempt suffices where the
retry is not the question; an aborted round repeats a request all the same. The
stage "arrived" and requeued status jobs are in the `bridge` runs, and the theorems
are about any codes and requeues.

In the `bridge` runs the clock of the lead window stands still (`MaxTime = 0`), so
that a caller's second call is a note, unless the shop has taken the id of the lead
the first would have had: windows are the business of `calls`, and a batch of 3 has
a create, a note and a status job in it together. `bridge_faults` leaves the shop out,
and with it whoever could get a message: its faults are about notes and creates.
`bridge_live` has lost answers and retries but no stop; the stop's part in
`CrmLedger` is checked in `orders`, on the same worker.

`backoff` has odd bases, whose shifts lose bits one at a time and come back positive
in between, below the cap and above it, and even ones, whose shifts end in 0.
Nothing stops the models (a repeated request can always arrive), so deadlock is left
checked.

**Fairness** (`bridge_live`, and in `Tracking` for `parcel_turns` and
`parcel_stuck`). The loop runs on a ticker, so a round begins when jobs are due;
the worker takes its next step, since every CRM call ends within the 20 s of the
HTTP client; so does a poll; and the clock reaches each job's `next_at`, for each
job by itself, since time passes for all of them. The round has strong fairness:
a poll under way disables it, but the loop does rounds before polls on every
tick, so polls cannot keep it away for ever. A step may always be an error:
neither the CRM's acting nor its success is assumed, nor that anyone sends
webhooks, requeues or repeats a request. Batches of 1 put the jobs in
competition: a job that keeps failing, or a note that keeps waiting for its
lead, lets the others in by the time it puts itself off. In `bridge_live`
operators name no order with a parcel, since with one the property fails: this
is the finding `parcel_stuck`.

`EveryParcelHasItsTurn` needs more (`TurnSpec`): that the loop polls after its
rounds, and that requests to Nova Poshta do not fail for ever. The first is the
code's; the second is an assumption about the outside. Without it the property
does not hold: a request that fails as a whole writes no `polled_at`, so the same
parcels are asked about next time (`worker.go:210`).

### Findings

* `orders_abort`: the README promises that "a lost answer cannot make a second
  deal". The deal is made, the process stops (or the commit fails) before the
  job is finished. Attempts are only counted when an error is handled, so the
  next round sees a first attempt and creates without a lookup (`worker.go:99`).
  The other two lapses that `DealsAccounted` counts break `OneDealPerOrder` as
  well: a requeue sets attempts to 0 although the last answer may have been lost
  (`store.go:241`), and a request may outlive the client's timeout and the
  retry's lookup.
* `parcel_stuck`: `POST /api/ttn` accepts an order id the bridge does not have.
  The status job of such a parcel makes `step` return an error, which ends the
  round; the job stays due with no attempt counted, so every round ends there
  and the jobs behind it, shop orders among them, are never worked on.
* `parcel_back`: stages are jobs of their own. When the call for "arrived" fails
  and is retried after the one for "received", the deal goes back to arrived,
  against "a stale or repeated answer cannot drag a deal back".
* `parcel_deleted`: code 2 is final according to `Final` and its test, but it has
  rank 0, is therefore never progress, and `PollTTNs` applies `Final` to progress
  only; the parcel is polled until MaxTrackAge.

## 4. What is proved

### SiteOrdersProofs

For any set of orders, any `MaxAttempts`, any batch limit and any bounds, from
`OutboxAssumption` only:

* `Invariance`: `Spec => []IInv`; from it `TypeCorrect`, `DealsAreAccountedFor`,
  `KnownIdsAreRight`, `DoneIsLinked`, `BatchStaysFresh`;
* `SettledStaysSettled`: `Spec => SettledIsFinal`, by the same invariant.

`DealsAccounted` is not inductive: it does not say why a create request may go
out. `IInv` adds what the code relies on. With `Made(ext)` for the deals of an
order, made and to be made:

* `EvidenceOfJobs`: a job with no attempts, unless its answer is under way, has
  `Made <= lapses`; this is what sending without a lookup relies on;
* `EvidenceOfWorker`: so has the job of a request that goes out, after a lookup
  because the lookup found nothing and late requests are paid for by lapses;
* `EvidenceOfAll`: everywhere else `Made <= 1 + lapses`;
* `QueueInv`: one job per order, so that what one job shows is about all of the
  order's deals; `BatchFresh`: the worker's `attempts` are those of the table;
* `WorkerInv`: an answer under way names a deal of the job's order.

The proof has a lemma per kind of write (`FinishWrites`, `FailWrites`,
`RetryWrites`, `IngestWrites`, ...) that says what it does row by row, then a
lemma per action, and one temporal step at the end.

### TelephonyProofs

For any calls, numbers, window and bounds, from `OutboxAssumption` and
`TelephonyAssumption`:

* `CallsCountOnce`: `Spec => []CallCountsOnce`;
* `NotesStandAtTheirLead`: `Spec => []NotesAtTheirLead`;
* `DoneNotesAreThere`: `Spec => []DoneNoteIsThere`;
* `LeadsKeepTheWindow`: `Spec => [](OneLeadPerNumber /\ NotesFitLeads)`.

The inductive invariant is `CallInv`. Its parts, and why each is needed:

* `CallsInv`: every job is that of a missed call, and every missed call has one.
  Keys alone would allow a call a create job *and* a note job; that it has only
  one rests on `InsertCall` and `Enqueue` being one transaction.
* `LeadsInv`: two leads of a number are more than the window apart, and a note
  job's call was within the window of the lead it names. It needs that no lead is
  younger than `now`, so that a search of the window finds the youngest.
* `KnownIds`, `NotesInv`, `DoneInv`: a known id is that of a deal of that order, a
  note stands at a deal of its lead, a done note job has its note.
* `WorkerInv`: what is under way agrees with the tables: a note was sent to the
  id that the lead's order has, an answered deal is one of the job's order. The
  order's link may be written between request and answer but never changed, which
  is what lets the worker finish with what it read before.

`OneLeadPerNumber` speaks of numbers as `Normalize` gives them, whatever that is.
What it says of callers is the work of the next module.

### CallerProofs

* `SpellingsAgree`: for any nine digits, each of the five spellings that the
  comment of `phone.Normalize` lists comes out as 380 and these digits;
* `CallersHaveOneLead`: `Spec => []OneLeadPerWindow`;
* `NotesNameTheirCaller`: `Spec => []NoteNamesRecentLead`;
* `CopiesAreAccounted`: `Spec => []NoteCopiesAccounted`;
* `TypesKept`: `Spec => []TypeOK`.

`Normalize` drops what is not a digit, character by character: `Digits` is a
recursive function. The induction theorems of the library take an operator as a
parameter and cannot be used here, so the induction goes by the least
counterexample: `LeastNumber` gets it from the well-foundedness of `<` on the
naturals, `DigitsGathered` shows with it that a function computing the digits
exists for every sequence, and `DigitsOfConcat` that digits after a prefix stay as
they are. The rest follows the `switch` of `Normalize`; `NumbersDiffer` says that two
numbers do not come out as one.

`CallerInv` adds to `CallInv`, besides the types:

* `WhoCalled`: the phone of a call's row and that of a lead are the number of the
  one whose call it was, so that "one normalised number" means "one caller";
* `AttemptsInv`: a job's attempts are at most `MaxAttempts`, so that a requeue
  forgets no more than these;
* `CopiesInv`: the notes about a call are no more than its job's `Credit` (its
  attempts, and one if it is done or the answer is under way) and what was `Used`
  of the aborts and requeues. `NoteCopiesAccounted` alone is not inductive: it
  does not know of the note that has been added and is not answered yet.

### TrackingProofs, of the rows

For any parcels, codes, mapping, orders and bounds:

* `PollsGoByFreshRows`: `Spec => []PolledFresh`;
* `FinishedStopPolling`: `Spec => []FinishedNotPolled`;
* `ParcelsMoveForward`: `Spec => ForwardOnly`;
* `ParcelsKeepLinks`: `Spec => LinksAreKept`.

The inductive invariant is `ProgressInv`. Neither `ForwardOnly` nor
`FinishedNotPolled` is kept by `PollStored` alone, which compares the answer with
the *copy* of a row and overwrites the *row*: `PolledFresh` says that the two
have the same progress whoever has run in between. `PolledInv` says that no copy
is final, which `DueTTNs` establishes and which lets the write-back set `final`
without clearing it; `RowsInv` says that an ended parcel's row is final, and
gives ranks and flags their types. Every step but `PollBegins` and `PollStored`
is shown to be one of `Grows` (rows may be added, links filled in, time may
pass), and one lemma says that such a step keeps everything.

### TrackingProofs, of the messages and jobs

For any finite set of parcels, any codes, mapping, orders and bounds, from
`TrackingAssumption`:

* `NoticesInOrder`: `Spec => []MessagesInOrder`;
* `NoticesToOwner`: `Spec => []MessagesToOwner`;
* `StagesAreTold`: `Spec => []StageIsTold`;
* `StagesAreQueued`: `Spec => []StagesHaveJobs`.

The inductive invariant `DeliveryInv` adds to `ProgressInv`:

* `MessagesInv`: a message's stage is no later than its parcel's rank, so that
  news, which is beyond the rank of the copy and by `PolledFresh` of the row, is
  beyond all that was told; and its recipient is the order the row has, which is
  kept because links are;
* `PollInv`: messages wait only while the poll sends, so none are dropped by the
  next one; a copy may lack a link of the row but has no other; a row's rank is
  that of its code, which a skipped message (on the way already) rests on;
* `JobsInv`: every job is a create or a status job of a parcel, with a code the
  parcel has reached, so that a key that exists is that very stage's job.

`InTurnLists` is what the order of a poll comes to: `ORDER BY polled_at, number`
numbers the parcels of a poll without gaps or repetition, by counting; with it a
poll tells of every parcel it has news of exactly once. Every other step is shown
to be an `Aside`, which changes none of this.

### FunnelProofs

From `OutboxAssumption` and `TrackingAssumption`:

* `FunnelIsOwn`: `Spec => []FunnelFromOwnParcel`;
* `DoneIsMoved`: `Spec => DoneMeansMoved`;
* `TrackingTyped`: `Spec => []TypeOK`.

The inductive invariant `FunnelInv` adds to `DeliveryInv`:

* `LinksInv`: a link known to a copy of a row, or to the payload of a status job,
  is the one the row has. The payload was written from the poll's copy of the row,
  and is used much later; it stays true because links are filled in and never
  changed;
* `CrmInv`: an order's CRM id is that of a deal made for this order;
* `HandInv`: the deal that the worker has asked the CRM to move is the one in the
  payload or one of the payload's order, and once the CRM has acted, it has moved a
  deal by this job. The worker works through one job at a time, so no other job's
  move comes between the CRM's acting and `done`;
* `MovedInv`: `FunnelFromOwnParcel`, and that what it speaks of is there (the
  parcel's row and the deal);
* `QueueInv`, `ContactsInv`, `CountsInv`, `ParcelsInv`, `TimesInv`, `NoticesInv`: the
  types, in parts, so that a step has to be shown to keep only the parts it touches; that
  jobs carry the data of their kind (`Carries`), and that the worker's copies of
  them are fresh.

That a status stays its own parcel's needs the rank of the row never to fall,
which is `ParcelsMoveForward`.

### LedgerProofs

`Implementation`: `Spec => LedgerSpec`, for any orders and bounds, from
`OutboxAssumption`. A lemma per action says what the step shows as: `NothingShows`
for those that touch none of the mapped variables, `LinkShows`, `FinishShows` and
the like for the writes, `StatusWritten` for what one row's write does to the
status of its order and no other's. `MakeDeal` is where the work of
`SiteOrdersProofs` is needed: its guard, at most `slack` deals so far, follows
from the evidence of `IInv` and from nothing the action itself looks at. `IInv`
alone does not say that lapses are those of accepted orders, which a mapped
`Lapse` needs: `LapsesInv` adds it.

### BackoffProofs

For any width, any bases and caps and any number of attempts:

* `WaitsInBounds`: `Spec => []WaitInBounds`. It holds whatever the shift is worth;
* `WaitsDouble`: `Spec => []WaitDoubles`. As long as the doubled base is a duration,
  the wait is that or the cap. Past that point bits are lost, and the shift may come
  back positive and short; but what is left is at least the powers of 2 of the doubled
  base: it is short by no more than the base's odd part.

Both are from `DurationsAssumption` alone. What the second says at 64 bits, in
nanoseconds: with the default of 8 attempts nothing ever wraps, and with bases of up
to a minute it takes a `max_attempts` of 30 at least. Then a base of 1 s or 2 s (odd
part 5^9) waits the cap or 2.6 hours at least, so that no cap below that is undercut;
for 5 s the bound is 31 minutes, for 1 minute 10.5, for 45 s 3.5, which a cap of an
hour, 15 minutes and 5 minutes may exceed. It is a bound: these three bases, shifted
one by one, do not come back below those caps, but the theorem does not say so, and
the configuration rules nothing out. `New` replaces settings of 0 by defaults;
negative ones are not modelled.

The argument: a shifted base is its odd part times a power of 2, and so is, but for
the factor, what is left of it at `Width` bits (`MultipleAtLeast`). If that is neither 0
nor negative, it is at least that power. The facts about powers come by induction
over exponents, again by the least counterexample (`AllNumbers`); `Pow2` is a
recursive function for their sake, as the provers know nothing of `^`.

### BridgeProofs

For any orders, ids of the shop (those of leads included), calls, callers, parcels,
codes and bounds, from `OutboxAssumption`, `BridgeAssumption` and `PartsAssumption`:

* `OneJobEach`: `Spec => []EachHasItsOwnJob`. The call without a lead or a note is
  that whose lead's id the shop has used, and no other;
* `OwnDeals`: `Spec => []EachAtItsOwnDeal`;
* `NotesAllArrive`: `Spec => []NotesArrive`;
* `MessagesReachOwners`: `Spec => []MessagesArrive`.

What is proved of `Telephony` and of `Tracking` does not carry over: each was
proved with the worker, the outbox and the CRM to itself, and here they are
shared. `BridgeInv` (theorem `BridgeInvariant`) says what each needs of the
others:

* `JobsInv`: a job is a create, a note or a status job, about an order that is
  there, a missed call and a lead, or a stage its parcel has reached; its key says
  which, so the key of one kind is never taken by another;
* `OwnJobsInv`, `OwnersInv`: create jobs and notes are one of a kind (a parcel's
  status jobs need not be, for this), every order has its create job; an order has
  been accepted from the shop or is the lead of a recorded call, and only the former
  has a contact; a missed call has a lead or a note and not both, or its lead's id is
  one that the shop has used. An order may be both when the shop repeats a lead's id,
  but the row is the lead's then, and has no contact (`LeadTakenKeeps` is the other
  case, that the shop came first);
* `CrmInv`, `NotesInv`, `DoneInv`, `MovedInv`: what the CRM holds is where it
  belongs, and a known id is one of its order's deals;
* `ParcelsInv`, `MessagesInv`: a poll's copies know no other links than the rows,
  and messages are for the row's own order;
* `HandInv`: what the worker asked the CRM for, per kind of job, is what the job
  is about, although links and deals may have come since; `QueueInv`: its copies
  are fresh.

Two facts carry the proof. `Grow`: whatever a step does, jobs, orders' ids,
deals, notes, calls, leads, links and progress are only added to, so that what was
said of old ones stays true (`OldJobsStay`, `ThereStays`, `MovedStays`,
`HandStays`). And all steps but those that bring jobs are `Aside`: each table is
changed, if at all, in one of a few ways, so that one lemma (`AsideKeeps`) does for
worker, CRM, clock and stop. Orders, calls and polls bring jobs, and have a lemma
each (`SiteOrderKeeps`, `CallKeeps`, `PollStoredKeeps`).

TLC checked `BridgeInv` on the instances of `bridge` and `bridge_faults` before it was
proved.

### Model-checked only

Liveness (`EverythingSettles`, `EveryParcelHasItsTurn`), which is out of the
prover's reach, and with it the fairness the specifications state: the theorems
are about what may happen, and hold with fairness or without. That `Bridge`
implements `CrmLedger` (`LedgerSpec` in `bridge_live`): the refinement is proved of
`SiteOrders` alone, and of the composition only checked. The violations. Every
invariant and every other action property that a passing run checks is proved.

## 5. Plan

1. `Store`, `Outbox`, `SiteOrders` and the proofs about them: done.
2. `Telephony`, `Phone` with their run and proofs: done; every invariant that
   `calls` checks is proved.
3. `Tracking` with its runs and proofs: done; every safety property that `parcel`
   checks is proved.
4. `CrmLedger`, checked and proved of `SiteOrders`: done.
5. `Bridge` with its runs and proofs: done; its four invariants are proved.
   To prove: that it implements `CrmLedger`, as `SiteOrders` does; it needs the
   evidence of `IInv` restated for an outbox with jobs of other kinds, and the
   lemmas of `LedgerProofs` with it.
6. `Backoff` with its run and proofs: done.

## 6. Not modelled

HTTP decoding, tokens and status codes, and what a handler or the service
refuses for them; the routes that only read; Binotel's encodings; texts of notes
and messages, item and customer fields; the configuration file; whether a
message arrives (`notify` is fire and forget); the stand-in servers' own
behaviour beyond what the CRM does. Commits are durable: the loss of the last
transactions in a power failure (`synchronous=NORMAL`) is below this level.

In `Telephony`: a ring (`screenPop`), which only reads the CRM and sends a card;
outgoing calls, which `OnCall` ignores; a note that the CRM adds after the client
gave up; an order of the shop whose own field `source` is "call", which `RecentLead`
would find among the leads (`service.go:134` stores the field as it comes). In
`Tracking`: deals that the CRM did not get from the bridge, and a status request
acted on after its timeout. A webhook with several parcels is as
many webhooks with one, although the code takes them in one transaction: nothing
reads the table between them that the models tell apart.
