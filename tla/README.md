# A verification of the salon backend

The backend (`src/`) books appointments for a salon with branches, employees,
chairs and rooms. API processes serve HTTP requests side by side, worker
processes sweep and deliver in the background, MongoDB keeps the records and
Redis keeps locks, leases and sessions. This directory holds TLA+ modules
that model the parts of it where order, time and failure matter, the TLC runs
that check them on small salons, and theorems about them that TLAPS proves for
salons of any size.

## The system

| part | state it keeps | operations | interacts with | correct when |
|---|---|---|---|---|
| Booking engine (`booking.service`) | bookings, items, status history | create, reschedule, transition, cancel, confirm, settle, expire, accept and schedule quotes | availability (check), locks and leases (exclusion), calendar reservations (write), payments (calls confirm) | no unit of a resource is sold twice; one booking per idempotent request; a pending booking is decided |
| Availability (`availability.service`, `utils/availability`, `travel-availability`) | none | evaluate a slot, enumerate slots | reads schedules, time off, blocks, reservations | says "free" only of what is free |
| Calendar reservations (model) | held / confirmed / released entries with an expiry | insert, confirm, release, TTL deletion | written by bookings, read by availability | mirrors the live bookings |
| Distributed locks (`redis.service`, `distributed-lock.service`) | key, owner token, expiry | acquire sorted, renew, check, release | held around the transactions of bookings, blocks, time off | one owner per key; a lost lock stops its owner; everything comes free |
| Configuration leases (`booking-config-lock.service`) | readers and writer of a branch, with expiry | acquire, renew, check, release | readers: bookings and blocks; writers: every configuration change | no change in the middle of an allocation |
| Scheduling (`scheduling.service`) | schedules, exceptions, time off, blocks | create, decide, cancel | as a writer of configuration, and with locks as a rival of bookings | no live booking under a block or approved time off |
| Branch configuration (`business`, `catalog`, `employee`) | hours, services, resources, staff | create, update | under write leases | changes are serial and guarded |
| Lifecycle worker (`booking-lifecycle`, `operations.worker`) | a worker lease | expire holds, quotes, offers | booking engine, quotes, waitlist | every lapsed hold is cancelled |
| Payments (`payment.service`) | payments, checkouts, webhook events | checkout, record advance, refund, settle, ingest and process webhooks | confirms bookings | money and status agree; a webhook counts once |
| Outbox, notifications, integrations | queue records with leases and attempts | enqueue, claim, renew, complete, fail, retry, cancel | worker processes, providers | no claim is lost or completed by a stale owner |
| Inquiries and quotes, waitlist (`inquiry.service`, `waitlist.service`) | their records | draft, send, accept, schedule, expire; join, offer, book | booking engine, lifecycle worker | one open offer, one booking, decided once |
| Sessions and tokens (`auth`, `token`, `action-token`) | the user's version, Redis sessions and one-time tokens | login, refresh, revoke, reset, confirm | every authenticated request | a revocation ends every session; a token is used once |
| Back office (`business`, `catalog`, `employee`, `scheduling`) | branches, settings, services, offers, hours, categories, products, packages, employees, access, assignments, shifts, time off, resources | create, update, archive | leases, one another's documents | what the check of one request promises is not undone by another |
| Customers, audit, HTTP | records | CRUD and checks | - | - |

What is hard here: requests of many processes interleave between every read
and write; they hold locks that expire under them; processes die holding
them; unpaid holds lapse while they are being confirmed or moved; some
operations on the same records take no lock at all; clients repeat requests;
workers lose their claims and finish anyway. `PROJECT.json` lists each of
these hazards at the line where it bites.

## Plan

1. `SlotBooking` (done): who gets a slot. Requests that create and move
   bookings, block the calendar or change its configuration, with the locks
   and leases between them. Proofs in `SlotBooking_proofs` and `SlotRequests_proofs`.
2. `BookingLifecycle` and `BookingContract` (done): statuses, advances,
   checkouts, refunds and settlements of one booking, shown to implement an
   abstract booking. Proofs in `BookingLifecycle_proofs`.
3. `WorkerQueue` (done): claims, renewals, attempts, retries and cancellation of
   the four queues (outbox, notifications, integrations, webhooks). Proofs in
   `WorkerQueue_proofs`.
4. `Desk` (done): inquiries, quotes and the waitlist with the bookings they lead to.
   Proofs in `Desk_proofs`.
5. `Sessions` (done): sessions and action tokens over Redis and MongoDB. Proofs in
   `Sessions_proofs`.
6. `Availability` and `Pricing` (done): the arithmetic of times, capacities and
   prices against reference definitions, and the bookings made with it. Proofs of all
   of it in `Availability_proofs`.
7. The back office (done): `Backoffice` <- `Premises` <- `Catalog` <- `Personnel` <-
   `Roster` <- `Administration`. Proofs in `Administration_proofs`.
8. What could come next is `ReadWriteLease`: the Lua scripts of the lease, shown to implement an abstract
   readers-writer lock; and an abstract specification of slot booking (slots are
   granted and freed) with the refinement.

## SlotBooking

### State and actions

Each request is a process with a phase `pc`; the phases are the awaits between
which other requests run.

| phase | code |
|---|---|
| idle -> keyed | optimistic `checkSlots`, keys from `slotLockKeys` (`AnswerRepeated`, `PreflightCreate`, `PreflightMove`, `PreflightRefused`, `StartBlock`) |
| keyed -> locking | read lease on the branches (`TakeReadLease`, `ReadLeaseRefused`) |
| locking -> locked | `acquireLocks`, one key after the other in sorted order (`TakeLock`, `LockRefused`, `AllLocked`) |
| locked -> checked | `lockAndRecheckSlots`: the slot resolved again under the locks (`Recheck`, `RecheckRefused`) |
| checked -> open | the transaction begins: `assertValid`, then the reads of its snapshot (`OpenCreate`, `OpenDuplicate`, `OpenMove`, `OpenMoveRefused`; for blocks `OpenBlock`, `OpenBlockRefused`, straight from locked) |
| open -> sealed | the last `assertValid` of the transaction (`Seal`) |
| sealed -> closing | the commit (`CommitCreate`, `CommitDuplicate`, `CommitMove`, `CommitBlock`), a write conflict (`RetryMove`), or the end of the transaction's lifetime (`OutOfTime`) |
| closing -> done | locks and lease given back (`Release`) |

`LostLock` is a failed ownership check, `Renew` the renewal timer, `Crash` the
end of the API process. A configuration writer goes idle -> locked -> open ->
(sealed) -> closing. The writers in `Guarded` (business, catalog, employee) look
at their lease once more before they commit or save, those of schedules and
resources do not, and no look renews it; those in `Transacted` have a MongoDB
transaction with its limit, the others save one document whenever they get to
it. So all three kinds of writer can commit after their lease has run out.
Bookings change without any lock through `ConfirmRead`/`ConfirmWrite`/
`ConfirmConflict` (one transaction), `ExpireHold` (the worker), `PurgeHold`
(the TTL index), `CheckIn` and `Close`.

Redis is `lock` (owner and time left of every key) and `lease` (time left of
the lease of every request). MongoDB is `book` (status, reservation, cells and
a version that stands for write conflicts), `hold`, `blocked` and `config`.
`Tick` alone lets time pass. `late` (bookings confirmed after their hold ran
out), `lapsed` (blocks committed after one of their locks had), `overdue`
(versions of a configuration written after the writer's lease had) and
`refusedBy` are history: no guard reads them. `Sent` says which requests come
together; the others of an instance never begin.

What is abstracted: a reservation is a set of cells `<<resource, instant>>`; a
request has a list of assignments in order of preference instead of the
evaluation of schedules, services and travel, and the slot check takes the
first that fits. The queries of one check are one step, which is sound under
the locks and harmless before them. Keys are one per branch day and resource
day of the cells. The `assertValid` at the end of `lockAndRecheckSlots` is
taken together with the one that follows it in the transaction. Taking the
leases of several branches is one step. Quote acceptance uses the same path as
creation and is not separate here (`Desk` is about the quote). The transaction of a confirmation has no bound
on its lifetime.

### Runs

All use `MCSlotBooking`: an employee, at most two chairs, two days with one
instant each, capacity 1, at most three requests at a time. Bounds are in ticks
of about 30 s: in `rivals` a transaction may take two (60 s), the locks of a
booking and the leases live two without renewal (90 s in the code; two is the
least with which a transaction that is in time keeps its locks), the locks of a
block one (30 s, `scheduling.service.ts:1070`), and a hold two.

| run | question | properties |
|---|---|---|
| `rivals` | in turn, the `Encounters`: two creations and a move for one employee; a creation and a block of the branch; a creation and each of the three kinds of configuration writer; with expiring locks and leases, dying processes, lapsing holds, confirmations, cancellations | `NoOverbooking`, `NoMutualRefusal`, `NoBookingInBlock`, `LostLockNeverCommits`, `ConfigStable` |
| `repeats` | one request twice, two interchangeable chairs, locks that live shorter than transactions so that only the unique index is left, under fairness | `SameRequestSameBooking`, `NothingWaitsForEver` |

Three requests are enough for a rival, a victim and a bystander whose locks
expire in between; two days make requests with different and with shared
keys; the move gives a request the keys of both days. Deadlock checking is
off: a salon in which every request is done and every hold decided stops.

One run shows where the code does less than its documents say (its
counterexample is a finding of `PROJECT.json`):

| run | violated | what happens |
|---|---|---|
| `late_confirmation` | `NoDoubleBooking` | a confirmation checks the hold, the hold lapses, the slot is sold again, the confirmation commits |

Two properties name what the code cannot keep, and fail without it:

- The locks of a block may have lapsed when its transaction commits, as they live
  half as long and nothing asks Redis at the commit. A booking then takes the locks, finds no
  block, and both commit, while `README.md:1115` says that "Lost-lock operations fail rather
  than committing an unsafe allocation." `NoBookingInBlock` speaks of the blocks that
  owned their locks at the commit; over all blocks TLC refutes it in nine states.
  `LostLockNeverCommits` therefore speaks of bookings.
- A configuration writer may commit after its lease, in the middle of an allocation
  that has taken its own lease since, while `README.md:124` says that the configuration
  "cannot change midway through an allocation." `ConfigStable` exempts the versions
  such a writer makes and no other; without the exemption TLC refutes it, with a writer
  that looks again (the commit is awaited after the look) as with one that does not, in
  fifteen states.

Two more disagreements have no run of their own. The slot check asks for the
reservations of its branch (`availability.service.ts:804`), so an employee of two
branches can be booked at both at once, although `OPERATIONS.md:53` says that
overlaps are not possible; with two branches in an instance `NoDoubleBooking` fails.
`README.md:594` says that a key reused for a different payload is refused; the lookup
of the key reads a snapshot and the unique index is on the key *and* the fingerprint,
so two concurrent requests with one key and payloads on different days both commit
(in the model `SameRequestSameBooking` without `SamePayload` fails).

### Fairness

`FairSpec` is weakly fair to the steps of a request that has begun (Node.js
runs the continuation of an await), to `ExpireHold` (the worker sweeps in a
loop) and to `Tick`. Nothing is fair to users, to confirmations, to the
renewal timer or to crashes: requests end and locks come free without any
renewal, and a process may die at any await.

### Theorems

`SlotBooking_proofs` proves, from the assumptions on the constants alone,
`Spec => []TypeOK`, and from `BookingsInTime` (the locks of a booking live at
least as long as its transaction; 90 s and 60 s in the code)
`Spec => []NoOverbooking`, `Spec => []NoBookingInBlock` and
`Spec => LostLockNeverCommits`, for any set of branches, resources, requests,
options, capacities and durations. Of the locks of blocks and the leases of
writers nothing is assumed.

None of these is inductive. The invariant `IInv` adds what the locks protect:

- `RoomKept`, `OpenKept`, `ClearKept`: as long as a request that has passed its
  second check owns its locks, what the check found is still so (of blocks: those
  that were committed under their own locks). This is the
  heart of the argument: the check is old when the commit comes, and only the
  locks carry it over.
- `KeysCover`: the locks a request decided to take include the branch day of
  every cell it wants (every day it blocks), so whoever could disturb it
  needs a lock it owns.
- `Deadline`: the sealed transaction of a booking owns its locks while it is in
  time, and they expire no earlier than it does. This is where `BookingsInTime` enters.
- `Fresh`: a confirmation that can still commit is about a booking that is
  still held, so it confirms what already counted, or is `late`.

Every step is either steady (`QuietSteps`: nobody newly decides, no cell is
newly booked) or one of the five checks and commits, which have a lemma each.
The type invariant is proved and not part of the runs.

`SlotRequests_proofs` goes on from it with what a request may count on:

- `OneAnswer`: `Spec => []SameRequestSameBooking`. The invariant `Answers` says that an
  answer is a stored booking of the same request, and that there is one of each.
- `OneGetsThrough`: `Spec => []NoMutualRefusal`. `Refusals` follows from the sorted order
  in which locks are taken: of those who refuse one another somebody holds
  the least key.
- `CheckedConfigInForce`: `Spec => ConfigStable`, from `BookingsInLease` (a transaction of a
  booking takes 60 s, its lease lives for 90 s). `Leases` says that a reader and the writer
  of a branch do not both hold a lease, and that since a booking that still holds one made
  its check, every change was made by a writer that held none any more. Nothing is assumed
  of the writers.

Only `NothingWaitsForEver` is left to TLC, liveness being out of the prover's reach.

## BookingLifecycle

### State and actions

One booking after it has its slot. `booking` is the `Booking` document with
its reservations (status, advance paid, `expiresAt`, held / confirmed /
released); `pay[k]` the `BookingPayment` whose provider and idempotency key
are `k`; `charge[k]` what the provider knows under that key, which the backend
sees only through answers and webhooks; `lock` the Redis lock
`advance-checkout:<booking>`; `req[c]` how far a checkout request has come.

| phase of a checkout | code (`createAdvanceCheckout`) |
|---|---|
| idle -> begun | a new key, eligibility, amount, hold, outside any lock (`Begin`) |
| begun -> locked | the Redis lock (`TakeLock`), or `ADVANCE_CHECKOUT_BUSY` (`Busy`) |
| locked -> swept | lapsed checkouts are cancelled, outside any transaction (`Sweep`) |
| swept -> checked | everything is looked at again (`Recheck`) |
| checked -> billed | the provider opens a checkout (`AskProvider`), or cannot be reached (`ProviderFails`) |
| billed -> open | the snapshot of the transaction and what it asks of it (`OpenStore`) |
| open -> closing | the payment is inserted (`CommitStore`), or the unique index on the key refuses it and the transaction runs again (`RetryStore`) |
| closing -> idle | the lock is given back if it is still the request's own (`Release`) |

`Heartbeat` is the renewal timer, `Crash` the end of the API process. A request
may be sent any number of times with the same key.

All other operations are one MongoDB transaction that reads the booking and
writes it, so that two of them conflict and one is run again; each is one
action: `Settle` (`applyVerifiedAdvanceSettlement`, for a webhook that comes at
any time after the payment and any number of times), `RecordAdvance` and
`RecordRefund` (staff), `Transition`, `Cancel`, `ExpireHold` (the worker) and
`PurgeHold` (the TTL index). `CommitStore` writes no booking and conflicts with
none of them. A transaction that is rolled back is a refusal and changes
nothing; it is not a step.

`CustomerPays` is the provider's: only a checkout that was stored can be paid,
because its URL reaches the customer in the answer alone, and only until it
lapses. The provider opens one checkout for each key, of any lifetime, and
names the merchant account of a transaction consistently (the unique index
covers it). The answer of `AskProvider` may be lost, which leaves a checkout
nobody knows.

Left out: currencies, merchant accounts, encryption, audit and outbox records,
the cancellation policy (any active booking can be cancelled), payments
without a booking, the external settlement. A move of the booking belongs to
`SlotBooking`.

### Runs

All use `MCBookingLifecycle`. `Horizon` ends the clock, and a lock is taken or
renewed only if it can lapse before `Horizon`; a request can begin again after
it was refused or answered, so the bounds limit who takes part and for how
long, not how often.

| run | question | properties |
|---|---|---|
| `books` | an optional advance of two units, two checkouts of one and two units, two advances staff record for the same charges (one under a key of the customer), two refunds, locks that lapse under their checkouts | `BooksBalance`, `ChargesCreditedOnce`, `OneActiveCheckout` |
| `contract` | a required advance of two units, paid by two checkouts of which either may die, or by staff in parts, refunded, with every transition, expiry and purge, under fairness | `ContractKept`, `OpenCheckoutSettles`, `HoldEnds` |

Two checkouts are enough for a holder of the lock and a rival; two refunds are
needed to refund one advance in parts, and differ in nothing but their name, so that
`books` takes them as symmetric; two units to pay in parts. In `books` a lock lives two
ticks of four, time enough to be renewed, to lapse under its checkout and to be taken by
the other; in `contract` the clock reaches the end of the lock and one instant after the
hold.

`OpenCheckoutSettles` is checked without staff: an advance they record while
the customer pays makes the settlement fail, and nothing in the code prevents
it. A consequence the `contract` run shows: a pending booking is never paid in
full (the payment that completes the advance confirms it or is rolled back), so
the staff transition from `pending_advance` to `confirmed` never succeeds.

`OneActiveCheckout` counts the checkouts that can be paid, but for those stored by a
request whose lock had lapsed under it (`stalled`; such a request is in `lapsed` until
it takes the lock again). The heartbeat is a timer beside the operation (every 10 s for a
lock of 30 s), it stops at its first failure, and the failure is noticed only at the end
(`workerLease.ts:33-37`), when the checkout is stored. Without the exemption the property
fails: a checkout whose lock has lapsed stores its checkout beside that of the next
holder, as both transactions looked for one in snapshots older than the other's commit,
while `README.md:1027` promises one active checkout. What is left says that nothing else
leads to a second one: not a crash, a retry, a webhook or an expiry in between.

One disagreement with the documents has no run of its own. `OpenStore` asks for the
customer, the amount and the hold again but not for the status, so a booking
with an optional advance that was cancelled while the provider was asked still
gets a checkout, while `README.md:1024` promises one only for an eligible booking.

A settlement asks for the hold at the time of the payment, and the confirmation
it calls for the hold now, so a payment made in time whose webhook comes after
the hold is refused. The model does the same (`Acceptable` and `Creditable`);
without the second question `ContractKept` fails, as the slot may be gone.

### The contract

`BookingContract` is what a booking promises, in three variables (status, slot,
paid) and six actions: the diagram of statuses, reservations that are
confirmed from confirmation to the end of the visit and given back at the end,
and a required advance that is collected before the booking is confirmed, by
the payment that confirms it. `ContractKept` substitutes the status, the
reservations and the advance paid of the booking document; the payments,
checkouts, the provider and the lock are hidden. `ContractKept` is the
specification of the contract as a property of the run `contract`.

### Fairness

`FairSpec` is weakly fair to the steps of a begun checkout, to `ExpireHold`
(the worker sweeps in a loop) and to `Tick`; not to heartbeats, customers,
webhooks, staff or crashes.

### Theorems

`BookingLifecycle_proofs` proves, for any requests, keys, amounts, hold and
lock times:

- `TypeCorrect`: `Spec => []TypeOK`. It is inductive as it stands, and the part
  that needs an argument is that the advance paid stays in `0 .. Due`, which
  the hook of `Booking` would refuse to save otherwise.
- `KeepsContract`: `Spec => ContractKept`. The steps map to steps of the
  contract under `InStep`: a booking that is not pending has its reservations
  confirmed, or released once it is over; a pending one has them held until it
  expires and is not paid in full. Paying, the only step that depends on all of
  it, has a lemma of its own (`CreditKeepsContract`).
- `CreditedOnce`: `Spec => []ChargesCreditedOnce`, from `DistinctTransactions`,
  what the unique index says.
- `OneCheckoutAtATime`: `Spec => []OneActiveCheckout`, whatever locks lapse. The
  invariant `LockInv` says that whoever is between taking the lock and giving
  it back owns it in time or is in `lapsed`, so that there is one of them that is not,
  and that no checkout but a stalled one is active from the moment it has looked until
  it stores its own.
- `BooksAgree`: `Spec => []BooksBalance`. The invariant `Ledger` keeps the two sides of the
  books equal and says of every payment what makes a step of either side one of the other
  (a refund is of an advance that was made, an open checkout asks for something). The sums
  are cardinalities of finite sets, which `FiniteSetTheorems` knows about.
- `PaymentsSettle`: `Spec => []OpenCheckoutSettles`. The invariant `WaitInv` is that of the
  contract, and `AllOrNothing`: as long as nothing has been recorded, every checkout and
  every charge is of all that is due and ends within the hold.

The liveness properties are model-checked only.

## WorkerQueue

### State and actions

The outbox, the notifications, the integration jobs and the payment webhooks are
four queues with one protocol; `kind[j]` says which queue record `j` is in, and
the operators at the head of the module say where the four differ.

| | outbox | notifications | integrations | webhooks |
|---|---|---|---|---|
| claimed when waiting as | pending, failed | queued | pending, failed | received, failed |
| limit of attempts | yes | yes | yes | no |
| after a failure, after the last | failed, failed | queued, failed | failed, dead letter | failed, - |
| staff retry | failed, lapsed | failed | failed, dead letter | failed, lapsed |
| a retry clears the attempts | no | yes | yes | no |
| a save checks a version | no | no | no | yes |

`rec[j]` is the document (status, attempts, time until `nextAttemptAt` or
`scheduledAt`, `lockedBy`, time until `lockExpiresAt`, `__v`). `work[w]` is one
pass of a process through a queue:

| step | code |
|---|---|
| idle -> claimed | one `findOneAndUpdate` (`Claim`, `Claimable`) |
| claimed -> working | template, payload or connector are loaded (`Prepare`), or the attempt is refused |
| working -> sent / refused | the provider answers or throws (`Deliver`), with heartbeats beside it (`Heartbeat`) |
| sent / refused -> idle | the outcome, if the record is still in processing and in the name of the process (`RecordSuccess`, `RecordFailure`); a success is dropped if a heartbeat failed, a failure is not |
| succeeded / unsuccessful -> idle | an integration job reports to its connector, whose version must be the one read in `Prepare` (`Report`) |

`Die` ends a process with all its passes. `Read` and `Save` are the two halves of
a retry or a cancellation by staff, with awaits between them; `Save` writes the
fields that were changed on the document, whatever the record is by then.
`SetConnector` and `UpdateConnector` change the connector, which is versioned.
`Enqueue` creates a record once for its key. `last` (the worker that claimed the
record last) and `over` (a claim lapsed at work, or a save overwrote news) are
history.

A delay is `2 ^ attempts` up to a limit; the attempts of a webhook are counted up
to `MaxAttempts` only. Left out: what is sent, entity mappings, connectors that are
deleted, audit records.

### Runs

`MCWorkerQueue`: one record of any queue (records of a queue share nothing but the
connector), two overlapping passes of one process and a pass of another that may die
(`OverlappingCycles`), two attempts, claims of two ticks, delays of one.

| run | question | properties |
|---|---|---|
| `queues` | a request of staff, failing heartbeats, a connector switched on and off, under fairness | `OneWorkerAtATime`, `StaleOwnersRejected`, `SwitchedOffStaysOff`, `EveryRecordSettles` |

| `overlapping_cycles` (violated) | two passes of one process | `StalePassesRejected` |

Three workers are a holder and a rival of its own process and of another, two ticks let a
claim be renewed or lapse, two attempts make a first and a last one, and a request of staff
comes again and again (to retry or to overwrite). With retries four failures fit, enough to
degrade the connector.

`overlapping_cycles` is a finding. `README.md:127` says that workers "reject stale
ownership"; they do it by `workerId`, which is one for the whole process. When a queue
throws, `Promise.all` ends the cycle of the process and the next begins while the other
queues are still at work (`operations.worker.ts:57`); if the claim of the pass left
behind has lapsed, the new pass takes the record and the old one writes its outcome
into it. `StaleOwnersRejected` is what is left of the promise: between processes it
holds without exception, and between passes of one process as long as no claim lapses at
work and staff overwrite no news.

Two disagreements with the documents have no run of their own. An outbox event whose
attempts are used up keeps them when staff retry it (`operations.service.ts:83-105`), so
it is never claimed again (`operations.service.ts:136`), while `README.md:1069` offers
the retry. And a notification can be cancelled while it is delivered
(`notification.service.ts:565`), which the comment there means to exclude.

`OneWorkerAtATime` is conditional because the code is: an operation is not stopped
when its claim lapses, and a retry can overwrite a claim.

### Fairness

`FairSpec` is weakly fair to the steps of a worker that has claimed (provider calls
return or time out), to the claims of processes that do not die (the loop runs
again after one or two seconds), to `Save` and to `Tick`; not to heartbeats, staff,
connectors or death. `EveryRecordSettles` says no more than that a record with a limit
gets its attempts: a record whose worker died in the last of them stays in
processing, where a job or a notification is out of reach of staff too.

### Theorems

`WorkerQueue_proofs` proves, for any records, workers, processes, requests and
limits, `TypeCorrect`, `OneWorker` (`[]OneWorkerAtATime`), `SwitchedOff`
(`SwitchedOffStaysOff`) and `StaleOwners` (`StaleOwnersRejected`), whichever workers
share a process. The invariant `IInv` adds to the types:

- `Owned`: a claim carries the name of the last worker that took it;
- `Exclusive`: as long as nothing of a record was overwritten, a worker at work on
  it is the last that claimed it and the claim is in force, so that nobody can
  claim it;
- `SeenLapsed`: the copy staff hold of a record in processing had lapsed, so a save
  that overwrites nothing interrupts nobody;
- `FreshInUse`: the connector a worker read and nobody has saved since is in use.

## Desk

### State and actions

`Desk` is about the documents that come before a booking: inquiries with the
revisions of their quotes, and waitlist entries. `doc[d]` is a document (status,
revision, when it lapses), `booked[d]` counts the bookings made of a quote or an
entry, `lock` has the Redis locks, and each client serves requests one after the other.

| operation | code |
|---|---|
| `CreateInquiry`, `CancelInquiry`, `RejectInquiry`, `ReviewInquiry`, `UpdateInquiry`, `RemoveInquiry` | `inquiry.service` |
| `LockInquiry`, `CreateQuote`, `SendQuote`, `RejectQuote`, `RemoveQuote` | `inquiry.service`; a new quote supersedes those before it |
| `LockAcceptance`, `AcceptQuote`, `LockScheduling`, `ScheduleQuote` | `acceptQuote` and `scheduleAcceptedQuote` of `booking.service` |
| `Join`, `Leave`, `Offer`, `BookEntry` | `waitlist.service`, and `create` of `booking.service` with a `waitlistEntryId` |
| `LapseQuote`, `LapseEntry` | the sweeps of `booking-lifecycle.service` |

Each is one transaction, in two steps: the action reads and checks the documents of
its snapshot and fixes what it will write, and `Commit` writes it, unless another
commit has written one of the same documents since, in which case `Retry` runs the
transaction again (`withTransaction`). The unique indexes can refuse a commit; `Fail`
is every way to end without a write; `Lapse` the expiry of a lock. A document that is
saved unchanged sends no write in Mongoose and so takes part in no conflict; where a
handler may do that, the model has both (`Saves`).

The slots of the booking that is made are the business of `SlotBooking`.

### Run

| run | question | properties |
|---|---|---|
| `desk` | a client serving customers and staff and one serving staff, the two sweeps, one inquiry with two quotes (one drafted and schedulable, one sent at once), one entry; quotes valid for one instant | `TypeOK`, `OneOpenOffer`, `BookedOnce`, `DecidedOnce`, `DueRecordsLapse` |

About 1.1 million states. Two quotes are a revision and the one it replaces; one entry is
enough, as nothing relates two. Requests come without end, so every operation meets every
other one at every step. An instant after the first one is all a lapse needs. The
exemptions are named: `edited` are inquiries staff have set to another status by hand
(`updateInquiry` takes any, `inquiry.service.ts:416`), `purged` those of which a quote was
deleted (the inquiry stays `quoted`, and its revision is used again).

`DecidedOnce` says which way a quote or an entry may go, and when: a draft is sent, a sent
quote accepted and an offered entry booked only by a transaction that began before the
deadline it has at the commit (`began` is history). A waiting entry has no such deadline:
`create` (`booking.service.ts:1117-1133`) asks that an offer be in time and does not look at
the window of an entry that is waiting, so it can be booked past it until the sweep comes.

`DueRecordsLapse` is under `FairSpec`: weakly fair to the sweeps (the worker loops) and
strongly fair to their commits, which staff can make conflict but not for ever. It is what
ends an expired quote: `sendQuote` saves the expiry and throws inside the transaction
(`inquiry.service.ts:767-771`), which rolls the expiry back.

Seen on the way, without a run: a quote made for an inquiry that is `reviewing` already
writes nothing to the inquiry, so a cancellation beside it leaves a draft alive;
`scheduleAcceptedQuote` and the deletion of the same quote write different documents;
cancelling a booking
leaves its entry `booked`.

### Theorems

`Desk_proofs` proves, for any inquiries, quotes, entries, clients, horizon and validity,
`TypeCorrect` (`[]TypeOK`), `OneOffer` (`[]OneOpenOffer`), `OneBooking` (`[]BookedOnce`) and
`Decided` (`DecidedOnce`), from `DocumentAssumption`, `ProcessAssumption` and `TimeAssumption`,
which keep kinds apart. What is decided in a transaction is decided on a snapshot, so that
the invariant `IInv` has to say of each one what its writes still follow from at the commit:

- `Documents`: the revisions of an inquiry are numbered from one, each once; one of its
  offers is open at most; it is quoted only while an offer has been sent; one quote of it is
  accepted, and what is booked is the accepted one, once;
- `NewQuotes`: a quote that is about to be made is nobody else's and does not exist yet;
- `Transaction(p)`: the writes of `p` follow by its operation from what it read, unless
  one of these documents was written since, in which case it cannot commit. What was
  read of documents that are not written has to hold
  on for another reason: the unique index on revisions, a status that never comes
  back, or the inquiry, which whoever changes them writes too.

`DueRecordsLapse`, liveness, is model-checked only.

## Sessions

### State and actions

One account. MongoDB has the user with a `tokenVersion`; Redis has a key for each session,
one for each family of sessions refreshed from each other, the index of the user's
sessions, and action tokens with a pointer to the latest of each purpose. Every command
to Redis or MongoDB is one action, since requests of several processes interleave between
any two and die between any two (`Fail`). The scripts that are atomic in Redis
(`redis.service`) are one action.

| request | actions | code |
|---|---|---|
| log in, by password or Google | `Login`, `RecordLogin` / `Google`, `SaveGoogle`, then `IssueSession`, `RecordFamily`, `RecordIndex` | `auth.service`, `google-auth.service`, `token.service` |
| refresh | `Refresh`, `Spend`, `Renew`, `Check`, and on reuse `DropFamily`, `ReadReused` | `rotateRefreshToken` |
| log out of one session | `Revoke`, `DeleteSession`, `Deindex`, `DeleteFamily` | `revokeSession` |
| log out everywhere, change the password | `Advance`, `Collect`, `Wipe` | `revokeAllUserSessions` |
| suspend, restore | `Disable`, `Enable` | `employee.service` |
| ask for a token | `AskReset`, `AskCheck`, `Previous`, `Supersede`, `MakeToken`, `Point`, `Announce`, `Withdraw` | `action-token.service` |
| use one | `Consume`, `Redeem`, `Confirm` | `resetPassword`, `verifyEmail` |

The user is saved under optimistic concurrency: a save whose copy was overtaken fails.
Registration, the counter of failed log-ins, passwords themselves, the customer profile,
cookies and the expiry of sessions by age are left out.

### Run

| run | question | properties |
|---|---|---|
| `sessions` | one process (which may die) logs in, refreshes and changes the password, another refreshes, logs out, logs out everywhere, asks for a reset token and uses it | `TypeOK`, `NoSessionOutlivesRevocation`, `OneSessionPerFamily`, `ResetTokensAreSpent` |

Two sessions, one token of each purpose and two changes of the version; 7.8 million states.
One request begins sessions while the other ends them, which is where a session can slip
through; the properties hold because the version of the user decides and not the keys.
`outdated` (what was there when the sessions were last revoked) and `spent` are history.
E-mail confirmation, sign-in with Google, suspension and restoration come in between.

Seen on the way: the save that revokes everything when a refresh token is reused may lose to
another save of the user and then revokes nothing, while `README.md:364` promises it; the
index of the user is deleted as a whole, so that a session added meanwhile works but is
listed nowhere (`README.md:647`).

### Theorems

`Sessions_proofs` proves, for any requests, sessions, tokens and versions, `TypeCorrect`
(`[]TypeOK`), `RevocationHolds` (`[]NoSessionOutlivesRevocation`), `OneOfEachFamily`
(`[]OneSessionPerFamily`) and `ResetOnce` (`ResetTokensAreSpent`). The assumptions say that
the counts are numbers and that the kinds of names are apart. The invariant `IInv` adds:

- `Versions`: no token and no copy of the user a request holds is ahead of the user;
- `Outdated`: what was there at a revocation is of an older version than the user has.
  This is why revocation does not depend on the keys that are deleted after it;
- `Numbered`: sessions and tokens come in turn, so that one that is made is new;
- `OneOfAFamily`: of each family there is one session in all, be it with a key or with the
  request that has taken its key and renews it;
- `About(p)`: what `p` carries from one command to the next is of its own session or token.

## Availability and Pricing

### State and actions

`Availability` is the arithmetic of one day at one branch: the operations on sets of ranges
(`Merge`, `Intersect`, `Subtract`, `Covered`, `Starts`, from `utils/availability`), the
sweep over existing and requested ranges (`CanAllocate`), the working time of an employee,
and `Reason`, the first check of `evaluateSlot` that fails. `Book`, `Reschedule` and
`Cancel` make, move and undo a booking of several items in one step, as its locks make it;
a booking asks that each item be available (`SlotsFree`), that its items fit together
(`InRequest`, from `booking-allocation.service`) and that its travel is free (`TravelFree`,
from `travel-availability.service`). The operators are translated as the code computes
them, with cursors and sweeps; the properties say in terms of instants what comes out.

`Pricing` is a pure module: the price and the advance of several items
(`combinePricing`), what a quote may ask for, and what the schema of bookings stores.
Bookings of `Availability` are priced by it.

Instants are grains of the slot grid; time zones, daylight saving, which of several
overriding prices applies, and travel that begins on the day before are left out.

### Runs

| run | question | properties |
|---|---|---|
| `availability` | six days: an ordinary one, one with shifts and breaks that touch and contain one another, one without hours, and three on which nothing can be had; two employees of capacity one and two, two chairs and a room; up to three bookings of one or two items, with travel | `WorkingTimeIsRight`, `ListingIsComplete`, `NobodyOverbooked`, `TravelIsExclusive`, `PricesHold` |
| `siblings` (violated) | two services at once for the employee who serves two clients | `NobodyOverbooked` |

The days are chosen for the edges: ranges that touch, overlap and contain one another, and
starts at both ends of a window. Three bookings are one more than anybody's capacity; the
grid is two grains, so that starts that are not aligned exist. Prices are of 0, 1 and 50
minor units with 1, 50 and 100 per cent, where rounding matters.

`siblings` is a finding: the items of a request are each checked against what is reserved,
and together against each other, but never together against what is reserved. In
`availability` no request has two items that overlap with one employee who serves several,
and of two that share the room one finds no chair; there `NobodyOverbooked` holds.

Seen on the way: with `slotIntervalMinutes` of zero, which schema and validator accept
(`BusinessSettings.ts:47`), the listing never ends (`utils/availability.ts:164`); an employee
with a day without shifts works while the branch is open; two opening intervals that touch
refuse a slot across the boundary; `isBookable` is tested for travel only; when nobody who is
asked for is assigned to a service, everybody is taken to be (`availability.service.ts:690`).
An advance that is a part of nothing is not one (`PricesHold` says so): a booking of a free
service that requires one cannot be stored (`Booking.ts:324`).

### Theorems

`Availability_proofs` proves what the operations on ranges return and, from it, all five
properties, for any day, any requests, any employees and rooms of any capacity:

| theorem | property | what it says |
|---|---|---|
| `EveryCartIsPriced`, `PricesAreRight` | `PricesHold` | for a cart of any length the client is shown what the server charges, and the booking can be stored |
| `MergeIsRight` | | merging keeps the instants and leaves ranges apart |
| `IntersectIsRight`, `SubtractIsRight` | | the two walks find the instants in both, and in the one and not the other |
| `WorkingTimeHolds` | `WorkingTimeIsRight` | working time, instant by instant |
| `ListingHolds` | `ListingIsComplete` | listing and booking agree |
| `AllocationFits` | | a sweep that says yes looked at the events only, and yet at every instant both fit |
| `TravelHolds` | `TravelIsExclusive` | nothing beside travel, in any order of bookings, moves and cancellations |
| `NeverTwiceHolds` | | never two times the capacity, whatever is asked for |
| `NobodyOverbookedHolds` | `NobodyOverbooked` | never more than the capacity, if `Separate` |

The assumptions on constants are those the schemas make. `DaysAssumption`: hours, shifts and
breaks are times of the day (`models/core/shared.ts:128`), though they may be empty, overlap
or be the wrong way round. `ResourcesAssumption`: there are finitely many kinds of resource,
a resource takes one client or more (`models/scheduling/BookableResource.ts:23`) and is not
an employee. `RequestsAssumption`: a service takes some time (`models/catalog/Service.ts:61`).
`DayAssumption` has the capacity of an employee, one to five (`models/staff/Employee.ts:63`),
and `TravelHolds` rests on the five: travel takes five units, so that beside it there is room
for nobody.

*The way to it.* Every operation is a fold or a recursive function over sets of ranges, which
TLC evaluates by their definitions; to prove what they compute is induction over data. The
induction theorems of the library take an operator and cannot be instantiated by these
provers, so it is made by hand from the least counterexample. `Least` says that a set of
naturals that is not empty has a least element. `Totalled` takes the running sums of a list
from it, `Recursion` that a definition by recursion over falling ranks has a solution,
`Folding` that a fold over a finite set computes step by step, and `Choosing` what holds of
every subset when it is kept by one element more. Each operation then has an invariant of its
sweep: `Merged` (what has been joined so far covers what has been taken, apart), `CommonIsRight`
(what the two rests have in common is still to be found), `Swept` (behind the cursor is the
source without the exclusions so far), `SweepFits` (the counts at the last event, and the
verdict on all before). Units add up (`UnitsOfBoth`), and between two events nothing changes
(`NetAt`), which is why a sweep over events is enough.

*Listing.* A start that passes every check is on the grid and its service ends in the opening
hours (`WhenAvailable`); the listing reaches it from the first point of the grid in steps
(`Aligned`).

*Bookings.* `Calm` is inductive and implies `TravelIsExclusive`: every reservation is a range
that is not empty, an item takes one unit and travel five of an employee, and travel overlaps
nothing of that employee. New travel is checked against what others have reserved, and lies
outside the items of its own booking (`TravelSpansAre`). A new item beside old travel would
need a sixth unit (`OwnCheck`). `Within` is the invariant on loads: where a booking takes
something, what others have reserved leaves room for one (`OwnCheck`), and what the booking
takes by itself fits (`RequestFits`). So a load is at most twice the capacity less one
(`Bound`), and no better bound holds: TLC finds bookings that reach it with two services for
an employee who serves two, and `siblings` is one of them. Who serves one client at a
time never has two. `Separate` says that no two overlapping services of a request
share an employee or a room that takes several clients: services one after the other, for
example, or a salon in which everybody serves one. A booking then takes one unit of anybody at
a time (`RequestOnce`), and the bound is the capacity. The code does not ensure `Separate`;
this is the finding above. Of overlapping services that share the room of two, the run
`availability` has some that the theorem does not speak of.

Both invariants were checked with TLC on the two instances before they were proved.

## The back office

### State and actions

`Backoffice` says how a request changes MongoDB, and the four modules after it say what the
requests are; `Administration` puts them together.

| module | documents | requests |
|---|---|---|
| `Premises` | branches, settings, the service, its offers, opening hours | `business.service`, and services and offers of `catalog.service` |
| `Catalog` | categories, a product, a package | the rest of `catalog.service` |
| `Personnel` | an employee with account, access and assignments, administrators, a skill and a level | `employee.service` |
| `Roster` | working hours, time off, chairs and rooms | `scheduling.service` |

| step | code |
|---|---|
| `Ask` | the middleware lets the request in; which branches to lease is read (`withBookingConfigLeases`) |
| `Lease` | the leases are taken, all or none; `Lapse`: one runs out |
| an operation, by its name in the code | the handler reads, checks and fixes its writes (`Open`) |
| `Commit` | the write: in a transaction that asks for the leases once more, or, for `Plain` requests, by a save with a version; a few requests go on after it (`Cascade`, `Continue`) |
| `Retry`, `Fail` | a write conflict; any error, or the end of the process |

A save writes only the fields that changed, so that two requests that change different
fields of one document in bulk and by save do not undo one another. The reads of a `Plain`
request, which has no transaction, are taken as one step with its checks.

One service, one employee, one product and package, one skill and level are enough where
nothing relates two of them. Prices, names, images, permissions, the category of a service,
the level of an employee and the hours within a day are left out; skills and levels have
actions and no property of their own.

### Run

| run | question | properties |
|---|---|---|
| `administration` | seventeen agendas, each of one part of the back office: what there is at the start, and what two administrators, a manager of one branch and the employee ask, all of it in any order and at once | `TypeOK`, `SettingsFitBranches`, `WithdrawnServiceIsNotOffered`, `PlansNeverOverlap`, `CatalogInOrder`, `DismissedCannotWork`, `ServedWhereAllowed`, `StaffPlacedWhereAllowed`, `ManagersKeepToTheirBranches` |

2.3 million states. An agenda puts together requests that read what the others write;
requests that no agenda puts together are not interleaved. A request can be made
again and again. Two branches, two offers, two versions of each kind of hours, two times off
and three categories are what a conflict needs; three categories make a cycle longer than one.

Leases lapse, and where the code then writes anyway, or cannot know better, the properties
exempt what follows. `mishap` records it:

| mishap | what happened |
|---|---|
| `blind` | the write touches a branch that was not among those leased, as they were listed before (`employee.service.ts:346`, against `README.md:1117`) |
| `late` | a write after its lease ran out, by a request that does not look again (shifts, resources) |
| `default` | settings that are made because there are none begin in single mode without a look at the branches (`business.service.ts:168-204`) |
| `unguarded` | a service was withdrawn from its offers after the lease had run out, or where a branch had come since: the second write looks at nothing (`catalog.service.ts`, `updateService`) |
| `torn` | a process died between two writes of one request |
| `crossed` | two changes of the catalogue at once, which nothing keeps apart |

Without these exemptions the properties fail, and in each case the code is why: two
crossing moves of categories make a cycle, for instance, although `README.md:894` calls
them hierarchical.

Seen on the way, without a run: the public list of products filters by a field products do
not have and is always empty (`catalog.service.ts`, `listProducts`); a package that is only
switched on is not validated; a product in a deleted category cannot be changed any more,
not even switched off; the types of a category are extended although the request is then
refused; enabling an administrator does not restore the access that disabling suspended; two
administrators can disable each other; switching a branch off leaves its offers in force;
`upsertSkill` may assign a skill to an employee who was deleted meanwhile; access that is
restored comes back with the branches the employee had.

### Theorems

`Administration_proofs` proves all nine properties, for any branches, offers,
resources, versions of hours, times off, categories, clients and requests:

| theorem | property | the invariant it adds |
|---|---|---|
| `TypeCorrect` | `TypeOK` | `Sane` |
| `TheDismissedAreLockedOut` | `DismissedCannotWork` | `Accounts`: what the writes of a request leave of the employee, the account and the access agrees |
| `ManagersStayAtTheirBranches` | `ManagersKeepToTheirBranches` | `Asked`, `Managed`: who may change an employee may do so at the commit |
| `PlansStayApart` | `PlansNeverOverlap` | `Keyed`, `Planning`, `Absences`: a version that is about to be written meets none there is |
| `OnlyWhereItIsAllowed` | `ServedWhereAllowed` | `Serving`, `OffersFit`, `Stocks`: what an offer or a resource rests on is there as long as the leases are |
| `WithdrawnForGood` | `WithdrawnServiceIsNotOffered` | `Withdrawing`: either the second write is to come, or nothing is offered |
| `StaffBelongWhereTheyAre` | `StaffPlacedWhereAllowed` | `Placing`: whoever is put somewhere may be there until it is written |
| `SettingsNameTheBranches` | `SettingsFitBranches` | `Ruled`, which needs no lease: there is one primary branch, the settings name it, and whoever moves it writes both; `Moded`, which does |
| `CatalogStaysInOrder` | `CatalogInOrder` | `Resting`, `Cataloguing`: as long as no two changes have crossed, no category is above itself, products are filed where they may be (`Filed`), and what is about to be written keeps it so (`Files`) |

The assumptions are on names (`NamesAssumption`, `BackofficeAssumption`,
`PremisesAssumption`) and on how the agendas begin (`AgendaAssumption`): with documents of
the right types, one primary branch, plans that are apart, no category above itself, a
product that is filed, and an account that agrees with the employee.

The argument is about requests that do not know of each other. `Sane` has the types of
the documents and, for each request that can still commit, of what each would be after it
(`Would`), since several requests may write different fields of one document. Of all steps
there are four sorts (lemma `Steps`): a request finds what it will write (`Opening`), writes
it (`Committing`), does the second write (`Cascading`), or no document changes (`Quiet`). When
one commits, another that can still commit afterwards either writes other documents
or is the bulk write of an offer beside a save of it (`Beside`), and the fields of
the two are merged. What a request read and does not write is kept by leases: two requests
hold a lease on one branch at a time only if both only read (`Rivals`). Every
invariant in the table is proved for `Opening` from the guards of the operation, for
`Committing` and `Cascading` from one of these two reasons, and for `Quiet` at once.

The catalogue has no leases, so `Cataloguing` argues otherwise: a request that commits while
another has writes of the catalogue is a mishap (`crossed`), and without one every request
finds the catalogue as it read it. That no category gets above itself needs no induction
over the ways up: `Above(k)` is the least set with the parents of k and of all in it, so
that k is not above itself is shown by a set with these that k is not in, and one category
moved under others that it is not above leaves such a set to every category
(`StaysRooted`). What a product request remembers of its category between its two writes is
`Recalls`.

These invariants were also checked with TLC on the agendas.

## What is proved and what is checked

Proved for every value of the constants, in eight modules:

| module | of | what is proved |
|---|---|---|
| `SlotBooking_proofs` | `SlotBooking` | types, no overbooking, blocks, locks held at the commit |
| `SlotRequests_proofs` | `SlotBooking` | one answer to one request, no mutual refusal, the configuration that was checked |
| `BookingLifecycle_proofs` | `BookingLifecycle` | types, the refinement of `BookingContract`, charges credited once, one checkout, balanced books, open checkouts that settle |
| `WorkerQueue_proofs` | `WorkerQueue` | types, one worker at a time, stale owners, what is switched off |
| `Desk_proofs` | `Desk` | all safety properties |
| `Sessions_proofs` | `Sessions` | all properties |
| `Availability_proofs` | `Pricing`, `Availability` | what the operations on ranges and the sweep of capacities return; all properties (`NobodyOverbooked` if `Separate`) |
| `Administration_proofs` | the back office | all properties |

Model-checked on the instances above only:

- liveness under fairness (`NothingWaitsForEver`, `DueRecordsLapse`, and those of
  `BookingLifecycle` and `WorkerQueue`), which is out of the provers' reach;
- `NobodyOverbooked` for requests of which services share a room that takes several clients.

Theorems hold from the assumptions named with them. Those about constants are evaluated by
TLC on every run; `BookingsInTime`, `BookingsInLease` and `Separate` are hypotheses of single
theorems. The code ensures the first two (locks and leases of 90 s, transactions of 60 s); of
the third the paragraph of the theorem says when it holds.

`PROJECT.json` has for every property of a passing run a mutant of the code that breaks it.

## Not modelled

`PROJECT.json` lists every component with its status. Customers, audit records and HTTP are
record keeping and pure checks without a protocol. Of the modelled parts, settlement at the
till, payments without a booking, templates and preferences of notifications, entity
mappings and inbound webhooks of integrations, registration, and queries and lists are not
modelled: they change one document under no condition on another, or change none. The Lua
scripts of Redis are taken as atomic, which Redis guarantees.

Two statements of the documents are read with care. `README.md:1117` says that writers wait
for readers; a request whose lease is taken is refused with 409 at once
(`booking-config-lock.service.ts:71-81`), and that is what the modules do.
