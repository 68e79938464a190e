# A verification development for Real-Estate-CRM

The repository is a CRM for a property developer: a FastAPI backend on MySQL
(`src/backend/app`), a Next.js client (`src/frontend`) and one background worker. Its own
logic sits in `src/backend/app/services`, one file per business component, on SQLAlchemy
tables in `src/backend/app/models`. This directory holds TLA+ models of the parts of it
where several requests, made by several people over weeks, must add up to something correct:
who has a claim on a unit, where a buyer's money is, what a channel partner is owed, at what
price something was offered, who lives where and has paid for it, who may sign in and do
what. TLC checks them on small instances, and TLAPS proves the most important properties for
instances of any size.

Contents:

1. [What is in the system](#1-what-is-in-the-system)
2. [What makes it hard](#2-what-makes-it-hard)
3. [How the models read the code](#3-how-the-models-read-the-code)
4. [The modules](#4-the-modules)
5. [The runs](#5-the-runs)
6. [What is proved](#6-what-is-proved)
7. [Where the code disagrees with itself](#7-where-the-code-disagrees-with-itself)
8. [What is left out, and why](#8-what-is-left-out-and-why)
9. [Plan](#9-plan)

`tlc -config UnitRaces.cfg MCUnitInventory` checks a run, `tlapm UnitInventoryProofs.tla`
the proofs of a module. `PROJECT.json` says, definition by definition, which lines of the
source a model stands for.

## 1. What is in the system

| Component | State | Operations | Correct when |
|---|---|---|---|
| **Inventory** (`services/inventory.py`) | units and their status, holds with an expiry time, the `active_unit_key` columns | list, withdraw and transition a unit; request, approve, reject, release, expire a hold; direct booking and its cancellation | a unit has one claimant, and its status says which kind |
| **Bookings** (`services/bookings.py`) | bookings, their payments and approval steps | create from a hold, advance, take payments, ask for approval, decide, cancel | a sale is confirmed on verified money and on the word of every approver |
| **Finance** (`services/finance.py`) | payments, reconciliations, installments, allocations, charges, refunds, a customer ledger | submit, reconcile, allocate, fail; charge and waive; request, decide, process a refund; demands, reminders, receipts | what is owed, what is allocated and what the tables say agree |
| **Post-sales** (`services/post_sales.py`) | cancellations, transfers | request, review, decide, complete | a settlement gives back what was paid less the deduction, once; a transfer never leaves two claims |
| **Channel partners** (`services/partners.py`) | partners, documents, agreements, commission structures, registered leads, commissions, payouts | vetting, activation, registration, accrual, decisions, payout, reversal | only vetted partners sell; a commission is paid once and on a sale that stands |
| **Quotations** (`services/quotations.py`) | price lists and their rules, cost sheets, discount approvals, quotation versions | set up and replace price lists; price a unit; approve a discount; make a version, send, accept, reject, expire | a price is its list's and adds up; no discount above the limit without somebody else's word; one open version |
| **Documents and KYC** (`services/documents.py`) | documents, versions, reviews, files | upload, review, expire | the newest version of a paper counts, and no booking goes on with one that ran out; what was reviewed has its file |
| **Rentals** (`services/rentals.py`) | properties, leases and their documents, rent schedules, invoices, payments, renewals, moves | draw up, sign, move in, invoice, pay, renew, give notice, move out | one tenant per property; every day is charged once, and paid once |
| **Property lifecycle** (`services/property_lifecycle.py`) | a case per booking: agreement, construction updates, final demand, no-dues certificate, snags, overrides, possession, handover | step each forward, override a condition | possession only on what was met or overridden; the stage tells what happened |
| **Leads** (`services/leads.py`) | leads, assignments, activities | enter, import, assign, follow up, qualify, lose, convert, link duplicates | one owner, converted once and left alone; the next follow-up is the next one |
| **Site visits** (`services/site_visits.py`) | visits | schedule, confirm, check in and out, cancel | one outcome per visit |
| **Service requests** (`services/service_requests.py`) | categories, policies, tickets, escalations, feedback | open, assign, answer, escalate, resolve, reopen, close, rate | deadlines as the policy says; the escalation flag tells |
| **Sessions** (`services/auth.py`, `core/security.py`) | refresh-token families, reset tokens, `auth_version` | sign in, rotate, sign out, change and reset a password | one live token per family; what was ended stays ended |
| **Roles** (`services/rbac.py`) | roles, their permissions, who has them | make, change, delete, assign | nobody hands out what he does not hold; an administrator always remains |
| **Organization** (`services/organization.py`) | branches, departments, users, teams, territories | record keeping with references | references hold; territories form trees |
| **Customers** (`services/customers.py`) | customers | record keeping | - |
| **Notifications, e-mail, dashboard** | notifications | queue what is due; read only | each event queued once |
| **Hold-expiry worker** (`workers/unit_hold_expiry.py`) | none of its own | every 30 seconds, expire what is due | an overdue hold stops reserving its unit |
| **Database** (MySQL 8, outside `src/`) | all of the above | transactions, row locks, unique keys | see section 2 |

They interact through shared rows rather than messages:

- `create_booking` consumes a **hold** and an accepted **quotation**; the confirming
  `decide_approval` turns the **unit** into a sale and asks **partners** for a commission;
  `complete_cancellation` gives the unit back, opens a **refund** that finance pays, and
  reverses the **commission**.
- `allocate_payment` in finance moves the **booking** forward, so a booking's course depends
  on its money and the other way round.
- The worker and ordinary reads of the inventory expire the same holds.
- A site visit's check-out writes to its **lead**; a cost sheet freezes the rules of a
  **price list**; possession asks bookings, finance and documents whether its conditions are
  met; deactivating a **user** ends his sessions and moves his roles.

The permission table, the schemas and the routes decide who may call what with which values;
the next-state relations contain a call only when a route makes it.

## 2. What makes it hard

Nothing in the tests overlaps two requests, and the tests run on another database than
production does. What production meets:

- **Old reads.** MySQL's default isolation is REPEATABLE READ. The snapshot a plain SELECT
  shows is taken at the transaction's first query, which is the query that authenticates the
  caller (`api/dependencies.py`). From then on a plain SELECT shows that moment; `SELECT ...
  FOR UPDATE` shows the latest commit, after waiting for the row. And SQLAlchemy's identity
  map does not overwrite the attributes of an object that is already loaded: a handler that
  loads a row plainly and locks it afterwards goes on deciding on the OLD attributes
  (`decide_hold`, `cancel_booking`, `decide_approval`'s booking).
- **Sums and counts.** Caps and quorums are computed with plain SELECTs (undecided approval
  steps, verified payments, refunds committed so far).
- **Long protocols.** A hold, a booking, a cancellation or a payout lives through many
  requests by different people, and another component may move the row in between.
- **Commits in the middle.** `_expire_hold` commits before the handler answers 409, and a
  refresh token used twice ends its family before the 401. Every other error rolls the whole
  transaction back.
- **Queries that miss the handler's own writes.** The session does not flush by itself
  (`db/session.py:14`), so a query sees what the handler changed only where it called
  `flush` first: the stage of a case, the next follow-up of a lead.
- **Arithmetic with edges.** Half-up rounding, discount levels with gaps, months of 28 to 31
  days, deadlines at the very minute.
- **Time.** Holds, agreements, structures and protections run out between any two requests.
- **Lock order.** Handlers take the same rows in different orders.

`PROJECT.json` lists each hazard at its line, with the properties that would catch it or the
reason why none does yet.

## 3. How the models read the code

**One action is one request handler, at its commit.** The rows a handler writes it has
selected FOR UPDATE before, and keeps locked until it commits, so what it writes is written
at one point. (Two reads write rows they have not locked, the marking of overdue invoices
and the expiry of papers; their models write what an old view told them to.) The action
contains everything the handler does, in particular the expiry it performs first and the
rows other tables get.

**What may be old is a parameter.** A handler that decides on a plain read takes a read view
`v`. `Views` holds the present (`Snapshot`) and what requests that began earlier saw. In the
first three components each member of `Session` is one such request, whose view is taken
when it executes `Begin`; in the others the variable `old` holds the views, and `Begin` adds
the present to it. `Begin` may happen at any time and nothing else refreshes a view, so a
view can be arbitrarily old: everything two overlapping requests can do to each other is
covered, one view being one request whose transaction began early. With `Session = {}`, or
by `Step` instead of `Next`, requests never overlap. Each comment in the modules says which
column of which read comes from `v`; the columns not taken from `v` are read from locked
rows. `Access` and `Organization` have no views: what their requests can do to each other
when they overlap is not modelled.

**A query sees what was flushed.** Where a handler asks the database about rows it has just
changed, the model takes the rows before the change, unless the code called `flush`:
`SyncStage` in `PropertyLifecycle` and the next follow-up in `Leads` are told what they see.

**One behaviour, one desk.** Components that share no row cannot influence each other, so a
run that let them take steps side by side would only multiply their states. `MCAccounts`,
`MCPremises` and `MCOffice` choose in the initial state which component, with which bounds,
the behaviour is about (`kind`, `desk`), and let only that one act. Their properties name the
desk they are checked at. `MCPartners` chooses a kind too, but its kinds are bounds on one
instance (`FirstSale`, `OneByOne`), so every property is checked in both.

**A row is a record; a row that does not exist yet has status "NONE".** The identities of
rows are constants, handed out once: rows are not reused. (In `Organization`, whose rows are
deleted, a row is an entry of a function and its identity free again.) A run stops for lack
of identities, which is why the configurations turn deadlock checking off.

**Unique keys** are modelled by what they refuse: an insert that would break one rolls back,
so the action is not enabled. `key` is the column `active_unit_key`, TRUE when it holds the
row's unit.

**Time** is a flag that turns: a hold falls due, a window goes from future to current to
past. Nothing forces it to. Service requests have a clock of minutes, since their deadlines
are compared with each other, and rentals a calendar, since their periods are computed from
it.

**Money** is a small number, in cents where it is rounded. Where due dates and creation
order decide which installment an amount goes to first, the model takes any order: `Spreads`
fills one installment after another and leaves at most one of them partly filled.

## 4. The modules

### Units, holds and bookings

`UnitInventory` is `services/inventory.py`, the half of `services/bookings.py` that touches
units and approvals, and the worker.

| In the model | In the code |
|---|---|
| `unit`, `hold`, `booking`, `approval` | `units.status`, `unit_holds`, `bookings`, `booking_approvals` |
| `view` | the snapshot of a session's transaction: hold statuses, bookings, approval steps |
| `trespassed` | history only: units over whose claim a booking wrote that had already lost the unit |
| `CreateHold`, `DecideHold`, `ReleaseHold` | the handlers of the same name; each begins with `_expire_hold` |
| `ExpireAndRefuse` | the expiry that is committed before a decision or release answers 409 |
| `ExpireDueHolds` | one commit of `expire_due_holds`, by the worker or a read: any nonempty set of overdue holds, since the batch is bounded and skips locked rows |
| `InitiateBooking`, `TransitionBooking` | the inventory screen's direct booking and its cancellation |
| `CreateBooking`, `AdvanceBooking`, `RequestApproval`, `DecideApproval`, `CancelBooking` | the controlled flow |

`UnitClaims` is the abstract specification: no statuses, keys or sessions. A unit is claimed
by one hold or booking at a time; a claim is taken from nobody, from an overdue hold, or by
a booking from an approved hold; and a claimant that lost its claim never has it again.
`UnitPromise` instantiates it with a refinement mapping (the claimants of a unit are the
rows with its key, its stage is its status) and states `PromiseKept`. The one freedom the
promise gives is `Contest`: it follows a unit until a booking that no longer has it writes
its status. That this can happen at all is a finding (section 7); `trespassed` marks exactly
the units it has happened to, so what is promised of all the others stays as strong as it is
without the defect.

### Transfers and cancellations of sales

`Transfers` extends `UnitInventory` by the handlers of `post_sales.py` that give a sale
another unit or take it back: `transfer` and `cancellation` go from request over review and
decision to completion, and `hands` are the people who asked and reviewed, one of whom the
decision must not come from. `Available` is `_unit_is_available`, asked at the request, at
the review and at completion. Meanwhile `UnitInventory` goes on (`InventoryStep`), so the
target can be held or booked, the sale cancelled by either route, and the unit it left sold
to somebody else. What completion does to the payment plan, the ledger and the commission is
not here (the money of a cancellation is in `BookingAccount`), and that it asks for the
payments that were reviewed and for an accepted quotation only narrows what can happen. The
module is checked and proved for requests that do not overlap: a `cancel_booking` that began
before its booking was confirmed and transferred decides on the old row.

### A booking's money

`BookingAccount` follows one booking: `status` as far as money matters, `plans` (every
payment plan set, with amount and paid per installment; the newest is active), `pay`,
`alloc` (the active allocations), `refund`, `charge`, `cancel`, and `ledger` as a set of
entries. Actions are the handlers of `finance.py`, those of `bookings.py` that take payments
or depend on them, and the cancellation handlers of `post_sales.py`. One booking suffices
because every one of these handlers locks and sums within one booking; the ledger is the
customer's, but its balance is a sum of entries each of which belongs to a booking.

### Channel partners

`ChannelPartners` covers vetting (documents, agreements, approval, activation), terms
(assignments, commission structures with their dates), protected leads, and the way of a
commission from the confirmation of a sale to payout or reversal. The confirmation, the end
and the cancellation of a booking appear with the guards that matter to a commission, the
rest of them being `UnitInventory`'s. Days pass by `AgreementAges`, `StructureAges` and
`ProtectionEnds`.

### Prices and quotations

`PriceCalculation` is `calculate_cost_sheet` as operators on sequences and sets: the base
price with its three sources, adjustments and floor rise, premiums, parking, amenities and
charges of three kinds, each on the total so far, discount, taxes per category, the
deviation of the price and the approval it needs. A result is a set that is empty where the
code refuses. `Quotations` is the life around it: `list` (with its rules and window),
`sheet` (which keeps the rules and lines it was priced with), `approval`, `quote` (versions
of one number). `CreateCostSheet` reads its list from a view; `DecideDiscount`,
`CreateQuotation`, `CreateQuotationVersion` and `ChangeQuotationStatus` lock what they
change.

### Customer documents

`Documents` is `documents.py` for the papers of one customer: `document` with its versions,
file and expiry date, `today`, and the reviews. Expiry runs inside reads and bookings and is
the one handler that writes without a lock what it found in its view. `RelyOnKyc` stands for
`create_booking`, `advance_booking` and `request_approval` as far as they look at papers:
they let expire what is due, and then want one that is verified. `lapsed` records a paper
they would have counted after its date. A request does not outlast its day (`NextDay` drops
the views), which spares the model the midnight between two queries of one request.

### Leads and site visits

`Leads` follows leads from entry or import (and the search for duplicates, in a view)
through `STATUS_TRANSITIONS` to conversion or loss: `lead`, `assignees` (the users of the
active assignments), `activity` with due times, `customer`, and `visit`. A visit is for a
lead or for a customer alone, and may be handed from one to the other; its check-out writes
the next follow-up of its lead, if it has one. The rows of an imported file each name their
own owner.

### Sessions, roles, organization

`Access` joins `auth.py`, `rbac.py` and the account operations of `organization.py`, because
deactivating, changing roles or setting a password all raise `auth_version` and revoke
tokens: `user` with password and roles, `role`, `token` with families, `reset`, and
`access`, the issued access tokens that are still of the present version. Whoever has a
token may present it again at any time, which is what a lost answer or a stolen token looks
like to the server. `Organization` has the places: branches, departments, users, teams,
territories, what a foreign key refuses, and the walk up the hierarchy that refuses a loop.

### Premises: rentals, handover, service requests

`Rentals`: `property`, `tenant`, `lease`, `document`, `schedule` (the periods with their
dates, from a small calendar with months of 31, 28 and 30 days), invoices, `payment`,
`renewal`, `move`. `ExpireOverdue` is the marking that happens when invoices are read.
`PropertyLifecycle` is one booking's case: `stage` as `_sync_stage` computes it from what it
sees, the dossier possession depends on, overrides, possession, handover. What bookings,
finance and documents contribute is the set `external` of conditions, which come and go.
`ServiceRequests`: categories and policies that change while tickets run, deadlines,
assignment, escalations, resolution and reopening.

### Modules for TLC and for TLAPS

`MCUnitInventory`, `MCBookingAccount`, `MCChannelPartners`, `MCPartners` and `MCAccess` add
what TLC needs to one module: schedules, bounds and symmetry sets. `MCAccounts`,
`MCPremises` and `MCOffice` compose instances, as section 3 says, and restate the properties
of the components. The proofs are in modules of their own: `UnitInventoryProofs` (types, keys and
claims, the refinement, approvals, the course of holds and sales, transfers),
`ChannelPartnersProofs`, `PremisesProofs` (possession, tickets, tenants, rent),
`OfficeProofs` (sessions and grants, leads, papers, prices and quotations, places) and
`AccountProofs` (the account, and what sums of rows do); in `PremisesProofs` and
`OfficeProofs` a component with constants and variables of its own is an instance.
`MCAccountsProofs`, `MCPremisesProofs` and `MCOfficeProofs` bring what is proved there to
the runs.

## 5. The runs

| Run | Instance | Shows |
|---|---|---|
| `UnitSerial` | 2 units, 2 holds, 1 booking, 3 users, no session | types; `ConfirmedByAll`, `ApprovalAwaited`; holds and sales only move forward; with the worker's fairness, every overdue hold ends |
| `UnitRaces` | 1 unit, 2 holds, 2 bookings, 2 users, 1 session | with reads of any age: keys, claims, `BookingsRespectHolds` and the refinement of `UnitClaims` |
| `Account` | *serial*: 2 payments, 2 refunds, 2 plans; *races*: 2 payments, 1 refund, 2 plans, 1 session; *settlement*: 1 payment, 2 refunds, 1 charge, 2 cancellations | serial: `MoneyUsedOnce`, `MoneyOnEvidence`, `MoneyRefunded` (also in the settlement); with races: `InstallmentsAgree`, `BalanceAgrees`, `SoldOnVerified`; the ledger and the installments through a settlement |
| `Partners` | *payouts*: 2 sales, 2 payouts, 2 registrations, 1 document, 1 commission structure; *races*: 2 documents, 1 sale, 1 session | `OneProtector`, `PayoutsAddUp`; with races `OnlyVettedSell`, `OwedOnSales` |
| `Premises` | *letting* (2 leases for a property, 3 moves), *renewing* (1 lease, 2 renewals), *collecting* (2 payments that race), *handing* (a whole case), *racing* (an override and possession that race), *serving* (2 escalations), *answering* (policies that change), *moving* (a sale, a transfer and a cancellation against two holds, 2 units), *returning* (2 sales, 2 transfers and a cancellation) | `OccupantsAgree`, `RentStands`, `PossessionVouched`, `StageTells`, `DeadlinesAgree`, `EscalationsAgree` |
| `Office` | *quoting* (a price list with two sets of rules, 2 cost sheets, 2 versions), *following* (a lead, 2 activities, a visit), *entering* (2 leads that may be duplicates), *signing* (2 tokens), *resetting* (2 reset links), *governing* (3 users, 3 roles), *arranging* (one or two of each place), *mapping* (3 territories), *filing* (2 papers, or 2 versions of one, over 3 days) | `PricesStand`, `DiscountsVouched`, `NewestCounts`; `OneAssignee`, `NextFollowUp`, `ConvertedRest`; `OneToken`, `EndedForGood`, `GrantsHeld`; `TerritoriesRooted` |
| `Recancel`, `WriteSkew`, `DoubleRefund`, `StuckCancellation`, `ReversedPaid`, `LastAdministrator` | as small as shows it | the disagreements of section 7, each as the violation of one property |

The passing runs explore between 165 thousand and 911 thousand distinct states, each to the
end, and take up to three minutes. Between them they fire every action.

**Why these bounds.** A conflict over a unit needs a claimant that has the unit and one that
wants it: two holds with two bookings give every pair of kinds, and a third adds no new pair
because a unit has at most one claimant at a time. Two units are there for the batch of the
worker and for what happens on the wrong unit. One session is one request with old reads
against all others, which run on the present; two users or three are one more than the
longest approver list in the run needs, since the person who asks may not approve.
`MaxApprovers` bounds the list and is 2: first, last, and an order to get wrong. `UnitRaces`
has two users and so lists of one; lists of two under old reads are in `WriteSkew`, and the
theorem `ConfirmedCorrect` covers lists of every length. For money, two payments and two
installments are the least for which a payment straddles an installment and an installment
two payments; amounts of 1 and 2 against a price of 2 reach, meet and overstep every cap;
`MaxPlans = 2` is one replacement of a plan, `MaxInstallments = 2` the length of a schedule;
two refunds are needed to pass a payment together. For partners, two sales and two payouts
are the least for which a payout has a part of the commissions; two contacts are an e-mail
and a phone number; one partner is enough because every property compares rows of one
partner, except `OneProtector`, which does not mention the partner and is checked of any two
registrations. A window of "future" goes through all three phases; the behaviours that race
start windows at "current" to spare states, the future phase being no more than a wait. For
prices, the two sets of rules and three requests have every kind of line, an area price and
an override, a line that is nothing, a tax that rounds up, a discount below, at and above
the limit, and levels that name a person and a role. For rentals, a term from a 31st over
February and one shorter than a month are the dates that go wrong first; two leases for one
property and two payments for one rent are the least that conflict. Three territories are
the least for a loop that is not its own parent's. Two tokens are a token and its successor,
two leads a lead and its duplicate, two escalations one that ended and one after it; two
units are the one a sale leaves and the one it moves to, two transfers the way there and
back; the clock of tickets has two minutes, before and at a deadline that is at the end of
the first or the second.

**Serial or overlapping.** `HoldsMoveForward`, `ConfirmedStays`, `ApprovalAwaited`,
`MoneyUsedOnce`, `MoneyOnEvidence`, `MoneyRefunded`, `OneProtector`, `PayoutsAddUp`,
`NextFollowUp`, `OccupantsAgree`, `StageTells`, `EscalationsAgree`, what `RentStands` says of
renewals, and everything about sessions, roles and places, is checked for requests that do not overlap. For
`OneProtector` that is because its handlers read nothing that may be old before they
rely on a unique key, and for `PayoutsAddUp` because they lock what they decide on (section
6 proves both, with old views). The others are not claimed beyond that: some
handler of each tests a status, a sum or a search that may be old. For example a hold
approved in between can be rejected by a decision that began earlier, two overlapping
payments can pass the price together, and a ticket resolved during an escalation keeps the
escalation open. `WriteSkew` is the one of these whose consequence is permanent, and is
shown in a run of its own. All other properties are checked with old reads.

**Fairness.** Only `ExpireDueHolds` is fair, weakly. `run_worker` loops for ever, catches
and logs any exception and tries again 30 seconds later, so a hold that stays overdue is
eventually handled. No request is fair: nobody has to click. `OverdueHoldsEnd` therefore
rests on the worker alone, as it should, and is checked without symmetry.

**Mutants.** Each module holds, just before some of its definitions, a variant with a
plausible bug, marked "mutant:". Put in place of the definition, it makes the property it is
paired with in `PROJECT.json` fail: that is evidence that the property is about the code,
and the runs large enough to notice.

## 6. What is proved

For every set of units, holds, bookings, customers, users and sessions, finite or not, with
read views of any age:

| Theorem | States |
|---|---|
| `TypeCorrect` | `Spec => []TypeOK` |
| `ClaimsCorrect` | `Spec => []ClaimsAgree`: a unit's status and its claimants agree |
| `KeysCorrect` | `Spec => []KeysAgree`: one reserving hold and one live booking per unit, and the key columns say which |
| `ConfirmedCorrect` | `Spec => []ConfirmedByAll` |
| `HoldsRespected` | `Spec => BookingsRespectHolds`: a booking takes a reserved unit from an approved hold of its own customer only |
| `PromiseCorrect` | `Spec => PromiseKept`: `UnitInventory` implements `UnitClaims` |

And, where requests do not overlap (`Session = {}` is the theorem's hypothesis, for the runs
`Recancel` and `WriteSkew` and the old reads of section 5 show the reason):

| Theorem | States |
|---|---|
| `AwaitedBySomebody` | `Spec => []ApprovalAwaited` |
| `HoldsForward` | `Spec => HoldsMoveForward` |
| `SalesStand` | `Spec => ConfirmedStays` |

And with transfers, for every set of transfers and cancellations besides, where requests do
not overlap:

| Theorem | States |
|---|---|
| `SalesCorrect` | `SalesSpec => []SalesKept`: a sale has a unit to itself until it is cancelled, a transfer under way starts where its sale is, and every unit agrees with its claimant |

For every set of partners, documents, agreements, registrations, contacts, bookings, payouts
and sessions, with read views of any age:

| Theorem | States |
|---|---|
| `ProtectorCorrect` | `Spec => []OneProtector` |
| `OwedCorrect` | `Spec => []OwedOnSales` |
| `PayoutsCorrect` | `Spec => []PayoutsAddUp`: a commission is in one payout that was not rejected, after its own decision, and a payout is the sum of what is in it |
| `VettedCorrect` | `Spec => []OnlyVettedSell` |
| `TypesCorrect` | `Spec => []TypeOK`, for a finite set of bookings |
| `PartnersBehave` | `PartnersSpec => Spec`: the run `Partners` takes no other steps, so all of this holds in it |

For every finite set of payments, refunds, charges and cancellations, every set of sessions,
every price and booking amount, all schedules and amounts:

| Theorem | States | Reads |
|---|---|---|
| `AccountTyped` | `Spec => []TypeOK` | of any age |
| `AccountPaid` | `Spec => []PaidAgrees`: an installment counts as paid what active allocations put on it, and no more than it asks for | of any age |
| `AccountBalanced` | `Spec => []LedgerAgrees`: debits less credits are what is owed | of any age |
| `AccountApproved` | `Spec => []ApprovedOnVerified`: for approval only on verified money | of any age |
| `AccountOnEvidence` | `Spec => []VerifiedOnEvidence` | present |
| `AccountRefunded` | `Spec => []RefundsTold`: a payment called refunded pays no installment, and one given back in full is called refunded | present |
| `AccountUsedOnce` | `Spec => []UsedOnce`: what a payment still pays and what of it was given back or asked for never exceed it | present |
| `AccountsTyped`, `AccountsPaid`, `AccountsBalanced`, `AccountsApproved`, `AccountsOnEvidence`, `AccountsRefunded`, `AccountsUsedOnce` | all properties of the run `Account`, for any values of its constants | as above |

For every set of conditions, construction updates, snags and overrides, where `None` is no
override and `External \cap Lasting = {}` (other services decide none of the three conditions
the case keeps itself; both are the theorems' hypotheses); for every set of categories,
priorities, agents, tickets and escalations; and for every set of properties, tenants,
leases, documents, renewals and moves, every finite set of payments, every rent, and months
of any lengths:

| Theorem | States | Reads |
|---|---|---|
| `PossessionCorrect` | `PossessionVouched` of `PropertyLifecycle` | of any age |
| `StageCorrect` | `StageTells`: the stage tells what became of possession and handover | present |
| `DeadlinesCorrect` | `DeadlinesAgree` of `ServiceRequests`: list and page agree on what is in breach, and a ticket has the deadlines of its own category and priority | of any age |
| `EscalationsCorrect` | `EscalationsAgree`: a ticket shows as escalated while an escalation of it awaits its end | present |
| `OccupantsCorrect` | `OccupantsAgree` of `Rentals`: one lease at a time has a property, which is not free meanwhile | present |
| `RentCorrect` | `TypeOK` of `Rentals`, and `RentAddsUp`: an invoice's paid amount is what payments of it were verified for, never more than its total, and it is called paid only when it has all of it | of any age |
| `TermsCorrect` | `TermsTiled` of `Rentals`: every day of a lease is in one period of its schedule, after any renewals | present; of any age where nothing is renewed |
| `CasesCorrect`, `TicketsCorrect` | `TypeOK` of `PropertyLifecycle` and of `ServiceRequests`, by which a part of a case rests on the one before it, and a ticket is dated in order | of any age |
| `PremisesVouched`, `PremisesStages`, `PremisesDeadlines`, `PremisesEscalations`, `PremisesOccupied`, `PremisesRent`, `PremisesTyped` | the properties of the run `Premises` that say this, at its desks, for any values of its constants; `PremisesOccupied` and `PremisesTyped` contain what `SalesCorrect` and its invariant say of the desks that sell | as above |

For every set of users, roles, permissions, tokens, reset links and passwords; of leads,
owners, activities and visits; of papers and reviewers; of price lists, requests, cost
sheets and versions, rules with any number of lines among them; and of branches, departments,
teams and territories:

| Theorem | States | Reads |
|---|---|---|
| `TokensCorrect` | `Spec => []OneToken`: one live token per family and none of an inactive user, one working link per user | present |
| `EndedCorrect` | `Spec => EndedForGood`: what was signed in ends with its password, its roles or its account, and nothing ended is accepted again | present |
| `GrantsCorrect` | `Spec => GrantsHeld`: nobody gains a permission by a request of somebody without it | present |
| `AssigneeCorrect` | `OneAssignee` of `Leads`: the active assignment is the owner's | of any age |
| `ConversionCorrect` | `ConvertedRest`: a converted lead rests | of any age |
| `FollowUpCorrect` | `NextFollowUp`: the next follow-up is the earliest that is pending, up to the first visit | present |
| `PapersCorrect` | `NewestCounts` of `Documents`: the newest version is the current one, and no booking goes on with a paper that ran out | of any age within the day |
| `OffersCorrect` | `Offer!Spec => []OneOpen`: of a quotation's versions only the newest is open | of any age |
| `PricesCorrect` | `PricesStand` of `Quotations`: a cost sheet keeps the price its list's rules give, adds up line by line and tax by tax, and is what its quotation says; and `DiscountsVouched`: a discount above the limit was approved by somebody else who may | of any age |
| `PlacesCorrect` | `TypeOK` of `Organization`, and `TerritoriesRooted`: no territory is above itself | present |
| `AccountsCorrect` | `TypeOK` of `Access`: roles, tokens and links are of users there are, and the administrators keep all permissions | present |
| `OfficeTokens`, `OfficeEnds`, `OfficeGrants`, `OfficeAssignees`, `OfficeConversions`, `OfficeFollowUps`, `OfficeVersions`, `OfficePrices`, `OfficeDiscounts`, `OfficeTerritories`, `OfficeTyped` | the properties of the run `Office` that say this, at its desks, for any values of its constants; `OfficeVersions` joins papers and quotations, `OfficeTyped` every desk | as above |

Assumptions. Of constants: `NoneAssumption` (NULL is nobody's id), `MaxApproversAssumption`
(at least one approver), `IdentitiesAssumption` (a hold is no booking), `RatesAssumption`
(rates are numbers), `WindowsAssumption`, `BookingAssumption` (bookings are finitely many, so
that the commissions in a payout have a sum), `PremisesAssumption` and `OfficeAssumption`
(NULL is no id, minute or number of the desks, and payments are finitely many),
`RightsAssumption` (NULL is no set of permissions), and `CentsAssumption`: the lines the
rules give, their rates and limits and what is asked for are whole numbers of cents, which is
what `Decimal` and `_money` keep them. Of an account: prices and amounts are
numbers, and amounts not zero, as the schemas ask (`PriceAssumption`, `AmountsAssumption`); a
schedule has at least one installment and at most `MaxInstallments`
(`SchedulesAssumption`, `BoundsAssumption`); a refund's source is a payment or a cancellation
and not both (`SourcesDisjoint`); `RowsFinite`, since what a booking's rows add up to has a
meaning only when they are finitely many, as the rows of a table are; and
`AccountsAssumption`, which says the same of the values the run gives to racing requests and
settlements, and that where requests follow one another there is no session. All are
evaluated in the runs. Of the components that are instances in `PremisesProofs` and `OfficeProofs`, the same is a
hypothesis of each theorem, which the desks then meet: `MinutesApart` (NULL is no minute, the
policies' minutes are ordered), `TermsDated` (terms have dates), `RentTerms` (months begin one
after another, from the first day; dates lie within them; the rent is a number and payments
are finitely many), `Apart` (NULL is no user and
no token, the founder is a user and `Admin` a role), `RolesGiven` (the built-in roles are
roles, with permissions, the administrator's with all), `LeadsApart` (NULL is no lead and no
owner, due times are numbers), `PapersApart` (NULL is no date), `PlacesApart` (NULL is no
territory), and `Cents`, with at least one set of rules. `OffersCorrect` needs none.

**The claims.** `ClaimsAgree` is not inductive. A handler that finds an old booking in its
view writes the status of `v.booking[b].unit`: to know that this is the booking's unit
still, the invariant has to speak of the views. `TypeInv` adds `Placed` (a row that exists
has its unit, and a hold its type) and that every view is `Faithful`: a booking the view
shows exists now, and with the same unit. `UnitInv` is `TypeInv`, `KeysAgree` and
`ClaimsAgree` together, each needed for the others: that a booking can take a unit without
looking for holds depends on the unit's status telling the truth, which depends on the keys
being unique. The step lemmas are organised by what happens to one unit: it is taken
(`TakingUnit`), left (`LeavingUnit`), its claimant moves on (`MovingOn`), or holds on it end
(`EndingHolds`); `Frame` says the other units do not notice. Each handler is then one of
these.

**The approvals.** `ConfirmBooking` counts undecided steps in its view, so confirmation
looks at data that may be old. It is right all the same, because a step once decided is
never decided again: `Onward` relates each view to the present, and `ApprovalInv` adds that
to what the booking's status says of its steps (`Fits`), in the present and in every view.
What an old view may get wrong is to show a decided step as undecided, which delays the
confirmation (finding `WriteSkew`) and never hastens it. `Otherwise` and `OneBooking` reduce
the step to the one booking it changes.

**Single steps.** `UnitInventoryProofs` lists, in `Course`, the few ways a step can treat one
hold, and shows that every handler follows one of them (`HoldCourse`); the action properties
follow from the list. That a booking respects holds needs besides `UnitInv` only that a hold
has a customer (`Owned`).

**The refinement.** `UnitClaims` speaks of one unit at a time, so the proof maps each
handler to what it does to the unit it names and shows the others stutter. `Standing` says
what the refinement mapping gives for a unit in terms of its keys and status; a lemma
`...Map` per handler computes it before and after, and a lemma `...Allowed` finds the
abstract action. `UnitInv` gives each of them its guard. Where a booking that lost its unit
writes the unit's status, `Contest` is the abstract action, and it is the only one that uses
it.

**The transfers.** The invariant `SalesInv` adds to `UnitInv` that a confirmed booking has
its key (`Keyed`) and two facts about requests: a pending transfer starts where its booking
is, whether the booking is still a sale or not (`Grounded`), and a booking has one pending
transfer (`Alone`); without the second, completing one would leave another with the wrong
start. Every handler of the inventory keeps a booking's unit (`BookingsStay`), so only
completion can disturb them. Completion changes two units at once; `BookedAgrees` and
`IdleAgrees` settle one each, and `Frame` the rest.

**The partners.** `OwedOnSales` is inductive with the types of the rows, because no
commission changes without its booking's being locked. `PayoutsAddUp` needs what it says of
members restated from the commission's side: a payout that is not rejected has the
commissions that point to it (`Kept`), and a commission that points to one was decided
(`LinkedDecided`). A sum is what it was as long as every amount in it is (`TotalStays`), and only
a confirmation gives a commission its amount. For `OnlyVettedSell`, the invariant `Vetting` says of each status what
evidence there is for it, and of every view that a partner it shows in operation is vetted
now: evidence is never taken back, so an old reading of the partner's status cannot let
anyone sell who may not. A lemma per table (`PartnerStep`, `DocumentStep`, ...) lists the
actions that write to it.

**Possession.** The three conditions of `Lasting` are met for good once they are met
(`DossierKept`), so a view of any age shows none as met that is not met now (`Faithful`,
`MetIsMet`). An approved override stays as it is (`OverridesStep`), so what it named as
missing when possession was offered is what it names later.

**The stage.** `StageTells` is inductive once handover is known to follow completed
possession (`EndingRows`); the proof is about what `SyncStage` computes from the rows it is
shown, which differ from those written where the code did not flush.

**Tickets.** Of deadlines, `Sound` says which combinations of category, priority and
deadlines a ticket can have. Policies are found in views, so the invariant carries that a
policy a view shows is well formed and its category exists (`SettingsFaithful`); what a
ticket's page and the list compute are then two readings of one row. Of escalations,
`Agrees` ties the flag of a ticket to its escalations' states; each handler changes one
ticket and at most one escalation, and `AgreeingStays` settles all the others.

**Tenants.** Three facts hold each other up: a lease that holds its property has a status of
somebody who lives there, and the property says so (`Let`); two leases do not hold one
(`Alone`); and a move under way is the only one of its lease, which waits in the very status
that move will take it from (`UnderWay`). The last is what makes completing a move right:
its handler looks at the move's status and relies on the lease's.

**Sessions.** `OneLive` holds through rotation because the old token is revoked with the
same commit; `LiveActive` because every operation that closes an account ends its sessions.
For `EndedForGood` the invariant adds that a row names the user and the family it belongs to
(`TokenRows`, `AccessRows`); `Ending` lists what each operation may revoke, and no operation
takes back a revocation.

**Grants.** What a user can do depends on his roles, the portal role among them, and on what
the roles contain, so a change of a role reaches everybody who has it. The proof bounds what
anyone gains by what the handler required its author to hold; beyond the types, `GrantInv`
needs only that a user who is not there has no roles.

**Leads.** `OneAssignee` rests on every reassignment's ending all active assignments, and
`ConvertedRest` on a customer's having a converted lead (`ConvertedInv`); activities and
visits refer to leads that are there (`Referred`), since leads can be deleted. `NextFollowUp` is about a
minimum over the activities the handler sees. That a nonempty set of due times has a
least one comes from the well-foundedness of the natural numbers (`WellFoundedInduction`),
whose theorem about minimal elements has no operator parameter.

**Papers.** A view may show a version as current that is none any more, and a paper as
waiting that was decided; `Faithful` says what it cannot get wrong on the day it was taken:
the dates, that a version had been replaced, refused or expired, and that what it does not
show yet is not past its date. A booking that goes on first expires what its view shows to
be overdue, and that this is enough is `NewestCounts`.

**Quotations.** That only the newest version is open needs a newest version to exist
(`Newest`), and that the number of a quotation is itself a quotation's.

**Prices.** `PricesStand` compares a sheet with what its list's rules give today, though it
was priced from a view. It holds because a list's rules are not edited once it was in use,
so a view that shows a list in use shows its rules (`ListRows`). The rest of `PriceInv`
follows a price through the tables: a sheet's is one of those the rules give (`SheetRows`),
a pending approval is asked of the level its price wants, an approved or converted sheet
above the limit was decided by somebody else in charge (`ApprovalRows`), and a quotation has
its sheet's items and total (`ItemRows`). That a price adds up is about folds over sequences
of lines. No induction theorem can be cited, so `RowsInduct` derives what is needed of it
from the well-foundedness of finite sets of rows: among those on which a claim fails one is
minimal (`MinimalRows`). From it a fold is the only function that satisfies its equations
(`FoldsUnique`), a line more adds its amount (`AddedNext`), lines add up (`LinesAdd`) and so
does the sheet (`SheetAddsUp`).

**Territories.** The handler walks up from the new parent and refuses if it meets the
territory it moves. The model says how far it gets in as many steps as there are territories,
and the theorem that this suffices is the one a `seen` set stands for in the code. The
invariant `Trees` says that no nonempty set of territories contains the parent of each of
its members, which is what a ring would be, or a ring with others below it. A move that
closed one would have put the moved territory above its new parent, where the walk finds it.

**Rent.** `Money` says of each period that its paid amount is the sum of its verified
payments and within the rent; it needs leases, papers and payments to refer to what is there
(`LeasesRight`, `RefsRight`), and the sums of the account. For `TermsTiled` the invariant
`TermsInv` has of each signed lease that its schedule `Tiles` its term, and of renewals that
at most one of a lease is awaited and ends later than the lease (`AsksRight`). The latter is
what overlapping requests can break: the second approval would draw the lease's end back
while its schedule stays. The months may have any lengths, as long as each begins after the
one before; that the periods of a term follow one another is shown once, for the calendar.

**Types.** A type invariant says more than which set a column is from, and is then not
inductive: that an administrator keeps all permissions needs the built-in roles not to be
edited; that a duplicate names a lead that is there (`LinkInv`) needs every handler that writes or
deletes a lead to leave or clear the links to it; that sessions are somebody's, the ids of users to be in every table
(`AccountInv`); that possession precedes handover, the same of every view (`CaseInv`,
`HandedOver`); that a ticket is dated in order, that one without status has no dates
(`Sound`); and that a payout's sum is an amount, the sum of any finite set of commissions to
be one (`TypeInv` of the partners).

**Sums.** The account is about sums of rows: of payments in some status, of what a payment
put on installments, of the entries of the ledger. `SumFunctionOnSet` takes a chosen element
out of a set, adds it and goes on, so all that its definition gives is a sum in one order
(`AddsExists`, `SumFirst`). That any element can be taken first (`SumWithout`) is proved
without an induction theorem, by a counterexample that cannot be smallest: among the finite
sets on which a claim fails there is one that is minimal under inclusion (`MinimalSubset`,
from the well-foundedness of strict inclusion among finite sets), and taking one element
from it leaves a smaller one. This gives what an accountant uses: a row that is added or
changed (`SumAdd`, `SumChange`), two columns added up (`SumPlus`), a comparison row by row
(`SumLeq`), and a sum over pairs by rows or by columns (`SumPairs`).

**The account.** `TypeInv` adds to the types that plans are no longer than a schedule may be
and that a view shows no plan that is not there. `MoneyInv` adds that what is refunded of a
payment was received (`Sourced`). What was received stays received and keeps its
amount (`PaysLast`), which is why an approval that decides on old reads is right: a payment
its view shows as verified counts still (`SoldInv`, `Seen`). `PaidInv` adds that money is
only on installments there are, and follows `Spreads` through allocation and refund: what it
hands out is at most what is open, and adds up to the amount where that fits (`ShareSum`). `SpentInv` adds that
money that was not received pays nothing; a refund reverses active allocations first, so
that what remains active and what went back stay within the payment (`SpentProcess`).
`ToldInv` adds to that what a payment is called: since its amount is positive (`Worth`) and
what is active and what went back are within it, one whose refunds add up to it has nothing
active left, although `process_refund` sees none of the reversals it has just made
(`ToldProcess`).
`BalanceInv` ties each entry of the ledger to its row: what there is an entry of
has happened and for that amount (`Posted`), so an entry is never posted twice and each step
changes both sides of the balance alike.

**Desks.** Each behaviour of `Premises` and `Office` is at one desk, whose component is an
instance with its own bounds. `First`, `Second` and so on are the proof modules with those
bounds; for each desk, lemmas say that its initial states and steps are the instance's and
that its property follows. A theorem of the run is then a theorem about instances together.

Only checked, not proved, is `OverdueHoldsEnd`: liveness, and the `ENABLED` its fairness
hides, are out of the prover's reach. Every other property of a run that passes is a theorem.
The runs of section 7 end in a violation, which only TLC can exhibit. And a theorem about
requests that follow one another, or reads that are present, says so in the tables above; of
overlapping ones the runs and section 7 show what goes wrong.

## 7. Where the code disagrees with itself

Each has a run that ends in a violation, and `PROJECT.json` quotes the sentence of the
repository it contradicts.

- **Recancel.** `transition_booking` (`inventory.py:1606`) refuses confirmed and cancelled
  bookings only. A rejected booking, whose unit may have been taken since, can be cancelled
  again and releases the unit under its new claimant.
- **WriteSkew.** Two last approvers who began together each count the other's step as
  undecided (`bookings.py:1396`). Both approvals commit, and the booking remains in APPROVAL
  with nobody left to ask.
- **DoubleRefund.** A settlement subtracts completed refunds only (`post_sales.py:652`); one
  that is still pending is paid in addition.
- **StuckCancellation.** A payment verified after the review makes completion ask for
  another review, which no operation offers (`post_sales.py:653`).
- **ReversedPaid.** `process_payout` (`partners.py:1640`) compares amounts and not statuses,
  so a commission reversed by a cancellation becomes a paid one.

- **LastAdministrator.** `deactivate_user` (`organization.py`) and the form that switches a
  user off do not ask whether he is the last administrator, which `rbac.py` refuses to take
  away.

Others were met while modelling. They are in the models, contradict no sentence of the
repository, and have no run:

- A renewal that was requested before the notice is approved after the tenant moved out: the
  terminated lease is extended and gets a new schedule (`rentals.py:1254`).
- Two renewals of one lease asked for at once are both admitted, since each looks for the
  other in its view, and approving one does not compare its date with the lease's any more:
  the shorter, approved last, draws the lease's end back and its periods stay
  (`rentals.py:1202`).
- Marking invoices overdue while a payment for one is verified overwrites its PAID with
  OVERDUE (`rentals.py:280`); the amounts stay right.
- A requested paper whose date passes before it comes is expired. Its upload is then refused
  because it "already has a file" and a new version because it has none, so only a new
  request helps (`documents.py:620`).
- The readiness of possession counts verified papers without letting expire what is due
  first, as bookings do: a paper past its date counts until somebody lists the papers
  (`property_lifecycle.py:169`).
- Handover documents asked for after the customer's acknowledgement are not looked at again
  at completion.
- Two payments submitted together on the booking screen, each within what is left of the
  price, pass it together, since the cap adds up a snapshot (`bookings.py:1067`); payments
  on the collections screen are under no cap.
- A payment used for another installment since a refund's view was taken is called refunded
  while it pays, as `process_refund` looks for its allocations in the view
  (`finance.py:1063`).
- A payment kept wholly as credit, on no installment, is called refunded with the first part
  that is given back (`finance.py:1071`).
- A department can be moved to another branch, and its users stay where they were.
- The check-out of a visit overwrites the lead's next follow-up, pending activities or not
  (`site_visits.py`).
- An older version of a quotation can be revised after another was accepted, and nothing
  looks at the validity date when one is sent or accepted (`quotations.py:1529`).

- A transfer whose payments changed after its review is told to "review the transfer again"
  (`post_sales.py:1094`), and one whose target is gone is refused; but a review takes only
  what is REQUESTED, and nothing takes an approved transfer back. It can never be completed
  and keeps its booking from another transfer. This is `StuckCancellation` once more.

One more is not modelled: two territory moves that overlap can build a loop.

## 8. What is left out, and why

Of the modelled components: prices of units, floors, towers and other catalogue data;
applicants, nominees, financing and documents of a booking; the authorization of the caller
(only "not oneself" remains, where the code has it, and the permissions of `Access`); audit
entries, except where they record what is paid out; demand letters, reminders and receipts,
which record and do not decide; a partner's contact persons, territories and disputes;
sources, notes and scores of leads; maintenance jobs and deposits of a lease; attachments of
tickets; the plan, ledger entries and commission a transfer revises; the files behind every
document. None of these is read by a guard of a modelled handler, except the KYC of
bookings, which `Documents` has, and `create_booking`'s quotation; in `UnitInventory` both
only narrow what happens. This is why the components are listed as partly modelled.

Not modelled at all:

- **Lock order.** Deadlocks between transactions are a property of the order in which
  handlers lock rows, which a model with one step per handler cannot show; MySQL detects and
  rolls them back, so they cost a retry and no state.
- **Notifications** (`notifications.py`) wait for their turn; nothing else reads them.
- **Customers**, which is record keeping; **dashboard**, listings and exports, which read;
  PDFs, **storage**, e-mail and malware scanning, which are input and output; **routes**,
  schemas and configuration, which say who may call what with which values, and are cited by
  the next-state relations; **rate limiting**, which refuses requests and changes no
  business state; **migrations**, which run while the system is stopped; the **web client**,
  which keeps no state of the system.

Overlapping requests in `Access` and `Organization` are left out; two requests with the same
token are not, since the token is locked first.

## 9. Plan

What is left, in the order of what a mistake would cost:

1. **The promise under transfers**: a `Move` of `UnitClaims`, by which a claimant goes from
   one unit to another, and the refinement of `Transfers`; then transfers with old reads.
2. **Papers and possession** together: `Documents` in place of the one condition of
   `PropertyLifecycle` it stands for.
3. **Notifications**: each event queued once, when two runs overlap.
4. **Overlapping requests** in `Access` and `Organization`: the last administrator, the
   territories.
5. **LockOrder**: each handler as the sequence of rows it locks. `ARCHITECTURE.md:244`
   states an order.
