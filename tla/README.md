# A verification project for fabric-sync

fabric-sync runs a tailoring shop: a Rust/Axum backend over PostgreSQL, a React
front end, and two external services (Gotenberg renders PDFs, Meta's WhatsApp
Graph API delivers messages).  This directory holds TLA+ models of the parts of
the backend and of the front end whose correctness depends on the order in which
several actors act, the TLC runs that check them, and TLAPS proofs about them.  All paths below
start at the root of the repository.

## 1. The system

State lives in PostgreSQL.  A request runs one or a few transactions; the one
background actor is the worker loop of each server process
(`backend/src/features/notifications/worker.rs`, `start`).  Almost every
transaction that concerns an invoice first locks its row (`lock_invoice`, or the
triggers of migration 0003), so the interesting interleavings are between what is
read outside that lock and what is done under it.  Stock rows and gift cards are
shared between invoices and have row locks of their own.  The front end keeps
what it has read in a cache that its saves must mark, and shows each role what
one policy file, which the server enforces, lets that role do.

| Component | State | Operations | What makes it correct |
|---|---|---|---|
| Notification preview and approval (`notifications/service.rs`) | `invoice_notifications`, `notification_recipients` | prepare, save selection, send, cancel, resend, discard, cleanup | what is approved is what was shown; one approval per event; approvals are permanent |
| Delivery worker (`notifications/worker.rs`) | `notification_attempts`, recipient status, the loop's memory | claim, preflight, upload, post, finish, recover lease | at most one message per destination; nothing sent is reported as unsent |
| Provider callbacks (`worker.rs`, `repository.rs`) | `whatsapp_webhook_events` | receive, apply, expire | callbacks converge in any order and are never lost once they match |
| Gift cards (`gift_cards/service.rs`, `repository.rs`) | `gift_cards`, `gift_card_redemptions` | issue, replace, redeem, refund, sell and unsell | value is neither created nor lost over a chain of replacements |
| Gift card delivery (`gift_cards/delivery.rs`) | `gift_card_deliveries` | approve, tick, webhook | a claimed job ends, a card that changed is not sent |
| Invoices (`invoices/service.rs`) | `invoices`, `invoice_items`, `invoice_payments` | create, update, collect, record payment | money only moves towards a settled invoice; a repeated payment is recorded once |
| Returns and refunds (`returns/service.rs`) | `invoice_returns`, `invoice_return_lines`, `invoice_refunds`, `order_cancellations` | return, refund, cancel order | credits never exceed what was bought, refunds never exceed credit or what a channel holds |
| Orders (`orders/`) | `orders`, `order_stage_progress`, `order_repairs` | stages, repairs, collection | the checklist has no gap; a closed garment stays closed |
| Readiness (`orders/readiness.rs`) | `orders.ready_at`, `invoices.readiness_generation` | confirm, reopen, automatic reopening | what a confirmation rested on cannot change under it; one generation per period of readiness |
| Stock (`materials/`, `products/`) | `material_stock`, `product_stock` | receive, remove, transfer, take, restore | fabric is neither made nor lost; no shelf is oversold |
| Customers, locations, order stages, design options, preferences, pricing | catalogue rows | create, read, update, delete | referential rules of the schema |
| Users, authentication, authorization (`users/`, `auth.rs`, `authorization.rs`) | cache of the Zitadel directory | verify tokens, list users | roles gate routes |
| Lists (`list/`) | none | filters, sorting, paging as SQL | generated SQL matches the query |
| Documents (`notifications/service.rs` artifact, `backend/templates`) | `document_artifacts` | render, store, expire | an approved PDF never changes |
| Access policy (`frontend/src/lib/access-policy.json`, `permissions.ts`, `backend/src/authorization.rs`) | none | authorize a request, visit a page, show a link | nothing is shown that the server would deny |
| Front-end server state (`features/*/hooks`) | the query cache of one tab | queries, mutations, invalidation | after a save nothing is shown as fresh that was read before it |
| Front-end screens and dialogs | the page, a dialog, an edit form | navigate, open, dismiss, save | an answer closes the dialog that asked; a form starts from current values |
| Scripts, seeds, deployment | none | import, start | - |

The behaviours that are hard to test are listed with their lines in
`PROJECT.json` under `hazards`.  The main ones: a worker dying between the claim
and the record of a message; a lease that expires on a living worker; a preview
approved against an invoice that changes meanwhile; two staff working on the same
event; callbacks that overtake the message id they refer to; sales, edits, returns
and transfers that meet on one shelf; a save answered while a first load is under
way, lost, or answered after its dialog is gone.

## 2. Plan

The order follows what would hurt most if it were wrong and is hardest to test.

| # | Part | Modules | State |
|---|---|---|---|
| 1 | Invoice notifications: approval, delivery, callbacks | `NotificationStore`, `NotificationApproval`, `NotificationWorker`, `DeliveryWebhooks`, `Notifications`, `MessagePromise`, `NotificationsInductive`, `NotificationsPromise`, `Notifications_proofs` | modelled, checked, safety and the refinement proved |
| 2 | Gift cards as money | `GiftCards`, `GiftCardAccounts`, `GiftCardsPromise`, `GiftCards_proofs` | modelled, checked, safety and the refinement proved |
| 3 | Invoice ledger: payments, returns, refunds, request ids | `CreditAllocation`, `InvoiceLedger`, `InvoiceLedger_proofs` | modelled, checked, proved |
| 4 | Checklists and readiness | `OrderReadiness`, `OrderReadiness_proofs` | modelled, checked, proved |
| 5 | Gift card delivery | `GiftCardDelivery` (a second implementation of `MessagePromise`), `GiftCardDelivery_proofs` | modelled, checked, safety and the refinement proved |
| 6 | Stock of fabric per location | `Stock`, `Stock_proofs` | modelled, checked, proved |
| 7 | The front end: who sees what, what is read again after a save | `AccessPolicy`, `ServerState`, `Screens`, `ClientCache`, `ClientCache_proofs` | modelled, checked, safety proved |
| 8 | Expiry of PDF artifacts against previews in preparation | `DocumentArtifacts` | planned |
| 9 | Cached staff directory, paged lists, product stock | - | planned last; little state |

The abstract specifications are `MessagePromise`, implemented by both deliveries,
and `GiftCardAccounts`, implemented by `GiftCards`.

Every module that a run checks has its safety proved, but for the one property that
is a fact about tables (section 5).  Theorems are worth stating next for the parts the
plan has left.  `SumTheorems` has the lemmas about sums that the ledger, the stock and
the gift cards share.

`MC*` modules only give constants values and symmetry sets.  Definitions marked
`Mutant` are the bugs that each property was shown to catch; nothing else uses
them.

## 3. What the modules stand for

### Invoice notifications

`NotificationStore` holds the four tables for one invoice, and the statements
that several services run (`CancelUnstarted`, `MarkStale`, `DeleteRows`), as
well as the invoice as the rest of the backend changes it: `ChangeInvoice` (a
revision trigger fired, and the invoice may have been reopened),
`ConfirmReady` and `EditCatalog` (a label on the PDF changed, without a
revision).  A fingerprint (`SourceHash`) is the revision, the catalogue version
and whether the pickup template is used; these are what the code hashes, up to
equality.

| Code | Action |
|---|---|
| `service::prepare`: read and render, then insert under the lock | `PrepareRead`; then `PrepareInsert` or `PrepareReturn` |
| `service::approve`: read and render, then approve or save under the lock | `ApproveRead` or `ApproveFindsStale`; then `Approve`, `SaveSelection` or `ApproveReturn` |
| `service::cancel`, `discard_preview`, `repository::cleanup` | `Cancel`, `DiscardPreview`, `CleanupStep` |
| `worker::tick`: `next_job` | `NextJob` |
| `lock_job`, `start_attempt` | `ClaimJob`, `LoseJob` |
| the preflight | `PreflightCurrent`, `PreflightStale`, `PreflightError` |
| `send`: upload, `request_started`, post | `UploadFails`, `RequestStarted`, `PostAccepted`, `PostRejected`, `PostUnknown` |
| `finish`, `finish_attempt` | `Finish` |
| the process dies, or a statement after the claim fails | `Crash` |
| `recover_leases` | `RecoverLease` |
| `store_webhook`, `process_webhooks` | `ReceiveStep`, `ApplyStep` |

Every transaction is one step, because it locks the invoice first; what is read
before the lock is a step of its own, and everything may happen in between.
`accepted` is the provider's memory, which no table has: it is what
"at most one message" is about.  A lease may expire at any time, so a worker
that the rows think dead may go on to post and finish.  Back-off delays are any
delay.

`MessagePromise` is what staff are promised about a destination: open,
submitted, then sent, unknown or dropped; at most one message, none after a
drop, and no way back.  `NotificationsPromise` maps rows to it.

### Gift cards

`GiftCards` has transactions with row locks (`lock`), uncommitted writes
(`tx[t].draft`) and rollbacks at every point: a refused input, a lost
connection or a deadlock victim.  Creating and editing an invoice and refunding
to cards walk over several cards (`LockCard`, `CheckSales`, `PayBack`,
`Rebuild`, `Sell`, `Redeem`, `RefundCard`, `Follow` along replacements,
`Commit`); issuing, voiding, replacing and approving a delivery lock one card
and are one step.  Expiry dates and names only refuse requests and are left
out.  `GiftCardAccounts` knows accounts, values and payments;
`GiftCardsPromise` maps each chain of replaced codes to one account: the codes that
have the same oldest ancestor (`gift_card_original_id`).  An ancestor is what every
set of codes closed under the links contains, which is the recursive query without
recursion.  An edit of an invoice closes the accounts it sold and opens them anew, and
the abstract specification says so.  A balance is a
natural number in the type, but the table has no `CHECK`: that no step makes one
negative is part of what is shown.

### The invoice ledger

`CreditAllocation` is the arithmetic of `returns/service.rs` in integer cents.
`InvoiceLedger` is one invoice with its payments, gift card tender, returned
quantities, credits, refunds and request ids, and the dialogs of the front end
that repeat requests.  The content of a request is a model value (contents
differ when their hashes do) and its amounts are drawn when the server applies
it, so a repeated request finds any balance.  `network` keeps every request for
ever: it may arrive late and again.  Which cash channel is used, VAT and stock
are left out.

Credits and refunds are in whole cents in the code; till amounts are not.  A payment
is compared with the balance after rounding (`round2(amount)` in
`validate_payment_amount`), the advances of a new invoice by their rounded sum, and
both are stored as they came into `NUMERIC(10,2)`, which rounds every row again.
`StoredAs` is that conversion: of amounts that were counted as some cents, what `n`
rows may hold.  `CreateInvoice` and `Pay` (in `CollectOrder` and `RecordPayment`) use
it; `collect_invoice` pays the balance that the view has, which is in cents.  Gift
card tender is stored twice, as the sum that the sale counts (`tender`) and as one
redemption per card (`redeemed`), which `ValidSale` lets differ in the same way.

### Checklists and readiness

`OrderReadiness` is the garments of one invoice: progress per stage, production
locations, repairs, status and the readiness generation.  `ReadCatalog` and
`SetStage` are the two halves of `set_stage`, which reads the catalogue and
guesses a location before it takes the lock.  The triggers of migration 0003 are
part of the steps that fire them (`Reopened`).  A pickup at a branch has
`branch`; `None` stands for a delivery to the customer, and `Unchosen` for a pickup
whose branch is not chosen, which nothing is ready for.  The order of the stages is fixed; a *situation* (`Situations`) says
between which contents of the catalogue a manager switches, at which branches.

### Gift card delivery

`GiftCardDelivery` is `approve`, the tick of the delivery loop (`Candidate`, the
check with the claim in one transaction, `Upload`, `Post`, `Finish`), lease
recovery and callbacks.  A `Content` stands for all that the preview hash
covers; contents are sendable, not sendable, invalid (the preview fails in a way
staff can mend) or unprintable (the image cannot be drawn).  It maps to
`MessagePromise` as well.

### Stock

`Stock` is `material_stock` for any materials and locations.  A request is a
transaction whose statements (`todo`) run one at a time: `ShareLocation` (`FOR
SHARE` on a branch), `CheckLocation` (the unlocked check of a sale),
`DecrementStock` (the `UPDATE` with its guard), `UpsertStock`, and `Commit` or
`Rollback`.  A stock row is locked by the statement that changes it and held to
the end; others wait, and see the committed row plus their own changes
(`OnHand`).

| Code | Action |
|---|---|
| `materials::add_stock`, `create_material`; `remove_stock`; `transfer_stock` | `ReceiveStock`; `RemoveStock`; `TransferStock` |
| `create_invoice`, `update_invoice`: orders and material lines | `CreateInvoice`, `UpdateInvoice` |
| `create_return`, `cancel_order`: restocking | `CreateReturn`, `CancelOrder` |
| `mark_orders_collected` | `HandOut` |
| `update_location` | `UpdateLocation` |

`received` is a history: receipts less removals, added at the commit.  An edit
gives stock back where it came from whether or not that location still holds
stock, and a cancellation looks at the location without holding it; only
transfers and returns promise to arrive where stock is held, so only they are in
`GoodsArriveWhereStockIsHeld`.

### The front end

`AccessPolicy` translates `access-policy.json`, which both sides read, and the
gates of `permissions.ts`.  `ServerState` has one definition per hook: what a
query reads (as subjects such as `paid` or `stock`), what a mutation writes, and
which keys it invalidates or patches.  `Screens` has one definition per page,
sheet, panel and dialog: the queries it mounts, the requests it offers and under
which gate, what it opens and links to.  These three are tables, without
variables.

`ClientCache` is one tab that follows one query and one mutation: navigation,
dialogs, the cached entry with its marks, a fetch and a request under way, the
form of an edit page, a renewed sign-in.  A *session* picks the pair and the pages
that show the query or offer the mutation, and TLC takes every pair where the
mutation writes something the query reads.  "Behind" is relative to what this tab
has saved; what other people change is not a defect of a cache.

| Code | Action |
|---|---|
| route components, `PageGuard` | `Navigate` |
| dialogs and sheets, `onOpenChange` | `OpenDialog`, `DismissDialog` |
| a control that calls `mutate` or `mutateAsync` | `Press` |
| `onSuccess`, `onSettled`, and what follows an awaited `mutateAsync` | `AnswerArrives`, `ErrorArrives`, `Report` |
| `main.tsx`, `App`: `queryClient.clear()` | `ChangeIdentity` |
| the query library: `staleTime`, polling, focus, `gcTime`, a fetch | `Age`, `Poll`, `FocusWindow`, `Evict`, `ServerReads`, `FetchLands`, `FetchFails` |

## 4. What is checked

Each run names its configuration; every instance below is explored completely.

| Run | Instance | What it shows |
|---|---|---|
| `delivery` | 1 destination, 2 workers, 2 attempts, 2 revisions, callbacks `delivered`, `read` and `failed`; with fairness, 41k states | at most one message, nothing sent is reported as unsent, a change before the claim is noticed; the inductive invariant; the promise; callbacks converge in every order and never downgrade; the queue drains, callbacks that match are applied |
| `approval` | 3 notifications, 2 staff, 2 request ids, 4 revisions, saved selections, a catalogue edit; 638k states | one active and one approved notification per event, a resend happens at most once, approvals are permanent, and made on the revision and readiness that was shown |
| `gift_cards` | 2 codes, 2 invoices, 2 tills, face 2; 653k states | the inductive invariant; retired codes stay empty and are no new tender, refunds are covered, sent codes are kept, and every commit is a step of the accounts |
| `ledger` | 1 garment and 1 retail line, 3 sales, 1 card, 2 request ids with 2 contents, 2 advances, amounts that are stored up to a cent more or less than checked; 239k states | the inductive invariant; money only moves towards a settled invoice and passes it by a stored cent at most, refunds come from credit, or from such a cent, and from channels that hold it, cents add up, closed garments stay closed, answers to repeated requests are true |
| `readiness` | 2 garments with 1 stage that is edited, 1 repair, 2 generations; and 1 garment with work, delivery and work, 2 branches and a pickup without one; 1.7M states | the inductive invariant; a generation is one period of readiness; a ready garment would be confirmed again and what its confirmation rested on cannot change under it; the checklist has no gap |
| `card_delivery` | 2 approvals of one card, 4 contents, 2 workers, 2 attempts; with fairness, 146k states | one delivery of a card at a time (in the inductive invariant), the promise, every delivery ends |
| `stock` | 1 material, 2 locations, 1 invoice, 2 requests at a time, amounts up to 2, 2 entries or lines; 202k states | no shelf is oversold and every open transaction owes what its invoice takes (the inductive invariant), fabric is accounted for, transfers do not wait for each other, goods arrive where stock is held |
| `client_cache` | every pair of a save and a query it is about, and a tab without a query for every set of roles; with fairness, 231k states | no role is shown what it may not do; what stays stale is the list `KnownGaps`; money is read again after any outcome; answers close their own dialog; what is marked is read again; the inductive invariant |
| `stale_queue`, `void_card`, `torn_card`, `stale_edit` | one of everything | the disagreements of section 6 |

**Bounds.** `MaxRevision`, `MaxCatalog`, `MaxVersion`, `MaxClock`, `MaxFace`,
`MaxReceived`, `MaxRequests` and the `generations` of a situation cap counters in
the guards of the actions that advance them; `MaxAmount`, `MaxEntries`, `MaxQty`,
`MaxAdvances`, `Contents` and `Sales` bound the inputs; `MaxAttempts` is a setting of the program.
Two workers, tills or staff are enough to interleave with each other and with
everything that is nobody's (leases, callbacks, cleanup). Two attempts are one
retry, the smallest number at which a retry can go wrong and the maximum is reached.
Four revisions are a confirmation, a reopening and a second confirmation. Three
notifications are an original and two competing resends; the other properties of
approval need two. `StaffSpec` (in `MCNotifications`) bounds `approval` further to
the union of two sets of behaviours: `SecondConfirmation`, two previews over all
four revisions, the last of which is kept for a second confirmation, without resends;
and `ResendChain`, up to three notifications and a catalogue edit over two revisions of
an invoice that is ready only when it was confirmed, without saved selections. One destination is
enough for `delivery`: destinations share only their notification, and the proof has
any number. Stock of 2 lets two requests compete for the last piece, a garment and a
retail line share it, and a line be returned in two parts; two locations are both
ends of a transfer, and one material is enough because every property is about one
row or one material. In `client_cache` one save is enough, since the properties
speak of what is true when it is over (and the theorems have any number), and each
session has every page where its pair can meet. The three sales have a discount that does not divide, a retail line
of three pieces (its credit of 1 comes in parts of 0, 1, 0), an urgency fee, a card
sold and a card redeemed, and the last costs less than what may have been paid. Two advances are
rounded one by one where they are stored and together where they are checked. One
person on the checklist is enough: nothing he remembers depends on what others
remember, and a reading can be made at any time. The `ledger` has one dialog at a
time, but its earlier requests stay in the network.

**Deadlock** is not checked where the program may stop: when every counter is at
its bound there is nothing left to do.  `OrderReadiness` and `GiftCardDelivery`
never stop, and there it is checked.  `Stock` and `ClientCache` may rest: nobody
has to ask for anything.

**Fairness.**  A process runs its loop every three seconds as long as it lives,
and begins each tick with lease recovery and the stored callbacks
(`worker.rs`, `start`, `tick`).  So ticks, lease recovery and the application of
callbacks are weakly fair, each by itself.  Staff, customers, the provider,
cleanup and crashes owe nothing.  In `client_cache` the server answers a fetch or
a request, with success or an error; users owe nothing, and neither does time.  A crash puts a loop back to idle, as the
restarted process is; that the process is restarted is an assumption about its
deployment.  In `delivery` and `card_delivery` no error repeats for ever:
`torn_card` shows what happens when one does.

## 5. What is proved

Every theorem holds for every value of the constants that the named assumptions
allow; none assumes anything about reachable states.  TLC checks each inductive
invariant on its run before it is proved, under the name `IInv` (`BooksInv` for the
gift cards).

| Module | Theorems | Assumptions |
|---|---|---|
| `Notifications_proofs` | `Invariant`, `TypeCorrect`, `AtMostOne`, `NeverSilent`, `OnlySelected`, `LogIsAhead`: delivery; `History`, `OnePerEvent`, `ResentOnce`, `ApprovalStays`, `ApprovesTheShown`: approval; `NothingStale`; `Converge`: callbacks; `KeepsPromise`: the refinement | `None` is no notification, `NoDelivery` no delivery, at least one attempt, bounds and request ids are natural numbers, kinds and callbacks are those of the code |
| `GiftCardDelivery_proofs` | `Invariant`, `OneDeliveryAtATime`, `KeepsPromise`: the refinement | contents are of the kinds they are said to be, at least one attempt, `None` is no delivery and no row |
| `GiftCards_proofs` | `Invariant`, `TypeCorrect`, `Covered`, `Retired`, `SentKept`, `BooksBalance`; `ImplementsAccounts`, `KeepsAccounts`: the refinement | faces are positive, `None` is no till, code or invoice, there are finitely many codes |
| `InvoiceLedger_proofs` | `Invariant`, `RefundsStayCovered`, `CreditsStayExact`, `MoneyOnlySettles`, `ClosedGarmentsRest`, `AnswersStayTrue` | sales are valid (`ValidSale`), the set of cards is finite |
| `OrderReadiness_proofs` | `Invariant`, `NoGap`, `ReadyRests`, `GenerationsName` | the catalogues of a situation have the same stages and are finitely many, `None` is no branch and no order |
| `Stock_proofs` | `Invariant`, `StockStaysAccounted`, `NeverOversold`, `TransfersPass`, `ArrivesWhereStockIsHeld` | finitely many locations and invoices, amounts are positive, what is put on an invoice is a sequence of lines and `None` is none |
| `ClientCache_proofs` | `Invariant`, `TypeCorrect`, `OnlyGapsAreStale`, `MoneyReread`, `OwnAnswerCloses` | sessions are made by `Following` from roles, queries, mutations and pages that exist; the tables name only what exists (`TablesAreWhole`) and connect what they should (`HooksConnect`) |
| `SumTheorems` | lemmas only | - |

**Notifications: delivery.**  "At most one message" is about what the provider has
accepted.  No row records that when a reply is lost or a worker dies, so the
property does not follow from itself.  `IInv` (in `NotificationsInductive`) says
how the three parties agree:

- a worker past its claim owns the last attempt of its destination, which is
  `submitting`, or `uncertain` when its lease ran out (`HolderOwnsAttempt`), and
  no other worker does (`OneHolder`);
- an accepted message belongs to the last attempt, its destination is past the
  queue for good, and a worker that still holds it is about to record exactly
  that, or "unknown", which is never retried (`AcceptedIsLast`,
  `ResultsAreTrue`);
- message ids in rows are ids of accepted messages (`MessageIdsAreTrue`), so a
  failure callback cannot hide one;
- rows of notifications that are not approved have not started, a queued one has
  an attempt left, and approvals do not disappear (`RowsMatch`, `AttemptsLeft`,
  `ApprovedRows`);
- the log is ahead of the network (`AttemptLogIsAhead`).

The proof has one lemma per action.  Steps that leave rows, workers and messages
alone share `QuietKeeps`; withdrawals share `RowsKeep`, which only asks that
claimed destinations are untouched.  `OnlySelectedDestinations` is proved without
being a property of a run.

**Notifications: approval, staleness, callbacks, the promise.**  What a request
read before the lock stays true of the revision it read, so it is true now if the
revision still is the same (`HistoryInv`).  Most steps take a row back or leave it
alone (`Retreat`) and keep everything; the others change the invoice, read, insert
a preview or approve.  `ClaimsPass` follows a claim: what is about to be posted was
current at some time after it.  `CallbacksMatch` ties a stored callback to the
status its row has or will have, which may only rise.  `CallbacksConverge` bounds what
is shown from both sides: it is at least every callback applied, and it starts as
`accepted` and changes only to what a stored callback of its own message says.  For the
refinement a step changes the phase of a destination only as `MessagePromise` allows,
or not at all.

**Gift card delivery** has the argument of delivery again with its own tables: a
step writes one row, one worker, or ends a job with a row.  One more conjunct,
`OneAtATime`, says that a card has one delivery that is queued or being sent.

**Gift cards.**  Facts about a till's uncommitted writes survive the steps of others
because of locks, and locks mean something because of facts about tills, so the parts
of `IInv` need each other: a card that a till wrote is locked or new
(`DraftsAreHeld`); what an edit deletes was checked while it was locked, so nobody
refers to it by the time it is gone (`SalesAreHeld`); the row to be committed refers to
cards that exist and, unless the invoice did before, to none that was replaced
(`RowIsSound`); who follows replacements stands on one (`WalkIsSound`).  `Frame` says
what a step of others leaves alone and `FramedOK` draws the conclusion once for all
of them; `CommittedIsWhole` is what a commit has to restore.

**Gift cards as accounts.**  That every commit is one step of `GiftCardAccounts` needs
to know what an open transaction has moved so far.  `BooksInv` adds to `IInv` that its
books balance: over every chain of codes, what its drafts changed in the balances and
what its row (and, while it pays back, the rest of its list) changed in the payments
add up to zero (`ChainsBalance`), except on the accounts it closes and opens anew,
where what it will sell has its face between card and invoice; and where it stands in
its walk, the money it carries belongs to the chain of the code it was asked for
(`WalkBalances`).  Each action moves one amount within one chain (`BooksMove`,
`SettleBooks`), or nothing (`SameBooks`); a step of others leaves a chain alone, or
adds a replacement that is worth what it replaces (`ChainsGrow`, `OthersKeepBooks`).
At the commit the drafts become the cards (`CommitSettles`).  Sums over chains are
those of `SumTheorems`.

**The ledger.**  Credits are differences of rounded running totals, so they add up to
the sale (`LimitsAddUp`) and, over the parts in which a line comes back, to the line
(`ShareEnds`), for amounts of any size.  How far a sale can be overpaid does not
follow from the last payment alone, for an invoice is paid, edited to cost less, paid
and edited again.  `NotOverpaid` bounds it over all of that by `Slack`, the cents that
one set of advances can be rounded up (half a cent for each and for their sum): an edit
must cost what was paid already, so nothing is overpaid after it; a payment is taken
only while something is owed, and on an invoice that is overpaid nothing ever is, since
no more goes back than was credited or overpaid.  What is over beyond that has been
credited (`TendersAreCovered`, `CreditsAreBooked`); an invoice without adjustments has
nothing back (`NothingIsBack`), which is why an edit may replace its sale.

**Readiness.**  Every step leaves a garment that stays ready alone, and a garment
becomes ready only by `mark_ready`, which has just looked at all that could block it
(`StepShape`, one case per action).  `ReadyIsConfirmed` and `ChecklistHasNoGap` are
inductive with the types; repairs need `ReadyHasNoRepair`, which holds whatever
managers do to the catalogue.

**Stock.**  That a guarded `UPDATE` keeps a row from going negative is true only
because nobody else's uncommitted change is in it.  The invariant says of every open
transaction what it owns: it changed no row but those it has locked (`Clean`), no two
have locked the same row, the same invoice or, if transfers, the same material
(`Apart`), a transfer touches rows of its material only (`OwnRows`), and every shelf a
transfer or return has filled or will fill is shared before the write is reached
(`Held`).  And what it owes: of every material, what its statements have done and will
still do to the stock is what its invoice will have given back when it commits
(`Balanced`).  That is established when a request builds its statements (`SellTakes`,
`RestoreGives`, `ReturnGives`, `CancelGives`, `MoveBalances`), kept by each statement
(`BalanceAdvances`), and cashed in by `CommitAccounts`.  One lemma, `OneMoves`, says
that a transaction which moves and keeps to its own rows leaves the others alone.

**The front end's cache.**  That nothing fresh is behind when a save is over does not
follow from itself: a fetch that was answered before the save lands after it, and the
answer to the save may find its page gone.  So `IInv` speaks of the fetch as well as the
data (`StaleIsExplained`): what is taken for fresh, or will be once the fetch under way
lands, has an excuse, unless the answer that would say so is still to come (`Unheard`),
the pair is a known gap or no mount trusts the data.  While a mutation waits for its
re-reading, what is on screen is being read or was read after it (`RereadIsUnderWay`);
what it does not touch is never behind (`UnrelatedIsCurrent`); a request whose dialog was
dismissed came from a dialog that allows it (`RequestIsReal`).  Steps that make the entry
no worse (`NoWorse`) keep all of this at once (`Kept`, `KeptOnward`); the five steps of a
request are proved one by one, with `AnswerRefreshes` for what an answer leaves behind.
Which hooks refresh what enters the proofs in two places only.  `HooksConnect` has no
constants in it: it compares the two tables of hooks, every mutation with every query,
and TLC evaluates it in full on every run.  `MoneySettles` reads four hooks and is proved.

**Sums.**  The library's induction theorems take an operator as a parameter, which the
provers cannot instantiate.  `SumTheorems` does without: of a set of exceptions it takes
the smallest (`Smallest`, `Induct`, `SubsetInduct`), shows that the library's sum over a
finite set has a solution (`SumsExist`), and from there that sums can be split, renamed
and taken apart.  The recursive function `UpTo` of `CreditAllocation` is unfolded the
same way (`UpToUnfolds`).

**Only model-checked:**

- liveness (`QueueDrains`, `CallbacksAreApplied`, `DeliveriesEnd`, and the part of
  `RefreshedOrTold` that something happens): fairness and `ENABLED` are outside the
  prover;
- `NothingForbiddenIsShown`: the model lets a user mount what the tables of screens say
  and nothing else, so the property is a fact about those tables, for each set of roles
  and each root.  `client_cache` visits all of them; the provers would have to unfold
  tables of some hundred rows for 32 sets of roles.

## 6. Disagreements found

- `stale_queue` (`notifications/worker.rs:139`): a retry that is recorded after
  the notification became stale puts its destination back in the queue, where
  nothing claims or cancels it.  `tests.rs:445` says stale queues cancel all
  unstarted destinations.  No message is sent; the row stays `queued`.
- `void_card` (`invoices/service.rs:2188`): editing the invoice that sold a card
  inserts the card again with its default `is_active`, so a voided card becomes
  spendable.  `docs/roles.md:112` reserves restoring to managers.
- `torn_card` (`gift_cards/delivery.rs:183`): a card whose image cannot be drawn
  any more stays queued for ever, and is the first candidate of every tick.
  `docs/whatsapp-notifications.md:145` says such changes cancel the send.

- `stale_edit` (`frontend/src/features/invoices/invoice-edit.tsx:35`): the edit form
  is keyed by the id of the invoice alone.  Opened again right after a save it is
  filled from the cached values of before the save, is not filled again when they
  are re-read, and saving it undoes the user's own save; the server compares only
  the VAT rate.  The comment above it (lines 32-33) says a fresh mount keeps stale
  values out.  The customer, product and location forms do the same.

- A comment without a run: `invoices/service.rs:160` says that a payment is refused
  which "would take the ledger past what the invoice charges".  The amount is compared
  rounded and stored as it came, so 1.005 on a balance of 1.00 is accepted and stored as
  1.01; two advances of 50.005 on an invoice of 100.01 are stored as 100.02
  (`invoices/service.rs:922`).  Material lines refuse such precision (`:882`), payments
  do not.  The forms send two decimals; nothing on the server asks for them.  The
  invoice then has a refund due that nobody credited.  `RefundsAreCovered` and
  `MoneyMovesToBalance` say how far it goes (`Slack`, one cent), which `ledger` checks
  and `Invariant` proves.

Not disagreements, but good to know:

- Collecting the last unconfirmed garment can leave an invoice "ready" without a new
  generation and so without a new pickup notice (`GenerationNamesReadiness` states
  it; `ChangeInvoice` of the notifications has it, too).
- `KnownGaps` in `ClientCache` lists the saves and queries the hooks do not connect:
  mostly pickers with keys of their own, balances of customers after a payment, names
  that other views repeat, readiness on the invoices after the workshop reopened a
  garment (`useUpdateOrder` refreshes only `['orders']`, although a ready garment that
  is to be made elsewhere is pending again), and what the edit form shows beside the
  lines (stock, production places, who a card is for).  They stay old until they age.
  `HooksConnect` checks that the list is complete for the tables of `ServerState`; no
  entry of it is spare.  Two are patches
  under a key that no query reads: the stage catalogue's hooks write
  `['order-stages']`, so the comment in `use-create-order-stage.ts` that this keeps
  the checklist in step is not what happens.
- `DeadLinks`: the sheet of a customer links workshop staff to invoices they may not
  open; they are shown the page guard.
- A first load that was under way when a save was answered may bring the older
  answer and clear the mark (the excuse `late` in `OnlyKnownGapsAreStale`); a lost
  answer leaves what it changed unmarked, except where the code uses `onSettled`.
- A background re-read that fails takes an open edit form off the screen.
- Requests with several stock rows take them in the order of the request, so two of
  them, or one and a transfer, can deadlock; PostgreSQL aborts one.
  `TransfersDoNotWait` is only what `transfer_stock` promises.
- `cancel_order` looks at the shelf its fabric came from without holding it, so
  fabric may arrive at a location that was retired meanwhile; an edit gives fabric
  back to a retired location in any case.
- `locations/service.rs` checks capabilities against the row as it was read, so two
  partial updates could leave a location with none.  The front end always sends all
  three, and the later request decides.
- The server accepts negative receipts (`add_stock`); the form does not send them,
  and the model has none.  Quantities of product lines may have more decimals than
  are stored.

## 7. What is not modelled

- VAT, prices and how a discount is computed: pure arithmetic of one request.
- Fractions of cents outside the ledger: in `GiftCards` amounts are whole units, so that
  the balance of a card and the redemption it pays may be rounded apart by a cent is not
  in that model.
- PDF artifacts and the stock of products: planned (section 2).
- Several invoices at once, except for gift cards and stock: nothing else is
  shared.  `create_invoice` has no request id; a repeated one makes a second
  invoice, each consistent by itself.
- Customers, locations' names, stages' names and order, design options, pricing,
  preferences: catalogue rows, one statement per request.  What they change on an
  invoice is a revision or a catalogue edit in the models.
- Authentication, paged lists, configuration, import scripts: no state that steps of
  several actors share.
- Forms' validation, tables, columns, filters and formatting of the front end:
  functions of one render.  Which of its own rows and disabled states a component
  shows is any choice in `Screens`.
- Two tabs, and two queries of one tab at once: a tab learns of another by age,
  polling and focus only, and the entries of a cache do not depend on each other.  A browser that is offline
  pauses its fetches; the model's fetches are answered or fail.
- The provider and Gotenberg are external.  Of the provider is modelled what the
  code relies on: an error object means that the message was not accepted, and
  callbacks name messages it accepted.
