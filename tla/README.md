# ABMCY Core in TLA+

TLA+ models of ABMCY Core: its API (`src/cmd/api`, `src/internal`,
`src/migrations`), the shop `src/storefront-nathan` and the administrations
`src/tenant-dashboard`, `src/admin-dashboard` and `src/mahu-web`; the TLC
configurations that check the models on small instances; and the TLAPS proofs of
their main properties for instances of every size.

1. [The system](#1-the-system)
2. [Modules](#2-modules-and-how-they-follow-the-code)
3. [Runs](#3-runs-bounds-and-fairness)
4. [Proofs](#4-proofs)
5. [What the code does that its comments deny](#5-what-the-code-does-that-its-comments-deny)
6. [What is not modelled, and why](#6-what-is-not-modelled-and-why)

## 1. The system

ABMCY Core is the back end of many shops ("tenants"): a Go API over one
Postgres database, run as two replicas (`src/k8s/api-deployment.yaml`), with
Next.js dashboards and storefronts in front of it. The replicas share nothing
but the database. Three external services do what cannot be rolled back: ABMCY
Core Payment (money), Porkbun (domain names), and Resend and R2 (emails, files).

**Grain.** Every service operation is one or several closures given to
`db.WithTenant` or `db.WithSystem`. A closure is one READ COMMITTED transaction:
it commits as a whole or not at all, but a `SELECT` in it takes no lock. Calls
to external services are made *between* transactions, never inside one. So the
interesting interleavings are at transaction boundaries, at provider calls and,
in the few closures that read and then write, between the two statements. The
modules of the API use exactly this grain. Row-level security filters every
query by tenant, so a module speaks of one tenant, or of rows that tenants do not
share.

In the browser a tab runs one thread: an event handler, or what an `await` is
followed by up to the next one, is one step. What interleaves is the answers of
calls, in any order or never, with the clicks, the timers, the other tabs that
share `localStorage`, and the other people who change the same rows.

| Component | State it keeps | Operations | Interacts with | What is hard, and what makes it correct |
|---|---|---|---|---|
| Orders (`internal/order`) | `orders`, `order_items`, `order_status_history` | Create, Update, SetStatus, UpdateStatus | payment callback, staff, delivery | staff and the callback write one status; every status must leave its history row |
| Order payment (`internal/payment`, `internal/tenantpayment`) | `payments` | InitiateForOrder, HandleWebhook, Reconcile, applyStatus | the provider, Orders, email | callbacks lost, late, repeated; two transactions per confirmation; never report money that was not collected, lose no confirmation |
| Payouts (`internal/payment`) | `payouts` | RequestPayout, HandlePayoutWebhook | the provider | retries that pay twice; statuses applied in order of arrival |
| Delivery (`httpserver/handlers.go`) | none (signed links) | order delivery routes, confirmation email | Orders, Storage, Notifications | only a paid order gives its files |
| Subscription (`internal/subscription`) | billing columns of `tenants`, `subscription_payments` | SetPrice, CreateInvoice, HandleWebhook, Enforce (daily) | the provider, tenant.SetActive, staffAuth | four writers of one row; grace period; suspension and its end |
| Domain purchase (`internal/domain`) | `tenant_domains` | RegisterExisting, InitiatePurchase, HandleWebhook | the provider, Porkbun | an irreversible purchase between two transactions; races for one name |
| Platform configuration (`internal/platformconfig`) | `platform_config`, a map per replica | Load, StartAutoRefresh, Get, Set | every client of an external service | stale copies; a refresh that overtakes a Set |
| Tenants (`internal/tenant`) | `tenants`, `users`, `tenant_socials` | Create, UpdateProfile, SetActive, ReplaceSocials, ... | Subscription, auth | Create is two transactions; `is_active` has two owners |
| Storage (`internal/storage`) | `storage_used_bytes`, `product_images`, `product_files` | uploads, signed links | R2 | quota checked and counted in two transactions |
| Notifications (`internal/notification`) | `email_sent_today`, `email_logs` | SendEmail | Resend | the same, with a daily reset |
| Accounts (`internal/auth`) | `users`, `customers`, `revoked_tokens`, `customer_password_resets` | login, logout, reset | middleware | revocation, deactivation, single-use tokens |
| Middleware (`internal/middleware`) | limiters in memory, `request_logs` | TenantAuth, RateLimit, TrafficLog | all routes | limits are per replica |
| Catalogue, content, features, SEO (`internal/catalog`, `content`, `features`, `seo`) | their tables | create, read, update, delete | handlers | single statements |
| Shop (`storefront-nathan`) | the cart and the customer's token in `localStorage`; what each tab shows | cart buttons, checkout, waiting page, account | Orders, Order payment, auth | tabs that show an old cart; a checkout that fails or is answered late; a page that polls; lose no line, never say "paid" of what is not |
| Tenant dashboard (`tenant-dashboard`) | the lists each page loaded, per-table copies, open forms | load, row buttons, creation, edition | nearly every component | answers that overtake each other; other people at work; show what the database holds |
| Admin dashboard and mahu-web administration (`admin-dashboard`, `mahu-web`) | the same | the same | Tenants, Accounts, Subscription, Configuration, content | the same, with pages that follow other patterns |
| Sessions in the browser (the `auth-context` of each application) | one stored credential per application; the key each tab uses | login, logout, impersonation, loading a page | auth, middleware | tabs that log in and out under each other; never show one owner's data to another; end what is logged out of |

`PROJECT.json` lists the same components with their status, and the hazards of
the code at their lines.

## 2. Modules, and how they follow the code

Naming: an action has the name of the function, or of the step of a function,
that it models, and `pc` says where a request stands. Operators whose names
begin with `Wrong` are *not* part of any specification: each is a deliberately
faulty variant of the definition that follows it (a dropped guard, an error that
is not looked at), kept to show that the properties detect it; `PROJECT.json`
says which property each one breaks. Variables marked *history* in a declaration
record the past for a property; no guard reads them.

### PaymentPromise and OrderPayment

`PaymentPromise` is the abstract contract of an order and its payment. The payment
is *due*, *collected*, *confirmed*, *notified*, one stage at a time, never back, and
collected only for an order that was placed. The status that everyone sees may be
set by staff at any time; apart from that it becomes "paid" by a confirmation, and
each confirmation writes it. `OrderPayment` and `Storefront` model the two sides of
a sale and meet in this contract: both are checked and proved to implement it, so
what the shop's model takes the server to do is what the server's model does.

`OrderPayment` composes orders, their payment, the confirmation email and the
delivery routes, for several orders of a tenant and several requests in flight.

| State | Code |
|---|---|
| `orderStatus`, `trail` | `orders.status`; the statuses in `order_status_history` |
| `payments[o][r]` | the status of the `payments` row inserted by request `r`; all rows of an order carry the same `provider_ref`, which nothing makes unique |
| `provider[o]` | the provider's record for the order's `app_ref` |
| `confirmations`, `mailed` | requests whose `UpdateStatus(..., "paid")` committed; requests that sent the email |
| `delivered` | orders whose links were handed out |
| `pc`, `kind`, `target`, `answer`, `prev` | each request: its step, which handler, which order, the provider's answer it holds, the previous row status it read |

An init is `InitiateForOrder`, `CreatePayment`, `RecordPayment`; a callback is
`HandleWebhook`, `GetPayment`, `SelectRow`, `UpdateRow`, `UpdateStatus`, then
`SendDeliveryEmail` or `SkipDeliveryEmail`; `Reconcile` enters at `GetPayment`.
`SelectRow` and `UpdateRow` are one transaction in two actions because the
`SELECT` locks nothing. `Abort` ends a request anywhere (error or crash);
`FailUpdateStatus` is the same between `applyStatus`'s two transactions, kept
apart because the properties must name that gap.

The provider's side is external: a payment goes from *pending* to a final
status, *completed* never changes, and a new attempt may follow a failed one.
What of this the code relies on is in the comments of `CreatePayment` and
`ProviderAdvance`.

### Subscription

One tenant's billing columns with their four writers (`SetPrice`, the callback's
`MarkPaid` and `MarkFailed`, the daily `Enforce`) and `tenant.SetActive`, which
writes `is_active` too. `SetPrice` reads without a lock and then writes, so it
is two actions. `markPaid` and `markFailed` lock the invoice in their first
statement, so they are one each. `CreateInvoice` is three: read and clock, the
provider, the `INSERT`. Time counts days, the period of the job. `settledOn` and
`frozen` are history.

### DomainPurchase

The purchase of names for several tenants: the payment, its callbacks, and the
registrar. `completePurchase` is three actions, the `SELECT` (`LookUp`), the
purchase (`Register`) and the last `UPDATE` (`SetActive` or `SetFailed`), which
writes by id whatever the row says by then. At the registrar a name is free, sold
to someone else or bought for a purchase; it sells a name once, may refuse for
reasons of its own, and its answer may be lost after the sale. `asked` and
`unanswered` are history.

### PlatformConfig

The map each replica keeps of `platform_config`: `LoadRead` and `LoadSwap` are
the `SELECT` of `Load` and the swap under the mutex, `Commit` and `Publish` the
`UPSERT` of `Set` and its write to the map. A replica may end at any time and
boots with a first `Load`. A value is named after the `Set` that wrote it.
`committed` is history.

### Storefront

One customer's browser: several tabs of `storefront-nathan`, the cart they share,
the calls to the route `/api/checkout`, and the orders these create; with the
provider and the staff around them. What it takes from the API is in `Pay`,
`Confirm` and `SetStatus`; `KeepsPromise` says that these are steps of
`PaymentPromise`, the contract `OrderPayment` implements. A payment may be collected
as soon as the browser was sent to its page (stage "opened"), before or after the
customer comes back; it may be confirmed more than once, each time over the status
staff have set; and staff may set a placed order to any status, "paid" included.
`given` records that they did so for an order whose payment is not confirmed. An
order that is not placed yet has the status "absent", as in the contract.

| State | Code |
|---|---|
| `cart` | the lines in `localStorage` (`lib/cart.ts`): a quantity per product |
| `tab[t]` | the page shown, the lines it read when it was mounted, `submitting`, and the state of the waiting page: its order, its poll, the time spent, what it says |
| `call[o]` | the tab whose document will handle the answer (none once it has, or once the document is left), and whether the form that sent it is still mounted |
| `order[o]` | how far the route's two calls and the payment went, `orders.status`, and whether staff gave the order (`given`, history) |

`Follow` is a link of the site: the page is unmounted and its promises go on.
`Load` is a full load, which ends them. `Submit`, `CreateOrder`, `InitPayment`,
then `AnswerLink`, `AnswerError` or `LoseAnswer` are `handleSubmit` and the route
cut at their awaits; `PollTick`, `PollStatus`, `PollRefused`, `PollThrows`,
`FetchDelivery` are `poll` cut the same way.

### Screens, TenantDashboard, AdminDashboards

Some thirty pages are built from the same few patterns: how a page loads its list,
which buttons a call disables, what an answer does to the list, what a modal does
when its save is answered. `Screens` models one page and its patterns, and a
*screen* is a record that says which ones a page follows. `TenantDashboard` and
`AdminDashboards` give that record for every page, put together with `@@` from
the records of its table, its forms and its API, as the page is put together
from components. A run takes all of them as initial states, so a property that
holds, holds of every page.

| State | Code |
|---|---|
| `server[r]` | the version of a row in the database: 0 before it exists, `Gone` once deleted |
| `list[r]`, `over[r]` | how often a row is in the page's list and with which version; the copy an orders' table keeps of it |
| `load[l]` | a load in flight, or what it read |
| `loading`, `pending` | the disabled "Actualiser", the row whose button is disabled |
| `call[c]` | a call that changes a row: a patch, a removal, a creation and its photo, a save, a photo or a password sent from a modal; the row it changes, the row its fields came from, the version of the copy its answer lists |
| `editor` | the open modal: its row, the version of its copy, the calls it waits for |
| `missed`, `crossed` | history: what explains that a row shown is not current |

What an answer lists differs. Most calls answer the row. Some answer nothing, and the
page lists the row it has, changed. And some pages list a *copy* kept since the button
was pressed or the modal was opened: the tables of reviews and of staff the row they
were drawn with, `EditCustomerForm` the modal's customer when its password form is
answered, `EditProductForm` the row answered but with the modal's own photos. A copy
carries the version it was taken at (`base`); `Answered` is what is listed in the end,
the server's version if the copy was the last one and the older version otherwise.
`EditProductForm` and `EditCustomerForm` each send two kinds of call from one modal,
with a flag of its own for each (`Submit`, `editor.saving`): the product's save and its
photos, the customer's fields and password. A photo is on the server as soon as it is
chosen and the list is not told of it (`AnswerUpload`).

`missed` and `crossed` make the promise exact. A row may be out of date because
somebody else changed it since the load, because the answer to the operator's call
did not come or does not reach the list (a photo), because a call on it overlapped a
load or another call, or because a modal that was opened on an older list was saved.
`ShownIsCurrent` says these are the only reasons.

### Session

The credential that an application keeps in `localStorage`, the tabs that use it
and the sessions on the server. The four applications differ in five flags (an
`App`): whether logging out asks the server to revoke, whether technical keys and
support links are accepted, whether a provider outlives a logout, whether calls
carry the stored credential instead of the tab's.

| State | Code |
|---|---|
| `stored` | the credential in `localStorage` |
| `tab[t]` | the key in use, a login in flight, the calls that read what the page shows and the answer kept, what `CGUGate` knows or has asked, the calls for an order's links by the token they carry, the links shown |
| `session[s]` | a token before it is issued, valid, or revoked or expired (`internal/auth`) |
| `accepted` | `tenants.cgu_accepted_at`, per owner |
| `revoking` | calls to `POST /auth/logout` in flight |
| `out`, `escaped` | history: the tokens that were logged out of, and those that another credential was stored over or whose revocation was lost |

Every call is cut at its await: the gate reads the terms (`ReadGate`), is answered
(`AnswerGate`), sends an acceptance (`Accept`, `ServeAccept`, `AnswerAccept`,
`FailAccept`); an order's links are asked for with the token stored by then
(`FetchFiles`), granted or refused (`ServeFiles`, `FailFiles`), and shown if the list
that asked is still mounted (`AnswerFiles`).

## 3. Runs, bounds and fairness

Each `MC` module extends its model and adds the symmetry sets.

| Run | Instance | What it shows |
|---|---|---|
| `order_payment` | 1 order, 4 requests, 3 in flight, staff set shipped or cancelled; 540,000 states | `PaidOnlyIfCollected`, `SuccessIsAccountedFor`, `AcknowledgedIsAccountedFor`, `MailFollowsConfirmation`, `DeliveryFollowsPaid`, `GivenForMoney`; `SettledIsQuiet`; `KeepsPromise`, the refinement of `PaymentPromise` |
| `subscription` | 2 invoices, 3 callbacks, 2 operators, 4 days, grace 1, month 2; 1,200,000 states | `PaidIsPaid`, `MarkFollowsStatus`, `LockedOutForAReason`; `PaidStaysPaid`, `GraceIsWhole` |
| `subscription_liveness` | 2 invoices, 2 callbacks, 1 operator, 3 days | `OverdueIsSuspended` |
| `domain_purchase` | 2 purchases, 2 names, 3 callbacks; 214,000 states | `NeverBoughtUnpaid`, `ActiveIsBought`, `AnsweredIsSettled`, `FailedThoughBought`; `OnlyAReplayUndoes` |
| `platform_config` | 2 replicas, 1 key, 3 Sets; 520,000 states | `CacheIsCommitted`, `SettledStays`, `Converges` |
| `storefront` | 2 tabs, 1 product, 2 calls to the checkout, quantity 1 for any, staff set "paid" or another status; 306,333 states | `ConfirmedOnlyIfPaid`, `OneCallPerForm`; `LinesLeaveForAReason`, `OnlyAddPutsIn`; `KeepsPromise`; `PollingEnds` |
| `screens` | the 28 pages (20 distinct screens), 2 rows of which one changes, 2 loads and 2 calls in flight, 3 versions; 1,229,933 states | `ShownIsCurrent`, `SavesItsOwnRow`; `NeverBackwards` |
| `session` | 4 applications, 2 tabs, 2 tokens and a technical key of 2 owners; 3,691,279 states | `OneOwner`, `LogoutEndsSession` |
| `order_mail`, `order_reconcile`, `domain_replay`, `screens_copies` | the smallest that fails | one statement of the repository each, which the code does not keep (section 5) |

The passing runs also check the type invariant of their module (the liveness run
leaves that to `subscription`).

**Bounds.** `Requests`, `Callbacks`, `Invoices`, `Purchases` and `Writes` bound
the calls that are ever made; `MaxInFlight` bounds those in progress; `MaxTime`
bounds the clock. They only cut behaviours short: no guard of the code depends
on them. They are large enough for the cases that matter. Orders do not meet (no
action reads another order), so one is enough; four requests allow an init, a
second init, and two callbacks that overlap, or a failed request and two
replays. For the subscription, the two invoices are the least for which paying
one and failing the other matters, three callbacks allow one of them to be
repeated late, and with a grace of one day, four days hold a failure, a payment,
a new failure and a suspension. Two purchases may want one name or two, and three
callbacks give two that race for one purchase and one for the other. Three Sets on
two replicas give two that race on one replica while the other one writes too;
keys do not meet but in the swap of the whole map, so one is enough. In the
shop, two tabs are a tab that shows an old cart and the one that changed it; lines do
not meet but when the cart is cleared, so one product is enough, and two calls are
a form sent again, or two forms at once. The largest quantity, `MaxQty`, stands for
itself and every larger one: the properties tell a line from no line, so 1 is enough.
`StaffStatuses` holds "paid" and one status for all those the waiting page does not
look at; "pending" is one of them once the order is placed. `Timeout` is counted in polling
intervals; 0 makes every order of answers and time possible with the fewest. On a
screen, two loads can be answered in the wrong order, two calls can be on one
row or on two; three versions let a modal be opened on the first, the list be renewed
to the second and a save make the third. `OneRowChanges` is a bound of the run: one row
is changed and deleted after its creation, the other one is created, opened in modals
and sent calls that fail; rows do not meet but through the modal, the disabled buttons
and the loads, where this is enough. Two tabs, and three
credentials of two owners, are one customer who logs in over another one while a
third credential is the shop's key. The proofs of section 4 remove these bounds
for the properties they cover.

**Deadlock.** In the domain runs every bounded thing may have been done and the
system stops: these two say `CHECK_DEADLOCK FALSE`. So do those of
`Screens` (a page without "Actualiser" whose rows are all deleted has nothing left
to do) and of `Session` (every token may have expired, with the tabs on their
form). In the others something can always happen (staff may change a status, the super-admin may set a tenant
active, a process may end), and deadlock is checked.

**Fairness.** `Subscription`: weak fairness of `Enforce`, because
`src/cmd/api/main.go` runs it every 24 hours on each replica and an overdue tenant
stays overdue until something is done. Nothing is assumed of callbacks, requests,
operators or the clock. `PlatformConfig`: per replica, weak fairness of
`LoadRead`, since the 15-second ticker fires for as long as the process is up, and
strong fairness of `LoadSwap`, since a refresh can fail again and again but
database failures are transient (the comment of `StartAutoRefresh`). Nothing is
assumed of `Set`, and a process may end and come back at any time.
`Storefront`: weak fairness of `PollTick`, since a timer that was set fires
while its page is there; strong fairness of `PollStatus` and `FetchDelivery`,
since a call may fail again and again but a page that keeps asking is answered in
the end. That is the least under which the page can be expected to stop: its
`catch` sets the timer again without looking at the time spent, so a network that
stays down keeps it polling for ever. Nothing is assumed of the customer, the
checkout, the provider or the staff.
`Screens` and `Session` have no liveness: a page that is not answered waits, and
nothing in it retries.
`OrderPayment` and `DomainPurchase` have no fairness: the code retries
nothing and no job calls `Reconcile`, so there is no liveness they promise.

**What is assumed of the outside.** The payment provider is not in this
repository. It is taken to report *failed* and *cancelled* as final for a
reference used once (`sub-<uuid>`, `domain-<uuid>`), whereas an order reuses its
reference, so that a new init may reopen a payment that failed. Two properties
rest on that finality and on nothing weaker: `PaidStaysPaid` of `Subscription` and
`FailedThoughBought` of `DomainPurchase`. With a provider that may bring a
failed payment back to pending, TLC finds these two violated and every other
property of the two modules still true.

**Why these properties.** `SuccessIsAccountedFor` and
`AcknowledgedIsAccountedFor` do not say that every payment confirms its order,
which is false; they say that the *only* way to lose a confirmation is a failure
between `applyStatus`'s two transactions. `FailedThoughBought` does the same for
names ABMCY has paid for: a lost answer or a second request, nothing else, and
`OnlyAReplayUndoes` for those shown as active. `GivenForMoney` leaves out instances
in which staff may set "paid" by hand, which they do for money the provider never
sees; in the run they may set other statuses. `ConfirmedOnlyIfPaid` lets staff set
"paid", and says of the waiting page that this and a confirmation are the only ways to
its "Paiement confirmé".
`SettledIsQuiet` states exactly when a replay is harmless: when every payments
row reads success and no request holds an older answer. `SettledStays` states
when a refresh cannot undo a Set. `LinesLeaveForAReason` does not say that the cart
is never lost, for a successful checkout clears what other tabs added; it says that a
failed or unanswered one costs nothing. `LogoutEndsSession` lists the only three
ways in which a session survives its logout. `ShownIsCurrent` and
`NeverBackwards` are stated of all screens at once because the code's authors
repeat the pattern by hand on each of them; the exceptions they name (the copies of
the orders' tables, the customers' modal that is not mounted again, the product's
photos, a modal that lists its own copy) are the pages where the pattern was not
followed. The repository's stronger statements are
the violation runs.

## 4. Proofs

Each `*_proofs` module extends its model. All theorems hold for all values of the
constants under the model's named assumption (`OrderPaymentAssumption`:
`StaffStatuses` are valid statuses and `MaxInFlight` is positive;
`SubscriptionAssumption`: the clock's bound is a natural number, the grace and
billing periods positive ones; `DomainPurchaseAssumption` and
`PlatformConfigAssumption`: the names of purchases and of Sets differ from the
constants that mark "no purchase" and "no value"; `StorefrontAssumption`:
`MaxQty` is a positive natural number, `Timeout` a natural one, and `StaffStatuses`
are statuses of a placed order; `ScreensAssumption`: `MaxVer` is positive, `Kinds` are
screens, "no row" is not a row, and a modal that sends photos does not move to another
row, as the products' does not;
`SessionAssumption`: keys are credentials, each has an owner). TLC evaluates them
in every run. Each safety property has a theorem of its own, which names it.
Three kinds of theorem go beyond the invariants: refinement, the conditions under
which the statements refuted in section 5 are true, and liveness (at the end of this
section).

A convention of the models comes from the prover. `tlapm` 1.4.5 mistranslates an
`EXCEPT` that changes several fields of one entry (`[f EXCEPT ![o].a = x, ![o].b = y]`)
and an `@` inside a nested `[@ EXCEPT ...]`, so that false facts follow. An action that
writes several fields of an entry is therefore written
`[f EXCEPT ![o] = [f[o] EXCEPT !.a = x, !.b = y]]`; keep to that form. For each action
the prover was also asked to derive `FALSE` from the action and the inductive invariant
(for `Screens`: `TypeOK` and `Typed`), and could not.

**OrderPayment_proofs.** `PaidOnlyIfCollected` is not inductive: a request on
its way to write "success" must hold an answer that is still true. `IInv` adds
the types and where each request stands (`Located`); that an answer of
*completed* is true, because *completed* is final (`AnswersTrue`); what the rows
say (`DatabaseTrue`); that an email in progress follows a confirmation
(`MailTrue`); that a request which read "success" found it accounted for
(`AllAccounted`); and that the history keeps "paid" (`PaidRecorded`). The lemma
`Lasting` gathers what no step takes back: *completed*, confirmations, history,
and being accounted for. From these: `TypeCorrect`, `Inductive`,
`NoFalsePayment`, `OnlyOneGap`, `AcknowledgedInOneGap`, `CustomerToldTheTruth`,
`LinksFollowPaid` and `ReplaysAreQuiet` (an action property). `NothingForFree` needs,
besides, that an order which reads "paid", or was handed out, has been confirmed;
that is inductive only as long as staff do not write "paid", the hypothesis
`GivenForMoney` states. `Refinement` (`Spec => KeepsPromise`) rests on `PlacedFirst`
(requests are about orders that exist) and matches each step with the contract's:
`CreateOrder` with `Place`, the `ProviderAdvance` that completes with `Collect`,
`UpdateStatus` with `Confirm`, the first `SendDeliveryEmail` with `Notify`,
`SetStatus` with its namesake, and every other step with a stutter.

Two theorems say what it takes for the comments of section 5 to be true.
`GapIsTheOnlyWay`: Reconcile repairs for as long as no request has failed between
the two transactions. `OnceWithoutOverlap`: with no two requests in progress at once
(`OneAtATime`, which holds when `MaxInFlight` is 1) and one payments row for the
order, the email goes out at most once, whatever is repeated, lost or fails; drop
either condition and TLC finds a second email. Its inductive invariant, `Sequential`,
follows an order through its single row: confirmed once, "success" from then on, and
every later request reads it so.

**Subscription_proofs.** `IInv` adds to the invariants that callbacks act on
final answers (`AnswersTrue`), that the provider is asked once per invoice
(`AskedOnce`), that the past-due mark is from after the last settlement and not
from the future (`MarkIsFresh`, which is what makes the grace period whole) and
that a first price in progress finds a tenant the job cannot have suspended
(`PricingIsShort`). `TypeCorrect`, `PaidWasCollected`,
`BillingIsSound`, `LockoutHasAReason`, `PaymentsLast` and `NoEarlySuspension`
follow, for every length of the grace period, and so does `JobSuspends` (liveness,
below).

**DomainPurchase_proofs.** `RowsComeLast` (a row exists only after its payment),
`CallbacksKnow` (what each step of a callback may rely on, such as owning the
name before writing "active"), `AskedAreKnown` and `BuyerIsKnown` (the callback
that bought a name is not about to write "failed", unless its answer was lost).
`TypeCorrect`, `NothingBoughtUnpaid`, `ActiveIsOwned`,
`AnswerIsAnOutcome` and `OutcomeIsKnown` follow. `ReplayIsTheOnlyWay` adds that the
callback whose purchase is active is among those that asked
(`ActiveHasItsCallback`), so that whoever writes "failed" over it is a second one.

**PlatformConfig_proofs.** `CallsKnow`, `ReadsAreCommitted` and `LoadersAreUp`
give `TypeCorrect` and `NoStrayValue`; `StepKept` proves `SettledStays` action by
action. The lemma `Undone` (without Sets, a load that is current stays current, and a
replica in step stays in step) leads to `ReplicaConverges` (liveness, below).

**Storefront_proofs.** `IInv` adds that an order is "paid" only if its payment was
confirmed or staff gave it (`PaidForAReason`), that a page which polls or says something has an
order (`PagesKnowTheirOrder`), and what ties a call to its form: a mounted form
with a call running has its button disabled, and a call that will be handled
belongs to a tab that is not on the payment page (`CallsKnowTheirForm`). That an
error frees its own form only, in the lemma `FreesOne`, needs `OneCallPerForm`: the two
are inductive together, and neither is alone. From these
`TypeCorrect`, `NeverConfirmedUnpaid`, `NeverOrderedTwice`, and the action
properties `NoLineLost` and `NoLineBack`, by cases on the step. `Refinement` shows that
`Storefront` implements `PaymentPromise`: for any statuses that staff may set; `OrderSteps` says what each step does to an
order, `AlwaysPlacedFirst` that money is collected only for a placed one. `TimePasses`
and `GivesUp` are liveness (below).

**Screens_proofs.** `Typed` adds to the types that a call in flight, and an open
form, know their row, and that a photo still awaited is one of the modal that is open. `TypeCorrect` follows, for every screen at once. `OwnRow` adds
that an open form's fields came from the row it saves, and `SavesChangeTheirRow`
follows.

**ScreensShown_proofs.** The lemma `Shapes` first reduces the actions to what they do
to a row: nothing (`Idles`), a load that begins (`Asks`), a call that leaves
(`Leaves`), a call that ends with one of seven outcomes (`Answers`), and the steps of
loads, of others and of the API, taken as they are. `Ordered` is the first invariant:
two things in flight on one row are known to have met (`Recorded`), no version on its
way to the screen is ahead of the database (`NothingAhead`, with `FormNotAhead` for the
copy in a modal), and none, the copies that calls carry included, is behind the screen
unless it met something (`NothingBehind`); `NeverGoesBack` follows step by step. `ScreenIsCurrent` needs more: an unmet load holds what the database still has
(`ReadsAreCurrent`), and an unmet call is the only explanation of the difference
between its row on the screen and in the database (`ExplainedAt`, `Awaits`), so that
its answer, or its failure, closes the difference exactly. `ListIsFollowed` says that
the copies are all there is to the run `screens_copies`, whose rows are settled: on a
page whose table keeps none, what is shown of a settled row is what the database has. A
row that a photo, an overlap or a modal opened on an older list has left behind is not
settled, on these pages or any other.

**Session_proofs.** `Emptied`: a tab without a key holds nothing. `Asking` and `Saved`:
links that were granted, and an acceptance that was recorded, are those of the owner
who is logged in in the tab that waits for them. `Displaced`: a
token that a tab uses and that is not the stored one any more is already accounted
for; it is what `LogoutEndsSession` needs when that tab logs out and the stored
token is revoked in its place. `TypeCorrect`, `ShowsOneOwner` and
`LogoutIsAccounted` follow.

**Liveness.** The proof system has no rule for `ENABLED`, and so none for `WF_` and
`SF_`. The liveness theorems state the same fairness with the action's own guard:
for an action `A` with guard `G`, weak fairness is `[]<>(~ G) \/ []<><<A>>_vars`, and
strong fairness `<>[](~ G) \/ []<><<A>>_vars`. Every such `G` is the conjunction of
the action's unprimed conjuncts, and each of these actions changes a variable whenever
its guard holds, so `G` is exactly when it is enabled; this identification is by
inspection and is not proved.

- `JobSuspends`: fairness of `Enforce` implies `OverdueIsSuspended`. The lemma
  `OverdueStays` is the argument: no callback, operator, replica or day takes an
  overdue tenant out of the job's reach but by paying.
- `ReplicaConverges`: for each replica, fair refreshes imply that once the Sets are
  over it serves what the database holds, for ever.
- `TimePasses` and `GivesUp`: a fair timer and fair calls imply that a page leaves
  each polling interval, and that one that has waited beyond the timeout stops.

Only model-checked: `Converges` and `PollingEnds` as they stand, with `WF_` and `SF_`.
What the theorems leave to TLC is, for `Converges`, the step from each replica and from
no Sets any more to all of them at once, an induction over finite sets of replicas and
Sets under `<>[]`; for `PollingEnds`, the induction over the number of intervals, from
`TimePasses` for each of them and `GivesUp` for the last; and for all three the
identification of guard and `ENABLED`. Inductions of that kind take a rule with a
predicate parameter, which no installed prover can instantiate. Every invariant and
every action property of a passing run is proved. The statements of section 5 that
have a run are false, and TLC shows how.

## 5. What the code does that its comments deny

| Run | Statement | What happens |
|---|---|---|
| `order_mail` | `payment/service.go:81-83`: the email goes out "exactly once" | two callbacks both read the row before either writes it; two emails |
| `order_reconcile` | `payment/service.go:198-200`: Reconcile is "the safety net", "safe to call repeatedly" | after a failure between the two transactions it takes the row for a replay; the order is never confirmed |
| `domain_replay` | `domain/service.go:260`: a replay has "nothing more to do" | an overlapping replay is refused by the registrar and writes "failed" over "active" |
| `screens_copies` | `OrdersTable.tsx:13-15`: the table's copies are "réinitialisé implicitement" when the list changes | they are never reset, and hide every later change that a reload brings |

The condition under which each of the four is true is a theorem of section 4:
`OnceWithoutOverlap`, `GapIsTheOnlyWay`, `ReplayIsTheOnlyWay`, `ListIsFollowed`.

Other disagreements met while modelling, without a run of their own:

- `subscription/service.go:285` against migration 0013, line 15
  (`past_due_since` is "NULL si à jour"): an invoice that fails late marks past due
  a tenant that has paid the running period with another one.
- `subscription/service.go:304` against migration 0013, lines 7-8 ("blocage
  automatique") and `CreateInvoice`'s comment (147-148, "a scheduled job on
  next_billing_at"): no code reads `next_billing_at`, and a tenant that asks for
  no invoice is never blocked.
- `platformconfig/service.go:132` against 172-173 ("live immediately"): a refresh
  that read the table before a Set's commit swaps the older map in after it, until
  the next tick.
- `AuthGate.tsx:8-9` against 40-42: after a support link and a logout the page
  stays blank instead of showing the form, until the address is loaded again.
- `auth-context.tsx:92-107` (tenant-dashboard, mahu-web): the comment speaks of
  this session's token; the token revoked is the stored one, another tab's if that
  tab logged in later.
- `mahu-web/components/admin/ArticleForm.tsx`: the submit button stays enabled
  while a cover is being uploaded; the article saved then has the earlier one.
- `galerie/page.tsx`: a new photo is put before the others whatever the category
  that is chosen.

## 6. What is not modelled, and why

Left out, with the reason. None of these is needed by a module above.

- **Payouts.** Three single statements around one call. What a retry costs, and
  which of two late callbacks is the truth, depends on how the provider treats its
  references, which the repository does not state; the hazard is listed.
- **Quotas of storage and email.** A check and a count in two transactions with
  an upload or a send between. The hazard is listed; a model would say that n
  overlapping uploads exceed the quota by n.
- **Tenants but for `SetActive`, accounts, passwords and reset tokens.** One or
  two transactions per operation, without a second actor, but for the reset token
  that two requests may use (listed).
- **Catalogue, customers, editorial content, feature flags, payment credentials.**
  One statement per operation. Their browser side, where operations do
  interleave, is in `Screens`; two operators who edit one row overwrite each other
  (the last save wins), as a `PUT` says.
- **Orders' items, totals, `Update`.** They do not meet the status but through one
  guarded `UPDATE`.
- **The rate limiter** (a library's token bucket in each process) and the
  **traffic log** (nothing reads it but statistics).
- **Cryptography** of signatures and stored secrets: its result, valid or not, is
  the guard of the handlers modelled. **Prices** in floating point: TLC has
  integers.
- **The landing site, the public pages of mahu-web, the video and image tools,
  the SEO files**: they display or format, and keep no state of the platform. Of
  the dashboards, the exports, the text editor and the confirmation dialogs.

What would come next, should the code grow that way: a composition of
`Subscription` and `Session` (who may still pay when suspended), once the API has a
route for it; and the payouts, once the provider's contract is in the repository.
