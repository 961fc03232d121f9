---------------------------- MODULE OrderPayment ----------------------------
(***************************************************************************)
(* Orders and their payment: internal/order, internal/payment and the HTTP *)
(* handlers that drive them, for the orders of one tenant (row-level       *)
(* security keeps the tenants apart).                                      *)
(*                                                                         *)
(* Every closure given to db.WithTenant is one READ COMMITTED transaction. *)
(* An action is one transaction, or one call to the payment provider, so   *)
(* that requests served by the two API replicas interleave exactly where   *)
(* they do in the program.  The one transaction that is two actions is the *)
(* SELECT then UPDATE of applyStatus: the SELECT takes no lock, so another *)
(* request may commit between the two statements.                          *)
(*                                                                         *)
(* A request runs once.  One that fails on its way, because the process    *)
(* dies, the context is cancelled, the database or the provider answers    *)
(* with an error, stops where it is: its open transaction is rolled back,  *)
(* what it committed before stays.                                         *)
(***************************************************************************)
EXTENDS FiniteSets, Naturals

CONSTANTS
  Orders,         \* order identifiers; an order's id is also its app_ref
  Requests,       \* HTTP requests that will ever be served (bounds a run)
  MaxInFlight,    \* requests that may be in progress at once (bounds a run)
  StaffStatuses   \* the statuses staff may pick in this instance

ValidStatuses ==
  {"pending", "confirmed", "paid", "in_progress", "shipped", "delivered", "cancelled"}

ASSUME OrderPaymentAssumption ==
  /\ StaffStatuses \subseteq ValidStatuses
  /\ MaxInFlight \in Nat \ {0}

VARIABLES
  orderStatus,    \* orders.status, or "absent" before the order is created
  trail,          \* statuses recorded for the order in order_status_history
  confirmations,  \* requests whose UpdateStatus(..., "paid", ...) committed
  payments,       \* payments[o][r]: status of the row that request r inserted
  provider,       \* the provider's record for the order's app_ref
  mailed,         \* requests that sent the "Paiement confirme" email
  delivered,      \* orders whose download links were handed out
  pc, kind, target, answer, prev   \* the requests and their local variables

dbVars == <<orderStatus, trail, confirmations, payments>>
requestVars == <<pc, kind, target, answer, prev>>
vars == <<dbVars, provider, mailed, delivered, requestVars>>

PaymentStatuses == {"initiated", "success", "failed"}
ProviderStatuses == {"absent", "pending", "processing", "completed", "failed", "cancelled"}
Kinds == {"init", "webhook", "reconcile"}
Steps == {"idle", "create_payment", "record_payment", "get_payment", "select_row",
          "update_row", "update_status", "notify", "ok", "error", "unconfirmed"}
Finished == {"idle", "ok", "error", "unconfirmed"}

TypeOK ==
  /\ orderStatus \in [Orders -> ValidStatuses \cup {"absent"}]
  /\ trail \in [Orders -> SUBSET ValidStatuses]
  /\ confirmations \in [Orders -> SUBSET Requests]
  /\ payments \in [Orders -> [Requests -> PaymentStatuses \cup {"none"}]]
  /\ provider \in [Orders -> ProviderStatuses]
  /\ mailed \in [Orders -> SUBSET Requests]
  /\ delivered \subseteq Orders
  /\ pc \in [Requests -> Steps]
  /\ kind \in [Requests -> Kinds \cup {"none"}]
  /\ target \in [Requests -> Orders \cup {"none"}]
  /\ answer \in [Requests -> ProviderStatuses]
  /\ prev \in [Requests -> PaymentStatuses \cup {"none"}]

Init ==
  /\ orderStatus = [o \in Orders |-> "absent"]
  /\ trail = [o \in Orders |-> {}]
  /\ confirmations = [o \in Orders |-> {}]
  /\ payments = [o \in Orders |-> [r \in Requests |-> "none"]]
  /\ provider = [o \in Orders |-> "absent"]
  /\ mailed = [o \in Orders |-> {}]
  /\ delivered = {}
  /\ pc = [r \in Requests |-> "idle"]
  /\ kind = [r \in Requests |-> "none"]
  /\ target = [r \in Requests |-> "none"]
  /\ answer = [r \in Requests |-> "absent"]
  /\ prev = [r \in Requests |-> "none"]

-----------------------------------------------------------------------------
(* Helpers *)

\* Statuses of the payments rows that carry the order's app_ref.  Nothing in
\* the schema makes provider_ref unique: there may be several.
RowStatuses(o) == {payments[o][r] : r \in Requests} \ {"none"}

\* Wrong forms of NewStatus: the provider's status stored as it is; a payment
\* being processed taken for a payment made.
WrongStored(coreStatus) == coreStatus
WrongProcessing(coreStatus) ==
  IF coreStatus \in {"processing", "completed"} THEN "success"
  ELSE IF coreStatus \in {"failed", "cancelled"} THEN "failed"
  ELSE "initiated"

\* applyStatus's mapping of a provider status onto payments.status.
NewStatus(coreStatus) ==
  IF coreStatus = "completed" THEN "success"
  ELSE IF coreStatus \in {"failed", "cancelled"} THEN "failed"
  ELSE "initiated"

\* UPDATE payments SET status WHERE provider_ref = app_ref: every such row.
SetRows(o, status) ==
  [payments EXCEPT ![o] = [r \in Requests |-> IF @[r] = "none" THEN "none" ELSE status]]

\* Wrong forms of Confirms: without the test for a replay; only for a payment
\* that had not failed before.
WrongReplay(r) == NewStatus(answer[r]) = "success"
WrongFirstTry(r) == NewStatus(answer[r]) = "success" /\ prev[r] = "initiated"

\* applyStatus's two early returns: only a row that turns to "success" from
\* something else leads to orders.UpdateStatus.
Confirms(r) == NewStatus(answer[r]) = "success" /\ prev[r] # "success"

InFlight == {r \in Requests : pc[r] \notin Finished}

GoTo(r, step) == pc' = [pc EXCEPT ![r] = step]

\* Request r arrives, of kind k, about order o.
Begin(r, k, o, step) ==
  /\ pc[r] = "idle"
  /\ Cardinality(InFlight) < MaxInFlight
  /\ GoTo(r, step)
  /\ kind' = [kind EXCEPT ![r] = k]
  /\ target' = [target EXCEPT ![r] = o]
  /\ UNCHANGED <<dbVars, provider, mailed, delivered, answer, prev>>

-----------------------------------------------------------------------------
(* Orders *)

\* order.Service.Create: the order and its first history row, one transaction.
CreateOrder(o) ==
  /\ orderStatus[o] = "absent"
  /\ orderStatus' = [orderStatus EXCEPT ![o] = "pending"]
  /\ trail' = [trail EXCEPT ![o] = @ \cup {"pending"}]
  /\ UNCHANGED <<confirmations, payments, provider, mailed, delivered, requestVars>>

\* order.Service.SetStatus, from the tenant dashboard: any valid status, from
\* any status, with its history row in the same transaction.
SetStatus(o, status) ==
  /\ orderStatus[o] # "absent"
  /\ orderStatus' = [orderStatus EXCEPT ![o] = status]
  /\ trail' = [trail EXCEPT ![o] = @ \cup {status}]
  /\ UNCHANGED <<confirmations, payments, provider, mailed, delivered, requestVars>>

\* Wrong form of OrderDelivery: any order past "pending" counts as paid.
WrongPastPending(o) ==
  /\ orderStatus[o] \notin {"absent", "pending"}
  /\ delivered' = delivered \cup {o}
  /\ UNCHANGED <<dbVars, provider, mailed, requestVars>>

\* handleOrderDelivery and handleCustomerOrderDelivery: links are signed only
\* when the order that was read is "paid"; a refusal changes nothing.
OrderDelivery(o) ==
  /\ orderStatus[o] = "paid"
  /\ delivered' = delivered \cup {o}
  /\ UNCHANGED <<dbVars, provider, mailed, requestVars>>

-----------------------------------------------------------------------------
(* POST /payments/init *)

\* The order is read.  Its status is not looked at: an order may be initiated
\* again, at any time.
InitiateForOrder(r, o) ==
  /\ orderStatus[o] # "absent"
  /\ Begin(r, "init", o, "create_payment")

\* POST /v1/pay.  For an app_ref the provider already knows, it either returns
\* the payment it has or, when that one did not succeed, opens a new attempt.
CreatePayment(r) ==
  LET o == target[r] IN
  /\ pc[r] = "create_payment"
  /\ \/ /\ provider[o] \in {"absent", "failed", "cancelled"}
        /\ provider' = [provider EXCEPT ![o] = "pending"]
     \/ /\ provider[o] # "absent"
        /\ UNCHANGED provider
  /\ GoTo(r, "record_payment")
  /\ UNCHANGED <<dbVars, mailed, delivered, kind, target, answer, prev>>

\* INSERT INTO payments ... ON CONFLICT DO NOTHING, in a schema where no
\* constraint can conflict: every call inserts its own row.
RecordPayment(r) ==
  LET o == target[r] IN
  /\ pc[r] = "record_payment"
  /\ payments' = [payments EXCEPT ![o][r] = "initiated"]
  /\ GoTo(r, "ok")
  /\ UNCHANGED <<orderStatus, trail, confirmations, provider, mailed, delivered,
                 kind, target, answer, prev>>

-----------------------------------------------------------------------------
(* POST /webhooks/abmcy/{tenantSlug} and Reconcile *)

\* A signed callback arrives.  Callbacks may be lost, late or repeated, and
\* the handler ignores the status in the body: only the app_ref counts.
HandleWebhook(r, o) ==
  /\ provider[o] # "absent"
  /\ Begin(r, "webhook", o, "get_payment")

Reconcile(r, o) ==
  /\ orderStatus[o] # "absent"
  /\ Begin(r, "reconcile", o, "get_payment")

\* Wrong form of GetPayment: a callback is taken to mean a payment made.
WrongTrusting(r) ==
  /\ pc[r] = "get_payment"
  /\ answer' = [answer EXCEPT ![r] =
                 IF kind[r] = "webhook" THEN "completed" ELSE provider[target[r]]]
  /\ GoTo(r, "select_row")
  /\ UNCHANGED <<dbVars, provider, mailed, delivered, kind, target, prev>>

\* GET /v1/payments/{app_ref}: an error for an app_ref the provider lacks.
GetPayment(r) ==
  /\ pc[r] = "get_payment"
  /\ provider[target[r]] # "absent"
  /\ answer' = [answer EXCEPT ![r] = provider[target[r]]]
  /\ GoTo(r, "select_row")
  /\ UNCHANGED <<dbVars, provider, mailed, delivered, kind, target, prev>>

\* Wrong form of SelectRow: a row that reads "failed" is left as it is.
WrongFinal(r) ==
  /\ pc[r] = "select_row"
  /\ \E status \in RowStatuses(target[r]) :
       /\ prev' = [prev EXCEPT ![r] = status]
       /\ GoTo(r, IF status = "failed" THEN "ok" ELSE "update_row")
  /\ UNCHANGED <<dbVars, provider, mailed, delivered, kind, target, answer>>

\* applyStatus, SELECT status FROM payments: the first row found, no lock
\* taken.  Without a row the request fails (Abort).
SelectRow(r) ==
  /\ pc[r] = "select_row"
  /\ \E status \in RowStatuses(target[r]) : prev' = [prev EXCEPT ![r] = status]
  /\ GoTo(r, "update_row")
  /\ UNCHANGED <<dbVars, provider, mailed, delivered, kind, target, answer>>

\* applyStatus, UPDATE payments and commit, then the two early returns.
UpdateRow(r) ==
  /\ pc[r] = "update_row"
  /\ payments' = SetRows(target[r], NewStatus(answer[r]))
  /\ GoTo(r, IF Confirms(r) THEN "update_status" ELSE "ok")
  /\ UNCHANGED <<orderStatus, trail, confirmations, provider, mailed, delivered,
                 kind, target, answer, prev>>

\* order.Service.UpdateStatus(..., "paid", ...), a transaction of its own: the
\* order's present status is not looked at.
UpdateStatus(r) ==
  LET o == target[r] IN
  /\ pc[r] = "update_status"
  /\ orderStatus' = [orderStatus EXCEPT ![o] = "paid"]
  /\ trail' = [trail EXCEPT ![o] = @ \cup {"paid"}]
  /\ confirmations' = [confirmations EXCEPT ![o] = @ \cup {r}]
  /\ GoTo(r, IF kind[r] = "webhook" THEN "notify" ELSE "ok")
  /\ UNCHANGED <<payments, provider, mailed, delivered, kind, target, answer, prev>>

\* justPaid: the order is read again and the email sent, with download links.
\* The status read is not looked at.
SendDeliveryEmail(r) ==
  LET o == target[r] IN
  /\ pc[r] = "notify"
  /\ mailed' = [mailed EXCEPT ![o] = @ \cup {r}]
  /\ delivered' = delivered \cup {o}
  /\ GoTo(r, "ok")
  /\ UNCHANGED <<dbVars, provider, kind, target, answer, prev>>

\* No customer email, Resend not configured or quota exhausted: logged at
\* most, and the callback is still answered 200.
SkipDeliveryEmail(r) ==
  /\ pc[r] = "notify"
  /\ GoTo(r, "ok")
  /\ UNCHANGED <<dbVars, provider, mailed, delivered, kind, target, answer, prev>>

-----------------------------------------------------------------------------
(* Failures, and the provider *)

\* A request fails, or its process dies, at any point but the next one.
Abort(r) ==
  /\ pc[r] \in Steps \ (Finished \cup {"update_status"})
  /\ GoTo(r, "error")
  /\ UNCHANGED <<dbVars, provider, mailed, delivered, kind, target, answer, prev>>

\* Wrong form of FailUpdateStatus: the error is dropped and justPaid returned.
WrongJustPaid(r) ==
  /\ pc[r] = "update_status"
  /\ GoTo(r, "notify")
  /\ UNCHANGED <<dbVars, provider, mailed, delivered, kind, target, answer, prev>>

\* The request fails between applyStatus's two transactions: the payments row
\* is committed, orders.UpdateStatus is not.
FailUpdateStatus(r) ==
  /\ pc[r] = "update_status"
  /\ GoTo(r, "unconfirmed")
  /\ UNCHANGED <<dbVars, provider, mailed, delivered, kind, target, answer, prev>>

\* The payment moves on at the provider's.  "completed" is final.
ProviderAdvance(o) ==
  /\ \/ /\ provider[o] = "pending"
        /\ provider' = [provider EXCEPT ![o] = "processing"]
     \/ /\ provider[o] \in {"pending", "processing"}
        /\ \E end \in {"completed", "failed", "cancelled"} :
             provider' = [provider EXCEPT ![o] = end]
  /\ UNCHANGED <<dbVars, mailed, delivered, requestVars>>

-----------------------------------------------------------------------------

Arrival(r) ==
  \E o \in Orders : InitiateForOrder(r, o) \/ HandleWebhook(r, o) \/ Reconcile(r, o)

Serve(r) ==
  \/ CreatePayment(r) \/ RecordPayment(r)
  \/ GetPayment(r) \/ SelectRow(r) \/ UpdateRow(r) \/ UpdateStatus(r)
  \/ SendDeliveryEmail(r) \/ SkipDeliveryEmail(r)
  \/ Abort(r) \/ FailUpdateStatus(r)

Next ==
  \/ \E o \in Orders : CreateOrder(o) \/ OrderDelivery(o) \/ ProviderAdvance(o)
  \/ \E o \in Orders, status \in StaffStatuses : SetStatus(o, status)
  \/ \E r \in Requests : Arrival(r) \/ Serve(r)

Spec == Init /\ [][Next]_vars

-----------------------------------------------------------------------------
(* Properties *)

\* No false payment: a payments row reads "success", and the payment path
\* moves an order to "paid", only for money the provider has collected,
\* however late or out of order the callbacks and the provider's answers are.
PaidOnlyIfCollected ==
  \A o \in Orders :
    (confirmations[o] # {} \/ "success" \in RowStatuses(o)) => provider[o] = "completed"

\* A request about order o is between applyStatus's two transactions, or was
\* lost there.
BetweenTransactions(o) ==
  \E r \in Requests : target[r] = o /\ pc[r] \in {"update_status", "unconfirmed"}

\* No confirmation is lost anywhere but in the one gap the code has: an order
\* with a "success" payment has been confirmed, or some request sits, or died,
\* between the transaction that wrote "success" and orders.UpdateStatus.
SuccessIsAccountedFor ==
  \A o \in Orders :
    "success" \in RowStatuses(o) => confirmations[o] # {} \/ BetweenTransactions(o)

\* The same for the provider's view: a callback answered 200 after the
\* provider said "completed" leaves the order confirmed, or that gap open.
AcknowledgedIsAccountedFor ==
  \A r \in Requests :
    (pc[r] = "ok" /\ kind[r] # "init" /\ answer[r] = "completed") =>
      confirmations[target[r]] # {} \/ BetweenTransactions(target[r])

\* The customer is told "Paiement confirme" only by a request that has itself
\* committed the order's move to "paid", once per such request.
MailFollowsConfirmation ==
  \A o \in Orders : mailed[o] \subseteq confirmations[o]

\* Download links go out only for an order that was "paid" at some time,
\* whether they were fetched or came with the email.
DeliveryFollowsPaid ==
  \A o \in delivered : "paid" \in trail[o]

\* Nothing is given away by the machine: unless staff themselves set 'paid', an
\* order reads 'paid', and its links are handed out, only for money collected.
GivenForMoney ==
  "paid" \notin StaffStatuses =>
    \A o \in Orders : orderStatus[o] = "paid" \/ o \in delivered => provider[o] = "completed"

\* An order is settled once every payments row reads "success" and no request
\* still holds something older it could write or act on.
Settled(o) ==
  /\ RowStatuses(o) = {"success"}
  /\ \A r \in Requests : target[r] = o =>
       /\ pc[r] \notin {"create_payment", "record_payment", "update_status"}
       /\ pc[r] = "select_row" => answer[r] = "completed"
       /\ pc[r] = "update_row" => answer[r] = "completed" /\ prev[r] = "success"

\* Replays are harmless on a settled order: no number of repeated callbacks or
\* reconciliations confirms it again, writes its status back to "paid" over
\* what staff set, or takes "success" away from its payments row; only a new
\* payment init unsettles it.
SettledIsQuiet ==
  [][\A o \in Orders : Settled(o) =>
       /\ confirmations'[o] = confirmations[o]
       /\ Settled(o)' \/ \E r \in Requests : InitiateForOrder(r, o)]_vars

\* The order's stage, as PaymentPromise sees it.
StageOf(o) ==
  IF mailed[o] # {} THEN "notified"
  ELSE IF confirmations[o] # {} THEN "confirmed"
  ELSE IF provider[o] = "completed" THEN "collected"
  ELSE "due"

Promise == INSTANCE PaymentPromise
             WITH stage <- [o \in Orders |-> StageOf(o)], status <- orderStatus

\* The component keeps PaymentPromise: collected for an order that exists, then
\* confirmed, then notified, one stage at a time and never back; and the order
\* turns 'paid' by a confirmation or by the staff's own hand, never otherwise.
KeepsPromise == Promise!Spec

-----------------------------------------------------------------------------
(* What the code's comments claim and the code does not do *)

\* internal/payment/service.go: HandleWebhook lets its caller "trigger a 'your
\* file is ready' email exactly once".
MailedAtMostOnce == \A o \in Orders : Cardinality(mailed[o]) <= 1

\* internal/payment/service.go: Reconcile is "the safety net for a lost
\* webhook. Safe to call repeatedly" - when one has succeeded on a completed
\* payment, with nothing else in progress, the order has been confirmed.
ReconcileRepairs ==
  \A r \in Requests :
    (pc[r] = "ok" /\ kind[r] = "reconcile" /\ answer[r] = "completed" /\ InFlight = {}) =>
      confirmations[target[r]] # {}

=============================================================================
