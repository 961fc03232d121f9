---------------------------- MODULE Subscription ----------------------------
(***************************************************************************)
(* A tenant's own subscription: internal/subscription, the handlers and    *)
(* the daily job that drive it, and tenant.Service.SetActive, which shares *)
(* tenants.is_active with it.  Tenants do not meet in this code, so there  *)
(* is one.                                                                 *)
(*                                                                         *)
(* An action is one WithSystem transaction or one call to the payment      *)
(* provider.  markPaid and markFailed lock the invoice's row in their      *)
(* first statement, so each is one action.  Time counts days; a day is     *)
(* the period of the job.                                                  *)
(***************************************************************************)
EXTENDS Integers

CONSTANTS
  Invoices,   \* invoices that will ever be asked for (bounds a run)
  Callbacks,  \* callbacks that will ever be delivered (bounds a run)
  Operators,  \* super-admins who may set the first price at the same time
  MaxTime,    \* the last day (bounds a run)
  Grace,      \* gracePeriod, in days
  Month       \* a billing period, in days

ASSUME SubscriptionAssumption ==
  /\ MaxTime \in Nat
  /\ Grace \in Nat \ {0}
  /\ Month \in Nat \ {0}

NULL == -1

VARIABLES
  now,
  priced,        \* subscription_price_fcfa IS NOT NULL
  status,        \* tenants.subscription_status
  nextBilling,   \* tenants.next_billing_at
  pastDueSince,  \* tenants.past_due_since
  isActive,      \* tenants.is_active
  row,           \* row[i]: subscription_payments.status, or "none"
  periodStart,   \* periodStart[i]: as CreateInvoice computed it
  provider,      \* provider[i]: the provider's record for the app_ref
  invoicePc,     \* the CreateInvoice call for i
  pc, invoice,   \* the callbacks being handled, and the invoice of each
  pricing,       \* operators whose SetPrice has read "no price yet"
  settledOn,     \* history: day of the last markPaid or first price
  frozen         \* history: the last SetActive suspended the tenant

tenantVars == <<priced, status, nextBilling, pastDueSince, isActive>>
invoiceVars == <<row, periodStart, provider, invoicePc>>
callbackVars == <<pc, invoice>>
historyVars == <<settledOn, frozen>>
vars == <<now, tenantVars, invoiceVars, callbackVars, pricing, historyVars>>

Statuses == {"inactive", "active", "past_due", "cancelled"}
RowStatuses == {"none", "pending", "paid", "failed"}
ProviderStatuses == {"absent", "pending", "processing", "completed", "failed", "cancelled"}
Days == 0..MaxTime

TypeOK ==
  /\ now \in Days
  /\ priced \in BOOLEAN /\ isActive \in BOOLEAN /\ frozen \in BOOLEAN
  /\ status \in Statuses
  /\ nextBilling \in Int
  /\ pastDueSince \in Days \cup {NULL} /\ settledOn \in Days \cup {NULL}
  /\ row \in [Invoices -> RowStatuses]
  /\ periodStart \in [Invoices -> Days \cup {NULL}]
  /\ provider \in [Invoices -> ProviderStatuses]
  /\ invoicePc \in [Invoices -> {"idle", "create_payment", "insert", "done"}]
  /\ pc \in [Callbacks -> {"idle", "get_payment", "mark_paid", "mark_failed", "done"}]
  /\ invoice \in [Callbacks -> Invoices \cup {"none"}]
  /\ pricing \subseteq Operators

Init ==
  /\ now = 0
  /\ priced = FALSE /\ status = "inactive" /\ isActive = TRUE
  /\ nextBilling = NULL /\ pastDueSince = NULL
  /\ row = [i \in Invoices |-> "none"]
  /\ periodStart = [i \in Invoices |-> NULL]
  /\ provider = [i \in Invoices |-> "absent"]
  /\ invoicePc = [i \in Invoices |-> "idle"]
  /\ pc = [c \in Callbacks |-> "idle"]
  /\ invoice = [c \in Callbacks |-> "none"]
  /\ pricing = {}
  /\ settledOn = NULL /\ frozen = FALSE

-----------------------------------------------------------------------------
(* The super-admin *)

\* SetPrice reads whether the tenant has a price, without a lock.  For one
\* that has, only the amount changes, which nothing here depends on.
SetPrice(a) ==
  /\ a \notin pricing
  /\ ~ priced
  /\ pricing' = pricing \cup {a}
  /\ UNCHANGED <<now, tenantVars, invoiceVars, callbackVars, historyVars>>

\* SetPrice's UPDATE for a tenant it saw without a price: it does not look
\* whether another operator has set one meanwhile.
ActivateSubscription(a) ==
  /\ a \in pricing
  /\ pricing' = pricing \ {a}
  /\ priced' = TRUE /\ status' = "active"
  /\ nextBilling' = now + Month
  /\ pastDueSince' = NULL
  /\ settledOn' = now
  /\ UNCHANGED <<now, isActive, invoiceVars, callbackVars, frozen>>

\* tenant.Service.SetActive.
SetActive(active) ==
  /\ isActive' = active
  /\ frozen' = ~ active
  /\ UNCHANGED <<now, priced, status, nextBilling, pastDueSince, invoiceVars,
                 callbackVars, pricing, settledOn>>

-----------------------------------------------------------------------------
(* CreateInvoice *)

\* POST /subscription/invoice: staffAuth refuses a suspended tenant; the price
\* is read and the period computed from the clock.
CreateInvoice(i) ==
  /\ invoicePc[i] = "idle"
  /\ isActive /\ priced
  /\ periodStart' = [periodStart EXCEPT ![i] = now]
  /\ invoicePc' = [invoicePc EXCEPT ![i] = "create_payment"]
  /\ UNCHANGED <<now, tenantVars, row, provider, callbackVars, pricing, historyVars>>

\* The provider opens a payment for the invoice's own app_ref.
CreatePayment(i) ==
  /\ invoicePc[i] = "create_payment"
  /\ provider' = [provider EXCEPT ![i] = "pending"]
  /\ invoicePc' = [invoicePc EXCEPT ![i] = "insert"]
  /\ UNCHANGED <<now, tenantVars, row, periodStart, callbackVars, pricing, historyVars>>

InsertInvoice(i) ==
  /\ invoicePc[i] = "insert"
  /\ row' = [row EXCEPT ![i] = "pending"]
  /\ invoicePc' = [invoicePc EXCEPT ![i] = "done"]
  /\ UNCHANGED <<now, tenantVars, periodStart, provider, callbackVars, pricing, historyVars>>

\* The call fails or its process dies: the provider may keep a payment that
\* no row records.
LoseInvoice(i) ==
  /\ invoicePc[i] \in {"create_payment", "insert"}
  /\ invoicePc' = [invoicePc EXCEPT ![i] = "done"]
  /\ UNCHANGED <<now, tenantVars, row, periodStart, provider, callbackVars, pricing, historyVars>>

-----------------------------------------------------------------------------
(* POST /webhooks/abmcy-subscription *)

GoTo(c, step) == pc' = [pc EXCEPT ![c] = step]

\* A signed callback arrives: late, repeated, or never.
HandleWebhook(c, i) ==
  /\ pc[c] = "idle"
  /\ provider[i] # "absent"
  /\ GoTo(c, "get_payment")
  /\ invoice' = [invoice EXCEPT ![c] = i]
  /\ UNCHANGED <<now, tenantVars, invoiceVars, pricing, historyVars>>

\* Wrong forms of Verdict: the provider's word taken as it is; whatever is not
\* completed has failed; whatever has not failed is paid.
WrongStored(s) == s
WrongNotCompleted(s) == IF s = "completed" THEN "mark_paid" ELSE "mark_failed"
WrongNotFailed(s) == IF s \in {"failed", "cancelled"} THEN "mark_failed" ELSE "mark_paid"

\* HandleWebhook's switch: what to do for the provider's status s.
Verdict(s) ==
  IF s = "completed" THEN "mark_paid"
  ELSE IF s \in {"failed", "cancelled"} THEN "mark_failed"
  ELSE "done"

\* GET /v1/payments/{app_ref}, and the switch on its answer.
GetPayment(c) ==
  /\ pc[c] = "get_payment"
  /\ GoTo(c, Verdict(provider[invoice[c]]))
  /\ UNCHANGED <<now, tenantVars, invoiceVars, invoice, pricing, historyVars>>

\* Wrong forms of Reinstated: the tenant's mark is kept; a suspended tenant is
\* not let back in.
WrongKeepsMark == pastDueSince' = pastDueSince /\ isActive' = TRUE
WrongKeepsSuspended == pastDueSince' = NULL /\ isActive' = isActive

\* markPaid's UPDATE tenants: no longer past due, and active again, whoever
\* suspended it.
Reinstated == pastDueSince' = NULL /\ isActive' = TRUE

\* markPaid.  An invoice already paid, or not inserted yet, has no row to
\* update and is an error to the caller: Reject.
MarkPaid(c) ==
  LET i == invoice[c] IN
  /\ pc[c] = "mark_paid"
  /\ row[i] \in {"pending", "failed"}
  /\ row' = [row EXCEPT ![i] = "paid"]
  /\ status' = "active"
  /\ nextBilling' = periodStart[i] + Month
  /\ Reinstated
  /\ settledOn' = now
  /\ GoTo(c, "done")
  /\ UNCHANGED <<now, priced, periodStart, provider, invoicePc, invoice, pricing, frozen>>

\* Wrong form of PastDueMark: the mark is left to the daily job.
WrongUnmarked == pastDueSince

\* COALESCE(past_due_since, now()).
PastDueMark == IF pastDueSince = NULL THEN now ELSE pastDueSince

\* markFailed: any row with the reference, whatever its status.
MarkFailed(c) ==
  LET i == invoice[c] IN
  /\ pc[c] = "mark_failed"
  /\ row[i] # "none"
  /\ row' = [row EXCEPT ![i] = "failed"]
  /\ status' = "past_due"
  /\ pastDueSince' = PastDueMark
  /\ GoTo(c, "done")
  /\ UNCHANGED <<now, priced, nextBilling, isActive, periodStart, provider, invoicePc,
                 invoice, pricing, historyVars>>

\* No row to update, or the request fails or its process dies: the provider
\* gets an error, or no answer.
Reject(c) ==
  /\ pc[c] \in {"get_payment", "mark_paid", "mark_failed"}
  /\ GoTo(c, "done")
  /\ UNCHANGED <<now, tenantVars, invoiceVars, invoice, pricing, historyVars>>

-----------------------------------------------------------------------------
(* The daily job, the provider and the clock *)

\* Enforce's test of past_due_since.
GraceIsOver == pastDueSince # NULL /\ pastDueSince + Grace < now

\* Wrong form of Enforce: the status alone is changed.
WrongStatusOnly ==
  /\ status = "past_due" /\ isActive /\ GraceIsOver
  /\ status' = "cancelled"
  /\ UNCHANGED <<now, priced, nextBilling, pastDueSince, isActive, invoiceVars, callbackVars,
                 pricing, historyVars>>

\* Enforce, run by every replica.
Enforce ==
  /\ status = "past_due" /\ isActive /\ GraceIsOver
  /\ isActive' = FALSE /\ status' = "cancelled"
  /\ UNCHANGED <<now, priced, nextBilling, pastDueSince, invoiceVars, callbackVars,
                 pricing, historyVars>>

\* The payment moves on at the provider's; its final statuses stay.
ProviderAdvance(i) ==
  /\ \/ provider[i] = "pending" /\ provider' = [provider EXCEPT ![i] = "processing"]
     \/ /\ provider[i] \in {"pending", "processing"}
        /\ \E end \in {"completed", "failed", "cancelled"} :
             provider' = [provider EXCEPT ![i] = end]
  /\ UNCHANGED <<now, tenantVars, row, periodStart, invoicePc, callbackVars, pricing, historyVars>>

\* SetPrice's two statements follow each other in one transaction: no day is
\* taken to pass between them.
NextDay ==
  /\ now < MaxTime
  /\ pricing = {}
  /\ now' = now + 1
  /\ UNCHANGED <<tenantVars, invoiceVars, callbackVars, pricing, historyVars>>

-----------------------------------------------------------------------------

Next ==
  \/ \E a \in Operators : SetPrice(a) \/ ActivateSubscription(a)
  \/ \E active \in BOOLEAN : SetActive(active)
  \/ \E i \in Invoices :
       \/ CreateInvoice(i) \/ CreatePayment(i) \/ InsertInvoice(i) \/ LoseInvoice(i)
       \/ ProviderAdvance(i)
  \/ \E c \in Callbacks :
       \/ \E i \in Invoices : HandleWebhook(c, i)
       \/ GetPayment(c) \/ MarkPaid(c) \/ MarkFailed(c) \/ Reject(c)
  \/ Enforce
  \/ NextDay

\* The job's ticker fires every day on every replica that is up.
Fairness == WF_vars(Enforce)

Spec == Init /\ [][Next]_vars /\ Fairness

-----------------------------------------------------------------------------
(* Properties *)

\* An invoice is recorded as paid only for money the provider has collected,
\* however late the callback and the answer that markPaid acts on.
PaidIsPaid ==
  \A i \in Invoices : row[i] = "paid" => provider[i] = "completed"

\* A paid invoice stays paid: no late or repeated callback takes it back,
\* although markFailed does not look at the status it overwrites.
PaidStaysPaid ==
  [][\A i \in Invoices : row[i] = "paid" => row'[i] = "paid"]_vars

\* subscription_status and past_due_since, which four transactions write
\* separately, agree: the mark is set exactly while the tenant owes money.
MarkFollowsStatus ==
  pastDueSince # NULL <=> status \in {"past_due", "cancelled"}

\* The grace period is whole: the job suspends a tenant only when more than
\* Grace days have gone since its last payment or its activation, however many
\* invoices failed, were paid or were retried in between.
GraceIsWhole ==
  [][(status # "cancelled" /\ status' = "cancelled") =>
       settledOn # NULL /\ settledOn + Grace < now]_vars

\* A tenant is locked out only by the super-admin's decision or while it owes
\* money: a payment, whichever invoice it was for, lets it back in.
LockedOutForAReason == ~ isActive => frozen \/ pastDueSince # NULL

\* A tenant past due beyond its grace period is suspended in the end, unless
\* it pays or the super-admin decides otherwise.
Overdue == status = "past_due" /\ isActive /\ pastDueSince + Grace < now
OverdueIsSuspended == Overdue ~> ~ isActive \/ status = "active"

=============================================================================
