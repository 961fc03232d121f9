------------------------- MODULE Subscription_proofs -------------------------
(***************************************************************************)
(* Theorems about Subscription, for any sets of invoices, callbacks and    *)
(* operators, and any lengths of the grace and billing periods.            *)
(***************************************************************************)
EXTENDS Subscription, TLAPS

-----------------------------------------------------------------------------
(* The inductive invariant *)

\* A callback at work knows its invoice, and what it is about to write is what
\* the provider has said for good.
AnswersTrue ==
  \A c \in Callbacks :
    /\ pc[c] # "idle" => invoice[c] \in Invoices
    /\ pc[c] = "mark_paid" => provider[invoice[c]] = "completed"
    /\ pc[c] = "mark_failed" => provider[invoice[c]] \in {"failed", "cancelled"}

\* The provider is asked once for each invoice, before its row exists.
AskedOnce ==
  \A i \in Invoices :
    /\ invoicePc[i] \in {"idle", "create_payment"} => provider[i] = "absent"
    /\ row[i] # "none" => priced /\ invoicePc[i] = "done"
    /\ invoicePc[i] # "idle" => priced

\* The mark, when there is one, is from after the last settlement and not from
\* the future.
MarkIsFresh ==
  /\ priced => settledOn # NULL
  /\ settledOn <= now
  /\ pastDueSince # NULL => priced /\ settledOn <= pastDueSince /\ pastDueSince <= now

\* A first price that is being set, with another perhaps already set today,
\* finds a tenant that cannot have been suspended by the job.
PricingIsShort ==
  pricing # {} => (priced => settledOn = now) /\ (~ isActive => frozen)

IInv ==
  /\ TypeOK /\ AnswersTrue /\ AskedOnce /\ PaidIsPaid
  /\ MarkFollowsStatus /\ MarkIsFresh /\ LockedOutForAReason /\ PricingIsShort

\* IInv, with the types, holds in every reachable state, whatever is fair.
THEOREM InductiveSafe == Init /\ [][Next]_vars => []IInv
<1> USE SubscriptionAssumption
<1>1. Init => IInv
  <2>1. Init => TypeOK
    <3>1. 0 \in Days /\ NULL \in Int
      BY DEF Days, NULL
    <3>2. Init => priced \in BOOLEAN /\ isActive \in BOOLEAN /\ frozen \in BOOLEAN
      BY Zenon DEF Init
    <3>3. Init => /\ row \in [Invoices -> RowStatuses]
                  /\ periodStart \in [Invoices -> Days \cup {NULL}]
                  /\ provider \in [Invoices -> ProviderStatuses]
                  /\ invoicePc \in [Invoices -> {"idle", "create_payment", "insert", "done"}]
      BY DEF Init, RowStatuses, ProviderStatuses
    <3>4. Init => /\ pc \in [Callbacks -> {"idle", "get_payment", "mark_paid", "mark_failed", "done"}]
                  /\ invoice \in [Callbacks -> Invoices \cup {"none"}]
      BY DEF Init
    <3>5. Init => /\ now \in Days /\ status \in Statuses /\ nextBilling \in Int
                  /\ pastDueSince \in Days \cup {NULL} /\ settledOn \in Days \cup {NULL}
                  /\ pricing \subseteq Operators
      BY <3>1 DEF Init, Statuses
    <3> QED
      BY <3>2, <3>3, <3>4, <3>5, Zenon DEF TypeOK
  <2>2. Init => AnswersTrue /\ AskedOnce /\ PaidIsPaid
    BY DEF Init, AnswersTrue, AskedOnce, PaidIsPaid
  <2>3. Init => MarkFollowsStatus /\ MarkIsFresh /\ LockedOutForAReason /\ PricingIsShort
    BY DEF Init, MarkFollowsStatus, MarkIsFresh, LockedOutForAReason, PricingIsShort, NULL
  <2> QED
    BY <2>1, <2>2, <2>3 DEF IInv
<1>2. IInv /\ [Next]_vars => IInv'
  <2> SUFFICES ASSUME IInv, [Next]_vars
               PROVE  IInv'
    OBVIOUS
  <2> USE DEF IInv, NULL, Days, tenantVars, invoiceVars, callbackVars, historyVars
  <2>1. ASSUME NEW a \in Operators, SetPrice(a)
        PROVE  IInv'
    <3>1. TypeOK'
      BY <2>1 DEF SetPrice, TypeOK, AnswersTrue, Statuses, RowStatuses, ProviderStatuses
    <3>2. AnswersTrue' /\ AskedOnce' /\ PaidIsPaid'
      BY <2>1 DEF SetPrice, TypeOK, AnswersTrue, AskedOnce, PaidIsPaid, MarkIsFresh
    <3>3. MarkFollowsStatus' /\ MarkIsFresh' /\ LockedOutForAReason' /\ PricingIsShort'
      BY <2>1 DEF SetPrice, TypeOK, AnswersTrue, AskedOnce, MarkFollowsStatus, MarkIsFresh,
         LockedOutForAReason, PricingIsShort
    <3> QED
      BY <3>1, <3>2, <3>3
  <2>2. ASSUME NEW a \in Operators, ActivateSubscription(a)
        PROVE  IInv'
    <3>1. TypeOK'
      BY <2>2 DEF ActivateSubscription, TypeOK, AnswersTrue, Statuses, RowStatuses, ProviderStatuses
    <3>2. AnswersTrue' /\ AskedOnce' /\ PaidIsPaid'
      BY <2>2 DEF ActivateSubscription, TypeOK, AnswersTrue, AskedOnce, PaidIsPaid, MarkIsFresh
    <3>3. MarkFollowsStatus' /\ MarkIsFresh' /\ LockedOutForAReason' /\ PricingIsShort'
      BY <2>2 DEF ActivateSubscription, TypeOK, AnswersTrue, AskedOnce, MarkFollowsStatus, MarkIsFresh,
         LockedOutForAReason, PricingIsShort
    <3> QED
      BY <3>1, <3>2, <3>3
  <2>3. ASSUME NEW active \in BOOLEAN, SetActive(active)
        PROVE  IInv'
    <3>1. TypeOK'
      BY <2>3 DEF SetActive, TypeOK, AnswersTrue, Statuses, RowStatuses, ProviderStatuses
    <3>2. AnswersTrue' /\ AskedOnce' /\ PaidIsPaid'
      BY <2>3 DEF SetActive, TypeOK, AnswersTrue, AskedOnce, PaidIsPaid, MarkIsFresh
    <3>3. MarkFollowsStatus' /\ MarkIsFresh' /\ LockedOutForAReason' /\ PricingIsShort'
      BY <2>3 DEF SetActive, TypeOK, AnswersTrue, AskedOnce, MarkFollowsStatus, MarkIsFresh,
         LockedOutForAReason, PricingIsShort
    <3> QED
      BY <3>1, <3>2, <3>3
  <2>4. ASSUME NEW i \in Invoices, CreateInvoice(i)
        PROVE  IInv'
    <3>1. TypeOK'
      BY <2>4 DEF CreateInvoice, TypeOK, AnswersTrue, Statuses, RowStatuses, ProviderStatuses
    <3>2. AnswersTrue' /\ AskedOnce' /\ PaidIsPaid'
      BY <2>4 DEF CreateInvoice, TypeOK, AnswersTrue, AskedOnce, PaidIsPaid, MarkIsFresh
    <3>3. MarkFollowsStatus' /\ MarkIsFresh' /\ LockedOutForAReason' /\ PricingIsShort'
      BY <2>4 DEF CreateInvoice, TypeOK, AnswersTrue, AskedOnce, MarkFollowsStatus, MarkIsFresh,
         LockedOutForAReason, PricingIsShort
    <3> QED
      BY <3>1, <3>2, <3>3
  <2>5. ASSUME NEW i \in Invoices, CreatePayment(i)
        PROVE  IInv'
    <3>1. TypeOK'
      BY <2>5 DEF CreatePayment, TypeOK, AnswersTrue, Statuses, RowStatuses, ProviderStatuses
    <3>2. AnswersTrue' /\ AskedOnce' /\ PaidIsPaid'
      BY <2>5 DEF CreatePayment, TypeOK, AnswersTrue, AskedOnce, PaidIsPaid, MarkIsFresh
    <3>3. MarkFollowsStatus' /\ MarkIsFresh' /\ LockedOutForAReason' /\ PricingIsShort'
      BY <2>5 DEF CreatePayment, TypeOK, AnswersTrue, AskedOnce, MarkFollowsStatus, MarkIsFresh,
         LockedOutForAReason, PricingIsShort
    <3> QED
      BY <3>1, <3>2, <3>3
  <2>6. ASSUME NEW i \in Invoices, InsertInvoice(i)
        PROVE  IInv'
    <3>1. TypeOK'
      BY <2>6 DEF InsertInvoice, TypeOK, AnswersTrue, Statuses, RowStatuses, ProviderStatuses
    <3>2. AnswersTrue' /\ AskedOnce' /\ PaidIsPaid'
      BY <2>6 DEF InsertInvoice, TypeOK, AnswersTrue, AskedOnce, PaidIsPaid, MarkIsFresh
    <3>3. MarkFollowsStatus' /\ MarkIsFresh' /\ LockedOutForAReason' /\ PricingIsShort'
      BY <2>6 DEF InsertInvoice, TypeOK, AnswersTrue, AskedOnce, MarkFollowsStatus, MarkIsFresh,
         LockedOutForAReason, PricingIsShort
    <3> QED
      BY <3>1, <3>2, <3>3
  <2>7. ASSUME NEW i \in Invoices, LoseInvoice(i)
        PROVE  IInv'
    <3>1. TypeOK'
      BY <2>7 DEF LoseInvoice, TypeOK, AnswersTrue, Statuses, RowStatuses, ProviderStatuses
    <3>2. AnswersTrue' /\ AskedOnce' /\ PaidIsPaid'
      BY <2>7 DEF LoseInvoice, TypeOK, AnswersTrue, AskedOnce, PaidIsPaid, MarkIsFresh
    <3>3. MarkFollowsStatus' /\ MarkIsFresh' /\ LockedOutForAReason' /\ PricingIsShort'
      BY <2>7 DEF LoseInvoice, TypeOK, AnswersTrue, AskedOnce, MarkFollowsStatus, MarkIsFresh,
         LockedOutForAReason, PricingIsShort
    <3> QED
      BY <3>1, <3>2, <3>3
  <2>8. ASSUME NEW i \in Invoices, ProviderAdvance(i)
        PROVE  IInv'
    <3>1. TypeOK'
      BY <2>8 DEF ProviderAdvance, TypeOK, AnswersTrue, Statuses, RowStatuses, ProviderStatuses
    <3>2. AnswersTrue' /\ AskedOnce' /\ PaidIsPaid'
      BY <2>8 DEF ProviderAdvance, TypeOK, AnswersTrue, AskedOnce, PaidIsPaid, MarkIsFresh
    <3>3. MarkFollowsStatus' /\ MarkIsFresh' /\ LockedOutForAReason' /\ PricingIsShort'
      BY <2>8 DEF ProviderAdvance, TypeOK, AnswersTrue, AskedOnce, MarkFollowsStatus, MarkIsFresh,
         LockedOutForAReason, PricingIsShort
    <3> QED
      BY <3>1, <3>2, <3>3
  <2>9. ASSUME NEW c \in Callbacks, NEW i \in Invoices, HandleWebhook(c, i)
        PROVE  IInv'
    <3>1. TypeOK'
      BY <2>9 DEF HandleWebhook, GoTo, TypeOK, AnswersTrue, Statuses, RowStatuses, ProviderStatuses
    <3>2. AnswersTrue' /\ AskedOnce' /\ PaidIsPaid'
      BY <2>9 DEF HandleWebhook, GoTo, TypeOK, AnswersTrue, AskedOnce, PaidIsPaid, MarkIsFresh
    <3>3. MarkFollowsStatus' /\ MarkIsFresh' /\ LockedOutForAReason' /\ PricingIsShort'
      BY <2>9 DEF HandleWebhook, GoTo, TypeOK, AnswersTrue, AskedOnce, MarkFollowsStatus, MarkIsFresh,
         LockedOutForAReason, PricingIsShort
    <3> QED
      BY <3>1, <3>2, <3>3
  <2>10. ASSUME NEW c \in Callbacks, GetPayment(c)
        PROVE  IInv'
    <3>1. TypeOK'
      BY <2>10 DEF GetPayment, GoTo, Verdict, TypeOK, AnswersTrue, Statuses, RowStatuses, ProviderStatuses
    <3>2. AnswersTrue' /\ AskedOnce' /\ PaidIsPaid'
      BY <2>10 DEF GetPayment, GoTo, Verdict, TypeOK, AnswersTrue, AskedOnce, PaidIsPaid, MarkIsFresh
    <3>3. MarkFollowsStatus' /\ MarkIsFresh' /\ LockedOutForAReason' /\ PricingIsShort'
      BY <2>10 DEF GetPayment, GoTo, Verdict, TypeOK, AnswersTrue, AskedOnce, MarkFollowsStatus, MarkIsFresh,
         LockedOutForAReason, PricingIsShort
    <3> QED
      BY <3>1, <3>2, <3>3
  <2>11. ASSUME NEW c \in Callbacks, MarkPaid(c)
        PROVE  IInv'
    <3>1. TypeOK'
      BY <2>11 DEF MarkPaid, GoTo, Reinstated, TypeOK, AnswersTrue, Statuses, RowStatuses, ProviderStatuses
    <3>2. AnswersTrue' /\ AskedOnce' /\ PaidIsPaid'
      BY <2>11 DEF MarkPaid, GoTo, Reinstated, TypeOK, AnswersTrue, AskedOnce, PaidIsPaid, MarkIsFresh
    <3>3. MarkFollowsStatus' /\ MarkIsFresh' /\ LockedOutForAReason' /\ PricingIsShort'
      BY <2>11 DEF MarkPaid, GoTo, Reinstated, TypeOK, AnswersTrue, AskedOnce, MarkFollowsStatus, MarkIsFresh,
         LockedOutForAReason, PricingIsShort
    <3> QED
      BY <3>1, <3>2, <3>3
  <2>12. ASSUME NEW c \in Callbacks, MarkFailed(c)
        PROVE  IInv'
    <3>1. TypeOK'
      BY <2>12 DEF MarkFailed, GoTo, PastDueMark, TypeOK, AnswersTrue, Statuses, RowStatuses, ProviderStatuses
    <3>2. AnswersTrue' /\ AskedOnce' /\ PaidIsPaid'
      BY <2>12 DEF MarkFailed, GoTo, PastDueMark, TypeOK, AnswersTrue, AskedOnce, PaidIsPaid, MarkIsFresh
    <3>3. MarkFollowsStatus' /\ MarkIsFresh' /\ LockedOutForAReason' /\ PricingIsShort'
      BY <2>12 DEF MarkFailed, GoTo, PastDueMark, TypeOK, AnswersTrue, AskedOnce, MarkFollowsStatus, MarkIsFresh,
         LockedOutForAReason, PricingIsShort
    <3> QED
      BY <3>1, <3>2, <3>3
  <2>13. ASSUME NEW c \in Callbacks, Reject(c)
        PROVE  IInv'
    <3>1. TypeOK'
      BY <2>13 DEF Reject, GoTo, TypeOK, AnswersTrue, Statuses, RowStatuses, ProviderStatuses
    <3>2. AnswersTrue' /\ AskedOnce' /\ PaidIsPaid'
      BY <2>13 DEF Reject, GoTo, TypeOK, AnswersTrue, AskedOnce, PaidIsPaid, MarkIsFresh
    <3>3. MarkFollowsStatus' /\ MarkIsFresh' /\ LockedOutForAReason' /\ PricingIsShort'
      BY <2>13 DEF Reject, GoTo, TypeOK, AnswersTrue, AskedOnce, MarkFollowsStatus, MarkIsFresh,
         LockedOutForAReason, PricingIsShort
    <3> QED
      BY <3>1, <3>2, <3>3
  <2>14. ASSUME Enforce
        PROVE  IInv'
    <3>1. TypeOK'
      BY <2>14 DEF Enforce, GraceIsOver, TypeOK, AnswersTrue, Statuses, RowStatuses, ProviderStatuses
    <3>2. AnswersTrue' /\ AskedOnce' /\ PaidIsPaid'
      BY <2>14 DEF Enforce, GraceIsOver, TypeOK, AnswersTrue, AskedOnce, PaidIsPaid, MarkIsFresh
    <3>3. MarkFollowsStatus' /\ MarkIsFresh' /\ LockedOutForAReason' /\ PricingIsShort'
      BY <2>14 DEF Enforce, GraceIsOver, TypeOK, AnswersTrue, AskedOnce, MarkFollowsStatus, MarkIsFresh,
         LockedOutForAReason, PricingIsShort
    <3> QED
      BY <3>1, <3>2, <3>3
  <2>15. ASSUME NextDay
        PROVE  IInv'
    <3>1. TypeOK'
      BY <2>15 DEF NextDay, TypeOK, AnswersTrue, Statuses, RowStatuses, ProviderStatuses
    <3>2. AnswersTrue' /\ AskedOnce' /\ PaidIsPaid'
      BY <2>15 DEF NextDay, TypeOK, AnswersTrue, AskedOnce, PaidIsPaid, MarkIsFresh
    <3>3. MarkFollowsStatus' /\ MarkIsFresh' /\ LockedOutForAReason' /\ PricingIsShort'
      BY <2>15 DEF NextDay, TypeOK, AnswersTrue, AskedOnce, MarkFollowsStatus, MarkIsFresh,
         LockedOutForAReason, PricingIsShort
    <3> QED
      BY <3>1, <3>2, <3>3
  <2>16. CASE UNCHANGED vars
    BY <2>16 DEF vars, TypeOK, AnswersTrue, AskedOnce, PaidIsPaid, MarkFollowsStatus, MarkIsFresh,
       LockedOutForAReason, PricingIsShort
  <2> QED
    BY <2>1, <2>2, <2>3, <2>4, <2>5, <2>6, <2>7, <2>8, <2>9, <2>10,
       <2>11, <2>12, <2>13, <2>14, <2>15, <2>16 DEF Next
<1> QED
  BY <1>1, <1>2, PTL

THEOREM Inductive == Spec => []IInv
  BY InductiveSafe, PTL DEF Spec

-----------------------------------------------------------------------------
(* The properties *)

\* Every value stays in its set.
THEOREM TypeCorrect == Spec => []TypeOK
<1>1. IInv => TypeOK
  BY DEF IInv
<1> QED
  BY <1>1, Inductive, PTL

\* An invoice is recorded as paid only for money the provider has collected.
THEOREM PaidWasCollected == Spec => []PaidIsPaid
<1>1. IInv => PaidIsPaid
  BY DEF IInv
<1> QED
  BY <1>1, Inductive, PTL

\* The past-due mark and the status, written by four transactions, agree.
THEOREM BillingIsSound == Spec => []MarkFollowsStatus
<1>1. IInv => MarkFollowsStatus
  BY DEF IInv
<1> QED
  BY <1>1, Inductive, PTL

\* A tenant is locked out only by a decision, or while it owes money.
THEOREM LockoutHasAReason == Spec => []LockedOutForAReason
<1>1. IInv => LockedOutForAReason
  BY DEF IInv
<1> QED
  BY <1>1, Inductive, PTL

\* No callback, late or repeated, takes a payment back: what protects the row
\* is not markFailed, which overwrites any status, but the finality of the
\* provider's answers.
THEOREM PaymentsLast == Spec => PaidStaysPaid
<1> DEFINE Stays == \A i \in Invoices : row[i] = "paid" => row'[i] = "paid"
<1>1. IInv /\ [Next]_vars => Stays
  <2> SUFFICES ASSUME IInv, [Next]_vars
               PROVE  Stays
    OBVIOUS
  <2>1. \/ row' = row
        \/ \E i \in Invoices : InsertInvoice(i)
        \/ \E c \in Callbacks : MarkPaid(c) \/ MarkFailed(c)
    BY DEF Next, SetPrice, ActivateSubscription, SetActive, CreateInvoice, CreatePayment,
       LoseInvoice, ProviderAdvance, HandleWebhook, GetPayment, Reject, Enforce, NextDay,
       invoiceVars, vars
  <2>2. CASE row' = row
    BY <2>2
  <2>3. ASSUME NEW i \in Invoices, InsertInvoice(i)
        PROVE  Stays
    BY <2>3 DEF InsertInvoice, IInv, TypeOK, AskedOnce
  <2>4. ASSUME NEW c \in Callbacks, MarkPaid(c)
        PROVE  Stays
    BY <2>4 DEF MarkPaid, IInv, TypeOK
  <2>5. ASSUME NEW c \in Callbacks, MarkFailed(c)
        PROVE  Stays
    BY <2>5 DEF MarkFailed, IInv, TypeOK, AnswersTrue, PaidIsPaid
  <2> QED
    BY <2>1, <2>2, <2>3, <2>4, <2>5
<1> QED
  BY <1>1, Inductive, PTL DEF Spec, PaidStaysPaid

\* The grace period is never cut short: MarkIsFresh puts the mark that Enforce
\* reads after the last settlement.
THEOREM NoEarlySuspension == Spec => GraceIsWhole
<1> DEFINE Whole == status # "cancelled" /\ status' = "cancelled" =>
                      settledOn # NULL /\ settledOn + Grace < now
<1>1. IInv /\ [Next]_vars => Whole
  <2> SUFFICES ASSUME IInv, [Next]_vars, status # "cancelled", status' = "cancelled"
               PROVE  settledOn # NULL /\ settledOn + Grace < now
    OBVIOUS
  <2>1. Enforce
    BY DEF Next, SetPrice, ActivateSubscription, SetActive, CreateInvoice, CreatePayment,
       InsertInvoice, LoseInvoice, ProviderAdvance, HandleWebhook, GetPayment, MarkPaid,
       MarkFailed, Reject, NextDay, tenantVars, vars
  <2> QED
    BY <2>1, SubscriptionAssumption DEF Enforce, GraceIsOver, IInv, TypeOK, MarkIsFresh, Days, NULL
<1> QED
  BY <1>1, Inductive, PTL DEF Spec, GraceIsWhole

-----------------------------------------------------------------------------
(* Liveness.  Enforce is its guard and the assignment of isActive from TRUE to *)
(* FALSE, so it is enabled exactly where the guard holds; the prover has no    *)
(* rule for ENABLED, and the job's fairness is stated here with the guard.     *)

EnforceGuard == status = "past_due" /\ isActive /\ GraceIsOver

FairEnforce == []<>(~ EnforceGuard) \/ []<><<Enforce>>_vars

\* Until it is suspended or pays, a tenant overdue stays overdue: no invoice,
\* callback, refusal or further day takes it out of the job's reach.
LEMMA OverdueStays ==
  ASSUME IInv, Overdue, [Next]_vars
  PROVE  Overdue' \/ ~ isActive' \/ status' = "active"
<1> USE SubscriptionAssumption DEF IInv, TypeOK, MarkFollowsStatus, Overdue, Days, NULL
<1>1. \/ UNCHANGED <<now, status, pastDueSince>>
      \/ NextDay \/ Enforce
      \/ \E a \in Operators : ActivateSubscription(a)
      \/ \E c \in Callbacks : MarkPaid(c) \/ MarkFailed(c)
  BY DEF Next, SetPrice, SetActive, CreateInvoice, CreatePayment, InsertInvoice,
     LoseInvoice, ProviderAdvance, HandleWebhook, GetPayment, Reject, tenantVars, vars
<1>2. CASE UNCHANGED <<now, status, pastDueSince>>
  BY <1>2
<1>3. CASE NextDay
  BY <1>3 DEF NextDay, tenantVars
<1>4. CASE Enforce
  BY <1>4 DEF Enforce
<1>5. ASSUME NEW a \in Operators, ActivateSubscription(a)
      PROVE  status' = "active"
  BY <1>5 DEF ActivateSubscription
<1>6. ASSUME NEW c \in Callbacks, MarkPaid(c)
      PROVE  status' = "active"
  BY <1>6 DEF MarkPaid
<1>7. ASSUME NEW c \in Callbacks, MarkFailed(c)
      PROVE  Overdue' \/ ~ isActive'
  BY <1>7 DEF MarkFailed, PastDueMark
<1> QED
  BY <1>1, <1>2, <1>3, <1>4, <1>5, <1>6, <1>7

\* The daily job suspends a tenant that stays past due beyond its grace period:
\* what is overdue is in the job's reach (MarkFollowsStatus: the mark is set),
\* stays there, and the job's own step ends it.
THEOREM JobSuspends == Init /\ [][Next]_vars /\ FairEnforce => OverdueIsSuspended
<1> DEFINE Done == ~ isActive \/ status = "active"
<1>1. IInv /\ Overdue /\ [Next]_vars => Overdue' \/ Done'
  BY OverdueStays
<1>2. <<Enforce>>_vars => Done'
  BY DEF Enforce
<1>3. IInv /\ Overdue => EnforceGuard
  BY DEF IInv, MarkFollowsStatus, Overdue, EnforceGuard, GraceIsOver
<1> QED
  BY <1>1, <1>2, <1>3, InductiveSafe, PTL DEF FairEnforce, OverdueIsSuspended

=============================================================================
