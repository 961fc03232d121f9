------------------------- MODULE OrderPayment_proofs -------------------------
(***************************************************************************)
(* Theorems about OrderPayment, for any sets of orders and requests, any   *)
(* number of them in flight and any statuses staff may choose.             *)
(***************************************************************************)
EXTENDS OrderPayment, TLAPS

\* A request that has begun is about some order.
Located == \A r \in Requests : pc[r] # "idle" => target[r] \in Orders

\* Every variable keeps its type: statuses stay within the values the schema
\* lists and every local variable within what its SELECT or GET can return.
THEOREM TypeCorrect == Spec => [](TypeOK /\ Located)
<1> DEFINE TInv == TypeOK /\ Located
<1>1. Init => TInv
  BY DEF Init, TypeOK, Located, Steps, ProviderStatuses
<1>2. TInv /\ [Next]_vars => TInv'
  <2> SUFFICES ASSUME TInv, [Next]_vars
               PROVE  TInv'
    OBVIOUS
  <2> USE DEF TypeOK, Located
  <2>1. ASSUME NEW o \in Orders, CreateOrder(o)
        PROVE  TInv'
    BY <2>1 DEF CreateOrder, requestVars, ValidStatuses
  <2>2. ASSUME NEW o \in Orders, OrderDelivery(o)
        PROVE  TInv'
    BY <2>2 DEF OrderDelivery, dbVars, requestVars
  <2>3. ASSUME NEW o \in Orders, ProviderAdvance(o)
        PROVE  TInv'
    <3>1. provider' \in [Orders -> ProviderStatuses]
      BY <2>3 DEF ProviderAdvance, ProviderStatuses
    <3> QED
      BY <2>3, <3>1 DEF ProviderAdvance, dbVars, requestVars
  <2>4. ASSUME NEW o \in Orders, NEW status \in StaffStatuses, SetStatus(o, status)
        PROVE  TInv'
    BY <2>4, OrderPaymentAssumption DEF SetStatus, requestVars
  <2>5. ASSUME NEW r \in Requests, NEW o \in Orders, InitiateForOrder(r, o)
        PROVE  TInv'
    BY <2>5 DEF InitiateForOrder, Begin, GoTo, dbVars, Kinds, Steps
  <2>6. ASSUME NEW r \in Requests, NEW o \in Orders, HandleWebhook(r, o)
        PROVE  TInv'
    BY <2>6 DEF HandleWebhook, Begin, GoTo, dbVars, Kinds, Steps
  <2>7. ASSUME NEW r \in Requests, NEW o \in Orders, Reconcile(r, o)
        PROVE  TInv'
    BY <2>7 DEF Reconcile, Begin, GoTo, dbVars, Kinds, Steps
  <2>8. ASSUME NEW r \in Requests, CreatePayment(r)
        PROVE  TInv'
    BY <2>8 DEF CreatePayment, GoTo, dbVars, Steps, ProviderStatuses
  <2>9. ASSUME NEW r \in Requests, RecordPayment(r)
        PROVE  TInv'
    BY <2>9 DEF RecordPayment, GoTo, Steps, PaymentStatuses
  <2>10. ASSUME NEW r \in Requests, GetPayment(r)
         PROVE  TInv'
    BY <2>10 DEF GetPayment, GoTo, dbVars, Steps
  <2>11. ASSUME NEW r \in Requests, SelectRow(r)
         PROVE  TInv'
    BY <2>11 DEF SelectRow, RowStatuses, GoTo, dbVars, Steps
  <2>12. ASSUME NEW r \in Requests, UpdateRow(r)
         PROVE  TInv'
    BY <2>12 DEF UpdateRow, Confirms, SetRows, NewStatus, GoTo, Steps, PaymentStatuses
  <2>13. ASSUME NEW r \in Requests, UpdateStatus(r)
         PROVE  TInv'
    BY <2>13 DEF UpdateStatus, GoTo, Steps, ValidStatuses
  <2>14. ASSUME NEW r \in Requests, SendDeliveryEmail(r)
         PROVE  TInv'
    BY <2>14 DEF SendDeliveryEmail, GoTo, dbVars, Steps
  <2>15. ASSUME NEW r \in Requests, SkipDeliveryEmail(r) \/ Abort(r) \/ FailUpdateStatus(r)
         PROVE  TInv'
    BY <2>15 DEF SkipDeliveryEmail, Abort, FailUpdateStatus, GoTo, dbVars, Steps, Finished
  <2>16. CASE UNCHANGED vars
    BY <2>16 DEF vars, dbVars, requestVars
  <2> QED
    BY <2>1, <2>2, <2>3, <2>4, <2>5, <2>6, <2>7, <2>8, <2>9, <2>10, <2>11, <2>12,
       <2>13, <2>14, <2>15, <2>16 DEF Next, Arrival, Serve
<1> QED
  BY <1>1, <1>2, PTL DEF Spec


-----------------------------------------------------------------------------
(* The inductive invariant *)

Accounted(o) == confirmations[o] # {} \/ BetweenTransactions(o)

\* What requests know of the provider: an answer "completed" stays true, and
\* only such an answer leads to orders.UpdateStatus.
AnswersTrue ==
  \A r \in Requests :
    /\ answer[r] = "completed" => pc[r] # "idle" /\ provider[target[r]] = "completed"
    /\ pc[r] \in {"update_status", "unconfirmed"} => answer[r] = "completed"
    /\ pc[r] \in {"idle", "create_payment", "record_payment", "get_payment"} => answer[r] = "absent"

\* What the database says of the provider.
DatabaseTrue ==
  \A o \in Orders :
    /\ confirmations[o] # {} => provider[o] = "completed"
    /\ \A r \in Requests : payments[o][r] = "success" => provider[o] = "completed"

\* Who may send the email, and who did.
MailTrue ==
  /\ \A r \in Requests : pc[r] = "notify" => r \in confirmations[target[r]]
  /\ MailFollowsConfirmation

\* "success", seen in the database, read by a request or acknowledged to the
\* provider, is accounted for.
AllAccounted ==
  /\ \A o \in Orders, r \in Requests : payments[o][r] = "success" => Accounted(o)
  /\ \A r \in Requests :
       /\ pc[r] = "update_row" /\ prev[r] = "success" => Accounted(target[r])
       /\ pc[r] = "ok" /\ answer[r] = "completed" => Accounted(target[r])

\* Links went out only for orders whose trail records "paid".
PaidRecorded ==
  /\ \A o \in Orders : confirmations[o] # {} => "paid" \in trail[o]
  /\ \A o \in Orders : orderStatus[o] = "paid" => "paid" \in trail[o]
  /\ DeliveryFollowsPaid

IInv ==
  /\ TypeOK /\ Located
  /\ AnswersTrue /\ DatabaseTrue /\ MailTrue /\ AllAccounted /\ PaidRecorded

\* The provider never takes "completed" back; confirmations, history rows and
\* requests lost between the two transactions stay; so an account once given
\* of a "success" is given for ever.
LEMMA Lasting ==
  TypeOK /\ Located /\ [Next]_vars =>
    \A o \in Orders :
      /\ provider[o] = "completed" => provider'[o] = "completed"
      /\ confirmations[o] \subseteq confirmations'[o]
      /\ trail[o] \subseteq trail'[o]
      /\ Accounted(o) => Accounted(o)'
<1> DEFINE Goal == \A o \in Orders :
      /\ provider[o] = "completed" => provider'[o] = "completed"
      /\ confirmations[o] \subseteq confirmations'[o]
      /\ trail[o] \subseteq trail'[o]
      /\ Accounted(o) => Accounted(o)'
<1> SUFFICES ASSUME TypeOK, Located, [Next]_vars
             PROVE  Goal
  OBVIOUS
<1>1. ASSUME NEW o \in Orders, CreateOrder(o)
      PROVE  Goal
  BY <1>1 DEF CreateOrder, requestVars, TypeOK, Located, Accounted, BetweenTransactions
<1>2. ASSUME NEW o \in Orders, OrderDelivery(o)
      PROVE  Goal
  BY <1>2 DEF OrderDelivery, dbVars, requestVars, TypeOK, Located, Accounted, BetweenTransactions
<1>3. ASSUME NEW o \in Orders, ProviderAdvance(o)
      PROVE  Goal
  BY <1>3 DEF ProviderAdvance, dbVars, requestVars, TypeOK, Located, Accounted, BetweenTransactions
<1>4. ASSUME NEW o \in Orders, NEW status \in StaffStatuses, SetStatus(o, status)
      PROVE  Goal
  BY <1>4 DEF SetStatus, requestVars, TypeOK, Located, Accounted, BetweenTransactions
<1>5. ASSUME NEW r \in Requests, NEW o \in Orders, InitiateForOrder(r, o)
      PROVE  Goal
  BY <1>5 DEF InitiateForOrder, Begin, GoTo, dbVars, TypeOK, Located, Accounted, BetweenTransactions
<1>6. ASSUME NEW r \in Requests, NEW o \in Orders, HandleWebhook(r, o)
      PROVE  Goal
  BY <1>6 DEF HandleWebhook, Begin, GoTo, dbVars, TypeOK, Located, Accounted, BetweenTransactions
<1>7. ASSUME NEW r \in Requests, NEW o \in Orders, Reconcile(r, o)
      PROVE  Goal
  BY <1>7 DEF Reconcile, Begin, GoTo, dbVars, TypeOK, Located, Accounted, BetweenTransactions
<1>8. ASSUME NEW r \in Requests, CreatePayment(r)
      PROVE  Goal
  BY <1>8 DEF CreatePayment, GoTo, dbVars, TypeOK, Located, Accounted, BetweenTransactions
<1>9. ASSUME NEW r \in Requests, RecordPayment(r)
      PROVE  Goal
  BY <1>9 DEF RecordPayment, GoTo, TypeOK, Located, Accounted, BetweenTransactions
<1>10. ASSUME NEW r \in Requests, GetPayment(r)
      PROVE  Goal
  BY <1>10 DEF GetPayment, GoTo, dbVars, TypeOK, Located, Accounted, BetweenTransactions
<1>11. ASSUME NEW r \in Requests, SelectRow(r)
      PROVE  Goal
  BY <1>11 DEF SelectRow, RowStatuses, GoTo, dbVars, TypeOK, Located, Accounted, BetweenTransactions
<1>12. ASSUME NEW r \in Requests, UpdateRow(r)
      PROVE  Goal
  BY <1>12 DEF UpdateRow, Confirms, SetRows, NewStatus, GoTo, TypeOK, Located, Accounted, BetweenTransactions
<1>13. ASSUME NEW r \in Requests, UpdateStatus(r)
      PROVE  Goal
  BY <1>13 DEF UpdateStatus, GoTo, TypeOK, Located, Accounted, BetweenTransactions
<1>14. ASSUME NEW r \in Requests, SendDeliveryEmail(r)
      PROVE  Goal
  BY <1>14 DEF SendDeliveryEmail, GoTo, dbVars, TypeOK, Located, Accounted, BetweenTransactions
<1>15. ASSUME NEW r \in Requests, SkipDeliveryEmail(r)
      PROVE  Goal
  BY <1>15 DEF SkipDeliveryEmail, GoTo, dbVars, TypeOK, Located, Accounted, BetweenTransactions
<1>16. ASSUME NEW r \in Requests, Abort(r)
      PROVE  Goal
  BY <1>16 DEF Abort, Finished, GoTo, dbVars, TypeOK, Located, Accounted, BetweenTransactions
<1>17. ASSUME NEW r \in Requests, FailUpdateStatus(r)
      PROVE  Goal
  BY <1>17 DEF FailUpdateStatus, GoTo, dbVars, TypeOK, Located, Accounted, BetweenTransactions
<1>18. CASE UNCHANGED vars
  BY <1>18 DEF vars, dbVars, requestVars, TypeOK, Located, Accounted, BetweenTransactions
<1> QED
  BY <1>1, <1>2, <1>3, <1>4, <1>5, <1>6, <1>7, <1>8, <1>9, <1>10, <1>11, <1>12, <1>13, <1>14, <1>15, <1>16, <1>17, <1>18 DEF Next, Arrival, Serve

\* IInv holds in every reachable state.
THEOREM Inductive == Spec => []IInv
<1>1. Init => IInv
  BY DEF Init, IInv, TypeOK, Located, Steps, ProviderStatuses, AnswersTrue, DatabaseTrue,
         MailTrue, MailFollowsConfirmation, AllAccounted, PaidRecorded, DeliveryFollowsPaid
<1>2. IInv /\ TypeOK' /\ Located' /\ [Next]_vars => IInv'
  <2> DEFINE Parts == AnswersTrue /\ DatabaseTrue /\ MailTrue /\ AllAccounted /\ PaidRecorded
  <2> SUFFICES ASSUME IInv, TypeOK', Located', [Next]_vars
               PROVE  Parts'
    BY DEF IInv
  <2> USE DEF IInv, TypeOK, Located
  <2>1. ASSUME NEW o \in Orders, CreateOrder(o)
        PROVE  Parts'
    BY <2>1, Lasting DEF CreateOrder, requestVars,
       AnswersTrue, DatabaseTrue, MailTrue, MailFollowsConfirmation, AllAccounted,
       PaidRecorded, DeliveryFollowsPaid
  <2>2. ASSUME NEW o \in Orders, OrderDelivery(o)
        PROVE  Parts'
    BY <2>2, Lasting DEF OrderDelivery, dbVars, requestVars,
       AnswersTrue, DatabaseTrue, MailTrue, MailFollowsConfirmation, AllAccounted,
       PaidRecorded, DeliveryFollowsPaid
  <2>3. ASSUME NEW o \in Orders, ProviderAdvance(o)
        PROVE  Parts'
    BY <2>3, Lasting DEF ProviderAdvance, dbVars, requestVars,
       AnswersTrue, DatabaseTrue, MailTrue, MailFollowsConfirmation, AllAccounted,
       PaidRecorded, DeliveryFollowsPaid
  <2>4. ASSUME NEW o \in Orders, NEW status \in StaffStatuses, SetStatus(o, status)
        PROVE  Parts'
    BY <2>4, Lasting DEF SetStatus, requestVars,
       AnswersTrue, DatabaseTrue, MailTrue, MailFollowsConfirmation, AllAccounted,
       PaidRecorded, DeliveryFollowsPaid
  <2>5. ASSUME NEW r \in Requests, NEW o \in Orders, InitiateForOrder(r, o)
        PROVE  Parts'
    BY <2>5, Lasting DEF InitiateForOrder, Begin, GoTo, dbVars,
       AnswersTrue, DatabaseTrue, MailTrue, MailFollowsConfirmation, AllAccounted,
       PaidRecorded, DeliveryFollowsPaid
  <2>6. ASSUME NEW r \in Requests, NEW o \in Orders, HandleWebhook(r, o)
        PROVE  Parts'
    BY <2>6, Lasting DEF HandleWebhook, Begin, GoTo, dbVars,
       AnswersTrue, DatabaseTrue, MailTrue, MailFollowsConfirmation, AllAccounted,
       PaidRecorded, DeliveryFollowsPaid
  <2>7. ASSUME NEW r \in Requests, NEW o \in Orders, Reconcile(r, o)
        PROVE  Parts'
    BY <2>7, Lasting DEF Reconcile, Begin, GoTo, dbVars,
       AnswersTrue, DatabaseTrue, MailTrue, MailFollowsConfirmation, AllAccounted,
       PaidRecorded, DeliveryFollowsPaid
  <2>8. ASSUME NEW r \in Requests, CreatePayment(r)
        PROVE  Parts'
    BY <2>8, Lasting DEF CreatePayment, GoTo, dbVars,
       AnswersTrue, DatabaseTrue, MailTrue, MailFollowsConfirmation, AllAccounted,
       PaidRecorded, DeliveryFollowsPaid
  <2>9. ASSUME NEW r \in Requests, RecordPayment(r)
        PROVE  Parts'
    BY <2>9, Lasting DEF RecordPayment, GoTo,
       AnswersTrue, DatabaseTrue, MailTrue, MailFollowsConfirmation, AllAccounted,
       PaidRecorded, DeliveryFollowsPaid
  <2>10. ASSUME NEW r \in Requests, GetPayment(r)
         PROVE  Parts'
    BY <2>10, Lasting DEF GetPayment, GoTo, dbVars,
       AnswersTrue, DatabaseTrue, MailTrue, MailFollowsConfirmation, AllAccounted,
       PaidRecorded, DeliveryFollowsPaid
  <2>11. ASSUME NEW r \in Requests, SelectRow(r)
         PROVE  Parts'
    BY <2>11, Lasting DEF SelectRow, RowStatuses, GoTo, dbVars,
       AnswersTrue, DatabaseTrue, MailTrue, MailFollowsConfirmation, AllAccounted,
       PaidRecorded, DeliveryFollowsPaid
  <2>12. ASSUME NEW r \in Requests, UpdateRow(r)
         PROVE  Parts'
    <3> DEFINE o == target[r]
    <3>1. AnswersTrue' /\ DatabaseTrue' /\ MailTrue' /\ PaidRecorded'
      BY <2>12 DEF UpdateRow, Confirms, SetRows, NewStatus, GoTo, AnswersTrue, DatabaseTrue, MailTrue,
         MailFollowsConfirmation, PaidRecorded, DeliveryFollowsPaid
    <3>2. answer[r] = "completed" => Accounted(o)'
      <4>1. CASE answer[r] = "completed" /\ prev[r] = "success"
        BY <2>12, <4>1, Lasting DEF UpdateRow, AllAccounted
      <4>2. CASE answer[r] = "completed" /\ prev[r] # "success"
        BY <2>12, <4>2 DEF UpdateRow, Confirms, NewStatus, GoTo, Accounted, BetweenTransactions
      <4> QED
        BY <4>1, <4>2
    <3>3. AllAccounted'
      BY <2>12, <3>2, Lasting DEF UpdateRow, Confirms, SetRows, NewStatus, GoTo, AllAccounted
    <3> QED
      BY <3>1, <3>3
  <2>13. ASSUME NEW r \in Requests, UpdateStatus(r)
         PROVE  Parts'
    <3>1. AnswersTrue' /\ DatabaseTrue' /\ MailTrue' /\ PaidRecorded'
      BY <2>13 DEF UpdateStatus, GoTo, AnswersTrue, DatabaseTrue, MailTrue,
         MailFollowsConfirmation, PaidRecorded, DeliveryFollowsPaid
    <3>2. Accounted(target[r])'
      BY <2>13 DEF UpdateStatus, Accounted
    <3>3. AllAccounted'
      BY <2>13, <3>2, Lasting DEF UpdateStatus, GoTo, AllAccounted
    <3> QED
      BY <3>1, <3>3
  <2>14. ASSUME NEW r \in Requests, SendDeliveryEmail(r)
         PROVE  Parts'
    <3>1. AnswersTrue' /\ DatabaseTrue' /\ MailTrue' /\ PaidRecorded'
      BY <2>14 DEF SendDeliveryEmail, GoTo, dbVars, AnswersTrue, DatabaseTrue, MailTrue,
         MailFollowsConfirmation, PaidRecorded, DeliveryFollowsPaid
    <3>2. Accounted(target[r])
      BY <2>14 DEF SendDeliveryEmail, MailTrue, Accounted
    <3>3. AllAccounted'
      BY <2>14, <3>2, Lasting DEF SendDeliveryEmail, GoTo, dbVars, AllAccounted
    <3> QED
      BY <3>1, <3>3
  <2>15. ASSUME NEW r \in Requests, SkipDeliveryEmail(r)
         PROVE  Parts'
    <3>1. AnswersTrue' /\ DatabaseTrue' /\ MailTrue' /\ PaidRecorded'
      BY <2>15 DEF SkipDeliveryEmail, GoTo, dbVars, AnswersTrue, DatabaseTrue, MailTrue,
         MailFollowsConfirmation, PaidRecorded, DeliveryFollowsPaid
    <3>2. Accounted(target[r])
      BY <2>15 DEF SkipDeliveryEmail, MailTrue, Accounted
    <3>3. AllAccounted'
      BY <2>15, <3>2, Lasting DEF SkipDeliveryEmail, GoTo, dbVars, AllAccounted
    <3> QED
      BY <3>1, <3>3
  <2>16. ASSUME NEW r \in Requests, Abort(r)
         PROVE  Parts'
    BY <2>16, Lasting DEF Abort, Finished, GoTo, dbVars,
       AnswersTrue, DatabaseTrue, MailTrue, MailFollowsConfirmation, AllAccounted,
       PaidRecorded, DeliveryFollowsPaid
  <2>17. ASSUME NEW r \in Requests, FailUpdateStatus(r)
         PROVE  Parts'
    BY <2>17, Lasting DEF FailUpdateStatus, GoTo, dbVars,
       AnswersTrue, DatabaseTrue, MailTrue, MailFollowsConfirmation, AllAccounted,
       PaidRecorded, DeliveryFollowsPaid
  <2>18. CASE UNCHANGED vars
    BY <2>18, Lasting DEF vars, dbVars, requestVars,
       AnswersTrue, DatabaseTrue, MailTrue, MailFollowsConfirmation, AllAccounted,
       PaidRecorded, DeliveryFollowsPaid
  <2> QED
    BY <2>1, <2>2, <2>3, <2>4, <2>5, <2>6, <2>7, <2>8, <2>9, <2>10, <2>11, <2>12, <2>13,
       <2>14, <2>15, <2>16, <2>17, <2>18 DEF Next, Arrival, Serve
<1> QED
  BY <1>1, <1>2, TypeCorrect, PTL DEF Spec


-----------------------------------------------------------------------------
(* The properties *)

\* No order is confirmed, and no payments row reads "success", without the
\* money: the safety property the payment path exists for.
THEOREM NoFalsePayment == Spec => []PaidOnlyIfCollected
<1>1. IInv => PaidOnlyIfCollected
  BY DEF IInv, DatabaseTrue, PaidOnlyIfCollected, RowStatuses
<1> QED
  BY <1>1, Inductive, PTL

\* A "success" without its confirmation has one cause, the gap between
\* applyStatus's two transactions.
THEOREM OnlyOneGap == Spec => []SuccessIsAccountedFor
<1>1. IInv => SuccessIsAccountedFor
  BY DEF IInv, AllAccounted, Accounted, SuccessIsAccountedFor, RowStatuses
<1> QED
  BY <1>1, Inductive, PTL

\* So has a callback answered 200 that did not confirm the order.
THEOREM AcknowledgedInOneGap == Spec => []AcknowledgedIsAccountedFor
<1>1. IInv => AcknowledgedIsAccountedFor
  BY DEF IInv, AllAccounted, Accounted, AcknowledgedIsAccountedFor
<1> QED
  BY <1>1, Inductive, PTL

\* The confirmation email follows the confirmation of the same request.
THEOREM CustomerToldTheTruth == Spec => []MailFollowsConfirmation
<1>1. IInv => MailFollowsConfirmation
  BY DEF IInv, MailTrue
<1> QED
  BY <1>1, Inductive, PTL

\* Links go out only for an order that has been "paid".
THEOREM LinksFollowPaid == Spec => []DeliveryFollowsPaid
<1>1. IInv => DeliveryFollowsPaid
  BY DEF IInv, PaidRecorded
<1> QED
  BY <1>1, Inductive, PTL

\* On a settled order every repetition of a callback or of a reconciliation is
\* without effect: the order stays settled until a payment is initiated anew.
\* DatabaseTrue is what makes the provider's next answer "completed" again.
THEOREM ReplaysAreQuiet == Spec => SettledIsQuiet
<1> DEFINE Quiet(o) == /\ confirmations'[o] = confirmations[o]
                       /\ Settled(o)' \/ \E r \in Requests : InitiateForOrder(r, o)
<1>1. IInv /\ [Next]_vars => \A o \in Orders : Settled(o) => Quiet(o)
  <2> SUFFICES ASSUME IInv, [Next]_vars, NEW o \in Orders, Settled(o)
               PROVE  Quiet(o)
    OBVIOUS
  <2>1. \/ UNCHANGED <<confirmations, payments, requestVars>>
        \/ \E r \in Requests : InitiateForOrder(r, o)
        \/ \E r \in Requests, p \in Orders \ {o} : InitiateForOrder(r, p)
        \/ \E r \in Requests, p \in Orders : HandleWebhook(r, p) \/ Reconcile(r, p)
        \/ \E r \in Requests : Serve(r)
    BY DEF Next, Arrival, CreateOrder, OrderDelivery, ProviderAdvance, SetStatus, vars, dbVars
  <2>2. CASE UNCHANGED <<confirmations, payments, requestVars>>
    BY <2>2 DEF Settled, RowStatuses, requestVars
  <2>3. ASSUME NEW r \in Requests, InitiateForOrder(r, o)
        PROVE  Quiet(o)
    BY <2>3 DEF InitiateForOrder, Begin, dbVars
  <2>4. ASSUME NEW r \in Requests, NEW p \in Orders \ {o}, InitiateForOrder(r, p)
        PROVE  Quiet(o)
    <3>1. confirmations'[o] = confirmations[o] /\ RowStatuses(o)' = {"success"}
      BY <2>4 DEF InitiateForOrder, Begin, dbVars, Settled, RowStatuses
    <3> QED
      BY <2>4, <3>1 DEF InitiateForOrder, Begin, GoTo, Settled, IInv, TypeOK
  <2>5. ASSUME NEW r \in Requests, NEW p \in Orders, HandleWebhook(r, p) \/ Reconcile(r, p)
        PROVE  Quiet(o)
    <3>1. confirmations'[o] = confirmations[o] /\ RowStatuses(o)' = {"success"}
      BY <2>5 DEF HandleWebhook, Reconcile, Begin, dbVars, Settled, RowStatuses
    <3> QED
      BY <2>5, <3>1 DEF HandleWebhook, Reconcile, Begin, GoTo, Settled, IInv, TypeOK
  <2>6. ASSUME NEW r \in Requests, Serve(r), target[r] # o
        PROVE  Quiet(o)
    <3>1. confirmations'[o] = confirmations[o] /\ payments'[o] = payments[o]
      BY <2>6 DEF Serve, CreatePayment, RecordPayment, GetPayment, SelectRow, UpdateRow,
         UpdateStatus, SendDeliveryEmail, SkipDeliveryEmail, Abort, FailUpdateStatus,
         SetRows, dbVars, IInv, TypeOK
    <3>2. /\ target' = target
          /\ \A q \in Requests \ {r} : pc'[q] = pc[q] /\ answer'[q] = answer[q] /\ prev'[q] = prev[q]
      BY <2>6 DEF Serve, CreatePayment, RecordPayment, GetPayment, SelectRow, UpdateRow,
         UpdateStatus, SendDeliveryEmail, SkipDeliveryEmail, Abort, FailUpdateStatus,
         GoTo, IInv, TypeOK
    <3> QED
      BY <2>6, <3>1, <3>2 DEF Settled, RowStatuses
  <2>7. ASSUME NEW r \in Requests, Serve(r), target[r] = o
        PROVE  Quiet(o)
    <3>1. GetPayment(r) \/ SelectRow(r) \/ UpdateRow(r)
            \/ SendDeliveryEmail(r) \/ SkipDeliveryEmail(r) \/ Abort(r)
      BY <2>7 DEF Serve, CreatePayment, RecordPayment, UpdateStatus, FailUpdateStatus, Settled
    <3>2. PICK q \in Requests : payments[o][q] = "success"
      BY DEF Settled, RowStatuses
    <3>3. CASE GetPayment(r)
      <4>1. answer'[r] = "completed"
        BY <2>7, <3>2, <3>3 DEF GetPayment, IInv, TypeOK, DatabaseTrue
      <4>2. confirmations'[o] = confirmations[o] /\ RowStatuses(o)' = {"success"}
        BY <3>3 DEF GetPayment, dbVars, Settled, RowStatuses
      <4> QED
        BY <2>7, <3>3, <4>1, <4>2 DEF GetPayment, GoTo, Settled, IInv, TypeOK
    <3>4. CASE SelectRow(r)
      <4>1. prev'[r] = "success"
        BY <2>7, <3>4 DEF SelectRow, Settled, IInv, TypeOK
      <4>2. confirmations'[o] = confirmations[o] /\ RowStatuses(o)' = {"success"}
        BY <3>4 DEF SelectRow, dbVars, Settled, RowStatuses
      <4> QED
        BY <2>7, <3>4, <4>1, <4>2 DEF SelectRow, GoTo, Settled, IInv, TypeOK
    <3>5. CASE UpdateRow(r)
      <4>1. NewStatus(answer[r]) = "success" /\ ~ Confirms(r)
        BY <2>7, <3>5 DEF UpdateRow, Settled, NewStatus, Confirms
      <4>2. \A p \in Requests :
              payments'[o][p] = IF payments[o][p] = "none" THEN "none" ELSE "success"
        BY <2>7, <3>5, <4>1 DEF UpdateRow, SetRows, IInv, TypeOK
      <4>3. RowStatuses(o)' = {"success"}
        BY <3>2, <4>2 DEF RowStatuses
      <4> QED
        BY <2>7, <3>5, <4>1, <4>3 DEF UpdateRow, GoTo, Settled, IInv, TypeOK
    <3>6. CASE SendDeliveryEmail(r) \/ SkipDeliveryEmail(r) \/ Abort(r)
      <4>1. confirmations'[o] = confirmations[o] /\ RowStatuses(o)' = {"success"}
        BY <3>6 DEF SendDeliveryEmail, SkipDeliveryEmail, Abort, dbVars, Settled, RowStatuses
      <4> QED
        BY <3>6, <4>1 DEF SendDeliveryEmail, SkipDeliveryEmail, Abort, GoTo, Settled, IInv, TypeOK
    <3> QED
      BY <3>1, <3>3, <3>4, <3>5, <3>6
  <2> QED
    BY <2>1, <2>2, <2>3, <2>4, <2>5, <2>6, <2>7
<1> QED
  BY <1>1, Inductive, PTL DEF Spec, SettledIsQuiet

\* Links and 'paid' come from a confirmation, and so from money collected, unless
\* staff set 'paid' themselves: by any interleaving of callbacks, reconciliations,
\* failures and changes of status.
THEOREM NothingForFree == Spec => []GivenForMoney
<1> DEFINE Confirmed == \A o \in Orders :
                          orderStatus[o] = "paid" \/ o \in delivered => confirmations[o] # {}
<1>1. CASE "paid" \in StaffStatuses
  <2>1. GivenForMoney
    BY <1>1 DEF GivenForMoney
  <2> QED
    BY <2>1, PTL
<1>2. CASE "paid" \notin StaffStatuses
  <2>1. Init => Confirmed
    BY DEF Init
  <2>2. IInv /\ Confirmed /\ [Next]_vars => Confirmed'
    <3> SUFFICES ASSUME IInv, Confirmed, [Next]_vars
                 PROVE  Confirmed'
      OBVIOUS
    <3> USE DEF IInv, TypeOK, Located
    <3>1. \/ UNCHANGED <<confirmations, delivered, orderStatus>>
          \/ \E o \in Orders : CreateOrder(o) \/ OrderDelivery(o)
          \/ \E o \in Orders, status \in StaffStatuses : SetStatus(o, status)
          \/ \E r \in Requests : UpdateStatus(r) \/ SendDeliveryEmail(r)
      BY DEF Next, Arrival, Serve, ProviderAdvance, InitiateForOrder, HandleWebhook, Reconcile,
         Begin, CreatePayment, RecordPayment, GetPayment, SelectRow, UpdateRow,
         SkipDeliveryEmail, Abort, FailUpdateStatus, vars, dbVars
    <3>2. CASE UNCHANGED <<confirmations, delivered, orderStatus>>
      BY <3>2
    <3>3. ASSUME NEW o \in Orders, CreateOrder(o)
          PROVE  Confirmed'
      BY <3>3 DEF CreateOrder
    <3>4. ASSUME NEW o \in Orders, OrderDelivery(o)
          PROVE  Confirmed'
      BY <3>4 DEF OrderDelivery, dbVars
    <3>5. ASSUME NEW o \in Orders, NEW status \in StaffStatuses, SetStatus(o, status)
          PROVE  Confirmed'
      BY <1>2, <3>5 DEF SetStatus
    <3>6. ASSUME NEW r \in Requests, UpdateStatus(r)
          PROVE  Confirmed'
      BY <3>6 DEF UpdateStatus
    <3>7. ASSUME NEW r \in Requests, SendDeliveryEmail(r)
          PROVE  Confirmed'
      BY <3>7 DEF SendDeliveryEmail, dbVars, MailTrue
    <3> QED
      BY <3>1, <3>2, <3>3, <3>4, <3>5, <3>6, <3>7
  <2>3. IInv /\ Confirmed => GivenForMoney
    BY DEF IInv, DatabaseTrue, GivenForMoney
  <2> QED
    BY <2>1, <2>2, <2>3, Inductive, PTL DEF Spec
<1> QED
  BY <1>1, <1>2

\* What is paid for, and what a request is about, is an order that was placed.
Placed ==
  /\ \A o \in Orders : provider[o] # "absent" => orderStatus[o] # "absent"
  /\ \A r \in Requests : pc[r] # "idle" => orderStatus[target[r]] # "absent"

LEMMA PlacedFirst == Spec => []Placed
<1>1. Init => Placed
  BY DEF Init, Placed
<1>2. IInv /\ Placed /\ [Next]_vars => Placed'
  <2> SUFFICES ASSUME IInv, Placed, [Next]_vars
               PROVE  Placed'
    OBVIOUS
  <2> USE DEF IInv, TypeOK, Located, Placed
  <2>1. CASE UNCHANGED <<orderStatus, provider, requestVars>>
    BY <2>1 DEF requestVars
  <2>2. ASSUME NEW o \in Orders, CreateOrder(o)
        PROVE  Placed'
    BY <2>2 DEF CreateOrder, requestVars
  <2>3. ASSUME NEW o \in Orders, NEW status \in StaffStatuses, SetStatus(o, status)
        PROVE  Placed'
    BY <2>3, OrderPaymentAssumption DEF SetStatus, requestVars, ValidStatuses
  <2>4. ASSUME NEW o \in Orders, ProviderAdvance(o)
        PROVE  Placed'
    BY <2>4 DEF ProviderAdvance, dbVars, requestVars
  <2>5. ASSUME NEW r \in Requests, Arrival(r)
        PROVE  Placed'
    <3>1. PICK o \in Orders : InitiateForOrder(r, o) \/ HandleWebhook(r, o) \/ Reconcile(r, o)
      BY <2>5 DEF Arrival
    <3>2. orderStatus[o] # "absent"
      BY <3>1 DEF InitiateForOrder, HandleWebhook, Reconcile
    <3>3. /\ target' = [target EXCEPT ![r] = o]
          /\ \A q \in Requests \ {r} : pc'[q] = pc[q]
          /\ UNCHANGED <<orderStatus, provider>>
      BY <3>1 DEF InitiateForOrder, HandleWebhook, Reconcile, Begin, GoTo, dbVars
    <3> QED
      BY <3>2, <3>3
  <2>6. ASSUME NEW r \in Requests, CreatePayment(r)
        PROVE  Placed'
    BY <2>6 DEF CreatePayment, GoTo, dbVars
  <2>7. ASSUME NEW r \in Requests, UpdateStatus(r)
        PROVE  Placed'
    BY <2>7 DEF UpdateStatus, GoTo
  <2>8. ASSUME NEW r \in Requests,
               \/ RecordPayment(r) \/ GetPayment(r) \/ SelectRow(r) \/ UpdateRow(r)
               \/ SendDeliveryEmail(r) \/ SkipDeliveryEmail(r) \/ Abort(r) \/ FailUpdateStatus(r)
        PROVE  Placed'
    <3>1. /\ UNCHANGED <<orderStatus, provider, target>>
          /\ \A q \in Requests : pc[q] = "idle" => pc'[q] = "idle"
      BY <2>8 DEF RecordPayment, GetPayment, SelectRow, UpdateRow, SendDeliveryEmail,
         SkipDeliveryEmail, Abort, FailUpdateStatus, GoTo, dbVars, Finished
    <3> QED
      BY <3>1
  <2> QED
    BY <2>1, <2>2, <2>3, <2>4, <2>5, <2>6, <2>7, <2>8
       DEF Next, Serve, OrderDelivery, dbVars, vars
<1> QED
  BY <1>1, <1>2, Inductive, PTL DEF Spec

\* OrderPayment implements PaymentPromise: each step is one of its steps for one
\* order, or changes no order's stage and no order's status.
THEOREM Refinement == Spec => KeepsPromise
<1> DEFINE stg == [o \in Orders |-> StageOf(o)]
           Kept == Promise!Next \/ UNCHANGED <<stg, orderStatus>>
<1>1. Init => Promise!Init
  BY DEF Init, Promise!Init, StageOf
<1>2. ASSUME NEW o \in Orders, NEW next, StageOf(o)' = next,
             \A p \in Orders \ {o} : StageOf(p)' = StageOf(p)
      PROVE  stg' = [stg EXCEPT ![o] = next]
  BY <1>2
<1>3. IInv /\ Placed /\ [Next]_vars => [Promise!Next]_Promise!vars
  <2> SUFFICES ASSUME IInv, Placed, [Next]_vars
               PROVE  Kept
    BY DEF Promise!vars
  <2>1. \/ UNCHANGED <<confirmations, mailed, provider, orderStatus>>
        \/ \E o \in Orders : CreateOrder(o) \/ ProviderAdvance(o)
        \/ \E o \in Orders, status \in StaffStatuses : SetStatus(o, status)
        \/ \E r \in Requests : CreatePayment(r) \/ UpdateStatus(r) \/ SendDeliveryEmail(r)
    BY DEF Next, Arrival, Serve, OrderDelivery, InitiateForOrder, HandleWebhook, Reconcile,
       Begin, RecordPayment, GetPayment, SelectRow, UpdateRow, SkipDeliveryEmail, Abort,
       FailUpdateStatus, vars, dbVars
  <2>2. CASE UNCHANGED <<confirmations, mailed, provider, orderStatus>>
    BY <2>2 DEF StageOf
  <2>3. ASSUME NEW o \in Orders, CreateOrder(o)
        PROVE  Kept
    <3>1. stg' = stg
      BY <2>3 DEF CreateOrder, StageOf
    <3> QED
      BY <2>3, <3>1 DEF CreateOrder, Promise!Next, Promise!Place
  <2>4. ASSUME NEW o \in Orders, NEW status \in StaffStatuses, SetStatus(o, status)
        PROVE  Kept
    <3>1. stg' = stg
      BY <2>4 DEF SetStatus, StageOf
    <3> QED
      BY <2>4, <3>1 DEF SetStatus, Promise!Next, Promise!SetStatus
  <2>5. ASSUME NEW o \in Orders, ProviderAdvance(o)
        PROVE  Kept
    <3>1. confirmations[o] = {} /\ mailed[o] = {} /\ provider[o] # "completed"
      BY <2>5 DEF ProviderAdvance, IInv, DatabaseTrue, MailTrue, MailFollowsConfirmation
    <3>2. \A p \in Orders \ {o} : StageOf(p)' = StageOf(p)
      BY <2>5 DEF ProviderAdvance, dbVars, StageOf, IInv, TypeOK
    <3>3. StageOf(o) = "due" /\ StageOf(o)' \in {"due", "collected"}
      BY <2>5, <3>1 DEF ProviderAdvance, dbVars, StageOf
    <3>4. CASE StageOf(o)' = "due"
      BY <2>5, <3>2, <3>3, <3>4 DEF ProviderAdvance, dbVars
    <3>5. CASE StageOf(o)' = "collected"
      <4>1. stg' = [stg EXCEPT ![o] = "collected"]
        BY <1>2, <3>2, <3>5
      <4>2. stg[o] = "due" /\ orderStatus[o] # "absent" /\ UNCHANGED orderStatus
        BY <2>5, <3>3 DEF ProviderAdvance, dbVars, Placed
      <4> QED
        BY <4>1, <4>2 DEF Promise!Next, Promise!Collect
    <3> QED
      BY <3>3, <3>4, <3>5
  <2>6. ASSUME NEW r \in Requests, CreatePayment(r)
        PROVE  Kept
    BY <2>6 DEF CreatePayment, dbVars, StageOf, IInv, TypeOK, Located, DatabaseTrue
  <2>7. ASSUME NEW r \in Requests, UpdateStatus(r)
        PROVE  Kept
    <3>1. PICK o \in Orders : o = target[r]
      BY <2>7 DEF UpdateStatus, IInv, Located
    <3>2. provider[o] = "completed" /\ confirmations'[o] # {}
      BY <2>7, <3>1 DEF UpdateStatus, IInv, TypeOK, AnswersTrue
    <3>3. \A p \in Orders \ {o} : StageOf(p)' = StageOf(p)
      BY <2>7, <3>1 DEF UpdateStatus, StageOf, IInv, TypeOK
    <3>4. /\ StageOf(o) # "due"
          /\ StageOf(o)' = IF StageOf(o) = "collected" THEN "confirmed" ELSE StageOf(o)
      BY <2>7, <3>2 DEF UpdateStatus, StageOf
    <3>5. stg' = [stg EXCEPT ![o] = IF @ = "collected" THEN "confirmed" ELSE @]
      BY <1>2, <3>3, <3>4
    <3>6. orderStatus' = [orderStatus EXCEPT ![o] = "paid"]
      BY <2>7, <3>1 DEF UpdateStatus
    <3> QED
      BY <3>4, <3>5, <3>6 DEF Promise!Next, Promise!Confirm
  <2>8. ASSUME NEW r \in Requests, SendDeliveryEmail(r)
        PROVE  Kept
    <3>1. PICK o \in Orders : o = target[r]
      BY <2>8 DEF SendDeliveryEmail, IInv, Located
    <3>2. confirmations[o] # {} /\ mailed'[o] # {}
      BY <2>8, <3>1 DEF SendDeliveryEmail, IInv, TypeOK, MailTrue
    <3>3. \A p \in Orders \ {o} : StageOf(p)' = StageOf(p)
      BY <2>8, <3>1 DEF SendDeliveryEmail, dbVars, StageOf, IInv, TypeOK
    <3>4. StageOf(o) \in {"confirmed", "notified"} /\ StageOf(o)' = "notified"
      BY <2>8, <3>2 DEF SendDeliveryEmail, dbVars, StageOf
    <3>5. stg' = [stg EXCEPT ![o] = "notified"] /\ UNCHANGED orderStatus
      BY <2>8, <1>2, <3>3, <3>4 DEF SendDeliveryEmail, dbVars
    <3>6. CASE StageOf(o) = "notified"
      BY <3>3, <3>4, <3>5, <3>6
    <3>7. CASE StageOf(o) = "confirmed"
      BY <3>5, <3>7 DEF Promise!Next, Promise!Notify
    <3> QED
      BY <3>4, <3>6, <3>7
  <2> QED
    BY <2>1, <2>2, <2>3, <2>4, <2>5, <2>6, <2>7, <2>8
<1> QED
  BY <1>1, <1>3, Inductive, PlacedFirst, PTL DEF Spec, KeepsPromise, Promise!Spec

-----------------------------------------------------------------------------
(* The two claims the code breaks, under what would make them true *)

\* Nothing is lost but by a failure between the two transactions: as long as no
\* request has failed there, a reconciliation that succeeds on a completed
\* payment, with nothing else in progress, leaves the order confirmed.
THEOREM GapIsTheOnlyWay ==
  Spec => []((\A r \in Requests : pc[r] # "unconfirmed") => ReconcileRepairs)
<1>1. IInv => ((\A r \in Requests : pc[r] # "unconfirmed") => ReconcileRepairs)
  BY DEF IInv, AllAccounted, Accounted, BetweenTransactions, ReconcileRepairs, InFlight, Finished
<1> QED
  BY <1>1, Inductive, PTL

\* No two requests overlap; the order's payment was initiated once.
OneAtATime == \A r, s \in InFlight : r = s
OneRow(o) == \A r, s \in Requests : payments[o][r] # "none" /\ payments[o][s] # "none" => r = s

PaidRow(o) ==
  /\ \E r \in Requests : payments[o][r] = "success"
  /\ \A r \in Requests : payments[o][r] \in {"none", "success"}

\* A request that has not inserted its row has none, and one about to update
\* rows has seen one.
RowsKnown ==
  /\ \A r \in Requests, o \in Orders :
       pc[r] \in {"idle", "create_payment", "record_payment"} => payments[o][r] = "none"
  /\ \A r \in Requests :
       pc[r] = "update_row" => \E q \in Requests : payments[target[r]][q] # "none"

\* An order is confirmed once, its row reads "success" from then on, and a
\* request that is underway by then finds it so.
ConfirmedOnce(o) ==
  /\ \A r, s \in confirmations[o] : r = s
  /\ confirmations[o] # {} => PaidRow(o)
  /\ \A r \in Requests : target[r] = o =>
       /\ pc[r] = "update_status" => PaidRow(o) /\ confirmations[o] = {}
       /\ confirmations[o] # {} /\ pc[r] \in {"select_row", "update_row"} => answer[r] = "completed"
       /\ confirmations[o] # {} /\ pc[r] = "update_row" => prev[r] = "success"

Sequential == RowsKnown /\ \A o \in Orders : OneRow(o) => ConfirmedOnce(o)

\* Rows stay, so an order that has one row now never had two.
LEMMA RowsStay ==
  TypeOK /\ Located /\ [Next]_vars =>
    \A o \in Orders :
      /\ \A r \in Requests : payments[o][r] # "none" => payments'[o][r] # "none"
      /\ OneRow(o)' => OneRow(o)
<1> SUFFICES ASSUME TypeOK, Located, [Next]_vars
             PROVE  \A o \in Orders, r \in Requests : payments[o][r] # "none" => payments'[o][r] # "none"
  BY DEF OneRow
<1>1. ASSUME NEW r \in Requests, RecordPayment(r)
      PROVE  \A o \in Orders, q \in Requests : payments[o][q] # "none" => payments'[o][q] # "none"
  BY <1>1 DEF RecordPayment, TypeOK, Located
<1>2. ASSUME NEW r \in Requests, UpdateRow(r)
      PROVE  \A o \in Orders, q \in Requests : payments[o][q] # "none" => payments'[o][q] # "none"
  BY <1>2 DEF UpdateRow, SetRows, NewStatus, TypeOK, Located
<1>3. CASE UNCHANGED payments
  BY <1>3
<1> QED
  BY <1>1, <1>2, <1>3 DEF Next, Arrival, Serve, CreateOrder, OrderDelivery, ProviderAdvance,
     SetStatus, InitiateForOrder, HandleWebhook, Reconcile, Begin, CreatePayment, GetPayment,
     SelectRow, UpdateStatus, SendDeliveryEmail, SkipDeliveryEmail, Abort, FailUpdateStatus,
     vars, dbVars

LEMMA SequentialStep ==
  IInv /\ Sequential /\ OneAtATime /\ [Next]_vars => Sequential'
<1> SUFFICES ASSUME IInv, Sequential, OneAtATime, [Next]_vars
             PROVE  Sequential'
  OBVIOUS
<1>1. \A o \in Orders : OneRow(o)' => ConfirmedOnce(o)
  BY RowsStay DEF Sequential, IInv
<1>2. \A r, q \in Requests : pc[r] \notin Finished /\ q # r => pc[q] \in Finished
  BY DEF OneAtATime, InFlight
<1>3. CASE UNCHANGED <<confirmations, payments, requestVars>>
  <2>1. UNCHANGED <<confirmations, payments, pc, target, answer, prev>>
    BY <1>3 DEF requestVars
  <2>2. RowsKnown'
    BY <2>1 DEF Sequential, RowsKnown
  <2>3. ASSUME NEW o \in Orders, OneRow(o)'
        PROVE  ConfirmedOnce(o)'
    BY <1>1, <2>1, <2>3 DEF ConfirmedOnce, PaidRow
  <2> QED
    BY <2>2, <2>3 DEF Sequential
<1>4. ASSUME NEW r \in Requests, Arrival(r)
      PROVE  Sequential'
  <2>1. PICK o \in Orders : InitiateForOrder(r, o) \/ HandleWebhook(r, o) \/ Reconcile(r, o)
    BY <1>4 DEF Arrival
  <2>2. /\ pc[r] = "idle" /\ pc'[r] \in {"create_payment", "get_payment"}
        /\ \A q \in Requests \ {r} : pc'[q] = pc[q] /\ target'[q] = target[q]
        /\ UNCHANGED <<confirmations, payments, answer, prev>>
    BY <2>1 DEF InitiateForOrder, HandleWebhook, Reconcile, Begin, GoTo, dbVars, IInv, TypeOK
  <2>3. RowsKnown'
    BY <2>2 DEF Sequential, RowsKnown
  <2>4. ASSUME NEW p \in Orders, OneRow(p)'
        PROVE  ConfirmedOnce(p)'
    BY <1>1, <2>2, <2>4 DEF ConfirmedOnce, PaidRow
  <2> QED
    BY <2>3, <2>4 DEF Sequential
<1>5. ASSUME NEW r \in Requests, CreatePayment(r)
      PROVE  Sequential'
  <2>1. /\ pc[r] = "create_payment" /\ pc'[r] = "record_payment"
        /\ \A q \in Requests \ {r} : pc'[q] = pc[q]
        /\ UNCHANGED <<confirmations, payments, target, answer, prev>>
    BY <1>5 DEF CreatePayment, GoTo, dbVars, IInv, TypeOK
  <2>2. RowsKnown'
    BY <2>1 DEF Sequential, RowsKnown
  <2>3. ASSUME NEW o \in Orders, OneRow(o)'
        PROVE  ConfirmedOnce(o)'
    BY <1>1, <2>1, <2>3 DEF ConfirmedOnce, PaidRow
  <2> QED
    BY <2>2, <2>3 DEF Sequential
<1>6. ASSUME NEW r \in Requests, RecordPayment(r)
      PROVE  Sequential'
  <2>1. /\ pc[r] = "record_payment" /\ pc'[r] = "ok"
        /\ \A q \in Requests \ {r} : pc'[q] = pc[q] /\ pc[q] \in Finished
        /\ UNCHANGED <<confirmations, target, answer, prev>>
    BY <1>2, <1>6 DEF RecordPayment, GoTo, Finished, IInv, TypeOK
  <2>2. /\ payments'[target[r]][r] = "initiated" /\ payments[target[r]][r] = "none"
        /\ \A o \in Orders, q \in Requests :
             o # target[r] \/ q # r => payments'[o][q] = payments[o][q]
    BY <1>6 DEF RecordPayment, Sequential, RowsKnown, Finished, IInv, TypeOK, Located
  <2>3. RowsKnown'
    BY <2>1, <2>2 DEF Sequential, RowsKnown, Finished
  <2>4. ASSUME NEW o \in Orders, OneRow(o)', o = target[r]
        PROVE  ConfirmedOnce(o)'
    <3>1. \A q \in Requests : payments[o][q] = "none"
      BY <2>2, <2>4 DEF OneRow
    <3>2. confirmations[o] = {}
      BY <1>1, <2>4, <3>1 DEF ConfirmedOnce, PaidRow
    <3> QED
      BY <2>1, <3>2 DEF ConfirmedOnce, Finished
  <2>5. ASSUME NEW o \in Orders, OneRow(o)', o # target[r]
        PROVE  ConfirmedOnce(o)'
    BY <1>1, <2>1, <2>2, <2>5 DEF ConfirmedOnce, PaidRow, Finished
  <2> QED
    BY <2>3, <2>4, <2>5 DEF Sequential
<1>7. ASSUME NEW r \in Requests, GetPayment(r)
      PROVE  Sequential'
  <2>1. /\ pc'[r] = "select_row" /\ answer'[r] = provider[target[r]]
        /\ \A q \in Requests \ {r} : pc'[q] = pc[q] /\ answer'[q] = answer[q]
        /\ UNCHANGED <<confirmations, payments, target, prev>>
    BY <1>7 DEF GetPayment, GoTo, dbVars, IInv, TypeOK
  <2>2. confirmations[target[r]] # {} => answer'[r] = "completed"
    BY <1>7, <2>1 DEF GetPayment, DatabaseTrue, IInv, TypeOK, Located
  <2>3. RowsKnown'
    BY <2>1 DEF Sequential, RowsKnown
  <2>4. ASSUME NEW o \in Orders, OneRow(o)'
        PROVE  ConfirmedOnce(o)'
    BY <1>1, <2>1, <2>2, <2>4 DEF ConfirmedOnce, PaidRow
  <2> QED
    BY <2>3, <2>4 DEF Sequential
<1>8. ASSUME NEW r \in Requests, SelectRow(r)
      PROVE  Sequential'
  <2>1. /\ pc[r] = "select_row" /\ pc'[r] = "update_row"
        /\ \A q \in Requests \ {r} : pc'[q] = pc[q] /\ prev'[q] = prev[q]
        /\ UNCHANGED <<confirmations, payments, target, answer>>
    BY <1>8 DEF SelectRow, GoTo, dbVars, IInv, TypeOK
  <2>2. PICK q \in Requests : payments[target[r]][q] # "none" /\ prev'[r] = payments[target[r]][q]
    BY <1>8 DEF SelectRow, RowStatuses, IInv, TypeOK
  <2>3. RowsKnown'
    BY <2>1, <2>2 DEF Sequential, RowsKnown
  <2>4. ASSUME NEW o \in Orders, OneRow(o)'
        PROVE  ConfirmedOnce(o)'
    BY <1>1, <2>1, <2>2, <2>4 DEF ConfirmedOnce, PaidRow
  <2> QED
    BY <2>3, <2>4 DEF Sequential
<1>9. ASSUME NEW r \in Requests, UpdateRow(r)
      PROVE  Sequential'
  <2>1. /\ pc[r] = "update_row"
        /\ pc'[r] = IF Confirms(r) THEN "update_status" ELSE "ok"
        /\ \A q \in Requests \ {r} : pc'[q] = pc[q] /\ pc[q] \in Finished
        /\ UNCHANGED <<confirmations, target, answer, prev>>
    BY <1>2, <1>9 DEF UpdateRow, GoTo, Finished, IInv, TypeOK
  <2>2. /\ \A q \in Requests : payments'[target[r]][q] =
             IF payments[target[r]][q] = "none" THEN "none" ELSE NewStatus(answer[r])
        /\ \A o \in Orders : o # target[r] => payments'[o] = payments[o]
    BY <1>9 DEF UpdateRow, SetRows, Finished, IInv, TypeOK, Located
  <2>3. RowsKnown'
    <3>1. \A q \in Requests, o \in Orders : payments[o][q] = "none" => payments'[o][q] = "none"
      BY <2>2
    <3> QED
      BY <2>1, <3>1 DEF Sequential, RowsKnown, Finished
  <2>4. ASSUME NEW o \in Orders, OneRow(o)', o = target[r]
        PROVE  ConfirmedOnce(o)'
    <3>1. PICK q \in Requests : payments[o][q] # "none"
      BY <2>1, <2>4 DEF Sequential, RowsKnown
    <3>2. NewStatus(answer[r]) = "success" => PaidRow(o)'
      BY <2>2, <2>4, <3>1 DEF PaidRow
    <3>3. confirmations[o] # {} => NewStatus(answer[r]) = "success" /\ ~ Confirms(r)
      BY <1>1, <2>1, <2>4 DEF ConfirmedOnce, NewStatus, Confirms
    <3>4. Confirms(r) => NewStatus(answer[r]) = "success" /\ confirmations[o] = {}
      BY <3>3 DEF Confirms
    <3>5. \A s \in confirmations[o], t \in confirmations[o] : s = t
      BY <1>1, <2>4 DEF ConfirmedOnce
    <3> QED
      BY <2>1, <2>4, <3>2, <3>3, <3>4, <3>5 DEF ConfirmedOnce, Finished
  <2>5. ASSUME NEW o \in Orders, OneRow(o)', o # target[r]
        PROVE  ConfirmedOnce(o)'
    BY <1>1, <2>1, <2>2, <2>5 DEF ConfirmedOnce, PaidRow, Finished
  <2> QED
    BY <2>3, <2>4, <2>5 DEF Sequential
<1>10. ASSUME NEW r \in Requests, UpdateStatus(r)
       PROVE  Sequential'
  <2>1. /\ pc[r] = "update_status" /\ pc'[r] \in {"notify", "ok"}
        /\ \A q \in Requests \ {r} : pc'[q] = pc[q] /\ pc[q] \in Finished
        /\ UNCHANGED <<payments, target, answer, prev>>
    BY <1>2, <1>10 DEF UpdateStatus, GoTo, Finished, IInv, TypeOK
  <2>2. /\ confirmations'[target[r]] = confirmations[target[r]] \cup {r}
        /\ \A o \in Orders : o # target[r] => confirmations'[o] = confirmations[o]
    BY <1>10 DEF UpdateStatus, IInv, TypeOK, Located
  <2>3. RowsKnown'
    BY <2>1 DEF Sequential, RowsKnown
  <2>4. ASSUME NEW o \in Orders, OneRow(o)', o = target[r]
        PROVE  ConfirmedOnce(o)'
    <3>1. PaidRow(o) /\ confirmations[o] = {}
      BY <1>1, <2>1, <2>4 DEF ConfirmedOnce
    <3>2. PaidRow(o)' /\ confirmations'[o] = {r}
      BY <2>1, <2>2, <2>4, <3>1 DEF PaidRow
    <3> QED
      BY <2>1, <3>2 DEF ConfirmedOnce, Finished
  <2>5. ASSUME NEW o \in Orders, OneRow(o)', o # target[r]
        PROVE  ConfirmedOnce(o)'
    BY <1>1, <2>1, <2>2, <2>5 DEF ConfirmedOnce, PaidRow, Finished
  <2> QED
    BY <2>3, <2>4, <2>5 DEF Sequential
<1>11. ASSUME NEW r \in Requests,
              SendDeliveryEmail(r) \/ SkipDeliveryEmail(r) \/ Abort(r) \/ FailUpdateStatus(r)
       PROVE  Sequential'
  <2>1. /\ pc'[r] \in {"ok", "error", "unconfirmed"}
        /\ \A q \in Requests \ {r} : pc'[q] = pc[q]
        /\ UNCHANGED <<confirmations, payments, target, answer, prev>>
    BY <1>11 DEF SendDeliveryEmail, SkipDeliveryEmail, Abort, FailUpdateStatus, GoTo, dbVars,
       IInv, TypeOK
  <2>2. RowsKnown'
    BY <2>1 DEF Sequential, RowsKnown
  <2>3. ASSUME NEW o \in Orders, OneRow(o)'
        PROVE  ConfirmedOnce(o)'
    BY <1>1, <2>1, <2>3 DEF ConfirmedOnce, PaidRow
  <2> QED
    BY <2>2, <2>3 DEF Sequential
<1> QED
  BY <1>3, <1>4, <1>5, <1>6, <1>7, <1>8, <1>9, <1>10, <1>11
     DEF Next, Serve, CreateOrder, OrderDelivery, ProviderAdvance, SetStatus, vars, dbVars

\* The comment's "exactly once" is true, as "at most once", of requests served
\* one after the other about an order whose payment was initiated once, with any
\* repetition, loss or failure of callbacks: a second email takes two requests
\* that overlap, or a second payment row.
THEOREM OnceWithoutOverlap ==
  Spec /\ []OneAtATime => [](\A o \in Orders : OneRow(o) => \A r, s \in mailed[o] : r = s)
<1>1. Init => Sequential
  BY DEF Init, Sequential, RowsKnown, ConfirmedOnce
<1>2. IInv /\ Sequential => \A o \in Orders : OneRow(o) => \A r, s \in mailed[o] : r = s
  BY DEF IInv, MailTrue, MailFollowsConfirmation, Sequential, ConfirmedOnce
<1> QED
  BY <1>1, <1>2, SequentialStep, Inductive, PTL DEF Spec

=============================================================================
