------------------------ MODULE DomainPurchase_proofs ------------------------
(***************************************************************************)
(* Theorems about DomainPurchase, for any sets of purchases, names and     *)
(* callbacks.                                                              *)
(***************************************************************************)
EXTENDS DomainPurchase, TLAPS

-----------------------------------------------------------------------------
(* The inductive invariant *)

\* A purchase's row comes after its payment was opened, and a name it has from
\* the start.
RowsComeLast ==
  \A p \in Purchases :
    /\ purchasePc[p] \in {"idle", "create_payment", "existing"} => provider[p] = "absent"
    /\ purchasePc[p] # "idle" => name[p] \in Names
    /\ row[p] # "none" => purchasePc[p] \in {"done", "existing"}

\* What a callback is about to do rests on what the provider has said for
\* good, on a row that exists and, when it is to write "active", on a name it
\* has bought.
CallbacksKnow ==
  \A c \in Callbacks :
    /\ pc[c] # "idle" => purchase[c] \in Purchases /\ provider[purchase[c]] # "absent"
    /\ pc[c] \in {"look_up", "register", "set_active", "set_failed"} =>
         provider[purchase[c]] = "completed"
    /\ pc[c] = "mark_failed" => provider[purchase[c]] \in {"failed", "cancelled"}
    /\ pc[c] \in {"register", "set_active", "set_failed"} => row[purchase[c]] # "none"
    /\ pc[c] = "set_active" => owner[name[purchase[c]]] = purchase[c]
    /\ pc[c] \in {"set_active", "set_failed"} => c \in asked[purchase[c]]

\* A callback that has asked the registrar is past that point, for the one
\* purchase it is about.
AskedAreKnown ==
  \A p \in Purchases : \A c \in asked[p] :
    /\ purchase[c] = p /\ row[p] # "none"
    /\ pc[c] \in {"set_active", "set_failed", "ok", "error"}

\* A name that was bought, and whose buyer had an answer, has a callback that
\* is not on its way to write "failed"; and a row reads "failed" for a payment
\* that failed, or after a callback asked.
BuyerIsKnown ==
  \A p \in Purchases :
    /\ BoughtFor(p) => p \in unanswered \/ \E c \in asked[p] : pc[c] # "set_failed"
    /\ row[p] = "failed" => asked[p] # {} \/ provider[p] \in {"failed", "cancelled"}

IInv ==
  /\ TypeOK /\ RowsComeLast /\ CallbacksKnow /\ AskedAreKnown /\ BuyerIsKnown
  /\ NeverBoughtUnpaid /\ ActiveIsBought /\ AnsweredIsSettled /\ FailedThoughBought

\* IInv, with the types, holds in every reachable state.
THEOREM Inductive == Spec => []IInv
<1> USE DomainPurchaseAssumption DEF IInv, rowVars, callbackVars, registrarVars
<1>1. Init => IInv
  <2>1. Init => TypeOK
    BY DEF Init, TypeOK, RowStatuses, ProviderStatuses, Steps, Finished
  <2>2. Init => RowsComeLast /\ CallbacksKnow /\ AskedAreKnown
    BY DEF Init, RowsComeLast, CallbacksKnow, AskedAreKnown
  <2>3. Init => BuyerIsKnown /\ NeverBoughtUnpaid /\ FailedThoughBought
    BY DEF Init, BuyerIsKnown, NeverBoughtUnpaid, FailedThoughBought, BoughtFor
  <2>4. Init => ActiveIsBought /\ AnsweredIsSettled
    BY DEF Init, ActiveIsBought, AnsweredIsSettled
  <2> QED
    BY <2>1, <2>2, <2>3, <2>4
<1>2. IInv /\ [Next]_vars => IInv'
  <2> SUFFICES ASSUME IInv, [Next]_vars
               PROVE  IInv'
    OBVIOUS
  <2>1. ASSUME NEW p \in Purchases, NEW n \in Names, RegisterExisting(p, n)
        PROVE  IInv'
    <3>1. TypeOK'
      BY <2>1 DEF RegisterExisting, TypeOK, CallbacksKnow, RowStatuses, ProviderStatuses, Steps, Finished
    <3>2. RowsComeLast' /\ AskedAreKnown'
      BY <2>1 DEF RegisterExisting, TypeOK, RowsComeLast, CallbacksKnow, AskedAreKnown
    <3>3. CallbacksKnow'
      BY <2>1 DEF RegisterExisting, TypeOK, RowsComeLast, CallbacksKnow, AskedAreKnown
    <3>4. NeverBoughtUnpaid' /\ ActiveIsBought'
      BY <2>1 DEF RegisterExisting, TypeOK, RowsComeLast, CallbacksKnow, NeverBoughtUnpaid, ActiveIsBought,
         BoughtFor
    <3>5. AnsweredIsSettled'
      BY <2>1 DEF RegisterExisting, TypeOK, RowsComeLast, CallbacksKnow, AskedAreKnown, AnsweredIsSettled
    <3>6. BuyerIsKnown' /\ FailedThoughBought'
      BY <2>1 DEF RegisterExisting, TypeOK, RowsComeLast, CallbacksKnow, AskedAreKnown, BuyerIsKnown,
         NeverBoughtUnpaid, FailedThoughBought, BoughtFor, AskedTwice
    <3> QED
      BY <3>1, <3>2, <3>3, <3>4, <3>5, <3>6
  <2>2. ASSUME NEW p \in Purchases, NEW n \in Names, InitiatePurchase(p, n)
        PROVE  IInv'
    <3>1. TypeOK'
      BY <2>2 DEF InitiatePurchase, TypeOK, CallbacksKnow, RowStatuses, ProviderStatuses, Steps, Finished
    <3>2. RowsComeLast' /\ AskedAreKnown'
      BY <2>2 DEF InitiatePurchase, TypeOK, RowsComeLast, CallbacksKnow, AskedAreKnown
    <3>3. CallbacksKnow'
      BY <2>2 DEF InitiatePurchase, TypeOK, RowsComeLast, CallbacksKnow, AskedAreKnown
    <3>4. NeverBoughtUnpaid' /\ ActiveIsBought'
      BY <2>2 DEF InitiatePurchase, TypeOK, RowsComeLast, CallbacksKnow, NeverBoughtUnpaid, ActiveIsBought,
         BoughtFor
    <3>5. AnsweredIsSettled'
      BY <2>2 DEF InitiatePurchase, TypeOK, RowsComeLast, CallbacksKnow, AskedAreKnown, AnsweredIsSettled
    <3>6. BuyerIsKnown' /\ FailedThoughBought'
      BY <2>2 DEF InitiatePurchase, TypeOK, RowsComeLast, CallbacksKnow, AskedAreKnown, BuyerIsKnown,
         NeverBoughtUnpaid, FailedThoughBought, BoughtFor, AskedTwice
    <3> QED
      BY <3>1, <3>2, <3>3, <3>4, <3>5, <3>6
  <2>3. ASSUME NEW p \in Purchases, CreatePayment(p)
        PROVE  IInv'
    <3>1. TypeOK'
      BY <2>3 DEF CreatePayment, TypeOK, CallbacksKnow, RowStatuses, ProviderStatuses, Steps, Finished
    <3>2. RowsComeLast' /\ AskedAreKnown'
      BY <2>3 DEF CreatePayment, TypeOK, RowsComeLast, CallbacksKnow, AskedAreKnown
    <3>3. CallbacksKnow'
      BY <2>3 DEF CreatePayment, TypeOK, RowsComeLast, CallbacksKnow, AskedAreKnown
    <3>4. NeverBoughtUnpaid' /\ ActiveIsBought'
      BY <2>3 DEF CreatePayment, TypeOK, RowsComeLast, CallbacksKnow, NeverBoughtUnpaid, ActiveIsBought,
         BoughtFor
    <3>5. AnsweredIsSettled'
      BY <2>3 DEF CreatePayment, TypeOK, RowsComeLast, CallbacksKnow, AskedAreKnown, AnsweredIsSettled
    <3>6. BuyerIsKnown' /\ FailedThoughBought'
      BY <2>3 DEF CreatePayment, TypeOK, RowsComeLast, CallbacksKnow, AskedAreKnown, BuyerIsKnown,
         NeverBoughtUnpaid, FailedThoughBought, BoughtFor, AskedTwice
    <3> QED
      BY <3>1, <3>2, <3>3, <3>4, <3>5, <3>6
  <2>4. ASSUME NEW p \in Purchases, InsertPurchase(p)
        PROVE  IInv'
    <3>1. TypeOK'
      BY <2>4 DEF InsertPurchase, TypeOK, CallbacksKnow, RowStatuses, ProviderStatuses, Steps, Finished
    <3>2. RowsComeLast' /\ AskedAreKnown'
      BY <2>4 DEF InsertPurchase, TypeOK, RowsComeLast, CallbacksKnow, AskedAreKnown
    <3>3. CallbacksKnow'
      BY <2>4 DEF InsertPurchase, TypeOK, RowsComeLast, CallbacksKnow, AskedAreKnown
    <3>4. NeverBoughtUnpaid' /\ ActiveIsBought'
      BY <2>4 DEF InsertPurchase, TypeOK, RowsComeLast, CallbacksKnow, NeverBoughtUnpaid, ActiveIsBought,
         BoughtFor
    <3>5. AnsweredIsSettled'
      BY <2>4 DEF InsertPurchase, TypeOK, RowsComeLast, CallbacksKnow, AskedAreKnown, AnsweredIsSettled
    <3>6. BuyerIsKnown' /\ FailedThoughBought'
      BY <2>4 DEF InsertPurchase, TypeOK, RowsComeLast, CallbacksKnow, AskedAreKnown, BuyerIsKnown,
         NeverBoughtUnpaid, FailedThoughBought, BoughtFor, AskedTwice
    <3> QED
      BY <3>1, <3>2, <3>3, <3>4, <3>5, <3>6
  <2>5. ASSUME NEW p \in Purchases, LosePurchase(p)
        PROVE  IInv'
    <3>1. TypeOK'
      BY <2>5 DEF LosePurchase, TypeOK, CallbacksKnow, RowStatuses, ProviderStatuses, Steps, Finished
    <3>2. RowsComeLast' /\ AskedAreKnown'
      BY <2>5 DEF LosePurchase, TypeOK, RowsComeLast, CallbacksKnow, AskedAreKnown
    <3>3. CallbacksKnow'
      BY <2>5 DEF LosePurchase, TypeOK, RowsComeLast, CallbacksKnow, AskedAreKnown
    <3>4. NeverBoughtUnpaid' /\ ActiveIsBought'
      BY <2>5 DEF LosePurchase, TypeOK, RowsComeLast, CallbacksKnow, NeverBoughtUnpaid, ActiveIsBought,
         BoughtFor
    <3>5. AnsweredIsSettled'
      BY <2>5 DEF LosePurchase, TypeOK, RowsComeLast, CallbacksKnow, AskedAreKnown, AnsweredIsSettled
    <3>6. BuyerIsKnown' /\ FailedThoughBought'
      BY <2>5 DEF LosePurchase, TypeOK, RowsComeLast, CallbacksKnow, AskedAreKnown, BuyerIsKnown,
         NeverBoughtUnpaid, FailedThoughBought, BoughtFor, AskedTwice
    <3> QED
      BY <3>1, <3>2, <3>3, <3>4, <3>5, <3>6
  <2>6. ASSUME NEW p \in Purchases, ProviderAdvance(p)
        PROVE  IInv'
    <3>1. TypeOK'
      BY <2>6 DEF ProviderAdvance, TypeOK, CallbacksKnow, RowStatuses, ProviderStatuses, Steps, Finished
    <3>2. RowsComeLast' /\ AskedAreKnown'
      BY <2>6 DEF ProviderAdvance, TypeOK, RowsComeLast, CallbacksKnow, AskedAreKnown
    <3>3. CallbacksKnow'
      BY <2>6 DEF ProviderAdvance, TypeOK, RowsComeLast, CallbacksKnow, AskedAreKnown
    <3>4. NeverBoughtUnpaid' /\ ActiveIsBought'
      BY <2>6 DEF ProviderAdvance, TypeOK, RowsComeLast, CallbacksKnow, NeverBoughtUnpaid, ActiveIsBought,
         BoughtFor
    <3>5. AnsweredIsSettled'
      BY <2>6 DEF ProviderAdvance, TypeOK, RowsComeLast, CallbacksKnow, AskedAreKnown, AnsweredIsSettled
    <3>6. BuyerIsKnown' /\ FailedThoughBought'
      BY <2>6 DEF ProviderAdvance, TypeOK, RowsComeLast, CallbacksKnow, AskedAreKnown, BuyerIsKnown,
         NeverBoughtUnpaid, FailedThoughBought, BoughtFor, AskedTwice
    <3> QED
      BY <3>1, <3>2, <3>3, <3>4, <3>5, <3>6
  <2>7. ASSUME NEW c \in Callbacks, NEW p \in Purchases, HandleWebhook(c, p)
        PROVE  IInv'
    <3>1. TypeOK'
      BY <2>7 DEF HandleWebhook, GoTo, TypeOK, CallbacksKnow, RowStatuses, ProviderStatuses, Steps, Finished
    <3>2. RowsComeLast' /\ AskedAreKnown'
      BY <2>7 DEF HandleWebhook, GoTo, TypeOK, RowsComeLast, CallbacksKnow, AskedAreKnown
    <3>3. CallbacksKnow'
      BY <2>7 DEF HandleWebhook, GoTo, TypeOK, RowsComeLast, CallbacksKnow, AskedAreKnown
    <3>4. NeverBoughtUnpaid' /\ ActiveIsBought'
      BY <2>7 DEF HandleWebhook, GoTo, TypeOK, RowsComeLast, CallbacksKnow, NeverBoughtUnpaid, ActiveIsBought,
         BoughtFor
    <3>5. AnsweredIsSettled'
      BY <2>7 DEF HandleWebhook, GoTo, TypeOK, RowsComeLast, CallbacksKnow, AskedAreKnown, AnsweredIsSettled
    <3>6. BuyerIsKnown' /\ FailedThoughBought'
      BY <2>7 DEF HandleWebhook, GoTo, TypeOK, RowsComeLast, CallbacksKnow, AskedAreKnown, BuyerIsKnown,
         NeverBoughtUnpaid, FailedThoughBought, BoughtFor, AskedTwice
    <3> QED
      BY <3>1, <3>2, <3>3, <3>4, <3>5, <3>6
  <2>8. ASSUME NEW c \in Callbacks, GetPayment(c)
        PROVE  IInv'
    <3>1. TypeOK'
      BY <2>8 DEF GetPayment, GoTo, Verdict, TypeOK, CallbacksKnow, RowStatuses, ProviderStatuses, Steps, Finished
    <3>2. RowsComeLast' /\ AskedAreKnown'
      BY <2>8 DEF GetPayment, GoTo, Verdict, TypeOK, RowsComeLast, CallbacksKnow, AskedAreKnown
    <3>3. CallbacksKnow'
      BY <2>8 DEF GetPayment, GoTo, Verdict, TypeOK, RowsComeLast, CallbacksKnow, AskedAreKnown
    <3>4. NeverBoughtUnpaid' /\ ActiveIsBought'
      BY <2>8 DEF GetPayment, GoTo, Verdict, TypeOK, RowsComeLast, CallbacksKnow, NeverBoughtUnpaid, ActiveIsBought,
         BoughtFor
    <3>5. AnsweredIsSettled'
      BY <2>8 DEF GetPayment, GoTo, Verdict, TypeOK, RowsComeLast, CallbacksKnow, AskedAreKnown, AnsweredIsSettled
    <3>6. BuyerIsKnown' /\ FailedThoughBought'
      BY <2>8 DEF GetPayment, GoTo, Verdict, TypeOK, RowsComeLast, CallbacksKnow, AskedAreKnown, BuyerIsKnown,
         NeverBoughtUnpaid, FailedThoughBought, BoughtFor, AskedTwice
    <3> QED
      BY <3>1, <3>2, <3>3, <3>4, <3>5, <3>6
  <2>9. ASSUME NEW c \in Callbacks, LookUp(c)
        PROVE  IInv'
    <3>1. TypeOK'
      BY <2>9 DEF LookUp, GoTo, TypeOK, CallbacksKnow, RowStatuses, ProviderStatuses, Steps, Finished
    <3>2. RowsComeLast' /\ AskedAreKnown'
      BY <2>9 DEF LookUp, GoTo, TypeOK, RowsComeLast, CallbacksKnow, AskedAreKnown
    <3>3. CallbacksKnow'
      BY <2>9 DEF LookUp, GoTo, TypeOK, RowsComeLast, CallbacksKnow, AskedAreKnown
    <3>4. NeverBoughtUnpaid' /\ ActiveIsBought'
      BY <2>9 DEF LookUp, GoTo, TypeOK, RowsComeLast, CallbacksKnow, NeverBoughtUnpaid, ActiveIsBought,
         BoughtFor
    <3>5. AnsweredIsSettled'
      BY <2>9 DEF LookUp, GoTo, TypeOK, RowsComeLast, CallbacksKnow, AskedAreKnown, AnsweredIsSettled
    <3>6. BuyerIsKnown' /\ FailedThoughBought'
      BY <2>9 DEF LookUp, GoTo, TypeOK, RowsComeLast, CallbacksKnow, AskedAreKnown, BuyerIsKnown,
         NeverBoughtUnpaid, FailedThoughBought, BoughtFor, AskedTwice
    <3> QED
      BY <3>1, <3>2, <3>3, <3>4, <3>5, <3>6
  <2>10. ASSUME NEW c \in Callbacks, Register(c)
        PROVE  IInv'
    <3>1. TypeOK'
      BY <2>10 DEF Register, GoTo, Bought, Refused, TypeOK, CallbacksKnow, RowStatuses, ProviderStatuses, Steps, Finished
    <3>2. RowsComeLast' /\ AskedAreKnown'
      BY <2>10 DEF Register, GoTo, Bought, Refused, TypeOK, RowsComeLast, CallbacksKnow, AskedAreKnown
    <3>3. CallbacksKnow'
      BY <2>10 DEF Register, GoTo, Bought, Refused, TypeOK, RowsComeLast, CallbacksKnow, AskedAreKnown
    <3>4. NeverBoughtUnpaid' /\ ActiveIsBought'
      BY <2>10 DEF Register, GoTo, Bought, Refused, TypeOK, RowsComeLast, CallbacksKnow, NeverBoughtUnpaid, ActiveIsBought,
         BoughtFor
    <3>5. AnsweredIsSettled'
      BY <2>10 DEF Register, GoTo, Bought, Refused, TypeOK, RowsComeLast, CallbacksKnow, AskedAreKnown, AnsweredIsSettled
    <3>6. BuyerIsKnown' /\ FailedThoughBought'
      BY <2>10 DEF Register, GoTo, Bought, Refused, TypeOK, RowsComeLast, CallbacksKnow, AskedAreKnown, BuyerIsKnown,
         NeverBoughtUnpaid, FailedThoughBought, BoughtFor, AskedTwice
    <3> QED
      BY <3>1, <3>2, <3>3, <3>4, <3>5, <3>6
  <2>11. ASSUME NEW c \in Callbacks, SetActive(c)
        PROVE  IInv'
    <3>1. TypeOK'
      BY <2>11 DEF SetActive, GoTo, TypeOK, CallbacksKnow, RowStatuses, ProviderStatuses, Steps, Finished
    <3>2. RowsComeLast' /\ AskedAreKnown'
      BY <2>11 DEF SetActive, GoTo, TypeOK, RowsComeLast, CallbacksKnow, AskedAreKnown
    <3>3. CallbacksKnow'
      BY <2>11 DEF SetActive, GoTo, TypeOK, RowsComeLast, CallbacksKnow, AskedAreKnown
    <3>4. NeverBoughtUnpaid' /\ ActiveIsBought'
      BY <2>11 DEF SetActive, GoTo, TypeOK, RowsComeLast, CallbacksKnow, NeverBoughtUnpaid, ActiveIsBought,
         BoughtFor
    <3>5. AnsweredIsSettled'
      BY <2>11 DEF SetActive, GoTo, TypeOK, RowsComeLast, CallbacksKnow, AskedAreKnown, AnsweredIsSettled
    <3>6. BuyerIsKnown' /\ FailedThoughBought'
      BY <2>11 DEF SetActive, GoTo, TypeOK, RowsComeLast, CallbacksKnow, AskedAreKnown, BuyerIsKnown,
         NeverBoughtUnpaid, FailedThoughBought, BoughtFor, AskedTwice
    <3> QED
      BY <3>1, <3>2, <3>3, <3>4, <3>5, <3>6
  <2>12. ASSUME NEW c \in Callbacks, SetFailed(c)
        PROVE  IInv'
    <3>1. TypeOK'
      BY <2>12 DEF SetFailed, GoTo, TypeOK, CallbacksKnow, RowStatuses, ProviderStatuses, Steps, Finished
    <3>2. RowsComeLast' /\ AskedAreKnown'
      BY <2>12 DEF SetFailed, GoTo, TypeOK, RowsComeLast, CallbacksKnow, AskedAreKnown
    <3>3. CallbacksKnow'
      BY <2>12 DEF SetFailed, GoTo, TypeOK, RowsComeLast, CallbacksKnow, AskedAreKnown
    <3>4. NeverBoughtUnpaid' /\ ActiveIsBought'
      BY <2>12 DEF SetFailed, GoTo, TypeOK, RowsComeLast, CallbacksKnow, NeverBoughtUnpaid, ActiveIsBought,
         BoughtFor
    <3>5. AnsweredIsSettled'
      BY <2>12 DEF SetFailed, GoTo, TypeOK, RowsComeLast, CallbacksKnow, AskedAreKnown, AnsweredIsSettled
    <3>6. BuyerIsKnown' /\ FailedThoughBought'
      BY <2>12 DEF SetFailed, GoTo, TypeOK, RowsComeLast, CallbacksKnow, AskedAreKnown, BuyerIsKnown,
         NeverBoughtUnpaid, FailedThoughBought, BoughtFor, AskedTwice
    <3> QED
      BY <3>1, <3>2, <3>3, <3>4, <3>5, <3>6
  <2>13. ASSUME NEW c \in Callbacks, MarkFailed(c)
        PROVE  IInv'
    <3>1. TypeOK'
      BY <2>13 DEF MarkFailed, GoTo, TypeOK, CallbacksKnow, RowStatuses, ProviderStatuses, Steps, Finished
    <3>2. RowsComeLast' /\ AskedAreKnown'
      BY <2>13 DEF MarkFailed, GoTo, TypeOK, RowsComeLast, CallbacksKnow, AskedAreKnown
    <3>3. CallbacksKnow'
      BY <2>13 DEF MarkFailed, GoTo, TypeOK, RowsComeLast, CallbacksKnow, AskedAreKnown
    <3>4. NeverBoughtUnpaid' /\ ActiveIsBought'
      BY <2>13 DEF MarkFailed, GoTo, TypeOK, RowsComeLast, CallbacksKnow, NeverBoughtUnpaid, ActiveIsBought,
         BoughtFor
    <3>5. AnsweredIsSettled'
      BY <2>13 DEF MarkFailed, GoTo, TypeOK, RowsComeLast, CallbacksKnow, AskedAreKnown, AnsweredIsSettled
    <3>6. BuyerIsKnown' /\ FailedThoughBought'
      BY <2>13 DEF MarkFailed, GoTo, TypeOK, RowsComeLast, CallbacksKnow, AskedAreKnown, BuyerIsKnown,
         NeverBoughtUnpaid, FailedThoughBought, BoughtFor, AskedTwice
    <3> QED
      BY <3>1, <3>2, <3>3, <3>4, <3>5, <3>6
  <2>14. ASSUME NEW c \in Callbacks, Reject(c)
        PROVE  IInv'
    <3>1. TypeOK'
      BY <2>14 DEF Reject, GoTo, Finished, TypeOK, CallbacksKnow, RowStatuses, ProviderStatuses, Steps, Finished
    <3>2. RowsComeLast' /\ AskedAreKnown'
      BY <2>14 DEF Reject, GoTo, Finished, TypeOK, RowsComeLast, CallbacksKnow, AskedAreKnown
    <3>3. CallbacksKnow'
      BY <2>14 DEF Reject, GoTo, Finished, TypeOK, RowsComeLast, CallbacksKnow, AskedAreKnown
    <3>4. NeverBoughtUnpaid' /\ ActiveIsBought'
      BY <2>14 DEF Reject, GoTo, Finished, TypeOK, RowsComeLast, CallbacksKnow, NeverBoughtUnpaid, ActiveIsBought,
         BoughtFor
    <3>5. AnsweredIsSettled'
      BY <2>14 DEF Reject, GoTo, Finished, TypeOK, RowsComeLast, CallbacksKnow, AskedAreKnown, AnsweredIsSettled
    <3>6. BuyerIsKnown' /\ FailedThoughBought'
      BY <2>14 DEF Reject, GoTo, Finished, TypeOK, RowsComeLast, CallbacksKnow, AskedAreKnown, BuyerIsKnown,
         NeverBoughtUnpaid, FailedThoughBought, BoughtFor, AskedTwice
    <3> QED
      BY <3>1, <3>2, <3>3, <3>4, <3>5, <3>6
  <2>15. ASSUME NEW n \in Names, BoughtByOther(n)
        PROVE  IInv'
    <3>1. TypeOK'
      BY <2>15 DEF BoughtByOther, TypeOK, CallbacksKnow, RowStatuses, ProviderStatuses, Steps, Finished
    <3>2. RowsComeLast' /\ AskedAreKnown'
      BY <2>15 DEF BoughtByOther, TypeOK, RowsComeLast, CallbacksKnow, AskedAreKnown
    <3>3. CallbacksKnow'
      BY <2>15 DEF BoughtByOther, TypeOK, RowsComeLast, CallbacksKnow, AskedAreKnown
    <3>4. NeverBoughtUnpaid' /\ ActiveIsBought'
      BY <2>15 DEF BoughtByOther, TypeOK, RowsComeLast, CallbacksKnow, NeverBoughtUnpaid, ActiveIsBought,
         BoughtFor
    <3>5. AnsweredIsSettled'
      BY <2>15 DEF BoughtByOther, TypeOK, RowsComeLast, CallbacksKnow, AskedAreKnown, AnsweredIsSettled
    <3>6. BuyerIsKnown' /\ FailedThoughBought'
      BY <2>15 DEF BoughtByOther, TypeOK, RowsComeLast, CallbacksKnow, AskedAreKnown, BuyerIsKnown,
         NeverBoughtUnpaid, FailedThoughBought, BoughtFor, AskedTwice
    <3> QED
      BY <3>1, <3>2, <3>3, <3>4, <3>5, <3>6
  <2>16. CASE UNCHANGED vars
    BY <2>16 DEF vars, TypeOK, RowsComeLast, CallbacksKnow, AskedAreKnown, BuyerIsKnown,
       NeverBoughtUnpaid, ActiveIsBought, AnsweredIsSettled, FailedThoughBought, BoughtFor, AskedTwice
  <2> QED
    BY <2>1, <2>2, <2>3, <2>4, <2>5, <2>6, <2>7, <2>8, <2>9, <2>10, <2>11, <2>12, <2>13, <2>14, <2>15, <2>16 DEF Next
<1> QED
  BY <1>1, <1>2, PTL DEF Spec

-----------------------------------------------------------------------------
(* What follows *)

\* A name is bought only for a payment collected.
THEOREM NothingBoughtUnpaid == Spec => []NeverBoughtUnpaid
<1>1. IInv => NeverBoughtUnpaid
  BY DEF IInv
<1> QED
  BY <1>1, Inductive, PTL

\* A purchase shown as active owns its name.
THEOREM ActiveIsOwned == Spec => []ActiveIsBought
<1>1. IInv => ActiveIsBought
  BY DEF IInv
<1> QED
  BY <1>1, Inductive, PTL

\* A paid purchase whose callback was answered is no longer pending.
THEOREM AnswerIsAnOutcome == Spec => []AnsweredIsSettled
<1>1. IInv => AnsweredIsSettled
  BY DEF IInv
<1> QED
  BY <1>1, Inductive, PTL

\* A name bought is shown as failed only after a lost answer or a second attempt.
THEOREM OutcomeIsKnown == Spec => []FailedThoughBought
<1>1. IInv => FailedThoughBought
  BY DEF IInv
<1> QED
  BY <1>1, Inductive, PTL

\* Every value stays in its set.
THEOREM TypeCorrect == Spec => []TypeOK
<1>1. IInv => TypeOK
  BY DEF IInv
<1> QED
  BY <1>1, Inductive, PTL

-----------------------------------------------------------------------------
(* A purchase shown as active *)

\* It was made so by a callback that asked the registrar and has been answered.
ActiveWasAsked ==
  \A p \in Purchases :
    row[p] = "active" /\ purchasePc[p] # "existing" => \E c \in asked[p] : pc[c] = "ok"

\* Who is registered as existing was never asked for: no payment was opened.
LEMMA ActiveHasItsCallback == Spec => []ActiveWasAsked
<1>1. Init => ActiveWasAsked
  BY DEF Init, ActiveWasAsked
<1>2. IInv /\ ActiveWasAsked /\ [Next]_vars => ActiveWasAsked'
  <2> SUFFICES ASSUME IInv, ActiveWasAsked, [Next]_vars
               PROVE  ActiveWasAsked'
    OBVIOUS
  <2> USE DEF IInv, TypeOK, ActiveWasAsked, rowVars, callbackVars, registrarVars
  <2>1. CASE UNCHANGED <<row, purchasePc, pc, asked>>
    BY <2>1
  <2>2. ASSUME NEW p \in Purchases, NEW n \in Names,
               RegisterExisting(p, n) \/ InitiatePurchase(p, n)
        PROVE  ActiveWasAsked'
    BY <2>2 DEF RegisterExisting, InitiatePurchase, RowsComeLast
  <2>3. ASSUME NEW p \in Purchases, CreatePayment(p) \/ InsertPurchase(p) \/ LosePurchase(p)
        PROVE  ActiveWasAsked'
    BY <2>3 DEF CreatePayment, InsertPurchase, LosePurchase, RowsComeLast
  <2>4. ASSUME NEW c \in Callbacks,
               \/ GetPayment(c) \/ LookUp(c) \/ Reject(c)
               \/ \E p \in Purchases : HandleWebhook(c, p)
        PROVE  ActiveWasAsked'
    <3>1. /\ UNCHANGED <<row, purchasePc, asked>>
          /\ \A d \in Callbacks : pc[d] = "ok" => pc'[d] = "ok"
      BY <2>4 DEF GetPayment, LookUp, Reject, HandleWebhook, GoTo, Finished
    <3> QED
      BY <3>1
  <2>5. ASSUME NEW c \in Callbacks, Register(c)
        PROVE  ActiveWasAsked'
    <3>1. /\ UNCHANGED <<row, purchasePc>>
          /\ \A d \in Callbacks : pc[d] = "ok" => pc'[d] = "ok"
          /\ \A p \in Purchases : asked[p] \subseteq asked'[p]
      BY <2>5 DEF Register, Bought, Refused, GoTo
    <3> QED
      BY <3>1
  <2>6. ASSUME NEW c \in Callbacks, SetActive(c)
        PROVE  ActiveWasAsked'
    <3>1. c \in asked[purchase[c]] /\ pc'[c] = "ok"
      BY <2>6 DEF SetActive, GoTo, CallbacksKnow
    <3> QED
      BY <2>6, <3>1 DEF SetActive, GoTo
  <2>7. ASSUME NEW c \in Callbacks, SetFailed(c) \/ MarkFailed(c)
        PROVE  ActiveWasAsked'
    <3>1. /\ UNCHANGED <<purchasePc, asked>>
          /\ \A d \in Callbacks : pc[d] = "ok" => pc'[d] = "ok"
          /\ \A p \in Purchases : row'[p] = "active" => row[p] = "active"
      BY <2>7 DEF SetFailed, MarkFailed, GoTo
    <3> QED
      BY <3>1
  <2> QED
    BY <2>1, <2>2, <2>3, <2>4, <2>5, <2>6, <2>7
       DEF Next, ProviderAdvance, BoughtByOther, vars
<1> QED
  BY <1>1, <1>2, Inductive, PTL DEF Spec

\* What the comment on a replayed callback hopes for holds as long as there is
\* none: an active purchase is taken back only where two callbacks have asked
\* the registrar for the name (internal/domain/service.go, completePurchase).
THEOREM ReplayIsTheOnlyWay == Spec => OnlyAReplayUndoes
<1> DEFINE Excused == \A p \in Purchases :
                        row[p] = "active" /\ row'[p] # "active" => AskedTwice(p)
<1>1. IInv /\ ActiveWasAsked /\ [Next]_vars => Excused
  <2> SUFFICES ASSUME IInv, ActiveWasAsked, [Next]_vars,
                      NEW p \in Purchases, row[p] = "active", row'[p] # "active"
               PROVE  AskedTwice(p)
    OBVIOUS
  <2> USE DEF IInv, TypeOK
  <2>1. PICK c \in Callbacks : purchase[c] = p /\ (SetFailed(c) \/ MarkFailed(c))
    BY DEF Next, RegisterExisting, InitiatePurchase, CreatePayment, InsertPurchase, LosePurchase,
       ProviderAdvance, HandleWebhook, GetPayment, LookUp, Register, SetActive, SetFailed,
       MarkFailed, Reject, BoughtByOther, RowsComeLast, rowVars, vars
  <2>2. provider[p] # "absent"
    BY <2>1 DEF SetFailed, MarkFailed, CallbacksKnow
  <2>3. purchasePc[p] # "existing" /\ name[p] \in Names
    BY <2>2 DEF RowsComeLast
  <2>4. provider[p] = "completed"
    BY <2>3 DEF ActiveIsBought, NeverBoughtUnpaid, BoughtFor
  <2>5. c \in asked[p] /\ pc[c] = "set_failed"
    BY <2>1, <2>4 DEF SetFailed, MarkFailed, CallbacksKnow
  <2>6. PICK d \in asked[p] : pc[d] = "ok"
    BY <2>3 DEF ActiveWasAsked
  <2> QED
    BY <2>5, <2>6 DEF AskedTwice
<1> QED
  BY <1>1, Inductive, ActiveHasItsCallback, PTL DEF Spec, OnlyAReplayUndoes

=============================================================================
