--------------------------- MODULE DomainPurchase ---------------------------
(***************************************************************************)
(* The purchase of a domain name for a tenant: internal/domain and the     *)
(* handlers that drive it.  The tenant pays first, and the callback that   *)
(* confirms the payment makes an API replica buy the name from the         *)
(* registrar (Porkbun), on ABMCY's own account and for good.               *)
(*                                                                         *)
(* An action is one WithSystem transaction, or one call to the payment     *)
(* provider or to the registrar.  A request that fails, or whose process   *)
(* dies, stops where it is.                                                *)
(***************************************************************************)
CONSTANTS
  Purchases,  \* rows of tenant_domains that will ever be asked for
  Names,      \* domain names
  Callbacks   \* payment callbacks that will ever be delivered (bounds a run)

ASSUME DomainPurchaseAssumption == Purchases \cap {"free", "other"} = {}

VARIABLES
  row,          \* row[p]: tenant_domains.status, or "none"
  name,         \* name[p]: tenant_domains.domain
  provider,     \* provider[p]: the payment provider's record for external_ref
  purchasePc,   \* the RegisterExisting or InitiatePurchase call for p
  pc, purchase, \* the callbacks being handled, and the purchase of each
  owner,        \* owner[n]: at the registrar, "free", "other", or a purchase
  asked,        \* history: callbacks that asked the registrar for p's name
  unanswered    \* history: purchases made whose answer did not come back

rowVars == <<row, name, provider, purchasePc>>
callbackVars == <<pc, purchase>>
registrarVars == <<owner, asked, unanswered>>
vars == <<rowVars, callbackVars, registrarVars>>

RowStatuses == {"none", "pending", "active", "failed"}
ProviderStatuses == {"absent", "pending", "processing", "completed", "failed", "cancelled"}
Finished == {"idle", "ok", "error"}
Steps == Finished \cup {"get_payment", "look_up", "register", "set_active", "set_failed",
                        "mark_failed"}

TypeOK ==
  /\ row \in [Purchases -> RowStatuses]
  /\ name \in [Purchases -> Names \cup {"none"}]
  /\ provider \in [Purchases -> ProviderStatuses]
  /\ purchasePc \in [Purchases -> {"idle", "create_payment", "insert", "done", "existing"}]
  /\ pc \in [Callbacks -> Steps]
  /\ purchase \in [Callbacks -> Purchases \cup {"none"}]
  /\ owner \in [Names -> {"free", "other"} \cup Purchases]
  /\ asked \in [Purchases -> SUBSET Callbacks]
  /\ unanswered \subseteq Purchases

Init ==
  /\ row = [p \in Purchases |-> "none"]
  /\ name = [p \in Purchases |-> "none"]
  /\ provider = [p \in Purchases |-> "absent"]
  /\ purchasePc = [p \in Purchases |-> "idle"]
  /\ pc = [c \in Callbacks |-> "idle"]
  /\ purchase = [c \in Callbacks |-> "none"]
  /\ owner \in [Names -> {"free", "other"}]
  /\ asked = [p \in Purchases |-> {}]
  /\ unanswered = {}

-----------------------------------------------------------------------------
(* The tenant's requests *)

\* RegisterExisting: the tenant is trusted to own the name.  The row has no
\* external_ref, so no callback can find it.
RegisterExisting(p, n) ==
  /\ purchasePc[p] = "idle"
  /\ row' = [row EXCEPT ![p] = "active"]
  /\ name' = [name EXCEPT ![p] = n]
  /\ purchasePc' = [purchasePc EXCEPT ![p] = "existing"]
  /\ UNCHANGED <<provider, callbackVars, registrarVars>>

\* InitiatePurchase: the registrar says the name is available now.  Nothing
\* reserves it: another tenant, or anyone, may still buy it.
InitiatePurchase(p, n) ==
  /\ purchasePc[p] = "idle"
  /\ owner[n] = "free"
  /\ name' = [name EXCEPT ![p] = n]
  /\ purchasePc' = [purchasePc EXCEPT ![p] = "create_payment"]
  /\ UNCHANGED <<row, provider, callbackVars, registrarVars>>

CreatePayment(p) ==
  /\ purchasePc[p] = "create_payment"
  /\ provider' = [provider EXCEPT ![p] = "pending"]
  /\ purchasePc' = [purchasePc EXCEPT ![p] = "insert"]
  /\ UNCHANGED <<row, name, callbackVars, registrarVars>>

InsertPurchase(p) ==
  /\ purchasePc[p] = "insert"
  /\ row' = [row EXCEPT ![p] = "pending"]
  /\ purchasePc' = [purchasePc EXCEPT ![p] = "done"]
  /\ UNCHANGED <<name, provider, callbackVars, registrarVars>>

\* The request fails or its process dies: the provider may keep a payment
\* that no row records.
LosePurchase(p) ==
  /\ purchasePc[p] \in {"create_payment", "insert"}
  /\ purchasePc' = [purchasePc EXCEPT ![p] = "done"]
  /\ UNCHANGED <<row, name, provider, callbackVars, registrarVars>>

-----------------------------------------------------------------------------
(* POST /webhooks/abmcy-domain *)

GoTo(c, step) == pc' = [pc EXCEPT ![c] = step]

\* A signed callback arrives: late, repeated, or never.
HandleWebhook(c, p) ==
  /\ pc[c] = "idle"
  /\ provider[p] # "absent"
  /\ GoTo(c, "get_payment")
  /\ purchase' = [purchase EXCEPT ![c] = p]
  /\ UNCHANGED <<rowVars, registrarVars>>

\* Wrong forms of Verdict: the provider's word taken as it is; whatever is not
\* completed has failed; whatever has not failed is paid.
WrongStored(s) == s
WrongNotCompleted(s) == IF s = "completed" THEN "look_up" ELSE "mark_failed"
WrongNotFailed(s) == IF s \in {"failed", "cancelled"} THEN "mark_failed" ELSE "look_up"

\* HandleWebhook's switch: what to do for the provider's status s.
Verdict(s) ==
  IF s = "completed" THEN "look_up"
  ELSE IF s \in {"failed", "cancelled"} THEN "mark_failed"
  ELSE "ok"

\* GET /v1/payments/{app_ref}, and the switch on its answer.
GetPayment(c) ==
  /\ pc[c] = "get_payment"
  /\ GoTo(c, Verdict(provider[purchase[c]]))
  /\ UNCHANGED <<rowVars, purchase, registrarVars>>

\* completePurchase's first transaction: alreadyDone is read, nothing locked.
LookUp(c) ==
  /\ pc[c] = "look_up"
  /\ row[purchase[c]] # "none"
  /\ GoTo(c, IF row[purchase[c]] = "active" THEN "ok" ELSE "register")
  /\ UNCHANGED <<rowVars, purchase, registrarVars>>

\* The registrar sells the name, once, and bills ABMCY for it.  Its answer may
\* not come back within the client's 20 seconds, which is an error like a
\* refusal.
Bought(c) ==
  LET p == purchase[c] IN
  /\ owner[name[p]] = "free"
  /\ owner' = [owner EXCEPT ![name[p]] = p]
  /\ \/ /\ GoTo(c, "set_active")
        /\ UNCHANGED unanswered
     \/ /\ GoTo(c, "set_failed")
        /\ unanswered' = unanswered \cup {p}

\* The registrar refuses: the name is not free, the account has no funds, the
\* price has changed.
Refused(c) ==
  /\ GoTo(c, "set_failed")
  /\ UNCHANGED <<owner, unanswered>>

\* Wrong form of Register: the registrar's answer is not looked at.
WrongUnchecked(c) ==
  /\ pc[c] = "register"
  /\ asked' = [asked EXCEPT ![purchase[c]] = @ \cup {c}]
  /\ \/ Bought(c)
     \/ GoTo(c, "set_active") /\ UNCHANGED <<owner, unanswered>>
  /\ UNCHANGED <<rowVars, purchase>>

\* client.Register, and completePurchase's branch on its error.
Register(c) ==
  /\ pc[c] = "register"
  /\ asked' = [asked EXCEPT ![purchase[c]] = @ \cup {c}]
  /\ Bought(c) \/ Refused(c)
  /\ UNCHANGED <<rowVars, purchase>>

\* completePurchase's last transaction: by id, whatever the row says by now.
SetActive(c) ==
  /\ pc[c] = "set_active"
  /\ row' = [row EXCEPT ![purchase[c]] = "active"]
  /\ GoTo(c, "ok")
  /\ UNCHANGED <<name, provider, purchasePc, purchase, registrarVars>>

\* Wrong form of SetFailed: the refusal is logged and left at that.
WrongLogged(c) ==
  /\ pc[c] = "set_failed"
  /\ GoTo(c, "ok")
  /\ UNCHANGED <<rowVars, purchase, registrarVars>>

\* The transaction of the error branch; the callback is then answered 200.
SetFailed(c) ==
  /\ pc[c] = "set_failed"
  /\ row' = [row EXCEPT ![purchase[c]] = "failed"]
  /\ GoTo(c, "ok")
  /\ UNCHANGED <<name, provider, purchasePc, purchase, registrarVars>>

\* markFailed: an UPDATE that finds no row is no error.
MarkFailed(c) ==
  LET p == purchase[c] IN
  /\ pc[c] = "mark_failed"
  /\ row' = [row EXCEPT ![p] = IF @ = "none" THEN "none" ELSE "failed"]
  /\ GoTo(c, "ok")
  /\ UNCHANGED <<name, provider, purchasePc, purchase, registrarVars>>

\* No row, keys not configured, or the request fails or its process dies: the
\* provider gets an error, or no answer.
Reject(c) ==
  /\ pc[c] \notin Finished
  /\ GoTo(c, "error")
  /\ UNCHANGED <<rowVars, purchase, registrarVars>>

-----------------------------------------------------------------------------
(* The payment provider, and the rest of the world *)

\* The payment moves on at the provider's; its final statuses stay.
ProviderAdvance(p) ==
  /\ \/ provider[p] = "pending" /\ provider' = [provider EXCEPT ![p] = "processing"]
     \/ /\ provider[p] \in {"pending", "processing"}
        /\ \E end \in {"completed", "failed", "cancelled"} :
             provider' = [provider EXCEPT ![p] = end]
  /\ UNCHANGED <<row, name, purchasePc, callbackVars, registrarVars>>

\* Someone else buys the name.
BoughtByOther(n) ==
  /\ owner[n] = "free"
  /\ owner' = [owner EXCEPT ![n] = "other"]
  /\ UNCHANGED <<rowVars, callbackVars, asked, unanswered>>

-----------------------------------------------------------------------------

Next ==
  \/ \E p \in Purchases :
       \/ \E n \in Names : RegisterExisting(p, n) \/ InitiatePurchase(p, n)
       \/ CreatePayment(p) \/ InsertPurchase(p) \/ LosePurchase(p) \/ ProviderAdvance(p)
  \/ \E c \in Callbacks :
       \/ \E p \in Purchases : HandleWebhook(c, p)
       \/ GetPayment(c) \/ LookUp(c) \/ Register(c)
       \/ SetActive(c) \/ SetFailed(c) \/ MarkFailed(c) \/ Reject(c)
  \/ \E n \in Names : BoughtByOther(n)

Spec == Init /\ [][Next]_vars

-----------------------------------------------------------------------------
(* Properties *)

\* ABMCY has bought the name of p.
BoughtFor(p) == \E n \in Names : owner[n] = p

\* The registrar is paid only after the tenant has: a name is bought for a
\* purchase the provider has collected, however late the callbacks are.
NeverBoughtUnpaid == \A p \in Purchases : BoughtFor(p) => provider[p] = "completed"

\* A purchase shown as active has bought that very name, for that very
\* purchase, even when two tenants pay for the same name at the same time or
\* someone else takes it between the payment and the callback.
ActiveIsBought ==
  \A p \in Purchases :
    (row[p] = "active" /\ purchasePc[p] # "existing") => owner[name[p]] = p

\* A callback answered 200 after the provider said "completed" has settled the
\* purchase: the tenant who paid is not left with "pending" for good.
AnsweredIsSettled ==
  \A c \in Callbacks :
    (pc[c] = "ok" /\ c \in asked[purchase[c]]) =>
      row[purchase[c]] \in {"active", "failed"}

AskedTwice(p) == \E c, d \in asked[p] : c # d

\* A name that was bought is shown as failed only in two ways: the registrar's
\* answer was lost, or a second callback asked for the same name again.
FailedThoughBought ==
  \A p \in Purchases :
    (row[p] = "failed" /\ BoughtFor(p)) => p \in unanswered \/ AskedTwice(p)

\* The same, seen from a tenant whose name is shown as active: no late answer, no
\* callback of a payment that failed, only a second request for the same name to
\* the registrar takes it back.
OnlyAReplayUndoes ==
  [][\A p \in Purchases : row[p] = "active" /\ row'[p] # "active" => AskedTwice(p)]_vars

-----------------------------------------------------------------------------
(* What the code's comments claim and the code does not do *)

\* internal/domain/service.go: for a "replayed webhook" there is "nothing more
\* to do" - an active purchase stays active.
ActiveStaysActive ==
  [][\A p \in Purchases : row[p] = "active" => row'[p] = "active"]_vars

=============================================================================
