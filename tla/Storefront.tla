------------------------------ MODULE Storefront ------------------------------
(***************************************************************************)
(* The shop of storefront-nathan in one customer's browser: the cart in    *)
(* localStorage, shared by the tabs, the pages that show and change it,    *)
(* the checkout, the hosted payment page and the page that waits for the   *)
(* confirmation; with the orders on the server, the staff and the payment  *)
(* provider around them.                                                   *)
(*                                                                         *)
(* A React event handler, or the code between two awaits, is one step.     *)
(* What a tab shows is a copy taken when its page was mounted: another tab *)
(* may have changed the cart since.  A page left by a link of the site     *)
(* leaves its promises running; a full load, or the redirection to the     *)
(* payment page, ends them.  An order's id also names the call that may    *)
(* create it.                                                              *)
(*                                                                         *)
(* A tenant that is suspended, or a product withdrawn from sale, shows     *)
(* here only by the calls the API refuses, which it may do for any other   *)
(* reason: they are not kept as state.                                     *)
(***************************************************************************)
EXTENDS Naturals

CONSTANTS
  Tabs,       \* the browser's tabs on the shop
  Products,
  Orders,     \* calls to the checkout (bounds a run)
  MaxQty,     \* stands for this quantity of a cart line and every larger one
  Timeout,    \* POLL_TIMEOUT_MS, in polling intervals
  StaffStatuses   \* the statuses staff may pick in this instance

\* 'other' is the statuses that the waiting page does not look at.
Statuses == {"absent", "pending", "paid", "other"}

ASSUME StorefrontAssumption ==
  MaxQty \in Nat \ {0} /\ Timeout \in Nat /\ StaffStatuses \subseteq Statuses \ {"absent"}

VARIABLES
  cart,       \* the lines in localStorage: a quantity, 0 for no line
  tab,        \* what each tab shows, and the state of its page
  call,       \* the browser's side of a call to /api/checkout
  order       \* the server's side of it, and the order

vars == <<cart, tab, call, order>>

Lines == [Products -> 0..MaxQty]
Empty == [p \in Products |-> 0]
None == "none"

Browsing == {"catalogue", "cart", "checkout", "thanks"}
Pages == Browsing \cup {"notice", "gateway"}
Polling == {"asking", "fetching", "waiting"}

Tab == [page: Pages, lines: Lines, submitting: BOOLEAN, order: Orders \cup {None},
        poll: Polling \cup {"off", "stopped", "failed", "late"}, age: 0..(Timeout + 1),
        paid: BOOLEAN, files: BOOLEAN]

\* of: the tab whose document will handle the answer, None once it is handled or
\* the document is left; form: the form that sent the call is still mounted.
Call == [of: Tabs \cup {None}, form: BOOLEAN]
NoCall == [of |-> None, form |-> FALSE]

\* opened: the browser was sent to the order's payment page.  given: staff have
\* set the order to 'paid' themselves, now or before, and no payment of it is confirmed.
Stages == {"unused", "received", "created", "linked", "refused", "stranded",
           "opened", "collected", "confirmed"}
Order == [stage: Stages, status: Statuses, given: BOOLEAN]

TypeOK ==
  /\ cart \in Lines
  /\ tab \in [Tabs -> Tab]
  /\ call \in [Orders -> Call]
  /\ order \in [Orders -> Order]

\* A page just mounted, with nothing of its own yet.
Blank(page) == [page |-> page, lines |-> Empty, submitting |-> FALSE, order |-> None,
                poll |-> "off", age |-> 0, paid |-> FALSE, files |-> FALSE]

Init ==
  /\ cart = Empty
  /\ tab = [t \in Tabs |-> Blank("catalogue")]
  /\ call = [o \in Orders |-> NoCall]
  /\ order = [o \in Orders |-> [stage |-> "unused", status |-> "absent", given |-> FALSE]]

-----------------------------------------------------------------------------
(* Pages *)

\* The cart and checkout pages read the cart when they are mounted; the checkout
\* page sends the customer back to the cart page when it is empty.
Mounted(page) ==
  CASE page = "cart" -> [Blank("cart") EXCEPT !.lines = cart]
    [] page = "checkout" ->
         [Blank(IF cart = Empty THEN "cart" ELSE "checkout") EXCEPT !.lines = cart]
    [] OTHER -> Blank(page)

\* The promises of t's document after a change of page inside the site, and
\* after a full load.
FormLeft(t) == [o \in Orders |-> IF call[o].of = t THEN [call[o] EXCEPT !.form = FALSE] ELSE call[o]]
DocumentLeft(t) == [o \in Orders |-> IF call[o].of = t THEN NoCall ELSE call[o]]

\* RootLayout asks isTenantActive on a full load: the shop, or the notice of a
\* tenant that is suspended.
Served(t, shown) ==
  \E content \in {shown, Blank("notice")} : tab' = [tab EXCEPT ![t] = content]

Load(t, page) ==
  /\ page \in {"catalogue", "cart", "checkout"}
  /\ Served(t, Mounted(page))
  /\ call' = DocumentLeft(t)
  /\ UNCHANGED <<cart, order>>

Follow(t, page) ==
  /\ tab[t].page \in Browsing
  /\ page \in {"catalogue", "cart", "checkout"}
  /\ tab' = [tab EXCEPT ![t] = Mounted(page)]
  /\ call' = FormLeft(t)
  /\ UNCHANGED <<cart, order>>

-----------------------------------------------------------------------------
(* The cart *)

\* Wrong form of WithQuantity: a line that is gone comes back.
WrongUpsert(p, q) == [cart EXCEPT ![p] = q]

\* updateQuantity: a quantity of zero or less takes the line out; a line that
\* is not in the cart is not put back.
WithQuantity(p, q) == [cart EXCEPT ![p] = IF q = 0 \/ @ = 0 THEN 0 ELSE q]

\* One more of a product.
More(q) == IF q = MaxQty THEN MaxQty ELSE q + 1

\* addToCart, and "Acheter maintenant" that goes on to the cart page.
AddToCart(t, p) ==
  /\ tab[t].page = "catalogue"
  /\ cart' = [cart EXCEPT ![p] = More(@)]
  /\ \/ UNCHANGED <<tab, call>>
     \/ tab' = [tab EXCEPT ![t] = [Blank("cart") EXCEPT !.lines = cart']] /\ call' = FormLeft(t)
  /\ UNCHANGED order

\* The buttons of a cart line compute the quantity from the line as this tab
\* shows it; the page reads the cart again on the event of its own tab only.
ChangeQuantity(t, p, q) ==
  /\ tab[t].page = "cart"
  /\ tab[t].lines[p] > 0
  /\ q \in {tab[t].lines[p] - 1, More(tab[t].lines[p]), 0}
  /\ cart' = WithQuantity(p, q)
  /\ tab' = [tab EXCEPT ![t].lines = cart']
  /\ UNCHANGED <<call, order>>

-----------------------------------------------------------------------------
(* The checkout *)

\* Wrong form of CanSubmit: the button is not disabled during a call.
WrongCanSubmit(t) == tab[t].page = "checkout" /\ tab[t].lines # Empty

CanSubmit(t) == tab[t].page = "checkout" /\ tab[t].lines # Empty /\ ~tab[t].submitting

\* handleSubmit: what is ordered is what the page read when it was mounted.
Submit(t, o) ==
  /\ CanSubmit(t)
  /\ order[o].stage = "unused"
  /\ order' = [order EXCEPT ![o].stage = "received"]
  /\ call' = [call EXCEPT ![o] = [of |-> t, form |-> TRUE]]
  /\ tab' = [tab EXCEPT ![t].submitting = TRUE]
  /\ UNCHANGED <<cart>>

\* The route's createOrder: or the API refuses (a suspended tenant, a product that
\* is no longer sold), or the call fails or never comes.
CreateOrder(o) ==
  /\ order[o].stage = "received"
  /\ \/ order' = [order EXCEPT ![o] = [order[o] EXCEPT !.stage = "created", !.status = "pending"]]
     \/ order' = [order EXCEPT ![o].stage = "refused"]
  /\ UNCHANGED <<cart, tab, call>>

\* The route's initPayment: when it fails the order stays, unpaid.
InitPayment(o) ==
  /\ order[o].stage = "created"
  /\ \/ order' = [order EXCEPT ![o].stage = "linked"]
     \/ order' = [order EXCEPT ![o].stage = "stranded"]
  /\ UNCHANGED <<cart, tab, call>>

\* handleSubmit after an answer with an error: the form can be sent again.
FormFreed(o) ==
  IF call[o].form THEN [tab EXCEPT ![call[o].of].submitting = FALSE] ELSE tab

\* Wrong form of Redirects: res.ok is not looked at.
WrongRedirects(o) == order[o].stage \in {"linked", "refused", "stranded"}

Redirects(o) == order[o].stage = "linked"

\* The answer comes to a document that is still there, its form mounted or not:
\* the whole cart is cleared, and the tab goes to the payment page.
AnswerLink(o) ==
  /\ call[o].of # None
  /\ Redirects(o)
  /\ cart' = Empty
  /\ tab' = [tab EXCEPT ![call[o].of] = [Blank("gateway") EXCEPT !.order = o]]
  /\ call' = DocumentLeft(call[o].of)
  /\ order' = [order EXCEPT ![o].stage = "opened"]

AnswerError(o) ==
  /\ call[o].of # None
  /\ order[o].stage \in {"refused", "stranded"}
  /\ tab' = FormFreed(o)
  /\ call' = [call EXCEPT ![o] = NoCall]
  /\ UNCHANGED <<cart, order>>

\* fetch throws, wherever the server is.
LoseAnswer(o) ==
  /\ call[o].of # None
  /\ tab' = FormFreed(o)
  /\ call' = [call EXCEPT ![o] = NoCall]
  /\ UNCHANGED <<cart, order>>

-----------------------------------------------------------------------------
(* Payment, and the staff *)

\* The provider collects once its page was reached: while the customer is there,
\* or, for a payment approved on the phone, after the customer came back or left.
Pay(o) ==
  /\ order[o].stage = "opened"
  /\ order' = [order EXCEPT ![o].stage = "collected"]
  /\ UNCHANGED <<cart, tab, call>>

\* Wrong form of Confirm: the callback is believed, the provider not asked.
WrongTrusting(o) ==
  /\ order[o].stage \in {"opened", "collected", "confirmed"}
  /\ order' = [order EXCEPT ![o] = [order[o] EXCEPT !.stage = "confirmed", !.status = "paid", !.given = FALSE]]
  /\ UNCHANGED <<cart, tab, call>>

\* A confirmation of module OrderPayment, the first one or another: 'paid' over
\* any status, one that staff have set since the first included.
Confirm(o) ==
  /\ order[o].stage \in {"collected", "confirmed"}
  /\ order' = [order EXCEPT ![o] = [order[o] EXCEPT !.stage = "confirmed", !.status = "paid", !.given = FALSE]]
  /\ UNCHANGED <<cart, tab, call>>

\* Staff set a placed order to any valid status from any other, 'paid' included.
SetStatus(o, status) ==
  /\ order[o].status # "absent"
  /\ order' = [order EXCEPT ![o] = [order[o] EXCEPT !.status = status,
                 !.given = @ \/ (status = "paid" /\ order[o].stage # "confirmed")]]
  /\ UNCHANGED <<cart, tab, call>>

-----------------------------------------------------------------------------
(* The page that waits for the confirmation *)

\* The payment page sends the customer back to return_url, paid or not.
Return(t) ==
  /\ tab[t].page = "gateway"
  /\ Served(t, [Blank("thanks") EXCEPT !.order = tab[t].order, !.poll = "asking"])
  /\ UNCHANGED <<cart, call, order>>

\* Wrong form of SaysPaid: an order that is no longer pending is taken for paid.
WrongSaysPaid(status) == status # "pending"

SaysPaid(status) == status = "paid"

\* Wrong forms of NextPoll: the time spent is not looked at; the order's status is
\* taken for the page's own state.
WrongPatience(t, status) == IF SaysPaid(status) THEN "fetching" ELSE "waiting"
WrongState(t, status) == IF tab[t].age > Timeout THEN "late" ELSE status

\* poll after an answer: the links are asked for, or the page gives up, or a
\* timer is set.
NextPoll(t, status) ==
  IF SaysPaid(status) THEN "fetching" ELSE IF tab[t].age > Timeout THEN "late" ELSE "waiting"

PollStatus(t) ==
  /\ tab[t].poll = "asking"
  /\ LET status == order[tab[t].order].status
     IN tab' = [tab EXCEPT ![t] = [tab[t] EXCEPT !.paid = SaysPaid(status), !.poll = NextPoll(t, status)]]
  /\ UNCHANGED <<cart, call, order>>

\* An answer that is not ok ends the polling, the first time or later, and the page
\* shows the error alone.
PollRefused(t) ==
  /\ tab[t].poll = "asking"
  /\ tab' = [tab EXCEPT ![t] = [tab[t] EXCEPT !.paid = FALSE, !.poll = "failed", !.age = 0]]
  /\ UNCHANGED <<cart, call, order>>

\* fetch throws, for the order or for the links: the timer is set again, and
\* the time spent is not looked at.
PollThrows(t) ==
  /\ tab[t].poll \in {"asking", "fetching"}
  /\ tab' = [tab EXCEPT ![t].poll = "waiting"]
  /\ UNCHANGED <<cart, call, order>>

\* The API gives the links of an order that is 'paid' now, or answers with an
\* error; without them the page stops all the same.
FetchDelivery(t) ==
  /\ tab[t].poll = "fetching"
  /\ \E ok \in BOOLEAN :
       tab' = [tab EXCEPT ![t] = [tab[t] EXCEPT !.poll = "stopped", !.age = 0,
                          !.files = ok /\ order[tab[t].order].status = "paid"]]
  /\ UNCHANGED <<cart, call, order>>

PollTick(t) ==
  /\ tab[t].poll = "waiting"
  /\ tab' = [tab EXCEPT ![t] = [tab[t] EXCEPT !.poll = "asking", !.age = IF @ > Timeout THEN @ ELSE @ + 1]]
  /\ UNCHANGED <<cart, call, order>>

-----------------------------------------------------------------------------
CustomerStep(t) ==
  \/ \E page \in Pages : Load(t, page) \/ Follow(t, page)
  \/ \E p \in Products : AddToCart(t, p) \/ \E q \in 0..MaxQty : ChangeQuantity(t, p, q)
  \/ \E o \in Orders : Submit(t, o)
  \/ Return(t)

PollStep(t) ==
  PollStatus(t) \/ PollRefused(t) \/ PollThrows(t) \/ FetchDelivery(t) \/ PollTick(t)

CheckoutStep(o) ==
  CreateOrder(o) \/ InitPayment(o) \/ AnswerLink(o) \/ AnswerError(o) \/ LoseAnswer(o)

ShopStep ==
  \E o \in Orders :
    Pay(o) \/ Confirm(o) \/ \E status \in StaffStatuses : SetStatus(o, status)

Next ==
  \/ \E t \in Tabs : CustomerStep(t) \/ PollStep(t)
  \/ \E o \in Orders : CheckoutStep(o)
  \/ ShopStep

\* Timers fire, and a page that keeps asking is answered in the end.
Fairness ==
  \A t \in Tabs : /\ WF_vars(PollTick(t))
                  /\ SF_vars(PollStatus(t))
                  /\ SF_vars(FetchDelivery(t))

Spec == Init /\ [][Next]_vars /\ Fairness

-----------------------------------------------------------------------------
(* Properties *)

\* The page says "Paiement confirme", and hands out links, only for an order whose
\* payment was collected and confirmed, or that staff have set to 'paid' themselves:
\* not for one that staff have moved on otherwise, that only has a payment page,
\* that was collected only, or that belongs to another call (merci/page.tsx).
ConfirmedOnlyIfPaid ==
  \A t \in Tabs : tab[t].paid \/ tab[t].files =>
    \/ order[tab[t].order].stage = "confirmed"
    \/ order[tab[t].order].given

\* A form has at most one call running: the customer who presses the button
\* twice does not order twice from the same form (commande/page.tsx).
OneCallPerForm ==
  \A o1, o2 \in Orders :
    call[o1].form /\ call[o2].form /\ call[o1].of = call[o2].of => o1 = o2

\* A line leaves the cart only by a button of a cart page that showed it, or on
\* the way to the payment of an order that exists: a checkout that fails, or whose
\* answer is lost, costs the customer no line (cart.ts, commande/page.tsx).
LinesLeaveForAReason ==
  [][\A p \in Products : cart[p] > 0 /\ cart'[p] = 0 =>
       \/ \E t \in Tabs : tab[t].page = "cart" /\ tab[t].lines[p] > 0
       \/ \E t \in Tabs : /\ tab'[t].page = "gateway" /\ tab'[t] # tab[t]
                          /\ order[tab'[t].order].stage = "linked"]_vars

\* A line comes into the cart only from a product's page: a button pressed in a
\* tab that still shows a line does not put back what another tab took out.
OnlyAddPutsIn ==
  [][\A p \in Products : cart[p] = 0 /\ cart'[p] > 0 =>
       \E t \in Tabs : tab[t].page = "catalogue"]_vars

\* An order and its payment as PaymentPromise sees them.
StageOf(o) == IF order[o].stage \in {"collected", "confirmed"} THEN order[o].stage ELSE "due"

Promise == INSTANCE PaymentPromise
             WITH stage <- [o \in Orders |-> StageOf(o)],
                  status <- [o \in Orders |-> order[o].status]

\* The shop, with the orders, the staff and the payment around it, keeps the promise
\* that OrderPayment keeps: money is collected for an order that exists, and what the
\* waiting page reads as 'paid' is written by a confirmation of that money or by staff.
KeepsPromise == Promise!Spec

\* The page that waits stops waiting: confirmed, given up, or left, however many
\* calls fail before one is answered (merci/page.tsx).
PollingEnds == \A t \in Tabs : tab[t].poll \in Polling ~> tab[t].poll \notin Polling

=============================================================================
