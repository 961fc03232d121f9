--------------------------- MODULE Storefront_proofs ---------------------------
(***************************************************************************)
(* Theorems of Storefront, for any tabs, products, orders and bounds: the  *)
(* safety properties that its run checks.                                  *)
(***************************************************************************)
EXTENDS Storefront, TLAPS

-----------------------------------------------------------------------------
(* The inductive invariant *)

\* The status is 'paid' only after the confirmation of a payment, or by staff.
PaidForAReason ==
  \A o \in Orders : order[o].status = "paid" => order[o].stage = "confirmed" \/ order[o].given

\* A page that pays, polls, or says that an order is paid, has an order.
PagesKnowTheirOrder ==
  \A t \in Tabs : tab[t].page = "gateway" \/ tab[t].poll # "off" \/ tab[t].paid \/ tab[t].files
                   => tab[t].order \in Orders

\* A call whose form is there is the one that disabled the form's button; a call that
\* will be handled is of a tab that is not on the payment page.
CallsKnowTheirForm ==
  \A o \in Orders :
    /\ call[o].form => /\ call[o].of \in Tabs
                       /\ tab[call[o].of].page = "checkout" /\ tab[call[o].of].submitting
    /\ call[o].of # None => tab[call[o].of].page # "gateway"

IInv == /\ TypeOK /\ PaidForAReason /\ PagesKnowTheirOrder /\ CallsKnowTheirForm
        /\ ConfirmedOnlyIfPaid /\ OneCallPerForm

-----------------------------------------------------------------------------
(* Pages and calls *)

\* A page just mounted.
LEMMA Mounts ==
  ASSUME TypeOK, NEW page \in {"catalogue", "cart", "checkout"}
  PROVE  /\ Mounted(page) \in Tab
         /\ Mounted(page).poll = "off" /\ ~Mounted(page).paid /\ ~Mounted(page).files
         /\ Mounted(page).page # "gateway"
<1>1. /\ Blank(page) \in Tab /\ Blank("cart") \in Tab /\ Blank("checkout") \in Tab
      /\ cart \in Lines
  BY StorefrontAssumption DEF TypeOK, Blank, Tab, Lines, Empty, Pages, Browsing, Polling
<1>2. [Blank("cart") EXCEPT !.lines = cart] \in Tab
  BY <1>1 DEF Tab
<1>3. [Blank("checkout") EXCEPT !.lines = cart] \in Tab
  BY <1>1 DEF Tab
<1>4. CASE page = "cart"
  BY <1>2, <1>4 DEF Mounted, Blank
<1>5. CASE page = "checkout"
  BY <1>2, <1>3, <1>5 DEF Mounted, Blank
<1>6. CASE page = "catalogue"
  BY <1>1, <1>6 DEF Mounted, Blank
<1> QED
  BY <1>4, <1>5, <1>6

\* One more of a product.
LEMMA OneMore ==
  ASSUME NEW q \in 0..MaxQty
  PROVE  More(q) \in 0..MaxQty /\ More(q) > 0
  BY StorefrontAssumption DEF More

LEMMA Blanks ==
  ASSUME NEW page \in Pages
  PROVE  Blank(page) \in Tab
  BY StorefrontAssumption DEF Blank, Tab, Lines, Empty, Polling

\* A full load, a link of the site, "Acheter maintenant", the way back from the payment:
\* the tab has another page, that says nothing of a payment.
Turns(t) ==
  \E content :
    /\ tab' = [tab EXCEPT ![t] = content]
    /\ ~content.paid /\ ~content.files /\ content.page # "gateway"
    /\ content.poll = "off" \/ (content.order = tab[t].order /\ tab[t].page = "gateway")

LEMMA Turned ==
  ASSUME TypeOK, NEW t \in Tabs
  PROVE  /\ \A page \in Pages : Load(t, page) \/ Follow(t, page) => Turns(t)
         /\ \A p \in Products : AddToCart(t, p) => UNCHANGED <<tab, call>> \/ (Turns(t) /\ call' = FormLeft(t))
         /\ Return(t) => Turns(t)
<1>1. ASSUME NEW page \in Pages, Load(t, page) PROVE Turns(t)
  <2>1. PICK content \in {Mounted(page), Blank("notice")} : tab' = [tab EXCEPT ![t] = content]
    BY <1>1 DEF Load, Served
  <2>2. ~content.paid /\ ~content.files /\ content.page # "gateway" /\ content.poll = "off"
    BY <1>1, <2>1, Mounts DEF Load, Blank
  <2> QED
    BY <2>1, <2>2 DEF Turns
<1>2. ASSUME NEW page \in Pages, Follow(t, page) PROVE Turns(t)
  BY <1>2, Mounts DEF Follow, Turns
<1>3. ASSUME NEW p \in Products, AddToCart(t, p)
      PROVE  UNCHANGED <<tab, call>> \/ (Turns(t) /\ call' = FormLeft(t))
  <2>1. CASE UNCHANGED <<tab, call>>
    BY <2>1
  <2>2. CASE tab' = [tab EXCEPT ![t] = [Blank("cart") EXCEPT !.lines = cart']] /\ call' = FormLeft(t)
    <3> DEFINE content == [Blank("cart") EXCEPT !.lines = cart']
    <3>1. ~content.paid /\ ~content.files /\ content.page # "gateway" /\ content.poll = "off"
      BY DEF Blank
    <3> QED
      BY <2>2, <3>1 DEF Turns
  <2> QED
    BY <2>1, <2>2, <1>3 DEF AddToCart
<1>4. ASSUME Return(t) PROVE Turns(t)
  <2> DEFINE thanks == [Blank("thanks") EXCEPT !.order = tab[t].order, !.poll = "asking"]
  <2>1. PICK content \in {thanks, Blank("notice")} : tab' = [tab EXCEPT ![t] = content]
    BY <1>4 DEF Return, Served
  <2>2. /\ ~content.paid /\ ~content.files /\ content.page # "gateway"
        /\ content.poll = "off" \/ content.order = tab[t].order
    <3>1. CASE content = thanks
      BY <3>1 DEF Blank
    <3>2. CASE content = Blank("notice")
      BY <3>2 DEF Blank
    <3> QED
      BY <2>1, <3>1, <3>2
  <2>3. tab[t].page = "gateway"
    BY <1>4 DEF Return
  <2> QED
    BY <2>1, <2>2, <2>3 DEF Turns
<1> QED
  BY <1>1, <1>2, <1>3, <1>4

\* What a change of page, and a full load, do to the calls.
LEMMA Leaves ==
  ASSUME TypeOK, NEW t \in Tabs
  PROVE  /\ FormLeft(t) \in [Orders -> Call]
         /\ DocumentLeft(t) \in [Orders -> Call]
         /\ \A o \in Orders :
              /\ FormLeft(t)[o].of = call[o].of
              /\ FormLeft(t)[o].form = (call[o].form /\ call[o].of # t)
              /\ call[o].of # t => DocumentLeft(t)[o] = call[o]
              /\ call[o].of = t => DocumentLeft(t)[o].of = None /\ ~ DocumentLeft(t)[o].form
  BY DEF TypeOK, FormLeft, DocumentLeft, Call, NoCall

\* What an answer with an error, or none, does to the calls and to the forms.
LEMMA Frees ==
  ASSUME TypeOK, CallsKnowTheirForm, NEW o \in Orders, AnswerError(o) \/ LoseAnswer(o)
  PROVE  /\ call' \in [Orders -> Call] /\ tab' \in [Tabs -> Tab] /\ UNCHANGED <<cart, order>>
         /\ ~ call'[o].form /\ call'[o].of = None
         /\ \A r \in Orders \ {o} : call'[r] = call[r]
         /\ \A t \in Tabs : /\ tab'[t].page = tab[t].page
                            /\ ~ (call[o].form /\ call[o].of = t) => tab'[t] = tab[t]
<1>1. tab' = FormFreed(o) /\ call' = [call EXCEPT ![o] = NoCall] /\ UNCHANGED <<cart, order>>
  BY DEF AnswerError, LoseAnswer
<1>2. NoCall \in Call /\ ~ NoCall.form /\ NoCall.of = None
  BY DEF NoCall, Call
<1>3. CASE call[o].form
  <2> DEFINE u == call[o].of
  <2>1. u \in Tabs /\ tab[u] \in Tab
    BY <1>3 DEF CallsKnowTheirForm, TypeOK
  <2>2. [tab[u] EXCEPT !.submitting = FALSE] \in Tab
    BY <2>1 DEF Tab
  <2>3. tab' = [tab EXCEPT ![u] = [tab[u] EXCEPT !.submitting = FALSE]]
    BY <1>1, <1>3, <2>1 DEF FormFreed, TypeOK, Tab
  <2>4. [tab[u] EXCEPT !.submitting = FALSE].page = tab[u].page
    BY <2>1 DEF Tab
  <2> QED
    BY <1>1, <1>2, <1>3, <2>1, <2>2, <2>3, <2>4 DEF TypeOK
<1>4. CASE ~ call[o].form
  BY <1>1, <1>2, <1>4 DEF FormFreed, TypeOK
<1> QED
  BY <1>3, <1>4

\* The form that such an answer frees has no other call.
LEMMA FreesOne ==
  ASSUME TypeOK, CallsKnowTheirForm, OneCallPerForm,
         NEW o \in Orders, AnswerError(o) \/ LoseAnswer(o)
  PROVE  CallsKnowTheirForm'
<1>1. /\ ~ call'[o].form /\ call'[o].of = None
      /\ \A r \in Orders \ {o} : call'[r] = call[r]
  BY Frees
<1>2. \A t \in Tabs : /\ tab'[t].page = tab[t].page
                      /\ ~ (call[o].form /\ call[o].of = t) => tab'[t] = tab[t]
  BY Frees
<1>3. ASSUME NEW r \in Orders, call'[r].form
      PROVE  call'[r].of \in Tabs /\ tab'[call'[r].of].page = "checkout" /\ tab'[call'[r].of].submitting
  <2>1. r # o /\ call'[r] = call[r]
    BY <1>1, <1>3
  <2>2. /\ call[r].of \in Tabs
        /\ tab[call[r].of].page = "checkout" /\ tab[call[r].of].submitting
    BY <1>3, <2>1 DEF CallsKnowTheirForm
  <2>3. ~ (call[o].form /\ call[o].of = call[r].of)
    BY <1>3, <2>1 DEF OneCallPerForm
  <2>4. tab'[call[r].of] = tab[call[r].of]
    BY <1>2, <2>2, <2>3
  <2> QED
    BY <2>1, <2>2, <2>4
<1>4. ASSUME NEW r \in Orders, call'[r].of # None
      PROVE  tab'[call'[r].of].page # "gateway"
  <2>1. r # o /\ call'[r] = call[r]
    BY <1>1, <1>4
  <2>2. call[r].of \in Tabs /\ tab[call[r].of].page # "gateway"
    BY <1>4, <2>1 DEF CallsKnowTheirForm, TypeOK, Call
  <2>3. tab'[call[r].of].page = tab[call[r].of].page
    BY <1>2, <2>2
  <2> QED
    BY <2>1, <2>2, <2>3
<1> QED
  BY <1>3, <1>4 DEF CallsKnowTheirForm

-----------------------------------------------------------------------------
(* The steps *)

\* Every step keeps the types.
LEMMA StepTypes == TypeOK /\ PagesKnowTheirOrder /\ CallsKnowTheirForm /\ [Next]_vars => TypeOK'
<1> SUFFICES ASSUME TypeOK /\ PagesKnowTheirOrder /\ CallsKnowTheirForm, [Next]_vars PROVE TypeOK'
  OBVIOUS
<1> USE DEF TypeOK, Tab, Call, Order, PagesKnowTheirOrder, CallsKnowTheirForm
<1>1. ASSUME NEW t \in Tabs, NEW page \in Pages, Load(t, page) PROVE TypeOK'
  <2>1. Blank("notice") \in Tab /\ Mounted(page) \in Tab
    BY <1>1, Blanks, Mounts DEF Load, Pages, Browsing
  <2>2. tab' \in [Tabs -> Tab]
    BY <2>1, <1>1 DEF Load, Served
  <2> QED
    BY <2>2, <1>1, Leaves DEF Load
<1>2. ASSUME NEW t \in Tabs, NEW page \in Pages, Follow(t, page) PROVE TypeOK'
  BY Mounts, Leaves, Blanks, <1>2 DEF Follow
<1>3. ASSUME NEW t \in Tabs, NEW p \in Products, AddToCart(t, p) PROVE TypeOK'
  <2>1. cart' \in Lines /\ UNCHANGED order
    <3>1. More(cart[p]) \in 0..MaxQty
      BY OneMore DEF Lines
    <3> QED
      BY <3>1, <1>3 DEF AddToCart, Lines
  <2>2. CASE UNCHANGED <<tab, call>>
    BY <2>1, <2>2
  <2>3. CASE tab' = [tab EXCEPT ![t] = [Blank("cart") EXCEPT !.lines = cart']] /\ call' = FormLeft(t)
    <3>1. Blank("cart") \in Tab
      BY Blanks DEF Pages, Browsing
    <3>2. [Blank("cart") EXCEPT !.lines = cart'] \in Tab
      BY <3>1, <2>1
    <3> QED
      BY <3>2, <2>1, <2>3, Leaves
  <2> QED
    BY <2>2, <2>3, <1>3 DEF AddToCart
<1>4. ASSUME NEW t \in Tabs, NEW p \in Products, NEW q \in 0..MaxQty, ChangeQuantity(t, p, q) PROVE TypeOK'
  <2>1. cart' \in Lines
    BY <1>4, StorefrontAssumption DEF ChangeQuantity, WithQuantity, Lines
  <2>2. tab[t] \in Tab
    OBVIOUS
  <2>3. [tab[t] EXCEPT !.lines = cart'] \in Tab
    BY <2>1, <2>2
  <2>4. tab' \in [Tabs -> Tab]
    BY <2>3, <1>4 DEF ChangeQuantity
  <2> QED
    BY <2>1, <2>4, <1>4 DEF ChangeQuantity
<1>5. ASSUME NEW t \in Tabs, NEW o \in Orders, Submit(t, o) PROVE TypeOK'
  <2>1. order[o] \in Order /\ "received" \in Stages
    BY DEF Stages
  <2>2. order' \in [Orders -> Order]
    BY <2>1, <1>5 DEF Submit
  <2>3. [of |-> t, form |-> TRUE] \in Call
    OBVIOUS
  <2>4. call' \in [Orders -> Call]
    BY <2>3, <1>5 DEF Submit
  <2>5. tab[t] \in Tab
    OBVIOUS
  <2>6. [tab[t] EXCEPT !.submitting = TRUE] \in Tab
    BY <2>5
  <2>7. tab' \in [Tabs -> Tab] /\ cart' = cart
    BY <2>6, <1>5 DEF Submit
  <2> QED
    BY <2>2, <2>4, <2>7
<1>6. ASSUME NEW o \in Orders, Pay(o) PROVE TypeOK'
  <2>1. "collected" \in Stages /\ order[o] \in Order
    BY DEF Stages
  <2>2. [order[o] EXCEPT !.stage = "collected"] \in Order
    BY <2>1
  <2>3. order' \in [Orders -> Order]
    BY <2>2, <1>6 DEF Pay
  <2> QED
    BY <2>3, <1>6 DEF Pay
<1>7. ASSUME NEW t \in Tabs, Return(t) PROVE TypeOK'
  <2>1. tab[t].order \in Orders
    BY <1>7 DEF Return
  <2>2. Blank("thanks") \in Tab /\ Blank("notice") \in Tab
    BY Blanks DEF Pages, Browsing
  <2>3. [Blank("thanks") EXCEPT !.order = tab[t].order, !.poll = "asking"] \in Tab
    BY <2>1, <2>2 DEF Polling
  <2>4. tab' \in [Tabs -> Tab]
    BY <2>2, <2>3, <1>7 DEF Return, Served
  <2> QED
    BY <2>4, <1>7 DEF Return
<1>8. ASSUME NEW t \in Tabs, PollStatus(t) PROVE TypeOK'
  <2> DEFINE status == order[tab[t].order].status
  <2>1. tab[t] \in Tab
    OBVIOUS
  <2>2. [tab[t] EXCEPT !.paid = SaysPaid(status), !.poll = NextPoll(t, status)] \in Tab
    BY <2>1 DEF SaysPaid, NextPoll, Polling
  <2>3. tab' \in [Tabs -> Tab]
    BY <2>2, <1>8 DEF PollStatus
  <2> QED
    BY <2>3, <1>8 DEF PollStatus
<1>9. ASSUME NEW t \in Tabs, PollRefused(t) PROVE TypeOK'
  <2>1. tab[t] \in Tab /\ 0 \in 0..(Timeout + 1)
    BY StorefrontAssumption
  <2>2. [tab[t] EXCEPT !.paid = FALSE, !.poll = "failed", !.age = 0] \in Tab
    BY <2>1
  <2>3. tab' \in [Tabs -> Tab]
    BY <2>2, <1>9 DEF PollRefused
  <2> QED
    BY <2>3, <1>9 DEF PollRefused
<1>10. ASSUME NEW t \in Tabs, PollThrows(t) PROVE TypeOK'
  BY <1>10 DEF Polling, PollThrows
<1>11. ASSUME NEW t \in Tabs, FetchDelivery(t) PROVE TypeOK'
  <2>1. PICK ok \in BOOLEAN :
          tab' = [tab EXCEPT ![t] = [tab[t] EXCEPT !.poll = "stopped", !.age = 0,
                             !.files = ok /\ order[tab[t].order].status = "paid"]]
    BY <1>11 DEF FetchDelivery
  <2>2. (ok /\ order[tab[t].order].status = "paid") \in BOOLEAN
    OBVIOUS
  <2>3. tab[t] \in Tab /\ 0 \in 0..(Timeout + 1)
    BY StorefrontAssumption
  <2>4. [tab[t] EXCEPT !.poll = "stopped", !.age = 0, !.files = ok /\ order[tab[t].order].status = "paid"] \in Tab
    BY <2>2, <2>3
  <2>5. tab' \in [Tabs -> Tab]
    BY <2>1, <2>4
  <2> QED
    BY <2>5, <1>11 DEF FetchDelivery
<1>12. ASSUME NEW t \in Tabs, PollTick(t) PROVE TypeOK'
  <2>1. (IF tab[t].age > Timeout THEN tab[t].age ELSE tab[t].age + 1) \in 0..(Timeout + 1)
    BY StorefrontAssumption
  <2>2. "asking" \in Polling
    BY DEF Polling
  <2>3. tab[t] \in Tab
    OBVIOUS
  <2>4. [tab[t] EXCEPT !.poll = "asking", !.age = IF @ > Timeout THEN @ ELSE @ + 1] \in Tab
    BY <2>1, <2>2, <2>3
  <2>5. tab' \in [Tabs -> Tab]
    BY <2>4, <1>12 DEF PollTick
  <2> QED
    BY <2>5, <1>12 DEF PollTick
<1>13. ASSUME NEW o \in Orders, CreateOrder(o) PROVE TypeOK'
  <2>1. {"created", "refused"} \subseteq Stages /\ "pending" \in Statuses
    BY DEF Stages, Statuses
  <2>2. order[o] \in Order
    OBVIOUS
  <2>3. /\ [order[o] EXCEPT !.stage = "created", !.status = "pending"] \in Order
        /\ [order[o] EXCEPT !.stage = "refused"] \in Order
    BY <2>1, <2>2
  <2>4. order' \in [Orders -> Order]
    BY <2>3, <1>13 DEF CreateOrder
  <2> QED
    BY <2>4, <1>13 DEF CreateOrder
<1>14. ASSUME NEW o \in Orders, InitPayment(o) PROVE TypeOK'
  <2>1. {"linked", "stranded"} \subseteq Stages
    BY DEF Stages
  <2>2. order[o] \in Order
    OBVIOUS
  <2>3. ASSUME NEW stage \in Stages
        PROVE  [order[o] EXCEPT !.stage = stage] \in Order
    BY <2>2
  <2>4. PICK to \in {"linked", "stranded"} : order' = [order EXCEPT ![o] = [order[o] EXCEPT !.stage = to]]
    BY <1>14 DEF InitPayment
  <2>5. [order[o] EXCEPT !.stage = to] \in Order
    BY <2>1, <2>3
  <2>6. order' \in [Orders -> Order]
    BY <2>4, <2>5
  <2> QED
    BY <2>6, <1>14 DEF InitPayment
<1>15. ASSUME NEW o \in Orders, AnswerLink(o) PROVE TypeOK'
  <2>1. call[o].of \in Tabs
    BY <1>15 DEF AnswerLink
  <2>2. Blank("gateway") \in Tab
    BY Blanks DEF Pages
  <2>3. [Blank("gateway") EXCEPT !.order = o] \in Tab
    BY <2>2
  <2>4. tab' \in [Tabs -> Tab] /\ call' \in [Orders -> Call]
    BY <2>1, <2>3, <1>15, Leaves DEF AnswerLink
  <2>5. cart' \in Lines
    BY <1>15, StorefrontAssumption DEF AnswerLink, Empty, Lines
  <2>6. "opened" \in Stages /\ order[o] \in Order
    BY DEF Stages
  <2>7. [order[o] EXCEPT !.stage = "opened"] \in Order
    BY <2>6
  <2>8. order' \in [Orders -> Order]
    BY <2>7, <1>15 DEF AnswerLink
  <2> QED
    BY <2>4, <2>5, <2>8
<1>16. ASSUME NEW o \in Orders, AnswerError(o) PROVE TypeOK'
  BY Frees, <1>16
<1>17. ASSUME NEW o \in Orders, LoseAnswer(o) PROVE TypeOK'
  BY Frees, <1>17
<1>18. ASSUME NEW o \in Orders, Confirm(o) PROVE TypeOK'
  <2>1. "confirmed" \in Stages /\ "paid" \in Statuses
    BY DEF Stages, Statuses
  <2>2. order[o] \in Order
    OBVIOUS
  <2>3. [order[o] EXCEPT !.stage = "confirmed", !.status = "paid", !.given = FALSE] \in Order
    BY <2>1, <2>2
  <2>4. order' \in [Orders -> Order]
    BY <2>3, <1>18 DEF Confirm
  <2> QED
    BY <2>4, <1>18 DEF Confirm
<1>19. ASSUME NEW o \in Orders, NEW status \in StaffStatuses, SetStatus(o, status) PROVE TypeOK'
  <2>1. status \in Statuses
    BY StorefrontAssumption
  <2>2. order[o] \in Order /\ (order[o].given \/ (status = "paid" /\ order[o].stage # "confirmed")) \in BOOLEAN
    OBVIOUS
  <2>3. [order[o] EXCEPT !.status = status, !.given = @ \/ (status = "paid" /\ order[o].stage # "confirmed")] \in Order
    BY <2>1, <2>2
  <2>4. order' \in [Orders -> Order]
    BY <2>3, <1>19 DEF SetStatus
  <2> QED
    BY <2>4, <1>19 DEF SetStatus
<1>20. CASE UNCHANGED vars
  BY <1>20 DEF vars
<1> QED
  BY <1>1, <1>2, <1>3, <1>4, <1>5, <1>6, <1>7, <1>8, <1>9, <1>10, <1>11, <1>12, <1>13, <1>14, <1>15, <1>16, <1>17, <1>18, <1>19, <1>20 DEF Next, CustomerStep, PollStep, CheckoutStep, ShopStep

\* A page has an order from the moment it pays or polls.
LEMMA StepPages == TypeOK /\ PagesKnowTheirOrder /\ CallsKnowTheirForm /\ [Next]_vars => PagesKnowTheirOrder'
<1> SUFFICES ASSUME TypeOK /\ PagesKnowTheirOrder /\ CallsKnowTheirForm, [Next]_vars PROVE PagesKnowTheirOrder'
  OBVIOUS
<1> USE DEF TypeOK, Tab, PagesKnowTheirOrder, CallsKnowTheirForm
<1>1. ASSUME NEW t \in Tabs, NEW page \in Pages, Load(t, page) PROVE PagesKnowTheirOrder'
  BY Turned, <1>1 DEF Turns
<1>2. ASSUME NEW t \in Tabs, NEW page \in Pages, Follow(t, page) PROVE PagesKnowTheirOrder'
  BY Mounts, Leaves, Blanks, <1>2 DEF Follow
<1>3. ASSUME NEW t \in Tabs, NEW p \in Products, AddToCart(t, p) PROVE PagesKnowTheirOrder'
  <2>1. CASE UNCHANGED <<tab, call>>
    BY <2>1
  <2>2. CASE Turns(t)
    BY <2>2 DEF Turns
  <2> QED
    BY <2>1, <2>2, <1>3, Turned
<1>4. ASSUME NEW t \in Tabs, NEW p \in Products, NEW q \in 0..MaxQty, ChangeQuantity(t, p, q) PROVE PagesKnowTheirOrder'
  BY <1>4 DEF WithQuantity, Lines, ChangeQuantity
<1>5. ASSUME NEW t \in Tabs, NEW o \in Orders, Submit(t, o) PROVE PagesKnowTheirOrder'
  BY <1>5 DEF CanSubmit, Stages, Submit
<1>6. ASSUME NEW o \in Orders, Pay(o) PROVE PagesKnowTheirOrder'
  BY <1>6 DEF Stages, Pay
<1>7. ASSUME NEW t \in Tabs, Return(t) PROVE PagesKnowTheirOrder'
  <2>1. Turns(t)
    BY Turned, <1>7
  <2> QED
    BY <2>1 DEF Turns
<1>8. ASSUME NEW t \in Tabs, PollStatus(t) PROVE PagesKnowTheirOrder'
  BY <1>8 DEF SaysPaid, NextPoll, Polling, PollStatus
<1>9. ASSUME NEW t \in Tabs, PollRefused(t) PROVE PagesKnowTheirOrder'
  BY <1>9 DEF Polling, PollRefused
<1>10. ASSUME NEW t \in Tabs, PollThrows(t) PROVE PagesKnowTheirOrder'
  BY <1>10 DEF Polling, PollThrows
<1>11. ASSUME NEW t \in Tabs, FetchDelivery(t) PROVE PagesKnowTheirOrder'
  BY <1>11 DEF Polling, FetchDelivery
<1>12. ASSUME NEW t \in Tabs, PollTick(t) PROVE PagesKnowTheirOrder'
  BY <1>12 DEF Polling, PollTick
<1>13. ASSUME NEW o \in Orders, CreateOrder(o) PROVE PagesKnowTheirOrder'
  BY <1>13 DEF Stages, Statuses, CreateOrder
<1>14. ASSUME NEW o \in Orders, InitPayment(o) PROVE PagesKnowTheirOrder'
  BY <1>14 DEF Stages, Statuses, InitPayment
<1>15. ASSUME NEW o \in Orders, AnswerLink(o) PROVE PagesKnowTheirOrder'
  BY Mounts, Leaves, Blanks, <1>15 DEF Redirects, Blank, AnswerLink
<1>16. ASSUME NEW o \in Orders, AnswerError(o) PROVE PagesKnowTheirOrder'
  BY <1>16 DEF FormFreed, NoCall, AnswerError
<1>17. ASSUME NEW o \in Orders, LoseAnswer(o) PROVE PagesKnowTheirOrder'
  BY <1>17 DEF FormFreed, NoCall, LoseAnswer
<1>18. ASSUME NEW o \in Orders, Confirm(o) PROVE PagesKnowTheirOrder'
  BY <1>18 DEF Stages, Statuses, Confirm
<1>19. ASSUME NEW o \in Orders, NEW status \in StaffStatuses, SetStatus(o, status) PROVE PagesKnowTheirOrder'
  BY <1>19 DEF Stages, Statuses, SetStatus
<1>20. CASE UNCHANGED vars
  BY <1>20 DEF vars
<1> QED
  BY <1>1, <1>2, <1>3, <1>4, <1>5, <1>6, <1>7, <1>8, <1>9, <1>10, <1>11, <1>12, <1>13, <1>14, <1>15, <1>16, <1>17, <1>18, <1>19, <1>20 DEF Next, CustomerStep, PollStep, CheckoutStep, ShopStep

\* Only the confirmation, and staff, write 'paid'.
LEMMA StepPaid == TypeOK /\ PaidForAReason /\ [Next]_vars => PaidForAReason'
<1> SUFFICES ASSUME TypeOK /\ PaidForAReason, [Next]_vars PROVE PaidForAReason'
  OBVIOUS
<1> USE DEF TypeOK, Order, PaidForAReason
<1>1. ASSUME NEW t \in Tabs, NEW page \in Pages, Load(t, page) PROVE PaidForAReason'
  BY Mounts, Leaves, Blanks, <1>1 DEF Served, Load
<1>2. ASSUME NEW t \in Tabs, NEW page \in Pages, Follow(t, page) PROVE PaidForAReason'
  BY Mounts, Leaves, Blanks, <1>2 DEF Follow
<1>3. ASSUME NEW t \in Tabs, NEW p \in Products, AddToCart(t, p) PROVE PaidForAReason'
  BY Mounts, Leaves, Blanks, <1>3 DEF Blank, Lines, AddToCart
<1>4. ASSUME NEW t \in Tabs, NEW p \in Products, NEW q \in 0..MaxQty, ChangeQuantity(t, p, q) PROVE PaidForAReason'
  BY <1>4 DEF WithQuantity, Lines, ChangeQuantity
<1>5. ASSUME NEW t \in Tabs, NEW o \in Orders, Submit(t, o) PROVE PaidForAReason'
  BY <1>5 DEF CanSubmit, Stages, Submit
<1>6. ASSUME NEW o \in Orders, Pay(o) PROVE PaidForAReason'
  BY <1>6 DEF Stages, Pay
<1>7. ASSUME NEW t \in Tabs, Return(t) PROVE PaidForAReason'
  BY Mounts, Leaves, Blanks, <1>7 DEF Served, Blank, Return
<1>8. ASSUME NEW t \in Tabs, PollStatus(t) PROVE PaidForAReason'
  BY <1>8 DEF SaysPaid, NextPoll, Polling, PollStatus
<1>9. ASSUME NEW t \in Tabs, PollRefused(t) PROVE PaidForAReason'
  BY <1>9 DEF Polling, PollRefused
<1>10. ASSUME NEW t \in Tabs, PollThrows(t) PROVE PaidForAReason'
  BY <1>10 DEF Polling, PollThrows
<1>11. ASSUME NEW t \in Tabs, FetchDelivery(t) PROVE PaidForAReason'
  BY <1>11 DEF Polling, FetchDelivery
<1>12. ASSUME NEW t \in Tabs, PollTick(t) PROVE PaidForAReason'
  BY <1>12 DEF Polling, PollTick
<1>13. ASSUME NEW o \in Orders, CreateOrder(o) PROVE PaidForAReason'
  BY <1>13 DEF Stages, Statuses, CreateOrder
<1>14. ASSUME NEW o \in Orders, InitPayment(o) PROVE PaidForAReason'
  BY <1>14 DEF Stages, Statuses, InitPayment
<1>15. ASSUME NEW o \in Orders, AnswerLink(o) PROVE PaidForAReason'
  BY Mounts, Leaves, Blanks, <1>15 DEF Redirects, Blank, AnswerLink
<1>16. ASSUME NEW o \in Orders, AnswerError(o) PROVE PaidForAReason'
  BY <1>16 DEF FormFreed, NoCall, AnswerError
<1>17. ASSUME NEW o \in Orders, LoseAnswer(o) PROVE PaidForAReason'
  BY <1>17 DEF FormFreed, NoCall, LoseAnswer
<1>18. ASSUME NEW o \in Orders, Confirm(o) PROVE PaidForAReason'
  BY <1>18 DEF Stages, Statuses, Confirm
<1>19. ASSUME NEW o \in Orders, NEW status \in StaffStatuses, SetStatus(o, status) PROVE PaidForAReason'
  BY <1>19 DEF Stages, Statuses, SetStatus
<1>20. CASE UNCHANGED vars
  BY <1>20 DEF vars
<1> QED
  BY <1>1, <1>2, <1>3, <1>4, <1>5, <1>6, <1>7, <1>8, <1>9, <1>10, <1>11, <1>12, <1>13, <1>14, <1>15, <1>16, <1>17, <1>18, <1>19, <1>20 DEF Next, CustomerStep, PollStep, CheckoutStep, ShopStep

\* An order whose payment is confirmed, or that staff gave away.
Backed(o) == order[o].stage = "confirmed" \/ order[o].given

\* A step that makes no page say more, and takes no confirmation away.
LEMMA SameTabs ==
  ASSUME TypeOK, PagesKnowTheirOrder, ConfirmedOnlyIfPaid,
         \A o \in Orders : Backed(o) => Backed(o)',
         \A t \in Tabs : \/ ~ tab'[t].paid /\ ~ tab'[t].files
                        \/ /\ tab'[t].paid = tab[t].paid /\ tab'[t].files = tab[t].files
                           /\ tab'[t].order = tab[t].order
  PROVE  ConfirmedOnlyIfPaid'
<1>1. \A t \in Tabs : tab[t].paid \/ tab[t].files => tab[t].order \in Orders /\ Backed(tab[t].order)
  BY DEF PagesKnowTheirOrder, ConfirmedOnlyIfPaid, Backed
<1> QED
  BY <1>1 DEF ConfirmedOnlyIfPaid, Backed

\* A page says 'paid' when it reads it, and a payment is not undone.
LEMMA StepConfirmed == TypeOK /\ PaidForAReason /\ PagesKnowTheirOrder /\ ConfirmedOnlyIfPaid /\ [Next]_vars => ConfirmedOnlyIfPaid'
<1> SUFFICES ASSUME TypeOK /\ PaidForAReason /\ PagesKnowTheirOrder /\ ConfirmedOnlyIfPaid, [Next]_vars PROVE ConfirmedOnlyIfPaid'
  OBVIOUS
<1> USE DEF TypeOK, Tab, Order, PaidForAReason, PagesKnowTheirOrder, ConfirmedOnlyIfPaid
<1>1. ASSUME NEW t \in Tabs, NEW page \in Pages, Load(t, page) PROVE ConfirmedOnlyIfPaid'
  BY Turned, <1>1 DEF Turns, Load
<1>2. ASSUME NEW t \in Tabs, NEW page \in Pages, Follow(t, page) PROVE ConfirmedOnlyIfPaid'
  BY Mounts, Leaves, Blanks, <1>2 DEF Follow
<1>3. ASSUME NEW t \in Tabs, NEW p \in Products, AddToCart(t, p) PROVE ConfirmedOnlyIfPaid'
  BY Turned, <1>3 DEF Turns, AddToCart
<1>4. ASSUME NEW t \in Tabs, NEW p \in Products, NEW q \in 0..MaxQty, ChangeQuantity(t, p, q) PROVE ConfirmedOnlyIfPaid'
  BY <1>4 DEF WithQuantity, Lines, ChangeQuantity
<1>5. ASSUME NEW t \in Tabs, NEW o \in Orders, Submit(t, o) PROVE ConfirmedOnlyIfPaid'
  BY <1>5 DEF CanSubmit, Stages, Submit
<1>6. ASSUME NEW o \in Orders, Pay(o) PROVE ConfirmedOnlyIfPaid'
  BY <1>6 DEF Stages, Pay
<1>7. ASSUME NEW t \in Tabs, Return(t) PROVE ConfirmedOnlyIfPaid'
  BY Turned, <1>7 DEF Turns, Return
<1>8. ASSUME NEW t \in Tabs, PollStatus(t) PROVE ConfirmedOnlyIfPaid'
  BY <1>8 DEF SaysPaid, NextPoll, Polling, PollStatus
<1>9. ASSUME NEW t \in Tabs, PollRefused(t) PROVE ConfirmedOnlyIfPaid'
  BY <1>9 DEF Polling, PollRefused
<1>10. ASSUME NEW t \in Tabs, PollThrows(t) PROVE ConfirmedOnlyIfPaid'
  BY <1>10 DEF Polling, PollThrows
<1>11. ASSUME NEW t \in Tabs, FetchDelivery(t) PROVE ConfirmedOnlyIfPaid'
  BY <1>11 DEF Polling, FetchDelivery
<1>12. ASSUME NEW t \in Tabs, PollTick(t) PROVE ConfirmedOnlyIfPaid'
  BY <1>12 DEF Polling, PollTick
<1>13. ASSUME NEW o \in Orders, CreateOrder(o) PROVE ConfirmedOnlyIfPaid'
  <2>1. order[o].stage = "received" /\ UNCHANGED tab
    BY <1>13 DEF CreateOrder
  <2>2. \A r \in Orders : order'[r].given = order[r].given /\ (r # o => order'[r] = order[r])
    <3>1. CASE order' = [order EXCEPT ![o] = [order[o] EXCEPT !.stage = "created", !.status = "pending"]]
      BY <3>1
    <3>2. CASE order' = [order EXCEPT ![o] = [order[o] EXCEPT !.stage = "refused"]]
      BY <3>2
    <3> QED
      BY <3>1, <3>2, <1>13 DEF CreateOrder
  <2>3. \A r \in Orders : Backed(r) => Backed(r)'
    BY <2>1, <2>2 DEF Backed
  <2> QED
    BY <2>1, <2>3, SameTabs
<1>14. ASSUME NEW o \in Orders, InitPayment(o) PROVE ConfirmedOnlyIfPaid'
  BY <1>14 DEF Stages, Statuses, InitPayment
<1>15. ASSUME NEW o \in Orders, AnswerLink(o) PROVE ConfirmedOnlyIfPaid'
  <2>1. call[o].of \in Tabs => ~ tab'[call[o].of].paid /\ ~ tab'[call[o].of].files
    BY <1>15 DEF AnswerLink, Blank
  <2>2. \A t \in Tabs : t # call[o].of => tab'[t] = tab[t]
    BY <1>15 DEF AnswerLink
  <2>3. \A r \in Orders : Backed(r) => Backed(r)'
    BY <1>15 DEF AnswerLink, Redirects, Backed
  <2> QED
    BY <2>1, <2>2, <2>3, SameTabs
<1>16. ASSUME NEW o \in Orders, AnswerError(o) PROVE ConfirmedOnlyIfPaid'
  <2>1. /\ UNCHANGED order
        /\ \A t \in Tabs : tab'[t].paid = tab[t].paid /\ tab'[t].files = tab[t].files /\ tab'[t].order = tab[t].order
    BY <1>16 DEF FormFreed, AnswerError
  <2>2. \A r \in Orders : Backed(r) => Backed(r)'
    BY <2>1 DEF Backed
  <2> QED
    BY <2>1, <2>2, SameTabs
<1>17. ASSUME NEW o \in Orders, LoseAnswer(o) PROVE ConfirmedOnlyIfPaid'
  <2>1. /\ UNCHANGED order
        /\ \A t \in Tabs : tab'[t].paid = tab[t].paid /\ tab'[t].files = tab[t].files /\ tab'[t].order = tab[t].order
    BY <1>17 DEF FormFreed, LoseAnswer
  <2>2. \A r \in Orders : Backed(r) => Backed(r)'
    BY <2>1 DEF Backed
  <2> QED
    BY <2>1, <2>2, SameTabs
<1>18. ASSUME NEW o \in Orders, Confirm(o) PROVE ConfirmedOnlyIfPaid'
  BY <1>18 DEF Stages, Statuses, Confirm
<1>19. ASSUME NEW o \in Orders, NEW status \in StaffStatuses, SetStatus(o, status) PROVE ConfirmedOnlyIfPaid'
  BY <1>19 DEF Stages, Statuses, SetStatus
<1>20. CASE UNCHANGED vars
  BY <1>20 DEF vars
<1> QED
  BY <1>1, <1>2, <1>3, <1>4, <1>5, <1>6, <1>7, <1>8, <1>9, <1>10, <1>11, <1>12, <1>13, <1>14, <1>15, <1>16, <1>17, <1>18, <1>19, <1>20 DEF Next, CustomerStep, PollStep, CheckoutStep, ShopStep

\* A call loses its form when its page is left, and its page when its document is.
LEMMA StepCalls == TypeOK /\ CallsKnowTheirForm /\ OneCallPerForm /\ [Next]_vars => CallsKnowTheirForm'
<1> SUFFICES ASSUME TypeOK /\ CallsKnowTheirForm /\ OneCallPerForm, [Next]_vars PROVE CallsKnowTheirForm'
  OBVIOUS
<1> USE DEF TypeOK, Tab, Call, CallsKnowTheirForm
<1>1. ASSUME NEW t \in Tabs, NEW page \in Pages, Load(t, page) PROVE CallsKnowTheirForm'
  BY Mounts, Leaves, Blanks, <1>1 DEF Served, Load
<1>2. ASSUME NEW t \in Tabs, NEW page \in Pages, Follow(t, page) PROVE CallsKnowTheirForm'
  BY Mounts, Leaves, Blanks, <1>2 DEF Follow
<1>3. ASSUME NEW t \in Tabs, NEW p \in Products, AddToCart(t, p) PROVE CallsKnowTheirForm'
  <2>1. CASE UNCHANGED <<tab, call>>
    BY <2>1
  <2>2. CASE Turns(t) /\ call' = FormLeft(t)
    <3>1. \A o \in Orders : /\ call'[o].of = call[o].of
                            /\ call'[o].form => call[o].form /\ call[o].of # t
      BY Leaves, <2>2
    <3>2. tab'[t].page # "gateway" /\ \A u \in Tabs \ {t} : tab'[u] = tab[u]
      BY <2>2 DEF Turns
    <3> QED
      BY <3>1, <3>2
  <2> QED
    BY <2>1, <2>2, <1>3, Turned
<1>4. ASSUME NEW t \in Tabs, NEW p \in Products, NEW q \in 0..MaxQty, ChangeQuantity(t, p, q) PROVE CallsKnowTheirForm'
  BY <1>4 DEF WithQuantity, Lines, ChangeQuantity
<1>5. ASSUME NEW t \in Tabs, NEW o \in Orders, Submit(t, o) PROVE CallsKnowTheirForm'
  BY <1>5 DEF CanSubmit, Stages, Submit
<1>6. ASSUME NEW o \in Orders, Pay(o) PROVE CallsKnowTheirForm'
  BY <1>6 DEF Stages, Pay
<1>7. ASSUME NEW t \in Tabs, Return(t) PROVE CallsKnowTheirForm'
  BY Mounts, Leaves, Blanks, <1>7 DEF Served, Blank, Return
<1>8. ASSUME NEW t \in Tabs, PollStatus(t) PROVE CallsKnowTheirForm'
  BY <1>8 DEF SaysPaid, NextPoll, Polling, PollStatus
<1>9. ASSUME NEW t \in Tabs, PollRefused(t) PROVE CallsKnowTheirForm'
  BY <1>9 DEF Polling, PollRefused
<1>10. ASSUME NEW t \in Tabs, PollThrows(t) PROVE CallsKnowTheirForm'
  BY <1>10 DEF Polling, PollThrows
<1>11. ASSUME NEW t \in Tabs, FetchDelivery(t) PROVE CallsKnowTheirForm'
  BY <1>11 DEF Polling, FetchDelivery
<1>12. ASSUME NEW t \in Tabs, PollTick(t) PROVE CallsKnowTheirForm'
  BY <1>12 DEF Polling, PollTick
<1>13. ASSUME NEW o \in Orders, CreateOrder(o) PROVE CallsKnowTheirForm'
  BY <1>13 DEF Stages, Statuses, CreateOrder
<1>14. ASSUME NEW o \in Orders, InitPayment(o) PROVE CallsKnowTheirForm'
  BY <1>14 DEF Stages, Statuses, InitPayment
<1>15. ASSUME NEW o \in Orders, AnswerLink(o) PROVE CallsKnowTheirForm'
  BY Mounts, Leaves, Blanks, <1>15 DEF Redirects, Blank, AnswerLink
<1>16. ASSUME NEW o \in Orders, AnswerError(o) \/ LoseAnswer(o) PROVE CallsKnowTheirForm'
  BY FreesOne, <1>16
<1>18. ASSUME NEW o \in Orders, Confirm(o) PROVE CallsKnowTheirForm'
  BY <1>18 DEF Stages, Statuses, Confirm
<1>19. ASSUME NEW o \in Orders, NEW status \in StaffStatuses, SetStatus(o, status) PROVE CallsKnowTheirForm'
  BY <1>19 DEF Stages, Statuses, SetStatus
<1>20. CASE UNCHANGED vars
  BY <1>20 DEF vars
<1> QED
  BY <1>1, <1>2, <1>3, <1>4, <1>5, <1>6, <1>7, <1>8, <1>9, <1>10, <1>11, <1>12, <1>13, <1>14, <1>15, <1>16, <1>18, <1>19, <1>20 DEF Next, CustomerStep, PollStep, CheckoutStep, ShopStep

\* The button of a form is disabled while the form has a call.
LEMMA StepOneCall == TypeOK /\ CallsKnowTheirForm /\ OneCallPerForm /\ [Next]_vars => OneCallPerForm'
<1> SUFFICES ASSUME TypeOK /\ CallsKnowTheirForm /\ OneCallPerForm, [Next]_vars PROVE OneCallPerForm'
  OBVIOUS
<1> USE DEF TypeOK, Tab, Call, CallsKnowTheirForm, OneCallPerForm
<1>1. ASSUME NEW t \in Tabs, NEW page \in Pages, Load(t, page) PROVE OneCallPerForm'
  BY Leaves, <1>1 DEF Load
<1>2. ASSUME NEW t \in Tabs, NEW page \in Pages, Follow(t, page) PROVE OneCallPerForm'
  <2>1. \A o \in Orders : call'[o].of = call[o].of /\ (call'[o].form => call[o].form)
    BY Leaves, <1>2 DEF Follow
  <2> QED
    BY <2>1
<1>3. ASSUME NEW t \in Tabs, NEW p \in Products, AddToCart(t, p) PROVE OneCallPerForm'
  BY Mounts, Leaves, Blanks, <1>3 DEF Blank, Lines, AddToCart
<1>4. ASSUME NEW t \in Tabs, NEW p \in Products, NEW q \in 0..MaxQty, ChangeQuantity(t, p, q) PROVE OneCallPerForm'
  BY <1>4 DEF WithQuantity, Lines, ChangeQuantity
<1>5. ASSUME NEW t \in Tabs, NEW o \in Orders, Submit(t, o) PROVE OneCallPerForm'
  BY <1>5 DEF CanSubmit, Stages, Submit
<1>6. ASSUME NEW o \in Orders, Pay(o) PROVE OneCallPerForm'
  BY <1>6 DEF Stages, Pay
<1>7. ASSUME NEW t \in Tabs, Return(t) PROVE OneCallPerForm'
  BY Mounts, Leaves, Blanks, <1>7 DEF Served, Blank, Return
<1>8. ASSUME NEW t \in Tabs, PollStatus(t) PROVE OneCallPerForm'
  BY <1>8 DEF SaysPaid, NextPoll, Polling, PollStatus
<1>9. ASSUME NEW t \in Tabs, PollRefused(t) PROVE OneCallPerForm'
  BY <1>9 DEF Polling, PollRefused
<1>10. ASSUME NEW t \in Tabs, PollThrows(t) PROVE OneCallPerForm'
  BY <1>10 DEF Polling, PollThrows
<1>11. ASSUME NEW t \in Tabs, FetchDelivery(t) PROVE OneCallPerForm'
  BY <1>11 DEF Polling, FetchDelivery
<1>12. ASSUME NEW t \in Tabs, PollTick(t) PROVE OneCallPerForm'
  BY <1>12 DEF Polling, PollTick
<1>13. ASSUME NEW o \in Orders, CreateOrder(o) PROVE OneCallPerForm'
  BY <1>13 DEF Stages, Statuses, CreateOrder
<1>14. ASSUME NEW o \in Orders, InitPayment(o) PROVE OneCallPerForm'
  BY <1>14 DEF Stages, Statuses, InitPayment
<1>15. ASSUME NEW o \in Orders, AnswerLink(o) PROVE OneCallPerForm'
  BY Mounts, Leaves, Blanks, <1>15 DEF Redirects, Blank, AnswerLink
<1>16. ASSUME NEW o \in Orders, AnswerError(o) PROVE OneCallPerForm'
  BY <1>16 DEF FormFreed, NoCall, AnswerError
<1>17. ASSUME NEW o \in Orders, LoseAnswer(o) PROVE OneCallPerForm'
  BY <1>17 DEF FormFreed, NoCall, LoseAnswer
<1>18. ASSUME NEW o \in Orders, Confirm(o) PROVE OneCallPerForm'
  BY <1>18 DEF Stages, Statuses, Confirm
<1>19. ASSUME NEW o \in Orders, NEW status \in StaffStatuses, SetStatus(o, status) PROVE OneCallPerForm'
  BY <1>19 DEF Stages, Statuses, SetStatus
<1>20. CASE UNCHANGED vars
  BY <1>20 DEF vars
<1> QED
  BY <1>1, <1>2, <1>3, <1>4, <1>5, <1>6, <1>7, <1>8, <1>9, <1>10, <1>11, <1>12, <1>13, <1>14, <1>15, <1>16, <1>17, <1>18, <1>19, <1>20 DEF Next, CustomerStep, PollStep, CheckoutStep, ShopStep

-----------------------------------------------------------------------------
(* The theorems *)

\* IInv holds in every reachable state, whatever is fair.
THEOREM InductiveSafe == Init /\ [][Next]_vars => []IInv
<1>1. Init => IInv
  <2>1. Init => TypeOK
    BY StorefrontAssumption
       DEF Init, TypeOK, Tab, Call, NoCall, Order, Stages, Statuses, Lines, Empty, Blank, Pages, Browsing, Polling
  <2>2. ASSUME Init, NEW t \in Tabs
        PROVE  tab[t].page = "catalogue" /\ tab[t].poll = "off" /\ ~tab[t].paid /\ ~tab[t].files
    <3>1. tab[t] = Blank("catalogue")
      BY <2>2 DEF Init
    <3> QED
      BY <3>1 DEF Blank
  <2>3. ASSUME Init, NEW o \in Orders
        PROVE  ~call[o].form /\ call[o].of = None /\ order[o].status # "paid"
    BY <2>3 DEF Init, NoCall
  <2>4. Init => PaidForAReason /\ PagesKnowTheirOrder /\ CallsKnowTheirForm
    BY <2>2, <2>3 DEF PaidForAReason, PagesKnowTheirOrder, CallsKnowTheirForm
  <2>5. Init => ConfirmedOnlyIfPaid /\ OneCallPerForm
    BY <2>2, <2>3 DEF ConfirmedOnlyIfPaid, OneCallPerForm
  <2> QED
    BY <2>1, <2>4, <2>5 DEF IInv
<1>2. IInv /\ [Next]_vars => IInv'
  BY StepTypes, StepPages, StepPaid, StepConfirmed, StepCalls, StepOneCall DEF IInv
<1> QED
  BY <1>1, <1>2, PTL

THEOREM Inductive == Spec => []IInv
  BY InductiveSafe, PTL DEF Spec

\* The variables keep their types.
THEOREM TypeCorrect == Spec => []TypeOK
<1>1. IInv => TypeOK
  BY DEF IInv
<1> QED
  BY Inductive, <1>1, PTL

\* The page says that an order is paid, and gives its links, only if its payment was
\* confirmed or staff set it to 'paid' themselves (merci/page.tsx).
THEOREM NeverConfirmedUnpaid == Spec => []ConfirmedOnlyIfPaid
<1>1. IInv => ConfirmedOnlyIfPaid
  BY DEF IInv
<1> QED
  BY Inductive, <1>1, PTL

\* A form has one call at a time (commande/page.tsx).
THEOREM NeverOrderedTwice == Spec => []OneCallPerForm
<1>1. IInv => OneCallPerForm
  BY DEF IInv
<1> QED
  BY Inductive, <1>1, PTL

\* The steps that touch the cart.
LEMMA CartSteps ==
  ASSUME IInv, [Next]_vars
  PROVE  \/ UNCHANGED cart
         \/ \E t \in Tabs, p \in Products : AddToCart(t, p)
         \/ \E t \in Tabs, p \in Products, q \in 0..MaxQty : ChangeQuantity(t, p, q)
         \/ \E o \in Orders : AnswerLink(o)
  BY DEF Next, CustomerStep, PollStep, CheckoutStep, ShopStep, vars, Load, Follow, Submit, Pay,
         Return, PollStatus, PollRefused, PollThrows, FetchDelivery, PollTick, CreateOrder,
         InitPayment, AnswerError, LoseAnswer, Confirm, SetStatus

\* A line leaves the cart by a button of a page that showed it, or on the way to the
\* payment of an order that exists (cart.ts, commande/page.tsx).
THEOREM NoLineLost == Spec => LinesLeaveForAReason
<1> DEFINE Reason(p) ==
      \/ \E t \in Tabs : tab[t].page = "cart" /\ tab[t].lines[p] > 0
      \/ \E t \in Tabs : /\ tab'[t].page = "gateway" /\ tab'[t] # tab[t]
                         /\ order[tab'[t].order].stage = "linked"
<1>1. ASSUME IInv, [Next]_vars, NEW p \in Products, cart[p] > 0, cart'[p] = 0
      PROVE  Reason(p)
  <2>1. ASSUME NEW t \in Tabs, NEW r \in Products, AddToCart(t, r) PROVE FALSE
    <3>1. cart \in Lines /\ cart' = [cart EXCEPT ![r] = More(cart[r])]
      BY <1>1, <2>1 DEF AddToCart, IInv, TypeOK
    <3>2. More(cart[r]) > 0
      BY <3>1, OneMore DEF Lines
    <3> QED
      BY <1>1, <3>1, <3>2 DEF Lines
  <2>2. ASSUME NEW t \in Tabs, NEW r \in Products, NEW q \in 0..MaxQty, ChangeQuantity(t, r, q)
        PROVE  Reason(p)
    <3>1. r = p
      BY <1>1, <2>2 DEF ChangeQuantity, WithQuantity, IInv, TypeOK, Lines
    <3> QED
      BY <3>1, <2>2 DEF ChangeQuantity
  <2>3. ASSUME NEW o \in Orders, AnswerLink(o) PROVE Reason(p)
    <3>1. PICK t \in Tabs : t = call[o].of /\ tab[t].page # "gateway"
      <4>1. call[o].of \in Tabs
        BY <1>1, <2>3 DEF AnswerLink, IInv, TypeOK, Call
      <4> QED
        BY <1>1, <2>3, <4>1 DEF AnswerLink, IInv, CallsKnowTheirForm
    <3>2. tab'[t] = [Blank("gateway") EXCEPT !.order = o]
      BY <1>1, <2>3, <3>1 DEF AnswerLink, IInv, TypeOK
    <3>3. tab'[t].page = "gateway" /\ tab'[t].order = o
      BY <3>2 DEF Blank
    <3> QED
      BY <3>1, <3>3, <2>3 DEF AnswerLink, Redirects
  <2> QED
    BY <1>1, <2>1, <2>2, <2>3, CartSteps
<1>2. IInv /\ [Next]_vars => [\A p \in Products : cart[p] > 0 /\ cart'[p] = 0 => Reason(p)]_vars
  BY <1>1
<1> QED
  BY <1>2, Inductive, PTL DEF Spec, LinesLeaveForAReason

\* A line comes into the cart only from a product's page (cart.ts).
THEOREM NoLineBack == Spec => OnlyAddPutsIn
<1>1. ASSUME IInv, [Next]_vars, NEW p \in Products, cart[p] = 0, cart'[p] > 0
      PROVE  \E t \in Tabs : tab[t].page = "catalogue"
  <2>1. ASSUME NEW t \in Tabs, NEW r \in Products, AddToCart(t, r)
        PROVE  \E u \in Tabs : tab[u].page = "catalogue"
    BY <2>1 DEF AddToCart
  <2>2. ASSUME NEW t \in Tabs, NEW r \in Products, NEW q \in 0..MaxQty, ChangeQuantity(t, r, q)
        PROVE  FALSE
    BY <1>1, <2>2 DEF ChangeQuantity, WithQuantity, IInv, TypeOK, Lines
  <2>3. ASSUME NEW o \in Orders, AnswerLink(o) PROVE FALSE
    BY <1>1, <2>3 DEF AnswerLink, Empty
  <2> QED
    BY <1>1, <2>1, <2>2, <2>3, CartSteps
<1>2. IInv /\ [Next]_vars => [\A p \in Products : cart[p] = 0 /\ cart'[p] > 0 =>
                                \E t \in Tabs : tab[t].page = "catalogue"]_vars
  BY <1>1
<1> QED
  BY <1>2, Inductive, PTL DEF Spec, OnlyAddPutsIn

-----------------------------------------------------------------------------
(* The promise *)

\* An order has a status from its creation on.
PlacedFirst ==
  \A o \in Orders : order[o].status = "absent" <=> order[o].stage \in {"unused", "received", "refused"}

\* The steps that touch an order, and what each does to it.
LEMMA OrderSteps ==
  ASSUME IInv, PlacedFirst, [Next]_vars
  PROVE  \/ UNCHANGED order
         \/ \E o \in Orders, to \in Stages :
              /\ order' = [order EXCEPT ![o].stage = to]
              /\ \/ order[o].stage = "unused" /\ to = "received"
                 \/ order[o].stage = "received" /\ to = "refused"
                 \/ order[o].stage = "created" /\ to \in {"linked", "stranded"}
                 \/ order[o].stage = "linked" /\ to = "opened"
                 \/ order[o].stage = "opened" /\ to = "collected"
         \/ \E o \in Orders :
              \/ /\ order[o].stage = "received"
                 /\ order' = [order EXCEPT ![o] = [order[o] EXCEPT !.stage = "created", !.status = "pending"]]
              \/ Confirm(o)
              \/ \E status \in StaffStatuses : SetStatus(o, status)
<1>1. ASSUME NEW t \in Tabs, NEW o \in Orders, Submit(t, o)
      PROVE  /\ order' = [order EXCEPT ![o].stage = "received"]
             /\ order[o].stage = "unused"
  BY <1>1 DEF Submit
<1>2. ASSUME NEW o \in Orders, CreateOrder(o)
      PROVE  /\ order[o].stage = "received"
             /\ \/ order' = [order EXCEPT ![o] = [order[o] EXCEPT !.stage = "created", !.status = "pending"]]
                \/ order' = [order EXCEPT ![o].stage = "refused"]
  BY <1>2 DEF CreateOrder
<1>3. ASSUME NEW o \in Orders, InitPayment(o)
      PROVE  /\ order[o].stage = "created"
             /\ \E to \in {"linked", "stranded"} : order' = [order EXCEPT ![o].stage = to]
  BY <1>3 DEF InitPayment
<1>4. ASSUME NEW o \in Orders, Pay(o) \/ AnswerLink(o)
      PROVE  \/ order[o].stage = "linked" /\ order' = [order EXCEPT ![o].stage = "opened"]
             \/ order[o].stage = "opened" /\ order' = [order EXCEPT ![o].stage = "collected"]
  BY <1>4 DEF Pay, AnswerLink, Redirects
<1>5. \/ UNCHANGED order
      \/ \E t \in Tabs, o \in Orders : Submit(t, o)
      \/ \E o \in Orders : CreateOrder(o) \/ InitPayment(o) \/ AnswerLink(o) \/ Pay(o) \/ Confirm(o)
      \/ \E o \in Orders, status \in StaffStatuses : SetStatus(o, status)
  BY DEF Next, CustomerStep, PollStep, CheckoutStep, ShopStep, vars, Load, Follow, AddToCart,
         ChangeQuantity, Return, PollStatus, PollRefused, PollThrows, FetchDelivery, PollTick,
         AnswerError, LoseAnswer
<1>6. {"received", "refused", "linked", "stranded", "opened", "collected"} \subseteq Stages
  BY DEF Stages
<1> QED
  BY <1>1, <1>2, <1>3, <1>4, <1>5, <1>6

\* It holds in every reachable state.
LEMMA AlwaysPlacedFirst == Spec => []PlacedFirst
<1>1. Init => PlacedFirst
  BY DEF Init, PlacedFirst
<1>2. IInv /\ PlacedFirst /\ [Next]_vars => PlacedFirst'
  <2> SUFFICES ASSUME IInv, PlacedFirst, [Next]_vars
               PROVE  PlacedFirst'
    OBVIOUS
  <2> USE DEF IInv, TypeOK, Order, PlacedFirst
  <2>1. CASE UNCHANGED order
    BY <2>1
  <2>2. ASSUME NEW o \in Orders, NEW to \in Stages,
               order' = [order EXCEPT ![o].stage = to],
               \/ order[o].stage = "unused" /\ to = "received"
               \/ order[o].stage = "received" /\ to = "refused"
               \/ order[o].stage = "created" /\ to \in {"linked", "stranded"}
               \/ order[o].stage = "linked" /\ to = "opened"
               \/ order[o].stage = "opened" /\ to = "collected"
        PROVE  PlacedFirst'
    BY <2>2
  <2>3. ASSUME NEW o \in Orders, order[o].stage = "received",
               order' = [order EXCEPT ![o] = [order[o] EXCEPT !.stage = "created", !.status = "pending"]]
        PROVE  PlacedFirst'
    BY <2>3
  <2>4. ASSUME NEW o \in Orders, Confirm(o)
        PROVE  PlacedFirst'
    BY <2>4 DEF Confirm
  <2>5. ASSUME NEW o \in Orders, NEW to \in StaffStatuses, SetStatus(o, to)
        PROVE  PlacedFirst'
    BY <2>5, StorefrontAssumption DEF SetStatus
  <2> QED
    BY <2>1, <2>2, <2>3, <2>4, <2>5, OrderSteps
<1> QED
  BY <1>1, <1>2, Inductive, PTL DEF Spec

\* Storefront implements PaymentPromise, as OrderPayment does: what the browser's
\* side of the sale and the server's side assume of each other is one contract.
THEOREM Refinement == Spec => KeepsPromise
<1> DEFINE stg == [o \in Orders |-> StageOf(o)]
           sts == [o \in Orders |-> order[o].status]
           Kept == Promise!Next \/ UNCHANGED <<stg, sts>>
<1>1. Init => Promise!Init
  BY DEF Init, Promise!Init, StageOf
<1>2. IInv /\ PlacedFirst /\ [Next]_vars => [Promise!Next]_Promise!vars
  <2> SUFFICES ASSUME IInv, PlacedFirst, [Next]_vars
               PROVE  Kept
    BY DEF Promise!vars
  <2> USE DEF IInv, TypeOK, Order, PlacedFirst, StageOf
  <2>1. CASE UNCHANGED order
    BY <2>1
  <2>2. ASSUME NEW o \in Orders, NEW to \in Stages,
               order' = [order EXCEPT ![o].stage = to],
               \/ order[o].stage = "unused" /\ to = "received"
               \/ order[o].stage = "received" /\ to = "refused"
               \/ order[o].stage = "created" /\ to \in {"linked", "stranded"}
               \/ order[o].stage = "linked" /\ to = "opened"
               \/ order[o].stage = "opened" /\ to = "collected"
        PROVE  Kept
    <3>1. sts' = sts
      BY <2>2
    <3>2. CASE to # "collected"
      <4>1. stg' = stg
        BY <2>2, <3>2
      <4> QED
        BY <3>1, <4>1
    <3>3. CASE to = "collected"
      <4>1. stg' = [stg EXCEPT ![o] = "collected"] /\ stg[o] = "due" /\ sts[o] # "absent"
        BY <2>2, <3>3
      <4> QED
        BY <3>1, <4>1 DEF Promise!Next, Promise!Collect
    <3> QED
      BY <3>2, <3>3
  <2>3. ASSUME NEW o \in Orders, order[o].stage = "received",
               order' = [order EXCEPT ![o] = [order[o] EXCEPT !.stage = "created", !.status = "pending"]]
        PROVE  Kept
    <3>1. stg' = stg /\ sts[o] = "absent" /\ sts' = [sts EXCEPT ![o] = "pending"]
      BY <2>3
    <3> QED
      BY <3>1 DEF Promise!Next, Promise!Place
  <2>4. ASSUME NEW o \in Orders, Confirm(o)
        PROVE  Kept
    <3>1. /\ stg[o] \in {"collected", "confirmed"} /\ sts' = [sts EXCEPT ![o] = "paid"]
          /\ stg' = [stg EXCEPT ![o] = "confirmed"]
      BY <2>4 DEF Confirm
    <3>2. stg' = [stg EXCEPT ![o] = IF @ = "collected" THEN "confirmed" ELSE @]
      BY <3>1
    <3> QED
      BY <3>1, <3>2 DEF Promise!Next, Promise!Confirm
  <2>5. ASSUME NEW o \in Orders, NEW to \in StaffStatuses, SetStatus(o, to)
        PROVE  Kept
    <3>1. stg' = stg /\ sts[o] # "absent" /\ sts' = [sts EXCEPT ![o] = to]
      BY <2>5 DEF SetStatus
    <3> QED
      BY <3>1 DEF Promise!Next, Promise!SetStatus
  <2> QED
    BY <2>1, <2>2, <2>3, <2>4, <2>5, OrderSteps
<1> QED
  BY <1>1, <1>2, Inductive, AlwaysPlacedFirst, PTL DEF Spec, KeepsPromise, Promise!Spec

-----------------------------------------------------------------------------
(* Liveness: the page that waits.  Each of its steps is a guard on the tab's   *)
(* poll and an assignment that changes it, so it is enabled exactly where the  *)
(* guard holds; the prover has no rule for ENABLED, and Fairness is stated     *)
(* here with the guards.                                                       *)

Polls(t, state) == tab[t].poll = state

FairTick(t) == []<>(~ Polls(t, "waiting")) \/ []<><<PollTick(t)>>_vars
FairStatus(t) == <>[](~ Polls(t, "asking")) \/ []<><<PollStatus(t)>>_vars
FairFetch(t) == <>[](~ Polls(t, "fetching")) \/ []<><<FetchDelivery(t)>>_vars

Waits(t) == tab[t].poll \in Polling

\* A page that polls is not the payment page, from which a tab comes back with a
\* new page and no time spent.
PollsElsewhere == \A t \in Tabs : tab[t].poll # "off" => tab[t].page # "gateway"

\* What a step does to a page that waits: it goes on waiting, with no less time
\* spent, or it stops, or is left.
LEMMA WaitingStep ==
  ASSUME IInv, PollsElsewhere, [Next]_vars
  PROVE  /\ PollsElsewhere'
         /\ \A t \in Tabs : Waits(t) => ~ Waits(t)' \/ tab'[t].age >= tab[t].age
<1> DEFINE Goal == /\ PollsElsewhere'
                   /\ \A t \in Tabs : Waits(t) => ~ Waits(t)' \/ tab'[t].age >= tab[t].age
<1> USE StorefrontAssumption DEF IInv, TypeOK, Tab, PollsElsewhere, Waits, Polling
<1>1. ASSUME NEW t \in Tabs, Turns(t)
      PROVE  Goal
  <2>1. PICK content :
          /\ tab' = [tab EXCEPT ![t] = content]
          /\ content.page # "gateway"
          /\ content.poll = "off" \/ tab[t].page = "gateway"
    BY <1>1 DEF Turns
  <2>2. ~ (content.poll \in Polling /\ tab[t].poll \in Polling)
    BY <2>1
  <2> QED
    BY <2>1, <2>2
<1>2. CASE UNCHANGED tab
  BY <1>2
<1>3. ASSUME NEW t \in Tabs, NEW page \in Pages, Load(t, page) \/ Follow(t, page)
      PROVE  Goal
  BY <1>1, <1>3, Turned
<1>4. ASSUME NEW t \in Tabs, NEW p \in Products, AddToCart(t, p)
      PROVE  Goal
  BY <1>1, <1>2, <1>4, Turned
<1>5. ASSUME NEW t \in Tabs, NEW p \in Products, NEW q \in 0..MaxQty, ChangeQuantity(t, p, q)
      PROVE  Goal
  BY <1>5 DEF ChangeQuantity
<1>6. ASSUME NEW t \in Tabs, NEW o \in Orders, Submit(t, o)
      PROVE  Goal
  BY <1>6 DEF Submit
<1>7. ASSUME NEW t \in Tabs, Return(t)
      PROVE  Goal
  BY <1>1, <1>7, Turned
<1>8. ASSUME NEW t \in Tabs, PollStep(t)
      PROVE  Goal
  <2>1. CASE PollStatus(t)
    BY <2>1 DEF PollStatus
  <2>2. CASE PollRefused(t)
    BY <2>2 DEF PollRefused
  <2>3. CASE PollThrows(t)
    BY <2>3 DEF PollThrows
  <2>4. CASE FetchDelivery(t)
    BY <2>4 DEF FetchDelivery
  <2>5. CASE PollTick(t)
    BY <2>5 DEF PollTick
  <2> QED
    BY <1>8, <2>1, <2>2, <2>3, <2>4, <2>5 DEF PollStep
<1>9. ASSUME NEW o \in Orders, AnswerLink(o)
      PROVE  Goal
  <2>1. [Blank("gateway") EXCEPT !.order = o].poll = "off"
    BY DEF Blank
  <2> QED
    BY <1>9, <2>1 DEF AnswerLink
<1>10. ASSUME NEW o \in Orders, AnswerError(o) \/ LoseAnswer(o)
       PROVE  Goal
  BY <1>10 DEF AnswerError, LoseAnswer, FormFreed
<1> QED
  BY <1>2, <1>3, <1>4, <1>5, <1>6, <1>7, <1>8, <1>9, <1>10
     DEF Next, CustomerStep, CheckoutStep, ShopStep, Pay, CreateOrder, InitPayment, Confirm,
         SetStatus, vars

\* It holds in every reachable state.
LEMMA PollingElsewhere == Init /\ [][Next]_vars => []PollsElsewhere
<1>1. Init => PollsElsewhere
  BY DEF Init, PollsElsewhere, Blank
<1>2. IInv /\ PollsElsewhere /\ [Next]_vars => PollsElsewhere'
  BY WaitingStep
<1> QED
  BY <1>1, <1>2, InductiveSafe, PTL

\* What the page's own steps do to it, while the time spent does not change.
LEMMA PollSteps ==
  ASSUME IInv, NEW t \in Tabs, Waits(t)
  PROVE  /\ FetchDelivery(t) => ~ Waits(t)'
         /\ PollTick(t) => Polls(t, "asking")' /\ (tab[t].age <= Timeout => tab'[t].age > tab[t].age)
         /\ PollStatus(t) => IF tab[t].age > Timeout THEN ~ Waits(t)' \/ Polls(t, "fetching")'
                             ELSE Polls(t, "waiting")' \/ Polls(t, "fetching")'
<1> USE StorefrontAssumption DEF IInv, TypeOK, Tab, Waits, Polling, Polls
<1>1. FetchDelivery(t) => ~ Waits(t)'
  BY DEF FetchDelivery
<1>2. PollTick(t) => Polls(t, "asking")' /\ (tab[t].age <= Timeout => tab'[t].age > tab[t].age)
  BY DEF PollTick
<1>3. PollStatus(t) => IF tab[t].age > Timeout THEN ~ Waits(t)' \/ Polls(t, "fetching")'
                       ELSE Polls(t, "waiting")' \/ Polls(t, "fetching")'
  BY DEF PollStatus, NextPoll, SaysPaid
<1> QED
  BY <1>1, <1>2, <1>3

\* A page whose timer is set keeps it until the timer fires or the page is left.
LEMMA TimerStays ==
  ASSUME IInv, PollsElsewhere, [Next]_vars, NEW t \in Tabs, Polls(t, "waiting")
  PROVE  Polls(t, "waiting")' \/ ~ Waits(t)' \/ PollTick(t)
<1> DEFINE Goal == Polls(t, "waiting")' \/ ~ Waits(t)' \/ PollTick(t)
<1> USE DEF IInv, TypeOK, Tab, PollsElsewhere, Waits, Polling, Polls
<1>1. ASSUME NEW u \in Tabs, Turns(u)
      PROVE  Goal
  BY <1>1 DEF Turns
<1>2. CASE UNCHANGED tab
  BY <1>2
<1>3. ASSUME NEW u \in Tabs, NEW page \in Pages, Load(u, page) \/ Follow(u, page)
      PROVE  Goal
  BY <1>1, <1>3, Turned
<1>4. ASSUME NEW u \in Tabs, NEW p \in Products, AddToCart(u, p)
      PROVE  Goal
  BY <1>1, <1>2, <1>4, Turned
<1>5. ASSUME NEW u \in Tabs, NEW p \in Products, NEW q \in 0..MaxQty, ChangeQuantity(u, p, q)
      PROVE  Goal
  BY <1>5 DEF ChangeQuantity
<1>6. ASSUME NEW u \in Tabs, NEW o \in Orders, Submit(u, o)
      PROVE  Goal
  BY <1>6 DEF Submit
<1>7. ASSUME NEW u \in Tabs, Return(u)
      PROVE  Goal
  BY <1>1, <1>7, Turned
<1>8. ASSUME NEW u \in Tabs, PollStep(u)
      PROVE  Goal
  BY <1>8 DEF PollStep, PollStatus, PollRefused, PollThrows, FetchDelivery, PollTick
<1>9. ASSUME NEW o \in Orders, AnswerLink(o)
      PROVE  Goal
  <2>1. [Blank("gateway") EXCEPT !.order = o].poll = "off"
    BY DEF Blank
  <2> QED
    BY <1>9, <2>1 DEF AnswerLink
<1>10. ASSUME NEW o \in Orders, AnswerError(o) \/ LoseAnswer(o)
       PROVE  Goal
  BY <1>10 DEF AnswerError, LoseAnswer, FormFreed
<1> QED
  BY <1>2, <1>3, <1>4, <1>5, <1>6, <1>7, <1>8, <1>9, <1>10
     DEF Next, CustomerStep, CheckoutStep, ShopStep, Pay, CreateOrder, InitPayment, Confirm,
         SetStatus, vars

\* The time spent grows: whatever fetch throws, a page that waits has not waited
\* n intervals for ever (merci/page.tsx).
THEOREM TimePasses ==
  ASSUME NEW t \in Tabs, NEW n \in 0..Timeout
  PROVE  /\ Init /\ [][Next]_vars
         /\ FairTick(t) /\ FairStatus(t) /\ FairFetch(t)
         => (Waits(t) /\ tab[t].age = n ~> ~ Waits(t) \/ tab[t].age > n)
<1> DEFINE H == Waits(t) /\ tab[t].age = n
           G == ~ Waits(t) \/ tab[t].age > n
           Asking == Polls(t, "asking")
           Fetching == Polls(t, "fetching")
           Waiting == Polls(t, "waiting")
           K == IInv /\ PollsElsewhere
<1>1. K /\ H /\ [Next]_vars => H' \/ G'
  <2> SUFFICES ASSUME K, H, [Next]_vars PROVE H' \/ G'
    OBVIOUS
  <2>1. tab[t].age \in Nat /\ tab'[t].age \in Nat
    BY StepTypes, StorefrontAssumption DEF IInv, TypeOK, Tab
  <2>2. ~ Waits(t)' \/ tab'[t].age >= tab[t].age
    BY WaitingStep
  <2> QED
    BY <2>1, <2>2, StorefrontAssumption
<1>2. H => Asking \/ Fetching \/ Waiting
  BY DEF Waits, Polling, Polls
<1>3. K /\ H /\ <<PollTick(t)>>_vars => G'
  BY PollSteps
<1>4. K /\ H /\ <<PollStatus(t)>>_vars => Waiting' \/ Fetching'
  BY PollSteps, StorefrontAssumption
<1>5. K /\ H /\ <<FetchDelivery(t)>>_vars => G'
  BY PollSteps
<1>6. K /\ H /\ Waiting /\ [Next]_vars => Waiting' \/ G'
  BY TimerStays, PollSteps
<1> HIDE DEF H, G, Asking, Fetching, Waiting, K
<1>7. Init /\ [][Next]_vars => []K
  BY InductiveSafe, PollingElsewhere, PTL DEF K
<1>8. /\ Init /\ [][Next]_vars
      /\ []<>(~ Waiting) \/ []<><<PollTick(t)>>_vars
      /\ <>[](~ Asking) \/ []<><<PollStatus(t)>>_vars
      /\ <>[](~ Fetching) \/ []<><<FetchDelivery(t)>>_vars
      => (H ~> G)
  BY <1>1, <1>2, <1>3, <1>4, <1>5, <1>6, <1>7, PTL
<1> QED
  BY <1>8 DEF H, G, Asking, Fetching, Waiting, FairTick, FairStatus, FairFetch

\* And it ends: a page that has waited longer than POLL_TIMEOUT_MS stops at the
\* next answer it gets (merci/page.tsx).
THEOREM GivesUp ==
  ASSUME NEW t \in Tabs
  PROVE  /\ Init /\ [][Next]_vars
         /\ FairTick(t) /\ FairStatus(t) /\ FairFetch(t)
         => (Waits(t) /\ tab[t].age > Timeout ~> ~ Waits(t))
<1> DEFINE H == Waits(t) /\ tab[t].age > Timeout
           G == ~ Waits(t)
           Asking == Polls(t, "asking")
           Fetching == Polls(t, "fetching")
           Waiting == Polls(t, "waiting")
           K == IInv /\ PollsElsewhere
<1>1. K /\ H /\ [Next]_vars => H' \/ G'
  <2> SUFFICES ASSUME K, H, [Next]_vars PROVE H' \/ G'
    OBVIOUS
  <2>1. tab[t].age \in Nat /\ tab'[t].age \in Nat
    BY StepTypes, StorefrontAssumption DEF IInv, TypeOK, Tab
  <2>2. ~ Waits(t)' \/ tab'[t].age >= tab[t].age
    BY WaitingStep
  <2> QED
    BY <2>1, <2>2, StorefrontAssumption
<1>2. H => Asking \/ Fetching \/ Waiting
  BY DEF Waits, Polling, Polls
<1>3. K /\ H /\ <<PollTick(t)>>_vars => Asking'
  BY PollSteps
<1>4. K /\ H /\ <<PollStatus(t)>>_vars => G' \/ Fetching'
  BY PollSteps
<1>5. K /\ H /\ <<FetchDelivery(t)>>_vars => G'
  BY PollSteps
<1> HIDE DEF H, G, Asking, Fetching, Waiting, K
<1>6. Init /\ [][Next]_vars => []K
  BY InductiveSafe, PollingElsewhere, PTL DEF K
<1>7. /\ Init /\ [][Next]_vars
      /\ []<>(~ Waiting) \/ []<><<PollTick(t)>>_vars
      /\ <>[](~ Asking) \/ []<><<PollStatus(t)>>_vars
      /\ <>[](~ Fetching) \/ []<><<FetchDelivery(t)>>_vars
      => (H ~> G)
  BY <1>1, <1>2, <1>3, <1>4, <1>5, <1>6, PTL
<1> QED
  BY <1>7 DEF H, G, Asking, Fetching, Waiting, FairTick, FairStatus, FairFetch

=============================================================================
