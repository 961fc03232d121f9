--------------------------- MODULE PaymentPromise ---------------------------
(***************************************************************************)
(* What an order and its payment promise, whatever happens to the requests *)
(* that carry it out.  The money is collected first, for an order that is  *)
(* placed; the order is confirmed as paid after that; the customer is told *)
(* last: one stage at a time and never back.  The status that the staff    *)
(* and the customer see is theirs to move, but 'paid' is written over it   *)
(* only by a confirmation, and a confirmation always writes it.  Both      *)
(* OrderPayment and Storefront are shown to keep this promise.             *)
(***************************************************************************)
CONSTANTS
  Orders,
  StaffStatuses   \* the statuses staff may set

VARIABLES
  stage,    \* how far the payment of each order has come
  status    \* what each order says of itself, or "absent" before it is placed

vars == <<stage, status>>

Init ==
  /\ stage = [o \in Orders |-> "due"]
  /\ status = [o \in Orders |-> "absent"]

Place(o) ==
  /\ status[o] = "absent"
  /\ status' = [status EXCEPT ![o] = "pending"]
  /\ UNCHANGED stage

Collect(o) ==
  /\ stage[o] = "due" /\ status[o] # "absent"
  /\ stage' = [stage EXCEPT ![o] = "collected"]
  /\ UNCHANGED status

\* The first confirmation, or a later one.
Confirm(o) ==
  /\ stage[o] # "due"
  /\ stage' = [stage EXCEPT ![o] = IF @ = "collected" THEN "confirmed" ELSE @]
  /\ status' = [status EXCEPT ![o] = "paid"]

Notify(o) ==
  /\ stage[o] = "confirmed"
  /\ stage' = [stage EXCEPT ![o] = "notified"]
  /\ UNCHANGED status

SetStatus(o, s) ==
  /\ status[o] # "absent"
  /\ status' = [status EXCEPT ![o] = s]
  /\ UNCHANGED stage

Next ==
  \E o \in Orders :
    \/ Place(o) \/ Collect(o) \/ Confirm(o) \/ Notify(o)
    \/ \E s \in StaffStatuses : SetStatus(o, s)

Spec == Init /\ [][Next]_vars

=============================================================================
