--------------------------- MODULE MCSubscription ---------------------------
(***************************************************************************)
(* Instances of Subscription for TLC.  Invoices, callbacks and operators   *)
(* are interchangeable; the run that checks liveness uses no symmetry.     *)
(***************************************************************************)
EXTENDS Subscription, TLC

Symmetry == Permutations(Invoices) \cup Permutations(Callbacks) \cup Permutations(Operators)

=============================================================================
