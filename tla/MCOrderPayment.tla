--------------------------- MODULE MCOrderPayment ---------------------------
(***************************************************************************)
(* Instances of OrderPayment for TLC.  Requests are interchangeable: no    *)
(* action or property tells two of them apart.                             *)
(***************************************************************************)
EXTENDS OrderPayment, TLC

Symmetry == Permutations(Requests)

=============================================================================
