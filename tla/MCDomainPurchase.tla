-------------------------- MODULE MCDomainPurchase --------------------------
(***************************************************************************)
(* Instances of DomainPurchase for TLC.  Purchases, names and callbacks    *)
(* are interchangeable.                                                    *)
(***************************************************************************)
EXTENDS DomainPurchase, TLC

Symmetry == Permutations(Purchases) \cup Permutations(Names) \cup Permutations(Callbacks)

=============================================================================
