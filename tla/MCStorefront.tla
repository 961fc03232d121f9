----------------------------- MODULE MCStorefront -----------------------------
(***************************************************************************)
(* Instance of Storefront for TLC: the constants are in MCStorefront.cfg.  *)
(* No symmetry, because the run checks a liveness property.                *)
(***************************************************************************)
EXTENDS Storefront, TLC

=============================================================================
