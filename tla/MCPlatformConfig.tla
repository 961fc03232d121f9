-------------------------- MODULE MCPlatformConfig --------------------------
(***************************************************************************)
(* Instances of PlatformConfig for TLC.  No symmetry: a run checks         *)
(* liveness.                                                               *)
(***************************************************************************)
EXTENDS PlatformConfig

=============================================================================
