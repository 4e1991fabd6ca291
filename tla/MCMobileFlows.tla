--------------------------- MODULE MCMobileFlows ---------------------------
(* Instances of MobileFlows for TLC. *)
EXTENDS MobileFlows, TLC
=============================================================================
