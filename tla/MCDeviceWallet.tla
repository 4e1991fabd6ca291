--------------------------- MODULE MCDeviceWallet ---------------------------
(* Instances of DeviceWallet for TLC. *)
EXTENDS DeviceWallet, TLC
=============================================================================
