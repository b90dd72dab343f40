---------------------------- MODULE MCDeviceSync ----------------------------
(* A small instance of DeviceSync for TLC. *)
EXTENDS DeviceSync
=============================================================================
