---------------------------- MODULE MCI2ecPort ----------------------------
(* Instances of I2ecPort for TLC. *)
EXTENDS I2ecPort
=============================================================================
