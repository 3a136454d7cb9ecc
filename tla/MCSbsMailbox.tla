---------------------------- MODULE MCSbsMailbox ----------------------------
(* Instances of SbsMailbox for TLC. *)
EXTENDS SbsMailbox
=============================================================================
