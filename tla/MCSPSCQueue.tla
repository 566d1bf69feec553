---------------------------- MODULE MCSPSCQueue ----------------------------
(* Instances of SPSCQueue for TLC. *)
EXTENDS SPSCQueue
=============================================================================
