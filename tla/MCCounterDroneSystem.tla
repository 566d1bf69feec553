------------------------ MODULE MCCounterDroneSystem ------------------------
(* Instances of CounterDroneSystem for TLC. *)
EXTENDS CounterDroneSystem
=============================================================================
