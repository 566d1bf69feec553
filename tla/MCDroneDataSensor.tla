-------------------------- MODULE MCDroneDataSensor --------------------------
(* Instances of DroneDataSensor for TLC. *)
EXTENDS DroneDataSensor
=============================================================================
