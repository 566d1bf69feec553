-------------------------- MODULE MCTelemetryLink --------------------------
(***************************************************************************)
(* An instance of TelemetryLink for TLC, with telemetry at the edges: the  *)
(* shortest and the longest identifier the parser accepts, one that is too *)
(* long, the generator's own, and numbers that hold header bytes, zeros    *)
(* and ones.                                                               *)
(***************************************************************************)
EXTENDS TelemetryLink

Eight(byte) == <<byte, byte, byte, byte, byte, byte, byte, byte>>

Headers == <<170, 85, 1, 0, 46, 170, 85, 170>>

Noisy == <<Headers, Eight(255), Eight(0), <<64, 64, 7, 10, 170, 85, 1, 0>>, Headers>>
Plain == <<Eight(0), Eight(0), Eight(0), Eight(0), <<0, 0, 1, 149, 33, 200, 17, 3>>>>

Telemetry ==
  [drone_id : {<<68, 82, 78, 45, 53>>, [k \in 1..39 |-> 170 - k]}, numbers : {Noisy}]
    \cup [drone_id : {<<>>, [k \in 1..40 |-> 85]}, numbers : {Plain}]
=============================================================================
