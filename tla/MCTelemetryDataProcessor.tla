---------------------- MODULE MCTelemetryDataProcessor ----------------------
(* Instances of TelemetryDataProcessor for TLC. *)
EXTENDS TelemetryDataProcessor, TLC

CONSTANTS d1, d2

BothDrones == {d1, d2}

(* Timestamps are at or behind the server's clock, by a tick for d1 and by *)
(* more than the timeout for d2: a clock that is behind, a packet that was *)
(* long on its way, one overtaken by a younger packet.                     *)
ClocksBehind == d1 :> {0, -1} @@ d2 :> {0, -3}
LagBehind == d1 :> 1 @@ d2 :> 3

(* A drone whose clock may be one tick ahead. *)
OneDrone == {d1}
ClockAhead == d1 :> {0, 1}
NoLag == d1 :> 0
=============================================================================
