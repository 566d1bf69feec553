---------------------------- MODULE PacketScanner ----------------------------
(***************************************************************************)
(* What the parser promises about a byte stream, without its state         *)
(* machine: it delivers telemetry packets of the stream from left to       *)
(* right, they do not overlap, and it never steps over one.  Where the     *)
(* chunks of the stream begin and end plays no part.                       *)
(***************************************************************************)
EXTENDS TelemetryPacket

CONSTANT Batches            \* byte strings that can be appended to the stream

VARIABLES
  stream,                   \* every byte received so far
  delivered                 \* the packets found, as records [at, size]

(* The first byte after the last delivered packet. *)
Frontier ==
  IF delivered = <<>> THEN 0
  ELSE delivered[Len(delivered)].at + delivered[Len(delivered)].size

Init == stream = <<>> /\ delivered = <<>>

Receive ==
  /\ \E batch \in Batches : stream' = stream \o batch
  /\ UNCHANGED delivered

(* Deliver the leftmost packet that starts at the frontier or after it. *)
Deliver ==
  /\ \E p \in Frontier..Len(stream) :
       /\ TelemetryPacketAt(stream, p)
       /\ \A q \in Frontier..(p - 1) : ~TelemetryPacketAt(stream, q)
       /\ delivered' = Append(delivered, PacketAt(stream, p))
  /\ UNCHANGED stream

Next == Receive \/ Deliver

Spec == Init /\ [][Next]_<<stream, delivered>>
=============================================================================
