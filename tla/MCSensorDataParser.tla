------------------------- MODULE MCSensorDataParser -------------------------
(***************************************************************************)
(* Instances of SensorDataParser for TLC.  The packet format is scaled     *)
(* down: the five 8-byte numbers of a payload shrink to one byte, so that  *)
(* a payload is <<id length, id bytes, number>> and 1 plays the part of    *)
(* the 40 in MIN_PAYLOAD_EXP_LENGTH.                                       *)
(***************************************************************************)
EXTENDS SensorDataParser

(* A checksum that depends on every byte and its place. *)
MixingCrc(s) ==
  LET crc[i \in 0..Len(s)] == IF i = 0 THEN 7 ELSE (31 * crc[i - 1] + s[i] + 1) % 65521
  IN  crc[Len(s)]

(* deserialize_payload on the scaled payload; the fallback is unreachable  *)
(* for the payloads the simulator builds.                                  *)
DecodeScaled(bytes) ==
  LET idLength == bytes[1]
  IN  IF Len(bytes) < 2 + idLength THEN <<>>
      ELSE <<SubSeq(bytes, 2, 1 + idLength), bytes[2 + idLength]>>

Packet(type, payload) ==
  LET body == HEADER_BYTES \o <<type, 0, Len(payload)>> \o payload
      crc  == MixingCrc(body)
  IN  body \o <<crc \div 256, crc % 256>>

Plain   == Packet(TELEMETRY, <<0, 9>>)
AaInId  == Packet(TELEMETRY, <<1, 170, 5>>)

(* The scenarios of DroneDataSimulator::process_loop: whole packets,       *)
(* packets in two fragments, several at once, garbage, one corrupted bit.  *)
Fragments ==
  {SubSeq(Plain, 1, 1), SubSeq(Plain, 2, 9), SubSeq(Plain, 1, 4), SubSeq(Plain, 5, 9),
   SubSeq(AaInId, 1, 7), SubSeq(AaInId, 8, 10)}

Garbage == {<<170>>, <<3, 85, 3, 170>>, <<170, 85, TELEMETRY, 0, 3>>}

Corrupted == {[Plain EXCEPT ![7] = 8], [Plain EXCEPT ![5] = 3], [Plain EXCEPT ![5] = 66],
              [Plain EXCEPT ![3] = 64]}

(* Messages of the types that have no handler, and an unknown type. *)
OtherTypes == {Packet(HEART_BEAT, <<7>>), <<170, 85, 170, 85>>}

Traffic == {Plain, AaInId, Plain \o AaInId} \cup Fragments \cup Garbage \cup Corrupted \cup OtherTypes

(* Whole packets and unknown types. *)
MixedTraffic == {Plain} \cup OtherTypes
=============================================================================
