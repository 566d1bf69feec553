--------------------------- MODULE TelemetryLink ---------------------------
(***************************************************************************)
(* The generator with the bytes of what it sends: DroneDataSimulator's     *)
(* scenarios, composed with the packets TelemetryCodec builds, corrupts    *)
(* and reads back.  Only the last packet sent is kept, with another one    *)
(* behind it, as in the parser's buffer.                                   *)
(***************************************************************************)
EXTENDS DroneDataSimulator, TelemetryCodec

CONSTANTS
  Samples,                  \* the telemetry drawn: records [drone_id, numbers]
  MaxBuilt                  \* bound: calls of send whose bytes are followed

(* The generator's identifiers are "DRN-1" to "DRN-5"; all that is assumed *)
(* is that the length of an identifier fits in the byte in front of it.    *)
ASSUME LinkAssumption ==
  /\ Samples \subseteq TelemetryData
  /\ \A t \in Samples : Len(t.drone_id) <= 255
  /\ MaxBuilt \in Nat

VARIABLE in_transit         \* <<[telemetry, bytes]>>, or <<>> if not followed

LinkInit == Init /\ in_transit = <<>>

Transmits(kind) ==
  /\ Len(wire) < MaxBuilt
  /\ wire' # wire
  /\ wire'[Len(wire')].kind = kind

(* Scenarios 0, 3 and 4: the packet is sent as it was built. *)
TransmitIntact ==
  /\ Next
  /\ Transmits("whole")
  /\ \E t \in Samples :
       LET packet == build_telemetry_packet(t)
       IN  in_transit' = <<[telemetry |-> t, bytes |-> packet \o packet]>>

(* Scenario 3: one bit of it is flipped. *)
TransmitCorrupted ==
  /\ Next
  /\ Transmits("corrupted")
  /\ \E t \in Samples : \E packet \in {build_telemetry_packet(t)} :
       \E target_byte \in CorruptibleBytes(packet), mask \in BitMasks :
         in_transit' = <<[telemetry |-> t,
                          bytes |-> Corrupt(packet, target_byte, mask) \o packet]>>

(* Every other step. *)
TransmitNothing ==
  /\ Next
  /\ ~Transmits("whole") /\ ~Transmits("corrupted")
  /\ in_transit' = <<>>

LinkNext == TransmitIntact \/ TransmitCorrupted \/ TransmitNothing

LinkSpec == LinkInit /\ [][LinkNext]_<<vars, in_transit>>

-----------------------------------------------------------------------------
Arrived(kind) == in_transit # <<>> /\ wire[Len(wire)].kind = kind

PayloadView(bytes) == SubSeq(bytes, Format!PAYLOAD_STARTING_IDX + 1, Len(bytes))

(* What is built is read back, also when the buffer goes on behind it: a   *)
(* packet is accepted exactly if its payload length is, and the reader     *)
(* stops at the checksum (SensorDataParser.cpp:334 trusts the length of    *)
(* the identifier).                                                        *)
RoundTrip ==
  Arrived("whole") =>
    LET telemetry == in_transit[1].telemetry
        buffer == in_transit[1].bytes
    IN  /\ Format!TelemetryPacketAt(buffer, 0) <=> Len(telemetry.drone_id) <= 39
        /\ deserialize_payload(PayloadView(buffer)) = telemetry
        /\ BytesRead(PayloadView(buffer)) = Format!LengthAt(buffer, 0)

(* A packet with one flipped bit, of the payload, of the checksum or of    *)
(* the length, is refused, whatever follows it, as long as the flip does   *)
(* not make the length another plausible one.  If it does, the parser      *)
(* compares a checksum over part of the packet, or over bytes behind it,   *)
(* with two bytes that are no checksum: they may agree by chance, and      *)
(* nothing in the code excludes it.                                        *)
CorruptionDetected ==
  Arrived("corrupted") =>
    LET buffer == in_transit[1].bytes
        sent == Len(serialize_telemetry_data_to_bytes_sequence(in_transit[1].telemetry))
        read == Format!LengthAt(buffer, 0)
    IN  read = sent \/ ~Format!PlausibleLength(read) => ~Format!TelemetryPacketAt(buffer, 0)

(* The reference for the checksum: polynomial division by                  *)
(* x^16 + x^12 + x^5 + 1, as one does it by hand, with the first 16 bits   *)
(* inverted.  A bit string is the set of the places of its ones.           *)
BitValues == <<128, 64, 32, 16, 8, 4, 2, 1>>

Ones(bytes) ==
  {k \in 1..(8 * Len(bytes)) :
     (bytes[(k + 7) \div 8] \div BitValues[((k - 1) % 8) + 1]) % 2 = 1}

Subtract(ones, places) == (ones \ places) \cup (places \ ones)

Divide(ones, k) ==
  IF k \in ones THEN Subtract(ones, {k, k + 4, k + 11, k + 16}) ELSE ones

DivideByte(ones, k) ==
  LET two(o, j)  == Divide(Divide(o, j + 1), j + 2)
      four(o, j) == two(two(o, j), j + 2)
  IN  four(four(ones, k), k + 4)

(* divided[j] is what is left after the places of j bytes; a turn is a     *)
(* function, so that TLC evaluates its argument once.                      *)
Remainder(message) ==
  LET n == 8 * Len(message)
      turn[j \in 1..Len(message)] ==
        [ones \in SUBSET (1..(n + 16)) |-> DivideByte(ones, 8 * (j - 1))]
      divided[j \in 0..Len(message)] ==
        IF j = 0 THEN Subtract(Ones(message), 1..16) ELSE turn[j][divided[j - 1]]
  IN  {k - n : k \in divided[Len(message)]}

(* The checksum at the end of a packet is the remainder of that division:  *)
(* the register of 16 bits in the loop of calculate_crc16 loses none.      *)
CrcIsRemainder ==
  Arrived("whole") =>
    LET bytes == in_transit[1].bytes
        size == Format!TotalPacketSize(Format!LengthAt(bytes, 0))
        checked == size - Format!CRC_SIZE_BYTES
    IN  Ones(SubSeq(bytes, checked + 1, size)) = Remainder(SubSeq(bytes, 1, checked))
=============================================================================
