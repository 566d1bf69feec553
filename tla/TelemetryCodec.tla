--------------------------- MODULE TelemetryCodec ---------------------------
(***************************************************************************)
(* How the generator builds a packet and the parser reads it back, byte by *)
(* byte, with the CRC-16 of include/Generals.h.  A double or a uint64_t is *)
(* the tuple of its 8 bytes in memory, which both sides copy as they are.  *)
(* Operators called variants are mistakes one could make in the definition *)
(* that follows them; no definition uses them.                             *)
(***************************************************************************)
EXTENDS Integers, Sequences

(* Variant: the register starts from 0. *)
ZeroRegister == 0

(* crc before the first byte. *)
InitialCrc == 65535

(* uint16_t *)
UINT16_MAX == 65535
Crc16 == 0..UINT16_MAX

(* The ^ of C++: of a word and the power of 2 place, and of two bytes.     *)
Toggle(word, place) ==
  IF (word \div place) % 2 = 0 THEN word + place ELSE word - place

XorByte(a, b) ==
  LET differ(place) == place * (((a \div place) + (b \div place)) % 2)
  IN  differ(1) + differ(2) + differ(4) + differ(8)
        + differ(16) + differ(32) + differ(64) + differ(128)

(* 0x1021, the polynomial, is the bits 12, 5 and 0. *)
XorPolynomial(crc) == Toggle(Toggle(Toggle(crc, 1), 32), 4096)

(* Variant: the bit that is shifted out is looked at after the shift. *)
ShiftThenTest(crc) ==
  LET shifted == (2 * crc) % 65536
  IN  IF shifted >= 32768 THEN XorPolynomial(shifted) ELSE shifted

(* One turn of the inner loop: shift left, and subtract 0x1021 for a 1.    *)
ShiftBit(crc) == IF crc >= 32768 THEN XorPolynomial((2 * crc) % 65536) ELSE 2 * crc

ShiftByte[crc \in Crc16] ==
  LET twice(c) == ShiftBit(ShiftBit(c))
      fourTimes(c) == twice(twice(c))
  IN  fourTimes(fourTimes(crc))

calculate_crc16(bytes) ==
  LET (* One turn of the outer loop: the byte goes into the high byte. *)
      turn[crc \in Crc16] ==
        [byte \in 0..255 |-> ShiftByte[256 * XorByte(crc \div 256, byte) + (crc % 256)]]
      crc[k \in 0..Len(bytes)] ==
        IF k = 0 THEN InitialCrc ELSE turn[crc[k - 1]][bytes[k]]
  IN  crc[Len(bytes)]

Format == INSTANCE TelemetryPacket
            WITH MIN_PAYLOAD_EXP_LENGTH <- 40, MAX_PAYLOAD_EXP_LENGTH <- 80

(* struct TelemetryData: the identifier; the latitude, the longitude, the  *)
(* altitude, the speed and the timestamp, of 8 bytes each.                 *)
NUMBERS == 5
NUMBER_SIZE == 8

TelemetryData ==
  [drone_id : Seq(Format!Byte), numbers : [1..NUMBERS -> [1..NUMBER_SIZE -> Format!Byte]]]

RawBytes(numbers) == numbers[1] \o numbers[2] \o numbers[3] \o numbers[4] \o numbers[5]

(* Variant: the identifier is terminated by a zero, without its length.    *)
serialize_terminated(t) == t.drone_id \o <<0>> \o RawBytes(t.numbers)

serialize_telemetry_data_to_bytes_sequence(t) ==
  <<Len(t.drone_id) % 256>> \o t.drone_id \o RawBytes(t.numbers)

BigEndian16(n) == <<(n \div 256) % 256, n % 256>>

build_telemetry_packet(t) ==
  LET payload == serialize_telemetry_data_to_bytes_sequence(t)
      packet  == Format!HEADER_BYTES \o <<Format!TELEMETRY>> \o BigEndian16(Len(payload))
                   \o payload
  IN  packet \o BigEndian16(calculate_crc16(packet))

(* statistic_packet_corruption: one bit of the byte with this index is     *)
(* flipped, from the high byte of the length on.                           *)
CorruptibleBytes(packet) == 3..(Len(packet) - 1)

BitMasks == {1, 2, 4, 8, 16, 32, 64, 128}    \* 1 << target_bit

Corrupt(packet, target_byte, mask) == [packet EXCEPT ![target_byte + 1] = Toggle(@, mask)]

(* Undefined: the view is read past its end. *)
Outside == [undefined |-> TRUE]

(* deserialize_payload, given all that follows the length field: how many  *)
(* bytes it reads, and what it returns.                                    *)
BytesRead(payload_view) == 1 + payload_view[1] + NUMBERS * NUMBER_SIZE

deserialize_payload(payload_view) ==
  LET id_len == payload_view[1]
      end(n) == 1 + id_len + n * NUMBER_SIZE
      number(n) == SubSeq(payload_view, end(n - 1) + 1, end(n))
  IN  IF BytesRead(payload_view) > Len(payload_view) THEN Outside
      ELSE [drone_id |-> SubSeq(payload_view, 2, id_len + 1),
            numbers  |-> [n \in 1..NUMBERS |-> number(n)]]
=============================================================================
