--------------------------- MODULE TelemetryPacket ---------------------------
(***************************************************************************)
(* The wire format of include/TelemetryPacket.h: the sizes of the fields   *)
(* of a packet, and what it means that a byte string holds a packet at a   *)
(* position.  Positions are offsets: position p is the byte s[p + 1].      *)
(*                                                                         *)
(*     AA 55 | type | length (big endian) | payload | crc (big endian)     *)
(***************************************************************************)
EXTENDS Integers, Sequences

CONSTANTS
  MIN_PAYLOAD_EXP_LENGTH,   \* shortest payload length the parser accepts
  MAX_PAYLOAD_EXP_LENGTH,   \* longest payload length the parser accepts
  calculate_crc16(_)        \* checksum of a byte string

ASSUME LengthAssumption ==
  /\ MIN_PAYLOAD_EXP_LENGTH \in Nat
  /\ MAX_PAYLOAD_EXP_LENGTH \in Nat

Byte == 0..255

HEADER_BYTES == <<170, 85>>   \* 0xAA 0x55
HEADER_SIZE_BYTES == 2
TYPE_SIZE_BYTES == 1
LENGTH_SIZE_BYTES == 2
CRC_SIZE_BYTES == 2

TYPE_STARTING_IDX == HEADER_SIZE_BYTES
LENGTH_STARTING_IDX == HEADER_SIZE_BYTES + TYPE_SIZE_BYTES
PAYLOAD_STARTING_IDX == HEADER_SIZE_BYTES + TYPE_SIZE_BYTES + LENGTH_SIZE_BYTES

(* enum class TypeMsg *)
UNKNOW == 0
TELEMETRY == 1
HEART_BEAT == 2
COMMAND == 4

TotalPacketSize(payloadLength) ==
  PAYLOAD_STARTING_IDX + payloadLength + CRC_SIZE_BYTES

-----------------------------------------------------------------------------
(* Reading a packet at position p of the byte string s. *)

HeaderAt(s, p) ==
  /\ p + HEADER_SIZE_BYTES <= Len(s)
  /\ s[p + 1] = HEADER_BYTES[1]
  /\ s[p + 2] = HEADER_BYTES[2]

TypeAt(s, p) == s[p + TYPE_STARTING_IDX + 1]

LengthAt(s, p) ==
  256 * s[p + LENGTH_STARTING_IDX + 1] + s[p + LENGTH_STARTING_IDX + 2]

(* Variant: a mistake in the definition that follows, which no behaviour   *)
(* uses: the length has no upper bound.                                    *)
LongEnough(n) == MIN_PAYLOAD_EXP_LENGTH <= n

PlausibleLength(n) ==
  MIN_PAYLOAD_EXP_LENGTH <= n /\ n <= MAX_PAYLOAD_EXP_LENGTH

(* The two last of the n bytes at p are the checksum of those before them. *)
CrcMatches(s, p, n) ==
  calculate_crc16(SubSeq(s, p + 1, p + n - CRC_SIZE_BYTES))
    = 256 * s[p + n - 1] + s[p + n]

(* A complete telemetry packet the format accepts starts at p. *)
TelemetryPacketAt(s, p) ==
  /\ HeaderAt(s, p)
  /\ p + PAYLOAD_STARTING_IDX <= Len(s)
  /\ TypeAt(s, p) = TELEMETRY
  /\ PlausibleLength(LengthAt(s, p))
  /\ p + TotalPacketSize(LengthAt(s, p)) <= Len(s)
  /\ CrcMatches(s, p, TotalPacketSize(LengthAt(s, p)))

PacketAt(s, p) == [at |-> p, size |-> TotalPacketSize(LengthAt(s, p))]
=============================================================================
