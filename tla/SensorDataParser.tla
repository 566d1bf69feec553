-------------------------- MODULE SensorDataParser --------------------------
(***************************************************************************)
(* The byte-level state machine of SensorDataParser, one action per        *)
(* iteration of the loop in process_accumulated_data.  The operators called *)
(* variants are mistakes one could make in the definition that follows     *)
(* them; no behaviour uses them, they show that the properties can fail.   *)
(*                                                                         *)
(* The buffer m_accumulated_data is kept as the part of the whole received *)
(* stream that was not erased yet: it is stream[base + 1 .. Len(stream)],  *)
(* and accumulated_data_view, the part not consumed yet, is                *)
(* stream[view + 1 .. Len(stream)].  remove_prefix(n) is view' = view + n, *)
(* the single erase at the end of a call is base' = view.                  *)
(***************************************************************************)
EXTENDS TelemetryPacket

CONSTANTS
  Batches,                  \* what one pop_all can return, chunks concatenated
  MaxBytes,                 \* bound: bytes received in one behaviour
  deserialize_payload(_)    \* telemetry read from the bytes it is handed

ASSUME BatchAssumption ==
  /\ \A batch \in Batches : batch \in Seq(Byte) /\ batch # <<>>
  /\ MaxBytes \in Nat

VARIABLES
  stream, base, view,
  pc,                         \* "pop_all" between two batches, else "process"
  state_changed,              \* the loop condition's flag
  m_state,
  m_type,
  m_expected_payload_length,
  m_received_valid_packets,   \* as records [at, size] of the stream
  pushed,                     \* telemetry given to push_data, in order
  m_pkt_count,                \* the three per-type counters
  m_crc_errors_count,
  m_invalid_structure_count

vars == <<stream, base, view, pc, state_changed, m_state, m_type,
          m_expected_payload_length, m_received_valid_packets, pushed,
          m_pkt_count, m_crc_errors_count, m_invalid_structure_count>>

ParserState == {"WAIT_FOR_SYNC", "READ_TYPE", "READ_LENGTH", "READ_PAYLOAD"}

KnownTypes == {TELEMETRY, HEART_BEAT, COMMAND}

-----------------------------------------------------------------------------

ViewSize == Len(stream) - view

ExpectedPacketSize == TotalPacketSize(m_expected_payload_length)

(* How many bytes the current state must see before it can do anything. *)
BytesNeeded ==
  CASE m_state = "WAIT_FOR_SYNC" -> 1
    [] m_state = "READ_TYPE"     -> HEADER_SIZE_BYTES + TYPE_SIZE_BYTES
    [] m_state = "READ_LENGTH"   -> PAYLOAD_STARTING_IDX
    [] m_state = "READ_PAYLOAD"  -> ExpectedPacketSize

(* Variant: the loop gives up when less than a maximal packet is left. *)
StopsShort ==
  pc = "process" /\ state_changed /\ ViewSize > TotalPacketSize(MAX_PAYLOAD_EXP_LENGTH)

LoopCondition == pc = "process" /\ state_changed /\ ViewSize > 0

(* The loop runs its body in state s and has the bytes it needs there. *)
Ready(s) == LoopCondition /\ m_state = s /\ ViewSize >= BytesNeeded

(* Variant: the window slides over all that the rejected candidate claims. *)
SkipWholeCandidate == ExpectedPacketSize

(* How far the window slides after each kind of rejected candidate. *)
SkipUnknownType == HEADER_SIZE_BYTES
SkipBadLength == HEADER_SIZE_BYTES
SkipBadCrc == 1

(* Variant: nothing is kept. *)
KeepNothing == 0

(* What is kept of a buffer without any header: a last byte 0xAA, which    *)
(* may be the first half of a header the next chunk completes.             *)
KeptWithoutHeader ==
  IF stream[Len(stream)] = HEADER_BYTES[1] THEN 1 ELSE 0

(* Variant: the length field is taken for the start of the payload. *)
LengthAndPayloadView == SubSeq(stream, view + LENGTH_STARTING_IDX + 1, Len(stream))

(* What deserialize_payload is handed: the view from the payload on, up to *)
(* the end of the buffer and not of the packet.                            *)
PayloadView == SubSeq(stream, view + PAYLOAD_STARTING_IDX + 1, Len(stream))

Init ==
  /\ stream = <<>>
  /\ base = 0
  /\ view = 0
  /\ pc = "pop_all"
  /\ state_changed = FALSE
  /\ m_state = "WAIT_FOR_SYNC"
  /\ m_type = UNKNOW
  /\ m_expected_payload_length = 0
  /\ m_received_valid_packets = <<>>
  /\ pushed = <<>>
  /\ m_pkt_count = [t \in KnownTypes |-> 0]
  /\ m_crc_errors_count = 0
  /\ m_invalid_structure_count = 0

-----------------------------------------------------------------------------
(* process_loop: append everything pop_all returned and run the machine. *)
PopAll ==
  /\ pc = "pop_all"
  /\ \E batch \in Batches :
       /\ Len(stream) + Len(batch) <= MaxBytes
       /\ stream' = stream \o batch
  /\ pc' = "process"
  /\ state_changed' = TRUE
  /\ UNCHANGED <<base, view, m_state, m_type, m_expected_payload_length,
                 m_received_valid_packets, pushed, m_pkt_count,
                 m_crc_errors_count, m_invalid_structure_count>>

(* WAIT_FOR_SYNC, a header in the view: drop the garbage before it. *)
SyncFound ==
  /\ Ready("WAIT_FOR_SYNC")
  /\ \E i \in view..Len(stream) :
       /\ HeaderAt(stream, i)
       /\ \A j \in view..(i - 1) : ~HeaderAt(stream, j)
       /\ view' = i
  /\ m_state' = "READ_TYPE"
  /\ state_changed' = TRUE
  /\ UNCHANGED <<stream, base, pc, m_type, m_expected_payload_length,
                 m_received_valid_packets, pushed, m_pkt_count,
                 m_crc_errors_count, m_invalid_structure_count>>

(* WAIT_FOR_SYNC, no header in the view: drop all but a last 0xAA. *)
SyncNotFound ==
  /\ Ready("WAIT_FOR_SYNC")
  /\ \A i \in view..Len(stream) : ~HeaderAt(stream, i)
  /\ view' = Len(stream) - KeptWithoutHeader
  /\ state_changed' = FALSE
  /\ UNCHANGED <<stream, base, pc, m_state, m_type, m_expected_payload_length,
                 m_received_valid_packets, pushed, m_pkt_count,
                 m_crc_errors_count, m_invalid_structure_count>>

(* READ_TYPE, one of the three message types. *)
ReadKnownType ==
  /\ Ready("READ_TYPE")
  /\ LET type == TypeAt(stream, view)
     IN  /\ type \in KnownTypes
         /\ m_type' = type
         /\ m_pkt_count' = [m_pkt_count EXCEPT ![type] = @ + 1]
  /\ m_state' = "READ_LENGTH"
  /\ state_changed' = TRUE
  /\ UNCHANGED <<stream, base, view, pc, m_expected_payload_length,
                 m_received_valid_packets, pushed,
                 m_crc_errors_count, m_invalid_structure_count>>

(* READ_TYPE, UNKNOW or default: counted as a CRC error, header dropped. *)
ReadUnknownType ==
  /\ Ready("READ_TYPE")
  /\ TypeAt(stream, view) \notin KnownTypes
  /\ m_crc_errors_count' = m_crc_errors_count + 1
  /\ view' = view + SkipUnknownType
  /\ m_state' = "WAIT_FOR_SYNC"
  /\ state_changed' = TRUE
  /\ UNCHANGED <<stream, base, pc, m_type, m_expected_payload_length,
                 m_received_valid_packets, pushed, m_pkt_count,
                 m_invalid_structure_count>>

(* READ_LENGTH, an implausible length: header dropped. *)
ReadBadLength ==
  /\ Ready("READ_LENGTH")
  /\ ~PlausibleLength(LengthAt(stream, view))
  /\ m_expected_payload_length' = LengthAt(stream, view)
  /\ m_invalid_structure_count' = m_invalid_structure_count + 1
  /\ view' = view + SkipBadLength
  /\ m_state' = "WAIT_FOR_SYNC"
  /\ state_changed' = TRUE
  /\ UNCHANGED <<stream, base, pc, m_type, m_received_valid_packets, pushed,
                 m_pkt_count, m_crc_errors_count>>

(* READ_LENGTH, a plausible length. *)
ReadLength ==
  /\ Ready("READ_LENGTH")
  /\ PlausibleLength(LengthAt(stream, view))
  /\ m_expected_payload_length' = LengthAt(stream, view)
  /\ m_state' = "READ_PAYLOAD"
  /\ state_changed' = TRUE
  /\ UNCHANGED <<stream, base, view, pc, m_type, m_received_valid_packets,
                 pushed, m_pkt_count, m_crc_errors_count,
                 m_invalid_structure_count>>

(* READ_PAYLOAD, telemetry, the checksum agrees: record the packet and     *)
(* push its telemetry.                                                     *)
DeliverTelemetry ==
  /\ Ready("READ_PAYLOAD")
  /\ m_type = TELEMETRY
  /\ CrcMatches(stream, view, ExpectedPacketSize)
  /\ m_received_valid_packets' = Append(m_received_valid_packets,
                                        [at |-> view, size |-> ExpectedPacketSize])
  /\ pushed' = Append(pushed, deserialize_payload(PayloadView))
  /\ view' = view + ExpectedPacketSize
  /\ m_state' = "WAIT_FOR_SYNC"
  /\ state_changed' = TRUE
  /\ UNCHANGED <<stream, base, pc, m_type, m_expected_payload_length,
                 m_pkt_count, m_crc_errors_count, m_invalid_structure_count>>

(* READ_PAYLOAD, telemetry, the checksum differs: slide the window. *)
RejectTelemetry ==
  /\ Ready("READ_PAYLOAD")
  /\ m_type = TELEMETRY
  /\ ~CrcMatches(stream, view, ExpectedPacketSize)
  /\ m_crc_errors_count' = m_crc_errors_count + 1
  /\ view' = view + SkipBadCrc
  /\ m_state' = "WAIT_FOR_SYNC"
  /\ state_changed' = TRUE
  /\ UNCHANGED <<stream, base, pc, m_type, m_expected_payload_length,
                 m_received_valid_packets, pushed, m_pkt_count,
                 m_invalid_structure_count>>

(* Variants: the unhandled packet is consumed without going back to        *)
(* WAIT_FOR_SYNC, or without being counted, or the loop goes on with it.   *)
IgnoreAndGoOn(skipped, nextState) ==
  /\ Ready("READ_PAYLOAD")
  /\ m_type # TELEMETRY
  /\ view' = view + skipped
  /\ m_state' = nextState
  /\ state_changed' = TRUE
  /\ UNCHANGED <<stream, base, pc, m_type, m_expected_payload_length,
                 m_received_valid_packets, pushed, m_pkt_count,
                 m_crc_errors_count, m_invalid_structure_count>>

IgnoreKeepingState == IgnoreAndGoOn(ExpectedPacketSize, m_state)
IgnoreUncounted == IgnoreAndGoOn(ExpectedPacketSize, "WAIT_FOR_SYNC")
IgnoreSpinning == IgnoreAndGoOn(0, m_state)

(* READ_PAYLOAD, another type: process_heart_beat_payload and              *)
(* process_command_payload are empty, so nothing changes and the loop      *)
(* ends with the packet still at the front.                                *)
IgnorePayload ==
  /\ Ready("READ_PAYLOAD")
  /\ m_type # TELEMETRY
  /\ state_changed' = FALSE
  /\ UNCHANGED <<stream, base, view, pc, m_state, m_type,
                 m_expected_payload_length, m_received_valid_packets, pushed,
                 m_pkt_count, m_crc_errors_count, m_invalid_structure_count>>

(* Any state without the bytes it needs: the loop ends, the state stays. *)
AwaitMoreBytes ==
  /\ LoopCondition
  /\ ViewSize < BytesNeeded
  /\ state_changed' = FALSE
  /\ UNCHANGED <<stream, base, view, pc, m_state, m_type,
                 m_expected_payload_length, m_received_valid_packets, pushed,
                 m_pkt_count, m_crc_errors_count, m_invalid_structure_count>>

(* The loop has ended: erase what it consumed, go back to pop_all. *)
EraseProcessed ==
  /\ pc = "process"
  /\ ~LoopCondition
  /\ base' = view
  /\ pc' = "pop_all"
  /\ UNCHANGED <<stream, view, state_changed, m_state, m_type,
                 m_expected_payload_length, m_received_valid_packets, pushed,
                 m_pkt_count, m_crc_errors_count, m_invalid_structure_count>>

(* The switch over m_state. *)
LoopBody ==
  \/ SyncFound \/ SyncNotFound
  \/ ReadKnownType \/ ReadUnknownType
  \/ ReadBadLength \/ ReadLength
  \/ DeliverTelemetry \/ RejectTelemetry \/ IgnorePayload
  \/ AwaitMoreBytes

process_accumulated_data == LoopBody \/ EraseProcessed

Next == PopAll \/ process_accumulated_data

(* The parser thread runs; whether bytes arrive is up to the drones. *)
Spec == Init /\ [][Next]_vars /\ WF_vars(process_accumulated_data)

-----------------------------------------------------------------------------
(* The shape of the state: every variable in its range, and the erased,    *)
(* consumed and received parts of the stream nested.                       *)
TypeOK ==
  /\ stream \in Seq(Byte)
  /\ base \in Nat
  /\ view \in Nat
  /\ base <= view /\ view <= Len(stream)
  /\ pc \in {"pop_all", "process"}
  /\ state_changed \in BOOLEAN
  /\ m_state \in ParserState
  /\ m_type \in KnownTypes \cup {UNKNOW}
  /\ m_expected_payload_length \in Nat
  /\ m_received_valid_packets \in Seq([at : Nat, size : Nat])
  /\ Len(pushed) = Len(m_received_valid_packets)
  /\ m_pkt_count \in [KnownTypes -> Nat]
  /\ m_crc_errors_count \in Nat
  /\ m_invalid_structure_count \in Nat

(* m_state, m_type and m_expected_payload_length survive from one call of  *)
(* process_accumulated_data to the next, through any fragmentation of the  *)
(* stream, and yet they always describe the bytes now at the front of the  *)
(* view: never a packet that was consumed or rejected.                     *)
FieldsMatchView ==
  /\ m_state # "WAIT_FOR_SYNC" => HeaderAt(stream, view)
  /\ m_state \in {"READ_LENGTH", "READ_PAYLOAD"} =>
       /\ ViewSize >= HEADER_SIZE_BYTES + TYPE_SIZE_BYTES
       /\ m_type = TypeAt(stream, view)
       /\ m_type \in KnownTypes
  /\ m_state = "READ_PAYLOAD" =>
       /\ ViewSize >= PAYLOAD_STARTING_IDX
       /\ m_expected_payload_length = LengthAt(stream, view)
       /\ PlausibleLength(m_expected_payload_length)

(* What is delivered was sent: each recorded packet is a complete,         *)
(* checksummed telemetry packet of the stream, and a byte is never used    *)
(* for two packets.                                                        *)
DeliveredPacketsGenuine ==
  \A k \in DOMAIN m_received_valid_packets :
    LET packet == m_received_valid_packets[k]
    IN  /\ TelemetryPacketAt(stream, packet.at)
        /\ packet = PacketAt(stream, packet.at)
        /\ packet.at + packet.size <= view
        /\ \A j \in 1..(k - 1) :
             m_received_valid_packets[j].at + m_received_valid_packets[j].size
               <= packet.at

(* Resynchronisation loses nothing: if a complete telemetry packet starts  *)
(* in the consumed part of the stream, it was delivered, or it starts      *)
(* inside one that was.  Garbage, corrupted types, lengths and checksums,  *)
(* and chunk boundaries never make the parser step over a packet.          *)
NoPacketSkipped ==
  \A p \in 0..(view - 1) :
    TelemetryPacketAt(stream, p) =>
      \E k \in DOMAIN m_received_valid_packets :
        /\ m_received_valid_packets[k].at <= p
        /\ p < m_received_valid_packets[k].at + m_received_valid_packets[k].size

(* Between two batches the parser holds fewer bytes than one packet of     *)
(* maximal size, whatever garbage arrived -- unless a packet of a type it  *)
(* has no handler for sits at the front.                                   *)
UnhandledAtFront == m_state = "READ_PAYLOAD" /\ m_type # TELEMETRY

BufferBounded ==
  pc = "pop_all" /\ ~UnhandledAtFront =>
    Len(stream) - base < TotalPacketSize(MAX_PAYLOAD_EXP_LENGTH)

(* A telemetry packet that is complete in the buffer and yet not delivered *)
(* when the parser goes back to sleep lies inside the bytes a candidate    *)
(* before it claims: the parser waits for that candidate, which the next   *)
(* bytes complete.                                                         *)
HeldBackByOpenCandidate ==
  \A p \in view..Len(stream) :
    TelemetryPacketAt(stream, p) =>
      /\ m_state = "READ_PAYLOAD"
      /\ view < p
      /\ p + TotalPacketSize(LengthAt(stream, p)) < view + ExpectedPacketSize

HeldBackOnlyByCandidate ==
  pc = "pop_all" /\ ~UnhandledAtFront => HeldBackByOpenCandidate

(* Every header found is accounted for once: the candidates whose type was *)
(* counted are delivered, rejected for their length, still open, or        *)
(* rejected for their checksum, and the last are among the CRC errors.     *)
CandidatesCounted ==
  m_pkt_count[TELEMETRY] + m_pkt_count[HEART_BEAT] + m_pkt_count[COMMAND]

CandidateOpen == IF m_state \in {"READ_LENGTH", "READ_PAYLOAD"} THEN 1 ELSE 0

CrcRejections ==
  CandidatesCounted - Len(m_received_valid_packets)
    - m_invalid_structure_count - CandidateOpen

CountersBalance ==
  CrcRejections \in 0..m_crc_errors_count

(* Each telemetry record pushed was read from the payload of the packet    *)
(* recorded with it, although deserialize_payload sees the whole rest of   *)
(* the buffer.                                                             *)
PayloadOf(packet) ==
  SubSeq(stream, packet.at + PAYLOAD_STARTING_IDX + 1,
         packet.at + packet.size - CRC_SIZE_BYTES)

DecodedFromOwnPayload ==
  \A k \in DOMAIN pushed :
    pushed[k] = deserialize_payload(PayloadOf(m_received_valid_packets[k]))

(* No iteration of the loop leaves state_changed set without progress: the *)
(* view shrinks or the state advances towards READ_PAYLOAD, so a call of   *)
(* process_accumulated_data always returns.                                *)
StateRank ==
  CASE m_state = "WAIT_FOR_SYNC" -> 3
    [] m_state = "READ_TYPE"     -> 2
    [] m_state = "READ_LENGTH"   -> 1
    [] m_state = "READ_PAYLOAD"  -> 0

LoopMeasure == 4 * ViewSize + StateRank

LoopAdvances ==
  [][pc = "process" /\ state_changed' /\ pc' = "process"
       => LoopMeasure' < LoopMeasure]_vars

(* The parser thread always comes back for the next batch. *)
EveryBatchFinishes == pc = "process" ~> pc = "pop_all"

(* A statement of the repository that the code does not meet.              *)

(* include/SensorDataParser.h:40-47: the machine extracts the valid        *)
(* telemetry packets through corrupted bytes and loss of synchronisation.  *)
(* So a packet is held back only by a candidate still waiting for bytes,   *)
(* whatever the type of that candidate.                                    *)
RecoversFromEveryCandidate ==
  pc = "pop_all" => HeldBackByOpenCandidate

(* The parser delivers what PacketScanner promises. *)
Scanner == INSTANCE PacketScanner WITH delivered <- m_received_valid_packets

ImplementsScanner == Scanner!Spec
=============================================================================
