----------------------- MODULE SensorDataParser_proofs -----------------------
(***************************************************************************)
(* Proofs about SensorDataParser, for every packet format, checksum,       *)
(* decoder and fragmentation of the stream.                                *)
(*                                                                         *)
(* The argument: a position is stepped over only when the bytes already    *)
(* received show that no packet can start there (SkippedAreHopeless), and  *)
(* the three fields kept between two calls always describe the front of    *)
(* the view (FieldsMatchView), so what READ_PAYLOAD checks is the packet   *)
(* that starts there.                                                      *)
(***************************************************************************)
EXTENDS SensorDataParser, SequenceTheorems, TLAPS

-----------------------------------------------------------------------------
(* The packet format.  What a reader of the stream may rely on while bytes *)
(* are still arriving: once the bytes a question about position p needs    *)
(* are there, appending more does not change its answer.                   *)

(* Position p can be given up: the bytes received so far already show that *)
(* no complete telemetry packet can ever start there.                      *)
Hopeless(s, p) ==
  \/ p + 1 <= Len(s) /\ s[p + 1] # HEADER_BYTES[1]
  \/ p + 2 <= Len(s) /\ s[p + 2] # HEADER_BYTES[2]
  \/ p + TYPE_STARTING_IDX + 1 <= Len(s) /\ TypeAt(s, p) # TELEMETRY
  \/ p + PAYLOAD_STARTING_IDX <= Len(s) /\ ~PlausibleLength(LengthAt(s, p))
  \/ /\ p + PAYLOAD_STARTING_IDX <= Len(s)
     /\ p + TotalPacketSize(LengthAt(s, p)) <= Len(s)
     /\ ~CrcMatches(s, p, TotalPacketSize(LengthAt(s, p)))

(* The sizes of the packet format, as numbers. *)
LEMMA FormatSizes ==
  /\ HEADER_BYTES[1] = 170 /\ HEADER_BYTES[2] = 85
  /\ HEADER_SIZE_BYTES = 2 /\ TYPE_STARTING_IDX = 2 /\ LENGTH_STARTING_IDX = 3
  /\ PAYLOAD_STARTING_IDX = 5 /\ CRC_SIZE_BYTES = 2
  /\ \A n : TotalPacketSize(n) = 5 + n + 2
BY DEF HEADER_BYTES, HEADER_SIZE_BYTES, TYPE_SIZE_BYTES, LENGTH_SIZE_BYTES,
       CRC_SIZE_BYTES, TYPE_STARTING_IDX, LENGTH_STARTING_IDX,
       PAYLOAD_STARTING_IDX, TotalPacketSize

(* A length field whose two bytes are there is a natural number. *)
LEMMA LengthAtType ==
  ASSUME NEW s \in Seq(Byte), NEW p \in Nat, p + PAYLOAD_STARTING_IDX <= Len(s)
  PROVE  LengthAt(s, p) \in Nat
<1>1. p + 3 + 1 \in 1..Len(s) /\ p + 3 + 2 \in 1..Len(s)
  BY FormatSizes
<1>2. s[p + 3 + 1] \in Byte /\ s[p + 3 + 2] \in Byte
  BY <1>1
<1>3. LengthAt(s, p) = 256 * s[p + 3 + 1] + s[p + 3 + 2]
  BY FormatSizes DEF LengthAt
<1>4. ASSUME NEW high \in Byte, NEW low \in Byte PROVE 256 * high + low \in Nat
  BY DEF Byte
<1> QED
  BY <1>2, <1>3, <1>4

(* Appending leaves the bytes that were there where they were. *)
LEMMA AppendKeeps ==
  ASSUME NEW s \in Seq(Byte), NEW b \in Seq(Byte)
  PROVE  /\ s \o b \in Seq(Byte)
         /\ Len(s \o b) = Len(s) + Len(b)
         /\ Len(s) <= Len(s \o b)
         /\ \A i \in 1..Len(s) : (s \o b)[i] = s[i]
OBVIOUS

(* ... and so every range of bytes that was there. *)
LEMMA AppendKeepsRange ==
  ASSUME NEW s \in Seq(Byte), NEW b \in Seq(Byte),
         NEW i \in Nat, NEW j \in Int, 1 <= i, j <= Len(s)
  PROVE  SubSeq(s \o b, i, j) = SubSeq(s, i, j)
OBVIOUS

(* Header, type and length at p are settled once their bytes are there. *)
LEMMA FieldsStable ==
  ASSUME NEW s \in Seq(Byte), NEW b \in Seq(Byte), NEW p \in Nat
  PROVE  /\ HeaderAt(s, p) => HeaderAt(s \o b, p)
         /\ p + TYPE_STARTING_IDX + 1 <= Len(s) => TypeAt(s \o b, p) = TypeAt(s, p)
         /\ p + PAYLOAD_STARTING_IDX <= Len(s) => LengthAt(s \o b, p) = LengthAt(s, p)
BY AppendKeeps, FormatSizes DEF HeaderAt, TypeAt, LengthAt

(* The comparison of the checksums of n bytes at p is settled once they are *)
(* there.                                                                  *)
LEMMA CrcStable ==
  ASSUME NEW s \in Seq(Byte), NEW b \in Seq(Byte), NEW p \in Nat, NEW n \in Nat,
         n >= CRC_SIZE_BYTES, p + n <= Len(s)
  PROVE  CrcMatches(s \o b, p, n) = CrcMatches(s, p, n)
<1>1. SubSeq(s \o b, p + 1, p + n - CRC_SIZE_BYTES) = SubSeq(s, p + 1, p + n - CRC_SIZE_BYTES)
  BY AppendKeepsRange, FormatSizes
<1>2. (s \o b)[p + n - 1] = s[p + n - 1] /\ (s \o b)[p + n] = s[p + n]
  BY AppendKeeps, FormatSizes
<1> QED
  BY <1>1, <1>2 DEF CrcMatches

(* A complete packet stays one, with the same extent. *)
LEMMA PacketStable ==
  ASSUME NEW s \in Seq(Byte), NEW b \in Seq(Byte), NEW p \in Nat,
         TelemetryPacketAt(s, p)
  PROVE  TelemetryPacketAt(s \o b, p) /\ PacketAt(s \o b, p) = PacketAt(s, p)
<1> DEFINE n == TotalPacketSize(LengthAt(s, p))
<1>1. /\ p + PAYLOAD_STARTING_IDX <= Len(s)
      /\ p + n <= Len(s)
  BY DEF TelemetryPacketAt
<1>2. n \in Nat /\ n >= CRC_SIZE_BYTES
  BY <1>1, LengthAtType, FormatSizes
<1>3. LengthAt(s \o b, p) = LengthAt(s, p)
  BY <1>1, FieldsStable
<1>4. CrcMatches(s \o b, p, n)
  BY <1>1, <1>2, CrcStable DEF TelemetryPacketAt
<1> QED
  <2>1. HeaderAt(s \o b, p) /\ TypeAt(s \o b, p) = TELEMETRY
    BY <1>1, FieldsStable, FormatSizes DEF TelemetryPacketAt
  <2>2. PlausibleLength(LengthAt(s \o b, p))
    BY <1>3 DEF TelemetryPacketAt
  <2>3. /\ p + PAYLOAD_STARTING_IDX <= Len(s \o b)
        /\ p + TotalPacketSize(LengthAt(s \o b, p)) <= Len(s \o b)
    BY <1>1, <1>2, <1>3, AppendKeeps, FormatSizes
  <2> QED
    BY <2>1, <2>2, <2>3, <1>3, <1>4 DEF TelemetryPacketAt, PacketAt

(* No packet starts at a hopeless position. *)
LEMMA HopelessIsNoPacket ==
  ASSUME NEW s, NEW p, Hopeless(s, p)
  PROVE  ~TelemetryPacketAt(s, p)
BY DEF Hopeless, TelemetryPacketAt, HeaderAt

(* Hopeless positions stay hopeless. *)
LEMMA HopelessStable ==
  ASSUME NEW s \in Seq(Byte), NEW b \in Seq(Byte), NEW p \in Nat, Hopeless(s, p)
  PROVE  Hopeless(s \o b, p)
<1>1. CASE p + 1 <= Len(s) /\ s[p + 1] # HEADER_BYTES[1]
  BY <1>1, AppendKeeps DEF Hopeless
<1>2. CASE p + 2 <= Len(s) /\ s[p + 2] # HEADER_BYTES[2]
  BY <1>2, AppendKeeps DEF Hopeless
<1>3. CASE p + TYPE_STARTING_IDX + 1 <= Len(s) /\ TypeAt(s, p) # TELEMETRY
  <2>1. p + TYPE_STARTING_IDX + 1 <= Len(s \o b)
    BY <1>3, AppendKeeps, FormatSizes
  <2> QED
    BY <1>3, <2>1, FieldsStable DEF Hopeless
<1>4. CASE p + PAYLOAD_STARTING_IDX <= Len(s) /\ ~PlausibleLength(LengthAt(s, p))
  <2>1. p + PAYLOAD_STARTING_IDX <= Len(s \o b)
    BY <1>4, AppendKeeps, FormatSizes
  <2> QED
    BY <1>4, <2>1, FieldsStable DEF Hopeless
<1>5. CASE /\ p + PAYLOAD_STARTING_IDX <= Len(s)
           /\ p + TotalPacketSize(LengthAt(s, p)) <= Len(s)
           /\ ~CrcMatches(s, p, TotalPacketSize(LengthAt(s, p)))
  <2> DEFINE n == TotalPacketSize(LengthAt(s, p))
  <2>1. n \in Nat /\ n >= CRC_SIZE_BYTES
    BY <1>5, LengthAtType, FormatSizes
  <2>2. LengthAt(s \o b, p) = LengthAt(s, p)
    BY <1>5, FieldsStable
  <2>3. ~CrcMatches(s \o b, p, n)
    BY <1>5, <2>1, CrcStable
  <2>4. p + PAYLOAD_STARTING_IDX <= Len(s \o b) /\ p + n <= Len(s \o b)
    BY <1>5, <2>1, AppendKeeps, FormatSizes
  <2> QED
    BY <2>2, <2>3, <2>4 DEF Hopeless
<1> QED
  BY <1>1, <1>2, <1>3, <1>4, <1>5 DEF Hopeless

-----------------------------------------------------------------------------
(* The inductive invariant.                                                *)

(* Position p lies inside a delivered packet. *)
Covered(p) ==
  \E k \in DOMAIN m_received_valid_packets :
    /\ m_received_valid_packets[k].at <= p
    /\ p < m_received_valid_packets[k].at + m_received_valid_packets[k].size

(* The inductive form of NoPacketSkipped: it speaks of every position      *)
(* stepped over, and of what later bytes can no longer change.             *)
SkippedAreHopeless ==
  \A p \in 0..(view - 1) : Covered(p) \/ Hopeless(stream, p)

(* When the loop of process_accumulated_data ends, the current state lacks *)
(* bytes or has none to look at, or an unhandled packet is at the front.   *)
Settled ==
  /\ pc = "pop_all" => base = view
  /\ pc = "pop_all" \/ ~state_changed =>
       \/ /\ m_state = "WAIT_FOR_SYNC"
          /\ ViewSize <= 1
       \/ /\ m_state # "WAIT_FOR_SYNC"
          /\ ViewSize < BytesNeeded
       \/ UnhandledAtFront

PushedIsSequence == \E T : pushed \in Seq(T)

(* Each record describes a packet of the stream. *)
PacketsGenuine ==
  \A k \in DOMAIN m_received_valid_packets :
    LET packet == m_received_valid_packets[k]
    IN  /\ TelemetryPacketAt(stream, packet.at)
        /\ packet = PacketAt(stream, packet.at)
        /\ packet.at + packet.size <= view

(* The records are in the order of the stream and do not overlap. *)
PacketsOrdered ==
  \A k \in DOMAIN m_received_valid_packets : \A j \in 1..(k - 1) :
    m_received_valid_packets[j].at + m_received_valid_packets[j].size
      <= m_received_valid_packets[k].at

TypeInv == TypeOK /\ PushedIsSequence

IInv ==
  /\ TypeInv
  /\ FieldsMatchView
  /\ PacketsGenuine
  /\ PacketsOrdered
  /\ SkippedAreHopeless
  /\ Settled

-----------------------------------------------------------------------------
(* The loop runs its body: there are bytes, and the fields describe them.  *)
LEMMA ReadyFacts ==
  ASSUME TypeOK, FieldsMatchView, NEW s \in ParserState, Ready(s)
  PROVE  /\ pc = "process" /\ m_state = s /\ ViewSize \in Nat /\ ViewSize > 0
         /\ view < Len(stream)
         /\ s # "WAIT_FOR_SYNC" =>
              stream[view + 1] = HEADER_BYTES[1] /\ stream[view + 2] = HEADER_BYTES[2]
         /\ s = "READ_TYPE" => view + 3 <= Len(stream)
         /\ s \in {"READ_LENGTH", "READ_PAYLOAD"} => view + 5 <= Len(stream)
         /\ s = "READ_PAYLOAD" => /\ ExpectedPacketSize \in Nat
                                  /\ ExpectedPacketSize >= 7
                                  /\ view + ExpectedPacketSize <= Len(stream)
<1>1. view \in Nat /\ Len(stream) \in Nat /\ m_expected_payload_length \in Nat
  BY DEF TypeOK
<1>2. /\ pc = "process" /\ m_state = s
      /\ ViewSize = Len(stream) - view /\ ViewSize > 0 /\ ViewSize >= BytesNeeded
  BY DEF Ready, LoopCondition, ViewSize
<1>3. s # "WAIT_FOR_SYNC" =>
        stream[view + 1] = HEADER_BYTES[1] /\ stream[view + 2] = HEADER_BYTES[2]
  BY <1>2 DEF FieldsMatchView, HeaderAt
<1>4. ExpectedPacketSize = 5 + m_expected_payload_length + 2
  BY FormatSizes DEF ExpectedPacketSize
<1>5. s = "READ_TYPE" => BytesNeeded = 3
  BY <1>2 DEF BytesNeeded, HEADER_SIZE_BYTES, TYPE_SIZE_BYTES
<1>6. s = "READ_LENGTH" => BytesNeeded = 5
  BY <1>2, FormatSizes DEF BytesNeeded
<1>7. s = "READ_PAYLOAD" => BytesNeeded = ExpectedPacketSize
  BY <1>2 DEF BytesNeeded
<1> QED
  BY <1>1, <1>2, <1>3, <1>4, <1>5, <1>6, <1>7

(* The initial state, with nothing received, satisfies the invariant. *)
LEMMA InitIInv == Init => IInv
<1> SUFFICES ASSUME Init PROVE IInv
  OBVIOUS
<1>1. TypeInv
  <2>1. <<>> \in Seq(Byte) /\ <<>> \in Seq([at : Nat, size : Nat]) /\ Len(<<>>) = 0
    OBVIOUS
  <2>2. PushedIsSequence
    BY DEF Init, PushedIsSequence
  <2>3. [t \in KnownTypes |-> 0] \in [KnownTypes -> Nat]
    OBVIOUS
  <2>4. /\ stream \in Seq(Byte) /\ Len(stream) = 0
        /\ m_received_valid_packets \in Seq([at : Nat, size : Nat])
        /\ Len(pushed) = Len(m_received_valid_packets)
    BY <2>1 DEF Init
  <2>5. m_pkt_count \in [KnownTypes -> Nat]
    BY <2>3 DEF Init
  <2>6. state_changed \in BOOLEAN
    BY DEF Init
  <2>7. /\ base \in Nat /\ view \in Nat /\ base <= view /\ view <= Len(stream)
        /\ pc \in {"pop_all", "process"}
        /\ m_state \in ParserState
        /\ m_type \in KnownTypes \cup {UNKNOW}
        /\ m_expected_payload_length \in Nat
        /\ m_crc_errors_count \in Nat
        /\ m_invalid_structure_count \in Nat
    BY <2>4 DEF Init, ParserState
  <2>8. TypeOK
    BY <2>4, <2>5, <2>6, <2>7 DEF TypeOK
  <2> QED
    BY <2>2, <2>8 DEF TypeInv
<1>2. FieldsMatchView /\ PacketsGenuine /\ PacketsOrdered
  BY DEF Init, FieldsMatchView, PacketsGenuine, PacketsOrdered
<1>3. SkippedAreHopeless
  BY DEF Init, SkippedAreHopeless
<1>4. Settled
  BY DEF Init, Settled, ViewSize
<1> QED
  BY <1>1, <1>2, <1>3, <1>4 DEF IInv

-----------------------------------------------------------------------------
(* Every step keeps each variable in its range: the view never passes the *)
(* end of the stream.                                                      *)
LEMMA TypeStep == IInv /\ [Next]_vars => TypeInv'
<1> SUFFICES ASSUME IInv, [Next]_vars PROVE TypeInv'
  OBVIOUS
<1> USE DEF ParserState
<1>0. TypeOK /\ FieldsMatchView /\ PushedIsSequence
  BY DEF IInv, TypeInv
<1> DEFINE Unchanged == UNCHANGED <<pushed, m_received_valid_packets>>
<1>1. CASE PopAll
  <2>1. PICK batch \in Batches : stream' = stream \o batch
    BY <1>1 DEF PopAll
  <2>2. stream' \in Seq(Byte) /\ Len(stream) <= Len(stream')
    BY <1>0, <2>1, BatchAssumption, AppendKeeps DEF TypeOK
  <2> QED
    BY <1>0, <1>1, <2>2 DEF PopAll, TypeInv, TypeOK, PushedIsSequence
<1>2. CASE SyncFound
  <2>1. PICK i \in view..Len(stream) : view' = i
    BY <1>2 DEF SyncFound
  <2> QED
    BY <1>0, <1>2, <2>1 DEF SyncFound, TypeInv, TypeOK, PushedIsSequence
<1>3. CASE SyncNotFound
  <2>1. view < Len(stream) /\ KeptWithoutHeader \in {0, 1}
    BY <1>0, <1>3, ReadyFacts DEF SyncNotFound, KeptWithoutHeader
  <2>2. view' \in Nat /\ base <= view' /\ view' <= Len(stream)
    <3>1. base \in Nat /\ view \in Nat /\ Len(stream) \in Nat /\ base <= view
      BY <1>0 DEF TypeOK
    <3>2. view' = Len(stream) - KeptWithoutHeader
      BY <1>3 DEF SyncNotFound
    <3> QED
      BY <2>1, <3>1, <3>2
  <2> QED
    BY <1>0, <1>3, <2>2 DEF SyncNotFound, TypeInv, TypeOK, PushedIsSequence
<1>4. CASE ReadKnownType
  BY <1>0, <1>4 DEF ReadKnownType, TypeInv, TypeOK, PushedIsSequence
<1>5. CASE ReadUnknownType
  <2>1. view + SkipUnknownType <= Len(stream)
    BY <1>0, <1>5, ReadyFacts, FormatSizes DEF ReadUnknownType, SkipUnknownType, TypeOK
  <2> QED
    BY <1>0, <1>5, <2>1, FormatSizes
    DEF ReadUnknownType, TypeInv, TypeOK, PushedIsSequence, SkipUnknownType
<1>6. CASE ReadBadLength
  <2>1. view + 5 <= Len(stream)
    BY <1>0, <1>6, ReadyFacts DEF ReadBadLength
  <2>2. LengthAt(stream, view) \in Nat
    BY <1>0, <2>1, LengthAtType, FormatSizes DEF TypeOK
  <2> QED
    BY <1>0, <1>6, <2>1, <2>2, FormatSizes
    DEF ReadBadLength, TypeInv, TypeOK, PushedIsSequence, SkipBadLength
<1>7. CASE ReadLength
  <2>1. view + 5 <= Len(stream)
    BY <1>0, <1>7, ReadyFacts DEF ReadLength
  <2>2. LengthAt(stream, view) \in Nat
    BY <1>0, <2>1, LengthAtType, FormatSizes DEF TypeOK
  <2> QED
    BY <1>0, <1>7, <2>2 DEF ReadLength, TypeInv, TypeOK, PushedIsSequence
<1>8. CASE DeliverTelemetry
  <2>1. /\ ExpectedPacketSize \in Nat
        /\ view + ExpectedPacketSize <= Len(stream)
    BY <1>0, <1>8, ReadyFacts DEF DeliverTelemetry
  <2> DEFINE packet == [at |-> view, size |-> ExpectedPacketSize]
             telemetry == deserialize_payload(
                            SubSeq(stream, view + PAYLOAD_STARTING_IDX + 1, Len(stream)))
  <2>2. packet \in [at : Nat, size : Nat]
    BY <1>0, <2>1 DEF TypeOK
  <2>3. /\ m_received_valid_packets' \in Seq([at : Nat, size : Nat])
        /\ Len(m_received_valid_packets') = Len(m_received_valid_packets) + 1
    <3> HIDE DEF packet
    <3>1. m_received_valid_packets' = Append(m_received_valid_packets, packet)
      BY <1>8 DEF DeliverTelemetry, packet
    <3> QED
      BY <1>0, <2>2, <3>1 DEF TypeOK
  <2>4. PushedIsSequence' /\ Len(pushed') = Len(pushed) + 1
    <3> HIDE DEF telemetry
    <3>1. PICK T : pushed \in Seq(T)
      BY <1>0 DEF PushedIsSequence
    <3>2. pushed' = Append(pushed, telemetry)
      BY <1>8 DEF DeliverTelemetry, PayloadView, telemetry
    <3>3. pushed \in Seq(T \cup {telemetry})
      BY <3>1
    <3>4. pushed' \in Seq(T \cup {telemetry})
      BY <3>2, <3>3
    <3> QED
      BY <3>1, <3>2, <3>4 DEF PushedIsSequence
  <2>5. view' \in Nat /\ base' <= view' /\ view' <= Len(stream')
    BY <1>0, <1>8, <2>1 DEF DeliverTelemetry, TypeOK
  <2>6. Len(pushed') = Len(m_received_valid_packets')
    BY <1>0, <2>3, <2>4 DEF TypeOK
  <2> QED
    BY <1>0, <1>8, <2>3, <2>4, <2>5, <2>6 DEF DeliverTelemetry, TypeInv, TypeOK
<1>9. CASE RejectTelemetry
  BY <1>0, <1>9, ReadyFacts
  DEF RejectTelemetry, TypeInv, TypeOK, PushedIsSequence, SkipBadCrc
<1>10. CASE IgnorePayload
  BY <1>0, <1>10 DEF IgnorePayload, TypeInv, TypeOK, PushedIsSequence
<1>11. CASE AwaitMoreBytes
  BY <1>0, <1>11 DEF AwaitMoreBytes, TypeInv, TypeOK, PushedIsSequence
<1>12. CASE EraseProcessed
  BY <1>0, <1>12 DEF EraseProcessed, TypeInv, TypeOK, PushedIsSequence
<1>13. CASE UNCHANGED vars
  BY <1>0, <1>13 DEF vars, TypeInv, TypeOK, PushedIsSequence
<1> QED
  BY <1>1, <1>2, <1>3, <1>4, <1>5, <1>6, <1>7, <1>8, <1>9, <1>10, <1>11, <1>12, <1>13
  DEF Next, process_accumulated_data, LoopBody

-----------------------------------------------------------------------------
(* Only PopAll changes the stream, and only by appending. *)
LEMMA StreamGrows ==
  ASSUME TypeOK, PopAll
  PROVE  /\ stream' \in Seq(Byte)
         /\ \E batch \in Seq(Byte) : stream' = stream \o batch
         /\ Len(stream) <= Len(stream')
<1>1. PICK batch \in Batches : stream' = stream \o batch
  BY DEF PopAll
<1>2. batch \in Seq(Byte) /\ stream \in Seq(Byte)
  BY BatchAssumption DEF TypeOK
<1> QED
  BY <1>1, <1>2, AppendKeeps

(* What a telemetry candidate in READ_PAYLOAD is: a whole candidate packet *)
(* at the front of the view, so the checksum alone decides.                *)
LEMMA CandidateAtFront ==
  ASSUME TypeOK, FieldsMatchView, Ready("READ_PAYLOAD"), m_type = TELEMETRY
  PROVE  /\ PlausibleLength(LengthAt(stream, view))
         /\ TotalPacketSize(LengthAt(stream, view)) = ExpectedPacketSize
         /\ view + PAYLOAD_STARTING_IDX <= Len(stream)
         /\ view + ExpectedPacketSize <= Len(stream)
         /\ TelemetryPacketAt(stream, view) <=> CrcMatches(stream, view, ExpectedPacketSize)
         /\ PacketAt(stream, view) = [at |-> view, size |-> ExpectedPacketSize]
<1>1. /\ m_state = "READ_PAYLOAD"
      /\ view + 5 <= Len(stream) /\ view + ExpectedPacketSize <= Len(stream)
  BY ReadyFacts DEF ParserState
<1>2. /\ HeaderAt(stream, view) /\ TypeAt(stream, view) = TELEMETRY
      /\ m_expected_payload_length = LengthAt(stream, view)
      /\ PlausibleLength(m_expected_payload_length)
  BY <1>1 DEF FieldsMatchView
<1>3. TotalPacketSize(LengthAt(stream, view)) = ExpectedPacketSize
  BY <1>2 DEF ExpectedPacketSize
<1>4. PAYLOAD_STARTING_IDX = 5
  BY FormatSizes
<1> QED
  BY <1>1, <1>2, <1>3, <1>4 DEF TelemetryPacketAt, PacketAt

(* Every step keeps the fields in agreement with the front of the view.    *)
LEMMA FieldsStep == IInv /\ [Next]_vars => FieldsMatchView'
<1> SUFFICES ASSUME IInv, [Next]_vars PROVE FieldsMatchView'
  OBVIOUS
<1>0. TypeOK /\ FieldsMatchView /\ view \in Nat /\ Len(stream) \in Nat
  BY DEF IInv, TypeInv, TypeOK
<1>1. CASE PopAll
  <2>1. PICK batch \in Seq(Byte) : stream' = stream \o batch
    BY <1>0, <1>1, StreamGrows
  <2>2. UNCHANGED <<view, m_state, m_type, m_expected_payload_length>>
    BY <1>1 DEF PopAll
  <2>3. stream \in Seq(Byte) /\ Len(stream') = Len(stream) + Len(batch) /\ Len(batch) \in Nat
    BY <1>0, <2>1, AppendKeeps DEF TypeOK
  <2>4. m_state # "WAIT_FOR_SYNC" => HeaderAt(stream', view)
    BY <1>0, <2>1, <2>3, FieldsStable DEF FieldsMatchView
  <2>5. m_state \in {"READ_LENGTH", "READ_PAYLOAD"} =>
          /\ Len(stream') - view >= HEADER_SIZE_BYTES + TYPE_SIZE_BYTES
          /\ m_type = TypeAt(stream', view)
          /\ m_type \in KnownTypes
    BY <1>0, <2>1, <2>3, FieldsStable, FormatSizes
    DEF FieldsMatchView, ViewSize, TYPE_SIZE_BYTES
  <2>6. m_state = "READ_PAYLOAD" =>
          /\ Len(stream') - view >= PAYLOAD_STARTING_IDX
          /\ m_expected_payload_length = LengthAt(stream', view)
          /\ PlausibleLength(m_expected_payload_length)
    BY <1>0, <2>1, <2>3, FieldsStable, FormatSizes DEF FieldsMatchView, ViewSize
  <2> QED
    BY <2>2, <2>4, <2>5, <2>6 DEF FieldsMatchView, ViewSize, KnownTypes, PlausibleLength
<1>2. CASE SyncFound
  BY <1>2 DEF SyncFound, FieldsMatchView
<1>3. CASE SyncNotFound
  <2>1. m_state' = "WAIT_FOR_SYNC"
    BY <1>3 DEF SyncNotFound, Ready
  <2> QED
    BY <2>1 DEF FieldsMatchView
<1>4. CASE ReadKnownType
  <2>1. view + 3 <= Len(stream) /\ m_state = "READ_TYPE"
    BY <1>0, <1>4, ReadyFacts DEF ReadKnownType, ParserState
  <2>2. HeaderAt(stream, view)
    BY <1>0, <2>1 DEF FieldsMatchView
  <2>3. /\ UNCHANGED <<stream, view>> /\ m_state' = "READ_LENGTH"
        /\ m_type' = TypeAt(stream, view) /\ m_type' \in KnownTypes
    BY <1>4 DEF ReadKnownType
  <2>4. ViewSize >= HEADER_SIZE_BYTES + TYPE_SIZE_BYTES
    BY <1>0, <2>1 DEF ViewSize, HEADER_SIZE_BYTES, TYPE_SIZE_BYTES
  <2> QED
    BY <2>2, <2>3, <2>4 DEF FieldsMatchView, ViewSize, KnownTypes
<1>5. CASE ReadUnknownType
  BY <1>5 DEF ReadUnknownType, FieldsMatchView
<1>6. CASE ReadBadLength
  BY <1>6 DEF ReadBadLength, FieldsMatchView
<1>7. CASE ReadLength
  <2>1. view + 5 <= Len(stream) /\ m_state = "READ_LENGTH"
    BY <1>0, <1>7, ReadyFacts DEF ReadLength, ParserState
  <2>2. /\ HeaderAt(stream, view) /\ ViewSize >= HEADER_SIZE_BYTES + TYPE_SIZE_BYTES
        /\ m_type = TypeAt(stream, view) /\ m_type \in KnownTypes
    BY <1>0, <2>1 DEF FieldsMatchView
  <2>3. ViewSize >= PAYLOAD_STARTING_IDX
    BY <1>0, <2>1, FormatSizes DEF ViewSize
  <2>4. /\ UNCHANGED <<stream, view, m_type>>
        /\ m_expected_payload_length' = LengthAt(stream, view)
        /\ PlausibleLength(LengthAt(stream, view))
    BY <1>7 DEF ReadLength
  <2> QED
    BY <2>2, <2>3, <2>4 DEF FieldsMatchView, ViewSize, KnownTypes, PlausibleLength
<1>8. CASE DeliverTelemetry
  BY <1>8 DEF DeliverTelemetry, FieldsMatchView
<1>9. CASE RejectTelemetry
  BY <1>9 DEF RejectTelemetry, FieldsMatchView
<1>10. CASE IgnorePayload \/ AwaitMoreBytes \/ EraseProcessed \/ UNCHANGED vars
  <2>1. UNCHANGED <<stream, view, m_state, m_type, m_expected_payload_length>>
    BY <1>10 DEF IgnorePayload, AwaitMoreBytes, EraseProcessed, vars
  <2> QED
    BY <1>0, <2>1 DEF FieldsMatchView, ViewSize, KnownTypes, PlausibleLength
<1> QED
  BY <1>1, <1>2, <1>3, <1>4, <1>5, <1>6, <1>7, <1>8, <1>9, <1>10
  DEF Next, process_accumulated_data, LoopBody

-----------------------------------------------------------------------------
(* The view only ever moves forward. *)
LEMMA ViewMonotone == IInv /\ Next => view <= view'
<1> SUFFICES ASSUME IInv, Next PROVE view <= view'
  OBVIOUS
<1>0. TypeOK /\ FieldsMatchView /\ view \in Nat /\ Len(stream) \in Nat
  BY DEF IInv, TypeInv, TypeOK
<1>1. CASE SyncFound
  <2>1. PICK i \in view..Len(stream) : view' = i
    BY <1>1 DEF SyncFound
  <2> QED
    BY <1>0, <2>1
<1>2. CASE SyncNotFound
  <2>1. view < Len(stream) /\ KeptWithoutHeader \in {0, 1}
    BY <1>0, <1>2, ReadyFacts DEF SyncNotFound, KeptWithoutHeader, ParserState
  <2>2. view' = Len(stream) - KeptWithoutHeader
    BY <1>2 DEF SyncNotFound
  <2> QED
    BY <1>0, <2>1, <2>2
<1>3. CASE ReadUnknownType \/ ReadBadLength \/ RejectTelemetry
  BY <1>0, <1>3, FormatSizes
  DEF ReadUnknownType, ReadBadLength, RejectTelemetry,
      SkipUnknownType, SkipBadLength, SkipBadCrc
<1>4. CASE DeliverTelemetry
  <2>1. ExpectedPacketSize \in Nat /\ view' = view + ExpectedPacketSize
    BY <1>0, <1>4, ReadyFacts DEF DeliverTelemetry, ParserState
  <2> QED
    BY <1>0, <2>1
<1>5. CASE PopAll \/ ReadKnownType \/ ReadLength \/ IgnorePayload \/ AwaitMoreBytes
           \/ EraseProcessed
  <2>1. view' = view
    BY <1>5 DEF PopAll, ReadKnownType, ReadLength, IgnorePayload, AwaitMoreBytes,
                EraseProcessed
  <2> QED
    BY <1>0, <2>1
<1> QED
  BY <1>1, <1>2, <1>3, <1>4, <1>5 DEF Next, process_accumulated_data, LoopBody

(* Only DeliverTelemetry records packets. *)
LEMMA PacketsKept ==
  Next /\ ~DeliverTelemetry => m_received_valid_packets' = m_received_valid_packets
BY DEF Next, process_accumulated_data, LoopBody, PopAll, SyncFound, SyncNotFound,
       ReadKnownType, ReadUnknownType, ReadBadLength, ReadLength, RejectTelemetry,
       IgnorePayload, AwaitMoreBytes, EraseProcessed

(* Only PopAll adds to the stream. *)
LEMMA StreamKept == Next /\ ~PopAll => stream' = stream
BY DEF Next, process_accumulated_data, LoopBody, DeliverTelemetry, SyncFound,
       SyncNotFound, ReadKnownType, ReadUnknownType, ReadBadLength, ReadLength,
       RejectTelemetry, IgnorePayload, AwaitMoreBytes, EraseProcessed

(* What DeliverTelemetry does to the records. *)
LEMMA DeliverEffect ==
  ASSUME IInv, DeliverTelemetry
  PROVE  /\ stream' = stream
         /\ TelemetryPacketAt(stream, view)
         /\ Len(m_received_valid_packets') = Len(m_received_valid_packets) + 1
         /\ \A k \in DOMAIN m_received_valid_packets :
              m_received_valid_packets'[k] = m_received_valid_packets[k]
         /\ m_received_valid_packets'[Len(m_received_valid_packets) + 1]
              = PacketAt(stream, view)
         /\ PacketAt(stream, view).at = view
         /\ PacketAt(stream, view).size = ExpectedPacketSize
         /\ ExpectedPacketSize \in Nat
         /\ view' = view + ExpectedPacketSize
<1>0. TypeOK /\ FieldsMatchView
  BY DEF IInv, TypeInv
<1>1. /\ stream' = stream /\ view' = view + ExpectedPacketSize
      /\ Ready("READ_PAYLOAD") /\ m_type = TELEMETRY
      /\ CrcMatches(stream, view, ExpectedPacketSize)
  BY DEF DeliverTelemetry
<1>2. /\ TelemetryPacketAt(stream, view)
      /\ PacketAt(stream, view) = [at |-> view, size |-> ExpectedPacketSize]
  BY <1>0, <1>1, CandidateAtFront
<1>3. m_received_valid_packets' = Append(m_received_valid_packets, PacketAt(stream, view))
  BY <1>2 DEF DeliverTelemetry
<1>4. ExpectedPacketSize \in Nat /\ view \in Nat
  BY <1>0, <1>1, ReadyFacts DEF ParserState, TypeOK
<1>5. /\ m_received_valid_packets \in Seq([at : Nat, size : Nat])
      /\ PacketAt(stream, view) \in [at : Nat, size : Nat]
  BY <1>0, <1>2, <1>4 DEF TypeOK
<1> HIDE DEF IInv
<1>6. /\ Len(m_received_valid_packets') = Len(m_received_valid_packets) + 1
      /\ \A k \in DOMAIN m_received_valid_packets :
           m_received_valid_packets'[k] = m_received_valid_packets[k]
      /\ m_received_valid_packets'[Len(m_received_valid_packets) + 1]
           = PacketAt(stream, view)
  BY <1>3, <1>5
<1> QED
  BY <1>1, <1>2, <1>4, <1>6

-----------------------------------------------------------------------------

(* What is recorded is, and stays, a packet of the stream.                 *)
LEMMA PacketsGenuineStep == IInv /\ [Next]_vars => PacketsGenuine'
<1> SUFFICES ASSUME IInv, [Next]_vars,
                    NEW k \in DOMAIN m_received_valid_packets'
             PROVE  LET packet == m_received_valid_packets'[k]
                    IN  /\ TelemetryPacketAt(stream', packet.at)
                        /\ packet = PacketAt(stream', packet.at)
                        /\ packet.at + packet.size <= view'
  BY DEF PacketsGenuine, TelemetryPacketAt, PacketAt, HeaderAt, TypeAt, LengthAt,
         PlausibleLength, CrcMatches, TotalPacketSize
<1>0. /\ TypeOK /\ PacketsGenuine /\ view \in Nat /\ stream \in Seq(Byte)
      /\ m_received_valid_packets \in Seq([at : Nat, size : Nat])
      /\ m_received_valid_packets' \in Seq([at : Nat, size : Nat])
      /\ view' \in Nat
  BY TypeStep DEF IInv, TypeInv, TypeOK
<1>1. ASSUME k \in DOMAIN m_received_valid_packets,
             m_received_valid_packets'[k] = m_received_valid_packets[k]
      PROVE  LET packet == m_received_valid_packets[k]
             IN  /\ packet.at \in Nat /\ packet.size \in Nat
                 /\ TelemetryPacketAt(stream, packet.at)
                 /\ packet = PacketAt(stream, packet.at)
                 /\ packet.at + packet.size <= view
  <2>1. k \in DOMAIN m_received_valid_packets
    BY <1>1
  <2>2. m_received_valid_packets \in Seq([at : Nat, size : Nat])
    BY <1>0
  <2>3. k \in 1..Len(m_received_valid_packets)
    BY <2>1, <2>2
  <2>4. ASSUME NEW S, NEW q \in Seq(S), NEW i \in 1..Len(q) PROVE q[i] \in S
    OBVIOUS
  <2>5. m_received_valid_packets[k] \in [at : Nat, size : Nat]
    BY <2>2, <2>3, <2>4
  <2> QED
    BY <1>0, <2>1, <2>5 DEF PacketsGenuine
<1>2. CASE PopAll
  <2>1. /\ m_received_valid_packets' = m_received_valid_packets
        /\ view' = view
    BY <1>2 DEF PopAll
  <2>2. PICK batch \in Seq(Byte) : stream' = stream \o batch
    BY <1>0, <1>2, StreamGrows
  <2> DEFINE packet == m_received_valid_packets[k]
  <2>3. /\ packet.at \in Nat /\ TelemetryPacketAt(stream, packet.at)
        /\ packet = PacketAt(stream, packet.at)
        /\ packet.at + packet.size <= view
    BY <1>1, <2>1
  <2>4. /\ TelemetryPacketAt(stream', packet.at)
        /\ PacketAt(stream', packet.at) = PacketAt(stream, packet.at)
    BY <1>0, <2>2, <2>3, PacketStable
  <2> QED
    BY <2>1, <2>3, <2>4
<1>3. CASE DeliverTelemetry
  <2>1. CASE k \in DOMAIN m_received_valid_packets
    <3>1. /\ m_received_valid_packets'[k] = m_received_valid_packets[k]
          /\ stream' = stream /\ view' = view + ExpectedPacketSize
          /\ ExpectedPacketSize \in Nat
      BY <1>3, <2>1, DeliverEffect
    <3> DEFINE packet == m_received_valid_packets[k]
    <3>2. /\ packet.at \in Nat /\ packet.size \in Nat
          /\ TelemetryPacketAt(stream, packet.at)
          /\ packet = PacketAt(stream, packet.at)
          /\ packet.at + packet.size <= view
      BY <1>1, <2>1, <3>1
    <3>3. packet.at + packet.size <= view'
      <4> HIDE DEF packet
      <4> QED
        BY <1>0, <3>1, <3>2
    <3> QED
      BY <3>1, <3>2, <3>3
  <2>2. CASE k \notin DOMAIN m_received_valid_packets
    <3>1. k = Len(m_received_valid_packets) + 1
      BY <1>0, <1>3, <2>2, DeliverEffect
    <3>2. /\ stream' = stream /\ TelemetryPacketAt(stream, view)
          /\ m_received_valid_packets'[k] = PacketAt(stream, view)
          /\ PacketAt(stream, view).at = view
          /\ PacketAt(stream, view).at + PacketAt(stream, view).size = view'
      BY <1>3, <3>1, DeliverEffect
    <3> QED
      BY <1>0, <3>2
  <2> QED
    BY <2>1, <2>2
<1>4. CASE Next /\ ~PopAll /\ ~DeliverTelemetry
  <2>1. /\ m_received_valid_packets' = m_received_valid_packets
        /\ stream' = stream /\ view <= view'
    BY <1>4, PacketsKept, StreamKept, ViewMonotone
  <2> QED
    BY <1>0, <1>1, <2>1
<1>5. CASE UNCHANGED vars
  BY <1>1, <1>5 DEF vars
<1> QED
  BY <1>2, <1>3, <1>4, <1>5

(* A new record starts where the recorded ones have ended.                 *)
LEMMA PacketsOrderedStep == IInv /\ [Next]_vars => PacketsOrdered'
<1> SUFFICES ASSUME IInv, [Next]_vars,
                    NEW k \in DOMAIN m_received_valid_packets', NEW j \in 1..(k - 1)
             PROVE  m_received_valid_packets'[j].at + m_received_valid_packets'[j].size
                      <= m_received_valid_packets'[k].at
  BY DEF PacketsOrdered
<1>0. /\ TypeOK /\ PacketsOrdered /\ PacketsGenuine
      /\ m_received_valid_packets \in Seq([at : Nat, size : Nat])
      /\ m_received_valid_packets' \in Seq([at : Nat, size : Nat])
  BY TypeStep DEF IInv, TypeInv, TypeOK
<1>1. CASE DeliverTelemetry
  <2>1. CASE k \in DOMAIN m_received_valid_packets
    <3>1. j \in DOMAIN m_received_valid_packets
      BY <1>0, <2>1
    <3> QED
      BY <1>0, <1>1, <2>1, <3>1, DeliverEffect DEF PacketsOrdered
  <2>2. CASE k \notin DOMAIN m_received_valid_packets
    <3>1. k = Len(m_received_valid_packets) + 1
      BY <1>0, <1>1, <2>2, DeliverEffect
    <3>2. j \in DOMAIN m_received_valid_packets
      BY <1>0, <3>1
    <3>3. m_received_valid_packets[j].at + m_received_valid_packets[j].size <= view
      BY <1>0, <3>2 DEF PacketsGenuine
    <3> QED
      BY <1>1, <3>1, <3>2, <3>3, DeliverEffect
  <2> QED
    BY <2>1, <2>2
<1>2. CASE Next /\ ~DeliverTelemetry
  BY <1>0, <1>2, PacketsKept DEF PacketsOrdered
<1>3. CASE UNCHANGED vars
  BY <1>0, <1>3 DEF vars, PacketsOrdered
<1> QED
  BY <1>1, <1>2, <1>3

-----------------------------------------------------------------------------
(* What was covered or hopeless stays so. *)
LEMMA SkippedStaySkipped ==
  ASSUME IInv, [Next]_vars, NEW p \in 0..(view - 1)
  PROVE  Covered(p)' \/ Hopeless(stream', p)
<1>0. /\ TypeOK /\ SkippedAreHopeless /\ view \in Nat /\ stream \in Seq(Byte) /\ p \in Nat
      /\ m_received_valid_packets \in Seq([at : Nat, size : Nat])
  BY DEF IInv, TypeInv, TypeOK
<1>1. CASE Covered(p)
  <2>1. PICK k \in DOMAIN m_received_valid_packets :
          /\ m_received_valid_packets[k].at <= p
          /\ p < m_received_valid_packets[k].at + m_received_valid_packets[k].size
    BY <1>1 DEF Covered
  <2>2. k \in DOMAIN m_received_valid_packets'
        /\ m_received_valid_packets'[k] = m_received_valid_packets[k]
    <3>1. CASE DeliverTelemetry
      <4>1. /\ Len(m_received_valid_packets') = Len(m_received_valid_packets) + 1
            /\ m_received_valid_packets'[k] = m_received_valid_packets[k]
        BY <3>1, <2>1, DeliverEffect
      <4>2. m_received_valid_packets' \in Seq([at : Nat, size : Nat])
        BY TypeStep DEF TypeInv, TypeOK
      <4>3. /\ DOMAIN m_received_valid_packets = 1..Len(m_received_valid_packets)
            /\ Len(m_received_valid_packets) \in Nat
        BY <1>0
      <4>4. DOMAIN m_received_valid_packets' = 1..Len(m_received_valid_packets')
        BY <4>2
      <4>5. k \in DOMAIN m_received_valid_packets'
        BY <2>1, <4>1, <4>3, <4>4
      <4> QED
        BY <4>1, <4>5
    <3>2. CASE ~DeliverTelemetry
      BY <3>2, PacketsKept, <2>1 DEF vars
    <3> QED
      BY <3>1, <3>2
  <2> QED
    BY <2>1, <2>2 DEF Covered
<1>2. CASE Hopeless(stream, p)
  <2>1. CASE PopAll
    <3>1. PICK batch \in Seq(Byte) : stream' = stream \o batch
      BY <1>0, <2>1, StreamGrows
    <3> QED
      BY <1>0, <1>2, <3>1, HopelessStable
  <2>2. CASE ~PopAll
    <3>1. stream' = stream
      BY <2>2, StreamKept DEF vars
    <3> QED
      BY <1>2, <3>1
  <2> QED
    BY <2>1, <2>2
<1> QED
  BY <1>0, <1>1, <1>2 DEF SkippedAreHopeless

(* The second byte of a header starts no packet, so dropping a whole       *)
(* header skips nothing.                                                   *)
LEMMA SecondHeaderByteHopeless ==
  ASSUME NEW s, NEW p \in Nat, Len(s) \in Nat, p + 2 <= Len(s), s[p + 2] = HEADER_BYTES[2]
  PROVE  Hopeless(s, p + 1)
<1>1. (p + 1) + 1 <= Len(s) /\ s[(p + 1) + 1] # HEADER_BYTES[1]
  BY FormatSizes
<1> QED
  BY <1>1 DEF Hopeless

(* A position whose two first bytes are not a header is hopeless. *)
LEMMA NoHeaderHopeless ==
  ASSUME NEW s \in Seq(Byte), NEW p \in Nat, ~HeaderAt(s, p),
         \/ p + 2 <= Len(s)
         \/ p + 1 <= Len(s) /\ s[p + 1] # HEADER_BYTES[1]
  PROVE  Hopeless(s, p)
<1>1. CASE p + 2 <= Len(s)
  <2>1. s[p + 1] # HEADER_BYTES[1] \/ s[p + 2] # HEADER_BYTES[2]
    BY <1>1, FormatSizes DEF HeaderAt
  <2>2. p + 1 <= Len(s)
    BY <1>1
  <2> QED
    BY <1>1, <2>1, <2>2 DEF Hopeless
<1>2. CASE p + 1 <= Len(s) /\ s[p + 1] # HEADER_BYTES[1]
  BY <1>2 DEF Hopeless
<1> QED
  BY <1>1, <1>2

(* What a step newly steps over is covered or hopeless. *)
LEMMA NewlySkipped ==
  ASSUME IInv, Next, NEW p \in view..(view' - 1)
  PROVE  Covered(p)' \/ Hopeless(stream', p)
<1>0. /\ TypeOK /\ FieldsMatchView
      /\ view \in Nat /\ Len(stream) \in Nat /\ stream \in Seq(Byte) /\ view' \in Nat
      /\ m_received_valid_packets' \in Seq([at : Nat, size : Nat])
  BY TypeStep DEF IInv, TypeInv, TypeOK
<1>1. CASE SyncFound
  <2>1. PICK i \in view..Len(stream) :
          /\ HeaderAt(stream, i)
          /\ \A j \in view..(i - 1) : ~HeaderAt(stream, j)
          /\ view' = i
    BY <1>1 DEF SyncFound
  <2>2. i + 2 <= Len(stream)
    BY <2>1, FormatSizes DEF HeaderAt
  <2>3. ~HeaderAt(stream, p) /\ p + 2 <= Len(stream) /\ p \in Nat
    BY <1>0, <2>1, <2>2
  <2>4. Hopeless(stream, p)
    BY <1>0, <2>3, NoHeaderHopeless
  <2> QED
    BY <2>4, <1>1 DEF SyncFound
<1>2. CASE SyncNotFound
  <2>1. /\ \A i \in view..Len(stream) : ~HeaderAt(stream, i)
        /\ view' = Len(stream) - KeptWithoutHeader
        /\ stream' = stream
    BY <1>2 DEF SyncNotFound
  <2>2. /\ KeptWithoutHeader \in {0, 1}
        /\ KeptWithoutHeader = 0 => stream[Len(stream)] # HEADER_BYTES[1]
    BY DEF KeptWithoutHeader
  <2>3. ~HeaderAt(stream, p) /\ p + 1 <= Len(stream) /\ p \in Nat
    BY <1>0, <2>1, <2>2
  <2>4. p + 2 <= Len(stream) \/ stream[p + 1] # HEADER_BYTES[1]
    <3>1. CASE p + 2 <= Len(stream)
      BY <3>1
    <3>2. CASE p + 1 = Len(stream)
      <4>1. KeptWithoutHeader = 0
        BY <1>0, <2>1, <2>2, <3>2
      <4> QED
        BY <2>2, <4>1, <3>2
    <3> QED
      BY <1>0, <2>3, <3>1, <3>2
  <2>5. Hopeless(stream, p)
    BY <1>0, <2>3, <2>4, NoHeaderHopeless
  <2> QED
    BY <2>1, <2>5
<1>3. CASE ReadUnknownType
  <2>1. /\ stream' = stream /\ view' = view + 2
        /\ TypeAt(stream, view) # TELEMETRY
    BY <1>3, FormatSizes DEF ReadUnknownType, SkipUnknownType, KnownTypes
  <2>2. /\ view + 3 <= Len(stream) /\ stream[view + 2] = HEADER_BYTES[2]
    BY <1>0, <1>3, ReadyFacts DEF ReadUnknownType, ParserState
  <2>3. Hopeless(stream, view)
    BY <1>0, <2>1, <2>2, FormatSizes DEF Hopeless
  <2>4. Hopeless(stream, view + 1)
    BY <1>0, <2>2, SecondHeaderByteHopeless
  <2>5. p = view \/ p = view + 1
    BY <1>0, <2>1
  <2> QED
    BY <2>1, <2>3, <2>4, <2>5
<1>4. CASE ReadBadLength
  <2>1. /\ stream' = stream /\ view' = view + 2
        /\ ~PlausibleLength(LengthAt(stream, view))
    BY <1>4, FormatSizes DEF ReadBadLength, SkipBadLength
  <2>2. /\ view + 5 <= Len(stream) /\ stream[view + 2] = HEADER_BYTES[2]
    BY <1>0, <1>4, ReadyFacts DEF ReadBadLength, ParserState
  <2>3. Hopeless(stream, view)
    BY <1>0, <2>1, <2>2, FormatSizes DEF Hopeless
  <2>4. Hopeless(stream, view + 1)
    BY <1>0, <2>2, SecondHeaderByteHopeless
  <2>5. p = view \/ p = view + 1
    BY <1>0, <2>1
  <2> QED
    BY <2>1, <2>3, <2>4, <2>5
<1>5. CASE RejectTelemetry
  <2>1. /\ stream' = stream /\ view' = view + 1
        /\ ~CrcMatches(stream, view, ExpectedPacketSize)
        /\ Ready("READ_PAYLOAD") /\ m_type = TELEMETRY
    BY <1>5 DEF RejectTelemetry, SkipBadCrc
  <2>2. Hopeless(stream, view)
    BY <1>0, <2>1, CandidateAtFront DEF Hopeless
  <2>3. p = view
    BY <1>0, <2>1
  <2> QED
    BY <2>1, <2>2, <2>3
<1>6. CASE DeliverTelemetry
  <2> DEFINE k == Len(m_received_valid_packets')
  <2>1. /\ m_received_valid_packets'[k].at = view
        /\ m_received_valid_packets'[k].size = ExpectedPacketSize
        /\ ExpectedPacketSize \in Nat /\ view' = view + ExpectedPacketSize
    BY <1>6, DeliverEffect
  <2>2. k \in DOMAIN m_received_valid_packets'
    <3>1. Len(m_received_valid_packets') = Len(m_received_valid_packets) + 1
          /\ Len(m_received_valid_packets) \in Nat
      BY <1>0, <1>6, DeliverEffect DEF TypeOK
    <3> QED
      BY <1>0, <3>1
  <2>3. view <= p /\ p < view + ExpectedPacketSize
    BY <1>0, <2>1
  <2>4. Covered(p)'
    BY <2>1, <2>2, <2>3 DEF Covered
  <2> QED
    BY <2>4
<1>7. CASE PopAll \/ ReadKnownType \/ ReadLength \/ IgnorePayload \/ AwaitMoreBytes
           \/ EraseProcessed
  <2>1. view' = view
    BY <1>7 DEF PopAll, ReadKnownType, ReadLength, IgnorePayload, AwaitMoreBytes,
                EraseProcessed
  <2> QED
    BY <1>0, <2>1
<1> QED
  BY <1>1, <1>2, <1>3, <1>4, <1>5, <1>6, <1>7 DEF Next, process_accumulated_data, LoopBody

(* A position below a bound w and not below v lies between them.           *)
LEMMA UpperPart ==
  ASSUME NEW i \in Nat, NEW v \in Nat, NEW w \in Nat, ~(i < v), i <= w - 1
  PROVE  i \in v..(w - 1)
OBVIOUS

(* Every step leaves the skipped positions covered or hopeless.            *)
LEMMA SkippedStep == IInv /\ [Next]_vars => SkippedAreHopeless'
<1> SUFFICES ASSUME IInv, [Next]_vars PROVE SkippedAreHopeless'
  OBVIOUS
<1>0. view \in Nat /\ view' \in Nat
  BY TypeStep DEF IInv, TypeInv, TypeOK
<1>1. ASSUME NEW p \in Nat, p <= view' - 1
      PROVE  Covered(p)' \/ Hopeless(stream', p)
  <2>1. CASE p < view
    <3>1. p \in 0..(view - 1)
      BY <1>0, <2>1
    <3> QED
      BY <3>1, SkippedStaySkipped
  <2>2. CASE ~(p < view)
    <3>1. p \in view..(view' - 1)
      BY <1>0, <1>1, <2>2, UpperPart
    <3>2. CASE UNCHANGED vars
      BY <1>0, <1>1, <2>2, <3>2 DEF vars
    <3>3. CASE Next
      BY <3>1, <3>3, NewlySkipped
    <3> QED
      BY <3>2, <3>3
  <2> QED
    BY <2>1, <2>2
<1>2. \A p \in 0..(view' - 1) : p \in Nat /\ p <= view' - 1
  <2>1. ASSUME NEW v \in Nat PROVE \A p \in 0..(v - 1) : p \in Nat /\ p <= v - 1
    OBVIOUS
  <2> QED
    BY <1>0, <2>1
<1> QED
  BY <1>1, <1>2 DEF SkippedAreHopeless, Hopeless, TypeAt, LengthAt, PlausibleLength,
                    CrcMatches, TotalPacketSize, Covered

(* When the loop ends, the view holds less than the state needs.           *)
LEMMA SettledStep == IInv /\ [Next]_vars => Settled'
<1> SUFFICES ASSUME IInv, [Next]_vars PROVE Settled'
  OBVIOUS
<1>0. /\ TypeOK /\ FieldsMatchView /\ Settled
      /\ view \in Nat /\ Len(stream) \in Nat
  BY DEF IInv, TypeInv, TypeOK
<1>1. CASE PopAll \/ SyncFound \/ ReadKnownType \/ ReadUnknownType \/ ReadBadLength
           \/ ReadLength \/ DeliverTelemetry \/ RejectTelemetry
  <2>1. pc' = "process" /\ state_changed' = TRUE
    BY <1>1 DEF PopAll, SyncFound, ReadKnownType, ReadUnknownType, ReadBadLength,
                ReadLength, DeliverTelemetry, RejectTelemetry, Ready, LoopCondition
  <2> QED
    BY <2>1 DEF Settled
<1>2. CASE SyncNotFound
  <2>1. /\ pc' = "process" /\ m_state' = "WAIT_FOR_SYNC" /\ stream' = stream
        /\ view' = Len(stream) - KeptWithoutHeader
    BY <1>2 DEF SyncNotFound, Ready, LoopCondition
  <2>2. KeptWithoutHeader \in {0, 1}
    BY DEF KeptWithoutHeader
  <2>3. ViewSize' <= 1
    BY <1>0, <2>1, <2>2 DEF ViewSize
  <2> QED
    BY <2>1, <2>3 DEF Settled
<1>3. CASE IgnorePayload
  <2>1. pc' = "process" /\ UnhandledAtFront'
    BY <1>3 DEF IgnorePayload, UnhandledAtFront, Ready, LoopCondition
  <2> QED
    BY <2>1 DEF Settled
<1>4. CASE AwaitMoreBytes
  <2>1. /\ pc' = "process" /\ ViewSize < BytesNeeded /\ ViewSize > 0
        /\ UNCHANGED <<stream, view, m_state, m_expected_payload_length>>
    BY <1>4 DEF AwaitMoreBytes, LoopCondition
  <2>2. m_state # "WAIT_FOR_SYNC"
    BY <1>0, <2>1 DEF BytesNeeded, ViewSize
  <2>3. ViewSize' < BytesNeeded'
    BY <2>1 DEF ViewSize, BytesNeeded, ExpectedPacketSize, TotalPacketSize
  <2> QED
    BY <2>1, <2>2, <2>3 DEF Settled
<1>5. CASE EraseProcessed
  <2>1. /\ base' = view' /\ pc' = "pop_all"
        /\ UNCHANGED <<stream, view, state_changed, m_state, m_type,
                       m_expected_payload_length>>
        /\ ~state_changed \/ ~(ViewSize > 0)
    BY <1>5 DEF EraseProcessed, LoopCondition
  <2>2. CASE ~state_changed
    <3>1. \/ /\ m_state = "WAIT_FOR_SYNC"
             /\ ViewSize <= 1
          \/ /\ m_state # "WAIT_FOR_SYNC"
             /\ ViewSize < BytesNeeded
          \/ UnhandledAtFront
      BY <1>0, <2>2 DEF Settled
    <3> QED
      BY <2>1, <3>1 DEF Settled, ViewSize, BytesNeeded, ExpectedPacketSize,
                        TotalPacketSize, UnhandledAtFront
  <2>3. CASE ~(ViewSize > 0)
    <3>1. m_state = "WAIT_FOR_SYNC"
      BY <1>0, <2>3, FormatSizes DEF FieldsMatchView, HeaderAt, ViewSize
    <3>2. m_state' = "WAIT_FOR_SYNC" /\ ViewSize' <= 1
      BY <1>0, <2>1, <2>3, <3>1 DEF ViewSize
    <3> QED
      BY <2>1, <3>2 DEF Settled
  <2> QED
    BY <2>1, <2>2, <2>3
<1>6. CASE UNCHANGED vars
  BY <1>0, <1>6 DEF vars, Settled, ViewSize, BytesNeeded, ExpectedPacketSize,
                    TotalPacketSize, UnhandledAtFront
<1> QED
  BY <1>1, <1>2, <1>3, <1>4, <1>5, <1>6 DEF Next, process_accumulated_data, LoopBody

-----------------------------------------------------------------------------
(* The inductive invariant. *)
THEOREM Inductive == Spec => []IInv
<1>1. Init => IInv
  BY InitIInv
<1>2. IInv /\ [Next]_vars => IInv'
  BY TypeStep, FieldsStep, PacketsGenuineStep, PacketsOrderedStep, SkippedStep,
     SettledStep DEF IInv
<1> QED
  BY <1>1, <1>2, PTL DEF Spec

(* Every variable keeps its range, and the erased, consumed and received   *)
(* parts of the buffer stay nested.                                        *)
THEOREM TypeCorrect == Spec => []TypeOK
<1>1. IInv => TypeOK
  BY DEF IInv, TypeInv
<1> QED
  BY <1>1, Inductive, PTL

(* The fields kept between two calls of process_accumulated_data describe  *)
(* the front of the view, however the stream is cut into chunks.           *)
THEOREM FieldsAlwaysMatchView == Spec => []FieldsMatchView
<1>1. IInv => FieldsMatchView
  BY DEF IInv
<1> QED
  BY <1>1, Inductive, PTL

(* Only complete, checksummed packets of the stream are delivered, in      *)
(* order and without overlap.                                              *)
THEOREM OnlyGenuinePackets == Spec => []DeliveredPacketsGenuine
<1>1. IInv => DeliveredPacketsGenuine
  BY DEF IInv, PacketsGenuine, PacketsOrdered, DeliveredPacketsGenuine
<1> QED
  BY <1>1, Inductive, PTL

(* Resynchronisation never steps over a complete telemetry packet.         *)
THEOREM ResyncSkipsNoPacket == Spec => []NoPacketSkipped
<1>1. IInv => NoPacketSkipped
  BY HopelessIsNoPacket DEF IInv, SkippedAreHopeless, NoPacketSkipped, Covered
<1> QED
  BY <1>1, Inductive, PTL

(* A parser that sleeps holds less than one packet of maximal size, unless *)
(* a packet it has no handler for is at the front.                         *)
THEOREM BufferStaysBounded == Spec => []BufferBounded
<1>1. IInv => BufferBounded
  <2> SUFFICES ASSUME IInv, pc = "pop_all", ~UnhandledAtFront
               PROVE  Len(stream) - base < TotalPacketSize(MAX_PAYLOAD_EXP_LENGTH)
    BY DEF BufferBounded
  <2>1. /\ TypeOK /\ FieldsMatchView /\ Settled
        /\ view \in Nat /\ Len(stream) \in Nat
    BY DEF IInv, TypeInv, TypeOK
  <2>2. TotalPacketSize(MAX_PAYLOAD_EXP_LENGTH) = 5 + MAX_PAYLOAD_EXP_LENGTH + 2
    BY FormatSizes
  <2>3. base = view /\ ViewSize = Len(stream) - view
    BY <2>1 DEF Settled, ViewSize
  <2>4. CASE m_state = "WAIT_FOR_SYNC"
    BY <2>1, <2>2, <2>3, <2>4, LengthAssumption DEF Settled
  <2>5. CASE m_state # "WAIT_FOR_SYNC" /\ m_state # "READ_PAYLOAD"
    <3>1. BytesNeeded \in {3, 5} /\ ViewSize < BytesNeeded
      BY <2>1, <2>5, FormatSizes
      DEF Settled, BytesNeeded, TypeOK, ParserState, HEADER_SIZE_BYTES, TYPE_SIZE_BYTES
    <3> QED
      BY <2>1, <2>2, <2>3, <3>1, LengthAssumption
  <2>6. CASE m_state = "READ_PAYLOAD"
    <3>1. ViewSize < BytesNeeded /\ BytesNeeded = ExpectedPacketSize
      BY <2>1, <2>6 DEF Settled, BytesNeeded
    <3>2. ExpectedPacketSize = 5 + m_expected_payload_length + 2
      BY FormatSizes DEF ExpectedPacketSize
    <3>3. m_expected_payload_length <= MAX_PAYLOAD_EXP_LENGTH
          /\ m_expected_payload_length \in Nat
      BY <2>1, <2>6 DEF FieldsMatchView, PlausibleLength, TypeOK
    <3> QED
      BY <2>1, <2>2, <2>3, <3>1, <3>2, <3>3, LengthAssumption
  <2> QED
    BY <2>4, <2>5, <2>6
<1> QED
  BY <1>1, Inductive, PTL

(* A complete packet waits only behind a candidate that claims its bytes.  *)
THEOREM HeldBackOnlyByOpenCandidate == Spec => []HeldBackOnlyByCandidate
<1>1. IInv => HeldBackOnlyByCandidate
  <2> SUFFICES ASSUME IInv, pc = "pop_all", ~UnhandledAtFront,
                      NEW p \in view..Len(stream), TelemetryPacketAt(stream, p)
               PROVE  /\ m_state = "READ_PAYLOAD"
                      /\ view < p
                      /\ p + TotalPacketSize(LengthAt(stream, p)) < view + ExpectedPacketSize
    BY DEF HeldBackOnlyByCandidate, HeldBackByOpenCandidate
  <2>1. /\ TypeOK /\ FieldsMatchView /\ Settled
        /\ view \in Nat /\ Len(stream) \in Nat /\ stream \in Seq(Byte) /\ p \in Nat
    BY DEF IInv, TypeInv, TypeOK
  <2> DEFINE n == LengthAt(stream, p)
  <2>2. /\ p + 5 <= Len(stream) /\ n \in Nat
        /\ TotalPacketSize(n) = 5 + n + 2 /\ p + 5 + n + 2 <= Len(stream)
    <3>1. p + 5 <= Len(stream)
      BY FormatSizes DEF TelemetryPacketAt
    <3>2. n \in Nat
      BY <2>1, <3>1, LengthAtType, FormatSizes
    <3>3. p + TotalPacketSize(n) <= Len(stream) /\ TotalPacketSize(n) = 5 + n + 2
      BY FormatSizes DEF TelemetryPacketAt
    <3> QED
      BY <2>1, <3>1, <3>2, <3>3
  <2>3. ViewSize = Len(stream) - view /\ view <= p
    BY <2>1 DEF ViewSize
  <2> HIDE DEF n
  <2>4. CASE m_state # "READ_PAYLOAD"
    <3>1. ViewSize < 5
      BY <2>1, <2>4, FormatSizes
      DEF Settled, BytesNeeded, TypeOK, ParserState, HEADER_SIZE_BYTES, TYPE_SIZE_BYTES,
          ViewSize
    <3> QED
      BY <2>1, <2>2, <2>3, <3>1
  <2>5. CASE m_state = "READ_PAYLOAD"
    <3>1. /\ ViewSize < ExpectedPacketSize
          /\ ExpectedPacketSize = TotalPacketSize(LengthAt(stream, view))
          /\ m_expected_payload_length \in Nat
          /\ ExpectedPacketSize = 5 + m_expected_payload_length + 2
      BY <2>1, <2>5, FormatSizes
      DEF Settled, BytesNeeded, ExpectedPacketSize, FieldsMatchView, TypeOK
    <3>2. p # view
      <4> SUFFICES ASSUME p = view PROVE FALSE
        OBVIOUS
      <4>1. ExpectedPacketSize = TotalPacketSize(n)
        BY <3>1 DEF n
      <4> QED
        BY <2>1, <2>2, <2>3, <3>1, <4>1
    <3>3. p + TotalPacketSize(n) < view + ExpectedPacketSize
      BY <2>1, <2>2, <2>3, <3>1
    <3> QED
      BY <2>1, <2>3, <2>5, <3>2, <3>3 DEF n
  <2> QED
    BY <2>4, <2>5
<1> QED
  BY <1>1, Inductive, PTL

(* Each iteration that keeps the loop going makes progress.                *)
THEOREM LoopTerminates == Spec => LoopAdvances
<1>1. IInv /\ [Next]_vars =>
        [pc = "process" /\ state_changed' /\ pc' = "process"
           => LoopMeasure' < LoopMeasure]_vars
  <2> SUFFICES ASSUME IInv, Next, pc = "process", state_changed', pc' = "process"
               PROVE  LoopMeasure' < LoopMeasure
    BY DEF vars
  <2>1. /\ TypeOK /\ FieldsMatchView
        /\ view \in Nat /\ Len(stream) \in Nat /\ view <= Len(stream)
    BY DEF IInv, TypeInv, TypeOK
  <2>2. /\ LoopMeasure = 4 * (Len(stream) - view) + StateRank
        /\ LoopMeasure' = 4 * (Len(stream') - view') + StateRank'
    BY DEF LoopMeasure, ViewSize
  <2>3. CASE SyncFound
    <3>1. PICK i \in view..Len(stream) : view' = i
      BY <2>3 DEF SyncFound
    <3>2. stream' = stream /\ StateRank = 3 /\ StateRank' = 2
      BY <2>3 DEF SyncFound, Ready, StateRank
    <3> QED
      BY <2>1, <2>2, <3>1, <3>2
  <2>4. CASE ReadKnownType
    <3>1. UNCHANGED <<stream, view>> /\ StateRank = 2 /\ StateRank' = 1
      BY <2>4 DEF ReadKnownType, Ready, StateRank
    <3> QED
      BY <2>1, <2>2, <3>1
  <2>5. CASE ReadLength
    <3>1. UNCHANGED <<stream, view>> /\ StateRank = 1 /\ StateRank' = 0
      BY <2>5 DEF ReadLength, Ready, StateRank
    <3> QED
      BY <2>1, <2>2, <3>1
  <2>6. CASE ReadUnknownType
    <3>1. stream' = stream /\ view' = view + 2 /\ StateRank = 2 /\ StateRank' = 3
      BY <2>6, FormatSizes DEF ReadUnknownType, Ready, StateRank, SkipUnknownType
    <3> QED
      BY <2>1, <2>2, <3>1
  <2>7. CASE ReadBadLength
    <3>1. stream' = stream /\ view' = view + 2 /\ StateRank = 1 /\ StateRank' = 3
      BY <2>7, FormatSizes DEF ReadBadLength, Ready, StateRank, SkipBadLength
    <3> QED
      BY <2>1, <2>2, <3>1
  <2>8. CASE RejectTelemetry
    <3>1. stream' = stream /\ view' = view + 1 /\ StateRank = 0 /\ StateRank' = 3
      BY <2>8 DEF RejectTelemetry, Ready, StateRank, SkipBadCrc
    <3> QED
      BY <2>1, <2>2, <3>1
  <2>9. CASE DeliverTelemetry
    <3>1. /\ stream' = stream /\ view' = view + ExpectedPacketSize
          /\ StateRank = 0 /\ StateRank' = 3
      BY <2>9 DEF DeliverTelemetry, Ready, StateRank
    <3>2. ExpectedPacketSize \in Nat /\ ExpectedPacketSize >= 7
      BY <2>1, <2>9, ReadyFacts DEF DeliverTelemetry, ParserState
    <3> QED
      BY <2>1, <2>2, <3>1, <3>2
  <2>10. CASE SyncNotFound \/ IgnorePayload \/ AwaitMoreBytes
    BY <2>10 DEF SyncNotFound, IgnorePayload, AwaitMoreBytes
  <2>11. CASE PopAll \/ EraseProcessed
    BY <2>11 DEF PopAll, EraseProcessed
  <2> QED
    BY <2>3, <2>4, <2>5, <2>6, <2>7, <2>8, <2>9, <2>10, <2>11
    DEF Next, process_accumulated_data, LoopBody
<1> QED
  BY <1>1, Inductive, PTL DEF Spec, LoopAdvances

-----------------------------------------------------------------------------
(* The three per-type counters and the two error counters: each candidate  *)
(* is open, delivered, or rejected exactly once.                           *)
THEOREM CountersAlwaysBalance == Spec => []CountersBalance
<1> DEFINE counted == m_pkt_count[TELEMETRY] + m_pkt_count[HEART_BEAT] + m_pkt_count[COMMAND]
           delivered == Len(m_received_valid_packets)
<1>1. Init => CountersBalance
  <2> SUFFICES ASSUME Init PROVE CountersBalance
    OBVIOUS
  <2>1. counted = 0
    BY DEF Init, KnownTypes
  <2>2. delivered = 0 /\ m_invalid_structure_count = 0 /\ m_crc_errors_count = 0
        /\ CandidateOpen = 0
    BY DEF Init, CandidateOpen
  <2> QED
    BY <2>1, <2>2 DEF CountersBalance, CrcRejections, CandidatesCounted
<1>2. IInv /\ CountersBalance /\ [Next]_vars => CountersBalance'
  <2> SUFFICES ASSUME IInv, CountersBalance, [Next]_vars PROVE CountersBalance'
    OBVIOUS
  <2>0. /\ CrcRejections = counted - delivered - m_invalid_structure_count - CandidateOpen
        /\ CrcRejections' = counted' - delivered' - m_invalid_structure_count' - CandidateOpen'
    BY DEF CrcRejections, CandidatesCounted
  <2>1. /\ TypeOK /\ TypeOK' /\ CrcRejections \in 0..m_crc_errors_count
    BY TypeStep DEF IInv, TypeInv, CountersBalance
  <2>2. /\ m_pkt_count \in [KnownTypes -> Nat]
        /\ delivered \in Nat
        /\ m_invalid_structure_count \in Nat /\ m_crc_errors_count \in Nat
        /\ CandidateOpen \in Nat
    BY <2>1 DEF TypeOK, CandidateOpen
  <2>3. counted \in Nat
    BY <2>2 DEF KnownTypes
  <2> HIDE DEF counted, delivered
  <2>4. SUFFICES /\ CrcRejections' = CrcRejections
                 /\ m_crc_errors_count' \in Nat
                 /\ m_crc_errors_count <= m_crc_errors_count'
              \/ /\ CrcRejections' = CrcRejections + 1
                 /\ m_crc_errors_count' = m_crc_errors_count + 1
    BY <2>1, <2>2 DEF CountersBalance
  <2>5. CASE ReadKnownType
    <3>1. PICK type \in KnownTypes : m_pkt_count' = [m_pkt_count EXCEPT ![type] = @ + 1]
      BY <2>5 DEF ReadKnownType
    <3>2. counted' = counted + 1
      BY <2>2, <3>1 DEF counted, KnownTypes, TELEMETRY, HEART_BEAT, COMMAND
    <3>3. /\ CandidateOpen = 0 /\ CandidateOpen' = 1 /\ delivered' = delivered
          /\ UNCHANGED <<m_invalid_structure_count, m_crc_errors_count>>
      BY <2>5 DEF ReadKnownType, Ready, CandidateOpen, delivered
    <3> QED
      BY <2>0, <2>2, <2>3, <3>2, <3>3
  <2>6. CASE ReadUnknownType
    <3>1. /\ CandidateOpen = 0 /\ CandidateOpen' = 0 /\ delivered' = delivered
          /\ counted' = counted
          /\ UNCHANGED m_invalid_structure_count
          /\ m_crc_errors_count' = m_crc_errors_count + 1
      BY <2>6 DEF ReadUnknownType, Ready, CandidateOpen, delivered, counted
    <3> QED
      BY <2>0, <2>2, <2>3, <3>1
  <2>7. CASE ReadBadLength
    <3>1. /\ CandidateOpen = 1 /\ CandidateOpen' = 0 /\ delivered' = delivered
          /\ counted' = counted
          /\ m_invalid_structure_count' = m_invalid_structure_count + 1
          /\ UNCHANGED m_crc_errors_count
      BY <2>7 DEF ReadBadLength, Ready, CandidateOpen, delivered, counted
    <3> QED
      BY <2>0, <2>2, <2>3, <3>1
  <2>8. CASE DeliverTelemetry
    <3>1. /\ CandidateOpen = 1 /\ CandidateOpen' = 0
          /\ counted' = counted
          /\ UNCHANGED <<m_invalid_structure_count, m_crc_errors_count>>
      BY <2>8 DEF DeliverTelemetry, Ready, CandidateOpen, counted
    <3>2. delivered' = delivered + 1
      BY <2>8, DeliverEffect DEF delivered
    <3> QED
      BY <2>0, <2>2, <2>3, <3>1, <3>2
  <2>9. CASE RejectTelemetry
    <3>1. /\ CandidateOpen = 1 /\ CandidateOpen' = 0 /\ delivered' = delivered
          /\ counted' = counted
          /\ UNCHANGED m_invalid_structure_count
          /\ m_crc_errors_count' = m_crc_errors_count + 1
      BY <2>9 DEF RejectTelemetry, Ready, CandidateOpen, delivered, counted
    <3> QED
      BY <2>0, <2>2, <2>3, <3>1
  <2>10. CASE SyncFound
    <3>1. /\ CandidateOpen = 0 /\ CandidateOpen' = 0 /\ delivered' = delivered
          /\ counted' = counted
          /\ UNCHANGED <<m_invalid_structure_count, m_crc_errors_count>>
      BY <2>10 DEF SyncFound, Ready, CandidateOpen, delivered, counted
    <3> QED
      BY <2>0, <2>2, <2>3, <3>1
  <2>11. CASE ReadLength
    <3>1. /\ CandidateOpen = 1 /\ CandidateOpen' = 1 /\ delivered' = delivered
          /\ counted' = counted
          /\ UNCHANGED <<m_invalid_structure_count, m_crc_errors_count>>
      BY <2>11 DEF ReadLength, Ready, CandidateOpen, delivered, counted
    <3> QED
      BY <2>0, <2>2, <2>3, <3>1
  <2>12. CASE \/ PopAll \/ SyncNotFound \/ IgnorePayload \/ AwaitMoreBytes
              \/ EraseProcessed \/ UNCHANGED vars
    <3>1. /\ CandidateOpen' = CandidateOpen /\ delivered' = delivered
          /\ counted' = counted
          /\ UNCHANGED <<m_invalid_structure_count, m_crc_errors_count>>
      BY <2>12 DEF PopAll, SyncNotFound, IgnorePayload, AwaitMoreBytes, EraseProcessed,
                   vars, CandidateOpen, delivered, counted
    <3> QED
      BY <2>0, <2>2, <2>3, <3>1
  <2> QED
    BY <2>5, <2>6, <2>7, <2>8, <2>9, <2>10, <2>11, <2>12
    DEF Next, process_accumulated_data, LoopBody
<1> QED
  BY <1>1, <1>2, Inductive, PTL DEF Spec

-----------------------------------------------------------------------------
(* The parser implements PacketScanner.                                    *)

(* What indexing a sequence yields.                                        *)
LEMMA SeqElement ==
  ASSUME NEW S, NEW q \in Seq(S), NEW i \in DOMAIN q
  PROVE  i \in 1..Len(q) /\ q[i] \in S
OBVIOUS

(* A sequence that is not empty has a last element.                        *)
LEMMA LastElement ==
  ASSUME NEW S, NEW q \in Seq(S), q # <<>>
  PROVE  Len(q) \in DOMAIN q /\ q[Len(q)] \in S
OBVIOUS

(* The instance reads packets as this module does. *)
LEMMA SameFormat ==
  /\ \A s, p : Scanner!TelemetryPacketAt(s, p) = TelemetryPacketAt(s, p)
  /\ \A s, p : Scanner!PacketAt(s, p) = PacketAt(s, p)
BY DEF Scanner!TelemetryPacketAt, Scanner!PacketAt, Scanner!HeaderAt, Scanner!TypeAt,
  Scanner!LengthAt, Scanner!PlausibleLength, Scanner!CrcMatches, Scanner!TotalPacketSize,
  Scanner!HEADER_SIZE_BYTES, Scanner!HEADER_BYTES, Scanner!PAYLOAD_STARTING_IDX,
  Scanner!TYPE_SIZE_BYTES, Scanner!LENGTH_SIZE_BYTES, Scanner!CRC_SIZE_BYTES,
  Scanner!TYPE_STARTING_IDX, Scanner!LENGTH_STARTING_IDX, Scanner!TELEMETRY,
  TelemetryPacketAt, PacketAt, HeaderAt, TypeAt, LengthAt, PlausibleLength, CrcMatches,
  TotalPacketSize, HEADER_SIZE_BYTES, HEADER_BYTES, PAYLOAD_STARTING_IDX,
  TYPE_SIZE_BYTES, LENGTH_SIZE_BYTES, CRC_SIZE_BYTES, TYPE_STARTING_IDX,
  LENGTH_STARTING_IDX, TELEMETRY

(* The abstract scanner is never ahead of the view.                        *)
LEMMA FrontierBehindView == IInv => Scanner!Frontier \in Nat /\ Scanner!Frontier <= view
<1> SUFFICES ASSUME IInv PROVE Scanner!Frontier \in Nat /\ Scanner!Frontier <= view
  OBVIOUS
<1>0. /\ m_received_valid_packets \in Seq([at : Nat, size : Nat]) /\ view \in Nat
      /\ PacketsGenuine
  BY DEF IInv, TypeInv, TypeOK
<1> DEFINE last == Len(m_received_valid_packets)
<1>1. CASE m_received_valid_packets = <<>>
  BY <1>0, <1>1 DEF Scanner!Frontier
<1>2. CASE m_received_valid_packets # <<>>
  <2>1. last \in DOMAIN m_received_valid_packets
        /\ m_received_valid_packets[last] \in [at : Nat, size : Nat]
    BY <1>0, <1>2, LastElement
  <2>2. m_received_valid_packets[last].at + m_received_valid_packets[last].size <= view
    BY <1>0, <2>1 DEF PacketsGenuine
  <2>3. Scanner!Frontier
          = m_received_valid_packets[last].at + m_received_valid_packets[last].size
    BY <1>2 DEF Scanner!Frontier
  <2> QED
    BY <2>1, <2>2, <2>3
<1> QED
  BY <1>1, <1>2

(* No packet starts between the last delivered one and the view. *)
LEMMA GapHasNoPacket ==
  IInv => \A q \in Scanner!Frontier..(view - 1) : ~TelemetryPacketAt(stream, q)
<1> SUFFICES ASSUME IInv, NEW q \in Scanner!Frontier..(view - 1),
                    TelemetryPacketAt(stream, q)
             PROVE  FALSE
  OBVIOUS
<1>0. /\ m_received_valid_packets \in Seq([at : Nat, size : Nat]) /\ view \in Nat
      /\ PacketsOrdered /\ SkippedAreHopeless
      /\ Scanner!Frontier \in Nat
  BY FrontierBehindView DEF IInv, TypeInv, TypeOK
<1>1. q \in 0..(view - 1) /\ Scanner!Frontier <= q
  BY <1>0
<1>2. Covered(q)
  BY <1>0, <1>1, HopelessIsNoPacket DEF SkippedAreHopeless
<1>3. PICK k \in DOMAIN m_received_valid_packets :
        q < m_received_valid_packets[k].at + m_received_valid_packets[k].size
  BY <1>2 DEF Covered
<1> DEFINE last == Len(m_received_valid_packets)
           end(i) == m_received_valid_packets[i].at + m_received_valid_packets[i].size
<1>4. last \in DOMAIN m_received_valid_packets /\ k \in 1..last /\ last \in Nat
  BY <1>0, <1>3
<1>5. /\ m_received_valid_packets[last].at \in Nat /\ m_received_valid_packets[last].size \in Nat
      /\ end(k) \in Nat
  <2>1. \A i \in DOMAIN m_received_valid_packets :
          m_received_valid_packets[i] \in [at : Nat, size : Nat]
    BY <1>0, SeqElement
  <2> QED
    BY <1>3, <1>4, <2>1
<1>6. Scanner!Frontier = end(last)
  BY <1>0, <1>4 DEF Scanner!Frontier
<1>7. end(k) <= end(last)
  <2>1. CASE k = last
    BY <1>5, <2>1
  <2>2. CASE k # last
    <3>1. k \in 1..(last - 1)
      BY <1>4, <2>2
    <3>2. end(k) <= m_received_valid_packets[last].at
      BY <1>0, <1>4, <3>1 DEF PacketsOrdered
    <3> QED
      BY <1>5, <3>2
  <2> QED
    BY <2>1, <2>2
<1> HIDE DEF end
<1> QED
  BY <1>0, <1>1, <1>3, <1>5, <1>6, <1>7 DEF end

(* The state machine implements the scanner: every delivery is that of the *)
(* leftmost packet not delivered yet, and every other step appends to the  *)
(* stream or changes nothing the scanner sees.                             *)
THEOREM ParserImplementsScanner == Spec => ImplementsScanner
<1>1. Init => Scanner!Init
  BY DEF Init, Scanner!Init
<1>2. IInv /\ [Next]_vars => [Scanner!Next]_<<stream, m_received_valid_packets>>
  <2> SUFFICES ASSUME IInv, [Next]_vars
               PROVE  Scanner!Next \/ UNCHANGED <<stream, m_received_valid_packets>>
    OBVIOUS
  <2>1. CASE PopAll
    <3>1. PICK batch \in Batches : stream' = stream \o batch
      BY <2>1 DEF PopAll
    <3>2. m_received_valid_packets' = m_received_valid_packets
      BY <2>1 DEF PopAll
    <3>3. Scanner!Receive
      BY <3>1, <3>2 DEF Scanner!Receive
    <3> QED
      BY <3>3 DEF Scanner!Next
  <2>2. CASE DeliverTelemetry
    <3>1. stream' = stream /\ TelemetryPacketAt(stream, view)
      BY <2>2, DeliverEffect
    <3>2. view \in Scanner!Frontier..Len(stream)
      BY FrontierBehindView DEF IInv, TypeInv, TypeOK
    <3>3. \A q \in Scanner!Frontier..(view - 1) : ~TelemetryPacketAt(stream, q)
      BY GapHasNoPacket
    <3>4. m_received_valid_packets' = Append(m_received_valid_packets, PacketAt(stream, view))
      <4>1. /\ Ready("READ_PAYLOAD") /\ m_type = TELEMETRY /\ TypeOK /\ FieldsMatchView
        BY <2>2 DEF DeliverTelemetry, IInv, TypeInv
      <4>2. PacketAt(stream, view) = [at |-> view, size |-> ExpectedPacketSize]
        BY <4>1, CandidateAtFront
      <4> QED
        BY <2>2, <4>2 DEF DeliverTelemetry
    <3>5. Scanner!Deliver
      BY <3>1, <3>2, <3>3, <3>4, SameFormat DEF Scanner!Deliver
    <3> QED
      BY <3>5 DEF Scanner!Next
  <2>3. CASE ~PopAll /\ ~DeliverTelemetry
    BY <2>3, StreamKept, PacketsKept DEF vars
  <2> QED
    BY <2>1, <2>2, <2>3
<1> QED
  BY <1>1, <1>2, Inductive, PTL DEF Spec, ImplementsScanner, Scanner!Spec

-----------------------------------------------------------------------------
(* The telemetry that is pushed.                                           *)

(* A payload is self-contained if the decoder returns the same whatever    *)
(* follows: the identifier's length, its first byte, does not lead it past *)
(* the end.  That of every packet the generator builds is (TelemetryLink); *)
(* nothing in the parser makes it so.                                      *)
SelfContained(payload) ==
  \A rest \in Seq(Byte) : deserialize_payload(payload \o rest) = deserialize_payload(payload)

PayloadsSelfContained ==
  \A k \in DOMAIN m_received_valid_packets : SelfContained(PayloadOf(m_received_valid_packets[k]))

(* PayloadOf, of a given stream.                                           *)
PayloadIn(s, packet) ==
  SubSeq(s, packet.at + PAYLOAD_STARTING_IDX + 1, packet.at + packet.size - CRC_SIZE_BYTES)

(* Each record was read from the payload of its packet and some bytes that *)
(* followed it in the buffer.                                              *)
DecodedFromPayloadAndRest ==
  \A k \in DOMAIN pushed : \E rest \in Seq(Byte) :
    pushed[k] = deserialize_payload(PayloadIn(stream, m_received_valid_packets[k]) \o rest)

(* The records of pushed and of m_received_valid_packets have one domain.  *)
LEMMA SameDomain ==
  ASSUME TypeInv
  PROVE  /\ DOMAIN pushed = 1..Len(pushed)
         /\ DOMAIN m_received_valid_packets = 1..Len(pushed)
         /\ Len(pushed) \in Nat
<1>1. PICK T : pushed \in Seq(T)
  BY DEF TypeInv, PushedIsSequence
<1>2. m_received_valid_packets \in Seq([at : Nat, size : Nat])
      /\ Len(pushed) = Len(m_received_valid_packets)
  BY DEF TypeInv, TypeOK
<1> QED
  BY <1>1, <1>2

(* The bytes of a recorded packet stay where they are.                     *)
LEMMA PayloadKept ==
  ASSUME IInv, [Next]_vars, NEW k \in DOMAIN m_received_valid_packets
  PROVE  PayloadIn(stream', m_received_valid_packets'[k])
           = PayloadIn(stream, m_received_valid_packets[k])
<1> DEFINE packet == m_received_valid_packets[k]
<1>1. m_received_valid_packets'[k] = packet
  BY DeliverEffect, PacketsKept DEF vars
<1>2. /\ TypeOK /\ stream \in Seq(Byte) /\ Len(stream) \in Nat /\ view <= Len(stream)
      /\ view \in Nat
  BY DEF IInv, TypeInv, TypeOK
<1>3. packet \in [at : Nat, size : Nat]
  BY SeqElement DEF IInv, TypeInv, TypeOK
<1>4. packet.at + packet.size <= view
  BY DEF IInv, PacketsGenuine
<1> HIDE DEF packet
<1>5. /\ packet.at + 5 + 1 \in Nat /\ 1 <= packet.at + 5 + 1
      /\ packet.at + packet.size - 2 \in Int /\ packet.at + packet.size - 2 <= Len(stream)
  BY <1>2, <1>3, <1>4
<1>6. SubSeq(stream', packet.at + 5 + 1, packet.at + packet.size - 2)
        = SubSeq(stream, packet.at + 5 + 1, packet.at + packet.size - 2)
  <2>1. CASE PopAll
    <3>1. PICK batch \in Seq(Byte) : stream' = stream \o batch
      BY <1>2, <2>1, StreamGrows
    <3> QED
      BY <1>2, <1>5, <3>1, AppendKeepsRange
  <2>2. CASE ~PopAll
    BY <2>2, StreamKept DEF vars
  <2> QED
    BY <2>1, <2>2
<1> QED
  BY <1>1, <1>6, FormatSizes DEF PayloadIn, packet

(* A range of bytes is its first part and the rest.                        *)
LEMMA PartsOfRange ==
  ASSUME NEW s \in Seq(Byte), NEW i \in Nat, NEW j \in Nat,
         1 <= i, i <= j + 1, j <= Len(s)
  PROVE  SubSeq(s, i, Len(s)) = SubSeq(s, i, j) \o SubSeq(s, j + 1, Len(s))
<1> DEFINE whole == SubSeq(s, i, Len(s))  part == SubSeq(s, i, j)
           rest == SubSeq(s, j + 1, Len(s))  both == part \o rest
<1>1. Len(s) \in Nat
  OBVIOUS
<1>2. /\ whole \in Seq(Byte) /\ Len(whole) = Len(s) - i + 1
      /\ \A n \in 1..(Len(s) - i + 1) : whole[n] = s[i + n - 1]
  BY <1>1
<1>3. /\ part \in Seq(Byte) /\ Len(part) = j - i + 1
      /\ \A n \in 1..(j - i + 1) : part[n] = s[i + n - 1]
  BY <1>1
<1>4. /\ rest \in Seq(Byte) /\ Len(rest) = Len(s) - j
      /\ \A n \in 1..(Len(s) - j) : rest[n] = s[j + n]
  BY <1>1
<1> HIDE DEF whole, part, rest
<1>5. /\ both \in Seq(Byte) /\ Len(both) = Len(s) - i + 1
      /\ \A n \in 1..(Len(s) - i + 1) : both[n] = IF n <= j - i + 1 THEN part[n] ELSE rest[n - (j - i + 1)]
  BY <1>1, <1>3, <1>4
<1> HIDE DEF both
<1>6. ASSUME NEW n \in 1..(Len(s) - i + 1) PROVE both[n] = s[i + n - 1]
  <2>1. CASE n <= j - i + 1
    BY <1>1, <1>3, <1>5, <2>1
  <2>2. CASE ~(n <= j - i + 1)
    <3> DEFINE m == n - (j - i + 1)
    <3>1. m \in 1..(Len(s) - j) /\ j + m = i + n - 1
      BY <1>1, <2>2
    <3> HIDE DEF m
    <3>2. rest[m] = s[j + m]
      BY <1>4, <3>1
    <3> QED
      BY <1>5, <2>2, <3>1, <3>2 DEF m
  <2> QED
    BY <2>1, <2>2
<1>7. \A n \in 1..Len(whole) : whole[n] = both[n]
  BY <1>2, <1>6
<1>8. whole = both
  BY <1>2, <1>5, <1>7, SeqEqual
<1> QED
  BY <1>8 DEF whole, part, rest, both

(* What READ_PAYLOAD hands to the decoder is the payload of the packet it  *)
(* records, and what is behind it in the buffer.                           *)
LEMMA ViewBeginsWithPayload ==
  ASSUME IInv, DeliverTelemetry
  PROVE  \E rest \in Seq(Byte) : PayloadView = PayloadIn(stream, PacketAt(stream, view)) \o rest
<1> DEFINE first == view + 5 + 1  last == view + ExpectedPacketSize - 2
           rest == SubSeq(stream, last + 1, Len(stream))
<1>1. /\ TypeOK /\ FieldsMatchView /\ stream \in Seq(Byte) /\ Len(stream) \in Nat
      /\ view \in Nat
  BY DEF IInv, TypeInv, TypeOK
<1>2. /\ PacketAt(stream, view).at = view
      /\ PacketAt(stream, view).size = ExpectedPacketSize
      /\ ExpectedPacketSize \in Nat
  BY DeliverEffect
<1>3. view + ExpectedPacketSize <= Len(stream) /\ ExpectedPacketSize >= 7
  BY <1>1, ReadyFacts DEF DeliverTelemetry, ParserState
<1>4. /\ first \in Nat /\ last \in Nat /\ 1 <= first /\ first <= last + 1 /\ last <= Len(stream)
  BY <1>1, <1>2, <1>3
<1>5. PayloadView = SubSeq(stream, first, Len(stream))
  BY FormatSizes DEF PayloadView
<1>6. PayloadIn(stream, PacketAt(stream, view)) = SubSeq(stream, first, last)
  BY <1>2, FormatSizes DEF PayloadIn
<1> HIDE DEF first, last
<1>7. rest \in Seq(Byte)
  BY <1>1, <1>4
<1>8. SubSeq(stream, first, Len(stream)) = SubSeq(stream, first, last) \o rest
  BY <1>1, <1>4, PartsOfRange
<1> QED
  BY <1>5, <1>6, <1>7, <1>8

LEMMA DecodedStep ==
  ASSUME IInv, DecodedFromPayloadAndRest, [Next]_vars
  PROVE  DecodedFromPayloadAndRest'
<1>1. TypeInv /\ TypeInv'
  BY TypeStep DEF IInv
<1>2. ASSUME NEW k \in DOMAIN pushed, pushed'[k] = pushed[k]
      PROVE  \E rest \in Seq(Byte) :
               pushed'[k] = deserialize_payload(PayloadIn(stream', m_received_valid_packets'[k]) \o rest)
  <2>1. k \in DOMAIN m_received_valid_packets
    BY <1>1, SameDomain
  <2> QED
    BY <1>2, <2>1, PayloadKept DEF DecodedFromPayloadAndRest
<1>3. CASE DeliverTelemetry
  <2> DEFINE new == Len(pushed) + 1
  <2>1. PICK T : pushed \in Seq(T)
    BY <1>1 DEF TypeInv, PushedIsSequence
  <2>2. pushed' = Append(pushed, deserialize_payload(PayloadView))
    BY <1>3 DEF DeliverTelemetry
  <2>3. /\ DOMAIN pushed' = 1..new /\ new \in Nat
        /\ pushed'[new] = deserialize_payload(PayloadView)
        /\ \A k \in DOMAIN pushed : pushed'[k] = pushed[k]
        /\ DOMAIN pushed = 1..(new - 1)
    <3>1. pushed \in Seq(T \cup {deserialize_payload(PayloadView)})
      BY <2>1
    <3> QED
      BY <2>2, <3>1
  <2>4. m_received_valid_packets'[new] = PacketAt(stream, view)
    BY <1>1, <1>3, DeliverEffect DEF TypeInv, TypeOK
  <2>5. PICK rest \in Seq(Byte) : PayloadView = PayloadIn(stream, PacketAt(stream, view)) \o rest
    BY <1>3, ViewBeginsWithPayload
  <2>6. PayloadIn(stream', m_received_valid_packets'[new]) = PayloadIn(stream, PacketAt(stream, view))
    BY <1>3, <2>4 DEF DeliverTelemetry
  <2>7. pushed'[new] = deserialize_payload(PayloadIn(stream', m_received_valid_packets'[new]) \o rest)
    BY <2>3, <2>5, <2>6
  <2>8. \A k \in DOMAIN pushed' : k = new \/ k \in DOMAIN pushed
    BY <2>3
  <2> HIDE DEF new
  <2> QED
    BY <1>2, <2>3, <2>7, <2>8 DEF DecodedFromPayloadAndRest
<1>4. CASE ~DeliverTelemetry
  <2>1. pushed' = pushed
    BY <1>4 DEF Next, process_accumulated_data, LoopBody, PopAll, SyncFound, SyncNotFound,
                ReadKnownType, ReadUnknownType, ReadBadLength, ReadLength, RejectTelemetry,
                IgnorePayload, AwaitMoreBytes, EraseProcessed, vars
  <2> QED
    BY <1>2, <2>1 DEF DecodedFromPayloadAndRest
<1> QED
  BY <1>3, <1>4

(* Whatever the decoder does: what is pushed was read from the beginning   *)
(* of the recorded packet's payload, never of another one's.               *)
THEOREM EachRecordReadAtItsPacket == Spec => []DecodedFromPayloadAndRest
<1>1. Init => DecodedFromPayloadAndRest
  BY DEF Init, DecodedFromPayloadAndRest
<1> QED
  BY <1>1, DecodedStep, Inductive, PTL DEF Spec

(* And so, as long as the payloads received are self-contained, from that  *)
(* payload alone, although the decoder is handed the rest of the buffer.   *)
THEOREM EachRecordReadFromItsPayload ==
  Spec => [](PayloadsSelfContained => DecodedFromOwnPayload)
<1>1. ASSUME IInv, DecodedFromPayloadAndRest, PayloadsSelfContained
      PROVE  DecodedFromOwnPayload
  <2> SUFFICES ASSUME NEW k \in DOMAIN pushed
               PROVE  pushed[k] = deserialize_payload(PayloadOf(m_received_valid_packets[k]))
    BY DEF DecodedFromOwnPayload
  <2>1. k \in DOMAIN m_received_valid_packets
    BY <1>1, SameDomain DEF IInv
  <2> QED
    BY <1>1, <2>1
    DEF DecodedFromPayloadAndRest, PayloadsSelfContained, SelfContained, PayloadOf, PayloadIn
<1> QED
  BY <1>1, Inductive, EachRecordReadAtItsPacket, PTL
=============================================================================
