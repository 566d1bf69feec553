------------------------ MODULE TelemetryLink_proofs ------------------------
(***************************************************************************)
(* Theorems about the generator, DroneDataSimulator, and about the bytes   *)
(* of its packets, TelemetryLink with TelemetryCodec: for every limit,     *)
(* batch size and length that a sequence may be given, and for every       *)
(* telemetry whose identifier has its length in one byte.                  *)
(*                                                                         *)
(* In this order: what the generator sends and counts; exclusive or and    *)
(* the shift register; the loop of calculate_crc16, by induction over the  *)
(* bytes; where the fields of a packet are; what the reader makes of a     *)
(* packet, intact or not; the checksum as the remainder of a polynomial    *)
(* division; and the behaviours that follow the bytes.                     *)
(***************************************************************************)
EXTENDS TelemetryLink, SequenceTheorems, FiniteSetTheorems, WellFoundedInduction, TLAPS

-----------------------------------------------------------------------------
(* The generator.                                                          *)
Sends == [kind : {"whole", "first", "second", "corrupted", "garbage"}, packet : Nat]

(* Between the parts of a packet the wire ends with the first.             *)
OpenPacketIsLast ==
  pc = "second" => Len(wire) > 0 /\ wire[Len(wire)] = [kind |-> "first", packet |-> NextPacket]

(* What may still be sent before the limit is looked at again.             *)
RoomLeft ==
  MAX_PKGS_AMOUNT # -1 =>
    /\ pc = "second" => sent_packets_amount < MAX_PKGS_AMOUNT
    /\ pc = "sequence" /\ left > 0 => sent_packets_amount + left <= MAX_PKGS_AMOUNT + 1

(* No recorded packet is ahead of the counter.                             *)
RecordedWereSent == \A n \in Recorded : n <= sent_packets_amount

IInv ==
  /\ TypeOK
  /\ OpenPacketIsLast /\ PartsStayTogether
  /\ RoomLeft /\ AtMostOneTooMany
  /\ RecordedWereSent /\ RecordMatchesWire

-----------------------------------------------------------------------------
(* The invariant holds at the start.                                       *)
LEMMA InitIInv == Init => IInv
<1> SUFFICES ASSUME Init PROVE IInv
  OBVIOUS
<1>1. TypeOK
  BY DEF Init, TypeOK
<1>2. Recorded = {} /\ CompletedOnWire = {}
  BY DEF Init, Recorded, CompletedOnWire
<1>3. OpenPacketIsLast /\ PartsStayTogether
  BY DEF Init, OpenPacketIsLast, PartsStayTogether
<1>4. RoomLeft /\ AtMostOneTooMany
  BY SimulatorAssumption DEF Init, RoomLeft, AtMostOneTooMany
<1>5. RecordedWereSent /\ RecordMatchesWire
  BY <1>2 DEF Init, RecordedWereSent, RecordMatchesWire
<1> QED
  BY <1>1, <1>3, <1>4, <1>5 DEF IInv

(* What a call of send appends, and what it leaves.                        *)
LEMMA SendAppends ==
  ASSUME TypeOK, NEW kind \in {"whole", "first", "second", "corrupted", "garbage"},
         NEW packet \in Nat, send(kind, packet)
  PROVE  /\ wire' \in Seq(Sends)
         /\ Len(wire') = Len(wire) + 1
         /\ DOMAIN wire = 1..Len(wire) /\ DOMAIN wire' = 1..(Len(wire) + 1)
         /\ wire'[Len(wire) + 1] = [kind |-> kind, packet |-> packet]
         /\ \A k \in 1..Len(wire) : wire'[k] = wire[k]
<1> DEFINE e == [kind |-> kind, packet |-> packet]
<1>1. wire \in Seq(Sends) /\ e \in Sends /\ wire' = Append(wire, e)
  BY DEF TypeOK, Sends, send
<1> HIDE DEF e
<1>2. /\ wire' \in Seq(Sends)
      /\ Len(wire') = Len(wire) + 1
      /\ DOMAIN wire = 1..Len(wire) /\ DOMAIN wire' = 1..(Len(wire) + 1)
      /\ wire'[Len(wire) + 1] = e
      /\ \A k \in 1..Len(wire) : wire'[k] = wire[k]
  BY <1>1
<1> QED
  BY <1>2 DEF e

(* A send that completes no packet leaves the completed ones as they are;  *)
(* one that does adds its packet.                                          *)
LEMMA SendCompletes ==
  ASSUME TypeOK, NEW kind \in {"whole", "first", "second", "corrupted", "garbage"},
         NEW packet \in Nat, send(kind, packet)
  PROVE  CompletedOnWire' =
           CompletedOnWire \cup (IF kind \in {"whole", "second"} THEN {packet} ELSE {})
<1>a. /\ DOMAIN wire = 1..Len(wire) /\ DOMAIN wire' = 1..(Len(wire) + 1)
      /\ wire'[Len(wire) + 1] = [kind |-> kind, packet |-> packet]
      /\ \A k \in 1..Len(wire) : wire'[k] = wire[k]
  BY SendAppends
<1>1. /\ Len(wire) \in Nat
      /\ DOMAIN wire = 1..Len(wire) /\ DOMAIN wire' = 1..(Len(wire) + 1)
      /\ wire'[Len(wire) + 1].kind = kind /\ wire'[Len(wire) + 1].packet = packet
      /\ \A k \in 1..Len(wire) : wire'[k] = wire[k]
  BY <1>a DEF TypeOK
<1>2. 1..(Len(wire) + 1) = 1..Len(wire) \cup {Len(wire) + 1}
  BY <1>1
<1> QED
  BY <1>1, <1>2 DEF CompletedOnWire

(* The packet that is recorded is the next, and behind all others.         *)
LEMMA RecordAppends ==
  ASSUME TypeOK, RecordedWereSent, RecordValid,
         \A j, k \in DOMAIN m_sent_valid_packets :
           j < k => m_sent_valid_packets[j] < m_sent_valid_packets[k]
  PROVE  /\ m_sent_valid_packets' \in Seq(Nat)
         /\ Len(m_sent_valid_packets') = Len(m_sent_valid_packets) + 1
         /\ Recorded' = Recorded \cup {NextPacket}
         /\ \A j, k \in DOMAIN m_sent_valid_packets' :
              j < k => m_sent_valid_packets'[j] < m_sent_valid_packets'[k]
<1> DEFINE len == Len(m_sent_valid_packets)
<1>1. /\ m_sent_valid_packets \in Seq(Nat) /\ NextPacket \in Nat /\ len \in Nat
      /\ sent_packets_amount \in Nat /\ NextPacket = sent_packets_amount + 1
      /\ m_sent_valid_packets' = Append(m_sent_valid_packets, NextPacket)
  BY DEF TypeOK, NextPacket, RecordValid
<1>2. /\ m_sent_valid_packets' \in Seq(Nat)
      /\ Len(m_sent_valid_packets') = len + 1
      /\ DOMAIN m_sent_valid_packets = 1..len
      /\ DOMAIN m_sent_valid_packets' = 1..(len + 1)
      /\ m_sent_valid_packets'[len + 1] = NextPacket
      /\ \A k \in 1..len : m_sent_valid_packets'[k] = m_sent_valid_packets[k]
  BY <1>1
<1>3. 1..(len + 1) = 1..len \cup {len + 1}
  BY <1>1
<1>4. Recorded' = Recorded \cup {NextPacket}
  BY <1>2, <1>3 DEF Recorded
<1>5. \A k \in 1..len : m_sent_valid_packets[k] \in Nat /\ m_sent_valid_packets[k] < NextPacket
  <2> TAKE k \in 1..len
  <2>1. m_sent_valid_packets[k] \in Recorded
    BY <1>2 DEF Recorded
  <2>2. m_sent_valid_packets[k] <= sent_packets_amount
    BY <2>1 DEF RecordedWereSent
  <2>3. m_sent_valid_packets[k] \in Nat
    BY <1>1, <1>2
  <2> QED
    BY <1>1, <2>2, <2>3
<1>6. ASSUME NEW j \in 1..(len + 1), NEW k \in 1..(len + 1), j < k
      PROVE  m_sent_valid_packets'[j] < m_sent_valid_packets'[k]
  <2>1. j \in 1..len
    BY <1>1, <1>6
  <2>2. CASE k = len + 1
    BY <1>2, <1>5, <2>1, <2>2
  <2>3. CASE k \in 1..len
    BY <1>2, <1>6, <2>1, <2>3
  <2> QED
    BY <1>3, <2>2, <2>3
<1> QED
  BY <1>2, <1>4, <1>6

(* A send at the right moment keeps the parts of a packet together.        *)
LEMMA SendKeepsParts ==
  ASSUME TypeOK, OpenPacketIsLast, PartsStayTogether,
         NEW kind \in {"whole", "first", "second", "corrupted", "garbage"},
         NEW packet \in Nat, send(kind, packet),
         pc = "second" => kind = "second" /\ packet = NextPacket,
         kind = "first" => pc' = "second"
  PROVE  PartsStayTogether'
<1>1. /\ wire \in Seq(Sends) /\ Len(wire) \in Nat
      /\ Len(wire') = Len(wire) + 1
      /\ DOMAIN wire = 1..Len(wire) /\ DOMAIN wire' = 1..(Len(wire) + 1)
      /\ wire'[Len(wire) + 1] = [kind |-> kind, packet |-> packet]
      /\ \A k \in 1..Len(wire) : wire'[k] = wire[k]
  <2>1. wire \in Seq(Sends) /\ Len(wire) \in Nat
    BY DEF TypeOK, Sends
  <2> QED
    BY <2>1, SendAppends
<1> SUFFICES ASSUME NEW k \in 1..(Len(wire) + 1), wire'[k].kind = "first"
             PROVE  IF k = Len(wire) + 1 THEN pc' = "second"
                    ELSE wire'[k + 1] = [kind |-> "second", packet |-> wire'[k].packet]
  BY <1>1 DEF PartsStayTogether
<1>2. CASE k = Len(wire) + 1
  BY <1>1, <1>2
<1>3. CASE k \in 1..Len(wire)
  <2>1. wire'[k] = wire[k] /\ wire[k].kind = "first" /\ k \in DOMAIN wire
    BY <1>1, <1>3
  <2>2. IF k = Len(wire) THEN pc = "second"
        ELSE wire[k + 1] = [kind |-> "second", packet |-> wire[k].packet]
    BY <2>1 DEF PartsStayTogether
  <2>3. CASE k = Len(wire)
    <3>1. pc = "second" /\ wire[k].packet = NextPacket
      BY <2>2, <2>3 DEF OpenPacketIsLast
    <3>2. wire'[k + 1] = [kind |-> "second", packet |-> NextPacket]
      BY <1>1, <2>3, <3>1
    <3> QED
      BY <1>1, <1>3, <2>1, <3>1, <3>2
  <2>4. CASE k # Len(wire)
    <3>1. k + 1 \in 1..Len(wire)
      <4>1. Len(wire) \in Nat
        BY <1>1
      <4> QED
        BY <1>3, <2>4, <4>1
    <3>2. wire'[k + 1] = wire[k + 1]
      BY <1>1, <3>1
    <3>3. wire'[k + 1] = [kind |-> "second", packet |-> wire'[k].packet]
      BY <2>1, <2>2, <2>4, <3>2
    <3>4. k # Len(wire) + 1
      BY <1>1, <1>3
    <3> QED
      BY <3>3, <3>4
  <2> QED
    BY <2>3, <2>4
<1> QED
  <2>1. k = Len(wire) + 1 \/ k \in 1..Len(wire)
    BY <1>1
  <2> QED
    BY <1>2, <1>3, <2>1

(* What is left alone by the steps that send nothing.                      *)
LEMMA QuietStep ==
  ASSUME IInv,
         UNCHANGED <<sent_packets_amount, m_sent_valid_packets, counts, wire>>,
         pc' = "second" <=> pc = "second"
  PROVE  /\ OpenPacketIsLast' /\ PartsStayTogether' /\ AtMostOneTooMany'
         /\ RecordedWereSent' /\ RecordMatchesWire'
<1>1. Recorded' = Recorded /\ CompletedOnWire' = CompletedOnWire
  BY DEF Recorded, CompletedOnWire
<1>2. RecordedWereSent' /\ RecordMatchesWire'
  BY <1>1 DEF IInv, RecordedWereSent, RecordMatchesWire, counts
<1>3. OpenPacketIsLast' /\ PartsStayTogether' /\ AtMostOneTooMany'
  BY DEF IInv, OpenPacketIsLast, PartsStayTogether, AtMostOneTooMany, NextPacket
<1> QED
  BY <1>2, <1>3

(* A packet that is sent to its end, recorded and counted.                 *)
LEMMA SendRecorded ==
  ASSUME IInv, NEW kind \in {"whole", "second"}, send(kind, NextPacket), RecordValid,
         sent_packets_amount' = sent_packets_amount + 1,
         UNCHANGED m_corrupted_packets_count,
         pc = "second" => kind = "second",
         pc' # "second"
  PROVE  /\ OpenPacketIsLast' /\ PartsStayTogether'
         /\ RecordedWereSent' /\ RecordMatchesWire'
         /\ m_sent_valid_packets' \in Seq(Nat) /\ wire' \in Seq(Sends)
<1>1. /\ TypeOK /\ RecordedWereSent /\ RecordMatchesWire
      /\ OpenPacketIsLast /\ PartsStayTogether
      /\ NextPacket \in Nat /\ NextPacket = sent_packets_amount + 1
      /\ sent_packets_amount \in Nat
  BY DEF IInv, TypeOK, NextPacket
<1>2. wire' \in Seq(Sends)
  BY <1>1, SendAppends
<1>3. CompletedOnWire' = CompletedOnWire \cup {NextPacket}
  BY <1>1, SendCompletes
<1>4. /\ m_sent_valid_packets' \in Seq(Nat)
      /\ Len(m_sent_valid_packets') = Len(m_sent_valid_packets) + 1
      /\ Recorded' = Recorded \cup {NextPacket}
      /\ \A j, k \in DOMAIN m_sent_valid_packets' :
           j < k => m_sent_valid_packets'[j] < m_sent_valid_packets'[k]
  BY <1>1, RecordAppends DEF RecordMatchesWire
<1>5. RecordedWereSent'
  <2>1. \A k \in Recorded : k \in Nat
    BY <1>1 DEF TypeOK, Recorded
  <2> QED
    BY <1>1, <1>4, <2>1 DEF RecordedWereSent
<1>6. RecordMatchesWire'
  BY <1>1, <1>3, <1>4 DEF RecordMatchesWire, TypeOK
<1>7. PartsStayTogether'
  BY <1>1, SendKeepsParts
<1> QED
  BY <1>2, <1>4, <1>5, <1>6, <1>7 DEF OpenPacketIsLast

(* Something else is sent.                                                 *)
LEMMA SendUnrecorded ==
  ASSUME IInv, NEW kind \in {"first", "corrupted", "garbage"}, NEW packet \in Nat,
         send(kind, packet), pc # "second",
         UNCHANGED m_sent_valid_packets,
         NEW n \in {0, 1},
         sent_packets_amount' = sent_packets_amount + n,
         m_corrupted_packets_count' = m_corrupted_packets_count + n,
         kind = "first" => packet = NextPacket /\ UNCHANGED sent_packets_amount,
         pc' = "second" <=> kind = "first"
  PROVE  /\ OpenPacketIsLast' /\ PartsStayTogether'
         /\ RecordedWereSent' /\ RecordMatchesWire'
         /\ wire' \in Seq(Sends)
<1>1. /\ TypeOK /\ RecordedWereSent /\ RecordMatchesWire
      /\ OpenPacketIsLast /\ PartsStayTogether
  BY DEF IInv
<1>2. wire' \in Seq(Sends) /\ Len(wire') = Len(wire) + 1 /\ Len(wire) \in Nat
      /\ wire'[Len(wire) + 1] = [kind |-> kind, packet |-> packet]
  <2>1. Len(wire) \in Nat
    BY <1>1 DEF TypeOK
  <2> QED
    BY <1>1, <2>1, SendAppends
<1>3. Recorded' = Recorded /\ CompletedOnWire' = CompletedOnWire
  <2>1. CompletedOnWire' = CompletedOnWire \cup {}
    BY <1>1, SendCompletes
  <2> QED
    BY <2>1 DEF Recorded
<1>4. RecordedWereSent'
  <2>1. \A k \in Recorded : k \in Nat
    BY <1>1 DEF TypeOK, Recorded
  <2> QED
    BY <1>1, <1>3, <2>1 DEF RecordedWereSent, TypeOK
<1>5. RecordMatchesWire'
  <2>1. Len(m_sent_valid_packets) \in Nat /\ sent_packets_amount \in Nat
        /\ m_corrupted_packets_count \in Nat
    BY <1>1 DEF TypeOK
  <2>2. sent_packets_amount = Len(m_sent_valid_packets) + m_corrupted_packets_count
    BY <1>1 DEF RecordMatchesWire
  <2>3. sent_packets_amount' = Len(m_sent_valid_packets) + m_corrupted_packets_count'
    BY <2>1, <2>2
  <2> QED
    BY <1>1, <1>3, <2>3 DEF RecordMatchesWire
<1>6. PartsStayTogether'
  BY <1>1, SendKeepsParts
<1>7. OpenPacketIsLast'
  BY <1>2 DEF OpenPacketIsLast, NextPacket
<1> QED
  BY <1>2, <1>4, <1>5, <1>6, <1>7

-----------------------------------------------------------------------------
(* Every step preserves the invariant.                                     *)
LEMMA NextIInv == IInv /\ [Next]_vars => IInv'
<1> SUFFICES ASSUME IInv, [Next]_vars
             PROVE  IInv'
  OBVIOUS
<1> USE DEF progress, sequence, counts
<1>t. /\ TypeOK /\ RoomLeft /\ AtMostOneTooMany /\ RecordMatchesWire
      /\ NextPacket \in Nat /\ MAX_PKGS_AMOUNT \in Int
      /\ TypeOK' <=>
           /\ g_keep_running_system' \in BOOLEAN
           /\ pc' \in {"connect", "outer", "inner", "second", "sequence", "done"}
           /\ sent_packets_amount' \in Nat /\ i' \in Nat
           /\ amount' \in Int /\ left' \in Int
           /\ m_sent_valid_packets' \in Seq(Nat)
           /\ m_fragmented_packets_count' \in Nat
           /\ m_corrupted_packets_count' \in Nat
           /\ m_garbage_sequences_count' \in Nat
           /\ wire' \in Seq(Sends)
  BY SimulatorAssumption DEF IInv, TypeOK, NextPacket, Sends
<1>k. CASE process_loop /\ UNCHANGED g_keep_running_system
  <2>1. CASE GiveUp
    BY <1>t, <1>k, <2>1, QuietStep DEF GiveUp, IInv, TypeOK, RoomLeft, Sends
  <2>2. CASE Connect
    BY <1>t, <1>k, <2>2, QuietStep DEF Connect, IInv, TypeOK, RoomLeft, Sends
  <2>3. CASE StartBatch
    BY <1>t, <1>k, <2>3, QuietStep DEF StartBatch, IInv, TypeOK, RoomLeft, Sends
  <2>4. CASE EndBatch
    BY <1>t, <1>k, <2>4, QuietStep DEF EndBatch, IInv, TypeOK, RoomLeft, Sends
  <2>5. CASE SendWhole
    <3>1. /\ OpenPacketIsLast' /\ PartsStayTogether'
          /\ RecordedWereSent' /\ RecordMatchesWire'
          /\ m_sent_valid_packets' \in Seq(Nat) /\ wire' \in Seq(Sends)
      BY <2>5, SendRecorded DEF SendWhole, CountPacket, Draws
    <3>2. TypeOK' /\ RoomLeft' /\ AtMostOneTooMany'
      BY <1>t, <1>k, <2>5, <3>1
         DEF SendWhole, CountPacket, Draws, MoreToSend, TypeOK, RoomLeft, AtMostOneTooMany
    <3> QED
      BY <3>1, <3>2 DEF IInv
  <2>6. CASE SendGarbage
    <3>1. /\ OpenPacketIsLast' /\ PartsStayTogether'
          /\ RecordedWereSent' /\ RecordMatchesWire' /\ wire' \in Seq(Sends)
      <4>1. /\ send("garbage", 0) /\ pc = "inner" /\ pc' = pc
            /\ UNCHANGED <<sent_packets_amount, m_sent_valid_packets,
                          m_corrupted_packets_count>>
        BY <2>6 DEF SendGarbage, Draws
      <4>2. /\ sent_packets_amount' = sent_packets_amount + 0
            /\ m_corrupted_packets_count' = m_corrupted_packets_count + 0
        BY <1>t, <4>1 DEF TypeOK
      <4> QED
        BY <1>t, <4>1, <4>2, SendUnrecorded
    <3>2. TypeOK' /\ RoomLeft' /\ AtMostOneTooMany'
      BY <1>t, <1>k, <2>6, <3>1
         DEF SendGarbage, Draws, TypeOK, RoomLeft, AtMostOneTooMany
    <3> QED
      BY <3>1, <3>2 DEF IInv
  <2>7. CASE SendFirstPart
    <3>1. /\ OpenPacketIsLast' /\ PartsStayTogether'
          /\ RecordedWereSent' /\ RecordMatchesWire' /\ wire' \in Seq(Sends)
      <4>1. /\ send("first", NextPacket) /\ pc = "inner" /\ pc' = "second"
            /\ UNCHANGED <<sent_packets_amount, m_sent_valid_packets,
                          m_corrupted_packets_count>>
        BY <2>7 DEF SendFirstPart, Draws
      <4>2. /\ sent_packets_amount' = sent_packets_amount + 0
            /\ m_corrupted_packets_count' = m_corrupted_packets_count + 0
        BY <1>t, <4>1 DEF TypeOK
      <4> QED
        BY <1>t, <4>1, <4>2, SendUnrecorded
    <3>2. TypeOK' /\ RoomLeft' /\ AtMostOneTooMany'
      BY <1>t, <1>k, <2>7, <3>1
         DEF SendFirstPart, Draws, MoreToSend, TypeOK, RoomLeft, AtMostOneTooMany
    <3> QED
      BY <3>1, <3>2 DEF IInv
  <2>8. CASE SendSecondPart
    <3>1. /\ OpenPacketIsLast' /\ PartsStayTogether'
          /\ RecordedWereSent' /\ RecordMatchesWire'
          /\ m_sent_valid_packets' \in Seq(Nat) /\ wire' \in Seq(Sends)
      BY <2>8, SendRecorded DEF SendSecondPart, CountPacket
    <3>2. TypeOK' /\ RoomLeft' /\ AtMostOneTooMany'
      BY <1>t, <1>k, <2>8, <3>1
         DEF SendSecondPart, CountPacket, TypeOK, RoomLeft, AtMostOneTooMany
    <3> QED
      BY <3>1, <3>2 DEF IInv
  <2>9. CASE SendCorrupted
    <3>1. /\ OpenPacketIsLast' /\ PartsStayTogether'
          /\ RecordedWereSent' /\ RecordMatchesWire' /\ wire' \in Seq(Sends)
      <4>1. /\ send("corrupted", NextPacket) /\ pc = "inner" /\ pc' = pc
            /\ sent_packets_amount' = sent_packets_amount + 1
            /\ m_corrupted_packets_count' = m_corrupted_packets_count + 1
            /\ UNCHANGED m_sent_valid_packets
        BY <2>9 DEF SendCorrupted, CountPacket, Draws
      <4> QED
        BY <1>t, <4>1, SendUnrecorded
    <3>2. TypeOK' /\ RoomLeft' /\ AtMostOneTooMany'
      BY <1>t, <1>k, <2>9, <3>1
         DEF SendCorrupted, CountPacket, Draws, MoreToSend, TypeOK, RoomLeft, AtMostOneTooMany
    <3> QED
      BY <3>1, <3>2 DEF IInv
  <2>10. CASE DrawSequence
    <3>1. /\ OpenPacketIsLast' /\ PartsStayTogether' /\ AtMostOneTooMany'
          /\ RecordedWereSent' /\ RecordMatchesWire'
      BY <2>10, QuietStep DEF DrawSequence, Draws
    <3>2. amount' \in Int
          /\ (MAX_PKGS_AMOUNT # -1 => sent_packets_amount + amount' <= MAX_PKGS_AMOUNT + 1)
      <4> DEFINE missing == MAX_PKGS_AMOUNT - sent_packets_amount + 1
                 highest == IF missing < 5 THEN missing ELSE 5
      <4>1. missing \in Int /\ missing + sent_packets_amount = MAX_PKGS_AMOUNT + 1
            /\ sent_packets_amount \in Nat
        BY <1>t DEF TypeOK
      <4>2. amount' \in IF highest < 2 THEN UndefinedAmounts ELSE 2..highest
        BY <2>10 DEF DrawSequence, Amounts
      <4>3. MAX_PKGS_AMOUNT # -1 => missing >= 2
        BY <1>t, <2>10, <4>1 DEF DrawSequence, Draws, MoreToSend
      <4> HIDE DEF missing
      <4>4. highest \in Int /\ highest <= missing /\ (missing >= 2 => highest >= 2)
        BY <4>1
      <4> HIDE DEF highest
      <4>5. CASE highest < 2
        <5>1. amount' \in UndefinedAmounts
          BY <4>2, <4>5
        <5>2. ~(MAX_PKGS_AMOUNT # -1)
          BY <4>3, <4>4, <4>5
        <5> QED
          BY <5>1, <5>2, SimulatorAssumption
      <4>6. CASE ~(highest < 2)
        BY <4>1, <4>2, <4>4, <4>6
      <4> QED
        BY <4>5, <4>6
    <3>3. TypeOK'
      BY <1>t, <1>k, <2>10, <3>2 DEF DrawSequence, TypeOK, Sends
    <3>4. RoomLeft'
      <4>1. left' = amount' /\ pc' = "sequence" /\ sent_packets_amount' = sent_packets_amount
            /\ sent_packets_amount \in Nat
        BY <1>t, <2>10 DEF DrawSequence, TypeOK
      <4> QED
        <5> SUFFICES ASSUME MAX_PKGS_AMOUNT # -1
                     PROVE  sent_packets_amount + amount' <= MAX_PKGS_AMOUNT + 1
          BY <4>1 DEF RoomLeft
        <5> QED
          BY <3>2
    <3> QED
      BY <3>1, <3>3, <3>4 DEF IInv
  <2>11. CASE SendNextOfSequence
    <3>1. /\ OpenPacketIsLast' /\ PartsStayTogether'
          /\ RecordedWereSent' /\ RecordMatchesWire'
          /\ m_sent_valid_packets' \in Seq(Nat) /\ wire' \in Seq(Sends)
      BY <2>11, SendRecorded DEF SendNextOfSequence, CountPacket
    <3>2. TypeOK' /\ RoomLeft' /\ AtMostOneTooMany'
      BY <1>t, <1>k, <2>11, <3>1
         DEF SendNextOfSequence, CountPacket, TypeOK, RoomLeft, AtMostOneTooMany
    <3> QED
      BY <3>1, <3>2 DEF IInv
  <2>12. CASE EndSequence
    BY <1>t, <1>k, <2>12, QuietStep DEF EndSequence, IInv, TypeOK, RoomLeft, Sends
  <2> QED
    BY <1>k, <2>1, <2>2, <2>3, <2>4, <2>5, <2>6, <2>7, <2>8, <2>9, <2>10, <2>11, <2>12
       DEF process_loop
<1>s. CASE Stop
  BY <1>t, <1>s, QuietStep DEF Stop, IInv, TypeOK, RoomLeft, Sends
<1>u. CASE UNCHANGED vars
  BY <1>t, <1>u, QuietStep DEF vars, IInv, TypeOK, RoomLeft, Sends
<1> QED
  BY <1>k, <1>s, <1>u DEF Next, process_loop

(* The invariant holds in every state.                                     *)
LEMMA Invariance == Spec => []IInv
BY InitIInv, NextIInv, PTL DEF Spec

-----------------------------------------------------------------------------
(* Every variable keeps its range.                                         *)
THEOREM TypeCorrect == Spec => []TypeOK
<1>1. IInv => TypeOK
  BY DEF IInv
<1> QED
  BY <1>1, Invariance, PTL

(* What a call of send adds to the calls of each kind.                     *)
LEMMA SendCounts ==
  ASSUME TypeOK, NEW kind \in {"whole", "first", "second", "corrupted", "garbage"},
         NEW packet \in Nat, send(kind, packet), NEW other
  PROVE  /\ IsFiniteSet(Sent(other)) /\ Cardinality(Sent(other)) \in Nat
         /\ Cardinality(Sent(other))' =
              Cardinality(Sent(other)) + IF other = kind THEN 1 ELSE 0
<1> DEFINE n == Len(wire)
<1>1. n \in Nat /\ DOMAIN wire = 1..n /\ wire \in Seq(Sends)
  BY DEF TypeOK, Sends
<1>2. /\ DOMAIN wire' = 1..(n + 1)
      /\ wire'[n + 1] = [kind |-> kind, packet |-> packet]
      /\ \A k \in 1..n : wire'[k] = wire[k]
  BY <1>1 DEF send, Sends
<1> HIDE DEF n
<1>3. Sent(other)' = IF other = kind THEN Sent(other) \cup {n + 1} ELSE Sent(other)
  <2>1. 1..(n + 1) = (1..n) \cup {n + 1}
    BY <1>1
  <2> QED
    BY <1>1, <1>2, <2>1 DEF Sent
<1>4. IsFiniteSet(Sent(other)) /\ n + 1 \notin Sent(other)
  <2>1. IsFiniteSet(1..n)
    BY <1>1, FS_Interval
  <2>2. Sent(other) \subseteq 1..n /\ n + 1 \notin 1..n
    BY <1>1 DEF Sent
  <2> QED
    BY <2>1, <2>2, FS_Subset
<1>5. Cardinality(Sent(other)) \in Nat
  BY <1>4, FS_CardinalityType
<1>6. Cardinality(Sent(other) \cup {n + 1}) = Cardinality(Sent(other)) + 1
  BY <1>4, FS_AddElement
<1> QED
  BY <1>3, <1>4, <1>5, <1>6

LEMMA CountsAtFirst == Init => CountsMatchWire
<1> SUFFICES ASSUME Init PROVE CountsMatchWire
  OBVIOUS
<1>1. \A kind : Sent(kind) = {}
  BY DEF Init, Sent
<1> QED
  BY <1>1, FS_EmptySet DEF Init, CountsMatchWire

LEMMA CountsStep == IInv /\ CountsMatchWire /\ [Next]_vars => CountsMatchWire'
<1> SUFFICES ASSUME IInv, CountsMatchWire, [Next]_vars PROVE CountsMatchWire'
  OBVIOUS
<1>0. TypeOK /\ NextPacket \in Nat /\ 0 \in Nat
  BY DEF IInv, TypeOK, NextPacket
<1>1. CASE SendWhole \/ SendFirstPart \/ SendNextOfSequence
  <2>1. PICK kind \in {"whole", "first"} : send(kind, NextPacket) /\ UNCHANGED counts
    BY <1>1 DEF SendWhole, SendFirstPart, SendNextOfSequence
  <2> QED
    BY <1>0, <2>1, SendCounts DEF CountsMatchWire, counts
<1>2. CASE SendGarbage
  <2>1. /\ send("garbage", 0)
        /\ m_garbage_sequences_count' = m_garbage_sequences_count + 1
        /\ UNCHANGED <<m_fragmented_packets_count, m_corrupted_packets_count>>
    BY <1>2 DEF SendGarbage
  <2> QED
    BY <1>0, <2>1, SendCounts DEF CountsMatchWire
<1>3. CASE SendSecondPart
  <2>1. /\ send("second", NextPacket)
        /\ m_fragmented_packets_count' = m_fragmented_packets_count + 1
        /\ UNCHANGED <<m_corrupted_packets_count, m_garbage_sequences_count>>
    BY <1>3 DEF SendSecondPart
  <2> QED
    BY <1>0, <2>1, SendCounts DEF CountsMatchWire
<1>4. CASE SendCorrupted
  <2>1. /\ send("corrupted", NextPacket)
        /\ m_corrupted_packets_count' = m_corrupted_packets_count + 1
        /\ UNCHANGED <<m_fragmented_packets_count, m_garbage_sequences_count>>
    BY <1>4 DEF SendCorrupted
  <2> QED
    BY <1>0, <2>1, SendCounts DEF CountsMatchWire
<1>5. CASE GiveUp \/ Connect \/ StartBatch \/ EndBatch \/ DrawSequence \/ EndSequence
           \/ Stop \/ UNCHANGED vars
  <2>1. UNCHANGED <<counts, wire>>
    BY <1>5 DEF GiveUp, Connect, StartBatch, EndBatch, DrawSequence, EndSequence, Stop, vars
  <2> QED
    BY <2>1 DEF CountsMatchWire, Sent, counts
<1> QED
  BY <1>1, <1>2, <1>3, <1>4, <1>5 DEF Next, process_loop

(* The summary main prints agrees with what went over the wire, whatever   *)
(* scenarios are drawn and whenever the program is stopped.                *)
THEOREM SummaryIsTrue == Spec => []SummaryMatchesWire
<1>1. IInv /\ CountsMatchWire => SummaryMatchesWire
  BY DEF IInv, SummaryMatchesWire
<1> QED
  BY <1>1, Invariance, CountsAtFirst, CountsStep, PTL DEF Spec

(* Nothing comes between the two parts of a packet, and no shutdown either.*)
THEOREM PartsAreTogether == Spec => []PartsStayTogether
<1>1. IInv => PartsStayTogether
  BY DEF IInv
<1> QED
  BY <1>1, Invariance, PTL

(* For every limit, at most one packet too many is sent.                   *)
THEOREM LimitKeptButForOne == Spec => []AtMostOneTooMany
<1>1. IInv => AtMostOneTooMany
  BY DEF IInv
<1> QED
  BY <1>1, Invariance, PTL

-----------------------------------------------------------------------------
(* Exclusive or, on bytes and on words of 16 bits.                         *)

(* The values of a register.                                               *)
LEMMA WordRange ==
  /\ \A n \in Crc16 : n \in Nat /\ n <= 65535
  /\ \A n \in Nat : n <= 65535 => n \in Crc16
<1>1. UINT16_MAX \in Nat /\ (\A n \in Nat : n <= 65535 <=> n <= UINT16_MAX)
  BY DEF UINT16_MAX
<1> QED
  BY <1>1 DEF Crc16

(* Inverting a bit of a word yields a word, from which the bit inverted    *)
(* again would restore the first: words that become equal were equal.      *)
LEMMA ToggleIsWord ==
  ASSUME NEW a \in Nat, a <= 65535, NEW place \in {1, 32, 4096}
  PROVE  Toggle(a, place) \in Nat /\ Toggle(a, place) <= 65535
<1>1. CASE place = 1
  <2> Toggle(a, 1) \in Nat /\ Toggle(a, 1) <= 65535
    BY DEF Toggle
  <2> QED
    BY <1>1
<1>2. CASE place = 32
  <2> Toggle(a, 32) \in Nat /\ Toggle(a, 32) <= 65535
    BY DEF Toggle
  <2> QED
    BY <1>2
<1>3. CASE place = 4096
  <2> Toggle(a, 4096) \in Nat /\ Toggle(a, 4096) <= 65535
    BY DEF Toggle
  <2> QED
    BY <1>3
<1> QED
  BY <1>1, <1>2, <1>3

(* Words that become equal were equal.                                     *)
LEMMA ToggleIsInjective ==
  ASSUME NEW a \in Nat, NEW b \in Nat, NEW place \in {1, 32, 4096},
         Toggle(a, place) = Toggle(b, place)
  PROVE  a = b
<1>1. CASE place = 1
  <2>1. Toggle(a, 1) = Toggle(b, 1)
    BY <1>1
  <2> QED
    BY <2>1 DEF Toggle
<1>2. CASE place = 32
  <2>1. Toggle(a, 32) = Toggle(b, 32)
    BY <1>2
  <2> QED
    BY <2>1 DEF Toggle
<1>3. CASE place = 4096
  <2>1. Toggle(a, 4096) = Toggle(b, 4096)
    BY <1>3
  <2> QED
    BY <2>1 DEF Toggle
<1> QED
  BY <1>1, <1>2, <1>3

(* Of the three bits of the polynomial one is the lowest.                  *)
LEMMA ToggleParity ==
  ASSUME NEW a \in Nat
  PROVE  /\ a % 2 = 0 => Toggle(a, 1) % 2 = 1
         /\ Toggle(a, 32) % 2 = a % 2
         /\ Toggle(a, 4096) % 2 = a % 2
<1>1. a % 2 = 0 => Toggle(a, 1) % 2 = 1
  BY DEF Toggle
<1>2. Toggle(a, 32) % 2 = a % 2
  BY DEF Toggle
<1>3. Toggle(a, 4096) % 2 = a % 2
  BY DEF Toggle
<1> QED
  BY <1>1, <1>2, <1>3

(* Subtracting the polynomial forgets nothing.                             *)
LEMMA PolynomialIsInjective ==
  ASSUME NEW a \in Crc16
  PROVE  /\ XorPolynomial(a) \in Crc16
         /\ a % 2 = 0 => XorPolynomial(a) % 2 = 1
         /\ \A b \in Crc16 : XorPolynomial(a) = XorPolynomial(b) => a = b
<1>1. \A c \in Crc16 : /\ Toggle(c, 1) \in Crc16
                       /\ Toggle(Toggle(c, 1), 32) \in Crc16
                       /\ XorPolynomial(c) \in Crc16
  BY ToggleIsWord, WordRange DEF XorPolynomial
<1>2. a % 2 = 0 => XorPolynomial(a) % 2 = 1
  BY <1>1, WordRange, ToggleParity DEF XorPolynomial
<1>3. ASSUME NEW b \in Crc16, XorPolynomial(a) = XorPolynomial(b) PROVE a = b
  <2>1. Toggle(Toggle(a, 1), 32) = Toggle(Toggle(b, 1), 32)
    BY <1>1, <1>3, WordRange, ToggleIsInjective DEF XorPolynomial
  <2>2. Toggle(a, 1) = Toggle(b, 1)
    BY <1>1, <2>1, WordRange, ToggleIsInjective
  <2> QED
    BY <2>2, WordRange, ToggleIsInjective
<1> QED
  BY <1>1, <1>2, <1>3

(* A turn of the inner loop keeps the register a word and forgets nothing: *)
(* after it the lowest bit tells what was shifted out.                     *)
LEMMA ShiftBitCases ==
  ASSUME NEW a \in Crc16
  PROVE  \E low \in Crc16 :
           \/ /\ a < 32768 /\ low = 2 * a
              /\ ShiftBit(a) = low /\ ShiftBit(a) % 2 = 0
           \/ /\ a >= 32768 /\ low = 2 * a - 65536
              /\ ShiftBit(a) = XorPolynomial(low) /\ ShiftBit(a) % 2 = 1
<1> DEFINE low == (2 * a) % 65536
<1>1. a \in Nat /\ a <= 65535
  BY WordRange
<1>2. CASE a < 32768
  <2>1. ShiftBit(a) = 2 * a /\ 2 * a \in Crc16
    <3>1. 2 * a \in Nat /\ 2 * a <= 65535 /\ ~(a >= 32768)
      BY <1>1, <1>2
    <3> QED
      BY <3>1, WordRange DEF ShiftBit
  <2>2. (2 * a) % 2 = 0
    BY <1>1
  <2> QED
    BY <1>2, <2>1, <2>2
<1>3. CASE a >= 32768
  <2>1. low = 2 * a - 65536
    BY <1>1, <1>3
  <2>2. ShiftBit(a) = XorPolynomial(low)
    BY <1>3 DEF ShiftBit
  <2> HIDE DEF low
  <2>3. low \in Crc16 /\ low % 2 = 0
    <3>1. low \in Nat /\ low <= 65535
      BY <1>1, <1>3, <2>1
    <3>2. (2 * a - 65536) % 2 = 0
      BY <1>1
    <3> QED
      BY <2>1, <3>1, <3>2, WordRange
  <2>4. XorPolynomial(low) % 2 = 1
    BY <2>3, PolynomialIsInjective
  <2> QED
    BY <1>3, <2>1, <2>2, <2>3, <2>4
<1> QED
  BY <1>1, <1>2, <1>3

(* Nor does a turn of the inner loop.                                      *)
LEMMA ShiftBitIsInjective ==
  ASSUME NEW a \in Crc16, NEW b \in Crc16
  PROVE  /\ ShiftBit(a) \in Crc16
         /\ ShiftBit(a) = ShiftBit(b) => a = b
<1>1. a \in Nat /\ b \in Nat
  BY WordRange
<1>2. PICK low \in Crc16 :
        \/ a < 32768 /\ low = 2 * a /\ ShiftBit(a) = low /\ ShiftBit(a) % 2 = 0
        \/ /\ a >= 32768 /\ low = 2 * a - 65536
           /\ ShiftBit(a) = XorPolynomial(low) /\ ShiftBit(a) % 2 = 1
  BY ShiftBitCases
<1>3. PICK low2 \in Crc16 :
        \/ b < 32768 /\ low2 = 2 * b /\ ShiftBit(b) = low2 /\ ShiftBit(b) % 2 = 0
        \/ /\ b >= 32768 /\ low2 = 2 * b - 65536
           /\ ShiftBit(b) = XorPolynomial(low2) /\ ShiftBit(b) % 2 = 1
  BY ShiftBitCases
<1>4. ShiftBit(a) \in Crc16
  BY <1>2, PolynomialIsInjective
<1>5. ASSUME ShiftBit(a) = ShiftBit(b) PROVE a = b
  <2>1. CASE ShiftBit(a) % 2 = 0
    BY <1>1, <1>2, <1>3, <1>5, <2>1
  <2>2. CASE ShiftBit(a) % 2 # 0
    <3>1. /\ low = 2 * a - 65536 /\ low2 = 2 * b - 65536
          /\ XorPolynomial(low) = XorPolynomial(low2)
      BY <1>2, <1>3, <1>5, <2>2
    <3>2. low = low2
      BY <3>1, PolynomialIsInjective
    <3> QED
      BY <1>1, <3>1, <3>2
  <2> QED
    BY <2>1, <2>2
<1> QED
  BY <1>4, <1>5

(* Nor do the eight turns for a byte.                                      *)
LEMMA ShiftByteIsInjective ==
  ASSUME NEW a \in Crc16, NEW b \in Crc16
  PROVE  /\ ShiftByte[a] \in Crc16
         /\ ShiftByte[a] = ShiftByte[b] => a = b
<1> DEFINE two(c) == ShiftBit(ShiftBit(c))  four(c) == two(two(c))
<1>1. \A c, d \in Crc16 : two(c) \in Crc16 /\ (two(c) = two(d) => c = d)
  BY ShiftBitIsInjective
<1>2. \A c \in Crc16 : ShiftByte[c] = four(four(c))
  BY DEF ShiftByte
<1> HIDE DEF two
<1>3. \A c, d \in Crc16 : four(c) \in Crc16 /\ (four(c) = four(d) => c = d)
  BY <1>1
<1> HIDE DEF four
<1> QED
  BY <1>2, <1>3

(* A byte is the sum of its bits, and eight bits are told by their sum.    *)
Bit(n, place) == (n \div place) % 2

(* The bits of a byte.                                                     *)
LEMMA ByteIsItsBits ==
  ASSUME NEW n \in Nat, n <= 255
  PROVE  n = Bit(n, 1) + 2 * Bit(n, 2) + 4 * Bit(n, 4) + 8 * Bit(n, 8)
               + 16 * Bit(n, 16) + 32 * Bit(n, 32) + 64 * Bit(n, 64) + 128 * Bit(n, 128)
BY SMTT(60) DEF Bit

(* Exclusive or with a given byte forgets nothing either.                  *)
Differ(a, b, place) == ((a \div place) + (b \div place)) % 2

(* A bit of the exclusive or.                                              *)
LEMMA DifferRange ==
  ASSUME NEW a \in Nat, NEW b \in Nat, NEW place \in Nat \ {0}
  PROVE  Differ(a, b, place) \in 0..1
BY DEF Differ

(* The bit of the sum gives back that of a.                                *)
LEMMA DifferTellsBit ==
  ASSUME NEW a \in Nat, NEW b \in Nat, NEW c \in Nat, NEW place \in Nat \ {0},
         Differ(a, c, place) = Differ(b, c, place)
  PROVE  Bit(a, place) = Bit(b, place)
<1> DEFINE x == a \div place  y == b \div place  z == c \div place
<1>1. x \in Nat /\ y \in Nat /\ z \in Nat
  OBVIOUS
<1>2. (x + z) % 2 = (y + z) % 2
  BY DEF Differ
<1> HIDE DEF x, y, z
<1>3. x % 2 = y % 2
  BY <1>1, <1>2
<1> QED
  BY <1>3 DEF Bit, x, y

(* The exclusive or is the sum of its bits,                                *)
LEMMA XorByteIsSum ==
  ASSUME NEW a \in Nat, NEW b \in Nat
  PROVE  XorByte(a, b) =
           Differ(a, b, 1) + 2 * Differ(a, b, 2) + 4 * Differ(a, b, 4) + 8 * Differ(a, b, 8)
             + 16 * Differ(a, b, 16) + 32 * Differ(a, b, 32)
             + 64 * Differ(a, b, 64) + 128 * Differ(a, b, 128)
BY DifferRange DEF XorByte, Differ

(* a byte again,                                                           *)
LEMMA XorByteIsByte ==
  ASSUME NEW a \in Nat, NEW b \in Nat
  PROVE  XorByte(a, b) \in Nat /\ XorByte(a, b) <= 255
<1>1. /\ Differ(a, b, 1) \in 0..1 /\ Differ(a, b, 2) \in 0..1 /\ Differ(a, b, 4) \in 0..1
      /\ Differ(a, b, 8) \in 0..1 /\ Differ(a, b, 16) \in 0..1 /\ Differ(a, b, 32) \in 0..1
      /\ Differ(a, b, 64) \in 0..1 /\ Differ(a, b, 128) \in 0..1
  BY DifferRange
<1>2. XorByte(a, b) = Differ(a, b, 1) + 2 * Differ(a, b, 2) + 4 * Differ(a, b, 4) + 8 * Differ(a, b, 8)
                         + 16 * Differ(a, b, 16) + 32 * Differ(a, b, 32)
                         + 64 * Differ(a, b, 64) + 128 * Differ(a, b, 128)
  BY XorByteIsSum
<1> QED
  BY <1>1, <1>2

(* the same from both sides,                                               *)
LEMMA XorByteCommutes ==
  ASSUME NEW a \in Nat, NEW b \in Nat
  PROVE  XorByte(a, b) = XorByte(b, a)
<1>1. \A place \in Nat \ {0} : Differ(a, b, place) = Differ(b, a, place)
  BY DEF Differ
<1> QED
  BY <1>1, XorByteIsSum

(* A number of bits tells its lowest bit and the rest.                     *)
LEMMA LowestBitTells ==
  ASSUME NEW p \in 0..1, NEW q \in 0..1, NEW x \in Nat, NEW y \in Nat, p + 2 * x = q + 2 * y
  PROVE  p = q /\ x = y
OBVIOUS

(* The number with these bits.                                             *)
NumberOf(b0, b1, b2, b3, b4, b5, b6, b7) ==
  b0 + 2 * b1 + 4 * b2 + 8 * b3 + 16 * b4 + 32 * b5 + 64 * b6 + 128 * b7

(* Each of them is a bit.                                                  *)
AreBits(b0, b1, b2, b3, b4, b5, b6, b7) ==
  /\ b0 \in 0..1 /\ b1 \in 0..1 /\ b2 \in 0..1 /\ b3 \in 0..1
  /\ b4 \in 0..1 /\ b5 \in 0..1 /\ b6 \in 0..1 /\ b7 \in 0..1

(* A number of eight bits tells each of them, by the lowest one in turn.   *)
LEMMA EightBitsTell ==
  ASSUME NEW p0, NEW p1, NEW p2, NEW p3, NEW p4, NEW p5, NEW p6, NEW p7,
         NEW q0, NEW q1, NEW q2, NEW q3, NEW q4, NEW q5, NEW q6, NEW q7,
         AreBits(p0, p1, p2, p3, p4, p5, p6, p7), AreBits(q0, q1, q2, q3, q4, q5, q6, q7),
         NumberOf(p0, p1, p2, p3, p4, p5, p6, p7) = NumberOf(q0, q1, q2, q3, q4, q5, q6, q7)
  PROVE  /\ p0 = q0 /\ p1 = q1 /\ p2 = q2 /\ p3 = q3
         /\ p4 = q4 /\ p5 = q5 /\ p6 = q6 /\ p7 = q7
<1> /\ p0 \in 0..1 /\ p1 \in 0..1 /\ p2 \in 0..1 /\ p3 \in 0..1
    /\ p4 \in 0..1 /\ p5 \in 0..1 /\ p6 \in 0..1 /\ p7 \in 0..1
    /\ q0 \in 0..1 /\ q1 \in 0..1 /\ q2 \in 0..1 /\ q3 \in 0..1
    /\ q4 \in 0..1 /\ q5 \in 0..1 /\ q6 \in 0..1 /\ q7 \in 0..1
  BY DEF AreBits
<1> PICK pRest6 \in Nat : pRest6 = p6 + 2 * p7
  OBVIOUS
<1> PICK qRest6 \in Nat : qRest6 = q6 + 2 * q7
  OBVIOUS
<1> PICK pRest5 \in Nat : pRest5 = p5 + 2 * pRest6
  OBVIOUS
<1> PICK qRest5 \in Nat : qRest5 = q5 + 2 * qRest6
  OBVIOUS
<1> PICK pRest4 \in Nat : pRest4 = p4 + 2 * pRest5
  OBVIOUS
<1> PICK qRest4 \in Nat : qRest4 = q4 + 2 * qRest5
  OBVIOUS
<1> PICK pRest3 \in Nat : pRest3 = p3 + 2 * pRest4
  OBVIOUS
<1> PICK qRest3 \in Nat : qRest3 = q3 + 2 * qRest4
  OBVIOUS
<1> PICK pRest2 \in Nat : pRest2 = p2 + 2 * pRest3
  OBVIOUS
<1> PICK qRest2 \in Nat : qRest2 = q2 + 2 * qRest3
  OBVIOUS
<1> PICK pRest1 \in Nat : pRest1 = p1 + 2 * pRest2
  OBVIOUS
<1> PICK qRest1 \in Nat : qRest1 = q1 + 2 * qRest2
  OBVIOUS
<1>1. p0 + 2 * pRest1 = q0 + 2 * qRest1
  BY DEF NumberOf
<1>2. p0 = q0 /\ pRest1 = qRest1
  BY <1>1, LowestBitTells
<1>3. p1 + 2 * pRest2 = q1 + 2 * qRest2
  BY <1>2
<1>4. p1 = q1 /\ pRest2 = qRest2
  BY <1>3, LowestBitTells
<1>5. p2 + 2 * pRest3 = q2 + 2 * qRest3
  BY <1>4
<1>6. p2 = q2 /\ pRest3 = qRest3
  BY <1>5, LowestBitTells
<1>7. p3 + 2 * pRest4 = q3 + 2 * qRest4
  BY <1>6
<1>8. p3 = q3 /\ pRest4 = qRest4
  BY <1>7, LowestBitTells
<1>9. p4 + 2 * pRest5 = q4 + 2 * qRest5
  BY <1>8
<1>10. p4 = q4 /\ pRest5 = qRest5
  BY <1>9, LowestBitTells
<1>11. p5 + 2 * pRest6 = q5 + 2 * qRest6
  BY <1>10
<1>12. p5 = q5 /\ pRest6 = qRest6
  BY <1>11, LowestBitTells
<1>13. p6 + 2 * p7 = q6 + 2 * q7
  BY <1>12
<1>14. p6 = q6 /\ p7 = q7
  BY <1>13, LowestBitTells
<1> QED
  BY <1>2, <1>4, <1>6, <1>8, <1>10, <1>12, <1>14

(* XorByte is one to one in each side.                                     *)
LEMMA XorByteIsInjective ==
  ASSUME NEW a \in Nat, a <= 255, NEW b \in Nat, b <= 255, NEW c \in Nat,
         XorByte(a, c) = XorByte(b, c)
  PROVE  a = b
<1>1. /\ AreBits(Differ(a, c, 1), Differ(a, c, 2), Differ(a, c, 4), Differ(a, c, 8),
               Differ(a, c, 16), Differ(a, c, 32), Differ(a, c, 64), Differ(a, c, 128))
      /\ AreBits(Differ(b, c, 1), Differ(b, c, 2), Differ(b, c, 4), Differ(b, c, 8),
               Differ(b, c, 16), Differ(b, c, 32), Differ(b, c, 64), Differ(b, c, 128))
  BY DifferRange DEF AreBits
<1>2. NumberOf(Differ(a, c, 1), Differ(a, c, 2), Differ(a, c, 4), Differ(a, c, 8),
               Differ(a, c, 16), Differ(a, c, 32), Differ(a, c, 64), Differ(a, c, 128))
        = NumberOf(Differ(b, c, 1), Differ(b, c, 2), Differ(b, c, 4), Differ(b, c, 8),
               Differ(b, c, 16), Differ(b, c, 32), Differ(b, c, 64), Differ(b, c, 128))
  BY XorByteIsSum DEF NumberOf
<1>3. /\ Differ(a, c, 1) = Differ(b, c, 1) /\ Differ(a, c, 2) = Differ(b, c, 2)
      /\ Differ(a, c, 4) = Differ(b, c, 4) /\ Differ(a, c, 8) = Differ(b, c, 8)
      /\ Differ(a, c, 16) = Differ(b, c, 16) /\ Differ(a, c, 32) = Differ(b, c, 32)
      /\ Differ(a, c, 64) = Differ(b, c, 64) /\ Differ(a, c, 128) = Differ(b, c, 128)
  BY <1>1, <1>2, EightBitsTell
<1>4. \A place \in Nat \ {0} :
         Differ(a, c, place) = Differ(b, c, place) => Bit(a, place) = Bit(b, place)
  BY DifferTellsBit
<1>5. /\ Bit(a, 1) = Bit(b, 1) /\ Bit(a, 2) = Bit(b, 2) /\ Bit(a, 4) = Bit(b, 4)
      /\ Bit(a, 8) = Bit(b, 8) /\ Bit(a, 16) = Bit(b, 16) /\ Bit(a, 32) = Bit(b, 32)
      /\ Bit(a, 64) = Bit(b, 64) /\ Bit(a, 128) = Bit(b, 128)
  BY <1>3, <1>4
<1> QED
  BY <1>5, ByteIsItsBits

-----------------------------------------------------------------------------
(* The loops of calculate_crc16, by induction over the bytes: a set of     *)
(* numbers that holds 0 and each successor holds them all, since the least *)
(* number it lacks would have a predecessor.                               *)
Before == {pair \in Nat \X Nat : pair[1] < pair[2]}

(* The order of the natural numbers, as a set of pairs.                    *)
LEMMA BeforeIsWellFounded == IsWellFoundedOn(Before, Nat)
BY NatLessThanWellFounded DEF OpToRel, Before

(* Induction, of a set instead of a predicate.                             *)
LEMMA InductionOnSet ==
  ASSUME NEW T, 0 \in T, \A n \in Nat : n \in T => n + 1 \in T
  PROVE  Nat \subseteq T
<1> SUFFICES ASSUME Nat \ T # {} PROVE FALSE
  OBVIOUS
<1>1. PICK x \in Nat \ T : \A y \in Nat \ T : ~(<<y, x>> \in Before)
  BY BeforeIsWellFounded, WFMin
<1>2. x \in Nat /\ x - 1 \in Nat
  BY <1>1
<1>3. <<x - 1, x>> \in Before
  BY <1>2 DEF Before
<1>4. x - 1 \in T
  BY <1>1, <1>2, <1>3
<1> QED
  BY <1>1, <1>2, <1>4

(* One turn of the outer loop.                                             *)
Turn ==
  [crc \in Crc16 |->
     [byte \in 0..255 |-> ShiftByte[256 * XorByte(crc \div 256, byte) + (crc % 256)]]]

AddByte(crc, byte) == Turn[crc][byte]

(* The register after each byte.                                           *)
Registers(f, bytes) ==
  f = [k \in 0..Len(bytes) |-> IF k = 0 THEN InitialCrc ELSE AddByte(f[k - 1], bytes[k])]

(* The checksum is the register after the last byte.                       *)
LEMMA CrcIsLastRegister ==
  ASSUME NEW bytes
  PROVE  calculate_crc16(bytes) = (CHOOSE f : Registers(f, bytes))[Len(bytes)]
BY DEF calculate_crc16, Registers, AddByte, Turn

(* A turn is a function of the register and the byte, one to one in each.  *)
LEMMA TurnIsInjective ==
  ASSUME NEW a \in Crc16, NEW x \in Format!Byte
  PROVE  /\ AddByte(a, x) \in Crc16
         /\ \A b \in Crc16 : AddByte(a, x) = AddByte(b, x) => a = b
         /\ \A y \in Format!Byte : AddByte(a, x) = AddByte(a, y) => x = y
<1> DEFINE word(c, z) == 256 * XorByte(c \div 256, z) + (c % 256)
<1>1. \A c \in Crc16, z \in Format!Byte : AddByte(c, z) = ShiftByte[word(c, z)]
  BY DEF AddByte, Turn, Format!Byte
<1>2. \A z \in Format!Byte : z \in Nat /\ z <= 255
  BY DEF Format!Byte
<1>3. \A c \in Crc16 : c \in Nat /\ c <= 65535
  BY WordRange
<1>4. ASSUME NEW c \in Nat, c <= 65535
      PROVE  /\ c \div 256 \in Nat /\ c \div 256 <= 255
             /\ c % 256 \in Nat /\ c % 256 <= 255
             /\ c = 256 * (c \div 256) + (c % 256)
  BY <1>4
<1>5. ASSUME NEW c \in Crc16, NEW z \in Format!Byte PROVE word(c, z) \in Crc16
  <2> DEFINE h == c \div 256  l == c % 256
  <2>1. h \in Nat /\ l \in Nat /\ l <= 255
    BY <1>3, <1>4
  <2> HIDE DEF h, l
  <2>2. XorByte(h, z) \in Nat /\ XorByte(h, z) <= 255
    BY <1>2, <2>1, XorByteIsByte
  <2>3. 256 * XorByte(h, z) + l \in Nat /\ 256 * XorByte(h, z) + l <= 65535
    BY <2>1, <2>2
  <2> QED
    BY <2>3, WordRange DEF h, l
<1>6. ASSUME NEW b \in Crc16, NEW y \in Format!Byte, word(a, x) = word(b, y), x = y \/ a = b
      PROVE  a = b /\ x = y
  <2> DEFINE h == a \div 256  l == a % 256  hh == b \div 256  ll == b % 256
  <2>1. /\ h \in Nat /\ h <= 255 /\ l \in Nat /\ l <= 255 /\ a = 256 * h + l
        /\ hh \in Nat /\ hh <= 255 /\ ll \in Nat /\ ll <= 255 /\ b = 256 * hh + ll
    BY <1>3, <1>4
  <2>2. 256 * XorByte(h, x) + l = 256 * XorByte(hh, y) + ll
    BY <1>6
  <2> HIDE DEF h, l, hh, ll
  <2>3. XorByte(h, x) \in Nat /\ XorByte(hh, y) \in Nat
    BY <1>2, <2>1, XorByteIsByte
  <2>4. XorByte(h, x) = XorByte(hh, y) /\ l = ll
    BY <2>1, <2>2, <2>3
  <2>5. CASE x = y
    <3>1. h = hh
      BY <1>2, <2>1, <2>4, <2>5, XorByteIsInjective
    <3> QED
      BY <2>1, <2>4, <2>5, <3>1
  <2>6. CASE a = b
    <3>1. h = hh
      BY <2>1, <2>4, <2>6
    <3>2. XorByte(x, h) = XorByte(y, h)
      BY <1>2, <2>1, <2>4, <3>1, XorByteCommutes
    <3> QED
      BY <1>2, <2>1, <2>6, <3>2, XorByteIsInjective
  <2> QED
    BY <1>6, <2>5, <2>6
<1> HIDE DEF word
<1>7. AddByte(a, x) \in Crc16
  BY <1>1, <1>5, ShiftByteIsInjective
<1>8. \A b \in Crc16, y \in Format!Byte : AddByte(a, x) = AddByte(b, y) => word(a, x) = word(b, y)
  BY <1>1, <1>5, ShiftByteIsInjective
<1> QED
  BY <1>6, <1>7, <1>8

(* The register starts as a word.                                          *)
LEMMA InitialCrcIsWord == InitialCrc \in Crc16
BY WordRange DEF InitialCrc

(* The recursive definition of the register has a solution, whose values   *)
(* are words.                                                              *)
LEMMA RegistersExist ==
  ASSUME NEW bytes \in Seq(Format!Byte)
  PROVE  \E f \in [0..Len(bytes) -> Crc16] :
           /\ f[0] = InitialCrc
           /\ \A k \in 1..Len(bytes) : f[k] = AddByte(f[k - 1], bytes[k])
<1> DEFINE Solves(f, n) == /\ f \in [0..n -> Crc16]
                           /\ f[0] = InitialCrc
                           /\ \A k \in 1..n : f[k] = AddByte(f[k - 1], bytes[k])
           T == {n \in Nat : n <= Len(bytes) => \E f : Solves(f, n)}
<1>1. Len(bytes) \in Nat /\ \A k \in 1..Len(bytes) : bytes[k] \in Format!Byte
  OBVIOUS
<1>2. 0 \in T
  <2> DEFINE f == [k \in 0..0 |-> InitialCrc]
  <2>1. Solves(f, 0)
    BY InitialCrcIsWord
  <2> QED
    BY <2>1
<1>3. ASSUME NEW n \in Nat, n \in T PROVE n + 1 \in T
  <2> SUFFICES ASSUME n + 1 <= Len(bytes) PROVE \E f : Solves(f, n + 1)
    OBVIOUS
  <2>1. PICK f : Solves(f, n)
    BY <1>1, <1>3
  <2> DEFINE g == [k \in 0..(n + 1) |-> IF k <= n THEN f[k] ELSE AddByte(f[n], bytes[n + 1])]
  <2>2. f[n] \in Crc16 /\ bytes[n + 1] \in Format!Byte
    BY <1>1, <2>1
  <2>3. AddByte(f[n], bytes[n + 1]) \in Crc16
    BY <2>2, TurnIsInjective
  <2>4. g \in [0..(n + 1) -> Crc16] /\ g[0] = InitialCrc
    BY <2>1, <2>3
  <2>5. \A k \in 1..(n + 1) : g[k] = AddByte(g[k - 1], bytes[k])
    <3> TAKE k \in 1..(n + 1)
    <3>1. CASE k <= n
      <4>1. k \in 1..n /\ g[k] = f[k] /\ g[k - 1] = f[k - 1]
        BY <3>1
      <4> QED
        BY <2>1, <4>1
    <3>2. CASE k = n + 1
      <4>1. g[k] = AddByte(f[n], bytes[n + 1]) /\ g[k - 1] = f[n]
        BY <3>2
      <4> QED
        BY <3>2, <4>1
    <3> QED
      BY <3>1, <3>2
  <2> QED
    BY <2>4, <2>5
<1> HIDE DEF T
<1>4. Len(bytes) \in T
  BY <1>1, <1>2, <1>3, InductionOnSet
<1> QED
  BY <1>4 DEF T

(* What the loops compute: a word, from a register for each prefix.        *)
LEMMA CrcOfBytes ==
  ASSUME NEW bytes \in Seq(Format!Byte)
  PROVE  \E f \in [0..Len(bytes) -> Crc16] :
           /\ f[0] = InitialCrc
           /\ \A k \in 1..Len(bytes) : f[k] = AddByte(f[k - 1], bytes[k])
           /\ calculate_crc16(bytes) = f[Len(bytes)]
<1> DEFINE N == Len(bytes)
           r == CHOOSE f : Registers(f, bytes)
<1>1. N \in Nat
  OBVIOUS
<1>2. PICK f \in [0..N -> Crc16] :
        f[0] = InitialCrc /\ \A k \in 1..N : f[k] = AddByte(f[k - 1], bytes[k])
  BY RegistersExist
<1>3. Registers(f, bytes)
  BY <1>1, <1>2 DEF Registers
<1>4. Registers(r, bytes)
  BY <1>3
<1> HIDE DEF r
<1>5. /\ r[0] = InitialCrc
      /\ \A k \in 1..N : r[k] = AddByte(r[k - 1], bytes[k])
  BY <1>1, <1>4 DEF Registers
<1>6. \A n \in Nat : n <= N => r[n] = f[n]
  <2> DEFINE T == {n \in Nat : n <= N => r[n] = f[n]}
  <2>1. 0 \in T
    BY <1>2, <1>5
  <2>2. ASSUME NEW n \in Nat, n \in T PROVE n + 1 \in T
    BY <1>1, <1>2, <1>5, <2>2
  <2> HIDE DEF T
  <2>3. Nat \subseteq T
    BY <2>1, <2>2, InductionOnSet
  <2> QED
    BY <2>3 DEF T
<1>7. calculate_crc16(bytes) = f[N]
  BY <1>1, <1>6, CrcIsLastRegister DEF r
<1> QED
  BY <1>2, <1>7

(* A checksum fits in its two bytes, whatever it is of.                    *)
LEMMA CrcIsWord ==
  ASSUME NEW bytes \in Seq(Format!Byte)
  PROVE  calculate_crc16(bytes) \in Crc16
<1>1. Len(bytes) \in Nat
  OBVIOUS
<1> QED
  BY <1>1, CrcOfBytes

(* Strings that differ in one byte have different checksums: the registers *)
(* are equal up to that byte and differ from then on.                      *)
THEOREM OneByteChangesCrc ==
  ASSUME NEW s \in Seq(Format!Byte), NEW u \in Seq(Format!Byte), Len(s) = Len(u),
         NEW at \in 1..Len(s), s[at] # u[at],
         \A k \in 1..Len(s) : k # at => s[k] = u[k]
  PROVE  calculate_crc16(s) # calculate_crc16(u)
<1> DEFINE N == Len(s)
<1>1. N \in Nat /\ \A k \in 1..N : s[k] \in Format!Byte /\ u[k] \in Format!Byte
  OBVIOUS
<1>2. PICK f \in [0..N -> Crc16] :
        /\ f[0] = InitialCrc
        /\ \A k \in 1..N : f[k] = AddByte(f[k - 1], s[k])
        /\ calculate_crc16(s) = f[N]
  BY CrcOfBytes
<1>3. PICK g \in [0..N -> Crc16] :
        /\ g[0] = InitialCrc
        /\ \A k \in 1..N : g[k] = AddByte(g[k - 1], u[k])
        /\ calculate_crc16(u) = g[N]
  BY CrcOfBytes
<1>a. /\ \A c \in Crc16 : \A x, y \in Format!Byte : AddByte(c, x) = AddByte(c, y) => x = y
      /\ \A c, d \in Crc16 : \A x \in Format!Byte : AddByte(c, x) = AddByte(d, x) => c = d
  BY TurnIsInjective
<1> DEFINE T == {n \in Nat : n <= N => (f[n] = g[n] <=> n < at)}
<1>4. 0 \in T
  BY <1>2, <1>3
<1>5. ASSUME NEW n \in Nat, n \in T PROVE n + 1 \in T
  <2> SUFFICES ASSUME n + 1 <= N PROVE f[n + 1] = g[n + 1] <=> n + 1 < at
    OBVIOUS
  <2>1. /\ f[n] = g[n] <=> n < at
        /\ n + 1 \in 1..N /\ n \in 0..N
    BY <1>1, <1>5
  <2>2. /\ f[n + 1] = AddByte(f[n], s[n + 1]) /\ g[n + 1] = AddByte(g[n], u[n + 1])
        /\ f[n] \in Crc16 /\ g[n] \in Crc16
        /\ s[n + 1] \in Format!Byte /\ u[n + 1] \in Format!Byte
    <3> PICK m \in 1..N : m = n + 1 /\ m - 1 = n
      BY <2>1
    <3>1. f[m] = AddByte(f[m - 1], s[m]) /\ f[m - 1] \in Crc16
      BY <1>2, <2>1
    <3>2. g[m] = AddByte(g[m - 1], u[m]) /\ g[m - 1] \in Crc16
      BY <1>3, <2>1
    <3>3. s[m] \in Format!Byte /\ u[m] \in Format!Byte
      BY <1>1
    <3> QED
      BY <3>1, <3>2, <3>3
  <2>3. CASE n + 1 < at
    BY <2>1, <2>2, <2>3
  <2>4. CASE n + 1 = at
    <3>1. f[n] = g[n] /\ s[n + 1] # u[n + 1]
      BY <2>1, <2>4
    <3>2. AddByte(f[n], s[n + 1]) # AddByte(f[n], u[n + 1])
      BY <1>a, <2>2, <3>1
    <3>3. ~(n + 1 < at)
      BY <2>4
    <3> QED
      BY <2>2, <3>1, <3>2, <3>3
  <2>5. CASE n + 1 > at
    <3>1. f[n] # g[n] /\ s[n + 1] = u[n + 1]
      BY <2>1, <2>5
    <3>2. AddByte(f[n], s[n + 1]) # AddByte(g[n], s[n + 1])
      BY <1>a, <2>2, <3>1
    <3>3. ~(n + 1 < at)
      BY <2>5
    <3> QED
      BY <2>2, <3>1, <3>2, <3>3
  <2> QED
    BY <2>3, <2>4, <2>5
<1> HIDE DEF T
<1>6. N \in T
  BY <1>1, <1>4, <1>5, InductionOnSet
<1> QED
  BY <1>1, <1>2, <1>3, <1>6 DEF T

-----------------------------------------------------------------------------
(* The bytes of a packet: which strings are where in which strings.        *)
Bytes == Seq(Format!Byte)

(* The string u is in s, behind its first bytes.                           *)
Holds(s, first, u) ==
  /\ s \in Bytes /\ u \in Bytes
  /\ first \in Nat /\ first + Len(u) <= Len(s)
  /\ \A k \in Nat : 1 <= k /\ k <= Len(u) => s[first + k] = u[k]

(* A string of n bytes.                                                    *)
Sized(s, n) == s \in Bytes /\ Len(s) = n

(* The values of a byte.                                                   *)
LEMMA ByteRange ==
  /\ \A x \in Format!Byte : x \in Nat /\ x <= 255
  /\ \A x \in Nat : x <= 255 => x \in Format!Byte
BY DEF Format!Byte

(* A string of bytes.                                                      *)
LEMMA BytesShape ==
  ASSUME NEW s \in Bytes
  PROVE  Len(s) \in Nat /\ \A k \in Nat : 1 <= k /\ k <= Len(s) => s[k] \in Format!Byte
BY DEF Bytes

(* A concatenation holds its parts.                                        *)
LEMMA JoinedHolds ==
  ASSUME NEW s \in Bytes, NEW u \in Bytes
  PROVE  /\ s \o u \in Bytes /\ Len(s \o u) = Len(s) + Len(u)
         /\ Holds(s \o u, 0, s) /\ Holds(s \o u, Len(s), u)
<1> DEFINE p == Len(s)  q == Len(u)  j == s \o u
<1>1. p \in Nat /\ q \in Nat
  BY BytesShape
<1>2. /\ j \in Bytes /\ Len(j) = p + q
      /\ \A k \in 1..(p + q) : j[k] = IF k <= p THEN s[k] ELSE u[k - p]
  BY ConcatProperties DEF Bytes
<1> HIDE DEF j
<1>3. ASSUME NEW k \in Nat, 1 <= k, k <= p PROVE j[0 + k] = s[k]
  BY <1>1, <1>2, <1>3
<1>4. ASSUME NEW k \in Nat, 1 <= k, k <= q PROVE j[p + k] = u[k]
  <2>1. p + k \in 1..(p + q) /\ ~(p + k <= p) /\ (p + k) - p = k
    BY <1>1, <1>4
  <2> QED
    BY <1>2, <2>1
<1>5. 0 + p <= p + q /\ p + q <= p + q
  BY <1>1
<1> QED
  BY <1>1, <1>2, <1>3, <1>4, <1>5 DEF Holds, j

(* What a part holds, the whole holds.                                     *)
LEMMA HoldsWithin ==
  ASSUME NEW s, NEW u, NEW v, NEW f \in Nat, NEW g \in Nat, Holds(s, f, u), Holds(u, g, v),
         NEW h \in Nat, h = f + g
  PROVE  Holds(s, h, v)
<1> DEFINE n == Len(v)
<1>1. /\ f \in Nat /\ g \in Nat /\ n \in Nat /\ Len(u) \in Nat /\ Len(s) \in Nat
      /\ f + Len(u) <= Len(s) /\ g + n <= Len(u)
  BY BytesShape DEF Holds
<1>2. ASSUME NEW k \in Nat, 1 <= k, k <= n PROVE s[h + k] = v[k]
  <2>1. g + k \in Nat /\ 1 <= g + k /\ g + k <= Len(u) /\ h + k = f + (g + k)
    BY <1>1, <1>2
  <2>2. s[f + (g + k)] = u[g + k]
    BY <2>1 DEF Holds
  <2>3. u[g + k] = v[k]
    BY <1>2 DEF Holds
  <2> QED
    BY <2>1, <2>2, <2>3
<1>3. h \in Nat /\ h + n <= Len(s)
  BY <1>1
<1> QED
  BY <1>2, <1>3 DEF Holds

(* So does a string that begins with the whole.                            *)
LEMMA HoldsInPrefix ==
  ASSUME NEW s, NEW u, NEW v, NEW g \in Nat, Holds(s, 0, u), Holds(u, g, v)
  PROVE  Holds(s, g, v)
BY HoldsWithin

(* Cut out at its place, a part is itself.  Cut is SubSeq by a name.       *)
Cut(s, low, high) == SubSeq(s, low, high)

(* So it is if its end is given by its size.                               *)
LEMMA CutOut ==
  ASSUME NEW s, NEW u, NEW f \in Nat, NEW n \in Nat, Holds(s, f, u), Sized(u, n),
         NEW low \in Nat, NEW high \in Nat, low = f + 1, high = f + n
  PROVE  Cut(s, low, high) = u
<1> DEFINE part == SubSeq(s, low, high)
<1>0. n = Len(u)
  BY DEF Sized
<1>1. /\ f \in Nat /\ n \in Nat /\ Len(s) \in Nat /\ f + n <= Len(s)
      /\ u \in Bytes /\ s \in Bytes
  BY <1>0, BytesShape DEF Holds
<1>2. \A k \in low..high : s[k] \in Format!Byte
  BY <1>1, BytesShape
<1>3. /\ part \in Bytes
      /\ Len(part) = IF low <= high THEN high - low + 1 ELSE 0
      /\ \A k \in 1..(high - low + 1) : part[k] = s[low + k - 1]
  BY <1>1, <1>2, SubSeqProperties DEF Bytes
<1> HIDE DEF part
<1>4. Len(part) = n
  BY <1>1, <1>3
<1>5. ASSUME NEW k \in 1..n PROVE part[k] = u[k]
  <2>1. k \in 1..(high - low + 1) /\ low + k - 1 = f + k /\ 1 <= k /\ k <= n /\ k \in Nat
    BY <1>1
  <2>2. s[f + k] = u[k]
    BY <1>0, <2>1 DEF Holds
  <2> QED
    BY <1>3, <2>1, <2>2
<1>6. part = u
  BY <1>0, <1>1, <1>3, <1>4, <1>5, SeqEqual DEF Bytes
<1> QED
  BY <1>6 DEF part, Cut

(* A view holds what the buffer holds behind the place it begins at.       *)
LEMMA ViewHolds ==
  ASSUME NEW s, NEW u, NEW f \in Nat, Holds(s, f, u), NEW low \in Nat, low = f + 1
  PROVE  Holds(SubSeq(s, low, Len(s)), 0, u)
<1> DEFINE view == SubSeq(s, low, Len(s))  n == Len(u)  N == Len(s)
<1>1. f \in Nat /\ n \in Nat /\ N \in Nat /\ f + n <= N /\ u \in Bytes /\ s \in Bytes
  BY BytesShape DEF Holds
<1>2. \A k \in low..N : s[k] \in Format!Byte
  BY <1>1, BytesShape
<1>3. /\ view \in Bytes
      /\ Len(view) = IF low <= N THEN N - low + 1 ELSE 0
      /\ \A k \in 1..(N - low + 1) : view[k] = s[low + k - 1]
  BY <1>1, <1>2, SubSeqProperties DEF Bytes
<1> HIDE DEF view
<1>4. 0 + n <= Len(view)
  BY <1>1, <1>3
<1>5. ASSUME NEW k \in Nat, 1 <= k, k <= n PROVE view[0 + k] = u[k]
  <2>1. k \in 1..(N - low + 1) /\ low + k - 1 = f + k /\ 0 + k = k
    BY <1>1, <1>5
  <2>2. s[f + k] = u[k]
    BY <1>5 DEF Holds
  <2> QED
    BY <1>3, <2>1, <2>2
<1>6. Holds(view, 0, u)
  BY <1>1, <1>3, <1>4, <1>5 DEF Holds
<1> QED
  BY <1>6 DEF view

(* The fields of struct TelemetryData.                                     *)
LEMMA Sizes == NUMBERS = 5 /\ NUMBER_SIZE = 8
BY DEF NUMBERS, NUMBER_SIZE

(* A number is a string of its bytes,                                      *)
LEMMA NumberIsString ==
  ASSUME NEW number \in [1..NUMBER_SIZE -> Format!Byte]
  PROVE  number \in Bytes /\ Len(number) = NUMBER_SIZE
<1>1. \A n \in Nat : number \in [1..n -> Format!Byte] =>
                      number \in Seq(Format!Byte) /\ Len(number) = n
  OBVIOUS
<1>2. NUMBER_SIZE \in Nat
  BY Sizes
<1> QED
  BY <1>1, <1>2 DEF Bytes

Numbers == [1..NUMBERS -> [1..NUMBER_SIZE -> Format!Byte]]

(* and there are five of them.                                             *)
LEMMA NumbersShape ==
  ASSUME NEW numbers \in Numbers
  PROVE  /\ Sized(numbers[1], 8) /\ Sized(numbers[2], 8) /\ Sized(numbers[3], 8)
         /\ Sized(numbers[4], 8) /\ Sized(numbers[5], 8)
BY Sizes, NumberIsString DEF Numbers, Sized

(* A concatenation of strings whose sizes are known.                       *)
LEMMA JoinedSized ==
  ASSUME NEW s, NEW u, NEW p \in Nat, NEW q \in Nat, Sized(s, p), Sized(u, q),
         NEW n \in Nat, n = p + q
  PROVE  Sized(s \o u, n) /\ Holds(s \o u, 0, s) /\ Holds(s \o u, p, u)
BY JoinedHolds DEF Sized

(* The numbers of a packet follow each other.                              *)
LEMMA RawBytesShape ==
  ASSUME NEW numbers \in Numbers
  PROVE  /\ Sized(RawBytes(numbers), 40)
         /\ Holds(RawBytes(numbers), 0, numbers[1])
         /\ Holds(RawBytes(numbers), 8, numbers[2])
         /\ Holds(RawBytes(numbers), 16, numbers[3])
         /\ Holds(RawBytes(numbers), 24, numbers[4])
         /\ Holds(RawBytes(numbers), 32, numbers[5])
<1> DEFINE a == numbers[1]  b == numbers[2]  c == numbers[3]
           d == numbers[4]  e == numbers[5]
           j2 == a \o b  j3 == j2 \o c  j4 == j3 \o d  j5 == j4 \o e
<1>1. RawBytes(numbers) = j5
  BY DEF RawBytes
<1>2. Sized(a, 8) /\ Sized(b, 8) /\ Sized(c, 8) /\ Sized(d, 8) /\ Sized(e, 8)
  BY NumbersShape
<1> HIDE DEF a, b, c, d, e
<1>3. Sized(j2, 16) /\ Holds(j2, 0, a) /\ Holds(j2, 8, b)
  BY <1>2, 16 = 8 + 8, JoinedSized
<1> HIDE DEF j2
<1>4. Sized(j3, 24) /\ Holds(j3, 0, j2) /\ Holds(j3, 16, c)
  BY <1>2, <1>3, 24 = 16 + 8, JoinedSized
<1> HIDE DEF j3
<1>5. Sized(j4, 32) /\ Holds(j4, 0, j3) /\ Holds(j4, 24, d)
  BY <1>2, <1>4, 32 = 24 + 8, JoinedSized
<1> HIDE DEF j4
<1>6. Sized(j5, 40) /\ Holds(j5, 0, j4) /\ Holds(j5, 32, e)
  BY <1>2, <1>5, 40 = 32 + 8, JoinedSized
<1> HIDE DEF j5
<1>7. Holds(j5, 24, d) /\ Holds(j5, 0, j3)
  BY <1>5, <1>6, HoldsInPrefix
<1>8. Holds(j5, 16, c) /\ Holds(j5, 0, j2)
  BY <1>4, <1>7, HoldsInPrefix
<1>9. Holds(j5, 0, a) /\ Holds(j5, 8, b)
  BY <1>3, <1>8, HoldsInPrefix
<1> QED
  BY <1>1, <1>6, <1>7, <1>8, <1>9 DEF a, b, c, d, e

(* The telemetry that can be sent: one byte holds the identifier's length. *)
Sendable == {t \in TelemetryData : Len(t.drone_id) <= 255}

(* Its fields.                                                             *)
LEMMA SendableFields ==
  ASSUME NEW t \in Sendable
  PROVE  /\ t = [drone_id |-> t.drone_id, numbers |-> t.numbers]
         /\ t.drone_id \in Bytes
         /\ Len(t.drone_id) \in Nat /\ Len(t.drone_id) <= 255
         /\ t.numbers \in Numbers
<1>1. t \in [drone_id : Bytes, numbers : Numbers]
      /\ Len(t.drone_id) <= 255
  BY DEF Sendable, TelemetryData, Numbers, Bytes
<1> QED
  BY <1>1, BytesShape

(* A byte is its own low byte.                                             *)
LEMMA Remainder256 == \A n \in Nat : n <= 255 => n % 256 = n
OBVIOUS

(* A string of one byte.                                                   *)
LEMMA OneByte ==
  ASSUME NEW x \in Format!Byte
  PROVE  Sized(<<x>>, 1) /\ <<x>>[1] = x
BY DEF Sized, Bytes

Payload(t) == serialize_telemetry_data_to_bytes_sequence(t)

(* The payload: the length of the identifier, the identifier, the numbers. *)
LEMMA PayloadShape ==
  ASSUME NEW t \in Sendable, NEW size \in Nat, size = Len(t.drone_id)
  PROVE  /\ Sized(Payload(t), size + 41)
         /\ Payload(t)[1] = size
         /\ Holds(Payload(t), 1, t.drone_id)
         /\ Holds(Payload(t), size + 1, t.numbers[1])
         /\ Holds(Payload(t), size + 9, t.numbers[2])
         /\ Holds(Payload(t), size + 17, t.numbers[3])
         /\ Holds(Payload(t), size + 25, t.numbers[4])
         /\ Holds(Payload(t), size + 33, t.numbers[5])
<1> DEFINE id == t.drone_id  raw == RawBytes(t.numbers)
           one == <<size>>  front == one \o id  payload == Payload(t)
<1>1. size <= 255 /\ Sized(id, size) /\ t.numbers \in Numbers
  BY SendableFields DEF Sized
<1>2. /\ Sized(raw, 40)
      /\ Holds(raw, 0, t.numbers[1]) /\ Holds(raw, 8, t.numbers[2])
      /\ Holds(raw, 16, t.numbers[3]) /\ Holds(raw, 24, t.numbers[4])
      /\ Holds(raw, 32, t.numbers[5])
  BY <1>1, RawBytesShape
<1>3. payload = front \o raw
  BY <1>1, Remainder256 DEF Payload, serialize_telemetry_data_to_bytes_sequence
<1>4. Sized(one, 1) /\ one[1] = size
  BY <1>1, ByteRange, OneByte
<1> HIDE DEF raw, id, one, payload
<1> PICK p \in Nat : p = 1 + size
  OBVIOUS
<1> PICK n \in Nat : n = p + 40
  OBVIOUS
<1>5. Sized(front, p) /\ Holds(front, 0, one) /\ Holds(front, 1, id)
  BY <1>1, <1>4, JoinedSized
<1> HIDE DEF front
<1>6. Sized(payload, n) /\ Holds(payload, 0, front) /\ Holds(payload, p, raw)
  BY <1>2, <1>3, <1>5, JoinedSized
<1>7. payload[1] = size
  <2>1. Holds(payload, 0, one)
    BY <1>5, <1>6, HoldsInPrefix
  <2>2. payload[0 + 1] = one[1]
    BY <1>4, <2>1 DEF Holds, Sized
  <2> QED
    BY <1>4, <2>2
<1>8. Holds(payload, 1, id)
  BY <1>5, <1>6, HoldsInPrefix
<1>9. ASSUME NEW g \in Nat, NEW v, Holds(raw, g, v) PROVE Holds(payload, p + g, v)
  <2> PICK h \in Nat : h = p + g
    OBVIOUS
  <2>1. Holds(payload, h, v)
    BY <1>6, <1>9, HoldsWithin
  <2> QED
    BY <2>1
<1>10. /\ Holds(payload, p + 0, t.numbers[1]) /\ Holds(payload, p + 8, t.numbers[2])
       /\ Holds(payload, p + 16, t.numbers[3]) /\ Holds(payload, p + 24, t.numbers[4])
       /\ Holds(payload, p + 32, t.numbers[5])
  BY <1>2, <1>9
<1>11. /\ p + 0 = size + 1 /\ n = size + 41 /\ p + 8 = size + 9 /\ p + 16 = size + 17
       /\ p + 24 = size + 25 /\ p + 32 = size + 33
  OBVIOUS
<1> QED
  BY <1>6, <1>7, <1>8, <1>10, <1>11 DEF id, payload

(* Whatever follows a payload that was built, the reader returns what was  *)
(* put into it, from as many bytes as it has.                              *)
LEMMA ReadBack ==
  ASSUME NEW t \in Sendable, NEW view, Holds(view, 0, Payload(t))
  PROVE  deserialize_payload(view) = t /\ BytesRead(view) = Len(Payload(t))
<1> DEFINE id == t.drone_id  numbers == t.numbers
<1> PICK size \in Nat : size = Len(id)
  BY SendableFields
<1> DEFINE end(n) == 1 + size + n * NUMBER_SIZE
           number(n) == Cut(view, end(n - 1) + 1, end(n))
<1>1. /\ numbers \in Numbers /\ t = [drone_id |-> id, numbers |-> numbers]
  BY SendableFields
<1> PICK N \in Nat : N = Len(view)
  BY BytesShape DEF Holds
<1>2. Len(Payload(t)) = size + 41 /\ size + 41 <= N
  <2>1. Sized(Payload(t), size + 41)
    BY PayloadShape
  <2>2. 0 + Len(Payload(t)) <= Len(view)
    BY DEF Holds
  <2> QED
    BY <2>1, <2>2 DEF Sized
<1>3. view[1] = size
  <2>1. view[0 + 1] = Payload(t)[1]
    BY <1>2 DEF Holds
  <2> QED
    BY <2>1, PayloadShape
<1>4. /\ Holds(view, 1, id)
      /\ Holds(view, size + 1, numbers[1]) /\ Holds(view, size + 9, numbers[2])
      /\ Holds(view, size + 17, numbers[3]) /\ Holds(view, size + 25, numbers[4])
      /\ Holds(view, size + 33, numbers[5])
  BY PayloadShape, HoldsInPrefix
<1>5. /\ Sized(numbers[1], 8) /\ Sized(numbers[2], 8) /\ Sized(numbers[3], 8)
      /\ Sized(numbers[4], 8) /\ Sized(numbers[5], 8)
  BY <1>1, NumbersShape
<1>6. Sized(id, size)
  BY SendableFields DEF Sized
<1> HIDE DEF id, numbers
<1>7. BytesRead(view) = size + 41 /\ ~(BytesRead(view) > Len(view))
  <2>1. BytesRead(view) = 1 + size + 5 * 8
    BY <1>3, Sizes DEF BytesRead
  <2> QED
    BY <1>2, <2>1
<1>8. SubSeq(view, 2, size + 1) = id
  <2> PICK low \in Nat : low = 2
    OBVIOUS
  <2> PICK high \in Nat : high = size + 1
    OBVIOUS
  <2>1. low = 1 + 1 /\ high = 1 + size
    OBVIOUS
  <2>2. Cut(view, low, high) = id
    BY <1>4, <1>6, <2>1, CutOut
  <2> QED
    BY <2>2 DEF Cut
<1>9. number(1) = numbers[1]
  <2> PICK f \in Nat : f = size + 1
    OBVIOUS
  <2> PICK low \in Nat : low = f + 1
    OBVIOUS
  <2> PICK high \in Nat : high = f + 8
    OBVIOUS
  <2>1. Holds(view, f, numbers[1]) /\ Sized(numbers[1], 8)
    BY <1>4, <1>5
  <2>2. Cut(view, low, high) = numbers[1]
    BY <2>1, CutOut
  <2>3. end(1 - 1) + 1 = low /\ end(1) = high
    BY Sizes
  <2> QED
    BY <2>2, <2>3 DEF Cut
<1>10. number(2) = numbers[2]
  <2> PICK f \in Nat : f = size + 9
    OBVIOUS
  <2> PICK low \in Nat : low = f + 1
    OBVIOUS
  <2> PICK high \in Nat : high = f + 8
    OBVIOUS
  <2>1. Holds(view, f, numbers[2]) /\ Sized(numbers[2], 8)
    BY <1>4, <1>5
  <2>2. Cut(view, low, high) = numbers[2]
    BY <2>1, CutOut
  <2>3. end(2 - 1) + 1 = low /\ end(2) = high
    BY Sizes
  <2> QED
    BY <2>2, <2>3 DEF Cut
<1>11. number(3) = numbers[3]
  <2> PICK f \in Nat : f = size + 17
    OBVIOUS
  <2> PICK low \in Nat : low = f + 1
    OBVIOUS
  <2> PICK high \in Nat : high = f + 8
    OBVIOUS
  <2>1. Holds(view, f, numbers[3]) /\ Sized(numbers[3], 8)
    BY <1>4, <1>5
  <2>2. Cut(view, low, high) = numbers[3]
    BY <2>1, CutOut
  <2>3. end(3 - 1) + 1 = low /\ end(3) = high
    BY Sizes
  <2> QED
    BY <2>2, <2>3 DEF Cut
<1>12. number(4) = numbers[4]
  <2> PICK f \in Nat : f = size + 25
    OBVIOUS
  <2> PICK low \in Nat : low = f + 1
    OBVIOUS
  <2> PICK high \in Nat : high = f + 8
    OBVIOUS
  <2>1. Holds(view, f, numbers[4]) /\ Sized(numbers[4], 8)
    BY <1>4, <1>5
  <2>2. Cut(view, low, high) = numbers[4]
    BY <2>1, CutOut
  <2>3. end(4 - 1) + 1 = low /\ end(4) = high
    BY Sizes
  <2> QED
    BY <2>2, <2>3 DEF Cut
<1>13. number(5) = numbers[5]
  <2> PICK f \in Nat : f = size + 33
    OBVIOUS
  <2> PICK low \in Nat : low = f + 1
    OBVIOUS
  <2> PICK high \in Nat : high = f + 8
    OBVIOUS
  <2>1. Holds(view, f, numbers[5]) /\ Sized(numbers[5], 8)
    BY <1>4, <1>5
  <2>2. Cut(view, low, high) = numbers[5]
    BY <2>1, CutOut
  <2>3. end(5 - 1) + 1 = low /\ end(5) = high
    BY Sizes
  <2> QED
    BY <2>2, <2>3 DEF Cut
<1> HIDE DEF number
<1>14. [m \in 1..NUMBERS |-> number(m)] = numbers
  <2>1. \A m \in 1..NUMBERS : m = 1 \/ m = 2 \/ m = 3 \/ m = 4 \/ m = 5
    BY Sizes
  <2> QED
    BY <1>1, <1>9, <1>10, <1>11, <1>12, <1>13, <2>1 DEF Numbers
<1>15. deserialize_payload(view) = [drone_id |-> SubSeq(view, 2, size + 1),
                                    numbers |-> [m \in 1..NUMBERS |-> number(m)]]
  BY <1>3, <1>7 DEF deserialize_payload, number, Cut
<1> QED
  BY <1>1, <1>2, <1>7, <1>8, <1>14, <1>15

Packet(t) == build_telemetry_packet(t)

(* Header, type and length, and the checksum of what is before it.         *)
PacketFront(n) == Format!HEADER_BYTES \o <<Format!TELEMETRY>> \o BigEndian16(n)

Checked(t) == PacketFront(Len(Payload(t))) \o Payload(t)

(* Two bytes, and the elements of a part.                                  *)
LEMMA TwoBytes ==
  ASSUME NEW x \in Format!Byte, NEW y \in Format!Byte
  PROVE  Sized(<<x, y>>, 2) /\ <<x, y>>[1] = x /\ <<x, y>>[2] = y
BY DEF Sized, Bytes

(* The byte k of a part is at its place in the whole.                      *)
LEMMA Element ==
  ASSUME NEW s, NEW f \in Nat, NEW u, Holds(s, f, u), NEW n \in Nat, Sized(u, n),
         NEW k \in Nat, 1 <= k, k <= n, NEW at \in Nat, at = f + k
  PROVE  s[at] = u[k] /\ s[at] \in Format!Byte
<1>1. n = Len(u) /\ u \in Bytes
  BY DEF Sized
<1> QED
  BY <1>1, BytesShape DEF Holds

(* The five bytes in front of a payload.                                   *)
LEMMA FrontShape ==
  ASSUME NEW n \in Nat, n <= UINT16_MAX
  PROVE  /\ Sized(PacketFront(n), 5)
         /\ PacketFront(n)[1] = 170 /\ PacketFront(n)[2] = 85 /\ PacketFront(n)[3] = 1
         /\ PacketFront(n)[4] \in Format!Byte /\ PacketFront(n)[5] \in Format!Byte
         /\ 256 * PacketFront(n)[4] + PacketFront(n)[5] = n
<1> DEFINE high == (n \div 256) % 256  low == n % 256
           header == <<170, 85>>  type == <<1>>  length == <<high, low>>
           start == header \o type  front == start \o length
<1>1. high \in Nat /\ high <= 255 /\ low \in Nat /\ low <= 255 /\ 256 * high + low = n
  BY DEF UINT16_MAX
<1>2. PacketFront(n) = front
  BY DEF PacketFront, BigEndian16, Format!HEADER_BYTES, Format!TELEMETRY
<1> HIDE DEF high, low
<1>3. /\ high \in Format!Byte /\ low \in Format!Byte
      /\ 170 \in Format!Byte /\ 85 \in Format!Byte /\ 1 \in Format!Byte
  BY <1>1, ByteRange
<1>4. /\ Sized(header, 2) /\ header[1] = 170 /\ header[2] = 85
      /\ Sized(type, 1) /\ type[1] = 1
      /\ Sized(length, 2) /\ length[1] = high /\ length[2] = low
  BY <1>3, TwoBytes, OneByte
<1> HIDE DEF header, type, length
<1>5. Sized(start, 3) /\ Holds(start, 0, header) /\ Holds(start, 2, type)
  BY <1>4, 3 = 2 + 1, JoinedSized
<1> HIDE DEF start
<1>6. Sized(front, 5) /\ Holds(front, 0, start) /\ Holds(front, 3, length)
  BY <1>4, <1>5, 5 = 3 + 2, JoinedSized
<1> HIDE DEF front
<1>7. Holds(front, 0, header) /\ Holds(front, 2, type)
  BY <1>5, <1>6, HoldsInPrefix
<1>8. front[1] = 170 /\ front[2] = 85
  BY <1>4, <1>7, 1 = 0 + 1, 2 = 0 + 2, Element
<1>9. front[3] = 1
  BY <1>4, <1>7, 3 = 2 + 1, Element
<1>10. front[4] = high /\ front[5] = low
  BY <1>4, <1>6, 4 = 3 + 1, 5 = 3 + 2, Element
<1> QED
  BY <1>1, <1>2, <1>3, <1>6, <1>8, <1>9, <1>10

(* A checksum is sent as two bytes, from which it is read back.            *)
LEMMA BigEndianShape ==
  ASSUME NEW c \in Crc16
  PROVE  /\ Sized(BigEndian16(c), 2)
         /\ 256 * BigEndian16(c)[1] + BigEndian16(c)[2] = c
<1> DEFINE high == (c \div 256) % 256  low == c % 256
<1>1. high \in Nat /\ high <= 255 /\ low \in Nat /\ low <= 255 /\ 256 * high + low = c
  BY WordRange
<1>2. BigEndian16(c) = <<high, low>>
  BY DEF BigEndian16
<1> HIDE DEF high, low
<1>3. high \in Format!Byte /\ low \in Format!Byte
  BY <1>1, ByteRange
<1>4. <<high, low>> \in Bytes
  BY <1>3 DEF Bytes
<1> QED
  BY <1>1, <1>2, <1>4 DEF Sized

(* A packet: what it holds, and that its checksum is that of the rest.     *)
LEMMA PacketShape ==
  ASSUME NEW t \in Sendable, NEW n \in Nat, n = Len(Payload(t))
  PROVE  /\ n <= UINT16_MAX /\ n = Len(t.drone_id) + 41
         /\ Sized(Packet(t), n + 7)
         /\ Holds(Packet(t), 0, PacketFront(n))
         /\ Holds(Packet(t), 5, Payload(t))
         /\ Holds(Packet(t), 0, Checked(t)) /\ Sized(Checked(t), n + 5)
         /\ 256 * Packet(t)[n + 6] + Packet(t)[n + 7] = calculate_crc16(Checked(t))
<1> DEFINE front == PacketFront(n)  payload == Payload(t)  checked == Checked(t)
           crc == calculate_crc16(checked)  tail == BigEndian16(crc)  packet == Packet(t)
<1>1. Sized(payload, n) /\ n <= UINT16_MAX /\ n = Len(t.drone_id) + 41
  <2> PICK k \in Nat : k = Len(t.drone_id) /\ k <= 255
    BY SendableFields
  <2>1. Sized(payload, k + 41)
    BY PayloadShape
  <2>2. n = k + 41
    BY <2>1 DEF Sized
  <2>3. k + 41 <= UINT16_MAX
    BY DEF UINT16_MAX
  <2> QED
    BY <2>1, <2>2, <2>3
<1>2. Sized(front, 5)
  BY <1>1, FrontShape
<1>3. checked = front \o payload /\ packet = checked \o tail
  BY DEF Checked, PacketFront, Packet, Payload, build_telemetry_packet
<1> PICK m \in Nat : m = 5 + n
  OBVIOUS
<1> PICK size \in Nat : size = m + 2
  OBVIOUS
<1> HIDE DEF front, payload, checked, packet
<1>4. Sized(checked, m) /\ Holds(checked, 0, front) /\ Holds(checked, 5, payload)
  BY <1>1, <1>2, <1>3, JoinedSized
<1>5. crc \in Crc16
  BY <1>4, CrcIsWord DEF Sized, Bytes
<1> HIDE DEF crc
<1>6. Sized(tail, 2) /\ 256 * tail[1] + tail[2] = crc
  BY <1>5, BigEndianShape
<1> HIDE DEF tail
<1>7. Sized(packet, size) /\ Holds(packet, 0, checked) /\ Holds(packet, m, tail)
  BY <1>3, <1>4, <1>6, JoinedSized
<1>8. Holds(packet, 0, front) /\ Holds(packet, 5, payload)
  BY <1>4, <1>7, HoldsInPrefix
<1>9. packet[m + 1] = tail[1] /\ packet[m + 2] = tail[2]
  BY <1>6, <1>7 DEF Holds, Sized
<1>10. m + 1 = n + 6 /\ m + 2 = n + 7 /\ size = n + 7 /\ m = n + 5
  OBVIOUS
<1>11. 256 * packet[n + 6] + packet[n + 7] = crc
  BY <1>6, <1>9, <1>10
<1> QED
  BY <1>1, <1>4, <1>7, <1>8, <1>10, <1>11 DEF front, payload, checked, packet, crc

(* A telemetry packet at the front of a buffer, field by field.            *)
AtFront(s, n) ==
  /\ 5 <= Len(s) /\ s[1] = 170 /\ s[2] = 85 /\ s[3] = 1
  /\ n = 256 * s[4] + s[5] /\ 40 <= n /\ n <= 80 /\ n + 7 <= Len(s)
  /\ calculate_crc16(Cut(s, 1, n + 5)) = 256 * s[n + 6] + s[n + 7]

(* The fields the parser looks at.                                         *)
LEMMA FieldsAtFront ==
  ASSUME NEW s \in Bytes, 5 <= Len(s)
  PROVE  /\ s[1] \in Nat /\ s[2] \in Nat /\ s[3] \in Nat /\ s[4] \in Nat /\ s[5] \in Nat
         /\ Format!LengthAt(s, 0) = 256 * s[4] + s[5]
         /\ Format!LengthAt(s, 0) \in Nat
         /\ Format!TypeAt(s, 0) = s[3]
<1>1. /\ s[1] \in Nat /\ s[2] \in Nat /\ s[3] \in Nat /\ s[4] \in Nat /\ s[5] \in Nat
  <2>1. Len(s) \in Nat /\ \A k \in Nat : 1 <= k /\ k <= Len(s) => s[k] \in Nat
    BY BytesShape, ByteRange
  <2> QED
    BY <2>1
<1>2. Format!LengthAt(s, 0) = 256 * s[4] + s[5]
  BY DEF Format!LengthAt, Format!LENGTH_STARTING_IDX, Format!HEADER_SIZE_BYTES,
         Format!TYPE_SIZE_BYTES
<1>3. Format!TypeAt(s, 0) = s[3]
  <2>1. Format!TYPE_STARTING_IDX = 2
    BY DEF Format!TYPE_STARTING_IDX, Format!HEADER_SIZE_BYTES
  <2>2. Format!TypeAt(s, 0) = s[0 + Format!TYPE_STARTING_IDX + 1]
    BY DEF Format!TypeAt
  <2>3. 0 + Format!TYPE_STARTING_IDX + 1 = 3
    BY <2>1
  <2> QED
    BY <2>2, <2>3
<1> QED
  BY <1>1, <1>2, <1>3

(* They are what makes a packet of it.                                     *)
LEMMA PacketAtFront ==
  ASSUME NEW s \in Bytes
  PROVE  Format!TelemetryPacketAt(s, 0) <=> AtFront(s, Format!LengthAt(s, 0))
<1> PICK N \in Nat : N = Len(s)
  BY BytesShape
<1> DEFINE n == Format!LengthAt(s, 0)
<1>1. Format!HeaderAt(s, 0) <=> 2 <= N /\ s[1] = 170 /\ s[2] = 85
  BY DEF Format!HeaderAt, Format!HEADER_SIZE_BYTES, Format!HEADER_BYTES
<1>2. 0 + Format!PAYLOAD_STARTING_IDX = 5
  BY DEF Format!PAYLOAD_STARTING_IDX, Format!HEADER_SIZE_BYTES,
         Format!TYPE_SIZE_BYTES, Format!LENGTH_SIZE_BYTES
<1>3. SUFFICES ASSUME 5 <= N
               PROVE  Format!TelemetryPacketAt(s, 0) <=> AtFront(s, n)
  BY <1>2 DEF Format!TelemetryPacketAt, AtFront
<1>4. n \in Nat /\ n = 256 * s[4] + s[5] /\ Format!TypeAt(s, 0) = s[3]
  BY <1>3, FieldsAtFront
<1> HIDE DEF n
<1>5. Format!PlausibleLength(n) <=> 40 <= n /\ n <= 80
  BY DEF Format!PlausibleLength
<1> PICK m \in Nat : m = n + 7
  BY <1>4
<1>6. Format!TotalPacketSize(n) = m
  BY <1>4 DEF Format!TotalPacketSize, Format!PAYLOAD_STARTING_IDX, Format!HEADER_SIZE_BYTES,
              Format!TYPE_SIZE_BYTES, Format!LENGTH_SIZE_BYTES, Format!CRC_SIZE_BYTES
<1>7. Format!CrcMatches(s, 0, m)
        <=> calculate_crc16(Cut(s, 1, n + 5)) = 256 * s[n + 6] + s[n + 7]
  <2>1. 0 + m - 2 = n + 5 /\ 0 + m - 1 = n + 6 /\ 0 + m = n + 7 /\ 0 + 1 = 1
    BY <1>4
  <2>2. Format!CrcMatches(s, 0, m)
          <=> calculate_crc16(SubSeq(s, 0 + 1, 0 + m - 2)) = 256 * s[0 + m - 1] + s[0 + m]
    BY DEF Format!CrcMatches, Format!CRC_SIZE_BYTES
  <2> QED
    BY <2>1, <2>2 DEF Cut
<1>8. 0 + m <= N <=> n + 7 <= N
  BY <1>4
<1>9. Format!TelemetryPacketAt(s, 0) <=>
        /\ Format!HeaderAt(s, 0)
        /\ 0 + Format!PAYLOAD_STARTING_IDX <= Len(s)
        /\ Format!TypeAt(s, 0) = Format!TELEMETRY
        /\ Format!PlausibleLength(n)
        /\ 0 + Format!TotalPacketSize(n) <= Len(s)
        /\ Format!CrcMatches(s, 0, Format!TotalPacketSize(n))
  BY DEF Format!TelemetryPacketAt, n
<1>10. Format!TELEMETRY = 1 /\ 5 <= Len(s)
  BY <1>3 DEF Format!TELEMETRY
<1>11. Format!TelemetryPacketAt(s, 0) <=> AtFront(s, n)
  BY <1>1, <1>2, <1>3, <1>4, <1>5, <1>6, <1>7, <1>8, <1>9, <1>10 DEF AtFront
<1> QED
  BY <1>11 DEF n

(* A packet that was built, whatever follows it: accepted exactly if its   *)
(* identifier is short enough, and read as it was written.                 *)
LEMMA BuiltIsRead ==
  ASSUME NEW t \in Sendable, NEW s, Holds(s, 0, Packet(t))
  PROVE  /\ Format!LengthAt(s, 0) = Len(Payload(t))
         /\ Format!TelemetryPacketAt(s, 0) <=> Len(t.drone_id) <= 39
         /\ deserialize_payload(PayloadView(s)) = t
         /\ BytesRead(PayloadView(s)) = Len(Payload(t))
<1> PICK size \in Nat : size = Len(t.drone_id) /\ size <= 255
  BY SendableFields
<1> PICK n \in Nat : n = Len(Payload(t)) /\ n = size + 41 /\ n <= UINT16_MAX
  <2> PICK n \in Nat : n = size + 41
    OBVIOUS
  <2>1. n = Len(Payload(t))
    BY PayloadShape DEF Sized
  <2> QED
    BY <2>1, PacketShape
<1>1. /\ Sized(Packet(t), n + 7) /\ Holds(Packet(t), 0, PacketFront(n))
      /\ Holds(Packet(t), 5, Payload(t)) /\ Holds(Packet(t), 0, Checked(t))
      /\ Sized(Checked(t), n + 5)
      /\ 256 * Packet(t)[n + 6] + Packet(t)[n + 7] = calculate_crc16(Checked(t))
  BY PacketShape
<1>2. Holds(s, 0, PacketFront(n)) /\ Holds(s, 5, Payload(t)) /\ Holds(s, 0, Checked(t))
  BY <1>1, HoldsInPrefix
<1>3. /\ Sized(PacketFront(n), 5) /\ PacketFront(n)[1] = 170 /\ PacketFront(n)[2] = 85
      /\ PacketFront(n)[3] = 1 /\ 256 * PacketFront(n)[4] + PacketFront(n)[5] = n
  BY FrontShape
<1>4. /\ s[1] = PacketFront(n)[1] /\ s[2] = PacketFront(n)[2] /\ s[3] = PacketFront(n)[3]
      /\ s[4] = PacketFront(n)[4] /\ s[5] = PacketFront(n)[5]
  BY <1>2, <1>3, 1 = 0 + 1, 2 = 0 + 2, 3 = 0 + 3, 4 = 0 + 4, 5 = 0 + 5, Element
<1> PICK N \in Nat : N = Len(s) /\ s \in Bytes
  BY BytesShape DEF Holds
<1>5. n + 7 <= N
  BY <1>1 DEF Holds, Sized
<1>6. Format!LengthAt(s, 0) = n
  <2>1. s \in Bytes /\ 5 <= Len(s)
    BY <1>5
  <2>2. Format!LengthAt(s, 0) = 256 * s[4] + s[5]
    BY <2>1, FieldsAtFront
  <2>3. 256 * s[4] + s[5] = 256 * PacketFront(n)[4] + PacketFront(n)[5]
    BY <1>4
  <2> QED
    BY <2>2, <2>3, <1>3
<1>7. calculate_crc16(Cut(s, 1, n + 5)) = 256 * s[n + 6] + s[n + 7]
  <2> PICK m \in Nat : m = n + 7
    OBVIOUS
  <2> PICK k \in Nat : k = n + 5
    OBVIOUS
  <2>1. Sized(Checked(t), k) /\ Sized(Packet(t), m)
    BY <1>1
  <2>2. Cut(s, 1, k) = Checked(t)
    BY <1>2, <2>1, 1 = 0 + 1, k = 0 + k, CutOut
  <2>3. \A j \in Nat : 1 <= j /\ j <= m => s[j] = Packet(t)[j]
    <3> SUFFICES ASSUME NEW j \in Nat, 1 <= j, j <= m PROVE s[j] = Packet(t)[j]
      OBVIOUS
    <3>1. j = 0 + j
      OBVIOUS
    <3> QED
      BY <2>1, <3>1, Element
  <2>4. s[n + 6] = Packet(t)[n + 6] /\ s[n + 7] = Packet(t)[n + 7]
    BY <2>3
  <2> QED
    BY <1>1, <2>2, <2>4
<1>8. Format!TelemetryPacketAt(s, 0) <=> size <= 39
  <2>1. Format!TelemetryPacketAt(s, 0) <=> AtFront(s, n)
    BY <1>6, PacketAtFront
  <2>2. 5 <= Len(s) /\ s[1] = 170 /\ s[2] = 85 /\ s[3] = 1 /\ n = 256 * s[4] + s[5]
    BY <1>3, <1>4, <1>5
  <2>3. n + 7 <= Len(s) /\ (40 <= n /\ n <= 80 <=> size <= 39)
    BY <1>5
  <2> QED
    BY <1>7, <2>1, <2>2, <2>3 DEF AtFront
<1>9. Holds(PayloadView(s), 0, Payload(t))
  <2>1. Format!PAYLOAD_STARTING_IDX + 1 = 5 + 1 /\ Format!PAYLOAD_STARTING_IDX + 1 \in Nat
    BY DEF Format!PAYLOAD_STARTING_IDX, Format!HEADER_SIZE_BYTES,
           Format!TYPE_SIZE_BYTES, Format!LENGTH_SIZE_BYTES
  <2> QED
    BY <1>2, <2>1, ViewHolds DEF PayloadView
<1> QED
  BY <1>6, <1>8, <1>9, ReadBack

(* Two bytes, the high one first, are told by their number.                *)
LEMMA TwoDigits ==
  ASSUME NEW w \in Nat, NEW x \in Nat, NEW y \in Nat, NEW z \in Nat,
         x <= 255, z <= 255
  PROVE  /\ 256 * w + x \in Nat
         /\ 256 * w + x = 256 * y + z => w = y /\ x = z
         /\ w # 0 => 256 * w + x > 80
OBVIOUS

(* The strings c and u differ in one byte, which is behind the type.       *)
DifferAt(c, u, at) ==
  /\ c \in Bytes /\ u \in Bytes /\ Len(c) = Len(u)
  /\ at \in Nat /\ 4 <= at /\ at <= Len(u) /\ c[at] # u[at]
  /\ \A k \in Nat : 1 <= k /\ k <= Len(u) /\ k # at => c[k] = u[k]

(* A packet with one byte changed, behind the type, is refused, unless the *)
(* byte makes the length another one the parser accepts.                   *)
LEMMA ChangedByteIsRefused ==
  ASSUME NEW t \in Sendable, NEW c, NEW at \in Nat, DifferAt(c, Packet(t), at),
         NEW s, Holds(s, 0, c),
         \/ Format!LengthAt(s, 0) = Len(Payload(t))
         \/ ~Format!PlausibleLength(Format!LengthAt(s, 0))
  PROVE  ~Format!TelemetryPacketAt(s, 0)
<1> DEFINE packet == Packet(t)
<1> PICK n \in Nat : n = Len(Payload(t))
  <2> PICK size \in Nat : size = Len(t.drone_id)
    BY SendableFields
  <2>1. Sized(Payload(t), size + 41)
    BY PayloadShape
  <2> QED
    BY <2>1 DEF Sized
<1>1. /\ Sized(packet, n + 7) /\ Holds(packet, 0, PacketFront(n))
      /\ Holds(packet, 0, Checked(t)) /\ Sized(Checked(t), n + 5) /\ n <= UINT16_MAX
      /\ 256 * packet[n + 6] + packet[n + 7] = calculate_crc16(Checked(t))
  BY PacketShape
<1>d. /\ c \in Bytes /\ Len(c) = n + 7
      /\ 4 <= at /\ at <= n + 7 /\ c[at] # packet[at]
      /\ \A k \in Nat : 1 <= k /\ k <= n + 7 /\ k # at => c[k] = packet[k]
  BY <1>1 DEF DifferAt, Sized
<1>2. /\ s \in Bytes /\ Len(c) = n + 7 /\ 0 + Len(c) <= Len(s) /\ Len(s) \in Nat
      /\ c \in Bytes
  BY <1>d, BytesShape DEF Holds
<1>3. SUFFICES ASSUME Format!LengthAt(s, 0) = n, Format!TelemetryPacketAt(s, 0)
               PROVE  FALSE
  BY DEF Format!TelemetryPacketAt
<1>4. \A k \in Nat : 1 <= k /\ k <= n + 7 => s[k] = c[k] /\ c[k] \in Nat /\ c[k] <= 255
  <2>1. \A k \in Nat : 1 <= k /\ k <= n + 7 => s[0 + k] = c[k]
    BY <1>2 DEF Holds
  <2>2. \A k \in Nat : 1 <= k /\ k <= n + 7 => c[k] \in Nat /\ c[k] <= 255
    BY <1>2, BytesShape, ByteRange
  <2> QED
    BY <2>1, <2>2
<1>5. \A k \in Nat : 1 <= k /\ k <= n + 7 => packet[k] \in Nat /\ packet[k] <= 255
  BY <1>1, BytesShape, ByteRange DEF Sized
<1>6. \A k \in Nat : 1 <= k /\ k <= n + 5 => packet[k] = Checked(t)[k]
  <2>1. \A k \in Nat : 1 <= k /\ k <= n + 5 => packet[0 + k] = Checked(t)[k]
    BY <1>1 DEF Holds, Sized
  <2> QED
    BY <2>1
<1>7. 256 * packet[4] + packet[5] = n
  <2>1. packet[4] = PacketFront(n)[4] /\ packet[5] = PacketFront(n)[5]
    BY <1>1, FrontShape, 4 = 0 + 4, 5 = 0 + 5, Element
  <2> QED
    BY <1>1, <2>1, FrontShape
<1>8. 256 * c[4] + c[5] = n
  <2>1. 256 * s[4] + s[5] = n
    BY <1>2, <1>3, FieldsAtFront
  <2>2. s[4] = c[4] /\ s[5] = c[5]
    BY <1>4
  <2> QED
    BY <2>1, <2>2
<1>9. at # 4 /\ at # 5
  <2>1. /\ packet[4] \in Nat /\ packet[5] \in Nat /\ c[4] \in Nat /\ c[5] \in Nat
        /\ packet[4] <= 255 /\ packet[5] <= 255 /\ c[4] <= 255 /\ c[5] <= 255
    BY <1>4, <1>5
  <2>2. packet[4] = c[4] /\ packet[5] = c[5]
    <3> DEFINE w == packet[4]  x == packet[5]  y == c[4]  z == c[5]
    <3>1. /\ w \in Nat /\ x \in Nat /\ y \in Nat /\ z \in Nat
          /\ x <= 255 /\ z <= 255 /\ 256 * w + x = 256 * y + z
      BY <1>7, <1>8, <2>1
    <3> HIDE DEF w, x, y, z
    <3>2. w = y /\ x = z
      BY <3>1, TwoDigits
    <3> QED
      BY <3>2 DEF w, x, y, z
  <2> QED
    BY <1>d, <2>2
<1>10. calculate_crc16(Cut(s, 1, n + 5)) = 256 * c[n + 6] + c[n + 7]
  <2>1. calculate_crc16(Cut(s, 1, n + 5)) = 256 * s[n + 6] + s[n + 7]
    BY <1>2, <1>3, PacketAtFront DEF AtFront
  <2>2. s[n + 6] = c[n + 6] /\ s[n + 7] = c[n + 7]
    BY <1>4
  <2> QED
    BY <2>1, <2>2
<1> DEFINE checked == Cut(s, 1, n + 5)
<1>11. /\ checked \in Bytes /\ Len(checked) = n + 5
       /\ \A k \in Nat : 1 <= k /\ k <= n + 5 => checked[k] = c[k]
  <2>1. \A k \in 1..(n + 5) : s[k] \in Format!Byte
    BY <1>2, BytesShape
  <2>2. /\ checked \in Bytes
        /\ Len(checked) = IF 1 <= n + 5 THEN (n + 5) - 1 + 1 ELSE 0
        /\ \A k \in 1..((n + 5) - 1 + 1) : checked[k] = s[1 + k - 1]
    BY <1>2, <2>1, SubSeqProperties DEF Bytes, Cut
  <2> HIDE DEF checked
  <2>3. ASSUME NEW k \in Nat, 1 <= k, k <= n + 5 PROVE checked[k] = c[k]
    <3>1. k \in 1..((n + 5) - 1 + 1) /\ 1 + k - 1 = k /\ k <= n + 7
      BY <2>3
    <3>2. checked[k] = s[k]
      BY <2>2, <3>1
    <3> QED
      BY <1>4, <2>3, <3>1, <3>2
  <2> QED
    BY <2>2, <2>3
<1> HIDE DEF checked
<1>12. CASE at <= n + 5
  <2>1. calculate_crc16(checked) # calculate_crc16(Checked(t))
    <3>0. checked[at] = c[at] /\ packet[at] = Checked(t)[at] /\ c[at] # packet[at]
      BY <1>d, <1>6, <1>11, <1>12
    <3>1. checked[at] # Checked(t)[at]
      BY <3>0
    <3>3. /\ checked \in Seq(Format!Byte) /\ Checked(t) \in Seq(Format!Byte)
          /\ Len(checked) = n + 5 /\ Len(Checked(t)) = n + 5 /\ at \in 1..(n + 5)
      BY <1>d, <1>1, <1>11, <1>12 DEF Bytes, Sized
    <3>2. \A k \in 1..(n + 5) : k # at => checked[k] = Checked(t)[k]
      BY <1>d, <1>6, <1>11
    <3> QED
      BY <3>1, <3>2, <3>3, OneByteChangesCrc
  <2>2. c[n + 6] = packet[n + 6] /\ c[n + 7] = packet[n + 7]
    BY <1>d, <1>12
  <2> QED
    BY <1>1, <1>10, <2>1, <2>2 DEF checked
<1>13. CASE at > n + 5
  <2>1. checked = Checked(t)
    <3>1. \A k \in 1..(n + 5) : checked[k] = Checked(t)[k]
      BY <1>d, <1>6, <1>11, <1>13
    <3> QED
      BY <1>1, <1>11, <3>1, SeqEqual DEF Bytes, Sized
  <2>2. 256 * c[n + 6] + c[n + 7] = 256 * packet[n + 6] + packet[n + 7]
    BY <1>1, <1>10, <2>1 DEF checked
  <2>3. /\ packet[n + 6] \in Nat /\ packet[n + 7] \in Nat /\ c[n + 6] \in Nat
        /\ c[n + 7] \in Nat /\ packet[n + 6] <= 255 /\ packet[n + 7] <= 255
        /\ c[n + 6] <= 255 /\ c[n + 7] <= 255
    BY <1>4, <1>5
  <2>4. c[n + 6] = packet[n + 6] /\ c[n + 7] = packet[n + 7]
    <3> DEFINE w == packet[n + 6]  x == packet[n + 7]  y == c[n + 6]  z == c[n + 7]
    <3>1. /\ w \in Nat /\ x \in Nat /\ y \in Nat /\ z \in Nat
          /\ x <= 255 /\ z <= 255 /\ 256 * y + z = 256 * w + x
      BY <2>2, <2>3
    <3> HIDE DEF w, x, y, z
    <3>2. y = w /\ z = x
      BY <3>1, TwoDigits
    <3> QED
      BY <3>2 DEF w, x, y, z
  <2>5. at = n + 6 \/ at = n + 7
    BY <1>d, <1>13
  <2> QED
    BY <1>d, <2>4, <2>5
<1> QED
  BY <1>12, <1>13

(* An inverted bit of a byte makes another byte of it.                     *)
LEMMA ToggleChangesByte ==
  ASSUME NEW b \in Format!Byte, NEW mask \in BitMasks
  PROVE  Toggle(b, mask) \in Format!Byte /\ Toggle(b, mask) # b
<1>1. b \in Nat /\ b <= 255
  BY ByteRange
<1>2. /\ Toggle(b, 1) \in Nat /\ Toggle(b, 1) <= 255 /\ Toggle(b, 1) # b
      /\ Toggle(b, 2) \in Nat /\ Toggle(b, 2) <= 255 /\ Toggle(b, 2) # b
      /\ Toggle(b, 4) \in Nat /\ Toggle(b, 4) <= 255 /\ Toggle(b, 4) # b
      /\ Toggle(b, 8) \in Nat /\ Toggle(b, 8) <= 255 /\ Toggle(b, 8) # b
      /\ Toggle(b, 16) \in Nat /\ Toggle(b, 16) <= 255 /\ Toggle(b, 16) # b
      /\ Toggle(b, 32) \in Nat /\ Toggle(b, 32) <= 255 /\ Toggle(b, 32) # b
      /\ Toggle(b, 64) \in Nat /\ Toggle(b, 64) <= 255 /\ Toggle(b, 64) # b
      /\ Toggle(b, 128) \in Nat /\ Toggle(b, 128) <= 255 /\ Toggle(b, 128) # b
  BY <1>1 DEF Toggle
<1>3. Toggle(b, mask) \in Nat /\ Toggle(b, mask) <= 255 /\ Toggle(b, mask) # b
  BY <1>2 DEF BitMasks
<1> QED
  BY <1>3, ByteRange

(* A packet is a string of bytes.                                          *)
LEMMA PacketIsBytes == \A t \in Sendable : Packet(t) \in Bytes
<1> SUFFICES ASSUME NEW t \in Sendable PROVE Packet(t) \in Bytes
  OBVIOUS
<1> PICK size \in Nat : size = Len(t.drone_id)
  BY SendableFields
<1>1. Sized(Payload(t), size + 41)
  BY PayloadShape
<1> PICK n \in Nat : n = Len(Payload(t))
  BY <1>1 DEF Sized
<1>2. Sized(Packet(t), n + 7)
  BY PacketShape
<1> QED
  BY <1>2 DEF Sized

(* Corruption leaves a string of bytes that differs in one place.          *)
LEMMA CorruptShape ==
  ASSUME NEW packet \in Bytes, NEW at \in Nat, at - 1 \in CorruptibleBytes(packet),
         NEW mask \in BitMasks
  PROVE  DifferAt(Corrupt(packet, at - 1, mask), packet, at)
<1> DEFINE c == Corrupt(packet, at - 1, mask)
<1> PICK N \in Nat : N = Len(packet)
  BY BytesShape
<1>0. 4 <= at /\ at <= N
  BY DEF CorruptibleBytes
<1>1. c = [packet EXCEPT ![at] = Toggle(packet[at], mask)]
  <2>1. (at - 1) + 1 = at
    OBVIOUS
  <2> QED
    BY <2>1 DEF Corrupt
<1>2. packet \in [1..N -> Format!Byte]
  BY DEF Bytes
<1>3. at \in 1..N /\ packet[at] \in Format!Byte
  BY <1>0, <1>2
<1>4. Toggle(packet[at], mask) \in Format!Byte /\ Toggle(packet[at], mask) # packet[at]
  BY <1>3, ToggleChangesByte
<1> HIDE DEF c
<1>5. /\ c \in [1..N -> Format!Byte] /\ c[at] # packet[at]
      /\ \A k \in 1..N : k # at => c[k] = packet[k]
  BY <1>1, <1>2, <1>3, <1>4
<1>6. c \in Bytes /\ Len(c) = N
  BY <1>5 DEF Bytes
<1>7. \A k \in Nat : 1 <= k /\ k <= N /\ k # at => c[k] = packet[k]
  BY <1>5
<1>8. DifferAt(c, packet, at)
  BY <1>0, <1>5, <1>6, <1>7 DEF DifferAt
<1> QED
  BY <1>8 DEF c

(* The index of the corrupted byte, counted from 1.                        *)
LEMMA CorruptibleIsNat ==
  ASSUME NEW packet, NEW target_byte \in CorruptibleBytes(packet)
  PROVE  \E at \in Nat : target_byte = at - 1
<1>1. target_byte \in Nat
  BY DEF CorruptibleBytes
<1>2. target_byte + 1 \in Nat /\ target_byte = (target_byte + 1) - 1
  BY <1>1
<1> QED
  BY <1>2

(* A corrupted packet, whatever follows it, is refused.                    *)
LEMMA CorruptedIsRefused ==
  ASSUME NEW t \in Sendable,
         NEW target_byte \in CorruptibleBytes(Packet(t)), NEW mask \in BitMasks,
         NEW s, Holds(s, 0, Corrupt(Packet(t), target_byte, mask)),
         \/ Format!LengthAt(s, 0) = Len(Payload(t))
         \/ ~Format!PlausibleLength(Format!LengthAt(s, 0))
  PROVE  ~Format!TelemetryPacketAt(s, 0)
<1> PICK at \in Nat : target_byte = at - 1
  BY CorruptibleIsNat
<1>1. DifferAt(Corrupt(Packet(t), at - 1, mask), Packet(t), at)
  BY PacketIsBytes, CorruptShape
<1> QED
  BY <1>1, ChangedByteIsRefused

(* One flipped bit is always detected, for every telemetry and whatever is *)
(* sent behind the packet, but in the low byte of the length: not in the   *)
(* payload or the checksum, as each byte changes the CRC-16, and not in    *)
(* the high byte of the length either if the parser accepts the packet.    *)
THEOREM FlipIsDetectedOutsideLowLengthByte ==
  ASSUME NEW t \in TelemetryData, Len(t.drone_id) <= 255, NEW rest \in Seq(Format!Byte),
         NEW target_byte \in CorruptibleBytes(build_telemetry_packet(t)), NEW mask \in BitMasks,
         target_byte # 4, target_byte = 3 => Len(t.drone_id) <= 39
  PROVE  ~Format!TelemetryPacketAt(
            Corrupt(build_telemetry_packet(t), target_byte, mask) \o rest, 0)
<1> DEFINE packet == Packet(t)  c == Corrupt(packet, target_byte, mask)  s == c \o rest
<1>1. t \in Sendable /\ packet = build_telemetry_packet(t) /\ rest \in Bytes
  BY DEF Sendable, Packet, Bytes
<1> HIDE DEF packet
<1> PICK size \in Nat : size = Len(t.drone_id)
  BY <1>1, SendableFields
<1> PICK n \in Nat : n = size + 41
  OBVIOUS
<1>p. n = Len(Payload(t))
  BY <1>1, PayloadShape DEF Sized
<1>2. Sized(packet, n + 7) /\ Holds(packet, 0, PacketFront(n)) /\ n <= UINT16_MAX
  BY <1>1, <1>p, PacketShape DEF packet
<1> PICK N \in Nat : N = Len(packet) /\ N = n + 7 /\ packet \in Bytes
  BY <1>2 DEF Sized
<1> PICK at \in Nat : target_byte = at - 1
  BY CorruptibleIsNat
<1>3. at # 5 /\ (at = 4 => size <= 39)
  OBVIOUS
<1>d. DifferAt(c, packet, at)
  <2>1. at - 1 \in CorruptibleBytes(packet)
    BY <1>1
  <2>2. DifferAt(Corrupt(packet, at - 1, mask), packet, at)
    BY <2>1, CorruptShape
  <2> QED
    BY <2>2
<1> HIDE DEF c
<1>e. /\ c \in Bytes /\ Len(c) = N /\ 4 <= at /\ at <= N /\ c[at] # packet[at]
      /\ \A k \in Nat : 1 <= k /\ k <= N /\ k # at => c[k] = packet[k]
  BY <1>d DEF DifferAt
<1>4. Holds(s, 0, c)
  BY <1>1, <1>e, JoinedHolds
<1> HIDE DEF s
<1>5. s \in Bytes /\ Len(c) <= Len(s) /\ Len(s) \in Nat /\ s[4] = c[4] /\ s[5] = c[5]
  <2>1. s[0 + 4] = c[4] /\ s[0 + 5] = c[5]
    BY <1>4, <1>e DEF Holds
  <2> QED
    BY <1>4, <1>e, <2>1, BytesShape DEF Holds
<1>6. Format!LengthAt(s, 0) = 256 * c[4] + c[5]
  <2>1. 5 <= Len(s)
    BY <1>5, <1>e
  <2> QED
    BY <1>5, <2>1, FieldsAtFront
<1>7. /\ packet[4] \in Nat /\ packet[5] \in Nat /\ c[4] \in Nat /\ c[5] \in Nat
      /\ packet[5] <= 255 /\ c[5] <= 255 /\ 256 * packet[4] + packet[5] = n
  <2>1. packet[4] = PacketFront(n)[4] /\ packet[5] = PacketFront(n)[5]
    BY <1>2, FrontShape, 4 = 0 + 4, 5 = 0 + 5, Element
  <2>2. 256 * packet[4] + packet[5] = n
    BY <1>2, <2>1, FrontShape
  <2>3. /\ packet[4] \in Format!Byte /\ packet[5] \in Format!Byte
        /\ c[4] \in Format!Byte /\ c[5] \in Format!Byte
    <3>1. \A k \in Nat : 1 <= k /\ k <= N => packet[k] \in Format!Byte /\ c[k] \in Format!Byte
      BY <1>e, BytesShape
    <3>2. 5 <= N
      OBVIOUS
    <3> QED
      BY <3>1, <3>2
  <2> QED
    BY <2>2, <2>3, ByteRange
<1>8. Format!LengthAt(s, 0) = n \/ ~Format!PlausibleLength(Format!LengthAt(s, 0))
  <2>1. c[5] = packet[5]
    BY <1>3, <1>e
  <2>2. CASE at = 4
    <3>1. packet[4] = 0 /\ c[4] # packet[4]
      BY <1>3, <1>e, <1>7, <2>2
    <3> DEFINE y == c[4]  z == c[5]
    <3>2. y \in Nat /\ z \in Nat /\ z <= 255 /\ y # 0
      BY <1>7, <3>1
    <3>3. \A m \in Nat : m > 80 => ~Format!PlausibleLength(m)
      BY DEF Format!PlausibleLength
    <3>4. Format!LengthAt(s, 0) = 256 * y + z
      BY <1>6
    <3> HIDE DEF y, z
    <3>5. 256 * y + z \in Nat /\ 256 * y + z > 80
      BY <3>2
    <3> QED
      BY <3>3, <3>4, <3>5
  <2>3. CASE at # 4
    <3>1. c[4] = packet[4]
      BY <1>e, <2>3
    <3> QED
      BY <1>6, <1>7, <2>1, <3>1
  <2> QED
    BY <2>2, <2>3
<1>9. ~Format!TelemetryPacketAt(s, 0)
  BY <1>1, <1>p, <1>4, <1>8, CorruptedIsRefused DEF c, packet
<1> QED
  BY <1>1, <1>9 DEF s, c

-----------------------------------------------------------------------------
(* The checksum as a remainder: the ones of a register are those of 16     *)
(* places of the dividend, and calculate_crc16 moves them along it, a place*)
(* per shift.                                                              *)

(* The bits of a register of 16.                                           *)
WordBits == {1, 2, 4, 8, 16, 32, 64, 128, 256, 512, 1024, 2048, 4096, 8192, 16384, 32768}

(* A shift moves each bit up; the highest one is lost.                     *)
LEMMA ShiftedBits ==
  ASSUME NEW w \in Nat, w <= 65535, NEW d \in Nat, d = (2 * w) % 65536
  PROVE  /\ w >= 32768 <=> Bit(w, 32768) = 1
         /\ Bit(d, 1) = 0
         /\ \A place \in WordBits \ {32768} : Bit(d, 2 * place) = Bit(w, place)
<1>1. w >= 32768 <=> Bit(w, 32768) = 1
  BY DEF Bit
<1>2. Bit(d, 1) = 0
  BY DEF Bit
<1>3. \A place \in {1, 2, 4, 8} : Bit(d, 2 * place) = Bit(w, place)
  BY DEF Bit
<1>4. \A place \in {16, 32, 64, 128} : Bit(d, 2 * place) = Bit(w, place)
  BY DEF Bit
<1>5. \A place \in {256, 512, 1024, 2048} : Bit(d, 2 * place) = Bit(w, place)
  BY DEF Bit
<1>6. \A place \in {4096, 8192, 16384} : Bit(d, 2 * place) = Bit(w, place)
  BY DEF Bit
<1> QED
  BY <1>1, <1>2, <1>3, <1>4, <1>5, <1>6 DEF WordBits

(* To toggle a bit of the polynomial changes no other.                     *)
Toggled(t, w, bit) ==
  \A place \in WordBits : Bit(t, place) = IF place = bit THEN 1 - Bit(w, bit) ELSE Bit(w, place)

LEMMA ToggledBits ==
  ASSUME NEW w \in Nat, w <= 65535, NEW bit \in {1, 32, 4096}
  PROVE  Toggle(w, bit) \in Nat /\ Toggle(w, bit) <= 65535 /\ Toggled(Toggle(w, bit), w, bit)
<1>0. /\ Bit(w, bit) = 0 => Toggle(w, bit) = w + bit
      /\ Bit(w, bit) # 0 => Toggle(w, bit) = w - bit
  BY DEF Toggle, Bit
<1>1. CASE bit = 1
  <2> PICK t \in Nat : t = Toggle(w, 1) /\ t <= 65535
    BY <1>0, <1>1 DEF Bit
  <2>0. (Bit(w, 1) = 0 => t = w + 1) /\ (Bit(w, 1) # 0 => t = w - 1)
    BY <1>0, <1>1
  <2>1. \A place \in {1, 2, 4, 8} : Bit(t, place) = IF place = 1 THEN 1 - Bit(w, 1) ELSE Bit(w, place)
    BY <2>0, SMTT(30) DEF Bit
  <2>2. \A place \in {16, 32, 64, 128} : Bit(t, place) = Bit(w, place)
    BY <2>0, SMTT(30) DEF Bit
  <2>3. \A place \in {256, 512, 1024, 2048} : Bit(t, place) = Bit(w, place)
    BY <2>0, SMTT(30) DEF Bit
  <2>4. \A place \in {4096, 8192, 16384, 32768} : Bit(t, place) = Bit(w, place)
    BY <2>0, SMTT(30) DEF Bit
  <2> QED
    BY <1>1, <2>1, <2>2, <2>3, <2>4 DEF Toggled, WordBits
<1>2. CASE bit = 32
  <2> PICK t \in Nat : t = Toggle(w, 32) /\ t <= 65535
    BY <1>0, <1>2 DEF Bit
  <2>0. (Bit(w, 32) = 0 => t = w + 32) /\ (Bit(w, 32) # 0 => t = w - 32)
    BY <1>0, <1>2
  <2>1. \A place \in {1, 2, 4, 8} : Bit(t, place) = Bit(w, place)
    BY <2>0, SMTT(30) DEF Bit
  <2>2. \A place \in {16, 32, 64, 128} : Bit(t, place) = IF place = 32 THEN 1 - Bit(w, 32) ELSE Bit(w, place)
    BY <2>0, SMTT(30) DEF Bit
  <2>3. \A place \in {256, 512, 1024, 2048} : Bit(t, place) = Bit(w, place)
    BY <2>0, SMTT(30) DEF Bit
  <2>4. \A place \in {4096, 8192, 16384, 32768} : Bit(t, place) = Bit(w, place)
    BY <2>0, SMTT(30) DEF Bit
  <2> QED
    BY <1>2, <2>1, <2>2, <2>3, <2>4 DEF Toggled, WordBits
<1>3. CASE bit = 4096
  <2> PICK t \in Nat : t = Toggle(w, 4096) /\ t <= 65535
    BY <1>0, <1>3 DEF Bit
  <2>0. (Bit(w, 4096) = 0 => t = w + 4096) /\ (Bit(w, 4096) # 0 => t = w - 4096)
    BY <1>0, <1>3
  <2>1. \A place \in {1, 2, 4, 8} : Bit(t, place) = Bit(w, place)
    BY <2>0, SMTT(30) DEF Bit
  <2>2. \A place \in {16, 32, 64, 128} : Bit(t, place) = Bit(w, place)
    BY <2>0, SMTT(30) DEF Bit
  <2>3. \A place \in {256, 512, 1024, 2048} : Bit(t, place) = Bit(w, place)
    BY <2>0, SMTT(30) DEF Bit
  <2>4. \A place \in {4096, 8192, 16384, 32768} : Bit(t, place) = IF place = 4096 THEN 1 - Bit(w, 4096) ELSE Bit(w, place)
    BY <2>0, SMTT(30) DEF Bit
  <2> QED
    BY <1>3, <2>1, <2>2, <2>3, <2>4 DEF Toggled, WordBits
<1> QED
  BY <1>1, <1>2, <1>3

(* The bits of a byte.                                                     *)
ByteBits == {1, 2, 4, 8, 16, 32, 64, 128}

(* Two bytes in a word.                                                    *)
LEMMA BitsOfTwoBytes ==
  ASSUME NEW h \in Nat, h <= 255, NEW l \in Nat, l <= 255, NEW w \in Nat, w = 256 * h + l
  PROVE  \A place \in ByteBits :
           Bit(w, 256 * place) = Bit(h, place) /\ Bit(w, place) = Bit(l, place)
<1>1. \A place \in {1, 2, 4, 8} : Bit(w, 256 * place) = Bit(h, place)
  BY SMTT(30) DEF Bit
<1>2. \A place \in {16, 32, 64, 128} : Bit(w, 256 * place) = Bit(h, place)
  BY SMTT(30) DEF Bit
<1>3. \A place \in {1, 2, 4, 8} : Bit(w, place) = Bit(l, place)
  BY SMTT(30) DEF Bit
<1>4. \A place \in {16, 32, 64, 128} : Bit(w, place) = Bit(l, place)
  BY SMTT(30) DEF Bit
<1> QED
  BY <1>1, <1>2, <1>3, <1>4 DEF ByteBits

(* Two bits differ if their sum is odd.                                    *)
LEMMA DifferIsSum ==
  ASSUME NEW a \in Nat, NEW b \in Nat, NEW place \in Nat \ {0}
  PROVE  Differ(a, b, place) = (Bit(a, place) + Bit(b, place)) % 2
<1> DEFINE x == a \div place  y == b \div place
<1>1. x \in Nat /\ y \in Nat
  OBVIOUS
<1> HIDE DEF x, y
<1>2. (x + y) % 2 = ((x % 2) + (y % 2)) % 2
  BY <1>1
<1> QED
  BY <1>2 DEF Differ, Bit, x, y

(* The bits of the exclusive or are those in which the bytes differ.       *)
LEMMA XorByteBits ==
  ASSUME NEW a \in Nat, NEW b \in Nat
  PROVE  \A place \in ByteBits : Bit(XorByte(a, b), place) = Differ(a, b, place)
<1> PICK x \in Nat : x = XorByte(a, b) /\ x <= 255
  BY XorByteIsByte
<1>1. AreBits(Bit(x, 1), Bit(x, 2), Bit(x, 4), Bit(x, 8), Bit(x, 16), Bit(x, 32), Bit(x, 64),
              Bit(x, 128))
  <2>1. \A place \in Nat \ {0} : Bit(x, place) \in 0..1
    BY DEF Bit
  <2> QED
    BY <2>1 DEF AreBits
<1>2. AreBits(Differ(a, b, 1), Differ(a, b, 2), Differ(a, b, 4), Differ(a, b, 8),
              Differ(a, b, 16), Differ(a, b, 32), Differ(a, b, 64), Differ(a, b, 128))
  BY DifferRange DEF AreBits
<1>3. NumberOf(Bit(x, 1), Bit(x, 2), Bit(x, 4), Bit(x, 8), Bit(x, 16), Bit(x, 32), Bit(x, 64),
               Bit(x, 128))
        = x
  BY ByteIsItsBits DEF NumberOf
<1>4. NumberOf(Differ(a, b, 1), Differ(a, b, 2), Differ(a, b, 4), Differ(a, b, 8),
               Differ(a, b, 16), Differ(a, b, 32), Differ(a, b, 64), Differ(a, b, 128))
        = XorByte(a, b)
  BY XorByteIsSum DEF NumberOf
<1>5. NumberOf(Bit(x, 1), Bit(x, 2), Bit(x, 4), Bit(x, 8), Bit(x, 16), Bit(x, 32), Bit(x, 64),
               Bit(x, 128))
        = NumberOf(Differ(a, b, 1), Differ(a, b, 2), Differ(a, b, 4), Differ(a, b, 8),
               Differ(a, b, 16), Differ(a, b, 32), Differ(a, b, 64), Differ(a, b, 128))
  BY <1>3, <1>4
<1>6. /\ Bit(x, 1) = Differ(a, b, 1) /\ Bit(x, 2) = Differ(a, b, 2)
      /\ Bit(x, 4) = Differ(a, b, 4) /\ Bit(x, 8) = Differ(a, b, 8)
      /\ Bit(x, 16) = Differ(a, b, 16) /\ Bit(x, 32) = Differ(a, b, 32)
      /\ Bit(x, 64) = Differ(a, b, 64) /\ Bit(x, 128) = Differ(a, b, 128)
  BY <1>1, <1>2, <1>5, EightBitsTell
<1> QED
  BY <1>6 DEF ByteBits

(* The register with the next byte in it, as calculate_crc16 adds it.      *)
WithByte(w, byte) == 256 * XorByte(w \div 256, byte) + (w % 256)

LEMMA BitsWithByte ==
  ASSUME NEW w \in Nat, w <= 65535, NEW byte \in Nat, byte <= 255
  PROVE  /\ WithByte(w, byte) \in Nat /\ WithByte(w, byte) <= 65535
         /\ \A place \in ByteBits :
              /\ Bit(WithByte(w, byte), 256 * place) = (Bit(w, 256 * place) + Bit(byte, place)) % 2
              /\ Bit(WithByte(w, byte), place) = Bit(w, place)
<1> PICK h \in Nat : h = w \div 256 /\ h <= 255
  OBVIOUS
<1> PICK l \in Nat : l = w % 256 /\ l <= 255 /\ w = 256 * h + l
  OBVIOUS
<1> PICK x \in Nat : x = XorByte(h, byte) /\ x <= 255
  BY XorByteIsByte
<1> PICK y \in Nat : y = 256 * x + l /\ y <= 65535
  OBVIOUS
<1>1. WithByte(w, byte) = y
  BY DEF WithByte
<1>2. \A place \in ByteBits : Bit(w, 256 * place) = Bit(h, place) /\ Bit(w, place) = Bit(l, place)
  BY BitsOfTwoBytes
<1>3. \A place \in ByteBits : Bit(y, 256 * place) = Bit(x, place) /\ Bit(y, place) = Bit(l, place)
  BY BitsOfTwoBytes
<1>4. \A place \in ByteBits : Bit(x, place) = Differ(h, byte, place)
  BY XorByteBits
<1>5. \A place \in ByteBits : Differ(h, byte, place) = (Bit(h, place) + Bit(byte, place)) % 2
  <2>1. \A place \in ByteBits : place \in Nat \ {0}
    BY DEF ByteBits
  <2> QED
    BY <2>1, DifferIsSum
<1> QED
  BY <1>1, <1>2, <1>3, <1>4, <1>5

-----------------------------------------------------------------------------
(* The register as a set: the ones among its bits, the highest first.      *)
WordValues ==
  <<32768, 16384, 8192, 4096, 2048, 1024, 512, 256, 128, 64, 32, 16, 8, 4, 2, 1>>

OnesOfWord(w) == {e \in 1..16 : Bit(w, WordValues[e]) = 1}
OnesOfByte(byte) == {e \in 1..8 : Bit(byte, BitValues[e]) = 1}

(* The values of the bits.                                                 *)
LEMMA ValuesOfBits ==
  /\ \A e \in 1..16 : /\ WordValues[e] \in WordBits
                      /\ WordValues[e] = 32768 <=> e = 1
                      /\ WordValues[e] = 4096 <=> e = 4
                      /\ WordValues[e] = 32 <=> e = 11
                      /\ WordValues[e] = 1 <=> e = 16
  /\ \A e \in 1..15 : /\ WordValues[e] = 2 * WordValues[e + 1]
                      /\ WordValues[e + 1] \in WordBits \ {32768}
  /\ \A e \in 1..8 : /\ BitValues[e] \in ByteBits
                     /\ WordValues[e] = 256 * BitValues[e]
                     /\ WordValues[e + 8] = BitValues[e]
BY SMTT(30) DEF WordValues, BitValues, WordBits, ByteBits

(* A bit is 0 or 1.                                                        *)
LEMMA BitRange ==
  ASSUME NEW n \in Nat, NEW place \in Nat \ {0}
  PROVE  Bit(n, place) \in 0..1
BY DEF Bit

(* After a shift by ShiftBit a place has the one of its neighbour, and the *)
(* places of the polynomial are changed if a one was shifted out.          *)
LEMMA OnesAfterShift ==
  ASSUME NEW w \in Crc16, NEW e \in 1..16
  PROVE  /\ w >= 32768 <=> 1 \in OnesOfWord(w)
         /\ e \in OnesOfWord(ShiftBit(w)) <=>
              ((e + 1 \in OnesOfWord(w)) # (1 \in OnesOfWord(w) /\ e \in {4, 11, 16}))
<1> PICK d \in Nat : d = (2 * w) % 65536 /\ d <= 65535
  BY WordRange
<1> w \in Nat /\ w <= 65535
  BY WordRange
<1>1. w >= 32768 <=> 1 \in OnesOfWord(w)
  BY ShiftedBits DEF OnesOfWord, WordValues
<1>2. e \in OnesOfWord(d) <=> e + 1 \in OnesOfWord(w)
  <2>1. CASE e = 16
    <3>1. Bit(d, 1) = 0 /\ WordValues[e] = 1
      BY <2>1, ShiftedBits, ValuesOfBits
    <3>2. e + 1 \notin 1..16
      BY <2>1
    <3> QED
      BY <3>1, <3>2 DEF OnesOfWord
  <2>2. CASE e # 16
    <3>1. e \in 1..15 /\ e + 1 \in 1..16
      BY <2>2
    <3>2. WordValues[e] = 2 * WordValues[e + 1] /\ WordValues[e + 1] \in WordBits \ {32768}
      BY <3>1, ValuesOfBits
    <3>3. Bit(d, 2 * WordValues[e + 1]) = Bit(w, WordValues[e + 1])
      BY <3>2, ShiftedBits
    <3>4. Bit(d, WordValues[e]) = Bit(w, WordValues[e + 1])
      BY <3>2, <3>3
    <3> QED
      BY <3>1, <3>4 DEF OnesOfWord
  <2> QED
    BY <2>1, <2>2
<1>3. e \in OnesOfWord(XorPolynomial(d)) <=> (e \in OnesOfWord(d)) # (e \in {4, 11, 16})
  <2> PICK a \in Nat : a = Toggle(d, 1) /\ a <= 65535 /\ Toggled(a, d, 1)
    BY ToggledBits
  <2> PICK b \in Nat : b = Toggle(a, 32) /\ b <= 65535 /\ Toggled(b, a, 32)
    BY ToggledBits
  <2> PICK c \in Nat : c = Toggle(b, 4096) /\ c <= 65535 /\ Toggled(c, b, 4096)
    BY ToggledBits
  <2>1. c = XorPolynomial(d)
    BY DEF XorPolynomial
  <2> DEFINE v == WordValues[e]
  <2>2. /\ v \in WordBits /\ v \in Nat \ {0}
        /\ v = 4096 <=> e = 4
        /\ v = 32 <=> e = 11
        /\ v = 1 <=> e = 16
    BY ValuesOfBits DEF WordBits
  <2> HIDE DEF v
  <2>3. Bit(a, v) = IF v = 1 THEN 1 - Bit(d, v) ELSE Bit(d, v)
    BY <2>2 DEF Toggled
  <2>4. Bit(b, v) = IF v = 32 THEN 1 - Bit(a, v) ELSE Bit(a, v)
    BY <2>2 DEF Toggled
  <2>5. Bit(c, v) = IF v = 4096 THEN 1 - Bit(b, v) ELSE Bit(b, v)
    BY <2>2 DEF Toggled
  <2>6. Bit(d, v) \in 0..1
    BY <2>2, BitRange
  <2>7. Bit(c, v) = IF e \in {4, 11, 16} THEN 1 - Bit(d, v) ELSE Bit(d, v)
    BY <2>2, <2>3, <2>4, <2>5
  <2>8. Bit(c, v) = 1 <=> (Bit(d, v) = 1) # (e \in {4, 11, 16})
    BY <2>6, <2>7
  <2>9. (e \in OnesOfWord(c) <=> Bit(c, v) = 1) /\ (e \in OnesOfWord(d) <=> Bit(d, v) = 1)
    BY DEF OnesOfWord, v
  <2> QED
    BY <2>1, <2>8, <2>9
<1>4. CASE w >= 32768
  <2>1. ShiftBit(w) = XorPolynomial(d)
    BY <1>4 DEF ShiftBit
  <2> QED
    BY <1>1, <1>2, <1>3, <1>4, <2>1
<1>5. CASE ~(w >= 32768)
  <2>1. ShiftBit(w) = d
    BY <1>5 DEF ShiftBit
  <2> QED
    BY <1>1, <1>2, <1>5, <2>1
<1> QED
  BY <1>1, <1>4, <1>5

(* With the next byte, the upper half changes where the byte has ones.     *)
LEMMA OnesWithByte ==
  ASSUME NEW w \in Crc16, NEW byte \in Format!Byte, NEW e \in 1..16
  PROVE  /\ WithByte(w, byte) \in Crc16
         /\ e \in OnesOfWord(WithByte(w, byte)) <=> (e \in OnesOfWord(w)) # (e \in OnesOfByte(byte))
<1> w \in Nat /\ w <= 65535 /\ byte \in Nat /\ byte <= 255
  BY WordRange, ByteRange
<1> PICK x \in Nat : x = WithByte(w, byte) /\ x <= 65535
  BY BitsWithByte
<1>1. CASE e \in 1..8
  <2> DEFINE v == BitValues[e]
  <2>1. v \in ByteBits /\ v \in Nat \ {0} /\ WordValues[e] = 256 * v
    BY <1>1, ValuesOfBits DEF ByteBits
  <2> HIDE DEF v
  <2>2. Bit(x, 256 * v) = (Bit(w, 256 * v) + Bit(byte, v)) % 2
    BY <2>1, BitsWithByte
  <2>3. Bit(w, 256 * v) \in 0..1 /\ Bit(byte, v) \in 0..1
    BY <2>1, BitRange
  <2>4. Bit(x, 256 * v) = 1 <=> (Bit(w, 256 * v) = 1) # (Bit(byte, v) = 1)
    BY <2>2, <2>3
  <2>5. /\ e \in OnesOfWord(x) <=> Bit(x, 256 * v) = 1
        /\ e \in OnesOfWord(w) <=> Bit(w, 256 * v) = 1
        /\ e \in OnesOfByte(byte) <=> Bit(byte, v) = 1
    BY <1>1, <2>1 DEF OnesOfWord, OnesOfByte, v
  <2> QED
    BY <2>4, <2>5, WordRange
<1>2. CASE e \notin 1..8
  <2> PICK j \in 1..8 : e = j + 8
    BY <1>2
  <2> DEFINE v == BitValues[j]
  <2>1. v \in ByteBits /\ WordValues[e] = v
    BY ValuesOfBits
  <2>2. Bit(x, v) = Bit(w, v)
    BY <2>1, BitsWithByte
  <2>3. e \notin OnesOfByte(byte)
    BY <1>2 DEF OnesOfByte
  <2>4. (e \in OnesOfWord(x) <=> Bit(x, v) = 1) /\ (e \in OnesOfWord(w) <=> Bit(w, v) = 1)
    BY <2>1 DEF OnesOfWord
  <2> QED
    BY <2>2, <2>3, <2>4, WordRange
<1> QED
  BY <1>1, <1>2

-----------------------------------------------------------------------------
(* The division: the register is a window of 16 places on the dividend,    *)
(* behind which the bytes to come stand as they are.                       *)
WordAt(w, m) == {p \in Nat : p - m \in OnesOfWord(w)}
ByteAt(byte, m) == {p \in Nat : p - m \in OnesOfByte(byte)}

(* To subtract is to say where two sets differ.                            *)
LEMMA SubtractDiffers ==
  ASSUME NEW A, NEW B
  PROVE  \A p : p \in Subtract(A, B) <=> (p \in A) # (p \in B)
BY DEF Subtract

(* In any order.                                                           *)
LEMMA SubtractOrder ==
  ASSUME NEW A, NEW B, NEW C
  PROVE  /\ Subtract(Subtract(A, B), C) = Subtract(Subtract(A, C), B)
         /\ Subtract(A, Subtract(B, C)) = Subtract(Subtract(A, B), C)
BY DEF Subtract

(* One shift of the register is one step of the division.                  *)
LEMMA ShiftDivides ==
  ASSUME NEW w \in Crc16, NEW m \in Nat, NEW rest, \A p \in rest : p \in Nat /\ p > m + 1
  PROVE  Divide(Subtract(WordAt(w, m), rest), m + 1)
           = Subtract(WordAt(ShiftBit(w), m + 1), rest)
<1> DEFINE k == m + 1  A == WordAt(w, m)  P == {k, k + 4, k + 11, k + 16}
<1>1. k \in Nat /\ k \notin rest
  OBVIOUS
<1>2. k \in A <=> 1 \in OnesOfWord(w)
  BY DEF WordAt
<1>3. k \in Subtract(A, rest) <=> k \in A
  BY <1>1, SubtractDiffers
<1>4. WordAt(ShiftBit(w), k) = IF k \in A THEN Subtract(A, P) ELSE A
  <2> SUFFICES ASSUME NEW p
               PROVE  p \in WordAt(ShiftBit(w), k) <=>
                        IF k \in A THEN p \in Subtract(A, P) ELSE p \in A
    OBVIOUS
  <2>0. OnesOfWord(w) \subseteq 1..16 /\ OnesOfWord(ShiftBit(w)) \subseteq 1..16
    BY DEF OnesOfWord
  <2>1. CASE p \in Nat /\ p - k \in 1..16
    <3> PICK e \in 1..16 : e = p - k /\ p = k + e /\ p - m = e + 1
      BY <2>1
    <3>1. p \in WordAt(ShiftBit(w), k) <=> e \in OnesOfWord(ShiftBit(w))
      BY <2>1 DEF WordAt
    <3>2. p \in A <=> e + 1 \in OnesOfWord(w)
      BY <2>1 DEF WordAt
    <3>3. p \in P <=> e \in {4, 11, 16}
      BY <1>1
    <3>4. e \in OnesOfWord(ShiftBit(w)) <=>
            ((e + 1 \in OnesOfWord(w)) # (1 \in OnesOfWord(w) /\ e \in {4, 11, 16}))
      BY OnesAfterShift
    <3>5. p \in Subtract(A, P) <=> (p \in A) # (p \in P)
      BY SubtractDiffers
    <3> HIDE DEF A, P
    <3> QED
      BY <1>2, <3>1, <3>2, <3>3, <3>4, <3>5
  <2>2. CASE p = k
    <3>1. p - k \notin 1..16 /\ p \in P
      BY <1>1, <2>2
    <3>2. p \notin WordAt(ShiftBit(w), k)
      BY <2>0, <3>1 DEF WordAt
    <3>3. p \in Subtract(A, P) <=> (p \in A) # (p \in P)
      BY SubtractDiffers
    <3> QED
      BY <2>2, <3>1, <3>2, <3>3
  <2>3. CASE p # k /\ ~(p \in Nat /\ p - k \in 1..16)
    <3>1. p \notin WordAt(ShiftBit(w), k)
      BY <2>0, <2>3 DEF WordAt
    <3>2. p \notin A
      BY <1>1, <2>0, <2>3 DEF WordAt
    <3>3. p \notin P
      BY <1>1, <2>3
    <3>4. p \in Subtract(A, P) <=> (p \in A) # (p \in P)
      BY SubtractDiffers
    <3> QED
      BY <3>1, <3>2, <3>3, <3>4
  <2> QED
    BY <2>1, <2>2, <2>3
<1>5. Divide(Subtract(A, rest), k)
        = IF k \in A THEN Subtract(Subtract(A, rest), P) ELSE Subtract(A, rest)
  BY <1>3 DEF Divide
<1>6. Subtract(Subtract(A, rest), P) = Subtract(Subtract(A, P), rest)
  BY SubtractOrder
<1> HIDE DEF A, P, k
<1>7. Divide(Subtract(A, rest), k) = Subtract(WordAt(ShiftBit(w), k), rest)
  BY <1>4, <1>5, <1>6
<1> QED
  BY <1>7 DEF A, k

(* Eight of them are what DivideByte does.                                 *)
LEMMA EightShiftsDivide ==
  ASSUME NEW w \in Crc16, NEW m \in Nat, NEW rest, \A p \in rest : p \in Nat /\ p > m + 8
  PROVE  /\ ShiftByte[w] \in Crc16
         /\ DivideByte(Subtract(WordAt(w, m), rest), m)
              = Subtract(WordAt(ShiftByte[w], m + 8), rest)
<1> DEFINE two(o, j) == Divide(Divide(o, j + 1), j + 2)
           four(o, j) == two(two(o, j), j + 2)
           twice(c) == ShiftBit(ShiftBit(c))
           fourTimes(c) == twice(twice(c))
           D(c, j) == Subtract(WordAt(c, j), rest)
<1>1. ASSUME NEW c \in Crc16, NEW j \in Nat, j + 1 <= m + 8
      PROVE  ShiftBit(c) \in Crc16 /\ Divide(D(c, j), j + 1) = D(ShiftBit(c), j + 1)
  <2>1. \A p \in rest : p \in Nat /\ p > j + 1
    BY <1>1
  <2> QED
    BY <2>1, ShiftDivides, ShiftBitIsInjective
<1> HIDE DEF D
<1>2. ASSUME NEW c \in Crc16, NEW j \in Nat, j + 2 <= m + 8
      PROVE  twice(c) \in Crc16 /\ two(D(c, j), j) = D(twice(c), j + 2)
  <2> PICK e \in Nat : e = j + 1 /\ e + 1 = j + 2 /\ e + 1 <= m + 8 /\ j + 1 <= m + 8
    BY <1>2
  <2> PICK d \in Crc16 : d = ShiftBit(c) /\ Divide(D(c, j), j + 1) = D(d, e)
    BY <1>1
  <2>1. ShiftBit(d) \in Crc16 /\ Divide(D(d, e), e + 1) = D(ShiftBit(d), e + 1)
    BY <1>1
  <2> QED
    BY <2>1
<1> HIDE DEF two, twice
<1>3. ASSUME NEW c \in Crc16, NEW j \in Nat, j + 4 <= m + 8
      PROVE  fourTimes(c) \in Crc16 /\ four(D(c, j), j) = D(fourTimes(c), j + 4)
  <2> PICK e \in Nat : e = j + 2 /\ e + 2 = j + 4 /\ e + 2 <= m + 8 /\ j + 2 <= m + 8
    BY <1>3
  <2> PICK d \in Crc16 : d = twice(c) /\ two(D(c, j), j) = D(d, e)
    BY <1>2
  <2>1. twice(d) \in Crc16 /\ two(D(d, e), e) = D(twice(d), e + 2)
    BY <1>2
  <2> QED
    BY <2>1
<1> HIDE DEF four, fourTimes
<1>4. fourTimes(fourTimes(w)) \in Crc16 /\ four(four(D(w, m), m), m + 4) = D(fourTimes(fourTimes(w)), m + 8)
  <2> PICK e \in Nat : e = m + 4 /\ e + 4 = m + 8 /\ e + 4 <= m + 8 /\ m + 4 <= m + 8
    OBVIOUS
  <2> PICK d \in Crc16 : d = fourTimes(w) /\ four(D(w, m), m) = D(d, e)
    BY <1>3
  <2>1. fourTimes(d) \in Crc16 /\ four(D(d, e), e) = D(fourTimes(d), e + 4)
    BY <1>3
  <2> QED
    BY <2>1
<1>5. ShiftByte[w] = fourTimes(fourTimes(w))
  BY DEF ShiftByte, fourTimes, twice
<1>6. DivideByte(D(w, m), m) = four(four(D(w, m), m), m + 4)
  BY DEF DivideByte, four, two
<1> QED
  BY <1>4, <1>5, <1>6 DEF D

(* The next byte joins the window.                                         *)
LEMMA ByteJoinsWord ==
  ASSUME NEW c \in Crc16, NEW byte \in Format!Byte, NEW m \in Nat
  PROVE  Subtract(WordAt(c, m), ByteAt(byte, m)) = WordAt(WithByte(c, byte), m)
<1> SUFFICES ASSUME NEW p
             PROVE  p \in Subtract(WordAt(c, m), ByteAt(byte, m)) <=> p \in WordAt(WithByte(c, byte), m)
  OBVIOUS
<1>1. p \in Subtract(WordAt(c, m), ByteAt(byte, m)) <=> (p \in WordAt(c, m)) # (p \in ByteAt(byte, m))
  BY SubtractDiffers
<1>2. CASE p \in Nat /\ p - m \in 1..16
  <2> PICK e \in 1..16 : e = p - m
    BY <1>2
  <2>1. e \in OnesOfWord(WithByte(c, byte)) <=> (e \in OnesOfWord(c)) # (e \in OnesOfByte(byte))
    BY OnesWithByte
  <2>2. /\ p \in WordAt(c, m) <=> e \in OnesOfWord(c)
        /\ p \in ByteAt(byte, m) <=> e \in OnesOfByte(byte)
        /\ p \in WordAt(WithByte(c, byte), m) <=> e \in OnesOfWord(WithByte(c, byte))
    BY <1>2 DEF WordAt, ByteAt
  <2> QED
    BY <1>1, <2>1, <2>2
<1>3. CASE ~(p \in Nat /\ p - m \in 1..16)
  BY <1>1, <1>3 DEF WordAt, ByteAt, OnesOfWord, OnesOfByte
<1> QED
  BY <1>2, <1>3

(* The place k of a string is the place e of its byte j.                   *)
IsPlace(k, j, e) == k = 8 * (j - 1) + e

LEMMA PlaceInByte ==
  ASSUME NEW N \in Nat, NEW j \in 1..N, NEW e \in 1..8, NEW k \in Nat, IsPlace(k, j, e)
  PROVE  k \in 1..(8 * N) /\ (k + 7) \div 8 = j /\ ((k - 1) % 8) + 1 = e
<1> PICK q \in Nat : q = j - 1 /\ q + 1 <= N
  OBVIOUS
<1>1. k = 8 * q + e
  BY DEF IsPlace
<1>2. k \in 1..(8 * N)
  BY <1>1
<1>3. (k + 7) \div 8 = q + 1
  BY <1>1
<1>4. (k - 1) % 8 = e - 1
  BY <1>1
<1> QED
  BY <1>2, <1>3, <1>4

(* The ones of a message, byte by byte.                                    *)
LEMMA OnesByPlace ==
  ASSUME NEW message \in Bytes, NEW N \in Nat, Len(message) = N,
         NEW j \in 1..N, NEW e \in 1..8, NEW k \in Nat, IsPlace(k, j, e)
  PROVE  k \in Ones(message) <=> e \in OnesOfByte(message[j])
<1>1. k \in 1..(8 * N) /\ (k + 7) \div 8 = j /\ ((k - 1) % 8) + 1 = e
  BY PlaceInByte
<1>2. k \in Ones(message) <=>
        (message[(k + 7) \div 8] \div BitValues[((k - 1) % 8) + 1]) % 2 = 1
  BY <1>1 DEF Ones
<1>3. e \in OnesOfByte(message[j]) <=> (message[j] \div BitValues[e]) % 2 = 1
  BY DEF OnesOfByte, Bit
<1> QED
  BY <1>1, <1>2, <1>3

(* The ones behind the first j bytes.                                      *)
Later(message, j) == {p \in Ones(message) : p > 8 * j}

LEMMA LaterOnes ==
  ASSUME NEW message \in Bytes
  PROVE  /\ Ones(message) \subseteq 1..(8 * Len(message))
         /\ Later(message, 0) = Ones(message)
         /\ Later(message, Len(message)) = {}
         /\ \A j \in 1..Len(message) :
              Later(message, j - 1)
                = Subtract(ByteAt(message[j], 8 * (j - 1)), Later(message, j))
<1> PICK N \in Nat : N = Len(message)
  BY BytesShape
<1>1. Ones(message) \subseteq 1..(8 * N)
  BY DEF Ones
<1>2. Later(message, 0) = Ones(message)
  BY <1>1 DEF Later
<1>3. Later(message, N) = {}
  BY <1>1 DEF Later
<1>4. ASSUME NEW j \in 1..N
      PROVE  Later(message, j - 1) = Subtract(ByteAt(message[j], 8 * (j - 1)), Later(message, j))
  <2> DEFINE m == 8 * (j - 1)
  <2>0. m \in Nat /\ m + 8 = 8 * j
    OBVIOUS
  <2> HIDE DEF m
  <2>1. Later(message, j - 1) = {p \in Ones(message) : p > m}
    BY DEF Later, m
  <2>2. Later(message, j) = {p \in Ones(message) : p > m + 8}
    BY <2>0 DEF Later
  <2> SUFFICES ASSUME NEW p
               PROVE  p \in Later(message, j - 1) <=>
                        p \in Subtract(ByteAt(message[j], m), Later(message, j))
    BY DEF m
  <2>3. p \in Subtract(ByteAt(message[j], m), Later(message, j)) <=>
          (p \in ByteAt(message[j], m)) # (p \in Later(message, j))
    BY SubtractDiffers
  <2>4. CASE p \in Nat /\ p - m \in 1..8
    <3> PICK e \in 1..8 : e = p - m /\ p = m + e
      BY <2>0, <2>4
    <3>1. p \in Ones(message) <=> e \in OnesOfByte(message[j])
      <4>1. IsPlace(p, j, e)
        BY <2>4 DEF IsPlace, m
      <4> QED
        BY <2>4, <4>1, OnesByPlace
    <3>2. p \in ByteAt(message[j], m) <=> e \in OnesOfByte(message[j])
      BY <2>4 DEF ByteAt
    <3>3. p > m /\ ~(p > m + 8)
      BY <2>0, <2>4
    <3> QED
      BY <2>1, <2>2, <2>3, <3>1, <3>2, <3>3
  <2>5. CASE ~(p \in Nat /\ p - m \in 1..8)
    <3>1. p \notin ByteAt(message[j], m)
      BY <2>5 DEF ByteAt, OnesOfByte
    <3>2. ASSUME p \in Nat PROVE p > m <=> p > m + 8
      BY <2>0, <2>5, <3>2
    <3>3. p \in Ones(message) => p \in Nat
      BY <1>1
    <3> QED
      BY <2>1, <2>2, <2>3, <3>1, <3>2, <3>3
  <2> QED
    BY <2>4, <2>5
<1> QED
  BY <1>1, <1>2, <1>3, <1>4

(* A turn of the outer loop and the division by the places of a byte.      *)
LEMMA TurnDivides ==
  ASSUME NEW message \in Bytes, NEW j \in 1..Len(message), NEW c \in Crc16
  PROVE  /\ AddByte(c, message[j]) \in Crc16
         /\ DivideByte(Subtract(WordAt(c, 8 * (j - 1)), Later(message, j - 1)), 8 * (j - 1))
              = Subtract(WordAt(AddByte(c, message[j]), 8 * j), Later(message, j))
<1> DEFINE m == 8 * (j - 1)  byte == message[j]  rest == Later(message, j)
           w == WithByte(c, byte)
<1> PICK N \in Nat : N = Len(message) /\ j \in 1..N
  BY BytesShape
<1>1. byte \in Format!Byte
  BY BytesShape
<1>2. m \in Nat /\ m + 8 = 8 * j
  OBVIOUS
<1>3. \A p \in rest : p \in Nat /\ p > m + 8
  BY <1>2, LaterOnes DEF Later
<1>4. Later(message, j - 1) = Subtract(ByteAt(byte, m), rest)
  BY LaterOnes
<1>5. w \in Crc16 /\ AddByte(c, byte) = ShiftByte[w]
  <2>1. w \in Crc16
    BY <1>1, OnesWithByte
  <2> QED
    BY <1>1, <2>1 DEF AddByte, Turn, WithByte, Format!Byte
<1> HIDE DEF m, byte, rest
<1>6. Subtract(WordAt(c, m), ByteAt(byte, m)) = WordAt(w, m)
  BY <1>1, <1>2, ByteJoinsWord
<1> HIDE DEF w
<1>7. Subtract(WordAt(c, m), Subtract(ByteAt(byte, m), rest))
        = Subtract(Subtract(WordAt(c, m), ByteAt(byte, m)), rest)
  BY SubtractOrder
<1>8. /\ ShiftByte[w] \in Crc16
      /\ DivideByte(Subtract(WordAt(w, m), rest), m)
           = Subtract(WordAt(ShiftByte[w], m + 8), rest)
  BY <1>2, <1>3, <1>5, EightShiftsDivide
<1>9. DivideByte(Subtract(WordAt(c, m), Later(message, j - 1)), m)
        = Subtract(WordAt(AddByte(c, byte), 8 * j), rest)
  BY <1>2, <1>4, <1>5, <1>6, <1>7, <1>8
<1> QED
  BY <1>5, <1>8, <1>9 DEF m, byte, rest

(* The ones of the two bytes a checksum is sent as.                        *)
LEMMA OnesOfTwoBytes ==
  ASSUME NEW c \in Crc16
  PROVE  Ones(BigEndian16(c)) = OnesOfWord(c)
<1> DEFINE high == (c \div 256) % 256  low == c % 256  bytes == BigEndian16(c)
<1>1. /\ c \in Nat /\ high \in Nat /\ high <= 255 /\ low \in Nat /\ low <= 255
      /\ c = 256 * high + low
  BY WordRange
<1>2. bytes \in Bytes /\ Len(bytes) = 2 /\ bytes[1] = high /\ bytes[2] = low
  <2>1. bytes = <<high, low>>
    BY DEF BigEndian16
  <2>2. Sized(bytes, 2)
    BY BigEndianShape
  <2> HIDE DEF high, low, bytes
  <2> QED
    BY <2>1, <2>2 DEF Sized
<1> HIDE DEF high, low, bytes
<1>3. \A place \in ByteBits :
        Bit(c, 256 * place) = Bit(high, place) /\ Bit(c, place) = Bit(low, place)
  BY <1>1, BitsOfTwoBytes
<1>4. Ones(bytes) \subseteq 1..16 /\ OnesOfWord(c) \subseteq 1..16
  BY <1>2 DEF Ones, OnesOfWord
<1>5. ASSUME NEW p \in 1..16 PROVE p \in Ones(bytes) <=> p \in OnesOfWord(c)
  <2>1. CASE p \in 1..8
    <3>1. p \in Ones(bytes) <=> p \in OnesOfByte(high)
      <4> PICK N \in Nat : N = 2 /\ N = Len(bytes)
        BY <1>2
      <4> PICK j \in 1..N : j = 1
        OBVIOUS
      <4> PICK k \in Nat : k = p
        OBVIOUS
      <4> PICK e \in 1..8 : e = p
        BY <2>1
      <4>1. IsPlace(k, j, e)
        BY DEF IsPlace
      <4>2. k \in Ones(bytes) <=> e \in OnesOfByte(bytes[j])
        BY <1>2, <4>1, OnesByPlace
      <4> QED
        BY <1>2, <4>2
    <3>2. BitValues[p] \in ByteBits /\ WordValues[p] = 256 * BitValues[p]
      BY <2>1, ValuesOfBits
    <3>3. Bit(c, WordValues[p]) = Bit(high, BitValues[p])
      BY <1>3, <3>2
    <3> QED
      BY <2>1, <3>1, <3>3 DEF OnesOfByte, OnesOfWord
  <2>2. CASE p \notin 1..8
    <3> PICK e \in 1..8 : p = e + 8
      BY <2>2
    <3>1. p \in Ones(bytes) <=> e \in OnesOfByte(low)
      <4> PICK N \in Nat : N = 2 /\ N = Len(bytes)
        BY <1>2
      <4> PICK j \in 1..N : j = 2
        OBVIOUS
      <4> PICK k \in Nat : k = p
        OBVIOUS
      <4>1. IsPlace(k, j, e)
        BY DEF IsPlace
      <4>2. k \in Ones(bytes) <=> e \in OnesOfByte(bytes[j])
        BY <1>2, <4>1, OnesByPlace
      <4> QED
        BY <1>2, <4>2
    <3>2. BitValues[e] \in ByteBits /\ WordValues[p] = BitValues[e]
      BY ValuesOfBits
    <3>3. Bit(c, WordValues[p]) = Bit(low, BitValues[e])
      BY <1>3, <3>2
    <3> QED
      BY <3>1, <3>3 DEF OnesOfByte, OnesOfWord
  <2> QED
    BY <2>1, <2>2
<1>6. Ones(bytes) = OnesOfWord(c)
  BY <1>4, <1>5
<1> QED
  BY <1>6 DEF bytes

(* The division by the places of each byte, and what is left after each.   *)
Turns(message) ==
  [j \in 1..Len(message) |->
     [ones \in SUBSET (1..(8 * Len(message) + 16)) |-> DivideByte(ones, 8 * (j - 1))]]

Dividends(f, message) ==
  f = [j \in 0..Len(message) |->
         IF j = 0 THEN Subtract(Ones(message), 1..16) ELSE Turns(message)[j][f[j - 1]]]

(* The remainder is what is left after the last byte.                      *)
LEMMA RemainderIsLast ==
  ASSUME NEW message
  PROVE  Remainder(message) =
           {k - 8 * Len(message) : k \in (CHOOSE f : Dividends(f, message))[Len(message)]}
BY DEF Remainder, Dividends, Turns

(* The register starts as 16 ones.                                         *)
LEMMA InitialOnes == WordAt(InitialCrc, 0) = 1..16
<1>1. \A e \in {1, 2, 3, 4, 5, 6, 7, 8, 9, 10, 11, 12, 13, 14, 15, 16} :
        Bit(65535, WordValues[e]) = 1
  BY DEF Bit, WordValues
<1>2. OnesOfWord(InitialCrc) = 1..16
  BY <1>1 DEF OnesOfWord, InitialCrc
<1> QED
  BY <1>2 DEF WordAt

(* The loops of calculate_crc16 divide, for every message: the register of *)
(* 16 bits holds what the division has changed of the dividend, and drops  *)
(* only what it is done with.                                              *)
THEOREM CrcIsTheRemainder ==
  ASSUME NEW message \in Seq(Format!Byte)
  PROVE  Ones(BigEndian16(calculate_crc16(message))) = Remainder(message)
<1> PICK N \in Nat : N = Len(message)
  OBVIOUS
<1>1. message \in Bytes
  BY DEF Bytes
<1> PICK r \in [0..N -> Crc16] :
       /\ r[0] = InitialCrc
       /\ \A k \in 1..N : r[k] = AddByte(r[k - 1], message[k])
       /\ calculate_crc16(message) = r[N]
  BY CrcOfBytes
<1> DEFINE Places == 1..(8 * N + 16)
           D(j) == Subtract(WordAt(r[j], 8 * j), Later(message, j))
           g == [j \in 0..N |-> D(j)]
           f == CHOOSE f : Dividends(f, message)
<1>2. \A j \in 0..N : D(j) \in SUBSET Places
  <2> SUFFICES ASSUME NEW j \in 0..N, NEW p, p \in D(j) PROVE p \in Places
    OBVIOUS
  <2>1. p \in WordAt(r[j], 8 * j) \/ p \in Ones(message)
    BY DEF Later, Subtract
  <2>2. Ones(message) \subseteq 1..(8 * N)
    BY <1>1, LaterOnes
  <2>3. CASE p \in Ones(message)
    BY <2>2, <2>3
  <2>4. CASE p \in WordAt(r[j], 8 * j)
    <3>1. p \in Nat /\ p - 8 * j \in 1..16
      BY <2>4 DEF WordAt, OnesOfWord
    <3> QED
      BY <3>1
  <2> QED
    BY <2>1, <2>3, <2>4
<1>3. D(0) = Subtract(Ones(message), 1..16)
  <2>1. D(0) = Subtract(WordAt(InitialCrc, 0), Ones(message))
    BY <1>1, LaterOnes
  <2> QED
    BY <2>1, InitialOnes DEF Subtract
<1>4. ASSUME NEW j \in 1..N PROVE Turns(message)[j][D(j - 1)] = D(j)
  <2>1. j - 1 \in 0..N /\ r[j - 1] \in Crc16 /\ r[j] = AddByte(r[j - 1], message[j])
    BY <1>4
  <2>2. Turns(message)[j][D(j - 1)] = DivideByte(D(j - 1), 8 * (j - 1))
    BY <1>2, <2>1 DEF Turns
  <2>3. DivideByte(Subtract(WordAt(r[j - 1], 8 * (j - 1)), Later(message, j - 1)), 8 * (j - 1))
          = Subtract(WordAt(AddByte(r[j - 1], message[j]), 8 * j), Later(message, j))
    BY <1>1, <2>1, TurnDivides
  <2> QED
    BY <2>1, <2>2, <2>3
<1> HIDE DEF D
<1>5. Dividends(g, message)
  <2>1. \A j \in 0..N :
          g[j] = IF j = 0 THEN Subtract(Ones(message), 1..16) ELSE Turns(message)[j][g[j - 1]]
    <3> TAKE j \in 0..N
    <3>1. CASE j = 0
      BY <1>3, <3>1
    <3>2. CASE j # 0
      <4>1. j \in 1..N /\ j - 1 \in 0..N
        BY <3>2
      <4> QED
        BY <1>4, <3>2, <4>1
    <3> QED
      BY <3>1, <3>2
  <2> HIDE DEF g
  <2>2. g = [j \in 0..N |-> g[j]]
    BY DEF g
  <2> QED
    BY <2>1, <2>2 DEF Dividends
<1>6. Dividends(f, message)
  BY <1>5
<1> HIDE DEF f
<1>7. /\ f[0] = D(0)
      /\ \A j \in 1..N : f[j] = Turns(message)[j][f[j - 1]]
  BY <1>3, <1>6 DEF Dividends
<1>8. f[N] = D(N)
  <2> DEFINE T == {n \in Nat : n <= N => f[n] = D(n)}
  <2>1. 0 \in T
    BY <1>7
  <2>2. ASSUME NEW n \in Nat, n \in T PROVE n + 1 \in T
    <3> SUFFICES ASSUME n + 1 <= N PROVE f[n + 1] = D(n + 1)
      OBVIOUS
    <3> PICK j \in 1..N : j = n + 1 /\ j - 1 = n
      OBVIOUS
    <3>1. f[j - 1] = D(j - 1)
      BY <2>2
    <3> QED
      BY <1>4, <1>7, <3>1
  <2> HIDE DEF T
  <2>3. Nat \subseteq T
    BY <2>1, <2>2, InductionOnSet
  <2> QED
    BY <2>3 DEF T
<1>9. D(N) = WordAt(calculate_crc16(message), 8 * N)
  BY <1>1, LaterOnes DEF D, Subtract
<1>10. Remainder(message) = {k - 8 * N : k \in WordAt(calculate_crc16(message), 8 * N)}
  BY <1>8, <1>9, RemainderIsLast DEF f
<1>11. {k - 8 * N : k \in WordAt(calculate_crc16(message), 8 * N)}
         = OnesOfWord(calculate_crc16(message))
  <2> DEFINE ones == OnesOfWord(calculate_crc16(message))
  <2>1. ones \subseteq 1..16
    BY DEF OnesOfWord
  <2>2. WordAt(calculate_crc16(message), 8 * N) = {p \in Nat : p - 8 * N \in ones}
    BY DEF WordAt
  <2> HIDE DEF ones
  <2>3. \A e \in ones : e + 8 * N \in Nat /\ (e + 8 * N) - 8 * N = e
    BY <2>1
  <2>4. {k - 8 * N : k \in {p \in Nat : p - 8 * N \in ones}} = ones
    BY <2>3
  <2> QED
    BY <2>2, <2>4 DEF ones
<1> QED
  BY <1>10, <1>11, CrcIsWord, OnesOfTwoBytes

(* The last two bytes of a packet are the checksum of what is before them. *)
LEMMA PacketTail ==
  ASSUME NEW t \in Sendable, NEW n \in Nat, n = Len(Payload(t)), NEW m \in Nat, m = n + 5
  PROVE  /\ Checked(t) \in Seq(Format!Byte)
         /\ Sized(BigEndian16(calculate_crc16(Checked(t))), 2)
         /\ Holds(Packet(t), m, BigEndian16(calculate_crc16(Checked(t))))
<1> DEFINE checked == Checked(t)  crc == calculate_crc16(checked)  tail == BigEndian16(crc)
<1>1. Sized(checked, m)
  BY PacketShape
<1>2. Packet(t) = checked \o tail
  BY DEF Checked, PacketFront, Packet, Payload, build_telemetry_packet
<1> HIDE DEF checked
<1>3. checked \in Seq(Format!Byte) /\ crc \in Crc16
  BY <1>1, CrcIsWord DEF Sized, Bytes
<1> HIDE DEF crc
<1>4. Sized(tail, 2)
  BY <1>3, BigEndianShape
<1> HIDE DEF tail
<1> PICK size \in Nat : size = m + 2
  OBVIOUS
<1>5. Holds(checked \o tail, m, tail)
  BY <1>1, <1>4, JoinedSized
<1> QED
  BY <1>2, <1>3, <1>4, <1>5 DEF checked, crc, tail

(* Cut out of the buffer, the last two bytes of a packet hold the remainder*)
(* of what is before them.                                                 *)
LEMMA RemainderIsSent ==
  ASSUME NEW t \in Sendable, NEW s, Holds(s, 0, Packet(t)),
         NEW n \in Nat, n = Len(Payload(t)),
         NEW m \in Nat, m = n + 5, NEW low \in Nat, low = m + 1, NEW high \in Nat, high = m + 2
  PROVE  Ones(Cut(s, low, high)) = Remainder(Cut(s, 1, m))
<1> DEFINE checked == Checked(t)  tail == BigEndian16(calculate_crc16(checked))
<1>1. /\ Holds(Packet(t), 0, checked) /\ Sized(checked, m)
      /\ checked \in Seq(Format!Byte)
      /\ Holds(Packet(t), m, tail) /\ Sized(tail, 2)
  BY PacketShape, PacketTail
<1>2. Ones(tail) = Remainder(checked)
  BY <1>1, CrcIsTheRemainder
<1> HIDE DEF checked, tail
<1>3. Holds(s, 0, checked) /\ Holds(s, m, tail)
  BY <1>1, HoldsInPrefix
<1>4. Cut(s, 1, m) = checked
  BY <1>1, <1>3, 1 = 0 + 1, m = 0 + m, CutOut
<1>5. Cut(s, low, high) = tail
  BY <1>1, <1>3, CutOut
<1> QED
  BY <1>2, <1>4, <1>5

-----------------------------------------------------------------------------
(* The generator with its bytes.                                           *)

(* What is drawn can be sent.                                              *)
LEMMA SamplesAreSendable == Samples \subseteq Sendable
BY LinkAssumption DEF Sendable

(* What is in transit was built from a sample, and corrupted if it says so.*)
InTransit ==
  in_transit # <<>> =>
    \E t \in Samples :
      \/ /\ wire[Len(wire)].kind = "whole"
         /\ in_transit = <<[telemetry |-> t, bytes |-> Packet(t) \o Packet(t)]>>
      \/ /\ wire[Len(wire)].kind = "corrupted"
         /\ \E target_byte \in CorruptibleBytes(Packet(t)), mask \in BitMasks :
              in_transit = <<[telemetry |-> t,
                              bytes |-> Corrupt(Packet(t), target_byte, mask) \o Packet(t)]>>

(* Each step leaves in transit what it has just built.                     *)
LEMMA InTransitStep == InTransit /\ [LinkNext]_<<vars, in_transit>> => InTransit'
<1> SUFFICES ASSUME InTransit, [LinkNext]_<<vars, in_transit>> PROVE InTransit'
  OBVIOUS
<1>1. CASE TransmitIntact
  BY <1>1 DEF TransmitIntact, Transmits, InTransit, Packet
<1>2. CASE TransmitCorrupted
  BY <1>2 DEF TransmitCorrupted, Transmits, InTransit, Packet
<1>3. CASE TransmitNothing
  BY <1>3 DEF TransmitNothing, InTransit
<1>4. CASE UNCHANGED <<vars, in_transit>>
  BY <1>4 DEF InTransit, vars
<1> QED
  BY <1>1, <1>2, <1>3, <1>4 DEF LinkNext

(* So it is in every state.                                                *)
LEMMA InTransitAlways == LinkSpec => []InTransit
<1>1. LinkInit => InTransit
  BY DEF LinkInit, InTransit
<1> QED
  BY <1>1, InTransitStep, PTL DEF LinkSpec

(* The bytes change nothing in what the generator does.                    *)
LEMMA LinkInvariance == LinkSpec => [](IInv /\ CountsMatchWire)
<1>1. LinkInit => IInv /\ CountsMatchWire
  BY InitIInv, CountsAtFirst DEF LinkInit
<1>2. IInv /\ CountsMatchWire /\ [LinkNext]_<<vars, in_transit>> => IInv' /\ CountsMatchWire'
  <2>1. [LinkNext]_<<vars, in_transit>> => [Next]_vars
    BY DEF LinkNext, TransmitIntact, TransmitCorrupted, TransmitNothing
  <2> QED
    BY <2>1, NextIInv, CountsStep
<1> QED
  BY <1>1, <1>2, PTL DEF LinkSpec

(* A packet that was not corrupted is accepted if its identifier has at    *)
(* most 39 bytes and refused if it is longer, and the reader gets back the *)
(* telemetry, from the payload alone, for every telemetry the generator    *)
(* could be given (DroneDataSimulator.cpp:21-76, SensorDataParser.cpp:320).*)
THEOREM WhatIsBuiltIsReadBack == LinkSpec => []RoundTrip
<1>1. InTransit => RoundTrip
  <2> SUFFICES ASSUME InTransit, Arrived("whole") PROVE RoundTrip
    BY DEF RoundTrip
  <2> PICK t \in Samples : in_transit = <<[telemetry |-> t, bytes |-> Packet(t) \o Packet(t)]>>
    BY DEF InTransit, Arrived
  <2> DEFINE buffer == Packet(t) \o Packet(t)
  <2>1. in_transit[1].telemetry = t /\ in_transit[1].bytes = buffer
    OBVIOUS
  <2>2. t \in Sendable /\ Packet(t) \in Bytes
    BY SamplesAreSendable, PacketIsBytes
  <2>3. Holds(buffer, 0, Packet(t))
    BY <2>2, JoinedHolds
  <2> HIDE DEF buffer
  <2>4. /\ Format!LengthAt(buffer, 0) = Len(Payload(t))
        /\ Format!TelemetryPacketAt(buffer, 0) <=> Len(t.drone_id) <= 39
        /\ deserialize_payload(PayloadView(buffer)) = t
        /\ BytesRead(PayloadView(buffer)) = Len(Payload(t))
    BY <2>2, <2>3, BuiltIsRead
  <2> QED
    BY <2>1, <2>4 DEF RoundTrip
<1> QED
  BY <1>1, InTransitAlways, PTL

(* The checksum at the end of every packet that is sent intact is the      *)
(* remainder of the polynomial division of what is before it, for every    *)
(* telemetry the generator could be given (DroneDataSimulator.cpp:70-73).  *)
THEOREM ChecksumIsRemainder == LinkSpec => []CrcIsRemainder
<1>1. InTransit => CrcIsRemainder
  <2> SUFFICES ASSUME InTransit, Arrived("whole") PROVE CrcIsRemainder
    BY DEF CrcIsRemainder
  <2> PICK t \in Samples : in_transit = <<[telemetry |-> t, bytes |-> Packet(t) \o Packet(t)]>>
    BY DEF InTransit, Arrived
  <2> DEFINE buffer == Packet(t) \o Packet(t)
  <2>1. in_transit[1].bytes = buffer
    OBVIOUS
  <2>2. t \in Sendable /\ Packet(t) \in Bytes
    BY SamplesAreSendable, PacketIsBytes
  <2>3. Holds(buffer, 0, Packet(t))
    BY <2>2, JoinedHolds
  <2> HIDE DEF buffer
  <2>4. Format!LengthAt(buffer, 0) = Len(Payload(t))
    BY <2>2, <2>3, BuiltIsRead
  <2> PICK n \in Nat : n = Len(Payload(t))
    <3>1. Len(t.drone_id) \in Nat
      BY <2>2, SendableFields
    <3>2. Payload(t) \in Bytes
      BY <2>2, <3>1, PayloadShape DEF Sized
    <3> QED
      BY <3>2, BytesShape
  <2> PICK m \in Nat : m = n + 5
    OBVIOUS
  <2>5. /\ Format!TotalPacketSize(Format!LengthAt(buffer, 0)) = m + 2
        /\ (m + 2) - Format!CRC_SIZE_BYTES = m
        /\ m + 1 \in Nat /\ m + 2 \in Nat
    BY <2>4 DEF Format!TotalPacketSize, Format!CRC_SIZE_BYTES, Format!PAYLOAD_STARTING_IDX,
                Format!HEADER_SIZE_BYTES, Format!TYPE_SIZE_BYTES, Format!LENGTH_SIZE_BYTES
  <2>6. Ones(Cut(buffer, m + 1, m + 2)) = Remainder(Cut(buffer, 1, m))
    BY <2>2, <2>3, <2>5, RemainderIsSent
  <2> QED
    BY <2>1, <2>5, <2>6 DEF CrcIsRemainder, Cut
<1> QED
  BY <1>1, InTransitAlways, PTL

(* A packet with any bit flipped, of the payload, of the checksum or of    *)
(* the length, is refused by the parser, for every telemetry, when the     *)
(* length it reads is the one sent or not a plausible one.                 *)
THEOREM FlippedBitIsDetected == LinkSpec => []CorruptionDetected
<1>1. InTransit => CorruptionDetected
  <2> DEFINE read == Format!LengthAt(in_transit[1].bytes, 0)
  <2> SUFFICES ASSUME InTransit, Arrived("corrupted"),
                      \/ read = Len(serialize_telemetry_data_to_bytes_sequence(
                                      in_transit[1].telemetry))
                      \/ ~Format!PlausibleLength(read)
               PROVE  ~Format!TelemetryPacketAt(in_transit[1].bytes, 0)
    BY DEF CorruptionDetected
  <2> PICK t \in Samples :
        \E target_byte \in CorruptibleBytes(Packet(t)), mask \in BitMasks :
          in_transit = <<[telemetry |-> t,
                          bytes |-> Corrupt(Packet(t), target_byte, mask) \o Packet(t)]>>
    BY DEF InTransit, Arrived
  <2> PICK target_byte \in CorruptibleBytes(Packet(t)), mask \in BitMasks :
        in_transit = <<[telemetry |-> t,
                        bytes |-> Corrupt(Packet(t), target_byte, mask) \o Packet(t)]>>
    OBVIOUS
  <2> DEFINE c == Corrupt(Packet(t), target_byte, mask)  buffer == c \o Packet(t)
  <2>1. in_transit[1].telemetry = t /\ in_transit[1].bytes = buffer
    OBVIOUS
  <2>2. t \in Sendable /\ Packet(t) \in Bytes
    BY SamplesAreSendable, PacketIsBytes
  <2>3. c \in Bytes
    <3> PICK at \in Nat : target_byte = at - 1
      BY CorruptibleIsNat
    <3>1. DifferAt(c, Packet(t), at)
      BY <2>2, CorruptShape
    <3> QED
      BY <3>1 DEF DifferAt
  <2>4. Holds(buffer, 0, c)
    BY <2>2, <2>3, JoinedHolds
  <2> HIDE DEF buffer
  <2>5. \/ Format!LengthAt(buffer, 0) = Len(Payload(t))
        \/ ~Format!PlausibleLength(Format!LengthAt(buffer, 0))
    BY <2>1 DEF Payload
  <2> QED
    BY <2>1, <2>2, <2>4, <2>5, CorruptedIsRefused
<1> QED
  BY <1>1, InTransitAlways, PTL

(* With the bytes of every packet, the generator still keeps its summary   *)
(* in agreement with the wire and its limit but for one packet.            *)
THEOREM LinkKeepsSummaryAndLimit == LinkSpec => [](SummaryMatchesWire /\ AtMostOneTooMany)
<1>1. IInv /\ CountsMatchWire => SummaryMatchesWire /\ AtMostOneTooMany
  BY DEF IInv, SummaryMatchesWire
<1> QED
  BY <1>1, LinkInvariance, PTL
=============================================================================
