------------------------- MODULE DroneDataSimulator -------------------------
(***************************************************************************)
(* The traffic generator: DroneDataSimulator::process_loop draws one of    *)
(* five scenarios at a time until enough packets were sent or the flag is  *)
(* cleared.  A packet is its number; what a call of send puts on the       *)
(* connection is a record [kind, packet].  Every draw is a choice.         *)
(* Operators called variants are mistakes one could make in the definition *)
(* that follows them; no behaviour uses them.                              *)
(***************************************************************************)
EXTENDS Integers, Sequences, FiniteSets

CONSTANTS
  MAX_PKGS_AMOUNT,          \* -1: no limit
  batch_size,               \* from PKGS_RATE, at least 1
  UndefinedAmounts,         \* what a distribution without a range may return
  MaxSends                  \* bound: calls of send before the last scenario

ASSUME SimulatorAssumption ==
  /\ MAX_PKGS_AMOUNT \in Nat \cup {-1}
  /\ batch_size \in Nat \ {0}
  /\ UndefinedAmounts \subseteq Int
  /\ MaxSends \in Nat

VARIABLES
  g_keep_running_system,
  pc,
  sent_packets_amount,
  i,                        \* counter of the inner loop
  amount,                   \* packets of a sequence, drawn in scenario 4
  left,                     \* those not sent yet
  m_sent_valid_packets,
  m_fragmented_packets_count,
  m_corrupted_packets_count,
  m_garbage_sequences_count,
  wire                      \* what was sent, in order

progress == <<sent_packets_amount, i, m_sent_valid_packets>>
sequence == <<amount, left>>
counts == <<m_fragmented_packets_count, m_corrupted_packets_count,
            m_garbage_sequences_count>>
vars == <<g_keep_running_system, pc, progress, sequence, counts, wire>>

Init ==
  /\ g_keep_running_system = TRUE
  /\ pc = "connect"
  /\ sent_packets_amount = 0
  /\ i = 0
  /\ amount = 0
  /\ left = 0
  /\ m_sent_valid_packets = <<>>
  /\ m_fragmented_packets_count = 0
  /\ m_corrupted_packets_count = 0
  /\ m_garbage_sequences_count = 0
  /\ wire = <<>>

NextPacket == sent_packets_amount + 1

MoreToSend == MAX_PKGS_AMOUNT = -1 \/ sent_packets_amount < MAX_PKGS_AMOUNT

send(kind, packet) == wire' = Append(wire, [kind |-> kind, packet |-> packet])

CountPacket ==
  /\ sent_packets_amount' = sent_packets_amount + 1
  /\ i' = i + 1

RecordValid == m_sent_valid_packets' = Append(m_sent_valid_packets, NextPacket)

-----------------------------------------------------------------------------
(* socket or inet_pton fails, or the flag is cleared before connect        *)
(* succeeds: the thread ends.                                              *)
GiveUp ==
  /\ pc = "connect"
  /\ pc' = "done"
  /\ UNCHANGED <<progress, sequence, counts, wire>>

Connect ==
  /\ pc = "connect"
  /\ g_keep_running_system
  /\ pc' = "outer"
  /\ UNCHANGED <<progress, sequence, counts, wire>>

(* The outer loop: the only test of the flag. *)
StartBatch ==
  /\ pc = "outer"
  /\ pc' = IF g_keep_running_system /\ MoreToSend THEN "inner" ELSE "done"
  /\ i' = 0
  /\ UNCHANGED <<sent_packets_amount, sequence, m_sent_valid_packets, counts, wire>>

(* The inner loop goes on with a scenario. *)
Draws == pc = "inner" /\ i < batch_size /\ MoreToSend /\ Len(wire) < MaxSends

EndBatch ==
  /\ pc = "inner"
  /\ i >= batch_size \/ ~MoreToSend
  /\ pc' = "outer"
  /\ UNCHANGED <<progress, sequence, counts, wire>>

(* Scenario 0, and scenario 3 when the dice leave the packet intact. *)
SendWhole ==
  /\ Draws
  /\ send("whole", NextPacket)
  /\ RecordValid
  /\ CountPacket
  /\ UNCHANGED <<pc, sequence, counts>>

(* Scenario 1, and 4 when a single packet is missing: it does not count. *)
SendGarbage ==
  /\ Draws
  /\ send("garbage", 0)
  /\ m_garbage_sequences_count' = m_garbage_sequences_count + 1
  /\ UNCHANGED <<pc, progress, sequence, m_fragmented_packets_count, m_corrupted_packets_count>>

(* Scenario 2: the first part, then a sleep of 20 milliseconds. *)
SendFirstPart ==
  /\ Draws
  /\ send("first", NextPacket)
  /\ pc' = "second"
  /\ UNCHANGED <<progress, sequence, counts>>

SendSecondPart ==
  /\ pc = "second"
  /\ send("second", NextPacket)
  /\ RecordValid
  /\ CountPacket
  /\ m_fragmented_packets_count' = m_fragmented_packets_count + 1
  /\ pc' = "inner"
  /\ UNCHANGED <<sequence, m_corrupted_packets_count, m_garbage_sequences_count>>

(* Variant: the corrupted packet is recorded with the valid ones. *)
SendCorruptedRecorded ==
  /\ Draws
  /\ send("corrupted", NextPacket)
  /\ RecordValid
  /\ m_corrupted_packets_count' = m_corrupted_packets_count + 1
  /\ CountPacket
  /\ UNCHANGED <<pc, sequence, m_fragmented_packets_count, m_garbage_sequences_count>>

(* Scenario 3: one bit of the packet is flipped. *)
SendCorrupted ==
  /\ Draws
  /\ send("corrupted", NextPacket)
  /\ m_corrupted_packets_count' = m_corrupted_packets_count + 1
  /\ CountPacket
  /\ UNCHANGED <<pc, sequence, m_sent_valid_packets, m_fragmented_packets_count, m_garbage_sequences_count>>

(* Variant: the number of packets still missing plays no part. *)
UncappedAmounts == 2..5

(* amount_dist: from 2 to one more than are missing, at most 5.  Without a *)
(* limit the upper end is negative, and the distribution has no range.     *)
Amounts ==
  LET highest == IF MAX_PKGS_AMOUNT - sent_packets_amount + 1 < 5
                 THEN MAX_PKGS_AMOUNT - sent_packets_amount + 1 ELSE 5
  IN  IF highest < 2 THEN UndefinedAmounts ELSE 2..highest

(* Scenario 4: draw the length of the sequence and build its packets. *)
DrawSequence ==
  /\ Draws
  /\ MAX_PKGS_AMOUNT - sent_packets_amount # 1
  /\ amount' \in Amounts
  /\ left' = amount'
  /\ pc' = "sequence"
  /\ UNCHANGED <<progress, counts, wire>>

SendNextOfSequence ==
  /\ pc = "sequence"
  /\ left > 0
  /\ send("whole", NextPacket)
  /\ RecordValid
  /\ CountPacket
  /\ left' = left - 1
  /\ UNCHANGED <<pc, amount, counts>>

EndSequence ==
  /\ pc = "sequence"
  /\ left <= 0
  /\ pc' = "inner"
  /\ UNCHANGED <<progress, sequence, counts, wire>>

(* signal_handler *)
Stop ==
  /\ g_keep_running_system
  /\ g_keep_running_system' = FALSE
  /\ UNCHANGED <<pc, progress, sequence, counts, wire>>

process_loop ==
  /\ \/ GiveUp \/ Connect \/ StartBatch \/ EndBatch
     \/ SendWhole \/ SendGarbage \/ SendFirstPart \/ SendSecondPart \/ SendCorrupted
     \/ DrawSequence \/ SendNextOfSequence \/ EndSequence
  /\ UNCHANGED g_keep_running_system

Next == process_loop \/ Stop

(* The thread runs. *)
Spec == Init /\ [][Next]_vars /\ WF_vars(process_loop)

-----------------------------------------------------------------------------
(* The shape of the state.                                                 *)
TypeOK ==
  /\ g_keep_running_system \in BOOLEAN
  /\ pc \in {"connect", "outer", "inner", "second", "sequence", "done"}
  /\ sent_packets_amount \in Nat
  /\ i \in Nat
  /\ amount \in Int /\ left \in Int
  /\ m_sent_valid_packets \in Seq(Nat)
  /\ m_fragmented_packets_count \in Nat
  /\ m_corrupted_packets_count \in Nat
  /\ m_garbage_sequences_count \in Nat
  /\ wire \in Seq([kind : {"whole", "first", "second", "corrupted", "garbage"},
                   packet : Nat])

(* The packets recorded as sent and valid are those whose last byte was    *)
(* sent intact, each once and in order, and every other packet was counted *)
(* as corrupted.                                                           *)
CompletedOnWire ==
  {wire[k].packet : k \in {j \in DOMAIN wire : wire[j].kind \in {"whole", "second"}}}

Recorded == {m_sent_valid_packets[k] : k \in DOMAIN m_sent_valid_packets}

RecordMatchesWire ==
  /\ Recorded = CompletedOnWire
  /\ \A j, k \in DOMAIN m_sent_valid_packets :
       j < k => m_sent_valid_packets[j] < m_sent_valid_packets[k]
  /\ sent_packets_amount = Len(m_sent_valid_packets) + m_corrupted_packets_count

(* Each counter is the number of its calls of send.  A packet in two parts *)
(* counts with its second.                                                 *)
Sent(kind) == {k \in DOMAIN wire : wire[k].kind = kind}

CountsMatchWire ==
  /\ m_fragmented_packets_count = Cardinality(Sent("second"))
  /\ m_corrupted_packets_count = Cardinality(Sent("corrupted"))
  /\ m_garbage_sequences_count = Cardinality(Sent("garbage"))

(* The summary main prints, of valid, fragmented, corrupted and garbage    *)
(* traffic, is what went over the wire, whenever the program is stopped.   *)
SummaryMatchesWire == RecordMatchesWire /\ CountsMatchWire

(* Nothing comes between the two parts of a packet, and the second follows *)
(* even when the flag is cleared in the 20 milliseconds between them.      *)
PartsStayTogether ==
  \A k \in DOMAIN wire :
    wire[k].kind = "first" =>
      IF k = Len(wire) THEN pc = "second"
      ELSE wire[k + 1] = [kind |-> "second", packet |-> wire[k].packet]

(* With a limit, at most one packet too many is sent: a sequence may be    *)
(* one packet longer than the number of packets missing.                   *)
AtMostOneTooMany ==
  MAX_PKGS_AMOUNT # -1 => sent_packets_amount <= MAX_PKGS_AMOUNT + 1
=============================================================================
