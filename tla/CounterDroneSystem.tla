------------------------- MODULE CounterDroneSystem -------------------------
(***************************************************************************)
(* The program: main, the generator, the sensor with the thread of the     *)
(* generator's connection, the parser and the processor, from the start of *)
(* the threads to the return of main, and the packets that pass through    *)
(* them.  The other modules describe each component alone and in detail.   *)
(*                                                                         *)
(* Intact packet n travels as the parts 2n-1 and 2n, which TCP may deliver *)
(* together or apart; garbage and corrupted packets are left out.          *)
(* Critical sections are single steps, except that the parser between its  *)
(* test and its sleep ("block") holds the mutex of the raw queue.  What no *)
(* action of a thread changes is left unchanged once, by its loop.         *)
(* Operators called variants are mistakes one could make in the definition *)
(* that follows them; no behaviour uses them.                              *)
(***************************************************************************)
EXTENDS Naturals, Sequences

CONSTANT MAX_PKGS_AMOUNT    \* packets the generator sends at most

ASSUME AmountAssumption == MAX_PKGS_AMOUNT \in Nat

VARIABLES
  g_keep_running_system,
  main,                     \* "run", "join", "summary", "returned"; "killed" by a signal
  simulator, sent,          \* the generator, and the packets it has sent
  conn,                     \* external: "none", "queued", "accepted", "closed", "reset"
  wire,                     \* external: parts sent and not read
  discarded,                \* external: parts the kernel has thrown away
  sensor, listener, data_chunk,
  m_shared_raw_data,
  parser, m_accumulated_data,
  m_shared_telemetry_packets,
  processor, processed      \* the processor, and the packets it has handled

simulatorVars == <<simulator, sent>>
network == <<conn, wire, discarded>>
sensorVars == <<sensor, listener, data_chunk>>
parserVars == <<parser, m_accumulated_data>>
processorVars == <<processor, processed>>
vars == <<g_keep_running_system, main, simulatorVars, network, sensorVars,
          m_shared_raw_data, parserVars, m_shared_telemetry_packets, processorVars>>

Init ==
  /\ g_keep_running_system = TRUE
  /\ main = "run"
  /\ simulator = "connect" /\ sent = 0
  /\ conn = "none" /\ wire = <<>> /\ discarded = <<>>
  /\ sensor = "init" /\ listener = "none" /\ data_chunk = <<>>
  /\ m_shared_raw_data = <<>>
  /\ parser = "loop" /\ m_accumulated_data = <<>>
  /\ m_shared_telemetry_packets = <<>>
  /\ processor = "loop" /\ processed = <<>>

-----------------------------------------------------------------------------
(* DroneDataSimulator::process_loop *)

Listening == sensor \in {"accept", "close"}

Connect ==
  /\ simulator = "connect"
  /\ Listening
  /\ conn' = "queued"
  /\ simulator' = IF g_keep_running_system THEN "outer" ELSE "done"
  /\ UNCHANGED <<sent, wire, discarded>>

(* No socket, or connect fails and the flag is cleared. *)
GiveUp ==
  /\ simulator = "connect"
  /\ simulator' = "done"
  /\ UNCHANGED <<sent, network>>

StartBatch ==
  /\ simulator = "outer"
  /\ simulator' = IF g_keep_running_system /\ sent < MAX_PKGS_AMOUNT THEN "send" ELSE "done"
  /\ UNCHANGED <<sent, network>>

(* What send does with its bytes: once the server has closed its end they  *)
(* are thrown away, and the first of them brings a reset back.             *)
Transmit(parts) ==
  IF conn \in {"queued", "accepted"}
  THEN wire' = wire \o parts /\ UNCHANGED <<conn, discarded>>
  ELSE discarded' = discarded \o parts /\ conn' = "reset" /\ UNCHANGED wire

(* The batch or the sequence goes on, without a look at the flag, or ends. *)
CountPacket ==
  /\ sent' = sent + 1
  /\ \/ simulator' = "outer"
     \/ sent + 1 < MAX_PKGS_AMOUNT /\ simulator' = "send"

SendWhole ==
  /\ simulator = "send"
  /\ Transmit(<<2 * sent + 1, 2 * sent + 2>>)
  /\ CountPacket

SendFirstPart ==
  /\ simulator = "send"
  /\ Transmit(<<2 * sent + 1>>)
  /\ simulator' = "second"
  /\ UNCHANGED sent

SendSecondPart ==
  /\ simulator = "second"
  /\ Transmit(<<2 * sent + 2>>)
  /\ CountPacket

(* send on a connection that was reset raises SIGPIPE, which nobody        *)
(* handles: the process ends.                                              *)
BrokenPipe ==
  /\ simulator \in {"send", "second"}
  /\ conn = "reset"
  /\ main' = "killed"

simulator_loop ==
  /\ Connect \/ GiveUp \/ StartBatch \/ SendWhole \/ SendFirstPart \/ SendSecondPart
  /\ UNCHANGED <<g_keep_running_system, main, sensorVars, m_shared_raw_data, parserVars,
                 m_shared_telemetry_packets, processorVars>>

-----------------------------------------------------------------------------
(* DroneDataSensor::process_loop *)

InitPipe ==
  /\ sensor = "init"
  /\ sensor' = "accept"
  /\ UNCHANGED <<network, listener, parser>>

(* The thread returns without waking anybody up. *)
InitPipeFails ==
  /\ sensor = "init"
  /\ sensor' = "done"
  /\ UNCHANGED <<network, listener, parser>>

Accept ==
  /\ sensor = "accept"
  /\ conn = "queued"
  /\ conn' = "accepted"
  /\ listener' = "test"
  /\ UNCHANGED <<wire, discarded, sensor, parser>>

(* A thread asleep on the raw queue tests its predicate again. *)
WakeParser == parser' = IF parser = "asleep" THEN "test" ELSE parser

StopAccepting ==
  /\ sensor = "accept"
  /\ ~g_keep_running_system
  /\ WakeParser
  /\ sensor' = "close"
  /\ UNCHANGED <<network, listener>>

(* Closing the listening socket resets a connection that was not accepted. *)
CloseListening ==
  /\ sensor = "close"
  /\ sensor' = "done"
  /\ IF conn = "queued"
     THEN conn' = "reset" /\ discarded' = discarded \o wire /\ wire' = <<>>
     ELSE UNCHANGED network
  /\ UNCHANGED <<listener, parser>>

sensor_loop ==
  /\ InitPipe \/ InitPipeFails \/ Accept \/ StopAccepting \/ CloseListening
  /\ UNCHANGED <<g_keep_running_system, main, simulatorVars, data_chunk, m_shared_raw_data,
                 m_accumulated_data, m_shared_telemetry_packets, processorVars>>

-----------------------------------------------------------------------------
(* DroneDataSensor::listen_on_spesific_socket *)

ListenTest ==
  /\ listener = "test"
  /\ listener' = IF g_keep_running_system THEN "recv" ELSE "close"
  /\ UNCHANGED <<network, data_chunk, m_shared_raw_data, parser>>

Recv ==
  /\ listener = "recv"
  /\ \E n \in 0..Len(wire) :
       /\ n = 0 => wire = <<>>
       /\ data_chunk' = SubSeq(wire, 1, n)
       /\ wire' = SubSeq(wire, n + 1, Len(wire))
       /\ listener' = IF n = 0 THEN "test" ELSE "push"
  /\ UNCHANGED <<conn, discarded, m_shared_raw_data, parser>>

PushChunk ==
  /\ listener = "push"
  /\ parser # "block"
  /\ m_shared_raw_data' = m_shared_raw_data \o data_chunk
  /\ data_chunk' = <<>>
  /\ listener' = "notify"
  /\ UNCHANGED <<network, parser>>

NotifyOne ==
  /\ listener = "notify"
  /\ WakeParser
  /\ listener' = "test"
  /\ UNCHANGED <<network, data_chunk, m_shared_raw_data>>

(* Variant: a drone that sent nothing is hung up on. *)
CloseWhenIdle ==
  /\ listener \in {"close", "recv"}
  /\ listener = "recv" => wire = <<>>
  /\ listener' = "done"
  /\ conn' = "closed"
  /\ UNCHANGED <<wire, discarded, data_chunk, m_shared_raw_data, parser>>

(* Closing a connection with bytes unread resets it. *)
CloseConnection ==
  /\ listener = "close"
  /\ listener' = "done"
  /\ conn' = IF wire = <<>> THEN "closed" ELSE "reset"
  /\ discarded' = discarded \o wire
  /\ wire' = <<>>
  /\ UNCHANGED <<data_chunk, m_shared_raw_data, parser>>

ListenerFrame ==
  UNCHANGED <<g_keep_running_system, main, simulatorVars, sensor, m_accumulated_data,
              m_shared_telemetry_packets, processorVars>>

listener_loop ==
  (ListenTest \/ Recv \/ PushChunk \/ NotifyOne \/ CloseConnection) /\ ListenerFrame

-----------------------------------------------------------------------------
(* SensorDataParser::process_loop with pop_all *)

ParserTest ==
  /\ parser = "loop"
  /\ parser' = IF g_keep_running_system THEN "test" ELSE "done"
  /\ UNCHANGED <<m_shared_raw_data, m_accumulated_data, m_shared_telemetry_packets>>

(* Variant: the chunks replace what was left of the last batch. *)
PopAllOverwrites ==
  /\ parser = "test"
  /\ IF m_shared_raw_data = <<>>
     THEN parser' = IF g_keep_running_system THEN "block" ELSE "loop"
     ELSE parser' = "parse"
  /\ m_accumulated_data' = m_shared_raw_data
  /\ m_shared_raw_data' = <<>>
  /\ UNCHANGED m_shared_telemetry_packets

PopAll ==
  /\ parser = "test"
  /\ IF m_shared_raw_data = <<>>
     THEN parser' = IF g_keep_running_system THEN "block" ELSE "loop"
     ELSE parser' = "parse"
  /\ m_accumulated_data' = m_accumulated_data \o m_shared_raw_data
  /\ m_shared_raw_data' = <<>>
  /\ UNCHANGED m_shared_telemetry_packets

Block ==
  /\ parser = "block"
  /\ parser' = "asleep"
  /\ UNCHANGED <<m_shared_raw_data, m_accumulated_data, m_shared_telemetry_packets>>

SpuriousWakeUp ==
  /\ parser = "asleep"
  /\ parser' = "test"
  /\ UNCHANGED <<m_shared_raw_data, m_accumulated_data, m_shared_telemetry_packets>>

(* Variant: one packet for each batch. *)
DeliverOne ==
  /\ parser = "parse"
  /\ Len(m_accumulated_data) >= 2
  /\ m_shared_telemetry_packets' =
       Append(m_shared_telemetry_packets, m_accumulated_data[2] \div 2)
  /\ m_accumulated_data' = SubSeq(m_accumulated_data, 3, Len(m_accumulated_data))
  /\ parser' = "loop"
  /\ UNCHANGED m_shared_raw_data

(* process_accumulated_data finds the packets of the batch one by one, and *)
(* keeps the first part of one that is not complete.                       *)
Deliver ==
  /\ parser = "parse"
  /\ Len(m_accumulated_data) >= 2
  /\ m_shared_telemetry_packets' =
       Append(m_shared_telemetry_packets, m_accumulated_data[2] \div 2)
  /\ m_accumulated_data' = SubSeq(m_accumulated_data, 3, Len(m_accumulated_data))
  /\ UNCHANGED <<m_shared_raw_data, parser>>

EndOfBatch ==
  /\ parser = "parse"
  /\ Len(m_accumulated_data) < 2
  /\ parser' = "loop"
  /\ UNCHANGED <<m_shared_raw_data, m_accumulated_data, m_shared_telemetry_packets>>

ParserFrame ==
  UNCHANGED <<g_keep_running_system, main, simulatorVars, network, sensorVars, processorVars>>

parser_loop == (ParserTest \/ PopAll \/ Block \/ Deliver \/ EndOfBatch) /\ ParserFrame

-----------------------------------------------------------------------------
(* TelemetryDataProcessor::process_loop; its pop has a timeout. *)

ProcessorTest ==
  /\ processor = "loop"
  /\ processor' = IF g_keep_running_system THEN "pop" ELSE "done"
  /\ UNCHANGED <<m_shared_telemetry_packets, processed>>

(* Variant: a pop without a timeout. *)
PopPacketWaits ==
  /\ processor = "pop"
  /\ m_shared_telemetry_packets # <<>>
  /\ processor' = "loop"
  /\ processed' = Append(processed, Head(m_shared_telemetry_packets))
  /\ m_shared_telemetry_packets' = Tail(m_shared_telemetry_packets)

PopPacket ==
  /\ processor = "pop"
  /\ processor' = "loop"
  /\ IF m_shared_telemetry_packets = <<>>
     THEN UNCHANGED <<processed, m_shared_telemetry_packets>>
     ELSE /\ processed' = Append(processed, Head(m_shared_telemetry_packets))
          /\ m_shared_telemetry_packets' = Tail(m_shared_telemetry_packets)

processor_loop ==
  /\ ProcessorTest \/ PopPacket
  /\ UNCHANGED <<g_keep_running_system, main, simulatorVars, network, sensorVars,
                 m_shared_raw_data, parserVars>>

-----------------------------------------------------------------------------
(* main, and the signal handler *)

Stop ==
  /\ g_keep_running_system
  /\ g_keep_running_system' = FALSE
  /\ UNCHANGED <<main, simulatorVars, network, sensorVars, m_shared_raw_data, parserVars,
                 m_shared_telemetry_packets, processorVars>>

StopRunning ==
  /\ main = "run"
  /\ ~g_keep_running_system
  /\ main' = "join"

(* Variant: the loop over thread_pool stops before its last element. *)
AllButLastDone == simulator = "done" /\ sensor = "done" /\ parser = "done"

(* The threads of thread_pool have returned. *)
ThreadsDone ==
  simulator = "done" /\ sensor = "done" /\ parser = "done" /\ processor = "done"

Join ==
  /\ main = "join"
  /\ ThreadsDone
  /\ main' = "summary"

ListenerEnded == listener \in {"none", "done"}

(* The summary is printed, and the destruction of the sensor waits for the *)
(* futures of its listening threads before the queues are destroyed.       *)
Return ==
  /\ main = "summary"
  /\ ListenerEnded
  /\ main' = "returned"

MainFrame ==
  UNCHANGED <<g_keep_running_system, simulatorVars, network, sensorVars, m_shared_raw_data,
              parserVars, m_shared_telemetry_packets, processorVars>>

main_thread == (StopRunning \/ Join \/ Return) /\ MainFrame

Next ==
  /\ main # "killed"
  /\ \/ simulator_loop \/ (BrokenPipe /\ MainFrame)
     \/ sensor_loop \/ listener_loop
     \/ parser_loop \/ (SpuriousWakeUp /\ ParserFrame)
     \/ processor_loop
     \/ main_thread \/ Stop

(* Every thread runs, and one that waits for a mutex released again and    *)
(* again gets it; nobody is obliged to stop the program, the pipe need not *)
(* break, and a wait need not wake up by itself.                           *)
Fairness ==
  /\ SF_vars(main # "killed" /\ PushChunk /\ ListenerFrame)
  /\ WF_vars(main # "killed" /\ simulator_loop)
  /\ WF_vars(main # "killed" /\ sensor_loop)
  /\ WF_vars(main # "killed" /\ listener_loop)
  /\ WF_vars(main # "killed" /\ parser_loop)
  /\ WF_vars(main # "killed" /\ processor_loop)
  /\ WF_vars(main # "killed" /\ main_thread)

Spec == Init /\ [][Next]_vars /\ Fairness

-----------------------------------------------------------------------------
(* The shape of the state.                                                 *)
TypeOK ==
  /\ g_keep_running_system \in BOOLEAN
  /\ main \in {"run", "join", "summary", "returned", "killed"}
  /\ simulator \in {"connect", "outer", "send", "second", "done"}
  /\ sent \in 0..MAX_PKGS_AMOUNT
  /\ conn \in {"none", "queued", "accepted", "closed", "reset"}
  /\ wire \in Seq(Nat) /\ discarded \in Seq(Nat)
  /\ sensor \in {"init", "accept", "close", "done"}
  /\ listener \in {"none", "test", "recv", "push", "notify", "close", "done"}
  /\ data_chunk \in Seq(Nat)
  /\ m_shared_raw_data \in Seq(Nat)
  /\ parser \in {"loop", "test", "block", "asleep", "parse", "done"}
  /\ m_accumulated_data \in Seq(Nat)
  /\ m_shared_telemetry_packets \in Seq(Nat)
  /\ processor \in {"loop", "pop", "done"}
  /\ processed \in Seq(Nat)

(* End to end, in every interleaving of the six threads and of a shutdown: *)
(* the packets handled are 1, 2, ... and those that follow are, in order,  *)
(* in the queue of packets, the parser's buffer, the raw queue, the chunk  *)
(* a thread holds, the socket, or thrown away by the kernel.               *)
Delivered == processed \o m_shared_telemetry_packets

Underway ==
  m_accumulated_data \o m_shared_raw_data \o data_chunk \o wire \o discarded

PartsSent == 2 * sent + (IF simulator = "second" THEN 1 ELSE 0)

NothingLostInside ==
  /\ Delivered = [n \in 1..Len(Delivered) |-> n]
  /\ Underway = [k \in 1..(PartsSent - 2 * Len(Delivered)) |-> 2 * Len(Delivered) + k]

(* Bytes are thrown away, and the process is killed by SIGPIPE, only when  *)
(* the program was told to stop.                                           *)
UnharmedWhileRunning ==
  g_keep_running_system => discarded = <<>> /\ main # "killed" /\ conn # "reset"

(* What the summary prints is final: nobody sends, parses or handles a     *)
(* packet any more, although a listening thread may still run.             *)
Summarised == <<simulatorVars, parserVars, m_shared_telemetry_packets, processorVars>>

SummaryIsFinal == [][(main \in {"summary", "returned"}) => UNCHANGED Summarised]_vars

(* While the program runs, every packet sent is handled by the processor.  *)
EveryPacketProcessed ==
  \A n \in 1..MAX_PKGS_AMOUNT :
    sent >= n ~> Len(processed) >= n \/ ~g_keep_running_system

(* Every shutdown comes to an end but for two obstacles: SIGPIPE kills the *)
(* process, or the parser alone is left, asleep in pop_all: the wake-up    *)
(* was missed, or the sensor that failed to start never gave one           *)
(* (DroneDataSensor.cpp:75).                                               *)
OthersEnded ==
  simulator = "done" /\ sensor = "done" /\ processor = "done" /\ ListenerEnded

OnlyParserHoldsUp ==
  ~g_keep_running_system ~>
    main \in {"returned", "killed"} \/ (parser = "asleep" /\ OthersEnded)
=============================================================================
