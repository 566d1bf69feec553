--------------------------- MODULE DroneDataSensor ---------------------------
(***************************************************************************)
(* The TCP side of the server: the thread of DroneDataSensor::process_loop *)
(* accepts connections on the listening socket, one std::async thread per  *)
(* connection runs listen_on_spesific_socket, and main destroys the sensor *)
(* at the end.  The kernel's sockets and the drones are external: bytes    *)
(* arrive in order and in any fragmentation, and peers come and go.        *)
(*                                                                         *)
(* The k-th byte a connection carries is the number k; a chunk is the      *)
(* interval of the bytes one recv returned.  Operators called variants are *)
(* mistakes one could make in the definition that follows them; no         *)
(* behaviour uses them.                                                    *)
(***************************************************************************)
EXTENDS Integers, Sequences, FiniteSets

CONSTANTS
  Connections,              \* each is opened by its drone at most once
  MAX_DRONES_CONNECTIONS,
  RECV_BUFFER_SIZE,
  Descriptors,              \* the file descriptors the process may open
  MaxSent                   \* bound: bytes sent on one connection

ASSUME SensorAssumption ==
  /\ MAX_DRONES_CONNECTIONS \in Nat
  /\ RECV_BUFFER_SIZE \in Nat \ {0}
  /\ Descriptors \subseteq Nat
  /\ MaxSent \in Nat

NoSocket == -1

Chunk == [from : Connections, first : Nat, last : Nat]

VARIABLES
  g_keep_running_system,
  pc,                             \* the sensor thread, then main's destruction
  m_sensor_connections_socket_num,
  m_drones_data_rcv_threads,      \* connections whose future is held
  listener,                       \* where each listening thread is
  socket_num,                     \* its argument
  data_chunk,                     \* what its last recv returned
  m_shared_raw_data,              \* every chunk pushed to the raw queue
  open,                           \* external: the open descriptors
  pending,                        \* external: connections waiting for accept
  peer,                           \* external: "away", "connected" or "gone"
  sent, received                  \* external: bytes sent, bytes read by recv

sensorVars == <<pc, m_sensor_connections_socket_num, m_drones_data_rcv_threads>>
listenerVars == <<listener, socket_num, data_chunk, m_shared_raw_data, received>>
networkVars == <<pending, peer, sent>>
vars == <<g_keep_running_system, sensorVars, listenerVars, networkVars, open>>

FreeDescriptors == Descriptors \ open

Running == {c \in Connections : listener[c] \in {"test", "recv", "push", "close"}}

Unread(c) == sent[c] - received[c]

Init ==
  /\ g_keep_running_system = TRUE
  /\ pc = "init"
  /\ m_sensor_connections_socket_num = NoSocket
  /\ m_drones_data_rcv_threads = {}
  /\ listener = [c \in Connections |-> "none"]
  /\ socket_num = [c \in Connections |-> NoSocket]
  /\ data_chunk = [c \in Connections |-> <<>>]
  /\ m_shared_raw_data = <<>>
  /\ open = {}
  /\ pending = {}
  /\ peer = [c \in Connections |-> "away"]
  /\ sent = [c \in Connections |-> 0]
  /\ received = [c \in Connections |-> 0]

-----------------------------------------------------------------------------
(* The sensor thread: process_loop *)

(* init_tcp_communication_pipe succeeds. *)
InitPipe ==
  /\ pc = "init"
  /\ \E fd \in FreeDescriptors :
       /\ m_sensor_connections_socket_num' = fd
       /\ open' = open \cup {fd}
  /\ pc' = "loop"
  /\ UNCHANGED <<g_keep_running_system, m_drones_data_rcv_threads, listenerVars, networkVars>>

(* socket, bind or listen fails: what was opened is closed, the member is  *)
(* -1 again, and process_loop returns before anything else.                *)
InitPipeFails ==
  /\ pc = "init"
  /\ m_sensor_connections_socket_num' = NoSocket
  /\ pc' = "returned"
  /\ UNCHANGED <<g_keep_running_system, m_drones_data_rcv_threads, listenerVars, networkVars, open>>

LoopTest ==
  /\ pc = "loop"
  /\ pc' = IF g_keep_running_system THEN "accept" ELSE "shutdown"
  /\ UNCHANGED <<g_keep_running_system, m_sensor_connections_socket_num,
                 m_drones_data_rcv_threads, listenerVars, networkVars, open>>

(* Variant: the future of the new thread is not kept. *)
AcceptDetached ==
  /\ pc = "accept"
  /\ \E c \in pending, fd \in FreeDescriptors :
       /\ pending' = pending \ {c}
       /\ open' = open \cup {fd}
       /\ listener' = [listener EXCEPT ![c] = "test"]
       /\ socket_num' = [socket_num EXCEPT ![c] = fd]
  /\ pc' = "delete_inactive"
  /\ UNCHANGED <<g_keep_running_system, m_sensor_connections_socket_num, peer, sent,
                 m_drones_data_rcv_threads, data_chunk, m_shared_raw_data, received>>

(* accept returns a connection, and std::async starts its thread. *)
Accept ==
  /\ pc = "accept"
  /\ \E c \in pending, fd \in FreeDescriptors :
       /\ pending' = pending \ {c}
       /\ open' = open \cup {fd}
       /\ listener' = [listener EXCEPT ![c] = "test"]
       /\ socket_num' = [socket_num EXCEPT ![c] = fd]
       /\ m_drones_data_rcv_threads' = m_drones_data_rcv_threads \cup {c}
  /\ pc' = "delete_inactive"
  /\ UNCHANGED <<g_keep_running_system, m_sensor_connections_socket_num, peer, sent,
                 data_chunk, m_shared_raw_data, received>>

(* Variant: no timeout on the listening socket. *)
AcceptBlocks ==
  /\ pc = "accept"
  /\ FreeDescriptors = {}
  /\ pc' = "delete_inactive"
  /\ UNCHANGED <<g_keep_running_system, m_sensor_connections_socket_num,
                 m_drones_data_rcv_threads, listenerVars, networkVars, open>>

(* accept returns -1: its timeout, a signal, or no descriptor is left. *)
AcceptNothing ==
  /\ pc = "accept"
  /\ pending = {} \/ FreeDescriptors = {} \/ ~g_keep_running_system
  /\ pc' = "delete_inactive"
  /\ UNCHANGED <<g_keep_running_system, m_sensor_connections_socket_num,
                 m_drones_data_rcv_threads, listenerVars, networkVars, open>>

(* delete_inactive_threads drops the futures that are ready. *)
DeleteInactiveThreads ==
  /\ pc = "delete_inactive"
  /\ m_drones_data_rcv_threads' =
       {c \in m_drones_data_rcv_threads : listener[c] # "finished"}
  /\ pc' = "loop"
  /\ UNCHANGED <<g_keep_running_system, m_sensor_connections_socket_num,
                 listenerVars, networkVars, open>>

(* The end of process_loop; connections still pending are reset. *)
StopListening ==
  /\ pc = "shutdown"
  /\ open' = open \ {m_sensor_connections_socket_num}
  /\ m_sensor_connections_socket_num' = NoSocket
  /\ pending' = {}
  /\ peer' = [c \in Connections |-> IF c \in pending THEN "gone" ELSE peer[c]]
  /\ pc' = "returned"
  /\ UNCHANGED <<g_keep_running_system, m_drones_data_rcv_threads, listenerVars, sent>>

(* main has joined its threads and leaves: the destructor's body, then     *)
(* that of the vector of futures, which waits for every thread.            *)
Destroy ==
  /\ pc = "returned"
  /\ ~g_keep_running_system
  /\ \A c \in m_drones_data_rcv_threads : listener[c] = "finished"
  /\ open' = open \ {m_sensor_connections_socket_num}
  /\ m_sensor_connections_socket_num' = NoSocket
  /\ m_drones_data_rcv_threads' = {}
  /\ pc' = "destroyed"
  /\ UNCHANGED <<g_keep_running_system, listenerVars, networkVars>>

sensor_process_loop ==
  \/ InitPipe \/ InitPipeFails \/ LoopTest \/ Accept \/ AcceptNothing
  \/ DeleteInactiveThreads \/ StopListening \/ Destroy

-----------------------------------------------------------------------------
(* A listening thread: listen_on_spesific_socket *)

ListenTest(c) ==
  /\ listener[c] = "test"
  /\ listener' = [listener EXCEPT ![c] =
                    IF g_keep_running_system THEN "recv" ELSE "close"]
  /\ UNCHANGED <<g_keep_running_system, sensorVars, networkVars, open,
                 socket_num, data_chunk, m_shared_raw_data, received>>

(* recv returns some of the bytes that have arrived. *)
Recv(c) ==
  /\ listener[c] = "recv"
  /\ \E n \in 1..RECV_BUFFER_SIZE :
       /\ n <= Unread(c)
       /\ received' = [received EXCEPT ![c] = @ + n]
       /\ data_chunk' = [data_chunk EXCEPT ![c] =
            [from |-> c, first |-> received[c] + 1, last |-> received[c] + n]]
  /\ listener' = [listener EXCEPT ![c] = "push"]
  /\ UNCHANGED <<g_keep_running_system, sensorVars, networkVars, open,
                 socket_num, m_shared_raw_data>>

(* Variant: the end of the connection ends the thread, which forgets to    *)
(* close its socket.                                                       *)

RecvNothingOrEnd(c) ==
  /\ listener[c] = "recv"
  /\ Unread(c) = 0
  /\ listener' = [listener EXCEPT ![c] = IF peer[c] = "gone" THEN "finished" ELSE "test"]
  /\ UNCHANGED <<g_keep_running_system, sensorVars, networkVars, open,
                 socket_num, data_chunk, m_shared_raw_data, received>>

(* recv returns -1 after its timeout or 0 because the peer is gone: both   *)
(* only bring the loop back to its test.                                   *)
RecvNothing(c) ==
  /\ listener[c] = "recv"
  /\ Unread(c) = 0
  /\ listener' = [listener EXCEPT ![c] = "test"]
  /\ UNCHANGED <<g_keep_running_system, sensorVars, networkVars, open,
                 socket_num, data_chunk, m_shared_raw_data, received>>

(* Variants: the chunk is pushed twice; only a full buffer is pushed.      *)
PushChunkTwice(c) ==
  /\ listener[c] = "push"
  /\ m_shared_raw_data' = m_shared_raw_data \o <<data_chunk[c], data_chunk[c]>>
  /\ listener' = [listener EXCEPT ![c] = "test"]
  /\ UNCHANGED <<g_keep_running_system, sensorVars, networkVars, open,
                 socket_num, data_chunk, received>>

PushFullChunksOnly(c) ==
  /\ listener[c] = "push"
  /\ m_shared_raw_data' =
       IF data_chunk[c].last - data_chunk[c].first + 1 < RECV_BUFFER_SIZE
       THEN m_shared_raw_data ELSE Append(m_shared_raw_data, data_chunk[c])
  /\ listener' = [listener EXCEPT ![c] = "test"]
  /\ UNCHANGED <<g_keep_running_system, sensorVars, networkVars, open,
                 socket_num, data_chunk, received>>

PushChunk(c) ==
  /\ listener[c] = "push"
  /\ m_shared_raw_data' = Append(m_shared_raw_data, data_chunk[c])
  /\ listener' = [listener EXCEPT ![c] = "test"]
  /\ UNCHANGED <<g_keep_running_system, sensorVars, networkVars, open,
                 socket_num, data_chunk, received>>

CloseConnection(c) ==
  /\ listener[c] = "close"
  /\ open' = open \ {socket_num[c]}
  /\ listener' = [listener EXCEPT ![c] = "finished"]
  /\ UNCHANGED <<g_keep_running_system, sensorVars, networkVars,
                 socket_num, data_chunk, m_shared_raw_data, received>>

listen_on_spesific_socket(c) ==
  ListenTest(c) \/ Recv(c) \/ RecvNothing(c) \/ PushChunk(c) \/ CloseConnection(c)

-----------------------------------------------------------------------------
(* External: the drones, the kernel's accept queue, and the user. *)

Connect(c) ==
  /\ peer[c] = "away"
  /\ m_sensor_connections_socket_num # NoSocket
  /\ Cardinality(pending) <= MAX_DRONES_CONNECTIONS
  /\ pending' = pending \cup {c}
  /\ peer' = [peer EXCEPT ![c] = "connected"]
  /\ UNCHANGED <<g_keep_running_system, sensorVars, listenerVars, sent, open>>

Send(c) ==
  /\ peer[c] = "connected"
  /\ sent[c] < MaxSent
  /\ sent' = [sent EXCEPT ![c] = @ + 1]
  /\ UNCHANGED <<g_keep_running_system, sensorVars, listenerVars, pending, peer, open>>

Disconnect(c) ==
  /\ peer[c] = "connected"
  /\ peer' = [peer EXCEPT ![c] = "gone"]
  /\ UNCHANGED <<g_keep_running_system, sensorVars, listenerVars, pending, sent, open>>

Stop ==
  /\ g_keep_running_system
  /\ g_keep_running_system' = FALSE
  /\ UNCHANGED <<sensorVars, listenerVars, networkVars, open>>

Next ==
  \/ sensor_process_loop
  \/ \E c \in Connections :
       listen_on_spesific_socket(c) \/ Connect(c) \/ Send(c) \/ Disconnect(c)
  \/ Stop

(* accept and recv return within half a second, so the threads run on;     *)
(* drones need not do anything, and the flag need not be cleared.          *)
Fairness ==
  /\ WF_vars(sensor_process_loop)
  /\ \A c \in Connections : WF_vars(listen_on_spesific_socket(c))

Spec == Init /\ [][Next]_vars /\ Fairness

-----------------------------------------------------------------------------
(* The shape of the state.                                                 *)
TypeOK ==
  /\ g_keep_running_system \in BOOLEAN
  /\ pc \in {"init", "loop", "accept", "delete_inactive", "shutdown", "returned",
             "destroyed"}
  /\ m_sensor_connections_socket_num \in Descriptors \cup {NoSocket}
  /\ m_drones_data_rcv_threads \subseteq Connections
  /\ listener \in [Connections -> {"none", "test", "recv", "push", "close", "finished"}]
  /\ socket_num \in [Connections -> Descriptors \cup {NoSocket}]
  /\ data_chunk \in [Connections -> Chunk \cup {<<>>}]
  /\ m_shared_raw_data \in Seq(Chunk)
  /\ open \subseteq Descriptors
  /\ pending \subseteq Connections
  /\ peer \in [Connections -> {"away", "connected", "gone"}]
  /\ sent \in [Connections -> Nat]
  /\ received \in [Connections -> Nat]

(* However the threads interleave, the raw queue holds the bytes of each   *)
(* connection in the order they were sent, none twice, and none that recv  *)
(* returned is missing unless its thread is still about to push it.        *)
Holds(chunk, c, k) == chunk.from = c /\ chunk.first <= k /\ k <= chunk.last

Queued(c, k) == \E i \in DOMAIN m_shared_raw_data : Holds(m_shared_raw_data[i], c, k)

BytesInOrder ==
  \A i, j \in DOMAIN m_shared_raw_data :
    i < j /\ m_shared_raw_data[i].from = m_shared_raw_data[j].from =>
      m_shared_raw_data[i].last < m_shared_raw_data[j].first

NoByteMissing ==
  \A c \in Connections : \A k \in 1..received[c] :
    Queued(c, k) \/ (listener[c] = "push" /\ Holds(data_chunk[c], c, k))

BytesArriveOnce == BytesInOrder /\ NoByteMissing

(* Each open descriptor has one owner, the listening socket or the thread  *)
(* of one connection, and no thread uses a descriptor that is closed.      *)
EachDescriptorOwned ==
  /\ m_sensor_connections_socket_num # NoSocket => m_sensor_connections_socket_num \in open
  /\ \A c \in Running :
       /\ socket_num[c] \in open
       /\ socket_num[c] # m_sensor_connections_socket_num
       /\ \A e \in Running : socket_num[c] = socket_num[e] => c = e
  /\ \A fd \in open :
       fd = m_sensor_connections_socket_num \/ \E c \in Running : socket_num[c] = fd

(* The threads hold a pointer to the sensor and a reference to the raw     *)
(* queue, which main destroys after it: none of them outlives the sensor.  *)
NoListenerOutlivesSensor == pc = "destroyed" => Running = {}

(* Once the flag is cleared everything ends, whatever connections are open *)
(* or arrive, and however the initialisation went.                         *)
ShutdownCompletes == ~g_keep_running_system ~> pc = "destroyed"

(* Every byte sent on a connection that was opened reaches the raw queue   *)
(* while the program runs, even after the drone has hung up.               *)
EveryByteQueued ==
  \A c \in Connections : \A k \in 1..MaxSent :
    sent[c] >= k ~> Queued(c, k) \/ ~g_keep_running_system

(* A statement of the repository that the code does not meet,              *)
(* src/DroneDataSensor.cpp:80: the threads of drones that disconnected are *)
(* finished and cleaned.                                                   *)
DisconnectedThreadsCleaned ==
  \A c \in Connections :
    peer[c] = "gone" /\ c \in m_drones_data_rcv_threads
      ~> c \notin m_drones_data_rcv_threads
=============================================================================
