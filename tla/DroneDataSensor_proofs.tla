----------------------- MODULE DroneDataSensor_proofs -----------------------
(***************************************************************************)
(* Theorems about DroneDataSensor, for any number of connections and       *)
(* descriptors, any buffer size and any traffic.                           *)
(***************************************************************************)
EXTENDS DroneDataSensor, TLAPS

(* The listening socket exists while the thread accepts connections.       *)
SocketMatchesPc ==
  m_sensor_connections_socket_num # NoSocket
    <=> pc \in {"loop", "accept", "delete_inactive", "shutdown"}

(* A connection that waits to be accepted, or was not opened, has no       *)
(* thread yet.                                                             *)
NotAcceptedYet ==
  \A c \in Connections :
    /\ c \in pending => peer[c] # "away" /\ listener[c] = "none"
    /\ peer[c] = "away" => listener[c] = "none"

(* Every running thread's future is held by the sensor.                    *)
ListenersHeld == Running \subseteq m_drones_data_rcv_threads

(* The queue holds only bytes that recv returned.                          *)
QueuedWereReceived ==
  \A n \in DOMAIN m_shared_raw_data :
    m_shared_raw_data[n].last <= received[m_shared_raw_data[n].from]

(* A thread about to push holds the bytes last received, and those after   *)
(* all that its connection has in the queue.                               *)
HeldChunkIsLast ==
  \A c \in Connections : listener[c] = "push" =>
    /\ data_chunk[c] \in Chunk
    /\ data_chunk[c].from = c
    /\ data_chunk[c].last = received[c]
    /\ \A n \in DOMAIN m_shared_raw_data :
         m_shared_raw_data[n].from = c =>
           m_shared_raw_data[n].last < data_chunk[c].first

Bytes == QueuedWereReceived /\ HeldChunkIsLast /\ BytesInOrder /\ NoByteMissing

Sockets ==
  /\ SocketMatchesPc
  /\ NotAcceptedYet
  /\ ListenersHeld
  /\ EachDescriptorOwned
  /\ NoListenerOutlivesSensor

IInv == TypeOK /\ Sockets /\ Bytes

-----------------------------------------------------------------------------
(* Nothing is open, connected or received at the start. *)
LEMMA InitIInv == Init => IInv
<1> SUFFICES ASSUME Init PROVE IInv
  OBVIOUS
<1>1. TypeOK
  BY SensorAssumption DEF Init, TypeOK, NoSocket
<1>2. Running = {}
  BY DEF Init, Running
<1>3. Sockets
  BY <1>2 DEF Init, Sockets, SocketMatchesPc, NotAcceptedYet, ListenersHeld,
              EachDescriptorOwned, NoListenerOutlivesSensor
<1>4. Bytes
  BY DEF Init, Bytes, QueuedWereReceived, HeldChunkIsLast, BytesInOrder, NoByteMissing
<1> QED
  BY <1>1, <1>3, <1>4 DEF IInv

(* Appending a chunk adds one last element. *)
LEMMA AppendChunk ==
  ASSUME NEW q \in Seq(Chunk), NEW chunk \in Chunk
  PROVE  /\ Append(q, chunk) \in Seq(Chunk)
         /\ DOMAIN Append(q, chunk) = 1..(Len(q) + 1)
         /\ DOMAIN q = 1..Len(q)
         /\ Len(q) \in Nat
         /\ \A n \in 1..Len(q) : Append(q, chunk)[n] = q[n]
         /\ Append(q, chunk)[Len(q) + 1] = chunk
OBVIOUS

-----------------------------------------------------------------------------
(* Every step keeps each variable in its range. *)
LEMMA TypeStep == IInv /\ [Next]_vars => TypeOK'
<1> SUFFICES ASSUME IInv, [Next]_vars PROVE TypeOK'
  OBVIOUS
<1>0. TypeOK /\ HeldChunkIsLast
  BY DEF IInv, Bytes
<1>1. CASE sensor_process_loop
  <2> USE <1>0 DEF TypeOK, listenerVars, networkVars
  <2>1. CASE InitPipe
    BY <2>1 DEF InitPipe, FreeDescriptors
  <2>2. CASE InitPipeFails \/ LoopTest \/ AcceptNothing \/ DeleteInactiveThreads
    BY <2>2 DEF InitPipeFails, LoopTest, AcceptNothing, DeleteInactiveThreads
  <2>3. CASE Accept
    BY <2>3 DEF Accept, FreeDescriptors
  <2>4. CASE StopListening \/ Destroy
    BY <2>4 DEF StopListening, Destroy
  <2> QED
    BY <1>1, <2>1, <2>2, <2>3, <2>4 DEF sensor_process_loop
<1>2. ASSUME NEW c \in Connections, listen_on_spesific_socket(c) PROVE TypeOK'
  <2>1. CASE ListenTest(c) \/ RecvNothing(c) \/ CloseConnection(c)
    BY <1>0, <2>1 DEF ListenTest, RecvNothing, CloseConnection, TypeOK, sensorVars, networkVars
  <2>2. CASE Recv(c)
    <3>1. PICK n \in 1..RECV_BUFFER_SIZE :
            /\ received' = [received EXCEPT ![c] = @ + n]
            /\ data_chunk' = [data_chunk EXCEPT ![c] =
                 [from |-> c, first |-> received[c] + 1, last |-> received[c] + n]]
      BY <2>2 DEF Recv
    <3>2. n \in Nat /\ received[c] \in Nat
      BY <1>0, <3>1, SensorAssumption DEF TypeOK
    <3>3. [from |-> c, first |-> received[c] + 1, last |-> received[c] + n] \in Chunk
      BY <3>2 DEF Chunk
    <3>4. received' \in [Connections -> Nat] /\ data_chunk' \in [Connections -> Chunk \cup {<<>>}]
      BY <1>0, <3>1, <3>2, <3>3 DEF TypeOK
    <3> QED
      BY <1>0, <2>2, <3>4 DEF Recv, TypeOK, sensorVars, networkVars
  <2>3. CASE PushChunk(c)
    <3>1. data_chunk[c] \in Chunk /\ m_shared_raw_data' \in Seq(Chunk)
      BY <1>0, <2>3, AppendChunk DEF PushChunk, HeldChunkIsLast, TypeOK
    <3> QED
      BY <1>0, <2>3, <3>1 DEF PushChunk, TypeOK, sensorVars, networkVars
  <2> QED
    BY <1>2, <2>1, <2>2, <2>3 DEF listen_on_spesific_socket
<1>3. ASSUME NEW c \in Connections, Connect(c) \/ Send(c) \/ Disconnect(c) PROVE TypeOK'
  <2>1. CASE Connect(c)
    <3>1. pending' = pending \cup {c} /\ peer' = [peer EXCEPT ![c] = "connected"]
      BY <2>1 DEF Connect
    <3>2. UNCHANGED <<g_keep_running_system, sensorVars, listenerVars, sent, open>>
      BY <2>1 DEF Connect
    <3> QED
      BY <1>0, <3>1, <3>2 DEF TypeOK, sensorVars, listenerVars
  <2>2. CASE Send(c)
    <3>1. sent[c] + 1 \in Nat
      BY <1>0 DEF TypeOK
    <3> QED
      BY <1>0, <2>2, <3>1 DEF Send, TypeOK, sensorVars, listenerVars
  <2>3. CASE Disconnect(c)
    BY <1>0, <2>3 DEF Disconnect, TypeOK, sensorVars, listenerVars
  <2> QED
    BY <1>3, <2>1, <2>2, <2>3
<1>4. CASE Stop \/ UNCHANGED vars
  BY <1>0, <1>4 DEF Stop, vars, TypeOK, sensorVars, listenerVars, networkVars
<1> QED
  BY <1>1, <1>2, <1>3, <1>4 DEF Next

-----------------------------------------------------------------------------
(* Steps that touch no socket, no thread and no connection. *)
LEMMA SocketsKept ==
  Sockets /\ UNCHANGED <<pc, m_sensor_connections_socket_num, m_drones_data_rcv_threads,
                         Running, listener, socket_num, open, pending, peer>> => Sockets'
BY DEF Sockets, SocketMatchesPc, NotAcceptedYet, ListenersHeld, EachDescriptorOwned,
       NoListenerOutlivesSensor

(* A step of the sensor thread keeps the ownership of the descriptors. *)
LEMMA SensorSocketsStep == IInv /\ sensor_process_loop => Sockets'
<1> SUFFICES ASSUME IInv, sensor_process_loop PROVE Sockets'
  OBVIOUS
<1>0. TypeOK /\ Sockets
  BY DEF IInv
<1> USE DEF Sockets
<1>a. NoSocket \notin Descriptors
  BY SensorAssumption DEF NoSocket
<1>1. CASE InitPipe
  <2>1. PICK fd \in FreeDescriptors :
          m_sensor_connections_socket_num' = fd /\ open' = open \cup {fd}
    BY <1>1 DEF InitPipe
  <2>2. fd \notin open /\ fd # NoSocket /\ UNCHANGED <<listener, socket_num>>
        /\ pc = "init" /\ pc' = "loop"
    BY <1>1, <1>a, <2>1 DEF InitPipe, FreeDescriptors, listenerVars
  <2>3. Running' = Running
    BY <2>2 DEF Running
  <2>4. EachDescriptorOwned'
    BY <1>0, <1>a, <2>1, <2>2, <2>3 DEF EachDescriptorOwned, SocketMatchesPc, TypeOK
  <2> QED
    BY <1>0, <1>1, <2>1, <2>2, <2>3, <2>4
    DEF InitPipe, SocketMatchesPc, NotAcceptedYet, ListenersHeld, NoListenerOutlivesSensor,
        networkVars, listenerVars
<1>2. CASE InitPipeFails \/ LoopTest \/ AcceptNothing
  <2>1. /\ UNCHANGED <<listener, socket_num, open, pending, peer, m_drones_data_rcv_threads>>
        /\ m_sensor_connections_socket_num' = m_sensor_connections_socket_num
        /\ pc' # "destroyed"
    BY <1>0, <1>2 DEF InitPipeFails, LoopTest, AcceptNothing, listenerVars, networkVars,
                      SocketMatchesPc
  <2>2. Running' = Running
    BY <2>1 DEF Running
  <2>3. SocketMatchesPc'
    BY <1>0, <1>2 DEF InitPipeFails, LoopTest, AcceptNothing, SocketMatchesPc
  <2> QED
    BY <1>0, <2>1, <2>2, <2>3 DEF NotAcceptedYet, ListenersHeld, EachDescriptorOwned,
                                  NoListenerOutlivesSensor
<1>3. CASE Accept
  <2>1. PICK c \in pending, fd \in FreeDescriptors :
          /\ pending' = pending \ {c}
          /\ open' = open \cup {fd}
          /\ listener' = [listener EXCEPT ![c] = "test"]
          /\ socket_num' = [socket_num EXCEPT ![c] = fd]
          /\ m_drones_data_rcv_threads' = m_drones_data_rcv_threads \cup {c}
    BY <1>3 DEF Accept
  <2>2. /\ c \in Connections /\ fd \notin open /\ fd # NoSocket
        /\ UNCHANGED <<m_sensor_connections_socket_num, peer>>
        /\ pc' = "delete_inactive" /\ pc = "accept"
    BY <1>0, <1>3, <1>a, <2>1 DEF Accept, FreeDescriptors, TypeOK
  <2>3. listener[c] = "none" /\ Running' = Running \cup {c} /\ c \notin Running
    BY <1>0, <2>1, <2>2 DEF NotAcceptedYet, Running, TypeOK
  <2>4. /\ socket_num'[c] = fd
        /\ \A e \in Running : socket_num'[e] = socket_num[e]
    BY <1>0, <2>1, <2>2, <2>3 DEF TypeOK, Running
  <2>5. EachDescriptorOwned'
    BY <1>0, <2>1, <2>2, <2>3, <2>4 DEF EachDescriptorOwned
  <2>6. NotAcceptedYet'
    <3>1. peer[c] # "away"
      BY <1>0, <1>3, <2>1, <2>2, <2>3 DEF NotAcceptedYet, TypeOK
    <3> QED
      BY <1>0, <2>1, <2>2, <3>1 DEF NotAcceptedYet, TypeOK
  <2> QED
    BY <1>0, <2>1, <2>2, <2>3, <2>5, <2>6
    DEF SocketMatchesPc, ListenersHeld, NoListenerOutlivesSensor
<1>4. CASE DeleteInactiveThreads
  <2>1. /\ UNCHANGED <<m_sensor_connections_socket_num, listener, socket_num, open,
                       pending, peer>>
        /\ pc = "delete_inactive" /\ pc' = "loop"
    BY <1>4 DEF DeleteInactiveThreads, listenerVars, networkVars
  <2>2. Running' = Running /\ \A c \in Running : listener[c] # "finished"
    BY <2>1 DEF Running
  <2>3. ListenersHeld'
    BY <1>0, <1>4, <2>2 DEF DeleteInactiveThreads, ListenersHeld
  <2> QED
    BY <1>0, <2>1, <2>2, <2>3 DEF SocketMatchesPc, NotAcceptedYet, EachDescriptorOwned,
                                  NoListenerOutlivesSensor
<1>5. CASE StopListening
  <2>1. /\ UNCHANGED <<m_drones_data_rcv_threads, listener, socket_num>>
        /\ open' = open \ {m_sensor_connections_socket_num}
        /\ m_sensor_connections_socket_num' = NoSocket
        /\ pc' = "returned" /\ pending' = {}
        /\ peer' = [c \in Connections |-> IF c \in pending THEN "gone" ELSE peer[c]]
    BY <1>5 DEF StopListening, listenerVars
  <2>2. Running' = Running
    BY <2>1 DEF Running
  <2>3. \A c \in Running : socket_num[c] # NoSocket
    BY <1>0, <1>a DEF EachDescriptorOwned, TypeOK
  <2>4. EachDescriptorOwned'
    BY <1>0, <2>1, <2>2, <2>3 DEF EachDescriptorOwned
  <2>5. NotAcceptedYet'
    BY <1>0, <2>1 DEF NotAcceptedYet
  <2> QED
    BY <1>0, <2>1, <2>2, <2>4, <2>5 DEF SocketMatchesPc, ListenersHeld, NoListenerOutlivesSensor
<1>6. CASE Destroy
  <2>1. /\ UNCHANGED <<listener, socket_num, pending, peer>>
        /\ m_sensor_connections_socket_num = NoSocket
        /\ m_sensor_connections_socket_num' = NoSocket
        /\ pc' = "destroyed" /\ m_drones_data_rcv_threads' = {}
        /\ open' = open
    BY <1>0, <1>6, <1>a DEF Destroy, listenerVars, networkVars, SocketMatchesPc, TypeOK
  <2>2. Running = {} /\ Running' = {}
    BY <1>0, <1>6, <2>1 DEF Destroy, Running, ListenersHeld
  <2> QED
    BY <1>0, <2>1, <2>2 DEF SocketMatchesPc, NotAcceptedYet, ListenersHeld,
                            EachDescriptorOwned, NoListenerOutlivesSensor
<1> QED
  BY <1>1, <1>2, <1>3, <1>4, <1>5, <1>6 DEF sensor_process_loop

(* A step of a listening thread does so too: it gives up its descriptor    *)
(* when it closes it.                                                      *)
LEMMA ListenerSocketsStep ==
  ASSUME NEW c \in Connections, IInv, listen_on_spesific_socket(c)
  PROVE  Sockets'
<1>0. TypeOK /\ Sockets
  BY DEF IInv
<1> USE DEF Sockets
<1>1. CASE ListenTest(c) \/ Recv(c) \/ RecvNothing(c) \/ PushChunk(c)
  <2>1. /\ UNCHANGED <<pc, m_sensor_connections_socket_num, m_drones_data_rcv_threads,
                       socket_num, open, pending, peer>>
        /\ c \in Running
    BY <1>1 DEF ListenTest, Recv, RecvNothing, PushChunk, sensorVars, networkVars, Running
  <2>2. PICK next \in {"recv", "close", "push", "test"} :
          listener' = [listener EXCEPT ![c] = next]
    BY <1>1 DEF ListenTest, Recv, RecvNothing, PushChunk
  <2>3. Running' = Running
    BY <1>0, <2>1, <2>2 DEF Running, TypeOK
  <2>4. NotAcceptedYet'
    BY <1>0, <2>1, <2>2 DEF NotAcceptedYet, Running, TypeOK
  <2> QED
    BY <1>0, <2>1, <2>3, <2>4 DEF SocketMatchesPc, ListenersHeld, EachDescriptorOwned,
                                  NoListenerOutlivesSensor
<1>2. CASE CloseConnection(c)
  <2>1. /\ UNCHANGED <<pc, m_sensor_connections_socket_num, m_drones_data_rcv_threads,
                       socket_num, pending, peer>>
        /\ open' = open \ {socket_num[c]}
        /\ listener' = [listener EXCEPT ![c] = "finished"]
        /\ listener[c] = "close"
    BY <1>2 DEF CloseConnection, sensorVars, networkVars
  <2>2. c \in Running /\ Running' = Running \ {c}
    BY <1>0, <2>1 DEF Running, TypeOK
  <2>3. EachDescriptorOwned'
    BY <1>0, <2>1, <2>2 DEF EachDescriptorOwned
  <2>4. NotAcceptedYet'
    BY <1>0, <2>1 DEF NotAcceptedYet, TypeOK
  <2> QED
    BY <1>0, <2>1, <2>2, <2>3, <2>4 DEF SocketMatchesPc, ListenersHeld, NoListenerOutlivesSensor
<1> QED
  BY <1>1, <1>2 DEF listen_on_spesific_socket

(* Every step keeps the ownership of descriptors and threads. *)
LEMMA SocketsStep == IInv /\ [Next]_vars => Sockets'
<1> SUFFICES ASSUME IInv, [Next]_vars PROVE Sockets'
  OBVIOUS
<1>0. TypeOK /\ Sockets
  BY DEF IInv
<1>1. CASE sensor_process_loop
  BY <1>1, SensorSocketsStep
<1>2. ASSUME NEW c \in Connections, listen_on_spesific_socket(c) PROVE Sockets'
  BY <1>2, ListenerSocketsStep
<1>3. ASSUME NEW c \in Connections, Connect(c) \/ Disconnect(c) PROVE Sockets'
  <2>1. /\ UNCHANGED <<pc, m_sensor_connections_socket_num, m_drones_data_rcv_threads,
                       listener, socket_num, open>>
        /\ \A e \in Connections :
             /\ e \in pending' => peer'[e] # "away" /\ (e \in pending \/ peer[e] = "away")
             /\ peer'[e] = "away" => peer[e] = "away"
    BY <1>0, <1>3 DEF Connect, Disconnect, sensorVars, listenerVars, TypeOK, Sockets,
                      NotAcceptedYet
  <2>2. Running' = Running
    BY <2>1 DEF Running
  <2> QED
    BY <1>0, <2>1, <2>2 DEF Sockets, SocketMatchesPc, NotAcceptedYet, ListenersHeld,
                            EachDescriptorOwned, NoListenerOutlivesSensor
<1>4. CASE (\E c \in Connections : Send(c)) \/ Stop \/ UNCHANGED vars
  <2>1. UNCHANGED <<pc, m_sensor_connections_socket_num, m_drones_data_rcv_threads,
                    listener, socket_num, open, pending, peer>>
    BY <1>4 DEF Send, Stop, vars, sensorVars, listenerVars, networkVars
  <2>2. Running' = Running
    BY <2>1 DEF Running
  <2> QED
    BY <1>0, <2>1, <2>2, SocketsKept
<1> QED
  BY <1>1, <1>2, <1>3, <1>4 DEF Next

-----------------------------------------------------------------------------
(* Steps that receive and push nothing; a thread that was pushing stays.   *)
LEMMA BytesKept ==
  /\ Bytes
  /\ UNCHANGED <<m_shared_raw_data, received, data_chunk>>
  /\ \A c \in Connections : listener'[c] = "push" <=> listener[c] = "push"
  => Bytes'
BY DEF Bytes, QueuedWereReceived, HeldChunkIsLast, BytesInOrder, NoByteMissing, Queued, Holds

(* recv hands a thread the bytes that follow all its connection queued. *)
LEMMA RecvBytes ==
  ASSUME NEW c \in Connections, IInv, Recv(c)
  PROVE  Bytes'
<1>0. TypeOK /\ Bytes
  BY DEF IInv
<1>1. PICK n \in 1..RECV_BUFFER_SIZE :
        /\ received' = [received EXCEPT ![c] = @ + n]
        /\ data_chunk' = [data_chunk EXCEPT ![c] =
             [from |-> c, first |-> received[c] + 1, last |-> received[c] + n]]
  BY DEF Recv
<1>2. /\ n \in Nat /\ n >= 1 /\ received[c] \in Nat
      /\ m_shared_raw_data' = m_shared_raw_data
      /\ listener[c] = "recv"
      /\ listener' = [listener EXCEPT ![c] = "push"]
  BY <1>0, SensorAssumption DEF Recv, TypeOK
<1>3. /\ data_chunk'[c] = [from |-> c, first |-> received[c] + 1, last |-> received[c] + n]
      /\ received'[c] = received[c] + n
      /\ listener'[c] = "push"
      /\ \A e \in Connections \ {c} :
           /\ data_chunk'[e] = data_chunk[e]
           /\ received'[e] = received[e]
           /\ listener'[e] = listener[e]
  BY <1>0, <1>1, <1>2 DEF TypeOK
<1>4. \A k \in DOMAIN m_shared_raw_data :
        /\ m_shared_raw_data[k].from \in Connections
        /\ m_shared_raw_data[k].last \in Nat
        /\ m_shared_raw_data[k].last <= received[m_shared_raw_data[k].from]
  <2> SUFFICES ASSUME NEW k \in DOMAIN m_shared_raw_data
               PROVE  /\ m_shared_raw_data[k].from \in Connections
                      /\ m_shared_raw_data[k].last \in Nat
                      /\ m_shared_raw_data[k].last <= received[m_shared_raw_data[k].from]
    OBVIOUS
  <2>1. m_shared_raw_data[k] \in Chunk
    BY <1>0 DEF TypeOK
  <2> QED
    BY <1>0, <2>1 DEF Chunk, Bytes, QueuedWereReceived
<1>5. QueuedWereReceived'
  BY <1>2, <1>3, <1>4 DEF QueuedWereReceived
<1>6. HeldChunkIsLast'
  <2> SUFFICES ASSUME NEW e \in Connections, listener'[e] = "push"
               PROVE  /\ data_chunk'[e] \in Chunk
                      /\ data_chunk'[e].from = e
                      /\ data_chunk'[e].last = received'[e]
                      /\ \A k \in DOMAIN m_shared_raw_data :
                           m_shared_raw_data[k].from = e =>
                             m_shared_raw_data[k].last < data_chunk'[e].first
    BY <1>2 DEF HeldChunkIsLast
  <2>1. CASE e = c
    BY <1>2, <1>3, <1>4, <2>1 DEF Chunk
  <2>2. CASE e # c
    BY <1>0, <1>3, <2>2 DEF Bytes, HeldChunkIsLast
  <2> QED
    BY <2>1, <2>2
<1>7. BytesInOrder'
  BY <1>0, <1>2 DEF Bytes, BytesInOrder
<1>8. NoByteMissing'
  <2> SUFFICES ASSUME NEW e \in Connections, NEW k \in 1..received'[e]
               PROVE  Queued(e, k)' \/ (listener'[e] = "push" /\ Holds(data_chunk'[e], e, k))
    BY DEF NoByteMissing
  <2>1. CASE e # c
    BY <1>0, <1>2, <1>3, <2>1 DEF Bytes, NoByteMissing, Queued, Holds
  <2>2. CASE e = c /\ k <= received[c]
    <3>1. k \in 1..received[c]
      BY <1>2, <1>3, <2>2
    <3> QED
      BY <1>0, <1>2, <2>2, <3>1 DEF Bytes, NoByteMissing, Queued, Holds
  <2>3. CASE e = c /\ ~(k <= received[c])
    BY <1>2, <1>3, <2>3 DEF Holds
  <2> QED
    BY <2>1, <2>2, <2>3
<1> QED
  BY <1>5, <1>6, <1>7, <1>8 DEF Bytes

(* What a thread pushes follows all its connection queued. *)
LEMMA PushBytes ==
  ASSUME NEW c \in Connections, IInv, PushChunk(c)
  PROVE  Bytes'
<1>0. TypeOK /\ Bytes
  BY DEF IInv
<1> DEFINE q == m_shared_raw_data
           chunk == data_chunk[c]
           last == Len(q) + 1
<1>1. /\ listener[c] = "push"
      /\ m_shared_raw_data' = Append(q, chunk)
      /\ listener' = [listener EXCEPT ![c] = "test"]
      /\ UNCHANGED <<received, data_chunk>>
  BY DEF PushChunk
<1>2. /\ chunk \in Chunk /\ chunk.from = c /\ chunk.last = received[c]
      /\ \A n \in DOMAIN q : q[n].from = c => q[n].last < chunk.first
  BY <1>0, <1>1 DEF Bytes, HeldChunkIsLast
<1>3. q \in Seq(Chunk) /\ received[c] \in Nat
  BY <1>0 DEF TypeOK
<1>4. /\ DOMAIN m_shared_raw_data' = 1..last
      /\ DOMAIN q = 1..Len(q) /\ Len(q) \in Nat
      /\ \A n \in 1..Len(q) : m_shared_raw_data'[n] = q[n]
      /\ m_shared_raw_data'[last] = chunk
  BY <1>1, <1>2, <1>3, AppendChunk
<1>5. \A e \in Connections : listener'[e] = "push" => listener[e] = "push" /\ e # c
  BY <1>0, <1>1 DEF TypeOK
<1> HIDE DEF q, chunk
<1>6. \A n \in 1..last : n \in 1..Len(q) \/ n = last
  BY <1>4
<1>7. QueuedWereReceived'
  <2> SUFFICES ASSUME NEW n \in 1..last
               PROVE  m_shared_raw_data'[n].last <= received[m_shared_raw_data'[n].from]
    BY <1>1, <1>4 DEF QueuedWereReceived
  <2>1. CASE n = last
    BY <1>2, <1>3, <1>4, <2>1
  <2>2. CASE n \in 1..Len(q)
    BY <1>0, <1>4, <2>2 DEF Bytes, QueuedWereReceived, q
  <2> QED
    BY <1>6, <2>1, <2>2
<1>8. HeldChunkIsLast'
  <2> SUFFICES ASSUME NEW e \in Connections, listener'[e] = "push"
               PROVE  /\ data_chunk[e] \in Chunk
                      /\ data_chunk[e].from = e
                      /\ data_chunk[e].last = received[e]
                      /\ \A n \in 1..last :
                           m_shared_raw_data'[n].from = e =>
                             m_shared_raw_data'[n].last < data_chunk[e].first
    BY <1>1, <1>4 DEF HeldChunkIsLast
  <2>1. /\ listener[e] = "push" /\ e # c
        /\ data_chunk[e] \in Chunk
        /\ data_chunk[e].from = e
        /\ data_chunk[e].last = received[e]
        /\ \A n \in 1..Len(q) : q[n].from = e => q[n].last < data_chunk[e].first
    BY <1>0, <1>4, <1>5 DEF Bytes, HeldChunkIsLast, q
  <2>2. \A n \in 1..last : m_shared_raw_data'[n].from = e => n \in 1..Len(q)
    BY <1>2, <1>4, <1>6, <2>1
  <2> QED
    BY <1>4, <2>1, <2>2
<1>9. BytesInOrder'
  <2> SUFFICES ASSUME NEW m \in 1..last, NEW n \in 1..last, m < n,
                      m_shared_raw_data'[m].from = m_shared_raw_data'[n].from
               PROVE  m_shared_raw_data'[m].last < m_shared_raw_data'[n].first
    BY <1>4 DEF BytesInOrder
  <2>1. m \in 1..Len(q)
    BY <1>4
  <2>2. CASE n = last
    BY <1>2, <1>4, <2>1, <2>2
  <2>3. CASE n \in 1..Len(q)
    BY <1>0, <1>4, <2>1, <2>3 DEF Bytes, BytesInOrder, q
  <2> QED
    BY <1>6, <2>2, <2>3
<1>10. NoByteMissing'
  <2> SUFFICES ASSUME NEW e \in Connections, NEW k \in 1..received[e]
               PROVE  \/ \E n \in 1..last : Holds(m_shared_raw_data'[n], e, k)
                      \/ listener'[e] = "push" /\ Holds(data_chunk[e], e, k)
    BY <1>1, <1>4 DEF NoByteMissing, Queued, Holds
  <2>1. \/ \E n \in 1..Len(q) : Holds(q[n], e, k)
        \/ listener[e] = "push" /\ Holds(data_chunk[e], e, k)
    BY <1>0, <1>4 DEF Bytes, NoByteMissing, Queued, q
  <2>2. CASE \E n \in 1..Len(q) : Holds(q[n], e, k)
    BY <1>4, <2>2
  <2>3. CASE listener[e] = "push" /\ Holds(data_chunk[e], e, k) /\ e = c
    <3>1. last \in 1..last
      BY <1>4
    <3> QED
      BY <1>4, <2>3, <3>1 DEF chunk
  <2>4. CASE listener[e] = "push" /\ Holds(data_chunk[e], e, k) /\ e # c
    BY <1>0, <1>1, <2>4 DEF TypeOK
  <2> QED
    BY <2>1, <2>2, <2>3, <2>4
<1> QED
  BY <1>7, <1>8, <1>9, <1>10 DEF Bytes

(* Every step keeps the bytes of each connection complete and in order. *)
LEMMA BytesStep == IInv /\ [Next]_vars => Bytes'
<1> SUFFICES ASSUME IInv, [Next]_vars PROVE Bytes'
  OBVIOUS
<1>0. TypeOK /\ Bytes /\ NotAcceptedYet
  BY DEF IInv, Sockets
<1>1. CASE sensor_process_loop
  <2>1. UNCHANGED <<m_shared_raw_data, received, data_chunk>>
    BY <1>1 DEF sensor_process_loop, InitPipe, InitPipeFails, LoopTest, Accept,
         AcceptNothing, DeleteInactiveThreads, StopListening, Destroy, listenerVars
  <2>2. \A c \in Connections : listener'[c] = "push" <=> listener[c] = "push"
    <3>1. CASE Accept
      <4>1. PICK c \in pending : listener' = [listener EXCEPT ![c] = "test"]
        BY <3>1 DEF Accept
      <4>2. c \in Connections /\ listener[c] = "none"
        BY <1>0, <4>1 DEF NotAcceptedYet, TypeOK
      <4> QED
        BY <1>0, <4>1, <4>2 DEF TypeOK
    <3>2. CASE ~Accept
      BY <1>1, <3>2 DEF sensor_process_loop, InitPipe, InitPipeFails, LoopTest,
           AcceptNothing, DeleteInactiveThreads, StopListening, Destroy, listenerVars
    <3> QED
      BY <3>1, <3>2
  <2> QED
    BY <1>0, <2>1, <2>2, BytesKept
<1>2. ASSUME NEW c \in Connections, listen_on_spesific_socket(c) PROVE Bytes'
  <2>1. CASE ListenTest(c) \/ RecvNothing(c) \/ CloseConnection(c)
    <3>1. PICK next \in {"recv", "close", "test", "finished"} :
            listener' = [listener EXCEPT ![c] = next]
      BY <2>1 DEF ListenTest, RecvNothing, CloseConnection
    <3>2. listener[c] # "push" /\ UNCHANGED <<m_shared_raw_data, received, data_chunk>>
      BY <2>1 DEF ListenTest, RecvNothing, CloseConnection
    <3>3. \A e \in Connections : listener'[e] = "push" <=> listener[e] = "push"
      BY <1>0, <3>1, <3>2 DEF TypeOK
    <3> QED
      BY <1>0, <3>2, <3>3, BytesKept
  <2> QED
    BY <1>2, <2>1, RecvBytes, PushBytes DEF listen_on_spesific_socket
<1>3. CASE \/ \E c \in Connections : Connect(c) \/ Send(c) \/ Disconnect(c)
           \/ Stop \/ UNCHANGED vars
  <2>1. UNCHANGED <<m_shared_raw_data, received, data_chunk, listener>>
    BY <1>3 DEF Connect, Send, Disconnect, Stop, vars, sensorVars, listenerVars, networkVars
  <2> QED
    BY <1>0, <2>1, BytesKept
<1> QED
  BY <1>1, <1>2, <1>3 DEF Next

-----------------------------------------------------------------------------
(* The inductive invariant. *)
THEOREM Inductive == Spec => []IInv
<1>1. IInv /\ [Next]_vars => IInv'
  BY TypeStep, SocketsStep, BytesStep DEF IInv
<1> QED
  BY <1>1, InitIInv, PTL DEF Spec

(* Every variable keeps its range. *)
THEOREM TypeCorrect == Spec => []TypeOK
<1>1. IInv => TypeOK
  BY DEF IInv
<1> QED
  BY <1>1, Inductive, PTL

(* The raw queue holds the bytes of each connection once and in order. *)
THEOREM EveryByteOnceInOrder == Spec => []BytesArriveOnce
<1>1. IInv => BytesArriveOnce
  BY DEF IInv, Bytes, BytesArriveOnce
<1> QED
  BY <1>1, Inductive, PTL

(* No descriptor leaks, is shared, or is used after it was closed. *)
THEOREM DescriptorsOwned == Spec => []EachDescriptorOwned
<1>1. IInv => EachDescriptorOwned
  BY DEF IInv, Sockets
<1> QED
  BY <1>1, Inductive, PTL

(* Every listening thread has ended before the sensor is destroyed. *)
THEOREM ListenersEndFirst == Spec => []NoListenerOutlivesSensor
<1>1. IInv => NoListenerOutlivesSensor
  BY DEF IInv, Sockets
<1> QED
  BY <1>1, Inductive, PTL
=============================================================================
