-------------------- MODULE TelemetryDataProcessor_proofs --------------------
(***************************************************************************)
(* Proofs about the status table, for any drones, timeout, width of the    *)
(* clock and lag of each drone's timestamps, when no drone's clock is      *)
(* ahead of the server's.  That condition is needed: by the trace of       *)
(* RecentlyHeardIsActive, a drone ahead is turned off on arrival.          *)
(***************************************************************************)
EXTENDS TelemetryDataProcessor, TLAPS

ClocksNotAhead == \A d \in Drones : \A offset \in ClockOffsets[d] : offset <= 0

(* No timestamp, in the queue or in the table, is later than the clock. *)
NotFromTheFuture ==
  /\ \A i \in DOMAIN m_shared_telemetry_packets : m_shared_telemetry_packets[i].timestamp <= now
  /\ \A d \in DOMAIN m_drones_status : m_drones_status[d].timestamp <= now

(* No timestamp, in the queue or in the table, is earlier than its packet's *)
(* arrival by more than the drone's lag.                                   *)
LagIsBounded ==
  /\ \A i \in DOMAIN m_shared_telemetry_packets :
       m_shared_telemetry_packets[i].timestamp >=
         m_shared_telemetry_packets[i].arrived - MaxLag[m_shared_telemetry_packets[i].drone]
  /\ \A d \in DOMAIN m_drones_status :
       m_drones_status[d].timestamp >= heard[d] - MaxLag[d]

(* An INACTIVE drone's timestamp is older than the timeout. *)
InactiveIsOld ==
  \A d \in DOMAIN m_drones_status :
    ~m_drones_status[d].active =>
      now - m_drones_status[d].timestamp > DRONE_ACTIVATION_TIMEOUT

IInv ==
  /\ TypeOK
  /\ NotFromTheFuture
  /\ LagIsBounded
  /\ InactiveIsOld
  /\ ActiveMeansRecent

(* The range of the clock. *)
LEMMA ClockFacts ==
  ASSUME TypeOK
  PROVE  /\ now \in Nat /\ StartTime <= now /\ now <= MaxTime /\ now < ClockModulus
         /\ DRONE_ACTIVATION_TIMEOUT \in Nat
         /\ \A d \in DOMAIN m_drones_status :
              /\ m_drones_status[d] \in [active : BOOLEAN, timestamp : Nat]
              /\ m_drones_status[d].timestamp \in Nat
              /\ m_drones_status[d].active \in BOOLEAN
<1>1. \A d \in DOMAIN m_drones_status :
        m_drones_status[d] \in [active : BOOLEAN, timestamp : Nat]
  BY DEF TypeOK
<1>2. now \in Nat /\ StartTime <= now /\ now <= MaxTime /\ now < ClockModulus
  BY ClockAssumption DEF TypeOK
<1> QED
  BY <1>1, <1>2, ClockAssumption

(* Init establishes the invariant. *)
LEMMA InitIInv == Init => IInv
<1> SUFFICES ASSUME Init PROVE IInv
  OBVIOUS
<1>1. DOMAIN m_drones_status = {}
  BY DEF Init
<1>2. TypeOK
  <2>1. now \in StartTime..MaxTime
    BY ClockAssumption DEF Init
  <2>2. m_shared_telemetry_packets \in Seq(Packet)
    BY DEF Init
  <2>3. m_drones_status \in [DOMAIN m_drones_status -> [active : BOOLEAN, timestamp : Nat]]
        /\ heard \in [DOMAIN m_drones_status -> Nat]
    BY DEF Init
  <2>4. swept \in BOOLEAN /\ g_keep_running_system \in BOOLEAN
    BY DEF Init
  <2> QED
    BY <1>1, <2>1, <2>2, <2>3, <2>4 DEF Init, TypeOK
<1>3. NotFromTheFuture
  BY <1>1 DEF Init, NotFromTheFuture
<1> QED
  BY <1>1, <1>2, <1>3 DEF Init, IInv, LagIsBounded, InactiveIsOld, ActiveMeansRecent

(* The effect of Sweep on one entry. *)
LEMMA SweepEffect ==
  ASSUME TypeOK, NotFromTheFuture, Sweep, NEW d \in DOMAIN m_drones_status
  PROVE  /\ DOMAIN m_drones_status' = DOMAIN m_drones_status
         /\ m_drones_status'[d] \in [active : BOOLEAN, timestamp : Nat]
         /\ m_drones_status'[d].timestamp = m_drones_status[d].timestamp
         /\ m_drones_status'[d].active <=>
              now - m_drones_status[d].timestamp <= DRONE_ACTIVATION_TIMEOUT
<1> DEFINE t == m_drones_status[d].timestamp
<1>1. /\ m_drones_status[d] \in [active : BOOLEAN, timestamp : Nat]
      /\ t \in Nat /\ now \in Nat /\ t <= now /\ DRONE_ACTIVATION_TIMEOUT \in Nat
  BY ClockFacts DEF NotFromTheFuture
<1>2. m_drones_status' =
        [e \in DOMAIN m_drones_status |->
           [m_drones_status[e] EXCEPT !.active = ~Expired(m_drones_status[e].timestamp)]]
  BY DEF Sweep
<1>3. m_drones_status'[d] = [m_drones_status[d] EXCEPT !.active = ~Expired(t)]
  BY <1>2
<1>4. m_drones_status'[d] = [active |-> ~Expired(t), timestamp |-> t]
  BY <1>1, <1>3
<1>5. Expired(t) <=> now - t > DRONE_ACTIVATION_TIMEOUT
  <2> HIDE DEF t
  <2> QED
    BY <1>1 DEF Expired, TimePassed
<1>6. (~Expired(t)) \in BOOLEAN
  <2> HIDE DEF t
  <2> QED
    BY Zenon
<1>7. ~Expired(t) <=> now - t <= DRONE_ACTIVATION_TIMEOUT
  <2> HIDE DEF t
  <2> QED
    BY <1>1, <1>5
<1> QED
  BY <1>1, <1>2, <1>4, <1>6, <1>7

(* An element of a sequence. *)
LEMMA SeqElement ==
  ASSUME NEW S, NEW q \in Seq(S), NEW i \in DOMAIN q
  PROVE  q[i] \in S
OBVIOUS

(* The head of a sequence that is not empty. *)
LEMMA HeadElement ==
  ASSUME NEW S, NEW q \in Seq(S), q # <<>>
  PROVE  Head(q) \in S /\ Head(q) = q[1] /\ 1 \in DOMAIN q
OBVIOUS

(* The effect of PopPacket: the head of the queue becomes the last         *)
(* telemetry of its drone, which is active; the others keep theirs.        *)
LEMMA PopEffect ==
  ASSUME TypeOK, NotFromTheFuture, PopPacket
  PROVE  LET packet == Head(m_shared_telemetry_packets)
         IN  /\ packet.drone \in Drones /\ packet.timestamp \in Nat /\ packet.timestamp <= now
             /\ packet.arrived \in Nat
             /\ m_shared_telemetry_packets # <<>>
             /\ DOMAIN m_drones_status' = DOMAIN m_drones_status \cup {packet.drone}
             /\ \A e \in DOMAIN m_drones_status' :
                  m_drones_status'[e] =
                    IF e = packet.drone
                    THEN [active |-> TRUE, timestamp |-> packet.timestamp]
                    ELSE m_drones_status[e]
             /\ heard' = [e \in DOMAIN m_drones_status' |->
                            IF e = packet.drone THEN packet.arrived ELSE heard[e]]
<1> DEFINE packet == Head(m_shared_telemetry_packets)
<1>1. /\ m_shared_telemetry_packets # <<>>
      /\ m_drones_status' = Updated(packet.drone, packet.timestamp)
      /\ heard' = [e \in DOMAIN heard \cup {packet.drone} |->
                     IF e = packet.drone THEN packet.arrived ELSE heard[e]]
      /\ DOMAIN heard = DOMAIN m_drones_status
  BY DEF PopPacket, TypeOK
<1>2. m_shared_telemetry_packets \in Seq(Packet)
  BY DEF TypeOK
<1>3. /\ packet \in Packet
      /\ packet = m_shared_telemetry_packets[1]
      /\ 1 \in DOMAIN m_shared_telemetry_packets
  BY <1>1, <1>2, HeadElement
<1>4. packet.timestamp <= now
  BY <1>3 DEF NotFromTheFuture
<1> QED
  BY <1>1, <1>3, <1>4 DEF Updated, Packet

(* Type correctness needs NotFromTheFuture only to call the effect lemmas. *)
LEMMA TypeStep == TypeOK /\ NotFromTheFuture /\ [Next]_vars => TypeOK'
<1> SUFFICES ASSUME TypeOK, NotFromTheFuture, [Next]_vars PROVE TypeOK'
  OBVIOUS
<1>1. CASE Tick
  <2>1. now' \in StartTime..MaxTime
    BY <1>1, ClockFacts, ClockAssumption DEF Tick
  <2>2. swept' \in BOOLEAN
    BY <1>1 DEF Tick
  <2> QED
    BY <1>1, <2>1, <2>2 DEF Tick, TypeOK
<1>2. ASSUME NEW d \in Drones, DroneSends(d) PROVE TypeOK'
  <2>1. PICK offset \in ClockOffsets[d] :
          m_shared_telemetry_packets' =
            Append(m_shared_telemetry_packets,
                   [drone |-> d, timestamp |-> now + offset, arrived |-> now])
    BY <1>2 DEF DroneSends
  <2>2. now + offset \in Nat /\ now \in Nat
    <3>1. offset \in Int /\ StartTime + offset >= 0
      BY ClockAssumption
    <3> QED
      BY <3>1, ClockFacts, ClockAssumption
  <2>3. m_shared_telemetry_packets' \in Seq(Packet)
    BY <2>1, <2>2 DEF TypeOK, Packet
  <2> QED
    BY <1>2, <2>3 DEF DroneSends, TypeOK
<1>3. CASE Stop
  <2>1. g_keep_running_system' \in BOOLEAN
    BY <1>3 DEF Stop
  <2> QED
    BY <1>3, <2>1 DEF Stop, TypeOK
<1>4. CASE PopPacket
  <2> DEFINE packet == Head(m_shared_telemetry_packets)
  <2>1. /\ packet.drone \in Drones /\ packet.timestamp \in Nat
        /\ packet.arrived \in Nat
        /\ heard' = [e \in DOMAIN m_drones_status' |->
                       IF e = packet.drone THEN packet.arrived ELSE heard[e]]
        /\ DOMAIN m_drones_status' = DOMAIN m_drones_status \cup {packet.drone}
        /\ \A e \in DOMAIN m_drones_status' :
             m_drones_status'[e] =
               IF e = packet.drone THEN [active |-> TRUE, timestamp |-> packet.timestamp]
               ELSE m_drones_status[e]
        /\ m_shared_telemetry_packets # <<>>
    BY <1>4, PopEffect
  <2>2. DOMAIN m_drones_status' \subseteq Drones
    BY <2>1 DEF TypeOK
  <2>3. \A e \in DOMAIN m_drones_status' :
          m_drones_status'[e] \in [active : BOOLEAN, timestamp : Nat]
    <3> SUFFICES ASSUME NEW e \in DOMAIN m_drones_status'
                 PROVE  m_drones_status'[e] \in [active : BOOLEAN, timestamp : Nat]
      OBVIOUS
    <3>1. CASE e = packet.drone
      <4>1. [active |-> TRUE, timestamp |-> packet.timestamp]
              \in [active : BOOLEAN, timestamp : Nat]
        BY <2>1
      <4> QED
        BY <2>1, <3>1, <4>1
    <3>2. CASE e # packet.drone
      BY <2>1, <3>2, ClockFacts
    <3> QED
      BY <3>1, <3>2
  <2>4. m_drones_status' = [e \in DOMAIN m_drones_status' |-> m_drones_status'[e]]
    BY <1>4 DEF PopPacket, Updated
  <2>5. m_drones_status'
          \in [DOMAIN m_drones_status' -> [active : BOOLEAN, timestamp : Nat]]
    BY <2>3, <2>4
  <2>6. m_shared_telemetry_packets' \in Seq(Packet)
    BY <1>4, <2>1 DEF PopPacket, TypeOK
  <2>7. heard' \in [DOMAIN m_drones_status' -> Nat]
    <3>1. \A e \in DOMAIN m_drones_status' : e # packet.drone => heard[e] \in Nat
      BY <2>1 DEF TypeOK
    <3> HIDE DEF packet
    <3> QED
      BY <2>1, <3>1
  <2> QED
    BY <1>4, <2>2, <2>5, <2>6, <2>7 DEF PopPacket, TypeOK
<1>5. CASE Sweep
  <2>1. DOMAIN m_drones_status' = DOMAIN m_drones_status
    BY <1>5 DEF Sweep
  <2>2. \A e \in DOMAIN m_drones_status' :
          m_drones_status'[e] \in [active : BOOLEAN, timestamp : Nat]
    BY <1>5, <2>1, SweepEffect
  <2>3. m_drones_status' = [e \in DOMAIN m_drones_status' |-> m_drones_status'[e]]
    BY <1>5 DEF Sweep
  <2>4. m_drones_status'
          \in [DOMAIN m_drones_status' -> [active : BOOLEAN, timestamp : Nat]]
    BY <2>2, <2>3
  <2>5. swept' \in BOOLEAN
    BY <1>5 DEF Sweep
  <2> QED
    BY <1>5, <2>1, <2>4, <2>5 DEF Sweep, TypeOK
<1>6. CASE Test \/ PopTimeout \/ UNCHANGED vars
  BY <1>6 DEF Test, PopTimeout, vars, TypeOK
<1> QED
  BY <1>1, <1>2, <1>3, <1>4, <1>5, <1>6 DEF Next, process_loop

(* No timestamp from the future enters if no drone's clock is ahead. *)
LEMMA FutureStep ==
  ASSUME ClocksNotAhead, TypeOK, NotFromTheFuture, [Next]_vars
  PROVE  NotFromTheFuture'
<1>0. /\ now \in Nat
      /\ m_shared_telemetry_packets \in Seq(Packet)
  BY ClockFacts DEF TypeOK
<1>1. CASE Tick
  <2>1. /\ now' = now + 1
        /\ UNCHANGED <<m_shared_telemetry_packets, m_drones_status>>
    BY <1>1 DEF Tick
  <2>2. \A i \in DOMAIN m_shared_telemetry_packets :
          m_shared_telemetry_packets[i].timestamp <= now + 1
    <3> SUFFICES ASSUME NEW i \in DOMAIN m_shared_telemetry_packets
                 PROVE  m_shared_telemetry_packets[i].timestamp <= now + 1
      OBVIOUS
    <3>1. m_shared_telemetry_packets[i] \in Packet
      BY <1>0, SeqElement
    <3> QED
      BY <1>0, <3>1 DEF NotFromTheFuture, Packet
  <2>3. \A d \in DOMAIN m_drones_status : m_drones_status[d].timestamp <= now + 1
    BY <1>0, ClockFacts DEF NotFromTheFuture
  <2> QED
    BY <2>1, <2>2, <2>3 DEF NotFromTheFuture
<1>2. ASSUME NEW d \in Drones, DroneSends(d) PROVE NotFromTheFuture'
  <2>1. PICK offset \in ClockOffsets[d] :
          m_shared_telemetry_packets' =
            Append(m_shared_telemetry_packets,
                   [drone |-> d, timestamp |-> now + offset, arrived |-> now])
    BY <1>2 DEF DroneSends
  <2>2. now + offset \in Nat /\ now + offset <= now
    <3>1. offset \in Int /\ StartTime + offset >= 0 /\ offset <= 0
      BY ClockAssumption DEF ClocksNotAhead
    <3> QED
      BY <3>1, ClockFacts, ClockAssumption
  <2>3. \A i \in DOMAIN m_shared_telemetry_packets' :
          m_shared_telemetry_packets'[i].timestamp <= now
    BY <1>0, <2>1, <2>2 DEF NotFromTheFuture
  <2> QED
    BY <1>2, <2>3 DEF DroneSends, NotFromTheFuture
<1>3. CASE PopPacket
  <2>1. \A e \in DOMAIN m_drones_status' : m_drones_status'[e].timestamp <= now
    BY <1>3, PopEffect DEF NotFromTheFuture
  <2>2. \A i \in DOMAIN m_shared_telemetry_packets' :
          m_shared_telemetry_packets'[i].timestamp <= now
    <3>1. m_shared_telemetry_packets' = Tail(m_shared_telemetry_packets)
          /\ m_shared_telemetry_packets # <<>>
      BY <1>3 DEF PopPacket
    <3>2. \A i \in DOMAIN Tail(m_shared_telemetry_packets) :
            /\ i + 1 \in DOMAIN m_shared_telemetry_packets
            /\ Tail(m_shared_telemetry_packets)[i] = m_shared_telemetry_packets[i + 1]
      BY <1>0, <3>1
    <3> QED
      BY <3>1, <3>2 DEF NotFromTheFuture
  <2> QED
    BY <1>3, <2>1, <2>2 DEF PopPacket, NotFromTheFuture
<1>4. CASE Sweep
  <2>1. \A d \in DOMAIN m_drones_status' : m_drones_status'[d].timestamp <= now
    <3>1. DOMAIN m_drones_status' = DOMAIN m_drones_status
      BY <1>4 DEF Sweep
    <3> QED
      BY <1>4, <3>1, SweepEffect DEF NotFromTheFuture
  <2> QED
    BY <1>4, <2>1 DEF Sweep, NotFromTheFuture
<1>5. CASE Stop \/ Test \/ PopTimeout \/ UNCHANGED vars
  BY <1>5 DEF Stop, Test, PopTimeout, vars, NotFromTheFuture
<1> QED
  BY <1>1, <1>2, <1>3, <1>4, <1>5 DEF Next, process_loop

(* A packet's lag is its drone's, and PopPacket and Sweep keep each        *)
(* timestamp with the arrival it came with.                                *)
LEMMA LagStep ==
  ASSUME TypeOK, NotFromTheFuture, LagIsBounded, [Next]_vars
  PROVE  LagIsBounded'
<1>0. now \in Nat /\ m_shared_telemetry_packets \in Seq(Packet)
  BY ClockFacts DEF TypeOK
<1>1. ASSUME NEW d \in Drones, DroneSends(d) PROVE LagIsBounded'
  <2>1. PICK offset \in ClockOffsets[d] :
          m_shared_telemetry_packets' =
            Append(m_shared_telemetry_packets,
                   [drone |-> d, timestamp |-> now + offset, arrived |-> now])
    BY <1>1 DEF DroneSends
  <2>2. now + offset >= now - MaxLag[d]
    <3>1. offset \in Int /\ MaxLag[d] \in Nat /\ offset >= -MaxLag[d]
      BY ClockAssumption
    <3> QED
      BY <1>0, <3>1
  <2>3. \A i \in DOMAIN m_shared_telemetry_packets' :
          m_shared_telemetry_packets'[i].timestamp >=
            m_shared_telemetry_packets'[i].arrived
              - MaxLag[m_shared_telemetry_packets'[i].drone]
    BY <1>0, <2>1, <2>2 DEF LagIsBounded
  <2> QED
    BY <1>1, <2>3 DEF DroneSends, LagIsBounded
<1>2. CASE PopPacket
  <2> DEFINE packet == Head(m_shared_telemetry_packets)
  <2>1. m_shared_telemetry_packets' = Tail(m_shared_telemetry_packets)
        /\ m_shared_telemetry_packets # <<>>
    BY <1>2 DEF PopPacket
  <2>2. \A i \in DOMAIN Tail(m_shared_telemetry_packets) :
          /\ i + 1 \in DOMAIN m_shared_telemetry_packets
          /\ Tail(m_shared_telemetry_packets)[i] = m_shared_telemetry_packets[i + 1]
    BY <1>0, <2>1
  <2>3. packet.timestamp >= packet.arrived - MaxLag[packet.drone]
    BY <1>0, <2>1, HeadElement DEF LagIsBounded
  <2>4. ASSUME NEW d \in DOMAIN m_drones_status'
        PROVE  m_drones_status'[d].timestamp >= heard'[d] - MaxLag[d]
    <3>1. CASE d = packet.drone
      <4>1. m_drones_status'[d].timestamp = packet.timestamp /\ heard'[d] = packet.arrived
        BY <1>2, <3>1, PopEffect
      <4> QED
        BY <2>3, <3>1, <4>1
    <3>2. CASE d # packet.drone
      <4>1. m_drones_status'[d] = m_drones_status[d] /\ heard'[d] = heard[d]
            /\ d \in DOMAIN m_drones_status
        BY <1>2, <3>2, PopEffect
      <4> QED
        BY <4>1 DEF LagIsBounded
    <3> QED
      BY <3>1, <3>2
  <2> QED
    BY <2>1, <2>2, <2>4 DEF LagIsBounded
<1>3. CASE Sweep
  <2>1. DOMAIN m_drones_status' = DOMAIN m_drones_status
        /\ UNCHANGED <<heard, m_shared_telemetry_packets>>
    BY <1>3 DEF Sweep
  <2>2. \A d \in DOMAIN m_drones_status' :
          m_drones_status'[d].timestamp = m_drones_status[d].timestamp
    BY <1>3, <2>1, SweepEffect
  <2> QED
    BY <2>1, <2>2 DEF LagIsBounded
<1>4. CASE Tick \/ Stop \/ Test \/ PopTimeout \/ UNCHANGED vars
  BY <1>4 DEF Tick, Stop, Test, PopTimeout, vars, LagIsBounded
<1> QED
  BY <1>1, <1>2, <1>3, <1>4 DEF Next, process_loop

(* An old timestamp, and a bound on how much older it is than its packet's *)
(* arrival.                                                                *)
LEMMA OldMeansSilent ==
  ASSUME TypeOK, LagIsBounded, InactiveIsOld
  PROVE  PunctualDronesStayActive
<1> SUFFICES ASSUME NEW d \in DOMAIN m_drones_status, ~m_drones_status[d].active
             PROVE  now - heard[d] > DRONE_ACTIVATION_TIMEOUT - MaxLag[d]
  BY DEF PunctualDronesStayActive
<1>1. /\ now - m_drones_status[d].timestamp > DRONE_ACTIVATION_TIMEOUT
      /\ m_drones_status[d].timestamp >= heard[d] - MaxLag[d]
  BY DEF InactiveIsOld, LagIsBounded
<1>2. /\ now \in Nat /\ DRONE_ACTIVATION_TIMEOUT \in Nat
      /\ m_drones_status[d].timestamp \in Nat
  BY ClockFacts
<1>3. heard[d] \in Nat /\ MaxLag[d] \in Nat
  BY ClockAssumption DEF TypeOK
<1> QED
  BY <1>1, <1>2, <1>3

(* A drone is turned off only by a sweep that finds its telemetry too old, *)
(* and from then on it only gets older.                                    *)
LEMMA InactiveStep ==
  ASSUME TypeOK, NotFromTheFuture, InactiveIsOld, [Next]_vars
  PROVE  InactiveIsOld'
<1> SUFFICES ASSUME NEW d \in DOMAIN m_drones_status', ~m_drones_status'[d].active
             PROVE  now' - m_drones_status'[d].timestamp > DRONE_ACTIVATION_TIMEOUT
  BY DEF InactiveIsOld
<1>0. now \in Nat /\ DRONE_ACTIVATION_TIMEOUT \in Nat
  BY ClockFacts
<1>1. CASE Tick
  <2>1. now' = now + 1 /\ m_drones_status' = m_drones_status
    BY <1>1 DEF Tick
  <2>2. now - m_drones_status[d].timestamp > DRONE_ACTIVATION_TIMEOUT
        /\ m_drones_status[d].timestamp \in Nat
    BY <2>1, ClockFacts DEF InactiveIsOld
  <2> QED
    BY <1>0, <2>1, <2>2
<1>2. CASE PopPacket
  <2>1. CASE d = Head(m_shared_telemetry_packets).drone
    <3>1. m_drones_status'[d].active = TRUE
      BY <1>2, <2>1, PopEffect
    <3> QED
      BY <3>1
  <2>2. CASE d # Head(m_shared_telemetry_packets).drone
    <3>1. m_drones_status'[d] = m_drones_status[d] /\ d \in DOMAIN m_drones_status
      BY <1>2, <2>2, PopEffect
    <3>2. now' = now
      BY <1>2 DEF PopPacket
    <3> QED
      BY <3>1, <3>2 DEF InactiveIsOld
  <2> QED
    BY <2>1, <2>2
<1>3. CASE Sweep
  <2>1. d \in DOMAIN m_drones_status /\ now' = now
    BY <1>3 DEF Sweep
  <2>2. /\ m_drones_status'[d].timestamp = m_drones_status[d].timestamp
        /\ ~(now - m_drones_status[d].timestamp <= DRONE_ACTIVATION_TIMEOUT)
    BY <1>3, <2>1, SweepEffect
  <2>3. m_drones_status[d].timestamp \in Nat
    BY <2>1, ClockFacts
  <2> QED
    BY <1>0, <2>1, <2>2, <2>3
<1>4. CASE (\E e \in Drones : DroneSends(e)) \/ Stop \/ Test \/ PopTimeout \/ UNCHANGED vars
  <2>1. now' = now /\ m_drones_status' = m_drones_status
    BY <1>4 DEF DroneSends, Stop, Test, PopTimeout, vars
  <2> QED
    BY <2>1 DEF InactiveIsOld
<1> QED
  BY <1>1, <1>2, <1>3, <1>4 DEF Next, process_loop

(* A drone left on by a sweep was heard within the timeout, and the next   *)
(* sweep comes before a second tick.                                       *)
LEMMA ActiveStep ==
  ASSUME TypeOK, NotFromTheFuture, ActiveMeansRecent, [Next]_vars
  PROVE  ActiveMeansRecent'
<1> SUFFICES ASSUME NEW d \in DOMAIN m_drones_status', pc' \in {"test", "pop"},
                    m_drones_status'[d].active
             PROVE  now' - m_drones_status'[d].timestamp <=
                      DRONE_ACTIVATION_TIMEOUT + (IF swept' THEN 0 ELSE 1)
  BY DEF ActiveMeansRecent
<1>0. now \in Nat /\ DRONE_ACTIVATION_TIMEOUT \in Nat
  BY ClockFacts
<1>1. CASE Tick
  <2>1. /\ now' = now + 1 /\ m_drones_status' = m_drones_status /\ pc' = pc
        /\ swept /\ ~swept'
    BY <1>1 DEF Tick
  <2>2. now - m_drones_status[d].timestamp <= DRONE_ACTIVATION_TIMEOUT + 0
    BY <2>1 DEF ActiveMeansRecent
  <2>3. m_drones_status[d].timestamp \in Nat
    BY <2>1, ClockFacts
  <2>4. now' - m_drones_status'[d].timestamp <= DRONE_ACTIVATION_TIMEOUT + 1
    BY <1>0, <2>1, <2>2, <2>3
  <2> QED
    BY <2>1, <2>4
<1>2. CASE Sweep
  <2>1. d \in DOMAIN m_drones_status /\ now' = now /\ swept'
    BY <1>2 DEF Sweep
  <2>2. /\ m_drones_status'[d].timestamp = m_drones_status[d].timestamp
        /\ now - m_drones_status[d].timestamp <= DRONE_ACTIVATION_TIMEOUT
    BY <1>2, <2>1, SweepEffect
  <2>3. now' - m_drones_status'[d].timestamp <= DRONE_ACTIVATION_TIMEOUT + 0
    BY <1>0, <2>1, <2>2
  <2> QED
    BY <2>1, <2>3
<1>3. CASE PopPacket \/ PopTimeout
  BY <1>3 DEF PopPacket, PopTimeout
<1>4. CASE (\E e \in Drones : DroneSends(e)) \/ Stop \/ Test \/ UNCHANGED vars
  <2>1. UNCHANGED <<now, m_drones_status, swept>> /\ pc \in {"test", "pop"}
    BY <1>4 DEF DroneSends, Stop, Test, vars
  <2> QED
    BY <2>1 DEF ActiveMeansRecent
<1> QED
  BY <1>1, <1>2, <1>3, <1>4 DEF Next, process_loop

-----------------------------------------------------------------------------
(* The inductive invariant. *)
THEOREM Inductive ==
  ASSUME ClocksNotAhead
  PROVE  Spec => []IInv
<1>1. Init => IInv
  BY InitIInv
<1>2. IInv /\ [Next]_vars => IInv'
  BY ClocksNotAhead, TypeStep, FutureStep, LagStep, InactiveStep, ActiveStep DEF IInv
<1> QED
  BY <1>1, <1>2, PTL DEF Spec

(* Every variable keeps its range. *)
THEOREM TypeCorrect ==
  ASSUME ClocksNotAhead
  PROVE  Spec => []TypeOK
<1>1. IInv => TypeOK
  BY DEF IInv
<1>2. Spec => []IInv
  BY ClocksNotAhead, Inductive
<1> QED
  BY <1>1, <1>2, PTL

(* A drone shown INACTIVE has had no packet popped that arrived within the *)
(* timeout less its own lag: neither the other drones' packets nor the     *)
(* sweep turn it off sooner.                                               *)
THEOREM PunctualStaysActive ==
  ASSUME ClocksNotAhead
  PROVE  Spec => []PunctualDronesStayActive
<1>1. IInv => PunctualDronesStayActive
  BY OldMeansSilent DEF IInv
<1>2. Spec => []IInv
  BY ClocksNotAhead, Inductive
<1> QED
  BY <1>1, <1>2, PTL

(* An ACTIVE drone was heard within the timeout, up to one tick. *)
THEOREM ActiveIsRecent ==
  ASSUME ClocksNotAhead
  PROVE  Spec => []ActiveMeansRecent
<1>1. IInv => ActiveMeansRecent
  BY DEF IInv
<1>2. Spec => []IInv
  BY ClocksNotAhead, Inductive
<1> QED
  BY <1>1, <1>2, PTL

(* Only a drone's own packet turns it ACTIVE again. *)
THEOREM OnlyPacketsReactivate ==
  ASSUME ClocksNotAhead
  PROVE  Spec => ReactivatedByPacket
<1> DEFINE A == \A d \in DOMAIN m_drones_status :
                  ~m_drones_status[d].active /\ m_drones_status'[d].active =>
                    /\ m_shared_telemetry_packets # <<>>
                    /\ Head(m_shared_telemetry_packets).drone = d
<1>1. IInv /\ [Next]_vars => [A]_vars
  <2> SUFFICES ASSUME IInv, Next, NEW d \in DOMAIN m_drones_status,
                      ~m_drones_status[d].active, m_drones_status'[d].active
               PROVE  /\ m_shared_telemetry_packets # <<>>
                      /\ Head(m_shared_telemetry_packets).drone = d
    BY DEF vars
  <2>0. TypeOK /\ NotFromTheFuture /\ InactiveIsOld
    BY DEF IInv
  <2>1. CASE PopPacket
    <3>1. m_shared_telemetry_packets # <<>>
      BY <2>1 DEF PopPacket
    <3>2. d = Head(m_shared_telemetry_packets).drone
      BY <2>0, <2>1, PopEffect
    <3> QED
      BY <3>1, <3>2
  <2>2. CASE Sweep
    <3>1. now - m_drones_status[d].timestamp <= DRONE_ACTIVATION_TIMEOUT
      BY <2>0, <2>2, SweepEffect
    <3>2. now - m_drones_status[d].timestamp > DRONE_ACTIVATION_TIMEOUT
      BY <2>0 DEF InactiveIsOld
    <3>3. now \in Nat /\ DRONE_ACTIVATION_TIMEOUT \in Nat
          /\ m_drones_status[d].timestamp \in Nat
      BY <2>0, ClockFacts
    <3> QED
      BY <3>1, <3>2, <3>3
  <2>3. CASE ~PopPacket /\ ~Sweep
    <3>1. m_drones_status' = m_drones_status
      BY <2>3 DEF Next, process_loop, Tick, DroneSends, Stop, Test, PopTimeout
    <3> QED
      BY <3>1
  <2> QED
    BY <2>1, <2>2, <2>3
<1>2. Spec => []IInv
  BY ClocksNotAhead, Inductive
<1> QED
  BY <1>1, <1>2, PTL DEF Spec, ReactivatedByPacket
=============================================================================
