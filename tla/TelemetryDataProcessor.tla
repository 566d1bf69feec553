----------------------- MODULE TelemetryDataProcessor -----------------------
(***************************************************************************)
(* The status table of TelemetryDataProcessor: one packet is taken from    *)
(* the shared queue, or the pop times out, and then every drone's status   *)
(* is recomputed from the age of its last telemetry.                       *)
(*                                                                         *)
(* Time is counted in ticks much longer than one iteration of the loop:    *)
(* pop_data_with_timeout is given 30, which it takes as milliseconds, so   *)
(* every tick sees at least one whole iteration (swept).  Operators called *)
(* variants are mistakes one could make in the definition that follows     *)
(* them; no behaviour uses them.                                           *)
(*                                                                         *)
(* A packet carries its drone's own timestamp, which is all the code looks *)
(* at, and the tick at which it arrived here, which only the properties    *)
(* read (arrived, heard).                                                  *)
(***************************************************************************)
EXTENDS Integers, Sequences

CONSTANTS
  Drones,
  DRONE_ACTIVATION_TIMEOUT, \* in ticks
  ClockOffsets,             \* per drone: timestamp minus tick of arrival
  MaxLag,                   \* per drone: the most its timestamps may be late
  ClockModulus,             \* one more than the largest uint64_t
  StartTime,                \* the server's clock when the program starts
  LastSend, MaxTime,        \* bounds: the last tick with a packet, the last tick
  MaxQueue                  \* bound: packets on their way at once

ASSUME ClockAssumption ==
  /\ DRONE_ACTIVATION_TIMEOUT \in Nat
  /\ ClockModulus \in Nat /\ StartTime \in Nat /\ MaxTime \in Nat
  /\ MaxTime < ClockModulus
  /\ ClockOffsets \in [Drones -> SUBSET Int]
  /\ MaxLag \in [Drones -> Nat]
  /\ \A d \in Drones : \A offset \in ClockOffsets[d] :
       offset >= -MaxLag[d] /\ StartTime + offset >= 0
  /\ LastSend \in Nat /\ LastSend <= MaxTime
  /\ StartTime <= MaxTime
  /\ MaxQueue \in Nat

VARIABLES
  now,                      \* the server's clock
  m_shared_telemetry_packets, \* not popped yet, as [drone, timestamp, arrived]
  m_drones_status,          \* known drone -> [active, timestamp]
  heard,                    \* known drone -> when its last popped packet arrived
  pc,                       \* "test", "pop", "sweep", or "done"
  swept,                    \* a sweep took place since the last tick
  g_keep_running_system

vars == <<now, m_shared_telemetry_packets, m_drones_status, heard, pc, swept,
          g_keep_running_system>>

Init ==
  /\ now = StartTime
  /\ m_shared_telemetry_packets = <<>>
  /\ m_drones_status = [d \in {} |-> [active |-> TRUE, timestamp |-> 0]]
  /\ heard = [d \in {} |-> 0]
  /\ pc = "test"
  /\ swept = FALSE
  /\ g_keep_running_system = TRUE

-----------------------------------------------------------------------------
(* The environment: time passes, drones send, the user stops the program.  *)

Tick ==
  /\ now < MaxTime
  /\ swept \/ pc = "done"
  /\ now' = now + 1
  /\ swept' = FALSE
  /\ UNCHANGED <<m_shared_telemetry_packets, m_drones_status, heard, pc,
                 g_keep_running_system>>

DroneSends(d) ==
  /\ now <= LastSend
  /\ Len(m_shared_telemetry_packets) < MaxQueue
  /\ \E offset \in ClockOffsets[d] :
       m_shared_telemetry_packets' =
         Append(m_shared_telemetry_packets,
                [drone |-> d, timestamp |-> now + offset, arrived |-> now])
  /\ UNCHANGED <<now, m_drones_status, heard, pc, swept, g_keep_running_system>>

Stop ==
  /\ g_keep_running_system
  /\ g_keep_running_system' = FALSE
  /\ UNCHANGED <<now, m_shared_telemetry_packets, m_drones_status, heard, pc, swept>>

-----------------------------------------------------------------------------
(* process_loop *)

(* uint64_t subtraction. *)
TimePassed(timestamp) ==
  IF timestamp <= now THEN now - timestamp ELSE ClockModulus + now - timestamp

(* Variants: off by one, the age cut to three bits, the timeout converted  *)
(* to the unit of the timestamps twice.                                    *)
ExpiredAtTimeout(timestamp) == TimePassed(timestamp) >= DRONE_ACTIVATION_TIMEOUT
ExpiredNarrow(timestamp) == TimePassed(timestamp) % 8 > DRONE_ACTIVATION_TIMEOUT
ExpiredWrongUnit(timestamp) == TimePassed(timestamp) > 1000 * DRONE_ACTIVATION_TIMEOUT

(* The last telemetry of a drone is too old. *)
Expired(timestamp) == TimePassed(timestamp) > DRONE_ACTIVATION_TIMEOUT

(* Variant: std::map::insert, which keeps the entry of a known drone. *)
InsertedIfNew(d, t) ==
  [e \in DOMAIN m_drones_status \cup {d} |->
     IF e \in DOMAIN m_drones_status THEN m_drones_status[e]
     ELSE [active |-> TRUE, timestamp |-> t]]

(* The table with drone d active and its telemetry replaced. *)
Updated(d, t) ==
  [e \in DOMAIN m_drones_status \cup {d} |->
     IF e = d THEN [active |-> TRUE, timestamp |-> t] ELSE m_drones_status[e]]

(* The loop condition; the flag may be cleared at any moment after it. *)
Test ==
  /\ pc = "test"
  /\ pc' = IF g_keep_running_system THEN "pop" ELSE "done"
  /\ UNCHANGED <<now, m_shared_telemetry_packets, m_drones_status, heard, swept,
                 g_keep_running_system>>

(* A packet was popped: its drone is active, its telemetry the last known. *)
(* The pop prefers a packet to the flag.                                   *)
PopPacket ==
  /\ pc = "pop"
  /\ m_shared_telemetry_packets # <<>>
  /\ LET packet == Head(m_shared_telemetry_packets)
     IN  /\ m_drones_status' = Updated(packet.drone, packet.timestamp)
         /\ heard' = [e \in DOMAIN heard \cup {packet.drone} |->
                        IF e = packet.drone THEN packet.arrived ELSE heard[e]]
  /\ m_shared_telemetry_packets' = Tail(m_shared_telemetry_packets)
  /\ pc' = "sweep"
  /\ UNCHANGED <<now, swept, g_keep_running_system>>

(* The pop returned false: the queue stayed empty for 30 milliseconds, or  *)
(* the program is stopping.                                                *)
PopTimeout ==
  /\ pc = "pop"
  /\ m_shared_telemetry_packets = <<>>
  /\ pc' = "sweep"
  /\ UNCHANGED <<now, m_shared_telemetry_packets, m_drones_status, heard, swept,
                 g_keep_running_system>>

(* Variant: the sweep waits for the queue to be empty. *)
SweepWhenIdle ==
  /\ pc = "sweep"
  /\ m_drones_status' =
       [d \in DOMAIN m_drones_status |->
          [m_drones_status[d] EXCEPT !.active =
             IF m_shared_telemetry_packets # <<>> THEN @
             ELSE ~Expired(m_drones_status[d].timestamp)]]
  /\ pc' = "test"
  /\ swept' = TRUE
  /\ UNCHANGED <<now, m_shared_telemetry_packets, heard, g_keep_running_system>>

(* Recompute the status of every known drone. *)
Sweep ==
  /\ pc = "sweep"
  /\ m_drones_status' =
       [d \in DOMAIN m_drones_status |->
          [m_drones_status[d] EXCEPT !.active = ~Expired(m_drones_status[d].timestamp)]]
  /\ pc' = "test"
  /\ swept' = TRUE
  /\ UNCHANGED <<now, m_shared_telemetry_packets, heard, g_keep_running_system>>

process_loop == Test \/ PopPacket \/ PopTimeout \/ Sweep

Next == Tick \/ (\E d \in Drones : DroneSends(d)) \/ Stop \/ process_loop

(* The processor thread runs and time passes; drones may stay silent. *)
Spec == Init /\ [][Next]_vars /\ WF_vars(process_loop) /\ WF_vars(Tick)

-----------------------------------------------------------------------------
(* The shape of the state.                                                 *)
Packet == [drone : Drones, timestamp : Nat, arrived : Nat]

TypeOK ==
  /\ now \in StartTime..MaxTime
  /\ m_shared_telemetry_packets \in Seq(Packet)
  /\ DOMAIN m_drones_status \subseteq Drones
  /\ m_drones_status \in [DOMAIN m_drones_status -> [active : BOOLEAN, timestamp : Nat]]
  /\ heard \in [DOMAIN m_drones_status -> Nat]
  /\ pc \in {"test", "pop", "sweep", "done"}
  /\ swept \in BOOLEAN
  /\ g_keep_running_system \in BOOLEAN

(* A drone is not turned off while it keeps sending: when it is shown      *)
(* INACTIVE, no packet of its own has been popped that arrived within the  *)
(* timeout, less the most its own timestamps may be late.  The packets of  *)
(* other drones, however old their timestamps and however mixed with its   *)
(* own, and the sweep that follows every pop do not shorten that time.  A  *)
(* drone whose timestamps may be late by more than the timeout is promised *)
(* nothing: it can be shown INACTIVE by the very packet just popped.       *)
PunctualDronesStayActive ==
  \A d \in DOMAIN m_drones_status :
    ~m_drones_status[d].active =>
      now - heard[d] > DRONE_ACTIVATION_TIMEOUT - MaxLag[d]

(* A drone shown ACTIVE when an iteration begins has a timestamp within    *)
(* the timeout, up to the tick that is passing: a silent drone does not    *)
(* stay ACTIVE, although the sweep shares its loop with the packets of     *)
(* others.                                                                 *)
ActiveMeansRecent ==
  \A d \in DOMAIN m_drones_status :
    pc \in {"test", "pop"} /\ m_drones_status[d].active =>
      now - m_drones_status[d].timestamp <=
        DRONE_ACTIVATION_TIMEOUT + (IF swept THEN 0 ELSE 1)

(* The sweep never brings a drone back, although it assigns the flag both  *)
(* ways (line 65): a drone turns ACTIVE again only when its own packet is  *)
(* popped.                                                                 *)
ReactivatedByPacket ==
  [][\A d \in DOMAIN m_drones_status :
       ~m_drones_status[d].active /\ m_drones_status'[d].active =>
         /\ m_shared_telemetry_packets # <<>>
         /\ Head(m_shared_telemetry_packets).drone = d]_vars

(* A drone that falls silent ends up INACTIVE, if the program runs on. *)
SilentDronesGoInactive ==
  \A d \in Drones :
    d \in DOMAIN m_drones_status
      ~> (d \in DOMAIN m_drones_status /\ ~m_drones_status[d].active)
           \/ ~g_keep_running_system

(* The comment on line 64: a drone that recently sent data is marked       *)
(* active.  After a sweep, a drone whose last popped packet arrived within *)
(* the timeout should be ACTIVE.  The code looks at the timestamp instead, *)
(* and does not meet it for a timestamp ahead of the clock.                *)
RecentlyHeardIsActive ==
  \A d \in DOMAIN m_drones_status :
    pc = "test" /\ swept /\ now - heard[d] <= DRONE_ACTIVATION_TIMEOUT =>
      m_drones_status[d].active
=============================================================================
