----------------------------- MODULE MPMCQueue -----------------------------
(***************************************************************************)
(* The ring of cells MPMCQueue: any number of threads push and pop.  A     *)
(* thread reserves a position by compare-and-swap, accesses the cell of    *)
(* that position, and hands the cell on by its sequence number.            *)
(*                                                                         *)
(* Loads that are not part of a compare-and-swap may return an old value:  *)
(* positions are loaded relaxed, sequence numbers with acquire.  Positions *)
(* are 64 bits wide and are not wrapped; `pos & mask' is % Capacity.       *)
(* Operators called variants are mistakes one could make in the definition *)
(* that follows them; no behaviour uses them.                              *)
(***************************************************************************)
EXTENDS Integers, Sequences

CONSTANTS
  Producers, Consumers,
  Items,
  NoItem,                   \* what a cell holds at first
  Capacity,                 \* the constructor's argument, a power of 2
  MaxPushes                 \* bound: no push is begun after so many

ASSUME CapacityAssumption ==
  /\ Producers \cap Consumers = {}
  /\ Capacity \in Nat \ {0}
  /\ MaxPushes \in Nat
  /\ NoItem \notin Items

Threads == Producers \cup Consumers

VARIABLES
  sequence, data,           \* the fields of the cells
  m_enqueue_pos, m_dequeue_pos,
  pc, pos,                  \* of each thread
  out_data,                 \* of each consumer
  pushed,                   \* history: the item of each reserved position
  had                       \* history: the sequence numbers of each cell so far

vars == <<sequence, data, m_enqueue_pos, m_dequeue_pos, pc, pos, out_data, pushed,
          had>>

Init ==
  /\ sequence = [cell \in 0..(Capacity - 1) |-> cell]
  /\ data = [cell \in 0..(Capacity - 1) |-> NoItem]
  /\ m_enqueue_pos = 0 /\ m_dequeue_pos = 0
  /\ pc = [t \in Threads |-> "idle"]
  /\ pos = [t \in Threads |-> 0]
  /\ out_data = [c \in Consumers |-> NoItem]
  /\ pushed = <<>>
  /\ had = [cell \in 0..(Capacity - 1) |-> {cell}]

Goto(t, label) == pc' = [pc EXCEPT ![t] = label]

CellOf(t) == pos[t] % Capacity

(* The counter a thread competes for, and the sequence number its cell has *)
(* when it is ready for the thread.                                        *)
Counter(t) == IF t \in Producers THEN m_enqueue_pos ELSE m_dequeue_pos
Wanted(t) == IF t \in Producers THEN pos[t] ELSE pos[t] + 1

(* What a load of a cell's sequence may return: each value it has had. *)
SequenceLoads(cell) == had[cell]

-----------------------------------------------------------------------------
(* The loop of push and of pop. *)

Load(t) ==
  /\ pc[t] = "idle"
  /\ t \in Producers => Len(pushed) < MaxPushes
  /\ \E p \in 0..Counter(t) : pos' = [pos EXCEPT ![t] = p]
  /\ Goto(t, "look")
  /\ UNCHANGED <<sequence, data, m_enqueue_pos, m_dequeue_pos, out_data, pushed, had>>

(* dif: compare-and-swap, return false, or load the position again. *)
Look(t) ==
  /\ pc[t] = "look"
  /\ \E seq \in SequenceLoads(CellOf(t)) :
       \/ seq = Wanted(t) /\ Goto(t, "reserve") /\ UNCHANGED pos
       \/ seq < Wanted(t) /\ Goto(t, "idle") /\ UNCHANGED pos
       \/ /\ seq > Wanted(t)
          /\ \E p \in 0..Counter(t) : pos' = [pos EXCEPT ![t] = p]
          /\ UNCHANGED pc
  /\ UNCHANGED <<sequence, data, m_enqueue_pos, m_dequeue_pos, out_data, pushed, had>>

(* compare_exchange_weak fails, spuriously or not, and loads the counter,  *)
(* relaxed like the other loads of it.                                     *)
ReserveFails(t) ==
  /\ pc[t] = "reserve"
  /\ \E p \in 0..Counter(t) : pos' = [pos EXCEPT ![t] = p]
  /\ Goto(t, "look")
  /\ UNCHANGED <<sequence, data, m_enqueue_pos, m_dequeue_pos, out_data, pushed, had>>

-----------------------------------------------------------------------------
(* push.  The argument is chosen when the position is reserved: the loop   *)
(* does not depend on it.                                                  *)

(* Variant: the counter is stored without a comparison. *)
EnqueueUncompared(p) ==
  /\ pc[p] = "reserve"
  /\ m_enqueue_pos' = pos[p] + 1
  /\ \E item \in Items : pushed' = Append(pushed, item)
  /\ Goto(p, "access")
  /\ UNCHANGED <<sequence, data, m_dequeue_pos, pos, out_data, had>>

Enqueue(p) ==
  /\ pc[p] = "reserve"
  /\ m_enqueue_pos = pos[p]
  /\ m_enqueue_pos' = pos[p] + 1
  /\ \E item \in Items : pushed' = Append(pushed, item)
  /\ Goto(p, "access")
  /\ UNCHANGED <<sequence, data, m_dequeue_pos, pos, out_data, had>>

Write(p) ==
  /\ pc[p] = "access"
  /\ data' = [data EXCEPT ![CellOf(p)] = pushed[pos[p] + 1]]
  /\ Goto(p, "hand_on")
  /\ UNCHANGED <<sequence, m_enqueue_pos, m_dequeue_pos, pos, out_data, pushed, had>>

push(p) == Load(p) \/ Look(p) \/ ReserveFails(p) \/ Enqueue(p) \/ Write(p)

-----------------------------------------------------------------------------
(* pop *)

Dequeue(c) ==
  /\ pc[c] = "reserve"
  /\ m_dequeue_pos = pos[c]
  /\ m_dequeue_pos' = pos[c] + 1
  /\ Goto(c, "access")
  /\ UNCHANGED <<sequence, data, m_enqueue_pos, pos, out_data, pushed, had>>

(* Variant: the cell is handed on before it is read, and again after. *)
ReadAfterHandOn(c) ==
  /\ pc[c] = "access"
  /\ IF sequence[CellOf(c)] = pos[c] + 1
     THEN /\ sequence' = [sequence EXCEPT ![CellOf(c)] = pos[c] + Capacity]
          /\ had' = [had EXCEPT ![CellOf(c)] = @ \cup {pos[c] + Capacity}]
          /\ UNCHANGED <<out_data, pc>>
     ELSE /\ out_data' = [out_data EXCEPT ![c] = data[CellOf(c)]]
          /\ Goto(c, "hand_on")
          /\ UNCHANGED <<sequence, had>>
  /\ UNCHANGED <<data, m_enqueue_pos, m_dequeue_pos, pos, pushed>>

Read(c) ==
  /\ pc[c] = "access"
  /\ out_data' = [out_data EXCEPT ![c] = data[CellOf(c)]]
  /\ Goto(c, "hand_on")
  /\ UNCHANGED <<sequence, data, m_enqueue_pos, m_dequeue_pos, pos, pushed, had>>

pop(c) == Load(c) \/ Look(c) \/ ReserveFails(c) \/ Dequeue(c) \/ Read(c)

-----------------------------------------------------------------------------
(* Variant: the mask is taken for the capacity. *)
HandedOnByMask(t) == IF t \in Producers THEN pos[t] + 1 ELSE pos[t] + Capacity - 1

(* The sequence number that says whose turn it is: the consumer of the     *)
(* position, then the producer of the next lap.                            *)
HandedOn(t) == IF t \in Producers THEN pos[t] + 1 ELSE pos[t] + Capacity

HandOn(t) ==
  /\ pc[t] = "hand_on"
  /\ sequence' = [sequence EXCEPT ![CellOf(t)] = HandedOn(t)]
  /\ had' = [had EXCEPT ![CellOf(t)] = @ \cup {HandedOn(t)}]
  /\ Goto(t, "idle")
  /\ UNCHANGED <<data, m_enqueue_pos, m_dequeue_pos, pos, out_data, pushed>>

Next ==
  \/ \E p \in Producers : push(p)
  \/ \E c \in Consumers : pop(c)
  \/ \E t \in Threads : HandOn(t)

Spec == Init /\ [][Next]_vars

-----------------------------------------------------------------------------
(* The shape of the state.                                                 *)
TypeOK ==
  /\ sequence \in [0..(Capacity - 1) -> Nat]
  /\ data \in [0..(Capacity - 1) -> Items \cup {NoItem}]
  /\ m_enqueue_pos = Len(pushed) /\ m_dequeue_pos \in Nat
  /\ pc \in [Threads -> {"idle", "look", "reserve", "access", "hand_on"}]
  /\ pos \in [Threads -> Nat]
  /\ out_data \in [Consumers -> Items \cup {NoItem}]
  /\ pushed \in Seq(Items)
  /\ had \in [0..(Capacity - 1) -> SUBSET Nat]

(* Between its reservation and its hand-on a thread is alone with its cell *)
(* (the comments on lines 167 and 205), in whatever laps the others are.   *)
(* This, and what follows, needs two cells: with one, the number that      *)
(* hands position 0 to its consumer is also the turn of the producer of    *)
(* position 1, which overwrites it.                                        *)
Owners == {t \in Threads : pc[t] \in {"access", "hand_on"}}

CellsNotShared == \A t, u \in Owners : t # u => CellOf(t) # CellOf(u)

(* A pop returns the item that was pushed for the position it reserved.    *)
ReadsOwnItem ==
  \A c \in Consumers : pc[c] = "hand_on" => out_data[c] = pushed[pos[c] + 1]

(* When every call has returned, the queue is usable: the next cell is     *)
(* ready for a producer unless Capacity items are in it, and for a         *)
(* consumer unless none is.  A wrong hand-on would block it for ever.      *)
QuietQueueUsable ==
  (\A t \in Threads : pc[t] = "idle") =>
    /\ m_enqueue_pos - m_dequeue_pos < Capacity =>
         sequence[m_enqueue_pos % Capacity] = m_enqueue_pos
    /\ m_dequeue_pos < m_enqueue_pos =>
         sequence[m_dequeue_pos % Capacity] = m_dequeue_pos + 1

(* The reservations are those of a bounded first-in first-out queue: never *)
(* more than Capacity items, no position twice.                            *)
Fifo == INSTANCE BoundedFifo
          WITH queue <- SubSeq(pushed, m_dequeue_pos + 1, m_enqueue_pos),
               taken <- SubSeq(pushed, 1, m_dequeue_pos)

ImplementsFifo == Fifo!Spec
=============================================================================
