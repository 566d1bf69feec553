----------------------------- MODULE SPSCQueue -----------------------------
(***************************************************************************)
(* The ring buffer SPSCQueue: one thread calls push, one calls pop and     *)
(* pop_all, and they share two atomic indexes.                             *)
(*                                                                         *)
(* A thread reads its own index exactly and the other's with memory order  *)
(* acquire, which may return any value since the one it saw last: the      *)
(* histories pushed and taken number those values, and the number seen     *)
(* never goes back.  Accesses to a cell are ordered only through such a    *)
(* pair of a release store and an acquire load (CellsSynchronised).        *)
(* Operators called variants are mistakes one could make in the definition *)
(* that follows them; no behaviour uses them.                              *)
(***************************************************************************)
EXTENDS Integers, Sequences

CONSTANTS
  Items,
  NoItem,                   \* a cell never written, or moved from
  Capacity,                 \* the constructor's argument
  MaxPushes                 \* bound: items pushed in one behaviour

ASSUME CapacityAssumption ==
  /\ Capacity \in Nat \ {0}
  /\ MaxPushes \in Nat
  /\ NoItem \notin Items

VARIABLES
  m_buffer, m_head, m_tail,
  producer, data,           \* "idle", "write" or "publish"; push's argument
  consumer,                 \* "idle", "read", "move" or "advance"
  current_head, current_tail, available_items, out_data,
  head_seen, tail_seen,     \* pops the producer, pushes the consumer knows of
  pushed, taken             \* history: items pushed, items handed out

producerVars == <<m_tail, producer, data, head_seen, pushed>>
consumerVars == <<m_head, consumer, current_head, current_tail, available_items,
                  out_data, tail_seen, taken>>
vars == <<m_buffer, producerVars, consumerVars>>

(* Variant: no cell is kept free. *)
m_capacity_exact == Capacity

(* One cell more than items, so that a full ring differs from an empty one. *)
m_capacity == Capacity + 1

Succ(index) == (index + 1) % m_capacity

Init ==
  /\ m_buffer = [index \in 0..(m_capacity - 1) |-> NoItem]
  /\ m_head = 0 /\ m_tail = 0
  /\ producer = "idle" /\ data = NoItem /\ consumer = "idle"
  /\ current_head = 0 /\ current_tail = 0 /\ available_items = 0
  /\ out_data = <<>>
  /\ head_seen = 0 /\ tail_seen = 0
  /\ pushed = <<>> /\ taken = <<>>

(* The values that loads of the other thread's index may return. *)
HeadLoads == head_seen..Len(taken)
TailLoads == tail_seen..Len(pushed)

(* Variant: the consumer's index is not looked at. *)
NeverFull(n) == FALSE

Full(n) == Succ(m_tail) = n % m_capacity
Empty(n) == m_head = n % m_capacity

-----------------------------------------------------------------------------
(* push: load the consumer's index, and go on or return false; write the   *)
(* cell; publish it.                                                       *)
PushLoad ==
  /\ producer = "idle"
  /\ Len(pushed) < MaxPushes
  /\ data' \in Items
  /\ \E n \in HeadLoads :
       /\ head_seen' = n
       /\ producer' = IF Full(n) THEN "idle" ELSE "write"
  /\ UNCHANGED <<m_buffer, m_tail, pushed, consumerVars>>

PushWrite ==
  /\ producer = "write"
  /\ m_buffer' = [m_buffer EXCEPT ![m_tail] = data]
  /\ producer' = "publish"
  /\ UNCHANGED <<m_tail, data, head_seen, pushed, consumerVars>>

PushPublish ==
  /\ producer = "publish"
  /\ m_tail' = Succ(m_tail)
  /\ pushed' = Append(pushed, data)
  /\ producer' = "idle"
  /\ UNCHANGED <<m_buffer, data, head_seen, consumerVars>>

push == PushLoad \/ PushWrite \/ PushPublish

-----------------------------------------------------------------------------
(* pop and pop_all: load the producer's index, and go on or return; copy   *)
(* the item, or move all; advance the index once.  out_data holds what     *)
(* this call adds to its caller's variable.                                *)
PopLoad ==
  /\ consumer = "idle"
  /\ \E n \in TailLoads :
       /\ tail_seen' = n
       /\ consumer' = IF Empty(n) THEN "idle" ELSE "read"
  /\ out_data' = <<>>
  /\ current_head' = m_head
  /\ UNCHANGED <<m_buffer, m_head, current_tail, available_items, taken, producerVars>>

PopRead ==
  /\ consumer = "read"
  /\ out_data' = <<m_buffer[current_head]>>
  /\ current_head' = Succ(current_head)
  /\ consumer' = "advance"
  /\ UNCHANGED <<m_buffer, m_head, current_tail, available_items, tail_seen, taken,
                 producerVars>>

(* Variant: the wrapped ring is counted like the unwrapped one. *)
AvailableUnwrapped(head, tail) == tail - head

Available(head, tail) == IF tail >= head THEN tail - head ELSE m_capacity - head + tail

PopAllLoad ==
  /\ consumer = "idle"
  /\ \E n \in TailLoads :
       /\ tail_seen' = n
       /\ consumer' = IF Empty(n) THEN "idle" ELSE "move"
       /\ current_tail' = n % m_capacity
  /\ out_data' = <<>>
  /\ current_head' = m_head
  /\ available_items' = Available(m_head, current_tail')
  /\ UNCHANGED <<m_buffer, m_head, taken, producerVars>>

PopAllMove ==
  /\ consumer = "move"
  /\ current_head # current_tail
  /\ out_data' = Append(out_data, m_buffer[current_head])
  /\ m_buffer' = [m_buffer EXCEPT ![current_head] = NoItem]
  /\ current_head' = Succ(current_head)
  /\ UNCHANGED <<m_head, consumer, current_tail, available_items, tail_seen, taken,
                 producerVars>>

PopAllEnd ==
  /\ consumer = "move"
  /\ current_head = current_tail
  /\ consumer' = "advance"
  /\ UNCHANGED <<m_buffer, m_head, current_head, current_tail, available_items,
                 out_data, tail_seen, taken, producerVars>>

(* Variant: the producer's index is read again for the store. *)
AdvanceToTail ==
  /\ consumer = "advance"
  /\ m_head' = m_tail
  /\ taken' = taken \o out_data
  /\ consumer' = "idle"
  /\ UNCHANGED <<m_buffer, current_head, current_tail, available_items, out_data,
                 tail_seen, producerVars>>

Advance ==
  /\ consumer = "advance"
  /\ m_head' = current_head
  /\ taken' = taken \o out_data
  /\ consumer' = "idle"
  /\ UNCHANGED <<m_buffer, current_head, current_tail, available_items, out_data,
                 tail_seen, producerVars>>

pop == PopLoad \/ PopRead \/ Advance

pop_all == PopAllLoad \/ PopAllMove \/ PopAllEnd \/ Advance

Next == push \/ pop \/ pop_all

Spec == Init /\ [][Next]_vars

-----------------------------------------------------------------------------
(* The shape of the state; the indexes stay inside the buffer.             *)
TypeOK ==
  /\ m_buffer \in [0..(m_capacity - 1) -> Items \cup {NoItem}]
  /\ m_head \in DOMAIN m_buffer /\ m_tail \in DOMAIN m_buffer
  /\ producer \in {"idle", "write", "publish"}
  /\ data \in Items \cup {NoItem}
  /\ consumer \in {"idle", "read", "move", "advance"}
  /\ current_head \in DOMAIN m_buffer /\ current_tail \in DOMAIN m_buffer
  /\ available_items \in Int
  /\ out_data \in Seq(Items)
  /\ head_seen \in 0..Len(taken) /\ tail_seen \in 0..Len(pushed)
  /\ pushed \in Seq(Items) /\ taken \in Seq(Items)

(* No data race on a cell.  The producer writes a cell (line 35) only if   *)
(* it has seen the store that ended the last read of it; the consumer      *)
(* reads one (lines 55, 91) only if it has seen the store that published   *)
(* it.  Numbered from 0, item n lives in cell n % m_capacity.              *)
CellsSynchronised ==
  /\ producer = "write" => Len(pushed) - m_capacity < head_seen
  /\ consumer = "read" => Len(taken) < tail_seen
  /\ consumer = "move" /\ current_head # current_tail =>
       Len(taken) + Len(out_data) < tail_seen

(* The wrapped indexes say what the numbers of items do, whatever value    *)
(* the loads return: push refuses exactly when Capacity items are in the   *)
(* ring, pop exactly when none is, as far as the caller can know.          *)
IndexesTellCounts ==
  /\ producer = "idle" => \A n \in HeadLoads : Full(n) <=> Len(pushed) - n = Capacity
  /\ consumer = "idle" => \A n \in TailLoads : Empty(n) <=> Len(taken) = n

(* reserve (line 84) is called for exactly the items the loop then moves,  *)
(* on both sides of the wrap-around.                                       *)
ReservedExactly ==
  consumer = "move" /\ current_head = current_tail => Len(out_data) = available_items

(* The ring is a bounded first-in first-out queue, also while a push and a *)
(* pop_all overlap.                                                        *)
Fifo == INSTANCE BoundedFifo
          WITH queue <- SubSeq(pushed, Len(taken) + 1, Len(pushed)), taken <- taken

ImplementsFifo == Fifo!Spec
=============================================================================
