---------------------------- MODULE BoundedFifo ----------------------------
(***************************************************************************)
(* What the queues of include/LockFreeSharedDataManager.h promise: a       *)
(* first-in first-out queue of at most Capacity items, from which one item *)
(* or a batch is taken.  A push or pop that returns false changes nothing, *)
(* and is a stuttering step.                                               *)
(***************************************************************************)
EXTENDS Naturals, Sequences

CONSTANTS Items, Capacity

VARIABLES
  queue,                    \* items pushed and not taken
  taken                     \* items handed to the consumers, in order

Init == queue = <<>> /\ taken = <<>>

Put ==
  /\ Len(queue) < Capacity
  /\ \E item \in Items : queue' = Append(queue, item)
  /\ UNCHANGED taken

Take ==
  \E n \in 1..Len(queue) :
    /\ taken' = taken \o SubSeq(queue, 1, n)
    /\ queue' = SubSeq(queue, n + 1, Len(queue))

Next == Put \/ Take

Spec == Init /\ [][Next]_<<queue, taken>>
=============================================================================
