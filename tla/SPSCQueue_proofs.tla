-------------------------- MODULE SPSCQueue_proofs --------------------------
(***************************************************************************)
(* Theorems about SPSCQueue, for every capacity and any number of items.   *)
(***************************************************************************)
EXTENDS SPSCQueue, SequenceTheorems, TLAPS

-----------------------------------------------------------------------------
(* Remainders, for any divisor.                                            *)

LEMMA Division ==
  \A a \in Nat : \A C \in Nat \ {0} :
    a % C \in 0..(C - 1) /\ a \div C \in Nat /\ a = C * (a \div C) + (a % C)
OBVIOUS

LEMMA DivisionIsUnique ==
  \A C \in Nat \ {0} : \A q1, q2 \in Nat : \A r1, r2 \in 0..(C - 1) :
    C * q1 + r1 = C * q2 + r2 => q1 = q2 /\ r1 = r2
OBVIOUS

LEMMA RemainderIs ==
  \A C \in Nat \ {0} : \A q \in Nat : \A r \in 0..(C - 1) : (C * q + r) % C = r
<1> TAKE C \in Nat \ {0}
<1> TAKE q \in Nat
<1> TAKE r \in 0..(C - 1)
<1> DEFINE a == C * q + r
<1>1. a \in Nat
  OBVIOUS
<1>2. a % C \in 0..(C - 1) /\ a \div C \in Nat /\ a = C * (a \div C) + (a % C)
  BY <1>1, Division
<1> DEFINE d == a \div C  m == a % C
<1>3. d \in Nat /\ m \in 0..(C - 1) /\ C * q + r = C * d + m
  BY <1>2
<1> HIDE DEF d, m
<1>4. r = m
  BY <1>3, DivisionIsUnique
<1> QED
  BY <1>4 DEF m

LEMMA RemainderOfNext ==
  \A C \in Nat \ {0} : \A a \in Nat : ((a % C) + 1) % C = (a + 1) % C
<1> TAKE C \in Nat \ {0}
<1> TAKE a \in Nat
<1> DEFINE p == a \div C  r == a % C  z == r + 1
<1>1. p \in Nat /\ a = C * p + r /\ r \in 0..(C - 1)
  BY Division
<1> HIDE DEF p, r
<1>2. CASE r + 1 < C
  <2>1. z \in 0..(C - 1) /\ a + 1 = C * p + z /\ z = C * 0 + z
    BY <1>1, <1>2
  <2>2. z % C = z
    BY <2>1, RemainderIs
  <2>3. (C * p + z) % C = z
    BY <1>1, <2>1, RemainderIs
  <2> QED
    BY <2>1, <2>2, <2>3 DEF r
<1>3. CASE r + 1 = C
  <2>1. p + 1 \in Nat /\ a + 1 = C * (p + 1) + 0 /\ r + 1 = C * 1 + 0 /\ 0 \in 0..(C - 1)
    BY <1>1, <1>3
  <2>2. (C * (p + 1) + 0) % C = 0 /\ (C * 1 + 0) % C = 0
    BY <2>1, RemainderIs
  <2> QED
    BY <2>1, <2>2 DEF r
<1> QED
  BY <1>1, <1>2, <1>3

LEMMA RemainderGoesRound == \A C \in Nat \ {0} : \A a \in Nat : (a + C) % C = a % C
<1> TAKE C \in Nat \ {0}
<1> TAKE a \in Nat
<1> DEFINE p == a \div C  r == a % C
<1>1. p \in Nat /\ a = C * p + r /\ r \in 0..(C - 1)
  BY Division
<1> HIDE DEF p, r
<1>2. a + C = C * (p + 1) + r /\ p + 1 \in Nat
  BY <1>1
<1> QED
  BY <1>1, <1>2, RemainderIs DEF r

LEMMA RemainderTellsApart ==
  \A C \in Nat \ {0} : \A a, b \in Nat :
    a <= b /\ b - a < C /\ a % C = b % C => a = b
<1> TAKE C \in Nat \ {0}
<1> TAKE a, b \in Nat
<1> HAVE a <= b /\ b - a < C /\ a % C = b % C
<1> DEFINE p == a \div C  q == b \div C  r == a % C
<1>1. p \in Nat /\ q \in Nat /\ a = C * p + r /\ b = C * q + r /\ r \in 0..(C - 1)
  BY Division
<1> HIDE DEF p, q, r
<1>2. C * (q - p) < C /\ 0 <= C * (q - p)
  BY <1>1
<1>3. q - p = 0
  BY <1>1, <1>2
<1> QED
  BY <1>1, <1>3

(* On both sides of the wrap-around the difference is what Available says. *)
LEMMA DifferenceOfRemainders ==
  \A C \in Nat \ {0} : \A a, b \in Nat :
    a <= b /\ b - a < C =>
      (IF b % C >= a % C THEN (b % C) - (a % C) ELSE C - (a % C) + (b % C)) = b - a
<1> TAKE C \in Nat \ {0}
<1> TAKE a, b \in Nat
<1> HAVE a <= b /\ b - a < C
<1> DEFINE p == a \div C  q == b \div C  r == a % C  s == b % C
<1>1. /\ p \in Nat /\ q \in Nat /\ a = C * p + r /\ b = C * q + s
      /\ r \in 0..(C - 1) /\ s \in 0..(C - 1)
  BY Division
<1> HIDE DEF p, q, r, s
<1>2. b - a = C * (q - p) + (s - r)
  BY <1>1
<1>3. CASE q = p
  BY <1>1, <1>2, <1>3 DEF r, s
<1>4. CASE q = p + 1
  <2>1. b - a = C + (s - r)
    BY <1>1, <1>2, <1>4
  <2>2. ~(s >= r)
    BY <1>1, <2>1
  <2>3. C - r + s = b - a
    BY <1>1, <2>1
  <2> QED
    BY <2>2, <2>3 DEF r, s
<1>5. CASE q >= p + 2
  <2>1. C * (q - p) >= C * 2
    BY <1>1, <1>5
  <2> QED
    BY <1>1, <1>2, <2>1
<1>6. CASE q < p
  <2>1. C * (p - q) >= C
    BY <1>1, <1>6
  <2>2. C * (q - p) <= -C
    BY <1>1, <2>1
  <2> QED
    BY <1>1, <1>2, <2>2
<1> QED
  BY <1>1, <1>3, <1>4, <1>5, <1>6

-----------------------------------------------------------------------------
(* The cell of item n, counted from 0, and what is used of it.             *)
Cell(n) == n % m_capacity

LEMMA CapacityFacts ==
  /\ m_capacity \in Nat \ {0} /\ m_capacity = Capacity + 1
  /\ Capacity \in Nat /\ Capacity > 0
BY CapacityAssumption DEF m_capacity

LEMMA CellInBuffer == Cell(0) = 0 /\ \A n \in Nat : Cell(n) \in 0..(m_capacity - 1)
<1>1. \A n \in Nat : Cell(n) \in 0..(m_capacity - 1)
  BY Division, CapacityFacts DEF Cell
<1>2. Cell(0) = 0
  <2>1. m_capacity * 0 + 0 = 0 /\ 0 \in 0..(m_capacity - 1)
    BY CapacityFacts
  <2> QED
    BY <2>1, RemainderIs, CapacityFacts DEF Cell
<1> QED
  BY <1>1, <1>2

LEMMA NextCell == \A n \in Nat : Succ(Cell(n)) = Cell(n + 1)
BY RemainderOfNext, CapacityFacts DEF Cell, Succ

LEMMA SameCell ==
  \A a, b \in Nat : a <= b /\ b - a < m_capacity /\ Cell(a) = Cell(b) => a = b
BY RemainderTellsApart, CapacityFacts DEF Cell

LEMMA RoundTheRing == \A n \in Nat : Cell(n + m_capacity) = Cell(n)
BY RemainderGoesRound, CapacityFacts DEF Cell

LEMMA AvailableIsDifference ==
  \A a, b \in Nat : a <= b /\ b - a < m_capacity => Available(Cell(a), Cell(b)) = b - a
<1> TAKE a, b \in Nat
<1> HAVE a <= b /\ b - a < m_capacity
<1> QED
  BY DifferenceOfRemainders, CapacityFacts DEF Cell, Available

-----------------------------------------------------------------------------
(* The inductive invariant                                                 *)

(* The items the running call has copied or moved out of the buffer.       *)
Moved == IF consumer \in {"move", "advance"} THEN Len(out_data) ELSE 0

(* What each thread knows of the other is never too much.                  *)
Counts ==
  /\ Len(taken) <= tail_seen
  /\ Len(pushed) - head_seen <= Capacity
  /\ producer # "idle" => Len(pushed) - head_seen < Capacity
  /\ consumer = "read" => Len(taken) < tail_seen
  /\ consumer \in {"move", "advance"} => Len(taken) + Len(out_data) <= tail_seen
  /\ consumer = "move" => Len(taken) < tail_seen
  /\ consumer = "advance" => Len(out_data) > 0

(* Each index is the cell of the count it stands for.                      *)
Indexes ==
  /\ m_head = Cell(Len(taken)) /\ m_tail = Cell(Len(pushed))
  /\ consumer = "read" => current_head = Cell(Len(taken))
  /\ consumer \in {"move", "advance"} => current_head = Cell(Len(taken) + Len(out_data))
  /\ consumer = "move" =>
       /\ current_tail = Cell(tail_seen)
       /\ available_items = tail_seen - Len(taken)

(* The cells between the indexes hold the items that were pushed.          *)
Contents ==
  /\ producer # "idle" => data \in Items
  /\ \A n \in Nat : Len(taken) + Moved <= n /\ n < Len(pushed) =>
       m_buffer[Cell(n)] = pushed[n + 1]
  /\ producer = "publish" => m_buffer[Cell(Len(pushed))] = data
  /\ consumer \in {"move", "advance"} =>
       \A k \in 1..Len(out_data) : out_data[k] = pushed[Len(taken) + k]

IInv == TypeOK /\ Counts /\ Indexes /\ Contents

-----------------------------------------------------------------------------
LEMMA Ranges ==
  ASSUME IInv
  PROVE  /\ Len(pushed) \in Nat /\ Len(taken) \in Nat /\ Len(out_data) \in Nat
         /\ head_seen \in Nat /\ tail_seen \in Nat /\ Moved \in Nat
         /\ head_seen <= Len(taken) /\ tail_seen <= Len(pushed)
         /\ Len(taken) + Moved <= tail_seen
         /\ Len(pushed) - head_seen <= Capacity
         /\ DOMAIN m_buffer = 0..(m_capacity - 1)
<1>1. pushed \in Seq(Items) /\ taken \in Seq(Items) /\ out_data \in Seq(Items)
  BY DEF IInv, TypeOK
<1>2. Len(pushed) \in Nat /\ Len(taken) \in Nat /\ Len(out_data) \in Nat
  BY <1>1, ElementOfSeq
<1>3. head_seen \in 0..Len(taken) /\ tail_seen \in 0..Len(pushed)
  BY DEF IInv, TypeOK
<1>4. DOMAIN m_buffer = 0..(m_capacity - 1)
  BY DEF IInv, TypeOK
<1>5. Counts
  BY DEF IInv
<1> QED
  BY <1>2, <1>3, <1>4, <1>5 DEF Counts, Moved

(* What the two comparisons of indexes mean, for every value a load may    *)
(* return.                                                                 *)
LEMMA FullMeans ==
  ASSUME IInv, NEW n \in HeadLoads
  PROVE  /\ n \in Nat /\ head_seen <= n /\ n <= Len(taken)
         /\ Full(n) <=> Len(pushed) - n = Capacity
<1>1. n \in Nat /\ head_seen <= n /\ n <= Len(taken) /\ n <= Len(pushed)
  BY Ranges DEF HeadLoads
<1>2. Len(pushed) \in Nat /\ Len(pushed) - n <= Capacity
  BY <1>1, Ranges, CapacityFacts
<1>3. Full(n) <=> Cell(Len(pushed) + 1) = Cell(n)
  <2>1. m_tail = Cell(Len(pushed))
    BY DEF IInv, Indexes
  <2>2. Succ(m_tail) = Cell(Len(pushed) + 1)
    BY <1>2, <2>1, NextCell
  <2> QED
    BY <2>2 DEF Full, Cell
<1>4. CASE Len(pushed) - n = Capacity
  <2>1. Len(pushed) + 1 = n + m_capacity
    BY <1>1, <1>2, <1>4, CapacityFacts
  <2> QED
    BY <1>1, <1>3, <1>4, <2>1, RoundTheRing
<1>5. CASE Len(pushed) - n # Capacity
  <2>1. /\ n <= Len(pushed) + 1 /\ Len(pushed) + 1 - n < m_capacity
        /\ n # Len(pushed) + 1 /\ Len(pushed) + 1 \in Nat
    BY <1>1, <1>2, <1>5, CapacityFacts
  <2>2. Cell(n) # Cell(Len(pushed) + 1)
    BY <1>1, <2>1, SameCell
  <2> QED
    BY <1>1, <1>3, <1>5, <2>2
<1> QED
  BY <1>1, <1>4, <1>5

LEMMA EmptyMeans ==
  ASSUME IInv, NEW n \in TailLoads
  PROVE  /\ n \in Nat /\ tail_seen <= n /\ n <= Len(pushed)
         /\ Len(taken) <= n /\ n - Len(taken) < m_capacity
         /\ Empty(n) <=> Len(taken) = n
<1>1. n \in Nat /\ tail_seen <= n /\ n <= Len(pushed)
  BY Ranges DEF TailLoads
<1>2. Len(taken) \in Nat /\ Len(taken) <= n /\ n - Len(taken) < m_capacity
  BY <1>1, Ranges, CapacityFacts
<1>3. Empty(n) <=> Cell(Len(taken)) = Cell(n)
  BY DEF IInv, Indexes, Empty, Cell
<1>4. Cell(Len(taken)) = Cell(n) => Len(taken) = n
  BY <1>1, <1>2, SameCell
<1> QED
  BY <1>1, <1>2, <1>3, <1>4

(* An item between the indexes is not in the producer's cell, nor in that  *)
(* of another item.                                                        *)
LEMMA OtherCells ==
  ASSUME IInv,
         NEW n \in Nat, Len(taken) + Moved <= n, n < Len(pushed)
  PROVE  /\ Len(pushed) - head_seen < Capacity => Cell(n) # Cell(Len(pushed))
         /\ n # Len(taken) + Moved => Cell(n) # Cell(Len(taken) + Moved)
         /\ Cell(n) \in DOMAIN m_buffer
<1>1. /\ Len(pushed) \in Nat /\ Len(taken) \in Nat /\ Moved \in Nat /\ head_seen \in Nat
      /\ head_seen <= Len(taken) /\ Len(pushed) - head_seen <= Capacity
      /\ DOMAIN m_buffer = 0..(m_capacity - 1)
  BY Ranges
<1>2. n <= Len(pushed) /\ Len(pushed) - n < m_capacity /\ n # Len(pushed)
  BY <1>1, CapacityFacts
<1>3. LET t == Len(taken) + Moved IN t \in Nat /\ t <= n /\ n - t < m_capacity
  BY <1>1, CapacityFacts
<1> QED
  BY <1>1, <1>2, <1>3, SameCell, CellInBuffer

(* The cell at the consumer's position holds the item it is to hand out.   *)
LEMMA NextItem ==
  ASSUME IInv, Len(taken) + Moved < tail_seen
  PROVE  LET n == Len(taken) + Moved IN
         /\ n + 1 \in 1..Len(pushed)
         /\ m_buffer[Cell(n)] = pushed[n + 1]
         /\ pushed[n + 1] \in Items
<1> DEFINE n == Len(taken) + Moved
<1>1. n \in Nat /\ n < Len(pushed) /\ Len(pushed) \in Nat
  BY Ranges
<1>2. m_buffer[Cell(n)] = pushed[n + 1]
  BY <1>1 DEF IInv, Contents
<1>3. pushed \in Seq(Items)
  BY DEF IInv, TypeOK
<1> HIDE DEF n
<1>4. n + 1 \in 1..Len(pushed)
  BY <1>1
<1>5. pushed[n + 1] \in Items
  BY <1>3, <1>4, ElementOfSeq
<1> QED
  BY <1>2, <1>4, <1>5 DEF n

LEMMA InitIInv == Init => IInv
<1> SUFFICES ASSUME Init PROVE IInv
  OBVIOUS
<1>1. Len(pushed) = 0 /\ Len(taken) = 0 /\ Len(out_data) = 0
  BY DEF Init
<1>2. TypeOK
  BY <1>1, CapacityFacts DEF Init, TypeOK
<1>3. Counts
  BY <1>1, CapacityFacts DEF Init, Counts
<1>4. Indexes
  BY <1>1, CellInBuffer DEF Init, Indexes
<1>5. Contents
  BY <1>1 DEF Init, Contents, Moved
<1> QED
  BY <1>2, <1>3, <1>4, <1>5 DEF IInv

-----------------------------------------------------------------------------
(* One lemma for each access to the shared state.                          *)

LEMMA PushLoadKeeps == ASSUME IInv, PushLoad PROVE IInv'
<1>1. PICK n \in HeadLoads :
        /\ head_seen' = n
        /\ producer' = IF Full(n) THEN "idle" ELSE "write"
  BY DEF PushLoad
<1>2. /\ n \in Nat /\ head_seen <= n /\ n <= Len(taken)
      /\ Full(n) <=> Len(pushed) - n = Capacity
  BY FullMeans
<1>3. /\ producer = "idle" /\ data' \in Items
      /\ UNCHANGED <<m_buffer, m_head, m_tail, consumer, current_head, current_tail,
                     available_items, out_data, tail_seen, pushed, taken>>
  BY DEF PushLoad, consumerVars
<1>4. TypeOK'
  BY <1>1, <1>2, <1>3 DEF IInv, TypeOK
<1>5. Counts'
  <2>1. Len(pushed) - n <= Capacity /\ (producer' # "idle" => Len(pushed) - n < Capacity)
    BY <1>1, <1>2, Ranges, CapacityFacts
  <2> QED
    BY <1>1, <1>3, <2>1 DEF IInv, Counts
<1>6. Indexes'
  BY <1>3 DEF IInv, Indexes
<1>7. Contents'
  BY <1>1, <1>3 DEF IInv, Contents, Moved
<1> QED
  BY <1>4, <1>5, <1>6, <1>7 DEF IInv

LEMMA PushWriteKeeps == ASSUME IInv, PushWrite PROVE IInv'
<1>1. /\ producer = "write" /\ producer' = "publish"
      /\ m_buffer' = [m_buffer EXCEPT ![m_tail] = data]
      /\ UNCHANGED <<m_head, m_tail, consumer, current_head, current_tail, data, head_seen,
                     available_items, out_data, tail_seen, pushed, taken>>
  BY DEF PushWrite, consumerVars
<1>2. /\ data \in Items /\ m_tail = Cell(Len(pushed))
      /\ Len(pushed) - head_seen < Capacity
      /\ DOMAIN m_buffer = 0..(m_capacity - 1) /\ m_tail \in DOMAIN m_buffer
  BY <1>1, Ranges DEF IInv, TypeOK, Counts, Indexes, Contents
<1>3. TypeOK'
  BY <1>1, <1>2 DEF IInv, TypeOK
<1>4. Counts'
  BY <1>1 DEF IInv, Counts
<1>5. Indexes'
  BY <1>1 DEF IInv, Indexes
<1>6. ASSUME NEW n \in Nat, Len(taken) + Moved <= n, n < Len(pushed)
      PROVE  m_buffer'[Cell(n)] = pushed[n + 1]
  <2>1. Cell(n) # m_tail /\ Cell(n) \in DOMAIN m_buffer
    BY <1>2, <1>6, OtherCells
  <2>2. m_buffer[Cell(n)] = pushed[n + 1]
    BY <1>6 DEF IInv, Contents
  <2> QED
    BY <1>1, <2>1, <2>2
<1>7. m_buffer'[m_tail] = data
  BY <1>1, <1>2
<1>8. Moved' = Moved
  BY <1>1 DEF Moved
<1>9. Contents'
  BY <1>1, <1>2, <1>6, <1>7, <1>8 DEF IInv, Contents
<1> QED
  BY <1>3, <1>4, <1>5, <1>9 DEF IInv

LEMMA PushPublishKeeps == ASSUME IInv, PushPublish PROVE IInv'
<1>1. /\ producer = "publish" /\ producer' = "idle"
      /\ m_tail' = Succ(m_tail) /\ pushed' = Append(pushed, data)
      /\ UNCHANGED <<m_buffer, m_head, consumer, current_head, current_tail, data, head_seen,
                     available_items, out_data, tail_seen, taken>>
  BY DEF PushPublish, consumerVars
<1>2. /\ data \in Items /\ pushed \in Seq(Items) /\ Len(pushed) \in Nat
      /\ m_buffer[Cell(Len(pushed))] = data
  BY <1>1, Ranges DEF IInv, TypeOK, Contents
<1>3. /\ pushed' \in Seq(Items) /\ Len(pushed') = Len(pushed) + 1
      /\ \A k \in 1..Len(pushed) : pushed'[k] = pushed[k]
      /\ pushed'[Len(pushed) + 1] = data
  BY <1>1, <1>2, AppendProperties
<1>4. m_tail' = Cell(Len(pushed) + 1)
  <2>1. m_tail = Cell(Len(pushed))
    BY DEF IInv, Indexes
  <2> QED
    BY <1>1, <1>2, <2>1, NextCell
<1>5. TypeOK'
  <2>1. m_tail' \in 0..(m_capacity - 1)
    BY <1>2, <1>4, CellInBuffer
  <2>2. tail_seen' \in 0..Len(pushed')
    BY <1>1, <1>2, <1>3, Ranges
  <2>3. m_tail' \in DOMAIN m_buffer'
    BY <1>1, <2>1, Ranges
  <2> QED
    BY <1>1, <1>3, <2>2, <2>3 DEF IInv, TypeOK
<1>6. Counts'
  <2>1. Len(pushed') - head_seen' <= Capacity
    BY <1>1, <1>2, <1>3, Ranges, CapacityFacts DEF IInv, Counts
  <2> QED
    BY <1>1, <2>1 DEF IInv, Counts
<1>7. Indexes'
  BY <1>1, <1>3, <1>4 DEF IInv, Indexes
<1>8. Moved' = Moved
  BY <1>1 DEF Moved
<1>9. ASSUME NEW n \in Nat, Len(taken) + Moved <= n, n < Len(pushed')
      PROVE  m_buffer[Cell(n)] = pushed'[n + 1]
  <2>1. CASE n = Len(pushed)
    BY <1>2, <1>3, <2>1
  <2>2. CASE n # Len(pushed)
    <3>1. n < Len(pushed) /\ n + 1 \in 1..Len(pushed)
      BY <1>2, <1>3, <1>9, <2>2
    <3>2. m_buffer[Cell(n)] = pushed[n + 1]
      BY <1>9, <3>1 DEF IInv, Contents
    <3> QED
      BY <1>3, <3>1, <3>2
  <2> QED
    BY <2>1, <2>2
<1>10. consumer \in {"move", "advance"} =>
         \A k \in 1..Len(out_data) : out_data[k] = pushed'[Len(taken) + k]
  <2> SUFFICES ASSUME consumer \in {"move", "advance"}, NEW k \in 1..Len(out_data)
               PROVE  out_data[k] = pushed'[Len(taken) + k]
    OBVIOUS
  <2>1. out_data[k] = pushed[Len(taken) + k]
    BY DEF IInv, Contents
  <2>2. Len(taken) + k \in 1..Len(pushed)
    <3>1. Moved = Len(out_data)
      BY DEF Moved
    <3> QED
      BY <3>1, Ranges
  <2> QED
    BY <1>3, <2>1, <2>2
<1>11. Contents'
  BY <1>1, <1>8, <1>9, <1>10 DEF IInv, Contents
<1> QED
  BY <1>5, <1>6, <1>7, <1>11 DEF IInv

LEMMA PopLoadKeeps == ASSUME IInv, PopLoad PROVE IInv'
<1>1. PICK n \in TailLoads :
        /\ tail_seen' = n
        /\ consumer' = IF Empty(n) THEN "idle" ELSE "read"
  BY DEF PopLoad
<1>2. /\ n \in Nat /\ tail_seen <= n /\ n <= Len(pushed) /\ Len(taken) <= n
      /\ Empty(n) <=> Len(taken) = n
  BY EmptyMeans
<1>3. /\ consumer = "idle" /\ out_data' = <<>> /\ current_head' = m_head
      /\ UNCHANGED <<m_buffer, m_head, m_tail, producer, data, head_seen, pushed,
                     current_tail, available_items, taken>>
  BY DEF PopLoad, producerVars
<1>4. TypeOK'
  <2>1. tail_seen' \in 0..Len(pushed')
    BY <1>1, <1>2, <1>3, Ranges
  <2>2. consumer' \in {"idle", "read", "move", "advance"}
    BY <1>1
  <2> QED
    BY <1>3, <2>1, <2>2 DEF IInv, TypeOK
<1>5. Counts'
  <2>1. Len(taken) <= n /\ (consumer' = "read" => Len(taken) < n)
    BY <1>1, <1>2, Ranges
  <2> QED
    BY <1>1, <1>3, <2>1 DEF IInv, Counts
<1>6. Indexes'
  BY <1>1, <1>3 DEF IInv, Indexes
<1>7. Moved = 0 /\ Moved' = 0
  BY <1>1, <1>3 DEF Moved
<1>8. Contents'
  BY <1>1, <1>3, <1>7 DEF IInv, Contents
<1> QED
  BY <1>4, <1>5, <1>6, <1>8 DEF IInv

LEMMA PopReadKeeps == ASSUME IInv, PopRead PROVE IInv'
<1>1. /\ consumer = "read" /\ consumer' = "advance"
      /\ out_data' = <<m_buffer[current_head]>>
      /\ current_head' = Succ(current_head)
      /\ UNCHANGED <<m_buffer, m_head, m_tail, producer, data, head_seen, pushed,
                     current_tail, available_items, tail_seen, taken>>
  BY DEF PopRead, producerVars
<1>2. Moved = 0 /\ Len(taken) < tail_seen /\ current_head = Cell(Len(taken))
  BY <1>1 DEF IInv, Counts, Indexes, Moved
<1>3. /\ Len(taken) \in Nat /\ tail_seen \in Nat /\ Len(taken) + 0 = Len(taken)
      /\ Len(taken) + Moved = Len(taken) /\ Len(taken) + Moved < tail_seen
  BY <1>2, Ranges
<1>4. /\ m_buffer[current_head] = pushed[Len(taken) + 1]
      /\ m_buffer[current_head] \in Items
  BY <1>2, <1>3, NextItem
<1>5. out_data' \in Seq(Items) /\ Len(out_data') = 1 /\ out_data'[1] = pushed[Len(taken) + 1]
  BY <1>1, <1>4
<1>6. current_head' = Cell(Len(taken) + 1)
  BY <1>1, <1>2, <1>3, NextCell
<1>7. TypeOK'
  <2>1. current_head' \in DOMAIN m_buffer
    BY <1>3, <1>6, CellInBuffer, Ranges
  <2> QED
    BY <1>1, <1>5, <2>1 DEF IInv, TypeOK
<1>8. Counts'
  <2>1. Len(taken) + 1 <= tail_seen
    BY <1>2, <1>3
  <2> QED
    BY <1>1, <1>5, <2>1 DEF IInv, Counts
<1>9. Indexes'
  BY <1>1, <1>5, <1>6 DEF IInv, Indexes
<1>10. Moved' = 1
  BY <1>1, <1>5 DEF Moved
<1>11. ASSUME NEW n \in Nat, Len(taken) + 1 <= n, n < Len(pushed)
       PROVE  m_buffer[Cell(n)] = pushed[n + 1]
  <2>1. Len(taken) + Moved <= n
    BY <1>3, <1>11
  <2> QED
    BY <1>11, <2>1 DEF IInv, Contents
<1>12. \A k \in 1..1 : out_data'[k] = pushed[Len(taken) + k]
  <2>1. \A k \in 1..1 : k = 1
    OBVIOUS
  <2> QED
    BY <1>5, <2>1
<1>13. Contents'
  BY <1>1, <1>5, <1>10, <1>11, <1>12 DEF IInv, Contents
<1> QED
  BY <1>7, <1>8, <1>9, <1>13 DEF IInv

LEMMA PopAllLoadKeeps == ASSUME IInv, PopAllLoad PROVE IInv'
<1>1. PICK n \in TailLoads :
        /\ tail_seen' = n
        /\ consumer' = IF Empty(n) THEN "idle" ELSE "move"
        /\ current_tail' = n % m_capacity
  BY DEF PopAllLoad
<1>2. /\ n \in Nat /\ tail_seen <= n /\ n <= Len(pushed) /\ Len(taken) <= n
      /\ n - Len(taken) < m_capacity
      /\ Empty(n) <=> Len(taken) = n
  BY EmptyMeans
<1>3. /\ consumer = "idle" /\ out_data' = <<>> /\ current_head' = m_head
      /\ available_items' = Available(m_head, current_tail')
      /\ UNCHANGED <<m_buffer, m_head, m_tail, producer, data, head_seen, pushed, taken>>
  BY DEF PopAllLoad, producerVars
<1>4. current_tail' = Cell(n) /\ m_head = Cell(Len(taken)) /\ Len(taken) \in Nat
  BY <1>1, Ranges DEF Cell, IInv, Indexes
<1>5. available_items' = n - Len(taken) /\ available_items' \in Int
  BY <1>2, <1>3, <1>4, AvailableIsDifference
<1>6. TypeOK'
  <2>1. tail_seen' \in 0..Len(pushed')
    BY <1>1, <1>2, <1>3, Ranges
  <2>2. consumer' \in {"idle", "read", "move", "advance"}
    BY <1>1
  <2>3. current_tail' \in DOMAIN m_buffer
    BY <1>2, <1>4, CellInBuffer, Ranges
  <2> QED
    BY <1>3, <1>5, <2>1, <2>2, <2>3 DEF IInv, TypeOK
<1>7. Counts'
  <2>1. Len(taken) <= n /\ Len(taken) + 0 <= n /\ (consumer' = "move" => Len(taken) < n)
    BY <1>1, <1>2, <1>4
  <2>2. Len(out_data') = 0
    BY <1>3
  <2> QED
    BY <1>1, <1>3, <2>1, <2>2 DEF IInv, Counts
<1>8. Indexes'
  <2>1. Len(out_data') = 0 /\ Len(taken) + 0 = Len(taken)
    BY <1>3, <1>4
  <2> QED
    BY <1>1, <1>3, <1>4, <1>5, <2>1 DEF IInv, Indexes
<1>9. Moved = 0 /\ Moved' = 0
  BY <1>1, <1>3 DEF Moved
<1>10. Contents'
  BY <1>1, <1>3, <1>9 DEF IInv, Contents
<1> QED
  BY <1>6, <1>7, <1>8, <1>10 DEF IInv

LEMMA PopAllMoveKeeps == ASSUME IInv, PopAllMove PROVE IInv'
<1> DEFINE t == Len(taken) + Len(out_data)
<1>1. /\ consumer = "move" /\ current_head # current_tail
      /\ out_data' = Append(out_data, m_buffer[current_head])
      /\ m_buffer' = [m_buffer EXCEPT ![current_head] = NoItem]
      /\ current_head' = Succ(current_head)
      /\ UNCHANGED <<m_head, m_tail, consumer, producer, data, head_seen, pushed,
                     current_tail, available_items, tail_seen, taken>>
  BY DEF PopAllMove, producerVars
<1>2. /\ Moved = Len(out_data) /\ current_head = Cell(t) /\ current_tail = Cell(tail_seen)
      /\ t <= tail_seen /\ out_data \in Seq(Items)
  BY <1>1 DEF IInv, TypeOK, Counts, Indexes, Moved
<1>3. /\ Len(taken) \in Nat /\ Len(out_data) \in Nat /\ tail_seen \in Nat /\ t \in Nat
      /\ Len(pushed) \in Nat /\ tail_seen <= Len(pushed)
      /\ t < tail_seen /\ Len(taken) + Moved = t
      /\ Len(taken) + (Len(out_data) + 1) = t + 1
  <2>1. t # tail_seen
    BY <1>1, <1>2
  <2> QED
    BY <1>2, <2>1, Ranges
<1>4. /\ m_buffer[current_head] = pushed[t + 1] /\ m_buffer[current_head] \in Items
  BY <1>2, <1>3, NextItem
<1>5. /\ out_data' \in Seq(Items) /\ Len(out_data') = Len(out_data) + 1
      /\ \A k \in 1..Len(out_data) : out_data'[k] = out_data[k]
      /\ out_data'[Len(out_data) + 1] = pushed[t + 1]
  BY <1>1, <1>2, <1>4, AppendProperties
<1> HIDE DEF t
<1>6. current_head' = Cell(t + 1)
  BY <1>1, <1>2, <1>3, NextCell
<1>7. TypeOK'
  <2>1. current_head' \in DOMAIN m_buffer /\ DOMAIN m_buffer' = DOMAIN m_buffer
    BY <1>1, <1>3, <1>6, CellInBuffer, Ranges
  <2>2. m_buffer' \in [0..(m_capacity - 1) -> Items \cup {NoItem}]
    BY <1>1 DEF IInv, TypeOK
  <2> QED
    BY <1>1, <1>5, <2>1, <2>2 DEF IInv, TypeOK
<1>8. Counts'
  <2>1. Len(taken) + Len(out_data') <= tail_seen
    BY <1>3, <1>5
  <2> QED
    BY <1>1, <2>1 DEF IInv, Counts
<1>9. Indexes'
  <2>1. Len(taken) + Len(out_data') = t + 1
    BY <1>3, <1>5
  <2> QED
    BY <1>1, <1>6, <2>1 DEF IInv, Indexes
<1>10. Moved' = Len(out_data) + 1
  BY <1>1, <1>5 DEF Moved
<1>11. ASSUME NEW n \in Nat, t + 1 <= n, n < Len(pushed)
       PROVE  m_buffer'[Cell(n)] = pushed[n + 1]
  <2>1. Len(taken) + Moved <= n /\ n # Len(taken) + Moved
    BY <1>3, <1>11
  <2>2. Cell(n) # current_head /\ Cell(n) \in DOMAIN m_buffer
    BY <1>2, <1>3, <1>11, <2>1, OtherCells
  <2>3. m_buffer[Cell(n)] = pushed[n + 1]
    BY <1>11, <2>1 DEF IInv, Contents
  <2> QED
    BY <1>1, <2>2, <2>3
<1>12. producer = "publish" => m_buffer'[Cell(Len(pushed))] = data
  <2> SUFFICES ASSUME producer = "publish"
               PROVE  m_buffer'[Cell(Len(pushed))] = data
    OBVIOUS
  <2>1. m_buffer[Cell(Len(pushed))] = data /\ Len(pushed) - head_seen < Capacity
    BY DEF IInv, Contents, Counts
  <2>2. Cell(t) # Cell(Len(pushed))
    <3>1. Len(taken) + Moved <= t /\ t < Len(pushed)
      BY <1>3
    <3> QED
      BY <1>3, <2>1, <3>1, OtherCells
  <2>3. Cell(Len(pushed)) \in DOMAIN m_buffer
    BY <1>3, CellInBuffer, Ranges
  <2> QED
    BY <1>1, <1>2, <2>1, <2>2, <2>3
<1>13. \A k \in 1..(Len(out_data) + 1) : out_data'[k] = pushed[Len(taken) + k]
  <2> TAKE k \in 1..(Len(out_data) + 1)
  <2>1. CASE k = Len(out_data) + 1
    BY <1>3, <1>5, <2>1
  <2>2. CASE k # Len(out_data) + 1
    <3>1. k \in 1..Len(out_data)
      BY <1>3, <2>2
    <3>2. out_data[k] = pushed[Len(taken) + k]
      BY <1>1, <3>1 DEF IInv, Contents
    <3> QED
      BY <1>5, <3>1, <3>2
  <2> QED
    BY <2>1, <2>2
<1>14. Contents'
  <2>1. Len(taken') + Moved' = t + 1
    BY <1>1, <1>3, <1>10
  <2> QED
    BY <1>1, <1>5, <1>11, <1>12, <1>13, <2>1 DEF IInv, Contents
<1> QED
  BY <1>7, <1>8, <1>9, <1>14 DEF IInv

(* The indexes meet exactly when all items up to the loaded tail are moved. *)
LEMMA IndexesMeet ==
  ASSUME IInv, consumer = "move", current_head = current_tail
  PROVE  Len(taken) + Len(out_data) = tail_seen /\ Len(out_data) = available_items
<1> DEFINE t == Len(taken) + Len(out_data)
<1>1. /\ current_head = Cell(t) /\ current_tail = Cell(tail_seen) /\ t <= tail_seen
      /\ available_items = tail_seen - Len(taken)
  BY DEF IInv, Counts, Indexes
<1>2. /\ t \in Nat /\ tail_seen \in Nat /\ Len(taken) \in Nat /\ Len(out_data) \in Nat
      /\ tail_seen - t < m_capacity
  BY Ranges, CapacityFacts
<1>3. t = tail_seen
  <2> HIDE DEF t
  <2> QED
    BY <1>1, <1>2, SameCell
<1> QED
  BY <1>1, <1>2, <1>3

LEMMA PopAllEndKeeps == ASSUME IInv, PopAllEnd PROVE IInv'
<1>1. /\ consumer = "move" /\ current_head = current_tail /\ consumer' = "advance"
      /\ UNCHANGED <<m_buffer, m_head, m_tail, producer, data, head_seen, pushed,
                     current_head, current_tail, available_items, out_data, tail_seen, taken>>
  BY DEF PopAllEnd, producerVars
<1>2. Len(out_data) > 0
  <2>1. Len(taken) + Len(out_data) = tail_seen
    BY <1>1, IndexesMeet
  <2>2. Len(taken) < tail_seen
    BY <1>1 DEF IInv, Counts
  <2> QED
    BY <2>1, <2>2, Ranges
<1>3. TypeOK'
  BY <1>1 DEF IInv, TypeOK
<1>4. Counts'
  BY <1>1, <1>2 DEF IInv, Counts
<1>5. Indexes'
  BY <1>1 DEF IInv, Indexes
<1>6. Contents'
  BY <1>1 DEF IInv, Contents, Moved
<1> QED
  BY <1>3, <1>4, <1>5, <1>6 DEF IInv

LEMMA AdvanceKeeps == ASSUME IInv, Advance PROVE IInv'
<1> DEFINE t == Len(taken) + Len(out_data)
<1>1. /\ consumer = "advance" /\ consumer' = "idle"
      /\ m_head' = current_head /\ taken' = taken \o out_data
      /\ UNCHANGED <<m_buffer, m_tail, producer, data, head_seen, pushed, current_head,
                     current_tail, available_items, out_data, tail_seen>>
  BY DEF Advance, producerVars
<1>2. /\ current_head = Cell(t) /\ t <= tail_seen /\ Moved = Len(out_data)
      /\ taken \in Seq(Items) /\ out_data \in Seq(Items)
  BY <1>1 DEF IInv, TypeOK, Counts, Indexes, Moved
<1>3. taken' \in Seq(Items) /\ Len(taken') = t
  BY <1>1, <1>2, ConcatProperties
<1>4. Moved' = 0 /\ t \in Nat /\ t + 0 = t /\ Len(taken) <= t
  BY <1>1, <1>2, Ranges DEF Moved
<1> HIDE DEF t
<1>5. TypeOK'
  <2>1. m_head' \in DOMAIN m_buffer /\ head_seen \in 0..t
    BY <1>1, <1>2, <1>4, CellInBuffer, Ranges
  <2> QED
    BY <1>1, <1>3, <2>1 DEF IInv, TypeOK
<1>6. Counts'
  BY <1>1, <1>2, <1>3 DEF IInv, Counts
<1>7. Indexes'
  BY <1>1, <1>2, <1>3 DEF IInv, Indexes
<1>8. Contents'
  <2>1. Len(taken') + Moved' = Len(taken) + Moved
    BY <1>2, <1>3, <1>4 DEF t
  <2> QED
    BY <1>1, <2>1 DEF IInv, Contents
<1> QED
  BY <1>5, <1>6, <1>7, <1>8 DEF IInv

LEMMA NextIInv == IInv /\ [Next]_vars => IInv'
<1> SUFFICES ASSUME IInv, [Next]_vars PROVE IInv'
  OBVIOUS
<1>1. CASE UNCHANGED vars
  <2>1. /\ UNCHANGED <<m_buffer, m_head, m_tail, producer, data, consumer, current_head>>
        /\ UNCHANGED <<current_tail, available_items, out_data, head_seen, tail_seen>>
        /\ UNCHANGED <<pushed, taken>>
    BY <1>1 DEF vars, producerVars, consumerVars
  <2> QED
    BY <2>1 DEF IInv, TypeOK, Counts, Indexes, Contents, Moved
<1> QED
  BY <1>1, PushLoadKeeps, PushWriteKeeps, PushPublishKeeps, PopLoadKeeps, PopReadKeeps,
     PopAllLoadKeeps, PopAllMoveKeeps, PopAllEndKeeps, AdvanceKeeps
  DEF Next, push, pop, pop_all

(* Whatever the loads return, no call leaves the inductive invariant.      *)
THEOREM Invariance == Spec => []IInv
<1> QED
  BY InitIInv, NextIInv, PTL DEF Spec

-----------------------------------------------------------------------------
(* The indexes stay inside the buffer, whatever its size.                  *)
THEOREM TypeCorrect == Spec => []TypeOK
<1>1. IInv => TypeOK
  BY DEF IInv
<1> QED
  BY <1>1, Invariance, PTL

(* No cell is written and read without a store and a load in between that  *)
(* order the two accesses: acquire and release suffice.                    *)
THEOREM NoRaceOnACell == Spec => []CellsSynchronised
<1>1. IInv => CellsSynchronised
  <2> SUFFICES ASSUME IInv PROVE CellsSynchronised
    OBVIOUS
  <2>1. producer = "write" => Len(pushed) - m_capacity < head_seen
    BY Ranges, CapacityFacts DEF IInv, Counts
  <2>2. consumer = "read" => Len(taken) < tail_seen
    BY DEF IInv, Counts
  <2>3. ASSUME consumer = "move", current_head # current_tail
        PROVE  Len(taken) + Len(out_data) < tail_seen
    <3>1. Len(taken) + Len(out_data) <= tail_seen
      BY <2>3 DEF IInv, Counts
    <3>2. Len(taken) + Len(out_data) # tail_seen
      BY <2>3 DEF IInv, Indexes
    <3> QED
      BY <3>1, <3>2, Ranges
  <2> QED
    BY <2>1, <2>2, <2>3 DEF CellsSynchronised
<1> QED
  BY <1>1, Invariance, PTL

(* Full and empty are told apart after any number of turns of the ring.    *)
THEOREM IndexesAreTrue == Spec => []IndexesTellCounts
<1>1. IInv => IndexesTellCounts
  BY FullMeans, EmptyMeans DEF IndexesTellCounts
<1> QED
  BY <1>1, Invariance, PTL

(* pop_all reserves room for exactly the items that it moves.              *)
THEOREM ReservationIsExact == Spec => []ReservedExactly
<1>1. IInv => ReservedExactly
  BY IndexesMeet DEF ReservedExactly
<1> QED
  BY <1>1, Invariance, PTL

-----------------------------------------------------------------------------
(* The refinement: publishing is a Put, and advancing a Take.              *)

Window(s, t) == SubSeq(s, t + 1, Len(s))

LEMMA WindowIs ==
  ASSUME NEW s \in Seq(Items), NEW t \in 0..Len(s)
  PROVE  /\ Window(s, t) \in Seq(Items) /\ Len(Window(s, t)) = Len(s) - t
         /\ \A k \in 1..(Len(s) - t) : Window(s, t)[k] = s[t + k]
<1>1. Len(s) \in Nat /\ t \in Nat /\ t <= Len(s) /\ \A k \in 1..Len(s) : s[k] \in Items
  BY ElementOfSeq
<1>2. \A k \in (t + 1)..Len(s) : s[k] \in Items
  BY <1>1
<1>3. t + 1 \in Int /\ Len(s) \in Int
  BY <1>1
<1>4. /\ Window(s, t) \in Seq(Items)
      /\ Len(Window(s, t)) = IF t + 1 <= Len(s) THEN Len(s) - (t + 1) + 1 ELSE 0
      /\ \A k \in 1..(Len(s) - (t + 1) + 1) : Window(s, t)[k] = s[t + 1 + k - 1]
  BY <1>2, <1>3, SubSeqProperties DEF Window
<1>5. Len(s) - (t + 1) + 1 = Len(s) - t /\ (t + 1 <= Len(s) \/ Len(s) - t = 0)
  BY <1>1
<1>6. \A k \in 1..(Len(s) - t) : t + 1 + k - 1 = t + k
  BY <1>1
<1>7. Len(Window(s, t)) = Len(s) - t
  BY <1>4, <1>5
<1> QED
  BY <1>4, <1>5, <1>6, <1>7

LEMMA WindowGrows ==
  ASSUME NEW s \in Seq(Items), NEW t \in 0..Len(s), NEW item \in Items
  PROVE  Window(Append(s, item), t) = Append(Window(s, t), item)
<1> DEFINE u == Append(s, item)  w == Window(s, t)  v == Window(u, t)  z == Append(w, item)
<1>1. Len(s) \in Nat /\ t \in Nat /\ t <= Len(s)
  BY ElementOfSeq
<1>2. /\ u \in Seq(Items) /\ Len(u) = Len(s) + 1 /\ u[Len(s) + 1] = item
      /\ \A k \in 1..Len(s) : u[k] = s[k]
  BY AppendProperties
<1>3. w \in Seq(Items) /\ Len(w) = Len(s) - t /\ \A k \in 1..(Len(s) - t) : w[k] = s[t + k]
  BY WindowIs
<1> HIDE DEF u, w
<1>4. t \in 0..Len(u)
  BY <1>1, <1>2
<1>5. /\ v \in Seq(Items) /\ Len(v) = Len(u) - t
      /\ \A k \in 1..(Len(u) - t) : v[k] = u[t + k]
  BY <1>2, <1>4, WindowIs
<1>6. /\ z \in Seq(Items) /\ Len(z) = Len(w) + 1 /\ z[Len(w) + 1] = item
      /\ \A k \in 1..Len(w) : z[k] = w[k]
  BY <1>3, AppendProperties
<1> HIDE DEF v, z
<1>7. Len(v) = Len(z)
  BY <1>1, <1>2, <1>3, <1>5, <1>6
<1>8. ASSUME NEW k \in 1..Len(v)
      PROVE  v[k] = z[k]
  <2>1. CASE k = Len(w) + 1
    <3>1. t + k = Len(s) + 1 /\ k \in 1..(Len(u) - t)
      BY <1>1, <1>2, <1>3, <1>5, <2>1
    <3> QED
      BY <1>2, <1>5, <1>6, <2>1, <3>1
  <2>2. CASE k # Len(w) + 1
    <3>1. \A l, m, i \in Nat :
            m <= l /\ i \in 1..(l + 1 - m) /\ i # l - m + 1 =>
              i \in 1..(l - m) /\ m + i \in 1..l
      OBVIOUS
    <3>2. k \in Nat /\ k \in 1..(Len(s) + 1 - t) /\ k # Len(s) - t + 1
      BY <1>1, <1>2, <1>3, <1>5, <2>2
    <3>3. /\ k \in 1..(Len(s) - t) /\ k \in 1..Len(w) /\ k \in 1..(Len(u) - t)
          /\ t + k \in 1..Len(s)
      BY <1>1, <1>2, <1>3, <3>1, <3>2
    <3> QED
      BY <1>2, <1>3, <1>5, <1>6, <3>3
  <2> QED
    BY <2>1, <2>2
<1>9. v = z
  BY <1>5, <1>6, <1>7, <1>8, SeqEqual
<1> QED
  BY <1>9 DEF v, z, u, w

LEMMA WindowShrinks ==
  ASSUME NEW s \in Seq(Items), NEW t \in 0..Len(s), NEW n \in 0..(Len(s) - t)
  PROVE  Window(s, t + n) = SubSeq(Window(s, t), n + 1, Len(Window(s, t)))
<1> DEFINE w == Window(s, t)  v == Window(s, t + n)  z == Window(w, n)
<1>1. Len(s) \in Nat /\ t \in Nat /\ t <= Len(s) /\ n \in Nat /\ t + n <= Len(s)
  BY ElementOfSeq
<1>2. w \in Seq(Items) /\ Len(w) = Len(s) - t /\ \A k \in 1..(Len(s) - t) : w[k] = s[t + k]
  BY WindowIs
<1>3. t + n \in 0..Len(s)
  BY <1>1
<1>4. /\ v \in Seq(Items) /\ Len(v) = Len(s) - (t + n)
      /\ \A k \in 1..(Len(s) - (t + n)) : v[k] = s[t + n + k]
  BY <1>3, WindowIs
<1> HIDE DEF w
<1>5. n \in 0..Len(w)
  BY <1>1, <1>2
<1>6. z \in Seq(Items) /\ Len(z) = Len(w) - n /\ \A k \in 1..(Len(w) - n) : z[k] = w[n + k]
  BY <1>2, <1>5, WindowIs
<1> HIDE DEF v, z
<1>7. Len(v) = Len(z)
  BY <1>1, <1>2, <1>4, <1>6
<1>8. ASSUME NEW k \in 1..Len(v)
      PROVE  v[k] = z[k]
  <2>1. /\ k \in 1..(Len(s) - (t + n)) /\ k \in 1..(Len(w) - n)
        /\ n + k \in 1..(Len(s) - t) /\ t + (n + k) = t + n + k
    BY <1>1, <1>2, <1>4, <1>8
  <2> QED
    BY <1>2, <1>4, <1>6, <2>1
<1>9. v = z
  BY <1>4, <1>6, <1>7, <1>8, SeqEqual
<1> QED
  BY <1>9 DEF v, z, w, Window

LEMMA WindowStarts ==
  ASSUME NEW s \in Seq(Items), NEW t \in 0..Len(s), NEW o \in Seq(Items),
         t + Len(o) <= Len(s), \A k \in 1..Len(o) : o[k] = s[t + k]
  PROVE  o = SubSeq(Window(s, t), 1, Len(o))
<1> DEFINE w == Window(s, t)  n == Len(o)  z == SubSeq(w, 1, n)
<1>1. Len(s) \in Nat /\ t \in Nat /\ n \in Nat /\ n <= Len(s) - t
  BY ElementOfSeq
<1>2. w \in Seq(Items) /\ Len(w) = Len(s) - t /\ \A k \in 1..(Len(s) - t) : w[k] = s[t + k]
  BY WindowIs
<1>3. \A k \in 1..Len(o) : o[k] = s[t + k]
  OBVIOUS
<1> HIDE DEF w, n
<1>4. \A k \in 1..n : k \in 1..Len(w) /\ k \in 1..(Len(s) - t)
  BY <1>1, <1>2
<1>5. \A k \in 1..n : w[k] \in Items
  BY <1>2, <1>4, ElementOfSeq
<1>6. /\ z \in Seq(Items)
      /\ Len(z) = IF 1 <= n THEN n - 1 + 1 ELSE 0
      /\ \A k \in 1..(n - 1 + 1) : z[k] = w[1 + k - 1]
  <2>1. 1 \in Int /\ n \in Int
    BY <1>1
  <2> QED
    BY <1>5, <2>1, SubSeqProperties
<1>7. n - 1 + 1 = n /\ (1 <= n \/ n = 0) /\ \A k \in 1..n : 1 + k - 1 = k
  BY <1>1
<1> HIDE DEF z
<1>8. Len(z) = n /\ \A k \in 1..n : z[k] = w[k]
  BY <1>6, <1>7
<1>9. Len(o) = n
  BY DEF n
<1>10. \A k \in 1..n : o[k] = z[k]
  BY <1>2, <1>3, <1>4, <1>8, <1>9
<1>11. o = z
  BY <1>6, <1>8, <1>9, <1>10, SeqEqual
<1> QED
  BY <1>11 DEF z, n, w

LEMMA InitRefines == Init => Fifo!Init
BY DEF Init, Fifo!Init

LEMMA PublishRefines ==
  ASSUME IInv, PushPublish
  PROVE  Fifo!Put
<1>1. /\ pushed' = Append(pushed, data) /\ UNCHANGED taken /\ producer = "publish"
  BY DEF PushPublish, consumerVars
<1>2. /\ data \in Items /\ pushed \in Seq(Items)
      /\ Len(taken) \in 0..Len(pushed) /\ Len(pushed) - Len(taken) < Capacity
  <2>1. Len(pushed) - head_seen < Capacity
    BY <1>1 DEF IInv, Counts
  <2> QED
    BY <1>1, <2>1, Ranges, CapacityFacts DEF IInv, TypeOK, Contents
<1>3. Window(pushed', Len(taken')) = Append(Window(pushed, Len(taken)), data)
  BY <1>1, <1>2, WindowGrows
<1>4. Len(Window(pushed, Len(taken))) < Capacity
  BY <1>2, WindowIs
<1> QED
  BY <1>1, <1>2, <1>3, <1>4 DEF Fifo!Put, Window

LEMMA AdvanceRefines ==
  ASSUME IInv, Advance
  PROVE  Fifo!Take
<1> DEFINE n == Len(out_data)  w == Window(pushed, Len(taken))
<1>1. taken' = taken \o out_data /\ UNCHANGED pushed /\ consumer = "advance"
  BY DEF Advance, producerVars
<1>2. /\ pushed \in Seq(Items) /\ taken \in Seq(Items) /\ out_data \in Seq(Items)
      /\ Len(taken) \in 0..Len(pushed) /\ n > 0 /\ n \in Nat
      /\ Len(taken) + n <= Len(pushed)
  <2>1. Moved = n
    BY <1>1 DEF Moved
  <2> QED
    BY <1>1, <2>1, Ranges DEF IInv, TypeOK, Counts
<1>3. \A k \in 1..n : out_data[k] = pushed[Len(taken) + k]
  BY <1>1 DEF IInv, Contents
<1>4. Len(taken') = Len(taken) + n
  BY <1>1, <1>2, ConcatProperties
<1>5. out_data = SubSeq(w, 1, n)
  BY <1>2, <1>3, WindowStarts
<1>6. Window(pushed, Len(taken) + n) = SubSeq(w, n + 1, Len(w))
  <2>1. n \in 0..(Len(pushed) - Len(taken))
    BY <1>2
  <2> QED
    BY <1>2, <2>1, WindowShrinks
<1>7. n \in 1..Len(w)
  <2>1. Len(w) = Len(pushed) - Len(taken)
    BY <1>2, WindowIs
  <2> QED
    BY <1>2, <2>1
<1> HIDE DEF n
<1>8. taken' = taken \o SubSeq(w, 1, n) /\ Window(pushed', Len(taken')) = SubSeq(w, n + 1, Len(w))
  BY <1>1, <1>4, <1>5, <1>6
<1> QED
  BY <1>7, <1>8 DEF Fifo!Take, Window

LEMMA NextRefines ==
  ASSUME IInv, [Next]_vars
  PROVE  [Fifo!Next]_<<SubSeq(pushed, Len(taken) + 1, Len(pushed)), taken>>
<1>1. CASE PushPublish
  BY <1>1, PublishRefines DEF Fifo!Next
<1>2. CASE Advance
  BY <1>2, AdvanceRefines DEF Fifo!Next
<1>3. CASE PushLoad \/ PushWrite
  BY <1>3 DEF PushLoad, PushWrite, consumerVars
<1>4. CASE PopLoad \/ PopRead \/ PopAllLoad \/ PopAllMove \/ PopAllEnd
  BY <1>4 DEF PopLoad, PopRead, PopAllLoad, PopAllMove, PopAllEnd, producerVars
<1>5. CASE UNCHANGED vars
  BY <1>5 DEF vars, producerVars, consumerVars
<1> QED
  BY <1>1, <1>2, <1>3, <1>4, <1>5 DEF Next, push, pop, pop_all

(* For every capacity the ring of two threads is a bounded first-in        *)
(* first-out queue.                                                        *)
THEOREM RingIsFifo == Spec => ImplementsFifo
<1>1. IInv /\ [Next]_vars =>
        [Fifo!Next]_<<SubSeq(pushed, Len(taken) + 1, Len(pushed)), taken>>
  BY NextRefines
<1> QED
  BY InitRefines, <1>1, Invariance, PTL DEF Spec, ImplementsFifo, Fifo!Spec
=============================================================================
