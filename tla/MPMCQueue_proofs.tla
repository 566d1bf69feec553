-------------------------- MODULE MPMCQueue_proofs --------------------------
(***************************************************************************)
(* Theorems about MPMCQueue, for any number of producers and consumers and *)
(* any value a load may return: type correctness for every capacity, and   *)
(* the rest for every capacity above 1 (SeveralCells).  The constructor    *)
(* takes a capacity of 1 too, and then they are false: the second push     *)
(* overwrites the first.                                                   *)
(*                                                                         *)
(* The argument: position n has one cell, n % Capacity, and the sequence   *)
(* number of a cell says whose turn it is: n for the producer of position  *)
(* n, n + 1 for its consumer.  A thread that saw its turn and won the      *)
(* compare-and-swap cannot have been overtaken, because the two counters   *)
(* are never more than a lap away from the turn of any cell.  With one     *)
(* cell, n + 1 would be both the consumer's turn and the next producer's.  *)
(***************************************************************************)
EXTENDS MPMCQueue, SequenceTheorems, TLAPS

-----------------------------------------------------------------------------
(* Remainders.                                                             *)

LEMMA Division ==
  \A a \in Nat : \A C \in Nat \ {0} :
    a % C \in 0..(C - 1) /\ a \div C \in Nat /\ a = C * (a \div C) + (a % C)
OBVIOUS

LEMMA DivisionIsUnique ==
  \A C \in Nat \ {0} : \A q1, q2 \in Nat : \A r1, r2 \in 0..(C - 1) :
    C * q1 + r1 = C * q2 + r2 => q1 = q2 /\ r1 = r2
OBVIOUS

LEMMA RemainderGoesRound == \A C \in Nat \ {0} : \A a \in Nat : (a + C) % C = a % C
<1> TAKE C \in Nat \ {0}
<1> TAKE a \in Nat
<1> DEFINE b == a + C  p == a \div C  r == a % C  q == b \div C  s == b % C
<1>1. p \in Nat /\ a = C * p + r /\ r \in 0..(C - 1)
  BY Division
<1>2. b \in Nat
  OBVIOUS
<1>3. q \in Nat /\ b = C * q + s /\ s \in 0..(C - 1)
  BY <1>2, Division
<1>4. b = a + C
  OBVIOUS
<1> HIDE DEF b, p, r, q, s
<1>5. C * q + s = C * (p + 1) + r /\ p + 1 \in Nat
  BY <1>1, <1>3, <1>4
<1>6. s = r
  BY <1>1, <1>3, <1>5, DivisionIsUnique
<1> QED
  BY <1>6 DEF s, r, b

LEMMA RemainderTellsApart ==
  \A C \in Nat \ {0} : \A a, b \in Nat :
    a <= b /\ b - a < C /\ a % C = b % C => a = b
<1> TAKE C \in Nat \ {0}
<1> TAKE a, b \in Nat
<1> HAVE a <= b /\ b - a < C /\ a % C = b % C
<1> DEFINE p == a \div C  q == b \div C  r == a % C
<1>1. p \in Nat /\ q \in Nat /\ a = C * p + r /\ b = C * q + r /\ r \in 0..(C - 1)
  BY Division
<1> HIDE DEF p, q, r
<1>2. C * (q - p) < C /\ 0 <= C * (q - p)
  BY <1>1
<1>3. q - p = 0
  BY <1>1, <1>2
<1> QED
  BY <1>1, <1>3

-----------------------------------------------------------------------------
(* The cell of a position, and what is used of it.                         *)
Cell(n) == n % Capacity

Cells == 0..(Capacity - 1)

LEMMA CellInCells == \A n \in Nat : Cell(n) \in Cells
BY Division, CapacityAssumption DEF Cell, Cells

LEMMA NextLap == \A n \in Nat : Cell(n + Capacity) = Cell(n)
BY RemainderGoesRound, CapacityAssumption DEF Cell

LEMMA SameCell ==
  \A a, b \in Nat : Cell(a) = Cell(b) /\ a < b + Capacity /\ b < a + Capacity => a = b
<1> TAKE a, b \in Nat
<1> HAVE Cell(a) = Cell(b) /\ a < b + Capacity /\ b < a + Capacity
<1>1. Capacity \in Nat \ {0}
  BY CapacityAssumption
<1>2. CASE a <= b
  <2>1. b - a < Capacity
    BY <1>1
  <2> QED
    BY <1>1, <1>2, <2>1, RemainderTellsApart DEF Cell
<1>3. CASE b <= a
  <2>1. a - b < Capacity
    BY <1>1
  <2> QED
    BY <1>1, <1>3, <2>1, RemainderTellsApart DEF Cell
<1> QED
  BY <1>2, <1>3

(* The code asks for a power of 2, and 1 is one. *)
SeveralCells == Capacity > 1

LEMMA NeighbourIsElsewhere ==
  ASSUME SeveralCells, NEW n \in Nat
  PROVE  Cell(n) # Cell(n + 1)
<1>1. n + 1 \in Nat /\ n + 1 < n + Capacity /\ n < n + 1 + Capacity /\ n # n + 1
  BY CapacityAssumption DEF SeveralCells
<1> QED
  BY <1>1, SameCell

-----------------------------------------------------------------------------
(* The inductive invariant                                                 *)

(* Whose turn the cell of position n is.                                   *)
ForProducer(n) == sequence[Cell(n)] = n
ForConsumer(n) == sequence[Cell(n)] = n + 1

(* Every cell waits for one thread or the other, in some lap.              *)
Turns ==
  \A cell \in Cells : \E n \in Nat : Cell(n) = cell /\ (ForProducer(n) \/ ForConsumer(n))

(* The counters are at most a lap ahead of the turn of any cell.           *)
InLap(n) == m_enqueue_pos <= n + Capacity /\ n < m_dequeue_pos + Capacity

(* A position that waits for its producer was not read, and if it is       *)
(* reserved, then by a producer that has not handed it on.                 *)
FreeCells ==
  \A n \in Nat : ForProducer(n) =>
    /\ InLap(n) /\ m_dequeue_pos <= n
    /\ n < m_enqueue_pos => \E p \in Producers : p \in Owners /\ pos[p] = n

(* A position that waits for its consumer holds the item that was pushed   *)
(* for it, and if it is reserved for reading, then by such a consumer.     *)
FilledCells ==
  \A n \in Nat : ForConsumer(n) =>
    /\ InLap(n) /\ n < m_enqueue_pos
    /\ n < m_dequeue_pos => \E c \in Consumers : c \in Owners /\ pos[c] = n
    /\ data[Cell(n)] = pushed[n + 1]

Counters ==
  m_dequeue_pos <= m_enqueue_pos /\ m_enqueue_pos <= m_dequeue_pos + Capacity

(* A thread that won a position has its turn, and nobody else has it.      *)
OwnersTurn ==
  \A t \in Owners : sequence[CellOf(t)] = Wanted(t) /\ pos[t] < Counter(t)

OwnPositions ==
  \A t, u \in Owners :
    t # u /\ (t \in Producers <=> u \in Producers) => pos[t] # pos[u]

(* A thread about to compete saw its turn: it may have passed since.       *)
SeenTurn == \A t \in Threads : pc[t] = "reserve" => Wanted(t) <= sequence[CellOf(t)]

WrittenIsPushed ==
  \A p \in Producers : pc[p] = "hand_on" => data[CellOf(p)] = pushed[pos[p] + 1]

(* The sequence number of a cell only grows. *)
HadIsPast == \A cell \in Cells : \A seq \in had[cell] : seq <= sequence[cell]

IInv ==
  /\ SeveralCells
  /\ TypeOK
  /\ Turns /\ FreeCells /\ FilledCells /\ Counters
  /\ OwnersTurn /\ OwnPositions /\ SeenTurn
  /\ WrittenIsPushed /\ ReadsOwnItem
  /\ HadIsPast

-----------------------------------------------------------------------------
(* Facts every step below uses.                                            *)
LEMMA Ranges ==
  ASSUME TypeOK
  PROVE  /\ m_enqueue_pos \in Nat /\ m_dequeue_pos \in Nat
         /\ pushed \in Seq(Items) /\ Len(pushed) = m_enqueue_pos
         /\ Capacity \in Nat /\ Capacity > 0
         /\ \A t \in Threads : /\ pos[t] \in Nat /\ CellOf(t) = Cell(pos[t])
                               /\ Cell(pos[t]) \in Cells /\ Counter(t) \in Nat
         /\ \A p \in Producers : p \in Threads /\ p \notin Consumers
         /\ \A c \in Consumers : c \in Threads /\ c \notin Producers
         /\ \A t \in Owners : t \in Threads
<1>1. pushed \in Seq(Items) /\ m_enqueue_pos = Len(pushed) /\ m_dequeue_pos \in Nat
  BY DEF TypeOK
<1>2. m_enqueue_pos \in Nat
  BY <1>1, LenProperties
<1>3. \A t \in Threads : pos[t] \in Nat
  BY DEF TypeOK
<1>4. \A t \in Threads : CellOf(t) = Cell(pos[t]) /\ Cell(pos[t]) \in Cells
  BY <1>3, CellInCells DEF CellOf, Cell
<1>5. \A t \in Threads : Counter(t) \in Nat
  BY <1>1, <1>2 DEF Counter
<1>6. Capacity \in Nat /\ Capacity > 0 /\ Producers \cap Consumers = {}
  BY CapacityAssumption
<1>7. /\ \A p \in Producers : p \in Threads /\ p \notin Consumers
      /\ \A c \in Consumers : c \in Threads /\ c \notin Producers
      /\ \A t \in Owners : t \in Threads
  BY <1>6 DEF Threads, Owners
<1> QED
  BY <1>1, <1>2, <1>3, <1>4, <1>5, <1>6, <1>7

(* A cell waits for one thread only.                                       *)
LEMMA OneTurn ==
  ASSUME SeveralCells, NEW a \in Nat, NEW b \in Nat, Cell(a) = Cell(b)
  PROVE  /\ ~(ForProducer(a) /\ ForConsumer(b))
         /\ ForProducer(a) /\ ForProducer(b) => a = b
         /\ ForConsumer(a) /\ ForConsumer(b) => a = b
<1>1. ASSUME ForProducer(a), ForConsumer(b) PROVE FALSE
  <2>1. a = b + 1
    BY <1>1 DEF ForProducer, ForConsumer
  <2> QED
    BY <2>1, NeighbourIsElsewhere
<1> QED
  BY <1>1 DEF ForProducer, ForConsumer

(* What the sequence numbers show of an owner's cell.                      *)
LEMMA OwnersCell ==
  ASSUME IInv, NEW t \in Owners
  PROVE  /\ t \in Producers => ForProducer(pos[t]) /\ pos[t] < m_enqueue_pos
         /\ t \in Consumers => ForConsumer(pos[t]) /\ pos[t] < m_dequeue_pos
<1>1. sequence[Cell(pos[t])] = Wanted(t) /\ pos[t] < Counter(t)
  BY Ranges DEF IInv, OwnersTurn
<1> QED
  BY <1>1, Ranges DEF IInv, Wanted, Counter, ForProducer, ForConsumer

LEMMA IInvCellsNotShared == IInv => CellsNotShared
<1> SUFFICES ASSUME IInv, NEW t \in Owners, NEW u \in Owners, t # u, CellOf(t) = CellOf(u)
             PROVE  FALSE
  BY DEF CellsNotShared
<1>1. /\ pos[t] \in Nat /\ pos[u] \in Nat /\ Cell(pos[t]) = Cell(pos[u])
      /\ t \in Threads /\ u \in Threads
  BY Ranges DEF IInv
<1>2. (t \in Producers <=> u \in Producers) => pos[t] # pos[u]
  BY DEF IInv, OwnPositions
<1>3. t \in Producers \/ t \in Consumers
  BY <1>1 DEF Threads
<1>4. u \in Producers \/ u \in Consumers
  BY <1>1 DEF Threads
<1>5. \A w \in {t, u} : w \in Consumers => w \notin Producers
  BY Ranges DEF IInv
<1> QED
  BY <1>1, <1>2, <1>3, <1>4, <1>5, OwnersCell, OneTurn DEF IInv

-----------------------------------------------------------------------------
LEMMA InitIInv ==
  ASSUME SeveralCells, Init
  PROVE  IInv
<1>1. TypeOK
  BY CapacityAssumption DEF Init, TypeOK
<1>2. Owners = {} /\ m_enqueue_pos = 0 /\ m_dequeue_pos = 0
  BY DEF Init, Owners
<1>3. \A cell \in Cells : sequence[cell] = cell /\ Cell(cell) = cell
  <2> TAKE cell \in Cells
  <2>1. Capacity \in Nat \ {0} /\ cell \in Nat /\ cell \in 0..(Capacity - 1)
    BY CapacityAssumption DEF Cells
  <2>2. Cell(cell) = cell
    <3> DEFINE q == cell \div Capacity  r == cell % Capacity
    <3>1. q \in Nat /\ r \in 0..(Capacity - 1) /\ cell = Capacity * q + r
      BY <2>1, Division
    <3> HIDE DEF q, r
    <3>2. cell = Capacity * 0 + cell /\ 0 \in Nat
      BY <2>1
    <3>3. Capacity * q + r = Capacity * 0 + cell
      BY <3>1, <3>2
    <3>4. r = cell
      BY <2>1, <3>1, <3>2, <3>3, DivisionIsUnique
    <3> QED
      BY <3>4 DEF r, Cell
  <2> QED
    BY <2>2 DEF Init, Cells
<1>4. \A n \in Nat : Cell(n) \in Cells
  BY CellInCells
<1>5. \A n \in Nat : ForProducer(n) => n \in Cells
  BY <1>3, <1>4 DEF ForProducer
<1>6. \A n \in Nat : ~ForConsumer(n)
  <2> SUFFICES ASSUME NEW n \in Nat, ForConsumer(n) PROVE FALSE
    OBVIOUS
  <2>1. Cell(n) = n + 1 /\ Cell(n + 1) = n + 1
    BY <1>3, <1>4 DEF ForConsumer
  <2> QED
    BY <2>1, NeighbourIsElsewhere
<1>7. Turns
  <2>1. \A cell \in Cells : cell \in Nat /\ ForProducer(cell)
    BY <1>3 DEF ForProducer, Cells
  <2> QED
    BY <1>3, <2>1 DEF Turns
<1>8. FreeCells /\ FilledCells
  <2>1. \A n \in Cells : InLap(n) /\ 0 <= n
    BY <1>2, CapacityAssumption DEF InLap, Cells
  <2> QED
    BY <1>2, <1>5, <1>6, <2>1 DEF FreeCells, FilledCells
<1>9. Counters
  BY <1>2, CapacityAssumption DEF Counters
<1>10. OwnersTurn /\ OwnPositions
  BY <1>2 DEF OwnersTurn, OwnPositions
<1>11. SeenTurn /\ WrittenIsPushed /\ ReadsOwnItem
  BY DEF Init, SeenTurn, WrittenIsPushed, ReadsOwnItem, Threads
<1>12. HadIsPast
  BY <1>3 DEF Init, HadIsPast, Cells
<1> QED
  BY <1>1, <1>7, <1>8, <1>9, <1>10, <1>11, <1>12 DEF IInv

(* A step of the loop changes the label and the position of one thread     *)
(* that owns no cell.                                                      *)
LEMMA LoopStep ==
  ASSUME IInv, NEW t \in Threads, t \notin Owners,
         NEW label \in {"idle", "look", "reserve"}, NEW n \in Nat,
         Goto(t, label), pos' = [pos EXCEPT ![t] = n],
         label = "reserve" => Wanted(t)' <= sequence[Cell(n)],
         UNCHANGED <<sequence, data, m_enqueue_pos, m_dequeue_pos, out_data, pushed, had>>
  PROVE  IInv'
<1>1. TypeOK
  BY DEF IInv
<1>2. TypeOK'
  BY <1>1 DEF TypeOK, Goto
<1>3. /\ pos'[t] = n /\ pc'[t] = label
      /\ \A u \in Threads : u # t => pos'[u] = pos[u] /\ pc'[u] = pc[u]
  BY <1>1 DEF TypeOK, Goto
<1>4. Owners' = Owners /\ \A u \in Owners : u \in Threads /\ pos'[u] = pos[u] /\ pc'[u] = pc[u]
  BY <1>3 DEF Owners
<1>5. Producers \subseteq Threads /\ Consumers \subseteq Threads
  BY DEF Threads
<1>6. (Turns /\ Counters)'
  BY DEF IInv, Turns, Counters, ForProducer, ForConsumer
<1>7. FreeCells'
  BY <1>4 DEF IInv, FreeCells, ForProducer, InLap
<1>8. FilledCells'
  BY <1>4 DEF IInv, FilledCells, ForConsumer, InLap
<1>9. OwnersTurn'
  BY <1>4 DEF IInv, OwnersTurn, CellOf, Wanted, Counter
<1>10. OwnPositions'
  BY <1>4 DEF IInv, OwnPositions
<1>11. SeenTurn'
  <2> SUFFICES ASSUME NEW u \in Threads, pc'[u] = "reserve"
               PROVE  Wanted(u)' <= sequence[CellOf(u)']
    BY DEF SeenTurn
  <2>1. CASE u = t
    BY <1>3, <2>1 DEF CellOf, Cell
  <2>2. CASE u # t
    BY <1>3, <2>2 DEF IInv, SeenTurn, CellOf, Wanted
  <2> QED
    BY <2>1, <2>2
<1>12. (WrittenIsPushed /\ ReadsOwnItem)'
  <2>1. \A u \in Threads : pc'[u] = "hand_on" => u \in Owners /\ pc[u] = "hand_on"
    BY <1>3 DEF Owners
  <2> QED
    BY <1>4, <1>5, <2>1 DEF IInv, WrittenIsPushed, ReadsOwnItem, CellOf
<1>13. HadIsPast'
  BY DEF IInv, HadIsPast
<1> QED
  BY <1>2, <1>6, <1>7, <1>8, <1>9, <1>10, <1>11, <1>12, <1>13 DEF IInv

LEMMA LoopIInv ==
  ASSUME IInv, NEW t \in Threads, Load(t) \/ Look(t) \/ ReserveFails(t)
  PROVE  IInv'
<1>1. TypeOK /\ pos[t] \in Nat /\ Counter(t) \in Nat
  BY Ranges DEF IInv
<1>2. pos' = [pos EXCEPT ![t] = pos[t]] \/ ~UNCHANGED pos
  BY <1>1 DEF TypeOK
<1>3. CASE Load(t)
  <2>1. t \notin Owners
    BY <1>3 DEF Load, Owners
  <2>2. PICK p \in 0..Counter(t) : pos' = [pos EXCEPT ![t] = p]
    BY <1>3 DEF Load
  <2>3. p \in Nat
    BY <1>1
  <2>4. Goto(t, "look") /\ UNCHANGED <<sequence, data, m_enqueue_pos, m_dequeue_pos, out_data, pushed, had>>
    BY <1>3 DEF Load
  <2> QED
    BY <2>1, <2>2, <2>3, <2>4, LoopStep
<1>4. CASE ReserveFails(t)
  <2>1. t \notin Owners
    BY <1>4 DEF ReserveFails, Owners
  <2>2. PICK p \in 0..Counter(t) : pos' = [pos EXCEPT ![t] = p]
    BY <1>4 DEF ReserveFails
  <2>3. p \in Nat
    BY <1>1
  <2>4. Goto(t, "look")
        /\ UNCHANGED <<sequence, data, m_enqueue_pos, m_dequeue_pos, out_data, pushed, had>>
    BY <1>4 DEF ReserveFails
  <2> QED
    BY <2>1, <2>2, <2>3, <2>4, LoopStep
<1>5. CASE Look(t)
  <2>1. t \notin Owners
    BY <1>5 DEF Look, Owners
  <2>2. UNCHANGED <<sequence, data, m_enqueue_pos, m_dequeue_pos, out_data, pushed, had>>
    BY <1>5 DEF Look
  <2>3. PICK seq \in SequenceLoads(CellOf(t)) :
          \/ seq = Wanted(t) /\ Goto(t, "reserve") /\ UNCHANGED pos
          \/ seq < Wanted(t) /\ Goto(t, "idle") /\ UNCHANGED pos
          \/ /\ seq > Wanted(t)
             /\ \E p \in 0..Counter(t) : pos' = [pos EXCEPT ![t] = p]
             /\ UNCHANGED pc
    BY <1>5 DEF Look
  <2>4. CASE seq = Wanted(t) /\ Goto(t, "reserve") /\ UNCHANGED pos
    <3>1. CellOf(t) = Cell(pos[t]) /\ Cell(pos[t]) \in Cells
      BY <1>1, Ranges
    <3>2. sequence[Cell(pos[t])] \in Nat
      BY <1>1, <3>1 DEF TypeOK, Cells
    <3>3. seq <= sequence[Cell(pos[t])]
      BY <3>1 DEF SequenceLoads, IInv, HadIsPast
    <3>4. Wanted(t)' = Wanted(t)
      BY <2>4 DEF Wanted
    <3> QED
      BY <1>1, <1>2, <2>1, <2>2, <2>4, <3>3, <3>4, LoopStep
  <2>5. CASE seq < Wanted(t) /\ Goto(t, "idle") /\ UNCHANGED pos
    BY <1>1, <1>2, <2>1, <2>2, <2>5, LoopStep
  <2>6. CASE /\ seq > Wanted(t)
             /\ \E p \in 0..Counter(t) : pos' = [pos EXCEPT ![t] = p]
             /\ UNCHANGED pc
    <3>1. Goto(t, "look")
      BY <1>1, <1>5, <2>6 DEF Look, Goto, TypeOK
    <3>2. PICK p \in 0..Counter(t) : pos' = [pos EXCEPT ![t] = p]
      BY <2>6
    <3>3. p \in Nat
      BY <1>1
    <3> QED
      BY <2>1, <2>2, <3>1, <3>2, <3>3, LoopStep
  <2> QED
    BY <2>3, <2>4, <2>5, <2>6
<1> QED
  BY <1>3, <1>4, <1>5

-----------------------------------------------------------------------------
(* A thread that saw its turn and finds the counter where it was competes  *)
(* for a cell that still waits for it.                                     *)
LEMMA ProducerHasTurn ==
  ASSUME IInv, NEW p \in Producers, pc[p] = "reserve", m_enqueue_pos = pos[p]
  PROVE  ForProducer(m_enqueue_pos) /\ m_enqueue_pos < m_dequeue_pos + Capacity
<1> DEFINE e == m_enqueue_pos
<1>1. /\ e \in Nat /\ m_dequeue_pos \in Nat /\ Capacity \in Nat /\ Cell(e) \in Cells
      /\ p \in Threads /\ CellOf(p) = Cell(e) /\ m_dequeue_pos <= e
  BY Ranges DEF IInv, Counters
<1>2. PICK n \in Nat : Cell(n) = Cell(e) /\ (ForProducer(n) \/ ForConsumer(n))
  BY <1>1 DEF IInv, Turns
<1>3. e <= sequence[Cell(n)]
  BY <1>1, <1>2 DEF IInv, SeenTurn, Wanted
<1>4. CASE ForConsumer(n)
  <2>1. n < e /\ e <= n + 1
    BY <1>3, <1>4 DEF IInv, FilledCells, ForConsumer
  <2>2. e = n + 1
    BY <1>1, <2>1
  <2> QED
    BY <1>2, <2>2, NeighbourIsElsewhere DEF IInv
<1>5. CASE ForProducer(n)
  <2>1. e <= n /\ n < m_dequeue_pos + Capacity
    BY <1>3, <1>5 DEF IInv, FreeCells, ForProducer, InLap
  <2>2. n = e
    <3>1. n < e + Capacity /\ e < n + Capacity
      BY <1>1, <2>1, CapacityAssumption
    <3> QED
      BY <1>1, <1>2, <3>1, SameCell
  <2> QED
    BY <1>5, <2>1, <2>2
<1> QED
  BY <1>2, <1>4, <1>5

LEMMA ConsumerHasTurn ==
  ASSUME IInv, NEW c \in Consumers, pc[c] = "reserve", m_dequeue_pos = pos[c]
  PROVE  ForConsumer(m_dequeue_pos) /\ m_dequeue_pos < m_enqueue_pos
<1> DEFINE d == m_dequeue_pos
<1>1. /\ d \in Nat /\ m_enqueue_pos \in Nat /\ Capacity \in Nat /\ Cell(d) \in Cells
      /\ c \in Threads /\ c \notin Producers /\ CellOf(c) = Cell(d)
  BY Ranges DEF IInv
<1>2. PICK n \in Nat : Cell(n) = Cell(d) /\ (ForProducer(n) \/ ForConsumer(n))
  BY <1>1 DEF IInv, Turns
<1>3. d + 1 <= sequence[Cell(n)]
  BY <1>1, <1>2 DEF IInv, SeenTurn, Wanted
<1>4. CASE ForProducer(n)
  <2>1. d < n /\ n < d + Capacity
    BY <1>1, <1>3, <1>4 DEF IInv, FreeCells, ForProducer, InLap
  <2>2. n < d + Capacity /\ d < n + Capacity
    BY <1>1, <2>1
  <2> QED
    BY <1>1, <1>2, <2>1, <2>2, SameCell
<1>5. CASE ForConsumer(n)
  <2>1. d <= n /\ n < d + Capacity /\ n < m_enqueue_pos
    BY <1>1, <1>3, <1>5 DEF IInv, FilledCells, ForConsumer, InLap
  <2>2. n = d
    <3>1. n < d + Capacity /\ d < n + Capacity
      BY <1>1, <2>1, CapacityAssumption
    <3> QED
      BY <1>1, <1>2, <3>1, SameCell
  <2> QED
    BY <1>5, <2>1, <2>2
<1> QED
  BY <1>2, <1>4, <1>5

(* After a step of thread t that only moves its label.                     *)
LEMMA OtherThreads ==
  ASSUME TypeOK, NEW t \in Threads, NEW label, Goto(t, label)
  PROVE  pc'[t] = label /\ \A u \in Threads : u # t => pc'[u] = pc[u]
BY DEF TypeOK, Goto

LEMMA EnqueueIInv ==
  ASSUME IInv, NEW p \in Producers, Enqueue(p)
  PROVE  IInv'
<1> DEFINE e == m_enqueue_pos
<1>1. /\ TypeOK /\ p \in Threads /\ e \in Nat /\ m_dequeue_pos \in Nat
      /\ Capacity \in Nat /\ Capacity > 0
      /\ pushed \in Seq(Items) /\ Len(pushed) = e
  BY Ranges DEF IInv
<1>2. /\ pos[p] = e /\ m_enqueue_pos' = e + 1 /\ pc[p] = "reserve" /\ Goto(p, "access")
      /\ UNCHANGED <<sequence, data, m_dequeue_pos, pos, out_data, had>>
  BY DEF Enqueue
<1>3. PICK item \in Items : pushed' = Append(pushed, item)
  BY DEF Enqueue
<1>4. /\ pushed' \in Seq(Items) /\ Len(pushed') = e + 1
      /\ \A n \in Nat : n < e => pushed'[n + 1] = pushed[n + 1]
  BY <1>1, <1>3
<1>5. pc'[p] = "access" /\ \A u \in Threads : u # p => pc'[u] = pc[u]
  BY <1>1, <1>2, OtherThreads
<1>6. /\ Owners' = Owners \cup {p} /\ p \notin Owners
      /\ \A u \in Owners : u \in Threads
  BY <1>1, <1>2, <1>5 DEF Owners
<1>7. ForProducer(e) /\ e < m_dequeue_pos + Capacity
  BY <1>2, ProducerHasTurn
<1>8. TypeOK'
  BY <1>1, <1>2, <1>4, <1>5 DEF TypeOK, Goto
<1>9. Turns'
  BY <1>2 DEF IInv, Turns, ForProducer, ForConsumer
<1>10. ASSUME NEW n \in Nat, ForProducer(n) \/ ForConsumer(n)
       PROVE  InLap(n)'
  <2>1. InLap(n)
    BY <1>10 DEF IInv, FreeCells, FilledCells
  <2>2. e # n + Capacity
    <3>1. ASSUME e = n + Capacity PROVE FALSE
      <4>1. Cell(e) = Cell(n)
        BY <3>1, NextLap
      <4>2. e = n
        BY <1>1, <1>7, <1>10, <4>1, OneTurn DEF IInv
      <4> QED
        BY <1>1, <3>1, <4>2
    <3> QED
      BY <3>1
  <2> QED
    BY <1>1, <1>2, <2>1, <2>2 DEF InLap
<1>11. FreeCells'
  <2> SUFFICES ASSUME NEW n \in Nat, ForProducer(n)
               PROVE  /\ InLap(n)' /\ m_dequeue_pos <= n
                      /\ n < e + 1 => \E q \in Producers : q \in Owners' /\ pos[q] = n
    BY <1>2 DEF FreeCells, ForProducer
  <2>1. /\ m_dequeue_pos <= n
        /\ n < e => \E q \in Producers : q \in Owners /\ pos[q] = n
    BY DEF IInv, FreeCells
  <2>2. n < e + 1 => n < e \/ n = e
    BY <1>1
  <2> QED
    BY <1>2, <1>6, <1>10, <2>1, <2>2
<1>12. FilledCells'
  <2> SUFFICES ASSUME NEW n \in Nat, ForConsumer(n)
               PROVE  /\ InLap(n)' /\ n < e + 1
                      /\ n < m_dequeue_pos => \E c \in Consumers : c \in Owners' /\ pos[c] = n
                      /\ data[Cell(n)] = pushed'[n + 1]
    BY <1>2 DEF FilledCells, ForConsumer
  <2>1. /\ n < e /\ data[Cell(n)] = pushed[n + 1]
        /\ n < m_dequeue_pos => \E c \in Consumers : c \in Owners /\ pos[c] = n
    BY DEF IInv, FilledCells
  <2> QED
    BY <1>1, <1>4, <1>6, <1>10, <2>1
<1>13. Counters'
  BY <1>1, <1>2, <1>7 DEF IInv, Counters
<1>14. OwnersTurn'
  <2> SUFFICES ASSUME NEW u \in Owners'
               PROVE  sequence[CellOf(u)] = Wanted(u) /\ pos[u] < Counter(u)'
    BY <1>2 DEF OwnersTurn, CellOf, Wanted
  <2>1. CASE u = p
    BY <1>1, <1>2, <1>7, <2>1 DEF ForProducer, Cell, CellOf, Wanted, Counter
  <2>2. CASE u \in Owners
    <3>1. sequence[CellOf(u)] = Wanted(u) /\ pos[u] < Counter(u) /\ pos[u] \in Nat
      BY <1>6, <2>2, Ranges DEF IInv, OwnersTurn
    <3>2. pos[u] < Counter(u)'
      BY <1>1, <1>2, <3>1 DEF Counter
    <3> QED
      BY <3>1, <3>2
  <2> QED
    BY <1>6, <2>1, <2>2
<1>15. OwnPositions'
  <2>1. \A u \in Owners : u \in Producers => pos[u] # e
    <3> SUFFICES ASSUME NEW u \in Owners, u \in Producers PROVE pos[u] # e
      OBVIOUS
    <3>1. pos[u] < e /\ pos[u] \in Nat
      BY <1>6, OwnersCell, Ranges DEF IInv
    <3> QED
      BY <1>1, <3>1
  <2> QED
    BY <1>2, <1>6, <2>1 DEF IInv, OwnPositions
<1>16. SeenTurn'
  <2>1. \A u \in Threads : pc'[u] = "reserve" => pc[u] = "reserve"
    BY <1>5
  <2> QED
    BY <1>2, <2>1 DEF IInv, SeenTurn, Wanted, CellOf
<1>17. (WrittenIsPushed /\ ReadsOwnItem)'
  <2>1. ASSUME NEW u \in Threads, pc'[u] = "hand_on"
        PROVE  pc[u] = "hand_on" /\ pushed'[pos[u] + 1] = pushed[pos[u] + 1]
    <3>1. pc[u] = "hand_on" /\ u \in Owners
      BY <1>5, <2>1 DEF Owners
    <3>2. pos[u] \in Nat /\ (u \in Producers \/ u \in Consumers)
      BY Ranges DEF IInv, Threads
    <3>3. pos[u] < e
      BY <1>1, <3>1, <3>2, OwnersCell DEF IInv, Counters
    <3> QED
      BY <1>4, <3>1, <3>2, <3>3
  <2>2. Producers \subseteq Threads /\ Consumers \subseteq Threads
    BY DEF Threads
  <2> QED
    BY <1>2, <2>1, <2>2 DEF IInv, WrittenIsPushed, ReadsOwnItem, CellOf
<1>18. HadIsPast'
  BY <1>2 DEF IInv, HadIsPast
<1> QED
  BY <1>8, <1>9, <1>11, <1>12, <1>13, <1>14, <1>15, <1>16, <1>17, <1>18 DEF IInv

LEMMA DequeueIInv ==
  ASSUME IInv, NEW c \in Consumers, Dequeue(c)
  PROVE  IInv'
<1> DEFINE d == m_dequeue_pos
<1>1. /\ TypeOK /\ c \in Threads /\ c \notin Producers /\ d \in Nat /\ m_enqueue_pos \in Nat
      /\ Capacity \in Nat /\ Capacity > 0
  BY Ranges DEF IInv
<1>2. /\ pos[c] = d /\ m_dequeue_pos' = d + 1 /\ pc[c] = "reserve" /\ Goto(c, "access")
      /\ UNCHANGED <<sequence, data, m_enqueue_pos, pos, out_data, pushed, had>>
  BY DEF Dequeue
<1>3. pc'[c] = "access" /\ \A u \in Threads : u # c => pc'[u] = pc[u]
  BY <1>1, <1>2, OtherThreads
<1>4. /\ Owners' = Owners \cup {c} /\ c \notin Owners
      /\ \A u \in Owners : u \in Threads
  BY <1>1, <1>2, <1>3 DEF Owners
<1>5. ForConsumer(d) /\ d < m_enqueue_pos
  BY <1>2, ConsumerHasTurn
<1>6. TypeOK'
  BY <1>1, <1>2, <1>3 DEF TypeOK, Goto
<1>7. Turns'
  BY <1>2 DEF IInv, Turns, ForProducer, ForConsumer
<1>8. \A n \in Nat : InLap(n) => InLap(n)'
  BY <1>1, <1>2 DEF InLap
<1>9. FreeCells'
  <2> SUFFICES ASSUME NEW n \in Nat, ForProducer(n)
               PROVE  /\ InLap(n)' /\ d + 1 <= n
                      /\ n < m_enqueue_pos => \E p \in Producers : p \in Owners' /\ pos[p] = n
    BY <1>2 DEF FreeCells, ForProducer
  <2>1. /\ InLap(n) /\ d <= n
        /\ n < m_enqueue_pos => \E p \in Producers : p \in Owners /\ pos[p] = n
    BY DEF IInv, FreeCells
  <2>2. n # d
    BY <1>1, <1>5, OneTurn DEF IInv
  <2>3. d + 1 <= n
    BY <1>1, <2>1, <2>2
  <2> QED
    BY <1>4, <1>8, <2>1, <2>3
<1>10. FilledCells'
  <2> SUFFICES ASSUME NEW n \in Nat, ForConsumer(n)
               PROVE  /\ InLap(n)' /\ n < m_enqueue_pos
                      /\ n < d + 1 => \E u \in Consumers : u \in Owners' /\ pos[u] = n
                      /\ data[Cell(n)] = pushed[n + 1]
    BY <1>2 DEF FilledCells, ForConsumer
  <2>1. /\ InLap(n) /\ n < m_enqueue_pos /\ data[Cell(n)] = pushed[n + 1]
        /\ n < d => \E u \in Consumers : u \in Owners /\ pos[u] = n
    BY DEF IInv, FilledCells
  <2>2. n < d + 1 => n < d \/ n = d
    BY <1>1
  <2> QED
    BY <1>2, <1>4, <1>8, <2>1, <2>2
<1>11. Counters'
  BY <1>1, <1>2, <1>5 DEF IInv, Counters
<1>12. OwnersTurn'
  <2> SUFFICES ASSUME NEW u \in Owners'
               PROVE  sequence[CellOf(u)] = Wanted(u) /\ pos[u] < Counter(u)'
    BY <1>2 DEF OwnersTurn, CellOf, Wanted
  <2>1. CASE u = c
    BY <1>1, <1>2, <1>5, <2>1 DEF ForConsumer, Cell, CellOf, Wanted, Counter
  <2>2. CASE u \in Owners
    <3>1. sequence[CellOf(u)] = Wanted(u) /\ pos[u] < Counter(u) /\ pos[u] \in Nat
      BY <1>4, <2>2, Ranges DEF IInv, OwnersTurn
    <3>2. pos[u] < Counter(u)'
      BY <1>1, <1>2, <3>1 DEF Counter
    <3> QED
      BY <3>1, <3>2
  <2> QED
    BY <1>4, <2>1, <2>2
<1>13. OwnPositions'
  <2>1. ASSUME NEW u \in Owners, u \notin Producers PROVE pos[u] # d
    <3>1. u \in Threads /\ u \in Consumers /\ pos[u] \in Nat
      BY <1>4, <2>1, Ranges DEF IInv, Threads
    <3>2. pos[u] < d
      BY <3>1, OwnersCell
    <3> QED
      BY <1>1, <3>1, <3>2
  <2> QED
    BY <1>1, <1>2, <1>4, <2>1 DEF IInv, OwnPositions
<1>14. SeenTurn'
  <2>1. \A u \in Threads : pc'[u] = "reserve" => pc[u] = "reserve"
    BY <1>3
  <2> QED
    BY <1>2, <2>1 DEF IInv, SeenTurn, Wanted, CellOf
<1>15. (WrittenIsPushed /\ ReadsOwnItem)'
  <2>1. \A u \in Threads : pc'[u] = "hand_on" => pc[u] = "hand_on"
    BY <1>3
  <2>2. Producers \subseteq Threads /\ Consumers \subseteq Threads
    BY DEF Threads
  <2> QED
    BY <1>2, <2>1, <2>2 DEF IInv, WrittenIsPushed, ReadsOwnItem, CellOf
<1>16. HadIsPast'
  BY <1>2 DEF IInv, HadIsPast
<1> QED
  BY <1>6, <1>7, <1>9, <1>10, <1>11, <1>12, <1>13, <1>14, <1>15, <1>16 DEF IInv

(* Access: the owners and the turns stay as they are.                      *)
LEMMA AccessStep ==
  ASSUME IInv, NEW t \in Owners, Goto(t, "hand_on"),
         UNCHANGED <<sequence, m_enqueue_pos, m_dequeue_pos, pos, pushed, had>>
  PROVE  /\ (Turns /\ Counters /\ FreeCells /\ OwnersTurn /\ OwnPositions /\ SeenTurn)'
         /\ Owners' = Owners
         /\ pc'[t] = "hand_on" /\ \A u \in Threads : u # t => pc'[u] = pc[u]
<1>1. TypeOK /\ t \in Threads
  BY DEF IInv, Owners
<1>2. pc'[t] = "hand_on" /\ \A u \in Threads : u # t => pc'[u] = pc[u]
  BY <1>1, OtherThreads
<1>3. Owners' = Owners
  BY <1>2 DEF Owners
<1>4. \A u \in Threads : pc'[u] = "reserve" => pc[u] = "reserve"
  BY <1>2
<1>5. (Turns /\ Counters)'
  BY DEF IInv, Turns, Counters, ForProducer, ForConsumer
<1>6. FreeCells'
  BY <1>3 DEF IInv, FreeCells, ForProducer, InLap
<1>7. OwnersTurn'
  BY <1>3 DEF IInv, OwnersTurn, CellOf, Wanted, Counter
<1>8. OwnPositions'
  BY <1>3 DEF IInv, OwnPositions
<1>9. SeenTurn'
  BY <1>4 DEF IInv, SeenTurn, CellOf, Wanted
<1> QED
  BY <1>2, <1>3, <1>5, <1>6, <1>7, <1>8, <1>9

LEMMA WriteIInv ==
  ASSUME IInv, NEW p \in Producers, Write(p)
  PROVE  IInv'
<1> DEFINE n == pos[p]  item == pushed[pos[p] + 1]
<1>1. /\ TypeOK /\ p \in Threads /\ p \notin Consumers /\ n \in Nat
      /\ CellOf(p) = Cell(n) /\ Cell(n) \in Cells
      /\ pushed \in Seq(Items) /\ Len(pushed) = m_enqueue_pos /\ m_enqueue_pos \in Nat
  BY Ranges DEF IInv
<1>2. /\ pc[p] = "access" /\ Goto(p, "hand_on")
      /\ UNCHANGED <<sequence, m_enqueue_pos, m_dequeue_pos, pos, out_data, pushed, had>>
  BY DEF Write
<1>3. p \in Owners
  BY <1>1, <1>2 DEF Owners
<1>4. ForProducer(n) /\ n < m_enqueue_pos
  BY <1>3, OwnersCell
<1>5. item \in Items
  <2>1. n + 1 \in 1..Len(pushed)
    BY <1>1, <1>4
  <2> QED
    BY <1>1, <2>1, ElementOfSeq
<1>6. /\ data' = [data EXCEPT ![Cell(n)] = item]
      /\ data \in [Cells -> Items \cup {NoItem}]
  BY <1>1 DEF Write, TypeOK, Cells
<1> HIDE DEF n, item
<1>7. data'[Cell(n)] = item /\ \A cell \in Cells : cell # Cell(n) => data'[cell] = data[cell]
  BY <1>1, <1>6
<1>8. TypeOK'
  <2>1. data' \in [Cells -> Items \cup {NoItem}]
    BY <1>5, <1>6
  <2> QED
    BY <1>1, <1>2, <2>1 DEF TypeOK, Cells, Goto
<1>9. /\ (Turns /\ Counters /\ FreeCells /\ OwnersTurn /\ OwnPositions /\ SeenTurn)'
      /\ Owners' = Owners
      /\ pc'[p] = "hand_on" /\ \A u \in Threads : u # p => pc'[u] = pc[u]
  BY <1>2, <1>3, AccessStep
<1>10. FilledCells'
  <2> SUFFICES ASSUME NEW k \in Nat, ForConsumer(k)
               PROVE  /\ InLap(k) /\ k < m_enqueue_pos
                      /\ k < m_dequeue_pos => \E c \in Consumers : c \in Owners /\ pos[c] = k
                      /\ data'[Cell(k)] = pushed[k + 1]
    BY <1>2, <1>9 DEF FilledCells, ForConsumer, InLap
  <2>1. Cell(k) # Cell(n)
    BY <1>1, <1>4, OneTurn DEF IInv
  <2>2. Cell(k) \in Cells
    BY CellInCells
  <2> QED
    BY <1>7, <2>1, <2>2 DEF IInv, FilledCells
<1>11. WrittenIsPushed'
  <2> SUFFICES ASSUME NEW q \in Producers, pc'[q] = "hand_on"
               PROVE  data'[CellOf(q)] = pushed[pos[q] + 1]
    BY <1>2 DEF WrittenIsPushed, CellOf
  <2>1. CASE q = p
    BY <1>1, <1>7, <2>1 DEF item, n
  <2>2. CASE q # p
    <3>1. q \in Threads /\ CellOf(q) \in Cells
      BY Ranges DEF IInv
    <3>2. pc[q] = "hand_on" /\ q \in Owners
      BY <1>9, <2>2, <3>1 DEF Owners
    <3>3. CellOf(q) # CellOf(p)
      BY <1>3, <2>2, <3>2, IInvCellsNotShared DEF CellsNotShared
    <3> QED
      BY <1>1, <1>7, <3>1, <3>2, <3>3 DEF IInv, WrittenIsPushed
  <2> QED
    BY <2>1, <2>2
<1>12. ReadsOwnItem'
  <2>1. \A c \in Consumers : c # p /\ c \in Threads
    BY <1>1 DEF Threads
  <2> QED
    BY <1>2, <1>9, <2>1 DEF IInv, ReadsOwnItem
<1>13. HadIsPast'
  BY <1>2 DEF IInv, HadIsPast
<1> QED
  BY <1>8, <1>9, <1>10, <1>11, <1>12, <1>13 DEF IInv

LEMMA ReadIInv ==
  ASSUME IInv, NEW c \in Consumers, Read(c)
  PROVE  IInv'
<1> DEFINE n == pos[c]
<1>1. /\ TypeOK /\ c \in Threads /\ c \notin Producers /\ n \in Nat
      /\ CellOf(c) = Cell(n) /\ Cell(n) \in Cells
  BY Ranges DEF IInv
<1>2. /\ pc[c] = "access" /\ Goto(c, "hand_on")
      /\ out_data' = [out_data EXCEPT ![c] = data[Cell(n)]]
      /\ UNCHANGED <<sequence, data, m_enqueue_pos, m_dequeue_pos, pos, pushed, had>>
  BY <1>1 DEF Read
<1>3. c \in Owners
  BY <1>1, <1>2 DEF Owners
<1>4. data[Cell(n)] = pushed[n + 1]
  BY <1>1, <1>3, OwnersCell DEF IInv, FilledCells
<1>5. data[Cell(n)] \in Items \cup {NoItem}
  BY <1>1 DEF TypeOK, Cells
<1>6. TypeOK'
  BY <1>1, <1>2, <1>5 DEF TypeOK, Goto
<1>7. /\ (Turns /\ Counters /\ FreeCells /\ OwnersTurn /\ OwnPositions /\ SeenTurn)'
      /\ Owners' = Owners
      /\ pc'[c] = "hand_on" /\ \A u \in Threads : u # c => pc'[u] = pc[u]
  BY <1>2, <1>3, AccessStep
<1>8. FilledCells'
  BY <1>2, <1>7 DEF IInv, FilledCells, ForConsumer, InLap
<1>9. WrittenIsPushed'
  <2>1. \A p \in Producers : p # c /\ p \in Threads
    BY <1>1 DEF Threads
  <2> QED
    BY <1>2, <1>7, <2>1 DEF IInv, WrittenIsPushed, CellOf
<1>10. ReadsOwnItem'
  <2> SUFFICES ASSUME NEW u \in Consumers, pc'[u] = "hand_on"
               PROVE  out_data'[u] = pushed[pos[u] + 1]
    BY <1>2 DEF ReadsOwnItem
  <2>1. out_data \in [Consumers -> Items \cup {NoItem}] /\ u \in Threads
    BY <1>1 DEF TypeOK, Threads
  <2>2. CASE u = c
    BY <1>2, <1>4, <2>1, <2>2
  <2>3. CASE u # c
    BY <1>2, <1>7, <2>1, <2>3 DEF IInv, ReadsOwnItem
  <2> QED
    BY <2>2, <2>3
<1>11. HadIsPast'
  BY <1>2 DEF IInv, HadIsPast
<1> QED
  BY <1>6, <1>7, <1>8, <1>9, <1>10, <1>11 DEF IInv

-----------------------------------------------------------------------------
(* What a hand-on does to the cell, and what it leaves.                    *)
LEMMA HandOnFacts ==
  ASSUME IInv, NEW t \in Threads, HandOn(t)
  PROVE  /\ t \in Owners /\ Owners' = Owners \ {t}
         /\ pos[t] \in Nat /\ HandedOn(t) \in Nat
         /\ sequence'[Cell(pos[t])] = HandedOn(t)
         /\ sequence[Cell(pos[t])] < HandedOn(t)
         /\ sequence' \in [Cells -> Nat]
         /\ \A cell \in Cells : cell # Cell(pos[t]) => sequence'[cell] = sequence[cell]
         /\ had' = [had EXCEPT ![Cell(pos[t])] = @ \cup {HandedOn(t)}]
         /\ \A u \in Owners' : CellOf(u) # Cell(pos[t])
         /\ \A u \in Threads : u # t => pc'[u] = pc[u]
         /\ pc'[t] = "idle"
         /\ UNCHANGED <<data, m_enqueue_pos, m_dequeue_pos, pos, out_data, pushed>>
<1> DEFINE n == pos[t]
<1>1. /\ TypeOK /\ n \in Nat /\ CellOf(t) = Cell(n) /\ Cell(n) \in Cells
      /\ Capacity \in Nat /\ Capacity > 1
  BY Ranges DEF IInv, SeveralCells
<1>2. /\ pc[t] = "hand_on" /\ Goto(t, "idle")
      /\ sequence' = [sequence EXCEPT ![Cell(n)] = HandedOn(t)]
      /\ had' = [had EXCEPT ![Cell(n)] = @ \cup {HandedOn(t)}]
      /\ UNCHANGED <<data, m_enqueue_pos, m_dequeue_pos, pos, out_data, pushed>>
  BY <1>1 DEF HandOn
<1>3. pc'[t] = "idle" /\ \A u \in Threads : u # t => pc'[u] = pc[u]
  BY <1>1, <1>2, OtherThreads
<1>4. t \in Owners /\ Owners' = Owners \ {t}
  BY <1>2, <1>3 DEF Owners
<1>5. HandedOn(t) \in Nat /\ Wanted(t) < HandedOn(t)
  BY <1>1 DEF HandedOn, Wanted
<1>6. sequence[Cell(n)] = Wanted(t)
  BY <1>1, <1>4 DEF IInv, OwnersTurn
<1>7. sequence \in [Cells -> Nat]
  BY <1>1 DEF TypeOK, Cells
<1>8. \A u \in Owners' : CellOf(u) # Cell(n)
  BY <1>1, <1>4, IInvCellsNotShared DEF CellsNotShared
<1> HIDE DEF n
<1>9. /\ sequence'[Cell(n)] = HandedOn(t) /\ sequence' \in [Cells -> Nat]
      /\ \A cell \in Cells : cell # Cell(n) => sequence'[cell] = sequence[cell]
  BY <1>1, <1>2, <1>5, <1>7
<1> QED
  BY <1>1, <1>2, <1>3, <1>4, <1>5, <1>6, <1>8, <1>9 DEF n

(* It suffices to look at the cell that was handed on, whose turn is that  *)
(* of position m.                                                          *)
LEMMA HandOnStep ==
  ASSUME IInv, NEW t \in Threads, HandOn(t),
         NEW m \in Nat, Cell(m) = Cell(pos[t]), InLap(m),
         \/ /\ HandedOn(t) = m
            /\ m_enqueue_pos <= m
         \/ /\ HandedOn(t) = m + 1
            /\ m_dequeue_pos <= m /\ m < m_enqueue_pos
            /\ data[Cell(m)] = pushed[m + 1]
  PROVE  IInv'
<1> DEFINE n == pos[t]
<1>1. /\ TypeOK /\ m_enqueue_pos \in Nat /\ m_dequeue_pos \in Nat
      /\ \A k \in Nat : Cell(k) \in Cells
      /\ \A u \in Threads : CellOf(u) = Cell(pos[u]) /\ CellOf(u) \in Cells
      /\ \A u \in Owners : u \in Threads
  BY Ranges, CellInCells DEF IInv
<1>2. /\ t \in Owners /\ Owners' = Owners \ {t}
      /\ n \in Nat /\ HandedOn(t) \in Nat
      /\ sequence'[Cell(n)] = HandedOn(t)
      /\ sequence[Cell(n)] < HandedOn(t)
      /\ sequence' \in [Cells -> Nat]
      /\ \A cell \in Cells : cell # Cell(n) => sequence'[cell] = sequence[cell]
      /\ had' = [had EXCEPT ![Cell(n)] = @ \cup {HandedOn(t)}]
      /\ \A u \in Owners' : CellOf(u) # Cell(n)
      /\ \A u \in Threads : u # t => pc'[u] = pc[u]
      /\ pc'[t] = "idle"
      /\ UNCHANGED <<data, m_enqueue_pos, m_dequeue_pos, pos, out_data, pushed>>
  BY HandOnFacts
<1>3. Goto(t, "idle")
  BY DEF HandOn
<1> HIDE DEF n
<1>4. ASSUME NEW k \in Nat, Cell(k) # Cell(n)
      PROVE  (ForProducer(k)' <=> ForProducer(k)) /\ (ForConsumer(k)' <=> ForConsumer(k))
  BY <1>1, <1>2, <1>4 DEF ForProducer, ForConsumer
<1>5. ASSUME NEW k \in Nat, Cell(k) = Cell(n)
      PROVE  /\ ForProducer(k)' => k = m /\ HandedOn(t) = m
             /\ ForConsumer(k)' => k = m /\ HandedOn(t) = m + 1
  <2>1. Cell(k) = Cell(m)
    BY <1>5 DEF n
  <2>2. k + 1 # m
    BY <2>1, NeighbourIsElsewhere DEF IInv
  <2>3. k # m + 1
    BY <2>1, NeighbourIsElsewhere DEF IInv
  <2>4. (ForProducer(k)' => k = HandedOn(t)) /\ (ForConsumer(k)' => k + 1 = HandedOn(t))
    BY <1>2, <1>5 DEF ForProducer, ForConsumer
  <2> QED
    BY <2>2, <2>3, <2>4
<1>6. TypeOK'
  <2>1. had' \in [Cells -> SUBSET Nat]
    BY <1>1, <1>2 DEF TypeOK, Cells
  <2> QED
    BY <1>1, <1>2, <1>3, <2>1 DEF TypeOK, Cells, Goto
<1>7. Turns'
  <2> SUFFICES ASSUME NEW cell \in Cells
               PROVE  \E k \in Nat : Cell(k) = cell /\ (ForProducer(k)' \/ ForConsumer(k)')
    BY DEF Turns
  <2>1. CASE cell = Cell(n)
    <3>1. ForProducer(m)' \/ ForConsumer(m)'
      BY <1>2 DEF ForProducer, ForConsumer, n
    <3> QED
      BY <2>1, <3>1 DEF n
  <2>2. CASE cell # Cell(n)
    BY <1>4, <2>2 DEF IInv, Turns
  <2> QED
    BY <2>1, <2>2
<1>8. FreeCells'
  <2> SUFFICES ASSUME NEW k \in Nat, ForProducer(k)'
               PROVE  /\ InLap(k) /\ m_dequeue_pos <= k
                      /\ k < m_enqueue_pos => \E p \in Producers : p \in Owners' /\ pos[p] = k
    BY <1>2 DEF FreeCells, InLap
  <2>1. CASE Cell(k) = Cell(n)
    <3>1. k = m /\ m_enqueue_pos <= m
      BY <1>5, <2>1
    <3> QED
      BY <1>1, <3>1 DEF IInv, Counters
  <2>2. CASE Cell(k) # Cell(n)
    <3>1. ForProducer(k)
      BY <1>4, <2>2
    <3>2. \A u \in Owners : pos[u] = k => u \in Owners'
      BY <1>2, <2>2 DEF n
    <3> QED
      BY <3>1, <3>2 DEF IInv, FreeCells
  <2> QED
    BY <2>1, <2>2
<1>9. FilledCells'
  <2> SUFFICES ASSUME NEW k \in Nat, ForConsumer(k)'
               PROVE  /\ InLap(k) /\ k < m_enqueue_pos
                      /\ k < m_dequeue_pos => \E c \in Consumers : c \in Owners' /\ pos[c] = k
                      /\ data[Cell(k)] = pushed[k + 1]
    BY <1>2 DEF FilledCells, InLap
  <2>1. CASE Cell(k) = Cell(n)
    <3>1. k = m /\ HandedOn(t) # m
      BY <1>5, <2>1
    <3> QED
      BY <1>1, <3>1
  <2>2. CASE Cell(k) # Cell(n)
    <3>1. ForConsumer(k)
      BY <1>4, <2>2
    <3>2. \A u \in Owners : pos[u] = k => u \in Owners'
      BY <1>2, <2>2 DEF n
    <3> QED
      BY <3>1, <3>2 DEF IInv, FilledCells
  <2> QED
    BY <2>1, <2>2
<1>10. Counters'
  BY <1>2 DEF IInv, Counters
<1>11. OwnersTurn'
  <2> SUFFICES ASSUME NEW u \in Owners'
               PROVE  sequence'[CellOf(u)] = Wanted(u) /\ pos[u] < Counter(u)
    BY <1>2 DEF OwnersTurn, CellOf, Wanted, Counter
  <2>1. u \in Owners /\ u \in Threads /\ CellOf(u) # Cell(n) /\ CellOf(u) \in Cells
    BY <1>1, <1>2
  <2> QED
    BY <1>2, <2>1 DEF IInv, OwnersTurn
<1>12. OwnPositions'
  BY <1>2 DEF IInv, OwnPositions
<1>13. SeenTurn'
  <2> SUFFICES ASSUME NEW u \in Threads, pc'[u] = "reserve"
               PROVE  Wanted(u) <= sequence'[CellOf(u)]
    BY <1>2 DEF SeenTurn, CellOf, Wanted
  <2>1. pc[u] = "reserve" /\ CellOf(u) \in Cells
    BY <1>1, <1>2
  <2>2. Wanted(u) <= sequence[CellOf(u)]
    BY <2>1 DEF IInv, SeenTurn
  <2>3. /\ Wanted(u) \in Nat /\ sequence[CellOf(u)] \in Nat /\ sequence'[CellOf(u)] \in Nat
    <3>1. Wanted(u) \in Nat
      BY <1>1, Ranges DEF Wanted
    <3>2. sequence \in [Cells -> Nat]
      BY <1>1 DEF TypeOK, Cells
    <3> QED
      BY <1>2, <2>1, <3>1, <3>2
  <2>4. sequence[CellOf(u)] <= sequence'[CellOf(u)]
    BY <1>2, <2>1, <2>3
  <2> QED
    BY <2>2, <2>3, <2>4
<1>14. (WrittenIsPushed /\ ReadsOwnItem)'
  <2>1. \A u \in Threads : pc'[u] = "hand_on" => pc[u] = "hand_on"
    BY <1>2
  <2>2. Producers \subseteq Threads /\ Consumers \subseteq Threads
    BY DEF Threads
  <2> QED
    BY <1>2, <2>1, <2>2 DEF IInv, WrittenIsPushed, ReadsOwnItem, CellOf
<1>15. HadIsPast'
  <2> SUFFICES ASSUME NEW cell \in Cells, NEW seq \in had'[cell]
               PROVE  seq <= sequence'[cell]
    BY DEF HadIsPast
  <2>1. /\ had \in [Cells -> SUBSET Nat] /\ sequence \in [Cells -> Nat]
        /\ seq \in had[cell] => seq \in Nat /\ seq <= sequence[cell]
    BY <1>1 DEF IInv, HadIsPast, TypeOK, Cells
  <2>2. CASE cell = Cell(n)
    <3>1. seq \in had[cell] \/ seq = HandedOn(t)
      BY <1>2, <2>1, <2>2
    <3> QED
      BY <1>2, <2>1, <2>2, <3>1
  <2>3. CASE cell # Cell(n)
    BY <1>2, <2>1, <2>3
  <2> QED
    BY <2>2, <2>3
<1> QED
  BY <1>6, <1>7, <1>8, <1>9, <1>10, <1>11, <1>12, <1>13, <1>14, <1>15 DEF IInv

LEMMA HandOnIInv ==
  ASSUME IInv, NEW t \in Threads, HandOn(t)
  PROVE  IInv'
<1> DEFINE n == pos[t]
<1>1. /\ t \in Owners /\ n \in Nat /\ CellOf(t) = Cell(n)
      /\ m_enqueue_pos \in Nat /\ m_dequeue_pos \in Nat
      /\ Capacity \in Nat /\ Capacity > 0
      /\ t \in Consumers => t \notin Producers
  BY HandOnFacts, Ranges DEF IInv
<1>2. CASE t \in Producers
  <2>1. ForProducer(n) /\ n < m_enqueue_pos
    BY <1>1, <1>2, OwnersCell
  <2>2. InLap(n) /\ m_dequeue_pos <= n
    BY <1>1, <2>1 DEF IInv, FreeCells
  <2>3. data[Cell(n)] = pushed[n + 1]
    <3>1. pc[t] = "hand_on"
      BY DEF HandOn
    <3> QED
      BY <1>1, <1>2, <3>1 DEF IInv, WrittenIsPushed
  <2>4. HandedOn(t) = n + 1
    BY <1>2 DEF HandedOn
  <2> QED
    BY <1>1, <2>1, <2>2, <2>3, <2>4, HandOnStep
<1>3. CASE t \in Consumers
  <2>1. ForConsumer(n) /\ n < m_dequeue_pos
    BY <1>1, <1>3, OwnersCell
  <2>2. m_enqueue_pos <= n + Capacity
    BY <1>1, <2>1 DEF IInv, FilledCells, InLap
  <2>3. HandedOn(t) = n + Capacity /\ n + Capacity \in Nat /\ Cell(n + Capacity) = Cell(n)
    BY <1>1, <1>3, NextLap DEF HandedOn
  <2>4. InLap(n + Capacity)
    BY <1>1, <2>1, <2>2 DEF InLap
  <2> QED
    BY <1>1, <2>2, <2>3, <2>4, HandOnStep
<1> QED
  BY <1>2, <1>3 DEF Threads

LEMMA NextIInv == IInv /\ [Next]_vars => IInv'
<1> SUFFICES ASSUME IInv, [Next]_vars PROVE IInv'
  OBVIOUS
<1>1. Producers \subseteq Threads /\ Consumers \subseteq Threads
  BY DEF Threads
<1>2. CASE \E p \in Producers : push(p)
  <2>1. PICK p \in Producers : push(p)
    BY <1>2
  <2>2. CASE Load(p) \/ Look(p) \/ ReserveFails(p)
    BY <1>1, <2>2, LoopIInv
  <2>3. CASE Enqueue(p)
    BY <2>3, EnqueueIInv
  <2>4. CASE Write(p)
    BY <2>4, WriteIInv
  <2> QED
    BY <2>1, <2>2, <2>3, <2>4 DEF push
<1>3. CASE \E c \in Consumers : pop(c)
  <2>1. PICK c \in Consumers : pop(c)
    BY <1>3
  <2>2. CASE Load(c) \/ Look(c) \/ ReserveFails(c)
    BY <1>1, <2>2, LoopIInv
  <2>3. CASE Dequeue(c)
    BY <2>3, DequeueIInv
  <2>4. CASE Read(c)
    BY <2>4, ReadIInv
  <2> QED
    BY <2>1, <2>2, <2>3, <2>4 DEF pop
<1>4. CASE \E t \in Threads : HandOn(t)
  BY <1>4, HandOnIInv
<1>5. CASE UNCHANGED vars
  BY <1>5 DEF vars, IInv, TypeOK, Turns, FreeCells, FilledCells, Counters, OwnersTurn,
              OwnPositions, SeenTurn, WrittenIsPushed, ReadsOwnItem, ForProducer,
              ForConsumer, InLap, Owners, CellOf, Wanted, Counter, HadIsPast
<1> QED
  BY <1>2, <1>3, <1>4, <1>5 DEF Next

LEMMA Invariance ==
  ASSUME SeveralCells
  PROVE  Spec => []IInv
<1>1. Init => IInv
  BY SeveralCells, InitIInv
<1> QED
  BY <1>1, NextIInv, PTL DEF Spec

(* However many threads push and pop, in whatever laps and with whatever   *)
(* old values their loads return: between its compare-and-swap and its     *)
(* hand-on a thread shares its cell with no other.                         *)
THEOREM CellsAreNotShared ==
  ASSUME SeveralCells
  PROVE  Spec => []CellsNotShared
<1>1. Spec => []IInv
  BY SeveralCells, Invariance
<1> QED
  BY <1>1, IInvCellsNotShared, PTL

(* ... and so a pop returns what was pushed for its position.              *)
THEOREM EveryPopReadsItsItem ==
  ASSUME SeveralCells
  PROVE  Spec => []ReadsOwnItem
<1>1. IInv => ReadsOwnItem
  BY DEF IInv
<1>2. Spec => []IInv
  BY SeveralCells, Invariance
<1> QED
  BY <1>1, <1>2, PTL

(* Without calls under way no thread owns a cell, and the turns of the two *)
(* cells at the counters are what the counters say.                        *)
LEMMA IInvQuietQueueUsable == IInv => QuietQueueUsable
<1> SUFFICES ASSUME IInv, \A t \in Threads : pc[t] = "idle"
             PROVE  /\ m_enqueue_pos - m_dequeue_pos < Capacity => ForProducer(m_enqueue_pos)
                    /\ m_dequeue_pos < m_enqueue_pos => ForConsumer(m_dequeue_pos)
  BY DEF QuietQueueUsable, ForProducer, ForConsumer, Cell
<1> DEFINE e == m_enqueue_pos  d == m_dequeue_pos
<1>1. /\ e \in Nat /\ d \in Nat /\ Capacity \in Nat /\ Capacity > 0
      /\ Cell(e) \in Cells /\ Cell(d) \in Cells /\ d <= e
  BY Ranges, CellInCells DEF IInv, Counters
<1>2. Owners = {}
  BY DEF Owners
<1>3. \A n \in Nat : ForProducer(n) => n < d + Capacity /\ e <= n
  BY <1>1, <1>2 DEF IInv, FreeCells, InLap
<1>4. \A n \in Nat : ForConsumer(n) => e <= n + Capacity /\ n < d + Capacity /\ n < e /\ d <= n
  BY <1>1, <1>2 DEF IInv, FilledCells, InLap
<1>5. ASSUME e - d < Capacity
      PROVE  ForProducer(e)
  <2>1. PICK n \in Nat : Cell(n) = Cell(e) /\ (ForProducer(n) \/ ForConsumer(n))
    BY <1>1 DEF IInv, Turns
  <2>2. ASSUME ForConsumer(n) PROVE FALSE
    <3>1. n < e + Capacity /\ e < n + Capacity /\ n # e
      BY <1>1, <1>4, <1>5, <2>2
    <3> QED
      BY <1>1, <2>1, <3>1, SameCell
  <2>3. n < e + Capacity /\ e < n + Capacity
    BY <1>1, <1>3, <2>1, <2>2
  <2> QED
    BY <1>1, <2>1, <2>2, <2>3, SameCell
<1>6. ASSUME d < e
      PROVE  ForConsumer(d)
  <2>1. PICK n \in Nat : Cell(n) = Cell(d) /\ (ForProducer(n) \/ ForConsumer(n))
    BY <1>1 DEF IInv, Turns
  <2>2. ASSUME ForProducer(n) PROVE FALSE
    <3>1. n < d + Capacity /\ d < n + Capacity /\ n # d
      BY <1>1, <1>3, <1>6, <2>2
    <3> QED
      BY <1>1, <2>1, <3>1, SameCell
  <2>3. n < d + Capacity /\ d < n + Capacity
    BY <1>1, <1>4, <2>1, <2>2
  <2> QED
    BY <1>1, <2>1, <2>2, <2>3, SameCell
<1> QED
  BY <1>5, <1>6

(* Whatever the threads did before: once they have all returned, the next  *)
(* push is refused only when the queue is full, and the next pop only when *)
(* it is empty.                                                            *)
THEOREM QuietQueueIsUsable ==
  ASSUME SeveralCells
  PROVE  Spec => []QuietQueueUsable
<1>1. Spec => []IInv
  BY SeveralCells, Invariance
<1> QED
  BY <1>1, IInvQuietQueueUsable, PTL

-----------------------------------------------------------------------------
(* The queue implements BoundedFifo: a reservation is its step.            *)

LEMMA WindowGrows ==
  ASSUME NEW S, NEW s \in Seq(S), NEW d \in 0..Len(s), NEW item \in S
  PROVE  /\ SubSeq(Append(s, item), 1, d) = SubSeq(s, 1, d)
         /\ SubSeq(Append(s, item), d + 1, Len(s) + 1) = Append(SubSeq(s, d + 1, Len(s)), item)
         /\ Len(SubSeq(s, d + 1, Len(s))) = Len(s) - d
<1> DEFINE u == Append(s, item)  v == SubSeq(s, d + 1, Len(s))
           w == SubSeq(u, d + 1, Len(s) + 1)  z == Append(v, item)
<1>1. /\ d \in Nat /\ Len(s) \in Nat /\ d <= Len(s)
      /\ u \in Seq(S) /\ Len(u) = Len(s) + 1
      /\ u[Len(s) + 1] = item /\ \A i \in 1..Len(s) : u[i] = s[i]
  OBVIOUS
<1> HIDE DEF u
<1>2. SubSeq(u, 1, d) = SubSeq(s, 1, d)
  BY <1>1
<1>3. /\ v \in Seq(S) /\ Len(v) = Len(s) - d
      /\ \A i \in 1..(Len(s) - d) : v[i] = s[d + i]
  BY <1>1
<1>4. /\ w \in Seq(S) /\ Len(w) = Len(s) - d + 1
      /\ \A i \in 1..(Len(s) - d + 1) : w[i] = u[d + i]
  BY <1>1
<1> HIDE DEF v, w
<1>5. /\ z \in Seq(S) /\ Len(z) = Len(s) - d + 1
      /\ z[Len(s) - d + 1] = item /\ \A i \in 1..(Len(s) - d) : z[i] = v[i]
  BY <1>1, <1>3
<1> HIDE DEF z
<1>6. ASSUME NEW i \in 1..Len(w) PROVE w[i] = z[i]
  <2>1. CASE i = Len(s) - d + 1
    <3>1. d + i = Len(s) + 1 /\ i \in 1..(Len(s) - d + 1)
      BY <1>1, <2>1
    <3> QED
      BY <1>1, <1>4, <1>5, <2>1, <3>1
  <2>2. CASE i # Len(s) - d + 1
    <3> DEFINE l == Len(s)
    <3>0. l \in Nat /\ i \in 1..(l - d + 1) /\ d \in Nat /\ d <= l /\ i # l - d + 1
      BY <1>1, <1>4, <2>2
    <3>1. i \in 1..(Len(s) - d) /\ i \in 1..(Len(s) - d + 1) /\ d + i \in 1..Len(s)
      <4> HIDE DEF l
      <4>1. i \in 1..(l - d) /\ d + i \in 1..l
        BY <3>0
      <4> QED
        BY <3>0, <4>1 DEF l
    <3>2. w[i] = u[d + i] /\ u[d + i] = s[d + i]
      BY <1>1, <1>4, <3>1
    <3>3. z[i] = v[i] /\ v[i] = s[d + i]
      BY <1>3, <1>5, <3>1
    <3> QED
      BY <3>2, <3>3
  <2> QED
    BY <2>1, <2>2
<1>7. w = z
  BY <1>4, <1>5, <1>6, SeqEqual
<1> QED
  BY <1>2, <1>3, <1>7 DEF u, v, w, z

LEMMA WindowMoves ==
  ASSUME NEW S, NEW s \in Seq(S), NEW d \in Nat, d < Len(s)
  PROVE  LET queue == SubSeq(s, d + 1, Len(s))
         IN  /\ SubSeq(s, 1, d + 1) = SubSeq(s, 1, d) \o SubSeq(queue, 1, 1)
             /\ SubSeq(s, d + 2, Len(s)) = SubSeq(queue, 2, Len(queue))
             /\ Len(queue) = Len(s) - d
OBVIOUS

LEMMA InitRefines == Init => Fifo!Init
<1> SUFFICES ASSUME Init PROVE Fifo!Init
  OBVIOUS
<1>1. pushed = <<>> /\ m_enqueue_pos = 0 /\ m_dequeue_pos = 0
  BY DEF Init
<1> QED
  BY <1>1 DEF Fifo!Init

LEMMA EnqueueRefines ==
  ASSUME IInv, NEW p \in Producers, Enqueue(p)
  PROVE  Fifo!Put
<1>1. /\ pushed \in Seq(Items) /\ Len(pushed) = m_enqueue_pos
      /\ m_enqueue_pos \in Nat /\ m_dequeue_pos \in 0..Len(pushed)
  BY Ranges DEF IInv, Counters
<1>2. m_enqueue_pos < m_dequeue_pos + Capacity
  BY ProducerHasTurn DEF Enqueue
<1>3. m_enqueue_pos' = m_enqueue_pos + 1 /\ UNCHANGED m_dequeue_pos
  BY DEF Enqueue
<1>4. PICK item \in Items : pushed' = Append(pushed, item)
  BY DEF Enqueue
<1>5. m_enqueue_pos - m_dequeue_pos < Capacity
  BY <1>1, <1>2, CapacityAssumption
<1>6. /\ SubSeq(pushed', m_dequeue_pos' + 1, m_enqueue_pos')
           = Append(SubSeq(pushed, m_dequeue_pos + 1, m_enqueue_pos), item)
      /\ SubSeq(pushed', 1, m_dequeue_pos') = SubSeq(pushed, 1, m_dequeue_pos)
      /\ Len(SubSeq(pushed, m_dequeue_pos + 1, m_enqueue_pos)) = m_enqueue_pos - m_dequeue_pos
  BY <1>1, <1>3, <1>4, WindowGrows
<1> QED
  BY <1>5, <1>6 DEF Fifo!Put

LEMMA DequeueRefines ==
  ASSUME IInv, NEW c \in Consumers, Dequeue(c)
  PROVE  Fifo!Take
<1> DEFINE queue == SubSeq(pushed, m_dequeue_pos + 1, m_enqueue_pos)
<1>1. /\ pushed \in Seq(Items) /\ Len(pushed) = m_enqueue_pos
      /\ m_enqueue_pos \in Nat /\ m_dequeue_pos \in Nat
  BY Ranges DEF IInv
<1>2. m_dequeue_pos < m_enqueue_pos
  BY ConsumerHasTurn DEF Dequeue
<1>3. m_dequeue_pos' = m_dequeue_pos + 1 /\ UNCHANGED <<m_enqueue_pos, pushed, had>>
  BY DEF Dequeue
<1>4. /\ SubSeq(pushed, 1, m_dequeue_pos + 1) = SubSeq(pushed, 1, m_dequeue_pos) \o SubSeq(queue, 1, 1)
      /\ SubSeq(pushed, m_dequeue_pos + 2, m_enqueue_pos) = SubSeq(queue, 2, Len(queue))
      /\ Len(queue) = m_enqueue_pos - m_dequeue_pos
  BY <1>1, <1>2, WindowMoves
<1>5. 1 \in 1..Len(queue) /\ m_dequeue_pos' + 1 = m_dequeue_pos + 2 /\ 1 + 1 = 2
  BY <1>1, <1>2, <1>3, <1>4
<1>6. /\ SubSeq(pushed', 1, m_dequeue_pos') = SubSeq(pushed, 1, m_dequeue_pos) \o SubSeq(queue, 1, 1)
      /\ SubSeq(pushed', m_dequeue_pos' + 1, m_enqueue_pos') = SubSeq(queue, 1 + 1, Len(queue))
  <2> HIDE DEF queue
  <2>1. SubSeq(pushed', 1, m_dequeue_pos') = SubSeq(pushed, 1, m_dequeue_pos) \o SubSeq(queue, 1, 1)
    BY <1>3, <1>4
  <2>2. SubSeq(pushed', m_dequeue_pos' + 1, m_enqueue_pos') = SubSeq(queue, 2, Len(queue))
    BY <1>3, <1>4, <1>5, Zenon
  <2> QED
    BY <1>5, <2>1, <2>2, Zenon
<1> QED
  BY <1>5, <1>6 DEF Fifo!Take

LEMMA NextRefines ==
  ASSUME IInv, [Next]_vars
  PROVE  [Fifo!Next]_<<SubSeq(pushed, m_dequeue_pos + 1, m_enqueue_pos),
                       SubSeq(pushed, 1, m_dequeue_pos)>>
<1>1. CASE \E p \in Producers : Enqueue(p)
  BY <1>1, EnqueueRefines DEF Fifo!Next
<1>2. CASE \E c \in Consumers : Dequeue(c)
  BY <1>2, DequeueRefines DEF Fifo!Next
<1>3. ASSUME NEW t, Load(t) \/ Look(t) \/ ReserveFails(t) \/ Write(t) \/ Read(t) \/ HandOn(t)
      PROVE  UNCHANGED <<pushed, m_dequeue_pos, m_enqueue_pos>>
  BY <1>3 DEF Load, Look, ReserveFails, Write, Read, HandOn
<1>4. CASE UNCHANGED vars
  BY <1>4 DEF vars
<1>5. CASE Next
  <2>1. \/ \E p \in Producers : Enqueue(p)
        \/ \E c \in Consumers : Dequeue(c)
        \/ \E t \in Threads :
             Load(t) \/ Look(t) \/ ReserveFails(t) \/ Write(t) \/ Read(t) \/ HandOn(t)
    BY <1>5 DEF Next, push, pop, Threads
  <2>2. CASE \E t \in Threads :
               Load(t) \/ Look(t) \/ ReserveFails(t) \/ Write(t) \/ Read(t) \/ HandOn(t)
    BY <1>3, <2>2
  <2> QED
    BY <1>1, <1>2, <2>1, <2>2
<1> QED
  BY <1>4, <1>5

(* For every capacity above 1 and any number of threads the compare-and-   *)
(* swaps take effect like the calls of one bounded first-in first-out      *)
(* queue.                                                                  *)
THEOREM RingOfCellsIsFifo ==
  ASSUME SeveralCells
  PROVE  Spec => ImplementsFifo
<1>1. IInv /\ [Next]_vars =>
        [Fifo!Next]_<<SubSeq(pushed, m_dequeue_pos + 1, m_enqueue_pos),
                      SubSeq(pushed, 1, m_dequeue_pos)>>
  BY NextRefines
<1>2. Spec => []IInv
  BY SeveralCells, Invariance
<1> QED
  BY InitRefines, <1>1, <1>2, PTL DEF Spec, ImplementsFifo, Fifo!Spec

-----------------------------------------------------------------------------
(* Type correctness, with one cell too.  What a producer writes is an item *)
(* because a reserved position stays below the counter.                    *)
WritersReserved == \A p \in Producers : pc[p] = "access" => pos[p] < m_enqueue_pos

TInv == TypeOK /\ WritersReserved

LEMMA InitTInv == Init => TInv
<1> SUFFICES ASSUME Init PROVE TInv
  OBVIOUS
<1>1. \A cell \in 0..(Capacity - 1) : cell \in Nat /\ {cell} \in SUBSET Nat
  BY CapacityAssumption
<1>2. TypeOK
  BY <1>1 DEF Init, TypeOK
<1>3. WritersReserved
  BY DEF Init, WritersReserved, Threads
<1> QED
  BY <1>2, <1>3 DEF TInv

LEMMA LoopTInv ==
  ASSUME TInv, NEW t \in Threads, Load(t) \/ Look(t) \/ ReserveFails(t)
  PROVE  TInv'
<1>1. /\ TypeOK /\ pos[t] \in Nat /\ Counter(t) \in Nat
      /\ UNCHANGED <<sequence, data, m_enqueue_pos, m_dequeue_pos, out_data, pushed, had>>
  BY Ranges DEF TInv, Load, Look, ReserveFails
<1>2. pc[t] # "access"
  BY DEF Load, Look, ReserveFails
<1>3. PICK label \in {"idle", "look", "reserve"} : Goto(t, label)
  <2>1. UNCHANGED pc /\ pc[t] = "look" => Goto(t, "look")
    BY <1>1 DEF Goto, TypeOK
  <2> QED
    BY <2>1 DEF Load, Look, ReserveFails
<1>4. PICK n \in Nat : pos' = [pos EXCEPT ![t] = n]
  <2>1. 0..Counter(t) \subseteq Nat
    BY <1>1
  <2>2. UNCHANGED pos => pos' = [pos EXCEPT ![t] = pos[t]]
    BY <1>1 DEF TypeOK
  <2> QED
    BY <1>1, <2>1, <2>2 DEF Load, Look, ReserveFails
<1>5. TypeOK'
  BY <1>1, <1>3, <1>4 DEF TypeOK, Goto
<1>6. /\ pc'[t] = label
      /\ \A u \in Threads : u # t => pc'[u] = pc[u] /\ pos'[u] = pos[u]
  BY <1>1, <1>3, <1>4 DEF TypeOK, Goto
<1>7. WritersReserved'
  BY <1>1, <1>6 DEF TInv, WritersReserved, Threads
<1> QED
  BY <1>5, <1>7 DEF TInv

LEMMA NextTInv == TInv /\ [Next]_vars => TInv'
<1> SUFFICES ASSUME TInv, [Next]_vars PROVE TInv'
  OBVIOUS
<1>1. /\ TypeOK /\ m_enqueue_pos \in Nat /\ m_dequeue_pos \in Nat
      /\ pushed \in Seq(Items) /\ Len(pushed) = m_enqueue_pos
      /\ Producers \subseteq Threads /\ Consumers \subseteq Threads
      /\ \A t \in Threads : pos[t] \in Nat /\ CellOf(t) \in Cells
  BY Ranges DEF TInv, Threads
<1>2. ASSUME NEW t \in Threads, Load(t) \/ Look(t) \/ ReserveFails(t) PROVE TInv'
  BY <1>2, LoopTInv
<1>3. ASSUME NEW p \in Producers, Enqueue(p) PROVE TInv'
  <2>1. PICK item \in Items : pushed' = Append(pushed, item)
    BY <1>3 DEF Enqueue
  <2>2. /\ pos[p] = m_enqueue_pos /\ m_enqueue_pos' = m_enqueue_pos + 1 /\ Goto(p, "access")
        /\ UNCHANGED <<sequence, data, m_dequeue_pos, pos, out_data, had>>
    BY <1>3 DEF Enqueue
  <2>3. pushed' \in Seq(Items) /\ Len(pushed') = m_enqueue_pos + 1
    BY <1>1, <2>1
  <2>4. TypeOK'
    BY <1>1, <2>2, <2>3 DEF TypeOK, Goto
  <2>5. \A u \in Threads : u # p => pc'[u] = pc[u]
    BY <1>1, <2>2 DEF TypeOK, Goto
  <2>6. WritersReserved'
    <3> SUFFICES ASSUME NEW q \in Producers, pc'[q] = "access"
                 PROVE  pos[q] < m_enqueue_pos + 1
      BY <2>2 DEF WritersReserved
    <3>1. q # p => pos[q] < m_enqueue_pos
      BY <1>1, <2>5 DEF TInv, WritersReserved
    <3>2. pos[q] \in Nat
      BY <1>1
    <3> QED
      BY <1>1, <2>2, <3>1, <3>2
  <2> QED
    BY <2>4, <2>6 DEF TInv
<1>4. ASSUME NEW c \in Consumers, Dequeue(c) PROVE TInv'
  <2>1. /\ m_dequeue_pos' = pos[c] + 1 /\ pos[c] \in Nat /\ Goto(c, "access")
        /\ UNCHANGED <<sequence, data, m_enqueue_pos, pos, out_data, pushed, had>>
    BY <1>1, <1>4 DEF Dequeue
  <2>2. TypeOK'
    BY <1>1, <2>1 DEF TypeOK, Goto
  <2>3. \A p \in Producers : p # c /\ pc'[p] = pc[p]
    BY <1>1, <2>1, CapacityAssumption DEF TypeOK, Goto
  <2> QED
    BY <2>1, <2>2, <2>3 DEF TInv, WritersReserved
<1>5. ASSUME NEW p \in Producers, Write(p) PROVE TInv'
  <2>1. /\ pc[p] = "access" /\ Goto(p, "hand_on")
        /\ data' = [data EXCEPT ![CellOf(p)] = pushed[pos[p] + 1]]
        /\ UNCHANGED <<sequence, m_enqueue_pos, m_dequeue_pos, pos, out_data, pushed, had>>
    BY <1>5 DEF Write
  <2>2. pushed[pos[p] + 1] \in Items
    <3>1. pos[p] \in Nat /\ pos[p] < Len(pushed)
      BY <1>1, <2>1 DEF TInv, WritersReserved
    <3>2. pos[p] + 1 \in 1..Len(pushed)
      BY <1>1, <3>1
    <3> QED
      BY <1>1, <3>2, ElementOfSeq
  <2>3. data' \in [Cells -> Items \cup {NoItem}]
    BY <1>1, <2>1, <2>2 DEF TypeOK, Cells
  <2>4. TypeOK'
    BY <1>1, <2>1, <2>3 DEF TypeOK, Goto, Cells
  <2>5. pc'[p] = "hand_on" /\ \A u \in Threads : u # p => pc'[u] = pc[u]
    BY <1>1, <2>1 DEF TypeOK, Goto
  <2> QED
    BY <1>1, <2>1, <2>4, <2>5 DEF TInv, WritersReserved
<1>6. ASSUME NEW c \in Consumers, Read(c) PROVE TInv'
  <2>1. /\ Goto(c, "hand_on") /\ out_data' = [out_data EXCEPT ![c] = data[CellOf(c)]]
        /\ UNCHANGED <<sequence, data, m_enqueue_pos, m_dequeue_pos, pos, pushed, had>>
    BY <1>6 DEF Read
  <2>2. data[CellOf(c)] \in Items \cup {NoItem}
    BY <1>1 DEF TypeOK, Cells
  <2>3. TypeOK'
    BY <1>1, <2>1, <2>2 DEF TypeOK, Goto
  <2>4. \A p \in Producers : p # c /\ pc'[p] = pc[p]
    BY <1>1, <2>1, CapacityAssumption DEF TypeOK, Goto
  <2> QED
    BY <2>1, <2>3, <2>4 DEF TInv, WritersReserved
<1>7. ASSUME NEW t \in Threads, HandOn(t) PROVE TInv'
  <2> DEFINE number == HandedOn(t)
  <2>1. /\ Goto(t, "idle")
        /\ sequence' = [sequence EXCEPT ![CellOf(t)] = number]
        /\ had' = [had EXCEPT ![CellOf(t)] = @ \cup {number}]
        /\ UNCHANGED <<data, m_enqueue_pos, m_dequeue_pos, pos, out_data, pushed>>
    BY <1>7 DEF HandOn
  <2>2. number \in Nat
    BY <1>1, CapacityAssumption DEF HandedOn
  <2> HIDE DEF number
  <2>3. sequence' \in [Cells -> Nat] /\ had' \in [Cells -> SUBSET Nat]
    BY <1>1, <2>1, <2>2 DEF TypeOK, Cells
  <2>4. TypeOK'
    BY <1>1, <2>1, <2>3 DEF TypeOK, Goto, Cells
  <2>5. \A p \in Producers : pc'[p] = "access" => pc[p] = "access"
    BY <1>1, <2>1 DEF TypeOK, Goto
  <2> QED
    BY <2>1, <2>4, <2>5 DEF TInv, WritersReserved
<1>8. CASE UNCHANGED vars
  BY <1>8 DEF vars, TInv, TypeOK, WritersReserved
<1> QED
  BY <1>1, <1>2, <1>3, <1>4, <1>5, <1>6, <1>7, <1>8 DEF Next, push, pop

(* Every variable keeps its range, and each reserved position its item,    *)
(* for every capacity the constructor takes.                               *)
THEOREM TypeCorrect == Spec => []TypeOK
<1>1. TInv => TypeOK
  BY DEF TInv
<1> QED
  BY <1>1, InitTInv, NextTInv, PTL DEF Spec
=============================================================================
