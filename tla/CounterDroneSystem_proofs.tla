--------------------- MODULE CounterDroneSystem_proofs ---------------------
(***************************************************************************)
(* Theorems about CounterDroneSystem, for any number of packets.           *)
(***************************************************************************)
EXTENDS CounterDroneSystem, SequenceTheorems, TLAPS

-----------------------------------------------------------------------------
(* Sequences of numbers that follow one another, and what moving items     *)
(* between two neighbours of a row of sequences does to the row.           *)

Numbers(first, n) == [k \in 1..n |-> first + k]

LEMMA NumbersIsSeq ==
  ASSUME NEW f \in Nat, NEW n \in Nat
  PROVE  /\ Numbers(f, n) \in Seq(Nat)
         /\ Len(Numbers(f, n)) = n
         /\ \A k \in 1..n : Numbers(f, n)[k] = f + k
BY DEF Numbers

LEMMA OneMore ==
  ASSUME NEW f \in Nat, NEW n \in Nat
  PROVE  /\ Append(Numbers(f, n), f + n + 1) = Numbers(f, n + 1)
         /\ Numbers(f, n) \o <<f + n + 1>> = Numbers(f, n + 1)
<1> DEFINE s == Numbers(f, n)  u == Numbers(f, n + 1)  e == f + n + 1
<1>1. u \in Seq(Nat) /\ Len(u) = n + 1 /\ \A k \in 1..(n + 1) : u[k] = f + k
  BY NumbersIsSeq
<1>2. s \in Seq(Nat) /\ Len(s) = n /\ \A k \in 1..n : s[k] = f + k
  BY NumbersIsSeq
<1>3. e \in Nat /\ u[n + 1] = e
  <2>1. n + 1 \in 1..(n + 1) /\ f + (n + 1) = f + n + 1
    OBVIOUS
  <2> QED
    BY <1>1, <2>1
<1> HIDE DEF s, u, e
<1>4. /\ Append(s, e) \in Seq(Nat) /\ Len(Append(s, e)) = n + 1
      /\ \A k \in 1..n : Append(s, e)[k] = s[k]
      /\ Append(s, e)[n + 1] = e
  BY <1>2, <1>3, AppendProperties
<1>5. \A k \in 1..(n + 1) : k \in 1..n \/ k = n + 1
  OBVIOUS
<1>6. Append(s, e) = u
  BY <1>1, <1>2, <1>3, <1>4, <1>5, SeqEqual
<1>7. s \o <<e>> = Append(s, e)
  BY <1>2, <1>3, AppendIsConcat
<1> QED
  BY <1>6, <1>7 DEF s, u, e

LEMMA TwoMore ==
  ASSUME NEW f \in Nat, NEW n \in Nat
  PROVE  Numbers(f, n) \o <<f + n + 1, f + n + 2>> = Numbers(f, n + 2)
<1> DEFINE s == Numbers(f, n)  e1 == f + n + 1  e2 == f + n + 2
<1>1. s \in Seq(Nat) /\ e1 \in Nat /\ e2 \in Nat
  BY NumbersIsSeq
<1>2. s \o <<e1>> = Numbers(f, n + 1)
  BY OneMore
<1>3. Numbers(f, n + 1) \o <<e2>> = Numbers(f, n + 2)
  <2>1. n + 1 \in Nat /\ f + (n + 1) + 1 = e2 /\ (n + 1) + 1 = n + 2
    OBVIOUS
  <2>2. Numbers(f, n + 1) \o <<f + (n + 1) + 1>> = Numbers(f, (n + 1) + 1)
    BY <2>1, OneMore
  <2> QED
    BY <2>1, <2>2
<1> HIDE DEF s, e1, e2
<1>4. <<e1, e2>> = <<e1>> \o <<e2>> /\ <<e1>> \in Seq(Nat) /\ <<e2>> \in Seq(Nat)
  <2>1. <<e1>> \in Seq(Nat) /\ <<e2>> \in Seq(Nat)
    BY <1>1
  <2>2. Append(<<e1>>, e2) = <<e1>> \o <<e2>>
    BY <1>1, <2>1, AppendIsConcat
  <2>3. Append(<<e1>>, e2) = <<e1, e2>>
    <3> DEFINE u == <<e1, e2>>  v == Append(<<e1>>, e2)
    <3>1. u \in Seq(Nat) /\ Len(u) = 2 /\ u[1] = e1 /\ u[2] = e2
      BY <1>1
    <3>2. v \in Seq(Nat) /\ Len(v) = 2 /\ v[1] = e1 /\ v[2] = e2
      <4>1. Len(<<e1>>) = 1 /\ <<e1>>[1] = e1
        OBVIOUS
      <4>2. /\ v \in Seq(Nat) /\ Len(v) = Len(<<e1>>) + 1
            /\ \A k \in 1..Len(<<e1>>) : v[k] = <<e1>>[k]
            /\ v[Len(<<e1>>) + 1] = e2
        BY <1>1, <2>1, AppendProperties
      <4> HIDE DEF v
      <4> QED
        BY <4>1, <4>2
    <3> HIDE DEF u, v
    <3>3. \A k \in 1..2 : k = 1 \/ k = 2
      OBVIOUS
    <3>4. u = v
      BY <3>1, <3>2, <3>3, SeqEqual
    <3> QED
      BY <3>4 DEF u, v
  <2> QED
    BY <2>1, <2>2, <2>3
<1>5. s \o <<e1, e2>> = (s \o <<e1>>) \o <<e2>>
  BY <1>1, <1>4, ConcatAssociative
<1> QED
  BY <1>2, <1>3, <1>5 DEF s, e1, e2

(* Concatenation as an operator that the provers need not look into.       *)
Parts == Seq(Nat)
Cat(x, y) == x \o y

LEMMA Monoid ==
  /\ <<>> \in Parts
  /\ \A x, y \in Parts : Cat(x, y) \in Parts
  /\ \A x, y, z \in Parts : Cat(Cat(x, y), z) = Cat(x, Cat(y, z))
  /\ \A x \in Parts : Cat(x, <<>>) = x /\ Cat(<<>>, x) = x
<1>1. <<>> \in Parts
  BY DEF Parts
<1>2. \A x, y \in Parts : Cat(x, y) \in Parts
  BY ConcatProperties DEF Parts, Cat
<1>3. \A x, y, z \in Parts : Cat(Cat(x, y), z) = Cat(x, Cat(y, z))
  <2>1. \A x, y, z \in Seq(Nat) : (x \o y) \o z = x \o (y \o z)
    BY ConcatAssociative
  <2> QED
    BY <2>1 DEF Parts, Cat
<1>4. \A x \in Parts : Cat(x, <<>>) = x /\ Cat(<<>>, x) = x
  BY ConcatEmptySeq DEF Parts, Cat
<1> QED
  BY <1>1, <1>2, <1>3, <1>4

Rest(a) == SubSeq(a, 3, Len(a))

LEMMA RestOfNumbers ==
  \A a, r \in Parts : \A f, n \in Nat :
    Len(a) >= 2 /\ Cat(a, r) = Numbers(f, n) =>
      /\ n >= 2 /\ a[2] = f + 2
      /\ Rest(a) \in Parts
      /\ Cat(Rest(a), r) = Numbers(f + 2, n - 2)
<1> SUFFICES ASSUME NEW a \in Seq(Nat), NEW r \in Seq(Nat), NEW f \in Nat, NEW n \in Nat,
                    Len(a) >= 2, a \o r = Numbers(f, n)
             PROVE  /\ n >= 2 /\ a[2] = f + 2
                    /\ SubSeq(a, 3, Len(a)) \in Seq(Nat)
                    /\ SubSeq(a, 3, Len(a)) \o r = Numbers(f + 2, n - 2)
  BY DEF Parts, Cat, Rest
<1> DEFINE b == SubSeq(a, 3, Len(a))  u == Numbers(f + 2, n - 2)
<1>1. Len(a) \in Nat /\ Len(r) \in Nat /\ \A k \in 1..Len(a) : a[k] \in Nat
  BY ElementOfSeq
<1>2. /\ Len(a) + Len(r) = n
      /\ \A k \in 1..n : (IF k <= Len(a) THEN a[k] ELSE r[k - Len(a)]) = f + k
  <2>1. /\ Len(a \o r) = Len(a) + Len(r)
        /\ \A k \in 1..(Len(a) + Len(r)) :
             (a \o r)[k] = IF k <= Len(a) THEN a[k] ELSE r[k - Len(a)]
    BY ConcatProperties
  <2>2. Len(a \o r) = n /\ \A k \in 1..n : (a \o r)[k] = f + k
    BY NumbersIsSeq
  <2> QED
    BY <2>1, <2>2
<1>3. n >= 2 /\ n - 2 \in Nat /\ f + 2 \in Nat
  BY <1>1, <1>2
<1>4. a[2] = f + 2
  BY <1>1, <1>2, <1>3
<1>5. /\ b \in Seq(Nat)
      /\ Len(b) = Len(a) - 2
      /\ \A k \in 1..(Len(a) - 2) : b[k] = a[k + 2]
  <2>1. \A k \in 3..Len(a) : a[k] \in Nat
    BY <1>1
  <2>2. /\ b \in Seq(Nat)
        /\ Len(b) = IF 3 <= Len(a) THEN Len(a) - 3 + 1 ELSE 0
        /\ \A k \in 1..(Len(a) - 3 + 1) : b[k] = a[3 + k - 1]
    <3>1. 3 \in Int /\ Len(a) \in Int
      BY <1>1
    <3> QED
      BY <2>1, <3>1, SubSeqProperties
  <2>3. Len(a) - 3 + 1 = Len(a) - 2 /\ (3 <= Len(a) \/ Len(a) - 2 = 0)
    <3>1. \A l \in Nat : l - 3 + 1 = l - 2 /\ (l >= 2 => 3 <= l \/ l - 2 = 0)
      OBVIOUS
    <3> QED
      BY <1>1, <3>1
  <2>5. Len(b) = Len(a) - 2
    BY <2>2, <2>3
  <2>4. \A k \in 1..(Len(a) - 2) : 3 + k - 1 = k + 2
    BY <1>1
  <2> QED
    BY <2>2, <2>3, <2>4, <2>5
<1>6. u \in Seq(Nat) /\ Len(u) = n - 2 /\ \A k \in 1..(n - 2) : u[k] = f + 2 + k
  BY <1>3, NumbersIsSeq
<1> HIDE DEF b, u
<1>7. /\ b \o r \in Seq(Nat) /\ Len(b \o r) = n - 2
      /\ \A k \in 1..(n - 2) :
           (b \o r)[k] = IF k <= Len(a) - 2 THEN b[k] ELSE r[k - (Len(a) - 2)]
  <2>1. Len(b) + Len(r) = n - 2
    BY <1>1, <1>2, <1>5
  <2>2. /\ b \o r \in Seq(Nat) /\ Len(b \o r) = Len(b) + Len(r)
        /\ \A k \in 1..(Len(b) + Len(r)) :
             (b \o r)[k] = IF k <= Len(b) THEN b[k] ELSE r[k - Len(b)]
    BY <1>5, ConcatProperties
  <2> QED
    BY <1>5, <2>1, <2>2
<1>8. ASSUME NEW k \in 1..(n - 2)
      PROVE  (b \o r)[k] = u[k]
  <2>1. k + 2 \in 1..n /\ f + (k + 2) = f + 2 + k
    BY <1>3
  <2>2. CASE k <= Len(a) - 2
    <3>1. k + 2 <= Len(a) /\ k \in 1..(Len(a) - 2)
      BY <1>1, <2>2
    <3>2. a[k + 2] = f + (k + 2)
      BY <1>2, <2>1, <3>1
    <3> QED
      BY <1>5, <1>6, <1>7, <2>1, <2>2, <3>1, <3>2
  <2>3. CASE ~(k <= Len(a) - 2)
    <3>1. ~(k + 2 <= Len(a)) /\ k + 2 - Len(a) = k - (Len(a) - 2)
      BY <1>1, <2>3
    <3>2. r[k + 2 - Len(a)] = f + (k + 2)
      BY <1>2, <2>1, <3>1
    <3> QED
      BY <1>6, <1>7, <2>1, <2>3, <3>1, <3>2
  <2> QED
    BY <2>2, <2>3
<1>9. b \o r = u
  BY <1>6, <1>7, <1>8, SeqEqual
<1> QED
  BY <1>3, <1>4, <1>5, <1>9 DEF b, u

(* The row of the five places where bytes are on their way.                *)
Row(a, b, c, d, e) == Cat(Cat(Cat(Cat(a, b), c), d), e)

LEMMA RowIsSeq ==
  ASSUME NEW a \in Parts, NEW b \in Parts, NEW c \in Parts, NEW d \in Parts, NEW e \in Parts
  PROVE  Row(a, b, c, d, e) \in Parts
BY Monoid DEF Row

(* pop_all, and push_data, and recv, which returns a prefix.               *)
LEMMA RowMoves ==
  ASSUME NEW a \in Parts, NEW b \in Parts, NEW c \in Parts, NEW d \in Parts, NEW e \in Parts
  PROVE  /\ Row(Cat(a, b), <<>>, c, d, e) = Row(a, b, c, d, e)
         /\ Row(a, Cat(b, c), <<>>, d, e) = Row(a, b, c, d, e)
         /\ Row(a, b, <<>>, Cat(c, d), e) = Row(a, b, c, d, e)
<1>1. Row(Cat(a, b), <<>>, c, d, e) = Row(a, b, c, d, e)
  BY Monoid DEF Row
<1>2. Row(a, Cat(b, c), <<>>, d, e) = Row(a, b, c, d, e)
  BY Monoid DEF Row
<1>3. Row(a, b, <<>>, Cat(c, d), e) = Row(a, b, c, d, e)
  BY Monoid DEF Row
<1> QED
  BY <1>1, <1>2, <1>3

LEMMA PrefixAndRest ==
  ASSUME NEW w \in Seq(Nat), NEW n \in 0..Len(w)
  PROVE  /\ SubSeq(w, 1, n) \in Seq(Nat) /\ SubSeq(w, n + 1, Len(w)) \in Seq(Nat)
         /\ SubSeq(w, 1, n) \o SubSeq(w, n + 1, Len(w)) = w
         /\ n = 0 => SubSeq(w, 1, n) = <<>>
<1>1. Len(w) \in Nat /\ \A k \in 1..Len(w) : w[k] \in Nat
  BY ElementOfSeq
<1>2. /\ 1 \in 1..(Len(w) + 1) /\ n \in (1 - 1)..Len(w) /\ Len(w) \in n..Len(w)
      /\ n \in Int /\ n + 1 \in Int /\ Len(w) \in Int /\ 1 \in Int
  BY <1>1
<1>3. SubSeq(w, 1, n) \o SubSeq(w, n + 1, Len(w)) = SubSeq(w, 1, Len(w))
  BY <1>2, ConcatAdjacentSubSeq
<1>4. SubSeq(w, 1, Len(w)) = w
  BY SubSeqFull
<1>5. SubSeq(w, 1, n) \in Seq(Nat)
  <2>1. \A k \in 1..n : w[k] \in Nat
    BY <1>1, <1>2
  <2> QED
    BY <1>2, <2>1, SubSeqProperties
<1>6. SubSeq(w, n + 1, Len(w)) \in Seq(Nat)
  <2>1. \A k \in (n + 1)..Len(w) : w[k] \in Nat
    BY <1>1, <1>2
  <2> QED
    BY <1>2, <2>1, SubSeqProperties
<1>7. n = 0 => SubSeq(w, 1, n) = <<>>
  BY <1>2, SubSeqEmpty
<1> QED
  BY <1>3, <1>4, <1>5, <1>6, <1>7

(* Parts that are sent, or thrown away, go to the end of the row.          *)
LEMMA RowGrows ==
  ASSUME NEW a \in Parts, NEW b \in Parts, NEW c \in Parts, NEW d \in Parts, NEW e \in Parts,
         NEW p \in Parts
  PROVE  /\ Row(a, b, c, d, Cat(e, p)) = Cat(Row(a, b, c, d, e), p)
         /\ Row(a, b, c, Cat(d, p), <<>>) = Cat(Row(a, b, c, d, <<>>), p)
         /\ Row(a, b, c, <<>>, Cat(<<>>, d)) = Row(a, b, c, d, <<>>)
<1> DEFINE abc == Cat(Cat(a, b), c)  abcd == Cat(abc, d)
<1>a. abc \in Parts
  BY Monoid
<1> HIDE DEF abc
<1>b. abcd \in Parts /\ Cat(d, p) \in Parts
  BY <1>a, Monoid
<1>1. Row(a, b, c, d, Cat(e, p)) = Cat(Row(a, b, c, d, e), p)
  <2> HIDE DEF abcd
  <2>1. Cat(abcd, Cat(e, p)) = Cat(Cat(abcd, e), p)
    BY <1>b, Monoid
  <2> QED
    BY <2>1 DEF Row, abcd, abc
<1>2. Row(a, b, c, Cat(d, p), <<>>) = Cat(Row(a, b, c, d, <<>>), p)
  <2>1. Cat(abc, Cat(d, p)) = Cat(abcd, p) /\ Cat(abc, Cat(d, p)) \in Parts
    BY <1>a, <1>b, Monoid
  <2>2. Cat(Cat(abc, Cat(d, p)), <<>>) = Cat(abc, Cat(d, p)) /\ Cat(abcd, <<>>) = abcd
    BY <1>b, <2>1, Monoid
  <2> QED
    BY <2>1, <2>2 DEF Row, abc
<1>3. Row(a, b, c, <<>>, Cat(<<>>, d)) = Row(a, b, c, d, <<>>)
  BY Monoid DEF Row
<1> QED
  BY <1>1, <1>2, <1>3

LEMMA RowFirst ==
  ASSUME NEW a \in Parts, NEW b \in Parts, NEW c \in Parts, NEW d \in Parts, NEW e \in Parts
  PROVE  /\ Cat(Cat(Cat(b, c), d), e) \in Parts
         /\ Row(a, b, c, d, e) = Cat(a, Cat(Cat(Cat(b, c), d), e))
<1> DEFINE bc == Cat(b, c)  bcd == Cat(bc, d)
<1>1. bc \in Parts /\ Cat(Cat(a, b), c) = Cat(a, bc)
  BY Monoid
<1> HIDE DEF bc
<1>2. bcd \in Parts /\ Cat(Cat(a, bc), d) = Cat(a, bcd)
  BY <1>1, Monoid
<1> HIDE DEF bcd
<1>3. Cat(bcd, e) \in Parts /\ Cat(Cat(a, bcd), e) = Cat(a, Cat(bcd, e))
  BY <1>2, Monoid
<1> QED
  BY <1>1, <1>2, <1>3 DEF Row, bc, bcd
-----------------------------------------------------------------------------
(* The inductive invariant                                                 *)

(* Whoever sends has seen room below the limit, and nobody else sends.     *)
SenderReady == simulator \in {"send", "second"} => sent < MAX_PKGS_AMOUNT

(* Who holds an end of the connection, and in which state that leaves it.  *)
Connected ==
  /\ simulator = "connect" => conn = "none"
  /\ simulator \in {"outer", "send", "second"} => conn # "none"
  /\ conn \in {"none", "queued"} => listener = "none"
  /\ listener \in {"test", "recv", "push", "notify", "close"} => conn = "accepted"

(* Where there cannot be parts.                                            *)
EmptyPlaces ==
  /\ conn \in {"none", "queued", "accepted"} => discarded = <<>>
  /\ conn \in {"closed", "reset"} => wire = <<>>
  /\ listener # "push" => data_chunk = <<>>

(* What happens only after the flag was cleared.                           *)
StoppedFirst ==
  g_keep_running_system =>
    /\ main = "run"
    /\ conn \in {"none", "queued", "accepted"}
    /\ listener \notin {"close", "done"}
    /\ sensor # "close"

SummaryAfterJoin == main \in {"summary", "returned"} => ThreadsDone

(* NothingLostInside, with the row of places and the bound it implies.     *)
Conserved ==
  /\ 2 * Len(Delivered) <= PartsSent
  /\ NothingLostInside

Control == SenderReady /\ Connected /\ EmptyPlaces /\ StoppedFirst /\ SummaryAfterJoin

IInv == TypeOK /\ Control /\ Conserved

-----------------------------------------------------------------------------
LEMMA InitIInv == Init => IInv
<1> SUFFICES ASSUME Init PROVE IInv
  OBVIOUS
<1>1. TypeOK
  BY AmountAssumption DEF Init, TypeOK
<1>2. Control
  BY
    DEF Init, Control, SenderReady, Connected, EmptyPlaces, StoppedFirst,
        SummaryAfterJoin
<1>3. Conserved
  <2>1. Delivered = <<>> /\ Underway = <<>> /\ PartsSent = 0
    BY DEF Init, Delivered, Underway, PartsSent
  <2> QED
    BY <2>1 DEF Conserved, NothingLostInside
<1> QED
  BY <1>1, <1>2, <1>3 DEF IInv

(* What the steps of each thread leave alone.                              *)
SimulatorFrame ==
  UNCHANGED <<g_keep_running_system, main, sensorVars, m_shared_raw_data, parserVars,
              m_shared_telemetry_packets, processorVars>>

SensorFrame ==
  UNCHANGED <<g_keep_running_system, main, simulatorVars, data_chunk, m_shared_raw_data,
              m_accumulated_data, m_shared_telemetry_packets, processorVars>>

ProcessorFrame ==
  UNCHANGED <<g_keep_running_system, main, simulatorVars, network, sensorVars,
              m_shared_raw_data, parserVars>>

(* Every step is one of these, or changes nothing.                         *)
Steps ==
  \/ Connect /\ SimulatorFrame
  \/ GiveUp /\ SimulatorFrame
  \/ StartBatch /\ SimulatorFrame
  \/ SendWhole /\ SimulatorFrame
  \/ SendFirstPart /\ SimulatorFrame
  \/ SendSecondPart /\ SimulatorFrame
  \/ BrokenPipe /\ MainFrame
  \/ InitPipe /\ SensorFrame
  \/ InitPipeFails /\ SensorFrame
  \/ Accept /\ SensorFrame
  \/ StopAccepting /\ SensorFrame
  \/ CloseListening /\ SensorFrame
  \/ ListenTest /\ ListenerFrame
  \/ Recv /\ ListenerFrame
  \/ PushChunk /\ ListenerFrame
  \/ NotifyOne /\ ListenerFrame
  \/ CloseConnection /\ ListenerFrame
  \/ ParserTest /\ ParserFrame
  \/ PopAll /\ ParserFrame
  \/ Block /\ ParserFrame
  \/ Deliver /\ ParserFrame
  \/ EndOfBatch /\ ParserFrame
  \/ SpuriousWakeUp /\ ParserFrame
  \/ ProcessorTest /\ ProcessorFrame
  \/ PopPacket /\ ProcessorFrame
  \/ StopRunning /\ MainFrame
  \/ Join /\ MainFrame
  \/ Return /\ MainFrame
  \/ Stop

LEMMA NextIsASteps == ASSUME Next PROVE Steps
BY DEF Next, Steps, simulator_loop, sensor_loop, listener_loop, parser_loop,
       processor_loop, main_thread, SimulatorFrame, SensorFrame, ProcessorFrame

LEMMA NextControl ==
  ASSUME TypeOK, Control, [Next]_vars
  PROVE  Control'
<1> USE DEF Control, SenderReady, Connected, EmptyPlaces, StoppedFirst,
    SummaryAfterJoin, ThreadsDone
<1> USE DEF simulatorVars, network, sensorVars, parserVars, processorVars
<1>1. CASE (GiveUp \/ StartBatch \/ Connect) /\ SimulatorFrame
  BY <1>1 DEF GiveUp, StartBatch, Connect, Listening, SimulatorFrame, TypeOK
<1>2. CASE SendWhole /\ SimulatorFrame
  BY <1>2 DEF SendWhole, Transmit, CountPacket, SimulatorFrame, TypeOK
<1>3. CASE SendFirstPart /\ SimulatorFrame
  BY <1>3 DEF SendFirstPart, Transmit, SimulatorFrame, TypeOK
<1>4. CASE SendSecondPart /\ SimulatorFrame
  BY <1>4 DEF SendSecondPart, Transmit, CountPacket, SimulatorFrame, TypeOK
<1>5. CASE (BrokenPipe \/ StopRunning \/ Join \/ Return) /\ MainFrame
  BY <1>5
    DEF BrokenPipe, StopRunning, Join, Return, ListenerEnded, ThreadsDone,
        MainFrame, TypeOK
<1>6. CASE (InitPipe \/ InitPipeFails \/ Accept \/ StopAccepting) /\ SensorFrame
  BY <1>6
    DEF InitPipe, InitPipeFails, Accept, StopAccepting, WakeParser, SensorFrame,
        TypeOK
<1>7. CASE CloseListening /\ SensorFrame
  BY <1>7 DEF CloseListening, SensorFrame, TypeOK
<1>8. CASE (ListenTest \/ NotifyOne) /\ ListenerFrame
  BY <1>8 DEF ListenTest, NotifyOne, WakeParser, ListenerFrame, TypeOK
<1>9. CASE Recv /\ ListenerFrame
  BY <1>9 DEF Recv, ListenerFrame, TypeOK
<1>10. CASE PushChunk /\ ListenerFrame
  BY <1>10 DEF PushChunk, ListenerFrame, TypeOK
<1>11. CASE CloseConnection /\ ListenerFrame
  BY <1>11 DEF CloseConnection, ListenerFrame, TypeOK
<1>12. CASE (ParserTest \/ Block \/ EndOfBatch \/ SpuriousWakeUp) /\ ParserFrame
  BY <1>12 DEF ParserTest, Block, EndOfBatch, SpuriousWakeUp, ParserFrame, TypeOK
<1>13. CASE PopAll /\ ParserFrame
  BY <1>13 DEF PopAll, ParserFrame, TypeOK
<1>14. CASE Deliver /\ ParserFrame
  BY <1>14 DEF Deliver, ParserFrame, TypeOK
<1>15. CASE ProcessorTest /\ ProcessorFrame
  BY <1>15 DEF ProcessorTest, ProcessorFrame, TypeOK
<1>16. CASE PopPacket /\ ProcessorFrame
  BY <1>16 DEF PopPacket, ProcessorFrame, TypeOK
<1>17. CASE Stop
  BY <1>17 DEF Stop, TypeOK
<1>18. CASE UNCHANGED vars
  BY <1>18 DEF vars, TypeOK
<1> QED
  BY NextIsASteps, <1>1, <1>2, <1>3, <1>4, <1>5, <1>6, <1>7, <1>8, <1>9, <1>10,
     <1>11, <1>12, <1>13, <1>14, <1>15, <1>16, <1>17, <1>18 DEF Steps

(* What the steps that handle parts do to the places, by type.             *)
LEMMA TransmitType ==
  ASSUME TypeOK, NEW parts \in Seq(Nat), Transmit(parts)
  PROVE  /\ wire' \in Seq(Nat) /\ discarded' \in Seq(Nat)
         /\ conn' \in {"none", "queued", "accepted", "closed", "reset"}
<1>1. wire \in Seq(Nat) /\ discarded \in Seq(Nat)
  BY DEF TypeOK
<1>2. wire \o parts \in Seq(Nat) /\ discarded \o parts \in Seq(Nat)
  BY <1>1, ConcatProperties
<1> QED
  BY <1>1, <1>2 DEF TypeOK, Transmit

LEMMA SentParts ==
  ASSUME TypeOK
  PROVE  /\ <<2 * sent + 1>> \in Seq(Nat)
         /\ <<2 * sent + 2>> \in Seq(Nat)
         /\ <<2 * sent + 1, 2 * sent + 2>> \in Seq(Nat)
<1>1. 2 * sent + 1 \in Nat /\ 2 * sent + 2 \in Nat
  BY AmountAssumption DEF TypeOK
<1> QED
  BY <1>1

LEMMA CountType ==
  ASSUME TypeOK, SenderReady, simulator \in {"send", "second"}, CountPacket
  PROVE  /\ sent' \in 0..MAX_PKGS_AMOUNT
         /\ simulator' \in {"connect", "outer", "send", "second", "done"}
BY AmountAssumption DEF TypeOK, SenderReady, CountPacket

LEMMA CloseType ==
  ASSUME TypeOK
  PROVE  discarded \o wire \in Seq(Nat)
<1>1. wire \in Seq(Nat) /\ discarded \in Seq(Nat)
  BY DEF TypeOK
<1> QED
  BY <1>1, ConcatProperties

LEMMA RecvType ==
  ASSUME TypeOK, Recv
  PROVE  /\ wire' \in Seq(Nat) /\ data_chunk' \in Seq(Nat)
         /\ wire = data_chunk' \o wire'
         /\ data_chunk' # <<>> \/ listener' = "test" \/ listener' = "push"
         /\ listener' \in {"test", "push"}
<1>1. PICK n \in 0..Len(wire) :
        /\ data_chunk' = SubSeq(wire, 1, n)
        /\ wire' = SubSeq(wire, n + 1, Len(wire))
        /\ listener' = IF n = 0 THEN "test" ELSE "push"
  BY DEF Recv
<1>2. wire \in Seq(Nat)
  BY DEF TypeOK
<1>3. /\ SubSeq(wire, 1, n) \in Seq(Nat) /\ SubSeq(wire, n + 1, Len(wire)) \in Seq(Nat)
      /\ SubSeq(wire, 1, n) \o SubSeq(wire, n + 1, Len(wire)) = wire
  BY <1>2, PrefixAndRest
<1> QED
  BY <1>1, <1>3

LEMMA DeliverType ==
  ASSUME TypeOK, Deliver
  PROVE  /\ m_accumulated_data' \in Seq(Nat)
         /\ m_shared_telemetry_packets' \in Seq(Nat)
         /\ m_accumulated_data[2] \div 2 \in Nat
<1> DEFINE a == m_accumulated_data
<1>1. a \in Seq(Nat) /\ Len(a) \in Nat /\ \A k \in 1..Len(a) : a[k] \in Nat
  <2>1. a \in Seq(Nat)
    BY DEF TypeOK
  <2> QED
    BY <2>1, ElementOfSeq
<1>2. SubSeq(a, 3, Len(a)) \in Seq(Nat)
  <2>1. \A k \in 3..Len(a) : a[k] \in Nat
    BY <1>1
  <2>2. 3 \in Int /\ Len(a) \in Int
    BY <1>1
  <2> QED
    BY <2>1, <2>2, SubSeqProperties
<1>3. a[2] \div 2 \in Nat
  <2>1. 2 \in 1..Len(a)
    BY <1>1 DEF Deliver
  <2>2. a[2] \in Nat
    BY <1>1, <2>1
  <2>3. \A x \in Nat : x \div 2 \in Nat
    OBVIOUS
  <2> QED
    BY <2>2, <2>3
<1>4. /\ m_shared_telemetry_packets' = Append(m_shared_telemetry_packets, a[2] \div 2)
      /\ m_shared_telemetry_packets \in Seq(Nat)
      /\ m_accumulated_data' = SubSeq(a, 3, Len(a))
  BY DEF TypeOK, Deliver
<1> HIDE DEF a
<1>5. Append(m_shared_telemetry_packets, a[2] \div 2) \in Seq(Nat)
  BY <1>3, <1>4, AppendProperties
<1> QED
  BY <1>2, <1>3, <1>4, <1>5 DEF a

LEMMA PopType ==
  ASSUME TypeOK, PopPacket
  PROVE  processed' \in Seq(Nat) /\ m_shared_telemetry_packets' \in Seq(Nat)
<1> DEFINE q == m_shared_telemetry_packets
<1>1. q \in Seq(Nat) /\ processed \in Seq(Nat)
  BY DEF TypeOK
<1>2. CASE q = <<>>
  BY <1>1, <1>2 DEF PopPacket
<1>3. CASE q # <<>>
  <2>1. Head(q) \in Nat /\ Tail(q) \in Seq(Nat)
    BY <1>1, <1>3, HeadTailProperties
  <2>2. Append(processed, Head(q)) \in Seq(Nat)
    BY <1>1, <2>1, AppendProperties
  <2> QED
    BY <1>3, <2>1, <2>2 DEF PopPacket
<1> QED
  BY <1>2, <1>3

LEMMA NextTypeOK ==
  ASSUME TypeOK, SenderReady, [Next]_vars
  PROVE  TypeOK'
<1> USE DEF simulatorVars, network, sensorVars, parserVars, processorVars
<1>1. CASE (GiveUp \/ StartBatch \/ Connect) /\ SimulatorFrame
  BY <1>1 DEF GiveUp, StartBatch, Connect, Listening, SimulatorFrame, TypeOK
<1>2. CASE SendWhole /\ SimulatorFrame
  <2>1. /\ wire' \in Seq(Nat) /\ discarded' \in Seq(Nat)
        /\ conn' \in {"none", "queued", "accepted", "closed", "reset"}
    <3>1. Transmit(<<2 * sent + 1, 2 * sent + 2>>)
      BY <1>2 DEF SendWhole
    <3> QED
      BY <3>1, SentParts, TransmitType
  <2>2. /\ sent' \in 0..MAX_PKGS_AMOUNT
        /\ simulator' \in {"connect", "outer", "send", "second", "done"}
    BY <1>2, CountType DEF SendWhole
  <2>3. UNCHANGED <<g_keep_running_system, main, sensor, listener, data_chunk,
                 m_shared_raw_data, parser, m_accumulated_data, m_shared_telemetry_packets, processor,
                 processed>>
    BY <1>2 DEF SimulatorFrame
  <2> QED
    BY <2>1, <2>2, <2>3 DEF TypeOK
<1>3. CASE SendFirstPart /\ SimulatorFrame
  <2>1. /\ wire' \in Seq(Nat) /\ discarded' \in Seq(Nat)
        /\ conn' \in {"none", "queued", "accepted", "closed", "reset"}
    <3>1. Transmit(<<2 * sent + 1>>)
      BY <1>3 DEF SendFirstPart
    <3> QED
      BY <3>1, SentParts, TransmitType
  <2>2. /\ sent' \in 0..MAX_PKGS_AMOUNT
        /\ simulator' \in {"connect", "outer", "send", "second", "done"}
    BY <1>3 DEF SendFirstPart, TypeOK
  <2>3. UNCHANGED <<g_keep_running_system, main, sensor, listener, data_chunk,
                 m_shared_raw_data, parser, m_accumulated_data, m_shared_telemetry_packets, processor,
                 processed>>
    BY <1>3 DEF SimulatorFrame
  <2> QED
    BY <2>1, <2>2, <2>3 DEF TypeOK
<1>4. CASE SendSecondPart /\ SimulatorFrame
  <2>1. /\ wire' \in Seq(Nat) /\ discarded' \in Seq(Nat)
        /\ conn' \in {"none", "queued", "accepted", "closed", "reset"}
    <3>1. Transmit(<<2 * sent + 2>>)
      BY <1>4 DEF SendSecondPart
    <3> QED
      BY <3>1, SentParts, TransmitType
  <2>2. /\ sent' \in 0..MAX_PKGS_AMOUNT
        /\ simulator' \in {"connect", "outer", "send", "second", "done"}
    BY <1>4, CountType DEF SendSecondPart
  <2>3. UNCHANGED <<g_keep_running_system, main, sensor, listener, data_chunk,
                 m_shared_raw_data, parser, m_accumulated_data, m_shared_telemetry_packets, processor,
                 processed>>
    BY <1>4 DEF SimulatorFrame
  <2> QED
    BY <2>1, <2>2, <2>3 DEF TypeOK
<1>5. CASE (BrokenPipe \/ StopRunning \/ Join \/ Return) /\ MainFrame
  BY <1>5
    DEF BrokenPipe, StopRunning, Join, Return, ListenerEnded, ThreadsDone,
        MainFrame, TypeOK
<1>6. CASE (InitPipe \/ InitPipeFails \/ Accept \/ StopAccepting) /\ SensorFrame
  BY <1>6
    DEF InitPipe, InitPipeFails, Accept, StopAccepting, WakeParser, SensorFrame,
        TypeOK
<1>7. CASE CloseListening /\ SensorFrame
  <2>1. /\ wire' \in Seq(Nat) /\ discarded' \in Seq(Nat)
        /\ conn' \in {"none", "queued", "accepted", "closed", "reset"}
    <3>1. CASE conn = "queued"
      <4>1. wire' = <<>> /\ discarded' = discarded \o wire /\ conn' = "reset"
        BY <1>7, <3>1 DEF CloseListening
      <4> QED
        BY <4>1, CloseType
    <3>2. CASE conn # "queued"
      <4>1. wire' = wire /\ discarded' = discarded /\ conn' = conn
        BY <1>7, <3>2 DEF CloseListening
      <4> QED
        BY <4>1 DEF TypeOK
    <3> QED
      BY <3>1, <3>2
  <2>2. sensor' = "done"
    BY <1>7 DEF CloseListening
  <2>3. UNCHANGED <<g_keep_running_system, main, simulator, sent, listener,
                 data_chunk, m_shared_raw_data, parser, m_accumulated_data, m_shared_telemetry_packets,
                 processor, processed>>
    BY <1>7 DEF CloseListening, SensorFrame
  <2> QED
    BY <2>1, <2>2, <2>3 DEF TypeOK
<1>8. CASE (ListenTest \/ NotifyOne) /\ ListenerFrame
  BY <1>8 DEF ListenTest, NotifyOne, WakeParser, ListenerFrame, TypeOK
<1>9. CASE Recv /\ ListenerFrame
  <2>1. /\ wire' \in Seq(Nat) /\ data_chunk' \in Seq(Nat)
        /\ listener' \in {"test", "push"}
    BY <1>9, RecvType
  <2>2. UNCHANGED <<g_keep_running_system, main, simulator, sent, conn,
                 discarded, sensor, m_shared_raw_data, parser, m_accumulated_data,
                 m_shared_telemetry_packets, processor, processed>>
    BY <1>9 DEF Recv, ListenerFrame
  <2> QED
    BY <2>1, <2>2 DEF TypeOK
<1>10. CASE PushChunk /\ ListenerFrame
  BY <1>10 DEF PushChunk, ListenerFrame, TypeOK
<1>11. CASE CloseConnection /\ ListenerFrame
  BY <1>11, CloseType DEF CloseConnection, ListenerFrame, TypeOK
<1>12. CASE (ParserTest \/ Block \/ EndOfBatch \/ SpuriousWakeUp) /\ ParserFrame
  BY <1>12 DEF ParserTest, Block, EndOfBatch, SpuriousWakeUp, ParserFrame, TypeOK
<1>13. CASE PopAll /\ ParserFrame
  BY <1>13 DEF PopAll, ParserFrame, TypeOK
<1>14. CASE Deliver /\ ParserFrame
  BY <1>14, DeliverType DEF Deliver, ParserFrame, TypeOK
<1>15. CASE ProcessorTest /\ ProcessorFrame
  BY <1>15 DEF ProcessorTest, ProcessorFrame, TypeOK
<1>16. CASE PopPacket /\ ProcessorFrame
  BY <1>16, PopType DEF PopPacket, ProcessorFrame, TypeOK
<1>17. CASE Stop
  <2>1. g_keep_running_system' \in BOOLEAN
    BY <1>17 DEF Stop
  <2>2. UNCHANGED <<main, simulator, sent, conn, wire,
                 discarded, sensor, listener, data_chunk, m_shared_raw_data,
                 parser, m_accumulated_data, m_shared_telemetry_packets, processor, processed>>
    BY <1>17 DEF Stop
  <2> QED
    BY <2>1, <2>2 DEF TypeOK
<1>18. CASE UNCHANGED vars
  BY <1>18 DEF vars, TypeOK
<1> QED
  BY NextIsASteps, <1>1, <1>2, <1>3, <1>4, <1>5, <1>6, <1>7, <1>8, <1>9, <1>10,
     <1>11, <1>12, <1>13, <1>14, <1>15, <1>16, <1>17, <1>18 DEF Steps

-----------------------------------------------------------------------------
(* NothingLostInside, as a relation of three values: what was delivered,   *)
(* the row of places, and the number of parts that were sent.              *)

Places == Row(m_accumulated_data, m_shared_raw_data, data_chunk, wire, discarded)

KeptInOrder(del, row, p) ==
  /\ 2 * Len(del) <= p
  /\ del = Numbers(0, Len(del))
  /\ row = Numbers(2 * Len(del), p - 2 * Len(del))

LEMMA NumbersFromZero == \A n \in Nat : Numbers(0, n) = [k \in 1..n |-> k]
BY DEF Numbers

LEMMA ConservedIs ==
  /\ Len(Delivered) \in Nat => (Conserved <=> KeptInOrder(Delivered, Places, PartsSent))
  /\ Len(Delivered') \in Nat =>
       (Conserved' <=> KeptInOrder(Delivered', Places', PartsSent'))
<1>1. Places = Underway /\ Places' = Underway'
  BY DEF Places, Underway, Row, Cat
<1>2. ASSUME Len(Delivered) \in Nat
      PROVE  Conserved <=> KeptInOrder(Delivered, Places, PartsSent)
  <2>1. Numbers(0, Len(Delivered)) = [n \in 1..Len(Delivered) |-> n]
    BY <1>2, NumbersFromZero
  <2> QED
    BY <1>1, <2>1 DEF Conserved, NothingLostInside, KeptInOrder, Numbers
<1>3. ASSUME Len(Delivered') \in Nat
      PROVE  Conserved' <=> KeptInOrder(Delivered', Places', PartsSent')
  <2>1. Numbers(0, Len(Delivered')) = [n \in 1..Len(Delivered') |-> n]
    BY <1>3, NumbersFromZero
  <2> QED
    BY <1>1, <2>1 DEF Conserved, NothingLostInside, KeptInOrder, Numbers
<1> QED
  BY <1>2, <1>3

LEMMA KeptWhenSent ==
  ASSUME NEW del \in Seq(Nat), NEW row, NEW p \in Nat, KeptInOrder(del, row, p)
  PROVE  /\ KeptInOrder(del, Cat(row, <<p + 1>>), p + 1)
         /\ KeptInOrder(del, Cat(row, <<p + 1, p + 2>>), p + 2)
<1> DEFINE f == 2 * Len(del)  n == p - f
<1>1. f \in Nat /\ n \in Nat /\ f <= p /\ row = Numbers(f, n)
  <2>1. Len(del) \in Nat
    BY ElementOfSeq
  <2>2. f \in Nat /\ f <= p
    BY <2>1 DEF KeptInOrder
  <2>3. \A x, y \in Nat : x <= y => y - x \in Nat
    OBVIOUS
  <2>4. row = Numbers(f, n)
    BY DEF KeptInOrder
  <2> HIDE DEF f
  <2> QED
    BY <2>2, <2>3, <2>4
<1>2. /\ del = Numbers(0, Len(del))
  BY DEF KeptInOrder
<1>3. /\ f + n + 1 = p + 1 /\ f + n + 2 = p + 2
      /\ (p + 1) - f = n + 1 /\ (p + 2) - f = n + 2
      /\ f <= p + 1 /\ f <= p + 2
  <2> HIDE DEF f
  <2> QED
    BY <1>1
<1>4. Cat(row, <<p + 1>>) = Numbers(f, n + 1)
  <2> HIDE DEF f, n
  <2>1. Numbers(f, n) \o <<f + n + 1>> = Numbers(f, n + 1)
    BY <1>1, OneMore
  <2> QED
    BY <1>1, <1>3, <2>1 DEF Cat
<1>5. Cat(row, <<p + 1, p + 2>>) = Numbers(f, n + 2)
  <2> HIDE DEF f, n
  <2>1. Numbers(f, n) \o <<f + n + 1, f + n + 2>> = Numbers(f, n + 2)
    BY <1>1, TwoMore
  <2> QED
    BY <1>1, <1>3, <2>1 DEF Cat
<1>6. KeptInOrder(del, Cat(row, <<p + 1>>), p + 1)
  BY <1>2, <1>3, <1>4 DEF KeptInOrder
<1>7. KeptInOrder(del, Cat(row, <<p + 1, p + 2>>), p + 2)
  BY <1>2, <1>3, <1>5 DEF KeptInOrder
<1> QED
  BY <1>6, <1>7

LEMMA KeptWhenDelivered ==
  ASSUME NEW del \in Seq(Nat), NEW p \in Nat,
         NEW a \in Parts, NEW b \in Parts, NEW c \in Parts, NEW d \in Parts, NEW e \in Parts,
         KeptInOrder(del, Row(a, b, c, d, e), p), Len(a) >= 2
  PROVE  KeptInOrder(Append(del, a[2] \div 2), Row(SubSeq(a, 3, Len(a)), b, c, d, e), p)
<1> DEFINE l == Len(del)  f == 2 * l  n == p - f  r == Cat(Cat(Cat(b, c), d), e)
           a2 == SubSeq(a, 3, Len(a))  del2 == Append(del, a[2] \div 2)
<1>1. l \in Nat
  BY ElementOfSeq
<1>2. f \in Nat /\ n \in Nat
  <2>1. f \in Nat /\ f <= p
    BY <1>1 DEF KeptInOrder
  <2>2. \A x, y \in Nat : x <= y => y - x \in Nat
    OBVIOUS
  <2> HIDE DEF f
  <2> QED
    BY <2>1, <2>2
<1>3. r \in Parts /\ Cat(a, r) = Numbers(f, n)
  <2>1. r \in Parts /\ Row(a, b, c, d, e) = Cat(a, r)
    BY RowFirst
  <2> QED
    BY <2>1 DEF KeptInOrder
<1>4. /\ n >= 2 /\ a[2] = f + 2
      /\ a2 \in Seq(Nat)
      /\ a2 \o r = Numbers(f + 2, n - 2)
  <2> HIDE DEF f, n, r
  <2>1. Len(a) >= 2 /\ r \in Parts /\ Cat(a, r) = Numbers(f, n)
    BY <1>3
  <2>2. /\ n >= 2 /\ a[2] = f + 2
        /\ Rest(a) \in Parts
        /\ Cat(Rest(a), r) = Numbers(f + 2, n - 2)
    BY <1>2, <2>1, RestOfNumbers
  <2> QED
    BY <2>2 DEF Rest, Cat, Parts
<1>5. Row(a2, b, c, d, e) = Numbers(f + 2, n - 2)
  <2>1. a2 \in Parts
    BY <1>4 DEF Parts
  <2> HIDE DEF a2
  <2>2. Row(a2, b, c, d, e) = Cat(a2, r)
    BY <2>1, RowFirst
  <2> QED
    BY <1>4, <2>2 DEF Cat
<1>6. a[2] \div 2 = l + 1
  <2>1. \A k \in Nat : (2 * k + 2) \div 2 = k + 1
    OBVIOUS
  <2> QED
    BY <1>1, <1>4, <2>1
<1>7. del2 = Numbers(0, l + 1) /\ Len(del2) = l + 1
  <2>1. del = Numbers(0, l)
    BY DEF KeptInOrder
  <2> HIDE DEF l
  <2>2. Append(Numbers(0, l), 0 + l + 1) = Numbers(0, l + 1)
    BY <1>1, OneMore
  <2>3. 0 + l + 1 = l + 1 /\ l + 1 \in Nat /\ 0 \in Nat
    BY <1>1
  <2>4. Len(Numbers(0, l + 1)) = l + 1
    BY <2>3, NumbersIsSeq
  <2> QED
    BY <1>6, <2>1, <2>2, <2>3, <2>4
<1>8. 2 * (l + 1) = f + 2 /\ p - (f + 2) = n - 2 /\ f + 2 <= p
  <2>1. 2 * (l + 1) = f + 2
    BY <1>1
  <2>2. \A x \in Nat : p - (x + 2) = (p - x) - 2 /\ (p - x >= 2 => x + 2 <= p)
    OBVIOUS
  <2>3. f \in Nat /\ p - f >= 2
    BY <1>2, <1>4
  <2> HIDE DEF f, l
  <2> QED
    BY <2>1, <2>2, <2>3
<1> HIDE DEF l, f, n, a2, del2
<1>9. KeptInOrder(del2, Row(a2, b, c, d, e), p)
  BY <1>5, <1>7, <1>8 DEF KeptInOrder
<1> QED
  BY <1>9 DEF a2, del2

-----------------------------------------------------------------------------
(* What each kind of step does to the three values.                        *)

LEMMA ValuesAreTyped ==
  ASSUME TypeOK
  PROVE  /\ Delivered \in Seq(Nat) /\ Len(Delivered) \in Nat
         /\ PartsSent \in Nat
         /\ m_accumulated_data \in Parts /\ m_shared_raw_data \in Parts
         /\ data_chunk \in Parts /\ wire \in Parts /\ discarded \in Parts
<1>1. processed \in Seq(Nat) /\ m_shared_telemetry_packets \in Seq(Nat)
  BY DEF TypeOK
<1>2. Delivered \in Seq(Nat)
  BY <1>1, ConcatProperties DEF Delivered
<1>3. PartsSent \in Nat
  <2>1. sent \in Nat
    BY AmountAssumption DEF TypeOK
  <2> QED
    BY <2>1 DEF PartsSent
<1>4. Len(Delivered) \in Nat
  BY <1>2, ElementOfSeq
<1> QED
  BY <1>2, <1>3, <1>4 DEF TypeOK, Parts

LEMMA NothingMoves ==
  ASSUME UNCHANGED <<m_accumulated_data, m_shared_raw_data, data_chunk, wire, discarded>>
  PROVE  Places' = Places
BY DEF Places

LEMMA TransmitGrows ==
  ASSUME TypeOK, EmptyPlaces, NEW parts \in Parts, Transmit(parts),
         UNCHANGED <<m_accumulated_data, m_shared_raw_data, data_chunk>>
  PROVE  Places' = Cat(Places, parts)
<1> DEFINE a == m_accumulated_data  b == m_shared_raw_data  c == data_chunk
<1>1. a \in Parts /\ b \in Parts /\ c \in Parts /\ wire \in Parts /\ discarded \in Parts
  BY ValuesAreTyped
<1>2. Places' = Row(a, b, c, wire', discarded')
  BY DEF Places
<1>3. CASE conn \in {"queued", "accepted"}
  <2>1. wire' = Cat(wire, parts) /\ discarded = <<>> /\ discarded' = <<>>
    BY <1>3 DEF Transmit, EmptyPlaces, Cat
  <2>2. Row(a, b, c, Cat(wire, parts), <<>>) = Cat(Row(a, b, c, wire, <<>>), parts)
    BY <1>1, RowGrows
  <2> QED
    BY <1>2, <2>1, <2>2 DEF Places
<1>4. CASE conn \notin {"queued", "accepted"}
  <2>1. wire' = wire /\ discarded' = Cat(discarded, parts)
    BY <1>4 DEF Transmit, Cat
  <2>2. Row(a, b, c, wire, Cat(discarded, parts)) = Cat(Row(a, b, c, wire, discarded), parts)
    BY <1>1, RowGrows
  <2> QED
    BY <1>2, <2>1, <2>2 DEF Places
<1> QED
  BY <1>3, <1>4

(* What was not read goes from the socket to what is thrown away.          *)
LEMMA ClosingMoves ==
  ASSUME TypeOK, discarded = <<>>, wire' = <<>>, discarded' = discarded \o wire,
         UNCHANGED <<m_accumulated_data, m_shared_raw_data, data_chunk>>
  PROVE  Places' = Places
<1> DEFINE a == m_accumulated_data  b == m_shared_raw_data  c == data_chunk
<1>1. a \in Parts /\ b \in Parts /\ c \in Parts /\ wire \in Parts /\ <<>> \in Parts
  BY ValuesAreTyped, Monoid
<1>2. Row(a, b, c, <<>>, Cat(<<>>, wire)) = Row(a, b, c, wire, <<>>)
  BY <1>1, RowGrows
<1>3. discarded' = Cat(<<>>, wire)
  BY DEF Cat
<1> QED
  BY <1>2, <1>3 DEF Places

LEMMA RecvMoves ==
  ASSUME TypeOK, EmptyPlaces, Recv,
         UNCHANGED <<m_accumulated_data, m_shared_raw_data, discarded>>
  PROVE  Places' = Places
<1> DEFINE a == m_accumulated_data  b == m_shared_raw_data
<1>1. a \in Parts /\ b \in Parts /\ discarded \in Parts
  BY ValuesAreTyped
<1>2. data_chunk' \in Parts /\ wire' \in Parts /\ wire = Cat(data_chunk', wire')
  BY RecvType DEF Parts, Cat
<1>3. data_chunk = <<>>
  BY DEF Recv, EmptyPlaces
<1>4. Row(a, b, <<>>, Cat(data_chunk', wire'), discarded)
        = Row(a, b, data_chunk', wire', discarded)
  BY <1>1, <1>2, RowMoves
<1> QED
  BY <1>2, <1>3, <1>4 DEF Places

LEMMA PushMoves ==
  ASSUME TypeOK, PushChunk, UNCHANGED <<m_accumulated_data, wire, discarded>>
  PROVE  Places' = Places
<1>1. m_shared_raw_data' = Cat(m_shared_raw_data, data_chunk) /\ data_chunk' = <<>>
  BY DEF PushChunk, Cat
<1>2. Row(m_accumulated_data, Cat(m_shared_raw_data, data_chunk), <<>>, wire, discarded)
        = Row(m_accumulated_data, m_shared_raw_data, data_chunk, wire, discarded)
  BY ValuesAreTyped, RowMoves
<1> QED
  BY <1>1, <1>2 DEF Places

LEMMA PopAllMoves ==
  ASSUME TypeOK, PopAll, UNCHANGED <<data_chunk, wire, discarded>>
  PROVE  Places' = Places
<1>1. /\ m_accumulated_data' = Cat(m_accumulated_data, m_shared_raw_data)
      /\ m_shared_raw_data' = <<>>
  BY DEF PopAll, Cat
<1>2. Row(Cat(m_accumulated_data, m_shared_raw_data), <<>>, data_chunk, wire, discarded)
        = Row(m_accumulated_data, m_shared_raw_data, data_chunk, wire, discarded)
  BY ValuesAreTyped, RowMoves
<1> QED
  BY <1>1, <1>2 DEF Places

LEMMA Singleton ==
  \A x \in Nat : <<x>> \in Seq(Nat) /\ Len(<<x>>) = 1 /\ <<x>>[1] = x
OBVIOUS

LEMMA HeadThenTail ==
  ASSUME NEW q \in Seq(Nat), q # <<>>
  PROVE  q = <<Head(q)>> \o Tail(q)
<1>1. Len(q) \in Nat /\ Len(q) > 0
  BY EmptySeq
<1>2. /\ 1 \in 1..Len(q) /\ Len(q) \in 1..Len(q) /\ 1 + 1 = 2
  BY <1>1
<1>3. SubSeq(q, 1, Len(q)) = q
  BY SubSeqFull
<1>4. Head(SubSeq(q, 1, Len(q))) = q[1] /\ Tail(SubSeq(q, 1, Len(q))) = SubSeq(q, 1 + 1, Len(q))
  BY <1>2, HeadTailOfSubSeq
<1>5. SubSeq(q, 1, Len(q)) = <<q[1]>> \o SubSeq(q, 1 + 1, Len(q))
  BY <1>2, SubSeqRecursiveFirst
<1>6. Head(q) = q[1] /\ Tail(q) = SubSeq(q, 1 + 1, Len(q))
  BY <1>3, <1>4, Zenon
<1> QED
  BY <1>3, <1>5, <1>6, Zenon

(* The processor moves a packet from the queue to those it has handled.    *)
LEMMA PopPacketMoves ==
  ASSUME TypeOK, PopPacket
  PROVE  Delivered' = Delivered
<1> DEFINE q == m_shared_telemetry_packets
<1>1. q \in Seq(Nat) /\ processed \in Seq(Nat)
  BY DEF TypeOK
<1>2. CASE q = <<>>
  BY <1>2 DEF PopPacket, Delivered
<1>3. CASE q # <<>>
  <2>1. /\ processed' = Append(processed, Head(q))
        /\ m_shared_telemetry_packets' = Tail(q)
    BY <1>3 DEF PopPacket
  <2> HIDE DEF q
  <2>2. Head(q) \in Nat /\ Tail(q) \in Seq(Nat) /\ q = <<Head(q)>> \o Tail(q)
    BY <1>1, <1>3, HeadTailProperties, HeadThenTail
  <2>3. Append(processed, Head(q)) = processed \o <<Head(q)>> /\ <<Head(q)>> \in Seq(Nat)
    BY <1>1, <2>2, AppendIsConcat
  <2>4. \A x, y, z \in Parts : Cat(Cat(x, y), z) = Cat(x, Cat(y, z))
    BY Monoid
  <2>5. Cat(Cat(processed, <<Head(q)>>), Tail(q)) = Cat(processed, Cat(<<Head(q)>>, Tail(q)))
    BY <1>1, <2>2, <2>3, <2>4 DEF Parts
  <2> QED
    BY <2>1, <2>2, <2>3, <2>5 DEF Delivered, Cat, q
<1> QED
  BY <1>2, <1>3

LEMMA DeliverMoves ==
  ASSUME TypeOK, Deliver, UNCHANGED <<processed, data_chunk, wire, discarded>>
  PROVE  /\ Delivered' = Append(Delivered, m_accumulated_data[2] \div 2)
         /\ Places' = Row(SubSeq(m_accumulated_data, 3, Len(m_accumulated_data)),
                           m_shared_raw_data, data_chunk, wire, discarded)
<1> DEFINE q == m_shared_telemetry_packets  x == m_accumulated_data[2] \div 2
<1>1. q \in Seq(Nat) /\ processed \in Seq(Nat) /\ x \in Nat
  BY DeliverType DEF TypeOK
<1>2. m_shared_telemetry_packets' = Append(q, x)
  BY DEF Deliver
<1>3. /\ m_accumulated_data' = SubSeq(m_accumulated_data, 3, Len(m_accumulated_data))
      /\ m_shared_raw_data' = m_shared_raw_data
  BY DEF Deliver
<1> HIDE DEF q, x
<1>4. /\ <<x>> \in Seq(Nat) /\ Append(q, x) = q \o <<x>>
      /\ processed \o q \in Seq(Nat)
      /\ Append(processed \o q, x) = (processed \o q) \o <<x>>
  <2>1. processed \o q \in Seq(Nat)
    BY <1>1, ConcatProperties
  <2>2. Append(q, x) = q \o <<x>>
    BY <1>1, AppendIsConcat
  <2>3. \A y \in Seq(Nat) : Append(y, x) = y \o <<x>>
    BY <1>1, AppendIsConcat
  <2>4. <<x>> \in Seq(Nat)
    BY <1>1, Singleton
  <2> QED
    BY <2>1, <2>2, <2>3, <2>4, Zenon
<1>5. Cat(Cat(processed, q), <<x>>) = Cat(processed, Cat(q, <<x>>))
  <2>1. processed \in Parts /\ q \in Parts /\ <<x>> \in Parts
    BY <1>1, <1>4 DEF Parts
  <2> QED
    BY <2>1, Monoid
<1>6. Delivered' = Append(Delivered, x)
  BY <1>2, <1>4, <1>5 DEF Delivered, Cat, q
<1>7. Places' = Row(SubSeq(m_accumulated_data, 3, Len(m_accumulated_data)),
                    m_shared_raw_data, data_chunk, wire, discarded)
  BY <1>3 DEF Places
<1> QED
  BY <1>6, <1>7 DEF x

-----------------------------------------------------------------------------
(* Every step keeps the invariant.                                         *)

LEMMA NextConserved ==
  ASSUME IInv, TypeOK', [Next]_vars
  PROVE  Conserved'
<1> USE DEF simulatorVars, network, sensorVars, parserVars, processorVars
<1>1. /\ TypeOK /\ SenderReady /\ Connected /\ EmptyPlaces
      /\ Delivered \in Seq(Nat) /\ Len(Delivered) \in Nat /\ PartsSent \in Nat
      /\ KeptInOrder(Delivered, Places, PartsSent)
  <2>1. TypeOK /\ SenderReady /\ Connected /\ EmptyPlaces /\ Conserved
    BY DEF IInv, Control
  <2> QED
    BY <2>1, ValuesAreTyped, ConservedIs
<1>2. Len(Delivered') \in Nat
  <2>1. processed' \in Seq(Nat) /\ m_shared_telemetry_packets' \in Seq(Nat)
    BY DEF TypeOK
  <2>2. Delivered' \in Seq(Nat)
    BY <2>1, ConcatProperties DEF Delivered
  <2> QED
    BY <2>2, ElementOfSeq
<1> SUFFICES KeptInOrder(Delivered', Places', PartsSent')
  BY <1>2, ConservedIs
<1>3. ASSUME Delivered' = Delivered, Places' = Places, PartsSent' = PartsSent
      PROVE  KeptInOrder(Delivered', Places', PartsSent')
  BY <1>1, <1>3
<1>4. CASE (GiveUp \/ StartBatch \/ Connect) /\ SimulatorFrame
  <2>1. Delivered' = Delivered
    BY <1>4 DEF Delivered, GiveUp, StartBatch, Connect, SimulatorFrame
  <2>2. Places' = Places
    BY <1>4, NothingMoves DEF GiveUp, StartBatch, Connect, Listening, SimulatorFrame
  <2>3. PartsSent' = PartsSent
    BY <1>4 DEF PartsSent, GiveUp, StartBatch, Connect, SimulatorFrame
  <2> QED
    BY <1>3, <2>1, <2>2, <2>3
<1>5. CASE SendWhole /\ SimulatorFrame
  <2>1. Delivered' = Delivered
    BY <1>5 DEF Delivered, SimulatorFrame
  <2>2. PartsSent = 2 * sent /\ PartsSent' = PartsSent + 2
    <3>1. sent \in Nat
      BY <1>1, AmountAssumption DEF TypeOK
    <3> QED
      BY <1>5, <3>1 DEF PartsSent, SendWhole, CountPacket
  <2>3. <<2 * sent + 1, 2 * sent + 2>> = <<PartsSent + 1, PartsSent + 2>>
    <3>1. sent \in Nat
      BY <1>1, AmountAssumption DEF TypeOK
    <3> QED
      BY <2>2, <3>1
  <2>4. Places' = Cat(Places, <<PartsSent + 1, PartsSent + 2>>)
    <3>1. Transmit(<<2 * sent + 1, 2 * sent + 2>>) /\ <<2 * sent + 1, 2 * sent + 2>> \in Parts
      BY <1>5, <1>1, SentParts DEF SendWhole, Parts
    <3>2. UNCHANGED <<m_accumulated_data, m_shared_raw_data, data_chunk>>
      BY <1>5 DEF SimulatorFrame
    <3>3. Places' = Cat(Places, <<2 * sent + 1, 2 * sent + 2>>)
      BY <1>1, <3>1, <3>2, TransmitGrows
    <3> QED
      BY <2>3, <3>3, Zenon
  <2>5. KeptInOrder(Delivered, Cat(Places, <<PartsSent + 1, PartsSent + 2>>), PartsSent + 2)
    BY <1>1, KeptWhenSent
  <2> QED
    BY <2>1, <2>2, <2>4, <2>5
<1>6. CASE SendFirstPart /\ SimulatorFrame
  <2>1. Delivered' = Delivered
    BY <1>6 DEF Delivered, SimulatorFrame
  <2>2. PartsSent = 2 * sent /\ PartsSent' = PartsSent + 1
    <3>1. sent \in Nat
      BY <1>1, AmountAssumption DEF TypeOK
    <3> QED
      BY <1>6, <3>1 DEF PartsSent, SendFirstPart
  <2>3. <<2 * sent + 1>> = <<PartsSent + 1>>
    <3>1. sent \in Nat
      BY <1>1, AmountAssumption DEF TypeOK
    <3> QED
      BY <2>2, <3>1
  <2>4. Places' = Cat(Places, <<PartsSent + 1>>)
    <3>1. Transmit(<<2 * sent + 1>>) /\ <<2 * sent + 1>> \in Parts
      BY <1>6, <1>1, SentParts DEF SendFirstPart, Parts
    <3>2. UNCHANGED <<m_accumulated_data, m_shared_raw_data, data_chunk>>
      BY <1>6 DEF SimulatorFrame
    <3>3. Places' = Cat(Places, <<2 * sent + 1>>)
      BY <1>1, <3>1, <3>2, TransmitGrows
    <3> QED
      BY <2>3, <3>3, Zenon
  <2>5. KeptInOrder(Delivered, Cat(Places, <<PartsSent + 1>>), PartsSent + 1)
    BY <1>1, KeptWhenSent
  <2> QED
    BY <2>1, <2>2, <2>4, <2>5
<1>7. CASE SendSecondPart /\ SimulatorFrame
  <2>1. Delivered' = Delivered
    BY <1>7 DEF Delivered, SimulatorFrame
  <2>2. PartsSent = 2 * sent + 1 /\ PartsSent' = PartsSent + 1
    <3>1. sent \in Nat
      BY <1>1, AmountAssumption DEF TypeOK
    <3> QED
      BY <1>7, <3>1 DEF PartsSent, SendSecondPart, CountPacket
  <2>3. <<2 * sent + 2>> = <<PartsSent + 1>>
    <3>1. sent \in Nat
      BY <1>1, AmountAssumption DEF TypeOK
    <3> QED
      BY <2>2, <3>1
  <2>4. Places' = Cat(Places, <<PartsSent + 1>>)
    <3>1. Transmit(<<2 * sent + 2>>) /\ <<2 * sent + 2>> \in Parts
      BY <1>7, <1>1, SentParts DEF SendSecondPart, Parts
    <3>2. UNCHANGED <<m_accumulated_data, m_shared_raw_data, data_chunk>>
      BY <1>7 DEF SimulatorFrame
    <3>3. Places' = Cat(Places, <<2 * sent + 2>>)
      BY <1>1, <3>1, <3>2, TransmitGrows
    <3> QED
      BY <2>3, <3>3, Zenon
  <2>5. KeptInOrder(Delivered, Cat(Places, <<PartsSent + 1>>), PartsSent + 1)
    BY <1>1, KeptWhenSent
  <2> QED
    BY <2>1, <2>2, <2>4, <2>5
<1>8. CASE (BrokenPipe \/ StopRunning \/ Join \/ Return) /\ MainFrame
  <2>1. Delivered' = Delivered
    BY <1>8
      DEF Delivered, BrokenPipe, StopRunning, Join, Return, ListenerEnded,
          ThreadsDone, MainFrame
  <2>2. Places' = Places
    BY <1>8, NothingMoves
      DEF BrokenPipe, StopRunning, Join, Return, ListenerEnded, ThreadsDone,
          MainFrame
  <2>3. PartsSent' = PartsSent
    BY <1>8
      DEF PartsSent, BrokenPipe, StopRunning, Join, Return, ListenerEnded,
          ThreadsDone, MainFrame
  <2> QED
    BY <1>3, <2>1, <2>2, <2>3
<1>9. CASE (InitPipe \/ InitPipeFails \/ Accept \/ StopAccepting) /\ SensorFrame
  <2>1. Delivered' = Delivered
    BY <1>9
      DEF Delivered, InitPipe, InitPipeFails, Accept, StopAccepting, WakeParser,
          SensorFrame
  <2>2. Places' = Places
    BY <1>9, NothingMoves
      DEF InitPipe, InitPipeFails, Accept, StopAccepting, WakeParser, SensorFrame
  <2>3. PartsSent' = PartsSent
    BY <1>9
      DEF PartsSent, InitPipe, InitPipeFails, Accept, StopAccepting, WakeParser,
          SensorFrame
  <2> QED
    BY <1>3, <2>1, <2>2, <2>3
<1>10. CASE CloseListening /\ SensorFrame
  <2>1. Delivered' = Delivered
    BY <1>10 DEF Delivered, CloseListening, SensorFrame
  <2>2. PartsSent' = PartsSent
    BY <1>10 DEF PartsSent, CloseListening, SensorFrame
  <2>3. UNCHANGED <<m_accumulated_data, m_shared_raw_data, data_chunk>>
    BY <1>10 DEF CloseListening, SensorFrame
  <2>4. CASE conn = "queued"
    <3>1. discarded = <<>> /\ wire' = <<>> /\ discarded' = discarded \o wire
      BY <1>10, <1>1, <2>4 DEF CloseListening, EmptyPlaces
    <3> QED
      BY <1>1, <1>3, <2>1, <2>2, <2>3, <3>1, ClosingMoves
  <2>5. CASE conn # "queued"
    <3>1. wire' = wire /\ discarded' = discarded
      BY <1>10, <2>5 DEF CloseListening
    <3> QED
      BY <1>3, <2>1, <2>2, <2>3, <3>1, NothingMoves
  <2> QED
    BY <2>4, <2>5
<1>11. CASE (ListenTest \/ NotifyOne) /\ ListenerFrame
  <2>1. Delivered' = Delivered
    BY <1>11 DEF Delivered, ListenTest, NotifyOne, WakeParser, ListenerFrame
  <2>2. Places' = Places
    BY <1>11, NothingMoves DEF ListenTest, NotifyOne, WakeParser, ListenerFrame
  <2>3. PartsSent' = PartsSent
    BY <1>11 DEF PartsSent, ListenTest, NotifyOne, WakeParser, ListenerFrame
  <2> QED
    BY <1>3, <2>1, <2>2, <2>3
<1>12. CASE Recv /\ ListenerFrame
  <2>1. Delivered' = Delivered
    BY <1>12 DEF Delivered, Recv, ListenerFrame
  <2>2. Places' = Places
    <3>1. UNCHANGED <<m_accumulated_data, m_shared_raw_data, discarded>>
      BY <1>12 DEF Recv, ListenerFrame
    <3> QED
      BY <1>12, <1>1, <3>1, RecvMoves
  <2>3. PartsSent' = PartsSent
    BY <1>12 DEF PartsSent, Recv, ListenerFrame
  <2> QED
    BY <1>3, <2>1, <2>2, <2>3
<1>13. CASE PushChunk /\ ListenerFrame
  <2>1. Delivered' = Delivered
    BY <1>13 DEF Delivered, PushChunk, ListenerFrame
  <2>2. Places' = Places
    <3>1. UNCHANGED <<m_accumulated_data, wire, discarded>>
      BY <1>13 DEF PushChunk, ListenerFrame
    <3> QED
      BY <1>13, <1>1, <3>1, PushMoves
  <2>3. PartsSent' = PartsSent
    BY <1>13 DEF PartsSent, PushChunk, ListenerFrame
  <2> QED
    BY <1>3, <2>1, <2>2, <2>3
<1>14. CASE CloseConnection /\ ListenerFrame
  <2>1. Delivered' = Delivered
    BY <1>14 DEF Delivered, CloseConnection, ListenerFrame
  <2>2. PartsSent' = PartsSent
    BY <1>14 DEF PartsSent, CloseConnection, ListenerFrame
  <2>3. UNCHANGED <<m_accumulated_data, m_shared_raw_data, data_chunk>>
    BY <1>14 DEF CloseConnection, ListenerFrame
  <2>4. discarded = <<>> /\ wire' = <<>> /\ discarded' = discarded \o wire
    BY <1>14, <1>1 DEF CloseConnection, Connected, EmptyPlaces
  <2> QED
    BY <1>1, <1>3, <2>1, <2>2, <2>3, <2>4, ClosingMoves
<1>15. CASE (ParserTest \/ Block \/ EndOfBatch \/ SpuriousWakeUp) /\ ParserFrame
  <2>1. Delivered' = Delivered
    BY <1>15 DEF Delivered, ParserTest, Block, EndOfBatch, SpuriousWakeUp, ParserFrame
  <2>2. Places' = Places
    BY <1>15, NothingMoves
      DEF ParserTest, Block, EndOfBatch, SpuriousWakeUp, ParserFrame
  <2>3. PartsSent' = PartsSent
    BY <1>15 DEF PartsSent, ParserTest, Block, EndOfBatch, SpuriousWakeUp, ParserFrame
  <2> QED
    BY <1>3, <2>1, <2>2, <2>3
<1>16. CASE PopAll /\ ParserFrame
  <2>1. Delivered' = Delivered
    BY <1>16 DEF Delivered, PopAll, ParserFrame
  <2>2. Places' = Places
    <3>1. UNCHANGED <<data_chunk, wire, discarded>>
      BY <1>16 DEF PopAll, ParserFrame
    <3> QED
      BY <1>16, <1>1, <3>1, PopAllMoves
  <2>3. PartsSent' = PartsSent
    BY <1>16 DEF PartsSent, PopAll, ParserFrame
  <2> QED
    BY <1>3, <2>1, <2>2, <2>3
<1>17. CASE Deliver /\ ParserFrame
  <2> DEFINE acc == m_accumulated_data  rest == SubSeq(acc, 3, Len(acc))
  <2>1. PartsSent' = PartsSent
    BY <1>17 DEF PartsSent, Deliver, ParserFrame
  <2>2. /\ Delivered' = Append(Delivered, acc[2] \div 2)
        /\ Places' = Row(rest, m_shared_raw_data, data_chunk, wire, discarded)
    <3>1. UNCHANGED <<processed, data_chunk, wire, discarded>>
      BY <1>17 DEF ParserFrame
    <3> QED
      BY <1>17, <1>1, <3>1, DeliverMoves
  <2>3. Len(acc) >= 2
    BY <1>17 DEF Deliver
  <2>4. KeptInOrder(Delivered, Row(acc, m_shared_raw_data, data_chunk, wire, discarded), PartsSent)
    BY <1>1 DEF Places
  <2>5. /\ acc \in Parts /\ m_shared_raw_data \in Parts /\ data_chunk \in Parts
        /\ wire \in Parts /\ discarded \in Parts
    BY <1>1, ValuesAreTyped
  <2>6. KeptInOrder(Append(Delivered, acc[2] \div 2),
                    Row(rest, m_shared_raw_data, data_chunk, wire, discarded), PartsSent)
    BY <1>1, <2>3, <2>4, <2>5, KeptWhenDelivered
  <2> QED
    BY <2>1, <2>2, <2>6
<1>18. CASE ProcessorTest /\ ProcessorFrame
  <2>1. Delivered' = Delivered
    BY <1>18 DEF Delivered, ProcessorTest, ProcessorFrame
  <2>2. Places' = Places
    BY <1>18, NothingMoves DEF ProcessorTest, ProcessorFrame
  <2>3. PartsSent' = PartsSent
    BY <1>18 DEF PartsSent, ProcessorTest, ProcessorFrame
  <2> QED
    BY <1>3, <2>1, <2>2, <2>3
<1>19. CASE PopPacket /\ ProcessorFrame
  <2>1. Delivered' = Delivered
    BY <1>19, <1>1, PopPacketMoves
  <2>2. Places' = Places
    BY <1>19, NothingMoves DEF ProcessorFrame
  <2>3. PartsSent' = PartsSent
    BY <1>19 DEF PartsSent, ProcessorFrame
  <2> QED
    BY <1>3, <2>1, <2>2, <2>3
<1>20. CASE Stop
  <2>1. Delivered' = Delivered
    BY <1>20 DEF Delivered, Stop
  <2>2. Places' = Places
    BY <1>20, NothingMoves DEF Stop
  <2>3. PartsSent' = PartsSent
    BY <1>20 DEF PartsSent, Stop
  <2> QED
    BY <1>3, <2>1, <2>2, <2>3
<1>21. CASE UNCHANGED vars
  <2>1. Delivered' = Delivered /\ PartsSent' = PartsSent
    BY <1>21 DEF vars, Delivered, PartsSent
  <2>2. Places' = Places
    BY <1>21, NothingMoves DEF vars
  <2> QED
    BY <1>3, <2>1, <2>2
<1> QED
  BY NextIsASteps, <1>4, <1>5, <1>6, <1>7, <1>8, <1>9, <1>10, <1>11, <1>12, <1>13,
     <1>14, <1>15, <1>16, <1>17, <1>18, <1>19, <1>20, <1>21 DEF Steps

LEMMA NextIInv == IInv /\ [Next]_vars => IInv'
<1> SUFFICES ASSUME IInv, [Next]_vars PROVE IInv'
  OBVIOUS
<1>1. TypeOK /\ Control /\ SenderReady
  BY DEF IInv, Control
<1>2. TypeOK'
  BY <1>1, NextTypeOK
<1>3. Control'
  BY <1>1, NextControl
<1>4. Conserved'
  BY <1>2, NextConserved
<1> QED
  BY <1>2, <1>3, <1>4 DEF IInv

(* No interleaving of the threads, the signal and the kernel leaves the    *)
(* inductive invariant.                                                    *)
THEOREM Invariance == Spec => []IInv
<1> QED
  BY InitIInv, NextIInv, PTL DEF Spec

-----------------------------------------------------------------------------
(* The shape of the state, for any number of packets.                      *)
THEOREM TypeCorrect == Spec => []TypeOK
<1>1. IInv => TypeOK
  BY DEF IInv
<1> QED
  BY <1>1, Invariance, PTL

(* However the threads are interleaved and whenever the program is told to *)
(* stop, no part of a packet is lost, doubled or overtaken on its way from *)
(* the generator to the processor.                                         *)
THEOREM NothingIsLostInside == Spec => []NothingLostInside
<1>1. IInv => NothingLostInside
  BY DEF IInv, Conserved
<1> QED
  BY <1>1, Invariance, PTL

(* The kernel throws bytes away, and SIGPIPE ends the process, only after  *)
(* the program was told to stop.                                           *)
THEOREM HarmOnlyWhenStopped == Spec => []UnharmedWhileRunning
<1>1. IInv => UnharmedWhileRunning
  <2> SUFFICES ASSUME IInv PROVE UnharmedWhileRunning
    OBVIOUS
  <2>1. TypeOK /\ EmptyPlaces /\ StoppedFirst
    BY DEF IInv, Control
  <2> QED
    BY <2>1 DEF TypeOK, EmptyPlaces, StoppedFirst, UnharmedWhileRunning
<1> QED
  BY <1>1, Invariance, PTL

(* When the summary is printed the threads it reports on have done their   *)
(* last step.                                                              *)
THEOREM SummaryStays == Spec => SummaryIsFinal
<1>1. ASSUME IInv, [Next]_vars, main \in {"summary", "returned"}
      PROVE  UNCHANGED Summarised
  <2>1. ThreadsDone
    BY <1>1 DEF IInv, Control, SummaryAfterJoin
  <2> USE DEF ThreadsDone, Summarised, simulatorVars, parserVars, processorVars
  <2>2. CASE (GiveUp \/ StartBatch \/ Connect) /\ SimulatorFrame
    BY <2>1, <2>2 DEF GiveUp, StartBatch, Connect, SimulatorFrame
  <2>3. CASE SendWhole /\ SimulatorFrame
    BY <2>1, <2>3 DEF SendWhole, SimulatorFrame
  <2>4. CASE SendFirstPart /\ SimulatorFrame
    BY <2>1, <2>4 DEF SendFirstPart, SimulatorFrame
  <2>5. CASE SendSecondPart /\ SimulatorFrame
    BY <2>1, <2>5 DEF SendSecondPart, SimulatorFrame
  <2>6. CASE (BrokenPipe \/ StopRunning \/ Join \/ Return) /\ MainFrame
    BY <2>1, <2>6 DEF BrokenPipe, StopRunning, Join, Return, MainFrame
  <2>7. CASE (InitPipe \/ InitPipeFails \/ Accept \/ StopAccepting) /\ SensorFrame
    BY <2>1, <2>7
      DEF InitPipe, InitPipeFails, Accept, StopAccepting, WakeParser, SensorFrame
  <2>8. CASE CloseListening /\ SensorFrame
    BY <2>1, <2>8 DEF CloseListening, SensorFrame
  <2>9. CASE (ListenTest \/ NotifyOne) /\ ListenerFrame
    BY <2>1, <2>9 DEF ListenTest, NotifyOne, WakeParser, ListenerFrame
  <2>10. CASE Recv /\ ListenerFrame
    BY <2>1, <2>10 DEF Recv, ListenerFrame
  <2>11. CASE PushChunk /\ ListenerFrame
    BY <2>1, <2>11 DEF PushChunk, ListenerFrame
  <2>12. CASE CloseConnection /\ ListenerFrame
    BY <2>1, <2>12 DEF CloseConnection, ListenerFrame
  <2>13. CASE (ParserTest \/ Block \/ EndOfBatch \/ SpuriousWakeUp) /\ ParserFrame
    BY <2>1, <2>13 DEF ParserTest, Block, EndOfBatch, SpuriousWakeUp, ParserFrame
  <2>14. CASE PopAll /\ ParserFrame
    BY <2>1, <2>14 DEF PopAll, ParserFrame
  <2>15. CASE Deliver /\ ParserFrame
    BY <2>1, <2>15 DEF Deliver, ParserFrame
  <2>16. CASE ProcessorTest /\ ProcessorFrame
    BY <2>1, <2>16 DEF ProcessorTest, ProcessorFrame
  <2>17. CASE PopPacket /\ ProcessorFrame
    BY <2>1, <2>17 DEF PopPacket, ProcessorFrame
  <2>18. CASE Stop
    BY <2>1, <2>18 DEF Stop
  <2>19. CASE UNCHANGED vars
    BY <2>19 DEF vars
  <2> QED
    BY <1>1, NextIsASteps, <2>2, <2>3, <2>4, <2>5, <2>6, <2>7, <2>8, <2>9, <2>10,
       <2>11, <2>12, <2>13, <2>14, <2>15, <2>16, <2>17, <2>18, <2>19 DEF Steps
<1>2. IInv /\ [Next]_vars => [(main \in {"summary", "returned"}) => UNCHANGED Summarised]_vars
  BY <1>1
<1> QED
  BY <1>2, Invariance, PTL DEF Spec, SummaryIsFinal
=============================================================================
