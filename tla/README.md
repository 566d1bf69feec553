# CounterDroneServer in TLA+

TLA+ models of the CounterDroneServer, the TLC runs that check them and the
theorems TLAPS proves about them. Paths are relative to this repository's
`src/` directory: `src/SensorDataParser.cpp` is `src/src/SensorDataParser.cpp`
in `PROJECT.json`.

## The system

The server is one process. A simulated drone fleet sends telemetry packets over
TCP; the server collects the bytes, extracts the packets and keeps a table of
drones. Four threads and one thread per connection are joined by two queues:

    DroneDataSimulator --TCP--> DroneDataSensor (accept thread)
                                   | one listening thread per connection
                                   v  push_data(chunk)
                     ThreadsSharedDataManager<BytesArray>
                                   |  pop_all
                                   v
                            SensorDataParser
                                   |  push_data(telemetry)
                                   v
                     ThreadsSharedDataManager<TelemetryData>
                                   |  pop_data_with_timeout
                                   v
                          TelemetryDataProcessor --> drone table, printed by main

All of them loop on one atomic flag, `g_keep_running_system`, which a signal
handler clears.

| Component | State | Operations | What is hard | What makes it correct |
|---|---|---|---|---|
| `DroneDataSimulator` | counters, packets sent | one of five random scenarios at a time | the flag cleared between two parts of a packet; a random range computed from a limit | the summary agrees with the wire; parts stay together; the limit is kept |
| `DroneDataSensor` | listening socket, futures of the listening threads | open, accept, reap, close; `listen_on_spesific_socket` | connections come and go in every phase of a shutdown; descriptors and threads must be given back once | bytes of a connection arrive once and in order; each descriptor has one owner; the shutdown ends |
| `ThreadsSharedDataManager` | queue, mutex, condition variable | `push_data`, `pop_all`, `pop_data_with_timeout`, `wake_up_all` | lost and stolen wake-ups, timeouts racing notifications, a flag outside the mutex | FIFO without loss; no wake-up for an item lost; consumers stop |
| `SensorDataParser` | byte buffer, state, type and length of the candidate, counters | `process_accumulated_data`, one state machine step at a time | state that survives a call while bytes are consumed; resynchronisation in garbage; chunk boundaries anywhere | no packet invented, none stepped over, none held back without cause, the buffer bounded, the loop ends |
| `TelemetryDataProcessor` | table drone -> (active, telemetry) | update, sweep | two clocks, unsigned subtraction, one packet for each sweep | a drone that keeps sending is not turned off by others; no drone stays or turns ACTIVE without a packet; silence is noticed |
| `TelemetryPacket.h`, `Generals.h` | none: the wire format, CRC-16 | build, read | widths and offsets that both ends must share; a register of 16 bits | what is built can be read back; a flipped bit is noticed unless it makes the length another plausible one |
| `main` | threads and queues, in order of construction | start, wait for the flag, join, print | joins that never return, objects destroyed while used | the shutdown ends; nothing is used after its destruction |
| `LockFreeSharedDataManager.h` | two rings of cells, `SPSCQueue` and `MPMCQueue`, with atomic indexes or positions and sequence numbers | `push`, `pop`, `pop_all` | loads that return old values; wrapped indexes; laps of the ring; a failed compare-and-swap | no two threads access a cell at once; a bounded FIFO. No source file includes the header |

The hazards, each at its line with the properties that would catch it, are in
`PROJECT.json` under `hazards`.

## The modules

| Module | Models |
|---|---|
| `TelemetryPacket` | the format: fields, offsets, when a complete packet starts at a position of a byte string |
| `PacketScanner` | abstract specification of the parser: leftmost packets of a growing stream, none stepped over |
| `SensorDataParser` | the state machine of `process_accumulated_data` and the batch step of `process_loop` |
| `ThreadsSharedDataManager` | the queue and the threads that use it, at the grain of mutex and condition variable |
| `TelemetryDataProcessor` | the processor's loop with the server's and the drones' clocks |
| `DroneDataSensor` | the accept thread, the listening threads, sockets, destruction |
| `DroneDataSimulator` | the scenarios, counters and limit of the generator |
| `TelemetryCodec` | the bytes of a packet: build, corrupt, read, CRC-16 |
| `TelemetryLink` | the composition of the generator and the codec: the bytes of what is sent, checked against reference definitions |
| `CounterDroneSystem` | the composition: `main`, all threads, both queues and the connection, from the start to the return of `main` |
| `BoundedFifo` | abstract specification of the lock-free queues |
| `SPSCQueue`, `MPMCQueue` | the lock-free queues at the grain of atomic accesses |
| `MC*` | instances for TLC |
| `*_proofs` | theorems about the module and their proofs; `SensorDataParser_proofs` has those about the format too, `TelemetryLink_proofs` those about the generator and the codec |

Some modules define *variants* before an operator: plausible mistakes in that
operator, such as a dropped check or a wrong offset. No behaviour uses them;
each property is checked to fail when the operator is replaced by a variant
(`mutants` in `PROJECT.json`).

### How they correspond to the code

**SensorDataParser.** The buffer `m_accumulated_data` and the view into it are
positions in the stream of all bytes received: the buffer is what lies after
`base`, the view what lies after `view`; `remove_prefix(n)` adds n to `view` and
the final `erase` moves `base` to `view`. That makes "was this packet stepped
over" a question about positions. Each pass of the `while` loop is one action,
named for the branch it takes; `AwaitMoreBytes` is the pass in which no branch
has the bytes it needs. Bytes are 0..255, the checksum and the payload decoder
are constant operators, so the theorems hold for the CRC-16 of the code as for
any other. A corrupted packet is simply another byte string.

**ThreadsSharedDataManager.** A step is what another thread can observe: taking
the mutex, evaluating the predicate, the release-and-sleep of a wait, the
notification after the unlock. The flag changes at any moment since nothing
orders it with the mutex. Spurious wake-ups and timeouts are actions. A consumer
is handed the front of the queue in one step (`Take`) and what it was handed
leaves the queue in another (`Erase`); only the mutex makes the two one, and
`FirstInFirstOut` fails if it is released in between. A producer does not ask
for the flag (`StartPush`): within a batch the parser goes on pushing after it
was cleared (`src/SensorDataParser.cpp:80`).

**TelemetryDataProcessor.** Time is counted in ticks longer than an iteration
of the loop. This is justified by line 27: the timeout, 30, is named in seconds
but is passed as milliseconds, so the loop runs at least about thirty times a
second even without traffic (`swept` ensures one sweep before the next tick).
Timestamps come from drone clocks, `now + offset`; the age is an unsigned
subtraction modulo `ClockModulus`, which stands for 2^64. The loop's test and
the pop behind it are two steps (`Test`, `PopPacket`), with the flag cleared
between them or not. The code looks only at a packet's timestamp; the tick at
which the packet arrived (`arrived`) and at which the last popped one of a drone
had arrived (`heard`) are histories for the properties, so that "just heard" and
"has a recent timestamp" are different things. `PunctualDronesStayActive` says
what the first is worth: a drone whose timestamps are at most `MaxLag` late is not
shown INACTIVE before the timeout less `MaxLag` has passed since it was heard. A
drone that is later than the timeout is promised nothing, and the code indeed
shows it INACTIVE at the packet just popped.

**DroneDataSensor.** Bytes of a connection are numbered, a chunk is an interval.
`recv` returns any non-empty prefix of what has arrived up to the buffer size,
so every fragmentation TCP can produce occurs. Return values -1 and 0 take the
same branch, as in the code. Descriptors come from a finite set and any free one
may be returned, which covers the kernel's lowest-first rule.

**DroneDataSimulator.** Each random draw is a nondeterministic choice. A
distribution whose range is empty is undefined behaviour in C++ and yields a
member of `UndefinedAmounts`. Reading libstdc++'s wrapped unsigned range, any
`int` is possible. With a limit the range is never empty, and the run gives no
such amount.

**TelemetryCodec.** A packet is a tuple of bytes. A `double` or a `uint64_t` is
the tuple of its 8 bytes in memory, since both ends copy them with `memcpy`;
what is modelled bit by bit is the checksum, the length field and the flip of a
bit. Exclusive or is arithmetic: `Toggle` adds or subtracts a power of two,
`XorByte` adds up the bits in which two bytes differ, and the polynomial 0x1021
is three places to toggle. `1 << target_bit` is a member of `BitMasks`. Reading
past the end of the view is the value `Outside`.

**TelemetryLink.** The generator's steps, with the bytes of the packet that a
step sends. The bytes of a packet do not depend on what was sent before it, so
following the first call of `send` (`MaxBuilt`) covers every sample and every
flipped bit without multiplying the generator's states.

**CounterDroneSystem.** The other modules have one component in detail; here
all threads run together, each reduced to its loop. Packet n travels as the
parts 2n-1 and 2n, which the network may deliver together or apart, so "lost",
"doubled" and "overtaken" are visible in the numbers. A critical section is one
step, but the parser that has tested the predicate and is not asleep yet keeps
the mutex. `main` waits for the generator, the sensor, the parser and the
processor, then prints, then destroys the sensor, whose futures wait for the
listening thread. The sensor may fail to start; a connection may be accepted,
still be queued when the listening socket closes, or be closed with bytes
unread; `send` on a connection that was reset may kill the process.

**SPSCQueue, MPMCQueue.** One action is one access that another thread can
observe. A load with acquire or relaxed order returns *any* value the atomic
has had that the thread may still see: in `SPSCQueue` every value since the one
it saw last, numbered by histories, in `MPMCQueue` every value a cell's
sequence number (`had`) or a position has had, the load in a failed
compare-and-swap included. Accesses to cells are not atomic, and
the properties say that none can race. `BoundedFifo` is what both promise; a
push takes effect at the store of the tail in the first, at the
compare-and-swap in the second.

## What the runs check

| Run | Question | Bounds, and why they suffice |
|---|---|---|
| `parser` | Is exactly what was sent delivered, through fragments, batches, garbage, corruption and messages of other types? Do state, counters and loop stay sound, and does the machine implement `PacketScanner`? | 19 bytes: two packets and a fragment in every order. Payload lengths 1..3 for 40..80, so that packets are 8 to 10 bytes; the corruptions hit type, length and payload |
| `parser_unhandled_type` | Finding, below | 27 bytes, whole packets of every type and an unknown one |
| `manager` | Is anything lost, repeated or slept through; is every item consumed while the program runs; do consumers with a timeout stop? | 2 producers, 1 + 2 consumers, 2 items: a notification can be stolen by each kind of consumer |
| `raw_queue_shutdown` | Finding | |
| `processor` | Does a drone that keeps sending stay ACTIVE, and only such a drone? Is silence noticed? | 2 drones, timeout 2, 7 ticks; the timestamps of one are late by at most 1, within the timeout, those of the other by 3, beyond it: a packet may arrive older than the timeout, behind fresher ones of both. The last packet comes early enough for the timeout to pass within the bound on time |
| `processor_clock_ahead` | Finding | |
| `sensor` | Do bytes arrive once, in order and in the end all of them; are threads and descriptors given back; does the shutdown end? | 2 connections, 2 bytes each, buffer of 2: chunks of every size up to the buffer's, whole or split; descriptors for both connections and the listening socket |
| `sensor_disconnect` | Finding | |
| `simulator` | Does the summary agree with the wire, and how far is the limit passed? And of the packets themselves: is what was built read back, is each flipped bit noticed that does not make the length another plausible one, and is the checksum the one it claims to be? | limit 4, batches of 2, 7 sends before the last scenario: a sequence may start with each number of packets missing. Identifiers of 0, 5, 39 and 40 bytes (39 is the longest the parser accepts), numbers that hold header bytes, every bit of every byte that can be corrupted |
| `system` | From the generator to the drone table: is anything lost, repeated or overtaken; is every packet handled while the program runs; when does a shutdown not end; is what `main` prints final? | 2 packets, whole or in two parts: a part can be in each of the five stores while another is in the next, and the connection can break between the two parts |
| `spsc` | No race on a cell; full and empty told apart; `reserve` exact; a bounded FIFO? | capacity 3, 6 pushes: the indexes wrap around, with every fill level, and a `pop_all` can span the wrap |
| `mpmc` | The same with two producers and two consumers, and is a queue at rest usable? | capacity 2, the least with which the properties hold (see Findings), 3 pushes: the second lap of a cell begins while threads may still be in the first |

What a theorem settles for every value of the constants is not
checked again by a run where another property of the run implies it or it is an
auxiliary step: the type invariants (but for `MPMCQueue`, whose `TypeOK` says
that the counters are the lengths of histories), `DeliveredPacketsGenuine`, `LoopAdvances`, `NothingSlipsIn` and
`PartsStayTogether`. TLC agreed with each of them before it was proved.

`CHECK_DEADLOCK FALSE` is set throughout: every module has legitimate ends
(threads that returned, a bound that was reached, a parser waiting for bytes).

### Bounds

`MaxBytes` (bytes received), `MaxItems` (items pushed), `LastSend`, `MaxTime`
and `MaxQueue` (ticks, packets in flight), `MaxSent` (bytes of a connection),
`MaxPushes` (items pushed to a ring), `MaxBuilt` (packets followed byte by byte)
and `MaxSends` (calls of send) appear only
in guards of the environment's actions, except `MaxSends`, which bounds the
generator's own garbage. `MAX_PKGS_AMOUNT` is the program's own limit; in
`CounterDroneSystem` it also bounds the behaviour. The theorems hold for every
value of them.

### Fairness

Weak fairness of the steps of each thread: the operating system runs threads
that can run. Blocking calls are modelled as what they are: a consumer asleep on
a condition variable gets no step until it is notified, while `accept` and
`recv` return within half a second because the code sets `SO_RCVTIMEO`, and
`wait_for` at its deadline. Time passes (`WF(Tick)`).

Strong fairness is assumed once, in `CounterDroneSystem`: a listening thread
that waits for the mutex of the raw queue gets it although the parser takes it
again and again. In the code this needs spurious wake-ups without end, since the
parser holds the mutex across steps only between its test and its sleep; without
the assumption `EveryPacketProcessed` would fail for that reason alone. In the
other modules no liveness property depends on winning a mutex repeatedly.

Nothing is assumed of drones, of the user (`Stop` has no fairness), of the
signal that `send` may raise, or of spurious wake-ups. The lock-free queues have
no fairness: their calls return false instead of waiting, and no liveness is
stated of them. The generator's termination rests on the dice (garbage does not
count towards the limit) and is not stated.

## Findings

Each is a run that TLC must find violated.

1. `parser_unhandled_type`: heartbeat and command handlers are empty, so a
   complete packet of these types stays at the front of the buffer; the parser
   delivers nothing more and the buffer grows.
2. `raw_queue_shutdown`: the flag and `notify_all` are not under the mutex;
   falling between the test and the sleep of `pop_all` they are missed, and
   `main` waits in `join`. `pop_data_with_timeout` is saved by its timeout
   (`TimedConsumersStop` holds). In the whole program this, and a sensor that
   failed to start, are the only ways a shutdown hangs (`OnlyParserHoldsUp`).
3. `processor_clock_ahead`: a timestamp ahead of the server's clock wraps to a
   huge age and the drone is shown INACTIVE at once. The property of this run,
   that a drone heard within the timeout is ACTIVE after a sweep (the comment on
   `src/TelemetryDataProcessor.cpp:64`), fails with clocks far behind too, and when
   a packet with an old timestamp replaces a fresh one: the code measures the age
   of the timestamp, not of the packet.
4. `sensor_disconnect`: a drone that hangs up leaves a thread that spins on
   `recv` until the program stops, with its socket and its future.

Other disagreements seen while modelling have no run of their own:

- An unknown message type counts as a CRC error (`src/SensorDataParser.cpp:223`),
  although `include/SensorDataParser.h:34` reserves that counter for payload and
  CRC. `CountersBalance` holds with the counters as they are.
- With the limit -1, "no limit", the length of a sequence is drawn from a
  distribution without a range (`src/DroneDataSimulator.cpp:280`), which is
  undefined; the module has it as `UndefinedAmounts`.
- `MAX_PKGS_AMOUNT` may be passed by one packet, because the upper end of that
  distribution is one more than are missing; `AtMostOneTooMany` states the bound
  that does hold.
- `MAX_DRONES_CONNECTIONS`, "the maximum number of drones that can connect to
  the server at the same time" (`include/DroneDataSensor.h:6`), is only the
  backlog of `listen`: `Accept` has no guard on the number of running threads,
  since the code has none.
- If the sensor cannot open its socket it returns without `wake_up_all`
  (`src/DroneDataSensor.cpp:75`), and a shutdown leaves the parser asleep; and
  during a shutdown `send` may raise SIGPIPE, so that `main` prints nothing
  (`BrokenPipe`). Both are behaviours of `CounterDroneSystem`.
- The largest payload the parser accepts, 80 bytes, leaves 39 for the
  identifier; a longer one is built and sent and then rejected.
- `MPMCQueue` accepts the capacity 1, a power of 2, with which the sequence
  number of a full cell is that of a free one: a second push would overwrite the
  first. The module admits it, as the code does, and TLC then finds
  `CellsNotShared`, `ReadsOwnItem`, `QuietQueueUsable` and `ImplementsFifo` violated
  (set `Capacity = 1` in `mpmc.cfg`); the theorems on them say `SeveralCells`.
  Its constructor resizes a vector of
  cells that cannot be moved (`include/LockFreeSharedDataManager.h:129`), which
  no compiler accepts; nothing instantiates it.

## What is proved

All theorems are for every value of the constants, under the `ASSUME`s of the
modules. Each is `Spec => []Inv` by an inductive invariant `IInv`, or a
consequence of it.

**SensorDataParser_proofs.** `IInv` adds to the type invariant that the fields
describe the front of the view (`FieldsMatchView`), that records are genuine and
ordered, that each position behind the view is inside a delivered packet or
*hopeless*, and that the loop only ends when the state lacks bytes
(`Settled`). *Hopeless* is the point of the
proof: "no packet starts at p" is not stable, since bytes still to come may
complete one; hopeless means that the bytes already there rule it out, and this
stays true when bytes are appended. The proof shows that every path that slides
the view leaves only hopeless positions behind: no header, a second header byte,
a known bad type or length, a complete candidate with a wrong checksum. From
`IInv` follow `NoPacketSkipped`, `DeliveredPacketsGenuine`, `BufferBounded`,
`HeldBackOnlyByCandidate`, `LoopAdvances`, `CountersBalance` and the refinement
`ParserImplementsScanner`: a delivery is the scanner's `Deliver`, since no
packet starts between the last delivered one and the view; `PopAll` is
`Receive`; all other steps stutter.

`EachRecordReadAtItsPacket` holds for any decoder: each record was read from the
payload of the recorded packet and some bytes behind it, since
`deserialize_payload` is handed the rest of the buffer. It gives
`DecodedFromOwnPayload` in every state in which the payloads delivered are
self-contained (`EachRecordReadFromItsPayload`): nothing in the parser checks
that the identifier's length keeps the decoder inside the packet. What the
generator builds is self-contained, by the theorems on the codec.

**ThreadsSharedDataManager_proofs.** For any number of threads. FIFO rests on
mutual exclusion (`MutexHeld`): while a consumer is between `Take` and `Erase`, no
other is, nobody pushes, and what it will leave in the queue is what was pushed
and not handed out (`LeftIsQueued`). `NothingSlipsIn` needs mutual exclusion too;
`EveryItemAttended` (one `notify_one` for each push is enough) counts
notifications to come and consumers awake, and needs all of these.

**TelemetryDataProcessor_proofs.** Under `ClocksNotAhead`, which the third
finding shows to be necessary: then no timestamp is from the future and the
subtraction does not wrap. `PunctualStaysActive` needs two facts that the sweep
and the pops of all drones keep: the last timestamp of a drone is at most its
`MaxLag` behind its arrival, in the table as in the queue (`LagIsBounded`), and a
drone that is INACTIVE has a timestamp older than the timeout (`InactiveIsOld`).

**DroneDataSensor_proofs.** Bytes: a thread about to push holds the bytes that
follow all its connection has queued (`HeldChunkIsLast`). Sockets: the listening
socket exists exactly between initialisation and shutdown, a connection that
waits has no thread yet, and the future of each running thread is held.

**CounterDroneSystem_proofs.** For any number of packets. Two halves: where the
threads are (`Control`: places that must be empty when their owner is elsewhere,
and who must have stopped before whom), and what they hold (`Conserved`: the
stores from the processor back to the network, read in a row, are the numbers
of the packets and parts sent). Every hand-over moves the border between two
neighbours in the row, which the concatenation lemmas of the module say once for
all. `NothingIsLostInside`, `HarmOnlyWhenStopped` and `SummaryStays` follow.

**SPSCQueue_proofs.** For every capacity and any number of laps. The wrapped
indexes are the numbers of items pushed and taken modulo the size of the ring
(`Indexes`), the numbers seen are between those taken and those pushed
(`Counts`), and the cells between the two hold the items in between
(`Contents`). A load of an old index only makes the thread believe that there is
less room, or fewer items, than there are. From this follow the absence of
races, the tests for full and empty, the exact `reserve` and the refinement
`RingIsFifo`.

**MPMCQueue_proofs.** For any number of producers and consumers; `TypeCorrect`
for every capacity from 1 up, by an invariant of its own (`TInv`), all others for
every capacity above 1 (`SeveralCells`), because with one cell they are false.
Position n has one cell, `n % Capacity`, and the cell's sequence number says whose turn it is: n for the producer of position n, n + 1 for its
consumer. `TypeOK` and `CellsNotShared` alone are not inductive. `IInv` adds
that the sequence numbers a cell has had are not past its last (`HadIsPast`);
that each cell waits for one of the two in some lap (`Turns`); that a cell which
waits for its producer has been read, and one which waits for its consumer holds
the item of its position (`FreeCells`, `FilledCells`), with both counters within
a lap of the turn (`InLap`); that a thread which won its compare-and-swap has the
turn and no other thread of its kind has the position (`OwnersTurn`,
`OwnPositions`); and that a thread about to compete once saw its turn
(`SeenTurn`). The last is all that a stale load leaves true, and it is enough: a
sequence number never goes back, so if the turn passed meanwhile the counter has
passed the position too and the compare-and-swap fails. The lemmas about
remainders (`DivisionIsUnique`, `RemainderTellsApart`, `SameCell`) carry the
laps. The refinement `RingOfCellsIsFifo` maps the two reservations to the steps
of `BoundedFifo`; everything else stutters.

**TelemetryLink_proofs.** The generator, for every limit, also none, and every
undefined amount: the summary agrees with the wire, in the list of packets, in
their number and in each of its three counters (`CountsMatchWire`, by the lemma
`SendCounts`), because each scenario counts what it sends before the next begins; the invariant relates the counters to the
wire in the middle of a scenario too (between the parts of a packet, within a
sequence). `LinkKeepsSummaryAndLimit` carries this over to the composition.

The codec, for every telemetry whose identifier's length fits in its byte. What
the recursive functions compute for every message needs an induction that the
provers cannot take from the library's theorem, whose parameter is a predicate;
here it is an induction on a *set* (`InductionOnSet`): a set that holds 0 and
each successor holds every natural number, since the least number it lacks would
have a predecessor (`WFMin` of the library). From it follows that
`calculate_crc16` is the fold of its outer loop (`Registers`), and from the
fact that a turn of the loop is one to one, in the register and in the byte
(`XorByteIsInjective`, and the lemmas on `ShiftBit`):

- `OneByteChangesCrc`: messages that differ in one byte differ in the checksum.
- `FlipIsDetectedOutsideLowLengthByte`: a flipped bit of the payload, of the
  checksum or of the high byte of the length is noticed, whatever is sent behind.
- `FlippedBitIsDetected`: `CorruptionDetected` in full, in every behaviour of
  `TelemetryLink`. The property speaks of flips after which the length read is the
  one sent or no payload length at all. With another plausible length the parser
  checks other bytes, in part of the packet behind, and then two checksums of 16
  bits may agree by chance: the code promises nothing there, and no property does.
- `WhatIsBuiltIsReadBack`: `RoundTrip` in full.
- `CrcIsTheRemainder`: for every message, `calculate_crc16` computes the remainder
  of the division by x^16 + x^12 + x^5 + 1, and `ChecksumIsRemainder`: so does the
  end of every intact packet (`CrcIsRemainder`). The definition of the remainder
  (`Divide`, on the set of places that hold a one) shares nothing with the code's
  shifts. The two meet in one relation: after j bytes, what is left of the
  dividend is the register laid over the 16 places behind those bytes (`WordAt`)
  plus the bits of the message still to come (`Later`). A shift of the register is
  one step of the division (`ShiftDivides`), eight are a byte (`TurnDivides`), and
  the bytes follow by the induction on a set.

The predicates `Holds`, `Sized` and `Cut` say where a byte string is in another;
the lemmas about them (`JoinedHolds`, `HoldsInPrefix`, `CutOut`) are the only
ones that look into `\o` and `SubSeq`.

Only model-checked:

- liveness (`EveryBatchFinishes`, `EveryItemConsumed`, `TimedConsumersStop`,
  `SilentDronesGoInactive`, `ShutdownCompletes`, `EveryByteQueued`,
  `EveryPacketProcessed`, `OnlyParserHoldsUp`), since fairness and `ENABLED` are out of the prover's reach.

## What is not modelled

- Output, logging, the alerts for altitude and speed, and the summary's layout.
- What the numeric fields of a telemetry record mean, but for the timestamp: the
  codec carries their bytes.
- Several connections feeding one parser. The generator opens one, for which
  `CounterDroneSystem` has the whole way. With several, chunks of one drone tear
  apart packets of another in the parser's single buffer
  (`src/SensorDataParser.cpp:40`). To the parser that is one more byte stream, to
  which its theorems apply, but they then speak of packets that are whole in the
  mixed stream.
- Weakly ordered stores beyond acquire and release: the lock-free queues use no
  others.
- How long a packet waits in a backlog: no module has the rates at which packets
  come and are handled.
- Packets of other senders in the codec: `RoundTrip` is about the generator's own,
  whose length fields agree.
- Allocation failure, and exceptions in general: nothing catches any.
- `Configuration.h`: its constants are the CONSTANTS of the modules.

## Plan

Each step leaves a project that checks.

1. *Done:* the format, the parser and its abstract specification, the queue, the
   processor, the sensor, the generator, with proofs.
2. *Done:* the composition `CounterDroneSystem`, with proofs of its safety.
3. *Done:* the codec and the checksum.
4. *Done:* the lock-free queues and their abstract specification, with proofs for
   `SPSCQueue`.
5. *Done:* proofs for `MPMCQueue`, the codec, the checksum as a remainder and the
   decoder's use of the buffer.
6. *Left:* the safety that liveness rests on, such as a bound on the steps of the
   processor between two sweeps.
7. *Left:* a pipeline of several connections, which would show what part of the
   parser's guarantees each drone keeps; the sensor as an implementation of a
   merge of streams.
