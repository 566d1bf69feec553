---------------------- MODULE ThreadsSharedDataManager ----------------------
(***************************************************************************)
(* The thread-safe queue of include/ThreadsSharedDataManager.h with the    *)
(* threads that use it: producers call push_data, consumers call pop_all   *)
(* or pop_data_with_timeout in a loop on g_keep_running_system, and a      *)
(* closer calls wake_up_all once it has seen the flag cleared.             *)
(*                                                                         *)
(* The steps are those another thread can see: locking, testing the        *)
(* predicate, going to sleep (which releases the mutex), notifying.  The   *)
(* flag is an atomic that the signal handler clears without the mutex.     *)
(* Operators called variants are mistakes one could make in the definition *)
(* that follows them; no behaviour uses them.                              *)
(***************************************************************************)
EXTENDS Naturals, Sequences, FiniteSets

CONSTANTS
  Producers,        \* threads that call push_data
  PopAllConsumers,  \* threads that loop on pop_all
  TimedConsumers,   \* threads that loop on pop_data_with_timeout
  Closers,          \* threads that call wake_up_all when they stop
  NoThread,         \* the owner of a free mutex
  Items,            \* what is pushed
  MaxItems          \* bound: items pushed in one behaviour

Consumers == PopAllConsumers \cup TimedConsumers

Threads == Producers \cup Consumers \cup Closers

ASSUME ThreadAssumption ==
  /\ IsFiniteSet(Producers) /\ IsFiniteSet(Consumers)
  /\ Producers \cap Consumers = {}
  /\ Closers \cap (Producers \cup Consumers) = {}
  /\ PopAllConsumers \cap TimedConsumers = {}
  /\ NoThread \notin Threads
  /\ MaxItems \in Nat

VARIABLES
  m_shared_data,          \* the queue
  m_mutex,                \* the thread that holds the mutex
  g_keep_running_system,
  pc,                     \* where each thread is
  timed_out,              \* consumers whose wait has reached its deadline
  pushed, popped          \* history: items pushed, items handed to a caller

vars == <<m_shared_data, m_mutex, g_keep_running_system, pc, timed_out,
          pushed, popped>>

Goto(t, label) == pc' = [pc EXCEPT ![t] = label]

(* Threads asleep on m_cond_var. *)
Asleep == {c \in Consumers : pc[c] = "asleep"}

(* The predicate of both waits. *)
WakeUpCondition == m_shared_data # <<>> \/ ~g_keep_running_system

Init ==
  /\ m_shared_data = <<>>
  /\ m_mutex = NoThread
  /\ g_keep_running_system = TRUE
  /\ pc = [t \in Threads |-> IF t \in Closers THEN "run" ELSE "idle"]
  /\ timed_out = {}
  /\ pushed = <<>>
  /\ popped = <<>>

-----------------------------------------------------------------------------
(* push_data *)

(* A producer has something to push.  The flag is not asked: within a      *)
(* batch the parser and a reader push what they have after it was cleared. *)
StartPush(p) ==
  /\ pc[p] = "idle"
  /\ Len(pushed) < MaxItems
  /\ Goto(p, "push")
  /\ UNCHANGED <<m_shared_data, m_mutex, g_keep_running_system, timed_out, pushed, popped>>

(* The block under lock_guard: nothing else can happen inside it. *)
Push(p) ==
  /\ pc[p] = "push"
  /\ m_mutex = NoThread
  /\ Len(pushed) < MaxItems
  /\ \E item \in Items :
       /\ m_shared_data' = Append(m_shared_data, item)
       /\ pushed' = Append(pushed, item)
  /\ Goto(p, "notify")
  /\ UNCHANGED <<m_mutex, g_keep_running_system, timed_out, popped>>

(* notify_one after the mutex was released; it has no effect on a          *)
(* condition variable nobody waits on.                                     *)
NotifyOne(p) ==
  /\ pc[p] = "notify"
  /\ \/ /\ Asleep = {}
        /\ Goto(p, "idle")
     \/ \E c \in Asleep : pc' = [pc EXCEPT ![p] = "idle", ![c] = "relock"]
  /\ UNCHANGED <<m_shared_data, m_mutex, g_keep_running_system, timed_out, pushed, popped>>

-----------------------------------------------------------------------------
(* pop_all and pop_data_with_timeout *)

(* The caller's loop on g_keep_running_system. *)
Call(c) ==
  /\ pc[c] = "idle"
  /\ Goto(c, IF g_keep_running_system THEN "lock" ELSE "done")
  /\ timed_out' = timed_out \ {c}
  /\ UNCHANGED <<m_shared_data, m_mutex, g_keep_running_system, pushed, popped>>

(* Acquire the mutex, at the start of the call or after a wake-up. *)
Lock(c) ==
  /\ pc[c] \in {"lock", "relock"}
  /\ m_mutex = NoThread
  /\ m_mutex' = c
  /\ Goto(c, "test")
  /\ UNCHANGED <<m_shared_data, g_keep_running_system, timed_out, pushed, popped>>

(* Variant: the mutex is released before the thread is asleep. *)
TestAndUnlock(c) ==
  /\ pc[c] = "test"
  /\ Goto(c, IF WakeUpCondition \/ c \in timed_out THEN "take" ELSE "block")
  /\ m_mutex' = IF WakeUpCondition \/ c \in timed_out THEN c ELSE NoThread
  /\ UNCHANGED <<m_shared_data, g_keep_running_system, timed_out, pushed, popped>>

(* Evaluate the predicate; a wait whose deadline has passed returns even   *)
(* if it is false.                                                         *)
Test(c) ==
  /\ pc[c] = "test"
  /\ Goto(c, IF WakeUpCondition \/ c \in timed_out THEN "take" ELSE "block")
  /\ UNCHANGED <<m_shared_data, m_mutex, g_keep_running_system, timed_out, pushed, popped>>

(* Release the mutex and fall asleep, in one step. *)
Block(c) ==
  /\ pc[c] = "block"
  /\ m_mutex' = NoThread
  /\ Goto(c, "asleep")
  /\ UNCHANGED <<m_shared_data, g_keep_running_system, timed_out, pushed, popped>>

(* The wait has ended, by the flag or the deadline, with an empty queue.   *)
ReturnEmpty(c) ==
  /\ pc[c] = "take"
  /\ m_shared_data = <<>>
  /\ m_mutex' = NoThread
  /\ Goto(c, "idle")
  /\ UNCHANGED <<m_shared_data, g_keep_running_system, timed_out, pushed, popped>>

(* How many items the caller is handed: all, or the first. *)
TakeCount(c) == IF c \in PopAllConsumers THEN Len(m_shared_data) ELSE 1

(* Variant: the mutex is not held from front to pop. *)
TakeUnlocked(c) ==
  /\ pc[c] = "take"
  /\ m_shared_data # <<>>
  /\ popped' = popped \o SubSeq(m_shared_data, 1, TakeCount(c))
  /\ m_mutex' = NoThread
  /\ Goto(c, "erase")
  /\ UNCHANGED <<m_shared_data, g_keep_running_system, timed_out, pushed>>

(* The caller is handed the front of the queue. *)
Take(c) ==
  /\ pc[c] = "take"
  /\ m_shared_data # <<>>
  /\ popped' = popped \o SubSeq(m_shared_data, 1, TakeCount(c))
  /\ Goto(c, "erase")
  /\ UNCHANGED <<m_shared_data, m_mutex, g_keep_running_system, timed_out, pushed>>

(* Variant: the queue is emptied although only TakeCount items were kept. *)
EraseAll(c) ==
  /\ pc[c] = "erase"
  /\ m_shared_data' = <<>>
  /\ m_mutex' = NoThread
  /\ Goto(c, "idle")
  /\ UNCHANGED <<g_keep_running_system, timed_out, pushed, popped>>

(* What was handed out leaves the queue, and the destructor of the lock    *)
(* releases the mutex.                                                     *)
Erase(c) ==
  /\ pc[c] = "erase"
  /\ m_shared_data' = SubSeq(m_shared_data, TakeCount(c) + 1, Len(m_shared_data))
  /\ m_mutex' = NoThread
  /\ Goto(c, "idle")
  /\ UNCHANGED <<g_keep_running_system, timed_out, pushed, popped>>

(* Variant: no wait has a deadline. *)
TimeoutNever(c) == pc[c] = "timeout" /\ UNCHANGED vars

(* The deadline of wait_for passes, before or after a notification. *)
Timeout(c) ==
  /\ c \in TimedConsumers
  /\ pc[c] \in {"asleep", "relock"}
  /\ c \notin timed_out
  /\ timed_out' = timed_out \cup {c}
  /\ Goto(c, "relock")
  /\ UNCHANGED <<m_shared_data, m_mutex, g_keep_running_system, pushed, popped>>

(* A wait may return without a notification. *)
SpuriousWakeUp(c) ==
  /\ pc[c] = "asleep"
  /\ Goto(c, "relock")
  /\ UNCHANGED <<m_shared_data, m_mutex, g_keep_running_system, timed_out, pushed, popped>>

-----------------------------------------------------------------------------
(* signal_handler *)
Stop ==
  /\ g_keep_running_system
  /\ g_keep_running_system' = FALSE
  /\ UNCHANGED <<m_shared_data, m_mutex, pc, timed_out, pushed, popped>>

(* wake_up_all, once the closer's own loop has ended. *)
WakeUpAll(w) ==
  /\ pc[w] = "run"
  /\ ~g_keep_running_system
  /\ pc' = [t \in Threads |-> IF t = w THEN "done"
                              ELSE IF t \in Asleep THEN "relock" ELSE pc[t]]
  /\ UNCHANGED <<m_shared_data, m_mutex, g_keep_running_system, timed_out, pushed, popped>>

push_data(p) == StartPush(p) \/ Push(p) \/ NotifyOne(p)

pop(c) ==
  \/ Call(c) \/ Lock(c) \/ Test(c) \/ Block(c)
  \/ ReturnEmpty(c) \/ Take(c) \/ Erase(c) \/ Timeout(c)

Next ==
  \/ \E p \in Producers : push_data(p)
  \/ \E c \in Consumers : pop(c) \/ SpuriousWakeUp(c)
  \/ \E w \in Closers : WakeUpAll(w)
  \/ Stop

(* Threads that can run do run; nobody is obliged to push, the flag need   *)
(* not be cleared, and a wait need not wake up by itself.                  *)
Fairness ==
  /\ \A p \in Producers : WF_vars(NotifyOne(p))
  /\ \A c \in Consumers : WF_vars(pop(c))
  /\ \A w \in Closers : WF_vars(WakeUpAll(w))

Spec == Init /\ [][Next]_vars /\ Fairness

-----------------------------------------------------------------------------
(* The shape of the state.                                                 *)
TypeOK ==
  /\ m_shared_data \in Seq(Items)
  /\ m_mutex \in Consumers \cup {NoThread}
  /\ g_keep_running_system \in BOOLEAN
  /\ pc \in [Threads -> {"idle", "push", "notify", "lock", "test", "block", "asleep",
                         "relock", "take", "erase", "run", "done"}]
  /\ timed_out \subseteq TimedConsumers
  /\ pushed \in Seq(Items)
  /\ popped \in Seq(Items)

(* Whoever pushes and pops, and in whatever order: each item pushed is     *)
(* handed out exactly once, in the order of the pushes.  Between front and *)
(* pop an item is handed out and still in the queue; at every other moment *)
(* what was pushed is what was handed out and then what is queued.         *)
Erasing == {c \in Consumers : pc[c] = "erase"}

FirstInFirstOut == Erasing = {} => pushed = popped \o m_shared_data

(* notify_one for each item is enough (push_data, line 34): while a        *)
(* consumer sleeps, every item in the queue has a notification still to    *)
(* come or a consumer that is awake inside a call and will take it.        *)
PendingNotifications == {p \in Producers : pc[p] = "notify"}

AwakeInCall == {c \in Consumers : pc[c] \in {"lock", "relock", "test", "take", "erase"}}

EveryItemAttended ==
  Asleep # {} =>
    Len(m_shared_data) <= Cardinality(PendingNotifications) + Cardinality(AwakeInCall)

(* A consumer about to sleep has seen an empty queue, and the queue is     *)
(* still empty when it falls asleep: no item slips in between (the comment *)
(* on lines 44-49).                                                        *)
NothingSlipsIn ==
  \A c \in Consumers : pc[c] = "block" => m_shared_data = <<>> /\ m_mutex = c

(* While the program runs, every item pushed is handed to a consumer.      *)
EveryItemConsumed ==
  \A n \in 1..MaxItems :
    Len(pushed) >= n ~> Len(popped) >= n \/ ~g_keep_running_system

(* A consumer with a timeout leaves its loop after the flag was cleared.   *)
TimedConsumersStop ==
  \A c \in TimedConsumers : ~g_keep_running_system ~> pc[c] = "done"

(* README.md:19 promises a graceful shutdown through the atomic flag, and  *)
(* line 82 of the header that pop_all waits until there is data or the     *)
(* program is stopped.  Stated of every consumer of pop_all; the code does *)
(* not meet it.                                                            *)
PopAllConsumersStop ==
  \A c \in PopAllConsumers : ~g_keep_running_system ~> pc[c] = "done"
=============================================================================
