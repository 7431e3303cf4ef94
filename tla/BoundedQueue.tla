----------------------------- MODULE BoundedQueue -----------------------------
(***************************************************************************)
(* BoundedQueueValue of koschei/bounded_queue.py, and the Go queue with    *)
(* its mutex (bounded_queue_v1.py, bounded_queue_sync_v1.py), which runs   *)
(* the same statements: a ring buffer shared by threads.  Every statement  *)
(* that reads or writes the ring is a step, so the lock is what keeps an   *)
(* operation whole.  The callers' checks of argument types happen before   *)
(* the lock is taken and touch nothing; Values are the values that pass.   *)
(***************************************************************************)
EXTENDS Integers, Sequences, FiniteSets

CONSTANTS
  Threads,
  Values,
  Capacity,
  Empty      \* None, nil: a slot that holds nothing

ASSUME QueueAssumption == Capacity \in Nat \ {0} /\ Empty \notin Values

VARIABLES
  buffer, head, tail, count,
  lock,        \* the threads inside "with self._lock"
  stage, held,    \* each thread's next statement, and the value it sends or took
  answer       \* what each thread's last operation returned

queueVars == <<buffer, head, tail, count, lock, stage, held, answer>>

Slots == 0 .. Capacity - 1
Statements == {"idle", "send", "send-full", "send-tail", "send-count",
               "recv", "recv-empty", "recv-clear", "recv-head", "recv-count", "look"}

QueueTypeOK ==
  /\ buffer \in [Slots -> Values \cup {Empty}]
  /\ head \in Slots /\ tail \in Slots
  /\ count \in 0 .. Capacity
  /\ lock \subseteq Threads
  /\ stage \in [Threads -> Statements]
  /\ held \in [Threads -> Values \cup {Empty}]
  /\ answer \in [Threads -> {"none", "true", "false", "count"} \cup Values]

\* BoundedQueueValue(capacity, item_type).
QueueInit ==
  /\ buffer = [s \in Slots |-> Empty]
  /\ head = 0 /\ tail = 0 /\ count = 0
  /\ lock = {}
  /\ stage = [t \in Threads |-> "idle"]
  /\ held = [t \in Threads |-> Empty]
  /\ answer = [t \in Threads |-> "none"]

Proceed(t, statement) == stage' = [stage EXCEPT ![t] = statement]

\* An operation is called: try_send(value), try_recv(), or a read of the
\* count (length, is_full, is_empty, __str__).
Call(t) ==
  /\ stage[t] = "idle"
  /\ \/ \E v \in Values : held' = [held EXCEPT ![t] = v] /\ Proceed(t, "send")
     \/ UNCHANGED held /\ Proceed(t, "recv")
     \/ UNCHANGED held /\ Proceed(t, "look")
  /\ answer' = [answer EXCEPT ![t] = "none"]
  /\ UNCHANGED <<buffer, head, tail, count, lock>>

\* A plausible bug: the lock is not taken.
Enter(t, statement) == Proceed(t, statement) /\ UNCHANGED lock

\* with self._lock:
Acquire(t, statement) == lock = {} /\ lock' = {t} /\ Proceed(t, statement)
Release(t, a) ==
  /\ lock' = lock \ {t}
  /\ Proceed(t, "idle")
  /\ answer' = [answer EXCEPT ![t] = a]
  /\ held' = [held EXCEPT ![t] = Empty]

SendLock(t) ==
  /\ stage[t] = "send"
  /\ Acquire(t, "send-full")
  /\ UNCHANGED <<buffer, head, tail, count, held, answer>>

\* if self._count == self.capacity: return False; self._buffer[self._tail] = value
SendStore(t) ==
  /\ stage[t] = "send-full"
  /\ IF count = Capacity
       THEN Release(t, "false") /\ UNCHANGED buffer
       ELSE /\ buffer' = [buffer EXCEPT ![tail] = held[t]]
            /\ Proceed(t, "send-tail") /\ UNCHANGED <<lock, answer, held>>
  /\ UNCHANGED <<head, tail, count>>

SendTail(t) ==
  /\ stage[t] = "send-tail"
  /\ tail' = (tail + 1) % Capacity
  /\ Proceed(t, "send-count")
  /\ UNCHANGED <<buffer, head, count, lock, held, answer>>

SendCount(t) ==
  /\ stage[t] = "send-count"
  /\ count' = count + 1
  /\ Release(t, "true")
  /\ UNCHANGED <<buffer, head, tail>>

RecvLock(t) ==
  /\ stage[t] = "recv"
  /\ Acquire(t, "recv-empty")
  /\ UNCHANGED <<buffer, head, tail, count, held, answer>>

\* if self._count == 0: return False, None; value = self._buffer[self._head]
RecvLoad(t) ==
  /\ stage[t] = "recv-empty"
  /\ IF count = 0
       THEN Release(t, "false")
       ELSE /\ held' = [held EXCEPT ![t] = buffer[head]]
            /\ Proceed(t, "recv-clear") /\ UNCHANGED <<lock, answer>>
  /\ UNCHANGED <<buffer, head, tail, count>>

RecvClear(t) ==
  /\ stage[t] = "recv-clear"
  /\ buffer' = [buffer EXCEPT ![head] = Empty]
  /\ Proceed(t, "recv-head")
  /\ UNCHANGED <<head, tail, count, lock, held, answer>>

RecvHead(t) ==
  /\ stage[t] = "recv-head"
  /\ head' = (head + 1) % Capacity
  /\ Proceed(t, "recv-count")
  /\ UNCHANGED <<buffer, tail, count, lock, held, answer>>

RecvCount(t) ==
  /\ stage[t] = "recv-count"
  /\ count' = count - 1
  /\ Release(t, held[t])
  /\ UNCHANGED <<buffer, head, tail>>

\* length, is_full, is_empty, __str__: one read under the lock.
Look(t) ==
  /\ stage[t] = "look"
  /\ lock = {}
  /\ Proceed(t, "idle")
  /\ answer' = [answer EXCEPT ![t] = "count"]
  /\ UNCHANGED <<buffer, head, tail, count, lock, held>>

Step(t) ==
  \/ SendLock(t) \/ SendStore(t) \/ SendTail(t) \/ SendCount(t)
  \/ RecvLock(t) \/ RecvLoad(t) \/ RecvClear(t) \/ RecvHead(t) \/ RecvCount(t)
  \/ Look(t)

QueueNext == \E t \in Threads : Call(t) \/ Step(t)

QueueSpec == QueueInit /\ [][QueueNext]_queueVars

-----------------------------------------------------------------------------
(* Properties *)

\* The queue as its users see it: an operation takes effect when the count is
\* changed.  A receiver that cleared its slot still owes the value.
Owed == {t \in Threads : stage[t] \in {"recv-clear", "recv-head", "recv-count"}}
Advanced == IF \E t \in Threads : stage[t] = "recv-count" THEN 1 ELSE 0
Item(i) ==
  IF i = 1 /\ Owed # {} THEN held[CHOOSE t \in Owed : TRUE]
                        ELSE buffer[(head - Advanced + i - 1) % Capacity]
Contents == [i \in 1 .. count |-> Item(i)]
Fifo == INSTANCE BoundedFifo WITH items <- Contents

\* The ring under its lock is a bounded first-in first-out queue: no value is
\* lost, duplicated, reordered or accepted beyond the capacity.
IsBoundedFifo == Fifo!FifoSpec

=============================================================================
