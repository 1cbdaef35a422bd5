------------------------------ MODULE FifoLock ------------------------------
(***************************************************************************)
(* The fair reader/writer lock of libs/uti/sge_lock_fifo.c, which protects *)
(* every list of the qmaster (LOCK_GLOBAL) and its configuration.          *)
(*                                                                         *)
(* One step is one critical section of lock->mutex: from the entry of      *)
(* sge_fifo_lock() (or the return of a pthread_cond_wait()) to the next    *)
(* pthread_cond_wait() or to the return of the function.                   *)
(*                                                                         *)
(* A Call is one pending or granted invocation of sge_fifo_lock(); Owner   *)
(* says which thread makes it.  A thread with two calls is a thread that   *)
(* nests lock requests, which the code allows for read locks.              *)
(***************************************************************************)
EXTENDS Naturals, FiniteSets, Sequences

CONSTANTS Thread,       \* the threads of the process
          Call,         \* the lock requests they may have open
          Owner,        \* the thread that makes a call
          QueueLength   \* FIFO_LOCK_QUEUE_LENGTH (64 in the code)

ASSUME CallAssumption   == IsFiniteSet(Call)
ASSUME OwnerAssumption  == Owner \in [Call -> Thread]
ASSUME LengthAssumption == QueueLength \in Nat \ {0}

VARIABLES head, tail,                      \* positions in the ring
          array,                           \* the ring of waiting threads
          reader_active, reader_waiting,
          writer_active, writer_waiting,
          waiting,                         \* threads that wait for a ring slot
          signaled,                        \* waiters told to go on, not yet awake
          pc, reader, slot,                \* per call: place, is_reader, index
          woken                            \* calls whose wait on lock->cond ended

ring == <<head, tail, array, slot>>
active == <<reader_active, writer_active>>
queued == <<reader_waiting, writer_waiting>>
vars == <<ring, active, queued, waiting, signaled, pc, reader, woken>>

Slot == 0 .. QueueLength - 1
Empty == [is_reader |-> FALSE, is_signaled |-> FALSE]
Elem == [is_reader : BOOLEAN, is_signaled : BOOLEAN]
Place == {"idle", "outside", "queue", "held"}

\* The position after i; the code tests for the end of the array.
Advance(i) == IF i + 1 = QueueLength THEN 0 ELSE i + 1

Init ==
  /\ head = 0 /\ tail = 0
  /\ array = [i \in Slot |-> Empty]
  /\ reader_active = 0 /\ reader_waiting = 0
  /\ writer_active = 0 /\ writer_waiting = 0
  /\ waiting = 0 /\ signaled = 0
  /\ pc = [c \in Call |-> "idle"]
  /\ reader = [c \in Call |-> FALSE]
  /\ slot = [c \in Call |-> 0]
  /\ woken = {}

-----------------------------------------------------------------------------
\* A thread makes one call at a time, and on top of a lock it holds only a
\* read lock on a read lock.
MayCall(c, r) ==
  /\ pc[c] = "idle"
  /\ \A d \in Call \ {c} :
       Owner[d] = Owner[c] => \/ pc[d] = "idle"
                              \/ pc[d] = "held" /\ reader[d] /\ r

QueueFull == reader_waiting + writer_waiting = QueueLength

\* (Slips of MustQueue: a term of one of the sums is missing, or the writer's
\* condition is used for readers as well.)
MustQueueNoSignaled(r) ==
  IF r THEN writer_active + writer_waiting > 0 ELSE writer_active + reader_active > 0
MustQueueNoWaitingWriter(r) ==
  IF r THEN writer_active + signaled > 0 ELSE writer_active + reader_active + signaled > 0
MustQueueAsWriter(r) == writer_active + reader_active + signaled > 0

\* do_wait_in_queue
MustQueue(r) ==
  IF r THEN writer_active + writer_waiting + signaled > 0
       ELSE writer_active + reader_active + signaled > 0

CountActive(r) ==
  /\ reader_active' = IF r THEN reader_active + 1 ELSE reader_active
  /\ writer_active' = IF r THEN writer_active ELSE writer_active + 1

\* The call takes the slot at the tail and waits for its own condition.
Enqueue(c, r) ==
  /\ MustQueue(r)
  /\ slot' = [slot EXCEPT ![c] = tail]
  /\ array' = [array EXCEPT ![tail] = [is_reader |-> r, is_signaled |-> FALSE]]
  /\ tail' = Advance(tail)
  /\ reader_waiting' = IF r THEN reader_waiting + 1 ELSE reader_waiting
  /\ writer_waiting' = IF r THEN writer_waiting ELSE writer_waiting + 1
  /\ pc' = [pc EXCEPT ![c] = "queue"]
  /\ UNCHANGED <<head, active>>

\* The call has the lock at once.
Acquire(c, r) ==
  /\ ~MustQueue(r)
  /\ CountActive(r)
  /\ pc' = [pc EXCEPT ![c] = "held"]
  /\ UNCHANGED <<ring, queued>>

Admit(c, r) == ~QueueFull /\ (Enqueue(c, r) \/ Acquire(c, r))

\* sge_fifo_lock() up to its first wait, or to its end.
Lock(c, r) ==
  /\ MayCall(c, r)
  /\ reader' = [reader EXCEPT ![c] = r]
  /\ \/ /\ QueueFull
        /\ pc' = [pc EXCEPT ![c] = "outside"]
        /\ waiting' = waiting + 1
        /\ UNCHANGED <<ring, active, queued>>
     \/ Admit(c, r) /\ UNCHANGED waiting
  /\ UNCHANGED <<signaled, woken>>

\* A thread outside the queue returns from its wait on lock->cond and tests
\* again whether the queue is full.
Resume(c) ==
  /\ c \in woken
  /\ woken' = woken \ {c}
  /\ \/ QueueFull /\ UNCHANGED <<ring, active, queued, waiting, pc>>
     \/ Admit(c, reader[c]) /\ waiting' = waiting - 1
  /\ UNCHANGED <<signaled, reader>>

Outside == {c \in Call : pc[c] = "outside"}

\* pthread_cond_wait() on lock->cond may return without a signal.  (On the
\* condition of a slot this changes nothing: the loop waits again.)
SpuriousWakeup(c) ==
  /\ c \in Outside \ woken
  /\ woken' = woken \cup {c}
  /\ UNCHANGED <<ring, active, queued, waiting, signaled, pc, reader>>

\* pthread_cond_signal(&lock->cond): one of the blocked threads, if any.
NotifyOutside ==
  IF waiting > 0 /\ Outside \ woken # {}
    THEN \E c \in Outside \ woken : woken' = woken \cup {c}
    ELSE UNCHANGED woken

\* A signaled thread leaves the queue and has the lock.  It wakes the next
\* waiter if both are readers, and one thread that waits for a slot.
Wake(c) ==
  LET r == reader[c]
      next == Advance(head)
      reader_left == IF r THEN reader_waiting - 1 ELSE reader_waiting
      chain == array[head].is_reader /\ reader_left > 0 /\ array[next].is_reader
  IN /\ pc[c] = "queue"
     /\ array[slot[c]].is_signaled
     /\ reader_waiting' = reader_left
     /\ writer_waiting' = IF r THEN writer_waiting ELSE writer_waiting - 1
     /\ head' = next
     /\ array' = [(IF chain THEN [array EXCEPT ![next].is_signaled = TRUE]
                            ELSE array) EXCEPT ![head] = Empty]
     /\ signaled' = IF chain THEN signaled ELSE signaled - 1
     /\ NotifyOutside
     /\ CountActive(r)
     /\ pc' = [pc EXCEPT ![c] = "held"]
     /\ slot' = [slot EXCEPT ![c] = 0]
     /\ UNCHANGED <<tail, waiting, reader>>

\* (A slip of MustNotify: waiting readers are forgotten.)
MustNotifyWriters(ra, wa) == ra + wa + signaled = 0 /\ writer_waiting > 0

\* With the lock free and no wakeup on its way, the queue's head is told.
MustNotify(ra, wa) == ra + wa + signaled = 0 /\ reader_waiting + writer_waiting > 0

\* sge_fifo_ulock()
Unlock(c) ==
  LET r == reader[c]
      ra == IF r THEN reader_active - 1 ELSE reader_active
      wa == IF r THEN writer_active ELSE writer_active - 1
      notify == MustNotify(ra, wa)
  IN /\ pc[c] = "held"
     /\ reader_active' = ra
     /\ writer_active' = wa
     /\ array' = IF notify THEN [array EXCEPT ![head].is_signaled = TRUE] ELSE array
     /\ signaled' = IF notify THEN signaled + 1 ELSE signaled
     /\ pc' = [pc EXCEPT ![c] = "idle"]
     /\ reader' = [reader EXCEPT ![c] = FALSE]
     /\ UNCHANGED <<head, tail, slot, queued, waiting, woken>>

\* Only a thread that does not wait itself can release what it holds.
MayRelease(c) ==
  \A d \in Call : Owner[d] = Owner[c] => pc[d] \notin {"outside", "queue"}

Release(c) == MayRelease(c) /\ Unlock(c)

Next ==
  \E c \in Call :
    \/ \E r \in BOOLEAN : Lock(c, r)
    \/ Resume(c)
    \/ SpuriousWakeup(c)
    \/ Wake(c)
    \/ Release(c)

Spec == Init /\ [][Next]_vars

(***************************************************************************)
(* A runnable thread runs, and every holder releases the lock in the end   *)
(* (the qmaster takes the lock around a request, never around an endless   *)
(* loop).  Nobody has to ask for the lock, no spurious wakeup has to occur.*)
(***************************************************************************)
CallRuns(c) == Resume(c) \/ Wake(c) \/ Release(c)

Fairness == \A c \in Call : WF_vars(CallRuns(c))

FairSpec == Spec /\ Fairness

-----------------------------------------------------------------------------
\* The type of every variable; the counters of sge_fifo_rw_lock_t never drop
\* below zero.
TypeOK ==
  /\ head \in Slot /\ tail \in Slot
  /\ array \in [Slot -> Elem]
  /\ reader_active \in Nat /\ reader_waiting \in Nat
  /\ writer_active \in Nat /\ writer_waiting \in Nat
  /\ waiting \in Nat /\ signaled \in Nat
  /\ pc \in [Call -> Place]
  /\ reader \in [Call -> BOOLEAN]
  /\ slot \in [Call -> Slot]
  /\ woken \in SUBSET Call

Held == {c \in Call : pc[c] = "held"}
Queued == {c \in Call : pc[c] = "queue"}

\* "Multiple threads might obtain a read lock whereas only one thread can have
\* the write lock at the same time" (sge_lock_fifo.c:148): a call that holds
\* the write lock holds it alone, whatever wakeups are still on their way.
MutualExclusion ==
  \A c, d \in Held : c # d => reader[c] /\ reader[d]

\* No wakeup is lost: as long as somebody waits in the queue, somebody else is
\* bound to wake the queue's head: a waiter already signaled, the writer, or the
\* readers the head has to wait for because it wants to write.  The direct
\* path of a writer relies on it (it does not look at the queue at all).
NoLostWakeup ==
  Queued # {} => \/ signaled > 0
                 \/ writer_active > 0
                 \/ reader_active > 0 /\ ~array[head].is_reader

\* At most one wakeup is on its way (sge_lock_fifo.h:85), and it is for the
\* call whose slot is at the head; so the slot that is freed, array[head], is
\* the one of the thread that woke up.
WakeupIsForHead ==
  /\ signaled <= 1
  /\ \A i \in Slot : array[i].is_signaled => i = head /\ signaled = 1
  /\ \A c \in Queued : array[slot[c]].is_signaled => slot[c] = head

\* Every call that waits in the queue gets the lock ("each of those threads has
\* a chance to get the lock", sge_lock_fifo.c:153), readers do not starve
\* writers and writers do not starve readers.
WaitersAreServed == \A c \in Call : pc[c] = "queue" ~> pc[c] = "held"

\* "A thread my hold multiple concurrent read locks" (sge_lock_fifo.c:144):
\* a second read lock is granted to a thread that holds one.
NestedReadsAreServed ==
  \A c, d \in Call :
    (/\ c # d /\ Owner[c] = Owner[d]
     /\ pc[c] = "held" /\ reader[c]
     /\ pc[d] = "queue" /\ reader[d]) ~> pc[d] = "held"
-----------------------------------------------------------------------------
\* The calls in the ring, in the order in which the head will reach them.
Waiters ==
  [k \in 1 .. reader_waiting + writer_waiting |->
     LET c == CHOOSE d \in Queued : slot[d] = (head + k - 1) % QueueLength
     IN <<c, reader[c]>>]

Fair == INSTANCE FairRwLock
          WITH queue   <- Waiters,
               readers <- {c \in Held : reader[c]},
               writers <- {c \in Held : ~reader[c]}

\* The ring, the counters and the wakeups implement the first come, first
\* served lock that the comment of sge_fifo_lock() describes: no call that has
\* a place in the queue is ever overtaken, and nobody waits who need not.
FirstComeFirstServed == Fair!Spec
=============================================================================
