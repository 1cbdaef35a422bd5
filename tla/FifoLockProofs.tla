--------------------------- MODULE FifoLockProofs ---------------------------
(***************************************************************************)
(* Type correctness, mutual exclusion, the handling of wakeups and the     *)
(* absence of lost wakeups of FifoLock, and that it implements FairRwLock, *)
(* for any number of threads and calls and any queue length.               *)
(*                                                                         *)
(* The inductive invariant LockInv says how the counters, the ring and the *)
(* wakeups relate to the calls: every counter is the number of calls of    *)
(* its kind, the ring between head and tail holds each waiting call once,  *)
(* and a wakeup on its way belongs to the head, which may take the lock.   *)
(***************************************************************************)
EXTENDS FifoLock, FiniteSetTheorems, SequenceTheorems, TLAPS

In(p, r) == {c \in Call : pc[c] = p /\ reader[c] = r}

CountersInv ==
  /\ reader_active  = Cardinality(In("held", TRUE))
  /\ writer_active  = Cardinality(In("held", FALSE))
  /\ reader_waiting = Cardinality(In("queue", TRUE))
  /\ writer_waiting = Cardinality(In("queue", FALSE))
  /\ waiting = Cardinality(Outside)
  /\ woken \subseteq Outside

Length == reader_waiting + writer_waiting

\* The slots from head up to tail, wrapping around at the end of the array.
Occupied(i) ==
  /\ Length > 0
  /\ IF head < tail THEN head <= i /\ i < tail ELSE head <= i \/ i < tail

LengthInv ==
  /\ head < tail => Length = tail - head
  /\ tail < head => Length = QueueLength - head + tail
  /\ head = tail => Length \in {0, QueueLength}

RingInv ==
  /\ \A c \in Queued : Occupied(slot[c]) /\ array[slot[c]].is_reader = reader[c]
  /\ \A c, d \in Queued : slot[c] = slot[d] => c = d
  /\ \A i \in Slot : Occupied(i) => \E c \in Queued : slot[c] = i
  /\ \A i \in Slot : ~Occupied(i) => ~array[i].is_signaled

SignalInv ==
  /\ signaled \in {0, 1}
  /\ signaled = 1 => Length > 0 /\ array[head].is_signaled
  /\ \A i \in Slot : array[i].is_signaled => i = head /\ signaled = 1

GrantInv ==
  /\ writer_active <= 1
  /\ writer_active = 1 => reader_active = 0
  /\ signaled = 1 => /\ writer_active = 0
                     /\ ~array[head].is_reader => reader_active = 0
  /\ Length > 0 => \/ signaled > 0
                   \/ writer_active > 0
                   \/ reader_active > 0 /\ ~array[head].is_reader

LockInv == /\ TypeOK
           /\ CountersInv
           /\ LengthInv
           /\ RingInv
           /\ SignalInv
           /\ GrantInv

-----------------------------------------------------------------------------
\* The number of elements changes by one when one element comes or goes.
LEMMA OneMore ==
  ASSUME NEW S, IsFiniteSet(S), NEW x, x \notin S, NEW T, T = S \cup {x}
  PROVE  Cardinality(T) = Cardinality(S) + 1
BY FS_AddElement

LEMMA OneLess ==
  ASSUME NEW S, IsFiniteSet(S), NEW x \in S, NEW T, T = S \ {x}
  PROVE  Cardinality(T) = Cardinality(S) - 1
BY FS_RemoveElement

\* The sets of calls the counters count are finite.
LEMMA FiniteCalls ==
  /\ \A p, r : IsFiniteSet(In(p, r)) /\ Cardinality(In(p, r)) \in Nat
  /\ IsFiniteSet(Outside) /\ Cardinality(Outside) \in Nat
<1>1. ASSUME NEW S \in SUBSET Call PROVE IsFiniteSet(S) /\ Cardinality(S) \in Nat
  BY CallAssumption, FS_Subset, FS_CardinalityType
<1> QED BY <1>1 DEF In, Outside

\* The initial state satisfies the invariant.
LEMMA InitLockInv == Init => LockInv
<1> SUFFICES ASSUME Init PROVE LockInv
  OBVIOUS
<1>1. TypeOK
  BY LengthAssumption DEF Init, TypeOK, Slot, Empty, Elem, Place
<1>2. CountersInv
  <2>1. \A r : In("held", r) = {} /\ In("queue", r) = {}
    BY DEF Init, In
  <2>2. Outside = {}
    BY DEF Init, Outside
  <2> QED BY <2>1, <2>2, FS_EmptySet DEF Init, CountersInv
<1>3. LengthInv /\ RingInv /\ SignalInv /\ GrantInv
  BY LengthAssumption
     DEF Init, LengthInv, RingInv, SignalInv, GrantInv, Length, Occupied, Queued,
         Slot, Empty
<1> QED BY <1>1, <1>2, <1>3 DEF LockInv

-----------------------------------------------------------------------------
\* A call gets a place in the queue, coming from outside or from nowhere.
LEMMA EnqueueStep ==
  ASSUME LockInv, NEW c \in Call, NEW r \in BOOLEAN,
         ~QueueFull, Enqueue(c, r), UNCHANGED signaled,
         reader' = [reader EXCEPT ![c] = r],
         \/ pc[c] = "idle" /\ UNCHANGED <<waiting, woken>>
         \/ pc[c] = "outside" /\ waiting' = waiting - 1 /\ woken' = woken \ {c}
  PROVE  LockInv'
<1> USE DEF LockInv
<1>1. Length \in Nat /\ Length < QueueLength /\ Length' = Length + 1
  BY LengthAssumption
     DEF TypeOK, LengthInv, Length, QueueFull, Enqueue, Slot
<1>2. waiting' \in Nat
  <2>1. CASE pc[c] = "idle"
    BY <2>1 DEF TypeOK
  <2>2. CASE pc[c] = "outside"
    <3>1. c \in Outside
      BY <2>2 DEF Outside
    <3>2. Outside # {}
      BY <3>1
    <3>3. Cardinality(Outside) # 0
      BY <3>2, FiniteCalls, FS_EmptySet
    <3> QED BY <2>2, <3>3 DEF TypeOK, CountersInv
  <2> QED BY <2>1, <2>2
<1>3. TypeOK'
  BY <1>2, LengthAssumption
     DEF TypeOK, Enqueue, active, Slot, Elem, Place, Advance
<1>4. CountersInv'
  <2>1. /\ In("held", TRUE)' = In("held", TRUE)
        /\ In("held", FALSE)' = In("held", FALSE)
        /\ In("queue", ~r)' = In("queue", ~r)
    BY DEF In, Enqueue, TypeOK
  <2>2. c \notin In("queue", r) /\ In("queue", r)' = In("queue", r) \cup {c}
    BY DEF In, Enqueue, TypeOK
  <2>3. Cardinality(In("queue", r)') = Cardinality(In("queue", r)) + 1
    BY <2>2, FiniteCalls, OneMore
  <2>4. waiting' = Cardinality(Outside') /\ woken' \subseteq Outside'
    <3>1. CASE pc[c] = "idle"
      <4>1. Outside' = Outside
        BY <3>1 DEF Outside, Enqueue, TypeOK
      <4> QED BY <3>1, <4>1 DEF CountersInv
    <3>2. CASE pc[c] = "outside"
      <4>1. c \in Outside /\ Outside' = Outside \ {c}
        BY <3>2 DEF Outside, Enqueue, TypeOK
      <4>2. Cardinality(Outside') = Cardinality(Outside) - 1
        BY <4>1, FiniteCalls, OneLess
      <4> QED BY <3>2, <4>1, <4>2 DEF CountersInv
    <3> QED BY <3>1, <3>2
  <2>5. CASE r
    BY <2>1, <2>2, <2>3, <2>4, <2>5 DEF CountersInv, Enqueue, active
  <2>6. CASE ~r
    BY <2>1, <2>2, <2>3, <2>4, <2>6 DEF CountersInv, Enqueue, active
  <2> QED BY <2>5, <2>6
<1>5. ~Occupied(tail) /\ tail \in Slot /\ head \in Slot
  BY <1>1, LengthAssumption DEF TypeOK, LengthInv, Occupied, Slot
<1>6. LengthInv'
  BY <1>1, LengthAssumption DEF TypeOK, LengthInv, Enqueue, Advance, Slot, Length
<1>7. \A i \in Slot : Occupied(i)' <=> Occupied(i) \/ i = tail
  BY <1>1, LengthAssumption
     DEF TypeOK, LengthInv, Enqueue, Advance, Slot, Occupied
<1>8. Queued' = Queued \cup {c} /\ c \notin Queued
  BY DEF Queued, Enqueue, TypeOK
<1>9. /\ slot'[c] = tail
      /\ \A d \in Queued : slot'[d] = slot[d] /\ slot[d] # tail /\ slot[d] \in Slot
                            /\ reader'[d] = reader[d]
      /\ \A i \in Slot \ {tail} : array'[i] = array[i]
      /\ array'[tail] = [is_reader |-> r, is_signaled |-> FALSE]
      /\ reader'[c] = r
  BY <1>5, <1>8 DEF Enqueue, TypeOK, RingInv, Queued
<1>10. RingInv'
  <2>1. \A d \in Queued' : /\ Occupied(slot[d])'
                           /\ array'[slot'[d]].is_reader = reader'[d]
    BY <1>5, <1>7, <1>8, <1>9 DEF RingInv
  <2>2. \A d, e \in Queued' : slot'[d] = slot'[e] => d = e
    BY <1>8, <1>9 DEF RingInv
  <2>3. \A i \in Slot : Occupied(i)' => \E d \in Queued' : slot'[d] = i
    BY <1>7, <1>8, <1>9 DEF RingInv
  <2>4. \A i \in Slot : ~Occupied(i)' => ~array'[i].is_signaled
    BY <1>7, <1>9 DEF RingInv
  <2> QED BY <2>1, <2>2, <2>3, <2>4 DEF RingInv
<1>11. head' = head /\ (Length > 0 => head # tail /\ array'[head] = array[head])
  <2>1. head' = head
    BY DEF Enqueue
  <2>2. Length > 0 => Occupied(head)
    BY <1>5, LengthAssumption DEF Occupied, Slot
  <2> QED BY <1>5, <1>9, <2>1, <2>2
<1>12. SignalInv'
  BY <1>1, <1>5, <1>9, <1>11 DEF SignalInv, TypeOK
<1>13. GrantInv'
  <2>1. UNCHANGED <<active, signaled>>
    BY DEF Enqueue
  <2>2. CASE Length > 0
    BY <1>1, <1>11, <2>1, <2>2 DEF GrantInv, TypeOK, active, SignalInv
  <2>3. CASE Length = 0
    <3>1. signaled = 0 /\ head = tail /\ writer_waiting = 0
      BY <1>1, <2>3, LengthAssumption DEF SignalInv, LengthInv, TypeOK, Slot, Length
    <3>2. array'[head'].is_reader = r
      BY <1>9, <1>11, <3>1
    <3> QED BY <1>1, <2>1, <3>1, <3>2 DEF GrantInv, TypeOK, active, Enqueue, MustQueue
  <2> QED BY <1>1, <2>2, <2>3
<1> QED BY <1>3, <1>4, <1>6, <1>10, <1>12, <1>13

\* A call gets the lock without waiting in the queue.
LEMMA AcquireStep ==
  ASSUME LockInv, NEW c \in Call, NEW r \in BOOLEAN,
         Acquire(c, r), UNCHANGED signaled,
         reader' = [reader EXCEPT ![c] = r],
         \/ pc[c] = "idle" /\ UNCHANGED <<waiting, woken>>
         \/ pc[c] = "outside" /\ waiting' = waiting - 1 /\ woken' = woken \ {c}
  PROVE  LockInv'
<1> USE DEF LockInv
<1>1. waiting' \in Nat
  <2>1. CASE pc[c] = "idle"
    BY <2>1 DEF TypeOK
  <2>2. CASE pc[c] = "outside"
    <3>1. c \in Outside
      BY <2>2 DEF Outside
    <3>2. Cardinality(Outside) # 0
      BY <3>1, FiniteCalls, FS_EmptySet
    <3> QED BY <2>2, <3>2 DEF TypeOK, CountersInv
  <2> QED BY <2>1, <2>2
<1>2. TypeOK'
  BY <1>1 DEF TypeOK, Acquire, CountActive, ring, queued, Place
<1>3. CountersInv'
  <2>1. /\ \A q : In("queue", q)' = In("queue", q)
        /\ In("held", ~r)' = In("held", ~r)
    BY DEF In, Acquire, TypeOK
  <2>2. c \notin In("held", r) /\ In("held", r)' = In("held", r) \cup {c}
    BY DEF In, Acquire, TypeOK
  <2>3. Cardinality(In("held", r)') = Cardinality(In("held", r)) + 1
    BY <2>2, FiniteCalls, OneMore
  <2>4. waiting' = Cardinality(Outside') /\ woken' \subseteq Outside'
    <3>1. CASE pc[c] = "idle"
      <4>1. Outside' = Outside
        BY <3>1 DEF Outside, Acquire, TypeOK
      <4> QED BY <3>1, <4>1 DEF CountersInv
    <3>2. CASE pc[c] = "outside"
      <4>1. c \in Outside /\ Outside' = Outside \ {c}
        BY <3>2 DEF Outside, Acquire, TypeOK
      <4>2. Cardinality(Outside') = Cardinality(Outside) - 1
        BY <4>1, FiniteCalls, OneLess
      <4> QED BY <3>2, <4>1, <4>2 DEF CountersInv
    <3> QED BY <3>1, <3>2
  <2>5. CASE r
    BY <2>1, <2>2, <2>3, <2>4, <2>5 DEF CountersInv, Acquire, CountActive, queued
  <2>6. CASE ~r
    BY <2>1, <2>2, <2>3, <2>4, <2>6 DEF CountersInv, Acquire, CountActive, queued
  <2> QED BY <2>5, <2>6
<1>4. Queued' = Queued /\ \A d \in Queued : reader'[d] = reader[d]
  BY DEF Queued, Acquire, TypeOK
<1>5. LengthInv' /\ RingInv' /\ SignalInv'
  BY <1>4 DEF LengthInv, RingInv, SignalInv, Length, Occupied, Acquire, ring, queued
<1>6. GrantInv'
  <2>1. signaled = 0 /\ writer_active = 0 /\ (~r => reader_active = 0)
    BY DEF Acquire, MustQueue, TypeOK, SignalInv
  <2>2. /\ reader_active' = (IF r THEN reader_active + 1 ELSE reader_active)
        /\ writer_active' = (IF r THEN 0 ELSE 1)
    BY <2>1 DEF Acquire, CountActive
  <2>3. UNCHANGED <<ring, queued, signaled>> /\ Length' = Length
    BY DEF Acquire, ring, queued, Length
  <2> QED BY <2>1, <2>2, <2>3 DEF GrantInv, TypeOK, ring
<1> QED BY <1>2, <1>3, <1>5, <1>6

\* A call finds the queue full and stays outside.
LEMMA StayOutsideStep ==
  ASSUME LockInv, NEW c \in Call, NEW r \in BOOLEAN, pc[c] = "idle",
         reader' = [reader EXCEPT ![c] = r],
         pc' = [pc EXCEPT ![c] = "outside"],
         waiting' = waiting + 1,
         UNCHANGED <<ring, active, queued, signaled, woken>>
  PROVE  LockInv'
<1> USE DEF LockInv
<1>1. TypeOK'
  BY DEF TypeOK, ring, active, queued, Place
<1>2. CountersInv'
  <2>1. \A q \in BOOLEAN : In("queue", q)' = In("queue", q) /\ In("held", q)' = In("held", q)
    BY DEF In, TypeOK
  <2>2. c \notin Outside /\ Outside' = Outside \cup {c}
    BY DEF Outside, TypeOK
  <2>3. Cardinality(Outside') = Cardinality(Outside) + 1
    BY <2>2, FiniteCalls, OneMore
  <2> QED BY <2>1, <2>2, <2>3 DEF CountersInv, active, queued
<1>3. Queued' = Queued /\ \A d \in Queued : reader'[d] = reader[d]
  BY DEF Queued, TypeOK
<1>4. LengthInv' /\ RingInv' /\ SignalInv' /\ GrantInv'
  BY <1>3
     DEF LengthInv, RingInv, SignalInv, GrantInv, Length, Occupied, ring, active, queued
<1> QED BY <1>1, <1>2, <1>4

\* Only the set of calls that may look at the queue again changes.
LEMMA OnlyWokenStep ==
  ASSUME LockInv, woken' \subseteq Outside,
         UNCHANGED <<ring, active, queued, waiting, signaled, pc, reader>>
  PROVE  LockInv'
<1> USE DEF LockInv
<1>1. TypeOK'
  BY DEF TypeOK, ring, active, queued, Outside
<1>2. Outside' = Outside /\ Queued' = Queued /\ \A p, q : In(p, q)' = In(p, q)
  BY DEF Outside, Queued, In
<1>3. CountersInv'
  BY <1>2 DEF CountersInv, active, queued
<1>4. LengthInv' /\ RingInv' /\ SignalInv' /\ GrantInv'
  BY <1>2
     DEF LengthInv, RingInv, SignalInv, GrantInv, Length, Occupied, ring, active, queued
<1> QED BY <1>1, <1>3, <1>4

-----------------------------------------------------------------------------
\* The head of a queue that is not empty is the slot of a waiting call.
LEMMA HeadIsOccupied ==
  ASSUME LockInv, Length > 0
  PROVE  Occupied(head) /\ \E c \in Queued : slot[c] = head
BY LengthAssumption DEF LockInv, RingInv, TypeOK, Occupied, Slot

\* A call of its kind waits or holds the lock when the kind's counter says so.
LEMMA CounterIsPositive ==
  ASSUME LockInv, NEW c \in Call
  PROVE  /\ pc[c] = "queue" /\ reader[c] => reader_waiting > 0
         /\ pc[c] = "queue" /\ ~reader[c] => writer_waiting > 0
         /\ pc[c] = "held" /\ reader[c] => reader_active > 0
         /\ pc[c] = "held" /\ ~reader[c] => writer_active > 0
<1>1. ASSUME NEW p, NEW r, c \in In(p, r) PROVE Cardinality(In(p, r)) > 0
  BY <1>1, FiniteCalls, FS_EmptySet
<1> QED BY <1>1 DEF LockInv, TypeOK, CountersInv, In

\* A signaled call is the head of the queue; it leaves the queue with the lock.
LEMMA WakeStep ==
  ASSUME LockInv, NEW c \in Call, Wake(c)
  PROVE  LockInv'
<1> USE DEF LockInv
<1> DEFINE r == reader[c]
           left == IF r THEN reader_waiting - 1 ELSE reader_waiting
           next == Advance(head)
           chain == array[head].is_reader /\ left > 0 /\ array[next].is_reader
<1>1. /\ c \in Queued /\ slot[c] = head /\ head \in Slot /\ r \in BOOLEAN
      /\ array[head].is_signaled /\ array[head].is_reader = r
      /\ signaled = 1 /\ Length > 0
  BY DEF Wake, Queued, TypeOK, RingInv, SignalInv
<1>2. /\ r => reader_waiting > 0
      /\ ~r => writer_waiting > 0
  BY <1>1, CounterIsPositive DEF Queued
<1>3. /\ pc' = [pc EXCEPT ![c] = "held"] /\ UNCHANGED <<tail, waiting, reader>>
      /\ head' = next /\ slot' = [slot EXCEPT ![c] = 0]
      /\ reader_waiting' = left
      /\ writer_waiting' = (IF r THEN writer_waiting ELSE writer_waiting - 1)
      /\ reader_active' = (IF r THEN reader_active + 1 ELSE reader_active)
      /\ writer_active' = (IF r THEN writer_active ELSE writer_active + 1)
      /\ signaled' = (IF chain THEN 1 ELSE 0)
  BY <1>1 DEF Wake, CountActive, TypeOK
<1>4. Length' = Length - 1 /\ Length \in Nat
  BY <1>2, <1>3 DEF Length, TypeOK
<1>5. next \in Slot
  BY <1>1, LengthAssumption DEF Advance, Slot
<1>6. woken' \subseteq Outside
  BY DEF Wake, NotifyOutside, CountersInv
<1>7. LengthInv'
  BY <1>1, <1>3, <1>4, LengthAssumption DEF LengthInv, TypeOK, Advance, Slot
<1>8. \A i \in Slot : Occupied(i)' <=> Occupied(i) /\ i # head
  BY <1>1, <1>3, <1>4, LengthAssumption
     DEF LengthInv, TypeOK, Occupied, Advance, Slot
<1>9. Queued' = Queued \ {c}
  BY <1>3 DEF Queued, TypeOK
<1>10. /\ Length > 1 => next # head
       /\ chain => Length > 1
  <2>1. Length > 1 => QueueLength > 1
    BY <1>1, LengthAssumption DEF LengthInv, TypeOK, Slot
  <2>2. Length > 1 => next # head
    BY <1>1, <2>1, LengthAssumption DEF Advance, Slot
  <2>3. chain => Length > 1
    BY <1>1 DEF Length, TypeOK
  <2> QED BY <2>2, <2>3
<1>11. /\ array'[head] = Empty
       /\ \A i \in Slot : i # head =>
             /\ array'[i].is_reader = array[i].is_reader
             /\ array'[i].is_signaled <=> chain /\ i = next
       /\ array' \in [Slot -> Elem]
  <2>1. array' = [(IF chain THEN [array EXCEPT ![next].is_signaled = TRUE]
                            ELSE array) EXCEPT ![head] = Empty]
    BY DEF Wake
  <2>2. \A i \in Slot : i # head => ~array[i].is_signaled
    BY DEF SignalInv
  <2>3. CASE chain
    <3> DEFINE told == [array EXCEPT ![next].is_signaled = TRUE]
    <3>1. /\ told \in [Slot -> Elem]
          /\ \A i \in Slot : /\ told[i].is_reader = array[i].is_reader
                             /\ told[i].is_signaled <=> array[i].is_signaled \/ i = next
      BY <1>5 DEF TypeOK, Elem
    <3>2. array' = [told EXCEPT ![head] = Empty]
      BY <2>1, <2>3
    <3> HIDE DEF told, chain
    <3> QED BY <1>1, <2>2, <2>3, <3>1, <3>2 DEF Elem, Empty
  <2>4. CASE ~chain
    BY <1>1, <2>1, <2>2, <2>4 DEF TypeOK, Elem, Empty
  <2> QED BY <2>3, <2>4
<1>12. TypeOK'
  <2>1. slot' \in [Call -> Slot] /\ pc' \in [Call -> Place]
    BY <1>3, LengthAssumption DEF TypeOK, Slot, Place
  <2>2. /\ reader_waiting' \in Nat /\ writer_waiting' \in Nat
        /\ reader_active' \in Nat /\ writer_active' \in Nat /\ signaled' \in Nat
    BY <1>1, <1>2, <1>3 DEF TypeOK
  <2> QED BY <1>3, <1>5, <1>6, <1>11, <2>1, <2>2 DEF TypeOK, Outside
<1>13. CountersInv'
  <2>1. In("queue", ~r)' = In("queue", ~r) /\ In("held", ~r)' = In("held", ~r)
    BY <1>1, <1>3 DEF In, TypeOK
  <2>2. /\ c \in In("queue", r) /\ In("queue", r)' = In("queue", r) \ {c}
        /\ c \notin In("held", r) /\ In("held", r)' = In("held", r) \cup {c}
    BY <1>1, <1>3 DEF In, TypeOK, Queued
  <2>3. /\ Cardinality(In("queue", r)') = Cardinality(In("queue", r)) - 1
        /\ Cardinality(In("held", r)') = Cardinality(In("held", r)) + 1
    BY <2>2, FiniteCalls, OneMore, OneLess
  <2>4. Outside' = Outside
    BY <1>1, <1>3 DEF Outside, TypeOK, Queued
  <2>5. CASE r
    BY <1>3, <1>6, <2>1, <2>3, <2>4, <2>5 DEF CountersInv
  <2>6. CASE ~r
    BY <1>1, <1>3, <1>6, <2>1, <2>3, <2>4, <2>6 DEF CountersInv
  <2> QED BY <2>5, <2>6
<1>14. RingInv'
  <2>1. \A d \in Queued' : /\ slot'[d] = slot[d] /\ slot[d] \in Slot /\ slot[d] # head
                           /\ reader'[d] = reader[d]
    BY <1>1, <1>3, <1>9 DEF RingInv, TypeOK, Queued
  <2>2. \A d \in Queued' : Occupied(slot[d])' /\ array'[slot'[d]].is_reader = reader'[d]
    BY <1>8, <1>9, <1>11, <2>1 DEF RingInv
  <2>3. \A d, e \in Queued' : slot'[d] = slot'[e] => d = e
    BY <1>9, <2>1 DEF RingInv
  <2>4. \A i \in Slot : Occupied(i)' => \E d \in Queued' : slot'[d] = i
    BY <1>1, <1>8, <1>9, <2>1 DEF RingInv
  <2>5. chain => Occupied(head)'
    BY <1>3, <1>4, <1>5, <1>7, <1>10, LengthAssumption
       DEF LengthInv, Occupied, TypeOK, Slot
  <2>6. \A i \in Slot : ~Occupied(i)' => ~array'[i].is_signaled
    BY <1>3, <1>11, <2>5 DEF Empty, Occupied, Length
  <2> QED BY <2>2, <2>3, <2>4, <2>6 DEF RingInv
<1>15. SignalInv'
  BY <1>3, <1>4, <1>5, <1>10, <1>11 DEF SignalInv, Empty, TypeOK
<1>16. GrantInv'
  <2>1. writer_active = 0 /\ (~r => reader_active = 0)
    BY <1>1 DEF GrantInv
  <2>2. ~r => ~chain /\ writer_active' = 1 /\ reader_active' = 0 /\ signaled' = 0
    BY <1>1, <1>3, <2>1
  <2>3. r => writer_active' = 0 /\ reader_active' > 0
    BY <1>3, <2>1 DEF TypeOK
  <2>4. chain => array'[head'].is_reader
    BY <1>3, <1>5, <1>10, <1>11
  <2>5. ASSUME r, ~chain, Length' > 0 PROVE ~array'[head'].is_reader
    <3>1. next # head /\ array'[next].is_reader = array[next].is_reader
      BY <1>4, <1>5, <1>10, <1>11, <2>5
    <3>0. reader_waiting' = left /\ left \in Nat
      BY <1>2, <1>3, <2>5 DEF TypeOK
    <3>2. CASE left > 0
      BY <1>1, <1>3, <2>5, <3>1, <3>2
    <3>3. CASE left = 0
      <4>1. In("queue", TRUE)' = {}
        <5>1. Cardinality(In("queue", TRUE)') = 0
          BY <1>13, <3>0, <3>3 DEF CountersInv
        <5>2. IsFiniteSet(In("queue", TRUE)')
          BY FS_Subset, CallAssumption DEF In
        <5> QED BY <5>1, <5>2, FS_EmptySet
      <4>2. Occupied(head)'
        BY <1>3, <1>4, <1>5, <1>7, <2>5, LengthAssumption
           DEF LengthInv, Occupied, TypeOK, Slot
      <4>3. PICK d \in Queued' : slot'[d] = next
        BY <1>3, <1>5, <1>14, <4>2 DEF RingInv, Occupied, Length
      <4>4. ~reader'[d]
        BY <1>3, <4>1, <4>3 DEF In, Queued, TypeOK
      <4> QED BY <1>3, <1>14, <4>3, <4>4 DEF RingInv
    <3> HIDE DEF left, chain, next, r
    <3>4. left > 0 \/ left = 0
      BY <3>0
    <3> QED BY <3>2, <3>3, <3>4
  <2> QED BY <1>1, <1>3, <2>2, <2>3, <2>4, <2>5 DEF GrantInv
<1> QED BY <1>7, <1>12, <1>13, <1>14, <1>15, <1>16

\* A holder gives the lock back and wakes the head if it was the last one.
LEMMA UnlockStep ==
  ASSUME LockInv, NEW c \in Call, NEW r \in BOOLEAN, r = reader[c], Unlock(c)
  PROVE  LockInv'
<1> USE DEF LockInv
<1> DEFINE ra == IF r THEN reader_active - 1 ELSE reader_active
           wa == IF r THEN writer_active ELSE writer_active - 1
           notify == ra + wa + signaled = 0 /\ Length > 0
<1>1. /\ pc[c] = "held"
      /\ pc' = [pc EXCEPT ![c] = "idle"]
      /\ reader' = [reader EXCEPT ![c] = FALSE]
      /\ UNCHANGED <<head, tail, slot, queued, waiting, woken>>
      /\ reader_active' = ra /\ writer_active' = wa
      /\ array' = (IF notify THEN [array EXCEPT ![head].is_signaled = TRUE] ELSE array)
      /\ signaled' = (IF notify THEN signaled + 1 ELSE signaled)
  BY DEF Unlock, MustNotify, TypeOK, Length
<1>2. (r => reader_active > 0) /\ (~r => writer_active > 0)
  BY <1>1, CounterIsPositive
<1>3. ra \in Nat /\ wa \in Nat /\ Length \in Nat /\ Length' = Length
  BY <1>1, <1>2 DEF TypeOK, queued, Length
<1>4. /\ head \in Slot
      /\ \A i \in Slot : /\ array'[i].is_reader = array[i].is_reader
                         /\ array'[i].is_signaled <=> \/ array[i].is_signaled
                                                      \/ notify /\ i = head
      /\ array' \in [Slot -> Elem]
  <2>1. CASE notify
    BY <1>1, <2>1 DEF TypeOK, Elem
  <2>2. CASE ~notify
    BY <1>1, <2>2 DEF TypeOK
  <2> QED BY <2>1, <2>2
<1>5. TypeOK'
  BY <1>1, <1>3, <1>4 DEF TypeOK, queued, Place
<1>6. CountersInv'
  <2>0. /\ pc'[c] = "idle" /\ pc[c] = "held" /\ reader[c] = r
        /\ \A d \in Call \ {c} : pc'[d] = pc[d] /\ reader'[d] = reader[d]
    BY <1>1 DEF TypeOK
  <2>1. /\ In("queue", TRUE)' = In("queue", TRUE)
        /\ In("queue", FALSE)' = In("queue", FALSE)
        /\ In("held", ~r)' = In("held", ~r)
    BY <1>1, <2>0 DEF In
  <2>2. c \in In("held", r) /\ In("held", r)' = In("held", r) \ {c}
    BY <1>1, <2>0 DEF In
  <2>3. Cardinality(In("held", r)') = Cardinality(In("held", r)) - 1
    BY <2>2, FiniteCalls, OneLess
  <2>4. Outside' = Outside
    BY <1>1 DEF Outside, TypeOK
  <2>5. CASE r
    BY <1>1, <2>1, <2>3, <2>4, <2>5 DEF CountersInv, queued
  <2>6. CASE ~r
    BY <1>1, <2>1, <2>3, <2>4, <2>6 DEF CountersInv, queued
  <2> QED BY <2>5, <2>6
<1>7. LengthInv'
  BY <1>1, <1>3 DEF LengthInv
<1>8. Queued' = Queued /\ \A d \in Queued : reader'[d] = reader[d] /\ slot[d] \in Slot
  BY <1>1 DEF Queued, TypeOK
<1>9. \A i : Occupied(i)' <=> Occupied(i)
  BY <1>1, <1>3 DEF Occupied
<1>10. RingInv'
  <2>1. \A d \in Queued' : Occupied(slot[d])' /\ array'[slot'[d]].is_reader = reader'[d]
    <3>1. \A d \in Queued : Occupied(slot[d]) /\ array[slot[d]].is_reader = reader[d]
      BY DEF RingInv
    <3>2. UNCHANGED slot
      BY <1>1
    <3> QED BY <1>4, <1>8, <1>9, <3>1, <3>2
  <2>2. \A d, e \in Queued' : slot'[d] = slot'[e] => d = e
    BY <1>1, <1>8 DEF RingInv
  <2>3. \A i \in Slot : Occupied(i)' => \E d \in Queued' : slot'[d] = i
    BY <1>1, <1>8, <1>9 DEF RingInv
  <2>4. notify => Occupied(head)
    BY HeadIsOccupied
  <2>5. \A i \in Slot : ~Occupied(i)' => ~array'[i].is_signaled
    BY <1>4, <1>9, <2>4 DEF RingInv
  <2> QED BY <2>1, <2>2, <2>3, <2>5 DEF RingInv
<1>11. SignalInv'
  <2>1. notify => signaled = 0
    BY <1>3 DEF SignalInv
  <2> QED BY <1>1, <1>3, <1>4, <2>1 DEF SignalInv
<1>12. GrantInv'
  <2>1. CASE r
    <3>1. writer_active = 0 /\ wa = 0 /\ writer_active' = 0 /\ reader_active > 0
      BY <1>1, <1>2, <2>1 DEF GrantInv, TypeOK
    <3>2. head' = head /\ array'[head].is_reader = array[head].is_reader
      BY <1>1, <1>4
    <3>3. CASE notify
      BY <1>1, <1>3, <2>1, <3>1, <3>2, <3>3 DEF GrantInv, SignalInv, TypeOK
    <3>4. CASE ~notify
      BY <1>1, <1>3, <2>1, <3>1, <3>2, <3>4 DEF GrantInv, SignalInv, TypeOK
    <3> QED BY <3>3, <3>4
  <2>2. CASE ~r
    BY <1>1, <1>2, <1>3, <1>4, <2>2 DEF GrantInv, SignalInv, TypeOK
  <2> QED BY <2>1, <2>2
<1> QED BY <1>5, <1>6, <1>7, <1>10, <1>11, <1>12

-----------------------------------------------------------------------------
\* Every step of every thread preserves the invariant.
LEMMA NextLockInv == LockInv /\ [Next]_vars => LockInv'
<1> SUFFICES ASSUME LockInv, [Next]_vars PROVE LockInv'
  OBVIOUS
<1>1. ASSUME NEW c \in Call, NEW r \in BOOLEAN, Lock(c, r) PROVE LockInv'
  <2>1. /\ pc[c] = "idle" /\ reader' = [reader EXCEPT ![c] = r]
        /\ UNCHANGED <<signaled, woken>>
    BY <1>1 DEF Lock, MayCall
  <2>2. CASE /\ pc' = [pc EXCEPT ![c] = "outside"] /\ waiting' = waiting + 1
             /\ UNCHANGED <<ring, active, queued>>
    BY <2>1, <2>2, StayOutsideStep
  <2>3. CASE ~QueueFull /\ Enqueue(c, r) /\ UNCHANGED waiting
    BY <2>1, <2>3, EnqueueStep
  <2>4. CASE Acquire(c, r) /\ UNCHANGED waiting
    BY <2>1, <2>4, AcquireStep
  <2> QED BY <1>1, <2>2, <2>3, <2>4 DEF Lock, Admit
<1>2. ASSUME NEW c \in Call, Resume(c) PROVE LockInv'
  <2>1. /\ c \in woken /\ pc[c] = "outside" /\ reader[c] \in BOOLEAN
        /\ reader' = [reader EXCEPT ![c] = reader[c]]
        /\ UNCHANGED signaled /\ woken' = woken \ {c}
    BY <1>2 DEF Resume, LockInv, CountersInv, Outside, TypeOK
  <2>2. CASE UNCHANGED <<ring, active, queued, waiting, pc>>
    <3>1. UNCHANGED reader /\ woken' \subseteq Outside
      BY <1>2 DEF Resume, LockInv, CountersInv
    <3> QED BY <2>1, <2>2, <3>1, OnlyWokenStep
  <2>3. CASE ~QueueFull /\ Enqueue(c, reader[c]) /\ waiting' = waiting - 1
    BY <2>1, <2>3, EnqueueStep
  <2>4. CASE Acquire(c, reader[c]) /\ waiting' = waiting - 1
    BY <2>1, <2>4, AcquireStep
  <2> QED BY <1>2, <2>2, <2>3, <2>4 DEF Resume, Admit
<1>3. ASSUME NEW c \in Call, SpuriousWakeup(c) PROVE LockInv'
  <2>1. woken' \subseteq Outside
    BY <1>3 DEF SpuriousWakeup, LockInv, CountersInv
  <2> QED BY <1>3, <2>1, OnlyWokenStep DEF SpuriousWakeup
<1>4. ASSUME NEW c \in Call, Wake(c) PROVE LockInv'
  BY <1>4, WakeStep
<1>5. ASSUME NEW c \in Call, Release(c) PROVE LockInv'
  <2>1. reader[c] \in BOOLEAN
    BY DEF LockInv, TypeOK
  <2> QED BY <1>5, <2>1, UnlockStep DEF Release
<1>6. CASE UNCHANGED vars
  <2>1. woken' \subseteq Outside
    BY <1>6 DEF vars, LockInv, CountersInv
  <2> QED BY <1>6, <2>1, OnlyWokenStep DEF vars
<1> QED BY <1>1, <1>2, <1>3, <1>4, <1>5, <1>6 DEF Next

\* The invariant holds in every reachable state.
THEOREM LockInvHolds == Spec => []LockInv
BY InitLockInv, NextLockInv, PTL DEF Spec

-----------------------------------------------------------------------------
\* No counter of the lock is ever negative, and the ring indexes stay inside
\* the array.
THEOREM TypeCorrect == Spec => []TypeOK
<1>1. LockInv => TypeOK
  BY DEF LockInv
<1> QED BY <1>1, LockInvHolds, PTL

\* A writer is alone: sge_fifo_lock() and sge_fifo_ulock() keep readers and
\* other writers out for any number of threads, nested read locks included.
THEOREM WriterIsAlone == Spec => []MutualExclusion
<1>1. LockInv => MutualExclusion
  <2> SUFFICES ASSUME LockInv, NEW c \in Held, NEW d \in Held, c # d, ~reader[c]
               PROVE  FALSE
    BY DEF MutualExclusion
  <2> USE DEF LockInv
  <2>1. c \in In("held", FALSE) /\ reader[d] \in BOOLEAN /\ c \in Call /\ d \in Call
    BY DEF Held, In, TypeOK
  <2>2. writer_active = 1 /\ reader_active = 0
    BY <2>1, CounterIsPositive DEF GrantInv, TypeOK, Held
  <2>3. ~reader[d]
    BY <2>1, <2>2, CounterIsPositive DEF Held
  <2>4. d \in In("held", FALSE)
    BY <2>1, <2>3 DEF Held, In
  <2>5. PICK x : In("held", FALSE) = {x}
    BY <2>2, FiniteCalls, FS_Singleton DEF CountersInv
  <2> QED BY <2>1, <2>4, <2>5
<1> QED BY <1>1, LockInvHolds, PTL

\* At most one wakeup is under way and it is the head's.
THEOREM OneWakeupForTheHead == Spec => []WakeupIsForHead
<1>1. LockInv => WakeupIsForHead
  BY DEF LockInv, SignalInv, WakeupIsForHead, Queued, TypeOK
<1> QED BY <1>1, LockInvHolds, PTL

\* Whoever waits in the queue will be woken by somebody.
THEOREM WakeupsAreNotLost == Spec => []NoLostWakeup
<1>1. LockInv => NoLostWakeup
  <2> SUFFICES ASSUME LockInv, Queued # {} PROVE Length > 0
    BY DEF LockInv, GrantInv, NoLostWakeup
  <2> QED BY DEF LockInv, RingInv, Occupied
<1> QED BY <1>1, LockInvHolds, PTL
-----------------------------------------------------------------------------
(* The lock implements the first come, first served lock of FairRwLock.      *)

\* The slot of the k-th call in the queue.
Position(k) == (head + k - 1) % QueueLength

LEMMA Wrap ==
  ASSUME NEW n \in Nat \ {0}, NEW h \in 0 .. n - 1, NEW k \in 1 .. n
  PROVE  (h + k - 1) % n = IF h + k - 1 < n THEN h + k - 1 ELSE h + k - 1 - n
<1>1. \A x \in Nat : x < n => x % n = x
  OBVIOUS
<1>2. \A x \in Nat : n <= x /\ x < 2 * n => x % n = x - n
  OBVIOUS
<1>3. h + k - 1 \in Nat /\ h + k - 1 < 2 * n
  OBVIOUS
<1> HIDE DEF Wrap
<1> QED BY <1>1, <1>2, <1>3

\* The positions of the queue are the occupied slots, from the head on.
LEMMA PositionIsOccupied ==
  ASSUME LockInv, NEW k \in 1 .. Length
  PROVE  Position(k) \in Slot /\ Occupied(Position(k))
<1> USE DEF LockInv
<1>1. /\ head \in 0 .. QueueLength - 1 /\ tail \in 0 .. QueueLength - 1
      /\ QueueLength \in Nat \ {0} /\ Length \in Nat
  BY LengthAssumption DEF TypeOK, Slot, Length
<1>2. Length <= QueueLength
  BY <1>1 DEF LengthInv
<1>3. k \in 1 .. QueueLength
  BY <1>1, <1>2
<1>4. Position(k) = IF head + k - 1 < QueueLength THEN head + k - 1 ELSE head + k - 1 - QueueLength
  BY <1>1, <1>3, Wrap DEF Position
<1>5. Position(k) \in Slot
  BY <1>1, <1>3, <1>4 DEF Slot
<1>6. Occupied(Position(k))
  BY <1>1, <1>2, <1>3, <1>4 DEF Occupied, LengthInv
<1> QED BY <1>5, <1>6

\* Each position holds one call, and the queue lists it.
QueueIsListed ==
  /\ Length \in Nat /\ Waiters \in Seq(Call \X BOOLEAN) /\ Len(Waiters) = Length
  /\ \A k \in 1 .. Length : \E d \in Queued : slot[d] = Position(k)
  /\ \A k \in 1 .. Length, d \in Queued : slot[d] = Position(k) => Waiters[k] = <<d, reader[d]>>

LEMMA WaiterAt == LockInv => QueueIsListed
<1> SUFFICES ASSUME LockInv PROVE QueueIsListed
  OBVIOUS
<1> USE DEF LockInv
<1> DEFINE At(k) == CHOOSE d \in Queued : slot[d] = Position(k)
<1>1. Waiters = [k \in 1 .. Length |-> <<At(k), reader[At(k)]>>]
  BY DEF Waiters, Length, Position
<1>2. \A k \in 1 .. Length : \E d \in Queued : slot[d] = Position(k)
  BY PositionIsOccupied DEF RingInv
<1>3. \A k \in 1 .. Length : At(k) \in Queued /\ slot[At(k)] = Position(k)
  <2> SUFFICES ASSUME NEW k \in 1 .. Length PROVE At(k) \in Queued /\ slot[At(k)] = Position(k)
    OBVIOUS
  <2>1. \E d : d \in Queued /\ slot[d] = Position(k)
    BY <1>2
  <2> QED BY <2>1
<1> HIDE DEF At
<1>4. ASSUME NEW k \in 1 .. Length, NEW d \in Queued, slot[d] = Position(k)
      PROVE  Waiters[k] = <<d, reader[d]>>
  <2>1. At(k) = d
    BY <1>3, <1>4 DEF RingInv
  <2> QED BY <1>1, <2>1
<1>5. Length \in Nat
  BY DEF TypeOK, Length
<1>6. \A k \in 1 .. Length : <<At(k), reader[At(k)]>> \in Call \X BOOLEAN
  BY <1>3 DEF Queued, TypeOK
<1>7. Waiters \in [1 .. Length -> Call \X BOOLEAN]
  BY <1>1, <1>6
<1>8. Waiters \in Seq(Call \X BOOLEAN)
  BY <1>5, <1>7, SeqDef
<1>9. DOMAIN Waiters = 1 .. Length
  BY <1>1
<1>10. Len(Waiters) = Length
  BY <1>5, <1>8, <1>9, LenProperties
<1> QED BY <1>2, <1>4, <1>5, <1>8, <1>10 DEF QueueIsListed

\* Nobody comes or goes: the queue stays as it is.
LEMMA SameQueue ==
  ASSUME LockInv, LockInv', UNCHANGED <<head, queued>>, Queued' = Queued,
         \A d \in Queued : slot'[d] = slot[d] /\ reader'[d] = reader[d]
  PROVE  Waiters' = Waiters
<1>1. QueueIsListed
  BY WaiterAt
<1>2. QueueIsListed'
  BY WaiterAt, PTL
<1>3. Length' = Length /\ \A k : Position(k)' = Position(k)
  BY DEF Length, Position, queued
<1>4. ASSUME NEW k \in 1 .. Length PROVE Waiters'[k] = Waiters[k]
  <2>1. PICK d \in Queued : slot[d] = Position(k)
    BY <1>1 DEF QueueIsListed
  <2>2. Waiters[k] = <<d, reader[d]>>
    BY <1>1, <2>1 DEF QueueIsListed
  <2>3. d \in Queued' /\ slot'[d] = Position(k)' /\ k \in 1 .. Length'
    BY <1>3, <2>1
  <2>4. Waiters'[k] = <<d, reader'[d]>>
    BY <1>2, <2>3 DEF QueueIsListed
  <2> QED BY <2>1, <2>2, <2>4
<1>5. /\ Waiters \in Seq(Call \X BOOLEAN) /\ Len(Waiters) = Length
      /\ Waiters' \in Seq(Call \X BOOLEAN) /\ Len(Waiters') = Length
  BY <1>1, <1>2, <1>3 DEF QueueIsListed
<1> QED BY <1>4, <1>5, SeqEqual

LEMMA QueueGrows ==
  ASSUME LockInv, LockInv', NEW c \in Call, NEW r \in BOOLEAN, ~QueueFull, Enqueue(c, r),
         reader' = [reader EXCEPT ![c] = r], pc[c] # "queue"
  PROVE  Waiters' = Append(Waiters, <<c, r>>)
<1>1. QueueIsListed
  BY WaiterAt
<1>2. QueueIsListed'
  BY WaiterAt, PTL
<1>3. Length' = Length + 1 /\ Length < QueueLength /\ Length \in Nat /\ QueueLength \in Nat \ {0}
  BY LengthAssumption DEF LockInv, TypeOK, LengthInv, Length, QueueFull, Enqueue, Slot
<1>4. \A k : Position(k)' = Position(k)
  BY DEF Position, Enqueue
<1>5. /\ Queued' = Queued \cup {c} /\ slot'[c] = tail /\ reader'[c] = r
      /\ \A d \in Queued : d # c /\ slot'[d] = slot[d] /\ reader'[d] = reader[d]
  BY DEF Enqueue, LockInv, TypeOK, Queued
<1>6. Position(Length + 1) = tail
  <2>1. /\ head \in 0 .. QueueLength - 1 /\ tail \in 0 .. QueueLength - 1
        /\ Length + 1 \in 1 .. QueueLength
    BY <1>3 DEF LockInv, TypeOK, Slot
  <2>2. Position(Length + 1) =
          IF head + (Length + 1) - 1 < QueueLength THEN head + (Length + 1) - 1
                                         ELSE head + (Length + 1) - 1 - QueueLength
    BY <1>3, <2>1, Wrap DEF Position
  <2>3. IF head + Length < QueueLength THEN tail = head + Length
                                       ELSE tail = head + Length - QueueLength
    BY <1>3, <2>1 DEF LockInv, LengthInv
  <2> QED BY <1>3, <2>1, <2>2, <2>3
<1>7. ASSUME NEW k \in 1 .. Length PROVE Waiters'[k] = Waiters[k]
  <2>1. PICK d \in Queued : slot[d] = Position(k)
    BY <1>1 DEF QueueIsListed
  <2>2. Waiters[k] = <<d, reader[d]>>
    BY <1>1, <2>1 DEF QueueIsListed
  <2>3. d \in Queued' /\ slot'[d] = Position(k)' /\ k \in 1 .. Length'
    BY <1>3, <1>4, <1>5, <2>1
  <2>4. Waiters'[k] = <<d, reader'[d]>>
    BY <1>2, <2>3 DEF QueueIsListed
  <2> QED BY <1>5, <2>1, <2>2, <2>4
<1>8. Waiters'[Length + 1] = <<c, r>>
  <2> SUFFICES ASSUME NEW n \in Nat, n = Length + 1 PROVE Waiters'[n] = <<c, r>>
    BY <1>3
  <2>1. c \in Queued' /\ slot'[c] = Position(n)' /\ n \in 1 .. Length'
    BY <1>3, <1>4, <1>5, <1>6
  <2>2. Waiters'[n] = <<c, reader'[c]>>
    BY <1>2, <2>1 DEF QueueIsListed
  <2> QED BY <1>5, <2>2
<1>9. /\ Waiters \in Seq(Call \X BOOLEAN) /\ Len(Waiters) = Length
      /\ Waiters' \in Seq(Call \X BOOLEAN) /\ Len(Waiters') = Length + 1
  BY <1>1, <1>2, <1>3 DEF QueueIsListed
<1> DEFINE longer == Append(Waiters, <<c, r>>)
<1>10. /\ longer \in Seq(Call \X BOOLEAN) /\ Len(longer) = Length + 1
       /\ \A k \in 1 .. Length : longer[k] = Waiters[k]
       /\ longer[Length + 1] = <<c, r>>
  BY <1>9, AppendProperties
<1> HIDE DEF longer
<1>11. ASSUME NEW k \in 1 .. Length + 1 PROVE Waiters'[k] = longer[k]
  <2>1. CASE k = Length + 1
    BY <1>8, <1>10, <2>1
  <2>2. CASE k # Length + 1
    <3>1. k \in 1 .. Length
      BY <1>3, <2>2
    <3> QED BY <1>7, <1>10, <3>1
  <2> QED BY <2>1, <2>2
<1>12. Waiters' = longer
  BY <1>9, <1>10, <1>11, SeqEqual
<1> QED BY <1>12 DEF longer

LEMMA QueueShrinks ==
  ASSUME LockInv, LockInv', NEW c \in Call, Wake(c)
  PROVE  /\ Waiters # <<>> /\ Waiters[1] = <<c, reader[c]>>
         /\ Waiters' = Tail(Waiters)
<1>1. QueueIsListed
  BY WaiterAt
<1>2. QueueIsListed'
  BY WaiterAt, PTL
<1>3. /\ c \in Queued /\ slot[c] = head /\ head \in 0 .. QueueLength - 1 /\ reader[c] \in BOOLEAN
      /\ head' = Advance(head) /\ Length > 0 /\ Length \in Nat /\ QueueLength \in Nat \ {0}
  <2>1. c \in Queued /\ array[slot[c]].is_signaled /\ slot[c] \in Slot /\ head \in Slot
    BY DEF Wake, Queued, LockInv, TypeOK
  <2>2. slot[c] = head /\ signaled = 1 /\ Length > 0
    BY <2>1 DEF LockInv, SignalInv
  <2>3. head' = Advance(head) /\ reader[c] \in BOOLEAN /\ Length \in Nat
    BY DEF Wake, LockInv, TypeOK, Length
  <2> QED BY <2>1, <2>2, <2>3, LengthAssumption DEF Slot
<1>4. Length' = Length - 1
  <2>1. /\ reader_waiting' = IF reader[c] THEN reader_waiting - 1 ELSE reader_waiting
        /\ writer_waiting' = IF reader[c] THEN writer_waiting ELSE writer_waiting - 1
        /\ reader_waiting \in Nat /\ writer_waiting \in Nat
    BY DEF Wake, LockInv, TypeOK
  <2> QED BY <1>3, <2>1 DEF Length
<1>5. Length <= QueueLength
  BY <1>3 DEF LockInv, TypeOK, Slot, LengthInv
<1>6. /\ Queued' = Queued \ {c}
      /\ \A d \in Queued : d # c => slot'[d] = slot[d] /\ reader'[d] = reader[d]
  BY DEF Wake, LockInv, TypeOK, Queued
<1>7. Position(1) = head
  BY <1>3, Wrap DEF Position
<1>8. ASSUME NEW k \in Nat, k \in 1 .. Length - 1
      PROVE Position(k)' = Position(k + 1) /\ Position(k + 1) # head
  <2>1. k \in 1 .. QueueLength /\ k + 1 \in 1 .. QueueLength /\ head' \in 0 .. QueueLength - 1
        /\ head' = IF head + 1 = QueueLength THEN 0 ELSE head + 1
    BY <1>3, <1>5, <1>8 DEF Advance
  <2>2. Position(k)' = IF head' + k - 1 < QueueLength THEN head' + k - 1 ELSE head' + k - 1 - QueueLength
    BY <1>3, <2>1, Wrap DEF Position
  <2>3. Position(k + 1) = IF head + (k + 1) - 1 < QueueLength THEN head + (k + 1) - 1
                                                           ELSE head + (k + 1) - 1 - QueueLength
    BY <1>3, <2>1, Wrap DEF Position
  <2> QED BY <1>3, <2>1, <2>2, <2>3
<1>9. Waiters[1] = <<c, reader[c]>> /\ Waiters # <<>>
  <2>1. 1 \in 1 .. Length
    BY <1>3
  <2>2. Waiters[1] = <<c, reader[c]>>
    BY <1>1, <1>3, <1>7, <2>1 DEF QueueIsListed
  <2>3. Len(Waiters) # 0
    BY <1>1, <1>3 DEF QueueIsListed
  <2> QED BY <2>2, <2>3, EmptySeq
<1>10. ASSUME NEW k \in Nat, k \in 1 .. Length - 1 PROVE Waiters'[k] = Waiters[k + 1]
  <2>1. k + 1 \in 1 .. Length /\ k \in 1 .. Length'
    BY <1>3, <1>4, <1>10
  <2>2. PICK d \in Queued : slot[d] = Position(k + 1)
    BY <1>1, <2>1 DEF QueueIsListed
  <2>3. Waiters[k + 1] = <<d, reader[d]>>
    BY <1>1, <2>1, <2>2 DEF QueueIsListed
  <2>4. d # c /\ Position(k)' = Position(k + 1)
    BY <1>3, <1>8, <1>10, <2>2
  <2>5. d \in Queued' /\ slot'[d] = Position(k)' /\ reader'[d] = reader[d]
    BY <1>6, <2>2, <2>4
  <2>6. Waiters'[k] = <<d, reader'[d]>>
    BY <1>2, <2>1, <2>5 DEF QueueIsListed
  <2> QED BY <2>3, <2>5, <2>6
<1>11. /\ Waiters \in Seq(Call \X BOOLEAN) /\ Len(Waiters) = Length
       /\ Waiters' \in Seq(Call \X BOOLEAN) /\ Len(Waiters') = Length - 1
  BY <1>1, <1>2, <1>4 DEF QueueIsListed
<1> DEFINE shorter == Tail(Waiters)
<1>12. /\ shorter \in Seq(Call \X BOOLEAN) /\ Len(shorter) = Length - 1
       /\ \A k \in 1 .. Length - 1 : shorter[k] = Waiters[k + 1]
  BY <1>9, <1>11, HeadTailProperties
<1> HIDE DEF shorter
<1>13. \A k \in 1 .. Length - 1 : k \in Nat
  BY <1>3
<1>14. Waiters' = shorter
  BY <1>10, <1>11, <1>12, <1>13, SeqEqual
<1> QED BY <1>9, <1>14 DEF shorter

-----------------------------------------------------------------------------
Readers == {c \in Held : reader[c]}
Writers == {c \in Held : ~reader[c]}

\* What the counters say of the holders and of the queue.
LEMMA CountersTell ==
  ASSUME LockInv
  PROVE  /\ (reader_active = 0 <=> Readers = {}) /\ (writer_active = 0 <=> Writers = {})
         /\ (Length = 0 <=> Waiters = <<>>)
<1> USE DEF LockInv
<1>1. Readers = In("held", TRUE) /\ Writers = In("held", FALSE)
  BY DEF Readers, Writers, Held, In, TypeOK
<1>2. (reader_active = 0 <=> Readers = {}) /\ (writer_active = 0 <=> Writers = {})
  BY <1>1, FiniteCalls, FS_EmptySet DEF CountersInv
<1>3. Waiters \in Seq(Call \X BOOLEAN) /\ Len(Waiters) = Length
  BY WaiterAt DEF QueueIsListed
<1>4. Length = 0 <=> Waiters = <<>>
  BY <1>3, EmptySeq
<1> QED BY <1>2, <1>4

\* A call is put into the queue only if it must wait ...
LEMMA JoinsOnlyIfItMust ==
  ASSUME LockInv, NEW r \in BOOLEAN, MustQueue(r)
  PROVE  Waiters # <<>> \/ ~(Writers = {} /\ (r \/ Readers = {}))
<1> SUFFICES ASSUME Waiters = <<>>, Writers = {}, r \/ Readers = {} PROVE FALSE
  OBVIOUS
<1>1. Length = 0 /\ writer_active = 0 /\ (r \/ reader_active = 0)
  BY CountersTell
<1>2. signaled = 0
  BY <1>1 DEF LockInv, SignalInv
<1>3. writer_waiting = 0
  BY <1>1 DEF Length, LockInv, TypeOK
<1> QED BY <1>1, <1>2, <1>3 DEF MustQueue

\* ... and gets the lock at once only if nobody waits.
LEMMA EntersOnlyIfFree ==
  ASSUME LockInv, NEW r \in BOOLEAN, ~MustQueue(r)
  PROVE  Waiters = <<>> /\ Writers = {} /\ (r \/ Readers = {})
<1>1. /\ writer_active \in Nat /\ writer_waiting \in Nat /\ reader_active \in Nat
      /\ signaled \in Nat /\ reader_waiting \in Nat
  BY DEF LockInv, TypeOK
<1>2. writer_active = 0 /\ signaled = 0 /\ (r => writer_waiting = 0) /\ (~r => reader_active = 0)
  BY <1>1 DEF MustQueue
<1>3. Length = 0
  <2> SUFFICES ASSUME Length > 0 PROVE FALSE
    BY <1>1 DEF Length
  <2>1. reader_active > 0 /\ ~array[head].is_reader
    BY <1>2 DEF LockInv, GrantInv
  <2>2. PICK c \in Queued : slot[c] = head
    BY HeadIsOccupied
  <2>3. ~reader[c] /\ pc[c] = "queue" /\ c \in Call
    BY <2>1, <2>2 DEF LockInv, RingInv, Queued
  <2>4. writer_waiting > 0
    BY <2>3, CounterIsPositive
  <2> QED BY <1>1, <1>2, <2>1, <2>4
<1> QED BY <1>1, <1>2, <1>3, CountersTell

\* Nothing that FairRwLock sees happens.
LEMMA Stutter ==
  ASSUME LockInv, LockInv', UNCHANGED <<head, queued>>, NEW c \in Call,
         \A d \in Call : d # c => pc'[d] = pc[d] /\ slot'[d] = slot[d] /\ reader'[d] = reader[d],
         pc[c] \in {"idle", "outside"}, pc'[c] \in {"idle", "outside"}
  PROVE  UNCHANGED Fair!vars
<1>1. Queued' = Queued /\ \A d \in Queued : slot'[d] = slot[d] /\ reader'[d] = reader[d]
  BY DEF Queued
<1>2. Readers' = Readers /\ Writers' = Writers
  BY DEF Readers, Writers, Held
<1> QED BY <1>1, <1>2, SameQueue DEF Fair!vars, Readers, Writers

LEMMA JoinStep ==
  ASSUME LockInv, LockInv', NEW c \in Call, NEW r \in BOOLEAN, ~QueueFull, Enqueue(c, r),
         reader' = [reader EXCEPT ![c] = r], pc[c] \in {"idle", "outside"}
  PROVE  Fair!Join(c, r)
<1>1. Waiters' = Append(Waiters, <<c, r>>)
  BY QueueGrows
<1>2. Readers' = Readers /\ Writers' = Writers
  BY DEF Enqueue, LockInv, TypeOK, Readers, Writers, Held
<1>3. MustQueue(r)
  BY DEF Enqueue
<1> QED BY <1>1, <1>2, <1>3, JoinsOnlyIfItMust DEF Fair!Join, Fair!Free, Readers, Writers

LEMMA EnterStep ==
  ASSUME LockInv, LockInv', NEW c \in Call, NEW r \in BOOLEAN, Acquire(c, r),
         reader' = [reader EXCEPT ![c] = r], pc[c] \in {"idle", "outside"}
  PROVE  Fair!Enter(c, r)
<1>1. /\ pc' = [pc EXCEPT ![c] = "held"] /\ UNCHANGED <<head, slot, queued>> /\ ~MustQueue(r)
  BY DEF Acquire, ring
<1>2. /\ pc'[c] = "held" /\ reader'[c] = r
      /\ \A d \in Call : d # c => pc'[d] = pc[d] /\ reader'[d] = reader[d]
  BY <1>1 DEF LockInv, TypeOK
<1>3. Queued' = Queued /\ \A d \in Queued : reader'[d] = reader[d]
  BY <1>2 DEF Queued
<1>4. Waiters' = Waiters
  BY <1>1, <1>3, SameQueue
<1>5. /\ Readers' = IF r THEN Readers \cup {c} ELSE Readers
      /\ Writers' = IF r THEN Writers ELSE Writers \cup {c}
  BY <1>2 DEF Readers, Writers, Held
<1> QED
  BY <1>1, <1>4, <1>5, EntersOnlyIfFree DEF Fair!Enter, Fair!Free, Fair!Hold, Readers, Writers

LEMMA GrantStep == ASSUME LockInv, LockInv', NEW c \in Call, Wake(c) PROVE Fair!Grant
<1> DEFINE r == reader[c]
<1>1. Waiters # <<>> /\ Waiters[1] = <<c, r>> /\ Waiters' = Tail(Waiters)
  BY QueueShrinks
<1>2. /\ array[slot[c]].is_signaled /\ pc[c] = "queue" /\ slot[c] \in Slot /\ r \in BOOLEAN
      /\ pc' = [pc EXCEPT ![c] = "held"] /\ reader' = reader
  BY DEF Wake, LockInv, TypeOK
<1>3. slot[c] = head /\ signaled = 1 /\ array[head].is_reader = r
  BY <1>2 DEF LockInv, SignalInv, RingInv, Queued
<1>4. writer_active = 0 /\ (r \/ reader_active = 0)
  BY <1>3 DEF LockInv, GrantInv
<1>5. Writers = {} /\ (r \/ Readers = {})
  BY <1>4, CountersTell
<1>6. /\ Readers' = IF r THEN Readers \cup {c} ELSE Readers
      /\ Writers' = IF r THEN Writers ELSE Writers \cup {c}
  BY <1>2 DEF Readers, Writers, Held, LockInv, TypeOK
<1> HIDE DEF r
<1>7. Waiters[1][1] = c /\ Waiters[1][2] = r
  BY <1>1
<1> QED BY <1>1, <1>5, <1>6, <1>7 DEF Fair!Grant, Fair!Free, Fair!Hold, Readers, Writers

LEMMA LeaveStep == ASSUME LockInv, LockInv', NEW c \in Call, Unlock(c) PROVE Fair!Leave(c)
<1>1. /\ pc[c] = "held" /\ pc' = [pc EXCEPT ![c] = "idle"] /\ reader' = [reader EXCEPT ![c] = FALSE]
      /\ UNCHANGED <<head, slot, queued>>
  BY DEF Unlock
<1>2. /\ pc'[c] = "idle"
      /\ \A d \in Call : d # c => pc'[d] = pc[d] /\ reader'[d] = reader[d]
  BY <1>1 DEF LockInv, TypeOK
<1>3. Queued' = Queued /\ \A d \in Queued : reader'[d] = reader[d]
  BY <1>1, <1>2 DEF Queued
<1>4. Waiters' = Waiters
  BY <1>1, <1>3, SameQueue
<1>5. c \in Readers \cup Writers /\ Readers' = Readers \ {c} /\ Writers' = Writers \ {c}
  BY <1>1, <1>2 DEF Readers, Writers, Held
<1> QED BY <1>4, <1>5 DEF Fair!Leave, Readers, Writers

\* Every step is a step of FairRwLock or stutters.
LEMMA NextRefines == LockInv /\ LockInv' /\ [Next]_vars => [Fair!Next]_(Fair!vars)
<1> SUFFICES ASSUME LockInv, LockInv', [Next]_vars PROVE Fair!Next \/ UNCHANGED Fair!vars
  OBVIOUS
<1>1. ASSUME NEW c \in Call, NEW r \in BOOLEAN, Lock(c, r)
      PROVE  Fair!Next \/ UNCHANGED Fair!vars
  <2>1. pc[c] = "idle" /\ reader' = [reader EXCEPT ![c] = r]
    BY <1>1 DEF Lock, MayCall
  <2>2. CASE ~QueueFull /\ Enqueue(c, r)
    BY <2>1, <2>2, JoinStep DEF Fair!Next
  <2>3. CASE Acquire(c, r)
    BY <2>1, <2>3, EnterStep DEF Fair!Next
  <2>4. CASE pc' = [pc EXCEPT ![c] = "outside"] /\ UNCHANGED <<ring, active, queued>>
    <3>1. /\ \A d \in Call : d # c => pc'[d] = pc[d] /\ slot'[d] = slot[d] /\ reader'[d] = reader[d]
          /\ pc'[c] = "outside" /\ UNCHANGED <<head, queued>>
      BY <2>1, <2>4 DEF LockInv, TypeOK, ring
    <3> QED BY <2>1, <3>1, Stutter
  <2> QED BY <1>1, <2>2, <2>3, <2>4 DEF Lock, Admit
<1>2. ASSUME NEW c \in Call, Resume(c) PROVE Fair!Next \/ UNCHANGED Fair!vars
  <2>1. /\ pc[c] = "outside" /\ reader[c] \in BOOLEAN
        /\ reader' = [reader EXCEPT ![c] = reader[c]]
    BY <1>2 DEF Resume, LockInv, CountersInv, Outside, TypeOK
  <2>2. CASE ~QueueFull /\ Enqueue(c, reader[c])
    BY <2>1, <2>2, JoinStep DEF Fair!Next
  <2>3. CASE Acquire(c, reader[c])
    BY <2>1, <2>3, EnterStep DEF Fair!Next
  <2>4. CASE UNCHANGED <<ring, active, queued, waiting, pc>>
    <3>1. UNCHANGED <<head, queued, slot, pc, reader>>
      BY <1>2, <2>4 DEF Resume, ring
    <3> QED BY <2>1, <3>1, Stutter
  <2> QED BY <1>2, <2>2, <2>3, <2>4 DEF Resume, Admit
<1>3. ASSUME NEW c \in Call, Wake(c) PROVE Fair!Next \/ UNCHANGED Fair!vars
  BY <1>3, GrantStep DEF Fair!Next
<1>4. ASSUME NEW c \in Call, Release(c) PROVE Fair!Next \/ UNCHANGED Fair!vars
  BY <1>4, LeaveStep DEF Release, Fair!Next
<1>5. ASSUME UNCHANGED <<ring, queued, pc, reader>> PROVE UNCHANGED Fair!vars
  <2>1. UNCHANGED <<head, queued, slot, pc, reader>>
    BY <1>5 DEF ring
  <2>2. Waiters' = Waiters
    BY <2>1, SameQueue DEF Queued
  <2>3. Readers' = Readers /\ Writers' = Writers
    BY <2>1 DEF Readers, Writers, Held
  <2> QED BY <2>2, <2>3 DEF Fair!vars, Readers, Writers
<1>6. ASSUME NEW c \in Call, SpuriousWakeup(c) PROVE UNCHANGED Fair!vars
  BY <1>5, <1>6 DEF SpuriousWakeup
<1> QED BY <1>1, <1>2, <1>3, <1>4, <1>5, <1>6 DEF Next, vars

\* The ring buffer, its counters and the wakeups serve the calls first come,
\* first served, for any number of threads and calls and any length of the
\* ring: sge_fifo_lock() grants what FairRwLock grants.
THEOREM ServedInOrder == Spec => FirstComeFirstServed
<1>1. Init => Fair!Init
  <2> SUFFICES ASSUME Init PROVE Fair!Init
    OBVIOUS
  <2>1. LockInv /\ Length = 0 /\ Held = {}
    BY InitLockInv DEF Init, Length, Held
  <2> QED BY <2>1, CountersTell DEF Fair!Init
<1> QED BY <1>1, NextRefines, LockInvHolds, PTL DEF Spec, Fair!Spec, FirstComeFirstServed
=============================================================================
