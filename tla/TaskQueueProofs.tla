--------------------------- MODULE TaskQueueProofs ---------------------------
(***************************************************************************)
(* The safety of the task queue for any number of workers, listeners and   *)
(* packets: the counter of waiting threads is right, no stored task goes   *)
(* unnoticed, no packet is handled by two threads, and messages stop       *)
(* before the workers do.                                                  *)
(***************************************************************************)
EXTENDS TaskQueue, FiniteSetTheorems, TLAPS

\* queue->waiting is the number of the threads that wait.
CountInv == idle = Cardinality(Sleeping)

HandInv == \A w \in Worker : at[w] = "handles" <=> inHand[w] # NoPacket

\* A packet that is known to the qmaster and not handled yet.
Open(p) == p \notin unread /\ p \notin handled /\ p \in Message \cup sent

\* A packet is in one place: in the list, or in the hand of one worker.
PlaceInv ==
  /\ \A v, w \in Worker : inHand[v] = inHand[w] /\ inHand[v] # NoPacket => v = w
  /\ \A i, j \in 1 .. Len(tasks) : tasks[i] = tasks[j] => i = j
  /\ \A i \in 1 .. Len(tasks) : Open(tasks[i]) /\ \A w \in Worker : tasks[i] # inHand[w]
  /\ \A w \in Worker : inHand[w] # NoPacket => Open(inHand[w])
  /\ \A p \in handled : p \in (Message \ unread) \cup sent

JoinInv ==
  main \in {"worker", "joinWorker", "spooled"} => \A l \in Listener : at[l] = "gone"

TaskInv == TaskTypeOK /\ CountInv /\ NoTaskUnnoticed /\ HandInv /\ PlaceInv /\ JoinInv

USE TaskThreadAssumption, PacketAssumption

-----------------------------------------------------------------------------
(* The waiting threads                                                       *)

LEMMA SleepingIsFinite ==
  IsFiniteSet(Sleeping) /\ Cardinality(Sleeping) \in Nat
<1>1. IsFiniteSet(Sleeping)
  BY FS_Subset DEF Sleeping
<1> QED BY <1>1, FS_CardinalityType

\* The counter tells whether there are any.
LEMMA CounterIsRight ==
  ASSUME CountInv
  PROVE  idle = 0 <=> Sleeping = {}
  BY SleepingIsFinite, FS_EmptySet DEF CountInv

\* A thread that goes somewhere else, but neither to sleep nor from there.
LEMMA GoToAwake ==
  ASSUME TaskTypeOK, NEW t \in TaskThread, NEW place, GoTo(t, place),
         place # "sleeps", t \in Worker => at[t] # "sleeps"
  PROVE  Sleeping' = Sleeping
  BY DEF GoTo, Sleeping, TaskTypeOK, TaskThread

\* A worker that wakes up.
LEMMA GoToFromSleep ==
  ASSUME TaskTypeOK, CountInv, NEW w \in Worker, at[w] = "sleeps", NEW place, GoTo(w, place),
         place # "sleeps", idle' = idle - 1
  PROVE  Sleeping' = Sleeping \ {w} /\ CountInv' /\ idle' \in Nat
<1>1. Sleeping' = Sleeping \ {w} /\ w \in Sleeping
  BY DEF GoTo, Sleeping, TaskTypeOK, TaskThread
<1>2. Cardinality(Sleeping') = Cardinality(Sleeping) - 1 /\ Cardinality(Sleeping') \in Nat
  <2>1. IsFiniteSet(Sleeping') /\ Cardinality(Sleeping \ {w}) \in Nat
    BY <1>1, SleepingIsFinite, FS_RemoveElement, FS_CardinalityType
  <2> QED BY <1>1, <2>1, SleepingIsFinite, FS_RemoveElement
<1> QED BY <1>1, <1>2 DEF CountInv

\* A worker that goes to sleep.
LEMMA GoToSleep ==
  ASSUME TaskTypeOK, CountInv, NEW w \in Worker, at[w] # "sleeps", GoTo(w, "sleeps"),
         idle' = idle + 1
  PROVE  Sleeping' = Sleeping \cup {w} /\ CountInv'
<1>1. Sleeping' = Sleeping \cup {w} /\ w \notin Sleeping
  BY DEF GoTo, Sleeping, TaskTypeOK, TaskThread
<1>2. Cardinality(Sleeping') = Cardinality(Sleeping) + 1
  BY <1>1, SleepingIsFinite, FS_AddElement
<1> QED BY <1>1, <1>2 DEF CountInv

-----------------------------------------------------------------------------
(* The operations of the queue                                               *)

\* A packet nobody has is appended, and whoever waits is told.
LEMMA StoreStep ==
  ASSUME TaskInv, NEW p \in Packet, StoreNotify(p), Sleeping' = Sleeping,
         p \notin handled, \A i \in 1 .. Len(tasks) : tasks[i] # p,
         \A w \in Worker : inHand[w] # p,
         UNCHANGED <<inHand, handled>>,
         unread' = unread \ {p}, sent' \subseteq Order,
         \A x \in Message \cup sent : x \in Message \cup sent',
         p \in Message \cup sent'
  PROVE  /\ tasks' \in Seq(Packet) /\ idle' \in Nat /\ told' \subseteq Worker
         /\ CountInv' /\ NoTaskUnnoticed' /\ PlaceInv'
<1> USE DEF TaskInv
<1>1. /\ tasks' = Append(tasks, p) /\ idle' = idle
      /\ told' = IF idle > 0 THEN Sleeping ELSE told
  BY DEF StoreNotify
<1>2. tasks' \in Seq(Packet) /\ idle' \in Nat /\ told' \subseteq Worker /\ CountInv'
  <2>1. Sleeping \subseteq Worker
    BY DEF Sleeping
  <2>2. CountInv'
    BY <1>1 DEF CountInv
  <2> QED BY <1>1, <2>1, <2>2 DEF TaskTypeOK
<1>3. NoTaskUnnoticed'
  <2>1. idle \in Nat
    BY DEF TaskTypeOK
  <2>2. CASE idle = 0
    BY <2>2, CounterIsRight DEF NoTaskUnnoticed
  <2>3. CASE idle > 0
    BY <1>1, <2>3 DEF NoTaskUnnoticed
  <2> QED BY <2>1, <2>2, <2>3
<1>4. /\ Len(tasks') = Len(tasks) + 1 /\ tasks'[Len(tasks) + 1] = p
      /\ \A i \in 1 .. Len(tasks) : tasks'[i] = tasks[i]
      /\ Len(tasks) \in Nat
  BY <1>1 DEF TaskTypeOK
<1>5. \A i \in 1 .. Len(tasks') : i \in 1 .. Len(tasks) \/ i = Len(tasks) + 1
  BY <1>4
<1>6. PlaceInv'
  <2>1. \A x : Open(x) /\ x # p => Open(x)'
    BY DEF Open
  <2>2. Open(p)'
    BY DEF Open
  <2>3. \A i, j \in 1 .. Len(tasks') : tasks'[i] = tasks'[j] => i = j
    BY <1>4, <1>5 DEF PlaceInv
  <2>4. \A i \in 1 .. Len(tasks') : Open(tasks[i])' /\ \A w \in Worker : tasks'[i] # inHand'[w]
    BY <1>4, <1>5, <2>1, <2>2 DEF PlaceInv
  <2>5. \A w \in Worker : inHand'[w] # NoPacket => Open(inHand[w])'
    BY <2>1 DEF PlaceInv
  <2>6. \A x \in handled' : x \in (Message \ unread') \cup sent'
    BY DEF PlaceInv, TaskTypeOK
  <2> QED BY <2>3, <2>4, <2>5, <2>6 DEF PlaceInv
<1> QED BY <1>2, <1>3, <1>6

\* The first task changes hands.
LEMMA TakeStep ==
  ASSUME TaskInv, NEW w \in Worker, at[w] # "handles", TakeTask(w),
         UNCHANGED <<unread, sent, handled>>
  PROVE  /\ tasks' \in Seq(Packet) /\ inHand' \in [Worker -> Packet \cup {NoPacket}]
         /\ PlaceInv' /\ HandInv'
<1> USE DEF TaskInv
<1>1. /\ tasks # <<>> /\ tasks' = Tail(tasks)
      /\ inHand' = [inHand EXCEPT ![w] = Head(tasks)]
      /\ at' = [at EXCEPT ![w] = "handles"]
  BY DEF TakeTask, GoTo
<1>2. /\ Len(tasks) \in Nat /\ Len(tasks) >= 1 /\ Head(tasks) = tasks[1]
      /\ Len(tasks') = Len(tasks) - 1 /\ tasks' \in Seq(Packet) /\ tasks[1] \in Packet
      /\ \A i \in 1 .. Len(tasks') : tasks'[i] = tasks[i + 1]
  BY <1>1 DEF TaskTypeOK
<1>3. inHand[w] = NoPacket /\ tasks[1] # NoPacket
  BY <1>2 DEF HandInv, Packet
<1>4. \A v \in Worker : inHand'[v] = IF v = w THEN tasks[1] ELSE inHand[v]
  BY <1>1, <1>2 DEF TaskTypeOK
<1>5. inHand' \in [Worker -> Packet \cup {NoPacket}]
  BY <1>1, <1>2 DEF TaskTypeOK
<1>6. HandInv'
  BY <1>1, <1>3, <1>4 DEF HandInv, TaskTypeOK, TaskThread
<1>7. PlaceInv'
  <2>1. \A x : Open(x)' <=> Open(x)
    BY DEF Open
  <2>2. 1 \in 1 .. Len(tasks) /\ \A i \in 1 .. Len(tasks') : i + 1 \in 1 .. Len(tasks) /\ i + 1 # 1
    BY <1>2
  <2>3. \A u, v \in Worker : inHand'[u] = inHand'[v] /\ inHand'[u] # NoPacket => u = v
    BY <1>4, <2>2 DEF PlaceInv
  <2>4. \A i, j \in 1 .. Len(tasks') : tasks'[i] = tasks'[j] => i = j
    <3> SUFFICES ASSUME NEW i \in 1 .. Len(tasks'), NEW j \in 1 .. Len(tasks'),
                        tasks'[i] = tasks'[j]
                 PROVE  i = j
      OBVIOUS
    <3>1. i + 1 = j + 1
      BY <1>2, <2>2 DEF PlaceInv
    <3> QED BY <3>1
  <2>5. \A i \in 1 .. Len(tasks') : Open(tasks[i])' /\ \A v \in Worker : tasks'[i] # inHand'[v]
    BY <1>2, <1>4, <2>1, <2>2 DEF PlaceInv
  <2>6. \A v \in Worker : inHand'[v] # NoPacket => Open(inHand[v])'
    BY <1>4, <2>1, <2>2 DEF PlaceInv
  <2>7. \A x \in handled' : x \in (Message \ unread') \cup sent'
    BY DEF PlaceInv
  <2> QED BY <2>3, <2>4, <2>5, <2>6, <2>7 DEF PlaceInv
<1> QED BY <1>2, <1>5, <1>6, <1>7

-----------------------------------------------------------------------------
(* The workers                                                               *)

\* A worker is no listener.
LEMMA WorkersKeepListeners ==
  ASSUME TaskTypeOK, JoinInv, NEW w \in Worker \cup {Schedd}, NEW place, GoTo(w, place),
         UNCHANGED main
  PROVE  JoinInv'
  BY DEF JoinInv, GoTo, TaskTypeOK, TaskThread

\* It goes on without a packet.
LEMMA EmptyHanded ==
  ASSUME TaskInv, NEW t \in TaskThread, NEW place, GoTo(t, place),
         place # "handles", t \in Worker => at[t] # "handles",
         UNCHANGED <<inHand, tasks, unread, sent, handled>>
  PROVE  HandInv' /\ PlaceInv'
<1> USE DEF TaskInv
<1>1. HandInv'
  BY DEF HandInv, GoTo, TaskTypeOK, TaskThread
<1>2. \A x : Open(x)' <=> Open(x)
  BY DEF Open
<1> QED BY <1>1, <1>2 DEF PlaceInv

LEMMA WaitStep ==
  ASSUME TaskInv, NEW w \in Worker, WaitForTask(w)
  PROVE  TaskInv'
<1> USE DEF TaskInv
<1>1. at[w] = "loop" /\ UNCHANGED <<unread, sent, handled, stopping, cancelled, main>>
  BY DEF WaitForTask, mainVars
<1>2. w \in TaskThread
  BY DEF TaskThread
<1>3. CASE TakeTask(w) /\ UNCHANGED <<idle, told>>
  <2>1. GoTo(w, "handles")
    BY <1>3 DEF TakeTask
  <2>2. Sleeping' = Sleeping
    BY <1>1, <1>2, <2>1, GoToAwake
  <2>3. JoinInv'
    BY <1>1, <2>1, WorkersKeepListeners
  <2>4. TaskTypeOK' /\ PlaceInv' /\ HandInv'
    BY <1>1, <1>2, <1>3, <2>1, TakeStep DEF TaskTypeOK, GoTo
  <2>5. NoTaskUnnoticed' /\ CountInv'
    BY <1>3, <2>2 DEF NoTaskUnnoticed, CountInv, TakeTask
  <2> QED BY <2>3, <2>4, <2>5
<1>4. CASE NoTask(w) /\ UNCHANGED <<idle, told>>
  <2>1. GoTo(w, "testcancel") /\ UNCHANGED <<tasks, inHand>>
    BY <1>4 DEF NoTask
  <2>2. Sleeping' = Sleeping
    BY <1>1, <1>2, <2>1, GoToAwake
  <2>3. JoinInv' /\ HandInv' /\ PlaceInv'
    BY <1>1, <1>2, <2>1, WorkersKeepListeners, EmptyHanded
  <2>4. TaskTypeOK'
    BY <1>1, <1>2, <1>4, <2>1 DEF TaskTypeOK, GoTo
  <2>5. NoTaskUnnoticed' /\ CountInv'
    BY <1>4, <2>1, <2>2 DEF NoTaskUnnoticed, CountInv
  <2> QED BY <2>3, <2>4, <2>5
<1>5. CASE /\ tasks = <<>> /\ idle' = idle + 1 /\ told' = told \ {w}
           /\ GoTo(w, "sleeps") /\ UNCHANGED <<tasks, inHand>>
  <2>1. CountInv'
    BY <1>1, <1>5, GoToSleep
  <2>2. JoinInv' /\ HandInv' /\ PlaceInv'
    BY <1>1, <1>2, <1>5, WorkersKeepListeners, EmptyHanded
  <2>3. TaskTypeOK'
    BY <1>1, <1>2, <1>5 DEF TaskTypeOK, GoTo
  <2>4. NoTaskUnnoticed'
    BY <1>5 DEF NoTaskUnnoticed
  <2> QED BY <2>1, <2>2, <2>3, <2>4
<1> QED BY <1>3, <1>4, <1>5 DEF WaitForTask

LEMMA WakeStep ==
  ASSUME TaskInv, NEW w \in Worker, WakeUp(w)
  PROVE  TaskInv'
<1> USE DEF TaskInv
<1>1. /\ at[w] = "sleeps" /\ told' = told \ {w}
      /\ UNCHANGED <<unread, sent, handled, stopping, cancelled, main>>
  BY DEF WakeUp, mainVars
<1>2. w \in TaskThread
  BY DEF TaskThread
<1>3. CASE TakeTask(w) /\ idle' = idle - 1
  <2>1. GoTo(w, "handles")
    BY <1>3 DEF TakeTask
  <2>2. Sleeping' = Sleeping \ {w} /\ CountInv' /\ idle' \in Nat
    BY <1>1, <1>3, <2>1, GoToFromSleep
  <2>3. JoinInv'
    BY <1>1, <2>1, WorkersKeepListeners
  <2>4. TaskTypeOK' /\ PlaceInv' /\ HandInv'
    BY <1>1, <1>2, <1>3, <2>1, <2>2, TakeStep DEF TaskTypeOK, GoTo
  <2>5. NoTaskUnnoticed'
    BY <1>1, <1>3, <2>2 DEF NoTaskUnnoticed, TakeTask
  <2> QED BY <2>2, <2>3, <2>4, <2>5
<1>4. CASE NoTask(w) /\ idle' = idle - 1
  <2>1. GoTo(w, "testcancel") /\ tasks = <<>> /\ UNCHANGED <<tasks, inHand>>
    BY <1>4 DEF NoTask
  <2>2. CountInv' /\ idle' \in Nat
    BY <1>1, <1>4, <2>1, GoToFromSleep
  <2>3. JoinInv' /\ HandInv' /\ PlaceInv'
    BY <1>1, <1>2, <2>1, WorkersKeepListeners, EmptyHanded
  <2>4. TaskTypeOK'
    BY <1>1, <1>2, <2>1, <2>2 DEF TaskTypeOK, GoTo
  <2>5. NoTaskUnnoticed'
    BY <2>1 DEF NoTaskUnnoticed
  <2> QED BY <2>2, <2>3, <2>4, <2>5
<1>5. CASE tasks = <<>> /\ UNCHANGED <<tasks, idle, at, inHand>>
  <2>1. Sleeping' = Sleeping /\ \A x : Open(x)' <=> Open(x)
    BY <1>1, <1>5 DEF Sleeping, Open
  <2>2. TaskTypeOK' /\ CountInv' /\ JoinInv' /\ HandInv'
    BY <1>1, <1>5, <2>1 DEF TaskTypeOK, CountInv, JoinInv, HandInv
  <2>3. NoTaskUnnoticed' /\ PlaceInv'
    BY <1>1, <1>5, <2>1 DEF NoTaskUnnoticed, PlaceInv
  <2> QED BY <2>2, <2>3
<1> QED BY <1>3, <1>4, <1>5 DEF WakeUp

LEMMA HandleStep ==
  ASSUME TaskInv, NEW w \in Worker, Handle(w)
  PROVE  TaskInv'
<1> USE DEF TaskInv
<1>1. /\ at[w] = "handles" /\ GoTo(w, "loop")
      /\ handled' = handled \cup {inHand[w]}
      /\ inHand' = [inHand EXCEPT ![w] = NoPacket]
      /\ UNCHANGED <<tasks, idle, told, unread, sent, stopping, cancelled, main>>
  BY DEF Handle, queueVars, mainVars
<1>2. w \in TaskThread /\ inHand[w] # NoPacket /\ inHand[w] \in Packet /\ Open(inHand[w])
  BY <1>1 DEF TaskThread, HandInv, PlaceInv, TaskTypeOK
<1>3. Sleeping' = Sleeping
  BY <1>1, <1>2, GoToAwake
<1>4. TaskTypeOK'
  BY <1>1, <1>2 DEF TaskTypeOK, GoTo
<1>5. CountInv' /\ NoTaskUnnoticed' /\ JoinInv'
  BY <1>1, <1>3, WorkersKeepListeners DEF CountInv, NoTaskUnnoticed
<1>6. \A v \in Worker : inHand'[v] = IF v = w THEN NoPacket ELSE inHand[v]
  BY <1>1 DEF TaskTypeOK
<1>7. HandInv'
  BY <1>1, <1>6 DEF HandInv, GoTo, TaskTypeOK, TaskThread
<1>8. PlaceInv'
  <2>1. \A x : Open(x) /\ x # inHand[w] => Open(x)'
    BY <1>1 DEF Open
  <2>2. \A u, v \in Worker : inHand'[u] = inHand'[v] /\ inHand'[u] # NoPacket => u = v
    BY <1>6 DEF PlaceInv
  <2>3. \A i \in 1 .. Len(tasks) : Open(tasks[i])' /\ \A v \in Worker : tasks[i] # inHand'[v]
    <3>1. \A i \in 1 .. Len(tasks) : tasks[i] # NoPacket
      BY DEF PlaceInv, Open, TaskTypeOK
    <3> QED BY <1>1, <1>6, <2>1, <3>1 DEF PlaceInv
  <2>4. \A v \in Worker : inHand'[v] # NoPacket => Open(inHand[v])'
    BY <1>2, <1>6, <2>1 DEF PlaceInv
  <2>5. \A x \in handled' : x \in (Message \ unread') \cup sent'
    BY <1>1, <1>2 DEF PlaceInv, Open
  <2> QED BY <1>1, <2>2, <2>3, <2>4, <2>5 DEF PlaceInv
<1> QED BY <1>4, <1>5, <1>7, <1>8

-----------------------------------------------------------------------------
(* The other threads                                                         *)

\* A thread that touches neither the queue nor a packet.
LEMMA MoveStep ==
  ASSUME TaskInv, NEW t \in TaskThread, NEW place, GoTo(t, place),
         place \in {"loop", "reads", "sends", "awaits", "testcancel", "gone"},
         at[t] \notin {"sleeps", "handles", "gone"},
         UNCHANGED <<queueVars, inHand, unread, sent, handled, mainVars>>
  PROVE  TaskInv'
<1> USE DEF TaskInv
<1>1. UNCHANGED <<tasks, idle, told, inHand, unread, sent, handled, stopping, cancelled, main>>
  BY DEF queueVars, mainVars
<1>2. Sleeping' = Sleeping
  BY GoToAwake
<1>3. TaskTypeOK' /\ JoinInv'
  BY <1>1 DEF TaskTypeOK, GoTo, JoinInv
<1>4. CountInv' /\ NoTaskUnnoticed'
  BY <1>1, <1>2 DEF CountInv, NoTaskUnnoticed
<1>5. HandInv' /\ PlaceInv'
  BY <1>1, EmptyHanded
<1> QED BY <1>3, <1>4, <1>5

LEMMA ListenerInv ==
  ASSUME TaskInv, NEW l \in Listener, ListenerStep(l)
  PROVE  TaskInv'
<1>1. l \in TaskThread /\ l \notin Worker
  BY DEF TaskThread
<1>2. CASE Listen(l)
  BY <1>1, <1>2, MoveStep DEF Listen
<1>3. CASE TestCancel(l)
  BY <1>1, <1>3, MoveStep DEF TestCancel
<1>4. CASE ProcessMessage(l)
  <2> USE DEF TaskInv
  <2>1. /\ at[l] = "reads" /\ GoTo(l, "testcancel")
        /\ UNCHANGED <<inHand, sent, handled, stopping, cancelled, main>>
    BY <1>4 DEF ProcessMessage, mainVars
  <2>2. CASE UNCHANGED <<queueVars, unread>>
    BY <1>1, <2>1, <2>2, MoveStep DEF mainVars
  <2>3. ASSUME NEW m \in unread, StoreNotify(m), unread' = unread \ {m}
        PROVE  TaskInv'
    <3>1. m \in Message /\ m \in Packet /\ sent' \subseteq Order
      BY <2>1 DEF TaskTypeOK, Packet
    <3>2. Sleeping' = Sleeping
      BY <1>1, <2>1, GoToAwake
    <3>3. /\ m \notin handled /\ \A i \in 1 .. Len(tasks) : tasks[i] # m
          /\ \A w \in Worker : inHand[w] # m
      BY <2>3, <3>1 DEF PlaceInv, Open, TaskTypeOK
    <3>4. /\ tasks' \in Seq(Packet) /\ idle' \in Nat /\ told' \subseteq Worker
          /\ CountInv' /\ NoTaskUnnoticed' /\ PlaceInv'
      BY <2>1, <2>3, <3>1, <3>2, <3>3, StoreStep
    <3>5. TaskTypeOK'
      BY <1>1, <2>1, <2>3, <3>4 DEF TaskTypeOK, GoTo
    <3>6. HandInv' /\ JoinInv'
      BY <1>1, <2>1 DEF HandInv, JoinInv, GoTo, TaskTypeOK, TaskThread
    <3> QED BY <3>4, <3>5, <3>6
  <2> QED BY <1>4, <2>2, <2>3 DEF ProcessMessage
<1> QED BY <1>2, <1>3, <1>4 DEF ListenerStep

LEMMA SchedulerInv ==
  ASSUME TaskInv, SchedulerStep
  PROVE  TaskInv'
<1>1. Schedd \in TaskThread /\ Schedd \notin Worker \cup Listener
  BY DEF TaskThread
<1>2. CASE Schedule
  BY <1>1, <1>2, MoveStep DEF Schedule
<1>3. CASE TestCancel(Schedd)
  BY <1>1, <1>3, MoveStep DEF TestCancel
<1>4. CASE SendOrders
  <2> USE DEF TaskInv
  <2>1. /\ at[Schedd] = "sends"
        /\ UNCHANGED <<inHand, unread, handled, stopping, cancelled, main>>
    BY <1>4 DEF SendOrders, mainVars
  <2>2. CASE GoTo(Schedd, "awaits") /\ UNCHANGED <<queueVars, sent>>
    BY <1>1, <2>1, <2>2, MoveStep DEF mainVars
  <2>3. ASSUME NEW o \in Order \ sent, StoreNotify(o), sent' = sent \cup {o}, UNCHANGED at
        PROVE  TaskInv'
    <3>1. o \in Packet /\ o \notin Message /\ o \notin unread /\ sent' \subseteq Order
      BY <2>3 DEF TaskTypeOK, Packet
    <3>2. Sleeping' = Sleeping
      BY <2>3 DEF Sleeping
    <3>3. /\ o \notin handled /\ \A i \in 1 .. Len(tasks) : tasks[i] # o
          /\ \A w \in Worker : inHand[w] # o
      BY <2>3, <3>1 DEF PlaceInv, Open
    <3>4. \A x \in Message \cup sent : x \in Message \cup sent'
      BY <2>3
    <3>5. unread' = unread \ {o} /\ o \in Message \cup sent'
      BY <2>1, <2>3, <3>1
    <3>6. /\ tasks' \in Seq(Packet) /\ idle' \in Nat /\ told' \subseteq Worker
          /\ CountInv' /\ NoTaskUnnoticed' /\ PlaceInv'
      BY <2>1, <2>3, <3>1, <3>2, <3>3, <3>4, <3>5, StoreStep
    <3>7. TaskTypeOK'
      BY <2>1, <2>3, <3>1, <3>6 DEF TaskTypeOK
    <3>8. HandInv' /\ JoinInv'
      BY <2>1, <2>3 DEF HandInv, JoinInv
    <3> QED BY <3>6, <3>7, <3>8
  <2> QED BY <1>4, <2>2, <2>3 DEF SendOrders
<1>5. CASE OrdersProcessed
  <2> USE DEF TaskInv
  <2>1. /\ at[Schedd] = "awaits" /\ sent \subseteq handled /\ GoTo(Schedd, "testcancel")
        /\ sent' = {} /\ handled' = handled \ sent
        /\ UNCHANGED <<tasks, idle, told, inHand, unread, stopping, cancelled, main>>
    BY <1>5 DEF OrdersProcessed, queueVars, mainVars
  <2>2. Sleeping' = Sleeping
    BY <1>1, <2>1, GoToAwake
  <2>3. TaskTypeOK' /\ JoinInv' /\ HandInv'
    BY <1>1, <2>1 DEF TaskTypeOK, JoinInv, HandInv, GoTo, TaskThread
  <2>4. CountInv' /\ NoTaskUnnoticed'
    BY <2>1, <2>2 DEF CountInv, NoTaskUnnoticed
  <2>5. \A x : Open(x) => Open(x)'
    BY <2>1 DEF Open
  <2>6. PlaceInv'
    BY <2>1, <2>5 DEF PlaceInv
  <2> QED BY <2>3, <2>4, <2>6
<1> QED BY <1>2, <1>3, <1>4, <1>5 DEF SchedulerStep

LEMMA MainInv ==
  ASSUME TaskInv, StartShutdown \/ MainStep \/ UNCHANGED taskVars
  PROVE  TaskInv'
<1> USE DEF TaskInv
<1>1. UNCHANGED <<tasks, idle, at, inHand, unread, sent, handled>>
  BY DEF StartShutdown, MainStep, TerminateScheduler, CancelListeners, JoinListeners,
         CancelWorkers, JoinWorkers, taskVars, queueVars, mainVars
<1>2. told' = told \/ told' = Sleeping
  BY DEF StartShutdown, MainStep, TerminateScheduler, CancelListeners, JoinListeners,
         CancelWorkers, JoinWorkers, taskVars, queueVars
<1>3. Sleeping' = Sleeping /\ Sleeping \subseteq Worker /\ \A x : Open(x)' <=> Open(x)
  BY <1>1 DEF Sleeping, Open
<1>4. TaskTypeOK'
  <2>1. stopping' \in BOOLEAN
    BY DEF StartShutdown, MainStep, TerminateScheduler, CancelListeners, JoinListeners,
           CancelWorkers, JoinWorkers, taskVars, mainVars, TaskTypeOK
  <2>2. cancelled' \subseteq TaskThread /\ main' \in {"waits", "scheduler", "listener",
          "joinListener", "worker", "joinWorker", "spooled"}
    BY DEF StartShutdown, MainStep, TerminateScheduler, CancelListeners, JoinListeners,
           CancelWorkers, JoinWorkers, taskVars, mainVars, TaskTypeOK, TaskThread
  <2> QED BY <1>1, <1>2, <1>3, <2>1, <2>2 DEF TaskTypeOK
<1>5. CountInv' /\ NoTaskUnnoticed' /\ HandInv' /\ PlaceInv'
  BY <1>1, <1>2, <1>3 DEF CountInv, NoTaskUnnoticed, HandInv, PlaceInv
<1>6. JoinInv'
  BY <1>1 DEF JoinInv, StartShutdown, MainStep, TerminateScheduler, CancelListeners,
              JoinListeners, CancelWorkers, JoinWorkers, taskVars, mainVars
<1> QED BY <1>4, <1>5, <1>6

LEMMA WorkerInv ==
  ASSUME TaskInv, NEW w \in Worker, WorkerStep(w)
  PROVE  TaskInv'
<1>1. CASE TestCancel(w)
  BY <1>1, MoveStep DEF TestCancel, TaskThread
<1> QED BY <1>1, WaitStep, WakeStep, HandleStep DEF WorkerStep

LEMMA InitTaskInv == TaskInit => TaskInv
<1> SUFFICES ASSUME TaskInit PROVE TaskInv
  OBVIOUS
<1>1. stopping \in BOOLEAN
  BY DEF TaskInit
<1>2. TaskTypeOK
  BY <1>1 DEF TaskInit, TaskTypeOK
<1>3. Sleeping = {}
  BY DEF TaskInit, Sleeping, TaskThread
<1>4. CountInv
  BY <1>3, FS_EmptySet DEF TaskInit, CountInv
<1>5. NoTaskUnnoticed /\ HandInv /\ JoinInv
  BY <1>3 DEF TaskInit, NoTaskUnnoticed, HandInv, JoinInv, TaskThread
<1>6. PlaceInv
  BY DEF TaskInit, PlaceInv
<1> QED BY <1>2, <1>4, <1>5, <1>6 DEF TaskInv

LEMMA NextTaskInv == TaskInv /\ [TaskNext]_taskVars => TaskInv'
  BY WorkerInv, ListenerInv, SchedulerInv, MainInv DEF TaskNext

\* The invariant holds in every reachable state.
THEOREM TaskInvHolds == TaskSpec => []TaskInv
BY InitTaskInv, NextTaskInv, PTL DEF TaskSpec

-----------------------------------------------------------------------------
\* The variables of the task queue keep their types.
THEOREM TaskTypeCorrect == TaskSpec => []TaskTypeOK
<1>1. TaskInv => TaskTypeOK
  BY DEF TaskInv
<1> QED BY <1>1, TaskInvHolds, PTL

\* No task is stored without the sleeping workers being told.
THEOREM TasksAreNoticed == TaskSpec => []NoTaskUnnoticed
<1>1. TaskInv => NoTaskUnnoticed
  BY DEF TaskInv
<1> QED BY <1>1, TaskInvHolds, PTL

\* A packet is never in the list and in a worker's hand, nor in two hands.
THEOREM PacketsHaveOneHandler == TaskSpec => []HandledByOne
<1>1. TaskInv => HandledByOne
  <2> SUFFICES ASSUME TaskInv PROVE HandledByOne
    OBVIOUS
  <2>1. DOMAIN tasks = 1 .. Len(tasks)
    BY DEF TaskInv, TaskTypeOK
  <2> QED BY <2>1 DEF TaskInv, PlaceInv, HandledByOne, InHand, Open
<1> QED BY <1>1, TaskInvHolds, PTL

\* No message is taken in once the workers have been told to go.
THEOREM MessagesStop == TaskSpec => MessagesStopFirst
<1>1. TaskInv /\ [TaskNext]_taskVars
      => [unread' # unread => main \notin {"joinWorker", "spooled"}]_taskVars
  <2> SUFFICES ASSUME TaskInv, TaskNext, unread' # unread
               PROVE  main \notin {"joinWorker", "spooled"}
    OBVIOUS
  <2>1. PICK l \in Listener : ProcessMessage(l)
    BY DEF TaskNext, WorkerStep, ListenerStep, SchedulerStep, MainStep, WaitForTask, WakeUp,
           Handle, TestCancel, Listen, Schedule, SendOrders, OrdersProcessed, StartShutdown,
           TerminateScheduler, CancelListeners, JoinListeners, CancelWorkers, JoinWorkers
  <2> QED BY <2>1 DEF ProcessMessage, TaskInv, JoinInv
<1> QED BY <1>1, TaskInvHolds, PTL DEF TaskSpec, MessagesStopFirst
=============================================================================
