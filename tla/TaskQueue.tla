------------------------------ MODULE TaskQueue ------------------------------
(***************************************************************************)
(* The queue between the threads of the qmaster that receive requests and  *)
(* those that handle them (libs/uti/sge_tq.c), its users, and their        *)
(* shutdown: listeners store what execution daemons and clients send, the  *)
(* scheduler stores its orders and waits until they are handled, workers   *)
(* handle one packet at a time (sge_thread_listener.c,                     *)
(* sge_thread_scheduler.c, sge_sched_order.c, sge_thread_worker.c).        *)
(*                                                                         *)
(* One step is one critical section of the queue's mutex, or what a thread *)
(* does between two of them.                                               *)
(***************************************************************************)
EXTENDS Naturals, Sequences, FiniteSets

CONSTANTS Worker, Listener, Schedd,  \* the threads; there is one scheduler
          Message,       \* packets from outside
          Order,         \* packets of the scheduler
          NoPacket

ASSUME TaskThreadAssumption ==
  IsFiniteSet(Worker) /\ Worker \cap Listener = {} /\ Schedd \notin Worker \cup Listener
ASSUME PacketAssumption == Message \cap Order = {} /\ NoPacket \notin Message \cup Order

VARIABLES tasks,      \* Master_Task_Queue: the list ...
          idle,       \* ... and how many threads wait
          told,       \* those that have been woken up (the condition variable)
          at,         \* where a thread is
          inHand,     \* the packet of a worker
          unread,     \* messages that have not arrived
          sent,       \* orders the scheduler has not got an answer to
          handled,    \* packet->is_handled
          stopping,   \* Thread_Control.shutdown_started
          cancelled,  \* threads that pthread_cancel() was called for
          main        \* what the main thread does

queueVars == <<tasks, idle, told>>
mainVars == <<stopping, cancelled, main>>
taskVars == <<queueVars, at, inHand, unread, sent, handled, mainVars>>

TaskThread == Worker \cup Listener \cup {Schedd}
Packet == Message \cup Order

TaskInit ==
  /\ tasks = <<>> /\ idle = 0 /\ told = {}
  /\ at = [t \in TaskThread |-> "loop"]
  /\ inHand = [w \in Worker |-> NoPacket]
  /\ unread = Message
  /\ sent = {} /\ handled = {}
  /\ stopping = FALSE /\ cancelled = {} /\ main = "waits"

Sleeping == {w \in Worker : at[w] = "sleeps"}

GoTo(t, place) == at' = [at EXCEPT ![t] = place]

-----------------------------------------------------------------------------
(* The queue                                                                 *)

\* (A slip of StoreNotify: one waiting thread is taken for none.)
StoreNotifyMany(p) ==
  /\ tasks' = Append(tasks, p)
  /\ told' = IF idle > 1 THEN Sleeping ELSE told
  /\ UNCHANGED idle

\* sge_tq_store_notify()
StoreNotify(p) ==
  /\ tasks' = Append(tasks, p)
  /\ told' = IF idle > 0 THEN Sleeping ELSE told
  /\ UNCHANGED idle

\* (Slips of TakeTask: the list is searched from its end; the element is not
\* dechained.)
TakeTaskLast(w) ==
  /\ tasks # <<>>
  /\ inHand' = [inHand EXCEPT ![w] = tasks[Len(tasks)]]
  /\ tasks' = SubSeq(tasks, 1, Len(tasks) - 1)
  /\ GoTo(w, "handles")
TakeTaskAgain(w) ==
  /\ tasks # <<>>
  /\ inHand' = [inHand EXCEPT ![w] = Head(tasks)]
  /\ GoTo(w, "handles")
  /\ UNCHANGED tasks

\* sge_tq_wait_for_task() has found a task.
TakeTask(w) ==
  /\ tasks # <<>>
  /\ inHand' = [inHand EXCEPT ![w] = Head(tasks)]
  /\ tasks' = Tail(tasks)
  /\ GoTo(w, "handles")

\* It returns without one.
NoTask(w) == tasks = <<>> /\ stopping /\ GoTo(w, "testcancel") /\ UNCHANGED <<tasks, inHand>>

\* sge_tq_wait_for_task(), up to the wait
WaitForTask(w) ==
  /\ at[w] = "loop"
  /\ \/ (TakeTask(w) \/ NoTask(w)) /\ UNCHANGED <<idle, told>>
     \/ /\ tasks = <<>> /\ ~stopping
        /\ idle' = idle + 1 /\ told' = told \ {w}
        /\ GoTo(w, "sleeps")
        /\ UNCHANGED <<tasks, inHand>>
  /\ UNCHANGED <<unread, sent, handled, mainVars>>

\* (A slip of WakeUp: it does not look at the shutdown.)
WakeUpUnstoppable(w) ==
  /\ at[w] = "sleeps"
  /\ told' = told \ {w}
  /\ TakeTask(w) /\ idle' = idle - 1
  /\ UNCHANGED <<unread, sent, handled, mainVars>>

\* pthread_cond_timedwait() has returned: told, or after a second.
WakeUp(w) ==
  /\ at[w] = "sleeps"
  /\ told' = told \ {w}
  /\ \/ (TakeTask(w) \/ NoTask(w)) /\ idle' = idle - 1
     \/ tasks = <<>> /\ ~stopping /\ UNCHANGED <<tasks, idle, at, inHand>>
  /\ UNCHANGED <<unread, sent, handled, mainVars>>

-----------------------------------------------------------------------------
(* The threads                                                               *)

\* A worker has handled its packet (with LOCK_GLOBAL, see FifoLock), and told
\* the thread that waits for an order.
Handle(w) ==
  /\ at[w] = "handles"
  /\ handled' = handled \cup {inHand[w]}
  /\ inHand' = [inHand EXCEPT ![w] = NoPacket]
  /\ GoTo(w, "loop")
  /\ UNCHANGED <<queueVars, unread, sent, mainVars>>

\* A listener goes on as long as there is no shutdown ...
Listen(l) ==
  /\ at[l] = "loop"
  /\ GoTo(l, IF stopping THEN "testcancel" ELSE "reads")
  /\ UNCHANGED <<queueVars, inHand, unread, sent, handled, mainVars>>

\* ... and stores the message it receives, if there is one.
ProcessMessage(l) ==
  /\ at[l] = "reads"
  /\ \/ \E m \in unread : StoreNotify(m) /\ unread' = unread \ {m}
     \/ UNCHANGED <<queueVars, unread>>
  /\ GoTo(l, "testcancel")
  /\ UNCHANGED <<inHand, sent, handled, mainVars>>

\* The scheduler waits for events, and may have a scheduling run.
Schedule ==
  /\ at[Schedd] = "loop"
  /\ \E place \in {"sends", "testcancel"} : GoTo(Schedd, place)
  /\ UNCHANGED <<queueVars, inHand, unread, sent, handled, mainVars>>

\* It sends orders in several packets (the last ones without a look at the
\* shutdown, sge_sched_thread.c:304) ...
SendOrders ==
  /\ at[Schedd] = "sends"
  /\ \/ \E o \in Order \ sent : StoreNotify(o) /\ sent' = sent \cup {o} /\ UNCHANGED at
     \/ GoTo(Schedd, "awaits") /\ UNCHANGED <<queueVars, sent>>
  /\ UNCHANGED <<inHand, unread, handled, mainVars>>

\* ... and waits until all of them are handled.
OrdersProcessed ==
  /\ at[Schedd] = "awaits" /\ sent \subseteq handled
  /\ sent' = {} /\ handled' = handled \ sent
  /\ GoTo(Schedd, "testcancel")
  /\ UNCHANGED <<queueVars, inHand, unread, mainVars>>

\* cl_thread_func_testcancel(), the only place where a thread can be cancelled.
\* (A listener stays here during a shutdown.)
TestCancel(t) ==
  /\ at[t] = "testcancel"
  /\ t \in Listener /\ stopping => t \in cancelled
  /\ GoTo(t, IF t \in cancelled THEN "gone" ELSE "loop")
  /\ UNCHANGED <<queueVars, inHand, unread, sent, handled, mainVars>>

-----------------------------------------------------------------------------
(* The main thread                                                           *)

\* A shutdown is requested, and sge_thread_wait_for_signal() returns.
StartShutdown ==
  /\ main = "waits"
  /\ stopping' = TRUE /\ main' = "scheduler"
  /\ UNCHANGED <<queueVars, at, inHand, unread, sent, handled, cancelled>>

\* sge_scheduler_terminate(): cancelled, not joined.
TerminateScheduler ==
  /\ main = "scheduler"
  /\ cancelled' = cancelled \cup {Schedd} /\ main' = "listener"
  /\ UNCHANGED <<queueVars, at, inHand, unread, sent, handled, stopping>>

\* sge_listener_terminate(), before the threads are joined
CancelListeners ==
  /\ main = "listener"
  /\ cancelled' = cancelled \cup Listener /\ main' = "joinListener"
  /\ UNCHANGED <<queueVars, at, inHand, unread, sent, handled, stopping>>

\* (A slip of JoinListeners: they are not waited for.)
JoinListenersNot ==
  /\ main = "joinListener"
  /\ main' = "worker"
  /\ UNCHANGED <<queueVars, at, inHand, unread, sent, handled, stopping, cancelled>>

JoinListeners ==
  /\ main = "joinListener" /\ \A l \in Listener : at[l] = "gone"
  /\ main' = "worker"
  /\ UNCHANGED <<queueVars, at, inHand, unread, sent, handled, stopping, cancelled>>

\* sge_worker_terminate(), before the threads are joined: sge_tq_wakeup_waiting()
\* and pthread_cancel()
CancelWorkers ==
  /\ main = "worker"
  /\ told' = Sleeping
  /\ cancelled' = cancelled \cup Worker /\ main' = "joinWorker"
  /\ UNCHANGED <<tasks, idle, at, inHand, unread, sent, handled, stopping>>

\* Then the final spooling is done, if it is, and persistence is shut down.
JoinWorkers ==
  /\ main = "joinWorker" /\ \A w \in Worker : at[w] = "gone"
  /\ main' = "spooled"
  /\ UNCHANGED <<queueVars, at, inHand, unread, sent, handled, stopping, cancelled>>

-----------------------------------------------------------------------------
WorkerStep(w) == WaitForTask(w) \/ WakeUp(w) \/ Handle(w) \/ TestCancel(w)
ListenerStep(l) == Listen(l) \/ ProcessMessage(l) \/ TestCancel(l)
SchedulerStep == Schedule \/ SendOrders \/ OrdersProcessed \/ TestCancel(Schedd)
MainStep ==
  \/ TerminateScheduler \/ CancelListeners \/ JoinListeners
  \/ CancelWorkers \/ JoinWorkers

TaskNext ==
  \/ \E w \in Worker : WorkerStep(w)
  \/ \E l \in Listener : ListenerStep(l)
  \/ SchedulerStep \/ StartShutdown \/ MainStep

TaskSpec == TaskInit /\ [][TaskNext]_taskVars

\* All threads run on, and a wait on the condition variable ends after a
\* second.  Nobody need request a shutdown.
TaskFairness ==
  /\ \A w \in Worker : WF_taskVars(WorkerStep(w))
  /\ \A l \in Listener : WF_taskVars(ListenerStep(l))
  /\ WF_taskVars(SchedulerStep)
  /\ WF_taskVars(MainStep)

TaskFairSpec == TaskSpec /\ TaskFairness

-----------------------------------------------------------------------------
\* The type of every variable.
TaskTypeOK ==
  /\ tasks \in Seq(Packet) /\ idle \in Nat /\ told \subseteq Worker
  /\ at \in [TaskThread -> {"loop", "sleeps", "handles", "reads", "sends", "awaits",
                            "testcancel", "gone"}]
  /\ inHand \in [Worker -> Packet \cup {NoPacket}]
  /\ unread \subseteq Message /\ sent \subseteq Order /\ handled \subseteq Packet
  /\ stopping \in BOOLEAN /\ cancelled \subseteq TaskThread
  /\ main \in {"waits", "scheduler", "listener", "joinListener", "worker", "joinWorker",
               "spooled"}

\* No task is stored without the waiting workers being told, although only a
\* counter tells sge_tq_store_notify() that there are any: a task never has to
\* wait for a worker's second to pass.
NoTaskUnnoticed == tasks # <<>> => Sleeping \subseteq told

InHand == {inHand[w] : w \in Worker} \ {NoPacket}

\* All waiting threads are woken for one task; only one of them gets it, and
\* nobody frees a packet somebody else still has to handle.
HandledByOne ==
  /\ \A v, w \in Worker : inHand[v] = inHand[w] /\ inHand[v] # NoPacket => v = w
  /\ \A i, j \in DOMAIN tasks : tasks[i] = tasks[j] => i = j
  /\ \A i \in DOMAIN tasks : tasks[i] \notin InHand \cup unread \cup handled

\* The threads that receive messages are gone before the workers are
\* cancelled: no message is taken in after the workers were told to go.
MessagesStopFirst ==
  [][unread' # unread => main \notin {"joinWorker", "spooled"}]_taskVars

\* A stored packet gets handled, if no shutdown intervenes.
TaskIsHandled ==
  \A p \in Packet :
    (\E i \in DOMAIN tasks : tasks[i] = p) ~> p \in handled \/ stopping

\* A shutdown, once requested, gets past all joins to the final spooling,
\* whatever the threads were doing.
ShutdownEnds == stopping ~> main = "spooled"
=============================================================================
