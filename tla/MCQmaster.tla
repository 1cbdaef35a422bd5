------------------------------ MODULE MCQmaster ------------------------------
(* What the threads of the qmaster share, and what they send until it is     *)
(* acknowledged, in small instances.  A behaviour is one of FifoLock,        *)
(* TaskQueue, TimedEvent (with one element of each mode and a clock that is  *)
(* set back), SignalResend or LoadReport; subject says which.                *)
EXTENDS FifoLock, TaskQueue, SignalResend, LoadReport, TLC

CONSTANTS t1, t2, t3, t4, c1, c2, c3, c4, e1, e2, r1, k1

VARIABLE subject

\* Every thread asks for one lock at a time.
OneCallEach == (c1 :> t1) @@ (c2 :> t2) @@ (c3 :> t3) @@ (c4 :> t4)

OneKey == (e1 :> k1) @@ (e2 :> k1) @@ (r1 :> k1)

qmasterVars == <<vars, taskVars, signalVars, loadVars, subject>>

QmasterInit ==
  /\ Init /\ TaskInit /\ SignalInit /\ LoadInit
  /\ subject \in {"lock", "tasks", "timers", "signals", "loads"}
  /\ subject # "signals" => TimerInit /\ pending = [k \in EventKey |-> NoSignal]

\* Signals are all sent again after the same time.
SameDelay == \A e \in OneTime : place[e] = "free" /\ place'[e] # "free" => when'[e] = clock + 1

QmasterNext ==
  /\ \/ subject = "lock" /\ Next /\ UNCHANGED <<taskVars, signalVars, loadVars>>
     \/ subject = "tasks" /\ TaskNext /\ UNCHANGED <<vars, signalVars, loadVars>>
     \/ /\ subject = "timers" /\ TimerNext
        /\ place'[e2] = "free"
        /\ UNCHANGED <<vars, taskVars, pending, wireVars, loadVars>>
     \/ /\ subject = "signals" /\ SignalNext
        /\ UNCHANGED setbacks
        /\ SameDelay
        /\ UNCHANGED <<vars, taskVars, loadVars>>
     \/ subject = "loads" /\ LoadNext /\ UNCHANGED <<vars, taskVars, signalVars>>
  /\ UNCHANGED subject

\* The fairness of each.
QmasterFairness ==
  /\ \A c \in Call : WF_vars(subject = "lock" /\ CallRuns(c))
  /\ \A w \in Worker : WF_taskVars(subject = "tasks" /\ WorkerStep(w))
  /\ \A l \in Listener : WF_taskVars(subject = "tasks" /\ ListenerStep(l))
  /\ WF_taskVars(subject = "tasks" /\ SchedulerStep)
  /\ WF_taskVars(subject = "tasks" /\ MainStep)
  /\ WF_timerVars(subject = "timers" /\ TimerThread)
  /\ \A e \in Event : WF_timerVars(subject = "timers" /\ Insert(e))
  /\ SF_signalVars(subject = "signals" /\ ResendThread /\ SameDelay)
  /\ \A e \in Event : WF_signalVars(subject = "signals" /\ Insert(e) /\ UNCHANGED <<pending, wireVars>>)
  /\ SF_loadVars(subject = "loads" /\ SendLoadReport)
  /\ WF_loadVars(subject = "loads" /\ ReceiveAnswer)
  /\ WF_loadVars(subject = "loads" /\ NoticeLoss)
  /\ WF_loadVars(subject = "loads" /\ RegisterHost)
  /\ WF_loadVars(subject = "loads" /\ ReceiveReport)
  /\ WF_loadVars(subject = "loads" /\ ExecdStartup)

QmasterSpec == QmasterInit /\ [][QmasterNext]_qmasterVars /\ QmasterFairness
=============================================================================
