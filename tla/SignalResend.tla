---------------------------- MODULE SignalResend ----------------------------
(***************************************************************************)
(* Signals of the qmaster to jobs and queues, which are sent again and     *)
(* again until the execution daemon acknowledges them: sge_signal_queue()  *)
(* and resend_signal_event() of sge_qmod_qmaster.c and sge_c_job_ack() of  *)
(* sge_qmaster_process_message.c, on top of the timed events.  A behaviour *)
(* begins with a start of the qmaster, which finds signals that have been  *)
(* pending since an earlier one.                                           *)
(*                                                                         *)
(* The one-time events are the resend events here; their key is the job or *)
(* the queue.  What a thread does while it holds LOCK_GLOBAL is one step,  *)
(* but for te_add_event(), whose critical section is a step of its own.    *)
(***************************************************************************)
EXTENDS TimedEvent, Sequences

CONSTANTS Signal, NoSignal,
          MaxSignal    \* bound of the messages and acknowledgements on the way

ASSUME SignalAssumption == NoSignal \notin Signal

VARIABLES pending,     \* JAT_pending_signal, QU_pending_signal
          toJob,       \* signals on their way to the execd
          sigAcks      \* how many acknowledgements are on their way back

wireVars == <<toJob, sigAcks>>
signalVars == <<timerVars, pending, wireVars>>

ResendEvent(k) == {e \in OneTime : KeyOf[e] = k}

\* rebuild_signal_events(): each signal that was pending when the qmaster
\* stopped gets a timer again, due when the old one was.
RebuildSignalEvents(rebuilt) ==
  /\ {KeyOf[e] : e \in rebuilt} = {k \in EventKey : pending[k] # NoSignal}
  /\ \A e, f \in rebuilt : KeyOf[e] = KeyOf[f] => e = f
  /\ place = [e \in Event |-> IF e \in rebuilt THEN "listed" ELSE "free"]
  /\ \E time \in [rebuilt -> UNION {1 .. clock + d : d \in Delay}] :
       /\ when = [e \in Event |-> IF e \in rebuilt THEN time[e] ELSE 0]
       /\ IF rebuilt = {} THEN next = 0
                          ELSE next \in {w \in {time[e] : e \in rebuilt} : \A e \in rebuilt : w <= time[e]}
  /\ due = when

\* A qmaster starts, for the first time or again: rebuild_signal_events() is
\* called before there is a timer thread (setup_qmaster.c), with whatever
\* signals were spooled as pending.
SignalInit ==
  /\ NotStarted
  /\ pending \in [EventKey -> Signal \cup {NoSignal}]
  /\ \E rebuilt \in SUBSET OneTime : RebuildSignalEvents(rebuilt)
  /\ toJob = [k \in EventKey |-> <<>>]
  /\ sigAcks = [k \in EventKey |-> 0]

\* No thread is between te_delete_one_time_event() and te_add_event().
GlobalIsFree == \A e \in OneTime : place[e] # "adding"

\* The elements of free are freed, and a new resend event is created.
Renew(k, free) ==
  \E e \in ResendEvent(k), d \in Delay :
    /\ place[e] = "free" \/ e \in free
    /\ place' = [x \in Event |-> IF x = e THEN "adding" ELSE IF x \in free THEN "free" ELSE place[x]]
    /\ when' = [x \in Event |-> IF x = e THEN clock + d ELSE IF x \in free THEN 0 ELSE when[x]]
    /\ due' = [x \in Event |-> IF x = e THEN clock + d - Unnoticed
                               ELSE IF x \in free THEN 0 ELSE due[x]]

\* (A slip of Rearm: the timer that is already armed is not deleted.)
RearmOnly(k, gone) == Renew(k, gone) /\ UNCHANGED <<delete, notified>>

\* te_delete_one_time_event() and te_new_event(): the timer is set anew.
Rearm(k, gone) ==
  /\ Renew(k, Matching(k) \cup gone)
  /\ IF Matching(k) = {} THEN UNCHANGED <<delete, notified>> ELSE delete' = TRUE /\ Notify

\* sge_signal_queue() that has sent the signal, or has not because the host
\* is unknown.  In both cases a timer is armed.
SignalQueue(how, k, gone) ==
  /\ pending' = [pending EXCEPT ![k] = how]
  /\ Rearm(k, gone)
  /\ \/ UNCHANGED toJob
     \/ Len(toJob[k]) < MaxSignal /\ toJob' = [toJob EXCEPT ![k] = Append(@, how)]

\* A user or the scheduler suspends, resumes or deletes the job.  (A message
\* that cannot be sent leaves no trace.)
SendSignal(k) ==
  /\ GlobalIsFree
  /\ \E how \in Signal : SignalQueue(how, k, {})
  /\ UNCHANGED <<clockVars, next, last, timer, te, awaited, sigAcks>>

\* resend_signal_event(): whatever is pending now is sent, and the timer is
\* armed again, unless the message cannot be sent.
Resend ==
  /\ timer = "deliver" /\ te \in OneTime
  /\ GlobalIsFree
  /\ LET k == KeyOf[te]
     IN \/ /\ SignalQueue(pending[k], k, {te})
           /\ timer' = "readd"
           /\ te' \in {e \in OneTime : place'[e] = "adding"}
        \/ /\ Remove({te})
           /\ timer' = "loop" /\ te' = NoEvent
           /\ UNCHANGED <<delete, notified, pending, toJob>>
  /\ UNCHANGED <<clockVars, next, last, awaited, sigAcks>>

\* (Slips of ReceiveSignalAck: the timer is left alone; the signal is left
\* pending.)
ReceiveSignalAckOnly(k) ==
  /\ sigAcks[k] > 0 /\ GlobalIsFree
  /\ sigAcks' = [sigAcks EXCEPT ![k] = @ - 1]
  /\ pending' = [pending EXCEPT ![k] = NoSignal]
  /\ UNCHANGED <<timerVars, toJob>>

ReceiveSignalAckPending(k) ==
  /\ sigAcks[k] > 0 /\ GlobalIsFree
  /\ sigAcks' = [sigAcks EXCEPT ![k] = @ - 1]
  /\ IF Matching(k) = {}
       THEN UNCHANGED <<listVars, delete, notified>>
       ELSE Delete(k)
  /\ UNCHANGED <<clockVars, next, last, timer, te, awaited, pending, toJob>>

\* sge_c_job_ack(): which signal the acknowledgement is for is not known.
ReceiveSignalAck(k) ==
  /\ sigAcks[k] > 0 /\ GlobalIsFree
  /\ sigAcks' = [sigAcks EXCEPT ![k] = @ - 1]
  /\ pending' = [pending EXCEPT ![k] = NoSignal]
  /\ IF Matching(k) = {}
       THEN UNCHANGED <<listVars, delete, notified>>
       ELSE Delete(k)
  /\ UNCHANGED <<clockVars, next, last, timer, te, awaited, toJob>>

\* do_signal_queue() of the execd: every signal is acknowledged.
ExecdSignals(k) ==
  /\ toJob[k] # <<>> /\ sigAcks[k] < MaxSignal
  /\ toJob' = [toJob EXCEPT ![k] = Tail(@)]
  /\ sigAcks' = [sigAcks EXCEPT ![k] = @ + 1]
  /\ UNCHANGED <<timerVars, pending>>

\* The connection breaks; what is on its way is lost.
LoseSignals(k) ==
  /\ toJob[k] # <<>> \/ sigAcks[k] > 0
  /\ toJob' = [toJob EXCEPT ![k] = <<>>]
  /\ sigAcks' = [sigAcks EXCEPT ![k] = 0]
  /\ UNCHANGED <<timerVars, pending>>

-----------------------------------------------------------------------------
\* The timed events without the one-time events of others.
OtherEvents ==
  \/ Tick \/ SetBack
  \/ \E e \in Event \ OneTime : AddEvent(e)
  \/ \E e \in Event : Insert(e)

ResendThread ==
  \/ /\ Loop \/ WakeEmpty \/ WakeNext \/ Readd \/ (Deliver /\ te \notin OneTime)
     /\ UNCHANGED <<pending, wireVars>>
  \/ Resend

SignalNext ==
  \/ OtherEvents /\ UNCHANGED <<pending, wireVars>>
  \/ ResendThread
  \/ \E k \in EventKey :
       SendSignal(k) \/ ReceiveSignalAck(k) \/ ExecdSignals(k) \/ LoseSignals(k)

SignalSpec == SignalInit /\ [][SignalNext]_signalVars

\* The threads run on, as in TimerFairness, and a thread that asks for
\* LOCK_GLOBAL gets it, though others ask for it again and again
\* (WaitersAreServed of FifoLock).
SignalFairness ==
  /\ SF_signalVars(ResendThread)
  /\ \A e \in Event : WF_signalVars(Insert(e) /\ UNCHANGED <<pending, wireVars>>)

-----------------------------------------------------------------------------
Armed(k) == \E e \in ResendEvent(k) : place[e] # "free"

\* A signal that is pending has a timer when a qmaster starts and keeps it,
\* whatever other signals, timers and acknowledgements come in between, until
\* it is acknowledged: "if the operation is not acknowledged in time we can do
\* further steps".  It loses it only when a resend cannot be sent.
PendingStaysArmed ==
  /\ \A k \in EventKey : pending[k] # NoSignal => Armed(k)
  /\ [][\A k \in EventKey :
          pending'[k] # NoSignal /\ ~Armed(k)' => ~Armed(k) \/ (timer = "deliver" /\ timer' = "loop")]_signalVars

\* Resend events do not pile up: at most one is to come for a job.
OneTimerEach ==
  \A k \in EventKey :
    Cardinality({e \in ResendEvent(k) : place[e] \in Pending}) <= 1

\* What has been acknowledged is not sent again, except by a resend event
\* that was due before the acknowledgement came: with nothing pending, there
\* is a timer only if its handler was running then.
AckDisarms ==
  [][\A k \in EventKey :
       pending[k] # NoSignal /\ pending'[k] = NoSignal =>
         \A e \in ResendEvent(k) : place'[e] \in {"free", "taken"}]_signalVars
=============================================================================
