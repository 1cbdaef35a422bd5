----------------------------- MODULE QmasterJob -----------------------------
(***************************************************************************)
(* The qmaster's side of the life of one serial, rerunnable job: the start *)
(* order, the delivery and its retries, the job reports of the execution   *)
(* daemons, the deletion, and the rescheduling with its list of hosts that *)
(* may still hold an old instance of the job (EH_reschedule_unknown_list). *)
(*                                                                         *)
(* Every action is one critical section of LOCK_GLOBAL.                    *)
(***************************************************************************)
EXTENDS JobMessages

CONSTANTS NoHost,       \* no host is granted to the job
          ForcedQdel    \* enable_forced_qdel_if_unknown

VARIABLES ja,         \* the job's task (JAT_Type): status, host, state, run
          resend,     \* armed delivery timers (TYPE_JOB_RESEND_EVENT)
          firing,     \* timers the timer thread has taken from its list
          sigresend,  \* a signal timer is armed (TYPE_SIGNAL_RESEND_EVENT)
          unknown,    \* the hosts whose queues are in unknown state
          ru          \* host -> EH_reschedule_unknown_list

mvars == <<ja, resend, firing, sigresend, unknown, ru>>

\* States of an entry of the reschedule unknown list.
SKIP_JR_REMOVE == 0
SKIP_JR_SEND_ACK == 1
SKIP_JR == 2

Status == {"JIDLE", "JTRANSFERING", "JRUNNING", "JFINISHED", "buried"}
Sent == {"JTRANSFERING", "JRUNNING"}

QmasterInit ==
  /\ ja = [status |-> "JIDLE", host |-> NoHost, state |-> {}, run |-> 0]
  /\ resend = 0 /\ firing = 0 /\ sigresend = FALSE
  /\ unknown = {}
  /\ ru = [h \in Host |-> <<>>]

JaTask ==
  [status : Status, host : Host \cup {NoHost},
   state : SUBSET {"JDELETED", "JDEFERRED_REQ"}, run : {0} \cup Run]

RuState == {SKIP_JR_REMOVE, SKIP_JR_SEND_ACK, SKIP_JR}

QmasterTypeOK ==
  /\ ja \in JaTask
  /\ resend \in Nat /\ firing \in {0, 1} /\ sigresend \in BOOLEAN
  /\ unknown \subseteq Host
  /\ ru \in [Host -> Seq(RuState)] /\ \A h \in Host : Len(ru[h]) <= 2

Deleted(j) == "JDELETED" \in j.state

-----------------------------------------------------------------------------
(* The commits that several handlers share.  They map a state of the task   *)
(* and of the lists to the next one.                                        *)

WithTask(s, j) == [s EXCEPT !.ja = j]
WithList(s, h, list) == [s EXCEPT !.ru = [@ EXCEPT ![h] = list]]

\* COMMIT_ST_FINISHED_FAILED_EE: of each host's list only the first entry
\* goes.
Finish(s) ==
  [WithTask(s, [s.ja EXCEPT !.status = "JFINISHED", !.host = NoHost])
     EXCEPT !.ru = [h \in Host |-> IF s.ru[h] = <<>> THEN <<>> ELSE Tail(s.ru[h])]]

\* COMMIT_ST_RESCHEDULED and COMMIT_ST_USER_RESCHEDULED
Reschedule(s) ==
  WithList(WithTask(s, [s.ja EXCEPT !.status = "JIDLE", !.host = NoHost,
                                    !.state = @ \cap {"JDEFERRED_REQ"}]),
           s.ja.host, Append(s.ru[s.ja.host], SKIP_JR))

\* Mutant: a deleted job with a rerun exit status is rerun.
JobExitReruns(s, outcome) ==
  LET cancelled == [s EXCEPT !.resend = 0]
  IN IF s.ja.status \notin Sent THEN cancelled
     ELSE IF outcome = "done" THEN Finish(cancelled) ELSE Reschedule(cancelled)

\* sge_job_exit()
JobExit(s, outcome) ==
  LET cancelled == [s EXCEPT !.resend = 0]
  IN IF s.ja.status \notin Sent THEN cancelled
     ELSE IF Deleted(s.ja) \/ outcome = "done" THEN Finish(cancelled)
     ELSE Reschedule(cancelled)

Snapshot == [ja |-> ja, resend |-> resend, ru |-> ru, acks |-> <<>>]

Commit(s) == ja' = s.ja /\ resend' = s.resend /\ ru' = s.ru

SendAck(s, ack) == [s EXCEPT !.acks = Append(@, ack)]

-----------------------------------------------------------------------------
(* Sending: gdi2_send_message_pb() fails if the execd is not connected.      *)

Send(h, m) == toExecd' = [toExecd EXCEPT ![h] = Append(@, m)]

JobMessage(run) == [tag |-> "TAG_JOB_EXECUTION", run |-> run]
SignalMessage == [tag |-> "TAG_SIGJOB"]

\* sge_signal_queue() with SIGKILL for the job.  No timer is armed when the
\* message cannot be sent.
SignalJob(h) ==
  \/ /\ h \in unknown
     /\ sigresend' = TRUE
     /\ UNCHANGED toExecd
  \/ /\ h \in up \ unknown /\ Room(h)
     /\ Send(h, SignalMessage)
     /\ sigresend' = TRUE
  \/ /\ h \notin up \cup unknown
     /\ UNCHANGED <<toExecd, sigresend>>

-----------------------------------------------------------------------------
(* Job reports                                                               *)

\* The rescheduled job may run: "the initial job is going to die".
Undeferred(s) == WithTask(s, [s.ja EXCEPT !.state = @ \ {"JDEFERRED_REQ"}])

\* Mutant: old instances are not killed.
SkipRestartedNoKill(s, h, jr) ==
  IF jr.state = "JEXITING"
    THEN SendAck(Undeferred(s), "ACK_JOB_EXIT")
    ELSE s

\* The first entry of the host's list decides, and later ones are not seen.
SkipRestarted(s, h, jr) ==
  LET first == Head(s.ru[h])
  IN CASE first = SKIP_JR_REMOVE ->
            SendAck(WithList(s, h, [s.ru[h] EXCEPT ![1] = SKIP_JR]), "ACK_SIGNAL_JOB")
       [] first # SKIP_JR_REMOVE /\ jr.state = "JEXITING" ->
            SendAck(Undeferred(s), "ACK_JOB_EXIT")
       [] OTHER -> s

\* COMMIT_ST_ARRIVED
Arrived(s) == [WithTask(s, [s.ja EXCEPT !.status = "JRUNNING"]) EXCEPT !.resend = 0]

\* Mutant: a deleted job that is still reported is not killed again.
RunningNoKill(s) ==
  IF s.ja.status = "JTRANSFERING" THEN Arrived(s) ELSE s

Running(s) ==
  LET warned == IF Deleted(s.ja) THEN SendAck(s, "ACK_SIGNAL_JOB") ELSE s
  IN CASE s.ja.status = "buried" -> SendAck(s, "ACK_SIGNAL_JOB")
       [] s.ja.status = "JTRANSFERING" -> Arrived(warned)
       [] s.ja.status = "JRUNNING" -> warned
       [] OTHER -> s

Exited(s, outcome) ==
  SendAck(IF s.ja.status \in Sent THEN JobExit(s, outcome) ELSE s, "ACK_JOB_EXIT")

\* Mutant: the reschedule unknown list is not consulted.
JobReportedUnskipped(s, h, jr) ==
  IF jr.state = "JRUNNING" THEN Running(s) ELSE Exited(s, jr.outcome)

\* One pass of the loop of process_job_report().
JobReported(s, h, jr) ==
  CASE s.ru[h] # <<>> -> SkipRestarted(s, h, jr)
    [] s.ru[h] = <<>> /\ jr.state = "JEXITING" -> Exited(s, jr.outcome)
    [] OTHER -> Running(s)

\* A report holds at most two entries of the job (ExecdTypeOK).
ProcessJobReport(s, h, jrs) ==
  CASE jrs = <<>> -> s
    [] Len(jrs) = 1 -> JobReported(s, h, jrs[1])
    [] OTHER -> JobReported(JobReported(s, h, jrs[1]), h, jrs[2])

\* Mutant: one report too few makes an entry obsolete.
UpdateTooFast(s, h) == WithList(s, h, [i \in DOMAIN s.ru[h] |-> SKIP_JR_REMOVE])

\* Mutant: SKIP_JR_SEND_ACK is a last state.
UpdateStops(s, h) ==
  WithList(s, h, [i \in DOMAIN s.ru[h] |->
                    IF s.ru[h][i] = SKIP_JR THEN SKIP_JR_SEND_ACK ELSE s.ru[h][i]])

\* update_reschedule_unknown_list()
Update(s, h) ==
  WithList(s, h, [i \in DOMAIN s.ru[h] |->
                    IF s.ru[h][i] = SKIP_JR THEN SKIP_JR_SEND_ACK ELSE SKIP_JR_REMOVE])

\* delete_from_reschedule_unknown_list().  A list holds at most two entries
\* (QmasterTypeOK).
Purge(s, h) ==
  LET list == s.ru[h]
      Kept(i) == IF list[i] = SKIP_JR_REMOVE THEN <<>> ELSE <<list[i]>>
  IN WithList(s, h, CASE list = <<>> -> <<>>
                      [] Len(list) = 1 -> Kept(1)
                      [] OTHER -> Kept(1) \o Kept(2))

ReportResult(s, h, jrs) == Purge(ProcessJobReport(Update(s, h), h, jrs), h)

\* sge_c_report().  The load values in the report, if there are any, end the
\* unknown state of the host's queues.
ReceiveReport(h) ==
  /\ toMaster[h] # <<>>
  /\ Head(toMaster[h]).tag = "TAG_REPORT_REQUEST"
  /\ toMaster' = [toMaster EXCEPT ![h] = Tail(@)]
  /\ LET s == ReportResult(Snapshot, h, Head(toMaster[h]).jrs)
     IN /\ Commit(s)
        /\ \/ /\ s.acks = <<>> \/ h \notin up
              /\ UNCHANGED toExecd
           \/ /\ s.acks # <<>> /\ h \in up
              /\ Send(h, [tag |-> "TAG_ACK_REQUEST", acks |-> s.acks])
  /\ unknown' \in {unknown, unknown \ {h}}
  /\ UNCHANGED <<up, firing, sigresend>>

\* sge_c_job_ack(): the execd has got the signal.
ReceiveSigAck(h) ==
  /\ toMaster[h] # <<>>
  /\ Head(toMaster[h]).tag = "ACK_SIGJOB"
  /\ toMaster' = [toMaster EXCEPT ![h] = Tail(@)]
  /\ sigresend' = FALSE
  /\ UNCHANGED <<up, toExecd, ja, resend, firing, unknown, ru>>

-----------------------------------------------------------------------------
(* Delivery                                                                  *)

\* The scheduler has chosen host h (ORT_start_job).  The hosts of the
\* reschedule unknown lists are left out by the scheduler and refused here.
StartJob(h) ==
  /\ ja.status = "JIDLE"
  /\ h \notin unknown
  /\ ru[h] = <<>>
  /\ ja.run < MaxRun
  /\ \/ /\ h \in up /\ Room(h)
        /\ Send(h, JobMessage(ja.run + 1))
        /\ ja' = [status |-> "JTRANSFERING", host |-> h, state |-> {},
                  run |-> ja.run + 1]
        /\ resend' = resend + 1
        /\ UNCHANGED unknown
     \/ /\ h \notin up
        /\ ja' = [ja EXCEPT !.state = {}]
        /\ unknown' = unknown \cup {h}
        /\ UNCHANGED <<toExecd, resend>>
  /\ UNCHANGED <<up, toMaster, firing, sigresend, ru>>

\* Mutant: a timer that was cancelled fires.
ResendPopsCancelled ==
  /\ firing = 0
  /\ resend' = resend - 1 /\ firing' = 1
  /\ UNCHANGED <<up, toExecd, toMaster, ja, sigresend, unknown, ru>>

\* The timer thread takes a due delivery timer out of its list; the handler
\* has yet to get LOCK_GLOBAL.
ResendPops ==
  /\ resend > 0 /\ firing = 0
  /\ resend' = resend - 1 /\ firing' = 1
  /\ UNCHANGED <<up, toExecd, toMaster, ja, sigresend, unknown, ru>>

\* Mutant: the handler does not arm the next timer.
ResendHandlerOnce ==
  /\ firing = 1
  /\ firing' = 0
  /\ IF ja.status = "JTRANSFERING" /\ ja.host \in up
       THEN Room(ja.host) /\ Send(ja.host, JobMessage(ja.run)) ELSE UNCHANGED toExecd
  /\ UNCHANGED <<up, toMaster, ja, resend, sigresend, unknown, ru>>

\* sge_job_resend_event_handler()
ResendHandler ==
  /\ firing = 1
  /\ firing' = 0
  /\ \/ /\ ja.status # "JTRANSFERING"
        /\ UNCHANGED <<toExecd, resend, unknown>>
     \/ /\ ja.status = "JTRANSFERING"
        /\ resend' = resend + 1
        /\ \/ /\ ja.host \in unknown
              /\ UNCHANGED <<toExecd, unknown>>
           \/ /\ ja.host \in up \ unknown /\ Room(ja.host)
              /\ Send(ja.host, JobMessage(ja.run))
              /\ UNCHANGED unknown
           \/ /\ ja.host \notin up \cup unknown
              /\ unknown' = unknown \cup {ja.host}
              /\ UNCHANGED toExecd
  /\ UNCHANGED <<up, toMaster, ja, sigresend, ru>>

-----------------------------------------------------------------------------
(* Deletion                                                                  *)

\* qdel of a job that no host has.
DeletePending ==
  /\ ja.status = "JIDLE"
  /\ Commit(Finish(Snapshot))
  /\ UNCHANGED <<up, toExecd, toMaster, firing, sigresend, unknown>>

\* qdel of a job on a host: it gets marked and the execd has to kill it.
DeleteSent ==
  /\ ja.status \in Sent
  /\ ~(Deleted(ja) /\ sigresend)
  /\ ~(ForcedQdel /\ ja.host \in unknown)
  /\ SignalJob(ja.host)
  /\ ja' = [ja EXCEPT !.state = @ \cup {"JDELETED"}]
  /\ UNCHANGED <<up, toMaster, resend, firing, unknown, ru>>

\* enable_forced_qdel_if_unknown: the job ends without its host.
DeleteForced ==
  /\ ja.status \in Sent
  /\ ForcedQdel /\ ja.host \in unknown
  /\ SignalJob(ja.host)
  /\ Commit([Finish(Snapshot) EXCEPT !.resend = 0])
  /\ UNCHANGED <<up, toMaster, firing, unknown>>

\* resend_signal_event()
SignalResend ==
  /\ sigresend
  /\ \/ /\ ja.status \in Sent
        /\ \/ ja.host \in up \cup unknown /\ SignalJob(ja.host)
           \/ /\ ja.host \notin up \cup unknown
              /\ sigresend' = FALSE /\ UNCHANGED toExecd
     \/ /\ ja.status \notin Sent
        /\ sigresend' = FALSE /\ UNCHANGED toExecd
  /\ UNCHANGED <<up, toMaster, ja, resend, firing, unknown, ru>>

\* The scheduler has seen the finished job (ORT_remove_job).
Bury ==
  /\ ja.status = "JFINISHED"
  /\ ja' = [ja EXCEPT !.status = "buried"]
  /\ sigresend' = FALSE
  /\ UNCHANGED <<up, toExecd, toMaster, resend, firing, unknown, ru>>

-----------------------------------------------------------------------------
(* Unheard hosts and rescheduling                                            *)

\* sge_load_value_cleanup_handler(): no load report came for too long, or the
\* qmaster cannot tell a slow execd from a dead one.
HostUnknown(h) ==
  /\ h \notin unknown
  /\ unknown' = unknown \cup {h}
  /\ UNCHANGED <<up, toExecd, toMaster, ja, resend, firing, sigresend, ru>>

\* reschedule_job() after its tests: an entry of its own for the host, and an
\* exit report as if it came from the execd.
RescheduleFrom(h, state) ==
  LET marked == WithList(WithTask(Snapshot, [ja EXCEPT !.state = state]),
                         h, Append(ru[h], SKIP_JR_REMOVE))
  IN /\ ja.status \in Sent /\ ja.host = h
     /\ ~Deleted(ja)
     /\ ru[h] = <<>>
     /\ Commit(JobExit(marked, "again"))
     /\ UNCHANGED <<up, toExecd, toMaster, firing, sigresend, unknown>>

\* reschedule_unknown_event()
RescheduleUnknown(h) == h \in unknown /\ RescheduleFrom(h, ja.state \ {"JDEFERRED_REQ"})

\* qmod -rj
ManualReschedule(h) == RescheduleFrom(h, ja.state \cup {"JDEFERRED_REQ"})

QmasterStep ==
  \/ ResendPops \/ ResendHandler
  \/ DeletePending \/ DeleteSent \/ DeleteForced \/ SignalResend \/ Bury
  \/ \E h \in Host :
       \/ ReceiveReport(h) \/ ReceiveSigAck(h)
       \/ StartJob(h)
       \/ HostUnknown(h) \/ RescheduleUnknown(h) \/ ManualReschedule(h)
=============================================================================
