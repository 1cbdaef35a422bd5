----------------------------- MODULE JobProtocol -----------------------------
(***************************************************************************)
(* The qmaster and the execution daemons together: the protocol that       *)
(* starts a job on a host, tells the qmaster what became of it, deletes it *)
(* and moves it away from a host that is no longer heard.                  *)
(***************************************************************************)
EXTENDS QmasterJob, ExecdJob

vars == <<up, toExecd, toMaster, mvars, evars>>

Init == MessagesInit /\ QmasterInit /\ ExecdInit

Next ==
  \/ QmasterStep /\ UNCHANGED evars
  \/ \E h \in Host : ExecdStep(h) /\ UNCHANGED mvars

Spec == Init /\ [][Next]_vars

(***************************************************************************)
(* Fairness.  The qmaster's threads and the loop of the execd run on, and  *)
(* a dead execd is started again.  Four things need strong fairness: the   *)
(* timers and the reports of the execd, which are due again and again but  *)
(* find the connection full (MaxMsg) at times; the load values, which      *)
(* every report of a full report interval carries; and the execd's last    *)
(* message, because orders are repeated after minutes and handled at       *)
(* once, so that the execd catches up again and again.  Nothing forces a   *)
(* job to end unless it was killed, nor the scheduler, the user or the     *)
(* load value cleanup to do anything.                                      *)
(***************************************************************************)
MasterReceives(h) == ReceiveReport(h) \/ ReceiveSigAck(h)

ExecdLoop(h) ==
  \/ ReceiveJob(h) \/ ReceiveSignal(h) \/ ReceiveAck(h)
  \/ StartJobs(h) \/ SaveSpool(h)
  \/ Restart(h) \/ Reconnect(h)

MasterFairness ==
  /\ SF_vars(ResendPops /\ UNCHANGED evars)
  /\ SF_vars(ResendHandler /\ UNCHANGED evars)
  /\ SF_vars(SignalResend /\ UNCHANGED evars)
  /\ WF_vars(Bury /\ UNCHANGED evars)
  /\ \A h \in Host :
       /\ WF_vars(MasterReceives(h) /\ UNCHANGED evars)
       /\ SF_vars(ReceiveReport(h) /\ unknown' = unknown \ {h} /\ UNCHANGED evars)

ExecdFairness ==
  \A h \in Host :
    /\ WF_vars(ExecdLoop(h) /\ UNCHANGED mvars)
    /\ SF_vars(ExecdLoop(h) /\ toExecd'[h] = <<>> /\ UNCHANGED mvars)
    /\ SF_vars(SendReport(h) /\ UNCHANGED mvars)
    /\ SF_vars(Reap(h) /\ UNCHANGED mvars)
    /\ \A r \in Run : WF_vars(r \in killed[h] /\ ProcessEnds(h, r) /\ UNCHANGED mvars)

FairSpec == Spec /\ MasterFairness /\ ExecdFairness

-----------------------------------------------------------------------------
\* The type of every variable; the report list and the reschedule unknown list
\* of a host hold at most two entries of the job, which the loops over them in
\* ProcessJobReport and Purge rely on.
TypeOK == MessagesTypeOK /\ QmasterTypeOK /\ ExecdTypeOK

\* While a start order is not confirmed, a delivery timer is armed or its
\* handler is about to run: handle_job() of the execd ignores orders because
\* "job is resend by qmaster".
ResendIsArmed == ja.status = "JTRANSFERING" => resend > 0 \/ firing = 1

\* However often an order is sent, the job is executed once for it.
NoDoubleStart == \A r \in Run : starts[r] <= 1

\* do_ack(): ACK_JOB_EXIT is "the answer of qmaster if we report a job as
\* exiting", so what it removes from the execd has exited.
ExitAckMeansExited ==
  [][\A h \in Host : task[h] # NoTask /\ task'[h] = NoTask /\ phase'[h] # "dead"
        => task[h].run \notin alive[h]]_vars

\* add_to_reschedule_unknown_list(): a rescheduled job "won't be rescheduled
\* back to that hosts until it is sure that this job/task is not running on
\* that host anymore".
NotBackWhileRunning == [][ja'.run # ja.run => alive[ja'.host] = {}]_vars

\* How many reports of a host its list lets pass, at least, and what the unread
\* messages of a host are to it.
Waits(list) ==
  IF list = <<>> THEN 0
  ELSE IF \E i \in DOMAIN list : list[i] = SKIP_JR THEN 2 ELSE 1

Kind(m) ==
  IF m.tag # "TAG_REPORT_REQUEST" THEN "other"
  ELSE IF m.jrs = <<>> THEN "silent" ELSE "names"

Mail(queue) == [i \in DOMAIN queue |-> Kind(queue[i])]

KeptAway ==
  INSTANCE Quarantine WITH
    host <- ja.host,
    over <- ja.status \in {"JFINISHED", "buried"},
    waits <- [h \in Host |-> Waits(ru[h])],
    mail <- [h \in Host |-> Mail(toMaster[h])]

\* What the reschedule unknown lists do guarantee (update_..., skip_restarted_job()
\* and delete_from_reschedule_unknown_list()): however late, partial or lost the
\* reports are, a host that the job was taken from gets it again only after two
\* of its reports have been read, the last of them one without the job, and
\* what it reports until then has no effect on the job.
RescheduledIsKeptAway == KeptAway!QuarantineSpec

\* process_job_report() resets JDEFERRED_REQ "to allow rescheduled job to run":
\* until then a job rescheduled by hand is not started anywhere.
DeferredUntilExit == [][ja'.run # ja.run => "JDEFERRED_REQ" \notin ja.state]_vars

\* A job that qdel has marked is never started again, whatever late reports,
\* timers and reschedule requests come in.
DeletedNeverRunsAgain ==
  [][Deleted(ja) => Deleted(ja') /\ ja'.status # "JIDLE" /\ ja'.run = ja.run]_vars

\* A job that is over stays so: late or duplicated reports and timers do not
\* bring it back.
EndedIsFinal ==
  [][ja.status \in {"JFINISHED", "buried"} => ja'.status \in {"JFINISHED", "buried"}]_vars

\* What a live execd knows of the job survives its crash.
KnownJobIsSpooled ==
  \A h \in Host : task[h] # NoTask => disk[h] # NoTask /\ disk[h].run = task[h].run

\* examine_job_task_from_file(): of a job the old execd had not started, "we
\* just remove and report this job": what is reported as failed is not started.
FailedJobIsNotStarted ==
  [][\A h \in Host : alive'[h] \subseteq alive[h] \/ jrs[h][1].state # "JEXITING"]_vars

-----------------------------------------------------------------------------
\* From some time on no host is taken for unknown.
HostsAreHeard == <>[](unknown = {})

\* An order is confirmed, fails, or is given up, even if messages get lost and
\* the execd crashes.
StartIsSettled ==
  HostsAreHeard => (ja.status = "JTRANSFERING" ~> ja.status # "JTRANSFERING")

\* qdel of a job on a host ends the job, even if the signal gets lost.
DeletedEnds ==
  HostsAreHeard => (Deleted(ja) /\ ja.status \in Sent ~> ja.status \notin Sent)

\* From some time on a report is handled before the host sends the next one.
ReportsAreHandledInTime == <>[](\A h \in Host : Len(toMaster[h]) <= 1)

\* The reschedule unknown list of a host that reports does not last: the host
\* can be given the job again.  (An exit that is reported twice before the
\* first report is acknowledged starts the list's last entry over.)
HostIsUsableAgain ==
  ReportsAreHandledInTime => \A h \in Host : ru[h] # <<>> ~> ru[h] = <<>>

\* An instance of the job that is not the one the qmaster counts as running
\* (the job was moved or deleted) gets killed: "kill the old instance of job
\* A".  (After a crash the execd may have forgotten it.)
StrayInstanceEnds ==
  [](faults = 0) =>
    \A h \in Host : \A r \in Run :
      r \in alive[h] /\ ~(ja.status \in Sent /\ ja.run = r) ~> r \notin alive[h]
=============================================================================
