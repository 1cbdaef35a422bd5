------------------------------ MODULE ExecdJob ------------------------------
(***************************************************************************)
(* The execution daemon's side of the life of one serial job: accepting    *)
(* and starting it, its spool file, the job report list, reaping, the      *)
(* acknowledgements and signals of the qmaster, crash and restart.         *)
(*                                                                         *)
(* The daemon is single-threaded: every pass of sge_execd_process_messages *)
(* handles one message and then does the cyclic work of do_ck_to_do().     *)
(* "phase" is the place in the pass where a crash makes a difference.      *)
(***************************************************************************)
EXTENDS JobMessages

CONSTANTS NoTask,          \* the execd does not know the job
          PartialReports,  \* reports may leave out entries of the report list
          Prompt,          \* messages are handled within a report interval
          Refusals,        \* the ways an execd refuses a job: "reported", "silent"
          Faults,          \* the faults that occur: "crash", "disconnect"
          MaxFault         \* bound: faults of any kind

VARIABLES phase,    \* host -> where the daemon is in its loop
          task,     \* host -> the job in Master_Job_List
          disk,     \* host -> the job's spool file
          jrs,      \* host -> jr_list
          alive,    \* host -> runs whose shepherd and job are alive
          killed,   \* host -> live runs that got SIGKILL
          starts,   \* run -> how often it was started (history)
          faults    \* faults so far

evars == <<phase, task, disk, jrs, alive, killed, starts, faults>>

Phase == {"wait", "acks", "start", "save", "dead"}
Task == [run : Run, status : {"JIDLE", "JRUNNING"}]

ASSUME NoTaskAssumption == NoTask \notin Task

ExecdInit ==
  /\ phase = [h \in Host |-> "wait"]
  /\ task = [h \in Host |-> NoTask]
  /\ disk = [h \in Host |-> NoTask]
  /\ jrs = [h \in Host |-> <<>>]
  /\ alive = [h \in Host |-> {}] /\ killed = [h \in Host |-> {}]
  /\ starts = [r \in Run |-> 0]
  /\ faults = 0

ExecdTypeOK ==
  /\ phase \in [Host -> Phase]
  /\ task \in [Host -> Task \cup {NoTask}]
  /\ disk \in [Host -> Task \cup {NoTask}]
  /\ jrs \in [Host -> Seq(JobReport)] /\ \A h \in Host : Len(jrs[h]) <= 2
  /\ alive \in [Host -> SUBSET Run] /\ killed \in [Host -> SUBSET Run]
  /\ starts \in [Run -> Nat]
  /\ faults \in Nat

RunningReport(r) == [run |-> r, state |-> "JRUNNING", outcome |-> "none"]
ExitReport(r, outcome) == [run |-> r, state |-> "JEXITING", outcome |-> outcome]
UnknownReport == ExitReport(0, "done")

\* get_job_report() finds the first entry of the job; without one it is added.
SetFirst(list, jr) == IF list = <<>> THEN <<jr>> ELSE <<jr>> \o Tail(list)

-----------------------------------------------------------------------------
(* Messages of the qmaster                                                   *)

HasMessage(h) == phase[h] = "wait" /\ toExecd[h] # <<>>
Message(h) == Head(toExecd[h])
Take(h) == toExecd' = [toExecd EXCEPT ![h] = Tail(@)]

\* handle_job(): an order for a task that is there is ignored, because the
\* qmaster sends it again.
IgnoreJob(h) ==
  /\ task[h] # NoTask
  /\ UNCHANGED <<phase, task, disk, jrs>>

\* Mutant: a job that is there already is accepted.
AcceptJobTwice(h, r) ==
  /\ task' = [task EXCEPT ![h] = [run |-> r, status |-> "JIDLE"]]
  /\ disk' = [disk EXCEPT ![h] = task'[h]]
  /\ jrs' = [jrs EXCEPT ![h] = Append(@, RunningReport(r))]
  /\ phase' = [phase EXCEPT ![h] = "start"]

\* Mutant: the job is spooled only when it has been started.
AcceptJobUnspooled(h, r) ==
  /\ task[h] = NoTask
  /\ task' = [task EXCEPT ![h] = [run |-> r, status |-> "JIDLE"]]
  /\ jrs' = [jrs EXCEPT ![h] = Append(@, RunningReport(r))]
  /\ phase' = [phase EXCEPT ![h] = "start"]
  /\ UNCHANGED disk

AcceptJob(h, r) ==
  /\ task[h] = NoTask
  /\ task' = [task EXCEPT ![h] = [run |-> r, status |-> "JIDLE"]]
  /\ disk' = [disk EXCEPT ![h] = task'[h]]
  /\ jrs' = [jrs EXCEPT ![h] = Append(@, RunningReport(r))]
  /\ phase' = [phase EXCEPT ![h] = "start"]

\* Label Error: reported, except when the queue in the order is not valid.
RefuseJob(h, r) ==
  /\ task[h] = NoTask
  /\ \/ /\ "reported" \in Refusals
        /\ jrs' = [jrs EXCEPT ![h] = SetFirst(@, ExitReport(r, "again"))]
     \/ /\ "silent" \in Refusals
        /\ UNCHANGED jrs
  /\ UNCHANGED <<phase, task, disk>>

ReceiveJob(h) ==
  /\ HasMessage(h) /\ Message(h).tag = "TAG_JOB_EXECUTION"
  /\ Take(h)
  /\ \/ IgnoreJob(h)
     \/ AcceptJob(h, Message(h).run)
     \/ RefuseJob(h, Message(h).run)
  /\ UNCHANGED <<up, toMaster, alive, killed, starts, faults>>

\* signal_job() with SIGKILL and, if there is no such task,
\* remove_acked_job_exit() and job_unknown().
KillJob(h) ==
  \/ /\ task[h] # NoTask
     /\ killed' = [killed EXCEPT ![h] = @ \cup (alive[h] \cap {task[h].run})]
     /\ disk' = [disk EXCEPT ![h] = task[h]]
     /\ UNCHANGED jrs
  \/ /\ task[h] = NoTask
     /\ disk' = [disk EXCEPT ![h] = NoTask]
     /\ jrs' = [jrs EXCEPT ![h] = <<UnknownReport>>]
     /\ UNCHANGED killed

\* do_signal_queue()
ReceiveSignal(h) ==
  /\ HasMessage(h) /\ Message(h).tag = "TAG_SIGJOB"
  /\ Take(h)
  /\ toMaster' = [toMaster EXCEPT ![h] = Append(@, [tag |-> "ACK_SIGJOB"])]
  /\ KillJob(h)
  /\ UNCHANGED <<up, phase, task, alive, starts, faults>>

\* remove_acked_job_exit(): the first entry goes, and the job with it.  The
\* entry is not tested for JEXITING.
RemoveAckedJobExit(h) ==
  \/ /\ jrs[h] = <<>>
     /\ UNCHANGED <<task, disk, jrs>>
  \/ /\ jrs[h] # <<>>
     /\ jrs' = [jrs EXCEPT ![h] = IF task[h] = NoTask THEN <<>> ELSE Tail(@)]
     /\ task' = [task EXCEPT ![h] = NoTask]
     /\ disk' = [disk EXCEPT ![h] = NoTask]

\* do_ack(), which takes the acknowledgements of a message one by one.
ReceiveAck(h) ==
  /\ phase[h] \in {"wait", "acks"} /\ toExecd[h] # <<>>
  /\ Message(h).tag = "TAG_ACK_REQUEST"
  /\ \/ /\ Len(Message(h).acks) = 1
        /\ Take(h)
        /\ phase' = [phase EXCEPT ![h] = "wait"]
     \/ /\ Len(Message(h).acks) > 1
        /\ toExecd' = [toExecd EXCEPT
             ![h] = <<[Message(h) EXCEPT !.acks = Tail(@)]>> \o Tail(@)]
        /\ phase' = [phase EXCEPT ![h] = "acks"]
  /\ \/ /\ Head(Message(h).acks) = "ACK_JOB_EXIT"
        /\ RemoveAckedJobExit(h)
        /\ UNCHANGED killed
     \/ /\ Head(Message(h).acks) = "ACK_SIGNAL_JOB"
        /\ KillJob(h)
        /\ UNCHANGED task
  /\ UNCHANGED <<up, toMaster, alive, starts, faults>>

-----------------------------------------------------------------------------
(* Cyclic work                                                               *)

\* sge_start_jobs() and exec_job_or_task(): a job that is idle is started, or
\* reported as not startable.
StartJobs(h) ==
  /\ phase[h] = "start"
  /\ task' = [task EXCEPT ![h].status = "JRUNNING"]
  /\ \/ /\ starts[task[h].run] < 2
        /\ alive' = [alive EXCEPT ![h] = @ \cup {task[h].run}]
        /\ starts' = [starts EXCEPT ![task[h].run] = @ + 1]
        /\ phase' = [phase EXCEPT ![h] = "save"]
        /\ UNCHANGED jrs
     \/ /\ "reported" \in Refusals
        /\ jrs' = [jrs EXCEPT ![h] = SetFirst(@, ExitReport(task[h].run, "again"))]
        /\ phase' = [phase EXCEPT ![h] = "wait"]
        /\ UNCHANGED <<alive, starts>>
  /\ UNCHANGED <<up, toExecd, toMaster, disk, killed, faults>>

\* "now save this job so we are up to date on restart"
SaveSpool(h) ==
  /\ phase[h] = "save"
  /\ disk' = [disk EXCEPT ![h] = task[h]]
  /\ phase' = [phase EXCEPT ![h] = "wait"]
  /\ UNCHANGED <<up, toExecd, toMaster, task, jrs, alive, killed, starts, faults>>

\* A shepherd ends, because its job did or because of the signal.
ProcessEnds(h, r) ==
  /\ r \in alive[h]
  /\ alive' = [alive EXCEPT ![h] = @ \ {r}]
  /\ killed' = [killed EXCEPT ![h] = @ \ {r}]
  /\ UNCHANGED <<up, toExecd, toMaster, phase, task, disk, jrs, starts, faults>>

\* Mutant: the exit is added to the entry that is there.
ReapAddsReport(h) ==
  /\ phase[h] = "wait"
  /\ task[h] # NoTask /\ task[h].status = "JRUNNING"
  /\ starts[task[h].run] > 0 /\ task[h].run \notin alive[h]
  /\ jrs[h] # <<>> => jrs[h][1].state # "JEXITING"
  /\ jrs' = [jrs EXCEPT ![h] = Append(@, ExitReport(task[h].run, "done"))]
  /\ UNCHANGED <<up, toExecd, toMaster, phase, task, disk, alive, killed, starts, faults>>

\* sge_reap_children_execd(), or clean_up_old_jobs() for the shepherds of an
\* earlier execd.  The outcome is the exit status of the job.
Reap(h) ==
  /\ phase[h] = "wait"
  /\ task[h] # NoTask /\ task[h].status = "JRUNNING"
  /\ starts[task[h].run] > 0 /\ task[h].run \notin alive[h]
  /\ jrs[h] # <<>> => jrs[h][1].state # "JEXITING"
  /\ \E outcome \in {"done", "again"} :
       jrs' = [jrs EXCEPT ![h] = SetFirst(@, ExitReport(task[h].run, outcome))]
  /\ UNCHANGED <<up, toExecd, toMaster, phase, task, disk, alive, killed, starts, faults>>

\* The entries a report may carry: the whole list, or only the entries that
\* are marked to be flushed, or a load report alone.
Reported(h) ==
  {jrs[h]} \cup (IF PartialReports
                   THEN {<<>>} \cup {<<jrs[h][i]>> : i \in DOMAIN jrs[h]}
                   ELSE {})

\* When the next report is due, the messages to the host and its last report
\* have been handled.
Handled(h) ==
  /\ toExecd[h] = <<>>
  /\ \A i \in DOMAIN toMaster[h] : toMaster[h][i].tag # "TAG_REPORT_REQUEST"

\* sge_send_all_reports()
SendReport(h) ==
  /\ h \in up /\ phase[h] = "wait"
  /\ Prompt => Handled(h)
  /\ Room(h)
  /\ \E list \in Reported(h) :
       toMaster' = [toMaster EXCEPT
         ![h] = Append(@, [tag |-> "TAG_REPORT_REQUEST", jrs |-> list])]
  /\ UNCHANGED <<up, toExecd, evars>>

-----------------------------------------------------------------------------
(* Faults                                                                    *)

Fault(h, fault) ==
  /\ fault \in Faults /\ faults < MaxFault
  /\ faults' = faults + 1
  /\ h \in up
  /\ up' = up \ {h}
  /\ toExecd' = [toExecd EXCEPT ![h] = <<>>]
  /\ toMaster' \in {toMaster, [toMaster EXCEPT ![h] = <<>>]}

\* The daemon dies; the shepherds and their jobs live on.
Crash(h) ==
  /\ Fault(h, "crash")
  /\ phase' = [phase EXCEPT ![h] = "dead"]
  /\ task' = [task EXCEPT ![h] = NoTask]
  /\ jrs' = [jrs EXCEPT ![h] = <<>>]
  /\ UNCHANGED <<disk, alive, killed, starts>>

\* The connection breaks between two messages.
Disconnect(h) ==
  /\ phase[h] = "wait"
  /\ Fault(h, "disconnect")
  /\ UNCHANGED <<phase, task, disk, jrs, alive, killed, starts>>

\* job_initialize_job() and examine_job_task_from_file() at startup: what the
\* daemon reports about the job in its spool file.
FoundOnStartup(h) ==
  LET r == disk[h].run
  IN CASE starts[r] = 0 -> {<<ExitReport(r, "again")>>}
       [] r \in alive[h] -> {<<RunningReport(r)>>}
       [] OTHER -> {<<ExitReport(r, outcome)>> : outcome \in {"done", "again"}}

\* jobs_to_start is set when the daemon starts.
Restart(h) ==
  /\ phase[h] = "dead"
  /\ up' = up \cup {h}
  /\ task' = [task EXCEPT ![h] = disk[h]]
  /\ \/ /\ disk[h] = NoTask
        /\ phase' = [phase EXCEPT ![h] = "wait"]
        /\ UNCHANGED jrs
     \/ /\ disk[h] # NoTask
        /\ phase' = [phase EXCEPT ![h] = IF disk[h].status = "JIDLE" THEN "start" ELSE "wait"]
        /\ \E list \in FoundOnStartup(h) : jrs' = [jrs EXCEPT ![h] = list]
  /\ UNCHANGED <<toExecd, toMaster, disk, alive, killed, starts, faults>>

Reconnect(h) ==
  /\ h \notin up /\ phase[h] # "dead"
  /\ up' = up \cup {h}
  /\ UNCHANGED <<toExecd, toMaster, evars>>

ExecdStep(h) ==
  \/ ReceiveJob(h) \/ ReceiveSignal(h) \/ ReceiveAck(h)
  \/ StartJobs(h) \/ SaveSpool(h)
  \/ \E r \in Run : ProcessEnds(h, r)
  \/ Reap(h) \/ SendReport(h)
  \/ Crash(h) \/ Disconnect(h) \/ Restart(h) \/ Reconnect(h)
=============================================================================
