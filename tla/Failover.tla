------------------------------ MODULE Failover ------------------------------
(***************************************************************************)
(* The shadow daemons, which start a new qmaster when the running one      *)
(* fails (daemons/shadowd/shadowd.c), and what a qmaster does with the     *)
(* files they share: the heartbeat, the lock and the act_qmaster file      *)
(* (sge_qmaster_main.c, setup_qmaster.c, sge_qmaster_heartbeat.c).         *)
(*                                                                         *)
(* One step reads or writes one file, or asks one qmaster whether it runs. *)
(* The heartbeat is kept modulo CheckEvery; whether two of its readings    *)
(* are the same is kept in unchanged and stillOld.                         *)
(***************************************************************************)
EXTENDS Naturals

CONSTANTS Host,        \* each has a shadow daemon and may have a qmaster
          First,       \* the host of the first qmaster
          CheckEvery,  \* 20, a qmaster looks at the act_qmaster file every so many beats
          MaxMishap    \* bound of the crashes and hang-ups

ASSUME HostAssumption  == First \in Host
ASSUME CheckAssumption == CheckEvery \in Nat \ {0}

VARIABLES lockFile,    \* QMASTER_LOCK_FILE exists
          actQmaster,  \* the name in the act_qmaster file
          beat,        \* the number in the heartbeat file
          qmaster,     \* where the qmaster of a host is
          exitState,   \* Main_Control.exit_state of it
          hung,        \* hosts that hang,
          wasHung,     \* and those that ever did
          stage,       \* where the shadow daemon of a host is
          unchanged,   \* its last_heartbeat is still the number in the file
          stillOld,    \* and so is its heartbeat
          oldQmaster,  \* the name it has read
          mishaps

files == <<lockFile, actQmaster, beat>>
masters == <<qmaster, exitState, hung, wasHung, mishaps>>
shadows == <<stage, oldQmaster>>
readings == <<unchanged, stillOld>>
failoverVars == <<files, masters, shadows, readings>>

Starting == {"started", "boots", "unlocks", "names"}

\* The shadow daemon has not made the lock file.
Idle == {"sleeps", "finds", "reads", "bids"}

FailoverInit ==
  /\ lockFile = FALSE /\ actQmaster = First /\ beat = 0
  /\ qmaster = [h \in Host |-> IF h = First THEN "runs" ELSE "none"]
  /\ exitState = [h \in Host |-> 0]
  /\ hung = {} /\ wasHung = {} /\ mishaps = 0
  /\ stage = [h \in Host |-> "sleeps"]
  /\ unchanged = [h \in Host |-> TRUE] /\ stillOld = [h \in Host |-> FALSE]
  /\ oldQmaster = [h \in Host |-> h]

GoOn(h, to) == qmaster' = [qmaster EXCEPT ![h] = to]
Step(h, to) == stage' = [stage EXCEPT ![h] = to]

-----------------------------------------------------------------------------
(* The qmaster                                                               *)

\* inc_qmaster_heartbeat()
Increment ==
  /\ beat' = (beat + 1) % CheckEvery
  /\ unchanged' = [s \in Host |-> FALSE] /\ stillOld' = [s \in Host |-> FALSE]

\* (A slip of Answers: no answer in time is taken for an answer.)
AnswersLate(m) == qmaster[m] \notin {"none", "started"}

\* A qmaster answers once its commlib is up.
Answers(m) == m \notin hung /\ qmaster[m] \notin {"none", "started"}

\* prepare_enroll() of the new qmaster: its commlib is up, and it ends at once
\* if the one on the host in the act_qmaster file is alive.  The lock file stays.
Enroll(h) ==
  /\ qmaster[h] = "started" /\ h \notin hung
  /\ GoOn(h, IF actQmaster # h /\ Answers(actQmaster) THEN "none" ELSE "boots")
  /\ UNCHANGED <<files, exitState, hung, wasHung, mishaps, shadows, readings>>

\* main() of the qmaster: the startup heartbeat
Boot(h) ==
  /\ qmaster[h] = "boots" /\ h \notin hung
  /\ Increment /\ GoOn(h, "unlocks")
  /\ UNCHANGED <<lockFile, actQmaster, exitState, hung, wasHung, mishaps, shadows>>

\* sge_setup_qmaster(): the lock file is removed, whoever has made it, ...
Unlock(h) ==
  /\ qmaster[h] = "unlocks" /\ h \notin hung
  /\ lockFile' = FALSE /\ GoOn(h, "names")
  /\ UNCHANGED <<actQmaster, beat, exitState, hung, wasHung, mishaps, shadows, readings>>

\* ... and the act_qmaster file is written.
WriteName(h) ==
  /\ qmaster[h] = "names" /\ h \notin hung
  /\ actQmaster' = h /\ GoOn(h, "runs")
  /\ UNCHANGED <<lockFile, beat, exitState, hung, wasHung, mishaps, shadows, readings>>

\* increment_heartbeat() of the timer thread, which ends after the workers: a
\* qmaster that finds another name in the file starts its shutdown.  It looks
\* at every CheckEvery-th beat, and when inc_qmaster_heartbeat() has failed,
\* with the file written or not.
Beat(h) ==
  /\ qmaster[h] \in {"runs", "ends"} /\ h \notin hung
  /\ \E failed \in BOOLEAN :
       /\ Increment \/ (failed /\ UNCHANGED <<beat, readings>>)
       /\ IF (failed \/ beat' = 0) /\ actQmaster # h THEN GoOn(h, "ends100") ELSE UNCHANGED qmaster
  /\ UNCHANGED <<lockFile, actQmaster, exitState, hung, wasHung, mishaps, shadows>>

\* sge_qmaster_shutdown_via_signal_thread(): the signal is sent first, and then
\* the exit state is set.
SetExitState(h) ==
  /\ qmaster[h] = "ends100" /\ h \notin hung
  /\ exitState' = [exitState EXCEPT ![h] = 100] /\ GoOn(h, "ends")
  /\ UNCHANGED <<files, hung, wasHung, mishaps, shadows, readings>>

\* qconf -km
Shutdown(h) ==
  /\ qmaster[h] = "runs" /\ h \notin hung
  /\ GoOn(h, "ends")
  /\ UNCHANGED <<files, exitState, hung, wasHung, mishaps, shadows, readings>>

\* sge_qmaster_do_final_spooling()
DoesFinalSpooling(h) == exitState[h] = 100

\* sge_worker_terminate(), with or without final spooling
TerminateWorkers(h) ==
  /\ qmaster[h] \in {"ends", "ends100"} /\ h \notin hung
  /\ GoOn(h, IF DoesFinalSpooling(h) THEN "spooled" ELSE "closed")
  /\ UNCHANGED <<files, exitState, hung, wasHung, mishaps, shadows, readings>>

\* qmaster_lock_and_shutdown(): a lock file is made in a regular shutdown.
Exit(h) ==
  /\ qmaster[h] \in {"spooled", "closed"} /\ h \notin hung
  /\ lockFile' = (lockFile \/ exitState[h] = 0)
  /\ GoOn(h, "none") /\ exitState' = [exitState EXCEPT ![h] = 0]
  /\ UNCHANGED <<actQmaster, beat, hung, wasHung, mishaps, shadows, readings>>

\* An administrator starts a qmaster after a regular shutdown.
Restart(h) ==
  /\ lockFile /\ \A s \in Host : qmaster[s] = "none" /\ stage[s] \in Idle
  /\ GoOn(h, "started")
  /\ UNCHANGED <<files, exitState, hung, wasHung, mishaps, shadows, readings>>

Crash(h) ==
  /\ mishaps < MaxMishap /\ qmaster[h] # "none" /\ h \notin hung
  /\ mishaps' = mishaps + 1
  /\ GoOn(h, "none") /\ exitState' = [exitState EXCEPT ![h] = 0]
  /\ UNCHANGED <<files, hung, wasHung, shadows, readings>>

\* The host or its network hangs, with the qmaster, and comes back.
HangUp(h) ==
  /\ mishaps < MaxMishap /\ qmaster[h] = "runs" /\ h \notin hung
  /\ mishaps' = mishaps + 1
  /\ hung' = hung \cup {h} /\ wasHung' = wasHung \cup {h}
  /\ UNCHANGED <<files, qmaster, exitState, shadows, readings>>

ComeBack(h) ==
  /\ h \in hung /\ hung' = hung \ {h}
  /\ UNCHANGED <<files, qmaster, exitState, wasHung, mishaps, shadows, readings>>

-----------------------------------------------------------------------------
(* The shadow daemon                                                         *)

\* The shadow daemon goes on, or sleeps again: what it has read is read anew
\* the next time.
ShadowGoesOn(h, to) == Step(h, to) /\ UNCHANGED <<oldQmaster, stillOld>>
ShadowSleeps(h) ==
  /\ Step(h, "sleeps")
  /\ oldQmaster' = [oldQmaster EXCEPT ![h] = h] /\ stillOld' = [stillOld EXCEPT ![h] = FALSE]

\* It compares the heartbeat with the one of the last interval, of 240 seconds
\* at least.  A qmaster that does not hang has incremented it, or ended, by
\* then, also when it has failed to do so now and then.
ReadHeartbeat(h) ==
  /\ stage[h] = "sleeps" /\ h \notin hung
  /\ \/ ~unchanged[h] /\ UNCHANGED <<shadows, stillOld>>
     \/ /\ unchanged[h]
        /\ \A m \in Host \ hung : qmaster[m] = "none"
        /\ Step(h, "finds") /\ stillOld' = [stillOld EXCEPT ![h] = TRUE]
        /\ UNCHANGED oldQmaster
  /\ unchanged' = [unchanged EXCEPT ![h] = TRUE]
  /\ UNCHANGED <<files, masters>>

\* check_if_valid_shadow(): there must be no lock file ...
CheckLock(h) ==
  /\ stage[h] = "finds" /\ h \notin hung
  /\ IF lockFile THEN ShadowSleeps(h) ELSE ShadowGoesOn(h, "reads")
  /\ UNCHANGED <<files, masters, unchanged>>

\* ... and the qmaster must have run on another host.
ReadName(h) ==
  /\ stage[h] = "reads" /\ h \notin hung
  /\ IF actQmaster = h
       THEN ShadowSleeps(h)
       ELSE /\ oldQmaster' = [oldQmaster EXCEPT ![h] = actQmaster]
            /\ Step(h, "bids") /\ UNCHANGED stillOld
  /\ UNCHANGED <<files, masters, unchanged>>

\* qmaster_lock(): the file is created, unless it exists.
Bid(h) ==
  /\ stage[h] = "bids" /\ h \notin hung
  /\ lockFile' = TRUE
  /\ IF lockFile THEN ShadowSleeps(h) ELSE ShadowGoesOn(h, "rereads")
  /\ UNCHANGED <<actQmaster, beat, masters, unchanged>>

\* (A slip of HeartbeatIsOld: the file is not read again.)
HeartbeatIsAssumedOld(h) == TRUE

\* latest_heartbeat == heartbeat
HeartbeatIsOld(h) == stillOld[h]

RereadHeartbeat(h) ==
  /\ stage[h] = "rereads" /\ h \notin hung
  /\ ShadowGoesOn(h, IF HeartbeatIsOld(h) THEN "compares" ELSE "gives up")
  /\ UNCHANGED <<files, masters, unchanged>>

\* compare_qmaster_names()
CompareNames(h) ==
  /\ stage[h] = "compares" /\ h \notin hung
  /\ ShadowGoesOn(h, IF actQmaster = oldQmaster[h] THEN "asks" ELSE "gives up")
  /\ UNCHANGED <<files, masters, unchanged>>

\* shadowd_is_old_master_enrolled()
AskOldMaster(h) ==
  /\ stage[h] = "asks" /\ h \notin hung
  /\ ShadowGoesOn(h, IF Answers(oldQmaster[h]) THEN "gives up" ELSE "starts")
  /\ UNCHANGED <<files, masters, unchanged>>

GiveUp(h) ==
  /\ stage[h] = "gives up" /\ h \notin hung
  /\ lockFile' = FALSE
  /\ ShadowSleeps(h)
  /\ UNCHANGED <<actQmaster, beat, masters, unchanged>>

\* startprog().  The lock file stays, also if there is a qmaster on the host
\* that has the port.
StartQmaster(h) ==
  /\ stage[h] = "starts" /\ h \notin hung
  /\ IF qmaster[h] = "none" THEN GoOn(h, "started") ELSE UNCHANGED qmaster
  /\ ShadowSleeps(h)
  /\ UNCHANGED <<files, exitState, hung, wasHung, mishaps, unchanged>>

-----------------------------------------------------------------------------
QmasterRuns(h) ==
  \/ Enroll(h) \/ Boot(h) \/ Unlock(h) \/ WriteName(h) \/ Beat(h)
  \/ SetExitState(h) \/ TerminateWorkers(h) \/ Exit(h)
ShadowRuns(h) ==
  \/ ReadHeartbeat(h) \/ CheckLock(h) \/ ReadName(h) \/ Bid(h)
  \/ RereadHeartbeat(h) \/ CompareNames(h) \/ AskOldMaster(h) \/ GiveUp(h) \/ StartQmaster(h)

FailoverNext ==
  \E h \in Host :
    \/ QmasterRuns(h) \/ ShadowRuns(h)
    \/ Shutdown(h) \/ Restart(h) \/ Crash(h) \/ HangUp(h) \/ ComeBack(h)

FailoverSpec == FailoverInit /\ [][FailoverNext]_failoverVars

\* The daemons run on.  Nobody need shut down, restart or free a qmaster.
FailoverFairness ==
  \A h \in Host : WF_failoverVars(QmasterRuns(h)) /\ WF_failoverVars(ShadowRuns(h))

FailoverFairSpec == FailoverSpec /\ FailoverFairness

-----------------------------------------------------------------------------
ShadowStage == Idle \cup {"rereads", "compares", "asks", "starts", "gives up"}

FailoverTypeOK ==
  /\ lockFile \in BOOLEAN /\ actQmaster \in Host /\ beat \in 0 .. CheckEvery - 1
  /\ qmaster \in [Host -> Starting \cup {"none", "runs", "ends100", "ends", "spooled", "closed"}]
  /\ exitState \in [Host -> {0, 100}]
  /\ hung \subseteq wasHung /\ wasHung \subseteq Host /\ mishaps \in Nat
  /\ stage \in [Host -> ShadowStage]
  /\ unchanged \in [Host -> BOOLEAN] /\ stillOld \in [Host -> BOOLEAN]
  /\ oldQmaster \in [Host -> Host]

\* "They run a protocol which ensures that only one of them will start-up a
\* new master daemon": there are never two qmasters, but for one that hangs or
\* has done so and has been replaced.
OneQmaster ==
  \A g, h \in Host \ wasHung :
    qmaster[g] \in Starting \cup {"runs"} /\ qmaster[h] \in Starting \cup {"runs"} => g = h

\* There is a lock file and nobody who removes it: after a regular shutdown, or
\* when a qmaster has died, or a host hangs, before it did so.
LockedForGood ==
  lockFile /\ \A h \in Host \ hung : qmaster[h] = "none" /\ stage[h] \in Idle

\* When no qmaster is there, but for one that hangs, another one takes over,
\* whatever the shadow daemons do to each other, unless the files are locked.
AnotherTakesOver ==
  (\A h \in Host \ hung : qmaster[h] = "none")
    ~> LockedForGood \/ \E h \in Host \ hung : qmaster[h] = "runs"

\* A qmaster that has been replaced does not write its data over those of the
\* new one: "in that case we would overwrite data which might have already
\* changed in the second instance of the master".
ReplacedDoesNotSpool ==
  [][\A h \in Host : qmaster'[h] = "spooled" /\ qmaster[h] # "spooled" => actQmaster = h]_failoverVars
=============================================================================
