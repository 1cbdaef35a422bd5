----------------------------- MODULE JobMessages -----------------------------
(***************************************************************************)
(* The connections between the qmaster and the execution daemons, as far   *)
(* as one serial, rerunnable job is concerned.  Both directions keep the   *)
(* order of the messages; what an execd has not read when it dies is lost. *)
(*                                                                         *)
(* "run" is a history value: it numbers the attempts to run the job.  The  *)
(* messages of the program carry only the job's id, so no guard of the     *)
(* two daemons may depend on it.                                           *)
(***************************************************************************)
EXTENDS Naturals, Sequences

CONSTANTS Host,      \* the execution hosts
          MaxRun,    \* bound: attempts to run the job
          MaxMsg     \* bound: messages between the qmaster and a host

ASSUME MaxRunAssumption == MaxRun \in Nat \ {0}
ASSUME MaxMsgAssumption == MaxMsg \in Nat \ {0}

VARIABLES up,        \* the hosts whose execd is running and connected
          toExecd,   \* host -> messages from the qmaster
          toMaster   \* host -> messages from the execd

Run == 1 .. MaxRun

\* One entry of a job report (JR_Type): what an execd says about the job.  The
\* states JWRITTEN, JWAITING4OSJID and JRUNNING are the same to the qmaster.
\* "outcome" stands for JR_failed: "done" ends the job, "again" runs it again.
JobReport ==
  [run : {0} \cup Run, state : {"JRUNNING"}, outcome : {"none"}]
    \cup [run : {0} \cup Run, state : {"JEXITING"}, outcome : {"done", "again"}]

Ack == {"ACK_JOB_EXIT", "ACK_SIGNAL_JOB"}

ExecdMessage ==
  [tag : {"TAG_JOB_EXECUTION"}, run : Run]
    \cup [tag : {"TAG_SIGJOB"}]
    \cup [tag : {"TAG_ACK_REQUEST"}, acks : Seq(Ack)]

MasterMessage ==
  [tag : {"TAG_REPORT_REQUEST"}, jrs : Seq(JobReport)]
    \cup [tag : {"ACK_SIGJOB"}]

\* The bound is on what a side sends of its own accord.  An answer takes the
\* place of the message it answers, and needs no room.
Room(h) == Len(toExecd[h]) + Len(toMaster[h]) < MaxMsg

MessagesInit ==
  /\ up = Host
  /\ toExecd = [h \in Host |-> <<>>]
  /\ toMaster = [h \in Host |-> <<>>]

MessagesTypeOK ==
  /\ up \subseteq Host
  /\ toExecd \in [Host -> Seq(ExecdMessage)]
  /\ toMaster \in [Host -> Seq(MasterMessage)]
=============================================================================
