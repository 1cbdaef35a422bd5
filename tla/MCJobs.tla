------------------------------- MODULE MCJobs -------------------------------
(* Two small environments of JobProtocol.  In the calm one messages are      *)
(* prompt and reports full, and there are many of them; in the rough one an  *)
(* execd may refuse the job, report it or not and lose its connection.       *)
(* subject says which one a behaviour is of.                                 *)
EXTENDS MCJobProtocol

VARIABLE subject

Rough ==
  INSTANCE JobProtocol WITH
    MaxRun <- 2, MaxMsg <- 1, MaxFault <- 1, Faults <- {"disconnect"},
    PartialReports <- TRUE, Prompt <- FALSE, Refusals <- {"reported", "silent"}

jobsVars == <<vars, subject>>

JobsInit == Init /\ subject \in {"calm", "rough"}

JobsNext ==
  /\ \/ subject = "calm" /\ Next
     \/ subject = "rough" /\ Rough!Next
  /\ UNCHANGED subject

JobsSpec == JobsInit /\ [][JobsNext]_jobsVars

\* The rough environment has one host.
SmallEnough ==
  IF subject = "calm" THEN OneHostOrShort ELSE \E h \in Host : Untouched(h)

-----------------------------------------------------------------------------
\* get_job_report() finds the first entry of a job: with two of them the exit
\* of one run would be acknowledged as the exit of the other.
AtMostOneReport == subject = "calm" => \A h \in Host : Len(jrs[h]) <= 1

\* When a job report ends the current run of the job, the processes of this
\* run are gone: the report is not one of an earlier run.
ExitMeansEnded ==
  [][\A h \in Host :
       subject = "calm" /\ ReceiveReport(h) /\ ja.status \in Sent /\ ja'.status \notin Sent
         => ja.run \notin alive[ja.host]]_vars
=============================================================================
