-------------------------- MODULE JobProtocolProofs --------------------------
(***************************************************************************)
(* Theorems about JobProtocol for any number of hosts, runs, messages and  *)
(* faults: what the qmaster keeps of the job, whatever the messages of the *)
(* execution daemons say; what the daemons keep of it; the type invariant; *)
(* and, as long as no daemon dies, that no run is started twice.           *)
(***************************************************************************)
EXTENDS JobProtocol, SequenceTheorems, TLAPS

Ended == {"JFINISHED", "buried"}

\* What the inductive invariant says of a state that commits work on.
Sound(s) ==
  /\ s = [ja |-> s.ja, resend |-> s.resend, ru |-> s.ru, acks |-> s.acks]
  /\ s.ja \in JaTask
  /\ s.resend \in Nat
  /\ s.ja.status \in Sent => s.ja.host \in Host
  /\ s.ja.status = "JTRANSFERING" => s.resend > 0 \/ firing = 1
  /\ Deleted(s.ja) => s.ja.status # "JIDLE"

\* What no commit may do to the job, and to the acknowledgements.
Keeps(s, t) ==
  /\ t.ja.run = s.ja.run
  /\ t.ja.status \in Sent => s.ja.status \in Sent
  /\ s.acks \in Seq(Ack) => t.acks \in Seq(Ack)
  /\ s.ja.status \in Ended => t.ja.status \in Ended
  /\ Deleted(s.ja) => Deleted(t.ja) /\ t.ja.status # "JIDLE"

Fine(s, t) == Sound(t) /\ Keeps(s, t)

LEMMA FineReflexive ==
  ASSUME NEW s, Sound(s)
  PROVE  Fine(s, s)
BY DEF Fine, Sound, Keeps

LEMMA FineTransitive ==
  ASSUME NEW s, NEW t, NEW u, Fine(s, t), Fine(t, u)
  PROVE  Fine(s, u)
BY DEF Fine, Keeps

LEMMA ListFine ==
  ASSUME NEW s, NEW h, NEW list, Sound(s)
  PROVE  Fine(s, WithList(s, h, list))
<1> DEFINE t == WithList(s, h, list)
<1>1. /\ t = [ja |-> t.ja, resend |-> t.resend, ru |-> t.ru, acks |-> t.acks]
      /\ t.ja = s.ja /\ t.resend = s.resend /\ t.acks = s.acks
  BY DEF Sound, WithList
<1> QED BY <1>1 DEF Fine, Sound, Keeps

LEMMA AckFine ==
  ASSUME NEW s, NEW ack \in Ack, Sound(s)
  PROVE  Fine(s, SendAck(s, ack))
<1> DEFINE list == Append(s.acks, ack)
           t == [s EXCEPT !.acks = list]
<1>1. SendAck(s, ack) = t BY DEF SendAck
<1>3. s.acks \in Seq(Ack) => list \in Seq(Ack)
  OBVIOUS
<1> HIDE DEF list
<1>2. /\ t = [ja |-> t.ja, resend |-> t.resend, ru |-> t.ru, acks |-> t.acks]
      /\ t.ja = s.ja /\ t.resend = s.resend /\ t.acks = list
  BY DEF Sound
<1> QED BY <1>1, <1>2, <1>3 DEF Fine, Sound, Keeps

LEMMA TaskFields ==
  ASSUME NEW s, NEW j, Sound(s)
  PROVE  LET t == WithTask(s, j)
         IN /\ t = [ja |-> t.ja, resend |-> t.resend, ru |-> t.ru, acks |-> t.acks]
            /\ t.ja = j /\ t.resend = s.resend /\ t.acks = s.acks
BY DEF Sound, WithTask

\* Cancelling the delivery timers leaves everything else alone.
LEMMA CancelFields ==
  ASSUME NEW s,
         s = [ja |-> s.ja, resend |-> s.resend, ru |-> s.ru, acks |-> s.acks]
  PROVE  LET t == [s EXCEPT !.resend = 0]
         IN /\ t = [ja |-> t.ja, resend |-> t.resend, ru |-> t.ru, acks |-> t.acks]
            /\ t.ja = s.ja /\ t.resend = 0 /\ t.ru = s.ru /\ t.acks = s.acks
OBVIOUS

\* Finish and Reschedule take a sent job out of JTRANSFERING, so that its
\* timers may be gone by then.
Sendable(s) ==
  /\ s = [ja |-> s.ja, resend |-> s.resend, ru |-> s.ru, acks |-> s.acks]
  /\ s.ja \in JaTask /\ s.resend \in Nat

LEMMA FinishFine ==
  ASSUME NEW s, Sendable(s)
  PROVE  Fine(s, Finish(s)) /\ Finish(s).ja.status = "JFINISHED"
<1> DEFINE j == [s.ja EXCEPT !.status = "JFINISHED", !.host = NoHost]
           lists == [h \in Host |-> IF s.ru[h] = <<>> THEN <<>> ELSE Tail(s.ru[h])]
           finished == WithTask(s, j)
           t == [finished EXCEPT !.ru = lists]
<1>1. Finish(s) = t BY DEF Finish
<1>2. j \in JaTask /\ j.status = "JFINISHED" /\ j.run = s.ja.run /\ j.state = s.ja.state
  BY DEF Sendable, JaTask, Status
<1> HIDE DEF j, lists
<1>3. /\ finished = [ja |-> j, resend |-> s.resend, ru |-> s.ru, acks |-> s.acks]
  BY DEF Sendable, WithTask
<1> HIDE DEF finished
<1>4. t = [ja |-> j, resend |-> s.resend, ru |-> lists, acks |-> s.acks]
  BY <1>3
<1> HIDE DEF t
<1>5. Sound(t) BY <1>2, <1>4 DEF Sound, Sendable, Sent, Deleted
<1>6. Keeps(s, t) BY <1>2, <1>4 DEF Keeps, Ended, Deleted, Sent
<1>7. t.ja.status = "JFINISHED" BY <1>2, <1>4
<1> QED BY <1>1, <1>5, <1>6, <1>7 DEF Fine

LEMMA RescheduleFine ==
  ASSUME NEW s, Sendable(s), s.ja.status \in Sent, ~Deleted(s.ja)
  PROVE  Fine(s, Reschedule(s)) /\ Reschedule(s).ja.status = "JIDLE"
<1> DEFINE j == [s.ja EXCEPT !.status = "JIDLE", !.host = NoHost,
                             !.state = @ \cap {"JDEFERRED_REQ"}]
           t == WithTask(s, j)
<1>1. /\ t = [ja |-> t.ja, resend |-> t.resend, ru |-> t.ru, acks |-> t.acks]
      /\ t.ja = j /\ t.resend = s.resend /\ t.acks = s.acks
  BY DEF Sendable, WithTask
<1>2. j \in JaTask /\ j.status = "JIDLE" /\ j.run = s.ja.run
  BY DEF Sendable, JaTask, Status
<1>3. j.state = s.ja.state \cap {"JDEFERRED_REQ"}
  BY DEF Sendable, JaTask
<1>4. ~Deleted(j) BY <1>3 DEF Deleted
<1>5. Reschedule(s) = WithList(t, s.ja.host, Append(s.ru[s.ja.host], SKIP_JR))
  BY DEF Reschedule
<1> HIDE DEF j, t
<1>6. Sound(t) BY <1>1, <1>2, <1>4 DEF Sound, Sendable, Sent
<1>7. Keeps(s, t) BY <1>1, <1>2 DEF Keeps, Ended, Sent
<1>8. Reschedule(s).ja = t.ja BY <1>1, <1>5 DEF WithList
<1> QED BY <1>1, <1>2, <1>5, <1>6, <1>7, <1>8, ListFine, FineTransitive DEF Fine

LEMMA JobExitFine ==
  ASSUME NEW s, NEW outcome, Sound(s)
  PROVE  Fine(s, JobExit(s, outcome)) /\ JobExit(s, outcome).ja.status \notin Sent
<1> DEFINE c == [s EXCEPT !.resend = 0]
<1>1. /\ c = [ja |-> c.ja, resend |-> c.resend, ru |-> c.ru, acks |-> c.acks]
      /\ c.ja = s.ja /\ c.resend = 0 /\ c.acks = s.acks
  BY CancelFields DEF Sound
<1>2. JobExit(s, outcome) = IF s.ja.status \notin Sent THEN c
                            ELSE IF Deleted(s.ja) \/ outcome = "done" THEN Finish(c)
                            ELSE Reschedule(c)
  BY DEF JobExit
<1> HIDE DEF c
<1>3. Sendable(c) BY <1>1 DEF Sendable, Sound
<1>4. \A u : Fine(c, u) => Fine(s, u) BY <1>1 DEF Fine, Keeps
<1>5. CASE s.ja.status \notin Sent
  <2>1. Sound(c) BY <1>1, <1>5 DEF Sound, Sent
  <2> QED BY <2>1, <1>1, <1>2, <1>4, <1>5, FineReflexive
<1>6. CASE s.ja.status \in Sent /\ (Deleted(s.ja) \/ outcome = "done")
  BY <1>2, <1>3, <1>4, <1>6, FinishFine DEF Sent
<1>7. CASE s.ja.status \in Sent /\ ~(Deleted(s.ja) \/ outcome = "done")
  BY <1>1, <1>2, <1>3, <1>4, <1>7, RescheduleFine DEF Sent
<1> QED BY <1>5, <1>6, <1>7

-----------------------------------------------------------------------------
(* Job reports                                                               *)

LEMMA UndeferredFine ==
  ASSUME NEW s, Sound(s)
  PROVE  Fine(s, Undeferred(s))
<1> DEFINE j == [s.ja EXCEPT !.state = @ \ {"JDEFERRED_REQ"}]
           t == WithTask(s, j)
<1>1. Undeferred(s) = t BY DEF Undeferred
<1>2. /\ j \in JaTask /\ j.status = s.ja.status /\ j.run = s.ja.run /\ j.host = s.ja.host
      /\ j.state = s.ja.state \ {"JDEFERRED_REQ"}
  BY DEF Sound, JaTask
<1>3. Deleted(j) <=> Deleted(s.ja) BY <1>2 DEF Deleted
<1> HIDE DEF j
<1>4. /\ t = [ja |-> t.ja, resend |-> t.resend, ru |-> t.ru, acks |-> t.acks]
      /\ t.ja = j /\ t.resend = s.resend /\ t.acks = s.acks
  BY DEF Sound, WithTask
<1> HIDE DEF t
<1> QED BY <1>1, <1>2, <1>3, <1>4 DEF Fine, Sound, Keeps

LEMMA SkipRestartedFine ==
  ASSUME NEW s, NEW h, NEW jr, Sound(s)
  PROVE  Fine(s, SkipRestarted(s, h, jr))
<1> DEFINE back == WithList(s, h, [s.ru[h] EXCEPT ![1] = SKIP_JR])
<1>1. Fine(s, SendAck(back, "ACK_SIGNAL_JOB"))
  <2>1. Fine(s, back) BY ListFine
  <2> HIDE DEF back
  <2> QED BY <2>1, AckFine, FineTransitive DEF Fine, Ack
<1>2. Fine(s, SendAck(Undeferred(s), "ACK_JOB_EXIT"))
  BY UndeferredFine, AckFine, FineTransitive DEF Fine, Ack
<1>3. Fine(s, s) BY FineReflexive
<1>4. SkipRestarted(s, h, jr) \in {SendAck(back, "ACK_SIGNAL_JOB"),
                                  SendAck(Undeferred(s), "ACK_JOB_EXIT"), s}
  BY DEF SkipRestarted
<1> HIDE DEF back
<1> QED BY <1>1, <1>2, <1>3, <1>4

LEMMA ArrivedFine ==
  ASSUME NEW s, Sound(s), s.ja.status = "JTRANSFERING"
  PROVE  Fine(s, Arrived(s))
<1> DEFINE j == [s.ja EXCEPT !.status = "JRUNNING"]
           arrived == WithTask(s, j)
           t == [arrived EXCEPT !.resend = 0]
<1>1. Arrived(s) = t BY DEF Arrived
<1>2. /\ j \in JaTask /\ j.status = "JRUNNING" /\ j.run = s.ja.run /\ j.host = s.ja.host
      /\ j.state = s.ja.state
  BY DEF Sound, JaTask, Status
<1> HIDE DEF j
<1>3. arrived = [ja |-> j, resend |-> s.resend, ru |-> s.ru, acks |-> s.acks]
  BY DEF Sound, WithTask
<1> HIDE DEF arrived
<1>4. t = [ja |-> j, resend |-> 0, ru |-> s.ru, acks |-> s.acks] BY <1>3
<1> HIDE DEF t
<1>5. Sound(t) BY <1>2, <1>4 DEF Sound, Sent, Deleted
<1>6. Keeps(s, t) BY <1>2, <1>4 DEF Keeps, Ended, Deleted, Sent
<1> QED BY <1>1, <1>5, <1>6 DEF Fine

LEMMA RunningFine ==
  ASSUME NEW s, Sound(s)
  PROVE  Fine(s, Running(s))
<1> DEFINE warned == IF Deleted(s.ja) THEN SendAck(s, "ACK_SIGNAL_JOB") ELSE s
<1>1. Fine(s, s) /\ Fine(s, SendAck(s, "ACK_SIGNAL_JOB"))
  BY AckFine, FineReflexive DEF Ack
<1>2. Fine(s, warned) BY <1>1
<1>3. warned.ja = s.ja BY DEF SendAck, Sound
<1>4. Running(s) = CASE s.ja.status = "buried" -> SendAck(s, "ACK_SIGNAL_JOB")
                     [] s.ja.status = "JTRANSFERING" -> Arrived(warned)
                     [] s.ja.status = "JRUNNING" -> warned
                     [] OTHER -> s
  BY DEF Running
<1> HIDE DEF warned
<1>5. s.ja.status = "JTRANSFERING" => Fine(s, Arrived(warned))
  BY <1>2, <1>3, ArrivedFine, FineTransitive DEF Fine
<1> QED BY <1>1, <1>2, <1>4, <1>5

LEMMA ExitedFine ==
  ASSUME NEW s, NEW outcome, Sound(s)
  PROVE  Fine(s, Exited(s, outcome))
<1>1. Fine(s, JobExit(s, outcome)) BY JobExitFine
<1>2. Fine(s, s) BY FineReflexive
<1> QED BY <1>1, <1>2, AckFine, FineTransitive DEF Exited, Fine, Ack

LEMMA JobReportedFine ==
  ASSUME NEW s, NEW h, NEW jr, Sound(s)
  PROVE  Fine(s, JobReported(s, h, jr))
<1>1. JobReported(s, h, jr) \in {SkipRestarted(s, h, jr), Exited(s, jr.outcome), Running(s)}
  BY DEF JobReported
<1> QED BY <1>1, SkipRestartedFine, ExitedFine, RunningFine

\* A whole report, whatever its entries are, does nothing else to the job.
LEMMA ReportFine ==
  ASSUME NEW s, NEW h, NEW list, Sound(s)
  PROVE  Fine(s, ReportResult(s, h, list))
<1>1. Fine(s, Update(s, h)) BY ListFine DEF Update
<1>2. ASSUME NEW t, Sound(t) PROVE Fine(t, ProcessJobReport(t, h, list))
  <2>1. Fine(t, JobReported(t, h, list[1])) BY <1>2, JobReportedFine
  <2>2. Fine(JobReported(t, h, list[1]),
             JobReported(JobReported(t, h, list[1]), h, list[2]))
    BY <2>1, JobReportedFine DEF Fine
  <2>3. Fine(t, JobReported(JobReported(t, h, list[1]), h, list[2]))
    BY <2>1, <2>2, FineTransitive
  <2>4. ProcessJobReport(t, h, list) \in
          {t, JobReported(t, h, list[1]), JobReported(JobReported(t, h, list[1]), h, list[2])}
    BY DEF ProcessJobReport
  <2> QED BY <1>2, <2>1, <2>3, <2>4, FineReflexive
<1>3. ASSUME NEW t, Sound(t) PROVE Fine(t, Purge(t, h))
  BY <1>3, ListFine DEF Purge
<1> DEFINE u == ProcessJobReport(Update(s, h), h, list)
<1>4. Fine(s, u) BY <1>1, <1>2, FineTransitive DEF Fine
<1>5. ReportResult(s, h, list) = Purge(u, h) BY DEF ReportResult
<1> HIDE DEF u
<1> QED BY <1>3, <1>4, <1>5, FineTransitive DEF Fine

-----------------------------------------------------------------------------
(* The inductive invariant, and what every step keeps of the job             *)

MasterInv ==
  /\ ja \in JaTask /\ resend \in Nat /\ firing \in {0, 1}
  /\ ja.status \in Sent => ja.host \in Host /\ ja.run \in Run
  /\ ResendIsArmed
  /\ Deleted(ja) => ja.status # "JIDLE"

Kept ==
  /\ ja.status \in Ended => ja'.status \in Ended
  /\ Deleted(ja) => Deleted(ja') /\ ja'.status # "JIDLE" /\ ja'.run = ja.run

LEMMA SnapshotSound ==
  ASSUME MasterInv
  PROVE  Sound(Snapshot)
BY DEF MasterInv, Sound, Snapshot, ResendIsArmed

LEMMA CommitStep ==
  ASSUME MasterInv, NEW s, Fine(Snapshot, s), Commit(s), firing' = firing
  PROVE  MasterInv' /\ Kept
<1>1. Snapshot.ja = ja BY DEF Snapshot
<1>2. MasterInv'
  BY <1>1 DEF MasterInv, Fine, Keeps, Sound, Commit, ResendIsArmed, Deleted
<1>3. Kept BY <1>1 DEF Kept, Fine, Keeps, Commit
<1> QED BY <1>2, <1>3

LEMMA UnchangedStep ==
  ASSUME MasterInv, UNCHANGED <<ja, resend, firing>>
  PROVE  MasterInv' /\ Kept
BY DEF MasterInv, ResendIsArmed, Deleted, Kept

LEMMA StartJobStep ==
  ASSUME MasterInv, NEW h \in Host, StartJob(h)
  PROVE  MasterInv' /\ Kept
<1>1. ja.status = "JIDLE" /\ ~Deleted(ja) /\ ja.run < MaxRun /\ firing' = firing
  BY DEF StartJob, MasterInv
<1>2. ja.run + 1 \in Run
  BY <1>1, MaxRunAssumption DEF MasterInv, JaTask, Run
<1>3. CASE /\ ja' = [status |-> "JTRANSFERING", host |-> h, state |-> {}, run |-> ja.run + 1]
           /\ resend' = resend + 1
  BY <1>1, <1>2, <1>3
     DEF MasterInv, JaTask, Status, Sent, ResendIsArmed, Deleted, Kept, Ended
<1>4. CASE ja' = [ja EXCEPT !.state = {}] /\ resend' = resend
  <2>1. /\ ja' \in JaTask /\ ja'.status = "JIDLE" /\ ja'.state = {}
    BY <1>1, <1>4 DEF MasterInv, JaTask
  <2> QED BY <1>1, <1>4, <2>1
          DEF MasterInv, Sent, ResendIsArmed, Deleted, Kept, Ended
<1> QED BY <1>3, <1>4 DEF StartJob

LEMMA DeleteSentStep ==
  ASSUME MasterInv, DeleteSent
  PROVE  MasterInv' /\ Kept
<1>1. /\ ja.status \in Sent /\ resend' = resend /\ firing' = firing
      /\ ja' = [ja EXCEPT !.state = @ \cup {"JDELETED"}]
  BY DEF DeleteSent
<1>2. /\ ja' \in JaTask /\ ja'.status = ja.status /\ ja'.run = ja.run /\ ja'.host = ja.host
      /\ ja'.state = ja.state \cup {"JDELETED"}
  BY <1>1 DEF MasterInv, JaTask
<1>3. Deleted(ja') BY <1>2 DEF Deleted
<1> QED BY <1>1, <1>2, <1>3 DEF MasterInv, Sent, ResendIsArmed, Kept, Ended

LEMMA DeleteForcedStep ==
  ASSUME MasterInv, DeleteForced
  PROVE  MasterInv' /\ Kept
<1> DEFINE s == Finish(Snapshot)
           t == [s EXCEPT !.resend = 0]
<1>1. Commit(t) /\ firing' = firing BY DEF DeleteForced
<1>2. Sendable(Snapshot) BY SnapshotSound DEF Sendable, Sound
<1>3. Fine(Snapshot, s) /\ s.ja.status = "JFINISHED" BY <1>2, FinishFine
<1> HIDE DEF s
<1>4. /\ t = [ja |-> t.ja, resend |-> t.resend, ru |-> t.ru, acks |-> t.acks]
      /\ t.ja = s.ja /\ t.resend = 0 /\ t.acks = s.acks
  BY <1>3, CancelFields DEF Fine, Sound
<1> HIDE DEF t
<1>5. Fine(Snapshot, t) BY <1>3, <1>4 DEF Fine, Sound, Keeps
<1> QED BY <1>1, <1>5, CommitStep

LEMMA RescheduleStep ==
  ASSUME MasterInv, NEW h \in Host, NEW state, RescheduleFrom(h, state),
         state \in SUBSET {"JDELETED", "JDEFERRED_REQ"}, "JDELETED" \notin state
  PROVE  MasterInv' /\ Kept
<1> DEFINE j == [ja EXCEPT !.state = state]
           t == WithTask(Snapshot, j)
           marked == WithList(t, h, Append(ru[h], SKIP_JR_REMOVE))
<1>1. ja.status \in Sent /\ ~Deleted(ja) /\ firing' = firing /\ Commit(JobExit(marked, "again"))
  BY DEF RescheduleFrom
<1>2. /\ j \in JaTask /\ j.status = ja.status /\ j.host = ja.host /\ j.run = ja.run
      /\ j.state = state
  BY DEF MasterInv, JaTask
<1> HIDE DEF j
<1>3. t = [ja |-> j, resend |-> resend, ru |-> ru, acks |-> <<>>]
  BY DEF Snapshot, WithTask
<1> HIDE DEF t
<1>4. Sound(t) BY <1>2, <1>3 DEF Sound, MasterInv, ResendIsArmed, Deleted
<1>5. Snapshot.ja = ja BY DEF Snapshot
<1>6. Keeps(Snapshot, t) BY <1>1, <1>2, <1>3, <1>5 DEF Keeps
<1>7. Fine(t, marked) BY <1>4, ListFine
<1> HIDE DEF marked
<1>8. Fine(marked, JobExit(marked, "again")) BY <1>7, JobExitFine DEF Fine
<1>9. Fine(Snapshot, JobExit(marked, "again"))
  BY <1>4, <1>6, <1>7, <1>8, FineTransitive DEF Fine
<1> QED BY <1>1, <1>9, CommitStep

LEMMA ReceiveReportStep ==
  ASSUME MasterInv, NEW h \in Host, ReceiveReport(h)
  PROVE  MasterInv' /\ Kept
<1> DEFINE s == ReportResult(Snapshot, h, Head(toMaster[h]).jrs)
<1>1. Commit(s) /\ firing' = firing BY DEF ReceiveReport
<1>2. Fine(Snapshot, s) BY SnapshotSound, ReportFine
<1> HIDE DEF s
<1> QED BY <1>1, <1>2, CommitStep

LEMMA ResendStep ==
  ASSUME MasterInv, ResendPops \/ ResendHandler
  PROVE  MasterInv' /\ Kept
<1>1. ja' = ja BY DEF ResendPops, ResendHandler
<1>2. CASE ResendPops
  BY <1>1, <1>2 DEF ResendPops, MasterInv, ResendIsArmed, Kept
<1>3. CASE ResendHandler
  BY <1>1, <1>3 DEF ResendHandler, MasterInv, ResendIsArmed, Kept
<1> QED BY <1>2, <1>3

LEMMA BuryStep ==
  ASSUME MasterInv, Bury
  PROVE  MasterInv' /\ Kept
<1>1. /\ ja' = [ja EXCEPT !.status = "buried"]
      /\ resend' = resend /\ firing' = firing
  BY DEF Bury
<1>2. ja' \in JaTask /\ ja'.status = "buried" /\ ja'.state = ja.state /\ ja'.run = ja.run
  BY <1>1 DEF MasterInv, JaTask, Status
<1> QED BY <1>1, <1>2 DEF MasterInv, Sent, ResendIsArmed, Deleted, Kept, Ended

\* Every step of the protocol.
LEMMA MasterStep ==
  ASSUME MasterInv, [Next]_vars
  PROVE  MasterInv' /\ Kept
<1>1. CASE UNCHANGED vars
  BY <1>1, UnchangedStep DEF vars, mvars
<1>2. CASE \E h \in Host : ExecdStep(h) /\ UNCHANGED mvars
  BY <1>2, UnchangedStep DEF mvars
<1>3. CASE QmasterStep /\ UNCHANGED evars
  <2>1. CASE ResendPops \/ ResendHandler
    BY <2>1, ResendStep
  <2>2. CASE DeletePending
    <3>1. Sendable(Snapshot) BY SnapshotSound DEF Sendable, Sound
    <3>2. Fine(Snapshot, Finish(Snapshot)) BY <3>1, FinishFine
    <3> QED BY <2>2, <3>2, CommitStep DEF DeletePending
  <2>3. CASE DeleteSent
    BY <2>3, DeleteSentStep
  <2>4. CASE DeleteForced
    BY <2>4, DeleteForcedStep
  <2>5. CASE SignalResend
    BY <2>5, UnchangedStep DEF SignalResend
  <2>6. CASE Bury
    BY <2>6, BuryStep
  <2>7. ASSUME NEW h \in Host, ReceiveReport(h) PROVE MasterInv' /\ Kept
    BY <2>7, ReceiveReportStep
  <2>8. ASSUME NEW h \in Host, ReceiveSigAck(h) \/ HostUnknown(h) PROVE MasterInv' /\ Kept
    BY <2>8, UnchangedStep DEF ReceiveSigAck, HostUnknown
  <2>9. ASSUME NEW h \in Host, StartJob(h) PROVE MasterInv' /\ Kept
    BY <2>9, StartJobStep
  <2>10. ASSUME NEW h \in Host, RescheduleUnknown(h) \/ ManualReschedule(h)
         PROVE  MasterInv' /\ Kept
    <3>1. ja.state \in SUBSET {"JDELETED", "JDEFERRED_REQ"} BY DEF MasterInv, JaTask
    <3>2. "JDELETED" \notin ja.state
      BY <2>10 DEF RescheduleUnknown, ManualReschedule, RescheduleFrom, Deleted
    <3>3. CASE RescheduleUnknown(h)
      BY <3>1, <3>2, <3>3, RescheduleStep DEF RescheduleUnknown
    <3>4. CASE ManualReschedule(h)
      BY <3>1, <3>2, <3>4, RescheduleStep DEF ManualReschedule
    <3> QED BY <2>10, <3>3, <3>4
  <2> QED BY <1>3, <2>1, <2>2, <2>3, <2>4, <2>5, <2>6, <2>7, <2>8, <2>9, <2>10
          DEF QmasterStep
<1> QED BY <1>1, <1>2, <1>3 DEF Next

-----------------------------------------------------------------------------
(* The theorems                                                              *)

\* The inductive invariant of the qmaster holds in every reachable state.
THEOREM MasterInvHolds == Spec => []MasterInv
<1>1. Init => MasterInv
  BY DEF Init, QmasterInit, MasterInv, JaTask, Status, Sent, ResendIsArmed, Deleted
<1>2. MasterInv /\ [Next]_vars => MasterInv' BY MasterStep
<1> QED BY <1>1, <1>2, PTL DEF Spec

\* A start order that is not confirmed is always sent again: whatever reports,
\* deletions and reschedules come in between, a timer is armed or its handler
\* about to run.
THEOREM OrdersStayArmed == Spec => []ResendIsArmed
<1>1. MasterInv => ResendIsArmed BY DEF MasterInv
<1> QED BY <1>1, MasterInvHolds, PTL

\* No late report, timer or reschedule brings a deleted job back to the pending
\* jobs, takes the mark of qdel from it, or starts it again.
THEOREM DeletionIsFinal == Spec => DeletedNeverRunsAgain
<1> DEFINE A == Deleted(ja) => Deleted(ja') /\ ja'.status # "JIDLE" /\ ja'.run = ja.run
<1>1. MasterInv /\ [Next]_vars => [A]_vars BY MasterStep DEF Kept
<1>2. DeletedNeverRunsAgain <=> [][A]_vars BY DEF DeletedNeverRunsAgain
<1> HIDE DEF A
<1> QED BY <1>1, <1>2, MasterInvHolds, PTL DEF Spec

\* A job that is over stays so, whatever is reported about it later.
THEOREM EndIsFinal == Spec => EndedIsFinal
<1> DEFINE A == ja.status \in {"JFINISHED", "buried"} => ja'.status \in {"JFINISHED", "buried"}
<1>1. MasterInv /\ [Next]_vars => [A]_vars BY MasterStep DEF Kept, Ended
<1>2. EndedIsFinal <=> [][A]_vars BY DEF EndedIsFinal
<1> HIDE DEF A
<1> QED BY <1>1, <1>2, MasterInvHolds, PTL DEF Spec

-----------------------------------------------------------------------------
(***************************************************************************)
(* The execution daemons.                                                  *)
(***************************************************************************)

\* jr_list may have two entries of the job, but not while the job is unknown.
ListInv == \A h \in Host : task[h] = NoTask => Len(jrs[h]) <= 1

PhaseInv ==
  \A h \in Host :
    /\ phase[h] \in {"start", "save"} => task[h] # NoTask
    /\ phase[h] = "dead" => task[h] = NoTask

ExecdInv == MessagesTypeOK /\ ExecdTypeOK /\ ListInv /\ PhaseInv /\ KnownJobIsSpooled

USE MaxRunAssumption, NoTaskAssumption

-----------------------------------------------------------------------------
(* Messages and report lists                                                 *)

LEMMA OrderTypes ==
  ASSUME NEW m \in ExecdMessage
  PROVE  /\ m.tag = "TAG_JOB_EXECUTION" => m.run \in Run
         /\ m.tag = "TAG_ACK_REQUEST" => /\ m.acks \in Seq(Ack)
                                         /\ m = [tag |-> "TAG_ACK_REQUEST", acks |-> m.acks]
BY DEF ExecdMessage

LEMMA OtherAcks ==
  ASSUME NEW list, NEW other
  PROVE  [[tag |-> "TAG_ACK_REQUEST", acks |-> list] EXCEPT !.acks = other]
           = [tag |-> "TAG_ACK_REQUEST", acks |-> other]
OBVIOUS

LEMMA ReportTypes ==
  /\ \A r \in Run : RunningReport(r) \in JobReport
  /\ \A r \in Run, outcome \in {"done", "again"} : ExitReport(r, outcome) \in JobReport
  /\ UnknownReport \in JobReport
BY DEF RunningReport, ExitReport, UnknownReport, JobReport

LEMMA SetFirstTypes ==
  ASSUME NEW list \in Seq(JobReport), NEW jr \in JobReport, Len(list) <= 2
  PROVE  /\ SetFirst(list, jr) \in Seq(JobReport)
         /\ Len(SetFirst(list, jr)) <= 2
         /\ Len(list) <= 1 => Len(SetFirst(list, jr)) <= 1
<1>1. <<jr>> \in Seq(JobReport) /\ Len(<<jr>>) = 1
  OBVIOUS
<1>2. CASE list = <<>>
  BY <1>1, <1>2 DEF SetFirst
<1>3. CASE list # <<>>
  <2>1. Tail(list) \in Seq(JobReport) /\ Len(Tail(list)) = Len(list) - 1 /\ Len(list) \in Nat
    BY <1>3, HeadTailProperties
  <2>2. /\ <<jr>> \o Tail(list) \in Seq(JobReport)
        /\ Len(<<jr>> \o Tail(list)) = 1 + Len(Tail(list))
    BY <1>1, <2>1, ConcatProperties
  <2>3. SetFirst(list, jr) = <<jr>> \o Tail(list)
    BY <1>3 DEF SetFirst
  <2> QED BY <2>1, <2>2, <2>3
<1> QED BY <1>2, <1>3

\* The first message of a connection and those behind it.
LEMMA MessageTypes ==
  ASSUME MessagesTypeOK, NEW h \in Host, toExecd[h] # <<>>
  PROVE  /\ Message(h) \in ExecdMessage
         /\ Tail(toExecd[h]) \in Seq(ExecdMessage)
  BY HeadTailProperties DEF MessagesTypeOK, Message

LEMMA TakeTypes ==
  ASSUME MessagesTypeOK, NEW h \in Host, toExecd[h] # <<>>, Take(h)
  PROVE  toExecd' \in [Host -> Seq(ExecdMessage)]
  BY MessageTypes DEF MessagesTypeOK, Take

-----------------------------------------------------------------------------
(* The steps of a daemon                                                     *)

LEMMA ReceiveJobStep ==
  ASSUME ExecdInv, NEW h \in Host, ReceiveJob(h)
  PROVE  ExecdInv'
<1>1. toExecd[h] # <<>> /\ phase[h] = "wait" /\ Message(h).tag = "TAG_JOB_EXECUTION"
  BY DEF ReceiveJob, HasMessage
<1>2. MessagesTypeOK'
  BY <1>1, TakeTypes DEF ReceiveJob, MessagesTypeOK, ExecdInv
<1>3. Message(h).run \in Run
  BY <1>1, MessageTypes, OrderTypes DEF ExecdInv
<1> DEFINE r == Message(h).run
<1>4. /\ ExecdTypeOK /\ ListInv /\ PhaseInv /\ KnownJobIsSpooled
      /\ UNCHANGED <<alive, killed, starts, faults>>
  BY DEF ReceiveJob, ExecdInv
<1>5. CASE IgnoreJob(h)
  BY <1>2, <1>4, <1>5 DEF IgnoreJob, ExecdInv, ExecdTypeOK, ListInv, PhaseInv, KnownJobIsSpooled
<1>6. CASE AcceptJob(h, r)
  <2> DEFINE job == [run |-> r, status |-> "JIDLE"]
             list == Append(jrs[h], RunningReport(r))
  <2>1. job \in Task /\ job # NoTask /\ job.run = r
    BY <1>3 DEF Task
  <2>2. list \in Seq(JobReport) /\ Len(list) <= 2
    <3>1. jrs[h] \in Seq(JobReport) /\ Len(jrs[h]) <= 1
      BY <1>4, <1>6 DEF ExecdTypeOK, ListInv, AcceptJob
    <3> QED BY <1>3, <3>1, ReportTypes, AppendProperties
  <2>3. /\ task' = [task EXCEPT ![h] = job] /\ disk' = [disk EXCEPT ![h] = job]
        /\ jrs' = [jrs EXCEPT ![h] = list] /\ phase' = [phase EXCEPT ![h] = "start"]
    BY <1>4, <1>6 DEF AcceptJob, ExecdTypeOK
  <2> HIDE DEF job, list
  <2>4. ExecdTypeOK'
    BY <1>4, <2>1, <2>2, <2>3 DEF ExecdTypeOK, Phase
  <2>5. ListInv' /\ PhaseInv' /\ KnownJobIsSpooled'
    BY <1>4, <2>1, <2>2, <2>3 DEF ExecdTypeOK, ListInv, PhaseInv, KnownJobIsSpooled
  <2> QED BY <1>2, <2>4, <2>5 DEF ExecdInv
<1>7. CASE RefuseJob(h, r)
  <2>1. UNCHANGED <<phase, task, disk>> /\ task[h] = NoTask
    BY <1>7 DEF RefuseJob
  <2>2. \/ UNCHANGED jrs
        \/ jrs' = [jrs EXCEPT ![h] = SetFirst(@, ExitReport(r, "again"))]
    BY <1>7 DEF RefuseJob
  <2> DEFINE list == SetFirst(jrs[h], ExitReport(r, "again"))
  <2>3. list \in Seq(JobReport) /\ Len(list) <= 1 /\ Len(list) <= 2
    <3>1. jrs[h] \in Seq(JobReport) /\ Len(jrs[h]) <= 2 /\ Len(jrs[h]) <= 1
      BY <1>4, <2>1 DEF ExecdTypeOK, ListInv
    <3>2. ExitReport(r, "again") \in JobReport
      BY <1>3, ReportTypes
    <3> QED BY <3>1, <3>2, SetFirstTypes
  <2>4. UNCHANGED jrs \/ jrs' = [jrs EXCEPT ![h] = list]
    BY <2>2
  <2> HIDE DEF list
  <2>5. ExecdTypeOK'
    <3>1. jrs' \in [Host -> Seq(JobReport)] /\ \A g \in Host : Len(jrs'[g]) <= 2
      <4>1. CASE UNCHANGED jrs
        BY <1>4, <4>1 DEF ExecdTypeOK
      <4>2. CASE jrs' = [jrs EXCEPT ![h] = list]
        BY <1>4, <2>3, <4>2 DEF ExecdTypeOK
      <4> QED BY <2>4, <4>1, <4>2
    <3> QED BY <1>4, <2>1, <3>1 DEF ExecdTypeOK
  <2>6. ListInv' /\ PhaseInv' /\ KnownJobIsSpooled'
    BY <1>4, <2>1, <2>3, <2>4 DEF ExecdTypeOK, ListInv, PhaseInv, KnownJobIsSpooled
  <2> QED BY <1>2, <2>5, <2>6 DEF ExecdInv
<1> QED BY <1>5, <1>6, <1>7 DEF ReceiveJob

\* A daemon that gets SIGKILL for the job, in a step that leaves task alone.
LEMMA KillJobStep ==
  ASSUME ExecdInv, NEW h \in Host, KillJob(h), UNCHANGED <<task, alive, starts, faults>>,
         MessagesTypeOK', phase[h] \in {"wait", "acks"},
         NEW next \in {"wait", "acks"}, phase' = [phase EXCEPT ![h] = next]
  PROVE  ExecdInv'
<1> USE DEF ExecdInv
<1>1. CASE task[h] # NoTask
  <2>1. /\ killed' = [killed EXCEPT ![h] = @ \cup (alive[h] \cap {task[h].run})]
        /\ disk' = [disk EXCEPT ![h] = task[h]] /\ UNCHANGED jrs
    BY <1>1 DEF KillJob
  <2>2. ExecdTypeOK'
    BY <2>1 DEF ExecdTypeOK, Phase
  <2>3. ListInv' /\ PhaseInv' /\ KnownJobIsSpooled'
    BY <1>1, <2>1 DEF ExecdTypeOK, ListInv, PhaseInv, KnownJobIsSpooled
  <2> QED BY <2>2, <2>3
<1>2. CASE task[h] = NoTask
  <2>1. /\ disk' = [disk EXCEPT ![h] = NoTask]
        /\ jrs' = [jrs EXCEPT ![h] = <<UnknownReport>>] /\ UNCHANGED killed
    BY <1>2 DEF KillJob
  <2>2. <<UnknownReport>> \in Seq(JobReport) /\ Len(<<UnknownReport>>) = 1
    BY ReportTypes
  <2>3. ExecdTypeOK'
    BY <2>1, <2>2 DEF ExecdTypeOK, Phase
  <2>4. ListInv' /\ PhaseInv' /\ KnownJobIsSpooled'
    BY <1>2, <2>1, <2>2 DEF ExecdTypeOK, ListInv, PhaseInv, KnownJobIsSpooled
  <2> QED BY <2>3, <2>4
<1> QED BY <1>1, <1>2

LEMMA ReceiveSignalStep ==
  ASSUME ExecdInv, NEW h \in Host, ReceiveSignal(h)
  PROVE  ExecdInv'
<1>1. toExecd[h] # <<>> /\ phase[h] = "wait"
  BY DEF ReceiveSignal, HasMessage
<1>2. toExecd' \in [Host -> Seq(ExecdMessage)]
  BY <1>1, TakeTypes DEF ReceiveSignal, ExecdInv
<1>3. toMaster' \in [Host -> Seq(MasterMessage)]
  <2>1. [tag |-> "ACK_SIGJOB"] \in MasterMessage
    BY DEF MasterMessage
  <2>2. Append(toMaster[h], [tag |-> "ACK_SIGJOB"]) \in Seq(MasterMessage)
    BY <2>1, AppendProperties DEF ExecdInv, MessagesTypeOK
  <2> QED BY <2>2 DEF ExecdInv, MessagesTypeOK, ReceiveSignal
<1>4. MessagesTypeOK'
  BY <1>2, <1>3 DEF ExecdInv, MessagesTypeOK, ReceiveSignal
<1>5. phase' = [phase EXCEPT ![h] = "wait"]
  BY <1>1 DEF ReceiveSignal, ExecdInv, ExecdTypeOK
<1> QED BY <1>1, <1>4, <1>5, KillJobStep DEF ReceiveSignal

LEMMA RemoveAckedStep ==
  ASSUME ExecdInv, NEW h \in Host, RemoveAckedJobExit(h), UNCHANGED <<alive, killed, starts, faults>>,
         MessagesTypeOK', phase[h] \in {"wait", "acks"},
         NEW next \in {"wait", "acks"}, phase' = [phase EXCEPT ![h] = next]
  PROVE  ExecdInv'
<1> USE DEF ExecdInv
<1>1. CASE jrs[h] = <<>>
  <2>1. UNCHANGED <<task, disk, jrs>>
    BY <1>1 DEF RemoveAckedJobExit
  <2> QED BY <2>1 DEF ExecdTypeOK, Phase, ListInv, PhaseInv, KnownJobIsSpooled
<1>2. CASE jrs[h] # <<>>
  <2> DEFINE list == IF task[h] = NoTask THEN <<>> ELSE Tail(jrs[h])
  <2>1. list \in Seq(JobReport) /\ Len(list) <= 1
    <3>1. jrs[h] \in Seq(JobReport) /\ Len(jrs[h]) <= 2
      BY DEF ExecdTypeOK
    <3>2. Tail(jrs[h]) \in Seq(JobReport) /\ Len(Tail(jrs[h])) = Len(jrs[h]) - 1
      BY <1>2, <3>1, HeadTailProperties
    <3> QED BY <3>1, <3>2, LenProperties
  <2>2. /\ jrs' = [jrs EXCEPT ![h] = list]
        /\ task' = [task EXCEPT ![h] = NoTask] /\ disk' = [disk EXCEPT ![h] = NoTask]
    BY <1>2 DEF RemoveAckedJobExit
  <2> HIDE DEF list
  <2>3. ExecdTypeOK'
    BY <2>1, <2>2 DEF ExecdTypeOK, Phase
  <2>4. ListInv' /\ PhaseInv' /\ KnownJobIsSpooled'
    BY <2>1, <2>2 DEF ExecdTypeOK, ListInv, PhaseInv, KnownJobIsSpooled
  <2> QED BY <2>3, <2>4
<1> QED BY <1>1, <1>2

LEMMA ReceiveAckStep ==
  ASSUME ExecdInv, NEW h \in Host, ReceiveAck(h)
  PROVE  ExecdInv'
<1>1. /\ toExecd[h] # <<>> /\ phase[h] \in {"wait", "acks"}
      /\ Message(h).tag = "TAG_ACK_REQUEST"
  BY DEF ReceiveAck
<1> DEFINE m == Message(h)
           rest == Tail(toExecd[h])
<1>2. PICK list \in Seq(Ack) : m = [tag |-> "TAG_ACK_REQUEST", acks |-> list]
  BY <1>1, MessageTypes, OrderTypes DEF ExecdInv
<1>3. rest \in Seq(ExecdMessage)
  BY <1>1, MessageTypes DEF ExecdInv
<1>4. PICK next \in {"wait", "acks"} :
        phase' = [phase EXCEPT ![h] = next] /\ toExecd' \in [Host -> Seq(ExecdMessage)]
  <2>0. m.acks = list
    BY <1>2
  <2> DEFINE left == [m EXCEPT !.acks = Tail(@)]
  <2>1. \/ Take(h) /\ phase' = [phase EXCEPT ![h] = "wait"]
        \/ /\ Len(list) > 1
           /\ toExecd' = [toExecd EXCEPT ![h] = <<left>> \o Tail(@)]
           /\ phase' = [phase EXCEPT ![h] = "acks"]
    BY <2>0, Zenon DEF ReceiveAck
  <2>2. left = [tag |-> "TAG_ACK_REQUEST", acks |-> Tail(list)]
    BY <1>2, <2>0, OtherAcks, Zenon
  <2> HIDE DEF left
  <2>3. CASE Take(h) /\ phase' = [phase EXCEPT ![h] = "wait"]
    BY <1>1, <2>3, TakeTypes DEF ExecdInv
  <2>4. CASE /\ Len(list) > 1
             /\ toExecd' = [toExecd EXCEPT ![h] = <<left>> \o Tail(@)]
             /\ phase' = [phase EXCEPT ![h] = "acks"]
    <3>1. list # <<>> BY <2>4
    <3>2. Tail(list) \in Seq(Ack)
      BY <3>1, HeadTailProperties
    <3>4. left \in ExecdMessage
      BY <3>2, <2>2 DEF ExecdMessage
    <3>5. <<left>> \in Seq(ExecdMessage)
      BY <3>4
    <3>6. <<left>> \o rest \in Seq(ExecdMessage)
      BY <1>3, <3>5, ConcatProperties
    <3> QED BY <2>4, <3>6 DEF ExecdInv, MessagesTypeOK
  <2> QED BY <2>1, <2>3, <2>4
<1>5. MessagesTypeOK'
  BY <1>4 DEF ReceiveAck, ExecdInv, MessagesTypeOK
<1>6. CASE RemoveAckedJobExit(h) /\ UNCHANGED killed
  BY <1>1, <1>4, <1>5, <1>6, RemoveAckedStep DEF ReceiveAck
<1>7. CASE KillJob(h) /\ UNCHANGED task
  BY <1>1, <1>4, <1>5, <1>7, KillJobStep DEF ReceiveAck
<1> QED BY <1>6, <1>7 DEF ReceiveAck

LEMMA StartJobsStep ==
  ASSUME ExecdInv, NEW h \in Host, StartJobs(h)
  PROVE  ExecdInv'
<1> USE DEF ExecdInv
<1>1. /\ phase[h] = "start" /\ task[h] \in Task /\ task[h] # NoTask
      /\ UNCHANGED <<disk, killed, faults>>
  BY DEF StartJobs, PhaseInv, ExecdTypeOK
<1> DEFINE job == [task[h] EXCEPT !.status = "JRUNNING"]
           r == task[h].run
<1>2. task' = [task EXCEPT ![h] = job] /\ job \in Task /\ job # NoTask /\ job.run = r /\ r \in Run
  BY <1>1 DEF StartJobs, Task
<1>3. MessagesTypeOK'
  BY DEF StartJobs, MessagesTypeOK
<1> HIDE DEF job, r
<1>4. KnownJobIsSpooled'
  BY <1>1, <1>2 DEF KnownJobIsSpooled, ExecdTypeOK, r
<1>5. CASE /\ alive' = [alive EXCEPT ![h] = @ \cup {r}]
           /\ starts' = [starts EXCEPT ![r] = @ + 1]
           /\ phase' = [phase EXCEPT ![h] = "save"]
           /\ UNCHANGED jrs
  <2>1. ExecdTypeOK'
    BY <1>1, <1>2, <1>5 DEF ExecdTypeOK, Phase
  <2>2. ListInv' /\ PhaseInv'
    BY <1>1, <1>2, <1>5 DEF ExecdTypeOK, ListInv, PhaseInv
  <2> QED BY <1>3, <1>4, <2>1, <2>2
<1>6. CASE /\ jrs' = [jrs EXCEPT ![h] = SetFirst(@, ExitReport(r, "again"))]
           /\ phase' = [phase EXCEPT ![h] = "wait"]
           /\ UNCHANGED <<alive, starts>>
  <2> DEFINE list == SetFirst(jrs[h], ExitReport(r, "again"))
  <2>1. list \in Seq(JobReport) /\ Len(list) <= 2
    <3>1. jrs[h] \in Seq(JobReport) /\ Len(jrs[h]) <= 2
      BY DEF ExecdTypeOK
    <3> QED BY <1>2, <3>1, ReportTypes, SetFirstTypes
  <2>2. jrs' = [jrs EXCEPT ![h] = list]
    BY <1>6
  <2> HIDE DEF list
  <2>3. ExecdTypeOK'
    BY <1>1, <1>2, <1>6, <2>1, <2>2 DEF ExecdTypeOK, Phase
  <2>4. ListInv' /\ PhaseInv'
    BY <1>1, <1>2, <1>6, <2>1, <2>2 DEF ExecdTypeOK, ListInv, PhaseInv
  <2> QED BY <1>3, <1>4, <2>3, <2>4
<1> QED BY <1>5, <1>6 DEF StartJobs, r

LEMMA SaveSpoolStep ==
  ASSUME ExecdInv, NEW h \in Host, SaveSpool(h)
  PROVE  ExecdInv'
<1> USE DEF ExecdInv
<1>1. /\ phase[h] = "save" /\ disk' = [disk EXCEPT ![h] = task[h]]
      /\ phase' = [phase EXCEPT ![h] = "wait"]
      /\ UNCHANGED <<up, toExecd, toMaster, task, jrs, alive, killed, starts, faults>>
  BY DEF SaveSpool
<1>2. MessagesTypeOK' /\ ExecdTypeOK'
  BY <1>1 DEF MessagesTypeOK, ExecdTypeOK, Phase
<1>3. ListInv' /\ PhaseInv' /\ KnownJobIsSpooled'
  BY <1>1 DEF ExecdTypeOK, ListInv, PhaseInv, KnownJobIsSpooled
<1> QED BY <1>2, <1>3

LEMMA ProcessEndsStep ==
  ASSUME ExecdInv, NEW h \in Host, NEW r \in Run, ProcessEnds(h, r)
  PROVE  ExecdInv'
<1> USE DEF ExecdInv
<1>1. MessagesTypeOK' /\ ExecdTypeOK'
  BY DEF ProcessEnds, MessagesTypeOK, ExecdTypeOK
<1>2. ListInv' /\ PhaseInv' /\ KnownJobIsSpooled'
  BY DEF ProcessEnds, ListInv, PhaseInv, KnownJobIsSpooled
<1> QED BY <1>1, <1>2

LEMMA ReapStep ==
  ASSUME ExecdInv, NEW h \in Host, Reap(h)
  PROVE  ExecdInv'
<1> USE DEF ExecdInv
<1>1. /\ task[h] # NoTask /\ task[h].run \in Run
      /\ UNCHANGED <<up, toExecd, toMaster, phase, task, disk, alive, killed, starts, faults>>
  BY DEF Reap, ExecdTypeOK, Task
<1>2. PICK outcome \in {"done", "again"} :
        jrs' = [jrs EXCEPT ![h] = SetFirst(@, ExitReport(task[h].run, outcome))]
  BY DEF Reap
<1> DEFINE list == SetFirst(jrs[h], ExitReport(task[h].run, outcome))
<1>3. list \in Seq(JobReport) /\ Len(list) <= 2
  <2>1. jrs[h] \in Seq(JobReport) /\ Len(jrs[h]) <= 2
    BY DEF ExecdTypeOK
  <2> QED BY <1>1, <2>1, ReportTypes, SetFirstTypes
<1>4. jrs' = [jrs EXCEPT ![h] = list]
  BY <1>2
<1> HIDE DEF list
<1>5. MessagesTypeOK' /\ ExecdTypeOK'
  BY <1>1, <1>3, <1>4 DEF MessagesTypeOK, ExecdTypeOK
<1>6. ListInv' /\ PhaseInv' /\ KnownJobIsSpooled'
  BY <1>1, <1>3, <1>4 DEF ExecdTypeOK, ListInv, PhaseInv, KnownJobIsSpooled
<1> QED BY <1>5, <1>6

\* A daemon only adds messages that JobMessages declares.
LEMMA SendReportStep ==
  ASSUME ExecdInv, NEW h \in Host, SendReport(h)
  PROVE  ExecdInv'
<1> USE DEF ExecdInv
<1>1. PICK list \in Reported(h) :
        toMaster' = [toMaster EXCEPT ![h] = Append(@, [tag |-> "TAG_REPORT_REQUEST", jrs |-> list])]
  BY DEF SendReport
<1>2. list \in Seq(JobReport)
  <2>1. jrs[h] \in Seq(JobReport) /\ <<>> \in Seq(JobReport)
    BY DEF ExecdTypeOK
  <2>2. ASSUME NEW i \in DOMAIN jrs[h] PROVE <<jrs[h][i]>> \in Seq(JobReport)
    <3>1. jrs[h][i] \in JobReport
      BY <2>1, <2>2, ElementOfSeq
    <3> QED BY <3>1
  <2> QED BY <2>1, <2>2 DEF Reported
<1>3. [tag |-> "TAG_REPORT_REQUEST", jrs |-> list] \in MasterMessage
  BY <1>2 DEF MasterMessage
<1> DEFINE sent == Append(toMaster[h], [tag |-> "TAG_REPORT_REQUEST", jrs |-> list])
<1>4. sent \in Seq(MasterMessage) /\ toMaster' = [toMaster EXCEPT ![h] = sent]
  BY <1>1, <1>3, AppendProperties DEF MessagesTypeOK
<1> HIDE DEF sent
<1>5. MessagesTypeOK'
  BY <1>4 DEF SendReport, MessagesTypeOK
<1>6. ExecdTypeOK' /\ ListInv' /\ PhaseInv' /\ KnownJobIsSpooled'
  BY DEF SendReport, evars, ExecdTypeOK, ListInv, PhaseInv, KnownJobIsSpooled
<1> QED BY <1>5, <1>6

-----------------------------------------------------------------------------
(* Faults                                                                    *)

\* A fault empties a connection in one direction or in both.
LEMMA FaultTypes ==
  ASSUME MessagesTypeOK, NEW h \in Host, NEW fault, Fault(h, fault), faults \in Nat
  PROVE  MessagesTypeOK' /\ faults' \in Nat
<1>1. /\ up' \subseteq Host /\ faults' \in Nat
      /\ toExecd' = [toExecd EXCEPT ![h] = <<>>]
      /\ toMaster' = toMaster \/ toMaster' = [toMaster EXCEPT ![h] = <<>>]
  BY DEF Fault, MessagesTypeOK
<1>2. <<>> \in Seq(ExecdMessage) /\ <<>> \in Seq(MasterMessage)
  OBVIOUS
<1> QED BY <1>1, <1>2 DEF MessagesTypeOK

LEMMA CrashStep ==
  ASSUME ExecdInv, NEW h \in Host, Crash(h)
  PROVE  ExecdInv'
<1> USE DEF ExecdInv
<1>1. MessagesTypeOK' /\ faults' \in Nat
  BY FaultTypes DEF Crash, ExecdTypeOK
<1>2. /\ phase' = [phase EXCEPT ![h] = "dead"] /\ task' = [task EXCEPT ![h] = NoTask]
      /\ jrs' = [jrs EXCEPT ![h] = <<>>]
      /\ UNCHANGED <<disk, alive, killed, starts>>
  BY DEF Crash
<1>3. <<>> \in Seq(JobReport) /\ Len(<<>>) = 0
  OBVIOUS
<1>4. ExecdTypeOK'
  BY <1>1, <1>2, <1>3 DEF ExecdTypeOK, Phase
<1>5. ListInv' /\ PhaseInv' /\ KnownJobIsSpooled'
  BY <1>2, <1>3 DEF ExecdTypeOK, ListInv, PhaseInv, KnownJobIsSpooled
<1> QED BY <1>1, <1>4, <1>5

LEMMA DisconnectStep ==
  ASSUME ExecdInv, NEW h \in Host, Disconnect(h) \/ Reconnect(h)
  PROVE  ExecdInv'
<1> USE DEF ExecdInv
<1>1. MessagesTypeOK' /\ faults' \in Nat
  <2>1. CASE Disconnect(h)
    BY <2>1, FaultTypes DEF Disconnect, ExecdTypeOK
  <2>2. CASE Reconnect(h)
    BY <2>2 DEF Reconnect, MessagesTypeOK, ExecdTypeOK, evars
  <2> QED BY <2>1, <2>2
<1>2. UNCHANGED <<phase, task, disk, jrs, alive, killed, starts>>
  BY DEF Disconnect, Reconnect, evars
<1>3. ExecdTypeOK' /\ ListInv' /\ PhaseInv' /\ KnownJobIsSpooled'
  BY <1>1, <1>2 DEF ExecdTypeOK, ListInv, PhaseInv, KnownJobIsSpooled
<1> QED BY <1>1, <1>3

\* The restarted daemon takes over what is on disk, and reports one entry.
LEMMA RestartStep ==
  ASSUME ExecdInv, NEW h \in Host, Restart(h)
  PROVE  ExecdInv'
<1> USE DEF ExecdInv
<1>1. MessagesTypeOK'
  BY DEF Restart, MessagesTypeOK
<1>2. /\ phase[h] = "dead" /\ task[h] = NoTask
      /\ task' = [task EXCEPT ![h] = disk[h]]
      /\ UNCHANGED <<disk, alive, killed, starts, faults>>
  BY DEF Restart, PhaseInv
<1>3. KnownJobIsSpooled'
  BY <1>2 DEF ExecdTypeOK, KnownJobIsSpooled
<1>4. CASE disk[h] = NoTask
  <2>1. phase' = [phase EXCEPT ![h] = "wait"] /\ UNCHANGED jrs
    BY <1>4 DEF Restart
  <2>2. ExecdTypeOK' /\ ListInv' /\ PhaseInv'
    BY <1>2, <1>4, <2>1 DEF ExecdTypeOK, Phase, ListInv, PhaseInv
  <2> QED BY <1>1, <1>3, <2>2
<1>5. CASE disk[h] # NoTask
  <2>1. disk[h] \in Task /\ disk[h].run \in Run
    BY <1>5 DEF ExecdTypeOK, Task
  <2>2. PICK list \in FoundOnStartup(h) : jrs' = [jrs EXCEPT ![h] = list]
    BY <1>5 DEF Restart
  <2>3. PICK next \in {"start", "wait"} : phase' = [phase EXCEPT ![h] = next]
    BY <1>5 DEF Restart
  <2>4. list \in Seq(JobReport) /\ Len(list) = 1 /\ Len(list) <= 2
    <3>1. PICK jr \in JobReport : list = <<jr>>
      BY <2>1, ReportTypes DEF FoundOnStartup
    <3> QED BY <3>1
  <2>5. ExecdTypeOK'
    <3>1. jrs' \in [Host -> Seq(JobReport)] /\ \A g \in Host : Len(jrs'[g]) <= 2
      BY <2>2, <2>4 DEF ExecdTypeOK
    <3>2. phase' \in [Host -> Phase]
      BY <2>3 DEF ExecdTypeOK, Phase
    <3>3. task' \in [Host -> Task \cup {NoTask}]
      BY <1>2, <2>1 DEF ExecdTypeOK
    <3> QED BY <1>2, <3>1, <3>2, <3>3 DEF ExecdTypeOK
  <2>6. ListInv' /\ PhaseInv'
    BY <1>2, <1>5, <2>2, <2>3, <2>4 DEF ExecdTypeOK, ListInv, PhaseInv
  <2> QED BY <1>1, <1>3, <2>5, <2>6
<1> QED BY <1>4, <1>5

LEMMA ExecdStepKeeps ==
  ASSUME ExecdInv, NEW h \in Host, ExecdStep(h)
  PROVE  ExecdInv'
BY ReceiveJobStep, ReceiveSignalStep, ReceiveAckStep, StartJobsStep, SaveSpoolStep,
   ProcessEndsStep, ReapStep, SendReportStep, CrashStep, DisconnectStep, RestartStep
   DEF ExecdStep

-----------------------------------------------------------------------------
(* The messages of the qmaster                                               *)

LEMMA SendTypes ==
  ASSUME MessagesTypeOK, NEW h \in Host, NEW m \in ExecdMessage, Send(h, m)
  PROVE  toExecd' \in [Host -> Seq(ExecdMessage)]
<1> DEFINE list == Append(toExecd[h], m)
<1>1. list \in Seq(ExecdMessage)
  BY AppendProperties DEF MessagesTypeOK
<1>2. toExecd' = [toExecd EXCEPT ![h] = list]
  BY DEF Send
<1> HIDE DEF list
<1> QED BY <1>1, <1>2 DEF MessagesTypeOK

LEMMA MasterMessageTypes ==
  /\ \A run \in Run : JobMessage(run) \in ExecdMessage
  /\ SignalMessage \in ExecdMessage
  /\ \A acks \in Seq(Ack) : [tag |-> "TAG_ACK_REQUEST", acks |-> acks] \in ExecdMessage
BY DEF JobMessage, SignalMessage, ExecdMessage

LEMMA SignalJobTypes ==
  ASSUME MessagesTypeOK, NEW h \in Host, SignalJob(h)
  PROVE  toExecd' \in [Host -> Seq(ExecdMessage)]
BY SendTypes, MasterMessageTypes DEF SignalJob, MessagesTypeOK

LEMMA ReceiveReportTypes ==
  ASSUME MasterInv, MessagesTypeOK, NEW h \in Host, ReceiveReport(h)
  PROVE  MessagesTypeOK'
<1> DEFINE s == ReportResult(Snapshot, h, Head(toMaster[h]).jrs)
<1>1. s.acks \in Seq(Ack)
  <2>1. Fine(Snapshot, s) BY SnapshotSound, ReportFine
  <2>2. Snapshot.acks \in Seq(Ack) BY DEF Snapshot
  <2> HIDE DEF s
  <2> QED BY <2>1, <2>2 DEF Fine, Keeps
<1>2. UNCHANGED toExecd \/ Send(h, [tag |-> "TAG_ACK_REQUEST", acks |-> s.acks])
  BY DEF ReceiveReport
<1>3. UNCHANGED up /\ toMaster[h] # <<>> /\ toMaster' = [toMaster EXCEPT ![h] = Tail(@)]
  BY DEF ReceiveReport
<1> HIDE DEF s
<1>4. toExecd' \in [Host -> Seq(ExecdMessage)]
  BY <1>1, <1>2, SendTypes, MasterMessageTypes DEF MessagesTypeOK
<1>5. Tail(toMaster[h]) \in Seq(MasterMessage)
  BY <1>3, HeadTailProperties DEF MessagesTypeOK
<1> QED BY <1>3, <1>4, <1>5 DEF MessagesTypeOK

LEMMA QmasterStepTypes ==
  ASSUME MasterInv, MessagesTypeOK, QmasterStep
  PROVE  MessagesTypeOK'
<1>1. CASE ResendPops \/ DeletePending \/ Bury
  BY <1>1 DEF ResendPops, DeletePending, Bury, MessagesTypeOK
<1>2. CASE ResendHandler
  <2>1. UNCHANGED <<up, toMaster>>
    BY <1>2 DEF ResendHandler
  <2>2. \/ UNCHANGED toExecd
        \/ /\ ja.host \in Host /\ ja.run \in Run
           /\ Send(ja.host, JobMessage(ja.run))
    BY <1>2 DEF ResendHandler, MasterInv, Sent
  <2> QED BY <2>1, <2>2, SendTypes, MasterMessageTypes DEF MessagesTypeOK
<1>3. CASE DeleteSent \/ DeleteForced \/ SignalResend
  <2>1. /\ UNCHANGED <<up, toMaster>>
        /\ \/ UNCHANGED toExecd
           \/ ja.host \in Host /\ SignalJob(ja.host)
    BY <1>3 DEF DeleteSent, DeleteForced, SignalResend, MasterInv
  <2> QED BY <2>1, SignalJobTypes DEF MessagesTypeOK
<1>4. ASSUME NEW h \in Host, ReceiveReport(h) PROVE MessagesTypeOK'
  BY <1>4, ReceiveReportTypes
<1>5. ASSUME NEW h \in Host, ReceiveSigAck(h) PROVE MessagesTypeOK'
  <2>1. Tail(toMaster[h]) \in Seq(MasterMessage)
    BY <1>5, HeadTailProperties DEF MessagesTypeOK, ReceiveSigAck
  <2> QED BY <1>5, <2>1 DEF MessagesTypeOK, ReceiveSigAck
<1>6. ASSUME NEW h \in Host, StartJob(h) PROVE MessagesTypeOK'
  <2>1. ja.run + 1 \in Run
    BY <1>6 DEF StartJob, MasterInv, JaTask, Run
  <2>2. /\ UNCHANGED <<up, toMaster>>
        /\ UNCHANGED toExecd \/ Send(h, JobMessage(ja.run + 1))
    BY <1>6 DEF StartJob
  <2> QED BY <2>1, <2>2, SendTypes, MasterMessageTypes DEF MessagesTypeOK
<1>7. ASSUME NEW h \in Host, HostUnknown(h) \/ RescheduleUnknown(h) \/ ManualReschedule(h)
      PROVE  MessagesTypeOK'
  BY <1>7 DEF HostUnknown, RescheduleUnknown, ManualReschedule, RescheduleFrom, MessagesTypeOK
<1> QED BY <1>1, <1>2, <1>3, <1>4, <1>5, <1>6, <1>7 DEF QmasterStep

-----------------------------------------------------------------------------
(* The theorems                                                              *)

LEMMA ExecdNext ==
  ASSUME MasterInv, ExecdInv, [Next]_vars
  PROVE  ExecdInv'
<1>1. CASE QmasterStep /\ UNCHANGED evars
  <2>1. MessagesTypeOK'
    BY <1>1, QmasterStepTypes DEF ExecdInv
  <2> QED BY <1>1, <2>1 DEF evars, ExecdInv, ExecdTypeOK, ListInv, PhaseInv, KnownJobIsSpooled
<1>2. CASE \E h \in Host : ExecdStep(h)
  BY <1>2, ExecdStepKeeps
<1>3. CASE UNCHANGED vars
  BY <1>3 DEF vars, evars, ExecdInv, MessagesTypeOK, ExecdTypeOK, ListInv, PhaseInv, KnownJobIsSpooled
<1> QED BY <1>1, <1>2, <1>3 DEF Next

\* The inductive invariant of the daemons and of the connections: it needs that
\* of the qmaster, which says what the messages to the daemons may be.
THEOREM ExecdInvHolds == Spec => []ExecdInv
<1>1. Init => ExecdInv
  <2>1. Init => MessagesTypeOK
    BY DEF Init, MessagesInit, MessagesTypeOK
  <2>2. Init => ExecdTypeOK /\ ListInv /\ PhaseInv /\ KnownJobIsSpooled
    BY DEF Init, ExecdInit, ExecdTypeOK, Phase, ListInv, PhaseInv, KnownJobIsSpooled
  <2> QED BY <2>1, <2>2 DEF ExecdInv
<1>2. MasterInv /\ ExecdInv /\ [Next]_vars => ExecdInv'
  BY ExecdNext
<1> QED BY <1>1, <1>2, MasterInvHolds, PTL DEF Spec

\* The state of the daemons and the messages have their types, and a report
\* list never has more than two entries of the job: process_job_report() and
\* do_ack() find at most one entry too many.
THEOREM ExecdTypeCorrect == Spec => [](MessagesTypeOK /\ ExecdTypeOK)
<1>1. ExecdInv => MessagesTypeOK /\ ExecdTypeOK BY DEF ExecdInv
<1> QED BY <1>1, ExecdInvHolds, PTL

\* Whenever a daemon may die, its spool file names the job it knows, so that
\* the restarted daemon finds the job again.
THEOREM KnownJobSurvivesCrash == Spec => []KnownJobIsSpooled
<1>1. ExecdInv => KnownJobIsSpooled BY DEF ExecdInv
<1> QED BY <1>1, ExecdInvHolds, PTL

-----------------------------------------------------------------------------
(* The reschedule unknown lists                                              *)

RuList == {list \in Seq(RuState) : Len(list) <= 2}

\* The list of the job's host has room for one more entry: Reschedule() adds
\* one without looking at the list.
Listed(s) ==
  /\ s.ru \in [Host -> RuList]
  /\ s.ja.status \in Sent => Len(s.ru[s.ja.host]) <= 1

LEMMA Entries ==
  /\ <<>> \in RuList /\ Len(<<>>) = 0
  /\ \A e \in RuState : <<e>> \in RuList /\ Len(<<e>>) = 1
  /\ \A e, f \in RuState : <<e>> \o <<f>> \in RuList /\ <<e>> \o <<>> \in RuList
                           /\ <<>> \o <<e>> \in RuList
  /\ <<>> \o <<>> = <<>>
BY DEF RuList

LEMMA Sizes ==
  ASSUME NEW list \in RuList
  PROVE  list = <<>> \/ Len(list) = 1 \/ Len(list) = 2
<1>1. list \in Seq(RuState) /\ Len(list) <= 2
  BY DEF RuList
<1> DEFINE n == Len(list)
<1>2. list = <<>> \/ n \in Nat \ {0}
  BY <1>1, EmptySeq
<1>3. n <= 2
  BY <1>1
<1> HIDE DEF n
<1>4. n \in Nat \ {0} => n = 1 \/ n = 2
  BY <1>3
<1> QED BY <1>2, <1>4 DEF n

LEMMA ListFields ==
  ASSUME NEW s, Sound(s), NEW h \in Host, NEW list
  PROVE  LET t == WithList(s, h, list)
         IN t.ja = s.ja /\ t.ru = [s.ru EXCEPT ![h] = list]
BY DEF Sound, WithList

LEMMA ListListed ==
  ASSUME NEW s, Sound(s), Listed(s), NEW h \in Host, NEW list \in RuList,
         Len(list) <= Len(s.ru[h])
  PROVE  Listed(WithList(s, h, list))
<1> DEFINE t == WithList(s, h, list)
<1>1. t.ja = s.ja /\ t.ru = [s.ru EXCEPT ![h] = list]
  BY ListFields
<1> HIDE DEF t
<1>2. t.ru \in [Host -> RuList]
  BY <1>1 DEF Listed
<1>3. s.ja.status \in Sent => Len(t.ru[s.ja.host]) <= 1
  <2>1. CASE s.ja.host = h
    <3>1. s.ja.status \in Sent => Len(s.ru[h]) <= 1
      BY <2>1 DEF Listed
    <3>2. s.ru[h] \in Seq(RuState) /\ list \in Seq(RuState)
      BY DEF Listed, RuList
    <3>3. Len(s.ru[h]) \in Nat /\ Len(list) \in Nat
      BY <3>2, LenProperties
    <3>4. t.ru[s.ja.host] = list
      BY <1>1, <2>1 DEF Listed
    <3> QED BY <3>1, <3>3, <3>4
  <2>2. CASE s.ja.host # h
    BY <1>1, <2>2 DEF Listed, Sound
  <2> QED BY <2>1, <2>2
<1> QED BY <1>1, <1>2, <1>3 DEF Listed, t

LEMMA AckListed ==
  ASSUME NEW s, Sound(s), Listed(s), NEW ack
  PROVE  Listed(SendAck(s, ack))
<1>1. SendAck(s, ack).ja = s.ja /\ SendAck(s, ack).ru = s.ru
  BY DEF SendAck, Sound
<1> QED BY <1>1 DEF Listed

LEMMA FinishListed ==
  ASSUME NEW s, Sendable(s), s.ru \in [Host -> RuList]
  PROVE  Listed(Finish(s))
<1> DEFINE Rest(h) == IF s.ru[h] = <<>> THEN <<>> ELSE Tail(s.ru[h])
<1>1. Finish(s).ja.status = "JFINISHED"
  BY FinishFine
<1>2. Finish(s).ru = [h \in Host |-> Rest(h)]
  BY DEF Finish, WithTask, Sendable
<1>3. ASSUME NEW h \in Host PROVE Rest(h) \in RuList
  <2>1. s.ru[h] \in Seq(RuState) /\ Len(s.ru[h]) <= 2
    BY DEF RuList
  <2>2. CASE s.ru[h] # <<>>
    <3>1. /\ Tail(s.ru[h]) \in Seq(RuState) /\ Len(Tail(s.ru[h])) = Len(s.ru[h]) - 1
          /\ Len(s.ru[h]) \in Nat
      BY <2>1, <2>2, HeadTailProperties
    <3> QED BY <2>1, <2>2, <3>1 DEF RuList
  <2> QED BY <2>2, Entries
<1> HIDE DEF Rest
<1> QED BY <1>1, <1>2, <1>3 DEF Listed, Sent

LEMMA RescheduleListed ==
  ASSUME NEW s, Sendable(s), Listed(s), s.ja.status \in Sent, s.ja.host \in Host,
         ~Deleted(s.ja)
  PROVE  Listed(Reschedule(s))
<1> DEFINE j == [s.ja EXCEPT !.status = "JIDLE", !.host = NoHost,
                             !.state = @ \cap {"JDEFERRED_REQ"}]
           t == WithTask(s, j)
           list == Append(s.ru[s.ja.host], SKIP_JR)
<1>1. Reschedule(s) = WithList(t, s.ja.host, list)
  BY DEF Reschedule
<1>2. t = [ja |-> j, resend |-> s.resend, ru |-> s.ru, acks |-> s.acks]
  BY DEF Sendable, WithTask
<1>3. j.status = "JIDLE"
  BY DEF Sendable, JaTask
<1>4. list \in RuList
  <2>1. s.ru[s.ja.host] \in Seq(RuState) /\ Len(s.ru[s.ja.host]) <= 1 /\ SKIP_JR \in RuState
    BY DEF Listed, RuList, RuState
  <2>2. list \in Seq(RuState) /\ Len(list) = Len(s.ru[s.ja.host]) + 1
    BY <2>1, AppendProperties
  <2>3. Len(s.ru[s.ja.host]) \in Nat
    BY <2>1, LenProperties
  <2> QED BY <2>1, <2>2, <2>3 DEF RuList
<1> HIDE DEF j, list
<1>5. /\ WithList(t, s.ja.host, list).ja = j
      /\ WithList(t, s.ja.host, list).ru = [s.ru EXCEPT ![s.ja.host] = list]
  BY <1>2 DEF WithList
<1> QED BY <1>1, <1>3, <1>4, <1>5 DEF Listed, Sent

LEMMA JobExitListed ==
  ASSUME NEW s, NEW outcome, Sound(s), Listed(s)
  PROVE  Listed(JobExit(s, outcome))
<1> DEFINE c == [s EXCEPT !.resend = 0]
<1>1. /\ c = [ja |-> c.ja, resend |-> c.resend, ru |-> c.ru, acks |-> c.acks]
      /\ c.ja = s.ja /\ c.resend = 0 /\ c.acks = s.acks /\ c.ru = s.ru
  BY CancelFields DEF Sound
<1>2. JobExit(s, outcome) = IF s.ja.status \notin Sent THEN c
                            ELSE IF Deleted(s.ja) \/ outcome = "done" THEN Finish(c)
                            ELSE Reschedule(c)
  BY DEF JobExit
<1> HIDE DEF c
<1>3. Sendable(c) /\ Listed(c) BY <1>1 DEF Sendable, Sound, Listed
<1>4. Listed(c) => c.ru \in [Host -> RuList] BY DEF Listed
<1>5. s.ja.status \in Sent => c.ja.host \in Host BY <1>1 DEF Sound
<1> QED BY <1>1, <1>2, <1>3, <1>4, <1>5, FinishListed, RescheduleListed

LEMMA SkipRestartedListed ==
  ASSUME NEW s, NEW h \in Host, NEW jr, Sound(s), Listed(s), s.ru[h] # <<>>
  PROVE  Listed(SkipRestarted(s, h, jr))
<1> DEFINE list == [s.ru[h] EXCEPT ![1] = SKIP_JR]
           back == WithList(s, h, list)
<1>1. SkipRestarted(s, h, jr) \in {SendAck(back, "ACK_SIGNAL_JOB"),
                                  SendAck(Undeferred(s), "ACK_JOB_EXIT"), s}
  BY DEF SkipRestarted
<1>2. list \in RuList /\ Len(list) = Len(s.ru[h])
  <2>1. s.ru[h] \in RuList /\ s.ru[h] \in Seq(RuState) /\ SKIP_JR \in RuState
    BY DEF Listed, RuList, RuState
  <2>2. DOMAIN s.ru[h] = 1 .. Len(s.ru[h])
    BY <2>1
  <2>3. list \in Seq(RuState) /\ Len(list) = Len(s.ru[h])
    BY <2>1, <2>2
  <2> QED BY <2>1, <2>3 DEF RuList
<1>3. Len(list) <= Len(s.ru[h])
  <2>1. s.ru[h] \in Seq(RuState) BY DEF Listed, RuList
  <2>2. Len(s.ru[h]) \in Nat BY <2>1, LenProperties
  <2> QED BY <1>2, <2>2
<1> HIDE DEF list
<1>4. Sound(back) /\ Listed(back)
  BY <1>2, <1>3, ListFine, ListListed DEF Fine
<1> HIDE DEF back
<1>5. Listed(SendAck(back, "ACK_SIGNAL_JOB"))
  BY <1>4, AckListed
<1>6. Sound(Undeferred(s)) /\ Listed(Undeferred(s))
  <2>1. Sound(Undeferred(s)) BY UndeferredFine DEF Fine
  <2>2. /\ Undeferred(s).ru = s.ru /\ Undeferred(s).ja.status = s.ja.status
        /\ Undeferred(s).ja.host = s.ja.host
    BY DEF Undeferred, WithTask, Sound, JaTask
  <2> QED BY <2>1, <2>2 DEF Listed
<1>7. Listed(SendAck(Undeferred(s), "ACK_JOB_EXIT"))
  BY <1>6, AckListed
<1> QED BY <1>1, <1>5, <1>7

LEMMA RunningListed ==
  ASSUME NEW s, Sound(s), Listed(s)
  PROVE  Listed(Running(s))
<1> DEFINE warned == IF Deleted(s.ja) THEN SendAck(s, "ACK_SIGNAL_JOB") ELSE s
<1>1. Sound(warned) /\ Listed(warned) /\ Listed(SendAck(s, "ACK_SIGNAL_JOB"))
  BY AckFine, AckListed DEF Fine, Ack
<1>2. Running(s) = CASE s.ja.status = "buried" -> SendAck(s, "ACK_SIGNAL_JOB")
                     [] s.ja.status = "JTRANSFERING" -> Arrived(warned)
                     [] s.ja.status = "JRUNNING" -> warned
                     [] OTHER -> s
  BY DEF Running
<1>3. warned.ja = s.ja BY DEF SendAck, Sound
<1> HIDE DEF warned
<1>4. s.ja.status = "JTRANSFERING" => Listed(Arrived(warned))
  <2>1. /\ Arrived(warned).ru = warned.ru /\ Arrived(warned).ja.host = warned.ja.host
    BY <1>1 DEF Arrived, WithTask, Sound, JaTask
  <2> QED BY <1>1, <1>3, <2>1 DEF Listed, Sent
<1> QED BY <1>1, <1>2, <1>4

LEMMA JobReportedListed ==
  ASSUME NEW s, NEW h \in Host, NEW jr, Sound(s), Listed(s)
  PROVE  Listed(JobReported(s, h, jr))
<1>1. CASE s.ru[h] # <<>>
  BY <1>1, SkipRestartedListed DEF JobReported
<1>2. CASE s.ru[h] = <<>>
  <2>1. JobReported(s, h, jr) \in {Exited(s, jr.outcome), Running(s)}
    BY <1>2 DEF JobReported
  <2>2. Listed(Exited(s, jr.outcome))
    <3>1. /\ Sound(JobExit(s, jr.outcome)) /\ Listed(JobExit(s, jr.outcome))
      BY JobExitFine, JobExitListed DEF Fine
    <3> QED BY <3>1, AckListed DEF Exited
  <2> QED BY <2>1, <2>2, RunningListed
<1> QED BY <1>1, <1>2

\* Update() and Purge() give a host another list that is not longer.
LEMMA UpdatedList ==
  ASSUME NEW s, NEW h \in Host, Listed(s)
  PROVE  \E list \in RuList : /\ Len(list) <= Len(s.ru[h]) /\ (s.ru[h] = <<>> => list = <<>>)
                              /\ Update(s, h) = WithList(s, h, list)
<1> DEFINE old == s.ru[h]
           F(i) == IF old[i] = SKIP_JR THEN SKIP_JR_SEND_ACK ELSE SKIP_JR_REMOVE
           new == [i \in DOMAIN old |-> F(i)]
<1>1. old \in Seq(RuState) /\ Len(old) <= 2 /\ Len(old) \in Nat
  BY DEF Listed, RuList
<1>2. DOMAIN old = 1 .. Len(old)
  BY <1>1
<1>3. \A i \in DOMAIN old : F(i) \in RuState
  BY DEF RuState
<1>4. Update(s, h) = WithList(s, h, new)
  BY DEF Update
<1> HIDE DEF F, old
<1>5. new \in Seq(RuState) /\ Len(new) = Len(old)
  BY <1>1, <1>2, <1>3
<1>6. old = <<>> => new = <<>>
  BY <1>2
<1> HIDE DEF new
<1>7. new \in RuList /\ Len(new) <= Len(old)
  BY <1>1, <1>5 DEF RuList
<1> QED BY <1>4, <1>6, <1>7 DEF old

LEMMA PurgedList ==
  ASSUME NEW s, NEW h \in Host, Listed(s)
  PROVE  \E list \in RuList : /\ Len(list) <= Len(s.ru[h]) /\ (s.ru[h] = <<>> => list = <<>>)
                              /\ Purge(s, h) = WithList(s, h, list)
<1> DEFINE old == s.ru[h]
           Left(i) == IF old[i] = SKIP_JR_REMOVE THEN <<>> ELSE <<old[i]>>
           new == CASE old = <<>> -> <<>> [] Len(old) = 1 -> Left(1)
                    [] OTHER -> Left(1) \o Left(2)
<1>1. old \in Seq(RuState) /\ Len(old) \in Nat /\ Len(old) <= 2
  BY DEF Listed, RuList
<1>2. \A i \in 1 .. Len(old) : Left(i) \in Seq(RuState) /\ Len(Left(i)) <= 1 /\ Len(Left(i)) \in Nat
  BY <1>1
<1>3. Purge(s, h) = WithList(s, h, new)
  BY DEF Purge
<1>4. new \in RuList /\ Len(new) <= Len(old) /\ (old = <<>> => new = <<>>)
  <2>1. CASE old = <<>>
    BY <2>1, Entries
  <2>2. CASE Len(old) = 1
    <3>1. new = Left(1) /\ 1 \in 1 .. Len(old) /\ old # <<>>
      BY <2>2
    <3> HIDE DEF Left
    <3> QED BY <1>2, <2>2, <3>1 DEF RuList
  <2>3. CASE Len(old) = 2
    <3>1. new = Left(1) \o Left(2) /\ 1 \in 1 .. Len(old) /\ 2 \in 1 .. Len(old) /\ old # <<>>
      BY <2>3
    <3> HIDE DEF Left, new
    <3>2. /\ Left(1) \o Left(2) \in Seq(RuState)
          /\ Len(Left(1) \o Left(2)) = Len(Left(1)) + Len(Left(2))
      BY <1>2, <3>1, ConcatProperties
    <3> QED BY <1>2, <2>3, <3>1, <3>2 DEF RuList
  <2>4. old = <<>> \/ Len(old) = 1 \/ Len(old) = 2
    BY Sizes DEF Listed
  <2> HIDE DEF new, old
  <2> QED BY <2>1, <2>2, <2>3, <2>4
<1> HIDE DEF new, old
<1> QED BY <1>3, <1>4 DEF old

\* A report of a host keeps the lists, and their room.
LEMMA ReportListed ==
  ASSUME NEW s, NEW h \in Host, NEW list, Sound(s), Listed(s)
  PROVE  Listed(ReportResult(s, h, list))
<1>1. Sound(Update(s, h)) /\ Listed(Update(s, h))
  BY UpdatedList, ListFine, ListListed DEF Fine
<1>2. ASSUME NEW t, Sound(t), Listed(t)
      PROVE  Sound(ProcessJobReport(t, h, list)) /\ Listed(ProcessJobReport(t, h, list))
  <2>1. Sound(JobReported(t, h, list[1])) /\ Listed(JobReported(t, h, list[1]))
    BY <1>2, JobReportedFine, JobReportedListed DEF Fine
  <2>2. /\ Sound(JobReported(JobReported(t, h, list[1]), h, list[2]))
        /\ Listed(JobReported(JobReported(t, h, list[1]), h, list[2]))
    BY <2>1, JobReportedFine, JobReportedListed DEF Fine
  <2>3. ProcessJobReport(t, h, list) \in
          {t, JobReported(t, h, list[1]), JobReported(JobReported(t, h, list[1]), h, list[2])}
    BY DEF ProcessJobReport
  <2> QED BY <1>2, <2>1, <2>2, <2>3
<1>3. ASSUME NEW t, Sound(t), Listed(t) PROVE Listed(Purge(t, h))
  BY <1>3, PurgedList, ListListed
<1> QED BY <1>1, <1>2, <1>3 DEF ReportResult

-----------------------------------------------------------------------------
(* The qmaster's steps and the lists                                         *)

\* The part of TypeOK that neither MasterInv nor ExecdInv says.
RuInv ==
  /\ ru \in [Host -> RuList]
  /\ ja.status \in Sent => Len(ru[ja.host]) <= 1
  /\ sigresend \in BOOLEAN /\ unknown \subseteq Host

LEMMA RuCommit ==
  ASSUME MasterInv, RuInv, NEW s, Listed(s), Commit(s), sigresend' \in BOOLEAN,
         unknown' \subseteq Host
  PROVE  RuInv'
BY DEF RuInv, Listed, Commit

LEMMA SnapshotListed ==
  ASSUME MasterInv, RuInv
  PROVE  Sound(Snapshot) /\ Listed(Snapshot) /\ Sendable(Snapshot)
<1>1. Sound(Snapshot) BY SnapshotSound
<1>2. Listed(Snapshot) BY DEF Snapshot, RuInv, Listed
<1> QED BY <1>1, <1>2 DEF Sound, Sendable

LEMMA RescheduleFromRu ==
  ASSUME MasterInv, RuInv, NEW h \in Host, NEW state, RescheduleFrom(h, state),
         state \in SUBSET {"JDELETED", "JDEFERRED_REQ"}, "JDELETED" \notin state
  PROVE  RuInv'
<1> DEFINE j == [ja EXCEPT !.state = state]
           t == WithTask(Snapshot, j)
           one == Append(ru[h], SKIP_JR_REMOVE)
           marked == WithList(t, h, one)
<1>1. /\ ja.status \in Sent /\ ja.host = h /\ ru[h] = <<>> /\ Commit(JobExit(marked, "again"))
      /\ UNCHANGED <<sigresend, unknown>>
  BY DEF RescheduleFrom
<1>2. /\ j \in JaTask /\ j.status = ja.status /\ j.host = ja.host /\ j.run = ja.run
      /\ j.state = state
  BY DEF MasterInv, JaTask
<1> HIDE DEF j
<1>3. t = [ja |-> j, resend |-> resend, ru |-> ru, acks |-> <<>>]
  BY DEF Snapshot, WithTask
<1> HIDE DEF t
<1>4. Sound(t) BY <1>2, <1>3 DEF Sound, MasterInv, ResendIsArmed, Deleted
<1>5. Sound(marked) BY <1>4, ListFine DEF Fine
<1>6. one \in RuList /\ Len(one) = 1
  <2>1. one = <<SKIP_JR_REMOVE>> /\ SKIP_JR_REMOVE \in RuState
    BY <1>1 DEF RuState
  <2> QED BY <2>1, Entries
<1> HIDE DEF one
<1>7. marked.ja = j /\ marked.ru = [ru EXCEPT ![h] = one]
  BY <1>3 DEF WithList
<1> HIDE DEF marked
<1>8. Listed(marked)
  <2>1. marked.ja.host = h
    BY <1>1, <1>2, <1>7
  <2>2. marked.ru \in [Host -> RuList] /\ marked.ru[h] = one
    BY <1>6, <1>7 DEF RuInv
  <2>3. Len(marked.ru[marked.ja.host]) = 1
    BY <1>6, <2>1, <2>2
  <2> QED BY <2>2, <2>3 DEF Listed
<1>9. Listed(JobExit(marked, "again"))
  BY <1>5, <1>8, JobExitListed
<1> QED BY <1>1, <1>9, RuCommit DEF RuInv

LEMMA RuStep ==
  ASSUME MasterInv, RuInv, [Next]_vars
  PROVE  RuInv'
<1>1. CASE UNCHANGED mvars
  BY <1>1 DEF mvars, RuInv
<1>2. CASE QmasterStep
  <2>1. ASSUME ResendPops \/ ResendHandler \/ DeleteSent \/ SignalResend \/ Bury
        PROVE  RuInv'
    <3>1. ru' = ru /\ sigresend' \in BOOLEAN /\ unknown' \subseteq Host
      BY <2>1 DEF ResendPops, ResendHandler, DeleteSent, SignalResend, Bury, SignalJob,
                  RuInv, MasterInv, Sent
    <3>2. ja'.status \in Sent => ja.status \in Sent /\ ja'.host = ja.host
      BY <2>1 DEF ResendPops, ResendHandler, DeleteSent, SignalResend, Bury, MasterInv,
                  JaTask, Sent
    <3> QED BY <3>1, <3>2 DEF RuInv
  <2>2. ASSUME DeletePending PROVE RuInv'
    <3>1. Listed(Finish(Snapshot))
      BY SnapshotListed, FinishListed DEF Listed
    <3> QED BY <2>2, <3>1, RuCommit DEF DeletePending, RuInv
  <2>3. ASSUME DeleteForced PROVE RuInv'
    <3> DEFINE s == Finish(Snapshot)
               t == [s EXCEPT !.resend = 0]
    <3>1. Commit(t) /\ unknown' = unknown /\ sigresend' \in BOOLEAN
      BY <2>3 DEF DeleteForced, SignalJob, RuInv
    <3>2. Sound(s) /\ Listed(s)
      BY SnapshotListed, FinishListed, FinishFine DEF Listed, Fine
    <3> HIDE DEF s
    <3>3. t.ja = s.ja /\ t.ru = s.ru
      BY <3>2, CancelFields DEF Sound
    <3>4. Listed(t)
      BY <3>2, <3>3 DEF Listed
    <3> HIDE DEF t
    <3> QED BY <3>1, <3>4, RuCommit DEF RuInv
  <2>4. ASSUME NEW h \in Host, ReceiveReport(h) PROVE RuInv'
    <3> DEFINE s == ReportResult(Snapshot, h, Head(toMaster[h]).jrs)
    <3>1. Commit(s) /\ unknown' \in {unknown, unknown \ {h}} /\ sigresend' = sigresend
      BY <2>4 DEF ReceiveReport
    <3>2. Listed(s)
      BY SnapshotListed, ReportListed
    <3> HIDE DEF s
    <3> QED BY <3>1, <3>2, RuCommit DEF RuInv
  <2>5. ASSUME NEW h \in Host, ReceiveSigAck(h) \/ HostUnknown(h) PROVE RuInv'
    BY <2>5 DEF ReceiveSigAck, HostUnknown, RuInv
  <2>6. ASSUME NEW h \in Host, StartJob(h) PROVE RuInv'
    <3>1. /\ ru' = ru /\ ru[h] = <<>> /\ sigresend' = sigresend /\ unknown' \subseteq Host
          /\ ja.status = "JIDLE"
          /\ ja'.host = h \/ ja' = [ja EXCEPT !.state = {}]
      BY <2>6 DEF StartJob, RuInv
    <3>2. ja' = [ja EXCEPT !.state = {}] => ja'.status = "JIDLE"
      BY <3>1, <2>6 DEF MasterInv, JaTask, StartJob
    <3> QED BY <2>6, <3>1, <3>2 DEF RuInv, Sent, StartJob
  <2>7. ASSUME NEW h \in Host, RescheduleUnknown(h) \/ ManualReschedule(h) PROVE RuInv'
    <3>1. ja.state \in SUBSET {"JDELETED", "JDEFERRED_REQ"} BY DEF MasterInv, JaTask
    <3>2. "JDELETED" \notin ja.state
      BY <2>7 DEF RescheduleUnknown, ManualReschedule, RescheduleFrom, Deleted
    <3>3. CASE RescheduleUnknown(h)
      BY <3>1, <3>2, <3>3, RescheduleFromRu DEF RescheduleUnknown
    <3>4. CASE ManualReschedule(h)
      BY <3>1, <3>2, <3>4, RescheduleFromRu DEF ManualReschedule
    <3> QED BY <2>7, <3>3, <3>4
  <2> QED BY <1>2, <2>1, <2>2, <2>3, <2>4, <2>5, <2>6, <2>7 DEF QmasterStep
<1> QED BY <1>1, <1>2 DEF Next, vars

LEMMA RuInvHolds == Spec => []RuInv
<1>1. Init => RuInv
  <2>1. Init => ru = [h \in Host |-> <<>>] /\ ja.status = "JIDLE" /\ sigresend = FALSE /\ unknown = {}
    BY DEF Init, QmasterInit
  <2>2. <<>> \in RuList
    BY Entries
  <2> QED BY <2>1, <2>2 DEF RuInv, Sent
<1>2. MasterInv /\ RuInv /\ [Next]_vars => RuInv'
  BY RuStep
<1> QED BY <1>1, <1>2, MasterInvHolds, PTL DEF Spec

\* Every variable of the protocol keeps its type.
THEOREM TypeCorrect == Spec => []TypeOK
<1>1. MasterInv /\ RuInv => QmasterTypeOK
  BY DEF MasterInv, RuInv, RuList, QmasterTypeOK
<1> QED BY <1>1, MasterInvHolds, RuInvHolds, ExecdTypeCorrect, PTL DEF TypeOK
-----------------------------------------------------------------------------
(***************************************************************************)
(* However often an order is sent, the job is executed once for it.  What  *)
(* the daemons know of an order is whether they have the job; that is      *)
(* enough because the connections keep the order of messages: what makes a *)
(* daemon forget the job is never sent while the order may be repeated.    *)
(***************************************************************************)

\* The daemon of host h has the job, for run r.
HasRun(h, r) == task[h] # NoTask /\ task[h].run = r

\* The qmaster may send the order for run r again.
MayResend(h, r) == ja.status = "JTRANSFERING" /\ ja.host = h /\ ja.run = r

\* Behind the j-th message to h there is an order for run r, or there may be
\* one soon.
OrderAfter(h, r, j) ==
  \/ MayResend(h, r)
  \/ \E k \in DOMAIN toExecd[h] : k > j /\ toExecd[h][k] = JobMessage(r)

Concerns(h, r) == HasRun(h, r) \/ OrderAfter(h, r, 0)

ExitAck(m) ==
  /\ m.tag = "TAG_ACK_REQUEST"
  /\ \E i \in DOMAIN m.acks : m.acks[i] = "ACK_JOB_EXIT"

-----------------------------------------------------------------------------
(* The inductive invariant                                                   *)

\* Runs are numbered in the order in which the qmaster starts them.
RunsAreKnown ==
  \A r \in Run : (\E h \in Host : Concerns(h, r)) \/ starts[r] > 0 => r <= ja.run

OneHost ==
  \A g \in Host, h \in Host, r \in Run : Concerns(g, r) /\ Concerns(h, r) => g = h

\* An order that is still to come finds the job, or was never obeyed.
OrdersAreSafe ==
  \A h \in Host, r \in Run : OrderAfter(h, r, 0) => HasRun(h, r) \/ starts[r] = 0

\* An acknowledgement of an exit before an order for a run is older than all
\* orders for this run.
AcksAreOlder ==
  \A h \in Host, r \in Run : \A j \in DOMAIN toExecd[h] :
    ExitAck(toExecd[h][j]) /\ OrderAfter(h, r, j)
      => ~HasRun(h, r) /\ \A i \in 1 .. j : toExecd[h][i] # JobMessage(r)

\* Where a daemon is about to start the job.
StartsAreFirst ==
  \A h \in Host : phase[h] # "dead" /\ (phase[h] = "start" => starts[task[h].run] = 0)

\* There is no old instance to wait for on the host of the job.
HostIsClear == ja.status \in Sent => ru[ja.host] = <<>>

RunInv ==
  /\ RunsAreKnown /\ OneHost /\ OrdersAreSafe /\ AcksAreOlder
  /\ StartsAreFirst /\ NoDoubleStart

-----------------------------------------------------------------------------
(* Messages                                                                  *)

LEMMA Kinds ==
  /\ \A r, q \in Run : JobMessage(r) = JobMessage(q) => r = q
  /\ \A r \in Run : ~ExitAck(JobMessage(r)) /\ JobMessage(r) # SignalMessage
  /\ ~ExitAck(SignalMessage)
  /\ \A m : m.tag = "TAG_ACK_REQUEST" => \A r \in Run : m # JobMessage(r)
BY DEF JobMessage, SignalMessage, ExitAck

\* The j-th message of p is what has become of the (j + d)-th message of q: no
\* order and no acknowledgement of an exit is new.
Shifted(q, p, d) ==
  \A j \in DOMAIN p :
    /\ j + d \in DOMAIN q
    /\ \A r \in Run : p[j] = JobMessage(r) => q[j + d] = JobMessage(r)
    /\ ExitAck(p[j]) => ExitAck(q[j + d])

LEMMA QueueDomain ==
  ASSUME ExecdInv, NEW h \in Host
  PROVE  DOMAIN toExecd[h] = 1 .. Len(toExecd[h]) /\ Len(toExecd[h]) \in Nat
<1>1. toExecd[h] \in Seq(ExecdMessage)
  BY DEF ExecdInv, MessagesTypeOK
<1> QED BY <1>1, LenProperties

LEMMA TakeShifts ==
  ASSUME ExecdInv, NEW h \in Host, toExecd[h] # <<>>, Take(h)
  PROVE  /\ Shifted(toExecd[h], toExecd'[h], 1)
         /\ \A g \in Host \ {h} : toExecd'[g] = toExecd[g]
<1>1. toExecd[h] \in Seq(ExecdMessage) /\ toExecd'[h] = Tail(toExecd[h])
  BY DEF ExecdInv, MessagesTypeOK, Take
<1>2. \A g \in Host \ {h} : toExecd'[g] = toExecd[g]
  BY DEF ExecdInv, MessagesTypeOK, Take
<1>3. Len(Tail(toExecd[h])) = Len(toExecd[h]) - 1 /\ Tail(toExecd[h]) \in Seq(ExecdMessage)
  BY <1>1, HeadTailProperties
<1>4. \A j \in DOMAIN Tail(toExecd[h]) :
        j + 1 \in DOMAIN toExecd[h] /\ Tail(toExecd[h])[j] = toExecd[h][j + 1]
  BY <1>1, <1>3
<1> QED BY <1>1, <1>2, <1>4 DEF Shifted

\* What is behind the j-th message of the rest was behind the (j + d)-th.
LEMMA ShiftedOrders ==
  ASSUME ExecdInv, NEW h \in Host, NEW d \in Nat, Shifted(toExecd[h], toExecd'[h], d),
         NEW r \in Run, MayResend(h, r)' => MayResend(h, r), NEW j \in Nat,
         DOMAIN toExecd'[h] \subseteq Nat, OrderAfter(h, r, j)'
  PROVE  OrderAfter(h, r, j + d)
<1>1. CASE MayResend(h, r)'
  BY <1>1 DEF OrderAfter
<1>2. CASE ~MayResend(h, r)'
  <2>1. PICK k \in DOMAIN toExecd'[h] : k > j /\ toExecd'[h][k] = JobMessage(r)
    BY <1>2 DEF OrderAfter, JobMessage
  <2>2. k + d \in DOMAIN toExecd[h] /\ toExecd[h][k + d] = JobMessage(r) /\ k + d > j + d
    BY <2>1 DEF Shifted
  <2> QED BY <2>2 DEF OrderAfter
<1> QED BY <1>1, <1>2

\* After a step the orders for a run come only where they could come before,
\* and acknowledgements of exits are as old as before.
NoNew(h, r) ==
  /\ OrderAfter(h, r, 0)' => OrderAfter(h, r, 0)
  /\ \A j \in DOMAIN toExecd'[h] :
       ExitAck(toExecd'[h][j]) /\ OrderAfter(h, r, j)'
         => ~HasRun(h, r) /\ \A i \in 1 .. j : toExecd'[h][i] # JobMessage(r)

NoNewOrders == \A h \in Host, r \in Run : NoNew(h, r)

NoNewTransfer == \A h \in Host, r \in Run : MayResend(h, r)' => MayResend(h, r)

LEMMA ShiftedKeeps ==
  ASSUME ExecdInv, ExecdInv', AcksAreOlder, NEW h \in Host, NEW d \in Nat,
         Shifted(toExecd[h], toExecd'[h], d),
         NEW r \in Run, MayResend(h, r)' => MayResend(h, r)
  PROVE  NoNew(h, r) /\ (OrderAfter(h, r, 0)' => OrderAfter(h, r, d))
<1>1. /\ DOMAIN toExecd[h] = 1 .. Len(toExecd[h]) /\ Len(toExecd[h]) \in Nat
  BY QueueDomain
<1>2. /\ DOMAIN toExecd'[h] = 1 .. Len(toExecd'[h]) /\ Len(toExecd'[h]) \in Nat
  <2>1. toExecd'[h] \in Seq(ExecdMessage)
    BY DEF ExecdInv, MessagesTypeOK
  <2> QED BY <2>1, LenProperties
<1>3. \A j \in Nat : OrderAfter(h, r, j)' => OrderAfter(h, r, j + d)
  BY <1>2, ShiftedOrders
<1>4. ASSUME OrderAfter(h, r, 0)'
      PROVE  OrderAfter(h, r, 0) /\ OrderAfter(h, r, d)
  <2>1. OrderAfter(h, r, 0 + d)
    BY <1>3, <1>4
  <2>2. 0 + d = d
    OBVIOUS
  <2>3. OrderAfter(h, r, d)
    BY <2>1, <2>2
  <2>4. \A k \in DOMAIN toExecd[h] : k > d => k > 0
    BY <1>1
  <2> QED BY <2>3, <2>4 DEF OrderAfter
<1>5. ASSUME NEW j \in DOMAIN toExecd'[h], ExitAck(toExecd'[h][j]), OrderAfter(h, r, j)'
      PROVE  ~HasRun(h, r) /\ \A i \in 1 .. j : toExecd'[h][i] # JobMessage(r)
  <2>1. j \in Nat
    BY <1>2
  <2>2. j + d \in DOMAIN toExecd[h] /\ ExitAck(toExecd[h][j + d]) /\ OrderAfter(h, r, j + d)
    BY <1>3, <1>5, <2>1 DEF Shifted
  <2>3. ~HasRun(h, r) /\ \A i \in 1 .. j + d : toExecd[h][i] # JobMessage(r)
    BY <2>2 DEF AcksAreOlder
  <2>4. ASSUME NEW i \in 1 .. j PROVE toExecd'[h][i] # JobMessage(r)
    <3>1. i \in DOMAIN toExecd'[h] /\ i + d \in 1 .. j + d
      BY <1>2
    <3> QED BY <2>3, <3>1 DEF Shifted
  <2> QED BY <2>3, <2>4
<1> QED BY <1>4, <1>5 DEF NoNew

\* Where no message comes or goes nothing is new.
LEMMA SameQueue ==
  ASSUME ExecdInv, ExecdInv', AcksAreOlder, NEW h \in Host, toExecd'[h] = toExecd[h],
         NEW r \in Run, MayResend(h, r)' => MayResend(h, r)
  PROVE  NoNew(h, r)
<1>1. DOMAIN toExecd[h] = 1 .. Len(toExecd[h]) /\ Len(toExecd[h]) \in Nat
  BY QueueDomain
<1>2. \A j \in DOMAIN toExecd[h] : j + 0 = j
  BY <1>1
<1>3. Shifted(toExecd[h], toExecd'[h], 0)
  BY <1>2 DEF Shifted
<1> QED BY <1>3, ShiftedKeeps

LEMMA QueuesKeep ==
  ASSUME ExecdInv, ExecdInv', AcksAreOlder, NoNewTransfer, UNCHANGED toExecd
  PROVE  NoNewOrders
BY SameQueue DEF NoNewOrders, NoNewTransfer

LEMMA ReceiptKeeps ==
  ASSUME ExecdInv, ExecdInv', AcksAreOlder, NoNewTransfer, NEW h \in Host, NEW d \in Nat,
         Shifted(toExecd[h], toExecd'[h], d),
         \A g \in Host \ {h} : toExecd'[g] = toExecd[g]
  PROVE  NoNewOrders /\ \A r \in Run : OrderAfter(h, r, 0)' => OrderAfter(h, r, d)
BY ShiftedKeeps, SameQueue DEF NoNewOrders, NoNewTransfer

\* A message that is an order only where an order might come, and acknowledges
\* an exit only where no order can follow.
LEMMA SentMessage ==
  ASSUME ExecdInv, AcksAreOlder, NEW h \in Host, NEW m, Send(h, m),
         NEW r \in Run, MayResend(h, r)' => MayResend(h, r),
         m = JobMessage(r) => MayResend(h, r), ExitAck(m) => ~MayResend(h, r)'
  PROVE  NoNew(h, r)
<1> DEFINE q == toExecd[h]
           n == Len(q)
<1>1. q \in Seq(ExecdMessage) /\ DOMAIN q = 1 .. n /\ n \in Nat
  BY QueueDomain DEF ExecdInv, MessagesTypeOK
<1>2. toExecd'[h] = Append(q, m)
  BY DEF ExecdInv, MessagesTypeOK, Send
<1>3. /\ DOMAIN toExecd'[h] = 1 .. n + 1
      /\ toExecd'[h][n + 1] = m
      /\ \A i \in 1 .. n : toExecd'[h][i] = toExecd[h][i]
  BY <1>1, <1>2
<1> HIDE DEF q, n
<1>4. ASSUME NEW j \in Nat, OrderAfter(h, r, j)' PROVE OrderAfter(h, r, j)
  <2>1. CASE MayResend(h, r)'
    BY <2>1 DEF OrderAfter
  <2>2. CASE ~MayResend(h, r)'
    <3>1. PICK k \in DOMAIN toExecd'[h] : k > j /\ toExecd'[h][k] = JobMessage(r)
      BY <1>4, <2>2 DEF OrderAfter, JobMessage
    <3>2. CASE k = n + 1
      BY <1>3, <3>1, <3>2 DEF OrderAfter
    <3>3. CASE k \in 1 .. n
      BY <1>1, <1>3, <3>1, <3>3 DEF OrderAfter, q
    <3> QED BY <1>1, <1>3, <3>1, <3>2, <3>3
  <2> QED BY <2>1, <2>2
<1>5. ASSUME NEW j \in DOMAIN toExecd'[h], ExitAck(toExecd'[h][j]), OrderAfter(h, r, j)'
      PROVE  ~HasRun(h, r) /\ \A i \in 1 .. j : toExecd'[h][i] # JobMessage(r)
  <2>1. CASE j = n + 1
    <3>1. ~MayResend(h, r)'
      BY <1>3, <1>5, <2>1
    <3>2. PICK k \in DOMAIN toExecd'[h] : k > j
      BY <1>5, <3>1 DEF OrderAfter
    <3> QED BY <1>1, <1>3, <2>1, <3>2
  <2>2. CASE j \in 1 .. n
    <3>1. j \in DOMAIN toExecd[h] /\ ExitAck(toExecd[h][j]) /\ OrderAfter(h, r, j)
      BY <1>1, <1>3, <1>4, <1>5, <2>2 DEF q
    <3>2. ~HasRun(h, r) /\ \A i \in 1 .. j : toExecd[h][i] # JobMessage(r)
      BY <3>1 DEF AcksAreOlder
    <3>3. \A i \in 1 .. j : i \in 1 .. n
      BY <1>1, <2>2
    <3> QED BY <1>3, <3>2, <3>3
  <2> QED BY <1>1, <1>3, <2>1, <2>2
<1>6. OrderAfter(h, r, 0)' => OrderAfter(h, r, 0)
  BY <1>4
<1> QED BY <1>5, <1>6 DEF NoNew

LEMMA OtherQueues ==
  ASSUME ExecdInv, NEW h \in Host, NEW m, Send(h, m)
  PROVE  \A g \in Host \ {h} : toExecd'[g] = toExecd[g]
BY DEF ExecdInv, MessagesTypeOK, Send

LEMMA SendKeeps ==
  ASSUME ExecdInv, ExecdInv', AcksAreOlder, NoNewTransfer, NEW h \in Host, NEW m, Send(h, m),
         \A r \in Run : m = JobMessage(r) => MayResend(h, r),
         ExitAck(m) => \A r \in Run : ~MayResend(h, r)'
  PROVE  NoNewOrders
BY SentMessage, OtherQueues, SameQueue DEF NoNewOrders, NoNewTransfer

-----------------------------------------------------------------------------
(* Steps that start nothing                                                  *)

LEMMA RunsKept ==
  ASSUME ExecdInv, RunInv, NoNewOrders, ja'.run = ja.run, UNCHANGED <<task, starts, phase>>
  PROVE  RunInv'
<1>1. \A h \in Host, r \in Run : HasRun(h, r)' <=> HasRun(h, r)
  BY DEF HasRun
<1>2. \A h \in Host, r \in Run : Concerns(h, r)' => Concerns(h, r)
  BY <1>1 DEF Concerns, NoNewOrders, NoNew
<1>3. RunsAreKnown' /\ OneHost'
  BY <1>2 DEF RunInv, RunsAreKnown, OneHost
<1>4. OrdersAreSafe'
  BY <1>1 DEF RunInv, OrdersAreSafe, NoNewOrders, NoNew
<1>5. AcksAreOlder'
  BY <1>1 DEF NoNewOrders, NoNew, AcksAreOlder, JobMessage, ExitAck
<1>6. StartsAreFirst' /\ NoDoubleStart'
  BY DEF RunInv, StartsAreFirst, NoDoubleStart
<1> QED BY <1>3, <1>4, <1>5, <1>6 DEF RunInv

-----------------------------------------------------------------------------
(* Reports, as far as orders may follow them                                 *)

\* While the host of the job handles a report: there is no old instance on it,
\* and if the order is still not confirmed, no exit has been acknowledged.
Clear(s) == s.ja.status \in Sent => s.ru[s.ja.host] = <<>>

Unanswered(s, h) ==
  s.ja.status = "JTRANSFERING" =>
    /\ ja.status = "JTRANSFERING" /\ s.ja.host = ja.host
    /\ s.ja.host = h => \A i \in DOMAIN s.acks : s.acks[i] # "ACK_JOB_EXIT"

Orderly(s, h) ==
  Sound(s) /\ Listed(s) /\ s.acks \in Seq(Ack) /\ Clear(s) /\ Unanswered(s, h)

LEMMA AckOrderly ==
  ASSUME NEW h, NEW s, Orderly(s, h), NEW ack \in Ack,
         ack = "ACK_JOB_EXIT" => s.ja.status # "JTRANSFERING" \/ s.ja.host # h
  PROVE  Orderly(SendAck(s, ack), h)
<1> DEFINE t == SendAck(s, ack)
<1>1. Sound(t) /\ Listed(t) /\ t.acks \in Seq(Ack)
  BY AckFine, AckListed DEF Orderly, Fine, Keeps
<1>2. t.ja = s.ja /\ t.ru = s.ru /\ t.acks = Append(s.acks, ack)
  BY DEF Orderly, Sound, SendAck
<1>3. \A i \in DOMAIN Append(s.acks, ack) :
        \/ i \in DOMAIN s.acks /\ Append(s.acks, ack)[i] = s.acks[i]
        \/ Append(s.acks, ack)[i] = ack
  BY DEF Orderly
<1> HIDE DEF t
<1>4. Clear(t)
  BY <1>2 DEF Orderly, Clear
<1>5. Unanswered(t, h)
  BY <1>2, <1>3 DEF Orderly, Unanswered
<1> QED BY <1>1, <1>4, <1>5 DEF Orderly, t

LEMMA ListOrderly ==
  ASSUME NEW h \in Host, NEW s, Orderly(s, h), NEW list \in RuList,
         Len(list) <= Len(s.ru[h]), s.ru[h] = <<>> => list = <<>>
  PROVE  Orderly(WithList(s, h, list), h)
<1> DEFINE t == WithList(s, h, list)
<1>1. Sound(t) /\ Listed(t) /\ t.acks \in Seq(Ack)
  BY ListFine, ListListed DEF Orderly, Fine, Keeps
<1>2. t.ja = s.ja /\ t.ru = [s.ru EXCEPT ![h] = list] /\ t.acks = s.acks
  BY DEF Orderly, Sound, WithList
<1> HIDE DEF t
<1>3. Clear(t)
  BY <1>2 DEF Orderly, Clear, Listed, Sound
<1>4. Unanswered(t, h)
  BY <1>2 DEF Orderly, Unanswered
<1> QED BY <1>1, <1>3, <1>4 DEF Orderly, t

LEMMA SkipRestartedOrderly ==
  ASSUME NEW h \in Host, NEW s, Orderly(s, h), NEW jr, s.ru[h] # <<>>
  PROVE  Orderly(SkipRestarted(s, h, jr), h)
<1> DEFINE list == [s.ru[h] EXCEPT ![1] = SKIP_JR]
           back == WithList(s, h, list)
<1>1. SkipRestarted(s, h, jr) \in {SendAck(back, "ACK_SIGNAL_JOB"),
                                  SendAck(Undeferred(s), "ACK_JOB_EXIT"), s}
  BY DEF SkipRestarted
<1>2. list \in RuList /\ Len(list) <= Len(s.ru[h])
  <2>1. s.ru[h] \in RuList /\ s.ru[h] \in Seq(RuState) /\ SKIP_JR \in RuState
    BY DEF Orderly, Listed, RuList, RuState
  <2>2. DOMAIN s.ru[h] = 1 .. Len(s.ru[h]) /\ Len(s.ru[h]) \in Nat
    BY <2>1
  <2>3. list \in Seq(RuState) /\ Len(list) = Len(s.ru[h])
    BY <2>1, <2>2
  <2> QED BY <2>1, <2>2, <2>3 DEF RuList
<1> HIDE DEF list
<1>3. Orderly(back, h)
  BY <1>2, ListOrderly
<1> HIDE DEF back
<1>4. Orderly(SendAck(back, "ACK_SIGNAL_JOB"), h)
  BY <1>3, AckOrderly DEF Ack
<1>5. s.ja.status \in Sent => s.ja.host # h
  BY DEF Orderly, Clear
<1>6. Orderly(Undeferred(s), h) /\ Undeferred(s).ja.status = s.ja.status
        /\ Undeferred(s).ja.host = s.ja.host
  <2>1. Sound(Undeferred(s)) BY UndeferredFine DEF Orderly, Fine
  <2>2. /\ Undeferred(s).ru = s.ru /\ Undeferred(s).ja.status = s.ja.status
        /\ Undeferred(s).ja.host = s.ja.host /\ Undeferred(s).acks = s.acks
    BY DEF Undeferred, WithTask, Orderly, Sound, JaTask
  <2> QED BY <2>1, <2>2 DEF Orderly, Listed, Clear, Unanswered
<1>7. Orderly(SendAck(Undeferred(s), "ACK_JOB_EXIT"), h)
  BY <1>5, <1>6, AckOrderly DEF Ack, Sent
<1> QED BY <1>1, <1>4, <1>7

LEMMA RunningOrderly ==
  ASSUME NEW h \in Host, NEW s, Orderly(s, h)
  PROVE  Orderly(Running(s), h)
<1> DEFINE warned == IF Deleted(s.ja) THEN SendAck(s, "ACK_SIGNAL_JOB") ELSE s
<1>1. Orderly(warned, h) /\ Orderly(SendAck(s, "ACK_SIGNAL_JOB"), h)
  BY AckOrderly DEF Ack
<1>2. Running(s) = CASE s.ja.status = "buried" -> SendAck(s, "ACK_SIGNAL_JOB")
                     [] s.ja.status = "JTRANSFERING" -> Arrived(warned)
                     [] s.ja.status = "JRUNNING" -> warned
                     [] OTHER -> s
  BY DEF Running
<1>3. warned.ja = s.ja BY DEF SendAck, Orderly, Sound
<1> HIDE DEF warned
<1>4. s.ja.status = "JTRANSFERING" => Orderly(Arrived(warned), h)
  <2>1. ASSUME s.ja.status = "JTRANSFERING"
        PROVE  Fine(warned, Arrived(warned))
    BY <1>1, <1>3, <2>1, ArrivedFine DEF Orderly
  <2>2. /\ Arrived(warned).ru = warned.ru /\ Arrived(warned).ja.host = warned.ja.host
        /\ Arrived(warned).ja.status = "JRUNNING"
    BY <1>1 DEF Arrived, WithTask, Orderly, Sound, JaTask
  <2> QED BY <1>1, <1>3, <2>1, <2>2 DEF Orderly, Listed, Clear, Unanswered, Sent, Fine, Keeps
<1> QED BY <1>1, <1>2, <1>4

LEMMA JobExitOrderly ==
  ASSUME NEW h \in Host, NEW s, NEW outcome, Orderly(s, h), s.ja.status \in Sent
  PROVE  Orderly(JobExit(s, outcome), h) /\ JobExit(s, outcome).ja.status \notin Sent
<1> DEFINE t == JobExit(s, outcome)
<1>1. Sound(t) /\ Listed(t) /\ t.acks \in Seq(Ack)
  BY JobExitFine, JobExitListed DEF Orderly, Fine, Keeps
<1>2. t.ja.status \notin Sent
  BY JobExitFine DEF Orderly
<1> QED BY <1>1, <1>2 DEF Orderly, Clear, Unanswered, Sent

LEMMA JobReportedOrderly ==
  ASSUME NEW h \in Host, NEW s, NEW jr, Orderly(s, h)
  PROVE  Orderly(JobReported(s, h, jr), h)
<1>1. CASE s.ru[h] # <<>>
  BY <1>1, SkipRestartedOrderly DEF JobReported
<1>2. CASE s.ru[h] = <<>>
  <2>1. JobReported(s, h, jr) \in {Exited(s, jr.outcome), Running(s)}
    BY <1>2 DEF JobReported
  <2>2. CASE s.ja.status \in Sent
    <3>1. Exited(s, jr.outcome) = SendAck(JobExit(s, jr.outcome), "ACK_JOB_EXIT")
      BY <2>2 DEF Exited
    <3>2. Orderly(Exited(s, jr.outcome), h)
      BY <2>2, <3>1, JobExitOrderly, AckOrderly DEF Ack, Sent
    <3> QED BY <2>1, <3>2, RunningOrderly
  <2>3. CASE s.ja.status \notin Sent
    <3>1. Exited(s, jr.outcome) = SendAck(s, "ACK_JOB_EXIT")
      BY <2>3 DEF Exited
    <3>2. Orderly(Exited(s, jr.outcome), h)
      BY <2>3, <3>1, AckOrderly DEF Ack, Sent
    <3> QED BY <2>1, <3>2, RunningOrderly
  <2> QED BY <2>2, <2>3
<1> QED BY <1>1, <1>2

LEMMA ReportOrderly ==
  ASSUME NEW h \in Host, NEW s, NEW list, Orderly(s, h)
  PROVE  Orderly(ReportResult(s, h, list), h)
<1>1. Orderly(Update(s, h), h)
  <2>1. PICK new \in RuList : /\ Len(new) <= Len(s.ru[h]) /\ (s.ru[h] = <<>> => new = <<>>)
                              /\ Update(s, h) = WithList(s, h, new)
    BY UpdatedList DEF Orderly
  <2> QED BY <2>1, ListOrderly
<1>2. ASSUME NEW t, Orderly(t, h) PROVE Orderly(ProcessJobReport(t, h, list), h)
  <2>1. Orderly(JobReported(t, h, list[1]), h)
    BY <1>2, JobReportedOrderly
  <2>2. Orderly(JobReported(JobReported(t, h, list[1]), h, list[2]), h)
    BY <2>1, JobReportedOrderly
  <2>3. ProcessJobReport(t, h, list) \in
          {t, JobReported(t, h, list[1]), JobReported(JobReported(t, h, list[1]), h, list[2])}
    BY DEF ProcessJobReport
  <2> QED BY <1>2, <2>1, <2>2, <2>3
<1>3. ASSUME NEW t, Orderly(t, h) PROVE Orderly(Purge(t, h), h)
  <2>1. PICK new \in RuList : /\ Len(new) <= Len(t.ru[h]) /\ (t.ru[h] = <<>> => new = <<>>)
                              /\ Purge(t, h) = WithList(t, h, new)
    BY <1>3, PurgedList DEF Orderly
  <2> QED BY <1>3, <2>1, ListOrderly
<1> QED BY <1>1, <1>2, <1>3 DEF ReportResult

-----------------------------------------------------------------------------
(* The steps of the qmaster                                                  *)

LEMMA SnapshotOrderly ==
  ASSUME MasterInv, RuInv, HostIsClear, NEW h \in Host
  PROVE  Orderly(Snapshot, h)
<1>1. Sound(Snapshot) /\ Listed(Snapshot)
  BY SnapshotListed
<1>2. Snapshot.ja = ja /\ Snapshot.ru = ru /\ Snapshot.acks = <<>>
  BY DEF Snapshot
<1>3. Clear(Snapshot) /\ Unanswered(Snapshot, h)
  BY <1>2 DEF Clear, HostIsClear, Unanswered
<1> QED BY <1>1, <1>2, <1>3 DEF Orderly

\* What the qmaster does besides sending: it starts no job.
LEMMA QuietRuns ==
  ASSUME ExecdInv, ExecdInv', RunInv, NoNewTransfer, ja'.run = ja.run, UNCHANGED evars,
         UNCHANGED toExecd \/ \E h \in Host : Send(h, SignalMessage)
  PROVE  RunInv'
<1>1. AcksAreOlder
  BY DEF RunInv
<1>2. NoNewOrders
  BY <1>1, QueuesKeep, SendKeeps, Kinds
<1> QED BY <1>2, RunsKept DEF evars

LEMMA ReceiveReportRuns ==
  ASSUME MasterInv, RuInv, HostIsClear, ExecdInv, ExecdInv', RunInv,
         NEW h \in Host, ReceiveReport(h), UNCHANGED evars
  PROVE  RunInv' /\ HostIsClear'
<1> DEFINE s == ReportResult(Snapshot, h, Head(toMaster[h]).jrs)
           m == [tag |-> "TAG_ACK_REQUEST", acks |-> s.acks]
<1>1. Commit(s) /\ (UNCHANGED toExecd \/ Send(h, m))
  BY DEF ReceiveReport
<1>2. Orderly(s, h)
  BY SnapshotOrderly, ReportOrderly
<1>3. s.ja.run = ja.run
  <2>1. Fine(Snapshot, s) BY SnapshotSound, ReportFine
  <2>2. Snapshot.ja = ja BY DEF Snapshot
  <2> QED BY <2>1, <2>2 DEF Fine, Keeps
<1> HIDE DEF s
<1>4. NoNewTransfer
  BY <1>1, <1>2, <1>3 DEF NoNewTransfer, MayResend, Commit, Orderly, Unanswered
<1>5. \A r \in Run : m # JobMessage(r)
  BY Kinds
<1>6. ExitAck(m) => \A r \in Run : ~MayResend(h, r)'
  BY <1>1, <1>2 DEF ExitAck, MayResend, Commit, Orderly, Unanswered
<1> HIDE DEF m
<1>7. NoNewOrders
  <2>1. AcksAreOlder BY DEF RunInv
  <2> QED BY <1>1, <1>4, <1>5, <1>6, <2>1, QueuesKeep, SendKeeps
<1>8. RunInv'
  BY <1>1, <1>3, <1>7, RunsKept DEF evars, Commit
<1>9. HostIsClear'
  BY <1>1, <1>2 DEF HostIsClear, Commit, Orderly, Clear
<1> QED BY <1>8, <1>9

\* A new run, which no message and no daemon has to do with yet.
LEMMA NewRun ==
  ASSUME MasterInv, ExecdInv, ExecdInv', RunInv, NEW h \in Host,
         ja.status = "JIDLE", ja.run < MaxRun, Send(h, JobMessage(ja.run + 1)),
         ja' = [status |-> "JTRANSFERING", host |-> h, state |-> {}, run |-> ja.run + 1],
         UNCHANGED evars
  PROVE  RunInv'
<1>0. ja.run \in Nat /\ ja.run + 1 \in Run
  <2>1. ja.run = 0 \/ ja.run \in 1 .. MaxRun
    BY DEF MasterInv, JaTask, Run
  <2> QED BY <2>1, MaxRunAssumption DEF Run
<1>1. PICK new \in Run : new = ja.run + 1
  BY <1>0
<1>2. \A g \in Host, r \in Run : MayResend(g, r)' => g = h /\ r = new
  BY <1>1 DEF MayResend
<1>3. \A r \in Run : r <= ja.run => r # new /\ r <= new
  BY <1>0, <1>1 DEF Run
<1>4. /\ \A g \in Host : ~Concerns(g, new)
      /\ starts[new] = 0
  <2>1. ~(new <= ja.run)
    BY <1>0, <1>1
  <2>2. starts[new] \in Nat /\ ~(starts[new] > 0)
    BY <1>1, <2>1 DEF RunInv, RunsAreKnown, ExecdInv, ExecdTypeOK
  <2>3. \A g \in Host : ~Concerns(g, new)
    BY <1>1, <2>1 DEF RunInv, RunsAreKnown
  <2> QED BY <2>2, <2>3
<1>5. \A g \in Host, r \in Run : HasRun(g, r)' <=> HasRun(g, r)
  BY DEF HasRun, evars
<1>6. ja'.run = new
  BY <1>1
<1>7. \A r \in Run : JobMessage(new) = JobMessage(r) => r = new
  BY <1>1, Kinds
<1>8. ~ExitAck(JobMessage(new))
  BY <1>1, Kinds
<1>9. AcksAreOlder
  BY DEF RunInv
<1>10. \A g \in Host, r \in Run : r # new => NoNew(g, r)
  BY <1>2, <1>7, <1>8, <1>1, <1>9, SentMessage, OtherQueues, SameQueue
<1>11. /\ toExecd'[h] = Append(toExecd[h], JobMessage(new))
       /\ toExecd[h] \in Seq(ExecdMessage)
       /\ \A g \in Host \ {h} : toExecd'[g] = toExecd[g]
  BY <1>1, OtherQueues DEF ExecdInv, MessagesTypeOK, Send
<1>12. \A g \in Host : \A k \in DOMAIN toExecd[g] : toExecd[g][k] # JobMessage(new)
  <2>1. ASSUME NEW g \in Host, NEW k \in DOMAIN toExecd[g] PROVE k > 0
    BY QueueDomain
  <2> QED BY <1>4, <2>1 DEF Concerns, OrderAfter
<1>13. \A g \in Host \ {h}, j \in Nat : ~OrderAfter(g, new, j)'
  BY <1>1, <1>2, <1>11, <1>12 DEF OrderAfter, JobMessage
<1>14. RunsAreKnown'
  <2>1. \A g \in Host, r \in Run : Concerns(g, r)' => Concerns(g, r) \/ r = new
    BY <1>5, <1>10 DEF Concerns, NoNew
  <2>2. \A r \in Run : starts'[r] = starts[r]
    BY DEF evars
  <2>3. new <= new
    BY <1>1 DEF Run
  <2> QED BY <1>3, <1>6, <2>1, <2>2, <2>3 DEF RunInv, RunsAreKnown
<1>15. OneHost'
  <2>1. \A g \in Host : Concerns(g, new)' => g = h
    BY <1>4, <1>5, <1>13 DEF Concerns
  <2>2. \A g \in Host, r \in Run : r # new => (Concerns(g, r)' => Concerns(g, r))
    BY <1>5, <1>10 DEF Concerns, NoNew
  <2> QED BY <2>1, <2>2 DEF RunInv, OneHost
<1>16. OrdersAreSafe'
  <2>1. ASSUME NEW g \in Host, NEW r \in Run, OrderAfter(g, r, 0)'
        PROVE  HasRun(g, r)' \/ starts'[r] = 0
    <3>1. CASE r = new
      BY <1>4, <3>1 DEF evars
    <3>2. CASE r # new
      BY <1>5, <1>10, <2>1, <3>2 DEF NoNew, RunInv, OrdersAreSafe, evars
    <3> QED BY <3>1, <3>2
  <2> QED BY <2>1 DEF OrdersAreSafe
<1>17. AcksAreOlder'
  <2>1. ASSUME NEW g \in Host, NEW r \in Run, NEW j \in DOMAIN toExecd'[g],
               ExitAck(toExecd'[g][j]), OrderAfter(g, r, j)'
        PROVE  ~HasRun(g, r)' /\ \A i \in 1 .. j : toExecd'[g][i] # JobMessage(r)
    <3>1. CASE r # new
      BY <1>5, <1>10, <2>1, <3>1 DEF NoNew
    <3>2. CASE r = new
      <4>1. ~HasRun(g, new)'
        BY <1>4, <1>5, <1>1 DEF Concerns
      <4>2. toExecd'[g] \in Seq(ExecdMessage)
        BY DEF ExecdInv, MessagesTypeOK
      <4>3. j \in Nat
        BY <4>2
      <4>4. g = h
        BY <1>13, <2>1, <3>2, <4>3
      <4>5. /\ DOMAIN toExecd'[h] = 1 .. Len(toExecd[h]) + 1 /\ Len(toExecd[h]) \in Nat
            /\ DOMAIN toExecd[h] = 1 .. Len(toExecd[h])
            /\ toExecd'[h][Len(toExecd[h]) + 1] = JobMessage(new)
            /\ \A i \in 1 .. Len(toExecd[h]) : toExecd'[h][i] = toExecd[h][i]
        BY <1>11
      <4>6. j \in 1 .. Len(toExecd[h])
        BY <1>8, <2>1, <4>4, <4>5
      <4>7. \A i \in 1 .. j : i \in 1 .. Len(toExecd[h])
        BY <4>5, <4>6
      <4> QED BY <1>12, <3>2, <4>1, <4>4, <4>5, <4>7
    <3> QED BY <3>1, <3>2
  <2> QED BY <2>1 DEF AcksAreOlder, ExitAck, JobMessage
<1>18. StartsAreFirst' /\ NoDoubleStart'
  BY DEF RunInv, StartsAreFirst, NoDoubleStart, evars
<1> QED BY <1>14, <1>15, <1>16, <1>17, <1>18 DEF RunInv

\* SIGKILL concerns no order.
LEMMA SignalSent ==
  ASSUME NEW h \in Host, SignalJob(h)
  PROVE  UNCHANGED toExecd \/ Send(h, SignalMessage)
BY DEF SignalJob

LEMMA QmasterRuns ==
  ASSUME MasterInv, MasterInv', RuInv, HostIsClear, ExecdInv, ExecdInv', RunInv,
         QmasterStep, UNCHANGED evars
  PROVE  RunInv' /\ HostIsClear'
<1>1. CASE ResendPops \/ SignalResend
  <2>1. ja' = ja /\ ru' = ru
    BY <1>1 DEF ResendPops, SignalResend
  <2>2. NoNewTransfer
    BY <2>1 DEF NoNewTransfer, MayResend
  <2>3. UNCHANGED toExecd \/ \E h \in Host : Send(h, SignalMessage)
    BY <1>1, SignalSent DEF ResendPops, SignalResend, MasterInv
  <2> QED BY <2>1, <2>2, <2>3, QuietRuns DEF HostIsClear
<1>2. CASE ResendHandler
  <2>1. ja' = ja /\ ru' = ru
    BY <1>2 DEF ResendHandler
  <2>2. NoNewTransfer
    BY <2>1 DEF NoNewTransfer, MayResend
  <2>3. \/ UNCHANGED toExecd
        \/ /\ ja.status = "JTRANSFERING" /\ ja.host \in Host /\ ja.run \in Run
           /\ Send(ja.host, JobMessage(ja.run))
    BY <1>2 DEF ResendHandler, MasterInv, Sent
  <2>4. CASE UNCHANGED toExecd
    BY <2>1, <2>2, <2>4, QuietRuns DEF HostIsClear
  <2>5. CASE /\ ja.status = "JTRANSFERING" /\ ja.host \in Host /\ ja.run \in Run
             /\ Send(ja.host, JobMessage(ja.run))
    <3>1. \A r \in Run : JobMessage(ja.run) = JobMessage(r) => MayResend(ja.host, r)
      BY <2>5, Kinds DEF MayResend
    <3>2. ~ExitAck(JobMessage(ja.run)) /\ AcksAreOlder
      BY <2>5, Kinds DEF RunInv
    <3>3. NoNewOrders
      BY <2>2, <2>5, <3>1, <3>2, SendKeeps
    <3> QED BY <2>1, <3>3, RunsKept DEF evars, HostIsClear
  <2> QED BY <2>3, <2>4, <2>5
<1>3. CASE DeleteSent
  <2>1. ja' = [ja EXCEPT !.state = @ \cup {"JDELETED"}] /\ ru' = ru /\ ja.host \in Host
    BY <1>3 DEF DeleteSent, MasterInv
  <2>2. ja'.status = ja.status /\ ja'.host = ja.host /\ ja'.run = ja.run
    BY <2>1 DEF MasterInv, JaTask
  <2>3. NoNewTransfer
    BY <2>2 DEF NoNewTransfer, MayResend
  <2>4. UNCHANGED toExecd \/ \E h \in Host : Send(h, SignalMessage)
    BY <1>3, <2>1, SignalSent DEF DeleteSent
  <2> QED BY <2>1, <2>2, <2>3, <2>4, QuietRuns DEF HostIsClear
<1>4. ASSUME ja'.status \notin Sent, ja'.run = ja.run,
             UNCHANGED toExecd \/ \E h \in Host : Send(h, SignalMessage)
      PROVE  RunInv' /\ HostIsClear'
  <2>1. NoNewTransfer
    BY <1>4 DEF NoNewTransfer, MayResend, Sent
  <2> QED BY <1>4, <2>1, QuietRuns DEF HostIsClear
<1>5. CASE DeletePending
  <2>1. Commit(Finish(Snapshot)) /\ UNCHANGED toExecd
    BY <1>5 DEF DeletePending
  <2>2. Fine(Snapshot, Finish(Snapshot)) /\ Finish(Snapshot).ja.status = "JFINISHED"
    BY SnapshotListed, FinishFine
  <2>3. ja'.status = "JFINISHED" /\ ja'.run = ja.run
    BY <2>1, <2>2 DEF Commit, Fine, Keeps, Snapshot
  <2> QED BY <1>4, <2>1, <2>3 DEF Sent
<1>6. CASE DeleteForced
  <2> DEFINE s == Finish(Snapshot)
             t == [s EXCEPT !.resend = 0]
  <2>1. Commit(t) /\ ja.status \in Sent /\ SignalJob(ja.host)
    BY <1>6 DEF DeleteForced
  <2>2. Fine(Snapshot, s) /\ s.ja.status = "JFINISHED"
    BY SnapshotListed, FinishFine
  <2> HIDE DEF s
  <2>3. t.ja = s.ja
    BY <2>2, CancelFields DEF Fine, Sound
  <2> HIDE DEF t
  <2>4. ja'.status = "JFINISHED" /\ ja'.run = ja.run
    BY <2>1, <2>2, <2>3 DEF Commit, Fine, Keeps, Snapshot
  <2>5. UNCHANGED toExecd \/ \E h \in Host : Send(h, SignalMessage)
    BY <2>1, SignalSent DEF MasterInv
  <2> QED BY <1>4, <2>4, <2>5 DEF Sent
<1>7. CASE Bury
  <2>1. ja' = [ja EXCEPT !.status = "buried"] /\ UNCHANGED toExecd
    BY <1>7 DEF Bury
  <2>2. ja'.status = "buried" /\ ja'.run = ja.run
    BY <2>1 DEF MasterInv, JaTask
  <2> QED BY <1>4, <2>1, <2>2 DEF Sent
<1>8. ASSUME NEW h \in Host, ReceiveReport(h) PROVE RunInv' /\ HostIsClear'
  BY <1>8, ReceiveReportRuns
<1>9. ASSUME NEW h \in Host, ReceiveSigAck(h) \/ HostUnknown(h) PROVE RunInv' /\ HostIsClear'
  <2>1. ja' = ja /\ ru' = ru /\ UNCHANGED toExecd
    BY <1>9 DEF ReceiveSigAck, HostUnknown
  <2>2. NoNewTransfer
    BY <2>1 DEF NoNewTransfer, MayResend
  <2> QED BY <2>1, <2>2, QuietRuns DEF HostIsClear
<1>10. ASSUME NEW h \in Host, StartJob(h) PROVE RunInv' /\ HostIsClear'
  <2>1. ja.status = "JIDLE" /\ ru[h] = <<>> /\ ja.run < MaxRun /\ ru' = ru
    BY <1>10 DEF StartJob
  <2>2. CASE /\ Send(h, JobMessage(ja.run + 1))
             /\ ja' = [status |-> "JTRANSFERING", host |-> h, state |-> {}, run |-> ja.run + 1]
    BY <2>1, <2>2, NewRun DEF HostIsClear
  <2>3. CASE ja' = [ja EXCEPT !.state = {}] /\ UNCHANGED toExecd
    <3>1. ja'.status = "JIDLE" /\ ja'.run = ja.run
      BY <2>1, <2>3 DEF MasterInv, JaTask
    <3> QED BY <1>4, <2>3, <3>1 DEF Sent
  <2> QED BY <1>10, <2>2, <2>3 DEF StartJob
<1>11. ASSUME NEW h \in Host, NEW state, RescheduleFrom(h, state),
              state \in SUBSET {"JDELETED", "JDEFERRED_REQ"}, "JDELETED" \notin state
       PROVE  RunInv' /\ HostIsClear'
  <2> DEFINE j == [ja EXCEPT !.state = state]
             t == WithTask(Snapshot, j)
             marked == WithList(t, h, Append(ru[h], SKIP_JR_REMOVE))
  <2>1. Commit(JobExit(marked, "again")) /\ UNCHANGED toExecd
    BY <1>11 DEF RescheduleFrom
  <2>2. /\ j \in JaTask /\ j.status = ja.status /\ j.host = ja.host /\ j.run = ja.run
        /\ j.state = state
    BY <1>11 DEF MasterInv, JaTask
  <2> HIDE DEF j
  <2>3. t = [ja |-> j, resend |-> resend, ru |-> ru, acks |-> <<>>]
    BY DEF Snapshot, WithTask
  <2> HIDE DEF t
  <2>4. Sound(t) BY <1>11, <2>2, <2>3 DEF Sound, MasterInv, ResendIsArmed, Deleted
  <2>5. Fine(t, marked) BY <2>4, ListFine
  <2> HIDE DEF marked
  <2>6. /\ Fine(marked, JobExit(marked, "again"))
        /\ JobExit(marked, "again").ja.status \notin Sent
    BY <2>5, JobExitFine DEF Fine
  <2>7. ja'.status \notin Sent /\ ja'.run = ja.run
    BY <2>1, <2>2, <2>3, <2>5, <2>6 DEF Commit, Fine, Keeps
  <2> QED BY <1>4, <2>1, <2>7
<1>12. ASSUME NEW h \in Host, RescheduleUnknown(h) \/ ManualReschedule(h)
       PROVE  RunInv' /\ HostIsClear'
  <2>1. ja.state \in SUBSET {"JDELETED", "JDEFERRED_REQ"} BY DEF MasterInv, JaTask
  <2>2. "JDELETED" \notin ja.state
    BY <1>12 DEF RescheduleUnknown, ManualReschedule, RescheduleFrom, Deleted
  <2>3. CASE RescheduleUnknown(h)
    BY <1>11, <2>1, <2>2, <2>3 DEF RescheduleUnknown
  <2>4. CASE ManualReschedule(h)
    BY <1>11, <2>1, <2>2, <2>4 DEF ManualReschedule
  <2> QED BY <1>12, <2>3, <2>4
<1> QED BY <1>1, <1>2, <1>3, <1>5, <1>6, <1>7, <1>8, <1>9, <1>10, <1>12 DEF QmasterStep

-----------------------------------------------------------------------------
(* The steps of the daemons                                                  *)

\* A step of a daemon that leaves its job alone: at most it reads a message.
LEMMA DaemonKeeps ==
  ASSUME ExecdInv, ExecdInv', RunInv, UNCHANGED <<mvars, starts>>, NEW h \in Host,
         NEW d \in Nat, Shifted(toExecd[h], toExecd'[h], d),
         \A g \in Host \ {h} : toExecd'[g] = toExecd[g],
         UNCHANGED task,
         \A g \in Host : phase'[g] # "dead" /\ (phase'[g] = "start" => phase[g] = "start")
  PROVE  RunInv'
<1>1. AcksAreOlder BY DEF RunInv
<1>2. NoNewTransfer BY DEF NoNewTransfer, MayResend, mvars
<1>3. NoNewOrders
  BY <1>1, <1>2, ReceiptKeeps
<1>4. \A g \in Host, r \in Run : HasRun(g, r)' <=> HasRun(g, r)
  BY DEF HasRun
<1>5. \A g \in Host, r \in Run : Concerns(g, r)' => Concerns(g, r)
  BY <1>3, <1>4 DEF Concerns, NoNewOrders, NoNew
<1>6. RunsAreKnown' /\ OneHost'
  BY <1>5 DEF RunInv, RunsAreKnown, OneHost, mvars
<1>7. OrdersAreSafe'
  BY <1>3, <1>4 DEF RunInv, OrdersAreSafe, NoNewOrders, NoNew
<1>8. AcksAreOlder'
  BY <1>3, <1>4 DEF NoNewOrders, NoNew, AcksAreOlder, JobMessage, ExitAck
<1>9. StartsAreFirst' /\ NoDoubleStart'
  BY DEF RunInv, StartsAreFirst, NoDoubleStart
<1> QED BY <1>6, <1>7, <1>8, <1>9 DEF RunInv

LEMMA NothingRead ==
  ASSUME ExecdInv, NEW h \in Host, UNCHANGED toExecd
  PROVE  Shifted(toExecd[h], toExecd'[h], 0)
<1>1. DOMAIN toExecd[h] = 1 .. Len(toExecd[h]) /\ Len(toExecd[h]) \in Nat
  BY QueueDomain
<1>2. \A j \in DOMAIN toExecd[h] : j + 0 = j
  BY <1>1
<1> QED BY <1>2 DEF Shifted

\* The order that is accepted was obeyed neither here nor elsewhere.
LEMMA AcceptRuns ==
  ASSUME ExecdInv, ExecdInv', RunInv, UNCHANGED <<mvars, starts>>, NEW h \in Host,
         toExecd[h] # <<>>, Take(h), NEW run \in Run, Message(h) = JobMessage(run),
         AcceptJob(h, run)
  PROVE  RunInv'
<1>0. [run |-> run, status |-> "JIDLE"] # NoTask
  <2>1. [run |-> run, status |-> "JIDLE"] \in Task
    BY DEF Task
  <2> QED BY <2>1, NoTaskAssumption, Zenon
<1>1. /\ task[h] = NoTask /\ phase' = [phase EXCEPT ![h] = "start"]
      /\ task' = [task EXCEPT ![h] = [run |-> run, status |-> "JIDLE"]]
      /\ [run |-> run, status |-> "JIDLE"] # NoTask
  BY <1>0 DEF AcceptJob
<1>2. AcksAreOlder BY DEF RunInv
<1>3. NoNewTransfer BY DEF NoNewTransfer, MayResend, mvars
<1>4. NoNewOrders
  BY <1>2, <1>3, TakeShifts, ReceiptKeeps
<1>5. 1 \in DOMAIN toExecd[h] /\ toExecd[h][1] = JobMessage(run)
  <2>1. toExecd[h] \in Seq(ExecdMessage) BY DEF ExecdInv, MessagesTypeOK
  <2> QED BY <2>1, HeadTailProperties, LenProperties, EmptySeq DEF Message
<1>6. OrderAfter(h, run, 0)
  BY <1>5 DEF OrderAfter
<1>7. /\ \A r \in Run : ~HasRun(h, r)
      /\ \A r \in Run : HasRun(h, r)' => r = run
      /\ \A g \in Host \ {h}, r \in Run : HasRun(g, r)' <=> HasRun(g, r)
  BY <1>1 DEF HasRun, ExecdInv, ExecdTypeOK
<1>8. HasRun(h, run)'
  BY <1>1 DEF HasRun, ExecdInv, ExecdTypeOK
<1>9. starts[run] = 0
  BY <1>6, <1>7 DEF RunInv, OrdersAreSafe
<1>10. \A g \in Host, r \in Run : Concerns(g, r)' => Concerns(g, r)
  BY <1>4, <1>6, <1>7 DEF Concerns, NoNewOrders, NoNew
<1>11. RunsAreKnown' /\ OneHost'
  BY <1>10 DEF RunInv, RunsAreKnown, OneHost, mvars
<1>12. OrdersAreSafe'
  <2>1. ASSUME NEW g \in Host, NEW r \in Run, OrderAfter(g, r, 0)'
        PROVE  HasRun(g, r)' \/ starts'[r] = 0
    <3>1. HasRun(g, r) \/ starts[r] = 0
      BY <1>4, <2>1 DEF NoNewOrders, NoNew, RunInv, OrdersAreSafe
    <3> QED BY <1>7, <3>1
  <2> QED BY <2>1 DEF OrdersAreSafe
<1>13. AcksAreOlder'
  <2>1. ASSUME NEW g \in Host, NEW r \in Run, NEW j \in DOMAIN toExecd'[g],
               ExitAck(toExecd'[g][j]), OrderAfter(g, r, j)'
        PROVE  ~HasRun(g, r)' /\ \A i \in 1 .. j : toExecd'[g][i] # JobMessage(r)
    <3>1. ~HasRun(g, r) /\ \A i \in 1 .. j : toExecd'[g][i] # JobMessage(r)
      BY <1>4, <2>1 DEF NoNewOrders, NoNew
    <3>2. ASSUME g = h, r = run PROVE FALSE
      <4>1. DOMAIN toExecd'[h] = 1 .. Len(toExecd'[h]) /\ Len(toExecd'[h]) \in Nat
        <5>1. toExecd'[h] \in Seq(ExecdMessage) BY DEF ExecdInv, MessagesTypeOK
        <5> QED BY <5>1, LenProperties
      <4>2. Shifted(toExecd[h], toExecd'[h], 1)
        BY TakeShifts
      <4>3. j + 1 \in DOMAIN toExecd[h] /\ ExitAck(toExecd[h][j + 1])
        BY <2>1, <3>2, <4>2 DEF Shifted
      <4>4. OrderAfter(h, run, j + 1)
        <5>1. MayResend(h, run)' => MayResend(h, run)
          BY <1>3 DEF NoNewTransfer
        <5>2. j \in Nat /\ 1 \in Nat /\ DOMAIN toExecd'[h] \subseteq Nat
          BY <2>1, <3>2, <4>1
        <5>3. OrderAfter(h, run, j)'
          BY <2>1, <3>2
        <5> QED BY <4>2, <5>1, <5>2, <5>3, ShiftedOrders
      <4>5. \A i \in 1 .. j + 1 : toExecd[h][i] # JobMessage(run)
        BY <4>3, <4>4 DEF RunInv, AcksAreOlder
      <4>6. 1 \in 1 .. j + 1
        BY <2>1, <3>2, <4>1
      <4> QED BY <1>5, <4>5, <4>6
    <3> QED BY <1>7, <3>1, <3>2
  <2> QED BY <2>1 DEF AcksAreOlder, ExitAck, JobMessage
<1>14. StartsAreFirst'
  <2>1. ASSUME NEW g \in Host PROVE phase'[g] # "dead" /\ (phase'[g] = "start" => starts'[task'[g].run] = 0)
    <3>1. CASE g = h
      BY <1>1, <1>9, <3>1 DEF ExecdInv, ExecdTypeOK
    <3>2. CASE g # h
      BY <1>1, <3>2 DEF ExecdInv, ExecdTypeOK, RunInv, StartsAreFirst
    <3> QED BY <3>1, <3>2
  <2> QED BY <2>1 DEF StartsAreFirst
<1>15. NoDoubleStart'
  BY DEF RunInv, NoDoubleStart
<1> QED BY <1>11, <1>12, <1>13, <1>14, <1>15 DEF RunInv

\* An acknowledgement of an exit takes the job away; what is behind it is an
\* order for another run.
LEMMA RemoveRuns ==
  ASSUME ExecdInv, ExecdInv', RunInv, UNCHANGED <<mvars, starts>>, NEW h \in Host,
         toExecd[h] # <<>>, ExitAck(toExecd[h][1]),
         NEW d \in {0, 1}, Shifted(toExecd[h], toExecd'[h], d),
         \A r \in Run : OrderAfter(h, r, 0)' => OrderAfter(h, r, 1),
         \A g \in Host \ {h} : toExecd'[g] = toExecd[g] /\ task'[g] = task[g],
         task'[h] = NoTask,
         \A g \in Host : phase'[g] # "dead" /\ (phase'[g] = "start" => phase[g] = "start" /\ g # h)
  PROVE  RunInv'
<1>1. AcksAreOlder BY DEF RunInv
<1>2. NoNewTransfer BY DEF NoNewTransfer, MayResend, mvars
<1>3. NoNewOrders
  <2>1. d \in Nat OBVIOUS
  <2> QED BY <1>1, <1>2, <2>1, ReceiptKeeps
<1>4. /\ \A g \in Host, r \in Run : HasRun(g, r)' => HasRun(g, r)
      /\ \A g \in Host \ {h}, r \in Run : HasRun(g, r)' <=> HasRun(g, r)
  BY DEF HasRun
<1>5. \A g \in Host, r \in Run : Concerns(g, r)' => Concerns(g, r)
  BY <1>3, <1>4 DEF Concerns, NoNewOrders, NoNew
<1>6. RunsAreKnown' /\ OneHost'
  BY <1>5 DEF RunInv, RunsAreKnown, OneHost, mvars
<1>7. 1 \in DOMAIN toExecd[h]
  <2>1. toExecd[h] \in Seq(ExecdMessage) BY DEF ExecdInv, MessagesTypeOK
  <2> QED BY <2>1, LenProperties, EmptySeq
<1>8. \A r \in Run : OrderAfter(h, r, 0)' => ~HasRun(h, r)
  BY <1>7 DEF RunInv, AcksAreOlder
<1>9. OrdersAreSafe'
  <2>1. ASSUME NEW g \in Host, NEW r \in Run, OrderAfter(g, r, 0)'
        PROVE  HasRun(g, r)' \/ starts'[r] = 0
    <3>1. HasRun(g, r) \/ starts[r] = 0
      BY <1>3, <2>1 DEF NoNewOrders, NoNew, RunInv, OrdersAreSafe
    <3> QED BY <1>4, <1>8, <2>1, <3>1
  <2> QED BY <2>1 DEF OrdersAreSafe
<1>10. AcksAreOlder'
  BY <1>3, <1>4 DEF NoNewOrders, NoNew, AcksAreOlder, JobMessage, ExitAck
<1>11. StartsAreFirst'
  <2>1. ASSUME NEW g \in Host PROVE phase'[g] # "dead" /\ (phase'[g] = "start" => starts'[task'[g].run] = 0)
    BY DEF RunInv, StartsAreFirst
  <2> QED BY <2>1 DEF StartsAreFirst
<1>12. NoDoubleStart'
  BY DEF RunInv, NoDoubleStart
<1> QED BY <1>6, <1>9, <1>10, <1>11, <1>12 DEF RunInv

\* do_ack() takes one acknowledgement from the first message.
LEMMA AckShifts ==
  ASSUME ExecdInv, NEW h \in Host, ReceiveAck(h), UNCHANGED mvars
  PROVE  /\ \E d \in {0, 1} : Shifted(toExecd[h], toExecd'[h], d)
         /\ \A g \in Host \ {h} : toExecd'[g] = toExecd[g]
         /\ \A r \in Run : OrderAfter(h, r, 0)' => OrderAfter(h, r, 1)
         /\ Head(Message(h).acks) = "ACK_JOB_EXIT" => ExitAck(toExecd[h][1])
<1> DEFINE q == toExecd[h]
           m == Message(h)
<1>1. q # <<>> /\ m.tag = "TAG_ACK_REQUEST"
  BY DEF ReceiveAck
<1>2. PICK list \in Seq(Ack) : m = [tag |-> "TAG_ACK_REQUEST", acks |-> list]
  <2>1. m \in ExecdMessage
    BY <1>1, MessageTypes DEF ExecdInv
  <2> QED BY <1>1, <2>1, OrderTypes
<1>3. m.acks = list
  BY <1>2
<1>4. q \in Seq(ExecdMessage) /\ q[1] = m /\ 1 \in DOMAIN q
  <2>1. q \in Seq(ExecdMessage) BY DEF ExecdInv, MessagesTypeOK
  <2> QED BY <1>1, <2>1, HeadTailProperties, LenProperties, EmptySeq DEF Message
<1>5. /\ \/ Take(h) /\ Len(list) = 1
         \/ /\ Len(list) > 1
            /\ toExecd' = [toExecd EXCEPT ![h] = <<[m EXCEPT !.acks = Tail(@)]>> \o Tail(@)]
  BY <1>3, Zenon DEF ReceiveAck
<1>6. list # <<>>
  <2>1. Len(list) = 1 \/ Len(list) > 1
    BY <1>5, Zenon
  <2> QED BY <2>1, EmptySeq
<1>7. list[1] = Head(list) /\ 1 \in DOMAIN list
  BY <1>6, HeadTailProperties, LenProperties, EmptySeq
<1>8. Head(m.acks) = "ACK_JOB_EXIT" => ExitAck(toExecd[h][1])
  BY <1>1, <1>3, <1>4, <1>7 DEF ExitAck
<1>9. CASE Take(h)
  <2>1. Shifted(toExecd[h], toExecd'[h], 1) /\ \A g \in Host \ {h} : toExecd'[g] = toExecd[g]
    BY <1>1, <1>9, TakeShifts
  <2>2. ASSUME NEW r \in Run, OrderAfter(h, r, 0)' PROVE OrderAfter(h, r, 1)
    <3>1. toExecd'[h] = Tail(q) /\ Tail(q) \in Seq(ExecdMessage)
      BY <1>1, <1>4, <1>9, HeadTailProperties DEF Take, ExecdInv, MessagesTypeOK
    <3>2. DOMAIN toExecd'[h] \subseteq Nat
      BY <3>1
    <3>3. MayResend(h, r)' => MayResend(h, r)
      BY DEF MayResend, mvars
    <3>4. OrderAfter(h, r, 0 + 1)
      BY <2>1, <2>2, <3>2, <3>3, ShiftedOrders
    <3> QED BY <3>4
  <2> QED BY <1>8, <2>1, <2>2
<1>10. CASE /\ Len(list) > 1
            /\ toExecd' = [toExecd EXCEPT ![h] = <<[m EXCEPT !.acks = Tail(@)]>> \o Tail(@)]
  <2> DEFINE left == [m EXCEPT !.acks = Tail(@)]
  <2>1. left = [tag |-> "TAG_ACK_REQUEST", acks |-> Tail(list)]
    <3>1. [m EXCEPT !.acks = Tail(m.acks)]
            = [[tag |-> "TAG_ACK_REQUEST", acks |-> list] EXCEPT !.acks = Tail(list)]
      BY <1>2, <1>3, Zenon
    <3> QED BY <3>1, OtherAcks, Zenon
  <2>2. Tail(list) \in Seq(Ack) /\ Tail(q) \in Seq(ExecdMessage) /\ Len(Tail(q)) = Len(q) - 1
    BY <1>1, <1>4, <1>6, HeadTailProperties
  <2>3. toExecd'[h] = <<left>> \o Tail(q) /\ \A g \in Host \ {h} : toExecd'[g] = toExecd[g]
    BY <1>10 DEF ExecdInv, MessagesTypeOK
  <2> HIDE DEF left
  <2>4. left \in ExecdMessage
    BY <2>1, <2>2 DEF ExecdMessage
  <2>5. /\ DOMAIN toExecd'[h] = 1 .. Len(q) /\ DOMAIN q = 1 .. Len(q) /\ Len(q) \in Nat
        /\ toExecd'[h][1] = left
        /\ \A j \in 2 .. Len(q) : toExecd'[h][j] = q[j]
    <3>1. <<left>> \in Seq(ExecdMessage) /\ Len(<<left>>) = 1 /\ <<left>>[1] = left
      BY <2>4
    <3>2. Len(<<left>> \o Tail(q)) = 1 + Len(Tail(q)) /\ <<left>> \o Tail(q) \in Seq(ExecdMessage)
      BY <2>2, <3>1, ConcatProperties
    <3>3. Len(q) \in Nat /\ DOMAIN q = 1 .. Len(q) /\ Len(q) >= 1
      BY <1>4
    <3>4. \A j \in 1 .. Len(q) : (<<left>> \o Tail(q))[j] = IF j <= 1 THEN <<left>>[j] ELSE Tail(q)[j - 1]
      BY <2>2, <3>1, <3>3, ConcatProperties
    <3>5. \A j \in 1 .. Len(Tail(q)) : Tail(q)[j] = q[j + 1]
      BY <1>1, <1>4, HeadTailProperties
    <3>6. \A j \in 2 .. Len(q) : j - 1 \in 1 .. Len(Tail(q)) /\ (j - 1) + 1 = j
      BY <2>2, <3>3
    <3>7. DOMAIN toExecd'[h] = 1 .. Len(q)
      BY <2>2, <2>3, <3>2, <3>3
    <3>8. \A j \in 2 .. Len(q) : toExecd'[h][j] = q[j]
      <4>1. ASSUME NEW j \in 2 .. Len(q) PROVE (<<left>> \o Tail(q))[j] = q[j]
        <5>1. j \in 1 .. Len(q) /\ ~(j <= 1)
          BY <3>3
        <5>2. (<<left>> \o Tail(q))[j] = Tail(q)[j - 1]
          BY <3>4, <5>1
        <5> QED BY <3>5, <3>6, <5>2
      <4> QED BY <2>3, <4>1
    <3>9. toExecd'[h][1] = left
      BY <2>3, <3>1, <3>3, <3>4
    <3> QED BY <3>3, <3>7, <3>8, <3>9
  <2>6. \A r \in Run : left # JobMessage(r)
    BY <2>1, Kinds
  <2>7. ExitAck(left) => ExitAck(q[1])
    <3>1. ASSUME NEW i \in DOMAIN Tail(list), Tail(list)[i] = "ACK_JOB_EXIT"
          PROVE  \E k \in DOMAIN list : list[k] = "ACK_JOB_EXIT"
      <4>1. i + 1 \in DOMAIN list /\ list[i + 1] = Tail(list)[i]
        BY <1>6, <3>1
      <4> QED BY <3>1, <4>1
    <3> QED BY <1>1, <1>3, <1>4, <2>1, <3>1 DEF ExitAck
  <2>8. Shifted(toExecd[h], toExecd'[h], 0)
    <3>1. ASSUME NEW j \in DOMAIN toExecd'[h]
          PROVE  /\ j + 0 \in DOMAIN q
                 /\ \A r \in Run : toExecd'[h][j] = JobMessage(r) => q[j + 0] = JobMessage(r)
                 /\ ExitAck(toExecd'[h][j]) => ExitAck(q[j + 0])
      <4>1. j \in 1 .. Len(q) /\ j + 0 = j
        BY <2>5
      <4>2. CASE j = 1
        BY <2>5, <2>6, <2>7, <4>1, <4>2
      <4>3. CASE j \in 2 .. Len(q)
        BY <2>5, <4>1, <4>3
      <4> QED BY <4>1, <4>2, <4>3
    <3> QED BY <3>1 DEF Shifted
  <2>9. ASSUME NEW r \in Run, OrderAfter(h, r, 0)' PROVE OrderAfter(h, r, 1)
    <3>1. CASE MayResend(h, r)'
      BY <3>1 DEF MayResend, OrderAfter, mvars
    <3>2. CASE ~MayResend(h, r)'
      <4>1. PICK k \in DOMAIN toExecd'[h] : toExecd'[h][k] = JobMessage(r)
        BY <2>9, <3>2 DEF OrderAfter, JobMessage
      <4>2. k # 1
        BY <2>5, <2>6, <4>1
      <4>3. k \in 2 .. Len(q) /\ k \in DOMAIN q /\ k > 1
        BY <2>5, <4>1, <4>2
      <4> QED BY <2>5, <4>1, <4>3 DEF OrderAfter
    <3> QED BY <3>1, <3>2
  <2> QED BY <1>8, <2>3, <2>8, <2>9
<1> QED BY <1>5, <1>9, <1>10

LEMMA ReceiveJobRuns ==
  ASSUME ExecdInv, ExecdInv', RunInv, UNCHANGED mvars, NEW h \in Host, ReceiveJob(h)
  PROVE  RunInv'
<1>1. /\ toExecd[h] # <<>> /\ Take(h) /\ Message(h).tag = "TAG_JOB_EXECUTION"
      /\ UNCHANGED starts
  BY DEF ReceiveJob, HasMessage
<1>2. PICK run \in Run : Message(h) = JobMessage(run)
  <2>1. Message(h) \in ExecdMessage
    BY <1>1, MessageTypes DEF ExecdInv
  <2> QED BY <1>1, <2>1 DEF ExecdMessage, JobMessage
<1>3. Message(h).run = run
  BY <1>2 DEF JobMessage
<1>4. CASE UNCHANGED <<phase, task>>
  <2>1. \A g \in Host : phase[g] # "dead"
    BY DEF RunInv, StartsAreFirst
  <2>2. 1 \in Nat
    OBVIOUS
  <2> QED BY <1>1, <1>4, <2>1, <2>2, TakeShifts, DaemonKeeps
<1>5. CASE AcceptJob(h, run)
  BY <1>1, <1>2, <1>5, AcceptRuns
<1> QED BY <1>3, <1>4, <1>5 DEF ReceiveJob, IgnoreJob, RefuseJob

LEMMA ReceiveSignalRuns ==
  ASSUME ExecdInv, ExecdInv', RunInv, UNCHANGED mvars, NEW h \in Host, ReceiveSignal(h)
  PROVE  RunInv'
<1>1. toExecd[h] # <<>> /\ Take(h) /\ UNCHANGED <<phase, task, starts>>
  BY DEF ReceiveSignal, HasMessage
<1>2. \A g \in Host : phase[g] # "dead"
  BY DEF RunInv, StartsAreFirst
<1>3. 1 \in Nat
  OBVIOUS
<1> QED BY <1>1, <1>2, <1>3, TakeShifts, DaemonKeeps

LEMMA ReceiveAckRuns ==
  ASSUME ExecdInv, ExecdInv', RunInv, UNCHANGED mvars, NEW h \in Host, ReceiveAck(h)
  PROVE  RunInv'
<1>1. /\ phase[h] \in {"wait", "acks"} /\ toExecd[h] # <<>> /\ UNCHANGED starts
      /\ \/ phase' = [phase EXCEPT ![h] = "wait"]
         \/ phase' = [phase EXCEPT ![h] = "acks"]
  BY DEF ReceiveAck
<1>2. PICK d \in {0, 1} : Shifted(toExecd[h], toExecd'[h], d)
  BY AckShifts
<1>3. /\ d \in Nat
      /\ \A g \in Host \ {h} : toExecd'[g] = toExecd[g]
      /\ \A r \in Run : OrderAfter(h, r, 0)' => OrderAfter(h, r, 1)
      /\ Head(Message(h).acks) = "ACK_JOB_EXIT" => ExitAck(toExecd[h][1])
  BY AckShifts
<1>4. \A g \in Host : /\ phase'[g] # "dead"
                      /\ phase'[g] = "start" => phase[g] = "start" /\ g # h
  BY <1>1 DEF RunInv, StartsAreFirst, ExecdInv, ExecdTypeOK
<1>5. CASE UNCHANGED task
  BY <1>1, <1>2, <1>3, <1>4, <1>5, DaemonKeeps
<1>6. CASE Head(Message(h).acks) = "ACK_JOB_EXIT" /\ task' = [task EXCEPT ![h] = NoTask]
  <2>1. task'[h] = NoTask /\ \A g \in Host \ {h} : task'[g] = task[g]
    BY <1>6 DEF ExecdInv, ExecdTypeOK
  <2>2. ExitAck(toExecd[h][1])
    BY <1>3, <1>6
  <2> QED BY <1>1, <1>2, <1>3, <1>4, <2>1, <2>2, RemoveRuns
<1> QED BY <1>5, <1>6, Zenon DEF ReceiveAck, RemoveAckedJobExit

\* The run that is started has its first start.
LEMMA StartJobsRuns ==
  ASSUME ExecdInv, ExecdInv', RunInv, UNCHANGED mvars, NEW h \in Host, StartJobs(h)
  PROVE  RunInv'
<1>1. /\ phase[h] = "start" /\ task' = [task EXCEPT ![h].status = "JRUNNING"]
      /\ UNCHANGED toExecd
      /\ \/ phase' = [phase EXCEPT ![h] = "save"]
         \/ phase' = [phase EXCEPT ![h] = "wait"]
  BY DEF StartJobs
<1>2. task[h] \in Task
  BY <1>1 DEF ExecdInv, ExecdTypeOK, PhaseInv
<1>3. PICK run \in Run : task[h].run = run
  BY <1>2 DEF Task
<1>4. UNCHANGED starts \/ starts' = [starts EXCEPT ![run] = @ + 1]
  BY <1>3 DEF StartJobs
<1>5. HasRun(h, run) /\ starts[run] = 0
  BY <1>1, <1>2, <1>3, NoTaskAssumption DEF HasRun, RunInv, StartsAreFirst
<1>6. \A r \in Run : starts'[r] = starts[r] \/ (r = run /\ starts'[r] = 1)
  BY <1>4, <1>5 DEF ExecdInv, ExecdTypeOK
<1>7. \A g \in Host, r \in Run : HasRun(g, r)' <=> HasRun(g, r)
  <2>1. \A g \in Host \ {h} : task'[g] = task[g]
    BY <1>1 DEF ExecdInv, ExecdTypeOK
  <2>2. task'[h] = [task[h] EXCEPT !.status = "JRUNNING"]
    BY <1>1 DEF ExecdInv, ExecdTypeOK
  <2>3. task'[h] \in Task /\ task'[h].run = task[h].run
    BY <1>2, <2>2 DEF Task
  <2>4. task'[h] # NoTask /\ task[h] # NoTask
    BY <1>2, <2>3, NoTaskAssumption
  <2>5. \A r \in Run : HasRun(h, r)' <=> HasRun(h, r)
    BY <2>3, <2>4 DEF HasRun
  <2> QED BY <2>1, <2>5 DEF HasRun
<1>8. \A g \in Host, r \in Run : MayResend(g, r)' <=> MayResend(g, r)
  BY DEF MayResend, mvars
<1>9. \A g \in Host, r \in Run, j \in Nat : OrderAfter(g, r, j)' <=> OrderAfter(g, r, j)
  BY <1>1, <1>8 DEF OrderAfter, JobMessage
<1>10. \A g \in Host, r \in Run : Concerns(g, r)' <=> Concerns(g, r)
  BY <1>7, <1>9 DEF Concerns
<1>11. RunsAreKnown'
  <2>1. ASSUME NEW r \in Run, (\E g \in Host : Concerns(g, r)') \/ starts'[r] > 0
        PROVE  r <= ja'.run
    <3>1. (\E g \in Host : Concerns(g, r)) \/ starts[r] > 0
      BY <1>5, <1>6, <1>10, <2>1 DEF Concerns
    <3> QED BY <3>1 DEF RunInv, RunsAreKnown, mvars
  <2> QED BY <2>1 DEF RunsAreKnown
<1>12. OneHost'
  BY <1>10 DEF RunInv, OneHost
<1>13. OrdersAreSafe'
  <2>1. ASSUME NEW g \in Host, NEW r \in Run, OrderAfter(g, r, 0)'
        PROVE  HasRun(g, r)' \/ starts'[r] = 0
    <3>1. OrderAfter(g, r, 0)
      BY <1>9, <2>1
    <3>2. HasRun(g, r) \/ starts[r] = 0
      BY <3>1 DEF RunInv, OrdersAreSafe
    <3>3. CASE r = run
      <4>1. g = h
        BY <1>5, <3>1, <3>3 DEF RunInv, OneHost, Concerns
      <4> QED BY <1>5, <1>7, <3>3, <4>1
    <3>4. CASE r # run
      BY <1>6, <1>7, <3>2, <3>4
    <3> QED BY <3>3, <3>4
  <2> QED BY <2>1 DEF OrdersAreSafe
<1>14. AcksAreOlder'
  <2>1. ASSUME NEW g \in Host, NEW r \in Run, NEW j \in DOMAIN toExecd[g],
               ExitAck(toExecd[g][j]), OrderAfter(g, r, j)'
        PROVE  ~HasRun(g, r)' /\ \A i \in 1 .. j : toExecd[g][i] # JobMessage(r)
    <3>1. j \in Nat
      BY QueueDomain
    <3>2. OrderAfter(g, r, j)
      BY <1>9, <2>1, <3>1
    <3> QED BY <1>7, <2>1, <3>2 DEF RunInv, AcksAreOlder
  <2> QED BY <1>1, <2>1 DEF AcksAreOlder, ExitAck, JobMessage
<1>15. StartsAreFirst'
  <2>1. ASSUME NEW g \in Host
        PROVE  phase'[g] # "dead" /\ (phase'[g] = "start" => starts'[task'[g].run] = 0)
    <3>1. CASE g = h
      BY <1>1, <3>1 DEF ExecdInv, ExecdTypeOK
    <3>2. CASE g # h
      <4>1. phase'[g] = phase[g] /\ task'[g] = task[g] /\ phase[g] # "dead"
        BY <1>1, <3>2 DEF ExecdInv, ExecdTypeOK, RunInv, StartsAreFirst
      <4>2. ASSUME phase[g] = "start" PROVE starts'[task[g].run] = 0
        <5>1. task[g] \in Task
          BY <4>2 DEF ExecdInv, ExecdTypeOK, PhaseInv
        <5>2. task[g].run \in Run /\ HasRun(g, task[g].run)
          BY <5>1, NoTaskAssumption DEF Task, HasRun
        <5>3. task[g].run # run
          BY <1>5, <3>2, <5>2 DEF RunInv, OneHost, Concerns
        <5>4. starts[task[g].run] = 0
          BY <4>2 DEF RunInv, StartsAreFirst
        <5> QED BY <1>6, <5>2, <5>3, <5>4
      <4> QED BY <4>1, <4>2
    <3> QED BY <3>1, <3>2
  <2> QED BY <2>1 DEF StartsAreFirst
<1>16. NoDoubleStart'
  BY <1>6 DEF RunInv, NoDoubleStart
<1> QED BY <1>11, <1>12, <1>13, <1>14, <1>15, <1>16 DEF RunInv

LEMMA DisconnectRuns ==
  ASSUME ExecdInv, ExecdInv', RunInv, UNCHANGED mvars, NEW h \in Host, Disconnect(h)
  PROVE  RunInv'
<1>1. /\ toExecd' = [toExecd EXCEPT ![h] = <<>>] /\ UNCHANGED <<phase, task, starts>>
  BY DEF Disconnect, Fault
<1>2. toExecd'[h] = <<>> /\ \A g \in Host \ {h} : toExecd'[g] = toExecd[g]
  BY <1>1 DEF ExecdInv, MessagesTypeOK
<1>3. Shifted(toExecd[h], toExecd'[h], 0)
  BY <1>2 DEF Shifted
<1>4. \A g \in Host : phase[g] # "dead"
  BY DEF RunInv, StartsAreFirst
<1>5. 0 \in Nat
  OBVIOUS
<1> QED BY <1>1, <1>2, <1>3, <1>4, <1>5, DaemonKeeps

LEMMA ExecdRuns ==
  ASSUME ExecdInv, ExecdInv', RunInv, UNCHANGED mvars, "crash" \notin Faults,
         NEW h \in Host, ExecdStep(h)
  PROVE  RunInv'
<1>1. ASSUME UNCHANGED <<toExecd, task, starts>>,
             UNCHANGED phase \/ phase' = [phase EXCEPT ![h] = "wait"]
      PROVE  RunInv'
  <2>1. \A g \in Host : phase'[g] # "dead" /\ (phase'[g] = "start" => phase[g] = "start")
    BY <1>1 DEF RunInv, StartsAreFirst, ExecdInv, ExecdTypeOK
  <2>2. Shifted(toExecd[h], toExecd'[h], 0)
    BY <1>1, NothingRead
  <2>3. 0 \in Nat
    OBVIOUS
  <2> QED BY <1>1, <2>1, <2>2, <2>3, DaemonKeeps
<1>2. CASE ReceiveJob(h) \/ ReceiveSignal(h) \/ ReceiveAck(h)
  BY <1>2, ReceiveJobRuns, ReceiveSignalRuns, ReceiveAckRuns
<1>3. CASE StartJobs(h)
  BY <1>3, StartJobsRuns
<1>4. CASE SaveSpool(h)
  BY <1>1, <1>4 DEF SaveSpool
<1>5. CASE \E r \in Run : ProcessEnds(h, r)
  BY <1>1, <1>5 DEF ProcessEnds
<1>6. CASE Reap(h)
  BY <1>1, <1>6 DEF Reap
<1>7. CASE SendReport(h) \/ Reconnect(h)
  BY <1>1, <1>7 DEF SendReport, Reconnect, evars
<1>8. CASE Disconnect(h)
  BY <1>8, DisconnectRuns
<1>9. ~Crash(h) /\ ~Restart(h)
  BY DEF Crash, Fault, Restart, RunInv, StartsAreFirst
<1> QED BY <1>2, <1>3, <1>4, <1>5, <1>6, <1>7, <1>8, <1>9 DEF ExecdStep

-----------------------------------------------------------------------------
LEMMA RunInit ==
  ASSUME Init
  PROVE  RunInv /\ HostIsClear
<1>1. /\ toExecd = [h \in Host |-> <<>>] /\ task = [h \in Host |-> NoTask]
      /\ phase = [h \in Host |-> "wait"] /\ starts = [r \in Run |-> 0]
      /\ ja.status = "JIDLE"
  BY DEF Init, MessagesInit, QmasterInit, ExecdInit
<1>2. \A h \in Host, r \in Run, j \in Nat : ~HasRun(h, r) /\ ~OrderAfter(h, r, j)
  BY <1>1 DEF HasRun, OrderAfter, MayResend
<1>3. \A h \in Host, r \in Run : ~Concerns(h, r)
  BY <1>2 DEF Concerns
<1>4. RunsAreKnown /\ OneHost
  BY <1>1, <1>3 DEF RunsAreKnown, OneHost
<1>5. OrdersAreSafe /\ AcksAreOlder
  BY <1>1, <1>2 DEF OrdersAreSafe, AcksAreOlder
<1>6. StartsAreFirst /\ NoDoubleStart /\ HostIsClear
  BY <1>1 DEF StartsAreFirst, NoDoubleStart, HostIsClear, Sent
<1> QED BY <1>4, <1>5, <1>6 DEF RunInv

LEMMA StutterRuns ==
  ASSUME RunInv, HostIsClear, UNCHANGED vars
  PROVE  RunInv' /\ HostIsClear'
BY DEF RunInv, HostIsClear, vars, mvars, evars, RunsAreKnown, OneHost, OrdersAreSafe,
       AcksAreOlder, StartsAreFirst, NoDoubleStart, Concerns, HasRun, OrderAfter, MayResend,
       ExitAck, JobMessage

\* NoDoubleStart: an order that is repeated does not start the job again, in
\* any order of reports, acknowledgements, timers, deletions, moves to another
\* host, lost messages and broken connections, as long as no daemon dies.
\* (One that dies between the start of the job and the write of its spool file
\* takes the job for one that was not started.)
THEOREM StartedOnce ==
  ASSUME "crash" \notin Faults
  PROVE  Spec => []NoDoubleStart
<1>1. Init => RunInv /\ HostIsClear
  BY RunInit
<1>2. /\ MasterInv /\ MasterInv' /\ ExecdInv /\ ExecdInv' /\ RuInv /\ RunInv /\ HostIsClear
      /\ [Next]_vars
      => RunInv' /\ HostIsClear'
  <2> SUFFICES ASSUME MasterInv, MasterInv', ExecdInv, ExecdInv', RuInv, RunInv, HostIsClear,
                      [Next]_vars
               PROVE  RunInv' /\ HostIsClear'
    OBVIOUS
  <2>1. CASE QmasterStep /\ UNCHANGED evars
    BY <2>1, QmasterRuns
  <2>2. CASE \E h \in Host : ExecdStep(h) /\ UNCHANGED mvars
    <3>1. RunInv'
      BY <2>2, ExecdRuns
    <3>2. HostIsClear'
      BY <2>2 DEF HostIsClear, mvars
    <3> QED BY <3>1, <3>2
  <2>3. CASE UNCHANGED vars
    BY <2>3, StutterRuns
  <2> QED BY <2>1, <2>2, <2>3 DEF Next
<1>3. RunInv => NoDoubleStart
  BY DEF RunInv
<1> QED BY <1>1, <1>2, <1>3, MasterInvHolds, ExecdInvHolds, RuInvHolds, PTL DEF Spec
=============================================================================
