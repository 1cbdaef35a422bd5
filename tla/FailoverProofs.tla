--------------------------- MODULE FailoverProofs ---------------------------
(***************************************************************************)
(* That there are never two qmasters but for one that hangs or has done    *)
(* so, for any number of hosts, mishaps, shutdowns and restarts.           *)
(*                                                                         *)
(* The lock file is a token: at most one shadow daemon that has made it,   *)
(* or one qmaster that is starting and has not removed it, holds it.  A    *)
(* qmaster that has removed it has incremented the heartbeat before, and   *)
(* whoever makes the lock file afterwards sees that.                       *)
(***************************************************************************)
EXTENDS Failover, TLAPS

Holds(s) == stage[s] \in {"rereads", "compares", "asks", "starts", "gives up"}
Locks(m) == qmaster[m] \in {"started", "boots", "unlocks"}
Leads(m) == qmaster[m] \in {"unlocks", "names", "runs"}

\* Whoever holds the lock file holds it alone.
OneHolder ==
  /\ \A s, t \in Host : Holds(s) /\ Holds(t) => s = t
  /\ \A m, n \in Host : Locks(m) /\ Locks(n) => m = n
  /\ \A s, m \in Host : ~(Holds(s) /\ Locks(m))
  /\ \A h \in Host : Holds(h) \/ Locks(h) => lockFile = TRUE

\* A heartbeat that has not changed since a shadow daemon found it old, and a
\* shadow daemon that has read it again, tell that no qmaster leads.
FindsNone(s) ==
  \/ stage[s] # "sleeps" /\ stillOld[s] = TRUE
  \/ stage[s] \in {"compares", "asks", "starts"}

OldMeansNone == \A s \in Host, m \in Host \ wasHung : FindsNone(s) => ~Leads(m)

FailoverInv == FailoverTypeOK /\ OneHolder /\ OldMeansNone /\ OneQmaster

LEMMA InitInv == FailoverInit => FailoverInv
<1> SUFFICES ASSUME FailoverInit PROVE FailoverInv OBVIOUS
<1> USE HostAssumption, CheckAssumption DEF FailoverInit
<1>1. FailoverTypeOK
  <2>1. 0 \in 0 .. CheckEvery - 1 OBVIOUS
  <2>2. lockFile \in BOOLEAN OBVIOUS
  <2>3. unchanged \in [Host -> BOOLEAN] /\ stillOld \in [Host -> BOOLEAN] OBVIOUS
  <2>4. qmaster \in [Host -> {"none", "runs"}] OBVIOUS
  <2>5. stage \in [Host -> {"sleeps"}] /\ exitState \in [Host -> {0}] OBVIOUS
  <2>6. oldQmaster \in [Host -> Host] OBVIOUS
  <2>7. hung \subseteq wasHung /\ wasHung \subseteq Host /\ mishaps \in Nat OBVIOUS
  <2> QED
    BY <2>1, <2>2, <2>3, <2>4, <2>5, <2>6, <2>7 DEF FailoverTypeOK, ShadowStage, Idle, Starting
<1>2. OneHolder BY DEF OneHolder, Holds, Locks
<1>3. OldMeansNone BY DEF OldMeansNone, FindsNone, Leads
<1>4. OneQmaster BY DEF OneQmaster, Starting
<1> QED BY <1>1, <1>2, <1>3, <1>4 DEF FailoverInv

LEMMA IncrementTypes ==
  ASSUME FailoverTypeOK, Increment
  PROVE  /\ beat' \in 0 .. CheckEvery - 1
         /\ unchanged' \in [Host -> BOOLEAN] /\ stillOld' \in [Host -> BOOLEAN]
<1>1. beat' \in 0 .. CheckEvery - 1
  <2>1. beat \in Nat /\ CheckEvery \in Nat /\ CheckEvery > 0
    BY CheckAssumption DEF FailoverTypeOK
  <2>2. \A b \in Nat, k \in Nat : k > 0 => (b + 1) % k \in 0 .. k - 1 OBVIOUS
  <2>3. (beat + 1) % CheckEvery \in 0 .. CheckEvery - 1 BY <2>1, <2>2
  <2> QED BY <2>3 DEF Increment
<1>2. unchanged' \in [Host -> BOOLEAN] /\ stillOld' \in [Host -> BOOLEAN]
  BY DEF Increment
<1> QED BY <1>1, <1>2

LEMMA NatSuccessor == \A n \in Nat : n + 1 \in Nat OBVIOUS

MasterPlace == Starting \cup {"none", "runs", "ends100", "ends", "spooled", "closed"}

\* One step of a qmaster or of a shadow daemon moves it and nobody else.
LEMMA OneGoesOn ==
  ASSUME FailoverTypeOK, NEW h \in Host, NEW to, GoOn(h, to)
  PROVE  \A g \in Host : qmaster'[g] = IF g = h THEN to ELSE qmaster[g]
BY DEF FailoverTypeOK, GoOn

LEMMA OneSteps ==
  ASSUME FailoverTypeOK, NEW h \in Host, NEW to, Step(h, to)
  PROVE  \A s \in Host : stage'[s] = IF s = h THEN to ELSE stage[s]
BY DEF FailoverTypeOK, Step

\* A shadow daemon reads the heartbeat, or forgets what it has read.
Reads(h) ==
  /\ UNCHANGED beat
  /\ \/ UNCHANGED unchanged \/ unchanged' = [unchanged EXCEPT ![h] = TRUE]
  /\ \/ UNCHANGED stillOld
     \/ \E b \in BOOLEAN : stillOld' = [stillOld EXCEPT ![h] = b]

\* What a step does to each variable, whoever takes it.
Effect(h) ==
  /\ UNCHANGED lockFile \/ lockFile' \in BOOLEAN
  /\ UNCHANGED actQmaster \/ actQmaster' = h
  /\ UNCHANGED <<beat, readings>> \/ Increment \/ Reads(h)
  /\ UNCHANGED qmaster \/ \E p \in MasterPlace : GoOn(h, p)
  /\ UNCHANGED exitState \/ \E x \in {0, 100} : exitState' = [exitState EXCEPT ![h] = x]
  /\ UNCHANGED stage \/ \E p \in ShadowStage : Step(h, p)
  /\ UNCHANGED oldQmaster \/ \E g \in Host : oldQmaster' = [oldQmaster EXCEPT ![h] = g]
  /\ \/ UNCHANGED <<hung, wasHung>>
     \/ hung' = hung \ {h} /\ UNCHANGED wasHung
     \/ hung' = hung \cup {h} /\ wasHung' = wasHung \cup {h}
  /\ mishaps' = mishaps \/ mishaps' = mishaps + 1

LEMMA QmasterEffect == ASSUME NEW h \in Host, QmasterRuns(h) PROVE Effect(h)
<1> USE DEF Effect, files, shadows, Starting, MasterPlace
<1>0. CASE Enroll(h) BY <1>0 DEF Enroll
<1>1. CASE Boot(h) BY <1>1 DEF Boot
<1>2. CASE Unlock(h) BY <1>2 DEF Unlock
<1>3. CASE WriteName(h) BY <1>3 DEF WriteName
<1>4. CASE Beat(h) BY <1>4 DEF Beat
<1>5. CASE SetExitState(h) BY <1>5 DEF SetExitState
<1>6. CASE TerminateWorkers(h) BY <1>6 DEF TerminateWorkers
<1>7. CASE Exit(h) BY <1>7 DEF Exit
<1> QED BY <1>0, <1>1, <1>2, <1>3, <1>4, <1>5, <1>6, <1>7 DEF QmasterRuns

LEMMA ShadowEffect == ASSUME FailoverTypeOK, NEW h \in Host, ShadowRuns(h) PROVE Effect(h)
<1>1. actQmaster \in Host BY DEF FailoverTypeOK
<1> USE DEF Effect, Reads, files, masters, shadows, readings, ShadowStage, Idle, MasterPlace,
        Starting, ShadowGoesOn, ShadowSleeps
<1>2. CASE ReadHeartbeat(h) BY <1>2 DEF ReadHeartbeat
<1>3. CASE CheckLock(h) BY <1>3 DEF CheckLock
<1>4. CASE ReadName(h) BY <1>1, <1>4 DEF ReadName
<1>5. CASE Bid(h) BY <1>5 DEF Bid
<1>6. CASE RereadHeartbeat(h) BY <1>6 DEF RereadHeartbeat
<1>7. CASE CompareNames(h) BY <1>7 DEF CompareNames
<1>8. CASE AskOldMaster(h) BY <1>8 DEF AskOldMaster
<1>9. CASE GiveUp(h) BY <1>9 DEF GiveUp
<1>10. CASE StartQmaster(h) BY <1>10 DEF StartQmaster
<1> QED BY <1>2, <1>3, <1>4, <1>5, <1>6, <1>7, <1>8, <1>9, <1>10 DEF ShadowRuns

\* What befalls a qmaster from outside.
Befalls(h) == Shutdown(h) \/ Restart(h) \/ Crash(h) \/ HangUp(h) \/ ComeBack(h)

LEMMA OutsideEffect == ASSUME NEW h \in Host, Befalls(h) PROVE Effect(h)
<1> USE DEF Effect, files, shadows, Starting, MasterPlace
<1>1. CASE Shutdown(h) BY <1>1 DEF Shutdown
<1>2. CASE Restart(h) BY <1>2 DEF Restart
<1>3. CASE Crash(h) BY <1>3 DEF Crash
<1>4. CASE HangUp(h) BY <1>4 DEF HangUp
<1>5. CASE ComeBack(h) BY <1>5 DEF ComeBack
<1> QED BY <1>1, <1>2, <1>3, <1>4, <1>5 DEF Befalls

LEMMA NextTypes == ASSUME FailoverTypeOK, FailoverNext PROVE FailoverTypeOK'
<1>1. PICK h \in Host : Effect(h)
  BY QmasterEffect, ShadowEffect, OutsideEffect DEF FailoverNext, Befalls
<1>2. lockFile' \in BOOLEAN /\ actQmaster' \in Host BY <1>1 DEF Effect, FailoverTypeOK
<1>3. /\ beat' \in 0 .. CheckEvery - 1
      /\ unchanged' \in [Host -> BOOLEAN] /\ stillOld' \in [Host -> BOOLEAN]
  <2>1. CASE Increment BY <2>1, IncrementTypes
  <2>2. CASE UNCHANGED <<beat, readings>> BY <2>2 DEF FailoverTypeOK, readings
  <2>3. CASE Reads(h)
    <3>1. unchanged' \in [Host -> BOOLEAN] BY <2>3 DEF Reads, FailoverTypeOK
    <3>2. stillOld' \in [Host -> BOOLEAN] BY <2>3 DEF Reads, FailoverTypeOK
    <3> QED BY <2>3, <3>1, <3>2 DEF Reads, FailoverTypeOK
  <2> QED BY <1>1, <2>1, <2>2, <2>3 DEF Effect
<1>4. qmaster' \in [Host -> MasterPlace]
  <2>1. qmaster \in [Host -> MasterPlace] BY DEF FailoverTypeOK, MasterPlace
  <2> QED BY <1>1, <2>1 DEF Effect, GoOn
<1>5. stage' \in [Host -> ShadowStage]
  <2>1. stage \in [Host -> ShadowStage] BY DEF FailoverTypeOK
  <2> QED BY <1>1, <2>1 DEF Effect, Step
<1>6. exitState' \in [Host -> {0, 100}] BY <1>1 DEF Effect, FailoverTypeOK
<1>7. oldQmaster' \in [Host -> Host]
  <2>1. oldQmaster \in [Host -> Host] BY DEF FailoverTypeOK
  <2> QED BY <1>1, <2>1 DEF Effect
<1>8. hung' \subseteq wasHung' /\ wasHung' \subseteq Host BY <1>1 DEF Effect, FailoverTypeOK
<1>9. mishaps' \in Nat
  <2>1. mishaps \in Nat BY DEF FailoverTypeOK
  <2> QED BY <1>1, <2>1, NatSuccessor DEF Effect
<1> QED BY <1>2, <1>3, <1>4, <1>5, <1>6, <1>7, <1>8, <1>9 DEF FailoverTypeOK, MasterPlace

-----------------------------------------------------------------------------
\* What a step means for the lock file: who holds it, and who comes to lead.
NoNewHolder == \A s \in Host : Holds(s)' => Holds(s)
NoNewLocker == \A m \in Host : Locks(m)' => Locks(m)
NoNewLeader == \A m \in Host : Leads(m)' => Leads(m)

\* A step of a qmaster other than the startup heartbeat makes nobody lock or
\* lead, and one from outside neither, but for the start by hand.
LEMMA MastersStep ==
  ASSUME FailoverTypeOK, NEW h \in Host, QmasterRuns(h) \/ Befalls(h)
  PROVE  /\ Restart(h) \/ NoNewLocker
         /\ Boot(h) \/ NoNewLeader
         /\ UNCHANGED stage /\ wasHung \subseteq wasHung'
<1>1. UNCHANGED stage /\ wasHung \subseteq wasHung'
  BY DEF QmasterRuns, Befalls, Enroll, Boot, Unlock, WriteName, Beat, SetExitState, TerminateWorkers, Exit,
     Shutdown, Restart, Crash, HangUp, ComeBack, shadows
<1>2. \/ UNCHANGED qmaster
      \/ qmaster[h] = "started" /\ GoOn(h, "boots")
      \/ qmaster[h] = "boots" /\ GoOn(h, "unlocks") /\ Boot(h)
      \/ qmaster[h] = "unlocks" /\ GoOn(h, "names")
      \/ qmaster[h] = "names" /\ GoOn(h, "runs")
      \/ GoOn(h, "started") /\ Restart(h)
      \/ \E p \in {"ends100", "ends", "spooled", "closed", "none"} : GoOn(h, p)
  <2>1. CASE QmasterRuns(h)
    BY <2>1 DEF QmasterRuns, Enroll, Boot, Unlock, WriteName, Beat, SetExitState, TerminateWorkers, Exit
  <2>2. CASE Befalls(h) BY <2>2 DEF Befalls, Shutdown, Restart, Crash, HangUp, ComeBack
  <2> QED BY <2>1, <2>2
<1>3. CASE UNCHANGED qmaster BY <1>1, <1>3 DEF NoNewLocker, NoNewLeader, Locks, Leads
<1>4. ASSUME NEW p, GoOn(h, p), p \notin {"started", "boots", "unlocks"}, p \notin {"names", "runs"}
      PROVE  NoNewLocker /\ NoNewLeader
  BY <1>4, OneGoesOn DEF NoNewLocker, NoNewLeader, Locks, Leads
<1>5. ASSUME NEW p \in {"names", "runs"}, GoOn(h, p), Leads(h) PROVE NoNewLocker /\ NoNewLeader
  BY <1>5, OneGoesOn DEF NoNewLocker, NoNewLeader, Locks, Leads
<1>6. CASE qmaster[h] = "boots" /\ GoOn(h, "unlocks") /\ Boot(h)
  <2>1. NoNewLocker BY <1>6, OneGoesOn DEF NoNewLocker, Locks
  <2> QED BY <1>1, <1>6, <2>1
<1>7. CASE GoOn(h, "started") /\ Restart(h)
  <2>1. NoNewLeader BY <1>7, OneGoesOn DEF NoNewLeader, Leads
  <2> QED BY <1>1, <1>7, <2>1
<1>8. CASE qmaster[h] = "started" /\ GoOn(h, "boots")
  BY <1>1, <1>8, OneGoesOn DEF NoNewLocker, NoNewLeader, Locks, Leads
<1> QED BY <1>1, <1>2, <1>3, <1>4, <1>5, <1>6, <1>7, <1>8 DEF Leads

\* A step of a shadow daemon makes it hold the lock file only by Bid, and makes
\* a qmaster lock only when it starts one.
LEMMA ShadowStep ==
  ASSUME FailoverTypeOK, NEW h \in Host, ShadowRuns(h)
  PROVE  /\ Bid(h) \/ NoNewHolder
         /\ StartQmaster(h) \/ NoNewLocker
         /\ NoNewLeader /\ UNCHANGED wasHung
<1>1. UNCHANGED wasHung
  BY DEF ShadowRuns, ReadHeartbeat, CheckLock, ReadName, Bid, RereadHeartbeat, CompareNames,
     AskOldMaster, GiveUp, StartQmaster, masters
<1>2. NoNewLeader /\ (StartQmaster(h) \/ NoNewLocker)
  <2>1. UNCHANGED qmaster \/ (GoOn(h, "started") /\ StartQmaster(h))
    <3>1. CASE StartQmaster(h) BY <3>1 DEF StartQmaster
    <3> USE DEF masters
    <3>2. CASE ReadHeartbeat(h) BY <3>2 DEF ReadHeartbeat
    <3>3. CASE CheckLock(h) \/ ReadName(h) \/ Bid(h) BY <3>3 DEF CheckLock, ReadName, Bid
    <3>4. CASE RereadHeartbeat(h) \/ CompareNames(h) BY <3>4 DEF RereadHeartbeat, CompareNames
    <3>5. CASE AskOldMaster(h) \/ GiveUp(h) BY <3>5 DEF AskOldMaster, GiveUp
    <3> QED BY <3>1, <3>2, <3>3, <3>4, <3>5 DEF ShadowRuns
  <2>2. CASE UNCHANGED qmaster BY <2>2 DEF NoNewLocker, NoNewLeader, Locks, Leads
  <2>3. CASE GoOn(h, "started") /\ StartQmaster(h)
    BY <2>3, OneGoesOn DEF NoNewLeader, Leads
  <2> QED BY <2>1, <2>2, <2>3
<1>3. \/ UNCHANGED stage \/ Bid(h)
      \/ \E p \in Idle : Step(h, p)
      \/ Holds(h) /\ \E p : Step(h, p)
  <2> USE DEF ShadowGoesOn, ShadowSleeps, Idle, Holds, shadows
  <2>1. CASE ReadHeartbeat(h) BY <2>1 DEF ReadHeartbeat
  <2>2. CASE CheckLock(h) BY <2>2 DEF CheckLock
  <2>3. CASE ReadName(h) BY <2>3 DEF ReadName
  <2>4. CASE RereadHeartbeat(h) BY <2>4 DEF RereadHeartbeat
  <2>5. CASE CompareNames(h) BY <2>5 DEF CompareNames
  <2>6. CASE AskOldMaster(h) BY <2>6 DEF AskOldMaster
  <2>7. CASE GiveUp(h) BY <2>7 DEF GiveUp
  <2>8. CASE StartQmaster(h) BY <2>8 DEF StartQmaster
  <2> QED BY <2>1, <2>2, <2>3, <2>4, <2>5, <2>6, <2>7, <2>8 DEF ShadowRuns
<1>4. ASSUME UNCHANGED stage PROVE NoNewHolder BY <1>4 DEF NoNewHolder, Holds
<1>5. ASSUME NEW p, Step(h, p), Holds(h) \/ p \in Idle PROVE NoNewHolder
  BY <1>5, OneSteps DEF NoNewHolder, Holds, Idle
<1> QED BY <1>1, <1>2, <1>3, <1>4, <1>5

\* Whoever lets go of the lock file, nobody takes it.
LEMMA NobodyTakes ==
  ASSUME OneHolder, NoNewHolder, NoNewLocker,
         \/ lockFile' = lockFile \/ lockFile' = TRUE
         \/ \A s \in Host : ~Holds(s)' /\ ~Locks(s)'
  PROVE  OneHolder'
BY DEF OneHolder, NoNewHolder, NoNewLocker

\* Whoever makes the lock file, or starts a qmaster by hand, is alone.
LEMMA OneTakes ==
  ASSUME OneHolder, NEW h \in Host, lockFile' = TRUE,
         \A s \in Host : Holds(s)' \/ Locks(s)' => s = h,
         ~(Holds(h)' /\ Locks(h)')
  PROVE  OneHolder'
BY DEF OneHolder

\* A qmaster that removes the lock file has it, and so does a shadow daemon
\* that gives up.
LEMMA LockFileIsRemoved ==
  ASSUME FailoverInv, NEW h \in Host, Unlock(h) \/ GiveUp(h) PROVE OneHolder'
<1> USE DEF FailoverInv
<1>1. CASE Unlock(h)
  <2>1. Locks(h) /\ UNCHANGED stage /\ GoOn(h, "names")
    BY <1>1 DEF Unlock, Locks, shadows
  <2>2. \A s \in Host : ~Holds(s)' BY <2>1 DEF OneHolder, Holds
  <2>3. \A m \in Host : qmaster'[m] = IF m = h THEN "names" ELSE qmaster[m] BY <2>1, OneGoesOn
  <2>4. \A m \in Host : Locks(m) => m = h BY <2>1 DEF OneHolder
  <2>5. \A m \in Host : ~Locks(m)' BY <2>3, <2>4 DEF Locks
  <2> QED BY <2>2, <2>5 DEF OneHolder
<1>2. CASE GiveUp(h)
  <2>1. Holds(h) /\ UNCHANGED qmaster /\ Step(h, "sleeps")
    BY <1>2 DEF GiveUp, Holds, masters, ShadowSleeps
  <2>2. \A m \in Host : ~Locks(m)' BY <2>1 DEF OneHolder, Locks
  <2>3. \A s \in Host : stage'[s] = IF s = h THEN "sleeps" ELSE stage[s] BY <2>1, OneSteps
  <2>4. \A s \in Host : Holds(s) => s = h BY <2>1 DEF OneHolder
  <2>5. \A s \in Host : ~Holds(s)' BY <2>3, <2>4 DEF Holds
  <2> QED BY <2>2, <2>5 DEF OneHolder
<1> QED BY <1>1, <1>2

LEMMA BiddersAreAlone == ASSUME FailoverInv, NEW h \in Host, Bid(h) PROVE OneHolder'
<1> USE DEF FailoverInv
<1>1. UNCHANGED qmaster /\ lockFile' = TRUE BY DEF Bid, masters
<1>2. CASE lockFile = TRUE
  <2>1. Step(h, "sleeps") BY <1>2 DEF Bid, ShadowSleeps
  <2>2. \A s \in Host : stage'[s] = IF s = h THEN "sleeps" ELSE stage[s] BY <2>1, OneSteps
  <2>3. NoNewHolder BY <2>2 DEF NoNewHolder, Holds
  <2>4. NoNewLocker BY <1>1 DEF NoNewLocker, Locks
  <2> QED BY <1>1, <2>3, <2>4, NobodyTakes
<1>3. CASE lockFile # TRUE
  <2>1. Step(h, "rereads") BY <1>3 DEF Bid, ShadowGoesOn, FailoverTypeOK
  <2>2. \A s \in Host : ~Holds(s) /\ ~Locks(s) BY <1>3 DEF OneHolder
  <2>3. \A s \in Host : stage'[s] = IF s = h THEN "rereads" ELSE stage[s] BY <2>1, OneSteps
  <2>4. \A s \in Host : Holds(s)' => s = h BY <2>2, <2>3 DEF Holds
  <2>5. \A s \in Host : ~Locks(s)' BY <1>1, <2>2 DEF Locks
  <2> QED BY <1>1, <2>4, <2>5, OneTakes
<1> QED BY <1>2, <1>3

\* The lock file passes from the shadow daemon to the qmaster it starts.
LEMMA StartPassesLock == ASSUME FailoverInv, NEW h \in Host, StartQmaster(h) PROVE OneHolder'
<1> USE DEF FailoverInv
<1>1. Holds(h) /\ UNCHANGED lockFile /\ Step(h, "sleeps")
  BY DEF StartQmaster, Holds, files, ShadowSleeps
<1>2. \A s \in Host : stage'[s] = IF s = h THEN "sleeps" ELSE stage[s] BY <1>1, OneSteps
<1>3. \A s \in Host : ~Locks(s) /\ (Holds(s) => s = h) /\ lockFile = TRUE BY <1>1 DEF OneHolder
<1>4. \A s \in Host : ~Holds(s)' BY <1>2, <1>3 DEF Holds
<1>5. UNCHANGED qmaster \/ GoOn(h, "started") BY DEF StartQmaster
<1>6. \A m \in Host : m # h => qmaster'[m] = qmaster[m] BY <1>5, OneGoesOn
<1>7. \A m \in Host : Locks(m)' => m = h BY <1>3, <1>6 DEF Locks
<1> QED BY <1>1, <1>3, <1>4, <1>7, OneTakes

LEMMA RestartIsAlone == ASSUME FailoverInv, NEW h \in Host, Restart(h) PROVE OneHolder'
<1> USE DEF FailoverInv
<1>1. /\ lockFile' = TRUE /\ UNCHANGED stage /\ GoOn(h, "started")
      /\ \A s \in Host : qmaster[s] = "none" /\ stage[s] \in Idle
  BY DEF Restart, files, shadows, FailoverTypeOK
<1>2. \A s \in Host : ~Holds(s)' BY <1>1 DEF Holds, Idle
<1>3. \A m \in Host : qmaster'[m] = IF m = h THEN "started" ELSE qmaster[m] BY <1>1, OneGoesOn
<1>4. \A m \in Host : Locks(m)' => m = h BY <1>1, <1>3 DEF Locks
<1> QED BY <1>1, <1>2, <1>4, OneTakes

\* One step of a qmaster changes who locks, and one of a shadow daemon who holds.
LEMMA NextHolder == ASSUME FailoverInv, FailoverNext PROVE OneHolder'
<1> USE DEF FailoverInv
<1>0. PICK h \in Host : QmasterRuns(h) \/ ShadowRuns(h) \/ Befalls(h)
  BY DEF FailoverNext, Befalls
<1>1. CASE (QmasterRuns(h) \/ Befalls(h)) /\ ~Unlock(h) /\ ~Restart(h)
  <2>1. NoNewLocker /\ UNCHANGED stage BY <1>1, MastersStep
  <2>2. NoNewHolder BY <2>1 DEF NoNewHolder, Holds
  <2>3. lockFile' = lockFile \/ lockFile' = TRUE
    BY <1>1 DEF QmasterRuns, Befalls, Enroll, Boot, WriteName, Beat, SetExitState, TerminateWorkers, Exit,
       Shutdown, Crash, HangUp, ComeBack, files, FailoverTypeOK
  <2> QED BY <2>1, <2>2, <2>3, NobodyTakes
<1>2. CASE ShadowRuns(h) /\ ~Bid(h) /\ ~GiveUp(h) /\ ~StartQmaster(h)
  <2>1. NoNewLocker /\ NoNewHolder BY <1>2, ShadowStep
  <2>2. lockFile' = lockFile
    BY <1>2 DEF ShadowRuns, ReadHeartbeat, CheckLock, ReadName, RereadHeartbeat, CompareNames,
       AskOldMaster, files
  <2> QED BY <2>1, <2>2, NobodyTakes
<1> QED
  BY <1>0, <1>1, <1>2, LockFileIsRemoved, BiddersAreAlone, StartPassesLock, RestartIsAlone

-----------------------------------------------------------------------------
\* Nobody comes to lead, and no shadow daemon comes to think that nobody does.
LEMMA NothingNew ==
  ASSUME OldMeansNone, NoNewLeader, wasHung \subseteq wasHung',
         \A s \in Host : FindsNone(s)' => FindsNone(s)
  PROVE  OldMeansNone'
BY DEF OldMeansNone, NoNewLeader

\* The startup heartbeat is seen by every shadow daemon that has not read the
\* heartbeat again, and the others have no lock file: the new qmaster has it.
LEMMA BootIsSeen == ASSUME FailoverInv, NEW h \in Host, Boot(h) PROVE OldMeansNone'
<1> USE DEF FailoverInv
<1>1. Locks(h) BY DEF Boot, Locks
<1>2. \A s \in Host : ~Holds(s) BY <1>1 DEF OneHolder
<1>3. UNCHANGED stage /\ Increment BY DEF Boot, shadows
<1>4. \A s \in Host : stillOld'[s] = FALSE BY <1>3 DEF Increment
<1>5. \A s \in Host : stage'[s] \notin {"compares", "asks", "starts"} BY <1>2, <1>3 DEF Holds
<1>6. \A s \in Host : ~FindsNone(s)' BY <1>4, <1>5 DEF FindsNone
<1> QED BY <1>6 DEF OldMeansNone

\* The first reading finds the heartbeat old when no qmaster has run meanwhile.
LEMMA FirstReading == ASSUME FailoverInv, NEW h \in Host, ReadHeartbeat(h) PROVE OldMeansNone'
<1> USE DEF FailoverInv
<1>1. UNCHANGED <<qmaster, wasHung>> BY DEF ReadHeartbeat, masters
<1>2. CASE UNCHANGED <<stage, stillOld>> BY <1>1, <1>2 DEF OldMeansNone, FindsNone, Leads
<1>3. CASE \A m \in Host \ hung : qmaster[m] = "none"
  <2>1. \A m \in Host \ wasHung' : ~Leads(m)' BY <1>1, <1>3 DEF FailoverTypeOK, Leads
  <2> QED BY <2>1 DEF OldMeansNone
<1> QED BY <1>2, <1>3 DEF ReadHeartbeat, shadows

\* The second reading, and what follows, rely on what the first has found.
LEMMA LaterStages ==
  ASSUME FailoverInv, NEW h \in Host, ShadowRuns(h), ~ReadHeartbeat(h), NEW s \in Host, FindsNone(s)'
  PROVE  FindsNone(s)
<1> USE DEF FailoverInv
<1>1. stage[h] # "sleeps"
  BY DEF ShadowRuns, CheckLock, ReadName, Bid, RereadHeartbeat, CompareNames, AskOldMaster, GiveUp,
     StartQmaster
<1>2. stillOld' = stillOld \/ stillOld' = [stillOld EXCEPT ![h] = FALSE]
  BY DEF ShadowRuns, CheckLock, ReadName, Bid, RereadHeartbeat, CompareNames, AskOldMaster, GiveUp,
     StartQmaster, ShadowGoesOn, ShadowSleeps
<1>3. stillOld'[s] = TRUE => stillOld[s] = TRUE BY <1>2 DEF FailoverTypeOK
<1>4. \/ FindsNone(h) /\ \E p : Step(h, p)
      \/ \E p \in {"sleeps", "reads", "bids", "rereads", "gives up"} : Step(h, p)
  <2> USE DEF ShadowGoesOn, ShadowSleeps, FindsNone
  <2>1. CASE CheckLock(h) BY <2>1 DEF CheckLock
  <2>2. CASE ReadName(h) BY <2>2 DEF ReadName
  <2>3. CASE Bid(h) BY <2>3 DEF Bid
  <2>4. CASE RereadHeartbeat(h)
    <3>1. stillOld[h] \in BOOLEAN /\ stage[h] = "rereads"
      BY <2>4 DEF FailoverTypeOK, RereadHeartbeat
    <3>2. CASE stillOld[h]
      <4>1. Step(h, "compares") BY <2>4, <3>2 DEF RereadHeartbeat, HeartbeatIsOld
      <4> QED BY <3>1, <3>2, <4>1
    <3>3. CASE ~stillOld[h]
      <4>1. Step(h, "gives up") BY <2>4, <3>3 DEF RereadHeartbeat, HeartbeatIsOld
      <4> QED BY <4>1
    <3> QED BY <3>2, <3>3
  <2>5. CASE CompareNames(h) BY <2>5 DEF CompareNames
  <2>6. CASE AskOldMaster(h) BY <2>6 DEF AskOldMaster
  <2>7. CASE GiveUp(h) \/ StartQmaster(h)
    <3>1. Step(h, "sleeps") BY <2>7 DEF GiveUp, StartQmaster
    <3> QED BY <3>1
  <2> QED BY <2>1, <2>2, <2>3, <2>4, <2>5, <2>6, <2>7 DEF ShadowRuns
<1>5. PICK p : /\ FindsNone(h) \/ p \in {"sleeps", "reads", "bids", "rereads", "gives up"}
               /\ stage'[s] = IF s = h THEN p ELSE stage[s]
  BY <1>4, OneSteps
<1>6. CASE s = h BY <1>1, <1>3, <1>5, <1>6 DEF FindsNone
<1>7. CASE s # h BY <1>3, <1>5, <1>7 DEF FindsNone
<1> QED BY <1>6, <1>7

\* A qmaster comes to lead by Boot, when nobody else holds the lock file and
\* every shadow daemon sees the new heartbeat.
LEMMA NextOld == ASSUME FailoverInv, FailoverNext PROVE OldMeansNone'
<1> USE DEF FailoverInv
<1>0. PICK h \in Host : QmasterRuns(h) \/ ShadowRuns(h) \/ Befalls(h)
  BY DEF FailoverNext, Befalls
<1>1. CASE (QmasterRuns(h) \/ Befalls(h)) /\ ~Boot(h)
  <2>1. NoNewLeader /\ UNCHANGED stage /\ wasHung \subseteq wasHung' BY <1>1, MastersStep
  <2>2. UNCHANGED stillOld \/ Increment
    BY <1>1 DEF QmasterRuns, Befalls, Enroll, Unlock, WriteName, Beat, SetExitState, TerminateWorkers, Exit,
       Shutdown, Restart, Crash, HangUp, ComeBack, readings
  <2>3. \A s \in Host : stillOld'[s] = TRUE => stillOld[s] = TRUE BY <2>2 DEF Increment
  <2>4. \A s \in Host : FindsNone(s)' => FindsNone(s) BY <2>1, <2>3 DEF FindsNone
  <2> QED BY <2>1, <2>4, NothingNew
<1>2. CASE ShadowRuns(h) /\ ~ReadHeartbeat(h)
  <2>1. NoNewLeader /\ UNCHANGED wasHung BY <1>2, ShadowStep
  <2>2. \A s \in Host : FindsNone(s)' => FindsNone(s) BY <1>2, LaterStages
  <2> QED BY <2>1, <2>2, NothingNew
<1> QED BY <1>0, <1>1, <1>2, BootIsSeen, FirstReading

\* A qmaster is started by the one shadow daemon that has made the lock file
\* and found that no qmaster leads, or by hand when there is none.
LEMMA NextOne == ASSUME FailoverInv, FailoverNext PROVE OneQmaster'
<1> USE DEF FailoverInv, FailoverTypeOK, OneQmaster, Starting, GoOn, masters
<1> PICK h \in Host :
      \/ QmasterRuns(h) \/ ShadowRuns(h)
      \/ Shutdown(h) \/ Restart(h) \/ Crash(h) \/ HangUp(h) \/ ComeBack(h)
    BY DEF FailoverNext
<1>1. CASE QmasterRuns(h)
  BY <1>1 DEF QmasterRuns, Enroll, Boot, Unlock, WriteName, Beat, SetExitState, TerminateWorkers, Exit
<1>2. CASE StartQmaster(h)
  <2>1. Holds(h) BY <1>2 DEF StartQmaster, Holds
  <2>2. \A m \in Host \ wasHung : qmaster[m] \notin Starting \cup {"runs"}
    BY <1>2, <2>1 DEF StartQmaster, OldMeansNone, FindsNone, OneHolder, Locks, Leads, Starting
  <2> QED BY <1>2, <2>2 DEF StartQmaster
<1>3. CASE ShadowRuns(h) /\ ~StartQmaster(h)
  BY <1>3 DEF ShadowRuns, ReadHeartbeat, CheckLock, ReadName, Bid, RereadHeartbeat, CompareNames,
     AskOldMaster, GiveUp
<1>4. CASE Restart(h) BY <1>4 DEF Restart
<1>5. CASE Shutdown(h) \/ Crash(h) \/ HangUp(h) \/ ComeBack(h)
  BY <1>5 DEF Shutdown, Crash, HangUp, ComeBack
<1> QED BY <1>1, <1>2, <1>3, <1>4, <1>5

\* The invariant: shadowd and qmaster, with the files they share.
THEOREM FailoverInvHolds == FailoverSpec => []FailoverInv
<1>1. FailoverInv /\ [FailoverNext]_failoverVars => FailoverInv'
  <2> SUFFICES ASSUME FailoverInv, [FailoverNext]_failoverVars PROVE FailoverInv' OBVIOUS
  <2>1. CASE FailoverNext BY <2>1, NextTypes, NextHolder, NextOld, NextOne DEF FailoverInv
  <2>2. CASE UNCHANGED failoverVars
    BY <2>2 DEF failoverVars, files, masters, shadows, readings, FailoverInv, FailoverTypeOK,
       OneHolder, OldMeansNone, OneQmaster, Holds, Locks, Leads, FindsNone
  <2> QED BY <2>1, <2>2
<1> QED BY InitInv, <1>1, PTL DEF FailoverSpec

\* Type correctness of the shared files, the qmasters and the shadow daemons.
THEOREM FailoverTypeCorrect == FailoverSpec => []FailoverTypeOK
<1>1. FailoverInv => FailoverTypeOK BY DEF FailoverInv
<1> QED BY FailoverInvHolds, <1>1, PTL

\* For any number of hosts there is never a second qmaster, but for one that
\* hangs or has done so: the lock file and the second reading of the heartbeat
\* in shadowd's main loop see to it.
THEOREM OnlyOneTakesOver == FailoverSpec => []OneQmaster
<1>1. FailoverInv => OneQmaster BY DEF FailoverInv
<1> QED BY FailoverInvHolds, <1>1, PTL
=============================================================================
