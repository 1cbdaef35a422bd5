----------------------------- MODULE LoadReport -----------------------------
(***************************************************************************)
(* The load values of one host: what its execd measures, what it puts into *)
(* its load reports, and what the qmaster knows.  A load report has only   *)
(* the values that are not known to have reached the qmaster;              *)
(* ACK_LOAD_REPORT tells the execd that a report has.  Each side may       *)
(* forget what the other relies on: the qmaster when it takes the host for *)
(* unknown or is restarted, the execd when it is restarted.                *)
(*                                                                         *)
(* Reports are numbered.  The numbers wrap, and the qmaster drops a report *)
(* that seems to be older than the last one.  The program's numbers,       *)
(* 10000, 9000, 9990 and 10, are parameters.                               *)
(***************************************************************************)
EXTENDS Naturals, Sequences

CONSTANTS Name,       \* the load values
          Static,     \* those that do not change with the load, as arch
          Value,
          Absent,     \* there is no such load value
          Null,       \* an element without a value
          NoList,     \* the list has not been created
          Wrap,       \* report numbers are below it
          OldRange, High, Low,  \* what sge_c_report() compares numbers with
          MayVanish,  \* a sensor may stop to deliver a value
          MaxReport,  \* bound: reports and answers on their way
          MaxChange,  \* bound: changes of measured values
          LoadFaults, \* "disconnect", "crash", "restart" and "unheard" may happen
          MaxLoadFault \* bound: faults

ASSUME LoadAssumption ==
  /\ Static \subseteq Name
  /\ Wrap \in Nat \ {0}
  /\ Absent \notin Value /\ Null \notin Value \cup {Absent}

VARIABLES
  \* the execd
  measured,   \* what the sensors deliver
  lrList,     \* lr_list: what the qmaster is known to have; Null: not yet
  lastLr,     \* last_lr: the load report that may be acknowledged, or NoList
  sendAll, flushLr,
  seqno,      \* sge_execd_report_seqno
  link,       \* the connection: up, broken, lost (that is noticed), registers
  \* the qmaster
  known,      \* EH_load_list
  heard,      \* EH_lt_heard_from # 0: the host is not unknown
  lastSeqno,  \* EH_report_seqno
  \* messages, and the bounds
  toQmaster,  \* from the execd, in the order of the task queue
  toExecd,    \* acknowledgements, and requests for all values
  changes, loadFaults

execdVars == <<lrList, lastLr, sendAll, flushLr, seqno>>
hostVars == <<known, heard, lastSeqno>>
loadVars == <<measured, execdVars, link, hostVars, toQmaster, toExecd, changes, loadFaults>>

Measured == Value \cup (IF MayVanish THEN {Absent} ELSE {})

LoadInit ==
  /\ measured = [n \in Name |-> CHOOSE v \in Value : TRUE]
  /\ lrList = NoList /\ lastLr = NoList /\ sendAll = TRUE /\ flushLr = TRUE
  /\ seqno = 0 /\ link = "up"
  /\ known = [n \in Name |-> Absent] /\ heard = FALSE /\ lastSeqno = 0
  /\ toQmaster = <<>> /\ toExecd = <<>> /\ changes = 0 /\ loadFaults = 0

-----------------------------------------------------------------------------
(* The execd's reports. *)

InList(n) == lrList[n] # Absent
Unchanged(n) == InList(n) /\ ~sendAll /\ measured[n] = lrList[n]
Gone(n) == InList(n) /\ measured[n] = Absent

\* The first report has every value and is not waited for.
FirstLoad ==
  /\ lrList = NoList
  /\ lrList' = measured /\ lastLr' = NoList

\* What execd_add_load_report() puts into a report.  A value that is sent is
\* unknown until it is acknowledged; one that is no longer delivered is sent
\* with the mark that deletes it, and whatever the list has for its value.
LoadEntries ==
  IF lrList = NoList
  THEN [n \in {m \in Name : measured[m] # Absent} |-> [value |-> measured[n], deleted |-> FALSE]]
  ELSE [n \in {m \in Name : Gone(m) \/ (measured[m] # Absent /\ ~Unchanged(m))} |->
          IF Gone(n) THEN [value |-> lrList[n], deleted |-> TRUE]
                     ELSE [value |-> measured[n], deleted |-> FALSE]]

LaterLoad ==
  /\ lrList # NoList
  /\ lrList' = [n \in Name |-> IF InList(n) /\ ~Gone(n) /\ ~Unchanged(n) THEN Null ELSE lrList[n]]
  /\ lastLr' = [seqno |-> seqno, load |-> LoadEntries]

Transmit(m) == toQmaster' = IF link = "up" THEN Append(toQmaster, m) ELSE toQmaster

CountReport ==
  /\ Len(toQmaster) + Len(toExecd) < MaxReport
  /\ link \in {"up", "broken"}
  /\ seqno' = (seqno + 1) % Wrap
  /\ UNCHANGED <<measured, link, hostVars, toExecd, changes, loadFaults>>

SendLoadReport ==
  /\ CountReport
  /\ FirstLoad \/ LaterLoad
  /\ sendAll' = FALSE /\ flushLr' = FALSE
  /\ Transmit([tag |-> "load", seqno |-> seqno, full |-> sendAll, load |-> LoadEntries])

\* It is not time for the load values, but for a job report.
SendJobReport ==
  /\ CountReport
  /\ ~flushLr
  /\ Transmit([tag |-> "jobs", seqno |-> seqno])
  /\ UNCHANGED <<lrList, lastLr, sendAll, flushLr>>

\* execd_merge_load_report()
Merged(n) ==
  IF n \notin DOMAIN lastLr.load THEN lrList[n]
  ELSE IF InList(n) /\ lastLr.load[n].deleted THEN Absent ELSE lastLr.load[n].value

MergeLoadReport(id) ==
  IF lastLr # NoList /\ lastLr.seqno = id
  THEN lrList' = [n \in Name |-> Merged(n)] /\ lastLr' = NoList
  ELSE UNCHANGED <<lrList, lastLr>>

ReceiveAnswer ==
  /\ toExecd # <<>> /\ link = "up"
  /\ toExecd' = Tail(toExecd)
  /\ \/ /\ Head(toExecd).tag = "ACK_LOAD_REPORT"
        /\ MergeLoadReport(Head(toExecd).seqno)
        /\ UNCHANGED <<sendAll, flushLr>>
     \/ /\ Head(toExecd).tag = "TAG_FULL_LOAD_REPORT"
        /\ sendAll' = TRUE /\ flushLr' = TRUE
        /\ UNCHANGED <<lrList, lastLr>>
  /\ UNCHANGED <<measured, seqno, link, hostVars, toQmaster, changes, loadFaults>>

\* The dispatcher finds the connection lost, and registers again.
NoticeLoss ==
  /\ link = "broken" /\ link' = "lost"
  /\ UNCHANGED <<measured, execdVars, hostVars, toQmaster, toExecd, changes, loadFaults>>

RegisterHost ==
  /\ link = "lost" /\ link' = "registers"
  /\ toQmaster' = Append(toQmaster, [tag |-> "register"])
  /\ UNCHANGED <<measured, execdVars, hostVars, toExecd, changes, loadFaults>>

-----------------------------------------------------------------------------
(* The qmaster. *)

IsOld(this) ==
  /\ this < lastSeqno /\ lastSeqno - this <= OldRange
  /\ ~(lastSeqno > High /\ this < Low)

Answer(m) == toExecd' = IF link \in {"up", "registers"} THEN Append(toExecd, m) ELSE toExecd

\* sge_update_load_values(): an element without a value is passed over.
UpdateLoadValues(load) ==
  /\ heard' = TRUE
  /\ known' = [n \in Name |->
                 IF n \notin DOMAIN load \/ load[n].value = Null THEN known[n]
                 ELSE IF load[n].deleted THEN Absent ELSE load[n].value]

\* (A slip of ProcessLoad: the report of an unknown host is taken for a complete one.)
ProcessAnyLoad(m) ==
  UpdateLoadValues(m.load) /\ Answer([tag |-> "ACK_LOAD_REPORT", seqno |-> m.seqno])

\* The load part of a report.  What the report of an unknown host leaves out is
\* not there any more, so the qmaster asks for all of it.
ProcessLoad(m) ==
  IF ~heard /\ ~m.full
  THEN Answer([tag |-> "TAG_FULL_LOAD_REPORT"]) /\ UNCHANGED <<known, heard>>
  ELSE UpdateLoadValues(m.load) /\ Answer([tag |-> "ACK_LOAD_REPORT", seqno |-> m.seqno])

Accept(m) ==
  /\ lastSeqno' = m.seqno
  /\ \/ m.tag = "load" /\ ProcessLoad(m)
     \/ m.tag = "jobs" /\ UNCHANGED <<known, heard, toExecd>>

ReceiveReport ==
  /\ toQmaster # <<>> /\ Head(toQmaster).tag # "register"
  /\ toQmaster' = Tail(toQmaster)
  /\ IF IsOld(Head(toQmaster).seqno) THEN UNCHANGED <<hostVars, toExecd>> ELSE Accept(Head(toQmaster))
  /\ UNCHANGED <<measured, execdVars, link, changes, loadFaults>>

\* The host is registered (again): the numbers start over.  The execd gets the
\* answer unless it has given this attempt up, and sends everything at once.
ExecdStartup ==
  /\ toQmaster # <<>> /\ Head(toQmaster).tag = "register"
  /\ toQmaster' = Tail(toQmaster)
  /\ lastSeqno' = 0
  /\ IF link = "registers" /\ \A i \in DOMAIN toQmaster : toQmaster[i].tag = "register" => i = 1
     THEN link' = "up" /\ sendAll' = TRUE /\ flushLr' = TRUE
     ELSE UNCHANGED <<link, sendAll, flushLr>>
  /\ UNCHANGED <<measured, lrList, lastLr, seqno, known, heard, toExecd, changes, loadFaults>>

TrashNonstatic == known' = [n \in Name |-> IF n \in Static THEN known[n] ELSE Absent]

-----------------------------------------------------------------------------
(* The world. *)

Measure(n) ==
  /\ changes < MaxChange /\ changes' = changes + 1
  /\ \E v \in Measured : v # measured[n] /\ measured' = [measured EXCEPT ![n] = v]
  /\ UNCHANGED <<execdVars, link, hostVars, toQmaster, toExecd, loadFaults>>

LoadFault(f) ==
  /\ f \in LoadFaults /\ loadFaults < MaxLoadFault /\ loadFaults' = loadFaults + 1
  /\ UNCHANGED <<measured, changes>>

\* Of what the execd has sent some may have reached the qmaster.
Cut ==
  /\ \E k \in 0 .. Len(toQmaster) : toQmaster' = SubSeq(toQmaster, 1, k)
  /\ toExecd' = <<>>

Disconnect ==
  /\ LoadFault("disconnect") /\ link \in {"up", "registers"} /\ Cut
  /\ link' = IF link = "up" THEN "broken" ELSE "lost"
  /\ UNCHANGED <<execdVars, hostVars>>

RestartExecd ==
  /\ LoadFault("crash") /\ Cut
  /\ lrList' = NoList /\ lastLr' = NoList /\ sendAll' = TRUE /\ flushLr' = FALSE
  /\ seqno' = 0 /\ link' = "lost"
  /\ UNCHANGED hostVars

\* Values of the kind that does not change are spooled.
RestartQmaster ==
  /\ LoadFault("restart")
  /\ TrashNonstatic /\ heard' = FALSE /\ lastSeqno' = 0
  /\ toQmaster' = <<>> /\ toExecd' = <<>>
  /\ link' = IF link = "up" THEN "broken" ELSE IF link = "registers" THEN "lost" ELSE link
  /\ UNCHANGED execdVars

\* sge_load_value_cleanup_handler()
HostUnheard ==
  /\ LoadFault("unheard") /\ heard
  /\ TrashNonstatic /\ heard' = FALSE
  /\ UNCHANGED <<execdVars, link, lastSeqno, toQmaster, toExecd>>

-----------------------------------------------------------------------------
LoadNext ==
  \/ SendLoadReport \/ SendJobReport \/ ReceiveAnswer \/ NoticeLoss \/ RegisterHost
  \/ ReceiveReport \/ ExecdStartup
  \/ \E n \in Name : Measure(n)
  \/ Disconnect \/ RestartExecd \/ RestartQmaster \/ HostUnheard

LoadFairness ==
  /\ SF_loadVars(SendLoadReport)
  /\ WF_loadVars(ReceiveAnswer) /\ WF_loadVars(NoticeLoss) /\ WF_loadVars(RegisterHost)
  /\ WF_loadVars(ReceiveReport) /\ WF_loadVars(ExecdStartup)

LoadSpec == LoadInit /\ [][LoadNext]_loadVars /\ LoadFairness

-----------------------------------------------------------------------------
(* Properties. *)

\* When nothing changes any more the qmaster learns what there is, although
\* each report has only what the execd takes to be unknown, and either side
\* may have forgotten it; but for a complete report that is about to be sent.
LoadIsLearned == <>[](flushLr \/ (heard /\ known = measured))

\* "The load value is no longer reported, tag is as deleted and add it to the
\* report list": the execd forgets a value once the qmaster has deleted it.
GoneIsDeleted ==
  [][\A n \in Name :
       lrList # NoList /\ lrList' # NoList /\ InList(n) /\ lrList'[n] = Absent => known[n] = Absent]_loadVars
=============================================================================
