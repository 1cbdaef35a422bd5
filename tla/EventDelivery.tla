---------------------------- MODULE EventDelivery ----------------------------
(***************************************************************************)
(* The event master of the qmaster (libs/evm/sge_event_master.c and the    *)
(* deliverer thread of sge_thread_event_master.c) and its clients: those   *)
(* outside the qmaster, which fetch reports and acknowledge them           *)
(* (libs/evc/sge_event_client.c), and the scheduler thread, which is       *)
(* handed its events in memory (sge_thread_scheduler.c).                   *)
(*                                                                         *)
(* The master data are one list; an event carries either the whole list or *)
(* one change of it, here the version of the data it leads to.  A client   *)
(* applies what it is sent to its copy (libs/mir/sge_mirror.c).            *)
(*                                                                         *)
(* One step is one critical section of Event_Master_Control.mutex, or of   *)
(* its request_mutex.  Time is left out: an interval that is not over, or  *)
(* a timeout that is, is a choice.                                         *)
(***************************************************************************)
EXTENDS Integers, FiniteSets, FiniteSetsExt, Sequences, SequencesExt

CONSTANTS Client,      \* the event clients outside the qmaster
          Scheduler,   \* the event client of the scheduler thread
          DynamicId,   \* the ids given to clients, EV_ID_FIRST_DYNAMIC and up
          SchedId,     \* EV_ID_SCHEDD
          NoClient,
          Nothing,     \* the copy of a client that has no data yet,
          Early,       \* of one that got a change before it got the list,
          Broken,      \* and of one that got a change that does not fit it
          MaxVersion, MaxRequest, MaxAck   \* bounds: changes, Len(requests), acks on the way

ASSUME ClientAssumption == Scheduler \notin Client
ASSUME IdAssumption     == DynamicId \subseteq Nat \ {0} /\ SchedId \in (Nat \ {0}) \ DynamicId
ASSUME CopyAssumption   == {Nothing, Early, Broken} \cap Nat = {}

Members == Client \cup {Scheduler}

\* ET_Type and EV_Type, the fields that matter here.
Event == [number : Nat, kind : {"list", "change", "timeout"}, version : Nat]
EventClient ==
  [owner : Members, subscribed : BOOLEAN, blocked : BOOLEAN, next_number : Nat,
   events : Seq(Event), busy : BOOLEAN, terminated : BOOLEAN]

ASSUME NoClientAssumption == NoClient \notin EventClient

VARIABLES version,    \* of the master data
          writing,    \* a worker holds LOCK_GLOBAL and has not queued its event yet
          requests,   \* Event_Master_Control.requests, and those taken from it
          batch,      \* how many have been taken
          deliverer,  \* where the deliverer thread is
          clients,    \* Event_Master_Control.clients by id
          ec,         \* the clients' own state
          reports, acks,   \* messages on the way
          scheduling  \* where the scheduler thread is

dataVars == <<version, writing>>
masterVars == <<requests, batch, deliverer, clients>>
wire == <<reports, acks>>
eventVars == <<dataVars, masterVars, ec, wire, scheduling>>

Ids == DynamicId \cup {SchedId}
Registered == {i \in Ids : clients[i] # NoClient}
Room == Len(requests) + (IF writing THEN 1 ELSE 0) < MaxRequest

\* A new EV_Type element.
NewClient(m, wants) ==
  [owner |-> m, subscribed |-> wants, blocked |-> wants, next_number |-> 1, events |-> <<>>,
   busy |-> FALSE, terminated |-> FALSE]

Request(op, i, n) == [op |-> op, id |-> i, number |-> n]

EventInit ==
  /\ version = 0 /\ writing = FALSE
  /\ requests = <<>> /\ batch = 0 /\ deliverer = "wait"
  /\ clients = [i \in Ids |-> NoClient]
  /\ ec = [m \in Members |-> [id |-> 0, next_event |-> 1, received |-> <<>>, view |-> Nothing]]
  /\ reports = [m \in Members |-> <<>>] /\ acks = {}
  /\ scheduling \in {"off", "start"}

-----------------------------------------------------------------------------
\* A thread that holds LOCK_GLOBAL for writing changes the master data ...
ChangeData ==
  /\ ~writing /\ version < MaxVersion /\ Room
  /\ version' = version + 1 /\ writing' = TRUE
  /\ UNCHANGED <<masterVars, ec, wire, scheduling>>

\* ... and sge_add_event() or sge_commit() puts the event into the requests.
AddEvent ==
  /\ writing
  /\ requests' = Append(requests, Request("event", 0, version))
  /\ writing' = FALSE
  /\ UNCHANGED <<version, batch, deliverer, clients, ec, wire, scheduling>>

\* sge_add_event_client() and total_update(): the events of the list are
\* blocked until the list, which is queued, comes.
AddEventClient(m, i) ==
  /\ clients' = [clients EXCEPT ![i] = NewClient(m, TRUE)]
  /\ requests' = Append(requests, Request("list", i, version))
  /\ ec' = [ec EXCEPT ![m].id = i, ![m].next_event = 1]

\* ec2_register() of a client outside: a worker does it with LOCK_GLOBAL.
\* Its address is a new one, the free id the smallest.
Register(c) ==
  /\ ec[c].id = 0 /\ ec[c].received = <<>>
  /\ ~writing /\ Room
  /\ DynamicId \ Registered # {}
  /\ AddEventClient(c, Min(DynamicId \ Registered))
  /\ UNCHANGED <<dataVars, batch, deliverer, wire, scheduling>>

\* The scheduler thread registers first and subscribes the data then, to be
\* committed with the next ec_commit().
StartScheduler ==
  /\ scheduling = "start"
  /\ clients' = [clients EXCEPT ![SchedId] = NewClient(Scheduler, FALSE)]
  /\ ec' = [ec EXCEPT ![Scheduler].id = SchedId]
  /\ scheduling' = "wait"
  /\ UNCHANGED <<dataVars, requests, batch, deliverer, wire>>

\* ec2_register_local() of a scheduler that was removed: it calls sge_add_event_client()
\* itself, without LOCK_GLOBAL.
RegisterScheduler ==
  /\ scheduling = "register" /\ Room
  /\ AddEventClient(Scheduler, SchedId)
  /\ scheduling' = "run"
  /\ UNCHANGED <<dataVars, batch, deliverer, wire>>

-----------------------------------------------------------------------------
\* add_list_event_direct() for client i.
Added(i, kind, v) ==
  LET ev == clients[i]
  IN IF ev.terminated THEN ev
     ELSE [ev EXCEPT !.events = Append(@, [number |-> ev.next_number, kind |-> kind, version |-> v]),
                     !.next_number = @ + 1,
                     !.blocked = @ /\ kind # "list"]

\* sge_event_master_process_send() of an event for all.
SendToAll(v) ==
  clients' = [i \in Ids |-> IF i \in Registered /\ clients[i].subscribed /\ ~clients[i].blocked
                              THEN Added(i, "change", v) ELSE clients[i]]

\* The same of an event for one client, if there is one with its id.
SendToOne(i, v) ==
  clients' = IF i \in Registered THEN [clients EXCEPT ![i] = Added(i, "list", v)] ELSE clients

\* purge_event_list() and the first loop of ck_event_number(): the events at
\* the head of the list are removed up to number n.
Behind(list, n) ==
  LET k == CHOOSE j \in 0 .. Len(list) :
             /\ \A i \in 1 .. j : list[i].number <= n
             /\ j < Len(list) => list[j + 1].number > n
  IN SubSeq(list, k + 1, Len(list))

\* sge_event_master_process_ack() and purge_event_list().  An acknowledgement
\* releases a client outside, not the scheduler.
ProcessAck(i, n) ==
  clients' = IF i \in Registered
               THEN [clients EXCEPT ![i].events = Behind(@, n),
                                    ![i].busy = @ /\ i = SchedId]
               ELSE clients

\* (A slip of ProcessMod: the client stays busy.)
ProcessModBusy(i) ==
  /\ ~writing
  /\ IF i \notin Registered THEN UNCHANGED clients
     ELSE clients' = [clients EXCEPT ![i].subscribed = TRUE]

\* sge_event_master_process_mod_event_client(), with LOCK_GLOBAL: the client
\* is not busy.  A list that is subscribed now is queued, but unlike at the
\* registration its events are not blocked.
ProcessMod(i) ==
  /\ ~writing
  /\ IF i \notin Registered THEN UNCHANGED clients
     ELSE clients' = [clients EXCEPT ![i].busy = FALSE, ![i].subscribed = TRUE]

\* sge_event_master_process_requests(): what is there is taken at once ...
TakeRequests ==
  /\ deliverer = "wait"
  /\ deliverer' = "process" /\ batch' = Len(requests)
  /\ UNCHANGED <<dataVars, requests, clients, ec, wire, scheduling>>

\* ... and done one by one.
ProcessRequest ==
  /\ deliverer = "process" /\ batch > 0
  /\ LET r == Head(requests)
         newList == r.op = "mod" /\ r.id \in Registered /\ ~clients[r.id].subscribed
     IN /\ \/ r.op = "event" /\ SendToAll(r.number)
           \/ r.op = "list" /\ SendToOne(r.id, r.number)
           \/ r.op = "ack" /\ ProcessAck(r.id, r.number)
           \/ r.op = "mod" /\ ProcessMod(r.id)
        /\ requests' = Tail(requests) \o
                         (IF newList THEN <<Request("list", r.id, version)>> ELSE <<>>)
  /\ batch' = batch - 1
  /\ UNCHANGED <<dataVars, deliverer, ec, wire, scheduling>>

\* (A slip of Reachable: a report of the connection before arrives.)
ReachableLate(i) == i = SchedId \/ reports[clients[i].owner] = <<>>

\* The connection to the client that has registered as i is open, and no
\* report is on its way (the bound of the reports).
Reachable(i) ==
  LET m == clients[i].owner
  IN i = SchedId \/ (ec[m].id = i /\ reports[m] = <<>>)

\* What is sent to client i: all it has not acknowledged, and at last the
\* news that it is removed.
Report(i, late) ==
  clients[i].events \o
    (IF i \in late THEN <<[number |-> clients[i].next_number, kind |-> "timeout", version |-> 0]>>
                   ELSE <<>>)

\* sge_event_master_send_events(): the clients due are sent their events if
\* they are not busy, those late with an acknowledgement in any case, and
\* then they are removed.  Events are kept until they are acknowledged, but
\* the scheduler takes them.
SendEvents(due, late) ==
  LET gone == late \cup {i \in Registered : clients[i].terminated}
      sent == {i \in late \cup {j \in due : ~clients[j].busy} : Reachable(i)}
      After(i) == IF i \in gone THEN NoClient
                  ELSE [clients[i] EXCEPT !.busy = @ \/ i \in sent,
                                          !.events = IF i \in sent /\ i = SchedId THEN <<>> ELSE @]
  IN /\ clients' = [i \in Ids |-> IF i \in Registered THEN After(i) ELSE NoClient]
     /\ reports' = [m \in Members |->
                      IF \E i \in sent : clients[i].owner = m /\ Reachable(i)
                        THEN LET i == CHOOSE j \in sent : clients[j].owner = m
                             IN <<FlattenSeq(reports[m]) \o Report(i, late)>>
                        ELSE reports[m]]

Served == {i \in Registered : ~clients[i].terminated}

Deliver ==
  /\ deliverer = "process" /\ batch = 0
  /\ \E due \in SUBSET Served : \E late \in SUBSET Served : SendEvents(due, late)
  /\ deliverer' = "wait"
  /\ UNCHANGED <<dataVars, requests, batch, ec, acks, scheduling>>

-----------------------------------------------------------------------------
\* ck_event_number(): what is known already is skipped.
Fresh(report, next) == Behind(report, next - 1)

\* (A slip of NumbersAreRight: the first number is not tested.)
NumbersAreRightSince(report, next) ==
  \A k \in DOMAIN Fresh(report, next) :
    Fresh(report, next)[k].number = Fresh(report, next)[1].number + k - 1

NumbersAreRight(report, next) ==
  report # <<>> =>
    /\ report[1].number <= next
    /\ \A k \in DOMAIN Fresh(report, next) : Fresh(report, next)[k].number = next + k - 1

\* ec2_get(): a report is checked, taken and acknowledged.  With a wrong
\* number, the client registers anew (and still acknowledges what it had).
GetEvents(c) ==
  /\ ec[c].id # 0 /\ ec[c].received = <<>> /\ reports[c] # <<>>
  /\ Cardinality(acks) < MaxAck
  /\ LET next == ec[c].next_event
         fresh == Fresh(reports[c][1], next)
         right == NumbersAreRight(reports[c][1], next)
         taken == IF right THEN fresh ELSE <<>>
         gotTimeout == \E k \in DOMAIN taken : taken[k].kind = "timeout"
     IN /\ ec' = [ec EXCEPT ![c].id = IF right /\ ~gotTimeout THEN @ ELSE 0,
                            ![c].next_event = @ + Len(taken),
                            ![c].received = taken]
        /\ acks' = acks \cup {[id |-> ec[c].id, number |-> next + Len(taken) - 1]}
  /\ reports' = [reports EXCEPT ![c] = <<>>]
  /\ UNCHANGED <<dataVars, masterVars, scheduling>>

\* sge_mirror_update_master_list(): a list replaces the copy, a change must
\* fit it.
Applied(view, e) ==
  IF e.kind = "list" THEN e.version
  ELSE IF e.kind # "change" THEN view
  ELSE IF view \in {Nothing, Early} THEN Early
  ELSE IF view = e.version - 1 THEN e.version ELSE Broken

MirrorEvent(m) ==
  /\ ec[m].received # <<>>
  /\ ec' = [ec EXCEPT ![m].received = Tail(@), ![m].view = Applied(@, Head(ec[m].received))]
  /\ UNCHANGED <<dataVars, masterVars, wire, scheduling>>

\* A change of the client's settings is committed: it says it is not busy.
Commit(c) ==
  /\ ec[c].id # 0 /\ ec[c].received = <<>> /\ Room
  /\ requests' = Append(requests, Request("mod", ec[c].id, 0))
  /\ UNCHANGED <<dataVars, batch, deliverer, clients, ec, wire, scheduling>>

\* ec2_get() finds no message for a long time, or the connection broken.
TimeOut(c) ==
  /\ ec[c].id # 0 /\ ec[c].received = <<>> /\ reports[c] = <<>>
  /\ ec' = [ec EXCEPT ![c].id = 0]
  /\ \E lost \in SUBSET acks : acks' = acks \ lost
  /\ UNCHANGED <<dataVars, masterVars, reports, scheduling>>

\* ec2_deregister(), and sge_remove_event_client() by the qmaster; another
\* client may start in its place.
Deregister(c) ==
  /\ ec[c].id # 0 /\ ec[c].received = <<>>
  /\ clients' = IF ec[c].id \in Registered THEN [clients EXCEPT ![ec[c].id].terminated = TRUE] ELSE clients
  /\ ec' = [ec EXCEPT ![c].id = 0, ![c].view = Nothing]
  /\ reports' = [reports EXCEPT ![c] = <<>>]
  /\ UNCHANGED <<dataVars, requests, batch, deliverer, acks, scheduling>>

\* sge_handle_event_ack(): whose acknowledgement it is, is not looked at.
HandleEventAck ==
  /\ Room
  /\ \E a \in acks :
       /\ requests' = Append(requests, Request("ack", a.id, a.number))
       /\ acks' = acks \ {a}
  /\ UNCHANGED <<dataVars, batch, deliverer, clients, ec, reports, scheduling>>

-----------------------------------------------------------------------------
\* sge_scheduler_wait_for_event(): it takes what it has been handed, unless
\* it waits in vain.  It acknowledges no number, only that it is alive.
TakeEvents ==
  /\ scheduling = "wait" /\ Room
  /\ LET events == FlattenSeq(reports[Scheduler])
         removed == \E k \in DOMAIN events : events[k].kind = "timeout"
     IN IF ec[Scheduler].id = 0 \/ removed
          THEN /\ ec' = [ec EXCEPT ![Scheduler].id = 0]
               /\ scheduling' = "register"
               /\ UNCHANGED requests
          ELSE /\ ec' = [ec EXCEPT ![Scheduler].received = events]
               /\ requests' = IF reports[Scheduler] = <<>> THEN requests
                              ELSE Append(requests, Request("ack", SchedId, 0))
               /\ scheduling' = "run"
  /\ reports' = [reports EXCEPT ![Scheduler] = <<>>]
  /\ UNCHANGED <<dataVars, batch, deliverer, clients, acks>>

\* The run is over: ec_set_busy(0) and ec_commit().
Release ==
  /\ scheduling = "run" /\ ec[Scheduler].received = <<>> /\ Room
  /\ requests' = Append(requests, Request("mod", SchedId, 0))
  /\ scheduling' = "wait"
  /\ UNCHANGED <<dataVars, batch, deliverer, clients, ec, wire>>

-----------------------------------------------------------------------------
EventNext ==
  \/ ChangeData \/ AddEvent
  \/ TakeRequests \/ ProcessRequest \/ Deliver
  \/ \E c \in Client : Register(c) \/ GetEvents(c) \/ Commit(c) \/ TimeOut(c) \/ Deregister(c)
  \/ HandleEventAck
  \/ StartScheduler \/ TakeEvents \/ RegisterScheduler \/ Release
  \/ \E m \in Members : MirrorEvent(m)

EventSpec == EventInit /\ [][EventNext]_eventVars

\* The threads of the qmaster run on.  When the scheduler is due is a matter of
\* its EV_next_send_time, which comes again and again.
Deliverer == TakeRequests \/ ProcessRequest \/ Deliver
ScheddIsServed ==
  /\ Deliver
  /\ SchedId \in Registered /\ ~clients[SchedId].busy /\ clients'[SchedId] # NoClient
  /\ clients'[SchedId].busy
SchedulerThread ==
  StartScheduler \/ TakeEvents \/ RegisterScheduler \/ MirrorEvent(Scheduler) \/ Release

EventFairness ==
  /\ WF_eventVars(AddEvent)
  /\ WF_eventVars(Deliverer) /\ SF_eventVars(ScheddIsServed)
  /\ WF_eventVars(SchedulerThread)

EventFairSpec == EventSpec /\ EventFairness

-----------------------------------------------------------------------------
\* The changes that a client outside applies to its copy fit it: however the
\* list and the changes are queued, delivered again, acknowledged late, by
\* another client with the same id, or lost, none is missing and none comes
\* twice.
MirrorIsConsistent == \A c \in Client : ec[c].view \in {Nothing} \cup 0..version

Copies == INSTANCE EventMirror WITH Mirror <- Client, view <- [c \in Client |-> ec[c].view]

\* The copies of the clients outside only move on to later states of the
\* data, also when a client is removed, registers again, and gets events it
\* has had before.
CopiesMoveOn == Copies!MirrorSpec

\* The scheduler gets to know every change in the end, unless it is removed
\* for ever and ever for being slow.
SchedulerCatchesUp ==
  <>[][clients[SchedId] # NoClient => clients'[SchedId] # NoClient]_eventVars
    => <>(scheduling = "off" \/ [](ec[Scheduler].view \in {version, Broken}))
=============================================================================
