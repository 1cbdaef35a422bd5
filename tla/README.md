# Formal models of Grid Engine

TLA+ specifications of the parts of Grid Engine (`src/source`) whose correctness depends on the order in
which several threads, daemons, timers and messages act, and of the bookkeeping the scheduler decides by, with TLC
configurations that check them on small instances and proofs checked by TLAPS. `PROJECT.json` lists the runs, the mutants,
the hazards, the theorems and the source lines of every definition.

Tools: `tlasany M.tla` parses, `tlc -config X.cfg M` checks, `tlapm M.tla` proves.

## 1. The system

A *qmaster* process holds all lists (jobs, queues, hosts) and decides; an *execd* on every execution host
starts jobs under a *shepherd* and reports about them; the *scheduler* is a thread of the qmaster that gets its data
as events and answers with orders; *shadowd* starts a new qmaster if the old one stops.

| Component | Source (`src/source/...`) | State | Operations | What is hard, what makes it correct |
|---|---|---|---|---|
| Fair reader/writer lock | `libs/uti/sge_lock_fifo.c` | ring of waiters, five counters | lock, unlock | wakeups chained from thread to thread; a full queue; exclusion, order, nobody forgotten |
| Task queue and threads | `libs/uti/sge_tq.c`, `qmaster/sge_thread_{main,listener,worker,scheduler}.c` | tasks, waiting threads | store, wait, wakeup, cancel, join | a task stored while a worker goes to sleep; an ordered shutdown |
| Timed events | `qmaster/sge_qmaster_timed_event.c`, `sge_thread_timer.c` | sorted list, `next`, `deleted` | add, delete, wait, deliver | sleeping past a new event; an event freed under the thread |
| Signals (qmaster) | `qmaster/sge_qmod_qmaster.c`, `sge_qmaster_process_message.c` | pending signal, resend timer | signal, resend, acknowledge | a timer that fires while the answer cancels it |
| Job delivery | `qmaster/sge_give_jobs.c`, `sge_follow.c` | `JAT_status`, timer | start order, resend timer, commits | a timer races the report it waits for; the order may be lost or doubled |
| Job reports, job exit | `qmaster/sge_c_report.c`, `job_report_qmaster.c`, `job_exit.c` | task, acknowledgements | one report = many entries | reports about earlier runs; repeated exits |
| Rescheduling | `qmaster/reschedule.c` | `EH_reschedule_unknown_list` per host | reschedule, skip, age, purge | two instances of one job; which report is about which |
| Deletion | `qmaster/sge_job_qmaster.c` | `JDELETED` | qdel, forced qdel | lost signal; host unknown |
| Load reports | execd `load_avg.c`, `sge_report_execd.c`, `dispatcher.c`; qmaster `sge_c_report.c`, `sge_host_qmaster.c` | `lr_list`, `last_lr`; load values, last number | measure, send what changed, merge, register, forget | what one side takes the other to know; numbers that wrap |
| execd: jobs | `daemons/execd/execd_job_exec.c`, `execd_ck_to_do.c` | job list, spool files | accept, start, save | crash between two writes; the same order twice |
| execd: job reports | `execd/job_report_execd.c` | `jr_list` | report, acknowledge | one list entry per job; what a report leaves out |
| execd: reaping, recovery | `execd/reaper_execd.c`, `setup_execd.c` | shepherds, spool directory | reap, remove, recover | what a restarted daemon makes of its directory |
| Event master and clients | `libs/evm`, `libs/evc`, `libs/mir` | clients, numbered events | subscribe, add, send, ack | resent, lost and repeated events, timeouts, consistent copies |
| Failover | `daemons/shadowd`, `daemons/common/lock.c`, `qmaster_heartbeat.c` | heartbeat, lock and act_qmaster files | beat, check, take over | two masters |
| Resource bookkeeping | `libs/sched/sge_resource_utilization.c`, `sge_qeti.c`, `sge_select_queue.c` | time diagrams | book, free, ask, iterate, close | boundaries of intervals; the truth of the answers |
| Scheduler policies, rest of advance reservation, calendars | `libs/sched`, `qmaster/sge_advance_reservation_qmaster.c`, `sge_calendar_qmaster.c` | own copies | orders | stale copies |
| Communication, data, storage | `libs/comm`, `libs/cull`, `libs/gdi`, `libs/spool` | connections, lists, files | send, receive, change, write | used by all others; ordered channels, an error or a message, never half of one |
| Shepherd | `daemons/shepherd` | a job's processes, its files | start, signal, wait | lives on when the execd dies |
| Clients, JAPI, security, utilbin, qmon, 3rdparty, `doc`, `gep`, `www` | `clients`, `libs/japi`, `security`, ... | none shared | requests | seen by the rest as requests only |

Interaction: a listener of the qmaster receives packets and puts them into the task queue; a worker takes one and
handles it under `LOCK_GLOBAL`, which is the fair lock; so do the handlers of timed events. The qmaster
sends an execd start orders (`TAG_JOB_EXECUTION`), signals (`TAG_SIGJOB`) and acknowledgements
(`TAG_ACK_REQUEST`); the execd sends reports (`TAG_REPORT_REQUEST`) and `ACK_SIGJOB`. Connections keep the order of
messages. The job id is all that names a job in these messages, not the run of it: this is what makes
rescheduling hard. Changes of the lists go to the event clients, of which the scheduler is one; its orders come back through
the task queue.

## 2. Modules

| Module | Content |
|---|---|
| `FairRwLock` | what the lock promises: waiters are served first come, first served; readers share |
| `FifoLock` | `sge_fifo_lock`/`sge_fifo_ulock`, with the refinement to `FairRwLock` |
| `TaskQueue` | the task queue, its users and the shutdown |
| `TimedEvent` | timed events and the timer thread |
| `SignalResend` | signals of the qmaster and their resend timers from its start on, on top of `TimedEvent` |
| `LoadReport` | the load values of one host, on both sides |
| `JobMessages` | the two channels between the qmaster and each execd |
| `QmasterJob` | the qmaster's handlers for one serial, rerunnable job |
| `ExecdJob` | the execd's handlers for it, crash and restart |
| `JobProtocol` | both together, fairness, the properties, with the refinement to `Quarantine` |
| `Quarantine` | what the reschedule unknown lists promise of a host that a job was taken from, whatever gets lost, late or repeated |
| `EventMirror` | what event clients are promised: a copy that only moves on to later states of the data |
| `EventDelivery` | event master, a client outside, the scheduler, with the refinement to `EventMirror` |
| `Failover` | qmasters and shadow daemons around their three files |
| `ResourceProfile` | what the diagrams promise: at each time the sum of the bookings that cover it |
| `ResourceDiagram` | the diagrams, questions, iterator and calendars of a scheduling run, with the refinement to `ResourceProfile` |
| `FifoLockProofs`, `TaskQueueProofs`, `TimerProofs`, `ResourceProofs`, `JobProtocolProofs`, `QuarantineProofs`, `EventProofs`, `FailoverProofs` | the theorems (section 5) |
| `MCFifoLock`, `MCJobProtocol`, `MCEvents`, `MCResources` | model values, bookings and bounds for TLC |
| `MCJobs` | `JobProtocol` in two environments |
| `MCQmaster`, `MCServices`, `MCLive` | sums of components that do not interact: `subject` says which one a behaviour is of, the variables of the others stand still |

### The fair lock

A step is a critical section of `lock->mutex`. `Lock` is the call up to its first wait or its end, `Wake`
what a signaled thread does between leaving the wait on its own condition and the end of the function, `Resume` one
turn of the loop of a thread outside the full queue, `Unlock` all of `sge_fifo_ulock`. A wait may return without a
signal: for a queued thread this changes nothing, for one outside it is `SpuriousWakeup`. The counters
`reader_waiting` and `writer_waiting` drop and rise again within one step and are modelled at its end.
`Call` is an invocation and `Owner` its thread, so that a thread can nest read locks.

### Task queue

A step is a critical section of the queue's mutex or what a thread does between two of them. Workers, listeners and the
scheduler run their loops with the test for cancellation; the main thread terminates the scheduler (cancelled, not joined),
then cancels and joins listeners, then workers, and spools. The store of a task and the shutdown both call
`sge_tq_wakeup_waiting()`, which broadcasts: all waiters are woken and race for the task. A wait may return without a wakeup.

### Timed events and signals

A step is a critical section of `Event_Control.mutex`, up to a wait on its condition; the clock ticks between steps and may be
set back. An element is free, being added, listed, taken by the thread, or being added again (periodic ones). `SignalResend`
takes the one-time events for resend events. A handler is one step, since it holds `LOCK_GLOBAL`, but the insertion at
the end of `te_add_event` is a step of its own: between the two the timer thread may run. A behaviour of `SignalResend` begins
with a start of the qmaster: `RebuildSignalEvents` gives each signal that was spooled as pending its timer, due when the
old one was, before there is a timer thread. Later crashes of the qmaster are other behaviours.

### Load reports

`lr_list`, `last_lr`, `send_all` and `flush_lr` of the execd, the host's values and last number at the qmaster, and the
connection: up, broken unnoticed, lost, registering. Faults: a disconnection, a crash of the execd, a restart of the qmaster, a
host that is unheard for too long. The reports of a host are handled in the order of their arrival; two workers that swap
two of them make the qmaster drop the older one by its number.

### The job protocol

A qmaster action is a critical section of `LOCK_GLOBAL`, with the whole handler in it: `ReceiveReport` is
`sge_c_report` from the ageing of the reschedule unknown list over the loop of `process_job_report` to the purge
and the message with all acknowledgements. The commits (`Finish`, `Reschedule`, `JobExit`) are functions on a snapshot of
the task, since one report may commit twice. The delivery timer has two steps, `ResendPops` (the timer thread takes it from
the list) and `ResendHandler` (the handler has the lock): between them a cancellation is too late.
An execd action is what `sge_execd_process_messages` does with one message; `phase` splits a turn where a
crash makes a difference (order accepted and spooled, job started, spool file written again).
`run` in messages and entries is history: no guard of the two daemons reads it (an execd tells by the job
alone whether it has it), only properties do. `starts` is history, too.

Abstractions. Queue and host are one (a host has one queue). Of the job states on the execd the
qmaster distinguishes running and exiting. `JR_failed` is an outcome: the job is done or runs again. The
scheduler chooses any host the lists allow; the user deletes and reschedules at any time; a job ends at any time or
never. Every host may be taken for unknown at any time, as a slow host is.

`Quarantine` is the abstract specification of rescheduling. Its state is which host has the job, whether the job has ended, how many
reports of each host have to be read at least before the host may get the job (`Waits` of the list: none if the list is empty,
2 if an entry is at `RESCHEDULE_SKIP_JR`, otherwise 1), and which of the messages that are not read name the job (`Mail`). It is stated for every environment, with lost, late and partial reports: this is how far the
lists really keep the instances of a job apart. What the comments promise beyond it is refuted
by `job_back`, and by what section 3 says of `reschedule.c:829`.

Bounds. `MaxRun` attempts to run the job, `MaxMsg` messages a side sends of its own accord while others are in
transit (answers need no room), `MaxFault` faults. Environment switches:

| Constant | Meaning |
|---|---|
| `Prompt` | messages are handled within a report interval: an execd reports again only when it has read what the qmaster sent and its last report has been handled. The code has no check for it. The calm environment of `jobs` and all other job runs assume it (those that refute comments need no slow message); the rough one and all proofs do not |
| `PartialReports` | reports may leave the job out: load reports alone, or only entries marked to be flushed (`load_avg.c:377`) |
| `Refusals` | an execd may refuse an order or fail to start the job, with or without a report |
| `Faults` | `"crash"`: the execd dies, its jobs live on; `"disconnect"`: unread messages to it are lost. In both cases what it had sent may be lost |
| `ForcedQdel` | `enable_forced_qdel_if_unknown` |

### Events

The master data are one version number; an event is the whole list or the change to a version. A step is a section of
the event master's mutex or of `request_mutex`. The deliverer batches requests, numbers events, sends, and removes clients that
do not acknowledge; `Behind` is the loop that both ends use to drop the events at the head of a list up to a number; a client outside fetches, applies, acknowledges, and registers again when it has lost its place; the
scheduler is handed its events in memory and acknowledges them by clearing its busy state. Time is left out: a timeout is a choice.

### Failover

A step reads or writes one file, or asks one qmaster whether it runs. The heartbeat is kept modulo `CheckEvery` (20 in the code);
whether two readings agree is a variable. A qmaster that starts brings its commlib up, asks the one on the host in the act_qmaster file whether
it is alive, and exits if it is (`Enroll`, one step); the lock file that a shadow daemon has made for it stays. Writing
the heartbeat may fail, with the file written or not, and then the act_qmaster file is looked at (`Beat`); it is assumed
not to fail for a whole interval of a shadow daemon, and the one heartbeat at the start, whose result nobody looks at, not to fail. A mishap kills a qmaster or makes its host hang and, later, go on.

### Resource diagrams

A behaviour is one scheduling run: the reservations that the qmaster entered (and takes back), then the running jobs, where a job
that has overrun its time is prolonged by one interval, then the calendar, then what the scheduler decides and asks. A diagram is
a sequence of times with amounts; the iterator's references are positions in it. The resources are in the schedule based mode,
not exclusive, and amounts are integers; bookings last at least one second (a booking of no length into a diagram that exists makes
two elements with one time).

## 3. Runs

Passing:

| Run | Instance | Distinct states | Shows |
|---|---|---|---|
| `qmaster` | lock: 4 threads, 2 slots. Tasks: 1 listener, 2 workers, the scheduler, 2 messages, 1 order. Timers: 1 one-time and 1 periodic event, a clock to 3, one setback. Signals: 2 resend events. Loads: 2 values, numbers modulo 4, 1 fault | 222,374 | lock: exclusion, order of service (refinement of `FairRwLock`), no lost wakeup, waiters are served. Tasks: none unnoticed, none handled twice, messages stop first, tasks are handled, the shutdown ends. Timers: no event is freed under the thread or slept over, each is delivered. Signals: one timer from the start of the qmaster on, as long as there is no answer. Loads: the qmaster learns them |
| `services` | events: 1 client or the scheduler, 2 versions. Failover: 3 hosts, 1 mishap | 816,404 | copies are consistent and move on (refinement of `EventMirror`), the scheduler catches up; never two qmasters, another takes over |
| `jobs` | calm: 2 hosts, 3 runs and 3 messages on one of them, or 2 runs and 1 message on both (`OneHostOrShort`); no faults and refusals, full prompt reports. Rough: 1 host, 2 runs, 1 message, 1 broken connection, refusals, partial and late reports | 820,818 | in both: no run is started twice, orders keep their timer, deletion is final, and a host that lost the job is kept away as long as `Quarantine` says (`RescheduledIsKeptAway`, the refinement; for more hosts it is proved). In the calm one: reports about one run do not end another, one report entry each |
| `job_live` | job: 1 host, 2 runs, 1 message, 1 fault (a crash or a broken connection), fair. Diagrams: 10 bookings of two resources, times 1 to 8 | 46,152 | orders, deletions and lists are settled, stray instances are killed, jobs are on disk. Diagrams: they are the sum of the bookings (refinement of `ResourceProfile`), answers about them are true, the iterator passes over no time |

Why the bounds are enough. Two slots are fewer than the waiting threads, so that threads wait outside and the ring wraps. Two workers
and two messages let a wakeup meet a worker on its way to sleep and one on its way out, and an order competes with them. Three runs are one more than
an entry of a reschedule unknown list can confuse; three messages let a kill, a report and an order be on their way together. A clock to 3 and delays of 1 and 2 let an
event be added before and after the one awaited. All signals are alike to a timer, so one is enough. Numbers modulo 4 wrap within the reports of a run; the program's numbers are the matter of theorems. Two versions
are a list and a change behind it, the pair that a new registration may mix up. Three hosts are two shadow daemons that race for
the lock file. The bookings overlap, touch, end together, lie within each other and last for ever.

Deadlock is not checked: in all components nothing has to happen once the bounds are used up or the shutdown is over, and
the subject of `fifo_lock_nested` is a deadlock.

Runs that end in a violation: the code does something else than its comments say.

| Run | Property | What happens |
|---|---|---|
| `fifo_lock_nested` | `NestedReadsAreServed` | "A thread my hold multiple concurrent read locks" (`sge_lock_fifo.c:144`): its second request queues behind a writer that waits for its first |
| `job_deferred` | `DeferredUntilExit` | `sge_job_schedd.c:642` tests `JDEFERRED_REQ` in the status although it is set in the state, so a job rescheduled by hand does not wait for the exit of its old instance (`job_report_qmaster.c:252`) |
| `job_back` | `NotBackWhileRunning` | "Jobs contained in this list won't be rescheduled back to that hosts until it is sure that this job/task is not running on that host anymore" (`reschedule.c:624`): two reports that leave the job out, since they carry only entries to be flushed (`load_avg.c:374-381`), age the list to empty, and the job starts again where its old instance runs |
| `job_refused` | `ExitAckMeansExited` | "This is the answer of qmaster if we report a job as exiting" (`job_report_execd.c:294`): an order is refused, its repetition accepted, and the answer to the refusal removes the running job |
| `job_crash` | `FailedJobIsNotStarted` | "So we just remove and report this job" (`reaper_execd.c:1413`): it stays in the job list, and `jobs_to_start` is 1 at start-up |
| `load_deleted` | `GoneIsDeleted` | a value that disappears before its last report is acknowledged is reported as deleted, but without a value, and `sge_host_qmaster.c:761` passes over it before it looks at the mark: the qmaster keeps what the execd has forgotten. The run has the program's numbers |
| `failover_spool` | `ReplacedDoesNotSpool` | exit state 100 means that final spooling "should not be done" (`sge_thread_main.c:101`); the code spools then and only then |
| `resource_calendar` | `CalendarReplaces` | "removes all other uti settings in the given time interval and replaces it with the given one" (`sge_resource_utilization.c:1205`): with no element at the start of the interval, the amount that goes on at its end is taken from the first element behind the end (1245, 1264), so that a booking that covers the interval is lost and one that begins later counts too early; an element at the start is set and then removed with the others (1252, 1272), so that the closed time looks free. Which of the two TLC shows depends on the order of its search |

### What was seen beyond the runs

Exploring other environments gave the limits of the properties; they explain the bounds above.

* Without `Prompt`, reports sent before the order arrives age the list as well, and `AtMostOneReport` and
  `ExitMeansEnded` of `jobs` fail; `NoDoubleStart` and `ResendIsArmed` hold (they are proved). It needs no fault, only a message slower
  than two reports: the qmaster may be the slow one, with two reports from before the order still unread when it reschedules
  the job. `NotBackWhileRunning` fails in the same way with full reports.
* "now we have to ignore all reports from host X" (`reschedule.c:829`) holds only while the list of host X has an entry of the job. After two
  reports that leave the job out or are older than the order (the cause of `job_back`), the next one about the old run, which names
  the job only, makes the new run on the other host arrive: its start order is not repeated any more.
* With `PartialReports` and two hosts, `ExitMeansEnded` fails, too: the host's report that the old instance has exited, behind two reports
  without the job, ends the new run on the other host.
* The comments of `sge_tq.c` at 346-349 ("one of those waiting threads will be triggered") and 381 ("notify one waiting thread")
  are wrong: 428 is `pthread_cond_broadcast`. Nothing depends on it but the number of threads that find nothing to do.
* With crashes, a run can be started twice (`execd_ck_to_do.c:672`, between the start and the second write of the
  spool file), and an instance can be left that nobody kills. So `NoDoubleStart` is stated without crashes, and
  the crash of an execd is left to `job_live`.
* The scheduler registers again without the global lock (`sge_event_client.c:1417`): its list may then have a change that also comes as
  an event. Its copy becomes `Broken` in the model; consistency is claimed for clients outside only.
* Two qmasters that increment the heartbeat in turn keep the parity of what each writes, so that one of them may
  never see a multiple of 20.
* A reservation that begins at a given time is never tried earlier: `sge_qeti_next_before` (`sge_qeti.c:426`) moves references
  that nobody has set, and the iterator ends at once.
* "Booked out until infinity" is answered for a finite job as well that would fit before an unlimited booking starts.

## 4. Fairness

* `FifoLock`: a runnable thread runs and a holder releases; nobody must ask, no spurious wakeup must come.
* `TaskFairness`: every thread runs on (weak). Whether messages arrive or a shutdown comes is left open.
* `TimerFairness`: the timer thread and a thread within `te_add_event` run on (weak); the clock need not tick for ever.
* `SignalFairness`: strong for the thread that resends, which needs `LOCK_GLOBAL` and gets it, since the lock is fair
  (`WaitersAreServed`).
* `LoadFairness`: strong for sending, which is due every interval but finds the connection full at times; weak for the rest.
* `EventFairness`: weak for requests, deliverer and scheduler thread; strong for the step by which the
  deliverer hands the scheduler its events, since it comes again every interval. `SchedulerCatchesUp` excludes that the
  scheduler is removed for being slow again and again for ever.
* `FailoverFairness`: qmasters that do not hang and shadow daemons run on (weak). `AnotherTakesOver` excludes a lock
  file left behind by a shadow daemon that failed half-way (`LockedForGood`), which blocks every other one.
* `JobProtocol`: weak fairness for the qmaster's receiving, the removal of finished jobs, the loop of the execd (which is
  restarted after a crash and reconnects) and the death of a killed process. Four things need strong fairness: timers and
  reports, which are due again and again but find the connection full (`MaxMsg`) now and then; the load values that come with
  every full report and end the unknown state of a host; and the execd's reading its last message, because orders are
  repeated after minutes and handled at once. Nothing forces a job to end by itself, the user, the scheduler or the load
  value clean-up to act. `HostIsUsableAgain` has the premise that reports are handled before the next ones are sent
  (`ReportsAreHandledInTime`); `StartIsSettled` and `DeletedEnds` that hosts are taken for unknown only finitely often
  (`HostsAreHeard`): the code does nothing for an unknown host.

The sums of components repeat these conditions for the component a behaviour is of.

## 5. Proofs

Each proof module states an inductive invariant, shows that it holds initially and is kept by every action (a lemma for each
action or group of actions that can disturb a part of it), and draws the theorems from it. The assumptions are the named
`ASSUME`s of the modules and nothing else.

* `FifoLockProofs` (finitely many calls, an owner each, at least one slot). The slots from `head`, as many as there are waiting
  calls, hold exactly those calls; the counters are the cardinalities of the sets of calls they count; only the head may
  be signaled; a call waits only behind somebody. Mutual exclusion is not inductive without it: the direct
  path of a writer looks at three counters, not at the queue. Theorems: `TypeCorrect`, `WriterIsAlone`, `OneWakeupForTheHead`,
  `WakeupsAreNotLost`; and `ServedInOrder`, the refinement of `FairRwLock`: the waiting calls in the order of their slots are the
  abstract queue, a call that joins the ring is the abstract request, and a step that lets a call go on serves the first.
* `TaskQueueProofs`. `TaskInv`: `idle` is the number of sleeping workers (`CountInv`), a worker has a packet exactly while it handles
  one (`HandInv`), a packet is in one place (`PlaceInv`), and when workers are told to end the listeners are gone (`JoinInv`).
  Theorems: types, `TasksAreNoticed`, `PacketsHaveOneHandler`, `MessagesStop`.
* `TimerProofs`, first part. `TimerInv` says what the thread may rely on in each wait: `next` is the time it waits for unless somebody has
  notified it, the element it waits for is listed unless `delete` says otherwise, and no listed event is earlier. Theorems: types,
  `AwaitedIsNeverFreed`, `NeverOversleeps`, `NeverEarly`.
* `TimerProofs`, second part. The rebuilt timers fit the invariants (`InitSignalInv`, `InitArmed`, `InitSignalTimerInv`). `SignalInv`: no two resend events with one key are pending; that a new one is only made when the others are
  cancelled rests on the handlers being alone under `LOCK_GLOBAL`. Theorems: `TimersDoNotPileUp`, `SignalsStayArmed`, `AcksDisarm`;
  and `TimerInv` again for the handlers' combined deletion and creation, so that the timer's theorems hold with them
  (`HandlersKeepTimerSafe`).
* `TimerProofs`, third part. About the program's numbers (10000, 9000, 9990, 10): a report up to 999 ahead is accepted across the wrap, one up to
  9000 behind is dropped unless the numbers wrapped in between, and one from before the wrap is taken for a new one.
* `JobProtocolProofs`, first part, for every number of hosts, runs, messages and faults and all switches. `MasterInv` is about the
  qmaster's variables alone, so that the proof relies on no execd and no message being right: even an arbitrary
  list of report entries cannot bring back a job that was deleted or is over. Each commit is a lemma of its own (`Fine...`).
  Theorems: `OrdersStayArmed`, `DeletionIsFinal`, `EndIsFinal`.
* `JobProtocolProofs`, second part. `ExecdInv`: types of the connections and the daemons, at most one report entry while the host has no task (`ListInv`),
  when a turn is split (`PhaseInv`), and `KnownJobIsSpooled`, which is not inductive without them. What the qmaster may send comes from `MasterInv`.
  `RuInv` is about the reschedule unknown lists: the host of a job that is sent or runs has at most one entry on its list, so that a
  rescheduling never makes three. Theorems: types of the daemons, `KnownJobSurvivesCrash`, `TypeCorrect` for all variables.
* `JobProtocolProofs`, third part: `StartedOnce`, for every number of hosts, runs and messages, with refusals, partial and late reports and broken
  connections, but without crashes (with them it is false, section 3). A daemon tells a repeated order by whether it has the
  job, so an order that may still come must find the job or never have been obeyed (`OrdersAreSafe`). What makes a daemon forget the job is the
  acknowledgement of an exit. It comes too early if it is handled between an order and its repetition, and the order of a connection
  excludes this: the qmaster repeats an order only while the job is in transfer, acknowledges no exit of the job's host in this state,
  and so an acknowledgement ahead of an order is older than all orders for the run (`AcksAreOlder`). The reschedule unknown
  list is no way round it, because it is empty for the host of the job (`HostIsClear`). An order for one run is never at two hosts
  (`OneHost`).
* `QuarantineProofs`, for every number of hosts, runs, messages and faults and all switches: `KeepsRescheduledAway`, the refinement of `Quarantine`.
  Nothing is assumed of the reports that arrive but their form. A report is followed through the handler: each entry is
  aged, an entry of the job sets the first one of the list back or leaves it, what is at `REMOVE` goes, and the commits add to it.
  The lists have at most two entries (`RuInv` of `JobProtocolProofs`), and a report of a host whose list is not empty is kept from every commit by
  `skip_restarted_job`: it is only counted (`ReportCounted`). A report of a host with an empty list may end the job or take it away, but
  only if it names the job (`ReportApplied`).
* `EventProofs`, for every number of clients, ids, requests, changes and acknowledgements on the way. That a copy is right says nothing about the
  events that are still to come, so `EventInv` gives every client outside a story: all events the master has numbered for it
  by its present registration, a list first, and each change one ahead of what is before it (`Story`). The master
  keeps an end of the story (`Keeps`), what is on the way and what is fetched but not applied are pieces of it (`WillGet`, `HasRead`), and the copy
  is where the story stands at the last event applied (`Place`). Sending again, late acknowledgements and skipped events only choose
  other pieces of one story, and an acknowledgement of an earlier owner of the id may only make the master's piece shorter. That the
  story goes on with an event that fits rests on the requests: a list carries the changes that are queued before it and no others
  (`QueueInv`), as `total_update` is queued under the global lock. A client that the master has removed may still read what was sent
  before, followed by the news that it timed out (`Told`). Theorems: `CopiesAreConsistent`, and `CopiesOnlyMoveOn`, the refinement of `EventMirror`: an
  applied event is the abstract `Follow`, since the stories only lead to later versions, also from one registration to the next.
* `ResourceProofs`, for any resources, bookings and times. A diagram is described by one number, the position in effect at a time
  (`Upto`), and the level there (`AmountAt`). `utilization_add()` is followed through its steps (`StartIs`, `RaisedIs`, `AddedIs`): two diagrams that have
  all the times of each other and of the booking agree everywhere if they agree at their elements (`AmountsAgree`), and
  `utilization_normalize()` changes no level (`NormalizedIs`). `DiagramInv`: a diagram is sorted, normal and ends with zero. From it `DiagramsAreNormal`
  and `DiagramsKeepProfile`, the refinement of `ResourceProfile`. `IteratorInv`: each reference stands at the last element before the time given last; from it
  `IteratorGivesEachTime`. `AnswersTrue` needs that no diagram goes below zero: at the queue end a request for more than
  the total is told "never" without a look at the diagram. A diagram keeps no record of its bookings, so `SumInv` says that some function on the sets of bookings adds up to it, as
  long as the qmaster may still take back a reservation; after that the amounts only grow.
* `FailoverProofs`. `FailoverInv`: the lock file, taking over and starting are one token that at most one shadow daemon holds
  (`OneHolder`), and a qmaster that was found old does not run any more unless it hung (`OldMeansNone`). Theorems: types, `OnlyOneTakesOver`.

Four properties that are proved are in no run: `TypeOK` and `WakeupIsForHead` of the lock, `EndedIsFinal`, `NotEarly`.

Every safety property, action property and refinement of the passing runs is proved in this way (`NoDoubleStart` without crashes) but
for `AtMostOneReport` and `ExitMeansEnded` of `jobs`. These two are only model-checked, since they hold only where messages are
prompt and reports full, which the code does not ensure; a theorem with this hypothesis would say little. Only model-checked are
also the eleven liveness properties (fairness and `ENABLED` are out of the prover's reach), and what the runs with an
expected violation refute.

## 6. Not modelled, and why

* Within the job protocol: parallel and array jobs, checkpointing, interactive jobs, the error state of jobs and queues,
  `qdel -f`, forced manual rescheduling, simulated execds, usage and accounting, crashes of the qmaster (its spooling is per
  commit). Parallel jobs are the largest gap: their slave acknowledgements and `RESCHEDULE_HANDLE_JR_WAIT` are a protocol of their own.
* Within event delivery: filters by attribute, flush times and intervals, and the content of the data.
* Within the diagrams: exclusive resources and their second diagram, resource quota rules, `ri_slots_by_time`, and the scheduler's
  choice among queues. `sge_range.c` is sequential list code without a hazard that tests would miss.
* Advance reservation but for its bookings: states, timed events and the jobs inside a reservation. Calendars but for what they do
  to the diagrams.
* Communication library, CULL, GDI and spooling are taken as their callers use them: they make up most of the source lines, move
  and store data, and their correctness is one of formats rather than of order.
* Shepherd, clients, security and utilities have no shared state with the modelled parts beyond what is named above; the
  scheduler's ticket policies are numerical.
