--------------------------- MODULE ResourceDiagram ---------------------------
(***************************************************************************)
(* The diagrams in which the scheduler books the use of resources over     *)
(* time (sge_resource_utilization.c), the questions it asks of them        *)
(* (ri_time_by_slots() of sge_select_queue.c) and the iterator over their  *)
(* times (sge_qeti.c).  A behaviour is one scheduling run: the qmaster's   *)
(* advance reservations, then the running jobs, then what the scheduler    *)
(* decides.                                                                *)
(***************************************************************************)
EXTENDS Integers, Sequences, FiniteSets, SequencesExt

CONSTANTS Resource,      \* the resources a job asks for, each with its diagram
          Total,         \* how much there is of each
          Reservation,   \* advance reservations: [start, duration, amount]
          RunningJob,    \* jobs that have started
          PendingJob,    \* jobs, with the start the scheduler tries
          Calendar,      \* calendars of the queue: sequences of [full, till]
          QueueSlots,    \* the resource that a calendar closes
          Now,           \* the time of this scheduling run
          Interval,      \* schedule_interval
          QueueEnd,      \* DISPATCH_TIME_QUEUE_END, LONG32_MAX
          Infinity,      \* U_LONG32_MAX
          NoDiagram      \* no list was created yet

VARIABLES diagram,     \* RUE_utilized: for each resource times with amounts
          reserving,   \* max_reservations is not zero
          booked,      \* what was entered into the diagrams
          whose,       \* whose bookings come: the qmaster's, running or new jobs
          endNext,     \* QETI_queue_end_next: position in each diagram, 0 for NULL
          last         \* the time the iterator gave last, 0 at its end

resourceVars == <<diagram, reserving, booked, whose, endNext, last>>

Booking == Reservation \cup RunningJob \cup PendingJob

ASSUME ResourceAssumption ==
  /\ {Now, Interval, QueueEnd, Infinity} \subseteq Nat \ {0}
  /\ Now < QueueEnd /\ QueueEnd < Infinity
  /\ QueueSlots \in Resource /\ Total \in [Resource -> Nat]

\* Bookings last at least one second.
ASSUME BookingAssumption ==
  Booking \subseteq [start : 1..(Infinity - 1), duration : Nat \ {0}, amount : [Resource -> Nat]]

\* RDE_Type
Element == [time : 1..Infinity, amount : Int]

ASSUME DiagramAssumption == NoDiagram \notin Seq(Element)

-----------------------------------------------------------------------------
(* Diagrams                                                                  *)

Elements(d) == IF d = NoDiagram THEN <<>> ELSE d

EndTime(start, duration) ==
  IF start + duration < Infinity THEN start + duration ELSE Infinity

Level(d, i) == IF i = 0 THEN 0 ELSE d[i].amount

\* utilization_find_time_or_prevstart_or_prev(): the element before the time,
\* and whether the next one has it.
Before(d, t) == Cardinality({i \in DOMAIN d : d[i].time < t})
Hit(d, t) == Before(d, t) < Len(d) /\ d[Before(d, t) + 1].time = t

\* lInsertElem() after the element at i
Insert(d, i, t, a) == InsertAt(d, i + 1, [time |-> t, amount |-> a])

\* Mutant: without the clean-up
NotNormalized(d) == d

\* utilization_normalize(): an element that changes nothing is removed.
Normalized(d) ==
  LET kept == {i \in DOMAIN d : d[i].amount # Level(d, i - 1)}
      Nth(n) == CHOOSE i \in kept : Cardinality({j \in kept : j <= i}) = n
  IN  [n \in 1..Cardinality(kept) |-> d[Nth(n)]]

\* Mutant: a new element forgets the amount before it.
WithStartFromZero(d, start, utilization) ==
  LET prev == Before(d, start)
  IN  IF Hit(d, start)
        THEN [d EXCEPT ![prev + 1].amount = @ + utilization]
        ELSE Insert(d, prev, start, utilization)

WithStart(d, start, utilization) ==
  LET prev == Before(d, start)
  IN  IF Hit(d, start)
        THEN [d EXCEPT ![prev + 1].amount = @ + utilization]
        ELSE Insert(d, prev, start, Level(d, prev) + utilization)

UtilizationAdd(d, start, duration, utilization) ==
  LET end == EndTime(start, duration)
      first == Before(d, start) + 1
      started == WithStart(d, start, utilization)
      prev == first + Cardinality({i \in (first + 1)..Len(started) : started[i].time < end})
      raised == [i \in DOMAIN started |->
                   IF i \in (first + 1)..prev
                     THEN [started[i] EXCEPT !.amount = @ + utilization]
                     ELSE started[i]]
  IN  Normalized(IF prev < Len(raised) /\ raised[prev + 1].time = end
                   THEN raised
                   ELSE Insert(raised, prev, end, Level(raised, prev) - utilization))

UtilizationQueueEnd(d) ==
  IF d = <<>> THEN 0
  ELSE IF d[Len(d)].time # Infinity THEN d[Len(d)].amount
  ELSE Level(d, Len(d) - 1)

UtilizationMax(d, start, duration) ==
  LET prev == IF Hit(d, start) THEN Before(d, start) + 1 ELSE Before(d, start)
      inside == {i \in (prev + 1)..Len(d) : d[i].time < EndTime(start, duration)}
  IN  Max({Level(d, prev)} \cup {d[i].amount : i \in inside})

\* Mutant: the last element below the limit, whether the amount falls there or not
UtilizationBelowAnywhere(d, limit) ==
  LET below == {i \in 2..Len(d) : d[i].amount <= limit}
  IN  IF below = {} THEN 0 ELSE d[Max(below)].time

\* 0 is DISPATCH_TIME_NOW.
UtilizationBelow(d, limit) ==
  LET falls == {i \in 2..Len(d) : d[i].amount <= limit /\ d[i - 1].amount > limit}
  IN  IF falls = {} THEN 0 ELSE d[Max(falls)].time

\* ri_time_by_slots() for a consumable that is not exclusive, in the schedule
\* based mode
TimeBySlots(r, request, start, duration) ==
  LET d == Elements(diagram[r])
      when == UtilizationBelow(d, Total[r] - request)
      Answer(result, at) == [result |-> result, start |-> at]
  IN  IF start = QueueEnd
        THEN IF request > Total[r]
               THEN Answer("never", start)
               ELSE Answer("ok", IF when = 0 THEN Now ELSE when)
      ELSE IF request <= Total[r] - UtilizationMax(d, start, duration)
        THEN Answer("ok", start)
      ELSE IF request > Total[r] - UtilizationQueueEnd(d)
        THEN Answer("never", start)
        ELSE Answer("later", start)

-----------------------------------------------------------------------------
(* Bookings                                                                  *)

\* The iterator, if there was one, is released.
Released == endNext' = [r \in Resource |-> 0] /\ last' = 0

\* A job is not entered where it would be the first, if nobody reserves.
LeftOut(r, duration) == (~reserving \/ duration = 0) /\ diagram[r] = NoDiagram

\* rc_add_job_utilization() for each resource that is asked for
Debit(b, start, duration, sign, forJob) ==
  diagram' = [r \in Resource |->
    IF b.amount[r] = 0 \/ (forJob /\ LeftOut(r, duration))
      THEN diagram[r]
      ELSE UtilizationAdd(Elements(diagram[r]), start, duration, sign * b.amount[r])]

ResourceInit ==
  /\ diagram = [r \in Resource |-> NoDiagram]
  /\ reserving \in BOOLEAN
  /\ booked = {}
  /\ whose = "qmaster"
  /\ endNext = [r \in Resource |-> 0]
  /\ last = 0

\* ar_do_reservation() with and without incslots
AddReservation(b) ==
  /\ whose = "qmaster" /\ b \in Reservation \ booked
  /\ Debit(b, b.start, b.duration, 1, FALSE)
  /\ booked' = booked \cup {b}
  /\ Released /\ UNCHANGED <<reserving, whose>>

RemoveReservation(b) ==
  /\ whose = "qmaster" /\ b \in Reservation \cap booked
  /\ Debit(b, b.start, b.duration, -1, FALSE)
  /\ booked' = booked \ {b}
  /\ Released /\ UNCHANGED <<reserving, whose>>

\* add_job_list_to_schedule(): a job that should have ended is expected to be
\* there for one interval more.
AddRunning(b) ==
  LET overdue == EndTime(b.start, b.duration) <= Now
      duration == IF overdue THEN (Now - b.start) + Interval ELSE b.duration
  IN  /\ whose \in {"qmaster", "running"} /\ b \in RunningJob \ booked
      /\ Debit(b, b.start, duration, 1, TRUE)
      /\ booked' = booked \cup {b}
      /\ whose' = "running"
      /\ Released /\ UNCHANGED reserving

\* add_job_utilization() for a job that starts or gets a reservation
AddPending(b) ==
  /\ b \in PendingJob \ booked
  /\ \A r \in Resource : b.amount[r] > 0 =>
       TimeBySlots(r, b.amount[r], b.start, b.duration).result = "ok"
  /\ Debit(b, b.start, b.duration, 1, TRUE)
  /\ booked' = booked \cup {b}
  /\ whose' = "scheduling"
  /\ Released /\ UNCHANGED reserving

-----------------------------------------------------------------------------
(* The iterator over the times of all diagrams, latest first                 *)

\* sge_qeti_max_end_time() over all references
MaxEndTime(refs) ==
  Max({0} \cup {diagram[r][refs[r]].time : r \in {q \in Resource : refs[q] # 0}})

\* Mutant: an element at the time itself is kept.
SwitchToNextAt(time, refs) ==
  [r \in Resource |-> Max({0} \cup {i \in 1..refs[r] : diagram[r][i].time <= time})]

\* sge_qeti_switch_to_next(): back to an element before the time.  The time is
\* an unsigned number.
SwitchToNext(time, refs) ==
  [r \in Resource |->
     Max({0} \cup {i \in 1..refs[r] : diagram[r][i].time <= (time - 1) % (Infinity + 1)})]

Give(time, refs) ==
  /\ last' = time
  /\ endNext' = SwitchToNext(time, refs)
  /\ whose' = "scheduling"
  /\ UNCHANGED <<diagram, reserving, booked>>

QetiFirst ==
  LET ends == [r \in Resource |-> Len(Elements(diagram[r]))]
  IN  last = 0 /\ Give(MaxEndTime(ends), ends)

\* parallel_reservation_max_time_slots() goes on while the assignment succeeds.
QetiNext == last # 0 /\ Give(MaxEndTime(endNext), endNext)

ResourceNext ==
  \/ \E b \in Booking :
       AddReservation(b) \/ RemoveReservation(b) \/ AddRunning(b) \/ AddPending(b)
  \/ QetiFirst
  \/ QetiNext

ResourceSpec == ResourceInit /\ [][ResourceNext]_resourceVars

-----------------------------------------------------------------------------
(* Calendars                                                                 *)

\* set_utilization().  The element it finds at the start is among those it
\* removes.
SetUtilization(d, from, till, utilization) ==
  LET first == Before(d, from) + 1
      marked == IF Hit(d, from)
                  THEN [d EXCEPT ![first].amount = utilization]
                  ELSE Insert(d, first - 1, from, utilization)
      next == IF Hit(d, from) THEN first ELSE first + 1
      beyond == next + Cardinality({i \in next..Len(marked) : marked[i].time < till})
      kept == SubSeq(marked, 1, next - 1) \o SubSeq(marked, beyond, Len(marked))
      past == IF beyond = next THEN d[first].amount ELSE marked[beyond - 1].amount
  IN  IF first > Len(d) \/ beyond > Len(marked)
        THEN Append(IF first > Len(d) THEN marked ELSE kept, [time |-> till, amount |-> 0])
      ELSE IF marked[beyond].time = till
        THEN kept
        ELSE Insert(kept, next - 1, till, past)

\* add_calendar_to_schedule(): [diagram, from] after one more state of the queue
Close(before, state) ==
  LET till == IF state.till = 0 THEN QueueEnd ELSE state.till
  IN  [elements |-> IF state.full
                      THEN SetUtilization(before.elements, before.from, till, Total[QueueSlots])
                      ELSE before.elements,
       from |-> state.till]

AddCalendar(calendar) ==
  LET closed == FoldLeft(Close, [elements |-> Elements(diagram[QueueSlots]), from |-> Now], calendar)
  IN  /\ whose \in {"qmaster", "running"}
      /\ diagram' = [diagram EXCEPT ![QueueSlots] = closed.elements]
      /\ whose' = "scheduling"
      /\ Released /\ UNCHANGED <<reserving, booked>>

CalendarSpec ==
  ResourceInit /\ [][ResourceNext \/ \E c \in Calendar : AddCalendar(c)]_resourceVars

-----------------------------------------------------------------------------
(* Properties                                                                *)

Time == 1..(Infinity - 1)

ValueAt(r, t) ==
  LET d == Elements(diagram[r])
  IN  Level(d, Cardinality({i \in DOMAIN d : d[i].time <= t}))

\* The change of the amounts by a booking is what the booking takes, within
\* its time, whatever bookings it overlaps, touches or removes.
Profile == INSTANCE ResourceProfile
             WITH profile <- [r \in Resource |-> [t \in Time |-> ValueAt(r, t)]]
KeepsProfile == Profile!Spec

\* Times increase, neighbours differ, the first amount is not zero and the last
\* one is: utilization_queue_end() looks at the element before the last one
\* without asking whether there is one.
DiagramIsNormal ==
  \A r \in Resource :
    LET d == Elements(diagram[r])
    IN  /\ \A i \in DOMAIN d : d[i].amount # Level(d, i - 1)
        /\ \A i \in DOMAIN d \ {1} : d[i - 1].time < d[i].time
        /\ d # <<>> => d[Len(d)].amount = 0

Fits(r, request, start, duration) ==
  \A t \in Time : start <= t /\ t < EndTime(start, duration) => ValueAt(r, t) + request <= Total[r]

Durations == {b.duration : b \in Booking}

\* ri_time_by_slots() tells the truth: "ok" means that there is enough for the
\* whole time, "later" that there will be, "never" that the resource is booked
\* for ever, and the time near the queue end is the first one from which on it
\* is free for ever.
AnswersAreTrue ==
  \A r \in {q \in Resource : Elements(diagram[q]) # <<>>} :
    \A start \in Now..QueueEnd, duration \in Durations, request \in 1..(Total[r] + 1) :
      LET answer == TimeBySlots(r, request, start, duration)
      IN  CASE answer.result = "never" -> ValueAt(r, Infinity - 1) + request > Total[r]
            [] answer.result = "later" ->
                 /\ ~Fits(r, request, start, duration)
                 /\ \E t \in Time : t > start /\ Fits(r, request, t, duration)
            [] answer.result = "ok" ->
                 IF start = QueueEnd
                   THEN /\ Fits(r, request, answer.start, Infinity)
                        /\ answer.start > Now => ~Fits(r, request, answer.start - 1, 1)
                   ELSE Fits(r, request, start, duration)

\* No time at which a diagram changes is passed over by the iterator: the next
\* one it gives is the latest of those before the one it gave.
NoTimePassedOver ==
  last # 0 =>
    MaxEndTime(endNext) =
      Max({0} \cup {t \in 1..(last - 1) :
                      \E r \in Resource : t \in {e.time : e \in ToSet(Elements(diagram[r]))}})

\* "It removes all other uti settings in the given time interval and replaces it
\* with the given one": a calendar fills the queue while it closes it, and leaves
\* the other times alone.
CalendarReplaces ==
  [][\A c \in Calendar : AddCalendar(c) =>
         \A t \in Time :
           LET since(i) == IF i = 1 THEN Now ELSE c[i - 1].till
               until(i) == IF c[i].till = 0 THEN QueueEnd ELSE c[i].till
           IN  ValueAt(QueueSlots, t)' =
                 IF \E i \in DOMAIN c : c[i].full /\ since(i) <= t /\ t < until(i)
                   THEN Total[QueueSlots]
                   ELSE ValueAt(QueueSlots, t)]_resourceVars
=============================================================================
