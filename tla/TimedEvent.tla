----------------------------- MODULE TimedEvent -----------------------------
(***************************************************************************)
(* The timed events of the qmaster: the list that every thread may add to  *)
(* and delete from (daemons/qmaster/sge_qmaster_timed_event.c) and the     *)
(* timer thread that sleeps until the earliest event is due and delivers   *)
(* it (sge_timer_main() of sge_thread_timer.c).                            *)
(*                                                                         *)
(* One step is one critical section of Event_Control.mutex, up to a wait   *)
(* on Event_Control.cond_var.  Within one section the clock stands still.  *)
(* An Event is a list element; one that is free may be created again.      *)
(***************************************************************************)
EXTENDS Integers, FiniteSets

CONSTANTS Event,       \* the list elements that may exist
          OneTime,     \* those of mode ONE_TIME_EVENT, the others recur
          EventKey, KeyOf,  \* type and keys of an element, as one value
          Delay,       \* how far ahead one-time events are due
          Interval,    \* the interval of the recurring events
          NoEvent,
          MaxClock,    \* bound of the clock
          MaxSetback   \* how often it may be set back

ASSUME EventAssumption    == IsFiniteSet(Event) /\ OneTime \subseteq Event /\ NoEvent \notin Event
ASSUME KeyAssumption      == KeyOf \in [Event -> EventKey]
ASSUME TimeAssumption     == Delay \subseteq Nat /\ Interval \in Nat \ {0}
ASSUME ClockAssumption    == MaxClock \in Nat /\ MaxSetback \in Nat

VARIABLES clock,     \* time(NULL), never 0
          setbacks,  \* how often
          place,     \* where an element is
          when,      \* TE_when
          due,       \* history: the time before which it must not be delivered
          next, last, delete,  \* of Event_Control
          timer,     \* where the timer thread is
          te, awaited,   \* the event it has copied, and te->when
          notified   \* Event_Control.cond_var was signaled while it waits

clockVars == <<clock, setbacks>>
listVars == <<place, when, due>>
threadVars == <<timer, te, awaited, notified>>
timerVars == <<clockVars, listVars, next, last, delete, threadVars>>

Where == {"free", "adding", "listed", "taken"}
Pending == {"adding", "listed"}
Waiting == {"empty", "next"}
Listed == {e \in Event : place[e] = "listed"}

\* How far the clock is behind the last time the thread has looked at it: a
\* set-back clock te_check_time() has not seen yet.
Unnoticed == IF last > clock THEN last - clock ELSE 0

\* The timer thread has not run yet.
NotStarted ==
  /\ clock = 1 /\ setbacks = 0
  /\ last = 0 /\ delete = FALSE
  /\ timer = "loop" /\ te = NoEvent /\ awaited = 0 /\ notified = FALSE

TimerInit ==
  /\ NotStarted
  /\ place = [e \in Event |-> "free"]
  /\ when = [e \in Event |-> 0]
  /\ due = [e \in Event |-> 0]
  /\ next = 0

-----------------------------------------------------------------------------
(* Time                                                                      *)

Tick ==
  /\ clock < MaxClock
  /\ clock' = clock + 1
  /\ UNCHANGED <<setbacks, listVars, next, last, delete, threadVars>>

\* Somebody sets the system's clock back.  What is due after some seconds is
\* due after as many seconds now.
SetBack ==
  /\ setbacks < MaxSetback
  /\ setbacks' = setbacks + 1
  /\ \E d \in 1 .. clock - 1 :
       /\ clock' = clock - d
       /\ due' = [e \in Event |-> IF place[e] \in Pending THEN due[e] - d ELSE due[e]]
  /\ UNCHANGED <<place, when, next, last, delete, threadVars>>

-----------------------------------------------------------------------------
(* The other threads                                                         *)

\* pthread_cond_signal(&Event_Control.cond_var)
Notify == notified' = (timer \in Waiting)

\* An element is created and its TE_when computed, before the mutex is taken.
Create(e, d) ==
  /\ place' = [place EXCEPT ![e] = "adding"]
  /\ when' = [when EXCEPT ![e] = clock + d]
  /\ due' = [due EXCEPT ![e] = clock + d - Unnoticed]

\* te_new_event() and te_add_event() up to its critical section.
AddEvent(e) ==
  /\ place[e] = "free"
  /\ \E d \in (IF e \in OneTime THEN Delay ELSE {Interval}) : Create(e, d)
  /\ UNCHANGED <<clockVars, next, last, delete, threadVars>>

\* (Slips of EarlierThanNext: the thread is only told of the first event, or
\* the test is turned around.)
EarlierThanNextEmpty(w) == next = 0
EarlierThanNextTurned(w) == next = 0 \/ w > next

EarlierThanNext(w) == next = 0 \/ w < next

\* The critical section of te_add_event().
InsertEvent(e) ==
  /\ place[e] = "adding"
  /\ place' = [place EXCEPT ![e] = "listed"]
  /\ IF EarlierThanNext(when[e])
       THEN next' = when[e] /\ Notify
       ELSE UNCHANGED <<next, notified>>
  /\ UNCHANGED <<clockVars, when, due, last, delete, awaited>>

\* lFreeElem(); what was in the element is forgotten.
Remove(S) ==
  /\ place' = [e \in Event |-> IF e \in S THEN "free" ELSE place[e]]
  /\ when' = [e \in Event |-> IF e \in S THEN 0 ELSE when[e]]
  /\ due' = [e \in Event |-> IF e \in S THEN 0 ELSE due[e]]

\* The same by a thread other than the timer thread.
Insert(e) ==
  /\ ~(timer = "readd" /\ te = e)
  /\ InsertEvent(e)
  /\ UNCHANGED <<timer, te>>

Matching(k) == {e \in Listed \cap OneTime : KeyOf[e] = k}

\* (A slip of Delete: the timer thread is not told.)
DeleteSilently(k) ==
  /\ Matching(k) # {}
  /\ Remove(Matching(k))
  /\ UNCHANGED <<delete, notified>>

\* te_delete_all_or_one_time_event().  With no match nothing happens.
Delete(k) ==
  /\ Matching(k) # {}
  /\ Remove(Matching(k))
  /\ delete' = TRUE
  /\ Notify

DeleteEvent(k) == Delete(k) /\ UNCHANGED <<clockVars, next, last, timer, te, awaited>>

-----------------------------------------------------------------------------
(* The timer thread                                                          *)

\* te_check_time(): the listed events move with a clock that was set back.
\* (Event_Control.next moves as well, but is set anew before it is read.)
Checked == [e \in Event |-> IF e \in Listed THEN when[e] - Unnoticed ELSE when[e]]

\* lFirst(): an earliest event.  Of several the list has one in front, the
\* one added last; which one is left open here.
Earliest(w) == {e \in Listed : \A f \in Listed : w[e] <= w[f]}

\* lDechainElem() with the due times w; the mutex is released and te is going
\* to be delivered.
Take(e, w) ==
  /\ place' = [place EXCEPT ![e] = "taken"]
  /\ when' = [w EXCEPT ![e] = 0]
  /\ due' = [due EXCEPT ![e] = 0]
  /\ timer' = "deliver"
  /\ te' = e /\ awaited' = 0 /\ notified' = FALSE

\* te_wait_next(), up to the wait
WaitNext(e, w) ==
  /\ when' = w
  /\ next' = w[e] /\ delete' = FALSE
  /\ timer' = "next"
  /\ te' = e /\ awaited' = w[e] /\ notified' = FALSE
  /\ UNCHANGED <<place, due>>

Fetch(w) ==
  \E e \in Earliest(w) :
    \/ w[e] > clock /\ WaitNext(e, w)
    \/ w[e] <= clock /\ Take(e, w) /\ next' = clock /\ UNCHANGED delete

\* te_wait_empty(), up to the wait
WaitEmpty ==
  /\ Listed = {}
  /\ next' = 0
  /\ timer' = "empty" /\ notified' = FALSE
  /\ UNCHANGED <<listVars, delete, te, awaited>>

\* The thread starts over: te_check_time(), te_wait_empty().
Loop ==
  /\ timer = "loop"
  /\ last' = clock
  /\ WaitEmpty \/ Fetch(Checked)
  /\ UNCHANGED clockVars

\* It returns from its wait in te_wait_empty().
WakeEmpty ==
  /\ timer = "empty" /\ notified
  /\ WaitEmpty \/ Fetch(when)
  /\ UNCHANGED <<clockVars, last>>

\* "event list changed": the event the thread has waited for may be gone, or
\* no longer be the first.
StartOver == next < awaited \/ delete

\* The loop in te_wait_next() ends: the next event is another one, or the wait
\* has timed out.  (A deletion alone does not end it.)
WaitEnds == next # awaited \/ awaited <= clock

\* The thread returns from its wait in te_wait_next().
WakeNext ==
  /\ timer = "next"
  /\ notified \/ awaited <= clock
  /\ \/ /\ ~WaitEnds
        /\ notified' = FALSE
        /\ UNCHANGED <<listVars, timer, te, awaited>>
     \/ /\ WaitEnds /\ StartOver
        /\ timer' = "loop"
        /\ te' = NoEvent /\ awaited' = 0 /\ notified' = FALSE
        /\ UNCHANGED listVars
     \/ WaitEnds /\ ~StartOver /\ Take(te, when)
  /\ UNCHANGED <<clockVars, next, last, delete>>

\* te_scan_table_and_deliver(): the handler has run; a recurring event is
\* created again.
Deliver ==
  /\ timer = "deliver"
  /\ \/ /\ te \in OneTime
        /\ Remove({te})
        /\ timer' = "loop" /\ te' = NoEvent
     \/ /\ te \notin OneTime
        /\ Create(te, Interval)
        /\ timer' = "readd"
        /\ UNCHANGED te
  /\ UNCHANGED <<clockVars, next, last, delete, awaited, notified>>

\* ... and added again.
Readd ==
  /\ timer = "readd"
  /\ InsertEvent(te)
  /\ timer' = "loop" /\ te' = NoEvent

\* pthread_cond_wait() may return for no reason.
WakeSpuriously ==
  /\ timer \in Waiting /\ ~notified
  /\ notified' = TRUE
  /\ UNCHANGED <<clockVars, listVars, next, last, delete, timer, te, awaited>>

-----------------------------------------------------------------------------
TimerThread == Loop \/ WakeEmpty \/ WakeNext \/ Deliver \/ Readd

TimerNext ==
  \/ Tick \/ SetBack
  \/ \E e \in Event : AddEvent(e) \/ Insert(e)
  \/ \E k \in EventKey : DeleteEvent(k)
  \/ TimerThread \/ WakeSpuriously

TimerSpec == TimerInit /\ [][TimerNext]_timerVars

\* The threads run on; time need not pass, nor is any event added.
TimerFairness ==
  /\ WF_timerVars(TimerThread)
  /\ \A e \in Event : WF_timerVars(Insert(e))

TimerFairSpec == TimerSpec /\ TimerFairness

-----------------------------------------------------------------------------
\* The type of every variable.
TimerTypeOK ==
  /\ clock \in Nat \ {0} /\ setbacks \in Nat
  /\ place \in [Event -> Where]
  /\ when \in [Event -> Int] /\ due \in [Event -> Int]
  /\ next \in Int /\ last \in Int /\ awaited \in Int
  /\ delete \in BOOLEAN /\ notified \in BOOLEAN
  /\ timer \in {"loop", "empty", "next", "deliver", "readd"}
  /\ te \in Event \cup {NoEvent}

\* sge_timer_main() keeps a pointer to the first element over the wait and
\* dechains it afterwards: unless it is going to start over, the element is
\* still in the list, with the due time the thread has waited for.
AwaitedIsListed ==
  timer = "next" => delete \/ (place[te] = "listed" /\ when[te] = awaited)

\* The thread never sleeps past an event: nothing in the list is due before
\* the time it waits for, or it has been notified.
NoOversleep ==
  ~notified => /\ timer = "empty" => Listed = {}
               /\ timer = "next" => \A e \in Listed : awaited <= when[e]

\* No event is delivered before its time, although the clock may be set back:
\* te_check_time() moves the listed events by no more than the clock has
\* moved.  (Events created while a set-back clock is unnoticed are moved too,
\* although they were computed from the new clock: due allows for this.)
NotEarly ==
  [][timer # "deliver" /\ timer' = "deliver" => due[te'] <= clock]_timerVars

\* A listed event that is due leaves the list (unless the clock is set back).
DueIsDelivered ==
  \A e \in Event :
    place[e] = "listed" /\ when[e] <= clock ~> place[e] # "listed" \/ when[e] > clock
=============================================================================
