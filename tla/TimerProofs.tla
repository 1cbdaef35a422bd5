---------------------------- MODULE TimerProofs ----------------------------
(***************************************************************************)
(* The safety of the timed events, for any number of list elements, any    *)
(* due times and any changes of the clock, and of the resend timers of the *)
(* signals, for any number of jobs, signals and messages.                  *)
(*                                                                         *)
(* The inductive invariant TimerInv of the timed events has a part for     *)
(* each wait of the timer thread (what it may rely on when it wakes up)    *)
(* and one for the time: no element is due earlier in the list than it     *)
(* should be, even after te_check_time() will have moved it.               *)
(*                                                                         *)
(* At the end, what the comparison of report numbers in sge_c_report()     *)
(* achieves with the numbers of the program; TLC checks LoadReport with    *)
(* small ones.                                                             *)
(***************************************************************************)
EXTENDS SignalResend, LoadReport, FiniteSetTheorems, TLAPS


EmptyInv == timer = "empty" => notified \/ (next = 0 /\ Listed = {})

NextInv ==
  timer = "next" =>
    /\ te \in Event
    /\ delete \/ (place[te] = "listed" /\ when[te] = awaited)
    /\ 0 < next /\ next <= awaited
    /\ notified \/ next = awaited
    /\ \A e \in Listed : next <= when[e]

BusyInv == timer \in {"deliver", "readd"} => te \in Event

\* (te_add_event() takes next = 0 for an empty list: no element is due at 0.)
DueInv ==
  \A e \in Event :
    /\ place[e] \in Pending => due[e] <= when[e] - Unnoticed
    /\ place[e] = "adding" => when[e] > 0

TimerInv == TimerTypeOK /\ EmptyInv /\ NextInv /\ BusyInv /\ DueInv

USE EventAssumption, KeyAssumption, TimeAssumption, ClockAssumption

\* The timer thread has not started and the list is empty.
LEMMA InitTimerInv == TimerInit => TimerInv
<1> SUFFICES ASSUME TimerInit PROVE TimerInv
  OBVIOUS
<1>1. delete \in BOOLEAN /\ notified \in BOOLEAN
  BY DEF TimerInit, NotStarted
<1>2. TimerTypeOK
  BY <1>1 DEF TimerInit, NotStarted, TimerTypeOK, Where
<1>3. EmptyInv /\ NextInv /\ BusyInv /\ DueInv
  BY DEF TimerInit, NotStarted, EmptyInv, NextInv, BusyInv, DueInv, Pending
<1> QED BY <1>2, <1>3 DEF TimerInv

-----------------------------------------------------------------------------
(* The critical sections of the other threads, and time                      *)

\* A new element does not touch the list yet.
LEMMA AddStep ==
  ASSUME TimerInv, NEW e \in Event, AddEvent(e)
  PROVE  TimerInv'
<1> USE DEF TimerInv
<1>1. PICK d \in Nat : Create(e, d) /\ place[e] = "free"
  BY DEF AddEvent
<1>2. UNCHANGED <<clock, setbacks, next, last, delete, timer, te, awaited, notified>>
  BY DEF AddEvent, clockVars, threadVars
<1>3. TimerTypeOK'
  BY <1>1, <1>2 DEF Create, TimerTypeOK, Where, Unnoticed
<1>4. Listed' = Listed /\ \A x \in Listed : when'[x] = when[x] /\ place'[x] = place[x] /\ x # e
  BY <1>1 DEF Create, Listed, TimerTypeOK
<1>5. EmptyInv' /\ BusyInv'
  BY <1>2, <1>4 DEF EmptyInv, BusyInv
<1>6. NextInv'
  BY <1>1, <1>2, <1>4 DEF NextInv, Listed
<1>7. DueInv'
  BY <1>1, <1>2 DEF DueInv, Create, Unnoticed, TimerTypeOK, Pending, Where
<1> QED BY <1>3, <1>5, <1>6, <1>7

\* Whoever adds an element that is due before the one waited for leaves a
\* notification behind.
LEMMA InsertStep ==
  ASSUME TimerInv, NEW e \in Event, InsertEvent(e),
         \/ UNCHANGED <<timer, te>>
         \/ timer = "readd" /\ timer' = "loop" /\ te' = NoEvent
  PROVE  TimerInv'
<1> USE DEF TimerInv
<1>1. /\ place[e] = "adding" /\ place' = [place EXCEPT ![e] = "listed"]
      /\ UNCHANGED <<clock, setbacks, when, due, last, delete, awaited>>
  BY DEF InsertEvent, clockVars
<1>2. \/ /\ next = 0 \/ when[e] < next
         /\ next' = when[e] /\ Notify
      \/ next # 0 /\ ~(when[e] < next) /\ UNCHANGED <<next, notified>>
  BY DEF InsertEvent, EarlierThanNext
<1>3. TimerTypeOK'
  <2>1. notified' \in BOOLEAN
    <3>1. CASE Notify
      BY <3>1 DEF Notify
    <3>2. CASE UNCHANGED notified
      BY <3>2 DEF TimerTypeOK
    <3> QED BY <1>2, <3>1, <3>2
  <2> QED BY <1>1, <1>2, <2>1 DEF TimerTypeOK, Where
<1>4. Listed' = Listed \cup {e}
  BY <1>1 DEF Listed, TimerTypeOK
<1>5. EmptyInv' /\ BusyInv'
  <2>1. BusyInv'
    BY DEF BusyInv
  <2>2. CASE Notify
    BY <2>1, <2>2 DEF EmptyInv, Notify, Waiting
  <2>3. CASE next # 0 /\ UNCHANGED <<next, notified>>
    BY <2>1, <2>3 DEF EmptyInv
  <2> QED BY <1>2, <2>2, <2>3
<1>6. NextInv'
  <2> SUFFICES ASSUME timer' = "next" PROVE NextInv'
    BY DEF NextInv
  <2>1. timer = "next" /\ te' = te
    OBVIOUS
  <2>2. CASE (next = 0 \/ when[e] < next) /\ next' = when[e] /\ Notify
    <3>1. notified'
      BY <2>1, <2>2 DEF Notify, Waiting
    <3>2. when[e] \in Int /\ next \in Int /\ 0 < when[e] /\ when[e] < next
      BY <1>1, <2>1, <2>2 DEF NextInv, DueInv, TimerTypeOK
    <3> QED BY <1>1, <1>4, <2>1, <2>2, <3>1, <3>2 DEF NextInv, TimerTypeOK, Listed
  <2>3. CASE UNCHANGED <<next, notified>> /\ next <= when[e]
    BY <1>1, <1>4, <2>1, <2>3 DEF NextInv, TimerTypeOK, Listed
  <2>4. next \in Int /\ when[e] \in Int
    BY DEF TimerTypeOK
  <2> QED BY <1>2, <2>2, <2>3, <2>4
<1>7. DueInv'
  BY <1>1 DEF DueInv, Unnoticed, Pending, TimerTypeOK
<1> QED BY <1>3, <1>5, <1>6, <1>7

\* Whoever deletes elements tells the thread, which may be waiting for one.
LEMMA DeleteStep ==
  ASSUME TimerInv, NEW k \in EventKey, DeleteEvent(k)
  PROVE  TimerInv'
<1> USE DEF TimerInv
<1>1. /\ place' = [e \in Event |-> IF e \in Matching(k) THEN "free" ELSE place[e]]
      /\ when' = [e \in Event |-> IF e \in Matching(k) THEN 0 ELSE when[e]]
      /\ due' = [e \in Event |-> IF e \in Matching(k) THEN 0 ELSE due[e]]
      /\ delete' = TRUE /\ notified' = (timer \in Waiting)
      /\ UNCHANGED <<clock, setbacks, next, last, timer, te, awaited>>
  BY DEF DeleteEvent, Delete, Remove, Notify, clockVars
<1>2. TimerTypeOK'
  BY <1>1 DEF TimerTypeOK, Where, Waiting
<1>3. Listed' \subseteq Listed /\ \A x \in Listed' : when'[x] = when[x]
  BY <1>1 DEF Listed
<1>4. EmptyInv' /\ BusyInv' /\ NextInv'
  BY <1>1, <1>3 DEF EmptyInv, BusyInv, NextInv, Waiting
<1>5. DueInv'
  BY <1>1 DEF DueInv, Unnoticed, Pending
<1> QED BY <1>2, <1>4, <1>5

\* Time passes, or is set back: then what te_check_time() is going to do grows
\* by as much.
LEMMA TimeStep ==
  ASSUME TimerInv, Tick \/ SetBack
  PROVE  TimerInv'
<1> USE DEF TimerInv
<1>1. UNCHANGED <<place, when, next, last, delete, timer, te, awaited, notified>>
  BY DEF Tick, SetBack, listVars, threadVars
<1>2. TimerTypeOK'
  BY <1>1 DEF TimerTypeOK, Tick, SetBack, listVars
<1>3. EmptyInv' /\ NextInv' /\ BusyInv'
  BY <1>1 DEF EmptyInv, NextInv, BusyInv, Listed
<1>4. DueInv'
  <2>1. CASE Tick
    BY <1>1, <2>1 DEF Tick, listVars, DueInv, Unnoticed, TimerTypeOK
  <2>2. CASE SetBack
    BY <1>1, <2>2 DEF SetBack, DueInv, Unnoticed, TimerTypeOK
  <2> QED BY <2>1, <2>2
<1> QED BY <1>2, <1>3, <1>4

-----------------------------------------------------------------------------
(* The timer thread                                                          *)

\* What the thread needs of the due times w it looks at.
Sound(w) ==
  /\ w \in [Event -> Int]
  /\ \A e \in Event :
       /\ place[e] \in Pending => due[e] <= w[e]
       /\ place[e] = "adding" => w[e] > 0

\* The element the thread takes may be delivered.
LEMMA TakeStep ==
  ASSUME TimerInv, NEW w, Sound(w), NEW e \in Event, Take(e, w),
         clock' = clock, setbacks' = setbacks, delete' \in BOOLEAN, next' \in Int,
         \/ last' = clock
         \/ last' = last /\ w = when
  PROVE  TimerInv'
<1> USE DEF TimerInv
<1>1. /\ place' = [place EXCEPT ![e] = "taken"]
      /\ when' = [w EXCEPT ![e] = 0] /\ due' = [due EXCEPT ![e] = 0]
      /\ timer' = "deliver" /\ te' = e /\ awaited' = 0 /\ notified' = FALSE
  BY DEF Take
<1>2. TimerTypeOK'
  <2>1. notified' \in BOOLEAN
    BY <1>1
  <2> QED BY <1>1, <2>1 DEF TimerTypeOK, Sound, Where
<1>3. EmptyInv' /\ NextInv' /\ BusyInv'
  BY <1>1 DEF EmptyInv, NextInv, BusyInv
<1>4. DueInv'
  <2> SUFFICES ASSUME NEW x \in Event, place'[x] \in Pending
               PROVE  due'[x] <= when'[x] - Unnoticed' /\ (place'[x] = "adding" => when'[x] > 0)
    BY DEF DueInv, Pending
  <2>1. x # e /\ place[x] \in Pending
    BY <1>1 DEF TimerTypeOK, Pending
  <2>2. when'[x] = w[x] /\ due'[x] = due[x] /\ place'[x] = place[x]
    BY <1>1, <2>1 DEF Sound, TimerTypeOK
  <2>3. place[x] = "adding" => w[x] > 0
    BY DEF Sound
  <2> QED BY <2>1, <2>2, <2>3 DEF DueInv, Sound, Unnoticed, TimerTypeOK
<1> QED BY <1>2, <1>3, <1>4

\* The element it waits for is an earliest one.
LEMMA WaitNextStep ==
  ASSUME TimerInv, NEW w, Sound(w), NEW e \in Earliest(w), w[e] > clock, WaitNext(e, w),
         clock' = clock, setbacks' = setbacks,
         \/ last' = clock
         \/ last' = last /\ w = when
  PROVE  TimerInv'
<1> USE DEF TimerInv
<1>1. /\ when' = w /\ next' = w[e] /\ delete' = FALSE
      /\ timer' = "next" /\ te' = e /\ awaited' = w[e] /\ notified' = FALSE
      /\ UNCHANGED <<place, due>>
  BY DEF WaitNext
<1>2. e \in Listed /\ \A f \in Listed : w[e] <= w[f]
  BY DEF Earliest
<1>3. TimerTypeOK'
  <2>1. notified' \in BOOLEAN /\ delete' \in BOOLEAN
    BY <1>1
  <2> QED BY <1>1, <1>2, <2>1 DEF TimerTypeOK, Sound, Listed
<1>4. EmptyInv' /\ BusyInv'
  BY <1>1 DEF EmptyInv, BusyInv
<1>5. NextInv'
  BY <1>1, <1>2 DEF NextInv, Listed, Sound, TimerTypeOK
<1>6. DueInv'
  <2>1. \A x \in Event : place[x] = "adding" => w[x] > 0
    BY DEF Sound
  <2> QED BY <1>1, <2>1 DEF DueInv, Sound, Unnoticed, TimerTypeOK
<1> QED BY <1>3, <1>4, <1>5, <1>6

\* te_wait_empty()
LEMMA WaitEmptyStep ==
  ASSUME TimerInv, WaitEmpty, clock' = clock, setbacks' = setbacks,
         last' \in {last, clock}
  PROVE  TimerInv'
<1> USE DEF TimerInv
<1>1. /\ Listed = {} /\ next' = 0 /\ timer' = "empty"
      /\ UNCHANGED <<place, when, due, delete, te, awaited>>
  BY DEF WaitEmpty, listVars
<1>2. TimerTypeOK'
  <2>1. notified' \in BOOLEAN
    BY DEF WaitEmpty
  <2> QED BY <1>1, <2>1 DEF TimerTypeOK
<1>3. EmptyInv' /\ NextInv' /\ BusyInv'
  BY <1>1 DEF EmptyInv, NextInv, BusyInv, Listed
<1>4. DueInv'
  BY <1>1 DEF DueInv, Unnoticed, TimerTypeOK
<1> QED BY <1>2, <1>3, <1>4

\* The first element of the list, seen with sound due times.
LEMMA FetchStep ==
  ASSUME TimerInv, NEW w, Sound(w), Fetch(w), clock' = clock, setbacks' = setbacks,
         \/ last' = clock
         \/ last' = last /\ w = when
  PROVE  TimerInv'
<1>1. PICK e \in Earliest(w) :
        \/ w[e] > clock /\ WaitNext(e, w)
        \/ Take(e, w) /\ next' = clock /\ UNCHANGED delete
  BY DEF Fetch
<1>2. CASE w[e] > clock /\ WaitNext(e, w)
  BY <1>2, WaitNextStep
<1>3. CASE Take(e, w) /\ next' = clock /\ UNCHANGED delete
  <2>1. e \in Event /\ delete' \in BOOLEAN /\ next' \in Int
    BY <1>3 DEF Earliest, Listed, TimerInv, TimerTypeOK
  <2> QED BY <1>3, <2>1, TakeStep
<1> QED BY <1>1, <1>2, <1>3

\* te_check_time() gives sound due times, and so does not looking at the clock.
LEMMA DueTimesAreSound ==
  ASSUME TimerInv
  PROVE  Sound(Checked) /\ Sound(when)
  BY DEF TimerInv, Sound, Checked, DueInv, Unnoticed, TimerTypeOK, Listed, Pending

\* A wait in te_wait_next() that does not start over has timed out, and the
\* element waited for is in the list.
LEMMA WakeTakesListed ==
  ASSUME TimerInv, timer = "next", WaitEnds, ~StartOver
  PROVE  te \in Event /\ place[te] = "listed" /\ when[te] = awaited /\ awaited <= clock
  BY DEF TimerInv, NextInv, WaitEnds, StartOver, TimerTypeOK

LEMMA ThreadStep ==
  ASSUME TimerInv, TimerThread \/ WakeSpuriously
  PROVE  TimerInv'
<1>1. CASE Loop
  <2>1. CASE WaitEmpty
    BY <1>1, <2>1, WaitEmptyStep DEF Loop, clockVars
  <2>2. CASE Fetch(Checked)
    BY <1>1, <2>2, FetchStep, DueTimesAreSound DEF Loop, clockVars
  <2> QED BY <1>1, <2>1, <2>2 DEF Loop
<1>2. CASE WakeEmpty
  <2>1. CASE WaitEmpty
    BY <1>2, <2>1, WaitEmptyStep DEF WakeEmpty, clockVars
  <2>2. CASE Fetch(when)
    BY <1>2, <2>2, FetchStep, DueTimesAreSound DEF WakeEmpty, clockVars
  <2> QED BY <1>2, <2>1, <2>2 DEF WakeEmpty
<1>3. CASE WakeNext
  <2> USE <1>3 DEF WakeNext, clockVars
  <2>1. CASE WaitEnds /\ ~StartOver /\ Take(te, when)
    <3>1. te \in Event /\ delete' \in BOOLEAN /\ next' \in Int
      BY <2>1, WakeTakesListed DEF TimerInv, TimerTypeOK
    <3> QED BY <2>1, <3>1, TakeStep, DueTimesAreSound
  <2>2. CASE WaitEnds /\ StartOver /\ timer' = "loop"
    <3>1. UNCHANGED <<place, when, due, clock, setbacks, next, last, delete>>
          /\ te' = NoEvent /\ awaited' = 0 /\ notified' = FALSE
      BY <2>2 DEF listVars, Take
    <3>2. notified' \in BOOLEAN
      BY <3>1
    <3> QED BY <2>2, <3>1, <3>2
            DEF TimerInv, TimerTypeOK, EmptyInv, NextInv, BusyInv, DueInv, Unnoticed
  <2>3. CASE ~WaitEnds
    <3>1. UNCHANGED <<place, when, due, clock, setbacks, next, last, delete, timer, te, awaited>>
          /\ notified' = FALSE /\ next = awaited
      BY <2>3 DEF listVars, WaitEnds
    <3>2. notified' \in BOOLEAN
      BY <3>1
    <3>3. TimerTypeOK' /\ DueInv'
      BY <3>1, <3>2 DEF TimerInv, TimerTypeOK, DueInv, Unnoticed
    <3>4. EmptyInv' /\ NextInv' /\ BusyInv'
      BY <3>1, <1>3 DEF TimerInv, TimerTypeOK, EmptyInv, NextInv, BusyInv, Listed
    <3> QED BY <3>3, <3>4 DEF TimerInv
  <2> QED BY <2>1, <2>2, <2>3
<1>4. CASE Deliver
  <2> USE <1>4 DEF TimerInv
  <2>1. te \in Event /\ UNCHANGED <<clock, setbacks, next, last, delete, awaited, notified>>
    BY DEF Deliver, BusyInv, clockVars
  <2>2. CASE Remove({te}) /\ timer' = "loop" /\ te' = NoEvent
    BY <2>1, <2>2 DEF Remove, TimerTypeOK, EmptyInv, NextInv, BusyInv, DueInv, Unnoticed,
                      Where, Pending
  <2>3. CASE Create(te, Interval) /\ timer' = "readd" /\ te' = te
    BY <2>1, <2>3 DEF Create, TimerTypeOK, EmptyInv, NextInv, BusyInv, DueInv, Unnoticed,
                      Where, Pending
  <2> QED BY <2>2, <2>3 DEF Deliver
<1>5. CASE Readd
  BY <1>5, InsertStep DEF Readd, TimerInv, BusyInv
<1>6. CASE WakeSpuriously
  BY <1>6 DEF WakeSpuriously, TimerInv, TimerTypeOK, EmptyInv, NextInv, BusyInv, DueInv,
              Unnoticed, Listed, clockVars, listVars, Waiting
<1> QED BY <1>1, <1>2, <1>3, <1>4, <1>5, <1>6 DEF TimerThread

LEMMA NextTimerInv == TimerInv /\ [TimerNext]_timerVars => TimerInv'
<1> SUFFICES ASSUME TimerInv, [TimerNext]_timerVars PROVE TimerInv'
  OBVIOUS
<1>1. CASE Tick \/ SetBack
  BY <1>1, TimeStep
<1>2. ASSUME NEW e \in Event, AddEvent(e) PROVE TimerInv'
  BY <1>2, AddStep
<1>3. ASSUME NEW e \in Event, Insert(e) PROVE TimerInv'
  BY <1>3, InsertStep DEF Insert
<1>4. ASSUME NEW k \in EventKey, DeleteEvent(k) PROVE TimerInv'
  BY <1>4, DeleteStep
<1>5. CASE TimerThread \/ WakeSpuriously
  BY <1>5, ThreadStep
<1>6. CASE UNCHANGED timerVars
  BY <1>6 DEF timerVars, clockVars, listVars, threadVars, TimerInv, TimerTypeOK, EmptyInv,
              NextInv, BusyInv, DueInv, Unnoticed, Listed
<1> QED BY <1>1, <1>2, <1>3, <1>4, <1>5, <1>6 DEF TimerNext

\* The invariant holds in every reachable state.
THEOREM TimerInvHolds == TimerSpec => []TimerInv
BY InitTimerInv, NextTimerInv, PTL DEF TimerSpec

-----------------------------------------------------------------------------
\* The variables of the timed events keep their types.
THEOREM TimerTypeCorrect == TimerSpec => []TimerTypeOK
<1>1. TimerInv => TimerTypeOK
  BY DEF TimerInv
<1> QED BY <1>1, TimerInvHolds, PTL

\* The timer thread never dechains an element that was deleted during its
\* wait, however many elements and threads there are.
THEOREM AwaitedIsNeverFreed == TimerSpec => []AwaitedIsListed
<1>1. TimerInv => AwaitedIsListed
  BY DEF TimerInv, NextInv, AwaitedIsListed
<1> QED BY <1>1, TimerInvHolds, PTL

\* It never sleeps past an element, wherever the others insert theirs.
THEOREM NeverOversleeps == TimerSpec => []NoOversleep
<1>1. TimerInv => NoOversleep
  BY DEF TimerInv, NextInv, EmptyInv, NoOversleep
<1> QED BY <1>1, TimerInvHolds, PTL

\* It never delivers an event early, however often the clock is set back.
THEOREM NeverEarly == TimerSpec => NotEarly
<1>1. TimerInv /\ [TimerNext]_timerVars
      => [timer # "deliver" /\ timer' = "deliver" => due[te'] <= clock]_timerVars
  <2> SUFFICES ASSUME TimerInv, TimerNext, timer # "deliver", timer' = "deliver"
               PROVE  due[te'] <= clock
    OBVIOUS
  <2>1. CASE Loop
    <3>1. PICK e \in Earliest(Checked) : Checked[e] <= clock /\ Take(e, Checked)
      BY <2>1 DEF Loop, Fetch, WaitEmpty, WaitNext
    <3>2. e \in Event /\ place[e] \in Pending /\ te' = e
      BY <3>1 DEF Earliest, Listed, Take, Pending
    <3> QED BY <3>1, <3>2, DueTimesAreSound DEF Sound, TimerInv, TimerTypeOK
  <2>2. CASE WakeEmpty
    <3>1. PICK e \in Earliest(when) : when[e] <= clock /\ Take(e, when)
      BY <2>2 DEF WakeEmpty, Fetch, WaitEmpty, WaitNext
    <3>2. e \in Event /\ place[e] \in Pending /\ te' = e
      BY <3>1 DEF Earliest, Listed, Take, Pending
    <3> QED BY <3>1, <3>2, DueTimesAreSound DEF Sound, TimerInv, TimerTypeOK
  <2>3. CASE WakeNext
    <3>1. timer = "next" /\ WaitEnds /\ ~StartOver /\ te' = te
      BY <2>3 DEF WakeNext, Take
    <3>2. te \in Event /\ place[te] \in Pending /\ when[te] <= clock
      BY <3>1, WakeTakesListed DEF Pending
    <3> QED BY <3>1, <3>2, DueTimesAreSound DEF Sound, TimerInv, TimerTypeOK
  <2>4. Loop \/ WakeEmpty \/ WakeNext
    BY DEF TimerNext, TimerThread, Tick, SetBack, AddEvent, Insert, DeleteEvent, Deliver,
           Readd, WakeSpuriously, threadVars
  <2> QED BY <2>1, <2>2, <2>3, <2>4
<1> QED BY <1>1, TimerInvHolds, PTL DEF TimerSpec, NotEarly

-----------------------------------------------------------------------------
(***************************************************************************)
(* The resend timers of the signals.  Nothing is assumed of the execution  *)
(* daemons: they may acknowledge what they like.                           *)
(*                                                                         *)
(* The inductive invariant is that no two pending resend events have the   *)
(* same key; it rests on te_delete_one_time_event() and te_add_event()     *)
(* being called while LOCK_GLOBAL is held (GlobalIsFree).                  *)
(*                                                                         *)
(* The handlers delete and create elements in one step, which no single    *)
(* step of TimedEvent does: that the timer thread stays safe with them is  *)
(* shown anew, with the same invariant TimerInv.                           *)
(***************************************************************************)
OneEach ==
  \A e, f \in OneTime :
    place[e] \in Pending /\ place[f] \in Pending /\ KeyOf[e] = KeyOf[f] => e = f

SignalInv ==
  /\ place \in [Event -> Where]
  /\ pending \in [EventKey -> Signal \cup {NoSignal}]
  /\ OneEach

\* What a step may do to the resend events of a job.
Disarms(k) ==
  /\ pending[k] # NoSignal /\ pending'[k] = NoSignal
  /\ ~(\A e \in ResendEvent(k) : place'[e] \in {"free", "taken"})

Forgets(k) ==
  /\ pending'[k] # NoSignal /\ Armed(k) /\ ~Armed(k)'
  /\ ~(timer = "deliver" /\ timer' = "loop")

Good == SignalInv' /\ \A k \in EventKey : ~Disarms(k) /\ ~Forgets(k)

USE EventAssumption, KeyAssumption, TimeAssumption, ClockAssumption, SignalAssumption

-----------------------------------------------------------------------------
\* A step that creates and frees no resend event and leaves the signals alone.
LEMMA QuietStep ==
  ASSUME SignalInv, UNCHANGED pending, place' \in [Event -> Where],
         \A e \in OneTime : /\ place'[e] \in Pending => place[e] \in Pending
                            /\ place'[e] = "free" => place[e] = "free"
  PROVE  Good
<1>1. SignalInv'
  BY DEF SignalInv, OneEach
<1>2. ASSUME NEW k \in EventKey PROVE ~Disarms(k) /\ ~Forgets(k)
  BY DEF Disarms, Forgets, Armed, ResendEvent
<1> QED BY <1>1, <1>2 DEF Good

LEMMA InsertIsQuiet ==
  ASSUME SignalInv, NEW e, InsertEvent(e), UNCHANGED pending
  PROVE  Good
<1>1. place[e] = "adding" /\ place' = [place EXCEPT ![e] = "listed"]
  BY DEF InsertEvent
<1>2. place' \in [Event -> Where]
  BY <1>1 DEF SignalInv, Where
<1>3. \A x \in OneTime : /\ place'[x] \in Pending => place[x] \in Pending
                         /\ place'[x] = "free" => place[x] = "free"
  BY <1>1 DEF SignalInv, Pending
<1> QED BY <1>2, <1>3, QuietStep

LEMMA TakeIsQuiet ==
  ASSUME SignalInv, NEW e, place' = [place EXCEPT ![e] = "taken"], UNCHANGED pending
  PROVE  Good
<1>1. place' \in [Event -> Where]
  BY DEF SignalInv, Where
<1>2. \A x \in OneTime : /\ place'[x] \in Pending => place[x] \in Pending
                         /\ place'[x] = "free" => place[x] = "free"
  BY DEF SignalInv, Pending
<1> QED BY <1>1, <1>2, QuietStep

\* An element that is not a resend event.
LEMMA OtherIsQuiet ==
  ASSUME SignalInv, NEW e, e \notin OneTime, NEW d, Create(e, d), UNCHANGED pending
  PROVE  Good
<1>1. place' = [place EXCEPT ![e] = "adding"]
  BY DEF Create
<1>2. place' \in [Event -> Where]
  BY <1>1 DEF SignalInv, Where
<1>3. \A x \in OneTime : place'[x] = place[x]
  BY <1>1 DEF SignalInv
<1> QED BY <1>2, <1>3, QuietStep

LEMMA SamePlaces ==
  ASSUME SignalInv, UNCHANGED <<place, pending>>
  PROVE  Good
BY QuietStep DEF SignalInv

\* The steps of the timer thread but for the resend handler.
LEMMA ThreadIsQuiet ==
  ASSUME SignalInv, UNCHANGED pending,
         Loop \/ WakeEmpty \/ WakeNext \/ Readd \/ (Deliver /\ te \notin OneTime)
  PROVE  Good
<1>1. ASSUME NEW w, Fetch(w) PROVE Good
  <2>1. UNCHANGED place \/ \E e \in Earliest(w) : place' = [place EXCEPT ![e] = "taken"]
    BY <1>1 DEF Fetch, WaitNext, Take
  <2> QED BY <2>1, SamePlaces, TakeIsQuiet
<1>2. CASE WaitEmpty
  BY <1>2, SamePlaces DEF WaitEmpty, listVars
<1>3. CASE Loop \/ WakeEmpty
  BY <1>1, <1>2, <1>3 DEF Loop, WakeEmpty
<1>4. CASE WakeNext
  BY <1>4, SamePlaces, TakeIsQuiet DEF WakeNext, Take, listVars
<1>5. CASE Readd
  BY <1>5, InsertIsQuiet DEF Readd
<1>6. CASE Deliver /\ te \notin OneTime
  BY <1>6, OtherIsQuiet DEF Deliver
<1> QED BY <1>3, <1>4, <1>5, <1>6

-----------------------------------------------------------------------------
\* A timer set anew is the only one of its job; those of other jobs stay.
LEMMA RenewStep ==
  ASSUME SignalInv, GlobalIsFree, NEW k \in EventKey, NEW gone,
         \A e \in gone : e \in ResendEvent(k), Renew(k, Matching(k) \cup gone),
         NEW how \in Signal \cup {NoSignal}, pending' = [pending EXCEPT ![k] = how],
         how = NoSignal => pending[k] = NoSignal
  PROVE  Good
<1> DEFINE free == Matching(k) \cup gone
<1>1. PICK e \in ResendEvent(k) :
        place' = [x \in Event |->
                    IF x = e THEN "adding" ELSE IF x \in free THEN "free" ELSE place[x]]
  BY DEF Renew
<1>2. e \in OneTime /\ e \in Event /\ KeyOf[e] = k /\ place'[e] = "adding"
  BY <1>1 DEF ResendEvent
<1>3. ASSUME NEW x \in OneTime, KeyOf[x] = k, x # e PROVE place'[x] \in {"free", "taken"}
  BY <1>1, <1>3 DEF SignalInv, Where, GlobalIsFree, Matching, Listed
<1>4. ASSUME NEW x \in OneTime, KeyOf[x] # k PROVE place'[x] = place[x]
  BY <1>1, <1>2, <1>4 DEF Matching, ResendEvent
<1>5. place' \in [Event -> Where]
  BY <1>1 DEF SignalInv, Where
<1>6. pending' \in [EventKey -> Signal \cup {NoSignal}]
  BY DEF SignalInv
<1>7. OneEach'
  BY <1>3, <1>4 DEF SignalInv, OneEach, Pending
<1>8. ASSUME NEW l \in EventKey PROVE ~Disarms(l) /\ ~Forgets(l)
  <2>1. CASE l = k
    <3>1. Armed(k)'
      BY <1>2 DEF Armed, ResendEvent
    <3>2. pending'[k] = NoSignal => pending[k] = NoSignal
      BY DEF SignalInv
    <3> QED BY <2>1, <3>1, <3>2 DEF Disarms, Forgets
  <2>2. CASE l # k
    BY <1>4, <2>2 DEF SignalInv, Disarms, Forgets, Armed, ResendEvent
  <2> QED BY <2>1, <2>2
<1> QED BY <1>5, <1>6, <1>7, <1>8 DEF Good, SignalInv

LEMMA SendSignalStep ==
  ASSUME SignalInv, NEW k \in EventKey, SendSignal(k)
  PROVE  Good
<1>1. PICK how \in Signal : SignalQueue(how, k, {})
  BY DEF SendSignal
<1>2. GlobalIsFree /\ how # NoSignal
  BY DEF SendSignal
<1> DEFINE gone == {}
<1>3. Renew(k, Matching(k) \cup gone) /\ pending' = [pending EXCEPT ![k] = how]
  BY <1>1 DEF SignalQueue, Rearm
<1>4. \A e \in gone : e \in ResendEvent(k)
  OBVIOUS
<1>5. how \in Signal \cup {NoSignal} /\ (how = NoSignal => pending[k] = NoSignal)
  BY <1>2
<1> HIDE DEF gone
<1> QED BY <1>2, <1>3, <1>4, <1>5, RenewStep, Zenon

LEMMA ResendStep ==
  ASSUME SignalInv, Resend
  PROVE  Good
<1> DEFINE k == KeyOf[te]
<1>1. te \in OneTime /\ te \in Event /\ k \in EventKey /\ GlobalIsFree
  BY DEF Resend
<1>2. CASE SignalQueue(pending[k], k, {te})
  <2>1. Renew(k, Matching(k) \cup {te}) /\ pending' = [pending EXCEPT ![k] = pending[k]]
    BY <1>2 DEF SignalQueue, Rearm
  <2>2. te \in ResendEvent(k) /\ pending[k] \in Signal \cup {NoSignal}
    BY <1>1 DEF ResendEvent, SignalInv
  <2>3. \A e \in {te} : e \in ResendEvent(k)
    BY <2>2
  <2>4. pending[k] = NoSignal => pending[k] = NoSignal
    OBVIOUS
  <2> HIDE DEF k
  <2> QED BY <1>1, <2>1, <2>2, <2>3, <2>4, RenewStep, Zenon
<1>3. CASE /\ Remove({te}) /\ UNCHANGED pending
           /\ timer = "deliver" /\ timer' = "loop"
  <2>1. place' = [e \in Event |-> IF e = te THEN "free" ELSE place[e]]
    BY <1>3 DEF Remove
  <2>2. SignalInv'
    BY <1>3, <2>1 DEF SignalInv, OneEach, Where, Pending
  <2>3. \A l \in EventKey : ~Disarms(l) /\ ~Forgets(l)
    BY <1>3 DEF Disarms, Forgets
  <2> QED BY <2>2, <2>3 DEF Good
<1> QED BY <1>2, <1>3 DEF Resend

LEMMA ReceiveSignalAckStep ==
  ASSUME SignalInv, NEW k \in EventKey, ReceiveSignalAck(k)
  PROVE  Good
<1>1. GlobalIsFree /\ pending' = [pending EXCEPT ![k] = NoSignal]
  BY DEF ReceiveSignalAck
<1>2. place' = [e \in Event |-> IF e \in Matching(k) THEN "free" ELSE place[e]]
  <2>1. CASE Matching(k) = {}
    BY <2>1 DEF ReceiveSignalAck, listVars, SignalInv
  <2>2. CASE Matching(k) # {}
    BY <2>2 DEF ReceiveSignalAck, Delete, Remove
  <2> QED BY <2>1, <2>2
<1>3. ASSUME NEW x \in OneTime, KeyOf[x] = k PROVE place'[x] \in {"free", "taken"}
  BY <1>1, <1>2, <1>3 DEF SignalInv, Where, GlobalIsFree, Matching, Listed
<1>4. ASSUME NEW x \in OneTime, KeyOf[x] # k PROVE place'[x] = place[x]
  BY <1>2, <1>4 DEF Matching
<1>5. SignalInv'
  BY <1>1, <1>2, <1>3, <1>4 DEF SignalInv, OneEach, Where, Pending
<1>6. ASSUME NEW l \in EventKey PROVE ~Disarms(l) /\ ~Forgets(l)
  BY <1>1, <1>3, <1>4 DEF SignalInv, Disarms, Forgets, Armed, ResendEvent
<1> QED BY <1>5, <1>6 DEF Good

LEMMA SignalStep ==
  ASSUME SignalInv, [SignalNext]_signalVars
  PROVE  Good
<1>1. CASE UNCHANGED signalVars
  BY <1>1, SamePlaces DEF signalVars, timerVars, listVars
<1>2. CASE OtherEvents /\ UNCHANGED pending
  <2>1. CASE Tick \/ SetBack
    BY <1>2, <2>1, SamePlaces DEF Tick, SetBack, listVars
  <2>2. ASSUME NEW e \in Event \ OneTime, AddEvent(e) PROVE Good
    BY <1>2, <2>2, OtherIsQuiet DEF AddEvent
  <2>3. ASSUME NEW e \in Event, Insert(e) PROVE Good
    BY <1>2, <2>3, InsertIsQuiet DEF Insert
  <2> QED BY <1>2, <2>1, <2>2, <2>3 DEF OtherEvents
<1>3. CASE ResendThread
  BY <1>3, ThreadIsQuiet, ResendStep DEF ResendThread
<1>4. ASSUME NEW k \in EventKey, ExecdSignals(k) \/ LoseSignals(k) PROVE Good
  BY <1>4, SamePlaces DEF ExecdSignals, LoseSignals, timerVars, listVars
<1> QED BY <1>1, <1>2, <1>3, <1>4, SendSignalStep, ReceiveSignalAckStep DEF SignalNext

-----------------------------------------------------------------------------
(* The start of a qmaster                                                    *)

\* Each pending signal gets one timer.
LEMMA InitSignalInv == SignalInit => SignalInv
<1> SUFFICES ASSUME SignalInit PROVE SignalInv
  OBVIOUS
<1>1. PICK rebuilt \in SUBSET OneTime : RebuildSignalEvents(rebuilt)
  BY DEF SignalInit
<1>2. place \in [Event -> Where] /\ \A e \in OneTime : place[e] \in Pending => e \in rebuilt
  BY <1>1 DEF RebuildSignalEvents, Where, Pending
<1>3. \A e, f \in rebuilt : KeyOf[e] = KeyOf[f] => e = f
  BY <1>1 DEF RebuildSignalEvents
<1> QED BY <1>2, <1>3 DEF SignalInit, SignalInv, OneEach

LEMMA InitArmed ==
  ASSUME SignalInit, NEW k \in EventKey, pending[k] # NoSignal
  PROVE  Armed(k)
<1>1. PICK rebuilt \in SUBSET OneTime : RebuildSignalEvents(rebuilt)
  BY DEF SignalInit
<1>2. PICK e \in rebuilt : KeyOf[e] = k
  BY <1>1 DEF RebuildSignalEvents
<1> QED BY <1>1, <1>2 DEF RebuildSignalEvents, Armed, ResendEvent

\* The timers were rebuilt before the timer thread runs.
LEMMA InitSignalTimerInv == SignalInit => TimerInv
<1> SUFFICES ASSUME SignalInit PROVE TimerInv
  OBVIOUS
<1>1. PICK rebuilt \in SUBSET OneTime : RebuildSignalEvents(rebuilt)
  BY DEF SignalInit
<1> DEFINE T == UNION {1 .. clock + d : d \in Delay}
<1>2. PICK time \in [rebuilt -> T] :
        /\ when = [e \in Event |-> IF e \in rebuilt THEN time[e] ELSE 0]
        /\ IF rebuilt = {} THEN next = 0 ELSE next \in {time[e] : e \in rebuilt}
  BY <1>1 DEF RebuildSignalEvents
<1>3. clock = 1 /\ \A w \in T : w \in Int /\ w > 0
  BY DEF SignalInit, NotStarted
<1> HIDE DEF T
<1>4. \A e \in rebuilt : time[e] \in Int /\ time[e] > 0
  BY <1>2, <1>3
<1>5. when \in [Event -> Int] /\ next \in Int /\ \A e \in rebuilt : when[e] > 0
  BY <1>2, <1>4
<1>6. due = when /\ place = [e \in Event |-> IF e \in rebuilt THEN "listed" ELSE "free"]
  BY <1>1 DEF RebuildSignalEvents
<1>7. TimerTypeOK
  <2>1. delete \in BOOLEAN /\ notified \in BOOLEAN
    BY DEF SignalInit, NotStarted
  <2>2. place \in [Event -> Where] /\ due \in [Event -> Int]
    BY <1>5, <1>6 DEF Where
  <2> QED BY <1>3, <1>5, <2>1, <2>2 DEF SignalInit, NotStarted, TimerTypeOK
<1>8. EmptyInv /\ NextInv /\ BusyInv
  BY DEF SignalInit, NotStarted, EmptyInv, NextInv, BusyInv
<1>9. Unnoticed = 0
  BY <1>3 DEF SignalInit, NotStarted, Unnoticed
<1>10. DueInv
  BY <1>5, <1>6, <1>9 DEF DueInv, Pending
<1> QED BY <1>7, <1>8, <1>10 DEF TimerInv

-----------------------------------------------------------------------------
(* The theorems                                                              *)

\* The inductive invariant: no two resend events of a job are to come.
THEOREM SignalInvHolds == SignalSpec => []SignalInv
<1>1. SignalInit => SignalInv
  BY InitSignalInv
<1>2. SignalInv /\ [SignalNext]_signalVars => SignalInv'
  BY SignalStep DEF Good
<1> QED BY <1>1, <1>2, PTL DEF SignalSpec

\* However often a job is signaled, and whenever its resend handler runs, at
\* most one timer is armed for it.
THEOREM TimersDoNotPileUp == SignalSpec => []OneTimerEach
<1>1. SignalInv => OneTimerEach
  <2> SUFFICES ASSUME SignalInv, NEW k \in EventKey
               PROVE  Cardinality({e \in ResendEvent(k) : place[e] \in Pending}) <= 1
    BY DEF OneTimerEach
  <2> DEFINE S == {e \in ResendEvent(k) : place[e] \in Pending}
  <2>1. \A e, f \in S : e = f
    BY DEF SignalInv, OneEach, ResendEvent
  <2>2. CASE S = {}
    BY <2>2, FS_EmptySet
  <2>3. CASE \E e : S = {e}
    <3>1. Cardinality(S) = 1
      BY <2>3, FS_Singleton
    <3> QED BY <3>1
  <2>4. S = {} \/ \E e : S = {e}
    BY <2>1
  <2> QED BY <2>2, <2>3, <2>4
<1> QED BY <1>1, SignalInvHolds, PTL

\* A signal that is pending when a qmaster starts has a timer; it keeps it
\* until it is acknowledged, or the resend handler cannot send it.
THEOREM SignalsStayArmed == SignalSpec => PendingStaysArmed
<1> DEFINE A == \A k \in EventKey :
                  pending'[k] # NoSignal /\ ~Armed(k)' =>
                    ~Armed(k) \/ (timer = "deliver" /\ timer' = "loop")
<1>1. SignalInv /\ [SignalNext]_signalVars => [A]_signalVars
  BY SignalStep DEF Good, Forgets
<1> DEFINE I == \A k \in EventKey : pending[k] # NoSignal => Armed(k)
<1>2. SignalInit => I
  BY InitArmed
<1>3. PendingStaysArmed <=> I /\ [][A]_signalVars
  BY DEF PendingStaysArmed
<1> HIDE DEF A, I
<1> QED BY <1>1, <1>2, <1>3, SignalInvHolds, PTL DEF SignalSpec

\* An acknowledgement leaves no timer behind but one that is being handled.
THEOREM AcksDisarm == SignalSpec => AckDisarms
<1> DEFINE A == \A k \in EventKey :
                  pending[k] # NoSignal /\ pending'[k] = NoSignal =>
                    \A e \in ResendEvent(k) : place'[e] \in {"free", "taken"}
<1>1. SignalInv /\ [SignalNext]_signalVars => [A]_signalVars
  BY SignalStep DEF Good, Disarms
<1>2. AckDisarms <=> [][A]_signalVars
  BY DEF AckDisarms
<1> HIDE DEF A
<1> QED BY <1>1, <1>2, SignalInvHolds, PTL DEF SignalSpec

-----------------------------------------------------------------------------
(* The timer thread under the resend handlers                                *)

\* Nothing of what is renewed is waited for without the thread being told.
LEMMA RenewKeepsTimer ==
  ASSUME TimerInv, NEW k \in EventKey, NEW gone, gone \cap Listed \subseteq Matching(k),
         Rearm(k, gone),
         UNCHANGED <<clock, setbacks, next, last, awaited>>,
         \/ UNCHANGED <<timer, te>>
         \/ timer = "deliver" /\ timer' = "readd" /\ te' \in Event
  PROVE  TimerInv'
<1> USE DEF TimerInv
<1> DEFINE free == Matching(k) \cup gone
<1>1. PICK e \in Event, d \in Nat :
        /\ place[e] = "free" \/ e \in free
        /\ place' = [x \in Event |-> IF x = e THEN "adding" ELSE IF x \in free THEN "free" ELSE place[x]]
        /\ when' = [x \in Event |-> IF x = e THEN clock + d ELSE IF x \in free THEN 0 ELSE when[x]]
        /\ due' = [x \in Event |-> IF x = e THEN clock + d - Unnoticed
                                    ELSE IF x \in free THEN 0 ELSE due[x]]
  BY DEF Rearm, Renew, ResendEvent
<1>2. \/ Matching(k) = {} /\ UNCHANGED <<delete, notified>>
      \/ delete' = TRUE /\ notified' = (timer \in Waiting)
  BY DEF Rearm, Notify
<1>3. delete' \in BOOLEAN /\ notified' \in BOOLEAN
  <2>1. CASE UNCHANGED <<delete, notified>>
    BY <2>1 DEF TimerTypeOK
  <2>2. CASE delete' = TRUE /\ notified' = (timer \in Waiting)
    BY <2>2
  <2> QED BY <1>2, <2>1, <2>2
<1>4. Unnoticed \in Int /\ Unnoticed' = Unnoticed
  BY DEF Unnoticed, TimerTypeOK
<1> HIDE DEF free
<1>5. place' \in [Event -> Where]
  BY <1>1 DEF TimerTypeOK, Where
<1>6. when' \in [Event -> Int] /\ due' \in [Event -> Int]
  BY <1>1, <1>4 DEF TimerTypeOK
<1>7. TimerTypeOK'
  BY <1>3, <1>5, <1>6 DEF TimerTypeOK
<1>8. /\ Listed' \subseteq Listed /\ \A x \in Listed' : when'[x] = when[x]
      /\ Matching(k) = {} => Listed' = Listed
  <2>1. \A x \in Listed' : x \in Listed /\ x # e
    BY <1>1 DEF Listed
  <2>2. \A x \in Listed' : when'[x] = when[x]
    BY <1>1, <2>1 DEF Listed
  <2>3. ASSUME Matching(k) = {}, NEW x \in Listed PROVE x \in Listed'
    BY <1>1, <2>3 DEF Listed, free, TimerTypeOK
  <2> QED BY <2>1, <2>2, <2>3
<1>9. EmptyInv' /\ BusyInv'
  BY <1>2, <1>8 DEF EmptyInv, BusyInv, Waiting
<1>10. NextInv'
  <2>1. CASE Matching(k) = {} /\ UNCHANGED <<delete, notified>>
    BY <1>8, <2>1 DEF NextInv, Listed
  <2>2. CASE delete' = TRUE /\ notified' = (timer \in Waiting)
    BY <1>8, <2>2 DEF NextInv, Waiting
  <2> QED BY <1>2, <2>1, <2>2
<1>11. DueInv'
  <2> SUFFICES ASSUME NEW x \in Event
               PROVE  /\ place'[x] \in Pending => due'[x] <= when'[x] - Unnoticed
                      /\ place'[x] = "adding" => when'[x] > 0
    BY <1>4 DEF DueInv
  <2>1. CASE x = e
    BY <1>1, <1>4, <2>1 DEF TimerTypeOK
  <2>2. CASE x # e
    BY <1>1, <2>2 DEF DueInv, Pending
  <2> QED BY <2>1, <2>2
<1> QED BY <1>7, <1>9, <1>10, <1>11

\* What the signals do to the timed events: a step of TimedEvent, or a renewal.
LEMMA SignalStepIsTimerStep ==
  ASSUME TimerInv, [SignalNext]_signalVars
  PROVE  /\ TimerInv'
         /\ timer # "deliver" /\ timer' = "deliver" => [TimerNext]_timerVars
<1>1. CASE [TimerNext]_timerVars
  BY <1>1, NextTimerInv
<1>2. ASSUME NEW k \in EventKey, SendSignal(k) PROVE TimerInv' /\ timer' = timer
  <2>1. Rearm(k, {}) /\ UNCHANGED <<clock, setbacks, next, last, timer, te, awaited>>
    BY <1>2 DEF SendSignal, SignalQueue, clockVars
  <2> DEFINE gone == {}
  <2>2. gone \cap Listed \subseteq Matching(k) /\ Rearm(k, gone)
    BY <2>1
  <2> HIDE DEF gone
  <2> QED BY <2>1, <2>2, RenewKeepsTimer
<1>3. CASE Resend
  <2> DEFINE k == KeyOf[te]
             gone == {te}
  <2>1. /\ timer = "deliver" /\ te \in OneTime /\ te \in Event /\ k \in EventKey
        /\ UNCHANGED <<clock, setbacks, next, last, awaited>>
    BY <1>3 DEF Resend, clockVars
  <2>2. CASE Rearm(k, gone) /\ timer' = "readd" /\ te' \in OneTime
    <3>1. gone \cap Listed \subseteq Matching(k)
      BY <2>1 DEF Matching
    <3> HIDE DEF k, gone
    <3> QED BY <2>1, <2>2, <3>1, RenewKeepsTimer
  <2>3. CASE Remove({te}) /\ timer' = "loop" /\ te' = NoEvent /\ UNCHANGED <<delete, notified>>
    <3>1. Deliver
      BY <2>1, <2>3 DEF Deliver, clockVars
    <3> QED BY <2>1, <3>1, <1>1 DEF TimerNext, TimerThread
  <2> QED BY <1>3, <2>1, <2>2, <2>3 DEF Resend, SignalQueue
<1>4. ASSUME NEW k \in EventKey, ReceiveSignalAck(k) PROVE [TimerNext]_timerVars
  <2>1. CASE Delete(k)
    BY <1>4, <2>1 DEF ReceiveSignalAck, DeleteEvent, TimerNext
  <2>2. CASE UNCHANGED <<listVars, delete, notified>>
    BY <1>4, <2>2 DEF ReceiveSignalAck, timerVars, threadVars
  <2> QED BY <1>4, <2>1, <2>2 DEF ReceiveSignalAck
<1>5. CASE OtherEvents \/ (ResendThread /\ ~Resend)
  BY <1>1, <1>5 DEF OtherEvents, ResendThread, TimerNext, TimerThread
<1>6. ASSUME NEW k \in EventKey, ExecdSignals(k) \/ LoseSignals(k) PROVE UNCHANGED timerVars
  BY <1>6 DEF ExecdSignals, LoseSignals
<1>7. CASE UNCHANGED signalVars
  BY <1>1, <1>7 DEF signalVars
<1> QED BY <1>1, <1>2, <1>3, <1>4, <1>5, <1>6, <1>7 DEF SignalNext, ResendThread

\* The invariant of the timed events holds with the signal handlers, too.
THEOREM TimerInvHoldsWithSignals == SignalSpec => []TimerInv
<1>1. SignalInit => TimerInv
  BY InitSignalTimerInv
<1>2. TimerInv /\ [SignalNext]_signalVars => TimerInv'
  BY SignalStepIsTimerStep
<1> QED BY <1>1, <1>2, PTL DEF SignalSpec

\* Handlers that delete and renew timers neither free the element that the
\* timer thread waits for nor make it sleep past another one.
THEOREM HandlersKeepTimerSafe == SignalSpec => [](AwaitedIsListed /\ NoOversleep)
<1>1. TimerInv => AwaitedIsListed /\ NoOversleep
  BY DEF TimerInv, NextInv, EmptyInv, AwaitedIsListed, NoOversleep
<1> QED BY <1>1, TimerInvHoldsWithSignals, PTL

-----------------------------------------------------------------------------
(* The numbers of load reports                                               *)

ProgramNumbers == Wrap = 10000 /\ OldRange = 9000 /\ High = 9990 /\ Low = 10

Number == 0 .. 9999

\* A report that is less than 1000 reports ahead of the last one is taken for a
\* new one (sge_c_report.c:137), also when the numbers have wrapped in between
\* (sge_report_execd.c:104): whatever got lost, a live execd is listened to.
THEOREM NewReportsAreAccepted ==
  ASSUME ProgramNumbers, lastSeqno \in Number, NEW ahead \in 1 .. 999
  PROVE  ~IsOld((lastSeqno + ahead) % Wrap)
<1>0. lastSeqno \in Int /\ 0 <= lastSeqno /\ lastSeqno <= 9999 /\ Wrap = 10000
  BY DEF ProgramNumbers, Number
<1>1. PICK x \in Int : x = lastSeqno + ahead
  BY <1>0
<1>2. CASE x < 10000
  <2>1. x % 10000 = x
    BY <1>0, <1>1, <1>2
  <2>2. lastSeqno < x
    BY <1>0, <1>1
  <2> QED BY <1>0, <1>1, <2>1, <2>2 DEF IsOld
<1>3. CASE x >= 10000
  <2>1. x % 10000 = x - 10000
    BY <1>0, <1>1, <1>3
  <2>2. lastSeqno - (x - 10000) > 9000
    BY <1>0, <1>1
  <2> QED BY <1>0, <1>1, <2>1, <2>2 DEF IsOld, ProgramNumbers
<1> QED BY <1>1, <1>2, <1>3

\* A report at most 9000 reports behind the last one is dropped, as "prevent old
\* reports being proceeded" (sge_c_report.c:132) asks, if the numbers have not
\* wrapped between the two.
THEOREM OldReportsAreDropped ==
  ASSUME ProgramNumbers, lastSeqno \in Number, NEW behind \in 1 .. 9000, behind <= lastSeqno
  PROVE  IsOld(lastSeqno - behind)
BY SMT DEF IsOld, ProgramNumbers, Number

\* But not if they have: such a report has the higher number, and is taken for
\* a new one although it is old.
THEOREM WrappedReportsAreTakenForNew ==
  ASSUME ProgramNumbers, lastSeqno \in Number, NEW behind \in 1 .. 9999, behind > lastSeqno
  PROVE  ~IsOld((lastSeqno - behind) % Wrap)
<1>1. \A x \in Int : x < 0 /\ x > -10000 => x % 10000 = x + 10000
  BY SMT
<1>2. lastSeqno \in Int /\ behind \in Int /\ 0 <= lastSeqno /\ behind <= 9999
  BY SMT DEF Number
<1>3. lastSeqno - behind \in Int /\ lastSeqno - behind < 0 /\ lastSeqno - behind > -10000
  BY <1>2, SMT
<1>4. (lastSeqno - behind) % 10000 = lastSeqno - behind + 10000
  BY <1>1, <1>3
<1>5. Wrap = 10000
  BY DEF ProgramNumbers
<1>6. lastSeqno - behind + 10000 > lastSeqno
  BY <1>2, SMT
<1> QED BY <1>2, <1>4, <1>5, <1>6, SMT DEF IsOld
=============================================================================
