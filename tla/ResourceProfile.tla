--------------------------- MODULE ResourceProfile ---------------------------
(***************************************************************************)
(* What the resource diagrams promise the scheduler: at each time as much  *)
(* of a resource is in use as the bookings that cover this time take of    *)
(* it.                                                                     *)
(***************************************************************************)
EXTENDS Integers

CONSTANTS Resource,
          Reservation, RunningJob, PendingJob,   \* bookings: [start, duration, amount]
          Now,
          Infinity

VARIABLE profile   \* the amount of each resource in use at each time

Time == 1..(Infinity - 1)

Till(b) == IF b.start + b.duration < Infinity THEN b.start + b.duration ELSE Infinity

\* The resources R are used by sign * amount more from start till end.
Change(R, start, end, sign, amount) ==
  profile' = [r \in Resource |-> [t \in Time |->
    IF r \in R /\ start <= t /\ t < end
      THEN profile[r][t] + sign * amount[r]
      ELSE profile[r][t]]]

Init == profile = [r \in Resource |-> [t \in Time |-> 0]]

\* Advance reservations come and go.
Reserve == \E b \in Reservation, sign \in {1, -1} :
             Change(Resource, b.start, Till(b), sign, b.amount)

\* A running job is there at least until now, however long it should have
\* taken.  What a job takes may be left out of resources for which nothing was
\* ever booked.
Run == \E b \in RunningJob, R \in SUBSET Resource, end \in Time \cup {Infinity} :
         /\ IF Till(b) > Now THEN end = Till(b) ELSE end > Now
         /\ Change(R, b.start, end, 1, b.amount)

Decide == \E b \in PendingJob, R \in SUBSET Resource :
            Change(R, b.start, Till(b), 1, b.amount)

Spec == Init /\ [][Reserve \/ Run \/ Decide]_profile
=============================================================================
