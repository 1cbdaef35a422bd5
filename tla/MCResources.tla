----------------------------- MODULE MCResources -----------------------------
(* Small instances of ResourceDiagram: a queue with three slots on a host    *)
(* with two units of memory.                                                 *)
EXTENDS ResourceDiagram

\* Bookings that overlap, touch and end together; one job has overrun its
\* time, and two last for ever.
Use(start, duration, slots, mem) ==
  [start |-> start, duration |-> duration, amount |-> [slots |-> slots, mem |-> mem]]
TotalOf == [slots |-> 3, mem |-> 2]
Reservations == {Use(2, 3, 1, 1), Use(5, 1, 2, 1), Use(3, 2, 1, 0)}
RunningJobs == {Use(1, 1, 1, 0), Use(2, 9, 1, 1), Use(2, 3, 2, 1)}
PendingJobs == {Use(3, 2, 1, 1), Use(5, 9, 1, 0), Use(4, 1, 2, 1), Use(6, 1, 1, 2)}
\* Off till 5, then on
Calendars == {<<[full |-> TRUE, till |-> 5], [full |-> FALSE, till |-> 0]>>}
=============================================================================
