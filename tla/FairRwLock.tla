----------------------------- MODULE FairRwLock -----------------------------
(***************************************************************************)
(* What sge_fifo_lock() and sge_fifo_ulock() promise their callers (the    *)
(* comment at sge_lock_fifo.c:130-156): readers share, a writer is alone,  *)
(* and those who have to wait are served first come, first served.         *)
(***************************************************************************)
EXTENDS Naturals, Sequences

CONSTANT Call

VARIABLES queue,     \* the waiting calls in order of arrival: <<call, is_reader>>
          readers,   \* the calls that hold the read lock
          writers    \* the calls that hold the write lock

vars == <<queue, readers, writers>>

Init == queue = <<>> /\ readers = {} /\ writers = {}

Free(r) == writers = {} /\ (r \/ readers = {})

Hold(c, r) ==
  /\ readers' = IF r THEN readers \cup {c} ELSE readers
  /\ writers' = IF r THEN writers ELSE writers \cup {c}

\* Nobody waits and the lock is free for this kind of call.
Enter(c, r) == queue = <<>> /\ Free(r) /\ Hold(c, r) /\ UNCHANGED queue

\* A call waits only if it must.
Join(c, r) ==
  /\ queue # <<>> \/ ~Free(r)
  /\ queue' = Append(queue, <<c, r>>)
  /\ UNCHANGED <<readers, writers>>

\* The lock goes to the longest waiter and to nobody else.
Grant ==
  /\ queue # <<>>
  /\ Free(queue[1][2])
  /\ Hold(queue[1][1], queue[1][2])
  /\ queue' = Tail(queue)

Leave(c) ==
  /\ c \in readers \cup writers
  /\ readers' = readers \ {c}
  /\ writers' = writers \ {c}
  /\ UNCHANGED queue

Next == \/ \E c \in Call : Leave(c) \/ \E r \in BOOLEAN : Enter(c, r) \/ Join(c, r)
        \/ Grant

Spec == Init /\ [][Next]_vars
=============================================================================
