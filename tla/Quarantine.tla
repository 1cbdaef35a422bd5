------------------------------ MODULE Quarantine ------------------------------
(***************************************************************************)
(* What the reschedule unknown lists promise of a host that a job was      *)
(* taken from, whatever gets lost, late or reported twice: the host gets   *)
(* the job again only after two more of its reports have been read, the    *)
(* last of them one that does not name the job, and what it reports until  *)
(* then has no effect on the job.                                          *)
(***************************************************************************)
EXTENDS Naturals, Sequences

CONSTANTS Host, NoHost

VARIABLES host,   \* the host that has the job, or NoHost
          over,   \* the job has ended
          waits,  \* host -> reports that have to be read, at least
          mail    \* host -> its messages that are not read, in their order

quarantineVars == <<host, over, waits, mail>>

Kinds == {"names", "silent", "other"}

QuarantineInit ==
  /\ host = NoHost /\ over = FALSE
  /\ waits = [h \in Host |-> 0]
  /\ mail = [h \in Host |-> <<>>]

\* The three things that happen to the job.
GivenTo(h) ==
  /\ host = NoHost /\ ~over /\ waits[h] = 0
  /\ host' = h
  /\ UNCHANGED <<over, waits>>

TakenAway ==
  /\ host \in Host
  /\ host' = NoHost
  /\ waits' = [waits EXCEPT ![host] = 2]
  /\ UNCHANGED over

Ended ==
  /\ ~over /\ over' = TRUE
  /\ host' = NoHost
  /\ waits' \in [Host -> 0..2] /\ \A h \in Host : waits'[h] <= waits[h]

JobMoves == (TakenAway \/ Ended \/ \E h \in Host : GivenTo(h)) /\ UNCHANGED mail

\* A report of a host that has to wait is counted, and one that names the job
\* is never the last that counts.
Counted(h, kind) ==
  /\ waits[h] > 0
  /\ \/ kind = "silent" /\ waits' = [waits EXCEPT ![h] = @ - 1]
     \/ kind = "names" /\ waits' \in {[waits EXCEPT ![h] = n] : n \in {1, 2}}
  /\ UNCHANGED <<host, over>>

Read(h) ==
  /\ mail[h] # <<>>
  /\ mail' = [mail EXCEPT ![h] = Tail(@)]
  /\ \/ Counted(h, Head(mail[h]))
     \/ waits[h] = 0 /\ Head(mail[h]) = "names" /\ (TakenAway \/ Ended)
     \/ waits[h] = 0 /\ UNCHANGED <<host, over, waits>>
     \/ Head(mail[h]) = "other" /\ UNCHANGED <<host, over, waits>>

Posted(h) ==
  /\ \E kind \in Kinds : mail' = [mail EXCEPT ![h] = Append(@, kind)]
  /\ UNCHANGED <<host, over, waits>>

Lost(h) == mail' = [mail EXCEPT ![h] = <<>>] /\ UNCHANGED <<host, over, waits>>

QuarantineNext == JobMoves \/ \E h \in Host : Read(h) \/ Posted(h) \/ Lost(h)
QuarantineSpec == QuarantineInit /\ [][QuarantineNext]_quarantineVars
=============================================================================
