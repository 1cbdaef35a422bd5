---------------------------- MODULE MCJobProtocol ----------------------------
(* Small instances of JobProtocol.                                           *)
EXTENDS JobProtocol, TLC

CONSTANTS h1, h2

HostSymmetry == Permutations({h1, h2})

\* The host has nothing to do with the job.
Untouched(h) ==
  /\ toExecd[h] = <<>> /\ toMaster[h] = <<>>
  /\ task[h] = NoTask /\ jrs[h] = <<>> /\ alive[h] = {}
  /\ h \notin unknown /\ ru[h] = <<>>

\* Up to MaxRun runs and MaxMsg messages on one host, or two runs and one
\* message for each host on both.
OneHostOrShort ==
  \/ \E h \in Host : Untouched(h)
  \/ ja.run <= 2 /\ \A h \in Host : Len(toExecd[h]) + Len(toMaster[h]) <= 1
=============================================================================
