------------------------------- MODULE MCLive -------------------------------
(* A small instance of JobProtocol with its fairness, and the scheduling     *)
(* runs that find the place for the jobs.  A behaviour is one of JobProtocol *)
(* or of ResourceDiagram; subject says which.                                *)
EXTENDS MCJobProtocol, MCResources

VARIABLE subject

liveVars == <<vars, resourceVars, subject>>

LiveInit ==
  /\ Init /\ ResourceInit
  /\ subject \in {"job", "diagrams"}
  /\ subject # "diagrams" => reserving

LiveNext ==
  /\ \/ subject = "job" /\ Next /\ UNCHANGED resourceVars
     \/ subject = "diagrams" /\ ResourceNext /\ UNCHANGED vars
  /\ UNCHANGED subject

\* The fairness of JobProtocol; nothing has to be booked.
Master(A) == subject = "job" /\ A /\ UNCHANGED evars
Execd(A) == subject = "job" /\ A /\ UNCHANGED mvars

LiveFairness ==
  /\ SF_vars(Master(ResendPops))
  /\ SF_vars(Master(ResendHandler))
  /\ SF_vars(Master(SignalResend))
  /\ WF_vars(Master(Bury))
  /\ \A h \in Host :
       /\ WF_vars(Master(MasterReceives(h)))
       /\ SF_vars(Master(ReceiveReport(h) /\ unknown' = unknown \ {h}))
       /\ WF_vars(Execd(ExecdLoop(h)))
       /\ SF_vars(Execd(ExecdLoop(h) /\ toExecd'[h] = <<>>))
       /\ SF_vars(Execd(SendReport(h)))
       /\ SF_vars(Execd(Reap(h)))
       /\ \A r \in Run : WF_vars(Execd(r \in killed[h] /\ ProcessEnds(h, r)))

LiveSpec == LiveInit /\ [][LiveNext]_liveVars /\ LiveFairness
=============================================================================
