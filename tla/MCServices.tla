----------------------------- MODULE MCServices -----------------------------
(* Small instances of the event master and of the shadow daemons.  A         *)
(* behaviour is one of EventDelivery or one of Failover; subject says which. *)
EXTENDS MCEvents, Failover

VARIABLE subject

servicesVars == <<eventVars, failoverVars, subject>>

ServicesInit ==
  /\ EventInit /\ FailoverInit
  /\ subject = "events" \/ (subject = "failover" /\ scheduling = "off")

ServicesNext ==
  /\ \/ subject = "events" /\ EventsNext /\ UNCHANGED failoverVars
     \/ subject = "failover" /\ FailoverNext /\ UNCHANGED eventVars
  /\ UNCHANGED subject

\* The fairness of the two.
ServicesFairness ==
  /\ WF_eventVars(subject = "events" /\ AddEvent)
  /\ WF_eventVars(subject = "events" /\ Deliverer)
  /\ SF_eventVars(subject = "events" /\ ScheddIsServed)
  /\ WF_eventVars(subject = "events" /\ SchedulerThread)
  /\ \A h \in Host :
       /\ WF_failoverVars(subject = "failover" /\ QmasterRuns(h))
       /\ WF_failoverVars(subject = "failover" /\ ShadowRuns(h))

ServicesSpec == ServicesInit /\ [][ServicesNext]_servicesVars /\ ServicesFairness
=============================================================================
