------------------------------ MODULE MCEvents ------------------------------
(* Small instances of EventDelivery: clients outside the qmaster, or the     *)
(* scheduler without them.                                                   *)
EXTENDS EventDelivery

NobodyOutside == \A c \in Client : ec[c].id = 0

EventsNext == EventNext /\ (scheduling # "off" => NobodyOutside')

EventsSpec == EventInit /\ [][EventsNext]_eventVars /\ EventFairness
=============================================================================
