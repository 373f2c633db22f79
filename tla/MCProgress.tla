------------------------------ MODULE MCProgress ------------------------------
(* What has to come to an end, on small instances: an executable usability    *)
(* probe, a session of the node runtime manager, and a subscription refresh   *)
(* with the reload it owes.  The parts do not meet here, so a behaviour moves *)
(* one of them.  Their properties are those of their modules: in the other    *)
(* parts a state stands still at its beginning.                               *)
EXTENDS NodeRuntimes, SubscriptionRefresh, ProbeProgram

VARIABLE part    \* what this behaviour is about

mcVars == <<part, nrVars, refreshVars, procVars>>

MCInit ==
    /\ part \in {"program", "manager", "refresh"}
    /\ Init /\ RefreshInit /\ ProcInit

MCNext ==
    /\ UNCHANGED part
    /\ \/ part = "program" /\ ProcNext /\ UNCHANGED <<nrVars, refreshVars>>
       \/ part = "manager" /\ NrNext /\ UNCHANGED <<refreshVars, procVars>>
       \/ part = "refresh" /\ RefreshNext /\ UNCHANGED <<nrVars, procVars>>

(* The fairness of each part, as its module states and explains it.           *)
Probing == Interrupt \/ TakeLine \/ LinesEnd \/ LeaderGone \/ Kill \/ Reap
Fairness ==
    /\ WF_procVars(part = "program" /\ ReadLine)
    /\ WF_procVars(part = "program" /\ ReadEof)
    /\ WF_procVars(part = "program" /\ Probing)
    /\ WF_procVars(part = "program" /\ Deadline)
    /\ \A q \in 1 .. 3 : WF_nrVars(part = "manager" /\ Step(q))
    /\ \A i \in 1 .. 2 : WF_nrVars(part = "manager" /\ ~rt[i].stdin /\ ChildEnds(i))
    /\ WF_refreshVars(part = "refresh" /\ RunStep("tui"))
    /\ WF_refreshVars(part = "refresh" /\ Poll)
    /\ WF_refreshVars(part = "refresh" /\ Reload)
    /\ WF_refreshVars(part = "refresh" /\ RetryDue)
    /\ WF_refreshVars(part = "refresh" /\ TransitionEnds)

MCSpec == MCInit /\ [][MCNext]_mcVars /\ Fairness
=============================================================================
