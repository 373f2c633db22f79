----------------------------- MODULE MCProcesses -----------------------------
(* The processes a TUI runs and what it reads from them, on small instances:  *)
(* the managed sing-box, background workers, usability runs, the built-in     *)
(* probes with their isolated configs and manifests, sustained probes, and    *)
(* the ranking of what was measured.  The parts do not meet here, so a        *)
(* behaviour moves one of them, and they can share their variables.           *)
EXTENDS ManagedProcess, UsabilityRun, BackgroundWorkers, NodeRankingScan,
        SustainedProbe, BuiltinProbes, ProbeManifests

VARIABLES
    part,    \* what this behaviour is about
    x1, x2, x3, x4, x5, x6, x7, x8, x9, x10    \* the state of the isolated config

slots == <<x1, x2, x3, x4, x5, x6, x7, x8, x9, x10>>
mcVars == <<part, vars, runVars, bgVars, scanVars, susVars, bpVars, manVars, slots>>

Isolation == INSTANCE RuntimeConfig
             WITH Selectors <- {"s1", "s2"}, Nodes <- {"n1", "n2"}, Endpoints <- {"e1"},
                  Servers <- {"d1", "d2"}, Bootstrap <- "direct",
                  source <- x1, phase <- x2, walk <- x3, found <- x4, chosen <- x5,
                  dns <- x6, required <- x7, pending <- x8, servers <- x9, final <- x10
(* Sustained jobs of one node and facts of others, or of two nodes and none.  *)
OneNode == /\ \A j \in Ids : jobs'[j].asked \subseteq {"n1"}
           /\ \A t \in Targets : stored'["n2"][t] = 0
NoOthers == filed' = 0 /\ stream' = "none"

(* Known and unknown measurements, a node never tried, one that failed and    *)
(* one that succeeded half the time, and an ineligible one.                   *)
MCFact(t, q, w, s) ==
    [tier |-> t, quickOk |-> q[1], quickRounds |-> q[2], warm |-> w,
     p95 |-> Missing, cold |-> Missing, longOk |-> q[1], longTries |-> q[2],
     speed |-> s, order |-> 0]
MCFacts ==
    {MCFact(Reachable, q, w, Missing) : q \in {<<0, 0>>, <<0, 1>>, <<1, 2>>}, w \in {4, 5}}
    \cup {MCFact(Reachable, <<1, 2>>, w, 6) : w \in {4, 5}}
    \cup {MCFact(Degraded, <<1, 2>>, 4, 6)}

Parts == {"sing-box", "workers", "usability", "builtin", "manifests", "isolation", "shared",
          "alone", "ranking"}

-----------------------------------------------------------------------------
NoManifests == [f \in Files |-> [id |-> "not json"]]
(* The last file by path is a good one, whether the listing reaches it or not.    *)
LastManifest == [id |-> "a", fields |-> {"url"}, interval |-> FALSE, background |-> FALSE]
(* Schedules are checked one document at a time, so those of the first file do. *)
Plain(d) == d.id # "not json" => ~d.interval /\ ~d.background

MCInit ==
    /\ part \in Parts
    /\ Init /\ RunInit /\ BgInit
    /\ part # "sing-box" => platform = "sudo" /\ ~tun
    /\ part # "ranking" => /\ policy = "balanced" /\ included = {}
                            /\ known = [n \in Members |-> MCFact(Degraded, <<1, 2>>, 4, 6)]
    /\ ScanInit /\ SusInit
    /\ part # "builtin" => builtin = "streaming"
    /\ part # "manifests" => dir = NoManifests
    /\ BpInit /\ ManInit
    /\ part = "manifests" => dir[4] = LastManifest /\ \A f \in {2, 3} : Plain(dir[f])
    /\ part = "isolation" => Isolation!Init
    /\ part # "isolation" => /\ x1 = 0 /\ x2 = 0 /\ x3 = 0 /\ x4 = 0 /\ x5 = 0
                             /\ x6 = 0 /\ x7 = 0 /\ x8 = 0 /\ x9 = 0 /\ x10 = 0

MCNext ==
    /\ UNCHANGED part
    /\ \/ part = "sing-box" /\ Next
          /\ UNCHANGED <<runVars, bgVars, scanVars, susVars, bpVars, manVars, slots>>
       \/ part = "usability" /\ RunNext
          /\ UNCHANGED <<vars, bgVars, scanVars, susVars, bpVars, manVars, slots>>
       \/ part = "workers" /\ BgNext
          /\ UNCHANGED <<vars, runVars, scanVars, susVars, bpVars, manVars, slots>>
       \/ part = "ranking" /\ ScanNext
          /\ UNCHANGED <<vars, runVars, bgVars, susVars, bpVars, manVars, slots>>
       \/ /\ part \in {"shared", "alone"}
          /\ SusNext
          /\ part = "shared" => OneNode
          /\ part = "alone" => NoOthers
          /\ UNCHANGED <<vars, runVars, bgVars, scanVars, bpVars, manVars, slots>>
       \/ part = "builtin" /\ BpNext
          /\ UNCHANGED <<vars, runVars, bgVars, scanVars, susVars, manVars, slots>>
       \/ part = "manifests" /\ ManNext
          /\ UNCHANGED <<vars, runVars, bgVars, scanVars, susVars, bpVars, slots>>
       \/ part = "isolation" /\ Isolation!DocNext
          /\ UNCHANGED <<vars, runVars, bgVars, scanVars, susVars, bpVars, manVars>>

MCSpec == MCInit /\ [][MCNext]_mcVars

-----------------------------------------------------------------------------
(* The properties of the parts (each is stated and explained in its module).  *)

(* The isolated config is the least one closed under what its candidates      *)
(* need, its resolvers resolve, and a node is listed under the groups that    *)
(* lead to it.                                                                *)
IsolatedExactly == part = "isolation" => Isolation!IsolatedExactly
=============================================================================
