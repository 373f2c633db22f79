-------------------------- MODULE MCTransferGuard --------------------------
(* AutoSelection under load.  A behaviour belongs to one of three scenarios:  *)
(* the rounds and switches of one worker process, with what the user sets     *)
(* held still; processes and panels that come and go with no round under way; *)
(* or settings that do, with no connection open.  The session stays current.  *)
EXTENDS MCAutoSelection

VARIABLE scenario
mcVars == <<scenario, vars>>

Held == /\ scenario = "rounds" => UNCHANGED <<panel, setting>> /\ (cfg.enabled => cfg' = cfg)
        /\ scenario = "panels" => UNCHANGED <<setting, jobs>>
        /\ scenario = "settings" => UNCHANGED <<panel, conns, jobs>>
        /\ UNCHANGED valid

MCInit ==
    /\ scenario \in {"rounds", "panels", "settings"}
    /\ Init
    /\ scenario # "panels" => panel.nodes = Nodes

MCNext == Next /\ Held /\ UNCHANGED scenario
MCSpec == MCInit /\ [][MCNext]_mcVars
=============================================================================
