--------------------------- MODULE MCNetworkModes ---------------------------
(* What a TUI changes on disk and in the OS, on small instances: the network  *)
(* modes with crashes or with edits that race a toggle, the system-proxy      *)
(* settings themselves, the route rules and selector groups of the config,    *)
(* and the first open of the node-quality database.  The parts do not meet,   *)
(* so a behaviour moves one of them and leaves the others as they begin.      *)
EXTENDS NetworkModes, SystemProxySettings, DatabaseOpen

VARIABLES
    part,    \* what this behaviour is about
    rules, ruleSets, dnsRules, servers, endpoint, legacy, pushed, ruleEdits,
    groups, last, steps

ruleVars == <<rules, ruleSets, dnsRules, servers, endpoint, legacy, pushed, ruleEdits>>
groupVars == <<groups, last, steps>>

(* MaxFaults and MaxEdits of the .cfg bound both.                             *)
Killed == INSTANCE NetworkModes
          WITH Baseline <- TRUE, Crashes <- TRUE, RacingEdits <- FALSE

Race == INSTANCE NetworkModes
        WITH Baseline <- FALSE, Crashes <- FALSE, RacingEdits <- TRUE, MaxFaults <- 1

Routes == INSTANCE RouteRules
          WITH Networks <- {"n1", "n2"}, Hosts <- {"h1"}, MaxEdits <- 5, edits <- ruleEdits

Merge == INSTANCE SubscriptionMerge
         WITH OffersA <- {"n1", "n2"}, OffersB <- {"n3"}, MaxSteps <- 3, config <- groups

Parts == {"crash", "race", "proxy", "routes", "groups", "database"}

(* A part that is not the behaviour's stays as it begins.                     *)
MCInit ==
    /\ part \in Parts
    /\ Init
    /\ part \notin {"crash", "race"} => ~os /\ ~conf.managed /\ conf.auto = "disabled"
    /\ IF part = "routes" THEN Routes!RulesInit
       ELSE rules = 0 /\ ruleSets = 0 /\ dnsRules = 0 /\ servers = 0 /\ endpoint = 0
            /\ legacy = 0 /\ pushed = 0 /\ ruleEdits = 0
    /\ IF part = "groups" THEN Merge!MergeInit ELSE groups = 0 /\ last = 0 /\ steps = 0
    /\ ProxyInit
    /\ part # "proxy" => platform = "linux" /\ detected = CHOOSE s \in Servers : TRUE
    /\ DbInit
    /\ part # "database" => main.kind = "absent" /\ sidecars = {}

MCNext ==
    /\ UNCHANGED part
    /\ \/ /\ \/ part = "crash" /\ Killed!Next
             \/ part = "race" /\ Race!Next
          /\ UNCHANGED <<proxyVars, ruleVars, groupVars, dbVars>>
       \/ /\ part = "proxy" /\ ProxyNext
          /\ UNCHANGED <<vars, ruleVars, groupVars, dbVars>>
       \/ /\ part = "routes" /\ Routes!RulesNext
          /\ UNCHANGED <<vars, proxyVars, groupVars, dbVars>>
       \/ /\ part = "groups" /\ Merge!MergeNext
          /\ UNCHANGED <<vars, proxyVars, ruleVars, dbVars>>
       \/ /\ part = "database" /\ DbNext
          /\ UNCHANGED <<vars, proxyVars, ruleVars, groupVars>>

mcVars == <<part, vars, proxyVars, ruleVars, groupVars, dbVars>>
MCSpec == MCInit /\ [][MCNext]_mcVars

-----------------------------------------------------------------------------
(* The properties of the parts (each is stated and explained in its module).  *)

(* Route rules name only what the config has and none hides another; the      *)
(* selectors of a refresh list exactly the payloads, with defaults that are   *)
(* members; and the same edit made twice changes nothing the second time.     *)
ConfigEditsSound == /\ part = "routes" => Routes!RulesSound
                    /\ part = "groups" => Merge!GroupsSound
(* A refresh leaves the nodes of others, and where they are listed.           *)
OthersKept == [][part = "groups" => Merge!KeepsOthers]_groupVars
=============================================================================
