--------------------------- MODULE MCPrivateAccess ---------------------------
(* Private Access on small instances: the sessions between the TUI and its    *)
(* service processes, the privileged tunnel helper and its split DNS, the two *)
(* Hillstone data planes, the SonicWall logon and tunnel bootstrap, and the   *)
(* address plans.  The parts do not meet here, so a behaviour moves one of    *)
(* them, and those that are instances share their variables.                  *)
EXTENDS PrivateAccess, SonicwallAuth, HillstoneSession, EspBridge, TunHelper

VARIABLES
    part,    \* what this behaviour is about
    y1, y2, y3, y4, y5, y6, y7, y8, y9, y10, y11, y12    \* the state of the other parts

slots == <<y1, y2, y3, y4, y5, y6, y7, y8, y9, y10, y11, y12>>
mcVars == <<part, vars, swVars, hsVars, espVars, tunVars, slots>>

Bootstrap == INSTANCE EvpnBootstrap
             WITH Ids <- {1, 2}, MaxPieces <- 4, ControlLimit <- 3, MaxAttempts <- 2,
                  wire <- y1, open <- y2, arrived <- y3, drained <- y4, fragments <- y5,
                  phase <- y6, attempt <- y7, sent <- y8, seen <- y9, frames <- y10,
                  tun <- y11, since <- y12
Config == INSTANCE EvpnConfig
          WITH Pads <- {0, 1}, MaxList <- 2,
               source <- y1, layout <- y2, pad <- y3, result <- y4
Plan == INSTANCE AddressPlans
        WITH Bits <- 4, Labels <- {"a", "b"},
             kind <- y1, first <- y2, last <- y3, routes <- y4, servers <- y5, tunnel <- y6,
             system <- y7

Parts == {"sessions", "tunnel", "bridge", "hillstone", "bootstrap", "config", "logon", "plan"}

-----------------------------------------------------------------------------
(* What a part with that many variables leaves alone.                         *)
After4 == <<y5, y6, y7, y8, y9, y10, y11, y12>>
After7 == <<y8, y9, y10, y11, y12>>

Extended == {"sessions", "hillstone", "logon", "bridge", "tunnel"}

MCInit ==
    /\ part \in Parts
    /\ Init /\ LogonInit /\ VpnInit /\ EspInit /\ TunInit
    /\ part # "sessions" => \A p \in Profiles : kind[p] = "sonicwall"
    /\ part # "hillstone" => mode = "none" /\ ~applies
    /\ part # "bridge" => nextPort = 1
    /\ part # "tunnel" => files = [n \in Paths |-> NoFile]
    /\ CASE part \in Extended -> y1 = 0 /\ y2 = 0 /\ y3 = 0 /\ y4 = 0
         [] part = "bootstrap" -> Bootstrap!Init
         [] part = "config" -> Config!Init
         [] part = "plan" -> Plan!Init
    /\ part \in Extended \cup {"config"} => y5 = 0 /\ y6 = 0 /\ y7 = 0
    /\ part \in Extended \cup {"config", "plan"} => y8 = 0 /\ y9 = 0 /\ y10 = 0
    /\ part # "bootstrap" => y11 = 0 /\ y12 = 0

MCNext ==
    /\ UNCHANGED part
    /\ \/ part = "sessions" /\ Next /\ UNCHANGED <<swVars, hsVars, espVars, tunVars, slots>>
       \/ part = "logon" /\ SwNext /\ UNCHANGED <<vars, hsVars, espVars, tunVars, slots>>
       \/ part = "hillstone" /\ HsNext /\ UNCHANGED <<vars, swVars, espVars, tunVars, slots>>
       \/ part = "bridge" /\ EspNext /\ UNCHANGED <<vars, swVars, hsVars, tunVars, slots>>
       \/ part = "tunnel" /\ TunNext /\ UNCHANGED <<vars, swVars, hsVars, espVars, slots>>
       \/ /\ UNCHANGED <<vars, swVars, hsVars, espVars, tunVars>>
          /\ \/ part = "bootstrap" /\ Bootstrap!EvpnNext
             \/ part = "config" /\ Config!CfgNext /\ UNCHANGED After4
             \/ part = "plan" /\ Plan!PlanNext /\ UNCHANGED After7

MCSpec == MCInit /\ [][MCNext]_mcVars

-----------------------------------------------------------------------------
(* The properties of the parts (each is stated and explained in its module).  *)

(* What the gateway sends is used exactly: frames are reassembled intact, no  *)
(* packet behind the CLIENT_CONFIG is lost, each step of the exchange is made *)
(* once, the configuration is read back exactly, and what was pushed is       *)
(* routed and resolved through the tunnel, no more.                           *)
ConfigurationExact == /\ part = "bootstrap" => Bootstrap!BootstrapExact
                      /\ part = "config" => Config!ConfigExact
                      /\ part = "plan" => Plan!PlansExact
=============================================================================
