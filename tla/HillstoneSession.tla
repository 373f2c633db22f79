--------------------------- MODULE HillstoneSession ---------------------------
(***************************************************************************)
(* A Hillstone VPN session (hillstone.rs, run_hillstone_probe): TLS        *)
(* control channel, network setup pushed by the gateway, key agreement,    *)
(* then one data plane until shutdown, and a logout.  The gateway is       *)
(* external: it may refuse, skip or repeat frames, push part of a setup,   *)
(* or close the channel.  A field of the setup is represented by the       *)
(* number of the frame that carried it, 0 when it is absent.               *)
(***************************************************************************)
EXTENDS Naturals, Sequences, FiniteSets

CONSTANTS MaxFrames,  \* frames of the network setup
          MaxErrors   \* I/O errors on our side

Modes == {"bridge", "tun", "tcp_probe", "icmp_probe", "http_get", "none"}
SetIpFields == {"udp_port", "client_ip", "gateway_ip"}

VARIABLES mode,     \* options: which data plane
          applies,  \* options: write pushed routes to the config
          vpnPhase,    \* where run_hillstone_probe is
          setup,    \* field of NetworkSetup -> frame it came with
          frames,   \* network frames read
          keys,     \* NEW_KEY answer: "none", "esp" or an algorithm that is not supported
          gateway,  \* the session as the gateway keeps it
          applied,  \* routes were written to the config file
          announced,   \* the states the service announces, in order
          tunUp,    \* the TUN helper runs
          stopping, \* shutdown flag
          result,   \* outcome of the data plane
          errors

hsVars == <<mode, applies, vpnPhase, setup, frames, keys, gateway, applied, announced, tunUp, stopping, result, errors>>

VpnInit == /\ mode \in Modes /\ applies \in BOOLEAN
        /\ vpnPhase = "connect" /\ setup = [f \in SetIpFields \cup {"route"} |-> 0] /\ frames = 0 /\ keys = "none"
        /\ gateway = "none" /\ applied = FALSE /\ announced = <<"connecting">> /\ tunUp = FALSE
        /\ stopping = FALSE /\ result = "none" /\ errors = 0

-----------------------------------------------------------------------------
Error == errors < MaxErrors /\ errors' = errors + 1
Options == <<mode, applies>>
Network == <<setup, frames>>

\* The error leaves run_hillstone_probe; the TLS stream is closed by its drop, without a logout.
Fails == /\ vpnPhase' = "failing"
         /\ UNCHANGED <<Options, Network, keys, gateway, applied, tunUp, stopping, result>>

\* connect_tls, read_password.  The service has announced "connecting" before it starts the run.
Connect ==
    /\ vpnPhase = "connect"
    /\ \/ /\ vpnPhase' = "auth" /\ announced' = Append(announced, "connecting")
          /\ UNCHANGED <<Options, Network, keys, gateway, applied, tunUp, stopping, result, errors>>
       \/ Error /\ Fails /\ announced' = Append(announced, "connecting")

\* A frame with a nonzero status, a broken frame or a closed channel is an error.  The
\* session that was accepted is announced as connecting once more; when that event cannot
\* be written the gateway has a session nobody uses.
Auth ==
    /\ vpnPhase = "auth"
    /\ \/ /\ vpnPhase' = "client_info" /\ gateway' = "authenticated"
          /\ announced' = Append(announced, "connecting")
          /\ UNCHANGED <<Options, Network, keys, applied, tunUp, stopping, result, errors>>
       \/ Error /\ Fails /\ UNCHANGED announced
       \/ /\ Error /\ vpnPhase' = "failing" /\ gateway' = "authenticated"
          /\ UNCHANGED <<Options, Network, keys, applied, announced, tunUp, stopping, result>>

ClientInfo ==
    /\ vpnPhase = "client_info"
    /\ \/ /\ vpnPhase' = "network"
          /\ UNCHANGED <<Options, Network, keys, gateway, applied, announced, tunUp, stopping, result, errors>>
       \/ Error /\ Fails /\ UNCHANGED announced

\* Fault: a later SET_IP adds to the address of an earlier one.
BugSetIp(fields) == [f \in DOMAIN setup |-> IF f \in fields THEN frames + 1 ELSE setup[f]]

\* SET_IP replaces every address field, those it does not carry are cleared.
SetIp(fields) == [f \in DOMAIN setup |-> IF f = "route" THEN setup[f]
                                         ELSE IF f \in fields THEN frames + 1 ELSE 0]

\* wait_network_setup: SET_IP, SET_ROUTE and others in any order until KEY_DONE.
NetworkFrame ==
    /\ vpnPhase = "network" /\ frames < MaxFrames /\ frames' = frames + 1
    /\ \/ \E fields \in SUBSET SetIpFields : setup' = SetIp(fields)
       \/ setup' = [setup EXCEPT !["route"] = frames + 1]
       \/ UNCHANGED setup
    /\ UNCHANGED <<Options, vpnPhase, keys, gateway, applied, announced, tunUp, stopping, result, errors>>

\* KEY_DONE: the routes are announced, and written to the config when asked for.
KeyDone ==
    /\ vpnPhase = "network"
    /\ announced' = Append(announced, "routes")
    /\ LET writes == applies /\ mode = "bridge" /\ setup["route"] # 0
       IN \/ /\ vpnPhase' = "new_key" /\ applied' = writes
             /\ UNCHANGED <<Options, Network, keys, gateway, tunUp, stopping, result, errors>>
          \/ writes /\ Error /\ Fails

ServerDisconnect ==
    /\ vpnPhase = "network" /\ Error /\ Fails /\ UNCHANGED announced

\* Fault: a TUN session is announced before its device is up, and again after.
BugAnnounces == TRUE

Announces == mode # "tun"

\* NEW_KEY; "connected" is announced at once unless a TUN device has to come up first.
\* An event that cannot be written ends the run here, before the logout.
NewKey ==
    /\ vpnPhase = "new_key"
    /\ \/ \E k \in {"esp", "other"} :
             /\ keys' = k /\ vpnPhase' = "data"
             /\ gateway' = "tunnel"
             /\ announced' = IF Announces THEN Append(announced, "connected") ELSE announced
             /\ UNCHANGED <<Options, Network, applied, tunUp, stopping, result, errors>>
       \/ Error /\ Fails /\ UNCHANGED announced
       \/ /\ Error /\ vpnPhase' = "failing" /\ keys' = "esp" /\ gateway' = "tunnel"
          /\ UNCHANGED <<Options, Network, applied, announced, tunUp, stopping, result>>

-----------------------------------------------------------------------------
(* The data plane.  Its errors end it; the logout is sent all the same.    *)

Needed == CASE mode = "tun" -> SetIpFields [] mode = "bridge" -> SetIpFields
            [] mode = "icmp_probe" -> SetIpFields
            [] mode \in {"tcp_probe", "http_get"} -> {"udp_port", "client_ip"} [] OTHER -> {}

\* The fields each data plane asks for, and the algorithms EspSession supports.
Usable == (\A f \in Needed : setup[f] # 0) /\ keys = "esp"

StartData ==
    /\ vpnPhase = "data"
    /\ \/ /\ mode = "none" /\ vpnPhase' = "logout" /\ result' = "ok"
          /\ UNCHANGED <<announced, tunUp, errors>>
       \/ /\ mode # "none" /\ ~Usable /\ vpnPhase' = "logout" /\ result' = "error"
          /\ UNCHANGED <<announced, tunUp, errors>>
       \/ /\ mode = "tun" /\ Usable /\ vpnPhase' = "loop" /\ tunUp' = TRUE
          /\ announced' = Append(announced, "connected") /\ UNCHANGED <<result, errors>>
       \/ /\ mode \notin {"tun", "none"} /\ Usable /\ vpnPhase' = "loop"
          /\ UNCHANGED <<announced, tunUp, result, errors>>
       \/ /\ mode # "none" /\ Usable /\ Error /\ vpnPhase' = "logout" /\ result' = "error"
          /\ UNCHANGED <<announced, tunUp>>
    /\ UNCHANGED <<Options, Network, keys, gateway, applied, stopping>>

\* Ctrl-C or the service's shutdown flag; only the loops look at it.
Shutdown ==
    /\ ~stopping /\ stopping' = TRUE
    /\ UNCHANGED <<Options, vpnPhase, Network, keys, gateway, applied, announced, tunUp, result, errors>>

ProbeEnds(m, outcome) ==
    /\ vpnPhase = "loop" /\ mode = m
    /\ vpnPhase' = "logout" /\ result' = outcome
    /\ UNCHANGED <<Options, Network, keys, gateway, applied, announced, tunUp, stopping, errors>>

\* One echo request; silence is reported, not an error.
IcmpProbe == ProbeEnds("icmp_probe", "ok")

\* A SYN per second until a matching SYN-ACK; a reset, any other packet and the
\* deadline fail the probe.
TcpProbe == \E outcome \in {"ok", "error"} : ProbeEnds("tcp_probe", outcome)

\* One request over EspBridge; only status 200 succeeds.
HttpGet == \E outcome \in {"ok", "error"} : ProbeEnds("http_get", outcome)

\* The shutdown flag ends the loop; stop() takes the helper down.
EndLoop ==
    /\ vpnPhase = "loop" /\ mode \in {"tun", "bridge"} /\ stopping
    /\ vpnPhase' = "logout" /\ result' = "ok" /\ tunUp' = FALSE
    /\ UNCHANGED <<Options, Network, keys, gateway, applied, announced, stopping, errors>>

\* A socket, helper or keepalive error; the helper goes with its drop.
LoopFails ==
    /\ vpnPhase = "loop" /\ Error
    /\ vpnPhase' = "logout" /\ result' = "error" /\ tunUp' = FALSE
    /\ UNCHANGED <<Options, Network, keys, gateway, applied, announced, stopping>>

\* Fault: an error of the data plane is returned before the logout.
BugLogsOut == result = "ok"

LogsOut == TRUE

Logout ==
    /\ vpnPhase = "logout"
    /\ \/ /\ gateway' = IF LogsOut THEN "logged_out" ELSE gateway
          /\ vpnPhase' = IF result = "ok" THEN "done" ELSE "failing"
          /\ announced' = IF result = "ok" THEN Append(announced, "disconnected") ELSE announced
          /\ UNCHANGED <<Options, Network, keys, applied, tunUp, stopping, result, errors>>
       \/ /\ Error /\ vpnPhase' = "failing" /\ result' = "lost"
          /\ UNCHANGED <<Options, Network, keys, gateway, applied, announced, tunUp, stopping>>

\* The service's thread announces the error of a failed run; an event it cannot write is given up.
RunFailed ==
    /\ vpnPhase = "failing" /\ vpnPhase' = "failed"
    /\ announced' \in {announced, Append(announced, "error")}
    /\ UNCHANGED <<Options, Network, keys, gateway, applied, tunUp, stopping, result, errors>>

\* The control channel closes; the gateway forgets a session that was not keyed.
ChannelClosed ==
    /\ vpnPhase \in {"done", "failing", "failed"} /\ gateway = "authenticated"
    /\ gateway' = "expired"
    /\ UNCHANGED <<Options, vpnPhase, Network, keys, applied, announced, tunUp, stopping, result, errors>>

HsNext == \/ Connect \/ Auth \/ ClientInfo \/ NetworkFrame \/ KeyDone \/ ServerDisconnect \/ NewKey
          \/ StartData \/ IcmpProbe \/ TcpProbe \/ HttpGet \/ Shutdown \/ EndLoop \/ LoopFails \/ Logout \/ RunFailed \/ ChannelClosed

VpnSpec == VpnInit /\ [][HsNext]_hsVars

-----------------------------------------------------------------------------
\* A session that reached its data plane is logged out on every way out of it,
\* so the gateway does not keep it until it expires, unless the logout itself could
\* not be written (run_hillstone_probe, the comment at the end of run_udp_http_proxy).
NoOrphanSession ==
    vpnPhase \in {"done", "failing", "failed"} /\ result # "none" /\ gateway = "tunnel" => result = "lost"

\* While packets are forwarded the addresses used are those of one SET_IP frame and
\* the keys fit: a later partial SET_IP does not leave a mixture behind.
LoopHasAddress ==
    vpnPhase = "loop" => \A f \in Needed : setup[f] # 0 /\ \A g \in Needed : setup[f] = setup[g]

Rank(e) == CASE e = "connecting" -> 1 [] e = "routes" -> 2 [] e = "connected" -> 3
             [] e = "disconnected" -> 4 [] OTHER -> 5

\* The states of a run read: connecting, routes, connected, disconnected, error, and never
\* go back, so a TUI sees no session that ended or was connected connect again.  Only
\* "connecting" is announced more than once: by the service, by the run and after the
\* authentication (hillstone.rs:97 and 111).
EventOrder ==
    \A i, j \in 1..Len(announced) :
        i < j => \/ Rank(announced[i]) < Rank(announced[j])
                 \/ announced[i] = "connecting" /\ announced[j] = "connecting"

\* Together: a session is announced, addressed and logged out in order.
VpnSessionSound == NoOrphanSession /\ LoopHasAddress /\ EventOrder
=============================================================================
