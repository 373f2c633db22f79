--------------------------- MODULE PrivateAccess ---------------------------
(***************************************************************************)
(* Private Access sessions.  The TUI (private_access_session.rs,           *)
(* tui_private_access.rs) owns one service process per profile and talks   *)
(* to it over pipes: commands go down stdin, events come up stdout through *)
(* a bounded queue.  In the service (private_access.rs) a main thread      *)
(* reads commands and a worker thread runs the session: Hillstone logs in  *)
(* by itself, SonicWall asks the user, and reconnects a lost tunnel from a *)
(* bounded budget.  The TUI may quit, be left with B or be killed while    *)
(* the sessions go on, and a later TUI finds them in the state file.       *)
(***************************************************************************)
EXTENDS Naturals, Sequences, FiniteSets

CONSTANTS
    Profiles,        \* configured profiles
    Kinds,           \* the kinds of session a profile may be configured for
    MaxPid,          \* bound: service processes ever spawned
    MaxCommands,     \* bound: commands a service has not read yet
    QueueCapacity,   \* PRIVATE_ACCESS_EVENT_QUEUE_CAPACITY
    ReconnectBudget, \* Len(SONICWALL_RECONNECT_BACKOFFS)
    MaxDialogs,      \* bound: logins of one session
    MaxFaults        \* bound: failures of the OS, kills of the TUI and of services

ASSUME ProfilesAssumption == Profiles # {} /\ "none" \notin Profiles
ASSUME KindsAssumption == Kinds \subseteq {"sonicwall", "hillstone-tun", "hillstone-bridge"}
ASSUME BoundsAssumption ==
    /\ MaxPid \in Nat /\ MaxCommands \in Nat \ {0} /\ QueueCapacity \in Nat \ {0} /\ ReconnectBudget \in Nat
    /\ MaxDialogs \in Nat \ {0} /\ MaxFaults \in Nat

VARIABLES
    kind,     \* service and mode of each profile, fixed while it is in use
    tui,      \* is a TUI running?
    prof,     \* the TUI's PrivateAccessProfileRuntime of each profile
    modal,    \* the one authentication dialog of the TUI
    saved,    \* background_pid of each profile in the state file
    bypass,   \* profiles whose domains bypass the OS proxy
    stale,    \* the last refresh of the bypass list did not reach the OS
    svc,      \* the service processes
    cmds,     \* stdin of each service
    events,   \* event queue of each service
    faults    \* failures so far

vars == <<kind, tui, prof, modal, saved, bypass, stale, svc, cmds, events, faults>>

-----------------------------------------------------------------------------
(* Data.  Pid 0 is "no process".                                           *)

Pids == 1..MaxPid
States == {"disconnected", "connecting", "connected", "disconnecting", "error"}
Commands == {"connect", "reply", "cancel", "disconnect", "detach"}
\* Events: a state name is StateChanged, "failed" is Error, "challenge" is
\* AuthChallenge, "routes" is RoutesPushed, "overflow" stands for the
\* event_overflow flag, seen by try_recv before anything in the queue.
EventKinds == States \cup {"failed", "challenge", "routes"}
Phases == {"none", "discover", "logon", "waiting", "establish", "starting",
           "routed", "data", "backoff", "stopping", "done"}

\* SonicWall profiles log in through a dialog and always use a TUN interface;
\* Hillstone profiles in bridge mode have their routes in config.json.
Interactive == {p \in Profiles : kind[p] = "sonicwall"}
Hillstone == Profiles \ Interactive
Bridged == {p \in Profiles : kind[p] = "hillstone-bridge"}

NewProfile(pid) ==
    [state |-> IF pid = 0 THEN "disconnected" ELSE "connected",
     proc |-> 0, background |-> pid, failed |-> FALSE, routes |-> FALSE]

NewService(p) ==
    [profile |-> p, main |-> "loop", session |-> FALSE, worker |-> "none",
     shutdown |-> FALSE, detached |-> FALSE, overflow |-> FALSE,
     reply |-> FALSE, tun |-> "none", tries |-> 0, dialogs |-> 0]

NoService == [NewService(CHOOSE p \in Profiles : TRUE) EXCEPT !.main = "exited"]

\* A process that ended.  Its TUN helper reads EOF and removes its routes later.
Dead(s) == [NoService EXCEPT !.tun = IF s.tun = "active" THEN "active" ELSE "none"]

Alive(pid) == pid # 0 /\ svc[pid].main # "exited"

\* The reading end of a service's stdout: open while the TUI that spawned it runs.
Attached(pid) == tui /\ \E p \in Profiles : prof[p].proc = pid

Unspawned == {pid \in Pids : svc[pid] = NoService /\ ~Attached(pid)
                             /\ \A p \in Profiles : saved[p] # pid /\ prof[p].background # pid}

\* Fault: only a background pid is saved, not that of an owned process.
BugRuntimeStates(pr) ==
    [p \in Profiles |-> IF Alive(pr[p].background) THEN pr[p].background ELSE 0]

\* runtime_state of every profile: the owned process or the background one, if it exists.
RuntimeStates(pr) ==
    [p \in Profiles |->
        LET pid == IF pr[p].proc # 0 THEN pr[p].proc ELSE pr[p].background
        IN  IF Alive(pid) THEN pid ELSE 0]

Runtimes == [state : States, proc : 0..MaxPid, background : 0..MaxPid,
             failed : BOOLEAN, routes : BOOLEAN]
Services == [profile : Profiles, main : {"loop", "join", "eof", "exited"},
             session : BOOLEAN, worker : Phases, shutdown : BOOLEAN,
             detached : BOOLEAN, overflow : BOOLEAN, reply : BOOLEAN,
             tun : {"none", "idle", "active"}, tries : 0..ReconnectBudget,
             dialogs : 0..MaxDialogs]

TypeOK ==
    /\ kind \in [Profiles -> Kinds]
    /\ tui \in BOOLEAN /\ stale \in BOOLEAN
    /\ prof \in [Profiles -> Runtimes]
    /\ modal \in Profiles \cup {"none"}
    /\ saved \in [Profiles -> 0..MaxPid]
    /\ bypass \subseteq Profiles
    /\ svc \in [Pids -> Services]
    /\ cmds \in [Pids -> Seq(Commands)]
    /\ events \in [Pids -> Seq(EventKinds)]
    /\ \A pid \in Pids : Len(events[pid]) <= QueueCapacity
    /\ faults \in 0..MaxFaults

Fault == faults < MaxFaults /\ faults' = faults + 1

Init ==
    /\ kind \in [Profiles -> Kinds]
    /\ faults = 0
    /\ tui = TRUE
    /\ prof = [p \in Profiles |-> NewProfile(0)]
    /\ modal = "none"
    /\ saved = [p \in Profiles |-> 0]
    /\ bypass = {} /\ stale = FALSE
    /\ svc = [pid \in Pids |-> NoService]
    /\ cmds = [pid \in Pids |-> <<>>]
    /\ events = [pid \in Pids |-> <<>>]

-----------------------------------------------------------------------------
(* The TUI: connect, disconnect, authentication.                           *)

\* The command pipe takes a line as long as the service lives.
Send(pid, cmd) ==
    /\ Len(cmds[pid]) < MaxCommands
    /\ cmds' = [cmds EXCEPT ![pid] = Append(@, cmd)]

Connectable(p) == tui /\ modal = "none" /\ prof[p].state \in {"disconnected", "error"}

Connecting(p, pid) ==
    [prof EXCEPT ![p] = [prof[p] EXCEPT !.state = "connecting", !.proc = pid,
                                        !.background = 0, !.failed = FALSE]]

ConnectSpawns(p) ==
    /\ Connectable(p) /\ prof[p].proc = 0
    /\ \E pid \in Unspawned :
        /\ \A q \in Unspawned : pid <= q
        /\ svc' = [svc EXCEPT ![pid] = NewService(p)]
        /\ cmds' = [cmds EXCEPT ![pid] = <<"connect">>]
        /\ events' = [events EXCEPT ![pid] = <<>>]
        /\ prof' = Connecting(p, pid)
        /\ saved' = [RuntimeStates(prof) EXCEPT ![p] = pid]
    /\ UNCHANGED <<kind, tui, modal, bypass, stale, faults>>

ConnectReuses(p) ==
    /\ Connectable(p) /\ Alive(prof[p].proc)
    /\ Send(prof[p].proc, "connect")
    /\ prof' = Connecting(p, prof[p].proc)
    /\ saved' = RuntimeStates(prof)
    /\ UNCHANGED <<kind, tui, modal, bypass, stale, svc, events, faults>>

ConnectFails(p) ==
    /\ Connectable(p)
    /\ \/ prof[p].proc = 0 /\ Fault
       \/ prof[p].proc # 0 /\ ~Alive(prof[p].proc) /\ UNCHANGED faults
    /\ prof' = [prof EXCEPT ![p].state = "error"]
    /\ UNCHANGED <<kind, tui, modal, saved, bypass, stale, svc, cmds, events>>

\* disconnect: a background session is not owned and stays; a dead pipe is an error.
Disconnect(p) ==
    /\ tui /\ modal = "none" /\ prof[p].state \in {"connected", "connecting"}
    /\ ~ (prof[p].proc = 0 /\ prof[p].background # 0)
    /\ IF Alive(prof[p].proc)
       THEN /\ Send(prof[p].proc, "disconnect")
            /\ prof' = [prof EXCEPT ![p].state = "disconnecting"]
       ELSE /\ prof' = [prof EXCEPT ![p].state =
                            IF prof[p].proc = 0 THEN "disconnected" ELSE "error"]
            /\ UNCHANGED cmds
    /\ UNCHANGED <<kind, tui, modal, saved, bypass, stale, svc, events, faults>>

SubmitAuth ==
    /\ tui /\ modal # "none"
    /\ LET pid == prof[modal].proc
       IN  IF Alive(pid) THEN Send(pid, "reply") ELSE UNCHANGED cmds
    /\ modal' = "none"
    /\ UNCHANGED <<kind, tui, prof, saved, bypass, stale, svc, events, faults>>

CancelAuth ==
    /\ tui /\ modal # "none"
    /\ prof[modal].proc = 0 \/ Alive(prof[modal].proc)
    /\ IF prof[modal].proc = 0 THEN UNCHANGED cmds ELSE Send(prof[modal].proc, "cancel")
    /\ modal' = "none"
    /\ UNCHANGED <<kind, tui, prof, saved, bypass, stale, svc, events, faults>>

-----------------------------------------------------------------------------
(* The TUI: events.                                                        *)

\* dynamic_system_proxy_bypass_entries over the profiles pr.  Only SonicWall
\* pushes domains.
BypassEntries(pr) ==
    {p \in Interactive : pr[p].routes /\ pr[p].state \notin {"disconnected", "error"}}

\* refresh_system_proxy_bypass: the OS takes the list, or the command fails or
\* is skipped because a proxy update is running.
RefreshBypass(pr) ==
    \/ bypass' = BypassEntries(pr) /\ stale' = FALSE /\ UNCHANGED faults
    \/ Fault /\ stale' = TRUE /\ UNCHANGED bypass

Cleared(p, state) == [prof EXCEPT ![p].state = state, ![p].routes = FALSE, ![p].proc = 0]

\* ExternalPrivateAccessService::stop: kill and wait.
Killed(pid) == svc' = [svc EXCEPT ![pid] = Dead(svc[pid])]

\* Fault: the OS list is refreshed before the session is forgotten.
BugEndSession(p, state) ==
    /\ prof' = Cleared(p, state)
    /\ RefreshBypass(prof)
    /\ Killed(prof[p].proc)
    /\ cmds' = [cmds EXCEPT ![prof[p].proc] = <<>>]
    /\ events' = [events EXCEPT ![prof[p].proc] = <<>>]

\* An event that ends the session: clear_dynamic_network_state, then stop.
EndSession(p, state) ==
    /\ prof' = Cleared(p, state)
    /\ RefreshBypass(Cleared(p, state))
    /\ Killed(prof[p].proc)
    /\ cmds' = [cmds EXCEPT ![prof[p].proc] = <<>>]
    /\ events' = [events EXCEPT ![prof[p].proc] = <<>>]

CloseModal(p) == modal' = IF modal = p THEN "none" ELSE modal

Take(pid) == events' = [events EXCEPT ![pid] = Tail(@)]

\* try_recv: the overflow flag first, then the queue, then the closed stream.
PollFails(p) ==
    /\ tui /\ prof[p].proc # 0
    /\ svc[prof[p].proc].overflow \/ (events[prof[p].proc] = <<>> /\ ~Alive(prof[p].proc))
    /\ EndSession(p, "error")
    /\ UNCHANGED <<kind, tui, modal, saved>>

Next1(p, kinds) ==
    /\ tui /\ prof[p].proc # 0 /\ ~svc[prof[p].proc].overflow
    /\ events[prof[p].proc] # <<>> /\ Head(events[prof[p].proc]) \in kinds

Ignored(p, state) ==
    prof[p].failed /\ state \notin {"error", "disconnecting", "disconnected"}

PollState(p) ==
    /\ Next1(p, States \ {"disconnected"})
    /\ LET pid == prof[p].proc
           state == Head(events[pid])
       IN  /\ prof' = IF Ignored(p, state) THEN prof ELSE [prof EXCEPT ![p].state = state]
           /\ Take(pid)
    /\ UNCHANGED <<kind, tui, modal, saved, bypass, stale, svc, cmds, faults>>

PollDisconnected(p) ==
    /\ Next1(p, {"disconnected"})
    /\ EndSession(p, "disconnected") /\ CloseModal(p)
    /\ UNCHANGED <<kind, tui, saved>>

PollFailed(p) ==
    /\ Next1(p, {"failed"})
    /\ EndSession(p, "error") /\ CloseModal(p)
    /\ UNCHANGED <<kind, tui, saved>>

PollChallenge(p) ==
    /\ Next1(p, {"challenge"})
    /\ prof' = [prof EXCEPT ![p].state = "connecting"]
    /\ modal' = p
    /\ Take(prof[p].proc)
    /\ UNCHANGED <<kind, tui, saved, bypass, stale, svc, cmds, faults>>

\* RoutesPushed to a TUN profile: only the OS bypass list changes.
PollRoutes(p) ==
    /\ Next1(p, {"routes"}) /\ p \notin Bridged
    /\ prof' = [prof EXCEPT ![p].routes = TRUE]
    /\ RefreshBypass([prof EXCEPT ![p].routes = TRUE])
    /\ Take(prof[p].proc)
    /\ UNCHANGED <<kind, tui, modal, saved, svc, cmds>>

\* RoutesPushed to a bridge profile: config.json is written and sing-box restarted.
PollBridgeRoutes(p) ==
    /\ Next1(p, {"routes"}) /\ p \in Bridged
    /\ \/ /\ prof' = [prof EXCEPT ![p].routes = TRUE]
          /\ UNCHANGED faults
       \/ /\ Fault                                  \* config.json cannot be written
          /\ prof' = [prof EXCEPT ![p].routes = TRUE, ![p].state = "error"]
    /\ Take(prof[p].proc)
    /\ UNCHANGED <<kind, tui, modal, saved, bypass, stale, svc, cmds>>

RestartCarrierFails(p) ==
    /\ Next1(p, {"routes"}) /\ p \in Bridged /\ Fault
    /\ prof' = [prof EXCEPT ![p].routes = TRUE, ![p].state = "error", ![p].failed = TRUE,
                            ![p].proc = 0]
    /\ Killed(prof[p].proc)
    /\ cmds' = [cmds EXCEPT ![prof[p].proc] = <<>>]
    /\ events' = [events EXCEPT ![prof[p].proc] = <<>>]
    /\ UNCHANGED <<kind, tui, modal, saved, bypass, stale>>

-----------------------------------------------------------------------------
(* The TUI: leaving, dying, starting.                                      *)

\* The pipes close; what the services wrote and nobody read is lost.
TuiGone ==
    /\ tui' = FALSE
    /\ modal' = "none"
    /\ events' = [pid \in Pids |-> <<>>]
    /\ svc' = [pid \in Pids |-> [svc[pid] EXCEPT !.overflow = FALSE]]
    /\ prof' = [p \in Profiles |-> NewProfile(0)]
    /\ UNCHANGED <<kind, cmds>>

\* q, or an error that ends run_app (a cancel into a dead pipe is one): the
\* state is saved, the OS proxy suspended, the services are left to their EOF.
Quit ==
    /\ tui
    /\ saved' = RuntimeStates(prof)
    /\ bypass' = {} /\ stale' = FALSE
    /\ TuiGone
    /\ UNCHANGED faults

Kill ==
    /\ tui /\ Fault
    /\ TuiGone
    /\ UNCHANGED <<saved, bypass, stale>>

\* detach_for_background, profile by profile; one dead pipe stops it half way,
\* with the profiles before it already marked.
Detachable(p) == prof[p].proc # 0 /\ ~Alive(prof[p].background)

Detach(ps) ==
    /\ prof' = [p \in Profiles |->
                  IF p \in ps THEN [prof[p] EXCEPT !.background = prof[p].proc, !.state = "connected"]
                              ELSE prof[p]]
    /\ cmds' = [pid \in Pids |-> IF \E p \in ps : prof[p].proc = pid
                                 THEN Append(cmds[pid], "detach") ELSE cmds[pid]]

LeaveFails ==
    /\ tui /\ modal = "none"
    /\ \E p \in Profiles : Detachable(p) /\ ~Alive(prof[p].proc)
    /\ \E ps \in SUBSET {p \in Profiles : Detachable(p) /\ Alive(prof[p].proc)} : Detach(ps)
    /\ UNCHANGED <<kind, tui, modal, saved, bypass, stale, svc, events, faults>>

Leave ==
    /\ tui /\ modal = "none"
    /\ \A p \in Profiles : Detachable(p) => Alive(prof[p].proc)
    /\ cmds' = [pid \in Pids |-> IF \E p \in Profiles : Detachable(p) /\ prof[p].proc = pid
                                 THEN Append(cmds[pid], "detach") ELSE cmds[pid]]
    /\ saved' = RuntimeStates(prof)
    /\ tui' = FALSE /\ modal' = "none"
    /\ events' = [pid \in Pids |-> <<>>]
    /\ svc' = [pid \in Pids |-> [svc[pid] EXCEPT !.overflow = FALSE]]
    /\ prof' = [p \in Profiles |-> NewProfile(0)]
    /\ UNCHANGED <<kind, bypass, stale, faults>>

\* App::new: a saved pid that still runs the service is a background session.
Start ==
    /\ ~tui
    /\ tui' = TRUE
    /\ prof' = [p \in Profiles |-> NewProfile(IF Alive(saved[p]) THEN saved[p] ELSE 0)]
    /\ stale' = (bypass # {})                   \* an enabled proxy is not written again
    /\ UNCHANGED <<kind, modal, saved, bypass, svc, cmds, events, faults>>

-----------------------------------------------------------------------------
(* The service: what its two threads share.                                *)

\* JsonLineEventSink::emit: a broken pipe is ignored once detached is set.
CanEmit(pid) == Attached(pid) \/ svc[pid].detached

\* Fault: events that do not fit into the queue are dropped without a trace.
BugEmit(pid, evs, s) ==
    LET room == QueueCapacity - Len(events[pid])
        fit == IF Len(evs) > room THEN room ELSE Len(evs)
    IN  IF Attached(pid)
        THEN /\ events' = [events EXCEPT ![pid] = @ \o SubSeq(evs, 1, fit)]
             /\ svc' = [svc EXCEPT ![pid] = s]
        ELSE /\ svc' = [svc EXCEPT ![pid] = s]
             /\ UNCHANGED events

\* The service becomes s and its events go through the stdout thread into the
\* queue of the TUI; those that do not fit raise the overflow flag.
Emit(pid, evs, s) ==
    LET room == QueueCapacity - Len(events[pid])
        fit == IF Len(evs) > room THEN room ELSE Len(evs)
    IN  IF Attached(pid)
        THEN /\ events' = [events EXCEPT ![pid] = @ \o SubSeq(evs, 1, fit)]
             /\ svc' = [svc EXCEPT ![pid] = [s EXCEPT !.overflow = s.overflow \/ fit < Len(evs)]]
        ELSE /\ svc' = [svc EXCEPT ![pid] = s]
             /\ UNCHANGED events

Finished(s) == [s EXCEPT !.worker = "done", !.tun = "none", !.reply = FALSE]

Quietly(pid) == svc' = [svc EXCEPT ![pid] = Finished(svc[pid])] /\ UNCHANGED events

\* A worker whose event cannot be written fails, and its error cannot be written either.
WorkerEmit(pid, evs, s) == IF CanEmit(pid) THEN Emit(pid, evs, s) ELSE Quietly(pid)

WorkerFails(pid) == WorkerEmit(pid, <<"failed", "error">>, Finished(svc[pid]))

\* A main thread whose event cannot be written ends the process.
MainEmit(pid, evs, s) ==
    IF CanEmit(pid) THEN Emit(pid, evs, s)
                    ELSE svc' = [svc EXCEPT ![pid] = Dead(svc[pid])] /\ UNCHANGED events

ServiceUnchanged == UNCHANGED <<kind, tui, prof, modal, saved, bypass, stale>>

-----------------------------------------------------------------------------
(* The service: the main thread.                                           *)

Reads(pid, kinds) ==
    /\ svc[pid].main = "loop" /\ cmds[pid] # <<>> /\ Head(cmds[pid]) \in kinds
    /\ cmds' = [cmds EXCEPT ![pid] = Tail(@)]
    /\ ServiceUnchanged /\ UNCHANGED faults

MainConnect(pid) ==
    /\ Reads(pid, {"connect"})
    /\ IF svc[pid].session
       THEN MainEmit(pid, <<"failed", "error">>, svc[pid])
       ELSE MainEmit(pid, <<"connecting">>,
                     [svc[pid] EXCEPT !.session = TRUE, !.worker = "discover", !.shutdown = FALSE,
                                      !.reply = FALSE, !.tries = 0, !.dialogs = 0])

MainReply(pid) ==
    /\ Reads(pid, {"reply"})
    /\ IF svc[pid].session /\ svc[pid].worker # "done"
       THEN svc' = [svc EXCEPT ![pid].reply = TRUE] /\ UNCHANGED events
       ELSE MainEmit(pid, <<"failed", "error">>, svc[pid])

\* disconnect and cancel_auth: set the flag and join the worker.
MainStop(pid) ==
    /\ Reads(pid, {"disconnect", "cancel"})
    /\ IF svc[pid].session
       THEN MainEmit(pid, <<"disconnecting">>,
                     [svc[pid] EXCEPT !.shutdown = TRUE, !.main = "join"])
       ELSE MainEmit(pid, <<"disconnected">>, svc[pid])

MainJoined(pid) ==
    /\ svc[pid].main = "join" /\ svc[pid].worker = "done"
    /\ svc' = [svc EXCEPT ![pid].main = "loop", ![pid].session = FALSE]
    /\ ServiceUnchanged /\ UNCHANGED <<cmds, events, faults>>

MainDetach(pid) ==
    /\ Reads(pid, {"detach"})
    /\ LET s == [svc[pid] EXCEPT !.detached = TRUE]
       IN  Emit(pid, <<IF s.session THEN "connected" ELSE "disconnected">>, s)

\* End of stdin: an active session is kept, whatever became of the TUI.
MainEof(pid) ==
    /\ svc[pid].main = "loop" /\ cmds[pid] = <<>> /\ ~Attached(pid)
    /\ svc' = [svc EXCEPT ![pid] = IF svc[pid].session
                                   THEN [svc[pid] EXCEPT !.detached = TRUE, !.main = "eof"]
                                   ELSE Dead(svc[pid])]
    /\ ServiceUnchanged /\ UNCHANGED <<cmds, events, faults>>

MainExit(pid) ==
    /\ svc[pid].main = "eof" /\ svc[pid].worker = "done"
    /\ svc' = [svc EXCEPT ![pid] = Dead(svc[pid])]
    /\ ServiceUnchanged /\ UNCHANGED <<cmds, events, faults>>

-----------------------------------------------------------------------------
(* The service: the Hillstone worker.                                      *)

Works(pid, phase, profiles) ==
    /\ Alive(pid) /\ svc[pid].worker = phase /\ svc[pid].profile \in profiles
    /\ ServiceUnchanged /\ UNCHANGED <<cmds, faults>>

\* run_hillstone_probe up to SET_ROUTE and NEW_KEY.
HillstoneLogin(pid) ==
    /\ Works(pid, "discover", Hillstone)
    /\ \/ WorkerEmit(pid, <<"routes">>, [svc[pid] EXCEPT !.worker = "routed"])
       \/ WorkerFails(pid)

HillstoneStart(pid) ==
    /\ Works(pid, "routed", Hillstone)
    /\ \/ WorkerEmit(pid, <<"connected">>,
                     [svc[pid] EXCEPT !.worker = "data",
                          !.tun = IF svc[pid].profile \in Bridged THEN "none" ELSE "active"])
       \/ WorkerFails(pid)

\* The data plane ends by the flag, with a logout, or by an error.
HillstoneData(pid) ==
    /\ Works(pid, "data", Hillstone)
    /\ \/ svc[pid].shutdown /\ WorkerEmit(pid, <<"disconnected">>, Finished(svc[pid]))
       \/ WorkerFails(pid)

-----------------------------------------------------------------------------
(* The service: the SonicWall worker.                                      *)

\* run_sonicwall_authentication at the top of its loop: discovery, start_logon.
Discover(pid) ==
    /\ Works(pid, "discover", Interactive)
    /\ \/ svc[pid].shutdown /\ WorkerEmit(pid, <<"disconnected">>, Finished(svc[pid]))
       \/ /\ ~svc[pid].shutdown /\ svc[pid].dialogs < MaxDialogs
          /\ svc' = [svc EXCEPT ![pid].worker = "logon", ![pid].dialogs = @ + 1]
          /\ UNCHANGED events
       \/ WorkerFails(pid)

\* An error of the dialog or of the tunnel is swallowed once the flag is set.
DialogFails(pid) == IF svc[pid].shutdown THEN Quietly(pid) ELSE WorkerFails(pid)

Logon(pid) ==
    /\ Works(pid, "logon", Interactive)
    /\ \/ WorkerEmit(pid, <<"challenge">>, [svc[pid] EXCEPT !.worker = "waiting"])
       \/ WorkerEmit(pid, <<"connecting">>, [svc[pid] EXCEPT !.worker = "establish"])
       \/ DialogFails(pid)

\* wait_for_sonicwall_auth_reply, then authenticate: the gateway lets the user in, asks
\* for more, or refuses.  SonicwallAuth says which reply answers which challenge.
WaitForReply(pid) ==
    /\ Works(pid, "waiting", Interactive)
    /\ \/ svc[pid].shutdown /\ WorkerEmit(pid, <<"disconnected">>, Finished(svc[pid]))
       \/ /\ ~svc[pid].shutdown /\ svc[pid].reply
          /\ \/ WorkerEmit(pid, <<"connecting">>,
                           [svc[pid] EXCEPT !.worker = "establish", !.reply = FALSE])
             \/ WorkerEmit(pid, <<"challenge">>,
                           [svc[pid] EXCEPT !.worker = "waiting", !.reply = FALSE])
             \/ WorkerFails(pid)

\* SonicwallReauthenticationRequired: the dialog starts again, unless cancelled.
Reauthenticate(pid) ==
    IF svc[pid].shutdown THEN Quietly(pid)
    ELSE WorkerEmit(pid, <<"connecting">>,
                    [svc[pid] EXCEPT !.worker = "discover", !.tun = "none", !.tries = 0])

Establish(pid) ==
    /\ Works(pid, "establish", Interactive)
    /\ \/ svc[pid].shutdown /\ Quietly(pid)
       \/ ~svc[pid].shutdown /\ svc' = [svc EXCEPT ![pid].worker = "starting"] /\ UNCHANGED events
       \/ Reauthenticate(pid)
       \/ DialogFails(pid)

\* run_sonicwall_tun_data_plane until RoutesPushed; a failing helper is fatal.
StartTun(pid) ==
    /\ Works(pid, "starting", Interactive)
    /\ \/ WorkerEmit(pid, <<"routes">>, [svc[pid] EXCEPT !.worker = "routed", !.tun = "active"])
       \/ svc[pid].shutdown /\ WorkerEmit(pid, <<"disconnected">>, [svc[pid] EXCEPT !.worker = "stopping"])
       \/ ~svc[pid].shutdown /\ WorkerFails(pid)

TunConnected(pid) ==
    /\ Works(pid, "routed", Interactive)
    /\ WorkerEmit(pid, <<"connected">>, [svc[pid] EXCEPT !.worker = "data"])

\* Fault: the budget is checked one attempt too late.
BugReconnect(pid, tries) ==
    IF tries > ReconnectBudget THEN DialogFails(pid)
    ELSE WorkerEmit(pid, <<"connecting">>,
                    [svc[pid] EXCEPT !.worker = "backoff", !.tun = "idle", !.tries = tries + 1])

\* schedule_sonicwall_reconnect after the tries made so far.
Reconnect(pid, tries) ==
    IF tries = ReconnectBudget THEN DialogFails(pid)
    ELSE WorkerEmit(pid, <<"connecting">>,
                    [svc[pid] EXCEPT !.worker = "backoff", !.tun = "idle", !.tries = tries + 1])

\* The packet loop ends by the flag, by a lost transport (after a short or a
\* long uptime) or by a fatal error.  The flag reports before the helper stops.
TunData(pid) ==
    /\ Works(pid, "data", Interactive)
    /\ \/ svc[pid].shutdown /\ WorkerEmit(pid, <<"disconnected">>, [svc[pid] EXCEPT !.worker = "stopping"])
       \/ ~svc[pid].shutdown /\ \E tries \in {0, svc[pid].tries} : Reconnect(pid, tries)
       \/ ~svc[pid].shutdown /\ WorkerFails(pid)

StopTun(pid) ==
    /\ Works(pid, "stopping", Interactive)
    /\ Quietly(pid)

\* One turn of the reconnect loop: probe, sleep, the flag, a new tunnel.
Backoff(pid) ==
    /\ Works(pid, "backoff", Interactive)
    /\ \/ Reauthenticate(pid)
       \/ svc[pid].shutdown /\ Quietly(pid)
       \/ ~svc[pid].shutdown /\ svc' = [svc EXCEPT ![pid].worker = "starting"] /\ UNCHANGED events
       \/ ~svc[pid].shutdown /\ Reconnect(pid, svc[pid].tries)

\* The TUN helper reads EOF when its service is gone and removes its routes.
HelperCleans(pid) ==
    /\ ~Alive(pid) /\ svc[pid].tun = "active"
    /\ svc' = [svc EXCEPT ![pid].tun = "none"]
    /\ ServiceUnchanged /\ UNCHANGED <<cmds, events, faults>>

ServiceDies(pid) ==
    /\ Alive(pid) /\ Fault
    /\ svc' = [svc EXCEPT ![pid] = Dead(svc[pid])]
    /\ cmds' = [cmds EXCEPT ![pid] = <<>>]
    /\ ServiceUnchanged /\ UNCHANGED events

-----------------------------------------------------------------------------
User == \/ \E p \in Profiles : ConnectSpawns(p) \/ ConnectReuses(p) \/ ConnectFails(p) \/ Disconnect(p)
        \/ SubmitAuth \/ CancelAuth
        \/ Quit \/ Kill \/ LeaveFails \/ Leave \/ Start

Poll(p) == PollFails(p) \/ PollState(p) \/ PollDisconnected(p) \/ PollFailed(p)
           \/ PollChallenge(p) \/ PollRoutes(p) \/ PollBridgeRoutes(p) \/ RestartCarrierFails(p)

Main(pid) == MainConnect(pid) \/ MainReply(pid) \/ MainStop(pid) \/ MainJoined(pid)
             \/ MainDetach(pid) \/ MainEof(pid) \/ MainExit(pid)

Worker(pid) == HillstoneLogin(pid) \/ HillstoneStart(pid) \/ HillstoneData(pid)
               \/ Discover(pid) \/ Logon(pid) \/ WaitForReply(pid) \/ Establish(pid)
               \/ StartTun(pid) \/ TunConnected(pid) \/ TunData(pid) \/ StopTun(pid) \/ Backoff(pid)

Next == \/ User
        \/ \E p \in Profiles : Poll(p)
        \/ \E pid \in Pids : Main(pid) \/ Worker(pid) \/ HelperCleans(pid) \/ ServiceDies(pid)

Spec == Init /\ [][Next]_vars

-----------------------------------------------------------------------------
(* Properties.                                                             *)

\* A profile never has two service processes: a new TUI finds the session an
\* earlier one left, or lost when it was killed, and does not start another
\* beside it (runtime_state saves the pid of an owned process too).
OneServicePerProfile ==
    \A a, b \in Pids : Alive(a) /\ Alive(b) /\ svc[a].profile = svc[b].profile => a = b

\* Nothing more will come: every event is read, every command taken, and the
\* main thread of the service waits for the next one.
AllQuiet(pid) ==
    /\ tui /\ Alive(pid) /\ events[pid] = <<>> /\ ~svc[pid].overflow
    /\ cmds[pid] = <<>> /\ svc[pid].main = "loop" /\ svc[pid].worker \in {"none", "done"}

\* What the TUI shows is what its service does once every event is read: it
\* shows connected only over a running data plane, connecting only while the
\* worker is at work, and disconnecting (where the V key does nothing) only
\* while an answer is to come.  Events dropped from the full queue must not
\* leave an old state on the screen.  A SonicWall session that was told to end
\* is DisconnectAnswered below.
ShownStateTrue ==
    \A p \in Profiles :
        LET pid == prof[p].proc
        IN  (/\ tui /\ pid # 0 /\ Alive(pid) /\ ~svc[pid].detached
             /\ events[pid] = <<>> /\ ~svc[pid].overflow /\ cmds[pid] = <<>>)
            => /\ prof[p].state = "connected" => svc[pid].worker = "data"
               /\ prof[p].state = "connecting" /\ ~svc[pid].shutdown
                    => svc[pid].worker \notin {"none", "done"}
               /\ prof[p].state = "disconnecting" /\ p \in Hillstone => ~AllQuiet(pid)

\* The domains of a TUN session bypass the OS proxy only while the TUI owns
\* the service of that session, whichever way the session ended, unless the
\* OS did not take the last list.
BypassBacked ==
    tui /\ ~stale => \A p \in bypass : prof[p].proc # 0

\* Together: what the TUI believes of its services is so.
SessionsSound == TypeOK /\ OneServicePerProfile /\ ShownStateTrue /\ BypassBacked

\* A known divergence, checked by no run (README):
\* a disconnect is answered by a disconnected state, whatever the worker of
\* the session was doing when the command came.
DisconnectAnswered ==
    \A p \in Profiles : AllQuiet(prof[p].proc) => prof[p].state # "disconnecting"

=============================================================================
