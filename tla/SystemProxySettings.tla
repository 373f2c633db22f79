------------------------ MODULE SystemProxySettings ------------------------
(***************************************************************************)
(* The operating system's proxy settings as system_proxy.rs changes them:  *)
(* one command after the other, for HTTP, HTTPS and SOCKS and, on macOS,   *)
(* for every network service.  Any command may fail with the earlier ones  *)
(* done, other programs write the same settings, the configured server may *)
(* change, and on exit the settings must be off before sing-box stops.     *)
(* Bypass lists and the dynamic proxies an older version left in VPN       *)
(* services are left out.                                                  *)
(***************************************************************************)
EXTENDS Naturals, Sequences, FiniteSets

CONSTANTS
    Services,     \* macOS network services (their number; Linux and Windows have one)
    Servers,      \* addresses of the mixed inbound
    MaxFailures,  \* bound: commands that fail
    MaxChanges    \* bound: edits of the config, of the setting and by other programs

ASSUME ProxyAssumption == Services \in Nat /\ {"off", "other"} \cap Servers = {}

VARIABLES
    platform,  \* "macos", "linux" or "windows"
    settings,  \* those of the OS: mode, an address per service and kind
    detected,  \* the mixed inbound the config names
    proxy,     \* the TUI's SystemProxy
    batch,     \* the update being executed
    phase,     \* "down", "start", "up", "exit"
    singbox,   \* the managed sing-box runs
    saved,     \* what the runtime-state file holds of this
    failures, changes

proxyVars == <<platform, settings, detected, proxy, batch, phase, singbox, saved, failures, changes>>

Kinds == <<"web", "secure", "socks">>
Places == 1..Services
Targets == Places \X {"web", "secure", "socks"}
NoRun == [who |-> "none", on |-> FALSE, server |-> "off", done |-> 0, failed |-> FALSE]

---------------------------------------------------------------------------
\* The platform

\* Whether traffic goes to a server at some place.
SendsTo(o, s) == o.mode /\ \E t \in Targets : o.at[t] = s

\* Fault: one service that matches is enough.
BugMatches(o, s) ==
    o.mode /\ \E p \in Places : \A k \in {"web", "secure", "socks"} : o.at[<<p, k>>] = s
\* system_proxy_matches: every service, every kind.
Matches(o, s) == o.mode /\ \A t \in Targets : o.at[t] = s

\* The commands of an update: the settings each one writes.
MacCommands == [i \in 1..(3 * Services) |->
                  [mode |-> FALSE, targets |-> {<<((i - 1) \div 3) + 1, Kinds[((i - 1) % 3) + 1]>>}]]
LinuxEnable ==
    << [mode |-> TRUE, targets |-> {}] >> \o
    [i \in 1..3 |-> [mode |-> FALSE, targets |-> {<<p, Kinds[i]>> : p \in Places}]]
Script == << [mode |-> TRUE, targets |-> Targets] >>
ModeOnly == << [mode |-> TRUE, targets |-> {}] >>

Commands(on) ==
    CASE platform = "macos" -> MacCommands
      [] platform = "linux" -> IF on THEN LinuxEnable ELSE ModeOnly
      [] platform = "windows" -> IF on THEN Script ELSE ModeOnly

\* One command: on macOS a setting is its own switch, elsewhere the mode is.
Written(o, c, on, s) ==
    [mode |-> IF c.mode THEN on ELSE o.mode,
     at |-> [t \in Targets |-> IF t \in c.targets THEN (IF on THEN s ELSE "off") ELSE o.at[t]]]

---------------------------------------------------------------------------
\* SystemProxy

\* default_system_proxy_server: what the environment or the config file names now.
Detected == detected

Synced == IF proxy.override THEN proxy.server ELSE Detected

Begin(who, on, s) == batch' = [who |-> who, on |-> on, server |-> s, done |-> 0, failed |-> FALSE]

Idle == batch.who = "none"
\* The update runs in a thread of its own only for a toggle.
Blocked == batch.who \in {"start", "exit", "bypass"}
Ended == batch.failed \/ batch.done = Len(Commands(batch.on))

\* persisted_enabled
PersistedEnabled(a) == [server |-> a.server, override |-> a.override,
             intent |-> IF a.intent = "unset" THEN (IF a.shown THEN "on" ELSE "off") ELSE a.intent]

StartProgram ==
    /\ phase = "down"
    /\ phase' = "start"
    /\ singbox' = TRUE
    /\ LET s == IF saved.server = "off" THEN Detected ELSE saved.server IN
         proxy' = [server |-> s, override |-> saved.override,
                   shown |-> Matches(settings, s), intent |-> saved.intent]
    /\ UNCHANGED <<platform, settings, detected, batch, saved, failures, changes>>

\* reconcile_persisted
ReconcilePersisted ==
    /\ phase = "start"
    /\ Idle
    /\ LET seen == Matches(settings, Synced) IN
         IF proxy.intent = "unset"
         THEN /\ phase' = "up"
              /\ UNCHANGED <<proxy, batch>>
         ELSE /\ proxy' = [proxy EXCEPT !.server = Synced, !.shown = seen]
              /\ IF seen = (proxy.intent = "on")
                 THEN phase' = "up" /\ UNCHANGED batch
                 ELSE Begin("start", proxy.intent = "on", Synced) /\ UNCHANGED phase
    /\ UNCHANGED <<platform, settings, detected, singbox, saved, failures, changes>>

\* toggle
Toggle ==
    /\ phase = "up"
    /\ Idle
    /\ LET seen == Matches(settings, Synced) IN
         /\ proxy' = [proxy EXCEPT !.server = Synced, !.shown = seen]
         /\ Begin("toggle", ~seen, Synced)
    /\ UNCHANGED <<platform, settings, detected, phase, singbox, saved, failures, changes>>

\* refresh_bypass: writes the settings again for the shown server.
RefreshBypass ==
    /\ phase = "up"
    /\ Idle
    /\ proxy.shown
    /\ Begin("bypass", TRUE, proxy.server)
    /\ UNCHANGED <<platform, settings, detected, proxy, phase, singbox, saved, failures, changes>>

\* run_system_proxy_update: the next command, or its failure.
Command ==
    /\ ~Idle
    /\ ~Ended
    /\ settings' = Written(settings, Commands(batch.on)[batch.done + 1], batch.on, batch.server)
    /\ batch' = [batch EXCEPT !.done = @ + 1]
    /\ UNCHANGED <<platform, detected, proxy, phase, singbox, saved, failures, changes>>

CommandFails ==
    /\ ~Idle
    /\ ~Ended
    /\ failures < MaxFailures
    /\ failures' = failures + 1
    /\ batch' = [batch EXCEPT !.failed = TRUE]
    /\ UNCHANGED <<platform, settings, detected, proxy, phase, singbox, saved, changes>>

\* The intent of a finished toggle is recorded only when the OS shows it.
Polled(seen) ==
    [proxy EXCEPT !.server = batch.server, !.shown = seen,
                  !.intent = IF ~batch.failed /\ seen = batch.on
                             THEN (IF batch.on THEN "on" ELSE "off") ELSE @]

\* poll
Poll ==
    /\ batch.who = "toggle"
    /\ Ended
    /\ phase = "up"
    /\ LET seen == Matches(settings, batch.server) IN
         /\ proxy' = Polled(seen)
         /\ saved' = IF ~batch.failed /\ seen = batch.on THEN PersistedEnabled(proxy') ELSE saved
    /\ batch' = NoRun
    /\ UNCHANGED <<platform, settings, detected, phase, singbox, failures, changes>>

\* The end of a refresh and of a start-up update; a start-up that fails leaves at once.
Finish ==
    /\ batch.who \in {"start", "bypass"}
    /\ Ended
    /\ LET seen == Matches(settings, batch.server) IN
         /\ proxy' = [proxy EXCEPT !.shown = IF batch.failed THEN @ ELSE seen]
         /\ phase' = IF batch.who = "start" /\ (batch.failed \/ seen /= batch.on)
                     THEN "exit" ELSE "up"
    /\ batch' = NoRun
    /\ UNCHANGED <<platform, settings, detected, singbox, saved, failures, changes>>

\* refresh_status_if_due
RefreshStatus ==
    /\ phase = "up"
    /\ Idle
    /\ proxy' = [proxy EXCEPT !.server = Synced, !.shown = Matches(settings, Synced)]
    /\ UNCHANGED <<platform, settings, detected, batch, phase, singbox, saved, failures, changes>>

\* The setting is edited, an update in flight or not.
Override(s) ==
    /\ phase = "up"
    /\ ~Blocked
    /\ changes < MaxChanges
    /\ changes' = changes + 1
    /\ proxy' = [proxy EXCEPT !.server = s, !.override = TRUE, !.shown = Matches(settings, s)]
    /\ saved' = PersistedEnabled(proxy')
    /\ UNCHANGED <<platform, settings, detected, batch, phase, singbox, failures>>

\* shutdown_runtime_environment
ShutDown ==
    /\ phase = "up"
    /\ ~Blocked
    /\ phase' = "exit"
    /\ saved' = PersistedEnabled(proxy)
    /\ UNCHANGED <<platform, settings, detected, proxy, batch, singbox, failures, changes>>

\* Fault: only what is shown as enabled is taken back.
BugMustClear(seen) == seen
MustClear(seen) == seen \/ proxy.intent = "on"

\* suspend_for_exit: nothing to take back, ...
Suspend ==
    /\ phase = "exit"
    /\ Idle
    /\ LET seen == Matches(settings, Synced) IN
         /\ proxy' = [proxy EXCEPT !.server = Synced, !.shown = seen]
         /\ IF MustClear(seen)
            THEN Begin("exit", FALSE, Synced) /\ UNCHANGED <<phase, singbox>>
            ELSE phase' = "down" /\ singbox' = FALSE /\ UNCHANGED batch
    /\ UNCHANGED <<platform, settings, detected, saved, failures, changes>>

\* ... or taken back and looked at again: sing-box keeps running when it failed ...
Suspended ==
    /\ phase = "exit"
    /\ batch.who = "exit"
    /\ Ended
    /\ phase' = "down"
    /\ singbox' = (batch.failed \/ Matches(settings, batch.server))
    /\ batch' = NoRun
    /\ UNCHANGED <<platform, settings, detected, proxy, saved, failures, changes>>

\* ... and when a toggle is still under way, whose thread ends with the process.
SuspendRefused ==
    /\ phase = "exit"
    /\ batch.who = "toggle"
    /\ phase' = "down"
    /\ batch' = NoRun
    /\ UNCHANGED <<platform, settings, detected, proxy, singbox, saved, failures, changes>>

\* The config names another mixed inbound.
MoveInbound(s) ==
    /\ changes < MaxChanges
    /\ s /= detected
    /\ detected' = s
    /\ changes' = changes + 1
    /\ UNCHANGED <<platform, settings, proxy, batch, phase, singbox, saved, failures>>

\* Another program, or the user, turns a setting off or to a server of its own; where one
\* mode switches all of them, all of them.
Outside(t, v) ==
    /\ changes < MaxChanges
    /\ changes' = changes + 1
    /\ LET hit == IF platform = "macos" THEN {t} ELSE Targets IN
         settings' =
             IF platform /= "macos" /\ v = "off" THEN [settings EXCEPT !.mode = FALSE]
             ELSE [mode |-> TRUE,
                   at |-> [u \in Targets |-> IF u \in hit THEN v ELSE settings.at[u]]]
    /\ settings' /= settings
    /\ UNCHANGED <<platform, detected, proxy, batch, phase, singbox, saved, failures>>

---------------------------------------------------------------------------
ProxyInit ==
    /\ platform \in {"macos", "linux", "windows"}
    /\ settings = [mode |-> platform = "macos", at |-> [t \in Targets |-> "off"]]
    /\ detected \in Servers
    /\ proxy = [server |-> Detected, override |-> FALSE, shown |-> FALSE, intent |-> "unset"]
    /\ batch = NoRun
    /\ phase = "down"
    /\ singbox = FALSE
    /\ saved = [server |-> "off", override |-> FALSE, intent |-> "unset"]
    /\ failures = 0
    /\ changes = 0

ProxyNext ==
    \/ StartProgram \/ ReconcilePersisted \/ Toggle \/ RefreshBypass
    \/ Command \/ CommandFails \/ Poll \/ Finish
    \/ RefreshStatus \/ ShutDown \/ Suspend \/ Suspended \/ SuspendRefused
    \/ \E s \in Servers : Override(s) \/ MoveInbound(s)
    \/ \E t \in Targets, v \in {"off", "other"} : Outside(t, v)

ProxySpec == ProxyInit /\ [][ProxyNext]_proxyVars

---------------------------------------------------------------------------
\* A process that leaves with the proxy wanted on takes every setting back before sing-box
\* stops, the ones of a half-failed update and those for an earlier server included.
WantedIsTakenBack ==
    (phase = "down" /\ ~singbox /\ proxy.intent = "on") => \A s \in Servers : ~SendsTo(settings, s)

\* What the next start restores was seen applied: a toggle whose commands failed halfway, or
\* whose settings another program changed meanwhile, never leaves "on" as the user's intent.
RecordsApplied ==
    (phase = "up" /\ proxy.intent /= "on" /\ proxy'.intent = "on")
       => settings'.mode /\ \A t \in Targets : settings'.at[t] = proxy'.server

\* Together: the settings of the OS follow the recorded intent, when it is recorded and when
\* the process leaves.
FollowsIntent == RecordsApplied /\ WantedIsTakenBack'
SettingsFollowIntent == [][FollowsIntent]_proxyVars

\* A known divergence, checked by no run (README):
\* "kept managed sing-box running because the system proxy is still enabled": sing-box is not
\* stopped while some traffic is still sent to it.
StopsUnused == ~singbox => \A s \in Servers : ~SendsTo(settings, s)
===========================================================================
