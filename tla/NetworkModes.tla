----------------------------- MODULE NetworkModes -----------------------------
(* The two network modes a TUI process switches for the user, Internet TUN    *)
(* and the system proxy, around the sing-box process it manages: start-up,    *)
(* the toggles and their worker threads, the three ways to leave, and crashes *)
(* between any two of these steps.                                            *)
(*                                                                            *)
(* On disk are the sing-box config and the runtime-state file, which also is  *)
(* the journal of a TUN toggle: it names the target and the route setting to  *)
(* restore before the config is touched.                                      *)
EXTENDS Naturals

CONSTANTS
    Baseline,     \* a TUN-mode Private Access profile is configured
    Crashes,      \* the process may be killed, or its event loop may fail
    RacingEdits,  \* the user may edit the config while a toggle runs
    MaxFaults,    \* bound on failed writes and OS commands
    MaxEdits,     \* bound on edits of the config by hand
    NoRestore, NoJob

ASSUME ModesAssumption ==
    /\ Baseline \in BOOLEAN /\ Crashes \in BOOLEAN /\ RacingEdits \in BOOLEAN
    /\ MaxFaults \in Nat /\ MaxEdits \in Nat

VARIABLES
    conf,    \* TunConfigState of the config, and the Private Access marker
    file,    \* the runtime-state file
    os,      \* the OS sends its traffic to our proxy server
    core,    \* the sing-box process: runs, has the TUN, was started by us
    pc,      \* where the TUI process is
    app,     \* its memory: InternetTunTransaction and SystemProxy
    job,     \* TunToggleJob
    update,  \* SystemProxyJob
    faults, edits,
    \* history, read by properties only
    orig,    \* route setting that the managed TUN replaced
    exit     \* how the last process ended, and the modes it had

disk == <<conf, file>>
vars == <<conf, file, os, core, pc, app, job, update, faults, edits, orig, exit>>

(* RouteAutoDetectInterfaceState *)
Autos == {"route_missing", "field_missing", "disabled", "enabled"}
Choices == {"unset", "on", "off"}
Choice(b) == IF b THEN "on" ELSE "off"

Restores == Autos \cup {NoRestore}
Phases == {"queued", "written", "failed", "rollback", "unjournal", "restart"}
Jobs == [target : BOOLEAN, phase : Phases, journal : Restores, before : Restores]
Updates == [enable : BOOLEAN, phase : {"queued", "done", "failed"}]

ASSUME NullsAssumption == NoRestore \notin Autos /\ NoJob \notin Jobs \cup Updates

Stopped == [run |-> FALSE, tun |-> FALSE, ours |-> FALSE]
Blank == [enabled |-> FALSE, explicit |-> FALSE, restore |-> NoRestore,
          intent |-> "unset", shown |-> FALSE, known |-> FALSE]
NoExit == [kind |-> "none", os |-> FALSE, explicit |-> FALSE, tun |-> FALSE]

Init ==
    /\ conf \in [managed : BOOLEAN, foreign : {"none"}, auto : Autos,
                 baseline : {FALSE}]
    /\ conf.managed => conf.auto # "route_missing"
    /\ file = [tun |-> "unset", restore |-> NoRestore, proxy |-> "unset",
               sel |-> TRUE]
    /\ os \in BOOLEAN
    /\ core = Stopped /\ pc = "down" /\ app = Blank
    /\ job = NoJob /\ update = NoJob
    /\ faults = 0 /\ edits = 0
    /\ orig = NoRestore /\ exit = NoExit

Fault == faults < MaxFaults /\ faults' = faults + 1

-----------------------------------------------------------------------------
(* The config: set_internet_tun_mode and what it refuses.                     *)

Refused(c) == c.foreign # "none"

(* restore_route_auto_detect_interface; the baseline's rules keep the route.  *)
Restored(c, auto) ==
    IF auto = "route_missing" /\ c.baseline THEN "field_missing" ELSE auto

(* Fault: nothing to restore is restored as well.                             *)
BugSetMode(c, on, restore) ==
    [c EXCEPT !.managed = on,
              !.auto = IF on THEN "enabled"
                       ELSE IF c.foreign = "tun" THEN @
                       ELSE Restored(c, restore)]

(* A custom TUN that stays behind owns the route setting.                     *)
SetMode(c, on, restore) ==
    [c EXCEPT !.managed = on,
              !.auto = IF on THEN "enabled"
                       ELSE IF c.foreign = "tun" THEN @
                       ELSE IF restore # NoRestore THEN Restored(c, restore)
                       ELSE IF c.baseline THEN "disabled" ELSE @]

(* The setting that is replaced when the managed TUN enters the config.       *)
Replaced(c) == IF c.managed THEN orig ELSE c.auto

(* ensure_private_access_tun_baseline *)
WithBaseline(c) ==
    [c EXCEPT !.baseline = TRUE,
              !.auto = IF c.managed THEN "enabled"
                       ELSE IF c.foreign # "tun" /\ ~c.baseline
                            THEN "disabled"
                       ELSE IF @ = "route_missing" THEN "field_missing" ELSE @]

-----------------------------------------------------------------------------
(* The runtime-state file: runtime_state() and save.                          *)

(* Fault: a save during a toggle forgets that the toggle is on its way.       *)
BugPersisted(a, j) ==
    [tun |-> IF a.explicit THEN Choice(a.enabled) ELSE "unset",
     restore |-> a.restore]

(* InternetTunTransaction::persisted: the journal while a toggle runs.        *)
Persisted(a, j) ==
    IF j = NoJob
    THEN [tun |-> IF a.explicit THEN Choice(a.enabled) ELSE "unset",
          restore |-> a.restore]
    ELSE [tun |-> Choice(j.target), restore |-> j.journal]

(* Selections are read off the groups, which a starting process has not got.  *)
Saved(a, p) ==
    [tun |-> p.tun, restore |-> p.restore,
     proxy |-> IF a.intent = "unset" THEN Choice(a.shown) ELSE a.intent,
     sel |-> a.known]

-----------------------------------------------------------------------------
(* Start-up: App::new.                                                        *)

Launch ==
    /\ pc = "down"
    /\ pc' = "load"
    /\ app' = [enabled |-> IF file.tun = "unset" THEN conf.managed
                           ELSE file.tun = "on",
               explicit |-> file.tun # "unset", restore |-> file.restore,
               intent |-> file.proxy, shown |-> os, known |-> FALSE]
    /\ UNCHANGED <<disk, os, core, job, update, faults, edits, orig, exit>>

(* The error of any step of the start-up: clean up as on exit.                *)
Abort == pc' = "save" /\ exit' = [NoExit EXCEPT !.kind = "abort"]

StepFails ==
    /\ pc \in {"load", "enable", "clear", "base", "join"}
    /\ Fault /\ Abort
    /\ UNCHANGED <<disk, os, core, app, job, update, edits, orig>>

Conflict ==
    app.enabled /\ (conf.foreign = "tag" \/ (conf.managed /\ conf.foreign = "tun"))

Drifted == app.enabled /\ conf.managed /\ conf.auto # "enabled"

(* Fault: only the journal is looked at, not the config.                      *)
BugNeedsClear == ~app.enabled /\ app.restore # NoRestore

NeedsClear == ~app.enabled /\ (conf.managed \/ app.restore # NoRestore)

ReconcileRefuses ==
    /\ pc = "load" /\ Conflict
    /\ Abort
    /\ UNCHANGED <<disk, os, core, app, job, update, faults, edits, orig>>

(* persist: memory has changed already when the file turns out not writable.  *)
Persist(next) ==
    \/ /\ file' = Saved(app', Persisted(app', NoJob))
       /\ pc' = next
       /\ UNCHANGED <<faults, exit>>
    \/ Fault /\ Abort /\ UNCHANGED file

(* The managed TUN without its route setting: note what is there, ...         *)
ReconcileNotes ==
    /\ pc = "load" /\ ~Conflict /\ Drifted /\ app.restore = NoRestore
    /\ app' = [app EXCEPT !.restore = conf.auto]
    /\ Persist("load")
    /\ UNCHANGED <<conf, os, core, job, update, edits, orig>>

(* ... then repair it.                                                        *)
ReconcileRepairs ==
    /\ pc = "load" /\ ~Conflict /\ Drifted /\ app.restore # NoRestore
    /\ conf' = SetMode(conf, TRUE, app.restore) /\ orig' = Replaced(conf)
    /\ UNCHANGED <<file, os, core, pc, app, job, update, faults, edits, exit>>

(* What reconcile does to its own record, and where it goes from there.       *)
Reconciled ==
    IF ~app.explicit
    THEN [app |-> IF conf.managed THEN app ELSE [app EXCEPT !.restore = NoRestore],
          pc |-> "base",
          save |-> ~conf.managed /\ app.restore # NoRestore]
    ELSE IF app.enabled /\ ~conf.managed /\ conf.foreign = "tun"
    THEN [app |-> [app EXCEPT !.enabled = FALSE, !.explicit = FALSE,
                              !.restore = NoRestore],
          pc |-> "base", save |-> TRUE]
    ELSE IF app.enabled /\ ~conf.managed
    THEN [app |-> [app EXCEPT !.restore = conf.auto], pc |-> "enable",
          save |-> TRUE]
    ELSE [app |-> app, pc |-> IF NeedsClear THEN "clear" ELSE "base",
          save |-> FALSE]

Reconcile ==
    /\ pc = "load" /\ ~Conflict /\ ~Drifted
    /\ app' = Reconciled.app
    /\ IF Reconciled.save
       THEN Persist(Reconciled.pc)
       ELSE pc' = Reconciled.pc /\ UNCHANGED <<file, faults, exit>>
    /\ UNCHANGED <<conf, os, core, job, update, edits, orig>>

ReconcileEnables ==
    /\ pc = "enable"
    /\ conf' = SetMode(conf, TRUE, app.restore) /\ orig' = Replaced(conf)
    /\ pc' = "base"
    /\ UNCHANGED <<file, os, core, app, job, update, faults, edits, exit>>

ReconcileDisables ==
    /\ pc = "clear"
    /\ conf' = SetMode(conf, FALSE, app.restore)
    /\ app' = [app EXCEPT !.restore = NoRestore]
    /\ pc' = "cleared"
    /\ UNCHANGED <<file, os, core, job, update, faults, edits, orig, exit>>

ReconcileClears ==
    /\ pc = "cleared"
    /\ UNCHANGED app
    /\ Persist("base")
    /\ UNCHANGED <<conf, os, core, job, update, edits, orig>>

EnsureBaseline ==
    /\ pc = "base"
    /\ conf' = IF Baseline THEN WithBaseline(conf) ELSE conf
    /\ pc' = "core"
    /\ UNCHANGED <<file, os, core, app, job, update, faults, edits, orig, exit>>

Started == [run |-> TRUE, tun |-> conf.managed, ours |-> TRUE]

(* Somebody else's process on the same config is never replaced.              *)
StartRefuses ==
    /\ pc = "core" /\ core.run
    /\ Abort
    /\ UNCHANGED <<disk, os, core, app, job, update, faults, edits, orig>>

StartCore ==
    /\ pc = "core" /\ ~core.run
    /\ core' = Started /\ pc' = "proxy"
    /\ UNCHANGED <<disk, os, app, job, update, faults, edits, orig, exit>>

(* It does not start, or starts and cannot be confirmed.                      *)
StartFails ==
    /\ pc = "core" /\ ~core.run
    /\ core' \in {core, Started} /\ Abort
    /\ UNCHANGED <<disk, os, app, job, update, faults, edits, orig>>

ReconcileProxy ==
    /\ pc = "proxy"
    /\ os' = IF app.intent = "unset" THEN os ELSE app.intent = "on"
    /\ app' = [app EXCEPT !.shown = os']
    /\ pc' = "join"
    /\ UNCHANGED <<disk, core, job, update, faults, edits, orig, exit>>

(* The OS command fails, perhaps with some of its work done.                  *)
ReconcileProxyFails ==
    /\ pc = "proxy" /\ app.intent \notin {"unset", Choice(os)}
    /\ Fault /\ Abort
    /\ os' \in BOOLEAN
    /\ app' = [app EXCEPT !.shown = os']
    /\ UNCHANGED <<disk, core, job, update, edits, orig>>

(* refresh, restore_persisted_selections from the state loaded at the start.  *)
Join ==
    /\ pc = "join"
    /\ app' = [app EXCEPT !.known = TRUE]
    /\ pc' = "up"
    /\ UNCHANGED <<disk, os, core, job, update, faults, edits, orig, exit>>

-----------------------------------------------------------------------------
(* The TUN toggle.                                                            *)

Busy == job # NoJob /\ job.phase \in {"rollback", "unjournal", "restart"}

(* start_toggle: nothing happens unless the journal is written.               *)
StartToggle ==
    /\ pc = "up" /\ job = NoJob
    /\ app.enabled \/ ~Refused(conf)
    /\ LET j == [target |-> ~app.enabled, phase |-> "queued",
                 journal |-> IF app.enabled THEN app.restore ELSE conf.auto,
                 before |-> NoRestore]
       IN /\ job' = j
          /\ file' = Saved(app, Persisted(app, j))
    /\ UNCHANGED <<conf, os, core, pc, app, update, faults, edits, orig, exit>>

(* The worker thread, under the config lock.                                  *)
WorkerWrites ==
    /\ job # NoJob /\ job.phase = "queued"
    /\ ~(job.target /\ Refused(conf))
    /\ conf' = SetMode(conf, job.target, job.journal)
    /\ orig' = IF job.target THEN Replaced(conf) ELSE orig
    /\ job' = [job EXCEPT !.phase = "written", !.before = conf.auto]
    /\ UNCHANGED <<file, os, core, pc, app, update, faults, edits, exit>>

WorkerFails ==
    /\ job # NoJob /\ job.phase = "queued"
    /\ IF job.target /\ Refused(conf) THEN UNCHANGED faults ELSE Fault
    /\ job' = [job EXCEPT !.phase = "failed"]
    /\ UNCHANGED <<disk, os, core, pc, app, update, edits, orig, exit>>

(* finish_toggle with an error: the old state is written over the journal, if *)
(* the file can be written.                                                   *)
FinishFailed ==
    /\ pc = "up" /\ job # NoJob /\ job.phase = "failed"
    /\ \/ file' = Saved(app, Persisted(app, NoJob)) /\ UNCHANGED faults
       \/ Fault /\ UNCHANGED file
    /\ job' = NoJob
    /\ UNCHANGED <<conf, os, core, pc, app, update, edits, orig, exit>>

(* The setting to restore is the one the worker found under the lock.         *)
Toggled ==
    [app EXCEPT !.enabled = job.target, !.explicit = TRUE,
                !.restore = IF job.target THEN job.before ELSE NoRestore]

FinishSaves ==
    /\ pc = "up" /\ job # NoJob /\ job.phase = "written"
    /\ app' = Toggled
    /\ file' = Saved(app', Persisted(app', NoJob))
    /\ job' = [job EXCEPT !.phase = "restart"]
    /\ UNCHANGED <<conf, os, core, pc, update, faults, edits, orig, exit>>

JournalStale == job.target /\ job.before # job.journal

(* The journal on disk stands in for the record, unless it names a setting    *)
(* that is not the one the worker replaced: then the toggle is taken back.    *)
FinishUnsaved ==
    /\ pc = "up" /\ job # NoJob /\ job.phase = "written"
    /\ Fault
    /\ IF JournalStale
       THEN UNCHANGED app /\ job' = [job EXCEPT !.phase = "rollback"]
       ELSE app' = Toggled /\ job' = [job EXCEPT !.phase = "restart"]
    /\ UNCHANGED <<disk, os, core, pc, update, edits, orig, exit>>

RollBack ==
    /\ job # NoJob /\ job.phase = "rollback"
    /\ \/ conf' = SetMode(conf, FALSE, job.before) /\ UNCHANGED faults
       \/ Fault /\ UNCHANGED conf
    /\ job' = [job EXCEPT !.phase = "unjournal"]
    /\ UNCHANGED <<file, os, core, pc, app, update, edits, orig, exit>>

Unjournal ==
    /\ job # NoJob /\ job.phase = "unjournal"
    /\ \/ file' = Saved(app, Persisted(app, NoJob)) /\ UNCHANGED faults
       \/ Fault /\ UNCHANGED file
    /\ job' = NoJob
    /\ UNCHANGED <<conf, os, core, pc, app, update, edits, orig, exit>>

RestartCore ==
    /\ job # NoJob /\ job.phase = "restart"
    /\ core' = Started
    /\ job' = NoJob
    /\ UNCHANGED <<disk, os, pc, app, update, faults, edits, orig, exit>>

(* The old process cannot be stopped, or the new one does not start.          *)
RestartFails ==
    /\ job # NoJob /\ job.phase = "restart"
    /\ Fault
    /\ core' \in {core, Stopped}
    /\ job' = NoJob
    /\ UNCHANGED <<disk, os, pc, app, update, edits, orig, exit>>

-----------------------------------------------------------------------------
(* The system proxy.                                                          *)

ToggleProxy ==
    /\ pc = "up" /\ ~Busy /\ update = NoJob
    /\ app' = [app EXCEPT !.shown = os]
    /\ update' = [enable |-> ~os, phase |-> "queued"]
    /\ UNCHANGED <<disk, os, core, pc, job, faults, edits, orig, exit>>

ProxyApplies ==
    /\ update # NoJob /\ update.phase = "queued"
    /\ os' = update.enable
    /\ update' = [update EXCEPT !.phase = "done"]
    /\ UNCHANGED <<disk, core, pc, app, job, faults, edits, orig, exit>>

ProxyFails ==
    /\ update # NoJob /\ update.phase = "queued"
    /\ Fault
    /\ os' \in BOOLEAN
    /\ update' = [update EXCEPT !.phase = "failed"]
    /\ UNCHANGED <<disk, core, pc, app, job, edits, orig, exit>>

(* Only what the OS confirms becomes the user's intent, and is saved.         *)
PollProxy ==
    /\ pc = "up" /\ ~Busy /\ update # NoJob /\ update.phase # "queued"
    /\ update' = NoJob
    /\ IF update.phase = "done" /\ os = update.enable
       THEN /\ app' = [app EXCEPT !.shown = os, !.intent = Choice(os)]
            /\ \/ file' = Saved(app', Persisted(app', job)) /\ UNCHANGED faults
               \/ Fault /\ UNCHANGED file
       ELSE app' = [app EXCEPT !.shown = os] /\ UNCHANGED <<file, faults>>
    /\ UNCHANGED <<conf, os, core, pc, job, edits, orig, exit>>

(* Any other handler that saves the runtime state.                            *)
SaveState ==
    /\ pc = "up" /\ ~Busy
    /\ file' = Saved(app, Persisted(app, job))
    /\ UNCHANGED <<conf, os, core, pc, app, job, update, faults, edits, orig,
                   exit>>

-----------------------------------------------------------------------------
(* The way out: shutdown_runtime_environment, step by step.                   *)

Leaving(kind) ==
    exit' = [kind |-> kind, os |-> os, explicit |-> app.explicit,
             tun |-> app.enabled]

(* Fault: the state is not saved before the modes are taken down.             *)
BugQuit ==
    /\ pc = "up" /\ job = NoJob /\ update = NoJob
    /\ pc' = "unproxy" /\ Leaving("quit")
    /\ UNCHANGED <<disk, os, core, app, job, update, faults, edits, orig>>

(* q is refused while a transition runs.                                      *)
Quit ==
    /\ pc = "up" /\ job = NoJob /\ update = NoJob
    /\ pc' = "save" /\ Leaving("quit")
    /\ UNCHANGED <<disk, os, core, app, job, update, faults, edits, orig>>

(* An error ends the event loop, whatever is running.                         *)
LoopFails ==
    /\ Crashes /\ pc = "up" /\ ~Busy
    /\ pc' = "save" /\ Leaving("error")
    /\ UNCHANGED <<disk, os, core, app, job, update, faults, edits, orig>>

Down ==
    /\ pc' = "down" /\ app' = Blank /\ job' = NoJob /\ update' = NoJob

(* B: save, and leave sing-box and both modes as they are.                    *)
LeaveRunning ==
    /\ pc = "up" /\ job = NoJob /\ update = NoJob
    /\ file' = Saved(app, Persisted(app, NoJob))
    /\ Down /\ Leaving("background")
    /\ core' = [core EXCEPT !.ours = FALSE]
    /\ UNCHANGED <<conf, os, faults, edits, orig>>

ExitSaves ==
    /\ pc = "save"
    /\ \/ file' = Saved(app, Persisted(app, job)) /\ UNCHANGED faults
       \/ Fault /\ UNCHANGED file
    /\ pc' = "unproxy"
    /\ UNCHANGED <<conf, os, core, app, job, update, edits, orig, exit>>

(* Fault: the proxy is suspended in the middle of an update.                  *)
BugSuspendable == TRUE

Suspendable == update = NoJob

(* pc "untun" goes on to stop the core, pc "leave" to keep it.                *)
SuspendProxy ==
    /\ pc = "unproxy" /\ Suspendable
    /\ os' = FALSE
    /\ app' = [app EXCEPT !.shown = FALSE]
    /\ pc' = "untun"
    /\ UNCHANGED <<disk, core, job, update, faults, edits, orig, exit>>

SuspendProxyFails ==
    /\ pc = "unproxy"
    /\ IF Suspendable
       THEN Fault /\ (os \/ app.intent = "on") /\ os' \in BOOLEAN
       ELSE UNCHANGED <<faults, os>>
    /\ pc' = "leave"
    /\ UNCHANGED <<disk, core, app, job, update, edits, orig, exit>>

(* InternetTunTransaction::suspend_for_exit, whose failure is only reported.  *)
SuspendTun ==
    /\ pc \in {"untun", "leave"}
    /\ IF conf.managed /\ job = NoJob
       THEN \/ conf' = SetMode(conf, FALSE, app.restore) /\ UNCHANGED faults
            \/ Fault /\ UNCHANGED conf
       ELSE UNCHANGED <<conf, faults>>
    /\ pc' = IF pc = "untun" THEN "stop" ELSE "left"
    /\ UNCHANGED <<file, os, core, app, job, update, edits, orig, exit>>

(* shutdown, and once more when ManagedSingBox is dropped.                    *)
StopCore ==
    /\ pc = "stop"
    /\ \/ core' = (IF core.ours THEN Stopped ELSE core) /\ UNCHANGED faults
       \/ Fault /\ core' = [core EXCEPT !.ours = FALSE]
    /\ Down
    /\ UNCHANGED <<disk, os, edits, orig, exit>>

KeepCore ==
    /\ pc = "left"
    /\ core' = [core EXCEPT !.ours = FALSE]
    /\ Down
    /\ UNCHANGED <<disk, os, faults, edits, orig, exit>>

(* Killed: nothing is cleaned up, and the child process lives on.             *)
Crash ==
    /\ Crashes /\ pc # "down"
    /\ Down
    /\ core' = [core EXCEPT !.ours = FALSE]
    /\ exit' = [NoExit EXCEPT !.kind = "crash"]
    /\ UNCHANGED <<disk, os, faults, edits, orig>>

-----------------------------------------------------------------------------
(* The rest of the world.                                                     *)

CoreExits ==
    /\ core.run
    /\ core' = Stopped
    /\ UNCHANGED <<disk, os, pc, app, job, update, faults, edits, orig, exit>>

(* The user edits the route setting, or adds or removes an inbound of theirs. *)
EditConfig ==
    /\ edits < MaxEdits /\ edits' = edits + 1
    /\ pc \in {"down", "up"}
    /\ job = NoJob \/ (RacingEdits /\ ~Busy)
    /\ \/ \E a \in Autos \ {conf.auto} :
            /\ a = "route_missing" => ~conf.baseline
            /\ conf' = [conf EXCEPT !.auto = a]
       \/ \E f \in {"none", "tun", "tag"} \ {conf.foreign} :
            conf' = [conf EXCEPT !.foreign = f]
    /\ UNCHANGED <<file, os, core, pc, app, job, update, faults, orig, exit>>

Startup ==
    \/ Launch \/ StepFails \/ ReconcileRefuses \/ ReconcileNotes
    \/ ReconcileRepairs \/ Reconcile
    \/ ReconcileEnables \/ ReconcileDisables \/ ReconcileClears
    \/ EnsureBaseline \/ StartRefuses \/ StartCore \/ StartFails
    \/ ReconcileProxy \/ ReconcileProxyFails \/ Join

Tun ==
    \/ StartToggle \/ WorkerWrites \/ WorkerFails \/ FinishFailed
    \/ FinishSaves \/ FinishUnsaved \/ RollBack \/ Unjournal
    \/ RestartCore \/ RestartFails

Proxy == ToggleProxy \/ ProxyApplies \/ ProxyFails \/ PollProxy \/ SaveState

Leave ==
    \/ Quit \/ LoopFails \/ LeaveRunning \/ ExitSaves \/ SuspendProxy
    \/ SuspendProxyFails \/ SuspendTun \/ StopCore \/ KeepCore \/ Crash

Next == Startup \/ Tun \/ Proxy \/ Leave \/ CoreExits \/ EditConfig

Spec == Init /\ [][Next]_vars

-----------------------------------------------------------------------------
(* Correctness.                                                               *)

Points ==
    {"down", "load", "enable", "clear", "cleared", "base", "core", "proxy",
     "join", "up", "save", "unproxy", "untun", "leave", "stop", "left"}

Confs ==
    [managed : BOOLEAN, foreign : {"none", "tun", "tag"}, auto : Autos, baseline : BOOLEAN]
Files == [tun : Choices, restore : Restores, proxy : Choices, sel : BOOLEAN]
Cores == [run : BOOLEAN, tun : BOOLEAN, ours : BOOLEAN]
Apps ==
    [enabled : BOOLEAN, explicit : BOOLEAN, restore : Restores, intent : Choices,
     shown : BOOLEAN, known : BOOLEAN]
Exits ==
    [kind : {"none", "abort", "quit", "error", "background", "crash"},
     os : BOOLEAN, explicit : BOOLEAN, tun : BOOLEAN]

(* Every variable has its type; in particular the config always says          *)
(* something definite about the route setting.                                *)
TypeOK ==
    /\ conf \in Confs /\ file \in Files /\ os \in BOOLEAN /\ core \in Cores
    /\ pc \in Points /\ app \in Apps
    /\ job \in Jobs \cup {NoJob} /\ update \in Updates \cup {NoJob}
    /\ faults \in 0..MaxFaults /\ edits \in 0..MaxEdits
    /\ orig \in Restores /\ exit \in Exits

Field(auto) == IF auto = "route_missing" THEN "field_missing" ELSE auto

(* docs/tun-mode.md: whenever the managed TUN leaves the config, by a toggle, *)
(* on exit or in the recovery of an interrupted toggle, the route setting it  *)
(* replaced comes back, unless a custom TUN has taken it over.                *)
DisableRestores ==
    [][(conf.managed /\ ~conf'.managed /\ conf.foreign # "tun"
        /\ orig # NoRestore)
           => Field(conf'.auto) = Field(orig)]_vars

(* A process that is up, with no toggle running, agrees with the config about *)
(* the TUN, and so does the sing-box it runs, whatever was interrupted before *)
(* (reconcile, finish_toggle).  Not so when the journal went stale by an edit *)
(* and neither the state nor the roll-back could be written (reported only).  *)
ModeAgrees ==
    pc = "up" /\ job = NoJob /\ (RacingEdits => faults <= 1) =>
        /\ app.enabled = conf.managed
        /\ core.run /\ faults = 0 => core.tun = conf.managed

(* shutdown_runtime_environment never stops sing-box while the OS still sends *)
(* its traffic there: the machine would be offline.                           *)
NoDanglingProxy ==
    [][pc = "stop" /\ core.run /\ ~core'.run => ~os']_vars

(* What a quit takes down comes back at the next start: the file then names   *)
(* the proxy mode that was on, and the TUN mode the user chose.               *)
QuitKeepsModes ==
    pc = "down" /\ exit.kind = "quit" /\ faults = 0 =>
        /\ file.proxy = Choice(exit.os)
        /\ exit.explicit => file.tun = Choice(exit.tun)

(* README.md: the state file records the selected node of each group.         *)
SelectionsSurvive == pc = "down" => file.sel
=============================================================================
