------------------------- MODULE BackgroundWorkers -------------------------
(***************************************************************************)
(* BackgroundAutoPickManager (auto_pick.rs) and the headless worker it     *)
(* drives (tui_auto_pick_worker.rs): which worker process the TUI follows, *)
(* how it configures, polls, replaces and stops it, the registry file      *)
(* through which a later TUI or the command line finds it, and what the    *)
(* worker does when it is killed, busy or told to stop.                    *)
(*                                                                         *)
(* Only a TUI that started sing-box has a runtime receipt, so one TUI at a *)
(* time manages workers.  A worker stands for its pid, address and token;  *)
(* the receipt, the controller and the targets a snapshot echoes are one   *)
(* number, the epoch of the managed runtime.                               *)
(***************************************************************************)
EXTENDS Naturals

CONSTANTS MaxWorkers,  \* worker processes ever started
          MaxEpoch,    \* managed runtimes ever confirmed
          MaxStatus,   \* status generations of one worker
          MaxLosses    \* crashes, lost requests, failing kills

ASSUME WorkersAssumption == MaxWorkers \in Nat

VARIABLES epoch,    \* the newest managed runtime
          registry, \* background task state file: 0, a worker, or Torn
          wk,       \* the worker processes
          tui,      \* the foreground and its manager
          cli,      \* the stop command: the worker it saw, 0 when it is not running
          mishap,   \* events after which two workers may run
          losses

bgVars == <<epoch, registry, wk, tui, cli, mishap, losses>>

Workers == 1..MaxWorkers
Torn == MaxWorkers + 1    \* truncated, not yet written
Settings == [sel : BOOLEAN, probe : BOOLEAN]
Off == [sel |-> FALSE, probe |-> FALSE]

\* late: the configuration of a request whose sender gave up waiting.
Unused == [st |-> "unused", epoch |-> 0, cfg |-> Off, gen |-> 0, late |-> {}]
Fresh == [up |-> FALSE, cfg |-> Off, receipt |-> 0, run |-> 0, child |-> 0, job |-> 0,
          answer |-> "none", ansEpoch |-> 0, ansGen |-> 0, lastGen |-> 0, stale |-> FALSE,
          pc |-> "idle", after |-> "none", err |-> FALSE]

BgInit == /\ epoch = 1
          /\ registry = 0
          /\ wk = [w \in Workers |-> Unused]
          /\ tui = Fresh
          /\ cli = 0
          /\ mishap = {}
          /\ losses = 0

-----------------------------------------------------------------------------
(* Processes, the file and one control request.                            *)

Loss == losses < MaxLosses /\ losses' = losses + 1

WorkerAlive(w) == w \in Workers /\ wk[w].st \in {"starting", "writing", "up"}
Listening(w) == w \in Workers /\ wk[w].st \in {"writing", "up"}

Dead == [Unused EXCEPT !.st = "dead"]
WithoutWorker(w) == IF WorkerAlive(w) THEN [wk EXCEPT ![w] = Dead] ELSE wk

\* remove_background_task_state_file, whoever is registered by now.
Removes(seen) ==
    /\ registry' = 0
    /\ mishap' = IF WorkerAlive(registry) /\ registry # seen THEN mishap \cup {"removed"} ELSE mishap

\* A worker handles ApplyConfig: the status generation advances.
Configured(w, cfg) ==
    [wk EXCEPT ![w].cfg = cfg, ![w].late = {},
               ![w].gen = IF @ < MaxStatus THEN @ + 1 ELSE @]

\* The request reaches a worker that answers in time.
Answers(w) == w \in Workers /\ wk[w].st = "up"

\* No answer: refused at once when the process is gone; otherwise the request
\* was rejected or lost, or it waits in the queue of a busy worker.
Unanswered(w, cfg) ==
    /\ IF WorkerAlive(w) THEN Loss ELSE UNCHANGED losses
    /\ \/ UNCHANGED wk
       \/ Answers(w) /\ wk' = [wk EXCEPT ![w].late = {cfg}]

Worked == UNCHANGED <<epoch, registry, cli, mishap>>

\* An operation of the manager ends, with an error or without.
Ends(r, err) == tui' = [r EXCEPT !.pc = "idle", !.after = "none", !.child = 0, !.err = err]

-----------------------------------------------------------------------------
(* The user and the life of the TUI.                                       *)

Wanted == tui.cfg.sel \/ tui.cfg.probe
Idle == tui.up /\ tui.pc = "idle"

\* App::new after the managed runtime was confirmed; a saved setting enables it.
TuiStarts(cfg) ==
    /\ ~tui.up
    /\ tui' = [Fresh EXCEPT !.up = TRUE, !.cfg = cfg, !.receipt = epoch,
                            !.pc = IF cfg = Off THEN "idle" ELSE "ensure"]
    /\ Worked /\ UNCHANGED <<wk, losses>>

\* A reload of sing-box confirms a new runtime, or leaves the TUI without one.
Reload(ok) ==
    /\ Idle
    /\ IF ok THEN /\ epoch < MaxEpoch /\ epoch' = epoch + 1
                  /\ tui' = [tui EXCEPT !.receipt = epoch + 1]
       ELSE tui.receipt # 0 /\ tui' = [tui EXCEPT !.receipt = 0] /\ UNCHANGED epoch
    /\ UNCHANGED <<registry, wk, cli, mishap, losses>>

\* Without a receipt background_launch_spec fails and nothing is asked of a worker.
Proceed(r) == IF tui.receipt = 0 THEN Ends(r, TRUE)
            ELSE tui' = [r EXCEPT !.pc = "ensure", !.after = "none", !.err = FALSE]

\* toggle_auto_select: the worker is stopped only when no probe is scheduled.
ToggleSelect ==
    /\ Idle
    /\ LET r == [tui EXCEPT !.cfg.sel = ~@]
       IN IF r.cfg.sel THEN Proceed(r)
          ELSE IF r.cfg.probe THEN tui' = r
          ELSE tui' = [r EXCEPT !.pc = "stop", !.after = "none"]
    /\ Worked /\ UNCHANGED <<wk, losses>>

\* ensure_auto_pick_background_worker_after_state_change
ToggleProbe ==
    /\ Idle
    /\ LET r == [tui EXCEPT !.cfg.probe = ~@]
       IN IF r.cfg # Off THEN Proceed(r) ELSE tui' = [r EXCEPT !.pc = "stop", !.after = "none"]
    /\ Worked /\ UNCHANGED <<wk, losses>>

\* shutdown_managed_sing_box: the worker goes with sing-box ...
Quit ==
    /\ Idle
    /\ tui' = [tui EXCEPT !.pc = "stop", !.after = "quit"]
    /\ Worked /\ UNCHANGED <<wk, losses>>

\* ... or keep_sing_box_running_in_background: both are left running.
Leave ==
    /\ Idle
    /\ IF tui.cfg.sel THEN IF tui.receipt = 0 THEN Ends(tui, TRUE)
                           ELSE tui' = [tui EXCEPT !.pc = "ensure", !.after = "leave"]
       ELSE tui' = Fresh
    /\ Worked /\ UNCHANGED <<wk, losses>>

\* The TUI dies; a worker that has not registered yet is on its own.
TuiDies ==
    /\ tui.up /\ Loss
    /\ tui' = Fresh
    /\ mishap' = IF WorkerAlive(tui.child) THEN mishap \cup {"orphan"} ELSE mishap
    /\ UNCHANGED <<epoch, registry, wk, cli>>

-----------------------------------------------------------------------------
(* ensure                                                                  *)

\* What an answered ApplyConfig means: the worker serves this runtime or not.
Accepts(w) ==
    IF wk[w].epoch = tui.receipt
    THEN IF tui.after = "leave" THEN tui' = Fresh
         ELSE Ends([tui EXCEPT !.run = w], FALSE)
    ELSE tui' = [tui EXCEPT !.run = w, !.pc = "stop", !.after = IF @ = "leave" THEN "leave" ELSE "spawn"]

EnsureFollowed ==
    /\ tui.pc = "ensure" /\ tui.run # 0
    /\ \/ /\ Answers(tui.run)
          /\ wk' = Configured(tui.run, tui.cfg)
          /\ Accepts(tui.run) /\ UNCHANGED losses
       \/ /\ Unanswered(tui.run, tui.cfg)
          /\ IF WorkerAlive(tui.run) THEN Ends(tui, TRUE)
             ELSE tui' = [tui EXCEPT !.run = 0, !.pc = "registered"]
    /\ Worked

\* The worker an earlier TUI left behind, or none, or a file that does not parse.
EnsureRegistered ==
    /\ tui.pc \in {"ensure", "registered"} /\ tui.run = 0
    /\ \/ /\ registry = Torn /\ Ends(tui, TRUE) /\ Worked /\ UNCHANGED <<wk, losses>>
       \/ /\ registry = 0 /\ tui' = [tui EXCEPT !.pc = "spawn"] /\ Worked /\ UNCHANGED <<wk, losses>>
       \/ /\ Answers(registry)
          /\ wk' = Configured(registry, tui.cfg)
          /\ Accepts(registry) /\ Worked /\ UNCHANGED losses
       \/ /\ registry \in Workers
          /\ Unanswered(registry, tui.cfg)
          /\ IF WorkerAlive(registry) THEN Ends(tui, TRUE) /\ Worked
             ELSE /\ tui' = [tui EXCEPT !.pc = "spawn"]
                  /\ Removes(registry) /\ UNCHANGED <<epoch, cli>>

\* spawn up to the start of the process, which may fail.
SpawnWorker ==
    /\ tui.pc = "spawn"
    /\ \/ /\ \E w \in Workers :
                /\ wk[w].st = "unused" /\ \A v \in Workers : v < w => wk[v].st # "unused"
                /\ wk' = [wk EXCEPT ![w].st = "starting", ![w].epoch = tui.receipt]
                /\ tui' = [tui EXCEPT !.pc = "wait", !.child = w]
          /\ UNCHANGED losses
       \/ Loss /\ Ends(tui, TRUE) /\ UNCHANGED wk
    /\ Worked

\* wait_for_background_registry; an unreadable file, a dead child and the
\* deadline all end with child.kill().
WaitRegistry ==
    /\ tui.pc = "wait"
    /\ \/ registry = tui.child /\ tui' = [tui EXCEPT !.pc = "initial"] /\ UNCHANGED <<wk, losses>>
       \/ /\ registry # tui.child
          /\ IF registry = Torn \/ ~WorkerAlive(tui.child) THEN UNCHANGED losses ELSE Loss
          /\ wk' = WithoutWorker(tui.child) /\ Ends(tui, TRUE)
    /\ Worked

\* Fault: the status generation of the old worker is kept.
BugInitialConfig ==
    /\ tui.pc = "initial" /\ Answers(tui.child)
    /\ wk' = Configured(tui.child, tui.cfg)
    /\ IF tui.after = "leave" THEN tui' = Fresh ELSE Ends([tui EXCEPT !.run = tui.child], FALSE)
    /\ Worked /\ UNCHANGED losses

\* The first ApplyConfig; the generations of the new worker count from zero.
InitialConfig ==
    /\ tui.pc = "initial" /\ Answers(tui.child)
    /\ wk' = Configured(tui.child, tui.cfg)
    /\ IF tui.after = "leave" THEN tui' = Fresh
       ELSE Ends([tui EXCEPT !.run = tui.child, !.lastGen = 0], FALSE)
    /\ Worked /\ UNCHANGED losses

\* Not applied, or not echoed: the child is killed, its own entry removed.
InitialConfigFails ==
    /\ tui.pc = "initial"
    /\ IF Answers(tui.child) THEN Loss ELSE UNCHANGED losses
    /\ wk' = WithoutWorker(tui.child)
    /\ registry' = IF registry = tui.child THEN 0 ELSE registry
    /\ Ends(tui, TRUE) /\ UNCHANGED <<epoch, cli, mishap>>

-----------------------------------------------------------------------------
(* stop, also as the first half of restart_stale_target                    *)

\* What follows the stop.
Stopped(r) ==
    CASE r.after = "spawn" -> tui' = [r EXCEPT !.run = 0, !.pc = "spawn", !.after = "none"]
      [] r.after = "leave" -> tui' = [r EXCEPT !.run = 0, !.pc = "spawn"]
      [] r.after = "quit" -> tui' = Fresh
      [] OTHER -> Ends([r EXCEPT !.run = 0], FALSE)

\* A failed stop of the registered worker: a quit goes on all the same.
StopRefused(r) == IF r.after = "quit" THEN tui' = Fresh ELSE Ends(r, TRUE)

\* The worker cancels its probe, answers, unregisters and exits.
Obeys(w) ==
    /\ Answers(w)
    /\ wk' = [wk EXCEPT ![w] = Dead]
    /\ Removes(w)

\* The Stop request; without a followed worker the registered one is meant.
StopAsked ==
    /\ tui.pc = "stop"
    /\ LET w == IF tui.run # 0 THEN tui.run ELSE registry
       IN \/ /\ tui.run = 0 /\ registry = Torn /\ StopRefused(tui)
             /\ UNCHANGED <<registry, wk, mishap, losses>>
          \/ /\ w = 0 /\ Stopped(tui) /\ UNCHANGED <<registry, wk, mishap, losses>>
          \/ /\ w \in Workers /\ tui' = [tui EXCEPT !.pc = "kill", !.child = w]
             /\ \/ Obeys(w) /\ UNCHANGED losses
                \/ /\ IF WorkerAlive(w) THEN Loss ELSE UNCHANGED losses
                   /\ UNCHANGED <<registry, wk, mishap>>
    /\ UNCHANGED <<epoch, cli>>

\* Fault: a worker that ignores the request is not killed.
BugStopKilled ==
    /\ tui.pc = "kill"
    /\ Removes(tui.child) /\ Stopped([tui EXCEPT !.child = 0])
    /\ UNCHANGED <<epoch, wk, cli, losses>>

\* Three seconds later: a process that still runs is killed, the file removed.
StopKilled ==
    /\ tui.pc = "kill"
    /\ wk' = WithoutWorker(tui.child)
    /\ Removes(tui.child) /\ Stopped([tui EXCEPT !.child = 0])
    /\ UNCHANGED <<epoch, cli, losses>>

\* The kill of a worker of an earlier TUI fails: ignored for a followed one.
KillFails ==
    /\ tui.pc = "kill" /\ WorkerAlive(tui.child) /\ Loss
    /\ IF tui.run = 0
       THEN /\ StopRefused([tui EXCEPT !.child = 0]) /\ UNCHANGED registry
            /\ mishap' = mishap \cup {"kill"}
       ELSE /\ Stopped([tui EXCEPT !.child = 0]) /\ registry' = 0
            /\ mishap' = mishap \cup {"kill"}
    /\ UNCHANGED <<epoch, wk, cli>>

-----------------------------------------------------------------------------
(* poll                                                                    *)

CurrentTarget == IF tui.run # 0 THEN tui.run ELSE registry

\* A status request in a thread, or a worker that is missing.
PollStarts ==
    /\ Idle /\ tui.receipt # 0 /\ tui.job = 0
    /\ IF CurrentTarget \in Workers THEN tui' = [tui EXCEPT !.job = CurrentTarget, !.answer = "none"]
       ELSE CurrentTarget = 0 /\ Wanted /\ Proceed(tui)
    /\ Worked /\ UNCHANGED <<wk, losses>>

\* The thread: a snapshot, or an error and whether the process is alive.
StatusArrives ==
    /\ tui.up /\ tui.job # 0 /\ tui.answer = "none"
    /\ \/ /\ Answers(tui.job)
          /\ tui' = [tui EXCEPT !.answer = "snapshot", !.ansEpoch = wk[tui.job].epoch, !.ansGen = wk[tui.job].gen]
          /\ UNCHANGED losses
       \/ /\ IF WorkerAlive(tui.job) THEN Loss ELSE UNCHANGED losses
          /\ tui' = [tui EXCEPT !.answer = IF WorkerAlive(tui.job) THEN "retry" ELSE "gone"]
    /\ Worked /\ UNCHANGED wk

Taken == [tui EXCEPT !.job = 0, !.answer = "none", !.ansEpoch = 0, !.ansGen = 0]
Answered == Idle /\ tui.receipt # 0 /\ tui.answer # "none"

\* The answer counts only for the worker that is followed now.
IsCurrent == CurrentTarget = tui.job

PollDropped ==
    /\ Answered /\ (~IsCurrent \/ tui.answer = "retry")
    /\ tui' = Taken /\ Worked /\ UNCHANGED <<wk, losses>>

\* A worker of this runtime is followed; its status is shown if it is new.
PollSnapshot ==
    /\ Answered /\ IsCurrent /\ tui.answer = "snapshot"
    /\ IF tui.ansEpoch # tui.receipt
       THEN IF tui.run \notin {0, tui.job} THEN Ends(Taken, TRUE)
            ELSE tui' = [Taken EXCEPT !.run = tui.job, !.pc = "stop", !.after = "spawn"]
       ELSE tui' = [Taken EXCEPT !.run = IF @ = 0 THEN tui.job ELSE @,
                                 !.lastGen = IF tui.ansGen > @ THEN tui.ansGen ELSE @,
                                 !.stale = @ \/ (tui.ansGen > tui.lastGen /\ tui.run \notin {0, tui.job})]
    /\ Worked /\ UNCHANGED <<wk, losses>>

\* clear_failed_target, then a new worker if one is wanted.
PollGone ==
    /\ Answered /\ IsCurrent /\ tui.answer = "gone"
    /\ LET r == [Taken EXCEPT !.run = IF @ = tui.job THEN 0 ELSE @]
       IN IF registry = Torn THEN Ends(r, TRUE)
          ELSE IF Wanted THEN tui' = [r EXCEPT !.pc = "ensure", !.after = "none"] ELSE tui' = r
    /\ registry' = IF registry = tui.job THEN 0 ELSE registry
    /\ UNCHANGED <<epoch, wk, cli, mishap, losses>>

-----------------------------------------------------------------------------
(* The worker and the command line.                                        *)

\* HeadlessWorkerControl::start: bind, truncate the file ...
RegisterBegins(w) ==
    /\ wk[w].st = "starting"
    /\ wk' = [wk EXCEPT ![w].st = "writing"]
    /\ registry' = Torn
    /\ mishap' = IF WorkerAlive(registry) THEN mishap \cup {"removed"} ELSE mishap
    /\ UNCHANGED <<epoch, tui, cli, losses>>

\* ... and write it.
RegisterEnds(w) ==
    /\ wk[w].st = "writing"
    /\ wk' = [wk EXCEPT ![w].st = "up"] /\ registry' = w
    /\ UNCHANGED <<epoch, tui, cli, mishap, losses>>

\* A request whose sender gave up is still in the queue.
LateConfig(w) ==
    /\ wk[w].st = "up"
    /\ \E cfg \in wk[w].late : wk' = Configured(w, cfg)
    /\ Worked /\ UNCHANGED <<tui, losses>>

\* publish_background_status_change: a round or a probe changed the status.
Publish(w) ==
    /\ wk[w].st = "up" /\ wk[w].cfg # Off /\ wk[w].gen < MaxStatus
    /\ wk' = [wk EXCEPT ![w].gen = @ + 1]
    /\ Worked /\ UNCHANGED <<tui, losses>>

\* An error ends the loop, or the process is killed: the file stays as it is.
WorkerDies(w) ==
    /\ WorkerAlive(w) /\ Loss
    /\ wk' = [wk EXCEPT ![w] = Dead]
    /\ Worked /\ UNCHANGED tui

\* stop_registered_worker from the command line: its request ...
CliStop ==
    /\ cli = 0 /\ WorkerAlive(registry)
    /\ cli' = registry
    /\ \/ Obeys(registry) /\ UNCHANGED losses
       \/ Loss /\ wk' = WithoutWorker(registry) /\ UNCHANGED <<registry, mishap>>
    /\ UNCHANGED <<epoch, tui>>

\* ... and the removal of the file after the worker is gone.
CliRemoves ==
    /\ cli # 0
    /\ Removes(cli) /\ cli' = 0
    /\ UNCHANGED <<epoch, wk, tui, losses>>

-----------------------------------------------------------------------------
Foreground == \/ \E cfg \in Settings : TuiStarts(cfg)
              \/ \E ok \in BOOLEAN : Reload(ok)
              \/ ToggleSelect \/ ToggleProbe \/ Quit \/ Leave \/ TuiDies
Managing == \/ EnsureFollowed \/ EnsureRegistered \/ SpawnWorker \/ WaitRegistry
            \/ InitialConfig \/ InitialConfigFails \/ StopAsked \/ StopKilled \/ KillFails
            \/ PollStarts \/ StatusArrives \/ PollDropped \/ PollSnapshot \/ PollGone
WorkerSteps == \E w \in Workers : \/ RegisterBegins(w) \/ RegisterEnds(w) \/ LateConfig(w)
                                  \/ Publish(w) \/ WorkerDies(w)

BgNext == Foreground \/ Managing \/ WorkerSteps \/ CliStop \/ CliRemoves

BgSpec == BgInit /\ [][BgNext]_bgVars

-----------------------------------------------------------------------------
(* Correctness.                                                            *)

\* The live workers that switch nodes.
Selecting == {w \in Workers : WorkerAlive(w) /\ wk[w].cfg.sel}

\* Two workers never select at the same time, whatever is replaced, retried or
\* left behind, unless a kill failed, a TUI died before its new worker had
\* registered, or the registry entry of a live worker was removed by somebody
\* who meant another one.
SingleSelector ==
    mishap = {} => \A v, w \in Selecting : v = w

\* The status on display comes from the worker that is followed, and a status
\* that this worker publishes is never taken for an old one.
StatusIsFollowed ==
    /\ ~tui.stale
    /\ WorkerAlive(tui.run) /\ mishap = {} => tui.lastGen <= wk[tui.run].gen

\* Together: one worker selects, and it is the one the TUI follows.
OneWorkerFollowed == SingleSelector /\ StatusIsFollowed

\* A known divergence, checked by no run (README):
\* after automatic selection was turned off, with every operation done and no
\* error reported, no worker switches nodes.
OffMeansOff ==
    (Idle /\ ~tui.cfg.sel /\ ~tui.err /\ mishap = {}) => Selecting = {}
=============================================================================
