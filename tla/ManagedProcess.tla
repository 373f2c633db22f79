--------------------------- MODULE ManagedProcess ---------------------------
(***************************************************************************)
(* ManagedSingBox (managed_sing_box.rs) and the macOS broker it may use    *)
(* (macos_privileged_helper.rs): who starts, adopts, signals and reaps the *)
(* sing-box process of one config.  Several TUIs (Managers), a user who    *)
(* runs sing-box by hand and the operating system, which hands a freed pid *)
(* to somebody else, share one process table and one listening port.       *)
(*                                                                         *)
(* Time is abstracted: a grace period or a deadline may end at any moment. *)
(* Reading a start token, verifying it and running kill(1) is one step:    *)
(* a pid is reused in seconds, not between two system calls.               *)
(***************************************************************************)
EXTENDS Naturals, FiniteSets

CONSTANTS Managers,    \* the TUIs
          Platforms,   \* subset of {"sudo", "helper"}
          MaxPid,      \* pids
          MaxInst,     \* how often one pid can be used
          MaxAttempts, \* SING_BOX_START_MAX_ATTEMPTS
          MaxFaults    \* commands and requests that fail, processes that die

ASSUME PlatformsAssumption == Platforms # {} /\ Platforms \subseteq {"sudo", "helper"}
ASSUME ManagersAssumption ==
    Managers \cap {"none", "user", "past", "untold", "other", "init", "helper", "sudo"} = {}
ASSUME LimitsAssumption == /\ {MaxInst, MaxFaults} \subseteq Nat
                           /\ {MaxPid, MaxAttempts} \subseteq Nat \ {0}

VARIABLES platform, \* how a privileged sing-box is started
          tun,      \* the config has a TUN inbound: sing-box needs root
          proc,     \* the process table
          port,     \* the pid that listens, 0: nobody
          mgr,      \* the ManagedSingBox of each TUI and its control point
          helper,   \* the broker: running, its process, its pid file, its request
          wrong,    \* ways in which a process was signalled by mistake
          faults

vars == <<platform, tun, proc, port, mgr, helper, wrong, faults>>

Pids == 1..MaxPid
\* Who started a process: a manager, one that is gone, one that was never told of it.
Originators == Managers \cup {"none", "user", "past", "untold", "other"}
Pcs == {"down", "idle", "begin", "stop", "grace", "reap", "spawn", "started",
        "resolve", "cleanup", "cleaning", "ending", "ready", "exit", "halting", "restarting"}
Ops == {"none", "start", "restart", "rollback", "quit", "drop"}

-----------------------------------------------------------------------------
(* The process table.                                                      *)

NoProcess(inst) ==
    [kind |-> "none", st |-> "up", parent |-> 0, reaper |-> "init", by |-> "none",
     inst |-> inst, conflict |-> FALSE]

NewProcess(inst, kind, parent, reaper, by) ==
    [NoProcess(inst + 1) EXCEPT !.kind = kind, !.st = "start", !.parent = parent, !.reaper = reaper,
                               !.by = by]

Free == {p \in Pids : proc[p].kind = "none" /\ proc[p].inst < MaxInst}

\* process_may_be_alive: a zombie has exited.
Alive(p) == p # 0 /\ proc[p].kind # "none" /\ proc[p].st # "zombie"

\* command_matches_sing_box_run_for_config; process_matches in the broker.
Matches(p) == Alive(p) /\ proc[p].kind = "core"

\* find_sing_box_run_pids_for_config
Running == {p \in Pids : Matches(p)}

\* process_descendant_pids of a sudo wrapper
Descendants(w) == {p \in Pids : Alive(p) /\ w # 0 /\ proc[p].parent = w}

\* Its parent still has to wait for it.
Waited(pr, p) == \/ pr[p].reaper \in Managers /\ mgr[pr[p].reaper].pc # "down"
                 \/ pr[p].reaper = "helper" /\ helper.up

\* A sudo wrapper exits with its child.
Gone(pr, S) == S \cup {p \in Pids : pr[p].kind = "sudo" /\ \E c \in S : pr[c].parent = p}

\* The table after the processes of S exited; what they leave behind is orphaned.
Exited(pr, S, conflict) ==
    [p \in Pids |->
        IF p \in Gone(pr, S)
        THEN IF Waited(pr, p) THEN [pr[p] EXCEPT !.st = "zombie", !.conflict = conflict]
             ELSE NoProcess(pr[p].inst)
        ELSE [pr[p] EXCEPT !.parent = IF @ \in Gone(pr, S) THEN 0 ELSE @]]

Reaped(pr, S) == [p \in Pids |-> IF p \in S /\ pr[p].st = "zombie" THEN NoProcess(pr[p].inst)
                                 ELSE pr[p]]

\* The processes of S run, and who they were started for will not learn it.
Untell(pr, S) == [p \in Pids |-> IF p \in S THEN [pr[p] EXCEPT !.by = "untold"] ELSE pr[p]]

PortAfter(S) == IF port \in S THEN 0 ELSE port

Blank == [pc |-> "down", op |-> "none", own |-> "stopped", pid |-> 0, wrapper |-> 0,
          policy |-> "stop", elevate |-> FALSE, tries |-> 0, token |-> 0, todo |-> {},
          err |-> FALSE]

\* The broker: its process, and the request it serves (job) for a client.
Broker == [up |-> FALSE, how |-> "none", pid |-> 0, file |-> 0,
           job |-> "idle", client |-> "none", fresh |-> 0]

Fault == faults < MaxFaults /\ faults' = faults + 1

Init == /\ platform \in Platforms
        /\ tun \in BOOLEAN
        /\ proc = [p \in Pids |-> NoProcess(0)]
        /\ port = 0
        /\ mgr = [m \in Managers |-> Blank]
        /\ helper = [Broker EXCEPT !.up = platform = "helper"]
        /\ wrong = {}
        /\ faults = 0

\* Every variable keeps its type.
Processes ==
    [kind : {"none", "core", "sudo", "other"}, st : {"start", "up", "zombie"},
     parent : 0..MaxPid, reaper : Managers \cup {"init", "sudo", "helper"},
     by : Originators, inst : 0..MaxInst, conflict : BOOLEAN]
Owners ==
    [pc : Pcs, op : Ops, own : {"stopped", "direct", "elevated", "helper"},
     pid : 0..MaxPid, wrapper : 0..MaxPid, policy : {"stop", "leave"},
     elevate : BOOLEAN, tries : 0..MaxAttempts, token : 0..MaxInst,
     todo : SUBSET Pids, err : BOOLEAN]
Brokers == [up : BOOLEAN, how : {"none", "child", "recovered"},
            pid : 0..MaxPid, file : 0..MaxPid,
            job : {"idle", "stopped", "spawned", "done", "failed"},
            client : Managers \cup {"none", "past"}, fresh : 0..MaxPid]
TypeOK ==
    /\ platform \in Platforms /\ tun \in BOOLEAN
    /\ proc \in [Pids -> Processes] /\ port \in 0..MaxPid
    /\ mgr \in [Managers -> Owners] /\ helper \in Brokers
    /\ wrong \subseteq {"stop", "cleanup", "helper", "helper-other"}
    /\ faults \in 0..MaxFaults

-----------------------------------------------------------------------------
(* The operations of a manager: control between their steps.               *)

Step(m, pc) == mgr[m].pc = pc
Quiet == UNCHANGED <<platform, tun, proc, port, helper, wrong>>

\* An operation fails: a start ends the TUI, a restart only reports.
OpFails(m, r) ==
    mgr' = [mgr EXCEPT ![m] =
               [r EXCEPT !.pc = IF r.op = "start" THEN "exit" ELSE "idle", !.op = "none",
                         !.tries = 0, !.elevate = FALSE]]

\* stop_owned_process succeeded.
StopDone(m) ==
    mgr' = [mgr EXCEPT ![m] =
               [@ EXCEPT !.own = "stopped", !.pid = 0, !.wrapper = 0, !.token = 0,
                         !.pc = IF mgr[m].op \in {"start", "restart"} THEN "spawn" ELSE "exit"]]

\* Fault: a failed stop forgets the process.
BugStopFails(m) ==
    mgr' = [mgr EXCEPT ![m] =
               [@ EXCEPT !.own = "stopped", !.pid = 0, !.wrapper = 0, !.token = 0,
                         !.op = IF mgr[m].op = "restart" THEN "none" ELSE "drop",
                         !.pc = IF mgr[m].op = "restart" THEN "idle" ELSE "exit"]]

\* It failed: the ownership stays; who is leaving tries once more in drop.
StopFails(m) ==
    mgr' = [mgr EXCEPT ![m] =
               [@ EXCEPT !.token = 0,
                         !.op = IF mgr[m].op = "restart" THEN "none" ELSE "drop",
                         !.pc = CASE mgr[m].op = "restart" -> "idle"
                                  [] mgr[m].op = "drop" -> "exit"
                                  [] OTHER -> "stop"]]

Launch(m, policy) ==
    /\ Step(m, "down")
    /\ mgr' = [mgr EXCEPT ![m].pc = "begin", ![m].op = "start", ![m].policy = policy]
    /\ Quiet /\ UNCHANGED faults

UserRestart(m) ==
    /\ Step(m, "idle")
    /\ mgr' = [mgr EXCEPT ![m].pc = "begin", ![m].op = "restart"]
    /\ Quiet /\ UNCHANGED faults

\* shutdown: the policy may say that the process is left running.
UserQuit(m) ==
    /\ Step(m, "idle")
    /\ mgr' = [mgr EXCEPT ![m].op = "quit",
                          ![m].pc = IF mgr[m].policy = "leave" THEN "exit" ELSE "stop"]
    /\ Quiet /\ UNCHANGED faults

LeaveRunning(m) ==
    /\ Step(m, "idle") /\ mgr[m].policy = "stop"
    /\ mgr' = [mgr EXCEPT ![m].policy = "leave"]
    /\ Quiet /\ UNCHANGED faults

ToggleTun(m) ==
    /\ Step(m, "idle")
    /\ tun' = ~tun
    /\ UNCHANGED <<platform, proc, port, mgr, helper, wrong, faults>>

\* The TUI is gone: its zombies are reaped, what still runs belongs to nobody.
\* The broker finishes the request it reads no more answer for.
Leaves(m) ==
    /\ mgr' = [mgr EXCEPT ![m] = Blank]
    /\ proc' = [p \in Pids |->
                   IF proc[p].reaper = m /\ proc[p].st = "zombie" THEN NoProcess(proc[p].inst)
                   ELSE [proc[p] EXCEPT !.by = IF @ = m THEN "past" ELSE @,
                                        !.reaper = IF @ = m THEN "init" ELSE @]]
    /\ helper' = [helper EXCEPT !.client = IF @ = m THEN "past" ELSE @]
    /\ UNCHANGED <<platform, tun, port, wrong>>

Exit(m) == Step(m, "exit") /\ Leaves(m) /\ UNCHANGED faults

Crash(m) == ~Step(m, "down") /\ Leaves(m) /\ Fault

\* restart up to the stop of the owned process: a process of the broker that
\* this manager did not start is refused.  The broker answers when it is free.
Begin(m) ==
    /\ Step(m, "begin")
    /\ mgr[m].own = "stopped" => helper.job = "idle"
    /\ IF mgr[m].own = "stopped" /\ platform = "helper" /\ (~helper.up \/ Matches(helper.pid))
       THEN OpFails(m, mgr[m])
       ELSE mgr' = [mgr EXCEPT ![m].elevate = tun, ![m].tries = 0,
                               ![m].pc = IF mgr[m].own = "helper" THEN "spawn" ELSE "stop"]
    /\ Quiet /\ UNCHANGED faults

-----------------------------------------------------------------------------
(* Stopping the owned process.                                             *)

\* Signals to the live processes of S that manager m did not start.
Mistaken(m, how, S) == {how : p \in {q \in S : Alive(q) /\ proc[q].by # m}}

StopNothing(m) ==
    /\ Step(m, "stop") /\ mgr[m].own = "stopped"
    /\ StopDone(m) /\ Quiet /\ UNCHANGED faults

\* stop_sing_box_child: SIGKILL and wait; a child that exited is only reaped.
StopDirect(m) ==
    LET S == {mgr[m].pid}
    IN /\ Step(m, "stop") /\ mgr[m].own = "direct"
       /\ \/ /\ proc' = Reaped(Exited(proc, {p \in S : Alive(p)}, FALSE), S)
             /\ port' = PortAfter(S)
             /\ wrong' = wrong \cup Mistaken(m, "stop", S)
             /\ StopDone(m) /\ UNCHANGED <<platform, tun, helper, faults>>
          \/ Fault /\ StopFails(m) /\ Quiet

\* Fault: the start token is not compared again before the second signal.
BugVerified(m, token) == Alive(mgr[m].pid)

\* verify_process_instance_before_force_stop with the identity check of an
\* elevated process: same instance, below the wrapper, running this config.
Verified(m, token) ==
    /\ proc[mgr[m].pid].inst = token
    /\ mgr[m].pid \in Descendants(mgr[m].wrapper)
    /\ Matches(mgr[m].pid)

\* SIGTERM through sudo, which the process may obey or not.
StopElevated(m) ==
    LET p == mgr[m].pid
    IN /\ Step(m, "stop") /\ mgr[m].own = "elevated"
       /\ CASE ~Alive(p) -> mgr' = [mgr EXCEPT ![m].pc = "reap"] /\ Quiet /\ UNCHANGED faults
            [] Alive(p) /\ Verified(m, proc[p].inst) ->
                 \/ /\ mgr' = [mgr EXCEPT ![m].pc = "grace", ![m].token = proc[p].inst]
                    /\ wrong' = wrong \cup Mistaken(m, "stop", {p})
                    /\ \E S \in {{}, {p}} : proc' = Exited(proc, S, FALSE) /\ port' = PortAfter(S)
                    /\ UNCHANGED <<platform, tun, helper, faults>>
                 \/ Fault /\ StopFails(m) /\ Quiet
            [] OTHER -> StopFails(m) /\ Quiet /\ UNCHANGED faults

\* The grace period is over: SIGKILL, if it is still the same instance.
GraceOver(m) ==
    LET p == mgr[m].pid
    IN /\ Step(m, "grace")
       /\ CASE ~Alive(p) -> mgr' = [mgr EXCEPT ![m].pc = "reap"] /\ Quiet /\ UNCHANGED faults
            [] Alive(p) /\ Verified(m, mgr[m].token) ->
                 \/ /\ mgr' = [mgr EXCEPT ![m].pc = "reap"]
                    /\ wrong' = wrong \cup Mistaken(m, "stop", {p})
                    /\ proc' = Exited(proc, {p}, FALSE) /\ port' = PortAfter({p})
                    /\ UNCHANGED <<platform, tun, helper, faults>>
                 \/ Fault /\ StopFails(m) /\ Quiet
            [] OTHER -> StopFails(m) /\ Quiet /\ UNCHANGED faults

\* stop_elevated_sing_box_child: the wrapper is unreaped, so its pid is its own.
ReapWrapper(m) ==
    LET S == {mgr[m].wrapper}
    IN /\ Step(m, "reap")
       /\ proc' = Reaped(Exited(proc, {p \in S : Alive(p)}, FALSE), S)
       /\ wrong' = wrong \cup Mistaken(m, "stop", S)
       /\ StopDone(m) /\ UNCHANGED <<platform, tun, port, helper, faults>>

-----------------------------------------------------------------------------
(* Starting one.                                                           *)

Spawned(m) ==
    [mgr[m] EXCEPT !.pc = IF mgr[m].op = "start" THEN "ready" ELSE "idle",
                   !.op = IF @ = "start" THEN @ ELSE "none",
                   !.tries = 0, !.elevate = FALSE]

\* restart_sing_box_for_config: a process of somebody else is never replaced.
SpawnRefused(m) ==
    /\ Step(m, "spawn") /\ platform = "sudo" /\ mgr[m].tries = 0 /\ Running # {}
    /\ OpFails(m, mgr[m]) /\ Quiet /\ UNCHANGED faults

\* One attempt of spawn_sing_box_with_bind_retry: sing-box, or sudo in front of it.
Spawn(m) ==
    /\ Step(m, "spawn") /\ platform = "sudo" /\ (mgr[m].tries > 0 \/ Running = {})
    /\ \E p \in Free :
          /\ proc' = [proc EXCEPT ![p] = NewProcess(proc[p].inst, IF mgr[m].elevate THEN "sudo" ELSE "core", 0, m, m)]
          /\ mgr' = [mgr EXCEPT ![m] =
                        [@ EXCEPT !.pc = "started", !.tries = mgr[m].tries + 1,
                                  !.pid = IF mgr[m].elevate THEN 0 ELSE p,
                                  !.wrapper = IF mgr[m].elevate THEN p ELSE 0]]
    /\ UNCHANGED <<platform, tun, port, helper, wrong, faults>>

SpawnFails(m) ==
    /\ Step(m, "spawn") /\ Fault
    /\ OpFails(m, mgr[m]) /\ Quiet

\* Fault: one attempt too many.
BugRetries(m, c) == proc[c].conflict /\ mgr[m].tries <= MaxAttempts

\* sing_box_log_reports_bind_conflict on the output of this attempt.
Retries(m, c) == proc[c].conflict /\ mgr[m].tries < MaxAttempts

\* What the manager waits for: sing-box, or sudo in front of it.
Child(m) == IF mgr[m].wrapper # 0 THEN mgr[m].wrapper ELSE mgr[m].pid

\* After the start-up grace: try_wait on the child.
Started(m) ==
    LET c == Child(m)
        failed == [mgr[m] EXCEPT !.pid = 0, !.wrapper = 0]
    IN /\ Step(m, "started")
       /\ \/ /\ Alive(c)
             /\ mgr' = [mgr EXCEPT ![m] = IF mgr[m].elevate THEN [@ EXCEPT !.pc = "resolve"]
                                          ELSE [Spawned(m) EXCEPT !.own = "direct"]]
             /\ Quiet /\ UNCHANGED faults
          \/ /\ ~Alive(c)
             /\ IF Retries(m, c)
                THEN mgr' = [mgr EXCEPT ![m] = [failed EXCEPT !.pc = "spawn"]]
                ELSE OpFails(m, failed)
             /\ proc' = Reaped(proc, {c})
             /\ UNCHANGED <<platform, tun, port, helper, wrong, faults>>
          \/ Fault /\ mgr' = [mgr EXCEPT ![m].pc = "cleanup"] /\ Quiet

\* select_owned_sing_box_pid; without a match in five seconds the start is undone.
Resolve(m) ==
    LET found == Running \cap Descendants(mgr[m].wrapper)
    IN /\ Step(m, "resolve")
       /\ \/ /\ \E p \in found : mgr' = [mgr EXCEPT ![m] = [Spawned(m) EXCEPT !.own = "elevated", !.pid = p]]
             /\ UNCHANGED faults
          \/ /\ IF found = {} THEN UNCHANGED faults ELSE Fault
             /\ mgr' = [mgr EXCEPT ![m].pc = "cleanup"]
       /\ Quiet

\* cleanup_uncommitted_sing_box_child: a child that exited is reaped, the others
\* below it are listed.
Cleanup(m) ==
    LET c == Child(m)
        exited == {q \in {c} : ~Alive(q)}
    IN /\ Step(m, "cleanup")
       /\ \/ /\ mgr' = [mgr EXCEPT ![m].pc = "cleaning", ![m].todo = Descendants(c),
                                   ![m].pid = IF c \in exited THEN 0 ELSE @,
                                   ![m].wrapper = IF c \in exited THEN 0 ELSE @]
             /\ UNCHANGED faults
          \/ /\ Fault  \* ps fails
             /\ mgr' = [mgr EXCEPT ![m].pc = "ending", ![m].err = TRUE,
                                   ![m].pid = IF c \in exited THEN 0 ELSE @,
                                   ![m].wrapper = IF c \in exited THEN 0 ELSE @]
       /\ proc' = Reaped(proc, exited)
       /\ UNCHANGED <<platform, tun, port, helper, wrong>>

\* stop_sing_box_pid_escalating, one listed pid after the other.
CleanDescendant(m, p) ==
    LET S == {q \in {p} : Alive(q)}
    IN /\ Step(m, "cleaning") /\ p \in mgr[m].todo
       /\ \/ /\ mgr' = [mgr EXCEPT ![m].todo = @ \ {p}]
             /\ proc' = Exited(proc, S, FALSE) /\ port' = PortAfter(S)
             /\ wrong' = wrong \cup Mistaken(m, "cleanup", S)
             /\ UNCHANGED <<platform, tun, helper, faults>>
          \/ Fault /\ mgr' = [mgr EXCEPT ![m].todo = @ \ {p}, ![m].err = TRUE] /\ Quiet

\* The second listing: what sudo forked in the meantime is reported, not stopped.
CleanRelist(m) ==
    /\ Step(m, "cleaning") /\ mgr[m].todo = {}
    /\ \/ /\ mgr' = [mgr EXCEPT ![m].pc = "ending", ![m].err = @ \/ Descendants(Child(m)) # {}]
          /\ UNCHANGED faults
       \/ Fault /\ mgr' = [mgr EXCEPT ![m].pc = "ending", ![m].err = TRUE]  \* ps fails
    /\ Quiet

\* The child itself, if it had not exited before.  Sudo passes the signal on to
\* what it runs, or not; what it forked behind the second listing may stay alive.
CleanChild(m) ==
    LET c == Child(m)
        r == [mgr[m] EXCEPT !.todo = {}, !.pid = 0, !.wrapper = 0]
    IN /\ Step(m, "ending")
       /\ \/ /\ \E S \in SUBSET Descendants(c) :
                   LET ended == S \cup {q \in {c} : Alive(q)}
                   IN /\ proc' = Untell(Reaped(Exited(proc, ended, FALSE), {c}), Descendants(c) \ S)
                      /\ port' = PortAfter(ended)
             /\ wrong' = wrong \cup Mistaken(m, "cleanup", {c} \cap Pids)
             /\ OpFails(m, r)
             /\ UNCHANGED <<platform, tun, helper, faults>>
          \/ Fault /\ OpFails(m, [r EXCEPT !.err = TRUE]) /\ Quiet

\* wait_for_controller_ready: whoever listens may answer, in time or not.
Ready(m) ==
    /\ Step(m, "ready")
    /\ \/ port # 0 /\ mgr' = [mgr EXCEPT ![m].pc = "idle", ![m].op = "none"] /\ UNCHANGED faults
       \/ /\ IF port = 0 THEN UNCHANGED faults ELSE Fault
          /\ mgr' = [mgr EXCEPT ![m].op = "rollback",
                                ![m].pc = IF mgr[m].policy = "leave" THEN "exit" ELSE "stop"]
    /\ Quiet

-----------------------------------------------------------------------------
(* The macOS broker: one process, one client at a time.                    *)

\* Fault: a recovered pid is trusted without looking at its command line again.
BugHelperVictims == {p \in {helper.pid} : Alive(p)}

\* ManagedProcess::stop: the process that is signalled, if it still is ours.
HelperVictims == {p \in {helper.pid} : Matches(p)}

HelperMistakes(m) ==
    Mistaken(m, "helper", HelperVictims)
        \cup {"helper-other" : p \in {q \in HelperVictims : proc[q].kind # "core"}}

HelperStops(m) == Reaped(Exited(proc, HelperVictims, FALSE), {helper.pid})

\* send_request: the broker serves one request at a time, and one whose checks
\* pass begins with the stop of its process.
Stops(m) == Step(m, "stop") /\ mgr[m].own = "helper"
Restarts(m) == Step(m, "spawn") /\ platform = "helper"

HelperServes(m) ==
    /\ Stops(m) \/ Restarts(m)
    /\ helper.up /\ helper.job = "idle"
    /\ mgr' = [mgr EXCEPT ![m].pc = IF Stops(m) THEN "halting" ELSE "restarting"]
    /\ \/ /\ proc' = HelperStops(m) /\ port' = PortAfter(HelperVictims)
          /\ wrong' = wrong \cup HelperMistakes(m)
          /\ helper' = [helper EXCEPT !.how = "none", !.pid = 0, !.file = 0, !.client = m,
                                     !.job = IF Stops(m) THEN "done" ELSE "stopped"]
          /\ UNCHANGED faults
       \/ /\ Fault  \* the config is refused, or ps fails
          /\ helper' = [helper EXCEPT !.client = m, !.job = "failed"]
          /\ UNCHANGED <<proc, port, wrong>>
    /\ UNCHANGED <<platform, tun>>

\* The new process is a child in a local variable until its pid is recorded.
HelperSpawns ==
    /\ helper.job = "stopped"
    /\ \/ /\ \E p \in Free :
                /\ proc' = [proc EXCEPT ![p] = NewProcess(proc[p].inst, "core", 0, "helper", helper.client)]
                /\ helper' = [helper EXCEPT !.job = "spawned", !.fresh = p]
          /\ UNCHANGED faults
       \/ Fault /\ helper' = [helper EXCEPT !.job = "failed"] /\ UNCHANGED proc
    /\ UNCHANGED <<platform, tun, port, mgr, wrong>>

\* The pid file; if it cannot be written the child is killed and waited for.
HelperRecords ==
    LET S == {p \in {helper.fresh} : Alive(p)}
    IN /\ helper.job = "spawned"
       /\ \/ /\ helper' = [helper EXCEPT !.job = "done", !.how = "child", !.fresh = 0,
                                          !.pid = helper.fresh, !.file = helper.fresh]
             /\ UNCHANGED <<proc, port, wrong, faults>>
          \/ /\ Fault
             /\ proc' = Reaped(Exited(proc, S, FALSE), {helper.fresh}) /\ port' = PortAfter(S)
             /\ wrong' = wrong \cup {"helper-other" : p \in {q \in S : proc[q].kind # "core"}}
             /\ helper' = [helper EXCEPT !.job = "failed", !.fresh = 0]
       /\ UNCHANGED <<platform, tun, mgr>>

\* The answer, to a client that may be gone.
HelperAnswers ==
    LET m == helper.client
    IN /\ helper.job \in {"done", "failed"}
       /\ helper' = [helper EXCEPT !.job = "idle", !.client = "none"]
       /\ \/ m \notin Managers /\ UNCHANGED mgr
          \/ /\ m \in Managers /\ Step(m, "halting")
             /\ IF helper.job = "done" THEN StopDone(m) ELSE StopFails(m)
          \/ /\ m \in Managers /\ Step(m, "restarting")
             /\ IF helper.job = "done"
                THEN mgr' = [mgr EXCEPT ![m] = [Spawned(m) EXCEPT !.own = "helper", !.pid = helper.pid]]
                ELSE OpFails(m, mgr[m])
       /\ UNCHANGED <<platform, tun, proc, port, wrong, faults>>

\* Nobody listens on the socket.
HelperDown(m) ==
    /\ ~helper.up /\ (Stops(m) \/ Restarts(m))
    /\ IF Stops(m) THEN StopFails(m) ELSE OpFails(m, mgr[m])
    /\ Quiet /\ UNCHANGED faults

\* The broker died before it answered: the manager reports an error and keeps
\* what it knew.
NoAnswer(m) ==
    /\ Step(m, "halting") \/ Step(m, "restarting")
    /\ helper.client # m
    /\ IF Step(m, "halting") THEN StopFails(m) ELSE OpFails(m, mgr[m])
    /\ Quiet /\ UNCHANGED faults

\* What a broker that dies now has started and nobody hears of.
ReplyLost == {p \in Pids : \/ helper.job = "spawned" /\ p = helper.fresh
                           \/ helper.job = "done" /\ p = helper.pid}

\* The daemon is killed, at any point of a request; its child lives on.
HelperCrash ==
    /\ helper.up /\ Fault
    /\ helper' = [Broker EXCEPT !.file = helper.file]
    /\ proc' = [p \in Pids |-> IF proc[p].reaper # "helper" THEN proc[p]
                               ELSE IF proc[p].st = "zombie" THEN NoProcess(proc[p].inst)
                               ELSE [proc[p] EXCEPT !.reaper = "init",
                                                    !.by = IF p \in ReplyLost THEN "untold" ELSE @]]
    /\ UNCHANGED <<platform, tun, port, mgr, wrong>>

\* ManagedProcess::recover: the recorded pid counts if its command line fits.
HelperStart ==
    /\ platform = "helper" /\ ~helper.up
    /\ helper' = IF Matches(helper.file)
                 THEN [helper EXCEPT !.up = TRUE, !.how = "recovered", !.pid = helper.file]
                 ELSE [helper EXCEPT !.up = TRUE, !.how = "none", !.pid = 0, !.file = 0]
    /\ UNCHANGED <<platform, tun, proc, port, mgr, wrong, faults>>

-----------------------------------------------------------------------------
(* The operating system.                                                   *)

\* sudo -n starts sing-box, or has no credentials any more.
SudoExec(w) ==
    /\ proc[w].kind = "sudo" /\ proc[w].st = "start"
    /\ \/ /\ \E p \in Free : proc' = [proc EXCEPT ![w].st = "up",
                                           ![p] = NewProcess(proc[p].inst, "core", w, "sudo", proc[w].by)]
          /\ UNCHANGED faults
       \/ Fault /\ proc' = Exited(proc, {w}, FALSE)
    /\ UNCHANGED <<platform, tun, port, mgr, helper, wrong>>

\* sing-box binds its port, or exits with "address already in use".
Bind(p) ==
    /\ proc[p].kind = "core" /\ proc[p].st = "start"
    /\ IF port = 0 THEN port' = p /\ proc' = [proc EXCEPT ![p].st = "up"]
       ELSE proc' = Exited(proc, {p}, TRUE) /\ UNCHANGED port
    /\ UNCHANGED <<platform, tun, mgr, helper, wrong, faults>>

CoreDies(p) ==
    /\ Matches(p) /\ Fault
    /\ proc' = Exited(proc, {p}, FALSE) /\ port' = PortAfter({p})
    /\ UNCHANGED <<platform, tun, mgr, helper, wrong>>

\* Somebody else gets a freed pid: sing-box by hand, or any other program.
Reuse(p) ==
    /\ p \in Free
    /\ \E k \in {"core", "other"} :
          /\ k = "core" => \A q \in Pids : proc[q].by # "user"
          /\ k = "other" => proc[p].inst > 0
          /\ proc' = [proc EXCEPT ![p] = NewProcess(proc[p].inst, k, 0, "init", IF k = "core" THEN "user" ELSE "other")]
    /\ UNCHANGED <<platform, tun, port, mgr, helper, wrong, faults>>

-----------------------------------------------------------------------------
Control(m) == \/ \E policy \in {"stop", "leave"} : Launch(m, policy)
              \/ UserRestart(m) \/ UserQuit(m) \/ LeaveRunning(m) \/ ToggleTun(m)
              \/ Exit(m) \/ Crash(m) \/ Begin(m)
Stopping(m) == StopNothing(m) \/ StopDirect(m) \/ StopElevated(m) \/ GraceOver(m)
               \/ ReapWrapper(m)
Starting(m) == SpawnRefused(m) \/ Spawn(m) \/ SpawnFails(m) \/ Started(m) \/ Resolve(m)
               \/ Cleanup(m) \/ (\E p \in Pids : CleanDescendant(m, p)) \/ CleanRelist(m) \/ CleanChild(m)
               \/ Ready(m)
Brokered(m) == HelperServes(m) \/ HelperDown(m) \/ NoAnswer(m)

Next == \/ \E m \in Managers : Control(m) \/ Stopping(m) \/ Starting(m) \/ Brokered(m)
        \/ HelperSpawns \/ HelperRecords \/ HelperAnswers \/ HelperCrash \/ HelperStart
        \/ \E p \in Pids : SudoExec(p) \/ Bind(p) \/ CoreDies(p) \/ Reuse(p)

Spec == Init /\ [][Next]_vars

-----------------------------------------------------------------------------
(* Correctness.                                                            *)

\* Whatever happens between the two signals of the stop escalation (the process
\* exits, its pid goes to another program, another TUI or the user starts the
\* same config), a manager signals only processes it started itself; a process
\* left behind by an earlier TUI is not one of them.
SparesOthers == "stop" \notin wrong

\* The broker signals only sing-box processes of the config, also when it was
\* restarted and knows its process only by a pid file.
HelperSparesPrograms == "helper-other" \notin wrong

\* A manager between two operations owns every live sing-box it started, unless
\* it reported that the clean-up of a failed start did not succeed, or such a
\* clean-up hit a pid that was listed and given away since.  Two kinds of process
\* are nobody's, and only these ("untold"): one that the broker had spawned when it
\* was killed before its answer (macos_privileged_helper.rs:219-233), and one that
\* sudo forked between the second listing of a clean-up and the signal to sudo.
NoStrayCore ==
    \A m \in Managers, p \in Pids :
        (Step(m, "idle") /\ Matches(p) /\ proc[p].by = m /\ ~mgr[m].err /\ "cleanup" \notin wrong)
            => mgr[m].own # "stopped" /\ mgr[m].pid = p

\* Together: the manager and the broker end what they started, all of it and
\* nothing else, within the attempts they have.
OwnProcessesOnly == TypeOK /\ SparesOthers /\ HelperSparesPrograms /\ NoStrayCore

\* A known divergence, checked by no run (README): a
\* manager that asks the broker for a stop or a restart hits only a process
\* that it started.
OnlyOwnRestarted == "helper" \notin wrong
=============================================================================
