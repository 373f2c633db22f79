------------------------ MODULE SubscriptionRefresh ------------------------
(***************************************************************************)
(* A subscription refresh as a run of steps, by the TUI's worker thread    *)
(* and by the `subscriptions` command at the same time: sources and cache  *)
(* are read, every source is resolved from the cache or the network, the   *)
(* cache is saved and the config committed (subscriptions.rs); the TUI     *)
(* polls its worker and reloads sing-box, retrying until it works          *)
(* (tui_subscription_workflow.rs).                                         *)
(*                                                                         *)
(* A payload is a version number; what a payload does to the config is     *)
(* SubscriptionMerge, and the commit (one step here, under the config      *)
(* lock) is NodeQuality.  Instants are abstracted: `due` says that the     *)
(* next reload attempt is not in the future, and a refresh may always be   *)
(* due.                                                                    *)
(***************************************************************************)
EXTENDS Naturals, FiniteSets

CONSTANTS Sources,    \* the providers of .suburl
          MaxVersion, \* bound on the payloads a provider publishes
          MaxRuns,    \* bound on the refresh runs
          MaxFaults   \* bound on failures and kills

VARIABLES server,     \* version each provider serves
          cache,      \* [Sources -> [ver, age]]: the cache file
          torn,       \* the cache file is cut off in the middle of a write
          config,     \* [Sources -> version]: nodes of the active config
          commits,    \* commits to the active config so far
          run,        \* [{"tui", "cli"} -> run record]
          pending,    \* the TUI owes sing-box a reload
          due,        \* ... and the next attempt is due
          moving,     \* a network transition of the TUI is running
          loaded,     \* the commit sing-box runs
          told,       \* the last commit the TUI's own worker reported
          runs, faults

refreshVars == <<server, cache, torn, config, commits, run, pending, due, moving,
                 loaded, told, runs, faults>>

Actors == {"tui", "cli"}

(* age: "fresh" and for this URL, "old", or of "other" URL. *)
NoEntry == [ver |-> 0, age |-> "other"]

Idle == [pc |-> "idle", read |-> [s \in Sources |-> NoEntry],
         pay |-> [s \in Sources |-> 0], got |-> {}, stale |-> FALSE,
         force |-> FALSE, active |-> FALSE, alone |-> FALSE, result |-> "none"]

RefreshInit ==
    /\ server = [s \in Sources |-> 1]
    /\ cache = [s \in Sources |-> NoEntry]
    /\ torn = FALSE
    /\ config = [s \in Sources |-> 0]
    /\ commits = 0
    /\ run = [a \in Actors |-> Idle]
    /\ pending = FALSE /\ due = FALSE /\ moving = FALSE
    /\ loaded = 0 /\ told = 0
    /\ runs = 0 /\ faults = 0

Fault == faults < MaxFaults /\ faults' = faults + 1

Tui == <<pending, due, moving, loaded>>
Files == <<cache, torn, config, commits, told>>

-----------------------------------------------------------------------------
(* Environment: a provider publishes, a day passes, a URL is replaced. *)

Publish(s) ==
    /\ server[s] < MaxVersion
    /\ server' = [server EXCEPT ![s] = @ + 1]
    /\ UNCHANGED <<Files, Tui, run, runs, faults>>

Age(s, age) ==
    /\ ~torn /\ cache[s].ver # 0 /\ cache[s].age = "fresh"
    /\ cache' = [cache EXCEPT ![s].age = age]
    /\ UNCHANGED <<server, torn, config, commits, told, Tui, run, runs, faults>>

-----------------------------------------------------------------------------
(* One run of refresh_subscriptions. *)

(* A run is over: its report is all that is left of it. *)
Done(a, result) ==
    [run EXCEPT ![a] = [Idle EXCEPT !.pc = "done", !.result = result,
                                    !.stale = run[a].stale, !.active = run[a].active,
                                    !.alone = run[a].alone]]

(* A run fails: nothing more is written, and its report says no more. *)
Failed(a) == Done(a, "failed")

(* The command with --output works on another file than the active config; *)
(* the TUI's worker always writes the active one.                          *)
Begin(a, force, active) ==
    /\ run[a].pc = "idle"
    /\ a = "tui" => active
    /\ runs < MaxRuns /\ runs' = runs + 1
    /\ run' = [b \in Actors |->
                  IF b = a THEN [Idle EXCEPT !.pc = "load", !.force = force, !.active = active,
                                             !.alone = run = [c \in Actors |-> Idle]]
                  ELSE [run[b] EXCEPT !.alone = FALSE]]
    /\ UNCHANGED <<server, Files, Tui, faults>>

(* maybe_start first serves a pending reload and starts nothing then; a    *)
(* manual refresh is always forced.                                        *)
BeginWorker(force) ==
    /\ force \/ ~pending
    /\ Begin("tui", force, TRUE)

LoadCache(a) ==
    /\ run[a].pc = "load"
    /\ run' = IF torn THEN Failed(a)
              ELSE [run EXCEPT ![a].pc = "resolve", ![a].read = cache]
    /\ UNCHANGED <<server, Files, Tui, runs, faults>>

FromCache(a, s) == run[a].read[s].age = "fresh" /\ ~run[a].force

(* bad: the sources whose fetch fails.  One without a cache entry for its  *)
(* URL fails the run; the others fall back on the cache.                   *)
Resolve(a, bad) ==
    LET read == run[a].read
        got == {s \in Sources \ bad : ~FromCache(a, s)}
        pay == [s \in Sources |-> IF s \in got THEN server[s] ELSE read[s].ver]
    IN  /\ run[a].pc = "resolve"
        /\ \A s \in bad : ~FromCache(a, s)
        /\ bad # {} => faults < MaxFaults
        /\ faults' = IF bad = {} THEN faults ELSE faults + 1
        /\ run' = IF \E s \in bad : read[s].age = "other" THEN Failed(a)
                  ELSE [run EXCEPT ![a].pc = "save", ![a].pay = pay, ![a].got = got,
                                   ![a].stale = bad # {}, ![a].force = FALSE]
        /\ UNCHANGED <<server, Files, Tui, runs>>

(* A payload that cannot be parsed ends the run before the cache is saved. *)
Unparsable(a) ==
    /\ run[a].pc = "save"
    /\ Fault
    /\ run' = Failed(a)
    /\ UNCHANGED <<server, Files, Tui, runs>>

(* The cache is written in place: truncated, then filled. *)
SaveBegins(a) ==
    /\ run[a].pc = "save" /\ run[a].got # {}
    /\ torn' = TRUE
    /\ run' = [run EXCEPT ![a].pc = "saving"]
    /\ UNCHANGED <<server, cache, config, commits, told, Tui, runs, faults>>

(* The whole file is what this run read, with what it fetched. *)
SaveEnds(a) ==
    /\ run[a].pc = "saving"
    /\ torn' = FALSE
    /\ cache' = [s \in Sources |-> IF s \in run[a].got
                                   THEN [ver |-> run[a].pay[s], age |-> "fresh"]
                                   ELSE run[a].read[s]]
    /\ run' = [run EXCEPT ![a].pc = "commit"]
    /\ UNCHANGED <<server, config, commits, told, Tui, runs, faults>>

SaveSkipped(a) ==
    /\ run[a].pc = "save" /\ run[a].got = {}
    /\ run' = [run EXCEPT ![a].pc = "commit"]
    /\ UNCHANGED <<server, Files, Tui, runs, faults>>

(* Fault: a run that fetched nothing does not commit. *)
BugCommits(r) == r.active /\ ~r.stale /\ r.got # {}

(* The active config is left alone when a source fell back on the cache. *)
Commits(r) == r.active /\ ~r.stale

Commit(a) ==
    /\ run[a].pc = "commit"
    /\ IF Commits(run[a])
       THEN /\ config' = run[a].pay
            /\ commits' = commits + 1
            /\ told' = IF a = "tui" THEN commits' ELSE told
            /\ run' = Done(a, "updated")
       ELSE /\ run' = Done(a, "unchanged")
            /\ UNCHANGED <<config, commits, told>>
    /\ UNCHANGED <<server, cache, torn, Tui, runs, faults>>

(* The commit fails before the new config is in place, or takes it back. *)
CommitFails(a) ==
    /\ run[a].pc = "commit"
    /\ Fault
    /\ run' = Failed(a)
    /\ UNCHANGED <<server, Files, Tui, runs>>

(* The commit fails with the new config in place: its durability is not    *)
(* certain, it cannot be taken back, or the write block cannot be cleared. *)
CommitStays(a) ==
    /\ run[a].pc = "commit" /\ Commits(run[a])
    /\ Fault
    /\ config' = run[a].pay
    /\ commits' = commits + 1
    /\ run' = Failed(a)
    /\ UNCHANGED <<server, cache, torn, told, Tui, runs>>

CommandEnds ==
    /\ run["cli"].pc = "done"
    /\ run' = [run EXCEPT !["cli"] = Idle]
    /\ UNCHANGED <<server, Files, Tui, runs, faults>>

-----------------------------------------------------------------------------
(* The TUI's side. *)

(* Fault: the result of the newest refresh decides whether a reload is owed.*)
BugOwes(result) == result = "updated"

(* A reload owed stays owed whatever a later refresh brings. *)
Owes(result) == pending \/ result = "updated"

(* The guard of try_pending_subscription_reload_with. *)
MayReload == pending /\ due /\ run["tui"].pc = "idle" /\ ~moving

(* Polling a finished worker; the first reload attempt is due at once.  It *)
(* is a step of its own here, as a transition may hold it back.            *)
Poll ==
    /\ run["tui"].pc = "done"
    /\ pending' = Owes(run["tui"].result)
    /\ due' = (due \/ run["tui"].result = "updated")
    /\ run' = [run EXCEPT !["tui"] = Idle]
    /\ UNCHANGED <<server, Files, moving, loaded, runs, faults>>

(* The config is validated and sing-box restarted on it. *)
Reload ==
    /\ MayReload
    /\ loaded' = commits
    /\ pending' = FALSE /\ due' = FALSE
    /\ UNCHANGED <<server, Files, moving, run, runs, faults>>

(* Validation, authorization or the restart fails: the old process goes on *)
(* and the attempt is put off.                                             *)
ReloadFails ==
    /\ MayReload
    /\ Fault
    /\ due' = FALSE
    /\ UNCHANGED <<server, Files, pending, moving, loaded, run, runs>>

(* Fault: a failed attempt is taken up again only with the next refresh. *)
BugRetryDue ==
    /\ pending /\ ~due /\ run["tui"].pc = "done"
    /\ due' = TRUE
    /\ UNCHANGED <<server, Files, pending, moving, loaded, run, runs, faults>>

(* The retry interval passes, or the user presses R. *)
RetryDue ==
    /\ pending /\ ~due
    /\ due' = TRUE
    /\ UNCHANGED <<server, Files, pending, moving, loaded, run, runs, faults>>

(* A transition (TUN on or off) restarts sing-box too, if it gets that far.*)
TransitionBegins ==
    /\ ~moving /\ moving' = TRUE
    /\ Fault
    /\ UNCHANGED <<server, Files, pending, due, loaded, run, runs>>

TransitionEnds ==
    /\ moving /\ moving' = FALSE
    /\ loaded' \in {loaded, commits}
    /\ UNCHANGED <<server, Files, pending, due, run, runs, faults>>

(* The TUI is killed and started again; sing-box starts on the config that *)
(* is there.  A write under way stays cut off.                             *)
Restart ==
    /\ Fault
    /\ run' = [run EXCEPT !["tui"] = Idle]
    /\ pending' = FALSE /\ due' = FALSE /\ moving' = FALSE
    /\ loaded' = commits
    /\ UNCHANGED <<server, Files, runs>>

-----------------------------------------------------------------------------
RunStep(a) ==
    \/ LoadCache(a)
    \/ \E bad \in SUBSET Sources : Resolve(a, bad)
    \/ Unparsable(a)
    \/ SaveBegins(a) \/ SaveEnds(a) \/ SaveSkipped(a)
    \/ Commit(a) \/ CommitFails(a) \/ CommitStays(a)

RefreshNext ==
    \/ \E s \in Sources : Publish(s) \/ \E age \in {"old", "other"} : Age(s, age)
    \/ \E force \in BOOLEAN : BeginWorker(force)
    \/ \E force, active \in BOOLEAN : Begin("cli", force, active)
    \/ \E a \in Actors : RunStep(a)
    \/ CommandEnds
    \/ Poll \/ Reload \/ ReloadFails \/ RetryDue
    \/ TransitionBegins \/ TransitionEnds \/ Restart

RefreshSpec == RefreshInit /\ [][RefreshNext]_refreshVars

(* The event loop polls and retries, a transition ends, and a worker gets  *)
(* on: each of its steps ends (the fetches by the connection's failure).   *)
RefreshFairSpec ==
    /\ RefreshSpec
    /\ WF_refreshVars(RunStep("tui"))
    /\ WF_refreshVars(Poll) /\ WF_refreshVars(Reload)
    /\ WF_refreshVars(RetryDue) /\ WF_refreshVars(TransitionEnds)

-----------------------------------------------------------------------------
(* A refresh of the active config that succeeds, with every source up to   *)
(* date and no other run near it, leaves the config with exactly the       *)
(* payloads of the cache: a run that was killed between saving and         *)
(* committing, or that another overtook, is made good by the next one,     *)
(* which commits also when it fetched nothing.                             *)
AloneMeansAgreed ==
    \A a \in Actors :
       (/\ run[a].pc = "done" /\ run[a].result # "failed"
        /\ run[a].active /\ ~run[a].stale /\ run[a].alone)
          => ~torn /\ \A s \in Sources : config[s] = cache[s].ver

(* A commit the TUI's own worker reported and sing-box does not run yet is *)
(* never forgotten: a reload is owed, or the worker's report is still to   *)
(* be polled, whatever failed, later or manual refreshes, failed reloads   *)
(* and transitions come in between.  Nothing is owed to a commit that      *)
(* stayed in place under an error (FailureKeepsConfig).                    *)
ReloadOwed ==
    loaded < told => pending \/ run["tui"].result = "updated"

(* Together: what a refresh changes is agreed on and not forgotten.        *)
RefreshSound == AloneMeansAgreed /\ ReloadOwed

(* What the worker committed and reported is loaded in the end. *)
CommitGetsLoaded == (loaded < told) ~> (loaded >= told)

(* A refresh that fails leaves the config as it was (the failure case of   *)
(* SU-03 in docs/tui-interaction-contract.md), so that a failure never     *)
(* needs a reload.                                                         *)
FailureKeepsConfig ==
    [][\A a \in Actors : run[a].pc # "done" /\ run'[a].result = "failed" => config' = config]_refreshVars
=============================================================================
