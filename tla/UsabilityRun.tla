---------------------------- MODULE UsabilityRun ----------------------------
(***************************************************************************)
(* Usability probe runs (tui_usability_probe.rs, the probe workers of      *)
(* usability_probe.rs and builtin_usability_probe.rs, the run tables of    *)
(* storage.rs).  A run is a row of the shared database; the foreground TUI *)
(* starts runs on demand, the background worker on schedule.  An OS lock   *)
(* keeps runs apart, the generation of the node configuration fences what  *)
(* a run may publish.  A result is represented by the version of the node  *)
(* it was measured on.                                                     *)
(***************************************************************************)
EXTENDS Naturals, Sequences, FiniteSets

CONSTANTS Nodes,     \* members of the selector
          Criteria,  \* probe manifests
          Interval,  \* background_interval
          MaxRuns, MaxGen, MaxTime,
          MaxMishaps \* crashes and SQLite errors

ASSUME IntervalAssumption == Interval \in Nat

Apps == {"tui", "worker"}

VARIABLES runs,     \* usability_probe_runs with their published results
          gen,      \* generation of the stored node identities
          ids,      \* node -> version of its definition
          live,     \* the versions the running sing-box was started with
          fence,    \* runtime reload fence: config committed, not yet reloaded
          lock,     \* owner of the usability-probe lock file
          app,      \* the two processes
          job,      \* their active probe and its worker thread
          consent,  \* background_probe_enabled of the worker
          now, mishaps

runVars == <<runs, gen, ids, live, fence, lock, app, job, consent, now, mishaps>>

None == [n \in Nodes |-> 0]
NoJob == [run |-> 0, gen |-> 0, source |-> "none", snap |-> None, results |-> None, queue |-> <<>>,
          infra |-> FALSE, received |-> None, stale |-> FALSE, thread |-> "none"]

\* store: generation of the opened store, 0 while it is paused.
NewApp == [store |-> 1, receipt |-> 1, last |-> [c \in Criteria |-> 0]]

RunInit == /\ runs = <<>> /\ gen = 1
           /\ ids = [n \in Nodes |-> 1] /\ live = [n \in Nodes |-> 1] /\ fence = FALSE
           /\ lock = "none"
           /\ app = [p \in Apps |-> NewApp]
           /\ job = [p \in Apps |-> NoJob]
           /\ consent = {} /\ now = 1 /\ mishaps = 0

-----------------------------------------------------------------------------
Probing(p) == job[p].run # 0
Rows(c) == {i \in 1..Len(runs) : runs[i].crit = c}
Mishap == mishaps < MaxMishaps /\ mishaps' = mishaps + 1
Database == <<gen, ids, live, fence>>

\* quality_session_current: the store is of the current generation and nothing blocks it.
SessionCurrent(p) == app[p].store = gen /\ ~fence

\* Fault: whoever finds the lock taken starts all the same.
BugMayBegin(p) == ~Probing(p)

\* The lock file is tried, not waited for.
MayBegin(p) == ~Probing(p) /\ lock = "none"

\* Holding the lock proves that nobody owns a running row of the criterion.
Recovered(c) == [i \in 1..Len(runs) |-> IF runs[i].crit = c /\ runs[i].status = "running"
                                        THEN [runs[i] EXCEPT !.status = "incomplete"] ELSE runs[i]]

\* begin_usability_probe_run, then the worker thread is spawned.
BeginRun(p, c, source, background) ==
    /\ MayBegin(p) /\ SessionCurrent(p) /\ app[p].receipt = gen
    /\ Len(runs) < MaxRuns
    /\ runs' = Append(Recovered(c), [crit |-> c, gen |-> gen, status |-> "running", results |-> None,
                                     at |-> now, background |-> background])
    /\ lock' = p
    /\ job' = [job EXCEPT ![p] = [NoJob EXCEPT !.run = Len(runs) + 1, !.gen = gen, !.source = source,
                                               !.thread = "starting"]]

\* finish_usability_probe_run_with_ttl: facts are published with the terminal
\* status or not at all; without a store the database is opened again.
GenerationCurrent(p) == job[p].gen = gen /\ ~fence /\ app[p].store \in {0, gen}

\* Fault: the generation is not looked at again.
BugMayPublish(p) == TRUE

MayPublish(p) == GenerationCurrent(p)

\* Fault: facts of an incomplete run are published too.
BugFinished(p, complete, facts) ==
    [runs EXCEPT ![job[p].run].status = "complete",
                 ![job[p].run].results = IF MayPublish(p) THEN facts ELSE None]

Finished(p, complete, facts) ==
    LET published == complete /\ MayPublish(p)
    IN [runs EXCEPT ![job[p].run].status = IF published THEN "complete" ELSE "incomplete",
                    ![job[p].run].results = IF published THEN facts ELSE None]

\* The lock is released when the finalisation returns, with an error too.
Finalize(p, complete, facts) ==
    /\ \/ runs' = Finished(p, complete, facts) /\ UNCHANGED mishaps
       \/ Mishap /\ UNCHANGED runs
    /\ lock' = "none"
    /\ job' = [job EXCEPT ![p] = NoJob]

-----------------------------------------------------------------------------
(* The foreground TUI.                                                     *)

StartManual(c, source) ==
    /\ BeginRun("tui", c, source, FALSE)
    /\ UNCHANGED <<Database, app, consent, now, mishaps>>

\* The worker could not be spawned: the run is finished as incomplete.
LaunchFails(p) ==
    /\ Probing(p) /\ job[p].thread = "starting" /\ mishaps < MaxMishaps
    /\ mishaps' = mishaps + 1
    /\ runs' = Finished(p, FALSE, None)
    /\ lock' = "none" /\ job' = [job EXCEPT ![p] = NoJob]
    /\ UNCHANGED <<Database, app, consent, now>>

\* U again, P for pause, or the end of the TUI: cancel, join, finalise what was received.
Cancel(p) ==
    /\ Probing(p)
    /\ Finalize(p, FALSE, job[p].received)
    /\ UNCHANGED <<Database, app, consent, now>>

-----------------------------------------------------------------------------
(* The background worker.                                                  *)

\* ApplyConfig: a probe whose permission is gone is stopped first; a finalisation that
\* fails (a mishap) rejects the message, and the worker keeps the permissions it had.
ApplyConsent(c) ==
    LET granted == IF c \in consent THEN consent \ {c} ELSE consent \cup {c}
        revoked == Probing("worker") /\ runs[job["worker"].run].crit \notin granted
    IN /\ IF revoked THEN Finalize("worker", FALSE, job["worker"].received)
          ELSE UNCHANGED <<runs, lock, job, mishaps>>
       /\ consent' = IF mishaps' = mishaps THEN granted ELSE consent
       /\ UNCHANGED <<Database, app, now>>

\* Fault: a restarted worker starts with an empty schedule.
BugLastStart(c) == app["worker"].last[c]

Latest(c) == {runs[i].at : i \in {j \in Rows(c) : runs[j].gen = gen}}

\* restored_probe_start: a worker without memory of the criterion asks the database.
LastStart(c) ==
    IF app["worker"].last[c] # 0 \/ Latest(c) = {} THEN app["worker"].last[c]
    ELSE CHOOSE t \in Latest(c) : \A u \in Latest(c) : u <= t

Due(c) == LastStart(c) = 0 \/ now >= LastStart(c) + Interval

\* The attempt is remembered before the launch, which may be refused.
StartScheduled(c, source) ==
    /\ c \in consent /\ ~Probing("worker") /\ Due(c)
    /\ app["worker"].last[c] = 0 => SessionCurrent("worker") /\ app["worker"].receipt = gen
    /\ app' = [app EXCEPT !["worker"].last[c] = now]
    /\ IF MayBegin("worker") /\ SessionCurrent("worker") /\ app["worker"].receipt = gen
       THEN BeginRun("worker", c, source, TRUE)
       ELSE UNCHANGED <<runs, lock, job>>
    /\ UNCHANGED <<Database, consent, now, mishaps>>

-----------------------------------------------------------------------------
(* The probe thread: run_url_probe asks the live sing-box, a built-in      *)
(* probe or a program an isolated one made from the config file.           *)

ThreadStarts(p) ==
    /\ job[p].thread = "starting"
    /\ job' = [job EXCEPT ![p].thread = "running", ![p].snap = IF job[p].source = "isolated" THEN ids ELSE None]
    /\ UNCHANGED <<runs, Database, lock, app, consent, now, mishaps>>

Version(p, n) == IF job[p].source = "isolated" THEN job[p].snap[n] ELSE live[n]

\* A member is assessed, usable or not; or the controller failed for it.
Assess(p, n) ==
    /\ job[p].thread = "running" /\ job[p].results[n] = 0
    /\ \/ job' = [job EXCEPT ![p].results[n] = Version(p, n), ![p].queue = Append(@, n)]
       \/ job[p].source = "live" /\ ~job[p].infra /\ job' = [job EXCEPT ![p].infra = TRUE]
    /\ UNCHANGED <<runs, Database, lock, app, consent, now, mishaps>>

\* Every member assessed, or an error that ends the probe early.
ThreadEnds(p) ==
    /\ job[p].thread = "running"
    /\ \/ /\ \A n \in Nodes : job[p].results[n] # 0
          /\ job' = [job EXCEPT ![p].thread = "done"]
       \/ job' = [job EXCEPT ![p].thread = "done", ![p].infra = TRUE]
    /\ UNCHANGED <<runs, Database, lock, app, consent, now, mishaps>>

-----------------------------------------------------------------------------
(* poll_usability_probe_updates                                            *)

\* A Streaming result is also a throughput fact; one that cannot be stored any
\* more makes the run incomplete.
PollProgress(p) ==
    /\ job[p].queue # <<>>
    /\ LET n == Head(job[p].queue)
       IN job' = [job EXCEPT ![p].queue = Tail(@), ![p].received[n] = job[p].results[n],
                             ![p].stale = @ \/ (job[p].source = "isolated" /\ ~(SessionCurrent(p) /\ job[p].gen = gen))]
    /\ UNCHANGED <<runs, Database, lock, app, consent, now, mishaps>>

PollFinished(p) ==
    /\ job[p].thread = "done" /\ job[p].queue = <<>>
    /\ Finalize(p, ~job[p].infra /\ ~job[p].stale, job[p].results)
    /\ UNCHANGED <<Database, app, consent, now>>

-----------------------------------------------------------------------------
(* What goes on around a run.                                              *)

\* A config commit (NodeQuality): facts of changed nodes go with their identity.
Reconcile(changed) ==
    /\ gen < MaxGen /\ changed # {}
    /\ gen' = gen + 1 /\ fence' = TRUE
    /\ ids' = [n \in Nodes |-> IF n \in changed THEN gen + 1 ELSE ids[n]]
    /\ runs' = [i \in 1..Len(runs) |->
                   [runs[i] EXCEPT !.results = [n \in Nodes |-> IF n \in changed THEN 0 ELSE @[n]]]]
    /\ app' = [app EXCEPT !["tui"].store = 0]
    /\ UNCHANGED <<live, lock, job, consent, now, mishaps>>

\* sing-box is restarted with the committed config and the fence removed.
ReloadRuntime ==
    /\ fence /\ fence' = FALSE /\ live' = ids
    /\ UNCHANGED <<runs, gen, ids, lock, app, job, consent, now, mishaps>>

\* A process opens the store of the current generation and adopts its receipt.
AdoptSession(p) ==
    /\ ~fence /\ app[p].receipt # gen
    /\ app' = [app EXCEPT ![p].store = gen, ![p].receipt = gen]
    /\ UNCHANGED <<runs, Database, lock, job, consent, now, mishaps>>

\* A process is killed: the lock goes with it; what replaces it knows nothing.
Killed(p) ==
    /\ Mishap
    /\ job' = [job EXCEPT ![p] = NoJob]
    /\ lock' = IF lock = p THEN "none" ELSE lock
    /\ app' = [app EXCEPT ![p] = [NewApp EXCEPT !.store = IF fence THEN 0 ELSE gen,
                                                !.receipt = IF fence THEN 0 ELSE gen]]
    /\ UNCHANGED <<runs, Database, consent, now>>

Tick == /\ now < MaxTime /\ now' = now + 1
        /\ UNCHANGED <<runs, Database, lock, app, job, consent, mishaps>>

RunNext == \/ \E c \in Criteria, source \in {"live", "isolated"} : StartManual(c, source) \/ StartScheduled(c, source)
           \/ \E c \in Criteria : ApplyConsent(c)
           \/ \E p \in Apps : \/ LaunchFails(p) \/ Cancel(p) \/ ThreadStarts(p) \/ ThreadEnds(p)
                              \/ PollProgress(p) \/ PollFinished(p) \/ AdoptSession(p) \/ Killed(p)
           \/ \E p \in Apps, n \in Nodes : Assess(p, n)
           \/ \E changed \in SUBSET Nodes : Reconcile(changed)
           \/ ReloadRuntime \/ Tick

RunSpec == RunInit /\ [][RunNext]_runVars

-----------------------------------------------------------------------------
(* Correctness.                                                            *)

\* A run in progress owns its row: nobody settles it from outside, no two runs
\* overlap, and a criterion never has two running rows, whatever crashed.
RunsAreOwned ==
    /\ \A p \in Apps : Probing(p) => runs[job[p].run].status = "running" /\ lock = p
    /\ \A c \in Criteria : Cardinality({i \in Rows(c) : runs[i].status = "running"}) <= 1

\* What panels and automatic selection read was measured on the node as it is
\* configured now.
ResultsAreOfThisNode ==
    \A i \in 1..Len(runs) : \A n \in Nodes : runs[i].results[n] \in {0, ids[n]}

\* A run that failed, was cancelled or came too late leaves the last complete
\* result as it was: it is replaced by a complete run, which has a result for
\* every node, or loses the nodes that a commit changed.
KeepsLastResult ==
    \A i \in 1..Len(runs) :
       /\ runs[i].status = "complete" => runs'[i].status = "complete"
       /\ runs[i].status = "complete" /\ gen' = gen => runs'[i].results = runs[i].results
       /\ \/ runs'[i].results # runs[i].results /\ gen' = gen
          \/ runs'[i].status = "complete" /\ runs[i].status # "complete"
          => \A n \in Nodes : runs'[i].results[n] # 0

\* A scheduled (paid) probe is not repeated within its interval, though the
\* worker is restarted and the permission withdrawn and given again.
IntervalKept ==
    \A i, j \in 1..Len(runs) :
       i < j /\ runs[i].crit = runs[j].crit /\ runs[i].background /\ runs[j].background /\ runs[i].gen = runs[j].gen
          => runs[j].at >= runs[i].at + Interval

\* Together: how runs are started and settled, and what is read of them.
SettlesRuns ==
    /\ KeepsLastResult
    /\ (RunsAreOwned /\ ResultsAreOfThisNode /\ IntervalKept)'
RunsSound == [][SettlesRuns]_runVars
=============================================================================
