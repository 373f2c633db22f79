-------------------------- MODULE SustainedProbe --------------------------
(***************************************************************************)
(* Sustained-quality probes (sustained_quality.rs and the sustained half   *)
(* of benchmark_workflow.rs): jobs whose worker threads share one gate for *)
(* transfers, results that reach the TUI over a channel after the target   *)
(* was changed, after a cancel or after the node identities moved on, and  *)
(* a background worker that writes facts of its own to the same database.  *)
(* Every job is about one selector; a request names a set of nodes.  Only  *)
(* facts that say something about a node (attributable outcomes) count     *)
(* here: the database also keeps the others, which no projection shows.    *)
(***************************************************************************)
EXTENDS Integers, FiniteSets, Sequences

CONSTANTS
    Probed,     \* nodes of the selector
    Targets,    \* target identities
    Limit,      \* SUSTAINED_MAX_CONCURRENCY
    Expected,   \* SUSTAINED_EXPECTED_BYTES, in units a chunk is made of
    MaxJobs,    \* bound: jobs started
    MaxFacts,   \* bound: facts of the background worker and of Streaming probes
    MaxChanges  \* bound: target changes and reconciliations

ASSUME SustainedAssumption ==
    /\ IsFiniteSet(Probed) /\ Targets # {} /\ MaxJobs \in Nat
    /\ Limit \in Nat \ {0} /\ Expected \in Nat \ {0}

VARIABLES
    jobs,      \* SustainedJob and the threads behind it, by number
    active,    \* permits the gate counts
    target,    \* sustained_target_identity
    dbGen,     \* node-quality generation of the database
    mine,      \* generation of the installed store's receipt, 0: none installed
    stored,    \* facts in the database, counted per node and target identity
    table,     \* sustained_quality: per node the facts it reflects, of one identity
    version,   \* data_version: commits of other connections
    observed,  \* observed_data_version
    reload,    \* a projection being reloaded: how far, and the version read first
    unshown,   \* the result poll has committed and not shown yet, if any
    unread,    \* history: nodes the table lacks since a lease or a read failed
    stream,    \* a Streaming criterion: the target it measures, or "none"
    misfiled,  \* history: a fact is filed under a target it was not measured against
    inexact,   \* history: a response that was not exact became a completed transfer
    filed,     \* facts of others, counted for their bound
    changes

probeVars == <<jobs, active, inexact>>
dataVars == <<dbGen, mine, stored, version, misfiled, filed>>
viewVars == <<target, table, observed, reload, unshown, unread, stream, changes>>
susVars == <<probeVars, dataVars, viewVars>>

MaxRedirects == 2

---------------------------------------------------------------------------
\* One transfer: read_expected_payload.

\* What a node can make of the request: redirects, the final status and URL, a declared
\* length, body bytes in chunks, and whether the body was cut off.
Responses ==
    [redirects : 0..(MaxRedirects + 1), success : BOOLEAN, account_free : BOOLEAN,
     declared : {-1, Expected, Expected + 1},
     chunks : {<<>>, <<Expected>>, <<1, Expected - 1>>, <<0, Expected>>, <<Expected - 1>>,
               <<Expected, 1>>},
     cut : BOOLEAN]

BodyLength(chunks) ==
    LET sum[i \in 0..Len(chunks)] == IF i = 0 THEN 0 ELSE sum[i - 1] + chunks[i]
    IN sum[Len(chunks)]

\* Fault: the first request is not counted among the earlier URLs.
BugFollows(previous) == previous - 1 <= MaxRedirects
\* sustained_redirect_limit_exceeded: at the n-th redirect there are n earlier URLs.
Follows(previous) == previous <= MaxRedirects

\* TransferAccumulator: observe and finish.
Complete(chunks) == BodyLength(chunks) = Expected

Outcome(r) ==
    IF /\ \A n \in 1..r.redirects : Follows(n)
       /\ r.success
       /\ r.account_free
       /\ r.declared \in {-1, Expected}
       /\ ~r.cut
       /\ Complete(r.chunks)
    THEN "completed" ELSE "failed"

\* What a completed transfer is evidence of: all of the payload, over at most two redirects.
Exact(r) ==
    /\ r.redirects <= 2
    /\ r.success /\ r.account_free /\ ~r.cut
    /\ r.chunks \in {<<Expected>>, <<1, Expected - 1>>, <<0, Expected>>}

Verdicts == {[outcome |-> Outcome(r), exact |-> Exact(r)] : r \in Responses}

Attributable(outcome) == outcome \in {"completed", "failed"}

---------------------------------------------------------------------------
\* Jobs

Unborn == [state |-> "none", target |-> target, gen |-> 0, cancelled |-> FALSE,
           work |-> [n \in Probed |-> "none"], queue |-> <<>>, outstanding |-> {}, asked |-> {},
           answers |-> 0, failed |-> FALSE]
Ids == 1..MaxJobs

Those(j, where) == {n \in Probed : jobs[j].work[n] = where}
Moving == {p \in Ids \X Probed : jobs[p[1]].work[p[2]] = "moving"}

\* Threads of a job that hold a node.
Busy(j) == Cardinality(Those(j, "waiting") \cup Those(j, "moving"))
Threads(j) == IF Cardinality(jobs[j].asked) < Limit THEN Cardinality(jobs[j].asked) ELSE Limit

Live(j) == jobs[j].state \in {"running", "finished"}
\* The thread of the TUI is in no reload and between two results.
NoReload == reload.at = "no" /\ unshown = {}

\* Fault: only the job list of the batch being started is looked at.
BugInFlight(t) == {}
InFlight(t) ==
    UNION {jobs[j].outstanding :
             j \in {i \in Ids : Live(i) /\ jobs[i].target = t /\ ~jobs[i].cancelled}}

\* start_sustained: of a single node, or of the automatic candidates that are not in flight.
Start(j, single, wanted) ==
    /\ NoReload
    /\ mine = dbGen
    /\ jobs[j].state = "none"
    /\ \A i \in 1..(j - 1) : jobs[i].state /= "none"
    /\ single => Cardinality(wanted) = 1
    /\ LET nodes == IF single /\ wanted \cap InFlight(target) /= {} THEN {}
                    ELSE wanted \ InFlight(target) IN
         /\ nodes /= {}
         /\ jobs' = [jobs EXCEPT ![j] =
              [Unborn EXCEPT !.state = "running", !.target = target, !.gen = dbGen,
                             !.work = [n \in Probed |-> IF n \in nodes THEN "pending" ELSE "none"],
                             !.outstanding = nodes, !.asked = nodes]]
    /\ UNCHANGED <<active, inexact, dataVars, viewVars>>

Send(j, n, outcome) ==
    jobs' = [jobs EXCEPT ![j].work[n] = "sent", ![j].queue = Append(@, <<n, Attributable(outcome)>>)]

\* A thread takes the next node; a cancelled job answers without a transfer.
Take(j, n) ==
    /\ jobs[j].work[n] = "pending"
    /\ Busy(j) < Threads(j)
    /\ IF jobs[j].cancelled
       THEN Send(j, n, "cancelled")
       ELSE jobs' = [jobs EXCEPT ![j].work[n] = "waiting"]
    /\ UNCHANGED <<active, inexact, dataVars, viewVars>>

\* Fault: the gate is not full until it is over its limit.
BugGateOpen == active <= Limit
GateOpen == active < Limit

\* acquire_unless_cancelled
Acquire(j, n) ==
    /\ jobs[j].work[n] = "waiting"
    /\ GateOpen
    /\ ~jobs[j].cancelled
    /\ active' = active + 1
    /\ jobs' = [jobs EXCEPT ![j].work[n] = "moving"]
    /\ UNCHANGED <<inexact, dataVars, viewVars>>

GiveUp(j, n) ==
    /\ jobs[j].work[n] = "waiting"
    /\ jobs[j].cancelled
    /\ Send(j, n, "cancelled")
    /\ UNCHANGED <<active, inexact, dataVars, viewVars>>

\* probe_one_node: the runtime does not start, the cancel is noticed first, or the transfer
\* ends in some response; the permit is dropped in every case.
Transfer(j, n) ==
    /\ jobs[j].work[n] = "moving"
    /\ active' = active - 1
    /\ \/ Send(j, n, "runtime") /\ UNCHANGED inexact
       \/ jobs[j].cancelled /\ Send(j, n, "cancelled") /\ UNCHANGED inexact
       \/ \E v \in Verdicts :
            /\ Send(j, n, v.outcome)
            /\ inexact' = (inexact \/ (v.outcome = "completed" /\ ~v.exact))
    /\ UNCHANGED <<dataVars, viewVars>>

\* Fault: the job is over when its queue of nodes is empty.
BugJoined(j) == Those(j, "pending") = {}
Joined(j) == \A n \in jobs[j].asked : jobs[j].work[n] = "sent"

\* The threads are joined and the job says so.
SayFinished(j) ==
    /\ jobs[j].state = "running"
    /\ Joined(j)
    /\ jobs' = [jobs EXCEPT ![j].state = "finished"]
    /\ UNCHANGED <<active, inexact, dataVars, viewVars>>

---------------------------------------------------------------------------
\* poll

\* Fault: a late result is shown whatever target it measured.
BugShows(j, attributable) == attributable
Shows(j, attributable) == jobs[j].target = target /\ attributable

Stored(n, t) == [stored EXCEPT ![n][t] = @ + 1]

\* The store is installed and of this generation: the answer becomes a fact of it.  A commit
\* of this connection does not move data_version.
PollResult(j) ==
    /\ NoReload
    /\ mine /= 0
    /\ Live(j)
    /\ jobs[j].queue /= <<>>
    /\ LET n == Head(jobs[j].queue)[1]
           attributable == Head(jobs[j].queue)[2]
           t == jobs[j].target
           taken == [jobs[j] EXCEPT !.queue = Tail(@), !.outstanding = @ \ {n}, !.answers = @ + 1]
       IN IF mine = dbGen /\ jobs[j].gen = dbGen
          THEN /\ jobs' = [jobs EXCEPT ![j] = taken]
               /\ stored' = IF attributable THEN Stored(n, t) ELSE stored
               /\ unshown' = {[job |-> j, node |-> n, of |-> t, show |-> Shows(j, attributable)]}
          ELSE /\ jobs' = [jobs EXCEPT ![j] = [taken EXCEPT !.failed = TRUE, !.cancelled = TRUE]]
               /\ UNCHANGED <<stored, unshown>>
    /\ UNCHANGED <<active, inexact, dbGen, mine, version, misfiled, filed, target, table, observed, reload, unread,
                   stream, changes>>

\* The read lease is taken again and the fact shown.
ShowResult(u) ==
    /\ u \in unshown
    /\ mine = dbGen
    /\ unshown' = {}
    /\ IF u.show
       THEN /\ table' = [table EXCEPT ![u.node] = [of |-> u.of, upto |-> stored[u.node][u.of]]]
            /\ unread' = unread \ {u.node}
       ELSE UNCHANGED <<table, unread>>
    /\ UNCHANGED <<probeVars, dataVars, target, observed, reload, stream, changes>>

\* The lease is of another generation, or not to be had: the fact stays in the database only.
LeaseFails(u) ==
    /\ u \in unshown
    /\ unshown' = {}
    /\ unread' = IF u.show THEN unread \cup {u.node} ELSE unread
    /\ jobs' = [jobs EXCEPT ![u.job].failed = TRUE, ![u.job].cancelled = TRUE]
    /\ UNCHANGED <<active, inexact, dataVars, target, table, observed, reload, stream, changes>>

\* Finished follows every result in the channel.
PollEnd(j) ==
    /\ NoReload
    /\ mine /= 0
    /\ jobs[j].state = "finished"
    /\ jobs[j].queue = <<>>
    /\ jobs' = [jobs EXCEPT ![j].state = "gone"]
    /\ UNCHANGED <<active, inexact, dataVars, viewVars>>

---------------------------------------------------------------------------
\* Around the jobs

Projected(t) == [n \in Probed |-> [of |-> t, upto |-> stored[n][t]]]

CancelAll == [j \in Ids |-> [jobs[j] EXCEPT !.cancelled = @ \/ Live(j)]]

\* activate_sustained_target
ChangeTarget(t) ==
    /\ NoReload
    /\ mine = dbGen
    /\ t /= target
    /\ changes < MaxChanges
    /\ changes' = changes + 1
    /\ target' = t
    /\ table' = Projected(t)
    /\ unread' = {}
    /\ jobs' = CancelAll
    /\ UNCHANGED <<active, inexact, dataVars, observed, reload, unshown, stream>>

\* cancel_running_probes
CancelProbes ==
    /\ NoReload
    /\ CancelAll /= jobs
    /\ jobs' = CancelAll
    /\ UNCHANGED <<active, inexact, dataVars, viewVars>>

\* Another process reconciles: facts of identities it does not retain (here all) go, and the
\* generation moves on.  It waits for the read lease a reload holds while it reads.
ReconcileNodes ==
    /\ changes < MaxChanges
    /\ changes' = changes + 1
    /\ reload.at /= "facts"
    /\ dbGen' = dbGen + 1
    /\ version' = version + 1
    /\ stored' = [n \in Probed |-> [t \in Targets |-> 0]]
    /\ UNCHANGED <<probeVars, mine, misfiled, filed, target, table, observed, reload, unshown, unread, stream>>

\* install_store: every job is cancelled and joined before the new store is read.
Uninstall ==
    /\ NoReload
    /\ mine \notin {0, dbGen}
    /\ mine' = 0
    /\ jobs' = CancelAll
    /\ UNCHANGED <<active, inexact, dbGen, stored, version, misfiled, filed, viewVars>>

\* A table that cannot be read is empty (unwrap_or_default).
Install ==
    /\ mine = 0
    /\ \A j \in Ids : jobs[j].state /= "running"
    /\ jobs' = [j \in Ids |-> [jobs[j] EXCEPT !.state = IF Live(j) THEN "dropped" ELSE @]]
    /\ mine' = dbGen
    /\ \/ table' = Projected(target) /\ unread' = {}
       \/ table' = [n \in Probed |-> [of |-> target, upto |-> 0]] /\ unread' = Probed
    /\ observed' = version
    /\ UNCHANGED <<active, inexact, dbGen, stored, version, misfiled, filed, target, reload, unshown, stream, changes>>

\* The background worker records a fact of its own.
BackgroundFact(n, t) ==
    /\ filed < MaxFacts
    /\ filed' = filed + 1
    /\ stored' = Stored(n, t)
    /\ version' = version + 1
    /\ UNCHANGED <<probeVars, dbGen, mine, misfiled, viewVars>>

\* reload_persisted_quality_projection: the version is read, then the facts under a lease.
BeginReload ==
    /\ NoReload
    /\ mine = dbGen
    /\ version /= observed
    /\ reload' = [at |-> "version", seen |-> version]
    /\ UNCHANGED <<probeVars, dataVars, target, table, observed, unshown, unread, stream, changes>>

ReadFacts ==
    /\ reload.at = "version"
    /\ mine = dbGen
    /\ table' = Projected(target)
    /\ unread' = {}
    /\ reload' = [reload EXCEPT !.at = "facts"]
    /\ UNCHANGED <<probeVars, dataVars, target, observed, unshown, stream, changes>>

\* The lease is of another generation, or a read fails: nothing was changed.
AbandonReload ==
    /\ reload.at = "version"
    /\ reload' = [at |-> "no", seen |-> 0]
    /\ UNCHANGED <<probeVars, dataVars, target, table, observed, unshown, unread, stream, changes>>

\* Fault: the version of the moment is taken for the one that was read first.
BugSeen == version
Seen == reload.seen

MarkObserved ==
    /\ reload.at = "facts"
    /\ observed' = Seen
    /\ reload' = [at |-> "no", seen |-> 0]
    /\ UNCHANGED <<probeVars, dataVars, target, table, unshown, unread, stream, changes>>

\* The Streaming criterion keeps the target it was started with; its results are filed under
\* the identity of the moment (record_custom_sustained_quality).
StartStreaming ==
    /\ NoReload
    /\ mine = dbGen
    /\ stream = "none"
    /\ filed < MaxFacts
    /\ stream' = target
    /\ UNCHANGED <<probeVars, dataVars, target, table, observed, reload, unshown, unread, changes>>

\* A result about another generation is refused; the lease may fail behind the commit.
StreamingResult(n) ==
    /\ NoReload
    /\ mine = dbGen
    /\ stream /= "none"
    /\ filed < MaxFacts
    /\ filed' = filed + 1
    /\ stored' = Stored(n, target)
    /\ \/ /\ table' = [table EXCEPT ![n] = [of |-> target, upto |-> stored'[n][target]]]
          /\ unread' = unread \ {n}
       \/ UNCHANGED table /\ unread' = unread \cup {n}
    /\ misfiled' = (misfiled \/ stream /= target)
    /\ stream' = "none"
    /\ UNCHANGED <<probeVars, dbGen, mine, version, target, observed, reload, unshown, changes>>

---------------------------------------------------------------------------
SusInit ==
    /\ target = CHOOSE t \in Targets : TRUE
    /\ jobs = [j \in Ids |-> Unborn]
    /\ active = 0
    /\ dbGen = 1
    /\ mine = 1
    /\ stored = [n \in Probed |-> [t \in Targets |-> 0]]
    /\ table = Projected(target)
    /\ version = 0
    /\ observed = 0
    /\ reload = [at |-> "no", seen |-> 0]
    /\ unshown = {}
    /\ unread = {}
    /\ stream = "none"
    /\ misfiled = FALSE
    /\ inexact = FALSE
    /\ filed = 0
    /\ changes = 0

JobStep(j) ==
    \/ \E single \in BOOLEAN, wanted \in SUBSET Probed : Start(j, single, wanted)
    \/ \E n \in Probed : Take(j, n) \/ Acquire(j, n) \/ GiveUp(j, n) \/ Transfer(j, n)
    \/ SayFinished(j) \/ PollResult(j) \/ PollEnd(j)

SusNext ==
    \/ \E j \in Ids : JobStep(j)
    \/ \E u \in unshown : ShowResult(u) \/ LeaseFails(u)
    \/ \E t \in Targets : ChangeTarget(t)
    \/ CancelProbes \/ ReconcileNodes \/ Uninstall \/ Install
    \/ BeginReload \/ ReadFacts \/ AbandonReload \/ MarkObserved
    \/ StartStreaming
    \/ \E n \in Probed : StreamingResult(n) \/ \E t \in Targets : BackgroundFact(n, t)

SusSpec == SusInit /\ [][SusNext]_susVars

---------------------------------------------------------------------------
\* The gate of sustained_quality.rs counts the transfers of all jobs together and never lets
\* more than the limit run, however jobs are cancelled, abandoned or started over.
GateExact == active = Cardinality(Moving) /\ active <= Limit

\* A job that ended has had one answer for every node it was asked about and owes none: the
\* threads of spawn_sustained_probe_worker lose no node and answer for none twice.
AnsweredOnce ==
    \A j \in Ids : jobs[j].state = "gone" =>
        jobs[j].outstanding = {} /\ jobs[j].answers = Cardinality(jobs[j].asked)

\* No node is measured by two live jobs of one target at a time: start_sustained reuses the
\* transfer in flight, whatever was cancelled before.
NoDoubleTransfer ==
    \A i, j \in Ids :
        i /= j /\ Live(i) /\ Live(j) /\ jobs[i].target = jobs[j].target
            /\ ~jobs[i].cancelled /\ ~jobs[j].cancelled =>
        jobs[i].outstanding \cap jobs[j].outstanding = {}

\* read_expected_payload calls a transfer completed only when the whole payload, and nothing
\* more, came over at most SUSTAINED_MAX_REDIRECTS redirects.
EvidenceIsExact == ~inexact

\* Every node's shown quality is of the active target: a late result of the target before it
\* never reappears in the table (active_target in poll).
ShownIsCurrent == mine = dbGen => \A n \in Probed : table[n].of = target

\* When the TUI has no change left to notice, its table holds every fact of the database,
\* except those of a node whose lease or read failed after the fact was there: a commit between
\* reading the version and the facts is not skipped (reload_persisted_quality_projection), nor
\* one between a result's own commit and the lease it is shown under (poll).
NothingMissed ==
    mine = dbGen /\ NoReload /\ observed = version =>
        \A n \in Probed \ unread : table[n] = Projected(target)[n]

\* Together: every node of a job is measured and answered once, for the target it
\* was asked for, and the table shows what was measured.
SustainedSound ==
    /\ GateExact /\ AnsweredOnce /\ NoDoubleTransfer /\ EvidenceIsExact
    /\ ShownIsCurrent /\ NothingMissed

\* A known divergence, checked by no run (README):
\* facts are kept under the target they were measured against ("partition key for facts
\* produced by one account-free target").
FactsOfTheirTarget == ~misfiled
===========================================================================
