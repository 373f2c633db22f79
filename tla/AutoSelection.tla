---------------------------- MODULE AutoSelection ----------------------------
(* The headless worker that switches nodes by itself: assessment rounds, the  *)
(* two-round confirmation, the outage rule and the transfer guard, next to a  *)
(* user who switches nodes and edits settings in the TUI at the same time.    *)
(*                                                                            *)
(* The worker acts on its own copies (the groups it last fetched, the panel   *)
(* it last projected, the settings it was started with); the controller, the  *)
(* database and the TUI move on without it.                                   *)
EXTENDS NodeRanking, TrafficWindow

CONSTANTS
    Selectors,      \* selector groups below the root selector
    Nodes,          \* their members, numbered in config order
    Policy,         \* ranking policy of the active panel
    FactChoices,    \* what a round can find out about a node
    Panels,         \* sets of nodes a usability run can include
    Settings,       \* values of the other settings in the state file
    MaxRound,       \* bound on round ids within one worker process
    MaxRev,         \* bound on panel revisions
    MaxBytes,       \* bound on the bytes a connection carries
    NoJob, NoFetch

ASSUME SelectionAssumption ==
    /\ Nodes \subseteq Nat /\ NoNode \notin Nodes
    /\ Policy \in Policies
    /\ \A p \in Panels : p \subseteq Nodes
    /\ MaxRound \in Nat /\ MaxRev \in Nat /\ MaxBytes \in Nat

VARIABLES
    \* shared: the controller, the database, the state file, the TUI
    ctl,        \* nodes: selection of each group; root: group in use
    conns,      \* connections through the proxy
    panel,      \* rev, nodes: the latest usability run
    valid,      \* the worker's quality session is current
    setting,    \* what the TUI user last chose
    file,       \* that choice in the runtime-state file
    \* the worker
    up,         \* the process runs
    cfg,        \* enabled, selector: the configuration last applied
    seen,       \* the groups it last fetched
    cached,     \* the panel it last projected
    copy,       \* the setting it was started with
    jobs,       \* assessment round of each selector
    nextId,     \* next_auto_selection_round_id
    state,      \* AutomaticSelectionState
    tracker,    \* ActiveNodeTrafficTracker
    fetch,      \* connections snapshot on its way
    \* history, read by properties only
    sent,       \* bytes each connection carried, by age
    taken,      \* age of the snapshot the tracker saw last
    won         \* what the previous evaluation concluded

world  == <<ctl, conns, panel, valid, setting, file>>
memory == <<cfg, seen, cached, copy, jobs, nextId, state, tracker, fetch>>
ghost  == <<sent, taken, won>>
vars   == <<world, up, memory, ghost>>

Fresh == [scope |-> NoScope, pending |-> NoNode, wins |-> 0, failures |-> 0,
          lastRound |-> 0]
Off == [enabled |-> FALSE, selector |-> CHOOSE g \in Selectors : TRUE]
NoWin == [kind |-> "none", node |-> NoNode, scope |-> NoScope]
Unused == [node |-> NoNode, total |-> 0]
Closed == [node |-> NoNode, total |-> Absent]

Init ==
    /\ ctl = [nodes |-> [g \in Selectors |-> Min(Nodes)],
              root |-> CHOOSE g \in Selectors : TRUE]
    /\ conns = [c \in Conns |-> Unused]
    /\ \E p \in Panels : panel = [rev |-> 0, nodes |-> p]
    /\ valid = TRUE
    /\ setting \in Settings
    /\ file = setting
    /\ up = FALSE /\ cfg = Off /\ seen = ctl /\ cached = panel
    /\ copy = setting
    /\ jobs = [g \in Selectors |-> NoJob] /\ nextId = 1
    /\ state = Fresh /\ tracker = Unseen /\ fetch = NoFetch
    /\ sent = [c \in Conns |-> Quiet] /\ taken = 0 /\ won = NoWin

-----------------------------------------------------------------------------
(* AutomaticSelectionState::evaluate.                                         *)

Included(n) == n \in panel.nodes

(* The scope of a decision; generation and view are those of the process.     *)
ScopeOf(g, rev) == [selector |-> g, rev |-> rev, node |-> seen.nodes[g]]

Best(facts) ==
    LET fs == {[facts[n] EXCEPT !.order = n] :
                  n \in {m \in panel.nodes : IsEligible(Policy, facts[m])}}
    IN IF fs = {} THEN NoNode ELSE BestOf(Policy, fs).order

RouteNeeded(g) == seen.root # g

(* Fault: an outage is believed while the node still carries a little.        *)
BugOutageShown(transfer) == transfer \in {"idle", "silent"}

(* Any growth at all contradicts a node that failed all three attempts.       *)
OutageShown(transfer) == transfer = "silent"

(* What a round amounts to.  st already belongs to the scope.                 *)
Verdict(st, scope, id, facts, best, transfer) ==
    LET cur == facts[scope.node]
        gain == MaterialImprovement(Policy, Included(scope.node), cur,
                                    facts[best])
    IN
    IF id <= st.lastRound THEN "duplicate"
    ELSE IF cur.tier = Missing THEN "incomplete"
    ELSE IF \E n \in panel.nodes : facts[n].tier = Missing THEN "incomplete"
    ELSE IF best = NoNode THEN "no_candidate"
    ELSE IF cur.tier = Unreachable
         THEN IF OutageShown(transfer) THEN "outage" ELSE "deferred"
    ELSE IF transfer \notin {"idle", "silent"} THEN "deferred"
    ELSE IF best = scope.node
         THEN IF RouteNeeded(scope.selector) THEN "route" ELSE "preferred"
    ELSE IF gain = "yes" THEN "better" ELSE "insufficient"

(* confirm_candidate: the same candidate has to win twice in a row.           *)
Confirm(st, node) ==
    [st EXCEPT !.pending = node, !.failures = 0,
               !.wins = IF st.pending = node THEN @ + 1 ELSE 1]

(* evaluate_emergency: the outage has to be seen twice in a row.              *)
Emergency(st) ==
    [st EXCEPT !.pending = NoNode, !.wins = 0, !.failures = @ + 1]

(* Fault: the counters survive the decision they led to.                      *)
BugResetRounds(st) == [st EXCEPT !.pending = NoNode]

ResetRounds(st) == [st EXCEPT !.pending = NoNode, !.wins = 0, !.failures = 0]

InScope(st, scope) ==
    IF st.scope = scope THEN st ELSE [Fresh EXCEPT !.scope = scope]

Counted(st, verdict, best) ==
    CASE verdict \in {"better", "route"} -> Confirm(st, best)
      [] verdict = "outage" -> Emergency(st)
      [] OTHER -> ResetRounds(st)

(* [state, verdict, best, act]: the whole call.                               *)
Evaluate(scope, id, facts, transfer) ==
    LET st == InScope(state, scope)
        best == Best(facts)
        verdict == Verdict(st, scope, id, facts, best, transfer)
        next == IF verdict = "duplicate" THEN st
                ELSE [Counted(st, verdict, best) EXCEPT !.lastRound = id]
        act == verdict # "duplicate" /\ (next.wins >= 2 \/ next.failures >= 2)
    IN [state |-> IF act THEN ResetRounds(next) ELSE next,
        verdict |-> verdict, best |-> best, act |-> act]

-----------------------------------------------------------------------------
(* The worker's rounds.                                                       *)

(* A process that ends takes its rounds, streaks and windows with it.         *)
Exit ==
    /\ up' = FALSE
    /\ cfg' = Off /\ nextId' = 1 /\ fetch' = NoFetch
    /\ jobs' = [g \in Selectors |-> NoJob]
    /\ state' = Fresh /\ tracker' = Unseen /\ won' = NoWin
    /\ UNCHANGED <<seen, cached, copy>>

(* Fault: rounds go on although automatic selection was turned off.           *)
BugWorks == up

Works == up /\ cfg.enabled

(* Included nodes of the cached panel, and always the current node.           *)
StartRound ==
    /\ Works /\ nextId <= MaxRound
    /\ LET g == cfg.selector IN
        /\ jobs[g] = NoJob
        /\ jobs' = [jobs EXCEPT ![g] =
               [id |-> nextId, nodes |-> cached.nodes \cup {seen.nodes[g]},
                live |-> valid]]
    /\ nextId' = nextId + 1
    /\ UNCHANGED <<world, up, cfg, seen, cached, copy, state, tracker, fetch,
                   ghost>>

(* A result came in that could not be recorded: the round is worth nothing.   *)
LoseRound(g) ==
    /\ Works /\ jobs[g] # NoJob /\ ~valid
    /\ jobs' = [jobs EXCEPT ![g].live = FALSE]
    /\ UNCHANGED <<world, up, cfg, seen, cached, copy, nextId, state, tracker,
                   fetch, ghost>>

(* The assessment thread died, or the group or its current node is gone.      *)
DropRound(g) ==
    /\ Works /\ jobs[g] # NoJob
    /\ jobs' = [jobs EXCEPT ![g] = NoJob]
    /\ UNCHANGED <<world, up, cfg, seen, cached, copy, nextId, state, tracker,
                   fetch, ghost>>

(* defer_auto_selection_after_quality_change                                  *)
DeferRound(g) ==
    /\ Works /\ jobs[g] # NoJob
    /\ ~(valid /\ jobs[g].live)
    /\ jobs' = [jobs EXCEPT ![g] = NoJob]
    /\ state' = Fresh /\ won' = NoWin
    /\ UNCHANGED <<world, up, cfg, seen, cached, copy, nextId, tracker, fetch,
                   sent, taken>>

(* What a round can say: nothing about a node it did not assess.              *)
RoundFacts(g) ==
    {f \in [Nodes -> FactChoices] :
        \A n \in Nodes \ jobs[g].nodes : f[n].tier = Missing}

(* finish_auto_select_benchmark up to the decision, under one read lease.     *)
Decisions(g) ==
    LET scope == ScopeOf(g, panel.rev)
        transfer == TransferStatus(tracker, scope)
    IN {Evaluate(scope, jobs[g].id, f, transfer) : f \in RoundFacts(g)}

Remember(g, d) ==
    won' = IF d.act \/ d.verdict \notin {"better", "route", "outage"}
           THEN NoWin
           ELSE [kind |-> d.verdict, scope |-> ScopeOf(g, panel.rev),
                 node |-> IF d.verdict = "outage" THEN NoNode ELSE d.best]

HoldRound(g) ==
    /\ Works /\ jobs[g] # NoJob /\ valid /\ jobs[g].live
    /\ \E d \in Decisions(g) :
        /\ ~d.act
        /\ state' = d.state
        /\ IF d.verdict = "duplicate" THEN UNCHANGED won ELSE Remember(g, d)
    /\ jobs' = [jobs EXCEPT ![g] = NoJob]
    /\ UNCHANGED <<world, up, cfg, seen, cached, copy, nextId, tracker, fetch,
                   sent, taken>>

SelectNode(view, g, d) ==
    IF d.verdict = "route" THEN view
    ELSE [view EXCEPT !.nodes[g] = d.best]

(* Both writes succeed; the worker fetches the groups again and saves its     *)
(* whole runtime state, the settings it was started with included.            *)
SwitchRound(g) ==
    /\ Works /\ jobs[g] # NoJob /\ valid /\ jobs[g].live
    /\ \E d \in Decisions(g) :
        /\ d.act
        /\ state' = d.state /\ Remember(g, d)
        /\ ctl' = [SelectNode(ctl, g, d) EXCEPT
                      !.root = IF RouteNeeded(g) THEN g ELSE @]
    /\ seen' = ctl' /\ cached' = panel
    /\ file' = copy
    /\ jobs' = [jobs EXCEPT ![g] = NoJob]
    /\ UNCHANGED <<conns, panel, valid, setting, up, cfg, copy, nextId,
                   tracker, fetch, sent, taken>>

(* A write or the refresh failed: the error ends the process, and whatever    *)
(* was written to the controller stays.                                       *)
SwitchFails(g) ==
    /\ Works /\ jobs[g] # NoJob /\ valid /\ jobs[g].live
    /\ \E d \in Decisions(g) :
        /\ d.act
        /\ LET one == SelectNode(ctl, g, d) IN
           ctl' \in {ctl, one,
                     [one EXCEPT !.root = IF RouteNeeded(g) THEN g ELSE @]}
    /\ Exit
    /\ UNCHANGED <<conns, panel, valid, setting, file, sent, taken>>

-----------------------------------------------------------------------------
(* The worker's view of the traffic.  The snapshot is taken by the controller *)
(* and applied, with the time of its arrival, by a later pass of the loop.    *)

TakeSnapshot ==
    /\ Works /\ fetch = NoFetch
    /\ fetch' = [snap |-> conns, age |-> 0]
    /\ UNCHANGED <<world, up, cfg, seen, cached, copy, jobs, nextId, state,
                   tracker, ghost>>

ApplySnapshot ==
    /\ Works /\ fetch # NoFetch
    /\ IF valid
       THEN /\ tracker' = Observed(tracker,
                               ScopeOf(cfg.selector, cached.rev), fetch.snap)
            /\ taken' = fetch.age
       ELSE UNCHANGED <<tracker, taken>>
    /\ fetch' = NoFetch
    /\ UNCHANGED <<world, up, cfg, seen, cached, copy, jobs, nextId, state,
                   sent, won>>

SnapshotFails ==
    /\ Works /\ fetch # NoFetch
    /\ tracker' = Lost /\ fetch' = NoFetch
    /\ UNCHANGED <<world, up, cfg, seen, cached, copy, jobs, nextId, state,
                   ghost>>

RefreshPanel ==
    /\ up /\ cached # panel
    /\ cached' = panel
    /\ UNCHANGED <<world, up, cfg, seen, copy, jobs, nextId, state, tracker,
                   fetch, ghost>>

-----------------------------------------------------------------------------
(* The worker's life.                                                         *)

Configs == [enabled : BOOLEAN, selector : Selectors]

(* Fault: a new configuration keeps the streaks and the window.               *)
BugApplyConfig(c) ==
    /\ up
    /\ cfg' = c /\ cached' = panel
    /\ won' = IF c = cfg THEN won ELSE NoWin
    /\ UNCHANGED <<world, up, seen, copy, jobs, nextId, state, tracker, fetch,
                   sent, taken>>

(* ApplyConfig from the TUI: a change starts every streak and window afresh.  *)
ApplyConfig(c) ==
    /\ up
    /\ cfg' = c /\ cached' = panel
    /\ IF c = cfg
       THEN UNCHANGED <<state, tracker, won>>
       ELSE state' = Fresh /\ tracker' = Unseen /\ won' = NoWin
    /\ UNCHANGED <<world, up, seen, copy, jobs, nextId, fetch, sent, taken>>

(* A new process loads the state file, puts the saved selections back where   *)
(* it can, fetches the groups and waits, disabled, for ApplyConfig.  Both     *)
(* processes save the groups as they last saw them, so what was saved may be  *)
(* any earlier selection.                                                     *)
StartWorker ==
    /\ ~up
    /\ up' = TRUE /\ valid' = TRUE
    /\ ctl' \in [nodes : [Selectors -> Nodes], root : Selectors]
    /\ seen' = ctl' /\ cached' = panel /\ copy' = file
    /\ UNCHANGED <<conns, panel, setting, file, cfg, jobs, nextId, state,
                   tracker, fetch, ghost>>

(* Stopped by the TUI, killed, or replaced after a reload.                    *)
StopWorker ==
    /\ up
    /\ Exit
    /\ UNCHANGED <<world, sent, taken>>

-----------------------------------------------------------------------------
(* The rest of the world.                                                     *)

(* A marker appears or goes, or a reload ends the worker's session for good.  *)
ToggleSession ==
    /\ valid' = ~valid
    /\ UNCHANGED <<ctl, conns, panel, setting, file, up, memory, ghost>>

(* The user picks a node: the TUI writes the group and the root selector, and *)
(* saves its runtime state.  The worker is not told.                          *)
UserSelects(g, n) ==
    /\ ctl' = [ctl EXCEPT !.nodes[g] = n, !.root = g]
    /\ ctl' # ctl
    /\ file' = setting
    /\ UNCHANGED <<conns, panel, valid, setting, up, memory, ghost>>

(* Another setting is changed and saved.                                      *)
UserSets(s) ==
    /\ s # setting
    /\ setting' = s /\ file' = s
    /\ UNCHANGED <<ctl, conns, panel, valid, up, memory, ghost>>

(* A complete usability run becomes the panel.                                *)
NewPanel ==
    /\ panel.rev < MaxRev
    /\ \E p \in Panels : panel' = [rev |-> panel.rev + 1, nodes |-> p]
    /\ UNCHANGED <<ctl, conns, valid, setting, file, up, memory, ghost>>

(* Connections run over the node in use; ids are never used again.            *)
Connect(c) ==
    /\ conns[c] = Unused
    /\ conns' = [conns EXCEPT ![c].node = ctl.nodes[ctl.root]]
    /\ UNCHANGED <<ctl, panel, valid, setting, file, up, memory, ghost>>

Transfer(c) ==
    /\ conns[c].node # NoNode /\ conns[c].total < MaxBytes
    /\ conns' = [conns EXCEPT ![c].total = @ + 1]
    /\ sent' = [sent EXCEPT ![c][0] = @ + 1]
    /\ UNCHANGED <<ctl, panel, valid, setting, file, up, memory, taken,
                   won>>

Disconnect(c) ==
    /\ conns[c].node # NoNode
    /\ conns' = [conns EXCEPT ![c] = Closed]
    /\ sent' = [sent EXCEPT ![c] = Quiet]
    /\ UNCHANGED <<ctl, panel, valid, setting, file, up, memory, taken,
                   won>>

Tick ==
    /\ tracker' = Aged(tracker)
    /\ fetch' = IF fetch = NoFetch THEN NoFetch
                ELSE [fetch EXCEPT !.age = Older(@, Window)]
    /\ sent' = [c \in Conns |-> Shifted(sent[c])]
    /\ taken' = Older(taken, Window)
    /\ UNCHANGED <<world, up, cfg, seen, cached, copy, jobs, nextId, state,
                   won>>

Worker ==
    \/ StartRound \/ TakeSnapshot \/ ApplySnapshot \/ SnapshotFails
    \/ RefreshPanel \/ StartWorker \/ StopWorker
    \/ \E g \in Selectors : LoseRound(g) \/ DropRound(g) \/ DeferRound(g)
                            \/ HoldRound(g) \/ SwitchRound(g) \/ SwitchFails(g)
    \/ \E c \in Configs : ApplyConfig(c)

World ==
    \/ ToggleSession \/ NewPanel \/ Tick
    \/ \E g \in Selectors, n \in Nodes : UserSelects(g, n)
    \/ \E s \in Settings : UserSets(s)
    \/ \E c \in Conns : Connect(c) \/ Transfer(c) \/ Disconnect(c)

Next == Worker \/ World

Spec == Init /\ [][Next]_vars

-----------------------------------------------------------------------------
(* Correctness.                                                               *)

Views == [nodes : [Selectors -> Nodes], root : Selectors]
PanelViews == [rev : 0..MaxRev, nodes : Panels]
Snapshots == [Conns -> [node : Nodes \cup {NoNode}, total : Absent..MaxBytes]]
Scopes ==
    [selector : Selectors, rev : 0..MaxRev, node : Nodes] \cup {NoScope}
Jobs == [id : 1..MaxRound, nodes : SUBSET Nodes, live : BOOLEAN]
Ages == 0..Window

(* Every variable has its type.  A streak never outlives the decision it led  *)
(* to (evaluate resets it before it answers), so it counts to one at most.    *)
TypeOK ==
    /\ ctl \in Views /\ seen \in Views
    /\ panel \in PanelViews /\ cached \in PanelViews
    /\ conns \in Snapshots
    /\ valid \in BOOLEAN /\ up \in BOOLEAN
    /\ setting \in Settings /\ file \in Settings /\ copy \in Settings
    /\ cfg \in Configs
    /\ jobs \in [Selectors -> Jobs \cup {NoJob}]
    /\ nextId \in 1..(MaxRound + 1)
    /\ state.scope \in Scopes /\ state.pending \in Nodes \cup {NoNode}
    /\ state.wins \in {0, 1} /\ state.failures \in {0, 1}
    /\ state.lastRound \in 0..MaxRound
    /\ tracker.scope \in Scopes /\ tracker.lost \in BOOLEAN
    /\ tracker.base \in Ages /\ tracker.last \in 0..(StaleAfter + 1)
    /\ tracker.totals \in [Conns -> Absent..MaxBytes]
    /\ fetch = NoFetch \/ (fetch.age \in Ages /\ fetch.snap \in Snapshots)
    /\ taken \in Ages

(* The step in which the worker changes what the controller selects.          *)
AutoSwitch(g) ==
    /\ jobs[g] # NoJob /\ jobs'[g] = NoJob
    /\ ctl'.nodes[g] # ctl.nodes[g] \/ (ctl'.root # ctl.root /\ ctl'.root = g)

(* Every automatic switch rests on two evaluations in a row of one scope in   *)
(* one process under one configuration: the same candidate both times, or     *)
(* the same outage (confirm_candidate, evaluate_emergency, reset_for_scope).  *)
ConfirmedTwice ==
    [][\A g \in Selectors : AutoSwitch(g) =>
        /\ won.kind # "none" /\ won.scope = ScopeOf(g, panel.rev)
        /\ won.kind = "better" => ctl'.nodes[g] \in {won.node, ctl.nodes[g]}
        /\ won.kind = "route" => ctl'.nodes = ctl.nodes]_vars

(* A round still running when the user moves automatic selection to another   *)
(* group, or turns it off, never switches the group it was started for.       *)
OnlyConfiguredSelector ==
    [][\A g \in Selectors : AutoSwitch(g) =>
        cfg.enabled /\ cfg.selector = g]_vars

(* What the node carried that a snapshot after it, and within the window,     *)
(* could show.                                                                *)
Carried(n) ==
    SumOf([c \in Conns |-> IF conns[c].node = n
              THEN SumFunctionOnSet(sent[c], (taken + 1)..(Window - 1)) ELSE 0])

(* Whenever status() would let evaluate act, the open connections of the node *)
(* carried no more than the threshold in the window, and nothing at all when  *)
(* it says so, however late snapshots arrive or scopes change.                *)
IdleMeansQuiet ==
    \A g \in Selectors :
        LET status == TransferStatus(tracker, ScopeOf(g, panel.rev)) IN
        /\ status = "idle" => Carried(seen.nodes[g]) <= Threshold
        /\ status = "silent" => Carried(seen.nodes[g]) = 0

(* No automatic switch leaves a node, as the worker knows it, whose open      *)
(* connections carried more than the threshold in the window; after an outage *)
(* they carried nothing at all.                                               *)
NoSwitchDuringTransfer ==
    [][\A g \in Selectors : AutoSwitch(g) =>
        Carried(seen.nodes[g]) <= IF won.kind = "outage"
                                  THEN 0 ELSE Threshold]_vars

(* Two statements of README.md that the code does not keep (the project's     *)
(* README, known divergences); no run checks them.                            *)

(* "A switch is deferred while current-node connections grow by more than     *)
(* 64 KiB in the preceding 10 seconds", for the node in use.                  *)
NoSwitchUnderUser ==
    [][\A g \in Selectors : AutoSwitch(g) /\ ctl'.nodes[g] # ctl.nodes[g] =>
        Carried(ctl.nodes[g]) <= Threshold]_vars

(* The state file records the last explicit choices of the user.              *)
FileKeepsSetting == file = setting
=============================================================================
