# A TLA+ model of sing-box-tui

sing-box-tui is a terminal program around one `sing-box` proxy process. It
rebuilds the sing-box config from subscriptions, starts and restarts sing-box,
measures the nodes of its selector groups, keeps what it measured in SQLite,
switches nodes by itself when a better one was confirmed, and switches the
machine's traffic to the proxy (Internet TUN, system proxy). Several processes
do this at once: the TUI, its detached headless worker, a refresh thread, CLI
commands, and the user's editor, all over the same files and the same sing-box.

The modules here model that concurrency and what happens when a step of it
fails. TLC checks them on small instances; for node-quality persistence and the
database it lives in, the managed sing-box, background workers, usability runs, sustained
probes, network modes, the settings of the system proxy, Private Access sessions and three
of their protocols, the node runtime manager, subscription refresh, probe programs,
automatic selection and its ranking TLAPS proves safety properties for every instance.

    NodeFacts  <--refines--  NodeQuality  <--  NodeQualityProofs (TLAPS)
                                   ^-----------  MCNodeQuality
    NodeRanking + TrafficWindow  <--  AutoSelection  <--  MCAutoSelection  <--  MCTransferGuard
    AutoSelection, NodeRankingScan  <--  AutoSelectionProofs (TLAPS)
    NodeRanking  <--  NodeRankingScan
    NetworkModes, SystemProxySettings,
      DatabaseOpen                                        <--  NetworkModesProofs (TLAPS)
    ManagedProcess  <--  ManagedProcessProofs (TLAPS)
    BackgroundWorkers  <--  BackgroundWorkersProofs (TLAPS)
    UsabilityRun, SustainedProbe,
      BuiltinProbes, ProbeManifests                       <--  UsabilityRunProofs (TLAPS)
    PrivateAccess, SonicwallAuth, HillstoneSession,
      EspBridge, TunHelper                                <--  PrivateAccessProofs (TLAPS)
    NodeRuntimes, SubscriptionRefresh, ProbeProgram       <--  ProgressProofs (TLAPS)
    NetworkModes, SystemProxySettings, RouteRules,
      SubscriptionMerge, DatabaseOpen                     <--  MCNetworkModes
    ManagedProcess, BackgroundWorkers, UsabilityRun,
      BuiltinProbes, ProbeManifests, RuntimeConfig,
      SustainedProbe, NodeRankingScan                     <--  MCProcesses
    PrivateAccess, SonicwallAuth, EvpnBootstrap,
      EvpnConfig, HillstoneSession, EspBridge,
      TunHelper, AddressPlans                             <--  MCPrivateAccess
    NodeRuntimes, SubscriptionRefresh, ProbeProgram       <--  MCProgress

The last four MC modules each put several component modules under one roof.
The components in such a roof do not share state; a variable `part` says which
of them a behaviour is about, and only that one moves. The state space is the
sum of theirs, and each property is the component's own, guarded by `part`. The components
with theorems are extended by their roof and not instantiated: their properties are
checked as they stand, in the terms the theorems use, and their state does not move in
the other parts.
Where components do share state (config, database and sing-box; the worker and
the TUI; a service process, its threads and the TUI) they are one module.

Run a check with `tlc -config <name>.cfg <module>`, the proofs with
`tlapm <module>Proofs.tla`. `PROJECT.json` lists the runs, maps every
definition to the source lines it models, and lists hazards and findings.

## Inventory

Paths are below `src/src/`.

| Component | Sources | State it keeps | Operations | What must hold |
|---|---|---|---|---|
| Node-quality persistence | `storage.rs`, `config_mutation.rs`, `benchmark_workflow.rs`, `atomic_file.rs` | config file, two marker files, SQLite (generation, identities, facts), three locks, store handles, receipts, jobs | commit, open, reload, adopt, register, record a fact, read lease | a fact belongs to the outbound its tag is bound to; a session agrees with config and runtime |
| Automatic selection | `automatic_selection.rs`, `tui_benchmark_workflow.rs`, `tui_connections.rs`, `tui_auto_pick_worker.rs` | streaks, last round, transfer window, cached groups and panel | round, evaluate, switch, snapshot, configure, stop | two confirmations before a switch; no switch under a transfer; only for the configured group |
| Network modes | `internet_tun.rs`, `system_proxy.rs`, `tui_network_mode.rs`, `tui_managed_process.rs`, `tui_runtime_state.rs` | config (TUN part), runtime-state file, OS proxy, memory of the TUI | start-up reconciliation, toggles, exits | disabling restores what enabling replaced; modes and config agree; the OS never points at a stopped proxy |
| Config builder | `config.rs`, `import.rs`, `clash.rs`, `defaults.rs` | none, transforms documents | merge, TUN on and off, Private Access baseline, bridge and carrier routes, China IP routing, Tailscale | keeps what it does not own; references resolve; a rule is not hidden; an edit settles |
| Managed sing-box | `managed_sing_box.rs`, `process_inspection.rs`, `macos_privileged_helper.rs` | child, registry of active environments, start token, pid file of the broker | start, adopt, restart, stop, leave running | signals nobody else's process; leaves no process without an owner |
| Background worker manager | `auto_pick.rs` | registry file, token, socket, followed worker | spawn, configure, poll, replace, stop, adopt | one selecting worker at a time; a status is of the worker followed |
| Subscription refresh | `subscriptions.rs`, `tui_subscription_workflow.rs` | sources, cache file, pending reload | refresh, commit, reload, retry | config and cache agree after a refresh; a reload owed is not forgotten; groups resolve |
| Usability probes | `usability_probe.rs`, `tui_usability_probe.rs`, `builtin_usability_probe.rs` | run rows, probe lock, process group, catalogue | begin, probe, publish, recover, discover | a run owns its row; results are of the node as it is; a complete probe earned it; it ends |
| Node runtime manager | `node_runtime_manager.rs` | runtime slots, isolated children, cursor | create, next, step, close, end of input | slots are never overrun; the proxy is as told; nothing is left |
| Private Access sessions | `private_access_session.rs`, `private_access.rs`, `tui_private_access.rs` | profiles, service processes, pipes, event queue, dialogs | connect, authenticate, reconnect, detach, reattach | one service per profile; what is shown is true; bypass only with a session |
| Private Access protocols | `hillstone.rs`, `sonicwall.rs`, `sonicwall/evpn.rs`, `tun.rs` | gateway sessions, tokens, reassembly buffers, sequence numbers, resolver files | logon, bootstrap, setup, bridge requests, helper commands | nothing is lost, mixed up or left behind |
| Controller client | `controller.rs` | none | probe delay, select, snapshot connections | I/O |
| Sustained-quality probe | `sustained_quality.rs`, `benchmark_workflow.rs` | jobs, gate, table of results | start, transfer, cancel, poll, reload | the gate is exact; every node is answered once; the table is current |
| Rule sets, providers, path rules, views, CLI | `ruleset.rs`, `provider/`, `node_quality_path.rs`, `tui/`, `bin/`, `main.rs`, `cli.rs` | display state | download, convert, draw, parse | not modelled |

`PROJECT.json` gives the exact files per component.

**How they meet.** The TUI owns sing-box and hands its worker a *runtime
receipt* (generation and pid). Both read the config file and write the same
database and runtime-state file. A refresh replaces the config under two file
locks and one SQLite transaction. The TUN toggle runs on a thread that takes
the config lock itself, after the TUI has journalled what it is about to do. The
worker hears of a new configuration over a socket and of everything else only by reading files and the controller again.

**What is hard here.** Effects that cannot be one transaction: a config file, a
database and a process have to change together, so crashes between the steps
are covered by markers and journals. State captured before a lock and used
after it. Results that arrive after the configuration they measured was
replaced. A worker that acts on a copy of what the TUI has changed since.
Clean-up that runs when only half of the start-up has happened.

## Modules

### NodeQuality (with NodeFacts, NodeQualityProofs)

*State.* `config` is the active file reduced to node identities (tag to
fingerprint of the canonical outbound); `block` and `fence` are the two marker
files (writes blocked; reload required); `db` is the database; `runtime`,
`active`, `nextPid` the live sing-box, the registry entry and pid supply;
`cfgLock`, `qLock`, `sqlLock` the locks in the order every operation takes
them; `pc`, `tx`, `store`, `receipt`, `job` belong to each process.

*Actions.* The four operations share the steps of the code's reconciliation:
`Begin*`, `LockQuality`, `BeginTransaction`, `EnsureWritesBlocked`,
`WriteConfig` (commit only), `ApplyReconciliation`, `CommitReconciliation`,
`ClearWriteBlock`, then `SettleOpen`, `SettleAdopt`, or `SettleReload`,
`Reload`, `ClearReloadFence`, `RegisterRuntime`. Every step has its failing
twin, including the outcomes the code calls uncertain (a rename whose flush
failed, a marker that may exist after an error), and `Crash` may strike at any
of them. Measuring has a start, a measurement and three steps to record it
(check under the quality lock, look for markers, insert) because the code drops
the quality lock before it writes.

*Abstraction.* Only identities of a config matter. A quick job without a
receipt never records anything and is left out. Projection
caches, SQL text and backups are left out (opening and migrating the file is
`DatabaseOpen`). The user edits the config by hand
only while no store is open: the code cannot notice an edit made later before
its next bind. Of the receipts a parent passed on, only the last
can name a process the registry lists, so only that one is kept (`issued`).

*The abstract specification* `NodeFacts` has two operations: bind a new
configuration, keeping exactly the facts of unchanged nodes, and record a fact
of a bound node. `ImplementsNodeFacts` states that the protocol, seen through
the two SQLite tables, does only these.

### NodeRanking, NodeRankingScan

`compare_node_quality`, eligibility and the 20% gate as operators, with
absent measurements as `Missing` and ratios compared by cross multiplication as
in the code. `NodeRankingScan` is the `max_by` pass with the order of members
left open, so the result is compared with the definition of "best".
The products of the code are `u128` and cannot overflow; integers are unbounded
here for that reason.

### TrafficWindow, AutoSelection

`TrafficWindow` is `ActiveNodeTrafficTracker`, with instants kept as ages in
ticks. `AutoSelection` puts it beside the evaluation of a round, the worker's
life and a user. The worker's `seen`, `cached` and `copy` are the groups, panel
and state file as it last read them; `ctl`, `panel`, `file` are the real ones.
`sent`, `taken` and `won` are history variables that only properties read.

A failed controller write or refresh ends the worker (the error leaves the
loop), with whatever it had written still in place (`SwitchFails`). A restarted
worker restores the selections in the state file, which both processes write,
so `StartWorker` allows any earlier selection. That connection ids are not
reused and counters only grow is assumed of sing-box. Round ids only grow in
one process, so the code's answer to a repeated id is modelled and never
taken. Starting sustained jobs after a round and the text of explanations are
left out.

### NetworkModes

`conf` is `TunConfigState` plus the Private Access marker, `file` the
runtime-state file, `os` and `core` the world, `app`, `job`, `update` the
memory of the TUI and its two worker threads. `pc` walks through `App::new`
("load" to "up") and through `shutdown_runtime_environment` ("save" to "stop"
or "left"). The journal is the code's: `Persisted` names target and route
setting while a toggle runs. `orig` (what the managed TUN replaced) and `exit`
(how the last process ended) are history variables.

It models the path of Linux and Windows, where the file is replaced by rename:
a failed write leaves the old file. Left to other modules: the macOS helper
(`ManagedProcess`), single proxy settings, China IP routing and Tailscale.
Not modelled: detection of the proxy server, `--keep-running`. One TUI process runs
at a time. Edits by hand
change the route setting or add an inbound of the user's own (`tun-in` is
reserved), never during start-up.

### SystemProxySettings, RouteRules

`NetworkModes` treats the OS proxy and the route rules as one value each; these
two modules open them. `SystemProxySettings` runs an update as the sequence of
OS commands it is, over kinds and (macOS) network services: any command may
fail with the earlier ones done, another program may write the same settings,
the configured server may change, and exit and start-up use what the memory and
the state file say; a TUI may start beside a sing-box that was left running. `RouteRules` has the ordered list of rules and the features
that edit it, each by the position the code computes: merge, China IP routing,
Tailscale endpoint, Private Access carrier, bridge and baseline.

### SubscriptionRefresh, SubscriptionMerge

`SubscriptionRefresh` is a refresh as steps of two actors at once, the TUI's
worker and the command: read the cache, resolve every source from cache or
network, save, commit; then poll, reload and retry. A payload is a version
number. A commit that fails does so before the new config is in place (`CommitFails`)
or with it in place (`CommitStays`): a directory that cannot be synced, an undo or the
removal of the write block that fails. `told` is the last commit the TUI's worker
reported. What a payload does to the outbounds is `SubscriptionMerge`: groups with
members in order, defaults, the root selector, the merges of `subscribe` and
`import`. The locked commit itself is `NodeQuality`.

### DatabaseOpen

`open_with_preparation` as file operations: inspection, reset of an old
database with its sidecars, creation, migration from version 6, by two openers
that may be killed between any two of them, and another program that edits the
schema; what that one adds between the first page and the creation stays. SQLite is external: atomic transactions, the sidecars of WAL and
rollback mode, and what a read-only connection leaves behind (tried against
SQLite 3.40).

### ManagedProcess, BackgroundWorkers

`ManagedProcess` has a process table with reusable pids and one port. A manager
starts (with the bind retries), adopts, restarts, stops and leaves; a stop is
TERM, grace, verification by start token, KILL; the macOS broker keeps a child
and a pid file of its own. `wrong` is a history variable that names what was
signalled by mistake: the clean-up of a failed start signals pids it listed a moment
before, and may hit a process that got one of them since (`"cleanup"`), which
the code accepts; `SparesOthers` and `HelperSparesPrograms` name what must not happen.
What a process leaves behind when it ends is an orphan. A restart by the broker is five
steps, stop, spawn, pid file, answer and the manager's reading of it, and the broker may
be killed between any two; a clean-up lists the descendants, kills each, lists again and
only then kills its child. Two processes are nobody's after such steps and are marked
`"untold"`: one the broker had spawned when it was killed before its answer, and one sudo
forked behind the second listing.
`BackgroundWorkers` has the registry file, the worker
processes with their configuration and status counters, the manager in the TUI
with its poll in flight, and the stop command. `mishap` names the three events
after which the code cannot keep workers apart; properties exclude them by name.

### UsabilityRun, ProbeProgram, BuiltinProbes, ProbeManifests

`UsabilityRun` is the row of a run, the cross-process lock, the generation that
fences publication, schedule and permission, in the TUI and the worker, with
kills. A revocation whose run cannot be settled leaves the old permissions in force, as
the code does. A result is the version of the node it was measured on. `ProbeProgram` is
one executable probe: the program, perhaps a descendant that may leave the process
group (`Escapes`), the pipe, the reader
thread with its bounded channel, and the thread that reads, watches deadline and
cancellation, and takes the process group down. `BuiltinProbes` runs the three
built-in probes over the candidates. Why a test went as it did (`truth`: it worked, the
way through the node failed, the probe's own runtime did, something else, a cancel) is the
environment's choice; the code sees one of the signals such a cause can give (`Signals`)
and blames the node for those in `Blamed`. The properties compare verdicts with `truth`, which no
guard reads.
`ProbeManifests` is the discovery of criteria in a directory.

### NodeRuntimes, RuntimeConfig

`NodeRuntimes` is the JSON-RPC session: every request is a thread, so creations
race for slots, traversals for a runtime, and the end of input meets all of
them. `told` is what the client was last answered. `RuntimeConfig` derives the
isolated config: the walk of the selector graph, the closure of what the
candidates need, and the pruning of DNS servers, checked against declarative
definitions (least closed set, reachability).

### SustainedProbe

Jobs with worker threads behind one gate, results that arrive over a channel
after a cancel, a change of target or of generation, and the reload of the table
when another connection committed. A result is first committed (`PollResult`), then shown
under a lease taken anew (`ShowResult`), and either may fail: `unread` names the nodes the
table lacks since. `inexact`, `misfiled` and `unread` are history variables.

### PrivateAccess

The TUI's profiles, the state file, the dialog, and for each service process its
main thread, its worker thread, the command pipe and the bounded event queue.
The worker walks through authentication, set-up, data plane, back-off; the TUI
may quit, be left with B or be killed, and the next one reattaches by saved pid.

### SonicwallAuth, EvpnBootstrap, EvpnConfig

`SonicwallAuth` is the conversation with the gateway from discovery to renewal,
with tokens numbered in the order they were issued and answers that get lost.
`EvpnBootstrap` is the control stream, in pieces cut by reads anywhere:
reassembly, the exchange, the hand-over to the packet loop. `EvpnConfig` reads
one message in two layouts, over a word alphabet small enough to enumerate; its
reference is the encoder.

### HillstoneSession, EspBridge, TunHelper, AddressPlans

`HillstoneSession` is a session from connect to logout, with the gateway free to
skip or repeat frames; `announced` holds every state the service reports, the two
"connecting" of a run after the one of the service included. `EspBridge` is the user-space TCP of the HTTP bridge over
a network that keeps every segment for ever; sequence numbers wrap at `Mod`.
`TunHelper` is the privileged helper, its two pipes and the resolver files,
which are all that outlives it. `AddressPlans` checks pure functions (ranges to
CIDRs, routes for DNS servers, the split-DNS plan) against their meaning; a
state is one input and no action changes it.

### Deliberate faults

Operators named `Bug...` stand next to the definition they spoil: a dropped
guard, a missing fence, an unchecked counter, a lock never given back. They are
used by no specification. Put in the place of that definition, each makes one
part of its component's property fail; `PROJECT.json` ("mutants") names one for
each property. They show that the property depends on that code.

## Runs

| Run | Property (its named parts) | Shows |
|---|---|---|
| `quality_worker` | `FactsAttributable`, `SessionRuntimeAgree`, `LeaseFreezesIdentities` | TUI, worker and refresh over one database; all error paths and crashes |
| `quality_refresh` | `TypeOK`, `SessionConfigAgree`, `ImplementsNodeFacts`, `OperationsEnd` | route tables, the refinement; every operation ends and gives its locks back |
| `selection_rounds` | `ConfirmedTwice`, `OnlyConfiguredSelector` | two groups, reconfiguration, restarts, a switching user |
| `selection_traffic` | `IdleMeansQuiet`, `NoSwitchDuringTransfer` | late, lost and stale snapshots, in three scenarios: rounds and switches of one worker under load; processes, panels and connections that come and go; settings that do |
| `modes` | `TypeOK`, `ModeAgrees`, `QuitKeepsModes`, `DisableRestores`, `NoDanglingProxy` | network modes: crashes with two failures and an edit, or an edit that races a toggle with one failure |
| | `SettingsFollowIntent` (`RecordsApplied`, `WantedIsTakenBack`) | proxy settings half applied, changed by others, taken back on exit |
| | `ConfigEditsSound` (`RefsResolve`, `ReachableRules`, `EditsSettle`; `RefreshedGroupsResolve`, `RefreshIdempotent`) | route rules under every order of up to five edits; groups after a refresh, a merge and a first build |
| | `OthersKept` | what a refresh leaves of the other groups |
| | `DatabaseSafe` (`KeepsFacts`, `SparesStrangers`, `OpenMeansCurrent`) | two openers, kills, an editor, every kind of file found |
| `processes` | `OwnProcessesOnly` (`TypeOK`, `SparesOthers`, `HelperSparesPrograms`, `NoStrayCore`) | sing-box under sudo and under the broker, reused pids, a failure or a kill between any two steps; a stray core only where the broker was killed before its answer, or sudo forked behind a listing |
| | `OneWorkerFollowed` (`SingleSelector`, `StatusIsFollowed`) | workers spawned, replaced, stopped, adopted |
| | `RunsSound` (`RunsAreOwned`, `ResultsAreOfThisNode`, `IntervalKept`, `KeepsLastResult`) | usability runs of TUI and worker, a kill, commits in between |
| | `VerdictsEarned` (`OnlyNodesAreBlamed`, `ProgressConsistent`) | built-in probes over three candidates, with cancellation and failures of every cause: which of them a node is blamed for |
| | `CatalogFromFiles` | four manifest files in any order, three listed and two kept, two ids; intervals in the first file only |
| | `IsolatedExactly` (`KeepsWhatIsNeeded`, `ResolversResolve`, `ListedUnderItsGroups`) | every small reference graph |
| | `SustainedSound` (`GateExact`, `AnsweredOnce`, `NoDoubleTransfer`, `EvidenceIsExact`, `ShownIsCurrent`, `NothingMissed`) | sustained jobs; one node with facts of others, or two nodes; a lease that fails between the commit of a result and its display |
| | `ScanFindsBest` | the scan finds the one best node in any order, under each policy |
| `private_access` | `SessionsSound` (`TypeOK`, `OneServicePerProfile`, `ShownStateTrue`, `BypassBacked`) | sessions of three kinds, full queue, quit, B, kill, reattach |
| | `HelperSound` (`ReadyIsMine`, `SplitDnsBacked`, `NothingLeft`, `KeepsUsersFile`) | helpers, late answers, failures and kills, a file of the user |
| | `BridgeExact` (`ResponseIsPrefix`, `AckIsHeld`) | two requests over a lossy network, wrap-around |
| | `VpnSessionSound` (`NoOrphanSession`, `LoopHasAddress`, `EventOrder`) | every mode, repeated and partial set-ups, two I/O errors |
| | `ConfigurationExact` (`FramesAreIntact`, `NothingLostAtHandover`, `ExchangeConsistent`; `CurrentIsExact`, `ShortV1IsExact`; `RangeIsExact`, `ServersAreRouted`, `GatewayStaysPublic`) | four pieces, two interleaved messages, any cut; every small message in both layouts; every range of a 4-bit space, every small plan |
| | `LogonSound` (`RepliesMatch`, `NoSessionLeft`, `AnsweredInFull`, `LatestTokenUsed`) | two sessions, two tokens, lost answers |
| `progress` | `OutcomeIsEarned` (`CompleteIsEarned`, `OwnGroupOnly`), `ProbeEnds` | three lines of output, a descendant in the group or out of it, a cancel anywhere |
| | `RuntimesSound` (`ProxyIsAsTold`, `RuntimeLimit`, `NothingLeft`), `SessionEnds` | three pipelined requests, two runtimes for one slot, a death |
| | `RefreshSound` (`AloneMeansAgreed`, `ReloadOwed`), `CommitGetsLoaded` | two runs, two failures or kills; what a worker reported is reloaded |

The parts of a property are stated and explained in the component's module; a
property with an action among its parts states the invariants of the state after
each step.

Four more runs end in a violation; see Findings.

**Bounds.** Node quality has one node and one bridge outbound. That is enough
because nodes only interact through the whole-table generation; two fingerprints
let a node change and change back, which is the case a comparison by tag gets
wrong. `MaxGen` stands for `i64::MAX`, so the overflow check is reached; the
proofs drop these bounds. The ranking has three members because transitivity
needs three. Two rounds (`MaxRound`) are the length of a confirmation; a
restart allows more. A window of two ticks with staleness of one has a
warming-up, a full and an expired phase. In `NetworkModes` one failure
reaches every error path of an operation; a recovery that fails too is left to the
theorems, which hold for any number of failures. Where a component's counters are
bounded (pids, jobs, runs, requests, sessions, faults), the bound is one more
than the number the rule under test is about: two workers to be replaced, two
creations for one slot, two requests for one port, a second token for a
rejected one. Two pids are enough for `processes` because a reused pid is what it is
about: sing-box and its wrapper fill the table, and any later process reuses one;
the theorems drop the bound. Four pieces of `EvpnBootstrap` are the version
acknowledgement, a config in two fragments and data behind it. `Mod` 16 with a window of 6 keeps the proportion that makes old
and new sequence numbers distinguishable. Bounds of components inside a roof
are the `WITH` clauses of its MC module. `quality_refresh` starts one sing-box
(`MaxPid` 1); a restart beside a running one is in `quality_worker`. The probe
program has one member, since a line only tells members from other names and
repeats, and a channel of one line, which three lines overfill.

| Run | Distinct states |
|---|---|
| `quality_worker` / `quality_refresh` | 1.62 M / 148 k |
| `selection_rounds` / `selection_traffic` | 337 k / 527 k |
| `modes` / `processes` | 1.11 M / 2.20 M |
| `private_access` / `progress` | 1.97 M / 345 k |

`selection_traffic` uses symmetry on settings, which are only ever compared with
each other. The runs over several components have no deadlock
check: a probe, a scan, a session that ended has nothing more to do. That what
should end does end is `OperationsEnd` and the liveness of `progress`.

**Fairness.** `quality_refresh`: a thread between two steps keeps running and
SQLite answers within its busy timeout, sing-box within its readiness timeout:
weak fairness of `Works`. A thread that waits for a file lock polls or blocks
until it gets it: strong fairness of `Waits`, since others may take the lock in
between. `progress`: the probe thread and its reader go on and the deadline
comes, with nothing assumed of the program; `ProbeEnds` asks only that a descendant
outside the group does not hold the output for ever (`HeldOpen`; `CancelAlwaysEnds` fails,
see Known divergences); request threads and the supervisor
of a runtime go on, with nothing assumed of the client; the event loop polls and
retries, a transition ends and the steps of a refresh end; reloads fail a
bounded number of times. That a fetch ends is an assumption about the network:
`subscriptions.rs` sets no timeout on its clients, and a refresh that hangs holds
a pending reload back (`tui_subscription_workflow.rs:314`). Nothing is assumed
of crashes, of failures or of an operation being begun.

## Proofs

Eight modules hold proofs, for every value of the constants that satisfies the
assumptions the specifications state (kinds of constants, bounds that are numbers,
names that do not collide). None of them uses the bounds of the runs.

| Module | Theorem | States |
|---|---|---|
| `NodeQualityProofs` | `Invariance` | `Spec => []IInv` |
| | `TypeCorrect`, `Attribution`, `RuntimeAgreement`, `ConfigAgreement` | the four invariants the runs check |
| | `LeaseStability` | the action property of the read lease |
| | `Refinement` | `Spec => Abstract!FactsSpec` |
| `ManagedProcessProofs` | `OwnershipInvariant` | `Spec => []OwnershipInv` |
| | `OnlyOwnProcesses` | `OwnProcessesOnly` with all its parts |
| `NetworkModesProofs` | `TypesHold`, `ModesAgree`, `QuitsRemember` | the three invariants of `modes` about network modes |
| | `ProxyNeverDangles` | `NoDanglingProxy`, an action property |
| | `RouteRestored` | `DisableRestores`, an action property, from `~RacingEdits` |
| | `SettingsInvariant` | `ProxySpec => []SettingsInv` |
| | `SettingsAreFollowed` | `SettingsFollowIntent`, an action property with both its parts |
| | `DatabaseInvariant` | `DbSpec => []DatabaseInv` |
| | `DatabasesAreSafe` | `DatabaseSafe`, an action property with all its parts |
| `PrivateAccessProofs` | `SessionInvariant` | `Spec => []SessionInv` |
| | `SessionsAreSound` | `SessionsSound` with all its parts |
| | `LogonInvariant` | `LogonSpec => []LogonInv` |
| | `LogonsAreSound` | `LogonSound` with all its parts |
| | `VpnInvariant` | `VpnSpec => []VpnInv` |
| | `VpnSessionsAreSound` | `VpnSessionSound` with all its parts |
| | `BridgeInvariant` | `EspSpec => []EspInv` |
| | `BridgesAreExact` | `BridgeExact` with both its parts |
| | `HelperInvariant` | `TunSpec => []TunInv` |
| | `HelpersAreSound` | `HelperSound` with all its parts |
| `ProgressProofs` | `RuntimeInvariant` | `Spec => []NrInv` |
| | `RuntimesAreSound` | `RuntimesSound` with all its parts |
| | `RefreshInvariant` | `RefreshSpec => []RefreshInv` |
| | `RefreshesAreSound` | `RefreshSound` with both its parts |
| | `ProgramInvariant` | `ProcSpec => []ProcInv` |
| | `OutcomesAreEarned` | `OutcomeIsEarned` with both its parts |
| `AutoSelectionProofs` | `RoundsInvariant` | `Spec => []RoundInv` |
| | `SwitchesConfirmed`, `SwitchesConfigured` | the two action properties of `selection_rounds` |
| | `ScanCorrect` | `ScanFindsBest`: the scan finds the best candidate in any order |
| | `ImprovementAsymmetric` | the 20% gate lets at most one of two nodes replace the other |
| `BackgroundWorkersProofs` | `WorkersInvariant` | `BgSpec => []WorkersInv` |
| | `OneWorkerIsFollowed` | `OneWorkerFollowed` with both its parts |
| `UsabilityRunProofs` | `RunInvariant` | `RunSpec => []RunInv` |
| | `RunsAreSound` | `RunsSound` with all its parts |
| | `SustainedInvariant` | `SusSpec => []SusInv` |
| | `SustainedProbesAreSound` | `SustainedSound` with all its parts |
| | `BuiltinInvariant` | `BpSpec => []BuiltinInv` |
| | `VerdictsAreEarned` | `VerdictsEarned` with both its parts |
| | `ManifestInvariant` | `ManSpec => []ManifestInv` |
| | `CatalogIsOfFiles` | `CatalogFromFiles` |

**Node quality.** `FactsAttributable` is not inductive: it says nothing about a result
on its way to the database. `IInv` adds, besides the types,

- `LockInv`: who holds which lock at which step;
- `TxInv`: what a reconciliation in progress knows about config and database;
- `BlockInv`: the write block covers every moment config and identities may
  disagree while a store is open, and a commit that created the block removes
  it on its error path only where they agree again;
- `RuntimeInv`: without the fence, the live sing-box loaded the bound
  identities;
- `JobInv`: a measurement of the store's generation carries the fingerprint
  that generation binds to its tag;
- `FactsAttributable` itself.

The argument for a recorded fact: it is inserted only with the generation of the
store equal to the database's; equal generations mean equal identities, since a
change of identities advances the generation; and the job's fingerprint came from a
runtime or a captured config that agreed with those identities, because the
fence or the block was down when it was measured. It turned out that the
check in `poll` (`Attributable`) is not needed for this: the generation test in
the insert carries the safety, `poll` only spares the attempt.

**Managed sing-box.** That a manager signals nobody else's process cannot be seen
from the manager: it knows pids, and pids are given away again. What pins them is the
operating system's part of `OwnershipInv`:

- `TableInv`: the pid of a child nobody has waited for is not given away (`Waits`);
  what runs below a sudo wrapper was started for whoever started the wrapper (`Tree`),
  and a wrapper has one child (`OneChild`);
- `OwnInv`: for each manager, by what it owns and where it stands, that its pid is a
  child it has not waited for (`OwnsDirect`), or that its wrapper is and any child of
  the wrapper is the recorded pid (`OwnsElevated`); while starting (`Starts`), that the
  process to be cleaned up is its own;
- `Account`: every live process a manager started is the one it owns or starts
  (`Known`), unless a clean-up failed or hit a pid given away;
- `HelperInv`: the broker's child is the one named by its memory, or by its pid file
  after it was restarted.

The pid of an elevated sing-box is not pinned, since sudo waits for it; that is why
the code looks whether the pid still runs this config below the wrapper before each signal,
and the wrapper's pid is pinned. Nothing of the kind protects the pids a clean-up has
listed, and the theorem says so (`"cleanup" \notin wrong` in `NoStrayCore`). Nor does
anything name a sing-box whose broker was killed between its start and the answer, or a
child that sudo forked behind the second listing of a clean-up: from that step on nobody has started
them (`"untold"`), and `NoStrayCore` speaks of all others. In the steps of the broker
`HelperInv` says which process it has spawned and not yet recorded or answered for.
Looking for `Account` exposed a mistake in the model, where a clean-up with a listed
descendant always counted as failed and `NoStrayCore` was silent about what followed.

**Network modes.** `ModesInv` consists of what the start-up has established at each of
its steps (`StartInv`), where process and config agree in each phase of a toggle
(`ToggleInv`, `RollbackInv`), the config sing-box was started with (`CoreInv`), what
memory knows of the OS proxy (`ProxyInv`, `QuitInv`, `SuspendedInv`), and where the
setting to restore can be found (`RestoreInv`: on disk at every moment, crashes
included, in memory except between the worker's write and its poll). Two limits
showed up. `ModeAgrees` needs at most one failure if edits may race a toggle: when
an edit wins, the journal cannot be saved and the rollback fails too, process and
config disagree until the next start. `RouteRestored` needs edits not to race:
the journal holds the setting read before the worker takes the config lock, and an edit
in between followed by a crash makes it stale. (`RestoreInv` is part of `ModesInv` only
under this hypothesis; the other theorems about network modes do not use it.)

**Settings of the system proxy.** An update is a sequence of commands, three for each
network service on macOS, and others write the same settings meanwhile. The property of the
exit, that every setting was taken back before sing-box stops (`WantedIsTakenBack`), is
therefore about commands done some time ago. `TakenBack` says what is left of them: other programs may
have written what the commands turned off, but not with a server of ours. Every setting
is written by some command (`EveryTargetHasPlace`), hence nothing is left once the last one is done;
this rests on the arithmetic of the command's index and on `Services` being any number.
The intent is recorded by the poll alone (`OnlyPollRecords`), and only when the setting it
has just read matches.

**The node-quality database.** `DatabaseInv` says what each step of an open may rely on when
other processes were killed at any step of theirs: who writes holds the lock (`LockInv`), a
`-wal` file with content belongs to a current database (`LogInv`), files that are not recognized stop
every opener before it writes (`StrangersInv`), and at each step the content is what the
inspection saw (`StepInv`). The first version of the last part was not inductive: another
program may edit the schema between the first page and the creation of the tables. That
showed a mistake in the model, where the creation dropped what the other program had added;
`CREATE TABLE IF NOT EXISTS` keeps it. Hence `CurrentNow` promises an exact schema
only if nobody altered it, and the current version always.

**Private Access.** `OwnersInv` says where a service can be found: the state file
names every live service under its profile (`SavedInv`), a running TUI knows it as its
own process or as a background one (`ClaimInv`), and a profile with a live background
service shows connected, so that V cannot start another (`RuntimeInv`). That a profile
never has two services follows: they would be the same saved pid. `QueueInv` is what makes
`ShownStateTrue` inductive: what is on the screen is compared with the service through
the events still under way (`Reported`). A queue either ends the session, or the worker
is where the queue will leave the screen: a worker that is done has said so, unless a
SonicWall session was told to end (which is `DisconnectAnswered` below); connected can
come only from a data plane, or to a TUI that has sent `detach` and leaves; and nothing is
claimed once the overflow flag is set, because the TUI then ends the session. Each step
of a service is shown to keep this (`Serves`), for any length of the queue and of the
batch of events; each step of the TUI to keep the services it does not touch (`Tends`).

**SonicWall logon.** What is added to `LogonSound` are two facts about the two ends.
`HeldInv`: the gateway holds at most the session in use and those whose deletion failed,
so a logon that ends in any way leaves nothing else behind. `TokenInv`: the client's token is
the newest one issued, unless an answer was lost on the way; a rejection that nothing
excuses is then impossible, for any number of renewals and reconnects. No constant needs
an assumption: the bounds on sessions, tokens and replies are guards only.

**Hillstone session.** `EventOrder` is about a sequence of announcements, and the gateway
may skip, repeat and split frames. `Reached` bounds what can have been announced by the
phase, so a new event outranks those before it, but for "connecting", which is announced
again by the run and after the authentication (`hillstone.rs:97` and `111`) while nothing
of a higher rank has been. The addresses come from one
`SET_IP` frame (`AddressInv`), checked again where the packet loop begins; and a phase
after the data plane has a result (`ResultInv`), which is what makes the logout happen.

**Node runtimes.** `ProxyIsAsTold` compares what a client was told with where the proxy
leads, while other requests for the same runtime are under way; that it holds rests on who may
move the proxy. `NrInv` therefore follows the in-flight mark (`FlightInv`): a traversal
holds it from its entry until its response is written, so at most one traversal holds a
runtime of the table, and, in the table or not, at most one owns it. Whoever owns it is
the only one to move its proxy, so between two answers the proxy stays (`ToldInv`). A
rejected request holds nothing, and a traversal that failed only the mark. Ids order the rest
(`ThreadInv`): a client learns an id with the answer to the creation, so nobody uses a
runtime that is being created, and its creator may reset everything. `LeftInv` gives each
live sing-box and each directory a place in the table or a thread that will give it one or
clear it away; when the manager ends in order no such thread is left and the table is
cleared. The properties hold for a manager that is not closed in order as well
(`session = "failed"`), but for the child that is then left to its supervisor.

**Subscription refresh.** Two runs at once read, save and commit by whole files, so nothing
can be said of a run that met another. `AloneMeansAgreed` is about the others, and
`Undisturbed` follows such a run step by step: what it read is what the cache has, what it
saved is what the cache has then, and what it commits is that. The invariant says this
only while the other actor is idle; the step that begins a second run is also the one that
stops the first from counting as alone, and so nothing has to be shown of their steps together.
A run that fails or is killed may leave the cache torn or ahead of the config; the next run
alone reads it as it stands, and a torn cache as empty. For `ReloadOwed` it is enough that
nothing is loaded or told that was not committed, and that only a run at its end has a result
(`OweInv`). It is about commits the worker reported: a commit that stayed under an error
is never reported, so nothing is owed to it (`FailureKeepsConfig` fails, see Known divergences).

**Probe programs.** `CompleteIsEarned` compares an outcome with everything the program
wrote; the thread knows only the lines it took. `Queued` says that no line is lost or
reordered between them: the output is what was taken, then what waits in the
channel, then what waits in the pipe. The reader ends when the pipe is empty and closed, the
thread stops reading when the channel is empty and the reader gone (`EofInv`), so what it knows of
the lines it took (`TakenInv`) is then about all of them. `OwnGroupOnly` is `TreeInv`: the
leader is waited for only after the group was taken down, so its pid names nobody else when
the signal is sent. The theorem holds for any capacity of the channel and for descendants
that leave the group: those delay the end, which is liveness, and not the outcome.

**Automatic selection.** `RoundInv` relates the streak in the worker's state to the
history variable `won`, what the evaluation before concluded: a streak of one belongs
to the configured selector, to the scope and to the node `won` names, and a route is only
repaired towards the node in use (`StreakInv`). The tracker watches the configured
selector or has only started to (`TrackerInv`), so a switch decided from it is for that
selector. A window of length zero would switch without having watched anything:
`WindowAssumption` asks for one tick, the code has a constant of 10 s.

**Ranking.** The comparison chains optional measurements, and a chain of partial
comparisons is in general not transitive. `AutoSelectionProofs` shows for each field
that the comparison is antisymmetric and transitive, missing values and ratios
compared by cross multiplication included, and that chaining keeps this (`Chains`). The scan's invariant is then that the best so far beats every candidate
seen.

**Background workers.** `OneWorkerFollowed` speaks of workers that select and of a status
on display; what is inductive is stronger: `OneLives` says that, as long as none of the
three mishaps happened, at most one worker *lives*, whatever it is configured for. Where
it is found depends on the step of the manager. While `spawn` waits for the registry, it is the
child; before the first configuration is answered, it is the child and registered; at any
other time it is registered, and it is the followed one if one is followed. Hence a manager
that finds the registry empty, or its worker dead, may start another. The
stop command fits in because it removes the entry only after its worker is gone
(`ManagerInv`), so a removal that hits somebody else is the mishap `"removed"`. The status is right for two
reasons. A worker's generation only grows and an answer never runs ahead of it
(`AnswerInv`); and the generation last shown is forgotten where a new worker is taken on,
in `InitialConfig`, where `OneLives` starts to speak of it again: between the spawn and
this step the old one is still in memory, and the invariant claims nothing. Adopting
a registered worker needs no reset, since with one live worker it is the one whose
status was shown before.

**Usability runs.** A running row belongs to whoever holds the lock that the processes
share (`OwnerInv`), and there is one running row per criterion (`OneRunning`), so a row that
is found running while the lock is free is that of a killed process, and recovery cannot
settle a live one. What a job measured is compared with the nodes through the generation of its
row (`MeasureInv`): while the generation stands no node was rebound and no reload is
pending; when it moved, publication drops the result. That a scheduled probe keeps its
interval rests on what the worker remembers not being older than the rows of its scheduled
runs (`ScheduleInv`), and, in a worker that was restarted, on the rows themselves. The
latest of these is a maximum of a set of numbers; that it exists follows from the
well-foundedness of the order (`LatestIsLast`), without an induction. Proving
`ThreadEnds` exposed a mistake in the model: a quantifier reached over the
assignment, which left the job of a selector without members to chance.
`IntervalAssumption` asks for a natural number.

**Sustained probes.** Counting is the difficulty: `GateExact` and `AnsweredOnce` compare a
counter with the cardinality of a set. `Owes` says what a job still has to answer:
exactly its nodes that a thread holds or has yet to take, or whose answer waits in the channel, once. Each thread moves
one node, and so changes one element of each set; a result in the channel is about a node
that is still outstanding, so it is removed once. `NothingMissed` is `ViewInv`: if the
table lags behind the database, another connection committed and the version
has moved past the one observed, or the node is in `unread`: its lease or its read failed after
the fact was there. A reload in progress reads the version first, and what
it read last is current unless the version has moved on since; reading in the other order
would break exactly this. That only an exact response counts as completed needs the
length of a body. `BodyLength` is a recursive function; the bodies have at most two chunks,
and for these the defining equation is unfolded with an explicit witness (`LengthOf`),
without an induction. `SustainedAssumption` asks for finitely many nodes, a target, and positive
limits.

**Built-in probes and manifests.** The progress of the built-in probes is a counter for each
stage, the verdicts are a function: `CountInv` says that the counters are the
cardinalities of the candidates tested (`Tested`) and of those found usable (`Usables`), and
each verdict adds one candidate to the first set and at most one to the second. What a
node is blamed for is `VerdictInv`: a verdict rests on a signal, and the signal on the
cause of the test (`SignalsTell`). A rejected node failed, or the runtime failed in a way
that looks like it (`LooksLikeNode`); a missing login, a timeout of Agy or a cancellation
never rejects one. That the runtime is blamed at all is a known
divergence (`RuntimeIsNotBlamed`). Of the manifests, `ManifestInv` says that while the directory is listed
the kept paths are a `Prefix` of those listed so far: the first limit + 1 of them by name
(`PrefixAdds`). That is a property of the set of listed files, so the order of listing
leaves no trace, and after the cut they are exactly `First(Listed)` (`PrefixIsFirst`).
The largest element of a finite set, which the code removes, exists because the ranks of
its elements have a least complement (`LargestIs`), again without an induction. In a
directory with more than `MAX_DIRECTORY_ENTRIES_SCANNED` entries the code stops listing,
and which files it has seen then depends on the order; the theorem is about the files
listed, and says that this happens only there. `BuiltinAssumption` and
`ManifestAssumption` ask for natural numbers and a finite set of files.

**The bridge's stream.** The network keeps every segment, so two confusions are possible: a segment of
an earlier request is taken for one of this request, or bytes are put in the wrong place.
The first is excluded by ports (`PortInv`): `Behind` counts how many allocations ago a port
was given out, a flow's port is at most as many behind as requests were accepted, and a
port that is given out anew is as many behind as there are ports. Hence the assumption
`MaxRequests <= Ports`: after 16384 requests in one run ports repeat, and with segments that old
still under way nothing is claimed. The second is excluded by positions: `DataInv` says that
the data is `Piece(r, 0, n)`, that the acknowledgement number is the position of byte
`n`, and that every early piece lies at the position of its first byte. Positions of one
response differ because it is shorter than the sequence space (`Length < Mod`, 4 GiB in
the code; `SeqAtTells`), so a piece at the acknowledgement number continues the data
(`PieceAppended`). How many early pieces are appended at once is not bounded by a
constant, so `DrainedHolds` is an induction over the steps of the loop (`AllNumbers`), and that
the loop has its steps is another one (`StepsExist`).

**The tunnel helper.** A client takes "Ready" and "Stopped" for the answers to what it
asked last, and nothing in an answer says so. `TunInv` shows that it may, by what is still to be
said over the two pipes (`Agree`, one formula per state of the client). A retained helper is
never asked to start again before its reset is answered: until then the reset is the last
command in the pipe (`ResetComes`), or is being carried out (`ResetGoes`), or its "Stopped"
is the last answer, nothing can follow it and the pipes are empty once it is read
(`ResetDone`). So a "Ready" that arrives while a client waits for a start belongs to this
start (`Starts`). The reader thread may put packets and errors anywhere before that,
but not behind: it is joined before the context is dropped. For the files, `GuardInv` says
that the guard holds the first names in order, and `FileInv` that the files of a running
helper are those its guard holds and the one it is writing, where the user did not put one of
their own; what a helper that ends by itself leaves is then what its empty guard holds. A
stale file is removed only if its owner does not run, and a live helper's pid always answers
(`BirthInv`): hence no helper takes another's files, though a reused pid may keep a dead one's.
The model lets nobody edit between a helper's look at a file and its next step with it
(`UserEdits`, and the note in the module); `KeepsUsersFile` rests on that.
The proof found two mistakes in the model: a drop took the pid of a helper that had already
ended away from the process that had got it since, and a killed helper that was creating a
file kept the user from editing for ever.

**Only model-checked.** Liveness (`OperationsEnd` and the liveness of `progress`: fairness
is outside the prover's reach). `IdleMeansQuiet` and `NoSwitchDuringTransfer`: they
compare a sum over the connections with a sum over the window, and a sum over a set is
recursive; the walks and folds of the other models are too. The provers have no induction
scheme for a property, but they have the well-foundedness of the numbers, from which
induction for a *set* of numbers follows (`AllNumbers`). That is enough for a walk with a
counter; for a sum over a set it would take its laws first. The same holds for
the functions of `EvpnConfig` and `AddressPlans`, for the reassembly of `EvpnBootstrap` and
for the walks of `RuntimeConfig`, `RouteRules` and `SubscriptionMerge`.
In `NetworkModesProofs` the two modules come in by EXTENDS, which is why the variables of the
three have different names.

## Findings

Four runs end in a violation; `PROJECT.json` quotes the lines that disagree.

| Run | What the counterexample shows |
|---|---|
| `modes_selections` | A start-up that fails after the state was loaded saves the state while the group list is still empty: every saved selection is lost. |
| `database_retry` | Inspecting an old database in WAL mode creates sidecars that are not in the list of files to reset. A kill between the deletion and the creation leaves them without a main file, and every later open refuses them. |
| `subscription_members` | A refresh drops a node; the url-test group of the default config keeps its name (`AutoGroupLoads`), sing-box refuses the config, and the reload is retried for ever. |
| `sonicwall_reject` | The gateway rejects a token in TEAM AUTH; the check for it looks at the error of another call, so the same token is presented again until the retries are used up. |

### Known divergences

These are met by the models and have no run of their own. Where a definition is
named, giving it to TLC as an `INVARIANT` (or `PROPERTY`) of its component shows
the behaviour.

| Definition | What happens | The text it departs from |
|---|---|---|
| `AutoSelection.NoSwitchUnderUser` | The worker reads the groups at its start and after its own switch only; a node chosen by the user meanwhile is not the one whose traffic is watched. | `README.md:329` |
| `AutoSelection.FileKeepsSetting` | The state a worker saves after a switch overwrites choices the TUI saved since that worker was started. | `README.md:335` |
| `SystemProxySettings.StopsUnused` | A first enable fails halfway over the network services and is not wanted yet; leaving takes nothing back, and sing-box stops while a service still points at it. | `system_proxy.rs:127` |
| `RouteRules.TailnetRouted` | The Private Access baseline turns the Tailscale rule for the carrier-grade NAT range into a direct one (`config.rs:2473`). | `docs/embedded-tailscale-endpoint.md:113` |
| `ManagedProcess.OnlyOwnRestarted` | Two TUIs share one broker; the request of one stops the sing-box of the other. | `docs/tui-interaction-contract.md:741` |
| `BackgroundWorkers.OffMeansOff` | Automatic selection is turned off while probes keep the worker alive: the worker is neither stopped nor sent a new configuration (`tui_benchmark_workflow.rs:148`) and goes on selecting until the TUI next ensures it, while the status says it was stopped. | `docs/tui-interaction-contract.md:421` |
| `PrivateAccess.DisconnectAnswered` | A SonicWall worker that is cancelled may end without a disconnected state; the TUI goes on showing "disconnecting" (`private_access.rs:1228`). | the Private Access RFC of 2026-07-06, line 321 |
| `AddressPlans.PlanInstallable` | Namespaces that differ in a leading dot need the same resolver file; the second installation fails (`tun.rs:1159`). | `docs/private-access-service.md:107` |
| `SustainedProbe.FactsOfTheirTarget` | The streaming probe captures its target at the start and files the result under the target of the end (`benchmark_workflow.rs:618`). | `sustained_quality.rs:157` |
| `SubscriptionRefresh.FailureKeepsConfig` | A commit that fails after the rename of the config (sync of the directory, undo, removal of the write block: `config_mutation.rs:271`) leaves the new config in place; the TUI is told of a failure and no reload is pending. | `docs/tui-interaction-contract.md:731` |
| `ProbeProgram.CancelAlwaysEnds` (with `Escapes`, under `ProcFairSpec`) | A probe is cancelled while a descendant outside the process group holds the standard output: the loop that reads it (`usability_probe.rs:885`) has no bound, and the probe does not end. | `usability_probe.rs:1039` |
| `BuiltinProbes.RuntimeIsNotBlamed` | The client or the isolated sing-box fails while a node is tested; the test looks like a broken transfer (`sustained_quality.rs:345`) or a closed connection (`builtin_usability_probe.rs:797`) and the node becomes unusable. | `CONTEXT.md:128`, `docs/usability-probe-manifests.md:246` |

Others follow from the models or were met while reading, without a definition:

- a broker killed between the start of sing-box and its answer leaves a process no manager
  owns (`macos_privileged_helper.rs:219`), as does a child sudo forks behind the second
  listing of a clean-up (`managed_sing_box.rs:460`);
- a result whose lease fails after its own commit, or a table whose first read fails, is missing from
  the table until another connection commits or a new store is installed
  (`benchmark_workflow.rs:1356`);
- a disable that was journalled, a crash, and an edit of the route setting before the
  next start: the journal restores a stale route (`RacingEdits` and `Crashes` both
  TRUE in `NetworkModes`; the runs take one at a time);
- after leaving with B, the next start finds a sing-box it did not start and refuses
  to take it over;
- a quit takes the TUN out of the config also while sing-box is kept running, and also
  a TUN that was on without having been chosen in the TUI;
- the subscription cache is written in place, so a kill can leave it torn
  (`subscriptions.rs:801`), and a refresh of one of two providers that use the same tag removes the other's node;
- a SonicWall session whose location the gateway refused is never deleted
  (`sonicwall.rs:268`); a V1 `CLIENT_CONFIG` long enough to look like the current
  layout is read as one;
- a saved pid of a Private Access service that was reused is shown as connected for
  ever;
- the interval between paid probes is forgotten by a new generation together with a
  restart (`storage.rs:1566`);
- any SQLite file with `user_version` below 6 is taken for an old database and reset.

## Not modelled

| Part | Why |
|---|---|
| First build of a config, conversion of Clash proxies, JSONC comments | Text and JSON transformation from an input to an output, with no state and no order of events; what later edits do to the result is `RouteRules` and `SubscriptionMerge`. |
| Rule-set download, the text of the providers' payloads | I/O; a payload is a set of nodes in the models. |
| `node_quality_path.rs` | Canonical paths and aliases: rules about file systems. That one database has one lock file is assumed. |
| Views, layout, palettes, modals, formatting | Rendering of state the models have. |
| Command line, executables under `src/bin` | Parsing and dispatch; the operations they start are actions. |
| TLS, ESP encryption, packet forwarding | Cryptography and throughput. Framing, control messages, the user-space TCP and the order of set-up and removal are modelled. |
| Installing the macOS helper, editing profiles | Single-step file operations of one process. |
| `Controller client` | HTTP; each call is a step with its success and its failures in the module that makes it. |

## Plan

Modelling follows the inventory; what is left is above. Every state machine has
its safety properties proved but for those with sums and walks named under "Only
model-checked"; these would need a theory of folds over finite sets first. Liveness stays with TLC.
