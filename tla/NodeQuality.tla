----------------------------- MODULE NodeQuality -----------------------------
(* Node-quality persistence: how measurements of proxy nodes stay attributed  *)
(* to the outbound configuration that produced them while several processes   *)
(* (the TUI, its headless auto-pick worker, subscription refreshes, the CLI)  *)
(* share one sing-box config file, one SQLite database, two marker files and  *)
(* one running sing-box.                                                      *)
(*                                                                            *)
(* A configuration is abstracted to its node identities, tag -> fingerprint.  *)
(* A process is a thread of control with its own store handle: the TUI's main *)
(* loop, its refresh thread, a headless worker or a CLI command.              *)
EXTENDS Integers

CONSTANTS
    Tags,            \* outbound tags
    Fingerprints,    \* canonical outbound-configuration hashes
    NoFingerprint,   \* the tag is not in the configuration
    BridgeTag,       \* the outbound the private-access route table owns
    RouteTables,     \* fingerprints that table gives to it
    Payloads,        \* configurations a refresh or an import can build
    NoConfig,        \* the config file does not exist
    Procs,           \* threads of control
    Managers,        \* processes that own the managed sing-box
    Workers,         \* headless workers, started with a runtime receipt
    Committers,      \* processes that commit a rebuilt configuration
    Nobody,          \* holder of a free lock
    MaxGen,          \* largest generation (stands for i64::MAX)
    MaxPid           \* bound on the sing-box instances ever started

Identities == [Tags -> Fingerprints \cup {NoFingerprint}]

ASSUME ConstantsAssumption ==
    /\ NoFingerprint \notin Fingerprints
    /\ BridgeTag \in Tags
    /\ RouteTables \subseteq Fingerprints
    /\ Payloads \subseteq Identities
    /\ NoConfig \notin Identities
    /\ Managers \subseteq Procs /\ Workers \subseteq Procs
    /\ Committers \subseteq Procs
    /\ Nobody \notin Procs
    /\ MaxGen \in Nat \ {0} /\ MaxPid \in Nat \ {0}

VARIABLES
    config,    \* identities in the active config file, or NoConfig
    block,     \* marker file: quality reads and writes are blocked
    fence,     \* marker file: sing-box must be reloaded first
    db,        \* SQLite: generation, initialized, ids, facts
    runtime,   \* the live sing-box: pid (0: none) and what it loaded
    active,    \* pid published in the active-environment registry (0: none)
    nextPid,   \* pid of the next instance
    issued,    \* receipt of the last confirmed reload
    cfgLock,   \* holder of the config-mutation file lock
    qLock,     \* holder of the node-quality reconciliation file lock
    sqlLock,   \* holder of the SQLite write transaction
    pc,        \* where each process is
    tx,        \* each process's reconciliation in progress
    store,     \* generation of each process's open store (0: no store)
    receipt,   \* each process's runtime receipt
    job        \* each process's measuring job

files == <<config, block, fence>>
locks == <<cfgLock, qLock, sqlLock>>
live  == <<runtime, active, nextPid, issued>>
ses   == <<store, receipt, job>>
vars  == <<files, db, live, locks, pc, tx, ses>>

Facts == [tag : Tags, fp : Fingerprints]
Configs == Identities \cup {NoConfig}
Receipts == [gen : 0..MaxGen, pid : 0..MaxPid]
NoReceipt == [gen |-> 0, pid |-> 0]
NoRuntime == [pid |-> 0, cfg |-> NoConfig]
NewJob(kind, r, c) ==
    [kind |-> kind, proof |-> r, cfg |-> c, current |-> TRUE,
     tag |-> BridgeTag, fp |-> NoFingerprint]
NoJob == NewJob("none", NoReceipt, NoConfig)
NewTx(op, c, r) ==
    [op |-> op, cfg |-> c, prev |-> NoConfig, created |-> FALSE, proof |-> r]
NoTx == NewTx("none", NoConfig, NoReceipt)

(* Where a process can be: the steps of a reconciliation in program order,    *)
(* its two recovery steps, the two steps of a fact write, and a read lease.   *)
Steps == {"locked", "begin", "mark", "write", "apply", "commit", "clear",
          "settle", "reload", "unfence", "restore", "restore_blocked"}
PcValues == Steps \cup {"idle", "register", "checked", "insert", "lease"}

-----------------------------------------------------------------------------
(* Reconciliation of the identity table with a configuration.                 *)

IdentitiesChanged(c) == ~db.init \/ db.ids # c

(* Fault: keeps history by tag alone.                                         *)
BugRetainedByTag(c) ==
    {t \in Tags : c[t] # NoFingerprint /\ db.ids[t] # NoFingerprint}

(* Tags present before and after with the same fingerprint.                   *)
Retained(c) == {t \in Tags : c[t] # NoFingerprint /\ db.ids[t] = c[t]}

Reconciled(c) ==
    [gen   |-> IF IdentitiesChanged(c) THEN db.gen + 1 ELSE db.gen,
     init  |-> TRUE,
     ids   |-> c,
     facts |-> {f \in db.facts : f.tag \in Retained(c)}]

(* No marker, and the store was bound to the generation now in the database.  *)
SessionCurrent(p) ==
    /\ store[p] # 0
    /\ ~block /\ ~fence
    /\ db.init /\ db.gen = store[p]

(* runtime_receipt(): the receipt counts only while its session is current.   *)
ReceiptValid(p) ==
    /\ receipt[p] # NoReceipt
    /\ receipt[p].gen = store[p]
    /\ SessionCurrent(p)

-----------------------------------------------------------------------------
Init ==
    /\ config \in Payloads \cup {NoConfig}
    /\ block = FALSE /\ fence = FALSE
    /\ db = [gen |-> 0, init |-> FALSE,
             ids |-> [t \in Tags |-> NoFingerprint], facts |-> {}]
    /\ runtime = NoRuntime /\ active = 0 /\ nextPid = 1
    /\ issued = NoReceipt
    /\ cfgLock = Nobody /\ qLock = Nobody /\ sqlLock = Nobody
    /\ pc = [p \in Procs |-> "idle"]
    /\ tx = [p \in Procs |-> NoTx]
    /\ store = [p \in Procs |-> 0]
    /\ receipt = [p \in Procs |-> NoReceipt]
    /\ job = [p \in Procs |-> NoJob]

Goto(p, step) == pc' = [pc EXCEPT ![p] = step]

(* Dropping the guards in any order; a guard not held is left alone.          *)
Release(p) ==
    /\ cfgLock' = IF cfgLock = p THEN Nobody ELSE cfgLock
    /\ qLock' = IF qLock = p THEN Nobody ELSE qLock
    /\ sqlLock' = IF sqlLock = p THEN Nobody ELSE sqlLock

Finish(p) ==
    /\ Release(p)
    /\ Goto(p, "idle")
    /\ tx' = [tx EXCEPT ![p] = NoTx]

(* install_store: a new or paused store drops the receipt and every job.      *)
InstallStore(p, gen, proof) ==
    /\ store' = [store EXCEPT ![p] = gen]
    /\ receipt' = [receipt EXCEPT ![p] = proof]
    /\ job' = [job EXCEPT ![p] = NoJob]

-----------------------------------------------------------------------------
(* Taking the locks, always config before quality before SQLite.              *)

BeginCommit(p) ==
    /\ p \in Committers /\ pc[p] = "idle" /\ cfgLock = Nobody
    /\ cfgLock' = p
    /\ Goto(p, "locked")
    /\ tx' = [tx EXCEPT ![p] = NewTx("commit", NoConfig, NoReceipt)]
    /\ UNCHANGED <<files, db, live, qLock, sqlLock, ses>>

BeginOpen(p) ==
    /\ p \in Managers \cup Workers /\ pc[p] = "idle" /\ store[p] = 0
    /\ cfgLock = Nobody /\ config # NoConfig
    /\ cfgLock' = p
    /\ Goto(p, "locked")
    /\ tx' = [tx EXCEPT ![p] = NewTx("open", config, NoReceipt)]
    /\ UNCHANGED <<files, db, live, qLock, sqlLock, ses>>

BeginReload(p) ==
    /\ p \in Managers /\ pc[p] = "idle"
    /\ cfgLock = Nobody /\ config # NoConfig
    /\ InstallStore(p, 0, NoReceipt)
    /\ cfgLock' = p
    /\ Goto(p, "locked")
    /\ tx' = [tx EXCEPT ![p] = NewTx("reload", config, NoReceipt)]
    /\ UNCHANGED <<files, db, live, qLock, sqlLock>>

(* A worker adopts a receipt only for a process the registry still lists, so  *)
(* of all the receipts a parent passed on, only the last one can matter.      *)
BeginAdopt(p) ==
    /\ p \in Workers /\ pc[p] = "idle"
    /\ cfgLock = Nobody /\ config # NoConfig
    /\ issued.pid # 0 /\ active = issued.pid /\ runtime.pid = issued.pid
    /\ tx' = [tx EXCEPT ![p] = NewTx("adopt", config, issued)]
    /\ InstallStore(p, 0, NoReceipt)
    /\ cfgLock' = p
    /\ Goto(p, "locked")
    /\ UNCHANGED <<files, db, live, qLock, sqlLock>>

(* Fault: does not wait for the reconciliation lock.                          *)
BugLockQuality(p) ==
    /\ pc[p] = "locked"
    /\ qLock' = p
    /\ Goto(p, "begin")
    /\ UNCHANGED <<files, db, live, cfgLock, sqlLock, tx, ses>>

LockQuality(p) ==
    /\ pc[p] = "locked" /\ qLock = Nobody
    /\ qLock' = p
    /\ Goto(p, "begin")
    /\ UNCHANGED <<files, db, live, cfgLock, sqlLock, tx, ses>>

BeginTransaction(p) ==
    /\ pc[p] = "begin" /\ sqlLock = Nobody
    /\ sqlLock' = p
    /\ Goto(p, "mark")
    /\ UNCHANGED <<files, db, live, cfgLock, qLock, tx, ses>>

(* An open, schema or SQLITE_BUSY error before anything was changed.          *)
BeginFails(p) ==
    /\ pc[p] \in {"locked", "begin"}
    /\ Finish(p)
    /\ UNCHANGED <<files, db, live, ses>>

-----------------------------------------------------------------------------
(* The steps of a reconciliation.                                             *)

EnsureWritesBlocked(p) ==
    /\ pc[p] = "mark"
    /\ block' = TRUE
    /\ tx' = [tx EXCEPT ![p].created = ~block]
    /\ Goto(p, IF tx[p].op = "commit" THEN "write" ELSE "apply")
    /\ UNCHANGED <<config, fence, db, live, locks, ses>>

(* Creating or flushing the marker failed: the file may exist all the same.   *)
EnsureWritesBlockedFails(p) ==
    /\ pc[p] = "mark"
    /\ block' \in BOOLEAN /\ (block => block')
    /\ Finish(p)
    /\ UNCHANGED <<config, fence, db, live, ses>>

WriteConfig(p) ==
    /\ pc[p] = "write"
    /\ \E c \in Payloads :
        /\ config' = c
        /\ tx' = [tx EXCEPT ![p].cfg = c, ![p].prev = config]
    /\ Goto(p, "apply")
    /\ UNCHANGED <<block, fence, db, live, locks, ses>>

(* Fault: also removes a marker that an earlier, unresolved failure left.     *)
BugClearAnyMarker(p) == block' \in BOOLEAN

(* recover_*_config_failure: roll back, and try to remove the marker only     *)
(* when this commit created it and everything else was undone.                *)
ClearIfCreated(p) ==
    IF tx[p].created THEN block' \in BOOLEAN ELSE UNCHANGED block

(* Building, a prerequisite, the backup or the write failed before the rename *)
WriteConfigFails(p) ==
    /\ pc[p] = "write"
    /\ ClearIfCreated(p)
    /\ Finish(p)
    /\ UNCHANGED <<config, fence, db, live, ses>>

(* The rename happened and its durability is unknown: the marker stays.       *)
WriteConfigUncertain(p) ==
    /\ pc[p] = "write"
    /\ config' \in Payloads
    /\ Finish(p)
    /\ UNCHANGED <<block, fence, db, live, ses>>

(* Fault: publishes changed identities without the reload fence.              *)
BugApplyWithoutFence(p) ==
    /\ pc[p] = "apply"
    /\ IdentitiesChanged(tx[p].cfg) => db.gen < MaxGen
    /\ Goto(p, "commit")
    /\ UNCHANGED <<files, db, live, locks, tx, ses>>

(* Fault: advances the generation without checking for overflow.              *)
BugApplyUnchecked(p) ==
    /\ pc[p] = "apply"
    /\ fence' = (fence \/ IdentitiesChanged(tx[p].cfg))
    /\ Goto(p, "commit")
    /\ UNCHANGED <<config, block, db, live, locks, tx, ses>>

ApplyReconciliation(p) ==
    /\ pc[p] = "apply"
    /\ IdentitiesChanged(tx[p].cfg) => db.gen < MaxGen
    /\ fence' = (fence \/ IdentitiesChanged(tx[p].cfg))
    /\ Goto(p, "commit")
    /\ UNCHANGED <<config, block, db, live, locks, tx, ses>>

(* A bad config, generation overflow, an SQLite error or the fence failed.    *)
ApplyFails(p) ==
    /\ pc[p] = "apply"
    /\ fence' \in BOOLEAN /\ (fence => fence')
    /\ fence' => fence \/ IdentitiesChanged(tx[p].cfg)
    /\ IF tx[p].op = "commit"
       THEN /\ Goto(p, "restore")
            /\ UNCHANGED <<block, tx, locks>>
       ELSE /\ ClearIfCreated(p)
            /\ Finish(p)
    /\ UNCHANGED <<config, db, live, ses>>

CommitReconciliation(p) ==
    /\ pc[p] = "commit"
    /\ db' = Reconciled(tx[p].cfg)
    /\ sqlLock' = Nobody
    /\ Goto(p, "clear")
    /\ UNCHANGED <<files, live, cfgLock, qLock, tx, ses>>

(* The transaction is rolled back before the config file is restored.         *)
CommitFails(p) ==
    /\ pc[p] = "commit"
    /\ IF tx[p].op = "commit"
       THEN /\ Goto(p, "restore_blocked")
            /\ sqlLock' = Nobody
            /\ UNCHANGED <<tx, cfgLock, qLock>>
       ELSE Finish(p)
    /\ UNCHANGED <<files, db, live, ses>>

RestoreConfig(p) ==
    /\ pc[p] \in {"restore", "restore_blocked"}
    /\ config' = tx[p].prev
    /\ IF pc[p] = "restore" THEN ClearIfCreated(p) ELSE UNCHANGED block
    /\ Finish(p)
    /\ UNCHANGED <<fence, db, live, ses>>

(* The restore failed or its durability is unknown: the marker stays.         *)
RestoreConfigFails(p) ==
    /\ pc[p] \in {"restore", "restore_blocked"}
    /\ config' \in {config, tx[p].prev}
    /\ Finish(p)
    /\ UNCHANGED <<block, fence, db, live, ses>>

ClearWriteBlock(p) ==
    /\ pc[p] = "clear"
    /\ block' = FALSE
    /\ IF tx[p].op = "commit"
       THEN Finish(p)
       ELSE /\ Goto(p, "settle")
            /\ UNCHANGED <<tx, locks>>
    /\ UNCHANGED <<config, fence, db, live, ses>>

(* Fault: the error path returns with the guards still held.                  *)
BugClearLeaksLocks(p) ==
    /\ pc[p] = "clear"
    /\ Goto(p, "idle")
    /\ tx' = [tx EXCEPT ![p] = NoTx]
    /\ UNCHANGED <<files, db, live, locks, ses>>

ClearWriteBlockFails(p) ==
    /\ pc[p] = "clear"
    /\ Finish(p)
    /\ UNCHANGED <<files, db, live, ses>>

-----------------------------------------------------------------------------
(* What each operation does once its configuration is bound.                  *)

SettleOpen(p) ==
    /\ pc[p] = "settle" /\ tx[p].op = "open"
    /\ InstallStore(p, IF fence THEN 0 ELSE db.gen, NoReceipt)
    /\ Finish(p)
    /\ UNCHANGED <<files, db, live>>

SettleAdopt(p) ==
    /\ pc[p] = "settle" /\ tx[p].op = "adopt"
    /\ IF fence \/ db.gen # tx[p].proof.gen
       THEN UNCHANGED ses
       ELSE InstallStore(p, db.gen, tx[p].proof)
    /\ Finish(p)
    /\ UNCHANGED <<files, db, live>>

SettleReload(p) ==
    /\ pc[p] = "settle" /\ tx[p].op = "reload"
    /\ fence' = TRUE
    /\ Goto(p, "reload")
    /\ UNCHANGED <<config, block, db, live, locks, tx, ses>>

SettleReloadFails(p) ==
    /\ pc[p] = "settle" /\ tx[p].op = "reload"
    /\ fence' \in BOOLEAN /\ (fence => fence')
    /\ Finish(p)
    /\ UNCHANGED <<config, block, db, live, ses>>

(* sing-box reads the config file itself.                                     *)
StartedRuntime == [pid |-> nextPid, cfg |-> config]

Reload(p) ==
    /\ pc[p] = "reload" /\ nextPid <= MaxPid
    /\ runtime' = StartedRuntime
    /\ active' = 0
    /\ nextPid' = nextPid + 1
    /\ Goto(p, "unfence")
    /\ UNCHANGED <<files, db, issued, locks, tx, ses>>

(* The restart was refused, stopped the old process only, or started one that *)
(* never became ready.  Every one of these leaves the fence in place.         *)
ReloadFails(p) ==
    /\ pc[p] = "reload"
    /\ \/ UNCHANGED live
       \/ /\ runtime' = NoRuntime /\ active' = 0
          /\ UNCHANGED <<nextPid, issued>>
       \/ /\ nextPid <= MaxPid
          /\ runtime' = StartedRuntime /\ active' = 0
          /\ nextPid' = nextPid + 1
          /\ UNCHANGED issued
    /\ Finish(p)
    /\ UNCHANGED <<files, db, ses>>

ClearReloadFence(p) ==
    /\ pc[p] = "unfence"
    /\ fence' = FALSE
    /\ LET r == [gen |-> db.gen, pid |-> nextPid - 1] IN
        /\ InstallStore(p, db.gen, r)
        /\ issued' = r
    /\ Release(p)
    /\ Goto(p, "register")
    /\ tx' = [tx EXCEPT ![p] = NoTx]
    /\ UNCHANGED <<config, block, db, runtime, active, nextPid>>

ClearReloadFenceFails(p) ==
    /\ pc[p] = "unfence"
    /\ fence' \in BOOLEAN
    /\ Finish(p)
    /\ UNCHANGED <<config, block, db, live, ses>>

(* register_confirmed_active_environment, after the locks were dropped; a     *)
(* session that stopped being current meanwhile leaves the caller with an     *)
(* error, a failed registration also pauses persistence.                      *)
RegisterRuntime(p) ==
    /\ pc[p] = "register" /\ qLock = Nobody
    /\ IF ReceiptValid(p) /\ runtime.pid = receipt[p].pid
       THEN active' = receipt[p].pid
       ELSE UNCHANGED active
    /\ Goto(p, "idle")
    /\ UNCHANGED <<files, db, runtime, nextPid, issued, locks, tx, ses>>

RegisterRuntimeFails(p) ==
    /\ pc[p] = "register" /\ qLock = Nobody
    /\ InstallStore(p, 0, NoReceipt)
    /\ Goto(p, "idle")
    /\ UNCHANGED <<files, db, live, locks, tx>>

-----------------------------------------------------------------------------
(* Measuring.  A quick assessment asks the live sing-box about a tag; a       *)
(* sustained job runs isolated instances of a config captured when it began.  *)

(* Without a valid receipt a quick job starts all the same, but nothing it    *)
(* reports is ever recorded; it is left out.                                  *)
StartQuick(p) ==
    /\ pc[p] = "idle" /\ job[p].kind = "none" /\ qLock = Nobody
    /\ ReceiptValid(p)
    /\ job' = [job EXCEPT ![p] = NewJob("quick", receipt[p], NoConfig)]
    /\ UNCHANGED <<files, db, live, locks, pc, tx, store, receipt>>

MeasureQuick(p) ==
    /\ job[p].kind = "quick" /\ job[p].fp = NoFingerprint
    /\ runtime.pid # 0
    /\ \E t \in Tags \ {BridgeTag} :
        /\ runtime.cfg[t] # NoFingerprint
        /\ job' = [job EXCEPT ![p].tag = t, ![p].fp = runtime.cfg[t]]
    /\ UNCHANGED <<files, db, live, locks, pc, tx, store, receipt>>

StartSustained(p) ==
    /\ pc[p] = "idle" /\ job[p].kind = "none"
    /\ cfgLock = Nobody /\ qLock = Nobody
    /\ ReceiptValid(p) /\ config # NoConfig
    /\ job' = [job EXCEPT ![p] = NewJob("sustained", receipt[p], config)]
    /\ UNCHANGED <<files, db, live, locks, pc, tx, store, receipt>>

MeasureSustained(p) ==
    /\ job[p].kind = "sustained" /\ job[p].fp = NoFingerprint
    /\ \E t \in Tags \ {BridgeTag} :
        /\ job[p].cfg[t] # NoFingerprint
        /\ job' = [job EXCEPT ![p].tag = t, ![p].fp = job[p].cfg[t]]
    /\ UNCHANGED <<files, db, live, locks, pc, tx, store, receipt>>

FinishJob(p) ==
    /\ pc[p] = "idle" /\ job[p].kind # "none" /\ job[p].fp = NoFingerprint
    /\ job' = [job EXCEPT ![p] = NoJob]
    /\ UNCHANGED <<files, db, live, locks, pc, tx, store, receipt>>

Discarded(p) ==
    job' = [job EXCEPT ![p].fp = NoFingerprint, ![p].current = FALSE]

(* poll: is this result still attributable, checked under the quality lock?   *)
Attributable(p) ==
    \/ /\ job[p].kind = "quick" /\ job[p].current
       /\ ReceiptValid(p) /\ receipt[p] = job[p].proof
    \/ /\ job[p].kind = "sustained"
       /\ SessionCurrent(p) /\ store[p] = job[p].proof.gen

CheckResult(p) ==
    /\ pc[p] = "idle" /\ job[p].fp # NoFingerprint /\ qLock = Nobody
    /\ IF Attributable(p)
       THEN Goto(p, "checked") /\ UNCHANGED job
       ELSE Discarded(p) /\ UNCHANGED pc
    /\ UNCHANGED <<files, db, live, locks, tx, store, receipt>>

(* The write transaction first looks for the markers ...                      *)
BeginWrite(p) ==
    /\ pc[p] = "checked" /\ sqlLock = Nobody
    /\ IF block \/ fence
       THEN Goto(p, "idle") /\ Discarded(p) /\ UNCHANGED sqlLock
       ELSE Goto(p, "insert") /\ sqlLock' = p /\ UNCHANGED job
    /\ UNCHANGED <<files, db, live, cfgLock, qLock, tx, store, receipt>>

(* Fault: inserts without comparing generations.                              *)
BugInsertAnyGeneration(p) ==
    /\ pc[p] = "insert"
    /\ db' = [db EXCEPT !.facts =
                 @ \cup {[tag |-> job[p].tag, fp |-> job[p].fp]}]
    /\ job' = [job EXCEPT ![p].fp = NoFingerprint]
    /\ sqlLock' = Nobody
    /\ Goto(p, "idle")
    /\ UNCHANGED <<files, live, cfgLock, qLock, tx, store, receipt>>

(* ... then inserts where generation and tag are still the bound ones.        *)
InsertFact(p) ==
    /\ pc[p] = "insert"
    /\ LET t == job[p].tag IN
       IF db.init /\ db.gen = store[p] /\ db.ids[t] # NoFingerprint
       THEN /\ db' = [db EXCEPT !.facts =
                        @ \cup {[tag |-> t, fp |-> job[p].fp]}]
            /\ job' = [job EXCEPT ![p].fp = NoFingerprint]
       ELSE /\ Discarded(p)
            /\ UNCHANGED db
    /\ sqlLock' = Nobody
    /\ Goto(p, "idle")
    /\ UNCHANGED <<files, live, cfgLock, qLock, tx, store, receipt>>

(* SQLITE_BUSY or another SQLite error: the result is dropped.                *)
WriteFails(p) ==
    /\ pc[p] \in {"checked", "insert"}
    /\ Discarded(p)
    /\ sqlLock' = IF sqlLock = p THEN Nobody ELSE sqlLock
    /\ Goto(p, "idle")
    /\ UNCHANGED <<files, db, live, cfgLock, qLock, tx, store, receipt>>

(* A read lease is the quality lock itself, kept while facts are acted on.    *)
AcquireLease(p) ==
    /\ pc[p] = "idle" /\ qLock = Nobody /\ SessionCurrent(p)
    /\ qLock' = p
    /\ Goto(p, "lease")
    /\ UNCHANGED <<files, db, live, cfgLock, sqlLock, tx, ses>>

ReleaseLease(p) ==
    /\ pc[p] = "lease"
    /\ qLock' = Nobody
    /\ Goto(p, "idle")
    /\ UNCHANGED <<files, db, live, cfgLock, sqlLock, tx, ses>>

-----------------------------------------------------------------------------
(* The rest of the world.                                                     *)

(* A killed process keeps nothing but the files; the next one starts afresh.  *)
(* SQLite rolls its transaction back and the kernel drops its file locks.     *)
Crash(p) ==
    /\ Finish(p)
    /\ InstallStore(p, 0, NoReceipt)
    /\ UNCHANGED <<files, db, live>>

(* The managed sing-box is shut down, or dies.                                *)
RuntimeExits ==
    /\ runtime.pid # 0
    /\ runtime' = NoRuntime /\ active' = 0
    /\ UNCHANGED <<files, db, nextPid, issued, locks, pc, tx, ses>>

(* The private-access route table is written under the config lock only.      *)
WriteRouteTable(p) ==
    /\ p \in Managers /\ pc[p] = "idle"
    /\ cfgLock = Nobody /\ config # NoConfig
    /\ \E fp \in RouteTables : config' = [config EXCEPT ![BridgeTag] = fp]
    /\ UNCHANGED <<block, fence, db, live, locks, pc, tx, ses>>

(* The user edits the config while no process has a store open.               *)
EditConfig ==
    /\ cfgLock = Nobody
    /\ \A p \in Procs : store[p] = 0
    /\ config' \in Payloads
    /\ UNCHANGED <<block, fence, db, live, locks, pc, tx, ses>>

ReconcileStep(p) ==
    \/ LockQuality(p) \/ BeginTransaction(p) \/ BeginFails(p)
    \/ EnsureWritesBlocked(p) \/ EnsureWritesBlockedFails(p)
    \/ WriteConfig(p) \/ WriteConfigFails(p) \/ WriteConfigUncertain(p)
    \/ ApplyReconciliation(p) \/ ApplyFails(p)
    \/ CommitReconciliation(p) \/ CommitFails(p)
    \/ RestoreConfig(p) \/ RestoreConfigFails(p)
    \/ ClearWriteBlock(p) \/ ClearWriteBlockFails(p)
    \/ SettleOpen(p) \/ SettleAdopt(p) \/ SettleReload(p)
    \/ SettleReloadFails(p) \/ Reload(p) \/ ReloadFails(p)
    \/ ClearReloadFence(p) \/ ClearReloadFenceFails(p)
    \/ RegisterRuntime(p) \/ RegisterRuntimeFails(p)

BeginStep(p) ==
    BeginCommit(p) \/ BeginOpen(p) \/ BeginReload(p) \/ BeginAdopt(p)

MeasureStep(p) ==
    \/ StartQuick(p) \/ MeasureQuick(p)
    \/ StartSustained(p) \/ MeasureSustained(p) \/ FinishJob(p)
    \/ CheckResult(p) \/ BeginWrite(p) \/ InsertFact(p) \/ WriteFails(p)
    \/ AcquireLease(p) \/ ReleaseLease(p)

StepOf(p) ==
    \/ BeginStep(p) \/ ReconcileStep(p) \/ MeasureStep(p)
    \/ Crash(p) \/ WriteRouteTable(p)

Next == (\E p \in Procs : StepOf(p)) \/ RuntimeExits \/ EditConfig

Spec == Init /\ [][Next]_vars

-----------------------------------------------------------------------------
(* Correctness.                                                               *)

Nodes == Tags \ {BridgeTag}

Jobs == [kind : {"none", "quick", "sustained"}, proof : Receipts,
         cfg : Configs, current : BOOLEAN, tag : Tags,
         fp : Fingerprints \cup {NoFingerprint}]
Txs == [op : {"none", "commit", "open", "reload", "adopt"}, cfg : Configs,
        prev : Configs, created : BOOLEAN, proof : Receipts]
Runtimes == [pid : 1..MaxPid, cfg : Identities] \cup {NoRuntime}
Databases == [gen : 0..MaxGen, init : BOOLEAN, ids : Identities,
              facts : SUBSET Facts]

FilesOK == config \in Configs /\ block \in BOOLEAN /\ fence \in BOOLEAN
LiveOK ==
    /\ runtime \in Runtimes /\ active \in 0..MaxPid
    /\ nextPid \in 1..(MaxPid + 1) /\ issued \in Receipts
LocksOK ==
    /\ cfgLock \in Procs \cup {Nobody} /\ qLock \in Procs \cup {Nobody}
    /\ sqlLock \in Procs \cup {Nobody}
SessionsOK ==
    /\ store \in [Procs -> 0..MaxGen]
    /\ receipt \in [Procs -> Receipts]
    /\ job \in [Procs -> Jobs]

(* Every piece of shared and private state of config_mutation.rs, storage.rs  *)
(* and benchmark_workflow.rs stays in its domain; the generation never passes *)
(* the largest one.                                                           *)
TypeOK ==
    /\ FilesOK /\ db \in Databases /\ LiveOK /\ LocksOK
    /\ pc \in [Procs -> PcValues] /\ tx \in [Procs -> Txs]
    /\ SessionsOK

(* A stored measurement was carried by the very outbound its tag is bound to  *)
(* now: record_reachability_assessment and record_sustained_quality never     *)
(* file a result of an old runtime or an old config under a changed node.     *)
FactsAttributable == \A f \in db.facts : db.ids[f.tag] = f.fp

(* While a session counts as current (no marker, same generation), the live   *)
(* sing-box serves exactly the node outbounds the database has bound.         *)
SessionRuntimeAgree ==
    \A p \in Procs : SessionCurrent(p) /\ runtime.pid # 0 =>
        \A t \in Nodes : runtime.cfg[t] = db.ids[t]

(* ... and so does the config file: a half-done or uncertain commit is never  *)
(* visible to a session, because its write block is still there.              *)
SessionConfigAgree ==
    \A p \in Procs : SessionCurrent(p) =>
        /\ config # NoConfig
        /\ \A t \in Nodes : config[t] = db.ids[t]

(* A read lease (acquire_quality_read_lease) freezes the identity table, the  *)
(* generation and both markers until it is dropped.                           *)
LeaseFreezesIdentities ==
    [][\A p \in Procs : pc[p] = "lease" /\ pc'[p] = "lease" =>
        /\ db'.ids = db.ids /\ db'.gen = db.gen
        /\ block' = block /\ fence' = fence]_vars

(* The whole machinery of locks, markers and generations implements the two   *)
(* atomic operations of NodeFacts on the SQLite tables.                       *)
Abstract == INSTANCE NodeFacts WITH ids <- db.ids, facts <- db.facts
ImplementsNodeFacts == Abstract!FactsSpec

(* Threads keep running, a blocked file lock is granted once it is free often *)
(* enough, SQLite answers within its busy timeout, a reload ends within its   *)
(* readiness timeout.  Nothing is assumed of crashes or of new operations.    *)
Waits(p) == LockQuality(p) \/ RegisterRuntime(p)
Works(p) ==
    \/ pc[p] # "locked" /\ ReconcileStep(p)
    \/ BeginWrite(p) \/ InsertFact(p) \/ WriteFails(p) \/ ReleaseLease(p)
FairSpec ==
    Spec /\ \A p \in Procs : SF_vars(Waits(p)) /\ WF_vars(Works(p))

(* Config lock before quality lock before SQLite, in every operation: nobody  *)
(* waits for ever, and every lock taken is given back.                        *)
OperationsEnd == \A p \in Procs : pc[p] # "idle" ~> pc[p] = "idle"
=============================================================================
