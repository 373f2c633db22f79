------------------------- MODULE NodeQualityProofs -------------------------
(* Proofs about NodeQuality for every set of processes, nodes, fingerprints   *)
(* and configurations, and every bound.                                       *)
EXTENDS NodeQuality, TLAPS

(* Who holds what: a reconciliation holds the config lock throughout and the  *)
(* quality lock from its second step on; a lease is the quality lock.         *)
LockInv ==
    \A p \in Procs :
        /\ pc[p] \in Steps => cfgLock = p
        /\ pc[p] \in (Steps \ {"locked"}) \cup {"lease"} => qLock = p

Agrees(c) == c \in Identities /\ \A t \in Nodes : c[t] = db.ids[t]
RuntimeAgrees == runtime.pid # 0 => Agrees(runtime.cfg)
AnyStore == \E p \in Procs : store[p] # 0

(* What a reconciliation knows at each of its steps.                          *)
TxInvOf(p) ==
    /\ pc[p] \in {"write", "restore", "restore_blocked"} => tx[p].op = "commit"
    /\ pc[p] \in Steps /\ tx[p].op # "commit" =>
           tx[p].cfg \in Identities /\ config = tx[p].cfg
    /\ pc[p] \in {"apply", "commit", "clear", "settle", "reload", "unfence"} =>
           tx[p].cfg \in Identities /\ config = tx[p].cfg
    /\ pc[p] = "commit" /\ IdentitiesChanged(tx[p].cfg) =>
           db.gen < MaxGen /\ fence
    /\ pc[p] \in {"clear", "settle", "reload", "unfence"} =>
           db.init /\ db.ids = tx[p].cfg
    /\ pc[p] \in {"reload", "unfence"} => fence
    /\ pc[p] = "unfence" /\ runtime.pid # 0 => runtime.cfg = tx[p].cfg

TxInv == \A p \in Procs : TxInvOf(p)

(* The write block covers every moment the config file and the identity table *)
(* may disagree while a store is open, and is lifted only where they agree.   *)
ConfigVisible == AnyStore => block \/ Agrees(config)
BlockInvOf(p) ==
    /\ pc[p] \in {"write", "apply", "commit", "clear", "restore",
                  "restore_blocked"} => block
    /\ AnyStore /\ tx[p].created =>
        /\ pc[p] = "write" => Agrees(config)
        /\ pc[p] = "apply" /\ tx[p].op # "commit" => Agrees(config)
        /\ pc[p] = "apply" /\ tx[p].op = "commit" => Agrees(tx[p].prev)
        /\ pc[p] = "restore" => Agrees(tx[p].prev)

BlockInv == ConfigVisible /\ \A p \in Procs : BlockInvOf(p)

(* Without a fence the live sing-box serves the bound nodes.                  *)
RuntimeInv == fence \/ RuntimeAgrees

(* A job's results belong to the bound nodes for as long as the generation of *)
(* its store is the one in the database.                                      *)
JobInvOf(p) ==
    /\ store[p] <= db.gen
    /\ pc[p] \in {"checked", "insert"} => job[p].fp # NoFingerprint
    /\ job[p].kind = "sustained" => job[p].cfg \in Identities
    /\ store[p] = db.gen =>
        /\ job[p].kind = "quick" => RuntimeAgrees
        /\ job[p].kind = "sustained" => Agrees(job[p].cfg)
        /\ job[p].fp # NoFingerprint => job[p].fp = db.ids[job[p].tag]

JobInv == \A p \in Procs : JobInvOf(p)

IInv ==
    /\ TypeOK /\ LockInv /\ TxInv /\ BlockInv /\ RuntimeInv /\ JobInv
    /\ FactsAttributable

-----------------------------------------------------------------------------

(* Which actions can change what.                                             *)

(* The config file and the markers.                                           *)
LEMMA FilesFrame ==
    ASSUME [Next]_vars
    PROVE  \/ UNCHANGED files
           \/ \E q \in Procs :
                \/ EnsureWritesBlocked(q) \/ EnsureWritesBlockedFails(q)
                \/ WriteConfig(q) \/ WriteConfigFails(q)
                \/ WriteConfigUncertain(q) \/ ApplyReconciliation(q)
                \/ ApplyFails(q) \/ RestoreConfig(q) \/ RestoreConfigFails(q)
                \/ ClearWriteBlock(q) \/ SettleReload(q)
                \/ SettleReloadFails(q) \/ ClearReloadFence(q)
                \/ ClearReloadFenceFails(q) \/ WriteRouteTable(q)
           \/ EditConfig
    BY DEF Next, StepOf, BeginStep, ReconcileStep, MeasureStep, vars, files, live,
       locks, ses, BeginCommit, BeginOpen, BeginReload, BeginAdopt,
       LockQuality, BeginTransaction, BeginFails, CommitReconciliation,
       CommitFails, ClearWriteBlockFails, SettleOpen, SettleAdopt, Reload,
       ReloadFails, RegisterRuntime, RegisterRuntimeFails, StartQuick,
       MeasureQuick, StartSustained, MeasureSustained, FinishJob, CheckResult,
       BeginWrite, InsertFact, WriteFails, AcquireLease, ReleaseLease, Crash,
       RuntimeExits

(* The SQLite tables.                                                         *)
LEMMA DbFrame ==
    ASSUME [Next]_vars
    PROVE  \/ UNCHANGED db
           \/ \E q \in Procs :
                \/ CommitReconciliation(q) \/ InsertFact(q)
    BY DEF Next, StepOf, BeginStep, ReconcileStep, MeasureStep, vars, files, live,
       locks, ses, BeginCommit, BeginOpen, BeginReload, BeginAdopt,
       LockQuality, BeginTransaction, BeginFails, EnsureWritesBlocked,
       EnsureWritesBlockedFails, WriteConfig, WriteConfigFails,
       WriteConfigUncertain, ApplyReconciliation, ApplyFails, CommitFails,
       RestoreConfig, RestoreConfigFails, ClearWriteBlock,
       ClearWriteBlockFails, SettleOpen, SettleAdopt, SettleReload,
       SettleReloadFails, Reload, ReloadFails, ClearReloadFence,
       ClearReloadFenceFails, RegisterRuntime, RegisterRuntimeFails,
       StartQuick, MeasureQuick, StartSustained, MeasureSustained, FinishJob,
       CheckResult, BeginWrite, WriteFails, AcquireLease, ReleaseLease, Crash,
       WriteRouteTable, RuntimeExits, EditConfig

(* The live sing-box and the registry.                                        *)
LEMMA LiveFrame ==
    ASSUME [Next]_vars
    PROVE  \/ UNCHANGED live
           \/ \E q \in Procs :
                \/ Reload(q) \/ ReloadFails(q) \/ ClearReloadFence(q)
                \/ RegisterRuntime(q)
           \/ RuntimeExits
    BY DEF Next, StepOf, BeginStep, ReconcileStep, MeasureStep, vars, files, live,
       locks, ses, BeginCommit, BeginOpen, BeginReload, BeginAdopt,
       LockQuality, BeginTransaction, BeginFails, EnsureWritesBlocked,
       EnsureWritesBlockedFails, WriteConfig, WriteConfigFails,
       WriteConfigUncertain, ApplyReconciliation, ApplyFails,
       CommitReconciliation, CommitFails, RestoreConfig, RestoreConfigFails,
       ClearWriteBlock, ClearWriteBlockFails, SettleOpen, SettleAdopt,
       SettleReload, SettleReloadFails, ClearReloadFenceFails,
       RegisterRuntimeFails, StartQuick, MeasureQuick, StartSustained,
       MeasureSustained, FinishJob, CheckResult, BeginWrite, InsertFact,
       WriteFails, AcquireLease, ReleaseLease, Crash, WriteRouteTable,
       EditConfig

(* The reconciliations in progress.                                           *)
LEMMA TxFrame ==
    ASSUME [Next]_vars
    PROVE  \/ UNCHANGED tx
           \/ \E q \in Procs :
                \/ BeginCommit(q) \/ BeginOpen(q) \/ BeginReload(q)
                \/ BeginAdopt(q) \/ BeginFails(q) \/ EnsureWritesBlocked(q)
                \/ EnsureWritesBlockedFails(q) \/ WriteConfig(q)
                \/ WriteConfigFails(q) \/ WriteConfigUncertain(q)
                \/ ApplyFails(q) \/ CommitFails(q) \/ RestoreConfig(q)
                \/ RestoreConfigFails(q) \/ ClearWriteBlock(q)
                \/ ClearWriteBlockFails(q) \/ SettleOpen(q) \/ SettleAdopt(q)
                \/ SettleReloadFails(q) \/ ReloadFails(q)
                \/ ClearReloadFence(q) \/ ClearReloadFenceFails(q) \/ Crash(q)
    BY DEF Next, StepOf, BeginStep, ReconcileStep, MeasureStep, vars, files, live,
       locks, ses, LockQuality, BeginTransaction, ApplyReconciliation,
       CommitReconciliation, SettleReload, Reload, RegisterRuntime,
       RegisterRuntimeFails, StartQuick, MeasureQuick, StartSustained,
       MeasureSustained, FinishJob, CheckResult, BeginWrite, InsertFact,
       WriteFails, AcquireLease, ReleaseLease, WriteRouteTable, RuntimeExits,
       EditConfig

(* Stores, receipts and jobs.                                                 *)
LEMMA SessionsFrame ==
    ASSUME [Next]_vars
    PROVE  \/ UNCHANGED ses
           \/ \E q \in Procs :
                \/ BeginReload(q) \/ BeginAdopt(q) \/ SettleOpen(q)
                \/ SettleAdopt(q) \/ ClearReloadFence(q)
                \/ RegisterRuntimeFails(q) \/ StartQuick(q) \/ MeasureQuick(q)
                \/ StartSustained(q) \/ MeasureSustained(q) \/ FinishJob(q)
                \/ CheckResult(q) \/ BeginWrite(q) \/ InsertFact(q)
                \/ WriteFails(q) \/ Crash(q)
    BY DEF Next, StepOf, BeginStep, ReconcileStep, MeasureStep, vars, files, live,
       locks, ses, BeginCommit, BeginOpen, LockQuality, BeginTransaction,
       BeginFails, EnsureWritesBlocked, EnsureWritesBlockedFails, WriteConfig,
       WriteConfigFails, WriteConfigUncertain, ApplyReconciliation,
       ApplyFails, CommitReconciliation, CommitFails, RestoreConfig,
       RestoreConfigFails, ClearWriteBlock, ClearWriteBlockFails,
       SettleReload, SettleReloadFails, Reload, ReloadFails,
       ClearReloadFenceFails, RegisterRuntime, AcquireLease, ReleaseLease,
       WriteRouteTable, RuntimeExits, EditConfig

-----------------------------------------------------------------------------
(* Type correctness.                                                          *)

(* Every writer of the files leaves them in their domains.                    *)
LEMMA FilesType ==
    ASSUME TypeOK, [Next]_vars PROVE FilesOK'
<1> USE ConstantsAssumption DEF TypeOK, FilesOK
<1>1. CASE UNCHANGED files
    BY <1>1 DEF files
<1>2. ASSUME NEW q \in Procs,
             \/ EnsureWritesBlocked(q) \/ EnsureWritesBlockedFails(q)
             \/ WriteConfigFails(q) \/ ClearWriteBlock(q)
      PROVE  FilesOK'
    BY <1>2 DEF EnsureWritesBlocked, EnsureWritesBlockedFails,
       WriteConfigFails, ClearIfCreated, ClearWriteBlock
<1>3. ASSUME NEW q \in Procs, WriteConfig(q) \/ WriteConfigUncertain(q)
      PROVE  FilesOK'
    BY <1>3 DEF WriteConfig, WriteConfigUncertain, Configs
<1>4. ASSUME NEW q \in Procs, ApplyReconciliation(q) \/ ApplyFails(q)
      PROVE  FilesOK'
    BY <1>4 DEF ApplyReconciliation, ApplyFails, ClearIfCreated
<1>5. ASSUME NEW q \in Procs, RestoreConfig(q) \/ RestoreConfigFails(q)
      PROVE  FilesOK'
  <2> tx[q].prev \in Configs
    BY DEF Txs
  <2> QED
    BY <1>5 DEF RestoreConfig, RestoreConfigFails, ClearIfCreated
<1>6. ASSUME NEW q \in Procs,
             \/ SettleReload(q) \/ SettleReloadFails(q)
             \/ ClearReloadFence(q) \/ ClearReloadFenceFails(q)
      PROVE  FilesOK'
    BY <1>6 DEF SettleReload, SettleReloadFails, ClearReloadFence,
       ClearReloadFenceFails
<1>7. ASSUME NEW q \in Procs, WriteRouteTable(q) PROVE FilesOK'
    BY <1>7 DEF WriteRouteTable, Configs, Identities
<1>8. CASE EditConfig
    BY <1>8 DEF EditConfig, Configs
<1> QED
    BY FilesFrame, <1>1, <1>2, <1>3, <1>4, <1>5, <1>6, <1>7, <1>8

(* Reconciling and inserting keep the tables well-formed; the generation      *)
(* grows only where apply checked it.                                         *)
LEMMA DbType ==
    ASSUME TypeOK, TxInv, JobInv, [Next]_vars PROVE db' \in Databases
<1> USE ConstantsAssumption DEF TypeOK
<1>1. CASE UNCHANGED db
    BY <1>1
<1>2. ASSUME NEW q \in Procs, CommitReconciliation(q)
      PROVE  db' \in Databases
  <2>1. tx[q].cfg \in Identities
    BY <1>2 DEF CommitReconciliation, TxInv, TxInvOf
  <2>2. IdentitiesChanged(tx[q].cfg) => db.gen < MaxGen
    BY <1>2 DEF CommitReconciliation, TxInv, TxInvOf
  <2> QED
    BY <1>2, <2>1, <2>2 DEF CommitReconciliation, Reconciled, Databases
<1>3. ASSUME NEW q \in Procs, InsertFact(q)
      PROVE  db' \in Databases
  <2>1. job[q].tag \in Tags /\ job[q].fp \in Fingerprints
    BY <1>3 DEF InsertFact, JobInv, JobInvOf, SessionsOK, Jobs
  <2> QED
    BY <1>3, <2>1 DEF InsertFact, Databases, Facts
<1> QED
    BY DbFrame, <1>1, <1>2, <1>3

(* A started sing-box has loaded a real configuration.                        *)
LEMMA LiveType ==
    ASSUME TypeOK, TxInv, [Next]_vars PROVE LiveOK'
<1> USE ConstantsAssumption DEF TypeOK, LiveOK
<1>1. CASE UNCHANGED live
    BY <1>1 DEF live
<1>2. ASSUME NEW q \in Procs, Reload(q) \/ ReloadFails(q)
      PROVE  LiveOK'
  <2>1. nextPid <= MaxPid => StartedRuntime \in Runtimes
    BY <1>2 DEF Reload, ReloadFails, StartedRuntime, TxInv, TxInvOf, Steps,
       Runtimes
  <2> QED
    BY <1>2, <2>1 DEF Reload, ReloadFails, Runtimes, live
<1>3. ASSUME NEW q \in Procs, ClearReloadFence(q) PROVE LiveOK'
    BY <1>3 DEF ClearReloadFence, Receipts, Databases
<1>4. ASSUME NEW q \in Procs, RegisterRuntime(q) PROVE LiveOK'
    BY <1>4 DEF RegisterRuntime, SessionsOK, Receipts
<1>5. CASE RuntimeExits
    BY <1>5 DEF RuntimeExits, NoRuntime, Runtimes, Configs
<1> QED
    BY LiveFrame, <1>1, <1>2, <1>3, <1>4, <1>5

(* A lock is free or held by a process.                                       *)
LEMMA LocksType ==
    ASSUME TypeOK, [Next]_vars PROVE LocksOK'
<1> USE DEF TypeOK, LocksOK
<1>1. ASSUME NEW q \in Procs, Release(q) PROVE LocksOK'
    BY <1>1 DEF Release
<1>2. CASE UNCHANGED locks
    BY <1>2 DEF locks
<1>3. ASSUME NEW q \in Procs, BeginStep(q) PROVE LocksOK'
    BY <1>3 DEF BeginStep, BeginCommit, BeginOpen, BeginReload, BeginAdopt
<1>4. ASSUME NEW q \in Procs,
             \/ LockQuality(q) \/ BeginTransaction(q)
             \/ CommitReconciliation(q) \/ AcquireLease(q) \/ ReleaseLease(q)
             \/ BeginWrite(q) \/ InsertFact(q) \/ WriteFails(q)
      PROVE  LocksOK'
    BY <1>4 DEF LockQuality, BeginTransaction, CommitReconciliation,
       AcquireLease, ReleaseLease, BeginWrite, InsertFact, WriteFails
<1>5. ASSUME NEW q \in Procs, CommitFails(q) PROVE LocksOK'
    BY <1>1, <1>5 DEF CommitFails, Finish
<1>6. ASSUME NEW q \in Procs, ReconcileStep(q) PROVE LocksOK'
    BY <1>1, <1>2, <1>4, <1>5, <1>6 DEF ReconcileStep, Finish, BeginFails,
       EnsureWritesBlocked, EnsureWritesBlockedFails, WriteConfig,
       WriteConfigFails, WriteConfigUncertain, ApplyReconciliation,
       ApplyFails, RestoreConfig, RestoreConfigFails, ClearWriteBlock,
       ClearWriteBlockFails, SettleOpen, SettleAdopt, SettleReload,
       SettleReloadFails, Reload, ReloadFails, ClearReloadFence,
       ClearReloadFenceFails, RegisterRuntime, RegisterRuntimeFails
<1>7. ASSUME NEW q \in Procs, MeasureStep(q) PROVE LocksOK'
    BY <1>2, <1>4, <1>7 DEF MeasureStep, StartQuick, MeasureQuick,
       StartSustained, MeasureSustained, FinishJob, CheckResult
<1> QED
    BY <1>1, <1>2, <1>3, <1>6, <1>7 DEF Next, StepOf, Crash, Finish,
       WriteRouteTable, RuntimeExits, EditConfig, vars

(* A step moves at most one process.                                          *)
LEMMA PcFrame ==
    ASSUME [Next]_vars
    PROVE  pc' = pc \/ \E q \in Procs, step \in PcValues : Goto(q, step)
<1> USE DEF PcValues, Steps
<1>1. ASSUME NEW q \in Procs, BeginStep(q)
      PROVE  Goto(q, "locked")
    BY <1>1 DEF BeginStep, BeginCommit, BeginOpen, BeginReload, BeginAdopt
<1>2. ASSUME NEW q \in Procs, ReconcileStep(q)
      PROVE  \E step \in PcValues : Goto(q, step)
    BY <1>2 DEF ReconcileStep, Finish, LockQuality, BeginTransaction,
       BeginFails, EnsureWritesBlocked, EnsureWritesBlockedFails, WriteConfig,
       WriteConfigFails, WriteConfigUncertain, ApplyReconciliation,
       ApplyFails, CommitReconciliation, CommitFails, RestoreConfig,
       RestoreConfigFails, ClearWriteBlock, ClearWriteBlockFails, SettleOpen,
       SettleAdopt, SettleReload, SettleReloadFails, Reload, ReloadFails,
       ClearReloadFence, ClearReloadFenceFails, RegisterRuntime,
       RegisterRuntimeFails
<1>3. ASSUME NEW q \in Procs, MeasureStep(q)
      PROVE  pc' = pc \/ \E step \in PcValues : Goto(q, step)
    BY <1>3 DEF MeasureStep, StartQuick, MeasureQuick, StartSustained,
       MeasureSustained, FinishJob, CheckResult, BeginWrite, InsertFact,
       WriteFails, AcquireLease, ReleaseLease
<1>4. ASSUME NEW q \in Procs, Crash(q) \/ WriteRouteTable(q)
      PROVE  pc' = pc \/ Goto(q, "idle")
    BY <1>4 DEF Crash, Finish, WriteRouteTable
<1>5. CASE RuntimeExits \/ EditConfig \/ UNCHANGED vars
    BY <1>5 DEF RuntimeExits, EditConfig, vars
<1> QED
    BY <1>1, <1>2, <1>3, <1>4, <1>5 DEF Next, StepOf

(* Every process is at a known step.                                          *)
LEMMA PcType ==
    ASSUME TypeOK, [Next]_vars PROVE pc' \in [Procs -> PcValues]
    BY PcFrame DEF TypeOK, Goto

(* Fresh records are in their record sets.                                    *)
LEMMA NewRecords ==
    /\ NoReceipt \in Receipts /\ NoTx \in Txs /\ NoJob \in Jobs
    /\ \A c \in Configs, r \in Receipts,
          op \in {"commit", "open", "reload", "adopt"} : NewTx(op, c, r) \in Txs
    /\ \A c \in Configs, r \in Receipts,
          kind \in {"quick", "sustained"} : NewJob(kind, r, c) \in Jobs
    BY ConstantsAssumption DEF Txs, Jobs, NoTx, NewTx, NoJob, NewJob, Receipts,
       NoReceipt, Configs

(* Reconciliation records stay well-formed.                                   *)
LEMMA TxType ==
    ASSUME TypeOK, [Next]_vars PROVE tx' \in [Procs -> Txs]
<1> USE ConstantsAssumption DEF TypeOK
<1>1. CASE UNCHANGED tx
    BY <1>1
<1>2. ASSUME NEW q \in Procs, BeginStep(q)
      PROVE  tx' \in [Procs -> Txs]
    BY <1>2, NewRecords DEF BeginStep, BeginCommit, BeginOpen, BeginReload,
       BeginAdopt, FilesOK, LiveOK, Configs
<1>3. ASSUME NEW q \in Procs, EnsureWritesBlocked(q)
      PROVE  tx' \in [Procs -> Txs]
  <2>1. [tx[q] EXCEPT !.created = ~block] \in Txs
    BY DEF Txs, FilesOK
  <2> QED
    BY <1>3, <2>1 DEF EnsureWritesBlocked
<1>4. ASSUME NEW q \in Procs, WriteConfig(q)
      PROVE  tx' \in [Procs -> Txs]
  <2>1. ASSUME NEW c \in Payloads
        PROVE  [tx[q] EXCEPT !.cfg = c, !.prev = config] \in Txs
    BY <2>1 DEF Txs, FilesOK, Configs
  <2> QED
    BY <1>4, <2>1 DEF WriteConfig
<1>5. ASSUME NEW q \in Procs, tx' = [tx EXCEPT ![q] = NoTx]
      PROVE  tx' \in [Procs -> Txs]
    BY <1>5, NewRecords
<1>6. ASSUME NEW q \in Procs,
             \/ ApplyFails(q) \/ CommitFails(q) \/ ClearWriteBlock(q)
      PROVE  tx' \in [Procs -> Txs]
    BY <1>1, <1>5, <1>6 DEF ApplyFails, CommitFails, ClearWriteBlock, Finish
<1> QED
    BY TxFrame, <1>1, <1>2, <1>3, <1>4, <1>5, <1>6 DEF BeginStep, Finish,
       BeginFails, EnsureWritesBlockedFails, WriteConfigFails,
       WriteConfigUncertain, RestoreConfig, RestoreConfigFails,
       ClearWriteBlockFails, SettleOpen, SettleAdopt, SettleReloadFails,
       ReloadFails, ClearReloadFence, ClearReloadFenceFails, Crash

(* Stores, receipts and jobs stay well-formed.                                *)
LEMMA SessionsType ==
    ASSUME TypeOK, JobInv, [Next]_vars PROVE SessionsOK'
<1> USE ConstantsAssumption DEF TypeOK, SessionsOK
<1>1. CASE UNCHANGED ses
    BY <1>1 DEF ses
<1>2. ASSUME NEW q \in Procs, NEW g \in 0..MaxGen, NEW r \in Receipts,
             InstallStore(q, g, r)
      PROVE  SessionsOK'
    BY <1>2, NewRecords DEF InstallStore
<1>3. ASSUME NEW q \in Procs,
             \/ BeginReload(q) \/ BeginAdopt(q)
             \/ RegisterRuntimeFails(q) \/ Crash(q)
      PROVE  SessionsOK'
    BY <1>2, <1>3, NewRecords DEF BeginReload, BeginAdopt,
       RegisterRuntimeFails, Crash
<1>4. ASSUME NEW q \in Procs,
             \/ SettleOpen(q) \/ SettleAdopt(q) \/ ClearReloadFence(q)
      PROVE  SessionsOK'
  <2>1. db.gen \in 0..MaxGen /\ tx[q].proof \in Receipts
    BY DEF Databases, Txs
  <2>2. [gen |-> db.gen, pid |-> nextPid - 1] \in Receipts
    BY <2>1 DEF Receipts, LiveOK
  <2> QED
    BY <1>1, <1>2, <1>4, <2>1, <2>2, NewRecords DEF SettleOpen, SettleAdopt,
       ClearReloadFence
<1>5. ASSUME NEW q \in Procs, StartQuick(q) \/ StartSustained(q)
      PROVE  SessionsOK'
    BY <1>5, NewRecords DEF StartQuick, StartSustained, FilesOK, Configs
<1>6. ASSUME NEW q \in Procs, NEW t \in Tags,
             NEW f \in Fingerprints \cup {NoFingerprint}, NEW b \in BOOLEAN
      PROVE  /\ [job[q] EXCEPT !.tag = t, !.fp = f] \in Jobs
             /\ [job[q] EXCEPT !.fp = f] \in Jobs
             /\ [job[q] EXCEPT !.fp = f, !.current = b] \in Jobs
    BY ZenonT(40) DEF Jobs
<1>7. ASSUME NEW q \in Procs, MeasureQuick(q) \/ MeasureSustained(q)
      PROVE  SessionsOK'
  <2>1. PICK t \in Tags, c \in Identities :
            /\ job' = [job EXCEPT ![q].tag = t, ![q].fp = c[t]]
            /\ UNCHANGED <<store, receipt>>
    <3>1. CASE MeasureQuick(q)
      <4> runtime.cfg \in Identities
        BY <3>1 DEF MeasureQuick, LiveOK, Runtimes, NoRuntime
      <4> QED
        BY <3>1 DEF MeasureQuick
    <3>2. CASE MeasureSustained(q)
      <4> job[q].cfg \in Identities
        BY <3>2 DEF MeasureSustained, JobInv, JobInvOf
      <4> QED
        BY <3>2 DEF MeasureSustained
    <3> QED
      BY <1>7, <3>1, <3>2
  <2>2. c[t] \in Fingerprints \cup {NoFingerprint}
    BY DEF Identities
  <2> QED
    BY <1>6, <2>1, <2>2
<1>8. ASSUME NEW q \in Procs, Discarded(q), UNCHANGED <<store, receipt>>
      PROVE  SessionsOK'
    BY <1>6, <1>8 DEF Discarded
<1>9. ASSUME NEW q \in Procs, FinishJob(q) \/ InsertFact(q)
      PROVE  SessionsOK'
  <2>1. [job[q] EXCEPT !.fp = NoFingerprint] \in Jobs
    BY DEF Jobs
  <2> QED
    BY <1>8, <1>9, <2>1, NewRecords DEF FinishJob, InsertFact
<1>10. ASSUME NEW q \in Procs,
              CheckResult(q) \/ BeginWrite(q) \/ WriteFails(q)
       PROVE  SessionsOK'
    BY <1>1, <1>8, <1>10 DEF CheckResult, BeginWrite, WriteFails, ses
<1> QED
    BY SessionsFrame, <1>1, <1>3, <1>4, <1>5, <1>7, <1>9, <1>10

(* TypeOK is preserved, given what reconciliations and jobs know.             *)
LEMMA TypeStep ==
    ASSUME TypeOK, TxInv, JobInv, [Next]_vars PROVE TypeOK'
    BY FilesType, DbType, LiveType, LocksType, PcType, TxType, SessionsType
       DEF TypeOK

-----------------------------------------------------------------------------
(* Mutual exclusion: only the holder moves within a critical section.         *)

(* LockInv is preserved by every step.                                        *)
LEMMA LockStep ==
    ASSUME TypeOK, LockInv, [Next]_vars PROVE LockInv'
<1> USE ConstantsAssumption DEF LockInv, TypeOK, LocksOK, Steps, PcValues
<1>1. ASSUME NEW q \in Procs, Finish(q) PROVE LockInv'
    BY <1>1 DEF Finish, Release, Goto
<1>2. ASSUME NEW q \in Procs, BeginStep(q) PROVE LockInv'
    BY <1>2 DEF BeginStep, BeginCommit, BeginOpen, BeginReload, BeginAdopt,
       Goto
<1>3. ASSUME NEW q \in Procs,
             LockQuality(q) \/ AcquireLease(q) \/ ReleaseLease(q)
      PROVE  LockInv'
    BY <1>3 DEF LockQuality, AcquireLease, ReleaseLease, Goto
<1>4. ASSUME NEW q \in Procs,
             NEW s \in (Steps \ {"locked"}) \cup {"idle", "checked", "insert"},
             Goto(q, s), UNCHANGED <<cfgLock, qLock>>,
             s \in Steps => pc[q] \in Steps \ {"locked"}
      PROVE  LockInv'
    BY <1>4 DEF Goto
<1>5. ASSUME NEW q \in Procs, ReconcileStep(q) PROVE LockInv'
  <2>1. CASE \/ BeginTransaction(q) \/ EnsureWritesBlocked(q)
             \/ WriteConfig(q) \/ ApplyReconciliation(q)
             \/ CommitReconciliation(q) \/ SettleReload(q) \/ Reload(q)
    BY <1>4, <2>1 DEF BeginTransaction, EnsureWritesBlocked, WriteConfig,
       ApplyReconciliation, CommitReconciliation, SettleReload, Reload, locks
  <2>2. CASE ApplyFails(q) \/ CommitFails(q) \/ ClearWriteBlock(q)
    BY <1>1, <1>4, <2>2 DEF ApplyFails, CommitFails, ClearWriteBlock, locks
  <2>3. CASE RegisterRuntime(q) \/ RegisterRuntimeFails(q)
    BY <1>4, <2>3 DEF RegisterRuntime, RegisterRuntimeFails, locks
  <2>4. CASE ClearReloadFence(q)
    BY <2>4 DEF ClearReloadFence, Release, Goto
  <2> QED
    BY <1>1, <1>3, <1>5, <2>1, <2>2, <2>3, <2>4 DEF ReconcileStep,
       BeginFails, EnsureWritesBlockedFails, WriteConfigFails,
       WriteConfigUncertain, RestoreConfig, RestoreConfigFails,
       ClearWriteBlockFails, SettleOpen, SettleAdopt, SettleReloadFails,
       ReloadFails, ClearReloadFenceFails
<1>6. ASSUME UNCHANGED <<pc, cfgLock, qLock>> PROVE LockInv'
    BY <1>6
<1>7. ASSUME NEW q \in Procs, MeasureStep(q) PROVE LockInv'
    BY <1>3, <1>4, <1>6, <1>7 DEF MeasureStep, StartQuick, MeasureQuick,
       StartSustained, MeasureSustained, FinishJob, CheckResult, BeginWrite,
       InsertFact, WriteFails, locks
<1> QED
    BY <1>1, <1>2, <1>5, <1>6, <1>7 DEF Next, StepOf, Crash, WriteRouteTable,
       RuntimeExits, EditConfig, vars, locks

(* A step of one process leaves every other process where it is.              *)
LEMMA Local ==
    ASSUME TypeOK, NEW q \in Procs, StepOf(q), NEW p \in Procs, p # q
    PROVE  /\ pc'[p] = pc[p] /\ tx'[p] = tx[p] /\ store'[p] = store[p]
           /\ receipt'[p] = receipt[p] /\ job'[p] = job[p]
<1> USE DEF TypeOK, SessionsOK
<1>1. CASE BeginStep(q)
    BY <1>1 DEF BeginStep, BeginCommit, BeginOpen, BeginReload, BeginAdopt,
       Goto, InstallStore, ses
<1>2. CASE ReconcileStep(q)
    BY <1>2 DEF ReconcileStep, Finish, Goto, InstallStore, ses, LockQuality,
       BeginTransaction, BeginFails, EnsureWritesBlocked,
       EnsureWritesBlockedFails, WriteConfig, WriteConfigFails,
       WriteConfigUncertain, ApplyReconciliation, ApplyFails,
       CommitReconciliation, CommitFails, RestoreConfig, RestoreConfigFails,
       ClearWriteBlock, ClearWriteBlockFails, SettleOpen, SettleAdopt,
       SettleReload, SettleReloadFails, Reload, ReloadFails, ClearReloadFence,
       ClearReloadFenceFails, RegisterRuntime, RegisterRuntimeFails
<1>3. CASE MeasureStep(q)
    BY <1>3 DEF MeasureStep, Goto, Discarded, ses, StartQuick, MeasureQuick,
       StartSustained, MeasureSustained, FinishJob, CheckResult, BeginWrite,
       InsertFact, WriteFails, AcquireLease, ReleaseLease
<1>4. CASE Crash(q) \/ WriteRouteTable(q)
    BY <1>4 DEF Crash, Finish, Goto, InstallStore, WriteRouteTable, ses
<1> QED
    BY <1>1, <1>2, <1>3, <1>4 DEF StepOf

(* While p reconciles, the others change neither the files nor the identity   *)
(* table; sing-box may exit.                                                  *)
LEMMA Exclusion ==
    ASSUME TypeOK, LockInv, NEW p \in Procs, pc[p] \in Steps,
           \/ \E q \in Procs \ {p} : StepOf(q)
           \/ RuntimeExits \/ EditConfig \/ UNCHANGED vars
    PROVE  /\ UNCHANGED files
           /\ db'.gen = db.gen /\ db'.init = db.init /\ db'.ids = db.ids
           /\ runtime' = runtime \/ runtime' = NoRuntime
<1> USE ConstantsAssumption DEF TypeOK
<1>1. cfgLock = p /\ \A q \in Procs \ {p} : pc[q] \notin Steps
    BY DEF LockInv
<1>2. ASSUME NEW q \in Procs \ {p}, ReconcileStep(q)
      PROVE  UNCHANGED <<files, db, runtime>>
    BY <1>1, <1>2 DEF ReconcileStep, Steps, live, LockQuality,
       BeginTransaction, BeginFails, EnsureWritesBlocked,
       EnsureWritesBlockedFails, WriteConfig, WriteConfigFails,
       WriteConfigUncertain, ApplyReconciliation, ApplyFails,
       CommitReconciliation, CommitFails, RestoreConfig, RestoreConfigFails,
       ClearWriteBlock, ClearWriteBlockFails, SettleOpen, SettleAdopt,
       SettleReload, SettleReloadFails, Reload, ReloadFails, ClearReloadFence,
       ClearReloadFenceFails, RegisterRuntime, RegisterRuntimeFails
<1>3. ASSUME NEW q \in Procs \ {p}, MeasureStep(q), ~InsertFact(q)
      PROVE  UNCHANGED <<files, db, runtime>>
    BY <1>3 DEF MeasureStep, live, StartQuick, MeasureQuick, StartSustained,
       MeasureSustained, FinishJob, CheckResult, BeginWrite, WriteFails,
       AcquireLease, ReleaseLease
<1>4. ASSUME NEW q \in Procs \ {p}, InsertFact(q)
      PROVE  /\ UNCHANGED <<files, runtime>>
             /\ db'.gen = db.gen /\ db'.init = db.init /\ db'.ids = db.ids
    BY <1>4 DEF InsertFact, Databases, live
<1>5. ASSUME NEW q \in Procs \ {p},
             BeginStep(q) \/ Crash(q) \/ WriteRouteTable(q)
      PROVE  UNCHANGED <<files, db, runtime>>
    BY <1>1, <1>5 DEF BeginStep, BeginCommit, BeginOpen, BeginReload,
       BeginAdopt, Crash, WriteRouteTable, live
<1>6. CASE RuntimeExits \/ EditConfig \/ UNCHANGED vars
    BY <1>1, <1>6 DEF RuntimeExits, EditConfig, vars, live
<1> QED
    BY <1>2, <1>3, <1>4, <1>5, <1>6 DEF StepOf

(* TxInv is preserved: by the moves of p itself, and by the others because    *)
(* they are excluded.                                                         *)
LEMMA TxStep ==
    ASSUME TypeOK, LockInv, TxInv, [Next]_vars PROVE TxInv'
<1> SUFFICES ASSUME NEW p \in Procs PROVE TxInvOf(p)'
    BY DEF TxInv
<1> USE ConstantsAssumption DEF TypeOK
<1>1. TxInvOf(p)
    BY DEF TxInv
<1>2. ASSUME \/ \E q \in Procs \ {p} : StepOf(q)
             \/ RuntimeExits \/ EditConfig \/ UNCHANGED vars
      PROVE  TxInvOf(p)'
  <2>1. pc'[p] = pc[p] /\ tx'[p] = tx[p]
    BY <1>2, Local DEF RuntimeExits, EditConfig, vars
  <2>2. CASE pc[p] \in Steps
    BY <1>1, <1>2, <2>1, <2>2, Exclusion DEF TxInvOf, Steps, NoRuntime, files,
       IdentitiesChanged
  <2>3. CASE pc[p] \notin Steps
    BY <2>1, <2>3 DEF TxInvOf, Steps
  <2> QED
    BY <2>2, <2>3
<1>3. ASSUME pc'[p] \notin Steps PROVE TxInvOf(p)'
    BY <1>3 DEF TxInvOf, Steps
<1>4. CASE BeginStep(p)
    BY <1>4 DEF BeginStep, BeginCommit, BeginOpen, BeginReload, BeginAdopt,
       Goto, TxInvOf, NewTx, FilesOK, Configs, Steps, files
<1>5. ASSUME Finish(p) PROVE TxInvOf(p)'
    BY <1>3, <1>5 DEF Finish, Goto, Steps
<1>6. CASE LockQuality(p) \/ BeginTransaction(p)
    BY <1>1, <1>6 DEF LockQuality, BeginTransaction, Goto, TxInvOf, Steps, files
<1>7. CASE EnsureWritesBlocked(p)
    BY <1>1, <1>7 DEF EnsureWritesBlocked, Goto, TxInvOf, Steps, Txs
<1>8. CASE WriteConfig(p)
    BY <1>1, <1>8 DEF WriteConfig, Goto, TxInvOf, Steps, Txs
<1>9. CASE ApplyReconciliation(p) \/ ApplyFails(p)
    BY <1>1, <1>5, <1>9 DEF ApplyReconciliation, ApplyFails, Goto, TxInvOf,
       Steps, IdentitiesChanged
<1>10. CASE CommitReconciliation(p)
    BY <1>1, <1>10 DEF CommitReconciliation, Reconciled, Goto, TxInvOf, Steps,
       files
<1>11. CASE CommitFails(p) \/ ClearWriteBlock(p)
    BY <1>1, <1>5, <1>11 DEF CommitFails, ClearWriteBlock, Goto, TxInvOf,
       Steps, files
<1>12. CASE SettleReload(p)
    BY <1>1, <1>12 DEF SettleReload, Goto, TxInvOf, Steps
<1>13. CASE Reload(p)
    BY <1>1, <1>13 DEF Reload, StartedRuntime, Goto, TxInvOf, Steps, files
<1>14. CASE ClearReloadFence(p) \/ RegisterRuntime(p) \/ RegisterRuntimeFails(p)
    BY <1>3, <1>14 DEF ClearReloadFence, RegisterRuntime, RegisterRuntimeFails,
       Goto, Steps
<1>15. CASE MeasureQuick(p) \/ MeasureSustained(p)
    BY <1>1, <1>15 DEF MeasureQuick, MeasureSustained, TxInvOf, files, live,
       IdentitiesChanged
<1>16. CASE MeasureStep(p) \/ WriteRouteTable(p)
    BY <1>3, <1>15, <1>16 DEF MeasureStep, StartQuick, StartSustained,
       FinishJob, CheckResult, BeginWrite, InsertFact, WriteFails,
       AcquireLease, ReleaseLease, WriteRouteTable, Goto, Steps
<1> QED
    BY <1>2, <1>4, <1>5, <1>6, <1>7, <1>8, <1>9, <1>10, <1>11, <1>12, <1>13,
       <1>14, <1>16 DEF Next, StepOf, ReconcileStep, BeginFails,
       EnsureWritesBlockedFails, WriteConfigFails, WriteConfigUncertain,
       RestoreConfig, RestoreConfigFails, ClearWriteBlockFails, SettleOpen,
       SettleAdopt, SettleReloadFails, ReloadFails, ClearReloadFenceFails, Crash

-----------------------------------------------------------------------------
(* The reload fence.                                                          *)

(* Reconciling with an unchanged configuration changes nothing bound.         *)
LEMMA CommitChanges ==
    ASSUME TypeOK, TxInv, NEW q \in Procs, CommitReconciliation(q)
    PROVE  \/ db'.ids = db.ids /\ db'.gen = db.gen
           \/ db'.gen = db.gen + 1 /\ fence
    BY DEF CommitReconciliation, Reconciled, IdentitiesChanged, TxInv, TxInvOf

(* Whatever sing-box loads during a reload is what the database has bound.    *)
LEMMA ReloadAgrees ==
    ASSUME TypeOK, TxInv, NEW q \in Procs, Reload(q) \/ ReloadFails(q),
           runtime' # runtime
    PROVE  RuntimeAgrees'
<1>1. pc[q] = "reload" /\ UNCHANGED db
    BY DEF Reload, ReloadFails
<1>2. config \in Identities /\ db.ids = config
    BY <1>1 DEF TxInv, TxInvOf
<1>3. runtime' = NoRuntime \/ runtime' = StartedRuntime
    BY DEF Reload, ReloadFails, live
<1> QED
    BY <1>1, <1>2, <1>3 DEF RuntimeAgrees, Agrees, NoRuntime, StartedRuntime,
       Nodes

(* RuntimeInv is preserved.                                                   *)
LEMMA RuntimeStep ==
    ASSUME TypeOK, TxInv, RuntimeInv, [Next]_vars PROVE RuntimeInv'
<1> USE DEF RuntimeInv
<1>1. ASSUME NEW q \in Procs, CommitReconciliation(q) PROVE RuntimeInv'
    BY <1>1, CommitChanges DEF CommitReconciliation, RuntimeAgrees, Agrees,
       files, live
<1>2. ASSUME NEW q \in Procs, ClearReloadFence(q) \/ ClearReloadFenceFails(q)
      PROVE  RuntimeInv'
  <2>1. runtime.pid # 0 => runtime.cfg \in Identities /\ runtime.cfg = db.ids
    BY <1>2 DEF ClearReloadFence, ClearReloadFenceFails, TxInv, TxInvOf
  <2> QED
    BY <1>2, <2>1 DEF ClearReloadFence, ClearReloadFenceFails, RuntimeAgrees,
       Agrees, live, Nodes
<1>3. ASSUME NEW q \in Procs, Reload(q) \/ ReloadFails(q) PROVE RuntimeInv'
    BY <1>3, ReloadAgrees DEF Reload, ReloadFails, RuntimeAgrees, Agrees, files
<1>4. CASE RuntimeExits
    BY <1>4 DEF RuntimeExits, RuntimeAgrees, NoRuntime
<1>5. ASSUME NEW q \in Procs, InsertFact(q) PROVE RuntimeInv'
    BY <1>5 DEF InsertFact, TypeOK, Databases, RuntimeAgrees, Agrees, files, live
<1>6. ASSUME NEW q \in Procs,
             \/ ApplyReconciliation(q) \/ ApplyFails(q)
             \/ SettleReload(q) \/ SettleReloadFails(q)
      PROVE  RuntimeInv'
    BY <1>6 DEF ApplyReconciliation, ApplyFails, SettleReload,
       SettleReloadFails, RuntimeAgrees, Agrees, live
<1>7. ASSUME UNCHANGED <<fence, runtime, db>> PROVE RuntimeInv'
    BY <1>7 DEF RuntimeAgrees, Agrees
<1>8. \/ UNCHANGED <<fence, runtime, db>>
      \/ \E q \in Procs :
           \/ CommitReconciliation(q) \/ InsertFact(q)
           \/ ClearReloadFence(q) \/ ClearReloadFenceFails(q)
           \/ Reload(q) \/ ReloadFails(q)
           \/ ApplyReconciliation(q) \/ ApplyFails(q)
           \/ SettleReload(q) \/ SettleReloadFails(q)
      \/ RuntimeExits
    BY FilesFrame, DbFrame, LiveFrame DEF files, live, EnsureWritesBlocked,
       EnsureWritesBlockedFails, WriteConfig, WriteConfigFails,
       WriteConfigUncertain, RestoreConfig, RestoreConfigFails,
       ClearWriteBlock, RegisterRuntime, WriteRouteTable, EditConfig
<1> QED
    BY <1>1, <1>2, <1>3, <1>4, <1>5, <1>6, <1>7, <1>8

-----------------------------------------------------------------------------
(* Measuring jobs.                                                            *)

(* For as long as the generation stays, identities stay and sing-box serves   *)
(* what it served, or nothing, or what is bound.                              *)
LEMMA GenerationStep ==
    ASSUME TypeOK, TxInv, [Next]_vars
    PROVE  /\ db'.gen >= db.gen
           /\ db'.gen = db.gen =>
                /\ db'.ids = db.ids
                /\ RuntimeAgrees => RuntimeAgrees'
<1>1. ASSUME NEW q \in Procs, CommitReconciliation(q)
      PROVE  UNCHANGED runtime
    BY <1>1 DEF CommitReconciliation, live
<1>2. ASSUME NEW q \in Procs, InsertFact(q)
      PROVE  db'.gen = db.gen /\ db'.ids = db.ids /\ UNCHANGED runtime
    BY <1>2 DEF InsertFact, TypeOK, Databases, live
<1>3. db.gen \in Nat
    BY ConstantsAssumption DEF TypeOK, Databases
<1>4. db'.gen >= db.gen /\ (db'.gen = db.gen => db'.ids = db.ids)
    BY <1>2, <1>3, DbFrame, CommitChanges
<1>5. ASSUME db'.ids = db.ids, RuntimeAgrees PROVE RuntimeAgrees'
  <2>1. CASE UNCHANGED runtime
    BY <1>5, <2>1 DEF RuntimeAgrees, Agrees
  <2>2. CASE RuntimeExits
    BY <2>2 DEF RuntimeExits, RuntimeAgrees, NoRuntime
  <2>3. ASSUME NEW q \in Procs, Reload(q) \/ ReloadFails(q)
        PROVE  RuntimeAgrees'
    BY <2>1, <2>3, ReloadAgrees
  <2> QED
    BY <2>1, <2>2, <2>3, LiveFrame DEF live, ClearReloadFence, RegisterRuntime
<1> QED
    BY <1>4, <1>5

(* JobInv is preserved.                                                       *)
LEMMA JobStep ==
    ASSUME TypeOK, TxInv, BlockInv, RuntimeInv, JobInv, [Next]_vars
    PROVE  JobInv'
<1> SUFFICES ASSUME NEW p \in Procs PROVE JobInvOf(p)'
    BY DEF JobInv
<1> USE ConstantsAssumption DEF TypeOK, SessionsOK
<1>1. JobInvOf(p)
    BY DEF JobInv
<1>2. db.gen \in Nat /\ store[p] \in Nat /\ db'.gen \in Nat
    BY DbType DEF Databases
<1>3. ASSUME store'[p] = store[p], job'[p] = job[p],
             \/ pc'[p] = pc[p] \/ pc'[p] \notin {"checked", "insert"}
             \/ job[p].fp # NoFingerprint
      PROVE  JobInvOf(p)'
    BY <1>1, <1>2, <1>3, GenerationStep DEF JobInvOf, Agrees
<1>4. ASSUME NEW g \in 0..MaxGen, NEW r \in Receipts, InstallStore(p, g, r),
             g <= db.gen, pc'[p] \notin {"checked", "insert"}
      PROVE  JobInvOf(p)'
    BY <1>2, <1>4, GenerationStep DEF InstallStore, JobInvOf, NoJob, NewJob
<1>5. ASSUME \/ \E q \in Procs \ {p} : StepOf(q)
             \/ RuntimeExits \/ EditConfig \/ UNCHANGED vars
      PROVE  JobInvOf(p)'
    BY <1>3, <1>5, Local DEF RuntimeExits, EditConfig, vars, ses
<1>6. CASE BeginStep(p)
    BY <1>2, <1>3, <1>4, <1>6, NewRecords DEF BeginStep, BeginCommit,
       BeginOpen, BeginReload, BeginAdopt, Goto, ses
<1>7. CASE SettleOpen(p) \/ SettleAdopt(p) \/ ClearReloadFence(p)
  <2>1. db.gen \in 0..MaxGen /\ tx[p].proof \in Receipts
    BY DEF Databases, Txs
  <2>2. [gen |-> db.gen, pid |-> nextPid - 1] \in Receipts
    BY <2>1 DEF Receipts, LiveOK
  <2> QED
    BY <1>2, <1>3, <1>4, <1>7, <2>1, <2>2, NewRecords DEF SettleOpen,
       SettleAdopt, ClearReloadFence, Finish, Goto, ses
<1>8. CASE RegisterRuntimeFails(p) \/ Crash(p)
    BY <1>2, <1>4, <1>8, NewRecords DEF RegisterRuntimeFails, Crash, Finish,
       Goto
<1>9. CASE ReconcileStep(p)
  <2>1. ASSUME UNCHANGED ses, NEW step \in PcValues \ {"checked", "insert"},
               Goto(p, step)
        PROVE  JobInvOf(p)'
    BY <1>3, <2>1 DEF Goto, ses
  <2> QED
    BY <1>7, <1>8, <1>9, <2>1 DEF ReconcileStep, Finish, PcValues, Steps,
       LockQuality, BeginTransaction, BeginFails, EnsureWritesBlocked,
       EnsureWritesBlockedFails, WriteConfig, WriteConfigFails,
       WriteConfigUncertain, ApplyReconciliation, ApplyFails,
       CommitReconciliation, CommitFails, RestoreConfig, RestoreConfigFails,
       ClearWriteBlock, ClearWriteBlockFails, SettleReload, SettleReloadFails,
       Reload, ReloadFails, ClearReloadFenceFails, RegisterRuntime
<1>10. CASE StartQuick(p)
  <2>1. UNCHANGED <<db, runtime, store, pc>> /\ RuntimeAgrees
    BY <1>10 DEF StartQuick, ReceiptValid, SessionCurrent, RuntimeInv, live
  <2>2. job'[p] = NewJob("quick", receipt[p], NoConfig)
    BY <1>10 DEF StartQuick
  <2> QED
    BY <1>1, <1>10, <2>1, <2>2 DEF StartQuick, JobInvOf, NewJob, RuntimeAgrees,
       Agrees
<1>11. CASE StartSustained(p)
  <2>1. UNCHANGED <<db, runtime, store, pc>> /\ Agrees(config)
    BY <1>11 DEF StartSustained, ReceiptValid, SessionCurrent, BlockInv,
       ConfigVisible, AnyStore, live
  <2>2. job'[p] = NewJob("sustained", receipt[p], config)
    BY <1>11 DEF StartSustained
  <2> QED
    BY <1>1, <1>11, <2>1, <2>2 DEF StartSustained, JobInvOf, NewJob, Agrees
<1>12. CASE MeasureQuick(p) \/ MeasureSustained(p)
  <2>1. UNCHANGED <<db, runtime, store, pc>>
    BY <1>12 DEF MeasureQuick, MeasureSustained, live
  <2>2. PICK t \in Nodes :
            /\ job'[p].tag = t /\ job'[p].kind = job[p].kind
            /\ job'[p].cfg = job[p].cfg
            /\ \/ runtime.pid # 0 /\ job[p].kind = "quick"
                  /\ job'[p].fp = runtime.cfg[t]
               \/ job[p].kind = "sustained" /\ job'[p].fp = job[p].cfg[t]
            /\ job'[p].fp # NoFingerprint
    <3>1. ASSUME NEW t \in Tags, NEW f \in Fingerprints \cup {NoFingerprint},
                 job' = [job EXCEPT ![p].tag = t, ![p].fp = f]
          PROVE  /\ job'[p].tag = t /\ job'[p].fp = f
                 /\ job'[p].kind = job[p].kind /\ job'[p].cfg = job[p].cfg
      BY <3>1 DEF Jobs
    <3>2. CASE MeasureQuick(p)
      <4>1. PICK t \in Nodes :
                /\ runtime.cfg[t] # NoFingerprint
                /\ job' = [job EXCEPT ![p].tag = t, ![p].fp = runtime.cfg[t]]
        BY <3>2 DEF MeasureQuick, Nodes
      <4>2. runtime.cfg[t] \in Fingerprints \cup {NoFingerprint}
        BY <3>2 DEF MeasureQuick, LiveOK, Runtimes, NoRuntime, Identities, Nodes
      <4> QED
        BY <3>1, <3>2, <4>1, <4>2 DEF MeasureQuick, Nodes
    <3>3. CASE MeasureSustained(p)
      <4>1. PICK t \in Nodes :
                /\ job[p].cfg[t] # NoFingerprint
                /\ job' = [job EXCEPT ![p].tag = t, ![p].fp = job[p].cfg[t]]
        BY <3>3 DEF MeasureSustained, Nodes
      <4>2. job[p].cfg[t] \in Fingerprints \cup {NoFingerprint}
        BY <1>1, <3>3 DEF MeasureSustained, JobInvOf, Identities, Nodes
      <4>3. /\ job'[p].tag = t /\ job'[p].fp = job[p].cfg[t]
            /\ job'[p].kind = job[p].kind /\ job'[p].cfg = job[p].cfg
        BY <3>1, <4>1, <4>2 DEF Nodes
      <4> QED
        BY <3>3, <4>1, <4>3 DEF MeasureSustained
    <3> QED
      BY <1>12, <3>2, <3>3
  <2> QED
    BY <1>1, <2>1, <2>2 DEF JobInvOf, RuntimeAgrees, Agrees
<1>13. CASE FinishJob(p)
    BY <1>1, <1>13 DEF FinishJob, JobInvOf, NoJob, NewJob
<1>14. ASSUME \/ Discarded(p) \/ job' = [job EXCEPT ![p].fp = NoFingerprint],
              pc'[p] = "idle", store' = store, runtime' = runtime,
              db'.gen = db.gen, db'.ids = db.ids
       PROVE  JobInvOf(p)'
  <2>1. /\ job'[p].fp = NoFingerprint /\ job'[p].kind = job[p].kind
        /\ job'[p].cfg = job[p].cfg
    BY <1>14 DEF Discarded, Jobs
  <2> QED
    BY <1>1, <1>14, <2>1 DEF JobInvOf, RuntimeAgrees, Agrees
<1>15. CASE CheckResult(p) \/ BeginWrite(p) \/ WriteFails(p)
    BY <1>1, <1>3, <1>14, <1>15 DEF CheckResult, BeginWrite, WriteFails,
       JobInvOf, Goto, live
<1>16. CASE InsertFact(p)
    BY <1>14, <1>16 DEF InsertFact, Databases, Goto, live
<1>17. CASE AcquireLease(p) \/ ReleaseLease(p) \/ WriteRouteTable(p)
    BY <1>3, <1>17 DEF AcquireLease, ReleaseLease, WriteRouteTable, Goto, ses
<1> QED
    BY <1>5, <1>6, <1>8, <1>9, <1>10, <1>11, <1>12, <1>13, <1>15, <1>16,
       <1>17 DEF Next, StepOf, MeasureStep

-----------------------------------------------------------------------------
(* The write block.                                                           *)

(* A store is opened only where file and table agree.                         *)
LEMMA OpenStep ==
    ASSUME TypeOK, TxInv, [Next]_vars, AnyStore'
    PROVE  \/ AnyStore
           \/ \E q \in Procs :
                /\ pc[q] \in {"settle", "unfence"}
                /\ pc'[q] \in {"idle", "register"}
                /\ UNCHANGED <<config, block, db>> /\ Agrees(config)
<1>1. ASSUME NEW q \in Procs,
             SettleOpen(q) \/ SettleAdopt(q) \/ ClearReloadFence(q)
      PROVE  /\ pc[q] \in {"settle", "unfence"}
             /\ pc'[q] \in {"idle", "register"}
             /\ UNCHANGED <<config, block, db>> /\ Agrees(config)
  <2>1. /\ pc[q] \in {"settle", "unfence"} /\ UNCHANGED <<config, block, db>>
        /\ pc'[q] \in {"idle", "register"}
    BY <1>1 DEF TypeOK, SettleOpen, SettleAdopt, ClearReloadFence, files,
       Finish, Goto
  <2> QED
    BY <2>1 DEF TxInv, TxInvOf, Agrees, Nodes
<1>2. ASSUME NEW q \in Procs,
             \/ BeginReload(q) \/ BeginAdopt(q)
             \/ RegisterRuntimeFails(q) \/ Crash(q)
      PROVE  AnyStore
    BY <1>2 DEF AnyStore, TypeOK, SessionsOK, BeginReload, BeginAdopt,
       RegisterRuntimeFails, Crash, InstallStore
<1>3. ASSUME UNCHANGED store PROVE AnyStore
    BY <1>3 DEF AnyStore
<1> QED
    BY <1>1, <1>2, <1>3, SessionsFrame DEF ses, StartQuick, MeasureQuick,
       StartSustained, MeasureSustained, FinishJob, CheckResult, BeginWrite,
       InsertFact, WriteFails

(* ConfigVisible is preserved: the block is lifted only where it may be.      *)
LEMMA VisibleStep ==
    ASSUME TypeOK, TxInv, BlockInv, [Next]_vars PROVE ConfigVisible'
<1> SUFFICES ASSUME AnyStore' PROVE block' \/ Agrees(config)'
    BY DEF ConfigVisible
<1> USE DEF BlockInv, BlockInvOf
<1>1. CASE ~AnyStore
    BY <1>1, OpenStep DEF Agrees
<1>2. SUFFICES ASSUME AnyStore PROVE block' \/ Agrees(config)'
    BY <1>1
<1>3. ASSUME UNCHANGED <<config, block>>, db'.ids = db.ids
      PROVE  block' \/ Agrees(config)'
    BY <1>2, <1>3 DEF ConfigVisible, Agrees
<1>4. ASSUME NEW q \in Procs, CommitReconciliation(q) PROVE block'
    BY <1>4 DEF CommitReconciliation, files
<1>5. ASSUME NEW q \in Procs, InsertFact(q)
      PROVE  block' \/ Agrees(config)'
    BY <1>3, <1>5 DEF InsertFact, TypeOK, Databases, files
<1>6. ASSUME NEW q \in Procs,
             \/ EnsureWritesBlocked(q) \/ WriteConfig(q)
             \/ WriteConfigUncertain(q) \/ RestoreConfigFails(q)
      PROVE  block'
    BY <1>6 DEF EnsureWritesBlocked, WriteConfig, WriteConfigUncertain,
       RestoreConfigFails
<1>7. ASSUME NEW q \in Procs, EnsureWritesBlockedFails(q)
      PROVE  block' \/ Agrees(config)'
    BY <1>2, <1>7 DEF EnsureWritesBlockedFails, ConfigVisible, Agrees
<1>8. ASSUME NEW q \in Procs, WriteConfigFails(q) \/ ApplyFails(q)
      PROVE  block' \/ Agrees(config)'
    BY <1>2, <1>3, <1>8 DEF WriteConfigFails, ApplyFails, ClearIfCreated, Agrees
<1>9. ASSUME NEW q \in Procs, RestoreConfig(q)
      PROVE  block' \/ Agrees(config)'
    BY <1>2, <1>9 DEF RestoreConfig, ClearIfCreated, Agrees
<1>10. ASSUME NEW q \in Procs, ClearWriteBlock(q) PROVE Agrees(config)'
    BY <1>10 DEF ClearWriteBlock, TxInv, TxInvOf, Agrees, Nodes
<1>11. ASSUME NEW q \in Procs, WriteRouteTable(q)
       PROVE  block' \/ Agrees(config)'
    BY <1>2, <1>11, ConstantsAssumption DEF WriteRouteTable, ConfigVisible,
       Agrees, Identities, Nodes
<1>12. CASE EditConfig
    BY <1>2, <1>12 DEF EditConfig, AnyStore
<1>13. ASSUME NEW q \in Procs,
              \/ ApplyReconciliation(q) \/ SettleReload(q)
              \/ SettleReloadFails(q) \/ ClearReloadFence(q)
              \/ ClearReloadFenceFails(q)
       PROVE  block' \/ Agrees(config)'
    BY <1>3, <1>13 DEF ApplyReconciliation, SettleReload, SettleReloadFails,
       ClearReloadFence, ClearReloadFenceFails
<1> QED
    BY <1>3, <1>4, <1>5, <1>6, <1>7, <1>8, <1>9, <1>10, <1>11, <1>12, <1>13,
       FilesFrame, DbFrame DEF files

(* BlockInv is preserved.                                                     *)
LEMMA BlockStep ==
    ASSUME TypeOK, LockInv, TxInv, BlockInv, [Next]_vars PROVE BlockInv'
<1> SUFFICES ASSUME NEW p \in Procs PROVE BlockInvOf(p)'
    BY VisibleStep DEF BlockInv
<1> USE ConstantsAssumption DEF TypeOK
<1>1. BlockInvOf(p) /\ TxInvOf(p)
    BY DEF BlockInv, TxInv
<1>2. ASSUME pc'[p] \notin {"write", "apply", "commit", "clear", "restore",
                           "restore_blocked"}
      PROVE  BlockInvOf(p)'
    BY <1>2 DEF BlockInvOf
<1>3. ASSUME pc[p] \in Steps, pc'[p] \in Steps PROVE AnyStore' => AnyStore
  <2>1. \A q \in Procs : pc[q] \in Steps => q = p
    BY <1>3 DEF LockInv
  <2> QED
    BY <1>3, <2>1, OpenStep DEF Steps
<1>4. ASSUME \/ \E q \in Procs \ {p} : StepOf(q)
             \/ RuntimeExits \/ EditConfig \/ UNCHANGED vars
      PROVE  BlockInvOf(p)'
  <2>1. pc'[p] = pc[p] /\ tx'[p] = tx[p]
    BY <1>4, Local DEF RuntimeExits, EditConfig, vars
  <2>2. CASE pc[p] \in Steps
    BY <1>1, <1>3, <1>4, <2>1, <2>2, Exclusion DEF BlockInvOf, Agrees, files
  <2>3. CASE pc[p] \notin Steps
    BY <1>2, <2>1, <2>3 DEF Steps
  <2> QED
    BY <2>2, <2>3
<1>5. CASE EnsureWritesBlocked(p)
  <2>1. /\ pc[p] = "mark" /\ block' /\ UNCHANGED <<config, db, store>>
        /\ pc'[p] = (IF tx[p].op = "commit" THEN "write" ELSE "apply")
    BY <1>5 DEF EnsureWritesBlocked, Goto, ses
  <2>2. tx'[p].created = ~block /\ tx'[p].op = tx[p].op
    BY <1>5 DEF EnsureWritesBlocked, Txs
  <2> QED
    BY <2>1, <2>2 DEF BlockInvOf, BlockInv, ConfigVisible, AnyStore, Agrees
<1>6. CASE WriteConfig(p)
  <2>1. /\ pc[p] = "write" /\ pc'[p] = "apply"
        /\ UNCHANGED <<block, db, store>>
    BY <1>6 DEF WriteConfig, Goto, ses
  <2>2. tx'[p].created = tx[p].created /\ tx'[p].op = tx[p].op
        /\ tx'[p].prev = config
    BY <1>6 DEF WriteConfig, Txs
  <2>3. tx[p].op = "commit"
    BY <1>1, <2>1 DEF TxInvOf
  <2> QED
    BY <1>1, <2>1, <2>2, <2>3 DEF BlockInvOf, AnyStore, Agrees
<1>7. CASE ApplyReconciliation(p) \/ CommitReconciliation(p)
    BY <1>1, <1>7 DEF ApplyReconciliation, CommitReconciliation, Goto,
       BlockInvOf, files
<1>8. ASSUME Finish(p) PROVE BlockInvOf(p)'
    BY <1>2, <1>8 DEF Finish, Goto
<1>9. CASE ApplyFails(p) \/ CommitFails(p)
    BY <1>1, <1>8, <1>9 DEF ApplyFails, CommitFails, Goto, BlockInvOf, files,
       AnyStore, Agrees, ses
<1>10. CASE MeasureQuick(p) \/ MeasureSustained(p)
    BY <1>1, <1>10 DEF MeasureQuick, MeasureSustained, BlockInvOf, files,
       AnyStore, Agrees
<1>11. CASE BeginStep(p) \/ WriteRouteTable(p)
    BY <1>2, <1>11 DEF BeginStep, BeginCommit, BeginOpen, BeginReload,
       BeginAdopt, WriteRouteTable, Goto
<1>12. CASE MeasureStep(p)
    BY <1>2, <1>10, <1>12 DEF MeasureStep, StartQuick, StartSustained,
       FinishJob, CheckResult, BeginWrite, InsertFact, WriteFails,
       AcquireLease, ReleaseLease, Goto
<1>13. CASE ReconcileStep(p)
    BY <1>2, <1>5, <1>6, <1>7, <1>8, <1>9, <1>13 DEF ReconcileStep,
       LockQuality, BeginTransaction, BeginFails, EnsureWritesBlockedFails,
       WriteConfigFails, WriteConfigUncertain, RestoreConfig,
       RestoreConfigFails, ClearWriteBlock, ClearWriteBlockFails, SettleOpen,
       SettleAdopt, SettleReload, SettleReloadFails, Reload, ReloadFails,
       ClearReloadFence, ClearReloadFenceFails, RegisterRuntime,
       RegisterRuntimeFails, Goto
<1> QED
    BY <1>4, <1>8, <1>11, <1>12, <1>13 DEF Next, StepOf, Crash

-----------------------------------------------------------------------------
(* The theorems.                                                              *)

(* FactsAttributable is preserved: a reconciliation keeps facts of retained   *)
(* tags only, an insert is by a job of the current generation.                *)
LEMMA FactsStep ==
    ASSUME TypeOK, JobInv, FactsAttributable, [Next]_vars
    PROVE  FactsAttributable'
<1>1. ASSUME NEW q \in Procs, CommitReconciliation(q)
      PROVE  FactsAttributable'
    BY <1>1 DEF CommitReconciliation, Reconciled, Retained, FactsAttributable
<1>2. ASSUME NEW q \in Procs, InsertFact(q) PROVE FactsAttributable'
  <2>1. store[q] = db.gen => job[q].fp = db.ids[job[q].tag]
    BY <1>2 DEF InsertFact, JobInv, JobInvOf
  <2>2. /\ db'.ids = db.ids
        /\ \/ db'.facts = db.facts
           \/ /\ store[q] = db.gen
              /\ db'.facts = db.facts \cup {[tag |-> job[q].tag, fp |-> job[q].fp]}
    BY <1>2 DEF InsertFact, TypeOK, Databases
  <2> QED
    BY <2>1, <2>2 DEF FactsAttributable
<1> QED
    BY <1>1, <1>2, DbFrame DEF FactsAttributable

(* The initial states satisfy the inductive invariant.                        *)
LEMMA InitIInv == Init => IInv
<1> SUFFICES ASSUME Init PROVE IInv
    OBVIOUS
<1> USE ConstantsAssumption DEF Init
<1>1. TypeOK
  <2>1. FilesOK /\ LocksOK
    BY DEF FilesOK, LocksOK, Configs
  <2>2. db \in Databases
    BY DEF Databases, Identities
  <2>3. LiveOK
    BY NewRecords DEF LiveOK, Runtimes
  <2>4. pc \in [Procs -> PcValues] /\ tx \in [Procs -> Txs]
    BY NewRecords DEF PcValues
  <2>5. SessionsOK
    BY NewRecords DEF SessionsOK
  <2> QED
    BY <2>1, <2>2, <2>3, <2>4, <2>5 DEF TypeOK
<1>2. LockInv /\ TxInv
    BY DEF LockInv, TxInv, TxInvOf, Steps
<1>3. BlockInv
    BY DEF BlockInv, BlockInvOf, ConfigVisible, AnyStore
<1>4. RuntimeInv
    BY DEF RuntimeInv, RuntimeAgrees, NoRuntime
<1>5. JobInv
    BY DEF JobInv, JobInvOf, NoJob, NewJob
<1>6. FactsAttributable
    BY DEF FactsAttributable
<1> QED
    BY <1>1, <1>2, <1>3, <1>4, <1>5, <1>6 DEF IInv

(* Every step preserves the inductive invariant.                              *)
LEMMA NextIInv == IInv /\ [Next]_vars => IInv'
    BY TypeStep, LockStep, TxStep, BlockStep, RuntimeStep, JobStep, FactsStep
       DEF IInv

(* The inductive invariant holds throughout.                                  *)
THEOREM Invariance == Spec => []IInv
    BY InitIInv, NextIInv, PTL DEF Spec

(* All state of the persistence protocol stays in its domain; in particular   *)
(* the generation counter never passes its maximum (checked_add in apply).    *)
THEOREM TypeCorrect == Spec => []TypeOK
<1>1. IInv => TypeOK
    BY DEF IInv
<1> QED
    BY <1>1, Invariance, PTL

(* No stored measurement is ever attributed to an outbound that did not carry *)
(* it, however refreshes, reloads, workers, failures and crashes interleave.  *)
THEOREM Attribution == Spec => []FactsAttributable
<1>1. IInv => FactsAttributable
    BY DEF IInv
<1> QED
    BY <1>1, Invariance, PTL

(* A current session measures the sing-box that serves the bound nodes.       *)
THEOREM RuntimeAgreement == Spec => []SessionRuntimeAgree
<1>1. IInv => SessionRuntimeAgree
    BY DEF IInv, RuntimeInv, RuntimeAgrees, Agrees, SessionRuntimeAgree,
       SessionCurrent
<1> QED
    BY <1>1, Invariance, PTL

(* A current session reads a config file that holds the bound nodes.          *)
THEOREM ConfigAgreement == Spec => []SessionConfigAgree
<1>1. IInv => SessionConfigAgree
    BY ConstantsAssumption DEF IInv, BlockInv, ConfigVisible, AnyStore, Agrees,
       SessionConfigAgree, SessionCurrent
<1> QED
    BY <1>1, Invariance, PTL

(* Nothing a lease protects moves while it is held.                           *)
THEOREM LeaseStability == Spec => LeaseFreezesIdentities
<1>1. ASSUME IInv, [Next]_vars, NEW p \in Procs,
             pc[p] = "lease", pc'[p] = "lease"
      PROVE  /\ db'.ids = db.ids /\ db'.gen = db.gen
             /\ block' = block /\ fence' = fence
  <2>1. \A q \in Procs : pc[q] \in Steps => pc[q] = "locked"
    BY <1>1 DEF IInv, LockInv, Steps
  <2>2. db'.ids = db.ids /\ db'.gen = db.gen
    <3>1. ASSUME NEW q \in Procs, InsertFact(q)
          PROVE  db'.ids = db.ids /\ db'.gen = db.gen
      BY <1>1, <3>1 DEF InsertFact, IInv, TypeOK, Databases
    <3> QED
      BY <1>1, <2>1, <3>1, DbFrame DEF CommitReconciliation, Steps
  <2>3. block' = block /\ fence' = fence
    BY <1>1, <2>1, FilesFrame DEF files, Steps, EnsureWritesBlocked,
       EnsureWritesBlockedFails, WriteConfig, WriteConfigFails,
       WriteConfigUncertain, ApplyReconciliation, ApplyFails, RestoreConfig,
       RestoreConfigFails, ClearWriteBlock, SettleReload, SettleReloadFails,
       ClearReloadFence, ClearReloadFenceFails, WriteRouteTable, EditConfig
  <2> QED
    BY <2>2, <2>3
<1>2. IInv /\ [Next]_vars =>
        [\A p \in Procs : pc[p] = "lease" /\ pc'[p] = "lease" =>
            /\ db'.ids = db.ids /\ db'.gen = db.gen
            /\ block' = block /\ fence' = fence]_vars
    BY <1>1
<1> QED
    BY <1>2, Invariance, PTL DEF Spec, LeaseFreezesIdentities

(* Every step of the protocol is, on the SQLite tables, one of the two atomic *)
(* operations of NodeFacts or no change at all.                               *)
THEOREM Refinement == Spec => ImplementsNodeFacts
<1> USE ConstantsAssumption
<1>1. Init => Abstract!FactsInit
    BY DEF Init, Abstract!FactsInit
<1>2. IInv /\ [Next]_vars => [Abstract!FactsNext]_(Abstract!factVars)
  <2> SUFFICES ASSUME IInv, [Next]_vars,
                      ~UNCHANGED Abstract!factVars
               PROVE  Abstract!FactsNext
    OBVIOUS
  <2> USE DEF IInv
  <2>1. ASSUME NEW q \in Procs, CommitReconciliation(q)
        PROVE  Abstract!Rebind
    <3>1. tx[q].cfg \in Identities
      BY <2>1 DEF CommitReconciliation, TxInv, TxInvOf
    <3>2. /\ db'.ids = tx[q].cfg
          /\ db'.facts = {f \in db.facts : f.tag \in Retained(tx[q].cfg)}
      BY <2>1 DEF CommitReconciliation, Reconciled
    <3>3. \A f \in db.facts : f.tag \in Tags /\ db.ids[f.tag] # NoFingerprint
      BY DEF FactsAttributable, TypeOK, Databases, Facts
    <3>4. \A f \in db.facts : f.tag \in Retained(tx[q].cfg) <=>
                                db'.ids[f.tag] = db.ids[f.tag]
      BY <3>2, <3>3 DEF Retained
    <3> QED
      BY <3>1, <3>2, <3>4 DEF Abstract!Rebind, Abstract!Identities, Identities
  <2>2. ASSUME NEW q \in Procs, InsertFact(q)
        PROVE  Abstract!FactsNext
    <3>1. store[q] = db.gen => job[q].fp = db.ids[job[q].tag]
      BY <2>2 DEF InsertFact, JobInv, JobInvOf
    <3>2. /\ db'.ids = db.ids
          /\ \/ db'.facts = db.facts
             \/ /\ store[q] = db.gen /\ db.ids[job[q].tag] # NoFingerprint
                /\ db'.facts =
                     db.facts \cup {[tag |-> job[q].tag, fp |-> job[q].fp]}
      BY <2>2 DEF InsertFact, TypeOK, Databases
    <3>3. job[q].tag \in Tags
      BY DEF TypeOK, SessionsOK, Jobs
    <3> QED
      BY <3>1, <3>2, <3>3 DEF Abstract!FactsNext, Abstract!Record,
         Abstract!factVars
  <2>3. CASE UNCHANGED db
    BY <2>3 DEF Abstract!factVars
  <2> QED
    BY <2>1, <2>2, <2>3, DbFrame DEF Abstract!FactsNext
<1> QED
    BY <1>1, <1>2, Invariance, PTL DEF Spec, ImplementsNodeFacts,
       Abstract!FactsSpec
=============================================================================
