------------------------- MODULE NetworkModesProofs -------------------------
(* Proofs about what a TUI changes for good, for every choice of the          *)
(* constants: the network modes with any number of failures and edits, with   *)
(* and without crashes and edits that race a toggle; the settings of the      *)
(* system proxy; and the node-quality database.                               *)
EXTENDS NetworkModes, SystemProxySettings, DatabaseOpen, TLAPS

Starting == {"load", "enable", "clear", "cleared", "base", "core", "proxy", "join"}
Running == job # NoJob

(* Worker threads exist only from the time the process is up.  What blocks    *)
(* the event loop happens there, and a failed write has been counted.         *)
ThreadInv ==
    /\ pc \in Starting \cup {"down"} => job = NoJob /\ update = NoJob
    /\ Busy => pc = "up"
    /\ update # NoJob /\ update.phase = "failed" => faults >= 1

(* What the start-up has brought about at each of its steps.                  *)
StartInv ==
    /\ pc = "load" /\ ~app.explicit => app.enabled = conf.managed
    /\ pc = "enable" => app.enabled
    /\ pc = "clear" => ~app.enabled
    /\ pc = "cleared" => ~app.enabled /\ ~conf.managed
    /\ pc \in {"base", "core", "proxy", "join"} => app.enabled = conf.managed

(* The two failures and the race that it takes to break the agreement.        *)
Recoverable == RacingEdits => faults <= 1

(* The agreement of process and config through the phases of a toggle.        *)
Agreed ==
    /\ ~Running \/ job.phase = "restart" => app.enabled = conf.managed
    /\ Running /\ job.phase \in {"queued", "failed"} =>
         app.enabled = conf.managed /\ job.target = ~app.enabled
    /\ Running /\ job.phase = "written" =>
         conf.managed = job.target /\ job.target = ~app.enabled
    /\ Running /\ job.phase = "rollback" => ~app.enabled /\ RacingEdits
    /\ Running /\ job.phase = "unjournal" => ~app.enabled /\ ~conf.managed
ToggleInv == Recoverable /\ pc = "up" => Agreed
RollbackInv == Running /\ job.phase \in {"rollback", "unjournal"} => faults >= 1

(* sing-box runs with the config it was started with.                         *)
CoreInv ==
    /\ pc \in {"proxy", "join"} /\ core.run => core.tun = conf.managed
    /\ pc = "up" /\ core.run /\ faults = 0
         /\ (Running => job.phase \in {"queued", "failed"})
           => core.tun = conf.managed

(* Without an edit in between, the worker finds the setting of the journal.   *)
JournalInv ==
    ~RacingEdits =>
        /\ Running /\ job.phase = "queued" /\ job.target => job.journal = conf.auto
        /\ Running /\ job.phase = "written" /\ job.target => job.before = job.journal

-----------------------------------------------------------------------------
(* Without failures, memory knows the proxy mode of the OS, ...               *)
ProxyKnown == IF app.intent = "unset" THEN app.shown = os ELSE app.intent = Choice(os)
Remembered ==
    /\ file.proxy = Choice(exit.os)
    /\ exit.explicit => file.tun = Choice(exit.tun)

(* ... an update does what it was asked to, and a quit finds neither threads  *)
(* nor changes to come, so that what it saves is what it takes down.          *)
ProxyInv ==
    faults = 0 =>
        /\ pc \in {"load", "enable", "clear", "cleared", "base", "core"} => app.shown = os
        /\ pc = "join" => ProxyKnown
        /\ pc = "up" => IF update # NoJob /\ update.phase = "done"
                        THEN os = update.enable ELSE ProxyKnown
QuitInv ==
    faults = 0 /\ exit.kind = "quit" =>
        /\ pc = "save" =>
             /\ job = NoJob /\ update = NoJob
             /\ exit.explicit = app.explicit /\ exit.tun = app.enabled
             /\ exit.os = os /\ ProxyKnown
        /\ pc \in {"unproxy", "untun", "leave", "stop", "left", "down"} => Remembered

(* Once the proxy is suspended nothing turns it on again.                     *)
SuspendedInv == pc \in {"untun", "stop"} => ~os /\ update = NoJob

-----------------------------------------------------------------------------
(* The setting to restore is known on disk at all times, crashes included,    *)
(* and in memory except between the write of a worker and its poll.           *)
Knows(r) == conf.managed /\ orig # NoRestore => r = orig
Pending == Running /\ job.phase = "written" /\ job.target
RestoreInv ==
    /\ Knows(file.restore)
    /\ pc # "down" /\ ~Pending => Knows(app.restore)
    /\ pc = "enable" => ~conf.managed /\ app.restore = conf.auto
                        /\ file.restore = app.restore
    /\ Running /\ job.phase \in {"queued", "written", "failed"} =>
         file.restore = job.journal
    /\ Running /\ job.phase \in {"queued", "failed"} => conf.managed = ~job.target
    /\ Running => job.phase \notin {"rollback", "unjournal"}
-----------------------------------------------------------------------------
(* Typing.                                                                    *)

(* Every rewrite of the config leaves a definite route setting.               *)
LEMMA SetModeType ==
    ASSUME NEW c \in Confs, NEW on \in BOOLEAN, NEW r \in Restores
    PROVE  SetMode(c, on, r) \in Confs
BY DEF SetMode, Restored, Confs, Restores, Autos

LEMMA WithBaselineType == ASSUME NEW c \in Confs PROVE WithBaseline(c) \in Confs
BY DEF WithBaseline, Confs, Autos

LEMMA ChoiceType == \A b : Choice(b) \in Choices
BY DEF Choice, Choices

LEMMA SavedType ==
    ASSUME NEW a \in Apps, NEW j \in Jobs \cup {NoJob}
    PROVE  Saved(a, Persisted(a, j)) \in Files
<1>1. a.restore \in Restores /\ a.intent \in Choices /\ a.known \in BOOLEAN
  BY DEF Apps
<1>2. j # NoJob => j.journal \in Restores
  BY DEF Jobs
<1>3. "unset" \in Choices
  BY DEF Choices
<1>4. Persisted(a, j).tun \in Choices /\ Persisted(a, j).restore \in Restores
  BY <1>1, <1>2, <1>3, ChoiceType DEF Persisted
<1> QED
  BY <1>1, <1>4, ChoiceType DEF Saved, Files

LEMMA FaultType ==
    ASSUME ModesAssumption, faults \in 0..MaxFaults, Fault PROVE faults' \in 0..MaxFaults
BY DEF ModesAssumption, Fault

LEMMA LeavingType ==
    ASSUME NEW kind \in {"quit", "error", "background"}, os \in BOOLEAN, app \in Apps,
           Leaving(kind)
    PROVE  exit' \in Exits
BY DEF Leaving, Apps, Exits

LEMMA AbortType == ASSUME Abort PROVE exit' \in Exits /\ pc' \in Points
BY DEF Abort, NoExit, Exits, Points

LEMMA DownType ==
    ASSUME Down PROVE /\ pc' \in Points /\ app' \in Apps
                      /\ job' \in Jobs \cup {NoJob} /\ update' \in Updates \cup {NoJob}
BY DEF Down, Points, Blank, Apps, Restores, Choices

LEMMA StoppedType == Stopped \in Cores
BY DEF Stopped, Cores

LEMMA StartedType == conf \in Confs => Started \in Cores
BY DEF Started, Confs, Cores

(* Every variable keeps its type.                                             *)
LEMMA TypeInit == ASSUME ModesAssumption, Init PROVE TypeOK
<1>1. conf \in Confs
  BY DEF Init, Confs
<1>2. file \in Files /\ app \in Apps
  BY DEF Init, Files, Apps, Blank, Restores, Choices
<1>3. core \in Cores /\ exit \in Exits /\ pc \in Points
  BY StoppedType DEF Init, NoExit, Exits, Points
<1> QED
  BY <1>1, <1>2, <1>3 DEF Init, TypeOK, ModesAssumption, Restores

LEMMA TypeStep == ASSUME ModesAssumption, TypeOK, [Next]_vars PROVE TypeOK'
<1> USE DEF TypeOK
<1>1. CASE Launch
  BY <1>1 DEF Launch, disk, Points, Files, Apps, Confs
<1>2. CASE StepFails
  BY <1>2, FaultType, AbortType DEF StepFails, disk
<1>3. CASE ReconcileRefuses
  BY <1>3, AbortType DEF ReconcileRefuses, disk
<1>4. CASE ReconcileNotes
  BY <1>4, FaultType, AbortType, SavedType DEF ReconcileNotes, Persist, Apps, Confs, Restores, Points
<1>5. CASE ReconcileRepairs
  BY <1>5, SetModeType DEF ReconcileRepairs, Replaced, Confs, Apps, Restores
<1>6. CASE Reconcile
  <2>1. Reconciled.app \in Apps
    BY DEF Reconciled, Apps, Confs, Restores
  <2>2. Reconciled.pc \in Points
    BY DEF Reconciled, Points
  <2>3. CASE Reconciled.save
    BY <1>6, <2>1, <2>2, <2>3, FaultType, AbortType, SavedType DEF Reconcile, Persist
  <2>4. CASE ~Reconciled.save
    BY <1>6, <2>1, <2>2, <2>4 DEF Reconcile
  <2> QED BY <2>3, <2>4
<1>7. CASE ReconcileEnables
  BY <1>7, SetModeType DEF ReconcileEnables, Replaced, Confs, Apps, Restores, Points
<1>8. CASE ReconcileDisables
  BY <1>8, SetModeType DEF ReconcileDisables, Apps, Restores, Points
<1>9. CASE ReconcileClears
  BY <1>9, FaultType, AbortType, SavedType DEF ReconcileClears, Persist, Points
<1>10. CASE EnsureBaseline
  BY <1>10, WithBaselineType DEF EnsureBaseline, Points
<1>11. CASE StartRefuses
  BY <1>11, AbortType DEF StartRefuses, disk
<1>12. CASE StartCore
  BY <1>12, StartedType DEF StartCore, disk, Points
<1>13. CASE StartFails
  BY <1>13, AbortType, StartedType DEF StartFails, disk
<1>14. CASE ReconcileProxy
  BY <1>14 DEF ReconcileProxy, disk, Apps, Points
<1>15. CASE ReconcileProxyFails
  BY <1>15, FaultType, AbortType DEF ReconcileProxyFails, disk, Apps
<1>16. CASE Join
  BY <1>16 DEF Join, disk, Apps, Points
<1>17. CASE StartToggle
  <2>1. PICK target \in BOOLEAN : target = ~app.enabled
    OBVIOUS
  <2>2. PICK journal \in Restores :
           journal = IF app.enabled THEN app.restore ELSE conf.auto
    BY DEF Apps, Confs, Restores
  <2>3. PICK j : j = [target |-> target, phase |-> "queued", journal |-> journal,
                      before |-> NoRestore]
    OBVIOUS
  <2>4. j \in Jobs
    BY <2>3 DEF Jobs, Phases, Restores
  <2>5. job' = j /\ file' = Saved(app, Persisted(app, j))
    BY <1>17, <2>1, <2>2, <2>3 DEF StartToggle
  <2>6. file' \in Files
    BY <2>4, <2>5, SavedType
  <2> QED
    BY <1>17, <2>4, <2>5, <2>6 DEF StartToggle
<1>18. CASE WorkerWrites
  BY <1>18, SetModeType DEF WorkerWrites, Jobs, Phases, Confs, Restores, Replaced
<1>19. CASE WorkerFails
  BY <1>19, FaultType DEF WorkerFails, disk, Jobs, Phases
<1>20. CASE FinishFailed
  BY <1>20, FaultType, SavedType DEF FinishFailed
<1>21. CASE FinishSaves
  BY <1>21, SavedType DEF FinishSaves, Toggled, Jobs, Phases, Apps, Restores
<1>22. CASE FinishUnsaved
  <2>1. faults' \in 0..MaxFaults
    BY <1>22, FaultType DEF FinishUnsaved
  <2>2. CASE JournalStale
    BY <1>22, <2>1, <2>2 DEF FinishUnsaved, disk, Jobs, Phases
  <2>3. CASE ~JournalStale
    <3>1. Toggled \in Apps
      BY <1>22 DEF FinishUnsaved, Toggled, Apps, Jobs, Restores
    <3> QED
      BY <1>22, <2>1, <2>3, <3>1 DEF FinishUnsaved, disk, Jobs, Phases
  <2> QED BY <2>2, <2>3
<1>23. CASE RollBack
  BY <1>23, FaultType, SetModeType DEF RollBack, Jobs, Phases
<1>24. CASE Unjournal
  BY <1>24, FaultType, SavedType DEF Unjournal
<1>25. CASE RestartCore
  BY <1>25, StartedType DEF RestartCore, disk
<1>26. CASE RestartFails
  BY <1>26, FaultType, StoppedType DEF RestartFails, disk
<1>27. CASE ToggleProxy
  BY <1>27 DEF ToggleProxy, disk, Apps, Updates
<1>28. CASE ProxyApplies
  BY <1>28 DEF ProxyApplies, disk, Updates
<1>29. CASE ProxyFails
  BY <1>29, FaultType DEF ProxyFails, disk, Updates
<1>30. CASE PollProxy
  <2>1. app' \in Apps
    <3>1. [app EXCEPT !.shown = os] \in Apps
      BY DEF Apps
    <3>2. [app EXCEPT !.shown = os, !.intent = Choice(os)] \in Apps
      BY ChoiceType DEF Apps
    <3> QED
      BY <1>30, <3>1, <3>2 DEF PollProxy
  <2>2. file' \in Files /\ faults' \in 0..MaxFaults
    BY <1>30, <2>1, FaultType, SavedType DEF PollProxy
  <2> QED
    BY <1>30, <2>1, <2>2 DEF PollProxy
<1>31. CASE SaveState
  BY <1>31, SavedType DEF SaveState
<1>32. CASE Quit
  BY <1>32, LeavingType DEF Quit, disk, Points
<1>33. CASE LoopFails
  BY <1>33, LeavingType DEF LoopFails, disk, Points
<1>34. CASE LeaveRunning
  BY <1>34, LeavingType, DownType, SavedType DEF LeaveRunning, Cores
<1>35. CASE ExitSaves
  BY <1>35, FaultType, SavedType DEF ExitSaves, Points
<1>36. CASE SuspendProxy
  BY <1>36 DEF SuspendProxy, disk, Apps, Points
<1>37. CASE SuspendProxyFails
  BY <1>37, FaultType DEF SuspendProxyFails, disk, Points
<1>38. CASE SuspendTun
  BY <1>38, FaultType, SetModeType DEF SuspendTun, Points, Apps
<1>39. CASE StopCore
  <2>1. core' \in Cores
    BY <1>39, StoppedType DEF StopCore, Cores
  <2> QED
    BY <1>39, <2>1, FaultType, DownType DEF StopCore, disk
<1>40. CASE KeepCore
  BY <1>40, DownType DEF KeepCore, disk, Cores
<1>41. CASE Crash
  BY <1>41, DownType DEF Crash, disk, NoExit, Exits, Cores
<1>42. CASE CoreExits
  BY <1>42 DEF CoreExits, disk, Stopped, Cores
<1>43. CASE EditConfig
  BY <1>43 DEF EditConfig, ModesAssumption, Confs
<1>44. CASE UNCHANGED vars
  BY <1>44 DEF vars, disk
<1> QED
  BY <1>1, <1>2, <1>3, <1>4, <1>5, <1>6, <1>7, <1>8, <1>9, <1>10, <1>11,
     <1>12, <1>13, <1>14, <1>15, <1>16, <1>17, <1>18, <1>19, <1>20, <1>21,
     <1>22, <1>23, <1>24, <1>25, <1>26, <1>27, <1>28, <1>29, <1>30, <1>31,
     <1>32, <1>33, <1>34, <1>35, <1>36, <1>37, <1>38, <1>39, <1>40, <1>41,
     <1>42, <1>43, <1>44 DEF Next, Startup, Tun, Proxy, Leave

-----------------------------------------------------------------------------
(* Agreement.                                                                 *)

(* Failures are only ever counted up.                                         *)
LEMMA FaultsGrow ==
    ASSUME ModesAssumption, TypeOK, [Next]_vars
    PROVE  /\ faults \in Nat /\ faults' \in Nat /\ faults' >= faults
           /\ Fault => faults' >= 1
<1>1. faults' = faults \/ Fault
  <2>1. CASE Startup
    BY <2>1 DEF Startup, Launch, StepFails, ReconcileRefuses, ReconcileNotes, ReconcileRepairs,
         Reconcile, Persist, ReconcileEnables, ReconcileDisables,
         ReconcileClears, EnsureBaseline, StartRefuses, StartCore, StartFails,
         ReconcileProxy, ReconcileProxyFails, Join
  <2>2. CASE Tun
    BY <2>2 DEF Tun, StartToggle, WorkerWrites, WorkerFails, FinishFailed, FinishSaves,
         FinishUnsaved, RollBack, Unjournal, RestartCore, RestartFails
  <2>3. CASE Proxy
    BY <2>3 DEF Proxy, ToggleProxy, ProxyApplies, ProxyFails, PollProxy, SaveState
  <2>4. CASE Leave
    BY <2>4 DEF Leave, Quit, LoopFails, LeaveRunning, ExitSaves, SuspendProxy,
         SuspendProxyFails, SuspendTun, StopCore, KeepCore, Crash
  <2>5. CASE CoreExits \/ EditConfig \/ UNCHANGED vars
    BY <2>5 DEF CoreExits, EditConfig, vars
  <2> QED BY <2>1, <2>2, <2>3, <2>4, <2>5 DEF Next
<1>2. faults \in Nat /\ (Fault => faults' = faults + 1)
  BY DEF TypeOK, ModesAssumption, Fault
<1> QED BY <1>1, <1>2

LEMMA ThreadStep == ASSUME ModesAssumption, TypeOK, ThreadInv, [Next]_vars PROVE ThreadInv'
<1> USE DEF ThreadInv, Starting, Busy, disk
<1>1. CASE Startup
  BY <1>1 DEF Startup, Launch, StepFails, ReconcileRefuses, ReconcileNotes, ReconcileRepairs,
       Reconcile, Reconciled, Persist, ReconcileEnables, ReconcileDisables,
       ReconcileClears, EnsureBaseline, StartRefuses, StartCore, StartFails,
       ReconcileProxy, ReconcileProxyFails, Join, Abort
<1>2. CASE Tun
  <2>1. pc' = pc /\ update' = update /\ pc \notin Starting \cup {"down"}
    BY <1>2 DEF Tun, StartToggle, WorkerWrites, WorkerFails, FinishFailed, FinishSaves,
         FinishUnsaved, RollBack, Unjournal, RestartCore, RestartFails
  <2>2. Busy' => pc = "up"
    BY <1>2 DEF Tun, StartToggle, WorkerWrites, WorkerFails, FinishFailed, FinishSaves,
         FinishUnsaved, RollBack, Unjournal, RestartCore, RestartFails, TypeOK, Jobs
  <2> QED BY <2>1, <2>2, FaultsGrow
<1>3. CASE Proxy
  BY <1>3, FaultsGrow DEF Proxy, ToggleProxy, ProxyApplies, ProxyFails, PollProxy, SaveState, TypeOK, Updates
<1>4. CASE Leave
  BY <1>4, FaultsGrow DEF Leave, Quit, LoopFails, LeaveRunning, ExitSaves, SuspendProxy,
       SuspendProxyFails, SuspendTun, StopCore, KeepCore, Crash, Down
<1>5. CASE CoreExits \/ EditConfig \/ UNCHANGED vars
  BY <1>5 DEF CoreExits, EditConfig, vars
<1> QED BY <1>1, <1>2, <1>3, <1>4, <1>5 DEF Next

(* A rewrite of the config sets the managed inbound as asked.                 *)
LEMMA SetModeManaged ==
    ASSUME NEW c \in Confs, NEW on \in BOOLEAN, NEW r
    PROVE  SetMode(c, on, r).managed = on
BY DEF SetMode, Confs

LEMMA WithBaselineManaged ==
    ASSUME NEW c \in Confs PROVE WithBaseline(c).managed = c.managed
BY DEF WithBaseline, Confs

LEMMA StartStep ==
    ASSUME TypeOK, ThreadInv, StartInv, [Next]_vars PROVE StartInv'
<1> USE DEF StartInv, Abort
<1>1. CASE Launch
  BY <1>1 DEF Launch, disk, TypeOK, Files, Choices
<1>2. CASE StepFails \/ ReconcileRefuses \/ StartRefuses \/ StartCore \/ StartFails
              \/ ReconcileProxyFails
  BY <1>2 DEF StepFails, ReconcileRefuses, StartRefuses, StartCore, StartFails,
       ReconcileProxyFails, disk
<1>3. CASE ReconcileNotes
  BY <1>3 DEF ReconcileNotes, Persist, TypeOK, Apps
<1>4. CASE ReconcileRepairs
  BY <1>4, SetModeManaged DEF ReconcileRepairs, Drifted, TypeOK, Apps
<1>5. CASE Reconcile
  <2>1. Reconciled.pc = "base" => Reconciled.app.enabled = conf.managed
    BY <1>5 DEF Reconcile, Reconciled, NeedsClear, TypeOK, Apps, Confs
  <2>2. /\ Reconciled.pc \in {"base", "enable", "clear"}
        /\ Reconciled.pc = "enable" => Reconciled.app.enabled
        /\ Reconciled.pc = "clear" => ~Reconciled.app.enabled
    BY DEF Reconciled, NeedsClear, TypeOK, Apps
  <2>3. app' = Reconciled.app /\ pc' \in {Reconciled.pc, "save"} /\ conf' = conf
    BY <1>5 DEF Reconcile, Persist
  <2> QED BY <2>1, <2>2, <2>3
<1>6. CASE ReconcileEnables \/ ReconcileDisables
  BY <1>6, SetModeManaged DEF ReconcileEnables, ReconcileDisables, TypeOK, Apps
<1>7. CASE ReconcileClears
  BY <1>7 DEF ReconcileClears, Persist, TypeOK, Apps, Confs
<1>8. CASE EnsureBaseline
  BY <1>8, WithBaselineManaged DEF EnsureBaseline, TypeOK
<1>9. CASE ReconcileProxy \/ Join
  BY <1>9 DEF ReconcileProxy, Join, disk, TypeOK, Apps
<1>10. CASE Tun
  BY <1>10 DEF Tun, StartToggle, WorkerWrites, WorkerFails, FinishFailed, FinishSaves,
       FinishUnsaved, RollBack, Unjournal, RestartCore, RestartFails, ThreadInv,
       Starting
<1>11. CASE Proxy
  BY <1>11 DEF Proxy, ToggleProxy, ProxyApplies, ProxyFails, PollProxy, SaveState, disk,
       TypeOK, Apps
<1>12. CASE Leave
  BY <1>12 DEF Leave, Quit, LoopFails, LeaveRunning, ExitSaves, SuspendProxy,
       SuspendProxyFails, SuspendTun, StopCore, KeepCore, Crash, Down
<1>13. CASE CoreExits \/ EditConfig \/ UNCHANGED vars
  BY <1>13 DEF CoreExits, EditConfig, vars, disk, TypeOK, Confs
<1> QED
  BY <1>1, <1>2, <1>3, <1>4, <1>5, <1>6, <1>7, <1>8, <1>9, <1>10, <1>11, <1>12, <1>13
     DEF Next, Startup

LEMMA RollbackStep ==
    ASSUME ModesAssumption, TypeOK, RollbackInv, [Next]_vars PROVE RollbackInv'
<1> USE DEF RollbackInv, Running
<1>0. faults \in Nat /\ faults' \in Nat /\ faults' >= faults /\ (Fault => faults' >= 1)
  BY FaultsGrow
<1>1. CASE Tun
  <2>1. CASE StartToggle
    BY <2>1 DEF StartToggle
  <2>5. CASE WorkerWrites \/ WorkerFails \/ FinishSaves
    <3>1. job \in Jobs
      BY <2>5 DEF WorkerWrites, WorkerFails, FinishSaves, TypeOK
    <3>2. job'.phase \in {"written", "failed", "restart"}
      BY <2>5, <3>1 DEF WorkerWrites, WorkerFails, FinishSaves, Jobs
    <3> QED BY <3>2
  <2>2. CASE FinishUnsaved
    BY <1>0, <2>2 DEF FinishUnsaved
  <2>3. CASE RollBack
    BY <1>0, <2>3 DEF RollBack
  <2>4. CASE FinishFailed \/ Unjournal \/ RestartCore \/ RestartFails
    BY <2>4 DEF FinishFailed, Unjournal, RestartCore, RestartFails
  <2> QED BY <1>1, <2>1, <2>2, <2>3, <2>4, <2>5 DEF Tun
<1>2. CASE Startup
  <2>1. job' = job
    BY <1>2 DEF Startup, Launch, StepFails, ReconcileRefuses, ReconcileNotes,
         ReconcileRepairs, Reconcile, ReconcileEnables, ReconcileDisables,
         ReconcileClears, EnsureBaseline, StartRefuses, StartCore, StartFails,
         ReconcileProxy, ReconcileProxyFails, Join
  <2> QED BY <1>0, <2>1
<1>3. CASE Proxy
  BY <1>0, <1>3 DEF Proxy, ToggleProxy, ProxyApplies, ProxyFails, PollProxy, SaveState
<1>4. CASE Leave
  BY <1>0, <1>4 DEF Leave, Quit, LoopFails, LeaveRunning, ExitSaves, SuspendProxy,
       SuspendProxyFails, SuspendTun, StopCore, KeepCore, Crash, Down
<1>5. CASE CoreExits \/ EditConfig \/ UNCHANGED vars
  BY <1>0, <1>5 DEF CoreExits, EditConfig, vars
<1> QED BY <1>1, <1>2, <1>3, <1>4, <1>5 DEF Next

(* What a step leaves alone of the records is not what agreement is about.    *)
LEMMA AgreedKept ==
    ASSUME Agreed, app'.enabled = app.enabled, conf'.managed = conf.managed, job' = job
    PROVE  Agreed'
BY DEF Agreed, Running

LEMMA StillRunning == job' \in Jobs => Running'
BY NullsAssumption DEF Running

LEMMA ToggleStep ==
    ASSUME ModesAssumption, TypeOK, ThreadInv, StartInv, ToggleInv, RollbackInv, JournalInv,
           [Next]_vars
    PROVE  ToggleInv'
<1>1. SUFFICES ASSUME Recoverable', pc' = "up" PROVE Agreed'
  BY DEF ToggleInv
<1>2. /\ faults \in Nat /\ faults' \in Nat /\ faults' >= faults
      /\ Fault => faults' = faults + 1
  BY FaultsGrow DEF Fault
<1>3. Recoverable
  BY <1>1, <1>2 DEF Recoverable
<1>4. pc = "up" => Agreed
  BY <1>3 DEF ToggleInv
<1>5. Running => job \in Jobs
  BY DEF Running, TypeOK
<1>6. CASE Startup
  <2>1. Join
    BY <1>1, <1>6 DEF Startup, Launch, StepFails, ReconcileRefuses, ReconcileNotes,
         ReconcileRepairs, Reconcile, Reconciled, Persist, ReconcileEnables,
         ReconcileDisables, ReconcileClears, EnsureBaseline, StartRefuses, StartCore,
         StartFails, ReconcileProxy, ReconcileProxyFails, Abort
  <2> QED BY <2>1 DEF Join, Agreed, Running, ThreadInv, StartInv, Starting, disk, TypeOK, Apps
<1>7. CASE Tun
  <2>1. CASE StartToggle
    BY <1>4, <2>1, NullsAssumption DEF StartToggle, Agreed, Running, TypeOK, Apps
  <2>2. CASE WorkerWrites
    <3>1. Running /\ job \in Jobs /\ job.phase = "queued" /\ app' = app /\ pc' = pc
      BY <1>5, <2>2 DEF WorkerWrites, Running
    <3>2. conf'.managed = job.target
      BY <2>2, <3>1, SetModeManaged DEF WorkerWrites, TypeOK, Jobs
    <3>3. Running' /\ job'.phase = "written" /\ job'.target = job.target
      <4>1. conf.auto \in Restores
        BY DEF TypeOK, Confs, Restores
      <4> QED BY <2>2, <3>1, <4>1, StillRunning DEF WorkerWrites, Jobs, Phases
    <3> QED BY <1>1, <1>4, <3>1, <3>2, <3>3 DEF Agreed, Jobs, TypeOK, Confs
  <2>3. CASE WorkerFails
    BY <1>1, <1>4, <1>5, <2>3 DEF WorkerFails, Agreed, Running, Jobs, disk
  <2>4. CASE FinishFailed
    BY <1>1, <1>4, <1>5, <2>4 DEF FinishFailed, Agreed, Running, Jobs
  <2>5. CASE FinishSaves
    BY <1>1, <1>4, <1>5, <2>5 DEF FinishSaves, Toggled, Agreed, Running, Jobs, TypeOK, Apps
  <2>6. CASE FinishUnsaved
    <3>1. CASE JournalStale
      <4>1. Running /\ job.phase = "written" /\ job.target /\ job.before # job.journal
        BY <2>6, <3>1 DEF FinishUnsaved, JournalStale, Running
      <4>2. RacingEdits /\ ~app.enabled
        BY <1>1, <1>4, <2>6, <4>1 DEF FinishUnsaved, JournalInv, Agreed
      <4>3. Running' /\ job'.phase = "rollback" /\ app' = app
        BY <1>5, <2>6, <3>1, <4>1, StillRunning DEF FinishUnsaved, Jobs, Phases
      <4> QED BY <4>2, <4>3 DEF Agreed
    <3>2. CASE ~JournalStale
      BY <1>1, <1>4, <1>5, <2>6, <3>2
         DEF FinishUnsaved, Toggled, Agreed, Running, Jobs, disk, TypeOK, Apps
    <3> QED BY <3>1, <3>2
  <2>7. CASE RollBack
    <3>1. Running /\ job.phase = "rollback" /\ pc = "up" /\ app' = app /\ faults >= 1
      BY <1>1, <2>7 DEF RollBack, Running, RollbackInv
    <3>2. ~Fault
      BY <1>1, <1>2, <1>4, <3>1 DEF Recoverable, Agreed
    <3>3. ~conf'.managed /\ Running' /\ job'.phase = "unjournal"
      <4>1. conf' = SetMode(conf, FALSE, job.before) /\ job' = [job EXCEPT !.phase = "unjournal"]
        BY <2>7, <3>2 DEF RollBack
      <4>2. SetMode(conf, FALSE, job.before).managed = FALSE
        BY SetModeManaged DEF TypeOK
      <4> QED BY <1>5, <3>1, <4>1, <4>2, StillRunning DEF Jobs, Phases
    <3> QED BY <1>4, <3>1, <3>3 DEF Agreed
  <2>8. CASE Unjournal \/ RestartCore \/ RestartFails
    BY <1>1, <1>4, <2>8
       DEF Unjournal, RestartCore, RestartFails, Agreed, Running, disk, TypeOK, Apps, Confs
  <2> QED BY <1>7, <2>1, <2>2, <2>3, <2>4, <2>5, <2>6, <2>7, <2>8 DEF Tun
<1>8. CASE Proxy
  BY <1>1, <1>4, <1>8, AgreedKept
     DEF Proxy, ToggleProxy, ProxyApplies, ProxyFails, PollProxy, SaveState, disk, TypeOK, Apps
<1>9. CASE Leave
  BY <1>1, <1>9 DEF Leave, Quit, LoopFails, LeaveRunning, ExitSaves, SuspendProxy,
       SuspendProxyFails, SuspendTun, StopCore, KeepCore, Crash, Down
<1>10. CASE CoreExits \/ EditConfig \/ UNCHANGED vars
  BY <1>1, <1>4, <1>10, AgreedKept DEF CoreExits, EditConfig, vars, disk, TypeOK, Confs
<1> QED BY <1>6, <1>7, <1>8, <1>9, <1>10 DEF Next

LEMMA CoreStep ==
    ASSUME ModesAssumption, TypeOK, ThreadInv, RollbackInv, CoreInv, [Next]_vars
    PROVE  CoreInv'
<1>1. faults \in Nat /\ faults' \in Nat /\ faults' >= faults /\ (Fault => faults' >= 1)
  BY FaultsGrow
<1>2. Running => job \in Jobs
  BY DEF Running, TypeOK
<1>3. CASE Startup
  <2>1. CASE StartCore
    BY <2>1 DEF StartCore, Started, CoreInv, disk
  <2>2. CASE ReconcileProxy
    BY <2>2 DEF ReconcileProxy, CoreInv, disk
  <2>3. CASE Join
    BY <2>3 DEF Join, CoreInv, disk
  <2>4. CASE ~StartCore /\ ~ReconcileProxy /\ ~Join
    <3>1. pc' \notin {"proxy", "join", "up"}
      BY <1>3, <2>4 DEF Startup, Launch, StepFails, ReconcileRefuses, ReconcileNotes,
           ReconcileRepairs, Reconcile, Reconciled, Persist, ReconcileEnables,
           ReconcileDisables, ReconcileClears, EnsureBaseline, StartRefuses,
           StartFails, ReconcileProxyFails, Abort
    <3> QED BY <3>1 DEF CoreInv
  <2> QED BY <2>1, <2>2, <2>3, <2>4
<1>4. CASE Tun
  <2>1. pc \notin {"proxy", "join"} /\ pc' = pc
    BY <1>4 DEF Tun, StartToggle, WorkerWrites, WorkerFails, FinishFailed, FinishSaves,
         FinishUnsaved, RollBack, Unjournal, RestartCore, RestartFails, ThreadInv, Starting
  <2>2. CASE StartToggle
    BY <2>1, <2>2, NullsAssumption DEF StartToggle, CoreInv, Running
  <2>3. CASE WorkerWrites \/ FinishSaves
    <3>1. job' \in Jobs /\ job'.phase \in {"written", "restart"}
      <4>1. conf.auto \in Restores
        BY DEF TypeOK, Confs, Restores
      <4> QED BY <1>2, <2>3, <4>1 DEF WorkerWrites, FinishSaves, Running, Jobs, Phases
    <3> QED BY <2>1, <3>1, StillRunning DEF CoreInv
  <2>4. CASE WorkerFails \/ FinishFailed
    BY <1>1, <2>1, <2>4 DEF WorkerFails, FinishFailed, CoreInv, Running, disk
  <2>5. CASE FinishUnsaved \/ RollBack \/ RestartFails \/ Unjournal
    <3>1. faults' >= 1
      BY <1>1, <2>5 DEF FinishUnsaved, RollBack, RestartFails, Unjournal, RollbackInv, Running
    <3> QED BY <1>1, <2>1, <3>1 DEF CoreInv
  <2>6. CASE RestartCore
    BY <2>1, <2>6 DEF RestartCore, Started, CoreInv, disk
  <2> QED BY <1>4, <2>2, <2>3, <2>4, <2>5, <2>6 DEF Tun
<1>5. CASE Proxy
  BY <1>1, <1>5 DEF Proxy, ToggleProxy, ProxyApplies, ProxyFails, PollProxy, SaveState,
       disk, CoreInv, Running, ThreadInv, Starting
<1>6. CASE Leave
  BY <1>6 DEF Leave, Quit, LoopFails, LeaveRunning, ExitSaves, SuspendProxy,
       SuspendProxyFails, SuspendTun, StopCore, KeepCore, Crash, Down, CoreInv
<1>7. CASE CoreExits \/ EditConfig \/ UNCHANGED vars
  BY <1>7 DEF CoreExits, EditConfig, vars, disk, CoreInv, Running, Stopped, TypeOK, Confs
<1> QED BY <1>3, <1>4, <1>5, <1>6, <1>7 DEF Next

LEMMA JournalStep ==
    ASSUME TypeOK, ThreadInv, JournalInv, [Next]_vars PROVE JournalInv'
<1>1. SUFFICES ASSUME ~RacingEdits PROVE JournalInv'
  BY DEF JournalInv
<1>2. Running => job \in Jobs
  BY DEF Running, TypeOK
<1>3. CASE Startup
  <2>1. job = NoJob /\ job' = job
    BY <1>3 DEF Startup, Launch, StepFails, ReconcileRefuses, ReconcileNotes,
         ReconcileRepairs, Reconcile, Reconciled, Persist, ReconcileEnables,
         ReconcileDisables, ReconcileClears, EnsureBaseline, StartRefuses, StartCore,
         StartFails, ReconcileProxy, ReconcileProxyFails, Join, ThreadInv, Starting
  <2> QED BY <2>1 DEF JournalInv, Running
<1>4. CASE Tun
  <2>1. CASE StartToggle
    BY <2>1 DEF StartToggle, JournalInv, TypeOK, Apps
  <2>2. CASE WorkerWrites
    BY <1>1, <1>2, <2>2 DEF WorkerWrites, JournalInv, Running, Jobs
  <2>3. CASE WorkerFails \/ FinishSaves
    BY <1>2, <2>3 DEF WorkerFails, FinishSaves, JournalInv, Running, Jobs
  <2>4. CASE FinishUnsaved
    BY <1>2, <2>4 DEF FinishUnsaved, JournalInv, Running, Jobs
  <2>5. CASE RollBack
    BY <1>2, <2>5 DEF RollBack, JournalInv, Running, Jobs
  <2>6. CASE FinishFailed \/ Unjournal \/ RestartCore \/ RestartFails
    BY <2>6 DEF FinishFailed, Unjournal, RestartCore, RestartFails, JournalInv, Running
  <2> QED BY <1>4, <2>1, <2>2, <2>3, <2>4, <2>5, <2>6 DEF Tun
<1>5. CASE Proxy
  BY <1>1, <1>5 DEF Proxy, ToggleProxy, ProxyApplies, ProxyFails, PollProxy, SaveState,
       disk, JournalInv, Running
<1>6. CASE Leave
  BY <1>1, <1>6 DEF Leave, Quit, LoopFails, LeaveRunning, ExitSaves, SuspendProxy,
       SuspendProxyFails, SuspendTun, StopCore, KeepCore, Crash, Down, disk, JournalInv,
       Running
<1>7. CASE CoreExits \/ EditConfig \/ UNCHANGED vars
  BY <1>1, <1>7 DEF CoreExits, EditConfig, vars, disk, JournalInv, Running
<1> QED BY <1>3, <1>4, <1>5, <1>6, <1>7 DEF Next

-----------------------------------------------------------------------------
(* What a quit keeps.                                                         *)

LEMMA ProxyStep ==
    ASSUME ModesAssumption, TypeOK, ThreadInv, ProxyInv, [Next]_vars PROVE ProxyInv'
<1>1. SUFFICES ASSUME faults' = 0 PROVE ProxyInv'
  BY DEF ProxyInv
<1>2. faults = 0 /\ ~Fault
  BY <1>1, FaultsGrow
<1>3. CASE Startup
  <2>1. CASE Launch
    BY <1>2, <2>1 DEF Launch, ProxyInv, disk
  <2>2. CASE ReconcileNotes \/ ReconcileDisables
    BY <1>2, <2>2 DEF ReconcileNotes, ReconcileDisables, ProxyInv, Persist, disk, TypeOK, Apps
  <2>3. CASE Reconcile
    <3>1. app'.shown = app.shown
      BY <2>3 DEF Reconcile, Reconciled, TypeOK, Apps
    <3>2. pc' \in {"base", "enable", "clear"}
      BY <1>2, <2>3 DEF Reconcile, Reconciled, Persist
    <3>3. pc = "load" /\ os' = os
      BY <2>3 DEF Reconcile
    <3> QED BY <1>2, <3>1, <3>2, <3>3 DEF ProxyInv
  <2>4. CASE ReconcileRepairs \/ ReconcileEnables \/ ReconcileClears \/ EnsureBaseline
             \/ StartCore
    BY <1>2, <2>4 DEF ReconcileRepairs, ReconcileEnables, ReconcileClears, EnsureBaseline,
         StartCore, Persist, ProxyInv, disk
  <2>5. CASE StepFails \/ ReconcileRefuses \/ StartRefuses \/ StartFails
    BY <2>5 DEF StepFails, ReconcileRefuses, StartRefuses, StartFails, Abort, ProxyInv
  <2>6. CASE ReconcileProxy
    BY <2>6 DEF ReconcileProxy, ProxyInv, ProxyKnown, TypeOK, Apps, Choices, Choice
  <2>7. CASE ReconcileProxyFails
    BY <1>2, <2>7 DEF ReconcileProxyFails
  <2>8. CASE Join
    BY <1>2, <2>8 DEF Join, ProxyInv, ProxyKnown, ThreadInv, Starting, TypeOK, Apps
  <2> QED BY <1>3, <2>1, <2>2, <2>3, <2>4, <2>5, <2>6, <2>7, <2>8 DEF Startup
<1>4. CASE Tun
  <2>1. /\ os' = os /\ pc' = pc /\ update' = update /\ pc \notin Starting
        /\ app'.intent = app.intent /\ app'.shown = app.shown
    BY <1>4 DEF Tun, StartToggle, WorkerWrites, WorkerFails, FinishFailed, FinishSaves,
         FinishUnsaved, RollBack, Unjournal, RestartCore, RestartFails, ThreadInv,
         Starting, Toggled, TypeOK, Apps
  <2> QED BY <1>2, <2>1 DEF ProxyInv, ProxyKnown, Starting
<1>5. CASE Proxy
  <2>1. pc \notin Starting
    BY <1>5 DEF Proxy, ToggleProxy, ProxyApplies, ProxyFails, PollProxy, SaveState,
         ThreadInv, Starting
  <2>2. CASE ToggleProxy
    BY <1>2, <2>1, <2>2
       DEF ToggleProxy, ProxyInv, ProxyKnown, Starting, TypeOK, Apps, Updates, Choices
  <2>3. CASE ProxyApplies
    BY <1>2, <2>1, <2>3, NullsAssumption
       DEF ProxyApplies, ProxyInv, Starting, TypeOK, Updates
  <2>4. CASE ProxyFails
    BY <1>2, <2>4 DEF ProxyFails
  <2>5. CASE PollProxy
    <3>1. update # NoJob /\ update.phase = "done"
      BY <1>2, <2>5 DEF PollProxy, ThreadInv, TypeOK, Updates
    <3>2. pc' = "up" /\ update' = NoJob /\ os' = os /\ app'.intent = Choice(os)
      BY <1>2, <2>5, <3>1 DEF PollProxy, ProxyInv, TypeOK, Apps
    <3> QED BY <3>2 DEF ProxyInv, ProxyKnown, Choice
  <2>6. CASE SaveState
    BY <1>2, <2>1, <2>6 DEF SaveState, ProxyInv, ProxyKnown, Starting
  <2> QED BY <1>5, <2>2, <2>3, <2>4, <2>5, <2>6 DEF Proxy
<1>6. CASE Leave
  BY <1>6 DEF Leave, Quit, LoopFails, LeaveRunning, ExitSaves, SuspendProxy,
       SuspendProxyFails, SuspendTun, StopCore, KeepCore, Crash, Down, ProxyInv
<1>7. CASE CoreExits \/ EditConfig \/ UNCHANGED vars
  BY <1>2, <1>7 DEF CoreExits, EditConfig, vars, disk, ProxyInv, ProxyKnown
<1> QED BY <1>3, <1>4, <1>5, <1>6, <1>7 DEF Next

LEMMA QuitStep ==
    ASSUME ModesAssumption, TypeOK, ThreadInv, ProxyInv, QuitInv, [Next]_vars PROVE QuitInv'
<1>1. SUFFICES ASSUME faults' = 0, exit'.kind = "quit" PROVE QuitInv'
  BY DEF QuitInv
<1>2. faults = 0 /\ ~Fault
  BY <1>1, FaultsGrow
<1>3. CASE Startup
  <2>1. pc' \notin {"save", "unproxy", "untun", "leave", "stop", "left", "down"}
    BY <1>1, <1>3 DEF Startup, Launch, StepFails, ReconcileRefuses, ReconcileNotes,
         ReconcileRepairs, Reconcile, Reconciled, Persist, ReconcileEnables,
         ReconcileDisables, ReconcileClears, EnsureBaseline, StartRefuses, StartCore,
         StartFails, ReconcileProxy, ReconcileProxyFails, Join, Abort, NoExit
  <2> QED BY <2>1 DEF QuitInv
<1>4. CASE Tun
  <2>1. CASE pc \in {"up", "save"}
    BY <1>1, <1>2, <1>4, <2>1 DEF Tun, StartToggle, WorkerWrites, WorkerFails, FinishFailed,
         FinishSaves, FinishUnsaved, RollBack, Unjournal, RestartCore, RestartFails, QuitInv, disk
  <2>2. CASE pc \notin {"up", "save"}
    BY <1>1, <1>2, <1>4, <2>2 DEF Tun, StartToggle, WorkerWrites, WorkerFails, FinishFailed,
         FinishSaves, FinishUnsaved, RollBack, Unjournal, RestartCore, RestartFails, QuitInv,
         Remembered, ThreadInv, Busy, disk
  <2> QED BY <2>1, <2>2
<1>5. CASE Proxy
  BY <1>1, <1>2, <1>5 DEF Proxy, ToggleProxy, ProxyApplies, ProxyFails, PollProxy, SaveState,
       QuitInv, Remembered, disk
<1>6. CASE Leave
  <2>1. CASE Quit
    BY <1>2, <2>1 DEF Quit, Leaving, QuitInv, ProxyInv, ProxyKnown, disk
  <2>2. CASE LoopFails \/ LeaveRunning \/ Crash
    BY <1>1, <2>2 DEF LoopFails, LeaveRunning, Crash, Leaving, NoExit
  <2>3. CASE ExitSaves
    <3>1. /\ file' = Saved(app, Persisted(app, NoJob)) /\ exit' = exit /\ pc' = "unproxy"
          /\ exit.explicit = app.explicit /\ exit.tun = app.enabled
          /\ exit.os = os /\ ProxyKnown
      BY <1>1, <1>2, <2>3 DEF ExitSaves, QuitInv
    <3> QED BY <3>1 DEF QuitInv, Remembered, Saved, Persisted, ProxyKnown
  <2>4. CASE SuspendProxy \/ SuspendProxyFails \/ SuspendTun \/ StopCore \/ KeepCore
    BY <1>1, <1>2, <2>4 DEF SuspendProxy, SuspendProxyFails, SuspendTun, StopCore, KeepCore,
         Down, QuitInv, Remembered, disk
  <2> QED BY <1>6, <2>1, <2>2, <2>3, <2>4 DEF Leave
<1>7. CASE CoreExits \/ EditConfig \/ UNCHANGED vars
  BY <1>1, <1>2, <1>7 DEF CoreExits, EditConfig, vars, disk, QuitInv, Remembered, ProxyKnown
<1> QED BY <1>3, <1>4, <1>5, <1>6, <1>7 DEF Next

LEMMA SuspendedStep ==
    ASSUME ThreadInv, SuspendedInv, [Next]_vars PROVE SuspendedInv'
<1>1. CASE Startup
  BY <1>1 DEF Startup, Launch, StepFails, ReconcileRefuses, ReconcileNotes,
       ReconcileRepairs, Reconcile, Reconciled, Persist, ReconcileEnables,
       ReconcileDisables, ReconcileClears, EnsureBaseline, StartRefuses, StartCore,
       StartFails, ReconcileProxy, ReconcileProxyFails, Join, Abort, SuspendedInv
<1>2. CASE Tun
  BY <1>2 DEF Tun, StartToggle, WorkerWrites, WorkerFails, FinishFailed, FinishSaves,
       FinishUnsaved, RollBack, Unjournal, RestartCore, RestartFails, SuspendedInv
<1>3. CASE Proxy
  BY <1>3 DEF Proxy, ToggleProxy, ProxyApplies, ProxyFails, PollProxy, SaveState, SuspendedInv
<1>4. CASE Leave
  BY <1>4 DEF Leave, Quit, LoopFails, LeaveRunning, ExitSaves, SuspendProxy, Suspendable,
       SuspendProxyFails, SuspendTun, StopCore, KeepCore, Crash, Down, SuspendedInv
<1>5. CASE CoreExits \/ EditConfig \/ UNCHANGED vars
  BY <1>5 DEF CoreExits, EditConfig, vars, SuspendedInv
<1> QED BY <1>1, <1>2, <1>3, <1>4, <1>5 DEF Next

-----------------------------------------------------------------------------
(* What a disabled TUN gives back.                                            *)

(* What a save writes into the restore field.                                 *)
LEMMA SavedRestore ==
    ASSUME NEW a, NEW j
    PROVE  Saved(a, Persisted(a, j)).restore = IF j = NoJob THEN a.restore ELSE j.journal
BY DEF Saved, Persisted

LEMMA RestoreStep ==
    ASSUME ~RacingEdits, TypeOK, ThreadInv, StartInv, ToggleInv, JournalInv, RestoreInv,
           [Next]_vars
    PROVE  RestoreInv'
<1>1. Running => job \in Jobs
  BY DEF Running, TypeOK
<1>2. pc = "up" => Agreed
  BY DEF ToggleInv, Recoverable
<1>3. CASE Startup
  <2>1. ~Running /\ ~Running'
    BY <1>3 DEF Startup, Launch, StepFails, ReconcileRefuses, ReconcileNotes,
         ReconcileRepairs, Reconcile, ReconcileEnables, ReconcileDisables, ReconcileClears,
         EnsureBaseline, StartRefuses, StartCore, StartFails, ReconcileProxy,
         ReconcileProxyFails, Join, ThreadInv, Starting, Running
  <2>2. CASE Launch
    BY <2>1, <2>2 DEF Launch, RestoreInv, Knows, disk
  <2>3. CASE StepFails \/ ReconcileRefuses \/ StartRefuses \/ StartCore \/ StartFails
             \/ ReconcileProxy \/ ReconcileProxyFails \/ Join
    BY <2>1, <2>3 DEF StepFails, ReconcileRefuses, StartRefuses, StartCore, StartFails,
         ReconcileProxy, ReconcileProxyFails, Join, Abort, RestoreInv, Knows, Pending, disk,
         TypeOK, Apps
  <2>4. CASE ReconcileNotes
    <3>1. orig = NoRestore /\ orig' = orig /\ pc' # "enable"
      BY <2>1, <2>4 DEF ReconcileNotes, Drifted, Persist, Abort, RestoreInv, Knows, Pending
    <3> QED BY <2>1, <3>1 DEF RestoreInv, Knows
  <2>5. CASE ReconcileRepairs
    BY <2>1, <2>5 DEF ReconcileRepairs, Drifted, Replaced, RestoreInv, Knows, Pending
  <2>6. CASE Reconcile
    <3>1. /\ app' = Reconciled.app /\ conf' = conf /\ orig' = orig /\ pc = "load"
          /\ Knows(app.restore) /\ Knows(file.restore)
          /\ (pc' # "save" => pc' = Reconciled.pc)
          /\ IF Reconciled.save
             THEN file'.restore = app'.restore \/ (pc' = "save" /\ file' = file)
             ELSE file' = file
      BY <2>1, <2>6, SavedRestore DEF Reconcile, Persist, Abort, RestoreInv, Pending
    <3>2. Reconciled.app.restore = app.restore \/ ~conf.managed
      BY DEF Reconciled
    <3>3. Reconciled.pc = "enable" =>
            ~conf.managed /\ Reconciled.app.restore = conf.auto /\ Reconciled.save
      BY DEF Reconciled, TypeOK, Apps
    <3> QED BY <2>1, <3>1, <3>2, <3>3 DEF RestoreInv, Knows
  <2>7. CASE ReconcileEnables
    BY <2>1, <2>7 DEF ReconcileEnables, Replaced, RestoreInv, Knows
  <2>8. CASE ReconcileDisables
    BY <2>1, <2>8, SetModeManaged DEF ReconcileDisables, RestoreInv, Knows, TypeOK
  <2>9. CASE ReconcileClears
    BY <2>1, <2>9 DEF ReconcileClears, Persist, Abort, StartInv, RestoreInv, Knows
  <2>10. CASE EnsureBaseline
    BY <2>1, <2>10, WithBaselineManaged DEF EnsureBaseline, RestoreInv, Knows, Pending, TypeOK
  <2> QED
    BY <1>3, <2>2, <2>3, <2>4, <2>5, <2>6, <2>7, <2>8, <2>9, <2>10 DEF Startup
<1>4. CASE Tun
  <2>1. CASE StartToggle
    <3>1. /\ pc = "up" /\ pc' = "up" /\ ~Running /\ app' = app /\ conf' = conf /\ orig' = orig
          /\ job'.phase = "queued" /\ job'.target = ~app.enabled
          /\ job'.journal = IF app.enabled THEN app.restore ELSE conf.auto
          /\ file' = Saved(app, Persisted(app, job'))
      BY <2>1 DEF StartToggle, Running
    <3>2. Running'
      <4>1. app.restore \in Restores /\ conf.auto \in Restores /\ NoRestore \in Restores
        BY DEF TypeOK, Apps, Confs, Restores
      <4>2. job' \in Jobs
        BY <2>1, <4>1 DEF StartToggle, Jobs, Phases
      <4> QED BY <4>2, StillRunning
    <3>3. file'.restore = job'.journal
      BY <3>1, <3>2, SavedRestore DEF Running
    <3>4. app.enabled = conf.managed /\ Knows(app.restore)
      BY <1>2, <3>1 DEF Agreed, RestoreInv, Pending
    <3> QED BY <3>1, <3>2, <3>3, <3>4 DEF RestoreInv, Knows, Pending, TypeOK, Apps, Confs
  <2>2. CASE WorkerWrites
    <3>1. Running /\ job.phase = "queued" /\ app' = app /\ pc' = pc /\ file' = file
      BY <2>2 DEF WorkerWrites, Running
    <3>2. conf'.managed = job.target
      BY <1>1, <2>2, <3>1, SetModeManaged DEF WorkerWrites, TypeOK, Jobs
    <3>3. /\ Running' /\ job'.phase = "written" /\ job'.target = job.target
          /\ job'.journal = job.journal
      <4>1. conf.auto \in Restores
        BY DEF TypeOK, Confs, Restores
      <4> QED BY <1>1, <2>2, <3>1, <4>1, StillRunning DEF WorkerWrites, Jobs, Phases
    <3>4. job.target => orig' = conf.auto /\ job.journal = conf.auto
      BY <2>2, <3>1 DEF WorkerWrites, Replaced, RestoreInv, JournalInv
    <3>5. pc # "enable"
      BY <3>1 DEF ThreadInv, Starting, Running
    <3> QED BY <1>1, <3>1, <3>2, <3>3, <3>4, <3>5 DEF RestoreInv, Knows, Pending, Jobs
  <2>3. CASE WorkerFails
    <3>1. /\ Running /\ app' = app /\ pc' = pc /\ file' = file /\ conf' = conf /\ orig' = orig
          /\ Running' /\ job'.phase = "failed" /\ job'.target = job.target
          /\ job'.journal = job.journal /\ job.phase = "queued"
      BY <1>1, <2>3, StillRunning DEF WorkerFails, Running, Jobs, Phases, disk
    <3> QED BY <3>1 DEF RestoreInv, Knows, Pending
  <2>4. CASE FinishFailed
    <3>1. /\ ~Running' /\ app' = app /\ conf' = conf /\ orig' = orig /\ pc = "up" /\ pc' = pc
          /\ ~Pending /\ (file' = file \/ file'.restore = app.restore)
      BY <2>4, SavedRestore DEF FinishFailed, Running, Pending
    <3> QED BY <3>1 DEF RestoreInv, Knows
  <2>5. CASE FinishSaves \/ FinishUnsaved
    <3>1. /\ Running /\ pc = "up" /\ job.phase = "written" /\ pc' = pc /\ conf' = conf
          /\ orig' = orig
      BY <2>5 DEF FinishSaves, FinishUnsaved, Running, disk
    <3>2. ~JournalStale
      BY <3>1 DEF JournalStale, JournalInv
    <3>3. app' = Toggled /\ job' = [job EXCEPT !.phase = "restart"]
      BY <2>5, <3>2 DEF FinishSaves, FinishUnsaved
    <3>4. Running' /\ job'.phase = "restart"
      BY <1>1, <3>1, <3>3, StillRunning DEF Jobs, Phases
    <3>5. app'.restore = IF job.target THEN job.before ELSE NoRestore
      BY <3>3 DEF Toggled, TypeOK, Apps
    <3>6. Knows(app'.restore)
      BY <1>2, <3>1, <3>5 DEF Agreed, RestoreInv, Knows, JournalInv
    <3>7. file' = file \/ file'.restore = app'.restore
      BY <2>5, SavedRestore DEF FinishSaves, FinishUnsaved, disk
    <3> QED BY <3>1, <3>4, <3>6, <3>7 DEF RestoreInv, Knows, Pending
  <2>6. CASE RollBack \/ Unjournal
    BY <2>6 DEF RollBack, Unjournal, RestoreInv, Running
  <2>7. CASE RestartCore \/ RestartFails
    BY <2>7 DEF RestartCore, RestartFails, RestoreInv, Knows, Pending, Running, disk
  <2> QED BY <1>4, <2>1, <2>2, <2>3, <2>4, <2>5, <2>6, <2>7 DEF Tun
<1>5. CASE Proxy
  <2>1. CASE ToggleProxy \/ ProxyApplies \/ ProxyFails
    BY <2>1 DEF ToggleProxy, ProxyApplies, ProxyFails, RestoreInv, Knows, Pending, Running,
         disk, TypeOK, Apps
  <2>2. CASE PollProxy \/ SaveState
    <3>1. /\ pc = "up" /\ pc' = pc /\ ~Busy /\ conf' = conf /\ orig' = orig /\ job' = job
          /\ app'.restore = app.restore
          /\ (file' = file \/ file' = Saved(app', Persisted(app', job)))
      BY <2>2 DEF PollProxy, SaveState, TypeOK, Apps
    <3>2. file' = file \/ file'.restore = IF Running THEN job.journal ELSE app.restore
      BY <3>1, SavedRestore DEF Running
    <3>3. Running => job.phase \in {"queued", "written", "failed"}
      BY <1>1, <3>1 DEF Busy, Running, Jobs, Phases
    <3> QED BY <3>1, <3>2, <3>3 DEF RestoreInv, Knows, Pending, Running
  <2> QED BY <1>5, <2>1, <2>2 DEF Proxy
<1>6. CASE Leave
  <2>1. CASE Quit \/ LoopFails \/ SuspendProxy \/ SuspendProxyFails
    BY <2>1 DEF Quit, LoopFails, SuspendProxy, SuspendProxyFails, RestoreInv, Knows, Pending,
         Running, disk, TypeOK, Apps
  <2>2. CASE LeaveRunning
    BY <2>2, SavedRestore DEF LeaveRunning, Down, RestoreInv, Knows, Pending, Running
  <2>3. CASE StopCore \/ KeepCore \/ Crash
    BY <2>3 DEF StopCore, KeepCore, Crash, Down, RestoreInv, Knows, Running, disk
  <2>4. CASE ExitSaves
    <3>1. /\ pc = "save" /\ pc' = "unproxy" /\ conf' = conf /\ orig' = orig /\ job' = job
          /\ app' = app /\ (file' = file \/ file' = Saved(app, Persisted(app, job)))
      BY <2>4 DEF ExitSaves
    <3>2. file' = file \/ file'.restore = IF Running THEN job.journal ELSE app.restore
      BY <3>1, SavedRestore DEF Running
    <3>3. Running => job.phase \in {"queued", "written", "failed"}
      BY <1>1, <3>1 DEF ThreadInv, Busy, Running, Jobs, Phases
    <3> QED BY <3>1, <3>2, <3>3 DEF RestoreInv, Knows, Pending, Running
  <2>5. CASE SuspendTun
    <3>1. /\ pc' \notin {"down", "enable"} /\ file' = file /\ orig' = orig /\ job' = job
          /\ app' = app /\ pc # "down"
          /\ conf' = conf \/ (conf' = SetMode(conf, FALSE, app.restore) /\ ~Running)
      BY <2>5 DEF SuspendTun, Running
    <3>2. SetMode(conf, FALSE, app.restore).managed = FALSE
      BY SetModeManaged DEF TypeOK
    <3> QED BY <3>1, <3>2 DEF RestoreInv, Knows, Pending, Running
  <2> QED BY <1>6, <2>1, <2>2, <2>3, <2>4, <2>5 DEF Leave
<1>7. CASE CoreExits \/ UNCHANGED vars
  BY <1>7 DEF CoreExits, vars, disk, RestoreInv, Knows, Pending, Running
<1>8. CASE EditConfig
  BY <1>8 DEF EditConfig, RestoreInv, Knows, Pending, Running, TypeOK, Confs
<1> QED BY <1>3, <1>4, <1>5, <1>6, <1>7, <1>8 DEF Next

(* A step that takes the managed inbound out of the config puts the setting   *)
(* back, and removals happen in four places only.                             *)
LEMMA RestoredField ==
    ASSUME NEW c \in Confs, c.foreign # "tun", NEW r \in Autos
    PROVE  Field(SetMode(c, FALSE, r).auto) = Field(r)
BY NullsAssumption DEF SetMode, Restored, Field, Confs, Autos

LEMMA RemovalRestores ==
    ASSUME ~RacingEdits, TypeOK, ThreadInv, StartInv, RestoreInv, [Next]_vars,
           conf.managed, ~conf'.managed, conf.foreign # "tun", orig # NoRestore
    PROVE  Field(conf'.auto) = Field(orig)
<1>1. Knows(file.restore) /\ orig \in Autos
  BY DEF RestoreInv, TypeOK, Restores
<1>2. SUFFICES conf' = SetMode(conf, FALSE, orig)
  BY <1>1, RestoredField DEF TypeOK
<1>3. CASE Startup
  <2>1. ReconcileDisables
    BY <1>3, SetModeManaged, WithBaselineManaged DEF Startup, Launch, StepFails,
         ReconcileRefuses, ReconcileNotes, ReconcileRepairs, Reconcile, ReconcileEnables,
         ReconcileClears, EnsureBaseline, StartRefuses, StartCore, StartFails,
         ReconcileProxy, ReconcileProxyFails, Join, disk, TypeOK
  <2> QED BY <2>1 DEF ReconcileDisables, RestoreInv, Pending, Running, ThreadInv, Starting, Knows
<1>4. CASE Tun
  <2>1. WorkerWrites \/ RollBack
    BY <1>4 DEF Tun, StartToggle, WorkerFails, FinishFailed, FinishSaves, FinishUnsaved,
         Unjournal, RestartCore, RestartFails, disk
  <2>2. WorkerWrites
    BY <2>1 DEF RollBack, RestoreInv, Running
  <2>3. Running /\ job.phase = "queued" /\ job.journal = orig /\ job \in Jobs
    BY <1>1, <2>2 DEF WorkerWrites, RestoreInv, Knows, Running, TypeOK
  <2>4. ~job.target
    BY <2>3 DEF RestoreInv
  <2> QED BY <2>2, <2>3, <2>4 DEF WorkerWrites, Jobs
<1>5. CASE Leave
  <2>1. SuspendTun
    BY <1>5 DEF Leave, Quit, LoopFails, LeaveRunning, ExitSaves, SuspendProxy,
         SuspendProxyFails, StopCore, KeepCore, Crash, disk
  <2> QED BY <2>1 DEF SuspendTun, RestoreInv, Pending, Running, Knows
<1>6. CASE Proxy \/ CoreExits \/ EditConfig \/ UNCHANGED vars
  BY <1>6 DEF Proxy, ToggleProxy, ProxyApplies, ProxyFails, PollProxy, SaveState, CoreExits,
       EditConfig, vars, disk, TypeOK, Confs
<1> QED BY <1>3, <1>4, <1>5, <1>6 DEF Next

-----------------------------------------------------------------------------
(* The theorems.                                                              *)

NoRacing == ~RacingEdits => RestoreInv
ModesInv ==
    /\ TypeOK /\ ThreadInv /\ StartInv /\ ToggleInv /\ RollbackInv /\ CoreInv /\ JournalInv
    /\ ProxyInv /\ QuitInv /\ SuspendedInv /\ NoRacing

LEMMA ModesInit == Init => ModesInv
<1> SUFFICES ASSUME Init PROVE ModesInv
  OBVIOUS
<1>1. TypeOK
  BY TypeInit, ModesAssumption
<1>2. ~Running /\ pc = "down" /\ update = NoJob /\ exit.kind = "none" /\ orig = NoRestore
  BY DEF Init, Running, NoExit
<1> QED
  BY <1>1, <1>2 DEF ModesInv, ThreadInv, Starting, Busy, Running, StartInv, ToggleInv,
       RollbackInv, CoreInv, JournalInv, ProxyInv, QuitInv, SuspendedInv, NoRacing,
       RestoreInv, Knows

LEMMA ModesStep == ModesInv /\ [Next]_vars => ModesInv'
<1> SUFFICES ASSUME ModesInv, [Next]_vars PROVE ModesInv'
  OBVIOUS
<1> USE ModesAssumption DEF ModesInv
<1>1. TypeOK' /\ ThreadInv' /\ StartInv'
  BY TypeStep, ThreadStep, StartStep
<1>2. ToggleInv' /\ RollbackInv' /\ CoreInv' /\ JournalInv'
  BY ToggleStep, RollbackStep, CoreStep, JournalStep
<1>3. ProxyInv' /\ QuitInv' /\ SuspendedInv'
  BY ProxyStep, QuitStep, SuspendedStep
<1>4. NoRacing'
  BY RestoreStep DEF NoRacing
<1> QED BY <1>1, <1>2, <1>3, <1>4

LEMMA ModesInvariant == Spec => []ModesInv
BY ModesInit, ModesStep, PTL DEF Spec

(* Every variable of a TUI, its toggles, its exits and its crashes keeps its  *)
(* type, the route setting of the config included (TunConfigState).           *)
THEOREM TypesHold == Spec => []TypeOK
BY ModesInvariant, PTL DEF ModesInv

(* Whatever failed, was killed or left behind before, a process that is up    *)
(* with no toggle running agrees with the config, and so does the sing-box it *)
(* started (InternetTunTransaction::reconcile, finish_toggle).                *)
THEOREM ModesAgree == Spec => []ModeAgrees
<1>1. ModesInv => ModeAgrees
  BY DEF ModesInv, ToggleInv, Recoverable, Agreed, Running, CoreInv, ModeAgrees
<1> QED BY <1>1, ModesInvariant, PTL

(* The modes a quit takes down are named by the state file                    *)
(* (shutdown_runtime_environment, runtime_state).                             *)
THEOREM QuitsRemember == Spec => []QuitKeepsModes
<1>1. ModesInv => QuitKeepsModes
  BY DEF ModesInv, QuitInv, Remembered, QuitKeepsModes
<1> QED BY <1>1, ModesInvariant, PTL

(* sing-box is never stopped on the way out while the OS sends its traffic    *)
(* there (shutdown_runtime_environment).                                      *)
THEOREM ProxyNeverDangles == Spec => NoDanglingProxy
<1>1. ModesInv /\ [Next]_vars => [pc = "stop" /\ core.run /\ ~core'.run => ~os']_vars
  <2> SUFFICES ASSUME ModesInv, [Next]_vars, pc = "stop" PROVE os' = os
    BY DEF ModesInv, SuspendedInv
  <2>1. update = NoJob
    BY DEF ModesInv, SuspendedInv
  <2>2. CASE Startup
    BY <2>2 DEF Startup, Launch, StepFails, ReconcileRefuses, ReconcileNotes,
         ReconcileRepairs, Reconcile, ReconcileEnables, ReconcileDisables, ReconcileClears,
         EnsureBaseline, StartRefuses, StartCore, StartFails, ReconcileProxy,
         ReconcileProxyFails, Join
  <2>3. CASE Tun
    BY <2>3 DEF Tun, StartToggle, WorkerWrites, WorkerFails, FinishFailed, FinishSaves,
         FinishUnsaved, RollBack, Unjournal, RestartCore, RestartFails
  <2>4. CASE Proxy
    BY <2>1, <2>4 DEF Proxy, ToggleProxy, ProxyApplies, ProxyFails, PollProxy, SaveState
  <2>5. CASE Leave
    BY <2>5 DEF Leave, Quit, LoopFails, LeaveRunning, ExitSaves, SuspendProxy,
         SuspendProxyFails, SuspendTun, StopCore, KeepCore, Crash
  <2>6. CASE CoreExits \/ EditConfig \/ UNCHANGED vars
    BY <2>6 DEF CoreExits, EditConfig, vars
  <2> QED BY <2>2, <2>3, <2>4, <2>5, <2>6 DEF Next
<1> QED BY <1>1, ModesInvariant, PTL DEF Spec, NoDanglingProxy

(* With any number of failures and crashes, at any step, the route setting    *)
(* the managed TUN replaced comes back when it goes, as long as nobody edits  *)
(* the config while a toggle runs (start_toggle's journal,                    *)
(* restore_route_auto_detect_interface).                                      *)
THEOREM RouteRestored == ASSUME ~RacingEdits PROVE Spec => DisableRestores
<1>1. ModesInv /\ [Next]_vars =>
        [(conf.managed /\ ~conf'.managed /\ conf.foreign # "tun" /\ orig # NoRestore)
            => Field(conf'.auto) = Field(orig)]_vars
  BY RemovalRestores DEF ModesInv, NoRacing
<1> QED BY <1>1, ModesInvariant, PTL DEF Spec, DisableRestores

-----------------------------------------------------------------------------
(* The settings of the OS.                                                    *)

Addresses == Servers \cup {"off", "other"}
Users == {"none", "start", "toggle", "bypass", "exit"}

(* The setting that the i-th macOS command writes.                            *)
Place(i) == <<((i - 1) \div 3) + 1, Kinds[((i - 1) % 3) + 1]>>

OffSteps == IF platform = "macos" THEN 3 * Services ELSE 1
OffCommand(i) == [mode |-> FALSE, targets |-> {Place(i)}]

Remembers == [server : Addresses, override : BOOLEAN, intent : {"unset", "on", "off"}]

ProxyTypes ==
    /\ platform \in {"macos", "linux", "windows"}
    /\ settings \in [mode : BOOLEAN, at : [Targets -> Addresses]]
    /\ detected \in Servers
    /\ proxy \in [server : Addresses, override : BOOLEAN, shown : BOOLEAN,
                  intent : {"unset", "on", "off"}]
    /\ batch \in [who : Users, on : BOOLEAN, server : Addresses, done : Nat, failed : BOOLEAN]
    /\ phase \in {"down", "start", "up", "exit"}
    /\ singbox \in BOOLEAN
    /\ saved \in Remembers

(* A process that is up runs sing-box, and one that is down runs no update.   *)
PhasesInv ==
    /\ phase /= "down" => singbox
    /\ phase = "down" => batch.who = "none"
    /\ batch.who = "exit" => phase = "exit" /\ ~batch.on
    /\ ~batch.on => batch.done <= OffSteps
    /\ platform = "macos" => settings.mode

(* What the commands done so far have taken back, others may have changed     *)
(* since, but not to a server of ours.                                        *)
TakenBack(n) ==
    IF platform = "macos"
    THEN \A i \in 1..n : settings.at[Place(i)] \notin Servers
    ELSE n >= 1 => (settings.mode => \A t \in Targets : settings.at[t] \notin Servers)

SettingsInv ==
    /\ ProxyTypes
    /\ PhasesInv
    /\ batch.who = "exit" => TakenBack(batch.done)
    /\ WantedIsTakenBack

(* Every setting has its command, ...                                         *)
LEMMA PlaceIsTarget ==
    ASSUME NEW i \in 1..(3 * Services)
    PROVE  Place(i) \in Targets
<1>1. Services \in Nat
  BY ProxyAssumption
<1>2. ((i - 1) \div 3) + 1 \in Places
  BY <1>1, SMT DEF Places
<1>3. ((i - 1) % 3) + 1 \in 1..3
  BY <1>1, SMT
<1>4. Kinds[((i - 1) % 3) + 1] \in {"web", "secure", "socks"}
  BY <1>3 DEF Kinds
<1> QED
  BY <1>2, <1>4 DEF Place, Targets

LEMMA EveryTargetHasPlace ==
    ASSUME NEW t \in Targets
    PROVE  \E i \in 1..(3 * Services) : Place(i) = t
<1>1. PICK p \in Places, k \in {"web", "secure", "socks"} : t = <<p, k>>
  BY DEF Targets
<1>2. Services \in Nat
  BY ProxyAssumption
<1>3. PICK j \in 1..3 : Kinds[j] = k
  <2>1. Kinds[1] = "web" /\ Kinds[2] = "secure" /\ Kinds[3] = "socks"
    BY DEF Kinds
  <2> QED
    BY <2>1
<1> DEFINE n == 3 * (p - 1) + j
<1>4. p \in Nat /\ 1 <= p /\ p <= Services
  BY <1>2 DEF Places
<1>5. n \in 1..(3 * Services) /\ (n - 1) \div 3 = p - 1 /\ (n - 1) % 3 = j - 1
  BY <1>2, <1>4, SMT
<1>6. Place(n) = t
  BY <1>1, <1>3, <1>4, <1>5 DEF Place
<1> QED
  BY <1>5, <1>6

(* ... so an update that switches the proxy off writes each of them on macOS, *)
(* and the one mode elsewhere.                                                *)
LEMMA OffCommands ==
    ASSUME platform \in {"macos", "linux", "windows"},
           NEW on \in BOOLEAN, ~on
    PROVE  /\ Len(Commands(on)) = OffSteps
           /\ platform = "macos" => \A i \in 1..OffSteps : Commands(on)[i] = OffCommand(i)
           /\ platform /= "macos" => Commands(on)[1] = [mode |-> TRUE, targets |-> {}]
<1>1. Services \in Nat /\ 3 * Services \in Nat
  BY ProxyAssumption
<1>2. CASE platform = "macos"
  <2>1. Commands(on) = MacCommands
    BY <1>2 DEF Commands
  <2>2. Len(MacCommands) = 3 * Services
    BY <1>1 DEF MacCommands
  <2>3. ASSUME NEW i \in 1..(3 * Services)
        PROVE  MacCommands[i] = OffCommand(i)
    BY <2>3 DEF MacCommands, Place, OffCommand
  <2> QED
    BY <1>1, <1>2, <2>1, <2>2, <2>3 DEF OffSteps
<1>3. CASE platform /= "macos"
  <2>1. Commands(on) = ModeOnly
    BY <1>3 DEF Commands
  <2>2. Len(ModeOnly) = 1 /\ ModeOnly[1] = [mode |-> TRUE, targets |-> {}]
    BY DEF ModeOnly
  <2> QED
    BY <1>3, <2>1, <2>2 DEF OffSteps
<1> QED
  BY <1>2, <1>3

LEMMA OffStepsNatural == OffSteps \in Nat
  BY ProxyAssumption DEF OffSteps

(* A command leaves settings, and on macOS never touches the mode.            *)
LEMMA WrittenTyped ==
    ASSUME NEW o \in [mode : BOOLEAN, at : [Targets -> Addresses]], NEW c,
           NEW on \in BOOLEAN, NEW s \in Addresses
    PROVE  /\ Written(o, c, on, s) \in [mode : BOOLEAN, at : [Targets -> Addresses]]
           /\ Written(o, c, on, s).mode \in {on, o.mode}
<1>1. [t \in Targets |-> IF t \in c.targets THEN (IF on THEN s ELSE "off") ELSE o.at[t]]
        \in [Targets -> Addresses]
  BY DEF Addresses
<1>2. (IF c.mode THEN on ELSE o.mode) \in {on, o.mode}
  OBVIOUS
<1> QED
  BY <1>1, <1>2 DEF Written

LEMMA SettingsInit == ProxyInit => SettingsInv
<1> SUFFICES ASSUME ProxyInit
             PROVE  SettingsInv
  OBVIOUS
<1>1. settings \in [mode : BOOLEAN, at : [Targets -> Addresses]]
  <2>1. [t \in Targets |-> "off"] \in [Targets -> Addresses]
    BY DEF Addresses
  <2>2. (platform = "macos") \in BOOLEAN
    OBVIOUS
  <2> QED
    BY <2>1, <2>2 DEF ProxyInit
<1>2. detected \in Addresses
  BY DEF ProxyInit, Addresses
<1>3. proxy \in [server : Addresses, override : BOOLEAN, shown : BOOLEAN,
                 intent : {"unset", "on", "off"}]
  BY <1>2 DEF ProxyInit, Detected
<1>4. batch \in [who : Users, on : BOOLEAN, server : Addresses, done : Nat, failed : BOOLEAN]
  BY DEF ProxyInit, NoRun, Users, Addresses
<1>5. saved \in Remembers
  BY DEF ProxyInit, Remembers, Addresses
<1>6. ProxyTypes
  BY <1>1, <1>3, <1>4, <1>5 DEF ProxyInit, ProxyTypes
<1>7. PhasesInv
  <2>1. phase = "down" /\ batch.who = "none" /\ batch.done = 0
    BY DEF ProxyInit, NoRun
  <2>2. batch.done <= OffSteps
    BY <2>1, OffStepsNatural
  <2>3. platform = "macos" => settings.mode
    BY DEF ProxyInit
  <2> QED
    BY <2>1, <2>2, <2>3 DEF PhasesInv
<1>8. batch.who = "none" /\ proxy.intent = "unset"
  BY DEF ProxyInit, NoRun
<1> QED
  BY <1>6, <1>7, <1>8 DEF SettingsInv, WantedIsTakenBack

(* A step that begins or ends no update for the exit, writes no setting and   *)
(* does not leave, keeps the invariant when it keeps the types.               *)
LEMMA ProxyFrame ==
    ASSUME SettingsInv, ProxyTypes',
           UNCHANGED <<platform, settings>>,
           phase' /= "down", singbox',
           batch'.who /= "exit",
           ~batch'.on => batch'.done <= OffSteps
    PROVE  SettingsInv'
<1>1. OffSteps' = OffSteps
  BY DEF OffSteps
<1>2. PhasesInv'
  BY <1>1 DEF PhasesInv, SettingsInv
<1> QED
  BY <1>2 DEF SettingsInv, WantedIsTakenBack

(* What the OS is seen to have, and where the mixed inbound is, has its type. *)
LEMMA SeenTyped ==
    ASSUME ProxyTypes
    PROVE  /\ Synced \in Addresses
           /\ \A s : Matches(settings, s) \in BOOLEAN
           /\ PersistedEnabled(proxy) \in Remembers
<1>1. Synced \in Addresses
  BY DEF ProxyTypes, Synced, Detected, Addresses
<1>2. \A s : Matches(settings, s) \in BOOLEAN
  BY DEF Matches, ProxyTypes
<1>3. PersistedEnabled(proxy) \in Remembers
  BY DEF PersistedEnabled, ProxyTypes, Remembers
<1> QED
  BY <1>1, <1>2, <1>3

LEMMA StartProgramKeeps ==
    ASSUME SettingsInv, StartProgram
    PROVE  SettingsInv'
<1> DEFINE s == IF saved.server = "off" THEN Detected ELSE saved.server
<1>1. ProxyTypes /\ PhasesInv
  BY DEF SettingsInv
<1>2. s \in Addresses /\ Matches(settings, s) \in BOOLEAN
  BY <1>1, SeenTyped DEF ProxyTypes, Detected, Addresses, Remembers
<1> HIDE DEF s
<1>3. proxy' = [server |-> s, override |-> saved.override,
                shown |-> Matches(settings, s), intent |-> saved.intent]
  BY DEF StartProgram, s
<1>4. ProxyTypes'
  BY <1>1, <1>2, <1>3 DEF StartProgram, ProxyTypes, Remembers
<1> QED
  BY <1>1, <1>4, ProxyFrame DEF StartProgram, PhasesInv

LEMMA ReconcilePersistedKeeps ==
    ASSUME SettingsInv, ReconcilePersisted
    PROVE  SettingsInv'
<1>1. ProxyTypes /\ PhasesInv
  BY DEF SettingsInv
<1>2. Synced \in Addresses /\ Matches(settings, Synced) \in BOOLEAN
  BY <1>1, SeenTyped
<1>3. OffSteps \in Nat
  BY OffStepsNatural
<1>4. CASE proxy.intent = "unset"
  <2>1. ProxyTypes'
    BY <1>1, <1>4 DEF ReconcilePersisted, ProxyTypes
  <2> QED
    BY <1>1, <1>4, <2>1, ProxyFrame DEF ReconcilePersisted, PhasesInv, Idle
<1>5. CASE proxy.intent /= "unset"
  <2>1. proxy' = [proxy EXCEPT !.server = Synced, !.shown = Matches(settings, Synced)]
    BY <1>5 DEF ReconcilePersisted
  <2>2. \/ phase' = "up" /\ UNCHANGED batch
        \/ Begin("start", proxy.intent = "on", Synced) /\ UNCHANGED phase
    BY <1>5 DEF ReconcilePersisted
  <2>3. CASE phase' = "up" /\ UNCHANGED batch
    <3>1. ProxyTypes'
      BY <1>1, <1>2, <2>1, <2>3 DEF ReconcilePersisted, ProxyTypes
    <3> QED
      BY <1>1, <2>3, <3>1, ProxyFrame DEF ReconcilePersisted, PhasesInv, Idle
  <2>4. CASE Begin("start", proxy.intent = "on", Synced) /\ UNCHANGED phase
    <3>1. /\ batch' \in [who : Users, on : BOOLEAN, server : Addresses, done : Nat,
                         failed : BOOLEAN]
          /\ batch'.who = "start" /\ batch'.done = 0
      BY <1>2, <2>4 DEF Begin, Users
    <3>2. ProxyTypes'
      BY <1>1, <1>2, <2>1, <2>4, <3>1 DEF ReconcilePersisted, ProxyTypes
    <3> QED
      BY <1>1, <1>3, <2>4, <3>1, <3>2, ProxyFrame DEF ReconcilePersisted, PhasesInv
  <2> QED
    BY <2>2, <2>3, <2>4
<1> QED
  BY <1>4, <1>5

LEMMA ToggleKeeps ==
    ASSUME SettingsInv, Toggle \/ RefreshBypass
    PROVE  SettingsInv'
<1>1. ProxyTypes /\ PhasesInv
  BY DEF SettingsInv
<1>2. Synced \in Addresses /\ Matches(settings, Synced) \in BOOLEAN
  BY <1>1, SeenTyped
<1>3. OffSteps \in Nat
  BY OffStepsNatural
<1>4. CASE Toggle
  <2>1. proxy' = [proxy EXCEPT !.server = Synced, !.shown = Matches(settings, Synced)]
    BY <1>4 DEF Toggle
  <2>2. Begin("toggle", ~Matches(settings, Synced), Synced)
    BY <1>4 DEF Toggle
  <2>3. /\ batch' \in [who : Users, on : BOOLEAN, server : Addresses, done : Nat,
                       failed : BOOLEAN]
        /\ batch'.who = "toggle" /\ batch'.done = 0
    BY <1>2, <2>2 DEF Begin, Users
  <2>4. ProxyTypes'
    BY <1>1, <1>2, <1>4, <2>1, <2>3 DEF Toggle, ProxyTypes
  <2> QED
    BY <1>1, <1>3, <1>4, <2>3, <2>4, ProxyFrame DEF Toggle, PhasesInv
<1>5. CASE RefreshBypass
  <2>1. /\ batch' \in [who : Users, on : BOOLEAN, server : Addresses, done : Nat,
                       failed : BOOLEAN]
        /\ batch'.who = "bypass" /\ batch'.done = 0
    BY <1>1, <1>5 DEF RefreshBypass, Begin, ProxyTypes, Users
  <2>2. ProxyTypes'
    BY <1>1, <1>5, <2>1 DEF RefreshBypass, ProxyTypes
  <2> QED
    BY <1>1, <1>3, <1>5, <2>1, <2>2, ProxyFrame DEF RefreshBypass, PhasesInv
<1> QED
  BY <1>4, <1>5

LEMMA CommandKeeps ==
    ASSUME SettingsInv, Command
    PROVE  SettingsInv'
<1> DEFINE c == Commands(batch.on)[batch.done + 1]
<1>1. ProxyTypes /\ PhasesInv /\ OffSteps \in Nat /\ OffSteps' = OffSteps
  BY OffStepsNatural DEF SettingsInv, Command, OffSteps
<1>2. /\ settings' = Written(settings, c, batch.on, batch.server)
      /\ batch' = [batch EXCEPT !.done = @ + 1]
      /\ batch.who /= "none" /\ ~Ended
      /\ UNCHANGED <<platform, detected, proxy, phase, singbox, saved>>
  BY DEF Command, Idle
<1>3. /\ settings' \in [mode : BOOLEAN, at : [Targets -> Addresses]]
      /\ settings'.mode \in {batch.on, settings.mode}
  BY <1>1, <1>2, WrittenTyped DEF ProxyTypes
<1>4. ProxyTypes'
  BY <1>1, <1>2, <1>3 DEF ProxyTypes
<1>5. /\ batch'.who = batch.who /\ batch'.on = batch.on /\ batch'.done = batch.done + 1
      /\ batch.done \in Nat
  BY <1>1, <1>2 DEF ProxyTypes
<1>6. phase /= "down"
  BY <1>1, <1>2 DEF PhasesInv
<1>7. ASSUME ~batch.on
      PROVE  batch.done + 1 \in 1..OffSteps
  <2>1. Len(Commands(batch.on)) = OffSteps
    BY <1>1, <1>7, OffCommands DEF ProxyTypes
  <2>2. batch.done /= OffSteps /\ batch.done <= OffSteps
    BY <1>1, <1>2, <1>7, <2>1 DEF Ended, PhasesInv
  <2> QED
    BY <1>1, <1>5, <2>2
<1>8. ASSUME ~batch.on, platform = "macos"
      PROVE  /\ c = OffCommand(batch.done + 1)
             /\ settings' = [mode |-> settings.mode,
                             at |-> [settings.at EXCEPT ![Place(batch.done + 1)] = "off"]]
  <2>1. c = OffCommand(batch.done + 1)
    BY <1>1, <1>7, <1>8, OffCommands DEF ProxyTypes
  <2>2. c.mode = FALSE /\ c.targets = {Place(batch.done + 1)}
    BY <2>1 DEF OffCommand
  <2>3. settings' = [mode |-> settings.mode,
                     at |-> [t \in Targets |->
                               IF t \in c.targets THEN "off" ELSE settings.at[t]]]
    BY <1>2, <1>8, <2>2 DEF Written
  <2>4. [t \in Targets |-> IF t \in c.targets THEN "off" ELSE settings.at[t]]
          = [settings.at EXCEPT ![Place(batch.done + 1)] = "off"]
    BY <1>1, <2>2 DEF ProxyTypes
  <2> QED
    BY <2>1, <2>3, <2>4
<1>9. PhasesInv'
  <2>1. platform = "macos" => settings'.mode
    BY <1>1, <1>3, <1>8 DEF ProxyTypes, PhasesInv
  <2>2. ~batch.on => batch'.done <= OffSteps
    BY <1>1, <1>5, <1>7
  <2> QED
    BY <1>1, <1>2, <1>5, <1>6, <2>1, <2>2 DEF PhasesInv
<1>10. ASSUME batch.who = "exit"
       PROVE  TakenBack(batch.done)'
  <2>1. ~batch.on /\ TakenBack(batch.done)
    BY <1>1, <1>10 DEF PhasesInv, SettingsInv
  <2>2. CASE platform = "macos"
    <3>1. ASSUME NEW i \in 1..(batch.done + 1)
          PROVE  settings'.at[Place(i)] \notin Servers
      <4>1. i \in 1..(3 * Services)
        BY <1>1, <1>5, <1>7, <2>1, <2>2 DEF OffSteps
      <4>2. Place(i) \in Targets
        BY <4>1, PlaceIsTarget
      <4>3. CASE Place(i) = Place(batch.done + 1)
        BY <1>1, <1>8, <2>1, <2>2, <4>2, <4>3, ProxyAssumption DEF ProxyTypes
      <4>4. CASE Place(i) /= Place(batch.done + 1)
        <5>1. i \in 1..batch.done
          BY <1>5, <4>4
        <5>2. settings.at[Place(i)] \notin Servers
          BY <2>1, <2>2, <5>1 DEF TakenBack
        <5> QED
          BY <1>1, <1>8, <2>1, <2>2, <4>2, <4>4, <5>2 DEF ProxyTypes
      <4> QED
        BY <4>3, <4>4
    <3> QED
      BY <1>2, <1>5, <2>2, <3>1 DEF TakenBack
  <2>3. CASE platform /= "macos"
    <3>1. batch.done = 0
      BY <1>5, <1>7, <2>1, <2>3 DEF OffSteps
    <3>2. c = [mode |-> TRUE, targets |-> {}]
      BY <1>1, <2>1, <2>3, <3>1, OffCommands DEF ProxyTypes
    <3>3. ~settings'.mode
      BY <1>2, <2>1, <3>2 DEF Written
    <3> QED
      BY <1>2, <2>3, <3>3 DEF TakenBack
  <2> QED
    BY <2>2, <2>3
<1>11. WantedIsTakenBack'
  BY <1>2, <1>6 DEF WantedIsTakenBack
<1> QED
  BY <1>4, <1>5, <1>9, <1>10, <1>11 DEF SettingsInv

LEMMA CommandFailsKeeps ==
    ASSUME SettingsInv, CommandFails
    PROVE  SettingsInv'
<1>1. /\ batch' = [batch EXCEPT !.failed = TRUE]
      /\ batch.who /= "none"
      /\ UNCHANGED <<platform, settings, detected, proxy, phase, singbox, saved>>
  BY DEF CommandFails, Idle
<1>2. ProxyTypes'
  BY <1>1 DEF SettingsInv, ProxyTypes
<1>3. batch'.who = batch.who /\ batch'.on = batch.on /\ batch'.done = batch.done
  BY <1>1 DEF SettingsInv, ProxyTypes
<1>4. PhasesInv' /\ (batch.who = "exit" => TakenBack(batch.done)') /\ WantedIsTakenBack'
  BY <1>1, <1>3 DEF SettingsInv, PhasesInv, OffSteps, TakenBack, Place, WantedIsTakenBack,
                    SendsTo, Targets
<1> QED
  BY <1>2, <1>3, <1>4 DEF SettingsInv

LEMMA PollKeeps ==
    ASSUME SettingsInv, Poll
    PROVE  SettingsInv'
<1> DEFINE seen == Matches(settings, batch.server)
<1>1. ProxyTypes /\ PhasesInv /\ seen \in BOOLEAN
  BY SeenTyped DEF SettingsInv
<1> HIDE DEF seen
<1>2. /\ proxy' = Polled(seen)
      /\ saved' = IF ~batch.failed /\ seen = batch.on THEN PersistedEnabled(proxy') ELSE saved
      /\ batch' = NoRun /\ phase = "up"
      /\ UNCHANGED <<platform, settings, detected, phase, singbox>>
  BY DEF Poll, seen
<1>3. proxy' \in [server : Addresses, override : BOOLEAN, shown : BOOLEAN,
                  intent : {"unset", "on", "off"}]
  BY <1>1, <1>2 DEF Polled, ProxyTypes
<1>4. saved' \in Remembers
  BY <1>1, <1>2, <1>3 DEF PersistedEnabled, ProxyTypes, Remembers
<1>5. batch' \in [who : Users, on : BOOLEAN, server : Addresses, done : Nat, failed : BOOLEAN]
  BY <1>2 DEF NoRun, Users, Addresses
<1>6. ProxyTypes'
  BY <1>1, <1>2, <1>3, <1>4, <1>5 DEF ProxyTypes
<1>7. batch'.who = "none" /\ batch'.done = 0 /\ 0 <= OffSteps
  BY <1>2, OffStepsNatural DEF NoRun
<1> QED
  BY <1>1, <1>2, <1>6, <1>7, ProxyFrame DEF PhasesInv

LEMMA FinishKeeps ==
    ASSUME SettingsInv, Finish
    PROVE  SettingsInv'
<1> DEFINE seen == Matches(settings, batch.server)
<1>1. ProxyTypes /\ PhasesInv /\ seen \in BOOLEAN
  BY SeenTyped DEF SettingsInv
<1> HIDE DEF seen
<1>2. /\ proxy' = [proxy EXCEPT !.shown = IF batch.failed THEN @ ELSE seen]
      /\ phase' \in {"exit", "up"}
      /\ batch' = NoRun /\ batch.who /= "none"
      /\ UNCHANGED <<platform, settings, detected, singbox, saved>>
  BY DEF Finish, seen
<1>3. batch' \in [who : Users, on : BOOLEAN, server : Addresses, done : Nat, failed : BOOLEAN]
  BY <1>2 DEF NoRun, Users, Addresses
<1>4. ProxyTypes'
  BY <1>1, <1>2, <1>3 DEF ProxyTypes
<1>5. batch'.who = "none" /\ batch'.done = 0 /\ 0 <= OffSteps
  BY <1>2, OffStepsNatural DEF NoRun
<1> QED
  BY <1>1, <1>2, <1>4, <1>5, ProxyFrame DEF PhasesInv

LEMMA RefreshStatusKeeps ==
    ASSUME SettingsInv, RefreshStatus
    PROVE  SettingsInv'
<1>1. ProxyTypes /\ PhasesInv /\ Synced \in Addresses /\ Matches(settings, Synced) \in BOOLEAN
  BY SeenTyped DEF SettingsInv
<1>2. ProxyTypes'
  BY <1>1 DEF RefreshStatus, ProxyTypes
<1> QED
  BY <1>1, <1>2, ProxyFrame DEF RefreshStatus, PhasesInv, Idle

LEMMA OverrideKeeps ==
    ASSUME SettingsInv, NEW s \in Servers, Override(s)
    PROVE  SettingsInv'
<1>1. ProxyTypes /\ PhasesInv /\ s \in Addresses /\ Matches(settings, s) \in BOOLEAN
  BY SeenTyped DEF SettingsInv, Addresses
<1>2. /\ proxy' = [proxy EXCEPT !.server = s, !.override = TRUE, !.shown = Matches(settings, s)]
      /\ saved' = PersistedEnabled(proxy')
      /\ phase = "up" /\ batch.who /= "exit"
      /\ UNCHANGED <<platform, settings, detected, batch, phase, singbox>>
  BY DEF Override, Blocked
<1>3. proxy' \in [server : Addresses, override : BOOLEAN, shown : BOOLEAN,
                  intent : {"unset", "on", "off"}]
  BY <1>1, <1>2 DEF ProxyTypes
<1>4. saved' \in Remembers
  BY <1>2, <1>3 DEF PersistedEnabled, Remembers
<1>5. ProxyTypes'
  BY <1>1, <1>2, <1>3, <1>4 DEF ProxyTypes
<1> QED
  BY <1>1, <1>2, <1>5, ProxyFrame DEF PhasesInv

LEMMA ShutDownKeeps ==
    ASSUME SettingsInv, ShutDown
    PROVE  SettingsInv'
<1>1. ProxyTypes /\ PhasesInv /\ PersistedEnabled(proxy) \in Remembers
  BY SeenTyped DEF SettingsInv
<1>2. ProxyTypes'
  BY <1>1 DEF ShutDown, ProxyTypes
<1> QED
  BY <1>1, <1>2, ProxyFrame DEF ShutDown, PhasesInv, Blocked

(* Leaving: either the exit has nothing wanted to take back, ...              *)
LEMMA SuspendKeeps ==
    ASSUME SettingsInv, Suspend
    PROVE  SettingsInv'
<1> DEFINE seen == Matches(settings, Synced)
<1>1. ProxyTypes /\ PhasesInv /\ Synced \in Addresses /\ seen \in BOOLEAN
  BY SeenTyped DEF SettingsInv
<1> HIDE DEF seen
<1>2. /\ proxy' = [proxy EXCEPT !.server = Synced, !.shown = seen]
      /\ phase = "exit" /\ batch.who = "none"
      /\ UNCHANGED <<platform, settings, detected, saved>>
  BY DEF Suspend, seen, Idle
<1>3. proxy' \in [server : Addresses, override : BOOLEAN, shown : BOOLEAN,
                  intent : {"unset", "on", "off"}]
      /\ proxy'.intent = proxy.intent
  BY <1>1, <1>2 DEF ProxyTypes
<1>4. OffSteps \in Nat /\ OffSteps' = OffSteps
  BY <1>2, OffStepsNatural DEF OffSteps
<1>5. CASE MustClear(seen)
  <2>1. Begin("exit", FALSE, Synced) /\ UNCHANGED <<phase, singbox>>
    BY <1>5 DEF Suspend, seen
  <2>2. /\ batch' \in [who : Users, on : BOOLEAN, server : Addresses, done : Nat,
                       failed : BOOLEAN]
        /\ batch'.who = "exit" /\ ~batch'.on /\ batch'.done = 0
    BY <1>1, <2>1 DEF Begin, Users
  <2>3. ProxyTypes'
    BY <1>1, <1>2, <1>3, <2>1, <2>2 DEF ProxyTypes
  <2>4. PhasesInv'
    BY <1>1, <1>2, <1>4, <2>1, <2>2 DEF PhasesInv
  <2>5. TakenBack(batch.done)'
    BY <2>2 DEF TakenBack
  <2>6. WantedIsTakenBack'
    BY <1>2, <2>1 DEF WantedIsTakenBack
  <2> QED
    BY <2>3, <2>4, <2>5, <2>6 DEF SettingsInv
<1>6. CASE ~MustClear(seen)
  <2>1. phase' = "down" /\ singbox' = FALSE /\ UNCHANGED batch
    BY <1>6 DEF Suspend, seen
  <2>2. proxy'.intent /= "on"
    BY <1>3, <1>6 DEF MustClear
  <2>3. ProxyTypes'
    BY <1>1, <1>2, <1>3, <2>1 DEF ProxyTypes
  <2>4. PhasesInv'
    BY <1>1, <1>2, <1>4, <2>1 DEF PhasesInv
  <2> QED
    BY <1>2, <2>1, <2>2, <2>3, <2>4 DEF SettingsInv, WantedIsTakenBack
<1> QED
  BY <1>5, <1>6

(* ... or all its commands were done when sing-box is stopped, ...            *)
LEMMA SuspendedKeeps ==
    ASSUME SettingsInv, Suspended
    PROVE  SettingsInv'
<1>1. ProxyTypes /\ PhasesInv /\ Matches(settings, batch.server) \in BOOLEAN
  BY SeenTyped DEF SettingsInv
<1>2. /\ batch.who = "exit" /\ Ended /\ phase' = "down" /\ batch' = NoRun
      /\ singbox' = (batch.failed \/ Matches(settings, batch.server))
      /\ UNCHANGED <<platform, settings, detected, proxy, saved>>
  BY DEF Suspended
<1>3. batch' \in [who : Users, on : BOOLEAN, server : Addresses, done : Nat, failed : BOOLEAN]
      /\ batch'.who = "none" /\ batch'.done = 0
  BY <1>2 DEF NoRun, Users, Addresses
<1>4. singbox' \in BOOLEAN
  BY <1>1, <1>2 DEF ProxyTypes
<1>5. ProxyTypes'
  BY <1>1, <1>2, <1>3, <1>4 DEF ProxyTypes
<1>6. OffSteps \in Nat /\ OffSteps' = OffSteps
  BY <1>2, OffStepsNatural DEF OffSteps
<1>7. PhasesInv'
  BY <1>1, <1>2, <1>3, <1>6 DEF PhasesInv
<1>8. ASSUME ~singbox'
      PROVE  settings.mode => \A t \in Targets : settings.at[t] \notin Servers
  <2>1. ~batch.failed /\ ~batch.on
    BY <1>1, <1>2, <1>8 DEF ProxyTypes, PhasesInv
  <2>2. Len(Commands(batch.on)) = OffSteps
    BY <1>1, <2>1, OffCommands DEF ProxyTypes
  <2>3. batch.done = OffSteps /\ TakenBack(batch.done)
    BY <1>2, <2>1, <2>2 DEF Ended, SettingsInv
  <2>4. CASE platform = "macos"
    <3>1. ASSUME NEW t \in Targets
          PROVE  settings.at[t] \notin Servers
      <4>1. PICK i \in 1..(3 * Services) : Place(i) = t
        BY EveryTargetHasPlace
      <4> QED
        BY <2>3, <2>4, <4>1 DEF TakenBack, OffSteps
    <3> QED
      BY <3>1
  <2>5. CASE platform /= "macos"
    BY <2>3, <2>5 DEF TakenBack, OffSteps
  <2> QED
    BY <2>4, <2>5
<1>9. WantedIsTakenBack'
  BY <1>2, <1>8 DEF WantedIsTakenBack, SendsTo
<1> QED
  BY <1>3, <1>5, <1>7, <1>9 DEF SettingsInv

(* ... or sing-box is left running.                                           *)
LEMMA SuspendRefusedKeeps ==
    ASSUME SettingsInv, SuspendRefused
    PROVE  SettingsInv'
<1>1. ProxyTypes /\ PhasesInv
  BY DEF SettingsInv
<1>2. /\ phase = "exit" /\ phase' = "down" /\ batch' = NoRun
      /\ UNCHANGED <<platform, settings, detected, proxy, singbox, saved>>
  BY DEF SuspendRefused
<1>3. batch' \in [who : Users, on : BOOLEAN, server : Addresses, done : Nat, failed : BOOLEAN]
      /\ batch'.who = "none" /\ batch'.done = 0
  BY <1>2 DEF NoRun, Users, Addresses
<1>4. ProxyTypes'
  BY <1>1, <1>2, <1>3 DEF ProxyTypes
<1>5. OffSteps \in Nat /\ OffSteps' = OffSteps
  BY <1>2, OffStepsNatural DEF OffSteps
<1>6. PhasesInv'
  BY <1>1, <1>2, <1>3, <1>5 DEF PhasesInv
<1>7. singbox'
  BY <1>1, <1>2 DEF PhasesInv
<1> QED
  BY <1>3, <1>4, <1>6, <1>7 DEF SettingsInv, WantedIsTakenBack

(* Others change the config or the settings, never to a server of ours.       *)
LEMMA MoveInboundKeeps ==
    ASSUME SettingsInv, NEW s \in Servers, MoveInbound(s)
    PROVE  SettingsInv'
<1>1. ProxyTypes'
  BY DEF MoveInbound, SettingsInv, ProxyTypes
<1>2. PhasesInv' /\ (batch.who = "exit" => TakenBack(batch.done))' /\ WantedIsTakenBack'
  BY DEF MoveInbound, SettingsInv, PhasesInv, OffSteps, TakenBack, WantedIsTakenBack,
         SendsTo
<1> QED
  BY <1>1, <1>2 DEF SettingsInv

LEMMA OutsideKeeps ==
    ASSUME SettingsInv, NEW t \in Targets, NEW v \in {"off", "other"}, Outside(t, v)
    PROVE  SettingsInv'
<1> DEFINE hit == IF platform = "macos" THEN {t} ELSE Targets
<1>1. ProxyTypes /\ PhasesInv
  BY DEF SettingsInv
<1>2. v \in Addresses /\ v \notin Servers
  BY ProxyAssumption DEF Addresses
<1>3. /\ UNCHANGED <<platform, detected, proxy, batch, phase, singbox, saved>>
      /\ settings' =
            IF platform /= "macos" /\ v = "off" THEN [settings EXCEPT !.mode = FALSE]
            ELSE [mode |-> TRUE,
                  at |-> [u \in Targets |-> IF u \in hit THEN v ELSE settings.at[u]]]
  BY DEF Outside
<1>4. settings' \in [mode : BOOLEAN, at : [Targets -> Addresses]]
  BY <1>1, <1>2, <1>3 DEF ProxyTypes
<1>5. ProxyTypes'
  BY <1>1, <1>3, <1>4 DEF ProxyTypes
<1>6. ASSUME settings'.mode, NEW u \in Targets, settings'.at[u] \in Servers
      PROVE  platform = "macos" /\ settings.mode /\ settings'.at[u] = settings.at[u]
  BY <1>1, <1>2, <1>3, <1>6 DEF ProxyTypes, PhasesInv
<1>7. PhasesInv'
  BY <1>1, <1>3 DEF PhasesInv, OffSteps
<1>8. WantedIsTakenBack'
  <2> SUFFICES ASSUME phase = "down", ~singbox, proxy.intent = "on", NEW s \in Servers,
                      SendsTo(settings', s)
               PROVE  FALSE
    BY <1>3 DEF WantedIsTakenBack
  <2>1. PICK u \in Targets : settings'.mode /\ settings'.at[u] = s
    BY DEF SendsTo
  <2>2. SendsTo(settings, s)
    BY <1>6, <2>1 DEF SendsTo
  <2> QED
    BY <2>2 DEF SettingsInv, WantedIsTakenBack
<1>9. ASSUME batch.who = "exit"
      PROVE  TakenBack(batch.done)'
  <2>1. TakenBack(batch.done) /\ batch.done <= OffSteps /\ batch.done \in Nat /\ OffSteps \in Nat
    BY <1>1, <1>9, OffStepsNatural DEF SettingsInv, PhasesInv, ProxyTypes
  <2>2. CASE platform = "macos"
    <3>1. ASSUME NEW i \in 1..batch.done
          PROVE  settings'.at[Place(i)] \notin Servers
      <4>1. i \in 1..(3 * Services)
        BY <2>1, <2>2 DEF OffSteps
      <4>2. Place(i) \in Targets /\ settings.at[Place(i)] \notin Servers
        BY <2>1, <2>2, <4>1, PlaceIsTarget DEF TakenBack
      <4>3. settings'.mode
        BY <1>3, <2>2
      <4> QED
        BY <1>6, <4>2, <4>3
    <3> QED
      BY <1>3, <2>2, <3>1 DEF TakenBack
  <2>3. CASE platform /= "macos"
    BY <1>3, <1>6, <2>3 DEF TakenBack
  <2> QED
    BY <2>2, <2>3
<1> QED
  BY <1>3, <1>5, <1>7, <1>8, <1>9 DEF SettingsInv

LEMMA SettingsStep == SettingsInv /\ [ProxyNext]_proxyVars => SettingsInv'
<1> SUFFICES ASSUME SettingsInv, [ProxyNext]_proxyVars
             PROVE  SettingsInv'
  OBVIOUS
<1>1. CASE StartProgram \/ ReconcilePersisted \/ Toggle \/ RefreshBypass
  BY <1>1, StartProgramKeeps, ReconcilePersistedKeeps, ToggleKeeps
<1>2. CASE Command \/ CommandFails \/ Poll \/ Finish
  BY <1>2, CommandKeeps, CommandFailsKeeps, PollKeeps, FinishKeeps
<1>3. CASE RefreshStatus \/ ShutDown \/ Suspend \/ Suspended \/ SuspendRefused
  BY <1>3, RefreshStatusKeeps, ShutDownKeeps, SuspendKeeps, SuspendedKeeps,
     SuspendRefusedKeeps
<1>4. CASE \E s \in Servers : Override(s) \/ MoveInbound(s)
  BY <1>4, OverrideKeeps, MoveInboundKeeps
<1>5. CASE \E t \in Targets, v \in {"off", "other"} : Outside(t, v)
  BY <1>5, OutsideKeeps
<1>6. CASE UNCHANGED proxyVars
  <2>1. ProxyTypes'
    BY <1>6 DEF proxyVars, SettingsInv, ProxyTypes
  <2>2. PhasesInv' /\ (batch.who = "exit" => TakenBack(batch.done))' /\ WantedIsTakenBack'
    BY <1>6 DEF proxyVars, SettingsInv, PhasesInv, OffSteps, TakenBack,
                WantedIsTakenBack, SendsTo
  <2> QED
    BY <2>1, <2>2 DEF SettingsInv
<1> QED
  BY <1>1, <1>2, <1>3, <1>4, <1>5, <1>6 DEF ProxyNext

(* Only the end of a toggle records that the proxy is wanted.                 *)
LEMMA OnlyPollRecords ==
    ASSUME SettingsInv, [ProxyNext]_proxyVars
    PROVE  RecordsApplied
<1> SUFFICES ASSUME phase = "up", proxy.intent /= "on", proxy'.intent = "on"
             PROVE  settings'.mode /\ \A t \in Targets : settings'.at[t] = proxy'.server
  BY DEF RecordsApplied
<1>1. ProxyTypes
  BY DEF SettingsInv
<1>2. CASE Poll
  <2>1. proxy' = Polled(Matches(settings, batch.server)) /\ UNCHANGED settings
    BY <1>2 DEF Poll
  <2>2. Matches(settings, batch.server) \in BOOLEAN
    BY <1>1, SeenTyped
  <2>3. proxy'.server = batch.server /\ Matches(settings, batch.server)
    BY <1>1, <2>1, <2>2 DEF Polled, ProxyTypes
  <2> QED
    BY <2>1, <2>3 DEF Matches
<1>3. CASE ~Poll
  <2>1. proxy'.intent = proxy.intent
    BY <1>1, <1>3 DEF ProxyNext, proxyVars, ProxyTypes, StartProgram, ReconcilePersisted,
       Toggle, RefreshBypass, Command, CommandFails, Finish, RefreshStatus, ShutDown, Suspend,
       Suspended, SuspendRefused, Override, MoveInbound, Outside
  <2> QED
    BY <2>1
<1> QED
  BY <1>2, <1>3

(* Of the system-proxy settings: types, what runs in which phase, and that    *)
(* the commands an exit has done are not undone by anyone for a server of     *)
(* ours, on any number of network services.                                   *)
THEOREM SettingsInvariant == ProxySpec => []SettingsInv
<1> QED
  BY SettingsInit, SettingsStep, PTL DEF ProxySpec

(* The intent to have the system proxy on is recorded only when the OS was    *)
(* seen to have it, and a process that leaves with it wanted has taken every  *)
(* setting back before sing-box stops: for any number of services, servers,   *)
(* failing commands and changes by others.                                    *)
THEOREM SettingsAreFollowed == ProxySpec => SettingsFollowIntent
<1>1. SettingsInv /\ [ProxyNext]_proxyVars /\ SettingsInv' => [FollowsIntent]_proxyVars
  BY OnlyPollRecords DEF FollowsIntent, SettingsInv
<1> QED
  BY <1>1, SettingsInvariant, PTL DEF ProxySpec, SettingsFollowIntent

-----------------------------------------------------------------------------
(* The node-quality database.                                                 *)

Reading == {"idle", "prepare", "refuse"}
Holding == {"prepare", "refuse", "reset", "initialize", "first page", "create", "migrate",
            "current"}
KnownFacts == Facts \cup {CHOOSE f \in Facts : TRUE}
PageSet == [version : {0, 5, 6, 7, 8, 99}, benchmark : {"absent", "exact", "different"},
            flaws : SUBSET Flaws, facts : SUBSET KnownFacts, wal : BOOLEAN]

DbTypes ==
    /\ main \in [kind : {"absent", "empty", "other", "garbage", "db"}, pages : PageSet]
    /\ logged \in PageSet
    /\ opener \in [Openers -> Holding \cup {"idle", "open"}]
    /\ lock \in Openers \cup {NoOne}
    /\ alterations \in Nat

(* The content is that of this version, exactly, if no other program added to *)
(* it.                                                                        *)
CurrentNow ==
    /\ main.kind = "db"
    /\ Content.version = CurrentVersion
    /\ Content.benchmark = "absent"
    /\ alterations = 0 => Content.flaws = {}

(* Only a current database has a -wal file with content; whoever may write    *)
(* holds the lock; and files that are not recognized stop every opener.       *)
LogInv == logged /= NoPages => main.kind = "db" /\ logged.version = CurrentVersion
LockInv == \A p \in Openers : opener[p] \in Holding => lock = p
StrangersInv ==
    odd /= {} \/ main.kind \in {"other", "garbage"} => \A p \in Openers : opener[p] \in Reading

(* What each opener may rely on where it is.                                  *)
StepInv(p) ==
    /\ opener[p] = "reset" => main.kind = "db" /\ Content.version < 6
    /\ opener[p] = "initialize" => main.kind \in {"absent", "empty"}
    /\ opener[p] = "first page" => main.kind = "empty"
    /\ opener[p] = "create" =>
         /\ main.kind = "db" /\ Content.version = 0
         /\ alterations = 0 => "behavior" \notin Content.flaws
    /\ opener[p] = "migrate" => main.kind = "db"
    /\ opener[p] \in {"current", "open"} => CurrentNow

(* What a step may do to the files.                                           *)
Spares == KeepsFacts /\ SparesStrangers

DatabaseInv == DbTypes /\ LogInv /\ LockInv /\ StrangersInv /\ \A p \in Openers : StepInv(p)

LEMMA DatabaseInit == DbInit => DatabaseInv
<1> SUFFICES ASSUME DbInit
             PROVE  DatabaseInv
  OBVIOUS
<1>1. NoPages \in PageSet
  BY DEF NoPages, Pages, PageSet
<1>2. Databases \subseteq PageSet
  <2> DEFINE Found == {{}, {CHOOSE f \in Facts : TRUE}}
             Marred == {{}} \cup {{x} : x \in Flaws}
  <2>1. Databases = {Pages(v, b, fl, fs, w) :
                       v \in {0, 5, 6, 7, 8}, b \in {"absent", "exact", "different"},
                       fl \in Marred, fs \in Found, w \in BOOLEAN}
    BY DEF Databases
  <2>2. Marred \subseteq SUBSET Flaws /\ Found \subseteq SUBSET KnownFacts
    BY DEF KnownFacts
  <2> HIDE DEF Found, Marred
  <2>3. ASSUME NEW v \in {0, 5, 6, 7, 8}, NEW b \in {"absent", "exact", "different"},
               NEW fl \in Marred, NEW fs \in Found, NEW w \in BOOLEAN
        PROVE  Pages(v, b, fl, fs, w) \in PageSet
    BY <2>2 DEF Pages, PageSet
  <2> QED
    BY <2>1, <2>3
<1>3. main \in [kind : {"absent", "empty", "other", "garbage", "db"}, pages : PageSet]
  BY <1>1, <1>2 DEF DbInit
<1>4. DbTypes
  BY <1>1, <1>3 DEF DbInit, DbTypes
<1>5. \A p \in Openers : opener[p] = "idle"
  BY DEF DbInit
<1> QED
  BY <1>4, <1>5 DEF DbInit, DatabaseInv, LogInv, LockInv, StrangersInv, StepInv, Reading, Holding

(* The content a connection reads is some database's.                         *)
LEMMA ContentTyped ==
    ASSUME DbTypes
    PROVE  Content \in PageSet
  BY DEF DbTypes, Content

(* A step of one opener that leaves files alone.                              *)
LEMMA QuietKeeps ==
    ASSUME DatabaseInv, NEW p \in Openers, NEW where \in Holding \cup {"idle", "open"},
           Goto(p, where),
           UNCHANGED <<main, logged, odd, alterations>>,
           lock' \in Openers \cup {NoOne},
           where \in Holding => lock' = p,
           \A q \in Openers \ {p} : opener[q] \in Holding => lock' = q,
           odd /= {} \/ main.kind \in {"other", "garbage"} => where \in Reading,
           where = "reset" => main.kind = "db" /\ Content.version < 6,
           where = "initialize" => main.kind \in {"absent", "empty"},
           where = "first page" => main.kind = "empty",
           where /= "create",
           where = "migrate" => main.kind = "db",
           where \in {"current", "open"} => CurrentNow
    PROVE  DatabaseInv' /\ Spares
<1>1. DbTypes
  BY DEF DatabaseInv
<1>2. opener' \in [Openers -> Holding \cup {"idle", "open"}]
      /\ opener'[p] = where /\ \A q \in Openers \ {p} : opener'[q] = opener[q]
  BY <1>1 DEF Goto, DbTypes
<1>3. Content' = Content /\ (CurrentNow' <=> CurrentNow)
  BY DEF Content, CurrentNow
<1>4. DbTypes'
  BY <1>1, <1>2 DEF DbTypes
<1>5. LogInv' /\ LockInv' /\ StrangersInv'
  BY <1>2 DEF DatabaseInv, LogInv, LockInv, StrangersInv
<1>6. ASSUME NEW q \in Openers
      PROVE  StepInv(q)'
  <2>1. CASE q = p
    BY <1>2, <1>3, <2>1 DEF StepInv
  <2>2. CASE q /= p
    BY <1>2, <1>3, <2>2 DEF StepInv, DatabaseInv
  <2> QED
    BY <2>1, <2>2
<1>7. Spares
  BY <1>3 DEF Spares, KeepsFacts, SparesStrangers
<1> QED
  BY <1>4, <1>5, <1>6, <1>7 DEF DatabaseInv

(* Who holds the lock is alone with what needs it.                            *)
LEMMA AloneWithLock ==
    ASSUME DatabaseInv, NEW p \in Openers, opener[p] \in Holding
    PROVE  /\ lock = p
           /\ \A q \in Openers \ {p} : opener[q] \in {"idle", "open"}
  BY OpenersAssumption DEF DatabaseInv, LockInv, DbTypes

LEMMA LockKeeps ==
    ASSUME DatabaseInv, NEW p \in Openers, Lock(p)
    PROVE  DatabaseInv' /\ Spares
<1>1. \A q \in Openers : opener[q] \notin Holding
  BY OpenersAssumption DEF Lock, MayLock, DatabaseInv, LockInv
<1>2. Goto(p, "prepare") /\ lock' = p /\ UNCHANGED <<main, logged, odd, alterations>>
  BY DEF Lock
<1> QED
  BY <1>1, <1>2, QuietKeeps DEF Holding, Reading

LEMMA PrepareKeeps ==
    ASSUME DatabaseInv, NEW p \in Openers, Prepare(p)
    PROVE  DatabaseInv' /\ Spares
<1>1. /\ opener[p] = "prepare" /\ Goto(p, Preparation)
      /\ UNCHANGED <<main, logged, odd, lock, alterations>>
  BY DEF Prepare
<1>2. lock = p /\ \A q \in Openers \ {p} : opener[q] \in {"idle", "open"}
  BY <1>1, AloneWithLock DEF Holding
<1>3. main.kind \in {"absent", "empty", "other", "garbage", "db"} /\ Content \in PageSet
  BY ContentTyped DEF DatabaseInv, DbTypes
<1>4. PlanOf(Content) \in {"current", "refuse", "migrate", "reset"}
      /\ (PlanOf(Content) = "reset" => Content.version < 6)
      /\ (PlanOf(Content) = "current" =>
            Content.version = CurrentVersion /\ CurrentRecognized(Content))
  BY DEF PlanOf
<1>5. Preparation \in {"initialize", "current", "refuse", "migrate", "reset"}
      /\ (Preparation \in {"current", "migrate", "reset"} =>
            main.kind = "db" /\ Preparation = PlanOf(Content))
      /\ (Preparation = "initialize" => main.kind \in {"absent", "empty"})
      /\ (Preparation /= "refuse" => odd = {})
  BY <1>3, <1>4 DEF Preparation, RegularSidecars
<1>6. CurrentRecognized(Content) => Content.benchmark = "absent" /\ Content.flaws = {}
  BY <1>3 DEF CurrentRecognized, SharedSchema, TablesExact, ColumnsExact, IndexesExact, SqlExact,
     NoBehavior, ForeignKeysExact, SingletonThere, PageSet, Flaws
<1>7. Preparation = "current" => CurrentNow
  BY <1>4, <1>5, <1>6 DEF CurrentNow
<1> HIDE DEF Preparation
<1>8. Preparation \in Holding \cup {"idle", "open"}
  BY <1>5 DEF Holding
<1>9. odd /= {} \/ main.kind \in {"other", "garbage"} => Preparation \in Reading
  BY <1>5 DEF Reading
<1> QED
  BY <1>1, <1>2, <1>4, <1>5, <1>7, <1>8, <1>9, QuietKeeps DEF Holding

LEMMA RefuseKeeps ==
    ASSUME DatabaseInv, NEW p \in Openers, Refuse(p)
    PROVE  DatabaseInv' /\ Spares
<1>1. opener[p] = "refuse" /\ Goto(p, "idle") /\ lock' = NoOne
      /\ UNCHANGED <<main, logged, odd, alterations>>
  BY DEF Refuse
<1>2. \A q \in Openers \ {p} : opener[q] \in {"idle", "open"}
  BY <1>1, AloneWithLock DEF Holding
<1> QED
  BY <1>1, <1>2, QuietKeeps DEF Holding, Reading

LEMMA KillKeeps ==
    ASSUME DatabaseInv, NEW p \in Openers, Kill(p)
    PROVE  DatabaseInv' /\ Spares
<1>1. /\ Goto(p, "idle") /\ UNCHANGED <<main, logged, odd, alterations>>
      /\ lock' = IF lock = p THEN NoOne ELSE lock
  BY DEF Kill
<1>2. \A q \in Openers \ {p} : opener[q] \in Holding => lock' = q
  BY <1>1 DEF DatabaseInv, LockInv
<1>3. lock' \in Openers \cup {NoOne}
  BY <1>1 DEF DatabaseInv, DbTypes
<1> QED
  BY <1>1, <1>2, <1>3, QuietKeeps DEF Holding, Reading

(* A reset deletes what is older than version 6, and nothing is logged then.  *)
LEMMA RemoveSidecarKeeps ==
    ASSUME DatabaseInv, NEW p \in Openers, RemoveSidecar(p)
    PROVE  DatabaseInv' /\ Spares
<1>1. /\ opener[p] = "reset" /\ UNCHANGED <<main, odd, lock, opener, alterations>>
      /\ logged' = NoPages \/ logged' = logged
  BY DEF RemoveSidecar
<1>2. main.kind = "db" /\ Content.version < 6
  BY <1>1 DEF DatabaseInv, StepInv
<1>3. logged = NoPages
  BY <1>2 DEF DatabaseInv, LogInv, Content, CurrentVersion
<1>4. logged' = logged /\ Content' = Content
  BY <1>1, <1>3 DEF Content
<1>5. DbTypes' /\ LogInv' /\ LockInv' /\ StrangersInv'
  BY <1>1, <1>4 DEF DatabaseInv, DbTypes, LogInv, LockInv, StrangersInv
<1>6. \A q \in Openers : StepInv(q)'
  BY <1>1, <1>4 DEF DatabaseInv, StepInv, CurrentNow
<1>7. Spares
  BY <1>1, <1>4 DEF Spares, KeepsFacts, SparesStrangers
<1> QED
  BY <1>5, <1>6, <1>7 DEF DatabaseInv

(* A step that replaces the main file while nothing is logged, by the holder  *)
(* of the lock, who keeps it.                                                 *)
LEMMA ReplaceKeeps ==
    ASSUME DatabaseInv, NEW p \in Openers, opener[p] \in Holding \ Reading,
           ~CurrentNow,
           NEW where \in Holding, Goto(p, where),
           main' \in [kind : {"absent", "empty", "db"}, pages : PageSet],
           logged = NoPages, logged' = NoPages,
           UNCHANGED <<odd, lock, alterations>>,
           where \notin {"reset", "migrate", "current"},
           where = "initialize" => main'.kind = "absent",
           where = "first page" => main'.kind = "empty",
           where = "create" => /\ main'.kind = "db" /\ main'.pages.version = 0
                               /\ "behavior" \notin main'.pages.flaws
    PROVE  DatabaseInv'
<1>1. lock = p /\ \A q \in Openers \ {p} : opener[q] \in {"idle", "open"}
  BY AloneWithLock
<1>2. opener' \in [Openers -> Holding \cup {"idle", "open"}]
      /\ opener'[p] = where /\ \A q \in Openers \ {p} : opener'[q] = opener[q]
  BY DEF Goto, DatabaseInv, DbTypes
<1>3. \A q \in Openers : opener[q] /= "open"
  BY DEF DatabaseInv, StepInv
<1>4. odd = {}
  BY DEF DatabaseInv, StrangersInv
<1>5. DbTypes'
  BY <1>2 DEF DatabaseInv, DbTypes
<1>6. LogInv' /\ LockInv' /\ StrangersInv'
  BY <1>1, <1>2, <1>4 DEF LogInv, LockInv, StrangersInv, Holding
<1>7. Content' = main'.pages
  BY DEF Content
<1>8. ASSUME NEW q \in Openers
      PROVE  StepInv(q)'
  <2>1. CASE q = p
    BY <1>2, <1>7, <2>1 DEF StepInv, Holding
  <2>2. CASE q /= p
    <3>1. opener'[q] = "idle"
      BY <1>1, <1>2, <1>3, <2>2
    <3> QED
      BY <3>1 DEF StepInv
  <2> QED
    BY <2>1, <2>2
<1> QED
  BY <1>5, <1>6, <1>8 DEF DatabaseInv

LEMMA RemoveMainKeeps ==
    ASSUME DatabaseInv, NEW p \in Openers, RemoveMain(p)
    PROVE  DatabaseInv' /\ Spares
<1>1. /\ opener[p] = "reset" /\ Goto(p, "initialize")
      /\ main' = [kind |-> "absent", pages |-> NoPages] /\ logged' = NoPages
      /\ UNCHANGED <<odd, lock, alterations>>
  BY DEF RemoveMain
<1>2. main.kind = "db" /\ Content.version < 6
  BY <1>1 DEF DatabaseInv, StepInv
<1>3. logged = NoPages
  BY <1>2 DEF DatabaseInv, LogInv, Content, CurrentVersion
<1>4. main' \in [kind : {"absent", "empty", "db"}, pages : PageSet]
  BY <1>1 DEF NoPages, Pages, PageSet
<1>5. ~CurrentNow
  BY <1>2 DEF CurrentNow, CurrentVersion
<1>6. DatabaseInv'
  BY <1>1, <1>3, <1>4, <1>5, ReplaceKeeps DEF Holding, Reading
<1>7. odd = {}
  BY <1>1 DEF DatabaseInv, StrangersInv, Reading
<1>8. Spares
  <2>1. KeepsFacts
    BY <1>2 DEF KeepsFacts
  <2>2. SparesStrangers
    BY <1>1, <1>2, <1>7 DEF SparesStrangers
  <2> QED
    BY <2>1, <2>2 DEF Spares
<1> QED
  BY <1>6, <1>8

LEMMA OpenEmptyKeeps ==
    ASSUME DatabaseInv, NEW p \in Openers, OpenEmpty(p)
    PROVE  DatabaseInv' /\ Spares
<1>1. /\ opener[p] = "initialize" /\ Goto(p, "first page")
      /\ main' = [kind |-> "empty", pages |-> NoPages] /\ main.kind \in {"absent", "empty"}
      /\ UNCHANGED <<logged, odd, lock, alterations>>
  BY DEF OpenEmpty
<1>2. logged = NoPages
  BY <1>1 DEF DatabaseInv, LogInv
<1>3. main' \in [kind : {"absent", "empty", "db"}, pages : PageSet]
  BY <1>1 DEF NoPages, Pages, PageSet
<1>4. ~CurrentNow
  BY <1>1 DEF CurrentNow
<1>5. DatabaseInv'
  BY <1>1, <1>2, <1>3, <1>4, ReplaceKeeps DEF Holding, Reading
<1>6. odd = {}
  BY <1>1 DEF DatabaseInv, StrangersInv, Reading
<1> QED
  BY <1>1, <1>5, <1>6 DEF Spares, KeepsFacts, SparesStrangers

LEMMA FirstPageKeeps ==
    ASSUME DatabaseInv, NEW p \in Openers, FirstPage(p)
    PROVE  DatabaseInv' /\ Spares
<1>1. /\ opener[p] = "first page" /\ Goto(p, "create")
      /\ main' = [kind |-> "db", pages |-> Header]
      /\ UNCHANGED <<logged, odd, lock, alterations>>
  BY DEF FirstPage
<1>2. main.kind = "empty"
  BY <1>1 DEF DatabaseInv, StepInv
<1>3. logged = NoPages
  BY <1>2 DEF DatabaseInv, LogInv
<1>4. main' \in [kind : {"absent", "empty", "db"}, pages : PageSet]
      /\ Header.version = 0 /\ "behavior" \notin Header.flaws
  BY <1>1 DEF Header, Pages, PageSet, Flaws
<1>5. ~CurrentNow
  BY <1>2 DEF CurrentNow
<1>6. DatabaseInv'
  BY <1>1, <1>3, <1>4, <1>5, ReplaceKeeps DEF Holding, Reading
<1>7. odd = {}
  BY <1>1 DEF DatabaseInv, StrangersInv, Reading
<1> QED
  BY <1>2, <1>6, <1>7 DEF Spares, KeepsFacts, SparesStrangers

(* A committed transaction is what every connection reads from then on.       *)
LEMMA CommitShows ==
    ASSUME DatabaseInv, main.kind = "db", NEW c \in PageSet, c.version = CurrentVersion,
           Commit(c)
    PROVE  /\ main' \in [kind : {"db"}, pages : PageSet]
           /\ logged' \in PageSet /\ logged' /= NoPages
           /\ Content'.version = CurrentVersion /\ Content'.benchmark = c.benchmark
           /\ Content'.flaws = c.flaws /\ Content'.facts = c.facts
           /\ logged'.version = CurrentVersion
<1>1. logged' = [c EXCEPT !.wal = TRUE]
      /\ main' = [main EXCEPT !.pages = [@ EXCEPT !.wal = TRUE]]
  BY DEF Commit
<1>2. logged' \in PageSet /\ logged'.version = CurrentVersion /\ logged'.benchmark = c.benchmark
      /\ logged'.flaws = c.flaws /\ logged'.facts = c.facts
  BY <1>1 DEF PageSet
<1>3. main' \in [kind : {"db"}, pages : PageSet]
  <2>1. main \in [kind : {"absent", "empty", "other", "garbage", "db"}, pages : PageSet]
    BY DEF DatabaseInv, DbTypes
  <2>2. [main.pages EXCEPT !.wal = TRUE] \in PageSet
    BY <2>1 DEF PageSet
  <2> QED
    BY <1>1, <2>1, <2>2
<1>4. logged' /= NoPages
  BY <1>2 DEF NoPages, Pages, CurrentVersion
<1>5. Content' = logged'
  BY <1>4 DEF Content
<1> QED
  BY <1>2, <1>3, <1>4, <1>5

(* An open that succeeds gives the lock back.                                 *)
LEMMA OpenedKeeps ==
    ASSUME DatabaseInv, NEW p \in Openers, opener[p] \in Holding \ Reading,
           Goto(p, "open"), lock' = NoOne, UNCHANGED <<odd, alterations>>,
           DbTypes', LogInv', CurrentNow'
    PROVE  DatabaseInv'
<1>1. lock = p /\ \A q \in Openers \ {p} : opener[q] \in {"idle", "open"}
  BY AloneWithLock
<1>2. opener'[p] = "open" /\ \A q \in Openers \ {p} : opener'[q] = opener[q]
  BY DEF Goto, DatabaseInv, DbTypes
<1>3. odd = {}
  BY DEF DatabaseInv, StrangersInv
<1>4. LockInv' /\ StrangersInv'
  BY <1>1, <1>2, <1>3 DEF LockInv, StrangersInv, CurrentNow, Holding
<1>5. ASSUME NEW q \in Openers
      PROVE  StepInv(q)'
  <2>1. opener'[q] \in {"idle", "open"}
    BY <1>1, <1>2
  <2> QED
    BY <2>1 DEF StepInv
<1> QED
  BY <1>4, <1>5 DEF DatabaseInv

LEMMA CreateKeeps ==
    ASSUME DatabaseInv, NEW p \in Openers, Create(p)
    PROVE  DatabaseInv' /\ Spares
<1> DEFINE c == [Fresh EXCEPT !.facts = Content.facts,
                              !.flaws = Content.flaws \cap {"behavior"}]
<1>1. /\ opener[p] = "create" /\ main.kind = "db" /\ Commit(c) /\ lock' = NoOne
      /\ Goto(p, "open") /\ UNCHANGED <<odd, alterations>>
  BY DEF Create
<1>2. Content.version = 0 /\ odd = {}
  BY <1>1 DEF DatabaseInv, StepInv, StrangersInv, Reading
<1>3. Content \in PageSet
  BY ContentTyped DEF DatabaseInv
<1>4. c \in PageSet /\ c.version = CurrentVersion /\ c.benchmark = "absent"
      /\ c.flaws = Content.flaws \cap {"behavior"}
  BY <1>3 DEF Fresh, Pages, PageSet, CurrentVersion
<1> HIDE DEF c
<1>5. /\ main' \in [kind : {"db"}, pages : PageSet]
      /\ logged' \in PageSet /\ logged'.version = CurrentVersion
      /\ Content'.version = CurrentVersion /\ Content'.benchmark = "absent"
      /\ Content'.flaws = c.flaws
  BY <1>1, <1>4, CommitShows
<1>6. CurrentNow'
  BY <1>1, <1>4, <1>5 DEF CurrentNow, DatabaseInv, StepInv
<1>7. opener' \in [Openers -> Holding \cup {"idle", "open"}]
  BY <1>1 DEF Goto, DatabaseInv, DbTypes
<1>8. DbTypes' /\ LogInv'
  BY <1>1, <1>5, <1>7 DEF DbTypes, LogInv, DatabaseInv
<1>9. DatabaseInv'
  BY <1>1, <1>6, <1>8, OpenedKeeps DEF Holding, Reading
<1>10. Spares
  BY <1>1, <1>2, <1>9 DEF Spares, KeepsFacts, SparesStrangers
<1> QED
  BY <1>9, <1>10

(* A migration keeps the facts, and makes nothing of what it does not know.   *)
LEMMA MigrateKeeps ==
    ASSUME DatabaseInv, NEW p \in Openers, Migrate(p)
    PROVE  DatabaseInv' /\ Spares
<1> DEFINE c == Migrated(Content)
<1>1. opener[p] = "migrate" /\ lock' = NoOne /\ UNCHANGED <<odd, alterations>>
  BY DEF Migrate
<1>2. main.kind = "db" /\ odd = {}
  BY <1>1 DEF DatabaseInv, StepInv, StrangersInv, Reading
<1>3. Content \in PageSet
  BY ContentTyped DEF DatabaseInv
<1>4. c \in PageSet /\ c.version = CurrentVersion /\ c.benchmark = "absent"
      /\ c.flaws = Content.flaws /\ c.facts = Content.facts
  BY <1>3 DEF Migrated, PageSet, CurrentVersion
<1>5. CASE Version6Recognized(Content) /\ CurrentRecognized(Migrated(Content))
  <2>1. Commit(c) /\ Goto(p, "open")
    BY <1>5 DEF Migrate
  <2>2. Content.flaws = {}
    BY <1>3, <1>5 DEF Version6Recognized, SharedSchema, TablesExact, ColumnsExact, IndexesExact,
       SqlExact, NoBehavior, ForeignKeysExact, SingletonThere, PageSet, Flaws
  <2> HIDE DEF c
  <2>3. /\ main' \in [kind : {"db"}, pages : PageSet]
        /\ logged' \in PageSet /\ logged'.version = CurrentVersion
        /\ Content'.version = CurrentVersion /\ Content'.benchmark = "absent"
        /\ Content'.flaws = {} /\ Content'.facts = Content.facts
    BY <1>2, <1>4, <2>1, <2>2, CommitShows
  <2>4. CurrentNow'
    BY <2>3 DEF CurrentNow
  <2>5. opener' \in [Openers -> Holding \cup {"idle", "open"}]
    BY <2>1 DEF Goto, DatabaseInv, DbTypes
  <2>6. DbTypes' /\ LogInv'
    BY <1>1, <2>3, <2>5 DEF DbTypes, LogInv, DatabaseInv
  <2>7. DatabaseInv'
    BY <1>1, <2>1, <2>4, <2>6, OpenedKeeps DEF Holding, Reading
  <2>8. Spares
    BY <1>2, <2>2, <2>3 DEF Spares, KeepsFacts, SparesStrangers
  <2> QED
    BY <2>7, <2>8
<1>6. CASE ~(Version6Recognized(Content) /\ CurrentRecognized(Migrated(Content)))
  <2>1. Goto(p, "idle") /\ UNCHANGED <<main, logged>>
    BY <1>6 DEF Migrate
  <2>2. \A q \in Openers \ {p} : opener[q] \in {"idle", "open"}
    BY <1>1, AloneWithLock DEF Holding
  <2> QED
    BY <1>1, <2>1, <2>2, QuietKeeps DEF Holding, Reading
<1> QED
  BY <1>5, <1>6

(* Setting a database to WAL mode changes no content.                         *)
LEMMA OpenCurrentKeeps ==
    ASSUME DatabaseInv, NEW p \in Openers, OpenCurrent(p)
    PROVE  DatabaseInv' /\ Spares
<1>1. /\ opener[p] = "current" /\ main' = [main EXCEPT !.pages = [@ EXCEPT !.wal = TRUE]]
      /\ lock' = NoOne /\ Goto(p, "open") /\ UNCHANGED <<logged, odd, alterations>>
  BY DEF OpenCurrent
<1>2. CurrentNow /\ odd = {} /\ main.kind = "db"
  BY <1>1 DEF DatabaseInv, StepInv, StrangersInv, Reading, CurrentNow
<1>3. /\ main' \in [kind : {"db"}, pages : PageSet]
      /\ main'.pages = [main.pages EXCEPT !.wal = TRUE] /\ main.pages \in PageSet
  <2>1. main \in [kind : {"absent", "empty", "other", "garbage", "db"}, pages : PageSet]
    BY DEF DatabaseInv, DbTypes
  <2>2. [main.pages EXCEPT !.wal = TRUE] \in PageSet
    BY <2>1 DEF PageSet
  <2> QED
    BY <1>1, <1>2, <2>1, <2>2
<1>4. Content'.version = Content.version /\ Content'.benchmark = Content.benchmark
      /\ Content'.flaws = Content.flaws /\ Content'.facts = Content.facts
  BY <1>1, <1>3 DEF Content, PageSet
<1>5. CurrentNow'
  BY <1>1, <1>2, <1>3, <1>4 DEF CurrentNow
<1>6. opener' \in [Openers -> Holding \cup {"idle", "open"}]
  BY <1>1 DEF Goto, DatabaseInv, DbTypes
<1>7. DbTypes' /\ LogInv'
  BY <1>1, <1>3, <1>6 DEF DatabaseInv, DbTypes, LogInv
<1>8. DatabaseInv'
  BY <1>1, <1>5, <1>7, OpenedKeeps DEF Holding, Reading
<1>9. Spares
  <2>1. KeepsFacts
    BY <1>3, <1>4 DEF KeepsFacts
  <2>2. SparesStrangers
    BY <1>1, <1>2 DEF SparesStrangers
  <2> QED
    BY <2>1, <2>2 DEF Spares
<1> QED
  BY <1>8, <1>9

(* A step outside the lock that leaves a current database current.            *)
LEMMA CurrentKeeps ==
    ASSUME DatabaseInv, odd = {}, UNCHANGED <<odd, alterations>>,
           \A q \in Openers : opener[q] \notin {"reset", "initialize", "first page", "create"},
           opener' \in [Openers -> Holding \cup {"idle", "open"}],
           \A q \in Openers : opener'[q] = opener[q] \/ opener'[q] = "idle",
           lock' = lock, DbTypes', LogInv', CurrentNow'
    PROVE  DatabaseInv'
<1>1. LockInv'
  BY DEF DatabaseInv, LockInv, Holding
<1>2. StrangersInv'
  BY DEF StrangersInv, CurrentNow
<1>3. \A q \in Openers : StepInv(q)'
  BY DEF StepInv, CurrentNow
<1> QED
  BY <1>1, <1>2, <1>3 DEF DatabaseInv

LEMMA OpenStoreFacts ==
    ASSUME DatabaseInv, NEW p \in Openers, opener[p] = "open"
    PROVE  /\ CurrentNow /\ main.kind = "db" /\ odd = {} /\ Content \in PageSet
           /\ \A q \in Openers :
                opener[q] \notin {"reset", "initialize", "first page", "create"}
<1>1. CurrentNow /\ main.kind = "db" /\ Content.version = 7
  BY DEF DatabaseInv, StepInv, CurrentNow, CurrentVersion
<1>2. odd = {}
  BY DEF DatabaseInv, StrangersInv, Reading
<1>3. Content \in PageSet
  BY ContentTyped DEF DatabaseInv
<1>4. ASSUME NEW q \in Openers
      PROVE  opener[q] \notin {"reset", "initialize", "first page", "create"}
  <2>1. StepInv(q)
    BY DEF DatabaseInv
  <2>2. opener[q] \notin {"initialize", "first page"}
    BY <1>1, <2>1 DEF StepInv
  <2>3. opener[q] = "reset" => Content.version < 6
    BY <2>1 DEF StepInv
  <2>4. opener[q] = "create" => Content.version = 0
    BY <2>1 DEF StepInv
  <2>5. opener[q] /= "reset"
    BY <1>1, <2>3
  <2>6. opener[q] /= "create"
    BY <1>1, <2>4
  <2> QED
    BY <2>2, <2>5, <2>6
<1> QED
  BY <1>1, <1>2, <1>3, <1>4

LEMMA RecordKeeps ==
    ASSUME DatabaseInv, NEW p \in Openers, NEW f \in Facts, Record(p, f)
    PROVE  DatabaseInv' /\ Spares
<1> DEFINE c == [Content EXCEPT !.facts = @ \cup {f}]
<1>1. opener[p] = "open" /\ Commit(c) /\ UNCHANGED <<odd, lock, opener, alterations>>
  BY DEF Record
<1>2. /\ CurrentNow /\ main.kind = "db" /\ odd = {} /\ Content \in PageSet
      /\ \A q \in Openers : opener[q] \notin {"reset", "initialize", "first page", "create"}
  BY <1>1, OpenStoreFacts
<1>3. c \in PageSet /\ c.version = Content.version /\ c.benchmark = Content.benchmark
      /\ c.flaws = Content.flaws /\ c.facts = Content.facts \cup {f}
  <2>1. f \in KnownFacts
    BY DEF KnownFacts
  <2>2. Content.facts \cup {f} \in SUBSET KnownFacts
    BY <1>2, <2>1 DEF PageSet
  <2> QED
    BY <1>2, <2>2 DEF PageSet
<1> HIDE DEF c
<1>4. /\ main' \in [kind : {"db"}, pages : PageSet]
      /\ logged' \in PageSet /\ logged'.version = CurrentVersion
      /\ Content'.version = CurrentVersion /\ Content'.benchmark = c.benchmark
      /\ Content'.flaws = c.flaws /\ Content'.facts = c.facts
  BY <1>1, <1>2, <1>3, CommitShows DEF CurrentNow
<1>5. CurrentNow'
  BY <1>1, <1>2, <1>3, <1>4 DEF CurrentNow
<1>6. DbTypes' /\ LogInv'
  BY <1>1, <1>4 DEF DatabaseInv, DbTypes, LogInv
<1>7. DatabaseInv'
  BY <1>1, <1>2, <1>5, <1>6, CurrentKeeps DEF DatabaseInv, DbTypes
<1>8. KeepsFacts
  BY <1>3, <1>4 DEF KeepsFacts
<1>9. SparesStrangers
  BY <1>1, <1>2 DEF SparesStrangers
<1> QED
  BY <1>7, <1>8, <1>9 DEF Spares

(* The last connection to close moves what was logged into the main file.     *)
LEMMA CloseKeeps ==
    ASSUME DatabaseInv, NEW p \in Openers, Close(p)
    PROVE  DatabaseInv' /\ Spares
<1>1. opener[p] = "open" /\ Goto(p, "idle") /\ UNCHANGED <<odd, lock, alterations>>
  BY DEF Close
<1>2. /\ CurrentNow /\ main.kind = "db" /\ odd = {} /\ Content \in PageSet
      /\ \A q \in Openers : opener[q] \notin {"reset", "initialize", "first page", "create"}
  BY <1>1, OpenStoreFacts
<1>3. \/ main' = [main EXCEPT !.pages = Content] /\ logged' = NoPages
      \/ UNCHANGED <<main, logged>>
  BY DEF Close
<1>4. Content' = Content /\ main'.kind = "db"
      /\ main' \in [kind : {"absent", "empty", "other", "garbage", "db"}, pages : PageSet]
      /\ logged' \in PageSet
  <2>1. CASE main' = [main EXCEPT !.pages = Content] /\ logged' = NoPages
    BY <1>2, <2>1 DEF DatabaseInv, DbTypes, Content, NoPages, Pages, PageSet
  <2>2. CASE UNCHANGED <<main, logged>>
    BY <1>2, <2>2 DEF DatabaseInv, DbTypes, Content
  <2> QED
    BY <1>3, <2>1, <2>2
<1>5. opener' \in [Openers -> Holding \cup {"idle", "open"}]
      /\ \A q \in Openers : opener'[q] = opener[q] \/ opener'[q] = "idle"
  BY <1>1 DEF Goto, DatabaseInv, DbTypes
<1>6. DbTypes'
  BY <1>1, <1>4, <1>5 DEF DatabaseInv, DbTypes
<1>7. LogInv'
  BY <1>3, <1>4 DEF DatabaseInv, LogInv
<1>8. CurrentNow'
  BY <1>1, <1>2, <1>4 DEF CurrentNow
<1>9. DatabaseInv'
  BY <1>1, <1>2, <1>5, <1>6, <1>7, <1>8, CurrentKeeps
<1>10. Spares
  BY <1>1, <1>2, <1>4 DEF Spares, KeepsFacts, SparesStrangers
<1> QED
  BY <1>9, <1>10

(* Another program adds to a database, and takes nothing away.                *)
LEMMA AlterKeeps ==
    ASSUME DatabaseInv, Alter
    PROVE  DatabaseInv' /\ Spares
<1>1. /\ main.kind = "db" /\ logged = NoPages /\ alterations' = alterations + 1
      /\ main' = [main EXCEPT !.pages = [main.pages EXCEPT !.flaws = main.pages.flaws
                                                                     \cup {"behavior"}]]
      /\ UNCHANGED <<logged, odd, lock, opener>>
  BY DEF Alter
<1>2. /\ main \in [kind : {"absent", "empty", "other", "garbage", "db"}, pages : PageSet]
      /\ alterations \in Nat
  BY DEF DatabaseInv, DbTypes
<1> DEFINE pages == [main.pages EXCEPT !.flaws = main.pages.flaws \cup {"behavior"}]
<1>3. /\ pages \in PageSet
      /\ pages.version = main.pages.version /\ pages.benchmark = main.pages.benchmark
      /\ pages.facts = main.pages.facts
  <2>1. main.pages.flaws \cup {"behavior"} \in SUBSET Flaws
    BY <1>2 DEF PageSet, Flaws
  <2> QED
    BY <1>2, <2>1 DEF PageSet
<1>4. /\ main' = [main EXCEPT !.pages = pages]
      /\ alterations' \in Nat /\ alterations' /= 0 /\ alterations' /= alterations
  <2>1. alterations' \in Nat /\ alterations' /= 0 /\ alterations' /= alterations
    BY <1>1, <1>2
  <2>2. main' = [main EXCEPT !.pages = pages]
    BY <1>1
  <2> QED
    BY <2>1, <2>2
<1> HIDE DEF pages
<1>5. /\ Content'.version = Content.version /\ Content'.benchmark = Content.benchmark
      /\ Content'.facts = Content.facts
  BY <1>1, <1>2, <1>3, <1>4 DEF Content
<1>6. DbTypes' /\ main'.kind = main.kind
  BY <1>1, <1>2, <1>3, <1>4 DEF DatabaseInv, DbTypes
<1>7. LogInv' /\ LockInv' /\ StrangersInv'
  BY <1>1, <1>6 DEF DatabaseInv, LogInv, LockInv, StrangersInv
<1>8. \A q \in Openers : StepInv(q)'
  BY <1>1, <1>4, <1>5, <1>6 DEF DatabaseInv, StepInv, CurrentNow
<1>9. Spares
  BY <1>1, <1>4, <1>5, <1>6 DEF Spares, KeepsFacts, SparesStrangers
<1> QED
  BY <1>6, <1>7, <1>8, <1>9 DEF DatabaseInv

LEMMA DatabaseStep == DatabaseInv /\ [DbNext]_dbVars => DatabaseInv' /\ [Spares]_dbVars
<1> SUFFICES ASSUME DatabaseInv, [DbNext]_dbVars
             PROVE  DatabaseInv' /\ [Spares]_dbVars
  OBVIOUS
<1>1. CASE Alter
  BY <1>1, AlterKeeps
<1>2. ASSUME NEW p \in Openers,
             \/ Lock(p) \/ Prepare(p) \/ Refuse(p) \/ RemoveSidecar(p) \/ RemoveMain(p)
             \/ OpenEmpty(p) \/ FirstPage(p) \/ Create(p) \/ Migrate(p) \/ OpenCurrent(p)
             \/ Close(p) \/ Kill(p)
             \/ \E f \in Facts : Record(p, f)
      PROVE  DatabaseInv' /\ Spares
  <2>1. CASE Lock(p) \/ Prepare(p) \/ Refuse(p) \/ RemoveSidecar(p) \/ RemoveMain(p)
    BY <2>1, LockKeeps, PrepareKeeps, RefuseKeeps, RemoveSidecarKeeps, RemoveMainKeeps
  <2>2. CASE OpenEmpty(p) \/ FirstPage(p) \/ Create(p) \/ Migrate(p) \/ OpenCurrent(p)
    BY <2>2, OpenEmptyKeeps, FirstPageKeeps, CreateKeeps, MigrateKeeps, OpenCurrentKeeps
  <2>3. CASE Close(p) \/ Kill(p)
    BY <2>3, CloseKeeps, KillKeeps
  <2>4. CASE \E f \in Facts : Record(p, f)
    BY <2>4, RecordKeeps
  <2> QED
    BY <1>2, <2>1, <2>2, <2>3, <2>4
<1>3. CASE UNCHANGED dbVars
  <2>1. Content' = Content
    BY <1>3 DEF dbVars, Content
  <2>2. DbTypes' /\ LogInv' /\ LockInv' /\ StrangersInv'
    BY <1>3 DEF dbVars, DatabaseInv, DbTypes, LogInv, LockInv, StrangersInv
  <2>3. \A q \in Openers : StepInv(q)'
    BY <1>3, <2>1 DEF dbVars, DatabaseInv, StepInv, CurrentNow
  <2> QED
    BY <1>3, <2>2, <2>3 DEF DatabaseInv
<1> QED
  BY <1>1, <1>2, <1>3 DEF DbNext

(* Of the node-quality database: who writes holds the lock, the lock is given *)
(* back only with a current database or unchanged files, and at each step of  *)
(* an open the files are what the step relies on; for any number of           *)
(* processes, facts, kills and edits.                                         *)
THEOREM DatabaseInvariant == DbSpec => []DatabaseInv
<1> QED
  BY DatabaseInit, DatabaseStep, PTL DEF DbSpec

(* No open, reset or migration takes facts out of a database of version 6 or  *)
(* 7 or changes a file that is not recognized, and a store that opened holds  *)
(* exactly the schema of this version unless another program altered one.     *)
THEOREM DatabasesAreSafe == DbSpec => DatabaseSafe
<1>1. DatabaseInv' => OpenMeansCurrent'
  BY DEF DatabaseInv, StepInv, CurrentNow, OpenMeansCurrent
<1>2. DatabaseInv /\ [DbNext]_dbVars => [OpensSafely]_dbVars
  BY <1>1, DatabaseStep DEF OpensSafely, Spares
<1> QED
  BY <1>2, DatabaseInvariant, PTL DEF DbSpec, DatabaseSafe
=============================================================================
