----------------------- MODULE BackgroundWorkersProofs -----------------------
(***************************************************************************)
(* Why two background workers never select at the same time, and why the   *)
(* status on display is the one of the worker that is followed: for every  *)
(* number of workers, runtimes, status changes, crashes and lost requests. *)
(*                                                                         *)
(* As long as none of the mishaps has happened, at most one worker lives.  *)
(* It is the one the registry file names, but for the moment in which the  *)
(* manager waits for a worker that it has just started.                    *)
(***************************************************************************)
EXTENDS BackgroundWorkers, TLAPS

Worker == [st : {"unused", "starting", "writing", "up", "dead"}, epoch : Nat, cfg : Settings,
           gen : Nat, late : SUBSET Settings]
Manager ==
    [up : BOOLEAN, cfg : Settings, receipt : Nat, run : 0..MaxWorkers, child : 0..MaxWorkers,
     job : 0..MaxWorkers, answer : {"none", "snapshot", "retry", "gone"}, ansEpoch : Nat,
     ansGen : Nat, lastGen : Nat, stale : BOOLEAN,
     pc : {"idle", "ensure", "registered", "spawn", "wait", "initial", "stop", "kill"},
     after : {"none", "spawn", "leave", "quit"}, err : BOOLEAN]

BgTypeInv ==
    /\ epoch \in Nat /\ registry \in 0..Torn
    /\ wk \in [Workers -> Worker] /\ tui \in Manager
    /\ cli \in 0..MaxWorkers /\ mishap \subseteq {"removed", "orphan", "kill"} /\ losses \in Nat

Started(w) == w \in Workers => wk[w].st # "unused"

\* Whoever is known has been started; the stop command waits until its worker is gone; a
\* worker is replaced only when none is followed.
ManagerInv ==
    /\ Started(registry) /\ Started(tui.run) /\ Started(tui.child) /\ Started(tui.job)
    /\ Started(cli) /\ ~WorkerAlive(cli)
    /\ tui.pc # "idle" => tui.up
    /\ tui.pc \in {"spawn", "wait", "initial"} => tui.run = 0
    /\ ~tui.stale

\* An answer does not run ahead of the worker that gave it, and the dead stay dead.
AnswerInv ==
    WorkerAlive(tui.job) =>
        /\ tui.answer = "snapshot" => tui.ansGen <= wk[tui.job].gen
        /\ tui.answer # "gone"

\* One worker lives: the one that was just started, or the registered one, which is then the
\* one that is followed.
OneLives ==
    mishap = {} => \A w \in Workers : WorkerAlive(w) =>
        /\ tui.pc # "spawn"
        /\ tui.pc \in {"wait", "initial"} => w = tui.child
        /\ tui.pc # "wait" => w = registry
        /\ tui.pc \notin {"wait", "initial"} =>
              /\ tui.run # 0 => w = tui.run
              /\ tui.lastGen <= wk[w].gen

WorkersInv == BgTypeInv /\ ManagerInv /\ AnswerInv /\ OneLives

-----------------------------------------------------------------------------
(* What the steps are made of.                                             *)

Busy == {"spawn", "wait", "initial"}

\* No worker comes to life, none forgets what it published.
Ages ==
    /\ wk' \in [Workers -> Worker]
    /\ \A v \in Workers :
          /\ WorkerAlive(v)' => WorkerAlive(v) /\ wk[v].gen <= wk'[v].gen
          /\ Started(v) => Started(v)'

\* The manager does not touch what it knows of its worker.
Kept(r) ==
    /\ tui'.run = r.run /\ tui'.job = r.job /\ tui'.answer = r.answer /\ tui'.ansGen = r.ansGen
    /\ tui'.lastGen = r.lastGen /\ tui'.stale = r.stale /\ tui'.up = r.up

LEMMA SettingsIs == Off \in Settings
  BY DEF Off, Settings

LEMMA NoWorker == 0 \notin Workers /\ Torn \notin Workers /\ Workers \subseteq 0..Torn
                  /\ Workers \subseteq 0..MaxWorkers /\ 0 \in 0..MaxWorkers
                  /\ 0 \in 0..Torn
  BY WorkersAssumption DEF Workers, Torn

LEMMA UnusedIs == Unused \in Worker
  BY SettingsIs DEF Unused, Worker

LEMMA DeadIs == Dead \in Worker /\ Dead.st = "dead"
  BY DEF Dead, Unused, Worker, Settings, Off

LEMMA FreshIs ==
    /\ Fresh \in Manager /\ Fresh.run = 0 /\ Fresh.child = 0 /\ Fresh.job = 0
    /\ Fresh.lastGen = 0 /\ Fresh.answer = "none" /\ ~Fresh.stale /\ Fresh.pc = "idle"
  BY WorkersAssumption, SettingsIs DEF Fresh, Manager

\* A worker that dies, dies alone.
LEMMA WorkerGone ==
    ASSUME BgTypeInv, NEW w \in Workers, wk' = [wk EXCEPT ![w] = Dead]
    PROVE  /\ Ages /\ ~WorkerAlive(w)'
           /\ \A v \in Workers : v # w => wk'[v] = wk[v]
<1>1. wk' \in [Workers -> Worker] /\ wk'[w] = Dead /\ \A v \in Workers : v # w => wk'[v] = wk[v]
  BY DeadIs DEF BgTypeInv
<1>2. wk'[w].st = "dead"
  BY <1>1, DeadIs
<1>3. \A v \in Workers : wk[v].gen \in Nat
  BY DEF BgTypeInv, Worker
<1> QED BY <1>1, <1>2, <1>3 DEF Ages, WorkerAlive, Started

LEMMA WorkerKilled ==
    ASSUME BgTypeInv, NEW w, wk' = WithoutWorker(w)
    PROVE  /\ Ages /\ ~WorkerAlive(w)'
           /\ \A v \in Workers : v # w => wk'[v] = wk[v]
<1>1. CASE WorkerAlive(w)
  <2>1. w \in Workers /\ wk' = [wk EXCEPT ![w] = Dead]
    BY <1>1 DEF WorkerAlive, WithoutWorker
  <2> QED BY <2>1, WorkerGone
<1>2. CASE ~WorkerAlive(w)
  <2>1. wk' = wk
    BY <1>2 DEF WithoutWorker
  <2>2. \A v \in Workers : wk[v].gen \in Nat
    BY DEF BgTypeInv, Worker
  <2> QED BY <1>2, <2>1, <2>2 DEF Ages, WorkerAlive, Started, BgTypeInv
<1> QED BY <1>1, <1>2

\* A configured worker lives on and its status generation does not go back.
LEMMA WorkerConfigured ==
    ASSUME BgTypeInv, NEW w \in Workers, NEW cfg \in Settings, wk' = Configured(w, cfg)
    PROVE  Ages /\ \A v \in Workers : WorkerAlive(v) => WorkerAlive(v)'
<1> DEFINE g == IF wk[w].gen < MaxStatus THEN wk[w].gen + 1 ELSE wk[w].gen
           e == [wk[w] EXCEPT !.cfg = cfg, !.late = {}, !.gen = g]
<1>1. wk[w] \in Worker /\ wk[w].gen \in Nat
  BY DEF BgTypeInv, Worker
<1>2. g \in Nat /\ wk[w].gen <= g
  BY <1>1
<1>3. wk' = [wk EXCEPT ![w] = e]
  BY <1>1 DEF Configured, BgTypeInv, Worker
<1> HIDE DEF g
<1>4. e \in Worker /\ e.st = wk[w].st /\ e.gen = g
  BY <1>1, <1>2 DEF Worker
<1> HIDE DEF e
<1>5. wk' \in [Workers -> Worker] /\ wk'[w] = e /\ \A v \in Workers : v # w => wk'[v] = wk[v]
  BY <1>3, <1>4 DEF BgTypeInv
<1>6. \A v \in Workers : wk[v].gen \in Nat
  BY DEF BgTypeInv, Worker
<1> QED BY <1>2, <1>4, <1>5, <1>6 DEF Ages, WorkerAlive, Started

LEMMA WorkersStay ==
    ASSUME BgTypeInv, wk' = wk
    PROVE  Ages
<1>1. \A v \in Workers : wk[v].gen \in Nat
  BY DEF BgTypeInv, Worker
<1> QED BY <1>1 DEF Ages, WorkerAlive, Started, BgTypeInv

LEMMA EndsIs ==
    ASSUME NEW r \in Manager, NEW err \in BOOLEAN, Ends(r, err)
    PROVE  tui' \in Manager /\ tui'.pc = "idle" /\ tui'.child = 0 /\ Kept(r)
<1> DEFINE e == [r EXCEPT !.pc = "idle", !.after = "none", !.child = 0, !.err = err]
<1>1. /\ e \in Manager /\ e.pc = "idle" /\ e.child = 0 /\ e.run = r.run /\ e.job = r.job
      /\ e.answer = r.answer /\ e.ansGen = r.ansGen /\ e.lastGen = r.lastGen
      /\ e.stale = r.stale /\ e.up = r.up
  BY NoWorker DEF Manager
<1>2. tui' = e
  BY Zenon DEF Ends
<1> HIDE DEF e
<1> QED BY <1>1, <1>2 DEF Kept

\* The manager goes on with another step.
LEMMA GoesOn ==
    ASSUME NEW r \in Manager,
           NEW pc \in {"idle", "ensure", "registered", "spawn", "wait", "initial", "stop", "kill"},
           NEW after \in {"none", "spawn", "leave", "quit"},
           tui' = [r EXCEPT !.pc = pc, !.after = after]
    PROVE  tui' \in Manager /\ tui'.pc = pc /\ tui'.child = r.child /\ Kept(r)
<1> DEFINE e == [r EXCEPT !.pc = pc, !.after = after]
<1>1. /\ e \in Manager /\ e.pc = pc /\ e.child = r.child /\ e.run = r.run /\ e.job = r.job
      /\ e.answer = r.answer /\ e.ansGen = r.ansGen /\ e.lastGen = r.lastGen
      /\ e.stale = r.stale /\ e.up = r.up
  BY DEF Manager
<1>2. tui' = e
  BY Zenon
<1> HIDE DEF e
<1> QED BY <1>1, <1>2 DEF Kept

LEMMA RemovesIs ==
    ASSUME BgTypeInv, NEW seen, Removes(seen)
    PROVE  /\ registry' = 0 /\ mishap \subseteq mishap' /\ mishap' \subseteq {"removed", "orphan", "kill"}
           /\ mishap' = {} /\ WorkerAlive(registry) => registry = seen
  BY DEF Removes, BgTypeInv

-----------------------------------------------------------------------------
(* Steps that follow the same worker, or the registered one.               *)

LEMMA FollowStep ==
    ASSUME WorkersInv, BgTypeInv', Ages, UNCHANGED <<registry, cli>>, mishap \subseteq mishap',
           tui.pc \notin Busy, tui'.pc \notin Busy, tui'.pc # "idle" => tui'.up, ~tui'.stale,
           Started(tui'.child), Started(tui'.job),
           tui'.run \in {0, tui.run} \/ (tui.run = 0 /\ tui'.run = registry),
           mishap = {} => \A w \in Workers : WorkerAlive(w) => tui'.lastGen <= wk[w].gen,
           WorkerAlive(tui'.job) =>
              /\ tui'.answer = "snapshot" => tui'.ansGen <= wk[tui'.job].gen
              /\ tui'.answer # "gone"
    PROVE  WorkersInv'
<1> USE DEF WorkersInv
<1>1. \A w \in Workers : wk[w].gen \in Nat /\ wk'[w].gen \in Nat
  BY DEF BgTypeInv, Ages, Worker
<1>2. tui'.lastGen \in Nat /\ tui'.ansGen \in Nat
  BY DEF BgTypeInv, Manager
<1>3. Started(tui'.run)
  BY NoWorker DEF ManagerInv, Started
<1>4. ManagerInv'
  BY <1>3 DEF ManagerInv, Ages, Started, WorkerAlive, Busy
<1>5. AnswerInv'
  BY <1>1, <1>2 DEF AnswerInv, Ages, WorkerAlive
<1>6. OneLives'
  <2> SUFFICES ASSUME mishap' = {}, NEW w \in Workers, WorkerAlive(w)'
               PROVE  w = registry /\ (tui'.run # 0 => w = tui'.run) /\ tui'.lastGen <= wk'[w].gen
    BY DEF OneLives, Busy
  <2>1. WorkerAlive(w) /\ wk[w].gen <= wk'[w].gen /\ mishap = {}
    BY DEF Ages
  <2>2. w = registry /\ (tui.run # 0 => w = tui.run) /\ tui'.lastGen <= wk[w].gen
    BY <2>1 DEF OneLives, Busy
  <2> QED BY <1>1, <1>2, <2>1, <2>2
<1> QED BY <1>4, <1>5, <1>6

LEMMA QuietStep ==
    ASSUME WorkersInv, BgTypeInv', Ages, UNCHANGED <<registry, cli>>, mishap \subseteq mishap',
           Kept(tui), Started(tui'.child), tui.pc \notin Busy, tui'.pc \notin Busy,
           tui'.pc # "idle" => tui.up
    PROVE  WorkersInv'
<1>1. mishap = {} => \A w \in Workers : WorkerAlive(w) => tui'.lastGen <= wk[w].gen
  BY DEF WorkersInv, OneLives, Busy, Kept
<1>2. /\ tui'.pc # "idle" => tui'.up
      /\ ~tui'.stale /\ Started(tui'.job) /\ tui'.run \in {0, tui.run}
  BY DEF WorkersInv, ManagerInv, Kept
<1>3. WorkerAlive(tui'.job) =>
              /\ tui'.answer = "snapshot" => tui'.ansGen <= wk[tui'.job].gen
              /\ tui'.answer # "gone"
  BY DEF WorkersInv, AnswerInv, Kept
<1> QED BY <1>1, <1>2, <1>3, FollowStep

\* A manager that starts anew follows nobody; an unregistered worker is a mishap.
LEMMA FreshStep ==
    ASSUME WorkersInv, BgTypeInv', Ages, UNCHANGED <<registry, cli>>, mishap \subseteq mishap',
           tui'.run = 0, tui'.child = 0, tui'.job = 0, tui'.lastGen = 0, tui'.answer = "none",
           ~tui'.stale, tui'.pc \notin Busy, tui'.pc # "idle" => tui'.up,
           \A w \in Workers :
              tui.pc \in {"wait", "initial"} /\ w = tui.child /\ WorkerAlive(w)' => mishap' # {}
    PROVE  WorkersInv'
<1> USE DEF WorkersInv
<1>1. ManagerInv'
  BY NoWorker DEF ManagerInv, Ages, Started, WorkerAlive, Busy
<1>2. AnswerInv'
  BY NoWorker DEF AnswerInv, WorkerAlive
<1>3. OneLives'
  <2> SUFFICES ASSUME mishap' = {}, NEW w \in Workers, WorkerAlive(w)'
               PROVE  w = registry /\ 0 <= wk'[w].gen
    BY DEF OneLives, Busy
  <2>1. WorkerAlive(w) /\ mishap = {} /\ wk'[w].gen \in Nat
    BY DEF Ages, Worker
  <2>2. tui.pc \notin {"wait", "initial"}
    BY <2>1 DEF OneLives
  <2> QED BY <2>1, <2>2 DEF OneLives
<1> QED BY <1>1, <1>2, <1>3

\* A step of a worker that lives on or dies.
LEMMA WorkerStep ==
    ASSUME WorkersInv, BgTypeInv', Ages, UNCHANGED <<registry, tui, mishap>>,
           NEW c, cli' = c, Started(c), ~WorkerAlive(c)'
    PROVE  WorkersInv'
<1> USE DEF WorkersInv
<1>1. ManagerInv'
  BY DEF ManagerInv, Ages, Started, WorkerAlive
<1>2. \A w \in Workers : wk[w].gen \in Nat /\ wk'[w].gen \in Nat
  BY DEF BgTypeInv, Ages, Worker
<1>3. tui.lastGen \in Nat /\ tui.ansGen \in Nat
  BY DEF BgTypeInv, Manager
<1>4. AnswerInv'
  BY <1>2, <1>3 DEF AnswerInv, Ages, WorkerAlive
<1>5. OneLives'
  <2> SUFFICES ASSUME mishap' = {}, NEW w \in Workers, WorkerAlive(w)'
               PROVE  /\ tui.pc # "spawn"
                      /\ tui.pc \in {"wait", "initial"} => w = tui.child
                      /\ tui.pc # "wait" => w = registry
                      /\ tui.pc \notin {"wait", "initial"} =>
                           (tui.run # 0 => w = tui.run) /\ tui.lastGen <= wk'[w].gen
    BY DEF OneLives
  <2>1. WorkerAlive(w) /\ wk[w].gen <= wk'[w].gen
    BY DEF Ages
  <2> QED BY <1>2, <1>3, <2>1 DEF OneLives
<1> QED BY <1>1, <1>4, <1>5

-----------------------------------------------------------------------------
(* The user and the life of the TUI.                                       *)

LEMMA TuiStartsStep ==
    ASSUME WorkersInv, NEW cfg \in Settings, TuiStarts(cfg)
    PROVE  WorkersInv'
<1> DEFINE pc == IF cfg = Off THEN "idle" ELSE "ensure"
           e == [Fresh EXCEPT !.up = TRUE, !.cfg = cfg, !.receipt = epoch, !.pc = pc]
<1> USE DEF WorkersInv
<1>1. /\ UNCHANGED <<epoch, registry, wk, cli, mishap, losses>> /\ epoch \in Nat /\ ~tui.up
  BY DEF TuiStarts, Worked, BgTypeInv
<1>2. PICK f \in Manager : f = Fresh
  BY FreshIs
<1>3. pc \in {"idle", "ensure"}
  OBVIOUS
<1>4. tui' = [f EXCEPT !.up = TRUE, !.cfg = cfg, !.receipt = epoch, !.pc = pc]
  BY <1>2, Zenon DEF TuiStarts
<1> HIDE DEF pc
<1> DEFINE g == [f EXCEPT !.up = TRUE, !.cfg = cfg, !.receipt = epoch, !.pc = pc]
<1>5. /\ g \in Manager /\ g.pc = pc /\ g.up /\ g.run = f.run /\ g.child = f.child
      /\ g.job = f.job /\ g.answer = f.answer /\ g.lastGen = f.lastGen /\ g.stale = f.stale
  BY <1>1, <1>3 DEF Manager
<1>6. tui' = g
  BY <1>4
<1> HIDE DEF g
<1>7. BgTypeInv' /\ Ages
  BY <1>1, <1>5, <1>6, WorkersStay DEF BgTypeInv
<1>8. tui.pc = "idle"
  BY <1>1 DEF ManagerInv
<1> QED BY <1>1, <1>2, <1>3, <1>5, <1>6, <1>7, <1>8, FreshIs, FreshStep DEF Busy

LEMMA ReloadStep ==
    ASSUME WorkersInv, NEW ok \in BOOLEAN, Reload(ok)
    PROVE  WorkersInv'
<1> USE DEF WorkersInv
<1>1. UNCHANGED <<registry, wk, cli, mishap, losses>> /\ epoch' \in Nat /\ tui.pc = "idle"
  BY DEF Reload, Idle, BgTypeInv
<1>2. PICK n \in Nat : tui' = [tui EXCEPT !.receipt = n]
  BY DEF Reload, BgTypeInv
<1> DEFINE e == [tui EXCEPT !.receipt = n]
<1>3. /\ e \in Manager /\ e.pc = tui.pc /\ e.child = tui.child /\ e.run = tui.run /\ e.job = tui.job
      /\ e.answer = tui.answer /\ e.ansGen = tui.ansGen /\ e.lastGen = tui.lastGen
      /\ e.stale = tui.stale /\ e.up = tui.up
  BY DEF Manager, BgTypeInv
<1>4. tui' = e
  BY <1>2
<1> HIDE DEF e
<1>5. tui' \in Manager /\ tui'.pc = "idle" /\ tui'.child = tui.child /\ Kept(tui)
  BY <1>1, <1>3, <1>4 DEF Kept
<1>6. BgTypeInv' /\ Ages
  BY <1>1, <1>5, WorkersStay DEF BgTypeInv
<1>7. Started(tui'.child)
  BY <1>5 DEF ManagerInv
<1> QED BY <1>1, <1>5, <1>6, <1>7, QuietStep DEF Busy

\* An operation of an idle manager that does not touch a worker.
LEMMA OperationStep ==
    ASSUME WorkersInv, UNCHANGED <<epoch, registry, wk, cli, mishap, losses>>,
           tui.pc \notin Busy, tui.up, tui' \in Manager, Kept(tui), tui'.pc \notin Busy,
           tui'.child \in {0, tui.child}
    PROVE  WorkersInv'
<1>1. BgTypeInv' /\ Ages
  BY WorkersStay DEF BgTypeInv, WorkersInv
<1>2. Started(tui'.child)
  BY NoWorker DEF WorkersInv, ManagerInv, Started
<1> QED BY <1>1, <1>2, QuietStep

LEMMA ProceedIs ==
    ASSUME tui \in Manager, NEW r \in Manager, Proceed(r)
    PROVE  tui' \in Manager /\ tui'.pc \in {"idle", "ensure"} /\ tui'.child \in {0, r.child} /\ Kept(r)
<1>1. CASE tui.receipt = 0
  <2>1. PICK err \in BOOLEAN : Ends(r, err)
    BY <1>1 DEF Proceed
  <2> QED BY <2>1, EndsIs
<1>2. CASE tui.receipt # 0
  <2> DEFINE e == [r EXCEPT !.pc = "ensure", !.after = "none", !.err = FALSE]
  <2>1. /\ e \in Manager /\ e.pc = "ensure" /\ e.child = r.child /\ e.run = r.run /\ e.job = r.job
        /\ e.answer = r.answer /\ e.ansGen = r.ansGen /\ e.lastGen = r.lastGen
        /\ e.stale = r.stale /\ e.up = r.up
    BY DEF Manager
  <2>2. tui' = e
    BY <1>2, Zenon DEF Proceed
  <2> HIDE DEF e
  <2> QED BY <2>1, <2>2 DEF Kept
<1> QED BY <1>1, <1>2

\* A copy of the manager's state that knows of its worker what the manager knows.
Alike(r) ==
    /\ r \in Manager /\ r.child = tui.child /\ r.run = tui.run /\ r.job = tui.job
    /\ r.answer = tui.answer /\ r.ansGen = tui.ansGen /\ r.lastGen = tui.lastGen
    /\ r.stale = tui.stale /\ r.up = tui.up /\ r.pc = tui.pc

LEMMA AlikeKept ==
    ASSUME NEW r, Alike(r), Kept(r)
    PROVE  Kept(tui)
  BY DEF Alike, Kept

LEMMA Toggled ==
    ASSUME tui \in Manager, NEW cfg \in Settings
    PROVE  Alike([tui EXCEPT !.cfg = cfg])
  BY DEF Manager, Alike

\* The manager is to stop its worker.
LEMMA StopNext ==
    ASSUME NEW r \in Manager, Alike(r), NEW after \in {"none", "spawn", "leave", "quit"},
           tui' = [r EXCEPT !.pc = "stop", !.after = after]
    PROVE  tui' \in Manager /\ tui'.pc = "stop" /\ tui'.child = tui.child /\ Kept(tui)
<1>1. tui' \in Manager /\ tui'.pc = "stop" /\ tui'.child = r.child /\ Kept(r)
  BY GoesOn
<1> QED BY <1>1, AlikeKept DEF Alike

LEMMA ToggleSelectStep ==
    ASSUME WorkersInv, ToggleSelect
    PROVE  WorkersInv'
<1>1. tui \in Manager /\ tui.up /\ tui.pc = "idle"
  BY DEF WorkersInv, BgTypeInv, ToggleSelect, Idle
<1>2. UNCHANGED <<epoch, registry, wk, cli, mishap, losses>>
  BY DEF ToggleSelect, Worked
<1>3. PICK r \in Manager : r = [tui EXCEPT !.cfg.sel = ~@] /\ Alike(r)
  <2> DEFINE c == [tui.cfg EXCEPT !.sel = ~@]
  <2>1. c \in Settings
    BY <1>1 DEF Manager, Settings
  <2>2. [tui EXCEPT !.cfg.sel = ~@] = [tui EXCEPT !.cfg = c]
    BY <1>1 DEF Manager, Settings
  <2> HIDE DEF c
  <2>3. Alike([tui EXCEPT !.cfg = c])
    BY <1>1, <2>1, Toggled
  <2> QED BY <2>2, <2>3, Zenon DEF Alike
<1>4. \/ Proceed(r)
      \/ tui' = r
      \/ tui' = [r EXCEPT !.pc = "stop", !.after = "none"]
  BY <1>3, Zenon DEF ToggleSelect
<1>5. tui' \in Manager /\ tui'.pc \notin Busy /\ tui'.child \in {0, tui.child} /\ Kept(tui)
  <2>1. CASE Proceed(r)
    BY <1>1, <1>3, <2>1, ProceedIs, AlikeKept DEF Alike, Busy
  <2>2. CASE tui' = r
    BY <1>1, <1>3, <2>2 DEF Alike, Kept, Busy
  <2>3. CASE tui' = [r EXCEPT !.pc = "stop", !.after = "none"]
    BY <1>3, <2>3, StopNext DEF Busy
  <2> QED BY <1>4, <2>1, <2>2, <2>3
<1> QED BY <1>1, <1>2, <1>5, OperationStep DEF Busy

LEMMA ToggleProbeStep ==
    ASSUME WorkersInv, ToggleProbe
    PROVE  WorkersInv'
<1>1. tui \in Manager /\ tui.up /\ tui.pc = "idle"
  BY DEF WorkersInv, BgTypeInv, ToggleProbe, Idle
<1>2. UNCHANGED <<epoch, registry, wk, cli, mishap, losses>>
  BY DEF ToggleProbe, Worked
<1>3. PICK r \in Manager : r = [tui EXCEPT !.cfg.probe = ~@] /\ Alike(r)
  <2> DEFINE c == [tui.cfg EXCEPT !.probe = ~@]
  <2>1. c \in Settings
    BY <1>1 DEF Manager, Settings
  <2>2. [tui EXCEPT !.cfg.probe = ~@] = [tui EXCEPT !.cfg = c]
    BY <1>1 DEF Manager, Settings
  <2> HIDE DEF c
  <2>3. Alike([tui EXCEPT !.cfg = c])
    BY <1>1, <2>1, Toggled
  <2> QED BY <2>2, <2>3, Zenon DEF Alike
<1>4. \/ Proceed(r)
      \/ tui' = [r EXCEPT !.pc = "stop", !.after = "none"]
  BY <1>3, Zenon DEF ToggleProbe
<1>5. tui' \in Manager /\ tui'.pc \notin Busy /\ tui'.child \in {0, tui.child} /\ Kept(tui)
  <2>1. CASE Proceed(r)
    BY <1>1, <1>3, <2>1, ProceedIs, AlikeKept DEF Alike, Busy
  <2>2. CASE tui' = [r EXCEPT !.pc = "stop", !.after = "none"]
    BY <1>3, <2>2, StopNext DEF Busy
  <2> QED BY <1>4, <2>1, <2>2
<1> QED BY <1>1, <1>2, <1>5, OperationStep DEF Busy

LEMMA QuitStep ==
    ASSUME WorkersInv, Quit
    PROVE  WorkersInv'
<1>1. tui \in Manager /\ tui.up /\ tui.pc = "idle" /\ Alike(tui)
  BY DEF WorkersInv, BgTypeInv, Quit, Idle, Alike
<1>2. UNCHANGED <<epoch, registry, wk, cli, mishap, losses>>
  BY DEF Quit, Worked
<1>3. tui' = [tui EXCEPT !.pc = "stop", !.after = "quit"]
  BY DEF Quit
<1>4. tui' \in Manager /\ tui'.pc = "stop" /\ tui'.child = tui.child /\ Kept(tui)
  BY <1>1, <1>3, StopNext
<1> QED BY <1>1, <1>2, <1>4, OperationStep DEF Busy

LEMMA LeaveStep ==
    ASSUME WorkersInv, Leave
    PROVE  WorkersInv'
<1>1. tui \in Manager /\ tui.up /\ tui.pc = "idle"
  BY DEF WorkersInv, BgTypeInv, Leave, Idle
<1>2. UNCHANGED <<epoch, registry, wk, cli, mishap, losses>>
  BY DEF Leave, Worked
<1>3. \/ \E err \in BOOLEAN : Ends(tui, err)
      \/ tui' = [tui EXCEPT !.pc = "ensure", !.after = "leave"]
      \/ tui' = Fresh
  BY DEF Leave
<1>4. CASE tui' = Fresh
  <2>1. BgTypeInv' /\ Ages
    BY <1>2, <1>4, FreshIs, WorkersStay DEF WorkersInv, BgTypeInv
  <2> QED BY <1>1, <1>2, <1>4, <2>1, FreshIs, FreshStep DEF Busy
<1>5. CASE tui' # Fresh
  <2>1. tui' \in Manager /\ tui'.pc \notin Busy /\ tui'.child \in {0, tui.child} /\ Kept(tui)
    BY <1>1, <1>3, <1>5, EndsIs, GoesOn DEF Busy
  <2> QED BY <1>1, <1>2, <2>1, OperationStep DEF Busy
<1> QED BY <1>4, <1>5

LEMMA TuiDiesStep ==
    ASSUME WorkersInv, TuiDies
    PROVE  WorkersInv'
<1>1. /\ tui' = Fresh /\ UNCHANGED <<epoch, registry, wk, cli>> /\ losses' \in Nat
      /\ mishap' = IF WorkerAlive(tui.child) THEN mishap \cup {"orphan"} ELSE mishap
  BY DEF TuiDies, Loss, WorkersInv, BgTypeInv
<1>2. BgTypeInv' /\ Ages
  BY <1>1, FreshIs, WorkersStay DEF WorkersInv, BgTypeInv
<1>3. \A w \in Workers : tui.pc \in {"wait", "initial"} /\ w = tui.child /\ WorkerAlive(w)' => mishap' # {}
  BY <1>1 DEF WorkerAlive
<1> QED BY <1>1, <1>2, <1>3, FreshIs, FreshStep DEF Busy

-----------------------------------------------------------------------------
(* ensure                                                                  *)

\* A request that is not answered costs at most a place in the queue of the worker.
LEMMA UnansweredIs ==
    ASSUME BgTypeInv, NEW w, NEW cfg \in Settings, Unanswered(w, cfg)
    PROVE  Ages /\ losses' \in Nat /\ \A v \in Workers : WorkerAlive(v)' <=> WorkerAlive(v)
<1>1. losses' \in Nat
  BY DEF Unanswered, Loss, BgTypeInv
<1>2. CASE wk' = wk
  BY <1>1, <1>2, WorkersStay DEF WorkerAlive
<1>3. CASE Answers(w) /\ wk' = [wk EXCEPT ![w].late = {cfg}]
  <2> DEFINE e == [wk[w] EXCEPT !.late = {cfg}]
  <2>1. w \in Workers /\ wk[w] \in Worker
    BY <1>3 DEF Answers, BgTypeInv
  <2>2. e \in Worker /\ e.st = wk[w].st /\ e.gen = wk[w].gen
    BY <2>1 DEF Worker
  <2>3. wk' = [wk EXCEPT ![w] = e]
    BY <1>3, <2>1 DEF BgTypeInv, Worker
  <2> HIDE DEF e
  <2>4. wk' \in [Workers -> Worker] /\ wk'[w] = e /\ \A v \in Workers : v # w => wk'[v] = wk[v]
    BY <2>1, <2>2, <2>3 DEF BgTypeInv
  <2>5. \A v \in Workers : wk[v].gen \in Nat
    BY DEF BgTypeInv, Worker
  <2> QED BY <1>1, <2>1, <2>2, <2>4, <2>5 DEF Ages, WorkerAlive, Started
<1> QED BY <1>2, <1>3 DEF Unanswered

LEMMA AcceptsStep ==
    ASSUME WorkersInv, NEW w \in Workers, w = tui.run \/ (tui.run = 0 /\ w = registry),
           tui.pc \in {"ensure", "registered"}, Accepts(w),
           wk' = Configured(w, tui.cfg), Worked, UNCHANGED losses
    PROVE  WorkersInv'
<1>1. tui \in Manager /\ tui.up /\ tui.pc \notin Busy
  BY DEF WorkersInv, BgTypeInv, ManagerInv, Busy
<1>2. Ages
  BY <1>1, WorkerConfigured DEF WorkersInv, Manager
<1>3. tui' \in Manager => BgTypeInv'
  BY <1>2 DEF WorkersInv, BgTypeInv, Worked, Ages
<1>4. CASE tui' = Fresh
  BY <1>1, <1>2, <1>3, <1>4, FreshIs, FreshStep DEF Busy, Worked
<1>5. CASE tui' # Fresh
  <2>1. w \in 0..MaxWorkers
    BY NoWorker
  <2>2. PICK r \in Manager :
           /\ r = [tui EXCEPT !.run = w]
           /\ r.run = w /\ r.child = tui.child /\ r.job = tui.job /\ r.answer = tui.answer
           /\ r.ansGen = tui.ansGen /\ r.lastGen = tui.lastGen /\ r.stale = tui.stale /\ r.up = tui.up
    <3> DEFINE e == [tui EXCEPT !.run = w]
    <3>1. /\ e \in Manager /\ e.run = w /\ e.child = tui.child /\ e.job = tui.job
          /\ e.answer = tui.answer /\ e.ansGen = tui.ansGen /\ e.lastGen = tui.lastGen
          /\ e.stale = tui.stale /\ e.up = tui.up
      BY <1>1, <2>1 DEF Manager
    <3> QED BY <3>1, Zenon
  <2>3. tui' \in Manager /\ tui'.pc \in {"idle", "stop"} /\ tui'.child \in {0, tui.child} /\ Kept(r)
    <3>1. CASE Ends([tui EXCEPT !.run = w], FALSE)
      <4>1. PICK err \in BOOLEAN : Ends(r, err)
        BY <2>2, <3>1, Zenon
      <4> QED BY <4>1, EndsIs
    <3>2. CASE tui' = [tui EXCEPT !.run = w, !.pc = "stop",
                                  !.after = IF @ = "leave" THEN "leave" ELSE "spawn"]
      <4> DEFINE a == IF tui.after = "leave" THEN "leave" ELSE "spawn"
      <4>1. a \in {"none", "spawn", "leave", "quit"}
        OBVIOUS
      <4>2. [tui EXCEPT !.run = w, !.pc = "stop", !.after = IF @ = "leave" THEN "leave" ELSE "spawn"]
            = [r EXCEPT !.pc = "stop", !.after = a]
        BY <1>1, <2>1, <2>2 DEF Manager
      <4>3. tui' = [r EXCEPT !.pc = "stop", !.after = a]
        BY <3>2, <4>2
      <4> HIDE DEF a
      <4> QED BY <2>2, <4>1, <4>3, GoesOn
    <3> QED BY <1>5, <3>1, <3>2 DEF Accepts
  <2>4. UNCHANGED <<registry, cli, mishap>> /\ BgTypeInv'
    BY <1>3, <2>3 DEF Worked
  <2>5. /\ tui'.run = w /\ tui'.up /\ ~tui'.stale /\ tui'.job = tui.job /\ tui'.answer = tui.answer
        /\ tui'.ansGen = tui.ansGen /\ tui'.lastGen = tui.lastGen
    BY <1>1, <2>2, <2>3 DEF Kept, WorkersInv, ManagerInv
  <2>6. Started(tui'.child) /\ Started(tui'.job) /\ tui'.pc \notin Busy
    BY <2>3, <2>5, NoWorker DEF WorkersInv, ManagerInv, Started, Busy
  <2>7. mishap = {} => \A v \in Workers : WorkerAlive(v) => tui'.lastGen <= wk[v].gen
    BY <1>1, <2>5 DEF WorkersInv, OneLives, Busy
  <2>8. WorkerAlive(tui'.job) =>
              /\ tui'.answer = "snapshot" => tui'.ansGen <= wk[tui'.job].gen
              /\ tui'.answer # "gone"
    BY <2>5 DEF WorkersInv, AnswerInv
  <2> QED BY <1>1, <1>2, <2>4, <2>5, <2>6, <2>7, <2>8, FollowStep
<1> QED BY <1>4, <1>5

\* Once nobody lives, any step of the manager will do.
LEMMA NobodyStep ==
    ASSUME WorkersInv, BgTypeInv', Ages, UNCHANGED cli,
           Started(registry'), Started(tui'.run), Started(tui'.child),
           tui'.job = 0 \/ (tui'.job = tui.job /\ tui'.answer = tui.answer /\ tui'.ansGen = tui.ansGen),
           tui'.pc # "idle" => tui'.up, tui'.pc \in Busy => tui'.run = 0, ~tui'.stale,
           mishap' = {} => \A w \in Workers : ~WorkerAlive(w)'
    PROVE  WorkersInv'
<1> USE DEF WorkersInv
<1>1. Started(tui'.job)
  BY NoWorker DEF ManagerInv, Started
<1>2. ManagerInv'
  BY <1>1 DEF ManagerInv, Ages, Started, WorkerAlive, Busy
<1>3. \A w \in Workers : wk[w].gen \in Nat /\ wk'[w].gen \in Nat
  BY DEF BgTypeInv, Ages, Worker
<1>4. tui'.ansGen \in Nat
  BY DEF BgTypeInv, Manager
<1>5. AnswerInv'
  <2>1. CASE tui'.job = 0
    BY <2>1, NoWorker DEF AnswerInv, WorkerAlive
  <2>2. CASE tui'.job = tui.job /\ tui'.answer = tui.answer /\ tui'.ansGen = tui.ansGen
    BY <1>3, <1>4, <2>2 DEF AnswerInv, Ages, WorkerAlive
  <2> QED BY <2>1, <2>2
<1>6. OneLives'
  BY DEF OneLives
<1> QED BY <1>2, <1>5, <1>6

LEMMA EnsureFollowedStep ==
    ASSUME WorkersInv, EnsureFollowed
    PROVE  WorkersInv'
<1>1. /\ tui \in Manager /\ tui.up /\ tui.pc = "ensure" /\ tui.run # 0 /\ tui.cfg \in Settings
      /\ tui.run \in 0..MaxWorkers
  BY DEF WorkersInv, BgTypeInv, ManagerInv, EnsureFollowed, Manager
<1>2. Worked
  BY DEF EnsureFollowed
<1>3. CASE /\ Answers(tui.run) /\ wk' = Configured(tui.run, tui.cfg)
           /\ Accepts(tui.run) /\ UNCHANGED losses
  BY <1>1, <1>2, <1>3, AcceptsStep DEF Answers
<1>4. CASE /\ Unanswered(tui.run, tui.cfg)
           /\ IF WorkerAlive(tui.run) THEN Ends(tui, TRUE)
              ELSE tui' = [tui EXCEPT !.run = 0, !.pc = "registered"]
  <2>1. Ages /\ losses' \in Nat
    BY <1>1, <1>4, UnansweredIs DEF WorkersInv
  <2>2. tui' \in Manager => BgTypeInv'
    BY <1>2, <2>1 DEF WorkersInv, BgTypeInv, Worked, Ages
  <2>3. CASE WorkerAlive(tui.run)
    <3>1. PICK err \in BOOLEAN : Ends(tui, err)
      BY <1>4, <2>3
    <3>2. tui' \in Manager /\ tui'.pc = "idle" /\ tui'.child = 0 /\ Kept(tui)
      BY <1>1, <3>1, EndsIs
    <3>3. Started(tui'.child)
      BY <3>2, NoWorker DEF Started
    <3> QED BY <1>1, <1>2, <2>1, <2>2, <3>2, <3>3, QuietStep DEF Busy, Worked
  <2>4. CASE ~WorkerAlive(tui.run)
    <3> DEFINE e == [tui EXCEPT !.run = 0, !.pc = "registered"]
    <3>1. /\ e \in Manager /\ e.pc = "registered" /\ e.child = tui.child /\ e.run = 0
          /\ e.job = tui.job /\ e.answer = tui.answer /\ e.ansGen = tui.ansGen
          /\ e.lastGen = tui.lastGen /\ e.stale = tui.stale /\ e.up = tui.up
      BY <1>1, NoWorker DEF Manager
    <3>2. tui' = e
      BY <1>4, <2>4
    <3> HIDE DEF e
    <3>3. /\ Started(tui'.child) /\ Started(tui'.job) /\ ~tui'.stale /\ tui'.run = 0
          /\ tui'.pc \notin Busy /\ tui.pc \notin Busy /\ tui'.up
      BY <1>1, <3>1, <3>2 DEF WorkersInv, ManagerInv, Busy
    <3>4. mishap = {} => \A v \in Workers : WorkerAlive(v) => tui'.lastGen <= wk[v].gen
      BY <1>1, <3>1, <3>2 DEF WorkersInv, OneLives
    <3>5. WorkerAlive(tui'.job) =>
              /\ tui'.answer = "snapshot" => tui'.ansGen <= wk[tui'.job].gen
              /\ tui'.answer # "gone"
      BY <3>1, <3>2 DEF WorkersInv, AnswerInv
    <3>6. UNCHANGED <<registry, cli, mishap>> /\ BgTypeInv'
      BY <1>2, <2>2, <3>1, <3>2 DEF Worked
    <3> QED BY <2>1, <3>3, <3>4, <3>5, <3>6, FollowStep
  <2> QED BY <2>3, <2>4
<1> QED BY <1>3, <1>4 DEF EnsureFollowed

\* Without a live worker in the registry there is none at all.
LEMMA EnsureRegisteredStep ==
    ASSUME WorkersInv, EnsureRegistered
    PROVE  WorkersInv'
<1> DEFINE e == [tui EXCEPT !.pc = "spawn"]
<1>1. /\ tui \in Manager /\ tui.up /\ tui.pc \in {"ensure", "registered"} /\ tui.run = 0
      /\ tui.cfg \in Settings /\ tui.pc \notin Busy
  BY DEF WorkersInv, BgTypeInv, ManagerInv, EnsureRegistered, Manager, Busy
<1>2. /\ e \in Manager /\ e.pc = "spawn" /\ e.child = tui.child /\ e.run = tui.run
      /\ e.job = tui.job /\ e.answer = tui.answer /\ e.ansGen = tui.ansGen
      /\ e.stale = tui.stale /\ e.up = tui.up
  BY <1>1 DEF Manager
<1> HIDE DEF e
<1>3. mishap = {} => \A w \in Workers : WorkerAlive(w) => w = registry
  BY <1>1 DEF WorkersInv, OneLives
<1>4. ASSUME tui' = e, BgTypeInv', Ages, UNCHANGED cli, registry' \in {0, registry},
             mishap' = {} => mishap = {}, ~WorkerAlive(registry)
      PROVE  WorkersInv'
  <2>1. mishap' = {} => \A w \in Workers : ~WorkerAlive(w)'
    BY <1>3, <1>4 DEF Ages
  <2>2. Started(registry') /\ Started(tui'.run) /\ Started(tui'.child) /\ ~tui'.stale
    BY <1>2, <1>4, NoWorker DEF WorkersInv, ManagerInv, Started
  <2> QED BY <1>1, <1>2, <1>4, <2>1, <2>2, NobodyStep
<1>5. ASSUME NEW err \in BOOLEAN, Ends(tui, err), Ages, losses' \in Nat, Worked
      PROVE  WorkersInv'
  <2>1. tui' \in Manager /\ tui'.pc = "idle" /\ tui'.child = 0 /\ Kept(tui)
    BY <1>1, <1>5, EndsIs
  <2>2. Started(tui'.child) /\ BgTypeInv'
    BY <1>5, <2>1, NoWorker DEF Started, WorkersInv, BgTypeInv, Worked, Ages
  <2> QED BY <1>1, <1>5, <2>1, <2>2, QuietStep DEF Busy, Worked
<1>6. CASE registry = Torn /\ Ends(tui, TRUE) /\ Worked /\ UNCHANGED <<wk, losses>>
  <2>1. Ages /\ losses' \in Nat
    BY <1>6, WorkersStay DEF WorkersInv, BgTypeInv
  <2>2. PICK err \in BOOLEAN : Ends(tui, err)
    BY <1>6
  <2> QED BY <1>5, <1>6, <2>1, <2>2
<1>7. CASE registry = 0 /\ tui' = e /\ Worked /\ UNCHANGED <<wk, losses>>
  <2>1. Ages /\ BgTypeInv'
    BY <1>2, <1>7, WorkersStay DEF WorkersInv, BgTypeInv, Worked
  <2>2. ~WorkerAlive(registry)
    BY <1>7, NoWorker DEF WorkerAlive
  <2> QED BY <1>4, <1>7, <2>1, <2>2 DEF Worked
<1>8. CASE /\ Answers(registry) /\ wk' = Configured(registry, tui.cfg)
           /\ Accepts(registry) /\ Worked /\ UNCHANGED losses
  <2>1. registry \in Workers
    BY <1>8 DEF Answers
  <2> QED BY <1>1, <1>8, <2>1, AcceptsStep
<1>9. CASE /\ registry \in Workers /\ Unanswered(registry, tui.cfg)
           /\ IF WorkerAlive(registry) THEN Ends(tui, TRUE) /\ Worked
              ELSE tui' = e /\ Removes(registry) /\ UNCHANGED <<epoch, cli>>
  <2>1. Ages /\ losses' \in Nat
    BY <1>1, <1>9, UnansweredIs DEF WorkersInv
  <2>2. CASE WorkerAlive(registry)
    <3>1. PICK err \in BOOLEAN : Ends(tui, err)
      BY <1>9, <2>2
    <3> QED BY <1>5, <1>9, <2>1, <2>2, <3>1
  <2>3. CASE ~WorkerAlive(registry)
    <3>1. /\ registry' = 0 /\ mishap \subseteq mishap' /\ mishap' \subseteq {"removed", "orphan", "kill"}
          /\ tui' = e /\ UNCHANGED <<epoch, cli>>
      BY <1>9, <2>3, RemovesIs DEF WorkersInv
    <3>2. BgTypeInv'
      BY <1>2, <2>1, <3>1, NoWorker DEF WorkersInv, BgTypeInv, Ages
    <3> QED BY <1>4, <2>1, <2>3, <3>1, <3>2
  <2> QED BY <2>2, <2>3
<1> QED BY <1>6, <1>7, <1>8, <1>9 DEF EnsureRegistered, e

\* The new worker is the only one.
LEMMA SpawnWorkerStep ==
    ASSUME WorkersInv, SpawnWorker
    PROVE  WorkersInv'
<1>1. tui \in Manager /\ tui.up /\ tui.pc = "spawn" /\ tui.run = 0
  BY DEF WorkersInv, BgTypeInv, ManagerInv, SpawnWorker
<1>2. UNCHANGED <<epoch, registry, cli, mishap>>
  BY DEF SpawnWorker, Worked
<1>3. mishap = {} => \A w \in Workers : ~WorkerAlive(w)
  BY <1>1 DEF WorkersInv, OneLives
<1>4. CASE Loss /\ Ends(tui, TRUE) /\ UNCHANGED wk
  <2>1. PICK err \in BOOLEAN : Ends(tui, err)
    BY <1>4
  <2>2. tui' \in Manager /\ tui'.pc = "idle" /\ tui'.child = 0 /\ Kept(tui)
    BY <1>1, <2>1, EndsIs
  <2>3. Ages /\ losses' \in Nat
    BY <1>4, WorkersStay DEF WorkersInv, BgTypeInv, Loss
  <2>4. BgTypeInv'
    BY <1>2, <2>2, <2>3 DEF WorkersInv, BgTypeInv, Ages
  <2>5. mishap' = {} => \A w \in Workers : ~WorkerAlive(w)'
    BY <1>2, <1>3, <2>3 DEF Ages
  <2>6. /\ Started(registry') /\ Started(tui'.run) /\ Started(tui'.child) /\ ~tui'.stale
        /\ tui'.job = tui.job /\ tui'.answer = tui.answer /\ tui'.ansGen = tui.ansGen
    BY <1>2, <2>2, NoWorker DEF Kept, WorkersInv, ManagerInv, Started
  <2> QED BY <1>2, <2>2, <2>3, <2>4, <2>5, <2>6, NobodyStep DEF Busy
<1>5. ASSUME NEW w \in Workers, wk[w].st = "unused",
             wk' = [wk EXCEPT ![w].st = "starting", ![w].epoch = tui.receipt],
             tui' = [tui EXCEPT !.pc = "wait", !.child = w], UNCHANGED losses
      PROVE  WorkersInv'
  <2> DEFINE e == [wk[w] EXCEPT !.st = "starting", !.epoch = tui.receipt]
             t == [tui EXCEPT !.pc = "wait", !.child = w]
  <2>1. wk[w] \in Worker /\ tui.receipt \in Nat
    BY <1>1 DEF WorkersInv, BgTypeInv, Manager
  <2>2. e \in Worker /\ e.st = "starting" /\ e.gen = wk[w].gen
    BY <2>1 DEF Worker
  <2>3. wk' = [wk EXCEPT ![w] = e]
    BY <1>5, <2>1 DEF WorkersInv, BgTypeInv, Worker
  <2> HIDE DEF e
  <2>4. wk' \in [Workers -> Worker] /\ wk'[w] = e /\ \A v \in Workers : v # w => wk'[v] = wk[v]
    BY <2>2, <2>3 DEF WorkersInv, BgTypeInv
  <2>5. /\ t \in Manager /\ t.pc = "wait" /\ t.child = w /\ t.run = tui.run
        /\ t.job = tui.job /\ t.answer = tui.answer /\ t.ansGen = tui.ansGen
        /\ t.stale = tui.stale /\ t.up = tui.up
    BY <1>1, NoWorker DEF Manager
  <2>6. tui' = t
    BY <1>5
  <2> HIDE DEF t
  <2>7. BgTypeInv'
    BY <1>2, <1>5, <2>4, <2>5, <2>6 DEF WorkersInv, BgTypeInv
  <2>8. ManagerInv'
    BY <1>1, <1>2, <1>5, <2>2, <2>4, <2>5, <2>6 DEF WorkersInv, ManagerInv, Started, WorkerAlive
  <2>9. AnswerInv'
    <3>1. tui.job # w
      BY <1>5 DEF WorkersInv, ManagerInv, Started
    <3> QED BY <2>4, <2>5, <2>6, <3>1 DEF WorkersInv, AnswerInv, WorkerAlive
  <2>10. OneLives'
    BY <1>2, <1>3, <2>4, <2>5, <2>6 DEF OneLives, WorkerAlive
  <2> QED BY <2>7, <2>8, <2>9, <2>10 DEF WorkersInv
<1> QED BY <1>4, <1>5 DEF SpawnWorker

\* The manager gives up: the child is killed, and nobody is left.
LEMMA ChildKilledStep ==
    ASSUME WorkersInv, tui.pc \in {"wait", "initial"}, wk' = WithoutWorker(tui.child),
           NEW err \in BOOLEAN, Ends(tui, err), UNCHANGED <<epoch, cli, mishap>>,
           registry' \in {0, registry}, losses' \in Nat
    PROVE  WorkersInv'
<1>1. tui \in Manager /\ tui.up /\ tui.run = 0
  BY DEF WorkersInv, BgTypeInv, ManagerInv
<1>2. tui' \in Manager /\ tui'.pc = "idle" /\ tui'.child = 0 /\ Kept(tui)
  BY <1>1, EndsIs
<1>3. PICK w : w = tui.child
  OBVIOUS
<1>4. Ages /\ ~WorkerAlive(w)'
  BY <1>3, WorkerKilled DEF WorkersInv
<1>5. mishap = {} => \A v \in Workers : WorkerAlive(v) => v = w
  BY <1>3 DEF WorkersInv, OneLives
<1>6. mishap' = {} => \A v \in Workers : ~WorkerAlive(v)'
  BY <1>4, <1>5 DEF Ages
<1>7. BgTypeInv'
  BY <1>2, <1>4, NoWorker DEF WorkersInv, BgTypeInv, Ages
<1>8. /\ Started(registry') /\ Started(tui'.run) /\ Started(tui'.child) /\ ~tui'.stale
      /\ tui'.job = tui.job /\ tui'.answer = tui.answer /\ tui'.ansGen = tui.ansGen
  BY <1>2, NoWorker DEF Kept, WorkersInv, ManagerInv, Started
<1> QED BY <1>2, <1>4, <1>6, <1>7, <1>8, NobodyStep DEF Busy

LEMMA WaitRegistryStep ==
    ASSUME WorkersInv, WaitRegistry
    PROVE  WorkersInv'
<1>1. tui \in Manager /\ tui.up /\ tui.pc = "wait" /\ tui.run = 0
  BY DEF WorkersInv, BgTypeInv, ManagerInv, WaitRegistry
<1>2. UNCHANGED <<epoch, registry, cli, mishap>>
  BY DEF WaitRegistry, Worked
<1>3. CASE registry = tui.child /\ tui' = [tui EXCEPT !.pc = "initial"] /\ UNCHANGED <<wk, losses>>
  <2> DEFINE t == [tui EXCEPT !.pc = "initial"]
  <2>1. /\ t \in Manager /\ t.pc = "initial" /\ t.child = tui.child /\ t.run = tui.run
        /\ t.job = tui.job /\ t.answer = tui.answer /\ t.ansGen = tui.ansGen
        /\ t.stale = tui.stale /\ t.up = tui.up
    BY <1>1 DEF Manager
  <2>2. tui' = t
    BY <1>3
  <2> HIDE DEF t
  <2>3. BgTypeInv' /\ ManagerInv' /\ AnswerInv'
    BY <1>1, <1>2, <1>3, <2>1, <2>2
       DEF WorkersInv, BgTypeInv, ManagerInv, AnswerInv, Started, WorkerAlive
  <2>4. OneLives'
    BY <1>1, <1>2, <1>3, <2>1, <2>2 DEF WorkersInv, OneLives, WorkerAlive
  <2> QED BY <2>3, <2>4 DEF WorkersInv
<1>4. CASE /\ IF registry = Torn \/ ~WorkerAlive(tui.child) THEN UNCHANGED losses ELSE Loss
           /\ wk' = WithoutWorker(tui.child) /\ Ends(tui, TRUE)
  <2>1. PICK err \in BOOLEAN : Ends(tui, err)
    BY <1>4
  <2>2. losses' \in Nat
    BY <1>4 DEF Loss, WorkersInv, BgTypeInv
  <2> QED BY <1>1, <1>2, <1>4, <2>1, <2>2, ChildKilledStep
<1> QED BY <1>3, <1>4 DEF WaitRegistry

LEMMA InitialConfigFailsStep ==
    ASSUME WorkersInv, InitialConfigFails
    PROVE  WorkersInv'
<1>1. tui.pc = "initial" /\ wk' = WithoutWorker(tui.child) /\ UNCHANGED <<epoch, cli, mishap>>
      /\ registry' \in {0, registry} /\ losses' \in Nat
  BY DEF InitialConfigFails, Loss, WorkersInv, BgTypeInv
<1>2. PICK err \in BOOLEAN : Ends(tui, err)
  BY DEF InitialConfigFails
<1> QED BY <1>1, <1>2, ChildKilledStep

\* The generations of the new worker are counted anew: no status of it is taken for an old one.
LEMMA InitialConfigStep ==
    ASSUME WorkersInv, InitialConfig
    PROVE  WorkersInv'
<1> DEFINE s == [tui EXCEPT !.run = tui.child, !.lastGen = 0]
<1>1. /\ tui \in Manager /\ tui.up /\ tui.pc = "initial" /\ tui.run = 0 /\ tui.cfg \in Settings
      /\ tui.child \in Workers
  BY DEF WorkersInv, BgTypeInv, ManagerInv, InitialConfig, Manager, Answers
<1>2. wk' = Configured(tui.child, tui.cfg) /\ UNCHANGED <<epoch, registry, cli, mishap, losses>>
  BY DEF InitialConfig, Worked
<1>3. Ages
  BY <1>1, <1>2, WorkerConfigured DEF WorkersInv
<1>4. /\ s \in Manager /\ s.run = tui.child /\ s.lastGen = 0 /\ s.job = tui.job
      /\ s.answer = tui.answer /\ s.ansGen = tui.ansGen /\ s.stale = tui.stale /\ s.up = tui.up
  BY <1>1 DEF Manager
<1>5. tui' = Fresh \/ Ends(s, FALSE)
  BY Zenon DEF InitialConfig
<1> HIDE DEF s
<1>6. /\ tui' \in Manager /\ tui'.pc = "idle" /\ tui'.child = 0 /\ tui'.lastGen = 0 /\ ~tui'.stale
      /\ tui'.run \in {0, tui.child}
      /\ \/ tui'.job = 0
         \/ tui'.job = tui.job /\ tui'.answer = tui.answer /\ tui'.ansGen = tui.ansGen
  <2>1. CASE tui' = Fresh
    BY <2>1, FreshIs
  <2>2. CASE Ends(s, FALSE)
    <3>1. PICK err \in BOOLEAN : Ends(s, err)
      BY <2>2
    <3>2. tui' \in Manager /\ tui'.pc = "idle" /\ tui'.child = 0 /\ Kept(s)
      BY <1>4, <3>1, EndsIs
    <3> QED BY <1>4, <3>2 DEF Kept, WorkersInv, ManagerInv
  <2> QED BY <1>5, <2>1, <2>2
<1>7. BgTypeInv'
  BY <1>2, <1>3, <1>6 DEF WorkersInv, BgTypeInv, Ages
<1>8. ManagerInv'
  BY <1>1, <1>2, <1>3, <1>6, NoWorker DEF WorkersInv, ManagerInv, Ages, Started, WorkerAlive
<1>9. \A w \in Workers : wk[w].gen \in Nat /\ wk'[w].gen \in Nat
  BY <1>3 DEF WorkersInv, BgTypeInv, Ages, Worker
<1>10. AnswerInv'
  <2>1. CASE tui'.job = 0
    BY <2>1, NoWorker DEF AnswerInv, WorkerAlive
  <2>2. CASE tui'.job = tui.job /\ tui'.answer = tui.answer /\ tui'.ansGen = tui.ansGen
    <3>1. tui'.ansGen \in Nat
      BY <1>6 DEF Manager
    <3> QED BY <1>3, <1>9, <2>2, <3>1 DEF WorkersInv, AnswerInv, Ages, WorkerAlive
  <2> QED BY <1>6, <2>1, <2>2
<1>11. OneLives'
  <2> SUFFICES ASSUME mishap' = {}, NEW w \in Workers, WorkerAlive(w)'
               PROVE  w = registry /\ (tui'.run # 0 => w = tui'.run) /\ 0 <= wk'[w].gen
    BY <1>2, <1>6 DEF OneLives
  <2>1. WorkerAlive(w) /\ mishap = {}
    BY <1>2, <1>3 DEF Ages
  <2>2. w = tui.child /\ w = registry
    BY <1>1, <2>1 DEF WorkersInv, OneLives
  <2> QED BY <1>6, <1>9, <2>2
<1> QED BY <1>7, <1>8, <1>10, <1>11 DEF WorkersInv

-----------------------------------------------------------------------------
(* stop                                                                    *)

LEMMA StoppedIs ==
    ASSUME NEW r \in Manager, r.up, ~r.stale, Stopped(r)
    PROVE  /\ tui' \in Manager /\ tui'.run = 0 /\ tui'.child \in {0, r.child} /\ ~tui'.stale
           /\ tui'.pc \in {"idle", "spawn"} /\ (tui'.pc # "idle" => tui'.up)
           /\ \/ tui'.job = 0
              \/ tui'.job = r.job /\ tui'.answer = r.answer /\ tui'.ansGen = r.ansGen
<1> DEFINE s == [r EXCEPT !.run = 0]
<1>1. /\ s \in Manager /\ s.run = 0 /\ s.child = r.child /\ s.job = r.job /\ s.answer = r.answer
      /\ s.ansGen = r.ansGen /\ s.stale = r.stale /\ s.up = r.up
  BY NoWorker DEF Manager
<1>2. CASE tui' = Fresh
  BY <1>2, FreshIs
<1>3. CASE Ends([r EXCEPT !.run = 0], FALSE)
  <2>1. Ends(s, FALSE)
    BY <1>3
  <2> HIDE DEF s
  <2>2. PICK err \in BOOLEAN : Ends(s, err)
    BY <2>1
  <2>3. tui' \in Manager /\ tui'.pc = "idle" /\ tui'.child = 0 /\ Kept(s)
    BY <1>1, <2>2, EndsIs
  <2> QED BY <1>1, <2>3 DEF Kept
<1>4. ASSUME NEW after \in {"none", "spawn", "leave", "quit"},
             tui' = [r EXCEPT !.run = 0, !.pc = "spawn", !.after = after]
      PROVE  /\ tui' \in Manager /\ tui'.run = 0 /\ tui'.child = r.child /\ tui'.pc = "spawn"
             /\ tui'.job = r.job /\ tui'.answer = r.answer /\ tui'.ansGen = r.ansGen
             /\ tui'.stale = r.stale /\ tui'.up = r.up
  <2> DEFINE t == [r EXCEPT !.run = 0, !.pc = "spawn", !.after = after]
  <2>1. /\ t \in Manager /\ t.run = 0 /\ t.child = r.child /\ t.pc = "spawn"
        /\ t.job = r.job /\ t.answer = r.answer /\ t.ansGen = r.ansGen
        /\ t.stale = r.stale /\ t.up = r.up
    BY NoWorker DEF Manager
  <2>2. tui' = t
    BY <1>4
  <2> HIDE DEF t
  <2> QED BY <2>1, <2>2
<1>5. CASE tui' = [r EXCEPT !.run = 0, !.pc = "spawn", !.after = "none"]
  BY <1>4, <1>5
<1>6. CASE r.after = "leave" /\ tui' = [r EXCEPT !.run = 0, !.pc = "spawn"]
  <2>1. [r EXCEPT !.run = 0, !.pc = "spawn"] = [r EXCEPT !.run = 0, !.pc = "spawn", !.after = "leave"]
    BY <1>6, NoWorker DEF Manager
  <2>2. tui' = [r EXCEPT !.run = 0, !.pc = "spawn", !.after = "leave"]
    BY <1>6, <2>1, Zenon
  <2> QED BY <1>4, <2>2
<1>7. \/ tui' = Fresh \/ Ends([r EXCEPT !.run = 0], FALSE)
      \/ tui' = [r EXCEPT !.run = 0, !.pc = "spawn", !.after = "none"]
      \/ r.after = "leave" /\ tui' = [r EXCEPT !.run = 0, !.pc = "spawn"]
  <2>1. CASE r.after = "spawn"
    BY <2>1, Zenon DEF Stopped
  <2>2. CASE r.after = "leave"
    BY <2>2, Zenon DEF Stopped
  <2>3. CASE r.after = "quit"
    BY <2>3, Zenon DEF Stopped
  <2>4. CASE r.after = "none"
    BY <2>4, Zenon DEF Stopped
  <2>5. r.after \in {"none", "spawn", "leave", "quit"}
    BY DEF Manager
  <2> QED BY <2>1, <2>2, <2>3, <2>4, <2>5
<1> QED BY <1>2, <1>3, <1>5, <1>6, <1>7

\* A stop after which nobody lives, or after which somebody may live because a kill failed.
LEMMA StopEndsStep ==
    ASSUME WorkersInv, Ages, UNCHANGED <<epoch, cli>>, registry' \in {0, registry},
           mishap' \subseteq {"removed", "orphan", "kill"}, losses' \in Nat,
           tui' \in Manager, tui'.run \in {0, tui.run}, tui'.child \in {0, tui.child}, ~tui'.stale,
           tui'.pc # "idle" => tui'.up, tui'.pc \in Busy => tui'.run = 0,
           tui'.job = 0 \/ (tui'.job = tui.job /\ tui'.answer = tui.answer /\ tui'.ansGen = tui.ansGen),
           mishap' = {} => \A w \in Workers : ~WorkerAlive(w)'
    PROVE  WorkersInv'
<1>1. BgTypeInv'
  BY NoWorker DEF WorkersInv, BgTypeInv, Ages
<1>2. Started(registry') /\ Started(tui'.run) /\ Started(tui'.child)
  BY NoWorker DEF WorkersInv, ManagerInv, Started
<1> QED BY <1>1, <1>2, NobodyStep

\* The copy of the manager's state that has let go of its child.
LEMMA LetGo ==
    ASSUME tui \in Manager
    PROVE  \E r \in Manager :
              /\ r = [tui EXCEPT !.child = 0] /\ r.child = 0 /\ r.run = tui.run /\ r.job = tui.job
              /\ r.answer = tui.answer /\ r.ansGen = tui.ansGen /\ r.stale = tui.stale
              /\ r.up = tui.up
<1> DEFINE r == [tui EXCEPT !.child = 0]
<1>1. /\ r \in Manager /\ r.child = 0 /\ r.run = tui.run /\ r.job = tui.job
      /\ r.answer = tui.answer /\ r.ansGen = tui.ansGen /\ r.stale = tui.stale
      /\ r.up = tui.up
  BY NoWorker DEF Manager
<1> QED BY <1>1, Zenon

LEMMA StopKilledStep ==
    ASSUME WorkersInv, StopKilled
    PROVE  WorkersInv'
<1>1. tui \in Manager /\ tui.up /\ tui.pc = "kill" /\ ~tui.stale
  BY DEF WorkersInv, BgTypeInv, ManagerInv, StopKilled
<1>2. wk' = WithoutWorker(tui.child) /\ Removes(tui.child) /\ UNCHANGED <<epoch, cli, losses>>
  BY DEF StopKilled
<1>3. PICK r \in Manager :
              /\ r = [tui EXCEPT !.child = 0] /\ r.child = 0 /\ r.run = tui.run /\ r.job = tui.job
              /\ r.answer = tui.answer /\ r.ansGen = tui.ansGen /\ r.stale = tui.stale
              /\ r.up = tui.up
  BY <1>1, LetGo
<1>4. Stopped(r)
  BY <1>3, Zenon DEF StopKilled
<1>5. /\ tui' \in Manager /\ tui'.run = 0 /\ tui'.child = 0 /\ ~tui'.stale
      /\ tui'.pc \in {"idle", "spawn"} /\ (tui'.pc # "idle" => tui'.up)
      /\ \/ tui'.job = 0
         \/ tui'.job = tui.job /\ tui'.answer = tui.answer /\ tui'.ansGen = tui.ansGen
  BY <1>1, <1>3, <1>4, StoppedIs
<1>6. PICK w : w = tui.child
  OBVIOUS
<1>7. Ages /\ ~WorkerAlive(w)'
  BY <1>2, <1>6, WorkerKilled DEF WorkersInv
<1>8. /\ registry' = 0 /\ mishap \subseteq mishap' /\ mishap' \subseteq {"removed", "orphan", "kill"}
      /\ mishap' = {} /\ WorkerAlive(registry) => registry = w
  BY <1>2, <1>6, RemovesIs DEF WorkersInv
<1>9. mishap' = {} => \A v \in Workers : ~WorkerAlive(v)'
  <2> SUFFICES ASSUME mishap' = {}, NEW v \in Workers, WorkerAlive(v)'
               PROVE  FALSE
    OBVIOUS
  <2>1. WorkerAlive(v) /\ mishap = {}
    BY <1>7, <1>8 DEF Ages
  <2>2. v = registry
    BY <1>1, <2>1 DEF WorkersInv, OneLives
  <2> QED BY <1>7, <1>8, <2>1, <2>2
<1> QED BY <1>2, <1>5, <1>7, <1>8, <1>9, StopEndsStep DEF WorkersInv, BgTypeInv

LEMMA KillFailsStep ==
    ASSUME WorkersInv, KillFails
    PROVE  WorkersInv'
<1>1. tui \in Manager /\ tui.up /\ tui.pc = "kill" /\ ~tui.stale
  BY DEF WorkersInv, BgTypeInv, ManagerInv, KillFails
<1>2. /\ mishap' = mishap \cup {"kill"} /\ registry' \in {0, registry} /\ losses' \in Nat
      /\ UNCHANGED <<epoch, wk, cli>>
  BY DEF KillFails, Loss, WorkersInv, BgTypeInv
<1>3. PICK r \in Manager :
              /\ r = [tui EXCEPT !.child = 0] /\ r.child = 0 /\ r.run = tui.run /\ r.job = tui.job
              /\ r.answer = tui.answer /\ r.ansGen = tui.ansGen /\ r.stale = tui.stale
              /\ r.up = tui.up
  BY <1>1, LetGo
<1>4. StopRefused(r) \/ Stopped(r)
  BY <1>3, Zenon DEF KillFails
<1>5. /\ tui' \in Manager /\ tui'.run \in {0, tui.run} /\ tui'.child = 0 /\ ~tui'.stale
      /\ tui'.pc \in {"idle", "spawn"} /\ (tui'.pc # "idle" => tui'.up)
      /\ tui'.pc \in Busy => tui'.run = 0
      /\ \/ tui'.job = 0
         \/ tui'.job = tui.job /\ tui'.answer = tui.answer /\ tui'.ansGen = tui.ansGen
  <2>1. CASE Stopped(r)
    BY <1>1, <1>3, <2>1, StoppedIs
  <2>2. CASE StopRefused(r)
    <3>1. tui' = Fresh \/ \E err \in BOOLEAN : Ends(r, err)
      BY <2>2 DEF StopRefused
    <3>2. CASE tui' = Fresh
      BY <3>2, FreshIs DEF Busy
    <3>3. CASE \E err \in BOOLEAN : Ends(r, err)
      <4>1. tui' \in Manager /\ tui'.pc = "idle" /\ tui'.child = 0 /\ Kept(r)
        BY <3>3, EndsIs
      <4> QED BY <1>1, <1>3, <4>1 DEF Kept, Busy
    <3> QED BY <3>1, <3>2, <3>3
  <2> QED BY <1>4, <2>1, <2>2
<1>6. Ages
  BY <1>2, WorkersStay DEF WorkersInv
<1>7. mishap' # {} /\ mishap' \subseteq {"removed", "orphan", "kill"}
  BY <1>2 DEF WorkersInv, BgTypeInv
<1> QED BY <1>2, <1>5, <1>6, <1>7, StopEndsStep

LEMMA StopAskedStep ==
    ASSUME WorkersInv, StopAsked
    PROVE  WorkersInv'
<1> DEFINE w == IF tui.run # 0 THEN tui.run ELSE registry
<1>1. tui \in Manager /\ tui.up /\ tui.pc = "stop" /\ ~tui.stale
  BY DEF WorkersInv, BgTypeInv, ManagerInv, StopAsked
<1>2. UNCHANGED <<epoch, cli>> /\ losses \in Nat
  BY DEF StopAsked, WorkersInv, BgTypeInv
<1>3. CASE tui.run = 0 /\ registry = Torn /\ StopRefused(tui) /\ UNCHANGED <<registry, wk, mishap, losses>>
  <2>1. Ages
    BY <1>3, WorkersStay DEF WorkersInv
  <2>2. mishap = {} => \A v \in Workers : ~WorkerAlive(v)
    BY <1>1, <1>3, NoWorker DEF WorkersInv, OneLives
  <2>3. mishap' = {} => \A v \in Workers : ~WorkerAlive(v)'
    BY <1>3, <2>1, <2>2 DEF Ages
  <2>4. /\ tui' \in Manager /\ tui'.run = 0 /\ tui'.child = 0 /\ ~tui'.stale /\ tui'.pc = "idle"
        /\ \/ tui'.job = 0
           \/ tui'.job = tui.job /\ tui'.answer = tui.answer /\ tui'.ansGen = tui.ansGen
    <3>1. tui' = Fresh \/ \E err \in BOOLEAN : Ends(tui, err)
      BY <1>3 DEF StopRefused
    <3>2. CASE tui' = Fresh
      BY <3>2, FreshIs
    <3>3. CASE \E err \in BOOLEAN : Ends(tui, err)
      <4>1. tui' \in Manager /\ tui'.pc = "idle" /\ tui'.child = 0 /\ Kept(tui)
        BY <1>1, <3>3, EndsIs
      <4> QED BY <1>1, <1>3, <4>1 DEF Kept
    <3> QED BY <3>1, <3>2, <3>3
  <2> QED BY <1>2, <1>3, <2>1, <2>3, <2>4, StopEndsStep DEF WorkersInv, BgTypeInv, Busy
<1>4. CASE w = 0 /\ Stopped(tui) /\ UNCHANGED <<registry, wk, mishap, losses>>
  <2>1. Ages
    BY <1>4, WorkersStay DEF WorkersInv
  <2>2. mishap = {} => \A v \in Workers : ~WorkerAlive(v)
    BY <1>1, <1>4, NoWorker DEF WorkersInv, OneLives
  <2>3. mishap' = {} => \A v \in Workers : ~WorkerAlive(v)'
    BY <1>4, <2>1, <2>2 DEF Ages
  <2>4. /\ tui' \in Manager /\ tui'.run = 0 /\ tui'.child \in {0, tui.child} /\ ~tui'.stale
        /\ tui'.pc \in {"idle", "spawn"} /\ (tui'.pc # "idle" => tui'.up)
        /\ \/ tui'.job = 0
           \/ tui'.job = tui.job /\ tui'.answer = tui.answer /\ tui'.ansGen = tui.ansGen
    BY <1>1, <1>4, StoppedIs
  <2> QED BY <1>2, <1>4, <2>1, <2>3, <2>4, StopEndsStep DEF WorkersInv, BgTypeInv
<1>5. CASE /\ w \in Workers /\ tui' = [tui EXCEPT !.pc = "kill", !.child = w]
           /\ \/ Obeys(w) /\ UNCHANGED losses
              \/ /\ IF WorkerAlive(w) THEN Loss ELSE UNCHANGED losses
                 /\ UNCHANGED <<registry, wk, mishap>>
  <2>1. PICK v \in Workers : v = w
    BY <1>5
  <2> HIDE DEF w
  <2> DEFINE t == [tui EXCEPT !.pc = "kill", !.child = v]
  <2>2. /\ t \in Manager /\ t.pc = "kill" /\ t.child = v /\ t.run = tui.run /\ t.job = tui.job
        /\ t.answer = tui.answer /\ t.ansGen = tui.ansGen /\ t.lastGen = tui.lastGen
        /\ t.stale = tui.stale /\ t.up = tui.up
    BY <1>1, NoWorker DEF Manager
  <2>3. tui' = t
    BY <1>5, <2>1
  <2> HIDE DEF t
  <2>4. Kept(tui) /\ tui' \in Manager
    BY <2>2, <2>3 DEF Kept
  <2>5. Started(tui'.child) /\ losses' \in Nat
    <3>1. v = tui.run \/ v = registry
      BY <2>1 DEF w
    <3>2. UNCHANGED losses \/ Loss
      BY <1>5
    <3>3. losses' \in Nat
      BY <1>2, <3>2 DEF Loss
    <3> QED BY <2>2, <2>3, <3>1, <3>3 DEF WorkersInv, ManagerInv
  <2>6. CASE UNCHANGED <<registry, wk, mishap>>
    <3>1. Ages /\ BgTypeInv'
      BY <1>2, <2>4, <2>5, <2>6, WorkersStay DEF WorkersInv, BgTypeInv
    <3> QED BY <1>1, <1>2, <2>2, <2>3, <2>4, <2>5, <2>6, <3>1, QuietStep DEF Busy
  <2>7. CASE Obeys(w)
    <3>1. wk' = [wk EXCEPT ![v] = Dead] /\ Removes(v)
      BY <2>1, <2>7 DEF Obeys
    <3>2. Ages /\ ~WorkerAlive(v)'
      BY <3>1, WorkerGone DEF WorkersInv
    <3>3. /\ registry' = 0 /\ mishap \subseteq mishap' /\ mishap' \subseteq {"removed", "orphan", "kill"}
          /\ mishap' = {} /\ WorkerAlive(registry) => registry = v
      BY <3>1, RemovesIs DEF WorkersInv
    <3>4. mishap' = {} => \A u \in Workers : ~WorkerAlive(u)'
      <4> SUFFICES ASSUME mishap' = {}, NEW u \in Workers, WorkerAlive(u)'
                   PROVE  FALSE
        OBVIOUS
      <4>1. WorkerAlive(u) /\ mishap = {}
        BY <3>2, <3>3 DEF Ages
      <4>2. u = registry
        BY <1>1, <4>1 DEF WorkersInv, OneLives
      <4> QED BY <3>2, <3>3, <4>1, <4>2
    <3>5. BgTypeInv'
      BY <1>2, <2>4, <2>5, <3>2, <3>3, NoWorker DEF WorkersInv, BgTypeInv, Ages
    <3>6. Started(registry') /\ Started(tui'.run)
      BY <2>2, <2>3, <3>3, NoWorker DEF WorkersInv, ManagerInv, Started
    <3> QED BY <1>1, <1>2, <2>2, <2>3, <2>5, <3>2, <3>4, <3>5, <3>6, NobodyStep DEF Busy
  <2> QED BY <1>5, <2>6, <2>7
<1> QED BY <1>3, <1>4, <1>5 DEF StopAsked

-----------------------------------------------------------------------------
(* poll                                                                    *)

LEMMA PollStartsStep ==
    ASSUME WorkersInv, PollStarts
    PROVE  WorkersInv'
<1>1. tui \in Manager /\ tui.up /\ tui.pc = "idle"
  BY DEF WorkersInv, BgTypeInv, PollStarts, Idle
<1>2. UNCHANGED <<epoch, registry, wk, cli, mishap, losses>>
  BY DEF PollStarts, Worked
<1>3. CASE CurrentTarget \in Workers /\ tui' = [tui EXCEPT !.job = CurrentTarget, !.answer = "none"]
  <2>1. PICK w \in Workers : w = CurrentTarget
    BY <1>3
  <2> DEFINE t == [tui EXCEPT !.job = w, !.answer = "none"]
  <2>2. /\ t \in Manager /\ t.pc = tui.pc /\ t.child = tui.child /\ t.run = tui.run /\ t.job = w
        /\ t.answer = "none" /\ t.lastGen = tui.lastGen /\ t.stale = tui.stale /\ t.up = tui.up
    BY <1>1, NoWorker DEF Manager
  <2>3. tui' = t
    BY <1>3, <2>1
  <2> HIDE DEF t
  <2>4. BgTypeInv' /\ Ages
    BY <1>2, <2>2, <2>3, WorkersStay DEF WorkersInv, BgTypeInv
  <2>5. w = tui.run \/ w = registry
    BY <2>1 DEF CurrentTarget
  <2>6. Started(tui'.child) /\ Started(tui'.job) /\ ~tui'.stale
    BY <2>2, <2>3, <2>5 DEF WorkersInv, ManagerInv
  <2>7. mishap = {} => \A v \in Workers : WorkerAlive(v) => tui'.lastGen <= wk[v].gen
    BY <1>1, <2>2, <2>3 DEF WorkersInv, OneLives
  <2>8. UNCHANGED <<registry, cli>> /\ mishap \subseteq mishap'
    BY <1>2
  <2> QED BY <1>1, <2>2, <2>3, <2>4, <2>6, <2>7, <2>8, FollowStep DEF Busy
<1>4. CASE Proceed(tui)
  <2>1. tui' \in Manager /\ tui'.pc \in {"idle", "ensure"} /\ tui'.child \in {0, tui.child} /\ Kept(tui)
    BY <1>1, <1>4, ProceedIs
  <2> QED BY <1>1, <1>2, <2>1, OperationStep DEF Busy
<1> QED BY <1>3, <1>4 DEF PollStarts

\* The answer is what the worker published when it was asked.
LEMMA StatusArrivesStep ==
    ASSUME WorkersInv, StatusArrives
    PROVE  WorkersInv'
<1>1. tui \in Manager /\ tui.up /\ tui.job \in 0..MaxWorkers
  BY DEF WorkersInv, BgTypeInv, StatusArrives, Manager
<1>2. UNCHANGED <<epoch, registry, wk, cli, mishap>>
  BY DEF StatusArrives, Worked
<1>3. losses' \in Nat
  <2>1. UNCHANGED losses \/ Loss
    BY DEF StatusArrives
  <2> QED BY <2>1 DEF Loss, WorkersInv, BgTypeInv
<1>4. ASSUME tui' \in Manager, tui'.pc = tui.pc, tui'.child = tui.child, tui'.run = tui.run,
             tui'.job = tui.job, tui'.lastGen = tui.lastGen, tui'.stale = tui.stale,
             tui'.up = tui.up,
             WorkerAlive(tui.job) =>
                /\ tui'.answer = "snapshot" => tui'.ansGen <= wk[tui.job].gen
                /\ tui'.answer # "gone"
      PROVE  WorkersInv'
  <2>1. BgTypeInv'
    BY <1>2, <1>3, <1>4 DEF WorkersInv, BgTypeInv
  <2>2. ManagerInv'
    BY <1>2, <1>4 DEF WorkersInv, ManagerInv, Started, WorkerAlive
  <2>3. AnswerInv'
    BY <1>2, <1>4 DEF AnswerInv, WorkerAlive
  <2>4. OneLives'
    BY <1>2, <1>4 DEF WorkersInv, OneLives, WorkerAlive
  <2> QED BY <2>1, <2>2, <2>3, <2>4 DEF WorkersInv
<1>5. CASE /\ Answers(tui.job)
           /\ tui' = [tui EXCEPT !.answer = "snapshot", !.ansEpoch = wk[tui.job].epoch,
                                 !.ansGen = wk[tui.job].gen]
  <2>1. PICK n \in Nat, g \in Nat : n = wk[tui.job].epoch /\ g = wk[tui.job].gen
    BY <1>5 DEF Answers, WorkersInv, BgTypeInv, Worker
  <2> DEFINE t == [tui EXCEPT !.answer = "snapshot", !.ansEpoch = n, !.ansGen = g]
  <2>2. /\ t \in Manager /\ t.pc = tui.pc /\ t.child = tui.child /\ t.run = tui.run
        /\ t.job = tui.job /\ t.answer = "snapshot" /\ t.ansGen = g
        /\ t.lastGen = tui.lastGen /\ t.stale = tui.stale /\ t.up = tui.up
    BY <1>1 DEF Manager
  <2>3. tui' = t
    BY <1>5, <2>1
  <2> HIDE DEF t
  <2> QED BY <1>4, <2>1, <2>2, <2>3
<1>6. ASSUME NEW a \in {"retry", "gone"}, tui' = [tui EXCEPT !.answer = a],
             WorkerAlive(tui.job) => a # "gone"
      PROVE  WorkersInv'
  <2> DEFINE t == [tui EXCEPT !.answer = a]
  <2>1. /\ t \in Manager /\ t.pc = tui.pc /\ t.child = tui.child /\ t.run = tui.run
        /\ t.job = tui.job /\ t.answer = a
        /\ t.lastGen = tui.lastGen /\ t.stale = tui.stale /\ t.up = tui.up
    BY <1>1 DEF Manager
  <2>2. tui' = t
    BY <1>6
  <2> HIDE DEF t
  <2> QED BY <1>4, <1>6, <2>1, <2>2
<1>7. CASE tui' = [tui EXCEPT !.answer = IF WorkerAlive(tui.job) THEN "retry" ELSE "gone"]
  <2>1. PICK a \in {"retry", "gone"} : a = IF WorkerAlive(tui.job) THEN "retry" ELSE "gone"
    OBVIOUS
  <2>2. tui' = [tui EXCEPT !.answer = a] /\ (WorkerAlive(tui.job) => a # "gone")
    BY <1>7, <2>1
  <2> QED BY <1>6, <2>2
<1> QED BY <1>5, <1>7 DEF StatusArrives

\* The manager's state once the answer was taken.
LEMMA TakenIs ==
    ASSUME tui \in Manager
    PROVE  /\ Taken \in Manager /\ Taken.job = 0 /\ Taken.answer = "none"
           /\ Taken.child = tui.child /\ Taken.run = tui.run /\ Taken.pc = tui.pc
           /\ Taken.lastGen = tui.lastGen /\ Taken.stale = tui.stale /\ Taken.up = tui.up
           /\ Taken.after = tui.after
  BY NoWorker DEF Taken, Manager

\* A poll that ends with its worker, or with the registered one.
LEMMA PollEndsStep ==
    ASSUME WorkersInv, tui.pc = "idle", UNCHANGED <<epoch, registry, wk, cli, mishap, losses>>,
           tui' \in Manager, tui'.job = 0, tui'.child \in {0, tui.child}, tui'.pc \notin Busy,
           tui'.pc # "idle" => tui'.up, ~tui'.stale,
           tui'.run \in {0, tui.run} \/ (tui.run = 0 /\ tui'.run = registry),
           mishap = {} => \A w \in Workers : WorkerAlive(w) => tui'.lastGen <= wk[w].gen
    PROVE  WorkersInv'
<1>1. BgTypeInv' /\ Ages
  BY WorkersStay DEF WorkersInv, BgTypeInv
<1>2. Started(tui'.child) /\ Started(tui'.job) /\ ~WorkerAlive(tui'.job)
  BY NoWorker DEF WorkersInv, ManagerInv, Started, WorkerAlive
<1>3. tui.pc \notin Busy /\ mishap \subseteq mishap'
  BY DEF Busy
<1> QED BY <1>1, <1>2, <1>3, FollowStep

LEMMA PollDroppedStep ==
    ASSUME WorkersInv, PollDropped
    PROVE  WorkersInv'
<1>1. tui \in Manager /\ tui.up /\ tui.pc = "idle" /\ ~tui.stale
  BY DEF WorkersInv, BgTypeInv, ManagerInv, PollDropped, Answered, Idle
<1>2. tui' = Taken /\ UNCHANGED <<epoch, registry, wk, cli, mishap, losses>>
  BY DEF PollDropped, Worked
<1>3. mishap = {} => \A w \in Workers : WorkerAlive(w) => tui'.lastGen <= wk[w].gen
  BY <1>1, <1>2, TakenIs DEF WorkersInv, OneLives
<1> QED BY <1>1, <1>2, <1>3, TakenIs, PollEndsStep DEF Busy

\* A status of the worker that is followed is never taken for one of another worker, and the
\* newest generation seen is one that it published.
LEMMA PollSnapshotStep ==
    ASSUME WorkersInv, PollSnapshot
    PROVE  WorkersInv'
<1>1. tui \in Manager /\ tui.up /\ tui.pc = "idle" /\ ~tui.stale
  BY DEF WorkersInv, BgTypeInv, ManagerInv, PollSnapshot, Answered, Idle
<1>2. UNCHANGED <<epoch, registry, wk, cli, mishap, losses>> /\ IsCurrent /\ tui.answer = "snapshot"
  BY DEF PollSnapshot, Worked
<1>3. (tui.run # 0 => tui.run = tui.job) /\ (tui.run = 0 => registry = tui.job)
  BY <1>2 DEF IsCurrent, CurrentTarget
<1>4. PICK r \in Manager :
         /\ r = Taken /\ r.job = 0 /\ r.answer = "none" /\ r.child = tui.child /\ r.run = tui.run
         /\ r.pc = "idle" /\ r.lastGen = tui.lastGen /\ r.stale = FALSE /\ r.up
  <2>1. tui.stale = FALSE
    BY <1>1 DEF Manager
  <2>2. Taken \in Manager /\ Taken.stale = FALSE /\ Taken.pc = "idle" /\ Taken.up
    BY <1>1, <2>1, TakenIs
  <2> QED BY <1>1, <2>2, TakenIs, Zenon
<1>5. tui.lastGen \in Nat /\ tui.ansGen \in Nat /\ tui.job \in 0..MaxWorkers
  BY <1>1 DEF Manager
<1>6. mishap = {} => \A w \in Workers : WorkerAlive(w) => tui.lastGen <= wk[w].gen /\ tui.ansGen <= wk[w].gen
  <2> SUFFICES ASSUME mishap = {}, NEW w \in Workers, WorkerAlive(w)
               PROVE  tui.lastGen <= wk[w].gen /\ tui.ansGen <= wk[w].gen
    OBVIOUS
  <2>1. w = registry /\ (tui.run # 0 => w = tui.run) /\ tui.lastGen <= wk[w].gen
    BY <1>1 DEF WorkersInv, OneLives
  <2>2. w = tui.job
    BY <1>3, <2>1
  <2> QED BY <1>2, <2>1, <2>2 DEF WorkersInv, AnswerInv
<1>7. CASE Ends(Taken, TRUE)
  <2>1. PICK err \in BOOLEAN : Ends(r, err)
    BY <1>4, <1>7
  <2>2. tui' \in Manager /\ tui'.pc = "idle" /\ tui'.child = 0 /\ Kept(r)
    BY <2>1, EndsIs
  <2>3. /\ tui'.job = 0 /\ tui'.run = tui.run /\ ~tui'.stale /\ tui'.lastGen = tui.lastGen
    BY <1>4, <2>2 DEF Kept
  <2> QED BY <1>1, <1>2, <1>6, <2>2, <2>3, PollEndsStep DEF Busy
<1>8. CASE tui' = [Taken EXCEPT !.run = tui.job, !.pc = "stop", !.after = "spawn"]
  <2> PICK j \in 0..MaxWorkers : j = tui.job
    BY <1>5
  <2> DEFINE t == [r EXCEPT !.run = j, !.pc = "stop", !.after = "spawn"]
  <2>1. /\ t \in Manager /\ t.job = r.job /\ t.child = r.child /\ t.run = j /\ t.pc = "stop"
        /\ t.lastGen = r.lastGen /\ t.stale = r.stale /\ t.up = r.up
    BY DEF Manager
  <2>2. tui' = t
    BY <1>4, <1>8
  <2> HIDE DEF t
  <2> QED BY <1>1, <1>2, <1>3, <1>4, <1>6, <2>1, <2>2, PollEndsStep DEF Busy
<1>9. CASE tui' = [Taken EXCEPT !.run = IF @ = 0 THEN tui.job ELSE @,
                                !.lastGen = IF tui.ansGen > @ THEN tui.ansGen ELSE @,
                                !.stale = @ \/ (tui.ansGen > tui.lastGen /\ tui.run \notin {0, tui.job})]
  <2>1. PICK n \in Nat : n \in {tui.lastGen, tui.ansGen} /\ n = IF tui.ansGen > tui.lastGen THEN tui.ansGen ELSE tui.lastGen
    BY <1>5
  <2>2. PICK w \in 0..MaxWorkers : w = IF tui.run = 0 THEN tui.job ELSE tui.run
    BY <1>1, <1>5 DEF Manager
  <2> DEFINE t == [r EXCEPT !.run = w, !.lastGen = n, !.stale = FALSE]
  <2>3. /\ t \in Manager /\ t.job = r.job /\ t.child = r.child /\ t.run = w /\ t.pc = r.pc
        /\ t.lastGen = n /\ ~t.stale /\ t.up = r.up
    BY DEF Manager
  <2>4. tui' = t
    <3>1. r.run = tui.run /\ r.lastGen = tui.lastGen /\ r.stale = FALSE
      BY <1>4
    <3>2. tui.run \in {0, tui.job}
      BY <1>3
    <3>3. tui' = [r EXCEPT !.run = IF r.run = 0 THEN tui.job ELSE r.run,
                           !.lastGen = IF tui.ansGen > r.lastGen THEN tui.ansGen ELSE r.lastGen,
                           !.stale = r.stale \/ (tui.ansGen > tui.lastGen /\ tui.run \notin {0, tui.job})]
      BY <1>4, <1>9 DEF Manager
    <3>4. (r.stale \/ (tui.ansGen > tui.lastGen /\ tui.run \notin {0, tui.job})) = FALSE
      BY <3>1, <3>2, Zenon
    <3> QED BY <2>1, <2>2, <3>1, <3>3, <3>4, Zenon
  <2> HIDE DEF t
  <2>5. mishap = {} => \A v \in Workers : WorkerAlive(v) => tui'.lastGen <= wk[v].gen
    BY <1>6, <2>1, <2>3, <2>4
  <2>6. w = tui.run \/ (tui.run = 0 /\ w = registry)
    BY <1>3, <2>2
  <2> QED BY <1>1, <1>2, <1>4, <2>3, <2>4, <2>5, <2>6, PollEndsStep DEF Busy
<1> QED BY <1>7, <1>8, <1>9 DEF PollSnapshot

\* Only the entry of a worker that is gone is removed.
LEMMA PollGoneStep ==
    ASSUME WorkersInv, PollGone
    PROVE  WorkersInv'
<1>1. tui \in Manager /\ tui.up /\ tui.pc = "idle" /\ ~tui.stale
  BY DEF WorkersInv, BgTypeInv, ManagerInv, PollGone, Answered, Idle
<1>2. /\ UNCHANGED <<epoch, wk, cli, mishap, losses>> /\ IsCurrent /\ tui.answer = "gone"
      /\ registry' = IF registry = tui.job THEN 0 ELSE registry
  BY DEF PollGone
<1>3. ~WorkerAlive(tui.job)
  BY <1>2 DEF WorkersInv, AnswerInv
<1>4. PICK r \in Manager :
         /\ r = [Taken EXCEPT !.run = IF @ = tui.job THEN 0 ELSE @]
         /\ r.job = 0 /\ r.child = tui.child /\ r.run \in {0, tui.run} /\ r.pc = "idle"
         /\ r.lastGen = tui.lastGen /\ r.stale = FALSE /\ r.up
  <2>1. PICK q \in Manager : q = Taken /\ q.job = 0 /\ q.child = tui.child /\ q.run = tui.run
            /\ q.pc = "idle" /\ q.lastGen = tui.lastGen /\ q.stale = FALSE /\ q.up
    <3>1. tui.stale = FALSE
      BY <1>1 DEF Manager
    <3>2. Taken \in Manager /\ Taken.stale = FALSE /\ Taken.pc = "idle" /\ Taken.up
      BY <1>1, <3>1, TakenIs
    <3> QED BY <1>1, <3>2, TakenIs, Zenon
  <2> DEFINE r == [q EXCEPT !.run = IF @ = tui.job THEN 0 ELSE @]
  <2>2. /\ r \in Manager /\ r.job = q.job /\ r.child = q.child /\ r.run \in {0, q.run} /\ r.pc = q.pc
        /\ r.lastGen = q.lastGen /\ r.stale = q.stale /\ r.up = q.up
    BY NoWorker DEF Manager
  <2>3. r = [Taken EXCEPT !.run = IF @ = tui.job THEN 0 ELSE @]
    BY <2>1
  <2> HIDE DEF r
  <2> QED BY <2>1, <2>2, <2>3
<1>5. \/ Ends(r, TRUE)
      \/ tui' = [r EXCEPT !.pc = "ensure", !.after = "none"]
      \/ tui' = r
  BY <1>4, Zenon DEF PollGone
<1>6. /\ tui' \in Manager /\ tui'.pc \in {"idle", "ensure"} /\ tui'.child \in {0, tui.child} /\ tui'.job = 0
      /\ tui'.run \in {0, tui.run} /\ tui'.lastGen = tui.lastGen /\ ~tui'.stale /\ tui'.up
  <2>1. CASE Ends(r, TRUE)
    <3>1. PICK err \in BOOLEAN : Ends(r, err)
      BY <2>1
    <3>2. tui' \in Manager /\ tui'.pc = "idle" /\ tui'.child = 0 /\ Kept(r)
      BY <3>1, EndsIs
    <3> QED BY <1>4, <3>2 DEF Kept
  <2>2. CASE tui' = [r EXCEPT !.pc = "ensure", !.after = "none"]
    <3>1. tui' \in Manager /\ tui'.pc = "ensure" /\ tui'.child = r.child /\ Kept(r)
      BY <2>2, GoesOn
    <3> QED BY <1>4, <3>1 DEF Kept
  <2>3. CASE tui' = r
    BY <1>4, <2>3
  <2> QED BY <1>5, <2>1, <2>2, <2>3
<1>7. BgTypeInv'
  BY <1>2, <1>6, NoWorker DEF WorkersInv, BgTypeInv
<1>8. ManagerInv'
  BY <1>2, <1>6, NoWorker DEF WorkersInv, ManagerInv, Started, WorkerAlive
<1>9. AnswerInv'
  BY <1>6, NoWorker DEF AnswerInv, WorkerAlive
<1>10. OneLives'
  <2> SUFFICES ASSUME mishap' = {}, NEW w \in Workers, WorkerAlive(w)'
               PROVE  w = registry' /\ (tui'.run # 0 => w = tui'.run) /\ tui'.lastGen <= wk'[w].gen
    BY <1>6 DEF OneLives
  <2>1. WorkerAlive(w) /\ mishap = {}
    BY <1>2 DEF WorkerAlive
  <2>2. w = registry /\ (tui.run # 0 => w = tui.run) /\ tui.lastGen <= wk[w].gen
    BY <1>1, <2>1 DEF WorkersInv, OneLives
  <2>3. w # tui.job
    BY <1>3, <2>1
  <2> QED BY <1>2, <1>6, <2>2, <2>3
<1> QED BY <1>7, <1>8, <1>9, <1>10 DEF WorkersInv

-----------------------------------------------------------------------------
(* The worker and the command line.                                        *)

\* The file is truncated by the new worker only, or a mishap is noted.
LEMMA RegisterBeginsStep ==
    ASSUME WorkersInv, NEW w \in Workers, RegisterBegins(w)
    PROVE  WorkersInv'
<1> DEFINE e == [wk[w] EXCEPT !.st = "writing"]
<1>1. /\ wk[w] \in Worker /\ wk[w].gen \in Nat /\ WorkerAlive(w)
      /\ UNCHANGED <<epoch, tui, cli, losses>> /\ registry' = Torn
      /\ mishap' = IF WorkerAlive(registry) THEN mishap \cup {"removed"} ELSE mishap
  BY DEF RegisterBegins, WorkersInv, BgTypeInv, Worker, WorkerAlive
<1>2. e \in Worker /\ e.st = "writing" /\ e.gen = wk[w].gen
  BY <1>1 DEF Worker
<1>3. wk' = [wk EXCEPT ![w] = e]
  BY DEF RegisterBegins, WorkersInv, BgTypeInv
<1> HIDE DEF e
<1>4. wk' \in [Workers -> Worker] /\ wk'[w] = e /\ \A v \in Workers : v # w => wk'[v] = wk[v]
  BY <1>2, <1>3 DEF WorkersInv, BgTypeInv
<1>5. \A v \in Workers : wk[v].gen \in Nat
  BY DEF WorkersInv, BgTypeInv, Worker
<1>6. Ages
  BY <1>1, <1>2, <1>4, <1>5 DEF Ages, WorkerAlive, Started
<1>7. mishap \subseteq mishap' /\ mishap' \subseteq {"removed", "orphan", "kill"} /\ registry' \in 0..Torn
  BY <1>1, WorkersAssumption DEF WorkersInv, BgTypeInv, Torn
<1>8. BgTypeInv'
  BY <1>1, <1>4, <1>7 DEF WorkersInv, BgTypeInv
<1>9. ManagerInv'
  BY <1>1, <1>6, NoWorker DEF WorkersInv, ManagerInv, Ages, Started, WorkerAlive
<1>10. \A v \in Workers : wk[v].gen \in Nat /\ wk'[v].gen \in Nat
  BY <1>4, <1>5 DEF Worker
<1>11. tui.ansGen \in Nat /\ tui.lastGen \in Nat
  BY DEF WorkersInv, BgTypeInv, Manager
<1>12. AnswerInv'
  BY <1>1, <1>6, <1>10, <1>11 DEF WorkersInv, AnswerInv, Ages, WorkerAlive
<1>13. OneLives'
  <2> SUFFICES ASSUME mishap' = {}, NEW v \in Workers, WorkerAlive(v)'
               PROVE  tui.pc = "wait" /\ v = tui.child
    BY <1>1 DEF OneLives
  <2>1. WorkerAlive(v) /\ mishap = {} /\ ~WorkerAlive(registry)
    BY <1>1, <1>6 DEF Ages
  <2>2. tui.pc = "wait"
    BY <1>1, <2>1 DEF WorkersInv, OneLives
  <2> QED BY <2>1, <2>2 DEF WorkersInv, OneLives
<1> QED BY <1>8, <1>9, <1>12, <1>13 DEF WorkersInv

\* Nobody else lives when the file is written.
LEMMA RegisterEndsStep ==
    ASSUME WorkersInv, NEW w \in Workers, RegisterEnds(w)
    PROVE  WorkersInv'
<1> DEFINE e == [wk[w] EXCEPT !.st = "up"]
<1>1. /\ wk[w] \in Worker /\ wk[w].gen \in Nat /\ WorkerAlive(w)
      /\ UNCHANGED <<epoch, tui, cli, mishap, losses>> /\ registry' = w
  BY DEF RegisterEnds, WorkersInv, BgTypeInv, Worker, WorkerAlive
<1>2. e \in Worker /\ e.st = "up" /\ e.gen = wk[w].gen
  BY <1>1 DEF Worker
<1>3. wk' = [wk EXCEPT ![w] = e]
  BY DEF RegisterEnds, WorkersInv, BgTypeInv
<1> HIDE DEF e
<1>4. wk' \in [Workers -> Worker] /\ wk'[w] = e /\ \A v \in Workers : v # w => wk'[v] = wk[v]
  BY <1>2, <1>3 DEF WorkersInv, BgTypeInv
<1>5. \A v \in Workers : wk[v].gen \in Nat
  BY DEF WorkersInv, BgTypeInv, Worker
<1>6. Ages
  BY <1>1, <1>2, <1>4, <1>5 DEF Ages, WorkerAlive, Started
<1>7. BgTypeInv'
  BY <1>1, <1>4, NoWorker DEF WorkersInv, BgTypeInv
<1>8. ManagerInv'
  BY <1>1, <1>2, <1>4, <1>6 DEF WorkersInv, ManagerInv, Ages, Started, WorkerAlive
<1>9. \A v \in Workers : wk[v].gen \in Nat /\ wk'[v].gen \in Nat
  BY <1>4, <1>5 DEF Worker
<1>10. tui.ansGen \in Nat /\ tui.lastGen \in Nat
  BY DEF WorkersInv, BgTypeInv, Manager
<1>11. AnswerInv'
  BY <1>1, <1>6, <1>9, <1>10 DEF WorkersInv, AnswerInv, Ages, WorkerAlive
<1>12. OneLives'
  <2> SUFFICES ASSUME mishap' = {}, NEW v \in Workers, WorkerAlive(v)'
               PROVE  /\ tui.pc # "spawn"
                      /\ tui.pc \in {"wait", "initial"} => v = tui.child
                      /\ v = w
                      /\ tui.pc \notin {"wait", "initial"} =>
                           (tui.run # 0 => v = tui.run) /\ tui.lastGen <= wk'[v].gen
    BY <1>1 DEF OneLives
  <2>1. WorkerAlive(v) /\ wk[v].gen <= wk'[v].gen /\ mishap = {}
    BY <1>1, <1>6 DEF Ages
  <2>2. v = w
    BY <1>1, <2>1 DEF WorkersInv, OneLives
  <2>3. /\ tui.pc # "spawn" /\ (tui.pc \in {"wait", "initial"} => v = tui.child)
        /\ tui.pc \notin {"wait", "initial"} => (tui.run # 0 => v = tui.run) /\ tui.lastGen <= wk[v].gen
    BY <2>1 DEF WorkersInv, OneLives
  <2> QED BY <1>9, <1>10, <2>1, <2>2, <2>3
<1> QED BY <1>7, <1>8, <1>11, <1>12 DEF WorkersInv

\* The stop command still waits for the worker it saw, which is gone.
LEMMA CliWaits ==
    ASSUME WorkersInv, Ages
    PROVE  \E c : c = cli /\ Started(c) /\ ~WorkerAlive(c)'
<1>1. PICK c : c = cli
  OBVIOUS
<1>2. Started(c) /\ ~WorkerAlive(c)
  BY <1>1 DEF WorkersInv, ManagerInv
<1>3. ~WorkerAlive(c)'
  BY <1>2 DEF Ages, WorkerAlive
<1> QED BY <1>1, <1>2, <1>3

LEMMA LateConfigStep ==
    ASSUME WorkersInv, NEW w \in Workers, LateConfig(w)
    PROVE  WorkersInv'
<1>1. PICK cfg \in Settings : wk' = Configured(w, cfg)
  BY DEF LateConfig, WorkersInv, BgTypeInv, Worker
<1>2. UNCHANGED <<epoch, registry, cli, mishap, tui, losses>>
  BY DEF LateConfig, Worked
<1>3. Ages
  BY <1>1, WorkerConfigured DEF WorkersInv
<1>4. BgTypeInv'
  BY <1>2, <1>3 DEF WorkersInv, BgTypeInv, Ages
<1>5. PICK c : c = cli /\ Started(c) /\ ~WorkerAlive(c)'
  BY <1>3, CliWaits
<1>6. cli' = c
  BY <1>2, <1>5
<1> QED BY <1>2, <1>3, <1>4, <1>5, <1>6, WorkerStep

LEMMA PublishStep ==
    ASSUME WorkersInv, NEW w \in Workers, Publish(w)
    PROVE  WorkersInv'
<1> DEFINE g == wk[w].gen + 1
           e == [wk[w] EXCEPT !.gen = g]
<1>1. wk[w] \in Worker /\ wk[w].gen \in Nat /\ UNCHANGED <<epoch, registry, cli, mishap, tui, losses>>
  BY DEF Publish, WorkersInv, BgTypeInv, Worker, Worked
<1>2. g \in Nat /\ wk[w].gen <= g
  BY <1>1
<1>3. wk' = [wk EXCEPT ![w] = e]
  BY DEF Publish, WorkersInv, BgTypeInv
<1> HIDE DEF g
<1>4. e \in Worker /\ e.st = wk[w].st /\ e.gen = g
  BY <1>1, <1>2 DEF Worker
<1> HIDE DEF e
<1>5. wk' \in [Workers -> Worker] /\ wk'[w] = e /\ \A v \in Workers : v # w => wk'[v] = wk[v]
  BY <1>3, <1>4 DEF WorkersInv, BgTypeInv
<1>6. \A v \in Workers : wk[v].gen \in Nat
  BY DEF WorkersInv, BgTypeInv, Worker
<1>7. Ages
  BY <1>2, <1>4, <1>5, <1>6 DEF Ages, WorkerAlive, Started
<1>8. BgTypeInv'
  BY <1>1, <1>5 DEF WorkersInv, BgTypeInv
<1>9. PICK c : c = cli /\ Started(c) /\ ~WorkerAlive(c)'
  BY <1>7, CliWaits
<1>10. cli' = c
  BY <1>1, <1>9
<1> QED BY <1>1, <1>7, <1>8, <1>9, <1>10, WorkerStep

LEMMA WorkerDiesStep ==
    ASSUME WorkersInv, NEW w \in Workers, WorkerDies(w)
    PROVE  WorkersInv'
<1>1. UNCHANGED <<epoch, registry, cli, mishap, tui>> /\ losses' \in Nat
  BY DEF WorkerDies, Worked, Loss, WorkersInv, BgTypeInv
<1>2. wk' = [wk EXCEPT ![w] = Dead]
  BY DEF WorkerDies
<1>3. Ages
  BY <1>2, WorkerGone DEF WorkersInv
<1>4. BgTypeInv'
  BY <1>1, <1>3 DEF WorkersInv, BgTypeInv, Ages
<1>5. PICK c : c = cli /\ Started(c) /\ ~WorkerAlive(c)'
  BY <1>3, CliWaits
<1>6. cli' = c
  BY <1>1, <1>5
<1> QED BY <1>1, <1>3, <1>4, <1>5, <1>6, WorkerStep

\* A registry entry that is removed while its worker lives is a mishap; otherwise the only
\* worker that may live is the one that has just been started.
LEMMA RemovedStep ==
    ASSUME WorkersInv, Ages, UNCHANGED <<epoch, tui>>, registry' = 0, losses' \in Nat,
           mishap \subseteq mishap', mishap' \subseteq {"removed", "orphan", "kill"},
           NEW c \in 0..MaxWorkers, cli' = c, Started(c), ~WorkerAlive(c)',
           NEW u, u = registry, mishap' = {} => ~WorkerAlive(u)'
    PROVE  WorkersInv'
<1>1. BgTypeInv'
  BY NoWorker DEF WorkersInv, BgTypeInv, Ages
<1>2. ManagerInv'
  BY NoWorker DEF WorkersInv, ManagerInv, Ages, Started, WorkerAlive
<1>3. \A v \in Workers : wk[v].gen \in Nat /\ wk'[v].gen \in Nat
  BY DEF WorkersInv, BgTypeInv, Ages, Worker
<1>4. tui.ansGen \in Nat
  BY DEF WorkersInv, BgTypeInv, Manager
<1>5. AnswerInv'
  BY <1>3, <1>4 DEF WorkersInv, AnswerInv, Ages, WorkerAlive
<1>6. OneLives'
  <2> SUFFICES ASSUME mishap' = {}, NEW v \in Workers, WorkerAlive(v)'
               PROVE  tui.pc = "wait" /\ v = tui.child
    BY DEF OneLives
  <2>1. WorkerAlive(v) /\ mishap = {}
    BY DEF Ages
  <2>2. tui.pc # "wait" => v = registry
    BY <2>1 DEF WorkersInv, OneLives
  <2>3. v # registry
    BY Zenon
  <2> QED BY <2>1, <2>2, <2>3 DEF WorkersInv, OneLives
<1> QED BY <1>1, <1>2, <1>5, <1>6 DEF WorkersInv

LEMMA CliStopStep ==
    ASSUME WorkersInv, CliStop
    PROVE  WorkersInv'
<1>1. PICK u \in Workers : u = registry /\ WorkerAlive(u)
  BY DEF CliStop, WorkerAlive
<1>2. cli' = u /\ UNCHANGED <<epoch, tui>> /\ Started(u) /\ u \in 0..MaxWorkers
  BY <1>1, NoWorker DEF CliStop, WorkersInv, ManagerInv
<1>3. CASE Obeys(u) /\ UNCHANGED losses
  <2>1. wk' = [wk EXCEPT ![u] = Dead] /\ Removes(u)
    BY <1>3 DEF Obeys
  <2>2. Ages /\ ~WorkerAlive(u)'
    BY <2>1, WorkerGone DEF WorkersInv
  <2>3. /\ registry' = 0 /\ mishap \subseteq mishap' /\ mishap' \subseteq {"removed", "orphan", "kill"}
    BY <2>1, RemovesIs DEF WorkersInv
  <2>4. losses' \in Nat
    BY <1>3 DEF WorkersInv, BgTypeInv
  <2> QED BY <1>1, <1>2, <2>2, <2>3, <2>4, RemovedStep
<1>4. CASE Loss /\ wk' = WithoutWorker(u) /\ UNCHANGED <<registry, mishap>>
  <2>1. Ages /\ ~WorkerAlive(u)'
    BY <1>4, WorkerKilled DEF WorkersInv
  <2>2. BgTypeInv'
    BY <1>2, <1>4, <2>1 DEF WorkersInv, BgTypeInv, Ages, Loss
  <2> QED BY <1>2, <1>4, <2>1, <2>2, WorkerStep
<1>5. \/ Obeys(u) /\ UNCHANGED losses
      \/ Loss /\ wk' = WithoutWorker(u) /\ UNCHANGED <<registry, mishap>>
  BY <1>1, Zenon DEF CliStop
<1> QED BY <1>3, <1>4, <1>5

LEMMA CliRemovesStep ==
    ASSUME WorkersInv, CliRemoves
    PROVE  WorkersInv'
<1>1. cli' = 0 /\ UNCHANGED <<epoch, wk, tui, losses>> /\ Removes(cli) /\ ~WorkerAlive(cli)
  BY DEF CliRemoves, WorkersInv, ManagerInv
<1>2. Ages /\ losses' \in Nat
  BY <1>1, WorkersStay DEF WorkersInv, BgTypeInv
<1>3. /\ registry' = 0 /\ mishap \subseteq mishap' /\ mishap' \subseteq {"removed", "orphan", "kill"}
      /\ mishap' = {} /\ WorkerAlive(registry) => registry = cli
  BY <1>1, RemovesIs DEF WorkersInv
<1>4. PICK u : u = registry
  OBVIOUS
<1>5. mishap' = {} => ~WorkerAlive(u)
  BY <1>1, <1>3, <1>4
<1>6. mishap' = {} => ~WorkerAlive(u)'
  BY <1>1, <1>5 DEF WorkerAlive
<1>7. PICK c \in 0..MaxWorkers : c = 0 /\ Started(c) /\ ~WorkerAlive(c)'
  BY NoWorker DEF Started, WorkerAlive
<1> QED BY <1>1, <1>2, <1>3, <1>4, <1>6, <1>7, RemovedStep

-----------------------------------------------------------------------------
(* The invariant, and what it is for.                                      *)

LEMMA WorkersInit ==
    ASSUME BgInit
    PROVE  WorkersInv
<1>1. /\ epoch = 1 /\ registry = 0 /\ cli = 0 /\ mishap = {} /\ losses = 0 /\ tui = Fresh
      /\ wk = [w \in Workers |-> Unused]
  BY DEF BgInit
<1>2. BgTypeInv
  BY <1>1, UnusedIs, FreshIs, NoWorker DEF BgTypeInv
<1>3. \A w \in Workers : ~WorkerAlive(w)
  BY <1>1 DEF WorkerAlive, Unused
<1>4. ManagerInv
  BY <1>1, FreshIs, NoWorker DEF ManagerInv, Started, WorkerAlive
<1>5. AnswerInv
  BY <1>1, FreshIs, NoWorker DEF AnswerInv, WorkerAlive
<1> QED BY <1>2, <1>3, <1>4, <1>5 DEF WorkersInv, OneLives

LEMMA ForegroundStep ==
    ASSUME WorkersInv, Foreground
    PROVE  WorkersInv'
<1>1. CASE \E cfg \in Settings : TuiStarts(cfg)
  BY <1>1, TuiStartsStep
<1>2. CASE \E ok \in BOOLEAN : Reload(ok)
  BY <1>2, ReloadStep
<1>3. CASE ToggleSelect
  BY <1>3, ToggleSelectStep
<1>4. CASE ToggleProbe
  BY <1>4, ToggleProbeStep
<1>5. CASE Quit
  BY <1>5, QuitStep
<1>6. CASE Leave
  BY <1>6, LeaveStep
<1>7. CASE TuiDies
  BY <1>7, TuiDiesStep
<1> QED BY <1>1, <1>2, <1>3, <1>4, <1>5, <1>6, <1>7 DEF Foreground

LEMMA ManagingStep ==
    ASSUME WorkersInv, Managing
    PROVE  WorkersInv'
<1>1. CASE EnsureFollowed
  BY <1>1, EnsureFollowedStep
<1>2. CASE EnsureRegistered
  BY <1>2, EnsureRegisteredStep
<1>3. CASE SpawnWorker
  BY <1>3, SpawnWorkerStep
<1>4. CASE WaitRegistry
  BY <1>4, WaitRegistryStep
<1>5. CASE InitialConfig
  BY <1>5, InitialConfigStep
<1>6. CASE InitialConfigFails
  BY <1>6, InitialConfigFailsStep
<1>7. CASE StopAsked
  BY <1>7, StopAskedStep
<1>8. CASE StopKilled
  BY <1>8, StopKilledStep
<1>9. CASE KillFails
  BY <1>9, KillFailsStep
<1>10. CASE PollStarts
  BY <1>10, PollStartsStep
<1>11. CASE StatusArrives
  BY <1>11, StatusArrivesStep
<1>12. CASE PollDropped
  BY <1>12, PollDroppedStep
<1>13. CASE PollSnapshot
  BY <1>13, PollSnapshotStep
<1>14. CASE PollGone
  BY <1>14, PollGoneStep
<1> QED BY <1>1, <1>2, <1>3, <1>4, <1>5, <1>6, <1>7, <1>8, <1>9, <1>10, <1>11, <1>12, <1>13,
           <1>14 DEF Managing

LEMMA WorkersStep ==
    ASSUME WorkersInv, [BgNext]_bgVars
    PROVE  WorkersInv'
<1>1. CASE Foreground
  BY <1>1, ForegroundStep
<1>2. CASE Managing
  BY <1>2, ManagingStep
<1>3. ASSUME NEW w \in Workers,
             RegisterBegins(w) \/ RegisterEnds(w) \/ LateConfig(w) \/ Publish(w) \/ WorkerDies(w)
      PROVE  WorkersInv'
  BY <1>3, RegisterBeginsStep, RegisterEndsStep, LateConfigStep, PublishStep, WorkerDiesStep
<1>4. CASE CliStop
  BY <1>4, CliStopStep
<1>5. CASE CliRemoves
  BY <1>5, CliRemovesStep
<1>6. CASE UNCHANGED bgVars
  BY <1>6 DEF bgVars, WorkersInv, BgTypeInv, ManagerInv, AnswerInv, OneLives, Started, WorkerAlive
<1> QED BY <1>1, <1>2, <1>3, <1>4, <1>5, <1>6 DEF BgNext, WorkerSteps

LEMMA OneIsFollowed ==
    ASSUME WorkersInv
    PROVE  OneWorkerFollowed
<1>1. SingleSelector
  <2> SUFFICES ASSUME mishap = {}, NEW v \in Selecting, NEW w \in Selecting
               PROVE  v = w
    BY DEF SingleSelector
  <2>1. v \in Workers /\ w \in Workers /\ WorkerAlive(v) /\ WorkerAlive(w)
    BY DEF Selecting
  <2>2. CASE tui.pc = "wait"
    BY <2>1, <2>2 DEF WorkersInv, OneLives
  <2>3. CASE tui.pc # "wait"
    BY <2>1, <2>3 DEF WorkersInv, OneLives
  <2> QED BY <2>2, <2>3
<1>2. StatusIsFollowed
  <2>1. ~tui.stale
    BY DEF WorkersInv, ManagerInv
  <2>2. ASSUME WorkerAlive(tui.run), mishap = {}
        PROVE  tui.lastGen <= wk[tui.run].gen
    <3>1. tui.run \in Workers /\ tui.run # 0
      BY <2>2, NoWorker DEF WorkerAlive
    <3>2. tui.pc \notin {"wait", "initial"}
      BY <3>1 DEF WorkersInv, ManagerInv
    <3> QED BY <2>2, <3>1, <3>2 DEF WorkersInv, OneLives
  <2> QED BY <2>1, <2>2 DEF StatusIsFollowed
<1> QED BY <1>1, <1>2 DEF OneWorkerFollowed

\* The registry file, the manager and the workers agree: whoever is known was started, an
\* answer does not run ahead of its worker, and without a mishap one worker lives at most, the
\* one that ensure has just spawned or the one that is registered, which is then the one that
\* BackgroundAutoPickManager follows (ensure, spawn, stop and poll; stop_registered_worker).
THEOREM WorkersInvariant == BgSpec => []WorkersInv
<1>1. BgInit => WorkersInv
  BY WorkersInit
<1>2. WorkersInv /\ [BgNext]_bgVars => WorkersInv'
  BY WorkersStep
<1> QED BY <1>1, <1>2, PTL DEF BgSpec

\* Two workers never select nodes at the same time unless a kill failed, a TUI died with a
\* worker that had not registered, or the entry of a live worker was removed; and the status
\* that poll shows is one of the worker that is followed, never older than what was shown.
THEOREM OneWorkerIsFollowed == BgSpec => []OneWorkerFollowed
<1>1. WorkersInv => OneWorkerFollowed
  BY OneIsFollowed
<1> QED BY <1>1, WorkersInvariant, PTL
=============================================================================
