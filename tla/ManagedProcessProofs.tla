------------------------ MODULE ManagedProcessProofs ------------------------
(* Why a manager signals only processes it started, and loses none of them:   *)
(* for every number of managers and pids, any number of failing commands and  *)
(* dying processes, and pids that are given away again at any moment.         *)
(*                                                                            *)
(* What a manager may signal is pinned by what the operating system keeps:    *)
(* the pid of a child nobody has waited for is not given away, and what runs  *)
(* below a sudo wrapper was started for whoever started the wrapper.          *)
EXTENDS ManagedProcess, TLAPS

StartingPcs == {"started", "resolve", "cleanup", "cleaning", "ending"}

(* The table: an unused pid has no attributes; the children of wrappers, one  *)
(* for each; who waits for a process has started it and is there.             *)
Vacant == \A p \in Pids : proc[p].kind = "none" =>
             /\ proc[p].parent = 0 /\ proc[p].by = "none"
             /\ proc[p].reaper = "init" /\ proc[p].st = "up"
Tree == \A p \in Pids : proc[p].parent # 0 =>
           /\ proc[p].kind = "core" /\ proc[p].reaper = "sudo"
           /\ proc[p].st # "zombie" /\ proc[p].parent \in Pids
           /\ proc[proc[p].parent].kind = "sudo"
           /\ proc[proc[p].parent].st = "up"
           /\ proc[proc[p].parent].by = proc[p].by
OneChild == \A p, q \in Pids :
               proc[p].parent = proc[q].parent /\ proc[p].parent # 0 => p = q
Waits == \A p \in Pids :
            /\ proc[p].reaper \in Managers =>
                  proc[p].by = proc[p].reaper /\ platform = "sudo"
            /\ proc[p].kind = "sudo" =>
                  /\ platform = "sudo"
                  /\ proc[p].by \in Managers => proc[p].reaper = proc[p].by
            /\ proc[p].st = "zombie" =>
                  proc[p].reaper \in Managers \cup {"helper"}
            /\ proc[p].by \in Managers => mgr[proc[p].by].pc # "down"
TableInv == Vacant /\ Tree /\ OneChild /\ Waits

(* A child the manager has not waited for: sing-box, or sudo in front of it.  *)
Core(m, c) == c \in Pids /\ proc[c].kind = "core" /\ proc[c].reaper = m
Wrapper(m, w) == w \in Pids /\ proc[w].kind = "sudo" /\ proc[w].reaper = m

(* What a manager knows of its process, by what it owns and where it stands.  *)
Down(m) == mgr[m].pc = "down" => mgr[m] = Blank
OwnsDirect(m) == mgr[m].own = "direct" =>
    /\ mgr[m].pc \in {"idle", "begin", "stop", "ready", "exit"}
    /\ mgr[m].wrapper = 0 /\ Core(m, mgr[m].pid)
OwnsElevated(m) == mgr[m].own = "elevated" =>
    /\ mgr[m].pc \in {"idle", "begin", "stop", "grace", "reap", "ready", "exit"}
    /\ mgr[m].pid # 0 /\ Wrapper(m, mgr[m].wrapper)
    /\ proc[mgr[m].wrapper].st # "start"
    /\ \A p \in Pids : proc[p].parent = mgr[m].wrapper => p = mgr[m].pid
OwnsHelper(m) == mgr[m].own = "helper" =>
    /\ platform = "helper" /\ mgr[m].wrapper = 0
    /\ mgr[m].pc \notin StartingPcs \cup {"grace", "reap"}
OwnsNone(m) == mgr[m].own = "stopped" =>
    /\ mgr[m].pc \notin {"grace", "reap", "halting"}
    /\ mgr[m].pc \notin StartingPcs => mgr[m].pid = 0 /\ mgr[m].wrapper = 0
Starts(m) == mgr[m].pc \in StartingPcs =>
    /\ mgr[m].own = "stopped"
    /\ \/ mgr[m].elevate /\ mgr[m].pid = 0 /\ Wrapper(m, mgr[m].wrapper)
       \/ ~mgr[m].elevate /\ mgr[m].wrapper = 0 /\ Core(m, mgr[m].pid)
       \/ mgr[m].pc \in {"cleaning", "ending"} /\ mgr[m].pid = 0 /\ mgr[m].wrapper = 0
    /\ mgr[m].pc = "resolve" => mgr[m].elevate
    /\ mgr[m].pc = "cleaning" => Child(m) \notin mgr[m].todo
Reaps(m) == mgr[m].pc = "reap" =>
    \A p \in Pids : proc[p].parent # mgr[m].wrapper
Tries(m) == /\ mgr[m].pc \notin StartingPcs \cup {"spawn", "restarting"} => mgr[m].tries = 0
            /\ mgr[m].pc = "spawn" => mgr[m].tries < MaxAttempts
OwnInv(m) == /\ Down(m) /\ OwnsDirect(m) /\ OwnsElevated(m) /\ OwnsHelper(m)
             /\ OwnsNone(m) /\ Starts(m) /\ Reaps(m) /\ Tries(m)

(* Every live process a manager started is the one it owns or starts, or the  *)
(* broker is about to answer for it.                                          *)
Known(m, p) ==
    IF proc[p].kind = "core"
    THEN IF mgr[m].wrapper = 0 THEN p = mgr[m].pid
         ELSE proc[p].parent = mgr[m].wrapper
    ELSE p = mgr[m].wrapper
Claimed(m) == helper.client = m /\ helper.job \in {"spawned", "done"}
Account(m) == (~mgr[m].err /\ "cleanup" \notin wrong) =>
    \A p \in Pids : Alive(p) /\ proc[p].by = m => Known(m, p) \/ Claimed(m)

(* The broker knows the process its clients started, or its pid file does; in *)
(* between it is the child that is not recorded yet.                          *)
HelperChild == IF ~helper.up THEN helper.file
               ELSE IF helper.job = "spawned" THEN helper.fresh ELSE helper.pid
HelperInv ==
    /\ helper.up => platform = "helper"
    /\ helper.up /\ helper.pid # 0 => helper.file = helper.pid
    /\ ~helper.up => helper.pid = 0 /\ helper.job = "idle"
    /\ helper.job = "idle" <=> helper.client = "none"
    /\ helper.job \in {"stopped", "spawned"} => helper.pid = 0
    /\ helper.job = "spawned" => /\ helper.fresh \in Pids
                                 /\ proc[helper.fresh].kind = "core"
                                 /\ proc[helper.fresh].reaper = "helper"
    /\ helper.job = "done" /\ helper.pid # 0 => /\ helper.pid \in Pids
                                                /\ proc[helper.pid].reaper = "helper"
    /\ platform = "helper" =>
          \A p \in Pids : Alive(p) /\ proc[p].by \in Managers =>
             proc[p].kind = "core" /\ p = HelperChild

(* A manager the broker works for waits for the answer to what it asked.      *)
ClientInv == helper.client \in Managers =>
    LET pc == mgr[helper.client].pc
    IN /\ pc \in {"halting", "restarting"}
       /\ helper.job \in {"stopped", "spawned"} => pc = "restarting"
       /\ helper.job = "done" /\ pc = "halting" => helper.pid = 0

OwnershipInv ==
    /\ TypeOK /\ TableInv /\ HelperInv /\ ClientInv
    /\ \A m \in Managers : OwnInv(m) /\ Account(m)
    /\ SparesOthers /\ HelperSparesPrograms

-----------------------------------------------------------------------------
(* The process table.                                                         *)

LEMMA NoProcessType ==
    ASSUME NEW inst \in 0..MaxInst
    PROVE  NoProcess(inst) \in Processes
  BY LimitsAssumption DEF NoProcess, Processes, Originators

LEMMA ExitedIs ==
    ASSUME TypeOK, NEW S \in SUBSET Pids, NEW conflict \in BOOLEAN, NEW p \in Pids
    PROVE  LET r == Exited(proc, S, conflict)[p] IN
           /\ r \in Processes
           /\ p \in Gone(proc, S) /\ Waited(proc, p) =>
                 /\ r.kind = proc[p].kind /\ r.by = proc[p].by
                 /\ r.reaper = proc[p].reaper /\ r.inst = proc[p].inst
                 /\ r.parent = proc[p].parent /\ r.st = "zombie"
           /\ p \in Gone(proc, S) /\ ~Waited(proc, p) =>
                 r = NoProcess(proc[p].inst)
           /\ p \notin Gone(proc, S) =>
                 /\ r.kind = proc[p].kind /\ r.by = proc[p].by
                 /\ r.reaper = proc[p].reaper /\ r.inst = proc[p].inst
                 /\ r.st = proc[p].st
                 /\ r.parent = IF proc[p].parent \in Gone(proc, S) THEN 0
                               ELSE proc[p].parent
<1> DEFINE r == Exited(proc, S, conflict)[p]
<1>1. proc[p] \in Processes
  BY DEF TypeOK
<1>2. CASE p \in Gone(proc, S) /\ Waited(proc, p)
  <2>1. PICK old \in Processes : old = proc[p]
    BY <1>1
  <2>2. PICK after : after = [old EXCEPT !.st = "zombie", !.conflict = conflict]
    OBVIOUS
  <2>3. /\ after \in Processes /\ after.kind = old.kind /\ after.by = old.by
        /\ after.reaper = old.reaper /\ after.inst = old.inst
        /\ after.parent = old.parent /\ after.st = "zombie"
    BY <2>2 DEF Processes
  <2>4. r = after
    BY <1>2, <2>1, <2>2 DEF Exited
  <2> QED
    BY <1>2, <2>1, <2>3, <2>4
<1>3. CASE p \in Gone(proc, S) /\ ~Waited(proc, p)
  <2>1. r = NoProcess(proc[p].inst)
    BY <1>3 DEF Exited
  <2>2. proc[p].inst \in 0..MaxInst
    BY <1>1 DEF Processes
  <2> QED
    BY <1>3, <2>1, <2>2, NoProcessType
<1>4. CASE p \notin Gone(proc, S)
  <2>1. PICK parent \in 0..MaxPid :
           /\ parent = IF proc[p].parent \in Gone(proc, S) THEN 0
                       ELSE proc[p].parent
           /\ r = [proc[p] EXCEPT !.parent = parent]
    BY <1>1, <1>4, LimitsAssumption DEF Exited, Processes
  <2> QED
    BY <1>1, <1>4, <2>1 DEF Processes
<1> QED
  BY <1>2, <1>3, <1>4

(* The processes of S and their wrappers end, and those of R are waited for;  *)
(* what ran below a wrapper may be nobody's now.                              *)
Unused(r) == /\ r.kind = "none" /\ r.parent = 0 /\ r.by = "none"
             /\ r.reaper = "init" /\ r.st = "up"
Ended(after, S, R) ==
    /\ after \in [Pids -> Processes]
    /\ \A p \in Pids :
          /\ p \in Gone(proc, S) =>
                IF Waited(proc, p) /\ p \notin R
                THEN /\ after[p].kind = proc[p].kind /\ after[p].by = proc[p].by
                     /\ after[p].reaper = proc[p].reaper
                     /\ after[p].parent = proc[p].parent
                     /\ after[p].st = "zombie"
                ELSE Unused(after[p])
          /\ p \notin Gone(proc, S) =>
                IF p \in R /\ proc[p].st = "zombie" THEN Unused(after[p])
                ELSE /\ after[p].kind = proc[p].kind
                     /\ \/ after[p].by = proc[p].by
                        \/ after[p].by = "untold" /\ proc[p].parent \in Gone(proc, S)
                     /\ after[p].reaper = proc[p].reaper
                     /\ after[p].st = proc[p].st
                     /\ after[p].parent = IF proc[p].parent \in Gone(proc, S)
                                          THEN 0 ELSE proc[p].parent

LEMMA UnusedIs ==
    ASSUME NEW inst
    PROVE  Unused(NoProcess(inst)) /\ NoProcess(inst).st # "zombie"
  BY DEF Unused, NoProcess

LEMMA ExitedEnds ==
    ASSUME TypeOK, NEW S \in SUBSET Pids, NEW conflict \in BOOLEAN,
           NEW after, after = Exited(proc, S, conflict)
    PROVE  Ended(after, S, {})
<1>1. after \in [Pids -> Processes]
  BY ExitedIs DEF Exited
<1> SUFFICES ASSUME NEW p \in Pids
             PROVE  /\ p \in Gone(proc, S) =>
                          IF Waited(proc, p)
                          THEN /\ after[p].kind = proc[p].kind
                               /\ after[p].by = proc[p].by
                               /\ after[p].reaper = proc[p].reaper
                               /\ after[p].parent = proc[p].parent
                               /\ after[p].st = "zombie"
                          ELSE Unused(after[p])
                    /\ p \notin Gone(proc, S) =>
                          /\ after[p].kind = proc[p].kind
                          /\ after[p].by = proc[p].by
                          /\ after[p].reaper = proc[p].reaper
                          /\ after[p].st = proc[p].st
                          /\ after[p].parent =
                                IF proc[p].parent \in Gone(proc, S) THEN 0
                                ELSE proc[p].parent
  BY <1>1 DEF Ended
<1> QED
  BY ExitedIs, UnusedIs

LEMMA ReapedEnds ==
    ASSUME TypeOK, NEW S \in SUBSET Pids, NEW conflict \in BOOLEAN, NEW R,
           NEW after, after = Reaped(Exited(proc, S, conflict), R)
    PROVE  Ended(after, S, R)
<1> DEFINE mid == Exited(proc, S, conflict)
<1>1. ASSUME NEW p \in Pids
      PROVE  /\ mid[p].inst \in 0..MaxInst
             /\ after[p] = IF p \in R /\ mid[p].st = "zombie"
                           THEN NoProcess(mid[p].inst) ELSE mid[p]
  BY ExitedIs DEF Reaped, Processes
<1>2. after \in [Pids -> Processes]
  BY ZenonT(40), <1>1, ExitedIs, NoProcessType DEF Reaped
<1>3. ASSUME NEW p \in Pids, p \in R, mid[p].st = "zombie"
      PROVE  Unused(after[p])
  <2>1. after[p] = NoProcess(mid[p].inst)
    BY <1>1, <1>3
  <2> QED
    BY <2>1, UnusedIs
<1>4. ASSUME NEW p \in Pids, ~(p \in R /\ mid[p].st = "zombie")
      PROVE  after[p] = mid[p]
  BY <1>1, <1>4
<1> QED
  BY <1>2, <1>3, <1>4, UnusedIs, ExitedIs DEF Ended

LEMMA OnlyReapedEnds ==
    ASSUME TypeOK, NEW R, NEW after, after = Reaped(proc, R)
    PROVE  Ended(after, {}, R)
<1>1. ASSUME NEW p \in Pids
      PROVE  /\ proc[p].inst \in 0..MaxInst
             /\ after[p] = IF p \in R /\ proc[p].st = "zombie"
                           THEN NoProcess(proc[p].inst) ELSE proc[p]
  BY DEF Reaped, Processes, TypeOK
<1>2. after \in [Pids -> Processes]
  BY <1>1, NoProcessType DEF Reaped, TypeOK
<1>3. Gone(proc, {}) = {}
  BY DEF Gone
<1> QED
  BY <1>1, <1>2, <1>3 DEF Ended, Unused, NoProcess

(* A wrapper's child is not a wrapper, and what ends takes its wrapper along. *)
LEMMA GoneIs ==
    ASSUME TypeOK, TableInv, NEW S \in SUBSET Pids
    PROVE  /\ Gone(proc, S) \subseteq Pids /\ S \subseteq Gone(proc, S)
           /\ \A p \in Pids : p \in Gone(proc, S) /\ p \notin S =>
                 \E c \in S : proc[c].parent = p /\ proc[c].by = proc[p].by
                              /\ proc[c].kind = "core"
<1>1. Gone(proc, S) \subseteq Pids /\ S \subseteq Gone(proc, S)
  BY DEF Gone
<1>2. ASSUME NEW p \in Pids, p \in Gone(proc, S), p \notin S
      PROVE  \E c \in S : proc[c].parent = p /\ proc[c].by = proc[p].by
                          /\ proc[c].kind = "core"
  <2>1. PICK c \in S : proc[c].parent = p
    BY <1>2 DEF Gone
  <2>2. p # 0
    BY DEF Pids
  <2> QED
    BY <2>1, <2>2 DEF TableInv, Tree
<1> QED
  BY <1>1, <1>2

(* The table keeps its invariant when processes end.                          *)
LEMMA EndedTable ==
    ASSUME TypeOK, TableInv, NEW S \in SUBSET Pids, NEW R, Ended(proc', S, R),
           platform' = platform,
           \A m \in Managers : mgr'[m].pc = "down" => mgr[m].pc = "down"
    PROVE  TableInv'
<1>1. Vacant'
  <2> SUFFICES ASSUME NEW p \in Pids, proc'[p].kind = "none"
               PROVE  Unused(proc'[p])
    BY DEF Vacant, Unused
  <2>1. \A q \in Pids : proc[q].kind = "none" => ~Waited(proc, q)
    BY ManagersAssumption DEF TableInv, Vacant, Waited
  <2>2. proc[p].kind = "none" => proc[p].parent \notin Gone(proc, S)
    BY GoneIs, LimitsAssumption DEF TableInv, Vacant, Pids
  <2> QED
    BY <2>1, <2>2 DEF Ended, TableInv, Vacant, Unused
<1>2. ASSUME NEW p \in Pids, proc'[p].parent # 0
      PROVE  /\ proc'[p].parent = proc[p].parent /\ proc[p].parent \in Pids
             /\ p \notin Gone(proc, S) /\ proc[p].parent \notin Gone(proc, S)
             /\ proc[p].st # "zombie"
             /\ proc[proc[p].parent].st # "zombie"
  <2>1. p \in Gone(proc, S) => ~Waited(proc, p) \/ proc[p].parent = 0
    BY ManagersAssumption DEF TableInv, Tree, Waited
  <2> QED
    BY <1>2, <2>1 DEF Ended, Unused, TableInv, Tree
<1>3. Tree'
  <2> SUFFICES ASSUME NEW p \in Pids, proc'[p].parent # 0
               PROVE  /\ proc'[p].kind = "core" /\ proc'[p].reaper = "sudo"
                      /\ proc'[p].st # "zombie" /\ proc'[p].parent \in Pids
                      /\ proc'[proc'[p].parent].kind = "sudo"
                      /\ proc'[proc'[p].parent].st = "up"
                      /\ proc'[proc'[p].parent].by = proc'[p].by
    BY DEF Tree
  <2> DEFINE w == proc[p].parent
  <2>1. /\ proc'[p].parent = w /\ w \in Pids /\ w # 0 /\ p \notin Gone(proc, S)
        /\ w \notin Gone(proc, S) /\ proc[p].st # "zombie" /\ proc[w].st # "zombie"
    BY <1>2, LimitsAssumption DEF Pids
  <2>2. /\ proc[p].kind = "core" /\ proc[p].reaper = "sudo" /\ proc[w].kind = "sudo"
        /\ proc[w].st = "up" /\ proc[w].by = proc[p].by /\ proc[w].parent = 0
    BY <2>1 DEF TableInv, Tree
  <2>3. proc[w].parent \notin Gone(proc, S)
    BY <2>2, GoneIs DEF Pids
  <2> HIDE DEF w
  <2>4. /\ proc'[p].kind = proc[p].kind /\ proc'[p].reaper = proc[p].reaper
        /\ proc'[p].st = proc[p].st /\ proc'[p].by = proc[p].by
    BY <2>1 DEF Ended, w
  <2>5. /\ proc'[w].kind = proc[w].kind /\ proc'[w].st = proc[w].st
        /\ proc'[w].by = proc[w].by
    BY <2>1, <2>3 DEF Ended
  <2> QED
    BY <2>1, <2>2, <2>4, <2>5
<1>4. OneChild'
  BY <1>2 DEF TableInv, OneChild
<1>5. Waits'
  <2> SUFFICES ASSUME NEW p \in Pids
               PROVE  /\ proc'[p].reaper \in Managers =>
                            proc'[p].by = proc'[p].reaper /\ platform = "sudo"
                      /\ proc'[p].kind = "sudo" =>
                            /\ platform = "sudo"
                            /\ proc'[p].by \in Managers =>
                                  proc'[p].reaper = proc'[p].by
                      /\ proc'[p].st = "zombie" =>
                            proc'[p].reaper \in Managers \cup {"helper"}
                      /\ proc'[p].by \in Managers => mgr'[proc'[p].by].pc # "down"
    BY DEF Waits
  <2>1. CASE Unused(proc'[p])
    BY <2>1, ManagersAssumption DEF Unused
  <2>2. CASE ~Unused(proc'[p])
    <3>1. /\ proc'[p].kind = proc[p].kind
          /\ \/ proc'[p].by = proc[p].by
             \/ /\ proc'[p].by \notin Managers
                /\ proc[p].kind = "core" /\ proc[p].reaper \notin Managers
          /\ proc'[p].reaper = proc[p].reaper
          /\ proc'[p].st = proc[p].st \/ Waited(proc, p)
      BY <2>2, GoneIs, ManagersAssumption DEF Ended, TableInv, Tree, Pids
    <3>2. Waited(proc, p) => proc[p].reaper \in Managers \cup {"helper"}
      BY DEF Waited
    <3> QED
      BY <3>1, <3>2 DEF TableInv, Waits
  <2> QED
    BY <2>1, <2>2
<1> QED
  BY <1>1, <1>3, <1>4, <1>5 DEF TableInv

-----------------------------------------------------------------------------
(* What a step must leave alone.                                              *)

(* The children manager n waits for stay, and its wrappers get no other child.*)
Steady(n) == \A p \in Pids :
    /\ proc[p].reaper = n =>
          /\ proc'[p].kind = proc[p].kind /\ proc'[p].reaper = n
          /\ proc[p].st # "start" => proc'[p].st # "start"
    /\ proc'[p].parent # 0 =>
          \/ proc'[p].parent = proc[p].parent
          \/ proc[proc'[p].parent].st = "start"

(* What runs for manager n ran for it before.                                 *)
Continues(n) == \A p \in Pids : Alive(p)' /\ proc'[p].by = n =>
    /\ Alive(p) /\ proc[p].by = n
    /\ proc'[p].kind = proc[p].kind /\ proc'[p].parent = proc[p].parent

(* Whom the broker may be asked about, and its children.                      *)
Remains == \A p \in Pids :
    /\ Alive(p)' /\ proc'[p].by \in Managers =>
          /\ Alive(p) /\ proc[p].by \in Managers /\ proc'[p].kind = proc[p].kind
    /\ helper.up /\ proc[p].reaper = "helper" =>
          proc'[p].kind = proc[p].kind /\ proc'[p].reaper = "helper"

LEMMA OwnFrame ==
    ASSUME TypeOK, NEW n \in Managers, OwnInv(n), Steady(n),
           mgr'[n] = mgr[n], platform' = platform
    PROVE  OwnInv(n)'
<1>1. \A p \in Pids : mgr[n].wrapper # 0 /\ proc'[p].parent = mgr[n].wrapper =>
         proc[p].parent = mgr[n].wrapper \/ proc[mgr[n].wrapper].st = "start"
  BY DEF Steady
<1>2. \A c : (Core(n, c) => Core(n, c)') /\ (Wrapper(n, c) => Wrapper(n, c)')
  BY DEF Steady, Core, Wrapper
<1>3. \A c : Wrapper(n, c) => /\ c # 0
                              /\ proc[c].st # "start" => proc'[c].st # "start"
  BY DEF Steady, Wrapper, Pids
<1>4. Down(n)' /\ OwnsDirect(n)' /\ OwnsHelper(n)' /\ OwnsNone(n)' /\ Tries(n)'
  BY <1>2 DEF OwnInv, Down, OwnsDirect, OwnsHelper, OwnsNone, Tries, Core
<1>5. OwnsElevated(n)'
  BY <1>1, <1>2, <1>3 DEF OwnInv, OwnsElevated, Wrapper
<1>6. Starts(n)'
  BY <1>2 DEF OwnInv, Starts, Core, Wrapper, Child
<1>7. Reaps(n)'
  <2>1. CASE mgr[n].pc = "reap"
    <3>1. mgr[n].own = "elevated"
      BY <2>1 DEF OwnInv, OwnsDirect, OwnsHelper, OwnsNone, TypeOK, Owners
    <3> QED
      BY <1>1, <1>3, <2>1, <3>1 DEF OwnInv, OwnsElevated, Reaps, Wrapper
  <2>2. CASE mgr[n].pc # "reap"
    BY <2>2 DEF Reaps
  <2> QED
    BY <2>1, <2>2
<1> QED
  BY <1>4, <1>5, <1>6, <1>7 DEF OwnInv

LEMMA AccountFrame ==
    ASSUME NEW n \in Managers, Account(n), Continues(n), wrong \subseteq wrong',
           Claimed(n) => Claimed(n)',
           mgr'[n].pid = mgr[n].pid, mgr'[n].wrapper = mgr[n].wrapper,
           mgr[n].err => mgr'[n].err
    PROVE  Account(n)'
  BY DEF Account, Continues, Known

LEMMA HelperFrame ==
    ASSUME HelperInv, Remains, helper' = helper, platform' = platform
    PROVE  HelperInv'
  BY DEF HelperInv, HelperChild, Remains

(* A step that leaves the table alone.                                        *)
LEMMA StillTable ==
    ASSUME proc' = proc
    PROVE  Remains /\ \A n \in Managers : Steady(n) /\ Continues(n)
  BY DEF Remains, Steady, Continues, Alive

(* A step that ends processes: S end, R are waited for.                       *)
LEMMA EndedRemains ==
    ASSUME TypeOK, NEW S \in SUBSET Pids, NEW R, Ended(proc', S, R),
           \A p \in R \cap Pids : proc[p].reaper # "helper"
    PROVE  Remains
<1>1. ASSUME NEW p \in Pids, Alive(p)', proc'[p].by \in Managers
      PROVE  Alive(p) /\ proc[p].by \in Managers /\ proc'[p].kind = proc[p].kind
  BY <1>1, ManagersAssumption DEF Ended, Alive, Unused
<1>2. ASSUME NEW p \in Pids, helper.up, proc[p].reaper = "helper"
      PROVE  proc'[p].kind = proc[p].kind /\ proc'[p].reaper = "helper"
  BY <1>2 DEF Ended, Waited
<1> QED
  BY <1>1, <1>2 DEF Remains

LEMMA EndedFrame ==
    ASSUME TypeOK, TableInv, NEW S \in SUBSET Pids, NEW R, Ended(proc', S, R),
           NEW n \in Managers
    PROVE  /\ (\A p \in R \cap Pids : proc[p].reaper # n) => Steady(n)
           /\ (\A p \in Pids : proc[p].parent \in S => p \in S) => Continues(n)
           /\ (\A p \in S : proc[p].by # n) => Continues(n)
           /\ \A p \in Gone(proc, S) : ~Alive(p)'
<1>1. ASSUME NEW p \in Pids, Alive(p)'
      PROVE  \/ Unused(proc'[p])
             \/ /\ p \notin Gone(proc, S) /\ Alive(p)
                /\ proc'[p].kind = proc[p].kind
                /\ proc'[p].by \in Managers => proc'[p].by = proc[p].by
                /\ proc'[p].parent = IF proc[p].parent \in Gone(proc, S)
                                     THEN 0 ELSE proc[p].parent
  BY <1>1, ManagersAssumption DEF Ended, Alive
<1>2. ASSUME NEW p \in Pids, Unused(proc'[p])
      PROVE  ~Alive(p)'
  BY <1>2 DEF Unused, Alive
<1>4. ASSUME NEW p \in Gone(proc, S)
      PROVE  ~Alive(p)'
  BY <1>1, <1>2, GoneIs
<1>5. ASSUME \A p \in R \cap Pids : proc[p].reaper # n
      PROVE  Steady(n)
  <2>1. ASSUME NEW p \in Pids, proc[p].reaper = n
        PROVE  Waited(proc, p) /\ p \notin R
    BY <1>5, <2>1 DEF Waited, TableInv, Waits
  <2> QED
    BY <2>1 DEF Steady, Ended, Unused, TableInv, Tree
<1>6. ASSUME NEW p \in Pids, proc[p].parent \in Gone(proc, S),
             p \notin Gone(proc, S)
      PROVE  /\ proc[p].parent \in S
             /\ proc[proc[p].parent].by = proc[p].by
  <2>1. proc[p].parent \in Pids /\ proc[p].parent # 0
    BY <1>6, GoneIs DEF Pids
  <2>2. proc[proc[p].parent].by = proc[p].by
    BY <2>1 DEF TableInv, Tree
  <2>3. ASSUME proc[p].parent \notin S
        PROVE  FALSE
    <3>1. PICK c \in S : proc[c].parent = proc[p].parent
      BY <1>6, <2>1, <2>3, GoneIs
    <3>2. c = p
      BY <2>1, <3>1 DEF TableInv, OneChild
    <3> QED
      BY <1>6, <3>1, <3>2, GoneIs
  <2> QED
    BY <2>2, <2>3
<1>7. ASSUME \A p \in Pids : proc[p].parent \in S => p \in S
      PROVE  Continues(n)
  BY <1>1, <1>2, <1>6, <1>7, GoneIs DEF Continues
<1>8. ASSUME \A p \in S : proc[p].by # n
      PROVE  Continues(n)
  BY <1>1, <1>2, <1>6, <1>8 DEF Continues
<1> QED
  BY <1>4, <1>5, <1>7, <1>8

-----------------------------------------------------------------------------
(* The record of the manager that acts.                                       *)

(* Manager m now has the record r; nobody else's changed.                     *)
Becomes(m, r) == /\ r \in Owners /\ mgr' \in [Managers -> Owners]
                 /\ mgr'[m] = r /\ \A n \in Managers \ {m} : mgr'[n] = mgr[n]

LEMMA Update ==
    ASSUME TypeOK, NEW m \in Managers, NEW r \in Owners,
           mgr' = [mgr EXCEPT ![m] = r]
    PROVE  Becomes(m, r)
  BY DEF TypeOK, Becomes

LEMMA FailsIs ==
    ASSUME TypeOK, NEW m \in Managers, NEW r \in Owners, OpFails(m, r)
    PROVE  \E a : /\ Becomes(m, a) /\ a.pc \in {"exit", "idle"}
                  /\ a.tries = 0 /\ a.own = r.own /\ a.pid = r.pid
                  /\ a.wrapper = r.wrapper /\ a.err = r.err
<1>1. PICK pc \in {"exit", "idle"} :
         pc = IF r.op = "start" THEN "exit" ELSE "idle"
  OBVIOUS
<1>0. PICK zero \in 0..MaxAttempts : zero = 0
  BY LimitsAssumption
<1>no. PICK no \in BOOLEAN : no = FALSE
  OBVIOUS
<1>2. PICK a : a = [r EXCEPT !.pc = pc, !.op = "none", !.tries = zero,
                             !.elevate = no]
  OBVIOUS
<1>3. /\ a \in Owners /\ a.pc = pc /\ a.tries = 0 /\ a.own = r.own
      /\ a.pid = r.pid /\ a.wrapper = r.wrapper /\ a.err = r.err
  BY ZenonT(40), <1>0, <1>2 DEF Owners, Pcs, Ops
<1>4. mgr' = [mgr EXCEPT ![m] = a]
  BY <1>0, <1>no, <1>1, <1>2 DEF OpFails
<1> QED
  BY <1>1, <1>3, <1>4, Update

LEMMA SpawnedIs ==
    ASSUME NEW m \in Managers, mgr[m] \in Owners
    PROVE  /\ Spawned(m) \in Owners /\ Spawned(m).pc \in {"ready", "idle"}
           /\ Spawned(m).tries = 0 /\ Spawned(m).pid = mgr[m].pid
           /\ Spawned(m).wrapper = mgr[m].wrapper
           /\ Spawned(m).err = mgr[m].err
<1>1. PICK pc \in {"ready", "idle"} :
         pc = IF mgr[m].op = "start" THEN "ready" ELSE "idle"
  OBVIOUS
<1>2. PICK op \in {"start", "none"} :
         op = IF mgr[m].op = "start" THEN mgr[m].op ELSE "none"
  OBVIOUS
<1>3. PICK zero \in 0..MaxAttempts : zero = 0
  BY LimitsAssumption
<1>4. PICK no \in BOOLEAN : no = FALSE
  OBVIOUS
<1>5. PICK r \in Owners : r = mgr[m]
  OBVIOUS
<1>6. [r EXCEPT !.pc = pc].op = r.op
  BY DEF Owners
<1>7. PICK a : a = [r EXCEPT !.pc = pc, !.op = op, !.tries = zero, !.elevate = no]
  OBVIOUS
<1>8. a \in Owners /\ a.pc = pc /\ a.tries = zero /\ a.pid = r.pid
      /\ a.wrapper = r.wrapper /\ a.err = r.err
  BY ZenonT(40), <1>7 DEF Owners, Pcs, Ops
<1>9. Spawned(m) = a
  BY <1>1, <1>2, <1>3, <1>4, <1>5, <1>6, <1>7, Zenon DEF Spawned
<1> QED
  BY <1>3, <1>5, <1>8, <1>9

LEMMA StopDoneIs ==
    ASSUME TypeOK, NEW m \in Managers, StopDone(m)
    PROVE  \E a : /\ Becomes(m, a) /\ a.pc \in {"exit", "spawn"}
                  /\ a.own = "stopped" /\ a.pid = 0 /\ a.wrapper = 0
                  /\ a.tries = mgr[m].tries /\ a.err = mgr[m].err
<1>1. PICK pc \in {"exit", "spawn"} :
         pc = IF mgr[m].op \in {"start", "restart"} THEN "spawn" ELSE "exit"
  OBVIOUS
<1>0. PICK nobody \in 0..MaxPid, none \in 0..MaxInst : nobody = 0 /\ none = 0
  BY LimitsAssumption
<1>2. PICK a : a = [mgr[m] EXCEPT !.own = "stopped", !.pid = nobody,
                                  !.wrapper = nobody, !.token = none, !.pc = pc]
  OBVIOUS
<1>3. mgr[m] \in Owners
  BY DEF TypeOK
<1>4. /\ a \in Owners /\ a.pc = pc /\ a.own = "stopped" /\ a.pid = 0
      /\ a.wrapper = 0 /\ a.tries = mgr[m].tries /\ a.err = mgr[m].err
  BY <1>0, <1>2, <1>3 DEF Owners, Pcs
<1>5. mgr' = [mgr EXCEPT ![m] = a]
  BY <1>0, <1>1, <1>2 DEF StopDone
<1> QED
  BY <1>1, <1>4, <1>5, Update

LEMMA StopFailsIs ==
    ASSUME TypeOK, NEW m \in Managers, StopFails(m)
    PROVE  \E a : /\ Becomes(m, a) /\ a.pc \in {"exit", "idle", "stop"}
                  /\ a.own = mgr[m].own /\ a.pid = mgr[m].pid
                  /\ a.wrapper = mgr[m].wrapper
                  /\ a.tries = mgr[m].tries /\ a.err = mgr[m].err
<1>1. PICK pc \in {"exit", "idle", "stop"} :
         pc = CASE mgr[m].op = "restart" -> "idle"
                [] mgr[m].op = "drop" -> "exit"
                [] OTHER -> "stop"
  OBVIOUS
<1>2. PICK op \in {"none", "drop"} :
         op = IF mgr[m].op = "restart" THEN "none" ELSE "drop"
  OBVIOUS
<1>0. PICK none \in 0..MaxInst : none = 0
  BY LimitsAssumption
<1>3. PICK a : a = [mgr[m] EXCEPT !.token = none, !.op = op, !.pc = pc]
  OBVIOUS
<1>4. mgr[m] \in Owners
  BY DEF TypeOK
<1>5. /\ a \in Owners /\ a.pc = pc /\ a.own = mgr[m].own
      /\ a.pid = mgr[m].pid /\ a.wrapper = mgr[m].wrapper
      /\ a.tries = mgr[m].tries /\ a.err = mgr[m].err
  BY ZenonT(40), <1>0, <1>3, <1>4 DEF Owners, Pcs, Ops
<1>6. mgr' = [mgr EXCEPT ![m] = a]
  BY <1>0, <1>1, <1>2, <1>3, Zenon DEF StopFails
<1> QED
  BY <1>1, <1>5, <1>6, Update

-----------------------------------------------------------------------------
(* How the parts of the invariant are put together again.                     *)

(* Manager m may go on: the broker does not work for it.                      *)
Unserved(m) == mgr[m].pc \notin {"halting", "restarting"} \/ helper.client # m

LEMMA ClientFrame ==
    ASSUME ClientInv, NEW m \in Managers, Unserved(m), helper' = helper,
           \A n \in Managers \ {m} : mgr'[n] = mgr[n]
    PROVE  ClientInv' /\ helper.client # m /\ \A n : Claimed(n) => Claimed(n)'
  BY DEF ClientInv, Unserved, Claimed

LEMMA ActorStep ==
    ASSUME OwnershipInv, NEW m \in Managers, NEW r, Becomes(m, r),
           TypeOK', platform' = platform, TableInv', HelperInv', ClientInv',
           \A n \in Managers \ {m} :
              /\ Steady(n) /\ (Continues(n) \/ "cleanup" \in wrong')
              /\ Claimed(n) => Claimed(n)',
           wrong \subseteq wrong', SparesOthers', HelperSparesPrograms',
           OwnInv(m)', Account(m)'
    PROVE  OwnershipInv'
<1>1. ASSUME NEW n \in Managers \ {m}
      PROVE  OwnInv(n)' /\ Account(n)'
  <2>1. OwnInv(n)'
    BY <1>1, OwnFrame DEF OwnershipInv, Becomes
  <2>2. CASE Continues(n)
    BY <1>1, <2>1, <2>2, AccountFrame DEF OwnershipInv, Becomes
  <2>3. CASE "cleanup" \in wrong'
    BY <2>1, <2>3 DEF Account
  <2> QED
    BY <1>1, <2>1, <2>2, <2>3
<1> QED
  BY <1>1 DEF OwnershipInv

(* Only the manager's record changes.                                         *)
LEMMA QuietStep ==
    ASSUME OwnershipInv, NEW m \in Managers, NEW r, Becomes(m, r), Unserved(m),
           UNCHANGED <<platform, proc, port, helper, wrong>>, tun' \in BOOLEAN,
           faults' \in 0..MaxFaults, r.pc # "down", OwnInv(m)', Account(m)'
    PROVE  OwnershipInv'
<1>1. TypeOK'
  BY DEF OwnershipInv, TypeOK, Becomes
<1>2. TableInv'
  BY DEF OwnershipInv, TableInv, Vacant, Tree, OneChild, Waits, Becomes
<1>3. HelperInv' /\ SparesOthers' /\ HelperSparesPrograms'
  BY StillTable, HelperFrame DEF OwnershipInv, SparesOthers, HelperSparesPrograms
<1>4. ClientInv' /\ \A n : Claimed(n) => Claimed(n)'
  BY ClientFrame DEF OwnershipInv, Becomes
<1> QED
  BY <1>1, <1>2, <1>3, <1>4, StillTable, ActorStep

(* ... and it still knows the same process.                                   *)
LEMMA TalkStep ==
    ASSUME OwnershipInv, NEW m \in Managers, NEW r, Becomes(m, r), Unserved(m),
           UNCHANGED <<platform, proc, port, helper, wrong>>, tun' \in BOOLEAN,
           faults' \in 0..MaxFaults, r.pc # "down", OwnInv(m)',
           r.pid = mgr[m].pid, r.wrapper = mgr[m].wrapper, mgr[m].err => r.err
    PROVE  OwnershipInv'
<1>1. Account(m)'
  BY StillTable, ClientFrame, AccountFrame DEF OwnershipInv, Becomes
<1> QED
  BY <1>1, QuietStep

LEMMA FaultIs ==
    ASSUME TypeOK, Fault \/ UNCHANGED faults
    PROVE  faults' \in 0..MaxFaults
  BY LimitsAssumption DEF TypeOK, Fault

-----------------------------------------------------------------------------
(* Control moves on; the process stays the one it was.                        *)

LEMMA OwnSame ==
    ASSUME TypeOK, NEW m \in Managers, OwnInv(m), Steady(m), NEW r, Becomes(m, r),
           platform' = platform, mgr[m].pc \notin StartingPcs,
           r.own = mgr[m].own, r.pid = mgr[m].pid, r.wrapper = mgr[m].wrapper,
           \/ r.pc \in {"idle", "begin", "stop", "ready", "exit"} /\ r.tries = 0
           \/ r.pc = "spawn" /\ r.own \in {"stopped", "helper"} /\ r.tries < MaxAttempts
           \/ r.pc = "halting" /\ r.own = "helper" /\ r.tries = 0
           \/ r.pc = "restarting" /\ r.own \in {"stopped", "helper"}
           \/ /\ r.pc \in {"grace", "reap"} /\ r.own = "elevated" /\ r.tries = 0
              /\ r.pc = "reap" => \A p \in Pids : proc'[p].parent # r.wrapper
    PROVE  OwnInv(m)'
<1>1. mgr'[m] = r
  BY DEF Becomes
<1>2. \A c : (Core(m, c) => Core(m, c)') /\ (Wrapper(m, c) => Wrapper(m, c)')
  BY DEF Steady, Core, Wrapper
<1>3. Down(m)' /\ OwnsDirect(m)' /\ OwnsHelper(m)' /\ OwnsNone(m)' /\ Tries(m)'
  BY <1>1, <1>2 DEF OwnInv, Down, OwnsDirect, OwnsHelper, OwnsNone, Tries,
                    StartingPcs, Core
<1>4. Starts(m)' /\ Reaps(m)'
  BY <1>1 DEF Starts, Reaps, StartingPcs
<1>5. OwnsElevated(m)'
  BY <1>1, <1>2 DEF OwnInv, OwnsElevated, Wrapper, Steady, Pids
<1> QED
  BY <1>3, <1>4, <1>5 DEF OwnInv

LEMMA Moves ==
    ASSUME OwnershipInv, NEW m \in Managers, NEW r, Becomes(m, r), Unserved(m),
           UNCHANGED <<platform, proc, port, helper, wrong>>, tun' \in BOOLEAN,
           Fault \/ UNCHANGED faults, mgr[m].pc \notin StartingPcs,
           r.own = mgr[m].own, r.pid = mgr[m].pid, r.wrapper = mgr[m].wrapper,
           r.err = mgr[m].err,
           \/ r.pc \in {"idle", "begin", "stop", "ready", "exit"} /\ r.tries = 0
           \/ r.pc = "spawn" /\ r.own \in {"stopped", "helper"} /\ r.tries < MaxAttempts
    PROVE  OwnershipInv'
<1>1. OwnInv(m)'
  BY StillTable, OwnSame DEF OwnershipInv
<1>2. faults' \in 0..MaxFaults /\ r.pc # "down"
  BY FaultIs DEF OwnershipInv
<1> QED
  BY <1>1, <1>2, TalkStep

LEMMA Facts ==
    ASSUME OwnershipInv, NEW m \in Managers
    PROVE  /\ mgr[m] \in Owners /\ tun \in BOOLEAN /\ OwnInv(m) /\ Account(m)
           /\ mgr[m].pc \notin StartingPcs \cup {"spawn", "restarting"} => mgr[m].tries = 0
           /\ mgr[m].pc \notin {"halting", "restarting"} => Unserved(m) /\ ~Claimed(m)
  BY DEF Unserved, Claimed, ClientInv, OwnershipInv, TypeOK, OwnInv, Tries

LEMMA UserStep ==
    ASSUME OwnershipInv, NEW m \in Managers,
           \/ \E policy \in {"stop", "leave"} : Launch(m, policy)
           \/ UserRestart(m) \/ UserQuit(m) \/ LeaveRunning(m) \/ ToggleTun(m)
    PROVE  OwnershipInv'
<1> USE Facts
<1>1. CASE \E policy \in {"stop", "leave"} : Launch(m, policy)
  <2>1. PICK policy \in {"stop", "leave"} : Launch(m, policy)
    BY <1>1
  <2>2. PICK r : r = [mgr[m] EXCEPT !.pc = "begin", !.op = "start", !.policy = policy]
    OBVIOUS
  <2>3. /\ r \in Owners /\ r.pc = "begin" /\ r.own = mgr[m].own
        /\ r.pid = mgr[m].pid /\ r.wrapper = mgr[m].wrapper
        /\ r.tries = mgr[m].tries /\ r.err = mgr[m].err
    BY ZenonT(40), <2>2 DEF Owners, Pcs, Ops
  <2>4. Becomes(m, r)
    BY <2>1, <2>2, <2>3 DEF OwnershipInv, TypeOK, Becomes, Launch
  <2> QED
    BY <2>1, <2>3, <2>4, Moves DEF Launch, Step, Quiet, StartingPcs
<1>2. CASE UserRestart(m)
  <2>2. PICK r : r = [mgr[m] EXCEPT !.pc = "begin", !.op = "restart"]
    OBVIOUS
  <2>3. /\ r \in Owners /\ r.pc = "begin" /\ r.own = mgr[m].own
        /\ r.pid = mgr[m].pid /\ r.wrapper = mgr[m].wrapper
        /\ r.tries = mgr[m].tries /\ r.err = mgr[m].err
    BY ZenonT(40), <2>2 DEF Owners, Pcs, Ops
  <2>4. Becomes(m, r)
    BY <1>2, <2>2, <2>3 DEF OwnershipInv, TypeOK, Becomes, UserRestart
  <2> QED
    BY <1>2, <2>3, <2>4, Moves DEF UserRestart, Step, Quiet, StartingPcs
<1>3. CASE UserQuit(m)
  <2>1. PICK pc \in {"exit", "stop"} :
           pc = IF mgr[m].policy = "leave" THEN "exit" ELSE "stop"
    OBVIOUS
  <2>2. PICK r : r = [mgr[m] EXCEPT !.op = "quit", !.pc = pc]
    OBVIOUS
  <2>3. /\ r \in Owners /\ r.pc = pc /\ r.own = mgr[m].own
        /\ r.pid = mgr[m].pid /\ r.wrapper = mgr[m].wrapper
        /\ r.tries = mgr[m].tries /\ r.err = mgr[m].err
    BY ZenonT(40), <2>2 DEF Owners, Pcs, Ops
  <2>4. Becomes(m, r)
    BY <1>3, <2>1, <2>2, <2>3 DEF OwnershipInv, TypeOK, Becomes, UserQuit
  <2> QED
    BY <1>3, <2>1, <2>3, <2>4, Moves DEF UserQuit, Step, Quiet, StartingPcs
<1>4. CASE LeaveRunning(m)
  <2>2. PICK r : r = [mgr[m] EXCEPT !.policy = "leave"]
    OBVIOUS
  <2>3. /\ r \in Owners /\ r.pc = mgr[m].pc /\ r.own = mgr[m].own
        /\ r.pid = mgr[m].pid /\ r.wrapper = mgr[m].wrapper
        /\ r.tries = mgr[m].tries /\ r.err = mgr[m].err
    BY <2>2 DEF Owners
  <2>4. Becomes(m, r)
    BY <1>4, <2>2, <2>3 DEF OwnershipInv, TypeOK, Becomes, LeaveRunning
  <2> QED
    BY <1>4, <2>3, <2>4, Moves DEF LeaveRunning, Step, Quiet, StartingPcs
<1>5. CASE ToggleTun(m)
  <2>1. Becomes(m, mgr[m])
    BY <1>5 DEF OwnershipInv, TypeOK, Becomes, ToggleTun
  <2> QED
    BY <1>5, <2>1, Moves DEF ToggleTun, Step, StartingPcs
<1> QED
  BY <1>1, <1>2, <1>3, <1>4, <1>5

LEMMA StopFailsStep ==
    ASSUME OwnershipInv, NEW m \in Managers, mgr[m].pc \in {"stop", "grace", "halting"},
           Unserved(m), StopFails(m), Quiet, Fault \/ UNCHANGED faults
    PROVE  OwnershipInv'
<1>1. PICK r : /\ Becomes(m, r) /\ r.pc \in {"exit", "idle", "stop"}
               /\ r.own = mgr[m].own /\ r.pid = mgr[m].pid
               /\ r.wrapper = mgr[m].wrapper
               /\ r.tries = mgr[m].tries /\ r.err = mgr[m].err
  BY StopFailsIs DEF OwnershipInv
<1> QED
  BY <1>1, Facts, Moves DEF Quiet, StartingPcs

LEMMA OpFailsStep ==
    ASSUME OwnershipInv, NEW m \in Managers, mgr[m].pc \notin StartingPcs,
           Unserved(m), OpFails(m, mgr[m]), Quiet, Fault \/ UNCHANGED faults
    PROVE  OwnershipInv'
<1>1. PICK r : /\ Becomes(m, r) /\ r.pc \in {"exit", "idle"}
               /\ r.tries = 0 /\ r.own = mgr[m].own /\ r.pid = mgr[m].pid
               /\ r.wrapper = mgr[m].wrapper /\ r.err = mgr[m].err
  BY FailsIs, Facts DEF OwnershipInv
<1> QED
  BY <1>1, Facts, Moves DEF Quiet

LEMMA BeginStep ==
    ASSUME OwnershipInv, NEW m \in Managers, Begin(m)
    PROVE  OwnershipInv'
<1>1. CASE OpFails(m, mgr[m])
  BY <1>1, Facts, OpFailsStep DEF Begin, Step, StartingPcs
<1>2. CASE ~OpFails(m, mgr[m])
  <2>1. PICK pc \in {"spawn", "stop"} :
           pc = IF mgr[m].own = "helper" THEN "spawn" ELSE "stop"
    OBVIOUS
  <2>2. PICK zero \in 0..MaxAttempts : zero = 0
    BY LimitsAssumption
  <2>3. PICK r : r = [mgr[m] EXCEPT !.elevate = tun, !.tries = zero, !.pc = pc]
    OBVIOUS
  <2>4. /\ r \in Owners /\ r.pc = pc /\ r.own = mgr[m].own /\ r.tries = 0
        /\ r.pid = mgr[m].pid /\ r.wrapper = mgr[m].wrapper
        /\ r.err = mgr[m].err
    BY ZenonT(40), <2>2, <2>3, Facts DEF Owners, Pcs
  <2>5. mgr' = [mgr EXCEPT ![m].elevate = tun, ![m].tries = 0,
                           ![m].pc = IF mgr[m].own = "helper" THEN "spawn" ELSE "stop"]
    BY <1>2 DEF Begin
  <2>6. Becomes(m, r)
    BY <2>1, <2>2, <2>3, <2>4, <2>5 DEF OwnershipInv, TypeOK, Becomes
  <2> QED
    BY <1>2, <2>1, <2>4, <2>6, Facts, Moves, LimitsAssumption
       DEF Begin, Step, Quiet, StartingPcs
<1> QED
  BY <1>1, <1>2

LEMMA StopNothingStep ==
    ASSUME OwnershipInv, NEW m \in Managers, StopNothing(m)
    PROVE  OwnershipInv'
<1>1. PICK r : /\ Becomes(m, r) /\ r.pc \in {"exit", "spawn"}
               /\ r.own = "stopped" /\ r.pid = 0 /\ r.wrapper = 0
               /\ r.tries = mgr[m].tries /\ r.err = mgr[m].err
  BY StopDoneIs DEF OwnershipInv, StopNothing
<1>2. mgr[m].pid = 0 /\ mgr[m].wrapper = 0 /\ mgr[m].tries = 0
  BY Facts DEF StopNothing, Step, OwnInv, OwnsNone, StartingPcs
<1> QED
  BY <1>1, <1>2, Facts, Moves, LimitsAssumption
     DEF StopNothing, Step, Quiet, StartingPcs

LEMMA ReadyStep ==
    ASSUME OwnershipInv, NEW m \in Managers, Ready(m)
    PROVE  OwnershipInv'
<1>1. PICK pc \in {"exit", "stop"} :
         pc = IF mgr[m].policy = "leave" THEN "exit" ELSE "stop"
  OBVIOUS
<1>2. CASE mgr' = [mgr EXCEPT ![m].pc = "idle", ![m].op = "none"]
  <2>1. PICK r : r = [mgr[m] EXCEPT !.pc = "idle", !.op = "none"]
    OBVIOUS
  <2>2. /\ r \in Owners /\ r.pc = "idle" /\ r.own = mgr[m].own
        /\ r.pid = mgr[m].pid /\ r.wrapper = mgr[m].wrapper
        /\ r.tries = mgr[m].tries /\ r.err = mgr[m].err
    BY ZenonT(40), <2>1, Facts DEF Owners, Pcs, Ops
  <2>3. Becomes(m, r)
    BY <1>2, <2>1, <2>2 DEF OwnershipInv, TypeOK, Becomes
  <2> QED
    BY <2>2, <2>3, Facts, Moves DEF Ready, Step, Quiet, StartingPcs
<1>3. CASE mgr' = [mgr EXCEPT ![m].op = "rollback", ![m].pc = pc]
  <2>1. PICK r : r = [mgr[m] EXCEPT !.op = "rollback", !.pc = pc]
    OBVIOUS
  <2>2. /\ r \in Owners /\ r.pc = pc /\ r.own = mgr[m].own
        /\ r.pid = mgr[m].pid /\ r.wrapper = mgr[m].wrapper
        /\ r.tries = mgr[m].tries /\ r.err = mgr[m].err
    BY ZenonT(40), <2>1, Facts DEF Owners, Pcs, Ops
  <2>3. Becomes(m, r)
    BY <1>3, <2>1, <2>2 DEF OwnershipInv, TypeOK, Becomes
  <2> QED
    BY <2>2, <2>3, Facts, Moves DEF Ready, Step, Quiet, StartingPcs
<1> QED
  BY <1>1, <1>2, <1>3 DEF Ready

-----------------------------------------------------------------------------
(* A start that has not signalled anybody.                                    *)

LEMMA RefusedStep ==
    ASSUME OwnershipInv, NEW m \in Managers,
           SpawnRefused(m) \/ SpawnFails(m)
    PROVE  OwnershipInv'
  BY Facts, OpFailsStep DEF SpawnRefused, SpawnFails, Step, StartingPcs

(* The broker does not listen, or it died before it answered.                 *)
LEMMA NoAnswerStep ==
    ASSUME OwnershipInv, NEW m \in Managers, HelperDown(m) \/ NoAnswer(m)
    PROVE  OwnershipInv'
<1>1. CASE HelperDown(m)
  BY <1>1, Facts, StopFailsStep, OpFailsStep
     DEF HelperDown, Stops, Restarts, Step, StartingPcs
<1>2. CASE NoAnswer(m)
  BY <1>2, StopFailsStep, OpFailsStep DEF NoAnswer, Step, StartingPcs, Unserved
<1> QED
  BY <1>1, <1>2

LEMMA ResolveStep ==
    ASSUME OwnershipInv, NEW m \in Managers, Resolve(m)
    PROVE  OwnershipInv'
<1>1. /\ mgr[m].own = "stopped" /\ mgr[m].elevate /\ mgr[m].pid = 0
      /\ Wrapper(m, mgr[m].wrapper)
  BY Facts DEF OwnInv, Starts, StartingPcs, Resolve, Step
<1>0. Unserved(m) /\ (Claimed(m) => Claimed(m)')
  BY Facts DEF Resolve, Step
<1>2. CASE mgr' = [mgr EXCEPT ![m].pc = "cleanup"]
  <2>1. PICK r : r = [mgr[m] EXCEPT !.pc = "cleanup"]
    OBVIOUS
  <2>2. /\ r \in Owners /\ r.pc = "cleanup" /\ r.own = mgr[m].own
        /\ r.pid = mgr[m].pid /\ r.wrapper = mgr[m].wrapper
        /\ r.tries = mgr[m].tries /\ r.err = mgr[m].err
        /\ r.elevate = mgr[m].elevate
    BY <2>1, Facts DEF Owners, Pcs
  <2>3. Becomes(m, r)
    BY <1>2, <2>1, <2>2 DEF OwnershipInv, TypeOK, Becomes
  <2>4. OwnInv(m)'
    BY <1>1, <2>2, <2>3
       DEF Becomes, OwnInv, Down, OwnsDirect, OwnsElevated, OwnsHelper,
           OwnsNone, Starts, Reaps, Tries, StartingPcs, Resolve, Quiet, Wrapper
  <2> QED
    BY <1>0, <2>2, <2>3, <2>4, Facts, FaultIs, TalkStep
       DEF Resolve, Quiet, OwnershipInv
<1>3. CASE \E p \in Running \cap Descendants(mgr[m].wrapper) :
              /\ mgr' = [mgr EXCEPT ![m] = [Spawned(m) EXCEPT !.own = "elevated",
                                                              !.pid = p]]
              /\ UNCHANGED faults
  <2>1. PICK p \in Running \cap Descendants(mgr[m].wrapper) :
           mgr' = [mgr EXCEPT ![m] = [Spawned(m) EXCEPT !.own = "elevated", !.pid = p]]
    BY <1>3
  <2>2. PICK a : a = Spawned(m)
    OBVIOUS
  <2>3. /\ a \in Owners /\ a.pc \in {"ready", "idle"} /\ a.tries = 0
        /\ a.wrapper = mgr[m].wrapper /\ a.err = mgr[m].err
    BY <2>2, Facts, SpawnedIs
  <2>4. p \in 0..MaxPid /\ p # 0 /\ p \in Pids
    BY LimitsAssumption DEF Running, Pids
  <2>5. PICK r : r = [a EXCEPT !.own = "elevated", !.pid = p]
    OBVIOUS
  <2>6. /\ r \in Owners /\ r.pc \in {"ready", "idle"} /\ r.tries = 0
        /\ r.own = "elevated" /\ r.pid = p /\ r.wrapper = mgr[m].wrapper
        /\ r.err = mgr[m].err
    BY <2>3, <2>4, <2>5 DEF Owners
  <2>7. Becomes(m, r)
    BY <2>1, <2>2, <2>5, <2>6, Update DEF OwnershipInv
  <2>8. /\ proc[mgr[m].wrapper].st # "start"
        /\ \A q \in Pids : proc[q].parent = mgr[m].wrapper => q = p
    BY <1>1, <2>4 DEF Descendants, OwnershipInv, TableInv, Tree, OneChild
  <2>9. OwnInv(m)'
    BY ZenonT(40), <1>1, <2>4, <2>6, <2>7, <2>8
       DEF Becomes, OwnInv, Down, OwnsDirect, OwnsElevated, OwnsHelper,
           OwnsNone, Starts, Reaps, Tries, StartingPcs, Resolve, Quiet, Wrapper
  <2>10. Account(m)'
    <3>1. mgr[m].wrapper # 0
      BY <1>1 DEF Wrapper, Pids
    <3>2. \A q \in Pids : Known(m, q) => Known(m, q)'
      BY <2>6, <2>7, <3>1 DEF Becomes, Known, Resolve, Quiet
    <3> QED
      BY <1>0, <2>6, <2>7, <3>2, Facts DEF Becomes, Account, Alive, Resolve, Quiet
  <2> QED
    BY <1>0, <1>3, <2>6, <2>7, <2>9, <2>10, Facts, FaultIs, QuietStep
       DEF Resolve, Quiet, OwnershipInv
<1> QED
  BY <1>2, <1>3 DEF Resolve

-----------------------------------------------------------------------------
(* A manager ends processes: S end, and it has waited for those of R.         *)

LEMMA EndsStep ==
    ASSUME OwnershipInv, NEW m \in Managers, NEW r, Becomes(m, r), r.pc # "down",
           Unserved(m), NEW S \in SUBSET Pids, NEW R, Ended(proc', S, R),
           \A p \in R \cap Pids : proc[p].reaper = m,
           UNCHANGED <<platform, tun, helper>>, port' \in {port, 0},
           Fault \/ UNCHANGED faults,
           wrong \subseteq wrong', wrong' \subseteq wrong \cup {"cleanup"},
           \A n \in Managers \ {m} : Continues(n) \/ "cleanup" \in wrong',
           OwnInv(m)', Account(m)'
    PROVE  OwnershipInv'
<1>1. TypeOK'
  <2>1. faults' \in 0..MaxFaults /\ port' \in 0..MaxPid
    BY FaultIs, LimitsAssumption DEF OwnershipInv, TypeOK
  <2> QED
    BY <2>1 DEF OwnershipInv, TypeOK, Becomes, Ended
<1>2. \A n \in Managers : mgr'[n].pc = "down" => mgr[n].pc = "down"
  BY DEF Becomes
<1>3. TableInv'
  BY <1>2, EndedTable DEF OwnershipInv
<1>4. HelperInv'
  BY EndedRemains, HelperFrame, ManagersAssumption DEF OwnershipInv
<1>5. \A n \in Managers \ {m} : Steady(n)
  BY EndedFrame DEF OwnershipInv
<1>6. SparesOthers' /\ HelperSparesPrograms'
  BY DEF OwnershipInv, SparesOthers, HelperSparesPrograms
<1>7. ClientInv' /\ \A n : Claimed(n) => Claimed(n)'
  BY ClientFrame DEF OwnershipInv, Becomes
<1> QED
  BY <1>1, <1>3, <1>4, <1>5, <1>6, <1>7, ActorStep

LEMMA StopDirectStep ==
    ASSUME OwnershipInv, NEW m \in Managers, StopDirect(m)
    PROVE  OwnershipInv'
<1>0. mgr[m].pc = "stop" /\ Unserved(m) /\ ~Claimed(m)
  BY Facts DEF StopDirect, Step
<1>1. CASE Fault /\ StopFails(m) /\ Quiet
  BY <1>0, <1>1, StopFailsStep
<1>2. CASE ~(Fault /\ StopFails(m) /\ Quiet)
  <2> DEFINE pid == mgr[m].pid
             S == {p \in {pid} : Alive(p)}
  <2>1. /\ proc' = Reaped(Exited(proc, S, FALSE), {pid})
        /\ port' = PortAfter({pid})
        /\ wrong' = wrong \cup Mistaken(m, "stop", {pid})
        /\ StopDone(m) /\ UNCHANGED <<platform, tun, helper, faults>>
    BY <1>2 DEF StopDirect
  <2>2. Core(m, pid) /\ mgr[m].wrapper = 0 /\ proc[pid].by = m
    BY Facts DEF StopDirect, OwnInv, OwnsDirect, Core, OwnershipInv, TableInv, Waits
  <2>3. S \in SUBSET Pids
    BY <2>2 DEF Core
  <2> HIDE DEF S
  <2>4. Ended(proc', S, {pid})
    BY <2>1, <2>3, ReapedEnds DEF OwnershipInv
  <2> USE DEF S
  <2>5. PICK r : /\ Becomes(m, r) /\ r.pc \in {"exit", "spawn"}
                 /\ r.own = "stopped" /\ r.pid = 0 /\ r.wrapper = 0
                 /\ r.tries = mgr[m].tries /\ r.err = mgr[m].err
    BY <2>1, StopDoneIs DEF OwnershipInv
  <2>6. OwnInv(m)'
    <3>1. r.tries = 0
      BY <2>5, Facts DEF StopDirect, Step, StartingPcs
    <3> QED
      BY <2>5, <3>1, LimitsAssumption
         DEF Becomes, OwnInv, Down, OwnsDirect, OwnsElevated, OwnsHelper,
             OwnsNone, Starts, Reaps, Tries, StartingPcs
  <2>7. \A p \in Pids : proc[p].parent \notin S
    BY <2>2 DEF OwnershipInv, TableInv, Tree, Core, Pids
  <2>8. \A n \in Managers : Continues(n)
    BY <2>3, <2>4, <2>7, EndedFrame DEF OwnershipInv
  <2>9. \A p \in S : ~Alive(p)'
    <3>1. S \subseteq Gone(proc, S)
      BY DEF Gone
    <3> QED
      BY <2>3, <2>4, <3>1, EndedFrame DEF OwnershipInv
  <2>10. Account(m)'
    <3>1. \A p \in Pids : Alive(p) /\ Known(m, p) => p \in S
      BY <2>2 DEF Known, Pids
    <3> HIDE DEF S
    <3> QED
      BY <1>0, <2>1, <2>5, <2>8, <2>9, <3>1, Facts
         DEF Account, Continues, Becomes
  <2>11. wrong' = wrong
    BY <2>1, <2>2 DEF Mistaken
  <2>12. port' \in {port, 0} /\ r.pc # "down"
    BY <2>1, <2>5 DEF PortAfter
  <2> HIDE DEF S
  <2> QED
    BY <1>0, <2>1, <2>2, <2>3, <2>4, <2>5, <2>6, <2>8, <2>10, <2>11, <2>12, EndsStep
       DEF Core
<1> QED
  BY <1>1, <1>2

(* Which process the two signals of the escalation may reach.                 *)
LEMMA ElevatedIs ==
    ASSUME OwnershipInv, NEW m \in Managers,
           mgr[m].own = "elevated" \/ mgr[m].pc \in {"grace", "reap"}
    PROVE  /\ mgr[m].own = "elevated" /\ Wrapper(m, mgr[m].wrapper)
           /\ proc[mgr[m].wrapper].by = m /\ proc[mgr[m].wrapper].st # "start"
           /\ mgr[m].wrapper # 0 /\ mgr[m].pid \in 0..MaxPid
           /\ \A p \in Pids : proc[p].parent = mgr[m].wrapper => p = mgr[m].pid
           /\ \A token : Verified(m, token) =>
                 /\ mgr[m].pid \in Pids /\ proc[mgr[m].pid].by = m
                 /\ proc[mgr[m].pid].kind = "core"
           /\ ~Alive(mgr[m].pid) =>
                 \A p \in Pids : proc[p].parent # mgr[m].wrapper
<1>1. mgr[m].own = "elevated"
  BY Facts DEF OwnInv, OwnsDirect, OwnsHelper, OwnsNone, Owners
<1>2. /\ Wrapper(m, mgr[m].wrapper) /\ proc[mgr[m].wrapper].by = m
      /\ mgr[m].wrapper # 0 /\ proc[mgr[m].wrapper].st # "start"
      /\ \A p \in Pids : proc[p].parent = mgr[m].wrapper => p = mgr[m].pid
  BY <1>1, Facts DEF OwnInv, OwnsElevated, Wrapper, OwnershipInv, TableInv,
                     Waits, Pids
<1>3. ASSUME NEW token, Verified(m, token)
      PROVE  /\ mgr[m].pid \in Pids /\ proc[mgr[m].pid].by = m
             /\ proc[mgr[m].pid].kind = "core"
  BY <1>2, <1>3 DEF Verified, Descendants, Matches, OwnershipInv, TableInv, Tree
<1>4. ASSUME NEW p \in Pids, proc[p].parent = mgr[m].wrapper
      PROVE  Alive(mgr[m].pid)
  BY <1>2, <1>4 DEF OwnershipInv, TableInv, Tree, Alive, Pids
<1>5. mgr[m].pid \in 0..MaxPid
  BY Facts DEF Owners
<1> QED
  BY <1>1, <1>2, <1>3, <1>4, <1>5

LEMMA StopElevatedStep ==
    ASSUME OwnershipInv, NEW m \in Managers, StopElevated(m) \/ GraceOver(m)
    PROVE  OwnershipInv'
<1> DEFINE pid == mgr[m].pid
<1>1. /\ mgr[m].pc \in {"stop", "grace"} /\ mgr[m].tries = 0
      /\ mgr[m].own = "elevated" \/ mgr[m].pc \in {"grace", "reap"}
      /\ Unserved(m) /\ ~Claimed(m)
  BY Facts DEF StopElevated, GraceOver, Step, StartingPcs
<1>2. CASE StopFails(m) /\ Quiet /\ (Fault \/ UNCHANGED faults)
  BY <1>1, <1>2, StopFailsStep
<1>3. CASE /\ ~Alive(pid) /\ mgr' = [mgr EXCEPT ![m].pc = "reap"]
           /\ Quiet /\ UNCHANGED faults
  <2>1. PICK r : r = [mgr[m] EXCEPT !.pc = "reap"]
    OBVIOUS
  <2>2. /\ r \in Owners /\ r.pc = "reap" /\ r.own = mgr[m].own
        /\ r.pid = mgr[m].pid /\ r.wrapper = mgr[m].wrapper
        /\ r.tries = mgr[m].tries /\ r.err = mgr[m].err
    BY <2>1, Facts DEF Owners, Pcs
  <2>3. Becomes(m, r)
    BY <1>3, <2>1, <2>2 DEF OwnershipInv, TypeOK, Becomes
  <2>4. OwnInv(m)'
    BY <1>1, <1>3, <2>2, <2>3, ElevatedIs, StillTable, OwnSame
       DEF Quiet, OwnershipInv, StartingPcs
  <2> QED
    BY <1>1, <1>3, <2>2, <2>3, <2>4, Facts, FaultIs, TalkStep DEF Quiet, OwnershipInv
<1>4. ASSUME NEW token, Verified(m, token), NEW r, Becomes(m, r),
             r.pc \in {"grace", "reap"}, r.own = mgr[m].own,
             r.pid = mgr[m].pid, r.wrapper = mgr[m].wrapper,
             r.tries = mgr[m].tries, r.err = mgr[m].err,
             NEW S \in {{}, {pid}}, r.pc = "reap" => S = {pid},
             proc' = Exited(proc, S, FALSE), port' = PortAfter(S),
             wrong' = wrong \cup Mistaken(m, "stop", {pid}),
             UNCHANGED <<platform, tun, helper, faults>>
      PROVE  OwnershipInv'
  <2>1. mgr[m].own = "elevated"
    BY <1>1, ElevatedIs
  <2>2. /\ pid \in Pids /\ proc[pid].by = m /\ proc[pid].kind = "core"
        /\ S \in SUBSET Pids
    BY <1>1, <1>4, ElevatedIs
  <2>3. Ended(proc', S, {})
    BY <1>4, <2>2, ExitedEnds DEF OwnershipInv
  <2>4. \A p \in Pids : proc[p].parent \notin S
    BY <2>2 DEF OwnershipInv, TableInv, Tree, Pids
  <2>5. ASSUME NEW n \in Managers
        PROVE  Steady(n) /\ Continues(n)
    <3>1. \A p \in {} \cap Pids : proc[p].reaper # n
      OBVIOUS
    <3> QED
      BY <2>2, <2>3, <2>4, <3>1, EndedFrame DEF OwnershipInv
  <2>6. ASSUME r.pc = "reap", NEW p \in Pids, proc'[p].parent = mgr[m].wrapper
        PROVE  FALSE
    <3>1. mgr[m].wrapper # 0
      BY <1>1, ElevatedIs
    <3>2. proc[p].parent = mgr[m].wrapper
      BY <2>3, <2>6, <3>1 DEF Ended, Unused
    <3>3. p = pid /\ p \in Gone(proc, S)
      BY <1>1, <1>4, <2>6, <3>2, ElevatedIs DEF Gone
    <3>4. ~Waited(proc, p)
      BY <3>1, <3>2, ManagersAssumption DEF Waited, OwnershipInv, TableInv, Tree
    <3> QED
      BY <2>3, <2>6, <3>1, <3>3, <3>4 DEF Ended, Unused
  <2>7. OwnInv(m)'
    BY <1>1, <1>4, <2>1, <2>5, <2>6, Facts, OwnSame
       DEF StartingPcs, OwnershipInv
  <2>8. wrong' = wrong
    BY <1>4, <2>2 DEF Mistaken
  <2>9. Account(m)'
    BY <1>1, <1>4, <2>5, <2>8, Facts, AccountFrame DEF Becomes
  <2>10. port' \in {port, 0} /\ r.pc # "down"
    BY <1>4 DEF PortAfter
  <2>11. \A p \in {} \cap Pids : proc[p].reaper = m
    OBVIOUS
  <2> QED
    BY <1>1, <1>4, <2>2, <2>3, <2>5, <2>7, <2>8, <2>9, <2>10, <2>11, EndsStep
<1>5. CASE StopElevated(m)
  <2>1. CASE Alive(pid) /\ Verified(m, proc[pid].inst)
             /\ ~(Fault /\ StopFails(m) /\ Quiet)
    <3>1. proc[pid].inst \in 0..MaxInst
      BY <1>1, <2>1, ElevatedIs DEF OwnershipInv, TypeOK, Processes
    <3>2. PICK r : r = [mgr[m] EXCEPT !.pc = "grace", !.token = proc[pid].inst]
      OBVIOUS
    <3>3. /\ r \in Owners /\ r.pc = "grace" /\ r.own = mgr[m].own
          /\ r.pid = mgr[m].pid /\ r.wrapper = mgr[m].wrapper
          /\ r.tries = mgr[m].tries /\ r.err = mgr[m].err
      BY ZenonT(40), <3>1, <3>2, Facts DEF Owners, Pcs
    <3>4. /\ mgr' = [mgr EXCEPT ![m].pc = "grace", ![m].token = proc[pid].inst]
          /\ wrong' = wrong \cup Mistaken(m, "stop", {pid})
          /\ \E S \in {{}, {pid}} : proc' = Exited(proc, S, FALSE) /\ port' = PortAfter(S)
          /\ UNCHANGED <<platform, tun, helper, faults>>
      BY <1>5, <2>1 DEF StopElevated
    <3>5. Becomes(m, r)
      BY <3>2, <3>3, <3>4 DEF OwnershipInv, TypeOK, Becomes
    <3> HIDE DEF pid
    <3>6. PICK S \in {{}, {pid}} : proc' = Exited(proc, S, FALSE) /\ port' = PortAfter(S)
      BY <3>4
    <3> QED
      BY <1>4, <2>1, <3>3, <3>4, <3>5, <3>6
  <2> QED
    BY <1>2, <1>3, <1>5, <2>1 DEF StopElevated
<1>6. CASE GraceOver(m)
  <2>1. CASE Alive(pid) /\ Verified(m, mgr[m].token)
             /\ ~(Fault /\ StopFails(m) /\ Quiet)
    <3>1. PICK r : r = [mgr[m] EXCEPT !.pc = "reap"]
      OBVIOUS
    <3>2. /\ r \in Owners /\ r.pc = "reap" /\ r.own = mgr[m].own
          /\ r.pid = mgr[m].pid /\ r.wrapper = mgr[m].wrapper
          /\ r.tries = mgr[m].tries /\ r.err = mgr[m].err
      BY <3>1, Facts DEF Owners, Pcs
    <3>3. /\ mgr' = [mgr EXCEPT ![m].pc = "reap"]
          /\ wrong' = wrong \cup Mistaken(m, "stop", {pid})
          /\ proc' = Exited(proc, {pid}, FALSE) /\ port' = PortAfter({pid})
          /\ UNCHANGED <<platform, tun, helper, faults>>
      BY <1>6, <2>1 DEF GraceOver
    <3>4. Becomes(m, r)
      BY <3>1, <3>2, <3>3 DEF OwnershipInv, TypeOK, Becomes
    <3>5. PICK S \in {{}, {pid}} : S = {pid}
      OBVIOUS
    <3> HIDE DEF pid
    <3> QED
      BY <1>4, <2>1, <3>2, <3>3, <3>4, <3>5
  <2> QED
    BY <1>2, <1>3, <1>6, <2>1 DEF GraceOver
<1> QED
  BY <1>5, <1>6

LEMMA ReapWrapperStep ==
    ASSUME OwnershipInv, NEW m \in Managers, ReapWrapper(m)
    PROVE  OwnershipInv'
<1> DEFINE w == mgr[m].wrapper
           S == {p \in {w} : Alive(p)}
<1>1. /\ proc' = Reaped(Exited(proc, S, FALSE), {w})
      /\ wrong' = wrong \cup Mistaken(m, "stop", {w})
      /\ StopDone(m) /\ UNCHANGED <<platform, tun, port, helper, faults>>
  BY DEF ReapWrapper
<1>2. /\ mgr[m].pc = "reap" /\ mgr[m].tries = 0
      /\ \A p \in Pids : proc[p].parent # w
      /\ Unserved(m) /\ ~Claimed(m)
  BY Facts DEF ReapWrapper, Step, OwnInv, Reaps, StartingPcs
<1>3. Wrapper(m, w) /\ proc[w].by = m /\ w # 0
  BY <1>2, ElevatedIs
<1>4. S \in SUBSET Pids
  BY <1>3 DEF Wrapper
<1>5. PICK r : /\ Becomes(m, r) /\ r.pc \in {"exit", "spawn"}
               /\ r.own = "stopped" /\ r.pid = 0 /\ r.wrapper = 0
               /\ r.tries = mgr[m].tries /\ r.err = mgr[m].err
  BY <1>1, StopDoneIs DEF OwnershipInv
<1>6. OwnInv(m)'
  BY <1>2, <1>5, LimitsAssumption
     DEF Becomes, OwnInv, Down, OwnsDirect, OwnsElevated, OwnsHelper,
         OwnsNone, Starts, Reaps, Tries, StartingPcs
<1>7. wrong' = wrong
  BY <1>1, <1>3 DEF Mistaken
<1>8. \A p \in Pids : proc[p].parent \notin S
  BY <1>2
<1>9. \A p \in Pids : Alive(p) /\ Known(m, p) => p \in S
  BY <1>2, <1>3 DEF Known
<1> HIDE DEF S
<1>10. Ended(proc', S, {w})
  BY <1>1, <1>4, ReapedEnds DEF OwnershipInv
<1>11. \A n \in Managers : Continues(n)
  BY <1>4, <1>8, <1>10, EndedFrame DEF OwnershipInv
<1>12. \A p \in S : ~Alive(p)'
  BY <1>4, <1>10, EndedFrame DEF OwnershipInv, Gone
<1>13. Account(m)'
  BY <1>2, <1>5, <1>7, <1>9, <1>11, <1>12, Facts DEF Account, Continues, Becomes
<1>14. port' \in {port, 0} /\ r.pc # "down"
  BY <1>1, <1>5
<1> QED
  BY <1>1, <1>2, <1>3, <1>4, <1>5, <1>6, <1>7, <1>10, <1>11, <1>13, <1>14, EndsStep
     DEF Wrapper

-----------------------------------------------------------------------------
(* A process starts.                                                          *)

LEMMA NewIs ==
    ASSUME NEW inst \in 0..MaxInst, inst < MaxInst,
           NEW kind \in {"core", "sudo", "other"}, NEW parent \in 0..MaxPid,
           NEW reaper \in Managers \cup {"init", "sudo", "helper"},
           NEW by \in Originators
    PROVE  LET r == NewProcess(inst, kind, parent, reaper, by) IN
           /\ r \in Processes /\ r.kind = kind /\ r.st = "start"
           /\ r.parent = parent /\ r.reaper = reaper /\ r.by = by
<1>1. PICK e \in Processes : e = NoProcess(inst + 1)
  BY LimitsAssumption, NoProcessType
<1>2. PICK r : r = [e EXCEPT !.kind = kind, !.st = "start", !.parent = parent,
                             !.reaper = reaper, !.by = by]
  OBVIOUS
<1>3. /\ r \in Processes /\ r.kind = kind /\ r.st = "start"
      /\ r.parent = parent /\ r.reaper = reaper /\ r.by = by
  BY <1>2 DEF Processes
<1>4. NewProcess(inst, kind, parent, reaper, by) = r
  BY <1>1, <1>2 DEF NewProcess
<1> QED
  BY <1>3, <1>4

(* The table gains the process r at p, which has no parent.                   *)
LEMMA NewFrame ==
    ASSUME TypeOK, TableInv, NEW p \in Pids, proc[p].kind = "none",
           NEW r \in Processes, proc' = [proc EXCEPT ![p] = r], r.parent = 0,
           r.kind # "none", r.st = "start", platform' = platform,
           r.reaper \in Managers => r.by = r.reaper /\ platform = "sudo",
           r.kind = "sudo" => /\ platform = "sudo"
                              /\ r.by \in Managers => r.reaper = r.by,
           r.by \in Managers => mgr'[r.by].pc # "down",
           \A n \in Managers : mgr'[n].pc = "down" => mgr[n].pc = "down"
    PROVE  /\ TableInv' /\ proc' \in [Pids -> Processes] /\ proc'[p] = r
           /\ \A n \in Managers : Steady(n) /\ (r.by # n => Continues(n))
           /\ \A q \in Pids \ {p} : proc'[q] = proc[q]
<1>1. /\ proc' \in [Pids -> Processes] /\ proc'[p] = r
      /\ \A q \in Pids \ {p} : proc'[q] = proc[q]
  BY DEF TypeOK
<1>2. proc[p].reaper = "init" /\ \A q \in Pids : proc[q].parent # p
  BY DEF TableInv, Vacant, Tree, Pids
<1>3. Vacant'
  BY <1>1 DEF TableInv, Vacant
<1>4. Tree'
  BY <1>1, <1>2 DEF TableInv, Tree
<1>5. OneChild'
  BY <1>1 DEF TableInv, OneChild
<1>6. Waits'
  BY <1>1 DEF TableInv, Waits
<1>7. \A n \in Managers : Steady(n)
  BY <1>1, <1>2, ManagersAssumption DEF Steady
<1>8. \A n \in Managers : r.by # n => Continues(n)
  BY <1>1 DEF Continues, Alive
<1> QED
  BY <1>1, <1>3, <1>4, <1>5, <1>6, <1>7, <1>8 DEF TableInv

LEMMA SpawnStep ==
    ASSUME OwnershipInv, NEW m \in Managers, Spawn(m)
    PROVE  OwnershipInv'
<1>1. PICK kind \in {"core", "sudo"} :
         kind = IF mgr[m].elevate THEN "sudo" ELSE "core"
  OBVIOUS
<1>2. PICK p \in Free :
         /\ proc' = [proc EXCEPT ![p] = NewProcess(proc[p].inst, kind, 0, m, m)]
         /\ mgr' = [mgr EXCEPT ![m] =
                       [@ EXCEPT !.pc = "started", !.tries = mgr[m].tries + 1,
                                 !.pid = IF mgr[m].elevate THEN 0 ELSE p,
                                 !.wrapper = IF mgr[m].elevate THEN p ELSE 0]]
  BY <1>1, Zenon DEF Spawn
<1>3. /\ platform = "sudo" /\ mgr[m].own = "stopped" /\ mgr[m].pc = "spawn"
      /\ mgr[m].pid = 0 /\ mgr[m].wrapper = 0 /\ mgr[m].tries < MaxAttempts
      /\ UNCHANGED <<platform, tun, port, helper, wrong, faults>>
  BY Facts DEF Spawn, Step, OwnInv, OwnsDirect, OwnsElevated, OwnsHelper,
               OwnsNone, Tries, StartingPcs, Owners
<1>0. Unserved(m) /\ ~Claimed(m)
  BY <1>3, Facts
<1>4. p \in Pids /\ proc[p].kind = "none" /\ proc[p].inst < MaxInst
  BY DEF Free
<1>5. PICK new : new = NewProcess(proc[p].inst, kind, 0, m, m)
  OBVIOUS
<1>6. /\ new \in Processes /\ new.kind = kind /\ new.st = "start"
      /\ new.parent = 0 /\ new.reaper = m /\ new.by = m
  <2>1. proc[p].inst \in 0..MaxInst
    BY <1>4 DEF OwnershipInv, TypeOK, Processes
  <2>2. /\ kind \in {"core", "sudo", "other"} /\ 0 \in 0..MaxPid
        /\ m \in Managers \cup {"init", "sudo", "helper"} /\ m \in Originators
    BY LimitsAssumption DEF Originators
  <2> QED
    BY <1>4, <1>5, <2>1, <2>2, NewIs
<1>7. PICK tries \in 0..MaxAttempts, pid \in 0..MaxPid, wrapper \in 0..MaxPid :
         /\ tries = mgr[m].tries + 1
         /\ pid = IF mgr[m].elevate THEN 0 ELSE p
         /\ wrapper = IF mgr[m].elevate THEN p ELSE 0
  BY <1>3, <1>4, Facts, LimitsAssumption DEF Owners, Pids
<1>8. PICK r : r = [mgr[m] EXCEPT !.pc = "started", !.tries = tries, !.pid = pid,
                                  !.wrapper = wrapper]
  OBVIOUS
<1>9. /\ r \in Owners /\ r.pc = "started" /\ r.own = mgr[m].own
      /\ r.pid = pid /\ r.wrapper = wrapper /\ r.tries = tries
      /\ r.err = mgr[m].err /\ r.elevate = mgr[m].elevate
  BY ZenonT(40), <1>8, Facts DEF Owners, Pcs
<1>10. Becomes(m, r)
  <2>1. mgr' = [mgr EXCEPT ![m] = r]
    BY <1>2, <1>7, <1>8, Zenon
  <2> QED
    BY <1>9, <2>1, Update DEF OwnershipInv
<1>11. /\ TableInv' /\ proc' \in [Pids -> Processes] /\ proc'[p] = new
       /\ \A n \in Managers \ {m} : Steady(n) /\ Continues(n)
       /\ \A q \in Pids \ {p} : proc'[q] = proc[q]
  <2>1. proc' = [proc EXCEPT ![p] = new] /\ platform' = platform
    BY <1>2, <1>3, <1>5
  <2>2. \A n \in Managers : mgr'[n].pc = "down" => mgr[n].pc = "down"
    BY <1>9, <1>10 DEF Becomes
  <2>3. mgr'[m].pc # "down" /\ new.kind # "none" /\ platform = "sudo"
    BY <1>1, <1>3, <1>6, <1>9, <1>10 DEF Becomes
  <2>4. TypeOK /\ TableInv
    BY DEF OwnershipInv
  <2> HIDE DEF Becomes
  <2>5. /\ TableInv' /\ proc' \in [Pids -> Processes] /\ proc'[p] = new
        /\ \A n \in Managers : Steady(n) /\ (new.by # n => Continues(n))
        /\ \A q \in Pids \ {p} : proc'[q] = proc[q]
    BY <1>4, <1>6, <2>1, <2>2, <2>3, <2>4, NewFrame
  <2> QED
    BY <1>6, <2>5
<1>12. TypeOK'
  BY <1>3, <1>10, <1>11 DEF OwnershipInv, TypeOK, Becomes
<1>13. OwnInv(m)'
  <2>1. p # 0 /\ mgr[m].elevate \in BOOLEAN
    BY <1>4, Facts DEF Pids, Owners
  <2> QED
    BY <1>1, <1>3, <1>4, <1>6, <1>7, <1>9, <1>10, <1>11, <2>1
       DEF Becomes, OwnInv, Down, OwnsDirect, OwnsElevated, OwnsHelper,
           OwnsNone, Starts, Reaps, Tries, StartingPcs, Core, Wrapper
<1>14. Account(m)'
  <2>1. ASSUME ~mgr[m].err, "cleanup" \notin wrong, NEW q \in Pids \ {p}
        PROVE  ~(Alive(q)' /\ proc'[q].by = m)
    BY <1>0, <1>3, <1>11, <2>1, Facts DEF Account, Known, Alive, Pids
  <2>2. Known(m, p)'
    BY <1>1, <1>4, <1>6, <1>7, <1>9, <1>10, <1>11 DEF Becomes, Known, Pids
  <2> QED
    BY <1>3, <1>9, <1>10, <2>1, <2>2 DEF Account, Becomes
<1>15. HelperInv' /\ SparesOthers' /\ HelperSparesPrograms'
  BY <1>3 DEF OwnershipInv, HelperInv, SparesOthers, HelperSparesPrograms
<1>16. ClientInv' /\ \A n : Claimed(n) => Claimed(n)'
  BY <1>0, <1>3, <1>10, ClientFrame DEF OwnershipInv, Becomes
<1> QED
  BY <1>3, <1>10, <1>11, <1>12, <1>13, <1>14, <1>15, <1>16, ActorStep

LEMMA StartedStep ==
    ASSUME OwnershipInv, NEW m \in Managers, Started(m)
    PROVE  OwnershipInv'
<1> DEFINE c == Child(m)
<1>1. /\ mgr[m].own = "stopped" /\ mgr[m].pc = "started"
      /\ IF mgr[m].elevate THEN mgr[m].pid = 0 /\ Wrapper(m, mgr[m].wrapper)
                           ELSE mgr[m].wrapper = 0 /\ Core(m, mgr[m].pid)
      /\ Unserved(m) /\ ~Claimed(m)
  BY Facts DEF Started, Step, OwnInv, Starts, StartingPcs
<1>2. /\ c \in Pids /\ proc[c].reaper = m
      /\ c = IF mgr[m].elevate THEN mgr[m].wrapper ELSE mgr[m].pid
  BY <1>1 DEF Child, Wrapper, Core, Pids
<1>3. CASE Alive(c) /\ Quiet /\ UNCHANGED faults /\ mgr[m].elevate
           /\ mgr' = [mgr EXCEPT ![m] = [@ EXCEPT !.pc = "resolve"]]
  <2>1. PICK r : r = [mgr[m] EXCEPT !.pc = "resolve"]
    OBVIOUS
  <2>2. /\ r \in Owners /\ r.pc = "resolve" /\ r.own = mgr[m].own
        /\ r.pid = mgr[m].pid /\ r.wrapper = mgr[m].wrapper
        /\ r.tries = mgr[m].tries /\ r.err = mgr[m].err
        /\ r.elevate = mgr[m].elevate
    BY <2>1, Facts DEF Owners, Pcs
  <2>3. Becomes(m, r)
    BY <1>3, <2>1, <2>2 DEF OwnershipInv, TypeOK, Becomes
  <2>4. OwnInv(m)'
    BY <1>1, <1>3, <2>2, <2>3
       DEF Becomes, OwnInv, Down, OwnsDirect, OwnsElevated, OwnsHelper,
           OwnsNone, Starts, Reaps, Tries, StartingPcs, Quiet, Wrapper
  <2> QED
    BY <1>1, <1>3, <2>2, <2>3, <2>4, Facts, FaultIs, TalkStep DEF Quiet, OwnershipInv
<1>4. CASE Alive(c) /\ Quiet /\ UNCHANGED faults /\ ~mgr[m].elevate
           /\ mgr' = [mgr EXCEPT ![m] = [Spawned(m) EXCEPT !.own = "direct"]]
  <2>1. PICK a \in Owners : /\ a = Spawned(m) /\ a.pc \in {"ready", "idle"}
                            /\ a.tries = 0 /\ a.pid = mgr[m].pid
                            /\ a.wrapper = mgr[m].wrapper /\ a.err = mgr[m].err
    BY Facts, SpawnedIs
  <2>2. PICK r : r = [a EXCEPT !.own = "direct"]
    OBVIOUS
  <2>3. /\ r \in Owners /\ r.pc = a.pc /\ r.own = "direct"
        /\ r.pid = a.pid /\ r.wrapper = a.wrapper
        /\ r.tries = a.tries /\ r.err = a.err
    BY <2>2 DEF Owners
  <2>4. Becomes(m, r)
    BY <1>4, <2>1, <2>2, <2>3, Update DEF OwnershipInv
  <2>5. OwnInv(m)'
    BY <1>1, <1>4, <2>1, <2>3, <2>4
       DEF Becomes, OwnInv, Down, OwnsDirect, OwnsElevated, OwnsHelper,
           OwnsNone, Starts, Reaps, Tries, StartingPcs, Quiet, Core
  <2> QED
    BY <1>1, <1>4, <2>1, <2>3, <2>4, <2>5, Facts, FaultIs, TalkStep
       DEF Quiet, OwnershipInv
<1>5. CASE /\ ~Alive(c) /\ proc' = Reaped(proc, {c})
           /\ UNCHANGED <<platform, tun, port, helper, wrong, faults>>
           /\ LET failed == [mgr[m] EXCEPT !.pid = 0, !.wrapper = 0] IN
              IF Retries(m, c)
              THEN mgr' = [mgr EXCEPT ![m] = [failed EXCEPT !.pc = "spawn"]]
              ELSE OpFails(m, failed)
  <2>1. PICK nobody \in 0..MaxPid : nobody = 0
    BY LimitsAssumption
  <2>2. PICK failed : failed = [mgr[m] EXCEPT !.pid = nobody, !.wrapper = nobody]
    OBVIOUS
  <2>3. /\ failed \in Owners /\ failed.pid = 0 /\ failed.wrapper = 0
        /\ failed.own = "stopped" /\ failed.err = mgr[m].err
        /\ failed.tries = mgr[m].tries
    BY ZenonT(40), <1>1, <2>1, <2>2, Facts DEF Owners
  <2>4. IF Retries(m, c)
        THEN mgr' = [mgr EXCEPT ![m] = [failed EXCEPT !.pc = "spawn"]]
        ELSE OpFails(m, failed)
    BY <1>5, <2>1, <2>2
  <2>5. PICK r : /\ Becomes(m, r) /\ r.own = "stopped" /\ r.pid = 0
                 /\ r.wrapper = 0 /\ r.err = mgr[m].err
                 /\ \/ r.pc \in {"exit", "idle"} /\ r.tries = 0
                    \/ r.pc = "spawn" /\ r.tries < MaxAttempts
    <3>1. CASE Retries(m, c)
      <4>1. PICK r : r = [failed EXCEPT !.pc = "spawn"]
        OBVIOUS
      <4>2. /\ r \in Owners /\ r.pc = "spawn" /\ r.own = failed.own
            /\ r.pid = failed.pid /\ r.wrapper = failed.wrapper
            /\ r.err = failed.err /\ r.tries = failed.tries
        BY <2>3, <4>1 DEF Owners, Pcs
      <4>3. Becomes(m, r)
        BY <2>4, <3>1, <4>1, <4>2, Update DEF OwnershipInv
      <4> QED
        BY <2>3, <3>1, <4>2, <4>3 DEF Retries
    <3>2. CASE ~Retries(m, c)
      BY <2>3, <2>4, <3>2, FailsIs DEF OwnershipInv
    <3> QED
      BY <3>1, <3>2
  <2>6. OwnInv(m)'
    BY <2>5 DEF Becomes, OwnInv, Down, OwnsDirect, OwnsElevated, OwnsHelper,
                OwnsNone, Starts, Reaps, Tries, StartingPcs
  <2> HIDE DEF c
  <2>no. PICK S \in SUBSET Pids : S = {}
    OBVIOUS
  <2>7. Ended(proc', S, {c})
    BY <1>5, <2>no, OnlyReapedEnds DEF OwnershipInv
  <2>8. \A n \in Managers : Continues(n)
    BY <2>no, <2>7, EndedFrame DEF OwnershipInv
  <2>9. ASSUME NEW p \in Pids, Alive(p), Known(m, p)
        PROVE  FALSE
    <3>1. CASE mgr[m].elevate
      BY <1>1, <1>2, <1>5, <2>9, <3>1
         DEF Known, Alive, OwnershipInv, TableInv, Tree, Wrapper, Pids
    <3>2. CASE ~mgr[m].elevate
      BY <1>1, <1>2, <1>5, <2>9, <3>2 DEF Known, Pids
    <3> QED
      BY <3>1, <3>2
  <2>10. Account(m)'
    BY <1>1, <1>5, <2>5, <2>8, <2>9, Facts DEF Account, Continues, Becomes
  <2>11. r.pc # "down"
    BY <2>5
  <2> QED
    BY <1>1, <1>2, <1>5, <2>5, <2>6, <2>7, <2>8, <2>10, <2>11, EndsStep
<1>6. CASE Fault /\ mgr' = [mgr EXCEPT ![m].pc = "cleanup"] /\ Quiet
  <2>1. PICK r : r = [mgr[m] EXCEPT !.pc = "cleanup"]
    OBVIOUS
  <2>2. /\ r \in Owners /\ r.pc = "cleanup" /\ r.own = mgr[m].own
        /\ r.pid = mgr[m].pid /\ r.wrapper = mgr[m].wrapper
        /\ r.tries = mgr[m].tries /\ r.err = mgr[m].err
        /\ r.elevate = mgr[m].elevate
    BY <2>1, Facts DEF Owners, Pcs
  <2>3. Becomes(m, r)
    BY <1>6, <2>1, <2>2 DEF OwnershipInv, TypeOK, Becomes
  <2>4. OwnInv(m)'
    BY <1>1, <1>6, <2>2, <2>3
       DEF Becomes, OwnInv, Down, OwnsDirect, OwnsElevated, OwnsHelper,
           OwnsNone, Starts, Reaps, Tries, StartingPcs, Quiet, Wrapper, Core
  <2> QED
    BY <1>1, <1>6, <2>2, <2>3, <2>4, Facts, FaultIs, TalkStep DEF Quiet, OwnershipInv
<1> QED
  BY <1>3, <1>4, <1>5, <1>6 DEF Started

(* The clean-up of a start that did not succeed.                              *)
LEMMA ChildIs ==
    ASSUME OwnershipInv, NEW m \in Managers,
           mgr[m].pc \in {"cleanup", "cleaning", "ending"}
    PROVE  LET c == Child(m) IN
           /\ mgr[m].own = "stopped" /\ Unserved(m) /\ ~Claimed(m) /\ c \in 0..MaxPid
           /\ c # 0 => c \in Pids /\ proc[c].reaper = m /\ proc[c].by = m
           /\ mgr[m].pc = "cleanup" => c # 0
           /\ mgr[m].pc = "cleaning" => c \notin mgr[m].todo
           /\ \A p \in Pids : Alive(p) /\ Known(m, p) =>
                 c # 0 /\ (p = c \/ proc[p].parent = c)
           /\ \A p \in Descendants(c) :
                 /\ p \in Pids /\ proc[p].parent = c /\ c # 0 /\ Alive(c) /\ p # c
                 /\ proc[p].kind = "core" /\ proc[p].by = m /\ proc[p].st # "zombie"
           /\ \A p \in Pids : proc[p].parent = c /\ c # 0 => p \in Descendants(c)
<1> DEFINE c == Child(m)
<1>1. /\ mgr[m].own = "stopped" /\ Unserved(m) /\ ~Claimed(m)
      /\ mgr[m].pc = "cleaning" => c \notin mgr[m].todo
  BY Facts DEF OwnInv, Starts, StartingPcs
<1>2. \/ mgr[m].pid = 0 /\ Wrapper(m, c) /\ mgr[m].wrapper = c
      \/ mgr[m].pid = c /\ Core(m, c) /\ mgr[m].wrapper = 0
      \/ mgr[m].pid = 0 /\ mgr[m].wrapper = 0 /\ c = 0 /\ mgr[m].pc # "cleanup"
  BY Facts DEF OwnInv, Starts, StartingPcs, Wrapper, Core, Child, Pids
<1> HIDE DEF c
<1>3. /\ c # 0 => c \in Pids /\ proc[c].reaper = m /\ proc[c].by = m
      /\ mgr[m].pc = "cleanup" => c # 0
  BY <1>2 DEF Wrapper, Core, Pids, OwnershipInv, TableInv, Waits
<1>4. c \in 0..MaxPid
  BY <1>3, LimitsAssumption DEF Pids
<1>5. ASSUME NEW p \in Pids, Alive(p), Known(m, p)
      PROVE  c # 0 /\ (p = c \/ proc[p].parent = c)
  BY <1>2, <1>5 DEF Known, Wrapper, Pids
<1>6. ASSUME NEW p \in Pids, proc[p].parent = c, c # 0
      PROVE  /\ p \in Descendants(c) /\ Alive(c) /\ p # c
             /\ proc[p].kind = "core" /\ proc[p].by = m /\ proc[p].st # "zombie"
  BY <1>3, <1>6 DEF OwnershipInv, TableInv, Tree, Alive, Descendants, Pids
<1>7. \A p \in Descendants(c) : p \in Pids /\ proc[p].parent = c /\ c # 0
  BY DEF Descendants
<1> QED
  BY <1>1, <1>3, <1>4, <1>5, <1>6, <1>7 DEF c

LEMMA StillStarting ==
    ASSUME OwnershipInv, NEW m \in Managers,
           mgr[m].pc \in {"cleanup", "cleaning", "ending"},
           NEW r, Becomes(m, r), platform' = platform, r.own = mgr[m].own,
           r.pc \in {"cleaning", "ending"}, r.elevate = mgr[m].elevate,
           \/ r.pid = 0 /\ r.wrapper = 0
           \/ r.pid = mgr[m].pid /\ r.wrapper = mgr[m].wrapper /\ Steady(m),
           r.pc = "cleaning" => /\ (IF r.wrapper # 0 THEN r.wrapper ELSE r.pid) \notin r.todo
    PROVE  OwnInv(m)'
<1>1. /\ mgr'[m] = r /\ mgr[m].own = "stopped"
      /\ \/ mgr[m].elevate /\ mgr[m].pid = 0 /\ Wrapper(m, mgr[m].wrapper)
         \/ ~mgr[m].elevate /\ mgr[m].wrapper = 0 /\ Core(m, mgr[m].pid)
         \/ mgr[m].pid = 0 /\ mgr[m].wrapper = 0
  BY Facts DEF Becomes, OwnInv, Starts, StartingPcs
<1>2. Steady(m) => \A c : /\ Core(m, c) => Core(m, c)'
                          /\ Wrapper(m, c) => Wrapper(m, c)'
  BY DEF Steady, Core, Wrapper
<1>3. Starts(m)'
  BY <1>1, <1>2 DEF Starts, Child
<1> QED
  BY <1>1, <1>3 DEF OwnInv, Down, OwnsDirect, OwnsElevated, OwnsHelper,
                    OwnsNone, Reaps, Tries, StartingPcs

LEMMA CleanupStep ==
    ASSUME OwnershipInv, NEW m \in Managers, Cleanup(m)
    PROVE  OwnershipInv'
<1> DEFINE c == Child(m)
           exited == {q \in {c} : ~Alive(q)}
<1>1. mgr[m].pc \in {"cleanup", "cleaning", "ending"} /\ mgr[m].pc = "cleanup"
  BY DEF Cleanup, Step
<1>2. c \in Pids /\ proc[c].reaper = m /\ c # 0
  BY <1>1, ChildIs
<1>3. PICK todo \in SUBSET Pids : todo = Descendants(c)
  BY <1>1, ChildIs
<1>4. PICK pid \in 0..MaxPid, wrapper \in 0..MaxPid :
         /\ pid = IF c \in exited THEN 0 ELSE mgr[m].pid
         /\ wrapper = IF c \in exited THEN 0 ELSE mgr[m].wrapper
  BY Facts, LimitsAssumption DEF Owners
<1> HIDE DEF c, exited
<1>5. ASSUME NEW r, Becomes(m, r), r.pc \in {"cleaning", "ending"},
             r.own = mgr[m].own, r.elevate = mgr[m].elevate, r.pid = pid,
             r.wrapper = wrapper, r.pc = "cleaning" => r.todo = todo,
             mgr[m].err => r.err, proc' = Reaped(proc, exited),
             UNCHANGED <<platform, tun, port, helper, wrong>>, Fault \/ UNCHANGED faults
      PROVE  OwnershipInv'
  <2>1. PICK S \in SUBSET Pids : S = {}
    OBVIOUS
  <2>2. Ended(proc', S, exited)
    BY <1>5, <2>1, OnlyReapedEnds DEF OwnershipInv
  <2>3. \A n \in Managers : Continues(n)
    BY <2>1, <2>2, EndedFrame DEF OwnershipInv
  <2>4. c \notin exited => Steady(m) /\ exited = {}
    <3>1. c \notin exited => exited = {}
      BY DEF exited
    <3> QED
      BY <2>2, <3>1, EndedFrame DEF OwnershipInv
  <2>5. OwnInv(m)'
    <3>1. c \notin todo /\ 0 \notin todo
      BY <1>1, <1>3, ChildIs DEF c, Pids
    <3>2. (IF wrapper # 0 THEN wrapper ELSE pid) \in {0, c}
      BY <1>4 DEF c, Child
    <3>3. r.pc = "cleaning" => (IF r.wrapper # 0 THEN r.wrapper ELSE r.pid) \notin r.todo
      BY <1>5, <3>1, <3>2
    <3>4. \/ r.pid = 0 /\ r.wrapper = 0
          \/ r.pid = mgr[m].pid /\ r.wrapper = mgr[m].wrapper /\ Steady(m)
      BY <1>4, <1>5, <2>4
    <3> HIDE DEF Becomes
    <3> QED
      BY <1>1, <1>5, <3>3, <3>4, StillStarting
  <2>6. Account(m)'
    <3>1. CASE c \in exited
      <4>1. ~Alive(c)
        BY <3>1 DEF exited
      <4>2. \A p \in Pids : ~(Alive(p) /\ Known(m, p))
        BY <1>1, <4>1, ChildIs DEF c
      <4> QED
        BY <1>1, <1>5, <2>3, <4>2, Facts DEF Account, Continues, Becomes
    <3>2. CASE c \notin exited
      BY <1>1, <1>4, <1>5, <2>3, <3>2, Facts, AccountFrame DEF Becomes
    <3> QED
      BY <3>1, <3>2
  <2>7. \A p \in exited \cap Pids : proc[p].reaper = m
    BY <1>2 DEF exited
  <2>8. Unserved(m) /\ r.pc # "down" /\ port' \in {port, 0}
    BY <1>1, <1>5, ChildIs
  <2> QED
    BY <1>5, <2>2, <2>3, <2>5, <2>6, <2>7, <2>8, EndsStep
<1>6. /\ proc' = Reaped(proc, exited) /\ UNCHANGED <<platform, tun, port, helper, wrong>>
      /\ \/ /\ mgr' = [mgr EXCEPT ![m].pc = "cleaning", ![m].todo = Descendants(c),
                                  ![m].pid = IF c \in exited THEN 0 ELSE @,
                                  ![m].wrapper = IF c \in exited THEN 0 ELSE @]
            /\ UNCHANGED faults
         \/ /\ Fault
            /\ mgr' = [mgr EXCEPT ![m].pc = "ending", ![m].err = TRUE,
                                  ![m].pid = IF c \in exited THEN 0 ELSE @,
                                  ![m].wrapper = IF c \in exited THEN 0 ELSE @]
  BY Zenon DEF Cleanup, c, exited
<1>7. CASE /\ mgr' = [mgr EXCEPT ![m].pc = "cleaning", ![m].todo = Descendants(c),
                                 ![m].pid = IF c \in exited THEN 0 ELSE @,
                                 ![m].wrapper = IF c \in exited THEN 0 ELSE @]
           /\ UNCHANGED faults
  <2>1. PICK r : r = [mgr[m] EXCEPT !.pc = "cleaning", !.todo = todo, !.pid = pid,
                                    !.wrapper = wrapper]
    OBVIOUS
  <2>2. /\ r \in Owners /\ r.pc = "cleaning" /\ r.own = mgr[m].own
        /\ r.elevate = mgr[m].elevate /\ r.pid = pid /\ r.wrapper = wrapper
        /\ r.todo = todo /\ r.err = mgr[m].err
    BY ZenonT(40), <2>1, Facts DEF Owners, Pcs
  <2>3. Becomes(m, r)
    BY <1>3, <1>4, <1>7, <2>1, <2>2 DEF OwnershipInv, TypeOK, Becomes, Owners
  <2> QED
    BY <1>5, <1>6, <1>7, <2>2, <2>3
<1>8. CASE /\ Fault
           /\ mgr' = [mgr EXCEPT ![m].pc = "ending", ![m].err = TRUE,
                                 ![m].pid = IF c \in exited THEN 0 ELSE @,
                                 ![m].wrapper = IF c \in exited THEN 0 ELSE @]
  <2>1. PICK yes \in BOOLEAN : yes = TRUE
    OBVIOUS
  <2>2. PICK r : r = [mgr[m] EXCEPT !.pc = "ending", !.err = yes, !.pid = pid,
                                    !.wrapper = wrapper]
    OBVIOUS
  <2>3. /\ r \in Owners /\ r.pc = "ending" /\ r.own = mgr[m].own
        /\ r.elevate = mgr[m].elevate /\ r.pid = pid /\ r.wrapper = wrapper
        /\ r.err = yes
    BY ZenonT(40), <2>2, Facts DEF Owners, Pcs
  <2>4. Becomes(m, r)
    BY <1>4, <1>8, <2>1, <2>2, <2>3 DEF OwnershipInv, TypeOK, Becomes, Owners
  <2> QED
    BY <1>5, <1>6, <1>8, <2>1, <2>3, <2>4
<1> QED
  BY <1>6, <1>7, <1>8

LEMMA CleanDescendantStep ==
    ASSUME OwnershipInv, NEW m \in Managers, NEW p \in Pids, CleanDescendant(m, p)
    PROVE  OwnershipInv'
<1> DEFINE c == Child(m)
           S == {q \in {p} : Alive(q)}
<1>1. /\ mgr[m].pc \in {"cleanup", "cleaning", "ending"} /\ mgr[m].pc = "cleaning"
      /\ p \in mgr[m].todo
  BY DEF CleanDescendant, Step
<1>2. PICK todo \in SUBSET Pids : todo = mgr[m].todo \ {p}
  BY Facts DEF Owners
<1> HIDE DEF c, S
<1>3. ASSUME NEW r, Becomes(m, r), r.pc = "cleaning", r.own = mgr[m].own,
             r.elevate = mgr[m].elevate, r.pid = mgr[m].pid,
             r.wrapper = mgr[m].wrapper, r.todo = todo, Steady(m), platform' = platform
      PROVE  OwnInv(m)'
  <2>1. (IF r.wrapper # 0 THEN r.wrapper ELSE r.pid) = c
    BY <1>3 DEF c, Child
  <2>2. c \notin todo
    BY <1>1, <1>2, ChildIs DEF c
  <2> HIDE DEF Becomes
  <2> QED
    BY <1>1, <1>3, <2>1, <2>2, StillStarting
<1>4. CASE /\ mgr' = [mgr EXCEPT ![m].todo = @ \ {p}]
           /\ proc' = Exited(proc, S, FALSE) /\ port' = PortAfter(S)
           /\ wrong' = wrong \cup Mistaken(m, "cleanup", S)
           /\ UNCHANGED <<platform, tun, helper, faults>>
  <2>1. PICK r : r = [mgr[m] EXCEPT !.todo = todo]
    OBVIOUS
  <2>2. /\ r \in Owners /\ r.pc = "cleaning" /\ r.own = mgr[m].own
        /\ r.elevate = mgr[m].elevate /\ r.pid = mgr[m].pid
        /\ r.wrapper = mgr[m].wrapper /\ r.todo = todo /\ r.err = mgr[m].err
    BY ZenonT(40), <1>1, <2>1, Facts DEF Owners
  <2>3. Becomes(m, r)
    BY <1>2, <1>4, <2>1, <2>2 DEF OwnershipInv, TypeOK, Becomes
  <2>4. S \in SUBSET Pids
    BY DEF S
  <2>5. Ended(proc', S, {})
    BY <1>4, <2>4, ExitedEnds DEF OwnershipInv
  <2>6. \A q \in {} \cap Pids : proc[q].reaper = m
    OBVIOUS
  <2>7. ASSUME NEW n \in Managers
        PROVE  Steady(n)
    <3>1. \A q \in {} \cap Pids : proc[q].reaper # n
      OBVIOUS
    <3> QED
      BY <2>4, <2>5, <3>1, EndedFrame DEF OwnershipInv
  <2>8. OwnInv(m)'
    BY <1>3, <1>4, <2>2, <2>3, <2>7
  <2>9. "cleanup" \notin wrong' => \A q \in S : Alive(q) /\ proc[q].by = m
    BY <1>4 DEF Mistaken, S
  <2>10. \A n \in Managers \ {m} : Continues(n) \/ "cleanup" \in wrong'
    BY <2>4, <2>5, <2>9, EndedFrame DEF OwnershipInv
  <2>11. wrong \subseteq wrong' /\ wrong' \subseteq wrong \cup {"cleanup"}
    BY <1>4 DEF Mistaken
  <2>12. Account(m)'
    <3>1. CASE ~mgr[m].err /\ "cleanup" \notin wrong'
      <4>1. ASSUME NEW q \in Pids, proc[q].parent \in S
            PROVE  FALSE
        <5>1. proc[q].parent = p /\ Alive(p) /\ proc[p].by = m
          BY <2>9, <3>1, <4>1 DEF S
        <5>2. Known(m, p)
          BY <1>1, <2>11, <3>1, <5>1, ChildIs, Facts DEF Account
        <5>3. p = c \/ (proc[p].parent = c /\ c # 0)
          BY <1>1, <5>1, <5>2, ChildIs DEF c
        <5>4. p # c
          BY <1>1, ChildIs DEF c
        <5>5. proc[p].kind = "core"
          BY <5>3, <5>4 DEF OwnershipInv, TableInv, Tree
        <5> QED
          BY <5>1, <5>5 DEF OwnershipInv, TableInv, Tree, Pids
      <4>2. Continues(m)
        BY <2>4, <2>5, <4>1, EndedFrame DEF OwnershipInv
      <4> QED
        BY <1>1, <2>2, <2>3, <2>11, <4>2, Facts, AccountFrame DEF Becomes
    <3>2. CASE mgr[m].err \/ "cleanup" \in wrong'
      BY <2>2, <2>3, <3>2 DEF Account, Becomes
    <3> QED
      BY <3>1, <3>2
  <2>13. Unserved(m) /\ r.pc # "down" /\ port' \in {port, 0}
    BY <1>1, <1>4, <2>2, ChildIs DEF PortAfter
  <2> QED
    BY <1>4, <2>3, <2>4, <2>5, <2>6, <2>8, <2>10, <2>11, <2>12, <2>13, EndsStep
<1>5. CASE Fault /\ mgr' = [mgr EXCEPT ![m].todo = @ \ {p}, ![m].err = TRUE] /\ Quiet
  <2>1. PICK yes \in BOOLEAN : yes = TRUE
    OBVIOUS
  <2>2. PICK r : r = [mgr[m] EXCEPT !.todo = todo, !.err = yes]
    OBVIOUS
  <2>3. /\ r \in Owners /\ r.pc = "cleaning" /\ r.own = mgr[m].own
        /\ r.elevate = mgr[m].elevate /\ r.pid = mgr[m].pid
        /\ r.wrapper = mgr[m].wrapper /\ r.todo = todo /\ r.err = yes
    BY ZenonT(40), <1>1, <2>2, Facts DEF Owners
  <2>4. Becomes(m, r)
    BY <1>2, <1>5, <2>1, <2>2, <2>3 DEF OwnershipInv, TypeOK, Becomes
  <2>5. OwnInv(m)'
    BY <1>3, <1>5, <2>3, <2>4, StillTable DEF Quiet
  <2> QED
    BY <1>1, <1>5, <2>1, <2>3, <2>4, <2>5, Facts, FaultIs, TalkStep DEF Quiet, OwnershipInv
<1> QED
  BY <1>4, <1>5 DEF CleanDescendant, S

LEMMA CleanRelistStep ==
    ASSUME OwnershipInv, NEW m \in Managers, CleanRelist(m)
    PROVE  OwnershipInv'
<1>1. mgr[m].pc \in {"cleanup", "cleaning", "ending"} /\ mgr[m].pc = "cleaning"
  BY DEF CleanRelist, Step
<1>2. PICK err \in BOOLEAN :
         mgr' = [mgr EXCEPT ![m].pc = "ending", ![m].err = err] /\ (mgr[m].err => err)
  <2>1. (mgr[m].err \/ Descendants(Child(m)) # {}) \in BOOLEAN /\ TRUE \in BOOLEAN
    OBVIOUS
  <2> QED BY <2>1 DEF CleanRelist
<1>3. PICK r : r = [mgr[m] EXCEPT !.pc = "ending", !.err = err]
  OBVIOUS
<1>4. /\ r \in Owners /\ r.pc = "ending" /\ r.own = mgr[m].own
      /\ r.elevate = mgr[m].elevate /\ r.pid = mgr[m].pid
      /\ r.wrapper = mgr[m].wrapper /\ r.err = err
  BY ZenonT(40), <1>3, Facts DEF Owners, Pcs
<1>5. Becomes(m, r)
  BY <1>2, <1>3, <1>4 DEF OwnershipInv, TypeOK, Becomes, CleanRelist
<1>6. OwnInv(m)'
  <2>1. Steady(m) /\ platform' = platform
    BY StillTable DEF CleanRelist, Quiet
  <2> HIDE DEF Becomes
  <2> QED
    BY <1>1, <1>4, <1>5, <2>1, StillStarting
<1>7. Quiet /\ (UNCHANGED faults \/ Fault)
  BY DEF CleanRelist
<1> QED
  BY <1>1, <1>2, <1>4, <1>5, <1>6, <1>7, Facts, FaultIs, TalkStep DEF Quiet, OwnershipInv

(* What runs below a wrapper that ended may be told to nobody.                *)
LEMMA UntoldEnds ==
    ASSUME TypeOK, TableInv, NEW S \in SUBSET Pids, NEW conflict \in BOOLEAN, NEW R,
           NEW U \in SUBSET Pids,
           \A p \in U : /\ p \notin Gone(proc, S) /\ proc[p].st # "zombie"
                        /\ proc[p].parent \in Gone(proc, S),
           NEW after, after = Untell(Reaped(Exited(proc, S, conflict), R), U)
    PROVE  Ended(after, S, R) /\ \A p \in U : after[p].by = "untold"
<1> DEFINE mid == Reaped(Exited(proc, S, conflict), R)
<1>1. Ended(mid, S, R)
  BY ReapedEnds
<1> HIDE DEF mid
<1>2. mid \in [Pids -> Processes]
  BY <1>1 DEF Ended
<1>3. ASSUME NEW p \in U
      PROVE  /\ after[p] \in Processes /\ after[p].by = "untold"
             /\ after[p].kind = mid[p].kind /\ after[p].reaper = mid[p].reaper
             /\ after[p].st = mid[p].st /\ after[p].parent = mid[p].parent
  <2>1. PICK by \in Originators : by = "untold"
    BY DEF Originators
  <2>2. after[p] = [mid[p] EXCEPT !.by = by]
    BY <1>3, <2>1 DEF Untell, mid
  <2> QED
    BY <1>2, <1>3, <2>1, <2>2 DEF Processes
<1>4. \A p \in Pids \ U : after[p] = mid[p]
  BY DEF Untell, mid
<1>5. after \in [Pids -> Processes]
  <2>1. after = [p \in Pids |-> after[p]]
    BY DEF Untell
  <2> QED
    BY <1>2, <1>3, <1>4, <2>1
<1> QED
  BY <1>1, <1>3, <1>4, <1>5 DEF Ended

LEMMA CleanChildStep ==
    ASSUME OwnershipInv, NEW m \in Managers, CleanChild(m)
    PROVE  OwnershipInv'
<1> DEFINE c == Child(m)
<1>1. mgr[m].pc \in {"cleanup", "cleaning", "ending"}
  BY DEF CleanChild, Step
<1>0. PICK nothing \in SUBSET Pids : nothing = {}
  OBVIOUS
<1>2. PICK nobody \in 0..MaxPid : nobody = 0 /\ mgr[m].own = "stopped"
  BY <1>1, ChildIs, LimitsAssumption
<1>3. PICK r : r = [mgr[m] EXCEPT !.todo = nothing, !.pid = nobody, !.wrapper = nobody]
  OBVIOUS
<1>4. /\ r \in Owners /\ r.pid = 0 /\ r.wrapper = 0 /\ r.own = "stopped"
      /\ r.err = mgr[m].err
  BY ZenonT(40), <1>2, <1>3, Facts DEF Owners
<1>5. r = [mgr[m] EXCEPT !.todo = {}, !.pid = 0, !.wrapper = 0]
  BY <1>0, <1>2, <1>3
<1>6. ASSUME NEW b \in Owners, OpFails(m, b), b.pid = 0, b.wrapper = 0, b.own = "stopped"
      PROVE  \E a : /\ Becomes(m, a) /\ a.pc # "down" /\ a.err = b.err
                    /\ a.pid = 0 /\ a.wrapper = 0 /\ OwnInv(m)'
  <2>1. PICK a : /\ Becomes(m, a) /\ a.pc \in {"exit", "idle"}
                 /\ a.tries = 0 /\ a.own = b.own /\ a.pid = b.pid
                 /\ a.wrapper = b.wrapper /\ a.err = b.err
    BY <1>6, FailsIs DEF OwnershipInv
  <2>2. OwnInv(m)'
    BY <1>6, <2>1
       DEF Becomes, OwnInv, Down, OwnsDirect, OwnsElevated, OwnsHelper,
           OwnsNone, Starts, Reaps, Tries, StartingPcs
  <2> QED
    BY <1>6, <2>1, <2>2
<1> HIDE DEF c
<1>7. CASE Fault /\ OpFails(m, [r EXCEPT !.err = TRUE]) /\ Quiet
  <2>1. PICK b : b = [r EXCEPT !.err = TRUE]
    OBVIOUS
  <2>2. /\ b \in Owners /\ b.pid = 0 /\ b.wrapper = 0 /\ b.own = "stopped"
        /\ b.err = TRUE
    BY <1>4, <2>1 DEF Owners
  <2>3. PICK a : /\ Becomes(m, a) /\ a.pc # "down" /\ a.err = TRUE
                 /\ a.pid = 0 /\ a.wrapper = 0 /\ OwnInv(m)'
    BY <1>6, <1>7, <2>1, <2>2
  <2>4. Account(m)'
    BY <2>3 DEF Account, Becomes
  <2> QED
    BY <1>1, <1>7, <2>3, <2>4, ChildIs, Facts, FaultIs, QuietStep DEF Quiet, OwnershipInv
<1>8. ASSUME NEW S \in SUBSET Descendants(c), NEW ended,
             ended = S \cup {q \in {c} : Alive(q)},
             proc' = Untell(Reaped(Exited(proc, ended, FALSE), {c}), Descendants(c) \ S),
             port' = PortAfter(ended), wrong' = wrong \cup Mistaken(m, "cleanup", {c} \cap Pids),
             OpFails(m, r), UNCHANGED <<platform, tun, helper, faults>>
      PROVE  OwnershipInv'
  <2>1. PICK a : /\ Becomes(m, a) /\ a.pc # "down" /\ a.err = mgr[m].err
                 /\ a.pid = 0 /\ a.wrapper = 0 /\ OwnInv(m)'
    BY <1>4, <1>6, <1>8
  <2>2. /\ c # 0 => c \in Pids /\ proc[c].reaper = m /\ proc[c].by = m
        /\ \A p \in Descendants(c) :
              /\ p \in Pids /\ proc[p].parent = c /\ c # 0 /\ Alive(c) /\ p # c
              /\ proc[p].kind = "core" /\ proc[p].by = m /\ proc[p].st # "zombie"
        /\ \A p \in Pids : Alive(p) /\ Known(m, p) => c # 0 /\ (p = c \/ proc[p].parent = c)
        /\ \A p \in Pids : proc[p].parent = c /\ c # 0 => p \in Descendants(c)
    BY <1>1, ChildIs DEF c
  <2>3. ended \in SUBSET Pids /\ Descendants(c) \ S \in SUBSET Pids
    BY <1>8, <2>2 DEF Alive, Descendants
  <2>4. \A p \in ended : proc[p].by = m
    BY <1>8, <2>2 DEF Alive
  <2>5. Ended(proc', ended, {c}) /\ \A p \in Descendants(c) \ S : proc'[p].by = "untold"
    <3>1. ASSUME NEW p \in Descendants(c) \ S
          PROVE  /\ p \notin Gone(proc, ended) /\ proc[p].st # "zombie"
                 /\ proc[p].parent \in Gone(proc, ended)
      BY <1>8, <2>2, <3>1 DEF Gone
    <3>2. PICK U \in SUBSET Pids : U = Descendants(c) \ S
      BY <2>3
    <3>3. PICK no \in BOOLEAN : no = FALSE
      OBVIOUS
    <3>4. proc' = Untell(Reaped(Exited(proc, ended, no), {c}), U)
      BY <1>8, <3>2, <3>3
    <3> QED
      BY <2>3, <3>1, <3>2, <3>4, UntoldEnds DEF OwnershipInv
  <2>6. wrong' = wrong
    BY <1>8, <2>2 DEF Mistaken, Pids
  <2>7. ASSUME NEW n \in Managers \ {m}
        PROVE  Continues(n)
    BY <2>3, <2>4, <2>5, EndedFrame DEF OwnershipInv
  <2>8. \A p \in ended : ~Alive(p)'
    BY <2>3, <2>5, EndedFrame DEF OwnershipInv, Gone
  <2>9. Account(m)'
    <3> SUFFICES ASSUME ~mgr[m].err, "cleanup" \notin wrong, NEW p \in Pids,
                        Alive(p)', proc'[p].by = m
                 PROVE  FALSE
      BY <2>1, <2>6 DEF Account, Becomes
    <3>1. p \notin ended /\ p \notin Descendants(c)
      BY <1>8, <2>5, <2>8, ManagersAssumption
    <3>2. Alive(p) /\ proc[p].by = m
      BY <2>5, ManagersAssumption DEF Ended, Alive, Unused
    <3>3. Known(m, p)
      BY <1>1, <3>2, ChildIs, Facts DEF Account
    <3>4. p = c
      BY <2>2, <3>1, <3>2, <3>3
    <3> QED
      BY <1>8, <3>1, <3>2, <3>4
  <2>10. /\ \A p \in {c} \cap Pids : proc[p].reaper = m
         /\ Unserved(m) /\ port' \in {port, 0}
    BY <1>1, <1>8, <2>2, ChildIs DEF PortAfter, Pids
  <2> QED
    BY <1>8, <2>1, <2>3, <2>5, <2>6, <2>7, <2>9, <2>10, EndsStep
<1>9. \/ /\ \E S \in SUBSET Descendants(c) :
               LET ended == S \cup {q \in {c} : Alive(q)}
               IN /\ proc' = Untell(Reaped(Exited(proc, ended, FALSE), {c}), Descendants(c) \ S)
                  /\ port' = PortAfter(ended)
         /\ wrong' = wrong \cup Mistaken(m, "cleanup", {c} \cap Pids)
         /\ OpFails(m, r) /\ UNCHANGED <<platform, tun, helper, faults>>
      \/ Fault /\ OpFails(m, [r EXCEPT !.err = TRUE]) /\ Quiet
  BY <1>5, Zenon DEF CleanChild, c
<1> QED
  BY <1>7, <1>8, <1>9

-----------------------------------------------------------------------------
(* The broker.                                                                *)

(* Where the broker runs nobody uses sudo.                                    *)
LEMMA BrokerTable ==
    ASSUME OwnershipInv, platform = "helper", NEW p \in Pids
    PROVE  /\ proc[p].parent = 0 /\ proc[p].kind # "sudo"
           /\ proc[p].reaper \notin Managers
  BY DEF OwnershipInv, TableInv, Tree, Waits

(* After the broker stopped its process nothing runs for a manager.           *)
LEMMA VictimsEnd ==
    ASSUME OwnershipInv, platform = "helper", helper.up, helper.job = "idle",
           NEW m \in Managers, NEW old, old = HelperStops(m)
    PROVE  /\ old \in [Pids -> Processes]
           /\ \A p \in Pids :
                 \/ Unused(old[p])
                 \/ /\ old[p].kind = proc[p].kind /\ old[p].by = proc[p].by
                    /\ old[p].reaper = proc[p].reaper /\ old[p].parent = 0
                    /\ old[p].st \in {proc[p].st, "zombie"}
                    /\ old[p].st = "zombie" =>
                          old[p].reaper \in Managers \cup {"helper"}
                    /\ old[p].by \in Managers => old[p].st = "zombie"
<1> DEFINE S == HelperVictims
<1>1. S \in SUBSET Pids /\ helper.pid \in 0..MaxPid
  BY LimitsAssumption DEF HelperVictims, Matches, Alive, Pids, OwnershipInv, TypeOK, Brokers
<1>2. Gone(proc, S) = S
  BY <1>1, BrokerTable DEF Gone
<1>3. ASSUME NEW p \in Pids, Alive(p), proc[p].by \in Managers
      PROVE  p \in S
  BY <1>3 DEF OwnershipInv, HelperInv, HelperChild, HelperVictims, Matches
<1> HIDE DEF S
<1>4. Ended(old, S, {helper.pid})
  BY <1>1, ReapedEnds DEF OwnershipInv, HelperStops, S
<1>5. ASSUME NEW p \in Pids
      PROVE  \/ Unused(old[p])
             \/ /\ old[p].kind = proc[p].kind /\ old[p].by = proc[p].by
                /\ old[p].reaper = proc[p].reaper /\ old[p].parent = 0
                /\ old[p].st \in {proc[p].st, "zombie"}
                /\ old[p].st = "zombie" => old[p].reaper \in Managers \cup {"helper"}
                /\ old[p].by \in Managers => old[p].st = "zombie"
  <2>1. proc[p].parent = 0 /\ 0 \notin S
    BY <1>1, BrokerTable DEF Pids
  <2>2. CASE p \in S
    BY <1>2, <1>4, <2>1, <2>2 DEF Ended, Waited
  <2>3. CASE p \notin S
    <3>1. proc[p].by \in Managers => proc[p].st = "zombie"
      BY <1>3, <2>3, ManagersAssumption DEF Alive, Pids, OwnershipInv, TableInv, Vacant
    <3>2. proc[p].st = "zombie" => proc[p].reaper \in Managers \cup {"helper"}
      BY DEF OwnershipInv, TableInv, Waits
    <3> QED
      BY <1>2, <1>4, <2>1, <2>3, <3>1, <3>2 DEF Ended
  <2> QED
    BY <2>2, <2>3
<1> QED
  BY <1>4, <1>5 DEF Ended

(* It stops the process it has.                                               *)
LEMMA ServedStep ==
    ASSUME OwnershipInv, platform = "helper", helper.up, helper.job = "idle",
           NEW m \in Managers, NEW r, Becomes(m, r), r.pc \in {"halting", "restarting"},
           UNCHANGED <<platform, tun, faults>>, proc' = HelperStops(m),
           port' = PortAfter(HelperVictims), wrong' = wrong \cup HelperMistakes(m),
           helper' \in Brokers, helper'.up, helper'.pid = 0, helper'.client = m,
           helper'.job = IF r.pc = "halting" THEN "done" ELSE "stopped",
           OwnInv(m)'
    PROVE  OwnershipInv'
<1>1. /\ proc' \in [Pids -> Processes]
      /\ \A p \in Pids :
            \/ Unused(proc'[p])
            \/ /\ proc'[p].kind = proc[p].kind /\ proc'[p].by = proc[p].by
               /\ proc'[p].reaper = proc[p].reaper /\ proc'[p].parent = 0
               /\ proc'[p].st \in {proc[p].st, "zombie"}
               /\ proc'[p].st = "zombie" => proc'[p].reaper \in Managers \cup {"helper"}
               /\ proc'[p].by \in Managers => proc'[p].st = "zombie"
  BY VictimsEnd
<1>2. TypeOK'
  <2>1. port' \in 0..MaxPid
    BY LimitsAssumption DEF OwnershipInv, TypeOK, PortAfter
  <2>2. wrong' \subseteq {"stop", "cleanup", "helper", "helper-other"}
    BY DEF OwnershipInv, TypeOK, HelperMistakes, Mistaken
  <2> QED
    BY <1>1, <2>1, <2>2 DEF OwnershipInv, TypeOK, Becomes
<1>3. ASSUME NEW p \in Pids
      PROVE  /\ proc'[p].parent = 0 /\ proc'[p].kind # "sudo"
             /\ proc'[p].reaper \notin Managers
             /\ proc'[p].kind = "none" => Unused(proc'[p])
             /\ proc'[p].st = "zombie" => proc'[p].reaper = "helper"
             /\ proc'[p].by \in Managers =>
                   proc'[p].st = "zombie" /\ mgr[proc'[p].by].pc # "down"
  BY <1>1, BrokerTable, ManagersAssumption
     DEF Unused, OwnershipInv, TableInv, Vacant, Waits
<1>4. TableInv'
  <2>1. Vacant' /\ Tree' /\ OneChild'
    BY <1>3 DEF Vacant, Tree, OneChild, Unused
  <2>2. Waits'
    BY <1>3 DEF Waits, Becomes
  <2> QED
    BY <2>1, <2>2 DEF TableInv
<1>5. HelperInv'
  BY <1>3, ManagersAssumption DEF HelperInv, Alive
<1>6. ClientInv'
  BY DEF ClientInv, Becomes
<1>7. ASSUME NEW n \in Managers
      PROVE  Steady(n) /\ Continues(n) /\ ~Claimed(n)
  <2>1. Steady(n)
    BY <1>3, BrokerTable DEF Steady
  <2>2. \A p \in Pids : Alive(p)' => proc'[p].by # n
    BY <1>3 DEF Alive
  <2> QED
    BY <2>1, <2>2 DEF Continues, Claimed
<1>8. Account(m)'
  BY <1>3 DEF Account, Alive
<1>9. SparesOthers' /\ HelperSparesPrograms'
  BY DEF OwnershipInv, SparesOthers, HelperSparesPrograms, HelperMistakes,
         Mistaken, HelperVictims, Matches
<1> QED
  BY <1>2, <1>4, <1>5, <1>6, <1>7, <1>8, <1>9, ActorStep

LEMMA HelperServesStep ==
    ASSUME OwnershipInv, NEW m \in Managers, HelperServes(m)
    PROVE  OwnershipInv'
<1>1. /\ helper.up /\ helper.job = "idle" /\ platform = "helper" /\ helper \in Brokers
      /\ UNCHANGED <<platform, tun>>
      /\ \/ Stops(m) /\ mgr[m].pc = "stop" /\ mgr[m].own = "helper"
         \/ ~Stops(m) /\ mgr[m].pc = "spawn"
  BY DEF HelperServes, Stops, Restarts, Step, OwnershipInv, HelperInv, TypeOK
<1>2. PICK pc \in {"halting", "restarting"} :
         pc = IF Stops(m) THEN "halting" ELSE "restarting"
  OBVIOUS
<1>3. PICK r : r = [mgr[m] EXCEPT !.pc = pc]
  OBVIOUS
<1>4. /\ r \in Owners /\ r.pc = pc /\ r.own = mgr[m].own /\ r.pid = mgr[m].pid
      /\ r.wrapper = mgr[m].wrapper /\ r.tries = mgr[m].tries /\ r.err = mgr[m].err
  BY ZenonT(40), <1>3, Facts DEF Owners, Pcs
<1>5. Becomes(m, r)
  BY <1>2, <1>3, <1>4 DEF OwnershipInv, TypeOK, Becomes, HelperServes
<1>6. Steady(m) => OwnInv(m)'
  <2>1. mgr[m].pc \notin StartingPcs /\ (mgr[m].pc = "stop" => mgr[m].tries = 0)
    BY <1>1, Facts DEF StartingPcs
  <2>2. mgr[m].pc = "spawn" => mgr[m].own \in {"stopped", "helper"}
    BY Facts DEF OwnInv, OwnsDirect, OwnsElevated, Owners
  <2>3. TypeOK /\ OwnInv(m)
    BY DEF OwnershipInv
  <2> QED
    BY <1>1, <1>2, <1>4, <1>5, <2>1, <2>2, <2>3, OwnSame
<1>7. CASE /\ proc' = HelperStops(m) /\ port' = PortAfter(HelperVictims)
           /\ wrong' = wrong \cup HelperMistakes(m) /\ UNCHANGED faults
           /\ helper' = [helper EXCEPT !.how = "none", !.pid = 0, !.file = 0, !.client = m,
                                      !.job = IF Stops(m) THEN "done" ELSE "stopped"]
  <2>1. PICK nobody \in 0..MaxPid : nobody = 0
    BY LimitsAssumption
  <2>2. PICK job \in {"done", "stopped"} : job = IF Stops(m) THEN "done" ELSE "stopped"
    OBVIOUS
  <2>3. PICK h : h = [helper EXCEPT !.how = "none", !.pid = nobody, !.file = nobody,
                                    !.client = m, !.job = job]
    OBVIOUS
  <2>4. /\ h \in Brokers /\ h.up = helper.up /\ h.pid = 0 /\ h.client = m /\ h.job = job
    BY ZenonT(40), <1>1, <2>1, <2>3 DEF Brokers
  <2>5. helper' = h
    BY <1>7, <2>1, <2>2, <2>3
  <2>6. Steady(m)
    <3>1. \A p \in Pids : Unused(proc'[p]) \/ proc'[p].parent = 0
      BY <1>1, <1>7, VictimsEnd
    <3> QED
      BY <1>1, <3>1, BrokerTable DEF Steady, Unused
  <2>7. job = IF r.pc = "halting" THEN "done" ELSE "stopped"
    BY <1>2, <1>4, <2>2
  <2> QED
    BY <1>1, <1>4, <1>5, <1>6, <1>7, <2>4, <2>5, <2>6, <2>7, ServedStep
<1>8. CASE /\ Fault /\ helper' = [helper EXCEPT !.client = m, !.job = "failed"]
           /\ UNCHANGED <<proc, port, wrong>>
  <2>1. /\ helper' \in Brokers /\ helper'.up /\ helper'.pid = helper.pid
        /\ helper'.file = helper.file /\ helper'.client = m /\ helper'.job = "failed"
    BY <1>1, <1>8 DEF Brokers
  <2>2. TypeOK'
    BY <1>1, <1>5, <1>8, <2>1, FaultIs DEF OwnershipInv, TypeOK, Becomes
  <2>3. TableInv'
    BY <1>1, <1>4, <1>5, <1>8
       DEF OwnershipInv, TableInv, Vacant, Tree, OneChild, Waits, Becomes
  <2>4. HelperInv'
    BY <1>1, <1>8, <2>1, ManagersAssumption DEF OwnershipInv, HelperInv, HelperChild, Alive
  <2>5. ClientInv'
    BY <1>4, <1>5, <2>1 DEF ClientInv, Becomes
  <2>6. \A n \in Managers : Steady(n) /\ Continues(n) /\ ~Claimed(n)
    BY <1>1, <1>8, StillTable DEF Claimed
  <2>7. Account(m)'
    BY <1>4, <1>5, <1>8, <2>6, Facts, AccountFrame DEF Becomes
  <2>8. SparesOthers' /\ HelperSparesPrograms'
    BY <1>8 DEF OwnershipInv, SparesOthers, HelperSparesPrograms
  <2>9. wrong \subseteq wrong' /\ platform' = platform
    BY <1>1, <1>8
  <2> QED
    BY <1>5, <1>6, <2>2, <2>3, <2>4, <2>5, <2>6, <2>7, <2>8, <2>9, ActorStep
<1> QED
  BY <1>7, <1>8 DEF HelperServes

(* It answers: manager m goes on.                                             *)
LEMMA AnswerStep ==
    ASSUME OwnershipInv, helper.job \in {"done", "failed"}, NEW m \in Managers,
           helper.client = m, NEW r, Becomes(m, r), r.pc # "down",
           helper' = [helper EXCEPT !.job = "idle", !.client = "none"],
           UNCHANGED <<platform, tun, proc, port, wrong, faults>>,
           OwnInv(m)', Account(m)'
    PROVE  OwnershipInv'
<1>1. /\ helper' \in Brokers /\ helper'.up = helper.up /\ helper'.pid = helper.pid
      /\ helper'.file = helper.file /\ helper'.client = "none" /\ helper'.job = "idle"
  BY DEF Brokers, OwnershipInv, TypeOK
<1>2. TypeOK'
  BY <1>1 DEF OwnershipInv, TypeOK, Becomes
<1>3. TableInv'
  BY DEF OwnershipInv, TableInv, Vacant, Tree, OneChild, Waits, Becomes
<1>4. HelperInv' /\ ClientInv'
  BY <1>1, ManagersAssumption DEF OwnershipInv, HelperInv, HelperChild, ClientInv, Alive
<1>5. \A n \in Managers \ {m} : Steady(n) /\ Continues(n) /\ ~Claimed(n)
  BY StillTable DEF Claimed
<1>6. SparesOthers' /\ HelperSparesPrograms'
  BY DEF OwnershipInv, SparesOthers, HelperSparesPrograms
<1> QED
  BY <1>2, <1>3, <1>4, <1>5, <1>6, ActorStep

LEMMA HelperAnswersStep ==
    ASSUME OwnershipInv, NEW m \in Managers, helper.client = m, HelperAnswers
    PROVE  OwnershipInv'
<1>1. /\ helper.job \in {"done", "failed"} /\ helper.up /\ platform = "helper"
      /\ helper' = [helper EXCEPT !.job = "idle", !.client = "none"]
      /\ UNCHANGED <<platform, tun, proc, port, wrong, faults>>
      /\ mgr[m].pc \in {"halting", "restarting"}
      /\ mgr[m].pc = "halting" /\ helper.job = "done" => helper.pid = 0
  BY DEF HelperAnswers, OwnershipInv, HelperInv, ClientInv
<1>2. ASSUME NEW p \in Pids, Alive(p), proc[p].by = m
      PROVE  p = helper.pid /\ proc[p].kind = "core"
  BY <1>1, <1>2 DEF OwnershipInv, HelperInv, HelperChild
<1>3. /\ mgr[m].pc \notin StartingPcs /\ Steady(m) /\ TypeOK /\ OwnInv(m)
      /\ mgr[m].pc = "halting" => mgr[m].tries = 0
  BY <1>1, StillTable, Facts DEF OwnershipInv, StartingPcs
<1>4. /\ mgr[m].own \in {"stopped", "helper"} /\ mgr[m].wrapper = 0
  BY <1>1, Facts DEF OwnInv, OwnsDirect, OwnsElevated, OwnsHelper, OwnsNone,
                     StartingPcs, Owners
<1>5. helper.job = "failed" => ~Claimed(m) /\ Continues(m)
  BY <1>1, StillTable DEF Claimed
<1>6. CASE mgr[m].pc = "halting" /\ helper.job = "done"
  <2>1. PICK r : /\ Becomes(m, r) /\ r.pc \in {"exit", "spawn"}
                 /\ r.own = "stopped" /\ r.pid = 0 /\ r.wrapper = 0
                 /\ r.tries = mgr[m].tries /\ r.err = mgr[m].err
    BY <1>6, StopDoneIs DEF OwnershipInv, HelperAnswers, Step
  <2>2. OwnInv(m)'
    BY <1>3, <1>6, <2>1, LimitsAssumption
       DEF Becomes, OwnInv, Down, OwnsDirect, OwnsElevated, OwnsHelper,
           OwnsNone, Starts, Reaps, Tries, StartingPcs
  <2>3. Account(m)'
    BY <1>1, <1>2, <1>6 DEF Account, Alive, Pids
  <2> QED
    BY <1>1, <2>1, <2>2, <2>3, AnswerStep
<1>7. CASE mgr[m].pc = "halting" /\ helper.job = "failed"
  <2>1. PICK r : /\ Becomes(m, r) /\ r.pc \in {"exit", "idle", "stop"}
                 /\ r.own = mgr[m].own /\ r.pid = mgr[m].pid
                 /\ r.wrapper = mgr[m].wrapper
                 /\ r.tries = mgr[m].tries /\ r.err = mgr[m].err
    BY <1>7, StopFailsIs DEF OwnershipInv, HelperAnswers, Step
  <2>2. OwnInv(m)'
    BY <1>1, <1>3, <1>7, <2>1, OwnSame
  <2>3. Account(m)'
    BY <1>1, <1>5, <1>7, <2>1, Facts, AccountFrame DEF Becomes
  <2> QED
    BY <1>1, <2>1, <2>2, <2>3, AnswerStep
<1>8. CASE mgr[m].pc = "restarting" /\ helper.job = "done"
  <2>1. PICK a \in Owners : /\ a = Spawned(m) /\ a.pc \in {"ready", "idle"}
                            /\ a.tries = 0 /\ a.pid = mgr[m].pid
                            /\ a.wrapper = mgr[m].wrapper /\ a.err = mgr[m].err
    BY Facts, SpawnedIs
  <2>2. PICK r : r = [a EXCEPT !.own = "helper", !.pid = helper.pid]
    OBVIOUS
  <2>3. /\ r \in Owners /\ r.pc = a.pc /\ r.own = "helper" /\ r.pid = helper.pid
        /\ r.wrapper = a.wrapper /\ r.tries = a.tries /\ r.err = a.err
    BY <2>2 DEF Owners, OwnershipInv, TypeOK, Brokers
  <2>4. mgr' = [mgr EXCEPT ![m] = r]
    BY <1>8, <2>1, <2>2 DEF HelperAnswers, Step
  <2>5. Becomes(m, r)
    BY <2>3, <2>4, Update DEF OwnershipInv
  <2>6. OwnInv(m)'
    BY <1>1, <1>4, <2>1, <2>3, <2>5
       DEF Becomes, OwnInv, Down, OwnsDirect, OwnsElevated, OwnsHelper,
           OwnsNone, Starts, Reaps, Tries, StartingPcs
  <2>7. Account(m)'
    BY <1>1, <1>2, <1>4, <2>1, <2>3, <2>5 DEF Account, Known, Alive, Becomes
  <2>8. r.pc # "down"
    BY <2>1, <2>3
  <2> QED
    BY <1>1, <2>5, <2>6, <2>7, <2>8, AnswerStep
<1>9. CASE mgr[m].pc = "restarting" /\ helper.job = "failed"
  <2>1. PICK r : /\ Becomes(m, r) /\ r.pc \in {"exit", "idle"}
                 /\ r.tries = 0 /\ r.own = mgr[m].own /\ r.pid = mgr[m].pid
                 /\ r.wrapper = mgr[m].wrapper /\ r.err = mgr[m].err
    BY <1>9, FailsIs, Facts DEF OwnershipInv, HelperAnswers, Step
  <2>2. OwnInv(m)'
    BY <1>1, <1>3, <1>9, <2>1, OwnSame
  <2>3. Account(m)'
    BY <1>1, <1>5, <1>9, <2>1, Facts, AccountFrame DEF Becomes
  <2> QED
    BY <1>1, <2>1, <2>2, <2>3, AnswerStep
<1> QED
  BY <1>1, <1>6, <1>7, <1>8, <1>9

-----------------------------------------------------------------------------
(* Steps nobody asked for.                                                    *)

LEMMA WorldStep ==
    ASSUME OwnershipInv, UNCHANGED <<platform, mgr, wrong>>, TypeOK', TableInv', HelperInv',
           ClientInv',
           \A n \in Managers :
              /\ Steady(n)
              /\ (Continues(n) /\ (Claimed(n) => Claimed(n)')) \/ Account(n)'
    PROVE  OwnershipInv'
<1>1. ASSUME NEW n \in Managers
      PROVE  OwnInv(n)'
  BY OwnFrame DEF OwnershipInv
<1>2. ASSUME NEW n \in Managers
      PROVE  Account(n)'
  BY AccountFrame DEF OwnershipInv
<1> QED
  BY <1>1, <1>2 DEF OwnershipInv, SparesOthers, HelperSparesPrograms

(* ... while the broker is where it was.                                      *)
LEMMA SameBroker ==
    ASSUME OwnershipInv, UNCHANGED <<mgr, helper>>
    PROVE  ClientInv' /\ \A n : Claimed(n) => Claimed(n)'
  BY DEF OwnershipInv, ClientInv, Claimed

(* ... that end the processes of S.                                           *)
LEMMA EndsAlone ==
    ASSUME OwnershipInv, NEW S \in SUBSET Pids, NEW conflict \in BOOLEAN,
           proc' = Exited(proc, S, conflict), port' \in {port, 0},
           UNCHANGED <<platform, tun, mgr, helper, wrong>>, Fault \/ UNCHANGED faults,
           \A p \in Pids : proc[p].parent \notin S
    PROVE  OwnershipInv'
<1>1. Ended(proc', S, {})
  BY ExitedEnds DEF OwnershipInv
<1>2. TypeOK'
  <2>1. faults' \in 0..MaxFaults /\ port' \in 0..MaxPid
    BY FaultIs, LimitsAssumption DEF OwnershipInv, TypeOK
  <2> QED
    BY <1>1, <2>1 DEF OwnershipInv, TypeOK, Ended
<1>3. TableInv'
  BY <1>1, EndedTable DEF OwnershipInv
<1>4. \A n \in Managers : Steady(n) /\ Continues(n)
  <2>1. PICK R \in SUBSET Pids : R = {}
    OBVIOUS
  <2>2. \A n : \A p \in R \cap Pids : proc[p].reaper # n
    BY <2>1
  <2>3. \A p \in Pids : proc[p].parent \in S => p \in S
    OBVIOUS
  <2> QED
    BY <1>1, <2>1, <2>2, <2>3, EndedFrame DEF OwnershipInv
<1>5. HelperInv'
  <2>1. PICK R \in SUBSET Pids : R = {}
    OBVIOUS
  <2>2. \A p \in R \cap Pids : proc[p].reaper # "helper"
    BY <2>1
  <2> QED
    BY <1>1, <2>1, <2>2, EndedRemains, HelperFrame DEF OwnershipInv
<1> QED
  BY <1>2, <1>3, <1>4, <1>5, SameBroker, WorldStep

(* The broker starts the process a client asked for: nobody knows its pid yet.*)
LEMMA HelperSpawnsStep ==
    ASSUME OwnershipInv, HelperSpawns
    PROVE  OwnershipInv'
<1>1. /\ helper.job = "stopped" /\ helper.up /\ platform = "helper" /\ helper.pid = 0
      /\ helper \in Brokers /\ helper.client \in Managers \cup {"past"}
      /\ UNCHANGED <<platform, tun, port, mgr, wrong>>
  BY DEF HelperSpawns, OwnershipInv, HelperInv, TypeOK, Brokers
<1>2. \A n : ~Claimed(n)
  BY <1>1 DEF Claimed
<1>3. \A p \in Pids : ~(Alive(p) /\ proc[p].by \in Managers)
  BY <1>1 DEF OwnershipInv, HelperInv, HelperChild, Alive
<1>4. CASE Fault /\ helper' = [helper EXCEPT !.job = "failed"] /\ UNCHANGED proc
  <2>1. /\ helper' \in Brokers /\ helper'.up /\ helper'.pid = 0 /\ helper'.file = helper.file
        /\ helper'.client = helper.client /\ helper'.job = "failed"
    BY <1>1, <1>4 DEF Brokers
  <2>2. TypeOK'
    BY <1>1, <1>4, <2>1, FaultIs DEF OwnershipInv, TypeOK
  <2>3. TableInv'
    BY <1>1, <1>4 DEF OwnershipInv, TableInv, Vacant, Tree, OneChild, Waits
  <2>4. HelperInv' /\ ClientInv'
    BY <1>1, <1>3, <1>4, <2>1, ManagersAssumption
       DEF OwnershipInv, HelperInv, ClientInv, Alive
  <2> QED
    BY <1>1, <1>2, <1>4, <2>2, <2>3, <2>4, StillTable, WorldStep
<1>5. ASSUME NEW p \in Free, helper' = [helper EXCEPT !.job = "spawned", !.fresh = p],
             proc' = [proc EXCEPT ![p] = NewProcess(proc[p].inst, "core", 0, "helper",
                                                    helper.client)],
             UNCHANGED faults
      PROVE  OwnershipInv'
  <2>1. p \in Pids /\ proc[p].kind = "none" /\ proc[p].inst < MaxInst
    BY DEF Free
  <2>2. PICK new : new = NewProcess(proc[p].inst, "core", 0, "helper", helper.client)
    OBVIOUS
  <2>3. /\ new \in Processes /\ new.kind = "core" /\ new.st = "start"
        /\ new.parent = 0 /\ new.reaper = "helper" /\ new.by = helper.client
    <3>1. PICK kind \in {"core", "sudo", "other"} : kind = "core"
      OBVIOUS
    <3>2. PICK reaper \in Managers \cup {"init", "sudo", "helper"} : reaper = "helper"
      OBVIOUS
    <3>3. PICK parent \in 0..MaxPid : parent = 0
      BY LimitsAssumption
    <3>4. helper.client \in Originators /\ proc[p].inst \in 0..MaxInst
      BY <1>1, <2>1 DEF Originators, OwnershipInv, TypeOK, Processes
    <3>5. new = NewProcess(proc[p].inst, kind, parent, reaper, helper.client)
      BY <2>2, <3>1, <3>2, <3>3
    <3> QED
      BY <2>1, <3>1, <3>2, <3>3, <3>4, <3>5, NewIs
  <2>4. /\ TableInv' /\ proc' \in [Pids -> Processes] /\ proc'[p] = new
        /\ \A n \in Managers : Steady(n) /\ (new.by # n => Continues(n))
        /\ \A q \in Pids \ {p} : proc'[q] = proc[q]
    <3>1. proc' = [proc EXCEPT ![p] = new] /\ platform' = platform /\ mgr' = mgr
      BY <1>1, <1>5, <2>2
    <3>2. new.by \in Managers => mgr'[new.by].pc # "down"
      BY <2>3, <3>1 DEF OwnershipInv, ClientInv
    <3>3. /\ new.reaper \notin Managers /\ new.kind # "none" /\ new.kind # "sudo"
          /\ TypeOK /\ TableInv
      BY <2>3, ManagersAssumption DEF OwnershipInv
    <3> QED
      BY <2>1, <2>3, <3>1, <3>2, <3>3, NewFrame
  <2>5. /\ helper' \in Brokers /\ helper'.up /\ helper'.pid = 0 /\ helper'.file = helper.file
        /\ helper'.client = helper.client /\ helper'.job = "spawned" /\ helper'.fresh = p
    <3>1. PICK fresh \in 0..MaxPid : fresh = p
      BY <2>1 DEF Pids
    <3>2. PICK h : h = [helper EXCEPT !.job = "spawned", !.fresh = fresh]
      OBVIOUS
    <3>3. /\ h \in Brokers /\ h.up = helper.up /\ h.pid = helper.pid /\ h.file = helper.file
          /\ h.client = helper.client /\ h.job = "spawned" /\ h.fresh = fresh
      BY ZenonT(40), <1>1, <3>1, <3>2 DEF Brokers
    <3> QED
      BY <1>1, <1>5, <3>1, <3>2, <3>3
  <2>6. TypeOK'
    BY <1>1, <1>5, <2>4, <2>5 DEF OwnershipInv, TypeOK
  <2>7. HelperInv'
    <3>1. \A q \in Pids \ {p} : ~(Alive(q)' /\ proc'[q].by \in Managers)
      BY <1>3, <2>4 DEF Alive
    <3> QED
      BY <1>1, <2>1, <2>3, <2>4, <2>5, <3>1, ManagersAssumption DEF HelperInv, HelperChild
  <2>8. ClientInv'
    BY <1>1, <2>5 DEF OwnershipInv, ClientInv
  <2>9. ASSUME NEW n \in Managers
        PROVE  /\ Steady(n)
               /\ (Continues(n) /\ (Claimed(n) => Claimed(n)')) \/ Account(n)'
    <3>1. CASE helper.client = n
      BY <2>4, <2>5, <3>1 DEF Account, Claimed
    <3>2. CASE helper.client # n
      BY <1>2, <2>3, <2>4, <3>2
    <3> QED
      BY <3>1, <3>2
  <2> QED
    BY <1>1, <2>4, <2>6, <2>7, <2>8, <2>9, WorldStep
<1> QED
  BY <1>4, <1>5 DEF HelperSpawns

(* It records the pid, or ends the child again.                               *)
LEMMA HelperRecordsStep ==
    ASSUME OwnershipInv, HelperRecords
    PROVE  OwnershipInv'
<1> DEFINE S == {p \in {helper.fresh} : Alive(p)}
<1>1. /\ helper.job = "spawned" /\ helper.up /\ platform = "helper" /\ helper.pid = 0
      /\ helper \in Brokers /\ helper.client # "none"
      /\ helper.fresh \in Pids /\ proc[helper.fresh].kind = "core"
      /\ proc[helper.fresh].reaper = "helper"
      /\ UNCHANGED <<platform, tun, mgr>>
  BY DEF HelperRecords, OwnershipInv, HelperInv, TypeOK
<1>2. ASSUME NEW p \in Pids, Alive(p), proc[p].by \in Managers
      PROVE  p = helper.fresh /\ proc[p].kind = "core"
  BY <1>1, <1>2 DEF OwnershipInv, HelperInv, HelperChild
<1>3. CASE /\ helper' = [helper EXCEPT !.job = "done", !.how = "child", !.fresh = 0,
                                       !.pid = helper.fresh, !.file = helper.fresh]
           /\ UNCHANGED <<proc, port, wrong, faults>>
  <2>1. PICK nobody \in 0..MaxPid : nobody = 0
    BY LimitsAssumption
  <2>2. PICK h : h = [helper EXCEPT !.job = "done", !.how = "child", !.fresh = nobody,
                                    !.pid = helper.fresh, !.file = helper.fresh]
    OBVIOUS
  <2>3. /\ h \in Brokers /\ h.up /\ h.pid = helper.fresh /\ h.file = helper.fresh
        /\ h.client = helper.client /\ h.job = "done"
    BY ZenonT(40), <1>1, <2>1, <2>2 DEF Brokers
  <2>4. helper' = h
    BY <1>3, <2>1, <2>2
  <2>5. TypeOK'
    BY <1>1, <1>3, <2>3, <2>4 DEF OwnershipInv, TypeOK
  <2>6. TableInv'
    BY <1>1, <1>3 DEF OwnershipInv, TableInv, Vacant, Tree, OneChild, Waits
  <2>7. HelperInv'
    BY <1>1, <1>2, <1>3, <2>3, <2>4 DEF HelperInv, HelperChild, Alive
  <2>8. ClientInv' /\ \A n : Claimed(n) => Claimed(n)'
    BY <1>1, <2>3, <2>4 DEF OwnershipInv, ClientInv, Claimed
  <2> QED
    BY <1>1, <1>3, <2>5, <2>6, <2>7, <2>8, StillTable, WorldStep
<1>4. CASE /\ Fault /\ proc' = Reaped(Exited(proc, S, FALSE), {helper.fresh})
           /\ port' = PortAfter(S)
           /\ wrong' = wrong \cup {"helper-other" : p \in {q \in S : proc[q].kind # "core"}}
           /\ helper' = [helper EXCEPT !.job = "failed", !.fresh = 0]
  <2>1. PICK nobody \in 0..MaxPid : nobody = 0
    BY LimitsAssumption
  <2>2. PICK h : h = [helper EXCEPT !.job = "failed", !.fresh = nobody]
    OBVIOUS
  <2>3. /\ h \in Brokers /\ h.up /\ h.pid = 0 /\ h.file = helper.file
        /\ h.client = helper.client /\ h.job = "failed"
    BY ZenonT(40), <1>1, <2>1, <2>2 DEF Brokers
  <2>4. helper' = h
    BY <1>4, <2>1, <2>2
  <2>5. S \in SUBSET Pids /\ wrong' = wrong
    BY <1>1, <1>4
  <2>6. port' \in {port, 0}
    BY <1>4 DEF PortAfter
  <2>7. \A p \in Pids : Alive(p) /\ proc[p].by \in Managers => p \in S
    BY <1>2
  <2> HIDE DEF S
  <2>8. Ended(proc', S, {helper.fresh})
    BY <1>4, <2>5, ReapedEnds DEF OwnershipInv
  <2>9. TypeOK'
    <3>1. faults' \in 0..MaxFaults /\ port' \in 0..MaxPid
      BY <1>4, <2>6, FaultIs, LimitsAssumption DEF OwnershipInv, TypeOK
    <3> QED
      BY <1>1, <2>3, <2>4, <2>5, <2>8, <3>1 DEF OwnershipInv, TypeOK, Ended
  <2>10. TableInv'
    BY <1>1, <2>5, <2>8, EndedTable DEF OwnershipInv
  <2>11. ASSUME NEW p \in Pids, Alive(p)', proc'[p].by \in Managers
         PROVE  FALSE
    <3>1. p \notin Gone(proc, S)
      <4>1. PICK n \in Managers : n = proc'[p].by
        BY <2>11
      <4> QED
        BY <2>5, <2>8, <2>11, <4>1, EndedFrame DEF OwnershipInv
    <3>2. p \notin S
      BY <3>1 DEF Gone
    <3>3. Alive(p) /\ proc[p].by \in Managers
      BY <2>8, <2>11, <3>1, ManagersAssumption DEF Ended, Alive, Unused
    <3> QED
      BY <2>7, <3>2, <3>3
  <2>12. HelperInv' /\ ClientInv'
    BY <1>1, <2>3, <2>4, <2>11, ManagersAssumption
       DEF OwnershipInv, HelperInv, ClientInv
  <2>13. ASSUME NEW n \in Managers
         PROVE  Steady(n) /\ Account(n)'
    <3>1. \A p \in {helper.fresh} \cap Pids : proc[p].reaper # n
      BY <1>1, ManagersAssumption
    <3>2. Steady(n)
      BY <2>5, <2>8, <3>1, EndedFrame DEF OwnershipInv
    <3> QED
      BY <2>11, <3>2 DEF Account
  <2> QED
    BY <1>1, <2>5, <2>9, <2>10, <2>12, <2>13, WorldStep
<1> QED
  BY <1>3, <1>4 DEF HelperRecords

(* It answers a client that is gone.                                          *)
LEMMA AnswersNobodyStep ==
    ASSUME OwnershipInv, helper.client \notin Managers, HelperAnswers
    PROVE  OwnershipInv'
<1>1. /\ helper.job \in {"done", "failed"} /\ helper.up /\ platform = "helper"
      /\ helper' = [helper EXCEPT !.job = "idle", !.client = "none"]
      /\ UNCHANGED <<platform, tun, proc, port, wrong, faults, mgr>>
  BY DEF HelperAnswers, OwnershipInv, HelperInv
<1>2. /\ helper' \in Brokers /\ helper'.up = helper.up /\ helper'.pid = helper.pid
      /\ helper'.file = helper.file /\ helper'.client = "none" /\ helper'.job = "idle"
  BY <1>1 DEF Brokers, OwnershipInv, TypeOK
<1>3. TypeOK'
  BY <1>1, <1>2 DEF OwnershipInv, TypeOK
<1>4. TableInv'
  BY <1>1 DEF OwnershipInv, TableInv, Vacant, Tree, OneChild, Waits
<1>5. HelperInv' /\ ClientInv'
  BY <1>1, <1>2, ManagersAssumption DEF OwnershipInv, HelperInv, HelperChild, ClientInv, Alive
<1>6. \A n \in Managers : ~Claimed(n)
  BY DEF Claimed
<1> QED
  BY <1>1, <1>3, <1>4, <1>5, <1>6, StillTable, WorldStep

(* The daemon is killed: what it had not answered for is nobody's.            *)
LEMMA HelperCrashStep ==
    ASSUME OwnershipInv, HelperCrash
    PROVE  OwnershipInv'
<1>1. ASSUME NEW p \in Pids
      PROVE  /\ proc'[p] \in Processes
             /\ proc[p].reaper # "helper" => proc'[p] = proc[p]
             /\ proc[p].reaper = "helper" /\ proc[p].st = "zombie" => Unused(proc'[p])
             /\ proc[p].reaper = "helper" /\ proc[p].st # "zombie" =>
                   /\ proc'[p].kind = proc[p].kind
                   /\ proc'[p].by = IF p \in ReplyLost THEN "untold" ELSE proc[p].by
                   /\ proc'[p].st = proc[p].st /\ proc'[p].parent = proc[p].parent
                   /\ proc'[p].reaper = "init"
  <2>1. proc[p] \in Processes /\ proc[p].inst \in 0..MaxInst
    BY DEF OwnershipInv, TypeOK, Processes
  <2>2. CASE proc[p].reaper # "helper"
    BY <2>1, <2>2 DEF HelperCrash
  <2>3. CASE proc[p].reaper = "helper" /\ proc[p].st = "zombie"
    <3>1. proc'[p] = NoProcess(proc[p].inst)
      BY <2>3 DEF HelperCrash
    <3> QED
      BY <2>1, <2>3, <3>1, UnusedIs, NoProcessType
  <2>4. CASE proc[p].reaper = "helper" /\ proc[p].st # "zombie"
    <3>1. PICK by \in Originators : by = IF p \in ReplyLost THEN "untold" ELSE proc[p].by
      BY <2>1 DEF Originators, Processes
    <3>2. PICK reaper \in Managers \cup {"init", "sudo", "helper"} : reaper = "init"
      OBVIOUS
    <3>3. PICK a : a = [proc[p] EXCEPT !.reaper = reaper]
      OBVIOUS
    <3>4. a.by = proc[p].by
      BY <2>1, <3>3 DEF Processes
    <3>5. proc'[p] = [a EXCEPT !.by = by]
      BY <2>4, <3>1, <3>2, <3>3, <3>4 DEF HelperCrash
    <3>6. /\ a \in Processes /\ a.kind = proc[p].kind /\ a.st = proc[p].st
          /\ a.parent = proc[p].parent /\ a.reaper = "init"
      BY <2>1, <3>2, <3>3 DEF Processes
    <3> QED
      BY <2>4, <3>1, <3>5, <3>6 DEF Processes
  <2> QED
    BY <2>2, <2>3, <2>4
<1>2. /\ helper' \in Brokers /\ ~helper'.up /\ helper'.pid = 0 /\ helper'.file = helper.file
      /\ helper'.job = "idle" /\ helper'.client = "none"
  <2>1. PICK nobody \in 0..MaxPid : nobody = 0
    BY LimitsAssumption
  <2>2. helper.file \in 0..MaxPid
    BY DEF OwnershipInv, TypeOK, Brokers
  <2>3. helper' = [up |-> FALSE, how |-> "none", pid |-> nobody, file |-> helper.file,
                   job |-> "idle", client |-> "none", fresh |-> nobody]
    BY <2>1 DEF HelperCrash, Broker
  <2> QED
    BY <2>1, <2>2, <2>3 DEF Brokers
<1>3. TypeOK'
  <2>1. proc' \in [Pids -> Processes]
    BY <1>1 DEF HelperCrash
  <2> QED
    BY <1>2, <2>1, FaultIs DEF HelperCrash, OwnershipInv, TypeOK
<1>4. \A p \in Pids : proc'[p].by \in Managers =>
         proc'[p].by = proc[p].by /\ (proc[p].reaper = "helper" => p \notin ReplyLost)
  BY <1>1, ManagersAssumption DEF Unused
<1>5. TableInv'
  <2>1. Vacant'
    BY <1>1 DEF Vacant, Unused, OwnershipInv, TableInv
  <2>2. Tree'
    <3>1. platform = "helper"
      BY DEF HelperCrash, OwnershipInv, HelperInv
    <3>2. \A p \in Pids : proc[p].kind # "sudo"
      BY <3>1 DEF OwnershipInv, TableInv, Waits
    <3>3. \A p \in Pids : proc[p].parent = 0
      BY <3>2 DEF OwnershipInv, TableInv, Tree
    <3> QED
      BY <1>1, <3>3 DEF Tree, Unused
  <2>3. OneChild'
    BY <1>1 DEF OneChild, Unused, OwnershipInv, TableInv
  <2>4. Waits'
    <3> SUFFICES ASSUME NEW p \in Pids
                 PROVE  /\ proc'[p].reaper \in Managers =>
                              proc'[p].by = proc'[p].reaper /\ platform = "sudo"
                        /\ proc'[p].kind = "sudo" =>
                              /\ platform = "sudo"
                              /\ proc'[p].by \in Managers =>
                                    proc'[p].reaper = proc'[p].by
                        /\ proc'[p].st = "zombie" =>
                              proc'[p].reaper \in Managers \cup {"helper"}
                        /\ proc'[p].by \in Managers => mgr[proc'[p].by].pc # "down"
      BY DEF Waits, HelperCrash
    <3>1. /\ proc[p].reaper \in Managers =>
                proc[p].by = proc[p].reaper /\ platform = "sudo"
          /\ proc[p].kind = "sudo" =>
                /\ platform = "sudo"
                /\ proc[p].by \in Managers => proc[p].reaper = proc[p].by
          /\ proc[p].st = "zombie" => proc[p].reaper \in Managers \cup {"helper"}
          /\ proc[p].by \in Managers => mgr[proc[p].by].pc # "down"
      BY DEF OwnershipInv, TableInv, Waits
    <3>2. CASE proc[p].reaper # "helper"
      BY <1>1, <3>1, <3>2
    <3>3. CASE proc[p].reaper = "helper" /\ proc[p].st = "zombie"
      BY <1>1, <3>3, ManagersAssumption DEF Unused
    <3>4. CASE proc[p].reaper = "helper" /\ proc[p].st # "zombie"
      BY <1>1, <1>4, <3>1, <3>4, ManagersAssumption
    <3> QED
      BY <3>2, <3>3, <3>4
  <2> QED
    BY <2>1, <2>2, <2>3, <2>4 DEF TableInv
<1>6. ASSUME NEW p \in Pids, Alive(p)', proc'[p].by \in Managers
      PROVE  /\ Alive(p) /\ proc[p].by = proc'[p].by /\ proc'[p].kind = proc[p].kind
             /\ proc'[p].parent = proc[p].parent /\ platform = "helper"
             /\ p = HelperChild /\ p \notin ReplyLost /\ proc[p].kind = "core"
  <2>1. Alive(p) /\ proc[p].by = proc'[p].by /\ proc'[p].kind = proc[p].kind
        /\ proc'[p].parent = proc[p].parent
    BY <1>1, <1>4, <1>6 DEF Alive, Unused
  <2>2. platform = "helper" /\ helper.up
    BY DEF HelperCrash, OwnershipInv, HelperInv
  <2>3. p = HelperChild /\ proc[p].kind = "core"
    BY <1>6, <2>1, <2>2 DEF OwnershipInv, HelperInv
  <2>4. p \in ReplyLost => helper.job \in {"spawned", "done"}
    BY DEF ReplyLost
  <2>5. p \notin ReplyLost
    <3>1. CASE proc[p].reaper = "helper"
      BY <1>4, <1>6, <3>1
    <3>2. CASE proc[p].reaper # "helper"
      BY <3>2 DEF ReplyLost, OwnershipInv, HelperInv, Pids
    <3> QED
      BY <3>1, <3>2
  <2> QED
    BY <2>1, <2>2, <2>3, <2>5
<1>7. HelperInv'
  <2>1. helper.up /\ platform' = platform
    BY DEF HelperCrash
  <2>2. ASSUME NEW p \in Pids, Alive(p)', proc'[p].by \in Managers
        PROVE  proc'[p].kind = "core" /\ p = helper'.file
    <3>1. p = HelperChild /\ p \notin ReplyLost /\ proc'[p].kind = "core"
      BY <1>6, <2>2
    <3>2. helper.job # "spawned" /\ p = helper.pid
      BY <2>1, <3>1 DEF HelperChild, ReplyLost
    <3>3. helper.file = helper.pid
      BY <2>1, <3>2 DEF OwnershipInv, HelperInv, Pids
    <3> QED
      BY <1>2, <3>1, <3>2, <3>3
  <2> QED
    BY <1>2, <2>2, ManagersAssumption DEF HelperInv, HelperChild
<1>8. ClientInv'
  BY <1>2, ManagersAssumption DEF ClientInv
<1>9. ASSUME NEW n \in Managers
      PROVE  Steady(n) /\ Account(n)'
  <2>1. Steady(n)
    BY <1>1, ManagersAssumption DEF Steady, Unused
  <2>2. ASSUME ~mgr[n].err, "cleanup" \notin wrong, NEW p \in Pids, Alive(p)', proc'[p].by = n
        PROVE  Known(n, p)'
    <3>1. /\ Alive(p) /\ proc[p].by = n /\ proc'[p].kind = proc[p].kind
          /\ proc'[p].parent = proc[p].parent
          /\ p = HelperChild /\ p \notin ReplyLost
      BY <1>6, <2>2
    <3>2. ~Claimed(n)
      BY <3>1 DEF Claimed, HelperChild, ReplyLost, HelperCrash
    <3>3. Known(n, p)
      BY <2>2, <3>1, <3>2 DEF OwnershipInv, Account
    <3> QED
      BY <3>1, <3>3 DEF Known, HelperCrash
  <2> QED
    BY <2>1, <2>2 DEF Account, HelperCrash
<1> QED
  BY <1>3, <1>5, <1>7, <1>8, <1>9, WorldStep DEF HelperCrash

LEMMA HelperStartStep ==
    ASSUME OwnershipInv, HelperStart
    PROVE  OwnershipInv'
<1>1. PICK yes \in BOOLEAN : yes = TRUE
  OBVIOUS
<1>2. PICK how \in {"none", "recovered"}, file \in 0..MaxPid :
         IF Matches(helper.file) THEN how = "recovered" /\ file = helper.file
         ELSE how = "none" /\ file = 0
  BY LimitsAssumption DEF OwnershipInv, TypeOK, Brokers
<1>3. /\ helper' \in Brokers /\ helper'.up /\ helper'.pid = file /\ helper'.file = file
      /\ helper'.client = helper.client /\ helper'.job = helper.job
  <2>1. helper \in Brokers
    BY DEF OwnershipInv, TypeOK
  <2>2. CASE Matches(helper.file)
    <3>1. helper' = [helper EXCEPT !.up = yes, !.how = how, !.pid = file]
      BY <1>1, <1>2, <2>2 DEF HelperStart
    <3> QED
      BY <1>1, <1>2, <2>1, <2>2, <3>1 DEF Brokers
  <2>3. CASE ~Matches(helper.file)
    <3>1. helper' = [helper EXCEPT !.up = yes, !.how = how, !.pid = file, !.file = file]
      BY <1>1, <1>2, <2>3 DEF HelperStart
    <3> QED
      BY <1>1, <2>1, <3>1 DEF Brokers
  <2> QED
    BY <2>2, <2>3
<1>4. TypeOK'
  BY <1>3 DEF HelperStart, OwnershipInv, TypeOK
<1>5. TableInv'
  BY DEF HelperStart, OwnershipInv, TableInv, Vacant, Tree, OneChild, Waits
<1>6. helper.client = "none" /\ helper.job = "idle"
  BY DEF HelperStart, OwnershipInv, HelperInv
<1>7. HelperInv'
  BY <1>2, <1>3, <1>6 DEF HelperStart, OwnershipInv, HelperInv, HelperChild, Matches, Alive
<1>8. ClientInv' /\ \A n \in Managers : ~Claimed(n)
  BY <1>3, <1>6, ManagersAssumption DEF ClientInv, Claimed
<1> QED
  BY <1>4, <1>5, <1>7, <1>8, StillTable, WorldStep DEF HelperStart

LEMMA SudoExecStep ==
    ASSUME OwnershipInv, NEW w \in Pids, SudoExec(w)
    PROVE  OwnershipInv'
<1>1. /\ proc[w].kind = "sudo" /\ proc[w].st = "start" /\ platform = "sudo"
      /\ \A p \in Pids : proc[p].parent # w
      /\ UNCHANGED <<platform, tun, port, mgr, helper, wrong>> /\ w # 0
  BY DEF SudoExec, OwnershipInv, TableInv, Tree, Waits, Pids
<1>2. CASE Fault /\ proc' = Exited(proc, {w}, FALSE)
  <2>1. PICK S \in SUBSET Pids : S = {w}
    OBVIOUS
  <2> QED
    BY <1>1, <1>2, <2>1, EndsAlone
<1>3. ASSUME NEW p \in Free,
             proc' = [proc EXCEPT ![w].st = "up",
                                  ![p] = NewProcess(proc[p].inst, "core", w, "sudo", proc[w].by)],
             UNCHANGED faults
      PROVE  OwnershipInv'
  <2>1. /\ p \in Pids /\ p # w /\ p # 0 /\ proc[p].kind = "none"
        /\ proc[p].inst < MaxInst /\ proc[p].reaper = "init"
        /\ \A q \in Pids : proc[q].parent # p
    BY <1>1 DEF Free, OwnershipInv, TableInv, Vacant, Tree, Pids
  <2>2. PICK new : new = NewProcess(proc[p].inst, "core", w, "sudo", proc[w].by)
    OBVIOUS
  <2>3. /\ new \in Processes /\ new.kind = "core" /\ new.st = "start"
        /\ new.parent = w /\ new.reaper = "sudo" /\ new.by = proc[w].by
    <3>1. PICK kind \in {"core", "sudo", "other"} : kind = "core"
      OBVIOUS
    <3>2. PICK reaper \in Managers \cup {"init", "sudo", "helper"} : reaper = "sudo"
      OBVIOUS
    <3>3. /\ proc[p].inst \in 0..MaxInst /\ proc[w].by \in Originators
          /\ w \in 0..MaxPid
      BY <2>1, LimitsAssumption DEF OwnershipInv, TypeOK, Processes, Pids
    <3>4. new = NewProcess(proc[p].inst, kind, w, reaper, proc[w].by)
      BY <2>2, <3>1, <3>2
    <3> QED
      BY <2>1, <3>1, <3>2, <3>3, <3>4, NewIs
  <2>4. PICK up : up = [proc[w] EXCEPT !.st = "up"]
    OBVIOUS
  <2>5. /\ up \in Processes /\ up.kind = "sudo" /\ up.st = "up"
        /\ up.parent = proc[w].parent /\ up.reaper = proc[w].reaper
        /\ up.by = proc[w].by
    BY <1>1, <2>4 DEF OwnershipInv, TypeOK, Processes
  <2>6. /\ proc' \in [Pids -> Processes] /\ proc'[p] = new /\ proc'[w] = up
        /\ \A q \in Pids \ {p, w} : proc'[q] = proc[q]
    BY <1>3, <2>1, <2>2, <2>3, <2>4, <2>5 DEF OwnershipInv, TypeOK
  <2>7. TypeOK'
    BY <1>1, <1>3, <2>6 DEF OwnershipInv, TypeOK
  <2>8. TableInv'
    <3>1. Vacant'
      BY <2>3, <2>5, <2>6 DEF OwnershipInv, TableInv, Vacant
    <3>2. Tree'
      BY <1>1, <2>1, <2>3, <2>5, <2>6 DEF OwnershipInv, TableInv, Tree
    <3>3. OneChild'
      BY <1>1, <2>1, <2>3, <2>5, <2>6 DEF OwnershipInv, TableInv, OneChild
    <3>4. Waits'
      BY <1>1, <2>3, <2>5, <2>6, ManagersAssumption
         DEF OwnershipInv, TableInv, Waits
    <3> QED
      BY <3>1, <3>2, <3>3, <3>4 DEF TableInv
  <2>9. helper.job # "spawned" /\ HelperInv' /\ \A n \in Managers : ~Claimed(n)
    BY <1>1, ManagersAssumption DEF OwnershipInv, HelperInv, Claimed
  <2>10. ASSUME NEW n \in Managers
         PROVE  Steady(n) /\ Account(n)'
    <3>1. Steady(n)
      BY <1>1, <2>1, <2>3, <2>5, <2>6, ManagersAssumption DEF Steady
    <3>2. ASSUME ~mgr[n].err, "cleanup" \notin wrong, NEW q \in Pids,
                 Alive(q)', proc'[q].by = n
          PROVE  Known(n, q)'
      <4>1. CASE q = p
        <5>1. Known(n, w)
          BY <1>1, <2>3, <2>6, <3>2, <4>1, <2>9, Facts DEF Account, Alive
        <5> QED
          BY <1>1, <2>3, <2>6, <4>1, <5>1 DEF Known
      <4>2. CASE q = w
        <5>1. Known(n, w)
          BY <1>1, <2>5, <2>6, <3>2, <4>2, <2>9, Facts DEF Account, Alive
        <5> QED
          BY <1>1, <2>5, <2>6, <4>2, <5>1 DEF Known
      <4>3. CASE q \notin {p, w}
        <5>1. Known(n, q)
          BY <2>6, <3>2, <4>3, <2>9, Facts DEF Account, Alive
        <5> QED
          BY <1>1, <2>6, <4>3, <5>1 DEF Known
      <4> QED
        BY <4>1, <4>2, <4>3
    <3> QED
      BY <1>1, <3>1, <3>2 DEF Account
  <2> QED
    BY <1>1, <2>7, <2>8, <2>9, <2>10, SameBroker, WorldStep
<1> QED
  BY <1>2, <1>3 DEF SudoExec

LEMMA BindStep ==
    ASSUME OwnershipInv, NEW p \in Pids, Bind(p) \/ CoreDies(p)
    PROVE  OwnershipInv'
<1>1. /\ proc[p].kind = "core" /\ UNCHANGED <<platform, tun, mgr, helper, wrong>>
      /\ \A q \in Pids : proc[q].parent # p
  <2>1. proc[p].kind = "core" /\ UNCHANGED <<platform, tun, mgr, helper, wrong>>
    BY DEF Bind, CoreDies, Matches
  <2> QED
    BY <2>1 DEF OwnershipInv, TableInv, Tree, Pids
<1>2. ASSUME NEW conflict \in BOOLEAN, proc' = Exited(proc, {p}, conflict),
             port' \in {port, 0}, Fault \/ UNCHANGED faults
      PROVE  OwnershipInv'
  <2>1. PICK S \in SUBSET Pids : S = {p}
    OBVIOUS
  <2> QED
    BY <1>1, <1>2, <2>1, EndsAlone
<1>3. CASE /\ proc[p].st = "start" /\ port' = p
           /\ proc' = [proc EXCEPT ![p].st = "up"] /\ UNCHANGED faults
  <2>1. PICK up : up = [proc[p] EXCEPT !.st = "up"]
    OBVIOUS
  <2>2. /\ up \in Processes /\ up.kind = "core" /\ up.st = "up"
        /\ up.parent = proc[p].parent /\ up.reaper = proc[p].reaper
        /\ up.by = proc[p].by
    BY <1>1, <2>1 DEF OwnershipInv, TypeOK, Processes
  <2>3. /\ proc' \in [Pids -> Processes] /\ proc'[p] = up
        /\ \A q \in Pids \ {p} : proc'[q] = proc[q]
    BY <1>3, <2>1, <2>2 DEF OwnershipInv, TypeOK
  <2>4. TypeOK'
    <3>1. port' \in 0..MaxPid
      BY <1>3, LimitsAssumption DEF Pids
    <3> QED
      BY <1>1, <1>3, <2>3, <3>1 DEF OwnershipInv, TypeOK
  <2>5. TableInv'
    <3>1. Vacant'
      BY <2>2, <2>3 DEF OwnershipInv, TableInv, Vacant
    <3>2. Tree'
      BY <1>1, <2>2, <2>3 DEF OwnershipInv, TableInv, Tree
    <3>3. OneChild'
      BY <2>2, <2>3 DEF OwnershipInv, TableInv, OneChild
    <3>4. Waits'
      BY <1>1, <2>2, <2>3 DEF OwnershipInv, TableInv, Waits
    <3> QED
      BY <3>1, <3>2, <3>3, <3>4 DEF TableInv
  <2>6. \A n \in Managers : Steady(n) /\ Continues(n)
    BY <1>1, <1>3, <2>2, <2>3 DEF Steady, Continues, Alive
  <2>7. Remains
    BY <1>1, <1>3, <2>2, <2>3 DEF Remains, Alive
  <2>8. HelperInv'
    BY <1>1, <2>7, HelperFrame DEF OwnershipInv
  <2> QED
    BY <1>1, <2>4, <2>5, <2>6, <2>8, SameBroker, WorldStep
<1>4. CASE Bind(p)
  BY <1>2, <1>3, <1>4 DEF Bind
<1>5. CASE CoreDies(p)
  BY <1>2, <1>5 DEF CoreDies, PortAfter
<1> QED
  BY <1>4, <1>5

LEMMA ReuseStep ==
    ASSUME OwnershipInv, NEW p \in Pids, Reuse(p)
    PROVE  OwnershipInv'
<1>1. /\ proc[p].kind = "none" /\ proc[p].inst < MaxInst
      /\ UNCHANGED <<platform, tun, port, mgr, helper, wrong, faults>>
  BY DEF Reuse, Free
<1>2. PICK k \in {"core", "other"} :
         proc' = [proc EXCEPT ![p] = NewProcess(proc[p].inst, k, 0, "init",
                                        IF k = "core" THEN "user" ELSE "other")]
  BY DEF Reuse
<1>3. PICK by \in {"user", "other"} : by = IF k = "core" THEN "user" ELSE "other"
  OBVIOUS
<1>4. PICK new : new = NewProcess(proc[p].inst, k, 0, "init", by)
  OBVIOUS
<1>5. /\ new \in Processes /\ new.kind = k /\ new.st = "start"
      /\ new.parent = 0 /\ new.reaper = "init" /\ new.by = by
  <2>1. PICK reaper \in Managers \cup {"init", "sudo", "helper"} : reaper = "init"
    OBVIOUS
  <2>2. PICK parent \in 0..MaxPid : parent = 0
    BY LimitsAssumption
  <2>3. /\ k \in {"core", "sudo", "other"} /\ by \in Originators
        /\ proc[p].inst \in 0..MaxInst
    BY DEF Originators, OwnershipInv, TypeOK, Processes
  <2>4. new = NewProcess(proc[p].inst, k, parent, reaper, by)
    BY <1>4, <2>1, <2>2
  <2> QED
    BY <1>1, <2>1, <2>2, <2>3, <2>4, NewIs
<1>6. /\ new.by \notin Managers /\ new.reaper \notin Managers
      /\ new.kind # "none" /\ new.kind # "sudo"
  BY <1>3, <1>5, ManagersAssumption
<1>7. proc' = [proc EXCEPT ![p] = new]
  BY <1>2, <1>3, <1>4
<1>8. /\ TableInv' /\ proc' \in [Pids -> Processes] /\ proc'[p] = new
      /\ \A n \in Managers : Steady(n) /\ (new.by # n => Continues(n))
      /\ \A q \in Pids \ {p} : proc'[q] = proc[q]
  BY <1>1, <1>5, <1>6, <1>7, NewFrame DEF OwnershipInv
<1>9. TypeOK'
  BY <1>1, <1>8 DEF OwnershipInv, TypeOK
<1>10. HelperInv'
  <2>1. Remains
    BY <1>1, <1>6, <1>8 DEF Remains, Alive, OwnershipInv, TableInv, Vacant
  <2> QED
    BY <1>1, <2>1, HelperFrame DEF OwnershipInv
<1> QED
  BY <1>1, <1>6, <1>8, <1>9, <1>10, SameBroker, WorldStep

(* A TUI ends: what still runs belongs to nobody.                             *)
LEMMA LeavesStep ==
    ASSUME OwnershipInv, NEW m \in Managers, Leaves(m), Fault \/ UNCHANGED faults
    PROVE  OwnershipInv'
<1>1. Blank \in Owners
  BY LimitsAssumption DEF Blank, Owners, Pcs, Ops
<1>2. Becomes(m, Blank)
  BY <1>1, Update DEF Leaves, OwnershipInv
<1>3. /\ mgr'[m].pc = "down" /\ mgr'[m].own = "stopped" /\ mgr'[m].pid = 0
      /\ mgr'[m].wrapper = 0 /\ mgr'[m].tries = 0 /\ mgr'[m] = Blank
  BY <1>2 DEF Becomes, Blank
<1>4. OwnInv(m)'
  BY <1>3 DEF OwnInv, Down, OwnsDirect, OwnsElevated, OwnsHelper, OwnsNone,
              Starts, Reaps, Tries, StartingPcs, Blank
<1>5. ASSUME NEW p \in Pids
      PROVE  /\ proc'[p] \in Processes
             /\ proc[p].reaper = m /\ proc[p].st = "zombie" => Unused(proc'[p])
             /\ ~(proc[p].reaper = m /\ proc[p].st = "zombie") =>
                   /\ proc'[p].kind = proc[p].kind /\ proc'[p].st = proc[p].st
                   /\ proc'[p].parent = proc[p].parent
                   /\ proc'[p].by = IF proc[p].by = m THEN "past" ELSE proc[p].by
                   /\ proc'[p].reaper = IF proc[p].reaper = m THEN "init"
                                        ELSE proc[p].reaper
  <2>1. PICK by \in Originators : by = IF proc[p].by = m THEN "past" ELSE proc[p].by
    BY DEF OwnershipInv, TypeOK, Processes, Originators
  <2>2. PICK reaper \in Managers \cup {"init", "sudo", "helper"} :
           reaper = IF proc[p].reaper = m THEN "init" ELSE proc[p].reaper
    BY DEF OwnershipInv, TypeOK, Processes
  <2>3. PICK r : r = [proc[p] EXCEPT !.by = by, !.reaper = reaper]
    OBVIOUS
  <2>4. /\ r \in Processes /\ r.kind = proc[p].kind /\ r.st = proc[p].st
        /\ r.parent = proc[p].parent /\ r.by = by /\ r.reaper = reaper
        /\ proc[p].inst \in 0..MaxInst
    BY <2>3 DEF OwnershipInv, TypeOK, Processes
  <2>5. proc'[p] = IF proc[p].reaper = m /\ proc[p].st = "zombie"
                   THEN NoProcess(proc[p].inst) ELSE r
    <3>1. [proc[p] EXCEPT !.by = by].reaper = proc[p].reaper
      BY DEF OwnershipInv, TypeOK, Processes
    <3>2. r = [proc[p] EXCEPT !.by = IF @ = m THEN "past" ELSE @,
                              !.reaper = IF @ = m THEN "init" ELSE @]
      BY <2>1, <2>2, <2>3, <3>1
    <3> QED
      BY <3>2 DEF Leaves
  <2> QED
    BY <2>1, <2>2, <2>4, <2>5, UnusedIs, NoProcessType
<1>12. /\ helper' \in Brokers /\ helper'.up = helper.up /\ helper'.pid = helper.pid
       /\ helper'.file = helper.file /\ helper'.job = helper.job
       /\ helper'.fresh = helper.fresh
       /\ helper'.client = IF helper.client = m THEN "past" ELSE helper.client
  <2>1. helper \in Brokers
    BY DEF OwnershipInv, TypeOK
  <2>2. PICK c \in Managers \cup {"none", "past"} :
           c = IF helper.client = m THEN "past" ELSE helper.client
    BY <2>1 DEF Brokers
  <2>3. helper' = [helper EXCEPT !.client = c]
    BY <2>2 DEF Leaves
  <2> QED
    BY <2>1, <2>2, <2>3 DEF Brokers
<1>6. TypeOK'
  <2>1. proc' \in [Pids -> Processes]
    BY <1>5 DEF Leaves
  <2> QED
    BY <1>2, <1>12, <2>1, FaultIs DEF Leaves, OwnershipInv, TypeOK, Becomes
<1>7. TableInv'
  <2>1. Vacant'
    BY <1>5, ManagersAssumption DEF Vacant, Unused, OwnershipInv, TableInv
  <2>2. Tree'
    BY <1>5, ManagersAssumption DEF Tree, Unused, OwnershipInv, TableInv
  <2>3. OneChild'
    BY <1>5 DEF OneChild, Unused, OwnershipInv, TableInv
  <2>4. Waits'
    <3> SUFFICES ASSUME NEW p \in Pids
                 PROVE  /\ proc'[p].reaper \in Managers =>
                              proc'[p].by = proc'[p].reaper /\ platform = "sudo"
                        /\ proc'[p].kind = "sudo" =>
                              /\ platform = "sudo"
                              /\ proc'[p].by \in Managers =>
                                    proc'[p].reaper = proc'[p].by
                        /\ proc'[p].st = "zombie" =>
                              proc'[p].reaper \in Managers \cup {"helper"}
                        /\ proc'[p].by \in Managers => mgr'[proc'[p].by].pc # "down"
      BY DEF Waits, Leaves
    <3>1. /\ proc[p].reaper \in Managers =>
                proc[p].by = proc[p].reaper /\ platform = "sudo"
          /\ proc[p].kind = "sudo" =>
                /\ platform = "sudo"
                /\ proc[p].by \in Managers => proc[p].reaper = proc[p].by
          /\ proc[p].st = "zombie" => proc[p].reaper \in Managers \cup {"helper"}
          /\ proc[p].by \in Managers => mgr[proc[p].by].pc # "down"
      BY DEF OwnershipInv, TableInv, Waits
    <3>2. CASE proc[p].reaper = m /\ proc[p].st = "zombie"
      BY <1>5, <3>2, ManagersAssumption DEF Unused
    <3>3. CASE ~(proc[p].reaper = m /\ proc[p].st = "zombie")
      <4>1. /\ proc'[p].by \in Managers => proc'[p].by = proc[p].by /\ proc[p].by # m
            /\ proc'[p].reaper \in Managers =>
                  proc'[p].reaper = proc[p].reaper /\ proc[p].reaper # m
            /\ proc[p].reaper = m => proc[p].st # "zombie"
            /\ proc'[p].kind = proc[p].kind /\ proc'[p].st = proc[p].st
            /\ proc[p].reaper # m => proc'[p].reaper = proc[p].reaper
            /\ proc[p].by # m => proc'[p].by = proc[p].by
        BY <1>5, <3>3, ManagersAssumption
      <4> QED
        BY <1>2, <3>1, <4>1 DEF Becomes
    <3> QED
      BY <3>2, <3>3
  <2> QED
    BY <2>1, <2>2, <2>3, <2>4 DEF TableInv
<1>8. ASSUME NEW n \in Managers \ {m}
      PROVE  Steady(n) /\ Continues(n) /\ (Claimed(n) => Claimed(n)')
  <2>1. Steady(n) /\ Continues(n)
    BY <1>5, ManagersAssumption DEF Steady, Continues, Alive, Unused
  <2> QED
    BY <1>8, <1>12, <2>1 DEF Claimed
<1>9. Account(m)'
  <2>1. \A p \in Pids : proc'[p].by # m
    BY <1>5, ManagersAssumption DEF Unused
  <2> QED
    BY <2>1 DEF Account
<1>10. HelperInv'
  <2>1. Remains
    BY <1>5, ManagersAssumption DEF Remains, Alive, Unused
  <2>2. HelperChild' = HelperChild /\ platform' = platform
    BY <1>12 DEF HelperChild, Leaves
  <2>3. platform = "helper" =>
          \A p \in Pids : Alive(p)' /\ proc'[p].by \in Managers =>
             proc'[p].kind = "core" /\ p = HelperChild
    BY <2>1 DEF OwnershipInv, HelperInv, Remains
  <2>4. /\ helper.job = "spawned" => /\ helper.fresh \in Pids
                                     /\ proc'[helper.fresh].kind = "core"
                                     /\ proc'[helper.fresh].reaper = "helper"
        /\ helper.job = "done" /\ helper.pid # 0 => /\ helper.pid \in Pids
                                                    /\ proc'[helper.pid].reaper = "helper"
    BY <2>1 DEF OwnershipInv, HelperInv, Remains
  <2>5. helper'.client = "none" <=> helper.client = "none"
    BY <1>12, ManagersAssumption
  <2> QED
    BY <1>12, <2>2, <2>3, <2>4, <2>5 DEF OwnershipInv, HelperInv
<1>13. ClientInv'
  BY <1>2, <1>12, ManagersAssumption DEF OwnershipInv, ClientInv, Becomes
<1>11. SparesOthers' /\ HelperSparesPrograms' /\ wrong' = wrong /\ platform' = platform
  BY DEF Leaves, OwnershipInv, SparesOthers, HelperSparesPrograms
<1> QED
  BY <1>2, <1>4, <1>6, <1>7, <1>8, <1>9, <1>10, <1>11, <1>13, ActorStep

-----------------------------------------------------------------------------
(* The theorems.                                                              *)

LEMMA OwnershipInit ==
    ASSUME Init
    PROVE  OwnershipInv
<1>1. Blank \in Owners /\ NoProcess(0) \in Processes /\ Unused(NoProcess(0))
  BY LimitsAssumption, NoProcessType, UnusedIs DEF Blank, Owners, Pcs, Ops
<1>2. PICK nobody \in 0..MaxPid : nobody = 0
  BY LimitsAssumption
<1>3. /\ helper \in Brokers /\ helper.pid = 0 /\ helper.up = (platform = "helper")
      /\ helper.job = "idle" /\ helper.client = "none"
  <2>1. helper = [up |-> platform = "helper", how |-> "none", pid |-> nobody, file |-> nobody,
                  job |-> "idle", client |-> "none", fresh |-> nobody]
    BY <1>2 DEF Init, Broker
  <2> QED
    BY <1>2, <2>1 DEF Brokers
<1>4. TypeOK
  BY <1>1, <1>3, LimitsAssumption DEF Init, TypeOK
<1>5. \A p \in Pids : Unused(proc[p]) /\ ~Alive(p)
  BY <1>1 DEF Init, Alive, Unused
<1>6. TableInv
  BY <1>5, ManagersAssumption DEF TableInv, Vacant, Tree, OneChild, Waits, Unused
<1>7. HelperInv /\ ClientInv
  BY <1>3, <1>5, ManagersAssumption DEF HelperInv, ClientInv
<1>8. ASSUME NEW m \in Managers
      PROVE  OwnInv(m) /\ Account(m)
  <2>1. mgr[m] = Blank
    BY <1>8 DEF Init
  <2>2. OwnInv(m)
    BY <2>1 DEF OwnInv, Down, OwnsDirect, OwnsElevated, OwnsHelper, OwnsNone,
                Starts, Reaps, Tries, StartingPcs, Blank
  <2> QED
    BY <1>5, <2>2 DEF Account
<1> QED
  BY <1>4, <1>6, <1>7, <1>8 DEF OwnershipInv, SparesOthers, HelperSparesPrograms, Init

LEMMA OwnershipNext ==
    ASSUME OwnershipInv, Next
    PROVE  OwnershipInv'
<1>1. ASSUME NEW m \in Managers, Control(m)
      PROVE  OwnershipInv'
  BY <1>1, UserStep, BeginStep, LeavesStep DEF Control, Exit, Crash
<1>2. ASSUME NEW m \in Managers, Stopping(m)
      PROVE  OwnershipInv'
  BY <1>2, StopNothingStep, StopDirectStep, StopElevatedStep, ReapWrapperStep
     DEF Stopping
<1>3. ASSUME NEW m \in Managers, Starting(m)
      PROVE  OwnershipInv'
  BY <1>3, RefusedStep, SpawnStep, StartedStep, ResolveStep, CleanupStep,
     CleanDescendantStep, CleanRelistStep, CleanChildStep, ReadyStep DEF Starting
<1>4. ASSUME NEW m \in Managers, Brokered(m)
      PROVE  OwnershipInv'
  BY <1>4, HelperServesStep, NoAnswerStep DEF Brokered
<1>5. CASE HelperAnswers
  BY <1>5, HelperAnswersStep, AnswersNobodyStep
<1> QED
  BY <1>1, <1>2, <1>3, <1>4, <1>5, HelperSpawnsStep, HelperRecordsStep, HelperCrashStep,
     HelperStartStep, SudoExecStep, BindStep, ReuseStep DEF Next

(* Every reachable state satisfies the inductive invariant: whose child each  *)
(* process is, what each manager may signal, what the broker's pid file       *)
(* stands for at every point of a request, and whom the broker will answer.   *)
THEOREM OwnershipInvariant == Spec => []OwnershipInv
<1>1. ASSUME OwnershipInv, UNCHANGED vars
      PROVE  OwnershipInv'
  BY <1>1 DEF vars, OwnershipInv, TypeOK, TableInv, Vacant, Tree, OneChild, Waits,
     HelperInv, HelperChild, ClientInv, Claimed, OwnInv, Down, OwnsDirect, OwnsElevated, OwnsHelper, OwnsNone,
     Starts, Reaps, Tries, Core, Wrapper, Child, Account, Known, Alive,
     SparesOthers, HelperSparesPrograms
<1>2. OwnershipInv /\ [Next]_vars => OwnershipInv'
  BY <1>1, OwnershipNext
<1> QED
  BY OwnershipInit, <1>2, PTL DEF Spec

(* A manager signals only processes it started, the broker only sing-box      *)
(* processes of the config, and a manager between two operations owns every   *)
(* live sing-box it was told of, unless it reported a failed clean-up.  It is *)
(* not told ("untold") of the one a broker had spawned when it was killed     *)
(* before the answer, nor of one that sudo forked behind a second listing.    *)
THEOREM OnlyOwnProcesses == Spec => []OwnProcessesOnly
<1>1. ASSUME OwnershipInv
      PROVE  OwnProcessesOnly
  <2>1. ASSUME NEW m \in Managers, NEW p \in Pids, Step(m, "idle"), Matches(p),
               proc[p].by = m, ~mgr[m].err, "cleanup" \notin wrong
        PROVE  mgr[m].own # "stopped" /\ mgr[m].pid = p
    <3>1. Known(m, p) /\ proc[p].kind = "core" /\ p # 0 /\ mgr[m].own \in
             {"stopped", "direct", "elevated", "helper"}
      BY <1>1, <2>1, Facts DEF Account, Matches, Pids, Owners, Step
    <3>2. mgr[m].pid = p
      BY <1>1, <2>1, <3>1, Facts DEF Known, Step, OwnInv, OwnsDirect, OwnsElevated,
         OwnsHelper, OwnsNone, StartingPcs
    <3> QED
      BY <1>1, <2>1, <3>1, <3>2, Facts DEF Step, OwnInv, OwnsNone, StartingPcs
  <2> QED
    BY <1>1, <2>1 DEF OwnershipInv, OwnProcessesOnly, NoStrayCore
<1> QED
  BY OwnershipInvariant, <1>1, PTL
=============================================================================
