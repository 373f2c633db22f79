-------------------------- MODULE UsabilityRunProofs --------------------------
(***************************************************************************)
(* Proofs about usability probe runs: how their rows are started, settled  *)
(* and published, for every number of nodes, criteria, runs, commits and   *)
(* kills, and every interval; and about what is around them: the sustained *)
(* probes, for every number of nodes, targets, jobs and commits of others; *)
(* the built-in probes, for any number of candidates; and the probes on    *)
(* offer, for any set of files, ids and limit.                             *)
(***************************************************************************)
EXTENDS UsabilityRun, SustainedProbe, BuiltinProbes, ProbeManifests,
        SequenceTheorems, FiniteSetTheorems, WellFoundedInduction, TLAPS

Row == [crit : Criteria, gen : Nat, status : {"running", "complete", "incomplete"},
        results : [Nodes -> Nat], at : Nat, background : BOOLEAN]
App == [store : Nat, receipt : Nat, last : [Criteria -> Nat]]
Job == [run : Nat, gen : Nat, source : {"none", "live", "isolated"}, snap : [Nodes -> Nat],
        results : [Nodes -> Nat], queue : Seq(Nodes), infra : BOOLEAN,
        received : [Nodes -> Nat], stale : BOOLEAN,
        thread : {"none", "starting", "running", "done"}]

TypeInv ==
    /\ runs \in Seq(Row) /\ gen \in Nat
    /\ ids \in [Nodes -> Nat] /\ live \in [Nodes -> Nat] /\ fence \in BOOLEAN
    /\ lock \in Apps \cup {"none"}
    /\ app \in [Apps -> App] /\ job \in [Apps -> Job]
    /\ consent \subseteq Criteria /\ now \in Nat \ {0} /\ mishaps \in Nat

\* A process that probes owns the lock and a running row; one that does not has nothing.
OwnerInv ==
    \A p \in Apps :
        IF Probing(p)
        THEN /\ job[p].run \in 1..Len(runs) /\ runs[job[p].run].status = "running"
             /\ lock = p
        ELSE job[p] = NoJob

\* No row of the future; a running row shows nothing yet.
RowInv ==
    \A i \in 1..Len(runs) :
        /\ runs[i].at \in 1..now
        /\ runs[i].status = "running" => runs[i].results = None

OneRunning ==
    \A i, j \in 1..Len(runs) :
        runs[i].status = "running" /\ runs[j].status = "running" /\ runs[i].crit = runs[j].crit
            => i = j

\* Without the fence sing-box runs the committed nodes.
LiveInv == ~fence => live = ids

\* As long as the generation of a job stands, what it measured is of the nodes as they are.
MeasureInv ==
    \A p \in Apps : Probing(p) =>
        /\ job[p].gen <= gen
        /\ job[p].gen = gen =>
              /\ ~fence
              /\ \A n \in Nodes : job[p].results[n] \in {0, ids[n]}
              /\ job[p].source = "isolated" /\ job[p].thread # "starting" => job[p].snap = ids
        /\ job[p].thread = "done" /\ ~job[p].infra => \A n \in Nodes : job[p].results[n] # 0

\* What the worker remembers of a criterion is not older than the rows of its scheduled runs.
ScheduleInv ==
    \A c \in Criteria : app["worker"].last[c] # 0 =>
        \A i \in 1..Len(runs) :
            runs[i].crit = c /\ runs[i].background => runs[i].at <= app["worker"].last[c]

RunInv == /\ TypeInv /\ OwnerInv /\ RowInv /\ OneRunning /\ LiveInv /\ MeasureInv
          /\ ResultsAreOfThisNode /\ ScheduleInv /\ IntervalKept

-----------------------------------------------------------------------------
(* How rows change.                                                        *)

\* Rows of t are those of s, some of them settled.
Settles(s, t) ==
    /\ t \in Seq(Row) /\ Len(t) = Len(s)
    /\ \A i \in 1..Len(s) :
          /\ t[i].crit = s[i].crit /\ t[i].gen = s[i].gen /\ t[i].at = s[i].at
          /\ t[i].background = s[i].background
          /\ t[i].status = "running" => s[i].status = "running"

\* Rewriting every row of a table gives a table of the same length.
LEMMA RowTable ==
    ASSUME NEW s \in Seq(Row), NEW t \in [1..Len(s) -> Row]
    PROVE  t \in Seq(Row) /\ Len(t) = Len(s)
<1>1. Len(s) \in Nat
  BY LenProperties
<1>2. t \in Seq(Row)
  BY <1>1, SeqDef
<1>3. DOMAIN t = 1..Len(s) /\ DOMAIN t = 1..Len(t) /\ Len(t) \in Nat
  BY <1>2, LenProperties
<1> QED BY <1>1, <1>2, <1>3

\* A row of a table is a row.
LEMMA RowOf ==
    ASSUME NEW s \in Seq(Row), NEW i \in 1..Len(s)
    PROVE  s[i] \in Row
  BY ElementOfSeq

\* finish_usability_probe_run_with_ttl settles the row of the run and touches no other.
LEMMA FinishedRows ==
    ASSUME TypeInv, NEW p \in Apps, job[p].run \in 1..Len(runs),
           NEW complete \in BOOLEAN, NEW facts \in [Nodes -> Nat]
    PROVE  /\ Finished(p, complete, facts) \in Seq(Row)
           /\ Len(Finished(p, complete, facts)) = Len(runs)
           /\ \A i \in 1..Len(runs) :
                 i # job[p].run => Finished(p, complete, facts)[i] = runs[i]
           /\ LET r == runs[job[p].run]
                  t == Finished(p, complete, facts)[job[p].run]
              IN /\ t.crit = r.crit /\ t.gen = r.gen /\ t.at = r.at /\ t.background = r.background
                 /\ complete /\ MayPublish(p) => t.status = "complete" /\ t.results = facts
                 /\ ~(complete /\ MayPublish(p)) => t.status = "incomplete" /\ t.results = None
<1> DEFINE k == job[p].run
           published == complete /\ MayPublish(p)
           r == [runs[k] EXCEPT !.status = IF published THEN "complete" ELSE "incomplete",
                                !.results = IF published THEN facts ELSE None]
           t == Finished(p, complete, facts)
<1>1. runs \in [1..Len(runs) -> Row] /\ Len(runs) \in Nat
  BY LenProperties DEF TypeInv
<1>2. runs[k] \in Row
  BY <1>1
<1>3. None \in [Nodes -> Nat]
  BY DEF None
<1>4. r \in Row
  BY <1>2, <1>3 DEF Row
<1>5. t = [runs EXCEPT ![k] = r]
  BY <1>1, <1>2 DEF Finished, Row
<1>6. t \in [1..Len(runs) -> Row] /\ t[k] = r /\ \A i \in 1..Len(runs) : i # k => t[i] = runs[i]
  BY <1>1, <1>4, <1>5
<1>7. t \in Seq(Row) /\ Len(t) = Len(runs)
  BY <1>6, RowTable DEF TypeInv
<1>8. /\ r.crit = runs[k].crit /\ r.gen = runs[k].gen /\ r.at = runs[k].at
      /\ r.background = runs[k].background
      /\ published => r.status = "complete" /\ r.results = facts
      /\ ~published => r.status = "incomplete" /\ r.results = None
  BY <1>2 DEF Row
<1> QED BY <1>6, <1>7, <1>8

\* begin_usability_probe_run settles what a dead process left running.
LEMMA RecoveredRows ==
    ASSUME TypeInv, NEW c \in Criteria
    PROVE  LET t == Recovered(c)
           IN /\ t \in Seq(Row) /\ Len(t) = Len(runs)
              /\ \A i \in 1..Len(runs) :
                    /\ t[i].crit = runs[i].crit /\ t[i].gen = runs[i].gen /\ t[i].at = runs[i].at
                    /\ t[i].background = runs[i].background /\ t[i].results = runs[i].results
                    /\ t[i].status = IF runs[i].crit = c /\ runs[i].status = "running"
                                     THEN "incomplete" ELSE runs[i].status
<1> DEFINE t == Recovered(c)
<1>1. runs \in [1..Len(runs) -> Row]
  BY LenProperties DEF TypeInv
<1>2. \A i \in 1..Len(runs) : runs[i] \in Row /\ [runs[i] EXCEPT !.status = "incomplete"] \in Row
  BY <1>1 DEF Row
<1>3. t \in [1..Len(runs) -> Row]
  BY <1>2 DEF Recovered
<1>4. t \in Seq(Row) /\ Len(t) = Len(runs)
  BY <1>3, RowTable DEF TypeInv
<1>5. ASSUME NEW i \in 1..Len(runs)
      PROVE  /\ t[i].crit = runs[i].crit /\ t[i].gen = runs[i].gen /\ t[i].at = runs[i].at
             /\ t[i].background = runs[i].background /\ t[i].results = runs[i].results
             /\ t[i].status = IF runs[i].crit = c /\ runs[i].status = "running"
                              THEN "incomplete" ELSE runs[i].status
  <2>1. runs[i] \in Row
    BY <1>2
  <2> QED BY <2>1 DEF Recovered, Row
<1> QED BY <1>4, <1>5

\* A commit takes the results of changed nodes out of every row.
LEMMA ReconciledRows ==
    ASSUME TypeInv, NEW changed \in SUBSET Nodes, Reconcile(changed)
    PROVE  /\ runs' \in Seq(Row) /\ Len(runs') = Len(runs)
           /\ \A i \in 1..Len(runs) :
                 /\ runs'[i].crit = runs[i].crit /\ runs'[i].gen = runs[i].gen /\ runs'[i].at = runs[i].at
                 /\ runs'[i].background = runs[i].background /\ runs'[i].status = runs[i].status
                 /\ runs'[i].results = [n \in Nodes |-> IF n \in changed THEN 0
                                                        ELSE runs[i].results[n]]
<1> DEFINE r(i) == [runs[i] EXCEPT !.results = [n \in Nodes |-> IF n \in changed THEN 0
                                                                ELSE runs[i].results[n]]]
<1>1. runs \in [1..Len(runs) -> Row]
  BY LenProperties DEF TypeInv
<1>2. \A i \in 1..Len(runs) : r(i) \in Row
  <2> TAKE i \in 1..Len(runs)
  <2>1. runs[i] \in Row
    BY <1>1
  <2>2. [n \in Nodes |-> IF n \in changed THEN 0 ELSE runs[i].results[n]] \in [Nodes -> Nat]
    BY <2>1 DEF Row
  <2> QED BY <2>1, <2>2 DEF Row
<1>3. runs' = [i \in 1..Len(runs) |-> r(i)]
  BY DEF Reconcile
<1> HIDE DEF r
<1>4. runs' \in [1..Len(runs) -> Row]
  BY <1>2, <1>3
<1>5. runs' \in Seq(Row) /\ Len(runs') = Len(runs)
  BY <1>4, RowTable DEF TypeInv
<1>6. ASSUME NEW i \in 1..Len(runs)
      PROVE  /\ runs'[i].crit = runs[i].crit /\ runs'[i].gen = runs[i].gen /\ runs'[i].at = runs[i].at
             /\ runs'[i].background = runs[i].background /\ runs'[i].status = runs[i].status
             /\ runs'[i].results = [n \in Nodes |-> IF n \in changed THEN 0 ELSE runs[i].results[n]]
  <2>1. runs'[i] = r(i) /\ runs[i] \in Row
    BY <1>1, <1>3
  <2> QED BY <2>1 DEF r, Row
<1> QED BY <1>5, <1>6

\* What is kept about rows that are only settled.
LEMMA SettledRows ==
    ASSUME RunInv, Settles(runs, runs'), app["worker"].last' = app["worker"].last
    PROVE  OneRunning' /\ ScheduleInv' /\ IntervalKept'
<1>1. OneRunning'
  BY DEF RunInv, OneRunning, Settles
<1>2. ScheduleInv'
  BY DEF RunInv, ScheduleInv, Settles
<1>3. IntervalKept'
  BY DEF RunInv, IntervalKept, Settles
<1> QED BY <1>1, <1>2, <1>3

\* What settling the row of its run leaves of the invariant and of the results on
\* display, whether the database took the result or not.
LEMMA RunEnds ==
    ASSUME RunInv, NEW p \in Apps, Probing(p),
           NEW complete \in BOOLEAN, NEW facts \in [Nodes -> Nat],
           complete => facts = job[p].results /\ \A n \in Nodes : facts[n] # 0,
           runs' = Finished(p, complete, facts) \/ runs' = runs,
           lock' = "none", job' = [job EXCEPT ![p] = NoJob],
           UNCHANGED <<gen, ids, live, fence, app, now>>,
           consent' \in SUBSET Criteria, mishaps' \in Nat
    PROVE  RunInv' /\ KeepsLastResult
<1> DEFINE k == job[p].run
           published == complete /\ MayPublish(p)
<1> USE DEF RunInv
<1>1. /\ k \in 1..Len(runs) /\ runs[k].status = "running" /\ lock = p
      /\ runs[k].results = None
  BY DEF OwnerInv, RowInv
<1>2. \A i \in 1..Len(runs) : runs[i] \in Row
  BY RowOf DEF TypeInv
<1>3. /\ runs' \in Seq(Row) /\ Len(runs') = Len(runs)
      /\ \A i \in 1..Len(runs) : i # k => runs'[i] = runs[i]
  BY <1>1, FinishedRows DEF TypeInv
<1>4. /\ runs'[k].crit = runs[k].crit /\ runs'[k].gen = runs[k].gen /\ runs'[k].at = runs[k].at
      /\ runs'[k].background = runs[k].background
      /\ \/ runs'[k].status \in {"running", "incomplete"} /\ runs'[k].results = None
         \/ runs'[k].status = "complete" /\ runs'[k].results = facts /\ published
  BY <1>1, FinishedRows
<1>5. Settles(runs, runs')
  BY <1>1, <1>3, <1>4 DEF Settles
<1>6. OneRunning' /\ ScheduleInv' /\ IntervalKept'
  BY <1>5, SettledRows
<1>7. \A q \in Apps : job'[q] = NoJob
  BY <1>1 DEF TypeInv, OwnerInv
<1>8. NoJob \in Job /\ NoJob.run = 0
  <2>1. None \in [Nodes -> Nat]
    BY DEF None
  <2>2. <<>> \in Seq(Nodes)
    BY EmptySeq
  <2> QED BY <2>1, <2>2 DEF NoJob, Job
<1>9. TypeInv'
  <2>1. job' \in [Apps -> Job]
    BY <1>8 DEF TypeInv
  <2> QED BY <1>3, <2>1 DEF TypeInv
<1>10. OwnerInv' /\ MeasureInv'
  BY <1>7, <1>8 DEF OwnerInv, MeasureInv, Probing
<1>11. RowInv'
  BY <1>1, <1>3, <1>4 DEF RowInv
<1>12. published => \A n \in Nodes : facts[n] \in {0, ids[n]}
  BY DEF MayPublish, GenerationCurrent, MeasureInv
<1>13. ResultsAreOfThisNode'
  <2> SUFFICES ASSUME NEW i \in 1..Len(runs), NEW n \in Nodes
               PROVE  runs'[i].results[n] \in {0, ids[n]}
    BY <1>3 DEF ResultsAreOfThisNode
  <2>1. CASE i # k
    BY <1>3, <2>1 DEF ResultsAreOfThisNode
  <2>2. CASE i = k
    BY <1>4, <1>12, <2>2 DEF None
  <2> QED BY <2>1, <2>2
<1>14. LiveInv'
  BY DEF LiveInv
<1>15. KeepsLastResult
  BY <1>1, <1>3, <1>4 DEF KeepsLastResult
<1> QED BY <1>6, <1>9, <1>10, <1>11, <1>13, <1>14, <1>15

\* Steps of a probe that touch nothing but its job.
LEMMA JobSteps ==
    ASSUME RunInv, NEW p \in Apps, Probing(p), NEW j \in Job,
           job' = [job EXCEPT ![p] = j],
           UNCHANGED <<runs, gen, ids, live, fence, lock, app, consent, now, mishaps>>,
           j.run = job[p].run, j.gen = job[p].gen,
           job[p].gen = gen =>
              /\ \A n \in Nodes : j.results[n] \in {0, ids[n]}
              /\ j.source = "isolated" /\ j.thread # "starting" => j.snap = ids,
           j.thread = "done" /\ ~j.infra => \A n \in Nodes : j.results[n] # 0
    PROVE  RunInv' /\ KeepsLastResult
<1> USE DEF RunInv
<1>1. job'[p] = j /\ \A q \in Apps : q # p => job'[q] = job[q]
  BY DEF TypeInv
<1>2. TypeInv'
  BY DEF TypeInv
<1>3. OwnerInv'
  BY <1>1 DEF OwnerInv, Probing
<1>4. MeasureInv'
  BY <1>1 DEF MeasureInv, Probing
<1>5. RowInv' /\ OneRunning' /\ LiveInv' /\ ResultsAreOfThisNode' /\ ScheduleInv' /\ IntervalKept'
  BY DEF RowInv, OneRunning, LiveInv, ResultsAreOfThisNode, ScheduleInv, IntervalKept
<1>6. KeepsLastResult
  BY DEF KeepsLastResult
<1> QED BY <1>2, <1>3, <1>4, <1>5, <1>6

\* A thread exists only for a probe.
LEMMA ThreadOfRun ==
    ASSUME RunInv, NEW p \in Apps
    PROVE  /\ job[p] \in Job
           /\ job[p].thread # "none" \/ job[p].queue # <<>> => Probing(p)
  BY DEF RunInv, TypeInv, OwnerInv, NoJob

LEMMA ThreadStartsStep ==
    ASSUME RunInv, NEW p \in Apps, ThreadStarts(p)
    PROVE  RunInv' /\ KeepsLastResult
<1> DEFINE snap == IF job[p].source = "isolated" THEN ids ELSE None
           j == [job[p] EXCEPT !.thread = "running", !.snap = snap]
<1>1. job[p] \in Job /\ Probing(p) /\ job[p].thread = "starting"
  BY ThreadOfRun DEF ThreadStarts
<1>2. snap \in [Nodes -> Nat]
  BY DEF RunInv, TypeInv, None
<1>3. j \in Job
  BY <1>1, <1>2 DEF Job
<1>4. job' = [job EXCEPT ![p] = j]
  BY DEF ThreadStarts, RunInv, TypeInv
<1>5. /\ j.run = job[p].run /\ j.gen = job[p].gen /\ j.results = job[p].results
      /\ j.thread = "running" /\ j.source = job[p].source /\ j.snap = snap
  BY <1>1 DEF Job
<1>6. job[p].gen = gen => \A n \in Nodes : j.results[n] \in {0, ids[n]}
  BY <1>1, <1>5 DEF RunInv, MeasureInv
<1>7. UNCHANGED <<runs, gen, ids, live, fence, lock, app, consent, now, mishaps>>
  BY DEF ThreadStarts, Database
<1> QED
  <2> HIDE DEF j
  <2> QED BY <1>1, <1>3, <1>4, <1>5, <1>6, <1>7, JobSteps

LEMMA AssessStep ==
    ASSUME RunInv, NEW p \in Apps, NEW n \in Nodes, Assess(p, n)
    PROVE  RunInv' /\ KeepsLastResult
<1>1. job[p] \in Job /\ Probing(p) /\ job[p].thread = "running"
  BY ThreadOfRun DEF Assess
<1>2. UNCHANGED <<runs, gen, ids, live, fence, lock, app, consent, now, mishaps>>
  BY DEF Assess, Database
<1>3. CASE job' = [job EXCEPT ![p].results[n] = Version(p, n), ![p].queue = Append(@, n)]
  <2> DEFINE v == Version(p, n)
             j == [job[p] EXCEPT !.results = [job[p].results EXCEPT ![n] = v],
                                 !.queue = Append(job[p].queue, n)]
  <2>1. v \in Nat
    BY <1>1 DEF Version, Job, RunInv, TypeInv
  <2>2. Append(job[p].queue, n) \in Seq(Nodes)
    BY <1>1, AppendProperties DEF Job
  <2>3. [job[p].results EXCEPT ![n] = v] \in [Nodes -> Nat]
    BY <1>1, <2>1 DEF Job
  <2>4. j \in Job
    BY <1>1, <2>2, <2>3 DEF Job
  <2>5. job' = [job EXCEPT ![p] = j]
    BY <1>1, <1>3 DEF RunInv, TypeInv, Job
  <2>6. /\ j.run = job[p].run /\ j.gen = job[p].gen /\ j.thread = "running"
        /\ j.source = job[p].source /\ j.snap = job[p].snap
        /\ j.results = [job[p].results EXCEPT ![n] = v]
    BY <1>1 DEF Job
  <2>7. ASSUME job[p].gen = gen
        PROVE  /\ v = ids[n]
               /\ \A m \in Nodes : job[p].results[m] \in {0, ids[m]}
               /\ j.source = "isolated" => j.snap = ids
    BY <1>1, <2>6, <2>7 DEF RunInv, MeasureInv, LiveInv, Version
  <2>8. ASSUME job[p].gen = gen, NEW m \in Nodes
        PROVE  j.results[m] \in {0, ids[m]}
    <3>1. job[p].results \in [Nodes -> Nat]
      BY <1>1 DEF Job
    <3> QED BY <2>6, <2>7, <2>8, <3>1
  <2> HIDE DEF j, v
  <2> QED BY <1>1, <1>2, <2>4, <2>5, <2>6, <2>7, <2>8, JobSteps
<1>4. CASE job' = [job EXCEPT ![p].infra = TRUE]
  <2> DEFINE j == [job[p] EXCEPT !.infra = TRUE]
  <2>1. j \in Job
    BY <1>1 DEF Job
  <2>2. job' = [job EXCEPT ![p] = j]
    BY <1>4 DEF RunInv, TypeInv
  <2>3. /\ j.run = job[p].run /\ j.gen = job[p].gen /\ j.thread = "running"
        /\ j.source = job[p].source /\ j.snap = job[p].snap /\ j.results = job[p].results
    BY <1>1 DEF Job
  <2>4. job[p].gen = gen => /\ \A m \in Nodes : job[p].results[m] \in {0, ids[m]}
                            /\ job[p].source = "isolated" => job[p].snap = ids
    BY <1>1 DEF RunInv, MeasureInv
  <2> HIDE DEF j
  <2> QED BY <1>1, <1>2, <2>1, <2>2, <2>3, <2>4, JobSteps
<1> QED BY <1>3, <1>4 DEF Assess

LEMMA ThreadEndsStep ==
    ASSUME RunInv, NEW p \in Apps, ThreadEnds(p)
    PROVE  RunInv' /\ KeepsLastResult
<1>1. job[p] \in Job /\ Probing(p) /\ job[p].thread = "running"
  BY ThreadOfRun DEF ThreadEnds
<1>2. UNCHANGED <<runs, gen, ids, live, fence, lock, app, consent, now, mishaps>>
  BY DEF ThreadEnds, Database
<1>3. PICK b \in BOOLEAN :
         /\ job' = [job EXCEPT ![p] = [job[p] EXCEPT !.thread = "done", !.infra = b]]
         /\ ~b => \A n \in Nodes : job[p].results[n] # 0
  <2>1. CASE /\ \A n \in Nodes : job[p].results[n] # 0
             /\ job' = [job EXCEPT ![p].thread = "done"]
    <3>1. [job[p] EXCEPT !.thread = "done"] = [job[p] EXCEPT !.thread = "done", !.infra = job[p].infra]
      BY <1>1 DEF Job
    <3>2. job' = [job EXCEPT ![p] = [job[p] EXCEPT !.thread = "done", !.infra = job[p].infra]]
      BY <2>1, <3>1 DEF RunInv, TypeInv
    <3>3. job[p].infra \in BOOLEAN
      BY <1>1 DEF Job
    <3> QED BY <2>1, <3>2, <3>3
  <2>2. CASE job' = [job EXCEPT ![p].thread = "done", ![p].infra = TRUE]
    <3>1. job' = [job EXCEPT ![p] = [job[p] EXCEPT !.thread = "done", !.infra = TRUE]]
      BY <2>2 DEF RunInv, TypeInv
    <3> QED BY <3>1
  <2>3. \/ /\ \A n \in Nodes : job[p].results[n] # 0
           /\ job' = [job EXCEPT ![p].thread = "done"]
        \/ job' = [job EXCEPT ![p].thread = "done", ![p].infra = TRUE]
    BY DEF ThreadEnds
  <2> QED BY <2>1, <2>2, <2>3
<1> DEFINE j == [job[p] EXCEPT !.thread = "done", !.infra = b]
<1>4. j \in Job
  BY <1>1 DEF Job
<1>5. /\ j.run = job[p].run /\ j.gen = job[p].gen /\ j.infra = b
      /\ j.source = job[p].source /\ j.snap = job[p].snap /\ j.results = job[p].results
  BY <1>1 DEF Job
<1>6. job[p].gen = gen => /\ \A m \in Nodes : job[p].results[m] \in {0, ids[m]}
                          /\ job[p].source = "isolated" => job[p].snap = ids
  BY <1>1 DEF RunInv, MeasureInv
<1>7. job' = [job EXCEPT ![p] = j]
  BY <1>3
<1> QED
  <2>1. ~j.infra => \A n \in Nodes : j.results[n] # 0
    BY <1>3, <1>5
  <2> HIDE DEF j
  <2> QED BY <1>1, <1>2, <1>4, <1>5, <1>6, <1>7, <2>1, JobSteps

LEMMA PollProgressStep ==
    ASSUME RunInv, NEW p \in Apps, PollProgress(p)
    PROVE  RunInv' /\ KeepsLastResult
<1>1. job[p] \in Job /\ Probing(p) /\ job[p].queue # <<>>
  BY ThreadOfRun DEF PollProgress
<1>2. UNCHANGED <<runs, gen, ids, live, fence, lock, app, consent, now, mishaps>>
  BY DEF PollProgress, Database
<1> DEFINE n == Head(job[p].queue)
           stale == job[p].stale \/ (job[p].source = "isolated" /\ ~(SessionCurrent(p) /\ job[p].gen = gen))
           received == [job[p].received EXCEPT ![n] = job[p].results[n]]
           j == [job[p] EXCEPT !.queue = Tail(job[p].queue), !.received = received, !.stale = stale]
<1>3. n \in Nodes /\ Tail(job[p].queue) \in Seq(Nodes)
  BY <1>1, HeadTailProperties DEF Job
<1>4. received \in [Nodes -> Nat] /\ stale \in BOOLEAN
  BY <1>1, <1>3 DEF Job
<1>5. j \in Job
  BY <1>1, <1>3, <1>4 DEF Job
<1>6. job' = [job EXCEPT ![p] = j]
  BY <1>1 DEF PollProgress, RunInv, TypeInv, Job
<1>7. /\ j.run = job[p].run /\ j.gen = job[p].gen /\ j.infra = job[p].infra /\ j.thread = job[p].thread
      /\ j.source = job[p].source /\ j.snap = job[p].snap /\ j.results = job[p].results
  BY <1>1 DEF Job
<1>8. /\ job[p].gen = gen => /\ \A m \in Nodes : job[p].results[m] \in {0, ids[m]}
                             /\ job[p].source = "isolated" /\ job[p].thread # "starting" => job[p].snap = ids
      /\ job[p].thread = "done" /\ ~job[p].infra => \A m \in Nodes : job[p].results[m] # 0
  BY <1>1 DEF RunInv, MeasureInv
<1> QED
  <2> HIDE DEF j
  <2> QED BY <1>1, <1>2, <1>5, <1>6, <1>7, <1>8, JobSteps

\* The ways a run ends: it could not be launched, it is cancelled, its permission is
\* withdrawn, its thread is done.
LEMMA LaunchFailsStep ==
    ASSUME RunInv, NEW p \in Apps, LaunchFails(p)
    PROVE  RunInv' /\ KeepsLastResult
<1>1. None \in [Nodes -> Nat] /\ FALSE \in BOOLEAN
  BY DEF None
<1>2. mishaps' \in Nat /\ consent' \in SUBSET Criteria
  BY DEF LaunchFails, RunInv, TypeInv
<1> QED BY <1>1, <1>2, RunEnds DEF LaunchFails, Database

LEMMA FinalizeEnds ==
    ASSUME RunInv, NEW p \in Apps, Probing(p),
           NEW complete \in BOOLEAN, NEW facts \in [Nodes -> Nat],
           complete => facts = job[p].results /\ \A n \in Nodes : facts[n] # 0,
           Finalize(p, complete, facts),
           UNCHANGED <<gen, ids, live, fence, app, now>>, consent' \in SUBSET Criteria
    PROVE  RunInv' /\ KeepsLastResult
<1>1. mishaps' \in Nat
  BY DEF Finalize, Mishap, RunInv, TypeInv
<1> QED BY <1>1, RunEnds DEF Finalize

LEMMA CancelStep ==
    ASSUME RunInv, NEW p \in Apps, Cancel(p)
    PROVE  RunInv' /\ KeepsLastResult
<1>1. job[p].received \in [Nodes -> Nat] /\ FALSE \in BOOLEAN
  BY DEF RunInv, TypeInv, Job
<1>2. consent' \in SUBSET Criteria
  BY DEF Cancel, RunInv, TypeInv
<1> QED BY <1>1, <1>2, FinalizeEnds DEF Cancel, Database

LEMMA PollFinishedStep ==
    ASSUME RunInv, NEW p \in Apps, PollFinished(p)
    PROVE  RunInv' /\ KeepsLastResult
<1>1. job[p] \in Job /\ Probing(p) /\ job[p].thread = "done"
  BY ThreadOfRun DEF PollFinished
<1>2. consent' \in SUBSET Criteria
  BY DEF PollFinished, RunInv, TypeInv
<1>3. job[p].results \in [Nodes -> Nat]
  BY <1>1 DEF Job
<1>4. ~job[p].infra => \A n \in Nodes : job[p].results[n] # 0
  BY <1>1 DEF RunInv, MeasureInv
<1>5. PICK complete \in BOOLEAN :
         /\ complete = (~job[p].infra /\ ~job[p].stale)
         /\ Finalize(p, complete, job[p].results)
  BY DEF PollFinished
<1>6. complete => ~job[p].infra
  BY <1>5
<1>7. UNCHANGED <<gen, ids, live, fence, app, now>>
  BY DEF PollFinished, Database
<1> QED BY <1>1, <1>2, <1>3, <1>4, <1>5, <1>6, <1>7, FinalizeEnds

LEMMA ApplyConsentStep ==
    ASSUME RunInv, NEW c \in Criteria, ApplyConsent(c)
    PROVE  RunInv' /\ KeepsLastResult
<1>1. consent' \in SUBSET Criteria
  BY DEF ApplyConsent, RunInv, TypeInv
<1>2. UNCHANGED <<gen, ids, live, fence, app, now>>
  BY DEF ApplyConsent, Database
<1>3. CASE Probing("worker") /\ Finalize("worker", FALSE, job["worker"].received)
  <2>1. "worker" \in Apps /\ FALSE \in BOOLEAN
    BY DEF Apps
  <2>2. job["worker"].received \in [Nodes -> Nat]
    BY <2>1 DEF RunInv, TypeInv, Job
  <2> QED BY <1>1, <1>2, <1>3, <2>1, <2>2, FinalizeEnds
<1>4. CASE UNCHANGED <<runs, lock, job, mishaps>>
  BY <1>1, <1>2, <1>4 DEF RunInv, TypeInv, OwnerInv, Probing, RowInv, OneRunning, LiveInv, MeasureInv,
     ResultsAreOfThisNode, ScheduleInv, IntervalKept, KeepsLastResult
<1> QED BY <1>3, <1>4 DEF ApplyConsent

-----------------------------------------------------------------------------
(* How runs begin.                                                         *)

\* A free lock means that nobody probes, so what was recovered belonged to the dead, and
\* the new row is the only running one of its criterion.
LEMMA RunBegins ==
    ASSUME RunInv, NEW p \in Apps, NEW c \in Criteria, NEW source \in {"live", "isolated"},
           NEW background \in BOOLEAN, BeginRun(p, c, source, background),
           UNCHANGED <<gen, ids, live, fence, consent, now, mishaps>>, app' \in [Apps -> App]
    PROVE  /\ TypeInv' /\ OwnerInv' /\ RowInv' /\ OneRunning' /\ LiveInv' /\ MeasureInv'
           /\ ResultsAreOfThisNode' /\ KeepsLastResult
           /\ Len(runs) \in Nat /\ Len(runs') = Len(runs) + 1
           /\ \A i \in 1..Len(runs) :
                 /\ runs'[i].crit = runs[i].crit /\ runs'[i].gen = runs[i].gen
                 /\ runs'[i].at = runs[i].at /\ runs'[i].background = runs[i].background
           /\ runs'[Len(runs) + 1].crit = c /\ runs'[Len(runs) + 1].gen = gen
           /\ runs'[Len(runs) + 1].at = now /\ runs'[Len(runs) + 1].background = background
<1> DEFINE n == Len(runs)
           row == [crit |-> c, gen |-> gen, status |-> "running", results |-> None,
                   at |-> now, background |-> background]
           begun == [NoJob EXCEPT !.run = n + 1, !.gen = gen, !.source = source, !.thread = "starting"]
<1> USE DEF RunInv
<1>1. /\ lock = "none" /\ app[p].store = gen /\ ~fence
      /\ runs' = Append(Recovered(c), row)
      /\ lock' = p /\ job' = [job EXCEPT ![p] = begun]
  BY DEF BeginRun, MayBegin, SessionCurrent
<1>2. \A q \in Apps : job[q] = NoJob
  BY <1>1 DEF OwnerInv, Apps
<1>3. n \in Nat /\ \A i \in 1..n : runs[i] \in Row
  BY LenProperties, RowOf DEF TypeInv
<1>4. None \in [Nodes -> Nat] /\ \A m \in Nodes : None[m] = 0
  BY DEF None
<1>5. row \in Row
  BY <1>4 DEF Row, TypeInv
<1>6. /\ Recovered(c) \in Seq(Row) /\ Len(Recovered(c)) = n
      /\ \A i \in 1..n :
            LET t == Recovered(c)[i]
            IN /\ t.crit = runs[i].crit /\ t.gen = runs[i].gen /\ t.at = runs[i].at
               /\ t.background = runs[i].background /\ t.results = runs[i].results
               /\ t.status = IF runs[i].crit = c /\ runs[i].status = "running"
                             THEN "incomplete" ELSE runs[i].status
  BY RecoveredRows
<1>7. /\ runs' \in Seq(Row) /\ Len(runs') = n + 1 /\ runs'[n + 1] = row
      /\ \A i \in 1..n : runs'[i] = Recovered(c)[i]
  BY <1>1, <1>5, <1>6, AppendProperties
<1>8. \A i \in 1..n :
         /\ runs'[i].crit = runs[i].crit /\ runs'[i].gen = runs[i].gen
         /\ runs'[i].at = runs[i].at /\ runs'[i].background = runs[i].background
         /\ runs'[i].results = runs[i].results
         /\ \/ runs'[i].status = runs[i].status /\ (runs[i].crit # c \/ runs[i].status # "running")
            \/ runs[i].status = "running" /\ runs'[i].status = "incomplete"
  BY <1>6, <1>7
<1>9. /\ runs'[n + 1].crit = c /\ runs'[n + 1].gen = gen /\ runs'[n + 1].at = now
      /\ runs'[n + 1].background = background /\ runs'[n + 1].results = None
      /\ runs'[n + 1].status = "running"
  BY <1>7
<1>10. \A i \in 1..Len(runs') : i \in 1..n \/ i = n + 1
  BY <1>3, <1>7
<1>11. NoJob \in Job /\ NoJob.run = 0
  BY <1>4, EmptySeq DEF NoJob, Job
<1>12. /\ begun \in Job /\ begun.run = n + 1 /\ begun.gen = gen /\ begun.thread = "starting"
       /\ begun.results = None
  <2>1. NoJob.results = None
    BY DEF NoJob
  <2>2. begun \in Job /\ begun.run = n + 1 /\ begun.gen = gen /\ begun.thread = "starting"
        /\ begun.results = NoJob.results
    <3>1. NoJob \in Job /\ n + 1 \in Nat /\ gen \in Nat
      BY <1>3, <1>11 DEF TypeInv
    <3>2. PICK j \in Job : j = NoJob
      BY <3>1
    <3>3. begun = [j EXCEPT !.run = n + 1, !.gen = gen, !.source = source, !.thread = "starting"]
      BY <3>2, Zenon
    <3> HIDE DEF begun
    <3> QED BY <3>1, <3>2, <3>3 DEF Job
  <2> QED BY <2>1, <2>2
<1> HIDE DEF row, begun
<1>13. job'[p] = begun /\ \A q \in Apps : q # p => job'[q] = NoJob
  BY <1>1, <1>2 DEF TypeInv
<1>14. TypeInv'
  <2>1. job' \in [Apps -> Job]
    BY <1>1, <1>12 DEF TypeInv
  <2> QED BY <1>1, <1>7, <2>1 DEF TypeInv
<1>15. OwnerInv'
  BY <1>1, <1>3, <1>7, <1>9, <1>11, <1>12, <1>13 DEF OwnerInv, Probing
<1>16. RowInv'
  <2>1. now \in Nat \ {0} /\ now' = now
    BY DEF TypeInv
  <2>2. ASSUME NEW i \in 1..n
        PROVE  /\ runs'[i].at \in 1..now'
               /\ runs'[i].status = "running" => runs'[i].results = None
    BY <1>8, <2>1, <2>2 DEF RowInv
  <2>3. /\ runs'[n + 1].at \in 1..now' /\ runs'[n + 1].results = None
    BY <1>9, <2>1
  <2> QED BY <1>10, <2>2, <2>3 DEF RowInv
<1>17. OneRunning'
  BY <1>8, <1>9, <1>10 DEF OneRunning
<1>18. LiveInv'
  BY DEF LiveInv
<1>19. MeasureInv'
  <2>1. gen \in Nat /\ ~fence /\ UNCHANGED <<gen, ids, fence>>
    BY <1>1 DEF TypeInv
  <2>2. job'[p].gen = gen /\ job'[p].results = None /\ job'[p].thread = "starting"
    BY <1>12, <1>13
  <2>3. \A q \in Apps : q # p => ~Probing(q)'
    BY <1>11, <1>13 DEF Probing
  <2> QED BY <1>4, <2>1, <2>2, <2>3 DEF MeasureInv
<1>20. ResultsAreOfThisNode'
  BY <1>4, <1>8, <1>9, <1>10 DEF ResultsAreOfThisNode
<1>21. KeepsLastResult
  BY <1>8 DEF KeepsLastResult
<1> QED BY <1>3, <1>7, <1>8, <1>9, <1>14, <1>15, <1>16, <1>17, <1>18, <1>19, <1>20, <1>21

LEMMA StartManualStep ==
    ASSUME RunInv, NEW c \in Criteria, NEW source \in {"live", "isolated"}, StartManual(c, source)
    PROVE  RunInv' /\ KeepsLastResult
<1>1. "tui" \in Apps /\ FALSE \in BOOLEAN
  BY DEF Apps
<1>2. BeginRun("tui", c, source, FALSE) /\ UNCHANGED <<gen, ids, live, fence, app, consent, now, mishaps>>
  BY DEF StartManual, Database
<1>3. app' \in [Apps -> App]
  BY <1>2 DEF RunInv, TypeInv
<1>4. /\ TypeInv' /\ OwnerInv' /\ RowInv' /\ OneRunning' /\ LiveInv' /\ MeasureInv'
      /\ ResultsAreOfThisNode' /\ KeepsLastResult
      /\ Len(runs) \in Nat /\ Len(runs') = Len(runs) + 1
      /\ \A i \in 1..Len(runs) :
            /\ runs'[i].crit = runs[i].crit /\ runs'[i].gen = runs[i].gen
            /\ runs'[i].at = runs[i].at /\ runs'[i].background = runs[i].background
      /\ runs'[Len(runs) + 1].background = FALSE
  BY <1>1, <1>2, <1>3, RunBegins
<1>5. \A i \in 1..Len(runs') : i \in 1..Len(runs) \/ (i = Len(runs) + 1 /\ ~runs'[i].background)
  BY <1>4
<1>6. ScheduleInv'
  BY <1>2, <1>4, <1>5 DEF RunInv, ScheduleInv
<1>7. IntervalKept'
  BY <1>4, <1>5 DEF RunInv, IntervalKept
<1> QED BY <1>4, <1>6, <1>7 DEF RunInv

\* The latest start of a criterion is the one restored_probe_start returns.
LEMMA LatestIsLast ==
    ASSUME RunInv, NEW c \in Criteria, Latest(c) # {}
    PROVE  LET m == CHOOSE t \in Latest(c) : \A u \in Latest(c) : u <= t
           IN m \in Latest(c) /\ \A u \in Latest(c) : u <= m
<1> DEFINE T == {now - u : u \in Latest(c)}
<1>1. now \in Nat /\ Latest(c) \subseteq 1..now
  BY DEF RunInv, TypeInv, RowInv, Latest, Rows
<1>2. T \subseteq Nat /\ T # {}
  BY <1>1
<1> DEFINE Less == {ss \in Nat \X Nat : ss[1] < ss[2]}
<1>3. IsWellFoundedOn(Less, Nat)
  <2>1. OpToRel(<, Nat) = Less
    BY Zenon DEF OpToRel
  <2> QED BY <2>1, NatLessThanWellFounded, Zenon
<1>4. PICK x \in T : \A y \in T : x <= y
  <2>1. PICK x \in T : \A y \in T : ~ (<<y, x>> \in Less)
    <3> HIDE DEF Less, T
    <3> QED BY <1>2, <1>3, WFMin
  <2>2. ASSUME NEW y \in T
        PROVE  x <= y
    <3>1. x \in Nat /\ y \in Nat
      BY <1>2
    <3>2. y < x => <<y, x>> \in Less
      BY <3>1
    <3>3. ~ (y < x)
      BY <2>1, <3>2
    <3> QED BY <3>1, <3>3
  <2> QED BY <2>2
<1>5. PICK t \in Latest(c) : x = now - t
  OBVIOUS
<1>6. \A u \in Latest(c) : u <= t
  <2> TAKE u \in Latest(c)
  <2>1. now - u \in T
    OBVIOUS
  <2>2. now - t <= now - u
    BY <1>4, <1>5, <2>1
  <2> QED BY <1>1, <2>2
<1> QED BY <1>6

\* No start before the latest one is an interval old.
LEMMA DueAfterInterval ==
    ASSUME RunInv, NEW c \in Criteria, Due(c), NEW i \in 1..Len(runs),
           runs[i].crit = c, runs[i].background, runs[i].gen = gen
    PROVE  now >= runs[i].at + Interval
<1>1. /\ runs[i].at \in Nat \ {0} /\ now \in Nat /\ Interval \in Nat
      /\ app["worker"].last[c] \in Nat
  BY IntervalAssumption DEF RunInv, TypeInv, RowInv, App, Apps
<1>2. runs[i].at \in Latest(c)
  BY DEF Latest, Rows
<1>3. CASE app["worker"].last[c] # 0
  <2>1. LastStart(c) = app["worker"].last[c]
    BY <1>3 DEF LastStart
  <2>2. runs[i].at <= app["worker"].last[c]
    BY <1>3 DEF RunInv, ScheduleInv
  <2> QED BY <1>1, <1>3, <2>1, <2>2 DEF Due
<1>4. CASE app["worker"].last[c] = 0
  <2> DEFINE m == CHOOSE t \in Latest(c) : \A u \in Latest(c) : u <= t
  <2>1. LastStart(c) = m
    BY <1>2, <1>4 DEF LastStart
  <2>2. m \in Latest(c) /\ \A u \in Latest(c) : u <= m
    BY <1>2, LatestIsLast
  <2> HIDE DEF m
  <2>3. m \in Nat
    BY <2>2 DEF Latest, Rows, RunInv, TypeInv, RowInv
  <2> QED BY <1>1, <1>2, <2>1, <2>2, <2>3 DEF Due
<1> QED BY <1>3, <1>4

LEMMA StartScheduledStep ==
    ASSUME RunInv, NEW c \in Criteria, NEW source \in {"live", "isolated"}, StartScheduled(c, source)
    PROVE  RunInv' /\ KeepsLastResult
<1>1. "worker" \in Apps /\ TRUE \in BOOLEAN
  BY DEF Apps
<1>2. Due(c) /\ app' = [app EXCEPT !["worker"].last[c] = now]
  BY DEF StartScheduled
<1>8. UNCHANGED <<gen, ids, live, fence, consent, now, mishaps>>
  BY DEF StartScheduled, Database
<1>3. app' \in [Apps -> App] /\ app'["worker"].last = [app["worker"].last EXCEPT ![c] = now]
  <2>1. app["worker"] \in App /\ now \in Nat
    BY <1>1 DEF RunInv, TypeInv
  <2>2. [app["worker"].last EXCEPT ![c] = now] \in [Criteria -> Nat]
    BY <2>1 DEF App
  <2>3. [app["worker"] EXCEPT !.last = [app["worker"].last EXCEPT ![c] = now]] \in App
    BY <2>1, <2>2 DEF App
  <2>4. app' = [app EXCEPT !["worker"] = [app["worker"] EXCEPT !.last = [app["worker"].last EXCEPT ![c] = now]]]
    BY <1>1, <1>2, <2>1 DEF RunInv, TypeInv, App
  <2>5. app'["worker"] = [app["worker"] EXCEPT !.last = [app["worker"].last EXCEPT ![c] = now]]
    BY <1>1, <2>4 DEF RunInv, TypeInv
  <2> QED BY <1>1, <2>1, <2>3, <2>4, <2>5 DEF RunInv, TypeInv, App
<1>4. /\ app'["worker"].last[c] = now
      /\ \A d \in Criteria : d # c => app'["worker"].last[d] = app["worker"].last[d]
  BY <1>1, <1>3 DEF RunInv, TypeInv, App
<1>9. app' \in [Apps -> App]
  BY <1>3
<1>5. \A i \in 1..Len(runs) : runs[i].at <= now
  BY DEF RunInv, RowInv, TypeInv
<1>6. CASE UNCHANGED <<runs, lock, job>>
  <2>1. ScheduleInv'
    BY <1>4, <1>5, <1>6 DEF RunInv, ScheduleInv
  <2> QED BY <1>8, <1>9, <1>6, <2>1 DEF RunInv, TypeInv, OwnerInv, Probing, RowInv, OneRunning, LiveInv,
     MeasureInv, ResultsAreOfThisNode, IntervalKept, KeepsLastResult
<1>7. CASE BeginRun("worker", c, source, TRUE)
  <2>1. /\ TypeInv' /\ OwnerInv' /\ RowInv' /\ OneRunning' /\ LiveInv' /\ MeasureInv'
        /\ ResultsAreOfThisNode' /\ KeepsLastResult
        /\ Len(runs) \in Nat /\ Len(runs') = Len(runs) + 1
        /\ \A i \in 1..Len(runs) :
              /\ runs'[i].crit = runs[i].crit /\ runs'[i].gen = runs[i].gen
              /\ runs'[i].at = runs[i].at /\ runs'[i].background = runs[i].background
        /\ runs'[Len(runs) + 1].crit = c /\ runs'[Len(runs) + 1].gen = gen
        /\ runs'[Len(runs) + 1].at = now
    BY <1>1, <1>8, <1>9, <1>7, RunBegins
  <2>2. \A i \in 1..Len(runs') : i \in 1..Len(runs) \/ i = Len(runs) + 1
    BY <2>1
  <2>3. ScheduleInv'
    <3> SUFFICES ASSUME NEW d \in Criteria, app'["worker"].last[d] # 0, NEW i \in 1..Len(runs'),
                        runs'[i].crit = d, runs'[i].background
                 PROVE  runs'[i].at <= app'["worker"].last[d]
      BY DEF ScheduleInv
    <3>1. CASE i \in 1..Len(runs)
      BY <1>4, <1>5, <2>1, <3>1 DEF RunInv, ScheduleInv
    <3>2. CASE i = Len(runs) + 1
      <4>1. d = c /\ runs'[i].at = now /\ now \in Nat
        BY <2>1, <3>2 DEF RunInv, TypeInv
      <4> QED BY <1>4, <4>1
    <3> QED BY <2>2, <3>1, <3>2
  <2>4. IntervalKept'
    <3> SUFFICES ASSUME NEW i \in 1..Len(runs'), NEW j \in 1..Len(runs'), i < j,
                        runs'[i].crit = runs'[j].crit, runs'[i].background, runs'[j].background,
                        runs'[i].gen = runs'[j].gen
                 PROVE  runs'[j].at >= runs'[i].at + Interval
      BY DEF IntervalKept
    <3>1. i \in 1..Len(runs)
      BY <2>1
    <3>2. CASE j \in 1..Len(runs)
      BY <2>1, <3>1, <3>2 DEF RunInv, IntervalKept
    <3>3. CASE j = Len(runs) + 1
      <4>1. runs[i].crit = c /\ runs[i].background /\ runs[i].gen = gen
        BY <2>1, <3>1, <3>3
      <4>2. now >= runs[i].at + Interval
        BY <1>2, <3>1, <4>1, DueAfterInterval
      <4> QED BY <2>1, <3>1, <3>3, <4>2
    <3> QED BY <2>2, <3>2, <3>3
  <2> QED BY <2>1, <2>3, <2>4 DEF RunInv
<1> QED BY <1>6, <1>7 DEF StartScheduled

-----------------------------------------------------------------------------
(* What goes on around a run.                                              *)

LEMMA ReconcileStep ==
    ASSUME RunInv, NEW changed \in SUBSET Nodes, Reconcile(changed)
    PROVE  RunInv' /\ KeepsLastResult
<1> DEFINE n == Len(runs)
<1> USE DEF RunInv
<1>1. /\ gen' = gen + 1 /\ fence'
      /\ ids' = [m \in Nodes |-> IF m \in changed THEN gen + 1 ELSE ids[m]]
      /\ UNCHANGED <<live, lock, job, consent, now, mishaps>>
  BY DEF Reconcile
<1>2. n \in Nat /\ \A i \in 1..n : runs[i] \in Row
  BY LenProperties, RowOf DEF TypeInv
<1>3. /\ runs' \in Seq(Row) /\ Len(runs') = n
      /\ \A i \in 1..n :
            /\ runs'[i].crit = runs[i].crit /\ runs'[i].gen = runs[i].gen /\ runs'[i].at = runs[i].at
            /\ runs'[i].background = runs[i].background /\ runs'[i].status = runs[i].status
            /\ runs'[i].results = [m \in Nodes |-> IF m \in changed THEN 0 ELSE runs[i].results[m]]
  BY ReconciledRows
<1>4. /\ app' \in [Apps -> App] /\ app'["worker"] = app["worker"]
  <2>1. app["tui"] \in App /\ "tui" \in Apps /\ "worker" \in Apps
    BY DEF TypeInv, Apps
  <2>2. [app["tui"] EXCEPT !.store = 0] \in App
    BY <2>1 DEF App
  <2>3. app' = [app EXCEPT !["tui"] = [app["tui"] EXCEPT !.store = 0]]
    BY <2>1 DEF TypeInv, Reconcile
  <2> QED BY <2>1, <2>2, <2>3 DEF TypeInv
<1>5. TypeInv'
  <2>1. gen' \in Nat /\ fence' \in BOOLEAN /\ ids' \in [Nodes -> Nat]
    BY <1>1 DEF TypeInv
  <2> QED BY <1>1, <1>3, <1>4, <2>1 DEF TypeInv
<1>6. OwnerInv'
  BY <1>1, <1>3 DEF OwnerInv, Probing
<1>7. RowInv'
  <2>1. ASSUME NEW i \in 1..n, runs[i].results = None
        PROVE  runs'[i].results = None
    BY <1>3, <2>1 DEF None
  <2> QED BY <1>1, <1>3, <2>1 DEF RowInv
<1>8. Settles(runs, runs')
  BY <1>3 DEF Settles
<1>9. OneRunning' /\ ScheduleInv' /\ IntervalKept'
  BY <1>4, <1>8, SettledRows
<1>10. LiveInv'
  BY <1>1 DEF LiveInv
<1>11. MeasureInv'
  <2>1. ASSUME NEW p \in Apps, Probing(p)
        PROVE  /\ job[p].gen <= gen' /\ job[p].gen # gen'
               /\ job[p].thread = "done" /\ ~job[p].infra => \A m \in Nodes : job[p].results[m] # 0
    <3>1. job[p].gen \in Nat /\ job[p].gen <= gen /\ gen \in Nat
      BY <2>1 DEF MeasureInv, TypeInv, Job
    <3>2. job[p].thread = "done" /\ ~job[p].infra => \A m \in Nodes : job[p].results[m] # 0
      BY <2>1 DEF MeasureInv
    <3> QED BY <1>1, <3>1, <3>2
  <2> QED BY <1>1, <2>1 DEF MeasureInv, Probing
<1>12. ASSUME NEW i \in 1..n, NEW m \in Nodes
       PROVE  runs'[i].results[m] \in {0, ids'[m]}
  <2>1. runs[i].results[m] \in {0, ids[m]}
    BY DEF ResultsAreOfThisNode
  <2>2. runs'[i].results[m] = IF m \in changed THEN 0 ELSE runs[i].results[m]
    BY <1>3
  <2>3. ids'[m] = IF m \in changed THEN gen + 1 ELSE ids[m]
    BY <1>1
  <2> QED BY <2>1, <2>2, <2>3
<1>13. ResultsAreOfThisNode'
  BY <1>3, <1>12 DEF ResultsAreOfThisNode
<1>14. KeepsLastResult
  <2>1. gen' # gen
    BY <1>1 DEF TypeInv
  <2> QED BY <1>3, <2>1 DEF KeepsLastResult
<1> QED BY <1>5, <1>6, <1>7, <1>9, <1>10, <1>11, <1>13, <1>14

LEMMA ReloadRuntimeStep ==
    ASSUME RunInv, ReloadRuntime
    PROVE  RunInv' /\ KeepsLastResult
<1> USE DEF RunInv, ReloadRuntime
<1>1. TypeInv' /\ LiveInv'
  BY DEF TypeInv, LiveInv
<1>2. OwnerInv' /\ RowInv' /\ OneRunning' /\ ResultsAreOfThisNode' /\ ScheduleInv' /\ IntervalKept'
  BY DEF OwnerInv, Probing, RowInv, OneRunning, ResultsAreOfThisNode, ScheduleInv, IntervalKept
<1>3. MeasureInv'
  BY DEF MeasureInv, Probing
<1>4. KeepsLastResult
  BY DEF KeepsLastResult
<1> QED BY <1>1, <1>2, <1>3, <1>4

LEMMA AdoptSessionStep ==
    ASSUME RunInv, NEW p \in Apps, AdoptSession(p)
    PROVE  RunInv' /\ KeepsLastResult
<1> USE DEF RunInv
<1>1. /\ app' = [app EXCEPT ![p].store = gen, ![p].receipt = gen]
      /\ UNCHANGED <<runs, gen, ids, live, fence, lock, job, consent, now, mishaps>>
  BY DEF AdoptSession, Database
<1>2. app' \in [Apps -> App] /\ \A q \in Apps : app'[q].last = app[q].last
  <2>1. app[p] \in App
    BY DEF TypeInv
  <2>2. /\ [app[p] EXCEPT !.store = gen, !.receipt = gen] \in App
        /\ [app[p] EXCEPT !.store = gen, !.receipt = gen].last = app[p].last
    BY <2>1 DEF App, TypeInv
  <2>3. app' = [app EXCEPT ![p] = [app[p] EXCEPT !.store = gen, !.receipt = gen]]
    BY <1>1, <2>1 DEF TypeInv
  <2> QED BY <2>2, <2>3 DEF TypeInv
<1>3. "worker" \in Apps
  BY DEF Apps
<1>4. TypeInv' /\ ScheduleInv'
  BY <1>1, <1>2, <1>3 DEF TypeInv, ScheduleInv
<1>5. /\ OwnerInv' /\ RowInv' /\ OneRunning' /\ LiveInv' /\ MeasureInv'
      /\ ResultsAreOfThisNode' /\ IntervalKept' /\ KeepsLastResult
  BY <1>1 DEF OwnerInv, Probing, RowInv, OneRunning, LiveInv, MeasureInv, ResultsAreOfThisNode,
     IntervalKept, KeepsLastResult
<1> QED BY <1>4, <1>5

\* What a killed process left running is nobody's from then on; its successor has no memory.
LEMMA KilledStep ==
    ASSUME RunInv, NEW p \in Apps, Killed(p)
    PROVE  RunInv' /\ KeepsLastResult
<1> USE DEF RunInv
<1> DEFINE g == IF fence THEN 0 ELSE gen
           new == [NewApp EXCEPT !.store = g, !.receipt = g]
<1>1. /\ job' = [job EXCEPT ![p] = NoJob]
      /\ lock' = IF lock = p THEN "none" ELSE lock
      /\ app' = [app EXCEPT ![p] = new]
      /\ UNCHANGED <<runs, gen, ids, live, fence, consent, now>> /\ mishaps' \in Nat
  BY DEF Killed, Database, Mishap, TypeInv
<1>2. NoJob \in Job /\ NoJob.run = 0
  <2>1. None \in [Nodes -> Nat]
    BY DEF None
  <2>2. <<>> \in Seq(Nodes)
    BY EmptySeq
  <2> QED BY <2>1, <2>2 DEF NoJob, Job
<1>3. new \in App /\ new.last = [c \in Criteria |-> 0]
  <2>1. NewApp \in App /\ NewApp.last = [c \in Criteria |-> 0]
    BY DEF NewApp, App
  <2>2. g \in Nat
    BY DEF TypeInv
  <2> HIDE DEF g
  <2> QED BY <2>1, <2>2 DEF App
<1> HIDE DEF new
<1>4. job'[p] = NoJob /\ \A q \in Apps : q # p => job'[q] = job[q]
  BY <1>1 DEF TypeInv
<1>5. app'[p] = new /\ \A q \in Apps : q # p => app'[q] = app[q]
  BY <1>1 DEF TypeInv
<1>6. TypeInv'
  <2>1. job' \in [Apps -> Job] /\ app' \in [Apps -> App]
    BY <1>1, <1>2, <1>3 DEF TypeInv
  <2> QED BY <1>1, <2>1 DEF TypeInv
<1>7. OwnerInv'
  BY <1>1, <1>2, <1>4 DEF OwnerInv, Probing
<1>8. MeasureInv'
  BY <1>1, <1>2, <1>4 DEF MeasureInv, Probing
<1>9. ScheduleInv'
  BY <1>1, <1>3, <1>5 DEF ScheduleInv, Apps
<1>10. /\ RowInv' /\ OneRunning' /\ LiveInv' /\ ResultsAreOfThisNode' /\ IntervalKept'
       /\ KeepsLastResult
  BY <1>1 DEF RowInv, OneRunning, LiveInv, ResultsAreOfThisNode, IntervalKept, KeepsLastResult
<1> QED BY <1>6, <1>7, <1>8, <1>9, <1>10

LEMMA TickStep ==
    ASSUME RunInv, Tick
    PROVE  RunInv' /\ KeepsLastResult
<1> USE DEF RunInv
<1>1. /\ now' = now + 1 /\ now \in Nat
      /\ UNCHANGED <<runs, gen, ids, live, fence, lock, app, job, consent, mishaps>>
  BY DEF Tick, Database, TypeInv
<1>2. TypeInv'
  BY <1>1 DEF TypeInv
<1>3. RowInv'
  BY <1>1 DEF RowInv
<1>4. /\ OwnerInv' /\ OneRunning' /\ LiveInv' /\ MeasureInv' /\ ResultsAreOfThisNode'
      /\ ScheduleInv' /\ IntervalKept' /\ KeepsLastResult
  BY <1>1 DEF OwnerInv, Probing, OneRunning, LiveInv, MeasureInv, ResultsAreOfThisNode, ScheduleInv,
     IntervalKept, KeepsLastResult
<1> QED BY <1>2, <1>3, <1>4

-----------------------------------------------------------------------------
LEMMA RunInitially ==
    ASSUME RunInit
    PROVE  RunInv
<1> USE DEF RunInit
<1>1. None \in [Nodes -> Nat]
  BY DEF None
<1>2. NoJob \in Job /\ NoJob.run = 0
  BY <1>1, EmptySeq DEF NoJob, Job
<1>3. NewApp \in App /\ \A c \in Criteria : NewApp.last[c] = 0
  BY DEF NewApp, App
<1>4. runs \in Seq(Row) /\ Len(runs) = 0
  BY EmptySeq
<1>5. TypeInv
  <2>1. job \in [Apps -> Job]
    BY <1>2
  <2>2. app \in [Apps -> App]
    BY <1>3
  <2>3. gen \in Nat /\ ids \in [Nodes -> Nat] /\ live \in [Nodes -> Nat] /\ fence \in BOOLEAN
    OBVIOUS
  <2>4. lock \in Apps \cup {"none"} /\ consent \subseteq Criteria /\ now \in Nat \ {0} /\ mishaps \in Nat
    OBVIOUS
  <2> QED BY <1>4, <2>1, <2>2, <2>3, <2>4 DEF TypeInv
<1>6. OwnerInv /\ MeasureInv
  BY <1>2 DEF OwnerInv, MeasureInv, Probing
<1>7. RowInv /\ OneRunning /\ LiveInv /\ ResultsAreOfThisNode /\ ScheduleInv /\ IntervalKept
  BY <1>4 DEF RowInv, OneRunning, LiveInv, ResultsAreOfThisNode, ScheduleInv, IntervalKept
<1> QED BY <1>5, <1>6, <1>7 DEF RunInv

LEMMA RunSteps ==
    ASSUME RunInv, [RunNext]_runVars
    PROVE  RunInv' /\ KeepsLastResult
<1>1. ASSUME NEW c \in Criteria, NEW source \in {"live", "isolated"},
             StartManual(c, source) \/ StartScheduled(c, source)
      PROVE  RunInv' /\ KeepsLastResult
  BY <1>1, StartManualStep, StartScheduledStep
<1>2. ASSUME NEW c \in Criteria, ApplyConsent(c)
      PROVE  RunInv' /\ KeepsLastResult
  BY <1>2, ApplyConsentStep
<1>3. ASSUME NEW p \in Apps,
             \/ LaunchFails(p) \/ Cancel(p) \/ ThreadStarts(p) \/ ThreadEnds(p)
             \/ PollProgress(p) \/ PollFinished(p) \/ AdoptSession(p) \/ Killed(p)
      PROVE  RunInv' /\ KeepsLastResult
  BY <1>3, LaunchFailsStep, CancelStep, ThreadStartsStep, ThreadEndsStep, PollProgressStep,
     PollFinishedStep, AdoptSessionStep, KilledStep
<1>4. ASSUME NEW p \in Apps, NEW n \in Nodes, Assess(p, n)
      PROVE  RunInv' /\ KeepsLastResult
  BY <1>4, AssessStep
<1>5. ASSUME NEW changed \in SUBSET Nodes, Reconcile(changed)
      PROVE  RunInv' /\ KeepsLastResult
  BY <1>5, ReconcileStep
<1>6. CASE ReloadRuntime \/ Tick
  BY <1>6, ReloadRuntimeStep, TickStep
<1>7. CASE UNCHANGED runVars
  BY <1>7 DEF runVars, RunInv, TypeInv, OwnerInv, Probing, RowInv, OneRunning, LiveInv, MeasureInv,
     ResultsAreOfThisNode, ScheduleInv, IntervalKept, KeepsLastResult
<1> QED BY <1>1, <1>2, <1>3, <1>4, <1>5, <1>6, <1>7 DEF RunNext

\* At most one running row per criterion, as a cardinality.
LEMMA OwnedRows ==
    ASSUME RunInv
    PROVE  RunsAreOwned
<1>1. \A p \in Apps : Probing(p) => runs[job[p].run].status = "running" /\ lock = p
  BY DEF RunInv, OwnerInv
<1>2. ASSUME NEW c \in Criteria
      PROVE  Cardinality({i \in Rows(c) : runs[i].status = "running"}) <= 1
  <2> DEFINE R == {i \in Rows(c) : runs[i].status = "running"}
  <2>1. \A i, j \in R : i = j
    BY DEF RunInv, OneRunning, Rows
  <2>2. CASE R = {}
    BY <2>2, FS_EmptySet
  <2>3. CASE R # {}
    <3>1. PICK i \in R : TRUE
      BY <2>3
    <3>2. R = {i}
      BY <2>1, <3>1
    <3>3. Cardinality({i}) = 1
      BY FS_Singleton
    <3> QED BY <3>2, <3>3
  <2> QED BY <2>2, <2>3
<1> QED BY <1>1, <1>2 DEF RunsAreOwned

\* RunInv is inductive: who owns which row, what a job may have measured while its
\* generation stands, and what the worker remembers of its schedule.
THEOREM RunInvariant == RunSpec => []RunInv
<1>1. RunInit => RunInv
  BY RunInitially
<1>2. RunInv /\ [RunNext]_runVars => RunInv'
  BY RunSteps
<1> QED BY <1>1, <1>2, PTL DEF RunSpec

\* A running row has one owner or none and there is one of a criterion, what is read was
\* measured on the node as it is configured, a scheduled probe keeps its interval, and
\* only a complete run replaces a result (begin_usability_probe_run,
\* finish_usability_probe_run_with_ttl, restored_probe_start).
THEOREM RunsAreSound == RunSpec => RunsSound
<1>1. RunInit => RunInv
  BY RunInitially
<1>2. RunInv /\ [RunNext]_runVars => RunInv' /\ KeepsLastResult
  BY RunSteps
<1>3. RunInv' => (RunsAreOwned /\ ResultsAreOfThisNode /\ IntervalKept)'
  <2>1. RunInv => RunsAreOwned /\ ResultsAreOfThisNode /\ IntervalKept
    BY OwnedRows DEF RunInv
  <2> QED BY <2>1, PTL
<1>4. RunInv /\ [RunNext]_runVars => [SettlesRuns]_runVars
  BY <1>2, <1>3 DEF SettlesRuns
<1> QED BY <1>1, <1>2, <1>4, PTL DEF RunSpec, RunsSound

-----------------------------------------------------------------------------
(* Sustained probes, for any number of nodes, targets, jobs and transfers.   *)
(*                                                                           *)
(* A job owes an answer for exactly those of its nodes that no thread has    *)
(* answered for, or whose answer waits in the channel, once; the gate counts *)
(* the transfers under way; and the table lags behind the database only by   *)
(* commits that the version it has observed does not include, the result     *)
(* about to be shown and the nodes of a failed lease or read.                *)

ProbeJob == [state : {"none", "running", "finished", "gone", "dropped"}, target : Targets, gen : Nat,
        cancelled : BOOLEAN, work : [Probed -> {"none", "pending", "waiting", "moving", "sent"}],
        queue : Seq(Probed \X BOOLEAN), outstanding : SUBSET Probed, asked : SUBSET Probed,
        answers : Nat, failed : BOOLEAN]
Unshown == [job : Ids, node : Probed, of : Targets, show : BOOLEAN]
SusTypes ==
    /\ jobs \in [Ids -> ProbeJob] /\ active \in Nat /\ target \in Targets
    /\ dbGen \in Nat /\ mine \in Nat /\ stored \in [Probed -> [Targets -> Nat]]
    /\ table \in [Probed -> [of : Targets, upto : Nat]]
    /\ version \in Nat /\ observed \in Nat
    /\ reload \in [at : {"no", "version", "facts"}, seen : Nat]
    /\ \A u \in unshown : u \in Unshown /\ unshown = {u}

(* What a job r owes.                                                        *)
Queued(r, n) == \E i \in 1..Len(r.queue) : r.queue[i][1] = n
Owes(r) ==
    /\ r.outstanding \subseteq r.asked /\ (r.state = "none" => r.asked = {})
    /\ r.answers = Cardinality(r.asked \ r.outstanding)
    /\ \A n \in Probed : r.work[n] \in {"pending", "waiting", "moving"} => n \in r.outstanding
    /\ \A n \in r.outstanding : r.work[n] = "sent" => Queued(r, n)
    /\ \A i \in 1..Len(r.queue) : r.queue[i][1] \in r.outstanding /\ r.work[r.queue[i][1]] = "sent"
    /\ \A i, k \in 1..Len(r.queue) : r.queue[i][1] = r.queue[k][1] => i = k
    /\ r.state \in {"finished", "gone"} => \A n \in r.asked : r.work[n] = "sent"
    /\ r.state = "gone" => r.queue = <<>>
JobsInv == \A j \in Ids : Owes(jobs[j])

(* What the table knows of the database.                                     *)
Lacking == unread \cup {u.node : u \in {v \in unshown : v.show}}
Fresh == \A n \in Probed : n \in Lacking \/ table[n].upto = stored[n][target]
ViewInv ==
    /\ \A n \in Probed : table[n].of = target
    /\ \A u \in unshown : u.show => u.of = target
    /\ mine <= dbGen /\ dbGen > 0 /\ observed <= version
    /\ reload.at # "no" =>
          mine # 0 /\ observed < reload.seen /\ reload.seen <= version /\ unshown = {}
    /\ reload.at = "facts" => mine = dbGen /\ (reload.seen = version => Fresh)
    /\ mine = dbGen /\ observed = version => Fresh

SusInv == SusTypes /\ JobsInv /\ NoDoubleTransfer /\ GateExact /\ EvidenceIsExact /\ ViewInv

(* The length of a body of at most two chunks: the sum is the function the   *)
(* definition asks for.                                                      *)
Sums(f, chunks) == f = [i \in 0..Len(chunks) |-> IF i = 0 THEN 0 ELSE f[i - 1] + chunks[i]]
LEMMA LengthOf ==
    ASSUME NEW chunks, NEW g, Sums(g, chunks)
    PROVE  \E f : Sums(f, chunks) /\ BodyLength(chunks) = f[Len(chunks)]
<1>1. BodyLength(chunks) = (CHOOSE f : f = [i \in 0..Len(chunks) |-> IF i = 0 THEN 0 ELSE f[i - 1] + chunks[i]])[Len(chunks)]
  BY Zenon DEF BodyLength
<1> DEFINE f == CHOOSE f : Sums(f, chunks)
<1>2. Sums(f, chunks)
  OBVIOUS
<1>3. BodyLength(chunks) = f[Len(chunks)]
  BY <1>1, Zenon DEF Sums
<1> QED BY <1>2, <1>3

LEMMA LengthOfNone == BodyLength(<<>>) = 0
<1>1. Len(<<>>) = 0
  OBVIOUS
<1>2. Sums([i \in 0..Len(<<>>) |-> 0], <<>>)
  BY <1>1 DEF Sums
<1>3. PICK f : Sums(f, <<>>) /\ BodyLength(<<>>) = f[Len(<<>>)]
  BY <1>2, LengthOf
<1> QED BY <1>1, <1>3 DEF Sums

LEMMA LengthOfOne == ASSUME NEW a \in Int PROVE BodyLength(<<a>>) = a
<1> DEFINE c == <<a>>
<1>1. Len(c) = 1 /\ c[1] = a
  OBVIOUS
<1> HIDE DEF c
<1>2. Sums([i \in 0..Len(c) |-> IF i = 0 THEN 0 ELSE a], c)
  BY <1>1 DEF Sums
<1>3. PICK f : Sums(f, c) /\ BodyLength(c) = f[Len(c)]
  BY <1>2, LengthOf
<1>4. f[0] = 0 /\ f[1] = f[0] + c[1]
  BY <1>1, <1>3 DEF Sums
<1>5. BodyLength(c) = a
  BY <1>1, <1>3, <1>4
<1> QED BY <1>5 DEF c

LEMMA LengthOfTwo == ASSUME NEW a \in Int, NEW b \in Int PROVE BodyLength(<<a, b>>) = a + b
<1> DEFINE c == <<a, b>>
<1>1. Len(c) = 2 /\ c[1] = a /\ c[2] = b
  OBVIOUS
<1> HIDE DEF c
<1>2. Sums([i \in 0..Len(c) |-> IF i = 0 THEN 0 ELSE IF i = 1 THEN a ELSE a + b], c)
  BY <1>1 DEF Sums
<1>3. PICK f : Sums(f, c) /\ BodyLength(c) = f[Len(c)]
  BY <1>2, LengthOf
<1>4. f[0] = 0 /\ f[1] = f[0] + c[1] /\ f[2] = f[1] + c[2]
  BY <1>1, <1>3 DEF Sums
<1>5. BodyLength(c) = a + b
  BY <1>1, <1>3, <1>4
<1> QED BY <1>5 DEF c

(* Only an exact response is called completed.                               *)
LEMMA CompletedIsExact ==
    ASSUME NEW r \in Responses, Outcome(r) = "completed" PROVE Exact(r)
<1>1. Expected \in Nat /\ Expected > 0
  BY SustainedAssumption
<1>2. /\ \A n \in 1..r.redirects : Follows(n)
      /\ r.success /\ r.account_free /\ ~r.cut /\ Complete(r.chunks)
  BY DEF Outcome
<1>3. r.redirects <= 2
  <2>1. r.redirects \in 0..3
    BY DEF Responses, MaxRedirects
  <2> QED BY <1>2, <2>1 DEF Follows, MaxRedirects
<1>4. BodyLength(r.chunks) = Expected
  BY <1>2 DEF Complete
<1>5. r.chunks \in {<<>>, <<Expected>>, <<1, Expected - 1>>, <<0, Expected>>, <<Expected - 1>>, <<Expected, 1>>}
  BY DEF Responses
<1>6. r.chunks # <<>>
  BY <1>1, <1>4, LengthOfNone
<1>7. r.chunks # <<Expected - 1>>
  BY <1>1, <1>4, LengthOfOne
<1>8. r.chunks # <<Expected, 1>>
  BY <1>1, <1>4, LengthOfTwo
<1> QED BY <1>2, <1>3, <1>5, <1>6, <1>7, <1>8 DEF Exact

LEMMA VerdictsSay ==
    ASSUME NEW v \in Verdicts
    PROVE  v.outcome \in {"completed", "failed"} /\ (v.outcome = "completed" => v.exact)
<1>1. PICK r \in Responses : v = [outcome |-> Outcome(r), exact |-> Exact(r)]
  BY DEF Verdicts
<1>2. Outcome(r) \in {"completed", "failed"}
  BY DEF Outcome
<1>3. v.outcome = Outcome(r) /\ v.exact = Exact(r)
  BY <1>1
<1> QED BY <1>2, <1>3, CompletedIsExact

-----------------------------------------------------------------------------
(* The jobs.                                                                 *)

LEMMA Finite ==
    /\ IsFiniteSet(Probed) /\ IsFiniteSet(Ids) /\ IsFiniteSet(Ids \X Probed)
    /\ \A S \in SUBSET Probed : IsFiniteSet(S) /\ Cardinality(S) \in Nat
<1>1. IsFiniteSet(Probed) /\ MaxJobs \in Nat
  BY SustainedAssumption
<1>2. IsFiniteSet(Ids)
  BY <1>1, FS_Interval DEF Ids
<1> QED BY <1>1, <1>2, FS_Product, FS_Subset, FS_CardinalityType

(* A job goes on: what it owes grows less, and it does not come back to life.*)
GoesOn(r, s) ==
    /\ s.target = r.target /\ s.outstanding \subseteq r.outstanding
    /\ s.state \in {"running", "finished"} => r.state \in {"running", "finished"}
    /\ r.cancelled => s.cancelled
LEMMA TransfersStayApart ==
    ASSUME NoDoubleTransfer, \A j \in Ids : GoesOn(jobs[j], jobs'[j]) PROVE NoDoubleTransfer'
BY DEF NoDoubleTransfer, GoesOn, Live

(* Nobody begins or ends a transfer.                                         *)
LEMMA GateKept ==
    ASSUME GateExact, UNCHANGED active,
           \A j \in Ids, n \in Probed : jobs'[j].work[n] = "moving" <=> jobs[j].work[n] = "moving"
    PROVE  GateExact'
<1>1. Moving' = Moving
  BY DEF Moving
<1> QED BY <1>1 DEF GateExact

(* An answer for a node no thread has answered for goes to the channel.      *)
Answering(r, n, told) == [r EXCEPT !.work[n] = "sent", !.queue = Append(@, <<n, told>>)]
LEMMA AnswerOwed ==
    ASSUME NEW r \in ProbeJob, Owes(r), NEW n \in Probed, r.work[n] \in {"pending", "waiting", "moving"},
           NEW told \in BOOLEAN
    PROVE  LET s == Answering(r, n, told) IN
             s \in ProbeJob /\ Owes(s) /\ GoesOn(r, s) /\ s.work = [r.work EXCEPT ![n] = "sent"]
<1> DEFINE s == Answering(r, n, told)
           q == Append(r.queue, <<n, told>>)
<1>1. /\ s.work = [r.work EXCEPT ![n] = "sent"] /\ s.queue = q
      /\ s.state = r.state /\ s.target = r.target /\ s.gen = r.gen /\ s.cancelled = r.cancelled
      /\ s.outstanding = r.outstanding /\ s.asked = r.asked /\ s.answers = r.answers /\ s.failed = r.failed
  BY DEF Answering, ProbeJob
<1>2. /\ r.queue \in Seq(Probed \X BOOLEAN) /\ q \in Seq(Probed \X BOOLEAN) /\ Len(q) = Len(r.queue) + 1
      /\ Len(r.queue) \in Nat /\ q[Len(q)] = <<n, told>>
      /\ \A i \in 1..Len(r.queue) : q[i] = r.queue[i]
  BY DEF ProbeJob
<1>3. s \in ProbeJob
  BY <1>1, <1>2 DEF ProbeJob, Answering
<1>4. n \in r.outstanding /\ ~Queued(r, n)
  BY DEF Owes, Queued
<1>5. \A m \in Probed : m # n => s.work[m] = r.work[m]
  BY <1>1 DEF ProbeJob
<1>6. s.work[n] = "sent"
  BY <1>1 DEF ProbeJob
<1>7. \A m : Queued(r, m) => Queued(s, m)
  BY <1>1, <1>2 DEF Queued
<1>8. Queued(s, n)
  BY <1>1, <1>2 DEF Queued
<1> HIDE DEF s, q
<1>9. \A i \in 1..Len(s.queue) : s.queue[i][1] \in s.outstanding /\ s.work[s.queue[i][1]] = "sent"
  BY <1>1, <1>2, <1>4, <1>5, <1>6 DEF Owes, ProbeJob
<1>10. \A i, k \in 1..Len(s.queue) : s.queue[i][1] = s.queue[k][1] => i = k
  <2>1. \A i \in 1..Len(r.queue) : r.queue[i][1] # n
    BY <1>4 DEF Queued
  <2>2. \A i, k \in 1..Len(r.queue) : r.queue[i][1] = r.queue[k][1] => i = k
    BY DEF Owes
  <2>3. \A i \in 1..Len(q) : i \in 1..Len(r.queue) \/ i = Len(q)
    BY <1>2
  <2>4. q[Len(q)][1] = n /\ \A i \in 1..Len(r.queue) : q[i][1] = r.queue[i][1]
    BY <1>2
  <2>5. \A i, k \in 1..Len(q) : q[i][1] = q[k][1] => i = k
    BY <2>1, <2>2, <2>3, <2>4
  <2> QED BY <1>1, <2>5
<1>11. r.outstanding \subseteq Probed /\ r.asked \subseteq Probed
  BY DEF ProbeJob
<1>12. Owes(s)
  BY <1>1, <1>4, <1>5, <1>6, <1>7, <1>8, <1>9, <1>10, <1>11 DEF Owes
<1> QED BY <1>1, <1>3, <1>12 DEF GoesOn, s

(* One job changes.                                                          *)
JobInvs == jobs \in [Ids -> ProbeJob] /\ JobsInv /\ NoDoubleTransfer
LEMMA OneJob ==
    ASSUME JobInvs, NEW j \in Ids, NEW s \in ProbeJob, Owes(s), GoesOn(jobs[j], s),
           jobs' = [jobs EXCEPT ![j] = s]
    PROVE  /\ JobInvs' /\ jobs'[j] = s
           /\ \A i \in Ids : i # j => jobs'[i] = jobs[i]
<1>1. jobs'[j] = s /\ \A i \in Ids : i # j => jobs'[i] = jobs[i]
  BY DEF JobInvs
<1>2. jobs' \in [Ids -> ProbeJob] /\ JobsInv'
  BY <1>1 DEF JobInvs, JobsInv
<1>3. \A i \in Ids : GoesOn(jobs[i], jobs'[i])
  BY <1>1 DEF GoesOn
<1> QED BY <1>1, <1>2, <1>3, TransfersStayApart DEF JobInvs

(* A thread answers, or takes the next node.                                 *)
LEMMA SendKept ==
    ASSUME JobInvs, NEW j \in Ids, NEW n \in Probed, NEW outcome,
           jobs[j].work[n] \in {"pending", "waiting", "moving"}, Send(j, n, outcome)
    PROVE  /\ JobInvs' /\ \A i \in Ids : i # j => jobs'[i] = jobs[i]
           /\ jobs'[j].work = [jobs[j].work EXCEPT ![n] = "sent"]
<1> DEFINE told == Attributable(outcome)
           s == Answering(jobs[j], n, told)
<1>1. told \in BOOLEAN
  BY DEF Attributable
<1>2. jobs[j] \in ProbeJob /\ Owes(jobs[j])
  BY DEF JobInvs, JobsInv
<1>3. s \in ProbeJob /\ Owes(s) /\ GoesOn(jobs[j], s) /\ s.work = [jobs[j].work EXCEPT ![n] = "sent"]
  BY <1>1, <1>2, AnswerOwed
<1>4. jobs' = [jobs EXCEPT ![j] = s]
  BY <1>2 DEF Send, Answering, ProbeJob, JobInvs
<1> HIDE DEF s
<1> QED BY <1>3, <1>4, OneJob

LEMMA HandedOn ==
    ASSUME JobInvs, NEW j \in Ids, NEW n \in Probed, NEW after \in {"waiting", "moving"},
           jobs[j].work[n] \in {"pending", "waiting"}, jobs' = [jobs EXCEPT ![j].work[n] = after]
    PROVE  /\ JobInvs' /\ \A i \in Ids : i # j => jobs'[i] = jobs[i]
           /\ jobs'[j].work = [jobs[j].work EXCEPT ![n] = after]
<1> DEFINE r == jobs[j]
           s == [r EXCEPT !.work[n] = after]
<1>1. r \in ProbeJob /\ Owes(r) /\ jobs' = [jobs EXCEPT ![j] = s]
  BY DEF JobInvs, JobsInv
<1>2. /\ s.work = [r.work EXCEPT ![n] = after] /\ s.queue = r.queue
      /\ s.state = r.state /\ s.target = r.target /\ s.cancelled = r.cancelled
      /\ s.outstanding = r.outstanding /\ s.asked = r.asked /\ s.answers = r.answers
  BY <1>1 DEF ProbeJob
<1>3. s \in ProbeJob
  BY <1>1 DEF ProbeJob
<1>4. s.work[n] = after /\ \A m \in Probed : m # n => s.work[m] = r.work[m]
  BY <1>1, <1>2 DEF ProbeJob
<1>5. n \in r.outstanding /\ n \in r.asked /\ r.outstanding \subseteq Probed /\ r.asked \subseteq Probed
  BY <1>1 DEF Owes, ProbeJob
<1>6. r.work[n] # "sent" /\ after # "sent"
  OBVIOUS
<1> HIDE DEF r, s
<1>7. \A i \in 1..Len(r.queue) : r.queue[i][1] # n
  BY <1>1, <1>6 DEF Owes
<1>8. Owes(s)
  BY <1>1, <1>2, <1>4, <1>5, <1>6, <1>7 DEF Owes, Queued
<1>9. GoesOn(jobs[j], s)
  BY <1>2 DEF GoesOn, r
<1> QED BY <1>1, <1>2, <1>3, <1>8, <1>9, OneJob DEF r

(* The threads that do not touch the gate.                                   *)
GateAlso == JobInvs /\ GateExact /\ active \in Nat /\ EvidenceIsExact
LEMMA TakeKept ==
    ASSUME GateAlso, NEW j \in Ids, NEW n \in Probed, Take(j, n) \/ GiveUp(j, n) PROVE GateAlso'
<1>1. JobInvs /\ GateExact /\ jobs[j] \in ProbeJob /\ UNCHANGED <<active, inexact>>
  BY DEF GateAlso, JobInvs, Take, GiveUp
<1>2. /\ JobInvs' /\ \A i \in Ids : i # j => jobs'[i] = jobs[i]
      /\ \E w \in {"waiting", "sent"} : jobs'[j].work = [jobs[j].work EXCEPT ![n] = w]
  <2>1. CASE Send(j, n, "cancelled")
    <3>1. jobs[j].work[n] \in {"pending", "waiting", "moving"}
      BY DEF Take, GiveUp
    <3> QED BY <1>1, <2>1, <3>1, SendKept
  <2>2. CASE jobs[j].work[n] = "pending" /\ jobs' = [jobs EXCEPT ![j].work[n] = "waiting"]
    BY <1>1, <2>2, HandedOn
  <2> QED BY <2>1, <2>2 DEF Take, GiveUp
<1>3. jobs[j].work[n] # "moving"
  BY DEF Take, GiveUp
<1>4. \A i \in Ids, m \in Probed : jobs'[i].work[m] = "moving" <=> jobs[i].work[m] = "moving"
  BY <1>1, <1>2, <1>3 DEF ProbeJob
<1> QED BY <1>1, <1>2, <1>4, GateKept DEF GateAlso, EvidenceIsExact

LEMMA AcquireKept == ASSUME GateAlso, NEW j \in Ids, NEW n \in Probed, Acquire(j, n) PROVE GateAlso'
<1>1. /\ JobInvs /\ GateExact /\ jobs[j] \in ProbeJob /\ UNCHANGED inexact /\ active \in Nat
      /\ active' = active + 1 /\ active < Limit /\ jobs[j].work[n] = "waiting"
      /\ jobs' = [jobs EXCEPT ![j].work[n] = "moving"]
  BY DEF GateAlso, JobInvs, Acquire, GateOpen
<1>2. /\ JobInvs' /\ \A i \in Ids : i # j => jobs'[i] = jobs[i]
      /\ jobs'[j].work = [jobs[j].work EXCEPT ![n] = "moving"]
  BY <1>1, HandedOn
<1>3. <<j, n>> \notin Moving /\ Moving' = Moving \cup {<<j, n>>}
  BY <1>1, <1>2 DEF Moving, ProbeJob
<1>4. IsFiniteSet(Moving)
  BY Finite, FS_Subset DEF Moving
<1>5. Cardinality(Moving') = Cardinality(Moving) + 1
  BY <1>3, <1>4, FS_AddElement
<1>6. GateExact' /\ active' \in Nat
  BY <1>1, <1>5, SustainedAssumption DEF GateExact
<1> QED BY <1>1, <1>2, <1>6 DEF GateAlso, EvidenceIsExact

LEMMA TransferKept == ASSUME GateAlso, NEW j \in Ids, NEW n \in Probed, Transfer(j, n) PROVE GateAlso'
<1>1. /\ JobInvs /\ GateExact /\ jobs[j] \in ProbeJob /\ active \in Nat /\ ~inexact
      /\ active' = active - 1 /\ jobs[j].work[n] = "moving"
  BY DEF GateAlso, JobInvs, Transfer, EvidenceIsExact
<1>2. ~inexact' /\ \E outcome \in {"runtime", "cancelled", "completed", "failed"} : Send(j, n, outcome)
  <2>1. CASE (Send(j, n, "runtime") \/ Send(j, n, "cancelled")) /\ UNCHANGED inexact
    BY <1>1, <2>1
  <2>2. ASSUME NEW v \in Verdicts, Send(j, n, v.outcome),
               inexact' = (inexact \/ (v.outcome = "completed" /\ ~v.exact))
        PROVE  ~inexact' /\ \E outcome \in {"completed", "failed"} : Send(j, n, outcome)
    <3>1. v.outcome \in {"completed", "failed"} /\ (v.outcome = "completed" => v.exact)
      BY VerdictsSay
    <3>2. ~inexact'
      BY <1>1, <2>2, <3>1, Zenon
    <3> QED BY <2>2, <3>1, <3>2
  <2> QED BY <2>1, <2>2 DEF Transfer
<1>3. /\ JobInvs' /\ \A i \in Ids : i # j => jobs'[i] = jobs[i]
      /\ jobs'[j].work = [jobs[j].work EXCEPT ![n] = "sent"]
  BY <1>1, <1>2, SendKept
<1>4. <<j, n>> \in Moving /\ Moving' = Moving \ {<<j, n>>}
  BY <1>1, <1>3 DEF Moving, ProbeJob
<1>5. IsFiniteSet(Moving)
  BY Finite, FS_Subset DEF Moving
<1>6. Cardinality(Moving') = Cardinality(Moving) - 1 /\ Cardinality(Moving') \in Nat
  BY <1>4, <1>5, FS_RemoveElement, FS_CardinalityType
<1>7. GateExact' /\ active' \in Nat
  BY <1>1, <1>6, SustainedAssumption DEF GateExact
<1> QED BY <1>2, <1>3, <1>7 DEF GateAlso, EvidenceIsExact

(* A job that nobody has answered anything for yet.                          *)
LEMMA StartKept ==
    ASSUME GateAlso, SusTypes, NEW j \in Ids, NEW single \in BOOLEAN, NEW wanted \in SUBSET Probed,
           Start(j, single, wanted)
    PROVE  GateAlso'
<1>1. PICK nodes \in SUBSET Probed :
        /\ nodes \cap InFlight(target) = {}
        /\ jobs' = [jobs EXCEPT ![j] =
              [Unborn EXCEPT !.state = "running", !.target = target, !.gen = dbGen,
                             !.work = [n \in Probed |-> IF n \in nodes THEN "pending" ELSE "none"],
                             !.outstanding = nodes, !.asked = nodes]]
  BY DEF Start
<1> DEFINE s == [state |-> "running", target |-> target, gen |-> dbGen, cancelled |-> FALSE,
                 work |-> [n \in Probed |-> IF n \in nodes THEN "pending" ELSE "none"], queue |-> <<>>,
                 outstanding |-> nodes, asked |-> nodes, answers |-> 0, failed |-> FALSE]
<1>2. /\ jobs' = [jobs EXCEPT ![j] = s] /\ jobs \in [Ids -> ProbeJob] /\ jobs[j].state = "none"
      /\ UNCHANGED <<active, inexact>>
  BY <1>1 DEF Unborn, SusTypes, Start
<1>3. s \in ProbeJob
  BY DEF ProbeJob, SusTypes
<1>4. Owes(s)
  <2>1. Cardinality(nodes \ nodes) = 0
    <3>1. nodes \ nodes = {}
      OBVIOUS
    <3> QED BY <3>1, FS_EmptySet
  <2> QED BY <2>1 DEF Owes, Queued
<1>5. jobs'[j] = s /\ \A i \in Ids : i # j => jobs'[i] = jobs[i]
  BY <1>2
<1>6. jobs' \in [Ids -> ProbeJob] /\ JobsInv'
  BY <1>2, <1>3, <1>4, <1>5 DEF GateAlso, JobInvs, JobsInv
<1>7. NoDoubleTransfer'
  <2>1. \A i \in Ids : Live(i) /\ jobs[i].target = target /\ ~jobs[i].cancelled =>
                         jobs[i].outstanding \cap nodes = {}
    BY <1>1 DEF InFlight
  <2>2. s.target = target /\ s.outstanding = nodes
    OBVIOUS
  <2> QED BY <1>5, <2>1, <2>2 DEF NoDoubleTransfer, Live, GateAlso, JobInvs
<1>8. \A n \in Probed : jobs[j].work[n] # "moving" /\ s.work[n] # "moving"
  BY <1>2 DEF GateAlso, JobInvs, JobsInv, Owes
<1>9. GateExact'
  BY <1>2, <1>5, <1>8, GateKept DEF GateAlso
<1> QED BY <1>2, <1>6, <1>7, <1>9 DEF GateAlso, JobInvs, EvidenceIsExact

(* The thread that joins the others, and the polls.                          *)
LEMMA SameWork ==
    ASSUME GateAlso, NEW j \in Ids, NEW s \in ProbeJob, Owes(s), GoesOn(jobs[j], s), s.work = jobs[j].work,
           jobs' = [jobs EXCEPT ![j] = s], UNCHANGED <<active, inexact>>
    PROVE  GateAlso'
<1>1. /\ JobInvs' /\ jobs'[j] = s /\ \A i \in Ids : i # j => jobs'[i] = jobs[i]
  BY OneJob DEF GateAlso
<1>2. GateExact'
  BY <1>1, GateKept DEF GateAlso
<1> QED BY <1>1, <1>2 DEF GateAlso, EvidenceIsExact

LEMMA FinishKept ==
    ASSUME GateAlso, NEW j \in Ids, SayFinished(j) \/ PollEnd(j) PROVE GateAlso'
<1>1. PICK state \in {"finished", "gone"} :
        /\ jobs' = [jobs EXCEPT ![j].state = state] /\ UNCHANGED <<active, inexact>>
        /\ \/ state = "finished" /\ jobs[j].state = "running" /\ Joined(j)
           \/ state = "gone" /\ jobs[j].state = "finished" /\ jobs[j].queue = <<>>
  BY DEF SayFinished, PollEnd
<1> DEFINE r == jobs[j]
           s == [r EXCEPT !.state = state]
<1>2. r \in ProbeJob /\ Owes(r) /\ jobs' = [jobs EXCEPT ![j] = s]
  BY <1>1 DEF GateAlso, JobInvs, JobsInv
<1>3. /\ s.work = r.work /\ s.queue = r.queue /\ s.state = state /\ s.target = r.target
      /\ s.cancelled = r.cancelled /\ s.outstanding = r.outstanding /\ s.asked = r.asked
      /\ s.answers = r.answers /\ s \in ProbeJob
  BY <1>2 DEF ProbeJob
<1>4. \A n \in r.asked : r.work[n] = "sent"
  BY <1>1, <1>2 DEF Joined, Owes
<1>5. Owes(s)
  BY <1>1, <1>2, <1>3, <1>4 DEF Owes, Queued
<1>6. GoesOn(r, s)
  BY <1>1, <1>3 DEF GoesOn
<1> HIDE DEF s
<1> QED BY <1>1, <1>2, <1>3, <1>5, <1>6, SameWork

(* The answer at the head of the channel is taken: the job owes one less.     *)
LEMMA AnswerTaken ==
    ASSUME NEW r \in ProbeJob, Owes(r), r.queue # <<>>, r.state # "gone",
           NEW failed \in BOOLEAN, NEW cancelled \in BOOLEAN, r.cancelled => cancelled
    PROVE  LET n == Head(r.queue)[1]
               s == [r EXCEPT !.queue = Tail(r.queue), !.outstanding = r.outstanding \ {n},
                              !.answers = r.answers + 1, !.failed = failed, !.cancelled = cancelled]
           IN  s \in ProbeJob /\ Owes(s) /\ GoesOn(r, s) /\ s.work = r.work
<1> DEFINE n == Head(r.queue)[1]
           q == Tail(r.queue)
           s == [r EXCEPT !.queue = Tail(r.queue), !.outstanding = r.outstanding \ {n},
                          !.answers = r.answers + 1, !.failed = failed, !.cancelled = cancelled]
<1>1. /\ s.work = r.work /\ s.queue = q /\ s.state = r.state /\ s.target = r.target
      /\ s.cancelled = cancelled /\ s.outstanding = r.outstanding \ {n} /\ s.asked = r.asked
      /\ s.answers = r.answers + 1 /\ s \in ProbeJob
  <2>1. q \in Seq(Probed \X BOOLEAN) /\ r.outstanding \ {n} \in SUBSET Probed /\ r.answers + 1 \in Nat
    BY DEF ProbeJob
  <2> HIDE DEF q, n
  <2>2. s = [r EXCEPT !.queue = q, !.outstanding = r.outstanding \ {n}, !.answers = r.answers + 1,
                      !.failed = failed, !.cancelled = cancelled]
    BY DEF q
  <2> HIDE DEF s
  <2> QED BY <2>1, <2>2 DEF ProbeJob
<1>2. /\ r.queue \in Seq(Probed \X BOOLEAN) /\ Len(r.queue) \in Nat /\ Len(r.queue) > 0
      /\ Len(q) = Len(r.queue) - 1 /\ r.queue[1] = Head(r.queue)
      /\ \A i \in 1..Len(q) : q[i] = r.queue[i + 1]
  BY DEF ProbeJob
<1>3. n = r.queue[1][1] /\ n \in r.outstanding /\ r.asked \subseteq Probed /\ r.outstanding \subseteq r.asked
  BY <1>2 DEF Owes, ProbeJob
<1> HIDE DEF s, q, n
<1>4. s.answers = Cardinality(s.asked \ s.outstanding)
  <2>1. s.asked \ s.outstanding = (r.asked \ r.outstanding) \cup {n} /\ n \notin r.asked \ r.outstanding
    BY <1>1, <1>3
  <2>2. IsFiniteSet(r.asked \ r.outstanding)
    BY <1>3, Finite
  <2>3. Cardinality(s.asked \ s.outstanding) = Cardinality(r.asked \ r.outstanding) + 1
    BY <2>1, <2>2, FS_AddElement
  <2> QED BY <1>1, <2>3 DEF Owes
<1>5. \A i \in 1..Len(q) : q[i][1] # n /\ q[i][1] \in r.outstanding /\ r.work[q[i][1]] = "sent"
  <2> SUFFICES ASSUME NEW i \in 1..Len(q)
               PROVE  q[i][1] # n /\ q[i][1] \in r.outstanding /\ r.work[q[i][1]] = "sent"
    OBVIOUS
  <2>1. q[i] = r.queue[i + 1] /\ i + 1 \in 1..Len(r.queue) /\ 1 \in 1..Len(r.queue) /\ i + 1 # 1
    BY <1>2
  <2> QED BY <1>3, <2>1 DEF Owes
<1>6. \A i, k \in 1..Len(q) : q[i][1] = q[k][1] => i = k
  <2> SUFFICES ASSUME NEW i \in 1..Len(q), NEW k \in 1..Len(q), q[i][1] = q[k][1] PROVE i = k
    OBVIOUS
  <2>1. /\ q[i] = r.queue[i + 1] /\ i + 1 \in 1..Len(r.queue)
        /\ q[k] = r.queue[k + 1] /\ k + 1 \in 1..Len(r.queue)
    BY <1>2
  <2>2. i + 1 = k + 1
    BY <2>1 DEF Owes
  <2> QED BY <1>2, <2>2
<1>7. \A m \in s.outstanding : s.work[m] = "sent" => Queued(s, m)
  <2> SUFFICES ASSUME NEW m \in s.outstanding, s.work[m] = "sent" PROVE Queued(s, m)
    OBVIOUS
  <2>1. m \in r.outstanding /\ m # n /\ r.work[m] = "sent"
    BY <1>1
  <2>2. PICK i \in 1..Len(r.queue) : r.queue[i][1] = m
    BY <2>1 DEF Owes, Queued
  <2>3. i # 1
    BY <1>3, <2>1, <2>2
  <2>4. i - 1 \in 1..Len(q) /\ (i - 1) + 1 = i
    BY <1>2, <2>3
  <2>5. q[i - 1] = r.queue[i]
    BY <1>2, <2>4
  <2> QED BY <1>1, <2>2, <2>4, <2>5 DEF Queued
<1>8. \A m \in Probed : r.work[m] \in {"pending", "waiting", "moving"} => m # n
  <2>1. r.work[n] = "sent"
    BY <1>2, <1>3 DEF Owes
  <2> QED BY <2>1
<1>9. Owes(s)
  <2>1. \A m \in Probed : s.work[m] \in {"pending", "waiting", "moving"} => m \in s.outstanding
    BY <1>1, <1>8 DEF Owes
  <2>2. s.outstanding \subseteq s.asked /\ (s.state = "none" => s.asked = {})
    BY <1>1, <1>3 DEF Owes
  <2>3. \A i \in 1..Len(s.queue) : s.queue[i][1] \in s.outstanding /\ s.work[s.queue[i][1]] = "sent"
    BY <1>1, <1>5
  <2>4. \A i, k \in 1..Len(s.queue) : s.queue[i][1] = s.queue[k][1] => i = k
    BY <1>1, <1>6
  <2>5. s.state \in {"finished", "gone"} => \A m \in s.asked : s.work[m] = "sent"
    BY <1>1 DEF Owes
  <2> QED BY <1>1, <1>4, <1>7, <2>1, <2>2, <2>3, <2>4, <2>5 DEF Owes
<1>10. GoesOn(r, s)
  BY <1>1 DEF GoesOn
<1> QED BY <1>1, <1>9, <1>10 DEF s, n

LEMMA PollKept == ASSUME GateAlso, NEW j \in Ids, PollResult(j) PROVE GateAlso'
<1> DEFINE r == jobs[j]
           n == Head(r.queue)[1]
           s(failed, cancelled) ==
              [r EXCEPT !.queue = Tail(r.queue), !.outstanding = r.outstanding \ {n},
                        !.answers = r.answers + 1, !.failed = failed, !.cancelled = cancelled]
<1>1. r \in ProbeJob /\ Owes(r) /\ r.queue # <<>> /\ r.state # "gone" /\ UNCHANGED <<active, inexact>>
  BY DEF GateAlso, JobInvs, JobsInv, PollResult, Live
<1>2. \E failed, cancelled \in BOOLEAN :
         (r.cancelled => cancelled) /\ jobs' = [jobs EXCEPT ![j] = s(failed, cancelled)]
  <2>1. r.failed \in BOOLEAN /\ r.cancelled \in BOOLEAN
    BY <1>1 DEF ProbeJob
  <2>2. \/ jobs' = [jobs EXCEPT ![j] = s(r.failed, r.cancelled)]
        \/ jobs' = [jobs EXCEPT ![j] = s(TRUE, TRUE)]
    <3>1. [r EXCEPT !.queue = Tail(@), !.outstanding = @ \ {n}, !.answers = @ + 1] = s(r.failed, r.cancelled)
      BY <1>1 DEF ProbeJob
    <3>2. [[r EXCEPT !.queue = Tail(@), !.outstanding = @ \ {n}, !.answers = @ + 1]
             EXCEPT !.failed = TRUE, !.cancelled = TRUE] = s(TRUE, TRUE)
      BY <1>1 DEF ProbeJob
    <3> QED BY <3>1, <3>2 DEF PollResult
  <2> QED BY <2>1, <2>2
<1>3. PICK failed \in BOOLEAN, cancelled \in BOOLEAN :
         (r.cancelled => cancelled) /\ jobs' = [jobs EXCEPT ![j] = s(failed, cancelled)]
  BY <1>2
<1>4. /\ s(failed, cancelled) \in ProbeJob /\ Owes(s(failed, cancelled)) /\ GoesOn(r, s(failed, cancelled))
      /\ s(failed, cancelled).work = r.work
  BY <1>1, <1>3, AnswerTaken
<1> HIDE DEF s
<1> QED BY <1>1, <1>3, <1>4, SameWork

(* A job fails, every job is cancelled, or dropped with its store.           *)
LEMMA AllTamed ==
    ASSUME GateAlso, jobs' \in [Ids -> ProbeJob], UNCHANGED <<active, inexact>>,
           \A j \in Ids : Owes(jobs'[j]) /\ GoesOn(jobs[j], jobs'[j]) /\ jobs'[j].work = jobs[j].work
    PROVE  GateAlso'
<1>1. JobInvs'
  BY TransfersStayApart DEF GateAlso, JobInvs, JobsInv
<1>2. GateExact'
  BY GateKept DEF GateAlso
<1> QED BY <1>1, <1>2 DEF GateAlso, EvidenceIsExact

Marked(r, s) ==
    /\ s \in ProbeJob /\ s.work = r.work /\ s.queue = r.queue /\ s.target = r.target
    /\ s.outstanding = r.outstanding /\ s.asked = r.asked /\ s.answers = r.answers
    /\ r.cancelled => s.cancelled
    /\ s.state \in {r.state, "dropped"} /\ (r.state = "none" => s.state = "none")
LEMMA MarkedOwes ==
    ASSUME NEW r \in ProbeJob, Owes(r), NEW s, Marked(r, s)
    PROVE  s \in ProbeJob /\ Owes(s) /\ GoesOn(r, s) /\ s.work = r.work
<1>1. Owes(s)
  BY DEF Marked, Owes, Queued
<1>2. GoesOn(r, s)
  BY DEF Marked, GoesOn
<1> QED BY <1>1, <1>2 DEF Marked

LEMMA CancelAllKept ==
    ASSUME GateAlso, jobs' = CancelAll, UNCHANGED <<active, inexact>> PROVE GateAlso'
<1>1. ASSUME NEW j \in Ids
      PROVE  /\ jobs'[j] \in ProbeJob /\ Owes(jobs'[j]) /\ GoesOn(jobs[j], jobs'[j])
             /\ jobs'[j].work = jobs[j].work
  <2>1. jobs[j] \in ProbeJob /\ Owes(jobs[j])
    BY DEF GateAlso, JobInvs, JobsInv
  <2>2. jobs'[j] = [jobs[j] EXCEPT !.cancelled = jobs[j].cancelled \/ Live(j)]
    BY DEF CancelAll
  <2>3. (jobs[j].cancelled \/ Live(j)) \in BOOLEAN
    BY <2>1, Zenon DEF ProbeJob, Live
  <2>4. Marked(jobs[j], jobs'[j])
    BY <2>1, <2>2, <2>3 DEF Marked, ProbeJob
  <2> QED BY <2>1, <2>4, MarkedOwes
<1>2. jobs' \in [Ids -> ProbeJob]
  BY <1>1 DEF CancelAll
<1> QED BY <1>1, <1>2, AllTamed

LEMMA InstallKept == ASSUME GateAlso, Install PROVE GateAlso'
<1>1. UNCHANGED <<active, inexact>>
  BY DEF Install
<1>2. ASSUME NEW j \in Ids
      PROVE  /\ jobs'[j] \in ProbeJob /\ Owes(jobs'[j]) /\ GoesOn(jobs[j], jobs'[j])
             /\ jobs'[j].work = jobs[j].work
  <2>1. jobs[j] \in ProbeJob /\ Owes(jobs[j])
    BY DEF GateAlso, JobInvs, JobsInv
  <2>2. CASE Live(j)
    <3>1. jobs'[j] = [jobs[j] EXCEPT !.state = "dropped"] /\ jobs[j].state # "none"
      BY <2>2 DEF Install, Live
    <3>2. Marked(jobs[j], jobs'[j])
      BY <2>1, <3>1 DEF Marked, ProbeJob
    <3> QED BY <2>1, <3>2, MarkedOwes
  <2>3. CASE ~Live(j)
    <3>1. jobs'[j] = jobs[j]
      BY <2>1, <2>3 DEF Install, ProbeJob
    <3> QED BY <2>1, <3>1 DEF GoesOn
  <2> QED BY <2>2, <2>3
<1>3. jobs' \in [Ids -> ProbeJob]
  BY <1>2 DEF Install
<1> QED BY <1>1, <1>2, <1>3, AllTamed

LEMMA LeaseKept ==
    ASSUME GateAlso, NEW u, u.job \in Ids, LeaseFails(u)
    PROVE  GateAlso'
<1> DEFINE j == u.job
<1>1. ASSUME NEW i \in Ids
      PROVE  /\ jobs'[i] \in ProbeJob /\ Owes(jobs'[i]) /\ GoesOn(jobs[i], jobs'[i])
             /\ jobs'[i].work = jobs[i].work
  <2>1. jobs[i] \in ProbeJob /\ Owes(jobs[i])
    BY DEF GateAlso, JobInvs, JobsInv
  <2>2. jobs'[i] \in {jobs[i], [jobs[i] EXCEPT !.failed = TRUE, !.cancelled = TRUE]}
    BY DEF LeaseFails, GateAlso, JobInvs
  <2>3. Marked(jobs[i], jobs'[i])
    BY <2>1, <2>2 DEF Marked, ProbeJob
  <2> QED BY <2>1, <2>3, MarkedOwes
<1>2. jobs' \in [Ids -> ProbeJob] /\ UNCHANGED <<active, inexact>>
  BY <1>1 DEF LeaseFails, GateAlso, JobInvs
<1> QED BY <1>1, <1>2, AllTamed

(* Every step keeps the jobs in order.                                       *)
LEMMA JobsKept == ASSUME GateAlso, SusTypes, SusNext PROVE GateAlso'
<1>1. ASSUME NEW j \in Ids, JobStep(j) PROVE GateAlso'
  BY <1>1, StartKept, TakeKept, AcquireKept, TransferKept, FinishKept, PollKept DEF JobStep
<1>2. CASE (\E t \in Targets : ChangeTarget(t)) \/ CancelProbes \/ Uninstall
  BY <1>2, CancelAllKept DEF ChangeTarget, CancelProbes, Uninstall
<1>3. CASE UNCHANGED probeVars
  BY <1>3 DEF probeVars, GateAlso, JobInvs, JobsInv, NoDoubleTransfer, Live, GateExact, Moving, EvidenceIsExact
<1>4. ASSUME NEW u \in unshown, LeaseFails(u) PROVE GateAlso'
  BY <1>4, LeaseKept DEF SusTypes, Unshown
<1> QED BY <1>1, <1>2, <1>3, <1>4, InstallKept DEF SusNext, ShowResult, ReconcileNodes, BeginReload, ReadFacts,
        AbandonReload, MarkObserved, StartStreaming, StreamingResult, BackgroundFact

-----------------------------------------------------------------------------
(* The table and the database.                                               *)
ViewTypes ==
    /\ target \in Targets /\ dbGen \in Nat /\ mine \in Nat /\ stored \in [Probed -> [Targets -> Nat]]
    /\ table \in [Probed -> [of : Targets, upto : Nat]]
    /\ version \in Nat /\ observed \in Nat
    /\ reload \in [at : {"no", "version", "facts"}, seen : Nat]
    /\ \A u \in unshown : u \in Unshown /\ unshown = {u}
ViewAlso == ViewTypes /\ ViewInv

(* The table is read from the database.                                      *)
LEMMA TableRead ==
    ASSUME ViewTypes, NEW t \in Targets, target' = t, table' = Projected(t), UNCHANGED stored
    PROVE  /\ table' \in [Probed -> [of : Targets, upto : Nat]] /\ Fresh'
           /\ \A n \in Probed : table'[n].of = target'
BY DEF ViewTypes, Projected, Fresh
(* ... or could not be read.                                                 *)
LEMMA TableEmpty ==
    ASSUME ViewTypes, UNCHANGED target, unread' = Probed,
           table' = [n \in Probed |-> [of |-> target, upto |-> 0]]
    PROVE  /\ table' \in [Probed -> [of : Targets, upto : Nat]] /\ Fresh'
           /\ \A n \in Probed : table'[n].of = target'
BY DEF ViewTypes, Fresh, Lacking

(* A fact of the target t is stored, and shown if t is the active one.       *)
LEMMA FactStored ==
    ASSUME ViewTypes, NEW n \in Probed, NEW t \in Targets, stored' = Stored(n, t), UNCHANGED target
    PROVE  /\ stored' \in [Probed -> [Targets -> Nat]]
           /\ \A m \in Probed : (m # n \/ t # target) => stored'[m][target] = stored[m][target]
           /\ stored'[n][t] \in Nat
BY DEF ViewTypes, Stored
(* A row of the table is brought up to date.                                 *)
LEMMA RowShown ==
    ASSUME ViewAlso, NEW n \in Probed, stored' \in [Probed -> [Targets -> Nat]], UNCHANGED target,
           table' = [table EXCEPT ![n] = [of |-> target, upto |-> stored'[n][target]]],
           \A m \in Probed : m # n => /\ stored'[m][target] = stored[m][target]
                                      /\ m \in Lacking => m \in Lacking'
    PROVE  /\ table' \in [Probed -> [of : Targets, upto : Nat]] /\ (Fresh => Fresh')
           /\ \A m \in Probed : table'[m].of = target'
<1>1. ViewTypes /\ target \in Targets /\ stored'[n][target] \in Nat
  BY DEF ViewAlso, ViewTypes
<1>2. /\ table'[n] = [of |-> target, upto |-> stored'[n][target]]
      /\ \A m \in Probed : m # n => table'[m] = table[m]
  BY <1>1 DEF ViewTypes
<1> QED BY <1>1, <1>2 DEF ViewAlso, ViewTypes, ViewInv, Fresh

(* A node is left out of the table.                                          *)
LEMMA RowLacks ==
    ASSUME ViewAlso, NEW n \in Probed, UNCHANGED <<target, table>>, n \in Lacking',
           \A m \in Probed : m # n => /\ stored'[m][target] = stored[m][target]
                                      /\ m \in Lacking => m \in Lacking'
    PROVE  (Fresh => Fresh') /\ \A m \in Probed : table'[m].of = target'
BY DEF ViewAlso, ViewInv, Fresh

(* Nothing of table and database changes.                                    *)
LEMMA ViewStays == ASSUME ViewAlso, UNCHANGED <<dataVars, viewVars>> PROVE ViewAlso'
BY DEF ViewAlso, ViewTypes, ViewInv, Fresh, Lacking, dataVars, viewVars

(* A result is committed: until it is shown its node lacks it.               *)
LEMMA PollViews == ASSUME ViewAlso, jobs \in [Ids -> ProbeJob], NEW j \in Ids, PollResult(j) PROVE ViewAlso'
<1> DEFINE n == Head(jobs[j].queue)[1]
           told == Head(jobs[j].queue)[2]
           t == jobs[j].target
           u == [job |-> j, node |-> n, of |-> t, show |-> Shows(j, told)]
<1>1. n \in Probed /\ told \in BOOLEAN /\ t \in Targets
  <2>1. jobs[j].queue \in Seq(Probed \X BOOLEAN) /\ jobs[j].queue # <<>> /\ t \in Targets
    BY DEF ProbeJob, PollResult
  <2>2. Head(jobs[j].queue) \in Probed \X BOOLEAN
    BY <2>1
  <2> QED BY <2>1, <2>2
<1>2. /\ UNCHANGED <<dbGen, mine, version, target, table, observed, reload, unread>>
      /\ reload.at = "no" /\ mine # 0 /\ unshown = {}
      /\ \/ UNCHANGED <<stored, unshown>>
         \/ stored' = (IF told THEN Stored(n, t) ELSE stored) /\ unshown' = {u}
  BY DEF PollResult, NoReload
<1>3. CASE UNCHANGED <<stored, unshown>>
  BY <1>2, <1>3 DEF ViewAlso, ViewTypes, ViewInv, Fresh, Lacking
<1>4. CASE stored' = (IF told THEN Stored(n, t) ELSE stored) /\ unshown' = {u}
  <2>1. u.node = n /\ u.of = t /\ (u.show <=> told /\ t = target) /\ u \in Unshown
    <3>1. Shows(j, told) \in BOOLEAN /\ (Shows(j, told) <=> told /\ t = target)
      BY <1>1, Zenon DEF Shows
    <3>2. PICK show \in BOOLEAN : show = Shows(j, told)
      BY <3>1
    <3> QED BY <1>1, <3>1, <3>2 DEF Unshown
  <2> HIDE DEF u, n, told, t
  <2>2. /\ stored' \in [Probed -> [Targets -> Nat]]
        /\ \A m \in Probed : m # n \/ ~told \/ t # target => stored'[m][target] = stored[m][target]
    <3>1. CASE told
      BY <1>1, <1>2, <1>4, <3>1, FactStored DEF ViewAlso
    <3>2. CASE ~told
      BY <1>4, <3>2 DEF ViewAlso, ViewTypes
    <3> QED BY <3>1, <3>2
  <2>3. (Fresh => Fresh') /\ \A m \in Probed : table'[m].of = target'
    <3>1. \A m : m \in Lacking => m \in Lacking'
      BY <1>2 DEF Lacking
    <3>2. CASE u.show
      <4>1. n \in Lacking'
        BY <1>4, <2>1, <3>2 DEF Lacking
      <4> QED BY <1>1, <1>2, <2>2, <3>1, <4>1, RowLacks
    <3>3. CASE ~u.show
      BY <1>2, <2>1, <2>2, <3>1, <3>3 DEF ViewAlso, ViewInv, Fresh
    <3> QED BY <3>2, <3>3
  <2>4. \A v \in unshown' : v \in Unshown /\ unshown' = {v} /\ (v.show => v.of = target)
    BY <1>4, <2>1
  <2>5. ViewTypes'
    BY <1>2, <2>2, <2>4 DEF ViewAlso, ViewTypes
  <2>6. ViewTypes /\ ViewInv
    BY DEF ViewAlso
  <2>7. ViewInv'
    BY <1>2, <2>3, <2>4, <2>6 DEF ViewTypes, ViewInv
  <2> QED BY <2>5, <2>7 DEF ViewAlso
<1> QED BY <1>2, <1>3, <1>4

(* ... which it is, or the lease fails.                                      *)
LEMMA ShowViews ==
    ASSUME ViewAlso, NEW u \in unshown, ShowResult(u) \/ LeaseFails(u)
    PROVE  ViewAlso'
<1>1. /\ unshown = {u} /\ unshown' = {} /\ reload.at = "no" /\ u \in Unshown
      /\ u.node \in Probed /\ u.of \in Targets /\ (u.show => u.of = target)
      /\ UNCHANGED <<dbGen, mine, stored, version, target, observed, reload>>
  BY DEF ShowResult, LeaseFails, ViewAlso, ViewTypes, ViewInv, probeVars, dataVars, Unshown
<1>2. (u.show => Lacking = unread \cup {u.node}) /\ (~u.show => Lacking = unread) /\ Lacking' = unread'
  BY <1>1 DEF Lacking
<1>3. ViewTypes /\ ViewInv
  BY DEF ViewAlso
<1>4. /\ table' \in [Probed -> [of : Targets, upto : Nat]]
      /\ Fresh => Fresh'
      /\ \A m \in Probed : table'[m].of = target'
  <2>1. CASE ShowResult(u) /\ u.show
    <3>1. /\ table' = [table EXCEPT ![u.node] = [of |-> target, upto |-> stored'[u.node][target]]]
          /\ unread' = unread \ {u.node}
      BY <1>1, <2>1 DEF ShowResult
    <3>2. \A m \in Probed : (m # u.node /\ m \in Lacking) => m \in Lacking'
      BY <1>2, <2>1, <3>1
    <3> QED BY <1>1, <1>3, <3>1, <3>2, RowShown DEF ViewTypes
  <2>2. CASE LeaseFails(u) /\ u.show
    <3>1. UNCHANGED table /\ unread' = unread \cup {u.node}
      BY <2>2 DEF LeaseFails
    <3>2. u.node \in Lacking' /\ \A m : m \in Lacking => m \in Lacking'
      BY <1>2, <2>2, <3>1
    <3> QED BY <1>1, <1>3, <3>1, <3>2, RowLacks DEF ViewTypes
  <2>3. CASE ~u.show
    <3>1. UNCHANGED <<table, unread>>
      BY <2>3 DEF ShowResult, LeaseFails
    <3> QED BY <1>1, <1>2, <1>3, <2>3, <3>1 DEF ViewTypes, ViewInv, Fresh
  <2> QED BY <2>1, <2>2, <2>3
<1>5. ViewTypes'
  BY <1>1, <1>3, <1>4 DEF ViewTypes
<1>6. ViewInv'
  BY <1>1, <1>3, <1>4 DEF ViewTypes, ViewInv
<1> QED BY <1>5, <1>6 DEF ViewAlso

(* The target changes, or a store is installed.                              *)
LEMMA ChangeViews == ASSUME ViewAlso, NEW t \in Targets, ChangeTarget(t) PROVE ViewAlso'
<1>1. /\ target' = t /\ table' = Projected(t) /\ UNCHANGED <<dbGen, mine, stored, version, observed, reload>>
      /\ reload.at = "no" /\ unshown = {} /\ unshown' = {}
  BY DEF ChangeTarget, dataVars, NoReload
<1>2. /\ table' \in [Probed -> [of : Targets, upto : Nat]] /\ Fresh'
      /\ \A n \in Probed : table'[n].of = target'
  BY <1>1, TableRead DEF ViewAlso
<1> QED BY <1>1, <1>2 DEF ViewAlso, ViewTypes, ViewInv

LEMMA InstallViews == ASSUME ViewAlso, Uninstall \/ Install PROVE ViewAlso'
<1>1. CASE Uninstall
  BY <1>1 DEF Uninstall, ViewAlso, ViewTypes, ViewInv, Fresh, Lacking, viewVars, NoReload
<1>2. CASE Install
  <2>1. /\ mine = 0 /\ mine' = dbGen /\ observed' = version
        /\ UNCHANGED <<dbGen, stored, version, target, reload, unshown>>
    BY <1>2 DEF Install
  <2>2. /\ table' \in [Probed -> [of : Targets, upto : Nat]] /\ Fresh'
        /\ \A n \in Probed : table'[n].of = target'
    BY <1>2, <2>1, TableRead, TableEmpty DEF Install, ViewAlso, ViewTypes
  <2> QED BY <2>1, <2>2 DEF ViewAlso, ViewTypes, ViewInv
<1> QED BY <1>1, <1>2

(* Others write: the version moves on.                                       *)
LEMMA OthersWrite ==
    ASSUME ViewAlso,
           ReconcileNodes \/ \E n \in Probed, t \in Targets : BackgroundFact(n, t)
    PROVE  ViewAlso'
<1>1. CASE ReconcileNodes
  <2>1. /\ dbGen' = dbGen + 1 /\ version' = version + 1 /\ reload.at # "facts"
        /\ stored' = [n \in Probed |-> [t \in Targets |-> 0]]
        /\ UNCHANGED <<mine, target, table, observed, reload, unshown>>
    BY <1>1 DEF ReconcileNodes
  <2>2. stored' \in [Probed -> [Targets -> Nat]]
    BY <2>1
  <2> QED BY <2>1, <2>2 DEF ViewAlso, ViewTypes, ViewInv
<1>2. CASE \E n \in Probed, t \in Targets : BackgroundFact(n, t)
  <2>1. PICK n \in Probed, t \in Targets : BackgroundFact(n, t)
    BY <1>2
  <2>2. /\ stored' = Stored(n, t) /\ version' = version + 1
        /\ UNCHANGED <<dbGen, mine, target, table, observed, reload, unshown>>
    BY <2>1 DEF BackgroundFact, viewVars
  <2>3. stored' \in [Probed -> [Targets -> Nat]]
    BY <2>2, FactStored DEF ViewAlso
  <2> QED BY <2>2, <2>3 DEF ViewAlso, ViewTypes, ViewInv
<1> QED BY <1>1, <1>2

(* The table is reloaded: the version first, then the facts.                 *)
LEMMA ReloadViews ==
    ASSUME ViewAlso, BeginReload \/ ReadFacts \/ AbandonReload \/ MarkObserved PROVE ViewAlso'
<1>1. CASE BeginReload
  <2>1. /\ mine = dbGen /\ version # observed /\ reload.at = "no" /\ unshown = {}
        /\ reload' = [at |-> "version", seen |-> version]
        /\ UNCHANGED <<dbGen, mine, stored, version, target, table, observed, unshown, unread>>
    BY <1>1 DEF BeginReload, dataVars, NoReload
  <2>2. Fresh' <=> Fresh
    BY <2>1 DEF Fresh, Lacking
  <2> QED BY <2>1, <2>2 DEF ViewAlso, ViewTypes, ViewInv
<1>2. CASE ReadFacts
  <2>1. /\ reload.at = "version" /\ mine = dbGen /\ table' = Projected(target)
        /\ reload' = [reload EXCEPT !.at = "facts"]
        /\ UNCHANGED <<dbGen, mine, stored, version, target, observed, unshown>>
    BY <1>2 DEF ReadFacts, dataVars
  <2>2. /\ table' \in [Probed -> [of : Targets, upto : Nat]] /\ Fresh'
        /\ \A n \in Probed : table'[n].of = target'
    BY <2>1, TableRead DEF ViewAlso, ViewTypes
  <2>3. reload'.at = "facts" /\ reload'.seen = reload.seen /\ reload' \in [at : {"no", "version", "facts"}, seen : Nat]
    BY <2>1 DEF ViewAlso, ViewTypes
  <2> QED BY <2>1, <2>2, <2>3 DEF ViewAlso, ViewTypes, ViewInv
<1>3. CASE AbandonReload
  BY <1>3 DEF AbandonReload, ViewAlso, ViewTypes, ViewInv, Fresh, Lacking, dataVars
<1>4. CASE MarkObserved
  BY <1>4 DEF MarkObserved, Seen, ViewAlso, ViewTypes, ViewInv, Fresh, Lacking, dataVars
<1> QED BY <1>1, <1>2, <1>3, <1>4

LEMMA StreamingViews == ASSUME ViewAlso, NEW n \in Probed, StreamingResult(n) PROVE ViewAlso'
<1>1. /\ stored' = Stored(n, target) /\ reload.at = "no" /\ unshown = {}
      /\ UNCHANGED <<dbGen, mine, version, target, observed, reload, unshown>>
  BY DEF StreamingResult, NoReload
<1>2. target \in Targets /\ ViewTypes /\ ViewInv
  BY DEF ViewAlso, ViewTypes
<1>3. /\ stored' \in [Probed -> [Targets -> Nat]]
      /\ \A m \in Probed : m # n => stored'[m][target] = stored[m][target]
  BY <1>1, <1>2, FactStored
<1>4. /\ table' \in [Probed -> [of : Targets, upto : Nat]] /\ (Fresh => Fresh')
      /\ \A m \in Probed : table'[m].of = target'
  <2>1. CASE /\ table' = [table EXCEPT ![n] = [of |-> target, upto |-> stored'[n][target]]]
             /\ unread' = unread \ {n}
    <3>1. \A m \in Probed : (m # n /\ m \in Lacking) => m \in Lacking'
      BY <1>1, <2>1 DEF Lacking
    <3> QED BY <1>1, <1>3, <2>1, <3>1, RowShown
  <2>2. CASE UNCHANGED table /\ unread' = unread \cup {n}
    <3>1. n \in Lacking' /\ \A m \in Probed : (m # n /\ m \in Lacking) => m \in Lacking'
      BY <1>1, <2>2 DEF Lacking
    <3> QED BY <1>1, <1>2, <1>3, <2>2, <3>1, RowLacks DEF ViewTypes
  <2> QED BY <2>1, <2>2 DEF StreamingResult
<1> QED BY <1>1, <1>2, <1>3, <1>4 DEF ViewAlso, ViewTypes, ViewInv

LEMMA ViewKept == ASSUME ViewAlso, jobs \in [Ids -> ProbeJob], SusNext PROVE ViewAlso'
<1>1. ASSUME NEW j \in Ids, JobStep(j) PROVE ViewAlso'
  <2>1. PollResult(j) \/ UNCHANGED <<dataVars, viewVars>>
    BY <1>1 DEF JobStep, Start, Take, Acquire, GiveUp, Transfer, SayFinished, PollEnd, dataVars, viewVars
  <2> QED BY <2>1, PollViews, ViewStays
<1>2. CASE CancelProbes
  BY <1>2, ViewStays DEF CancelProbes
<1>3. CASE StartStreaming
  BY <1>3 DEF StartStreaming, ViewAlso, ViewTypes, ViewInv, Fresh, Lacking, dataVars
<1> QED BY <1>1, <1>2, <1>3, ShowViews, ChangeViews, InstallViews, OthersWrite, ReloadViews, StreamingViews DEF SusNext

-----------------------------------------------------------------------------
(* The invariant of sustained probes is inductive.                           *)
LEMMA SusParts == SusInv <=> SusTypes /\ GateAlso /\ ViewAlso
BY DEF SusInv, SusTypes, GateAlso, JobInvs, ViewAlso, ViewTypes

LEMMA SusStarts == ASSUME SusInit PROVE SusInv
<1>1. target \in Targets
  BY SustainedAssumption DEF SusInit
<1>2. ASSUME NEW j \in Ids PROVE jobs[j] \in ProbeJob /\ Owes(jobs[j]) /\ jobs[j].state = "none"
                                 /\ \A n \in Probed : jobs[j].work[n] = "none"
  <2>1. jobs[j] = Unborn /\ Unborn \in ProbeJob
    BY <1>1 DEF SusInit, Unborn, ProbeJob
  <2>2. Cardinality({} \ {}) = 0
    <3>1. {} \ {} = {}
      OBVIOUS
    <3> QED BY <3>1, FS_EmptySet
  <2>3. Owes(Unborn)
    BY <2>2 DEF Owes, Queued, Unborn
  <2> QED BY <2>1, <2>3 DEF Unborn
<1>3. jobs \in [Ids -> ProbeJob] /\ JobsInv /\ NoDoubleTransfer
  BY <1>2 DEF SusInit, JobsInv, NoDoubleTransfer, Live
<1>4. GateExact
  <2>1. Moving = {}
    BY <1>2 DEF Moving
  <2> QED BY <2>1, FS_EmptySet, SustainedAssumption DEF GateExact, SusInit
<1>5. table \in [Probed -> [of : Targets, upto : Nat]] /\ Fresh /\ stored \in [Probed -> [Targets -> Nat]]
      /\ \A n \in Probed : table[n].of = target
  BY <1>1 DEF SusInit, Projected, Fresh
<1> QED BY <1>1, <1>3, <1>4, <1>5 DEF SusInit, SusInv, SusTypes, ViewInv, EvidenceIsExact

(* What each job owes, what the gate counts and what the table knows of the  *)
(* database, for any number of nodes, targets, jobs, cancels, changes of     *)
(* target and commits of others (spawn_sustained_probe_worker, poll,         *)
(* reload_persisted_quality_projection).                                     *)
THEOREM SustainedInvariant == SusSpec => []SusInv
<1>1. SusInit => SusInv
  BY SusStarts
<1>2. SusInv /\ [SusNext]_susVars => SusInv'
  <2>1. ASSUME SusInv, SusNext PROVE SusInv'
    <3>1. SusTypes /\ GateAlso /\ ViewAlso /\ jobs \in [Ids -> ProbeJob]
      BY <2>1, SusParts DEF SusTypes
    <3>2. GateAlso' /\ ViewAlso'
      BY <2>1, <3>1, JobsKept, ViewKept
    <3>3. SusTypes'
      BY <3>2 DEF SusTypes, GateAlso, JobInvs, ViewAlso, ViewTypes
    <3> QED BY <3>2, <3>3 DEF SusInv, GateAlso, JobInvs, ViewAlso
  <2>2. ASSUME SusInv, UNCHANGED susVars PROVE SusInv'
    BY <2>2 DEF SusInv, SusTypes, JobsInv, NoDoubleTransfer, Live, GateExact, Moving, EvidenceIsExact,
       ViewInv, Fresh, Lacking, susVars, probeVars, dataVars, viewVars
  <2> QED BY <2>1, <2>2
<1> QED BY <1>1, <1>2, PTL DEF SusSpec

(* The gate counts the transfers and holds its limit, a job that ended has   *)
(* one answer for each node it was asked about, no node is measured twice at *)
(* a time for one target, only exact responses are completed transfers, and  *)
(* the table is of the active target and misses no observed commit           *)
(* (ConcurrencyGate, spawn_sustained_probe_worker, start_sustained,          *)
(* read_expected_payload, poll, reload_persisted_quality_projection).        *)
THEOREM SustainedProbesAreSound == SusSpec => []SustainedSound
<1>1. SusInv => SustainedSound
  <2> SUFFICES ASSUME SusInv PROVE AnsweredOnce /\ ShownIsCurrent /\ NothingMissed
    BY DEF SusInv, SustainedSound
  <2>1. ASSUME NEW j \in Ids, jobs[j].state = "gone"
        PROVE  jobs[j].outstanding = {} /\ jobs[j].answers = Cardinality(jobs[j].asked)
    <3>1. jobs[j] \in ProbeJob /\ Owes(jobs[j])
      BY DEF SusInv, SusTypes, JobsInv
    <3>2. jobs[j].outstanding = {}
      BY <2>1, <3>1 DEF Owes, Queued
    <3>3. jobs[j].asked \ jobs[j].outstanding = jobs[j].asked
      BY <3>2
    <3> QED BY <3>1, <3>2, <3>3 DEF Owes
  <2>2. AnsweredOnce
    BY <2>1 DEF AnsweredOnce
  <2>3. ShownIsCurrent
    BY DEF SusInv, ViewInv, ShownIsCurrent
  <2>4. NothingMissed
    <3> SUFFICES ASSUME mine = dbGen, observed = version, unshown = {}, NEW n \in Probed \ unread
                 PROVE  table[n] = Projected(target)[n]
      BY DEF NothingMissed, NoReload
    <3>1. table[n] = [of |-> target, upto |-> stored[n][target]]
      BY DEF SusInv, SusTypes, ViewInv, Fresh, Lacking
    <3> QED BY <3>1 DEF Projected
  <2> QED BY <2>2, <2>3, <2>4
<1> QED BY <1>1, SustainedInvariant, PTL

------------------------------------------------------------------------------
(* The built-in probes: what the counts and the verdicts are while a         *)
(* candidate is tested.                                                      *)
Reasons == UNION {Succeeded, Blamed, {"none", "prefilter"}}
TurnInv ==
    /\ doing \in {"start", "next", "test", "judge", "done"} /\ turn \in 1..(Total + 1)
    /\ verdicts \in [Candidates -> {"none", "usable", "rejected"}] /\ why \in [Candidates -> Reasons]
    /\ builtin \in BuiltinKinds /\ truth \in [Candidates -> Causes \cup {"none"}]
    /\ doing = "judge" => truth[turn] \in Causes /\ ending \in Signals(truth[turn])
    /\ doing \in {"test", "judge"} => turn <= Total /\ proxied = turn
    /\ logs # 0 => doing = "judge"
    /\ event # "none" <=> doing = "done"
    /\ doing = "done" => ~runtimeUp
    /\ event = "complete" => turn = Total + 1
Deserved(cause, signal) == cause = "node" \/ (cause = "runtime" /\ signal \in LooksLikeNode)
VerdictInv ==
    \A n \in Candidates :
        /\ n < turn <=> verdicts[n] # "none"
        /\ verdicts[n] = "none" <=> why[n] = "none"
        /\ verdicts[n] = "rejected" => why[n] = "prefilter" \/ Deserved(truth[n], why[n])
        /\ verdicts[n] = "usable" => truth[n] = "worked"
Usables == {n \in Tested : verdicts[n] = "usable"}
CountInv ==
    /\ stageTwo \in [total : Nat, completed : Nat, accepted : Nat]
    /\ stageTwo.completed = Cardinality(Tested) /\ stageTwo.accepted = Cardinality(Usables)
    /\ stageTwo.completed <= stageTwo.total /\ stageTwo.total <= turn
    /\ doing \in {"start", "next"} => stageTwo.total < turn
    /\ doing \in {"test", "judge"} => stageTwo.completed < stageTwo.total
BuiltinInv == TurnInv /\ VerdictInv /\ CountInv

LEMMA TestedAreFinite == IsFiniteSet(Tested) /\ Cardinality(Tested) \in Nat
<1>1. Total \in Nat
  BY BuiltinAssumption
<1>2. IsFiniteSet(Candidates)
  BY <1>1, FS_Interval DEF Candidates
<1>3. Tested \subseteq Candidates
  BY DEF Tested
<1> QED BY <1>2, <1>3, FS_Subset, FS_CardinalityType

LEMMA UsablesAreTested ==
    IsFiniteSet(Usables) /\ Cardinality(Usables) \in Nat /\ Cardinality(Usables) <= Cardinality(Tested)
<1>1. Usables \subseteq Tested
  BY DEF Usables
<1> QED BY <1>1, TestedAreFinite, FS_Subset, FS_CardinalityType

(* What a cause lets the code see: success only if it worked, and what the   *)
(* node is blamed for only if it, or a runtime that looks like it, failed.   *)
LEMMA SignalsTell ==
    ASSUME builtin \in BuiltinKinds, NEW cause \in Causes, NEW signal \in Signals(cause)
    PROVE  /\ signal \in Succeeded => cause = "worked"
           /\ signal \in Blamed => Deserved(cause, signal)
<1>1. CASE builtin = "streaming"
  <2>1. signal \in Streaming(cause)
    BY <1>1 DEF Signals
  <2> QED BY <2>1 DEF Streaming, Causes, Succeeded, Blamed, Deserved, LooksLikeNode
<1>2. CASE builtin = "github"
  <2>1. signal \in Github(cause)
    BY <1>2 DEF Signals
  <2> QED BY <2>1 DEF Github, Causes, Succeeded, Blamed, Deserved, LooksLikeNode
<1>3. CASE builtin = "agy"
  <2>1. signal \in Agy(cause)
    BY <1>3 DEF Signals
  <2>2. CASE cause = "other" /\ signal = "log setup failed"
    BY <2>2 DEF Succeeded, Blamed
  <2>3. ASSUME NEW exit \in Exits(cause), NEW said \in Says(cause), signal = Classified(exit, said)
        PROVE  /\ signal = "success" => exit = "success"
               /\ signal \in Blamed => said = "location"
               /\ signal \notin {"completed", "banner"}
    BY <2>3 DEF Classified, Exits, Says, Causes, Blamed
  <2>4. ASSUME NEW exit \in Exits(cause), NEW said \in Says(cause), signal = Classified(exit, said)
        PROVE  /\ signal \in Succeeded => cause = "worked"
               /\ signal \in Blamed => Deserved(cause, signal)
    BY <2>3, <2>4 DEF Exits, Says, Causes, Succeeded, Deserved
  <2> QED BY <2>1, <2>2, <2>4 DEF Agy
<1> QED BY <1>1, <1>2, <1>3 DEF BuiltinKinds

(* Nothing that counts changes.                                              *)
LEMMA CountsStay ==
    ASSUME BuiltinInv, UNCHANGED <<verdicts, why, stageTwo, turn, truth>>, TurnInv',
           doing' \in {"start", "next"} => doing \in {"start", "next"},
           doing' \in {"test", "judge"} => doing \in {"test", "judge"}
    PROVE  BuiltinInv'
<1>1. Tested' = Tested /\ Usables' = Usables
  BY DEF Tested, Usables
<1> QED BY <1>1 DEF BuiltinInv, VerdictInv, CountInv

LEMMA ScanKept == ASSUME BuiltinInv, Scan PROVE BuiltinInv'
<1>1. Total \in Nat /\ turn \in 1..Total /\ doing = "next" /\ turn \in Candidates /\ turn + 1 \in 1..(Total + 1)
  BY BuiltinAssumption DEF Scan, BuiltinInv, TurnInv, Candidates
<1>2. CASE Finish(FALSE) /\ UNCHANGED <<turn, verdicts, why, stageTwo>>
  <2>1. TurnInv'
    BY <1>1, <1>2 DEF Scan, Finish, BuiltinInv, TurnInv
  <2> QED BY <1>2, <2>1, CountsStay DEF Finish, Scan
<1>3. CASE /\ Settle(turn, "rejected", "prefilter") /\ turn' = turn + 1 /\ proxied' = 0
           /\ UNCHANGED <<doing, stageTwo, runtimeUp, event>>
  <2>1. /\ verdicts' = [verdicts EXCEPT ![turn] = "rejected"] /\ why' = [why EXCEPT ![turn] = "prefilter"]
        /\ logs' = logs /\ truth' = truth /\ builtin' = builtin
    BY <1>3 DEF Settle, Scan
  <2>2. why[turn] = "none"
    BY <1>1 DEF BuiltinInv, VerdictInv
  <2>3. TurnInv'
    BY <1>1, <1>3, <2>1 DEF BuiltinInv, TurnInv, Reasons, Signals
  <2>4. VerdictInv'
    BY <1>1, <1>3, <2>1 DEF BuiltinInv, TurnInv, VerdictInv, Candidates
  <2>5. Tested' = Tested /\ Usables' = Usables
    BY <1>1, <2>1, <2>2 DEF Tested, Usables, BuiltinInv, TurnInv
  <2>6. CountInv'
    BY <1>1, <1>3, <2>5 DEF BuiltinInv, CountInv
  <2> QED BY <2>3, <2>4, <2>6 DEF BuiltinInv
<1>4. CASE /\ proxied' = turn /\ stageTwo' = [stageTwo EXCEPT !.total = @ + 1] /\ doing' = "test"
           /\ UNCHANGED <<turn, verdicts, why, runtimeUp, event>>
  <2>1. TurnInv'
    BY <1>1, <1>4 DEF Scan, BuiltinInv, TurnInv
  <2>2. Tested' = Tested /\ Usables' = Usables
    BY <1>4 DEF Tested, Usables
  <2>3. VerdictInv' /\ CountInv'
    BY <1>1, <1>4, <2>2 DEF Scan, BuiltinInv, VerdictInv, CountInv
  <2> QED BY <2>1, <2>3 DEF BuiltinInv
<1> QED BY <1>2, <1>3, <1>4 DEF Scan

LEMMA JudgeKept == ASSUME BuiltinInv, Judge PROVE BuiltinInv'
<1>1. /\ Total \in Nat /\ turn \in 1..Total /\ doing = "judge" /\ turn \in Candidates
      /\ proxied = turn /\ turn + 1 \in 1..(Total + 1) /\ logs' = 0 /\ UNCHANGED <<builtin, truth>>
  BY BuiltinAssumption DEF Judge, BuiltinInv, TurnInv, Candidates
<1>2. CASE Finish(FALSE) /\ UNCHANGED <<turn, verdicts, why, stageTwo>>
  <2>1. TurnInv'
    BY <1>1, <1>2 DEF Finish, BuiltinInv, TurnInv
  <2> QED BY <1>1, <1>2, <2>1, CountsStay DEF Finish
<1>3. CASE ending \in Succeeded \cup Blamed
  <2> DEFINE usable == ending \in Succeeded
             verdict == IF usable THEN "usable" ELSE "rejected"
  <2>1. /\ verdicts' = [verdicts EXCEPT ![turn] = verdict] /\ why' = [why EXCEPT ![turn] = ending]
        /\ turn' = turn + 1 /\ doing' = "next" /\ UNCHANGED <<proxied, runtimeUp, event>>
        /\ stageTwo' = [stageTwo EXCEPT !.completed = stageTwo.completed + 1,
                                        !.accepted = IF usable THEN @ + 1 ELSE @]
    BY <1>1, <1>3 DEF Judge, Settle, Completed
  <2>2. ending \notin {"none", "prefilter"} /\ ending \in Reasons
    BY <1>3 DEF Succeeded, Blamed, Reasons
  <2>10. /\ usable => truth[turn] = "worked"
         /\ ~usable => Deserved(truth[turn], ending)
    BY <1>1, <1>3, SignalsTell DEF BuiltinInv, TurnInv
  <2>3. why[turn] = "none" /\ verdicts[turn] = "none"
    BY <1>1 DEF BuiltinInv, VerdictInv
  <2>4. TurnInv'
    BY <1>1, <2>1, <2>2 DEF BuiltinInv, TurnInv
  <2>5. VerdictInv'
    BY <1>1, <2>1, <2>2, <2>10 DEF BuiltinInv, TurnInv, VerdictInv, Candidates
  <2>6. /\ Tested' = Tested \cup {turn} /\ turn \notin Tested
        /\ Usables' = IF usable THEN Usables \cup {turn} ELSE Usables
    <3>1. /\ \A n \in Candidates : n # turn => verdicts'[n] = verdicts[n] /\ why'[n] = why[n]
          /\ verdicts'[turn] = verdict /\ why'[turn] = ending
      BY <1>1, <2>1 DEF BuiltinInv, TurnInv
    <3> QED BY <1>1, <2>2, <2>3, <3>1 DEF Tested, Usables
  <2>7. turn \notin Usables
    BY <2>6 DEF Usables
  <2>8. /\ Cardinality(Tested') = Cardinality(Tested) + 1
        /\ Cardinality(Usables') = IF usable THEN Cardinality(Usables) + 1 ELSE Cardinality(Usables)
    BY <2>6, <2>7, TestedAreFinite, UsablesAreTested, FS_AddElement
  <2>9. CountInv'
    <3>1. stageTwo.completed = Cardinality(Tested) /\ stageTwo.total <= turn
      BY DEF BuiltinInv, CountInv
    <3>2. /\ stageTwo' \in [total : Nat, completed : Nat, accepted : Nat] /\ stageTwo'.total = stageTwo.total
          /\ stageTwo'.completed = stageTwo.completed + 1
          /\ stageTwo'.accepted = IF usable THEN stageTwo.accepted + 1 ELSE stageTwo.accepted
      <4>1. /\ stageTwo \in [total : Nat, completed : Nat, accepted : Nat]
            /\ stageTwo.completed + 1 \in Nat /\ stageTwo.accepted + 1 \in Nat
        BY DEF BuiltinInv, CountInv
      <4>2. CASE usable
        <5>1. stageTwo' = [stageTwo EXCEPT !.completed = stageTwo.completed + 1, !.accepted = stageTwo.accepted + 1]
          BY <2>1, <4>2
        <5> QED BY <4>1, <4>2, <5>1
      <4>3. CASE ~usable
        <5>1. stageTwo' = [stageTwo EXCEPT !.completed = stageTwo.completed + 1, !.accepted = stageTwo.accepted]
          BY <2>1, <4>3
        <5> QED BY <4>1, <4>3, <5>1
      <4> QED BY <4>2, <4>3
    <3>3. stageTwo.completed + 1 <= stageTwo.total
      BY <1>1 DEF BuiltinInv, CountInv
    <3> QED BY <1>1, <2>1, <2>8, <3>1, <3>2, <3>3, TestedAreFinite DEF BuiltinInv, CountInv
  <2> QED BY <2>4, <2>5, <2>9 DEF BuiltinInv
<1> QED BY <1>2, <1>3 DEF Judge

LEMMA TestKept == ASSUME BuiltinInv, NEW cause \in Causes, Test(cause) PROVE BuiltinInv'
<1>1. /\ Total \in Nat /\ turn \in 1..Total /\ turn \in Candidates /\ proxied = turn /\ doing = "test"
      /\ doing' = "judge" /\ ending' \in Signals(cause) /\ truth' = [truth EXCEPT ![turn] = cause]
      /\ UNCHANGED <<builtin, turn, proxied, verdicts, why, stageTwo, runtimeUp, event>>
  <2>1. Total \in Nat /\ turn \in 1..(Total + 1) /\ turn <= Total /\ proxied = turn /\ doing = "test"
    BY BuiltinAssumption DEF Test, BuiltinInv, TurnInv
  <2>2. turn \in 1..Total /\ turn \in Candidates
    BY <2>1 DEF Candidates
  <2> QED BY <2>1, <2>2 DEF Test
<1>2. Signals(cause)' = Signals(cause)
  BY <1>1 DEF Signals
<1>3. truth'[turn] = cause /\ \A n \in Candidates : n # turn => truth'[n] = truth[n]
  BY <1>1 DEF BuiltinInv, TurnInv
<1>4. TurnInv'
  <2>1. (Signals(truth[turn]))' = Signals(cause)
    BY <1>1, <1>3 DEF Signals
  <2>2. truth' \in [Candidates -> Causes \cup {"none"}]
    BY <1>1 DEF BuiltinInv, TurnInv
  <2> QED BY <1>1, <1>3, <2>1, <2>2 DEF BuiltinInv, TurnInv
<1>5. VerdictInv'
  <2>1. verdicts[turn] = "none"
    BY <1>1 DEF BuiltinInv, TurnInv, VerdictInv, Candidates
  <2> QED BY <1>1, <1>3, <2>1 DEF BuiltinInv, VerdictInv
<1>6. Tested' = Tested /\ Usables' = Usables
  BY <1>1 DEF Tested, Usables
<1> QED BY <1>1, <1>4, <1>5, <1>6 DEF BuiltinInv, CountInv

LEMMA OtherBuiltinSteps ==
    ASSUME BuiltinInv, StartTraversal \/ AllScanned \/ CancelProbe
    PROVE  BuiltinInv'
<1>1. UNCHANGED <<verdicts, why, stageTwo, turn, truth>>
  BY DEF StartTraversal, AllScanned, CancelProbe
<1>2. CASE StartTraversal
  <2>1. TurnInv'
    BY <1>2 DEF StartTraversal, Finish, BuiltinInv, TurnInv
  <2> QED BY <1>1, <1>2, <2>1, CountsStay DEF StartTraversal, Finish
<1>3. CASE AllScanned
  <2>1. TurnInv'
    BY <1>3 DEF AllScanned, Finish, BuiltinInv, TurnInv
  <2> QED BY <1>1, <1>3, <2>1, CountsStay DEF AllScanned, Finish
<1>4. CASE CancelProbe
  <2>1. TurnInv'
    BY <1>4 DEF CancelProbe, BuiltinInv, TurnInv, Signals
  <2> QED BY <1>1, <1>4, <2>1, CountsStay DEF CancelProbe
<1> QED BY <1>2, <1>3, <1>4

(* The built-in probes keep their invariant (builtin_usability_probe.rs):    *)
(* the candidates before this one have a verdict that their test deserved,   *)
(* and the counts are those of the tested ones.                              *)
THEOREM BuiltinInvariant == BpSpec => []BuiltinInv
<1>1. ASSUME BpInit PROVE BuiltinInv
  <2>1. Total \in Nat
    BY BuiltinAssumption
  <2>2. TurnInv /\ VerdictInv
    BY <1>1, <2>1 DEF BpInit, TurnInv, VerdictInv, Candidates, Reasons
  <2>3. Tested = {} /\ Usables = {}
    BY <1>1 DEF BpInit, Tested, Usables
  <2>4. CountInv
    BY <1>1, <2>1, <2>3, FS_EmptySet DEF BpInit, CountInv
  <2> QED BY <2>2, <2>4 DEF BuiltinInv
<1>2. ASSUME BuiltinInv, BpNext PROVE BuiltinInv'
  <2> QED BY <1>2, ScanKept, TestKept, JudgeKept, OtherBuiltinSteps DEF BpNext
<1>3. ASSUME BuiltinInv, UNCHANGED bpVars PROVE BuiltinInv'
  <2>1. TurnInv'
    BY <1>3 DEF bpVars, BuiltinInv, TurnInv, Signals
  <2> QED BY <1>3, <2>1, CountsStay DEF bpVars
<1>4. BuiltinInv /\ [BpNext]_bpVars => BuiltinInv'
  BY <1>2, <1>3
<1> QED BY <1>1, <1>4, PTL DEF BpSpec

(* A tested node is rejected only if the way through it failed, or the       *)
(* runtime in a way that looks like it, and usable only if it worked; a      *)
(* complete probe has judged every candidate, nothing is left of a probe     *)
(* that ended, and the counts are those of the verdicts: for any number of   *)
(* candidates.                                                               *)
THEOREM VerdictsAreEarned == BpSpec => []VerdictsEarned
<1>1. ASSUME BuiltinInv PROVE VerdictsEarned
  <2>1. Total \in Nat
    BY BuiltinAssumption
  <2>2. OnlyNodesAreBlamed
    BY <1>1, <2>1 DEF BuiltinInv, TurnInv, VerdictInv, OnlyNodesAreBlamed, Candidates, Deserved, Rejected, Tested
  <2>3. ProgressConsistent
    BY <1>1, UsablesAreTested DEF BuiltinInv, CountInv, ProgressConsistent, Usables
  <2> QED BY <2>2, <2>3 DEF VerdictsEarned
<1> QED BY <1>1, BuiltinInvariant, PTL
(* Manifests.  A set of numbers has a least element, a finite one a largest. *)
LEMMA SomeLeast == ASSUME NEW T, T \subseteq Nat, T # {} PROVE \E x \in T : \A y \in T : x <= y
<1> DEFINE Less == {ss \in Nat \X Nat : ss[1] < ss[2]}
<1>1. IsWellFoundedOn(Less, Nat)
  <2>1. OpToRel(<, Nat) = Less
    BY Zenon DEF OpToRel
  <2> QED BY <2>1, NatLessThanWellFounded, Zenon
<1>2. PICK x \in T : \A y \in T : ~ (<<y, x>> \in Less)
  <2> HIDE DEF Less
  <2> QED BY <1>1, WFMin
<1>3. ASSUME NEW y \in T PROVE x <= y
  <2>1. x \in Nat /\ y \in Nat
    OBVIOUS
  <2>2. y < x => <<y, x>> \in Less
    BY <2>1
  <2> QED BY <1>2, <2>1, <2>2
<1> QED BY <1>3

LEMMA LeastIs ==
    ASSUME NEW S, S \subseteq Nat, S # {} PROVE Least(S) \in S /\ \A y \in S : Least(S) <= y
BY SomeLeast DEF Least

(* How many of a set come before x.                                          *)
Rank(S, x) == Cardinality({y \in S : y < x})

LEMMA RankIs ==
    ASSUME NEW S, IsFiniteSet(S), NEW x PROVE Rank(S, x) \in Nat /\ Rank(S, x) <= Cardinality(S)
<1>1. {y \in S : y < x} \in SUBSET S
  OBVIOUS
<1> QED BY <1>1, FS_Subset, FS_CardinalityType DEF Rank

LEMMA RankGrows ==
    ASSUME NEW S, IsFiniteSet(S), S \subseteq Nat, NEW x \in S, NEW y \in S, x < y
    PROVE  Rank(S, x) < Rank(S, y)
<1> DEFINE X == {z \in S : z < x}
           Y == {z \in S : z < y}
<1>1. IsFiniteSet(X) /\ IsFiniteSet(Y) /\ x \notin X /\ X \cup {x} \in SUBSET Y
  <2>1. X \in SUBSET S /\ Y \in SUBSET S
    OBVIOUS
  <2>2. IsFiniteSet(X) /\ IsFiniteSet(Y)
    <3> HIDE DEF X, Y
    <3> QED BY <2>1, FS_Subset
  <2>3. x \notin X /\ x \in Y
    <3>1. x \in Nat /\ ~ (x < x)
      OBVIOUS
    <3> QED BY <3>1
  <2>4. ASSUME NEW z \in X PROVE z \in Y
    <3>1. z \in Nat /\ x \in Nat /\ y \in Nat /\ z < x /\ z \in S
      OBVIOUS
    <3> QED BY <3>1
  <2> HIDE DEF X, Y
  <2> QED BY <2>2, <2>3, <2>4
<1> HIDE DEF X, Y
<1>2. Cardinality(X \cup {x}) = Cardinality(X) + 1 /\ Cardinality(X \cup {x}) <= Cardinality(Y)
  BY <1>1, FS_AddElement, FS_Subset
<1>3. Cardinality(X) \in Nat /\ Cardinality(Y) \in Nat
  BY <1>1, FS_CardinalityType
<1>4. Rank(S, x) = Cardinality(X) /\ Rank(S, y) = Cardinality(Y)
  BY DEF Rank, X, Y
<1> QED BY <1>2, <1>3, <1>4

LEMMA LargestIs ==
    ASSUME NEW S, IsFiniteSet(S), S \subseteq Nat, S # {}
    PROVE  Largest(S) \in S /\ \A y \in S : y <= Largest(S)
<1> DEFINE T == {Cardinality(S) - Rank(S, x) : x \in S}
<1>1. Cardinality(S) \in Nat
  BY FS_CardinalityType
<1>2. T \subseteq Nat /\ T # {}
  <2>1. ASSUME NEW x \in S PROVE Cardinality(S) - Rank(S, x) \in Nat
    BY <1>1, RankIs
  <2> QED BY <2>1
<1>3. PICK t \in T : \A u \in T : t <= u
  <2> HIDE DEF T
  <2> QED BY <1>2, SomeLeast
<1>4. PICK x \in S : t = Cardinality(S) - Rank(S, x)
  OBVIOUS
<1>5. ASSUME NEW y \in S PROVE y <= x
  <2>1. Cardinality(S) - Rank(S, x) <= Cardinality(S) - Rank(S, y)
    BY <1>3, <1>4
  <2>2. Rank(S, y) <= Rank(S, x)
    BY <1>1, <2>1, RankIs
  <2>3. x \in Nat /\ y \in Nat
    OBVIOUS
  <2>4. Rank(S, x) \in Nat /\ Rank(S, y) \in Nat
    BY RankIs
  <2>5. x < y => Rank(S, x) < Rank(S, y)
    BY RankGrows
  <2> HIDE DEF T
  <2> QED BY <2>2, <2>3, <2>4, <2>5
<1> QED BY <1>5 DEF Largest

(* P is the first k elements of S, or all of them if there are fewer.        *)
Prefix(P, S, k) ==
    /\ P \subseteq S /\ \A x \in P, y \in S \ P : x < y
    /\ Cardinality(P) <= k /\ (P # S => Cardinality(P) = k)

LEMMA PrefixOfMore ==
    ASSUME NEW S, IsFiniteSet(S), S \subseteq Nat, NEW P, NEW k \in Nat, P \subseteq S,
           \A x \in P, y \in S \ P : x < y, Cardinality(P) = k + 1
    PROVE  Prefix(P \ {Largest(P)}, S, k)
<1>1. IsFiniteSet(P) /\ P # {} /\ P \subseteq Nat
  <2>1. P \in SUBSET S
    OBVIOUS
  <2>2. IsFiniteSet(P)
    BY <2>1, FS_Subset
  <2>3. P = {} => Cardinality(P) = 0
    BY FS_EmptySet
  <2> QED BY <2>2, <2>3
<1>2. PICK m \in P : m = Largest(P) /\ \A y \in P : y <= m
  BY <1>1, LargestIs
<1>3. Cardinality(P \ {m}) = k
  <2>1. Cardinality(P \ {m}) = Cardinality(P) - 1
    BY <1>1, FS_RemoveElement
  <2> QED BY <2>1
<1>4. ASSUME NEW x \in P \ {m}, NEW y \in S \ (P \ {m}) PROVE x < y
  <2>1. x \in Nat /\ m \in Nat
    BY <1>1
  <2>2. CASE y = m
    BY <1>2, <2>1, <2>2
  <2>3. CASE y \in S \ P
    BY <2>3
  <2> QED BY <2>2, <2>3
<1>5. P \ {m} \subseteq S
  OBVIOUS
<1>6. Prefix(P \ {m}, S, k)
  <2> DEFINE M == P \ {m}
  <2> HIDE DEF M
  <2>1. Cardinality(M) = k /\ M \subseteq S /\ \A x \in M, y \in S \ M : x < y
    BY <1>3, <1>4, <1>5 DEF M
  <2>2. Prefix(M, S, k)
    BY <2>1 DEF Prefix
  <2> QED BY <2>2 DEF M
<1> QED BY <1>2, <1>6

LEMMA PrefixAdds ==
    ASSUME NEW S, IsFiniteSet(S), S \subseteq Nat, NEW f \in Nat, f \notin S, NEW P, NEW k \in Nat,
           Prefix(P, S, k)
    PROVE  Prefix(IF Cardinality(P \cup {f}) > k THEN (P \cup {f}) \ {Largest(P \cup {f})} ELSE P \cup {f},
                  S \cup {f}, k)
<1> DEFINE Q == P \cup {f}
           R == S \cup {f}
<1>1. IsFiniteSet(P) /\ IsFiniteSet(Q) /\ IsFiniteSet(R) /\ R \subseteq Nat /\ Q \subseteq R
  BY FS_Subset, FS_AddElement DEF Prefix
<1>2. Cardinality(Q) = Cardinality(P) + 1 /\ Cardinality(P) \in Nat /\ Cardinality(P) <= k
  BY <1>1, FS_AddElement, FS_CardinalityType DEF Prefix
<1>3. CASE Cardinality(Q) > k
  <2>1. Cardinality(Q) = k + 1 /\ Cardinality(P) = k
    BY <1>2, <1>3
  <2>2. PICK m \in Q : m = Largest(Q) /\ \A y \in Q : y <= m
    <3>1. Q # {} /\ Q \subseteq Nat
      BY <1>1
    <3> HIDE DEF Q
    <3> QED BY <1>1, <3>1, LargestIs
  <2>3. Cardinality(Q \ {m}) = k
    <3>1. Cardinality(Q \ {m}) = Cardinality(Q) - 1
      <4> HIDE DEF Q
      <4> QED BY <1>1, FS_RemoveElement
    <3> QED BY <2>1, <3>1
  <2>4. ASSUME NEW x \in Q \ {m}, NEW y \in R \ (Q \ {m}) PROVE x < y
    <3>1. x \in Nat /\ m \in Nat /\ y \in Nat /\ x \in Q
      BY <1>1, <2>2, <2>4
    <3>2. x < m
      BY <2>2, <3>1
    <3>3. CASE y = m
      BY <3>2, <3>3
    <3>4. CASE y \in S \ P
      <4>1. \A z \in P : z < y
        BY <3>4 DEF Prefix
      <4>2. CASE m \in P
        BY <3>1, <3>2, <4>1, <4>2
      <4>3. CASE x \in P
        BY <4>1, <4>3
      <4> QED BY <2>2, <3>1, <4>2, <4>3
    <3> QED BY <2>4, <3>3, <3>4
  <2>5. Prefix(Q \ {m}, R, k)
    <3> DEFINE M == Q \ {m}
    <3>1. M \subseteq R
      BY <1>1
    <3>2. Cardinality(M) = k /\ \A x \in M, y \in R \ M : x < y
      BY <2>3, <2>4
    <3> HIDE DEF M, R
    <3>3. Prefix(M, R, k)
      BY <3>1, <3>2 DEF Prefix
    <3> QED BY <3>3 DEF M
  <2> HIDE DEF Q, R
  <2>6. Prefix(Q \ {Largest(Q)}, R, k)
    BY <2>2, <2>5
  <2> QED BY <1>3, <2>6 DEF Q, R
<1>4. CASE ~ (Cardinality(Q) > k)
  <2>1. Cardinality(P) # k /\ Cardinality(Q) <= k
    BY <1>2, <1>4
  <2>2. P = S
    BY <2>1 DEF Prefix
  <2> QED BY <1>1, <1>4, <2>1, <2>2 DEF Prefix
<1> QED BY <1>3, <1>4

LEMMA PrefixIsFirst ==
    ASSUME NEW S, IsFiniteSet(S), S \subseteq Nat, NEW P, Prefix(P, S, MaxManifests)
    PROVE  P = First(S)
<1>1. MaxManifests \in Nat /\ IsFiniteSet(P) /\ Cardinality(P) \in Nat /\ P \subseteq S
  BY ManifestAssumption, FS_Subset, FS_CardinalityType DEF Prefix
<1>2. ASSUME NEW f \in P PROVE Rank(S, f) < MaxManifests
  <2>1. {g \in S : g < f} \in SUBSET (P \ {f})
    <3>1. \A g \in S : g < f => g \in P /\ g # f
      BY <1>1 DEF Prefix
    <3> QED BY <3>1
  <2>2. IsFiniteSet(P \ {f}) /\ Cardinality(P \ {f}) = Cardinality(P) - 1
    BY <1>1, FS_RemoveElement
  <2>3. Rank(S, f) <= Cardinality(P) - 1
    BY <2>1, <2>2, FS_Subset DEF Rank
  <2> QED BY <1>1, <2>3, RankIs DEF Prefix
<1>3. ASSUME NEW f \in S \ P PROVE ~ (Rank(S, f) < MaxManifests)
  <2>1. P \in SUBSET {g \in S : g < f}
    BY <1>1 DEF Prefix
  <2>2. {g \in S : g < f} \in SUBSET S
    OBVIOUS
  <2>3. Cardinality(P) <= Rank(S, f)
    BY <2>1, <2>2, FS_Subset DEF Rank
  <2>4. Cardinality(P) = MaxManifests
    BY DEF Prefix
  <2> QED BY <1>1, <2>3, <2>4, RankIs
<1> QED BY <1>1, <1>2, <1>3 DEF First, Rank

(* What was listed so far is kept up to one file more than the limit; what   *)
(* was loaded so far is the first valid file of each id among those read.    *)
ReadFiles == First(Listed) \ paths
Lowest(S) == IF S = {} THEN 0 ELSE Least(S)
ListInv ==
    stage = "list" =>
        /\ unlisted \subseteq Files /\ Prefix(paths, Listed, MaxManifests + 1)
        /\ more <=> Cardinality(paths) > MaxManifests
        /\ loaded = [i \in ManifestIds |-> 0]
LoadInv ==
    stage = "load" =>
        /\ paths \subseteq First(Listed) /\ \A x \in ReadFiles, y \in paths : x < y
        /\ more <=> Cardinality(Listed) > MaxManifests
        /\ loaded = [i \in ManifestIds |-> Lowest(Naming(ReadFiles, i))]
        /\ Cardinality(Files) <= MaxScanned => unlisted = {}
ManifestInv == stage \in {"list", "load", "merged"} /\ more \in BOOLEAN /\ ListInv /\ LoadInv /\ CatalogFromFiles

LEMMA JsonNumbers ==
    /\ IsFiniteSet(Listed) /\ Listed \subseteq Nat \ {0} /\ First(Listed) \subseteq Listed
    /\ MaxManifests \in Nat
<1>1. Listed \in SUBSET Files
  BY DEF Listed
<1> QED BY <1>1, FS_Subset, ManifestAssumption DEF First

LEMMA ListKept == ASSUME ManifestInv, NEW f \in Files, List(f) PROVE ManifestInv'
<1> DEFINE k == MaxManifests + 1
<1>1. /\ stage = "list" /\ stage' = "list" /\ f \in unlisted /\ unlisted' = unlisted \ {f}
      /\ UNCHANGED <<dir, loaded, catalog>>
  BY DEF List
<1>2. unlisted \subseteq Files /\ Prefix(paths, Listed, k) /\ (more <=> Cardinality(paths) > MaxManifests)
  BY <1>1 DEF ManifestInv, ListInv
<1>3. Listed \in SUBSET Files /\ IsFiniteSet(Listed) /\ Listed \subseteq Nat /\ f \in Nat /\ f \notin Listed /\ k \in Nat
  <2>1. Listed \in SUBSET Files /\ f \notin Listed
    BY <1>1 DEF Listed
  <2>2. IsFiniteSet(Listed)
    BY <2>1, ManifestAssumption, FS_Subset
  <2> QED BY <2>1, <2>2, ManifestAssumption
<1>4. Listed' = IF Json(f) THEN Listed \cup {f} ELSE Listed
  BY <1>1, <1>2 DEF Listed, Json
<1>5. CASE ~Json(f)
  <2>1. paths' = paths /\ more' = more
    BY <1>2, <1>5 DEF List, ManifestInv
  <2> QED BY <1>1, <1>2, <1>4, <1>5, <2>1 DEF ManifestInv, ListInv, LoadInv, CatalogFromFiles
<1>6. CASE Json(f)
  <2>1. paths' = Kept(paths \cup {f}) /\ more' = (more \/ Cardinality(paths') > MaxManifests)
    BY <1>6 DEF List
  <2>2. Prefix(paths', Listed', k)
    BY <1>2, <1>3, <1>4, <1>6, <2>1, PrefixAdds DEF Kept
  <2>3. more => Cardinality(paths') > MaxManifests
    <3>1. SUFFICES ASSUME Cardinality(paths) > MaxManifests PROVE Cardinality(paths') > MaxManifests
      BY <1>2
    <3>2. Cardinality(paths) = k /\ IsFiniteSet(paths)
      <4>1. paths \in SUBSET Listed /\ Cardinality(paths) <= k
        BY <1>2 DEF Prefix
      <4>2. IsFiniteSet(paths)
        BY <1>3, <4>1, FS_Subset
      <4>3. Cardinality(paths) \in Nat
        BY <4>2, FS_CardinalityType
      <4> QED BY <3>1, <4>1, <4>2, <4>3, ManifestAssumption
    <3>3. Cardinality(paths \cup {f}) = k + 1 /\ f \notin paths
      BY <1>2, <1>3, <3>2, FS_AddElement DEF Prefix
    <3>4. paths' # Listed'
      <4>1. paths' = (paths \cup {f}) \ {Largest(paths \cup {f})}
        BY <1>3, <2>1, <3>3 DEF Kept
      <4>2. Largest(paths \cup {f}) \in paths \cup {f}
        <5>1. IsFiniteSet(paths \cup {f}) /\ paths \cup {f} \subseteq Nat /\ paths \cup {f} # {}
          BY <1>2, <1>3, <3>2, FS_AddElement DEF Prefix
        <5> QED BY <5>1, LargestIs
      <4> QED BY <1>2, <1>4, <1>6, <4>1, <4>2 DEF Prefix
    <3>5. Cardinality(paths') = k
      BY <2>2, <3>4 DEF Prefix
    <3> QED BY <3>5, ManifestAssumption
  <2> QED BY <1>1, <1>2, <2>1, <2>2, <2>3 DEF ManifestInv, ListInv, LoadInv, CatalogFromFiles
<1> QED BY <1>5, <1>6

LEMMA ListEndsKept == ASSUME ManifestInv, ListEnds PROVE ManifestInv'
<1>1. /\ stage = "list" /\ stage' = "load" /\ UNCHANGED <<dir, unlisted, more, loaded>>
      /\ paths' = IF Cardinality(paths) > MaxManifests THEN paths \ {Largest(paths)} ELSE paths
  BY DEF ListEnds
<1>2. Listed' = Listed /\ First(Listed)' = First(Listed)
  BY <1>1 DEF Listed, First, Json
<1>3. /\ Prefix(paths, Listed, MaxManifests + 1) /\ (more <=> Cardinality(paths) > MaxManifests)
      /\ loaded = [i \in ManifestIds |-> 0] /\ IsFiniteSet(paths) /\ Cardinality(paths) \in Nat
      /\ Cardinality(Listed) \in Nat /\ Cardinality(paths) <= Cardinality(Listed)
  <2>1. Prefix(paths, Listed, MaxManifests + 1) /\ paths \in SUBSET Listed
    BY <1>1, <1>2 DEF ManifestInv, ListInv, Prefix
  <2>2. IsFiniteSet(paths) /\ Cardinality(paths) <= Cardinality(Listed)
    BY <2>1, JsonNumbers, FS_Subset
  <2> QED BY <1>1, <2>1, <2>2, JsonNumbers, FS_CardinalityType DEF ManifestInv, ListInv
<1>4. more <=> Cardinality(Listed) > MaxManifests
  <2>1. ~more => Cardinality(paths) # MaxManifests + 1
    BY <1>3, JsonNumbers
  <2>2. ~more => paths = Listed
    BY <1>3, <2>1 DEF Prefix
  <2> QED BY <1>3, <2>2, JsonNumbers
<1>5. Prefix(paths', Listed, MaxManifests)
  <2>1. CASE Cardinality(paths) > MaxManifests
    <3>1. Cardinality(paths) = MaxManifests + 1
      BY <1>3, <2>1, JsonNumbers DEF Prefix
    <3> QED BY <1>1, <1>3, <2>1, <3>1, JsonNumbers, PrefixOfMore DEF Prefix
  <2>2. CASE ~ (Cardinality(paths) > MaxManifests)
    <3>1. Cardinality(paths) # MaxManifests + 1 /\ paths' = paths
      BY <1>1, <1>3, <2>2, JsonNumbers
    <3> QED BY <1>3, <2>2, <3>1, JsonNumbers DEF Prefix
  <2> QED BY <2>1, <2>2
<1>6. paths' = First(Listed)
  BY <1>5, JsonNumbers, PrefixIsFirst
<1>7. ReadFiles' = {} /\ \A i : Naming(ReadFiles, i)' = {}
  BY <1>2, <1>6 DEF ReadFiles, Naming
<1>8. loaded' = [i \in ManifestIds |-> Lowest(Naming(ReadFiles, i))']
  BY <1>1, <1>3, <1>7 DEF Lowest
<1>9. Cardinality(Files) <= MaxScanned => unlisted = {}
  <2>1. SUFFICES ASSUME Cardinality(Files) <= MaxScanned, Cardinality(Files \ unlisted) = MaxScanned
                 PROVE  unlisted = {}
    BY DEF ListEnds
  <2>2. unlisted \subseteq Files /\ Files \ unlisted \in SUBSET Files
    BY <1>1 DEF ManifestInv, ListInv
  <2>3. Cardinality(Files \ unlisted) <= Cardinality(Files) /\ Cardinality(Files) \in Nat /\ MaxScanned \in Nat
    BY <2>2, ManifestAssumption, FS_Subset, FS_CardinalityType
  <2>4. Cardinality(Files) = Cardinality(Files \ unlisted)
    BY <2>1, <2>3
  <2>5. Files = Files \ unlisted
    BY <2>2, <2>4, ManifestAssumption, FS_Subset
  <2> QED BY <2>2, <2>5
<1> QED BY <1>1, <1>2, <1>4, <1>6, <1>7, <1>8, <1>9 DEF ManifestInv, ListInv, LoadInv, CatalogFromFiles

LEMMA LoadKept == ASSUME ManifestInv, Load PROVE ManifestInv'
<1>1. PICK f \in paths : /\ \A y \in paths : f <= y
                         /\ paths' = paths \ {f}
                         /\ loaded' = IF Accepted(f) THEN [loaded EXCEPT ![dir[f].id] = f] ELSE loaded
  <2>1. paths \subseteq Nat /\ paths # {}
    BY JsonNumbers DEF Load, ManifestInv, LoadInv
  <2> QED BY <2>1, LeastIs DEF Load
<1>2. /\ stage = "load" /\ stage' = stage /\ UNCHANGED <<dir, unlisted, more>>
      /\ paths \subseteq First(Listed) /\ \A x \in ReadFiles, y \in paths : x < y
      /\ more <=> Cardinality(Listed) > MaxManifests
      /\ loaded = [i \in ManifestIds |-> Lowest(Naming(ReadFiles, i))]
      /\ Cardinality(Files) <= MaxScanned => unlisted = {}
  BY DEF Load, ManifestInv, LoadInv
<1>3. First(Listed)' = First(Listed) /\ Listed' = Listed
  BY <1>2 DEF First, Listed, Json
<1>4. ReadFiles' = ReadFiles \cup {f} /\ f \notin ReadFiles /\ f \in First(Listed)
  BY <1>1, <1>2, <1>3 DEF ReadFiles
<1>5. paths \subseteq Nat /\ ReadFiles \subseteq Nat \ {0} /\ f \in Nat \ {0}
  BY <1>2, <1>4, JsonNumbers DEF ReadFiles
<1>6. \A x \in ReadFiles', y \in paths' : x < y
  <2>1. ASSUME NEW y \in paths, y # f PROVE f < y
    BY <1>1, <1>5, <2>1
  <2> QED BY <1>1, <1>2, <1>4, <2>1
<1>7. ASSUME NEW i \in ManifestIds PROVE loaded'[i] = Lowest(Naming(ReadFiles, i))'
  <2> DEFINE N == Naming(ReadFiles, i)
  <2>1. N \subseteq ReadFiles /\ loaded[i] = Lowest(N)
    BY <1>2 DEF Naming
  <2>2. CASE dir[f].id = i /\ Valid(dir[f])
    <3>1. Naming(ReadFiles, i)' = N \cup {f}
      BY <1>2, <1>4, <2>2 DEF Naming, Valid
    <3>2. CASE N = {}
      <4>1. Lowest(Naming(ReadFiles, i))' = Least({f})
        BY <3>1, <3>2 DEF Lowest, Least
      <4>2. Least({f}) = f
        BY <1>5, LeastIs
      <4>3. loaded[i] = 0
        BY <2>1, <3>2 DEF Lowest
      <4>4. loaded' = [loaded EXCEPT ![i] = f]
        BY <1>1, <2>2, <4>3 DEF Accepted
      <4> QED BY <1>2, <4>1, <4>2, <4>4
    <3>3. CASE N # {}
      <4>1. PICK x \in N : x = Least(N) /\ \A y \in N : x <= y
        BY <1>5, <2>1, <3>3, LeastIs
      <4>2. x < f /\ x \in Nat \ {0}
        BY <1>2, <1>5, <2>1, <4>1
      <4>3. PICK z \in N \cup {f} : z = Least(N \cup {f}) /\ \A y \in N \cup {f} : z <= y
        <5>1. N \cup {f} \subseteq Nat /\ N \cup {f} # {}
          BY <1>5, <2>1
        <5> HIDE DEF N
        <5> QED BY <5>1, LeastIs
      <4>4. z = x
        <5>1. z <= x /\ z \in Nat /\ z # f
          BY <1>5, <2>1, <4>2, <4>3
        <5>2. x <= z
          BY <4>1, <4>3, <5>1
        <5> QED BY <4>2, <5>1, <5>2
      <4>5. loaded' = loaded /\ loaded[i] = x
        BY <1>1, <2>1, <2>2, <3>3, <4>1, <4>2 DEF Lowest, Accepted
      <4>6. Lowest(Naming(ReadFiles, i))' = Least(N \cup {f})
        BY <3>1 DEF Lowest, Least
      <4> QED BY <4>3, <4>4, <4>5, <4>6
    <3> QED BY <3>2, <3>3
  <2>3. CASE ~ (dir[f].id = i /\ Valid(dir[f]))
    <3>1. Naming(ReadFiles, i)' = N
      BY <1>2, <1>4, <2>3 DEF Naming, Valid
    <3>2. loaded'[i] = loaded[i]
      BY <1>1, <1>2, <2>3 DEF Accepted
    <3>3. Lowest(Naming(ReadFiles, i))' = Lowest(N)
      BY <3>1 DEF Lowest, Least
    <3> QED BY <2>1, <3>2, <3>3
  <2> QED BY <2>2, <2>3
<1>8. loaded' = [i \in ManifestIds |-> Lowest(Naming(ReadFiles, i))']
  <2>1. loaded' = [i \in ManifestIds |-> loaded'[i]]
    BY <1>1, <1>2
  <2> QED BY <1>7, <2>1
<1> QED BY <1>1, <1>2, <1>3, <1>6, <1>8 DEF ManifestInv, ListInv, LoadInv, CatalogFromFiles

LEMMA MergeKept == ASSUME ManifestInv, Merge PROVE ManifestInv'
<1>1. /\ stage = "load" /\ paths = {} /\ stage' = "merged" /\ UNCHANGED <<dir, unlisted, more>>
      /\ catalog' = [i \in Builtins \cup {j \in ManifestIds : loaded[j] # 0} |->
                        IF i \in ManifestIds THEN loaded[i] ELSE 0]
      /\ more <=> Cardinality(Listed) > MaxManifests
      /\ loaded = [i \in ManifestIds |-> Lowest(Naming(ReadFiles, i))]
      /\ Cardinality(Files) <= MaxScanned => unlisted = {}
  BY DEF Merge, ManifestInv, LoadInv
<1>2. ReadFiles = First(Listed)
  BY <1>1 DEF ReadFiles
<1>3. ASSUME NEW i \in ManifestIds
      PROVE  /\ loaded[i] # 0 <=> Naming(First(Listed), i) # {}
             /\ loaded[i] = IF Naming(First(Listed), i) # {} THEN Least(Naming(First(Listed), i)) ELSE 0
  <2>1. Naming(First(Listed), i) \subseteq Nat \ {0}
    BY JsonNumbers DEF Naming
  <2>2. Naming(First(Listed), i) # {} => Least(Naming(First(Listed), i)) # 0
    BY <2>1, LeastIs
  <2> QED BY <1>1, <1>2, <2>2 DEF Lowest
<1>4. /\ DOMAIN catalog' = Builtins \cup {i \in ManifestIds : Naming(First(Listed), i) # {}}
      /\ \A i \in DOMAIN catalog' :
             catalog'[i] = IF i \in ManifestIds /\ Naming(First(Listed), i) # {}
                           THEN Least(Naming(First(Listed), i)) ELSE 0
  BY <1>1, <1>3
<1>5. /\ Listed' = Listed /\ First(Listed)' = First(Listed)
      /\ \A i : Naming(First(Listed), i)' = Naming(First(Listed), i)
      /\ \A i : Least(Naming(First(Listed), i))' = Least(Naming(First(Listed), i))
  <2>1. Listed' = Listed
    BY <1>1 DEF Listed, Json
  <2>2. First(Listed)' = First(Listed)
    BY <2>1 DEF First
  <2>3. \A i : Naming(First(Listed), i)' = Naming(First(Listed), i)
    BY <1>1, <2>2 DEF Naming, Valid
  <2> QED BY <2>1, <2>2, <2>3 DEF Least
<1>6. CatalogFromFiles'
  BY <1>1, <1>4, <1>5 DEF CatalogFromFiles
<1> QED BY <1>1, <1>6 DEF ManifestInv, ListInv, LoadInv, Merge

(* Discovery keeps its invariant (discover_usability_probe_manifests): of    *)
(* what was listed so far the first files by path are kept.                  *)
THEOREM ManifestInvariant == ManSpec => []ManifestInv
<1>1. ASSUME ManInit PROVE ManifestInv
  <2>1. Listed = {} /\ Cardinality({}) = 0 /\ MaxManifests \in Nat
    BY <1>1, FS_EmptySet, ManifestAssumption DEF ManInit, Listed
  <2>2. Prefix({}, {}, MaxManifests + 1)
    BY <2>1 DEF Prefix
  <2>3. ListInv
    <3>1. paths = {} /\ more = FALSE /\ unlisted = Files /\ loaded = [i \in ManifestIds |-> 0]
      BY <1>1 DEF ManInit
    <3>2. Prefix(paths, Listed, MaxManifests + 1) /\ ~ (Cardinality(paths) > MaxManifests)
      BY <2>1, <2>2, <3>1
    <3> QED BY <3>1, <3>2 DEF ListInv
  <2>4. stage = "list" /\ more = FALSE
    BY <1>1 DEF ManInit
  <2> QED BY <2>3, <2>4 DEF ManifestInv, LoadInv, CatalogFromFiles
<1>2. ASSUME ManifestInv, ManNext PROVE ManifestInv'
  BY <1>2, ListKept, ListEndsKept, LoadKept, MergeKept DEF ManNext
<1>3. ASSUME ManifestInv, UNCHANGED manVars PROVE ManifestInv'
  <2>1. Listed' = Listed
    BY <1>3 DEF manVars, Listed, Json
  <2>2. First(Listed)' = First(Listed)
    BY <2>1 DEF First
  <2>3. ReadFiles' = ReadFiles
    BY <1>3, <2>2 DEF manVars, ReadFiles
  <2>4. \A i : /\ Naming(ReadFiles, i)' = Naming(ReadFiles, i)
               /\ Naming(First(Listed), i)' = Naming(First(Listed), i)
    BY <1>3, <2>2, <2>3 DEF manVars, Naming, Valid
  <2>5. ListInv'
    BY <1>3, <2>1 DEF manVars, ManifestInv, ListInv, Prefix
  <2>6. LoadInv'
    BY <1>3, <2>1, <2>2, <2>3, <2>4 DEF manVars, ManifestInv, LoadInv, Lowest, Least
  <2>7. CatalogFromFiles'
    BY <1>3, <2>1, <2>2, <2>4 DEF manVars, ManifestInv, CatalogFromFiles, Least
  <2> QED BY <1>3, <2>5, <2>6, <2>7 DEF manVars, ManifestInv
<1>4. ManifestInv /\ [ManNext]_manVars => ManifestInv'
  BY <1>2, <1>3
<1> QED BY <1>1, <1>4, PTL DEF ManSpec

(* The probes offered depend on the files listed, not on their order, and    *)
(* every file is listed in a directory within the limit, for every set of    *)
(* files and all limits.                                                     *)
THEOREM CatalogIsOfFiles == ManSpec => []CatalogFromFiles
<1>1. ManifestInv => CatalogFromFiles
  BY DEF ManifestInv
<1> QED BY <1>1, ManifestInvariant, PTL
=============================================================================
