------------------------- MODULE AutoSelectionProofs -------------------------
(* Why no automatic switch rests on one round alone, or is made for a group   *)
(* automatic selection has left: for every set of selectors, nodes, panels    *)
(* and connections, every policy, and a worker that may be restarted or       *)
(* reconfigured at any moment.                                                *)
(*                                                                            *)
(* A decision acts only on a streak the previous evaluation of the same scope *)
(* has left, and a streak is left only while the tracker has watched that     *)
(* scope for a whole window, which it does for the configured selector alone. *)
EXTENDS AutoSelection, NodeRankingScan, TLAPS

(* What evaluate and its callers read has its fields.  The worker can take    *)
(* any value for a node, a revision or a count of bytes.                      *)
StateShape(st) ==
    /\ st = [scope |-> st.scope, pending |-> st.pending, wins |-> st.wins,
             failures |-> st.failures, lastRound |-> st.lastRound]
    /\ st.wins \in {0, 1} /\ st.failures \in {0, 1} /\ st.lastRound \in Nat

ViewShape(v) == v = [nodes |-> [g \in Selectors |-> v.nodes[g]],
                     root |-> v.root]

TrackerShape(tr) ==
    tr = [scope |-> tr.scope, base |-> tr.base, last |-> tr.last,
          totals |-> tr.totals, growth |-> tr.growth, lost |-> tr.lost]

JobShape(job) ==
    /\ job = [id |-> job.id, nodes |-> job.nodes, live |-> job.live]
    /\ job.id \in Nat \ {0}

JobsShape(js) ==
    /\ js = [g \in Selectors |-> js[g]]
    /\ \A g \in Selectors : js[g] # NoJob => JobShape(js[g])

ShapeInv ==
    /\ ViewShape(ctl) /\ StateShape(state) /\ TrackerShape(tracker)
    /\ JobsShape(jobs) /\ nextId \in Nat \ {0}

(* The tracker watches the configured selector, or has only started to.       *)
TrackerInv ==
    \/ tracker.scope = NoScope /\ tracker.base = 0
    \/ tracker.scope.selector = cfg.selector

(* A streak belongs to the configured selector and is what the evaluation     *)
(* before concluded; a route is only repaired towards the node in use.        *)
StreakInv ==
    /\ ~(state.wins = 1 /\ state.failures = 1)
    /\ state.wins = 1 \/ state.failures = 1 =>
          /\ state.scope.selector = cfg.selector
          /\ won.scope = state.scope
    /\ state.wins = 1 =>
          /\ won.kind \in {"better", "route"}
          /\ won.node = state.pending
          /\ won.kind = "route" => state.pending = state.scope.node
    /\ state.failures = 1 => won.kind = "outage"

RoundInv == ShapeInv /\ TrackerInv /\ StreakInv

-----------------------------------------------------------------------------
(* Verdicts that count need a node that was watched and carried no more than  *)
(* the threshold; a route is repaired when the best node is the current one.  *)
LEMMA VerdictCounts ==
    ASSUME NEW st, NEW scope, NEW id, NEW facts, NEW best, NEW transfer,
           Verdict(st, scope, id, facts, best, transfer)
               \in {"better", "route", "outage"}
    PROVE  /\ transfer \in {"idle", "silent"}
           /\ ~(id <= st.lastRound)
           /\ Verdict(st, scope, id, facts, best, transfer) = "route" =>
                 best = scope.node
           /\ Verdict(st, scope, id, facts, best, transfer) = "better" =>
                 best # scope.node
  BY DEF Verdict, OutageShown

(* Only a round no newer than the last one is a duplicate.                    *)
LEMMA VerdictDuplicate ==
    ASSUME NEW st, NEW scope, NEW id, NEW facts, NEW best, NEW transfer,
           Verdict(st, scope, id, facts, best, transfer) = "duplicate"
    PROVE  id <= st.lastRound
  BY DEF Verdict

(* Only a tracker that has watched this very scope for a window reports idle  *)
(* or silent connections.                                                     *)
LEMMA WatchedScope ==
    ASSUME NEW tr, NEW scope, TransferStatus(tr, scope) \in {"idle", "silent"}
    PROVE  tr.scope = scope /\ ~(tr.base < Window)
  BY DEF TransferStatus

-----------------------------------------------------------------------------
(* reset_rounds leaves the scope and the last round alone.                    *)
LEMMA ResetRecord ==
    ASSUME NEW scope, NEW pending, NEW wins, NEW failures, NEW id
    PROVE  ResetRounds([scope |-> scope, pending |-> pending, wins |-> wins,
                        failures |-> failures, lastRound |-> id])
              = [scope |-> scope, pending |-> NoNode, wins |-> 0,
                 failures |-> 0, lastRound |-> id]
<1> DEFINE r(p, w, f) == [scope |-> scope, pending |-> p, wins |-> w,
                          failures |-> f, lastRound |-> id]
<1>1. [r(pending, wins, failures) EXCEPT !.pending = NoNode]
         = r(NoNode, wins, failures)
  OBVIOUS
<1>2. [r(NoNode, wins, failures) EXCEPT !.wins = 0] = r(NoNode, 0, failures)
  OBVIOUS
<1>3. [r(NoNode, 0, failures) EXCEPT !.failures = 0] = r(NoNode, 0, 0)
  OBVIOUS
<1> QED
  BY <1>1, <1>2, <1>3 DEF ResetRounds

(* A decision that acts completes a streak of the same scope that was there   *)
(* before; one that does not act leaves the state as it was, or a streak that *)
(* its verdict started, or none.                                              *)
Evaluated(d, scope, transfer) ==
    /\ StateShape(d.state) /\ ~(d.state.wins = 1 /\ d.state.failures = 1)
    /\ d.act => /\ state.scope = scope
                /\ \/ /\ d.verdict \in {"better", "route"}
                      /\ state.wins = 1 /\ state.pending = d.best
                   \/ d.verdict = "outage" /\ state.failures = 1
                /\ d.state.wins = 0 /\ d.state.failures = 0
    /\ d.verdict = "duplicate" => d.state = state /\ ~d.act
    /\ d.verdict # "duplicate" /\ d.state.wins = 1 =>
          /\ d.verdict \in {"better", "route"}
          /\ d.state.pending = d.best /\ d.state.scope = scope
    /\ d.verdict # "duplicate" /\ d.state.failures = 1 =>
          d.verdict = "outage" /\ d.state.scope = scope
    /\ d.verdict \in {"better", "route", "outage"} =>
          transfer \in {"idle", "silent"}
    /\ d.verdict = "route" => d.best = scope.node
    /\ d.verdict = "better" => d.best # scope.node

LEMMA EvaluateStep ==
    ASSUME StateShape(state), ~(state.wins = 1 /\ state.failures = 1),
           NEW scope, NEW id \in Nat \ {0}, NEW facts, NEW transfer
    PROVE  Evaluated(Evaluate(scope, id, facts, transfer), scope, transfer)
<1>1. PICK st : st = InScope(state, scope)
  OBVIOUS
<1>2. PICK best : best = Best(facts)
  OBVIOUS
<1>3. PICK verdict : verdict = Verdict(st, scope, id, facts, best, transfer)
  OBVIOUS
<1>4. PICK next : next = IF verdict = "duplicate" THEN st
                         ELSE [Counted(st, verdict, best) EXCEPT !.lastRound = id]
  OBVIOUS
<1>5. PICK act \in BOOLEAN :
         act <=> verdict # "duplicate" /\ (next.wins >= 2 \/ next.failures >= 2)
  OBVIOUS
<1>6. PICK d : d = Evaluate(scope, id, facts, transfer)
  OBVIOUS
<1>7. /\ act => d = [state |-> ResetRounds(next), verdict |-> verdict,
                     best |-> best, act |-> TRUE]
      /\ ~act => d = [state |-> next, verdict |-> verdict, best |-> best,
                      act |-> FALSE]
  <2> USE <1>1, <1>2, <1>3, <1>4, <1>5, <1>6 DEF Evaluate
  <2>1. CASE act
    BY <2>1
  <2>2. CASE ~act
    BY <2>2
  <2> QED
    BY <2>1, <2>2
<1>8. /\ StateShape(st) /\ st.scope = scope
      /\ ~(st.wins = 1 /\ st.failures = 1)
      /\ state.scope = scope => st = state
      /\ state.scope # scope => st.wins = 0 /\ st.failures = 0
                                /\ st.lastRound = 0
  BY <1>1 DEF InScope, StateShape, Fresh
<1>9. verdict = "duplicate" => st = state
  <2>1. SUFFICES ASSUME verdict = "duplicate", state.scope # scope PROVE FALSE
    BY <1>8
  <2>2. id <= st.lastRound
    BY <1>3, <2>1, VerdictDuplicate
  <2> QED
    BY <1>8, <2>1, <2>2
<1>10. /\ verdict \in {"better", "route", "outage"} =>
             transfer \in {"idle", "silent"}
       /\ verdict = "route" => best = scope.node
       /\ verdict = "better" => best # scope.node
  BY <1>3, VerdictCounts
<1>11. CASE verdict = "duplicate"
  BY <1>4, <1>5, <1>6, <1>7, <1>9, <1>11 DEF Evaluated
<1>12. CASE verdict \in {"better", "route"}
  <2>1. Counted(st, verdict, best) = Confirm(st, best)
    BY <1>12 DEF Counted
  <2>2. next = [scope |-> scope, pending |-> best,
                wins |-> IF st.pending = best THEN st.wins + 1 ELSE 1,
                failures |-> 0, lastRound |-> id]
    BY <1>4, <1>8, <1>12, <2>1 DEF Confirm, StateShape
  <2>3. CASE act
    <3>1. st.pending = best /\ st.wins = 1
      BY <1>5, <1>8, <2>2, <2>3 DEF StateShape
    <3>2. state.scope = scope /\ state.wins = 1 /\ state.pending = best
      BY <1>8, <3>1
    <3>3. ResetRounds(next) = [scope |-> scope, pending |-> NoNode, wins |-> 0,
                               failures |-> 0, lastRound |-> id]
      BY <2>2, ResetRecord
    <3> QED
      BY <1>6, <1>7, <1>10, <1>12, <2>3, <3>2, <3>3 DEF Evaluated, StateShape
  <2>4. CASE ~act
    <3>1. next.wins = 1
      BY <1>5, <1>8, <1>12, <2>2, <2>4 DEF StateShape
    <3>2. next = [scope |-> scope, pending |-> best, wins |-> 1,
                  failures |-> 0, lastRound |-> id]
      BY <2>2, <3>1
    <3> QED
      BY <1>6, <1>7, <1>10, <1>12, <2>4, <3>2 DEF Evaluated, StateShape
  <2> QED
    BY <2>3, <2>4
<1>13. CASE verdict = "outage"
  <2>1. Counted(st, verdict, best) = Emergency(st)
    BY <1>13 DEF Counted
  <2>2. next = [scope |-> scope, pending |-> NoNode, wins |-> 0,
                failures |-> st.failures + 1, lastRound |-> id]
    BY <1>4, <1>8, <1>13, <2>1 DEF Emergency, StateShape
  <2>3. CASE act
    <3>1. st.failures = 1
      BY <1>5, <1>8, <2>2, <2>3 DEF StateShape
    <3>2. state.scope = scope /\ state.failures = 1
      BY <1>8, <3>1
    <3>3. ResetRounds(next) = [scope |-> scope, pending |-> NoNode, wins |-> 0,
                               failures |-> 0, lastRound |-> id]
      BY <2>2, ResetRecord
    <3> QED
      BY <1>6, <1>7, <1>10, <1>13, <2>3, <3>2, <3>3 DEF Evaluated, StateShape
  <2>4. CASE ~act
    <3>1. next.failures = 1
      BY <1>5, <1>8, <1>13, <2>2, <2>4 DEF StateShape
    <3>2. next = [scope |-> scope, pending |-> NoNode, wins |-> 0,
                  failures |-> 1, lastRound |-> id]
      BY <2>2, <3>1
    <3> QED
      BY <1>6, <1>7, <1>10, <1>13, <2>4, <3>2 DEF Evaluated, StateShape
  <2> QED
    BY <2>3, <2>4
<1>14. CASE verdict \notin {"duplicate", "better", "route", "outage"}
  <2>1. Counted(st, verdict, best) = ResetRounds(st)
    BY <1>14 DEF Counted
  <2>2. next = [scope |-> scope, pending |-> NoNode, wins |-> 0,
                failures |-> 0, lastRound |-> id]
    BY <1>4, <1>8, <1>14, <2>1 DEF ResetRounds, StateShape
  <2>3. ~act
    BY <1>5, <2>2
  <2> QED
    BY <1>6, <1>7, <1>14, <2>2, <2>3 DEF Evaluated, StateShape
<1> QED
  BY <1>11, <1>12, <1>13, <1>14

-----------------------------------------------------------------------------
(* The steps of one round.                                                    *)

(* A round that is decided is decided by evaluate, in the scope of its group. *)
LEMMA DecisionStep ==
    ASSUME RoundInv, NEW g \in Selectors, jobs[g] # NoJob,
           NEW d \in Decisions(g)
    PROVE  LET scope == ScopeOf(g, panel.rev) IN
           Evaluated(d, scope, TransferStatus(tracker, scope))
<1>1. jobs[g].id \in Nat \ {0}
  BY DEF RoundInv, ShapeInv, JobsShape, JobShape
<1>2. StateShape(state) /\ ~(state.wins = 1 /\ state.failures = 1)
  BY DEF RoundInv, ShapeInv, StreakInv
<1> QED
  BY <1>1, <1>2, EvaluateStep DEF Decisions

(* A verdict that counts is one about the configured selector.                *)
LEMMA CountedSelector ==
    ASSUME RoundInv, NEW g \in Selectors, jobs[g] # NoJob,
           NEW d \in Decisions(g),
           d.verdict \in {"better", "route", "outage"}
    PROVE  cfg.selector = g
<1>1. PICK scope : scope = ScopeOf(g, panel.rev)
  OBVIOUS
<1>2. TransferStatus(tracker, scope) \in {"idle", "silent"}
  BY <1>1, DecisionStep DEF Evaluated
<1>3. tracker.scope = scope /\ ~(tracker.base < Window)
  BY <1>2, WatchedScope
<1>4. tracker.scope.selector = cfg.selector
  BY <1>3, WindowAssumption DEF RoundInv, TrackerInv
<1> QED
  BY <1>1, <1>3, <1>4 DEF ScopeOf

(* A decision that acts follows another of the same scope.                    *)
LEMMA ActingDecision ==
    ASSUME RoundInv, NEW g \in Selectors, jobs[g] # NoJob,
           NEW d \in Decisions(g), d.act
    PROVE  /\ cfg.selector = g /\ won.scope = ScopeOf(g, panel.rev)
           /\ \/ /\ d.verdict \in {"better", "route"}
                 /\ won.kind \in {"better", "route"} /\ won.node = d.best
                 /\ won.kind = "route" => won.node = won.scope.node
              \/ d.verdict = "outage" /\ won.kind = "outage"
<1>1. PICK scope : scope = ScopeOf(g, panel.rev)
  OBVIOUS
<1>2. Evaluated(d, scope, TransferStatus(tracker, scope))
  BY <1>1, DecisionStep
<1> QED
  BY <1>1, <1>2 DEF Evaluated, RoundInv, StreakInv, ScopeOf

-----------------------------------------------------------------------------
(* The shapes under the updates of the actions.                               *)

LEMMA NodeUpdate ==
    ASSUME NEW v, ViewShape(v), NEW g \in Selectors, NEW n
    PROVE  /\ ViewShape([v EXCEPT !.nodes[g] = n])
           /\ \A h \in Selectors : h # g =>
                 [v EXCEPT !.nodes[g] = n].nodes[h] = v.nodes[h]
           /\ [v EXCEPT !.nodes[g] = n].nodes[g] = n
           /\ [v EXCEPT !.nodes[g] = n].root = v.root
  BY DEF ViewShape

LEMMA RootUpdate ==
    ASSUME NEW v, ViewShape(v), NEW r
    PROVE  /\ ViewShape([v EXCEPT !.root = r])
           /\ [v EXCEPT !.root = r].nodes = v.nodes
           /\ [v EXCEPT !.root = r].root = r
  BY DEF ViewShape

(* A decision moves the node of its group alone; a route repair moves none.   *)
LEMMA SelectedNode ==
    ASSUME NEW v, ViewShape(v), NEW g \in Selectors, NEW d
    PROVE  /\ ViewShape(SelectNode(v, g, d))
           /\ \A h \in Selectors : h # g =>
                 SelectNode(v, g, d).nodes[h] = v.nodes[h]
           /\ d.verdict # "route" => SelectNode(v, g, d).nodes[g] = d.best
           /\ SelectNode(v, g, d).root = v.root
<1>1. CASE d.verdict = "route"
  BY <1>1 DEF SelectNode
<1>2. CASE d.verdict # "route"
  <2>1. SelectNode(v, g, d) = [v EXCEPT !.nodes[g] = d.best]
    BY <1>2 DEF SelectNode
  <2> QED
    BY <1>2, <2>1, NodeUpdate
<1> QED
  BY <1>1, <1>2

LEMMA JobUpdate ==
    ASSUME NEW job, JobShape(job), NEW still
    PROVE  JobShape([job EXCEPT !.live = still])
<1> DEFINE r(id, nodes, live) == [id |-> id, nodes |-> nodes, live |-> live]
<1>1. [r(job.id, job.nodes, job.live) EXCEPT !.live = still]
         = r(job.id, job.nodes, still)
  OBVIOUS
<1>2. [job EXCEPT !.live = still] = r(job.id, job.nodes, still)
  BY <1>1 DEF JobShape
<1> HIDE DEF r
<1>3. JobShape(r(job.id, job.nodes, still))
  BY DEF JobShape, r
<1> QED
  BY <1>2, <1>3

LEMMA JobsUpdate ==
    ASSUME NEW js, JobsShape(js), NEW g \in Selectors, NEW job,
           job # NoJob => JobShape(job)
    PROVE  /\ JobsShape([js EXCEPT ![g] = job])
           /\ \A h \in Selectors : h # g => [js EXCEPT ![g] = job][h] = js[h]
  BY DEF JobsShape

LEMMA TrackerUpdate ==
    ASSUME NEW tr, TrackerShape(tr), NEW scope, NEW snap
    PROVE  /\ TrackerShape(Observed(tr, scope, snap))
           /\ TrackerShape(Aged(tr))
           /\ Observed(tr, scope, snap).scope = scope
           /\ tr.scope = scope \/ Observed(tr, scope, snap).base = 0
           /\ Aged(tr).scope = tr.scope
           /\ tr.scope = NoScope => Aged(tr).base = tr.base
           /\ tr.scope = scope => Observed(tr, scope, snap).base = tr.base
  BY DEF TrackerShape, Observed, Baseline, Unseen, Aged

-----------------------------------------------------------------------------
(* The inductive invariant.                                                   *)

LEMMA RoundsInit == Init => RoundInv
<1> SUFFICES ASSUME Init PROVE RoundInv
  OBVIOUS
<1>1. ViewShape(ctl)
  BY DEF Init, ViewShape
<1>2. StateShape(state) /\ StreakInv
  BY DEF Init, StateShape, StreakInv, Fresh
<1>3. TrackerShape(tracker) /\ TrackerInv
  BY DEF Init, TrackerShape, TrackerInv, Unseen
<1>4. JobsShape(jobs) /\ nextId \in Nat \ {0}
  BY DEF Init, JobsShape
<1> QED
  BY <1>1, <1>2, <1>3, <1>4 DEF RoundInv, ShapeInv

(* The end of the process starts every streak and window afresh.              *)
LEMMA ExitStep ==
    ASSUME RoundInv, Exit, ViewShape(ctl')
    PROVE  RoundInv'
  BY DEF Exit, RoundInv, ShapeInv, StateShape, TrackerShape, JobsShape,
         TrackerInv, StreakInv, Fresh, Unseen

(* What was decided is what the streak left behind now says.                  *)
LEMMA DecidedStreak ==
    ASSUME RoundInv, NEW g \in Selectors, jobs[g] # NoJob,
           NEW d \in Decisions(g), state' = d.state, cfg' = cfg,
           IF d.verdict = "duplicate" THEN won' = won ELSE Remember(g, d)
    PROVE  StateShape(state') /\ StreakInv'
<1>1. PICK scope : scope = ScopeOf(g, panel.rev)
  OBVIOUS
<1>2. Evaluated(d, scope, TransferStatus(tracker, scope))
  BY <1>1, DecisionStep
<1>3. scope.selector = g
  BY <1>1 DEF ScopeOf
<1>4. CASE d.verdict = "duplicate"
  BY <1>2, <1>4 DEF Evaluated, RoundInv, ShapeInv, StreakInv
<1>5. CASE d.verdict # "duplicate" /\ d.act
  BY <1>2, <1>5 DEF Evaluated, StreakInv
<1>6. CASE d.verdict \in {"better", "route", "outage"} /\ ~d.act
  <2>1. cfg.selector = g
    BY <1>6, CountedSelector
  <2>2. won' = [kind |-> d.verdict, scope |-> scope,
                node |-> IF d.verdict = "outage" THEN NoNode ELSE d.best]
    BY <1>1, <1>6 DEF Remember
  <2>3. /\ StateShape(d.state) /\ ~(d.state.wins = 1 /\ d.state.failures = 1)
        /\ d.state.wins = 1 => /\ d.verdict \in {"better", "route"}
                               /\ d.state.pending = d.best
                               /\ d.state.scope = scope
        /\ d.state.failures = 1 => d.verdict = "outage" /\ d.state.scope = scope
        /\ d.verdict = "route" => d.best = scope.node
    BY <1>2, <1>6 DEF Evaluated
  <2> QED
    BY <1>3, <1>6, <2>1, <2>2, <2>3 DEF StreakInv
<1>7. CASE d.verdict \notin {"duplicate", "better", "route", "outage"}
  BY <1>2, <1>7 DEF Evaluated, StreakInv
<1> QED
  BY <1>4, <1>5, <1>6, <1>7

(* A round that ends, switching or not, leaves the invariant.                 *)
LEMMA RoundStep ==
    ASSUME RoundInv, NEW g \in Selectors,
           LoseRound(g) \/ DropRound(g) \/ DeferRound(g) \/ HoldRound(g)
              \/ SwitchRound(g) \/ SwitchFails(g)
    PROVE  RoundInv'
<1>1. CASE LoseRound(g)
  <2>1. JobShape(jobs[g])
    BY <1>1 DEF LoseRound, RoundInv, ShapeInv, JobsShape
  <2>2. JobShape([jobs[g] EXCEPT !.live = FALSE])
    BY <2>1, JobUpdate
  <2>3. jobs' = [jobs EXCEPT ![g] = [jobs[g] EXCEPT !.live = FALSE]]
    BY <1>1 DEF LoseRound, RoundInv, ShapeInv, JobsShape
  <2>4. JobsShape(jobs')
    BY <2>2, <2>3, JobsUpdate DEF RoundInv, ShapeInv
  <2> QED
    BY <1>1, <2>4 DEF LoseRound, RoundInv, ShapeInv, TrackerInv, StreakInv,
                      world, ghost, ViewShape, StateShape, TrackerShape
<1>2. CASE DropRound(g)
  <2>1. JobsShape(jobs')
    BY <1>2, JobsUpdate DEF DropRound, RoundInv, ShapeInv
  <2> QED
    BY <1>2, <2>1 DEF DropRound, RoundInv, ShapeInv, TrackerInv, StreakInv,
                      world, ghost, ViewShape, StateShape, TrackerShape
<1>3. CASE DeferRound(g)
  <2>1. JobsShape(jobs')
    BY <1>3, JobsUpdate DEF DeferRound, RoundInv, ShapeInv
  <2> QED
    BY <1>3, <2>1 DEF DeferRound, RoundInv, ShapeInv, TrackerInv, StreakInv,
                      world, ViewShape, StateShape, TrackerShape, Fresh
<1>4. CASE HoldRound(g)
  <2>1. PICK d \in Decisions(g) :
           /\ state' = d.state
           /\ IF d.verdict = "duplicate" THEN won' = won ELSE Remember(g, d)
    BY <1>4 DEF HoldRound
  <2>2. jobs[g] # NoJob /\ cfg' = cfg
    BY <1>4 DEF HoldRound
  <2>3. StateShape(state') /\ StreakInv'
    BY <2>1, <2>2, DecidedStreak
  <2>4. JobsShape(jobs')
    BY <1>4, JobsUpdate DEF HoldRound, RoundInv, ShapeInv
  <2> QED
    BY <1>4, <2>3, <2>4 DEF HoldRound, RoundInv, ShapeInv, TrackerInv,
                            world, ViewShape, TrackerShape
<1>5. CASE SwitchRound(g)
  <2>1. PICK d \in Decisions(g) :
           /\ d.act /\ state' = d.state /\ Remember(g, d)
           /\ ctl' = [SelectNode(ctl, g, d) EXCEPT
                         !.root = IF RouteNeeded(g) THEN g ELSE @]
    BY <1>5 DEF SwitchRound
  <2>2. jobs[g] # NoJob /\ cfg' = cfg
    BY <1>5 DEF SwitchRound
  <2>3. d.verdict # "duplicate"
    BY <2>1, <2>2, DecisionStep DEF Evaluated
  <2>4. StateShape(state') /\ StreakInv'
    BY <2>1, <2>2, <2>3, DecidedStreak
  <2>5. ViewShape(SelectNode(ctl, g, d))
    BY SelectedNode DEF RoundInv, ShapeInv
  <2>6. ViewShape(ctl')
    BY <2>1, <2>5, RootUpdate
  <2>7. JobsShape(jobs')
    BY <1>5, JobsUpdate DEF SwitchRound, RoundInv, ShapeInv
  <2> QED
    BY <1>5, <2>4, <2>6, <2>7 DEF SwitchRound, RoundInv, ShapeInv, TrackerInv,
                                  TrackerShape
<1>6. CASE SwitchFails(g)
  <2>1. PICK d \in Decisions(g) :
           LET one == SelectNode(ctl, g, d) IN
           ctl' \in {ctl, one,
                     [one EXCEPT !.root = IF RouteNeeded(g) THEN g ELSE @]}
    BY <1>6 DEF SwitchFails
  <2>2. ViewShape(SelectNode(ctl, g, d))
    BY SelectedNode DEF RoundInv, ShapeInv
  <2>3. CASE ctl' \in {ctl, SelectNode(ctl, g, d)}
    <3>1. ViewShape(ctl')
      BY <2>2, <2>3 DEF RoundInv, ShapeInv
    <3> QED
      BY <1>6, <3>1, ExitStep DEF SwitchFails
  <2>4. CASE ctl' = [SelectNode(ctl, g, d) EXCEPT
                        !.root = IF RouteNeeded(g) THEN g ELSE @]
    <3>1. ViewShape(ctl')
      BY <2>2, <2>4, RootUpdate
    <3> QED
      BY <1>6, <3>1, ExitStep DEF SwitchFails
  <2> QED
    BY <2>1, <2>3, <2>4
<1> QED
  BY <1>1, <1>2, <1>3, <1>4, <1>5, <1>6

(* Every other step of the worker leaves it.                                  *)
LEMMA WorkerStep ==
    ASSUME RoundInv,
           \/ StartRound \/ TakeSnapshot \/ ApplySnapshot \/ SnapshotFails
           \/ RefreshPanel \/ StartWorker \/ StopWorker
           \/ \E c \in Configs : ApplyConfig(c)
    PROVE  RoundInv'
<1> USE DEF RoundInv, ShapeInv
<1>1. CASE StartRound
  <2>1. PICK job : /\ jobs' = [jobs EXCEPT ![cfg.selector] = job]
                   /\ job = [id |-> nextId,
                             nodes |-> cached.nodes
                                          \cup {seen.nodes[cfg.selector]},
                             live |-> valid]
    BY <1>1 DEF StartRound
  <2>2. JobShape(job)
    BY <2>1 DEF JobShape
  <2>3. JobsShape(jobs')
    <3>1. CASE cfg.selector \in Selectors
      BY <2>1, <2>2, <3>1, JobsUpdate
    <3>2. CASE cfg.selector \notin Selectors
      BY <2>1, <3>2 DEF JobsShape
    <3> QED
      BY <3>1, <3>2
  <2>4. nextId' \in Nat \ {0}
    BY <1>1 DEF StartRound
  <2> QED
    BY <1>1, <2>3, <2>4 DEF StartRound, TrackerInv, StreakInv, world, ghost,
                            ViewShape, StateShape, TrackerShape
<1>2. CASE ApplySnapshot
  <2>1. TrackerShape(tracker') /\ TrackerInv'
    <3>1. CASE valid
      <4>1. PICK scope : /\ scope = ScopeOf(cfg.selector, cached.rev)
                         /\ tracker' = Observed(tracker, scope, fetch.snap)
        BY <1>2, <3>1 DEF ApplySnapshot
      <4>2. scope.selector = cfg.selector
        BY <4>1 DEF ScopeOf
      <4> QED
        BY <1>2, <4>1, <4>2, TrackerUpdate DEF ApplySnapshot, TrackerInv
    <3>2. CASE ~valid
      BY <1>2, <3>2 DEF ApplySnapshot, TrackerInv, TrackerShape
    <3> QED
      BY <3>1, <3>2
  <2> QED
    BY <1>2, <2>1 DEF ApplySnapshot, StreakInv, world, ViewShape, StateShape,
                      JobsShape
<1>3. CASE SnapshotFails
  <2>1. TrackerShape(tracker') /\ TrackerInv'
    BY <1>3 DEF SnapshotFails, TrackerShape, TrackerInv, Lost, Unseen
  <2> QED
    BY <1>3, <2>1 DEF SnapshotFails, StreakInv, world, ghost, ViewShape,
                      StateShape, JobsShape
<1>4. CASE TakeSnapshot \/ RefreshPanel
  BY <1>4 DEF TakeSnapshot, RefreshPanel, TrackerInv, StreakInv, world, ghost,
              ViewShape, StateShape, TrackerShape, JobsShape
<1>5. CASE StartWorker
  <2>1. ViewShape(ctl')
    BY <1>5 DEF StartWorker, ViewShape
  <2> QED
    BY <1>5, <2>1 DEF StartWorker, TrackerInv, StreakInv, ghost, StateShape,
                      TrackerShape, JobsShape
<1>6. CASE StopWorker
  <2>1. ViewShape(ctl')
    BY <1>6 DEF StopWorker, world, ViewShape
  <2> QED
    BY <1>6, <2>1, ExitStep DEF StopWorker
<1>7. ASSUME NEW c \in Configs, ApplyConfig(c) PROVE RoundInv'
  <2>1. CASE c = cfg
    BY <1>7, <2>1 DEF ApplyConfig, TrackerInv, StreakInv, world, ViewShape,
                      StateShape, TrackerShape, JobsShape
  <2>2. CASE c # cfg
    <3>1. StateShape(state') /\ TrackerShape(tracker')
      BY <1>7, <2>2 DEF ApplyConfig, StateShape, TrackerShape, Fresh, Unseen
    <3>2. TrackerInv' /\ StreakInv'
      BY <1>7, <2>2 DEF ApplyConfig, TrackerInv, StreakInv, Fresh, Unseen
    <3> QED
      BY <1>7, <3>1, <3>2 DEF ApplyConfig, world, ViewShape, JobsShape
  <2> QED
    BY <2>1, <2>2
<1> QED
  BY <1>1, <1>2, <1>3, <1>4, <1>5, <1>6, <1>7

(* So does what happens around it.                                            *)
LEMMA WorldStep ==
    ASSUME RoundInv, World
    PROVE  RoundInv'
<1> USE DEF RoundInv, ShapeInv
<1>1. CASE Tick
  <2>1. TrackerShape(tracker') /\ TrackerInv'
    BY <1>1, TrackerUpdate DEF Tick, TrackerInv
  <2> QED
    BY <1>1, <2>1 DEF Tick, StreakInv, world, ViewShape, StateShape, JobsShape
<1>2. ASSUME NEW g \in Selectors, NEW n \in Nodes, UserSelects(g, n)
      PROVE  RoundInv'
  <2>1. ctl' = [[ctl EXCEPT !.nodes[g] = n] EXCEPT !.root = g]
    BY <1>2 DEF UserSelects
  <2>2. ViewShape(ctl')
    BY <2>1, NodeUpdate, RootUpdate DEF RoundInv, ShapeInv
  <2> QED
    BY <1>2, <2>2 DEF UserSelects, TrackerInv, StreakInv, memory, ghost,
                      StateShape, TrackerShape, JobsShape
<1>3. CASE ToggleSession \/ NewPanel \/ \E s \in Settings : UserSets(s)
  BY <1>3 DEF ToggleSession, NewPanel, UserSets, TrackerInv, StreakInv, memory,
              ghost, ViewShape, StateShape, TrackerShape, JobsShape
<1>4. CASE \E c \in Conns : Connect(c) \/ Transfer(c) \/ Disconnect(c)
  BY <1>4 DEF Connect, Transfer, Disconnect, TrackerInv, StreakInv, memory,
              ghost, ViewShape, StateShape, TrackerShape, JobsShape
<1> QED
  BY <1>1, <1>2, <1>3, <1>4 DEF World

LEMMA RoundsStep == RoundInv /\ [Next]_vars => RoundInv'
<1> SUFFICES ASSUME RoundInv, [Next]_vars PROVE RoundInv'
  OBVIOUS
<1>1. CASE Worker
  BY <1>1, RoundStep, WorkerStep DEF Worker
<1>2. CASE World
  BY <1>2, WorldStep
<1>3. CASE UNCHANGED vars
  BY <1>3 DEF vars, world, memory, ghost, RoundInv, ShapeInv, TrackerInv,
              StreakInv, ViewShape, StateShape, TrackerShape, JobsShape
<1> QED
  BY <1>1, <1>2, <1>3 DEF Next

(* The invariant holds of every behaviour of the worker and the world.        *)
THEOREM RoundsInvariant == Spec => []RoundInv
  BY RoundsInit, RoundsStep, PTL DEF Spec

-----------------------------------------------------------------------------
(* The switches.                                                              *)

(* Only a round of the group, decided to act by an enabled worker, switches   *)
(* the group, and if it moves the node, then to the one it decided for.       *)
LEMMA SwitchStep ==
    ASSUME RoundInv, [Next]_vars, NEW g \in Selectors, AutoSwitch(g)
    PROVE  /\ cfg.enabled /\ jobs[g] # NoJob
           /\ \E d \in Decisions(g) :
                 /\ d.act
                 /\ ctl'.nodes \in {ctl.nodes, SelectNode(ctl, g, d).nodes}
<1>1. PICK h \in Selectors : SwitchRound(h) \/ SwitchFails(h)
  <2>1. ctl' # ctl /\ jobs' # jobs
    BY DEF AutoSwitch
  <2> QED
    BY <2>1 DEF Next, Worker, World, StartRound, TakeSnapshot, ApplySnapshot,
                SnapshotFails, RefreshPanel, StartWorker, StopWorker, LoseRound,
                DropRound, DeferRound, HoldRound, ApplyConfig, ToggleSession,
                NewPanel, Tick, UserSelects, UserSets, Connect, Transfer,
                Disconnect, vars, world, memory
<1>2. PICK d \in Decisions(h) :
         /\ d.act
         /\ ctl' \in {ctl, SelectNode(ctl, h, d),
                      [SelectNode(ctl, h, d) EXCEPT
                         !.root = IF RouteNeeded(h) THEN h ELSE @]}
  BY <1>1 DEF SwitchRound, SwitchFails
<1>3. /\ ViewShape(SelectNode(ctl, h, d))
      /\ \A i \in Selectors : i # h =>
            SelectNode(ctl, h, d).nodes[i] = ctl.nodes[i]
      /\ SelectNode(ctl, h, d).root = ctl.root
  BY SelectedNode DEF RoundInv, ShapeInv
<1>4. /\ ctl'.nodes \in {ctl.nodes, SelectNode(ctl, h, d).nodes}
      /\ ctl'.root \in {ctl.root, h}
  <2>1. CASE ctl' \in {ctl, SelectNode(ctl, h, d)}
    BY <1>3, <2>1
  <2>2. CASE ctl' = [SelectNode(ctl, h, d) EXCEPT
                       !.root = IF RouteNeeded(h) THEN h ELSE @]
    <3>1. PICK r \in {ctl.root, h} :
             ctl' = [SelectNode(ctl, h, d) EXCEPT !.root = r]
      BY <1>3, <2>2
    <3> QED
      BY <1>3, <3>1, RootUpdate
  <2> QED
    BY <1>2, <2>1, <2>2
<1>5. g = h
  BY <1>3, <1>4 DEF AutoSwitch
<1> QED
  BY <1>1, <1>2, <1>4, <1>5 DEF SwitchRound, SwitchFails, Works

(* Every automatic switch rests on two evaluations in a row of one scope      *)
(* (confirm_candidate, evaluate_emergency, reset_for_scope).                  *)
THEOREM SwitchesConfirmed == Spec => ConfirmedTwice
<1>1. ASSUME RoundInv, [Next]_vars
      PROVE  [\A g \in Selectors : AutoSwitch(g) =>
                /\ won.kind # "none" /\ won.scope = ScopeOf(g, panel.rev)
                /\ won.kind = "better" =>
                      ctl'.nodes[g] \in {won.node, ctl.nodes[g]}
                /\ won.kind = "route" => ctl'.nodes = ctl.nodes]_vars
  <2> SUFFICES ASSUME NEW g \in Selectors, AutoSwitch(g)
               PROVE  /\ won.kind # "none" /\ won.scope = ScopeOf(g, panel.rev)
                      /\ won.kind = "better" =>
                            ctl'.nodes[g] \in {won.node, ctl.nodes[g]}
                      /\ won.kind = "route" => ctl'.nodes = ctl.nodes
    OBVIOUS
  <2>1. PICK d \in Decisions(g) :
           /\ d.act
           /\ ctl'.nodes \in {ctl.nodes, SelectNode(ctl, g, d).nodes}
    BY <1>1, SwitchStep
  <2>2. jobs[g] # NoJob
    BY <1>1, SwitchStep
  <2>3. /\ won.scope = ScopeOf(g, panel.rev)
        /\ \/ /\ d.verdict \in {"better", "route"}
              /\ won.kind \in {"better", "route"} /\ won.node = d.best
              /\ won.kind = "route" => won.node = won.scope.node
           \/ d.verdict = "outage" /\ won.kind = "outage"
    BY <1>1, <2>1, <2>2, ActingDecision
  <2>4. d.verdict = "better" => d.best # won.scope.node
    BY <1>1, <2>2, <2>3, DecisionStep DEF Evaluated
  <2>5. d.verdict # "route" => SelectNode(ctl, g, d).nodes[g] = d.best
    <3>1. ViewShape(ctl)
      BY <1>1 DEF RoundInv, ShapeInv
    <3>2. SUFFICES ASSUME d.verdict # "route"
                   PROVE  SelectNode(ctl, g, d).nodes[g] = d.best
      OBVIOUS
    <3>3. SelectNode(ctl, g, d) = [ctl EXCEPT !.nodes[g] = d.best]
      BY <3>2 DEF SelectNode
    <3>4. [ctl EXCEPT !.nodes[g] = d.best].nodes[g] = d.best
      BY <3>1 DEF ViewShape
    <3> QED
      BY <3>3, <3>4
  <2>6. d.verdict = "route" => SelectNode(ctl, g, d) = ctl
    BY DEF SelectNode
  <2> QED
    BY <2>1, <2>3, <2>4, <2>5, <2>6
<1> QED
  BY <1>1, RoundsInvariant, PTL DEF Spec, ConfirmedTwice

(* A round left over from another configuration never switches its group.     *)
THEOREM SwitchesConfigured == Spec => OnlyConfiguredSelector
<1>1. ASSUME RoundInv, [Next]_vars
      PROVE  [\A g \in Selectors : AutoSwitch(g) =>
                 cfg.enabled /\ cfg.selector = g]_vars
  BY <1>1, SwitchStep, ActingDecision
<1> QED
  BY <1>1, RoundsInvariant, PTL DEF Spec, OnlyConfiguredSelector

-----------------------------------------------------------------------------
(* compare_node_quality is a strict total order on the nodes of a panel, and  *)
(* the scan that uses it ends with the best eligible node: for every set of   *)
(* nodes, every measurement and every order in which the nodes are looked at. *)

-----------------------------------------------------------------------------
(* FirstOf, on the lengths it is used with.                                   *)

LEMMA MinIs ==
    ASSUME NEW S \in SUBSET Int, NEW m \in S, \A x \in S : m <= x
    PROVE  Min(S) = m
  <1>1. \A n \in S : (\A x \in S : n <= x) => n = m
    OBVIOUS
  <1> QED BY <1>1 DEF Min

LEMMA FirstOf3 ==
    ASSUME NEW a \in Int, NEW b \in Int, NEW c \in Int
    PROVE  FirstOf(<<a, b, c>>) = IF a # 0 THEN a ELSE IF b # 0 THEN b ELSE c
  <1> DEFINE s == <<a, b, c>>
             apart == {i \in DOMAIN s : s[i] # 0}
  <1>1. /\ DOMAIN s = 1..3 /\ s[1] = a /\ s[2] = b /\ s[3] = c
        /\ apart \in SUBSET Int
    OBVIOUS
  <1>2. FirstOf(s) = IF apart = {} THEN 0 ELSE s[Min(apart)]
    BY DEF FirstOf
  <1> HIDE DEF s
  <1>3. CASE a # 0
    <2>1. 1 \in apart /\ \A i \in apart : 1 <= i
      BY <1>1, <1>3
    <2>2. Min(apart) = 1
      <3> HIDE DEF apart
      <3> QED BY <1>1, <2>1, MinIs
    <2> QED BY <1>1, <1>2, <1>3, <2>1, <2>2 DEF s
  <1>4. CASE a = 0 /\ b # 0
    <2>1. 2 \in apart /\ \A i \in apart : 2 <= i
      BY <1>1, <1>4
    <2>2. Min(apart) = 2
      <3> HIDE DEF apart
      <3> QED BY <1>1, <2>1, MinIs
    <2> QED BY <1>1, <1>2, <1>4, <2>1, <2>2 DEF s
  <1>5. CASE a = 0 /\ b = 0 /\ c # 0
    <2>1. 3 \in apart /\ \A i \in apart : 3 <= i
      BY <1>1, <1>5
    <2>2. Min(apart) = 3
      <3> HIDE DEF apart
      <3> QED BY <1>1, <2>1, MinIs
    <2> QED BY <1>1, <1>2, <1>5, <2>1, <2>2 DEF s
  <1>6. CASE a = 0 /\ b = 0 /\ c = 0
    <2>1. apart = {}
      BY <1>1, <1>6
    <2> QED BY <1>2, <1>6, <2>1 DEF s
  <1> QED BY <1>3, <1>4, <1>5, <1>6

LEMMA FirstOf4 ==
    ASSUME NEW a \in Int, NEW b \in Int, NEW c \in Int, NEW d \in Int
    PROVE  FirstOf(<<a, b, c, d>>) =
             IF a # 0 THEN a ELSE IF b # 0 THEN b ELSE IF c # 0 THEN c ELSE d
  <1> DEFINE s == <<a, b, c, d>>
             apart == {i \in DOMAIN s : s[i] # 0}
  <1>1. /\ DOMAIN s = 1..4 /\ s[1] = a /\ s[2] = b /\ s[3] = c /\ s[4] = d
        /\ apart \in SUBSET Int
    OBVIOUS
  <1>2. FirstOf(s) = IF apart = {} THEN 0 ELSE s[Min(apart)]
    BY DEF FirstOf
  <1> HIDE DEF s
  <1>3. ASSUME NEW k \in 1..4, s[k] # 0, \A i \in 1..4 : i < k => s[i] = 0
        PROVE  FirstOf(s) = s[k]
    <2>1. k \in apart /\ \A i \in apart : k <= i
      BY <1>1, <1>3
    <2>2. Min(apart) = k
      <3> HIDE DEF apart
      <3> QED BY <1>1, <2>1, MinIs
    <2> QED BY <1>2, <2>1, <2>2
  <1>4. CASE a # 0
    <2>1. \A i \in 1..4 : i < 1 => s[i] = 0
      OBVIOUS
    <2> QED BY <1>1, <1>3, <1>4, <2>1 DEF s
  <1>5. CASE a = 0 /\ b # 0
    <2>1. \A i \in 1..4 : i < 2 => s[i] = 0
      BY <1>1, <1>5
    <2> QED BY <1>1, <1>3, <1>5, <2>1 DEF s
  <1>6. CASE a = 0 /\ b = 0 /\ c # 0
    <2>1. \A i \in 1..4 : i < 3 => s[i] = 0
      BY <1>1, <1>6
    <2> QED BY <1>1, <1>3, <1>6, <2>1 DEF s
  <1>7. CASE a = 0 /\ b = 0 /\ c = 0 /\ d # 0
    <2>1. \A i \in 1..4 : i < 4 => s[i] = 0
      BY <1>1, <1>7
    <2> QED BY <1>1, <1>3, <1>7, <2>1 DEF s
  <1>8. CASE a = 0 /\ b = 0 /\ c = 0 /\ d = 0
    <2>1. apart = {}
      BY <1>1, <1>8
    <2> QED BY <1>2, <1>8, <2>1 DEF s
  <1> QED BY <1>4, <1>5, <1>6, <1>7, <1>8

-----------------------------------------------------------------------------
(* Comparisons that can be chained.                                           *)

Signs == {-1, 0, 1}

(* Of x with y, y with z, x with z and y with x: not worse twice is not worse, *)
(* and then equal only when both were equal; turned round, the answer is too. *)
Chains(xy, yz, xz, yx) ==
    /\ xy \in Signs /\ yz \in Signs /\ xz \in Signs
    /\ xy >= 0 /\ yz >= 0 => xz >= 0 /\ (xz = 0 => xy = 0 /\ yz = 0)
    /\ xy <= 0 /\ yz <= 0 => xz <= 0 /\ (xz = 0 => xy = 0 /\ yz = 0)
    /\ yx = -xy

(* The first comparison that tells the sides apart, of two.                   *)
Then(a, b) == IF a # 0 THEN a ELSE b

LEMMA ThenChains ==
    ASSUME NEW a1, NEW b1, NEW c1, NEW d1, NEW a2, NEW b2, NEW c2, NEW d2,
           Chains(a1, b1, c1, d1), Chains(a2, b2, c2, d2)
    PROVE  Chains(Then(a1, a2), Then(b1, b2), Then(c1, c2), Then(d1, d2))
  BY DEF Chains, Then, Signs

LEMMA CompareChains ==
    ASSUME NEW x \in Int, NEW y \in Int, NEW z \in Int
    PROVE  /\ Chains(Compare(x, y), Compare(y, z), Compare(x, z), Compare(y, x))
           /\ Compare(x, y) = 0 <=> x = y
  BY DEF Chains, Compare, Signs

LEMMA OptionalLowerChains ==
    ASSUME NEW x \in Measurement, NEW y \in Measurement, NEW z \in Measurement
    PROVE  Chains(CompareOptionalLower(x, y), CompareOptionalLower(y, z),
                  CompareOptionalLower(x, z), CompareOptionalLower(y, x))
  BY DEF Chains, CompareOptionalLower, Compare, Signs, Measurement, Missing

(* Ratios are compared without a division, so this is the one place where     *)
(* products decide: a/b >= c/d >= e/f gives a/b >= e/f.                       *)
LEMMA Positive ==
    ASSUME NEW n \in Nat
    PROVE  Max({n, 1}) \in Nat /\ Max({n, 1}) > 0
  <1>1. \E m \in {n, 1} : \A x \in {n, 1} : m >= x
    <2>1. CASE n >= 1
      BY <2>1
    <2>2. CASE n < 1
      BY <2>2
    <2> QED BY <2>1, <2>2
  <1> QED BY <1>1 DEF Max

LEMMA RatioTransitive ==
    ASSUME NEW a \in Nat, NEW b \in Nat, b > 0, NEW c \in Nat, NEW d \in Nat, d > 0,
           NEW e \in Nat, NEW f \in Nat, f > 0,
           a * d >= c * b, c * f >= e * d
    PROVE  /\ a * f >= e * b
           /\ a * d > c * b \/ c * f > e * d => a * f > e * b
  <1>1. /\ (a * d) * f >= (c * b) * f
        /\ (c * f) * b >= (e * d) * b
        /\ a * d > c * b => (a * d) * f > (c * b) * f
        /\ c * f > e * d => (c * f) * b > (e * d) * b
    OBVIOUS
  <1>2. /\ (a * d) * f = (a * f) * d /\ (c * b) * f = (c * f) * b
        /\ (e * d) * b = (e * b) * d
    OBVIOUS
  <1>3. /\ (a * f) * d >= (e * b) * d
        /\ a * d > c * b \/ c * f > e * d => (a * f) * d > (e * b) * d
    BY <1>1, <1>2
  <1>4. \A u, v \in Nat : /\ u * d >= v * d => u >= v
                          /\ u * d > v * d => u > v
    OBVIOUS
  <1> QED BY <1>3, <1>4

LEMMA RatioChains ==
    ASSUME NEW a \in Nat, NEW b \in Nat, NEW c \in Nat, NEW d \in Nat,
           NEW e \in Nat, NEW f \in Nat
    PROVE  Chains(CompareRatioHigher(a, b, c, d), CompareRatioHigher(c, d, e, f),
                  CompareRatioHigher(a, b, e, f), CompareRatioHigher(c, d, a, b))
  <1> DEFINE B == Max({b, 1})  D == Max({d, 1})  F == Max({f, 1})
  <1>1. B \in Nat /\ B > 0 /\ D \in Nat /\ D > 0 /\ F \in Nat /\ F > 0
    BY Positive
  <1>2. /\ CompareRatioHigher(a, b, c, d) = Compare(a * D, c * B)
        /\ CompareRatioHigher(c, d, a, b) = Compare(c * B, a * D)
        /\ CompareRatioHigher(c, d, e, f) = Compare(c * F, e * D)
        /\ CompareRatioHigher(a, b, e, f) = Compare(a * F, e * B)
    BY DEF CompareRatioHigher
  <1> HIDE DEF B, D, F
  <1>3. /\ a * D \in Nat /\ c * B \in Nat /\ c * F \in Nat /\ e * D \in Nat
        /\ a * F \in Nat /\ e * B \in Nat
    BY <1>1
  <1>4. a * D >= c * B /\ c * F >= e * D =>
          /\ a * F >= e * B
          /\ a * D > c * B \/ c * F > e * D => a * F > e * B
    BY <1>1, RatioTransitive
  <1>5. c * B >= a * D /\ e * D >= c * F =>
          /\ e * B >= a * F
          /\ c * B > a * D \/ e * D > c * F => e * B > a * F
    BY <1>1, RatioTransitive
  <1> DEFINE p == a * D  q == c * B  r == c * F  s == e * D  t == a * F  u == e * B
  <1>6. /\ p \in Nat /\ q \in Nat /\ r \in Nat /\ s \in Nat /\ t \in Nat /\ u \in Nat
        /\ p >= q /\ r >= s => t >= u /\ (p > q \/ r > s => t > u)
        /\ q >= p /\ s >= r => u >= t /\ (q > p \/ s > r => u > t)
    BY <1>3, <1>4, <1>5
  <1> HIDE DEF p, q, r, s, t, u
  <1>7. Chains(Compare(p, q), Compare(r, s), Compare(t, u), Compare(q, p))
    BY <1>6 DEF Chains, Compare, Signs
  <1> QED BY <1>2, <1>7 DEF p, q, r, s, t, u

-----------------------------------------------------------------------------
(* compare_node_quality.                                                      *)

LEMMA ThenOf3 ==
    ASSUME NEW a \in Signs, NEW b \in Signs, NEW c \in Signs
    PROVE  FirstOf(<<a, b, c>>) = Then(a, Then(b, c))
  <1>1. a \in Int /\ b \in Int /\ c \in Int
    BY DEF Signs
  <1>2. FirstOf(<<a, b, c>>) = IF a # 0 THEN a ELSE IF b # 0 THEN b ELSE c
    BY <1>1, FirstOf3
  <1> QED BY <1>2 DEF Then

LEMMA ThenOf4 ==
    ASSUME NEW a \in Signs, NEW b \in Signs, NEW c \in Signs, NEW d \in Signs
    PROVE  FirstOf(<<a, b, c, d>>) = Then(a, Then(b, Then(c, d)))
  <1>1. a \in Int /\ b \in Int /\ c \in Int /\ d \in Int
    BY DEF Signs
  <1>2. FirstOf(<<a, b, c, d>>) =
          IF a # 0 THEN a ELSE IF b # 0 THEN b ELSE IF c # 0 THEN c ELSE d
    BY <1>1, FirstOf4
  <1> QED BY <1>2 DEF Then

LEMMA FirstOf3Chains ==
    ASSUME NEW a1, NEW b1, NEW c1, NEW d1, NEW a2, NEW b2, NEW c2, NEW d2,
           NEW a3, NEW b3, NEW c3, NEW d3,
           Chains(a1, b1, c1, d1), Chains(a2, b2, c2, d2), Chains(a3, b3, c3, d3)
    PROVE  /\ Chains(FirstOf(<<a1, a2, a3>>), FirstOf(<<b1, b2, b3>>),
                     FirstOf(<<c1, c2, c3>>), FirstOf(<<d1, d2, d3>>))
           /\ FirstOf(<<a1, a2, a3>>) = 0 => a3 = 0
  <1>1. /\ a1 \in Signs /\ a2 \in Signs /\ a3 \in Signs
        /\ b1 \in Signs /\ b2 \in Signs /\ b3 \in Signs
        /\ c1 \in Signs /\ c2 \in Signs /\ c3 \in Signs
        /\ d1 \in Signs /\ d2 \in Signs /\ d3 \in Signs
    BY DEF Chains, Signs
  <1>2. /\ FirstOf(<<a1, a2, a3>>) = Then(a1, Then(a2, a3))
        /\ FirstOf(<<b1, b2, b3>>) = Then(b1, Then(b2, b3))
        /\ FirstOf(<<c1, c2, c3>>) = Then(c1, Then(c2, c3))
        /\ FirstOf(<<d1, d2, d3>>) = Then(d1, Then(d2, d3))
    BY <1>1, ThenOf3
  <1>3. Chains(Then(a2, a3), Then(b2, b3), Then(c2, c3), Then(d2, d3))
    BY ThenChains
  <1>4. Chains(Then(a1, Then(a2, a3)), Then(b1, Then(b2, b3)), Then(c1, Then(c2, c3)),
               Then(d1, Then(d2, d3)))
    BY <1>3, ThenChains
  <1>5. Then(a1, Then(a2, a3)) = 0 => a3 = 0
    BY <1>1 DEF Then, Signs
  <1> QED BY <1>2, <1>4, <1>5

LEMMA FirstOf4Chains ==
    ASSUME NEW a1, NEW b1, NEW c1, NEW d1, NEW a2, NEW b2, NEW c2, NEW d2,
           NEW a3, NEW b3, NEW c3, NEW d3, NEW a4, NEW b4, NEW c4, NEW d4,
           Chains(a1, b1, c1, d1), Chains(a2, b2, c2, d2), Chains(a3, b3, c3, d3),
           Chains(a4, b4, c4, d4)
    PROVE  Chains(FirstOf(<<a1, a2, a3, a4>>), FirstOf(<<b1, b2, b3, b4>>),
                  FirstOf(<<c1, c2, c3, c4>>), FirstOf(<<d1, d2, d3, d4>>))
  <1>1. /\ a1 \in Signs /\ a2 \in Signs /\ a3 \in Signs /\ a4 \in Signs
        /\ b1 \in Signs /\ b2 \in Signs /\ b3 \in Signs /\ b4 \in Signs
        /\ c1 \in Signs /\ c2 \in Signs /\ c3 \in Signs /\ c4 \in Signs
        /\ d1 \in Signs /\ d2 \in Signs /\ d3 \in Signs /\ d4 \in Signs
    BY DEF Chains, Signs
  <1>2. /\ FirstOf(<<a1, a2, a3, a4>>) = Then(a1, Then(a2, Then(a3, a4)))
        /\ FirstOf(<<b1, b2, b3, b4>>) = Then(b1, Then(b2, Then(b3, b4)))
        /\ FirstOf(<<c1, c2, c3, c4>>) = Then(c1, Then(c2, Then(c3, c4)))
        /\ FirstOf(<<d1, d2, d3, d4>>) = Then(d1, Then(d2, Then(d3, d4)))
    BY <1>1, ThenOf4
  <1>3. Chains(Then(a3, a4), Then(b3, b4), Then(c3, c4), Then(d3, d4))
    BY ThenChains
  <1>4. Chains(Then(a2, Then(a3, a4)), Then(b2, Then(b3, b4)), Then(c2, Then(c3, c4)),
               Then(d2, Then(d3, d4)))
    BY <1>3, ThenChains
  <1>5. Chains(Then(a1, Then(a2, Then(a3, a4))), Then(b1, Then(b2, Then(b3, b4))),
               Then(c1, Then(c2, Then(c3, c4))), Then(d1, Then(d2, Then(d3, d4))))
    BY <1>4, ThenChains
  <1> QED BY <1>2, <1>5

LEMMA PolicyChains ==
    ASSUME NEW p \in Policies, NEW x \in FactRecords, NEW y \in FactRecords,
           NEW z \in FactRecords
    PROVE  Chains(ComparePolicy(p, x, y), ComparePolicy(p, y, z),
                  ComparePolicy(p, x, z), ComparePolicy(p, y, x))
  <1> DEFINE
        Quick(l, r) == CompareQuick(l, r)
        Warm(l, r) == CompareOptionalLower(l.warm, r.warm)
        P95(l, r) == CompareOptionalLower(l.p95, r.p95)
        Cold(l, r) == CompareOptionalLower(l.cold, r.cold)
        Speed(l, r) == Compare(l.speed, r.speed)
        Long(l, r) == CompareRatioHigher(l.longOk, l.longTries, r.longOk, r.longTries)
  <1>1. /\ Chains(Quick(x, y), Quick(y, z), Quick(x, z), Quick(y, x))
        /\ Chains(Long(x, y), Long(y, z), Long(x, z), Long(y, x))
    BY RatioChains DEF FactRecords, CompareQuick
  <1>2. /\ Chains(Warm(x, y), Warm(y, z), Warm(x, z), Warm(y, x))
        /\ Chains(P95(x, y), P95(y, z), P95(x, z), P95(y, x))
        /\ Chains(Cold(x, y), Cold(y, z), Cold(x, z), Cold(y, x))
    BY OptionalLowerChains DEF FactRecords
  <1>3. Chains(Speed(x, y), Speed(y, z), Speed(x, z), Speed(y, x))
    BY CompareChains DEF FactRecords, Measurement, Missing
  <1>4. CASE p = "balanced"
    <2> DEFINE Keys(l, r) == FirstOf(<<Quick(l, r), Warm(l, r), P95(l, r), Speed(l, r)>>)
    <2>1. \A l, r : ComparePolicy(p, l, r) = Keys(l, r)
      BY <1>4 DEF ComparePolicy
    <2>2. Chains(Keys(x, y), Keys(y, z), Keys(x, z), Keys(y, x))
      <3> HIDE DEF Quick, Warm, P95, Cold, Speed, Long
      <3> QED BY <1>1, <1>2, <1>3, FirstOf4Chains
    <2> QED BY <2>1, <2>2
  <1>5. CASE p = "low_latency"
    <2> DEFINE Keys(l, r) == FirstOf(<<Warm(l, r), P95(l, r), Cold(l, r), Quick(l, r)>>)
    <2>1. \A l, r : ComparePolicy(p, l, r) = Keys(l, r)
      BY <1>5 DEF ComparePolicy
    <2>2. Chains(Keys(x, y), Keys(y, z), Keys(x, z), Keys(y, x))
      <3> HIDE DEF Quick, Warm, P95, Cold, Speed, Long
      <3> QED BY <1>1, <1>2, <1>3, FirstOf4Chains
    <2> QED BY <2>1, <2>2
  <1>6. CASE p = "throughput"
    <2> DEFINE Keys(l, r) == FirstOf(<<Speed(l, r), Long(l, r), P95(l, r), Cold(l, r)>>)
    <2>1. \A l, r : ComparePolicy(p, l, r) = Keys(l, r)
      BY <1>6 DEF ComparePolicy
    <2>2. Chains(Keys(x, y), Keys(y, z), Keys(x, z), Keys(y, x))
      <3> HIDE DEF Quick, Warm, P95, Cold, Speed, Long
      <3> QED BY <1>1, <1>2, <1>3, FirstOf4Chains
    <2> QED BY <2>1, <2>2
  <1> QED BY <1>4, <1>5, <1>6 DEF Policies

(* Better is a strict order, and two nodes at different places of the config  *)
(* are never equal.                                                           *)
LEMMA QualityOrder ==
    ASSUME NEW p \in Policies, NEW x \in FactRecords, NEW y \in FactRecords,
           NEW z \in FactRecords
    PROVE  /\ Chains(CompareNodeQuality(p, x, y), CompareNodeQuality(p, y, z),
                     CompareNodeQuality(p, x, z), CompareNodeQuality(p, y, x))
           /\ CompareNodeQuality(p, x, y) = 0 => x.order = y.order
  <1> DEFINE Tier(l, r) == Compare(l.tier, r.tier)
             Order(l, r) == Compare(r.order, l.order)
             ByPolicy(l, r) == ComparePolicy(p, l, r)
             Keys(l, r) == FirstOf(<<Tier(l, r), ByPolicy(l, r), Order(l, r)>>)
  <1>1. /\ Chains(Tier(x, y), Tier(y, z), Tier(x, z), Tier(y, x))
        /\ Chains(Order(x, y), Order(y, z), Order(x, z), Order(y, x))
        /\ Order(x, y) = 0 => x.order = y.order
    BY DEF FactRecords, Compare, Chains, Signs
  <1>2. Chains(ByPolicy(x, y), ByPolicy(y, z), ByPolicy(x, z), ByPolicy(y, x))
    BY PolicyChains
  <1>3. \A l, r : CompareNodeQuality(p, l, r) = Keys(l, r)
    BY DEF CompareNodeQuality
  <1>4. /\ Chains(Keys(x, y), Keys(y, z), Keys(x, z), Keys(y, x))
        /\ Keys(x, y) = 0 => Order(x, y) = 0
    <2> HIDE DEF Tier, Order, ByPolicy
    <2> QED BY <1>1, <1>2, FirstOf3Chains
  <1> QED BY <1>1, <1>3, <1>4

(* The gate of material_improvement does not flap: with measurements above    *)
(* zero, of two nodes of a panel at most one is a reason to leave the other.  *)
THEOREM ImprovementAsymmetric ==
    ASSUME NEW p \in Policies, NEW x \in FactRecords, NEW y \in FactRecords,
           0 \notin {x.warm, y.warm, x.speed, y.speed},
           MaterialImprovement(p, TRUE, x, y) = "yes"
    PROVE  MaterialImprovement(p, TRUE, y, x) # "yes"
  <1>1. CASE x.tier # y.tier
    BY <1>1 DEF MaterialImprovement, FactRecords
  <1>2. CASE x.tier = y.tier
    <2>1. MaterialGain(p, x, y) = "yes"
      BY <1>2 DEF MaterialImprovement
    <2>2. MaterialGain(p, y, x) # "yes"
      BY <2>1 DEF MaterialGain, FactRecords, Measurement, Missing
    <2> QED BY <1>2, <2>2 DEF MaterialImprovement
  <1> QED BY <1>1, <1>2

-----------------------------------------------------------------------------
(* The scan.                                                                  *)

ScanTypeOK ==
    /\ policy \in Policies
    /\ known \in [Members -> MemberFacts]
    /\ todo \subseteq Members
    /\ leader \in (Members \ todo) \cup {Nobody}

(* max_by so far: the best of the candidates that were looked at.             *)
BestSoFar ==
    /\ leader = Nobody => \A n \in Members \ todo : ~Candidate(n)
    /\ leader # Nobody =>
         /\ Candidate(leader)
         /\ \A n \in Members \ todo : Candidate(n) /\ n # leader =>
                CompareNodeQuality(policy, Fact(leader), Fact(n)) > 0

ScanInv == ScanTypeOK /\ BestSoFar

LEMMA FactOrder ==
    ASSUME ScanTypeOK, NEW x \in Members, NEW y \in Members, NEW z \in Members
    PROVE  /\ Chains(CompareNodeQuality(policy, Fact(x), Fact(y)),
                     CompareNodeQuality(policy, Fact(y), Fact(z)),
                     CompareNodeQuality(policy, Fact(x), Fact(z)),
                     CompareNodeQuality(policy, Fact(y), Fact(x)))
           /\ CompareNodeQuality(policy, Fact(x), Fact(y)) = 0 => x = y
  <1>1. \A n \in Members : Fact(n) \in FactRecords /\ Fact(n).order = n
    BY ScanAssumption DEF ScanTypeOK, Fact, FactRecords
  <1>2. policy \in Policies
    BY DEF ScanTypeOK
  <1> QED BY <1>1, <1>2, QualityOrder

LEMMA ScanStep ==
    ASSUME ScanInv, [ScanNext]_scanVars
    PROVE  ScanInv'
  <1> USE DEF ScanInv
  <1>1. ASSUME NEW n \in Members, Skip(n)
        PROVE  ScanInv'
    BY <1>1 DEF Skip, ScanTypeOK, BestSoFar, Candidate, Fact, input
  <1>2. ASSUME NEW n \in Members, Consider(n)
        PROVE  ScanInv'
    <2> DEFINE Cmp(l, r) == CompareNodeQuality(policy, Fact(l), Fact(r))
    <2>1. /\ n \in todo /\ Candidate(n) /\ todo' = todo \ {n} /\ UNCHANGED input
          /\ leader' = IF leader = Nobody \/ Cmp(leader, n) <= 0 THEN n ELSE leader
      BY <1>2 DEF Consider
    <2>2. /\ \A m \in Members : Candidate(m)' = Candidate(m)
          /\ \A l, r \in Members :
               CompareNodeQuality(policy, Fact(l), Fact(r))' = Cmp(l, r)
      BY <2>1 DEF input, Candidate, Fact
    <2>3. /\ n # Nobody /\ ScanTypeOK'
          /\ Members \ todo' = (Members \ todo) \cup {n}
      BY <2>1, ScanAssumption DEF ScanTypeOK, input
    <2>4. \A x, y, z \in Members :
            /\ Chains(Cmp(x, y), Cmp(y, z), Cmp(x, z), Cmp(y, x))
            /\ Cmp(x, y) = 0 => x = y
      BY FactOrder
    <2> HIDE DEF Cmp
    <2>5. CASE leader = Nobody
      <3>1. leader' = n /\ \A m \in Members \ todo : ~Candidate(m)
        BY <2>1, <2>5 DEF BestSoFar
      <3> QED BY <2>1, <2>2, <2>3, <3>1 DEF BestSoFar
    <2>6. CASE leader # Nobody /\ Cmp(leader, n) <= 0
      <3>1. leader \in Members /\ leader # n
        BY <2>1, <2>6 DEF ScanTypeOK
      <3>2. Cmp(n, leader) > 0
        BY <2>4, <2>6, <3>1 DEF Chains, Signs
      <3>3. \A m \in Members \ todo : Candidate(m) /\ m # leader => Cmp(leader, m) > 0
        BY <2>6 DEF BestSoFar, Cmp
      <3>4. \A m \in Members \ todo : Candidate(m) => Cmp(n, m) > 0
        BY <2>4, <3>1, <3>2, <3>3 DEF Chains, Signs
      <3>5. leader' = n
        BY <2>1, <2>6
      <3> QED BY <2>1, <2>2, <2>3, <3>4, <3>5 DEF BestSoFar
    <2>7. CASE leader # Nobody /\ ~(Cmp(leader, n) <= 0)
      <3>1. leader \in Members /\ leader' = leader
        BY <2>1, <2>7 DEF ScanTypeOK
      <3>2. /\ Candidate(leader)
            /\ \A m \in Members \ todo : Candidate(m) /\ m # leader => Cmp(leader, m) > 0
        BY <2>7 DEF BestSoFar, Cmp
      <3>3. Cmp(leader, n) > 0
        BY <2>4, <2>7, <3>1 DEF Chains, Signs
      <3> QED BY <2>1, <2>2, <2>3, <3>1, <3>2, <3>3 DEF BestSoFar
    <2> QED BY <2>5, <2>6, <2>7
  <1>3. CASE UNCHANGED scanVars
    BY <1>3 DEF scanVars, ScanTypeOK, BestSoFar, Candidate, Fact
  <1> QED BY <1>1, <1>2, <1>3 DEF ScanNext

(* evaluate's max_by: in whatever order the members of the selector are       *)
(* scanned, it ends with the candidate that beats every other one, and with   *)
(* none only when there is no candidate.                                      *)
THEOREM ScanCorrect == ScanSpec => []ScanFindsBest
  <1>1. ScanInit => ScanInv
    BY ScanAssumption DEF ScanInit, ScanInv, ScanTypeOK, BestSoFar
  <1>2. ScanInv /\ [ScanNext]_scanVars => ScanInv'
    BY ScanStep
  <1>3. ScanInv => ScanFindsBest
    BY ScanAssumption DEF ScanInv, ScanTypeOK, BestSoFar, ScanFindsBest
  <1> QED BY <1>1, <1>2, <1>3, PTL DEF ScanSpec
=============================================================================
