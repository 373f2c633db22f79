----------------------------- MODULE NodeRanking -----------------------------
(* How automatic selection ranks nodes: compare_node_quality, eligibility and *)
(* the 20% material-improvement gate of automatic_selection.rs, and the scan  *)
(* (Iterator::max_by) that picks the best eligible node of a panel.           *)
(*                                                                            *)
(* A fact record holds what is known of one node.  An absent measurement is   *)
(* Missing, which is below every number, as None is below every Some.         *)
EXTENDS Integers, FiniteSetsExt

Missing == -1

(* Reachability tiers: successes of a complete three-attempt assessment.      *)
Unreachable == 0
Degraded == 1
Reachable == 2
StableReachable == 3
FromSuccesses(n) == Min({n, 3})

Policies == {"balanced", "low_latency", "throughput"}

-----------------------------------------------------------------------------
(* Orderings: -1, 0 or 1 as the left side is worse, equal or better.          *)

Compare(l, r) == IF l < r THEN -1 ELSE IF l > r THEN 1 ELSE 0

(* The first comparison that tells the two sides apart.                       *)
FirstOf(cmps) ==
    LET apart == {i \in DOMAIN cmps : cmps[i] # 0} IN
    IF apart = {} THEN 0 ELSE cmps[Min(apart)]

(* Fault: a node never tried has an undefined ratio, equal to every other.    *)
BugCompareRatioHigher(ls, ln, rs, rn) == Compare(ls * rn, rs * ln)

(* Success ratios by cross multiplication; no attempts counts as one failure. *)
CompareRatioHigher(ls, ln, rs, rn) ==
    Compare(ls * Max({rn, 1}), rs * Max({ln, 1}))

(* Known beats unknown, then the lower value wins.                            *)
CompareOptionalLower(l, r) ==
    IF l # Missing /\ r # Missing THEN Compare(r, l) ELSE Compare(l, r)

CompareQuick(l, r) ==
    CompareRatioHigher(l.quickOk, l.quickRounds, r.quickOk, r.quickRounds)

ComparePolicy(policy, l, r) ==
    CASE policy = "balanced" ->
           FirstOf(<<CompareQuick(l, r),
                     CompareOptionalLower(l.warm, r.warm),
                     CompareOptionalLower(l.p95, r.p95),
                     Compare(l.speed, r.speed)>>)
      [] policy = "low_latency" ->
           FirstOf(<<CompareOptionalLower(l.warm, r.warm),
                     CompareOptionalLower(l.p95, r.p95),
                     CompareOptionalLower(l.cold, r.cold),
                     CompareQuick(l, r)>>)
      [] policy = "throughput" ->
           FirstOf(<<Compare(l.speed, r.speed),
                     CompareRatioHigher(l.longOk, l.longTries,
                                        r.longOk, r.longTries),
                     CompareOptionalLower(l.p95, r.p95),
                     CompareOptionalLower(l.cold, r.cold)>>)

(* compare_node_quality: the tier first, the config order last.               *)
CompareNodeQuality(policy, l, r) ==
    FirstOf(<<Compare(l.tier, r.tier), ComparePolicy(policy, l, r),
              Compare(r.order, l.order)>>)

IsEligible(policy, f) ==
    /\ f.tier >= Reachable
    /\ policy = "throughput" => f.speed # Missing

(* At least 20% better, exactly, or unknown without both measurements.        *)
MaterialGain(policy, current, candidate) ==
    IF policy = "throughput"
    THEN IF current.speed = Missing \/ candidate.speed = Missing
         THEN "unknown"
         ELSE IF candidate.speed * 5 >= current.speed * 6 THEN "yes" ELSE "no"
    ELSE IF current.warm = Missing \/ candidate.warm = Missing
         THEN "unknown"
         ELSE IF candidate.warm * 5 <= current.warm * 4 THEN "yes" ELSE "no"

(* material_improvement: a tier decides alone; a current node outside the     *)
(* panel is left for any candidate; otherwise the 20% gate applies.           *)
MaterialImprovement(policy, currentIncluded, current, candidate) ==
    IF candidate.tier # current.tier
    THEN IF candidate.tier > current.tier THEN "yes" ELSE "no"
    ELSE IF ~currentIncluded THEN "yes"
    ELSE MaterialGain(policy, current, candidate)

(* The best of a set of fact records; the config order makes it unique.       *)
BestOf(policy, fs) ==
    CHOOSE b \in fs : \A f \in fs : CompareNodeQuality(policy, b, f) >= 0
=============================================================================
