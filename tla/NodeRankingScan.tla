--------------------------- MODULE NodeRankingScan ---------------------------
(* The scan that evaluate makes over the facts of a round: members outside    *)
(* the panel and ineligible ones are skipped, max_by keeps the best so far.   *)
(* The order of the members is left open: the answer must not depend on it.   *)
EXTENDS NodeRanking

CONSTANTS
    Members,        \* members of the selector: numbers, in config order
    MemberFacts,    \* what can be known of a node
    Nobody          \* no best node yet

(* Counts, and measurements or none.                                          *)
Measurement == Nat \cup {Missing}
FactRecords ==
    [tier : Int, quickOk : Nat, quickRounds : Nat, warm : Measurement,
     p95 : Measurement, cold : Measurement, longOk : Nat, longTries : Nat,
     speed : Measurement, order : Int]

ASSUME ScanAssumption ==
    /\ Members \subseteq Int /\ Nobody \notin Members
    /\ MemberFacts \subseteq FactRecords

VARIABLES policy, known, included, todo, leader
scanVars == <<policy, known, included, todo, leader>>
input == <<policy, known, included>>

Fact(n) == [known[n] EXCEPT !.order = n]

ScanInit ==
    /\ policy \in Policies
    /\ known \in [Members -> MemberFacts]
    /\ included \in SUBSET Members
    /\ todo = Members
    /\ leader = Nobody

Candidate(n) == n \in included /\ IsEligible(policy, Fact(n))

Skip(n) ==
    /\ n \in todo /\ ~Candidate(n)
    /\ todo' = todo \ {n}
    /\ UNCHANGED <<input, leader>>

(* max_by: a later node that is at least as good replaces the best so far.    *)
Consider(n) ==
    /\ n \in todo /\ Candidate(n)
    /\ todo' = todo \ {n}
    /\ leader' = IF leader = Nobody
                  \/ CompareNodeQuality(policy, Fact(leader), Fact(n)) <= 0
               THEN n ELSE leader
    /\ UNCHANGED input

ScanNext == \E n \in Members : Skip(n) \/ Consider(n)
ScanSpec == ScanInit /\ [][ScanNext]_scanVars

-----------------------------------------------------------------------------
(* Whatever the order of the members, evaluate's max_by ends with a candidate *)
(* that beats every other one: compare_node_quality is a strict total order   *)
(* even where measurements are missing or a node was never tried.             *)
ScanFindsBest ==
    todo = {} =>
        /\ leader = Nobody <=> \A n \in Members : ~Candidate(n)
        /\ \A n \in Members : Candidate(n) /\ n # leader =>
               CompareNodeQuality(policy, Fact(leader), Fact(n)) > 0
=============================================================================
