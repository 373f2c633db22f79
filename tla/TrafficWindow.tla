---------------------------- MODULE TrafficWindow ----------------------------
(* ActiveNodeTrafficTracker of automatic_selection.rs: from snapshots of the  *)
(* controller's connections, how much the current node carried lately.        *)
(*                                                                            *)
(* Time is counted in ticks, and an instant is kept as its age.  The queue of *)
(* (instant, growth) pairs becomes the bytes found at each age up to Window;  *)
(* letting them age past Window is what prune does.                           *)
EXTENDS Integers, Functions

CONSTANTS
    Conns,         \* connection ids; an id is never used again
    NoNode,        \* the chain of a connection that does not exist
    Window,        \* ACTIVE_TRANSFER_WINDOW
    StaleAfter,    \* ACTIVE_TRANSFER_STALE_AFTER
    Threshold,     \* ACTIVE_TRANSFER_THRESHOLD_BYTES
    NoScope        \* nothing observed yet

ASSUME WindowAssumption ==
    Window \in Nat \ {0} /\ StaleAfter \in Nat /\ Threshold \in Nat

Absent == -1
Quiet == [a \in 0..Window |-> 0]
NoTotals == [c \in Conns |-> Absent]
SumOf(x) == SumFunctionOnSet(x, DOMAIN x)

Unseen ==
    [scope |-> NoScope, base |-> 0, last |-> 0, totals |-> NoTotals,
     growth |-> Quiet, lost |-> FALSE]

(* mark_unavailable: a failed fetch forgets everything.                       *)
Lost == [Unseen EXCEPT !.lost = TRUE]

(* Lifetime totals of the connections whose chain names the node.             *)
TotalsOn(snap, node) ==
    [c \in Conns |-> IF snap[c].node = node THEN snap[c].total ELSE Absent]

(* Fault: a connection seen for the first time counts for nothing.            *)
BugDelta(old, new) ==
    IF new = Absent \/ old = Absent THEN 0
    ELSE IF new < old THEN new ELSE new - old

(* Growth of one connection; a new one, or a reset counter, counts in full.   *)
Delta(old, new) ==
    IF new = Absent THEN 0
    ELSE IF old = Absent \/ new < old THEN new ELSE new - old

Growth(tr, totals) ==
    SumOf([c \in Conns |-> Delta(tr.totals[c], totals[c])])

(* reset_to_baseline: a new scope starts a new window.                        *)
Baseline(scope, snap) ==
    [Unseen EXCEPT !.scope = scope, !.totals = TotalsOn(snap, scope.node)]

Observed(tr, scope, snap) ==
    LET totals == TotalsOn(snap, scope.node) IN
    IF tr.scope # scope
    THEN Baseline(scope, snap)
    ELSE [tr EXCEPT !.totals = totals, !.last = 0,
                    !.growth[0] = @ + Growth(tr, totals)]

Older(age, cap) == IF age < cap THEN age + 1 ELSE cap
Shifted(x) == [a \in 0..Window |-> IF a = 0 THEN 0 ELSE x[a - 1]]

(* One tick later.                                                            *)
Aged(tr) ==
    IF tr.scope = NoScope THEN tr ELSE
    [tr EXCEPT !.base = Older(@, Window), !.last = Older(@, StaleAfter + 1),
               !.growth = Shifted(@)]

(* status(): what evaluate is told about the current node's transfers.        *)
TransferStatus(tr, scope) ==
    IF tr.lost THEN "unavailable"
    ELSE IF tr.scope # scope THEN "warming"
    ELSE IF tr.last > StaleAfter THEN "unavailable"
    ELSE IF tr.base < Window THEN "warming"
    ELSE IF SumOf(tr.growth) > Threshold THEN "active"
    ELSE IF SumOf(tr.growth) > 0 THEN "idle" ELSE "silent"
=============================================================================
