--------------------------- MODULE MCAutoSelection ---------------------------
EXTENDS AutoSelection, TLC

MCFact(t, w) ==
    [tier |-> t, quickOk |-> 1, quickRounds |-> 1, warm |-> w,
     p95 |-> Missing, cold |-> Missing, longOk |-> 0, longTries |-> 0,
     speed |-> Missing, order |-> 0]

(* Not assessed, down, reachable, and reachable with exactly 20% less delay.  *)
MCFacts == {MCFact(Missing, Missing), MCFact(Unreachable, Missing),
            MCFact(Reachable, 5), MCFact(Reachable, 4)}
MCReachable == {MCFact(Unreachable, Missing), MCFact(Reachable, 5),
                MCFact(Reachable, 4)}

MCUp == {MCFact(Reachable, 5), MCFact(Reachable, 4)}

AllNodes == {Nodes}
FirstOrAll == {{Min(Nodes)}, Nodes}

(* Settings are only compared with each other.                                *)
SettingSymmetry == Permutations(Settings)

(* Rounds without end, under one panel and one setting: what MCTransferGuard  *)
(* moves is held still.                                                       *)
RoundsNext == Next /\ UNCHANGED <<panel, setting>>
RoundsSpec == Init /\ [][RoundsNext]_vars
=============================================================================
