--------------------------- MODULE MCNodeQuality ---------------------------
(* NodeQuality on small instances: one node and the private-access bridge,    *)
(* a foreground TUI, a headless worker and a subscription refresh.            *)
EXTENDS NodeQuality, TLC

CONSTANTS n1, bridge, f1, f2, b1

MCTags == {n1, bridge}
MCFingerprints == {f1, f2, b1}
MCPayloads == {[t \in MCTags |-> IF t = n1 THEN f ELSE NoFingerprint] :
                 f \in {f1, f2}}
=============================================================================
