------------------------------ MODULE NodeFacts ------------------------------
(* What node-quality persistence promises, with no process, lock, marker or   *)
(* crash in it: a table that binds node tags to configuration fingerprints    *)
(* and a set of facts.  A fact names the tag it is filed under and the        *)
(* fingerprint of the outbound that really carried the measured traffic.      *)

CONSTANTS
    Tags,           \* outbound tags
    Fingerprints,   \* canonical outbound-configuration hashes
    NoFingerprint   \* the tag is not in the configuration

VARIABLES
    ids,    \* tag -> fingerprint bound to it (table node_identities)
    facts   \* stored measurements

factVars == <<ids, facts>>

Identities == [Tags -> Fingerprints \cup {NoFingerprint}]
Fact == [tag : Tags, fp : Fingerprints]

FactsInit ==
    /\ ids = [t \in Tags |-> NoFingerprint]
    /\ facts = {}

(* Binding a new configuration keeps exactly the facts of unchanged nodes.    *)
Rebind ==
    /\ ids' \in Identities
    /\ facts' = {f \in facts : ids'[f.tag] = ids[f.tag]}

(* A recorded fact was measured through the outbound bound to its tag.        *)
Record ==
    \E t \in Tags :
        /\ ids[t] # NoFingerprint
        /\ facts' = facts \cup {[tag |-> t, fp |-> ids[t]]}
        /\ UNCHANGED ids

FactsNext == Rebind \/ Record

FactsSpec == FactsInit /\ [][FactsNext]_factVars

=============================================================================
