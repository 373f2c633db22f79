--------------------------- MODULE RuntimeConfig ---------------------------
(***************************************************************************)
(* How the config of an isolated runtime is derived from the live one      *)
(* (node_runtime_manager.rs): enumerate_nodes walks the selector graph,    *)
(* isolate_runtime_infrastructure_detours takes the infrastructure off the *)
(* live outbounds, retain_runtime_dependencies keeps what the candidates   *)
(* need, prune_dns_dependencies drops resolvers that lost their endpoint.  *)
(* A document is the references between its tagged objects; lists are sets *)
(* and the loops take their elements in any order.                         *)
(***************************************************************************)
EXTENDS Naturals, Sequences, FiniteSets

CONSTANTS Selectors, Nodes,  \* tags of outbounds: groups and concrete nodes
          Endpoints,         \* tags of endpoints
          Servers,           \* tags of DNS servers
          Bootstrap          \* the fresh direct outbound

Outbounds == Selectors \cup Nodes
NoServer == "none"

VARIABLES source,   \* the live config
          phase,
          walk,     \* the selector stacks still to be expanded
          found,    \* node -> the selectors it is listed under
          chosen,   \* the candidates of the runtime
          dns,      \* references of the DNS servers, as they are rewritten
          required, \* outbounds and endpoints that are kept
          pending,
          servers,  \* DNS servers that are kept
          final     \* dns.final

docVars == <<source, phase, walk, found, chosen, dns, required, pending, servers, final>>

AtMostOne(S) == {T \in SUBSET S : Cardinality(T) <= 1}

\* Live configs with every selector graph, nothing else referenced ...
GroupCases == [member : [Selectors -> SUBSET Outbounds],
               uses : {[t \in Nodes \cup Endpoints |-> {}]}, dns : {[s \in Servers |-> {}]},
               stateful : {{}}, final : {NoServer}]

\* ... and with every way in which nodes dial through others or through endpoints
\* and DNS servers through outbounds, endpoints or other servers.  The servers are
\* interchangeable, so dns.final names one of them or none.
DependencyCases == [member : {[s \in Selectors |-> Nodes]},
                    uses : [Nodes \cup Endpoints -> AtMostOne(Nodes \cup Endpoints)],
                    dns : [Servers -> AtMostOne(Outbounds \cup Endpoints \cup Servers)],
                    stateful : SUBSET Endpoints,
                    final : {NoServer, CHOOSE s \in Servers : TRUE}]

Init == /\ source \in GroupCases \cup DependencyCases
        /\ phase = "walk"
        /\ walk = {<<s>> : s \in Selectors}
        /\ found = [n \in Nodes |-> {}] /\ chosen = {}
        /\ dns = source.dns
        /\ required = {} /\ pending = {}
        /\ servers = Servers /\ final = source.final

StackOf(path) == {path[k] : k \in 1..Len(path)}

-----------------------------------------------------------------------------
\* Fault: a node is listed under its innermost group only.
BugExpand(path) ==
    /\ phase = "walk" /\ path \in walk
    /\ LET group == path[Len(path)]
           next == source.member[group]
       IN IF next \cap StackOf(path) # {}
          THEN phase' = "failed" /\ UNCHANGED <<walk, found>>
          ELSE /\ walk' = (walk \ {path}) \cup {Append(path, s) : s \in next \cap Selectors}
               /\ found' = [n \in Nodes |-> IF n \in next THEN found[n] \cup {group} ELSE found[n]]
               /\ UNCHANGED phase
    /\ UNCHANGED <<source, chosen, dns, required, pending, servers, final>>

\* expand_selector_member: one element of a stack is expanded; a group that is
\* its own ancestor is an error.
Expand(path) ==
    /\ phase = "walk" /\ path \in walk
    /\ LET group == path[Len(path)]
           next == source.member[group]
       IN IF next \cap StackOf(path) # {}
          THEN phase' = "failed" /\ UNCHANGED <<walk, found>>
          ELSE /\ walk' = (walk \ {path}) \cup {Append(path, s) : s \in next \cap Selectors}
               /\ found' = [n \in Nodes |-> IF n \in next THEN found[n] \cup StackOf(path) ELSE found[n]]
               /\ UNCHANGED phase
    /\ UNCHANGED <<source, chosen, dns, required, pending, servers, final>>

Listed == {n \in Nodes : found[n] # {}}

\* Fault: the infrastructure keeps the detours of the live config.
BugIsolated == source.dns

\* A detour of the infrastructure is replaced by the fresh direct outbound.
Isolated == [s \in Servers |-> IF source.dns[s] \cap Outbounds # {}
                               THEN (source.dns[s] \ Outbounds) \cup {Bootstrap} ELSE source.dns[s]]

Detours == UNION {dns'[s] \cap (Outbounds \cup {Bootstrap}) : s \in Servers}

\* The candidates of the runtime and the outbounds of the infrastructure are the
\* first to be kept.
Isolate(candidates) ==
    /\ phase = "walk" /\ walk = {}
    /\ candidates \subseteq Listed /\ candidates # {}
    /\ dns' = Isolated
    /\ pending' = candidates \cup Detours
    /\ phase' = "retain"
    /\ chosen' = candidates
    /\ UNCHANGED <<source, walk, found, required, servers, final>>

\* collect_matching_strings: the outbounds and endpoints an object names.
Refs(tag) == IF tag \in Selectors THEN source.member[tag]
             ELSE IF tag = Bootstrap THEN {} ELSE source.uses[tag]

\* The work list of retain_runtime_dependencies.
Retain(tag) ==
    /\ phase = "retain" /\ tag \in pending
    /\ pending' = (pending \ {tag}) \cup (IF tag \in required THEN {} ELSE Refs(tag))
    /\ required' = required \cup {tag}
    /\ UNCHANGED <<source, phase, walk, found, chosen, dns, servers, final>>

\* ensure_endpoint_can_be_isolated: live state is never shared.
CheckEndpoints ==
    /\ phase = "retain" /\ pending = {}
    /\ phase' = IF required \cap source.stateful # {} THEN "failed" ELSE "prune"
    /\ UNCHANGED <<source, walk, found, chosen, dns, required, pending, servers, final>>

\* What a resolver can no longer name.
Gone == (Endpoints \ required) \cup (Servers \ servers)

\* Fault: one pass, so a server behind a removed server stays.
BugPruned == {s \in Servers : dns[s] \cap (Endpoints \ required) = {}}

Pruned == {s \in servers : dns[s] \cap Gone = {}}

\* prune_dns_dependencies: until nothing more is removed.
Prune ==
    /\ phase = "prune"
    /\ servers' = Pruned
    /\ IF Pruned = servers
       THEN phase' = "done" /\ final' = IF final \in Gone THEN NoServer ELSE final
       ELSE UNCHANGED <<phase, final>>
    /\ UNCHANGED <<source, walk, found, chosen, dns, required, pending>>

DocNext == \/ \E path \in walk : Expand(path)
           \/ \E candidates \in SUBSET Nodes : Isolate(candidates)
           \/ \E tag \in pending : Retain(tag)
           \/ CheckEndpoints \/ Prune

Spec == Init /\ [][DocNext]_docVars

-----------------------------------------------------------------------------
(* Correctness.                                                            *)

\* The kept graph is the least one that contains the candidates and is closed
\* under references: nothing a candidate needs is missing, and no live selector
\* or unrelated node is started with it.
KeepsWhatIsNeeded ==
    LET kept == required \ {Bootstrap}
        Closed(S) == \A t \in S : source.uses[t] \subseteq S
    IN phase \in {"prune", "done"} =>
          /\ kept \cap Selectors = {}
          /\ chosen \subseteq kept /\ Closed(kept)
          /\ \A S \in SUBSET kept : chosen \subseteq S /\ Closed(S) => S = kept

\* Every DNS server that stays can reach what it names, and so does dns.final.
ResolversResolve ==
    phase = "done" =>
        /\ \A s \in servers : dns[s] \subseteq required \cup servers
        /\ final \in servers \cup {NoServer}

\* A node is listed under exactly the groups that lead to it; a cycle is found.
ListedUnderItsGroups ==
    phase \notin {"walk", "failed"} =>
         /\ \A n \in Nodes : \A s \in Selectors : n \in source.member[s] => s \in found[n]
         /\ \A n \in Nodes : \A s, t \in Selectors :
               s \in found[n] /\ s \in source.member[t] => t \in found[n]
         /\ \A s \in Selectors : s \notin source.member[s]
         /\ \A s, t \in Selectors : ~(s \in source.member[t] /\ t \in source.member[s])

\* Together: the isolated config is complete, loadable and offers the right nodes.
IsolatedExactly == KeepsWhatIsNeeded /\ ResolversResolve /\ ListedUnderItsGroups
=============================================================================
