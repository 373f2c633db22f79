------------------------- MODULE SubscriptionMerge -------------------------
(***************************************************************************)
(* How subscription nodes get into the sing-box config: the refresh of an  *)
(* existing config (subscriptions.rs), the config built when there is none *)
(* and the `subscribe` / `import` merge (config.rs, import.rs).            *)
(*                                                                         *)
(* A config is its outbounds, by tag: a node with the source it came from, *)
(* or a group (selector or urltest) with its members in order and its      *)
(* default.  Tags are unique in the model; of the aliases the code accepts *)
(* for the root selector and the automatic group one of each is kept, and  *)
(* the direct and block outbounds, the DNS, inbound and route sections are *)
(* left out (none of these steps names a node there).  The order of the    *)
(* outbounds array is not kept: where the code takes the nodes in array    *)
(* order the model takes them in some fixed order.  Metadata entries are   *)
(* filtered before any of these steps sees the nodes.                      *)
(***************************************************************************)
EXTENDS Naturals, Sequences, FiniteSets, SequencesExt, Functions

CONSTANTS OffersA,   \* the node tags the first provider may offer
          OffersB,   \* the node tags the second provider may offer
          MaxSteps   \* bound on the steps of a behaviour

VARIABLES config,    \* the outbounds by tag; <<>> while there is no config
          last,      \* the request of the last refresh, or NoRefresh
          steps

mergeVars == <<config, last, steps>>

Root == "root"       \* the manual selector
Auto == "auto"       \* the urltest group
Mine == "mine"       \* a node the user wrote by hand
None == "none"

NoConfig == <<>>
NoRefresh == [replace |-> FALSE, lists |-> <<>>]

(* The sources of .suburl in file order. *)
Providers == <<"pA", "pB">>
Offers(p) == IF p = "pA" THEN OffersA ELSE OffersB

(* A payload's nodes: some of what the provider may offer, in some order. *)
Lists(p) == UNION {SetToSeqs(S) : S \in SUBSET Offers(p)}

Node(source) == [kind |-> "node", source |-> source]
Group(kind, members, default) ==
    [kind |-> kind, members |-> members, default |-> default]

Present(c, t) == t \in DOMAIN c
IsNode(c, t) == Present(c, t) /\ c[t].kind = "node"
IsSelector(c, t) == Present(c, t) /\ c[t].kind = "selector"
NodesOf(c) == {t \in DOMAIN c : IsNode(c, t)}
Put(c, t, o) == [u \in DOMAIN c \cup {t} |-> IF u = t THEN o ELSE c[u]]
PutNodes(c, tags, source) ==
    [u \in DOMAIN c \cup tags |-> IF u \in tags THEN Node(source) ELSE c[u]]
First(s) == IF s = <<>> THEN None ELSE Head(s)

-----------------------------------------------------------------------------
(* Refreshing one provider in an existing config. *)

(* Fault: a provider without a selector yet takes what the root lists. *)
BugProviderSelectorMembers(c, p) ==
    IF IsSelector(c, p) THEN ToSet(c[p].members)
    ELSE IF IsSelector(c, Root) THEN ToSet(c[Root].members) \cap NodesOf(c) ELSE {}

(* The nodes the provider's selector lists now. *)
ProviderSelectorMembers(c, p) ==
    IF IsSelector(c, p) THEN ToSet(c[p].members) ELSE {}

(* The provider's old nodes go, unless they are still offered. *)
Retained(c, p, tags, replace) ==
    Restrict(c, {t \in DOMAIN c :
                    \/ ~IsNode(c, t)
                    \/ t \notin ProviderSelectorMembers(c, p)
                    \/ ~replace /\ t \in tags})

(* Fault: a default that is no longer a member is kept. *)
BugEnsureDefault(members, default) ==
    IF default # None THEN default ELSE First(members)

(* A default that is not a member is replaced by the first member. *)
EnsureDefault(members, default) ==
    IF default \in ToSet(members) THEN default ELSE First(members)

(* Where a provider new to the root selector goes: before the first member *)
(* that is neither a group nor the automatic one.                          *)
ProviderInsertIndex(c, members) ==
    LET plain == {i \in DOMAIN members :
                     members[i] # Auto /\ ~IsSelector(c, members[i])}
    IN  IF plain = {} THEN Len(members) + 1
        ELSE CHOOSE i \in plain : \A j \in plain : i <= j

(* Fault: the provider's own entry is not taken out before it is inserted. *)
BugReplacedMembers(c, p, gone, members) ==
    InsertAt(SelectSeq(members, LAMBDA m : m \notin gone \ {p}),
             ProviderInsertIndex(c, members), p)

(* The provider's entry and its nodes leave the root selector and the      *)
(* provider takes the place of the first of them.                          *)
ReplacedMembers(c, p, gone, members) ==
    LET kept == SelectSeq(members, LAMBDA m : m \notin gone)
        hits == {i \in DOMAIN members : members[i] \in gone}
        place == IF hits = {} THEN ProviderInsertIndex(c, kept)
                 ELSE CHOOSE i \in hits : \A j \in hits : i <= j
    IN  InsertAt(kept, place, p)

(* old: the nodes the provider had before, read before they are removed. *)
RootUpdated(c, p, old, tags) ==
    IF ~IsSelector(c, Root) THEN c
    ELSE LET members == c[Root].members
             gone == {p} \cup old \cup ToSet(tags)
             next == IF tags = <<>> THEN SelectSeq(members, LAMBDA m : m \notin gone)
                     ELSE ReplacedMembers(c, p, gone, members)
         IN  Put(c, Root, Group("selector", next, EnsureDefault(next, c[Root].default)))

(* Only nodes are overwritten; a group of that name keeps its place. *)
NodesUpserted(c, p, tags) ==
    PutNodes(c, {t \in ToSet(tags) : ~Present(c, t) \/ IsNode(c, t)}, p)

SelectorUpserted(c, p, tags) ==
    Put(c, p, Group("selector", tags,
                    EnsureDefault(tags, IF IsSelector(c, p) THEN c[p].default ELSE None)))

SelectorRemoved(c, p) == Restrict(c, {t \in DOMAIN c : t # p \/ ~IsSelector(c, p)})

RefreshedProvider(c, p, tags, replace) ==
    LET old == ProviderSelectorMembers(c, p)
        cleared == Retained(c, p, ToSet(tags), replace)
        filled == NodesUpserted(RootUpdated(cleared, p, old, tags), p, tags)
    IN  IF tags = <<>> THEN SelectorRemoved(filled, p)
        ELSE SelectorUpserted(filled, p, tags)

(* The sources the request names, one after the other in file order. *)
Refreshed(c, r) ==
    LET Step(acc, p) == IF p \in DOMAIN r.lists
                        THEN RefreshedProvider(acc, p, r.lists[p], r.replace) ELSE acc
    IN  FoldLeft(Step, c, Providers)

-----------------------------------------------------------------------------
(* The config built when there is none. *)

(* The root selector lists the automatic group and each provider that has  *)
(* nodes; every node belongs to a provider.                                *)
Built(r) ==
    LET named == SelectSeq(Providers, LAMBDA p : p \in DOMAIN r.lists)
        full == SelectSeq(named, LAMBDA p : r.lists[p] # <<>>)
        Add(c, p) == SelectorUpserted(PutNodes(c, ToSet(r.lists[p]), p), p, r.lists[p])
        grouped == FoldLeft(Add, NoConfig, full)
        all == SetToSeq(NodesOf(grouped))
    IN  Put(Put(grouped, Root, Group("selector", <<Auto>> \o full, Auto)),
            Auto, Group("urltest", all, None))

-----------------------------------------------------------------------------
(* The merge of `subscribe` and `import` into an existing config. *)

MergedMembers(old, new) == old \o SelectSeq(new, LAMBDA m : m \notin ToSet(old))

(* The default is only filled in when there is none. *)
DefaultOr(c, t, default) ==
    IF c[t].default = None THEN default ELSE c[t].default

GroupMerged(c, t, kind, members, default, replace) ==
    IF ~Present(c, t) THEN Put(c, t, Group(kind, members, default))
    ELSE Put(c, t, Group(c[t].kind,
                         IF replace THEN members ELSE MergedMembers(c[t].members, members),
                         DefaultOr(c, t, default)))

MergedInto(c, tags, source, replace) ==
    LET left == IF replace THEN Restrict(c, DOMAIN c \ NodesOf(c)) ELSE c
        rooted == GroupMerged(left, Root, "selector", <<Auto>> \o tags, Auto, replace)
        grouped == GroupMerged(rooted, Auto, "urltest", tags, None, replace)
    IN  PutNodes(grouped, ToSet(tags), source)

GroupSet(c, p, tags) ==
    Put(c, p, Group("selector", tags,
                    IF Present(c, p) THEN DefaultOr(c, p, First(tags)) ELSE First(tags)))

(* With two groups to show, the root selector lists the groups only. *)
ProviderGroupsAdded(c, groups, tagsOf) ==
    LET Add(acc, p) == GroupSet(acc, p, tagsOf[p])
        grouped == FoldLeft(Add, c, groups)
    IN  IF Len(groups) < 2 THEN grouped
        ELSE LET rooted == Put(grouped, Root, [grouped[Root] EXCEPT !.members = <<Auto>> \o groups])
             IN  Put(rooted, Auto,
                     [rooted[Auto] EXCEPT !.members = SetToSeq(NodesOf(rooted))])

(* A payload of provider p, and the name under which the nodes already      *)
(* there are grouped (None: they are not).                                  *)
ImportedInGroups(c, tags, p, existing, replace) ==
    LET had == IF replace THEN <<>> ELSE SetToSeq(NodesOf(c))
        groups == (IF existing # None /\ had # <<>> THEN <<existing>> ELSE <<>>)
                  \o (IF tags # <<>> THEN <<p>> ELSE <<>>)
        tagsOf == [g \in {existing, p} |-> IF g = p THEN tags ELSE had]
    IN  ProviderGroupsAdded(MergedInto(c, tags, p, replace), groups, tagsOf)

(* Without a provider name the nodes are merged without groups. *)
Imported(c, tags, p, existing, replace) ==
    IF p = None THEN MergedInto(c, tags, p, replace)
    ELSE ImportedInGroups(c, tags, p, existing, replace)

-----------------------------------------------------------------------------
(* A config written by hand: a selector with one node of the user's. *)
Handwritten == [t \in {Root, Mine} |->
                   IF t = Root THEN Group("selector", <<Mine>>, Mine) ELSE Node(Mine)]

MergeInit == /\ config \in {NoConfig, Handwritten}
             /\ last = NoRefresh
             /\ steps = 0

Counted == steps < MaxSteps /\ steps' = steps + 1

(* A refresh of the sources .suburl names: all of them, or one when the    *)
(* user has taken the other out.                                           *)
Refresh ==
    /\ Counted
    /\ \E P \in (SUBSET ToSet(Providers)) \ {{}}, replace \in BOOLEAN :
         \E lists \in [P -> UNION {Lists(p) : p \in P}] :
            /\ \A p \in P : lists[p] \in Lists(p)
            /\ last' = [replace |-> replace, lists |-> lists]
            /\ config' = IF config = NoConfig THEN Built(last') ELSE Refreshed(config, last')

(* `subscribe`, with or without provider names, or `import`. *)
Subscribe ==
    /\ Counted
    /\ config # NoConfig
    /\ \E p \in {"pA", None}, existing \in {"old", None}, replace \in BOOLEAN :
         \E tags \in Lists("pA") :
            /\ p = None => existing = None
            /\ config' = Imported(config, tags, p, existing, replace)
    /\ last' = NoRefresh

MergeNext == Refresh \/ Subscribe

MergeSpec == MergeInit /\ [][MergeNext]_mergeVars

-----------------------------------------------------------------------------
(* A group that sing-box accepts: its members exist and its default is one *)
(* of them.                                                                *)
Resolves(c, t) ==
    /\ ToSet(c[t].members) \subseteq DOMAIN c
    /\ c[t].default \in ToSet(c[t].members) \cup {None}

(* After a refresh every refreshed provider's selector lists exactly the   *)
(* payload's nodes, each of them is in the config as that provider's node, *)
(* a provider that offers nothing has no selector, and the defaults of     *)
(* these selectors and of the root selector are among their members        *)
(* (refresh_provider_node_outbounds_only).                                 *)
RefreshedGroupsResolve ==
    last # NoRefresh =>
      /\ \A p \in DOMAIN last.lists :
           IF last.lists[p] = <<>> THEN ~IsSelector(config, p)
           ELSE /\ IsSelector(config, p) /\ config[p].members = last.lists[p]
                /\ Resolves(config, p)
                /\ \A t \in ToSet(last.lists[p]) : config[t] = Node(p)
      /\ Resolves(config, Root)

(* Refreshing again with the same payloads changes nothing: daily runs on  *)
(* an unchanged subscription neither reorder the root selector nor grow it.*)
RefreshIdempotent ==
    last # NoRefresh => Refreshed(config, last) = config

(* A refresh takes nothing away that is not the refreshed providers' own:  *)
(* every outbound that is neither the root selector nor one of their       *)
(* selectors and nodes stays, nodes as they were and groups with every     *)
(* member that still exists (README: the selectors are preserved).         *)
KeepsOthers ==
    last' # NoRefresh =>
      LET listed(p) == IF IsSelector(config, p) THEN ToSet(config[p].members) ELSE {}
          mine == UNION {{p} \cup listed(p) \cup ToSet(last'.lists[p]) :
                            p \in DOMAIN last'.lists}
      IN  \A t \in DOMAIN config \ (mine \cup {Root}) :
             /\ Present(config', t)
             /\ IF IsNode(config, t) THEN config'[t] = config[t]
                ELSE ToSet(config[t].members) \cap DOMAIN config'
                        \subseteq ToSet(config'[t].members)
OthersKept == [][KeepsOthers]_mergeVars

(* Together: what a refresh leaves of its own groups.                      *)
GroupsSound == RefreshedGroupsResolve /\ RefreshIdempotent

(* Every outbound the automatic group lists is in the config when a        *)
(* refresh has written it: sing-box refuses a config whose url-test group  *)
(* names a missing outbound, so the reload that follows a refresh does not *)
(* fail on what the refresh wrote (README: selectors are preserved).       *)
AutoGroupLoads ==
    last # NoRefresh /\ Present(config, Auto) =>
        ToSet(config[Auto].members) \subseteq DOMAIN config
=============================================================================
