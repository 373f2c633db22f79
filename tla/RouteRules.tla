----------------------------- MODULE RouteRules -----------------------------
(***************************************************************************)
(* The route rules of the sing-box config under the features that edit     *)
(* them, each in its own way and on top of the others (config.rs): the     *)
(* merge of a subscription or import (legacy inbound fields, subscription  *)
(* hosts, bypass list, CGNAT range), China IP routing, the embedded        *)
(* Tailscale endpoint, and Private Access (carrier, bridge routes, TUN     *)
(* baseline).  The first rule that matches decides, so order matters.      *)
(*                                                                         *)
(* A rule is its kind, the outbound it leads to and the values it matches  *)
(* (rule-sets, networks or domains).  The DNS rules are kept as a set of   *)
(* kinds, the DNS servers and the rule-sets as sets of tags.  The three    *)
(* China rules, which always go together, are one.                         *)
(***************************************************************************)
EXTENDS Naturals, Sequences, FiniteSets, SequencesExt

CONSTANTS Networks,   \* what a Private Access gateway may push
          Hosts,      \* its carrier hosts
          MaxEdits    \* bound on the edits of a behaviour

VARIABLES rules,      \* route.rules, in order
          ruleSets,   \* tags of route.rule_set
          dnsRules, servers,
          endpoint,   \* the managed Tailscale endpoint is in the config
          legacy,     \* inbounds still carry sniff and domain_strategy
          pushed,     \* the networks the TUI remembers of the last bridge
          edits

ruleVars == <<rules, ruleSets, dnsRules, servers, endpoint, legacy, pushed, edits>>

Rule(kind, out, on) == [kind |-> kind, out |-> out, on |-> on]

Hijack == Rule("hijack", "none", {})
Resolve == Rule("resolve", "none", {})
Sniff == Rule("sniff", "none", {})
Subs == Rule("subs", "direct", {})
BypassRule == Rule("set", "direct", {"bypass"})
Cgnat == Rule("net", "direct", {"cgnat"})
China == Rule("set", "direct", {"cn"})
Private == Rule("private", "direct", {})
Mode(mode, out) == Rule(mode, out, {})
Bridge(nets) == Rule("bridge", "direct", nets)
Carrier(hosts) == Rule("carrier", "select", hosts)
TailscaleRules == <<Rule("tsDomain", "ts", {}), Rule("net", "ts", {"cgnat", "ula"}),
                    Rule("tsPreferred", "ts", {})>>

(* The generated default, and a config written by hand around a rule-set   *)
(* that names one of the China rule-sets next to its own.                  *)
Default == <<Hijack, Subs, BypassRule, Cgnat, Mode("direct", "direct"),
             Mode("global", "select"), Private, Mode("rule", "select")>>
Handwritten == <<Rule("set", "direct", {"cn", "mine"}), Mode("rule", "select")>>

HasAction(r) ==
    \/ r.kind \in {"hijack", "resolve", "sniff", "bridge", "carrier", "tsDomain", "tsPreferred"}
    \/ r.kind = "net" /\ "ula" \in r.on
IsMode(r) == r.kind \in {"direct", "global", "rule"}
IsBypass(r) == r.kind = "set" /\ "bypass" \in r.on
IsCgnat(r) == r.kind = "net" /\ "cgnat" \in r.on
IsHijack(r) == r.kind = "hijack"

(* Position of the first or last rule with a property, 0 if there is none. *)
FirstAt(s, Test(_)) == SelectInSeq(s, Test)
LastAt(s, Test(_)) == SelectLastInSeq(s, Test)

-----------------------------------------------------------------------------
(* The merge of a subscription or import. *)

Prepended(s, r) == IF r \in ToSet(s) THEN s ELSE <<r>> \o s
Migrated(s) == IF legacy THEN Prepended(Prepended(s, Sniff), Resolve) ELSE s

SubscriptionDirect(s) ==
    LET rest == SelectSeq(s, LAMBDA r : r # Subs)
    IN  InsertAt(rest, LastAt(rest, HasAction) + 1, Subs)

Redirected(s, i) == [s EXCEPT ![i].out = "direct"]

BypassEnsured(s) ==
    LET i == FirstAt(s, IsBypass)
    IN  IF i # 0 THEN Redirected(s, i)
        ELSE InsertAt(s, IF s # <<>> /\ IsHijack(Head(s)) THEN 2 ELSE 1, BypassRule)

CgnatEnsured(s) ==
    LET i == FirstAt(s, IsCgnat)
        after == IF FirstAt(s, IsBypass) # 0 THEN FirstAt(s, IsBypass) ELSE LastAt(s, HasAction)
    IN  IF i # 0 THEN Redirected(s, i) ELSE InsertAt(s, after + 1, Cgnat)

Merged(s) == CgnatEnsured(BypassEnsured(SubscriptionDirect(Migrated(s))))

-----------------------------------------------------------------------------
(* China IP routing. *)

ChinaRuleSets == {"cn"}

Stripped(r) == IF r.kind = "set" THEN [r EXCEPT !.on = @ \ ChinaRuleSets] ELSE r

(* A rule none of whose matchers the code knows counts as one that would   *)
(* match everything.                                                       *)
Matchless(r) ==
    \/ r.kind \in {"resolve", "sniff", "tsPreferred"}
    \/ r.kind = "set" /\ r.on = {}

ModeRuleAt(s) ==
    LET i == FirstAt(s, LAMBDA r : r.kind = "rule") IN IF i = 0 THEN Len(s) + 1 ELSE i

ChinaSet(s, on) ==
    LET left == SelectSeq([i \in DOMAIN s |-> Stripped(s[i])], LAMBDA r : ~Matchless(r))
    IN  IF on THEN InsertAt(left, ModeRuleAt(left), China) ELSE left

-----------------------------------------------------------------------------
(* The embedded Tailscale endpoint. *)

(* Fault: the rule for preferred routes is not recognised as managed. *)
BugIsTailscale(r) == r.out = "ts" /\ r.kind # "tsPreferred"

IsTailscale(r) == r.out = "ts"

TailscaleRemoved(s) == IF endpoint THEN SelectSeq(s, LAMBDA r : ~IsTailscale(r)) ELSE s

(* Behind the leading DNS hijack, ahead of everything else. *)
TailscaleAdded(s) ==
    LET i == FirstAt(s, LAMBDA r : ~IsHijack(r))
        at == IF i = 0 THEN Len(s) + 1 ELSE i
    IN  SubSeq(s, 1, at - 1) \o TailscaleRules \o SubSeq(s, at, Len(s))

TailscaleSet(s, on) ==
    IF on THEN TailscaleAdded(TailscaleRemoved(s)) ELSE TailscaleRemoved(s)

-----------------------------------------------------------------------------
(* Private Access. *)

(* Fault: a carrier rule of this gateway is not looked for. *)
BugCarrierAt(s, hosts) == 0

CarrierAt(s, hosts) == FirstAt(s, LAMBDA r : r.kind = "carrier" /\ r.on \cap hosts # {})

(* Ahead of the bypass list; a rule that is there is widened and moved up. *)
CarrierEnsured(s, hosts) ==
    LET want == IF FirstAt(s, IsBypass) # 0 THEN FirstAt(s, IsBypass)
                ELSE FirstAt(s, IsHijack) + 1
        have == CarrierAt(s, hosts)
        wide == IF have = 0 THEN s ELSE [s EXCEPT ![have].on = @ \cup hosts]
    IN  IF hosts = {} THEN s
        ELSE IF have = 0 THEN InsertAt(s, want, Carrier(hosts))
        ELSE IF have > want THEN InsertAt(RemoveAt(wide, have), want, wide[have])
        ELSE wide

(* Fault: the bridge's rule is appended. *)
BugBridgeAt(s) == Len(s) + 1

BridgeAt(s) ==
    LET i == FirstAt(s, LAMBDA r : r.kind = "private" \/ IsMode(r))
    IN  IF i # 0 THEN i ELSE LastAt(s, HasAction) + 1

(* A rule of this gateway, by what it pushes now or pushed before. *)
IsPrivateAccessRoute(r, nets) == r.kind = "bridge" /\ r.on \cap (nets \cup pushed) # {}

(* The gateway's earlier rules go, then the rule for what it pushes now. *)
Bridged(s, nets, hosts) ==
    LET t == CarrierEnsured(s, hosts)
        left == SelectSeq(t, LAMBDA r : ~IsPrivateAccessRoute(r, nets))
    IN  IF nets = {} THEN t ELSE InsertAt(left, BridgeAt(left), Bridge(nets))

BaselineEnsured(s, hosts) ==
    LET t == CarrierEnsured(s, hosts)
        i == FirstAt(t, IsMode)
    IN  IF Private \in ToSet(t) THEN t
        ELSE InsertAt(t, IF i = 0 THEN Len(t) + 1 ELSE i, Private)

-----------------------------------------------------------------------------
RulesInit ==
    /\ \/ rules = Default /\ ruleSets = {"bypass"} /\ dnsRules = {"mode"}
          /\ servers = {"remote", "local"} /\ legacy = FALSE
       \/ rules = Handwritten /\ ruleSets = {"cn", "mine"} /\ dnsRules = {"mode"}
          /\ servers = {} /\ legacy \in BOOLEAN
    /\ endpoint = FALSE /\ pushed = {} /\ edits = 0

Edit == edits < MaxEdits /\ edits' = edits + 1

(* `subscribe`, `import` or `sync` into the active config. *)
Merge ==
    /\ Edit
    /\ rules' = Merged(rules)
    /\ ruleSets' = ruleSets \cup {"bypass"}
    /\ legacy' = FALSE
    /\ UNCHANGED <<dnsRules, servers, endpoint, pushed>>

SetChinaIpRouting(on) ==
    /\ Edit
    /\ rules' = ChinaSet(rules, on)
    /\ ruleSets' = IF on THEN ruleSets \cup ChinaRuleSets ELSE ruleSets \ ChinaRuleSets
    /\ dnsRules' = IF on THEN dnsRules \cup {"cn"} ELSE dnsRules \ {"cn"}
    /\ servers' = IF on THEN servers \cup {"local", "remote"} ELSE servers
    /\ UNCHANGED <<endpoint, legacy, pushed>>

(* Refused, without a change, while something else has one of the tags. *)
SetTailscale(on) ==
    /\ Edit
    /\ rules' = TailscaleSet(rules, on)
    /\ endpoint' = on
    /\ dnsRules' = IF on THEN dnsRules \cup {"tsDomain", "tsControl"}
                   ELSE dnsRules \ {"tsDomain", "tsControl"}
    /\ servers' = IF on THEN servers \cup {"ts", "remote"} ELSE servers \ {"ts"}
    /\ UNCHANGED <<ruleSets, legacy, pushed>>

(* Routes of a bridge (Hillstone), which pushes no domains.  A restart of  *)
(* the TUI forgets what was pushed.                                        *)
ApplyBridgeRoutes(nets, hosts) ==
    /\ Edit
    /\ rules' = Bridged(rules, nets, hosts)
    /\ pushed' = nets
    /\ UNCHANGED <<ruleSets, dnsRules, servers, endpoint, legacy>>

TunBaseline(hosts) ==
    /\ Edit
    /\ rules' = BaselineEnsured(rules, hosts)
    /\ servers' = servers \cup {"system"}
    /\ UNCHANGED <<ruleSets, dnsRules, endpoint, legacy, pushed>>

ForgetPushed ==
    /\ Edit
    /\ pushed # {} /\ pushed' = {}
    /\ UNCHANGED <<rules, ruleSets, dnsRules, servers, endpoint, legacy>>

RulesNext ==
    \/ Merge
    \/ \E on \in BOOLEAN : SetChinaIpRouting(on) \/ SetTailscale(on)
    \/ \E nets \in SUBSET Networks, hosts \in SUBSET Hosts : ApplyBridgeRoutes(nets, hosts)
    \/ \E hosts \in SUBSET Hosts : TunBaseline(hosts)
    \/ ForgetPushed

RulesSpec == RulesInit /\ [][RulesNext]_ruleVars

-----------------------------------------------------------------------------
(* No rule names an endpoint, a rule-set or a DNS server that is not in    *)
(* the config, in whatever order features are turned on and off: sing-box  *)
(* refuses such a config.                                                  *)
RefsResolve ==
    /\ \A r \in ToSet(rules) :
         /\ r.out = "ts" => endpoint
         /\ r.kind = "set" => r.on \subseteq ruleSets
    /\ "tsDomain" \in dnsRules => "ts" \in servers
    /\ {"tsControl", "cn"} \cap dnsRules # {} => "remote" \in servers
    /\ "cn" \in dnsRules => "local" \in servers

(* The rules for a Private Access bridge come ahead of those that decide   *)
(* by mode or by private address, and the China rules ahead of the         *)
(* rule-mode catch-all, so that they are ever reached.                     *)
ReachableRules ==
    \A i, j \in DOMAIN rules :
       i < j => /\ rules[j].kind = "bridge" => ~IsMode(rules[i]) /\ rules[i].kind # "private"
                /\ rules[j] = China => rules[i].kind # "rule"

(* Doing an edit again changes nothing: "changed" decides whether sing-box *)
(* is restarted, and every connect and every start repeats these edits.    *)
EditsSettle ==
    /\ \A on \in BOOLEAN : ChinaSet(ChinaSet(rules, on), on) = ChinaSet(rules, on)
    /\ \A hosts \in SUBSET Hosts :
         /\ BaselineEnsured(BaselineEnsured(rules, hosts), hosts) = BaselineEnsured(rules, hosts)
         /\ \A nets \in SUBSET Networks :
              Bridged(Bridged(rules, nets, hosts), nets, hosts) = Bridged(rules, nets, hosts)

(* Together: after any sequence of edits the rules are ones that sing-box  *)
(* accepts, reaches and is not restarted for again.                        *)
RulesSound == RefsResolve /\ ReachableRules /\ EditsSettle

(* A known divergence, checked by no run (README):         *)
(* while the Tailscale endpoint is in the config, the tailnet's domain,    *)
(* addresses and preferred routes lead to it.                              *)
TailnetRouted == endpoint => ToSet(TailscaleRules) \subseteq ToSet(rules)
=============================================================================
