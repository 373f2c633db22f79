----------------------------- MODULE AddressPlans -----------------------------
(***************************************************************************)
(* What a VPN gateway pushes, turned into routes and DNS rules (tun.rs and *)
(* the network helpers of private_access.rs): an address range becomes     *)
(* CIDRs, DNS servers get host routes when no route covers them, and the   *)
(* pushed namespaces become a split-DNS plan that keeps the public gateway *)
(* on the system's DNS.  Addresses have Bits bits instead of 32, a domain  *)
(* is the sequence of its labels.  A state is one input.                   *)
(***************************************************************************)
EXTENDS Naturals, Sequences, FiniteSets, FiniteSetsExt, SequencesExt

CONSTANTS Bits, Labels

VARIABLES kind, first, last, routes, servers, tunnel, system

planVars == <<kind, first, last, routes, servers, tunnel, system>>

Addresses == 0..(2 ^ Bits - 1)
Cidr(network, prefix) == [network |-> network, prefix |-> prefix]

\* ipv4_cidr_contains: the bits under the mask agree.
Covers(c, address) == c.network \div 2 ^ (Bits - c.prefix) = address \div 2 ^ (Bits - c.prefix)

\* parse_ipv4_cidr clears the host bits.
Normalized(c) == Cidr((c.network \div 2 ^ (Bits - c.prefix)) * 2 ^ (Bits - c.prefix), c.prefix)

-----------------------------------------------------------------------------
(* ipv4_range_to_cidrs                                                     *)

TrailingZeros(n) == IF n = 0 THEN Bits ELSE Max({k \in 0..Bits : n % 2 ^ k = 0})
FloorLog(n) == Max({k \in 0..Bits : 2 ^ k <= n})

\* Fault: the block may reach past the end of the range.
BugHostBits(current, end) == TrailingZeros(current)

\* The largest aligned block at current that does not pass the end.
HostBits(current, end) == Min({TrailingZeros(current), FloorLog(end - current + 1)})

\* current runs one past the last address, so it is wider than an address.
RangeToCidrs(start, end) ==
    LET from[current \in 0..2 ^ Bits] ==
          IF current > end THEN <<>>
          ELSE LET bits == HostBits(current, end)
                   next == current + 2 ^ bits
               IN <<Cidr(current, Bits - bits)>> \o (IF next > 2 ^ Bits THEN <<>> ELSE from[next])
    IN from[start]

-----------------------------------------------------------------------------
(* tun_route_cidrs_with_dns_servers                                        *)

\* Fault: routes of any kind are taken to cover the servers.
BugUncovered(rs, s) == rs = <<>>

Uncovered(rs, s) == \A i \in 1..Len(rs) : ~Covers(rs[i], s)

Distinct(rs, c) == IF c \in Range(rs) THEN rs ELSE Append(rs, c)

\* Routes first, without repeats; then a host route per server that is still uncovered.
RoutesWithServers(pushed, dns) ==
    LET plain == FoldLeft(Distinct, <<>>, [i \in 1..Len(pushed) |-> Normalized(pushed[i])])
        host(rs, s) == IF Uncovered(rs, s) THEN Distinct(rs, Cidr(s, Bits)) ELSE rs
    IN FoldLeft(host, plain, dns)

-----------------------------------------------------------------------------
(* tun_dns_policy_plan                                                     *)

Domains == UNION {[1..n -> Labels] : n \in 1..2}
Exact(d) == [suffix |-> FALSE, domain |-> d]
SuffixOf(d) == [suffix |-> TRUE, domain |-> d]
Namespaces == {Exact(d) : d \in Domains} \cup {SuffixOf(d) : d \in Domains}

EndsWith(d, s) == Len(s) <= Len(d) /\ SubSeq(d, Len(d) - Len(s) + 1, Len(d)) = s

\* dns_namespace_matches_domain
Matches(n, d) == n.domain = d \/ (n.suffix /\ EndsWith(d, n.domain))

\* Fault: the exact tunnel rule of a gateway stays.
BugTunnelRules(namespaces, requested) == namespaces

\* An exact rule for an excluded gateway would tie with the system rule.
TunnelRules(namespaces, requested) == namespaces \ requested

\* Only exact names are excluded, and only those a tunnel rule would catch.
PolicyPlan(namespaces, excluded) ==
    LET requested == {n \in excluded : ~n.suffix}
        kept == TunnelRules(namespaces, requested)
    IN [tunnel |-> kept,
        system |-> {n \in requested : \E t \in kept : Matches(t, n.domain)}]

\* install_resolver names the file after the domain, without the leading dot.
ResolverFile(n) == n.domain

-----------------------------------------------------------------------------
Init ==
    \/ /\ kind = "range" /\ first \in Addresses /\ last \in Addresses
       /\ routes = <<>> /\ servers = <<>> /\ tunnel = {} /\ system = {}
    \/ /\ kind = "routes" /\ first = 0 /\ last = 0 /\ tunnel = {} /\ system = {}
       /\ routes \in UNION {[1..n -> [network : Addresses, prefix : {0, 1, Bits - 1}]] : n \in 0..1}
       /\ servers \in UNION {[1..n -> Addresses] : n \in 0..2}
    \/ /\ kind = "dns" /\ first = 0 /\ last = 0 /\ routes = <<>> /\ servers = <<>>
       /\ tunnel \in kSubset(0, Namespaces) \cup kSubset(1, Namespaces) \cup kSubset(2, Namespaces)
       /\ system \in kSubset(0, Namespaces) \cup kSubset(1, Namespaces)

PlanNext == UNCHANGED planVars

PlanSpec == Init /\ [][PlanNext]_planVars

-----------------------------------------------------------------------------
\* The CIDRs of a range cover exactly its addresses, each once, up to the last address
\* of the space; an empty range gives none (ipv4_range_to_cidrs).
RangeIsExact ==
    LET cidrs == RangeToCidrs(first, last)
    IN kind = "range" => \A a \in Addresses :
         Cardinality({i \in 1..Len(cidrs) : Covers(cidrs[i], a)}) = IF first <= a /\ a <= last THEN 1 ELSE 0

\* Every pushed DNS server is reached through the tunnel, no route is installed twice,
\* and no address beyond the pushed routes and servers is captured.
ServersAreRouted ==
    LET result == RoutesWithServers(routes, servers)
    IN kind = "routes" =>
         /\ \A i \in 1..Len(servers) : \E j \in 1..Len(result) : Covers(result[j], servers[i])
         /\ \A i, j \in 1..Len(result) : i # j => result[i] # result[j]
         /\ \A a \in Addresses : (\E j \in 1..Len(result) : Covers(result[j], a)) =>
              a \in Range(servers) \/ \E i \in 1..Len(routes) : Covers(routes[i], a)

\* The gateway's own name never resolves through the tunnel it carries, and every
\* other name resolves where the pushed namespaces say (tun_dns_policy_plan).
GatewayStaysPublic ==
    LET plan == PolicyPlan(tunnel, system)
        \* The more specific rule wins; two rules for the same name are a tie, which may go wrong.
        tunnelled(d) == \/ Exact(d) \in plan.tunnel
                        \/ (\E t \in plan.tunnel : Matches(t, d)) /\ Exact(d) \notin plan.system
    IN kind = "dns" => \A d \in Domains :
         tunnelled(d) <=> (\E t \in tunnel : Matches(t, d)) /\ Exact(d) \notin system

\* Together: what was pushed is routed and resolved through the tunnel, no more.
PlansExact == RangeIsExact /\ ServersAreRouted /\ GatewayStaysPublic

\* A known divergence, checked by no run (README):
\* "A more-specific resolver keeps the public SonicWall gateway hostname on the Mac's
\* primary physical DNS servers" (docs/private-access-service.md): every rule of a plan
\* can be installed, which takes a resolver file of its own for each.
PlanInstallable ==
    LET plan == PolicyPlan(tunnel, system)
    IN kind = "dns" => \A m, n \in plan.tunnel \cup plan.system : m # n => ResolverFile(m) # ResolverFile(n)
=============================================================================
