------------------------------ MODULE EspBridge ------------------------------
(***************************************************************************)
(* The Hillstone HTTP bridge (hillstone.rs): each browser request is sent  *)
(* to the intranet over a TCP connection spoken in user space, its packets *)
(* carried in UDP ESP datagrams that may be lost, duplicated, delayed and  *)
(* reordered.  All requests of a run share one socket, so packets of an    *)
(* earlier request arrive during a later one.                              *)
(*                                                                         *)
(* The network holds every segment a server ever sent and delivers any of  *)
(* them at any time, any number of times or never.  Sequence numbers are   *)
(* modulo Mod, the reassembly window is Window.                            *)
(***************************************************************************)
EXTENDS Integers, Sequences, FiniteSets

CONSTANTS Mod, Window,
          Isns,        \* initial sequence numbers, of both ends
          Length,      \* bytes of a response
          Ports,       \* size of the ephemeral port range
          MaxRequests

\* Sequence numbers tell the bytes of a response apart, and a run ends before a port
\* is used again.
ASSUME EspAssumption ==
    /\ Mod \in Nat /\ Length \in Nat /\ Length < Mod /\ Window \in Nat
    /\ Isns \subseteq Nat
    /\ Ports \in Nat \ {0} /\ MaxRequests \in Nat /\ MaxRequests <= Ports

VARIABLES flow,     \* request -> the connection as the server knows it
          conn,     \* the bridge's side of the current request
          outcome,  \* request -> what the browser got
          nextPort  \* SourcePortAllocator

espVars == <<flow, conn, outcome, nextPort>>

Requests == 1..MaxRequests
NoFlow == [stage |-> "none", port |-> 0, isn |-> 0, client |-> 0]
NoConn == [st |-> "idle", req |-> 0, port |-> 0, isn |-> 0, serverNext |-> 0, data |-> <<>>, early |-> {}]

\* The bytes a server sends for a request, told apart by where they come from.
Stream(r) == [i \in 1..Length |-> <<r, i>>]

Piece(r, i, j) == SubSeq(Stream(r), i + 1, j)
SeqAt(r, i) == (flow[r].isn + 1 + i) % Mod

\* Segments: SYN-ACK, a stretch of data with or without the FIN, the bare FIN, a reset.
Segment(r, flags, seq, payload) ==
    [from |-> flow[r].port, ack |-> (flow[r].client + 1) % Mod, flags |-> flags, seq |-> seq,
     payload |-> payload]
Answer(r) ==
    {Segment(r, {}, SeqAt(r, t[1]), Piece(r, t[1], t[2])) : t \in {u \in (0..Length) \X (0..Length) : u[1] < u[2]}}
    \cup {Segment(r, {"fin"}, SeqAt(r, i), Piece(r, i, Length)) : i \in 0..Length}
Segments(r) ==
    IF flow[r].stage = "none" THEN {}
    ELSE {Segment(r, {"syn"}, flow[r].isn, <<>>), Segment(r, {"rst"}, 0, <<>>)}
         \cup (IF flow[r].stage = "syn" THEN {} ELSE Answer(r))

EspInit ==
        /\ flow = [r \in Requests |-> NoFlow]
        /\ conn = NoConn
        /\ outcome = [r \in Requests |-> [st |-> "none", data |-> <<>>]]
        /\ nextPort \in 1..Ports

-----------------------------------------------------------------------------
Served == Cardinality({r \in Requests : outcome[r].st # "none"})

\* Fault: every request uses the same source port.
BugPortAfter(port) == port

\* SourcePortAllocator::next
PortAfter(port) == IF port = Ports THEN 1 ELSE port + 1

\* An accepted browser connection whose request names an intranet target.
Accept(isn) ==
    /\ conn.st = "idle" /\ Served < MaxRequests
    /\ conn' = [NoConn EXCEPT !.st = "syn", !.req = Served + 1, !.port = nextPort, !.isn = isn]
    /\ nextPort' = PortAfter(nextPort)
    /\ UNCHANGED <<flow, outcome>>

\* A request that cannot be read, names no target, is CONNECT or is chunked: 502.
Reject ==
    /\ conn.st = "idle" /\ Served < MaxRequests
    /\ outcome' = [outcome EXCEPT ![Served + 1].st = "failed"]
    /\ UNCHANGED <<flow, conn, nextPort>>

\* One of the SYNs sent once a second, and after every stray packet, arrives.
SynArrives(isn) ==
    /\ conn.st = "syn" /\ flow[conn.req].stage = "none"
    /\ flow' = [flow EXCEPT ![conn.req] = [stage |-> "syn", port |-> conn.port, isn |-> isn, client |-> conn.isn]]
    /\ UNCHANGED <<conn, outcome, nextPort>>

\* The chunks of the request are sent once; the server answers when all of them arrived.
RequestArrives ==
    /\ conn.st = "recv" /\ flow[conn.req].stage = "syn"
    /\ flow' = [flow EXCEPT ![conn.req].stage = "request"]
    /\ UNCHANGED <<conn, outcome, nextPort>>

Returns(st, data) ==
    /\ outcome' = [outcome EXCEPT ![conn.req] = [st |-> st, data |-> data]]
    /\ conn' = NoConn

\* parse_matching_tcp_packet compares the four-tuple; the addresses are the same throughout.
OfThisPort(p) == p.from = conn.port

Opens(p) == "syn" \in p.flags /\ p.ack = (conn.isn + 1) % Mod

\* tcp_handshake_over_esp
Handshake(p) ==
    /\ conn.st = "syn" /\ OfThisPort(p)
    /\ \/ "rst" \in p.flags /\ Returns("failed", <<>>)
       \/ /\ "rst" \notin p.flags /\ Opens(p)
          /\ conn' = [conn EXCEPT !.st = "recv", !.serverNext = (p.seq + 1) % Mod]
          /\ UNCHANGED outcome
    /\ UNCHANGED <<flow, nextPort>>

\* Fault: an early segment is appended where it arrives.
BugTaken(p) ==
    [conn EXCEPT !.data = @ \o p.payload, !.serverNext = (@ + Len(p.payload)) % Mod]

\* A stored segment that continues the data is appended.
Fits(c) == {e \in c.early : e.seq = c.serverNext}
Continued(c) ==
    IF Fits(c) = {} THEN c
    ELSE LET e == CHOOSE x \in Fits(c) : TRUE
         IN [c EXCEPT !.data = @ \o e.payload, !.serverNext = (@ + Len(e.payload)) % Mod,
                      !.early = @ \ {e}]

\* The stored segments that continue the data, one after the other; each starts
\* where the one before ends.
Drained(c) ==
    LET step[k \in 0..Length] == IF k = 0 THEN c ELSE Continued(step[k - 1])
    IN step[Length]

\* Data in order is appended, data ahead kept once per sequence number, the rest ignored.
Taken(p) ==
    IF p.payload = <<>> THEN conn
    ELSE IF p.seq = conn.serverNext
         THEN Drained([conn EXCEPT !.data = @ \o p.payload, !.serverNext = (@ + Len(p.payload)) % Mod])
    ELSE IF (p.seq - conn.serverNext) % Mod < Window /\ \A e \in conn.early : e.seq # p.seq
         THEN [conn EXCEPT !.early = @ \cup {[seq |-> p.seq, payload |-> p.payload]}]
    ELSE conn

\* recv_http_response_over_esp: a FIN, in order or not, and a complete body end it.
Response(p) ==
    /\ conn.st = "recv" /\ OfThisPort(p)
    /\ \/ "rst" \in p.flags /\ Returns("failed", <<>>)
       \/ /\ "rst" \notin p.flags /\ ("fin" \in p.flags \/ Len(Taken(p).data) >= Length)
          /\ Returns("answered", Taken(p).data)
       \/ /\ "rst" \notin p.flags /\ "fin" \notin p.flags /\ Len(Taken(p).data) < Length /\ Taken(p) # conn
          /\ conn' = Taken(p) /\ UNCHANGED outcome
    /\ UNCHANGED <<flow, nextPort>>

\* Two quiet seconds end a response that has begun, the deadline one that has not.
TimesOut ==
    /\ conn.st \in {"syn", "recv"}
    /\ IF conn.st = "recv" /\ conn.data # <<>> THEN Returns("answered", conn.data) ELSE Returns("failed", <<>>)
    /\ UNCHANGED <<flow, nextPort>>

\* A datagram that does not authenticate fails the request it arrives in.
Garbage ==
    /\ conn.st \in {"syn", "recv"}
    /\ Returns("failed", <<>>)
    /\ UNCHANGED <<flow, nextPort>>

EspNext ==
    \/ \E isn \in Isns : Accept(isn) \/ SynArrives(isn)
    \/ Reject \/ RequestArrives \/ TimesOut \/ Garbage
    \/ \E r \in Requests : \E p \in Segments(r) : Handshake(p) \/ Response(p)

EspSpec == EspInit /\ [][EspNext]_espVars

-----------------------------------------------------------------------------
\* Whatever the network loses, repeats, delays or reorders, the browser is given a
\* prefix of the answer to its own request (http_request_over_esp_from_source_port).
ResponseIsPrefix ==
    \A r \in Requests : outcome[r].st = "answered" =>
        outcome[r].data = SubSeq(Stream(r), 1, Len(outcome[r].data))

\* While a response is being received the acknowledgement number stands for exactly
\* the bytes delivered, across the wrap of the sequence space.
AckIsHeld == conn.st = "recv" =>
    conn.serverNext = (flow[conn.req].isn + 1 + Len(conn.data)) % Mod

\* Together: the stream the bridge delivers and acknowledges is one and the same.
BridgeExact == ResponseIsPrefix /\ AckIsHeld
=============================================================================
