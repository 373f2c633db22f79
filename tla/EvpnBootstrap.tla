--------------------------- MODULE EvpnBootstrap ---------------------------
(***************************************************************************)
(* The SonicWall EVPN control channel: the TLS connection, the decoder     *)
(* that cuts the byte stream into frames and reassembles fragmented ones,  *)
(* the VERSION / TEAM / CAPEX / CLIENT_CONFIG exchange, and the hand-over  *)
(* to the packet loop, which continues on the same decoder.                *)
(*                                                                         *)
(* The stream is ordered and loses nothing, but a read returns any number  *)
(* of bytes.  A piece of the stream is a whole frame or one fragment; it   *)
(* takes PieceLen bytes, so that a read may end inside it.  A fragmented   *)
(* message has two fragments.  The gateway may interleave the fragments of *)
(* several messages and may abandon a message and reuse its id.            *)
(***************************************************************************)
EXTENDS Naturals, Sequences, FiniteSets, SequencesExt

CONSTANTS
  Ids,          \* reassembly ids
  MaxPieces,    \* bound on what the gateway sends
  ControlLimit, \* control frames the bootstrap reads before it gives up
  MaxAttempts   \* MAX_TLS_CONNECT_ATTEMPTS

VARIABLES
  wire,      \* the pieces the gateway has written
  open,      \* the gateway's view: the message it is fragmenting under each id
  arrived,   \* bytes read from the stream into the decoder
  drained,   \* pieces taken from the front of the decoder's buffer
  fragments, \* Decoder.fragments: what was collected for each id
  phase,     \* where connect_and_bootstrap or the packet loop stands
  attempt,   \* TLS connection attempts
  sent,      \* what the client has written
  seen,      \* control frames read after TEAM
  frames,    \* history: the frames the decoder returned
  tun,       \* history: the packets given to the TUN device
  since      \* history: frames returned when the tunnel was established

evpnVars == <<wire, open, arrived, drained, fragments, phase, attempt, sent,
              seen, frames, tun, since>>

PieceLen == 2

\* The message types the exchange tells apart; HELLO stands for the types that
\* are answered with CAPEX alone, OTHER for the types that are ignored.
Controls == {"HELLO", "CAPEX", "CLIENT_VERSION_ACK", "CLIENT_CONFIG",
             "ECHO_REQ", "SHUTDOWN"}
Types == Controls \cup {"VERSION_ACK", "DATA"}

Empty == [msg |-> 0, type |-> "none", payload |-> <<>>]

Init ==
  /\ wire = <<>> /\ open = [i \in Ids |-> Empty]
  /\ arrived = 0 /\ drained = 0
  /\ fragments = [i \in Ids |-> Empty]
  /\ phase = "connecting" /\ attempt = 1
  /\ sent = <<>> /\ seen = 0
  /\ frames = <<>> /\ tun = <<>> /\ since = 0

----------------------------------------------------------------------------
(* The gateway.  What it will send does not depend on how its bytes are cut,
   so it is fixed before the first read; a read returns as much of it as has
   been sent by then. *)

GatewayAlive == phase = "connecting" /\ attempt = 1 /\ Len(wire) < MaxPieces

\* The first message is the VERSION_ACK; DATA follows the CLIENT_CONFIG.
Fits(type) ==
  LET said == {wire[n].type : n \in DOMAIN wire}
  IN  /\ (type = "VERSION_ACK") = (wire = <<>>)
      /\ type = "DATA" => "CLIENT_CONFIG" \in said

Piece(type, kind, id, part) ==
  [msg |-> Len(wire) + 1, type |-> type, kind |-> kind, id |-> id, part |-> part]

\* A message in one frame.
GatewaySends(type) ==
  /\ GatewayAlive /\ Fits(type)
  /\ wire' = Append(wire, Piece(type, "whole", 0, 1))
  /\ UNCHANGED <<open, arrived, drained, fragments, phase, attempt, sent, seen,
                 frames, tun, since>>

\* The first fragment of a message; an unfinished one under this id is dropped.
GatewayBegins(type, id) ==
  /\ GatewayAlive /\ Fits(type) /\ type \in {"DATA", "CLIENT_CONFIG"}
  /\ wire' = Append(wire, Piece(type, "first", id, 1))
  /\ open' = [open EXCEPT ![id] =
                [msg |-> Len(wire) + 1, type |-> type, payload |-> <<>>]]
  /\ UNCHANGED <<arrived, drained, fragments, phase, attempt, sent, seen,
                 frames, tun, since>>

GatewayContinues(id) ==
  /\ GatewayAlive /\ open[id] # Empty
  /\ wire' = Append(wire, [Piece(open[id].type, "next", id, 2)
                             EXCEPT !.msg = open[id].msg])
  /\ open' = [open EXCEPT ![id] = Empty]
  /\ UNCHANGED <<arrived, drained, fragments, phase, attempt, sent, seen,
                 frames, tun, since>>

----------------------------------------------------------------------------
(* The decoder. *)

\* A whole piece is at the front of the buffer.
Buffered == arrived >= PieceLen * (drained + 1)

\* read_frame and the packet loop read the stream, and push what came to the
\* decoder, once it has no whole piece left.
Read ==
  /\ phase \notin {"connecting", "failed"} /\ ~Buffered
  /\ arrived' \in (arrived + 1) .. (PieceLen * Len(wire))
  /\ UNCHANGED <<wire, open, drained, fragments, phase, attempt, sent, seen,
                 frames, tun, since>>

\* A payload is the sequence of its fragments, each tagged by its message.
Collected(piece) == [msg |-> piece.msg, type |-> piece.type,
                     payload |-> <<<<piece.msg, piece.part>>>>]

\* Fault: a first fragment is added to what an abandoned message left behind.
BugAssembly(piece) ==
  IF fragments[piece.id] = Empty THEN Collected(piece)
  ELSE [fragments[piece.id] EXCEPT !.payload = Append(@, <<piece.msg, piece.part>>)]

\* consume_extended: the assembly after this fragment.
Assembly(piece) ==
  IF piece.kind = "first" THEN Collected(piece)
  ELSE [fragments[piece.id] EXCEPT !.payload = Append(@, <<piece.msg, piece.part>>)]

Complete(piece) ==
  IF piece.kind = "whole" THEN TRUE ELSE Len(Assembly(piece).payload) = 2

\* next_frame drains one piece.  A continuation without a first fragment is an
\* error (the gateway modelled here sends none).
Drained(piece) ==
  /\ drained' = drained + 1
  /\ fragments' = IF piece.kind = "whole" THEN fragments
                  ELSE [fragments EXCEPT ![piece.id] =
                          IF Complete(piece) THEN Empty ELSE Assembly(piece)]
  /\ frames' = IF ~Complete(piece) THEN frames
               ELSE Append(frames, IF piece.kind = "whole" THEN Collected(piece)
                                   ELSE Assembly(piece))

----------------------------------------------------------------------------
(* connect_and_bootstrap. *)

\* connect_evpn_tls_with_retry: only a transient failure is retried, and the
\* last attempt's failure is final.  Then VERSION is sent.
Connect ==
  /\ phase = "connecting"
  /\ \/ phase' = "version" /\ sent' = <<"VERSION">> /\ UNCHANGED attempt
     \/ attempt < MaxAttempts /\ attempt' = attempt + 1 /\ UNCHANGED <<phase, sent>>
     \/ phase' = "failed" /\ UNCHANGED <<attempt, sent>>
  /\ UNCHANGED <<wire, open, arrived, drained, fragments, seen, frames, tun, since>>

Sent(kind) == Contains(sent, kind)
Unsent(kinds) == SelectSeq(kinds, LAMBDA k : ~Sent(k))

\* Fault: the capabilities are sent again with every frame that asks for them.
BugAnswer(type) ==
  CASE type = "HELLO" -> <<"CAPEX">>
    [] type = "CAPEX" -> <<"CAPEX", "CLIENT_ADDR_INFO">>
    [] type = "CLIENT_VERSION_ACK" -> Unsent(<<"CLIENT_ADDR_INFO">>)
    [] type = "CLIENT_CONFIG" -> <<"CLIENT_CONFIG_ACK">>
    [] OTHER -> <<>>

\* What the bootstrap loop writes for one control frame.
Answer(type) ==
  CASE type = "HELLO" -> Unsent(<<"CAPEX">>)
    [] type = "CAPEX" -> Unsent(<<"CAPEX", "CLIENT_ADDR_INFO">>)
    [] type = "CLIENT_VERSION_ACK" -> Unsent(<<"CLIENT_ADDR_INFO">>)
    [] type = "CLIENT_CONFIG" -> <<"CLIENT_CONFIG_ACK">>
    [] OTHER -> <<>>

NextPiece == wire[drained + 1]

\* A fragment that completes nothing: next_frame goes on to the next piece.
Fragment ==
  /\ phase \notin {"connecting", "failed"} /\ Buffered
  /\ ~Complete(NextPiece) /\ Drained(NextPiece)
  /\ UNCHANGED <<wire, open, arrived, phase, attempt, sent, seen, tun, since>>

Returned(type) ==
  /\ phase \notin {"connecting", "failed"} /\ Buffered
  /\ Complete(NextPiece) /\ NextPiece.type = type
  /\ Drained(NextPiece)
  /\ UNCHANGED <<wire, open, arrived, attempt>>

\* read_control_frame answers a keepalive itself and reads on, so a keepalive
\* is never counted against the limit; the packet loop answers it too.
Echo ==
  /\ Returned("ECHO_REQ")
  /\ sent' = Append(sent, "ECHO_RSP")
  /\ UNCHANGED <<phase, seen, tun, since>>

VersionAck ==
  /\ phase = "version"
  /\ \E type \in Types \ {"ECHO_REQ"} :
       /\ Returned(type)
       /\ \/ type = "VERSION_ACK" /\ phase' = "control" /\ sent' = Append(sent, "TEAM")
          \/ type # "VERSION_ACK" /\ phase' = "failed" /\ UNCHANGED sent
  /\ UNCHANGED <<seen, tun, since>>

\* One pass of the bootstrap loop.  A CLIENT_CONFIG that neither layout can
\* read ends the bootstrap.
Control ==
  /\ phase = "control"
  /\ \E type \in Types \ {"ECHO_REQ"} :
       /\ Returned(type)
       /\ seen' = seen + 1
       /\ \/ type = "SHUTDOWN" /\ phase' = "failed" /\ UNCHANGED <<sent, since>>
          \/ type = "CLIENT_CONFIG" /\ phase' = "failed" /\ UNCHANGED <<sent, since>>
          \/ /\ type = "CLIENT_CONFIG" /\ phase' = "established"
             /\ sent' = sent \o Answer(type)
             /\ since' = Len(frames) + 1
          \/ /\ type \notin {"SHUTDOWN", "CLIENT_CONFIG"}
             /\ sent' = sent \o Answer(type)
             /\ phase' = IF seen + 1 = ControlLimit THEN "failed" ELSE "control"
             /\ UNCHANGED since
  /\ UNCHANGED tun

\* Fault: the packet loop drops what is left in the decoder when the stream has
\* nothing more to read.
BugPackets ==
  /\ phase = "established"
  /\ \E type \in Types \ {"ECHO_REQ"} :
       /\ Returned(type)
       /\ tun' = IF type = "DATA" /\ arrived < PieceLen * Len(wire)
                 THEN Append(tun, Last(frames')) ELSE tun
       /\ phase' = IF type = "SHUTDOWN" THEN "failed" ELSE phase
  /\ UNCHANGED <<sent, seen, since>>

\* run_sonicwall_packet_loop on one frame.
Packets ==
  /\ phase = "established"
  /\ \E type \in Types \ {"ECHO_REQ"} :
       /\ Returned(type)
       /\ tun' = IF type = "DATA" THEN Append(tun, Last(frames')) ELSE tun
       /\ phase' = IF type = "SHUTDOWN" THEN "failed" ELSE phase
  /\ UNCHANGED <<sent, seen, since>>

\* The stream ends or times out while a read waits for more.
StreamFails ==
  /\ phase \notin {"connecting", "failed"} /\ ~Buffered
  /\ phase' = "failed"
  /\ UNCHANGED <<wire, open, arrived, drained, fragments, attempt, sent, seen,
                 frames, tun, since>>

EvpnNext ==
  \/ \E type \in Types : GatewaySends(type)
  \/ \E type \in Types, id \in Ids : GatewayBegins(type, id)
  \/ \E id \in Ids : GatewayContinues(id)
  \/ Read \/ Connect \/ Fragment \/ Echo \/ VersionAck \/ Control \/ Packets
  \/ StreamFails

Spec == Init /\ [][EvpnNext]_evpnVars

----------------------------------------------------------------------------
(* Properties. *)

\* The messages that are whole in a prefix of the stream, in the order of
\* their last pieces: the reference for the decoder.
WholeIn(n) ==
  LET ends == SelectSeq([k \in 1 .. n |-> wire[k]], LAMBDA p : p.kind # "first")
  IN  [k \in DOMAIN ends |->
        [msg |-> ends[k].msg, type |-> ends[k].type,
         payload |-> [part \in 1 .. ends[k].part |-> <<ends[k].msg, part>>]]]

\* Whatever the reads cut and however fragments of several messages are
\* interleaved or abandoned, the decoder has returned exactly the messages
\* that are whole in what it drained, unmixed and in order.
FramesAreIntact == frames = WholeIn(drained)

\* After the hand-over every packet the gateway sent behind the CLIENT_CONFIG
\* reaches the TUN device in order, also those that were already in the
\* decoder's buffer when the bootstrap returned.
NothingLostAtHandover ==
  phase = "established" =>
    tun = SelectSeq(SubSeq(frames, since + 1, Len(frames)),
                    LAMBDA f : f.type = "DATA")

Count(kind) == Cardinality({n \in DOMAIN sent : sent[n] = kind})

\* Each step of the exchange is made once, in whichever order the gateway asks,
\* every keepalive is answered, and a tunnel is established only by an
\* acknowledged CLIENT_CONFIG that came after TEAM.
ExchangeConsistent ==
  /\ \A kind \in {"TEAM", "CAPEX", "CLIENT_ADDR_INFO", "CLIENT_CONFIG_ACK"} :
       Count(kind) <= 1
  /\ Count("ECHO_RSP") = Cardinality({n \in DOMAIN frames : frames[n].type = "ECHO_REQ"})
  /\ Sent("CLIENT_CONFIG_ACK") = (since > 0)
  /\ since > 0 => frames[since].type = "CLIENT_CONFIG"

\* Together: nothing the gateway sent is lost, mixed up or answered twice.
BootstrapExact == FramesAreIntact /\ NothingLostAtHandover /\ ExchangeConsistent
=============================================================================
