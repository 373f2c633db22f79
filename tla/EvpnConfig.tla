----------------------------- MODULE EvpnConfig -----------------------------
(***************************************************************************)
(* The binary CLIENT_CONFIG message: a fixed header, lists of addresses,   *)
(* length-prefixed padded records and typed attributes, in one of two      *)
(* layouts that the message itself does not name.  The client tries the    *)
(* current layout and falls back to the first version's.                   *)
(*                                                                         *)
(* The body is a sequence of 32-bit words; a word is the pair of its       *)
(* halves, and lengths are counted in words.  A half takes values in       *)
(* 0 .. 3, and 3 stands for the address family 10.                         *)
(***************************************************************************)
EXTENDS Naturals, Sequences, FiniteSets, SequencesExt

CONSTANTS
  Pads,    \* padding words behind a record or an attribute
  MaxList  \* bound on each list of a configuration

VARIABLES source, layout, pad, result

cfgVars == <<source, layout, pad, result>>

Zero == <<0, 0>>
Word == (0 .. 1) \X (0 .. 1)
Zeros(n) == [k \in 1 .. n |-> Zero]

----------------------------------------------------------------------------
(* What a gateway writes. *)

\* A record: its length and padded length, its words and the padding.
Record(data, p) == <<<<Len(data), Len(data) + p>>>> \o data \o Zeros(p)

\* An attribute: id and kind, then like a record; encode_capex writes the
\* client's capabilities in the same form.
Attribute(a, p) == <<<<a.id, 1>>, <<Len(a.data), Len(a.data) + p>>>> \o a.data \o Zeros(p)

\* An address: one word in the first version, five in the current one.
Address(l, address) ==
  IF l = "V1" THEN <<address>> ELSE <<<<2, 0>>, address>> \o Zeros(3)

\* The header keeps the counts; the attribute count is the 16-bit field of
\* the first version and only its high byte in the current layout.
Encode(l, c, p) ==
  [dns |-> Len(c.dns), records |-> Len(c.suffixes),
   high |-> IF l = "V1" THEN 0 ELSE Len(c.attributes),
   low |-> IF l = "V1" THEN Len(c.attributes) ELSE 0,
   words |-> (IF l = "V1" THEN <<>> ELSE c.ipv6)
             \o FlattenSeq([k \in DOMAIN c.dns |-> Address(l, c.dns[k])])
             \o FlattenSeq([k \in DOMAIN c.suffixes |-> Record(c.suffixes[k], p)])
             \o FlattenSeq([k \in DOMAIN c.attributes |-> Attribute(c.attributes[k], p)])]

----------------------------------------------------------------------------
(* What the client reads. *)

\* A cursor into the words, and what was read so far.
Start(at) == [ok |-> TRUE, at |-> at, out |-> <<>>]
Fail == [ok |-> FALSE, at |-> 0, out |-> <<>>]
Took(s, n, value) == [ok |-> TRUE, at |-> s.at + n, out |-> Append(s.out, value)]

\* A counted list; a failed element fails the list.
Times(Step(_), s, count) ==
  LET read[n \in 0 .. count] ==
        IF n = 0 THEN s
        ELSE IF read[n - 1].ok THEN Step(read[n - 1]) ELSE Fail
  IN  read[count]

\* Fault: the entries of the first version are taken to be as long.
BugReadAddress(l, w, s) ==
  IF s.at + 5 > Len(w) THEN Fail ELSE Took(s, 5, w[s.at + IF l = "V1" THEN 1 ELSE 2])

\* parse_config_addresses.
ReadAddress(l, w, s) ==
  LET size == IF l = "V1" THEN 1 ELSE 5
  IN  IF s.at + size > Len(w) THEN Fail
      ELSE IF l = "V1" THEN Took(s, size, w[s.at + 1])
      ELSE IF w[s.at + 1][1] \in {2, 3} THEN Took(s, size, w[s.at + 2])
      ELSE Fail

\* Fault: the cursor moves behind the data and not behind its padding.
BugPadded(w, at) ==
  LET length == w[at][1]
      padded == w[at][2]
      inside == padded >= length /\ at + padded <= Len(w)
  IN  [ok |-> inside, size |-> length,
       data |-> IF inside THEN SubSeq(w, at + 1, at + length) ELSE <<>>]

\* The length and padded length in a header word: the data and its padding
\* must be inside the message, and both are skipped.
Padded(w, at) ==
  LET length == w[at][1]
      padded == w[at][2]
      inside == padded >= length /\ at + padded <= Len(w)
  IN  [ok |-> inside, size |-> padded,
       data |-> IF inside THEN SubSeq(w, at + 1, at + length) ELSE <<>>]

\* parse_config_records.
ReadRecord(w, s) ==
  IF s.at + 1 > Len(w) THEN Fail
  ELSE LET r == Padded(w, s.at + 1)
       IN  IF r.ok THEN Took(s, 1 + r.size, r.data) ELSE Fail

\* parse_config_attributes; only kinds 0 and 1 are modelled, the wide kinds
\* differ in the width of the same two lengths.
ReadAttribute(w, s) ==
  IF s.at + 2 > Len(w) \/ w[s.at + 1][2] > 1 THEN Fail
  ELSE LET r == Padded(w, s.at + 2)
       IN  IF r.ok THEN Took(s, 2 + r.size, [id |-> w[s.at + 1][1], data |-> r.data])
           ELSE Fail

\* parse_client_config in one layout: what is left over must be zero.
Parse(l, m) ==
  LET fixed == IF l = "V1" THEN 0 ELSE 4
      dns == Times(LAMBDA s : ReadAddress(l, m.words, s), Start(fixed), m.dns)
      suffixes == IF ~dns.ok THEN Fail
                  ELSE Times(LAMBDA s : ReadRecord(m.words, s), Start(dns.at), m.records)
      attributes == IF ~suffixes.ok THEN Fail
                    ELSE Times(LAMBDA s : ReadAttribute(m.words, s), Start(suffixes.at),
                               IF l = "V1" THEN m.low + 4 * m.high ELSE m.high)
      rest == SubSeq(m.words, attributes.at + 1, Len(m.words))
  IN  IF \/ Len(m.words) < fixed \/ ~attributes.ok
         \/ \E k \in DOMAIN rest : rest[k] # Zero
      THEN [ok |-> FALSE, layout |-> "none"]
      ELSE [ok |-> TRUE, layout |-> l,
            config |-> [dns |-> dns.out, suffixes |-> suffixes.out,
                        attributes |-> attributes.out,
                        ipv6 |-> IF l = "V1" THEN Zeros(4) ELSE SubSeq(m.words, 1, 4)]]

\* The CLIENT_CONFIG arm of connect_and_bootstrap.
Read(m) == IF Parse("Current", m).ok THEN Parse("Current", m) ELSE Parse("V1", m)

----------------------------------------------------------------------------
\* The records a configuration may carry.
Names == {<<>>, <<<<1, 0>>>>}
Attributes == [id : 0 .. 1, data : Names]

Configs ==
  [dns : UNION {[1 .. n -> Word] : n \in 0 .. MaxList},
   suffixes : UNION {[1 .. n -> Names] : n \in 0 .. MaxList},
   attributes : UNION {[1 .. n -> Attributes] : n \in 0 .. MaxList},
   ipv6 : {Zeros(4)}]

Unread == [ok |-> FALSE]

Init ==
  /\ source \in Configs /\ layout \in {"V1", "Current"} /\ pad \in Pads
  /\ result = Unread

Receive ==
  /\ result = Unread
  /\ result' = Read(Encode(layout, source, pad))
  /\ UNCHANGED <<source, layout, pad>>

CfgNext == Receive

Spec == Init /\ [][CfgNext]_cfgVars

----------------------------------------------------------------------------
(* Properties. *)

\* A message in the current layout is read back exactly, whatever the padding
\* the gateway chose: it is never left to the older layout.
CurrentIsExact ==
  layout = "Current" /\ result # Unread =>
    result.layout = "Current" /\ result.config = source

\* The body of a message of the first version passes for the current layout.
Ambiguous ==
  LET m == Encode("V1", source, pad)
  IN  Len(m.words) >= 4 + 5 * m.dns

\* A message of the first version is read back exactly unless it is so long
\* that its lists can fill the larger fixed part and address entries of the
\* current layout; in that case the client may take its words for them.
ShortV1IsExact ==
  layout = "V1" /\ result # Unread /\ ~Ambiguous =>
    result.layout = "V1" /\ result.config = source

\* Together: both layouts are read back exactly, as far as they can be told apart.
ConfigExact == CurrentIsExact /\ ShortV1IsExact
=============================================================================
