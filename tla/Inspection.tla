----------------------------- MODULE Inspection -----------------------------
(***************************************************************************)
(* From a client's packets to the verdict on its connection, byte by byte: *)
(* Packet::flow_view() locates the payload of each packet, the payload is  *)
(* appended to the flow's stream, extractHostname() looks at the stream,   *)
(* and the worker's policy asks the blocklist about the name found.  What  *)
(* module Extractor takes as given of a ClientHello (HelloLen, HostOf,     *)
(* BlockedHosts, KeyOf) is computed here.                                  *)
(*                                                                         *)
(* The environment is a client that sends one message in TLS records, over *)
(* TCP or UDP, IPv4 or IPv6, in segments that arrive in order, and a       *)
(* server that replies.  A behaviour begins with the choice of a case:     *)
(*   hello   the message, as a client would describe it                    *)
(*   ends    the positions in the message at which its records end         *)
(*   flip    one byte of the stream and the value it is overwritten with,  *)
(*           or none                                                       *)
(*   encap   how packets are made                                          *)
(***************************************************************************)
EXTENDS ClientHello, BlockList, FiniteSets, SequencesExt

CONSTANTS
  Cases,            \* the cases a behaviour may be about
  Junk,             \* bytes that may be found after a buffer
  SegLens,          \* lengths of the client's segments, but for a shorter last one
  MaxStreamBytes    \* kMaxStreamBytes

VARIABLES
  case,         \* the case chosen
  wire,         \* the client's stream
  sent,         \* bytes of it delivered
  stream,       \* Conn::stream
  answer,       \* what extractHostname() last returned
  verdict,      \* none, ALLOW or BLOCK
  keys,         \* flow keys of the connection's packets, both directions
  cut           \* a packet looked at after so many bytes: its dissections, one per junk

ivars == <<case, wire, sent, stream, answer, verdict, keys, cut, lvars>>

-----------------------------------------------------------------------------
\* The environment.

U16(n) == <<n \div 256, n % 256>>
U24(n) == <<n \div 65536>> \o U16(n % 65536)
Zeros(n) == [i \in 1..n |-> 0]
Sized(s) == U16(Len(s)) \o s
EncodeAll(s, Enc(_)) == FlattenSeq([i \in DOMAIN s |-> Enc(s[i])])

\* A ClientHello is described by its message type, session id and extensions, each a
\* type and a list of names; rest is what the client sends after it.
NameBytes(n) == <<n.type>> \o Sized(n.name)
ExtBytes(e) == U16(e.type) \o Sized(Sized(EncodeAll(e.names, NameBytes)))
Message(h) ==
  LET exts == IF h.exts = <<>> THEN <<>> ELSE Sized(EncodeAll(h.exts, ExtBytes))
      body == <<3, 3>> \o Zeros(RandomLen) \o <<Len(h.sid)>> \o h.sid \o Sized(<<19, 1>>)
              \o <<1, 0>> \o exts
  IN <<h.type>> \o U24(Len(body)) \o body

\* The name a server takes from it, if any: the first host_name of the first
\* server_name extension.
FirstOf(s) == {s[i] : i \in {k \in DOMAIN s : /\ s[k].type = 0
                                               /\ \A j \in 1..(k - 1) : s[j].type # 0}}
ServerName(h) ==
  IF h.type = 1 THEN {n.name : n \in UNION {FirstOf(e.names) : e \in FirstOf(h.exts)}} ELSE {}

\* The message and what follows it, in records: the i-th has the bytes after Start(c, i)
\* up to ends[i].
Sent(c) == Message(c.hello) \o c.hello.rest
Start(c, i) == IF i = 1 THEN 0 ELSE c.ends[i - 1]
Record(c, i) == <<Handshake, 3, 1>> \o Sized(SubSeq(Sent(c), Start(c, i) + 1, c.ends[i]))
Records(c) == FlattenSeq([i \in DOMAIN c.ends |-> Record(c, i)])
Wire(c) == IF c.flip.at = 0 THEN Records(c) ELSE [Records(c) EXCEPT ![c.flip.at] = c.flip.to]

\* Packets from host number from to host number to.  e.exts are the extension headers
\* (16 bytes each, but a Fragment header has 8), of IPv4 as many words of options;
\* e.sized tells if the length fields are filled in.
L4(e, from, to, payload) ==
  U16(400 + from) \o U16(400 + to) \o
  (IF e.proto = Udp THEN U16(IF e.sized THEN 8 + Len(payload) ELSE 0) \o Zeros(2)
   ELSE Zeros(8) \o <<96, 24>> \o Zeros(10))
  \o payload
Ipv4(e, from, to, l4) ==
  LET ihl == 5 + Len(e.exts)
  IN <<64 + ihl, 0>> \o U16(IF e.sized THEN ihl * 4 + Len(l4) ELSE 0) \o Zeros(2)
     \o U16(e.frag) \o <<64, e.proto, 0, 0>> \o <<10, 0, 0, from>> \o <<10, 0, 0, to>>
     \o Zeros(4 * Len(e.exts)) \o l4
ExtHeader(e, i) ==
  LET next == IF i = Len(e.exts) THEN e.proto ELSE e.exts[i + 1]
  IN IF e.exts[i] = Fragment THEN <<next, 0>> \o U16(e.frag * 8) \o Zeros(4)
     ELSE <<next, 1>> \o Zeros(14)
Ipv6(e, from, to, l4) ==
  LET rest == FlattenSeq([i \in DOMAIN e.exts |-> ExtHeader(e, i)]) \o l4
  IN <<96, 0, 0, 0>> \o U16(IF e.sized THEN Len(rest) ELSE 0)
     \o <<IF e.exts = <<>> THEN e.proto ELSE e.exts[1], 64>>
     \o Zeros(15) \o <<from>> \o Zeros(15) \o <<to>> \o rest
Unpadded(e, from, to, payload) ==
  LET l4 == L4(e, from, to, payload)
  IN IF e.version = 4 THEN Ipv4(e, from, to, l4) ELSE Ipv6(e, from, to, l4)
PacketBytes(e, from, to, payload) == Unpadded(e, from, to, payload) \o e.pad

Client == 1
Server == 2

V6ExtHeaders == {HopByHop, Routing, Fragment, DestOpts, Mobility}

\* What flow_view() is for: a first fragment, over headers it knows and can follow.
\* A length of 0 is no length to an IPv4 packet, but to an IPv6 packet it is.
Dissectable(e) ==
  /\ e.frag = 0 /\ e.proto \in {Tcp, Udp}
  /\ e.version = 6 => /\ e.sized /\ Len(e.exts) < MaxV6ExtHeaders
                      /\ \A i \in DOMAIN e.exts : e.exts[i] \in V6ExtHeaders

\* What is assumed of a case: bytes are bytes, every length fits its field, and the
\* limits the extractor has are respected.
NameTypes == [type : Byte, name : Seq(Byte)]
ExtTypes == [type : {t \in Nat : t < 65536}, names : Seq(NameTypes)]
HelloFits(h) ==
  /\ h.type \in Byte /\ h.sid \in Seq(Byte) /\ h.rest \in Seq(Byte) /\ h.exts \in Seq(ExtTypes)
  /\ Len(h.sid) <= 255 /\ Len(Message(h)) <= MsgHeader + MaxMsg
RecordsFit(c) ==
  /\ c.ends \in Seq(Nat) /\ c.ends # <<>> /\ c.ends[Len(c.ends)] = Len(Sent(c))
  /\ \A i \in DOMAIN c.ends : c.ends[i] - Start(c, i) \in 1..MaxRecord
  /\ c.flip.at \in 0..Len(Records(c)) /\ c.flip.to \in Byte

\* The headers before the transport header are no transport headers, nor the other
\* way round; a fragment offset has a place; a packet without a length has no padding.
EncapFits(c, e) ==
  /\ e.version \in {4, 6} /\ e.sized \in BOOLEAN /\ e.pad \in Seq(Byte)
  /\ e.exts \in Seq(Byte \ {Tcp, Udp}) /\ e.proto \in Byte \ V6ExtHeaders
  /\ e.version = 4 => Len(e.exts) <= 10
  /\ e.frag \in Nat /\ e.frag < 8192
  /\ e.version = 6 /\ e.frag # 0 => \E i \in DOMAIN e.exts : e.exts[i] = Fragment
  /\ IF e.sized THEN Len(Unpadded(e, Client, Server, Wire(c))) < 65536 ELSE e.pad = <<>>

ASSUME CasesAssumption ==
  \A c \in Cases : HelloFits(c.hello) /\ RecordsFit(c) /\ EncapFits(c, c.encap)
ASSUME InspectionAssumption ==
  Junk \subseteq Byte /\ SegLens \subseteq Nat \ {0} /\ MaxStreamBytes \in Nat

-----------------------------------------------------------------------------
NotCut == [size |-> -1, views |-> {}]

IInit ==
  /\ case \in Cases
  /\ wire = Wire(case)
  /\ sent = 0 /\ stream = <<>> /\ answer = NeedMore /\ verdict = "none"
  /\ keys = {} /\ cut = NotCut
  /\ LInit

Undecided == verdict = "none" /\ answer = NeedMore /\ cut = NotCut

\* feed(), for a flow tracked since its SYN, and, unless the packet is no business of
\* the extractor, onMessageReady() with the payload (the reassembler's: it finds and
\* orders the segments itself).
Deliver ==
  /\ Undecided
  /\ sent < Len(wire)
  /\ \E k \in SegLens, junk \in Junk :
       LET n    == IF sent + k < Len(wire) THEN sent + k ELSE Len(wire)
           part == SubSeq(wire, sent + 1, n)
           view == FlowViewOf(Buffer(PacketBytes(case.encap, Client, Server, part), junk))
           more == stream \o part
           got  == ExtractHostname(Buffer(more, junk))
       IN /\ sent' = n
          /\ IF ~view.ok \/ view.flow.ip_proto # Tcp
             THEN UNCHANGED <<stream, answer, verdict, keys>>
             ELSE /\ keys' = keys \cup {view.flow.key}
                  /\ stream' = more
                  /\ answer' = got
                  /\ verdict' = IF \/ got.res = "NotFound"
                                   \/ got.res = "NeedMore" /\ Len(more) > MaxStreamBytes
                                THEN "ALLOW" ELSE "none"
  /\ UNCHANGED <<case, wire, cut, lvars>>

\* The policy: the blocklist is asked about the name that was found.
Ask ==
  /\ verdict = "none" /\ answer.res = "Found"
  /\ LookupExact(answer.bytes)
  /\ UNCHANGED <<case, wire, sent, stream, answer, verdict, keys, cut>>

Walk == Lookup /\ UNCHANGED <<case, wire, sent, stream, answer, verdict, keys, cut>>

Conclude ==
  /\ verdict = "none" /\ lpc = "done"
  /\ verdict' = IF blocked THEN "BLOCK" ELSE "ALLOW"
  /\ UNCHANGED <<case, wire, sent, stream, answer, keys, cut, lvars>>

\* A packet of the server.
Reply ==
  /\ Undecided /\ sent > 0
  /\ LET view == FlowViewOf(Buffer(PacketBytes(case.encap, Server, Client, <<>>), 0))
     IN keys' = IF view.ok THEN keys \cup {view.flow.key} ELSE keys
  /\ UNCHANGED <<case, wire, sent, stream, answer, verdict, cut, lvars>>

\* flow_view() on a packet of which only the first n bytes were captured.
LookAtCut ==
  /\ Undecided /\ sent = 0
  /\ LET p == PacketBytes(case.encap, Client, Server, wire)
     IN \E n \in 0..Len(p) :
          cut' = [size |-> n, views |-> {FlowViewOf(Buffer(SubSeq(p, 1, n), j)) : j \in Junk}]
  /\ UNCHANGED <<case, wire, sent, stream, answer, verdict, keys, lvars>>

\* Decided, or nothing more to come.
Finished ==
  /\ verdict # "none" \/ cut # NotCut \/ (answer = NeedMore /\ sent = Len(wire))
  /\ UNCHANGED ivars

INext == Deliver \/ Ask \/ Walk \/ Conclude \/ Reply \/ LookAtCut \/ Finished

ISpec == IInit /\ [][INext]_ivars

-----------------------------------------------------------------------------
Intact == case.flip.at = 0
Inspected == Dissectable(case.encap) /\ case.encap.proto = Tcp

\* The verdict on a well-formed hello is the blocklist's on the name a server would
\* take from it, whatever other fields precede the name and however the message is
\* cut into records and segments; a hello without a name is allowed.
VerdictOfHello ==
  verdict # "none" /\ Intact /\ Len(stream) <= MaxStreamBytes =>
    verdict = IF \E n \in ServerName(case.hello) : Listed(n) THEN "BLOCK" ELSE "ALLOW"

\* As long as part of a well-formed ClientHello is missing, the extractor waits for
\* more, wherever the stream stops (in a record header, in the message header, in a
\* name) and however many records the message is spread over; once it is all there,
\* the extractor does not wait any longer.
WaitsForWholeHello ==
  Intact /\ case.hello.type = 1 /\ Inspected =>
    LET n == Len(Message(case.hello))
    IN /\ \A k \in DOMAIN case.ends :
            Start(case, k) < n /\ sent < n + k * RecordHeader => answer = NeedMore
       /\ sent = Len(wire) => answer # NeedMore

\* An answer is final: the bytes that were still to come, or that came in the same
\* segment, would not have changed it.  This holds of damaged streams as well.
AnswerFinal == answer # NeedMore => ExtractHostname(Buffer(wire, 0)) = answer

\* "Every read is bounds checked": neither parser's result depends on what lies in
\* memory after the bytes it was given, whatever the length fields in them say.
OnlyReadsItsBytes ==
  /\ \A j \in Junk : ExtractHostname(Buffer(stream, j)) = answer
  /\ Cardinality(cut.views) <= 1

\* flow_view() finds exactly the transport payload, without padding, options and
\* extension headers; of a packet cut short, the part that is left, never more than
\* was captured; and it finds nothing in a packet it has to leave alone.
PayloadFound ==
  \A v \in cut.views :
    LET p == Unpadded(case.encap, Client, Server, wire)
        all == cut.size >= Len(p)
    IN /\ all => v.ok = Dissectable(case.encap)
       /\ v.ok => /\ v.flow.payload + v.flow.payload_len <= cut.size
                  /\ SubSeq(p, v.flow.payload + 1, v.flow.payload + v.flow.payload_len)
                       = SubSeq(wire, 1, v.flow.payload_len)
                  /\ all => v.flow.payload_len = Len(wire)

\* A connection has one flow key: its packets, the server's replies included, are of
\* one flow for the table.
OneKeyPerConnection == Cardinality(keys) <= 1
=============================================================================
