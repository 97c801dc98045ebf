------------------------------ MODULE Dissect ------------------------------
(***************************************************************************)
(* Packet::flow_view() (src/packet.cpp): from the bytes of a layer-3       *)
(* packet to its 5-tuple, the place of its transport payload, and the key  *)
(* of its flow.                                                            *)
(*                                                                         *)
(* A buffer is its bytes and the byte found in memory after them: a read   *)
(* past the end is not an error of the model, it returns junk, so that an  *)
(* answer that depends on such a read differs from one junk to another.    *)
(* Offsets count from 0 as in the code, and an offset stands for a pointer *)
(* into the packet.                                                        *)
(***************************************************************************)
EXTENDS Integers, Sequences

CONSTANT KeyMod      \* 2^32: the flow key is a uint32_t

ASSUME KeyModAssumption == KeyMod \in Nat \ {0}

Byte == 0..255
Buffer(bytes, junk) == [b |-> bytes, junk |-> junk]
Size(p) == Len(p.b)
Rd(p, i) == IF i < Size(p) THEN p.b[i + 1] ELSE p.junk
Be16(p, i) == Rd(p, i) * 256 + Rd(p, i + 1)
Bytes(p, off, n) == [i \in 1..n |-> Rd(p, off + i - 1)]

\* struct FlowView; payload is an offset.
NoAddr == [i \in 1..16 |-> 0]
NoFlow == [ip_version |-> 0, ip_proto |-> 0, src_ip |-> NoAddr, dst_ip |-> NoAddr,
           src_port |-> 0, dst_port |-> 0, payload |-> 0, payload_len |-> 0,
           tcp_flags |-> 0, key |-> 0]
Undissected == [ok |-> FALSE, flow |-> NoFlow]
Dissected(f) == [ok |-> TRUE, flow |-> f]

-----------------------------------------------------------------------------
Tcp == 6
Udp == 17

\* The length field is used when it fits the packet, else all there is is payload.
ParseUDP(p, off, len, f) ==
  LET said == Be16(p, off + 4) - 8
  IN IF len < 8 THEN Undissected
     ELSE Dissected([f EXCEPT !.ip_proto = Udp,
                              !.src_port = Be16(p, off), !.dst_port = Be16(p, off + 2),
                              !.payload = off + 8,
                              !.payload_len = IF said \in 0..(len - 8) THEN said ELSE len - 8])

ParseTCP(p, off, len, f) ==
  LET dataOff == (Rd(p, off + 12) \div 16) * 4
  IN IF len < 20 \/ dataOff < 20 \/ dataOff > len THEN Undissected
     ELSE Dissected([f EXCEPT !.ip_proto = Tcp, !.tcp_flags = Rd(p, off + 13),
                              !.src_port = Be16(p, off), !.dst_port = Be16(p, off + 2),
                              !.payload = off + dataOff, !.payload_len = len - dataOff])

ParseL4(proto, p, off, len, f) ==
  CASE proto = Tcp -> ParseTCP(p, off, len, f)
    [] proto = Udp -> ParseUDP(p, off, len, f)
    [] OTHER -> Undissected

-----------------------------------------------------------------------------
\* An IPv4 address takes the first 4 of 16 bytes.
Addr4(p, off) == [i \in 1..16 |-> IF i <= 4 THEN Rd(p, off + i - 1) ELSE 0]

\* (mutant) The header length is not compared with what was captured.
ParseIPv4Unchecked(p) ==
  LET ihl == (Rd(p, 0) % 16) * 4
      f   == [NoFlow EXCEPT !.ip_version = 4, !.src_ip = Addr4(p, 12), !.dst_ip = Addr4(p, 16)]
      l3  == IF Be16(p, 2) >= ihl THEN Be16(p, 2) ELSE Size(p)
  IN IF ihl < 20 \/ Be16(p, 6) % 8192 # 0 THEN Undissected
     ELSE ParseL4(Rd(p, 9), p, ihl, l3 - ihl, f)

\* A fragment with an offset has no transport header; total_length is trusted when
\* it is sane, which strips what the link layer padded the packet with.
ParseIPv4(p) ==
  LET ihl   == (Rd(p, 0) % 16) * 4
      total == Be16(p, 2)
      f     == [NoFlow EXCEPT !.ip_version = 4, !.src_ip = Addr4(p, 12), !.dst_ip = Addr4(p, 16)]
      l3    == IF total \in ihl..Size(p) THEN total ELSE Size(p)
  IN IF Size(p) < 20 \/ ihl < 20 \/ ihl > Size(p) \/ Be16(p, 6) % 8192 # 0 THEN Undissected
     ELSE ParseL4(Rd(p, 9), p, ihl, l3 - ihl, f)

HopByHop == 0
Routing == 43
Fragment == 44
DestOpts == 60
Mobility == 135
MaxV6ExtHeaders == 8

\* A header is its type and its offset.  It is skipped if its type is one the code
\* knows, it lies within the packet, and no fragment offset says that the transport
\* header is in another packet.
Past(p, h) == IF h.type = Fragment THEN h.off + 8 ELSE h.off + (Rd(p, h.off + 1) + 1) * 8
Skippable(p, l3, h) ==
  /\ Past(p, h) <= l3
  /\ \/ h.type \in {HopByHop, Routing, DestOpts, Mobility} /\ h.off + 2 <= l3
     \/ h.type = Fragment /\ Be16(p, h.off + 2) \div 8 = 0

\* The header the walk is at after n turns of its loop; where it cannot go on it stays.
WalkV6(p, l3, n) ==
  LET at[i \in Nat] ==
        IF i = 0 THEN [type |-> Rd(p, 6), off |-> 40]
        ELSE LET h == at[i - 1]
             IN IF Skippable(p, l3, h) THEN [type |-> Rd(p, h.off), off |-> Past(p, h)] ELSE h
  IN at[n]

\* The last turn allowed can only find the transport header.
ParseIPv6(p) ==
  LET said == 40 + Be16(p, 4)
      l3   == IF said <= Size(p) THEN said ELSE Size(p)
      h    == WalkV6(p, l3, MaxV6ExtHeaders - 1)
      f    == [NoFlow EXCEPT !.ip_version = 6, !.src_ip = Bytes(p, 8, 16),
                             !.dst_ip = Bytes(p, 24, 16)]
  IN IF Size(p) < 40 THEN Undissected ELSE ParseL4(h.type, p, h.off, l3 - h.off, f)

ParseFlow(p) ==
  CASE Size(p) > 0 /\ Rd(p, 0) \div 16 = 4 -> ParseIPv4(p)
    [] Size(p) > 0 /\ Rd(p, 0) \div 16 = 6 -> ParseIPv6(p)
    [] OTHER -> Undissected

-----------------------------------------------------------------------------
\* The flow key: a polynomial hash of each endpoint, the two combined in an order
\* that does not depend on the direction.  The code computes in 64 bits and keeps
\* 32 of them at the end, which is the same as reducing at every step.

HashStep(h, x) == (h * 131 + x) % KeyMod
EndpointHash(ip, port) ==
  LET hash[i \in 0..16] == IF i = 0 THEN 0 ELSE HashStep(hash[i - 1], ip[i])
  IN HashStep(hash[16], port)

Mix(h, x) == (h * 1000003 + x) % KeyMod

\* (mutant) The endpoints are combined in the order the packet has them.
RouteKeyDirected(f) ==
  Mix(Mix(f.ip_proto, EndpointHash(f.src_ip, f.src_port)), EndpointHash(f.dst_ip, f.dst_port))

RouteKey(f) ==
  LET a  == EndpointHash(f.src_ip, f.src_port)
      b  == EndpointHash(f.dst_ip, f.dst_port)
      lo == IF a < b THEN a ELSE b
      hi == IF a < b THEN b ELSE a
  IN Mix(Mix(f.ip_proto, lo), hi)

\* Nothing but the result is used when the packet cannot be dissected.
FlowViewOf(p) ==
  LET r == ParseFlow(p)
  IN IF r.ok THEN Dissected([r.flow EXCEPT !.key = RouteKey(r.flow)]) ELSE Undissected

FlowKey(p) == FlowViewOf(p).flow.key
=============================================================================
