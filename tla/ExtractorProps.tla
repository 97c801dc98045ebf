--------------------------- MODULE ExtractorProps ---------------------------
(***************************************************************************)
(* What the extractor must get right.                                      *)
(***************************************************************************)
EXTENDS Extractor

Settled == answered \o decided

\* A packet feed() still has in its hand: not yet held, not yet decided.
InHand == cur # NoPacket /\ ~(pc = "callbacks" /\ cur.seg # 0)

HeldIds(k) == {conns[k].held[i].id : i \in 1..Len(conns[k].held)}
DecidedIds == {decided[i].pkt.id : i \in 1..Len(decided)}
AnsweredIds == {answered[i].pkt.id : i \in 1..Len(answered)}
PendingIds ==
  (IF InHand THEN {cur.id} ELSE {}) \cup (UNION {HeldIds(k) : k \in Keys}) \cup DecidedIds

Ledger == INSTANCE PacketLedger WITH
  pending <- PendingIds,
  log <- [i \in 1..Len(answered) |-> [id |-> answered[i].pkt.id, verdict |-> answered[i].verdict]]

\* The extractor keeps the packet ledger: every packet fed stays in exactly one
\* of feed()'s hand, a flow's held list or the decided buffer until it is handed
\* back, once, whatever mix of callbacks, evictions, sweeps and flushes happens.
LedgerKept == Ledger!Spec

\* decide() is called at most once per packet: the kernel is never given two
\* verdicts for an id (NFQueue::submit calls that a protocol error).
DecidedOnce ==
  \A i, j \in 1..Len(Settled) : i # j => Settled[i].pkt.id # Settled[j].pkt.id

\* remember_blocked() keeps blocked flows within their share of the table, and
\* evict_oldest_blocked() with the cap check keeps the table within max_flows.
TableBounded == Cardinality(Blocked) <= MaxBlocked /\ Cardinality(Tracked) <= MaxFlows

\* Every blocked flow has a slot of the ring, so that remember_blocked() and
\* evict_oldest_blocked() can find it when its room is wanted: emptying slots, and
\* erasing flows that still have one, never leaves one behind.  (Key zero marks an
\* empty slot.)
RingCovers == \A k \in Blocked \ {0} : \E i \in Slots : ring[i] = k

\* What a flow buffers is bounded: kMaxPacketsPerConn packets, kMaxStreamBytes.
\* A decided flow buffers nothing.
BuffersBounded ==
  \A k \in Keys : /\ Len(conns[k].held) <= MaxHeld
                  /\ Len(conns[k].stream) <= MaxStream
                  /\ conns[k].state # "Wait" => conns[k].held = <<>> /\ conns[k].stream = <<>>

\* Between calls no held packet points into the receive buffer: the next recv()
\* overwrites it.
NoDanglingView ==
  pc = "idle" => \A k \in Keys : \A i \in 1..Len(conns[k].held) : ~conns[k].held[i].view

\* The payload packets of one flow are decided in the order they arrived, so
\* holding back a ClientHello never reorders a connection.
SameFlow(p, q) == p.conn = q.conn /\ p.conn # NoConn /\ p.seg # 0 /\ q.seg # 0
FlowOrderKept ==
  /\ \A i, j \in 1..Len(Settled) :
       i < j /\ SameFlow(Settled[i].pkt, Settled[j].pkt) => Settled[i].pkt.id < Settled[j].pkt.id
  /\ \A k \in Keys : \A h \in 1..Len(conns[k].held) : \A i \in 1..Len(Settled) :
       SameFlow(Settled[i].pkt, conns[k].held[h]) => Settled[i].pkt.id < conns[k].held[h].id

\* Only a connection whose ClientHello names a blocked host has packets dropped.
OnlyBlockedHostsDropped ==
  \A i \in 1..Len(Settled) :
    Settled[i].verdict = "BLOCK" =>
      /\ Settled[i].pkt.conn # NoConn
      /\ HelloLen[Settled[i].pkt.conn] # 0
      /\ HostOf[Settled[i].pkt.conn] \in BlockedHosts

\* A decision of a flow that feed()'s fallback gate admitted in the middle: decided
\* with it, or earlier, is a packet of the connection that begins with a record but
\* is not its first.
BeganLate(s, i) ==
  \E j \in 1..i : /\ s[j].pkt.conn = s[i].pkt.conn /\ s[j].why = "midstream"
                 /\ s[j].pkt.seg \in OpenSegs[s[j].pkt.conn] \ {1}

\* A piece of a blocked host's ClientHello gets through only where the code
\* chooses to fail open; when the reassembler had this 5-tuple closed before and
\* reads on from the middle of it, into a stream that is new (midstream) or that
\* the flow has the beginning of (foreign); or when the SYN was not tracked and the
\* first packet seen begins with a later record, the second of a split ClientHello
\* perhaps, which opensTlsHandshake() takes for the start of one.  Never after the
\* whole of it was reassembled in order, however its segments arrived.
FailOpen == {"untracked", "cap", "flood", "oversize", "idle", "ended", "hole", "shutdown"}
HelloPiece(p) == p.conn # NoConn /\ p.seg \in 1..HelloLen[p.conn]
BlockedHelloStopped ==
  \A i \in 1..Len(Settled) :
    LET d == Settled[i]
    IN HelloPiece(d.pkt) /\ HostOf[d.pkt.conn] \in BlockedHosts /\ d.verdict = "ALLOW"
         => \/ d.why \in FailOpen
            \/ d.why \in {"midstream", "foreign"} /\ pcpp[d.pkt.conn].again
            \/ d.why = "midstream" /\ BeganLate(Settled, i)

\* No connection is left open in the reassembler with nobody to close it: it is
\* the token of an undecided flow, or queued to be closed.
NoReassemblerLeak ==
  pc \in {"idle", "lookup", "sweep", "done"} =>
    \A c \in Conns : pcpp[c].phase = "open" =>
      c \in toClose \/ (conns[KeyOf[c]].state = "Wait" /\ conns[KeyOf[c]].token = c)

\* After any call the published table size is the table's size.
GaugeFresh == pc \in {"idle", "done"} => flowsGauge = Cardinality(Tracked)

\* The reassembler forgets every connection in the end, unless the worker stops
\* first: a flow that never sends payload, or never ends, is no memory leak.
ReassemblerReclaimed ==
  \A c \in Conns : (pcpp[c].phase # "none") ~> (pcpp[c].phase = "none" \/ pc = "done")

-----------------------------------------------------------------------------
\* What comments and tests say of the extractor and the code does not keep.

\* resolve(): "Erased, so later packets of this flow take the untracked path and
\* are allowed on a single failed lookup."  Once its ClientHello was read and
\* allowed, none of a connection's later packets is held between calls.
AllowedFlowNotHeld ==
  pc = "idle" =>
    \A k \in Keys : \A h \in 1..Len(conns[k].held) : \A i \in 1..Len(Settled) :
      LET p == conns[k].held[h]
          d == Settled[i]
      IN ~(d.pkt.conn = p.conn /\ d.why = "hello" /\ d.verdict = "ALLOW" /\ ~HelloPiece(p))

\* feed(): "Losing a blocked entry only means re-parsing that connection's next
\* retransmitted ClientHello and reaching the same verdict."  A ClientHello that
\* was dropped is dropped again when it is sent again (but for the shutdown).
RetransmissionSameVerdict ==
  \A i, j \in 1..Len(Settled) :
    LET d == Settled[i]
        e == Settled[j]
    IN i < j /\ d.pkt.conn = e.pkt.conn /\ HelloPiece(d.pkt) /\ d.verdict = "BLOCK"
         /\ d.pkt.seg = e.pkt.seg /\ e.why # "shutdown" => e.verdict = "BLOCK"
=============================================================================
