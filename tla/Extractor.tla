----------------------------- MODULE Extractor -----------------------------
(***************************************************************************)
(* TcpTlsHostnameExtractor (src/hostname_extractor.cpp): the flow table    *)
(* that holds the payload packets of undecided TLS connections, feeds them *)
(* to the TCP reassembler, and decides them once the hostname is known.    *)
(*                                                                         *)
(* feed(), tick() and flush() run on one thread.  A call is a sequence of  *)
(* steps driven by pc: the sweep tick() may start, the lookup, the         *)
(* callbacks the reassembler makes, the epilogue.  While a call is under   *)
(* way no other call starts, and time stands still (the code reads the     *)
(* clock once per call).  Times are kept as ages, saturating at the        *)
(* timeout they are compared with, so that the state space is finite.      *)
(*                                                                         *)
(* Payload bytes are abstracted to numbered segments (see TcpReassembly).  *)
(* Every decision carries, besides its verdict, the reason it was taken    *)
(* (why): a history field no action reads.                                 *)
(***************************************************************************)
EXTENDS TcpReassembly

CONSTANTS
  Conns,          \* TCP connections (5-tuples)
  NoConn,         \* a packet that cannot be dissected, or is not TCP; also "no token"
  Keys,           \* values of the 32-bit flow key
  KeyOf,          \* routeKey(): a hash, two connections may share a key
  Arrivals,       \* the packets that may arrive: connection, TCP flags, segment
  HelloLen,       \* segments the ClientHello of a connection takes; 0: not TLS
  OpenSegs,       \* segments of a connection that begin with bytes 16 03: with a
                  \* record of the handshake, its ClientHello's second one perhaps
  HostOf,         \* the server name in that ClientHello, or NoHost
  NoHost,
  BlockedHosts,   \* the names isHostnameBlocked() is true of
  MaxFlowsArg, MaxBlockedArg,           \* the constructor's arguments
  MaxHeld,        \* kMaxPacketsPerConn
  MaxStream,      \* kMaxStreamBytes, in segments
  WaitIdle, BlockIdle, SweepInterval,   \* kWaitIdleTimeout, ...
  MaxPkts         \* bound: packets fed in a behaviour

Header == [conn : Conns \cup {NoConn}, syn : BOOLEAN, fin : BOOLEAN, rst : BOOLEAN,
           seg : 0..MaxSeg]

ASSUME ConnsAssumption == NoConn \notin Conns /\ KeyOf \in [Conns -> Keys]
ASSUME KeysAssumption == Keys \subseteq Nat /\ IsFiniteSet(Keys)
ASSUME ArrivalsAssumption == Arrivals \subseteq Header
ASSUME StreamsAssumption ==
  /\ HelloLen \in [Conns -> 0..MaxSeg]
  /\ OpenSegs \in [Conns -> SUBSET Segs]
  /\ NoHost \notin BlockedHosts
ASSUME LimitsAssumption ==
  /\ MaxFlowsArg \in Nat /\ MaxBlockedArg \in Nat
  /\ MaxHeld \in Nat /\ MaxStream \in Nat /\ MaxPkts \in Nat
  /\ WaitIdle \in Nat /\ BlockIdle \in Nat /\ SweepInterval \in Nat \ {0}

-----------------------------------------------------------------------------
\* The constructor's limits.  The ring is never empty and never larger than
\* the table.
BlockedShare == 4
MaxFlows == IF MaxFlowsArg = 0 THEN 1 ELSE MaxFlowsArg
WantBlocked ==
  IF MaxBlockedArg # 0 THEN MaxBlockedArg
  ELSE IF MaxFlows \div BlockedShare > 1 THEN MaxFlows \div BlockedShare ELSE 1
MaxBlocked == IF WantBlocked < MaxFlows THEN WantBlocked ELSE MaxFlows
Slots == 0..(MaxBlocked - 1)

Verdict == {"ALLOW", "BLOCK"}
Why == {"undissected", "control", "untracked", "cap", "flood", "oversize", "idle",
        "ended", "shutdown", "hello", "midstream", "hole", "foreign", "blocked"}

Packet == [id : Nat, conn : Conns \cup {NoConn}, syn : BOOLEAN, fin : BOOLEAN,
           rst : BOOLEAN, seg : 0..MaxSeg,
           view : BOOLEAN]     \* still points into the receive buffer
NoPacket == [id |-> 0, conn |-> NoConn, syn |-> FALSE, fin |-> FALSE, rst |-> FALSE,
             seg |-> 0, view |-> FALSE]
Decision == [pkt : Packet, verdict : Verdict, why : Why]
Chunk == [conn : Conns, seg : 0..MaxSeg]

\* struct Conn, and the absence of an entry, which the code gives a meaning.
Entry == [state  : {"None", "Wait", "Block"},
          held   : Seq(Packet),
          stream : Seq(Chunk),
          token  : Conns \cup {NoConn},   \* pcpp_key
          closed : BOOLEAN,               \* pcpp_closed
          idle   : Nat]                   \* now - last
Absent == [state |-> "None", held |-> <<>>, stream |-> <<>>, token |-> NoConn,
           closed |-> FALSE, idle |-> 0]
NewConn == [Absent EXCEPT !.state = "Wait"]

VARIABLES
  conns,        \* _conns
  ring,         \* _block_ring; 0 marks an empty slot
  ringNext,     \* _block_next
  decided,      \* _decided
  toClose,      \* _to_close
  pcpp,         \* _reassembly's connection map
  sinceSweep,   \* now - _lastSweep
  flowsGauge, blockedGauge, droppedAtCap,   \* _flows, _blocked, _dropped_at_cap
  pc,           \* where the call under way has got to
  cur,          \* feed()'s packet
  todo,         \* keys sweep() or flush() has collected and not handled yet
  events,       \* callbacks reassemblePacket() has still to make
  nextId,       \* id the kernel gives the next packet
  answered      \* history: decisions handed to the kernel, in order

table == <<conns, ring, ringNext, flowsGauge>>
vars == <<conns, ring, ringNext, decided, toClose, pcpp, sinceSweep, flowsGauge,
          blockedGauge, droppedAtCap, pc, cur, todo, events, nextId, answered>>

\* What most steps of a call leave alone.
quiet == <<sinceSweep, blockedGauge, droppedAtCap, nextId, answered>>

InState(s) == {k \in Keys : conns[k].state = s}
Waiting == InState("Wait")
Blocked == InState("Block")
TrackedIn(t) == {k \in Keys : t[k].state # "None"}
Tracked == TrackedIn(conns)

TypeOK ==
  /\ conns \in [Keys -> Entry]
  /\ ring \in [Slots -> Nat] /\ ringNext \in Slots
  /\ decided \in Seq(Decision) /\ answered \in Seq(Decision)
  /\ toClose \in SUBSET Conns
  /\ pcpp \in [Conns -> ReassemblyState]
  /\ sinceSweep \in Nat /\ flowsGauge \in Nat /\ blockedGauge \in Nat
  /\ droppedAtCap \in Nat /\ nextId \in Nat
  /\ pc \in {"idle", "sweep", "lookup", "callbacks", "flush", "done"}
  /\ cur \in Packet /\ todo \in SUBSET Keys
  /\ events \in Seq(Event)

Init ==
  /\ conns = [k \in Keys |-> Absent]
  /\ ring = [i \in Slots |-> 0] /\ ringNext = 0
  /\ decided = <<>> /\ answered = <<>> /\ toClose = {}
  /\ pcpp = [c \in Conns |-> NoState]
  /\ sinceSweep = SweepInterval      \* _lastSweep is the clock's epoch
  /\ flowsGauge = 0 /\ blockedGauge = 0 /\ droppedAtCap = 0
  /\ pc = "idle" /\ cur = NoPacket /\ todo = {} /\ events = <<>>
  /\ nextId = 1

-----------------------------------------------------------------------------
\* Deciding.

\* (mutant) A policy that drops what it has no name for.
DecideFailClosed(host) == IF host \in BlockedHosts \cup {NoHost} THEN "BLOCK" ELSE "ALLOW"

\* The worker's policy, called with the hostname or without one.
Decide(host) == IF host \in BlockedHosts THEN "BLOCK" ELSE "ALLOW"

Settle(p, v, why) == [pkt |-> p, verdict |-> v, why |-> why]

\* (mutant) The held list emptied from its back.
SettleAllReversed(held, v, why) ==
  [i \in 1..Len(held) |-> Settle(held[Len(held) + 1 - i], v, why)]

SettleAll(held, v, why) == [i \in 1..Len(held) |-> Settle(held[i], v, why)]

\* (mutant) The ring does not wrap.
NextSlotNoWrap(i) == i + 1

NextSlot(i) == (i + 1) % MaxBlocked

IdleLimit(state) == IF state = "Block" THEN BlockIdle ELSE WaitIdle

\* (mutant) The slot is taken and its flow left in the table.
EvictsNobody(k) == FALSE

\* remember_blocked(k) evicts the flow whose slot it takes if that is still blocked.
Evicts(k) ==
  LET victim == ring[ringNext] IN victim # 0 /\ victim # k /\ victim \in Blocked

\* resolve() when the verdict is BLOCK: the entry stays, in state Block, and
\* remember_blocked() gives it the ring's next slot.
RememberBlocked(k, c) ==
  /\ conns' = [x \in Keys |->
                 IF x = k THEN [c EXCEPT !.state = "Block", !.held = <<>>, !.stream = <<>>]
                 ELSE IF Evicts(k) /\ x = ring[ringNext] THEN Absent ELSE conns[x]]
  /\ ring' = [ring EXCEPT ![ringNext] = k]
  /\ ringNext' = NextSlot(ringNext)

\* (mutant) Nothing is queued to be closed.
QueueNoClose(c) == toClose

\* The reassembler is done with a decided flow's connection, unless it ended already.
\* (The code's "no token" is pcpp key 0; connections are those whose pcpp hash is not 0.)
QueueClose(c) == IF c.token # NoConn /\ ~c.closed THEN toClose \cup {c.token} ELSE toClose

\* resolve(): the flow k, whose entry the caller has updated to c, is decided.
\* Everything it held gets the verdict, in arrival order; then comes `more`.
Resolve(k, c, host, why, more) ==
  LET v == Decide(host)
  IN /\ IF v = "BLOCK" THEN RememberBlocked(k, c)
        ELSE conns' = [conns EXCEPT ![k] = Absent] /\ UNCHANGED <<ring, ringNext>>
     /\ toClose' = QueueClose(c)
     /\ decided' = decided \o SettleAll(c.held, v, why) \o more

\* drain_closes(), on the connection map the caller has got to.
DrainCloses(map) ==
  /\ pcpp' = [c \in Conns |-> IF c \in toClose THEN CloseConnection(map[c]) ELSE map[c]]
  /\ toClose' = {}

-----------------------------------------------------------------------------
\* tick() and sweep().

\* (mutant) Only blocked flows expire.
ExpiredBlockedOnly == {k \in Blocked : conns[k].idle >= BlockIdle}

Expired == {k \in Tracked : conns[k].idle >= IdleLimit(conns[k].state)}

\* tick(now), then on to `then`: the sweep runs if one is due.  The blocked
\* gauge is counted while collecting, before anything is erased.
EnterTick(then) ==
  IF sinceSweep >= SweepInterval
  THEN /\ sinceSweep' = 0 /\ todo' = Expired
       /\ blockedGauge' = Cardinality(Blocked) /\ pc' = "sweep"
  ELSE pc' = then /\ UNCHANGED <<sinceSweep, todo, blockedGauge>>

Tick ==
  /\ pc = "idle" /\ sinceSweep >= SweepInterval
  /\ EnterTick("idle")
  /\ UNCHANGED <<table, decided, toClose, pcpp, droppedAtCap, cur, events, nextId, answered>>

\* An expired blocked flow is forgotten.
SweepBlocked(k) ==
  /\ pc = "sweep" /\ k \in todo /\ conns[k].state = "Block"
  /\ conns' = [conns EXCEPT ![k] = Absent]
  /\ todo' = todo \ {k}
  /\ UNCHANGED <<ring, ringNext, flowsGauge, decided, toClose, pcpp, pc, cur, events, quiet>>

\* An expired undecided flow is let through.
SweepWaiting(k) ==
  /\ pc = "sweep" /\ k \in todo /\ conns[k].state = "Wait"
  /\ Resolve(k, conns[k], NoHost, "idle", <<>>)
  /\ todo' = todo \ {k}
  /\ UNCHANGED <<flowsGauge, pcpp, pc, cur, events, quiet>>

SweepEnd ==
  /\ pc = "sweep" /\ todo = {}
  /\ DrainCloses([c \in Conns |-> Purge(pcpp[c])])
  /\ flowsGauge' = Cardinality(Tracked)
  /\ pc' = IF cur = NoPacket THEN "idle" ELSE "lookup"
  /\ UNCHANGED <<conns, ring, ringNext, decided, cur, todo, events, quiet>>

-----------------------------------------------------------------------------
\* flush(), which the worker calls once, on its way out; after it only the
\* decided buffer is drained.  The ring and the blocked gauge stay as they are.

\* (mutant) Undecided flows are cleared away with the rest.
FlushForgets ==
  /\ pc = "idle"
  /\ pc' = "flush" /\ todo' = {}
  /\ UNCHANGED <<table, decided, toClose, pcpp, cur, events, quiet>>

Flush ==
  /\ pc = "idle"
  /\ pc' = "flush" /\ todo' = Waiting
  /\ UNCHANGED <<table, decided, toClose, pcpp, cur, events, quiet>>

FlushOne(k) ==
  /\ pc = "flush" /\ k \in todo
  /\ Resolve(k, conns[k], NoHost, "shutdown", <<>>)
  /\ todo' = todo \ {k}
  /\ UNCHANGED <<flowsGauge, pcpp, pc, cur, events, quiet>>

FlushEnd ==
  /\ pc = "flush" /\ todo = {}
  /\ conns' = [k \in Keys |-> Absent]
  /\ DrainCloses(pcpp)
  /\ flowsGauge' = 0
  /\ pc' = "done"
  /\ UNCHANGED <<ring, ringNext, decided, cur, todo, events, quiet>>

-----------------------------------------------------------------------------
\* feed().

Key == KeyOf[cur.conn]

\* What starts tracking a flow: isClientSyn() or opensTlsHandshake().
Gate(p) == p.syn \/ (p.seg # 0 /\ p.seg \in OpenSegs[p.conn])

\* (mutant) A return that forgets to republish.
ReturnUnpublished == cur' = NoPacket /\ pc' = "idle" /\ UNCHANGED flowsGauge

\* feed() is over, whichever way it leaves: the table size is republished.
Return == cur' = NoPacket /\ pc' = "idle" /\ flowsGauge' = Cardinality(TrackedIn(conns'))

ReturnWith(v, why) == decided' = Append(decided, Settle(cur, v, why)) /\ Return

\* A packet with header h, as the kernel hands it over: a view of the receive buffer.
Arrived(h) ==
  [id |-> nextId, conn |-> h.conn, syn |-> h.syn, fin |-> h.fin, rst |-> h.rst,
   seg |-> h.seg, view |-> TRUE]

Feed(h) ==
  /\ pc = "idle" /\ nextId <= MaxPkts
  /\ cur' = Arrived(h)
  /\ nextId' = nextId + 1
  /\ EnterTick("lookup")
  /\ UNCHANGED <<table, decided, toClose, pcpp, droppedAtCap, events, answered>>

AllowUndissected ==
  /\ pc = "lookup" /\ cur.conn = NoConn
  /\ UNCHANGED <<conns, ring, ringNext, toClose, pcpp, todo, events, quiet>>
  /\ ReturnWith("ALLOW", "undissected")

\* Already decided against: dropped without going near the reassembler.
DropBlocked ==
  /\ pc = "lookup" /\ cur.conn # NoConn /\ conns[Key].state = "Block"
  /\ conns' = [conns EXCEPT ![Key].idle = 0]
  /\ UNCHANGED <<ring, ringNext, toClose, pcpp, todo, events, quiet>>
  /\ ReturnWith("BLOCK", "blocked")

Untracked == pc = "lookup" /\ cur.conn # NoConn /\ conns[Key].state = "None"

AllowUntracked ==
  /\ Untracked /\ ~Gate(cur)
  /\ UNCHANGED <<conns, ring, ringNext, toClose, pcpp, todo, events, quiet>>
  /\ ReturnWith("ALLOW", IF cur.seg = 0 THEN "control" ELSE "untracked")

\* evict_oldest_blocked(): walks the ring from the oldest slot, emptying the
\* slots it passes, up to the first that still names a blocked flow.
SlotAfter(n) == (ringNext + n) % MaxBlocked
LiveSlot(n) == ring[SlotAfter(n)] # 0 /\ ring[SlotAfter(n)] \in Blocked

\* (mutant) One flow too many.
FullLate == Cardinality(Tracked) > MaxFlows

\* The table is full.  (feed() would sweep again here if one were due; tick() has
\* just run with the same clock reading, so it never is.)
Full == Cardinality(Tracked) >= MaxFlows

\* A new flow that fits, or that a blocked one makes room for.
AdmitWithRoom ==
  /\ Untracked /\ Gate(cur) /\ ~Full
  /\ conns' = [conns EXCEPT ![Key] = NewConn]
  /\ UNCHANGED <<ring, ringNext, flowsGauge, decided, toClose, pcpp, pc, cur, todo, events,
                 quiet>>

AdmitByEviction ==
  /\ Untracked /\ Gate(cur) /\ Full
  /\ \E n \in Slots :
       /\ LiveSlot(n) /\ \A m \in 0..(n - 1) : ~LiveSlot(m)
       /\ LET victim == ring[SlotAfter(n)]
          IN /\ conns' = [conns EXCEPT ![victim] = Absent, ![Key] = NewConn]
             /\ flowsGauge' = Cardinality(Tracked \ {victim})
       /\ ring' = [i \in Slots |-> IF \E m \in 0..n : i = SlotAfter(m) THEN 0 ELSE ring[i]]
       /\ ringNext' = SlotAfter(n + 1)
  /\ UNCHANGED <<decided, toClose, pcpp, pc, cur, todo, events, quiet>>

\* Full of undecided flows: the packet passes unchecked.
AllowAtCap ==
  /\ Untracked /\ Gate(cur) /\ Full
  /\ \A n \in Slots : ~LiveSlot(n)
  /\ ring' = [i \in Slots |-> 0]
  /\ droppedAtCap' = droppedAtCap + 1
  /\ UNCHANGED <<conns, ringNext, toClose, pcpp, sinceSweep, blockedGauge, todo, events,
                 nextId, answered>>
  /\ ReturnWith("ALLOW", "cap")

Undecided == pc = "lookup" /\ cur.conn # NoConn /\ conns[Key].state = "Wait"

\* (mutant) One packet too many.
FloodedLate == Len(conns[Key].held) > MaxHeld

\* The flow holds as many packets as it may.
Flooded == Len(conns[Key].held) >= MaxHeld

\* feed() leaves without draining the close that resolve() has just queued.
AllowFlooded ==
  /\ Undecided /\ Flooded
  /\ Resolve(Key, conns[Key], NoHost, "flood", <<Settle(cur, "ALLOW", "flood")>>)
  /\ UNCHANGED <<pcpp, todo, events, quiet>>
  /\ Return

\* Neither payload nor a flag the reassembler needs.
AllowBareAck ==
  /\ Undecided /\ ~Flooded
  /\ cur.seg = 0 /\ ~cur.syn /\ ~cur.fin /\ ~cur.rst
  /\ conns' = [conns EXCEPT ![Key].idle = 0]
  /\ UNCHANGED <<ring, ringNext, toClose, pcpp, todo, events, quiet>>
  /\ ReturnWith("ALLOW", "control")

\* A packet with payload is held before it is reassembled.  reassemblePacket()
\* may first purge closed connections of its own accord (autoPurge).
FeedReassembler(autoPurge) ==
  /\ Undecided /\ ~Flooded
  /\ cur.seg # 0 \/ cur.syn \/ cur.fin \/ cur.rst
  /\ conns' = [conns EXCEPT ![Key].idle = 0,
                            ![Key].held = IF cur.seg # 0 THEN Append(@, cur) ELSE @]
  /\ LET map == [c \in Conns |-> IF autoPurge THEN Purge(pcpp[c]) ELSE pcpp[c]]
     IN \E r \in Reassemble(map[cur.conn], cur) :
          /\ pcpp' = [map EXCEPT ![cur.conn] = r.st]
          /\ events' = r.events
  /\ pc' = "callbacks"
  /\ UNCHANGED <<ring, ringNext, flowsGauge, decided, toClose, cur, todo, quiet>>

\* (mutant) The bytes of the wrong packet are released.
ReleaseFirst(held) == IF held # <<>> THEN [held EXCEPT ![1].view = FALSE] ELSE held

\* release_bytes() on the packet held last.
ReleaseLast(held) == IF held # <<>> THEN [held EXCEPT ![Len(held)].view = FALSE] ELSE held

\* reassemblePacket() has returned: queued closes are made, and the packet's
\* bytes are released if it is held, or it is let through if it never was.
Epilogue ==
  /\ pc = "callbacks" /\ events = <<>>
  /\ DrainCloses(pcpp)
  /\ IF cur.seg # 0
     THEN conns' = [conns EXCEPT ![Key].held = ReleaseLast(@)] /\ UNCHANGED decided
     ELSE decided' = Append(decided, Settle(cur, "ALLOW", "control")) /\ UNCHANGED conns
  /\ UNCHANGED <<ring, ringNext, todo, events, quiet>>
  /\ Return

-----------------------------------------------------------------------------
\* The reassembler's callbacks, made while _feeding: they concern the packet
\* being fed, so its key finds the flow.  Callbacks made by closeConnection()
\* and purgeClosedConnections() find _feeding false and do nothing.

Callback(kind) == pc = "callbacks" /\ events # <<>> /\ Head(events).kind = kind

OnConnectionStart ==
  /\ Callback("start")
  /\ conns' = IF conns[Key].state # "None" THEN [conns EXCEPT ![Key].token = cur.conn] ELSE conns
  /\ events' = Tail(events)
  /\ UNCHANGED <<ring, ringNext, flowsGauge, decided, toClose, pcpp, pc, cur, todo, quiet>>

\* Data of a flow that is no longer undecided is ignored.
OnMessageIgnored ==
  /\ Callback("message") /\ conns[Key].state # "Wait"
  /\ events' = Tail(events)
  /\ UNCHANGED <<table, decided, toClose, pcpp, pc, cur, todo, quiet>>

\* What extractHostname() may say of a stream depends on what the stream is:
\*   hello      the connection's own bytes from the first one on
\*   midstream  it begins later than that, with whatever record comes there: an
\*              incomplete one, one without a name, or another ClientHello
\*   hole       it begins with one, and lacks bytes the client ended without
\*   foreign    it begins with one, and goes on with other bytes
FromByteZero(s) == \A i \in 1..Len(s) : s[i] = [conn |-> s[1].conn, seg |-> i]
StreamKind(s) ==
  IF FromByteZero(s) THEN "hello"
  ELSE IF \E i \in 1..Len(s) : s[i].seg = Missing THEN "hole"
  ELSE IF s[1].seg = 1 THEN "foreign" ELSE "midstream"

Found(host) == [kind |-> IF host = NoHost THEN "NotFound" ELSE "Found", host |-> host]
NeedMore == [kind |-> "NeedMore", host |-> NoHost]
NameIn(c) == IF HelloLen[c] = 0 THEN NoHost ELSE HostOf[c]

\* The bytes of a whole ClientHello are read for what they are; what others say
\* depends on where they were cut.
ExtractHostname(s) ==
  LET c == s[1].conn
  IN IF StreamKind(s) = "hello" /\ HelloLen[c] # 0
     THEN {IF Len(s) < HelloLen[c] THEN NeedMore ELSE Found(NameIn(c))}
     ELSE {NeedMore, Found(NoHost)} \cup {Found(NameIn(s[i].conn)) : i \in 1..Len(s)}

\* (mutant) The message replaces what came before it.
AppendedOver(c) ==
  [c EXCEPT !.token = cur.conn,
            !.stream = [i \in 1..Len(Head(events).data) |->
                          [conn |-> cur.conn, seg |-> Head(events).data[i]]]]

\* The entry with the connection's key noted and the message's bytes appended.
Appended(c) ==
  [c EXCEPT !.token = cur.conn,
            !.stream = @ \o [i \in 1..Len(Head(events).data) |->
                               [conn |-> cur.conn, seg |-> Head(events).data[i]]]]

OnMessageReady ==
  /\ Callback("message") /\ conns[Key].state = "Wait"
  /\ events' = Tail(events)
  /\ LET c == Appended(conns[Key])
     IN \E r \in ExtractHostname(c.stream) :
          \/ /\ r.kind # "NeedMore"
             /\ Resolve(Key, c, r.host, StreamKind(c.stream), <<>>)
             /\ IF Decide(r.host) = "BLOCK" /\ Evicts(Key)
                THEN flowsGauge' = Cardinality(TrackedIn(conns')) ELSE UNCHANGED flowsGauge
          \/ /\ r.kind = "NeedMore" /\ Len(c.stream) > MaxStream
             /\ Resolve(Key, c, NoHost, "oversize", <<>>)
             /\ UNCHANGED flowsGauge
          \/ /\ r.kind = "NeedMore" /\ Len(c.stream) <= MaxStream
             /\ conns' = [conns EXCEPT ![Key] = c]
             /\ UNCHANGED <<ring, ringNext, flowsGauge, decided, toClose>>
  /\ UNCHANGED <<pcpp, pc, cur, todo, quiet>>

\* FIN and RST: a flow still undecided is let through.
OnConnectionEnd ==
  /\ Callback("end")
  /\ events' = Tail(events)
  /\ LET c == [conns[Key] EXCEPT !.closed = TRUE]
     IN CASE c.state = "Wait" -> Resolve(Key, c, NoHost, "ended", <<>>)
          [] c.state = "Block" -> /\ conns' = [conns EXCEPT ![Key] = c]
                                  /\ UNCHANGED <<ring, ringNext, toClose, decided>>
          [] c.state = "None" -> UNCHANGED <<conns, ring, ringNext, toClose, decided>>
  /\ UNCHANGED <<flowsGauge, pcpp, pc, cur, todo, quiet>>

-----------------------------------------------------------------------------
\* The caller, and time.

\* (mutant) The buffer is not cleared.
DrainWithoutClear ==
  /\ pc \in {"idle", "done"} /\ decided # <<>>
  /\ answered' = answered \o decided
  /\ UNCHANGED <<table, decided, toClose, pcpp, sinceSweep, blockedGauge, droppedAtCap, pc,
                 cur, todo, events, nextId>>

\* Worker::drain_decided(): verdicts go to the kernel, the buffer is cleared.
Drain ==
  /\ pc \in {"idle", "done"} /\ decided # <<>>
  /\ answered' = answered \o decided
  /\ decided' = <<>>
  /\ UNCHANGED <<table, toClose, pcpp, sinceSweep, blockedGauge, droppedAtCap, pc, cur, todo,
                 events, nextId>>

Elapse ==
  /\ pc = "idle"
  /\ sinceSweep' = IF sinceSweep < SweepInterval THEN sinceSweep + 1 ELSE sinceSweep
  /\ conns' = [k \in Keys |->
                 IF conns[k].state # "None" /\ conns[k].idle < IdleLimit(conns[k].state)
                 THEN [conns[k] EXCEPT !.idle = @ + 1] ELSE conns[k]]
  /\ pcpp' = [c \in Conns |-> Age(pcpp[c])]
  /\ UNCHANGED <<ring, ringNext, flowsGauge, decided, toClose, blockedGauge, droppedAtCap, pc,
                 cur, todo, events, nextId, answered>>

\* The worker's thread has returned.
Finished == pc = "done" /\ decided = <<>> /\ UNCHANGED vars

\* The steps of a call that is under way.
Step ==
  \/ \E k \in Keys : SweepBlocked(k) \/ SweepWaiting(k) \/ FlushOne(k)
  \/ SweepEnd \/ FlushEnd
  \/ AllowUndissected \/ DropBlocked \/ AllowUntracked
  \/ AdmitWithRoom \/ AdmitByEviction \/ AllowAtCap
  \/ AllowFlooded \/ AllowBareAck
  \/ \E b \in BOOLEAN : FeedReassembler(b)
  \/ OnConnectionStart \/ OnMessageIgnored \/ OnMessageReady \/ OnConnectionEnd
  \/ Epilogue

Next ==
  \/ \E h \in Arrivals : Feed(h)
  \/ Tick \/ Flush \/ Drain \/ Elapse \/ Finished
  \/ Step

Spec == Init /\ [][Next]_vars
=============================================================================
