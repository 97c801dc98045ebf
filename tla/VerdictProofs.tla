--------------------------- MODULE VerdictProofs ---------------------------
(***************************************************************************)
(* The verdicts are right, for every set of packets and every limit: only  *)
(* blocked connections have packets dropped, the flow table agrees with    *)
(* the reassembler's on which connections are open, and a blocked          *)
(* ClientHello gets through on the named paths only.                       *)
(*                                                                         *)
(* None of the three is inductive by itself.  The drops follow from every  *)
(* entry having packets and bytes of its own key only (DropInv); the       *)
(* agreement from the callbacks reassemblePacket() has still to make       *)
(* fitting what it did (CloseInv); the third from what an undecided flow   *)
(* has read of its connection, and what is to come of it (HelloInv).       *)
(***************************************************************************)
EXTENDS ExtractorProofs

USE DEF quiet

-----------------------------------------------------------------------------
\* What the extractor may rely on of one call of reassemblePacket().

\* No message callback is without data; a connection whose end was announced is
\* closed; one that is open was open before, or its start is announced first.
Fits(before, after, evs) ==
  /\ \A i \in 1..Len(evs) : evs[i].kind = "message" => evs[i].data # <<>>
  /\ after = "open" => \A i \in 1..Len(evs) : evs[i].kind # "end"
  /\ after = "open" => before = "open" \/ (evs # <<>> /\ evs[1].kind = "start")

\* One list of callbacks after another.
LEMMA ConcatEvents ==
  ASSUME NEW s \in Seq(Event), NEW t \in Seq(Event)
  PROVE  /\ s \o t \in Seq(Event)
         /\ \A i \in 1..Len(s \o t) : \/ \E j \in 1..Len(s) : (s \o t)[i] = s[j]
                                      \/ \E j \in 1..Len(t) : (s \o t)[i] = t[j]
<1> DEFINE u == s \o t
<1>1. /\ u \in Seq(Event) /\ Len(u) = Len(s) + Len(t) /\ Len(s) \in Nat /\ Len(t) \in Nat
      /\ \A i \in 1..(Len(s) + Len(t)) : u[i] = IF i <= Len(s) THEN s[i] ELSE t[i - Len(s)]
  BY ConcatProperties
<1> HIDE DEF u
<1>2. ASSUME NEW i \in 1..Len(u)
      PROVE  \/ \E j \in 1..Len(s) : u[i] = s[j]
             \/ \E j \in 1..Len(t) : u[i] = t[j]
  <2>1. CASE i <= Len(s)
    <3>1. i \in 1..Len(s) /\ u[i] = s[i]
      BY <1>1, <2>1
    <3> QED
      BY <3>1
  <2>2. CASE ~(i <= Len(s))
    <3>1. i - Len(s) \in 1..Len(t) /\ u[i] = t[i - Len(s)]
      BY <1>1, <2>2
    <3> QED
      BY <3>1
  <2> QED
    BY <2>1, <2>2
<1> QED
  BY <1>1, <1>2 DEF u

LEMMA EventKinds ==
  /\ Start.kind = "start" /\ End.kind = "end"
  /\ \A d : Message(d).kind = "message" /\ Message(d).data = d
BY DEF Start, End, Message

\* Payload makes messages only, and neither opens nor closes.
LEMMA AbsorbFits ==
  ASSUME NEW st \in ReassemblyState, NEW p \in Packet
  PROVE  /\ Absorb(st, p).st.phase = st.phase
         /\ \A i \in 1..Len(Absorb(st, p).events) :
              /\ Absorb(st, p).events[i].kind = "message"
              /\ Absorb(st, p).events[i].data # <<>>
<1>0. MaxSeg \in Nat /\ Len(<<>>) = 0
  BY MaxSegAssumption, EmptySeq
<1>1. CASE p.seg # 0 /\ (st.next = 0 \/ p.seg = st.next)
  <2> DEFINE seg == p.seg
             n == 1 + Cardinality(RunFrom(st.ooo, seg + 1))
             evs == [i \in 1..n |-> Message(<<seg + i - 1>>)]
  <2>1. seg \in 1..MaxSeg
    BY <1>0, <1>1 DEF Packet
  <2>2. n \in Nat
    BY <1>0, <2>1, RunBound
  <2>3. /\ Absorb(st, p).events = evs
        /\ Absorb(st, p).st = [st EXCEPT !.next = seg + n, !.ooo = {i \in st.ooo : i > seg + n}]
    BY <1>1 DEF Absorb, Deliver
  <2>4. Absorb(st, p).st.phase = st.phase
    BY <2>3 DEF ReassemblyState
  <2> HIDE DEF n
  <2>5. \A i \in 1..n : evs[i].kind = "message" /\ evs[i].data # <<>>
    <3>1. \A i \in 1..n : evs[i] = Message(<<seg + i - 1>>)
      OBVIOUS
    <3>2. \A x : <<x>> # <<>>
      OBVIOUS
    <3> QED
      BY <3>1, <3>2, EventKinds
  <2>6. evs \in Seq(Event) /\ Absorb(st, p) \in Outcome
    BY <2>3, AbsorbType DEF Outcome
  <2>7. Len(evs) = n
    BY <2>2, <2>6, LenProperties
  <2> QED
    BY <2>3, <2>4, <2>5, <2>7
<1>2. CASE p.seg # 0 /\ ~(st.next = 0 \/ p.seg = st.next)
  BY <1>0, <1>2 DEF Absorb, Deliver, ReassemblyState
<1>3. CASE p.seg = 0
  BY <1>0, <1>3 DEF Absorb, ReassemblyState
<1> QED
  BY <1>1, <1>2, <1>3

\* FIN and RST: messages, then the end of a connection that RST closes.
LEMMA FinishFits ==
  ASSUME NEW st \in ReassemblyState, NEW rst \in BOOLEAN, NEW rest \in Seq(Segs)
  PROVE  LET f == Finish(st, rst, rest)
         IN /\ f.st.phase = IF rst THEN "closed" ELSE st.phase
            /\ \A i \in 1..Len(f.events) :
                 \/ f.events[i].kind = "message" /\ f.events[i].data # <<>>
                 \/ f.events[i].kind = "end" /\ rst
<1> DEFINE Expected(i) == IF i = 1 THEN st.next ELSE rest[i - 1] + 1
           Data(i) == IF rest[i] = Expected(i) THEN <<rest[i]>> ELSE <<Missing, rest[i]>>
           evs == [i \in 1..Len(rest) |-> Message(Data(i))]
           last == IF rst THEN <<End>> ELSE <<>>
           after == [st EXCEPT !.ooo = {}, !.fin = TRUE,
                               !.phase = IF rst THEN "closed" ELSE @, !.again = @ \/ rst]
<1>1. Finish(st, rst, rest).st = after /\ Finish(st, rst, rest).events = evs \o last
  BY DEF Finish
<1>2. after.phase = IF rst THEN "closed" ELSE st.phase
  BY DEF ReassemblyState
<1>3. \A i \in 1..Len(rest) : evs[i].kind = "message" /\ evs[i].data # <<>>
  <2>1. \A i \in 1..Len(rest) : evs[i] = Message(Data(i))
    OBVIOUS
  <2>2. \A i : Data(i) # <<>>
    OBVIOUS
  <2> HIDE DEF Data
  <2> QED
    BY <2>1, <2>2, EventKinds
<1>4. \A i \in 1..Len(last) : last[i].kind = "end" /\ rst
  <2>1. CASE rst
    BY <2>1, EventKinds
  <2>2. CASE ~rst
    BY <2>2, EmptySeq
  <2> QED
    BY <2>1, <2>2
<1>5. evs \in Seq(Event) /\ last \in Seq(Event) /\ Len(evs) = Len(rest)
  <2>1. \A i \in 1..Len(rest) : Message(Data(i)) \in Event
    <3>1. SUFFICES ASSUME NEW i \in 1..Len(rest) PROVE Message(Data(i)) \in Event
      OBVIOUS
    <3>2. rest[i] \in 0..MaxSeg /\ Missing \in 0..MaxSeg
      BY ElementOfSeq, MaxSegAssumption DEF Segs, Missing
    <3>3. Data(i) \in Seq(0..MaxSeg)
      BY <3>2, SingleIsSeq, PairIsSeq
    <3> QED
      BY <3>3, EventType
  <2>2. Len(rest) \in Nat /\ evs \in [1..Len(rest) -> Event]
    BY <2>1, LenProperties
  <2>3. last \in Seq(Event)
    BY EventType, SingleIsSeq, EmptySeq
  <2> HIDE DEF evs, last
  <2> QED
    BY <2>2, <2>3, FunIsSeq
<1> HIDE DEF evs, last, after
<1> DEFINE u == evs \o last
<1>6. \A i \in 1..Len(u) : \/ \E j \in 1..Len(evs) : u[i] = evs[j]
                           \/ \E j \in 1..Len(last) : u[i] = last[j]
  BY <1>5, ConcatEvents
<1> HIDE DEF u
<1>7. \A i \in 1..Len(u) : \/ u[i].kind = "message" /\ u[i].data # <<>>
                           \/ u[i].kind = "end" /\ rst
  <2> SUFFICES ASSUME NEW i \in 1..Len(u)
               PROVE  \/ u[i].kind = "message" /\ u[i].data # <<>>
                      \/ u[i].kind = "end" /\ rst
    OBVIOUS
  <2>1. CASE \E j \in 1..Len(evs) : u[i] = evs[j]
    BY <1>3, <1>5, <2>1
  <2>2. CASE \E j \in 1..Len(last) : u[i] = last[j]
    BY <1>4, <2>2
  <2> QED
    BY <1>6, <2>1, <2>2
<1> QED
  BY <1>1, <1>2, <1>7 DEF u

\* A packet of an open connection.
LEMMA ProcessFits ==
  ASSUME NEW st \in ReassemblyState, st.phase = "open", NEW p \in Packet,
         NEW r \in Process(st, p)
  PROVE  /\ r.st.phase \in {"open", "closed"}
         /\ \A i \in 1..Len(r.events) :
              \/ r.events[i].kind = "message" /\ r.events[i].data # <<>>
              \/ r.events[i].kind = "end" /\ r.st.phase = "closed"
<1>1. CASE st.fin
  <2> DEFINE after == [st EXCEPT !.phase = "closed", !.again = TRUE]
  <2>1. after.phase = "closed"
    BY DEF ReassemblyState
  <2>2. r = [st |-> after, events |-> <<End>>] \/ r = [st |-> st, events |-> <<>>]
    BY <1>1 DEF Process
  <2> HIDE DEF after
  <2>3. CASE r = [st |-> after, events |-> <<End>>]
    BY <2>1, <2>3, EventKinds
  <2>4. CASE r = [st |-> st, events |-> <<>>]
    BY <2>4, EmptySeq
  <2> QED
    BY <2>2, <2>3, <2>4
<1>2. CASE ~st.fin /\ (p.fin \/ p.rst)
  <2> DEFINE d == Absorb(st, p)
  <2>1. /\ d \in Outcome /\ d.st.phase = "open"
        /\ \A i \in 1..Len(d.events) : d.events[i].kind = "message" /\ d.events[i].data # <<>>
    BY AbsorbType, AbsorbFits
  <2>2. PICK rest \in Ascending(d.st.ooo) :
          r = [st |-> Finish(d.st, p.rst, rest).st,
               events |-> d.events \o Finish(d.st, p.rst, rest).events]
    BY <1>2 DEF Process, AbsorbAndFinish
  <2> HIDE DEF d
  <2>3. d.st \in ReassemblyState /\ d.events \in Seq(Event) /\ d.st.ooo \in SUBSET Segs
    BY <2>1 DEF Outcome, ReassemblyState
  <2>4. rest \in Seq(Segs) /\ p.rst \in BOOLEAN
    BY <2>3, AscendingType DEF Packet
  <2> DEFINE f == Finish(d.st, p.rst, rest)
             u == d.events \o f.events
  <2>5. f.events \in Seq(Event)
    BY <2>3, <2>4, FinishType DEF Outcome
  <2>6. /\ f.st.phase = IF p.rst THEN "closed" ELSE "open"
        /\ \A i \in 1..Len(f.events) : \/ f.events[i].kind = "message" /\ f.events[i].data # <<>>
                                       \/ f.events[i].kind = "end" /\ p.rst
    BY <2>1, <2>3, <2>4, FinishFits
  <2>7. r.st = f.st /\ r.events = u
    BY <2>2
  <2> HIDE DEF f
  <2>8. \A i \in 1..Len(u) : \/ \E j \in 1..Len(d.events) : u[i] = d.events[j]
                             \/ \E j \in 1..Len(f.events) : u[i] = f.events[j]
    BY <2>3, <2>5, ConcatEvents
  <2> HIDE DEF u
  <2>9. \A i \in 1..Len(u) : \/ u[i].kind = "message" /\ u[i].data # <<>>
                             \/ u[i].kind = "end" /\ p.rst
    BY <2>1, <2>6, <2>8
  <2> QED
    BY <2>4, <2>6, <2>7, <2>9
<1>3. CASE ~st.fin /\ ~(p.fin \/ p.rst)
  BY <1>3, AbsorbFits DEF Process
<1> QED
  BY <1>1, <1>2, <1>3

LEMMA ReassembleFits ==
  ASSUME NEW st \in ReassemblyState, NEW p \in Packet, NEW r \in Reassemble(st, p)
  PROVE  Fits(st.phase, r.st.phase, r.events)
<1>1. CASE st.phase = "none"
  <2> DEFINE open == [st EXCEPT !.phase = "open"]
  <2>1. open \in ReassemblyState /\ open.phase = "open"
    BY DEF ReassemblyState
  <2>2. PICK q \in Process(open, p) : r = [st |-> q.st, events |-> <<Start>> \o q.events]
    BY <1>1 DEF Reassemble
  <2> HIDE DEF open
  <2>3. /\ q.events \in Seq(Event) /\ <<Start>> \in Seq(Event) /\ Len(<<Start>>) = 1
        /\ <<Start>>[1] = Start
    BY <2>1, ProcessType, EventType, SingleIsSeq DEF Outcome
  <2>4. /\ \A i \in 1..Len(q.events) :
             \/ q.events[i].kind = "message" /\ q.events[i].data # <<>>
             \/ q.events[i].kind = "end" /\ q.st.phase = "closed"
    BY <2>1, ProcessFits
  <2> DEFINE s == <<Start>>
             u == s \o q.events
  <2>5. /\ \A i \in 1..Len(u) : \/ \E j \in 1..Len(s) : u[i] = s[j]
                                \/ \E j \in 1..Len(q.events) : u[i] = q.events[j]
        /\ u \in Seq(Event)
    BY <2>3, ConcatEvents
  <2>6. u[1] = Start /\ u # <<>>
    BY <2>3, ConcatProperties
  <2>7. \A j \in 1..Len(s) : s[j].kind = "start"
    BY <2>3, EventKinds
  <2>8. r.st = q.st /\ r.events = u
    BY <2>2
  <2> HIDE DEF s, u
  <2>9. \A i \in 1..Len(u) : \/ u[i].kind = "start"
                             \/ u[i].kind = "message" /\ u[i].data # <<>>
                             \/ u[i].kind = "end" /\ q.st.phase = "closed"
    BY <2>4, <2>5, <2>7
  <2> QED
    BY <2>6, <2>8, <2>9, EventKinds DEF Fits
<1>2. CASE st.phase = "open"
  <2>1. r \in Process(st, p)
    BY <1>2 DEF Reassemble
  <2> QED
    BY <1>2, <2>1, ProcessFits DEF Fits
<1>3. CASE st.phase = "closed"
  <2>1. r = [st |-> st, events |-> <<>>]
    BY <1>3 DEF Reassemble
  <2> QED
    BY <1>3, <2>1, EmptySeq DEF Fits
<1> QED
  BY <1>1, <1>2, <1>3 DEF ReassemblyState

-----------------------------------------------------------------------------
\* Whose packets are dropped.  For any key function, collisions included, a dropped
\* packet has the key of a connection whose ClientHello names a blocked host.

BlockedConn(c) == HelloLen[c] # 0 /\ HostOf[c] \in BlockedHosts
BlockedKey(k) == \E c \in Conns : KeyOf[c] = k /\ BlockedConn(c)

\* An entry has packets and bytes of connections with its key only.
OwnBytes(e, k) ==
  /\ \A i \in 1..Len(e.held) : e.held[i].conn \in Conns /\ KeyOf[e.held[i].conn] = k
  /\ \A i \in 1..Len(e.stream) : e.stream[i].conn \in Conns /\ KeyOf[e.stream[i].conn] = k
EntryOwn(e, k) ==
  /\ OwnBytes(e, k)
  /\ e.state = "Block" => BlockedKey(k)
  /\ e.state = "Wait" => ~e.closed
OwnInv == \A k \in Keys : EntryOwn(conns[k], k)

\* No callback announces data and brings none.
Spoken(evs) == \A i \in 1..Len(evs) : evs[i].kind = "message" => evs[i].data # <<>>

MayDrop(d) == d.verdict = "BLOCK" => d.pkt.conn # NoConn /\ BlockedKey(KeyOf[d.pkt.conn])
Rightly(s) == \A i \in 1..Len(s) : MayDrop(s[i])

DropInv == BufferInv /\ OwnInv /\ Spoken(events) /\ Rightly(answered) /\ Rightly(decided)

\* Two entries that differ in nothing an entry is decided by.
Like(e, f) ==
  /\ f.state = e.state /\ f.closed = e.closed /\ f.token = e.token /\ f.stream = e.stream
  /\ Len(f.held) = Len(e.held) /\ \A i \in 1..Len(e.held) : f.held[i].conn = e.held[i].conn

LEMMA ConcatRightly ==
  ASSUME NEW s \in Seq(Decision), NEW t \in Seq(Decision), Rightly(s), Rightly(t)
  PROVE  Rightly(s \o t) /\ s \o t \in Seq(Decision)
<1> DEFINE u == s \o t
<1>1. /\ u \in Seq(Decision) /\ Len(u) = Len(s) + Len(t) /\ Len(s) \in Nat /\ Len(t) \in Nat
      /\ \A i \in 1..(Len(s) + Len(t)) : u[i] = IF i <= Len(s) THEN s[i] ELSE t[i - Len(s)]
  BY ConcatProperties
<1> HIDE DEF u
<1>2. ASSUME NEW i \in 1..Len(u) PROVE MayDrop(u[i])
  <2>1. CASE i <= Len(s)
    <3>1. i \in 1..Len(s) /\ u[i] = s[i]
      BY <1>1, <2>1
    <3> QED
      BY <3>1 DEF Rightly
  <2>2. CASE ~(i <= Len(s))
    <3>1. i - Len(s) \in 1..Len(t) /\ u[i] = t[i - Len(s)]
      BY <1>1, <2>2
    <3> QED
      BY <3>1 DEF Rightly
  <2> QED
    BY <2>1, <2>2
<1> QED
  BY <1>1, <1>2 DEF u, Rightly

LEMMA AppendRightly ==
  ASSUME NEW s \in Seq(Decision), NEW d \in Decision, Rightly(s), MayDrop(d)
  PROVE  Rightly(Append(s, d))
<1>1. <<d>> \in Seq(Decision) /\ Rightly(<<d>>)
  BY SingleIsSeq DEF Rightly
<1>2. Append(s, d) = s \o <<d>>
  BY AppendIsConcat
<1> QED
  BY <1>1, <1>2, ConcatRightly

LEMMA LikeOwn ==
  ASSUME OwnInv, \A x \in Keys : Like(conns[x], conns'[x])
  PROVE  OwnInv'
<1> SUFFICES ASSUME NEW x \in Keys PROVE EntryOwn(conns'[x], x)
  BY DEF OwnInv
<1>1. EntryOwn(conns[x], x) /\ Like(conns[x], conns'[x])
  BY DEF OwnInv
<1> QED
  BY <1>1 DEF EntryOwn, OwnBytes, Like

LEMMA ConstOwn == \A k : EntryOwn(Absent, k) /\ EntryOwn(NewConn, k)
BY EmptySeq DEF EntryOwn, OwnBytes, Absent, NewConn

\* resolve(): what the flow held may be dropped if its key is blocked.
LEMMA ResolveOwn ==
  ASSUME DropInv, NEW k \in Keys, NEW c \in Entry, OwnBytes(c, k), NEW host,
         Decide(host) = "BLOCK" => BlockedKey(k), NEW why \in Why,
         NEW more \in Seq(Decision), Rightly(more), Resolve(k, c, host, why, more)
  PROVE  OwnInv' /\ Rightly(decided')
<1> DEFINE all == SettleAll(c.held, Decide(host), why)
<1>0. /\ conns \in [Keys -> Entry] /\ decided \in Seq(Decision) /\ Rightly(decided) /\ OwnInv
      /\ c.held \in Seq(Packet)
  BY DEF DropInv, BufferInv, TypeInv, TypeOK, Entry
<1>1. all \in Seq(Decision) /\ Len(all) = Len(c.held)
  BY <1>0, SettleAllType DEF Decide, Verdict
<1>2. Rightly(all)
  <2> SUFFICES ASSUME NEW i \in 1..Len(c.held) PROVE MayDrop(all[i])
    BY <1>1 DEF Rightly
  <2>1. all[i].verdict = Decide(host) /\ all[i].pkt = c.held[i]
    BY DEF SettleAll, Settle
  <2>2. c.held[i].conn # NoConn /\ KeyOf[c.held[i].conn] = k
    BY ConnsAssumption DEF OwnBytes
  <2> QED
    BY <2>1, <2>2 DEF MayDrop
<1>3. Rightly(decided')
  <2>1. decided' = (decided \o all) \o more
    BY DEF Resolve
  <2> HIDE DEF all
  <2>2. Rightly(decided \o all) /\ decided \o all \in Seq(Decision)
    BY <1>0, <1>1, <1>2, ConcatRightly
  <2> QED
    BY <2>1, <2>2, ConcatRightly
<1>4. EntryOwn(conns'[k], k)
  <2>1. CASE Decide(host) = "BLOCK"
    <3>1. /\ conns'[k].held = <<>> /\ conns'[k].stream = <<>> /\ conns'[k].state # "Wait"
      BY <1>0, ResolveEntries
    <3> QED
      BY <2>1, <3>1, EmptySeq DEF EntryOwn, OwnBytes
  <2>2. CASE Decide(host) # "BLOCK"
    BY <1>0, <2>2, ConstOwn DEF Resolve
  <2> QED
    BY <2>1, <2>2
<1>5. \A x \in Keys \ {k} : EntryOwn(conns'[x], x)
  BY <1>0, ResolveEntries, ConstOwn DEF OwnInv
<1> QED
  BY <1>3, <1>4, <1>5 DEF OwnInv

\* Whatever the parser says of a stream, a name that is blocked is that of a
\* connection some of the bytes are from.
LEMMA HostnameOwn ==
  ASSUME NEW s \in Seq(Chunk), s # <<>>, NEW r \in ExtractHostname(s), Decide(r.host) = "BLOCK"
  PROVE  \E i \in 1..Len(s) : BlockedConn(s[i].conn)
<1>1. r.host \in BlockedHosts /\ r.host # NoHost
  BY StreamsAssumption DEF Decide
<1>2. /\ Found(NoHost).host = NoHost /\ NeedMore.host = NoHost
      /\ \A h : Found(h).host = h
  BY DEF Found, NeedMore
<1>3. 1 \in 1..Len(s)
  BY EmptySeq, LenProperties
<1>4. \E i \in 1..Len(s) : r.host = NameIn(s[i].conn)
  BY <1>1, <1>2, <1>3 DEF ExtractHostname
<1> QED
  BY <1>1, <1>4 DEF NameIn, BlockedConn

\* Only what is decided, and the table's entries, matter.
LEMMA SweepDrop ==
  ASSUME DropInv,
         \/ Tick \/ SweepEnd \/ Flush \/ FlushEnd
         \/ \E k \in Keys : SweepBlocked(k) \/ SweepWaiting(k) \/ FlushOne(k)
  PROVE  OwnInv' /\ Rightly(decided')
<1>0. conns \in [Keys -> Entry] /\ OwnInv /\ Rightly(decided)
  BY DEF DropInv, BufferInv, TypeInv, TypeOK
<1>1. CASE Tick \/ SweepEnd \/ Flush
  BY <1>0, <1>1 DEF Tick, SweepEnd, Flush, table, OwnInv
<1>2. CASE FlushEnd
  BY <1>0, <1>2, ConstOwn DEF FlushEnd, OwnInv
<1>3. ASSUME NEW k \in Keys, SweepBlocked(k) PROVE OwnInv' /\ Rightly(decided')
  BY <1>0, <1>3, ConstOwn DEF SweepBlocked, OwnInv
<1>4. ASSUME NEW k \in Keys, SweepWaiting(k) \/ FlushOne(k) PROVE OwnInv' /\ Rightly(decided')
  <2>1. /\ <<>> \in Seq(Decision) /\ Rightly(<<>>) /\ {"idle", "shutdown"} \subseteq Why
        /\ Decide(NoHost) # "BLOCK"
    BY EmptySeq, StreamsAssumption DEF Rightly, Why, Decide
  <2>2. conns[k] \in Entry /\ OwnBytes(conns[k], k)
    BY <1>0 DEF OwnInv, EntryOwn
  <2>3. \E why \in Why : Resolve(k, conns[k], NoHost, why, <<>>)
    BY <1>4, <2>1 DEF SweepWaiting, FlushOne
  <2> QED
    BY <2>1, <2>2, <2>3, ResolveOwn
<1> QED
  BY <1>1, <1>2, <1>3, <1>4

LEMMA FeedDrop ==
  ASSUME DropInv,
         \/ \E h \in Arrivals : Feed(h)
         \/ AllowUndissected \/ DropBlocked \/ AllowUntracked
         \/ AdmitWithRoom \/ AdmitByEviction \/ AllowAtCap
         \/ AllowFlooded \/ AllowBareAck
  PROVE  OwnInv' /\ Rightly(decided')
<1>0. /\ conns \in [Keys -> Entry] /\ OwnInv /\ Rightly(decided) /\ TypeOK
      /\ decided \in Seq(Decision) /\ cur \in Packet
      /\ {"undissected", "blocked", "untracked", "cap", "flood", "control"} \subseteq Why
      /\ Verdict = {"ALLOW", "BLOCK"}
  BY DEF DropInv, BufferInv, TypeInv, TypeOK, Why, Verdict
<1>a. ASSUME NEW why \in Why, ReturnWith("ALLOW", why) PROVE Rightly(decided')
  <2>1. Settle(cur, "ALLOW", why) \in Decision /\ MayDrop(Settle(cur, "ALLOW", why))
    BY <1>0, SettleType DEF MayDrop, Settle
  <2> QED
    BY <1>0, <1>a, <2>1, AppendRightly DEF ReturnWith
<1>l. \A e \in Entry : Like(e, e) /\ Like(e, [e EXCEPT !.idle = 0])
  BY DEF Like, Entry
<1>1. CASE \E h \in Arrivals : Feed(h)
  BY <1>0, <1>1 DEF Feed, table, OwnInv
<1>2. CASE AllowUndissected \/ AllowUntracked \/ AllowAtCap
  <2>1. conns' = conns /\ \E why \in Why : ReturnWith("ALLOW", why)
    BY <1>0, <1>2 DEF AllowUndissected, AllowUntracked, AllowAtCap
  <2> QED
    BY <1>0, <1>a, <2>1 DEF OwnInv
<1>3. CASE DropBlocked \/ AllowBareAck
  <2>1. Key \in Keys /\ conns' = [conns EXCEPT ![Key].idle = 0]
    BY <1>0, <1>3, KeyType DEF DropBlocked, AllowBareAck, Undecided
  <2>2. conns' = [conns EXCEPT ![Key] = [conns[Key] EXCEPT !.idle = 0]]
    BY <1>0, <2>1
  <2>3. \A x \in Keys : Like(conns[x], conns'[x])
    BY <1>0, <1>l, <2>1, <2>2
  <2>4. OwnInv'
    BY <1>0, <2>3, LikeOwn
  <2>5. CASE AllowBareAck
    BY <1>0, <1>a, <2>4, <2>5 DEF AllowBareAck
  <2>6. CASE DropBlocked
    <3>1. cur.conn # NoConn /\ BlockedKey(KeyOf[cur.conn])
      BY <1>0, <2>1, <2>6 DEF DropBlocked, OwnInv, EntryOwn, Key
    <3>2. /\ Settle(cur, "BLOCK", "blocked") \in Decision
          /\ MayDrop(Settle(cur, "BLOCK", "blocked"))
      BY <1>0, <3>1, SettleType DEF MayDrop, Settle
    <3> QED
      BY <1>0, <2>4, <2>6, <3>2, AppendRightly DEF DropBlocked, ReturnWith
  <2> QED
    BY <1>3, <2>5, <2>6
<1>4. CASE AdmitWithRoom
  BY <1>0, <1>4, ConstOwn DEF AdmitWithRoom, OwnInv
<1>5. CASE AdmitByEviction
  <2>1. PICK victim : conns' = [conns EXCEPT ![victim] = Absent, ![Key] = NewConn]
    BY <1>5 DEF AdmitByEviction
  <2>2. \A x \in Keys : conns'[x] \in {Absent, NewConn, conns[x]}
    BY <1>0, <2>1
  <2> QED
    BY <1>0, <1>5, <2>2, ConstOwn DEF AdmitByEviction, OwnInv
<1>6. CASE AllowFlooded
  <2> DEFINE d == Settle(cur, "ALLOW", "flood")
  <2>1. d \in Decision /\ MayDrop(d)
    BY <1>0, SettleType DEF MayDrop, Settle
  <2>2. <<d>> \in Seq(Decision) /\ Rightly(<<d>>) /\ Decide(NoHost) # "BLOCK"
    BY <2>1, SingleIsSeq, StreamsAssumption DEF Rightly, Decide
  <2>3. Key \in Keys /\ conns[Key] \in Entry /\ OwnBytes(conns[Key], Key)
    BY <1>0, <1>6, KeyType DEF AllowFlooded, Undecided, OwnInv, EntryOwn
  <2>4. Resolve(Key, conns[Key], NoHost, "flood", <<d>>)
    BY <1>6 DEF AllowFlooded
  <2> QED
    BY <1>0, <2>2, <2>3, <2>4, ResolveOwn
<1> QED
  BY <1>1, <1>2, <1>3, <1>4, <1>5, <1>6

LEMMA ConcatChunks ==
  ASSUME NEW s \in Seq(Chunk), NEW t \in Seq(Chunk)
  PROVE  /\ Len(s \o t) = Len(s) + Len(t) /\ Len(s) \in Nat /\ Len(t) \in Nat
         /\ \A i \in 1..(Len(s) + Len(t)) :
              (s \o t)[i] = IF i <= Len(s) THEN s[i] ELSE t[i - Len(s)]
BY ConcatProperties, LenProperties

\* What a message adds to a flow's stream is the connection's own.
LEMMA AppendedOwn ==
  ASSUME DropInv, Callback("message"), Key \in Keys, cur.conn \in Conns
  PROVE  LET c == Appended(conns[Key])
         IN /\ c \in Entry /\ OwnBytes(c, Key) /\ c.stream # <<>>
            /\ c.state = conns[Key].state /\ c.closed = conns[Key].closed
            /\ c.held = conns[Key].held /\ c.token = cur.conn
<1> DEFINE e == conns[Key]
           data == Head(events).data
           chunks == [i \in 1..Len(data) |-> [conn |-> cur.conn, seg |-> data[i]]]
           c == Appended(e)
           base == e.stream
           s == base \o chunks
<1>0. /\ TypeOK /\ e \in Entry /\ OwnBytes(e, Key) /\ events \in Seq(Event) /\ events # <<>>
      /\ KeyOf[cur.conn] = Key /\ Head(events).kind = "message" /\ cur.conn # NoConn
  BY ConnsAssumption DEF DropInv, BufferInv, TypeInv, TypeOK, OwnInv, EntryOwn, Callback, Key
<1>1. data # <<>> /\ data \in Seq(0..MaxSeg)
  <2>1. 1 \in 1..Len(events) /\ Head(events) = events[1] /\ events[1] \in Event
    BY <1>0, EmptySeq, LenProperties, ElementOfSeq
  <2> QED
    BY <1>0, <2>1 DEF DropInv, Spoken, Event
<1>2. c = [e EXCEPT !.token = cur.conn, !.stream = s]
  BY DEF Appended
<1>3. c \in Entry
  BY <1>0, AppendedType
<1>4. /\ c.stream = s /\ c.state = e.state /\ c.closed = e.closed /\ c.held = e.held
      /\ c.token = cur.conn
  <2> HIDE DEF s
  <2> QED
    BY <1>0, <1>2 DEF Entry
<1>5. /\ Len(data) \in Nat /\ Len(data) # 0
      /\ \A i \in 1..Len(data) : data[i] \in 0..MaxSeg
  BY <1>1, EmptySeq, LenProperties, ElementOfSeq
<1> HIDE DEF data
<1>6. \A i \in 1..Len(data) : chunks[i].conn = cur.conn
  OBVIOUS
<1>7. chunks \in [1..Len(data) -> Chunk]
  BY <1>5 DEF Chunk
<1> HIDE DEF chunks
<1>8. chunks \in Seq(Chunk) /\ Len(chunks) = Len(data) /\ base \in Seq(Chunk)
  BY <1>0, <1>5, <1>7, FunIsSeq DEF Entry
<1> HIDE DEF base
<1>9. /\ Len(s) = Len(base) + Len(chunks) /\ Len(base) \in Nat
      /\ \A i \in 1..(Len(base) + Len(chunks)) :
           s[i] = IF i <= Len(base) THEN base[i] ELSE chunks[i - Len(base)]
  BY <1>8, ConcatChunks
<1> HIDE DEF s
<1>10. s # <<>>
  BY <1>5, <1>8, <1>9, EmptySeq
<1>11. ASSUME NEW i \in 1..Len(s) PROVE s[i].conn \in Conns /\ KeyOf[s[i].conn] = Key
  <2>1. CASE i <= Len(base)
    <3>1. i \in 1..Len(base) /\ s[i] = base[i]
      BY <1>9, <2>1
    <3> QED
      BY <1>0, <3>1 DEF OwnBytes, base
  <2>2. CASE ~(i <= Len(base))
    <3>1. i - Len(base) \in 1..Len(data) /\ s[i] = chunks[i - Len(base)]
      BY <1>5, <1>8, <1>9, <2>2
    <3> QED
      BY <1>0, <1>6, <3>1
  <2> QED
    BY <2>1, <2>2
<1> HIDE DEF c, e
<1>12. OwnBytes(c, Key)
  BY <1>0, <1>4, <1>11 DEF OwnBytes
<1> QED
  BY <1>3, <1>4, <1>10, <1>12 DEF c, e

LEMMA CallbackDrop ==
  ASSUME DropInv,
         \/ \E b \in BOOLEAN : FeedReassembler(b)
         \/ OnConnectionStart \/ OnMessageIgnored \/ OnMessageReady \/ OnConnectionEnd
         \/ Epilogue
  PROVE  OwnInv' /\ Rightly(decided')
<1>0. /\ conns \in [Keys -> Entry] /\ OwnInv /\ Rightly(decided) /\ TypeOK /\ FedConn
      /\ decided \in Seq(Decision) /\ cur \in Packet
      /\ <<>> \in Seq(Decision) /\ Rightly(<<>>)
  BY EmptySeq DEF DropInv, BufferInv, TypeInv, TypeOK, Rightly
<1>k. cur.conn # NoConn => Key \in Keys /\ cur.conn \in Conns /\ KeyOf[cur.conn] = Key
  BY <1>0, KeyType DEF Key
<1>l. \A e \in Entry : Like(e, e)
  BY DEF Like, Entry
<1>1. ASSUME NEW b \in BOOLEAN, FeedReassembler(b) PROVE OwnInv' /\ Rightly(decided')
  <2>1. Key \in Keys /\ cur.conn \in Conns /\ KeyOf[cur.conn] = Key /\ decided' = decided
    BY <1>1, <1>k DEF FeedReassembler, Undecided
  <2> DEFINE e == conns[Key]
             held == IF cur.seg # 0 THEN Append(e.held, cur) ELSE e.held
             entry == [e EXCEPT !.idle = 0, !.held = held]
  <2>2. conns' = [conns EXCEPT ![Key] = entry]
    BY <1>0, <1>1, <2>1 DEF FeedReassembler
  <2>3. \A i \in 1..Len(held) : held[i].conn \in Conns /\ KeyOf[held[i].conn] = Key
    <3>1. /\ e.held \in Seq(Packet)
          /\ \A i \in 1..Len(e.held) : e.held[i].conn \in Conns /\ KeyOf[e.held[i].conn] = Key
      BY <1>0, <2>1 DEF OwnInv, EntryOwn, OwnBytes, Entry
    <3>2. /\ Len(Append(e.held, cur)) = Len(e.held) + 1 /\ Len(e.held) \in Nat
          /\ \A i \in 1..Len(e.held) : Append(e.held, cur)[i] = e.held[i]
          /\ Append(e.held, cur)[Len(e.held) + 1] = cur
      BY <1>0, <3>1, AppendProperties
    <3>3. ASSUME NEW i \in 1..(Len(e.held) + 1)
          PROVE  /\ Append(e.held, cur)[i].conn \in Conns
                 /\ KeyOf[Append(e.held, cur)[i].conn] = Key
      <4>1. i \in 1..Len(e.held) \/ i = Len(e.held) + 1
        BY <3>2
      <4> QED
        BY <2>1, <3>1, <3>2, <4>1
    <3> QED
      BY <3>1, <3>2, <3>3
  <2> HIDE DEF held
  <2>4. /\ entry.held = held /\ entry.stream = e.stream /\ entry.state = e.state
        /\ entry.closed = e.closed
    BY <1>0, <2>1 DEF Entry
  <2> HIDE DEF entry
  <2>5. EntryOwn(entry, Key)
    BY <1>0, <2>1, <2>3, <2>4 DEF OwnInv, EntryOwn, OwnBytes
  <2> QED
    BY <1>0, <2>1, <2>2, <2>5 DEF OwnInv
<1>2. CASE OnConnectionStart
  <2>1. Key \in Keys /\ decided' = decided
    BY <1>0, <1>2, <1>k DEF OnConnectionStart, Callback, FedConn
  <2> DEFINE entry == [conns[Key] EXCEPT !.token = cur.conn]
  <2>2. conns' = conns \/ conns' = [conns EXCEPT ![Key] = entry]
    BY <1>0, <1>2 DEF OnConnectionStart
  <2>3. /\ entry.held = conns[Key].held /\ entry.stream = conns[Key].stream
        /\ entry.state = conns[Key].state /\ entry.closed = conns[Key].closed
    BY <1>0, <2>1 DEF Entry
  <2> HIDE DEF entry
  <2>4. EntryOwn(entry, Key)
    BY <1>0, <2>1, <2>3 DEF OwnInv, EntryOwn, OwnBytes
  <2> QED
    BY <1>0, <2>1, <2>2, <2>4 DEF OwnInv
<1>3. CASE OnMessageIgnored
  BY <1>0, <1>3 DEF OnMessageIgnored, table, OwnInv
<1>4. CASE OnMessageReady
  <2> DEFINE c == Appended(conns[Key])
  <2>1. Callback("message") /\ Key \in Keys /\ cur.conn \in Conns /\ conns[Key].state = "Wait"
    BY <1>0, <1>4, <1>k DEF OnMessageReady, Callback, FedConn
  <2>2. /\ c \in Entry /\ OwnBytes(c, Key) /\ c.stream # <<>>
        /\ c.state = "Wait" /\ c.closed = conns[Key].closed
    BY <2>1, AppendedOwn
  <2>3. PICK r \in ExtractHostname(c.stream) :
          \/ Resolve(Key, c, r.host, StreamKind(c.stream), <<>>)
          \/ Resolve(Key, c, NoHost, "oversize", <<>>)
          \/ conns' = [conns EXCEPT ![Key] = c] /\ UNCHANGED decided
    BY <1>4 DEF OnMessageReady
  <2> HIDE DEF c
  <2>4. CASE Resolve(Key, c, r.host, StreamKind(c.stream), <<>>)
    <3>1. StreamKind(c.stream) \in Why
      BY DEF StreamKind, Why
    <3>2. Decide(r.host) = "BLOCK" => BlockedKey(Key)
      <4> SUFFICES ASSUME Decide(r.host) = "BLOCK" PROVE BlockedKey(Key)
        OBVIOUS
      <4>1. c.stream \in Seq(Chunk)
        BY <2>2 DEF Entry
      <4>2. PICK i \in 1..Len(c.stream) : BlockedConn(c.stream[i].conn)
        BY <2>2, <4>1, HostnameOwn
      <4> QED
        BY <2>2, <4>2 DEF OwnBytes, BlockedKey
    <3> QED
      BY <1>0, <2>1, <2>2, <2>4, <3>1, <3>2, ResolveOwn
  <2>5. CASE Resolve(Key, c, NoHost, "oversize", <<>>)
    <3>1. "oversize" \in Why /\ Decide(NoHost) # "BLOCK"
      BY StreamsAssumption DEF Why, Decide
    <3> QED
      BY <1>0, <2>1, <2>2, <2>5, <3>1, ResolveOwn
  <2>6. CASE conns' = [conns EXCEPT ![Key] = c] /\ UNCHANGED decided
    <3>1. EntryOwn(c, Key)
      BY <1>0, <2>1, <2>2 DEF OwnInv, EntryOwn
    <3> QED
      BY <1>0, <2>6, <3>1 DEF OwnInv
  <2> QED
    BY <2>3, <2>4, <2>5, <2>6
<1>5. CASE OnConnectionEnd
  <2> DEFINE c == [conns[Key] EXCEPT !.closed = TRUE]
  <2>1. Key \in Keys
    BY <1>0, <1>5, <1>k DEF OnConnectionEnd, Callback, FedConn
  <2>2. /\ c \in Entry /\ c.held = conns[Key].held /\ c.stream = conns[Key].stream
        /\ c.state = conns[Key].state /\ c.state \in {"None", "Wait", "Block"}
    BY <1>0, <2>1 DEF Entry
  <2>3. \/ Resolve(Key, c, NoHost, "ended", <<>>)
        \/ conns' = [conns EXCEPT ![Key] = c] /\ c.state = "Block" /\ UNCHANGED decided
        \/ UNCHANGED <<conns, decided>>
    BY <1>5, <2>2 DEF OnConnectionEnd
  <2> HIDE DEF c
  <2>4. OwnBytes(c, Key) /\ (c.state = "Block" => EntryOwn(c, Key))
    BY <1>0, <2>1, <2>2 DEF OwnInv, EntryOwn, OwnBytes
  <2>5. CASE Resolve(Key, c, NoHost, "ended", <<>>)
    <3>1. "ended" \in Why /\ Decide(NoHost) # "BLOCK"
      BY StreamsAssumption DEF Why, Decide
    <3> QED
      BY <1>0, <2>1, <2>2, <2>4, <2>5, <3>1, ResolveOwn
  <2> QED
    BY <1>0, <2>1, <2>3, <2>4, <2>5 DEF OwnInv
<1>6. CASE Epilogue
  <2>1. Key \in Keys /\ conns[Key] \in Entry
    BY <1>0, <1>6, <1>k DEF Epilogue, FedConn
  <2> DEFINE held == ReleaseLast(conns[Key].held)
             entry == [conns[Key] EXCEPT !.held = held]
  <2>2. \/ conns' = [conns EXCEPT ![Key] = entry] /\ decided' = decided
        \/ conns' = conns /\ decided' = Append(decided, Settle(cur, "ALLOW", "control"))
    BY <1>0, <1>6, <2>1 DEF Epilogue
  <2>3. /\ Len(held) = Len(conns[Key].held)
        /\ \A i \in 1..Len(held) : held[i].conn = conns[Key].held[i].conn
    <3>1. conns[Key].held \in Seq(Packet)
      BY <2>1 DEF Entry
    <3>2. Len(held) = Len(conns[Key].held)
      BY <3>1, ReleaseType
    <3> QED
      BY <3>1, <3>2, ReleaseElements
  <2> HIDE DEF held
  <2>4. /\ entry.held = held /\ entry.stream = conns[Key].stream
        /\ entry.state = conns[Key].state /\ entry.closed = conns[Key].closed
    BY <2>1 DEF Entry
  <2> HIDE DEF entry
  <2>5. EntryOwn(entry, Key)
    BY <1>0, <2>1, <2>3, <2>4 DEF OwnInv, EntryOwn, OwnBytes
  <2>6. /\ Settle(cur, "ALLOW", "control") \in Decision
        /\ MayDrop(Settle(cur, "ALLOW", "control"))
    BY <1>0, SettleType DEF MayDrop, Settle, Verdict, Why
  <2> QED
    BY <1>0, <2>1, <2>2, <2>5, <2>6, AppendRightly DEF OwnInv
<1> QED
  BY <1>1, <1>2, <1>3, <1>4, <1>5, <1>6

\* What reassemblePacket() does for the packet being fed: the rest of the map is as
\* the purge left it, and the callbacks fit what became of the connection.
LEMMA FeedsFit ==
  ASSUME BufferInv, NEW b \in BOOLEAN, FeedReassembler(b)
  PROVE  /\ cur.conn \in Conns /\ Key \in Keys
         /\ Fits(pcpp[cur.conn].phase, pcpp'[cur.conn].phase, events')
            \/ Fits("none", pcpp'[cur.conn].phase, events')
         /\ \A c \in Conns \ {cur.conn} : pcpp'[c].phase = "open" => pcpp[c].phase = "open"
<1> DEFINE map == [c \in Conns |-> IF b THEN Purge(pcpp[c]) ELSE pcpp[c]]
<1>0. /\ pcpp \in [Conns -> ReassemblyState] /\ cur \in Packet /\ cur.conn \in Conns /\ Key \in Keys
  BY KeyType DEF BufferInv, TypeInv, TypeOK, FeedReassembler, Undecided
<1>1. PICK r \in Reassemble(map[cur.conn], cur) :
        pcpp' = [map EXCEPT ![cur.conn] = r.st] /\ events' = r.events
  BY DEF FeedReassembler
<1>2. \A c \in Conns : /\ map[c] \in ReassemblyState
                       /\ map[c].phase \in {pcpp[c].phase, "none"}
  BY <1>0, MapType DEF Purge, NoState
<1>3. DOMAIN map = Conns
  OBVIOUS
<1> HIDE DEF map
<1>4. Fits(map[cur.conn].phase, r.st.phase, r.events)
  BY <1>0, <1>2, ReassembleFits
<1>5. /\ pcpp'[cur.conn] = r.st
      /\ \A c \in Conns \ {cur.conn} : pcpp'[c] = map[c]
  BY <1>0, <1>1, <1>3
<1> QED
  BY <1>0, <1>1, <1>2, <1>4, <1>5

LEMMA TailEvents ==
  ASSUME NEW s \in Seq(Event), s # <<>>
  PROVE  /\ Len(Tail(s)) = Len(s) - 1 /\ Len(s) \in Nat
         /\ \A i \in 1..Len(Tail(s)) : i + 1 \in 1..Len(s) /\ Tail(s)[i] = s[i + 1]
BY HeadTailProperties, LenProperties

LEMMA NextSpoken ==
  ASSUME BufferInv, Spoken(events), [Next]_vars
  PROVE  Spoken(events')
<1>1. ASSUME NEW b \in BOOLEAN, FeedReassembler(b) PROVE Spoken(events')
  BY <1>1, FeedsFit DEF Fits, Spoken
<1>2. CASE OnConnectionStart \/ OnMessageIgnored \/ OnMessageReady \/ OnConnectionEnd
  <2>1. events' = Tail(events) /\ events # <<>> /\ events \in Seq(Event)
    BY <1>2 DEF OnConnectionStart, OnMessageIgnored, OnMessageReady, OnConnectionEnd, Callback,
       BufferInv, TypeInv, TypeOK
  <2> QED
    BY <2>1, TailEvents DEF Spoken
<1>3. CASE \/ \E h \in Arrivals : Feed(h)
           \/ Tick \/ Flush \/ Drain \/ Elapse \/ Finished \/ UNCHANGED vars
  BY <1>3 DEF Feed, Tick, Flush, Drain, Elapse, Finished, vars
<1>4. CASE \/ \E k \in Keys : SweepBlocked(k) \/ SweepWaiting(k) \/ FlushOne(k)
           \/ SweepEnd \/ FlushEnd
           \/ AllowUndissected \/ DropBlocked \/ AllowUntracked
           \/ AdmitWithRoom \/ AdmitByEviction \/ AllowAtCap
           \/ AllowFlooded \/ AllowBareAck \/ Epilogue
  BY <1>4 DEF SweepBlocked, SweepWaiting, FlushOne, SweepEnd, FlushEnd, AllowUndissected,
     DropBlocked, AllowUntracked, AdmitWithRoom, AdmitByEviction, AllowAtCap, AllowFlooded,
     AllowBareAck, Epilogue
<1> QED
  BY <1>1, <1>2, <1>3, <1>4 DEF Next, Step

LEMMA StepAnswers == Step => answered' = answered
BY DEF Step, SweepBlocked, SweepWaiting, FlushOne, SweepEnd, FlushEnd, AllowUndissected,
   DropBlocked, AllowUntracked, AdmitWithRoom, AdmitByEviction, AllowAtCap, AllowFlooded,
   AllowBareAck, FeedReassembler, OnConnectionStart, OnMessageIgnored, OnMessageReady,
   OnConnectionEnd, Epilogue

LEMMA NextDrop == DropInv /\ [Next]_vars => DropInv'
<1> SUFFICES ASSUME DropInv, [Next]_vars PROVE DropInv'
  OBVIOUS
<1>0. /\ BufferInv' /\ Spoken(events') /\ conns \in [Keys -> Entry] /\ OwnInv
      /\ Rightly(decided) /\ Rightly(answered)
      /\ decided \in Seq(Decision) /\ answered \in Seq(Decision)
  BY NextBuffers, NextSpoken DEF DropInv, BufferInv, TypeInv, TypeOK
<1>1. CASE Drain
  <2>1. UNCHANGED conns /\ answered' = answered \o decided /\ decided' = <<>>
    BY <1>1 DEF Drain, table
  <2>2. Rightly(answered') /\ Rightly(decided')
    BY <1>0, <2>1, ConcatRightly, EmptySeq DEF Rightly
  <2> QED
    BY <1>0, <2>1, <2>2 DEF DropInv, OwnInv
<1>2. CASE Elapse
  <2>1. \A e \in Entry : Like(e, e) /\ Like(e, [e EXCEPT !.idle = @ + 1])
    BY DEF Like, Entry
  <2>2. \A x \in Keys : Like(conns[x], conns'[x])
    BY <1>0, <1>2, <2>1 DEF Elapse
  <2> QED
    BY <1>0, <1>2, <2>2, LikeOwn DEF Elapse, DropInv
<1>3. CASE Finished \/ UNCHANGED vars
  BY <1>0, <1>3 DEF Finished, vars, DropInv, OwnInv
<1>4. CASE Tick \/ Flush \/ \E h \in Arrivals : Feed(h)
  BY <1>0, <1>4, SweepDrop, FeedDrop DEF Tick, Flush, Feed, DropInv
<1>5. CASE Step
  <2>1. OwnInv' /\ Rightly(decided')
    BY <1>5, SweepDrop, FeedDrop, CallbackDrop DEF Step
  <2> QED
    BY <1>0, <1>5, <2>1, StepAnswers DEF DropInv
<1> QED
  BY <1>1, <1>2, <1>3, <1>4, <1>5 DEF Next

LEMMA InitDrop == Init => DropInv
<1> SUFFICES ASSUME Init PROVE DropInv
  OBVIOUS
<1>1. OwnInv
  BY ConstOwn DEF Init, OwnInv
<1>2. Spoken(events) /\ Rightly(answered) /\ Rightly(decided)
  BY EmptySeq DEF Init, Spoken, Rightly
<1> QED
  BY <1>1, <1>2, InitBuffers DEF DropInv

LEMMA DropInvAlways == Spec => []DropInv
BY InitDrop, NextDrop, PTL DEF Spec

LEMMA DropInvSettled ==
  ASSUME DropInv
  PROVE  Rightly(Settled)
BY ConcatRightly DEF DropInv, BufferInv, TypeInv, TypeOK, Settled

\* Whatever flows share their key: a packet is dropped only if a connection with its
\* key sends a ClientHello that names a blocked host.
THEOREM DropsOnlyBlockedKeys ==
  Spec => [](\A i \in 1..Len(Settled) :
               Settled[i].verdict = "BLOCK" =>
                 /\ Settled[i].pkt.conn # NoConn
                 /\ BlockedKey(KeyOf[Settled[i].pkt.conn]))
<1>1. DropInv => \A i \in 1..Len(Settled) :
                   Settled[i].verdict = "BLOCK" =>
                     /\ Settled[i].pkt.conn # NoConn
                     /\ BlockedKey(KeyOf[Settled[i].pkt.conn])
  BY DropInvSettled DEF Rightly, MayDrop
<1> QED
  BY <1>1, DropInvAlways, PTL

\* Where every connection has its own key, resolve() and the blocked entries it leaves
\* drop packets of connections to blocked hosts and of no other.
THEOREM NoInnocentDropped ==
  ASSUME \A c, d \in Conns : KeyOf[c] = KeyOf[d] => c = d
  PROVE  Spec => []OnlyBlockedHostsDropped
<1>1. ASSUME DropInv, NEW i \in 1..Len(Settled), Settled[i].verdict = "BLOCK"
      PROVE  /\ Settled[i].pkt.conn # NoConn
             /\ BlockedConn(Settled[i].pkt.conn)
  <2>1. Settled \in Seq(Decision)
    BY <1>1, ConcatProperties DEF DropInv, BufferInv, TypeInv, TypeOK, Settled
  <2>2. Settled[i].pkt.conn \in Conns \cup {NoConn}
    <3>1. Settled[i] \in Decision
      BY <1>1, <2>1, ElementOfSeq
    <3> QED
      BY <3>1 DEF Decision, Packet
  <2>3. Settled[i].pkt.conn # NoConn /\ BlockedKey(KeyOf[Settled[i].pkt.conn])
    BY <1>1, DropInvSettled DEF Rightly, MayDrop
  <2> QED
    BY <2>2, <2>3 DEF BlockedKey
<1>2. DropInv => OnlyBlockedHostsDropped
  BY <1>1 DEF OnlyBlockedHostsDropped, BlockedConn
<1> QED
  BY <1>2, DropInvAlways, PTL

-----------------------------------------------------------------------------
\* The two tables agree.  A connection with a key of its own that the reassembler has
\* open is known to an undecided flow by its token, or queued to be closed, or the
\* callback that announces it is the next to be made.

Alone(c) == \A d \in Conns : KeyOf[d] = KeyOf[c] => d = c
Watched(c) == conns[KeyOf[c]].state = "Wait" /\ conns[KeyOf[c]].token = c
Starting(c) ==
  /\ pc = "callbacks" /\ c = cur.conn /\ conns[Key].state = "Wait"
  /\ events # <<>> /\ events[1].kind = "start"
Closable(c) == pcpp[c].phase = "open" => c \in toClose \/ Watched(c) \/ Starting(c)

\* The end of a connection is announced only when it is closed.
EndIsEnd ==
  pc = "callbacks" /\ pcpp[cur.conn].phase = "open" =>
    \A i \in 1..Len(events) : events[i].kind # "end"

CloseInv == (\A c \in Conns : Alone(c) => Closable(c)) /\ EndIsEnd

\* Outside the callbacks it is enough that nothing is opened, and that nothing open is
\* forgotten.
LEMMA NothingForgotten ==
  ASSUME CloseInv, pc # "callbacks", pc' # "callbacks",
         \A c \in Conns : pcpp'[c].phase = "open" =>
           /\ pcpp[c].phase = "open"
           /\ (c \in toClose \/ Watched(c)) /\ Alone(c) => c \in toClose' \/ Watched(c)'
  PROVE  CloseInv'
<1>1. EndIsEnd'
  BY DEF EndIsEnd
<1>2. ASSUME NEW c \in Conns, Alone(c), pcpp'[c].phase = "open"
      PROVE  c \in toClose' \/ Watched(c)'
  BY <1>2 DEF CloseInv, Closable, Starting
<1> QED
  BY <1>1, <1>2 DEF CloseInv, Closable, Alone

\* drain_closes() leaves nothing open that was to be closed.
LEMMA DrainLeavesOpen ==
  ASSUME NEW map, DrainCloses(map)
  PROVE  \A c \in Conns : pcpp'[c].phase = "open" => map[c].phase = "open" /\ c \notin toClose
<1> SUFFICES ASSUME NEW c \in Conns, pcpp'[c].phase = "open"
             PROVE  map[c].phase = "open" /\ c \notin toClose
  OBVIOUS
<1>1. pcpp'[c] = IF c \in toClose THEN CloseConnection(map[c]) ELSE map[c]
  BY DEF DrainCloses
<1>2. ASSUME c \in toClose PROVE FALSE
  <2>1. CloseConnection(map[c]).phase = "open"
    BY <1>1, <1>2
  <2>2. CASE map[c].phase = "open"
    <3>1. CloseConnection(map[c]) = [map[c] EXCEPT !.phase = "closed", !.ooo = {}, !.again = TRUE]
      BY <2>2 DEF CloseConnection
    <3> QED
      BY <2>1, <2>2, <3>1
  <2> QED
    BY <2>1, <2>2 DEF CloseConnection
<1> QED
  BY <1>1, <1>2

\* resolve() queues the close of the connection it knows, and forgets no other.
LEMMA ResolveClose ==
  ASSUME conns \in [Keys -> Entry], NEW k \in Keys, NEW e \in Entry, NEW host, NEW why,
         NEW more, Resolve(k, e, host, why, more), NEW c \in Conns
  PROVE  /\ c \in toClose => c \in toClose'
         /\ e.token = c /\ ~e.closed => c \in toClose'
         /\ Watched(c) /\ KeyOf[c] # k => Watched(c)'
<1>1. c # NoConn /\ KeyOf[c] \in Keys
  BY ConnsAssumption
<1>2. toClose' = IF e.token # NoConn /\ ~e.closed THEN toClose \cup {e.token} ELSE toClose
  BY DEF Resolve, QueueClose
<1>3. Watched(c) /\ KeyOf[c] # k => Watched(c)'
  BY <1>1, ResolveEntries DEF Watched
<1> QED
  BY <1>1, <1>2, <1>3

LEMMA ResolveForgetsNone ==
  ASSUME DropInv, NEW k \in Keys, NEW host, NEW why, NEW more,
         Resolve(k, conns[k], host, why, more), NEW c \in Conns, c \in toClose \/ Watched(c)
  PROVE  c \in toClose' \/ Watched(c)'
<1>1. conns \in [Keys -> Entry] /\ conns[k] \in Entry /\ EntryOwn(conns[k], k)
  BY DEF DropInv, BufferInv, TypeInv, TypeOK, OwnInv
<1>2. /\ c \in toClose => c \in toClose'
      /\ conns[k].token = c /\ ~conns[k].closed => c \in toClose'
      /\ Watched(c) /\ KeyOf[c] # k => Watched(c)'
  BY <1>1, ResolveClose
<1> QED
  BY <1>1, <1>2 DEF Watched, EntryOwn

LEMMA SweepClose ==
  ASSUME DropInv, CloseInv,
         \/ Tick \/ SweepEnd \/ Flush \/ FlushEnd
         \/ \E k \in Keys : SweepBlocked(k) \/ SweepWaiting(k) \/ FlushOne(k)
  PROVE  CloseInv'
<1>0. conns \in [Keys -> Entry] /\ KeyOf \in [Conns -> Keys]
  BY ConnsAssumption DEF DropInv, BufferInv, TypeInv, TypeOK
<1>1. CASE Tick \/ Flush
  <2>1. /\ UNCHANGED <<conns, toClose, pcpp>> /\ pc = "idle" /\ pc' \in {"idle", "sweep", "flush"}
    BY <1>1 DEF Tick, EnterTick, Flush, table
  <2> QED
    BY <2>1, NothingForgotten DEF Watched
<1>2. CASE SweepEnd
  <2> DEFINE map == [c \in Conns |-> Purge(pcpp[c])]
  <2>1. DrainCloses(map) /\ conns' = conns /\ pc = "sweep" /\ pc' \in {"idle", "lookup"}
    BY <1>2 DEF SweepEnd
  <2>2. \A c \in Conns : map[c].phase = "open" => pcpp[c].phase = "open"
    BY DEF Purge, NoState
  <2> HIDE DEF map
  <2>3. \A c \in Conns : pcpp'[c].phase = "open" => pcpp[c].phase = "open" /\ c \notin toClose
    BY <2>1, <2>2, DrainLeavesOpen
  <2> QED
    BY <2>1, <2>3, NothingForgotten DEF Watched
<1>3. CASE FlushEnd
  <2>1. DrainCloses(pcpp) /\ pc = "flush" /\ pc' = "done" /\ todo = {}
    BY <1>3 DEF FlushEnd
  <2>2. \A c \in Conns : pcpp'[c].phase = "open" => pcpp[c].phase = "open" /\ c \notin toClose
    BY <2>1, DrainLeavesOpen
  <2>3. \A c \in Conns : ~Watched(c)
    BY <1>0, <2>1 DEF DropInv, BufferInv, FlushCovers, Waiting, InState, Watched
  <2> QED
    BY <2>1, <2>2, <2>3, NothingForgotten
<1>4. ASSUME NEW k \in Keys, SweepBlocked(k) PROVE CloseInv'
  <2>1. /\ conns' = [conns EXCEPT ![k] = Absent] /\ conns[k].state = "Block"
        /\ UNCHANGED <<toClose, pcpp>> /\ pc = "sweep" /\ pc' = "sweep"
    BY <1>4 DEF SweepBlocked
  <2>2. \A c \in Conns : Watched(c) => Watched(c)'
    BY <1>0, <2>1 DEF Watched
  <2> QED
    BY <2>1, <2>2, NothingForgotten
<1>5. ASSUME NEW k \in Keys, SweepWaiting(k) \/ FlushOne(k) PROVE CloseInv'
  <2>1. /\ \E why : Resolve(k, conns[k], NoHost, why, <<>>)
        /\ pcpp' = pcpp /\ pc \in {"sweep", "flush"} /\ pc' = pc
    BY <1>5 DEF SweepWaiting, FlushOne
  <2>2. \A c \in Conns : c \in toClose \/ Watched(c) => c \in toClose' \/ Watched(c)'
    BY <2>1, ResolveForgetsNone
  <2> QED
    BY <2>1, <2>2, NothingForgotten
<1> QED
  BY <1>1, <1>2, <1>3, <1>4, <1>5

LEMMA FeedClose ==
  ASSUME DropInv, CloseInv,
         \/ \E h \in Arrivals : Feed(h)
         \/ AllowUndissected \/ DropBlocked \/ AllowUntracked
         \/ AdmitWithRoom \/ AdmitByEviction \/ AllowAtCap
         \/ AllowFlooded \/ AllowBareAck
  PROVE  CloseInv'
<1>0. conns \in [Keys -> Entry] /\ KeyOf \in [Conns -> Keys] /\ TypeOK
  BY ConnsAssumption DEF DropInv, BufferInv, TypeInv, TypeOK
<1>1. CASE \E h \in Arrivals : Feed(h)
  <2>1. UNCHANGED <<conns, toClose, pcpp>> /\ pc = "idle" /\ pc' \in {"lookup", "sweep"}
    BY <1>1 DEF Feed, EnterTick, table
  <2> QED
    BY <2>1, NothingForgotten DEF Watched
<1>2. CASE AllowUndissected \/ AllowUntracked \/ AllowAtCap
  <2>1. UNCHANGED <<conns, toClose, pcpp>> /\ pc = "lookup" /\ pc' = "idle"
    BY <1>2 DEF AllowUndissected, AllowUntracked, AllowAtCap, Untracked, ReturnWith, Return
  <2> QED
    BY <2>1, NothingForgotten DEF Watched
<1>3. CASE DropBlocked \/ AllowBareAck
  <2>1. /\ Key \in Keys /\ conns' = [conns EXCEPT ![Key].idle = 0]
        /\ UNCHANGED <<toClose, pcpp>> /\ pc = "lookup" /\ pc' = "idle"
    BY <1>0, <1>3, KeyType DEF DropBlocked, AllowBareAck, Undecided, ReturnWith, Return
  <2>2. conns' = [conns EXCEPT ![Key] = [conns[Key] EXCEPT !.idle = 0]]
    BY <1>0, <2>1
  <2>3. \A x \in Keys : conns'[x].state = conns[x].state /\ conns'[x].token = conns[x].token
    BY <1>0, <2>1, <2>2 DEF Entry
  <2>4. \A c \in Conns : Watched(c) => Watched(c)'
    BY <1>0, <2>3 DEF Watched
  <2> QED
    BY <2>1, <2>4, NothingForgotten
<1>4. CASE AdmitWithRoom \/ AdmitByEviction
  <2>1. /\ UNCHANGED <<toClose, pcpp>> /\ pc = "lookup" /\ pc' = "lookup"
        /\ conns[Key].state = "None" /\ Key \in Keys
    BY <1>0, <1>4, KeyType DEF AdmitWithRoom, AdmitByEviction, Untracked
  <2>2. \A x \in Keys : conns[x].state = "Wait" => conns'[x] = conns[x]
    <3>1. CASE AdmitWithRoom
      BY <1>0, <2>1, <3>1 DEF AdmitWithRoom
    <3>2. CASE AdmitByEviction
      <4>1. PICK n \in Slots :
              /\ LiveSlot(n)
              /\ conns' = [conns EXCEPT ![ring[SlotAfter(n)]] = Absent, ![Key] = NewConn]
        BY <3>2 DEF AdmitByEviction
      <4>2. conns[ring[SlotAfter(n)]].state = "Block"
        BY <4>1 DEF LiveSlot, Blocked, InState
      <4> QED
        BY <1>0, <2>1, <4>1, <4>2
    <3> QED
      BY <1>4, <3>1, <3>2
  <2>3. \A c \in Conns : Watched(c) => Watched(c)'
    BY <1>0, <2>2 DEF Watched
  <2> QED
    BY <2>1, <2>3, NothingForgotten
<1>5. CASE AllowFlooded
  <2>1. /\ Key \in Keys /\ pcpp' = pcpp /\ pc = "lookup" /\ pc' = "idle"
        /\ \E more : Resolve(Key, conns[Key], NoHost, "flood", more)
    BY <1>0, <1>5, KeyType DEF AllowFlooded, Undecided, Return
  <2>2. \A c \in Conns : c \in toClose \/ Watched(c) => c \in toClose' \/ Watched(c)'
    BY <2>1, ResolveForgetsNone
  <2> QED
    BY <2>1, <2>2, NothingForgotten
<1> QED
  BY <1>1, <1>2, <1>3, <1>4, <1>5

\* A callback opens nothing: it must leave no other connection forgotten, nor the one
\* it is about.
LEMMA CallbackForgetsNone ==
  ASSUME CloseInv, events \in Seq(Event), events # <<>>, pc = "callbacks", cur.conn \in Conns,
         UNCHANGED <<pc, cur, pcpp>>, events' = Tail(events),
         \A c \in Conns : KeyOf[c] # Key /\ (c \in toClose \/ Watched(c))
                            => c \in toClose' \/ Watched(c)',
         Alone(cur.conn) /\ pcpp[cur.conn].phase = "open" /\ Closable(cur.conn)
           => cur.conn \in toClose' \/ Watched(cur.conn)'
  PROVE  CloseInv'
<1>1. EndIsEnd'
  BY TailEvents DEF CloseInv, EndIsEnd
<1>2. ASSUME NEW c \in Conns, Alone(c), pcpp[c].phase = "open"
      PROVE  c \in toClose' \/ Watched(c)'
  <2>1. CASE c = cur.conn
    BY <1>2, <2>1 DEF CloseInv
  <2>2. CASE c # cur.conn
    <3>1. KeyOf[c] # Key
      BY <1>2, <2>2 DEF Alone, Key
    <3>2. c \in toClose \/ Watched(c)
      BY <1>2, <2>2 DEF CloseInv, Closable, Starting
    <3> QED
      BY <3>1, <3>2
  <2> QED
    BY <2>1, <2>2
<1> QED
  BY <1>1, <1>2 DEF CloseInv, Closable, Alone

LEMMA CallbackClose ==
  ASSUME DropInv, CloseInv,
         OnConnectionStart \/ OnMessageIgnored \/ OnMessageReady \/ OnConnectionEnd
  PROVE  CloseInv'
<1>0. /\ conns \in [Keys -> Entry] /\ KeyOf \in [Conns -> Keys] /\ TypeOK
      /\ events \in Seq(Event) /\ events # <<>> /\ pc = "callbacks"
      /\ UNCHANGED <<pc, cur, pcpp>> /\ events' = Tail(events)
  BY ConnsAssumption DEF DropInv, BufferInv, TypeInv, TypeOK, Callback,
     OnConnectionStart, OnMessageIgnored, OnMessageReady, OnConnectionEnd
<1>1. cur.conn \in Conns /\ Key \in Keys /\ Key = KeyOf[cur.conn]
  BY <1>0, KeyType DEF DropInv, BufferInv, TypeInv, FedConn, Key
<1>2. Head(events) = events[1] /\ 1 \in 1..Len(events)
  BY <1>0, EmptySeq, LenProperties
<1>3. CASE OnConnectionStart
  <2> DEFINE entry == [conns[Key] EXCEPT !.token = cur.conn]
  <2>1. /\ conns' = IF conns[Key].state # "None" THEN [conns EXCEPT ![Key] = entry] ELSE conns
        /\ toClose' = toClose
    BY <1>0, <1>3 DEF OnConnectionStart
  <2>2. entry.state = conns[Key].state /\ entry.token = cur.conn
    BY <1>0, <1>1 DEF Entry
  <2> HIDE DEF entry
  <2>3. /\ \A x \in Keys \ {Key} : conns'[x] = conns[x]
        /\ conns[Key].state = "Wait" => conns'[Key] = entry
    BY <1>0, <1>1, <2>1
  <2>4. ASSUME NEW c \in Conns, KeyOf[c] # Key, c \in toClose \/ Watched(c)
        PROVE  c \in toClose' \/ Watched(c)'
    BY <1>0, <2>1, <2>3, <2>4 DEF Watched
  <2>5. ASSUME pcpp[cur.conn].phase = "open", Closable(cur.conn)
        PROVE  cur.conn \in toClose' \/ Watched(cur.conn)'
    BY <1>0, <1>1, <2>1, <2>2, <2>3, <2>5 DEF Closable, Watched, Starting
  <2> QED
    BY <1>0, <1>1, <2>4, <2>5, CallbackForgetsNone
<1>4. CASE OnMessageIgnored
  <2>1. UNCHANGED <<conns, toClose>> /\ events[1].kind = "message"
    BY <1>2, <1>4 DEF OnMessageIgnored, Callback, table
  <2>2. ASSUME NEW c \in Conns, c \in toClose \/ Watched(c)
        PROVE  c \in toClose' \/ Watched(c)'
    BY <2>1, <2>2 DEF Watched
  <2>3. Closable(cur.conn) /\ pcpp[cur.conn].phase = "open"
          => cur.conn \in toClose \/ Watched(cur.conn)
    BY <2>1 DEF Closable, Starting
  <2> QED
    BY <1>0, <1>1, <2>2, <2>3, CallbackForgetsNone
<1>5. CASE OnMessageReady
  <2> DEFINE e == Appended(conns[Key])
  <2>1. Callback("message") /\ conns[Key].state = "Wait"
    BY <1>5 DEF OnMessageReady
  <2>2. e \in Entry /\ e.state = "Wait" /\ ~e.closed /\ e.token = cur.conn
    BY <1>1, <2>1, AppendedOwn DEF DropInv, OwnInv, EntryOwn
  <2>3. \/ \E host, why : Resolve(Key, e, host, why, <<>>)
        \/ conns' = [conns EXCEPT ![Key] = e] /\ toClose' = toClose
    BY <1>5 DEF OnMessageReady
  <2> HIDE DEF e
  <2>4. CASE \E host, why : Resolve(Key, e, host, why, <<>>)
    <3>1. PICK host, why : Resolve(Key, e, host, why, <<>>)
      BY <2>4
    <3>2. ASSUME NEW c \in Conns
          PROVE  /\ KeyOf[c] # Key /\ (c \in toClose \/ Watched(c)) => c \in toClose' \/ Watched(c)'
                 /\ c = cur.conn => c \in toClose'
      BY <1>0, <1>1, <2>2, <3>1, ResolveClose
    <3> QED
      BY <1>0, <1>1, <3>2, CallbackForgetsNone
  <2>5. CASE conns' = [conns EXCEPT ![Key] = e] /\ toClose' = toClose
    <3>1. conns'[Key] = e /\ \A x \in Keys \ {Key} : conns'[x] = conns[x]
      BY <1>0, <1>1, <2>5
    <3>2. Watched(cur.conn)'
      BY <1>0, <1>1, <2>2, <3>1 DEF Watched
    <3>3. ASSUME NEW c \in Conns, KeyOf[c] # Key, c \in toClose \/ Watched(c)
          PROVE  c \in toClose' \/ Watched(c)'
      BY <1>0, <2>5, <3>1, <3>3 DEF Watched
    <3> QED
      BY <1>0, <1>1, <3>2, <3>3, CallbackForgetsNone
  <2> QED
    BY <2>3, <2>4, <2>5
<1>6. CASE OnConnectionEnd
  <2>1. pcpp[cur.conn].phase # "open"
    BY <1>0, <1>2, <1>6 DEF CloseInv, EndIsEnd, OnConnectionEnd, Callback
  <2> DEFINE e == [conns[Key] EXCEPT !.closed = TRUE]
  <2>2. e \in Entry /\ e.state = conns[Key].state /\ conns[Key].state \in {"None", "Wait", "Block"}
    BY <1>0, <1>1 DEF Entry
  <2>3. \/ Resolve(Key, e, NoHost, "ended", <<>>)
        \/ conns' = [conns EXCEPT ![Key] = e] /\ toClose' = toClose
        \/ conns' = conns /\ toClose' = toClose
    BY <1>6, <2>2 DEF OnConnectionEnd
  <2> HIDE DEF e
  <2>4. ASSUME NEW c \in Conns, KeyOf[c] # Key, c \in toClose \/ Watched(c)
        PROVE  c \in toClose' \/ Watched(c)'
    <3>1. CASE Resolve(Key, e, NoHost, "ended", <<>>)
      BY <1>0, <1>1, <2>2, <2>4, <3>1, ResolveClose
    <3>2. CASE toClose' = toClose /\ (conns' = [conns EXCEPT ![Key] = e] \/ conns' = conns)
      BY <1>0, <1>1, <2>4, <3>2 DEF Watched
    <3> QED
      BY <2>3, <3>1, <3>2
  <2> QED
    BY <1>0, <1>1, <2>1, <2>4, CallbackForgetsNone
<1> QED
  BY <1>3, <1>4, <1>5, <1>6

\* reassemblePacket() opens the fed connection only with its start announced first.
LEMMA ReassemblerClose ==
  ASSUME DropInv, CloseInv, NEW b \in BOOLEAN, FeedReassembler(b)
  PROVE  CloseInv'
<1> DEFINE entry == [conns[Key] EXCEPT !.idle = 0,
                                       !.held = IF cur.seg # 0 THEN Append(@, cur) ELSE @]
<1>0. /\ conns \in [Keys -> Entry] /\ KeyOf \in [Conns -> Keys] /\ BufferInv
      /\ pc = "lookup" /\ pc' = "callbacks" /\ UNCHANGED <<cur, toClose>>
      /\ conns[Key].state = "Wait" /\ Key = KeyOf[cur.conn]
  BY ConnsAssumption DEF DropInv, BufferInv, TypeInv, TypeOK, FeedReassembler, Undecided, Key
<1>1. /\ cur.conn \in Conns /\ Key \in Keys
      /\ Fits(pcpp[cur.conn].phase, pcpp'[cur.conn].phase, events')
         \/ Fits("none", pcpp'[cur.conn].phase, events')
      /\ \A c \in Conns \ {cur.conn} : pcpp'[c].phase = "open" => pcpp[c].phase = "open"
  BY <1>0, FeedsFit
<1>2. conns' = [conns EXCEPT ![Key] = entry]
  BY <1>0, <1>1 DEF FeedReassembler
<1>3. entry.state = conns[Key].state /\ entry.token = conns[Key].token
  BY <1>0, <1>1 DEF Entry
<1> HIDE DEF entry
<1>4. \A x \in Keys : conns'[x].state = conns[x].state /\ conns'[x].token = conns[x].token
  BY <1>0, <1>1, <1>2, <1>3
<1>5. EndIsEnd'
  BY <1>0, <1>1 DEF EndIsEnd, Fits
<1>6. ASSUME NEW c \in Conns, Alone(c), pcpp'[c].phase = "open"
      PROVE  c \in toClose' \/ Watched(c)' \/ Starting(c)'
  <2>1. \/ pcpp[c].phase = "open"
        \/ c = cur.conn /\ events' # <<>> /\ events'[1].kind = "start"
    BY <1>1, <1>6 DEF Fits
  <2>2. CASE pcpp[c].phase = "open"
    <3>1. c \in toClose \/ Watched(c)
      BY <1>0, <1>6, <2>2 DEF CloseInv, Closable, Starting
    <3> QED
      BY <1>0, <1>4, <3>1 DEF Watched
  <2>3. CASE c = cur.conn /\ events' # <<>> /\ events'[1].kind = "start"
    <3>1. (conns[Key].state = "Wait")'
      BY <1>0, <1>1, <1>4 DEF Key
    <3> QED
      BY <1>0, <2>3, <3>1 DEF Starting
  <2> QED
    BY <2>1, <2>2, <2>3
<1> QED
  BY <1>5, <1>6 DEF CloseInv, Closable, Alone

LEMMA EpilogueClose ==
  ASSUME DropInv, CloseInv, Epilogue
  PROVE  CloseInv'
<1>0. /\ conns \in [Keys -> Entry] /\ KeyOf \in [Conns -> Keys] /\ TypeOK
      /\ pc = "callbacks" /\ events = <<>> /\ pc' = "idle" /\ DrainCloses(pcpp)
  BY ConnsAssumption DEF DropInv, BufferInv, TypeInv, TypeOK, Epilogue, Return
<1>1. Key \in Keys
  BY <1>0, KeyType DEF DropInv, BufferInv, TypeInv, FedConn
<1>2. \A x \in Keys : conns'[x].state = conns[x].state /\ conns'[x].token = conns[x].token
  <2> DEFINE entry == [conns[Key] EXCEPT !.held = ReleaseLast(@)]
  <2>1. conns' = conns \/ conns' = [conns EXCEPT ![Key] = entry]
    BY <1>0, <1>1 DEF Epilogue
  <2>2. entry.state = conns[Key].state /\ entry.token = conns[Key].token
    BY <1>0, <1>1 DEF Entry
  <2> HIDE DEF entry
  <2> QED
    BY <1>0, <1>1, <2>1, <2>2
<1>3. \A c \in Conns : pcpp'[c].phase = "open" => pcpp[c].phase = "open" /\ c \notin toClose
  BY <1>0, DrainLeavesOpen
<1>4. ASSUME NEW c \in Conns, Alone(c), pcpp'[c].phase = "open" PROVE Watched(c)'
  <2>1. Watched(c)
    BY <1>0, <1>3, <1>4 DEF CloseInv, Closable, Starting
  <2> QED
    BY <1>0, <1>2, <2>1 DEF Watched
<1> QED
  BY <1>0, <1>4 DEF CloseInv, Closable, Alone, EndIsEnd

LEMMA NextClose == DropInv /\ CloseInv /\ [Next]_vars => CloseInv'
<1> SUFFICES ASSUME DropInv, CloseInv, [Next]_vars PROVE CloseInv'
  OBVIOUS
<1>0. conns \in [Keys -> Entry] /\ KeyOf \in [Conns -> Keys] /\ pcpp \in [Conns -> ReassemblyState]
  BY ConnsAssumption DEF DropInv, BufferInv, TypeInv, TypeOK
<1>1. CASE Elapse
  <2>1. pc = "idle" /\ pc' = "idle" /\ toClose' = toClose
    BY <1>1 DEF Elapse
  <2>2. \A x \in Keys : conns'[x].state = conns[x].state /\ conns'[x].token = conns[x].token
    <3>1. \A e \in Entry : /\ [e EXCEPT !.idle = @ + 1].state = e.state
                           /\ [e EXCEPT !.idle = @ + 1].token = e.token
      BY DEF Entry
    <3> QED
      BY <1>0, <1>1, <3>1 DEF Elapse
  <2>3. \A c \in Conns : pcpp'[c].phase = "open" => pcpp[c].phase = "open"
    <3>1. \A s \in ReassemblyState : Age(s).phase = s.phase
      BY DEF Age, ReassemblyState
    <3> QED
      BY <1>0, <1>1, <3>1 DEF Elapse
  <2>4. \A c \in Conns : Watched(c) => Watched(c)'
    BY <1>0, <2>2 DEF Watched
  <2> QED
    BY <2>1, <2>3, <2>4, NothingForgotten
<1>2. CASE Drain \/ Finished \/ UNCHANGED vars
  <2>1. UNCHANGED <<conns, toClose, pcpp, pc, cur, events>>
    BY <1>2 DEF Drain, Finished, vars, table
  <2> QED
    BY <2>1 DEF CloseInv, Closable, Alone, Watched, Starting, EndIsEnd, Key
<1>3. CASE Tick \/ Flush \/ \E h \in Arrivals : Feed(h)
  BY <1>3, SweepClose, FeedClose
<1>4. CASE Step
  BY <1>4, SweepClose, FeedClose, CallbackClose, ReassemblerClose, EpilogueClose DEF Step
<1> QED
  BY <1>1, <1>2, <1>3, <1>4 DEF Next

LEMMA InitClose == Init => CloseInv
<1> SUFFICES ASSUME Init PROVE CloseInv
  OBVIOUS
<1>1. \A c \in Conns : pcpp[c].phase # "open"
  BY DEF Init, NoState
<1>2. pc = "idle"
  BY DEF Init
<1> QED
  BY <1>1, <1>2 DEF CloseInv, Closable, EndIsEnd

LEMMA CloseInvAlways == Spec => []CloseInv
BY InitDrop, NextDrop, InitClose, NextClose, PTL DEF Spec

\* Whatever keys the others share: after any call of feed(), tick() or flush(), and
\* between the steps of a sweep, a connection with a key of its own that the
\* reassembler has open is queued to be closed or known to an undecided flow.
THEOREM OwnKeyNeverLeaks ==
  Spec => [](pc \in {"idle", "lookup", "sweep", "done"} =>
               \A c \in Conns : Alone(c) /\ pcpp[c].phase = "open" =>
                 c \in toClose \/ Watched(c))
<1>1. CloseInv => (pc \in {"idle", "lookup", "sweep", "done"} =>
                    \A c \in Conns : Alone(c) /\ pcpp[c].phase = "open" =>
                      c \in toClose \/ Watched(c))
  BY DEF CloseInv, Closable, Starting
<1> QED
  BY <1>1, CloseInvAlways, PTL

\* Where every connection has its own key, resolve(), the evictions and the expiries
\* leave no connection open in the reassembler with nobody to close it.
THEOREM NeverLeaks ==
  ASSUME \A c, d \in Conns : KeyOf[c] = KeyOf[d] => c = d
  PROVE  Spec => []NoReassemblerLeak
<1>1. \A c \in Conns : Alone(c)
  BY DEF Alone
<1>2. CloseInv => NoReassemblerLeak
  BY <1>1 DEF CloseInv, Closable, Starting, Watched, NoReassemblerLeak
<1> QED
  BY <1>2, CloseInvAlways, PTL

-----------------------------------------------------------------------------
\* What the reassembler says of a connection it never closed.

\* What is kept back lies ahead; a connection that is not in the map is new, or was
\* closed before.
Keeps(st) ==
  /\ \A i \in st.ooo : i > st.next
  /\ st.next = 0 => st.ooo = {}
  /\ st.phase = "closed" => st.again
  /\ st.phase = "none" /\ ~st.again => st = NoState

\* The messages: n segments from segment f on, one each, and then at most a hole.
Body(evs) == IF evs # <<>> /\ evs[1].kind = "start" THEN Tail(evs) ELSE evs
Holed(ev) == ev.kind = "message" /\ ev.data[1] = Missing
Speaks(evs, f, n) ==
  /\ n \in 0..Len(evs)
  /\ \A i \in 1..n : evs[i] = Message(<<f + i - 1>>)
  /\ n < Len(evs) => Holed(evs[n + 1])

\* How many segments the packet p makes the reassembler deliver: none, or its own and
\* those that were waiting for it.
Delivers(st, p) == p.seg # 0 /\ (st.next = 0 \/ p.seg = st.next)
NextAfter(st, p, n) ==
  IF n # 0 THEN p.seg + n ELSE IF p.seg = 0 /\ p.syn /\ st.next = 0 THEN 1 ELSE st.next

LEMMA AbsorbSpeaks ==
  ASSUME NEW st \in ReassemblyState, Keeps(st), NEW p \in Packet
  PROVE  LET d == Absorb(st, p)
         IN /\ \A i \in d.st.ooo : i > d.st.next
            /\ d.st.next = 0 => d.st.ooo = {}
            /\ d.st.phase = st.phase /\ d.st.again = st.again /\ d.st.fin = st.fin
            /\ \E n \in Nat : /\ Len(d.events) = n /\ (n # 0 <=> Delivers(st, p))
                              /\ \A i \in 1..n : d.events[i] = Message(<<p.seg + i - 1>>)
                              /\ d.st.next = NextAfter(st, p, n)
<1>0. MaxSeg \in Nat /\ Len(<<>>) = 0 /\ st.next \in Nat /\ st.ooo \in SUBSET Nat
  BY MaxSegAssumption, EmptySeq DEF ReassemblyState, Segs
<1>1. CASE Delivers(st, p)
  <2> DEFINE seg == p.seg
             n == 1 + Cardinality(RunFrom(st.ooo, seg + 1))
             evs == [i \in 1..n |-> Message(<<seg + i - 1>>)]
             kept == {i \in st.ooo : i > seg + n}
             after == [st EXCEPT !.next = seg + n, !.ooo = kept]
  <2>1. seg \in 1..MaxSeg
    BY <1>0, <1>1 DEF Packet, Delivers
  <2>2. n \in Nat \ {0}
    BY <1>0, <2>1, RunBound
  <2>3. Absorb(st, p).events = evs /\ Absorb(st, p).st = after
    BY <1>1 DEF Absorb, Deliver, Delivers
  <2>4. evs \in Seq(Event)
    BY <2>3, AbsorbType DEF Outcome
  <2> HIDE DEF n
  <2>5. \A i \in 1..n : evs[i] = Message(<<seg + i - 1>>)
    OBVIOUS
  <2>6. Len(evs) = n
    BY <2>2, <2>4, LenProperties
  <2> HIDE DEF evs
  <2>7. \A i \in kept : i > seg + n
    OBVIOUS
  <2>8. seg + n # 0
    BY <2>1, <2>2
  <2> HIDE DEF kept
  <2>9. /\ after.next = seg + n /\ after.ooo = kept /\ after.phase = st.phase
        /\ after.again = st.again /\ after.fin = st.fin
    BY DEF ReassemblyState
  <2> HIDE DEF after
  <2>10. NextAfter(st, p, n) = seg + n
    BY <2>2 DEF NextAfter
  <2> QED
    BY <1>1, <2>2, <2>3, <2>5, <2>6, <2>7, <2>8, <2>9, <2>10
<1>2. CASE p.seg # 0 /\ ~Delivers(st, p)
  <2> DEFINE after == IF p.seg > st.next THEN [st EXCEPT !.ooo = @ \cup {p.seg}] ELSE st
  <2>1. Absorb(st, p).events = <<>> /\ Absorb(st, p).st = after
    BY <1>2 DEF Absorb, Deliver, Delivers
  <2>2. /\ after.next = st.next /\ after.phase = st.phase
        /\ after.again = st.again /\ after.fin = st.fin
        /\ \A i \in after.ooo : i \in st.ooo \/ (i = p.seg /\ p.seg > st.next)
    BY DEF ReassemblyState
  <2>3. st.next # 0
    BY <1>2 DEF Delivers
  <2> HIDE DEF after
  <2>4. NextAfter(st, p, 0) = st.next
    BY <1>2 DEF NextAfter
  <2> QED
    BY <1>0, <1>2, <2>1, <2>2, <2>3, <2>4 DEF Keeps
<1>3. CASE p.seg = 0
  <2> DEFINE after == IF p.syn /\ st.next = 0 THEN [st EXCEPT !.next = 1] ELSE st
  <2>1. Absorb(st, p).events = <<>> /\ Absorb(st, p).st = after
    BY <1>3 DEF Absorb
  <2>2. /\ after.next = IF p.syn /\ st.next = 0 THEN 1 ELSE st.next
        /\ after.phase = st.phase /\ after.again = st.again /\ after.fin = st.fin
        /\ after.ooo = st.ooo
    BY DEF ReassemblyState
  <2> HIDE DEF after
  <2>3. NextAfter(st, p, 0) = after.next
    BY <1>3, <2>2 DEF NextAfter
  <2> QED
    BY <1>0, <1>3, <2>1, <2>2, <2>3 DEF Keeps, Delivers
<1> QED
  BY <1>1, <1>2, <1>3

\* What was kept back comes out with the hole before it marked.
LEMMA FinishSpeaks ==
  ASSUME NEW st \in ReassemblyState, \A i \in st.ooo : i > st.next, st.phase = "open",
         NEW rst \in BOOLEAN, NEW rest \in Ascending(st.ooo)
  PROVE  /\ Keeps(Finish(st, rst, rest).st) /\ Finish(st, rst, rest).st.fin = TRUE
         /\ st.again => Finish(st, rst, rest).st.again
         /\ ~Finish(st, rst, rest).st.again =>
              /\ Finish(st, rst, rest).st.phase = "open"
              /\ Finish(st, rst, rest).events # <<>> => Holed(Finish(st, rst, rest).events[1])
<1> DEFINE Expected(i) == IF i = 1 THEN st.next ELSE rest[i - 1] + 1
           Data(i) == IF rest[i] = Expected(i) THEN <<rest[i]>> ELSE <<Missing, rest[i]>>
           evs == [i \in 1..Len(rest) |-> Message(Data(i))]
           last == IF rst THEN <<End>> ELSE <<>>
           after == [st EXCEPT !.ooo = {}, !.fin = TRUE,
                               !.phase = IF rst THEN "closed" ELSE @, !.again = @ \/ rst]
<1>0. rest \in Seq(Segs) /\ st.ooo \in SUBSET Segs /\ st.next \in Nat
  BY AscendingType, MaxSegAssumption DEF ReassemblyState
<1>1. Finish(st, rst, rest).st = after /\ Finish(st, rst, rest).events = evs \o last
  BY DEF Finish
<1>2. /\ after.phase = (IF rst THEN "closed" ELSE st.phase) /\ after.ooo = {}
      /\ after.next = st.next /\ after.fin = TRUE /\ (after.again <=> st.again \/ rst)
  BY DEF ReassemblyState
<1>3. ASSUME ~rst, evs \o last # <<>> PROVE Holed((evs \o last)[1])
  <2>1. Len(rest) \in Nat /\ DOMAIN rest = 1..Len(rest)
    BY <1>0, LenProperties
  <2>2. evs \o last = evs
    <3>1. evs \in Seq({evs[i] : i \in 1..Len(rest)})
      <4>1. evs \in [1..Len(rest) -> {evs[i] : i \in 1..Len(rest)}]
        OBVIOUS
      <4> HIDE DEF evs
      <4> QED
        BY <2>1, <4>1, FunIsSeq
    <3>2. last = <<>>
      BY <1>3
    <3> HIDE DEF evs, last
    <3> QED
      BY <3>1, <3>2, ConcatEmptySeq
  <2>3. 1 \in 1..Len(rest)
    <3>1. CASE Len(rest) = 0
      <4>1. evs = <<>>
        BY <3>1
      <4> QED
        BY <1>3, <2>2, <4>1
    <3> QED
      BY <2>1, <3>1
  <2>4. rest[1] \in st.ooo
    BY <2>1, <2>3 DEF Ascending
  <2>5. evs[1] = Message(<<Missing, rest[1]>>)
    <3>1. rest[1] # st.next
      BY <1>0, <2>4, MaxSegAssumption DEF Segs
    <3> QED
      BY <2>3, <3>1
  <2>6. <<Missing, rest[1]>>[1] = Missing
    OBVIOUS
  <2> HIDE DEF evs, last
  <2> QED
    BY <2>2, <2>5, <2>6, EventKinds DEF Holed
<1> HIDE DEF evs, last, after
<1>4. Keeps(after)
  BY <1>2 DEF Keeps
<1>5. ~after.again => ~rst /\ after.phase = "open"
  BY <1>2
<1> QED
  BY <1>1, <1>2, <1>3, <1>4, <1>5

LEMMA EventsAfter ==
  ASSUME NEW s \in Seq(Event), NEW t \in Seq(Event)
  PROVE  /\ Len(s \o t) = Len(s) + Len(t) /\ Len(t) \in Nat
         /\ \A i \in 1..Len(s) : (s \o t)[i] = s[i]
         /\ Len(t) # 0 => (s \o t)[Len(s) + 1] = t[1]
<1> DEFINE u == s \o t
<1>1. /\ Len(u) = Len(s) + Len(t) /\ Len(s) \in Nat /\ Len(t) \in Nat
      /\ \A i \in 1..(Len(s) + Len(t)) : u[i] = IF i <= Len(s) THEN s[i] ELSE t[i - Len(s)]
  BY ConcatProperties
<1> HIDE DEF u
<1>2. Len(t) # 0 => u[Len(s) + 1] = t[1]
  BY <1>1
<1> QED
  BY <1>1, <1>2 DEF u

\* What is heard of packet p: the segments it delivers and then, if the client ended,
\* a hole.
Heard(st, p, after, body) ==
  \E n \in Nat :
    /\ Speaks(body, p.seg, n) /\ (n # 0 <=> ~st.fin /\ Delivers(st, p))
    /\ after.fin \/ (Len(body) = n /\ after.next = NextAfter(st, p, n))
    /\ st.fin => after.fin

LEMMA ProcessSpeaks ==
  ASSUME NEW st \in ReassemblyState, st.phase = "open", Keeps(st), NEW p \in Packet,
         NEW r \in Process(st, p)
  PROVE  /\ Keeps(r.st) /\ (st.again => r.st.again)
         /\ ~r.st.again => r.st.phase = "open" /\ Heard(st, p, r.st, r.events)
<1>0. Len(<<>>) = 0 /\ \A f : Speaks(<<>>, f, 0)
  BY EmptySeq DEF Speaks
<1>1. CASE st.fin
  <2> DEFINE after == [st EXCEPT !.phase = "closed", !.again = TRUE]
  <2>1. /\ after.phase = "closed" /\ after.again /\ after.next = st.next /\ after.ooo = st.ooo
    BY DEF ReassemblyState
  <2>2. r = [st |-> after, events |-> <<End>>] \/ r = [st |-> st, events |-> <<>>]
    BY <1>1 DEF Process
  <2> HIDE DEF after
  <2>3. CASE r = [st |-> after, events |-> <<End>>]
    BY <2>1, <2>3 DEF Keeps
  <2>4. CASE r = [st |-> st, events |-> <<>>]
    BY <1>0, <1>1, <2>4 DEF Heard
  <2> QED
    BY <2>2, <2>3, <2>4
<1>2. CASE ~st.fin
  <2> DEFINE d == Absorb(st, p)
  <2>1. /\ \A i \in d.st.ooo : i > d.st.next
        /\ d.st.next = 0 => d.st.ooo = {}
        /\ d.st.phase = "open" /\ d.st.again = st.again /\ d.st.fin = FALSE
    BY <1>2, AbsorbSpeaks DEF ReassemblyState
  <2>2. PICK n \in Nat : /\ Len(d.events) = n /\ (n # 0 <=> Delivers(st, p))
                         /\ \A i \in 1..n : d.events[i] = Message(<<p.seg + i - 1>>)
                         /\ d.st.next = NextAfter(st, p, n)
    BY AbsorbSpeaks
  <2>3. d.st \in ReassemblyState /\ d.events \in Seq(Event)
    BY AbsorbType DEF Outcome
  <2>4. CASE ~(p.fin \/ p.rst)
    <3>1. r = d
      BY <1>2, <2>4 DEF Process
    <3> HIDE DEF d
    <3>2. Speaks(d.events, p.seg, n)
      BY <2>2 DEF Speaks
    <3>3. Keeps(d.st)
      BY <2>1 DEF Keeps
    <3> QED
      BY <1>2, <2>1, <2>2, <3>1, <3>2, <3>3 DEF Heard
  <2>5. CASE p.fin \/ p.rst
    <3>1. PICK rest \in Ascending(d.st.ooo) :
            r = [st |-> Finish(d.st, p.rst, rest).st,
                 events |-> d.events \o Finish(d.st, p.rst, rest).events]
      BY <1>2, <2>5 DEF Process, AbsorbAndFinish
    <3> HIDE DEF d
    <3>2. p.rst \in BOOLEAN /\ rest \in Seq(Segs)
      BY <2>3, AscendingType DEF Packet, ReassemblyState
    <3> DEFINE f == Finish(d.st, p.rst, rest)
               u == d.events \o f.events
    <3>3. /\ Keeps(f.st) /\ f.st.fin = TRUE /\ (st.again => f.st.again)
          /\ ~f.st.again => /\ f.st.phase = "open"
                            /\ f.events # <<>> => Holed(f.events[1])
      BY <2>1, <2>3, <3>2, FinishSpeaks
    <3>4. f.events \in Seq(Event)
      BY <2>3, <3>2, FinishType DEF Outcome
    <3>5. r.st = f.st /\ r.events = u
      BY <3>1
    <3> HIDE DEF f
    <3>6. Keeps(r.st) /\ (st.again => r.st.again)
      BY <3>3, <3>5
    <3>7. ASSUME ~r.st.again PROVE Speaks(u, p.seg, n)
      <4>1. f.events # <<>> => Holed(f.events[1])
        BY <3>3, <3>5, <3>7
      <4>2. /\ Len(u) = n + Len(f.events) /\ Len(f.events) \in Nat
            /\ \A i \in 1..n : u[i] = d.events[i]
            /\ Len(f.events) # 0 => u[n + 1] = f.events[1]
        BY <2>2, <2>3, <3>4, EventsAfter
      <4> HIDE DEF u
      <4>3. ASSUME n < Len(u) PROVE Holed(u[n + 1])
        <5>1. Len(f.events) # 0
          BY <4>2, <4>3
        <5>2. f.events # <<>>
          BY <5>1, EmptySeq
        <5> QED
          BY <4>1, <4>2, <5>1, <5>2
      <4>4. \A i \in 1..n : u[i] = Message(<<p.seg + i - 1>>)
        BY <2>2, <4>2
      <4>5. n \in 0..Len(u)
        BY <4>2
      <4> QED
        BY <4>3, <4>4, <4>5 DEF Speaks
    <3> HIDE DEF u
    <3>8. ASSUME ~r.st.again PROVE r.st.phase = "open" /\ r.st.fin = TRUE
      BY <3>3, <3>5, <3>8
    <3> QED
      BY <1>2, <2>2, <3>5, <3>6, <3>7, <3>8 DEF Heard
  <2> QED
    BY <2>4, <2>5
<1> QED
  BY <1>1, <1>2

\* One call of reassemblePacket(), on a connection that is not closed afterwards.
LEMMA ReassembleSpeaks ==
  ASSUME NEW st \in ReassemblyState, Keeps(st), NEW p \in Packet, NEW r \in Reassemble(st, p)
  PROVE  /\ Keeps(r.st) /\ (st.again => r.st.again)
         /\ ~r.st.again => r.st.phase = "open" /\ Heard(st, p, r.st, Body(r.events))
<1>1. CASE st.phase = "none"
  <2> DEFINE open == [st EXCEPT !.phase = "open"]
  <2>1. /\ open \in ReassemblyState /\ open.phase = "open" /\ open.again = st.again
        /\ open.next = st.next /\ open.ooo = st.ooo /\ open.fin = st.fin
    BY DEF ReassemblyState
  <2>2. PICK q \in Process(open, p) : r = [st |-> q.st, events |-> <<Start>> \o q.events]
    BY <1>1 DEF Reassemble
  <2> HIDE DEF open
  <2>3. Keeps(open)
    BY <2>1 DEF Keeps
  <2>4. /\ Keeps(q.st) /\ (open.again => q.st.again)
        /\ ~q.st.again => q.st.phase = "open" /\ Heard(open, p, q.st, q.events)
    BY <2>1, <2>3, ProcessSpeaks
  <2>5. q.events \in Seq(Event) /\ <<Start>> \in Seq(Event)
    BY <2>1, ProcessType, EventType, SingleIsSeq DEF Outcome
  <2> DEFINE u == <<Start>> \o q.events
  <2>6. u # <<>> /\ u[1] = Start /\ Tail(u) = q.events
    BY <2>5
  <2> HIDE DEF u
  <2>7. Body(u) = q.events
    BY <2>6, EventKinds DEF Body
  <2>8. Heard(open, p, q.st, q.events) => Heard(st, p, q.st, q.events)
    BY <2>1 DEF Heard, Delivers, NextAfter
  <2> QED
    BY <2>1, <2>2, <2>4, <2>7, <2>8 DEF u
<1>2. CASE st.phase = "open"
  <2>1. r \in Process(st, p)
    BY <1>2 DEF Reassemble
  <2>2. /\ Keeps(r.st) /\ (st.again => r.st.again)
        /\ ~r.st.again => r.st.phase = "open" /\ Heard(st, p, r.st, r.events)
    BY <1>2, <2>1, ProcessSpeaks
  <2>3. r.events = <<>> \/ r.events[1].kind # "start"
    <3>1. r.events \in Seq(Event)
      BY <1>2, <2>1, ProcessType DEF Outcome
    <3>2. r.events # <<>> => 1 \in 1..Len(r.events)
      BY <3>1, EmptySeq, LenProperties
    <3> QED
      BY <1>2, <2>1, <3>2, ProcessFits
  <2> QED
    BY <2>2, <2>3 DEF Body
<1>3. CASE st.phase = "closed"
  BY <1>3 DEF Reassemble, Keeps
<1> QED
  BY <1>1, <1>2, <1>3 DEF ReassemblyState

-----------------------------------------------------------------------------
\* What the reassembler does to a connection while another packet, or none, is fed: it
\* is left as it was, or closed.

Lasts(s, t) ==
  /\ s.again => t.again
  /\ ~t.again => t.phase = s.phase /\ t.next = s.next /\ t.fin = s.fin
KeepsInv == \A c \in Conns : Keeps(pcpp[c])

LEMMA MapKeeps ==
  ASSUME NEW st \in ReassemblyState, Keeps(st)
  PROVE  /\ Keeps(Purge(st)) /\ Lasts(st, Purge(st))
         /\ Keeps(CloseConnection(st)) /\ Lasts(st, CloseConnection(st))
         /\ Keeps(Age(st)) /\ Lasts(st, Age(st))
         /\ (~Purge(st).again => Purge(st) = st) /\ Lasts(st, st)
<1>1. Lasts(st, st)
  BY DEF Lasts
<1>2. Keeps(Purge(st)) /\ Lasts(st, Purge(st)) /\ (~Purge(st).again => Purge(st) = st)
  <2>1. CASE st.phase = "closed" /\ st.age >= ClosedDelay
    <3> DEFINE t == [NoState EXCEPT !.again = TRUE]
    <3>1. Purge(st) = t
      BY <2>1 DEF Purge
    <3>2. t.again /\ t.ooo = {} /\ t.phase = "none"
      BY DEF NoState
    <3> HIDE DEF t
    <3> QED
      BY <3>1, <3>2 DEF Keeps, Lasts
  <2>2. CASE ~(st.phase = "closed" /\ st.age >= ClosedDelay)
    BY <1>1, <2>2 DEF Purge
  <2> QED
    BY <2>1, <2>2
<1>3. Keeps(CloseConnection(st)) /\ Lasts(st, CloseConnection(st))
  <2>1. CASE st.phase = "open"
    <3> DEFINE t == [st EXCEPT !.phase = "closed", !.ooo = {}, !.again = TRUE]
    <3>1. CloseConnection(st) = t
      BY <2>1 DEF CloseConnection
    <3>2. t.again /\ t.ooo = {} /\ t.phase = "closed"
      BY DEF ReassemblyState
    <3> HIDE DEF t
    <3> QED
      BY <3>1, <3>2 DEF Keeps, Lasts
  <2>2. CASE st.phase # "open"
    BY <1>1, <2>2 DEF CloseConnection
  <2> QED
    BY <2>1, <2>2
<1>4. Keeps(Age(st)) /\ Lasts(st, Age(st))
  <2>1. CASE st.phase = "closed" /\ st.age < ClosedDelay
    <3> DEFINE t == [st EXCEPT !.age = @ + 1]
    <3>1. Age(st) = t
      BY <2>1 DEF Age
    <3>2. /\ t.again = st.again /\ t.ooo = st.ooo /\ t.phase = st.phase /\ t.next = st.next
          /\ t.fin = st.fin
      BY DEF ReassemblyState
    <3> HIDE DEF t
    <3> QED
      BY <2>1, <3>1, <3>2 DEF Keeps, Lasts
  <2>2. CASE ~(st.phase = "closed" /\ st.age < ClosedDelay)
    BY <1>1, <2>2 DEF Age
  <2> QED
    BY <2>1, <2>2
<1> QED
  BY <1>1, <1>2, <1>3, <1>4

\* drain_closes(), after a purge or without one.
LEMMA DrainKeeps ==
  ASSUME TypeOK, KeepsInv, NEW b \in BOOLEAN,
         DrainCloses([c \in Conns |-> IF b THEN Purge(pcpp[c]) ELSE pcpp[c]])
  PROVE  /\ KeepsInv' /\ toClose' = {}
         /\ \A c \in Conns : /\ Lasts(pcpp[c], pcpp'[c])
                             /\ c \in toClose /\ pcpp[c].phase = "open" => pcpp'[c].again
<1> DEFINE map == [c \in Conns |-> IF b THEN Purge(pcpp[c]) ELSE pcpp[c]]
<1>1. \A c \in Conns : pcpp'[c] = IF c \in toClose THEN CloseConnection(map[c]) ELSE map[c]
  BY DEF DrainCloses
<1>2. ASSUME NEW c \in Conns
      PROVE  /\ Keeps(pcpp'[c]) /\ Lasts(pcpp[c], pcpp'[c])
             /\ c \in toClose /\ pcpp[c].phase = "open" => pcpp'[c].again
  <2>1. pcpp[c] \in ReassemblyState /\ Keeps(pcpp[c])
    BY DEF TypeOK, KeepsInv
  <2>2. /\ map[c] \in ReassemblyState /\ Keeps(map[c]) /\ Lasts(pcpp[c], map[c])
        /\ pcpp[c].phase = "open" => map[c].phase = "open"
    BY <2>1, MapKeeps, MapType DEF Purge
  <2> HIDE DEF map
  <2>3. Keeps(CloseConnection(map[c])) /\ Lasts(map[c], CloseConnection(map[c]))
    BY <2>2, MapKeeps
  <2>4. Lasts(pcpp[c], CloseConnection(map[c]))
    BY <2>2, <2>3 DEF Lasts
  <2>5. map[c].phase = "open" => CloseConnection(map[c]).again
    BY <2>2 DEF CloseConnection, ReassemblyState
  <2> QED
    BY <1>1, <2>2, <2>3, <2>4, <2>5
<1> QED
  BY <1>2 DEF DrainCloses, KeepsInv

\* reassemblePacket() on the packet fed.
LEMMA FeedKeeps ==
  ASSUME TypeOK, KeepsInv, NEW b \in BOOLEAN, FeedReassembler(b)
  PROVE  /\ KeepsInv' /\ cur.conn \in Conns
         /\ \A c \in Conns \ {cur.conn} : Lasts(pcpp[c], pcpp'[c])
         /\ pcpp[cur.conn].again => pcpp'[cur.conn].again
         /\ ~pcpp'[cur.conn].again =>
              /\ pcpp'[cur.conn].phase = "open"
              /\ Heard(pcpp[cur.conn], cur, pcpp'[cur.conn], Body(events'))
<1> DEFINE map == [c \in Conns |-> IF b THEN Purge(pcpp[c]) ELSE pcpp[c]]
<1>0. pcpp \in [Conns -> ReassemblyState] /\ cur \in Packet /\ cur.conn \in Conns
  BY KeyType DEF TypeOK, FeedReassembler, Undecided
<1>1. PICK r \in Reassemble(map[cur.conn], cur) :
        pcpp' = [map EXCEPT ![cur.conn] = r.st] /\ events' = r.events
  BY DEF FeedReassembler
<1>2. \A c \in Conns : /\ map[c] \in ReassemblyState /\ Keeps(map[c]) /\ Lasts(pcpp[c], map[c])
                       /\ ~map[c].again => map[c] = pcpp[c]
  BY <1>0, MapKeeps, MapType DEF KeepsInv
<1>3. DOMAIN map = Conns
  OBVIOUS
<1> HIDE DEF map
<1>4. /\ Keeps(r.st) /\ (map[cur.conn].again => r.st.again)
      /\ ~r.st.again => /\ r.st.phase = "open"
                        /\ Heard(map[cur.conn], cur, r.st, Body(r.events))
  BY <1>0, <1>2, ReassembleSpeaks
<1>5. /\ pcpp'[cur.conn] = r.st
      /\ \A c \in Conns \ {cur.conn} : pcpp'[c] = map[c]
  BY <1>0, <1>1, <1>3
<1>6. pcpp[cur.conn].again => map[cur.conn].again
  BY <1>0, <1>2 DEF Lasts
<1> QED
  BY <1>0, <1>1, <1>2, <1>4, <1>5, <1>6 DEF KeepsInv

\* Every other step.
LEMMA StepKeeps ==
  ASSUME TypeOK, KeepsInv, [Next]_vars, ~\E b \in BOOLEAN : FeedReassembler(b)
  PROVE  KeepsInv' /\ \A c \in Conns : Lasts(pcpp[c], pcpp'[c])
<1>1. CASE SweepEnd
  <2>1. DrainCloses([c \in Conns |-> IF TRUE THEN Purge(pcpp[c]) ELSE pcpp[c]])
    BY <1>1 DEF SweepEnd
  <2> QED
    BY <2>1, DrainKeeps
<1>2. CASE FlushEnd \/ Epilogue
  <2>1. pcpp = [c \in Conns |-> IF FALSE THEN Purge(pcpp[c]) ELSE pcpp[c]]
    BY DEF TypeOK
  <2>2. DrainCloses([c \in Conns |-> IF FALSE THEN Purge(pcpp[c]) ELSE pcpp[c]])
    BY <1>2, <2>1 DEF FlushEnd, Epilogue
  <2> QED
    BY <2>2, DrainKeeps
<1>3. CASE Elapse
  <2>1. \A c \in Conns : pcpp[c] \in ReassemblyState /\ pcpp'[c] = Age(pcpp[c])
    BY <1>3 DEF TypeOK, Elapse
  <2> QED
    BY <2>1, MapKeeps DEF KeepsInv
<1>4. CASE pcpp' = pcpp
  BY <1>4 DEF KeepsInv, Lasts
<1>5. \/ SweepEnd \/ FlushEnd \/ Epilogue \/ Elapse \/ pcpp' = pcpp
  BY DEF Next, Step, Feed, Tick, Flush, Drain, Finished, vars,
     SweepBlocked, SweepWaiting, FlushOne, AllowUndissected,
     DropBlocked, AllowUntracked, AdmitWithRoom, AdmitByEviction, AllowAtCap, AllowFlooded,
     AllowBareAck, OnConnectionStart, OnMessageIgnored, OnMessageReady, OnConnectionEnd
<1> QED
  BY <1>1, <1>2, <1>3, <1>4, <1>5

LEMMA NextKeeps ==
  ASSUME TypeOK, KeepsInv, [Next]_vars
  PROVE  KeepsInv' /\ \A c \in Conns : pcpp[c].again => pcpp'[c].again
BY StepKeeps, FeedKeeps DEF Lasts

-----------------------------------------------------------------------------
\* A flow's token is a connection with its key.

Named(e, k) == e.token # NoConn => KeyOf[e.token] = k
TokenInv == \A k \in Keys : Named(conns[k], k)

LEMMA ConstNamed == \A k : Named(Absent, k) /\ Named(NewConn, k)
BY DEF Named, Absent, NewConn

LEMMA ResolveNamed ==
  ASSUME conns \in [Keys -> Entry], TokenInv, NEW k \in Keys, NEW c \in Entry, Named(c, k),
         NEW host, NEW why, NEW more, Resolve(k, c, host, why, more)
  PROVE  TokenInv'
<1>1. \A x \in Keys \ {k} : Named(conns'[x], x)
  BY ResolveEntries, ConstNamed DEF TokenInv
<1>2. CASE Decide(host) = "BLOCK"
  <2> DEFINE entry == [c EXCEPT !.state = "Block", !.held = <<>>, !.stream = <<>>]
  <2>1. conns'[k] = entry
    BY <1>2 DEF Resolve, RememberBlocked
  <2>2. entry.token = c.token
    BY DEF Entry
  <2> HIDE DEF entry
  <2>3. Named(conns'[k], k)
    BY <2>1, <2>2 DEF Named
  <2> QED
    BY <1>1, <2>3 DEF TokenInv
<1>3. CASE Decide(host) # "BLOCK"
  <2>1. Named(conns'[k], k)
    BY <1>3, ConstNamed DEF Resolve
  <2> QED
    BY <1>1, <2>1 DEF TokenInv
<1> QED
  BY <1>2, <1>3

LEMMA SameNamed ==
  ASSUME TokenInv, \A x \in Keys : conns'[x].token = conns[x].token
  PROVE  TokenInv'
BY DEF TokenInv, Named

LEMMA SweepNamed ==
  ASSUME TypeOK, TokenInv,
         \/ SweepEnd \/ FlushEnd \/ Elapse
         \/ \E k \in Keys : SweepBlocked(k) \/ SweepWaiting(k) \/ FlushOne(k)
  PROVE  TokenInv'
<1>0. conns \in [Keys -> Entry]
  BY DEF TypeOK
<1>1. CASE SweepEnd
  BY <1>1 DEF SweepEnd, TokenInv
<1>2. CASE FlushEnd
  BY <1>2, ConstNamed DEF FlushEnd, TokenInv
<1>3. CASE Elapse
  <2>1. \A e \in Entry : [e EXCEPT !.idle = @ + 1].token = e.token
    BY DEF Entry
  <2> QED
    BY <1>0, <1>3, <2>1, SameNamed DEF Elapse
<1>4. ASSUME NEW k \in Keys, SweepBlocked(k) PROVE TokenInv'
  BY <1>0, <1>4, ConstNamed DEF SweepBlocked, TokenInv
<1>5. ASSUME NEW k \in Keys, SweepWaiting(k) \/ FlushOne(k) PROVE TokenInv'
  <2>1. \E why : Resolve(k, conns[k], NoHost, why, <<>>)
    BY <1>5 DEF SweepWaiting, FlushOne
  <2>2. conns[k] \in Entry /\ Named(conns[k], k)
    BY <1>0 DEF TokenInv
  <2> QED
    BY <1>0, <2>1, <2>2, ResolveNamed
<1> QED
  BY <1>1, <1>2, <1>3, <1>4, <1>5

LEMMA FeedNamed ==
  ASSUME TypeOK, TokenInv,
         \/ DropBlocked \/ AdmitWithRoom \/ AdmitByEviction
         \/ AllowFlooded \/ AllowBareAck
         \/ \E b \in BOOLEAN : FeedReassembler(b)
  PROVE  TokenInv'
<1>0. conns \in [Keys -> Entry] /\ Key \in Keys
  BY KeyType DEF TypeOK, DropBlocked, AdmitWithRoom, AdmitByEviction, AllowFlooded,
     AllowBareAck, FeedReassembler, Untracked, Undecided
<1>1. CASE DropBlocked \/ AllowBareAck
  <2> DEFINE entry == [conns[Key] EXCEPT !.idle = 0]
  <2>1. conns' = [conns EXCEPT ![Key] = entry]
    BY <1>0, <1>1 DEF DropBlocked, AllowBareAck
  <2>2. entry.token = conns[Key].token
    BY <1>0 DEF Entry
  <2> HIDE DEF entry
  <2> QED
    BY <1>0, <2>1, <2>2, SameNamed
<1>2. CASE AdmitWithRoom
  BY <1>0, <1>2, ConstNamed DEF AdmitWithRoom, TokenInv
<1>3. CASE AdmitByEviction
  <2>1. PICK victim : conns' = [conns EXCEPT ![victim] = Absent, ![Key] = NewConn]
    BY <1>3 DEF AdmitByEviction
  <2>2. \A x \in Keys : conns'[x] \in {Absent, NewConn, conns[x]}
    BY <1>0, <2>1
  <2> QED
    BY <2>2, ConstNamed DEF TokenInv
<1>4. CASE AllowFlooded
  <2>1. \E more : Resolve(Key, conns[Key], NoHost, "flood", more)
    BY <1>4 DEF AllowFlooded
  <2>2. conns[Key] \in Entry /\ Named(conns[Key], Key)
    BY <1>0 DEF TokenInv
  <2> QED
    BY <1>0, <2>1, <2>2, ResolveNamed
<1>5. ASSUME NEW b \in BOOLEAN, FeedReassembler(b) PROVE TokenInv'
  <2> DEFINE entry == [conns[Key] EXCEPT !.idle = 0,
                                         !.held = IF cur.seg # 0 THEN Append(@, cur) ELSE @]
  <2>1. conns' = [conns EXCEPT ![Key] = entry]
    BY <1>0, <1>5 DEF FeedReassembler
  <2>2. entry.token = conns[Key].token
    BY <1>0 DEF Entry
  <2> HIDE DEF entry
  <2> QED
    BY <1>0, <2>1, <2>2, SameNamed
<1> QED
  BY <1>1, <1>2, <1>3, <1>4, <1>5

LEMMA CallbackNamed ==
  ASSUME DropInv, TokenInv,
         OnConnectionStart \/ OnMessageReady \/ OnConnectionEnd \/ Epilogue
  PROVE  TokenInv'
<1>0. /\ conns \in [Keys -> Entry] /\ TypeOK /\ Key \in Keys /\ cur.conn \in Conns
      /\ KeyOf[cur.conn] = Key
  BY KeyType DEF DropInv, BufferInv, TypeInv, FedConn, TypeOK, OnConnectionStart,
     OnMessageReady, OnConnectionEnd, Epilogue, Callback, Key
<1>1. CASE OnConnectionStart
  <2> DEFINE entry == [conns[Key] EXCEPT !.token = cur.conn]
  <2>1. conns' = conns \/ conns' = [conns EXCEPT ![Key] = entry]
    BY <1>0, <1>1 DEF OnConnectionStart
  <2>2. entry.token = cur.conn
    BY <1>0 DEF Entry
  <2> HIDE DEF entry
  <2>3. Named(entry, Key)
    BY <1>0, <2>2 DEF Named
  <2> QED
    BY <1>0, <2>1, <2>3 DEF TokenInv
<1>2. CASE OnMessageReady
  <2> DEFINE e == Appended(conns[Key])
  <2>1. Callback("message")
    BY <1>2 DEF OnMessageReady
  <2>2. e \in Entry /\ e.token = cur.conn
    BY <1>0, <2>1, AppendedOwn
  <2>3. \/ \E host, why : Resolve(Key, e, host, why, <<>>)
        \/ conns' = [conns EXCEPT ![Key] = e]
    BY <1>2 DEF OnMessageReady
  <2> HIDE DEF e
  <2>4. Named(e, Key)
    BY <1>0, <2>2 DEF Named
  <2>5. CASE \E host, why : Resolve(Key, e, host, why, <<>>)
    BY <1>0, <2>2, <2>4, <2>5, ResolveNamed
  <2>6. CASE conns' = [conns EXCEPT ![Key] = e]
    BY <1>0, <2>4, <2>6 DEF TokenInv
  <2> QED
    BY <2>3, <2>5, <2>6
<1>3. CASE OnConnectionEnd
  <2> DEFINE e == [conns[Key] EXCEPT !.closed = TRUE]
  <2>1. e \in Entry /\ e.token = conns[Key].token /\ e.state \in {"None", "Wait", "Block"}
    BY <1>0 DEF Entry
  <2>2. \/ Resolve(Key, e, NoHost, "ended", <<>>)
        \/ conns' = [conns EXCEPT ![Key] = e] \/ conns' = conns
    BY <1>3, <2>1 DEF OnConnectionEnd
  <2> HIDE DEF e
  <2>3. Named(e, Key)
    BY <1>0, <2>1 DEF TokenInv, Named
  <2>4. CASE Resolve(Key, e, NoHost, "ended", <<>>)
    BY <1>0, <2>1, <2>3, <2>4, ResolveNamed
  <2> QED
    BY <1>0, <2>2, <2>3, <2>4 DEF TokenInv
<1>4. CASE Epilogue
  <2> DEFINE entry == [conns[Key] EXCEPT !.held = ReleaseLast(@)]
  <2>1. conns' = conns \/ conns' = [conns EXCEPT ![Key] = entry]
    BY <1>0, <1>4 DEF Epilogue
  <2>2. entry.token = conns[Key].token
    BY <1>0 DEF Entry
  <2> HIDE DEF entry
  <2> QED
    BY <1>0, <2>1, <2>2, SameNamed
<1> QED
  BY <1>1, <1>2, <1>3, <1>4

LEMMA NextNamed == DropInv /\ TokenInv /\ [Next]_vars => TokenInv'
<1> SUFFICES ASSUME DropInv, TokenInv, [Next]_vars PROVE TokenInv'
  OBVIOUS
<1>0. TypeOK
  BY DEF DropInv, BufferInv, TypeInv
<1>1. CASE Elapse
  BY <1>0, <1>1, SweepNamed
<1>2. CASE \/ Tick \/ Flush \/ Drain \/ Finished \/ UNCHANGED vars \/ \E h \in Arrivals : Feed(h)
           \/ AllowUndissected \/ AllowUntracked \/ AllowAtCap \/ OnMessageIgnored
  <2>1. conns' = conns
    BY <1>2 DEF Tick, Flush, Drain, Finished, vars, Feed, table, AllowUndissected, AllowUntracked,
       AllowAtCap, OnMessageIgnored
  <2> QED
    BY <2>1 DEF TokenInv
<1> QED
  BY <1>0, <1>1, <1>2, SweepNamed, FeedNamed, CallbackNamed DEF Next, Step

-----------------------------------------------------------------------------
\* The data a SYN carries is the first of the connection's.
SynFirst == \A h \in Arrivals : h.syn => h.seg \in {0, 1}
CurSyn == cur.syn => cur.seg \in {0, 1}

LEMMA NextCurSyn ==
  ASSUME SynFirst, CurSyn, [Next]_vars
  PROVE  CurSyn'
<1>1. ASSUME NEW h \in Arrivals, Feed(h) PROVE CurSyn'
  <2>1. cur'.syn = h.syn /\ cur'.seg = h.seg
    BY <1>1 DEF Feed, Arrived
  <2> QED
    BY <2>1 DEF SynFirst, CurSyn
<1>2. CASE cur' = cur \/ cur' = NoPacket
  BY <1>2 DEF CurSyn, NoPacket
<1>3. (\E h \in Arrivals : Feed(h)) \/ cur' = cur \/ cur' = NoPacket
  BY DEF Next, Step, Tick, Flush, Drain, Elapse, Finished, vars,
     SweepBlocked, SweepWaiting, FlushOne, SweepEnd, FlushEnd, AllowUndissected,
     DropBlocked, AllowUntracked, AdmitWithRoom, AdmitByEviction, AllowAtCap, AllowFlooded,
     AllowBareAck, FeedReassembler, OnConnectionStart, OnMessageIgnored, OnMessageReady,
     OnConnectionEnd, Epilogue, ReturnWith, Return
<1> QED
  BY <1>1, <1>2, <1>3

-----------------------------------------------------------------------------
\* What an undecided flow has read of a connection that was never closed: a stream
\* with a hole in it; the connection's bytes from the first one on, with the next ones
\* to come; bytes from a later record on, whose packet is the first one held; or nothing
\* yet, because the flow was made for this packet.

FlowOf(c) == conns[KeyOf[c]]
Fed(c) == pc = "callbacks" /\ cur.conn = c

Torn(s) == \E i \in 1..Len(s) : s[i].seg = Missing
Straight(s) == \A i \in 1..Len(s) : s[i].seg = i
LateHeld(e, c) ==
  e.held # <<>> /\ e.held[1].conn = c /\ e.held[1].seg \in OpenSegs[c] \ {1}

JustAdmitted(c) == pc = "lookup" /\ cur.conn = c /\ Gate(cur) /\ FlowOf(c) = NewConn
Late(c) == LateHeld(FlowOf(c), c) /\ FlowOf(c).stream # <<>> /\ FlowOf(c).stream[1].seg # 1
LateStart(c) ==
  /\ Fed(c) /\ FlowOf(c).stream = <<>> /\ LateHeld(FlowOf(c), c) /\ cur.seg # 1
  /\ \E n \in Nat : Speaks(Body(events), cur.seg, n)
  /\ c \in toClose \/ Body(events) # <<>>
Reading(c) ==
  /\ Fed(c) /\ Straight(FlowOf(c).stream)
  /\ \E n \in Nat :
       /\ Speaks(Body(events), Len(FlowOf(c).stream) + 1, n)
       /\ \/ c \in toClose \/ pcpp[c].fin
          \/ Len(Body(events)) = n /\ pcpp[c].next = Len(FlowOf(c).stream) + 1 + n
ReadSoFar(c) ==
  /\ ~Fed(c) /\ Straight(FlowOf(c).stream) /\ c \notin toClose
  /\ pcpp[c].fin \/ pcpp[c].next = Len(FlowOf(c).stream) + 1

\* Between the calls it is in the reassembler's map.
Reads(c) ==
  FlowOf(c).state = "Wait" /\ ~pcpp[c].again =>
    \/ JustAdmitted(c)
    \/ Torn(FlowOf(c).stream) \/ Late(c)
    \/ pcpp[c].phase = "open" /\ (LateStart(c) \/ Reading(c) \/ ReadSoFar(c))
ReadsInv == \A c \in Conns : HelloLen[c] # 0 => Reads(c)

\* A step that is not about the connection.
LEMMA Aside ==
  ASSUME NEW c \in Conns, Reads(c), ~Fed(c), ~Fed(c)', Lasts(pcpp[c], pcpp'[c]),
         FlowOf(c)'.state = "Wait" =>
           /\ FlowOf(c).state = "Wait" /\ FlowOf(c)'.stream = FlowOf(c).stream
           /\ LateHeld(FlowOf(c), c) => LateHeld(FlowOf(c)', c),
         FlowOf(c)'.state = "Wait" /\ c \in toClose' => c \in toClose,
         JustAdmitted(c) => JustAdmitted(c)' \/ FlowOf(c)'.state # "Wait"
  PROVE  Reads(c)'
<1> SUFFICES ASSUME FlowOf(c)'.state = "Wait", ~pcpp'[c].again
             PROVE  \/ JustAdmitted(c)' \/ Torn(FlowOf(c)'.stream) \/ Late(c)'
                    \/ pcpp'[c].phase = "open" /\ ReadSoFar(c)'
  BY DEF Reads
<1>1. /\ ~pcpp[c].again /\ pcpp'[c].phase = pcpp[c].phase /\ pcpp'[c].next = pcpp[c].next
      /\ pcpp'[c].fin = pcpp[c].fin
  BY DEF Lasts
<1>2. \/ JustAdmitted(c) \/ Torn(FlowOf(c).stream) \/ Late(c)
      \/ pcpp[c].phase = "open" /\ ReadSoFar(c)
  BY <1>1 DEF Reads, LateStart, Reading
<1>3. Late(c) => Late(c)'
  BY DEF Late
<1> QED
  BY <1>1, <1>2, <1>3 DEF ReadSoFar

\* resolve() of a flow whose token has its key, for a connection c.
LEMMA ResolveAside ==
  ASSUME conns \in [Keys -> Entry], NEW k \in Keys, NEW e \in Entry, Named(e, k), NEW host,
         NEW why, NEW more, Resolve(k, e, host, why, more), NEW c \in Conns,
         FlowOf(c)'.state = "Wait"
  PROVE  /\ KeyOf[c] # k /\ FlowOf(c)' = FlowOf(c)
         /\ c \in toClose' => c \in toClose
<1>1. KeyOf[c] \in Keys /\ c # NoConn
  BY ConnsAssumption
<1>2. KeyOf[c] # k /\ FlowOf(c)' = FlowOf(c)
  BY <1>1, ResolveEntries DEF FlowOf, Absent
<1>3. toClose' = IF e.token # NoConn /\ ~e.closed THEN toClose \cup {e.token} ELSE toClose
  BY DEF Resolve, QueueClose
<1> QED
  BY <1>1, <1>2, <1>3 DEF Named

OwnKeys == \A c, d \in Conns : KeyOf[c] = KeyOf[d] => c = d
ReadInv == KeepsInv /\ TokenInv /\ CurSyn /\ ReadsInv

\* tick(), flush() and what happens between the calls.
LEMMA SweepReads ==
  ASSUME DropInv, ReadInv,
         \/ Tick \/ Flush \/ Drain \/ Elapse \/ Finished \/ UNCHANGED vars
         \/ SweepEnd \/ FlushEnd \/ (\E h \in Arrivals : Feed(h))
         \/ \E k \in Keys : SweepBlocked(k) \/ SweepWaiting(k) \/ FlushOne(k)
  PROVE  ReadsInv'
<1>0. /\ conns \in [Keys -> Entry] /\ KeyOf \in [Conns -> Keys] /\ TypeOK /\ KeepsInv /\ TokenInv
      /\ [Next]_vars
  BY ConnsAssumption DEF DropInv, BufferInv, TypeInv, TypeOK, ReadInv, Next, Step
<1>1. CASE Drain \/ Finished \/ UNCHANGED vars
  <2>1. UNCHANGED <<conns, toClose, pcpp, pc, cur, events>>
    BY <1>1 DEF Drain, Finished, vars, table
  <2>2. ASSUME NEW c \in Conns
        PROVE  /\ FlowOf(c)' = FlowOf(c) /\ Fed(c)' = Fed(c)
               /\ JustAdmitted(c)' = JustAdmitted(c)
    BY <2>1 DEF FlowOf, Fed, JustAdmitted, Gate
  <2>3. ASSUME NEW c \in Conns
        PROVE  /\ Late(c) => Late(c)'
               /\ LateStart(c) => LateStart(c)'
               /\ Reading(c) => Reading(c)'
               /\ ReadSoFar(c) => ReadSoFar(c)'
    <3>1. Late(c) => Late(c)'
      BY <2>2 DEF Late
    <3>2. LateStart(c) => LateStart(c)'
      BY <2>1, <2>2 DEF LateStart
    <3>3. Reading(c) => Reading(c)'
      BY <2>1, <2>2 DEF Reading
    <3>4. ReadSoFar(c) => ReadSoFar(c)'
      BY <2>1, <2>2 DEF ReadSoFar
    <3> QED
      BY <3>1, <3>2, <3>3, <3>4
  <2>4. ASSUME NEW c \in Conns, Reads(c) PROVE Reads(c)'
    BY <2>1, <2>2, <2>3, <2>4 DEF Reads
  <2> QED
    BY <2>4 DEF ReadInv, ReadsInv
<1>2. CASE ~(Drain \/ Finished \/ UNCHANGED vars)
  <2>1. pc \in {"idle", "sweep", "flush"} /\ pc' # "callbacks"
    BY <1>2 DEF Tick, Flush, Elapse, SweepEnd, FlushEnd, Feed, EnterTick, SweepBlocked,
       SweepWaiting, FlushOne
  <2>2. \A c \in Conns : Lasts(pcpp[c], pcpp'[c])
    <3>1. ~\E b \in BOOLEAN : FeedReassembler(b)
      BY <2>1 DEF FeedReassembler, Undecided
    <3> QED
      BY <1>0, <3>1, StepKeeps
  <2>3. ASSUME NEW c \in Conns, FlowOf(c)'.state = "Wait"
        PROVE  /\ FlowOf(c).state = "Wait" /\ FlowOf(c)'.stream = FlowOf(c).stream
               /\ FlowOf(c)'.held = FlowOf(c).held
               /\ c \in toClose' => c \in toClose
    <3>0. KeyOf[c] \in Keys
      BY <1>0
    <3>1. CASE Tick \/ Flush \/ SweepEnd \/ \E h \in Arrivals : Feed(h)
      BY <2>3, <3>1 DEF Tick, Flush, SweepEnd, Feed, table, DrainCloses, FlowOf
    <3>2. CASE FlushEnd
      BY <2>3, <3>0, <3>2 DEF FlushEnd, FlowOf, Absent
    <3>3. CASE Elapse
      <4>1. \A e \in Entry : /\ [e EXCEPT !.idle = @ + 1].state = e.state
                             /\ [e EXCEPT !.idle = @ + 1].stream = e.stream
                             /\ [e EXCEPT !.idle = @ + 1].held = e.held
        BY DEF Entry
      <4> QED
        BY <1>0, <2>3, <3>0, <3>3, <4>1 DEF Elapse, FlowOf
    <3>4. ASSUME NEW k \in Keys, SweepBlocked(k)
          PROVE  FlowOf(c)' = FlowOf(c) /\ toClose' = toClose
      BY <1>0, <2>3, <3>0, <3>4 DEF SweepBlocked, FlowOf, Absent
    <3>5. ASSUME NEW k \in Keys, SweepWaiting(k) \/ FlushOne(k)
          PROVE  FlowOf(c)' = FlowOf(c) /\ (c \in toClose' => c \in toClose)
      <4>1. PICK why : Resolve(k, conns[k], NoHost, why, <<>>)
        BY <3>5 DEF SweepWaiting, FlushOne
      <4>2. conns[k] \in Entry /\ Named(conns[k], k)
        BY <1>0 DEF TokenInv
      <4> QED
        BY <1>0, <2>3, <4>1, <4>2, ResolveAside
    <3> QED
      BY <1>2, <2>3, <3>1, <3>2, <3>3, <3>4, <3>5
  <2>4. \A c \in Conns : ~Fed(c) /\ ~Fed(c)' /\ ~JustAdmitted(c)
    BY <2>1 DEF Fed, JustAdmitted
  <2> QED
    BY <2>2, <2>3, <2>4, Aside DEF ReadInv, ReadsInv, LateHeld
<1> QED
  BY <1>1, <1>2

\* feed() up to the reassembler.
LEMMA FeedReads ==
  ASSUME OwnKeys, DropInv, ReadInv,
         \/ AllowUndissected \/ DropBlocked \/ AllowUntracked
         \/ AdmitWithRoom \/ AdmitByEviction \/ AllowAtCap
         \/ AllowFlooded \/ AllowBareAck
  PROVE  ReadsInv'
<1>0. /\ conns \in [Keys -> Entry] /\ KeyOf \in [Conns -> Keys] /\ TypeOK /\ KeepsInv /\ TokenInv
      /\ pcpp' = pcpp /\ pc = "lookup" /\ pc' \in {"idle", "lookup"}
      /\ cur.conn # NoConn => Key \in Keys /\ cur.conn \in Conns /\ Key = KeyOf[cur.conn]
  BY ConnsAssumption, KeyType DEF DropInv, BufferInv, TypeInv, TypeOK, ReadInv, AllowUndissected,
     DropBlocked, AllowUntracked, AdmitWithRoom, AdmitByEviction, AllowAtCap, AllowFlooded,
     AllowBareAck, Untracked, Undecided, ReturnWith, Return, Key
<1>1. \A c \in Conns : ~Fed(c) /\ ~Fed(c)' /\ Lasts(pcpp[c], pcpp'[c])
  BY <1>0 DEF Fed, Lasts
<1>2. CASE AllowUndissected \/ AllowUntracked \/ AllowAtCap
  <2>1. UNCHANGED <<conns, toClose>>
    BY <1>2 DEF AllowUndissected, AllowUntracked, AllowAtCap
  <2>2. \A c \in Conns : ~JustAdmitted(c)
    BY <1>0, <1>2, ConnsAssumption DEF JustAdmitted, AllowUndissected, AllowUntracked, AllowAtCap,
       Untracked, FlowOf, NewConn, Absent
  <2> QED
    BY <1>1, <2>1, <2>2, Aside DEF ReadInv, ReadsInv, FlowOf
<1>3. CASE DropBlocked \/ AllowBareAck
  <2> DEFINE entry == [conns[Key] EXCEPT !.idle = 0]
  <2>1. conns' = [conns EXCEPT ![Key] = entry] /\ toClose' = toClose /\ Key \in Keys
    BY <1>0, <1>3 DEF DropBlocked, AllowBareAck, Undecided
  <2>2. /\ entry.state = conns[Key].state /\ entry.stream = conns[Key].stream
        /\ entry.held = conns[Key].held
    BY <1>0, <2>1 DEF Entry
  <2> HIDE DEF entry
  <2>3. ASSUME NEW c \in Conns
        PROVE  /\ FlowOf(c)'.state = FlowOf(c).state /\ FlowOf(c)'.stream = FlowOf(c).stream
               /\ FlowOf(c)'.held = FlowOf(c).held
    BY <1>0, <2>1, <2>2 DEF FlowOf
  <2>4. \A c \in Conns : ~JustAdmitted(c)
    <3>1. NewConn.state = "Wait"
      BY DEF NewConn, Absent
    <3> QED
      BY <1>0, <1>3, <3>1 DEF JustAdmitted, DropBlocked, AllowBareAck, FlowOf, Gate
  <2> QED
    BY <1>1, <2>1, <2>3, <2>4, Aside DEF ReadInv, ReadsInv, LateHeld
<1>4. CASE AllowFlooded
  <2>1. /\ Key \in Keys /\ cur.conn \in Conns /\ Key = KeyOf[cur.conn]
        /\ \E more : Resolve(Key, conns[Key], NoHost, "flood", more)
    BY <1>0, <1>4 DEF AllowFlooded, Undecided
  <2>2. conns[Key] \in Entry /\ Named(conns[Key], Key)
    BY <1>0, <2>1 DEF TokenInv
  <2>3. ASSUME NEW c \in Conns, FlowOf(c)'.state = "Wait"
        PROVE  /\ KeyOf[c] # Key /\ FlowOf(c)' = FlowOf(c)
               /\ c \in toClose' => c \in toClose
    BY <1>0, <2>1, <2>2, <2>3, ResolveAside
  <2>4. \A c \in Conns : JustAdmitted(c) => FlowOf(c)'.state # "Wait"
    BY <2>1, <2>3 DEF JustAdmitted
  <2> QED
    BY <1>1, <2>3, <2>4, Aside DEF ReadInv, ReadsInv
<1>5. CASE AdmitWithRoom \/ AdmitByEviction
  <2>1. /\ UNCHANGED <<toClose, pc, cur>> /\ conns[Key].state = "None" /\ Key \in Keys
        /\ cur.conn \in Conns /\ Key = KeyOf[cur.conn] /\ Gate(cur)
    BY <1>0, <1>5 DEF AdmitWithRoom, AdmitByEviction, Untracked
  <2>2. conns'[Key] = NewConn /\ \A x \in Keys \ {Key} : conns'[x] \in {Absent, conns[x]}
    <3>1. CASE AdmitWithRoom
      BY <1>0, <2>1, <3>1 DEF AdmitWithRoom
    <3>2. CASE AdmitByEviction
      <4>1. PICK victim : conns' = [conns EXCEPT ![victim] = Absent, ![Key] = NewConn]
        BY <3>2 DEF AdmitByEviction
      <4> QED
        BY <1>0, <2>1, <4>1
    <3> QED
      BY <1>5, <3>1, <3>2
  <2>3. ASSUME NEW c \in Conns, HelloLen[c] # 0 PROVE Reads(c)'
    <3>1. CASE c = cur.conn
      <4>1. JustAdmitted(c)'
        BY <1>0, <2>1, <2>2, <3>1 DEF JustAdmitted, FlowOf, Gate
      <4> QED
        BY <4>1 DEF Reads
    <3>2. CASE c # cur.conn
      <4>1. KeyOf[c] \in Keys \ {Key}
        BY <1>0, <2>1, <3>2 DEF OwnKeys
      <4>2. FlowOf(c)' = FlowOf(c) \/ FlowOf(c)' = Absent
        BY <2>2, <4>1 DEF FlowOf
      <4>3. FlowOf(c)' = FlowOf(c) \/ FlowOf(c)'.state # "Wait"
        BY <4>2 DEF Absent
      <4>4. ~JustAdmitted(c)
        BY <3>2 DEF JustAdmitted
      <4> QED
        BY <1>1, <2>1, <2>3, <4>3, <4>4, Aside DEF ReadInv, ReadsInv
    <3> QED
      BY <3>1, <3>2
  <2> QED
    BY <2>3 DEF ReadsInv
<1> QED
  BY <1>2, <1>3, <1>4, <1>5

LEMMA SpeaksZero == \A b, f, g : Speaks(b, f, 0) => Speaks(b, g, 0)
BY DEF Speaks

\* Messages are not announcements of a connection.
LEMMA SpeaksBody ==
  ASSUME NEW b \in Seq(Event), NEW f, NEW n, Speaks(b, f, n)
  PROVE  Body(b) = b
<1>1. CASE b = <<>>
  BY <1>1 DEF Body
<1>2. CASE b # <<>>
  <2>1. Len(b) \in Nat /\ Len(b) # 0 /\ n \in Nat
    BY <1>2, EmptySeq, LenProperties DEF Speaks
  <2>2. b[1].kind = "message"
    <3>1. CASE n = 0
      BY <2>1, <3>1 DEF Speaks, Holed
    <3>2. CASE n # 0
      <4>1. b[1] = Message(<<f + 1 - 1>>)
        BY <2>1, <3>2 DEF Speaks
      <4> QED
        BY <4>1, EventKinds
    <3> QED
      BY <3>1, <3>2
  <2> QED
    BY <2>2 DEF Body
<1> QED
  BY <1>1, <1>2

\* The first of several messages is taken away.
LEMMA SpeaksTail ==
  ASSUME NEW b \in Seq(Event), b # <<>>, NEW f \in Nat, NEW n \in Nat, n # 0, Speaks(b, f, n)
  PROVE  /\ b[1] = Message(<<f>>) /\ Speaks(Tail(b), f + 1, n - 1) /\ Body(Tail(b)) = Tail(b)
         /\ Len(Tail(b)) = Len(b) - 1 /\ Len(b) \in Nat
<1> DEFINE t == Tail(b)
<1>1. /\ t \in Seq(Event) /\ Len(t) = Len(b) - 1 /\ Len(b) \in Nat
      /\ \A i \in 1..Len(t) : i + 1 \in 1..Len(b) /\ t[i] = b[i + 1]
  BY TailEvents, HeadTailProperties
<1> HIDE DEF t
<1>2. n \in 1..Len(b)
  BY <1>1 DEF Speaks
<1>3. b[1] = Message(<<f>>)
  <2>1. b[1] = Message(<<f + 1 - 1>>)
    BY <1>2 DEF Speaks
  <2>2. f + 1 - 1 = f
    OBVIOUS
  <2> QED
    BY <2>1, <2>2
<1>4. ASSUME NEW i \in 1..(n - 1) PROVE t[i] = Message(<<(f + 1) + i - 1>>)
  <2>1. i \in 1..Len(t) /\ i + 1 \in 1..n
    BY <1>1, <1>2
  <2>2. t[i] = b[i + 1] /\ b[i + 1] = Message(<<f + (i + 1) - 1>>)
    BY <1>1, <2>1 DEF Speaks
  <2>3. f + (i + 1) - 1 = (f + 1) + i - 1
    OBVIOUS
  <2> QED
    BY <2>2, <2>3
<1>5. ASSUME n - 1 < Len(t) PROVE Holed(t[(n - 1) + 1])
  <2>1. n < Len(b) /\ n \in 1..Len(t) /\ (n - 1) + 1 = n
    BY <1>1, <1>2, <1>5
  <2> QED
    BY <1>1, <2>1 DEF Speaks
<1>6. n - 1 \in 0..Len(t)
  BY <1>1, <1>2
<1>7. Speaks(t, f + 1, n - 1)
  BY <1>4, <1>5, <1>6 DEF Speaks
<1> QED
  BY <1>1, <1>3, <1>7, SpeaksBody DEF t

\* The flow made for the packet being fed has no token, so its connection is new to the
\* reassembler, or waits to be closed.
LEMMA AdmittedIsNew ==
  ASSUME OwnKeys, CloseInv, KeepsInv, TypeOK, NEW c \in Conns, JustAdmitted(c), ~pcpp[c].again
  PROVE  pcpp[c] = NoState \/ c \in toClose
<1>1. Alone(c) /\ pc = "lookup" /\ FlowOf(c).token = NoConn /\ c # NoConn
  BY ConnsAssumption DEF OwnKeys, Alone, JustAdmitted, NewConn, Absent
<1>2. pcpp[c].phase \in {"none", "open"} /\ Keeps(pcpp[c])
  BY DEF KeepsInv, Keeps, TypeOK, ReassemblyState
<1>3. CASE pcpp[c].phase = "none"
  BY <1>2, <1>3 DEF Keeps
<1>4. CASE pcpp[c].phase = "open"
  BY <1>1, <1>4 DEF CloseInv, Closable, Watched, Starting, FlowOf
<1> QED
  BY <1>2, <1>3, <1>4

\* The packet is held, and its connection's bytes are about to be delivered.
LEMMA FedEntry ==
  ASSUME TypeOK, NEW b \in BOOLEAN, FeedReassembler(b)
  PROVE  /\ cur.conn \in Conns /\ Key \in Keys /\ Key = KeyOf[cur.conn]
         /\ conns[Key] \in Entry /\ conns[Key].state = "Wait"
         /\ \A x \in Keys \ {Key} : conns'[x] = conns[x]
         /\ conns'[Key].state = "Wait" /\ conns'[Key].stream = conns[Key].stream
         /\ conns'[Key].held = IF cur.seg # 0 THEN Append(conns[Key].held, cur) ELSE conns[Key].held
         /\ pc = "lookup" /\ pc' = "callbacks" /\ UNCHANGED <<cur, toClose>>
<1> DEFINE held == IF cur.seg # 0 THEN Append(conns[Key].held, cur) ELSE conns[Key].held
           entry == [conns[Key] EXCEPT !.idle = 0, !.held = held]
<1>0. /\ cur.conn \in Conns /\ Key \in Keys /\ Key = KeyOf[cur.conn] /\ conns \in [Keys -> Entry]
      /\ conns[Key].state = "Wait"
      /\ pc = "lookup" /\ pc' = "callbacks" /\ UNCHANGED <<cur, toClose>>
  BY KeyType DEF TypeOK, FeedReassembler, Undecided, Key
<1>1. conns' = [conns EXCEPT ![Key] = entry]
  BY <1>0 DEF FeedReassembler
<1> HIDE DEF held
<1>2. entry.state = "Wait" /\ entry.stream = conns[Key].stream /\ entry.held = held
  BY <1>0 DEF Entry
<1> HIDE DEF entry
<1> QED
  BY <1>0, <1>1, <1>2 DEF held

\* A new flow's first packet.
LEMMA FirstReads ==
  ASSUME OwnKeys, CloseInv, ReadInv, TypeOK, NEW b \in BOOLEAN, FeedReassembler(b),
         NEW c \in Conns, c = cur.conn, HelloLen[c] # 0, JustAdmitted(c), ~pcpp'[c].again
  PROVE  LateStart(c)' \/ Reading(c)'
<1>0. /\ KeyOf[c] = Key /\ KeyOf[c] \in Keys /\ FlowOf(c) = NewConn /\ Gate(cur) /\ CurSyn
      /\ FlowOf(c)'.stream = <<>> /\ toClose' = toClose /\ cur' = cur /\ Fed(c)' /\ KeepsInv
      /\ cur.seg \in 0..MaxSeg /\ cur \in Packet
      /\ FlowOf(c)'.held = IF cur.seg # 0 THEN Append(<<>>, cur) ELSE <<>>
  <2>1. /\ FlowOf(c) = NewConn /\ Gate(cur) /\ CurSyn /\ KeepsInv
        /\ cur \in Packet /\ NewConn.stream = <<>> /\ NewConn.held = <<>>
    BY DEF JustAdmitted, ReadInv, NewConn, Absent, TypeOK
  <2>2. /\ KeyOf[c] = Key /\ KeyOf[c] \in Keys /\ toClose' = toClose /\ cur' = cur /\ pc' = "callbacks"
        /\ FlowOf(c)'.stream = FlowOf(c).stream
        /\ FlowOf(c)'.held = IF cur.seg # 0 THEN Append(FlowOf(c).held, cur) ELSE FlowOf(c).held
    BY FedEntry DEF FlowOf
  <2>3. cur.seg \in 0..MaxSeg
    BY <2>1 DEF Packet
  <2> QED
    BY <2>1, <2>2, <2>3 DEF Fed
<1>1. ~pcpp[c].again /\ Heard(pcpp[c], cur, pcpp'[c], Body(events'))
  BY <1>0, FeedKeeps
<1>2. pcpp[c] = NoState \/ c \in toClose
  BY <1>0, <1>1, AdmittedIsNew
<1>3. PICK n \in Nat :
        /\ Speaks(Body(events'), cur.seg, n) /\ (n # 0 <=> ~pcpp[c].fin /\ Delivers(pcpp[c], cur))
        /\ pcpp'[c].fin \/ (Len(Body(events')) = n /\ pcpp'[c].next = NextAfter(pcpp[c], cur, n))
  BY <1>1 DEF Heard
<1>4. pcpp[c] = NoState => ~pcpp[c].fin /\ pcpp[c].next = 0
  BY DEF NoState
<1>5. Len(<<>>) = 0 /\ Straight(<<>>)
  BY EmptySeq DEF Straight
<1>6. CASE cur.seg = 0
  <2>1. n = 0 /\ cur.syn
    BY <1>0, <1>3, <1>6 DEF Delivers, Gate
  <2>2. Speaks(Body(events'), 1, 0)
    BY <1>3, <2>1, SpeaksZero
  <2>3. c \in toClose \/ NextAfter(pcpp[c], cur, 0) = 1
    BY <1>2, <1>4, <1>6, <2>1 DEF NextAfter
  <2>4. c \in toClose' \/ pcpp'[c].fin \/ (Len(Body(events')) = 0 /\ pcpp'[c].next = 0 + 1 + 0)
    BY <1>0, <1>3, <2>1, <2>3
  <2>5. 0 + 1 = 1 /\ 0 \in Nat
    OBVIOUS
  <2> QED
    BY <1>0, <1>5, <2>2, <2>4, <2>5 DEF Reading
<1>7. CASE cur.seg = 1
  <2>1. c \in toClose' \/ pcpp'[c].fin \/ (Len(Body(events')) = n /\ pcpp'[c].next = 0 + 1 + n)
    BY <1>0, <1>2, <1>3, <1>4, <1>7 DEF NextAfter, Delivers
  <2>2. Speaks(Body(events'), 0 + 1, n)
    BY <1>3, <1>7
  <2> QED
    BY <1>0, <1>5, <2>1, <2>2 DEF Reading
<1>8. CASE cur.seg \notin {0, 1}
  <2>1. LateHeld(FlowOf(c)', c)
    <3>1. cur.seg \in OpenSegs[c]
      BY <1>0, <1>8 DEF Gate, CurSyn
    <3>2. FlowOf(c)'.held = <<cur>>
      BY <1>0, <1>8
    <3>3. <<cur>> # <<>> /\ <<cur>>[1] = cur
      OBVIOUS
    <3> QED
      BY <1>8, <3>1, <3>2, <3>3 DEF LateHeld
  <2>3. c \in toClose' \/ Body(events') # <<>>
    <3>1. pcpp[c] = NoState => n # 0
      BY <1>3, <1>4, <1>8 DEF Delivers
    <3>2. n # 0 => Body(events') # <<>>
      BY <1>3, <1>5 DEF Speaks
    <3> QED
      BY <1>0, <1>2, <3>1, <3>2
  <2> QED
    BY <1>0, <1>3, <1>8, <2>1, <2>3 DEF LateStart
<1> QED
  BY <1>6, <1>7, <1>8

\* The next packet of a flow that has read from the first byte on.
LEMMA NextReads ==
  ASSUME ReadInv, TypeOK, NEW b \in BOOLEAN, FeedReassembler(b), NEW c \in Conns, c = cur.conn,
         ReadSoFar(c), ~pcpp'[c].again
  PROVE  Reading(c)'
<1> DEFINE L == Len(FlowOf(c).stream)
<1>0. /\ FlowOf(c)'.stream = FlowOf(c).stream /\ Fed(c)' /\ KeepsInv /\ L \in Nat
      /\ Straight(FlowOf(c).stream)
  BY FedEntry, LenProperties DEF FlowOf, Fed, ReadInv, ReadSoFar, Entry
<1>1. ~pcpp[c].again /\ Heard(pcpp[c], cur, pcpp'[c], Body(events'))
  BY <1>0, FeedKeeps
<1>2. PICK n \in Nat :
        /\ Speaks(Body(events'), cur.seg, n) /\ (n # 0 <=> ~pcpp[c].fin /\ Delivers(pcpp[c], cur))
        /\ pcpp'[c].fin \/ (Len(Body(events')) = n /\ pcpp'[c].next = NextAfter(pcpp[c], cur, n))
        /\ pcpp[c].fin => pcpp'[c].fin
  BY <1>1 DEF Heard
<1> HIDE DEF L
<1>3. pcpp[c].fin \/ pcpp[c].next = L + 1
  BY DEF ReadSoFar, L
<1>4. Speaks(Body(events'), L + 1, n)
  <2>1. CASE n = 0
    BY <1>2, <2>1, SpeaksZero
  <2>2. CASE n # 0
    <3>1. cur.seg = L + 1
      BY <1>0, <1>2, <1>3, <2>2 DEF Delivers
    <3> QED
      BY <1>2, <3>1
  <2> QED
    BY <2>1, <2>2
<1>5. pcpp'[c].fin \/ (Len(Body(events')) = n /\ pcpp'[c].next = L + 1 + n)
  <2>1. CASE pcpp[c].fin
    BY <1>2, <2>1
  <2>2. CASE ~pcpp[c].fin
    <3>1. NextAfter(pcpp[c], cur, n) = L + 1 + n
      BY <1>0, <1>2, <1>3, <2>2 DEF NextAfter, Delivers
    <3> QED
      BY <1>2, <3>1
  <2> QED
    BY <2>1, <2>2
<1> QED
  BY <1>0, <1>4, <1>5 DEF Reading, L

\* The next packet of a flow that began late.
LEMMA LateReads ==
  ASSUME TypeOK, NEW b \in BOOLEAN, FeedReassembler(b), NEW c \in Conns, c = cur.conn, Late(c)
  PROVE  Late(c)'
<1>1. /\ FlowOf(c)'.stream = FlowOf(c).stream /\ FlowOf(c).held \in Seq(Packet) /\ cur \in Packet
      /\ FlowOf(c)'.held \in {FlowOf(c).held, Append(FlowOf(c).held, cur)}
  BY FedEntry DEF FlowOf, Entry, TypeOK
<1>2. ASSUME FlowOf(c).held # <<>>
      PROVE  /\ Append(FlowOf(c).held, cur) # <<>>
             /\ Append(FlowOf(c).held, cur)[1] = FlowOf(c).held[1]
  BY <1>1, <1>2, AppendProperties, EmptySeq
<1> QED
  BY <1>1, <1>2 DEF Late, LateHeld

LEMMA ReassemblerReads ==
  ASSUME OwnKeys, DropInv, CloseInv, ReadInv, NEW b \in BOOLEAN, FeedReassembler(b)
  PROVE  ReadsInv'
<1>0. TypeOK /\ KeepsInv /\ ReadsInv /\ KeyOf \in [Conns -> Keys]
  BY ConnsAssumption DEF DropInv, BufferInv, TypeInv, ReadInv
<1>1. ASSUME NEW c \in Conns, HelloLen[c] # 0 PROVE Reads(c)'
  <2>0. Reads(c) /\ KeyOf[c] \in Keys
    BY <1>0, <1>1 DEF ReadsInv
  <2>1. CASE c # cur.conn
    <3>1. /\ KeyOf[c] # Key /\ ~Fed(c) /\ ~Fed(c)' /\ ~JustAdmitted(c)
          /\ Lasts(pcpp[c], pcpp'[c]) /\ toClose' = toClose
      BY <1>0, <2>1, FedEntry, FeedKeeps DEF Fed, JustAdmitted, OwnKeys
    <3>2. FlowOf(c)' = FlowOf(c)
      BY <1>0, <2>0, <3>1, FedEntry DEF FlowOf
    <3> QED
      BY <2>0, <3>1, <3>2, Aside
  <2>2. CASE c = cur.conn
    <3> SUFFICES ASSUME ~pcpp'[c].again
                 PROVE  \/ Torn(FlowOf(c)'.stream) \/ Late(c)'
                        \/ pcpp'[c].phase = "open" /\ (LateStart(c)' \/ Reading(c)')
      BY DEF Reads
    <3>1. /\ ~pcpp[c].again /\ pcpp'[c].phase = "open" /\ ~Fed(c)
          /\ FlowOf(c).state = "Wait" /\ FlowOf(c)'.stream = FlowOf(c).stream
      BY <1>0, <2>2, FedEntry, FeedKeeps DEF Fed, FlowOf
    <3>2. JustAdmitted(c) \/ Torn(FlowOf(c).stream) \/ Late(c) \/ ReadSoFar(c)
      BY <2>0, <3>1 DEF Reads, LateStart, Reading
    <3> QED
      BY <1>0, <1>1, <2>2, <3>1, <3>2, FirstReads, NextReads, LateReads
  <2> QED
    BY <2>1, <2>2
<1> QED
  BY <1>1 DEF ReadsInv

\* A message's bytes come after those the flow has.
LEMMA AppendedStream ==
  ASSUME DropInv, Callback("message"), Key \in Keys, cur.conn \in Conns
  PROVE  LET s == Appended(conns[Key]).stream
             base == conns[Key].stream
             data == Head(events).data
         IN /\ Len(s) = Len(base) + Len(data) /\ Len(base) \in Nat /\ Len(data) \in Nat \ {0}
            /\ \A i \in 1..Len(base) : s[i] = base[i]
            /\ \A i \in 1..Len(data) : s[Len(base) + i].seg = data[i]
            /\ s \in Seq(Chunk) /\ events[1] = Head(events) /\ events \in Seq(Event)
            /\ events # <<>> /\ Head(events).kind = "message"
<1> DEFINE e == conns[Key]
           data == Head(events).data
           chunks == [i \in 1..Len(data) |-> [conn |-> cur.conn, seg |-> data[i]]]
           base == e.stream
           s == base \o chunks
<1>0. /\ e \in Entry /\ events \in Seq(Event) /\ events # <<>> /\ Head(events).kind = "message"
  BY DEF DropInv, BufferInv, TypeInv, TypeOK, Callback
<1>1. data # <<>> /\ data \in Seq(0..MaxSeg) /\ Head(events) = events[1]
  <2>1. 1 \in 1..Len(events) /\ Head(events) = events[1] /\ events[1] \in Event
    BY <1>0, EmptySeq, LenProperties, ElementOfSeq
  <2> QED
    BY <1>0, <2>1 DEF DropInv, Spoken, Event
<1>2. Appended(e) = [e EXCEPT !.token = cur.conn, !.stream = s]
  BY DEF Appended
<1>3. Appended(e).stream = s
  <2> HIDE DEF s
  <2> QED
    BY <1>0, <1>2 DEF Entry
<1>4. /\ Len(data) \in Nat /\ Len(data) # 0
      /\ \A i \in 1..Len(data) : data[i] \in 0..MaxSeg
  BY <1>1, EmptySeq, LenProperties, ElementOfSeq
<1> HIDE DEF data
<1>5. \A i \in 1..Len(data) : chunks[i].seg = data[i]
  OBVIOUS
<1>6. chunks \in [1..Len(data) -> Chunk]
  BY <1>4 DEF Chunk
<1> HIDE DEF chunks
<1>7. chunks \in Seq(Chunk) /\ Len(chunks) = Len(data) /\ base \in Seq(Chunk)
  BY <1>0, <1>4, <1>6, FunIsSeq DEF Entry
<1> HIDE DEF base
<1>8. /\ Len(s) = Len(base) + Len(data) /\ Len(base) \in Nat
      /\ \A i \in 1..(Len(base) + Len(data)) :
           s[i] = IF i <= Len(base) THEN base[i] ELSE chunks[i - Len(base)]
  BY <1>7, ConcatChunks
<1>9. s \in Seq(Chunk)
  BY <1>7, ConcatProperties
<1> HIDE DEF s
<1>10. \A i \in 1..Len(base) : s[i] = base[i]
  BY <1>4, <1>8
<1>11. ASSUME NEW i \in 1..Len(data) PROVE s[Len(base) + i].seg = data[i]
  <2>1. /\ Len(base) + i \in 1..(Len(base) + Len(data)) /\ ~(Len(base) + i <= Len(base))
        /\ (Len(base) + i) - Len(base) = i
    BY <1>4, <1>8
  <2>2. s[Len(base) + i] = chunks[i]
    BY <1>8, <2>1
  <2> QED
    BY <1>5, <2>2
<1> HIDE DEF e
<1> QED
  BY <1>0, <1>1, <1>3, <1>4, <1>8, <1>9, <1>10, <1>11 DEF e, data, base

\* What the flow fed has read once a message is appended: a hole for ever, a stream that
\* does not begin with the first segment, or the next segment.
LEMMA MessageReads ==
  ASSUME DropInv, ReadInv, Callback("message"), cur.conn \in Conns, Key \in Keys,
         HelloLen[cur.conn] # 0, conns[Key].state = "Wait", ~pcpp[cur.conn].again
  PROVE  LET s == Appended(conns[Key]).stream
             c == cur.conn
         IN \/ Torn(s)
            \/ LateHeld(conns[Key], c) /\ s # <<>> /\ s[1].seg # 1
            \/ /\ pcpp[c].phase = "open" /\ Straight(s)
               /\ \E n \in Nat :
                    /\ Speaks(Body(Tail(events)), Len(s) + 1, n)
                    /\ \/ c \in toClose \/ pcpp[c].fin
                       \/ Len(Body(Tail(events))) = n /\ pcpp[c].next = Len(s) + 1 + n
<1> DEFINE s == Appended(conns[Key]).stream
           c == cur.conn
           base == conns[Key].stream
           data == Head(events).data
<1>1. /\ Len(s) = Len(base) + Len(data) /\ Len(base) \in Nat /\ Len(data) \in Nat \ {0}
      /\ \A i \in 1..Len(base) : s[i] = base[i]
      /\ \A i \in 1..Len(data) : s[Len(base) + i].seg = data[i]
      /\ events[1] = Head(events) /\ events \in Seq(Event)
      /\ events # <<>> /\ Head(events).kind = "message"
  BY AppendedStream
<1>2. Body(events) = events
  BY <1>1 DEF Body
<1>3. FlowOf(c) = conns[Key] /\ Fed(c) /\ Reads(c)
  BY DEF FlowOf, Key, Fed, Callback, ReadInv, ReadsInv
<1>4. \/ Torn(base) \/ Late(c)
      \/ pcpp[c].phase = "open" /\ (LateStart(c) \/ Reading(c))
  BY <1>3 DEF Reads, JustAdmitted, ReadSoFar, Fed
<1> HIDE DEF s, base
<1>5. ASSUME Torn(base) PROVE Torn(s)
  <2>1. PICK i \in 1..Len(base) : base[i].seg = Missing
    BY <1>5 DEF Torn
  <2>2. i \in 1..Len(s) /\ s[i] = base[i]
    BY <1>1, <2>1
  <2> QED
    BY <2>1, <2>2 DEF Torn
<1>6. s[Len(base) + 1].seg = data[1] /\ Len(base) + 1 \in 1..Len(s)
  BY <1>1
<1>7. ASSUME Holed(events[1]) PROVE Torn(s)
  BY <1>1, <1>6, <1>7 DEF Holed, Torn
<1>8. Len(events) \in Nat /\ Len(events) # 0
  BY <1>1, EmptySeq, LenProperties
<1>11. s # <<>>
  BY <1>1, EmptySeq
<1>9. CASE LateStart(c)
  <2>1. PICK n \in Nat : Speaks(events, cur.seg, n)
    BY <1>2, <1>9 DEF LateStart
  <2>2. Len(base) = 0 /\ LateHeld(conns[Key], c) /\ cur.seg # 1
    BY <1>3, <1>9, EmptySeq DEF LateStart, base
  <2>3. CASE n = 0
    BY <1>7, <1>8, <2>1, <2>3 DEF Speaks, s
  <2>4. CASE n # 0
    <3>1. cur.seg \in Nat
      BY MaxSegAssumption DEF DropInv, BufferInv, TypeInv, TypeOK, Packet
    <3>2. events[1] = Message(<<cur.seg>>)
      BY <1>1, <2>1, <2>4, <3>1, SpeaksTail
    <3>3. data[1] = cur.seg
      BY <1>1, <3>2, EventKinds
    <3>4. s[1].seg # 1
      BY <1>6, <2>2, <3>1, <3>3
    <3> QED
      BY <1>11, <2>2, <3>4 DEF s
  <2> QED
    BY <2>3, <2>4
<1>12. CASE Late(c)
  <2>1. LateHeld(conns[Key], c) /\ base # <<>> /\ base[1].seg # 1 /\ base \in Seq(Chunk)
    BY <1>3, <1>12 DEF Late, base, DropInv, BufferInv, TypeInv, TypeOK, Entry
  <2>2. 1 \in 1..Len(base)
    BY <2>1, EmptySeq, LenProperties
  <2> QED
    BY <1>1, <1>11, <2>1, <2>2 DEF s
<1>10. CASE pcpp[c].phase = "open" /\ Reading(c)
  <2>1. PICK n \in Nat :
          /\ Speaks(events, Len(base) + 1, n)
          /\ \/ c \in toClose \/ pcpp[c].fin
             \/ Len(events) = n /\ pcpp[c].next = Len(base) + 1 + n
    BY <1>2, <1>3, <1>10 DEF Reading, base
  <2>2. Straight(base)
    BY <1>3, <1>10 DEF Reading, base
  <2>3. CASE n = 0
    BY <1>7, <1>8, <2>1, <2>3 DEF Speaks, s
  <2>4. CASE n # 0
    <3>1. /\ events[1] = Message(<<Len(base) + 1>>)
          /\ Speaks(Tail(events), (Len(base) + 1) + 1, n - 1) /\ Body(Tail(events)) = Tail(events)
          /\ Len(Tail(events)) = Len(events) - 1
      BY <1>1, <2>1, <2>4, SpeaksTail
    <3>2. data = <<Len(base) + 1>>
      BY <1>1, <3>1, EventKinds
    <3>3. Len(data) = 1 /\ data[1] = Len(base) + 1
      <4>1. \A x : Len(<<x>>) = 1 /\ <<x>>[1] = x
        OBVIOUS
      <4> HIDE DEF data
      <4> QED
        BY <3>2, <4>1
    <3> HIDE DEF data
    <3>4. Len(s) = Len(base) + 1
      BY <1>1, <3>3
    <3>5. Straight(s)
      BY <1>1, <1>6, <2>2, <3>3, <3>4 DEF Straight
    <3> DEFINE t == Tail(events)
               m == n - 1
    <3>6. Body(t) = t /\ Speaks(t, Len(s) + 1, m) /\ Len(t) = Len(events) - 1
      BY <3>1, <3>4
    <3> HIDE DEF t
    <3>7. m \in Nat /\ (Len(events) = n => Len(t) = m) /\ Len(base) + 1 + n = Len(s) + 1 + m
      <4>1. Len(base) \in Nat
        BY <1>1
      <4> QED
        BY <1>8, <2>4, <3>4, <3>6, <4>1
    <3> HIDE DEF m
    <3>8. \/ c \in toClose \/ pcpp[c].fin
          \/ Len(Body(t)) = m /\ pcpp[c].next = Len(s) + 1 + m
      BY <2>1, <3>6, <3>7
    <3>9. Speaks(Body(t), Len(s) + 1, m)
      BY <3>6
    <3> QED
      BY <1>10, <3>5, <3>7, <3>8, <3>9 DEF s, t
  <2> QED
    BY <2>3, <2>4
<1> QED
  BY <1>4, <1>5, <1>9, <1>10, <1>12 DEF s

\* A callback is about the connection fed: the others' flows are as they were, and it is
\* enough to know what has become of its own.
LEMMA CallbackAside ==
  ASSUME OwnKeys, ReadInv, pc = "callbacks", cur.conn \in Conns, UNCHANGED <<pc, cur, pcpp>>,
         \A c \in Conns : KeyOf[c] # Key /\ FlowOf(c)'.state = "Wait" =>
           FlowOf(c)' = FlowOf(c) /\ (c \in toClose' => c \in toClose),
         HelloLen[cur.conn] # 0 => Reads(cur.conn)'
  PROVE  ReadsInv'
<1>1. ASSUME NEW c \in Conns, HelloLen[c] # 0, c # cur.conn PROVE Reads(c)'
  <2>1. /\ KeyOf[c] # Key /\ ~Fed(c) /\ ~Fed(c)' /\ ~JustAdmitted(c) /\ Reads(c)
        /\ Lasts(pcpp[c], pcpp'[c])
    BY <1>1 DEF OwnKeys, Key, Fed, JustAdmitted, ReadInv, ReadsInv, Lasts
  <2> QED
    BY <2>1, Aside
<1> QED
  BY <1>1 DEF ReadsInv

LEMMA CallbackReads ==
  ASSUME OwnKeys, DropInv, ReadInv,
         OnConnectionStart \/ OnMessageIgnored \/ OnMessageReady \/ OnConnectionEnd
  PROVE  ReadsInv'
<1> DEFINE c == cur.conn
<1>0. /\ conns \in [Keys -> Entry] /\ KeyOf \in [Conns -> Keys] /\ TypeOK /\ TokenInv
      /\ events \in Seq(Event) /\ events # <<>> /\ pc = "callbacks"
      /\ UNCHANGED <<pc, cur, pcpp>> /\ events' = Tail(events)
  BY ConnsAssumption DEF DropInv, BufferInv, TypeInv, TypeOK, Callback, ReadInv,
     OnConnectionStart, OnMessageIgnored, OnMessageReady, OnConnectionEnd
<1>1. cur.conn \in Conns /\ Key \in Keys /\ Key = KeyOf[cur.conn]
  BY <1>0, KeyType DEF DropInv, BufferInv, TypeInv, FedConn, Key
<1>2. Head(events) = events[1] /\ Fed(c) /\ Fed(c)' /\ ~JustAdmitted(c) /\ ~ReadSoFar(c)
  BY <1>0 DEF Fed, JustAdmitted, ReadSoFar
<1>3. CASE OnConnectionStart
  <2> DEFINE entry == [conns[Key] EXCEPT !.token = cur.conn]
  <2>1. /\ conns' = IF conns[Key].state # "None" THEN [conns EXCEPT ![Key] = entry] ELSE conns
        /\ toClose' = toClose /\ events[1].kind = "start"
    BY <1>0, <1>2, <1>3 DEF OnConnectionStart, Callback
  <2>2. /\ entry.state = conns[Key].state /\ entry.stream = conns[Key].stream
        /\ entry.held = conns[Key].held
    BY <1>0, <1>1 DEF Entry
  <2> HIDE DEF entry
  <2>3. /\ \A x \in Keys \ {Key} : conns'[x] = conns[x]
        /\ FlowOf(c)'.state = FlowOf(c).state /\ FlowOf(c)'.stream = FlowOf(c).stream
        /\ FlowOf(c)'.held = FlowOf(c).held
    BY <1>0, <1>1, <2>1, <2>2 DEF FlowOf
  <2>4. Body(events) = events'
    BY <1>0, <2>1 DEF Body
  <2>5. events' \in Seq(Event)
    BY <1>0, HeadTailProperties
  <2>6. \A f, n : Speaks(Body(events), f, n) => Body(events') = Body(events)
    BY <2>4, <2>5, SpeaksBody
  <2>7. (Late(c) => Late(c)') /\ (LateStart(c) => LateStart(c)')
    BY <1>0, <1>2, <2>1, <2>3, <2>6 DEF Late, LateStart, LateHeld
  <2>8. Reading(c) => Reading(c)'
    BY <1>0, <1>2, <2>1, <2>3, <2>6 DEF Reading
  <2>9. HelloLen[c] # 0 => Reads(c)'
    BY <1>0, <1>1, <1>2, <2>3, <2>7, <2>8 DEF Reads, ReadInv, ReadsInv
  <2>10. \A d \in Conns : KeyOf[d] # Key => FlowOf(d)' = FlowOf(d)
    BY <1>0, <2>3 DEF FlowOf
  <2> QED
    BY <1>0, <1>1, <2>1, <2>9, <2>10, CallbackAside
<1>4. CASE OnMessageIgnored
  <2>1. UNCHANGED <<conns, toClose>> /\ conns[Key].state # "Wait"
    BY <1>4 DEF OnMessageIgnored, table
  <2>2. Reads(c)'
    BY <1>0, <1>1, <2>1 DEF Reads, FlowOf
  <2> QED
    BY <1>0, <1>1, <2>1, <2>2, CallbackAside DEF FlowOf
<1>5. CASE OnMessageReady
  <2> DEFINE e == Appended(conns[Key])
  <2>1. Callback("message") /\ conns[Key].state = "Wait"
    BY <1>5 DEF OnMessageReady
  <2>2. e \in Entry /\ e.token = c /\ e.held = conns[Key].held /\ e.stream \in Seq(Chunk)
    BY <1>1, <2>1, AppendedOwn DEF Entry
  <2>3. \/ \E host, why : Resolve(Key, e, host, why, <<>>)
        \/ /\ \E r \in ExtractHostname(e.stream) : r.kind = "NeedMore"
           /\ conns' = [conns EXCEPT ![Key] = e] /\ toClose' = toClose
    BY <1>5 DEF OnMessageReady
  <2>4. HelloLen[c] # 0 /\ ~pcpp[c].again =>
          \/ Torn(e.stream)
          \/ LateHeld(conns[Key], c) /\ e.stream # <<>> /\ e.stream[1].seg # 1
          \/ /\ pcpp[c].phase = "open" /\ Straight(e.stream)
             /\ \E n \in Nat :
                  /\ Speaks(Body(events'), Len(e.stream) + 1, n)
                  /\ \/ c \in toClose \/ pcpp[c].fin
                     \/ Len(Body(events')) = n /\ pcpp[c].next = Len(e.stream) + 1 + n
    BY <1>0, <1>1, <2>1, MessageReads
  <2> HIDE DEF e
  <2>5. CASE \E host, why : Resolve(Key, e, host, why, <<>>)
    <3>1. PICK host, why : Resolve(Key, e, host, why, <<>>)
      BY <2>5
    <3>2. Named(e, Key)
      BY <1>1, <2>2 DEF Named
    <3>3. ASSUME NEW d \in Conns, FlowOf(d)'.state = "Wait"
          PROVE  KeyOf[d] # Key /\ FlowOf(d)' = FlowOf(d) /\ (d \in toClose' => d \in toClose)
      BY <1>0, <1>1, <2>2, <3>1, <3>2, <3>3, ResolveAside
    <3>4. Reads(c)'
      BY <1>0, <1>1, <3>3 DEF Reads
    <3> QED
      BY <1>0, <1>1, <3>3, <3>4, CallbackAside
  <2>6. CASE /\ \E r \in ExtractHostname(e.stream) : r.kind = "NeedMore"
             /\ conns' = [conns EXCEPT ![Key] = e] /\ toClose' = toClose
    <3>1. LateHeld(conns[Key], c) => LateHeld(e, c)
      BY <2>2 DEF LateHeld
    <3>2. FlowOf(c)' = e
      BY <1>0, <1>1, <2>6 DEF FlowOf
    <3>3. ASSUME HelloLen[c] # 0, ~pcpp'[c].again
          PROVE  \/ Torn(FlowOf(c)'.stream) \/ Late(c)'
                 \/ pcpp'[c].phase = "open" /\ Reading(c)'
      BY <1>0, <1>2, <2>4, <2>6, <3>1, <3>2, <3>3 DEF Reading, Late
    <3>4. HelloLen[c] # 0 => Reads(c)'
      BY <1>0, <3>3 DEF Reads
    <3>5. \A d \in Conns : KeyOf[d] # Key => FlowOf(d)' = FlowOf(d)
      BY <1>0, <2>6 DEF FlowOf
    <3> QED
      BY <1>0, <1>1, <2>6, <3>4, <3>5, CallbackAside
  <2> QED
    BY <2>3, <2>5, <2>6
<1>6. CASE OnConnectionEnd
  <2> DEFINE e == [conns[Key] EXCEPT !.closed = TRUE]
  <2>1. /\ e \in Entry /\ e.state = conns[Key].state /\ e.token = conns[Key].token
        /\ conns[Key].state \in {"None", "Wait", "Block"}
    BY <1>0, <1>1 DEF Entry
  <2>2. \/ Resolve(Key, e, NoHost, "ended", <<>>)
        \/ /\ conns' \in {[conns EXCEPT ![Key] = e], conns} /\ toClose' = toClose
           /\ conns[Key].state # "Wait"
    BY <1>6, <2>1 DEF OnConnectionEnd
  <2> HIDE DEF e
  <2>3. CASE Resolve(Key, e, NoHost, "ended", <<>>)
    <3>1. Named(e, Key)
      BY <1>0, <1>1, <2>1 DEF TokenInv, Named
    <3>2. ASSUME NEW d \in Conns, FlowOf(d)'.state = "Wait"
          PROVE  KeyOf[d] # Key /\ FlowOf(d)' = FlowOf(d) /\ (d \in toClose' => d \in toClose)
      BY <1>0, <1>1, <2>1, <2>3, <3>1, <3>2, ResolveAside
    <3>3. Reads(c)'
      BY <1>0, <1>1, <3>2 DEF Reads
    <3> QED
      BY <1>0, <1>1, <3>2, <3>3, CallbackAside
  <2>4. CASE /\ conns' \in {[conns EXCEPT ![Key] = e], conns} /\ toClose' = toClose
             /\ conns[Key].state # "Wait"
    <3>1. conns'[Key].state # "Wait" /\ \A x \in Keys \ {Key} : conns'[x] = conns[x]
      BY <1>0, <1>1, <2>1, <2>4
    <3>2. Reads(c)'
      BY <1>0, <1>1, <3>1 DEF Reads, FlowOf
    <3>3. \A d \in Conns : KeyOf[d] # Key => FlowOf(d)' = FlowOf(d)
      BY <1>0, <3>1 DEF FlowOf
    <3> QED
      BY <1>0, <1>1, <2>4, <3>2, <3>3, CallbackAside
  <2> QED
    BY <2>2, <2>3, <2>4
<1> QED
  BY <1>3, <1>4, <1>5, <1>6

\* The call is over: what has been read is read, or the connection is closed.
LEMMA EpilogueReads ==
  ASSUME OwnKeys, DropInv, ReadInv, Epilogue
  PROVE  ReadsInv'
<1>0. /\ conns \in [Keys -> Entry] /\ KeyOf \in [Conns -> Keys] /\ TypeOK /\ KeepsInv /\ ReadsInv
      /\ pc = "callbacks" /\ events = <<>> /\ pc' = "idle" /\ DrainCloses(pcpp)
      /\ pcpp \in [Conns -> ReassemblyState]
  BY ConnsAssumption DEF DropInv, BufferInv, TypeInv, TypeOK, Epilogue, Return, ReadInv
<1>1. Key \in Keys
  BY <1>0, KeyType DEF DropInv, BufferInv, TypeInv, FedConn
<1>2. \A x \in Keys : /\ conns'[x].state = conns[x].state /\ conns'[x].stream = conns[x].stream
                      /\ \A c : LateHeld(conns[x], c) => LateHeld(conns'[x], c)
  <2> DEFINE entry == [conns[Key] EXCEPT !.held = ReleaseLast(@)]
  <2>1. conns' = conns \/ conns' = [conns EXCEPT ![Key] = entry]
    BY <1>0, <1>1 DEF Epilogue
  <2>2. /\ entry.state = conns[Key].state /\ entry.stream = conns[Key].stream
        /\ entry.held = ReleaseLast(conns[Key].held) /\ conns[Key].held \in Seq(Packet)
    BY <1>0, <1>1 DEF Entry
  <2>3. ASSUME NEW c, LateHeld(conns[Key], c) PROVE LateHeld(entry, c)
    <3> DEFINE h == conns[Key].held
    <3>1. h # <<>> /\ h[1].conn = c /\ h[1].seg \in OpenSegs[c] \ {1}
      BY <2>3 DEF LateHeld
    <3>2. ReleaseLast(h) = [h EXCEPT ![Len(h)].view = FALSE]
      BY <3>1 DEF ReleaseLast
    <3>3. 1 \in 1..Len(h) /\ h[1] \in Packet /\ DOMAIN h = 1..Len(h) /\ Len(h) \in Nat
      BY <2>2, <3>1, EmptySeq, LenProperties, ElementOfSeq
    <3> HIDE DEF h
    <3>4. ReleaseLast(h)[1].conn = h[1].conn /\ ReleaseLast(h)[1].seg = h[1].seg
      BY <3>2, <3>3 DEF Packet
    <3>5. ReleaseLast(h) # <<>>
      <4>1. DOMAIN ReleaseLast(h) = 1..Len(h)
        BY <3>2, <3>3
      <4>2. DOMAIN <<>> = {}
        OBVIOUS
      <4> QED
        BY <3>3, <4>1, <4>2
    <3> QED
      BY <2>2, <3>1, <3>4, <3>5 DEF LateHeld, h
  <2> HIDE DEF entry
  <2> QED
    BY <1>0, <1>1, <2>1, <2>2, <2>3
<1>3. /\ toClose' = {}
      /\ \A c \in Conns : /\ Lasts(pcpp[c], pcpp'[c])
                          /\ c \in toClose /\ pcpp[c].phase = "open" => pcpp'[c].again
  <2>1. pcpp = [c \in Conns |-> IF FALSE THEN Purge(pcpp[c]) ELSE pcpp[c]]
    BY <1>0
  <2>2. DrainCloses([c \in Conns |-> IF FALSE THEN Purge(pcpp[c]) ELSE pcpp[c]])
    BY <1>0, <2>1
  <2> QED
    BY <1>0, <2>2, DrainKeeps
<1>4. Body(<<>>) = <<>> /\ Len(<<>>) = 0
  BY EmptySeq DEF Body
<1>5. ASSUME NEW c \in Conns, HelloLen[c] # 0 PROVE Reads(c)'
  <2>1. /\ ~Fed(c)' /\ ~JustAdmitted(c) /\ Reads(c)
        /\ FlowOf(c)'.state = FlowOf(c).state /\ FlowOf(c)'.stream = FlowOf(c).stream
        /\ LateHeld(FlowOf(c), c) => LateHeld(FlowOf(c)', c)
    BY <1>0, <1>2, <1>5 DEF Fed, JustAdmitted, ReadsInv, FlowOf
  <2>2. CASE ~Fed(c)
    BY <1>3, <2>1, <2>2, Aside
  <2>3. CASE Fed(c)
    <3> SUFFICES ASSUME FlowOf(c).state = "Wait", ~pcpp'[c].again
                 PROVE  \/ Torn(FlowOf(c)'.stream) \/ Late(c)'
                        \/ pcpp'[c].phase = "open" /\ ReadSoFar(c)'
      BY <2>1 DEF Reads
    <3>1. /\ ~pcpp[c].again /\ pcpp'[c].phase = pcpp[c].phase /\ pcpp'[c].next = pcpp[c].next
          /\ pcpp'[c].fin = pcpp[c].fin /\ ~(c \in toClose /\ pcpp[c].phase = "open")
      BY <1>3 DEF Lasts
    <3>2. Torn(FlowOf(c).stream) \/ Late(c) \/ (pcpp[c].phase = "open" /\ Reading(c))
      BY <1>0, <1>4, <2>1, <2>3, <3>1 DEF Reads, ReadSoFar, LateStart
    <3>3. CASE pcpp[c].phase = "open" /\ Reading(c)
      <4>1. PICK n \in Nat :
              /\ Speaks(<<>>, Len(FlowOf(c).stream) + 1, n)
              /\ pcpp[c].fin \/ pcpp[c].next = Len(FlowOf(c).stream) + 1 + n
        BY <1>0, <1>4, <3>1, <3>3 DEF Reading
      <4>2. n = 0
        BY <1>4, <4>1 DEF Speaks
      <4>3. Len(FlowOf(c).stream) \in Nat
        <5>1. FlowOf(c).stream \in Seq(Chunk)
          BY <1>0 DEF FlowOf, Entry
        <5> QED
          BY <5>1, LenProperties
      <4>4. pcpp[c].fin \/ pcpp[c].next = Len(FlowOf(c).stream) + 1
        BY <4>1, <4>2, <4>3
      <4> QED
        BY <1>3, <2>1, <3>1, <3>3, <4>4 DEF ReadSoFar, Reading
    <3>4. Late(c) => Late(c)'
      BY <2>1 DEF Late
    <3> QED
      BY <2>1, <3>2, <3>3, <3>4
  <2> QED
    BY <2>2, <2>3
<1> QED
  BY <1>5 DEF ReadsInv

-----------------------------------------------------------------------------
\* Each decision, against the reassembler's map as it is later.

Excused(d, map) ==
  HelloPiece(d.pkt) /\ HostOf[d.pkt.conn] \in BlockedHosts /\ d.verdict = "ALLOW"
    => \/ d.why \in FailOpen
       \/ d.why \in {"midstream", "foreign"} /\ map[d.pkt.conn].again
Excuses(s, map) ==
  \A i \in 1..Len(s) : Excused(s[i], map) \/ (s[i].why = "midstream" /\ BeganLate(s, i))

HelloInv == ReadInv /\ Excuses(answered, pcpp) /\ Excuses(decided, pcpp)

\* A connection that was closed before always was.
LEMMA ExcusedLater ==
  ASSUME NEW s \in Seq(Decision), Excuses(s, pcpp),
         \A c \in Conns : pcpp[c].again => pcpp'[c].again
  PROVE  Excuses(s, pcpp')
<1> SUFFICES ASSUME NEW i \in 1..Len(s), Excused(s[i], pcpp) PROVE Excused(s[i], pcpp')
  BY DEF Excuses
<1>1. s[i] \in Decision
  BY ElementOfSeq
<1>2. s[i].pkt.conn \in Conns \cup {NoConn}
  BY <1>1 DEF Decision, Packet
<1> QED
  BY <1>2 DEF Excused, HelloPiece

LEMMA ConcatExcuses ==
  ASSUME NEW map, NEW s \in Seq(Decision), NEW t \in Seq(Decision), Excuses(s, map), Excuses(t, map)
  PROVE  Excuses(s \o t, map) /\ s \o t \in Seq(Decision)
<1> DEFINE u == s \o t
<1>1. /\ u \in Seq(Decision) /\ Len(u) = Len(s) + Len(t) /\ Len(s) \in Nat /\ Len(t) \in Nat
      /\ \A i \in 1..(Len(s) + Len(t)) : u[i] = IF i <= Len(s) THEN s[i] ELSE t[i - Len(s)]
  BY ConcatProperties
<1> HIDE DEF u
<1>2. ASSUME NEW i \in 1..Len(u)
      PROVE  Excused(u[i], map) \/ (u[i].why = "midstream" /\ BeganLate(u, i))
  <2>1. CASE i <= Len(s)
    <3>1. i \in 1..Len(s) /\ \A j \in 1..i : u[j] = s[j]
      BY <1>1, <2>1
    <3>2. BeganLate(s, i) => BeganLate(u, i)
      BY <3>1 DEF BeganLate
    <3> QED
      BY <3>1, <3>2 DEF Excuses
  <2>2. CASE ~(i <= Len(s))
    <3> DEFINE k == i - Len(s)
    <3>1. /\ k \in 1..Len(t) /\ u[i] = t[k]
          /\ \A j \in 1..k : Len(s) + j \in 1..i /\ u[Len(s) + j] = t[j]
      BY <1>1, <2>2
    <3> HIDE DEF k
    <3>2. BeganLate(t, k) => BeganLate(u, i)
      BY <3>1 DEF BeganLate
    <3> QED
      BY <3>1, <3>2 DEF Excuses
  <2> QED
    BY <2>1, <2>2
<1> QED
  BY <1>1, <1>2 DEF u, Excuses

LEMMA AppendExcuses ==
  ASSUME NEW map, NEW s \in Seq(Decision), NEW d \in Decision, Excuses(s, map), Excused(d, map)
  PROVE  Excuses(Append(s, d), map)
<1>1. <<d>> \in Seq(Decision) /\ Excuses(<<d>>, map)
  BY SingleIsSeq DEF Excuses
<1>2. Append(s, d) = s \o <<d>>
  BY AppendIsConcat
<1> QED
  BY <1>1, <1>2, ConcatExcuses

LEMMA ResolveExcuses ==
  ASSUME decided \in Seq(Decision), NEW map, Excuses(decided, map), NEW k \in Keys, NEW e \in Entry,
         NEW host, NEW why \in Why, NEW more \in Seq(Decision), Excuses(more, map),
         Resolve(k, e, host, why, more),
         \A i \in 1..Len(e.held) : \/ Excused(Settle(e.held[i], Decide(host), why), map)
                                   \/ why = "midstream" /\ LateHeld(e, e.held[i].conn)
  PROVE  Excuses(decided', map)
<1> DEFINE all == SettleAll(e.held, Decide(host), why)
<1>0. e.held \in Seq(Packet)
  BY DEF Entry
<1>1. all \in Seq(Decision) /\ Len(all) = Len(e.held)
  BY <1>0, SettleAllType DEF Decide, Verdict
<1>2. \A i \in 1..Len(e.held) : all[i] = Settle(e.held[i], Decide(host), why)
  BY DEF SettleAll
<1>3. decided' = (decided \o all) \o more
  BY DEF Resolve
<1> HIDE DEF all
<1>4. Excuses(all, map)
  <2>1. ASSUME NEW i \in 1..Len(e.held), why = "midstream", LateHeld(e, e.held[i].conn)
        PROVE  all[i].why = "midstream" /\ BeganLate(all, i)
    <3>1. 1 \in 1..i /\ 1 \in 1..Len(e.held)
      BY <1>0, LenProperties
    <3>2. /\ all[1] = Settle(e.held[1], Decide(host), why)
          /\ all[i] = Settle(e.held[i], Decide(host), why)
      BY <1>2, <3>1
    <3>3. /\ all[1].pkt.conn = all[i].pkt.conn /\ all[1].why = "midstream" /\ all[i].why = "midstream"
          /\ all[1].pkt.seg \in OpenSegs[all[1].pkt.conn] \ {1}
      BY <2>1, <3>2 DEF Settle, LateHeld
    <3> QED
      BY <3>1, <3>3 DEF BeganLate
  <2> QED
    BY <1>1, <1>2, <2>1 DEF Excuses
<1>5. Excuses(decided \o all, map) /\ decided \o all \in Seq(Decision)
  BY <1>1, <1>4, ConcatExcuses
<1> QED
  BY <1>3, <1>5, ConcatExcuses

\* The reasons that excuse any packet.
LEMMA FailsOpen ==
  ASSUME NEW p, NEW v, NEW map, NEW why \in FailOpen
  PROVE  Excused(Settle(p, v, why), map) /\ why \in Why
BY DEF Excused, Settle, FailOpen, Why

\* The decision the parser's answer makes, on a flow of a blocked host's connection.
LEMMA AnswerExcused ==
  ASSUME OwnKeys, DropInv, ReadInv, Callback("message"), cur.conn \in Conns, Key \in Keys,
         conns[Key].state = "Wait",
         NEW r \in ExtractHostname(Appended(conns[Key]).stream), r.kind # "NeedMore",
         NEW i \in 1..Len(conns[Key].held)
  PROVE  LET kind == StreamKind(Appended(conns[Key]).stream)
         IN \/ Excused(Settle(conns[Key].held[i], Decide(r.host), kind), pcpp)
            \/ kind = "midstream" /\ LateHeld(conns[Key], conns[Key].held[i].conn)
<1> DEFINE s == Appended(conns[Key]).stream
           c == cur.conn
           p == conns[Key].held[i]
<1>1. p.conn = c
  <2>1. p.conn \in Conns /\ KeyOf[p.conn] = Key
    BY DEF DropInv, OwnInv, EntryOwn, OwnBytes
  <2> QED
    BY <2>1 DEF OwnKeys, Key
<1>2. /\ s # <<>> /\ s \in Seq(Chunk) /\ Len(s) \in Nat \ {0}
      /\ \A j \in 1..Len(s) : s[j] \in Chunk /\ s[j].conn = c
  <2>1. /\ s # <<>> /\ s \in Seq(Chunk)
        /\ \A j \in 1..Len(s) : s[j].conn \in Conns /\ KeyOf[s[j].conn] = Key
    BY AppendedOwn DEF OwnBytes, Entry
  <2>2. Len(s) \in Nat \ {0} /\ \A j \in 1..Len(s) : s[j] \in Chunk
    BY <2>1, EmptySeq, LenProperties, ElementOfSeq
  <2> QED
    BY <2>1, <2>2 DEF OwnKeys, Key
<1>3. HelloLen[c] # 0 /\ ~pcpp[c].again =>
        Torn(s) \/ (LateHeld(conns[Key], c) /\ s[1].seg # 1) \/ Straight(s)
  BY MessageReads
<1> HIDE DEF s
<1> SUFFICES ASSUME HelloPiece(p), HostOf[c] \in BlockedHosts, Decide(r.host) = "ALLOW"
             PROVE  \/ StreamKind(s) \in FailOpen
                    \/ StreamKind(s) \in {"midstream", "foreign"} /\ pcpp[c].again
                    \/ StreamKind(s) = "midstream" /\ LateHeld(conns[Key], c)
  BY <1>1 DEF Excused, Settle, s
<1>4. p.seg \in 1..HelloLen[c] /\ HelloLen[c] # 0
  <2>1. p.seg \in 1..HelloLen[c] /\ HelloLen[c] \in Nat
    BY <1>1, StreamsAssumption, MaxSegAssumption DEF HelloPiece
  <2> QED
    BY <2>1
<1>5. StreamKind(s) \in {"hello", "hole", "midstream", "foreign"} /\ "hole" \in FailOpen
  BY DEF StreamKind, FailOpen
<1>6. ~FromByteZero(s)
  <2> SUFFICES ASSUME FromByteZero(s) PROVE FALSE
    OBVIOUS
  <2>1. s[1].seg = 1 /\ s[1].conn = c /\ StreamKind(s) = "hello"
    <3>1. 1 \in 1..Len(s) /\ s[1].conn = c
      BY <1>2
    <3>2. s[1] = [conn |-> s[1].conn, seg |-> 1]
      BY <3>1 DEF FromByteZero
    <3>3. [conn |-> s[1].conn, seg |-> 1].seg = 1
      OBVIOUS
    <3>4. StreamKind(s) = "hello"
      BY DEF StreamKind
    <3> QED
      BY <3>1, <3>2, <3>3, <3>4
  <2>2. r = Found(NameIn(c))
    <3>1. HelloLen[s[1].conn] # 0 /\ r \in ExtractHostname(s)
      BY <1>4, <2>1 DEF s
    <3>2. r \in {IF Len(s) < HelloLen[s[1].conn] THEN NeedMore ELSE Found(NameIn(s[1].conn))}
      BY <2>1, <3>1 DEF ExtractHostname
    <3>3. r # NeedMore
      BY DEF NeedMore
    <3> QED
      BY <2>1, <3>2, <3>3
  <2>3. r.host = HostOf[c]
    BY <1>4, <2>2 DEF Found, NameIn
  <2> QED
    BY <2>3 DEF Decide
<1>7. CASE StreamKind(s) \in {"midstream", "foreign"}
  <2> SUFFICES ASSUME ~pcpp[c].again
               PROVE  StreamKind(s) = "midstream" /\ LateHeld(conns[Key], c)
    BY <1>7
  <2>1. ~Torn(s)
    BY <1>6, <1>7 DEF StreamKind, Torn
  <2>2. ~Straight(s)
    <3> SUFFICES ASSUME Straight(s) PROVE FALSE
      OBVIOUS
    <3>1. ASSUME NEW j \in 1..Len(s) PROVE s[j] = [conn |-> s[1].conn, seg |-> j]
      <4>1. s[j] \in Chunk /\ s[j].conn = s[1].conn /\ s[j].seg = j
        BY <1>2 DEF Straight
      <4> QED
        BY <4>1 DEF Chunk
    <3> QED
      BY <1>6, <3>1 DEF FromByteZero
  <2>3. LateHeld(conns[Key], c) /\ s[1].seg # 1
    BY <1>3, <1>4, <2>1, <2>2
  <2> QED
    BY <1>7, <2>3 DEF StreamKind
<1>8. StreamKind(s) # "hello"
  BY <1>6 DEF StreamKind
<1> QED
  BY <1>5, <1>7, <1>8

LEMMA StepExcuses ==
  ASSUME OwnKeys, DropInv, HelloInv, Step
  PROVE  Excuses(decided', pcpp)
<1>0. /\ conns \in [Keys -> Entry] /\ TypeOK /\ FedConn /\ decided \in Seq(Decision) /\ cur \in Packet
      /\ Excuses(decided, pcpp) /\ ReadInv /\ <<>> \in Seq(Decision) /\ Excuses(<<>>, pcpp)
      /\ Verdict = {"ALLOW", "BLOCK"}
  BY EmptySeq DEF DropInv, BufferInv, TypeInv, TypeOK, HelloInv, Excuses, Verdict
<1>k. cur.conn # NoConn => Key \in Keys /\ cur.conn \in Conns /\ conns[Key] \in Entry
  BY <1>0, KeyType
<1>a. ASSUME NEW v \in Verdict, NEW why \in Why, Excused(Settle(cur, v, why), pcpp),
             decided' = Append(decided, Settle(cur, v, why))
      PROVE  Excuses(decided', pcpp)
  BY <1>0, <1>a, SettleType, AppendExcuses
<1>r. ASSUME NEW k \in Keys, NEW e \in Entry, NEW why \in FailOpen, NEW more \in Seq(Decision),
             Excuses(more, pcpp), Resolve(k, e, NoHost, why, more)
      PROVE  Excuses(decided', pcpp)
  BY <1>0, <1>r, FailsOpen, ResolveExcuses
<1>f. /\ {"untracked", "cap", "flood", "oversize", "idle", "ended", "shutdown"} \subseteq FailOpen
      /\ {"control", "undissected", "blocked"} \subseteq Why
  BY DEF FailOpen, Why
<1>z. cur.seg = 0 => \A v, why : Excused(Settle(cur, v, why), pcpp)
  <2>1. ASSUME cur.seg = 0 PROVE ~HelloPiece(cur)
    BY <2>1 DEF HelloPiece
  <2> QED
    BY <2>1 DEF Excused, Settle
<1>1. ASSUME NEW k \in Keys, SweepWaiting(k) \/ FlushOne(k) PROVE Excuses(decided', pcpp)
  <2>1. \E why \in FailOpen : Resolve(k, conns[k], NoHost, why, <<>>)
    BY <1>1, <1>f DEF SweepWaiting, FlushOne
  <2> QED
    BY <1>0, <1>r, <2>1
<1>2. CASE AllowUndissected
  <2>1. Excused(Settle(cur, "ALLOW", "undissected"), pcpp)
    BY <1>2 DEF AllowUndissected, Excused, Settle, HelloPiece
  <2> QED
    BY <1>0, <1>2, <1>a, <1>f, <2>1 DEF AllowUndissected, ReturnWith
<1>3. CASE DropBlocked
  <2>1. Excused(Settle(cur, "BLOCK", "blocked"), pcpp)
    BY DEF Excused, Settle
  <2> QED
    BY <1>0, <1>3, <1>a, <1>f, <2>1 DEF DropBlocked, ReturnWith
<1>4. CASE AllowUntracked
  <2>1. CASE cur.seg = 0
    BY <1>0, <1>4, <1>a, <1>f, <1>z, <2>1 DEF AllowUntracked, ReturnWith
  <2>2. CASE cur.seg # 0
    BY <1>0, <1>4, <1>a, <1>f, <2>2, FailsOpen DEF AllowUntracked, ReturnWith
  <2> QED
    BY <2>1, <2>2
<1>5. CASE AllowAtCap
  BY <1>0, <1>5, <1>a, <1>f, FailsOpen DEF AllowAtCap, ReturnWith
<1>6. CASE AllowFlooded
  <2> DEFINE d == Settle(cur, "ALLOW", "flood")
  <2>1. d \in Decision /\ Excused(d, pcpp)
    BY <1>0, <1>f, SettleType, FailsOpen
  <2>2. Resolve(Key, conns[Key], NoHost, "flood", <<d>>) /\ Key \in Keys /\ conns[Key] \in Entry
    BY <1>6, <1>k DEF AllowFlooded, Undecided
  <2> HIDE DEF d
  <2>3. <<d>> \in Seq(Decision) /\ Excuses(<<d>>, pcpp)
    BY <2>1, SingleIsSeq DEF Excuses
  <2> QED
    BY <1>f, <1>r, <2>2, <2>3
<1>7. CASE AllowBareAck
  BY <1>0, <1>7, <1>a, <1>f, <1>z DEF AllowBareAck, ReturnWith
<1>8. CASE OnMessageReady
  <2> DEFINE e == Appended(conns[Key])
  <2>1. Callback("message") /\ Key \in Keys /\ cur.conn \in Conns /\ conns[Key].state = "Wait"
    BY <1>0, <1>8, <1>k DEF OnMessageReady, Callback, FedConn
  <2>2. e \in Entry /\ e.held = conns[Key].held
    BY <2>1, AppendedOwn
  <2>3. PICK r \in ExtractHostname(e.stream) :
          \/ r.kind # "NeedMore" /\ Resolve(Key, e, r.host, StreamKind(e.stream), <<>>)
          \/ Resolve(Key, e, NoHost, "oversize", <<>>)
          \/ UNCHANGED decided
    BY <1>8 DEF OnMessageReady
  <2>4. CASE r.kind # "NeedMore" /\ Resolve(Key, e, r.host, StreamKind(e.stream), <<>>)
    <3>1. StreamKind(e.stream) \in Why
      BY DEF StreamKind, Why
    <3>2. \A i \in 1..Len(e.held) :
            \/ Excused(Settle(e.held[i], Decide(r.host), StreamKind(e.stream)), pcpp)
            \/ StreamKind(e.stream) = "midstream" /\ LateHeld(e, e.held[i].conn)
      BY <1>0, <2>1, <2>2, <2>4, AnswerExcused DEF LateHeld
    <3> HIDE DEF e
    <3> QED
      BY <1>0, <2>1, <2>2, <2>4, <3>1, <3>2, ResolveExcuses
  <2> HIDE DEF e
  <2>5. CASE Resolve(Key, e, NoHost, "oversize", <<>>)
    BY <1>0, <1>f, <1>r, <2>1, <2>2, <2>5
  <2> QED
    BY <1>0, <2>3, <2>4, <2>5
<1>9. CASE OnConnectionEnd
  <2> DEFINE e == [conns[Key] EXCEPT !.closed = TRUE]
  <2>1. Key \in Keys /\ conns[Key] \in Entry
    BY <1>0, <1>9, <1>k DEF OnConnectionEnd, Callback, FedConn
  <2>2. e \in Entry /\ e.state \in {"None", "Wait", "Block"}
    BY <2>1 DEF Entry
  <2>3. Resolve(Key, e, NoHost, "ended", <<>>) \/ UNCHANGED decided
    BY <1>9, <2>2 DEF OnConnectionEnd
  <2> HIDE DEF e
  <2> QED
    BY <1>0, <1>f, <1>r, <2>1, <2>2, <2>3
<1>10. CASE Epilogue
  BY <1>0, <1>10, <1>a, <1>f, <1>z DEF Epilogue
<1>11. CASE \/ \E k \in Keys : SweepBlocked(k)
            \/ SweepEnd \/ FlushEnd \/ AdmitWithRoom \/ AdmitByEviction
            \/ (\E b \in BOOLEAN : FeedReassembler(b)) \/ OnConnectionStart \/ OnMessageIgnored
  BY <1>0, <1>11 DEF SweepBlocked, SweepEnd, FlushEnd, AdmitWithRoom, AdmitByEviction,
     FeedReassembler, OnConnectionStart, OnMessageIgnored
<1> QED
  BY <1>1, <1>2, <1>3, <1>4, <1>5, <1>6, <1>7, <1>8, <1>9, <1>10, <1>11 DEF Step

LEMMA NextHello ==
  ASSUME OwnKeys, SynFirst
  PROVE  DropInv /\ CloseInv /\ HelloInv /\ [Next]_vars => HelloInv'
<1> SUFFICES ASSUME DropInv, CloseInv, HelloInv, [Next]_vars PROVE HelloInv'
  OBVIOUS
<1>0. /\ TypeOK /\ ReadInv /\ decided \in Seq(Decision) /\ answered \in Seq(Decision)
      /\ KeepsInv /\ TokenInv /\ CurSyn /\ Excuses(answered, pcpp) /\ Excuses(decided, pcpp)
  BY DEF DropInv, BufferInv, TypeInv, TypeOK, HelloInv, ReadInv
<1>1. KeepsInv' /\ \A c \in Conns : pcpp[c].again => pcpp'[c].again
  BY <1>0, NextKeeps
<1>2. TokenInv' /\ CurSyn'
  BY <1>0, NextNamed, NextCurSyn
<1>3. ReadsInv'
  BY <1>0, SweepReads, FeedReads, ReassemblerReads, CallbackReads, EpilogueReads DEF Next, Step
<1>4. Excuses(decided', pcpp) /\ Excuses(answered', pcpp)
  <2>1. CASE Step
    BY <1>0, <2>1, StepExcuses, StepAnswers
  <2>2. CASE Drain
    <3>1. answered' = answered \o decided /\ decided' = <<>>
      BY <2>2 DEF Drain
    <3>2. Excuses(answered \o decided, pcpp)
      BY <1>0, ConcatExcuses
    <3>3. Excuses(<<>>, pcpp)
      BY EmptySeq DEF Excuses
    <3> QED
      BY <3>1, <3>2, <3>3
  <2>3. CASE Tick \/ Flush \/ Elapse \/ Finished \/ UNCHANGED vars \/ \E h \in Arrivals : Feed(h)
    <3>1. answered' = answered /\ decided' = decided
      BY <2>3 DEF Tick, Flush, Elapse, Finished, vars, Feed
    <3> QED
      BY <1>0, <3>1
  <2> QED
    BY <2>1, <2>2, <2>3 DEF Next
<1>5. decided' \in Seq(Decision) /\ answered' \in Seq(Decision)
  BY NextDrop DEF DropInv, BufferInv, TypeInv, TypeOK
<1>6. Excuses(decided', pcpp') /\ Excuses(answered', pcpp')
  <2>1. ASSUME NEW s \in Seq(Decision), Excuses(s, pcpp) PROVE Excuses(s, pcpp')
    BY <1>1, <2>1, ExcusedLater
  <2> QED
    BY <1>4, <1>5, <2>1
<1> QED
  BY <1>1, <1>2, <1>3, <1>6 DEF HelloInv, ReadInv

LEMMA InitHello == Init => HelloInv
<1> SUFFICES ASSUME Init PROVE HelloInv
  OBVIOUS
<1>1. KeepsInv
  BY DEF Init, KeepsInv, Keeps, NoState
<1>2. TokenInv
  BY ConstNamed DEF Init, TokenInv
<1>3. CurSyn
  BY DEF Init, CurSyn, NoPacket
<1>4. ReadsInv
  BY ConnsAssumption DEF Init, ReadsInv, Reads, FlowOf, Absent
<1>5. Excuses(answered, pcpp) /\ Excuses(decided, pcpp)
  BY EmptySeq DEF Init, Excuses
<1> QED
  BY <1>1, <1>2, <1>3, <1>4, <1>5 DEF HelloInv, ReadInv

\* Where every connection has its own key and the data of a SYN is the first of its
\* connection: a piece of a blocked host's ClientHello is let through only by the fail-open
\* paths, once the reassembler has had the connection closed, or with the packet of a later
\* record that the flow began with.  For every number of segments, cut at record boundaries
\* or elsewhere, arriving in any order, lost, repeated or ended early.
THEOREM BlockedHelloAlwaysStopped ==
  ASSUME \A c, d \in Conns : KeyOf[c] = KeyOf[d] => c = d,
         \A h \in Arrivals : h.syn => h.seg \in {0, 1}
  PROVE  Spec => []BlockedHelloStopped
<1>1. OwnKeys /\ SynFirst
  BY DEF OwnKeys, SynFirst
<1>2. DropInv /\ CloseInv /\ HelloInv /\ [Next]_vars => HelloInv'
  BY <1>1, NextHello
<1>3. DropInv /\ HelloInv => BlockedHelloStopped
  <2> SUFFICES ASSUME DropInv, HelloInv PROVE BlockedHelloStopped
    OBVIOUS
  <2>1. Excuses(Settled, pcpp)
    BY ConcatExcuses DEF DropInv, BufferInv, TypeInv, TypeOK, HelloInv, Settled
  <2> QED
    BY <2>1 DEF Excuses, Excused, BlockedHelloStopped
<1> QED
  BY <1>2, <1>3, InitHello, DropInvAlways, CloseInvAlways, PTL DEF Spec
=============================================================================
