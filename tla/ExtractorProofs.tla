-------------------------- MODULE ExtractorProofs --------------------------
(***************************************************************************)
(* Proofs about the extractor, for every set of connections and packets    *)
(* and every value of the limits: its types, the bounds on the flow table, *)
(* the bounds on what its flows buffer, and what each step of a call moves *)
(* (the lemma that LedgerProofs, VerdictProofs and WorkerProofs rest on).  *)
(*                                                                         *)
(* The bound on blocked flows is not inductive by itself: it follows from  *)
(* every blocked flow having a slot of a ring of MaxBlocked slots.         *)
(***************************************************************************)
EXTENDS ExtractorProps, FiniteSetTheorems, SequenceTheorems, TLAPS

USE DEF quiet

\* The ring has at least one slot and no more than the table may have entries.
LEMMA LimitsType ==
  /\ MaxFlows \in Nat \ {0} /\ MaxBlocked \in Nat \ {0} /\ MaxBlocked <= MaxFlows
BY LimitsAssumption DEF MaxFlows, MaxBlocked, WantBlocked, BlockedShare

\* Functions on an initial segment are sequences, and sequences of one element.
LEMMA FunIsSeq ==
  ASSUME NEW S, NEW n \in Nat, NEW f \in [1..n -> S]
  PROVE  f \in Seq(S) /\ Len(f) = n
<1>1. f \in Seq(S)
  BY SeqDef
<1>2. DOMAIN f = 1..n /\ DOMAIN f = 1..Len(f) /\ Len(f) \in Nat
  BY <1>1, LenProperties
<1> QED
  BY <1>1, <1>2

LEMMA SingleIsSeq ==
  ASSUME NEW S, NEW x \in S
  PROVE  <<x>> \in Seq(S) /\ Len(<<x>>) = 1 /\ <<x>>[1] = x
OBVIOUS

LEMMA PairIsSeq ==
  ASSUME NEW S, NEW x \in S, NEW y \in S
  PROVE  <<x, y>> \in Seq(S)
OBVIOUS

\* Ring arithmetic stays on the ring.
LEMMA SlotType ==
  /\ \A i \in Nat : NextSlot(i) \in Slots
  /\ ringNext \in Slots => \A n \in Nat : SlotAfter(n) \in Slots
BY LimitsType DEF NextSlot, SlotAfter, Slots

\* The number of buffered segments that follow on from segment n.
LEMMA RunBound ==
  ASSUME NEW ooo, NEW n \in 1..(MaxSeg + 1)
  PROVE  Cardinality(RunFrom(ooo, n)) \in 0..(MaxSeg + 1 - n)
<1>1. MaxSeg \in Nat
  BY MaxSegAssumption
<1>2. IsFiniteSet(n..MaxSeg) /\ Cardinality(n..MaxSeg) = IF n > MaxSeg THEN 0 ELSE MaxSeg - n + 1
  BY <1>1, FS_Interval
<1>3. RunFrom(ooo, n) \in SUBSET (n..MaxSeg)
  BY DEF RunFrom
<1>4. /\ IsFiniteSet(RunFrom(ooo, n))
      /\ Cardinality(RunFrom(ooo, n)) <= Cardinality(n..MaxSeg)
  BY <1>2, <1>3, FS_Subset
<1>5. Cardinality(RunFrom(ooo, n)) \in Nat
  BY <1>4, FS_CardinalityType
<1> QED
  BY <1>1, <1>2, <1>4, <1>5

\* What one call of the reassembler returns.
Outcome == [st : ReassemblyState, events : Seq(Event)]

LEMMA OutcomeType ==
  \A s \in ReassemblyState : \A e \in Seq(Event) : [st |-> s, events |-> e] \in Outcome
BY DEF Outcome

LEMMA EventType ==
  /\ Start \in Event /\ End \in Event
  /\ \A d \in Seq(0..MaxSeg) : Message(d) \in Event
BY DEF Start, End, Message, Event

LEMMA DeliverType ==
  ASSUME NEW st \in ReassemblyState, NEW seg \in Segs
  PROVE  Deliver(st, seg) \in Outcome
<1>1. MaxSeg \in Nat /\ seg \in 1..MaxSeg
  BY MaxSegAssumption DEF Segs
<1>2. CASE st.next = 0 \/ seg = st.next
  <2> DEFINE n == 1 + Cardinality(RunFrom(st.ooo, seg + 1))
             evs == [i \in 1..n |-> Message(<<seg + i - 1>>)]
             kept == {i \in st.ooo : i > seg + n}
             after == [st EXCEPT !.next = seg + n, !.ooo = kept]
  <2>1. n \in 1..(MaxSeg + 1 - seg)
    BY <1>1, RunBound
  <2>2. Deliver(st, seg) = [st |-> after, events |-> evs]
    BY <1>2 DEF Deliver
  <2>3. kept \in SUBSET Segs
    BY DEF ReassemblyState
  <2> HIDE DEF n, kept
  <2>4. seg + n \in 0..(MaxSeg + 1)
    BY <1>1, <2>1
  <2>5. after \in ReassemblyState
    BY <2>3, <2>4 DEF ReassemblyState
  <2>6. \A i \in 1..n : Message(<<seg + i - 1>>) \in Event
    <3>1. SUFFICES ASSUME NEW i \in 1..n PROVE Message(<<seg + i - 1>>) \in Event
      OBVIOUS
    <3>2. seg + i - 1 \in 0..MaxSeg
      BY <1>1, <2>1
    <3> QED
      BY <3>2, EventType, SingleIsSeq
  <2>7. n \in Nat /\ evs \in [1..n -> Event]
    BY <1>1, <2>1, <2>6
  <2> HIDE DEF evs
  <2>8. evs \in Seq(Event)
    BY <2>7, FunIsSeq
  <2> QED
    BY <2>2, <2>5, <2>8 DEF Outcome
<1>3. CASE ~(st.next = 0 \/ seg = st.next)
  BY <1>3, EmptySeq DEF Deliver, Outcome, ReassemblyState
<1> QED
  BY <1>2, <1>3

LEMMA AscendingType ==
  ASSUME NEW S \in SUBSET Segs, NEW rest \in Ascending(S)
  PROVE  rest \in Seq(Segs)
<1>1. IsFiniteSet(S) /\ Cardinality(S) \in Nat
  <2>1. MaxSeg \in Nat /\ 1 \in Int
    BY MaxSegAssumption
  <2>2. IsFiniteSet(1..MaxSeg)
    BY <2>1, FS_Interval
  <2>3. IsFiniteSet(S)
    BY <2>2, FS_Subset DEF Segs
  <2> QED
    BY <2>3, FS_CardinalityType
<1>2. rest \in [1..Cardinality(S) -> S]
  BY DEF Ascending
<1>3. rest \in Seq(S)
  BY <1>1, <1>2, FunIsSeq
<1> QED
  BY <1>3

LEMMA FinishType ==
  ASSUME NEW st \in ReassemblyState, NEW rst \in BOOLEAN, NEW rest \in Seq(Segs)
  PROVE  Finish(st, rst, rest) \in Outcome
<1> DEFINE Expected(i) == IF i = 1 THEN st.next ELSE rest[i - 1] + 1
           Data(i) == IF rest[i] = Expected(i) THEN <<rest[i]>> ELSE <<Missing, rest[i]>>
           evs == [i \in 1..Len(rest) |-> Message(Data(i))]
           last == IF rst THEN <<End>> ELSE <<>>
           after == [st EXCEPT !.ooo = {}, !.fin = TRUE,
                               !.phase = IF rst THEN "closed" ELSE @, !.again = @ \/ rst]
<1>1. Finish(st, rst, rest) = [st |-> after, events |-> evs \o last]
  BY DEF Finish
<1>2. after \in ReassemblyState
  BY DEF ReassemblyState
<1>3. last \in Seq(Event)
  BY EventType, SingleIsSeq, EmptySeq
<1>4. \A i \in 1..Len(rest) : Message(Data(i)) \in Event
  <2>1. SUFFICES ASSUME NEW i \in 1..Len(rest) PROVE Message(Data(i)) \in Event
    OBVIOUS
  <2>2. rest[i] \in 0..MaxSeg /\ Missing \in 0..MaxSeg
    BY ElementOfSeq, MaxSegAssumption DEF Segs, Missing
  <2>3. <<rest[i]>> \in Seq(0..MaxSeg) /\ <<Missing, rest[i]>> \in Seq(0..MaxSeg)
    BY <2>2, SingleIsSeq, PairIsSeq
  <2>4. Data(i) \in Seq(0..MaxSeg)
    BY <2>3
  <2> QED
    BY <2>4, EventType
<1>5. Len(rest) \in Nat /\ evs \in [1..Len(rest) -> Event]
  BY <1>4, LenProperties
<1> HIDE DEF evs, last, after
<1>6. evs \in Seq(Event)
  BY <1>5, FunIsSeq
<1>7. evs \o last \in Seq(Event)
  BY <1>3, <1>6, ConcatProperties
<1> QED
  BY <1>1, <1>2, <1>7 DEF Outcome

LEMMA AbsorbType ==
  ASSUME NEW st \in ReassemblyState, NEW p \in Packet
  PROVE  Absorb(st, p) \in Outcome
<1>1. MaxSeg \in Nat
  BY MaxSegAssumption
<1>2. CASE p.seg # 0
  <2>1. p.seg \in Segs
    BY <1>1, <1>2 DEF Packet, Segs
  <2> QED
    BY <1>2, <2>1, DeliverType DEF Absorb
<1>3. CASE p.seg = 0
  <2>1. [st EXCEPT !.next = 1] \in ReassemblyState
    BY <1>1 DEF ReassemblyState
  <2> QED
    BY <1>3, <2>1, EmptySeq DEF Absorb, Outcome
<1> QED
  BY <1>2, <1>3

LEMMA ProcessType ==
  ASSUME NEW st \in ReassemblyState, NEW p \in Packet, NEW r \in Process(st, p)
  PROVE  r \in Outcome
<1>1. CASE st.fin
  <2> DEFINE after == [st EXCEPT !.phase = "closed", !.again = TRUE]
  <2>1. after \in ReassemblyState
    BY DEF ReassemblyState
  <2>2. <<End>> \in Seq(Event) /\ <<>> \in Seq(Event)
    BY EventType, SingleIsSeq, EmptySeq
  <2>3. r = [st |-> after, events |-> <<End>>] \/ r = [st |-> st, events |-> <<>>]
    BY <1>1 DEF Process
  <2> HIDE DEF after
  <2> QED
    BY <2>1, <2>2, <2>3, OutcomeType, Zenon
<1>2. CASE ~st.fin /\ (p.fin \/ p.rst)
  <2> DEFINE d == Absorb(st, p)
  <2>1. d \in Outcome
    BY AbsorbType
  <2>2. PICK rest \in Ascending(d.st.ooo) :
          r = [st |-> Finish(d.st, p.rst, rest).st,
               events |-> d.events \o Finish(d.st, p.rst, rest).events]
    BY <1>2 DEF Process, AbsorbAndFinish
  <2> HIDE DEF d
  <2>3. d.st \in ReassemblyState /\ d.events \in Seq(Event) /\ d.st.ooo \in SUBSET Segs
    BY <2>1 DEF Outcome, ReassemblyState
  <2>4. rest \in Seq(Segs)
    BY <2>3, AscendingType
  <2>5. Finish(d.st, p.rst, rest) \in Outcome
    BY <2>3, <2>4, FinishType DEF Packet
  <2>6. d.events \o Finish(d.st, p.rst, rest).events \in Seq(Event)
    BY <2>3, <2>5, ConcatProperties DEF Outcome
  <2> QED
    BY <2>2, <2>5, <2>6 DEF Outcome
<1>3. CASE ~st.fin /\ ~(p.fin \/ p.rst)
  BY <1>3, AbsorbType DEF Process
<1> QED
  BY <1>1, <1>2, <1>3

\* reassemblePacket() keeps its connection map and makes well-formed callbacks.
LEMMA ReassembleType ==
  ASSUME NEW st \in ReassemblyState, NEW p \in Packet, NEW r \in Reassemble(st, p)
  PROVE  r \in Outcome
<1>1. CASE st.phase = "none"
  <2>1. [st EXCEPT !.phase = "open"] \in ReassemblyState
    BY DEF ReassemblyState
  <2>2. PICK q \in Process([st EXCEPT !.phase = "open"], p) :
          r = [st |-> q.st, events |-> <<Start>> \o q.events]
    BY <1>1 DEF Reassemble
  <2>3. q \in Outcome
    BY <2>1, ProcessType
  <2>4. <<Start>> \o q.events \in Seq(Event)
    BY <2>3, EventType, SingleIsSeq, ConcatProperties DEF Outcome
  <2> QED
    BY <2>2, <2>3, <2>4 DEF Outcome
<1>2. CASE st.phase = "open"
  BY <1>2, ProcessType DEF Reassemble
<1>3. CASE st.phase = "closed"
  <2>1. r = [st |-> st, events |-> <<>>]
    BY <1>3 DEF Reassemble
  <2> QED
    BY <2>1, EmptySeq DEF Outcome
<1> QED
  BY <1>1, <1>2, <1>3 DEF ReassemblyState

LEMMA NoStateType ==
  NoState \in ReassemblyState /\ [NoState EXCEPT !.again = TRUE] \in ReassemblyState
<1>1. /\ 0 \in 0..(MaxSeg + 1) /\ 0 \in 0..ClosedDelay /\ {} \in SUBSET Segs
  BY MaxSegAssumption, ClosedDelayAssumption
<1>2. NoState \in ReassemblyState
  BY <1>1 DEF NoState, ReassemblyState
<1> QED
  BY <1>2 DEF ReassemblyState

\* Time, purging and closing keep a connection's state well formed.
LEMMA MapType ==
  ASSUME NEW st \in ReassemblyState
  PROVE  /\ Purge(st) \in ReassemblyState
         /\ Age(st) \in ReassemblyState
         /\ CloseConnection(st) \in ReassemblyState
<1>1. MaxSeg \in Nat /\ ClosedDelay \in Nat
  BY MaxSegAssumption, ClosedDelayAssumption
<1>2. Purge(st) \in ReassemblyState
  BY NoStateType DEF Purge
<1>3. Age(st) \in ReassemblyState
  <2>1. ASSUME st.age < ClosedDelay PROVE st.age + 1 \in 0..ClosedDelay
    BY <1>1, <2>1 DEF ReassemblyState
  <2> QED
    BY <2>1 DEF Age, ReassemblyState
<1>4. CloseConnection(st) \in ReassemblyState
  BY DEF CloseConnection, ReassemblyState
<1> QED
  BY <1>2, <1>3, <1>4

-----------------------------------------------------------------------------
\* The parts actions are built from keep the types.

LEMMA ConstType ==
  /\ Absent \in Entry /\ NewConn \in Entry /\ NoPacket \in Packet
  /\ Absent.state = "None" /\ NewConn.state = "Wait"
<1>1. <<>> \in Seq(Packet) /\ <<>> \in Seq(Chunk)
  BY EmptySeq
<1>2. Absent \in Entry
  BY <1>1 DEF Absent, Entry
<1>3. NewConn \in Entry /\ NewConn.state = "Wait"
  BY <1>2 DEF NewConn, Entry
<1>4. NoPacket \in Packet
  BY MaxSegAssumption DEF NoPacket, Packet
<1> QED
  BY <1>2, <1>3, <1>4 DEF Absent

LEMMA CardType == \A S \in SUBSET Keys : IsFiniteSet(S) /\ Cardinality(S) \in Nat
BY KeysAssumption, FS_Subset, FS_CardinalityType

LEMMA SettleType ==
  ASSUME NEW p \in Packet, NEW v \in Verdict, NEW why \in Why
  PROVE  Settle(p, v, why) \in Decision
BY DEF Settle, Decision

LEMMA SettleAllType ==
  ASSUME NEW held \in Seq(Packet), NEW v \in Verdict, NEW why \in Why
  PROVE  SettleAll(held, v, why) \in Seq(Decision) /\ Len(SettleAll(held, v, why)) = Len(held)
<1>1. Len(held) \in Nat /\ \A i \in 1..Len(held) : held[i] \in Packet
  BY LenProperties, ElementOfSeq
<1>2. SettleAll(held, v, why) \in [1..Len(held) -> Decision]
  BY <1>1, SettleType DEF SettleAll
<1> QED
  BY <1>1, <1>2, FunIsSeq

\* Variables resolve() changes.
FlowTypes ==
  /\ conns \in [Keys -> Entry]
  /\ ring \in [Slots -> Nat] /\ ringNext \in Slots
  /\ toClose \in SUBSET Conns
  /\ decided \in Seq(Decision)

LEMMA ResolveType ==
  ASSUME FlowTypes, NEW k \in Keys, NEW c \in Entry, NEW host, NEW why \in Why,
         NEW more \in Seq(Decision), Resolve(k, c, host, why, more)
  PROVE  FlowTypes'
<1>1. Decide(host) \in Verdict
  BY DEF Decide, Verdict
<1>2. c.held \in Seq(Packet) /\ c.token \in Conns \cup {NoConn}
  BY DEF Entry
<1>3. decided' \in Seq(Decision)
  <2>1. SettleAll(c.held, Decide(host), why) \in Seq(Decision)
    BY <1>1, <1>2, SettleAllType
  <2>2. decided \o SettleAll(c.held, Decide(host), why) \in Seq(Decision)
    BY <2>1, ConcatProperties DEF FlowTypes
  <2> QED
    BY <2>2, ConcatProperties DEF Resolve
<1>4. toClose' \in SUBSET Conns
  BY <1>2 DEF Resolve, QueueClose, FlowTypes
<1>5. CASE Decide(host) = "BLOCK"
  <2>1. RememberBlocked(k, c)
    BY <1>5 DEF Resolve
  <2>2. [c EXCEPT !.state = "Block", !.held = <<>>, !.stream = <<>>] \in Entry
    BY EmptySeq DEF Entry
  <2>3. conns' \in [Keys -> Entry]
    BY <2>1, <2>2, ConstType DEF RememberBlocked, FlowTypes
  <2>4. ring' \in [Slots -> Nat] /\ ringNext' \in Slots
    <3>1. k \in Nat /\ ringNext \in Nat
      BY KeysAssumption, LimitsType DEF FlowTypes, Slots
    <3> QED
      BY <2>1, <3>1, SlotType DEF RememberBlocked, FlowTypes
  <2> QED
    BY <1>3, <1>4, <2>3, <2>4 DEF FlowTypes
<1>6. CASE Decide(host) # "BLOCK"
  BY <1>3, <1>4, <1>6, ConstType DEF Resolve, FlowTypes
<1> QED
  BY <1>5, <1>6

LEMMA DrainClosesType ==
  ASSUME NEW map \in [Conns -> ReassemblyState], DrainCloses(map)
  PROVE  pcpp' \in [Conns -> ReassemblyState] /\ toClose' \in SUBSET Conns
BY MapType DEF DrainCloses

LEMMA EnterTickType ==
  ASSUME TypeOK, NEW then \in {"idle", "lookup"}, EnterTick(then)
  PROVE  /\ sinceSweep' \in Nat /\ todo' \in SUBSET Keys /\ blockedGauge' \in Nat
         /\ pc' \in {"sweep", then}
<1>1. Expired \in SUBSET Keys /\ Blocked \in SUBSET Keys
  BY DEF Expired, Tracked, TrackedIn, Blocked, InState
<1> QED
  BY <1>1, CardType DEF EnterTick, TypeOK

\* feed() returning with a verdict.
LEMMA ReturnWithType ==
  ASSUME TypeOK, NEW v \in Verdict, NEW why \in Why, ReturnWith(v, why)
  PROVE  /\ decided' \in Seq(Decision) /\ cur' \in Packet /\ pc' = "idle"
         /\ flowsGauge' \in Nat
<1>1. Settle(cur, v, why) \in Decision
  BY SettleType DEF TypeOK
<1>2. TrackedIn(conns') \in SUBSET Keys
  BY DEF TrackedIn
<1> QED
  BY <1>1, <1>2, AppendProperties, CardType, ConstType DEF ReturnWith, Return, TypeOK

-----------------------------------------------------------------------------
\* TypeOK is inductive once one knows that the reassembler is only ever fed
\* packets of a connection.
FedConn == pc = "callbacks" => cur.conn # NoConn
TypeInv == TypeOK /\ FedConn

LEMMA KeyType == TypeOK /\ cur.conn # NoConn => Key \in Keys /\ cur.conn \in Conns
BY ConnsAssumption DEF TypeOK, Packet, Key

LEMMA InitType == Init => TypeInv
<1> SUFFICES ASSUME Init PROVE TypeInv
  OBVIOUS
<1>1. conns \in [Keys -> Entry] /\ cur \in Packet
  BY ConstType DEF Init
<1>2. ring \in [Slots -> Nat] /\ ringNext \in Slots
  BY LimitsType DEF Init, Slots
<1>3. pcpp \in [Conns -> ReassemblyState]
  <2>1. NoState \in ReassemblyState
    BY NoStateType
  <2> QED
    BY <2>1 DEF Init
<1>4. sinceSweep \in Nat
  BY LimitsAssumption DEF Init
<1>5. decided \in Seq(Decision) /\ answered \in Seq(Decision) /\ events \in Seq(Event)
  BY EmptySeq DEF Init
<1> QED
  BY <1>1, <1>2, <1>3, <1>4, <1>5 DEF Init, TypeInv, TypeOK, FedConn

\* The steps of tick() and flush().
LEMMA SweepStepType ==
  ASSUME TypeInv,
         \/ Tick \/ SweepEnd \/ Flush \/ FlushEnd
         \/ \E k \in Keys : SweepBlocked(k) \/ SweepWaiting(k) \/ FlushOne(k)
  PROVE  TypeInv'
<1> USE DEF TypeInv, FedConn
<1>0. {"idle", "shutdown"} \subseteq Why /\ <<>> \in Seq(Decision) /\ FlowTypes
  BY EmptySeq DEF Why, TypeOK, FlowTypes
<1>1. CASE Tick
  BY <1>1, EnterTickType DEF Tick, TypeOK, table
<1>2. CASE SweepEnd
  <2>1. [c \in Conns |-> Purge(pcpp[c])] \in [Conns -> ReassemblyState]
    BY MapType DEF TypeOK
  <2>2. pcpp' \in [Conns -> ReassemblyState] /\ toClose' \in SUBSET Conns
    BY <1>2, <2>1, DrainClosesType DEF SweepEnd
  <2>3. flowsGauge' \in Nat
    BY <1>2, CardType DEF SweepEnd, Tracked, TrackedIn
  <2>4. pc' \in {"idle", "lookup"}
    BY <1>2 DEF SweepEnd
  <2> QED
    BY <1>2, <2>2, <2>3, <2>4 DEF SweepEnd, TypeOK
<1>3. CASE Flush
  <2>1. todo' \in SUBSET Keys
    BY <1>3 DEF Flush, Waiting, InState
  <2> QED
    BY <1>3, <2>1 DEF Flush, TypeOK, table
<1>4. CASE FlushEnd
  <2>1. pcpp' \in [Conns -> ReassemblyState] /\ toClose' \in SUBSET Conns
    BY <1>4, DrainClosesType DEF FlushEnd, TypeOK
  <2>2. conns' \in [Keys -> Entry]
    BY <1>4, ConstType DEF FlushEnd
  <2> QED
    BY <1>4, <2>1, <2>2 DEF FlushEnd, TypeOK
<1>5. ASSUME NEW k \in Keys, SweepBlocked(k) PROVE TypeInv'
  <2>1. conns' \in [Keys -> Entry]
    BY <1>5, ConstType DEF SweepBlocked, TypeOK
  <2> QED
    BY <1>5, <2>1 DEF SweepBlocked, TypeOK
<1>6. ASSUME NEW k \in Keys, SweepWaiting(k) PROVE TypeInv'
  <2>1. conns[k] \in Entry
    BY DEF TypeOK
  <2>2. FlowTypes'
    BY <1>0, <1>6, <2>1, ResolveType DEF SweepWaiting
  <2> QED
    BY <1>6, <2>2 DEF SweepWaiting, TypeOK, FlowTypes
<1>7. ASSUME NEW k \in Keys, FlushOne(k) PROVE TypeInv'
  <2>1. conns[k] \in Entry
    BY DEF TypeOK
  <2>2. FlowTypes'
    BY <1>0, <1>7, <2>1, ResolveType DEF FlushOne
  <2> QED
    BY <1>7, <2>2 DEF FlushOne, TypeOK, FlowTypes
<1> QED
  BY <1>1, <1>2, <1>3, <1>4, <1>5, <1>6, <1>7

\* feed() up to the reassembler.
LEMMA FeedStepType ==
  ASSUME TypeInv,
         \/ \E h \in Arrivals : Feed(h)
         \/ AllowUndissected \/ DropBlocked \/ AllowUntracked
         \/ AdmitWithRoom \/ AdmitByEviction \/ AllowAtCap
         \/ AllowFlooded \/ AllowBareAck
  PROVE  TypeInv'
<1> USE DEF TypeInv, FedConn
<1>0. /\ {"undissected", "blocked", "untracked", "cap", "flood", "control"} \subseteq Why
      /\ {"ALLOW", "BLOCK"} = Verdict
  BY DEF Why, Verdict
<1>1. ASSUME NEW h \in Arrivals, Feed(h) PROVE TypeInv'
  <2>1. cur' \in Packet /\ nextId' \in Nat
    BY <1>1, ArrivalsAssumption DEF Feed, Arrived, Header, Packet, TypeOK
  <2>2. /\ sinceSweep' \in Nat /\ todo' \in SUBSET Keys /\ blockedGauge' \in Nat
        /\ pc' \in {"sweep", "lookup"}
    BY <1>1, EnterTickType DEF Feed
  <2> QED
    BY <1>1, <2>1, <2>2 DEF Feed, TypeOK, table
<1>2. CASE AllowUndissected
  <2>1. /\ decided' \in Seq(Decision) /\ cur' \in Packet /\ pc' = "idle"
        /\ flowsGauge' \in Nat
    BY <1>0, <1>2, ReturnWithType DEF AllowUndissected
  <2> QED
    BY <1>2, <2>1 DEF AllowUndissected, TypeOK
<1>3. CASE DropBlocked
  <2>1. /\ decided' \in Seq(Decision) /\ cur' \in Packet /\ pc' = "idle"
        /\ flowsGauge' \in Nat
    BY <1>0, <1>3, ReturnWithType DEF DropBlocked
  <2>2. conns' \in [Keys -> Entry]
    <3>1. conns \in [Keys -> Entry] /\ \A e \in Entry : [e EXCEPT !.idle = 0] \in Entry
      BY DEF TypeOK, Entry
    <3> QED
      BY <1>3, <3>1 DEF DropBlocked
  <2> QED
    BY <1>3, <2>1, <2>2 DEF DropBlocked, TypeOK
<1>4. CASE AllowUntracked
  <2>1. /\ decided' \in Seq(Decision) /\ cur' \in Packet /\ pc' = "idle"
        /\ flowsGauge' \in Nat
    BY <1>0, <1>4, ReturnWithType DEF AllowUntracked
  <2> QED
    BY <1>4, <2>1 DEF AllowUntracked, TypeOK
<1>5. CASE AdmitWithRoom
  <2>1. conns' \in [Keys -> Entry] /\ pc = "lookup"
    BY <1>5, ConstType DEF AdmitWithRoom, Untracked, TypeOK
  <2> QED
    BY <1>5, <2>1 DEF AdmitWithRoom, TypeOK
<1>6. CASE AdmitByEviction
  <2>1. PICK n \in Slots :
          /\ conns' = [conns EXCEPT ![ring[SlotAfter(n)]] = Absent, ![Key] = NewConn]
          /\ flowsGauge' = Cardinality(Tracked \ {ring[SlotAfter(n)]})
          /\ ring' = [i \in Slots |-> IF \E m \in 0..n : i = SlotAfter(m) THEN 0 ELSE ring[i]]
          /\ ringNext' = SlotAfter(n + 1)
    BY <1>6 DEF AdmitByEviction
  <2>2. conns' \in [Keys -> Entry]
    BY <2>1, ConstType DEF TypeOK
  <2>3. flowsGauge' \in Nat
    BY <2>1, CardType DEF Tracked, TrackedIn
  <2>4. ring' \in [Slots -> Nat]
    BY <2>1 DEF TypeOK
  <2>5. ringNext' \in Slots
    BY <2>1, SlotType, LimitsType DEF TypeOK, Slots
  <2>6. pc = "lookup"
    BY <1>6 DEF AdmitByEviction, Untracked
  <2> QED
    BY <1>6, <2>2, <2>3, <2>4, <2>5, <2>6 DEF AdmitByEviction, TypeOK
<1>7. CASE AllowAtCap
  <2>1. /\ decided' \in Seq(Decision) /\ cur' \in Packet /\ pc' = "idle"
        /\ flowsGauge' \in Nat
    BY <1>0, <1>7, ReturnWithType DEF AllowAtCap
  <2>2. ring' \in [Slots -> Nat] /\ droppedAtCap' \in Nat
    BY <1>7 DEF AllowAtCap, TypeOK
  <2> QED
    BY <1>7, <2>1, <2>2 DEF AllowAtCap, TypeOK
<1>8. CASE AllowFlooded
  <2>1. Key \in Keys /\ conns[Key] \in Entry /\ FlowTypes
    BY <1>8, KeyType DEF AllowFlooded, Undecided, TypeOK, FlowTypes
  <2>2. <<Settle(cur, "ALLOW", "flood")>> \in Seq(Decision)
    BY <1>0, SettleType, SingleIsSeq DEF TypeOK
  <2>3. FlowTypes'
    BY <1>0, <1>8, <2>1, <2>2, ResolveType DEF AllowFlooded
  <2>4. cur' \in Packet /\ pc' = "idle" /\ flowsGauge' \in Nat
    BY <1>8, CardType, ConstType DEF AllowFlooded, Return, TrackedIn
  <2> QED
    BY <1>8, <2>3, <2>4 DEF AllowFlooded, TypeOK, FlowTypes
<1>9. CASE AllowBareAck
  <2>1. /\ decided' \in Seq(Decision) /\ cur' \in Packet /\ pc' = "idle"
        /\ flowsGauge' \in Nat
    BY <1>0, <1>9, ReturnWithType DEF AllowBareAck
  <2>2. conns' \in [Keys -> Entry]
    <3>1. conns \in [Keys -> Entry] /\ \A e \in Entry : [e EXCEPT !.idle = 0] \in Entry
      BY DEF TypeOK, Entry
    <3> QED
      BY <1>9, <3>1 DEF AllowBareAck
  <2> QED
    BY <1>9, <2>1, <2>2 DEF AllowBareAck, TypeOK
<1> QED
  BY <1>1, <1>2, <1>3, <1>4, <1>5, <1>6, <1>7, <1>8, <1>9

\* The bytes a callback appends.
LEMMA AppendedType ==
  ASSUME TypeOK, cur.conn # NoConn, events # <<>>, NEW c \in Entry
  PROVE  Appended(c) \in Entry
<1> DEFINE data == Head(events).data
           chunks == [i \in 1..Len(data) |-> [conn |-> cur.conn, seg |-> data[i]]]
<1>1. Head(events) \in Event /\ cur.conn \in Conns
  BY HeadTailProperties, KeyType DEF TypeOK
<1>2. data \in Seq(0..MaxSeg)
  BY <1>1 DEF Event
<1>3. Appended(c) = [c EXCEPT !.token = cur.conn, !.stream = c.stream \o chunks]
  BY DEF Appended
<1> HIDE DEF data
<1>4. Len(data) \in Nat /\ \A i \in 1..Len(data) : data[i] \in 0..MaxSeg
  BY <1>2, LenProperties, ElementOfSeq
<1>5. chunks \in [1..Len(data) -> Chunk]
  BY <1>1, <1>4 DEF Chunk
<1> HIDE DEF chunks
<1>6. chunks \in Seq(Chunk) /\ c.stream \in Seq(Chunk)
  BY <1>4, <1>5, FunIsSeq DEF Entry
<1>7. c.stream \o chunks \in Seq(Chunk)
  BY <1>6, ConcatProperties
<1> QED
  BY <1>1, <1>3, <1>7 DEF Entry

\* Releasing bytes keeps every packet where it is in the held list.
LEMMA ReleaseType ==
  ASSUME NEW held \in Seq(Packet)
  PROVE  ReleaseLast(held) \in Seq(Packet) /\ Len(ReleaseLast(held)) = Len(held)
<1> DEFINE n == Len(held)
<1>1. n \in Nat
  BY LenProperties
<1>2. CASE held # <<>>
  <2>1. n \in 1..n /\ held[n] \in Packet
    BY <1>1, <1>2, EmptySeq, ElementOfSeq, LenProperties
  <2>2. [held[n] EXCEPT !.view = FALSE] \in Packet
    BY <2>1 DEF Packet
  <2>3. ReleaseLast(held) = [held EXCEPT ![n] = [held[n] EXCEPT !.view = FALSE]]
    BY <1>2 DEF ReleaseLast
  <2> QED
    BY <2>1, <2>2, <2>3, ExceptSeq
<1> QED
  BY <1>2 DEF ReleaseLast

\* The reassembler and its callbacks.
LEMMA CallbackStepType ==
  ASSUME TypeInv,
         \/ \E b \in BOOLEAN : FeedReassembler(b)
         \/ OnConnectionStart \/ OnMessageIgnored \/ OnMessageReady \/ OnConnectionEnd
         \/ Epilogue
  PROVE  TypeInv'
<1> USE DEF TypeInv, FedConn
<1>0. FlowTypes /\ <<>> \in Seq(Decision)
  BY EmptySeq DEF TypeOK, FlowTypes
<1>t. ASSUME events # <<>> PROVE Tail(events) \in Seq(Event)
  BY <1>t, HeadTailProperties DEF TypeOK
<1>1. ASSUME NEW b \in BOOLEAN, FeedReassembler(b) PROVE TypeInv'
  <2> DEFINE map == [c \in Conns |-> IF b THEN Purge(pcpp[c]) ELSE pcpp[c]]
  <2>1. cur.conn # NoConn /\ cur.conn \in Conns /\ Key \in Keys
    BY <1>1, KeyType DEF FeedReassembler, Undecided
  <2>2. map \in [Conns -> ReassemblyState]
    BY MapType DEF TypeOK
  <2>3. PICK r \in Reassemble(map[cur.conn], cur) :
          pcpp' = [map EXCEPT ![cur.conn] = r.st] /\ events' = r.events
    BY <1>1 DEF FeedReassembler
  <2> HIDE DEF map
  <2>4. r \in Outcome
    BY <2>1, <2>2, <2>3, ReassembleType DEF TypeOK
  <2>5. pcpp' \in [Conns -> ReassemblyState] /\ events' \in Seq(Event)
    BY <2>2, <2>3, <2>4 DEF Outcome
  <2>6. conns' \in [Keys -> Entry]
    <3>1. conns[Key].held \in Seq(Packet) /\ cur \in Packet
      BY <2>1 DEF TypeOK, Entry
    <3> DEFINE held == IF cur.seg # 0 THEN Append(conns[Key].held, cur) ELSE conns[Key].held
    <3>2. held \in Seq(Packet)
      BY <3>1, AppendProperties
    <3>3. conns' = [conns EXCEPT ![Key] = [conns[Key] EXCEPT !.idle = 0, !.held = held]]
      BY <1>1, <2>1 DEF FeedReassembler, TypeOK
    <3> HIDE DEF held
    <3>4. [conns[Key] EXCEPT !.idle = 0, !.held = held] \in Entry
      BY <2>1, <3>2 DEF TypeOK, Entry
    <3> QED
      BY <3>3, <3>4 DEF TypeOK
  <2>7. pc' = "callbacks"
    BY <1>1 DEF FeedReassembler
  <2> QED
    BY <1>1, <2>1, <2>5, <2>6, <2>7 DEF FeedReassembler, TypeOK
<1>2. CASE OnConnectionStart
  <2>1. cur.conn # NoConn /\ Key \in Keys /\ cur.conn \in Conns
    BY <1>2, KeyType DEF OnConnectionStart, Callback
  <2>2. [conns[Key] EXCEPT !.token = cur.conn] \in Entry
    BY <2>1 DEF TypeOK, Entry
  <2>3. conns' \in [Keys -> Entry]
    BY <1>2, <2>2 DEF OnConnectionStart, TypeOK
  <2> QED
    BY <1>2, <1>t, <2>3 DEF OnConnectionStart, Callback, TypeOK
<1>3. CASE OnMessageIgnored
  BY <1>3, <1>t DEF OnMessageIgnored, Callback, TypeOK, table
<1>4. CASE OnMessageReady
  <2> DEFINE c == Appended(conns[Key])
  <2>1. cur.conn # NoConn /\ Key \in Keys /\ events # <<>> /\ pc = "callbacks"
    BY <1>4, KeyType DEF OnMessageReady, Callback
  <2>2. c \in Entry
    BY <2>1, AppendedType DEF TypeOK
  <2>3. StreamKind(c.stream) \in Why /\ "oversize" \in Why
    BY DEF StreamKind, Why
  <2>4. PICK r \in ExtractHostname(c.stream) :
          \/ /\ Resolve(Key, c, r.host, StreamKind(c.stream), <<>>)
             /\ \/ flowsGauge' = Cardinality(TrackedIn(conns'))
                \/ UNCHANGED flowsGauge
          \/ Resolve(Key, c, NoHost, "oversize", <<>>) /\ UNCHANGED flowsGauge
          \/ /\ conns' = [conns EXCEPT ![Key] = c]
             /\ UNCHANGED <<ring, ringNext, flowsGauge, decided, toClose>>
    BY <1>4 DEF OnMessageReady
  <2> HIDE DEF c
  <2>5. FlowTypes'
    <3>1. CASE Resolve(Key, c, r.host, StreamKind(c.stream), <<>>)
      BY <1>0, <2>1, <2>2, <2>3, <3>1, ResolveType
    <3>2. CASE Resolve(Key, c, NoHost, "oversize", <<>>)
      BY <1>0, <2>1, <2>2, <2>3, <3>2, ResolveType
    <3>3. CASE /\ conns' = [conns EXCEPT ![Key] = c]
               /\ UNCHANGED <<ring, ringNext, flowsGauge, decided, toClose>>
      BY <1>0, <2>2, <3>3 DEF FlowTypes
    <3> QED
      BY <2>4, <3>1, <3>2, <3>3
  <2>6. flowsGauge' \in Nat
    BY <2>4, CardType DEF TrackedIn, TypeOK
  <2> QED
    BY <1>4, <1>t, <2>1, <2>5, <2>6 DEF OnMessageReady, FlowTypes, TypeOK
<1>5. CASE OnConnectionEnd
  <2> DEFINE c == [conns[Key] EXCEPT !.closed = TRUE]
  <2>1. cur.conn # NoConn /\ Key \in Keys /\ events # <<>> /\ pc = "callbacks"
    BY <1>5, KeyType DEF OnConnectionEnd, Callback
  <2>2. c \in Entry
    BY <2>1 DEF TypeOK, Entry
  <2>3. "ended" \in Why /\ c.state \in {"None", "Wait", "Block"}
    BY <2>2 DEF Why, Entry
  <2>4. \/ Resolve(Key, c, NoHost, "ended", <<>>)
        \/ conns' = [conns EXCEPT ![Key] = c] /\ UNCHANGED <<ring, ringNext, toClose, decided>>
        \/ UNCHANGED <<conns, ring, ringNext, toClose, decided>>
    BY <1>5, <2>3 DEF OnConnectionEnd
  <2> HIDE DEF c
  <2>5. FlowTypes'
    <3>1. CASE Resolve(Key, c, NoHost, "ended", <<>>)
      BY <1>0, <2>1, <2>2, <2>3, <3>1, ResolveType
    <3>2. CASE /\ conns' = [conns EXCEPT ![Key] = c]
               /\ UNCHANGED <<ring, ringNext, toClose, decided>>
      BY <1>0, <2>2, <3>2 DEF FlowTypes
    <3>3. CASE UNCHANGED <<conns, ring, ringNext, toClose, decided>>
      BY <1>0, <3>3 DEF FlowTypes
    <3> QED
      BY <2>4, <3>1, <3>2, <3>3
  <2> QED
    BY <1>5, <1>t, <2>1, <2>5 DEF OnConnectionEnd, FlowTypes, TypeOK
<1>6. CASE Epilogue
  <2>1. cur.conn # NoConn /\ Key \in Keys /\ cur \in Packet
    BY <1>6, KeyType DEF Epilogue, TypeOK
  <2>2. pcpp' \in [Conns -> ReassemblyState] /\ toClose' \in SUBSET Conns
    BY <1>6, DrainClosesType DEF Epilogue, TypeOK
  <2>3. cur' \in Packet /\ pc' = "idle" /\ flowsGauge' \in Nat
    BY <1>6, CardType, ConstType DEF Epilogue, Return, TrackedIn
  <2>4. decided' \in Seq(Decision)
    <3>1. Settle(cur, "ALLOW", "control") \in Decision
      BY <2>1, SettleType DEF Verdict, Why
    <3>2. Append(decided, Settle(cur, "ALLOW", "control")) \in Seq(Decision)
      BY <3>1, AppendProperties DEF TypeOK
    <3>3. decided' = decided \/ decided' = Append(decided, Settle(cur, "ALLOW", "control"))
      BY <1>6 DEF Epilogue
    <3> QED
      BY <3>2, <3>3 DEF TypeOK
  <2>5. conns' \in [Keys -> Entry]
    <3> DEFINE held == ReleaseLast(conns[Key].held)
    <3>1. held \in Seq(Packet)
      BY <2>1, ReleaseType DEF TypeOK, Entry
    <3>2. conns' = conns \/ conns' = [conns EXCEPT ![Key].held = held]
      BY <1>6 DEF Epilogue
    <3> HIDE DEF held
    <3>3. [conns[Key] EXCEPT !.held = held] \in Entry
      BY <2>1, <3>1 DEF TypeOK, Entry
    <3> QED
      BY <2>1, <3>2, <3>3 DEF TypeOK
  <2> QED
    BY <1>6, <2>2, <2>3, <2>4, <2>5 DEF Epilogue, TypeOK
<1> QED
  BY <1>1, <1>2, <1>3, <1>4, <1>5, <1>6

LEMMA NextType == TypeInv /\ [Next]_vars => TypeInv'
<1> SUFFICES ASSUME TypeInv, [Next]_vars PROVE TypeInv'
  OBVIOUS
<1>1. CASE Drain
  <2>1. answered' \in Seq(Decision) /\ decided' \in Seq(Decision)
    BY <1>1, ConcatProperties, EmptySeq DEF Drain, TypeInv, TypeOK
  <2> QED
    BY <1>1, <2>1 DEF Drain, TypeInv, FedConn, TypeOK, table
<1>2. CASE Elapse
  <2>1. conns' \in [Keys -> Entry]
    <3>1. \A k \in Keys : conns[k] \in Entry
      BY DEF TypeInv, TypeOK
    <3>2. \A e \in Entry : [e EXCEPT !.idle = @ + 1] \in Entry
      BY DEF Entry
    <3> QED
      BY <1>2, <3>1, <3>2 DEF Elapse
  <2>2. pcpp' \in [Conns -> ReassemblyState]
    BY <1>2, MapType DEF Elapse, TypeInv, TypeOK
  <2>3. sinceSweep' \in Nat
    BY <1>2 DEF Elapse, TypeInv, TypeOK
  <2> QED
    BY <1>2, <2>1, <2>2, <2>3 DEF Elapse, TypeInv, FedConn, TypeOK
<1>3. CASE Finished \/ UNCHANGED vars
  BY <1>3 DEF Finished, vars, TypeInv, FedConn, TypeOK
<1> QED
  BY <1>1, <1>2, <1>3, SweepStepType, FeedStepType, CallbackStepType DEF Next, Step

\* Every variable of the extractor keeps its type: whatever packets arrive and
\* however the reassembler cuts them up, the flow table, the ring, the buffers
\* and the connection map stay well formed.
THEOREM TypeCorrect == Spec => []TypeOK
<1>1. TypeInv => TypeOK
  BY DEF TypeInv
<1> QED
  BY <1>1, InitType, NextType, PTL DEF Spec

-----------------------------------------------------------------------------
\* The flow table.

TableInv == TypeInv /\ RingCovers /\ Cardinality(Tracked) <= MaxFlows

\* From any slot every slot is reached by going round the ring once.
LEMMA RingReached ==
  ASSUME ringNext \in Slots, NEW i \in Slots
  PROVE  \E n \in Slots : SlotAfter(n) = i
<1>1. MaxBlocked \in Nat \ {0} /\ i \in 0..(MaxBlocked - 1) /\ ringNext \in 0..(MaxBlocked - 1)
  BY LimitsType DEF Slots
<1>2. CASE i >= ringNext
  <2>1. i - ringNext \in Slots /\ ringNext + (i - ringNext) = i
    BY <1>1, <1>2 DEF Slots
  <2>2. i % MaxBlocked = i
    BY <1>1
  <2> QED
    BY <2>1, <2>2 DEF SlotAfter
<1>3. CASE i < ringNext
  <2>1. /\ i - ringNext + MaxBlocked \in Slots
        /\ ringNext + (i - ringNext + MaxBlocked) = i + MaxBlocked
    BY <1>1, <1>3 DEF Slots
  <2>2. (i + MaxBlocked) % MaxBlocked = i
    BY <1>1
  <2> QED
    BY <2>1, <2>2 DEF SlotAfter
<1> QED
  BY <1>1, <1>2, <1>3

\* Cardinality of the table is monotone.
LEMMA TrackedShrinks ==
  ASSUME NEW T, T = TrackedIn(conns'), T \in SUBSET Tracked, Cardinality(Tracked) <= MaxFlows
  PROVE  Cardinality(Tracked') <= MaxFlows
<1>1. Tracked \in SUBSET Keys /\ Tracked' = T
  BY DEF Tracked, TrackedIn
<1>2. IsFiniteSet(Tracked) /\ Cardinality(Tracked) \in Nat
  BY <1>1, CardType
<1>3. Cardinality(T) <= Cardinality(Tracked) /\ Cardinality(T) \in Nat
  BY <1>2, FS_Subset, FS_CardinalityType
<1> QED
  BY <1>1, <1>2, <1>3, LimitsType

\* A step that only forgets flows, and leaves the ring alone.
LEMMA ForgettingStep ==
  ASSUME TableInv, ring' = ring,
         \A k \in Keys : conns'[k].state \in {conns[k].state, "None"}
  PROVE  RingCovers' /\ Cardinality(Tracked') <= MaxFlows
<1>1. RingCovers'
  BY DEF TableInv, RingCovers, Blocked, InState
<1>2. TrackedIn(conns') \in SUBSET Tracked
  BY DEF Tracked, TrackedIn
<1> QED
  BY <1>1, <1>2, TrackedShrinks DEF TableInv

\* Without a hostname the verdict is to allow, and the flow is forgotten.
LEMMA ResolveWithoutHost ==
  ASSUME TableInv, NEW k \in Keys, NEW c, NEW why, NEW more, Resolve(k, c, NoHost, why, more)
  PROVE  RingCovers' /\ Cardinality(Tracked') <= MaxFlows
<1>1. Decide(NoHost) # "BLOCK"
  BY StreamsAssumption DEF Decide
<1>2. conns' = [conns EXCEPT ![k] = Absent] /\ ring' = ring
  BY <1>1 DEF Resolve
<1>3. \A x \in Keys : conns'[x].state \in {conns[x].state, "None"}
  BY <1>2, ConstType DEF TableInv, TypeInv, TypeOK
<1> QED
  BY <1>2, <1>3, ForgettingStep

\* A flow that becomes blocked takes a slot; the flow that had it, if it is
\* still blocked, leaves the table.
LEMMA RememberBlockedKeeps ==
  ASSUME TableInv, NEW k \in Keys, k \in Tracked, NEW c \in Entry, RememberBlocked(k, c)
  PROVE  RingCovers' /\ Cardinality(Tracked') <= MaxFlows
<1> DEFINE entry == [c EXCEPT !.state = "Block", !.held = <<>>, !.stream = <<>>]
<1>1. ringNext \in Slots /\ ring \in [Slots -> Nat] /\ conns \in [Keys -> Entry]
  BY DEF TableInv, TypeInv, TypeOK
<1>2. /\ ring' = [ring EXCEPT ![ringNext] = k]
      /\ \A x \in Keys : conns'[x] = IF x = k THEN entry
                                     ELSE IF Evicts(k) /\ x = ring[ringNext] THEN Absent
                                     ELSE conns[x]
  BY DEF RememberBlocked
<1>3. RingCovers'
  <2>1. SUFFICES ASSUME NEW x \in Keys, conns'[x].state = "Block", x # 0
                 PROVE  \E i \in Slots : ring'[i] = x
    BY DEF RingCovers, Blocked, InState
  <2>2. CASE x = k
    BY <1>1, <1>2, <2>2
  <2>3. CASE x # k
    <3>1. conns[x].state = "Block" /\ ~(Evicts(k) /\ x = ring[ringNext])
      BY <1>2, <2>1, <2>3, ConstType
    <3>2. x # ring[ringNext]
      BY <2>1, <2>3, <3>1 DEF Evicts, Blocked, InState
    <3>3. PICK i \in Slots : ring[i] = x
      BY <2>1, <3>1 DEF TableInv, RingCovers, Blocked, InState
    <3>4. ring'[i] = x
      BY <1>1, <1>2, <3>2, <3>3
    <3> QED
      BY <3>4
  <2> QED
    BY <2>2, <2>3
<1>4. TrackedIn(conns') \in SUBSET Tracked
  BY <1>2, ConstType DEF Tracked, TrackedIn
<1> QED
  BY <1>3, <1>4, TrackedShrinks DEF TableInv

\* evict_oldest_blocked() found a victim: the slots it empties name no other
\* blocked flow, and the new flow takes the victim's place.
LEMMA AdmitByEvictionKeeps ==
  ASSUME TableInv, AdmitByEviction
  PROVE  RingCovers' /\ Cardinality(Tracked') <= MaxFlows
<1>1. PICK n \in Slots :
        /\ LiveSlot(n) /\ \A m \in 0..(n - 1) : ~LiveSlot(m)
        /\ conns' = [conns EXCEPT ![ring[SlotAfter(n)]] = Absent, ![Key] = NewConn]
        /\ ring' = [i \in Slots |-> IF \E m \in 0..n : i = SlotAfter(m) THEN 0 ELSE ring[i]]
  BY DEF AdmitByEviction
<1> DEFINE victim == ring[SlotAfter(n)]
<1>2. n \in Nat /\ conns \in [Keys -> Entry] /\ Key \in Keys /\ conns[Key].state = "None"
  BY KeyType, LimitsType DEF AdmitByEviction, Untracked, TableInv, TypeInv, TypeOK, Slots
<1>3. victim \in Keys /\ conns[victim].state = "Block"
  BY <1>1 DEF LiveSlot, Blocked, InState
<1> HIDE DEF victim
<1>4. \A x \in Keys : conns'[x] = IF x = Key THEN NewConn
                                  ELSE IF x = victim THEN Absent ELSE conns[x]
  BY <1>1, <1>2, <1>3 DEF victim
<1>5. RingCovers'
  <2>1. SUFFICES ASSUME NEW x \in Keys, conns'[x].state = "Block", x # 0
                 PROVE  \E i \in Slots : ring'[i] = x
    BY DEF RingCovers, Blocked, InState
  <2>2. conns[x].state = "Block" /\ x # victim
    BY <1>4, <2>1, ConstType
  <2>3. PICK i \in Slots : ring[i] = x
    BY <2>1, <2>2 DEF TableInv, RingCovers, Blocked, InState
  <2>4. ASSUME NEW m \in 0..n, i = SlotAfter(m) PROVE FALSE
    <3>1. m = n \/ m \in 0..(n - 1)
      BY <1>2
    <3>2. LiveSlot(m)
      BY <2>1, <2>2, <2>3, <2>4 DEF LiveSlot, Blocked, InState
    <3> QED
      BY <1>1, <2>2, <2>3, <2>4, <3>1, <3>2 DEF victim
  <2> QED
    BY <1>1, <2>3, <2>4
<1>6. Tracked' = (Tracked \ {victim}) \cup {Key}
  BY <1>2, <1>3, <1>4, ConstType DEF Tracked, TrackedIn
<1>7. Cardinality(Tracked') <= MaxFlows
  <2>1. /\ Tracked \in SUBSET Keys /\ IsFiniteSet(Tracked) /\ Cardinality(Tracked) \in Nat
        /\ victim \in Tracked
    BY <1>3, CardType DEF Tracked, TrackedIn
  <2>2. /\ IsFiniteSet(Tracked \ {victim})
        /\ Cardinality(Tracked \ {victim}) = Cardinality(Tracked) - 1
    BY <2>1, FS_RemoveElement
  <2>3. Cardinality((Tracked \ {victim}) \cup {Key}) <= Cardinality(Tracked)
    <3> DEFINE R == Tracked \ {victim}
    <3>1. Cardinality(R \cup {Key}) = IF Key \in R THEN Cardinality(R) ELSE Cardinality(R) + 1
      BY <2>2, FS_AddElement, Zenon
    <3> HIDE DEF R
    <3>2. Cardinality(R) = Cardinality(Tracked) - 1 /\ Cardinality(Tracked) \in Nat
      BY <2>1, <2>2 DEF R
    <3>3. Cardinality(R \cup {Key}) <= Cardinality(Tracked)
      BY <3>1, <3>2
    <3> QED
      BY <3>3 DEF R
  <2>4. Cardinality(Tracked') \in Nat
    BY CardType DEF Tracked, TrackedIn
  <2> QED
    BY <1>6, <2>1, <2>3, <2>4, LimitsType DEF TableInv
<1> QED
  BY <1>5, <1>7

LEMMA AdmitWithRoomKeeps ==
  ASSUME TableInv, AdmitWithRoom
  PROVE  RingCovers' /\ Cardinality(Tracked') <= MaxFlows
<1>1. /\ conns \in [Keys -> Entry] /\ Key \in Keys /\ conns[Key].state = "None"
      /\ conns' = [conns EXCEPT ![Key] = NewConn] /\ ring' = ring /\ ~Full
  BY KeyType DEF AdmitWithRoom, Untracked, TableInv, TypeInv, TypeOK
<1>2. RingCovers'
  BY <1>1, ConstType DEF TableInv, RingCovers, Blocked, InState
<1>3. Tracked' = Tracked \cup {Key}
  BY <1>1, ConstType DEF Tracked, TrackedIn
<1>4. Cardinality(Tracked') <= MaxFlows
  <2>1. IsFiniteSet(Tracked) /\ Cardinality(Tracked) \in Nat
    BY CardType DEF Tracked, TrackedIn
  <2>2. Cardinality(Tracked') <= Cardinality(Tracked) + 1 /\ Cardinality(Tracked') \in Nat
    BY <1>3, <2>1, FS_AddElement
  <2> QED
    BY <1>1, <2>1, <2>2, LimitsType DEF Full
<1> QED
  BY <1>2, <1>4

\* The whole ring was emptied because no slot names a blocked flow: there is none.
LEMMA AllowAtCapKeeps ==
  ASSUME TableInv, AllowAtCap
  PROVE  RingCovers' /\ Cardinality(Tracked') <= MaxFlows
<1>1. conns' = conns /\ \A n \in Slots : ~LiveSlot(n)
  BY DEF AllowAtCap
<1>2. ASSUME NEW x \in Blocked \ {0} PROVE FALSE
  <2>1. PICK i \in Slots : ring[i] = x
    BY DEF TableInv, RingCovers
  <2>2. PICK n \in Slots : SlotAfter(n) = i
    BY RingReached DEF TableInv, TypeInv, TypeOK
  <2> QED
    BY <1>1, <2>1, <2>2 DEF LiveSlot
<1>3. Blocked' = Blocked /\ Tracked' = Tracked
  BY <1>1 DEF Blocked, InState, Tracked, TrackedIn
<1> QED
  BY <1>2, <1>3 DEF RingCovers, TableInv

LEMMA OnMessageReadyKeeps ==
  ASSUME TableInv, OnMessageReady
  PROVE  RingCovers' /\ Cardinality(Tracked') <= MaxFlows
<1> DEFINE c == Appended(conns[Key])
<1>1. /\ cur.conn # NoConn /\ events # <<>> /\ conns[Key].state = "Wait"
      /\ Key \in Keys /\ conns \in [Keys -> Entry]
  BY KeyType DEF OnMessageReady, Callback, TableInv, TypeInv, FedConn, TypeOK
<1>2. c \in Entry /\ c.state = "Wait" /\ Key \in Tracked
  <2>1. conns[Key] \in Entry
    BY <1>1
  <2>2. c \in Entry
    BY <1>1, <2>1, AppendedType DEF TableInv, TypeInv
  <2>3. \A e \in Entry : \A t, s : [e EXCEPT !.token = t, !.stream = s].state = e.state
    BY DEF Entry
  <2>4. c.state = conns[Key].state
    BY <2>1, <2>3 DEF Appended
  <2>5. Key \in Tracked
    BY <1>1 DEF Tracked, TrackedIn
  <2> QED
    BY <1>1, <2>2, <2>4, <2>5
<1>3. PICK r \in ExtractHostname(c.stream) :
        \/ Resolve(Key, c, r.host, StreamKind(c.stream), <<>>)
        \/ Resolve(Key, c, NoHost, "oversize", <<>>)
        \/ conns' = [conns EXCEPT ![Key] = c] /\ UNCHANGED ring
  BY DEF OnMessageReady
<1> HIDE DEF c
<1>4. ASSUME NEW host, NEW why, Resolve(Key, c, host, why, <<>>)
      PROVE  RingCovers' /\ Cardinality(Tracked') <= MaxFlows
  <2>1. CASE Decide(host) = "BLOCK"
    BY <1>1, <1>2, <1>4, <2>1, RememberBlockedKeeps DEF Resolve
  <2>2. CASE Decide(host) # "BLOCK"
    <3>1. conns' = [conns EXCEPT ![Key] = Absent] /\ ring' = ring
      BY <1>4, <2>2 DEF Resolve
    <3>2. \A x \in Keys : conns'[x].state \in {conns[x].state, "None"}
      BY <1>1, <3>1, ConstType
    <3> QED
      BY <3>1, <3>2, ForgettingStep
  <2> QED
    BY <2>1, <2>2
<1>5. CASE conns' = [conns EXCEPT ![Key] = c] /\ UNCHANGED ring
  <2>1. \A x \in Keys : conns'[x].state \in {conns[x].state, "None"}
    BY <1>1, <1>2, <1>5
  <2> QED
    BY <1>5, <2>1, ForgettingStep
<1> QED
  BY <1>3, <1>4, <1>5

LEMMA OnConnectionEndKeeps ==
  ASSUME TableInv, OnConnectionEnd
  PROVE  RingCovers' /\ Cardinality(Tracked') <= MaxFlows
<1> DEFINE c == [conns[Key] EXCEPT !.closed = TRUE]
<1>1. Key \in Keys /\ conns \in [Keys -> Entry] /\ conns[Key] \in Entry
  BY KeyType DEF OnConnectionEnd, Callback, TableInv, TypeInv, FedConn, TypeOK
<1>2. c.state = conns[Key].state /\ c.state \in {"None", "Wait", "Block"}
  BY <1>1 DEF Entry
<1>3. \/ Resolve(Key, c, NoHost, "ended", <<>>)
      \/ conns' = [conns EXCEPT ![Key] = c] /\ UNCHANGED ring
      \/ UNCHANGED <<conns, ring>>
  BY <1>2 DEF OnConnectionEnd
<1> HIDE DEF c
<1>4. CASE conns' = [conns EXCEPT ![Key] = c] /\ UNCHANGED ring
  <2>1. \A x \in Keys : conns'[x].state \in {conns[x].state, "None"}
    BY <1>1, <1>2, <1>4
  <2> QED
    BY <1>4, <2>1, ForgettingStep
<1> QED
  BY <1>1, <1>3, <1>4, ResolveWithoutHost, ForgettingStep

LEMMA NextKeepsTable == TableInv /\ [Next]_vars => TableInv'
<1> SUFFICES ASSUME TableInv, [Next]_vars PROVE RingCovers' /\ Cardinality(Tracked') <= MaxFlows
  BY NextType DEF TableInv
<1>t. conns \in [Keys -> Entry] /\ ring \in [Slots -> Nat]
  BY DEF TableInv, TypeInv, TypeOK
<1>1. ASSUME UNCHANGED <<conns, ring>> PROVE RingCovers' /\ Cardinality(Tracked') <= MaxFlows
  BY <1>1, ForgettingStep
<1>2. CASE \E h \in Arrivals : Feed(h)
  BY <1>1, <1>2 DEF Feed, table
<1>3. CASE Tick \/ Flush \/ Drain \/ Finished \/ UNCHANGED vars
  BY <1>1, <1>3 DEF Tick, Flush, Drain, Finished, vars, table
<1>4. CASE SweepEnd \/ AllowUndissected \/ AllowUntracked \/ OnMessageIgnored
  BY <1>1, <1>4 DEF SweepEnd, AllowUndissected, AllowUntracked, OnMessageIgnored, table
<1>5. ASSUME NEW x \in Keys, NEW e, e.state = conns[x].state,
             conns' = [conns EXCEPT ![x] = e], ring' = ring
      PROVE  RingCovers' /\ Cardinality(Tracked') <= MaxFlows
  <2>1. \A k \in Keys : conns'[k].state = conns[k].state
    BY <1>5, <1>t
  <2> QED
    BY <1>5, <2>1, ForgettingStep
<1>6. CASE Elapse
  <2>1. ring' = ring /\ \A k \in Keys : conns'[k].state = conns[k].state
    BY <1>6, <1>t DEF Elapse, Entry
  <2> QED
    BY <2>1, ForgettingStep
<1>7. CASE FlushEnd
  <2>1. ring' = ring /\ \A k \in Keys : conns'[k].state = "None"
    BY <1>7, ConstType DEF FlushEnd
  <2> QED
    BY <2>1, ForgettingStep
<1>8. ASSUME NEW k \in Keys, SweepBlocked(k)
      PROVE  RingCovers' /\ Cardinality(Tracked') <= MaxFlows
  <2>1. ring' = ring /\ \A x \in Keys : conns'[x].state \in {conns[x].state, "None"}
    BY <1>8, <1>t, ConstType DEF SweepBlocked
  <2> QED
    BY <2>1, ForgettingStep
<1>9. ASSUME NEW k \in Keys, SweepWaiting(k) \/ FlushOne(k)
      PROVE  RingCovers' /\ Cardinality(Tracked') <= MaxFlows
  BY <1>9, ResolveWithoutHost DEF SweepWaiting, FlushOne
<1>10. CASE DropBlocked \/ AllowBareAck
  <2>1. Key \in Keys /\ ring' = ring
    BY <1>10, KeyType DEF DropBlocked, AllowBareAck, Undecided, TableInv, TypeInv
  <2>2. conns' = [conns EXCEPT ![Key] = [conns[Key] EXCEPT !.idle = 0]]
    BY <1>10 DEF DropBlocked, AllowBareAck
  <2>3. [conns[Key] EXCEPT !.idle = 0].state = conns[Key].state
    BY <1>t, <2>1 DEF Entry
  <2> QED
    BY <1>5, <2>1, <2>2, <2>3
<1>11. CASE OnConnectionStart
  <2>1. Key \in Keys /\ ring' = ring
    BY <1>11, KeyType DEF OnConnectionStart, Callback, TableInv, TypeInv, FedConn
  <2>2. conns' = conns \/ conns' = [conns EXCEPT ![Key] = [conns[Key] EXCEPT !.token = cur.conn]]
    BY <1>11 DEF OnConnectionStart
  <2>3. [conns[Key] EXCEPT !.token = cur.conn].state = conns[Key].state
    BY <1>t, <2>1 DEF Entry
  <2> QED
    BY <1>1, <1>5, <2>1, <2>2, <2>3
<1>12. ASSUME NEW b \in BOOLEAN, FeedReassembler(b)
       PROVE  RingCovers' /\ Cardinality(Tracked') <= MaxFlows
  <2> DEFINE held == IF cur.seg # 0 THEN Append(conns[Key].held, cur) ELSE conns[Key].held
  <2>1. Key \in Keys /\ ring' = ring
    BY <1>12, KeyType DEF FeedReassembler, Undecided, TableInv, TypeInv
  <2>2. conns' = [conns EXCEPT ![Key] = [conns[Key] EXCEPT !.idle = 0, !.held = held]]
    BY <1>12, <1>t, <2>1 DEF FeedReassembler
  <2> HIDE DEF held
  <2>3. [conns[Key] EXCEPT !.idle = 0, !.held = held].state = conns[Key].state
    BY <1>t, <2>1 DEF Entry
  <2> QED
    BY <1>5, <2>1, <2>2, <2>3
<1>13. CASE Epilogue
  <2> DEFINE released == ReleaseLast(conns[Key].held)
  <2>1. Key \in Keys /\ ring' = ring
    BY <1>13, KeyType DEF Epilogue, TableInv, TypeInv, FedConn
  <2>2. conns' = conns \/ conns' = [conns EXCEPT ![Key] = [conns[Key] EXCEPT !.held = released]]
    BY <1>13 DEF Epilogue
  <2> HIDE DEF released
  <2>3. [conns[Key] EXCEPT !.held = released].state = conns[Key].state
    BY <1>t, <2>1 DEF Entry
  <2> QED
    BY <1>1, <1>5, <2>1, <2>2, <2>3
<1>14. CASE AllowFlooded
  <2>1. Key \in Keys
    BY <1>14, KeyType DEF AllowFlooded, Undecided, TableInv, TypeInv
  <2> QED
    BY <1>14, <2>1, ResolveWithoutHost DEF AllowFlooded
<1> QED
  BY <1>2, <1>3, <1>4, <1>6, <1>7, <1>8, <1>9, <1>10, <1>11, <1>12, <1>13, <1>14, AdmitWithRoomKeeps,
     AdmitByEvictionKeeps, AllowAtCapKeeps, OnMessageReadyKeeps, OnConnectionEndKeeps
  DEF Next, Step

LEMMA InitTable == Init => TableInv
<1> SUFFICES ASSUME Init PROVE RingCovers /\ Cardinality(Tracked) <= MaxFlows
  BY InitType DEF TableInv
<1>1. \A k \in Keys : conns[k].state = "None"
  BY ConstType DEF Init
<1>2. RingCovers /\ Tracked = {}
  BY <1>1 DEF RingCovers, Blocked, InState, Tracked, TrackedIn
<1> QED
  BY <1>2, FS_EmptySet, LimitsType

\* A ring of MaxBlocked slots cannot cover more than MaxBlocked flows.
LEMMA CoveredIsBounded ==
  ASSUME TableInv
  PROVE  Cardinality(Blocked \ {0}) <= MaxBlocked
<1> DEFINE B == Blocked \ {0}
           S == {i \in Slots : ring[i] \in B}
           f == [i \in S |-> ring[i]]
<1>1. IsFiniteSet(Slots) /\ Cardinality(Slots) = MaxBlocked
  <2>1. 0 \in Int /\ MaxBlocked - 1 \in Int /\ ~(0 > MaxBlocked - 1)
    BY LimitsType
  <2> QED
    BY <2>1, FS_Interval, LimitsType DEF Slots
<1>2. f \in Surjection(S, B)
  BY DEF Surjection, TableInv, RingCovers
<1>3. IsFiniteSet(S) /\ Cardinality(S) <= MaxBlocked
  BY <1>1, FS_Subset
<1>4. Cardinality(B) <= Cardinality(S)
  BY <1>2, <1>3, FS_Surjection
<1>5. Cardinality(B) \in Nat /\ Cardinality(S) \in Nat
  BY <1>3, CardType, FS_CardinalityType DEF Blocked, InState
<1> QED
  BY <1>3, <1>4, <1>5, LimitsType

\* remember_blocked() and evict_oldest_blocked() between them never lose sight of
\* a blocked flow, whatever sweeps and evictions have punched holes in the ring.
THEOREM RingAlwaysCovers == Spec => []RingCovers
<1>1. TableInv => RingCovers
  BY DEF TableInv
<1> QED
  BY <1>1, InitTable, NextKeepsTable, PTL DEF Spec

\* max_flows bounds the table, and max_blocked the blocked flows but for one whose
\* key is zero, whatever the keys are.
THEOREM BoundedButForZero ==
  Spec => [](Cardinality(Blocked \ {0}) <= MaxBlocked /\ Cardinality(Tracked) <= MaxFlows)
<1>1. TableInv => Cardinality(Blocked \ {0}) <= MaxBlocked /\ Cardinality(Tracked) <= MaxFlows
  BY CoveredIsBounded DEF TableInv
<1> QED
  BY <1>1, InitTable, NextKeepsTable, PTL DEF Spec

\* Where no connection's key is zero, the flow table keeps both of its limits.
THEOREM TableStaysBounded ==
  ASSUME 0 \notin Keys
  PROVE  Spec => []TableBounded
<1>1. TableInv => TableBounded
  <2>1. Blocked \ {0} = Blocked
    BY DEF Blocked, InState
  <2> QED
    BY <2>1, CoveredIsBounded DEF TableInv, TableBounded
<1> QED
  BY <1>1, InitTable, NextKeepsTable, PTL DEF Spec

-----------------------------------------------------------------------------
\* What flows buffer.

\* The bounds on one entry.
EntryBounded(e) ==
  /\ Len(e.held) <= MaxHeld
  /\ Len(e.stream) <= MaxStream
  /\ e.state # "Wait" => e.held = <<>> /\ e.stream = <<>>

\* flush() has still to decide every flow that waits.
FlushCovers == pc = "flush" => Waiting \subseteq todo

BufferInv == TypeInv /\ BuffersBounded /\ FlushCovers

LEMMA BoundedEntries == BuffersBounded <=> \A k \in Keys : EntryBounded(conns[k])
BY DEF BuffersBounded, EntryBounded

LEMMA ConstBounded ==
  /\ EntryBounded(Absent) /\ EntryBounded(NewConn)
  /\ Absent.held = <<>> /\ NewConn.held = <<>>
<1>1. Len(<<>>) = 0 /\ MaxHeld \in Nat /\ MaxStream \in Nat
  BY EmptySeq, LimitsAssumption
<1> QED
  BY <1>1 DEF EntryBounded, Absent, NewConn

\* resolve() empties the flow it decides, and touches no other but the blocked
\* one whose slot it takes.
LEMMA ResolveEntries ==
  ASSUME conns \in [Keys -> Entry], NEW k \in Keys, NEW c \in Entry, NEW host, NEW why,
         NEW more, Resolve(k, c, host, why, more)
  PROVE  /\ conns'[k].held = <<>> /\ conns'[k].stream = <<>> /\ conns'[k].state # "Wait"
         /\ \A x \in Keys \ {k} : \/ conns'[x] = conns[x]
                                  \/ conns[x].state = "Block" /\ conns'[x] = Absent
<1>1. CASE Decide(host) = "BLOCK"
  <2> DEFINE entry == [c EXCEPT !.state = "Block", !.held = <<>>, !.stream = <<>>]
  <2>1. \A x \in Keys : conns'[x] = IF x = k THEN entry
                                    ELSE IF Evicts(k) /\ x = ring[ringNext] THEN Absent
                                    ELSE conns[x]
    BY <1>1 DEF Resolve, RememberBlocked
  <2>2. entry.held = <<>> /\ entry.stream = <<>> /\ entry.state = "Block"
    BY DEF Entry
  <2> HIDE DEF entry
  <2> QED
    BY <2>1, <2>2 DEF Evicts, Blocked, InState
<1>2. CASE Decide(host) # "BLOCK"
  BY <1>2 DEF Resolve, Absent
<1> QED
  BY <1>1, <1>2

LEMMA ResolveBounded ==
  ASSUME conns \in [Keys -> Entry], BuffersBounded, NEW k \in Keys, NEW c \in Entry, NEW host,
         NEW why, NEW more, Resolve(k, c, host, why, more)
  PROVE  /\ BuffersBounded'
         /\ \A x \in Keys : conns'[x].held = IF x = k THEN <<>> ELSE conns[x].held
         /\ Waiting' = Waiting \ {k}
<1>1. /\ conns'[k].held = <<>> /\ conns'[k].stream = <<>> /\ conns'[k].state # "Wait"
      /\ \A x \in Keys \ {k} : \/ conns'[x] = conns[x]
                               \/ conns[x].state = "Block" /\ conns'[x] = Absent
  BY ResolveEntries
<1>2. Len(<<>>) = 0 /\ MaxHeld \in Nat /\ MaxStream \in Nat
  BY EmptySeq, LimitsAssumption
<1>3. \A x \in Keys : EntryBounded(conns[x])
  BY BoundedEntries
<1>4. \A x \in Keys : EntryBounded(conns'[x])
  BY <1>1, <1>2, <1>3, ConstBounded DEF EntryBounded
<1>5. \A x \in Keys : conns'[x].held = IF x = k THEN <<>> ELSE conns[x].held
  BY <1>1, <1>3, ConstBounded DEF EntryBounded
<1>6. Waiting' = Waiting \ {k}
  BY <1>1, ConstType DEF Waiting, InState
<1> QED
  BY <1>4, <1>5, <1>6 DEF BuffersBounded, EntryBounded

\* A step that changes no entry but in how long it has been idle, its token or
\* whether it was closed.
LEMMA SameBuffers ==
  ASSUME BuffersBounded, NEW t,
         \A x \in Keys : /\ t[x].held = conns[x].held /\ t[x].stream = conns[x].stream
                         /\ t[x].state = conns[x].state
  PROVE  \A x \in Keys : EntryBounded(t[x])
BY DEF BuffersBounded, EntryBounded

LEMMA InitBuffers == Init => BufferInv
<1> SUFFICES ASSUME Init PROVE BufferInv
  OBVIOUS
<1>1. \A k \in Keys : EntryBounded(conns[k])
  BY ConstBounded DEF Init
<1> QED
  BY <1>1, InitType, BoundedEntries DEF BufferInv, FlushCovers, Init

\* The steps of tick() and flush().
LEMMA SweepBuffers ==
  ASSUME BufferInv,
         \/ Tick \/ SweepEnd \/ Flush \/ FlushEnd
         \/ \E k \in Keys : SweepBlocked(k) \/ SweepWaiting(k) \/ FlushOne(k)
  PROVE  BuffersBounded' /\ FlushCovers'
<1>0. conns \in [Keys -> Entry] /\ BuffersBounded
  BY DEF BufferInv, TypeInv, TypeOK
<1>1. CASE Tick
  BY <1>0, <1>1 DEF Tick, EnterTick, table, BuffersBounded, FlushCovers
<1>2. CASE SweepEnd
  BY <1>0, <1>2 DEF SweepEnd, BuffersBounded, FlushCovers
<1>3. CASE Flush
  BY <1>0, <1>3 DEF Flush, table, BuffersBounded, FlushCovers, Waiting, InState
<1>4. CASE FlushEnd
  <2>1. \A k \in Keys : EntryBounded(conns'[k])
    BY <1>4, ConstBounded DEF FlushEnd
  <2> QED
    BY <1>4, <2>1 DEF FlushEnd, FlushCovers, BuffersBounded, EntryBounded
<1>5. ASSUME NEW k \in Keys, SweepBlocked(k) PROVE BuffersBounded' /\ FlushCovers'
  <2>1. \A x \in Keys : conns'[x] = IF x = k THEN Absent ELSE conns[x]
    BY <1>0, <1>5 DEF SweepBlocked
  <2>2. \A x \in Keys : EntryBounded(conns'[x])
    BY <1>0, <2>1, ConstBounded, BoundedEntries
  <2> QED
    BY <1>5, <2>2 DEF SweepBlocked, FlushCovers, BuffersBounded, EntryBounded
<1>6. ASSUME NEW k \in Keys, SweepWaiting(k) PROVE BuffersBounded' /\ FlushCovers'
  <2>1. BuffersBounded'
    BY <1>0, <1>6, ResolveBounded DEF SweepWaiting
  <2> QED
    BY <1>6, <2>1 DEF SweepWaiting, FlushCovers
<1>7. ASSUME NEW k \in Keys, FlushOne(k) PROVE BuffersBounded' /\ FlushCovers'
  <2>1. BuffersBounded' /\ Waiting' = Waiting \ {k}
    BY <1>0, <1>7, ResolveBounded DEF FlushOne
  <2> QED
    BY <1>7, <2>1 DEF FlushOne, FlushCovers, BufferInv
<1> QED
  BY <1>1, <1>2, <1>3, <1>4, <1>5, <1>6, <1>7

\* feed() up to the reassembler.
LEMMA FeedBuffers ==
  ASSUME BufferInv,
         \/ \E h \in Arrivals : Feed(h)
         \/ AllowUndissected \/ DropBlocked \/ AllowUntracked
         \/ AdmitWithRoom \/ AdmitByEviction \/ AllowAtCap
         \/ AllowFlooded \/ AllowBareAck
  PROVE  BuffersBounded' /\ FlushCovers'
<1>0. conns \in [Keys -> Entry] /\ BuffersBounded /\ TypeOK
  BY DEF BufferInv, TypeInv, TypeOK
<1>p. ASSUME \A x \in Keys : EntryBounded(conns'[x]), pc' # "flush"
      PROVE  BuffersBounded' /\ FlushCovers'
  BY <1>p DEF BuffersBounded, EntryBounded, FlushCovers
<1>1. CASE \E h \in Arrivals : Feed(h)
  BY <1>0, <1>1 DEF Feed, EnterTick, table, BuffersBounded, FlushCovers
<1>2. CASE AllowUndissected \/ AllowUntracked \/ AllowAtCap
  BY <1>0, <1>2 DEF AllowUndissected, AllowUntracked, AllowAtCap, ReturnWith, Return,
     BuffersBounded, FlushCovers
<1>3. CASE DropBlocked \/ AllowBareAck
  <2>1. Key \in Keys /\ conns' = [conns EXCEPT ![Key].idle = 0]
    BY <1>0, <1>3, KeyType DEF DropBlocked, AllowBareAck, Undecided
  <2>2. conns' = [conns EXCEPT ![Key] = [conns[Key] EXCEPT !.idle = 0]]
    BY <1>0, <2>1
  <2>3. \A x \in Keys : /\ conns'[x].held = conns[x].held /\ conns'[x].stream = conns[x].stream
                        /\ conns'[x].state = conns[x].state
    BY <1>0, <2>1, <2>2 DEF Entry
  <2>4. pc' # "flush"
    BY <1>3 DEF DropBlocked, AllowBareAck, ReturnWith, Return
  <2> QED
    BY <1>0, <1>p, <2>3, <2>4, SameBuffers
<1>4. CASE AdmitWithRoom
  <2>1. \A x \in Keys : conns'[x] = IF x = Key THEN NewConn ELSE conns[x]
    BY <1>0, <1>4 DEF AdmitWithRoom
  <2>2. pc' # "flush"
    BY <1>4 DEF AdmitWithRoom, Untracked
  <2> QED
    BY <1>0, <1>p, <2>1, <2>2, ConstBounded, BoundedEntries
<1>5. CASE AdmitByEviction
  <2>1. PICK victim : conns' = [conns EXCEPT ![victim] = Absent, ![Key] = NewConn]
    BY <1>5 DEF AdmitByEviction
  <2>2. \A x \in Keys : conns'[x] \in {Absent, NewConn, conns[x]}
    BY <1>0, <2>1
  <2>3. pc' # "flush"
    BY <1>5 DEF AdmitByEviction, Untracked
  <2> QED
    BY <1>0, <1>p, <2>2, <2>3, ConstBounded, BoundedEntries
<1>6. CASE AllowFlooded
  <2>1. Key \in Keys /\ conns[Key] \in Entry
    BY <1>0, <1>6, KeyType DEF AllowFlooded, Undecided
  <2>2. BuffersBounded'
    BY <1>0, <1>6, <2>1, ResolveBounded DEF AllowFlooded
  <2> QED
    BY <1>6, <2>2 DEF AllowFlooded, Return, FlushCovers
<1> QED
  BY <1>1, <1>2, <1>3, <1>4, <1>5, <1>6

\* The reassembler and its callbacks.
LEMMA CallbackBuffers ==
  ASSUME BufferInv,
         \/ \E b \in BOOLEAN : FeedReassembler(b)
         \/ OnConnectionStart \/ OnMessageIgnored \/ OnMessageReady \/ OnConnectionEnd
         \/ Epilogue
  PROVE  BuffersBounded' /\ FlushCovers'
<1>0. conns \in [Keys -> Entry] /\ BuffersBounded /\ TypeOK /\ FedConn
  BY DEF BufferInv, TypeInv, TypeOK
<1>p. ASSUME \A x \in Keys : EntryBounded(conns'[x]), pc' # "flush"
      PROVE  BuffersBounded' /\ FlushCovers'
  BY <1>p DEF BuffersBounded, EntryBounded, FlushCovers
<1>1. ASSUME NEW b \in BOOLEAN, FeedReassembler(b) PROVE BuffersBounded' /\ FlushCovers'
  <2>1. Key \in Keys /\ conns[Key].state = "Wait" /\ Len(conns[Key].held) < MaxHeld
    <3>1. Key \in Keys
      BY <1>0, <1>1, KeyType DEF FeedReassembler, Undecided
    <3>2. Len(conns[Key].held) \in Nat /\ MaxHeld \in Nat
      BY <1>0, <3>1, LenProperties, LimitsAssumption DEF Entry
    <3> QED
      BY <1>1, <3>1, <3>2 DEF FeedReassembler, Undecided, Flooded
  <2> DEFINE held == IF cur.seg # 0 THEN Append(conns[Key].held, cur) ELSE conns[Key].held
             entry == [conns[Key] EXCEPT !.idle = 0, !.held = held]
  <2>2. conns' = [conns EXCEPT ![Key] = entry]
    BY <1>0, <1>1, <2>1 DEF FeedReassembler
  <2>3. Len(held) <= MaxHeld
    <3>1. conns[Key].held \in Seq(Packet) /\ cur \in Packet
      BY <1>0, <2>1 DEF TypeOK, Entry
    <3>2. Len(Append(conns[Key].held, cur)) = Len(conns[Key].held) + 1
      BY <3>1, AppendProperties
    <3> QED
      BY <2>1, <3>1, <3>2, LimitsAssumption, LenProperties
  <2> HIDE DEF held
  <2>4. entry.held = held /\ entry.stream = conns[Key].stream /\ entry.state = "Wait"
    BY <1>0, <2>1 DEF Entry
  <2> HIDE DEF entry
  <2>5. EntryBounded(entry)
    BY <1>0, <2>1, <2>3, <2>4 DEF EntryBounded, BuffersBounded
  <2>6. \A x \in Keys : EntryBounded(conns'[x])
    BY <1>0, <2>2, <2>5, BoundedEntries
  <2> QED
    BY <1>p, <1>1, <2>6 DEF FeedReassembler
<1>2. CASE OnConnectionStart
  <2>1. pc' # "flush" /\ Key \in Keys
    BY <1>0, <1>2, KeyType DEF OnConnectionStart, Callback, FedConn
  <2>2. conns' = conns \/ conns' = [conns EXCEPT ![Key] = [conns[Key] EXCEPT !.token = cur.conn]]
    BY <1>0, <1>2 DEF OnConnectionStart
  <2>3. \A x \in Keys : /\ conns'[x].held = conns[x].held /\ conns'[x].stream = conns[x].stream
                        /\ conns'[x].state = conns[x].state
    BY <1>0, <2>1, <2>2 DEF Entry
  <2> QED
    BY <1>0, <1>p, <2>1, <2>3, SameBuffers
<1>3. CASE OnMessageIgnored
  BY <1>0, <1>3 DEF OnMessageIgnored, Callback, table, BuffersBounded, FlushCovers
<1>4. CASE OnMessageReady
  <2> DEFINE c == Appended(conns[Key])
  <2>1. cur.conn # NoConn /\ Key \in Keys /\ events # <<>> /\ pc' = "callbacks"
    BY <1>0, <1>4, KeyType DEF OnMessageReady, Callback, FedConn
  <2>2. c \in Entry
    BY <1>0, <2>1, AppendedType
  <2>3. c.held = conns[Key].held /\ c.state = conns[Key].state /\ conns[Key].state = "Wait"
    BY <1>0, <1>4, <2>1 DEF OnMessageReady, Appended, Entry
  <2>4. \/ \E host, why : Resolve(Key, c, host, why, <<>>)
        \/ conns' = [conns EXCEPT ![Key] = c] /\ Len(c.stream) <= MaxStream
    BY <1>4 DEF OnMessageReady
  <2> HIDE DEF c
  <2>5. CASE \E host, why : Resolve(Key, c, host, why, <<>>)
    <3>1. BuffersBounded'
      BY <1>0, <2>1, <2>2, <2>5, ResolveBounded
    <3> QED
      BY <2>1, <3>1 DEF FlushCovers
  <2>6. CASE conns' = [conns EXCEPT ![Key] = c] /\ Len(c.stream) <= MaxStream
    <3>1. EntryBounded(c)
      BY <1>0, <2>1, <2>3, <2>6 DEF EntryBounded, BuffersBounded
    <3>2. \A x \in Keys : EntryBounded(conns'[x])
      BY <1>0, <2>6, <3>1, BoundedEntries
    <3> QED
      BY <1>p, <2>1, <3>2
  <2> QED
    BY <2>4, <2>5, <2>6
<1>5. CASE OnConnectionEnd
  <2> DEFINE c == [conns[Key] EXCEPT !.closed = TRUE]
  <2>1. Key \in Keys /\ pc' = "callbacks"
    BY <1>0, <1>5, KeyType DEF OnConnectionEnd, Callback, FedConn
  <2>2. c \in Entry /\ c.held = conns[Key].held /\ c.stream = conns[Key].stream
        /\ c.state = conns[Key].state /\ c.state \in {"None", "Wait", "Block"}
    BY <1>0, <2>1 DEF Entry
  <2>3. \/ Resolve(Key, c, NoHost, "ended", <<>>)
        \/ conns' = [conns EXCEPT ![Key] = c]
        \/ conns' = conns
    BY <1>5, <2>2 DEF OnConnectionEnd
  <2> HIDE DEF c
  <2>4. CASE Resolve(Key, c, NoHost, "ended", <<>>)
    <3>1. BuffersBounded'
      BY <1>0, <2>1, <2>2, <2>4, ResolveBounded
    <3> QED
      BY <2>1, <3>1 DEF FlushCovers
  <2>5. CASE conns' = [conns EXCEPT ![Key] = c] \/ conns' = conns
    <3>1. \A x \in Keys : /\ conns'[x].held = conns[x].held /\ conns'[x].stream = conns[x].stream
                          /\ conns'[x].state = conns[x].state
      BY <1>0, <2>1, <2>2, <2>5
    <3> QED
      BY <1>0, <1>p, <2>1, <3>1, SameBuffers
  <2> QED
    BY <2>3, <2>4, <2>5
<1>6. CASE Epilogue
  <2>1. Key \in Keys /\ pc' = "idle"
    BY <1>0, <1>6, KeyType DEF Epilogue, Return, FedConn
  <2> DEFINE held == ReleaseLast(conns[Key].held)
             entry == [conns[Key] EXCEPT !.held = held]
  <2>2. Len(held) = Len(conns[Key].held) /\ (conns[Key].held = <<>> => held = <<>>)
    BY <1>0, <2>1, ReleaseType DEF Entry, ReleaseLast
  <2>3. conns' = conns \/ conns' = [conns EXCEPT ![Key] = entry]
    BY <1>0, <1>6, <2>1 DEF Epilogue
  <2> HIDE DEF held
  <2>4. entry.held = held /\ entry.stream = conns[Key].stream /\ entry.state = conns[Key].state
    BY <1>0, <2>1 DEF Entry
  <2> HIDE DEF entry
  <2>5. EntryBounded(entry)
    BY <1>0, <2>1, <2>2, <2>4 DEF EntryBounded, BuffersBounded
  <2>6. \A x \in Keys : EntryBounded(conns'[x])
    BY <1>0, <2>3, <2>5, BoundedEntries
  <2> QED
    BY <1>p, <2>1, <2>6
<1> QED
  BY <1>1, <1>2, <1>3, <1>4, <1>5, <1>6

\* Time passes without touching what flows hold.
LEMMA ElapseBuffers ==
  ASSUME BufferInv, Elapse
  PROVE  /\ BuffersBounded' /\ FlushCovers'
         /\ \A x \in Keys : /\ conns'[x].held = conns[x].held
                            /\ conns'[x].state = conns[x].state
<1>0. conns \in [Keys -> Entry] /\ BuffersBounded
  BY DEF BufferInv, TypeInv, TypeOK
<1>1. \A e \in Entry : LET f == [e EXCEPT !.idle = @ + 1]
                       IN f.held = e.held /\ f.stream = e.stream /\ f.state = e.state
  BY DEF Entry
<1>2. \A x \in Keys : /\ conns'[x].held = conns[x].held /\ conns'[x].stream = conns[x].stream
                      /\ conns'[x].state = conns[x].state
  BY <1>0, <1>1 DEF Elapse
<1>3. \A x \in Keys : EntryBounded(conns'[x])
  BY <1>0, <1>2, SameBuffers
<1>4. pc' # "flush"
  BY DEF Elapse
<1> QED
  BY <1>2, <1>3, <1>4 DEF BuffersBounded, EntryBounded, FlushCovers

LEMMA NextBuffers == BufferInv /\ [Next]_vars => BufferInv'
<1> SUFFICES ASSUME BufferInv, [Next]_vars PROVE BufferInv'
  OBVIOUS
<1>1. TypeInv'
  BY NextType DEF BufferInv
<1>2. CASE Drain
  BY <1>1, <1>2 DEF Drain, table, BufferInv, BuffersBounded, FlushCovers
<1>3. CASE Finished \/ UNCHANGED vars
  BY <1>1, <1>3 DEF Finished, vars, BufferInv, BuffersBounded, FlushCovers, Waiting, InState
<1>4. CASE Elapse
  BY <1>1, <1>4, ElapseBuffers DEF BufferInv
<1> QED
  BY <1>1, <1>2, <1>3, <1>4, SweepBuffers, FeedBuffers, CallbackBuffers
  DEF Next, Step, BufferInv

LEMMA BufferInvAlways == Spec => []BufferInv
BY InitBuffers, NextBuffers, PTL DEF Spec

\* What a flow buffers never exceeds kMaxPacketsPerConn packets and kMaxStreamBytes,
\* whatever the reassembler delivers at once, and a flow resolve() has decided, or
\* feed() never tracked, buffers nothing.
THEOREM BuffersAlwaysBounded == Spec => []BuffersBounded
<1>1. BufferInv => BuffersBounded
  BY DEF BufferInv
<1> QED
  BY <1>1, BufferInvAlways, PTL

-----------------------------------------------------------------------------
\* The published size of the table.

LEMMA NextGauge == TypeInv /\ GaugeFresh /\ [Next]_vars => GaugeFresh'
<1> SUFFICES ASSUME TypeInv, GaugeFresh, [Next]_vars PROVE GaugeFresh'
  OBVIOUS
<1> USE DEF GaugeFresh, Tracked
<1>1. CASE Return
  BY <1>1 DEF Return
<1>2. CASE SweepEnd
  BY <1>2 DEF SweepEnd, TrackedIn
<1>3. CASE FlushEnd
  <2>1. TrackedIn(conns') = {}
    BY <1>3, ConstType DEF FlushEnd, TrackedIn
  <2> QED
    BY <1>3, <2>1, FS_EmptySet DEF FlushEnd
<1>4. CASE Drain
  BY <1>4 DEF Drain, table
<1>5. CASE Elapse
  <2>1. conns \in [Keys -> Entry]
    BY DEF TypeInv, TypeOK
  <2>2. \A e \in Entry : [e EXCEPT !.idle = @ + 1].state = e.state
    BY DEF Entry
  <2>3. \A k \in Keys : conns'[k].state = conns[k].state
    BY <1>5, <2>1, <2>2 DEF Elapse
  <2>4. TrackedIn(conns') = TrackedIn(conns)
    BY <2>3 DEF TrackedIn
  <2> QED
    BY <1>5, <2>4 DEF Elapse
<1>6. CASE Finished \/ UNCHANGED vars
  BY <1>6 DEF Finished, vars
<1>7. CASE pc' \notin {"idle", "done"}
  BY <1>7
<1>8. CASE \E h \in Arrivals : Feed(h)
  BY <1>7, <1>8 DEF Feed, EnterTick
<1>9. CASE Tick \/ Flush \/ \E k \in Keys : SweepBlocked(k) \/ SweepWaiting(k) \/ FlushOne(k)
  BY <1>7, <1>9 DEF Tick, EnterTick, Flush, SweepBlocked, SweepWaiting, FlushOne
<1>10. CASE AllowUndissected \/ DropBlocked \/ AllowUntracked \/ AllowAtCap \/ AllowFlooded
            \/ AllowBareAck \/ Epilogue
  BY <1>1, <1>10 DEF AllowUndissected, DropBlocked, AllowUntracked, AllowAtCap, AllowFlooded,
     AllowBareAck, Epilogue, ReturnWith
<1>11. CASE AdmitWithRoom \/ AdmitByEviction
  BY <1>7, <1>11 DEF AdmitWithRoom, AdmitByEviction, Untracked
<1>12. CASE \/ \E b \in BOOLEAN : FeedReassembler(b)
            \/ OnConnectionStart \/ OnMessageIgnored \/ OnMessageReady \/ OnConnectionEnd
  BY <1>7, <1>12 DEF FeedReassembler, OnConnectionStart, OnMessageIgnored, OnMessageReady,
     OnConnectionEnd, Callback
<1> QED
  BY <1>2, <1>3, <1>4, <1>5, <1>6, <1>8, <1>9, <1>10, <1>11, <1>12 DEF Next, Step

\* Whichever way a call of feed(), tick() or flush() leaves, and whatever it evicted,
\* swept or admitted on the way, the table size it has published is the table's size.
THEOREM GaugeAlwaysFresh == Spec => []GaugeFresh
<1>1. Init => GaugeFresh
  <2> SUFFICES ASSUME Init PROVE flowsGauge = Cardinality(Tracked)
    BY DEF GaugeFresh
  <2>1. Tracked = {}
    BY ConstType DEF Init, Tracked, TrackedIn
  <2> QED
    BY <2>1, FS_EmptySet DEF Init
<1> QED
  BY <1>1, InitType, NextType, NextGauge, PTL DEF Spec

-----------------------------------------------------------------------------
\* What a step of a call does to packets: it moves none, or it moves the packet fed
\* into a held list or the decided buffer, or a held list into the decided buffer.

Stays ==
  /\ \A x \in Keys : conns'[x].held = conns[x].held
  /\ UNCHANGED <<decided, cur>>
  /\ pc = "callbacks" => pc' = "callbacks"
  /\ pc' = "callbacks" => pc = "callbacks" \/ cur.seg = 0

Holds ==
  /\ pc = "lookup" /\ pc' = "callbacks" /\ cur.conn # NoConn /\ cur.seg # 0
  /\ \A x \in Keys : conns'[x].held = IF x = Key THEN Append(conns[x].held, cur)
                                      ELSE conns[x].held
  /\ UNCHANGED <<decided, cur>>

Decides(k, v, why) ==
  /\ \A x \in Keys : conns'[x].held = IF x = k THEN <<>> ELSE conns[x].held
  /\ decided' = decided \o SettleAll(conns[k].held, v, why)
  /\ UNCHANGED <<cur, pc>>

Floods ==
  /\ pc = "lookup" /\ cur.conn # NoConn
  /\ \A x \in Keys : conns'[x].held = IF x = Key THEN <<>> ELSE conns[x].held
  /\ decided' = (decided \o SettleAll(conns[Key].held, "ALLOW", "flood"))
                \o <<Settle(cur, "ALLOW", "flood")>>
  /\ cur' = NoPacket /\ pc' = "idle"

Passes(v, why) ==
  /\ pc = "lookup" \/ (pc = "callbacks" /\ cur.seg = 0)
  /\ cur.conn = NoConn \/ cur.seg = 0 \/ conns[Key].held = <<>>
  /\ \A x \in Keys : conns'[x].held = conns[x].held
  /\ decided' = Append(decided, Settle(cur, v, why))
  /\ cur' = NoPacket /\ pc' = "idle"

Copies ==
  /\ pc = "callbacks" /\ cur.seg # 0
  /\ \A x \in Keys : conns'[x].held = IF x = Key THEN ReleaseLast(conns[x].held)
                                      ELSE conns[x].held
  /\ decided' = decided /\ cur' = NoPacket /\ pc' = "idle"

Moves ==
  /\ UNCHANGED <<answered, nextId>>
  /\ \/ Stays \/ Holds \/ Floods \/ Copies
     \/ \E k \in Keys, v \in Verdict, why \in Why : Decides(k, v, why)
     \/ \E v \in Verdict, why \in Why : Passes(v, why)

LEMMA ResolveMoves ==
  ASSUME TypeOK, BuffersBounded, NEW k \in Keys, NEW c \in Entry, c.held = conns[k].held,
         NEW host, NEW why \in Why, Resolve(k, c, host, why, <<>>), UNCHANGED <<cur, pc>>
  PROVE  \E v \in Verdict : Decides(k, v, why)
<1> DEFINE v == Decide(host)
<1>1. v \in Verdict /\ conns[k].held \in Seq(Packet) /\ decided \in Seq(Decision)
  BY DEF Decide, Verdict, TypeOK, Entry
<1>2. \A x \in Keys : conns'[x].held = IF x = k THEN <<>> ELSE conns[x].held
  BY ResolveBounded DEF TypeOK
<1>3. decided' = decided \o SettleAll(conns[k].held, v, why) \o <<>>
  BY DEF Resolve
<1> HIDE DEF v
<1>4. decided \o SettleAll(conns[k].held, v, why) \in Seq(Decision)
  BY <1>1, SettleAllType, ConcatProperties
<1>5. decided' = decided \o SettleAll(conns[k].held, v, why)
  BY <1>3, <1>4, ConcatEmptySeq
<1> QED
  BY <1>1, <1>2, <1>5 DEF Decides

LEMMA SweepMoves ==
  ASSUME BufferInv,
         \/ SweepEnd \/ FlushEnd
         \/ \E k \in Keys : SweepBlocked(k) \/ SweepWaiting(k) \/ FlushOne(k)
  PROVE  Moves
<1>0. /\ conns \in [Keys -> Entry] /\ BuffersBounded /\ TypeOK
      /\ {"idle", "shutdown"} \subseteq Why
  BY DEF BufferInv, TypeInv, TypeOK, Why
<1>1. CASE SweepEnd
  BY <1>1 DEF SweepEnd, Moves, Stays
<1>2. CASE FlushEnd
  <2>1. \A x \in Keys : conns[x].state # "Wait"
    BY <1>2 DEF FlushEnd, BufferInv, FlushCovers, Waiting, InState
  <2>2. \A x \in Keys : conns'[x].held = <<>> /\ conns[x].held = <<>>
    BY <1>0, <1>2, <2>1, ConstBounded DEF FlushEnd, BuffersBounded
  <2> QED
    BY <1>2, <2>2 DEF FlushEnd, Moves, Stays
<1>3. ASSUME NEW k \in Keys, SweepBlocked(k) PROVE Moves
  <2>1. \A x \in Keys : conns'[x].held = conns[x].held
    BY <1>0, <1>3, ConstBounded DEF SweepBlocked, BuffersBounded
  <2> QED
    BY <1>3, <2>1 DEF SweepBlocked, Moves, Stays
<1>4. ASSUME NEW k \in Keys, SweepWaiting(k) PROVE Moves
  <2>1. \E v \in Verdict : Decides(k, v, "idle")
    BY <1>0, <1>4, ResolveMoves DEF SweepWaiting
  <2> QED
    BY <1>0, <1>4, <2>1 DEF SweepWaiting, Moves
<1>5. ASSUME NEW k \in Keys, FlushOne(k) PROVE Moves
  <2>1. \E v \in Verdict : Decides(k, v, "shutdown")
    BY <1>0, <1>5, ResolveMoves DEF FlushOne
  <2> QED
    BY <1>0, <1>5, <2>1 DEF FlushOne, Moves
<1> QED
  BY <1>1, <1>2, <1>3, <1>4, <1>5

LEMMA FeedMoves ==
  ASSUME BufferInv,
         \/ AllowUndissected \/ DropBlocked \/ AllowUntracked
         \/ AdmitWithRoom \/ AdmitByEviction \/ AllowAtCap
         \/ AllowFlooded \/ AllowBareAck
  PROVE  Moves
<1>0. /\ conns \in [Keys -> Entry] /\ BuffersBounded /\ TypeOK
      /\ {"undissected", "blocked", "untracked", "cap", "flood", "control"} \subseteq Why
      /\ {"ALLOW", "BLOCK"} = Verdict
  BY DEF BufferInv, TypeInv, TypeOK, Why, Verdict
<1>k. cur.conn # NoConn => Key \in Keys
  BY <1>0, KeyType
<1>1. CASE AllowUndissected
  BY <1>0, <1>1 DEF AllowUndissected, ReturnWith, Return, Moves, Passes
<1>2. CASE DropBlocked \/ AllowBareAck
  <2>1. Key \in Keys /\ conns' = [conns EXCEPT ![Key].idle = 0]
    BY <1>k, <1>2 DEF DropBlocked, AllowBareAck, Undecided
  <2>2. conns' = [conns EXCEPT ![Key] = [conns[Key] EXCEPT !.idle = 0]]
    BY <1>0, <2>1
  <2>3. \A x \in Keys : conns'[x].held = conns[x].held
    BY <1>0, <2>1, <2>2 DEF Entry
  <2>4. cur.seg = 0 \/ conns[Key].held = <<>>
    BY <1>0, <1>2, <2>1 DEF DropBlocked, AllowBareAck, BuffersBounded
  <2> QED
    BY <1>0, <1>2, <2>3, <2>4 DEF DropBlocked, AllowBareAck, Undecided, ReturnWith, Return,
       Moves, Passes
<1>3. CASE AllowUntracked \/ AllowAtCap
  <2>1. pc = "lookup" /\ conns[Key].held = <<>> /\ conns' = conns
    BY <1>0, <1>k, <1>3 DEF AllowUntracked, AllowAtCap, Untracked, BuffersBounded
  <2>2. \E v \in Verdict, why \in Why : ReturnWith(v, why)
    BY <1>0, <1>3 DEF AllowUntracked, AllowAtCap
  <2>3. UNCHANGED <<answered, nextId>>
    BY <1>3 DEF AllowUntracked, AllowAtCap
  <2> QED
    BY <2>1, <2>2, <2>3 DEF ReturnWith, Return, Moves, Passes
<1>4. CASE AdmitWithRoom
  <2>1. \A x \in Keys : conns'[x].held = conns[x].held
    BY <1>0, <1>k, <1>4, ConstBounded DEF AdmitWithRoom, Untracked, BuffersBounded
  <2> QED
    BY <1>4, <2>1 DEF AdmitWithRoom, Untracked, Moves, Stays
<1>5. CASE AdmitByEviction
  <2>1. PICK victim \in Blocked : conns' = [conns EXCEPT ![victim] = Absent, ![Key] = NewConn]
    BY <1>5 DEF AdmitByEviction, LiveSlot
  <2>2. Key \in Keys /\ conns[Key].state = "None" /\ conns[victim].state = "Block"
    BY <1>k, <1>5 DEF AdmitByEviction, Untracked, Blocked, InState
  <2>3. \A x \in Keys : conns'[x].held = conns[x].held
    BY <1>0, <2>1, <2>2, ConstBounded DEF BuffersBounded
  <2> QED
    BY <1>5, <2>3 DEF AdmitByEviction, Untracked, Moves, Stays
<1>6. CASE AllowFlooded
  <2>1. Key \in Keys /\ conns[Key] \in Entry
    BY <1>0, <1>k, <1>6 DEF AllowFlooded, Undecided
  <2>2. \A x \in Keys : conns'[x].held = IF x = Key THEN <<>> ELSE conns[x].held
    BY <1>0, <1>6, <2>1, ResolveBounded DEF AllowFlooded
  <2>3. Decide(NoHost) = "ALLOW"
    BY StreamsAssumption DEF Decide
  <2> QED
    BY <1>6, <2>2, <2>3 DEF AllowFlooded, Undecided, Resolve, Return, Moves, Floods
<1> QED
  BY <1>1, <1>2, <1>3, <1>4, <1>5, <1>6

LEMMA CallbackMoves ==
  ASSUME BufferInv,
         \/ \E b \in BOOLEAN : FeedReassembler(b)
         \/ OnConnectionStart \/ OnMessageIgnored \/ OnMessageReady \/ OnConnectionEnd
         \/ Epilogue
  PROVE  Moves
<1>0. conns \in [Keys -> Entry] /\ BuffersBounded /\ TypeOK /\ FedConn
  BY DEF BufferInv, TypeInv, TypeOK
<1>k. cur.conn # NoConn => Key \in Keys
  BY <1>0, KeyType
<1>1. ASSUME NEW b \in BOOLEAN, FeedReassembler(b) PROVE Moves
  <2>1. Key \in Keys /\ cur.conn # NoConn /\ pc = "lookup"
    BY <1>k, <1>1 DEF FeedReassembler, Undecided
  <2> DEFINE held == IF cur.seg # 0 THEN Append(conns[Key].held, cur) ELSE conns[Key].held
             entry == [conns[Key] EXCEPT !.idle = 0, !.held = held]
  <2>2. conns' = [conns EXCEPT ![Key] = entry]
    BY <1>0, <1>1, <2>1 DEF FeedReassembler
  <2> HIDE DEF held
  <2>3. entry.held = held
    BY <1>0, <2>1 DEF Entry
  <2> HIDE DEF entry
  <2>4. \A x \in Keys : conns'[x].held = IF x = Key THEN held ELSE conns[x].held
    BY <1>0, <2>1, <2>2, <2>3
  <2>5. pc' = "callbacks" /\ UNCHANGED <<answered, nextId, decided, cur>>
    BY <1>1 DEF FeedReassembler
  <2>6. CASE cur.seg # 0
    <3>1. held = Append(conns[Key].held, cur)
      BY <2>6 DEF held
    <3>2. \A x \in Keys : conns'[x].held = IF x = Key THEN Append(conns[x].held, cur)
                                           ELSE conns[x].held
      BY <2>4, <3>1
    <3>3. Holds
      BY <2>1, <2>5, <2>6, <3>2 DEF Holds
    <3> QED
      BY <2>5, <3>3 DEF Moves
  <2>7. CASE cur.seg = 0
    <3>1. held = conns[Key].held
      BY <2>7 DEF held
    <3>2. \A x \in Keys : conns'[x].held = conns[x].held
      BY <2>4, <3>1
    <3> QED
      BY <2>1, <2>5, <2>7, <3>2 DEF Moves, Stays
  <2> QED
    BY <2>6, <2>7
<1>2. CASE OnConnectionStart
  <2>1. Key \in Keys
    BY <1>0, <1>k, <1>2 DEF OnConnectionStart, Callback, FedConn
  <2>2. conns' = conns \/ conns' = [conns EXCEPT ![Key] = [conns[Key] EXCEPT !.token = cur.conn]]
    BY <1>0, <1>2 DEF OnConnectionStart
  <2>3. [conns[Key] EXCEPT !.token = cur.conn].held = conns[Key].held
    BY <1>0, <2>1 DEF Entry
  <2>4. \A x \in Keys : conns'[x].held = conns[x].held
    BY <1>0, <2>1, <2>2, <2>3
  <2> QED
    BY <1>2, <2>4 DEF OnConnectionStart, Callback, Moves, Stays
<1>3. CASE OnMessageIgnored
  BY <1>3 DEF OnMessageIgnored, Callback, table, Moves, Stays
<1>4. CASE OnMessageReady
  <2> DEFINE c == Appended(conns[Key])
  <2>1. cur.conn # NoConn /\ Key \in Keys /\ events # <<>> /\ pc = "callbacks"
    BY <1>0, <1>k, <1>4 DEF OnMessageReady, Callback, FedConn
  <2>2. c \in Entry
    BY <1>0, <2>1, AppendedType
  <2>3. c.held = conns[Key].held
    BY <1>0, <2>1 DEF Appended, Entry
  <2>4. StreamKind(c.stream) \in Why /\ "oversize" \in Why
    BY DEF StreamKind, Why
  <2>5. \/ \E host, why : why \in Why /\ Resolve(Key, c, host, why, <<>>)
        \/ conns' = [conns EXCEPT ![Key] = c] /\ decided' = decided
    BY <1>4, <2>4 DEF OnMessageReady
  <2>6. UNCHANGED <<cur, pc, answered, nextId>>
    BY <1>4 DEF OnMessageReady
  <2> HIDE DEF c
  <2>7. CASE \E host, why : why \in Why /\ Resolve(Key, c, host, why, <<>>)
    <3>1. \E v \in Verdict, why \in Why : Decides(Key, v, why)
      BY <1>0, <2>1, <2>2, <2>3, <2>6, <2>7, ResolveMoves
    <3> QED
      BY <2>1, <2>6, <3>1 DEF Moves
  <2>8. CASE conns' = [conns EXCEPT ![Key] = c] /\ decided' = decided
    <3>1. \A x \in Keys : conns'[x].held = conns[x].held
      BY <1>0, <2>3, <2>8
    <3> QED
      BY <2>1, <2>6, <2>8, <3>1 DEF Moves, Stays
  <2> QED
    BY <2>5, <2>7, <2>8
<1>5. CASE OnConnectionEnd
  <2> DEFINE c == [conns[Key] EXCEPT !.closed = TRUE]
  <2>1. Key \in Keys /\ pc = "callbacks"
    BY <1>0, <1>k, <1>5 DEF OnConnectionEnd, Callback, FedConn
  <2>2. /\ c \in Entry /\ c.held = conns[Key].held /\ c.state \in {"None", "Wait", "Block"}
        /\ "ended" \in Why
    BY <1>0, <2>1 DEF Entry, Why
  <2>3. \/ Resolve(Key, c, NoHost, "ended", <<>>)
        \/ conns' = [conns EXCEPT ![Key] = c] /\ decided' = decided
        \/ conns' = conns /\ decided' = decided
    BY <1>5, <2>2 DEF OnConnectionEnd
  <2>4. UNCHANGED <<cur, pc, answered, nextId>>
    BY <1>5 DEF OnConnectionEnd
  <2> HIDE DEF c
  <2>5. CASE Resolve(Key, c, NoHost, "ended", <<>>)
    <3>1. \E v \in Verdict : Decides(Key, v, "ended")
      BY <1>0, <2>1, <2>2, <2>4, <2>5, ResolveMoves
    <3> QED
      BY <2>1, <2>2, <2>4, <3>1 DEF Moves
  <2>6. CASE (conns' = [conns EXCEPT ![Key] = c] \/ conns' = conns) /\ decided' = decided
    <3>1. \A x \in Keys : conns'[x].held = conns[x].held
      BY <1>0, <2>1, <2>2, <2>6
    <3> QED
      BY <2>4, <2>6, <3>1 DEF Moves, Stays
  <2> QED
    BY <2>3, <2>5, <2>6
<1>6. CASE Epilogue
  <2>1. Key \in Keys /\ pc = "callbacks" /\ pc' = "idle" /\ cur' = NoPacket
        /\ UNCHANGED <<answered, nextId>>
    BY <1>0, <1>k, <1>6 DEF Epilogue, Return, FedConn
  <2>2. CASE cur.seg # 0
    <3> DEFINE held == ReleaseLast(conns[Key].held)
               entry == [conns[Key] EXCEPT !.held = held]
    <3>1. conns' = [conns EXCEPT ![Key] = entry] /\ decided' = decided
      BY <1>0, <1>6, <2>1, <2>2 DEF Epilogue
    <3> HIDE DEF held
    <3>2. entry.held = held
      BY <1>0, <2>1 DEF Entry
    <3> HIDE DEF entry
    <3>3. \A x \in Keys : conns'[x].held = IF x = Key THEN held ELSE conns[x].held
      BY <1>0, <2>1, <3>1, <3>2
    <3> QED
      BY <2>1, <2>2, <3>1, <3>3 DEF held, Moves, Copies
  <2>3. CASE cur.seg = 0
    <3>1. conns' = conns /\ decided' = Append(decided, Settle(cur, "ALLOW", "control"))
      BY <1>6, <2>3 DEF Epilogue
    <3> QED
      BY <2>1, <2>3, <3>1 DEF Moves, Passes, Verdict, Why
  <2> QED
    BY <2>2, <2>3
<1> QED
  BY <1>1, <1>2, <1>3, <1>4, <1>5, <1>6

\* Every step of a call is one of the moves.
LEMMA StepMoves == BufferInv /\ Step => Moves
BY SweepMoves, FeedMoves, CallbackMoves DEF Step

-----------------------------------------------------------------------------
\* Views of the receive buffer.  Only the packet being fed is one, while the
\* reassembler has it, and it is then the last its flow holds: what release_bytes()
\* at the end of feed() relies on when it finds the packet again.
ViewInv ==
  \A k \in Keys : \A i \in 1..Len(conns[k].held) :
    conns[k].held[i].view =>
      pc = "callbacks" /\ cur.seg # 0 /\ k = Key /\ i = Len(conns[k].held)

\* release_bytes() touches nothing of a packet but its bytes.
LEMMA ReleaseElements ==
  ASSUME NEW held \in Seq(Packet), NEW i \in 1..Len(held)
  PROVE  /\ ReleaseLast(held)[i].id = held[i].id
         /\ ReleaseLast(held)[i].conn = held[i].conn
         /\ ReleaseLast(held)[i].seg = held[i].seg
         /\ ReleaseLast(held)[i].view = (held[i].view /\ i # Len(held))
<1> DEFINE n == Len(held)
<1>1. n \in Nat /\ held # <<>> /\ n \in 1..n
  BY LenProperties, EmptySeq
<1>2. held[n] \in Packet /\ held[i] \in Packet
  BY <1>1, ElementOfSeq
<1> DEFINE bare == [held[n] EXCEPT !.view = FALSE]
<1>3. /\ bare \in Packet /\ bare.id = held[n].id /\ bare.conn = held[n].conn
      /\ bare.seg = held[n].seg /\ bare.view = FALSE
  BY <1>2 DEF Packet
<1>4. ReleaseLast(held) = [held EXCEPT ![n] = bare]
  BY <1>1 DEF ReleaseLast
<1> HIDE DEF bare
<1>5. ReleaseLast(held)[i] = IF i = n THEN bare ELSE held[i]
  BY <1>1, <1>3, <1>4, ExceptSeq
<1>6. held[i].view \in BOOLEAN
  BY <1>2 DEF Packet
<1> QED
  BY <1>3, <1>5, <1>6

\* Between calls no view is left: a step that moves nothing held keeps it so.
LEMMA NoViewKept ==
  ASSUME ViewInv, pc # "callbacks" \/ cur.seg = 0,
         \A x \in Keys : conns'[x].held = conns[x].held
  PROVE  ViewInv'
BY DEF ViewInv

LEMMA MovesView == ASSUME BufferInv, ViewInv, Moves PROVE ViewInv'
<1>0. TypeOK /\ FedConn /\ \A x \in Keys : conns[x].held \in Seq(Packet)
  BY DEF BufferInv, TypeInv, TypeOK, Entry
<1>1. CASE Stays
  <2>1. Key' = Key
    BY <1>1 DEF Stays, Key
  <2> QED
    BY <1>1, <2>1 DEF Stays, ViewInv
<1>2. CASE Holds
  <2>1. Key' = Key /\ cur \in Packet
    BY <1>0, <1>2 DEF Holds, Key, TypeOK
  <2>2. SUFFICES ASSUME NEW k \in Keys, NEW i \in 1..Len(conns'[k].held), conns'[k].held[i].view
                 PROVE  k = Key /\ i = Len(conns'[k].held)
    BY <1>2, <2>1 DEF Holds, ViewInv
  <2>3. \A j \in 1..Len(conns[k].held) : ~conns[k].held[j].view
    BY <1>2 DEF Holds, ViewInv
  <2>4. k = Key
    BY <1>2, <2>2, <2>3 DEF Holds
  <2>5. conns'[k].held = Append(conns[k].held, cur)
    BY <1>2, <2>4 DEF Holds
  <2>6. /\ Len(Append(conns[k].held, cur)) = Len(conns[k].held) + 1
        /\ \A j \in 1..Len(conns[k].held) : Append(conns[k].held, cur)[j] = conns[k].held[j]
    BY <1>0, <2>1, AppendProperties
  <2>7. Len(conns[k].held) \in Nat
    BY <1>0, LenProperties
  <2> QED
    BY <2>2, <2>3, <2>4, <2>5, <2>6, <2>7
<1>3. ASSUME NEW k \in Keys, NEW v \in Verdict, NEW why \in Why, Decides(k, v, why) PROVE ViewInv'
  <2>1. Key' = Key /\ Len(<<>>) = 0
    BY <1>3, EmptySeq DEF Decides, Key
  <2> QED
    BY <1>3, <2>1 DEF Decides, ViewInv
<1>4. CASE Floods
  <2>1. \A k \in Keys : \A i \in 1..Len(conns[k].held) : ~conns[k].held[i].view
    BY <1>4 DEF Floods, ViewInv
  <2>2. Len(<<>>) = 0
    BY EmptySeq
  <2>3. \A k \in Keys : \A i \in 1..Len(conns'[k].held) : ~conns'[k].held[i].view
    BY <1>4, <2>1, <2>2 DEF Floods
  <2> QED
    BY <2>3 DEF ViewInv
<1>5. ASSUME NEW v \in Verdict, NEW why \in Why, Passes(v, why) PROVE ViewInv'
  BY <1>5, NoViewKept DEF Passes
<1>6. CASE Copies
  <2>1. Key \in Keys
    BY <1>0, <1>6, KeyType DEF Copies, FedConn
  <2>2. \A k \in Keys : \A i \in 1..Len(conns'[k].held) : ~conns'[k].held[i].view
    <3> SUFFICES ASSUME NEW k \in Keys, NEW i \in 1..Len(conns'[k].held)
                 PROVE  ~conns'[k].held[i].view
      OBVIOUS
    <3>1. CASE k # Key
      BY <1>6, <3>1 DEF Copies, ViewInv
    <3>2. CASE k = Key
      <4>1. conns'[k].held = ReleaseLast(conns[k].held)
        BY <1>6, <3>2 DEF Copies
      <4>2. i \in 1..Len(conns[k].held)
        BY <1>0, <4>1, ReleaseType
      <4>3. conns'[k].held[i].view = (conns[k].held[i].view /\ i # Len(conns[k].held))
        BY <1>0, <4>1, <4>2, ReleaseElements
      <4> QED
        BY <4>2, <4>3 DEF ViewInv
    <3> QED
      BY <3>1, <3>2
  <2> QED
    BY <2>2 DEF ViewInv
<1> QED
  BY <1>1, <1>2, <1>3, <1>4, <1>5, <1>6 DEF Moves

LEMMA NextView == BufferInv /\ ViewInv /\ [Next]_vars => ViewInv'
<1> SUFFICES ASSUME BufferInv, ViewInv, [Next]_vars PROVE ViewInv'
  OBVIOUS
<1>1. CASE Step
  BY <1>1, StepMoves, MovesView
<1>2. CASE Elapse
  <2>1. \A x \in Keys : conns'[x].held = conns[x].held
    BY <1>2, ElapseBuffers
  <2> QED
    BY <1>2, <2>1, NoViewKept DEF Elapse
<1>3. CASE Tick \/ Flush \/ Drain \/ \E h \in Arrivals : Feed(h)
  <2>1. conns' = conns /\ pc # "callbacks"
    BY <1>3 DEF Tick, Flush, Drain, Feed, table
  <2> QED
    BY <2>1, NoViewKept
<1>4. CASE Finished \/ UNCHANGED vars
  BY <1>4 DEF Finished, vars, ViewInv, Key
<1> QED
  BY <1>1, <1>2, <1>3, <1>4 DEF Next

\* When feed() returns, every packet it holds has released its bytes: no held packet
\* points into the receive buffer the next recv() overwrites, however the callbacks
\* made on the way emptied or kept the flow's held list.
THEOREM NeverADanglingView == Spec => []NoDanglingView
<1>1. Init => ViewInv
  <2> SUFFICES ASSUME Init PROVE ViewInv
    OBVIOUS
  <2>1. \A k \in Keys : conns[k].held = <<>> /\ Len(<<>>) = 0
    BY ConstBounded, EmptySeq DEF Init
  <2> QED
    BY <2>1 DEF ViewInv
<1>2. ViewInv => NoDanglingView
  BY DEF ViewInv, NoDanglingView
<1> QED
  BY <1>1, <1>2, BufferInvAlways, NextView, PTL DEF Spec
=============================================================================
