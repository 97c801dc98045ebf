---------------------------- MODULE WorkerProofs ----------------------------
(***************************************************************************)
(* The worker's loop around the extractor, for every stream of packets,    *)
(* every batch and every limit, with or without the extractor              *)
(* (passthrough): it balances its counters, answers everything before it   *)
(* returns, never lets recv() overwrite bytes it still needs, and          *)
(* implements both the packet ledger and the contract of a thread.         *)
(***************************************************************************)
EXTENDS Worker, LedgerProofs

USE DEF quiet

\* Where the loop is when a call into the extractor is, or is not, under way.
Phases ==
  /\ wpc \in {"poll", "tick", "submit", "flush"} => pc = "idle"
  /\ wpc \in {"handle", "drain"} => pc \notin {"flush", "done"}
  /\ wpc = "last" => pc \in {"flush", "done"}
  /\ wpc = "exited" => pc = "done"
  /\ wpc = "submit" => cur # NoPacket
  /\ wpc # "submit" => CurIdle
  /\ wpc \in {"poll", "exited"} => decided = <<>>
  /\ wpc \notin {"handle", "submit"} => batch = <<>>
  /\ pc = "done" => \A k \in Keys : conns[k].held = <<>>
  /\ failed => wpc \in {"flush", "last", "exited"}

\* Every packet received is pending or answered; every answer was taken or refused.
Counts ==
  /\ nextId = received + 1
  /\ Len(answered) + Cardinality(PendingIds) = received
  /\ verdicted + Cardinality(refused) = Len(answered)
  /\ refused \subseteq AnsweredIds

ExtInv == LedgerInv /\ ViewInv
WInv == WTypeOK /\ batch \in Seq(Arrivals) /\ ExtInv /\ Phases /\ Counts

\* What a step means to packets and counters.
Same == PendingIds' = PendingIds /\ UNCHANGED <<answered, nextId, received, verdicted, refused>>

Takes ==
  /\ wpc = "handle" /\ wpc' \in {"handle", "submit"}
  /\ PendingIds' = PendingIds \cup {nextId} /\ nextId \notin PendingIds \cup AnsweredIds
  /\ nextId' = nextId + 1 /\ received' = received + 1
  /\ UNCHANGED <<answered, verdicted, refused, stop, failed>>

Gives ==
  /\ wpc' = wpc \/ (wpc = "submit" /\ wpc' = "handle")
  /\ wpc \in {"drain", "last", "submit"}
  /\ \E d \in Decision :
       /\ answered' = Append(answered, d)
       /\ d.pkt.id \in PendingIds /\ PendingIds' = PendingIds \ {d.pkt.id}
       /\ SetVerdict(d.pkt.id)
  /\ Ledger!Answer
  /\ UNCHANGED <<nextId, received, stop, failed>>

LEMMA ExtTypes == ExtInv => TypeInv /\ TypeOK
BY DEF ExtInv, LedgerInv, BufferInv, TypeInv

\* The extractor is left alone.
LEMMA VarsKept ==
  ASSUME ExtInv, UNCHANGED vars
  PROVE  ExtInv' /\ PendingIds' = PendingIds /\ UNCHANGED <<answered, nextId>>
<1>1. UNCHANGED <<answered, nextId>> /\ Stays
  BY DEF vars, Stays
<1>2. DecidedOnce' /\ Apart' /\ PendingIds' = PendingIds
  BY <1>1, StaysLedger DEF ExtInv
<1>3. BufferInv'
  BY NextBuffers DEF ExtInv, LedgerInv
<1>4. ViewInv'
  BY NextView DEF ExtInv, LedgerInv
<1>5. CurSet'
  BY DEF vars, CurSet, ExtInv, LedgerInv
<1> QED
  BY <1>1, <1>2, <1>3, <1>4, <1>5 DEF ExtInv, LedgerInv

\* A step of the extractor's own.
LEMMA NextKept ==
  ASSUME ExtInv, CurIdle, Next
  PROVE  ExtInv' /\ CurIdle'
<1>1. LedgerInv' /\ CurIdle'
  BY NextLedger DEF ExtInv
<1>2. ViewInv'
  BY NextView DEF ExtInv, LedgerInv
<1> QED
  BY <1>1, <1>2 DEF ExtInv

LEMMA ElapseKept ==
  ASSUME ExtInv, Elapse
  PROVE  ExtInv' /\ PendingIds' = PendingIds
<1>1. Next
  BY DEF Next
<1>2. UNCHANGED <<decided, answered, cur, nextId>> /\ pc = "idle" /\ pc' = "idle"
  BY DEF Elapse
<1>3. \A x \in Keys : conns'[x].held = conns[x].held
  BY ElapseBuffers DEF ExtInv, LedgerInv
<1>4. DecidedOnce' /\ Apart' /\ CurSet' /\ LedgerStutters
  BY <1>2, <1>3, ElsewhereLedger DEF ExtInv
<1>5. BufferInv'
  BY <1>1, NextBuffers DEF ExtInv, LedgerInv
<1>6. ViewInv'
  BY <1>1, NextView DEF ExtInv, LedgerInv
<1> QED
  BY <1>4, <1>5, <1>6 DEF ExtInv, LedgerInv, LedgerStutters

\* The steps of the worker's own that touch the extractor's variables leave its
\* table and the call under way alone.
LEMMA TableKept ==
  ASSUME BufferInv, ViewInv, TypeOK', UNCHANGED <<conns, pc, todo>>, pc # "callbacks"
  PROVE  BufferInv' /\ ViewInv'
<1>1. BuffersBounded' /\ FlushCovers' /\ FedConn'
  BY DEF BufferInv, BuffersBounded, FlushCovers, Waiting, InState, FedConn
<1>2. ViewInv'
  BY NoViewKept
<1> QED
  BY <1>1, <1>2 DEF BufferInv, TypeInv

LEMMA BatchHead ==
  ASSUME WInv, batch # <<>>
  PROVE  /\ Head(batch) \in Arrivals /\ Head(batch) \in Header
         /\ Tail(batch) \in Seq(Arrivals) /\ Tail(batch) \in Seq(Header)
<1>1. batch \in Seq(Arrivals) /\ batch \in Seq(Header)
  BY DEF WInv, WTypeOK
<1> QED
  BY <1>1, HeadTailProperties, ArrivalsAssumption

LEMMA ArrivedType == ASSUME TypeOK, NEW h \in Header PROVE Arrived(h) \in Packet
BY DEF TypeOK, Arrived, Header, Packet

-----------------------------------------------------------------------------
\* What each action does to packets and counters.

Effect == Same \/ Takes \/ Gives

LEMMA ExtractEffect ==
  ASSUME WInv, Extract
  PROVE  ExtInv' /\ Same /\ CurIdle'
<1>1. Step /\ Next /\ UNCHANGED wvars
  BY DEF Extract, Next
<1>2. pc # "idle" /\ CurIdle
  BY <1>1, StepPhase DEF WInv, ExtInv, LedgerInv, Phases
<1>3. ExtInv' /\ CurIdle'
  BY <1>1, <1>2, NextKept DEF WInv
<1>4. Moves
  BY <1>1, StepMoves DEF WInv, ExtInv, LedgerInv
<1>5. PendingIds' = PendingIds /\ UNCHANGED <<answered, nextId>>
  BY <1>4, MovesLedger DEF WInv, ExtInv, Moves
<1> QED
  BY <1>1, <1>3, <1>5 DEF Same, wvars

\* The calls that start a sweep or the last flush.
LEMMA CallEffect ==
  ASSUME WInv, wpc # "submit", Tick \/ Flush, UNCHANGED <<received, verdicted, refused>>
  PROVE  ExtInv' /\ Same /\ CurIdle'
<1>1. Next
  BY DEF Next
<1>2. ExtInv' /\ CurIdle'
  BY <1>1, NextKept DEF WInv, Phases
<1>3. /\ UNCHANGED <<decided, answered, cur, nextId, conns>> /\ pc = "idle"
      /\ pc' \in {"idle", "sweep", "flush"}
  BY DEF Tick, EnterTick, Flush, table
<1>4. LedgerStutters
  BY <1>3, ElsewhereLedger DEF WInv, ExtInv
<1> QED
  BY <1>2, <1>3, <1>4 DEF Same, LedgerStutters

LEMMA HandleEffect ==
  ASSUME WInv, Handle
  PROVE  ExtInv' /\ Takes /\ CurIdle'
<1>1. /\ Head(batch) \in Arrivals /\ Feed(Head(batch))
      /\ wpc = "handle" /\ wpc' = "handle" /\ received' = received + 1
      /\ UNCHANGED <<verdicted, refused, stop, failed>>
  BY BatchHead DEF Handle, At
<1>2. Next
  BY <1>1 DEF Next
<1>3. ExtInv' /\ CurIdle'
  BY <1>1, <1>2, NextKept DEF WInv, Phases
<1>4. /\ cur' = Arrived(Head(batch)) /\ nextId' = nextId + 1
      /\ UNCHANGED <<conns, decided, answered>>
      /\ pc = "idle" /\ pc' \in {"sweep", "lookup"}
  BY <1>1 DEF Feed, EnterTick, table
<1>5. ~InHand
  BY <1>1, <1>4 DEF WInv, Phases, CurIdle, InHand
<1>6. PendingIds' = PendingIds \cup {nextId} /\ nextId \notin PendingIds \cup AnsweredIds
  BY <1>4, <1>5, TakeLedger DEF WInv, ExtInv
<1> QED
  BY <1>1, <1>3, <1>4, <1>6 DEF Takes

LEMMA HandlePassthroughEffect ==
  ASSUME WInv, HandlePassthrough
  PROVE  ExtInv' /\ Takes /\ cur' # NoPacket
<1>0. LedgerInv /\ ViewInv /\ BufferInv /\ TypeOK
  BY DEF WInv, ExtInv, LedgerInv, BufferInv, TypeInv
<1>1. /\ Head(batch) \in Header
      /\ wpc = "handle" /\ wpc' = "submit" /\ received' = received + 1
      /\ UNCHANGED <<verdicted, refused, stop, failed>>
      /\ cur' = Arrived(Head(batch)) /\ nextId' = nextId + 1 /\ pc = "idle"
      /\ UNCHANGED <<table, decided, toClose, pcpp, sinceSweep, blockedGauge, droppedAtCap, pc,
                     todo, events, answered>>
  BY BatchHead DEF HandlePassthrough, At
<1>2. ~InHand
  BY <1>1 DEF WInv, Phases, CurIdle, InHand
<1>3. /\ DecidedOnce' /\ Apart' /\ CurSet'
      /\ PendingIds' = PendingIds \cup {nextId} /\ nextId \notin PendingIds \cup AnsweredIds
  BY <1>0, <1>1, <1>2, TakeLedger DEF table
<1>4. cur' \in Packet /\ nextId' \in Nat
  BY <1>0, <1>1, ArrivedType DEF TypeOK
<1>5. TypeOK'
  BY <1>0, <1>1, <1>4 DEF TypeOK, table
<1>6. BufferInv' /\ ViewInv'
  BY <1>0, <1>1, <1>5, TableKept DEF table
<1>7. cur' # NoPacket
  BY <1>1 DEF Arrived, NoPacket
<1> QED
  BY <1>1, <1>3, <1>6, <1>7 DEF Takes, ExtInv, LedgerInv

LEMMA SubmitEffect ==
  ASSUME WInv, Submit
  PROVE  ExtInv' /\ Gives
<1> DEFINE d == Head(decided)
           t == <<d>>
           rest == Tail(decided)
<1>0. LedgerInv /\ ViewInv /\ BufferInv /\ TypeOK /\ decided \in Seq(Decision)
      /\ answered \in Seq(Decision)
  BY DEF WInv, ExtInv, LedgerInv, BufferInv, TypeInv, TypeOK
<1>1. /\ wpc \in {"drain", "last"} /\ pc \in {"idle", "done"} /\ decided # <<>>
      /\ answered' = Append(answered, d) /\ decided' = rest /\ SetVerdict(d.pkt.id)
      /\ UNCHANGED <<table, toClose, pcpp, sinceSweep, blockedGauge, droppedAtCap, pc, cur, todo,
                     events, nextId, wpc, batch, received, stop, failed, passthrough, sample>>
  BY DEF Submit, At
<1>2. d \in Decision /\ rest \in Seq(Decision)
  BY <1>0, <1>1, HeadTailProperties
<1>3. t \in Seq(Decision) /\ DIds(t) = {d.pkt.id} /\ t # <<>>
  BY <1>2, SingleIds
<1>4. decided = t \o rest
  BY <1>0, <1>1, <1>2
<1>5. answered' = answered \o t
  BY <1>0, <1>1, <1>2, AppendIsConcat
<1>6. /\ DecidedOnce' /\ Apart' /\ CurSet'
      /\ DIds(t) \subseteq PendingIds /\ PendingIds' = PendingIds \ DIds(t)
      /\ Ledger!Answer
  <2> HIDE DEF t, rest
  <2> QED
    BY <1>0, <1>1, <1>2, <1>3, <1>4, <1>5, HandsOver DEF table
<1>7. answered' \in Seq(Decision)
  BY <1>0, <1>1, <1>2, AppendProperties
<1>8. TypeOK'
  BY <1>0, <1>1, <1>2, <1>7 DEF TypeOK, table
<1>9. BufferInv' /\ ViewInv'
  BY <1>0, <1>1, <1>8, TableKept DEF table
<1>10. Gives
  BY <1>1, <1>2, <1>3, <1>6 DEF Gives
<1> QED
  BY <1>6, <1>9, <1>10 DEF ExtInv, LedgerInv

LEMMA SubmitPassthroughEffect ==
  ASSUME WInv, SubmitPassthrough
  PROVE  ExtInv' /\ Gives /\ CurIdle'
<1> DEFINE d == Settle(cur, "ALLOW", "undissected")
           t == <<d>>
<1>0. /\ LedgerInv /\ ViewInv /\ BufferInv /\ TypeOK /\ decided \in Seq(Decision)
      /\ answered \in Seq(Decision) /\ cur \in Packet /\ nextId \in Nat
  BY DEF WInv, ExtInv, LedgerInv, BufferInv, TypeInv, TypeOK
<1>1. /\ wpc = "submit" /\ wpc' = "handle" /\ pc = "idle"
      /\ answered' = Append(answered, d) /\ SetVerdict(cur.id) /\ cur' = NoPacket
      /\ UNCHANGED <<table, decided, toClose, pcpp, sinceSweep, blockedGauge, droppedAtCap, pc,
                     todo, events, nextId, batch, received, stop, failed, passthrough, sample>>
  BY DEF SubmitPassthrough, At
<1>2. d \in Decision /\ d.pkt = cur
  BY <1>0, SettleType DEF Settle, Verdict, Why
<1> HIDE DEF d
<1>3. t \in Seq(Decision) /\ DIds(t) = {cur.id} /\ DDistinct(t) /\ t # <<>>
  BY <1>2, SingleIds
<1>4. answered' = answered \o t
  BY <1>0, <1>1, <1>2, AppendIsConcat
<1>5. InHand /\ ~InHand'
  BY <1>1 DEF WInv, Phases, InHand
<1>6. /\ cur.id \in PendingIds /\ PendingIds' = PendingIds \ {cur.id}
      /\ cur.id \notin DIds(Settled)
  <2>1. cur.id \notin DIds(Settled) /\ \A k \in Keys : cur.id \notin PIds(conns[k].held)
    BY <1>0, <1>5 DEF LedgerInv, Apart
  <2>2. cur.id \notin AllHeldIds /\ cur.id \notin DIds(decided)
    BY <1>0, <2>1, LedgerIds DEF AllHeldIds
  <2>3. InHandIds = {cur.id} /\ InHandIds' = {} /\ AllHeldIds' = AllHeldIds
        /\ decided' = decided
    BY <1>1, <1>5 DEF InHandIds, AllHeldIds, table
  <2> QED
    BY <2>1, <2>2, <2>3, PendingParts
<1> HIDE DEF t
<1>7. /\ Settled' = (answered \o t) \o decided
      /\ DIds(Settled') = DIds(Settled) \cup {cur.id}
      /\ DDistinct(Settled')
  <2>1. Settled' = (answered \o t) \o decided
    BY <1>1, <1>4 DEF Settled
  <2>2. DDistinct(answered \o decided)
    BY <1>0, LedgerIds DEF LedgerInv, Settled
  <2>3. /\ DIds(Settled) = DIds(answered) \cup DIds(decided)
        /\ DDistinct(answered) /\ DDistinct(decided) /\ DIds(answered) \cap DIds(decided) = {}
    BY <1>0, <2>2, ConcatIds DEF Settled
  <2>4. /\ answered \o t \in Seq(Decision) /\ DIds(answered \o t) = DIds(answered) \cup {cur.id}
        /\ DDistinct(answered \o t)
    BY <1>0, <1>3, <1>6, <2>3, ConcatIds
  <2>5. /\ DIds((answered \o t) \o decided) = DIds(answered \o t) \cup DIds(decided)
        /\ DDistinct((answered \o t) \o decided)
    <3>1. DIds(answered \o t) \cap DIds(decided) = {}
      BY <1>6, <2>3, <2>4
    <3> DEFINE a == answered \o t
    <3>2. a \in Seq(Decision) /\ DDistinct(a) /\ DIds(a) \cap DIds(decided) = {}
      BY <2>4, <3>1
    <3> HIDE DEF a
    <3>3. DIds(a \o decided) = DIds(a) \cup DIds(decided) /\ DDistinct(a \o decided)
      BY <1>0, <2>3, <3>2, ConcatIds
    <3> QED
      BY <3>3 DEF a
  <2> QED
    BY <2>1, <2>3, <2>4, <2>5
<1>8. DecidedOnce'
  BY <1>7 DEF DecidedOnce, DDistinct
<1>9. Apart'
  <2>1. /\ \A k \in Keys : conns'[k] = conns[k] /\ nextId' = nextId
        /\ cur.id = nextId - 1 /\ cur.id \in Nat
        /\ \A k \in Keys : cur.id \notin PIds(conns[k].held)
    BY <1>0, <1>1, <1>5 DEF LedgerInv, Apart, table
  <2>2. cur.id \in 0..(nextId - 1)
    BY <1>0, <2>1
  <2>3. /\ \A k \in Keys : PDistinct(conns[k].held)
        /\ \A k \in Keys : PIds(conns[k].held) \cap DIds(Settled) = {}
        /\ \A k, l \in Keys : k # l => PIds(conns[k].held) \cap PIds(conns[l].held) = {}
        /\ DIds(Settled) \subseteq 0..(nextId - 1)
        /\ \A k \in Keys : PIds(conns[k].held) \subseteq 0..(nextId - 1)
    BY <1>0 DEF LedgerInv, Apart
  <2>4. \A k \in Keys : PIds(conns[k].held) \cap DIds(Settled') = {}
    BY <1>7, <2>1, <2>3
  <2>5. DIds(Settled') \subseteq 0..(nextId - 1)
    BY <1>7, <2>2, <2>3
  <2>6. UNCHANGED <<conns, nextId>>
    BY <1>1 DEF table
  <2> QED
    BY <1>5, <2>3, <2>4, <2>5, <2>6 DEF Apart
<1>10. Ledger!Answer
  BY <1>0, <1>3, <1>4, <1>6, PendingApart, AnswerIsAnswer DEF LedgerInv
<1>11. answered' \in Seq(Decision) /\ cur' \in Packet
  BY <1>0, <1>1, <1>2, AppendProperties, ConstType
<1>12. TypeOK'
  BY <1>0, <1>1, <1>11 DEF TypeOK, table
<1>13. BufferInv' /\ ViewInv'
  BY <1>0, <1>1, <1>12, TableKept DEF table
<1>14. CurSet' /\ CurIdle'
  BY <1>1 DEF CurSet, CurIdle
<1>15. Gives
  BY <1>1, <1>2, <1>6, <1>10 DEF Gives
<1> QED
  BY <1>8, <1>9, <1>13, <1>14, <1>15 DEF ExtInv, LedgerInv

-----------------------------------------------------------------------------
\* The counters.

\* The ids of the ledger are finitely many.
LEMMA FiniteIds ==
  ASSUME ExtInv
  PROVE  /\ IsFiniteSet(PendingIds) /\ PendingIds \cap AnsweredIds = {}
         /\ \A S \in SUBSET AnsweredIds : IsFiniteSet(S)
<1> DEFINE old == 0..(nextId - 1)
<1>0. LedgerInv /\ TypeOK /\ nextId \in Nat
  BY ExtTypes DEF ExtInv, TypeOK
<1>1. IsFiniteSet(old)
  BY <1>0, FS_Interval
<1>2. /\ DIds(Settled) = AnsweredIds \cup DIds(decided)
      /\ DIds(Settled) \subseteq old
      /\ \A k \in Keys : PIds(conns[k].held) \subseteq old
      /\ InHand => cur.id \in old
  BY <1>0, LedgerIds DEF LedgerInv, Apart
<1>3. PendingIds \subseteq old
  BY <1>2, PendingParts DEF InHandIds, AllHeldIds
<1> QED
  BY <1>0, <1>1, <1>2, <1>3, FS_Subset, PendingApart

LEMMA AnsweredGrows ==
  ASSUME NEW a \in Seq(Decision), NEW d \in Decision
  PROVE  /\ Len(Append(a, d)) = Len(a) + 1
         /\ {Append(a, d)[i].pkt.id : i \in 1..Len(Append(a, d))} =
              {a[i].pkt.id : i \in 1..Len(a)} \cup {d.pkt.id}
<1> DEFINE b == Append(a, d)
<1>1. /\ Len(b) = Len(a) + 1 /\ Len(a) \in Nat
      /\ \A i \in 1..Len(a) : b[i] = a[i]
      /\ b[Len(a) + 1] = d
  BY AppendProperties
<1> HIDE DEF b
<1>2. \A i \in 1..Len(b) : i \in 1..Len(a) \/ i = Len(a) + 1
  BY <1>1
<1>3. 1..Len(a) \subseteq 1..Len(b) /\ Len(a) + 1 \in 1..Len(b)
  BY <1>1
<1>4. {b[i].pkt.id : i \in 1..Len(b)} = {a[i].pkt.id : i \in 1..Len(a)} \cup {d.pkt.id}
  BY <1>1, <1>2, <1>3
<1> QED
  BY <1>1, <1>4 DEF b

LEMMA SameCounts == ASSUME WInv, Same PROVE Counts'
BY DEF WInv, Counts, Same, AnsweredIds

LEMMA TakesCounts == ASSUME WInv, Takes PROVE Counts'
<1>1. IsFiniteSet(PendingIds) /\ nextId \notin PendingIds
  BY FiniteIds DEF WInv, Takes
<1>2. /\ Cardinality(PendingIds') = Cardinality(PendingIds) + 1
      /\ Cardinality(PendingIds) \in Nat
  BY <1>1, FS_AddElement, FS_CardinalityType DEF Takes
<1>3. Len(answered) \in Nat /\ received \in Nat /\ nextId \in Nat
  BY DEF WInv, WTypeOK, TypeOK
<1>4. AnsweredIds' = AnsweredIds
  BY DEF Takes, AnsweredIds
<1> QED
  BY <1>2, <1>3, <1>4 DEF WInv, Counts, Takes

LEMMA GivesCounts == ASSUME WInv, Gives PROVE Counts'
<1>1. PICK d \in Decision : /\ answered' = Append(answered, d)
                            /\ d.pkt.id \in PendingIds /\ PendingIds' = PendingIds \ {d.pkt.id}
                            /\ SetVerdict(d.pkt.id)
  BY DEF Gives
<1>2. /\ answered \in Seq(Decision) /\ Len(answered) \in Nat
      /\ received \in Nat /\ nextId \in Nat /\ verdicted \in Nat
  BY DEF WInv, WTypeOK, TypeOK
<1>3. Len(answered') = Len(answered) + 1 /\ AnsweredIds' = AnsweredIds \cup {d.pkt.id}
  BY <1>1, <1>2, AnsweredGrows DEF AnsweredIds
<1>4. /\ IsFiniteSet(PendingIds) /\ d.pkt.id \notin AnsweredIds
      /\ IsFiniteSet(refused) /\ d.pkt.id \notin refused
  BY <1>1, FiniteIds DEF WInv, Counts
<1>5. /\ Cardinality(PendingIds') = Cardinality(PendingIds) - 1
      /\ Cardinality(PendingIds) \in Nat /\ Cardinality(refused) \in Nat
  BY <1>1, <1>4, FS_RemoveElement, FS_CardinalityType
<1>6. Cardinality(refused \cup {d.pkt.id}) = Cardinality(refused) + 1
  BY <1>4, FS_AddElement
<1>7. /\ verdicted' + Cardinality(refused') = verdicted + Cardinality(refused) + 1
      /\ refused' \subseteq AnsweredIds'
  <2>1. refused \subseteq AnsweredIds
    BY DEF WInv, Counts
  <2>2. CASE verdicted' = verdicted + 1 /\ refused' = refused
    BY <1>2, <1>3, <1>5, <2>1, <2>2
  <2>3. CASE refused' = refused \cup {d.pkt.id} /\ verdicted' = verdicted
    <3>1. refused' \subseteq AnsweredIds'
      BY <1>3, <2>1, <2>3
    <3> QED
      BY <1>2, <1>5, <1>6, <2>3, <3>1
  <2> QED
    BY <1>1, <2>2, <2>3 DEF SetVerdict
<1> QED
  BY <1>2, <1>3, <1>5, <1>7 DEF WInv, Counts, Gives

LEMMA EffectCounts == ASSUME WInv, Effect PROVE Counts'
BY SameCounts, TakesCounts, GivesCounts DEF Effect

-----------------------------------------------------------------------------
\* The loop.

\* The worker's own variables, but for the counters.
LoopTypes ==
  /\ wpc \in {"poll", "handle", "submit", "tick", "drain", "flush", "last", "exited"}
  /\ batch \in Seq(Header) /\ batch \in Seq(Arrivals)
  /\ stop \in BOOLEAN /\ failed \in BOOLEAN /\ passthrough \in BOOLEAN
  /\ sample \in [rx : Nat \cup {NotRead}, tx : Nat \cup {NotRead}]

LEMMA Assemble ==
  ASSUME WInv, ExtInv', Effect, LoopTypes', Phases'
  PROVE  WInv'
<1>1. received \in Nat /\ verdicted \in Nat /\ refused \in SUBSET Nat
  BY DEF WInv, WTypeOK
<1>2. received' \in Nat /\ verdicted' \in Nat /\ refused' \in SUBSET Nat
  <2>1. CASE Same \/ Takes
    <3>1. received' \in {received, received + 1} /\ verdicted' = verdicted /\ refused' = refused
      BY <2>1 DEF Same, Takes
    <3> QED
      BY <1>1, <3>1
  <2>2. ASSUME NEW d \in Decision, SetVerdict(d.pkt.id), received' = received
        PROVE  received' \in Nat /\ verdicted' \in Nat /\ refused' \in SUBSET Nat
    <3>1. d.pkt.id \in Nat
      BY DEF Decision, Packet
    <3>2. /\ verdicted' \in {verdicted, verdicted + 1}
          /\ refused' = refused \/ refused' = refused \cup {d.pkt.id}
      BY <2>2 DEF SetVerdict
    <3>3. refused' \in SUBSET Nat
      BY <1>1, <3>1, <3>2
    <3> QED
      BY <1>1, <2>2, <3>2, <3>3
  <2> QED
    BY <2>1, <2>2 DEF Effect, Gives
<1>3. TypeOK'
  BY DEF ExtInv, LedgerInv, BufferInv, TypeInv
<1>4. Counts'
  BY EffectCounts
<1> QED
  BY <1>2, <1>3, <1>4 DEF WInv, WTypeOK, LoopTypes

\* The worker's steps that leave the extractor alone.
Quietly ==
  /\ \/ PollStop \/ PollIdle \/ PollError \/ PollPackets \/ Handled \/ Drained \/ Exit
     \/ Stop \/ Exited \/ UNCHANGED allvars
     \/ LoopTick /\ UNCHANGED vars
  /\ UNCHANGED vars

LEMMA QuietlyKept ==
  ASSUME WInv, Quietly
  PROVE  WInv' /\ Same
<1>1. UNCHANGED vars /\ UNCHANGED <<received, verdicted, refused, passthrough, sample>>
  BY DEF Quietly, PollStop, PollIdle, PollError, PollPackets, Handled, Drained, Exit, Stop,
         Exited, LoopTick, allvars, wvars
<1>2. ExtInv' /\ Same
  BY <1>1, VarsKept DEF WInv, Same
<1>3. UNCHANGED <<pc, cur, decided, conns>>
  BY <1>1 DEF vars
<1>4. LoopTypes /\ Phases
  BY DEF WInv, WTypeOK, LoopTypes
<1>5. LoopTypes'
  <2>1. CASE PollPackets
    <3>1. PICK n \in 1..MaxBatch : batch' \in [1..n -> Arrivals]
      BY <2>1 DEF PollPackets
    <3>2. batch' \in [1..n -> Header] /\ n \in Nat
      BY <3>1, ArrivalsAssumption, MaxBatchAssumption
    <3>3. batch' \in Seq(Arrivals) /\ batch' \in Seq(Header)
      BY <3>1, <3>2
    <3> QED
      BY <1>1, <1>4, <2>1, <3>3 DEF PollPackets, LoopTypes
  <2>2. CASE ~PollPackets
    BY <1>1, <1>4, <2>2 DEF Quietly, PollStop, PollIdle, PollError, Handled, Drained, Exit,
         Stop, Exited, LoopTick, allvars, wvars, LoopTypes
  <2> QED
    BY <2>1, <2>2
<1>6. CurIdle' <=> CurIdle
  BY <1>3 DEF CurIdle
<1>7. Phases'
  BY <1>3, <1>4, <1>6 DEF Quietly, PollStop, PollIdle, PollError, PollPackets, Handled, Drained,
         Exit, Stop, Exited, LoopTick, allvars, wvars, Phases, At
<1> QED
  BY <1>2, <1>5, <1>7, Assemble DEF Effect

LEMMA ExtractKept ==
  ASSUME WInv, Extract
  PROVE  WInv' /\ Same
<1>1. Step /\ UNCHANGED wvars
  BY DEF Extract
<1>2. ExtInv' /\ Same /\ CurIdle'
  BY ExtractEffect
<1>3. /\ pc # "idle" /\ pc # "done"
      /\ pc' \in {"flush", "done"} => pc = "flush"
      /\ pc = "flush" => pc' \in {"flush", "done"}
      /\ pc' = "done" => \A k \in Keys : conns'[k].held = <<>>
  BY <1>1, StepPhase DEF WInv, ExtInv, LedgerInv
<1>4. LoopTypes'
  BY <1>1 DEF WInv, WTypeOK, LoopTypes, wvars
<1>5. Phases'
  BY <1>1, <1>2, <1>3 DEF WInv, Phases, wvars
<1> QED
  BY <1>2, <1>4, <1>5, Assemble DEF Effect

LEMMA CallKept ==
  ASSUME WInv, (LoopTick /\ Tick) \/ LastFlush
  PROVE  WInv' /\ Same
<1>1. /\ Tick \/ Flush
      /\ wpc # "submit"
      /\ UNCHANGED <<batch, received, verdicted, refused, stop, failed, passthrough, sample>>
  BY DEF LoopTick, LastFlush, At
<1>2. ExtInv' /\ Same /\ CurIdle'
  BY <1>1, CallEffect DEF LoopTick, LastFlush, At
<1>3. \/ wpc = "tick" /\ wpc' = "drain" /\ pc' = "sweep"
      \/ wpc = "flush" /\ wpc' = "last" /\ pc' = "flush"
  BY DEF LoopTick, LastFlush, Tick, EnterTick, Flush, At
<1>4. LoopTypes'
  BY <1>1, <1>3 DEF WInv, WTypeOK, LoopTypes
<1>5. Phases'
  BY <1>1, <1>2, <1>3 DEF WInv, Phases
<1> QED
  BY <1>2, <1>4, <1>5, Assemble DEF Effect

LEMMA HandleKept ==
  ASSUME WInv, Handle \/ HandlePassthrough
  PROVE  WInv' /\ Takes
<1>1. /\ Tail(batch) \in Seq(Arrivals) /\ Tail(batch) \in Seq(Header) /\ batch' = Tail(batch)
      /\ UNCHANGED <<stop, failed, passthrough, sample>>
  BY BatchHead DEF Handle, HandlePassthrough
<1>2. ExtInv' /\ Takes
  BY HandleEffect, HandlePassthroughEffect
<1>3. LoopTypes'
  BY <1>1, <1>2 DEF WInv, WTypeOK, LoopTypes, Takes
<1>n. ~failed'
  BY <1>1, <1>2 DEF WInv, Phases, Takes
<1>4. CASE Handle
  <2>1. CurIdle' /\ wpc' = "handle" /\ pc' \in {"sweep", "lookup"}
    BY <1>4, HandleEffect DEF Handle, Feed, EnterTick, At
  <2>2. Phases'
    BY <1>n, <2>1 DEF Phases
  <2> QED
    BY <1>2, <1>3, <2>2, Assemble DEF Effect
<1>5. CASE HandlePassthrough
  <2>1. cur' # NoPacket /\ wpc' = "submit" /\ pc' = "idle"
    BY <1>5, HandlePassthroughEffect DEF HandlePassthrough, At
  <2>2. Phases'
    BY <1>n, <2>1 DEF Phases
  <2> QED
    BY <1>2, <1>3, <2>2, Assemble DEF Effect
<1> QED
  BY <1>4, <1>5

LEMMA SubmitKept ==
  ASSUME WInv, Submit \/ SubmitPassthrough
  PROVE  WInv' /\ Gives
<1>1. ExtInv' /\ Gives
  BY SubmitEffect, SubmitPassthroughEffect
<1>2. UNCHANGED <<batch, stop, failed, passthrough, sample, pc, conns>>
      /\ (wpc' = wpc \/ wpc' = "handle")
  BY DEF Submit, SubmitPassthrough, table
<1>3. LoopTypes'
  BY <1>2 DEF WInv, WTypeOK, LoopTypes
<1>4. CASE Submit
  <2>1. wpc' = wpc /\ wpc \in {"drain", "last"} /\ cur' = cur
    BY <1>4 DEF Submit, At
  <2>2. Phases'
    BY <1>2, <2>1 DEF WInv, Phases, CurIdle
  <2> QED
    BY <1>1, <1>3, <2>2, Assemble DEF Effect
<1>5. CASE SubmitPassthrough
  <2>1. CurIdle' /\ wpc' = "handle" /\ pc' = "idle"
    BY <1>5, SubmitPassthroughEffect DEF SubmitPassthrough, At
  <2>2. ~failed'
    BY <1>2, <1>5 DEF WInv, Phases, SubmitPassthrough, At
  <2>3. Phases'
    BY <2>1, <2>2 DEF Phases
  <2> QED
    BY <1>1, <1>3, <2>3, Assemble DEF Effect
<1> QED
  BY <1>4, <1>5

LEMMA WElapseKept ==
  ASSUME WInv, WElapse
  PROVE  WInv' /\ Same
<1>1. Elapse /\ UNCHANGED wvars
  BY DEF WElapse
<1>2. pc = "idle" /\ UNCHANGED <<pc, cur, decided, answered, nextId>>
  BY <1>1 DEF Elapse
<1>3. ExtInv' /\ Same
  BY <1>1, <1>2, ElapseKept DEF WInv, Same, wvars
<1>4. LoopTypes'
  BY <1>1 DEF WInv, WTypeOK, LoopTypes, wvars
<1>5. Phases'
  BY <1>1, <1>2 DEF WInv, Phases, CurIdle, wvars
<1> QED
  BY <1>3, <1>4, <1>5, Assemble DEF Effect

\* Every step of the loop, by what it does.
LEMMA WSteps ==
  [WNext]_allvars => \/ Quietly \/ Extract \/ WElapse \/ LastFlush
                     \/ LoopTick /\ Tick
                     \/ Handle \/ HandlePassthrough
                     \/ Submit \/ SubmitPassthrough
<1>1. UNCHANGED allvars => UNCHANGED vars
  BY DEF allvars
<1>2. LoopTick => (LoopTick /\ Tick) \/ (LoopTick /\ UNCHANGED vars)
  BY DEF LoopTick
<1>3. PollStop \/ PollIdle \/ PollError \/ PollPackets \/ Handled \/ Drained \/ Exit \/ Stop \/ Exited
        => UNCHANGED vars
  BY <1>1 DEF PollStop, PollIdle, PollError, PollPackets, Handled, Drained, Exit, Stop, Exited
<1> QED
  BY <1>1, <1>2, <1>3 DEF WNext, Loop, Quietly

LEMMA WNextKept ==
  ASSUME WInv, [WNext]_allvars
  PROVE  WInv' /\ Effect
BY WSteps, QuietlyKept, ExtractKept, WElapseKept, CallKept, HandleKept, SubmitKept DEF Effect

LEMMA WInitKept == WInit => WInv
<1> SUFFICES ASSUME WInit PROVE WInv
  OBVIOUS
<1>0. /\ Init /\ wpc = "poll" /\ batch = <<>> /\ received = 0 /\ verdicted = 0 /\ refused = {}
      /\ stop = FALSE /\ failed = FALSE /\ passthrough \in BOOLEAN /\ sample = NoSample
  BY DEF WInit
<1>1. /\ pc = "idle" /\ cur = NoPacket /\ decided = <<>> /\ answered = <<>> /\ nextId = 1
      /\ \A k \in Keys : conns[k].held = <<>>
  BY <1>0, ConstBounded DEF Init
<1>2. LedgerInv /\ CurIdle /\ PendingIds = {}
  BY <1>0, InitLedger DEF Ledger!Init
<1>3. ViewInv
  BY <1>1 DEF ViewInv
<1>4. WTypeOK /\ batch \in Seq(Arrivals)
  <2>1. TypeOK
    BY <1>2, ExtTypes, <1>3 DEF ExtInv
  <2>2. batch \in Seq(Header) /\ batch \in Seq(Arrivals)
    BY <1>0
  <2>3. sample \in [rx : Nat \cup {NotRead}, tx : Nat \cup {NotRead}]
    BY <1>0 DEF NoSample
  <2> QED
    BY <1>0, <2>1, <2>2, <2>3 DEF WTypeOK
<1>5. Phases
  BY <1>0, <1>1, <1>2 DEF Phases
<1>6. Counts
  <2>1. Cardinality({}) = 0 /\ Len(answered) = 0
    BY <1>1, FS_EmptySet
  <2> QED
    BY <1>0, <1>1, <1>2, <2>1 DEF Counts
<1> QED
  BY <1>2, <1>3, <1>4, <1>5, <1>6 DEF WInv, ExtInv

LEMMA WInvAlways == WSpec => []WInv
<1>1. WInv /\ [WNext]_allvars => WInv'
  BY WNextKept
<1> QED
  BY <1>1, WInitKept, PTL DEF WSpec

-----------------------------------------------------------------------------
\* Type correctness of the loop and of the extractor it drives.
THEOREM WorkerTypeCorrect == WSpec => []WTypeOK
<1>1. WInv => WTypeOK
  BY DEF WInv
<1> QED
  BY <1>1, WInvAlways, PTL

\* recv() never overwrites bytes that a packet the worker answers for still points to:
\* before every poll the decided buffer is drained and held packets own their bytes.
THEOREM BufferAlwaysFree == WSpec => []BufferFree
<1>1. WInv => BufferFree
  BY DEF WInv, Phases, BufferFree, ExtInv, ViewInv, NoDanglingView
<1> QED
  BY <1>1, WInvAlways, PTL

\* received - verdicted counts exactly the packets still to be answered and those whose
\* verdict the kernel refused, with packets held, passed through, swept or flushed.
THEOREM CountersAlwaysBalance == WSpec => []CountersBalance
<1>1. WInv => CountersBalance
  <2> SUFFICES ASSUME WInv PROVE CountersBalance
    OBVIOUS
  <2>1. /\ Cardinality(PendingIds) \in Nat /\ Cardinality(refused) \in Nat
    BY FiniteIds, FS_CardinalityType DEF WInv, Counts
  <2>2. received \in Nat /\ verdicted \in Nat /\ Len(answered) \in Nat
    BY DEF WInv, WTypeOK, TypeOK
  <2> QED
    BY <2>1, <2>2 DEF WInv, Counts, CountersBalance
<1> QED
  BY <1>1, WInvAlways, PTL

\* When the thread returns nothing is pending, whatever it held when it was stopped.
LEMMA DoneIsEmpty ==
  ASSUME WInv, pc = "done", decided = <<>>, wpc # "submit"
  PROVE  PendingIds = {}
<1>1. cur = NoPacket /\ \A k \in Keys : conns[k].held = <<>>
  BY DEF WInv, Phases, CurIdle
<1>2. InHandIds = {} /\ AllHeldIds = {} /\ DIds(decided) = {}
  BY <1>1, EmptyIds DEF InHandIds, InHand, AllHeldIds
<1> QED
  BY <1>2, PendingParts

\* A thread that has returned has submitted every packet it received, whatever it was
\* holding when the stop request or the queue's error came.
THEOREM ExitAlwaysClean == WSpec => []ExitLeavesNothing
<1>1. WInv => ExitLeavesNothing
  <2> SUFFICES ASSUME WInv, wpc = "exited"
               PROVE  PendingIds = {} /\ batch = <<>> /\ Len(answered) = received
    BY DEF ExitLeavesNothing
  <2>1. PendingIds = {} /\ batch = <<>>
    BY DoneIsEmpty DEF WInv, Phases
  <2>2. Len(answered) + 0 = received /\ Len(answered) \in Nat
    BY <2>1, FS_EmptySet DEF WInv, Counts, WTypeOK, TypeOK
  <2> QED
    BY <2>1, <2>2
<1> QED
  BY <1>1, WInvAlways, PTL

-----------------------------------------------------------------------------
\* The two contracts.

\* The worker keeps the packet ledger too: each packet handle() is given is answered
\* by one submit() at most, in passthrough and otherwise, and none is dropped.
THEOREM WorkerKeepsLedger == WSpec => LedgerKept
<1>1. ASSUME WInv, [WNext]_allvars
      PROVE  [Ledger!Next]_Ledger!lvars
  <2>1. TypeOK
    BY <1>1 DEF WInv, WTypeOK
  <2>2. CASE Same
    BY <2>2, StutterIsStutter DEF Same, LedgerStutters
  <2>3. CASE Takes
    BY <2>1, <2>3, TakeIsReceive DEF Takes, Ledger!Next
  <2>4. CASE Gives
    BY <2>4 DEF Gives, Ledger!Next
  <2> QED
    BY <1>1, <2>2, <2>3, <2>4, WNextKept DEF Effect
<1>2. WInit => Ledger!Init
  BY InitLedger DEF WInit
<1> QED
  BY <1>1, <1>2, WInvAlways, PTL DEF WSpec, LedgerKept, Ledger!Spec

\* How much a step adds to what is owed.
LEMMA Owed ==
  ASSUME WInv
  PROVE  /\ Cardinality(PendingIds) \in Nat
         /\ Same => Cardinality(PendingIds') = Cardinality(PendingIds)
         /\ Takes => Cardinality(PendingIds') = Cardinality(PendingIds) + 1
         /\ Gives => /\ Cardinality(PendingIds) > 0
                     /\ Cardinality(PendingIds') = Cardinality(PendingIds) - 1
<1>1. IsFiniteSet(PendingIds) /\ Cardinality(PendingIds) \in Nat
  BY FiniteIds, FS_CardinalityType DEF WInv
<1>2. Takes => Cardinality(PendingIds') = Cardinality(PendingIds) + 1
  BY <1>1, FS_AddElement DEF Takes
<1>3. \A x \in PendingIds : /\ Cardinality(PendingIds \ {x}) = Cardinality(PendingIds) - 1
                            /\ Cardinality(PendingIds) # 0
  BY <1>1, FS_RemoveElement, FS_EmptySet
<1>4. Gives => \E x \in PendingIds : PendingIds' = PendingIds \ {x}
  BY DEF Gives
<1> QED
  BY <1>1, <1>2, <1>3, <1>4 DEF Same

LEMMA QuietThread ==
  ASSUME WInv, Quietly, Same
  PROVE  [Thread!Next]_Thread!tvars
<1>1. Cardinality(PendingIds') = Cardinality(PendingIds)
  BY Owed
<1>2. CASE PollStop
  BY <1>1, <1>2 DEF PollStop, At, Thread!Next, Thread!Leave
<1>3. CASE PollError
  BY <1>1, <1>3 DEF PollError, At, Thread!Next, Thread!Fail
<1>4. CASE Exit
  <2>1. Cardinality(PendingIds) = 0
    BY <1>4, DoneIsEmpty, FS_EmptySet DEF Exit
  <2> QED
    BY <1>1, <1>4, <2>1 DEF Exit, Thread!Next, Thread!Return
<1>5. CASE Stop
  BY <1>1, <1>5 DEF Stop, Thread!Next, Thread!RequestStop
<1>6. CASE PollIdle \/ PollPackets \/ Handled \/ Drained \/ Exited \/ UNCHANGED allvars \/ LoopTick
  BY <1>1, <1>6 DEF PollIdle, PollPackets, Handled, Drained, Exited, LoopTick, At, allvars, wvars,
                    Thread!tvars
<1> QED
  BY <1>2, <1>3, <1>4, <1>5, <1>6 DEF Quietly

LEMMA WNextThread ==
  ASSUME WInv, [WNext]_allvars
  PROVE  [Thread!Next]_Thread!tvars
<1>1. CASE Quietly
  BY <1>1, QuietThread, QuietlyKept
<1>2. CASE Extract \/ WElapse
  <2>1. Same /\ UNCHANGED wvars
    BY <1>2, ExtractKept, WElapseKept DEF Extract, WElapse
  <2> QED
    BY <2>1, Owed DEF wvars, Thread!tvars
<1>3. CASE (LoopTick /\ Tick) \/ LastFlush
  <2>1. Same
    BY <1>3, CallKept
  <2>2. /\ UNCHANGED <<stop, failed>>
        /\ \/ wpc = "tick" /\ wpc' = "drain"
           \/ wpc = "flush" /\ wpc' = "last"
    BY <1>3 DEF LoopTick, LastFlush, At
  <2> QED
    BY <2>1, <2>2, Owed DEF Thread!tvars
<1>4. CASE Handle \/ HandlePassthrough
  <2>1. Takes
    BY <1>4, HandleKept
  <2> QED
    BY <2>1, Owed DEF Takes, Thread!Next, Thread!Take
<1>5. CASE Submit \/ SubmitPassthrough
  <2>1. Gives
    BY <1>5, SubmitKept
  <2>2. /\ UNCHANGED <<stop, failed>> /\ wpc \in {"drain", "last", "submit"}
        /\ wpc' = wpc \/ (wpc = "submit" /\ wpc' = "handle")
    BY <2>1 DEF Gives
  <2> QED
    BY <2>1, <2>2, Owed DEF Thread!Next, Thread!Answer
<1> QED
  BY <1>1, <1>2, <1>3, <1>4, <1>5, WSteps

\* The loop keeps the contract of a worker's thread: it takes packets only while it
\* runs, gives no answer it does not owe, leaves only on a stop request or a failed
\* queue, and returns owing nothing.
THEOREM WorkerKeepsContract == WSpec => ThreadContract
<1>1. WInv /\ [WNext]_allvars => [Thread!Next]_Thread!tvars
  BY WNextThread
<1>2. WInit => Thread!Init
  <2> SUFFICES ASSUME WInit PROVE Thread!Init
    OBVIOUS
  <2>1. PendingIds = {} /\ wpc = "poll" /\ stop = FALSE /\ failed = FALSE
    BY InitLedger DEF WInit, Ledger!Init
  <2> QED
    BY <2>1, FS_EmptySet DEF Thread!Init
<1> QED
  BY <1>1, <1>2, WInvAlways, PTL DEF WSpec, ThreadContract, Thread!Spec

-----------------------------------------------------------------------------
\* What has been received, and what recv() has put into the buffer.
Taken == received + Len(batch)

LEMMA QuietTaken ==
  ASSUME WInv, Quietly, stop \/ failed
  PROVE  Taken' = Taken
<1>1. ~PollPackets
  BY DEF WInv, Phases, PollPackets, At
<1>2. UNCHANGED <<received, batch>>
  BY <1>1 DEF Quietly, PollStop, PollIdle, PollError, Handled, Drained, Exit, Exited, Stop, LoopTick,
     allvars, wvars
<1> QED
  BY <1>2 DEF Taken

\* Handing a packet of the buffer to handle() moves it from one term to the other.
LEMMA HandleTaken ==
  ASSUME WInv, Handle \/ HandlePassthrough
  PROVE  Taken' = Taken
<1>1. batch \in Seq(Arrivals) /\ batch # <<>> /\ received \in Nat
  BY DEF WInv, WTypeOK, Handle, HandlePassthrough
<1>2. batch' = Tail(batch) /\ received' = received + 1
  BY DEF Handle, HandlePassthrough
<1>3. Len(batch) \in Nat /\ Len(Tail(batch)) = Len(batch) - 1
  BY <1>1, HeadTailProperties, LenProperties
<1> QED
  BY <1>1, <1>2, <1>3 DEF Taken

\* After a stop request or a failed queue the loop takes no packet from the kernel, for
\* every stream of packets and every batch: a queue that always has packets waiting
\* cannot keep the thread from leaving.
THEOREM IntakeAlwaysStops == WSpec => IntakeStops
<1>1. WInv /\ [WNext]_allvars =>
        [stop \/ failed => received' + Len(batch') = received + Len(batch)]_allvars
  <2> SUFFICES ASSUME WInv, [WNext]_allvars, stop \/ failed PROVE Taken' = Taken
    BY DEF Taken
  <2>1. CASE Quietly
    BY <2>1, QuietTaken
  <2>2. CASE Handle \/ HandlePassthrough
    BY <2>2, HandleTaken
  <2>3. CASE \/ Extract \/ WElapse \/ (LoopTick /\ Tick) \/ LastFlush
             \/ Submit \/ SubmitPassthrough
    <3>1. UNCHANGED <<received, batch>>
      BY <2>3 DEF Extract, WElapse, LoopTick, LastFlush, Submit, SubmitPassthrough, wvars
    <3> QED
      BY <3>1 DEF Taken
  <2> QED
    BY <2>1, <2>2, <2>3, WSteps
<1> QED
  BY <1>1, WInvAlways, PTL DEF WSpec, IntakeStops
=============================================================================
