---------------------------- MODULE LedgerProofs ----------------------------
(***************************************************************************)
(* Every packet fed to the extractor is answered at most once and never    *)
(* lost, for every set of packets and every limit: the extractor           *)
(* implements the packet ledger.                                           *)
(*                                                                         *)
(* That no packet is decided twice is not inductive by itself: one has to  *)
(* know that the ids in feed()'s hand, in the held lists and among the     *)
(* decisions are all different, and that the kernel's next id is new.      *)
(***************************************************************************)
EXTENDS ExtractorProofs

USE DEF quiet

\* The ids of a list of packets and of a list of decisions.
PIds(h) == {h[i].id : i \in 1..Len(h)}
PDistinct(h) == \A i, j \in 1..Len(h) : i # j => h[i].id # h[j].id
DIds(s) == {s[i].pkt.id : i \in 1..Len(s)}
DDistinct(s) == \A i, j \in 1..Len(s) : i # j => s[i].pkt.id # s[j].pkt.id

LEMMA EmptyIds == PIds(<<>>) = {} /\ PDistinct(<<>>) /\ DIds(<<>>) = {} /\ DDistinct(<<>>)
<1>1. Len(<<>>) = 0
  BY EmptySeq
<1> QED
  BY <1>1 DEF PIds, PDistinct, DIds, DDistinct

LEMMA SingleIds ==
  ASSUME NEW d \in Decision
  PROVE  <<d>> \in Seq(Decision) /\ DIds(<<d>>) = {d.pkt.id} /\ DDistinct(<<d>>)
<1>1. <<d>> \in Seq(Decision) /\ Len(<<d>>) = 1 /\ <<d>>[1] = d
  BY SingleIsSeq
<1> QED
  BY <1>1 DEF DIds, DDistinct

LEMMA ConcatIds ==
  ASSUME NEW s \in Seq(Decision), NEW t \in Seq(Decision)
  PROVE  /\ s \o t \in Seq(Decision)
         /\ DIds(s \o t) = DIds(s) \cup DIds(t)
         /\ DDistinct(s \o t) <=> DDistinct(s) /\ DDistinct(t) /\ DIds(s) \cap DIds(t) = {}
<1> DEFINE u == s \o t
<1>1. /\ u \in Seq(Decision) /\ Len(u) = Len(s) + Len(t)
      /\ \A i \in 1..(Len(s) + Len(t)) : u[i] = IF i <= Len(s) THEN s[i] ELSE t[i - Len(s)]
  BY ConcatProperties
<1>2. Len(s) \in Nat /\ Len(t) \in Nat
  BY LenProperties
<1> HIDE DEF u
<1>3. /\ \A i \in 1..Len(s) : i \in 1..Len(u) /\ u[i] = s[i]
      /\ \A i \in 1..Len(t) : i + Len(s) \in 1..Len(u) /\ u[i + Len(s)] = t[i]
  <2>1. ASSUME NEW i \in 1..Len(s) PROVE i \in 1..Len(u) /\ u[i] = s[i]
    BY <1>1, <1>2
  <2>2. ASSUME NEW i \in 1..Len(t)
        PROVE  i + Len(s) \in 1..Len(u) /\ u[i + Len(s)] = t[i]
    <3>1. /\ i + Len(s) \in 1..(Len(s) + Len(t)) /\ ~(i + Len(s) <= Len(s))
          /\ (i + Len(s)) - Len(s) = i
      BY <1>2
    <3>2. u[i + Len(s)] = t[(i + Len(s)) - Len(s)]
      BY <1>1, <3>1
    <3> QED
      BY <1>1, <3>1, <3>2
  <2> QED
    BY <2>1, <2>2
<1>4. \A i \in 1..Len(u) : \/ i \in 1..Len(s) /\ u[i] = s[i]
                           \/ i - Len(s) \in 1..Len(t) /\ u[i] = t[i - Len(s)]
  BY <1>1, <1>2
<1>5. DIds(u) = DIds(s) \cup DIds(t)
  <2>1. DIds(u) \subseteq DIds(s) \cup DIds(t)
    BY <1>4 DEF DIds
  <2>2. DIds(s) \subseteq DIds(u)
    BY <1>3 DEF DIds
  <2>3. DIds(t) \subseteq DIds(u)
    BY <1>3 DEF DIds
  <2> QED
    BY <2>1, <2>2, <2>3
<1>6. ASSUME DDistinct(s), DDistinct(t), DIds(s) \cap DIds(t) = {} PROVE DDistinct(u)
  <2> SUFFICES ASSUME NEW i \in 1..Len(u), NEW j \in 1..Len(u), i # j
               PROVE  u[i].pkt.id # u[j].pkt.id
    BY DEF DDistinct
  <2>1. \A a \in 1..Len(s), b \in 1..Len(t) : s[a].pkt.id # t[b].pkt.id
    BY <1>6 DEF DIds
  <2>2. CASE i \in 1..Len(s) /\ u[i] = s[i]
    BY <1>4, <1>6, <2>1, <2>2 DEF DDistinct
  <2>3. CASE i - Len(s) \in 1..Len(t) /\ u[i] = t[i - Len(s)]
    <3>1. CASE j \in 1..Len(s) /\ u[j] = s[j]
      BY <2>1, <2>3, <3>1
    <3>2. CASE j - Len(s) \in 1..Len(t) /\ u[j] = t[j - Len(s)]
      <4>1. i - Len(s) # j - Len(s)
        BY <1>1, <1>2
      <4> QED
        BY <1>6, <2>3, <3>2, <4>1 DEF DDistinct
    <3> QED
      BY <1>4, <3>1, <3>2
  <2> QED
    BY <1>4, <2>2, <2>3
<1>7. ASSUME DDistinct(u) PROVE DDistinct(s) /\ DDistinct(t) /\ DIds(s) \cap DIds(t) = {}
  <2>1. DDistinct(s)
    BY <1>3, <1>7 DEF DDistinct
  <2>2. DDistinct(t)
    <3> SUFFICES ASSUME NEW i \in 1..Len(t), NEW j \in 1..Len(t), i # j
                 PROVE  t[i].pkt.id # t[j].pkt.id
      BY DEF DDistinct
    <3>1. i + Len(s) # j + Len(s)
      BY <1>2
    <3>2. u[i + Len(s)].pkt.id # u[j + Len(s)].pkt.id
      <4>1. i + Len(s) \in 1..Len(u) /\ j + Len(s) \in 1..Len(u)
        BY <1>3
      <4> HIDE DEF u
      <4> QED
        BY <1>7, <3>1, <4>1 DEF DDistinct
    <3> QED
      BY <1>3, <3>2
  <2>3. ASSUME NEW a \in 1..Len(s), NEW b \in 1..Len(t), s[a].pkt.id = t[b].pkt.id PROVE FALSE
    <3>1. a # b + Len(s)
      BY <1>2
    <3> QED
      BY <1>3, <1>7, <2>3, <3>1 DEF DDistinct
  <2> QED
    BY <2>1, <2>2, <2>3 DEF DIds
<1> QED
  BY <1>1, <1>5, <1>6, <1>7 DEF u

LEMMA AppendIds ==
  ASSUME NEW h \in Seq(Packet), NEW p \in Packet
  PROVE  /\ PIds(Append(h, p)) = PIds(h) \cup {p.id}
         /\ PDistinct(h) /\ p.id \notin PIds(h) => PDistinct(Append(h, p))
<1> DEFINE u == Append(h, p)
           n == Len(h)
<1>1. Len(u) = n + 1 /\ (\A i \in 1..n : u[i] = h[i]) /\ u[n + 1] = p /\ n \in Nat
  BY AppendProperties, LenProperties
<1> HIDE DEF u, n
<1>2. \A i \in 1..Len(u) : (i \in 1..n /\ u[i] = h[i]) \/ (i = n + 1 /\ u[i] = p)
  BY <1>1
<1>3. n + 1 \in 1..Len(u) /\ \A i \in 1..n : i \in 1..Len(u)
  BY <1>1
<1>4. PIds(u) = PIds(h) \cup {p.id}
  <2>1. PIds(u) \subseteq PIds(h) \cup {p.id}
    BY <1>2 DEF PIds, n
  <2>2. PIds(h) \subseteq PIds(u) /\ p.id \in PIds(u)
    BY <1>1, <1>3 DEF PIds, n
  <2> QED
    BY <2>1, <2>2
<1>5. ASSUME PDistinct(h), p.id \notin PIds(h) PROVE PDistinct(u)
  <2>1. \A i \in 1..n : h[i].id # p.id
    BY <1>5 DEF PIds, n
  <2> QED
    BY <1>2, <1>5, <2>1 DEF PDistinct, n
<1> QED
  BY <1>4, <1>5 DEF u

LEMMA SettleAllIds ==
  ASSUME NEW h \in Seq(Packet), NEW v \in Verdict, NEW why \in Why
  PROVE  /\ SettleAll(h, v, why) \in Seq(Decision)
         /\ DIds(SettleAll(h, v, why)) = PIds(h)
         /\ PDistinct(h) => DDistinct(SettleAll(h, v, why))
<1> DEFINE u == SettleAll(h, v, why)
<1>1. u \in Seq(Decision) /\ Len(u) = Len(h)
  BY SettleAllType
<1>2. \A i \in 1..Len(h) : u[i].pkt = h[i]
  BY DEF SettleAll, Settle
<1> HIDE DEF u
<1>3. DIds(u) = PIds(h) /\ (PDistinct(h) => DDistinct(u))
  BY <1>1, <1>2 DEF DIds, PIds, DDistinct, PDistinct
<1> QED
  BY <1>1, <1>3 DEF u

LEMMA ReleaseIds ==
  ASSUME NEW h \in Seq(Packet)
  PROVE  PIds(ReleaseLast(h)) = PIds(h) /\ (PDistinct(h) => PDistinct(ReleaseLast(h)))
<1>1. Len(ReleaseLast(h)) = Len(h)
  BY ReleaseType
<1>2. \A i \in 1..Len(h) : ReleaseLast(h)[i].id = h[i].id
  BY ReleaseElements
<1> QED
  BY <1>1, <1>2 DEF PIds, PDistinct

-----------------------------------------------------------------------------
\* Where packets are.

\* A call that is past its sweep has a packet in its hand, or did have one.
CurSet == pc \in {"lookup", "callbacks"} => cur # NoPacket

\* The ids of the packets in the three places are different, and all of them old.
Apart ==
  /\ \A k \in Keys : PDistinct(conns[k].held)
  /\ \A k \in Keys : PIds(conns[k].held) \cap DIds(Settled) = {}
  /\ \A k, l \in Keys : k # l => PIds(conns[k].held) \cap PIds(conns[l].held) = {}
  /\ DIds(Settled) \subseteq 0..(nextId - 1)
  /\ \A k \in Keys : PIds(conns[k].held) \subseteq 0..(nextId - 1)
  /\ InHand => /\ cur.id = nextId - 1 /\ cur.id \in Nat
               /\ cur.id \notin DIds(Settled)
               /\ \A k \in Keys : cur.id \notin PIds(conns[k].held)

LedgerInv == BufferInv /\ CurSet /\ DecidedOnce /\ Apart

\* The ids the ledger's definitions speak of.
LEMMA LedgerIds ==
  ASSUME TypeOK
  PROVE  /\ AnsweredIds = DIds(answered) /\ DecidedIds = DIds(decided)
         /\ DIds(Settled) = AnsweredIds \cup DecidedIds
         /\ \A k : HeldIds(k) = PIds(conns[k].held)
         /\ DecidedOnce <=> DDistinct(Settled)
<1>1. AnsweredIds = DIds(answered) /\ DecidedIds = DIds(decided)
  BY DEF AnsweredIds, DecidedIds, DIds
<1>2. DIds(answered \o decided) = DIds(answered) \cup DIds(decided)
  BY ConcatIds DEF TypeOK
<1> QED
  BY <1>1, <1>2 DEF Settled, HeldIds, PIds, DecidedOnce, DDistinct

\* Pending packets, by where they are.
InHandIds == IF InHand THEN {cur.id} ELSE {}
AllHeldIds == UNION {PIds(conns[k].held) : k \in Keys}

LEMMA PendingParts ==
  /\ PendingIds = InHandIds \cup AllHeldIds \cup DIds(decided)
  /\ PendingIds' = InHandIds' \cup AllHeldIds' \cup DIds(decided')
<1>1. \A k \in Keys : HeldIds(k) = PIds(conns[k].held) /\ HeldIds(k)' = PIds(conns'[k].held)
  BY DEF HeldIds, PIds
<1>2. /\ UNION {HeldIds(k) : k \in Keys} = AllHeldIds
      /\ (UNION {HeldIds(k) : k \in Keys})' = AllHeldIds'
  BY <1>1 DEF AllHeldIds
<1>3. DecidedIds = DIds(decided) /\ DecidedIds' = DIds(decided')
  BY DEF DecidedIds, DIds
<1> QED
  BY <1>2, <1>3 DEF PendingIds, InHandIds

\* The log of decisions grows at its end.
LEMMA SettledGrows ==
  ASSUME TypeOK, NEW t \in Seq(Decision), decided' = decided \o t, answered' = answered
  PROVE  /\ Settled \in Seq(Decision)
         /\ Settled' = Settled \o t
         /\ DIds(Settled') = DIds(Settled) \cup DIds(t)
         /\ DIds(decided') = DIds(decided) \cup DIds(t)
         /\ DecidedOnce /\ DDistinct(t) /\ DIds(Settled) \cap DIds(t) = {} => DecidedOnce'
<1>1. answered \in Seq(Decision) /\ decided \in Seq(Decision)
  BY DEF TypeOK
<1>2. Settled \in Seq(Decision)
  BY <1>1, ConcatProperties DEF Settled
<1>3. Settled' = Settled \o t
  <2>1. Settled' = answered \o (decided \o t)
    BY DEF Settled
  <2>2. (answered \o decided) \o t = answered \o (decided \o t)
    BY <1>1, ConcatAssociative
  <2> QED
    BY <2>1, <2>2 DEF Settled
<1>4. DecidedOnce <=> DDistinct(Settled)
  BY DEF DecidedOnce, DDistinct
<1>5. DecidedOnce' <=> DDistinct(Settled')
  BY DEF DecidedOnce, DDistinct
<1> QED
  BY <1>1, <1>2, <1>3, <1>4, <1>5, ConcatIds

\* A packet in hand is one the move finds in hand.
LEMMA StaysLedger ==
  ASSUME LedgerInv, Stays, UNCHANGED <<answered, nextId>>
  PROVE  DecidedOnce' /\ Apart' /\ PendingIds' = PendingIds
<1>1. Settled' = Settled
  BY DEF Stays, Settled
<1>2. InHand' <=> InHand
  BY DEF InHand, Stays
<1>3. Apart'
  BY <1>1, <1>2 DEF Stays, Apart, LedgerInv
<1>4. DecidedOnce'
  BY <1>1 DEF DecidedOnce, LedgerInv
<1>5. InHandIds' = InHandIds /\ AllHeldIds' = AllHeldIds /\ decided' = decided
  BY <1>2 DEF InHandIds, AllHeldIds, Stays
<1> QED
  BY <1>3, <1>4, <1>5, PendingParts

LEMMA HoldsLedger ==
  ASSUME LedgerInv, Holds, UNCHANGED <<answered, nextId>>
  PROVE  DecidedOnce' /\ Apart' /\ PendingIds' = PendingIds
<1>0. TypeOK /\ cur \in Packet /\ Key \in Keys /\ \A x \in Keys : conns[x].held \in Seq(Packet)
  BY KeyType DEF Holds, LedgerInv, BufferInv, TypeInv, TypeOK, Entry
<1>1. Settled' = Settled /\ decided' = decided
  BY DEF Holds, Settled
<1>2. InHand /\ ~InHand'
  BY DEF InHand, Holds, LedgerInv, CurSet
<1>3. cur.id \notin PIds(conns[Key].held) /\ PDistinct(conns[Key].held)
  BY <1>0, <1>2 DEF LedgerInv, Apart
<1>4. /\ PIds(Append(conns[Key].held, cur)) = PIds(conns[Key].held) \cup {cur.id}
      /\ PDistinct(Append(conns[Key].held, cur))
  BY <1>0, <1>3, AppendIds
<1>5. \A x \in Keys : conns'[x].held = IF x = Key THEN Append(conns[x].held, cur)
                                       ELSE conns[x].held
  BY DEF Holds
<1>6. \A x \in Keys : /\ PDistinct(conns'[x].held)
                      /\ PIds(conns'[x].held) = IF x = Key THEN PIds(conns[x].held) \cup {cur.id}
                                                ELSE PIds(conns[x].held)
  BY <1>4, <1>5 DEF LedgerInv, Apart
<1>7. /\ cur.id = nextId - 1 /\ cur.id \in Nat /\ nextId \in Nat
      /\ cur.id \notin DIds(Settled)
      /\ \A k \in Keys : cur.id \notin PIds(conns[k].held)
  BY <1>0, <1>2 DEF LedgerInv, Apart, TypeOK
<1>8. Apart'
  <2>1. cur.id \in 0..(nextId - 1)
    BY <1>7
  <2>2. nextId' = nextId /\ Apart
    BY DEF LedgerInv
  <2>3. /\ \A k \in Keys : PIds(conns'[k].held) \cap DIds(Settled') = {}
        /\ \A k \in Keys : PIds(conns'[k].held) \subseteq 0..(nextId' - 1)
    BY <1>1, <1>6, <1>7, <2>1, <2>2 DEF Apart
  <2>4. \A k, l \in Keys : k # l => PIds(conns'[k].held) \cap PIds(conns'[l].held) = {}
    <3> SUFFICES ASSUME NEW k \in Keys, NEW l \in Keys, k # l
                 PROVE  PIds(conns'[k].held) \cap PIds(conns'[l].held) = {}
      OBVIOUS
    <3>1. /\ PIds(conns[k].held) \cap PIds(conns[l].held) = {}
          /\ cur.id \notin PIds(conns[k].held) /\ cur.id \notin PIds(conns[l].held)
      BY <1>7, <2>2 DEF Apart
    <3> QED
      BY <1>6, <3>1
  <2> QED
    BY <1>1, <1>2, <1>6, <2>2, <2>3, <2>4 DEF Apart
<1>9. DecidedOnce'
  BY <1>1 DEF DecidedOnce, LedgerInv
<1>10. InHandIds = {cur.id} /\ InHandIds' = {} /\ AllHeldIds' = AllHeldIds \cup {cur.id}
  BY <1>0, <1>2, <1>6 DEF InHandIds, AllHeldIds
<1> QED
  BY <1>1, <1>8, <1>9, <1>10, PendingParts

LEMMA DecidesLedger ==
  ASSUME LedgerInv, NEW k \in Keys, NEW v \in Verdict, NEW why \in Why, Decides(k, v, why),
         UNCHANGED <<answered, nextId>>
  PROVE  DecidedOnce' /\ Apart' /\ PendingIds' = PendingIds
<1> DEFINE t == SettleAll(conns[k].held, v, why)
<1>0. TypeOK /\ \A x \in Keys : conns[x].held \in Seq(Packet)
  BY DEF LedgerInv, BufferInv, TypeInv, TypeOK, Entry
<1>1. t \in Seq(Decision) /\ DIds(t) = PIds(conns[k].held) /\ DDistinct(t)
  BY <1>0, SettleAllIds DEF LedgerInv, Apart
<1>2. decided' = decided \o t
  BY DEF Decides
<1> HIDE DEF t
<1>3. /\ DIds(Settled') = DIds(Settled) \cup PIds(conns[k].held)
      /\ DIds(decided') = DIds(decided) \cup PIds(conns[k].held)
      /\ DecidedOnce'
  BY <1>0, <1>1, <1>2, SettledGrows DEF LedgerInv, Apart
<1>4. InHand' <=> InHand
  BY DEF InHand, Decides
<1>5. \A x \in Keys : /\ PDistinct(conns'[x].held)
                      /\ PIds(conns'[x].held) = IF x = k THEN {} ELSE PIds(conns[x].held)
  BY EmptyIds DEF Decides, LedgerInv, Apart
<1>6. Apart'
  BY <1>3, <1>4, <1>5 DEF Decides, LedgerInv, Apart
<1>7. InHandIds' = InHandIds
  BY <1>4 DEF InHandIds, Decides
<1>8. AllHeldIds' \cup PIds(conns[k].held) = AllHeldIds
  <2>1. AllHeldIds' \cup PIds(conns[k].held) \subseteq AllHeldIds
    BY <1>5 DEF AllHeldIds
  <2>2. ASSUME NEW id \in AllHeldIds PROVE id \in AllHeldIds' \cup PIds(conns[k].held)
    <3>1. PICK x \in Keys : id \in PIds(conns[x].held)
      BY <2>2 DEF AllHeldIds
    <3> QED
      BY <1>5, <3>1 DEF AllHeldIds
  <2> QED
    BY <2>1, <2>2
<1> QED
  BY <1>3, <1>6, <1>7, <1>8, PendingParts

LEMMA FloodsLedger ==
  ASSUME LedgerInv, Floods, UNCHANGED <<answered, nextId>>
  PROVE  DecidedOnce' /\ Apart' /\ PendingIds' = PendingIds
<1> DEFINE all == SettleAll(conns[Key].held, "ALLOW", "flood")
           last == <<Settle(cur, "ALLOW", "flood")>>
           t == all \o last
<1>0. /\ TypeOK /\ cur \in Packet /\ Key \in Keys
      /\ \A x \in Keys : conns[x].held \in Seq(Packet)
      /\ "ALLOW" \in Verdict /\ "flood" \in Why
  BY KeyType DEF Floods, LedgerInv, BufferInv, TypeInv, TypeOK, Entry, Verdict, Why
<1>1. all \in Seq(Decision) /\ DIds(all) = PIds(conns[Key].held) /\ DDistinct(all)
  BY <1>0, SettleAllIds DEF LedgerInv, Apart
<1>2. last \in Seq(Decision) /\ DIds(last) = {cur.id} /\ DDistinct(last)
  <2>1. Settle(cur, "ALLOW", "flood") \in Decision /\ Settle(cur, "ALLOW", "flood").pkt = cur
    BY <1>0, SettleType DEF Settle
  <2> QED
    BY <2>1, SingleIds
<1>3. InHand /\ ~InHand'
  BY DEF InHand, Floods, LedgerInv, CurSet
<1>4. /\ cur.id \notin DIds(Settled) /\ cur.id \in 0..(nextId - 1)
      /\ \A x \in Keys : cur.id \notin PIds(conns[x].held)
  BY <1>0, <1>3 DEF LedgerInv, Apart, TypeOK
<1>5. decided' = decided \o t
  <2>1. decided' = (decided \o all) \o last /\ decided \in Seq(Decision)
    BY <1>0 DEF Floods, TypeOK
  <2> HIDE DEF all, last
  <2> QED
    BY <1>1, <1>2, <2>1, ConcatAssociative
<1> HIDE DEF all, last
<1>6. t \in Seq(Decision) /\ DIds(t) = PIds(conns[Key].held) \cup {cur.id} /\ DDistinct(t)
  BY <1>0, <1>1, <1>2, <1>4, ConcatIds
<1> HIDE DEF t
<1>7. /\ DIds(Settled') = DIds(Settled) \cup PIds(conns[Key].held) \cup {cur.id}
      /\ DIds(decided') = DIds(decided) \cup PIds(conns[Key].held) \cup {cur.id}
      /\ DecidedOnce'
  <2>1. DecidedOnce /\ DIds(Settled) \cap DIds(t) = {}
    BY <1>0, <1>4, <1>6 DEF LedgerInv, Apart
  <2> QED
    BY <1>0, <1>5, <1>6, <2>1, SettledGrows
<1>8. \A x \in Keys : /\ PDistinct(conns'[x].held)
                      /\ PIds(conns'[x].held) = IF x = Key THEN {} ELSE PIds(conns[x].held)
  BY EmptyIds DEF Floods, LedgerInv, Apart
<1>9. Apart'
  <2>1. DIds(Settled') \subseteq 0..(nextId' - 1)
    BY <1>0, <1>4, <1>7 DEF LedgerInv, Apart
  <2>2. \A x \in Keys : PIds(conns'[x].held) \subseteq 0..(nextId' - 1)
    BY <1>8 DEF LedgerInv, Apart
  <2>3. \A x \in Keys : PIds(conns'[x].held) \cap DIds(Settled') = {}
    <3>1. ASSUME NEW x \in Keys, x # Key
          PROVE  /\ PIds(conns[x].held) \cap DIds(Settled) = {}
                 /\ PIds(conns[x].held) \cap PIds(conns[Key].held) = {}
                 /\ cur.id \notin PIds(conns[x].held)
      BY <1>0, <1>4, <3>1 DEF LedgerInv, Apart
    <3> QED
      BY <1>7, <1>8, <3>1
  <2>4. \A x, y \in Keys : x # y => PIds(conns'[x].held) \cap PIds(conns'[y].held) = {}
    BY <1>8 DEF LedgerInv, Apart
  <2> QED
    BY <1>3, <1>8, <2>1, <2>2, <2>3, <2>4 DEF Apart
<1>10. InHandIds = {cur.id} /\ InHandIds' = {}
  BY <1>3 DEF InHandIds
<1>11. AllHeldIds' \cup PIds(conns[Key].held) = AllHeldIds
  <2>1. AllHeldIds' \cup PIds(conns[Key].held) \subseteq AllHeldIds
    BY <1>0, <1>8 DEF AllHeldIds
  <2>2. ASSUME NEW id \in AllHeldIds PROVE id \in AllHeldIds' \cup PIds(conns[Key].held)
    <3>1. PICK x \in Keys : id \in PIds(conns[x].held)
      BY <2>2 DEF AllHeldIds
    <3> QED
      BY <1>8, <3>1 DEF AllHeldIds
  <2> QED
    BY <2>1, <2>2
<1> QED
  BY <1>7, <1>9, <1>10, <1>11, PendingParts

LEMMA PassesLedger ==
  ASSUME LedgerInv, NEW v \in Verdict, NEW why \in Why, Passes(v, why),
         UNCHANGED <<answered, nextId>>
  PROVE  DecidedOnce' /\ Apart' /\ PendingIds' = PendingIds
<1> DEFINE t == <<Settle(cur, v, why)>>
<1>0. TypeOK /\ cur \in Packet /\ nextId \in Nat
  BY DEF LedgerInv, BufferInv, TypeInv, TypeOK
<1>1. t \in Seq(Decision) /\ DIds(t) = {cur.id} /\ DDistinct(t)
  <2>1. Settle(cur, v, why) \in Decision /\ Settle(cur, v, why).pkt = cur
    BY <1>0, SettleType DEF Settle
  <2> QED
    BY <2>1, SingleIds
<1>2. decided' = decided \o t
  <2>1. decided \in Seq(Decision) /\ Settle(cur, v, why) \in Decision
    BY <1>0, SettleType DEF TypeOK
  <2> QED
    BY <2>1, AppendIsConcat DEF Passes
<1> HIDE DEF t
<1>3. InHand /\ ~InHand'
  BY DEF InHand, Passes, LedgerInv, CurSet
<1>4. /\ cur.id \notin DIds(Settled) /\ cur.id \in 0..(nextId - 1)
      /\ \A x \in Keys : cur.id \notin PIds(conns[x].held)
  BY <1>0, <1>3 DEF LedgerInv, Apart
<1>5. /\ DIds(Settled') = DIds(Settled) \cup {cur.id}
      /\ DIds(decided') = DIds(decided) \cup {cur.id}
      /\ DecidedOnce'
  BY <1>0, <1>1, <1>2, <1>4, SettledGrows DEF LedgerInv
<1>6. Apart'
  BY <1>3, <1>4, <1>5 DEF Passes, LedgerInv, Apart
<1>7. InHandIds = {cur.id} /\ InHandIds' = {} /\ AllHeldIds' = AllHeldIds
  BY <1>3 DEF InHandIds, AllHeldIds, Passes
<1> QED
  BY <1>5, <1>6, <1>7, PendingParts

LEMMA CopiesLedger ==
  ASSUME LedgerInv, Copies, UNCHANGED <<answered, nextId>>
  PROVE  DecidedOnce' /\ Apart' /\ PendingIds' = PendingIds
<1>0. \A x \in Keys : conns[x].held \in Seq(Packet)
  BY DEF LedgerInv, BufferInv, TypeInv, TypeOK, Entry
<1>1. Settled' = Settled /\ decided' = decided
  BY DEF Copies, Settled
<1>2. ~InHand /\ ~InHand'
  BY DEF InHand, Copies
<1>3. \A x \in Keys : PIds(conns'[x].held) = PIds(conns[x].held) /\ PDistinct(conns'[x].held)
  BY <1>0, ReleaseIds DEF Copies, LedgerInv, Apart
<1>4. Apart'
  BY <1>1, <1>2, <1>3 DEF LedgerInv, Apart
<1>5. DecidedOnce'
  BY <1>1 DEF DecidedOnce, LedgerInv
<1>6. InHandIds' = InHandIds /\ AllHeldIds' = AllHeldIds
  BY <1>2, <1>3 DEF InHandIds, AllHeldIds
<1> QED
  BY <1>1, <1>4, <1>5, <1>6, PendingParts

\* No step of a call loses a packet, answers one or takes one in.
LEMMA MovesLedger ==
  ASSUME LedgerInv, Moves
  PROVE  DecidedOnce' /\ Apart' /\ PendingIds' = PendingIds
BY StaysLedger, HoldsLedger, DecidesLedger, FloodsLedger, PassesLedger, CopiesLedger DEF Moves

\* Who has a packet in hand: a step of a call that ends it leaves nobody with one.
LEMMA StepPhase ==
  ASSUME CurSet, Step
  PROVE  /\ CurSet' /\ pc # "idle" /\ pc # "done"
         /\ pc' = "idle" => cur' = NoPacket
         /\ pc' \in {"flush", "done"} => pc = "flush" /\ cur' = cur
         /\ pc = "flush" => pc' \in {"flush", "done"}
         /\ pc' = "done" => \A k \in Keys : conns'[k].held = <<>>
<1>1. CASE SweepEnd \/ FlushEnd
  BY <1>1, ConstBounded DEF SweepEnd, FlushEnd, CurSet
<1>2. CASE \E k \in Keys : SweepBlocked(k) \/ SweepWaiting(k) \/ FlushOne(k)
  BY <1>2 DEF SweepBlocked, SweepWaiting, FlushOne, CurSet
<1>3. CASE AllowUndissected \/ DropBlocked \/ AllowUntracked \/ AllowAtCap \/ AllowFlooded
           \/ AllowBareAck \/ Epilogue
  BY <1>3 DEF AllowUndissected, DropBlocked, AllowUntracked, AllowAtCap, AllowFlooded,
     AllowBareAck, Epilogue, Untracked, Undecided, ReturnWith, Return, CurSet
<1>4. CASE AdmitWithRoom \/ AdmitByEviction
  BY <1>4 DEF AdmitWithRoom, AdmitByEviction, Untracked, CurSet
<1>5. CASE \E b \in BOOLEAN : FeedReassembler(b)
  BY <1>5 DEF FeedReassembler, Undecided, CurSet
<1>6. CASE OnConnectionStart \/ OnMessageIgnored \/ OnMessageReady \/ OnConnectionEnd
  BY <1>6 DEF OnConnectionStart, OnMessageIgnored, OnMessageReady, OnConnectionEnd, Callback,
     CurSet
<1> QED
  BY <1>1, <1>2, <1>3, <1>4, <1>5, <1>6 DEF Step

\* Taking a packet from the kernel: its id is new.
LEMMA TakeLedger ==
  ASSUME LedgerInv, ~InHand, NEW h, cur' = Arrived(h), nextId' = nextId + 1,
         UNCHANGED <<conns, decided, answered>>, pc' # "callbacks"
  PROVE  /\ DecidedOnce' /\ Apart' /\ CurSet'
         /\ PendingIds' = PendingIds \cup {nextId}
         /\ nextId \notin PendingIds \cup AnsweredIds
<1>0. TypeOK /\ nextId \in Nat
  BY DEF LedgerInv, BufferInv, TypeInv, TypeOK
<1>1. cur'.id = nextId /\ cur'.view = TRUE /\ NoPacket.view = FALSE
  BY DEF Arrived, NoPacket
<1>2. InHand' /\ CurSet'
  BY <1>1 DEF InHand, CurSet
<1>3. Settled' = Settled
  BY DEF Settled
<1>4. nextId \notin DIds(Settled) /\ \A k \in Keys : nextId \notin PIds(conns[k].held)
  BY <1>0 DEF LedgerInv, Apart
<1>5. Apart'
  <2>1. cur'.id = nextId' - 1 /\ cur'.id \in Nat
    BY <1>0, <1>1
  <2>2. \A S \in SUBSET (0..(nextId - 1)) : S \subseteq 0..(nextId' - 1)
    BY <1>0
  <2> QED
    BY <1>1, <1>3, <1>4, <2>1, <2>2 DEF LedgerInv, Apart
<1>6. DecidedOnce'
  BY <1>3 DEF LedgerInv, DecidedOnce
<1>7. InHandIds = {} /\ InHandIds' = {nextId} /\ AllHeldIds' = AllHeldIds
  BY <1>1, <1>2 DEF InHandIds, AllHeldIds
<1>8. nextId \notin AllHeldIds \cup DIds(decided) \cup AnsweredIds
  <2>1. DIds(Settled) = AnsweredIds \cup DIds(decided)
    BY <1>0, LedgerIds
  <2> QED
    BY <1>4, <2>1 DEF AllHeldIds
<1> QED
  BY <1>2, <1>5, <1>6, <1>7, <1>8, PendingParts

\* The ledger's log, for a list of answers.
LogFor(a) == [i \in 1..Len(a) |-> [id |-> a[i].pkt.id, verdict |-> a[i].verdict]]

LEMMA LogShape ==
  ASSUME NEW a \in Seq(Decision)
  PROVE  /\ Len(LogFor(a)) = Len(a)
         /\ \A i \in 1..Len(a) : /\ LogFor(a)[i].id = a[i].pkt.id
                                 /\ LogFor(a)[i] = [id |-> a[i].pkt.id, verdict |-> a[i].verdict]
         /\ Ledger!LogIds(LogFor(a)) = DIds(a)
<1> DEFINE log == LogFor(a)
           S == {[id |-> a[i].pkt.id, verdict |-> a[i].verdict] : i \in 1..Len(a)}
<1>1. Len(a) \in Nat /\ log \in [1..Len(a) -> S]
  BY LenProperties DEF LogFor
<1>2. \A i \in 1..Len(a) : /\ log[i].id = a[i].pkt.id
                           /\ log[i] = [id |-> a[i].pkt.id, verdict |-> a[i].verdict]
  BY DEF LogFor
<1> HIDE DEF log, S
<1>3. Len(log) = Len(a)
  BY <1>1, FunIsSeq
<1>4. Ledger!LogIds(log) = DIds(a)
  BY <1>2, <1>3 DEF Ledger!LogIds, DIds
<1> QED
  BY <1>2, <1>3, <1>4 DEF log

\* Taking a packet is a step of the ledger.
LEMMA TakeIsReceive ==
  ASSUME TypeOK, PendingIds' = PendingIds \cup {nextId},
         nextId \notin PendingIds \cup AnsweredIds, UNCHANGED answered
  PROVE  Ledger!Receive
<1>1. Ledger!LogIds(LogFor(answered)) = AnsweredIds
  BY LogShape, LedgerIds DEF TypeOK
<1>2. LogFor(answered)' = LogFor(answered)
  BY DEF LogFor
<1>3. \E id \in PendingIds' : /\ id \notin PendingIds \cup Ledger!LogIds(LogFor(answered))
                              /\ PendingIds' = PendingIds \cup {id}
  BY <1>1
<1> QED
  BY <1>2, <1>3 DEF Ledger!Receive, LogFor

\* Answering pending packets, each once, is a step of the ledger.
LEMMA AnswerIsAnswer ==
  ASSUME TypeOK, DecidedOnce, PendingIds \cap AnsweredIds = {},
         NEW t \in Seq(Decision), t # <<>>, DDistinct(t), DIds(t) \subseteq PendingIds,
         answered' = answered \o t, PendingIds' = PendingIds \ DIds(t)
  PROVE  Ledger!Answer
<1> DEFINE a == answered
           b == answered'
<1>1. a \in Seq(Decision) /\ Len(t) \in Nat \ {0} /\ Len(a) \in Nat
  BY EmptySeq, LenProperties DEF TypeOK
<1>2. /\ b \in Seq(Decision) /\ Len(b) = Len(a) + Len(t)
      /\ \A i \in 1..Len(b) : b[i] = IF i <= Len(a) THEN a[i] ELSE t[i - Len(a)]
  BY <1>1, ConcatProperties
<1>3. AnsweredIds = DIds(a) /\ DDistinct(a)
  <2>1. decided \in Seq(Decision) /\ DDistinct(a \o decided)
    BY DEF TypeOK, DecidedOnce, DDistinct, Settled
  <2> QED
    BY <1>1, <2>1, ConcatIds, LedgerIds
<1>4. DDistinct(b) /\ DIds(b) = DIds(a) \cup DIds(t)
  BY <1>1, <1>3, ConcatIds
<1>5. /\ Len(LogFor(a)) = Len(a) /\ Len(LogFor(b)) = Len(b)
      /\ \A i \in 1..Len(a) : LogFor(a)[i] = [id |-> a[i].pkt.id, verdict |-> a[i].verdict]
      /\ \A i \in 1..Len(b) : LogFor(b)[i] = [id |-> b[i].pkt.id, verdict |-> b[i].verdict]
      /\ \A i \in 1..Len(b) : LogFor(b)[i].id = b[i].pkt.id
      /\ Ledger!LogIds(LogFor(b)) = DIds(b)
  BY <1>1, <1>2, LogShape
<1> HIDE DEF a, b
<1>7. Len(LogFor(b)) > Len(LogFor(a))
  BY <1>1, <1>2, <1>5
<1>8. \A i \in 1..Len(LogFor(a)) : LogFor(b)[i] = LogFor(a)[i]
  <2> SUFFICES ASSUME NEW i \in 1..Len(a) PROVE LogFor(b)[i] = LogFor(a)[i]
    BY <1>5
  <2>1. i \in 1..Len(b) /\ b[i] = a[i]
    BY <1>1, <1>2
  <2> QED
    BY <1>5, <2>1
<1>9. \A i, j \in 1..Len(LogFor(b)) : i # j => LogFor(b)[i].id # LogFor(b)[j].id
  BY <1>4, <1>5 DEF DDistinct
<1>10. \A i \in (Len(LogFor(a)) + 1)..Len(LogFor(b)) : LogFor(b)[i].id \in PendingIds
  <2> SUFFICES ASSUME NEW i \in (Len(a) + 1)..Len(b) PROVE LogFor(b)[i].id \in PendingIds
    BY <1>5
  <2>1. i \in 1..Len(b) /\ i - Len(a) \in 1..Len(t) /\ ~(i <= Len(a))
    BY <1>1, <1>2
  <2>2. b[i] = t[i - Len(a)]
    BY <1>2, <2>1
  <2>3. b[i].pkt.id \in DIds(t)
    BY <2>1, <2>2 DEF DIds
  <2> QED
    BY <1>5, <2>1, <2>3
<1>11. PendingIds' = PendingIds \ Ledger!LogIds(LogFor(b))
  BY <1>3, <1>4, <1>5
<1> DEFINE log == [i \in 1..Len(answered) |->
                     [id |-> answered[i].pkt.id, verdict |-> answered[i].verdict]]
<1>12. LogFor(a) = log /\ LogFor(b) = log'
  BY DEF LogFor, a, b
<1> SUFFICES /\ Len(log') > Len(log)
             /\ \A i \in 1..Len(log) : log'[i] = log[i]
             /\ \A i, j \in 1..Len(log') : i # j /\ j > Len(log) => log'[i].id # log'[j].id
             /\ \A i \in (Len(log) + 1)..Len(log') : log'[i].id \in PendingIds
             /\ PendingIds' = PendingIds \ Ledger!LogIds(log')
  BY DEF Ledger!Answer
<1> HIDE DEF log
<1> QED
  BY <1>7, <1>8, <1>9, <1>10, <1>11, <1>12

\* What is pending is not answered yet.
LEMMA PendingApart ==
  ASSUME LedgerInv
  PROVE  /\ PendingIds \cap AnsweredIds = {}
         /\ (InHandIds \cup AllHeldIds) \cap DIds(Settled) = {}
<1>0. TypeOK /\ answered \in Seq(Decision) /\ decided \in Seq(Decision)
  BY DEF LedgerInv, BufferInv, TypeInv, TypeOK
<1>1. DDistinct(answered \o decided)
  BY DEF LedgerInv, DecidedOnce, DDistinct, Settled
<1>2. DIds(answered) \cap DIds(decided) = {}
  BY <1>0, <1>1, ConcatIds
<1>3. AnsweredIds = DIds(answered) /\ DIds(Settled) = AnsweredIds \cup DIds(decided)
  BY <1>0, LedgerIds
<1>4. (InHandIds \cup AllHeldIds) \cap DIds(Settled) = {}
  BY DEF LedgerInv, Apart, InHandIds, AllHeldIds
<1> QED
  BY <1>2, <1>3, <1>4, PendingParts

\* Decisions handed to the kernel, all of them or the first few.
LEMMA HandsOver ==
  ASSUME LedgerInv, NEW t \in Seq(Decision), NEW rest \in Seq(Decision), t # <<>>,
         decided = t \o rest, decided' = rest, answered' = answered \o t,
         UNCHANGED <<conns, cur, nextId, pc>>
  PROVE  /\ DecidedOnce' /\ Apart' /\ CurSet'
         /\ DIds(t) \subseteq PendingIds /\ PendingIds' = PendingIds \ DIds(t)
         /\ Ledger!Answer
<1>0. TypeOK /\ answered \in Seq(Decision) /\ decided \in Seq(Decision) /\ DecidedOnce
  BY DEF LedgerInv, BufferInv, TypeInv, TypeOK
<1>1. Settled' = Settled
  BY <1>0, ConcatAssociative DEF Settled
<1>2. DecidedOnce' /\ Apart' /\ CurSet'
  <2>1. InHand' <=> InHand
    BY DEF InHand
  <2> QED
    BY <1>1, <2>1 DEF LedgerInv, DecidedOnce, Apart, CurSet
<1>3. /\ DIds(decided) = DIds(t) \cup DIds(rest)
      /\ DDistinct(t) /\ DIds(t) \cap DIds(rest) = {}
  <2>1. DDistinct(answered \o decided)
    BY <1>0 DEF DecidedOnce, DDistinct, Settled
  <2>2. DDistinct(decided)
    BY <1>0, <2>1, ConcatIds
  <2> QED
    BY <2>2, ConcatIds
<1>4. DIds(decided) \subseteq DIds(Settled)
  BY <1>0, LedgerIds
<1>5. InHandIds' = InHandIds /\ AllHeldIds' = AllHeldIds
  BY DEF InHandIds, AllHeldIds, InHand
<1>6. DIds(t) \subseteq PendingIds /\ PendingIds' = PendingIds \ DIds(t)
  BY <1>3, <1>4, <1>5, PendingParts, PendingApart
<1>7. Ledger!Answer
  BY <1>0, <1>3, <1>6, PendingApart, AnswerIsAnswer
<1> QED
  BY <1>2, <1>6, <1>7

-----------------------------------------------------------------------------
\* The extractor by itself.

\* Between calls, and while flush() runs, feed() has no packet.
CurIdle == pc \in {"idle", "flush", "done"} => cur = NoPacket

LedgerStutters == PendingIds' = PendingIds /\ answered' = answered

LEMMA StutterIsStutter == LedgerStutters => UNCHANGED Ledger!lvars
BY DEF LedgerStutters, Ledger!lvars

LEMMA InitLedger == Init => LedgerInv /\ CurIdle /\ Ledger!Init
<1> SUFFICES ASSUME Init PROVE LedgerInv /\ CurIdle /\ Ledger!Init
  OBVIOUS
<1>1. answered = <<>> /\ decided = <<>> /\ Len(<<>>) = 0 /\ cur = NoPacket
  BY EmptySeq DEF Init
<1>2. Settled = <<>>
  <2>1. <<>> \in Seq(Decision)
    BY EmptySeq
  <2>2. <<>> \o <<>> = <<>>
    BY <2>1, ConcatEmptySeq
  <2> QED
    BY <1>1, <2>2 DEF Settled
<1>3. \A k \in Keys : conns[k].held = <<>>
  BY ConstBounded DEF Init
<1>4. CurSet /\ DecidedOnce /\ CurIdle
  BY <1>1, <1>2 DEF Init, CurSet, DecidedOnce, CurIdle
<1>5. ~InHand
  BY <1>1 DEF InHand
<1>6. Apart
  BY <1>2, <1>3, <1>5, EmptyIds DEF Apart
<1>7. PendingIds = {}
  BY <1>1, <1>3, <1>5, EmptyIds, PendingParts DEF InHandIds, AllHeldIds
<1>8. Ledger!Init
  BY <1>1, <1>7 DEF Ledger!Init
<1> QED
  BY <1>4, <1>6, <1>8, InitBuffers DEF LedgerInv

\* A step that concerns neither packets nor the call under way.
LEMMA ElsewhereLedger ==
  ASSUME LedgerInv, UNCHANGED <<decided, answered, cur, nextId>>,
         \A x \in Keys : conns'[x].held = conns[x].held,
         pc # "callbacks" /\ pc' \notin {"lookup", "callbacks"}
  PROVE  DecidedOnce' /\ Apart' /\ CurSet' /\ LedgerStutters
<1>1. Stays
  BY DEF Stays
<1>2. DecidedOnce' /\ Apart' /\ PendingIds' = PendingIds
  BY <1>1, StaysLedger
<1> QED
  BY <1>2 DEF CurSet, LedgerStutters

LEMMA NextLedger ==
  ASSUME LedgerInv, CurIdle, [Next]_vars
  PROVE  LedgerInv' /\ CurIdle' /\ (Ledger!Next \/ UNCHANGED Ledger!lvars)
<1>0. BufferInv' /\ TypeOK
  BY NextBuffers DEF LedgerInv, BufferInv, TypeInv
<1> USE StutterIsStutter
<1>1. CASE Step
  <2>1. DecidedOnce' /\ Apart' /\ PendingIds' = PendingIds /\ answered' = answered
    BY <1>1, StepMoves, MovesLedger DEF LedgerInv, Moves
  <2>2. CurSet' /\ CurIdle'
    BY <1>1, StepPhase DEF LedgerInv, CurIdle
  <2> QED
    BY <1>0, <2>1, <2>2 DEF LedgerInv, LedgerStutters
<1>2. ASSUME NEW h \in Arrivals, Feed(h) PROVE LedgerInv' /\ CurIdle' /\ Ledger!Next
  <2>1. /\ cur' = Arrived(h) /\ nextId' = nextId + 1 /\ UNCHANGED <<conns, decided, answered>>
        /\ pc = "idle" /\ pc' \in {"sweep", "lookup"}
    BY <1>2 DEF Feed, EnterTick, table
  <2>2. ~InHand
    BY <2>1 DEF CurIdle, InHand
  <2>3. /\ DecidedOnce' /\ Apart' /\ CurSet' /\ PendingIds' = PendingIds \cup {nextId}
        /\ nextId \notin PendingIds \cup AnsweredIds
    BY <2>1, <2>2, TakeLedger
  <2>4. Ledger!Receive
    BY <1>0, <2>1, <2>3, TakeIsReceive
  <2> QED
    BY <1>0, <2>1, <2>3, <2>4 DEF LedgerInv, CurIdle, Ledger!Next
<1>3. CASE Drain
  <2>1. /\ decided \in Seq(Decision) /\ <<>> \in Seq(Decision) /\ decided # <<>>
        /\ decided = decided \o <<>>
    BY <1>0, <1>3, EmptySeq, ConcatEmptySeq DEF Drain, TypeOK
  <2>2. /\ decided' = <<>> /\ answered' = answered \o decided
        /\ UNCHANGED <<conns, cur, nextId, pc>>
    BY <1>3 DEF Drain, table
  <2>3. DecidedOnce' /\ Apart' /\ CurSet' /\ Ledger!Answer
    BY <2>1, <2>2, HandsOver
  <2> QED
    BY <1>0, <2>2, <2>3 DEF LedgerInv, CurIdle, Ledger!Next
<1>4. CASE Tick \/ Flush \/ Elapse
  <2>1. UNCHANGED <<decided, answered, cur, nextId>> /\ pc = "idle" /\ pc' \in {"idle", "sweep", "flush"}
    BY <1>4 DEF Tick, EnterTick, Flush, Elapse
  <2>2. \A x \in Keys : conns'[x].held = conns[x].held
    <3>1. CASE Tick \/ Flush
      BY <3>1 DEF Tick, Flush, table
    <3>2. CASE Elapse
      BY <3>2, ElapseBuffers DEF LedgerInv
    <3> QED
      BY <1>4, <3>1, <3>2
  <2>3. DecidedOnce' /\ Apart' /\ CurSet' /\ LedgerStutters
    BY <2>1, <2>2, ElsewhereLedger
  <2> QED
    BY <1>0, <2>1, <2>3 DEF LedgerInv, CurIdle
<1>5. CASE Finished \/ UNCHANGED vars
  <2>1. UNCHANGED vars
    BY <1>5 DEF Finished
  <2>2. Stays /\ UNCHANGED <<answered, nextId>>
    BY <2>1 DEF vars, Stays
  <2>3. DecidedOnce' /\ Apart' /\ PendingIds' = PendingIds /\ answered' = answered
    BY <2>2, StaysLedger
  <2>4. CurSet' /\ CurIdle'
    BY <2>1 DEF vars, CurSet, CurIdle, LedgerInv
  <2> QED
    BY <1>0, <2>3, <2>4 DEF LedgerInv, LedgerStutters
<1> QED
  BY <1>1, <1>2, <1>3, <1>4, <1>5 DEF Next

LEMMA LedgerInvAlways == Spec => [](LedgerInv /\ CurIdle)
<1>1. LedgerInv /\ CurIdle /\ [Next]_vars => (LedgerInv /\ CurIdle)'
  BY NextLedger
<1> QED
  BY <1>1, InitLedger, PTL DEF Spec

\* No packet is decided twice: whichever of resolve(), the flood and cap paths, the
\* sweep, the epilogue and flush() comes across it first, no other does after it.
THEOREM NeverDecidedTwice == Spec => []DecidedOnce
<1>1. LedgerInv => DecidedOnce
  BY DEF LedgerInv
<1> QED
  BY <1>1, LedgerInvAlways, PTL

\* The extractor keeps the packet ledger, for any packets in any order: feed() takes a
\* packet in, drain_decided() answers packets that are pending, each once, and no
\* other step, of a callback, an eviction, a sweep or a flush, loses or adds one.
THEOREM ExtractorKeepsLedger == Spec => LedgerKept
<1>1. LedgerInv /\ CurIdle /\ [Next]_vars => [Ledger!Next]_Ledger!lvars
  BY NextLedger
<1> QED
  BY <1>1, InitLedger, LedgerInvAlways, PTL DEF Spec, LedgerKept, Ledger!Spec

-----------------------------------------------------------------------------
\* The order of a flow's packets.

Ascends(h) == \A i, j \in 1..Len(h) : i < j => h[i].id < h[j].id
Before(s, h) ==
  \A i \in 1..Len(s), j \in 1..Len(h) : SameFlow(s[i].pkt, h[j]) => s[i].pkt.id < h[j].id
Ordered(s) ==
  \A i, j \in 1..Len(s) :
    i < j /\ SameFlow(s[i].pkt, s[j].pkt) => s[i].pkt.id < s[j].pkt.id

\* A held list has the packets of one key, in the order they arrived, all of them
\* after what was decided of their flow.
OrderInv ==
  /\ \A k \in Keys : Ascends(conns[k].held)
  /\ \A k \in Keys : \A i \in 1..Len(conns[k].held) : KeyOf[conns[k].held[i].conn] = k
  /\ Ordered(Settled)
  /\ \A k \in Keys : Before(Settled, conns[k].held)

LEMMA OrderIsKept == OrderInv => FlowOrderKept
BY DEF OrderInv, FlowOrderKept, Ordered, Before

\* One list after another.
LEMMA ConcatOrdered ==
  ASSUME NEW s \in Seq(Decision), NEW t \in Seq(Decision)
  PROVE  /\ /\ Ordered(s) /\ Ordered(t)
            /\ \A i \in 1..Len(s), j \in 1..Len(t) :
                 SameFlow(s[i].pkt, t[j].pkt) => s[i].pkt.id < t[j].pkt.id
            => Ordered(s \o t)
         /\ \A h : Before(s, h) /\ Before(t, h) => Before(s \o t, h)
<1> DEFINE u == s \o t
<1>1. /\ Len(u) = Len(s) + Len(t)
      /\ \A i \in 1..(Len(s) + Len(t)) : u[i] = IF i <= Len(s) THEN s[i] ELSE t[i - Len(s)]
  BY ConcatProperties
<1>2. Len(s) \in Nat /\ Len(t) \in Nat
  BY LenProperties
<1> HIDE DEF u
<1>3. \A i \in 1..Len(u) : \/ i \in 1..Len(s) /\ u[i] = s[i]
                           \/ i > Len(s) /\ i - Len(s) \in 1..Len(t) /\ u[i] = t[i - Len(s)]
  BY <1>1, <1>2
<1>4. ASSUME Ordered(s), Ordered(t),
             \A i \in 1..Len(s), j \in 1..Len(t) :
               SameFlow(s[i].pkt, t[j].pkt) => s[i].pkt.id < t[j].pkt.id
      PROVE  Ordered(u)
  <2> SUFFICES ASSUME NEW i \in 1..Len(u), NEW j \in 1..Len(u), i < j,
                      SameFlow(u[i].pkt, u[j].pkt)
               PROVE  u[i].pkt.id < u[j].pkt.id
    BY DEF Ordered
  <2>1. CASE i \in 1..Len(s) /\ u[i] = s[i] /\ j \in 1..Len(s) /\ u[j] = s[j]
    BY <1>4, <2>1 DEF Ordered
  <2>2. CASE i \in 1..Len(s) /\ u[i] = s[i] /\ j - Len(s) \in 1..Len(t) /\ u[j] = t[j - Len(s)]
    BY <1>4, <2>2
  <2>3. CASE /\ i - Len(s) \in 1..Len(t) /\ u[i] = t[i - Len(s)]
             /\ j - Len(s) \in 1..Len(t) /\ u[j] = t[j - Len(s)]
    <3>1. i - Len(s) < j - Len(s)
      BY <1>1, <1>2
    <3> QED
      BY <1>4, <2>3, <3>1 DEF Ordered
  <2>4. ~(i > Len(s) /\ j \in 1..Len(s))
    BY <1>1, <1>2
  <2> QED
    BY <1>3, <2>1, <2>2, <2>3, <2>4
<1>5. ASSUME NEW h, Before(s, h), Before(t, h) PROVE Before(u, h)
  BY <1>3, <1>5 DEF Before
<1> QED
  BY <1>4, <1>5 DEF u

LEMMA SettledInIds ==
  ASSUME NEW s
  PROVE  \A i \in 1..Len(s) : s[i].pkt.id \in DIds(s)
BY DEF DIds

LEMMA HeldInIds ==
  ASSUME NEW h
  PROVE  \A i \in 1..Len(h) : h[i].id \in PIds(h)
BY DEF PIds

\* The packet in hand is the youngest.
LEMMA InHandLast ==
  ASSUME LedgerInv, InHand
  PROVE  /\ \A i \in 1..Len(Settled) : Settled[i].pkt.id < cur.id
         /\ \A k \in Keys : \A i \in 1..Len(conns[k].held) : conns[k].held[i].id < cur.id
<1>1. nextId \in Nat /\ cur.id = nextId - 1
  BY DEF LedgerInv, Apart, BufferInv, TypeInv, TypeOK
<1>2. \A id \in DIds(Settled) : id < cur.id
  BY <1>1 DEF LedgerInv, Apart
<1>3. \A k \in Keys : \A id \in PIds(conns[k].held) : id < cur.id
  <2> SUFFICES ASSUME NEW k \in Keys, NEW id \in PIds(conns[k].held) PROVE id < cur.id
    OBVIOUS
  <2>1. id \in 0..(nextId - 1) /\ cur.id \notin PIds(conns[k].held)
    BY DEF LedgerInv, Apart
  <2> QED
    BY <1>1, <2>1
<1> QED
  BY <1>2, <1>3, SettledInIds, HeldInIds

\* What resolve() decides comes after all that was decided of its flow.
LEMMA ResolveOrder ==
  ASSUME LedgerInv, OrderInv, NEW k \in Keys, NEW v \in Verdict, NEW why \in Why,
         NEW t, t = SettleAll(conns[k].held, v, why)
  PROVE  /\ t \in Seq(Decision) /\ Settled \in Seq(Decision)
         /\ Ordered(Settled \o t)
         /\ \A x \in Keys \ {k} : Before(Settled \o t, conns[x].held)
         /\ \A j \in 1..Len(t) : t[j].pkt \in {conns[k].held[i] : i \in 1..Len(conns[k].held)}
<1>0. TypeOK /\ conns[k].held \in Seq(Packet) /\ Settled \in Seq(Decision)
  <2>1. TypeOK /\ answered \in Seq(Decision) /\ decided \in Seq(Decision)
    BY DEF LedgerInv, BufferInv, TypeInv, TypeOK
  <2> QED
    BY <2>1, ConcatProperties DEF TypeOK, Entry, Settled
<1>1. t \in Seq(Decision) /\ Len(t) = Len(conns[k].held)
  BY <1>0, SettleAllType
<1>2. \A i \in 1..Len(t) : t[i].pkt = conns[k].held[i]
  BY <1>1 DEF SettleAll, Settle
<1>3. Ordered(t)
  BY <1>1, <1>2 DEF Ordered, OrderInv, Ascends
<1>4. \A i \in 1..Len(Settled), j \in 1..Len(t) :
        SameFlow(Settled[i].pkt, t[j].pkt) => Settled[i].pkt.id < t[j].pkt.id
  BY <1>1, <1>2 DEF OrderInv, Before
<1>5. Ordered(Settled \o t)
  BY <1>0, <1>1, <1>3, <1>4, ConcatOrdered DEF OrderInv
<1>6. \A x \in Keys \ {k} : Before(t, conns[x].held)
  <2> SUFFICES ASSUME NEW x \in Keys \ {k}, NEW i \in 1..Len(t),
                      NEW j \in 1..Len(conns[x].held), SameFlow(t[i].pkt, conns[x].held[j])
               PROVE  FALSE
    BY DEF Before
  <2>1. KeyOf[t[i].pkt.conn] = k /\ KeyOf[conns[x].held[j].conn] = x
    BY <1>1, <1>2 DEF OrderInv
  <2> QED
    BY <2>1 DEF SameFlow
<1>7. \A x \in Keys \ {k} : Before(Settled \o t, conns[x].held)
  BY <1>0, <1>1, <1>6, ConcatOrdered DEF OrderInv
<1> QED
  BY <1>0, <1>1, <1>2, <1>5, <1>7

\* Lists of no packets, and lists with the packet in hand at the end.
LEMMA EmptyOrder == Ascends(<<>>) /\ Ordered(<<>>) /\ \A s : Before(s, <<>>)
<1>1. Len(<<>>) = 0
  BY EmptySeq
<1> QED
  BY <1>1 DEF Ascends, Ordered, Before

LEMMA StaysOrder ==
  ASSUME OrderInv, Settled' = Settled, \A x \in Keys : conns'[x].held = conns[x].held
  PROVE  OrderInv'
BY DEF OrderInv

LEMMA HoldsOrder ==
  ASSUME LedgerInv, OrderInv, Holds, UNCHANGED <<answered, nextId>>
  PROVE  OrderInv'
<1> DEFINE h == conns[Key].held
           g == Append(h, cur)
<1>0. TypeOK /\ cur \in Packet /\ Key \in Keys /\ h \in Seq(Packet)
  BY KeyType DEF Holds, LedgerInv, BufferInv, TypeInv, TypeOK, Entry
<1>1. Settled' = Settled /\ InHand
  BY DEF Holds, Settled, InHand, LedgerInv, CurSet
<1>2. \A x \in Keys : conns'[x].held = IF x = Key THEN g ELSE conns[x].held
  BY DEF Holds
<1>3. Len(h) \in Nat /\ Len(g) = Len(h) + 1 /\ (\A i \in 1..Len(h) : g[i] = h[i]) /\ g[Len(h) + 1] = cur
  BY <1>0, AppendProperties, LenProperties
<1>4. /\ \A i \in 1..Len(Settled) : Settled[i].pkt.id < cur.id
      /\ \A i \in 1..Len(h) : h[i].id < cur.id
  BY <1>0, <1>1, InHandLast
<1>5. /\ Ascends(h) /\ Before(Settled, h) /\ KeyOf[cur.conn] = Key
      /\ \A i \in 1..Len(h) : KeyOf[h[i].conn] = Key
  BY <1>0 DEF OrderInv, Key
<1> HIDE DEF h, g
<1>6. \A i \in 1..Len(g) : (i \in 1..Len(h) /\ g[i] = h[i]) \/ (i = Len(h) + 1 /\ g[i] = cur)
  BY <1>3
<1>7. Ascends(g)
  <2> SUFFICES ASSUME NEW i \in 1..Len(g), NEW j \in 1..Len(g), i < j PROVE g[i].id < g[j].id
    BY DEF Ascends
  <2>1. i \in 1..Len(h) /\ g[i] = h[i]
    BY <1>3
  <2> QED
    BY <1>4, <1>5, <1>6, <2>1 DEF Ascends
<1>8. Before(Settled, g) /\ \A i \in 1..Len(g) : KeyOf[g[i].conn] = Key
  BY <1>4, <1>5, <1>6 DEF Before
<1> QED
  BY <1>1, <1>2, <1>7, <1>8 DEF OrderInv

LEMMA DecidesOrder ==
  ASSUME LedgerInv, OrderInv, NEW k \in Keys, NEW v \in Verdict, NEW why \in Why,
         Decides(k, v, why), UNCHANGED answered
  PROVE  OrderInv'
<1> DEFINE t == SettleAll(conns[k].held, v, why)
<1>1. /\ t \in Seq(Decision) /\ Ordered(Settled \o t)
      /\ \A x \in Keys \ {k} : Before(Settled \o t, conns[x].held)
  BY ResolveOrder
<1>2. decided' = decided \o t
  BY DEF Decides
<1> HIDE DEF t
<1>3. Settled' = Settled \o t
  BY <1>1, <1>2, SettledGrows DEF LedgerInv, BufferInv, TypeInv
<1>4. Len(<<>>) = 0
  BY EmptySeq
<1>5. \A x \in Keys : conns'[x].held = IF x = k THEN <<>> ELSE conns[x].held
  BY DEF Decides
<1>6. Ordered(Settled') /\ \A x \in Keys \ {k} : Before(Settled', conns[x].held)
  BY <1>1, <1>3
<1> QED
  BY <1>4, <1>5, <1>6, EmptyOrder DEF OrderInv

LEMMA FloodsOrder ==
  ASSUME LedgerInv, OrderInv, Floods, UNCHANGED answered
  PROVE  OrderInv'
<1> DEFINE all == SettleAll(conns[Key].held, "ALLOW", "flood")
           d == Settle(cur, "ALLOW", "flood")
           s == Settled \o all
<1>0. /\ TypeOK /\ cur \in Packet /\ Key \in Keys /\ "ALLOW" \in Verdict /\ "flood" \in Why
      /\ InHand
  BY KeyType DEF Floods, LedgerInv, BufferInv, TypeInv, TypeOK, Verdict, Why, CurSet, InHand
<1>1. /\ all \in Seq(Decision) /\ Settled \in Seq(Decision) /\ Ordered(s)
      /\ \A x \in Keys \ {Key} : Before(s, conns[x].held)
      /\ \A j \in 1..Len(all) :
           all[j].pkt \in {conns[Key].held[i] : i \in 1..Len(conns[Key].held)}
  BY <1>0, ResolveOrder
<1>2. d \in Decision /\ d.pkt = cur
  BY <1>0, SettleType DEF Settle
<1>3. decided' = (decided \o all) \o <<d>> /\ decided \in Seq(Decision) /\ answered \in Seq(Decision)
  BY <1>0 DEF Floods, TypeOK
<1>4. <<d>> \in Seq(Decision) /\ Len(<<d>>) = 1 /\ <<d>>[1] = d
  BY <1>2, SingleIsSeq
<1> HIDE DEF all, d
<1>5. Settled' = s \o <<d>> /\ s \in Seq(Decision)
  <2>1. decided \o all \in Seq(Decision) /\ s \in Seq(Decision)
    BY <1>1, <1>3, ConcatProperties
  <2>2. Settled' = (answered \o (decided \o all)) \o <<d>>
    BY <1>3, <1>4, <2>1, ConcatAssociative DEF Settled
  <2>3. answered \o (decided \o all) = s
    BY <1>1, <1>3, ConcatAssociative DEF Settled
  <2> QED
    BY <2>1, <2>2, <2>3
<1>6. \A i \in 1..Len(s) : s[i].pkt.id < cur.id
  <2> SUFFICES ASSUME NEW i \in 1..Len(s) PROVE s[i].pkt.id < cur.id
    OBVIOUS
  <2>1. /\ \A j \in 1..Len(Settled) : Settled[j].pkt.id < cur.id
        /\ \A j \in 1..Len(conns[Key].held) : conns[Key].held[j].id < cur.id
    BY <1>0, InHandLast
  <2>2. \A j \in 1..Len(all) : all[j].pkt.id < cur.id
    BY <1>1, <2>1
  <2>3. /\ Len(s) = Len(Settled) + Len(all) /\ Len(Settled) \in Nat /\ Len(all) \in Nat
        /\ \A j \in 1..(Len(Settled) + Len(all)) :
             s[j] = IF j <= Len(Settled) THEN Settled[j] ELSE all[j - Len(Settled)]
    BY <1>1, ConcatProperties, LenProperties
  <2>4. i \in 1..Len(Settled) \/ (~(i <= Len(Settled)) /\ i - Len(Settled) \in 1..Len(all))
    BY <2>3
  <2> HIDE DEF s
  <2> QED
    BY <2>1, <2>2, <2>3, <2>4
<1> HIDE DEF s
<1>7. Ordered(Settled')
  <2>1. Ordered(<<d>>)
    BY <1>4 DEF Ordered
  <2>2. \A i \in 1..Len(s), j \in 1..Len(<<d>>) : s[i].pkt.id < <<d>>[j].pkt.id
    BY <1>2, <1>4, <1>6
  <2>3. Ordered(s \o <<d>>)
    BY <1>1, <1>4, <1>5, <2>1, <2>2, ConcatOrdered
  <2> QED
    BY <1>5, <2>3
<1>8. \A x \in Keys \ {Key} : Before(Settled', conns[x].held)
  <2>1. \A x \in Keys \ {Key} : Before(<<d>>, conns[x].held)
    <3> SUFFICES ASSUME NEW x \in Keys \ {Key}, NEW j \in 1..Len(conns[x].held),
                        SameFlow(cur, conns[x].held[j])
                 PROVE  FALSE
      BY <1>2, <1>4 DEF Before
    <3> QED
      BY DEF SameFlow, OrderInv, Key
  <2> QED
    BY <1>1, <1>4, <1>5, <2>1, ConcatOrdered
<1>9. Len(<<>>) = 0
  BY EmptySeq
<1>10. \A x \in Keys : conns'[x].held = IF x = Key THEN <<>> ELSE conns[x].held
  BY DEF Floods
<1> QED
  BY <1>7, <1>8, <1>9, <1>10, EmptyOrder DEF OrderInv

LEMMA PassesOrder ==
  ASSUME LedgerInv, OrderInv, NEW v \in Verdict, NEW why \in Why, Passes(v, why),
         UNCHANGED answered
  PROVE  OrderInv'
<1> DEFINE d == Settle(cur, v, why)
<1>0. TypeOK /\ cur \in Packet /\ InHand /\ decided \in Seq(Decision)
  BY DEF Passes, LedgerInv, BufferInv, TypeInv, TypeOK, CurSet, InHand
<1>1. d \in Decision /\ d.pkt = cur /\ decided' = Append(decided, d)
  BY <1>0, SettleType DEF Settle, Passes
<1> HIDE DEF d
<1>2. <<d>> \in Seq(Decision) /\ Len(<<d>>) = 1 /\ <<d>>[1] = d
  BY <1>1, SingleIsSeq
<1>3. Settled' = Settled \o <<d>> /\ Settled \in Seq(Decision)
  <2>1. decided' = decided \o <<d>>
    BY <1>0, <1>1, AppendIsConcat
  <2> QED
    BY <1>0, <1>2, <2>1, SettledGrows
<1>4. \A i \in 1..Len(Settled) : Settled[i].pkt.id < cur.id
  BY <1>0, InHandLast
<1>5. Ordered(Settled')
  <2>1. Ordered(<<d>>)
    BY <1>2 DEF Ordered
  <2>2. \A i \in 1..Len(Settled), j \in 1..Len(<<d>>) : Settled[i].pkt.id < <<d>>[j].pkt.id
    BY <1>1, <1>2, <1>4
  <2>3. Ordered(Settled \o <<d>>)
    BY <1>2, <1>3, <2>1, <2>2, ConcatOrdered DEF OrderInv
  <2> QED
    BY <1>3, <2>3
<1>6. \A x \in Keys : Before(<<d>>, conns[x].held)
  <2> SUFFICES ASSUME NEW x \in Keys, NEW j \in 1..Len(conns[x].held),
                      SameFlow(cur, conns[x].held[j])
               PROVE  FALSE
    BY <1>1, <1>2 DEF Before
  <2>1. x = Key /\ cur.conn # NoConn /\ cur.seg # 0
    BY DEF SameFlow, OrderInv, Key
  <2>2. conns[x].held = <<>> /\ Len(<<>>) = 0
    BY <2>1, EmptySeq DEF Passes
  <2> QED
    BY <2>2
<1>7. \A x \in Keys : Before(Settled', conns[x].held)
  BY <1>2, <1>3, <1>6, ConcatOrdered DEF OrderInv
<1> QED
  BY <1>5, <1>7 DEF OrderInv, Passes

LEMMA CopiesOrder ==
  ASSUME LedgerInv, OrderInv, Copies, UNCHANGED answered
  PROVE  OrderInv'
<1>0. \A x \in Keys : conns[x].held \in Seq(Packet)
  BY DEF LedgerInv, BufferInv, TypeInv, TypeOK, Entry
<1>1. Settled' = Settled
  BY DEF Copies, Settled
<1>2. \A x \in Keys : Len(conns'[x].held) = Len(conns[x].held)
  BY <1>0, ReleaseType DEF Copies
<1>3. \A x \in Keys : \A i \in 1..Len(conns[x].held) :
        /\ conns'[x].held[i].id = conns[x].held[i].id
        /\ conns'[x].held[i].conn = conns[x].held[i].conn
        /\ conns'[x].held[i].seg = conns[x].held[i].seg
  BY <1>0, ReleaseElements DEF Copies
<1>4. \A k \in Keys : Ascends(conns'[k].held)
  BY <1>2, <1>3 DEF OrderInv, Ascends
<1>5. ASSUME NEW k \in Keys PROVE Before(Settled, conns'[k].held)
  <2>1. Before(Settled, conns[k].held)
    BY DEF OrderInv
  <2>2. ASSUME NEW i \in 1..Len(Settled), NEW h \in 1..Len(conns[k].held)
        PROVE  SameFlow(Settled[i].pkt, conns'[k].held[h])
                 <=> SameFlow(Settled[i].pkt, conns[k].held[h])
    BY <1>3 DEF SameFlow
  <2> QED
    BY <1>2, <1>3, <2>1, <2>2 DEF Before
<1> QED
  BY <1>1, <1>2, <1>3, <1>4, <1>5 DEF OrderInv

LEMMA NextOrder == LedgerInv /\ OrderInv /\ [Next]_vars => OrderInv'
<1> SUFFICES ASSUME LedgerInv, OrderInv, [Next]_vars PROVE OrderInv'
  OBVIOUS
<1>1. CASE Step
  <2>1. Moves
    BY <1>1, StepMoves DEF LedgerInv
  <2>2. CASE Stays
    BY <2>1, <2>2, StaysOrder DEF Stays, Moves, Settled
  <2> QED
    BY <2>1, <2>2, HoldsOrder, DecidesOrder, FloodsOrder, PassesOrder, CopiesOrder DEF Moves
<1>2. CASE Elapse
  <2>1. \A x \in Keys : conns'[x].held = conns[x].held
    BY <1>2, ElapseBuffers DEF LedgerInv
  <2> QED
    BY <1>2, <2>1, StaysOrder DEF Elapse, Settled
<1>3. CASE Tick \/ Flush \/ \E h \in Arrivals : Feed(h)
  BY <1>3, StaysOrder DEF Tick, Flush, Feed, table, Settled
<1>4. CASE Drain
  <2>1. answered \in Seq(Decision) /\ decided \in Seq(Decision)
    BY DEF LedgerInv, BufferInv, TypeInv, TypeOK
  <2>2. answered \o decided \in Seq(Decision)
    BY <2>1, ConcatProperties
  <2>3. Settled' = Settled
    BY <1>4, <2>2, ConcatEmptySeq DEF Drain, Settled
  <2> QED
    BY <1>4, <2>3, StaysOrder DEF Drain, table
<1>5. CASE Finished \/ UNCHANGED vars
  BY <1>5, StaysOrder DEF Finished, vars, Settled
<1> QED
  BY <1>1, <1>2, <1>3, <1>4, <1>5 DEF Next

\* The payload packets of a connection are decided in the order feed() got them,
\* whatever is held back, let go, flooded out, swept or dropped, and even when two
\* connections share a key and are held in one list.
THEOREM FlowsStayInOrder == Spec => []FlowOrderKept
<1>1. Init => OrderInv
  <2> SUFFICES ASSUME Init PROVE OrderInv
    OBVIOUS
  <2>1. \A k \in Keys : conns[k].held = <<>> /\ Len(<<>>) = 0
    BY ConstBounded, EmptySeq DEF Init
  <2>2. Settled = <<>>
    <3>1. <<>> \o <<>> = <<>>
      BY EmptySeq, ConcatEmptySeq
    <3> QED
      BY <3>1 DEF Init, Settled
  <2> QED
    BY <2>1, <2>2, EmptyOrder DEF OrderInv
<1> QED
  BY <1>1, OrderIsKept, LedgerInvAlways, NextOrder, PTL DEF Spec
=============================================================================
