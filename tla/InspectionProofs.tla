-------------------------- MODULE InspectionProofs --------------------------
(***************************************************************************)
(* The properties of module Inspection, for every blocklist, every set of  *)
(* cases and every size of the constants.  First the blocklist:            *)
(* isHostnameBlocked() gives the answer its file defines, by the invariant *)
(* of its loop (no parent domain up to the dot the walk is at is a         *)
(* wildcard suffix).  Then the inductive invariant of the inspection: the  *)
(* stream is what was delivered, the answer is what extractHostname() says *)
(* of it, the keys are the connection's, and a packet that was looked at   *)
(* has the views its bytes have.  What the parsers make of those bytes is  *)
(* proved in modules ParserProofs and WireProofs.                          *)
(***************************************************************************)
EXTENDS WireProofs, FiniteSetTheorems

Char == 0..255

\* The loop's invariant.
WalkInv ==
  lpc = "walk" =>
    /\ host \notin Exact
    /\ \A j \in 1..dot : host[j] = Dot => Suffix(j) \notin Wildcard

\* What has been answered.
Parent(h) == \E j \in 1..Len(h) : h[j] = Dot /\ SubSeq(h, j + 1, Len(h)) \in Wildcard
AnswerInv == lpc = "done" => (blocked <=> (host \in Exact \/ Parent(host)))

LookupInv == LTypeOK /\ WalkInv /\ AnswerInv

-----------------------------------------------------------------------------
\* A stripped entry is a string of characters.
LEMMA EntryType == ASSUME NEW e \in Entries PROVE e \in Seq(Char)
  BY LinesAssumption DEF Entries, Char

\* A wildcard's suffix is never empty.
LEMMA WildcardNotEmpty == ASSUME NEW s \in Wildcard PROVE s \in Seq(Char) /\ s # <<>>
<1>1. PICK e \in Entries : IsWildcard(e) /\ s = SubSeq(e, 3, Len(e))
  BY DEF Wildcard
<1>2. e \in Seq(Char) /\ Len(e) > 2
  BY <1>1, EntryType DEF IsWildcard
<1>3. s \in Seq(Char) /\ Len(s) = Len(e) - 2
  BY <1>1, <1>2, SubSeqProperties, LenProperties
<1> QED
  BY <1>2, <1>3, EmptySeq, LenProperties

\* What is left of a hostname from position j on.
LEMMA Rest ==
  ASSUME NEW h \in Seq(Char), NEW j \in 1..(Len(h) + 1)
  PROVE  /\ SubSeq(h, j, Len(h)) \in Seq(Char)
         /\ Len(SubSeq(h, j, Len(h))) = Len(h) - j + 1
         /\ \A i \in 1..(Len(h) - j + 1) : SubSeq(h, j, Len(h))[i] = h[j + i - 1]
<1>1. Len(h) \in Nat /\ j \in Int
  BY LenProperties
<1>2. \A i \in j..Len(h) : h[i] \in Char
  BY <1>1, ElementOfSeq
<1> QED
  BY <1>1, <1>2, SubSeqProperties

\* Ending with a wildcard's text, its dot included, is the same as having its suffix
\* after some dot.
LEMMA EndsAfterDot ==
  ASSUME NEW h \in Seq(Char), NEW e \in Seq(Char), IsWildcard(e)
  PROVE  EndsWith(h, Tail(e)) <=>
           \E j \in 1..Len(h) : h[j] = Dot /\ SubSeq(h, j + 1, Len(h)) = SubSeq(e, 3, Len(e))
<1>1. Len(e) > 2 /\ e[2] = Dot /\ Len(e) \in Nat /\ Len(h) \in Nat
  BY LenProperties DEF IsWildcard
<1>2. PICK t : t = Tail(e)
  OBVIOUS
<1>3. PICK s : s = SubSeq(e, 3, Len(e))
  OBVIOUS
<1>4. t \in Seq(Char) /\ Len(t) = Len(e) - 1 /\ \A i \in 1..(Len(e) - 1) : t[i] = e[i + 1]
  BY <1>1, <1>2, EmptySeq, HeadTailProperties
<1>5. s \in Seq(Char) /\ Len(s) = Len(e) - 2 /\ \A i \in 1..(Len(e) - 2) : s[i] = e[i + 2]
  BY <1>1, <1>3, Rest
<1>6. \A i \in 1..(Len(e) - 2) : s[i] = t[i + 1]
  BY <1>1, <1>4, <1>5
<1>7. t[1] = Dot
  BY <1>1, <1>4
<1>8. ASSUME NEW j \in 1..Len(h), j = Len(h) - Len(t) + 1
      PROVE  SubSeq(h, j, Len(h)) = t <=> h[j] = Dot /\ SubSeq(h, j + 1, Len(h)) = s
  <2>1. PICK u : u = SubSeq(h, j, Len(h))
    OBVIOUS
  <2>2. PICK v : v = SubSeq(h, j + 1, Len(h))
    OBVIOUS
  <2>3. u \in Seq(Char) /\ Len(u) = Len(t) /\ \A i \in 1..Len(t) : u[i] = h[j + i - 1]
    BY <1>1, <1>4, <1>8, <2>1, Rest
  <2>4. v \in Seq(Char) /\ Len(v) = Len(s) /\ \A i \in 1..Len(s) : v[i] = h[j + i]
    <3>1. j + 1 \in 1..(Len(h) + 1) /\ Len(h) - (j + 1) + 1 = Len(s)
      BY <1>1, <1>4, <1>5, <1>8
    <3>2. \A i \in 1..Len(s) : v[i] = h[(j + 1) + i - 1]
      BY <2>2, <3>1, Rest
    <3>3. \A i \in 1..Len(s) : (j + 1) + i - 1 = j + i
      BY <1>1, <1>5
    <3> QED
      BY <2>2, <3>1, <3>2, <3>3, Rest
  <2>5. \A i \in 1..Len(s) : v[i] = u[i + 1] /\ s[i] = t[i + 1]
    BY <1>1, <1>4, <1>5, <1>6, <2>3, <2>4
  <2>6. u[1] = h[j]
    BY <1>1, <1>4, <2>3
  <2>7. ASSUME u = t PROVE h[j] = Dot /\ v = s
    BY <1>5, <1>7, <2>4, <2>5, <2>6, <2>7, SeqEqual
  <2>8. ASSUME h[j] = Dot, v = s PROVE u = t
    <3>1. \A i \in 1..Len(t) : i = 1 \/ (i - 1 \in 1..Len(s) /\ (i - 1) + 1 = i)
      BY <1>1, <1>4, <1>5
    <3>2. \A i \in 1..Len(t) : u[i] = t[i]
      BY <1>7, <2>5, <2>6, <2>8, <3>1
    <3> QED
      BY <1>4, <2>3, <3>2, SeqEqual
  <2> QED
    BY <2>1, <2>2, <2>7, <2>8
<1>9. ASSUME EndsWith(h, t) PROVE \E j \in 1..Len(h) : h[j] = Dot /\ SubSeq(h, j + 1, Len(h)) = s
  <2>1. Len(h) - Len(t) + 1 \in 1..Len(h)
    BY <1>1, <1>4, <1>9 DEF EndsWith
  <2> QED
    BY <1>8, <1>9, <2>1 DEF EndsWith
<1>10. ASSUME NEW j \in 1..Len(h), h[j] = Dot, SubSeq(h, j + 1, Len(h)) = s
       PROVE  EndsWith(h, t)
  <2>1. j + 1 \in 1..(Len(h) + 1)
    BY <1>1
  <2>2. Len(s) = Len(h) - (j + 1) + 1
    BY <1>10, <2>1, Rest
  <2>3. Len(e) - 2 = Len(h) - (j + 1) + 1 /\ Len(t) = Len(e) - 1
    BY <1>4, <1>5, <2>2
  <2>4. j = Len(h) - Len(t) + 1 /\ Len(t) <= Len(h)
    BY <1>1, <2>3
  <2> QED
    BY <1>8, <1>10, <2>4 DEF EndsWith
<1> QED
  BY <1>2, <1>3, <1>9, <1>10

\* The two sets the constructor builds say of a hostname what the file says.
LEMMA ListedIsParent ==
  ASSUME NEW h \in Seq(Char) PROVE Listed(h) <=> h \in Exact \/ Parent(h)
<1>1. Listed(h) <=> \E e \in Entries : Blocks(e, h)
  BY DEF Listed, Entries
<1>2. ASSUME NEW e \in Entries, Blocks(e, h) PROVE h \in Exact \/ Parent(h)
  <2>1. CASE IsWildcard(e)
    <3>1. PICK j \in 1..Len(h) : h[j] = Dot /\ SubSeq(h, j + 1, Len(h)) = SubSeq(e, 3, Len(e))
      BY <1>2, <2>1, EntryType, EndsAfterDot DEF Blocks
    <3> QED
      BY <2>1, <3>1 DEF Parent, Wildcard
  <2>2. CASE ~IsWildcard(e)
    BY <1>2, <2>2 DEF Blocks, Exact
  <2> QED
    BY <2>1, <2>2
<1>3. ASSUME h \in Exact PROVE \E e \in Entries : Blocks(e, h)
  BY <1>3 DEF Exact, Blocks
<1>4. ASSUME Parent(h) PROVE \E e \in Entries : Blocks(e, h)
  <2>1. PICK j \in 1..Len(h) : h[j] = Dot /\ SubSeq(h, j + 1, Len(h)) \in Wildcard
    BY <1>4 DEF Parent
  <2>2. PICK e \in Entries : IsWildcard(e) /\ SubSeq(h, j + 1, Len(h)) = SubSeq(e, 3, Len(e))
    BY <2>1 DEF Wildcard
  <2> QED
    BY <2>1, <2>2, EntryType, EndsAfterDot DEF Blocks
<1> QED
  BY <1>1, <1>2, <1>3, <1>4

-----------------------------------------------------------------------------
\* The loop begins with its invariant.
LEMMA LookupInit == LInit => LookupInv
<1> SUFFICES ASSUME LInit PROVE LookupInv
  OBVIOUS
<1>1. <<>> \in Seq(0..255) /\ Len(<<>>) = 0
  BY EmptySeq
<1>2. lpc = "idle" /\ host = <<>> /\ dot = 0 /\ blocked = FALSE
  BY DEF LInit
<1>3. dot \in 0..Len(host)
  BY <1>1, <1>2
<1>4. LTypeOK
  BY <1>1, <1>2, <1>3 DEF LTypeOK
<1> QED
  BY <1>2, <1>4 DEF LookupInv, WalkInv, AnswerInv

\* The first lookup, in the set of full matches.
LEMMA LookupExactKeeps ==
  ASSUME LookupInv, NEW h \in Seq(0..255), LookupExact(h), dot = 0 PROVE LookupInv'
<1>1. Len(h) \in Nat
  BY LenProperties
<1>2. LTypeOK'
  <2>1. host' = h /\ dot' = 0 /\ lpc' \in {"done", "walk"} /\ (blocked' = TRUE \/ blocked' = blocked)
    BY DEF LookupExact, Answer
  <2>2. dot' \in 0..Len(host')
    BY <1>1, <2>1
  <2>3. blocked \in BOOLEAN
    BY DEF LookupInv, LTypeOK
  <2> QED
    BY <2>1, <2>2, <2>3 DEF LTypeOK
<1>3. WalkInv'
  BY DEF LookupExact, Answer, WalkInv
<1>4. AnswerInv'
  BY DEF LookupExact, Answer, AnswerInv
<1> QED
  BY <1>2, <1>3, <1>4 DEF LookupInv

\* The dots up to the next one are those up to the last one, and the next one.
LEMMA NextDotCovers ==
  ASSUME LTypeOK, NEW j \in 1..Len(host), NextDot(j), NEW i \in 1..j, host[i] = Dot
  PROVE  i \in 1..dot \/ i = j
<1>1. Len(host) \in Nat /\ dot \in Nat
  BY LenProperties DEF LTypeOK
<1> QED
  BY <1>1 DEF NextDot

\* A step of the walk: the parent domain after the next dot is tried.
LEMMA LookupParentKeeps == ASSUME LookupInv, LookupParent PROVE LookupInv'
<1>1. PICK j \in 1..Len(host) :
        /\ NextDot(j)
        /\ IF Suffix(j) = <<>> THEN Answer(FALSE) /\ UNCHANGED dot
           ELSE IF Suffix(j) \in Wildcard THEN Answer(TRUE) /\ UNCHANGED dot
           ELSE dot' = j /\ UNCHANGED <<lpc, blocked>>
  BY DEF LookupParent
<1>2. LTypeOK /\ WalkInv /\ lpc = "walk" /\ host' = host /\ Len(host) \in Nat /\ host[j] = Dot
  BY <1>1, LenProperties DEF LookupInv, LTypeOK, LookupParent, NextDot
<1>3. CASE Suffix(j) = <<>>
  <2>1. j = Len(host)
    <3>1. j + 1 \in 1..(Len(host) + 1)
      BY <1>2
    <3>2. Len(SubSeq(host, j + 1, Len(host))) = Len(host) - (j + 1) + 1
      BY <1>2, <3>1, Rest DEF LTypeOK, Char
    <3> QED
      BY <1>2, <1>3, <3>2, EmptySeq DEF Suffix
  <2>2. ~Parent(host)
    <3>1. SUFFICES ASSUME NEW i \in 1..Len(host), host[i] = Dot PROVE Suffix(i) \notin Wildcard
      BY DEF Parent, Suffix
    <3>2. CASE i \in 1..dot
      BY <1>2, <3>1, <3>2 DEF WalkInv
    <3>3. CASE i = j
      BY <1>3, <3>3, WildcardNotEmpty
    <3> QED
      BY <1>1, <1>2, <2>1, <3>1, <3>2, <3>3, NextDotCovers
  <2> QED
    BY <1>1, <1>2, <1>3, <2>2 DEF LookupInv, LTypeOK, WalkInv, AnswerInv, Answer, Parent
<1>4. CASE Suffix(j) # <<>> /\ Suffix(j) \in Wildcard
  <2>1. Parent(host)
    BY <1>2, <1>4 DEF Parent, Suffix
  <2> QED
    BY <1>1, <1>2, <1>4, <2>1 DEF LookupInv, LTypeOK, WalkInv, AnswerInv, Answer, Parent
<1>5. CASE Suffix(j) # <<>> /\ Suffix(j) \notin Wildcard
  <2>1. dot' = j /\ lpc' = lpc /\ blocked' = blocked
    BY <1>1, <1>5
  <2>2. LTypeOK'
    BY <1>2, <2>1 DEF LTypeOK
  <2>3. WalkInv'
    <3>1. \A i \in 1..j : host[i] = Dot => Suffix(i) \notin Wildcard
      BY <1>1, <1>2, <1>5, NextDotCovers DEF WalkInv
    <3> QED
      BY <1>2, <2>1, <3>1 DEF WalkInv, Suffix
  <2> QED
    BY <1>2, <2>1, <2>2, <2>3 DEF LookupInv, AnswerInv
<1> QED
  BY <1>3, <1>4, <1>5

\* The end of the walk: there is no dot after the last one tried.
LEMMA LookupNoMoreKeeps == ASSUME LookupInv, LookupNoMore PROVE LookupInv'
<1>1. LTypeOK /\ WalkInv /\ lpc = "walk" /\ host' = host /\ dot' = dot /\ lpc' = "done"
      /\ blocked' = FALSE /\ Len(host) \in Nat /\ dot \in Nat
  BY LenProperties DEF LookupInv, LTypeOK, LookupNoMore, Answer
<1>2. ~Parent(host)
  <2>1. SUFFICES ASSUME NEW i \in 1..Len(host), host[i] = Dot PROVE Suffix(i) \notin Wildcard
    BY DEF Parent, Suffix
  <2>2. i \in 1..dot
    BY <1>1, <2>1 DEF LookupNoMore
  <2> QED
    BY <1>1, <2>1, <2>2 DEF WalkInv
<1> QED
  BY <1>1, <1>2 DEF LookupInv, LTypeOK, WalkInv, AnswerInv, Parent

\* isHostnameBlocked() decides the hostname by the file's lines, whatever they are.
THEOREM LookupIsCorrect == LSpec => []LookupCorrect
<1>1. LInit => LookupInv /\ (lpc = "idle" => dot = 0)
  BY LookupInit DEF LInit
<1>2. LookupInv /\ (lpc = "idle" => dot = 0) /\ [LNext]_lvars
        => LookupInv' /\ (lpc = "idle" => dot = 0)'
  <2> SUFFICES ASSUME LookupInv, lpc = "idle" => dot = 0, [LNext]_lvars
               PROVE  LookupInv' /\ (lpc = "idle" => dot = 0)'
    OBVIOUS
  <2>1. CASE \E h \in Seq(0..255) : LookupExact(h)
    <3>1. PICK h \in Seq(0..255) : LookupExact(h)
      BY <2>1
    <3> QED
      BY <3>1, LookupExactKeeps DEF LookupExact, Answer
  <2>2. CASE LookupParent
    BY <2>2, LookupParentKeeps DEF LookupParent, Answer
  <2>3. CASE LookupNoMore
    BY <2>3, LookupNoMoreKeeps DEF LookupNoMore, Answer
  <2>4. CASE UNCHANGED lvars
    BY <2>4 DEF lvars, LookupInv, LTypeOK, WalkInv, AnswerInv, Parent, Suffix
  <2> QED
    BY <2>1, <2>2, <2>3, <2>4 DEF LNext, Lookup
<1>3. LookupInv => LookupCorrect
  BY ListedIsParent DEF LookupInv, LTypeOK, AnswerInv, LookupCorrect, Char
<1> QED
  BY <1>1, <1>2, <1>3, PTL DEF LSpec

-----------------------------------------------------------------------------
\* The inspection.

\* Nothing can be said of an empty stream.
LEMMA EmptyStream == ASSUME NEW j \in Byte PROVE ExtractHostname(Buffer(<<>>, j)) = NeedMore
<1>1. PICK s \in Seq(Byte) : s = <<>> /\ Len(s) = 0
  BY EmptySeq
<1>2. Size(Buffer(s, j)) = 0
  BY <1>1, BufferFields
<1>3. CollectHandshake(Buffer(s, j)) = NeedMore
  BY <1>2, Zenon DEF CollectHandshake
<1>4. NeedMore.res # "Found"
  BY DEF NeedMore
<1> QED
  BY <1>1, <1>3, <1>4, Zenon DEF ExtractHostname

\* flow_view() on a whole packet of the connection.
LEMMA WholeView ==
  ASSUME NEW c, Case(c), NEW e, EncapFits(c, e), NEW payload, NEW n, Str(Byte, payload, n),
         n <= Len(Wire(c)), NEW from \in Hosts, NEW to \in Hosts, NEW j \in Byte
  PROVE  LET v == FlowViewOf(Buffer(PacketBytes(e, from, to, payload), j))
         IN /\ v.ok \in BOOLEAN
            /\ v.ok <=> Dissectable(e)
            /\ v.ok => /\ v.flow.key = ConnKey(e.proto, HostHash(e, from), HostHash(e, to))
                       /\ v.flow.ip_proto = e.proto
<1> DEFINE b == PacketBytes(e, from, to, payload)
<1>1. /\ Str(Byte, Unpadded(e, from, to, payload), UnpaddedLen(e, n)) /\ b \in Seq(Byte)
      /\ b = Unpadded(e, from, to, payload) \o e.pad
  BY PacketType
<1>2. e.pad \in Seq(Byte)
  BY EncapType
<1>3. PICK k \in Nat : k = Len(b) /\ k >= UnpaddedLen(e, n) /\ k \in 0..Len(b)
  <2> DEFINE u == Unpadded(e, from, to, payload)
  <2>1. u \in Seq(Byte) /\ Len(u) = UnpaddedLen(e, n) /\ UnpaddedLen(e, n) \in Nat
    BY <1>1 DEF Str
  <2> HIDE DEF u, b
  <2>2. Len(b) = Len(u) + Len(e.pad) /\ Len(e.pad) \in Nat /\ Len(b) \in Nat
    BY <1>1, <1>2, <2>1, Cat, LenProperties DEF u
  <2> QED
    BY <2>1, <2>2
<1>4. SubSeq(b, 1, k) = b
  <2> HIDE DEF b
  <2>1. PICK d : d = SubSeq(b, 1, k)
    OBVIOUS
  <2>2. d \in Seq(Byte) /\ Len(d) = k /\ \A i \in 1..k : d[i] = b[i]
    <3>1. \A i \in 1..k : b[i] \in Byte
      BY <1>1, <1>3, ElementOfSeq
    <3> QED
      BY <1>3, <2>1, <3>1, SubSeqProperties
  <2> QED
    BY <1>1, <1>3, <2>1, <2>2, SeqEqual
<1> DEFINE v == FlowViewOf(Buffer(SubSeq(b, 1, k), j))
<1>5. /\ v.ok \in BOOLEAN
      /\ k >= UnpaddedLen(e, n) => (v.ok <=> Dissectable(e))
      /\ v.ok => /\ v.flow.key = ConnKey(e.proto, HostHash(e, from), HostHash(e, to))
                 /\ v.flow.ip_proto = e.proto
  BY <1>3, FlowViewOfPacket
<1>6. v = FlowViewOf(Buffer(b, j))
  BY <1>4, Zenon
<1> HIDE DEF v
<1> QED
  BY <1>3, <1>5, <1>6

-----------------------------------------------------------------------------
\* The inductive invariant, in parts.

\* The stream has what was delivered, if packets of the case are inspected at all.
Delivered ==
  /\ case \in Cases /\ wire = Wire(case) /\ sent \in 0..Len(wire)
  /\ stream = IF Inspected THEN SubSeq(wire, 1, sent) ELSE <<>>

\* The answer is of the whole stream.
AnswerOfStream == answer = ExtractHostname(Buffer(stream, 0))

\* The key of the case's connection.
CaseKey(e) == ConnKey(e.proto, HostHash(e, Client), HostHash(e, Server))
KeysOfCase == keys \subseteq {CaseKey(case.encap)}

\* A packet that was looked at has the views of its bytes.
Views(p, n) == {FlowViewOf(Buffer(SubSeq(p, 1, n), j)) : j \in Junk}
CasePacket(c) == PacketBytes(c.encap, Client, Server, Wire(c))
ViewsOfCut ==
  \/ cut = NotCut
  \/ \E n \in 0..Len(CasePacket(case)) : cut = [size |-> n, views |-> Views(CasePacket(case), n)]

\* The lookup is of the name that was found.
AskedName ==
  /\ lpc = "idle" => dot = 0
  /\ lpc # "idle" => answer.res = "Found" /\ host = answer.bytes

\* The verdict follows from the answer, and from the lookup if a name was found.
VerdictOfAnswer ==
  verdict # "none" =>
    IF answer.res = "Found" THEN lpc = "done" /\ verdict = IF blocked THEN "BLOCK" ELSE "ALLOW"
    ELSE verdict = "ALLOW" /\ (answer = NeedMore => Len(stream) > MaxStreamBytes)

IInv == Delivered /\ AnswerOfStream /\ KeysOfCase /\ ViewsOfCut /\ AskedName /\ VerdictOfAnswer
        /\ LookupInv

\* What is known of the case.
LEMMA CaseFacts ==
  ASSUME NEW c \in Cases
  PROVE  Case(c) /\ EncapFits(c, c.encap) /\ Wire(c) \in Seq(Byte) /\ Len(Wire(c)) \in Nat
<1>1. HelloFits(c.hello) /\ RecordsFit(c) /\ EncapFits(c, c.encap)
  BY CasesAssumption, Zenon
<1>2. Case(c)
  BY <1>1 DEF Case
<1> QED
  BY <1>1, <1>2, WireType

\* What is known of the stream and of the answer.
LEMMA StreamFacts ==
  ASSUME Delivered, AnswerOfStream
  PROVE  /\ stream \in Seq(Byte) /\ answer \in Answers
         /\ \A j \in Byte : ExtractHostname(Buffer(stream, j)) = answer
<1>1. 0 \in Byte
  BY DEF Byte
<1>2. stream \in Seq(Byte)
  <2>1. CASE Inspected
    <3>1. stream = SubSeq(wire, 1, sent) /\ wire = Wire(case) /\ case \in Cases /\ sent \in 0..Len(wire)
      BY <2>1 DEF Delivered
    <3>2. wire \in Seq(Byte) /\ Len(wire) \in Nat
      BY <3>1, CaseFacts
    <3>3. sent \in Nat /\ sent <= Len(wire)
      BY <3>1, <3>2
    <3> QED
      BY <1>1, <3>1, <3>2, <3>3, PrefixExtends
  <2>2. CASE ~Inspected
    BY <2>2, EmptySeq DEF Delivered
  <2> QED
    BY <2>1, <2>2
<1>3. answer = ExtractHostname(Buffer(stream, 0))
  BY DEF AnswerOfStream
<1>4. answer \in Answers
  BY <1>1, <1>2, <1>3, BufferFields, ExtractType
<1> QED
  BY <1>1, <1>2, <1>3, <1>4, ExtractReadsItsBytes

\* The invariant holds when nothing was delivered.
LEMMA IInitInv == IInit => IInv
<1> SUFFICES ASSUME IInit PROVE IInv
  OBVIOUS
<1>1. /\ case \in Cases /\ wire = Wire(case) /\ sent = 0 /\ stream = <<>> /\ answer = NeedMore
      /\ verdict = "none" /\ keys = {} /\ cut = NotCut /\ LInit
  BY DEF IInit
<1>2. Delivered
  <2>1. wire \in Seq(Byte) /\ Len(wire) \in Nat
    BY <1>1, CaseFacts
  <2>2. SubSeq(wire, 1, 0) = <<>>
    BY SubSeqEmpty
  <2>3. sent \in 0..Len(wire)
    BY <1>1, <2>1
  <2> QED
    BY <1>1, <2>2, <2>3 DEF Delivered
<1>3. AnswerOfStream
  <2>1. 0 \in Byte
    BY DEF Byte
  <2> QED
    BY <1>1, <2>1, EmptyStream DEF AnswerOfStream
<1>4. KeysOfCase /\ ViewsOfCut /\ VerdictOfAnswer
  BY <1>1 DEF KeysOfCase, ViewsOfCut, VerdictOfAnswer
<1>5. AskedName
  BY <1>1 DEF AskedName, LInit
<1> QED
  BY <1>1, <1>2, <1>3, <1>4, <1>5, LookupInit DEF IInv

\* The next segment.
LEMMA DeliverKeeps == ASSUME IInv, Deliver PROVE IInv'
<1>1. /\ Delivered /\ AnswerOfStream /\ KeysOfCase /\ ViewsOfCut /\ AskedName /\ VerdictOfAnswer
      /\ LookupInv /\ Undecided
      /\ UNCHANGED <<case, wire, cut, lvars>>
  BY DEF IInv, Deliver
<1>2. /\ case \in Cases /\ wire = Wire(case) /\ sent \in Nat /\ sent < Len(wire)
      /\ Case(case) /\ EncapFits(case, case.encap) /\ wire \in Seq(Byte) /\ Len(wire) \in Nat
  <2>1. case \in Cases /\ wire = Wire(case) /\ sent \in 0..Len(wire) /\ sent < Len(wire)
    BY <1>1 DEF Delivered, Deliver
  <2>2. Case(case) /\ EncapFits(case, case.encap) /\ wire \in Seq(Byte) /\ Len(wire) \in Nat
    BY <2>1, CaseFacts
  <2> QED
    BY <2>1, <2>2
<1>3. PICK k \in SegLens, junk \in Junk :
       LET n    == IF sent + k < Len(wire) THEN sent + k ELSE Len(wire)
           part == SubSeq(wire, sent + 1, n)
           view == FlowViewOf(Buffer(PacketBytes(case.encap, Client, Server, part), junk))
           more == stream \o part
           got  == ExtractHostname(Buffer(more, junk))
       IN /\ sent' = n
          /\ IF ~view.ok \/ view.flow.ip_proto # Tcp
             THEN UNCHANGED <<stream, answer, verdict, keys>>
             ELSE /\ keys' = keys \cup {view.flow.key}
                  /\ stream' = more
                  /\ answer' = got
                  /\ verdict' = IF \/ got.res = "NotFound"
                                   \/ got.res = "NeedMore" /\ Len(more) > MaxStreamBytes
                                THEN "ALLOW" ELSE "none"
  BY Zenon DEF Deliver
<1> DEFINE n    == IF sent + k < Len(wire) THEN sent + k ELSE Len(wire)
           part == SubSeq(wire, sent + 1, n)
           view == FlowViewOf(Buffer(PacketBytes(case.encap, Client, Server, part), junk))
           more == stream \o part
           got  == ExtractHostname(Buffer(more, junk))
<1>4. /\ sent' = n
      /\ IF ~view.ok \/ view.flow.ip_proto # Tcp
         THEN UNCHANGED <<stream, answer, verdict, keys>>
         ELSE /\ keys' = keys \cup {view.flow.key}
              /\ stream' = more
              /\ answer' = got
              /\ verdict' = IF \/ got.res = "NotFound"
                               \/ got.res = "NeedMore" /\ Len(more) > MaxStreamBytes
                            THEN "ALLOW" ELSE "none"
  BY <1>3, Zenon
<1>5. k \in Nat /\ junk \in Byte
  BY InspectionAssumption
<1>6. n \in Nat /\ sent <= n /\ n <= Len(wire)
  BY <1>2, <1>5
<1> HIDE DEF n
<1>7. /\ SubSeq(wire, 1, sent) \o part = SubSeq(wire, 1, n)
      /\ Str(Byte, part, n - sent) /\ Str(Byte, SubSeq(wire, 1, n), n)
  BY <1>2, <1>6, Joined
<1>8. Client \in Hosts /\ Server \in Hosts /\ n - sent <= Len(Wire(case))
  <2>1. n - sent <= Len(wire)
    BY <1>2, <1>6
  <2> QED
    BY <1>2, <2>1 DEF Hosts
<1> HIDE DEF part
<1>9. /\ view.ok \in BOOLEAN
      /\ view.ok <=> Dissectable(case.encap)
      /\ view.ok => view.flow.key = CaseKey(case.encap) /\ view.flow.ip_proto = case.encap.proto
  BY <1>2, <1>5, <1>7, <1>8, WholeView DEF CaseKey
<1> HIDE DEF view
<1>10. Inspected' = Inspected /\ (Inspected <=> view.ok /\ view.flow.ip_proto = Tcp)
  BY <1>1, <1>9 DEF Inspected
<1>11. ViewsOfCut' /\ LookupInv'
  BY <1>1, Zenon DEF ViewsOfCut, LookupInv, LTypeOK, WalkInv, AnswerInv, Parent, Suffix, lvars, CasePacket, Views
<1>12. lpc = "idle" /\ AskedName'
  <2>1. lpc = "idle"
    BY <1>1 DEF AskedName, Undecided, NeedMore
  <2> QED
    BY <1>1, <2>1 DEF AskedName, lvars
<1>13. sent' \in 0..Len(wire) /\ case' = case /\ wire' = wire
  BY <1>1, <1>2, <1>4, <1>6
<1>14. CASE ~Inspected
  <2>1. UNCHANGED <<stream, answer, verdict, keys>>
    BY <1>4, <1>9, <1>10, <1>14, Zenon
  <2>2. Delivered'
    BY <1>1, <1>10, <1>13, <1>14, <2>1 DEF Delivered
  <2>3. AnswerOfStream' /\ KeysOfCase' /\ VerdictOfAnswer'
    BY <1>1, <2>1, Zenon DEF AnswerOfStream, KeysOfCase, VerdictOfAnswer, Undecided
  <2> QED
    BY <1>11, <1>12, <2>2, <2>3 DEF IInv
<1>15. CASE Inspected
  <2>1. /\ keys' = keys \cup {view.flow.key} /\ stream' = more /\ answer' = got
        /\ verdict' = IF \/ got.res = "NotFound"
                         \/ got.res = "NeedMore" /\ Len(more) > MaxStreamBytes
                      THEN "ALLOW" ELSE "none"
    BY <1>4, <1>10, <1>15, Zenon
  <2>2. stream = SubSeq(wire, 1, sent)
    BY <1>1, <1>15 DEF Delivered
  <2>3. more = SubSeq(wire, 1, n) /\ more \in Seq(Byte)
    BY <1>7, <2>2 DEF Str
  <2>4. stream' = SubSeq(wire', 1, sent')
    BY <1>4, <1>13, <2>1, <2>3
  <2>5. Delivered'
    BY <1>2, <1>10, <1>13, <1>15, <2>4 DEF Delivered
  <2> HIDE DEF more
  <2>6. 0 \in Byte
    BY DEF Byte
  <2>7. got = ExtractHostname(Buffer(more, 0)) /\ got \in Answers
    BY <1>5, <2>3, <2>6, BufferFields, ExtractType, ExtractReadsItsBytes
  <2>8. AnswerOfStream'
    BY <2>1, <2>7 DEF AnswerOfStream
  <2>9. view.flow.key = CaseKey(case.encap)
    BY <1>9, <1>10, <1>15
  <2>10. KeysOfCase'
    <3>1. \A x \in keys' : x = CaseKey(case.encap)
      BY <1>1, <2>1, <2>9 DEF KeysOfCase
    <3> QED
      BY <1>13, <3>1 DEF KeysOfCase
  <2> HIDE DEF got
  <2>11. VerdictOfAnswer'
    <3>1. MaxStreamBytes' = MaxStreamBytes /\ answer' = got /\ stream' = more
      BY <2>1
    <3>2. ASSUME verdict' # "none"
          PROVE  /\ got.res # "Found" /\ verdict' = "ALLOW"
                 /\ got = NeedMore => Len(more) > MaxStreamBytes
      BY <2>1, <3>2 DEF NeedMore
    <3> QED
      BY <3>1, <3>2 DEF VerdictOfAnswer
  <2> QED
    BY <1>11, <1>12, <2>5, <2>8, <2>10, <2>11 DEF IInv
<1> QED
  BY <1>14, <1>15

\* The blocklist is asked about the name that was found.
LEMMA AskKeeps == ASSUME IInv, Ask PROVE IInv'
<1>1. /\ Delivered /\ AnswerOfStream /\ KeysOfCase /\ ViewsOfCut /\ AskedName /\ VerdictOfAnswer
      /\ LookupInv /\ verdict = "none" /\ answer.res = "Found" /\ LookupExact(answer.bytes)
      /\ UNCHANGED <<case, wire, sent, stream, answer, verdict, keys, cut>>
  BY DEF IInv, Ask
<1>2. answer.bytes \in Seq(0..255)
  <2>1. answer \in Answers
    BY <1>1, StreamFacts
  <2>2. PICK b \in Seq(Byte) : answer = Found(b)
    BY <1>1, <2>1 DEF Answers, NeedMore, NotFound
  <2> QED
    BY <2>2 DEF Found, Byte
<1>3. lpc = "idle" /\ host' = answer.bytes /\ dot' = dot /\ dot = 0 /\ lpc' # "idle"
  BY <1>1 DEF LookupExact, Answer, AskedName
<1>4. LookupInv'
  BY <1>1, <1>2, <1>3, LookupExactKeeps
<1>5. Delivered' /\ AnswerOfStream' /\ KeysOfCase' /\ ViewsOfCut'
  <2>1. UNCHANGED <<case, wire, sent, stream, answer, keys, cut>>
    BY <1>1
  <2>2. Delivered' /\ AnswerOfStream' /\ KeysOfCase'
    BY <1>1, <2>1 DEF Delivered, AnswerOfStream, KeysOfCase, Inspected
  <2>3. ViewsOfCut'
    BY <1>1, <2>1 DEF ViewsOfCut, CasePacket, Views
  <2> QED
    BY <2>2, <2>3
<1>6. AskedName' /\ VerdictOfAnswer'
  BY <1>1, <1>3 DEF AskedName, VerdictOfAnswer
<1> QED
  BY <1>4, <1>5, <1>6 DEF IInv

\* A step of the lookup.
LEMMA WalkKeeps == ASSUME IInv, Walk PROVE IInv'
<1>1. /\ Delivered /\ AnswerOfStream /\ KeysOfCase /\ ViewsOfCut /\ AskedName /\ VerdictOfAnswer
      /\ LookupInv /\ Lookup
      /\ UNCHANGED <<case, wire, sent, stream, answer, verdict, keys, cut>>
  BY DEF IInv, Walk
<1>2. LookupInv'
  BY <1>1, LookupParentKeeps, LookupNoMoreKeeps DEF Lookup
<1>3. lpc = "walk" /\ host' = host /\ lpc' \in {"walk", "done"}
  BY <1>1 DEF Lookup, LookupParent, LookupNoMore, Answer
<1>4. verdict = "none"
  BY <1>1, <1>3 DEF VerdictOfAnswer, AskedName
<1>5. Delivered' /\ AnswerOfStream' /\ KeysOfCase' /\ ViewsOfCut'
  BY <1>1, Zenon DEF Delivered, AnswerOfStream, KeysOfCase, ViewsOfCut, Inspected, CasePacket, Views
<1>6. AskedName' /\ VerdictOfAnswer'
  BY <1>1, <1>3, <1>4 DEF AskedName, VerdictOfAnswer
<1> QED
  BY <1>2, <1>5, <1>6 DEF IInv

\* The verdict on the name.
LEMMA ConcludeKeeps == ASSUME IInv, Conclude PROVE IInv'
<1>1. /\ Delivered /\ AnswerOfStream /\ KeysOfCase /\ ViewsOfCut /\ AskedName /\ VerdictOfAnswer
      /\ LookupInv /\ lpc = "done" /\ verdict' = (IF blocked THEN "BLOCK" ELSE "ALLOW")
      /\ UNCHANGED <<case, wire, sent, stream, answer, keys, cut, lvars>>
  BY DEF IInv, Conclude
<1>2. Delivered' /\ AnswerOfStream' /\ KeysOfCase' /\ ViewsOfCut'
  BY <1>1, Zenon DEF Delivered, AnswerOfStream, KeysOfCase, ViewsOfCut, Inspected, CasePacket, Views
<1>3. AskedName' /\ VerdictOfAnswer'
  BY <1>1 DEF AskedName, VerdictOfAnswer, lvars
<1>4. LookupInv'
  BY <1>1 DEF LookupInv, LTypeOK, WalkInv, AnswerInv, Parent, Suffix, lvars
<1> QED
  BY <1>2, <1>3, <1>4 DEF IInv

\* A packet of the server.
LEMMA ReplyKeeps == ASSUME IInv, Reply PROVE IInv'
<1> DEFINE view == FlowViewOf(Buffer(PacketBytes(case.encap, Server, Client, <<>>), 0))
<1>1. /\ Delivered /\ AnswerOfStream /\ KeysOfCase /\ ViewsOfCut /\ AskedName /\ VerdictOfAnswer
      /\ LookupInv /\ UNCHANGED <<case, wire, sent, stream, answer, verdict, cut, lvars>>
      /\ keys' = IF view.ok THEN keys \cup {view.flow.key} ELSE keys
  BY Zenon DEF IInv, Reply
<1>2. /\ Case(case) /\ EncapFits(case, case.encap) /\ Len(Wire(case)) \in Nat
      /\ Client \in Hosts /\ Server \in Hosts
  BY <1>1, CaseFacts DEF Delivered, Hosts
<1>3. view.ok => view.flow.key = CaseKey(case.encap)
  <2>1. PICK s \in Seq(Byte), n \in Nat : s = <<>> /\ n = 0 /\ Str(Byte, s, n)
    BY EmptySeq DEF Str
  <2>2. n <= Len(Wire(case)) /\ 0 \in Byte
    BY <1>2, <2>1 DEF Byte
  <2> DEFINE a == HostHash(case.encap, Server)
             b == HostHash(case.encap, Client)
             v == FlowViewOf(Buffer(PacketBytes(case.encap, Server, Client, s), 0))
  <2>3. v.ok => v.flow.key = ConnKey(case.encap.proto, a, b)
    BY <1>2, <2>1, <2>2, WholeView
  <2>4. a \in Nat /\ b \in Nat
    BY <1>2, HostHashType
  <2>5. v = view
    BY <2>1, Zenon
  <2> HIDE DEF v, view
  <2> QED
    BY <2>3, <2>4, <2>5, ConnKeySymmetric DEF CaseKey
<1> HIDE DEF view
<1>4. KeysOfCase'
  <2>1. \A x \in keys' : x = CaseKey(case.encap)
    BY <1>1, <1>3 DEF KeysOfCase
  <2> QED
    BY <1>1, <2>1 DEF KeysOfCase
<1>5. Delivered' /\ AnswerOfStream' /\ ViewsOfCut'
  BY <1>1, Zenon DEF Delivered, AnswerOfStream, ViewsOfCut, Inspected, CasePacket, Views
<1>6. VerdictOfAnswer' /\ AskedName'
  BY <1>1 DEF VerdictOfAnswer, AskedName, lvars
<1>7. LookupInv'
  BY <1>1 DEF LookupInv, LTypeOK, WalkInv, AnswerInv, Parent, Suffix, lvars
<1> QED
  BY <1>4, <1>5, <1>6, <1>7 DEF IInv

\* A packet of which only the first bytes were captured.
LEMMA LookAtCutKeeps == ASSUME IInv, LookAtCut PROVE IInv'
<1>1. /\ Delivered /\ AnswerOfStream /\ KeysOfCase /\ ViewsOfCut /\ AskedName /\ VerdictOfAnswer
      /\ LookupInv /\ UNCHANGED <<case, wire, sent, stream, answer, verdict, keys, lvars>>
      /\ wire = Wire(case)
  BY DEF IInv, LookAtCut, Delivered
<1>2. PICK p : p = PacketBytes(case.encap, Client, Server, wire)
  OBVIOUS
<1>3. PICK n \in 0..Len(p) :
        cut' = [size |-> n, views |-> {FlowViewOf(Buffer(SubSeq(p, 1, n), j)) : j \in Junk}]
  BY <1>2, Zenon DEF LookAtCut
<1>4. p = CasePacket(case) /\ CasePacket(case)' = CasePacket(case)
  BY <1>1, <1>2, Zenon DEF CasePacket
<1>5. ViewsOfCut'
  BY <1>3, <1>4, Zenon DEF ViewsOfCut, Views
<1>6. Delivered' /\ AnswerOfStream' /\ KeysOfCase'
  BY <1>1, Zenon DEF Delivered, AnswerOfStream, KeysOfCase, Inspected
<1>7. VerdictOfAnswer' /\ AskedName'
  BY <1>1 DEF VerdictOfAnswer, AskedName, lvars
<1>8. LookupInv'
  BY <1>1 DEF LookupInv, LTypeOK, WalkInv, AnswerInv, Parent, Suffix, lvars
<1> QED
  BY <1>5, <1>6, <1>7, <1>8 DEF IInv

\* It depends on the variables of the specification only.
LEMMA IStutter == ASSUME IInv, UNCHANGED ivars PROVE IInv'
<1>1. UNCHANGED <<case, wire, sent, stream, answer, verdict, keys, cut>> /\ UNCHANGED lvars
  BY DEF ivars
<1>2. Delivered' /\ AnswerOfStream' /\ KeysOfCase' /\ ViewsOfCut'
  BY <1>1, Zenon DEF IInv, Delivered, AnswerOfStream, KeysOfCase, ViewsOfCut, Inspected, CasePacket, Views
<1>3. VerdictOfAnswer' /\ AskedName'
  BY <1>1 DEF IInv, VerdictOfAnswer, AskedName, lvars
<1>4. LookupInv'
  BY <1>1 DEF IInv, LookupInv, LTypeOK, WalkInv, AnswerInv, Parent, Suffix, lvars
<1> QED
  BY <1>2, <1>3, <1>4 DEF IInv

\* The invariant holds in every state of every behaviour: Deliver keeps the stream and the
\* answer together, the lookup is of the name in the answer, and no other step disturbs either.
THEOREM IInvariant == ISpec => []IInv
<1>1. IInv /\ [INext]_ivars => IInv'
  <2> SUFFICES ASSUME IInv, [INext]_ivars PROVE IInv'
    OBVIOUS
  <2>1. CASE Deliver
    BY <2>1, DeliverKeeps
  <2>2. CASE Ask
    BY <2>2, AskKeeps
  <2>3. CASE Walk
    BY <2>3, WalkKeeps
  <2>4. CASE Conclude
    BY <2>4, ConcludeKeeps
  <2>5. CASE Reply
    BY <2>5, ReplyKeeps
  <2>6. CASE LookAtCut
    BY <2>6, LookAtCutKeeps
  <2>7. CASE Finished
    BY <2>7, IStutter DEF Finished
  <2>8. CASE UNCHANGED ivars
    BY <2>8, IStutter
  <2> QED
    BY <2>1, <2>2, <2>3, <2>4, <2>5, <2>6, <2>7, <2>8 DEF INext
<1> QED
  BY IInitInv, <1>1, PTL DEF ISpec

-----------------------------------------------------------------------------
\* A set of which all members are equal has at most one.
LEMMA AtMostOne ==
  ASSUME NEW S, \A x, y \in S : x = y PROVE Cardinality(S) <= 1
<1>1. CASE S = {}
  BY <1>1, FS_EmptySet
<1>2. CASE S # {}
  <2>1. PICK x : x \in S
    BY <1>2
  <2>2. S = {x}
    BY <2>1
  <2> QED
    BY <2>2, FS_Singleton
<1> QED
  BY <1>1, <1>2

\* The views of a packet's first bytes are of a sequence of bytes.
LEMMA CutFacts ==
  ASSUME NEW c \in Cases, NEW n \in 0..Len(CasePacket(c))
  PROVE  SubSeq(CasePacket(c), 1, n) \in Seq(Byte)
<1> DEFINE p == CasePacket(c)
<1>1. p \in Seq(Byte)
  <2>1. Str(Byte, Wire(c), Len(Wire(c))) /\ Len(Wire(c)) <= Len(Wire(c))
    BY CaseFacts DEF Str
  <2>2. Client \in Hosts /\ Server \in Hosts
    BY DEF Hosts
  <2> QED
    BY <2>1, <2>2, CaseFacts, PacketType DEF CasePacket
<1> HIDE DEF p
<1>2. n \in Nat /\ n <= Len(p) /\ 0 \in Byte
  BY <1>1, LenProperties DEF p, Byte
<1>3. SubSeq(p, 1, n) \in Seq(Byte)
  BY <1>1, <1>2, PrefixExtends
<1> QED
  BY <1>3 DEF p

\* Views and answers do not depend on the junk.
LEMMA ReadsItsBytes == ASSUME IInv PROVE OnlyReadsItsBytes
<1>1. Delivered /\ AnswerOfStream /\ ViewsOfCut /\ case \in Cases
  BY DEF IInv, Delivered
<1>2. Junk \subseteq Byte
  BY InspectionAssumption
<1>3. \A j \in Junk : ExtractHostname(Buffer(stream, j)) = answer
  BY <1>1, <1>2, StreamFacts
<1>4. \A x, y \in cut.views : x = y
  <2>1. CASE cut = NotCut
    BY <2>1 DEF NotCut
  <2>2. CASE cut # NotCut
    <3>1. PICK n \in 0..Len(CasePacket(case)) :
            cut = [size |-> n, views |-> Views(CasePacket(case), n)]
      BY <1>1, <2>2 DEF ViewsOfCut
    <3>2. PICK s \in Seq(Byte) : s = SubSeq(CasePacket(case), 1, n)
      BY <1>1, CutFacts
    <3>3. cut.views = {FlowViewOf(Buffer(s, j)) : j \in Junk}
      BY <3>1, <3>2 DEF Views
    <3> QED
      BY <1>2, <3>3, FlowViewReadsItsBytes
  <2> QED
    BY <2>1, <2>2
<1> QED
  BY <1>3, <1>4, AtMostOne DEF OnlyReadsItsBytes

\* "Every read is bounds checked": what extractHostname() and flow_view() return does
\* not depend on the memory after the bytes they are given, in any state of any case.
THEOREM ReadsOnlyItsBytes == ISpec => []OnlyReadsItsBytes
  BY IInvariant, ReadsItsBytes, PTL

\* The stream extends what the answer was given on.
LEMMA FinalAnswer == ASSUME IInv PROVE AnswerFinal
<1>1. SUFFICES ASSUME answer # NeedMore PROVE ExtractHostname(Buffer(wire, 0)) = answer
  BY DEF AnswerFinal
<1>2. Delivered /\ AnswerOfStream
  BY DEF IInv
<1>3. answer = ExtractHostname(Buffer(stream, 0)) /\ 0 \in Byte
  BY <1>2 DEF AnswerOfStream, Byte
<1>4. stream = SubSeq(wire, 1, sent)
  <2>1. Inspected
    <3>1. SUFFICES ASSUME ~Inspected PROVE FALSE
      OBVIOUS
    <3>2. stream = <<>>
      BY <1>2, <3>1 DEF Delivered
    <3> QED
      BY <1>1, <1>3, <3>2, EmptyStream
  <2> QED
    BY <1>2, <2>1 DEF Delivered
<1>5. wire \in Seq(Byte) /\ Len(wire) \in Nat
  BY <1>2, CaseFacts DEF Delivered
<1>6. sent \in Nat /\ sent <= Len(wire)
  BY <1>2, <1>5 DEF Delivered
<1>7. Extends(Buffer(stream, 0), Buffer(wire, 0))
  BY <1>3, <1>4, <1>5, <1>6, PrefixExtends
<1> QED
  BY <1>1, <1>3, <1>7, ExtractFinal

\* The answer on a stream is final, for streams of any length, damaged ones included:
\* no byte that comes later, or came in the same segment, changes it.
THEOREM AnswersAreFinal == ISpec => []AnswerFinal
  BY IInvariant, FinalAnswer, PTL

\* Packets have the key of the connection.
LEMMA OneKey == ASSUME IInv PROVE OneKeyPerConnection
<1>1. \A x, y \in keys : x = y
  BY DEF IInv, KeysOfCase
<1> QED
  BY <1>1, AtMostOne DEF OneKeyPerConnection

\* All packets of a connection have one flow key, the replies included, over IPv4 and
\* IPv6, TCP and UDP, whatever options and extension headers the packets carry.
THEOREM ConnectionHasOneKey == ISpec => []OneKeyPerConnection
  BY IInvariant, OneKey, PTL

\* isHostnameBlocked(), asked about the names the inspection finds, is right about them.
THEOREM InspectionLooksUp == ISpec => []LookupCorrect
<1>1. IInv => LookupCorrect
  BY ListedIsParent DEF IInv, LookupInv, LTypeOK, AnswerInv, LookupCorrect, Char
<1> QED
  BY <1>1, IInvariant, PTL

\* A view of a packet, cut or not, has the payload of the packet.
LEMMA FoundPayload == ASSUME IInv PROVE PayloadFound
<1>1. Delivered /\ ViewsOfCut /\ case \in Cases /\ wire = Wire(case)
  BY DEF IInv, Delivered
<1>2. SUFFICES ASSUME NEW v \in cut.views
               PROVE  LET p == Unpadded(case.encap, Client, Server, wire)
                          all == cut.size >= Len(p)
                      IN /\ all => v.ok = Dissectable(case.encap)
                         /\ v.ok => /\ v.flow.payload + v.flow.payload_len <= cut.size
                                    /\ SubSeq(p, v.flow.payload + 1, v.flow.payload + v.flow.payload_len)
                                         = SubSeq(wire, 1, v.flow.payload_len)
                                    /\ all => v.flow.payload_len = Len(wire)
  BY DEF PayloadFound
<1>3. cut # NotCut
  BY <1>2 DEF NotCut
<1>4. PICK k \in 0..Len(CasePacket(case)) :
        cut = [size |-> k, views |-> Views(CasePacket(case), k)]
  BY <1>1, <1>3 DEF ViewsOfCut
<1>5. cut.size = k /\ cut.views = Views(CasePacket(case), k)
  BY <1>4
<1>6. PICK j \in Junk : v = FlowViewOf(Buffer(SubSeq(CasePacket(case), 1, k), j))
  BY <1>2, <1>5 DEF Views
<1> DEFINE e == case.encap
           p == Unpadded(e, Client, Server, wire)
           n == Len(wire)
<1>7. /\ Case(case) /\ EncapFits(case, e) /\ Str(Byte, wire, n) /\ n \in Nat /\ n <= Len(Wire(case))
      /\ Client \in Hosts /\ Server \in Hosts /\ j \in Byte
  BY <1>1, CaseFacts, InspectionAssumption DEF Str, Hosts
<1>8. CasePacket(case) = PacketBytes(e, Client, Server, wire)
  BY <1>1, Zenon DEF CasePacket
<1>9. Len(p) = UnpaddedLen(e, n)
  BY <1>7, PacketType DEF Str
<1> DEFINE all == k >= UnpaddedLen(e, n)
           l == v.flow.payload_len
           o == v.flow.payload
<1>10. /\ v.ok \in BOOLEAN
       /\ all => (v.ok <=> Dissectable(e))
       /\ v.ok => /\ o = Head4or6(e) + L4Head(e) /\ l \in Nat /\ o + l <= k
                  /\ all => l = n
  <2> DEFINE V == FlowViewOf(Buffer(SubSeq(PacketBytes(e, Client, Server, wire), 1, k), j))
  <2>1. k \in 0..Len(PacketBytes(e, Client, Server, wire))
    BY <1>8
  <2>2. /\ V.ok \in BOOLEAN
        /\ all => (V.ok <=> Dissectable(e))
        /\ V.ok => /\ V.flow.payload = Head4or6(e) + L4Head(e) /\ V.flow.payload_len \in Nat
                   /\ V.flow.payload + V.flow.payload_len <= k
                   /\ all => V.flow.payload_len = n
    <3> HIDE DEF e, n
    <3> QED
      BY <1>7, <2>1, FlowViewOfPacket
  <2>3. v = V
    BY <1>6, <1>8, Zenon
  <2> HIDE DEF V
  <2> QED
    BY <2>2, <2>3
<1>11. ASSUME v.ok PROVE SubSeq(p, o + 1, o + l) = SubSeq(wire, 1, l)
  <2>1. /\ o = Head4or6(e) + L4Head(e) /\ l \in Nat /\ o + l <= k
        /\ all => l = n
    BY <1>10, <1>11
  <2>2. l \in 0..n
    <3>1. Head4or6(e) \in Nat /\ L4Head(e) \in Nat
      <4>1. Chain(e)
        BY <1>7, EncapType
      <4> QED
        BY <1>7, <4>1, HeadType
    <3>2. UnpaddedLen(e, n) = o + n /\ o \in Nat /\ k \in Int
      BY <1>7, <2>1, <3>1 DEF UnpaddedLen
    <3>3. n \in Nat
      BY <1>7
    <3> HIDE DEF e, n, l, o
    <3> QED
      BY <2>1, <3>2, <3>3
  <2> HIDE DEF e, n, l, o
  <2> QED
    BY <1>7, <2>1, <2>2, PayloadBytes
<1>12. Dissectable(e) \in BOOLEAN
  BY DEF Dissectable
<1>13. cut.size >= Len(p) <=> all
  BY <1>5, <1>9
<1> HIDE DEF p, n, l, o, all
<1>14. /\ cut.size >= Len(p) => v.ok = Dissectable(e)
       /\ v.ok => /\ o + l <= cut.size
                  /\ SubSeq(p, o + 1, o + l) = SubSeq(wire, 1, l)
                  /\ cut.size >= Len(p) => l = n
  BY <1>5, <1>10, <1>11, <1>12, <1>13
<1> QED
  BY <1>14 DEF p, n, l, o

\* flow_view() finds the transport payload of a packet, whatever precedes it, and of a
\* packet cut short anywhere the part that is left; it finds nothing in a packet it has
\* to leave alone.
THEOREM PayloadIsFound == ISpec => []PayloadFound
  BY IInvariant, FoundPayload, PTL

\* What is known of an inspected stream that was not damaged.
LEMMA IntactStream ==
  ASSUME IInv, Intact, Inspected
  PROVE  /\ answer # NeedMore => Says(case.hello, answer)
         /\ case.hello.type = 1 =>
              \A k \in DOMAIN case.ends :
                Start(case, k) < Len(Message(case.hello))
                  /\ sent < Len(Message(case.hello)) + k * RecordHeader => answer = NeedMore
         /\ sent = Len(wire) => answer # NeedMore
<1>1. Delivered /\ AnswerOfStream
  BY DEF IInv
<1>2. case \in Cases /\ wire = Wire(case) /\ stream = SubSeq(wire, 1, sent) /\ sent \in 0..Len(wire)
  BY <1>1 DEF Delivered
<1>3. Case(case) /\ Len(wire) \in Nat /\ case.flip.at = 0
  BY <1>2, CaseFacts DEF Intact
<1>4. sent \in Nat /\ sent <= Len(Wire(case)) /\ 0 \in Byte
  BY <1>2, <1>3 DEF Byte
<1>5. answer = ExtractHostname(Buffer(SubSeq(Wire(case), 1, sent), 0))
  BY <1>1, <1>2 DEF AnswerOfStream
<1> QED
  BY <1>2, <1>3, <1>4, <1>5, ExtractOfStream

\* The extractor waits for the whole hello.
LEMMA WholeHello == ASSUME IInv PROVE WaitsForWholeHello
<1>1. SUFFICES ASSUME Intact, case.hello.type = 1, Inspected
               PROVE  /\ \A k \in DOMAIN case.ends :
                           Start(case, k) < Len(Message(case.hello))
                             /\ sent < Len(Message(case.hello)) + k * RecordHeader => answer = NeedMore
                      /\ sent = Len(wire) => answer # NeedMore
  BY DEF WaitsForWholeHello
<1> QED
  BY <1>1, IntactStream

\* As long as part of a ClientHello is missing the extractor waits for more, and no longer:
\* for hellos of every length, in records and segments of every size.
THEOREM ExtractorWaits == ISpec => []WaitsForWholeHello
  BY IInvariant, WholeHello, PTL

\* The verdict is that on the name in the hello.
LEMMA HelloVerdict == ASSUME IInv PROVE VerdictOfHello
<1>1. SUFFICES ASSUME verdict # "none", Intact, Len(stream) <= MaxStreamBytes
               PROVE  verdict = IF \E n \in ServerName(case.hello) : Listed(n) THEN "BLOCK" ELSE "ALLOW"
  BY DEF VerdictOfHello
<1>2. Delivered /\ AnswerOfStream /\ AskedName /\ VerdictOfAnswer /\ LookupInv
  BY DEF IInv
<1>3. stream \in Seq(Byte) /\ Len(stream) \in Nat /\ MaxStreamBytes \in Nat
  BY <1>2, StreamFacts, LenProperties, InspectionAssumption
<1>4. answer # NeedMore
  <2>1. SUFFICES ASSUME answer = NeedMore PROVE FALSE
    OBVIOUS
  <2>2. answer.res # "Found"
    BY <2>1 DEF NeedMore
  <2>3. Len(stream) > MaxStreamBytes
    BY <1>1, <1>2, <2>1, <2>2 DEF VerdictOfAnswer
  <2> QED
    BY <1>1, <1>3, <2>3
<1>5. Inspected
  <2>1. SUFFICES ASSUME ~Inspected PROVE FALSE
    OBVIOUS
  <2>2. stream = <<>> /\ answer = ExtractHostname(Buffer(stream, 0)) /\ 0 \in Byte
    BY <1>2, <2>1 DEF Delivered, AnswerOfStream, Byte
  <2> QED
    BY <1>4, <2>2, EmptyStream
<1>6. Says(case.hello, answer)
  BY <1>1, <1>4, <1>5, IntactStream
<1>7. CASE answer = NotFound /\ ServerName(case.hello) = {}
  <2>1. answer.res # "Found"
    BY <1>7 DEF NotFound
  <2> QED
    BY <1>1, <1>2, <1>7, <2>1 DEF VerdictOfAnswer
<1>8. ASSUME NEW b \in Seq(Byte), answer = Found(b), ServerName(case.hello) = {b}
      PROVE  verdict = IF \E n \in ServerName(case.hello) : Listed(n) THEN "BLOCK" ELSE "ALLOW"
  <2>1. answer.res = "Found" /\ answer.bytes = b
    BY <1>8 DEF Found
  <2>2. lpc = "done" /\ verdict = IF blocked THEN "BLOCK" ELSE "ALLOW"
    BY <1>1, <1>2, <2>1 DEF VerdictOfAnswer
  <2>3. host = b
    BY <1>2, <2>1, <2>2 DEF AskedName
  <2>4. blocked <=> Listed(host)
    BY <1>2, <2>2, ListedIsParent DEF LookupInv, LTypeOK, AnswerInv, Char
  <2>5. (\E n \in ServerName(case.hello) : Listed(n)) <=> Listed(b)
    BY <1>8
  <2> QED
    BY <2>2, <2>3, <2>4, <2>5
<1> QED
  BY <1>6, <1>7, <1>8 DEF Says

\* The verdict on a connection is the blocklist's on the name in its hello: for every
\* blocklist and every well-formed hello, in records and segments of every size, over
\* every encapsulation.
THEOREM VerdictIsOfHello == ISpec => []VerdictOfHello
  BY IInvariant, HelloVerdict, PTL
=============================================================================
