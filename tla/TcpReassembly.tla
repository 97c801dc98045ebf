--------------------------- MODULE TcpReassembly ---------------------------
(***************************************************************************)
(* EXTERNAL.  What the extractor uses of PcapPlusPlus's                    *)
(* pcpp::TcpReassembly, for one direction of one connection: the firewall  *)
(* rules queue client-to-server packets only, so the other side of a       *)
(* connection never reaches the reassembler.                               *)
(*                                                                         *)
(* The bytes a client sends are cut into segments 1, 2, ..., MaxSeg; the   *)
(* sequence number of a segment is its index.  Packet p carries segment    *)
(* p.seg, or no payload when p.seg = 0, and the flags p.syn, p.fin, p.rst. *)
(*                                                                         *)
(* A connection that ended or was closed stays in the connection map for   *)
(* ClosedDelay time units, and until then every packet of it is ignored.   *)
(***************************************************************************)
EXTENDS Integers, Sequences, FiniteSets

CONSTANTS MaxSeg,       \* segments of a client's byte stream
          ClosedDelay   \* closed connections younger than this are not purged

ASSUME MaxSegAssumption == MaxSeg \in Nat
ASSUME ClosedDelayAssumption == ClosedDelay \in Nat

Segs == 1..MaxSeg

\* Stands for the text "[n bytes missing]" pcpp puts where a hole was.
Missing == 0

ReassemblyState ==
  [phase : {"none", "open", "closed"}, \* in the connection map?  closed?
   next  : 0..(MaxSeg + 1),            \* next segment expected, 0: no baseline yet
   ooo   : SUBSET Segs,                \* out-of-order segments kept back
   fin   : BOOLEAN,                    \* this side has sent FIN or RST
   age   : 0..ClosedDelay,             \* time since it closed, saturating
   again : BOOLEAN]                    \* history: this 5-tuple was closed before

NoState == [phase |-> "none", next |-> 0, ooo |-> {}, fin |-> FALSE, age |-> 0,
            again |-> FALSE]

\* The callbacks one call of reassemblePacket() makes, in order.
Event == [kind : {"start", "message", "end"}, data : Seq(0..MaxSeg)]

Start      == [kind |-> "start", data |-> <<>>]
Message(d) == [kind |-> "message", data |-> d]
End        == [kind |-> "end", data |-> <<>>]

\* The buffered segments that follow on from segment n without a hole.
RunFrom(ooo, n) == {i \in n..MaxSeg : \A j \in n..i : j \in ooo}

\* Segment seg of st's stream: delivered in order together with the buffered
\* segments it connects to, kept back, or ignored as a retransmission.
Deliver(st, seg) ==
  IF st.next = 0 \/ seg = st.next
  THEN LET n == 1 + Cardinality(RunFrom(st.ooo, seg + 1))
       IN [st |-> [st EXCEPT !.next = seg + n, !.ooo = {i \in st.ooo : i > seg + n}],
           events |-> [i \in 1..n |-> Message(<<seg + i - 1>>)]]
  ELSE [st |-> IF seg > st.next THEN [st EXCEPT !.ooo = @ \cup {seg}] ELSE st,
        events |-> <<>>]

\* The one way to list a set of segments in order (a set, so that it has a member
\* only if there is one).
Ascending(S) ==
  {f \in [1..Cardinality(S) -> S] : \A i, j \in 1..Cardinality(S) : i < j => f[i] < f[j]}

\* FIN or RST: the segments still kept back, in the order rest, are delivered with
\* the holes marked, and what the side sends later is ignored.  RST also ends the
\* connection; a FIN of one side alone does not.
Finish(st, rst, rest) ==
  LET Expected(i) == IF i = 1 THEN st.next ELSE rest[i - 1] + 1
  IN [st |-> [st EXCEPT !.ooo = {}, !.fin = TRUE,
                        !.phase = IF rst THEN "closed" ELSE @, !.again = @ \/ rst],
      events |-> [i \in 1..Len(rest) |->
                    Message(IF rest[i] = Expected(i)
                            THEN <<rest[i]>> ELSE <<Missing, rest[i]>>)]
                 \o (IF rst THEN <<End>> ELSE <<>>)]

\* What payload and SYN do: a SYN sets the baseline.
Absorb(st, p) ==
  IF p.seg # 0 THEN Deliver(st, p.seg)
  ELSE [st |-> IF p.syn /\ st.next = 0 THEN [st EXCEPT !.next = 1] ELSE st, events |-> <<>>]

AbsorbAndFinish(st, p) ==
  LET d == Absorb(st, p)
  IN {[st |-> Finish(d.st, p.rst, rest).st,
       events |-> d.events \o Finish(d.st, p.rst, rest).events] : rest \in Ascending(d.st.ooo)}

\* A packet of a connection that is in the map and not closed: the one element is
\* the connection's next state and the callbacks made.
Process(st, p) ==
  IF st.fin
  THEN {IF p.rst THEN [st |-> [st EXCEPT !.phase = "closed", !.again = TRUE],
                       events |-> <<End>>]
        ELSE [st |-> st, events |-> <<>>]}
  ELSE IF p.fin \/ p.rst THEN AbsorbAndFinish(st, p) ELSE {Absorb(st, p)}

\* reassemblePacket()
Reassemble(st, p) ==
  CASE st.phase = "none" ->
         {[st |-> r.st, events |-> <<Start>> \o r.events] :
             r \in Process([st EXCEPT !.phase = "open"], p)}
    [] st.phase = "open" -> Process(st, p)
    [] st.phase = "closed" -> {[st |-> st, events |-> <<>>]}

\* closeConnection(): a no-op on a connection that is closed or unknown.
CloseConnection(st) ==
  IF st.phase = "open"
  THEN [st EXCEPT !.phase = "closed", !.ooo = {}, !.again = TRUE] ELSE st

\* purgeClosedConnections()
Purge(st) == IF st.phase = "closed" /\ st.age >= ClosedDelay
            THEN [NoState EXCEPT !.again = TRUE] ELSE st

\* One unit of time passes.
Age(st) == IF st.phase = "closed" /\ st.age < ClosedDelay THEN [st EXCEPT !.age = @ + 1] ELSE st
=============================================================================
