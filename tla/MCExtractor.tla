---------------------------- MODULE MCExtractor ----------------------------
(***************************************************************************)
(* Instances of the extractor for TLC.  Each cfg picks its connections,    *)
(* what their clients may send, and the limits.                            *)
(***************************************************************************)
EXTENDS ExtractorProps, TLC

CONSTANTS conA, conB, conC, conD, evil, good

Pkt(x, syn, fin, rst, seg) == [conn |-> x, syn |-> syn, fin |-> fin, rst |-> rst, seg |-> seg]
Syn(x) == Pkt(x, TRUE, FALSE, FALSE, 0)
Ack(x) == Pkt(x, FALSE, FALSE, FALSE, 0)
Fin(x) == Pkt(x, FALSE, TRUE, FALSE, 0)
Rst(x) == Pkt(x, FALSE, FALSE, TRUE, 0)
Data(x, n) == Pkt(x, FALSE, FALSE, FALSE, n)
DataFin(x, n) == Pkt(x, FALSE, TRUE, FALSE, n)
Junk == Ack(NoConn)

Numbered == conA :> 1 @@ conB :> 2 @@ conC :> 3 @@ conD :> 4

\* One connection, conA, whose ClientHello names a blocked host and takes two
\* segments, each a TLS record of its own.
OneConn == {conA}
OneKey == {1}
OneKeyOf == conA :> 1
OneHelloLen == conA :> 2
OneOpenSegs == conA :> {1, 2}
OneHostOf == conA :> evil
OneArrivals == {Syn(conA), Rst(conA), Fin(conA), Data(conA, 1), Data(conA, 2), Data(conA, 3)}

\* Four connections with ClientHellos of one segment; all but conD name a blocked host.
FourConns == {conA, conB, conC, conD}
FourKeys == 1..4
FourHelloLen == conA :> 1 @@ conB :> 1 @@ conC :> 1 @@ conD :> 1
FourOpenSegs == conA :> {1} @@ conB :> {1} @@ conC :> {1} @@ conD :> {1}
FourHostOf == conA :> evil @@ conB :> evil @@ conC :> evil @@ conD :> good
FourArrivals == {Data(conA, 1), Data(conB, 1), Data(conC, 1), Data(conD, 1), Syn(conA), Syn(conC), Syn(conD)}

\* Two connections with one key: conA names a blocked host, conB does not.
TwoConns == {conA, conB}
SharedKeyOf == conA :> 1 @@ conB :> 1
TwoHelloLen == conA :> 2 @@ conB :> 1
TwoOpenSegs == conA :> {1} @@ conB :> {1}
TwoHostOf == conA :> evil @@ conB :> good
TwoArrivals == {Syn(conA), Rst(conA), Data(conA, 1), Data(conA, 2), DataFin(conA, 2), Ack(conB), Data(conB, 1), DataFin(conB, 1), Junk}

\* One allowed connection whose client sends a handshake record, segment 2, after
\* its ClientHello (as TLS 1.2 clients do: ClientKeyExchange).
LaterHelloLen == conA :> 1
LaterOpenSegs == conA :> {1, 2}
LaterHostOf == conA :> good
LaterArrivals == {Syn(conA), Data(conA, 1), Data(conA, 2)}

\* Two connections to blocked hosts; the key of conA is zero.
ZeroKeyOf == conA :> 0 @@ conB :> 1
ZeroHelloLen == conA :> 1 @@ conB :> 1
ZeroHostOf == conA :> evil @@ conB :> evil
ZeroArrivals == {Data(conA, 1), Data(conB, 1)}

\* Two blocked flows and room for one.
PairKeyOf == conA :> 1 @@ conB :> 2
=============================================================================
