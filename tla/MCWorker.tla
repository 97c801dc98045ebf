------------------------------ MODULE MCWorker ------------------------------
(***************************************************************************)
(* Instances of the worker for TLC.                                        *)
(***************************************************************************)
EXTENDS Worker, TLC

CONSTANTS conA, conB, evil, good

Pkt(x, syn, fin, rst, seg) == [conn |-> x, syn |-> syn, fin |-> fin, rst |-> rst, seg |-> seg]
Syn(x) == Pkt(x, TRUE, FALSE, FALSE, 0)
Data(x, n) == Pkt(x, FALSE, FALSE, FALSE, n)
Rst(x) == Pkt(x, FALSE, FALSE, TRUE, 0)

\* conA's ClientHello takes two segments and names a blocked host; conB is not TLS.
MCConns == {conA, conB}
MCKeyOf == conA :> 1 @@ conB :> 2
MCHelloLen == conA :> 2 @@ conB :> 0
MCOpenSegs == conA :> {1} @@ conB :> {}
MCHostOf == conA :> evil @@ conB :> NoHost
MCArrivals == {Data(conA, 1), Data(conA, 2), Syn(conB), Data(conB, 1)}
=============================================================================
