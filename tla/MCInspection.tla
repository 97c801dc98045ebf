---------------------------- MODULE MCInspection ----------------------------
(***************************************************************************)
(* The cases of module Inspection that TLC checks, with a short random     *)
(* (RandomLen) and small limits, so that a hello has some thirty bytes and *)
(* every place to cut it can be tried.                                     *)
(***************************************************************************)
EXTENDS Inspection, TLC

a == 97
b == 98
c == 99
Sp == 32
CR == 13

\* "*.b" with stray blanks, "c", a comment, a blank line, and a bare "*.".
MCLines == {<<Star, Dot, Sp, b, CR>>, <<Sp, c>>, <<Hash, a>>, <<Sp>>, <<Star, Dot>>}
MCJunk == {0, 255}
MCSegLens == {1, 3, 60}

\* Hostnames on both sides of every distinction the list makes.
Names == {<<a, Dot, b>>, <<b>>, <<a, b>>, <<c, Dot, a, Dot, b>>, <<Dot, b>>, <<b, Dot, a>>,
          <<c>>, <<a, Dot, c>>, <<c, Dot>>, <<a, Dot, b, Dot>>, <<Hash, a>>, <<Star, Dot>>, <<>>}

Sni(name) == [type |-> 0, names |-> <<[type |-> 0, name |-> name]>>]
Other(type, name) == [type |-> type, names |-> <<[type |-> 0, name |-> name]>>]
TwoNames(first, name) ==
  [type |-> 0, names |-> <<[type |-> 1, name |-> first], [type |-> 0, name |-> name]>>]
Hello(sid, exts) == [type |-> 1, sid |-> sid, exts |-> exts, rest |-> <<>>]

Blocked == <<a, Dot, b>>
Plain == Hello(<<>>, <<Sni(Blocked)>>)

Hellos ==
  {Plain,
   Hello(<<7, 7>>, <<Other(16, <<c>>), Sni(Blocked)>>),    \* session id, another extension first
   Hello(<<>>, <<TwoNames(<<c>>, Blocked)>>),              \* an entry that is no host_name first
   Hello(<<>>, <<TwoNames(Blocked, <<a>>)>>),
   Hello(<<>>, <<Other(16, Blocked)>>),                    \* no server_name
   Hello(<<>>, <<>>),                                      \* no extensions
   [Plain EXCEPT !.type = 2],                              \* a ServerHello
   [Plain EXCEPT !.rest = <<2, 0, 0>>]}                    \* another message behind it

\* Longer than the stream may grow.
Long == Hello(Zeros(12), <<Other(16, <<c>>), Sni(Blocked)>>)

NoFlip == [at |-> 0, to |-> 0]
Encap(version, proto, exts, frag, sized, pad) ==
  [version |-> version, proto |-> proto, exts |-> exts, frag |-> frag, sized |-> sized, pad |-> pad]
Tcp4 == Encap(4, Tcp, <<>>, 0, TRUE, <<>>)
Encaps ==
  {Encap(4, proto, <<>>, 0, sized, <<>>) : proto \in {Tcp, Udp, 1}, sized \in BOOLEAN}
  \cup {Encap(4, Tcp, <<0, 0>>, 0, TRUE, Zeros(6)), Encap(4, Tcp, <<>>, 3, TRUE, <<>>),
        Encap(4, Udp, <<0>>, 0, TRUE, Zeros(6))}
  \cup {Encap(6, proto, exts, 0, sized, <<>>) :
          proto \in {Tcp, Udp}, sized \in BOOLEAN,
          exts \in {<<>>, <<HopByHop, Fragment>>, <<Routing, Mobility>>}}
  \cup {Encap(6, Tcp, <<DestOpts, Fragment>>, 1, TRUE, <<>>),
        Encap(6, Tcp, <<Fragment>>, 0, TRUE, Zeros(6)),
        Encap(6, Tcp, <<59>>, 0, TRUE, <<>>),
        Encap(6, Tcp, [i \in 1..7 |-> Fragment], 0, TRUE, <<>>),
        Encap(6, Tcp, [i \in 1..8 |-> Fragment], 0, TRUE, <<>>)}

\* A record ends after each position in cuts.
Case(h, cuts, flip, e) ==
  [hello |-> h, flip |-> flip, encap |-> e,
   ends |-> SetToSortSeq(cuts \cup {Len(Message(h) \o h.rest)}, <)]
Ends(h) == 1..(Len(Message(h) \o h.rest) - 1)

\* Every name; every hello in one record or two; one hello in three; a byte of it
\* overwritten, in one record and in two; and over every kind of packet.
MCCases ==
  {Case(Hello(<<>>, <<Sni(n)>>), {}, NoFlip, Tcp4) : n \in Names}
  \cup UNION {{Case(h, cuts, NoFlip, Tcp4) : cuts \in {{}} \cup {{i} : i \in Ends(h)}} : h \in Hellos}
  \cup {Case(Plain, {i, j}, NoFlip, Tcp4) : i \in {1, 4}, j \in Ends(Plain)}
  \cup {Case(Plain, cuts, [at |-> i, to |-> v], Tcp4) :
          cuts \in {{}, {3}}, i \in 1..(Len(Message(Plain)) + 5), v \in {0, 2, 255}}
  \cup {Case(Long, cuts, NoFlip, Tcp4) : cuts \in {{}, {30}}}
  \cup {Case(Plain, {}, NoFlip, e) : e \in Encaps}
=============================================================================
