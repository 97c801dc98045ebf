---------------------------- MODULE MCLifecycle ----------------------------
(***************************************************************************)
(* Command lines and limits for module Lifecycle: four queue numbers, a    *)
(* wrap of strtoull() at 32.                                               *)
(***************************************************************************)
EXTENDS Lifecycle, TLC

Opt(text) == [text |-> text, dash |-> TRUE, n |-> NotANumber]
Word(text) == [text |-> text, dash |-> FALSE, n |-> NotANumber]
Number(i) == [text |-> "number", dash |-> i < 0, n |-> i]

MCMaxOf == [o \in Numeric |-> CASE o = "-j" -> 2 [] o = "-nfq" -> 3 [] o = "-rcvbuf" -> 9
                                [] OTHER -> 4]
MCDefaultOf == [o \in Numeric |-> CASE o = "-j" -> 2 [] o = "-rcvbuf" -> 8 [] o = "-pin" -> -1
                                    [] o \in {"-nfq-size", "-pin-stride"} -> 1 [] OTHER -> 0]

\* Command lines that run, with one worker or two, with and without statistics.
Running ==
  {<<>>,
   <<Opt("--stats"), Number(1)>>,
   <<Opt("-j"), Number(2), Opt("-j"), Number(1), Word("list")>>,
   <<Opt("-nfq"), Number(2), Opt("-rcvbuf"), Number(3), Opt("-b"), Opt("-v")>>}

\* Command lines that only parse: every option with numbers at its limits, and not.
Refused ==
  {<<Opt(o), Number(i)>> : o \in Numeric, i \in {-32, -1, 10, 32}}
  \cup {<<Opt("-nfq"), Number(3)>>, <<Opt("-j"), Number(0)>>, <<Opt("-j")>>, <<Opt("-b")>>,
        <<Opt("-pin"), Word("list")>>, <<Opt("-?")>>, <<Opt("-v"), Opt("-h")>>,
        <<Opt("-nfq"), Number(3), Opt("-j"), Number(2)>>,
        <<Opt("-nfq"), Number(2), Opt("--passthrough"), Opt("-j"), Number(3)>>}

\* strtoull() reads -31 as 1 here.
MCArgvs == Running \cup Refused \cup {<<Opt("--stats"), Number(-31), Opt("-j"), Number(-31)>>}
=============================================================================
