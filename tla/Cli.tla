-------------------------------- MODULE Cli --------------------------------
(***************************************************************************)
(* cli::parse() (src/cli.cpp) and Config (include/config.hpp): from argv   *)
(* to the configuration, an argument a step, and what main() derives from  *)
(* it: the number of workers, their queue numbers, their share of the      *)
(* receive buffer.                                                         *)
(*                                                                         *)
(* An argument is its text, whether it begins with a dash, and the number  *)
(* it spells; usage and error messages are left out.  The options that     *)
(* take a number differ only in their range, a constant here so that the   *)
(* limits can be small.                                                    *)
(***************************************************************************)
EXTENDS Integers, Sequences

CONSTANTS
  Argvs,          \* the command lines: sequences of arguments
  MaxOf,          \* the largest value of each numeric option
  QueueSpace,     \* 65536: a queue number is a uint16_t
  UllSpace,       \* 2^64: strtoull() returns an unsigned long long
  BufferFloor,    \* kFloor, 1 MiB
  DefaultOf,      \* Config's initializers
  NotANumber      \* of an argument that spells no number

Numeric == {"-j", "-nfq", "-nfq-size", "-max-blocked", "-pin", "-pin-stride", "-rcvbuf", "--stats"}
MinOf == [o \in Numeric |-> IF o \in {"-nfq", "-pin", "--stats"} THEN 0 ELSE 1]

ASSUME CliAssumption ==
  /\ QueueSpace \in Nat \ {0} /\ UllSpace \in Nat /\ BufferFloor \in Nat \ {0}
  /\ MaxOf \in [Numeric -> Nat] /\ DefaultOf \in [Numeric -> Int]
  /\ DefaultOf["-j"] \in 1..MaxOf["-j"] /\ DefaultOf["-nfq"] \in 0..MaxOf["-nfq"]
  /\ DefaultOf["-rcvbuf"] \in 1..MaxOf["-rcvbuf"]
  /\ NotANumber \notin Int
  /\ \A v \in Argvs : v \in Seq([text : STRING, dash : BOOLEAN, n : Int \cup {NotANumber}])

VARIABLES
  argv,        \* the arguments not looked at yet
  num,         \* Config: the numeric fields, by option
  path,        \* blocklist_path
  flags,       \* verbose, passthrough
  parsed       \* "no" until parse() has returned, then "run" or the exit code

cvars == <<argv, num, path, flags, parsed>>

CInit ==
  /\ argv \in Argvs
  /\ num = DefaultOf /\ path = "blocklist.txt" /\ flags = {} /\ parsed = "no"

-----------------------------------------------------------------------------
\* parse_uint(): strtoull() negates in its unsigned type, and reports (ERANGE) digits
\* that do not fit in it, whatever their sign.
ParseUint(o, arg) ==
  LET v == IF arg.n >= 0 THEN arg.n ELSE UllSpace + arg.n
  IN IF /\ arg.n # NotANumber /\ arg.n \in (1 - UllSpace)..(UllSpace - 1)
        /\ v \in MinOf[o]..MaxOf[o]
     THEN v ELSE NotANumber

Parsing == parsed = "no" /\ argv # <<>>
Text == Head(argv).text

\* Message and usage on stderr, exit code 2.
Fail == parsed' = "exit2" /\ UNCHANGED <<argv, num, path, flags>>

Help ==
  /\ Parsing /\ Text \in {"-h", "--help"}
  /\ parsed' = "exit0"
  /\ UNCHANGED <<argv, num, path, flags>>

NumericOption ==
  /\ Parsing /\ Text \in Numeric
  /\ LET v == ParseUint(Text, argv[2])
     IN IF Len(argv) < 2 THEN Fail
        ELSE IF v = NotANumber THEN Fail
        ELSE /\ num' = [num EXCEPT ![Text] = v]
             /\ argv' = SubSeq(argv, 3, Len(argv))
             /\ UNCHANGED <<path, flags, parsed>>

PathOption ==
  /\ Parsing /\ Text = "-b"
  /\ IF Len(argv) < 2 THEN Fail
     ELSE /\ path' = argv[2].text
          /\ argv' = SubSeq(argv, 3, Len(argv))
          /\ UNCHANGED <<num, flags, parsed>>

Flags == {"-v", "--verbose", "--passthrough"}
FlagOption ==
  /\ Parsing /\ Text \in Flags
  /\ flags' = flags \cup {IF Text = "-v" THEN "--verbose" ELSE Text}
  /\ argv' = Tail(argv)
  /\ UNCHANGED <<num, path, parsed>>

Known == Numeric \cup Flags \cup {"-h", "--help", "-b"}

UnknownOption == Parsing /\ Text \notin Known /\ Head(argv).dash /\ Fail

Positional ==
  /\ Parsing /\ Text \notin Known /\ ~Head(argv).dash
  /\ path' = Text
  /\ argv' = Tail(argv)
  /\ UNCHANGED <<num, flags, parsed>>

-----------------------------------------------------------------------------
\* Config's derived values.

WorkerCount == IF num["-j"] > 0 THEN num["-j"] ELSE 1
LastQueueNum == (num["-nfq"] + WorkerCount - 1) % QueueSpace
QueueNum(i) == (num["-nfq"] + i) % QueueSpace      \* main(): static_cast<uint16_t>(queue_num + i)

RecvBufPerWorker ==
  LET share == num["-rcvbuf"] \div WorkerCount
  IN IF share < BufferFloor THEN BufferFloor ELSE share

\* (mutant) The first queue is checked, the last is not.
ParsedFirstOnly ==
  /\ parsed = "no" /\ argv = <<>>
  /\ IF num["-nfq"] > QueueSpace - 1 THEN Fail ELSE parsed' = "run" /\ UNCHANGED <<argv, num, path, flags>>

\* The end of the loop: every worker's queue number has to fit.
Parsed ==
  /\ parsed = "no" /\ argv = <<>>
  /\ IF num["-nfq"] + WorkerCount - 1 > QueueSpace - 1 THEN Fail
     ELSE parsed' = "run" /\ UNCHANGED <<argv, num, path, flags>>

Parse ==
  \/ Help \/ NumericOption \/ PathOption \/ FlagOption \/ UnknownOption \/ Positional
  \/ Parsed

CSpec == CInit /\ [][Parse]_cvars

-----------------------------------------------------------------------------
QueuesFit ==
  /\ \A i, j \in 0..(WorkerCount - 1) : i # j => QueueNum(i) # QueueNum(j)
  /\ {QueueNum(i) : i \in 0..(WorkerCount - 1)} = num["-nfq"]..LastQueueNum

BufferShared ==
  /\ RecvBufPerWorker >= BufferFloor
  /\ RecvBufPerWorker > BufferFloor => RecvBufPerWorker * WorkerCount <= num["-rcvbuf"]

\* Whatever the command line, in whatever order its options come, when main() goes on
\* to run with it: the workers get queue numbers of their own, none of them wrapped
\* around the 16 bits, and the range the banner prints for the firewall rule
\* (first..last) is exactly the range that is bound; the workers' receive buffers
\* together take no more than the total asked for, unless each has only the floor.
ConfigFits == parsed = "run" => QueuesFit /\ BufferShared
=============================================================================
