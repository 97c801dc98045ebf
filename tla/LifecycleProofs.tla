-------------------------- MODULE LifecycleProofs --------------------------
(***************************************************************************)
(* The command line and the process.                                       *)
(*                                                                         *)
(* What main() may rely on after cli::parse(), for every command line and  *)
(* every value of the limits: the options come in any order and any number *)
(* of times, so the check of the range of queues at the end of the parse   *)
(* has to be about the last values given.                                  *)
(*                                                                         *)
(* The safety of startup and shutdown, for any number of workers, any      *)
(* command line and any signals.  Each property speaks of main, threads,   *)
(* handlers and descriptors at once, so the invariant relates each of them *)
(* to how far main() has got.                                              *)
(***************************************************************************)
EXTENDS Lifecycle, TLAPS

\* Numbers are within the ranges of their options, or the defaults; and the parse
\* ended in a run only with a range of queues that fits.
NumbersOK ==
  /\ num \in [Numeric -> Int]
  /\ num["-j"] \in 1..MaxOf["-j"] /\ num["-nfq"] \in Nat /\ num["-rcvbuf"] \in Nat

ParseInv ==
  /\ NumbersOK
  /\ parsed = "run" => num["-nfq"] + WorkerCount - 1 <= QueueSpace - 1

-----------------------------------------------------------------------------
\* A queue number below 2^16 survives the cast to uint16_t.
LEMMA SmallMod ==
  ASSUME NEW m \in Nat \ {0}, NEW x \in 0..(m - 1)
  PROVE  x % m = x
  OBVIOUS

\* The shares of a buffer do not exceed it.
LEMMA SharesFit ==
  ASSUME NEW w \in Nat \ {0}, NEW t \in Nat
  PROVE  (t \div w) \in Nat /\ (t \div w) * w <= t
  OBVIOUS

\* What parse_uint() accepts is in the range of its option.
LEMMA AcceptedInRange ==
  ASSUME NEW o \in Numeric, NEW arg, ParseUint(o, arg) # NotANumber
  PROVE  /\ ParseUint(o, arg) \in MinOf[o]..MaxOf[o]
         /\ ParseUint(o, arg) \in Int
         /\ ParseUint(o, arg) >= MinOf[o] /\ ParseUint(o, arg) <= MaxOf[o]
<1>1. MinOf[o] \in Int /\ MaxOf[o] \in Int
  BY CliAssumption DEF MinOf
<1>2. ParseUint(o, arg) \in MinOf[o]..MaxOf[o]
  BY DEF ParseUint
<1>3. QED
  BY <1>1, <1>2

\* The names of the options the proof is about.
LEMMA NumericNames ==
  /\ "-j" \in Numeric /\ "-nfq" \in Numeric /\ "-rcvbuf" \in Numeric
  /\ MinOf["-j"] = 1 /\ MinOf["-nfq"] = 0 /\ MinOf["-rcvbuf"] = 1
<1>1. "-j" \in Numeric /\ "-nfq" \in Numeric /\ "-rcvbuf" \in Numeric
  BY DEF Numeric
<1>2. QED
  BY <1>1 DEF MinOf

LEMMA ParseInvInit == CInit => ParseInv
<1> SUFFICES ASSUME CInit PROVE ParseInv
  OBVIOUS
<1>1. NumbersOK
  BY CliAssumption, NumericNames DEF CInit, NumbersOK
<1>2. parsed # "run"
  BY DEF CInit
<1>3. QED
  BY <1>1, <1>2 DEF ParseInv

LEMMA NumbersKept == NumbersOK /\ [Parse]_cvars => NumbersOK'
<1> SUFFICES ASSUME NumbersOK, [Parse]_cvars PROVE NumbersOK'
  OBVIOUS
<1>1. CASE UNCHANGED num
  BY <1>1 DEF NumbersOK
<1>2. CASE NumericOption
  <2> DEFINE v == ParseUint(Text, argv[2])
  <2>1. CASE UNCHANGED num
    BY <2>1 DEF NumbersOK
  <2>2. CASE num' = [num EXCEPT ![Text] = v] /\ v # NotANumber
    <3>1. Text \in Numeric
      BY <1>2 DEF NumericOption
    <3>2. v \in Int /\ v >= MinOf[Text] /\ v <= MaxOf[Text]
      BY <3>1, <2>2, AcceptedInRange
    <3>3. num' \in [Numeric -> Int]
      BY <2>2, <3>1, <3>2 DEF NumbersOK
    <3>4. num'["-j"] \in 1..MaxOf["-j"] /\ num'["-nfq"] \in Nat /\ num'["-rcvbuf"] \in Nat
      BY <2>2, <3>1, <3>2, NumericNames, CliAssumption DEF NumbersOK
    <3>5. QED
      BY <3>3, <3>4 DEF NumbersOK
  <2>3. QED
    BY <1>2, <2>1, <2>2 DEF NumericOption, Fail
<1>3. CASE Help \/ PathOption \/ FlagOption \/ UnknownOption \/ Positional \/ Parsed
  <2>1. UNCHANGED num
    BY <1>3 DEF Help, PathOption, FlagOption, UnknownOption, Positional, Parsed, Fail
  <2>2. QED
    BY <2>1, <1>1
<1>4. QED
  BY <1>1, <1>2, <1>3 DEF Parse, cvars

LEMMA ParseInvStep == ParseInv /\ [Parse]_cvars => ParseInv'
<1> SUFFICES ASSUME ParseInv, [Parse]_cvars, parsed' = "run"
             PROVE  num'["-nfq"] + WorkerCount' - 1 <= QueueSpace - 1
  BY NumbersKept DEF ParseInv
<1>1. CASE parsed = "run"
  <2>1. UNCHANGED num
    BY <1>1 DEF Parse, cvars, Help, NumericOption, PathOption, FlagOption, UnknownOption,
                Positional, Parsed, Parsing
  <2>2. QED
    BY <1>1, <2>1 DEF ParseInv, WorkerCount
<1>2. CASE parsed # "run"
  <2>1. Parsed
    BY <1>2 DEF Parse, cvars, Help, NumericOption, PathOption, FlagOption, UnknownOption,
                Positional, Fail
  <2>2. UNCHANGED num /\ ~(num["-nfq"] + WorkerCount - 1 > QueueSpace - 1)
    BY <2>1 DEF Parsed, Fail
  <2>3. num["-nfq"] \in Int /\ WorkerCount \in Int /\ QueueSpace \in Int
    BY CliAssumption DEF ParseInv, NumbersOK, WorkerCount
  <2>4. QED
    BY <2>2, <2>3 DEF WorkerCount
<1>3. QED
  BY <1>1, <1>2

-----------------------------------------------------------------------------
LEMMA InvFits == ParseInv => ConfigFits
<1> SUFFICES ASSUME ParseInv, parsed = "run" PROVE QueuesFit /\ BufferShared
  BY DEF ConfigFits
<1> DEFINE q == num["-nfq"]
           n == WorkerCount
<1>1. /\ q \in Nat /\ n \in Nat \ {0} /\ num["-rcvbuf"] \in Nat
      /\ QueueSpace \in Nat \ {0} /\ BufferFloor \in Nat \ {0}
      /\ q + n - 1 <= QueueSpace - 1
  BY CliAssumption DEF ParseInv, NumbersOK, WorkerCount
<1>2. \A i \in 0..(n - 1) : QueueNum(i) = q + i
  <2> SUFFICES ASSUME NEW i \in 0..(n - 1) PROVE QueueNum(i) = q + i
    OBVIOUS
  <2>1. q + i \in 0..(QueueSpace - 1)
    BY <1>1
  <2>2. QED
    BY <2>1, <1>1, SmallMod DEF QueueNum
<1>3. LastQueueNum = q + n - 1
  <2>1. q + n - 1 \in 0..(QueueSpace - 1)
    BY <1>1
  <2>2. QED
    BY <2>1, <1>1, SmallMod DEF LastQueueNum
<1>4. QueuesFit
  <2>1. \A i, j \in 0..(n - 1) : i # j => QueueNum(i) # QueueNum(j)
    BY <1>1, <1>2
  <2>2. \A k \in q..(q + n - 1) : \E i \in 0..(n - 1) : k = QueueNum(i)
    <3> SUFFICES ASSUME NEW k \in q..(q + n - 1) PROVE \E i \in 0..(n - 1) : k = QueueNum(i)
      OBVIOUS
    <3>1. k - q \in 0..(n - 1) /\ k = q + (k - q)
      BY <1>1
    <3>2. QED
      BY <3>1, <1>2
  <2>3. \A i \in 0..(n - 1) : QueueNum(i) \in q..(q + n - 1)
    BY <1>1, <1>2
  <2>4. QED
    BY <2>1, <2>2, <2>3, <1>3 DEF QueuesFit
<1>5. BufferShared
  <2>1. (num["-rcvbuf"] \div n) \in Nat /\ (num["-rcvbuf"] \div n) * n <= num["-rcvbuf"]
    BY <1>1, SharesFit
  <2>2. QED
    BY <2>1, <1>1 DEF BufferShared, RecvBufPerWorker
<1>6. QED
  BY <1>4, <1>5

\* Whatever the command line says, a configuration that main() runs with gives every
\* worker a queue number of its own, in the range the banner prints, and a fair share
\* of the receive buffer.
THEOREM ConfigAlwaysFits == CSpec => []ConfigFits
<1>1. CInit => ParseInv
  BY ParseInvInit
<1>2. ParseInv /\ [Parse]_cvars => ParseInv'
  BY ParseInvStep
<1>3. ParseInv => ConfigFits
  BY InvFits
<1>4. QED
  BY <1>1, <1>2, <1>3, PTL DEF CSpec

-----------------------------------------------------------------------------
\* How far main() has got.
Early == {"parse", "load", "eventfd"}
Serving == {"start", "join", "unstat", "report"}
Ending == {"teardown", "clear"}
Gone == {"close", "exited", "killed"}

\* The stop fd, and the variable the handler finds it in, are there while they have
\* users; the workers are not destroyed before they were told to stop.
FdInv ==
  /\ mpc \in {"bind", "close"} \cup Serving \cup Ending => stopFd = "open"
  /\ mpc \in {"bind"} \cup Serving \cup Ending => gStopFd
  /\ mpc = "clear" => stop

\* Which queues exist: one after another they come, all serve, one after another they go.
QueueInv ==
  /\ mpc \in Early => built = 0 /\ ctor = "open" /\ sock = {} /\ bound = {}
  /\ mpc = "bind" =>
       /\ built <= WorkerCount /\ (built = WorkerCount => ctor = "open")
       /\ \A w \in W : /\ w \in sock <=> w < built \/ (w = built /\ ctor # "open")
                       /\ w \in bound <=> w < built \/ (w = built /\ ctor = "set_mode")
  /\ mpc \in Serving =>
       built = WorkerCount /\ \A w \in W : (w \in sock <=> w < built) /\ (w \in bound <=> w < built)
  /\ mpc \in Ending => \A w \in W : w \in sock \/ w \in bound => w < built
  /\ mpc = "clear" => at <= built /\ \A w \in W : w \in sock \/ w \in bound => at <= w
  /\ mpc \in Gone => sock = {} /\ bound = {}

\* Threads run only between their start and their join, and hold packets only then.
ThreadInv ==
  /\ mpc \in Early \cup {"bind"} => ~installed
  /\ mpc \in Serving => installed
  /\ mpc = "start" => \A w \in W : at <= w => thread[w] = "bound"
  /\ ~installed => failed = {} /\ stats = "none" /\ \A w \in W : thread[w] = "bound"
  /\ \A w \in W : Joinable(w) => w < built /\ mpc \in Serving \cup Ending
  /\ \A w \in W : owed[w] # 0 => Joinable(w)
  /\ mpc \in {"join", "clear"} => \A w \in W : w < at => ~Joinable(w)
  /\ mpc \in {"unstat", "report"} => \A w \in W : ~Joinable(w)
  /\ mpc \in Ending /\ ~threw => \A w \in W : ~Joinable(w)
  /\ stats \in {"sleep", "print"} => mpc \in {"join", "unstat"}

\* A handler runs on a thread that lives, and holds its thread up; once it has seen
\* the stop fd, the fd stays.
HandlerInv ==
  /\ ~installed => \A t \in Threads : handler[t] = "none"
  /\ \A t \in Threads : handler[t] # "none" => Alive(t)
  /\ \A t \in Threads : handler[t] = "write" => gStopFd /\ stopFd = "open"

\* What has been said of failures so far.
OutcomeInv ==
  /\ mpc \in Early \cup {"bind"} \cup Serving => rc = 0 /\ ~threw
  /\ mpc \in Ending \cup {"close", "exited"} /\ parsed = "run" => (rc = 1 <=> threw \/ failed # {})
  /\ \A w \in W : w \in failed => w < built

PInv ==
  /\ PTypeOK /\ NumbersOK
  /\ FdInv /\ QueueInv /\ ThreadInv /\ HandlerInv /\ OutcomeInv

USE DEF Main, Keep, cvars, queues, threadvars, fds, reporter, outcome, sigs
USE DEF Phases, Early, Serving, Ending, Gone

-----------------------------------------------------------------------------
\* The command line never asks for more workers than the model has.
LEMMA Counted ==
  ASSUME NumbersOK
  PROVE  WorkerCount \in 1..MaxWorkers /\ num["-j"] \in 1..MaxWorkers /\ Workers \subseteq W
<1>1. num["-j"] \in 1..MaxWorkers
  BY CliAssumption, WorkersAssumption, NumericNames DEF NumbersOK
<1>2. QED
  BY <1>1, WorkersAssumption DEF WorkerCount, Workers, W

\* The parts of the invariant, and the numbers the steps below count with.
LEMMA Parts ==
  ASSUME PInv
  PROVE  /\ PTypeOK /\ NumbersOK /\ FdInv /\ QueueInv /\ ThreadInv /\ HandlerInv /\ OutcomeInv
         /\ WorkerCount \in 1..MaxWorkers /\ num["-j"] \in 1..MaxWorkers
         /\ MaxWorkers \in Nat /\ MaxSignals \in Nat
  BY Counted, WorkersAssumption DEF PInv

LEMMA PInvInit == PInit => PInv
<1> SUFFICES ASSUME PInit PROVE PInv
  OBVIOUS
<1>1. NumbersOK
  BY ParseInvInit DEF PInit, ParseInv
<1>2. 0 \in 0..MaxWorkers /\ 0 \in 0..MaxSignals
  BY WorkersAssumption
<1>3. /\ thread \in [W -> {"bound", "running", "leaving", "exited"}] /\ owed \in [W -> 0..1]
      /\ handler \in [Threads -> {"none", "test", "write"}]
  BY DEF PInit
<1>4. PTypeOK
  BY <1>2, <1>3 DEF PInit, PTypeOK
<1>5. FdInv /\ QueueInv
  BY DEF PInit, FdInv, QueueInv
<1>6. ThreadInv /\ HandlerInv
  BY DEF PInit, ThreadInv, HandlerInv, Joinable
<1>7. OutcomeInv
  BY DEF PInit, OutcomeInv
<1>8. QED
  BY <1>1, <1>4, <1>5, <1>6, <1>7 DEF PInv

-----------------------------------------------------------------------------
\* One lemma per step of a thread, of main and of the kernel.

LEMMA ParseArgsKeeps ==
  ASSUME PInv, ParseArgs
  PROVE  PInv'
<1>1. NumbersOK'
  BY Parts, NumbersKept DEF ParseArgs
<1>2. mpc = "parse" /\ UNCHANGED lifevars
  BY DEF ParseArgs
<1>3. PTypeOK' /\ FdInv'
  BY Parts, <1>2 DEF lifevars, PTypeOK, FdInv
<1>4. QueueInv' /\ ThreadInv'
  BY Parts, <1>2 DEF lifevars, QueueInv, ThreadInv, Joinable
<1>5. HandlerInv' /\ OutcomeInv'
  BY Parts, <1>2 DEF lifevars, HandlerInv, OutcomeInv, Alive, Ended, Joinable
<1>6. QED
  BY <1>1, <1>3, <1>4, <1>5 DEF PInv

LEMMA ParseDoneKeeps ==
  ASSUME PInv, ParseDone
  PROVE  PInv'
<1>1. UNCHANGED cvars /\ NumbersOK'
  BY Parts DEF ParseDone, NumbersOK
<1>2. PTypeOK'
  BY Parts, <1>1 DEF ParseDone, PTypeOK, W, Threads, MainThread, StatsThread
<1>3. FdInv'
  BY Parts, <1>1 DEF ParseDone, FdInv, PTypeOK
<1>4. QueueInv'
  BY Parts, <1>1 DEF ParseDone, QueueInv, PTypeOK, W, WorkerCount
<1>5. ThreadInv'
  BY Parts, <1>1 DEF ParseDone, ThreadInv, QueueInv, PTypeOK, W, Joinable, WorkerCount
<1>6. HandlerInv'
  BY Parts, <1>1 DEF ParseDone, HandlerInv, ThreadInv, FdInv, PTypeOK, W, Threads,
     MainThread, StatsThread, Joinable, Alive, Ended
<1>7. OutcomeInv'
  BY Parts, <1>1 DEF ParseDone, OutcomeInv, QueueInv, ThreadInv, PTypeOK, W, Joinable,
     WorkerCount
<1>8. QED
  BY <1>1, <1>2, <1>3, <1>4, <1>5, <1>6, <1>7 DEF PInv

LEMMA LoadBlocklistKeeps ==
  ASSUME PInv, LoadBlocklist
  PROVE  PInv'
<1>1. UNCHANGED cvars /\ NumbersOK'
  BY Parts DEF LoadBlocklist, NumbersOK
<1>2. PTypeOK'
  <2>1. threw' \in BOOLEAN /\ rc' \in {0, 1} /\ mpc' \in Phases
    BY Parts DEF LoadBlocklist, PTypeOK
  <2>2. QED
    BY Parts, <1>1, <2>1 DEF LoadBlocklist, PTypeOK, W, Threads, MainThread, StatsThread
<1>3. FdInv'
  BY Parts, <1>1 DEF LoadBlocklist, FdInv, PTypeOK
<1>4. QueueInv'
  BY Parts, <1>1 DEF LoadBlocklist, QueueInv, PTypeOK, W, WorkerCount
<1>5. ThreadInv'
  BY Parts, <1>1 DEF LoadBlocklist, ThreadInv, QueueInv, PTypeOK, W, Joinable,
     WorkerCount
<1>6. HandlerInv'
  BY Parts, <1>1 DEF LoadBlocklist, HandlerInv, ThreadInv, FdInv, PTypeOK, W, Threads,
     MainThread, StatsThread, Joinable, Alive, Ended
<1>7. OutcomeInv'
  BY Parts, <1>1 DEF LoadBlocklist, OutcomeInv, QueueInv, ThreadInv, PTypeOK, W,
     Joinable, WorkerCount
<1>8. QED
  BY <1>1, <1>2, <1>3, <1>4, <1>5, <1>6, <1>7 DEF PInv

LEMMA MakeStopFdKeeps ==
  ASSUME PInv, MakeStopFd
  PROVE  PInv'
<1>1. UNCHANGED cvars /\ NumbersOK'
  BY Parts DEF MakeStopFd, NumbersOK
<1>2. PTypeOK'
  BY ZenonT(60), Parts, <1>1 DEF MakeStopFd, PTypeOK, W, Threads, MainThread, StatsThread
<1>3. FdInv'
  BY Parts, <1>1 DEF MakeStopFd, FdInv, PTypeOK
<1>4. QueueInv'
  BY Parts, <1>1 DEF MakeStopFd, QueueInv, PTypeOK, W, WorkerCount
<1>5. ThreadInv'
  BY Parts, <1>1 DEF MakeStopFd, ThreadInv, QueueInv, PTypeOK, W, Joinable, WorkerCount
<1>6. HandlerInv'
  BY Parts, <1>1 DEF MakeStopFd, HandlerInv, ThreadInv, FdInv, PTypeOK, W, Threads,
     MainThread, StatsThread, Joinable, Alive, Ended
<1>7. OutcomeInv'
  BY Parts, <1>1 DEF MakeStopFd, OutcomeInv, QueueInv, ThreadInv, PTypeOK, W, Joinable,
     WorkerCount
<1>8. QED
  BY <1>1, <1>2, <1>3, <1>4, <1>5, <1>6, <1>7 DEF PInv

LEMMA BindStepKeeps ==
  ASSUME PInv, BindStep
  PROVE  PInv'
<1>1. UNCHANGED cvars /\ NumbersOK'
  BY Parts DEF BindStep, Binding, NumbersOK
<1>2. PTypeOK'
  <2>1. built \in W
    BY Parts DEF BindStep, Binding, PTypeOK, W
  <2>2. sock' \subseteq W /\ bound' \subseteq W
    BY Parts, <2>1 DEF BindStep, PTypeOK
  <2>3. built' \in 0..MaxWorkers /\ ctor' \in {"open", "create", "set_mode"}
    BY Parts, <2>1 DEF BindStep, PTypeOK, W
  <2>4. QED
    BY Parts, <1>1, <2>2, <2>3 DEF BindStep, PTypeOK, W, Threads, MainThread, StatsThread
<1>3. FdInv'
  BY Parts, <1>1 DEF BindStep, Binding, FdInv, PTypeOK
<1>4. QueueInv'
  BY Parts, <1>1 DEF BindStep, Binding, QueueInv, PTypeOK, W, WorkerCount
<1>5. ThreadInv'
  BY Parts, <1>1 DEF BindStep, Binding, ThreadInv, QueueInv, PTypeOK, W, Joinable,
     WorkerCount
<1>6. HandlerInv'
  BY Parts, <1>1 DEF BindStep, Binding, HandlerInv, ThreadInv, FdInv, PTypeOK, W,
     Threads, MainThread, StatsThread, Joinable, Alive, Ended
<1>7. OutcomeInv'
  BY Parts, <1>1 DEF BindStep, Binding, OutcomeInv, QueueInv, ThreadInv, PTypeOK, W,
     Joinable, WorkerCount
<1>8. QED
  BY <1>1, <1>2, <1>3, <1>4, <1>5, <1>6, <1>7 DEF PInv

LEMMA BindFailsKeeps ==
  ASSUME PInv, BindFails
  PROVE  PInv'
<1>1. UNCHANGED cvars /\ NumbersOK'
  BY Parts DEF BindFails, Binding, Throw, NumbersOK
<1>2. PTypeOK'
  BY Parts, <1>1 DEF BindFails, Binding, Throw, PTypeOK, W, Threads, MainThread,
     StatsThread
<1>3. FdInv'
  BY Parts, <1>1 DEF BindFails, Binding, Throw, FdInv, PTypeOK
<1>4. QueueInv'
  BY Parts, <1>1 DEF BindFails, Binding, Throw, QueueInv, PTypeOK, W, WorkerCount
<1>5. ThreadInv'
  BY Parts, <1>1 DEF BindFails, Binding, Throw, ThreadInv, QueueInv, PTypeOK, W,
     Joinable, WorkerCount
<1>6. HandlerInv'
  BY Parts, <1>1 DEF BindFails, Binding, Throw, HandlerInv, ThreadInv, FdInv, PTypeOK,
     W, Threads, MainThread, StatsThread, Joinable, Alive, Ended
<1>7. OutcomeInv'
  BY Parts, <1>1 DEF BindFails, Binding, Throw, OutcomeInv, QueueInv, ThreadInv,
     PTypeOK, W, Joinable, WorkerCount
<1>8. QED
  BY <1>1, <1>2, <1>3, <1>4, <1>5, <1>6, <1>7 DEF PInv

LEMMA InstallKeeps ==
  ASSUME PInv, Install
  PROVE  PInv'
<1>1. UNCHANGED cvars /\ NumbersOK'
  BY Parts DEF Install, Binding, NumbersOK
<1>2. PTypeOK'
  BY Parts, <1>1 DEF Install, Binding, PTypeOK, W, Threads, MainThread, StatsThread
<1>3. FdInv'
  BY Parts, <1>1 DEF Install, Binding, FdInv, PTypeOK
<1>4. QueueInv'
  BY Parts, <1>1 DEF Install, Binding, QueueInv, PTypeOK, W, WorkerCount
<1>5. ThreadInv'
  BY Parts, <1>1 DEF Install, Binding, ThreadInv, QueueInv, PTypeOK, W, Joinable,
     WorkerCount
<1>6. HandlerInv'
  BY Parts, <1>1 DEF Install, Binding, HandlerInv, ThreadInv, FdInv, PTypeOK, W,
     Threads, MainThread, StatsThread, Joinable, Alive, Ended
<1>7. OutcomeInv'
  BY Parts, <1>1 DEF Install, Binding, OutcomeInv, QueueInv, ThreadInv, PTypeOK, W,
     Joinable, WorkerCount
<1>8. QED
  BY <1>1, <1>2, <1>3, <1>4, <1>5, <1>6, <1>7 DEF PInv

LEMMA StartKeeps ==
  ASSUME PInv, Start
  PROVE  PInv'
<1>1. UNCHANGED cvars /\ NumbersOK'
  BY Parts DEF Start, NumbersOK
<1>2. PTypeOK'
  BY Parts, <1>1 DEF Start, Workers, PTypeOK, W, Threads, MainThread, StatsThread
<1>3. FdInv'
  BY Parts, <1>1 DEF Start, Workers, FdInv, PTypeOK
<1>4. QueueInv'
  BY Parts, <1>1 DEF Start, Workers, QueueInv, PTypeOK, W, WorkerCount
<1>5. ThreadInv'
  BY Parts, <1>1 DEF Start, Workers, ThreadInv, QueueInv, PTypeOK, W, Joinable,
     WorkerCount
<1>6. HandlerInv'
  BY Parts, <1>1 DEF Start, Workers, HandlerInv, ThreadInv, FdInv, PTypeOK, W, Threads,
     MainThread, StatsThread, Joinable, Alive, Ended
<1>7. OutcomeInv'
  BY Parts, <1>1 DEF Start, Workers, OutcomeInv, QueueInv, ThreadInv, PTypeOK, W,
     Joinable, WorkerCount
<1>8. QED
  BY <1>1, <1>2, <1>3, <1>4, <1>5, <1>6, <1>7 DEF PInv

LEMMA StartFailsKeeps ==
  ASSUME PInv, StartFails
  PROVE  PInv'
<1>1. UNCHANGED cvars /\ NumbersOK'
  BY Parts DEF StartFails, Throw, NumbersOK
<1>2. PTypeOK'
  BY Parts, <1>1 DEF StartFails, Throw, Workers, PTypeOK, W, Threads, MainThread,
     StatsThread
<1>3. FdInv'
  BY Parts, <1>1 DEF StartFails, Throw, Workers, FdInv, PTypeOK
<1>4. QueueInv'
  BY Parts, <1>1 DEF StartFails, Throw, Workers, QueueInv, PTypeOK, W, WorkerCount
<1>5. ThreadInv'
  BY Parts, <1>1 DEF StartFails, Throw, Workers, ThreadInv, QueueInv, PTypeOK, W,
     Joinable, WorkerCount
<1>6. HandlerInv'
  BY Parts, <1>1 DEF StartFails, Throw, Workers, HandlerInv, ThreadInv, FdInv, PTypeOK,
     W, Threads, MainThread, StatsThread, Joinable, Alive, Ended
<1>7. OutcomeInv'
  BY Parts, <1>1 DEF StartFails, Throw, Workers, OutcomeInv, QueueInv, ThreadInv,
     PTypeOK, W, Joinable, WorkerCount
<1>8. QED
  BY <1>1, <1>2, <1>3, <1>4, <1>5, <1>6, <1>7 DEF PInv

LEMMA SpawnStatsKeeps ==
  ASSUME PInv, SpawnStats
  PROVE  PInv'
<1>1. UNCHANGED cvars /\ NumbersOK'
  BY Parts DEF SpawnStats, Throw, NumbersOK
<1>2. PTypeOK'
  <2>1. threw' \in BOOLEAN /\ rc' \in {0, 1} /\ mpc' \in Phases
    BY Parts DEF SpawnStats, Throw, PTypeOK
  <2>2. reporting' \in BOOLEAN /\ stats' \in {"none", "sleep", "print", "exited"}
    BY Parts DEF SpawnStats, PTypeOK
  <2>3. QED
    BY Parts, <1>1, <2>1, <2>2 DEF SpawnStats, PTypeOK, W, Threads, MainThread, StatsThread
<1>3. FdInv'
  BY Parts, <1>1 DEF SpawnStats, Throw, Workers, FdInv, PTypeOK
<1>4. QueueInv'
  BY Parts, <1>1 DEF SpawnStats, Throw, Workers, QueueInv, PTypeOK, W, WorkerCount
<1>5. ThreadInv'
  BY Parts, <1>1 DEF SpawnStats, Throw, Workers, ThreadInv, QueueInv, PTypeOK, W,
     Joinable, WorkerCount
<1>6. HandlerInv'
  BY Parts, <1>1 DEF SpawnStats, Throw, Workers, HandlerInv, ThreadInv, FdInv, PTypeOK,
     W, Threads, MainThread, StatsThread, Joinable, Alive, Ended
<1>7. OutcomeInv'
  BY Parts, <1>1 DEF SpawnStats, Throw, Workers, OutcomeInv, QueueInv, ThreadInv,
     PTypeOK, W, Joinable, WorkerCount
<1>8. QED
  BY <1>1, <1>2, <1>3, <1>4, <1>5, <1>6, <1>7 DEF PInv

LEMMA JoinWorkerKeeps ==
  ASSUME PInv, JoinWorker
  PROVE  PInv'
<1>1. UNCHANGED cvars /\ NumbersOK'
  BY Parts DEF JoinWorker, NumbersOK
<1>2. PTypeOK'
  BY SMTT(20), Parts, <1>1 DEF JoinWorker, Workers, PTypeOK, W, Threads, MainThread, StatsThread
<1>3. FdInv'
  BY Parts, <1>1 DEF JoinWorker, Workers, FdInv, PTypeOK
<1>4. QueueInv'
  BY Parts, <1>1 DEF JoinWorker, Workers, QueueInv, PTypeOK, W, WorkerCount
<1>5. ThreadInv'
  BY Parts, <1>1 DEF JoinWorker, Workers, ThreadInv, QueueInv, PTypeOK, W, Joinable,
     WorkerCount
<1>6. HandlerInv'
  BY Parts, <1>1 DEF JoinWorker, Workers, HandlerInv, ThreadInv, FdInv, PTypeOK, W,
     Threads, MainThread, StatsThread, Joinable, Alive, Ended
<1>7. OutcomeInv'
  BY Parts, <1>1 DEF JoinWorker, Workers, OutcomeInv, QueueInv, ThreadInv, PTypeOK, W,
     Joinable, WorkerCount
<1>8. QED
  BY <1>1, <1>2, <1>3, <1>4, <1>5, <1>6, <1>7 DEF PInv

LEMMA StopStatsKeeps ==
  ASSUME PInv, StopStats
  PROVE  PInv'
<1>1. UNCHANGED cvars /\ NumbersOK'
  BY Parts DEF StopStats, NumbersOK
<1>2. PTypeOK'
  BY ZenonT(60), Parts, <1>1 DEF StopStats, Workers, PTypeOK, W, Threads, MainThread, StatsThread
<1>3. FdInv'
  BY Parts, <1>1 DEF StopStats, Workers, FdInv, PTypeOK
<1>4. QueueInv'
  BY Parts, <1>1 DEF StopStats, Workers, QueueInv, PTypeOK, W, WorkerCount
<1>5. ThreadInv'
  BY Parts, <1>1 DEF StopStats, Workers, ThreadInv, QueueInv, PTypeOK, W, Joinable,
     WorkerCount
<1>6. HandlerInv'
  BY Parts, <1>1 DEF StopStats, Workers, HandlerInv, ThreadInv, FdInv, PTypeOK, W,
     Threads, MainThread, StatsThread, Joinable, Alive, Ended
<1>7. OutcomeInv'
  BY Parts, <1>1 DEF StopStats, Workers, OutcomeInv, QueueInv, ThreadInv, PTypeOK, W,
     Joinable, WorkerCount
<1>8. QED
  BY <1>1, <1>2, <1>3, <1>4, <1>5, <1>6, <1>7 DEF PInv

LEMMA JoinStatsKeeps ==
  ASSUME PInv, JoinStats
  PROVE  PInv'
<1>1. UNCHANGED cvars /\ NumbersOK'
  BY Parts DEF JoinStats, NumbersOK
<1>2. PTypeOK'
  BY Parts, <1>1 DEF JoinStats, PTypeOK, W, Threads, MainThread, StatsThread
<1>3. FdInv'
  BY Parts, <1>1 DEF JoinStats, FdInv, PTypeOK
<1>4. QueueInv'
  BY Parts, <1>1 DEF JoinStats, QueueInv, PTypeOK, W, WorkerCount
<1>5. ThreadInv'
  BY Parts, <1>1 DEF JoinStats, ThreadInv, QueueInv, PTypeOK, W, Joinable, WorkerCount
<1>6. HandlerInv'
  BY Parts, <1>1 DEF JoinStats, HandlerInv, ThreadInv, FdInv, PTypeOK, W, Threads,
     MainThread, StatsThread, Joinable, Alive, Ended
<1>7. OutcomeInv'
  BY Parts, <1>1 DEF JoinStats, OutcomeInv, QueueInv, ThreadInv, PTypeOK, W, Joinable,
     WorkerCount
<1>8. QED
  BY <1>1, <1>2, <1>3, <1>4, <1>5, <1>6, <1>7 DEF PInv

LEMMA ReportKeeps ==
  ASSUME PInv, Report
  PROVE  PInv'
<1>1. UNCHANGED cvars /\ NumbersOK'
  BY Parts DEF Report, NumbersOK
<1>2. PTypeOK'
  BY Parts, <1>1 DEF Report, Workers, PTypeOK, W, Threads, MainThread, StatsThread
<1>3. FdInv'
  BY Parts, <1>1 DEF Report, Workers, FdInv, PTypeOK
<1>4. QueueInv'
  BY Parts, <1>1 DEF Report, Workers, QueueInv, PTypeOK, W, WorkerCount
<1>5. ThreadInv'
  BY Parts, <1>1 DEF Report, Workers, ThreadInv, QueueInv, PTypeOK, W, Joinable,
     WorkerCount
<1>6. HandlerInv'
  BY Parts, <1>1 DEF Report, Workers, HandlerInv, ThreadInv, FdInv, PTypeOK, W, Threads,
     MainThread, StatsThread, Joinable, Alive, Ended
<1>7. OutcomeInv'
  <2>1. built = WorkerCount /\ rc = 0 /\ ~threw /\ failed \subseteq W
    BY Parts DEF Report, QueueInv, OutcomeInv, PTypeOK
  <2>2. \A w \in failed : w \in Workers
    BY Parts, <2>1 DEF OutcomeInv, Workers, W
  <2>3. rc' = 1 <=> failed # {}
    BY <2>1, <2>2 DEF Report
  <2>4. QED
    BY Parts, <1>1, <2>1, <2>3 DEF Report, OutcomeInv
<1>8. QED
  BY <1>1, <1>2, <1>3, <1>4, <1>5, <1>6, <1>7 DEF PInv

LEMMA StopWorkersKeeps ==
  ASSUME PInv, StopWorkers
  PROVE  PInv'
<1>1. UNCHANGED cvars /\ NumbersOK'
  BY Parts DEF StopWorkers, NumbersOK
<1>2. PTypeOK'
  BY Parts, <1>1 DEF StopWorkers, PTypeOK, W, Threads, MainThread, StatsThread
<1>3. FdInv'
  BY Parts, <1>1 DEF StopWorkers, FdInv, PTypeOK
<1>4. QueueInv'
  BY Parts, <1>1 DEF StopWorkers, QueueInv, PTypeOK, W, WorkerCount
<1>5. ThreadInv'
  BY Parts, <1>1 DEF StopWorkers, ThreadInv, QueueInv, PTypeOK, W, Joinable, WorkerCount
<1>6. HandlerInv'
  BY Parts, <1>1 DEF StopWorkers, HandlerInv, ThreadInv, FdInv, PTypeOK, W, Threads,
     MainThread, StatsThread, Joinable, Alive, Ended
<1>7. OutcomeInv'
  BY Parts, <1>1 DEF StopWorkers, OutcomeInv, QueueInv, ThreadInv, PTypeOK, W, Joinable,
     WorkerCount
<1>8. QED
  BY <1>1, <1>2, <1>3, <1>4, <1>5, <1>6, <1>7 DEF PInv

LEMMA DestroyWorkerKeeps ==
  ASSUME PInv, DestroyWorker
  PROVE  PInv'
<1>1. UNCHANGED cvars /\ NumbersOK'
  BY Parts DEF DestroyWorker, NumbersOK
<1>2. PTypeOK'
  BY SMTT(20), Parts, <1>1 DEF DestroyWorker, PTypeOK, W, Threads, MainThread, StatsThread
<1>3. FdInv'
  BY Parts, <1>1 DEF DestroyWorker, FdInv, PTypeOK
<1>4. QueueInv'
  BY Parts, <1>1 DEF DestroyWorker, QueueInv, PTypeOK, W, WorkerCount
<1>5. ThreadInv'
  BY Parts, <1>1 DEF DestroyWorker, ThreadInv, QueueInv, PTypeOK, W, Joinable,
     WorkerCount
<1>6. HandlerInv'
  BY Parts, <1>1 DEF DestroyWorker, HandlerInv, ThreadInv, FdInv, PTypeOK, W, Threads,
     MainThread, StatsThread, Joinable, Alive, Ended
<1>7. OutcomeInv'
  BY Parts, <1>1 DEF DestroyWorker, OutcomeInv, QueueInv, ThreadInv, PTypeOK, W,
     Joinable, WorkerCount
<1>8. QED
  BY <1>1, <1>2, <1>3, <1>4, <1>5, <1>6, <1>7 DEF PInv

LEMMA UnsetStopFdKeeps ==
  ASSUME PInv, UnsetStopFd
  PROVE  PInv'
<1>1. UNCHANGED cvars /\ NumbersOK'
  BY Parts DEF UnsetStopFd, NumbersOK
<1>2. PTypeOK'
  BY Parts, <1>1 DEF UnsetStopFd, PTypeOK, W, Threads, MainThread, StatsThread
<1>3. FdInv'
  BY Parts, <1>1 DEF UnsetStopFd, FdInv, PTypeOK
<1>4. QueueInv'
  BY Parts, <1>1 DEF UnsetStopFd, QueueInv, PTypeOK, W, WorkerCount
<1>5. ThreadInv'
  BY Parts, <1>1 DEF UnsetStopFd, ThreadInv, QueueInv, PTypeOK, W, Joinable, WorkerCount
<1>6. HandlerInv'
  BY Parts, <1>1 DEF UnsetStopFd, HandlerInv, ThreadInv, FdInv, PTypeOK, W, Threads,
     MainThread, StatsThread, Joinable, Alive, Ended
<1>7. OutcomeInv'
  BY Parts, <1>1 DEF UnsetStopFd, OutcomeInv, QueueInv, ThreadInv, PTypeOK, W, Joinable,
     WorkerCount
<1>8. QED
  BY <1>1, <1>2, <1>3, <1>4, <1>5, <1>6, <1>7 DEF PInv

LEMMA CloseStopFdKeeps ==
  ASSUME PInv, CloseStopFd
  PROVE  PInv'
<1>1. UNCHANGED cvars /\ NumbersOK'
  BY Parts DEF CloseStopFd, NumbersOK
<1>2. PTypeOK'
  BY Parts, <1>1 DEF CloseStopFd, PTypeOK, W, Threads, MainThread, StatsThread
<1>3. FdInv'
  BY Parts, <1>1 DEF CloseStopFd, FdInv, PTypeOK
<1>4. QueueInv'
  BY Parts, <1>1 DEF CloseStopFd, QueueInv, PTypeOK, W, WorkerCount
<1>5. ThreadInv'
  BY Parts, <1>1 DEF CloseStopFd, ThreadInv, QueueInv, PTypeOK, W, Joinable, WorkerCount
<1>6. HandlerInv'
  BY Parts, <1>1 DEF CloseStopFd, HandlerInv, ThreadInv, FdInv, PTypeOK, W, Threads,
     MainThread, StatsThread, Joinable, Alive, Ended
<1>7. OutcomeInv'
  BY Parts, <1>1 DEF CloseStopFd, OutcomeInv, QueueInv, ThreadInv, PTypeOK, W, Joinable,
     WorkerCount
<1>8. QED
  BY <1>1, <1>2, <1>3, <1>4, <1>5, <1>6, <1>7 DEF PInv

LEMMA ReceiveKeeps ==
  ASSUME PInv, NEW w \in W, Receive(w)
  PROVE  PInv'
<1>1. UNCHANGED cvars /\ NumbersOK'
  BY Parts DEF Receive, Worker, NumbersOK
<1>2. PTypeOK'
  BY Parts, <1>1 DEF Receive, Worker, PTypeOK, W, Threads, MainThread, StatsThread
<1>3. FdInv'
  BY Parts, <1>1 DEF Receive, Worker, FdInv, PTypeOK
<1>4. QueueInv'
  BY Parts, <1>1 DEF Receive, Worker, QueueInv, PTypeOK, W, WorkerCount
<1>5. ThreadInv'
  BY Parts, <1>1 DEF Receive, Worker, ThreadInv, QueueInv, PTypeOK, W, Joinable,
     WorkerCount
<1>6. HandlerInv'
  BY Parts, <1>1 DEF Receive, Worker, HandlerInv, ThreadInv, FdInv, PTypeOK, W, Threads,
     MainThread, StatsThread, Joinable, Alive, Ended
<1>7. OutcomeInv'
  BY Parts, <1>1 DEF Receive, Worker, OutcomeInv, QueueInv, ThreadInv, PTypeOK, W,
     Joinable, WorkerCount
<1>8. QED
  BY <1>1, <1>2, <1>3, <1>4, <1>5, <1>6, <1>7 DEF PInv

LEMMA VerdictKeeps ==
  ASSUME PInv, NEW w \in W, Verdict(w)
  PROVE  PInv'
<1>1. UNCHANGED cvars /\ NumbersOK'
  BY Parts DEF Verdict, NumbersOK
<1>2. PTypeOK'
  BY Parts, <1>1 DEF Verdict, PTypeOK, W, Threads, MainThread, StatsThread
<1>3. FdInv'
  BY Parts, <1>1 DEF Verdict, FdInv, PTypeOK
<1>4. QueueInv'
  BY Parts, <1>1 DEF Verdict, QueueInv, PTypeOK, W, WorkerCount
<1>5. ThreadInv'
  BY Parts, <1>1 DEF Verdict, ThreadInv, QueueInv, PTypeOK, W, Joinable, WorkerCount
<1>6. HandlerInv'
  BY Parts, <1>1 DEF Verdict, HandlerInv, ThreadInv, FdInv, PTypeOK, W, Threads,
     MainThread, StatsThread, Joinable, Alive, Ended
<1>7. OutcomeInv'
  BY Parts, <1>1 DEF Verdict, OutcomeInv, QueueInv, ThreadInv, PTypeOK, W, Joinable,
     WorkerCount
<1>8. QED
  BY <1>1, <1>2, <1>3, <1>4, <1>5, <1>6, <1>7 DEF PInv

LEMMA QueueFailsKeeps ==
  ASSUME PInv, NEW w \in W, QueueFails(w)
  PROVE  PInv'
<1>1. UNCHANGED cvars /\ NumbersOK'
  BY Parts DEF QueueFails, Worker, NumbersOK
<1>2. PTypeOK'
  BY Parts, <1>1 DEF QueueFails, Worker, PTypeOK, W, Threads, MainThread, StatsThread
<1>3. FdInv'
  BY Parts, <1>1 DEF QueueFails, Worker, FdInv, PTypeOK
<1>4. QueueInv'
  BY Parts, <1>1 DEF QueueFails, Worker, QueueInv, PTypeOK, W, WorkerCount
<1>5. ThreadInv'
  BY Parts, <1>1 DEF QueueFails, Worker, ThreadInv, QueueInv, PTypeOK, W, Joinable,
     WorkerCount
<1>6. HandlerInv'
  BY Parts, <1>1 DEF QueueFails, Worker, HandlerInv, ThreadInv, FdInv, PTypeOK, W,
     Threads, MainThread, StatsThread, Joinable, Alive, Ended
<1>7. OutcomeInv'
  BY Parts, <1>1 DEF QueueFails, Worker, OutcomeInv, QueueInv, ThreadInv, PTypeOK, W,
     Joinable, WorkerCount
<1>8. QED
  BY <1>1, <1>2, <1>3, <1>4, <1>5, <1>6, <1>7 DEF PInv

LEMMA LeaveKeeps ==
  ASSUME PInv, NEW w \in W, Leave(w)
  PROVE  PInv'
<1>1. UNCHANGED cvars /\ NumbersOK'
  BY Parts DEF Leave, Worker, NumbersOK
<1>2. PTypeOK'
  BY Parts, <1>1 DEF Leave, Worker, PTypeOK, W, Threads, MainThread, StatsThread
<1>3. FdInv'
  BY Parts, <1>1 DEF Leave, Worker, FdInv, PTypeOK
<1>4. QueueInv'
  BY Parts, <1>1 DEF Leave, Worker, QueueInv, PTypeOK, W, WorkerCount
<1>5. ThreadInv'
  BY Parts, <1>1 DEF Leave, Worker, ThreadInv, QueueInv, PTypeOK, W, Joinable,
     WorkerCount
<1>6. HandlerInv'
  BY Parts, <1>1 DEF Leave, Worker, HandlerInv, ThreadInv, FdInv, PTypeOK, W, Threads,
     MainThread, StatsThread, Joinable, Alive, Ended
<1>7. OutcomeInv'
  BY Parts, <1>1 DEF Leave, Worker, OutcomeInv, QueueInv, ThreadInv, PTypeOK, W,
     Joinable, WorkerCount
<1>8. QED
  BY <1>1, <1>2, <1>3, <1>4, <1>5, <1>6, <1>7 DEF PInv

LEMMA ReturnKeeps ==
  ASSUME PInv, NEW w \in W, Return(w)
  PROVE  PInv'
<1>1. UNCHANGED cvars /\ NumbersOK'
  BY Parts DEF Return, Worker, NumbersOK
<1>2. PTypeOK'
  BY Parts, <1>1 DEF Return, Worker, PTypeOK, W, Threads, MainThread, StatsThread
<1>3. FdInv'
  BY Parts, <1>1 DEF Return, Worker, FdInv, PTypeOK
<1>4. QueueInv'
  BY Parts, <1>1 DEF Return, Worker, QueueInv, PTypeOK, W, WorkerCount
<1>5. ThreadInv'
  BY Parts, <1>1 DEF Return, Worker, ThreadInv, QueueInv, PTypeOK, W, Joinable,
     WorkerCount
<1>6. HandlerInv'
  BY Parts, <1>1 DEF Return, Worker, HandlerInv, ThreadInv, FdInv, PTypeOK, W, Threads,
     MainThread, StatsThread, Joinable, Alive, Ended
<1>7. OutcomeInv'
  BY Parts, <1>1 DEF Return, Worker, OutcomeInv, QueueInv, ThreadInv, PTypeOK, W,
     Joinable, WorkerCount
<1>8. QED
  BY <1>1, <1>2, <1>3, <1>4, <1>5, <1>6, <1>7 DEF PInv

LEMMA EnqueueKeeps ==
  ASSUME PInv, NEW w \in W, Enqueue(w)
  PROVE  PInv'
<1>1. UNCHANGED cvars /\ NumbersOK'
  BY Parts DEF Enqueue, NumbersOK
<1>2. PTypeOK'
  BY Parts, <1>1 DEF Enqueue, PTypeOK, W, Threads, MainThread, StatsThread
<1>3. FdInv'
  BY Parts, <1>1 DEF Enqueue, FdInv, PTypeOK
<1>4. QueueInv'
  BY Parts, <1>1 DEF Enqueue, QueueInv, PTypeOK, W, WorkerCount
<1>5. ThreadInv'
  BY Parts, <1>1 DEF Enqueue, ThreadInv, QueueInv, PTypeOK, W, Joinable, WorkerCount
<1>6. HandlerInv'
  BY Parts, <1>1 DEF Enqueue, HandlerInv, ThreadInv, FdInv, PTypeOK, W, Threads,
     MainThread, StatsThread, Joinable, Alive, Ended
<1>7. OutcomeInv'
  BY Parts, <1>1 DEF Enqueue, OutcomeInv, QueueInv, ThreadInv, PTypeOK, W, Joinable,
     WorkerCount
<1>8. QED
  BY <1>1, <1>2, <1>3, <1>4, <1>5, <1>6, <1>7 DEF PInv

LEMMA StatsNapKeeps ==
  ASSUME PInv, StatsNap
  PROVE  PInv'
<1>1. UNCHANGED cvars /\ NumbersOK'
  BY Parts DEF StatsNap, NumbersOK
<1>2. PTypeOK'
  BY Parts, <1>1 DEF StatsNap, PTypeOK, W, Threads, MainThread, StatsThread
<1>3. FdInv'
  BY Parts, <1>1 DEF StatsNap, FdInv, PTypeOK
<1>4. QueueInv'
  BY Parts, <1>1 DEF StatsNap, QueueInv, PTypeOK, W, WorkerCount
<1>5. ThreadInv'
  BY Parts, <1>1 DEF StatsNap, ThreadInv, QueueInv, PTypeOK, W, Joinable, WorkerCount
<1>6. HandlerInv'
  BY Parts, <1>1 DEF StatsNap, HandlerInv, ThreadInv, FdInv, PTypeOK, W, Threads,
     MainThread, StatsThread, Joinable, Alive, Ended
<1>7. OutcomeInv'
  BY Parts, <1>1 DEF StatsNap, OutcomeInv, QueueInv, ThreadInv, PTypeOK, W, Joinable,
     WorkerCount
<1>8. QED
  BY <1>1, <1>2, <1>3, <1>4, <1>5, <1>6, <1>7 DEF PInv

LEMMA StatsPrintKeeps ==
  ASSUME PInv, StatsPrint
  PROVE  PInv'
<1>1. UNCHANGED cvars /\ NumbersOK'
  BY Parts DEF StatsPrint, NumbersOK
<1>2. PTypeOK'
  BY Parts, <1>1 DEF StatsPrint, PTypeOK, W, Threads, MainThread, StatsThread
<1>3. FdInv'
  BY Parts, <1>1 DEF StatsPrint, FdInv, PTypeOK
<1>4. QueueInv'
  BY Parts, <1>1 DEF StatsPrint, QueueInv, PTypeOK, W, WorkerCount
<1>5. ThreadInv'
  BY Parts, <1>1 DEF StatsPrint, ThreadInv, QueueInv, PTypeOK, W, Joinable, WorkerCount
<1>6. HandlerInv'
  BY Parts, <1>1 DEF StatsPrint, HandlerInv, ThreadInv, FdInv, PTypeOK, W, Threads,
     MainThread, StatsThread, Joinable, Alive, Ended
<1>7. OutcomeInv'
  BY Parts, <1>1 DEF StatsPrint, OutcomeInv, QueueInv, ThreadInv, PTypeOK, W, Joinable,
     WorkerCount
<1>8. QED
  BY <1>1, <1>2, <1>3, <1>4, <1>5, <1>6, <1>7 DEF PInv

LEMMA SignalKeeps ==
  ASSUME PInv, NEW t \in Threads, Signal(t)
  PROVE  PInv'
<1>1. UNCHANGED cvars /\ NumbersOK'
  BY Parts DEF Signal, NumbersOK
<1>2. PTypeOK'
  BY Parts, <1>1 DEF Signal, PTypeOK, W, Threads, MainThread, StatsThread
<1>3. FdInv'
  BY Parts, <1>1 DEF Signal, FdInv, PTypeOK
<1>4. QueueInv'
  BY Parts, <1>1 DEF Signal, QueueInv, PTypeOK, W, WorkerCount
<1>5. ThreadInv'
  BY Parts, <1>1 DEF Signal, ThreadInv, QueueInv, PTypeOK, W, Joinable, WorkerCount
<1>6. HandlerInv'
  BY Parts, <1>1 DEF Signal, HandlerInv, ThreadInv, FdInv, PTypeOK, W, Threads,
     MainThread, StatsThread, Joinable, Alive, Ended
<1>7. OutcomeInv'
  BY Parts, <1>1 DEF Signal, OutcomeInv, QueueInv, ThreadInv, PTypeOK, W, Joinable,
     WorkerCount
<1>8. QED
  BY <1>1, <1>2, <1>3, <1>4, <1>5, <1>6, <1>7 DEF PInv

LEMMA KilledKeeps ==
  ASSUME PInv, Killed
  PROVE  PInv'
<1>1. UNCHANGED cvars /\ NumbersOK'
  BY Parts DEF Killed, NumbersOK
<1>2. PTypeOK'
  BY Parts, <1>1 DEF Killed, Ended, PTypeOK, W, Threads, MainThread, StatsThread
<1>3. FdInv'
  BY Parts, <1>1 DEF Killed, Ended, FdInv, PTypeOK
<1>4. QueueInv'
  BY Parts, <1>1 DEF Killed, Ended, QueueInv, PTypeOK, W, WorkerCount
<1>5. ThreadInv'
  BY Parts, <1>1 DEF Killed, Ended, ThreadInv, QueueInv, PTypeOK, W, Joinable,
     WorkerCount
<1>6. HandlerInv'
  BY Parts, <1>1 DEF Killed, HandlerInv, ThreadInv, FdInv, PTypeOK, W, Threads,
     MainThread, StatsThread, Joinable, Alive, Ended
<1>7. OutcomeInv'
  BY Parts, <1>1 DEF Killed, Ended, OutcomeInv, QueueInv, ThreadInv, PTypeOK, W,
     Joinable, WorkerCount
<1>8. QED
  BY <1>1, <1>2, <1>3, <1>4, <1>5, <1>6, <1>7 DEF PInv

LEMMA OnSignalTestKeeps ==
  ASSUME PInv, NEW t \in Threads, OnSignalTest(t)
  PROVE  PInv'
<1>1. UNCHANGED cvars /\ NumbersOK'
  BY Parts DEF OnSignalTest, NumbersOK
<1>2. PTypeOK'
  BY Parts, <1>1 DEF OnSignalTest, PTypeOK, W, Threads, MainThread, StatsThread
<1>3. FdInv'
  BY Parts, <1>1 DEF OnSignalTest, FdInv, PTypeOK
<1>4. QueueInv'
  BY Parts, <1>1 DEF OnSignalTest, QueueInv, PTypeOK, W, WorkerCount
<1>5. ThreadInv'
  BY Parts, <1>1 DEF OnSignalTest, ThreadInv, QueueInv, PTypeOK, W, Joinable,
     WorkerCount
<1>6. HandlerInv'
  BY Parts, <1>1 DEF OnSignalTest, HandlerInv, ThreadInv, FdInv, PTypeOK, W, Threads,
     MainThread, StatsThread, Joinable, Alive, Ended
<1>7. OutcomeInv'
  BY Parts, <1>1 DEF OnSignalTest, OutcomeInv, QueueInv, ThreadInv, PTypeOK, W,
     Joinable, WorkerCount
<1>8. QED
  BY <1>1, <1>2, <1>3, <1>4, <1>5, <1>6, <1>7 DEF PInv

LEMMA OnSignalWriteKeeps ==
  ASSUME PInv, NEW t \in Threads, OnSignalWrite(t)
  PROVE  PInv'
<1>1. UNCHANGED cvars /\ NumbersOK'
  BY Parts DEF OnSignalWrite, NumbersOK
<1>2. PTypeOK'
  BY Parts, <1>1 DEF OnSignalWrite, PTypeOK, W, Threads, MainThread, StatsThread
<1>3. FdInv'
  BY Parts, <1>1 DEF OnSignalWrite, FdInv, PTypeOK
<1>4. QueueInv'
  BY Parts, <1>1 DEF OnSignalWrite, QueueInv, PTypeOK, W, WorkerCount
<1>5. ThreadInv'
  BY Parts, <1>1 DEF OnSignalWrite, ThreadInv, QueueInv, PTypeOK, W, Joinable,
     WorkerCount
<1>6. HandlerInv'
  BY Parts, <1>1 DEF OnSignalWrite, HandlerInv, ThreadInv, FdInv, PTypeOK, W, Threads,
     MainThread, StatsThread, Joinable, Alive, Ended
<1>7. OutcomeInv'
  BY Parts, <1>1 DEF OnSignalWrite, OutcomeInv, QueueInv, ThreadInv, PTypeOK, W,
     Joinable, WorkerCount
<1>8. QED
  BY <1>1, <1>2, <1>3, <1>4, <1>5, <1>6, <1>7 DEF PInv

-----------------------------------------------------------------------------
LEMMA PInvStep == PInv /\ [PNext]_allvars => PInv'
<1> SUFFICES ASSUME PInv, [PNext]_allvars PROVE PInv'
  OBVIOUS
<1>1. CASE UNCHANGED allvars
  <2>1. UNCHANGED cvars /\ UNCHANGED lifevars
    BY <1>1 DEF allvars
  <2>2. PTypeOK' /\ NumbersOK' /\ FdInv'
    BY Parts, <2>1 DEF lifevars, PTypeOK, NumbersOK, FdInv
  <2>3. QueueInv' /\ ThreadInv'
    BY Parts, <2>1 DEF lifevars, QueueInv, ThreadInv, Joinable, WorkerCount
  <2>4. HandlerInv' /\ OutcomeInv'
    BY Parts, <2>1 DEF lifevars, HandlerInv, OutcomeInv, Alive, Ended, Joinable
  <2>5. QED
    BY <2>2, <2>3, <2>4 DEF PInv
<1>2. CASE MainStep
  BY <1>2, ParseArgsKeeps, ParseDoneKeeps, LoadBlocklistKeeps, MakeStopFdKeeps, BindStepKeeps,
     BindFailsKeeps, InstallKeeps, StartKeeps, StartFailsKeeps, SpawnStatsKeeps,
     JoinWorkerKeeps, StopStatsKeeps, JoinStatsKeeps, ReportKeeps, StopWorkersKeeps,
     DestroyWorkerKeeps, UnsetStopFdKeeps, CloseStopFdKeeps DEF MainStep
<1>3. ASSUME NEW w \in W, WorkerStep(w) \/ QueueFails(w) \/ Enqueue(w) PROVE PInv'
  BY <1>3, ReceiveKeeps, VerdictKeeps, LeaveKeeps, ReturnKeeps, QueueFailsKeeps,
     EnqueueKeeps DEF WorkerStep
<1>4. CASE StatsNap \/ StatsPrint
  BY <1>4, StatsNapKeeps, StatsPrintKeeps
<1>5. ASSUME NEW t \in Threads, Signal(t) \/ OnSignal(t) PROVE PInv'
  BY <1>5, SignalKeeps, OnSignalTestKeeps, OnSignalWriteKeeps DEF OnSignal
<1>6. CASE Killed
  BY <1>6, KilledKeeps
<1>7. QED
  BY <1>1, <1>2, <1>3, <1>4, <1>5, <1>6 DEF PNext, Over

\* The invariant holds throughout every run of the process.
LEMMA PInvAlways == PSpec => []PInv
<1>1. PInit => PInv
  BY PInvInit
<1>2. PInv /\ [PNext]_allvars => PInv'
  BY PInvStep
<1>3. QED
  BY <1>1, <1>2, PTL DEF PSpec

-----------------------------------------------------------------------------
\* Every variable of the process keeps its type; main never goes past the workers it
\* has, and the exit code is 0 or 1.
THEOREM ProcessTypeCorrect == PSpec => []PTypeOK
<1>1. PInv => PTypeOK
  BY DEF PInv
<1>2. QED
  BY <1>1, PInvAlways, PTL

\* Whatever the command line, the number of workers, the signals and what fails on
\* the way: main() returns with no thread running, no packet unanswered and no queue
\* or socket left.
THEOREM ExitsClean == PSpec => []ExitClean
<1>1. PInv => ExitClean
  <2> SUFFICES ASSUME PInv, mpc = "close" \/ mpc = "exited" PROVE ExitClean
    BY DEF ExitClean
  <2>1. \A w \in W : ~Joinable(w)
    BY Parts DEF ThreadInv
  <2>2. \A w \in W : owed[w] = 0
    BY Parts, <2>1 DEF ThreadInv
  <2>3. stats \in {"none", "exited"} /\ sock = {} /\ bound = {}
    BY Parts DEF ThreadInv, QueueInv, PTypeOK
  <2>4. QED
    BY <2>1, <2>2, <2>3 DEF ExitClean
<1>2. QED
  BY <1>1, PInvAlways, PTL

\* The descriptor that handlers write and workers poll is open whenever one of them
\* comes to use it, on whatever thread the handler runs.
THEOREM StopFdAlwaysOutlives == PSpec => []StopFdOutlives
<1>1. PInv => StopFdOutlives
  <2> SUFFICES ASSUME PInv PROVE StopFdOutlives
    OBVIOUS
  <2>1. \A w \in W : thread[w] = "running" => stopFd = "open"
    BY Parts DEF ThreadInv, FdInv, Joinable
  <2>2. QED
    BY Parts, <2>1 DEF HandlerInv, StopFdOutlives
<1>2. QED
  BY <1>1, PInvAlways, PTL

\* There is never a gap in the range of queues while a worker inspects and was not
\* told to stop, for any number of workers and whichever constructor fails.
THEOREM NeverAGap == PSpec => []NoGapUnlessStopped
<1>1. PInv => NoGapUnlessStopped
  <2> SUFFICES ASSUME PInv, NEW w \in W, thread[w] = "running", ~stop, mpc # "teardown"
               PROVE  bound = Workers
    BY DEF NoGapUnlessStopped
  <2>1. mpc \in Serving
    BY Parts DEF ThreadInv, FdInv, Joinable
  <2>2. built = WorkerCount /\ bound \subseteq W /\ \A v \in W : v \in bound <=> v < built
    BY Parts, <2>1 DEF QueueInv, PTypeOK
  <2>3. Workers \subseteq W /\ WorkerCount \in Nat
    BY Parts, Counted
  <2>4. \A v \in W : v < WorkerCount <=> v \in Workers
    BY <2>3 DEF Workers, W
  <2>5. QED
    BY <2>2, <2>3, <2>4
<1>2. QED
  BY <1>1, PInvAlways, PTL

\* The exit code is 1 exactly if startup failed or some worker's queue did.
THEOREM ExitCodeAlwaysTruthful == PSpec => []ExitCodeTruthful
<1>1. PInv => ExitCodeTruthful
  BY Parts DEF OutcomeInv, ExitCodeTruthful
<1>2. QED
  BY <1>1, PInvAlways, PTL

\* The statistics thread never reads a worker that is not there yet or no more.
THEOREM StatsAlwaysReadsLiveWorkers == PSpec => []StatsReadsLiveWorkers
<1>1. PInv => StatsReadsLiveWorkers
  <2> SUFFICES ASSUME PInv, stats = "print" PROVE sock = Workers
    BY DEF StatsReadsLiveWorkers
  <2>1. mpc \in Serving
    BY Parts DEF ThreadInv
  <2>2. built = WorkerCount /\ sock \subseteq W /\ \A v \in W : v \in sock <=> v < built
    BY Parts, <2>1 DEF QueueInv, PTypeOK
  <2>3. Workers \subseteq W /\ WorkerCount \in Nat
    BY Parts, Counted
  <2>4. \A v \in W : v < WorkerCount <=> v \in Workers
    BY <2>3 DEF Workers, W
  <2>5. QED
    BY <2>2, <2>3, <2>4
<1>2. QED
  BY <1>1, PInvAlways, PTL
=============================================================================
