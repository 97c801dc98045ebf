----------------------------- MODULE Lifecycle -----------------------------
(***************************************************************************)
(* main() (src/main.cpp), from the command line to the exit code: the      *)
(* queues are bound one after the other, then signal handlers installed,   *)
(* then a thread started per worker and perhaps one for statistics; main   *)
(* waits for them in order, reports, and takes everything down again.      *)
(* Anything that throws on the way leads to the same teardown.             *)
(*                                                                         *)
(* Main, the workers, the statistics thread and the kernel interleave.  A  *)
(* signal may be delivered to any thread at any time; its handler is two   *)
(* steps on that thread (the test of g_stop_fd, the write).  The inside of *)
(* a worker's thread is abstracted to the contract of module WorkerThread, *)
(* which module Worker is shown to keep: Receive, Verdict, QueueFails,     *)
(* Leave and Return are its actions.                                       *)
(***************************************************************************)
EXTENDS Cli, FiniteSets

CONSTANTS
  MaxWorkers,     \* bound: workers of any command line
  MaxSignals      \* bound: signals sent in a behaviour

ASSUME WorkersAssumption ==
  MaxWorkers \in Nat \ {0} /\ MaxOf["-j"] <= MaxWorkers /\ MaxSignals \in Nat

W == 0..(MaxWorkers - 1)
MainThread == -1
StatsThread == -2
Threads == W \cup {MainThread, StatsThread}

VARIABLES
  mpc,        \* where main() has got to
  at,         \* the worker it is working on, when it goes through them
  built,      \* workers.size()
  ctor,       \* what NFQueue's constructor does next: open, create, set_mode
  sock,       \* workers whose netlink handle is open
  bound,      \* workers whose queue the kernel delivers to
  thread,     \* per worker: bound (not started), running, leaving, exited
  owed,       \* per worker: packets received and not answered
  failed,     \* workers whose queue gave up
  waiting,    \* workers for whom the kernel has packets
  stopFd,     \* none, open, closed
  gStopFd,    \* g_stop_fd is not -1
  stop,       \* the stop fd has been written
  handler,    \* per thread: the signal handler's next step, or none
  installed,  \* the signal handlers are installed
  signals,    \* signals sent so far
  stats,      \* the statistics thread: none, sleep, print, exited
  reporting,  \* reporting
  rc,         \* rc
  threw       \* an exception was caught, or startup failed

lifevars == <<mpc, at, built, ctor, sock, bound, thread, owed, failed, waiting, stopFd, gStopFd, stop,
              handler, installed, signals, stats, reporting, rc, threw>>
allvars == <<cvars, lifevars>>

\* Groups that most steps leave alone.
queues == <<built, ctor, sock, bound, waiting>>
threadvars == <<thread, owed, failed>>
fds == <<stopFd, gStopFd, stop>>
reporter == <<stats, reporting>>
outcome == <<rc, threw>>

PInit ==
  /\ CInit
  /\ mpc = "parse" /\ at = 0 /\ built = 0 /\ ctor = "open" /\ sock = {} /\ bound = {}
  /\ thread = [w \in W |-> "bound"] /\ owed = [w \in W |-> 0] /\ failed = {} /\ waiting = {}
  /\ stopFd = "none" /\ gStopFd = FALSE /\ stop = FALSE
  /\ handler = [t \in Threads |-> "none"] /\ installed = FALSE /\ signals = 0
  /\ stats = "none" /\ reporting = FALSE /\ rc = 0 /\ threw = FALSE

Workers == 0..(WorkerCount - 1)
Ended == mpc \in {"exited", "killed"}

\* Main's next step, when no signal handler runs on its thread.
Main(p) == mpc = p /\ handler[MainThread] = "none"
sigs == <<handler, installed, signals>>
Keep == UNCHANGED <<cvars, threadvars, sigs>>

-----------------------------------------------------------------------------
\* Startup.

ParseArgs ==
  /\ Main("parse") /\ Parse
  /\ UNCHANGED lifevars

ParseDone ==
  /\ Main("parse") /\ parsed # "no"
  /\ mpc' = IF parsed = "run" THEN "load" ELSE "exited"
  /\ Keep /\ UNCHANGED <<at, queues, fds, reporter, outcome>>

\* The blocklist, then the stop fd; main() returns 1 if either cannot be had.
LoadBlocklist ==
  /\ Main("load")
  /\ \/ mpc' = "eventfd" /\ UNCHANGED <<rc, threw>>
     \/ mpc' = "exited" /\ rc' = 1 /\ threw' = TRUE
  /\ Keep /\ UNCHANGED <<at, queues, fds, reporter>>

MakeStopFd ==
  /\ Main("eventfd")
  /\ \/ mpc' = "bind" /\ stopFd' = "open" /\ gStopFd' = TRUE /\ UNCHANGED <<rc, threw>>
     \/ mpc' = "exited" /\ rc' = 1 /\ threw' = TRUE /\ UNCHANGED <<stopFd, gStopFd>>
  /\ Keep /\ UNCHANGED <<at, queues, stop, reporter>>

\* catch (const std::exception &): rc = 1, and on to the teardown.
Throw == mpc' = "teardown" /\ rc' = 1 /\ threw' = TRUE

\* The next worker's queue is not bound yet.
Binding == Main("bind") /\ built < WorkerCount

\* NFQueue's constructor for the next worker: nfq_open, nfq_create_queue, nfq_set_mode;
\* then the worker is in the vector.
BindStep ==
  /\ Binding
  /\ \/ ctor = "open" /\ ctor' = "create" /\ sock' = sock \cup {built} /\ UNCHANGED <<bound, built>>
     \/ ctor = "create" /\ ctor' = "set_mode" /\ bound' = bound \cup {built} /\ UNCHANGED <<sock, built>>
     \/ ctor = "set_mode" /\ ctor' = "open" /\ built' = built + 1 /\ UNCHANGED <<sock, bound>>
  /\ Keep /\ UNCHANGED <<mpc, at, waiting, fds, reporter, outcome>>

\* (mutant) A queue that cannot be bound is left out.
BindFailsSkipped ==
  /\ Binding
  /\ built' = built + 1 /\ ctor' = "open"
  /\ sock' = sock \ {built} /\ bound' = bound \ {built} /\ waiting' = waiting \ {built}
  /\ Keep /\ UNCHANGED <<mpc, at, fds, reporter, outcome>>

\* (mutant) A failed constructor closes nothing.
BindFailsLeaking ==
  /\ Binding
  /\ Throw
  /\ Keep /\ UNCHANGED <<at, queues, fds, reporter>>

\* A call in it fails: bail() undoes the earlier ones and throws.  Nothing of this
\* worker is left; those before it are in the vector.
BindFails ==
  /\ Binding
  /\ sock' = sock \ {built} /\ bound' = bound \ {built} /\ waiting' = waiting \ {built}
  /\ Throw
  /\ Keep /\ UNCHANGED <<at, built, ctor, fds, reporter>>

\* install_signal_handlers(), when every queue is bound.
Install ==
  /\ Main("bind") /\ ~Binding
  /\ mpc' = "start" /\ installed' = TRUE
  /\ UNCHANGED <<cvars, at, threadvars, handler, signals, queues, fds, reporter, outcome>>

\* (mutant) Only the first worker is started.
StartFirst ==
  /\ Main("start") /\ at \in Workers
  /\ thread' = [thread EXCEPT ![0] = IF at = 0 THEN "running" ELSE @] /\ at' = at + 1
  /\ UNCHANGED <<cvars, mpc, owed, failed, sigs, queues, fds, reporter, outcome>>

Start ==
  /\ Main("start") /\ at \in Workers
  /\ thread' = [thread EXCEPT ![at] = "running"] /\ at' = at + 1
  /\ UNCHANGED <<cvars, mpc, owed, failed, sigs, queues, fds, reporter, outcome>>

\* std::thread throws; the workers started so far run.
StartFails ==
  /\ Main("start") /\ at \in Workers
  /\ Throw
  /\ Keep /\ UNCHANGED <<at, queues, fds, reporter>>

SpawnStats ==
  /\ Main("start") /\ at \notin Workers
  /\ at' = 0
  /\ \/ num["--stats"] = 0 /\ mpc' = "join" /\ UNCHANGED <<stats, reporting, rc, threw>>
     \/ num["--stats"] > 0 /\ mpc' = "join" /\ stats' = "sleep" /\ reporting' = TRUE
          /\ UNCHANGED <<rc, threw>>
     \/ num["--stats"] > 0 /\ Throw /\ UNCHANGED <<stats, reporting>>
  /\ Keep /\ UNCHANGED <<queues, fds>>

-----------------------------------------------------------------------------
\* Shutdown.

\* join() returns at once for a thread that was never started.
Joinable(w) == thread[w] \in {"running", "leaving"}

JoinWorker ==
  /\ Main("join") /\ at \in Workers /\ ~Joinable(at)
  /\ at' = at + 1
  /\ Keep /\ UNCHANGED <<mpc, queues, fds, reporter, outcome>>

StopStats ==
  /\ Main("join") /\ at \notin Workers
  /\ mpc' = "unstat" /\ reporting' = FALSE
  /\ Keep /\ UNCHANGED <<at, queues, fds, stats, outcome>>

\* (mutant) The statistics thread is not waited for.
JoinStatsDetached ==
  /\ Main("unstat")
  /\ mpc' = "report"
  /\ Keep /\ UNCHANGED <<at, queues, fds, reporter, outcome>>

JoinStats ==
  /\ Main("unstat") /\ stats \in {"none", "exited"}
  /\ mpc' = "report"
  /\ Keep /\ UNCHANGED <<at, queues, fds, reporter, outcome>>

\* (mutant) The exit code is the last worker's.
ReportLast ==
  /\ Main("report")
  /\ mpc' = "teardown"
  /\ rc' = IF WorkerCount - 1 \in failed THEN 1 ELSE 0
  /\ Keep /\ UNCHANGED <<at, queues, fds, reporter, threw>>

\* (mutant) The exit code is the number of workers that failed.
ReportCount ==
  /\ Main("report")
  /\ mpc' = "teardown"
  /\ rc' = Cardinality(failed \cap Workers)
  /\ Keep /\ UNCHANGED <<at, queues, fds, reporter, threw>>

\* The final account: one worker's failed queue makes the exit code 1.
Report ==
  /\ Main("report")
  /\ mpc' = "teardown"
  /\ rc' = IF \E w \in Workers : w \in failed THEN 1 ELSE rc
  /\ Keep /\ UNCHANGED <<at, queues, fds, reporter, threw>>

\* (mutant) The workers are destroyed without being told to stop.
StopWorkersNot ==
  /\ Main("teardown")
  /\ mpc' = "clear" /\ at' = 0
  /\ Keep /\ UNCHANGED <<queues, fds, reporter, outcome>>

\* (mutant) The stop fd is closed once it has been written.
StopWorkersAndClose ==
  /\ Main("teardown")
  /\ mpc' = "clear" /\ at' = 0
  /\ stop' = (stop \/ gStopFd) /\ stopFd' = "closed"
  /\ Keep /\ UNCHANGED <<queues, gStopFd, reporter, outcome>>

\* on_signal(0), called by main itself.
StopWorkers ==
  /\ Main("teardown")
  /\ mpc' = "clear" /\ at' = 0
  /\ stop' = (stop \/ gStopFd)
  /\ Keep /\ UNCHANGED <<queues, stopFd, gStopFd, reporter, outcome>>

\* workers.clear(): ~Worker joins its thread, then ~NFQueue destroys the queue.
DestroyWorker ==
  /\ Main("clear") /\ at < built /\ ~Joinable(at)
  /\ at' = at + 1
  /\ sock' = sock \ {at} /\ bound' = bound \ {at} /\ waiting' = waiting \ {at}
  /\ Keep /\ UNCHANGED <<mpc, built, ctor, fds, reporter, outcome>>

UnsetStopFd ==
  /\ Main("clear") /\ at = built
  /\ mpc' = "close" /\ gStopFd' = FALSE
  /\ Keep /\ UNCHANGED <<at, queues, stopFd, stop, reporter, outcome>>

CloseStopFd ==
  /\ Main("close")
  /\ mpc' = "exited" /\ stopFd' = "closed"
  /\ Keep /\ UNCHANGED <<at, queues, gStopFd, stop, reporter, outcome>>

MainStep ==
  \/ ParseArgs \/ ParseDone \/ LoadBlocklist \/ MakeStopFd
  \/ BindStep \/ BindFails \/ Install \/ Start \/ StartFails \/ SpawnStats
  \/ JoinWorker \/ StopStats \/ JoinStats \/ Report
  \/ StopWorkers \/ DestroyWorker \/ UnsetStopFd \/ CloseStopFd

-----------------------------------------------------------------------------
\* The workers' threads, which stand still while a handler runs on them.

Worker(w, p) == thread[w] = p /\ handler[w] = "none"

Receive(w) ==
  /\ Worker(w, "running") /\ w \in waiting /\ ~stop /\ owed[w] = 0
  /\ owed' = [owed EXCEPT ![w] = 1] /\ waiting' = waiting \ {w}
  /\ UNCHANGED <<cvars, mpc, at, thread, failed, sigs, built, ctor, sock, bound, fds,
                 reporter, outcome>>

Verdict(w) ==
  /\ thread[w] \in {"running", "leaving"} /\ handler[w] = "none" /\ owed[w] > 0
  /\ owed' = [owed EXCEPT ![w] = 0]
  /\ UNCHANGED <<cvars, mpc, at, thread, failed, sigs, queues, fds, reporter, outcome>>

QueueFails(w) ==
  /\ Worker(w, "running")
  /\ failed' = failed \cup {w} /\ thread' = [thread EXCEPT ![w] = "leaving"]
  /\ UNCHANGED <<cvars, mpc, at, owed, sigs, queues, fds, reporter, outcome>>

Leave(w) ==
  /\ Worker(w, "running") /\ stop
  /\ thread' = [thread EXCEPT ![w] = "leaving"]
  /\ UNCHANGED <<cvars, mpc, at, owed, failed, sigs, queues, fds, reporter, outcome>>

Return(w) ==
  /\ Worker(w, "leaving") /\ owed[w] = 0
  /\ thread' = [thread EXCEPT ![w] = "exited"]
  /\ UNCHANGED <<cvars, mpc, at, owed, failed, sigs, queues, fds, reporter, outcome>>

WorkerStep(w) == Receive(w) \/ Verdict(w) \/ Leave(w) \/ Return(w)

\* The statistics thread sleeps in short naps and looks at reporting after each.
StatsNap ==
  /\ stats = "sleep" /\ handler[StatsThread] = "none"
  /\ stats' = IF reporting THEN "print" ELSE "exited"
  /\ UNCHANGED <<mpc, at, queues, fds, reporting, outcome>> /\ Keep

StatsPrint ==
  /\ stats = "print" /\ handler[StatsThread] = "none"
  /\ stats' = "sleep"
  /\ UNCHANGED <<mpc, at, queues, fds, reporting, outcome>> /\ Keep

-----------------------------------------------------------------------------
\* Signals, and the kernel.

Alive(t) ==
  \/ t = MainThread /\ ~Ended
  \/ t = StatsThread /\ stats \in {"sleep", "print"}
  \/ t \in W /\ Joinable(t)

\* SIGINT or SIGTERM is delivered to a thread.
Signal(t) ==
  /\ installed /\ signals < MaxSignals /\ Alive(t) /\ handler[t] = "none"
  /\ handler' = [handler EXCEPT ![t] = "test"] /\ signals' = signals + 1
  /\ UNCHANGED <<cvars, mpc, at, threadvars, installed, queues, fds, reporter, outcome>>

\* Without a handler it ends the process, and the kernel takes its queues down.
Killed ==
  /\ ~installed /\ ~Ended /\ signals < MaxSignals
  /\ mpc' = "killed" /\ sock' = {} /\ bound' = {} /\ waiting' = {}
  /\ signals' = signals + 1
  /\ UNCHANGED <<cvars, at, threadvars, handler, installed, built, ctor, fds, reporter, outcome>>

OnSignalTest(t) ==
  /\ handler[t] = "test"
  /\ handler' = [handler EXCEPT ![t] = IF gStopFd THEN "write" ELSE "none"]
  /\ UNCHANGED <<cvars, mpc, at, threadvars, installed, signals, queues, fds, reporter, outcome>>

OnSignalWrite(t) ==
  /\ handler[t] = "write"
  /\ handler' = [handler EXCEPT ![t] = "none"]
  /\ stop' = (stop \/ stopFd = "open")
  /\ UNCHANGED <<cvars, mpc, at, threadvars, installed, signals, queues, stopFd, gStopFd, reporter, outcome>>

OnSignal(t) == OnSignalTest(t) \/ OnSignalWrite(t)

\* The firewall rule sends a packet to a queue of the range.
Enqueue(w) ==
  /\ w \in bound \ waiting
  /\ waiting' = waiting \cup {w}
  /\ UNCHANGED <<mpc, at, built, ctor, sock, bound, fds, reporter, outcome>> /\ Keep

Over == Ended /\ UNCHANGED allvars

PNext ==
  \/ MainStep
  \/ \E w \in W : WorkerStep(w) \/ QueueFails(w) \/ Enqueue(w)
  \/ StatsNap \/ StatsPrint
  \/ \E t \in Threads : Signal(t) \/ OnSignal(t)
  \/ Killed \/ Over

\* Every thread is scheduled, and a handler that was entered returns.  Nobody need
\* send a packet or a signal, and no queue need fail.
PFairness ==
  /\ WF_allvars(MainStep)
  /\ \A w \in W : WF_allvars(Receive(w)) /\ WF_allvars(Verdict(w) \/ Leave(w) \/ Return(w))
  /\ WF_allvars(StatsNap \/ StatsPrint)
  /\ \A t \in Threads : WF_allvars(OnSignal(t))

PSpec == PInit /\ [][PNext]_allvars /\ PFairness

-----------------------------------------------------------------------------
Phases == {"parse", "load", "eventfd", "bind", "start", "join", "unstat", "report", "teardown",
           "clear", "close", "exited", "killed"}

PTypeOK ==
  /\ mpc \in Phases /\ at \in 0..MaxWorkers
  /\ built \in 0..MaxWorkers /\ ctor \in {"open", "create", "set_mode"}
  /\ sock \subseteq W /\ bound \subseteq W /\ failed \subseteq W /\ waiting \subseteq W
  /\ thread \in [W -> {"bound", "running", "leaving", "exited"}] /\ owed \in [W -> 0..1]
  /\ stopFd \in {"none", "open", "closed"} /\ gStopFd \in BOOLEAN /\ stop \in BOOLEAN
  /\ handler \in [Threads -> {"none", "test", "write"}]
  /\ installed \in BOOLEAN /\ signals \in 0..MaxSignals
  /\ stats \in {"none", "sleep", "print", "exited"} /\ reporting \in BOOLEAN
  /\ rc \in {0, 1} /\ threw \in BOOLEAN

\* However main() ends its run (a stop, a failed queue, an exception half way through
\* startup), when it is about to return no thread runs, no packet is unanswered, and
\* every queue and every socket it opened is gone.
ExitClean ==
  mpc = "close" \/ mpc = "exited" =>
    /\ \A w \in W : ~Joinable(w) /\ owed[w] = 0
    /\ stats \in {"none", "exited"}
    /\ sock = {} /\ bound = {}

\* The stop fd outlives its users: it is open as long as a worker polls it, and when
\* a handler that found g_stop_fd set comes to write it.
StopFdOutlives ==
  /\ \A w \in W : thread[w] = "running" => stopFd = "open"
  /\ \A t \in Threads : handler[t] = "write" => stopFd = "open" /\ gStopFd

\* While any worker inspects and nobody asked it to stop, every queue of the range
\* is bound: there is no gap through which the kernel lets packets pass.
NoGapUnlessStopped ==
  (\E w \in W : thread[w] = "running") /\ ~stop => mpc = "teardown" \/ bound = Workers

\* The exit code tells what happened: 1 exactly if startup failed or some worker's
\* queue did, be it the first or the last to be joined.
ExitCodeTruthful ==
  mpc = "exited" /\ parsed = "run" => (rc = 1 <=> threw \/ failed # {})

\* The statistics thread walks the workers only while all of them exist.
StatsReadsLiveWorkers == stats = "print" => sock = Workers

\* A signal that is delivered, on whatever thread and however far startup or teardown
\* has got, a written stop fd, and an exception all lead to the end of the process,
\* whatever the workers hold: no handler drops a signal because g_stop_fd is not set
\* yet, and no thread is waited for that nobody has told to stop.
ShutdownCompletes ==
  (stop \/ mpc = "teardown" \/ \E t \in Threads : handler[t] # "none") ~> Ended

\* A packet the kernel queued is read, unless its queue fails or the process stops.
QueueServed ==
  \A w \in W : (w \in waiting) ~> (w \notin waiting \/ w \in failed \/ stop \/ Ended)

\* NFQueue.hpp: "EVERY queue in the range must have a listener."  A packet the kernel
\* queued is read, or the process ends and the queue with it.
EveryQueueHasListener == \A w \in W : (w \in waiting) ~> (w \notin waiting)
=============================================================================
