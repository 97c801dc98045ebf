------------------------------ MODULE Worker ------------------------------
(***************************************************************************)
(* Worker and NFQueue (src/worker.cpp, src/NFQueue.cpp): the thread that   *)
(* polls a netfilter queue, feeds what it receives to the extractor, runs  *)
(* the sweep, and hands the verdicts back; until the stop fd is written or *)
(* the queue fails, when it flushes the extractor and drains it once more. *)
(*                                                                         *)
(* A turn of loop() is poll -> handle (once per packet received) -> tick   *)
(* -> drain; the way out is flush -> last (drain).  The extractor's calls  *)
(* are the steps of module Extractor: the worker waits while one is under  *)
(* way.  The kernel may refuse a verdict (nfq_set_verdict < 0).            *)
(*                                                                         *)
(* A statistics thread reads the two counters outstanding() subtracts, one *)
(* after the other, in either order, while the worker runs.                *)
(***************************************************************************)
EXTENDS ExtractorProps

CONSTANT MaxBatch    \* bound: packets one recv() carries

ASSUME MaxBatchAssumption == MaxBatch \in Nat

VARIABLES
  wpc,          \* where loop() has got to
  batch,        \* packets in the receive buffer not yet passed to handle()
  received, verdicted,    \* _received, _verdicted
  refused,      \* ids whose verdict the kernel did not take
  stop,         \* the stop fd has been written
  failed,       \* _err_errno # 0
  passthrough,  \* _passthrough
  sample        \* the statistics thread's reads of the two counters

wvars == <<wpc, batch, received, verdicted, refused, stop, failed, passthrough, sample>>
allvars == <<vars, wvars>>

NotRead == -1
NoSample == [rx |-> NotRead, tx |-> NotRead]

WTypeOK ==
  /\ TypeOK
  /\ wpc \in {"poll", "handle", "submit", "tick", "drain", "flush", "last", "exited"}
  /\ batch \in Seq(Header)
  /\ received \in Nat /\ verdicted \in Nat /\ refused \in SUBSET Nat
  /\ stop \in BOOLEAN /\ failed \in BOOLEAN /\ passthrough \in BOOLEAN
  /\ sample \in [rx : Nat \cup {NotRead}, tx : Nat \cup {NotRead}]

WInit ==
  /\ Init
  /\ wpc = "poll" /\ batch = <<>>
  /\ received = 0 /\ verdicted = 0 /\ refused = {}
  /\ stop = FALSE /\ failed = FALSE
  /\ passthrough \in BOOLEAN
  /\ sample = NoSample

-----------------------------------------------------------------------------
\* run_once().  poll() reports the stop fd whenever it is readable, and a
\* timeout or an interruption only when neither fd is.

At(w) == wpc = w /\ pc = "idle"

\* (mutant) The stop fd wakes poll() and nothing more.
PollStopIgnored ==
  /\ At("poll") /\ stop
  /\ wpc' = "tick"
  /\ UNCHANGED <<vars, batch, received, verdicted, refused, stop, failed, passthrough, sample>>

PollStop ==
  /\ At("poll") /\ stop
  /\ wpc' = "flush"
  /\ UNCHANGED <<vars, batch, received, verdicted, refused, stop, failed, passthrough, sample>>

\* Timeout, EINTR, a spurious wakeup, or a recv() that failed transiently.
PollIdle ==
  /\ At("poll") /\ ~stop
  /\ wpc' = "tick"
  /\ UNCHANGED <<vars, batch, received, verdicted, refused, stop, failed, passthrough, sample>>

\* poll() or recv() failed for good.
PollError ==
  /\ At("poll")
  /\ failed' = TRUE
  /\ wpc' = "flush"
  /\ UNCHANGED <<vars, batch, received, verdicted, refused, stop, passthrough, sample>>

\* (mutant) The socket is looked at before the stop fd.
PollPacketsFirst ==
  /\ At("poll")
  /\ \E n \in 1..MaxBatch : /\ nextId + n <= MaxPkts + 1
                            /\ batch' \in [1..n -> Arrivals]
  /\ wpc' = "handle"
  /\ UNCHANGED <<vars, received, verdicted, refused, stop, failed, passthrough, sample>>

\* recv() overwrites the buffer with one or more packets.
PollPackets ==
  /\ At("poll") /\ ~stop
  /\ \E n \in 1..MaxBatch : /\ nextId + n <= MaxPkts + 1
                            /\ batch' \in [1..n -> Arrivals]
  /\ wpc' = "handle"
  /\ UNCHANGED <<vars, received, verdicted, refused, stop, failed, passthrough, sample>>

-----------------------------------------------------------------------------
\* handle() and submit().

\* (mutant) Verdicts are counted whether or not the kernel took them.
SetVerdictCountsAll(id) == verdicted' = verdicted + 1 /\ refused' \in {refused, refused \cup {id}}

\* nfq_set_verdict() for packet id: counted if the kernel took it.
SetVerdict(id) ==
  \/ verdicted' = verdicted + 1 /\ UNCHANGED refused
  \/ refused' = refused \cup {id} /\ UNCHANGED verdicted

Handle ==
  /\ At("handle") /\ batch # <<>> /\ ~passthrough
  /\ Feed(Head(batch))
  /\ batch' = Tail(batch)
  /\ received' = received + 1
  /\ UNCHANGED <<wpc, verdicted, refused, stop, failed, passthrough, sample>>

\* Every packet is submitted as it comes, without the extractor looking at it.
HandlePassthrough ==
  /\ At("handle") /\ batch # <<>> /\ passthrough
  /\ cur' = Arrived(Head(batch))
  /\ nextId' = nextId + 1
  /\ batch' = Tail(batch)
  /\ received' = received + 1
  /\ wpc' = "submit"
  /\ UNCHANGED <<table, decided, toClose, pcpp, sinceSweep, blockedGauge, droppedAtCap, pc,
                 todo, events, answered, verdicted, refused, stop, failed, passthrough, sample>>

SubmitPassthrough ==
  /\ At("submit")
  /\ answered' = Append(answered, Settle(cur, "ALLOW", "undissected"))
  /\ SetVerdict(cur.id)
  /\ cur' = NoPacket
  /\ wpc' = "handle"
  /\ UNCHANGED <<table, decided, toClose, pcpp, sinceSweep, blockedGauge, droppedAtCap, pc,
                 todo, events, nextId, batch, received, stop, failed, passthrough, sample>>

Handled ==
  /\ At("handle") /\ batch = <<>>
  /\ wpc' = "tick"
  /\ UNCHANGED <<vars, batch, received, verdicted, refused, stop, failed, passthrough, sample>>

\* The extractor's own steps, while a call into it is under way.
Extract == Step /\ UNCHANGED wvars

\* (mutant) The loop leaves sweeping to feed().
LoopTickSkipped ==
  /\ At("tick")
  /\ wpc' = "drain"
  /\ UNCHANGED <<vars, batch, received, verdicted, refused, stop, failed, passthrough, sample>>

LoopTick ==
  /\ At("tick")
  /\ wpc' = "drain"
  /\ IF sinceSweep >= SweepInterval THEN Tick ELSE UNCHANGED vars
  /\ UNCHANGED <<batch, received, verdicted, refused, stop, failed, passthrough, sample>>

\* drain_decided(): submit() for each decided packet in turn.
Submit ==
  /\ \/ At("drain")
     \/ wpc = "last" /\ pc = "done"
  /\ decided # <<>>
  /\ answered' = Append(answered, Head(decided))
  /\ decided' = Tail(decided)
  /\ SetVerdict(Head(decided).pkt.id)
  /\ UNCHANGED <<table, toClose, pcpp, sinceSweep, blockedGauge, droppedAtCap, pc, cur, todo,
                 events, nextId, wpc, batch, received, stop, failed, passthrough, sample>>

\* (mutant) The next recv() does not wait for the drain.
DrainedEarly ==
  /\ At("drain")
  /\ wpc' = "poll"
  /\ UNCHANGED <<vars, batch, received, verdicted, refused, stop, failed, passthrough, sample>>

Drained ==
  /\ At("drain") /\ decided = <<>>
  /\ wpc' = "poll"
  /\ UNCHANGED <<vars, batch, received, verdicted, refused, stop, failed, passthrough, sample>>

LastFlush ==
  /\ At("flush")
  /\ Flush
  /\ wpc' = "last"
  /\ UNCHANGED <<batch, received, verdicted, refused, stop, failed, passthrough, sample>>

\* (mutant) The thread returns without draining what flush() decided.
ExitUndrained ==
  /\ wpc = "last" /\ pc = "done"
  /\ wpc' = "exited"
  /\ UNCHANGED <<vars, batch, received, verdicted, refused, stop, failed, passthrough, sample>>

Exit ==
  /\ wpc = "last" /\ pc = "done" /\ decided = <<>>
  /\ wpc' = "exited"
  /\ UNCHANGED <<vars, batch, received, verdicted, refused, stop, failed, passthrough, sample>>

-----------------------------------------------------------------------------
\* The rest of the process.

\* A signal handler writes the stop fd; nothing ever reads it empty.
Stop ==
  /\ ~stop
  /\ stop' = TRUE
  /\ UNCHANGED <<vars, wpc, batch, received, verdicted, refused, failed, passthrough, sample>>

WElapse == Elapse /\ UNCHANGED wvars

\* outstanding(): two loads, in either order.
ReadReceived ==
  /\ sample.rx = NotRead
  /\ sample' = [sample EXCEPT !.rx = received]
  /\ UNCHANGED <<vars, wpc, batch, received, verdicted, refused, stop, failed, passthrough>>

ReadVerdicted ==
  /\ sample.tx = NotRead
  /\ sample' = [sample EXCEPT !.tx = verdicted]
  /\ UNCHANGED <<vars, wpc, batch, received, verdicted, refused, stop, failed, passthrough>>

\* The difference is printed and the thread goes back to sleep.
Report ==
  /\ sample.rx # NotRead /\ sample.tx # NotRead
  /\ sample' = NoSample
  /\ UNCHANGED <<vars, wpc, batch, received, verdicted, refused, stop, failed, passthrough>>

Stats == ReadReceived \/ ReadVerdicted \/ Report

Loop ==
  \/ PollStop \/ PollIdle \/ PollError \/ PollPackets
  \/ Handle \/ HandlePassthrough \/ SubmitPassthrough \/ Handled
  \/ Extract \/ LoopTick \/ Submit \/ Drained
  \/ LastFlush \/ Exit

Exited == wpc = "exited" /\ UNCHANGED allvars

WNext == Loop \/ Stop \/ WElapse \/ Exited
SNext == WNext \/ Stats

WSpec == WInit /\ [][WNext]_allvars

\* The thread keeps running: poll() waits kIdlePoll at most, and no call blocks.
WFairSpec == WSpec /\ WF_allvars(Loop) /\ WF_allvars(WElapse)

\* With the statistics thread beside it.
StatsSpec == WInit /\ [][SNext]_allvars /\ WF_allvars(Loop) /\ WF_allvars(Stats)

\* feed() has its packet by value.  An exception that leaves it before the packet is
\* held or decided destroys the packet; handle() swallows the exception and finds
\* its own, moved-from packet no longer pending.
FeedThrows ==
  /\ pc = "lookup"
  /\ UNCHANGED conns
  /\ Return
  /\ UNCHANGED <<ring, ringNext, decided, toClose, pcpp, sinceSweep, blockedGauge,
                 droppedAtCap, todo, events, nextId, answered, wvars>>

ThrowSpec == WInit /\ [][WNext \/ FeedThrows]_allvars

-----------------------------------------------------------------------------
\* run_once() hands the receive buffer to recv() only when no packet the worker
\* still answers for points into it: the decided buffer is drained and what is
\* held has released its bytes.
BufferFree == wpc = "poll" => decided = <<>> /\ NoDanglingView

\* received - verdicted is exactly what is still to be answered or was refused
\* by the kernel: what outstanding() promises, when nobody is half way through.
CountersBalance ==
  received - verdicted = Cardinality(PendingIds) + Cardinality(refused)

\* When the thread has returned, every packet it received has been submitted,
\* whatever it was holding when the stop request or the queue's error came.
ExitLeavesNothing ==
  wpc = "exited" => /\ PendingIds = {} /\ batch = <<>>
                    /\ Len(answered) = received

Thread == INSTANCE WorkerThread WITH
  phase <- CASE wpc \in {"flush", "last"} -> "leaving" [] wpc = "exited" -> "exited"
             [] OTHER -> "running",
  owed <- Cardinality(PendingIds)

\* The loop, with all its calls into the queue and the extractor, is a thread as
\* main() relies on it: it takes packets only while it runs, never gives an answer
\* it does not owe, and returns for no other reason than a stop or a failed queue.
ThreadContract == Thread!Spec

\* A stop request, or a failed queue, is always followed by the thread's return.
StopHonoured == (stop \/ failed) ~> (wpc = "exited")

\* Once a stop was requested or the queue has failed, nothing more is taken from the
\* kernel: what handle() has still to be passed, and has been, never grows again, so
\* that a queue that always has packets cannot keep the loop from leaving.  (A recv()
\* that poll() had already let through counts as before the request.)
IntakeStops ==
  [][stop \/ failed => received' + Len(batch') = received + Len(batch)]_allvars

\* Every packet passed to handle() is submitted in the end, by the loop's own
\* order of calls alone: tick() and drain_decided() on every turn.
EveryPacketSubmitted ==
  \A id \in 1..MaxPkts : (nextId > id) ~> (id \in AnsweredIds)

\* handle(): "Swallowing it leaves `pkt` pending, which the fail-safe below then
\* catches."  Between calls every packet received is pending or answered, whether
\* or not the callback threw.
NoPacketStranded == pc = "idle" => 1..(nextId - 1) \subseteq PendingIds \cup AnsweredIds

\* NFQueue.hpp on outstanding(): "Received but not yet verdicted -- what some flow
\* is holding right now."  What the statistics thread computes is never below 0
\* (the code's subtraction is unsigned, so below 0 is close to 2^64).
OutstandingNotNegative ==
  sample.rx # NotRead /\ sample.tx # NotRead => sample.rx - sample.tx >= 0
=============================================================================
