# PacketInspector in TLA+

PacketInspector is a user-space packet filter. The firewall hands it the
client-to-server packets of TCP connections through netfilter queues; it holds
the packets of a connection until the server name in its TLS ClientHello is
known, and then lets the connection pass or drops it. This directory models the
program as TLA+ modules, from the command line to the verdict, checks them with
TLC on small instances, and proves with TLAPS, for every value of the parameters,
that packets are answered once and in order, that the tables keep their bounds,
who is dropped and who gets through, that the parsers read the bytes they are
given and find the name a client wrote, the name matching, and the safety of a
worker's loop and of startup and shutdown. Every invariant and every action
property of the passing runs is also a theorem; liveness is left to TLC.

Source paths below are relative to the repository.

## 1. Inventory

| Part | State | Operations | Talks to | Modules |
|---|---|---|---|---|
| `TcpTlsHostnameExtractor` (`src/hostname_extractor.cpp`) | flow table `_conns`, ring of blocked keys, decided buffer, closes to make, gauges | `feed`, `tick`/`sweep`, `flush`, and three callbacks that run inside `reassemblePacket()` | reassembler (calls and callbacks), worker (decided buffer, policy) | `Extractor`, `ExtractorProps` |
| `pcpp::TcpReassembly` (library) | connection map, out-of-order data, closed connections waiting to be purged | `reassemblePacket`, `closeConnection`, `purgeClosedConnections` | extractor | `TcpReassembly` |
| ClientHello parser (`extractHostname`) | none | one function of the bytes so far: found / not found / need more | extractor | `ClientHello` |
| `Packet` (`src/packet.cpp`) | bytes (view, owned, none), id, pending flag | dissection, `routeKey`, `materialize`, `release_bytes` | everyone | `Dissect`, `Extractor` |
| `BlockList` (`src/blocklist.cpp`) | two sets of names, read-only | `isHostnameBlocked` | worker's policy | `BlockList` |
| `Worker` (`src/worker.cpp`) | a thread, the extractor, the queue | `loop`, `drain_decided`, `start`, `join` | queue, extractor, main | `Worker`, `WorkerThread` |
| `NFQueue` (`src/NFQueue.cpp`) | netlink handle, receive buffer, counters, error | constructor, `run_once`, `handle`, `submit`, destructor | kernel, worker | `Worker`, `Lifecycle` |
| `main` (`src/main.cpp`) | workers, stop fd, statistics thread, exit code | bind, start, join, report, tear down; signal handler | workers, kernel | `Lifecycle` |
| `cli`, `config` | options | parse; worker count, queue range, buffer share | main | `Cli` |
| `scripts/nfqueue.sh.in` | iptables rules | install, remove | kernel | none |

What is hard here, and what would have to be right:

* **Decisions in the middle of a call.** A callback made by `reassemblePacket()`
  may resolve the flow whose packet `feed()` still has in hand; more callbacks
  for the same packet follow. Every packet must be decided exactly once and in
  the order of its connection (`LedgerKept`, `DecidedOnce`, `FlowOrderKept`).
* **Borrowed bytes.** Packets are views of a buffer the next `recv()` overwrites
  (`NoDanglingView`, `BufferFree`).
* **Two bounds in one table.** Blocked flows have their own limit, kept by a ring
  of keys that may be stale; evicting must never touch an undecided flow
  (`TableBounded`, `RingCovers`, `BuffersBounded`).
* **Two tables that must agree.** The reassembler has its own connection map, and
  a connection nobody closes stays in it for ever (`NoReassemblerLeak`,
  `ReassemblerReclaimed`).
* **The purpose itself.** A blocked ClientHello gets through only where the code
  chooses to fail open, and an innocent connection is never dropped
  (`BlockedHelloStopped`, `OnlyBlockedHostsDropped`, `VerdictOfHello`).
* **Bytes with lengths in them.** A hello may be cut anywhere, by records and by
  segments, and its lengths may be wrong. Too early a "not found" lets a name
  through; too late a one holds packets; a length believed reads past the buffer
  (`WaitsForWholeHello`, `AnswerFinal`, `OnlyReadsItsBytes`, `PayloadFound`,
  `LookupCorrect`, `OneKeyPerConnection`).
* **Silence and shutdown of a worker.** Held packets of a silent client, a stop
  request on a busy queue, a failed queue (`EveryPacketSubmitted`, `StopHonoured`,
  `IntakeStops`, `ExitLeavesNothing`, `ThreadContract`).
* **Startup and shutdown of the process.** Any of a dozen calls may fail with
  queues bound and threads running, and signals arrive on any thread
  (`ExitClean`, `NoGapUnlessStopped`, `StopFdOutlives`, `ShutdownCompletes`,
  `ExitCodeTruthful`, `QueueServed`, `ConfigFits`).
* **Shared counters.** A statistics thread reads them while the workers run
  (`CountersBalance`, `GaugeFresh`, `StatsReadsLiveWorkers`,
  `OutstandingNotNegative`).

`PROJECT.json` lists each hazard at its line.

## 2. Modules

| Module | Models | Uses |
|---|---|---|
| `TcpReassembly` | the reassembler as the extractor uses it (external) | |
| `Extractor` | the flow table: state, one action per branch of `feed()`, per step of `sweep()` and `flush()`, per callback | `TcpReassembly` |
| `PacketLedger` | abstract: what is handed over is answered once | |
| `ExtractorProps` | the properties, and the mapping to `PacketLedger` | `Extractor` |
| `WorkerThread` | abstract: what `main()` relies on of a worker's thread | |
| `Worker` | `Worker::loop`, `NFQueue::run_once/handle/submit`, the stop fd, the statistics thread's reads; it uses the extractor's actions as they are | `ExtractorProps`, `WorkerThread` |
| `Dissect` | `Packet::flow_view()`: headers, payload, flow key, as operators on bytes | |
| `ClientHello` | `extractHostname()`, as operators on bytes | `Dissect` (byte reads) |
| `BlockList` | the constructor's sets and `isHostnameBlocked()`, one lookup a step | |
| `Inspection` | packet bytes to verdict: dissection, stream, parser, policy | `ClientHello`, `BlockList` |
| `Cli` | `cli::parse()`, an argument a step; `Config`'s derived values | |
| `Lifecycle` | `main()`, several workers' threads, signal handlers, the statistics thread, the kernel's queues; the worker's steps are `WorkerThread`'s | `Cli` |
| `MCExtractor`, `MCWorker`, `MCInspection`, `MCLifecycle` | instances for TLC | |
| `ExtractorProofs` | the extractor's types, the bounds of its table, what flows buffer, what each step of a call moves | `ExtractorProps` |
| `LedgerProofs` | each packet once, and in order; the ledger implemented | `ExtractorProofs` |
| `VerdictProofs` | whose packets are dropped; the two tables agree; a blocked hello is stopped | `ExtractorProofs` |
| `WorkerProofs` | the loop, its counters and its buffer; ledger and thread contract implemented | `Worker`, `LedgerProofs` |
| `ParserProofs` | both parsers, on any bytes: no read outside them, no answer taken back | `ClientHello` |
| `WireProofs` | both parsers, on bytes a client wrote: the payload, the key, the name | `Inspection`, `ParserProofs` |
| `InspectionProofs` | name matching; the properties of `Inspection` | `WireProofs` |
| `LifecycleProofs` | the configuration; startup and shutdown | `Lifecycle` |

### Extractor

`feed()`, `tick()` and `flush()` run on one thread, so a call is a sequence of
steps: `pc` says where it has got to, and while it is not `idle` no other call
starts and no time passes (the code reads the clock once per call).

```
idle --Feed--> [sweep] --> lookup --> idle                         (early returns)
                              |-----> callbacks --Epilogue--> idle (reassembled)
idle --Tick--> sweep --> idle          idle --Flush--> flush --> done
```

* `conns[k]` is `_conns`; `Absent` is "no entry". `ring`, `ringNext`, `toClose`,
  `decided` are `_block_ring`, `_block_next`, `_to_close`, `_decided`; the gauges
  are `_flows`, `_blocked` and `_dropped_at_cap`.
* `events` is the list of callbacks one `reassemblePacket()` makes; they are taken
  one at a time by `OnConnectionStart`, `OnMessageReady`/`OnMessageIgnored` and
  `OnConnectionEnd`, each looking the flow up again as the code does.
* `Resolve` is `resolve()`: verdict, table, deferred close, held packets. Its guard
  on flows already decided is in its callers, which are the only places the state
  can differ.
* Bytes are numbered segments. A connection's ClientHello is its segments
  `1..HelloLen`; `OpenSegs` are the segments that look like the start of a
  handshake record, the second record of a split ClientHello among them
  (`hostname_extractor.cpp:91-98`, sent by `tests/unit/test_extractor.cpp:819-846`).
  The parser's answer is fixed for one kind of stream, a client's bytes from the
  first on with a hello at their start; of every other (no TLS, read from the
  middle, pieces of several) it is left open: wait, no name, or a name that is in
  it (`ExtractHostname` is a set there).
* The key is an arbitrary function of the connection, so collisions and the value
  zero are included.
* The token is the reassembler's connection, and `NoConn` "none yet". In the code
  "none" is the number 0 (line 597), so a connection whose hash in the reassembler
  is 0 is never closed by the extractor. Such connections are left out of the
  model: `NoReassemblerLeak` and `ReassemblerReclaimed` do not speak of them.
* Times are ages that stop growing at the limit they are compared with.
* History: `answered`, the field `why` of a decision and `again` of a reassembler
  connection are read by properties only.

Observations made on the way: the second sweep in `feed()` at the cap (lines
389-392) can never run, since `tick()` has just run with the same clock reading;
the blocked gauge is counted before the sweep erases and is not reset by
`flush()`; `dropped_at_cap` counts packets, not flows.

### Worker

One turn of `loop()` is poll, handle once per packet, tick, drain; on a stop or
an error, flush and a last drain. `poll()` reports the stop fd before the socket.
The kernel may refuse any verdict. `WSpec` is the worker, `StatsSpec` adds the
statistics thread, `ThrowSpec` adds an exception leaving `feed()`.

`ThreadContract` is the refinement of `WorkerThread`: the loop's position is the
phase, and what it owes is the number of packets received and not answered. A
refused verdict counts as an answer, since the code does not retry it.

`IntakeStops` and `StopHonoured` go together. The arrivals of a behaviour are
bounded by `MaxPkts`, so `StopHonoured` alone would hold of a loop that reads the
socket before it looks at the stop fd, and that a busy queue keeps for ever;
`IntakeStops` says that nothing is taken once the stop is requested, whatever is
waiting, and then the bound on arrivals takes nothing away.

### Dissect, ClientHello, BlockList, Inspection

These compute what `Extractor` takes as given of a connection: where its hello
ends, which host it names, whether that host is blocked, which key it has.

* A buffer is its bytes and `junk`: a read past the end returns `junk`. A result
  that depends on it is a read out of bounds, so `OnlyReadsItsBytes` is a check
  and not an assumption.
* `ClientHello` follows the code's two ways through the record layer (the message
  in one record, or payloads joined) and its walk over lengths. `Join` leaves the
  loop at the code's exits; running out of input inside the loop and at its end
  give the same answer, so the model has one test for both. A loop is a recursive
  function of where it stands (`from`, and `at` in `WalkV6`), which TLC computes
  and TLAPS can unfold.
* `BlockList` is a machine rather than an operator, so that the loop of
  `isHostnameBlocked()` can be proved about: `dot` is the loop variable.
  `Listed` is what the list means, line by line; `IsWildcard` is shared by both,
  being the format itself.
* In `Inspection` a behaviour is about one case: a hello as a client would
  describe it, the positions where its records end, at most one damaged byte, and
  how packets are made. The encoders are the environment. What they assume of a
  case (`CasesAssumption`) is that lengths fit their fields and the extractor's
  limits (`HelloFits`, `RecordsFit`, `EncapFits`); a damaged byte then makes any
  one of them wrong. An extension is a list of names whatever its type, since the
  code looks into none but `server_name`; cipher suites and compression are one
  fixed list each, skipped by their lengths. `Deliver` is one segment: dissect,
  append, parse, and give up over `kMaxStreamBytes`. Segments come in order, with
  the flow tracked since its SYN: other orders are `Extractor`'s matter.
  `LookAtCut` dissects a packet cut after any byte.
* The run checks deadlock, so a lookup that cannot go on would be found.

### Cli and Lifecycle

`Cli` takes one argument a step; an argument is its text, whether it begins with
a dash, and the number it spells. The numeric options differ only in their range,
which is a constant.

```
parse -> load -> eventfd -> bind -> start -> join -> unstat -> report -> teardown -> clear -> close -> exited
           |        |         |       |                                     ^
        exited   exited       +-------+------------- an exception ----------+
```

* `mpc` is `main()`'s place. `BindStep` takes `NFQueue`'s constructor a call at a
  time (`ctor`), since each may fail and `bail()` must undo the earlier ones
  (`nfq_bind_pf` failing is `BindFails` after `nfq_open`). `built` is
  `workers.size()`.
* A signal before the handlers are installed ends the process (`Killed`). Later
  it runs `on_signal()` on any thread, in two steps: the test of `g_stop_fd` and
  the write. A thread stands still while its handler runs.
* `join()` waits until the thread is not joinable; `DestroyWorker` is `~Worker`
  and `~NFQueue`.
* A worker's inside is what `WorkerThread` says of it; its `poll()` sees the stop
  fd before the socket, so nothing is received after a stop. `owed` is 0 or 1
  (a batch), `waiting` is whether the kernel has packets for it.
* `WorkerThread` joins the two levels: `Receive`, `Verdict`, `QueueFails`, `Leave`
  and `Return` are its actions, guard for guard, one worker of several taking
  them; that the code behaves so is `ThreadContract`, checked and proved of
  `Worker`.

### Mutants

An operator whose comment begins with "(mutant)" is a plausible bug of the
definition that follows it. It is used by nothing; with it in the definition's
place, TLC finds the property `PROJECT.json` names violated, which shows that the
property depends on the code behaving as it does.

## 3. Runs

Passing:

| Run | Instance | Checks |
|---|---|---|
| `extractor_hello` | one connection to a blocked host, hello of two segments that each begin with a record, later data, SYN/FIN/RST, 4 packets | types, each packet decided once and in order, buffers bounded, no dangling view, the hello stopped, the ledger |
| `extractor_table` | four connections, one innocent, table of three, two blocked slots, 4 packets | both bounds, the ring, no innocent drop, no leak in the reassembler, the gauge |
| `extractor_sharedkey` | two connections with one key, a FIN with data, an undissectable packet, 4 packets | order and ledger in spite of the collision |
| `worker_loop` | two connections, batches of two, 3 packets, with fairness | the buffer free at `recv()`, counters, nothing left at exit, the ledger, the thread's contract, nothing taken after a stop; a stop is honoured, every packet submitted, every connection reclaimed |
| `inspection` | some twenty hellos, names and encapsulations; cut at every byte, damaged at every byte | the verdict is the list's on the name, no early and no changed answer, no read past a buffer, the payload, the key, the lookup |
| `startup` | two workers, statistics, two signals, some fifty command lines, with fairness | clean exit from every failure, the stop fd's lifetime, no gap, the exit code, the configuration; shutdown completes after a stop, an exception or a signal on any thread, queues are served |

Where the code disagrees with what its comments or tests say (each run checks the
one statement, and TLC finds it violated):

| Run | Statement | What happens |
|---|---|---|
| `extractor_later` | later packets of an allowed flow take the untracked path | a later handshake record of the client (TLS 1.2 sends one) starts tracking again; it is held until the idle sweep, because the reassembler still ignores the closed connection |
| `extractor_zerokey` | blocked flows are bounded by `max_blocked` | a flow with key 0 is on the ring but taken for an empty slot |
| `extractor_evicted` | a retransmitted ClientHello reaches the same verdict | the reassembler ignores it for a second after the close, and the wait ends in ALLOW |
| `worker_stats` | `outstanding()` is what is held right now | two reads at different times; the unsigned difference wraps |
| `worker_throw` | a swallowed exception leaves the packet pending | it was moved into `feed()`'s parameter; nobody answers it |
| `startup_gap` | every queue in the range has a listener | a worker whose queue failed has returned, main waits for the others, and its queue stays bound with nobody reading |

`QueueServed` is what does hold in place of the last: a queued packet is read
unless that worker's own queue failed or the process stops.

`OnlyBlockedHostsDropped` is not among the checks of `extractor_sharedkey`: with
one entry for two connections the verdict of one does fall on the other; nor is
`NoReassemblerLeak`, as the entry remembers one of two tokens. And
`BlockedHelloStopped` names two more ways past the filter than the code's own
fail-open paths. The first: a 5-tuple opened again within `kPcppClosedDelaySec` of its close
is ignored by the reassembler at first, and then read from its middle. The stream
read from the middle is mostly a new one ("midstream"). The attempt to prove the
property with that exception alone showed that it may also be one the flow has
the beginning of ("foreign"): after a flood, the queued close is not drained
before the next packet, so the flow admitted again reads on from the connection
that is still open, which the epilogue then closes under it. TLC confirms it with
a hello of three segments, `MaxHeld = 2` and six packets, beyond the bounds of
`extractor_hello`; the property now names both.

The second: the ClientHello is split over records, the second record begins a
segment, and that segment is the first packet of the connection that is seen
(its SYN came before the program attached, or was let through at the cap). The
gate at line 379, meant for flows already in progress, takes it for an opening
one; the parser finds no hello at its start, and the flow is allowed
(`BeganLate`). The property fails on the instance of `extractor_hello` without
this exception. With the SYN tracked, the order of the two segments makes no
difference.

Smaller observations, made while translating:

* `packet.hpp:135` says the flow "is left default" when a packet cannot be
  dissected; fields read before the failure stay filled in. No caller looks.
* An IPv4 `total_length` of 0 falls back to the captured length; an IPv6 payload
  length of 0 does not, and the packet is allowed undissected (`Dissectable`).
* The loop that follows IPv6 extension headers tests for the transport first, so
  `kMaxV6ExtHeaders = 8` lets at most seven be passed.
* A message length up to 65535 is believed, but a stream is given up at
  `kMaxStreamBytes` (32 KiB): a longer hello is allowed unread. `VerdictOfHello`
  speaks of streams up to that limit.
* `parse_uint()` accepts a minus sign, since `strtoull()` negates in its unsigned
  type: -18446744073709551615 is 1 (`Number(-31)` in `MCLifecycle`). One further is
  out of range whatever the sign (`Number(-32)`, refused).

**Bounds.** Extractor: `MaxPkts` packets per behaviour: four are a SYN, both
segments of a hello and one packet more, in any order (or, in the table run, one
more new flow than the table takes). Limits are set so that they are reached:
`MaxHeld` and `MaxStream` by three or four packets, the ring and the table by
three blocked flows and one undecided, timeouts of one or two units with a sweep
interval of one. `MaxFlowsArg = 0` and `MaxBlockedArg = 0` in the hello run
exercise the constructor's defaults. A FIN that carries the last
segment of the hello is in `extractor_sharedkey` only; for `BlockedHelloStopped`
the theorem covers it.

Inspection: `RandomLen = 2`, `MaxRecord = 52`, `MaxMsg = 60`,
`MaxStreamBytes = 50` stand for 32, 16384, 65535 and 32768. The first shortens a
hello to some forty bytes; the limits are just above the hellos of `MCCases`, so
that damaged lengths pass them and the one long hello exceeds the stream limit.
One record boundary at every position covers those inside the message header,
where the fast path must not be taken. Segments of 1 and 3 bytes and of
everything left: cuts at every byte, several bytes together, and the whole. Two
junk bytes, 0 and 255, differ in every bit. `KeyMod = 1024` in place of 2^32
keeps products in TLC's integers; the symmetry does not depend on it.

Lifecycle: two workers (one that main waits for and one that it does not yet);
three were tried as well and pass. Two signals put two handlers at different
steps. Four queue numbers, so that the range ends inside and outside;
`UllSpace = 32` for `strtoull()`'s 2^64.

No symmetry is used: connections and workers differ.

**Fairness.** `WFairSpec`: the worker's thread keeps running (`poll()` waits
`kIdlePoll` at most) and time passes; the order of the loop's calls does the
rest. `PFairness`: every thread is scheduled, and a handler that was entered
returns. A worker whose queue has packets reads them (`Receive` is fair by
itself, since `poll()` reports the socket unless the stop fd is readable), and a
worker answers what it took (`EveryPacketSubmitted` is the reason). Nothing is
assumed of clients, of the kernel's verdicts, of signals, and no queue need fail.
Where the gap is shown (`startup_gap`), this same fairness holds.

## 4. Proofs

Checked by TLAPS for all constants that satisfy the named assumptions.

**Flow table** (`ExtractorProofs`; assumptions `ConnsAssumption`,
`KeysAssumption`, `ArrivalsAssumption`, `StreamsAssumption`, `LimitsAssumption`,
`MaxSegAssumption`, `ClosedDelayAssumption`: finite set of natural-number keys,
natural limits, well-formed arrivals).

* `TypeCorrect`: `Spec => []TypeOK`. `TypeOK` alone is not inductive: a callback
  needs `cur.conn` to be a connection, so the invariant is `TypeInv == TypeOK /\
  FedConn`. Below it are the lemmas that each reassembler operator returns a
  well-formed state and callbacks (`ReassembleType`), that `resolve()` keeps the
  types (`ResolveType`), and one lemma per group of actions.
* `RingAlwaysCovers`: `Spec => []RingCovers`, `BoundedButForZero` and
  `TableStaysBounded`. The bound on blocked flows does not survive a step by
  itself; it follows from every blocked flow having one of `MaxBlocked` slots, so
  `TableInv == TypeInv /\ RingCovers /\ Cardinality(Tracked) <= MaxFlows` is the
  inductive invariant. The interesting steps are `RememberBlocked` (the flow
  whose slot is taken leaves the table, or was not blocked any more),
  `AdmitByEviction` (slots emptied on the way name no other blocked flow) and
  `AllowAtCap` (a full turn of the ring has seen every slot, `RingReached`).
  `TableStaysBounded` assumes that no key is zero; run `extractor_zerokey` shows
  that the assumption is needed, and `BoundedButForZero` what holds without it.

**Buffers** (`ExtractorProofs`; the same assumptions). `BuffersAlwaysBounded`,
`GaugeAlwaysFresh`, `NeverADanglingView`. `BufferInv` adds to the types and the
bounds that a flush has every undecided flow still on its list. `ViewInv` says
where a view may be while a call is under way: in the packet being fed and in the
last packet its own flow holds. The module ends in a classification that the next
two modules rest on: as far as packets are concerned, every step of a call does one of
six things (`Stays`, `Holds`, `Decides`, `Floods`, `Passes`, `Copies`).

**Packets** (`LedgerProofs`). `NeverDecidedTwice`, `FlowsStayInOrder` and
`ExtractorKeepsLedger`, the step simulation of `PacketLedger`. That decisions are
distinct is not inductive: `LedgerInv` says that the ids in `feed()`'s hand, in
each held list and among the decisions are pairwise different and below `nextId`
(`Apart`), so what a resolve moves was nowhere else. Order needs `OrderInv`: held
lists ascend, and whatever is decided of a connection is older than what is held
of it. Both hold for any key function; the packets of a connection have one key.

**Verdicts** (`VerdictProofs`; the assumptions of the flow table).

* `DropsOnlyBlockedKeys` and `NoInnocentDropped`. The first holds for every key
  function: a packet is dropped only if some connection with its key sends a
  ClientHello that names a blocked host. With an injective key function that is
  `OnlyBlockedHostsDropped`; the hypothesis is what the code cannot give (the key
  is a 32-bit hash), and without it the property is false, as the remark on
  `extractor_sharedkey` says. `DropInv` says that an entry has packets and bytes of
  connections with its key only, that an entry in state Block is the work of such
  a hello, and that no message callback comes without data (`ReassembleFits`:
  otherwise a stream could be empty, and the parser's answer would be about no
  connection).
* `OwnKeyNeverLeaks` and `NeverLeaks`, in the same two forms. Between calls an open
  connection is an undecided flow's token or queued to be closed; while callbacks
  are made there is a third case, that the first of them announces it, and one
  needs that `end` is announced only of a connection that is closed, since
  `onConnectionEnd` resolves without queueing a close. `CloseInv` has both.
  `ReassembleFits` provides them from what one call of `reassemblePacket()` does.
* `BlockedHelloAlwaysStopped`, for an injective key function again, and for clients
  whose SYN carries the first data of the connection if any. Nothing is assumed of
  the order, the repetition, the loss or the number of segments, nor of where
  records begin (`StreamsAssumption` is about types only). The property is
  about decisions, so `HelloInv` has to say what an undecided flow has read.
  `Reads(c)`, for a connection that was never closed: its stream has a hole, or is
  straight (segments 1 to n), and the callbacks still to come go on with segment
  n + 1 (`Reading`) or, between calls, the reassembler does (`ReadSoFar`); or the
  flow was made for this very packet (`JustAdmitted`), or began in the middle, with
  a packet that opens a later record and is the first it holds (`LateStart`). Then a
  straight stream is parsed as a hello, a hole is a named path, a late start that is
  decided "midstream" is decided with the packet `BeganLate` asks for, and otherwise
  "midstream" and "foreign" are left for connections that were closed before. `ReassembleSpeaks` says what one call of
  `reassemblePacket()` delivers: segments from the packet's own on, one each, and
  then at most a hole. `CloseInv` enters where a flow is admitted: its connection
  is new to the reassembler, or queued to be closed. TLC checked `HelloInv` on two
  larger instances first.

**Worker** (`WorkerProofs`). Over `WSpec`, for every batch and with or without the
extractor: `WorkerTypeCorrect`, `BufferAlwaysFree`, `CountersAlwaysBalance`,
`ExitAlwaysClean`, `IntakeAlwaysStops`, `WorkerKeepsLedger`, `WorkerKeepsContract`. The invariant `WInv`
is the extractor's (`ExtInv`, which carries over since a call under way takes the
extractor's own steps), `Phases` (where the loop can be when a call is or is not
under way, what is empty there, and that after an error it is on its way out) and `Counts` (every packet received is pending
or answered, every answer taken or refused). Each action has one of three effects
on the pending ids: `Same`, `Takes` one, `Gives` one up; the counters and
the thread's debt follow from the effect alone.

**Name matching** (`InspectionProofs`; `LinesAssumption`: lines are sequences of
bytes, also when stripped). `LookupIsCorrect`: for every list and hostname, the
answer is `Listed(host)`. The invariant `LookupInv` is the loop's: while the walk
goes on, the name is no exact entry, and no suffix after a dot up to `dot` is a
wildcard. At the end that is every suffix. `EndsAfterDot` turns "ends with
.suffix" into "the suffix follows a dot", and an empty suffix ends the walk
because a wildcard's is never empty (`WildcardNotEmpty`).

**Parsers** (`ParserProofs`; `HelloLimitsAssumption`: the constants are lengths that
fit in two bytes, `KeyModAssumption`). For every sequence of bytes, whatever lengths
it claims: `ExtractReadsItsBytes` and `FlowViewReadsItsBytes`, that the result does
not depend on what is in memory after it; and `ExtractFinal`, that an answer other
than `NeedMore` stays the answer however the buffer goes on.

All three are one statement about two buffers (`Extends`: the second has the bytes
of the first and more), for each operator: reads below the first one's size agree,
and the guards keep every read there that matters. The loops need induction. A
recursive definition in TLA+ is a `CHOOSE`, and says something only if a function
with that equation exists, so the module proves this from what the loops have in
common: each turn goes forward, and no turn is made past the end of the buffer
(`RecursionExists`). Then a turn can be unfolded, and `TowardsEnd` proves a property
of every position from the end backwards. Both are stated with sets in place of
predicates, since the provers cannot instantiate an operator parameter, and rest on
`WFMin` of the library. `Join` has the bytes joined so far as part of its argument;
its recursion is over pairs and is measured by the position.

**What a client wrote** (`WireProofs`; also `CasesAssumption`). The parsers against
the encoders of the environment, for every hello, record and packet the assumption
admits.

* `FlowViewOfPacket`: in a packet of which any number of bytes were captured, what is
  dissected has the connection's key and the place of the payload, and a packet that
  is all there is dissected exactly if `Dissectable`. The walk over extension headers
  is followed header by header; a chain too long, unknown, or with a later fragment
  stops it.
* `ParseFindsServerName`: on a whole message, the first host_name of the first
  `server_name` extension, or no name. By induction backwards over the extensions and
  over the names of one (`Backwards`): from the i-th on, the parser finds what is
  first among the rest.
* `ExtractOfStream`: on a stream cut after any byte, no answer while the message, or
  a record header before its last byte, is incomplete; afterwards the name. The
  induction is over records: at the end of the k-th, `Join` has the first `ends[k]`
  bytes of the message. `ExtractFinal` then gives the prefixes: an answer on part of
  the stream is that on all of it.

Below them, `Parts` says how a flattened sequence is made of its parts and `At(q, i,
s)` that a buffer has the bytes `s` at `i`; `At` of a concatenation is `At` of its
parts, so a layout is read off the encoder's text.

**Inspection** (`InspectionProofs`; also `LinesAssumption` and `InspectionAssumption`).
Seven theorems, one for each property of the run: `ReadsOnlyItsBytes`,
`AnswersAreFinal`, `ConnectionHasOneKey`, `PayloadIsFound`, `InspectionLooksUp`,
`ExtractorWaits`, `VerdictIsOfHello`. The invariant `IInv` (`IInvariant`) ties the
variables to the case: the stream is what was delivered of the wire (`Delivered`), the
answer is the parser's on the stream (`AnswerOfStream`), each key is the connection's
(`KeysOfCase`), a packet looked at has the views of its bytes (`ViewsOfCut`), the
lookup is of the name found (`AskedName`, `LookupInv`), and the verdict is that of the
answer and the lookup (`VerdictOfAnswer`). Each property is then a fact about the
parsers, cited from the two modules above. That a segment adds its payload and nothing
else to the stream is where `FlowViewOfPacket` enters, and that both directions have
one key is that `routeKey()` orders the endpoints' hashes. `IInv` was checked by TLC
before.

The limits are parameters, so the theorems are about 32, 16384, 65535 and 32768 as
well as about the numbers of the run, and about 2^32 in place of `KeyMod`.

**Configuration** (`LifecycleProofs`; `CliAssumption`). `ConfigAlwaysFits`: for any set
of command lines and all limits. `ParseInv`: every numeric field is within its
option's range or at its default, and once parsing has ended in "run" the last
queue number is below `QueueSpace`; then no cast wraps (`SmallMod`) and the
shares fit the total (`SharesFit`).

**Process** (`LifecycleProofs`; also `WorkersAssumption`). Six theorems, for any
number of workers: `ProcessTypeCorrect`, `ExitsClean`, `StopFdAlwaysOutlives`,
`NeverAGap`, `ExitCodeAlwaysTruthful`, `StatsAlwaysReadsLiveWorkers`. None of the properties is inductive: each relates
main, threads, handlers and descriptors at one moment only. `PInv` relates each
of them to main's place: `FdInv` (when the stop fd is open and set),
`QueueInv` (which queues exist: those before `built`, or from `at` on while they
go), `ThreadInv` (threads run only between start and join; after a run without
exception none does), `HandlerInv` (a handler runs on a live thread and holds it
up; having seen the fd, the fd stays) and `OutcomeInv`. The step that needs most
is `UnsetStopFd`: no handler is between test and write, because one on a worker's
thread would have kept `join()` waiting, one on main's would have kept main from
this step. There is one lemma per action; `PInv` was checked by TLC before.

Only model-checked: liveness (`StopHonoured`, `EveryPacketSubmitted`,
`ReassemblerReclaimed`, `ShutdownCompletes`, `QueueServed`), since this prover has no
rules for fairness and `ENABLED`; and what the violation runs show, which are
counterexamples.

## 5. Not modelled, and what is left

Not modelled: the iptables script (only its effect, packets queued, is assumed);
the tests and benchmarks; usage, logging and statistics texts; CPU pinning and
socket tuning, whose failure the code ignores. In the reassembler: overlapping
segments and sequence wrap-around, which this repository's code does not show;
its own dissection of a packet is taken to agree with `flow_view()`.
`Inspection` has one connection and no time: collisions, evictions and sweeps are
`Extractor`'s.

Left open: a proof that joins `Inspection` to `Extractor`. `Extractor` takes the end
of a hello, its host and the key of a connection as constants; `Inspection` proves of
one connection's bytes that they are what the constants say.

## 6. Running

```
tlc -config Extractor_hello.cfg MCExtractor      # also _table, _sharedkey, _later, _zerokey, _evicted
tlc -config Worker_loop.cfg MCWorker             # also _stats, _throw
tlc -config Inspection.cfg MCInspection
tlc -config Lifecycle_startup.cfg MCLifecycle    # also _gap
for m in Extractor Ledger Verdict Worker Lifecycle Parser Wire Inspection; do tlapm ${m}Proofs.tla; done
```
