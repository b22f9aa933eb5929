# A verification project for the money-laundering pipeline

TLA+ modules, TLC configurations and TLAPS proofs about the distributed
pipeline under `src/` (paths below are relative to it): clients stream
transactions and accounts through a gateway into a pipeline of replicated
workers connected by RabbitMQ, and receive the results of five queries.  Any
worker may be killed at any moment and is started again by a watchdog.  What
makes the system correct is therefore not what a worker computes but what
survives when it is interrupted: no message lost, none counted twice, and a
stream declared finished exactly when it is.

## Contents

| file | what it is |
|---|---|
| `ExactlyOnce.tla` | what a worker promises: one indivisible effect for each message |
| `DurableWorker.tla` | the worker's handler, its log and the log's file, crash by crash |
| `DurableWorker_proofs.tla` | theorems about `DurableWorker`, checked by TLAPS |
| `MCDurableWorker.tla`, `.cfg` | its instance for TLC |
| `StreamStage.tla` | what a replicated stage promises: one indivisible end of stream |
| `StatefulRing.tla` | the replicas of a stateful stage and the token of their ring |
| `StatefulRing_types.tla`, `StatefulRing_proofs.tla` | theorems about `StatefulRing`: its types, and everything else |
| `MCStatefulRing.tla`, `MC*Ring*.cfg` | its instances for TLC |
| `SideInput.tla` | a worker that joins its stream with a table from a second queue, and its spill file |
| `SideInput_proofs.tla` | theorems about `SideInput` |
| `MCSideInput.tla`, `MCSideInput*.cfg` | its instances for TLC |
| `QueryAnswers.tla` | what a client is promised: each result once, no end before the last |
| `Session.tla` | a client, its gateway and handlers, its results queue, the registry and the reaper |
| `Session_proofs.tla` | theorems about `Session` |
| `MCSession.tla`, `MCSession*.cfg` | its instances for TLC |
| `Election.tla` | the watchdogs: Bully election, peer connections, the leader's monitor |
| `Election_proofs.tla` | theorems about `Election` |
| `MCElection.tla`, `MCElection*.cfg` | its instances for TLC |
| `ScatterGather.tla` | query 4 as pure functions: the stages', and the reference's |
| `ScatterGather_proofs.tla` | theorems about `ScatterGather` |
| `Queries.tla` | the five queries through their stages, and what they should answer |
| `Queries_proofs.tla` | theorems about `Queries` |
| `MCQueries.tla`, `MCQueries*.cfg` | its instances for TLC |
| `PROJECT.json` | components, runs, mutants, the map from definitions to code lines, findings, hazards, theorems |

Run `tlc -config X.cfg M` for a run of `PROJECT.json`, `tlapm
X_proofs.tla` for the proofs of `X`.

## Inventory

**StateStore** (`src/common/persistence/state_store.py`).  State: one file of
JSON lines and a lazily opened append handle.  Operations: `load` (parses every
line, cuts off a last line without newline), `append` (write, flush, fsync),
`compact` (writes a temporary file, `os.replace`, closes the handle).  Hard: a
crash inside any of them.  Correct when a recovered file always parses and
holds everything appended.

**StateLog / Worker** (`idempotency/state_log.py`, `worker/worker.py`).  State:
`_seen` (identifiers handled, by channel and client), the concrete worker's
state, the append counter.  Operations: `_recover`, `_handle_message` (check,
handle, `seen.add`, append, maybe compact, ack), `_cleanup_flow`.  Hard: a crash
between any two, redelivery, duplicates published by a recovering upstream.
Correct when each message has exactly one effect and nothing is acked before it
is durable.

**StatefulWorker** (`worker/stateful_worker.py`).  State per client: processed
and sent counts, and how much of each was already reported to the ring.  Two
threads under one `_state_lock`.  Operations: data message, EOF, ring token in
its count, flush and cleanup phases.  Interaction: tokens on a control
exchange, node `n` to node `(n+1) % ring_size`.  Hard: data that arrives after
the token has passed, re-execution of a flush, a token handled twice.  Correct
when nothing is flushed before the whole stream has been counted, the final EOF
carries the number of results, and it is eventually sent.

**SideInputStatelessWorker** with `SideInputTracker` and `BatchSpill`
(`BankMapper`, `AnomalyFilter`).  State: a lookup table fed by a second queue,
counts of received and expected batches, a readiness event, a spill file of
main batches that came too early.  Hard: readiness against spilling, the drain
after a crash, the spill file's torn lines.

**Concrete workers** (`workers/*`).  Stateless ones publish one batch per input
batch under the input's identifier.  Stateful ones take a delta into a
commutative state and publish at the flush under content-derived identifiers;
`BidirectionalSharder` publishes while reading.  Hard: an answer that depends on
how the input was cut into batches, on which replica got what, or on the order;
ties; identifiers that are unique per consumer and meet at the client.  Correct
when the client's files are the ones of `build_expected.py`.

**Gateway, ClientHandler, InternalRouter** (`gateway/`).  One process of a pool
per connected client with a receiver, a sender and a results thread.  State:
`_pending_acks`, the results consumed and not yet acked by the client; they are
acked to RabbitMQ when it acked them.  **ClientRegistry, Reaper**: the clients
known, connected or not since when, in a file; a scan under its lock and a
cleanup (two cleanup EOFs, the queue's deletion, the entry's removal) outside of
it.  **Client** (`client/main.py`): the pending message, the results seen, what
each query has received and expects; stop-and-wait sending, resend after
reconnecting, deduplication, the end of each query.  Hard: sessions that overlap,
since a handler learns of a lost connection when it likes; redelivery; a gateway
restart; the reaper against a client that comes back.  Correct when every batch
enters the pipeline once and in order, every result is written once, every
query ends with all of its results, and only a client that is gone is reaped, in
the end for good.  **Proxy**: a redirect.

**Watchdog** (`watchdog/`).  State: role, leader and election phase of each
instance, its event queue, and per peer a connection with two threads and a
queue of messages that outlives it.  **HealthMonitor**: a thread of the leader
that pings every node over UDP and starts the ones that do not answer;
**HealthResponder** answers.  Hard: messages and disconnections of several peers
in one queue, timers against late messages, threads that outlive what they
served.  Correct when the watchdogs come to agree on one live leader, the highest
one, and it monitors.

**Middleware** (`common/communication/middleware`).  Durable queues, manual
acks, prefetch; what the code relies on is at-least-once delivery.

The hazards these bring, each with its line and the properties that watch it,
are listed in `PROJECT.json`.

## What is modelled, and how it corresponds to the code

### DurableWorker

One worker, one channel and one client flow.  The variable `pc` is the place in
`_handle_message`; between any two places the process may die (`Crash`), and
inside `append` it may die with half a record written (`CrashInAppend`).

| state | code |
|---|---|
| `queue`, `sent`, `out` | the broker: unacked copies, publications upstream, publications of results |
| `base`, `tail`, `torn` | the file: snapshot lines, then records, then perhaps half a record |
| `handle` | `StateStore._file`; `"unlinked"` after `os.replace` and before `close` |
| `seen`, `applied` | `_seen` and the worker's state |
| `appends` | `_appends_since_compact` |

`Load` replays the file and cuts it; `HandleMessage`, `AppendRecord`,
`NoteAppend`, `CompactReplace`, `CompactClose`, `Ack` are the steps of one
message; `DropDuplicate` is the early return.  A message is its identifier and
its delta is the fact that it was applied, so `applied[m]` counts effects:
losing or doubling one shows.  The replay is what `_replay_record` and
`_restore_snapshot` compute.  A record written behind a torn one is `Garbled`
and makes `Load` impossible, as `json.loads` would.

### StatefulRing

`N` replicas, one flow, one EOF.  A node's `step` is what its lock holder did
last: a handler sends, appends and (after the lock) acks in separate actions and
may die between them.

| state | code |
|---|---|
| `mainq`, `ctlq` | the node's two queues, unacked delivery first |
| `mem[n]` | `_seen` of both channels, `_processed_counts`, `_partial_processed_count`, `_sent_count`, `_partial_sent_count` and the concrete state (`buffer`) |
| `disk[n]` | what replaying the node's log yields |
| `out`, `finals` | what downstream received: results by identifier, counts of EOFs |

`BufferData`/`ForwardData`, `HandleEof` + `LogRingStart`, `LogMain`, `AckMain`
are the main thread; `CountToken`, `FlushToken` + `PassFlush`, `LogControl`,
`AckControl` the control thread.  `disk` abstracts the file by what it replays
to, which `DurableWorker` justifies (`FileIsMemory`, `FileNeverForgets`).  After
a flush the log may or may not still replay to the flushed state, depending on
when it was compacted; `LogControl` leaves that open.

### SideInput

One `BankMapper` or `AnomalyFilter`, one flow, its two threads.

| state | code |
|---|---|
| `mem`, `ready` | `_seen` of both channels, the table, `SideInputTracker`'s counts and event |
| `disk` | what replaying the log yields |
| `spill`, `ended` | the lines of `BatchSpill`'s file, and whether the last one has its newline |
| `main`, `side` | where each thread is; `"log"` holds `_state_lock`, `"draining"` the flow's lock |
| `out` | emitted batches, each with the table it was joined with |

`SpillBatch`, `ReadReady` + `EmitBatch`, `LogMain`, `AckMain` are the main
handler (`AnomalyFilter` emits after it released the flow's lock; `BankMapper`,
which keeps it, is the special case); `ApplySide`, `LogSide`, `AckSide`,
`BeginDrain`, `DrainLine`, `EndDrain` the side thread, and the drain of `Start`
when the threads do not run yet.  `FailDrain` is the exception of a line that
does not parse.

### Session

One client, the gateway it was redirected to, and the queue of its results.  A
session is a connection with the handler that serves it; sessions overlap, since
each `HandlerEnd` comes when that handler finds its connection broken.

| state | code |
|---|---|
| `pos`, `awaiting` | `_pending_msg` and the iterator behind it; whether its ack is awaited |
| `seen`, `received`, `expected`, `finalized` | the client's fields of these names; `written` its files |
| `conn`, `up`, `down` | each session's socket and what is under way, queues of both ends included |
| `handler`, `pend` | each `ClientHandler` and its `_pending_acks` |
| `entry`, `expired` | the client in the registry and in its file; whether its timestamp is older than `reaper_timeout` |
| `reaper` | the reaper's place in a cycle for this client |
| `rq`, `bound` | copies in the results queue; whether it exists |
| `taken`, `emitted`, `cleaned` | the pipeline: messages taken, answers published, cleanup EOFs received |

`ClientSend`, `ClientReceive` (`HandleAck`, `HandleQueryResult`,
`HandleQueryEnd`), `ClientFinish`, `ClientAbort` are the client's loop;
`StartHandler`, `HandlerReceive` (`ForwardBatch`, `OnResultAck`), `Deliver`,
`HandlerEnd`, `HandlerClosed` the handler's threads; `Scan`, `ForwardCleanup`,
`DeleteQueue`, `RemoveEntry` the reaper's cycle, each step interleaved with
everything else; `GatewayCrash` and `GatewayRestart` what a restart keeps.  The
pipeline is what the other modules promise: it takes a message once by its
identifier and publishes each answer at least once.  A timestamp is an age,
`expired` or not; time passes (`Expire`) only while the client could be silent
that long, which is read off its timeouts: it reconnects within 30 s.

### Election

`N` watchdogs; a dead container is started again while some live watchdog's
monitor runs.

| state | code |
|---|---|
| `role`, `leader`, `phase` | `Watchdog`'s fields |
| `events` | `_events`, one queue of messages and disconnections |
| `sendq` | `_send_queue` of each `PeerHandler`, with the `None` that stops its sender |
| `session`, `sender` | `_run_session`: connected, or waiting to join a sender; whether the sender runs |
| `monitor`, `responds` | the threads of `HealthMonitor` (told to stop and still in its round) and `HealthResponder` |

`Handle` computes the effect of one event as a record, calling the handlers as
the code does; `HandleElectionTimeout` is the empty queue at the deadline;
`Connect`, `SenderStep`, `LoseConnection` are the peers' threads.  What is written
to a socket the peer reads, or it is lost with the connection.  A timer has no
length: it runs out when messages are at rest between live watchdogs (`RunsOut`),
and before that only as one of `MaxTroubles`, which also bounds crashes.
`COORDINATOR` messages of two senders may overtake each other, so a follower may
be left with a leader that is not the highest one; `LedBy` says what holds
instead, and why it suffices: the one it follows is alive and above it.

### Queries and ScatterGather

What the workers compute, for one client, with each stage as `StreamStage`
promises it and each join as `SideInput` does.

| state | code |
|---|---|
| `sent`, `seen` | messages to each stage, with the replica they are routed to; each replica's `_seen` |
| `mem` | each worker's accumulated state (maxima, totals, edges, paths, accounts, counts) |
| `flushed` | replicas that have flushed |
| `rows`, `taken`, `expected` | the client's rows, the messages it counted, the announced count |

`Take` is `_handle_data_message` and `_apply_delta` of each stage (`Merge`),
`Flush` its `_flush_data` with the keys, shards and buckets that make its
messages and their identifiers (`FlushSharded`), `Relay` the two joins.  The
stateless workers at the front are what they make of a batch
(`SourceMessages`).  `ExpectedRows` translates `build_expected.py`, which reads
the whole input at once, and shares no definition with the stages but the
predicates on a single transaction that are the same in both.  A hash is the key itself, a
number.  What `path_frequency_filter` flushes is a list that may repeat an account,
here a set: only the number of its buckets can differ, and no property depends on
it.  An amount is in cents, an average a total and a count, so that the model
compares exactly where the code compares floats.

### Abstractions of StatefulRing

They are stated in the module's header.  In short: the whole
stream is in the queues at the start, in every order, with the EOF anywhere
among node 0's messages; queues keep their order; downstream deduplicates by
identifier (`out` is a set); no duplicates of main messages arrive from
upstream (`DurableWorker` has them); no cleanup.

## What is checked

| run | instance | shows |
|---|---|---|
| `durable_worker` | 3 messages, each published up to twice, 2 crashes, compaction every 2 appends | exactly one effect per message, the file replays to the memory, nothing acked before durable, and the refinement of `ExactlyOnce` with liveness |
| `ring` | 3 nodes, 3 messages, one node without data, results at the flush or while reading, 1 crash | flush only when complete, exact final count, tokens carry every report once, closure, refinement of `StreamStage` |
| `ring_start_crash` | 2 nodes, 1 crash after the first token was sent and before its record | **violated**: a stream is flushed before it is complete |
| `ring_forward_crash` | as above, 1 crash after a count token was forwarded and before its record | **violated**: a report is lost and the token never completes |
| `side_input` | 3 batches, a table of 2, 2 crashes anywhere, also inside a spill write | every batch is emitted with the complete table, whether before, during or after the drain; only a torn spill write loses batches, the one glued to the torn line and those spilled behind it, and none that a drain could read before |
| `side_input_torn` | 2 batches, 1 crash inside a spill write | **violated**: a logged batch is neither emitted nor where a drain can read it |
| `session` | 1 batch and its EOFs, one query with one result, 2 sessions or 1 gateway crash, a client that may die, 1 answer published again | the pipeline takes a prefix of what the client sends; no published answer is lost; the refinement of `QueryAnswers` with liveness; a client that is gone is reaped for good |
| `session_reaped` | as `session`, the client lives, no answer comes twice | **violated**: a client that waits for its answers is reaped |
| `election` | 3 watchdogs: any set of survivors, settled, with the dead ones to be revived, or all three alive and one crash; and mishaps | at rest the highest one alive leads alone and monitors; the dead are revived; one leader in the end |
| `election_round` | 2 watchdogs from the start, 2 troubles | **violated**: a leader that does not monitor, and a dead peer for ever |
| `queries` | all five queries, up to 8 transactions in each cut into 2 batches, 2 replicas of each stage, one item in a flushed batch | the client's rows are the reference's, each once; the count of the end is the number of distinguishable messages; the query ends |
| `queries_uneven` | query 2 with 1 `bank_max_reducer` and 2 `bank_mapper`s | **violated**: two messages of one query have the same identifier |

Bounds.  Two crashes allow a crash during the recovery from a crash; three
messages and a threshold of two give a compaction at run time, appends before
and after it, and one at start-up.  `MaxSeq` bounds the laps of a count token
while data is unread (the code's are unbounded); once all data is processed the
token runs freely, so that liveness is not an artefact of the bound.  Three
nodes give a starter, a coordinator that is not the starter nor its neighbour,
and data behind the token on either side.

One fault in `session` is a lost connection or a gateway crash at any point;
what is hard there, an old handler beside a new one, takes two sessions and no
more.  `Transactions = 1` with both EOFs makes a batch, a message of each routing
key and a pending message at every index.  A pool of two serves both
sessions side by side, so that none waits for a place; what is proved of `Session` holds for
every pool size.  The elections start from every
settled set of survivors, in which the deaths of the others are the troubles that
have happened: one or two of three come back, in any order and beside each other,
to survivors that know another leader; with all three alive, one of them is still to
crash.  The instance with three
watchdogs has no timer that runs out too early: with one more trouble it has
millions of states.  `election_round` starts two watchdogs from the beginning,
with two troubles of any kind.

The inputs of `queries` are chosen at the boundaries: amounts on both
sides of each threshold, a tie written with and without a leading zero, a
currency and a format with no average or none at all, paths with cycles, loops
and a second destination, just too few accounts in between.  Flushed batches of
one item make several buckets.  The raw bank ids of the accounts file have no
leading zeros.

`CHECK_DEADLOCK FALSE`: the instances are finite streams, and a finished one
stops.

### The findings

`StatefulWorker` sends a count token *before* it appends the record that says
so, at two places.  In both windows a crash breaks the count:

* `ring_start_crash` (`stateful_worker.py:281`): the first token comes back
  before the redelivered EOF is handled, and reports the same messages again.
  `fix_pressure_tolerance.md` section 2 describes this symptom as fixed; the fix
  covers a crash after the append only.
* `ring_forward_crash` (`stateful_worker.py:180`): data processed between the
  restart and the redelivery of the token is reported in a duplicate that the
  next node drops.

`BatchSpill` appends to a file that outlives a crash, and does not cut off a
torn line as `StateStore.load` does (`side_input_torn`, `spill.py:31`): the next
batch is glued to it, the drain raises on it, and so does every later start: that
batch is never emitted, nor is any that is spilled behind it.

* `session_reaped` (`client_registry.py:44`): a client loses its connection and
  reconnects; the new handler registers it and only then the old one finds its
  socket broken and marks the client disconnected.  If the client has sent
  everything and waits for more than 300 s, it is reaped while connected.
* `election_round` (`health_monitor.py:101`): `start` does nothing while the
  thread of the previous leadership is still in its last round; that thread then
  stops, and the leader monitors nobody.
* `queries_uneven` (`ids.py:15`): a flush identifier leaves the shard out, which is
  right as long as each consumer sees one shard.  `BankMapper` relays the
  identifier to the client, which sees all of them.  Equal numbers of
  `bank_max_reducer`s and `bank_mapper`s, the default, avoid it: each reducer then feeds one
  mapper.

Smaller disagreements, without a run.  `TP_distribuidos.md:258` calls the
`n_batch` of a flush identifier sequential; the code derives it from the content
(a bucket of the hash), and must, so that a flush that is repeated gives the
same identifiers.  `Watchdog._accept_lower_peer_connections` (`main.py:74`) catches
`OSError` only; a peer that dies before it has sent its id raises
`IncompleteReadError` and ends the thread.  `BankMapper` writes a row `Unknown` for
a bank without an account line, `build_expected.py:205` leaves it out.

The run `ring` crashes at every other point (`SafePoints`), and shows on its
instance that the two windows are the only ones; `StatefulRing_proofs` proves it
for every instance.

## Fairness

`DurableWorker`: weak fairness of the worker's own steps, since a running
process runs and the watchdog starts a stopped one; strong fairness of receiving
each message, since RabbitMQ keeps an unacked message queued and delivers it,
but the worker is not ready for it all the time.  Nothing is assumed of upstream
and no crash is assumed to happen or not, beyond their finite number.
`StatefulRing`: weak fairness of finishing a handler, restarting and acking;
strong fairness of taking a message, since two threads compete for
`_state_lock` and each gets it some time.  `SideInput`: the same.
`EventuallyEmitted` makes an exception once a spill write was torn, since the side
thread may then be dead.

`Session`: weak fairness of each thread of the client, of each handler and of the
reaper, of the pipeline's answers (`StreamStage` promises them), of time and of
the gateway's restart by the watchdog.  Nothing is assumed to break or to die.
`Election`: weak fairness of the system as a whole, with no preference among
threads; that suffices because its troubles are bounded and all other
steps come to an end.  `Queries`: likewise, a message in a queue is handled.

## What is proved

Every theorem holds for every value of the constants that the module's ASSUMEs
admit.  Those say that bounds and sizes are naturals, that markers (`NoMid`,
`Garbled`, `Acked`, `SideEof`) are not messages, that results are not ends of
queries, that tables and batches are finite, and that a transaction is in one
batch.  The bounds of the runs (crashes, faults,
waiting events, laps) are constants too, so what is proved holds for any number
of them.  Each inductive invariant was checked with TLC before it was proved.

| module | proved of every behaviour |
|---|---|
| `DurableWorker_proofs` | types, `AppliedAtMostOnce`, `FileIsMemory`, `AckedIsDurable`, `FileParses`, `FileNeverForgets`, and `Spec => Promise!Spec` |
| `StatefulRing_types` | types, at every crash point |
| `StatefulRing_proofs` | without the two windows: `FlushOnlyWhenComplete`, `FinalCountsResults`, `TokenCarriesReports`, and the refinement of `StreamStage` |
| `SideInput_proofs` | types, `JoinedWithFullTable`, `NoStragglers`, `LosesFromTornWriteOn`, `SafeStaysSafe`, and that nothing is lost without a torn write |
| `Session_proofs` | types, `PipelineHasPrefix`, `NoAnswerLost`, and the refinement of `QueryAnswers` |
| `Election_proofs` | types, `HighestLeadsAtRest` |
| `ScatterGather_proofs` | query 4's stages, each one replica or many, compute `ExpectedAccounts` |
| `Queries_proofs` | types, `EndCountsResults`, and `RowsAreTheReference` of all five queries, of queries 2 and 5 under what the paragraph below names |

**DurableWorker.**  None of the properties is inductive by itself: that the file
replays to the memory between two messages depends on what may differ in the
middle of one.  `Inductive` says, for each `pc`, how far the memory is ahead of
the file (by the one delta of the message in hand, only at `"handled"`), that
the message in hand is still queued, that a torn line exists only while the
process is down or loading, and that the handle is stale only between
`os.replace` and `close`.  The lemmas on `Positions` and `Replay` say what an
append and a snapshot do to the replay of a file, so that no step of the main
proof looks inside it.  `DurableStep` gives each action's effect on the replayed
file, from which the refinement and `FileNeverForgets` follow.

**StatefulRing.**  The hypothesis is `HarmlessCrashes`: no node crashes between
the sending of a count token and the append that records it, at `"eof"` or at
`"count"`.  Those are the windows of the first two findings; without the
hypothesis the conclusions are false, as the runs `ring_start_crash` and
`ring_forward_crash` show.  All other crashes, at any number, are in.
The invariant has a part for each node (what its memory adds to its log while a
handler runs) and one of two for the ring.  While nodes are asked (`Counting`)
at most one token is live, and it carries the sum over the nodes of what each
has reported and logged, so that a token which says "complete" has counted every
message.  Once a flush token exists (`Elected`) the stream is complete and stays
so, and every flush token, also one that a restarted node sends again, is
determined by the coordinator and its place on the lap, so that duplicates
change nothing.  TLC checked it with three nodes and up to two crashes, and with
one and two nodes and four.

**SideInput.**  A record of the log has the table its side messages make; memory
and log differ by at most the message in hand; `ready` is true exactly when the
side input is complete, and a batch waits in the spill file only as long as it
is not.  A drain reads the file up to the first line that does not parse, now and
at every later start (`Readable`); what is behind it stays in the file and is never
emitted (`Behind`).  `LosesFromTornWriteOn` says what that costs: without such a
line nothing is lost; with one, the batches behind it, without limit, and one
batch for each crash inside a write, the one glued to its line (`Gone`, which
`Spilled` counts).  `Stuck` says that no drain removes such a line, since it would
have to emit it first.  `SafeStaysSafe`: the line that is garbled later is one of a
batch that is not in the log, so that nothing a drain could read is taken away.

**Session.**  Three parts beside the types: at most one batch is on the way from
the client and no handler is ahead of it (`InFlight`); whoever was given an
answer by the broker still holds it, or the client has it, or it is back in the
queue (`Custody`); and the client's counts are those of what it has seen
(`Books`).  The refinement needs the last one: a query is ended by its count, and
must not be before its last result.

**Election.**  That the highest one leads at rest depends on what is still under
way: whoever a watchdog follows does not leave without a `DISCONNECT` that it
will read (`Follows`), of two that lead at least one has a `COORDINATOR` before it
that no crash can take away (`Settling`), and a session is linked to its sender and to the
`None` that stops it (`Linked`).  At rest all of these are void, which leaves one
leader.  None of it survives a failed write or a monitor in its last round
(`mishap`), which are exceptions of the property too.  The theorems hold from the
first start and from any settled set of survivors, the start of the run
`election`.

**ScatterGather.**  The functions of the stages are unfolded to the transfers
they stand for: an edge in both directions, a path through each account in
between, a set of accounts with at least `MinRequired` of them.  Sharding by the
account or by the ends of a path changes nothing, as no stage compares items with
different keys.

**Queries.**  The invariant says of every stage what it was sent (what the front
makes of the batches, and the flush of the stage before: `Flows`), that a replica
flushes only when its stage has handled all that it will ever be sent
(`Closings`), and that what a replica has accumulated is a function of the set of
messages it has handled, whatever their order (`Contents`); the client's rows
are those of the messages it has counted, and its count is settled when it is
announced (`Client`).  From there on, order and interleaving are gone, and what
is left is about sets: the items of a flush reach one replica each
(`FlushMessages`), the best of each bank is among the best of the parts
(`BestOfPart`), counts of disjoint batches add up, and query 4's stages are those
of `ScatterGather_proofs`.  `Answers` is what the rows of a query must satisfy for
`RowsAreTheReference`, and each query has its lemma.

The averages of query 3 are sums over sets, which the community modules fold by
taking one element after the other.  `AddsInAnyOrder` shows that the order does
not matter and `AddsParts` that the sum over two disjoint parts is the sum of
theirs, by induction on a finite set (`SubsetInduction`: a set without the
property would have a smallest one, `WFMin`).  `Totals` then says of each state
of the two stages which transactions it is the totals of; a message to the
reducer stands for the transactions of its formats (`Payers`), no two messages
for the same one.  With all of them handled the averages are those of the whole
input (`AveragesAre`), and `_is_anomalous`, which asks for a positive total, agrees
with `build_expected.py`, which asks for a transaction of the format
(`AnomalousIs`).

The hypotheses are those that the code needs.  `Matched`: banks of one
`bank_max_reducer` have one `bank_mapper`, which holds when their numbers are the
same (as deployed by default) and not when they are 1 and 2 (`queries_uneven`).
`Named`: each bank of the transactions in dollars has one name, its own, and is
written without leading zeros in the accounts file; what the code does otherwise
is listed among the hazards.  One `low_amount_reducer`, as
`compose_generator.py:10` has it: several would send a row each.

Model-checked only.  Liveness everywhere, and with it the fairness halves of
`ImplementsExactlyOnce`, `ImplementsStage` and `ImplementsAnswers`: the prover has
no ENABLED.

## Plan

What is left, most useful first.

1. `CleanupFlow`: the cleanup phase of the ring and the cleanup record; a
   dropped flow must leave nothing behind and never come back.

## Not modelled

The proxy, the encoding of messages, the handling of connections and of exchange
declarations in the middleware carry no state a property could be about.  The
cleanup phase of the workers' ring (`CLEANUP_EXPECTED_COUNT`) is left out of
`StatefulRing` and `SideInput`; `Session` has its beginning and its end, the cleanup
EOFs that enter the pipeline and the QUERY_END that may come out.  `Session` has
one client: several that compete for the pool, and the queue of a client whose
handler starts between the deletion of its queue and the removal of its entry,
which then nobody deletes, are listed as hazards only.  The counting of missed
pongs, `docker start` and its failures, the request for currency rates (and its
fallback) and the generation of the
compose file beyond the topology are left out.
