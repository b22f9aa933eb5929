--------------------------- MODULE DurableWorker ---------------------------
(***************************************************************************)
(* One worker with a state directory, one channel and one client flow:     *)
(* Worker._handle_message, the seen index and the compaction of StateLog,  *)
(* and the append-only file of StateStore, under redelivery by the broker, *)
(* duplicates sent by a recovering upstream, and crashes at every step.    *)
(*                                                                         *)
(* StatefulWorker._handle_control_message runs the same protocol on the    *)
(* control channel, with its own entry of the seen index.                  *)
(*                                                                         *)
(* Abstractions.  A message is its identifier, and its delta is the fact   *)
(* that it was applied: "applied" counts how many times it was.  The file  *)
(* is what its lines parse to: at most one snapshot, which compaction puts *)
(* first, then one record per append; a line made of a torn record with    *)
(* another record glued to it is Garbled and does not parse.  Deliveries   *)
(* may come in any order.  The cleanup record and the flows of other       *)
(* clients are not in this module.                                         *)
(***************************************************************************)
EXTENDS Naturals, Sequences, FiniteSets

CONSTANTS
  Mids,              \* message identifiers of the flow
  NoMid,             \* no message in hand
  Garbled,           \* a line that does not parse
  CompactThreshold,  \* StateLog._COMPACT_THRESHOLD
  MaxSends,          \* bound: times upstream may publish one identifier
  MaxCrashes         \* bound: crashes of the worker

ASSUME MidsAssumption == NoMid \notin Mids /\ Garbled \notin Mids
ASSUME BoundsAssumption ==
  CompactThreshold \in Nat /\ MaxSends \in Nat /\ MaxCrashes \in Nat

VARIABLES
  queue,    \* the broker's queue: copies of each message not yet acked
  sent,     \* times upstream published each message
  out,      \* times the handler of each message published its results
  base,     \* the snapshot at the head of the file (NoRecords if none)
  tail,     \* the records appended after it
  torn,     \* the file ends in a record without its newline
  handle,   \* StateStore._file: "closed", "open", or "unlinked": open on
            \* the file that os.replace has taken out of the directory
  pc,       \* where the worker is
  cur,      \* the message in hand
  seen,     \* StateLog._seen of this channel and flow
  applied,  \* the state: how many times each delta is part of it
  appends,  \* StateLog._appends_since_compact
  crashes

broker == <<queue, sent, out>>
disk   == <<base, tail, torn>>
memory == <<seen, applied>>
vars   == <<queue, sent, out, base, tail, torn, handle, pc, cur, seen, applied,
            appends, crashes>>

State     == [seen : SUBSET Mids, applied : [Mids -> Nat]]
NoRecords == [seen |-> {}, applied |-> [m \in Mids |-> 0]]

PCs == {"down", "loading", "idle", "handled", "note", "compact", "replaced", "ack"}

TypeOK ==
  /\ queue \in [Mids -> Nat] /\ sent \in [Mids -> Nat] /\ out \in [Mids -> Nat]
  /\ base \in State
  /\ tail \in Seq(Mids \cup {Garbled})
  /\ torn \in BOOLEAN
  /\ handle \in {"closed", "open", "unlinked"}
  /\ pc \in PCs
  /\ cur \in Mids \cup {NoMid}
  /\ seen \in SUBSET Mids /\ applied \in [Mids -> Nat]
  /\ appends \in Nat /\ crashes \in Nat

-----------------------------------------------------------------------------
(* The file *)

Positions(m, t) == {i \in 1..Len(t) : t[i] = m}

\* The state that replaying the snapshot b and the records t yields.
Replay(b, t) ==
  [seen    |-> b.seen \cup {m \in Mids : Positions(m, t) # {}},
   applied |-> [m \in Mids |-> b.applied[m] + Cardinality(Positions(m, t))]]

Durable   == Replay(base, tail)
InMemory  == [seen |-> seen, applied |-> applied]
Parses(t) == Positions(Garbled, t) = {}

SnapshotWithoutIndex == [seen |-> {}, applied |-> applied]       \* mutant
SnapshotWithoutState == [seen |-> seen, applied |-> NoRecords.applied] \* mutant

\* What compaction writes: StateLog._snapshot_flow.
Snapshot == InMemory

TornKept == torn  \* mutant: the torn line is skipped, not truncated

\* Whether the file ends in a torn record once StateStore.load is done.
TornAfterLoad == FALSE

HandleKept == handle  \* mutant: compaction leaves the old file open

\* StateStore._file when StateStore.compact returns.
HandleAfterCompact == "closed"

AckedTwice(m) == [queue EXCEPT ![m] = @ - 2]  \* mutant
NeverAcked(m) == queue                        \* mutant

\* The queue without one copy of m.
Acked(m) == [queue EXCEPT ![m] = @ - 1]

Unchecked(m) == TRUE  \* mutant: no deduplication

\* The deduplication check of _handle_message.
IsNew(m) == m \notin seen

Init ==
  /\ queue = [m \in Mids |-> 0] /\ sent = [m \in Mids |-> 0]
  /\ out = [m \in Mids |-> 0]
  /\ base = NoRecords /\ tail = <<>> /\ torn = FALSE /\ handle = "closed"
  /\ pc = "down" /\ cur = NoMid
  /\ seen = {} /\ applied = [m \in Mids |-> 0]
  /\ appends = 0 /\ crashes = 0

-----------------------------------------------------------------------------
(* Upstream *)

\* Upstream publishes m, or publishes it again: it crashed before it acked
\* the message m was computed from.
Publish(m) ==
  /\ sent[m] < MaxSends
  /\ sent' = [sent EXCEPT ![m] = @ + 1]
  /\ queue' = [queue EXCEPT ![m] = @ + 1]
  /\ UNCHANGED <<out, disk, handle, pc, cur, memory, appends, crashes>>

-----------------------------------------------------------------------------
(* Start and recovery *)

\* The container is started: an empty memory, and the file not yet open.
Start ==
  /\ pc = "down"
  /\ pc' = "loading"
  /\ UNCHANGED <<broker, disk, handle, cur, memory, appends, crashes>>

\* StateStore.load, consumed to its end by StateLog._recover: each record is
\* replayed and a torn one is cut off.  A line that does not parse raises.
Load ==
  /\ pc = "loading"
  /\ Parses(tail)
  /\ seen' = Durable.seen /\ applied' = Durable.applied
  /\ torn' = TornAfterLoad
  /\ pc' = IF base = NoRecords /\ tail = <<>> THEN "idle" ELSE "compact"
  /\ UNCHANGED <<broker, base, tail, handle, cur, appends, crashes>>

-----------------------------------------------------------------------------
(* Handling a message *)

\* A delivery whose identifier is in the index is acked and dropped.
DropDuplicate(m) ==
  /\ pc = "idle" /\ queue[m] > 0
  /\ ~IsNew(m)
  /\ queue' = Acked(m)
  /\ UNCHANGED <<sent, out, disk, handle, pc, cur, memory, appends, crashes>>

\* The handler changes the state and publishes its results.
HandleMessage(m) ==
  /\ pc = "idle" /\ queue[m] > 0
  /\ IsNew(m)
  /\ cur' = m
  /\ applied' = [applied EXCEPT ![m] = @ + 1]
  /\ out' = [out EXCEPT ![m] = @ + 1]
  /\ pc' = "handled"
  /\ UNCHANGED <<queue, sent, disk, handle, seen, appends, crashes>>

StoreNothing(m) == UNCHANGED <<disk, handle>>  \* mutant: acked, not logged

StoreTruncating(m) ==  \* mutant: the file is opened for writing anew
  /\ tail' = <<m>> /\ base' = NoRecords
  /\ torn' = FALSE /\ handle' = "open"

\* StateStore.append: write, flush and fsync through the open handle.  A
\* record written after a torn one completes its line, which does not parse.
StoreAppend(m) ==
  IF handle = "unlinked"
  THEN UNCHANGED <<disk, handle>>
  ELSE /\ tail' = Append(tail, IF torn THEN Garbled ELSE m)
       /\ torn' = FALSE
       /\ handle' = "open"
       /\ UNCHANGED base

\* seen.add, then the record of the message in hand.
AppendRecord ==
  /\ pc = "handled"
  /\ seen' = seen \cup {cur}
  /\ StoreAppend(cur)
  /\ pc' = "note"
  /\ UNCHANGED <<broker, cur, applied, appends, crashes>>

\* StateLog._note_append
NoteAppend ==
  /\ pc = "note"
  /\ IF appends + 1 >= CompactThreshold
     THEN appends' = 0 /\ pc' = "compact"
     ELSE appends' = appends + 1 /\ pc' = "ack"
  /\ UNCHANGED <<broker, disk, handle, cur, memory, crashes>>

\* StateLog._compact and StateStore.compact up to os.replace: the snapshot
\* was written beside the file and now takes its name.
CompactReplace ==
  /\ pc = "compact"
  /\ base' = Snapshot /\ tail' = <<>> /\ torn' = FALSE
  /\ handle' = IF handle = "open" THEN "unlinked" ELSE handle
  /\ pc' = "replaced"
  /\ UNCHANGED <<broker, cur, memory, appends, crashes>>

\* The end of StateStore.compact: the handle on the old file is closed.
CompactClose ==
  /\ pc = "replaced"
  /\ handle' = HandleAfterCompact
  /\ appends' = 0
  /\ pc' = IF cur = NoMid THEN "idle" ELSE "ack"
  /\ UNCHANGED <<broker, disk, cur, memory, crashes>>

Ack ==
  /\ pc = "ack"
  /\ queue' = Acked(cur)
  /\ cur' = NoMid
  /\ pc' = "idle"
  /\ UNCHANGED <<sent, out, disk, handle, memory, appends, crashes>>

-----------------------------------------------------------------------------
(* Crashes *)

\* The process dies: memory and handle are gone, the delivery in hand goes
\* back to the queue.  An exception in a handler ends the same way.
Die ==
  /\ crashes < MaxCrashes
  /\ crashes' = crashes + 1
  /\ pc' = "down" /\ cur' = NoMid /\ handle' = "closed"
  /\ seen' = {} /\ applied' = [m \in Mids |-> 0] /\ appends' = 0
  /\ UNCHANGED broker

Crash ==
  /\ pc # "down"
  /\ Die
  /\ UNCHANGED disk

\* The process dies inside StateStore.append, after part of the record.
CrashInAppend ==
  /\ pc = "handled"
  /\ handle # "unlinked"
  /\ Die
  /\ torn' = TRUE
  /\ UNCHANGED <<base, tail>>

-----------------------------------------------------------------------------

Step ==
  \/ Start \/ Load \/ AppendRecord \/ NoteAppend
  \/ CompactReplace \/ CompactClose \/ Ack

Receive(m) == DropDuplicate(m) \/ HandleMessage(m)

Next ==
  \/ Step
  \/ \E m \in Mids : Publish(m) \/ Receive(m)
  \/ Crash \/ CrashInAppend

Spec == Init /\ [][Next]_vars

\* The worker's own steps are not delayed for ever: a started process runs,
\* a stopped one is started again by the watchdog, and the broker delivers
\* every queued message.  Nothing is assumed of upstream or of crashes.
FairSpec ==
  /\ Spec
  /\ WF_vars(Step)
  /\ \A m \in Mids : SF_vars(Receive(m))

-----------------------------------------------------------------------------
(* Properties *)

\* No delta is ever part of the state twice, in memory or on disk, whatever
\* is redelivered or replayed (the dedup check against a replayed index).
AppliedAtMostOnce ==
  \A m \in Mids : applied[m] <= 1 /\ Durable.applied[m] <= 1

\* Between two messages, a crash would lose nothing and invent nothing: the
\* replay of the file is the memory (log before ack, and compaction).
FileIsMemory ==
  pc \in {"idle", "ack"} => Durable = InMemory

\* A message that has left the broker is in the file, its delta with it, and
\* its results were published (nothing is acked before it is durable).
AckedIsDurable ==
  \A m \in Mids :
    sent[m] > 0 /\ queue[m] = 0 =>
      m \in Durable.seen /\ Durable.applied[m] = 1 /\ out[m] > 0

\* The file can always be loaded: a torn record is never built upon.
FileParses == Parses(tail)

\* The inductive invariant: how memory, file, handle and broker relate at
\* each step of the handler (a message in hand is still queued, a memory
\* ahead of the file is ahead by the one delta of that message).
Inductive ==
  /\ TypeOK
  /\ Parses(tail)
  /\ torn => pc \in {"down", "loading"}
  /\ handle = "unlinked" => pc = "replaced"
  /\ pc \in {"down", "loading", "idle"} => cur = NoMid
  /\ pc \in {"handled", "note", "ack"} => cur \in Mids
  /\ pc \in {"down", "loading"} => InMemory = NoRecords
  /\ pc \in {"idle", "note", "compact", "replaced", "ack"} => InMemory = Durable
  /\ pc = "handled" =>
       /\ cur \notin seen /\ seen = Durable.seen
       /\ applied = [Durable.applied EXCEPT ![cur] = @ + 1]
       /\ out[cur] > 0
  /\ cur \in Mids => queue[cur] > 0 /\ (pc # "handled" => cur \in seen)
  /\ \A m \in Mids :
       /\ Durable.applied[m] = IF m \in Durable.seen THEN 1 ELSE 0
       /\ m \in Durable.seen => sent[m] > 0 /\ out[m] > 0
       /\ queue[m] > 0 => sent[m] > 0
       /\ sent[m] > 0 /\ queue[m] = 0 => m \in Durable.seen

\* What is durable stays durable: no append, compaction, crash or recovery
\* takes an identifier out of the file.
FileNeverForgets == [][Durable.seen \subseteq Durable'.seen]_vars

\* Every message queued for the worker is eventually acked.
EventuallyAcked == \A m \in Mids : queue[m] > 0 ~> queue[m] = 0

\* The worker implements the indivisible, exactly-once effect.
Promise == INSTANCE ExactlyOnce
             WITH submitted <- {m \in Mids : sent[m] > 0},
                  done <- Durable.seen,
                  effect <- Durable.applied

ImplementsExactlyOnce == Promise!FairSpec
=============================================================================
