------------------------------ MODULE SideInput ------------------------------
(***************************************************************************)
(* A worker that joins its main stream with a table fed by a second queue: *)
(* SideInputStatelessWorker as BankMapper and AnomalyFilter use it, for    *)
(* one flow.  A batch of the main stream that comes before the table is    *)
(* complete is written to a spill file; when the table becomes complete    *)
(* the side thread emits what was spilled and removes the file; later      *)
(* batches are emitted at once.                                            *)
(*                                                                         *)
(* The handlers of the main and the side thread exclude each other by      *)
(* _state_lock.  The drain runs outside of it, under the lock of the flow, *)
(* which the main handler takes to look at the readiness and to spill.     *)
(*                                                                         *)
(* Abstractions.  The log is what replaying it yields (DurableWorker), and *)
(* the main EOF, forwarded at once with its count, is left out: the client *)
(* counts results, in any order.  Emitted batches carry the identifier of  *)
(* their input, so "out" is a set.  Cleanup EOFs are not among the inputs. *)
(***************************************************************************)
EXTENDS Naturals, Sequences, FiniteSets, Functions

CONSTANTS
  Batches,     \* batches of the main stream
  Side,        \* batches of the table
  SideEof,     \* the EOF of the table's stream, with the number of its batches
  None,        \* no message in hand, no expected count
  Garbled,     \* a line of the spill file that does not parse
  MaxCrashes   \* bound: crashes of the worker

ASSUME InputsAssumption ==
  /\ IsFiniteSet(Side) /\ SideEof \notin Side /\ None \notin Nat
  /\ {None, Garbled} \cap (Batches \cup Side \cup {SideEof}) = {}
  /\ MaxCrashes \in Nat

VARIABLES
  mainq,  \* main messages not yet acked
  sideq,  \* side messages not yet acked
  mem,    \* the worker's memory
  ready,  \* SideInputTracker: the event of the flow is set
  disk,   \* what the worker's log replays to
  spill,  \* the lines of the spill file
  ended,  \* the last of them has its newline
  main,   \* the main thread: where it is, and the message in hand
  side,   \* the side thread, likewise, with became_ready and the next line
  out,    \* what was emitted: batches, each with the table it was joined with
  crashes,
  torn    \* how many of them cut a write to the spill file short

vars ==
  <<mainq, sideq, mem, ready, disk, spill, ended, main, side, out, crashes, torn>>

Records == [main : SUBSET Batches, side : SUBSET (Side \cup {SideEof}),
            table : SUBSET Side, received : Nat, expected : Nat \cup {None}]

TypeOK ==
  /\ mainq \subseteq Batches /\ sideq \subseteq Side \cup {SideEof}
  /\ mem \in Records /\ disk \in Records /\ ready \in BOOLEAN
  /\ spill \in Seq(Batches \cup {Garbled}) /\ ended \in BOOLEAN
  /\ main \in [at : {"off", "idle", "emit", "log"}, msg : Batches \cup {None}]
  /\ side \in [at : {"off", "idle", "log", "ack", "drain", "draining", "dead"},
               msg : Side \cup {SideEof, None}, fresh : BOOLEAN,
               line : 1 .. Len(spill) + 1]
  /\ out \subseteq [batch : Batches, table : SUBSET Side]
  /\ crashes \in Nat /\ torn \in Nat

-----------------------------------------------------------------------------

Blank == [main |-> {}, side |-> {}, table |-> {}, received |-> 0, expected |-> None]

MainOff  == [at |-> "off", msg |-> None]
MainIdle == [at |-> "idle", msg |-> None]
SideOff  == [at |-> "off", msg |-> None, fresh |-> FALSE, line |-> 1]
SideIdle == [SideOff EXCEPT !.at = "idle"]

Emitted   == {e.batch : e \in out}
Joined(b) == [batch |-> b, table |-> mem.table]

CompleteOnEof(r) == r.expected # None  \* mutant: the EOF alone completes it

\* SideInputTracker._check_ready
Complete(r) == r.expected # None /\ r.received >= r.expected

SnapshotWithoutTable(r) == [r EXCEPT !.table = {}]  \* mutant

\* _snapshot_flow and _restore_snapshot: what compaction makes of the record r.
Snapshot(r) == r

NoDrainAtStart(r) == FALSE  \* mutant

\* _drain_ready_flows
DrainAtStart(r) == Complete(r)

Init ==
  /\ mainq = Batches /\ sideq = Side \cup {SideEof}
  /\ mem = Blank /\ ready = FALSE /\ disk = Blank
  /\ spill = <<>> /\ ended = TRUE
  /\ main = MainOff /\ side = SideOff
  /\ out = {} /\ crashes = 0 /\ torn = 0

\* The log is replayed and compacted; the threads start, after what a crash
\* left in the spill file of a complete flow has been drained.
Start ==
  /\ main = MainOff /\ side = SideOff
  /\ mem' = disk
  /\ ready' = Complete(disk)
  /\ disk' = Snapshot(disk)
  /\ IF DrainAtStart(disk)
     THEN side' = [SideOff EXCEPT !.at = "drain"] /\ UNCHANGED main
     ELSE side' = SideIdle /\ main' = MainIdle
  /\ UNCHANGED <<mainq, sideq, spill, ended, out, crashes, torn>>

-----------------------------------------------------------------------------
(* The main thread *)

\* A delivery that is not in the index, with _state_lock free for the main
\* thread and the lock of the flow not held by a drain.
TakesBatch(b) ==
  /\ main.at = "idle" /\ side.at \notin {"log", "draining"}
  /\ b \in mainq \ mem.main

Overwriting(b) == <<b>>  \* mutant: the file is opened anew

\* BatchSpill.write: a line written behind one without newline is glued to it.
Written(b) ==
  IF ended THEN Append(spill, b) ELSE [spill EXCEPT ![Len(spill)] = Garbled]

\* The table is not complete: the batch goes to the spill file.
SpillBatch(b) ==
  /\ TakesBatch(b)
  /\ ~ready
  /\ spill' = Written(b) /\ ended' = TRUE
  /\ main' = [at |-> "log", msg |-> b]
  /\ UNCHANGED <<mainq, sideq, mem, ready, disk, side, out, crashes, torn>>

\* The table is complete: the batch will be joined with it.
ReadReady(b) ==
  /\ TakesBatch(b)
  /\ ready
  /\ main' = [at |-> "emit", msg |-> b]
  /\ UNCHANGED <<mainq, sideq, mem, ready, disk, spill, ended, side, out, crashes, torn>>

EmitBatch ==
  /\ main.at = "emit"
  /\ out' = out \cup {Joined(main.msg)}
  /\ main' = [main EXCEPT !.at = "log"]
  /\ UNCHANGED <<mainq, sideq, mem, ready, disk, spill, ended, side, crashes, torn>>

\* seen.add, the record, and perhaps a compaction.
LogMain ==
  /\ main.at = "log"
  /\ LET logged == [mem EXCEPT !.main = @ \cup {main.msg}]
     IN /\ mem' = logged
        /\ disk' \in {[disk EXCEPT !.main = @ \cup {main.msg}], Snapshot(logged)}
  /\ main' = MainIdle
  /\ UNCHANGED <<mainq, sideq, ready, spill, ended, side, out, crashes, torn>>

\* The ack of a logged message, and of a redelivered one.
AckMain(b) ==
  /\ main.at # "off"
  /\ b \in mainq \cap mem.main
  /\ mainq' = mainq \ {b}
  /\ UNCHANGED <<sideq, mem, ready, disk, spill, ended, main, side, out, crashes, torn>>

-----------------------------------------------------------------------------
(* The side thread *)

\* The record r with the side message s: a batch of the table, or its EOF.
WithSide(r, s) ==
  IF s = SideEof
  THEN [r EXCEPT !.side = @ \cup {s}, !.expected = Cardinality(Side)]
  ELSE [r EXCEPT !.side = @ \cup {s}, !.table = @ \cup {s}, !.received = @ + 1]

\* The first half of _handle_side_message; the lock is kept.
ApplySide(s) ==
  /\ side.at = "idle" /\ main.at = "idle"
  /\ s \in sideq \ mem.side
  /\ mem' = WithSide(mem, s)
  /\ ready' = (ready \/ Complete(mem'))
  /\ side' = [SideOff EXCEPT !.at = "log", !.msg = s, !.fresh = ready' /\ ~ready]
  /\ UNCHANGED <<mainq, sideq, disk, spill, ended, main, out, crashes, torn>>

LogSide ==
  /\ side.at = "log"
  /\ disk' = WithSide(disk, side.msg)
  /\ side' = [side EXCEPT !.at = "ack"]
  /\ UNCHANGED <<mainq, sideq, mem, ready, spill, ended, main, out, crashes, torn>>

\* The ack, and _on_side_input_ready if this message completed the table.
AckSide ==
  /\ side.at = "ack"
  /\ sideq' = sideq \ {side.msg}
  /\ side' = IF side.fresh THEN [SideOff EXCEPT !.at = "drain"] ELSE SideIdle
  /\ UNCHANGED <<mainq, mem, ready, disk, spill, ended, main, out, crashes, torn>>

DropSide(s) ==
  /\ side.at = "idle" /\ main.at = "idle"
  /\ s \in sideq \cap mem.side
  /\ sideq' = sideq \ {s}
  /\ UNCHANGED <<mainq, mem, ready, disk, spill, ended, main, side, out, crashes, torn>>

\* BatchSpill.drain, with the lock of the flow.
BeginDrain ==
  /\ side.at = "drain"
  /\ side' = [side EXCEPT !.at = "draining"]
  /\ UNCHANGED <<mainq, sideq, mem, ready, disk, spill, ended, main, out, crashes, torn>>

DrainLine ==
  /\ side.at = "draining" /\ side.line <= Len(spill)
  /\ spill[side.line] # Garbled
  /\ out' = out \cup {Joined(spill[side.line])}
  /\ side' = [side EXCEPT !.line = @ + 1]
  /\ UNCHANGED <<mainq, sideq, mem, ready, disk, spill, ended, main, crashes, torn>>

WhereItWas == [side EXCEPT !.at = "idle"]  \* mutant: the position is kept

\* The side thread when the drain is over.
Drained == SideIdle

\* The file is removed; at the start, both threads begin to consume.
EndDrain ==
  /\ side.at = "draining" /\ side.line > Len(spill)
  /\ spill' = <<>> /\ ended' = TRUE
  /\ side' = Drained
  /\ main' = IF main = MainOff THEN MainIdle ELSE main
  /\ UNCHANGED <<mainq, sideq, mem, ready, disk, out, crashes, torn>>

\* Mutant: the drain removes the file whether or not it has come to its end.
RemovesTheFile ==
  /\ side.at = "draining" /\ side.line <= Len(spill)
  /\ spill[side.line] = Garbled
  /\ spill' = <<>> /\ ended' = TRUE
  /\ IF main = MainOff
     THEN side' = SideOff /\ mem' = Blank /\ ready' = FALSE
     ELSE side' = [SideOff EXCEPT !.at = "dead"] /\ UNCHANGED <<mem, ready>>
  /\ UNCHANGED <<mainq, sideq, disk, main, out, crashes, torn>>

\* A line that does not parse raises: the side thread ends and the process
\* goes on without it, or, at the start, the process ends.
FailDrain ==
  /\ side.at = "draining" /\ side.line <= Len(spill)
  /\ spill[side.line] = Garbled
  /\ IF main = MainOff
     THEN side' = SideOff /\ mem' = Blank /\ ready' = FALSE
     ELSE side' = [SideOff EXCEPT !.at = "dead"] /\ UNCHANGED <<mem, ready>>
  /\ UNCHANGED <<mainq, sideq, disk, spill, ended, main, out, crashes, torn>>

-----------------------------------------------------------------------------
(* Crashes *)

Die ==
  /\ crashes < MaxCrashes
  /\ crashes' = crashes + 1
  /\ main' = MainOff /\ side' = SideOff
  /\ mem' = Blank /\ ready' = FALSE
  /\ UNCHANGED <<mainq, sideq, disk, out>>

Crash ==
  /\ side.at # "off"
  /\ Die
  /\ UNCHANGED <<spill, ended, torn>>

\* The process dies inside BatchSpill.write: the line is there in part, or
\* whole but for its newline.
CrashInSpill(b) ==
  /\ TakesBatch(b) /\ ~ready
  /\ Die
  /\ torn' = torn + 1
  /\ ended' = FALSE
  /\ IF ended THEN \E text \in {b, Garbled} : spill' = Append(spill, text)
              ELSE spill' = Written(b)

-----------------------------------------------------------------------------

Handle    == \E b \in Batches : SpillBatch(b) \/ ReadReady(b)
ApplyAny  == \E s \in Side \cup {SideEof} : ApplySide(s) \/ DropSide(s)
Running   == EmitBatch \/ LogMain \/ (\E b \in Batches : AckMain(b))
Finishing == LogSide \/ AckSide \/ BeginDrain \/ DrainLine \/ EndDrain \/ FailDrain

Next ==
  \/ Start \/ Handle \/ ApplyAny \/ Running \/ Finishing
  \/ Crash \/ (\E b \in Batches : CrashInSpill(b))

Spec == Init /\ [][Next]_vars

\* Each thread runs, the watchdog starts a stopped worker, and a thread that
\* waits for a lock again and again gets it some time.
FairSpec ==
  /\ Spec
  /\ WF_vars(Start) /\ WF_vars(Running) /\ WF_vars(Finishing)
  /\ SF_vars(Handle) /\ SF_vars(ApplyAny)

-----------------------------------------------------------------------------
(* Properties *)

\* No batch is joined with a part of the table: not early, not after a
\* restart from a compacted log, not by a drain that overtook an append.
JoinedWithFullTable == \A e \in out : e.table = Side

\* The lines that a drain gets to: it raises at the first that does not parse,
\* and so does the drain of every later start.
Reachable == {i \in DOMAIN spill : \A j \in 1 .. i : spill[j] # Garbled}
Readable  == {spill[i] : i \in Reachable}
Behind    == {spill[i] : i \in DOMAIN spill \ Reachable}

\* A batch that is in the log, and so will not be handled again, was emitted
\* or is in the spill file where a drain can read it.
NothingLost == disk.main \subseteq Emitted \cup Readable

\* The logged batches that no drain will ever emit.
Lost == disk.main \ (Emitted \cup Readable)

\* What a crash inside a write to the spill file costs: the batch that is glued
\* to the torn line, one for each such crash, and all that is behind the first
\* line that does not parse, which stays there.  Without such a line nothing is
\* lost.
LosesFromTornWriteOn ==
  /\ Lost # {} => torn > 0 /\ Garbled \in Range(spill)
  /\ Cardinality(Lost \ Behind) <= torn

\* A torn write costs nothing that was in the log and safe before it: no later
\* write, drain, restart or crash takes away a logged batch that a drain could
\* read.
SafeStaysSafe ==
  [][disk.main \cap (Emitted \cup Readable) \subseteq (Emitted \cup Readable)']_vars

\* Nothing is left in the spill file once the table is complete and no drain
\* is under way or due: no batch is spilled behind the drain.
NoStragglers == ready /\ side.at = "idle" => spill = <<>>

\* Every batch is eventually emitted, unless a torn line ends the side thread.
EventuallyEmitted == <>(Emitted = Batches \/ torn > 0)
=============================================================================
