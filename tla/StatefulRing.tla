---------------------------- MODULE StatefulRing ----------------------------
(***************************************************************************)
(* The replicas of one stateful stage and the token by which they agree    *)
(* that a client's stream is over: StatefulWorker, one flow.               *)
(*                                                                         *)
(* The upstream EOF reaches node 0 with the number of messages upstream    *)
(* sent to the stage.  Node 0 starts a RING_EOF that collects, hop by hop, *)
(* how many messages each node has processed since it was last asked.  The *)
(* node at which the total reaches the expected count becomes coordinator  *)
(* and sends the token on one more lap, in which each node flushes its     *)
(* results; when the token is back the coordinator sends the stage's EOF   *)
(* with the number of results sent.                                        *)
(*                                                                         *)
(* Each node has a main and a control thread.  Their handlers exclude each *)
(* other by _state_lock; each sends, appends to the node's log, and acks   *)
(* after releasing the lock.  A handler is two or three actions here, and  *)
(* a node may crash between them.                                          *)
(*                                                                         *)
(* Abstractions.  The log is what replaying it yields ("disk"), which      *)
(* DurableWorker justifies: an append is atomic, recovery replays it, and  *)
(* compaction does not change it.  All the stream is in the main queues at *)
(* the start, in every order, the EOF anywhere among node 0's messages: a  *)
(* message not yet published is one not yet delivered.  A queue keeps its  *)
(* order across redelivery.  Cleanup EOFs (expected count -1) and          *)
(* duplicates of main messages sent by a recovering upstream are not among *)
(* the inputs; results of a datum are one message, sent at its handling    *)
(* (BidirectionalSharder) or at the flush (the others).                    *)
(***************************************************************************)
EXTENDS Integers, Sequences, FiniteSets, SequencesExt

CONSTANTS
  N,            \* ring_size
  Data,         \* the messages of the stream
  Eof,          \* the EOF of the stream
  ShardOf,      \* the node each message is routed to
  Results,      \* the messages that yield a result
  Modes,        \* the values eager may have
  CrashPoints,  \* where a node may crash
  MaxCrashes,   \* bound: crashes of all nodes
  MaxSeq        \* bound: hops of the count token while data is unprocessed

Nodes == 0 .. N - 1
None  == -1     \* RingEOF.coordinator_id is None

ASSUME ParametersAssumption ==
  /\ N \in Nat \ {0} /\ MaxCrashes \in Nat /\ MaxSeq \in Nat
  /\ IsFiniteSet(Data) /\ Eof \notin Data /\ Results \subseteq Data
  /\ ShardOf \in [Data -> Nodes] /\ Modes \subseteq BOOLEAN

\* What a node is doing: stopped, no handler running, or the last thing the
\* running handler did, with _state_lock held.
Steps == {"down", "free", "data", "eof", "eof_logged", "count", "elect",
          "flush", "passed"}

ASSUME CrashAssumption == CrashPoints \subseteq Steps \ {"down"}

VARIABLES
  eager,   \* the worker's class sends its results as it reads, not at the flush
  mainq,   \* main queue of each node, the unacked delivery at its head
  ctlq,    \* control queue of each node, likewise
  step,    \* what each node is doing
  mem,     \* each node's memory
  disk,    \* what each node's log replays to
  out,     \* results that downstream has received, by identifier
  finals,  \* counts of the EOFs that downstream has received
  crashes

vars == <<eager, mainq, ctlq, step, mem, disk, out, finals, crashes>>

TokenIds == {"count", "flush"} \X Nat
Tokens   == [phase : {"count", "flush"}, seq : Nat, total : Int, sent : Int,
             coordinator : Nodes \cup {None}]
Records  == [main : SUBSET (Data \cup {Eof}), control : SUBSET TokenIds,
             buffer : SUBSET Data,
             processed : Nat, partial : Nat, sent : Nat, partialSent : Nat]

TypeOK ==
  /\ eager \in Modes
  /\ mainq \in [Nodes -> Seq(Data \cup {Eof})]
  /\ ctlq \in [Nodes -> Seq(Tokens)]
  /\ step \in [Nodes -> Steps]
  /\ mem \in [Nodes -> Records] /\ disk \in [Nodes -> Records]
  /\ out \subseteq Data /\ finals \subseteq Int /\ crashes \in Nat

-----------------------------------------------------------------------------

Expected    == Cardinality(Data)
NextNode(n) == (n + 1) % N
Up(n)       == step[n] # "down"

IdOfPhase(t) == <<t.phase, 0>>  \* mutant: an identifier for all laps

\* ring_id: one identifier for each hop of each phase.
TokenId(t) == <<t.phase, t.seq>>

Blank == [main |-> {}, control |-> {}, buffer |-> {},
          processed |-> 0, partial |-> 0, sent |-> 0, partialSent |-> 0]

Stream(n) == {d \in Data : ShardOf[d] = n} \cup (IF n = 0 THEN {Eof} ELSE {})

Init ==
  /\ eager \in Modes
  /\ mainq \in {q \in [Nodes -> UNION {SetToSeqs(Stream(n)) : n \in Nodes}] :
                  \A n \in Nodes : q[n] \in SetToSeqs(Stream(n))}
  /\ ctlq = [n \in Nodes |-> <<>>]
  /\ step = [n \in Nodes |-> "free"]
  /\ mem = [n \in Nodes |-> Blank] /\ disk = [n \in Nodes |-> Blank]
  /\ out = {} /\ finals = {} /\ crashes = 0

\* _get_total_count and _get_total_sent_count: what n has not reported yet.
NewlyProcessed(n) == mem[n].processed - mem[n].partial
NewlySent(n)      == mem[n].sent - mem[n].partialSent

AllProcessed == \A d \in Data : \E n \in Nodes : d \in disk[n].main

SendToken(n, t) == ctlq' = [ctlq EXCEPT ![NextNode(n)] = Append(@, t)]

\* The next delivery of the main (control) queue of n, and it is not in the
\* index of seen identifiers: the thread takes the free lock to handle it.
TakesMain(n, m) ==
  /\ step[n] = "free"
  /\ mainq[n] # <<>> /\ m = Head(mainq[n]) /\ m \notin mem[n].main

TakesToken(n, t) ==
  /\ step[n] = "free"
  /\ ctlq[n] # <<>> /\ t = Head(ctlq[n]) /\ TokenId(t) \notin mem[n].control

-----------------------------------------------------------------------------
(* Main channel *)

\* A data message, taken into the state: the aggregators and reducers.
BufferData(n) ==
  /\ ~eager
  /\ \E d \in Data :
       /\ TakesMain(n, d)
       /\ mem' = [mem EXCEPT ![n].processed = @ + 1,
                             ![n].buffer = @ \cup ({d} \cap Results)]
  /\ step' = [step EXCEPT ![n] = "data"]
  /\ UNCHANGED <<eager, mainq, ctlq, disk, out, finals, crashes>>

\* A data message, whose result is sent at once: BidirectionalSharder.
ForwardData(n) ==
  /\ eager
  /\ \E d \in Data :
       /\ TakesMain(n, d)
       /\ mem' = [mem EXCEPT ![n].processed = @ + 1,
                             ![n].sent = @ + Cardinality({d} \cap Results)]
       /\ out' = out \cup ({d} \cap Results)
  /\ step' = [step EXCEPT ![n] = "data"]
  /\ UNCHANGED <<eager, mainq, ctlq, disk, finals, crashes>>

\* The EOF: node n reports what it has processed and starts the token.
HandleEof(n) ==
  /\ TakesMain(n, Eof)
  /\ mem' = [mem EXCEPT ![n].partial = mem[n].processed,
                        ![n].partialSent = mem[n].sent]
  /\ SendToken(n, [phase |-> "count", seq |-> 0, coordinator |-> None,
                   total |-> NewlyProcessed(n), sent |-> NewlySent(n)])
  /\ step' = [step EXCEPT ![n] = "eof"]
  /\ UNCHANGED <<eager, mainq, disk, out, finals, crashes>>

WithSentOnly(r, m) ==  \* mutant: what was reported is not in the record
  [r EXCEPT !.sent = m.sent, !.partialSent = m.partialSent]

\* The "ring" snapshot of a control record, replayed over the record r.
WithRing(r, m) ==
  [r EXCEPT !.partial = m.partial, !.sent = m.sent, !.partialSent = m.partialSent]

NoRingStart(r, m) == r  \* mutant: starting the token is not logged

\* The control record that _handle_eof_message appends, replayed over r.
RingStart(r, m) == WithRing(r, m)

\* The end of _handle_eof_message: a control record without identifier.
LogRingStart(n) ==
  /\ step[n] = "eof"
  /\ disk' = [disk EXCEPT ![n] = RingStart(@, mem[n])]
  /\ step' = [step EXCEPT ![n] = "eof_logged"]
  /\ UNCHANGED <<eager, mainq, ctlq, mem, out, finals, crashes>>

\* The main record; replaying it counts a data message and applies its delta.
LogMain(n) ==
  /\ step[n] \in {"data", "eof_logged"}
  /\ LET m     == Head(mainq[n])
         delta == {m} \cap Results
     IN /\ mem' = [mem EXCEPT ![n].main = @ \cup {m}]
        /\ disk' = [disk EXCEPT
             ![n].main      = @ \cup {m},
             ![n].processed = IF m = Eof THEN @ ELSE @ + 1,
             ![n].buffer    = IF eager THEN @ ELSE @ \cup delta,
             ![n].sent      = IF eager THEN @ + Cardinality(delta) ELSE @]
  /\ step' = [step EXCEPT ![n] = "free"]
  /\ UNCHANGED <<eager, mainq, ctlq, out, finals, crashes>>

\* The ack of a logged message, and of a redelivered one.
AckMain(n) ==
  /\ Up(n)
  /\ mainq[n] # <<>> /\ Head(mainq[n]) \in mem[n].main
  /\ mainq' = [mainq EXCEPT ![n] = Tail(@)]
  /\ UNCHANGED <<eager, ctlq, step, mem, disk, out, finals, crashes>>

-----------------------------------------------------------------------------
(* Control channel *)

Report(t, total, sent, coordinator) ==
  [t EXCEPT !.total = total, !.sent = sent, !.coordinator = coordinator]

UpdatedOneBased(n, t) ==  \* mutant: the next node's id
  LET total == t.total + NewlyProcessed(n)
  IN Report(t, total, t.sent + NewlySent(n), IF total >= Expected THEN n + 1 ELSE None)

UpdatedInFull(n, t) ==  \* mutant: what was reported before is reported again
  LET total == t.total + mem[n].processed
  IN Report(t, total, t.sent + NewlySent(n), IF total >= Expected THEN n ELSE None)

UpdatedWithoutSent(n, t) ==  \* mutant: what was sent before the flush is left out
  LET total == t.total + NewlyProcessed(n)
  IN Report(t, total, t.sent, IF total >= Expected THEN n ELSE None)

\* _update_ring_eof: the token collects what n has processed and sent since
\* n last reported; the node at which all are accounted for coordinates.
Updated(n, t) ==
  LET total == t.total + NewlyProcessed(n)
  IN Report(t, total, t.sent + NewlySent(n), IF total >= Expected THEN n ELSE None)

\* A count token: forwarded, or turned into the flush token by the node at
\* which the total reaches the expected count.
CountToken(n) ==
  \E t \in {Head(q) : q \in {ctlq[n]} \ {<<>>}} :
    /\ TakesToken(n, t)
    /\ t.coordinator = None
    /\ t.seq < MaxSeq \/ AllProcessed
    /\ LET u == Updated(n, t)
           elected == u.coordinator = n
       IN /\ SendToken(n, IF elected
                          THEN [u EXCEPT !.phase = "flush", !.seq = 0]
                          ELSE [u EXCEPT !.seq = @ + 1])
          /\ step' = [step EXCEPT ![n] = IF elected THEN "elect" ELSE "count"]
    /\ mem' = [mem EXCEPT ![n].partial = mem[n].processed,
                          ![n].partialSent = mem[n].sent]
    /\ UNCHANGED <<eager, mainq, disk, out, finals, crashes>>

\* _flush_data: a message for each result the state of n holds.
Flushed(n) == mem[n].buffer

\* A flush token: the results go out.
FlushToken(n) ==
  \E t \in {Head(q) : q \in {ctlq[n]} \ {<<>>}} :
    /\ TakesToken(n, t)
    /\ t.coordinator # None
    /\ out' = out \cup Flushed(n)
    /\ mem' = [mem EXCEPT ![n].buffer = {},
                          ![n].sent = @ + Cardinality(Flushed(n))]
    /\ step' = [step EXCEPT ![n] = "flush"]
    /\ UNCHANGED <<eager, mainq, ctlq, disk, finals, crashes>>

CountedBeforeFlush(n, t) == t.sent  \* mutant: the count is taken too early

\* _get_total_sent_count, after the flush.
CountedAfterFlush(n, t) == t.sent + NewlySent(n)

\* Then the token goes on with what n has sent; back at the coordinator it
\* becomes the EOF of the stage.
PassFlush(n) ==
  /\ step[n] = "flush"
  /\ LET t    == Head(ctlq[n])
         sent == CountedAfterFlush(n, t)
     IN IF t.coordinator = n
        THEN finals' = finals \cup {sent} /\ UNCHANGED ctlq
        ELSE /\ SendToken(n, [t EXCEPT !.seq = @ + 1, !.sent = sent])
             /\ UNCHANGED finals
  /\ mem' = [mem EXCEPT ![n].partialSent = mem[n].sent]
  /\ step' = [step EXCEPT ![n] = "passed"]
  /\ UNCHANGED <<eager, mainq, disk, out, crashes>>

\* seen.add and the control record.  Whether the flushed state is in the log
\* depends on when the log was compacted last: the record does not say it.
LogControl(n) ==
  /\ step[n] \in {"count", "elect", "passed"}
  /\ LET id   == TokenId(Head(ctlq[n]))
         ring == WithRing(disk[n], mem[n])
     IN /\ mem' = [mem EXCEPT ![n].control = @ \cup {id}]
        /\ \E kept \in {disk[n].buffer, mem[n].buffer} :
             disk' = [disk EXCEPT
               ![n] = [ring EXCEPT !.control = @ \cup {id}, !.buffer = kept]]
  /\ step' = [step EXCEPT ![n] = "free"]
  /\ UNCHANGED <<eager, mainq, ctlq, out, finals, crashes>>

AckControl(n) ==
  /\ Up(n)
  /\ ctlq[n] # <<>> /\ TokenId(Head(ctlq[n])) \in mem[n].control
  /\ ctlq' = [ctlq EXCEPT ![n] = Tail(@)]
  /\ UNCHANGED <<eager, mainq, step, mem, disk, out, finals, crashes>>

-----------------------------------------------------------------------------
(* Crashes *)

Crash(n) ==
  /\ crashes < MaxCrashes
  /\ step[n] \in CrashPoints
  /\ crashes' = crashes + 1
  /\ step' = [step EXCEPT ![n] = "down"]
  /\ mem' = [mem EXCEPT ![n] = Blank]
  /\ UNCHANGED <<eager, mainq, ctlq, disk, out, finals>>

\* _recover, and both consumers started.
Restart(n) ==
  /\ step[n] = "down"
  /\ step' = [step EXCEPT ![n] = "free"]
  /\ mem' = [mem EXCEPT ![n] = disk[n]]
  /\ UNCHANGED <<eager, mainq, ctlq, disk, out, finals, crashes>>

-----------------------------------------------------------------------------

Main(n)    == BufferData(n) \/ ForwardData(n) \/ HandleEof(n)
Control(n) == CountToken(n) \/ FlushToken(n)
Finish(n)  ==
  LogRingStart(n) \/ LogMain(n) \/ PassFlush(n) \/ LogControl(n) \/ Restart(n)

Next ==
  \E n \in Nodes :
    Main(n) \/ Control(n) \/ Finish(n) \/ AckMain(n) \/ AckControl(n) \/ Crash(n)

Spec == Init /\ [][Next]_vars

\* A running handler ends, a stopped node is started again, an ack is sent;
\* each thread that waits for the lock again and again gets it some time.
FairSpec ==
  /\ Spec
  /\ \A n \in Nodes :
       /\ WF_vars(Finish(n)) /\ WF_vars(AckMain(n)) /\ WF_vars(AckControl(n))
       /\ SF_vars(Main(n)) /\ SF_vars(Control(n))

-----------------------------------------------------------------------------
(* Properties *)

AllTokens == UNION {{ctlq[n][i] : i \in DOMAIN ctlq[n]} : n \in Nodes}

\* A coordinator exists only when every message the EOF announced is in the
\* log of a node: nothing is flushed, and no EOF sent, before the stream is
\* complete (the total counts no message twice).
FlushOnlyWhenComplete ==
  (\E t \in AllTokens : t.coordinator # None) \/ finals # {} => AllProcessed

\* The EOF of the stage announces exactly the results downstream has, and
\* downstream has them all: it would wait for ever for one more, and close
\* the stream too soon for one less.  Two different EOFs are never sent.
FinalCountsResults ==
  \A c \in finals : c = Cardinality(out) /\ out = Results

\* The tokens a node has yet to handle, as the queues and indexes stand.
Unseen == {u \in UNION {{n} \X DOMAIN ctlq[n] : n \in Nodes} :
             TokenId(ctlq[u[1]][u[2]]) \notin mem[u[1]].control}

\* The sum of a number for each node, as the count of the pairs it stands for.
SumOver(f) == Cardinality(UNION {{n} \X (1 .. f[n]) : n \in Nodes})

\* No report is lost or counted twice: when no handler is running and one
\* token is left to be handled, its total is what the nodes have reported.
TokenCarriesReports ==
  \A u \in Unseen :
    LET t == ctlq[u[1]][u[2]]
    IN (/\ \A n \in Nodes : step[n] = "free"
        /\ \A v \in Unseen :
             /\ TokenId(ctlq[v[1]][v[2]]) = TokenId(t)
             /\ v[1] = u[1] /\ v[2] >= u[2])
       => t.total = SumOver([n \in Nodes |-> mem[n].partial])

\* Once the EOF is in the queue of node 0 the stage eventually sends its own.
EventuallyClosed == <>(finals # {})

\* The ring implements the stage: one indivisible end of stream.
Stage == INSTANCE StreamStage
           WITH taken     <- UNION {disk[n].main \cap Data : n \in Nodes},
                emitted   <- out,
                announced <- finals

ImplementsStage == Stage!FairSpec
=============================================================================
