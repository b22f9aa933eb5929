------------------------------ MODULE Session -------------------------------
(***************************************************************************)
(* A client, the gateway it was redirected to, and the results queue that  *)
(* the query pipeline fills: Client, Gateway, ClientHandler, InternalRouter,*)
(* ClientRegistry and Reaper, for one client.                              *)
(*                                                                         *)
(* The client sends its batches one at a time, each after the ack of the   *)
(* one before, on a TCP connection (a session); when a session breaks it   *)
(* opens another and sends the pending batch again.  A handler per session *)
(* forwards each batch to the pipeline under an identifier derived from    *)
(* the client and the index of the batch, consumes the client's results    *)
(* queue, and acks a result to the broker when the client has acked it.    *)
(* The registry remembers who is connected; the reaper cleans up after a   *)
(* client whose entry has been disconnected and untouched for too long.    *)
(*                                                                         *)
(* Abstractions.  The handler's queue, its sender thread and the socket    *)
(* are one FIFO ("down"), and so are the client's ("up"); what is in them  *)
(* when a session breaks is read up to any point.  The pipeline is what    *)
(* the modules on its stages promise: it takes a message once, whatever    *)
(* the number of copies, and publishes each of its answers at least once.  *)
(* _persist_locked runs under the lock of the operation it ends: the file  *)
(* holds the clients of the registry.                                      *)
(***************************************************************************)
EXTENDS Integers, Sequences, FiniteSets

CONSTANTS
  Transactions,  \* number of transaction batches of the client
  Accounts,      \* number of account batches
  Results,       \* the result messages of the queries: [query, id]
  PoolSize,      \* pool_size: handlers that run at a time
  MayDie,        \* the client may be killed
  MaxFaults,     \* bound: broken sessions and crashes of the gateway
  MaxRepeats     \* bound: answers that a recovering stage publishes again

ASSUME ParametersAssumption ==
  /\ Transactions \in Nat /\ Accounts \in Nat /\ IsFiniteSet(Results)
  /\ PoolSize \in Nat \ {0} /\ MayDie \in BOOLEAN
  /\ MaxFaults \in Nat /\ MaxRepeats \in Nat

Queries      == {r.query : r \in Results}
ResultsOf(q) == {r \in Results : r.query = q}

\* QUERY_END, with the number of results, or with the count of a cleanup.
Ends        == [query : Queries, id : {"end", "cleanup"}]
Answers     == Results \cup Ends
Announces(e) == IF e.id = "cleanup" THEN -1 ELSE Cardinality(ResultsOf(e.query))

\* What a delivery id stands for once its answer has been acked.
Acked == [query |-> "acked", id |-> "acked"]

\* The messages the client has for the gateway, in the order it sends them.
Batches(key, n) == [i \in 1 .. n |-> [key |-> key, id |-> i - 1]]
EofOf(key)      == <<[key |-> key, id |-> -1]>>

MessagesToSend ==
  Batches("transaction", Transactions) \o EofOf("transaction")
    \o Batches("account", Accounts) \o EofOf("account")

Total    == Len(MessagesToSend)
Sessions == 1 .. MaxFaults + 1
Roots    == {MessagesToSend[i] : i \in 1 .. Total}

\* QUERY_END is a message of its own, and Acked stands for none.
ASSUME MessagesAssumption == Results \cap Ends = {} /\ Acked \notin Answers

UpMsgs   == [type : {"batch"}, ref : 1 .. Total]
              \cup [type : {"result_ack"}, ref : Nat]
DownMsgs == [type : {"ack"}] \cup [type : {"answer"}, of : Answers, delivery_id : Nat \ {0}]

VARIABLES
  client,     \* "idle" between sessions, "active", "done", "dead"
  cur,        \* number of the client's last session
  pos,        \* index of the message that is pending or comes next
  awaiting,   \* it was sent in this session, its ack has not come
  seen,       \* _seen_results
  written,    \* how many times each result is in the files
  received,   \* _received: result messages counted for each query
  expected,   \* _expected: {}, or the one count last announced for each query
  finalized,  \* _finalized
  conn,       \* each session's connection: "none", "open", "broken"
  up,         \* bytes from the client to the handler
  down,       \* bytes from the handler to the client
  handler,    \* each session's handler
  pend,       \* _pending_acks: what each delivery id stands for, once acked Acked
  gateway,    \* "up" or "down"
  entry,      \* the client in the registry: "absent", "connected", "disconnected"
  expired,    \* its timestamp is more than reaper_timeout old
  reaper,     \* what the reaper's cycle has done for the client
  rq,         \* copies of each answer in the results queue, ready
  bound,      \* the results queue exists
  taken,      \* root messages the pipeline has taken
  emitted,    \* answers the pipeline has published
  cleaned,    \* routing keys whose cleanup EOF has entered the pipeline
  repeats, faults

cvars == <<client, cur, pos, awaiting, seen, written, received, expected, finalized>>
gvars == <<gateway, entry, expired, reaper>>
bvars == <<rq, bound>>
pvars == <<taken, emitted, cleaned, repeats>>
svars == <<conn, up, down, handler, pend>>
vars  == <<cvars, svars, gvars, bvars, pvars, faults>>

TypeOK ==
  /\ client \in {"idle", "active", "done", "dead"}
  /\ cur \in 0 .. MaxFaults + 1 /\ pos \in 1 .. Total + 1 /\ awaiting \in BOOLEAN
  /\ seen \subseteq Results /\ written \in [Results -> Nat]
  /\ received \in [Queries -> Nat] /\ expected \in [Queries -> SUBSET Int]
  /\ finalized \subseteq Queries
  /\ conn \in [Sessions -> {"none", "open", "broken"}]
  /\ up \in [Sessions -> Seq(UpMsgs)] /\ down \in [Sessions -> Seq(DownMsgs)]
  /\ handler \in [Sessions -> {"none", "queued", "running", "deaf", "closing", "over"}]
  /\ pend \in [Sessions -> Seq(Answers \cup {Acked})]
  /\ gateway \in {"up", "down"}
  /\ entry \in {"absent", "connected", "disconnected"} /\ expired \in BOOLEAN
  /\ reaper \in {"waiting", "found", "transaction", "account", "deleted"}
  /\ rq \in [Answers -> Nat] /\ bound \in BOOLEAN
  /\ taken \subseteq Roots /\ emitted \subseteq Answers
  /\ cleaned \subseteq {"transaction", "account"}
  /\ repeats \in Nat /\ faults \in Nat

Init ==
  /\ client = "idle" /\ cur = 0 /\ pos = 1 /\ awaiting = FALSE
  /\ seen = {} /\ written = [r \in Results |-> 0]
  /\ received = [q \in Queries |-> 0] /\ expected = [q \in Queries |-> {}]
  /\ finalized = {}
  /\ conn = [s \in Sessions |-> "none"] /\ handler = [s \in Sessions |-> "none"]
  /\ up = [s \in Sessions |-> <<>>] /\ down = [s \in Sessions |-> <<>>]
  /\ pend = [s \in Sessions |-> <<>>]
  /\ gateway = "up" /\ entry = "absent" /\ expired = FALSE /\ reaper = "waiting"
  /\ rq = [a \in Answers |-> 0] /\ bound = FALSE
  /\ taken = {} /\ emitted = {} /\ cleaned = {} /\ repeats = 0 /\ faults = 0

AllDone == finalized = Queries

\* The reaper has given the client up.
Reaped == cleaned # {}

\* The delivery ids under which the handler of session s holds answer a unacked.
Unacked(s, a) == {d \in DOMAIN pend[s] : pend[s][d] = a}

-----------------------------------------------------------------------------
(* Client *)

\* A connection, ANNOUNCE, the handler handed to the pool: the accepting
\* loop of Gateway.run reads the ANNOUNCE before it accepts the next client.
Connect ==
  /\ client = "idle" /\ gateway = "up" /\ cur + 1 \in Sessions
  /\ cur' = cur + 1
  /\ client' = "active" /\ awaiting' = FALSE
  /\ conn' = [conn EXCEPT ![cur'] = "open"]
  /\ handler' = [handler EXCEPT ![cur'] = "queued"]
  /\ UNCHANGED <<pos, seen, written, received, expected, finalized, up, down,
                 pend, gvars, bvars, pvars, faults>>

\* The pending message, or the next one.  Without an ack it stays pending,
\* and the next session sends it again.
ClientSend ==
  /\ client = "active" /\ conn[cur] = "open" /\ pos <= Total /\ ~awaiting
  /\ awaiting' = TRUE
  /\ up' = [up EXCEPT ![cur] = Append(@, [type |-> "batch", ref |-> pos])]
  /\ UNCHANGED <<client, cur, pos, seen, written, received, expected, finalized,
                 conn, down, handler, pend, gvars, bvars, pvars, faults>>

HandleAck ==
  /\ pos' = IF awaiting THEN pos + 1 ELSE pos
  /\ awaiting' = FALSE
  /\ UNCHANGED <<seen, written, received, expected, finalized, up>>

MaybeFinalize(q, got, exp) ==
  finalized' = finalized \cup {x \in {q} : \E n \in exp[x] : got[x] >= n}

AckResult(did) ==
  up' = [up EXCEPT ![cur] =
           IF conn[cur] = "open"
           THEN Append(@, [type |-> "result_ack", ref |-> did]) ELSE @]

CountEveryCopy(r) ==  \* mutant: a copy is not recognised
  /\ seen' = seen \cup {r}
  /\ written' = [written EXCEPT ![r] = @ + 1]
  /\ received' = [received EXCEPT ![r.query] = @ + 1]

\* A result seen before is only acked.
TakeResult(r) ==
  IF r \in seen
  THEN UNCHANGED <<seen, written, received>>
  ELSE /\ seen' = seen \cup {r}
       /\ written' = [written EXCEPT ![r] = @ + 1]
       /\ received' = [received EXCEPT ![r.query] = @ + 1]

HandleQueryResult(m) ==
  /\ TakeResult(m.of)
  /\ IF m.of \in seen THEN UNCHANGED finalized
     ELSE MaybeFinalize(m.of.query, received', expected)
  /\ AckResult(m.delivery_id)
  /\ UNCHANGED <<pos, awaiting, expected>>

HandleQueryEnd(m) ==
  /\ expected' = [expected EXCEPT ![m.of.query] = {Announces(m.of)}]
  /\ MaybeFinalize(m.of.query, received, expected')
  /\ AckResult(m.delivery_id)
  /\ UNCHANGED <<pos, awaiting, seen, written, received>>

\* _wait_ack while a message is pending, _consume_remaining after the last.
ClientReceive ==
  /\ client = "active" /\ down[cur] # <<>>
  /\ IF pos <= Total THEN awaiting ELSE ~AllDone
  /\ LET m == Head(down[cur])
     IN \/ m.type = "ack" /\ HandleAck
        \/ m.type = "answer" /\ m.of \in Results /\ HandleQueryResult(m)
        \/ m.type = "answer" /\ m.of \in Ends /\ HandleQueryEnd(m)
  /\ down' = [down EXCEPT ![cur] = Tail(@)]
  /\ UNCHANGED <<client, cur, conn, handler, pend, gvars, bvars, pvars, faults>>

SkipPending ==  \* mutant: what was sent is taken for done
  pos' = IF awaiting THEN pos + 1 ELSE pos

\* _pending_msg survives the session.
KeepPending == pos' = pos

\* The end of _run_session: the socket is closed, what was not read is lost.
LeaveSession(next) ==
  /\ client' = next
  /\ conn' = [conn EXCEPT ![cur] = "broken"]
  /\ down' = [down EXCEPT ![cur] = <<>>]
  /\ KeepPending
  /\ UNCHANGED <<cur, awaiting, seen, written, received, expected, finalized,
                 up, handler, pend, gvars, bvars, pvars, faults>>

ClientFinish ==
  client = "active" /\ pos > Total /\ AllDone /\ LeaveSession("done")

ClientAbort ==
  /\ client = "active" /\ conn[cur] = "broken"
  /\ LeaveSession(IF AllDone THEN "done" ELSE "idle")

ClientDies ==
  MayDie /\ client = "active" /\ LeaveSession("dead")

\* The connection is lost; what was sent may or may not be read.
Break(s) ==
  /\ conn[s] = "open" /\ faults < MaxFaults
  /\ conn' = [conn EXCEPT ![s] = "broken"]
  /\ faults' = faults + 1
  /\ UNCHANGED <<cvars, up, down, handler, pend, gvars, bvars, pvars>>

-----------------------------------------------------------------------------
(* ClientRegistry *)

RegistryConnect == entry' = "connected" /\ expired' = FALSE

RegistryDisconnect ==
  IF entry = "absent" THEN UNCHANGED <<entry, expired>>
  ELSE entry' = "disconnected" /\ expired' = FALSE

Touch == entry' = entry /\ expired' = FALSE

\* Time passes: the timestamp of a disconnected entry grows older than
\* reaper_timeout (300 s).  A client that has not ended reconnects within 30 s
\* of a loss, so it is silent that long only when it has sent everything and
\* waits for its answers (handlers that wait for other clients' processes are
\* not modelled).
Silent ==
  \/ client \in {"done", "dead"}
  \/ /\ client = "active" /\ conn[cur] = "open" /\ handler[cur] # "queued"
     /\ pos > Total /\ up[cur] = <<>> /\ down[cur] = <<>>

Expire ==
  /\ gateway = "up" /\ entry = "disconnected" /\ ~expired /\ Silent
  /\ expired' = TRUE
  /\ UNCHANGED <<cvars, svars, gateway, entry, reaper, bvars, pvars, faults>>

-----------------------------------------------------------------------------
(* ClientHandler *)

Holding == {s \in Sessions : handler[s] \in {"running", "deaf", "closing"}}

\* A free process of the pool takes the session: it declares and binds the
\* client's results queue and registers the client.
StartHandler(s) ==
  /\ handler[s] = "queued" /\ gateway = "up" /\ Cardinality(Holding) < PoolSize
  /\ handler' = [handler EXCEPT ![s] = "running"]
  /\ bound' = TRUE
  /\ RegistryConnect
  /\ UNCHANGED <<cvars, conn, up, down, pend, gateway, reaper, rq, pvars, faults>>

\* A batch enters the pipeline, which drops a copy by its identifier, and the
\* ack goes to the client after it.
ForwardBatch(s, m) ==
  /\ taken' = taken \cup {MessagesToSend[m.ref]}
  /\ down' = [down EXCEPT ![s] =
                IF conn[s] = "open" THEN Append(@, [type |-> "ack"]) ELSE @]
  /\ UNCHANGED pend

OnResultAck(s, m) ==
  /\ pend' = [pend EXCEPT ![s][m.ref] = Acked]
  /\ UNCHANGED <<taken, down>>

HandlerReceive(s) ==
  /\ handler[s] \in {"running", "deaf"} /\ gateway = "up" /\ up[s] # <<>>
  /\ LET m == Head(up[s])
     IN \/ m.type = "batch" /\ ForwardBatch(s, m)
        \/ m.type = "result_ack" /\ handler[s] = "running" /\ OnResultAck(s, m)
  /\ Touch
  /\ up' = [up EXCEPT ![s] = Tail(@)]
  /\ UNCHANGED <<cvars, conn, handler, gateway, reaper, bvars, emitted, cleaned,
                 repeats, faults>>

\* The receiving loop ends: the socket is broken, or the results connection
\* that a result ack is for is gone with the deleted queue.
HandlerEnd(s) ==
  /\ handler[s] \in {"running", "deaf"} /\ gateway = "up"
  /\ \/ conn[s] = "broken"
     \/ /\ handler[s] = "deaf" /\ up[s] # <<>> /\ Head(up[s]).type = "result_ack"
  /\ handler' = [handler EXCEPT ![s] = "closing"]
  /\ up' = [up EXCEPT ![s] = <<>>]
  /\ RegistryDisconnect
  /\ UNCHANGED <<cvars, conn, down, pend, gateway, reaper, bvars, pvars, faults>>

\* Unacked answers go back to the queue when the consumer's channel closes.
GivenBack(a, ended) == Cardinality(UNION {{s} \X Unacked(s, a) : s \in ended})

LostWithTheHandler(ended) ==  \* mutant: consumed without manual ack
  UNCHANGED rq

Requeue(ended) ==
  rq' = [a \in Answers |-> IF bound THEN rq[a] + GivenBack(a, ended) ELSE rq[a]]

HandlerClosed(s) ==
  /\ handler[s] = "closing" /\ gateway = "up"
  /\ handler' = [handler EXCEPT ![s] = "over"]
  /\ conn' = [conn EXCEPT ![s] = "broken"]
  /\ Requeue({s})
  /\ pend' = [pend EXCEPT ![s] = <<>>]
  /\ UNCHANGED <<cvars, up, down, gvars, bound, pvars, faults>>

FromZero(s) == Len(pend[s])  \* mutant: the number is taken before it is raised

\* _register_pending_ack.
DeliveryId(s) == Len(pend[s]) + 1

\* The broker gives an answer to a consumer of the client's queue, whose
\* handler numbers it and sends it.
Deliver(s, a) ==
  /\ rq[a] > 0 /\ handler[s] = "running" /\ gateway = "up"
  /\ rq' = [rq EXCEPT ![a] = @ - 1]
  /\ pend' = [pend EXCEPT ![s] = Append(@, a)]
  /\ down' = [down EXCEPT ![s] =
                IF conn[s] = "open"
                THEN Append(@, [type |-> "answer", of |-> a, delivery_id |-> DeliveryId(s)])
                ELSE @]
  /\ UNCHANGED <<cvars, conn, up, handler, gvars, bound, pvars, faults>>

-----------------------------------------------------------------------------
(* The pipeline, as its own modules describe it *)

Publish(a) == rq' = [rq EXCEPT ![a] = IF bound THEN @ + 1 ELSE @]

EmitResult(r) ==
  /\ taken # {} /\ ~Reaped /\ r \notin emitted
  /\ emitted' = emitted \cup {r}
  /\ Publish(r)
  /\ UNCHANGED <<cvars, svars, gvars, bound, taken, cleaned, repeats, faults>>

EmitEnd(q) ==
  LET e == [query |-> q, id |-> "end"]
  IN /\ taken = Roots /\ ~Reaped /\ e \notin emitted /\ ResultsOf(q) \subseteq emitted
     /\ emitted' = emitted \cup {e}
     /\ Publish(e)
     /\ UNCHANGED <<cvars, svars, gvars, bound, taken, cleaned, repeats, faults>>

\* A stage that recovers publishes an answer again.
Repeat(a) ==
  /\ a \in emitted /\ repeats < MaxRepeats
  /\ repeats' = repeats + 1
  /\ Publish(a)
  /\ UNCHANGED <<cvars, svars, gvars, bound, taken, emitted, cleaned, faults>>

\* The cleanup EOF reaches the end of a query's pipeline.
EmitCleanupEnd(q) ==
  LET e == [query |-> q, id |-> "cleanup"]
  IN /\ "transaction" \in cleaned /\ e \notin emitted
     /\ emitted' = emitted \cup {e}
     /\ Publish(e)
     /\ UNCHANGED <<cvars, svars, gvars, bound, taken, cleaned, repeats, faults>>

-----------------------------------------------------------------------------
(* Reaper *)

\* dead_clients, under the registry's lock; what follows is outside of it.
Scan ==
  /\ gateway = "up" /\ reaper = "waiting" /\ entry = "disconnected" /\ expired
  /\ reaper' = "found"
  /\ UNCHANGED <<cvars, svars, gateway, entry, expired, bvars, pvars, faults>>

\* forward_cleanup_eof, to one routing key and then the other.
ForwardCleanup(from, key) ==
  /\ gateway = "up" /\ reaper = from
  /\ reaper' = key
  /\ cleaned' = cleaned \cup {key}
  /\ UNCHANGED <<cvars, svars, gateway, entry, expired, bvars, taken, emitted,
                 repeats, faults>>

\* The queue goes with what it holds, and its consumers are cancelled.
DeleteQueue ==
  /\ gateway = "up" /\ reaper = "account"
  /\ reaper' = "deleted"
  /\ bound' = FALSE /\ rq' = [a \in Answers |-> 0]
  /\ handler' = [s \in Sessions |->
                   IF handler[s] = "running" THEN "deaf" ELSE handler[s]]
  /\ pend' = [s \in Sessions |-> [d \in DOMAIN pend[s] |-> Acked]]
  /\ UNCHANGED <<cvars, conn, up, down, gateway, entry, expired, pvars, faults>>

RemoveEntry ==
  /\ gateway = "up" /\ reaper = "deleted"
  /\ reaper' = "waiting"
  /\ entry' = "absent" /\ expired' = FALSE
  /\ UNCHANGED <<cvars, svars, gateway, bvars, pvars, faults>>

-----------------------------------------------------------------------------
(* The gateway's container dies and is started again *)

\* Handlers die with it, and also when Gateway.run ends because a client went
\* away between its connection and its ANNOUNCE.
GatewayCrash ==
  /\ gateway = "up" /\ faults < MaxFaults
  /\ gateway' = "down" /\ reaper' = "waiting" /\ faults' = faults + 1
  /\ handler' = [s \in Sessions |-> IF handler[s] = "none" THEN "none" ELSE "over"]
  /\ conn' = [s \in Sessions |-> IF conn[s] = "none" THEN "none" ELSE "broken"]
  /\ up' = [s \in Sessions |-> <<>>]
  /\ Requeue(Holding)
  /\ pend' = [s \in Sessions |-> <<>>]
  /\ UNCHANGED <<cvars, down, entry, expired, bound, pvars>>

KeptAsSaved == entry' = entry  \* mutant: the file's clients stay connected

\* ClientRegistry.load: whoever was in the file is disconnected as of now.
Load == entry' = IF entry = "absent" THEN "absent" ELSE "disconnected"

GatewayRestart ==
  /\ gateway = "down"
  /\ gateway' = "up"
  /\ Load /\ expired' = FALSE
  /\ UNCHANGED <<cvars, svars, reaper, bvars, pvars, faults>>

-----------------------------------------------------------------------------
ClientSteps   == ClientSend \/ ClientReceive \/ ClientFinish \/ ClientAbort
HandlerStep(s) == StartHandler(s) \/ HandlerReceive(s) \/ HandlerEnd(s) \/ HandlerClosed(s)
DeliverSome(s) == \E a \in Answers : Deliver(s, a)
PipelineStep  == (\E r \in Results : EmitResult(r))
                   \/ (\E q \in Queries : EmitEnd(q) \/ EmitCleanupEnd(q))
ReaperStep    == Scan \/ ForwardCleanup("found", "transaction")
                   \/ ForwardCleanup("transaction", "account") \/ DeleteQueue \/ RemoveEntry

Next ==
  \/ Connect \/ ClientSteps \/ ClientDies
  \/ \E s \in Sessions : Break(s) \/ HandlerStep(s) \/ DeliverSome(s)
  \/ PipelineStep \/ (\E a \in Answers : Repeat(a))
  \/ Expire \/ ReaperStep \/ GatewayCrash \/ GatewayRestart

Spec == Init /\ [][Next]_vars

\* Threads and processes that can run do; the watchdog restarts the gateway;
\* time passes.  Nothing makes a connection break or a client die.
Fairness ==
  /\ WF_vars(Connect) /\ WF_vars(ClientSteps)
  /\ \A s \in Sessions : WF_vars(HandlerStep(s)) /\ WF_vars(DeliverSome(s))
  /\ WF_vars(PipelineStep) /\ WF_vars(Expire) /\ WF_vars(ReaperStep)
  /\ WF_vars(GatewayRestart)

FairSpec == Spec /\ Fairness

-----------------------------------------------------------------------------
\* What the pipeline has taken is a prefix of what the client has to send:
\* everything that was acked and at most the pending message.  A session lost
\* between the forwarding and the ack, and the message sent again under the
\* same identifier, skip and double nothing.
PipelineHasPrefix ==
  \E k \in {pos - 1, pos} : taken = {MessagesToSend[i] : i \in 1 .. k}

Held(a) == \E s \in Sessions : Unacked(s, a) # {}

Got(a) == IF a \in Results THEN written[a] > 0 ELSE expected[a.query] # {}

\* An answer that was published is in the client's files, in the broker, or
\* with a handler that will give it back: no break, crash or late handler
\* loses it before the client is reaped.
NoAnswerLost ==
  \A a \in emitted : Reaped \/ Got(a) \/ rq[a] > 0 \/ Held(a)

\* The client is promised each result once and no end before the last result.
Promise == INSTANCE QueryAnswers
  WITH ended <- finalized, given_up <- (Reaped \/ client = "dead")
ImplementsAnswers == Promise!FairSpec

\* The client that ended or died is taken out of the registry for good,
\* whatever its handlers, the gateway's crashes and the reaper's cycle do.
EventuallyReaped == (client \in {"done", "dead"}) ~> [](entry = "absent")

\* TP_distribuidos.md:264: the reaper cleans up when it detects that a client
\* disconnected and the timeout expired.
OnlyTheGoneAreReaped ==
  [][cleaned' # cleaned => client \in {"done", "dead"}]_vars
=============================================================================
