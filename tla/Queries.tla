------------------------------ MODULE Queries ------------------------------
(***************************************************************************)
(* The five queries as the workers compute them for one client: batches of *)
(* transactions go through stages of replicas, each of which takes the     *)
(* messages routed to it in any order and, when its stage is complete,     *)
(* flushes its share; the client joins what arrives and stops at the count *)
(* that the QUERY_END announces.  The reference is build_expected.py,      *)
(* which computes the same answers from the whole input at once.           *)
(*                                                                         *)
(* Abstractions.  Each stage keeps what StreamStage promises and each join *)
(* has its full table (SideInput).  The stateless mappers and filters pass *)
(* identifiers through, so a batch enters the model as what they make of   *)
(* it.  A key that is hashed is a number and is its own hash.  Amounts are *)
(* whole cents.                                                            *)
(***************************************************************************)
EXTENDS Integers, Sequences, FiniteSets, FiniteSetsExt, ScatterGather

CONSTANTS
  Inputs,     \* what a client may ask: a query and its batches of transactions
  Accounts,   \* the lines of the accounts file: a raw bank id and the name
  Replicas,   \* the number of replicas of each stage
  BatchSize,  \* items in a flushed batch
  Rates       \* what 100 dollars buy of each currency that has a rate

VARIABLES
  input,    \* the query and the batches
  sent,     \* the messages sent to each stage
  seen,     \* the identifiers each replica of a stage has handled
  mem,      \* what each of them has accumulated
  flushed,  \* the replicas that have flushed
  rows,     \* the rows the client has written, with the message they came in
  taken,    \* the result messages it has counted
  expected  \* the count of the QUERY_END, or None

vars == <<input, sent, seen, mem, flushed, rows, taken, expected>>

None == -1

-----------------------------------------------------------------------------
(* The stages *)

\* The stages that accumulate, in order, of each query.
Route ==
  [q1 |-> <<>>,
   q2 |-> <<"bank_max_aggregator", "bank_max_reducer">>,
   q3 |-> <<"payment_format_aggregator", "payment_format_reducer">>,
   q4 |-> <<"account_frequency_filter", "path_mapper", "path_frequency_filter",
            "duplicate_account_filter">>,
   q5 |-> <<"low_amount_aggregator", "low_amount_reducer">>]

\* Those that join each message with a table and pass it on.
Joins == [q2 |-> "bank_mapper", q3 |-> "anomaly_filter"]

Queries == DOMAIN Route
Counters == {"low_amount_aggregator", "low_amount_reducer"}
Stages == UNION {{Route[q][i] : i \in DOMAIN Route[q]} : q \in Queries}
Receivers == Stages \cup {Joins[q] : q \in DOMAIN Joins} \cup {"client"}

ASSUME StagesAssumption ==
  /\ Replicas \in [Receivers -> Nat \ {0}] /\ Replicas["client"] = 1
  /\ BatchSize \in Nat \ {0}

\* Each transaction is a line of the file, in one batch: two that are alike
\* differ in n.  A raw bank id is its number and its leading zeros.
ASSUME InputsAssumption ==
  LET Transactions == [n : Nat, bank : [number : Nat, zeros : Nat],
                       from : Nat, to : Nat, amount : Nat, currency : STRING,
                       period : 0 .. 2, format : STRING]
  IN \A i \in Inputs :
       /\ i.query \in Queries /\ i.batches \in Seq(SUBSET Transactions)
       /\ \A b \in DOMAIN i.batches :
            /\ IsFiniteSet(i.batches[b])
            /\ \A c \in DOMAIN i.batches \ {b} : i.batches[b] \cap i.batches[c] = {}

MyRoute == Route[input.query]
Last    == MyRoute[Len(MyRoute)]

\* Where the flush of the i-th stage goes.  The averages of the
\* payment_format_reducer go to every anomaly_filter, as its table.
Consumer(i) ==
  IF i < Len(MyRoute) THEN MyRoute[i + 1]
  ELSE IF input.query = "q2" THEN "bank_mapper" ELSE "client"

Message(node, id, items) == [node |-> node, id |-> id, items |-> items]

FirstReplica(key, replicas) == 1 + (key % replicas)  \* mutant: from one

ShardOf(key, replicas) == key % replicas

\* root_id.  The origin of a flush id is a replica, never -1.
RootId(b) == <<-1, b>>

\* The identifier of a batch whose bucket does not count.
FlushIdOfNode(node, bucket) == <<node, 0>>  \* mutant

\* flush_id.  The shard is not a part of it.
FlushId(node, bucket) == <<node, bucket>>

-----------------------------------------------------------------------------
(* What the stages do with the data *)

Cents(dollars)  == 100 * dollars
AmountThreshold == Cents(50)  \* query 1
LowAmount       == Cents(1)   \* query 5
AnomalyRatio    == 100        \* query 3: 0.01 of the average

IsUsd(t) == t.currency = "usd"
ValidFormats == {"wire", "ach"}

\* DateFilter, PaymentFormatFilter and CurrencyMapper on one batch.
UsdOfPeriod(batch, p) == {t \in batch : IsUsd(t) /\ t.period = p}
Payments(batch)       == {t \in batch : t.period = 1 /\ t.format \in ValidFormats}

\* AmountFilter, of the batch's transactions in dollars.
SmallAmounts(batch) == {t \in batch : IsUsd(t) /\ t.amount < AmountThreshold}

\* _resolve_rate: rounded to whole cents.
Converted(t) ==
  LET rate == IF t.currency \in DOMAIN Rates THEN Rates[t.currency] ELSE 100
  IN (200 * t.amount + rate) \div (2 * rate)

LowAmounts(batch) == {t \in Payments(batch) : Converted(t) < LowAmount}

BeatsByAmount(x, y) == x.amount > y.amount  \* mutant: a tie has no winner

\* _beats: the larger amount, and of two equal ones the smaller account.
Beats(x, y) ==
  x.amount > y.amount \/ (x.amount = y.amount /\ x.account < y.account)

\* One item for each bank.
BestOfBanks(items) ==
  {x \in items : ~ \E y \in items : y.bank = x.bank /\ Beats(y, x)}

\* str(int(from_bank)).
BankMaxima(batch) ==
  BestOfBanks({[bank |-> t.bank.number, account |-> t.from, amount |-> t.amount] :
                 t \in batch})

Sum(S, f(_)) == MapThenSumSet(f, S)

\* PaymentFormatPartial: total and count by format, of transactions or partials.
TotalsOf(items, Total(_), Count(_)) ==
  {[format |-> f,
    total  |-> Sum({i \in items : i.format = f}, Total),
    count  |-> Sum({i \in items : i.format = f}, Count)] : f \in {i.format : i \in items}}

BatchTotals(batch) == TotalsOf(batch, LAMBDA t : t.amount, LAMBDA t : 1)

\* _apply_delta of the two stages: total and count are added up by format.
AddTotals(a, b) ==
  {[format |-> f,
    total  |-> Sum({x \in a : x.format = f}, LAMBDA x : x.total)
             + Sum({x \in b : x.format = f}, LAMBDA x : x.total),
    count  |-> Sum({x \in a : x.format = f}, LAMBDA x : x.count)
             + Sum({x \in b : x.format = f}, LAMBDA x : x.count)] :
     f \in {x.format : x \in a \cup b}}

\* _is_anomalous, with the average as total and count.
IsAnomalous(t, table) ==
  \E avg \in table : /\ avg.format = t.format /\ avg.total > 0
                     /\ AnomalyRatio * t.amount * avg.count < avg.total

\* What a replica of stage s holds after a message: state and delta.
Merge(s, state, items) ==
  CASE s = "bank_max_aggregator" -> BestOfBanks(state \cup BankMaxima(items))
    [] s = "bank_max_reducer"    -> BestOfBanks(state \cup BestOfBanks(items))
    [] s = "payment_format_aggregator" -> AddTotals(state, BatchTotals(items))
    [] s = "payment_format_reducer"    -> AddTotals(state, items)
    [] s = "low_amount_aggregator" -> {c + Cardinality(LowAmounts(items)) : c \in state}
    [] s = "low_amount_reducer"    -> {c + d : c \in state, d \in items}
    [] OTHER -> state \cup items

Initially(s) == IF s \in Counters THEN {0} ELSE {}

\* What it sends when it flushes.
FlushData(s, state) ==
  CASE s = "account_frequency_filter" -> FrequentEdges(state)
    [] s = "path_mapper"              -> Paths(state)
    [] s = "path_frequency_filter"    -> FrequentEnds(state)
    [] OTHER -> state

PathKeyWithMid(p) == p.from + 2 * p.to + p.mid  \* mutant

\* key_of of a path: its ends, so that all paths between them meet.
PathKey(p) == p.from + 2 * p.to

\* key_of of each stage's flush.
FlushKey(s, item) ==
  CASE s \in {"bank_max_aggregator", "bank_max_reducer"} -> item.bank
    [] s = "payment_format_aggregator" -> IF item.format = "wire" THEN 0 ELSE 1
    [] s = "account_frequency_filter"  -> item.account
    [] s = "path_mapper"               -> PathKey(item)
    [] s \in {"path_frequency_filter", "duplicate_account_filter"} -> item
    [] OTHER -> 0

\* _flush_sharded: a shard for each replica of the consumer, and in it as
\* many buckets as batches are needed, by the same hash.
FlushSharded(s, node, items, replicas) ==
  {m \in UNION {
     LET shard   == {i \in items : ShardOf(FlushKey(s, i), replicas) = k}
         buckets == Max({1, (Cardinality(shard) + BatchSize - 1) \div BatchSize})
     IN {Message(k, FlushId(node, b),
                 {i \in shard : (FlushKey(s, i) \div replicas) % buckets = b}) :
           b \in 0 .. buckets - 1} :
     k \in {ShardOf(FlushKey(s, i), replicas) : i \in items}} : m.items # {}}

-----------------------------------------------------------------------------
(* The stateless stages at the front *)

\* BidirectionalSharder: the edges of a batch, by the shard of their account.
EdgeMessages(b, batch) ==
  LET edges == BothDirections(UsdOfPeriod(batch, 1))
      n == Replicas["account_frequency_filter"]
  IN {Message(k, RootId(b), {e \in edges : ShardOf(e.account, n) = k}) :
        k \in {ShardOf(e.account, n) : e \in edges}}

\* TransactionsFieldMapper, DateFilter and AmountFilter: what each stage of
\* the query is sent of the batch b.
SourceMessages(q, s, b, batch) ==
  LET node == ShardOf(b, Replicas[s])
      One(items) == {Message(node, RootId(b), items)}
  IN CASE q = "q1" /\ s = "client" -> One(SmallAmounts(batch))
       [] s = "bank_max_aggregator"       -> One({t \in batch : IsUsd(t)})
       [] s = "payment_format_aggregator" -> One(UsdOfPeriod(batch, 1))
       [] s = "anomaly_filter"            -> One(UsdOfPeriod(batch, 2))
       [] s = "account_frequency_filter"  -> EdgeMessages(b, batch)
       [] s = "low_amount_aggregator"     -> One(Payments(batch))
       [] OTHER -> {}

MyStages(q) ==
  {Route[q][i] : i \in DOMAIN Route[q]} \cup
  {Joins[x] : x \in DOMAIN Joins \cap {q}} \cup {"client"}

Init ==
  /\ input \in Inputs
  /\ sent = [s \in Receivers |->
       IF s \in MyStages(input.query)
       THEN UNION {SourceMessages(input.query, s, b, input.batches[b]) :
                     b \in DOMAIN input.batches}
       ELSE {}]
  /\ seen = [s \in Stages |-> [n \in 0 .. Replicas[s] - 1 |-> {}]]
  /\ mem = [s \in Stages |-> [n \in 0 .. Replicas[s] - 1 |-> Initially(s)]]
  /\ flushed = {} /\ rows = {} /\ taken = {} /\ expected = None

-----------------------------------------------------------------------------
(* The stages that accumulate *)

\* _handle_data_message of a stage.
Take(s) ==
  \E m \in sent[s] :
    /\ m.id \notin seen[s][m.node]
    /\ seen' = [seen EXCEPT ![s][m.node] = @ \cup {m.id}]
    /\ mem' = [mem EXCEPT ![s][m.node] = Merge(s, @, m.items)]
    /\ UNCHANGED <<input, sent, flushed, rows, taken, expected>>

Nodes(s)  == 0 .. Replicas[s] - 1
Closed(s) == \A n \in Nodes(s) : <<s, n>> \in flushed

\* The stage before has announced its count and all of it was handled.
Complete(i) ==
  LET s == MyRoute[i]
  IN /\ i > 1 => Closed(MyRoute[i - 1])
     /\ Cardinality(UNION {{n} \X seen[s][n] : n \in Nodes(s)}) = Cardinality(sent[s])

\* _flush_data of a replica.
Flush(i, n) ==
  LET s == MyRoute[i]
      c == Consumer(i)
      out == FlushSharded(s, n, FlushData(s, mem[s][n]), Replicas[c])
  IN /\ Complete(i) /\ <<s, n>> \notin flushed
     /\ flushed' = flushed \cup {<<s, n>>}
     /\ sent' = IF s = "payment_format_reducer" THEN sent
                ELSE [sent EXCEPT ![c] = @ \cup out]
     /\ UNCHANGED <<input, seen, mem, rows, taken, expected>>

-----------------------------------------------------------------------------
(* The joins *)

\* The names a bank_mapper has: AccountsFieldMapper shards by the raw id.
NamesOf(n) ==
  {a \in Accounts : ShardOf(a.bank.number + 10 * a.bank.zeros, Replicas["bank_mapper"]) = n}

NameOf(n, bank) ==
  IF \E a \in NamesOf(n) : a.bank.number = bank
  THEN (CHOOSE a \in NamesOf(n) : a.bank.number = bank).name
  ELSE "Unknown"

Averages ==
  UNION {mem["payment_format_reducer"][n] : n \in Nodes("payment_format_reducer")}

\* _map_and_emit and _filter_and_emit.
Joined(m) ==
  IF input.query = "q2"
  THEN {[name |-> NameOf(m.node, x.bank), account |-> x.account, amount |-> x.amount] :
          x \in m.items}
  ELSE {t \in m.items : IsAnomalous(t, Averages)}

Relayed(m) == Message(0, m.id, Joined(m))

\* A message of the main stream, once the table is complete: it goes on to
\* the client under its own identifier.
Relay ==
  /\ input.query \in DOMAIN Joins
  /\ input.query = "q3" => Closed("payment_format_reducer")
  /\ \E m \in sent[Joins[input.query]] :
       /\ Relayed(m) \notin sent["client"]
       /\ sent' = [sent EXCEPT !["client"] = @ \cup {Relayed(m)}]
  /\ UNCHANGED <<input, seen, mem, flushed, rows, taken, expected>>

-----------------------------------------------------------------------------
(* The client *)

\* The QUERY_END may come as soon as the coordinator has sent it.
EndIsSent == input.query \notin {"q1", "q3"} => Closed(Last)

EndCountOfStage(q) ==  \* mutant: what the last stage was sent
  IF q \in {"q1", "q3"} THEN Len(input.batches) ELSE Cardinality(sent[Last])

\* Its count: what the last stage that counts has sent.
EndCount(q) ==
  CASE q \in {"q1", "q3"} -> Len(input.batches)
    [] q = "q2"           -> Cardinality(sent["bank_mapper"])
    [] OTHER              -> Cardinality(sent["client"])

HandleQueryEnd ==
  /\ expected = None /\ EndIsSent
  /\ expected' = EndCount(input.query)
  /\ UNCHANGED <<input, sent, seen, mem, flushed, rows, taken>>

\* A copy of a message that was counted is acked and dropped.
HandleQueryResult ==
  /\ \E m \in sent["client"] :
       /\ m.id \notin taken
       /\ taken' = taken \cup {m.id}
       /\ rows' = rows \cup {[id |-> m.id, row |-> r] : r \in m.items}
  /\ UNCHANGED <<input, sent, seen, mem, flushed, expected>>

-----------------------------------------------------------------------------

Next ==
  \/ \E s \in Stages : Take(s)
  \/ \E i \in DOMAIN MyRoute : \E n \in Nodes(MyRoute[i]) : Flush(i, n)
  \/ Relay \/ HandleQueryEnd \/ HandleQueryResult

Spec == Init /\ [][Next]_vars

\* A message that is in a queue is eventually handled.
FairSpec == Spec /\ WF_vars(Next)

-----------------------------------------------------------------------------
(* The reference: build_expected.py *)

All == UNION {input.batches[b] : b \in DOMAIN input.batches}

\* A bank without a line in the accounts file has no row.
ExpectedBankMaxima ==
  LET usd == {t \in All : IsUsd(t)}
      Largest(t) == \A u \in {x \in usd : x.bank.number = t.bank.number} :
                      \/ u.amount < t.amount
                      \/ u.amount = t.amount /\ u.from >= t.from
  IN UNION {{[name |-> a.name, account |-> t.from, amount |-> t.amount] :
               t \in {x \in usd : x.bank.number = a.bank.number /\ Largest(x)}} :
              a \in Accounts}

ExpectedAnomalies ==
  {t \in UsdOfPeriod(All, 2) :
     LET same == {u \in UsdOfPeriod(All, 1) : u.format = t.format}
     IN AnomalyRatio * t.amount * Cardinality(same) < Sum(same, LAMBDA u : u.amount)}

ExpectedRows ==
  CASE input.query = "q1" -> {t \in All : IsUsd(t) /\ t.amount < AmountThreshold}
    [] input.query = "q2" -> ExpectedBankMaxima
    [] input.query = "q3" -> ExpectedAnomalies
    [] input.query = "q4" -> ExpectedAccounts(UsdOfPeriod(All, 1))
    [] input.query = "q5" -> {Cardinality(LowAmounts(All))}

-----------------------------------------------------------------------------
(* Properties *)

\* A message names a replica of the stage it is for, and only the stages of
\* the client's query are ever sent one; what is handled was sent.
TypeOK ==
  /\ input \in Inputs
  /\ \A s \in Receivers : \A m \in sent[s] :
       m.node \in Nodes(s) /\ s \in MyStages(input.query)
  /\ \A s \in Stages : DOMAIN seen[s] = Nodes(s) /\ DOMAIN mem[s] = Nodes(s)
  /\ \A s \in Stages : \A n \in Nodes(s) : seen[s][n] \subseteq {m.id : m \in sent[s]}
  /\ flushed \subseteq {p \in Stages \X Nat : p[2] \in Nodes(p[1])}
  /\ taken \subseteq {m.id : m \in sent["client"]} /\ expected \in Nat \cup {None}

Finalized == expected # None /\ Cardinality(taken) >= expected

\* The client never writes a row that the reference does not have, nor one
\* row twice, and when it finalizes the query it has them all: whatever the
\* batches, the replicas they go to and the order in which they arrive.
RowsAreTheReference ==
  /\ {r.row : r \in rows} \subseteq ExpectedRows
  /\ \A r, x \in rows : r.row = x.row => r.id = x.id
  /\ Finalized => {r.row : r \in rows} = ExpectedRows

\* Messages of the main stream that a join has yet to pass on.
Pending ==
  IF input.query \in DOMAIN Joins
  THEN {m \in sent[Joins[input.query]] :
          <<m.id, Joined(m)>> \notin {<<x.id, x.items>> : x \in sent["client"]}}
  ELSE {}

\* The count of the QUERY_END is the number of messages that the client will
\* tell apart: no two of them have the same identifier.
EndCountsResults ==
  expected # None =>
    expected = Cardinality({m.id : m \in sent["client"]} \cup {m.id : m \in Pending})

\* The client eventually finalizes the query.
EventuallyFinalized == <>Finalized
=============================================================================
