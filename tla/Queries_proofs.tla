--------------------------- MODULE Queries_proofs ---------------------------
(***************************************************************************)
(* Theorems about Queries for every set of inputs, every number of         *)
(* replicas of each stage and every size of a flushed batch.               *)
(*                                                                         *)
(* Base says what each stage is sent and when it flushes, Contents what    *)
(* its replicas have accumulated of it, Client what the client has written *)
(* and counted; Totals is Contents of the two stages that add up amounts.  *)
(* With these the order of the messages is out of the way: the lemmas      *)
(* Answers1 to 5 are about sets.                                           *)
(***************************************************************************)
EXTENDS Queries, ScatterGather_proofs, WellFoundedInduction

-----------------------------------------------------------------------------
(* The routes *)

LEMMA Names ==
  /\ Queries = {"q1", "q2", "q3", "q4", "q5"}
  /\ Stages = {"bank_max_aggregator", "bank_max_reducer", "payment_format_aggregator",
               "payment_format_reducer", "account_frequency_filter", "path_mapper",
               "path_frequency_filter", "duplicate_account_filter",
               "low_amount_aggregator", "low_amount_reducer"}
  /\ DOMAIN Joins = {"q2", "q3"}
  /\ Joins["q2"] = "bank_mapper" /\ Joins["q3"] = "anomaly_filter"
  /\ Receivers = Stages \cup {"bank_mapper", "anomaly_filter", "client"}
<1>1. Queries = {"q1", "q2", "q3", "q4", "q5"}
  BY DEF Queries, Route
<1>2. Stages = {"bank_max_aggregator", "bank_max_reducer", "payment_format_aggregator",
               "payment_format_reducer", "account_frequency_filter", "path_mapper",
               "path_frequency_filter", "duplicate_account_filter",
               "low_amount_aggregator", "low_amount_reducer"}
  BY DEF Stages, Queries, Route
<1>3. /\ DOMAIN Joins = {"q2", "q3"}
      /\ Joins["q2"] = "bank_mapper" /\ Joins["q3"] = "anomaly_filter"
  BY DEF Joins
<1>4. {Joins[q] : q \in DOMAIN Joins} = {"bank_mapper", "anomaly_filter"}
  BY <1>3
<1>5. QED
  BY <1>1, <1>2, <1>3, <1>4 DEF Receivers

\* The stages of each query, and where each of them sends.
LEMMA Routes ==
  /\ input.query = "q1" => DOMAIN MyRoute = {}
  /\ input.query = "q2" =>
       /\ DOMAIN MyRoute = {1, 2} /\ Len(MyRoute) = 2
       /\ MyRoute[1] = "bank_max_aggregator" /\ MyRoute[2] = "bank_max_reducer"
       /\ Consumer(1) = "bank_max_reducer" /\ Consumer(2) = "bank_mapper"
  /\ input.query = "q3" =>
       /\ DOMAIN MyRoute = {1, 2} /\ Len(MyRoute) = 2
       /\ MyRoute[1] = "payment_format_aggregator" /\ MyRoute[2] = "payment_format_reducer"
       /\ Consumer(1) = "payment_format_reducer" /\ Consumer(2) = "client"
  /\ input.query = "q4" =>
       /\ DOMAIN MyRoute = {1, 2, 3, 4} /\ Len(MyRoute) = 4
       /\ MyRoute[1] = "account_frequency_filter" /\ MyRoute[2] = "path_mapper"
       /\ MyRoute[3] = "path_frequency_filter" /\ MyRoute[4] = "duplicate_account_filter"
       /\ Consumer(1) = "path_mapper" /\ Consumer(2) = "path_frequency_filter"
       /\ Consumer(3) = "duplicate_account_filter" /\ Consumer(4) = "client"
  /\ input.query = "q5" =>
       /\ DOMAIN MyRoute = {1, 2} /\ Len(MyRoute) = 2
       /\ MyRoute[1] = "low_amount_aggregator" /\ MyRoute[2] = "low_amount_reducer"
       /\ Consumer(1) = "low_amount_reducer" /\ Consumer(2) = "client"
<1>1. CASE input.query = "q1"
  BY <1>1 DEF MyRoute, Route
<1>2. CASE input.query = "q2"
  BY <1>2 DEF MyRoute, Route, Consumer
<1>3. CASE input.query = "q3"
  BY <1>3 DEF MyRoute, Route, Consumer
<1>4. CASE input.query = "q4"
  BY <1>4 DEF MyRoute, Route, Consumer
<1>5. CASE input.query = "q5"
  BY <1>5 DEF MyRoute, Route, Consumer
<1>6. QED
  BY <1>1, <1>2, <1>3, <1>4, <1>5

LEMMA RouteSteps ==
  ASSUME input.query \in Queries, NEW i \in DOMAIN MyRoute
  PROVE  /\ i \in Nat /\ MyRoute[i] \in Stages /\ Consumer(i) \in Receivers
         /\ \A j \in DOMAIN MyRoute :
              (MyRoute[j] = MyRoute[i] \/ Consumer(j) = Consumer(i)) => j = i
         /\ Consumer(i) \in Stages => i + 1 \in DOMAIN MyRoute /\ MyRoute[i + 1] = Consumer(i)
         /\ i > 1 => i - 1 \in DOMAIN MyRoute /\ Consumer(i - 1) = MyRoute[i]
         /\ \A j \in DOMAIN MyRoute : Consumer(i) = MyRoute[j] => j = i + 1
BY Names, Routes

-----------------------------------------------------------------------------
(* Shards and buckets *)

LEMMA ReplicasOf ==
  ASSUME NEW s \in Receivers
  PROVE  /\ Replicas[s] \in Nat \ {0} /\ Nodes(s) = 0 .. Replicas[s] - 1
         /\ Nodes(s) \subseteq Nat /\ IsFiniteSet(Nodes(s)) /\ 0 \in Nodes(s)
         /\ Replicas["client"] = 1
<1>1. Replicas[s] \in Nat \ {0} /\ Replicas["client"] = 1
  BY StagesAssumption
<1>2. Nodes(s) = 0 .. Replicas[s] - 1
  BY DEF Nodes
<1>3. IsFiniteSet(Nodes(s))
  BY <1>1, <1>2, FS_Interval
<1>4. QED
  BY <1>1, <1>2, <1>3

LEMMA ShardInRange ==
  ASSUME NEW key \in Nat, NEW r \in Nat \ {0}
  PROVE  ShardOf(key, r) \in 0 .. r - 1
BY DEF ShardOf

LEMMA BucketInRange ==
  ASSUME NEW key \in Nat, NEW r \in Nat \ {0}, NEW n \in Nat \ {0}
  PROVE  (key \div r) % n \in 0 .. n - 1
<1>1. key \div r \in Nat
  OBVIOUS
<1>2. QED
  BY <1>1

Shard(s, items, r, k) == {i \in items : ShardOf(FlushKey(s, i), r) = k}

Buckets(s, items, r, k) ==
  Max({1, (Cardinality(Shard(s, items, r, k)) + BatchSize - 1) \div BatchSize})

Cell(s, items, r, k, b) ==
  {i \in Shard(s, items, r, k) : (FlushKey(s, i) \div r) % Buckets(s, items, r, k) = b}

LEMMA BucketsPositive ==
  ASSUME NEW s, NEW items, IsFiniteSet(items), NEW r, NEW k
  PROVE  Buckets(s, items, r, k) \in Nat \ {0}
<1> DEFINE x == (Cardinality(Shard(s, items, r, k)) + BatchSize - 1) \div BatchSize
<1>1. BatchSize \in Nat \ {0}
  BY StagesAssumption
<1>2. Cardinality(Shard(s, items, r, k)) \in Nat
  BY FS_Subset, FS_CardinalityType DEF Shard
<1>3. x \in Nat
  BY <1>1, <1>2
<1> HIDE DEF x
<1>4. \E y \in {1, x} : \A z \in {1, x} : y >= z
  BY <1>3
<1>5. Max({1, x}) \in {1, x} /\ Max({1, x}) >= 1
  BY <1>4 DEF Max
<1>6. QED
  BY <1>3, <1>5 DEF Buckets, x

LEMMA FlushedAre ==
  ASSUME NEW s, NEW n, NEW items, NEW r, NEW m
  PROVE  m \in FlushSharded(s, n, items, r)
           <=> /\ \E k \in {ShardOf(FlushKey(s, i), r) : i \in items} :
                    \E b \in 0 .. Buckets(s, items, r, k) - 1 :
                      m = Message(k, FlushId(n, b), Cell(s, items, r, k, b))
               /\ m.items # {}
<1> DEFINE K == {ShardOf(FlushKey(s, i), r) : i \in items}
           Of(k) == {Message(k, FlushId(n, b), Cell(s, items, r, k, b)) :
                       b \in 0 .. Buckets(s, items, r, k) - 1}
<1>1. FlushSharded(s, n, items, r) = {x \in UNION {Of(k) : k \in K} : x.items # {}}
  BY DEF FlushSharded, Cell, Shard, Buckets
<1>2. m \in UNION {Of(k) : k \in K} <=> \E k \in K : m \in Of(k)
  OBVIOUS
<1>3. \A k : m \in Of(k) <=> \E b \in 0 .. Buckets(s, items, r, k) - 1 :
                               m = Message(k, FlushId(n, b), Cell(s, items, r, k, b))
  OBVIOUS
<1> HIDE DEF K, Of
<1>4. QED
  BY <1>1, <1>2, <1>3 DEF K

\* O sends each item to the replica of its key, in one message, and its
\* messages to one replica differ in their identifiers.
Splits(O, s, n, items, r) ==
  /\ IsFiniteSet(O)
  /\ \A m \in O : /\ m = Message(m.node, m.id, m.items)
                  /\ m.node \in 0 .. r - 1 /\ \E b \in Nat : m.id = <<n, b>>
                  /\ m.items \subseteq items /\ m.items # {}
                  /\ \A i \in m.items : ShardOf(FlushKey(s, i), r) = m.node
  /\ \A m, x \in O : m.node = x.node /\ m.id = x.id => m = x
  /\ \A m, x \in O : \A i \in m.items : i \in x.items => m = x
  /\ \A i \in items : \E m \in O : i \in m.items

LEMMA FlushMessages ==
  ASSUME NEW s, NEW n, NEW items, IsFiniteSet(items), NEW r \in Nat \ {0},
         \A i \in items : FlushKey(s, i) \in Nat
  PROVE  Splits(FlushSharded(s, n, items, r), s, n, items, r)
<1> DEFINE O == FlushSharded(s, n, items, r)
           K == {ShardOf(FlushKey(s, i), r) : i \in items}
           B(k) == Buckets(s, items, r, k)
           M(k, b) == Message(k, FlushId(n, b), Cell(s, items, r, k, b))
<1>1. \A k : B(k) \in Nat \ {0}
  BY BucketsPositive
<1>2. K \subseteq 0 .. r - 1
  BY ShardInRange
<1>3. \A m : m \in O <=> (\E k \in K : \E b \in 0 .. B(k) - 1 : m = M(k, b)) /\ m.items # {}
  BY FlushedAre
<1>4. \A k, b : /\ M(k, b).node = k /\ M(k, b).id = <<n, b>>
                /\ M(k, b).items = Cell(s, items, r, k, b)
                /\ M(k, b) = Message(M(k, b).node, M(k, b).id, M(k, b).items)
  BY DEF Message, FlushId
<1>5. \A k, b : \A i : i \in Cell(s, items, r, k, b)
                         <=> /\ i \in items /\ ShardOf(FlushKey(s, i), r) = k
                             /\ (FlushKey(s, i) \div r) % B(k) = b
  BY DEF Cell, Shard
<1>6. ASSUME NEW i \in items
      PROVE  \E k \in K : \E b \in 0 .. B(k) - 1 : i \in Cell(s, items, r, k, b)
  <2> DEFINE k == ShardOf(FlushKey(s, i), r)
             b == (FlushKey(s, i) \div r) % B(k)
  <2>1. k \in K
    OBVIOUS
  <2>2. b \in 0 .. B(k) - 1
    BY <1>1, BucketInRange
  <2>3. i \in Cell(s, items, r, k, b)
    BY <1>5
  <2> HIDE DEF k, b
  <2>4. QED
    BY <2>1, <2>2, <2>3
<1>7. IsFiniteSet(K)
  <2> DEFINE f == [i \in items |-> ShardOf(FlushKey(s, i), r)]
  <2>1. f \in Surjection(items, K)
    BY DEF Surjection
  <2>2. QED
    BY <2>1, FS_Surjection
<1> HIDE DEF O, K, B, M
<1>8. IsFiniteSet(O)
  <2> DEFINE Of(k) == {M(k, b) : b \in 0 .. B(k) - 1}
             g(k) == [b \in 0 .. B(k) - 1 |-> M(k, b)]
             h == [k \in K |-> Of(k)]
             F == {Of(k) : k \in K}
  <2>1. ASSUME NEW k \in K PROVE IsFiniteSet(Of(k))
    <3>1. g(k) \in Surjection(0 .. B(k) - 1, Of(k))
      BY DEF Surjection
    <3>2. B(k) \in Nat /\ B(k) - 1 \in Int
      BY <1>1
    <3>3. IsFiniteSet(0 .. B(k) - 1)
      BY <3>2, FS_Interval
    <3>4. QED
      BY <3>1, <3>3, FS_Surjection
  <2>2. IsFiniteSet(F)
    <3>1. h \in Surjection(K, F)
      BY DEF Surjection
    <3>2. QED
      BY <1>7, <3>1, FS_Surjection
  <2>3. \A T \in F : IsFiniteSet(T)
    BY <2>1
  <2>4. O \subseteq UNION F
    BY <1>3
  <2> HIDE DEF F
  <2>5. QED
    BY <2>2, <2>3, <2>4, FS_UNION, FS_Subset
<1>9. ASSUME NEW m \in O
      PROVE  /\ m = Message(m.node, m.id, m.items)
             /\ m.node \in 0 .. r - 1 /\ \E b \in Nat : m.id = <<n, b>>
             /\ m.items \subseteq items /\ m.items # {}
             /\ \A i \in m.items : ShardOf(FlushKey(s, i), r) = m.node
  <2>1. PICK k \in K : \E b \in 0 .. B(k) - 1 : m = M(k, b)
    BY <1>3
  <2>2. PICK b \in 0 .. B(k) - 1 : m = M(k, b)
    BY <2>1
  <2>3. b \in Nat
    BY <1>1
  <2>4. m.node = k /\ m.id = <<n, b>> /\ m.items = Cell(s, items, r, k, b) /\ m.items # {}
        /\ m = Message(m.node, m.id, m.items)
    BY <1>3, <1>4, <2>2
  <2>5. QED
    BY <1>2, <1>5, <2>3, <2>4
<1>10. ASSUME NEW m \in O, NEW x \in O,
              m.node = x.node, m.id = x.id \/ \E i \in m.items : i \in x.items
       PROVE  m = x
  <2>1. PICK k \in K, b \in Nat : m = M(k, b)
    BY <1>1, <1>3
  <2>2. PICK l \in K, c \in Nat : x = M(l, c)
    BY <1>1, <1>3
  <2>3. k = l
    BY <1>4, <1>10, <2>1, <2>2
  <2>4. CASE m.id = x.id
    <3>1. <<n, b>> = <<n, c>>
      BY <1>4, <2>1, <2>2, <2>4
    <3>2. QED
      BY <2>1, <2>2, <2>3, <3>1
  <2>5. CASE \E i \in m.items : i \in x.items
    BY <1>4, <1>5, <2>1, <2>2, <2>3, <2>5
  <2>6. QED
    BY <1>10, <2>4, <2>5
<1>11. \A m, x \in O : \A i \in m.items : i \in x.items => m = x
  <2>1. ASSUME NEW m \in O, NEW x \in O, NEW i \in m.items, i \in x.items PROVE m.node = x.node
    BY <1>9, <2>1
  <2>2. QED
    BY <1>10, <2>1
<1>12. ASSUME NEW i \in items PROVE \E m \in O : i \in m.items
  <2>0. PICK k \in K : \E b \in 0 .. B(k) - 1 : i \in Cell(s, items, r, k, b)
    BY <1>6
  <2>1. PICK b \in 0 .. B(k) - 1 : i \in Cell(s, items, r, k, b)
    BY <2>0
  <2>2. i \in M(k, b).items /\ M(k, b) \in O
    BY <1>3, <1>4, <2>1
  <2>3. QED
    BY <2>2
<1>13. QED
  BY <1>8, <1>9, <1>10, <1>11, <1>12 DEF O, Splits

-----------------------------------------------------------------------------
(* The best of each bank *)

BankItems == [bank : Nat, account : Nat, amount : Nat]

LEMMA BeatsIsAnOrder ==
  ASSUME NEW x \in BankItems, NEW y \in BankItems, NEW z \in BankItems
  PROVE  /\ ~Beats(x, x)
         /\ Beats(x, y) /\ Beats(y, z) => Beats(x, z)
         /\ x = y \/ x.bank # y.bank \/ Beats(x, y) \/ Beats(y, x)
<1>1. /\ x.account \in Nat /\ x.amount \in Nat /\ y.account \in Nat /\ y.amount \in Nat
      /\ z.account \in Nat /\ z.amount \in Nat
  BY DEF BankItems
<1>2. x.bank = y.bank /\ x.account = y.account /\ x.amount = y.amount => x = y
  BY DEF BankItems
<1>3. QED
  BY <1>1, <1>2 DEF Beats

\* x is in T, or T has a better one of the same bank.
Covers(T, x) == \E y \in T : y.bank = x.bank /\ (y = x \/ Beats(y, x))

LEMMA BestCovers ==
  ASSUME NEW S, S \subseteq BankItems, IsFiniteSet(S), NEW x \in S
  PROVE  Covers(BestOfBanks(S), x)
<1> DEFINE W == {y \in S : y.bank = x.bank /\ (y = x \/ Beats(y, x))}
           Above(y) == {z \in W : Beats(z, y)}
           D == {Cardinality(Above(y)) : y \in W}
           Less == OpToRel(<, Nat)
<1>1. x \in W /\ W \subseteq BankItems /\ IsFiniteSet(W)
  BY FS_Subset
<1>2. \A y \in W : IsFiniteSet(Above(y)) /\ Cardinality(Above(y)) \in Nat
  BY <1>1, FS_Subset, FS_CardinalityType
<1>3. D # {} /\ D \subseteq Nat
  BY <1>1, <1>2
<1> HIDE DEF D, Above
<1>4. \E d \in D : \A e \in D : ~(<<e, d>> \in Less)
  BY <1>3, NatLessThanWellFounded, WFMin
<1>5. PICK y \in W : \A z \in W : ~(Cardinality(Above(z)) < Cardinality(Above(y)))
  <2>1. PICK d \in D : \A e \in D : ~(<<e, d>> \in Less)
    BY <1>4
  <2>2. \A e \in D : ~(e < d)
    BY <1>3, <2>1 DEF OpToRel
  <2>3. QED
    BY <2>1, <2>2 DEF D
<1>6. ASSUME NEW z \in S, z.bank = y.bank, Beats(z, y) PROVE FALSE
  <2>1. z \in W
    BY <1>1, <1>6, BeatsIsAnOrder
  <2>2. Above(z) \subseteq Above(y)
    BY <1>1, <1>6, <2>1, BeatsIsAnOrder DEF Above
  <2>3. z \in Above(y) /\ z \notin Above(z)
    BY <1>1, <1>6, <2>1, BeatsIsAnOrder DEF Above
  <2>4. Cardinality(Above(z)) <= Cardinality(Above(y))
        /\ Cardinality(Above(z)) # Cardinality(Above(y))
    BY <1>2, <2>2, <2>3, FS_Subset
  <2>5. Cardinality(Above(z)) < Cardinality(Above(y))
    BY <1>2, <2>1, <2>4
  <2>6. QED
    BY <1>5, <2>1, <2>5
<1>7. y \in BestOfBanks(S)
  BY <1>6 DEF BestOfBanks
<1>8. QED
  BY <1>7 DEF Covers

\* A part that covers the whole has the same best.
LEMMA BestOfPart ==
  ASSUME NEW S, S \subseteq BankItems, NEW T, T \subseteq S, \A x \in S : Covers(T, x)
  PROVE  BestOfBanks(T) = BestOfBanks(S)
<1>1. ASSUME NEW b \in BestOfBanks(S) PROVE b \in BestOfBanks(T)
  <2>1. b \in S /\ \A y \in S : ~(y.bank = b.bank /\ Beats(y, b))
    BY DEF BestOfBanks
  <2>2. b \in T
    BY <2>1 DEF Covers
  <2>3. QED
    BY <2>1, <2>2 DEF BestOfBanks
<1>2. ASSUME NEW b \in BestOfBanks(T) PROVE b \in BestOfBanks(S)
  <2>1. b \in T /\ \A y \in T : ~(y.bank = b.bank /\ Beats(y, b))
    BY DEF BestOfBanks
  <2>2. ASSUME NEW z \in S, z.bank = b.bank, Beats(z, b) PROVE FALSE
    <3>1. PICK y \in T : y.bank = z.bank /\ (y = z \/ Beats(y, z))
      BY DEF Covers
    <3>2. y \in BankItems /\ z \in BankItems /\ b \in BankItems
      BY <2>1
    <3>3. Beats(y, b)
      BY <2>2, <3>1, <3>2, BeatsIsAnOrder
    <3>4. QED
      BY <2>1, <2>2, <3>1, <3>3
  <2>3. QED
    BY <2>1, <2>2 DEF BestOfBanks
<1>3. QED
  BY <1>1, <1>2

-----------------------------------------------------------------------------
(* The invariant *)

Transactions ==
  [n : Nat, bank : [number : Nat, zeros : Nat], from : Nat, to : Nat, amount : Nat,
   currency : STRING, period : 0 .. 2, format : STRING]

EdgeItems == [account : Nat, other : Nat, isSender : BOOLEAN]
PathItems == [from : Nat, mid : Nat, to : Nat]

\* What a replica of s accumulates, as far as its flush depends on it.
Kept(s, x) ==
  /\ s \in {"bank_max_aggregator", "bank_max_reducer", "bank_mapper"} => x \in BankItems
  /\ s \in {"account_frequency_filter", "path_mapper"} => x \in EdgeItems
  /\ s = "path_frequency_filter" => x \in PathItems
  /\ s = "duplicate_account_filter" => x \in Nat

\* What a message to c carries.
Carried(c, x) == IF c = "bank_max_aggregator" THEN x \in Transactions ELSE Kept(c, x)

\* The messages for a replica, and those of them that it has handled.
Owed(s, n)  == {m \in sent[s] : m.node = n}
Read(s, n)  == {m \in Owed(s, n) : m.id \in seen[s][n]}
AllRead(s)  == \A m \in sent[s] : m.id \in seen[s][m.node]
ItemsOf(ms) == UNION {m.items : m \in ms}

Source(c) ==
  IF c \in MyStages(input.query)
  THEN UNION {SourceMessages(input.query, c, b, input.batches[b]) : b \in DOMAIN input.batches}
  ELSE {}

\* The flush of stage s goes to c.
Feeds(s, c) ==
  \E i \in DOMAIN MyRoute :
    MyRoute[i] = s /\ Consumer(i) = c /\ s # "payment_format_reducer"

Out(s, n, c) == FlushSharded(s, n, FlushData(s, mem[s][n]), Replicas[c])

Flushed(c) == UNION {Out(p[1], p[2], c) : p \in {f \in flushed : Feeds(f[1], c)}}

HasJoin == input.query \in DOMAIN Joins

Shapes ==
  /\ input \in Inputs
  /\ sent = [c \in Receivers |-> sent[c]]
  /\ seen = [s \in Stages |-> [n \in Nodes(s) |-> seen[s][n]]]
  /\ mem = [s \in Stages |-> [n \in Nodes(s) |-> mem[s][n]]]
  /\ \A p \in flushed : /\ p = <<p[1], p[2]>> /\ p[2] \in Nodes(p[1])
                        /\ \E i \in DOMAIN MyRoute : p[1] = MyRoute[i]
  /\ expected \in Nat \cup {None}

\* A stage is sent what the front makes of the batches and what the stage
\* before it has flushed; the client of a query with a join, what was relayed.
Flows ==
  /\ \A c \in Receivers : (c # "client" \/ ~HasJoin) => sent[c] = Source(c) \cup Flushed(c)
  /\ HasJoin => \A x \in sent["client"] : \E m \in sent[Joins[input.query]] : x = Relayed(m)
  /\ input.query = "q3" /\ sent["client"] # {} => Closed("payment_format_reducer")

Memories ==
  \A s \in Stages : \A n \in Nodes(s) :
    IsFiniteSet(mem[s][n]) /\ \A x \in mem[s][n] : Kept(s, x)

Handled ==
  \A s \in Stages : \A n \in Nodes(s) : seen[s][n] \subseteq {m.id : m \in Owed(s, n)}

\* A replica flushes when its stage has handled all that it will ever be sent.
Closings ==
  \A p \in flushed :
    /\ AllRead(p[1])
    /\ \A i \in DOMAIN MyRoute : MyRoute[i] = p[1] /\ i > 1 => Closed(MyRoute[i - 1])

Base == Shapes /\ Flows /\ Memories /\ Handled /\ Closings

\* The batches of a transaction's items that a replica of the aggregator has
\* counted and the replica n of the reducer has added.
Added(n) ==
  {m \in sent["low_amount_aggregator"] : <<m.node, 0>> \in seen["low_amount_reducer"][n]}

BankItemsOf(batch) ==
  {[bank |-> t.bank.number, account |-> t.from, amount |-> t.amount] : t \in batch}

Unions ==
  {"account_frequency_filter", "path_mapper", "path_frequency_filter", "duplicate_account_filter"}

\* What a replica has accumulated is a function of what it has handled,
\* whatever the order was.
Contents ==
  /\ \A s \in Unions : \A n \in Nodes(s) : mem[s][n] = ItemsOf(Read(s, n))
  /\ \A n \in Nodes("bank_max_aggregator") :
       mem["bank_max_aggregator"][n] =
         BestOfBanks(BankItemsOf(ItemsOf(Read("bank_max_aggregator", n))))
  /\ \A n \in Nodes("bank_max_reducer") :
       mem["bank_max_reducer"][n] = BestOfBanks(ItemsOf(Read("bank_max_reducer", n)))
  /\ \A n \in Nodes("low_amount_aggregator") :
       mem["low_amount_aggregator"][n] =
         {Cardinality(LowAmounts(ItemsOf(Read("low_amount_aggregator", n))))}
  /\ \A n \in Nodes("low_amount_reducer") :
       mem["low_amount_reducer"][n] = {Cardinality(LowAmounts(ItemsOf(Added(n))))}

\* All that one bank_max_reducer flushes goes to one bank_mapper.
Matched ==
  \A x, y \in Nat :
    x % Replicas["bank_max_reducer"] = y % Replicas["bank_max_reducer"]
      => x % Replicas["bank_mapper"] = y % Replicas["bank_mapper"]

TellsApart == input.query = "q2" => Matched

Counted == {m \in sent["client"] : m.id \in taken}

\* The client has the rows of the messages it has counted.
Client ==
  /\ taken \subseteq {m.id : m \in sent["client"]}
  /\ TellsApart => rows = UNION {{[id |-> m.id, row |-> x] : x \in m.items} : m \in Counted}
  /\ expected # None => EndIsSent /\ expected = EndCount(input.query)

Inductive == Base /\ Contents /\ Client

-----------------------------------------------------------------------------
(* What the front sends *)

LEMMA InputTyped ==
  ASSUME input \in Inputs
  PROVE  /\ input.query \in Queries /\ DOMAIN input.batches \subseteq Nat
         /\ IsFiniteSet(DOMAIN input.batches)
         /\ Len(input.batches) \in Nat /\ DOMAIN input.batches = 1 .. Len(input.batches)
         /\ \A b \in DOMAIN input.batches :
              /\ input.batches[b] \subseteq Transactions /\ IsFiniteSet(input.batches[b])
              /\ \A c \in DOMAIN input.batches :
                   b # c => input.batches[b] \cap input.batches[c] = {}
<1>1. /\ input.query \in Queries /\ input.batches \in Seq(SUBSET Transactions)
      /\ \A b \in DOMAIN input.batches :
           /\ IsFiniteSet(input.batches[b])
           /\ \A c \in DOMAIN input.batches \ {b} : input.batches[b] \cap input.batches[c] = {}
  BY InputsAssumption DEF Transactions
<1>2. Len(input.batches) \in Nat /\ DOMAIN input.batches = 1 .. Len(input.batches)
  BY <1>1
<1>3. IsFiniteSet(1 .. Len(input.batches))
  BY <1>2, FS_Interval
<1>4. QED
  BY <1>1, <1>2, <1>3

LEMMA TransactionFields ==
  ASSUME NEW t \in Transactions
  PROVE  /\ t.bank.number \in Nat /\ t.from \in Nat /\ t.to \in Nat /\ t.amount \in Nat
         /\ [bank |-> t.bank.number, account |-> t.from, amount |-> t.amount] \in BankItems
         /\ Sent(t) \in EdgeItems /\ Got(t) \in EdgeItems
<1>1. t.bank \in [number : Nat, zeros : Nat] /\ t.from \in Nat /\ t.to \in Nat /\ t.amount \in Nat
  BY DEF Transactions
<1>2. t.bank.number \in Nat
  BY <1>1
<1>3. [bank |-> t.bank.number, account |-> t.from, amount |-> t.amount] \in BankItems
  BY <1>1, <1>2 DEF BankItems
<1>4. Sent(t) \in EdgeItems /\ Got(t) \in EdgeItems
  BY <1>1 DEF Sent, Got, Edge, EdgeItems
<1>5. QED
  BY <1>1, <1>2, <1>3, <1>4

\* The edges of a batch.
LEMMA EdgesTyped ==
  ASSUME NEW T, T \subseteq Transactions, IsFiniteSet(T)
  PROVE  BothDirections(T) \subseteq EdgeItems /\ IsFiniteSet(BothDirections(T))
<1> DEFINE f == [t \in T |-> Sent(t)]
           g == [t \in T |-> Got(t)]
           S == {Sent(t) : t \in T}
           G == {Got(t) : t \in T}
<1>1. BothDirections(T) = S \cup G
  BY DEF BothDirections, Sent, Got
<1>2. f \in Surjection(T, S) /\ g \in Surjection(T, G)
  BY DEF Surjection
<1> HIDE DEF f, g
<1>3. IsFiniteSet(S) /\ IsFiniteSet(G)
  BY <1>2, FS_Surjection
<1>4. \A e \in S \cup G : e \in EdgeItems
  BY TransactionFields
<1> HIDE DEF S, G
<1>5. QED
  BY <1>1, <1>3, <1>4, FS_Union

\* What a message of the front is.
FrontMessage(c, b, m) ==
  /\ m = Message(m.node, RootId(b), m.items) /\ m.node \in Nodes(c)
  /\ IsFiniteSet(m.items) /\ \A x \in m.items : Carried(c, x)

LEMMA MessageFields ==
  ASSUME NEW k, NEW id, NEW items
  PROVE  /\ Message(k, id, items).node = k /\ Message(k, id, items).id = id
         /\ Message(k, id, items).items = items
BY DEF Message

LEMMA EdgeMessagesAre ==
  ASSUME NEW b \in Nat, NEW batch, batch \subseteq Transactions, IsFiniteSet(batch)
  PROVE  /\ IsFiniteSet(EdgeMessages(b, batch))
         /\ \A m \in EdgeMessages(b, batch) : FrontMessage("account_frequency_filter", b, m)
         /\ \A m, x \in EdgeMessages(b, batch) : m.node = x.node => m = x
<1> DEFINE edges == BothDirections(UsdOfPeriod(batch, 1))
           r == Replicas["account_frequency_filter"]
           K == {ShardOf(e.account, r) : e \in edges}
           M(k) == Message(k, RootId(b), {e \in edges : ShardOf(e.account, r) = k})
           f == [e \in edges |-> ShardOf(e.account, r)]
           g == [k \in K |-> M(k)]
<1>1. UsdOfPeriod(batch, 1) \subseteq Transactions /\ IsFiniteSet(UsdOfPeriod(batch, 1))
  BY FS_Subset DEF UsdOfPeriod
<1>2. edges \subseteq EdgeItems /\ IsFiniteSet(edges)
  BY <1>1, EdgesTyped
<1>3. EdgeMessages(b, batch) = {M(k) : k \in K}
  BY DEF EdgeMessages
<1>4. "account_frequency_filter" \in Receivers
  BY Names
<1>5. r \in Nat \ {0} /\ Nodes("account_frequency_filter") = 0 .. r - 1
  BY <1>4, ReplicasOf
<1> HIDE DEF edges, r
<1>6. K \subseteq Nodes("account_frequency_filter")
  <2>1. \A e \in edges : e.account \in Nat
    BY <1>2 DEF EdgeItems
  <2>2. QED
    BY <1>5, <2>1, ShardInRange
<1>7. f \in Surjection(edges, K) /\ g \in Surjection(K, {M(k) : k \in K})
  BY DEF Surjection
<1> HIDE DEF f, g
<1>8. IsFiniteSet(K) /\ IsFiniteSet({M(k) : k \in K})
  BY <1>2, <1>7, FS_Surjection
<1>9. \A k : /\ M(k).node = k /\ M(k).id = RootId(b)
             /\ M(k).items = {e \in edges : ShardOf(e.account, r) = k}
             /\ M(k) = Message(M(k).node, RootId(b), M(k).items)
  BY MessageFields
<1>10. ASSUME NEW k \in K PROVE FrontMessage("account_frequency_filter", b, M(k))
  <2>1. M(k).node \in Nodes("account_frequency_filter")
    BY <1>6, <1>9
  <2>2. M(k).items \subseteq edges
    BY <1>9
  <2>3. IsFiniteSet(M(k).items)
    BY <1>2, <2>2, FS_Subset
  <2>4. \A x \in M(k).items : Carried("account_frequency_filter", x)
    BY <1>2, <2>2 DEF Carried, Kept
  <2> HIDE DEF M
  <2>5. QED
    BY <1>9, <2>1, <2>3, <2>4 DEF FrontMessage
<1> HIDE DEF K, M
<1>11. QED
  BY <1>3, <1>8, <1>9, <1>10

LEMMA RootIdOf ==
  ASSUME NEW b
  PROVE  RootId(b)[1] = -1 /\ RootId(b)[2] = b
BY DEF RootId

\* The messages of one batch: one for each replica that gets any.
FrontMessages(c, b, O) ==
  /\ IsFiniteSet(O)
  /\ \A m \in O : FrontMessage(c, b, m)
  /\ \A m, x \in O : m.node = x.node => m = x

LEMMA OneMessage ==
  ASSUME NEW c \in Receivers, NEW b \in Nat, NEW items, IsFiniteSet(items),
         \A x \in items : Carried(c, x)
  PROVE  FrontMessages(c, b, {Message(ShardOf(b, Replicas[c]), RootId(b), items)})
<1> DEFINE k == ShardOf(b, Replicas[c])
           m == Message(k, RootId(b), items)
<1>1. k \in Nodes(c)
  BY ReplicasOf, ShardInRange
<1> HIDE DEF k
<1>2. m.node = k /\ m.items = items /\ m = Message(m.node, RootId(b), m.items)
  BY MessageFields
<1> HIDE DEF m
<1>3. FrontMessage(c, b, m)
  BY <1>1, <1>2 DEF FrontMessage
<1>4. IsFiniteSet({m})
  BY FS_Singleton
<1>5. QED
  BY <1>3, <1>4 DEF FrontMessages, m, k

LEMMA SourceMessagesAre ==
  ASSUME NEW q \in Queries, NEW c \in Receivers, NEW b \in Nat,
         NEW batch, batch \subseteq Transactions, IsFiniteSet(batch)
  PROVE  FrontMessages(c, b, SourceMessages(q, c, b, batch))
<1> DEFINE One(items) == {Message(ShardOf(b, Replicas[c]), RootId(b), items)}
           Usd == {t \in batch : IsUsd(t)}
<1>1. CASE q = "q1" /\ c = "client"
  <2>1. SourceMessages(q, c, b, batch) = One(SmallAmounts(batch))
    BY <1>1 DEF SourceMessages
  <2>2. IsFiniteSet(SmallAmounts(batch)) /\ \A x \in SmallAmounts(batch) : Carried(c, x)
    BY <1>1, FS_Subset DEF SmallAmounts, Carried, Kept
  <2>3. QED
    BY <2>1, <2>2, OneMessage
<1>2. CASE c = "bank_max_aggregator"
  <2>1. SourceMessages(q, c, b, batch) = One(Usd)
    BY <1>2 DEF SourceMessages
  <2>2. IsFiniteSet(Usd) /\ \A x \in Usd : Carried(c, x)
    BY <1>2, FS_Subset DEF Carried
  <2>3. QED
    BY <2>1, <2>2, OneMessage
<1>3. CASE c = "payment_format_aggregator"
  <2>1. SourceMessages(q, c, b, batch) = One(UsdOfPeriod(batch, 1))
    BY <1>3 DEF SourceMessages
  <2>2. IsFiniteSet(UsdOfPeriod(batch, 1)) /\ \A x \in UsdOfPeriod(batch, 1) : Carried(c, x)
    BY <1>3, FS_Subset DEF UsdOfPeriod, Carried, Kept
  <2>3. QED
    BY <2>1, <2>2, OneMessage
<1>4. CASE c = "anomaly_filter"
  <2>1. SourceMessages(q, c, b, batch) = One(UsdOfPeriod(batch, 2))
    BY <1>4 DEF SourceMessages
  <2>2. IsFiniteSet(UsdOfPeriod(batch, 2)) /\ \A x \in UsdOfPeriod(batch, 2) : Carried(c, x)
    BY <1>4, FS_Subset DEF UsdOfPeriod, Carried, Kept
  <2>3. QED
    BY <2>1, <2>2, OneMessage
<1>5. CASE c = "account_frequency_filter"
  <2>1. SourceMessages(q, c, b, batch) = EdgeMessages(b, batch)
    BY <1>5 DEF SourceMessages
  <2>2. QED
    BY <1>5, <2>1, EdgeMessagesAre DEF FrontMessages
<1>6. CASE c = "low_amount_aggregator"
  <2>1. SourceMessages(q, c, b, batch) = One(Payments(batch))
    BY <1>6 DEF SourceMessages
  <2>2. IsFiniteSet(Payments(batch)) /\ \A x \in Payments(batch) : Carried(c, x)
    BY <1>6, FS_Subset DEF Payments, Carried, Kept
  <2>3. QED
    BY <2>1, <2>2, OneMessage
<1>7. CASE /\ ~(q = "q1" /\ c = "client")
           /\ c \notin {"bank_max_aggregator", "payment_format_aggregator", "anomaly_filter",
                        "account_frequency_filter", "low_amount_aggregator"}
  <2>1. SourceMessages(q, c, b, batch) = {}
    BY <1>7 DEF SourceMessages
  <2>2. QED
    BY <2>1, FS_EmptySet DEF FrontMessages
<1>8. QED
  BY <1>1, <1>2, <1>3, <1>4, <1>5, <1>6, <1>7

\* What the front sends to c: each message belongs to a batch, and two for
\* the same replica differ in their identifiers.
LEMMA SourceAre ==
  ASSUME input \in Inputs, NEW c \in Receivers
  PROVE  /\ IsFiniteSet(Source(c))
         /\ \A m \in Source(c) :
              \E b \in DOMAIN input.batches :
                /\ FrontMessage(c, b, m)
                /\ m \in SourceMessages(input.query, c, b, input.batches[b])
         /\ \A m, x \in Source(c) : m.node = x.node /\ m.id = x.id => m = x
<1> DEFINE D == DOMAIN input.batches
           Of(b) == SourceMessages(input.query, c, b, input.batches[b])
           F == {Of(b) : b \in D}
           f == [b \in D |-> Of(b)]
<1>1. \A b \in D : b \in Nat /\ FrontMessages(c, b, Of(b))
  BY InputTyped, SourceMessagesAre
<1>2. IsFiniteSet(F) /\ \A T \in F : IsFiniteSet(T)
  <2>1. f \in Surjection(D, F)
    BY DEF Surjection
  <2> HIDE DEF f
  <2>2. IsFiniteSet(F)
    BY <2>1, InputTyped, FS_Surjection
  <2>3. QED
    BY <1>1, <2>2 DEF FrontMessages
<1>3. IsFiniteSet(UNION F)
  BY <1>2, FS_UNION
<1>4. Source(c) \subseteq UNION F
  BY DEF Source
<1> HIDE DEF Of
<1>5. \A m \in Source(c) : \E b \in D : m \in Of(b) /\ FrontMessage(c, b, m)
  BY <1>1, <1>4 DEF FrontMessages
<1>6. ASSUME NEW m \in Source(c), NEW x \in Source(c), m.node = x.node, m.id = x.id
      PROVE  m = x
  <2>1. PICK b \in D : m \in Of(b) /\ FrontMessage(c, b, m)
    BY <1>5
  <2>2. PICK d \in D : x \in Of(d) /\ FrontMessage(c, d, x)
    BY <1>5
  <2>3. m.id = RootId(b) /\ x.id = RootId(d)
    BY <2>1, <2>2, MessageFields DEF FrontMessage
  <2>4. b = d
    <3>1. RootId(b) = RootId(d)
      BY <1>6, <2>3
    <3>2. RootId(b)[2] = b /\ RootId(d)[2] = d
      BY RootIdOf
    <3>3. QED
      BY <3>1, <3>2
  <2>5. QED
    BY <1>1, <1>6, <2>1, <2>2, <2>4 DEF FrontMessages
<1>7. IsFiniteSet(Source(c))
  BY <1>3, <1>4, FS_Subset
<1>8. QED
  BY <1>5, <1>6, <1>7 DEF Of

-----------------------------------------------------------------------------
(* What the stages flush *)

LEMMA KeyTyped ==
  /\ \A x \in BankItems : /\ FlushKey("bank_max_aggregator", x) = x.bank
                          /\ FlushKey("bank_max_reducer", x) = x.bank /\ x.bank \in Nat
  /\ \A x : FlushKey("payment_format_aggregator", x) \in Nat
  /\ \A x \in EdgeItems : /\ FlushKey("account_frequency_filter", x) = x.account
                          /\ x.account \in Nat
  /\ \A x \in PathItems : /\ FlushKey("path_mapper", x) = x.from + 2 * x.to
                          /\ FlushKey("path_mapper", x) \in Nat
  /\ \A x : /\ FlushKey("path_frequency_filter", x) = x
            /\ FlushKey("duplicate_account_filter", x) = x
            /\ FlushKey("payment_format_reducer", x) = 0
            /\ FlushKey("low_amount_aggregator", x) = 0
            /\ FlushKey("low_amount_reducer", x) = 0
<1>1. \A x \in BankItems : /\ FlushKey("bank_max_aggregator", x) = x.bank
                           /\ FlushKey("bank_max_reducer", x) = x.bank /\ x.bank \in Nat
  BY DEF FlushKey, BankItems
<1>2. \A x : FlushKey("payment_format_aggregator", x) \in Nat
  BY DEF FlushKey
<1>3. \A x \in EdgeItems : /\ FlushKey("account_frequency_filter", x) = x.account
                           /\ x.account \in Nat
  BY DEF FlushKey, EdgeItems
<1>4. \A x \in PathItems : /\ FlushKey("path_mapper", x) = x.from + 2 * x.to
                           /\ FlushKey("path_mapper", x) \in Nat
  BY DEF FlushKey, PathItems, PathKey
<1>5. \A x : /\ FlushKey("path_frequency_filter", x) = x
             /\ FlushKey("duplicate_account_filter", x) = x
             /\ FlushKey("payment_format_reducer", x) = 0
             /\ FlushKey("low_amount_aggregator", x) = 0
             /\ FlushKey("low_amount_reducer", x) = 0
  BY DEF FlushKey
<1>6. QED
  BY <1>1, <1>2, <1>3, <1>4, <1>5

LEMMA FrequentEdgesTyped ==
  ASSUME NEW E, E \subseteq EdgeItems, IsFiniteSet(E)
  PROVE  FrequentEdges(E) \subseteq EdgeItems /\ IsFiniteSet(FrequentEdges(E))
<1> DEFINE S == {x \in E : Cardinality(Others(E, x.account, x.isSender)) >= MinRequired}
           f == [x \in S |-> Reversed(x)]
<1>1. FrequentEdges(E) = {Reversed(x) : x \in S}
  BY DEF FrequentEdges
<1>2. IsFiniteSet(S) /\ S \subseteq EdgeItems
  BY FS_Subset
<1> HIDE DEF S
<1>3. f \in Surjection(S, {Reversed(x) : x \in S})
  BY DEF Surjection
<1>4. IsFiniteSet({Reversed(x) : x \in S})
  BY <1>2, <1>3, FS_Surjection
<1>5. \A x \in S : Reversed(x) \in EdgeItems
  BY <1>2 DEF Reversed, Edge, EdgeItems
<1>6. QED
  BY <1>1, <1>4, <1>5

LEMMA PathsTyped ==
  ASSUME NEW E, E \subseteq EdgeItems, IsFiniteSet(E)
  PROVE  Paths(E) \subseteq PathItems /\ IsFiniteSet(Paths(E))
<1> DEFINE P(e, g) == [from |-> e.other, mid |-> e.account, to |-> g.other]
           f == [p \in E \X E |-> P(p[1], p[2])]
           I == {P(p[1], p[2]) : p \in E \X E}
<1>1. ASSUME NEW p \in Paths(E) PROVE p \in I /\ p \in PathItems
  <2>1. PICK k \in {e.account : e \in E} :
          p \in [from : Others(E, k, FALSE), mid : {k}, to : Others(E, k, TRUE)]
    BY DEF Paths
  <2>2. /\ p = [from |-> p.from, mid |-> p.mid, to |-> p.to]
        /\ p.from \in Others(E, k, FALSE) /\ p.to \in Others(E, k, TRUE) /\ p.mid = k
    BY <2>1
  <2>3. PICK e \in E : e.account = k /\ p.from = e.other
    BY <2>2 DEF Others
  <2>4. PICK g \in E : p.to = g.other
    BY <2>2 DEF Others
  <2>5. <<e, g>> \in E \X E /\ p = P(e, g)
    BY <2>2, <2>3, <2>4
  <2>6. e.account \in Nat /\ e.other \in Nat /\ g.other \in Nat
    BY DEF EdgeItems
  <2>7. p \in PathItems
    BY <2>5, <2>6 DEF PathItems
  <2>8. QED
    BY <2>5, <2>7
<1>2. f \in Surjection(E \X E, I)
  BY DEF Surjection
<1>3. IsFiniteSet(E \X E)
  BY FS_Product
<1> HIDE DEF f, I
<1>4. IsFiniteSet(I)
  BY <1>2, <1>3, FS_Surjection
<1>5. QED
  BY <1>1, <1>4, FS_Subset

LEMMA FrequentEndsTyped ==
  ASSUME NEW P, P \subseteq PathItems, IsFiniteSet(P)
  PROVE  FrequentEnds(P) \subseteq Nat /\ IsFiniteSet(FrequentEnds(P))
<1> DEFINE S == {x \in P :
                   Cardinality({y.mid : y \in {z \in P : z.from = x.from /\ z.to = x.to}})
                     >= MinRequired}
           F == {{x.from, x.to} : x \in S}
           f == [x \in S |-> {x.from, x.to}]
<1>1. FrequentEnds(P) = UNION F
  BY DEF FrequentEnds
<1>2. IsFiniteSet(S) /\ S \subseteq P
  BY FS_Subset
<1> HIDE DEF S
<1>3. f \in Surjection(S, F)
  BY DEF Surjection
<1>4. IsFiniteSet(F)
  BY <1>2, <1>3, FS_Surjection
<1>5. \A x \in S : x.from \in Nat /\ x.to \in Nat
  BY <1>2 DEF PathItems
<1>6. \A T \in F : IsFiniteSet(T) /\ T \subseteq Nat
  <2>1. \A a, b : IsFiniteSet({a, b})
    <3> SUFFICES ASSUME NEW a, NEW b PROVE IsFiniteSet({a, b})
      OBVIOUS
    <3>1. IsFiniteSet({a}) /\ IsFiniteSet({b})
      BY FS_Singleton
    <3>2. IsFiniteSet({a} \cup {b})
      BY <3>1, FS_Union
    <3>3. {a, b} = {a} \cup {b}
      OBVIOUS
    <3>4. QED
      BY <3>2, <3>3
  <2>2. QED
    BY <1>5, <2>1
<1> HIDE DEF F
<1>7. IsFiniteSet(UNION F) /\ UNION F \subseteq Nat
  BY <1>4, <1>6, FS_UNION
<1>8. QED
  BY <1>1, <1>7

\* What a replica flushes has keys, and is what the next stage takes.
LEMMA FlushDataTyped ==
  ASSUME NEW s \in Stages, NEW S, IsFiniteSet(S), \A x \in S : Kept(s, x)
  PROVE  /\ IsFiniteSet(FlushData(s, S))
         /\ \A x \in FlushData(s, S) :
              /\ FlushKey(s, x) \in Nat
              /\ s \in {"bank_max_aggregator", "bank_max_reducer"} => x \in BankItems
              /\ s = "account_frequency_filter" => x \in EdgeItems
              /\ s = "path_mapper" => x \in PathItems
              /\ s \in {"path_frequency_filter", "duplicate_account_filter"} => x \in Nat
<1>1. CASE s \in {"bank_max_aggregator", "bank_max_reducer"}
  <2>1. FlushData(s, S) = S /\ S \subseteq BankItems
    BY <1>1 DEF FlushData, Kept
  <2>2. QED
    BY <1>1, <2>1, KeyTyped
<1>2. CASE s = "account_frequency_filter"
  <2>1. FlushData(s, S) = FrequentEdges(S) /\ S \subseteq EdgeItems
    BY <1>2 DEF FlushData, Kept
  <2>2. QED
    BY <1>2, <2>1, FrequentEdgesTyped, KeyTyped
<1>3. CASE s = "path_mapper"
  <2>1. FlushData(s, S) = Paths(S) /\ S \subseteq EdgeItems
    BY <1>3 DEF FlushData, Kept
  <2>2. QED
    BY <1>3, <2>1, PathsTyped, KeyTyped
<1>4. CASE s = "path_frequency_filter"
  <2>1. FlushData(s, S) = FrequentEnds(S) /\ S \subseteq PathItems
    BY <1>4 DEF FlushData, Kept
  <2>2. QED
    BY <1>4, <2>1, FrequentEndsTyped, KeyTyped
<1>5. CASE s = "duplicate_account_filter"
  <2>1. FlushData(s, S) = S /\ S \subseteq Nat
    BY <1>5 DEF FlushData, Kept
  <2>2. QED
    BY <1>5, <2>1, KeyTyped
<1>6. CASE s \in {"payment_format_aggregator", "payment_format_reducer",
                  "low_amount_aggregator", "low_amount_reducer"}
  <2>1. FlushData(s, S) = S
    BY <1>6 DEF FlushData
  <2>2. \A x : FlushKey(s, x) \in Nat
    BY <1>6, KeyTyped
  <2>3. QED
    BY <1>6, <2>1, <2>2
<1>7. QED
  BY <1>1, <1>2, <1>3, <1>4, <1>5, <1>6, Names

\* What the flush of one replica of the i-th stage is.
FlushOf(i, n) ==
  LET s == MyRoute[i]
      c == Consumer(i)
      I == FlushData(s, mem[s][n])
  IN  /\ IsFiniteSet(I) /\ IsFiniteSet(Out(s, n, c))
      /\ \A m \in Out(s, n, c) :
           /\ m = Message(m.node, m.id, m.items) /\ m.node \in Nodes(c)
           /\ \E b \in Nat : m.id = FlushId(n, b)
           /\ m.items \subseteq I /\ m.items # {} /\ IsFiniteSet(m.items)
           /\ \A x \in m.items :
                ShardOf(FlushKey(s, x), Replicas[c]) = m.node /\ Carried(c, x)
      /\ \A m, x \in Out(s, n, c) :
           (m.node = x.node /\ m.id = x.id) \/ (\E y \in m.items : y \in x.items) => m = x
      /\ \A x \in I : \E m \in Out(s, n, c) : x \in m.items

LEMMA FlushIs ==
  ASSUME input \in Inputs, Memories, NEW i \in DOMAIN MyRoute,
         MyRoute[i] # "payment_format_reducer", NEW n \in Nodes(MyRoute[i])
  PROVE  FlushOf(i, n)
<1> DEFINE s == MyRoute[i]
           c == Consumer(i)
           I == FlushData(s, mem[s][n])
           O == FlushSharded(s, n, I, Replicas[c])
<1>1. input.query \in Queries /\ s \in Stages /\ c \in Receivers
  BY InputTyped, RouteSteps
<1>2. Replicas[c] \in Nat \ {0} /\ Nodes(c) = 0 .. Replicas[c] - 1
  BY <1>1, ReplicasOf
<1>3. IsFiniteSet(mem[s][n]) /\ \A x \in mem[s][n] : Kept(s, x)
  BY <1>1 DEF Memories
<1>4. /\ IsFiniteSet(I)
      /\ \A x \in I :
           /\ FlushKey(s, x) \in Nat
           /\ s \in {"bank_max_aggregator", "bank_max_reducer"} => x \in BankItems
           /\ s = "account_frequency_filter" => x \in EdgeItems
           /\ s = "path_mapper" => x \in PathItems
           /\ s \in {"path_frequency_filter", "duplicate_account_filter"} => x \in Nat
  BY <1>1, <1>3, FlushDataTyped
<1>5. \/ s = "bank_max_aggregator" /\ c = "bank_max_reducer"
      \/ s = "bank_max_reducer" /\ c = "bank_mapper"
      \/ s = "payment_format_aggregator" /\ c = "payment_format_reducer"
      \/ s = "account_frequency_filter" /\ c = "path_mapper"
      \/ s = "path_mapper" /\ c = "path_frequency_filter"
      \/ s = "path_frequency_filter" /\ c = "duplicate_account_filter"
      \/ c = "client"
      \/ c = "low_amount_reducer"
  BY InputTyped, Names, Routes
<1> HIDE DEF s, c, I
<1>6. \A x \in I : Carried(c, x)
  BY <1>4, <1>5 DEF Carried, Kept
<1>7. /\ IsFiniteSet(O)
      /\ \A m \in O : /\ m = Message(m.node, m.id, m.items)
                      /\ m.node \in 0 .. Replicas[c] - 1 /\ \E b \in Nat : m.id = <<n, b>>
                      /\ m.items \subseteq I /\ m.items # {}
                      /\ \A x \in m.items : ShardOf(FlushKey(s, x), Replicas[c]) = m.node
      /\ \A m, x \in O : m.node = x.node /\ m.id = x.id => m = x
      /\ \A m, x \in O : \A y \in m.items : y \in x.items => m = x
      /\ \A x \in I : \E m \in O : x \in m.items
  <2>1. \A x \in I : FlushKey(s, x) \in Nat
    BY <1>4
  <2>2. Splits(O, s, n, I, Replicas[c])
    BY <1>2, <1>4, <2>1, FlushMessages
  <2> HIDE DEF O
  <2>3. QED
    BY <2>2 DEF Splits
<1>8. Out(s, n, c) = O
  BY DEF Out, I
<1> HIDE DEF O
<1>9. ASSUME NEW m \in O
      PROVE  IsFiniteSet(m.items) /\ \A x \in m.items : Carried(c, x)
  BY <1>4, <1>6, <1>7, FS_Subset
<1>10. \A m \in O : \E b \in Nat : m.id = FlushId(n, b)
  BY <1>7 DEF FlushId
<1>11. QED
  <2>1. /\ IsFiniteSet(I) /\ IsFiniteSet(O)
        /\ \A m \in O :
             /\ m = Message(m.node, m.id, m.items) /\ m.node \in Nodes(c)
             /\ \E b \in Nat : m.id = FlushId(n, b)
             /\ m.items \subseteq I /\ m.items # {} /\ IsFiniteSet(m.items)
             /\ \A x \in m.items :
                  ShardOf(FlushKey(s, x), Replicas[c]) = m.node /\ Carried(c, x)
    BY <1>2, <1>4, <1>7, <1>9, <1>10
  <2>2. \A m, x \in O :
          (m.node = x.node /\ m.id = x.id) \/ (\E y \in m.items : y \in x.items) => m = x
    BY <1>7
  <2>3. QED
    BY <1>7, <1>8, <2>1, <2>2 DEF FlushOf, s, c, I

LEMMA FlushedOf ==
  ASSUME Shapes, NEW i \in DOMAIN MyRoute, MyRoute[i] # "payment_format_reducer"
  PROVE  \A m : m \in Flushed(Consumer(i))
           <=> \E n \in Nodes(MyRoute[i]) :
                 <<MyRoute[i], n>> \in flushed /\ m \in Out(MyRoute[i], n, Consumer(i))
<1> DEFINE s == MyRoute[i]
           c == Consumer(i)
<1>1. input.query \in Queries
  BY InputTyped DEF Shapes
<1>2. \A t : Feeds(t, c) <=> t = s
  BY <1>1, RouteSteps DEF Feeds
<1>3. \A m : m \in Flushed(c) <=> \E p \in flushed : Feeds(p[1], c) /\ m \in Out(p[1], p[2], c)
  BY DEF Flushed
<1>4. \A p \in flushed : p = <<p[1], p[2]>> /\ p[2] \in Nodes(p[1])
  BY DEF Shapes
<1> HIDE DEF s, c
<1>5. ASSUME NEW m
      PROVE  m \in Flushed(c) <=> \E n \in Nodes(s) : <<s, n>> \in flushed /\ m \in Out(s, n, c)
  <2>1. ASSUME NEW p \in flushed, Feeds(p[1], c), m \in Out(p[1], p[2], c)
        PROVE  \E n \in Nodes(s) : <<s, n>> \in flushed /\ m \in Out(s, n, c)
    <3>1. p[1] = s /\ p = <<s, p[2]>> /\ p[2] \in Nodes(s)
      BY <1>2, <1>4, <2>1
    <3>2. QED
      BY <2>1, <3>1
  <2>2. ASSUME NEW n \in Nodes(s), <<s, n>> \in flushed, m \in Out(s, n, c)
        PROVE  \E p \in flushed : Feeds(p[1], c) /\ m \in Out(p[1], p[2], c)
    <3> DEFINE p == <<s, n>>
    <3>1. p[1] = s /\ p[2] = n
      OBVIOUS
    <3>2. Feeds(p[1], c) /\ m \in Out(p[1], p[2], c)
      BY <1>2, <2>2, <3>1
    <3>3. QED
      BY <2>2, <3>2
  <2>3. QED
    BY <1>3, <2>1, <2>2
<1>6. QED
  BY <1>5 DEF s, c

LEMMA FlushedNone ==
  ASSUME NEW c, \A i \in DOMAIN MyRoute : Consumer(i) = c => MyRoute[i] = "payment_format_reducer"
  PROVE  Flushed(c) = {}
<1>1. \A s : ~Feeds(s, c)
  BY DEF Feeds
<1>2. QED
  BY <1>1 DEF Flushed

-----------------------------------------------------------------------------
(* What each stage has been sent *)

Delivered(c) ==
  /\ IsFiniteSet(sent[c])
  /\ \A m \in sent[c] : /\ m = Message(m.node, m.id, m.items) /\ m.node \in Nodes(c)
                        /\ IsFiniteSet(m.items) /\ \A x \in m.items : Carried(c, x)
  /\ c # "client" \/ ~HasJoin =>
       \A m, x \in sent[c] : m.node = x.node /\ m.id = x.id => m = x

LEMMA FlushIdOf ==
  ASSUME NEW n, NEW b
  PROVE  FlushId(n, b)[1] = n /\ FlushId(n, b)[2] = b
BY DEF FlushId

\* The identifiers of two replicas of a stage, and those of the front, differ.
LEMMA FlushedTyped ==
  ASSUME Shapes, Memories, NEW c \in Receivers
  PROVE  /\ IsFiniteSet(Flushed(c))
         /\ \A m \in Flushed(c) :
              /\ m = Message(m.node, m.id, m.items) /\ m.node \in Nodes(c)
              /\ IsFiniteSet(m.items) /\ \A x \in m.items : Carried(c, x)
              /\ m.id[1] \in Nat
         /\ \A m, x \in Flushed(c) : m.node = x.node /\ m.id = x.id => m = x
<1>1. CASE \A i \in DOMAIN MyRoute : Consumer(i) = c => MyRoute[i] = "payment_format_reducer"
  BY <1>1, FlushedNone, FS_EmptySet
<1>2. ASSUME NEW i \in DOMAIN MyRoute, Consumer(i) = c, MyRoute[i] # "payment_format_reducer"
      PROVE  /\ IsFiniteSet(Flushed(c))
             /\ \A m \in Flushed(c) :
                  /\ m = Message(m.node, m.id, m.items) /\ m.node \in Nodes(c)
                  /\ IsFiniteSet(m.items) /\ \A x \in m.items : Carried(c, x)
                  /\ m.id[1] \in Nat
             /\ \A m, x \in Flushed(c) : m.node = x.node /\ m.id = x.id => m = x
  <2> DEFINE s == MyRoute[i]
             G == {Out(s, n, c) : n \in Nodes(s)}
             f == [n \in Nodes(s) |-> Out(s, n, c)]
  <2>1. input.query \in Queries /\ s \in Stages
    BY InputTyped, RouteSteps DEF Shapes
  <2>2. IsFiniteSet(Nodes(s)) /\ Nodes(s) \subseteq Nat
    BY <2>1, ReplicasOf, Names
  <2>3. \A m : m \in Flushed(c) <=> \E n \in Nodes(s) : <<s, n>> \in flushed /\ m \in Out(s, n, c)
    BY <1>2, FlushedOf
  <2>4. \A n \in Nodes(s) : FlushOf(i, n)
    BY <1>2, FlushIs DEF Shapes
  <2> HIDE DEF s
  <2>5. ASSUME NEW n \in Nodes(s)
        PROVE  /\ IsFiniteSet(Out(s, n, c))
               /\ \A m \in Out(s, n, c) :
                    /\ m = Message(m.node, m.id, m.items) /\ m.node \in Nodes(c)
                    /\ IsFiniteSet(m.items) /\ \A x \in m.items : Carried(c, x)
                    /\ m.id[1] = n
               /\ \A m, x \in Out(s, n, c) : m.node = x.node /\ m.id = x.id => m = x
    <3>1. FlushOf(i, n)
      BY <2>4
    <3>2. \A m \in Out(s, n, c) : \E b \in Nat : m.id = FlushId(n, b)
      BY <1>2, <3>1 DEF FlushOf, s
    <3>3. \A m \in Out(s, n, c) : m.id[1] = n
      BY <3>2, FlushIdOf
    <3>4. QED
      BY <1>2, <3>1, <3>3 DEF FlushOf, s
  <2>6. IsFiniteSet(Flushed(c))
    <3>1. f \in Surjection(Nodes(s), G)
      BY DEF Surjection
    <3> HIDE DEF f
    <3>2. IsFiniteSet(G)
      BY <2>2, <3>1, FS_Surjection
    <3>3. \A T \in G : IsFiniteSet(T)
      BY <2>5
    <3>4. Flushed(c) \subseteq UNION G
      BY <2>3
    <3> HIDE DEF G
    <3>5. QED
      BY <3>2, <3>3, <3>4, FS_UNION, FS_Subset
  <2>7. ASSUME NEW m \in Flushed(c), NEW x \in Flushed(c), m.node = x.node, m.id = x.id
        PROVE  m = x
    <3>1. PICK n \in Nodes(s) : m \in Out(s, n, c)
      BY <2>3
    <3>2. PICK k \in Nodes(s) : x \in Out(s, k, c)
      BY <2>3
    <3>3. n = k
      BY <2>5, <2>7, <3>1, <3>2
    <3>4. QED
      BY <2>5, <2>7, <3>1, <3>2, <3>3
  <2>8. ASSUME NEW m \in Flushed(c)
        PROVE  /\ m = Message(m.node, m.id, m.items) /\ m.node \in Nodes(c)
               /\ IsFiniteSet(m.items) /\ \A x \in m.items : Carried(c, x)
               /\ m.id[1] \in Nat
    <3>1. PICK n \in Nodes(s) : m \in Out(s, n, c)
      BY <2>3
    <3>2. QED
      BY <2>2, <2>5, <3>1
  <2>9. QED
    BY <2>6, <2>7, <2>8
<1>3. QED
  BY <1>1, <1>2

LEMMA JoinedFinite ==
  ASSUME NEW m, IsFiniteSet(m.items)
  PROVE  IsFiniteSet(Joined(m))
<1> DEFINE J(x) == [name |-> NameOf(m.node, x.bank), account |-> x.account, amount |-> x.amount]
           f == [x \in m.items |-> J(x)]
<1>1. CASE input.query = "q2"
  <2>1. Joined(m) = {J(x) : x \in m.items}
    BY <1>1 DEF Joined
  <2>2. f \in Surjection(m.items, {J(x) : x \in m.items})
    BY DEF Surjection
  <2> HIDE DEF f, J
  <2>3. QED
    BY <2>1, <2>2, FS_Surjection
<1>2. CASE input.query # "q2"
  <2>1. Joined(m) \subseteq m.items
    BY <1>2 DEF Joined
  <2>2. QED
    BY <2>1, FS_Subset
<1>3. QED
  BY <1>1, <1>2

LEMMA RelayedFields ==
  ASSUME NEW m
  PROVE  /\ Relayed(m).node = 0 /\ Relayed(m).id = m.id /\ Relayed(m).items = Joined(m)
         /\ Relayed(m) = Message(Relayed(m).node, Relayed(m).id, Relayed(m).items)
BY MessageFields DEF Relayed

LEMMA JoinNames ==
  ASSUME Shapes
  PROVE  /\ HasJoin <=> input.query \in {"q2", "q3"}
         /\ HasJoin => Joins[input.query] \in Receivers \ {"client"}
         /\ input.query = "q2" => Joins[input.query] = "bank_mapper"
         /\ input.query = "q3" => Joins[input.query] = "anomaly_filter"
BY Names DEF HasJoin

LEMMA DeliveredDirectly ==
  ASSUME Shapes, Flows, Memories, NEW c \in Receivers, c # "client" \/ ~HasJoin
  PROVE  Delivered(c)
<1>1. sent[c] = Source(c) \cup Flushed(c)
  BY DEF Flows
<1>2. /\ IsFiniteSet(Source(c))
      /\ \A m \in Source(c) : \E b \in DOMAIN input.batches : FrontMessage(c, b, m)
      /\ \A m, x \in Source(c) : m.node = x.node /\ m.id = x.id => m = x
  BY SourceAre DEF Shapes
<1>3. /\ IsFiniteSet(Flushed(c))
      /\ \A m \in Flushed(c) :
           /\ m = Message(m.node, m.id, m.items) /\ m.node \in Nodes(c)
           /\ IsFiniteSet(m.items) /\ \A x \in m.items : Carried(c, x)
           /\ m.id[1] \in Nat
      /\ \A m, x \in Flushed(c) : m.node = x.node /\ m.id = x.id => m = x
  BY FlushedTyped
<1>4. ASSUME NEW m \in Source(c)
      PROVE  /\ m = Message(m.node, m.id, m.items) /\ m.node \in Nodes(c)
             /\ IsFiniteSet(m.items) /\ \A x \in m.items : Carried(c, x)
             /\ m.id[1] = -1
  <2>1. PICK b \in DOMAIN input.batches : FrontMessage(c, b, m)
    BY <1>2
  <2>2. m = Message(m.node, RootId(b), m.items)
    BY <2>1 DEF FrontMessage
  <2>3. m.id = RootId(b)
    BY <2>2, MessageFields
  <2>4. QED
    BY <2>1, <2>2, <2>3, RootIdOf DEF FrontMessage
<1>5. ASSUME NEW m \in Source(c), NEW x \in Flushed(c) PROVE m.id # x.id
  <2>1. m.id[1] = -1 /\ x.id[1] \in Nat
    BY <1>3, <1>4
  <2>2. QED
    BY <2>1
<1>6. IsFiniteSet(sent[c])
  <2>1. IsFiniteSet(Source(c)) /\ IsFiniteSet(Flushed(c))
    BY <1>2, <1>3
  <2>2. QED
    BY <1>1, <2>1, FS_Union
<1>7. \A m \in sent[c] : /\ m = Message(m.node, m.id, m.items) /\ m.node \in Nodes(c)
                         /\ IsFiniteSet(m.items) /\ \A x \in m.items : Carried(c, x)
  BY <1>1, <1>3, <1>4
<1>8. \A m, x \in sent[c] : m.node = x.node /\ m.id = x.id => m = x
  BY <1>1, <1>2, <1>3, <1>5
<1>9. QED
  BY <1>6, <1>7, <1>8 DEF Delivered

LEMMA AllDelivered ==
  ASSUME Shapes, Flows, Memories, NEW c \in Receivers
  PROVE  Delivered(c)
<1>1. CASE c # "client" \/ ~HasJoin
  BY <1>1, DeliveredDirectly
<1>2. CASE c = "client" /\ HasJoin
  <2> DEFINE M == sent[Joins[input.query]]
             R == {Relayed(m) : m \in M}
             f == [m \in M |-> Relayed(m)]
  <2>1. Delivered(Joins[input.query])
    BY <1>2, JoinNames, DeliveredDirectly
  <2>2. f \in Surjection(M, R)
    BY DEF Surjection
  <2> HIDE DEF f
  <2>3. IsFiniteSet(R)
    BY <2>1, <2>2, FS_Surjection DEF Delivered
  <2>4. sent[c] \subseteq R
    BY <1>2 DEF Flows
  <2>5. ASSUME NEW m \in sent[c]
        PROVE  /\ m = Message(m.node, m.id, m.items) /\ m.node \in Nodes(c)
               /\ IsFiniteSet(m.items) /\ \A x \in m.items : Carried(c, x)
    <3>1. PICK x \in M : m = Relayed(x)
      BY <2>4
    <3>2. IsFiniteSet(Joined(x))
      BY <2>1, JoinedFinite DEF Delivered
    <3>3. 0 \in Nodes(c)
      BY ReplicasOf
    <3>4. \A y : Carried(c, y)
      BY <1>2 DEF Carried, Kept
    <3>5. QED
      BY <3>1, <3>2, <3>3, <3>4, RelayedFields
  <2> HIDE DEF R
  <2>6. QED
    BY <1>2, <2>3, <2>4, <2>5, FS_Subset DEF Delivered
<1>3. QED
  BY <1>1, <1>2

-----------------------------------------------------------------------------
(* What a replica accumulates *)

LEMMA BankMaximaTyped ==
  ASSUME NEW T, T \subseteq Transactions, IsFiniteSet(T)
  PROVE  /\ BankItemsOf(T) \subseteq BankItems /\ IsFiniteSet(BankItemsOf(T))
         /\ BankMaxima(T) = BestOfBanks(BankItemsOf(T))
<1> DEFINE J(t) == [bank |-> t.bank.number, account |-> t.from, amount |-> t.amount]
           f == [t \in T |-> J(t)]
<1>1. BankItemsOf(T) = {J(t) : t \in T}
  BY DEF BankItemsOf
<1>2. f \in Surjection(T, {J(t) : t \in T})
  BY DEF Surjection
<1>3. \A t \in T : J(t) \in BankItems
  BY TransactionFields
<1> HIDE DEF f, J
<1>4. IsFiniteSet({J(t) : t \in T})
  BY <1>2, FS_Surjection
<1>5. BankMaxima(T) = BestOfBanks(BankItemsOf(T))
  BY DEF BankMaxima, BankItemsOf
<1>6. QED
  BY <1>1, <1>3, <1>4, <1>5

LEMMA BestIn ==
  ASSUME NEW S
  PROVE  /\ BestOfBanks(S) \subseteq S
         /\ IsFiniteSet(S) => IsFiniteSet(BestOfBanks(S))
<1>1. BestOfBanks(S) \subseteq S
  BY DEF BestOfBanks
<1>2. QED
  BY <1>1, FS_Subset

LEMMA TotalsFinite ==
  ASSUME NEW a, IsFiniteSet(a), NEW b, IsFiniteSet(b)
  PROVE  IsFiniteSet(AddTotals(a, b)) /\ IsFiniteSet(BatchTotals(b))
<1> DEFINE U == a \cup b
           J(f) == [format |-> f,
                    total  |-> Sum({x \in a : x.format = f}, LAMBDA x : x.total)
                             + Sum({x \in b : x.format = f}, LAMBDA x : x.total),
                    count  |-> Sum({x \in a : x.format = f}, LAMBDA x : x.count)
                             + Sum({x \in b : x.format = f}, LAMBDA x : x.count)]
           L(f) == [format |-> f,
                    total  |-> Sum({i \in b : i.format = f}, LAMBDA t : t.amount),
                    count  |-> Sum({i \in b : i.format = f}, LAMBDA t : 1)]
           g == [x \in U |-> J(x.format)]
           h == [x \in b |-> L(x.format)]
<1>1. AddTotals(a, b) = {J(x.format) : x \in U}
  <2>1. AddTotals(a, b) = {J(f) : f \in {x.format : x \in U}}
    BY DEF AddTotals
  <2> HIDE DEF J, U
  <2>2. QED
    BY <2>1
<1>2. BatchTotals(b) = {L(x.format) : x \in b}
  <2>1. BatchTotals(b) = {L(f) : f \in {x.format : x \in b}}
    BY DEF BatchTotals, TotalsOf
  <2> HIDE DEF L
  <2>2. QED
    BY <2>1
<1> HIDE DEF J, L
<1>3. /\ g \in Surjection(U, {J(x.format) : x \in U})
      /\ h \in Surjection(b, {L(x.format) : x \in b})
  BY DEF Surjection
<1>4. IsFiniteSet(U)
  BY FS_Union
<1> HIDE DEF g, h, U
<1>5. QED
  BY <1>1, <1>2, <1>3, <1>4, FS_Surjection

LEMMA CountsFinite ==
  ASSUME NEW a, IsFiniteSet(a), NEW b, IsFiniteSet(b),
         NEW T, \A z \in T : \E x \in a : \E y \in b : z = x + y
  PROVE  IsFiniteSet(T)
<1> DEFINE g == [p \in a \X b |-> p[1] + p[2]]
           U == {g[p] : p \in a \X b}
<1>1. g \in Surjection(a \X b, U)
  BY DEF Surjection
<1>2. T \subseteq U
  <2>1. ASSUME NEW z \in T PROVE z \in U
    <3>1. PICK x \in a, y \in b : z = x + y
      OBVIOUS
    <3>2. <<x, y>> \in a \X b /\ g[<<x, y>>] = z
      BY <3>1
    <3>3. QED
      BY <3>2
  <2>2. QED
    BY <2>1
<1>3. IsFiniteSet(a \X b)
  BY FS_Product
<1> HIDE DEF g, U
<1>4. IsFiniteSet(U)
  BY <1>1, <1>3, FS_Surjection
<1>5. QED
  BY <1>2, <1>4, FS_Subset

LEMMA MergeTyped ==
  ASSUME NEW s \in Stages, NEW S, IsFiniteSet(S), \A x \in S : Kept(s, x),
         NEW I, IsFiniteSet(I), \A x \in I : Carried(s, x)
  PROVE  IsFiniteSet(Merge(s, S, I)) /\ \A x \in Merge(s, S, I) : Kept(s, x)
<1>1. CASE s = "bank_max_aggregator"
  <2>1. Merge(s, S, I) = BestOfBanks(S \cup BankMaxima(I))
    BY <1>1 DEF Merge
  <2>2. S \subseteq BankItems /\ I \subseteq Transactions
    BY <1>1 DEF Kept, Carried
  <2>3. BankMaxima(I) \subseteq BankItems /\ IsFiniteSet(BankMaxima(I))
    BY <2>2, BankMaximaTyped, BestIn
  <2>4. IsFiniteSet(S \cup BankMaxima(I))
    BY <2>3, FS_Union
  <2>5. Merge(s, S, I) \subseteq BankItems /\ IsFiniteSet(Merge(s, S, I))
    BY <2>1, <2>2, <2>3, <2>4, BestIn
  <2>6. QED
    BY <1>1, <2>5 DEF Kept
<1>2. CASE s = "bank_max_reducer"
  <2>1. Merge(s, S, I) = BestOfBanks(S \cup BestOfBanks(I))
    BY <1>2 DEF Merge
  <2>2. S \subseteq BankItems /\ I \subseteq BankItems
    BY <1>2 DEF Kept, Carried
  <2>3. BestOfBanks(I) \subseteq BankItems /\ IsFiniteSet(BestOfBanks(I))
    BY <2>2, BestIn
  <2>4. IsFiniteSet(S \cup BestOfBanks(I))
    BY <2>3, FS_Union
  <2>5. Merge(s, S, I) \subseteq BankItems /\ IsFiniteSet(Merge(s, S, I))
    BY <2>1, <2>2, <2>3, <2>4, BestIn
  <2>6. QED
    BY <1>2, <2>5 DEF Kept
<1>3. CASE s \in {"payment_format_aggregator", "payment_format_reducer"}
  <2>1. \/ Merge(s, S, I) = AddTotals(S, BatchTotals(I))
        \/ Merge(s, S, I) = AddTotals(S, I)
    BY <1>3 DEF Merge
  <2>2. IsFiniteSet(Merge(s, S, I))
    BY <2>1, TotalsFinite
  <2>3. QED
    BY <1>3, <2>2 DEF Kept
<1>4. CASE s = "low_amount_aggregator"
  <2>1. Merge(s, S, I) = {x + Cardinality(LowAmounts(I)) : x \in S}
    BY <1>4 DEF Merge
  <2> DEFINE k == Cardinality(LowAmounts(I))
  <2>2. IsFiniteSet({x + k : x \in S})
    <3>1. \A z \in {x + k : x \in S} : \E x \in S : \E y \in {k} : z = x + y
      OBVIOUS
    <3>2. IsFiniteSet({k})
      BY FS_Singleton
    <3> HIDE DEF k
    <3>3. QED
      BY <3>1, <3>2, CountsFinite
  <2>3. \A x : Kept(s, x)
    BY <1>4 DEF Kept
  <2>4. QED
    BY <2>1, <2>2, <2>3
<1>5. CASE s = "low_amount_reducer"
  <2>1. Merge(s, S, I) = {x + y : x \in S, y \in I}
    BY <1>5 DEF Merge
  <2>2. IsFiniteSet({x + y : x \in S, y \in I})
    <3>1. \A z \in {x + y : x \in S, y \in I} : \E x \in S : \E y \in I : z = x + y
      OBVIOUS
    <3>2. QED
      BY <3>1, CountsFinite
  <2>3. \A x : Kept(s, x)
    BY <1>5 DEF Kept
  <2>4. QED
    BY <2>1, <2>2, <2>3
<1>6. CASE s \in Unions
  <2>1. Merge(s, S, I) = S \cup I
    BY <1>6 DEF Merge, Unions
  <2>2. \A x \in I : Kept(s, x)
    BY <1>6 DEF Carried, Unions
  <2>3. QED
    BY <2>1, <2>2, FS_Union
<1>7. QED
  BY <1>1, <1>2, <1>3, <1>4, <1>5, <1>6, Names DEF Unions

-----------------------------------------------------------------------------
(* Base is inductive *)

\* The input never changes, nor does what depends on nothing else.
LEMMA Constant ==
  ASSUME input' = input
  PROVE  /\ MyRoute' = MyRoute /\ HasJoin' = HasJoin
         /\ \A i : Consumer(i)' = Consumer(i)
         /\ \A s, c : Feeds(s, c)' = Feeds(s, c)
         /\ \A c : Source(c)' = Source(c)
<1>1. MyRoute' = MyRoute /\ HasJoin' = HasJoin
  BY DEF MyRoute, HasJoin
<1>2. \A i : Consumer(i)' = Consumer(i)
  BY <1>1 DEF Consumer
<1>3. \A s, c : Feeds(s, c)' = Feeds(s, c)
  BY <1>1, <1>2 DEF Feeds
<1>4. \A c : Source(c)' = Source(c)
  BY DEF Source
<1>5. QED
  BY <1>1, <1>2, <1>3, <1>4

LEMMA RelayedSame ==
  ASSUME input' = input,
         input.query = "q3" => mem'["payment_format_reducer"] = mem["payment_format_reducer"]
  PROVE  input.query \in DOMAIN Joins => \A m : Relayed(m)' = Relayed(m)
<1>1. CASE input.query = "q2"
  <2>1. \A m : Joined(m)' = Joined(m)
    BY <1>1 DEF Joined
  <2>2. QED
    BY <2>1 DEF Relayed
<1>2. CASE input.query = "q3"
  <2>1. Averages' = Averages
    BY <1>2 DEF Averages
  <2>2. \A m : Joined(m)' = Joined(m)
    BY <1>2, <2>1 DEF Joined
  <2>3. QED
    BY <2>2 DEF Relayed
<1>3. QED
  BY <1>1, <1>2, Names

\* A stage that is complete has handled every message it was sent: it counts
\* as many as there are, and never one that is not.
LEMMA CompleteReads ==
  ASSUME Base, NEW i \in DOMAIN MyRoute, Complete(i)
  PROVE  /\ AllRead(MyRoute[i])
         /\ \A j \in DOMAIN MyRoute : MyRoute[j] = MyRoute[i] /\ j > 1 => Closed(MyRoute[j - 1])
<1> DEFINE s == MyRoute[i]
           P == UNION {{n} \X seen[s][n] : n \in Nodes(s)}
           f == [m \in sent[s] |-> <<m.node, m.id>>]
           I == {<<m.node, m.id>> : m \in sent[s]}
<1>1. input.query \in Queries /\ s \in Stages /\ s \in Receivers /\ s # "client"
  BY InputTyped, RouteSteps, Names DEF Base, Shapes
<1>2. Delivered(s)
  BY <1>1, AllDelivered DEF Base
<1>3. IsFiniteSet(sent[s]) /\ \A m, x \in sent[s] : m.node = x.node /\ m.id = x.id => m = x
  BY <1>1, <1>2 DEF Delivered
<1>4. f \in Bijection(sent[s], I)
  <2>1. f \in [sent[s] -> I]
    OBVIOUS
  <2>2. \A m, x \in sent[s] : f[m] = f[x] => m = x
    BY <1>3
  <2>3. \A y \in I : \E m \in sent[s] : f[m] = y
    OBVIOUS
  <2> HIDE DEF f, I
  <2>4. QED
    BY <2>1, <2>2, <2>3 DEF Bijection, Injection, Surjection, IsInjective
<1>5. IsFiniteSet(I) /\ Cardinality(I) = Cardinality(sent[s])
  BY <1>3, <1>4, FS_Bijection DEF ExistsBijection
<1>6. P \subseteq I
  <2>1. ASSUME NEW n \in Nodes(s), NEW d \in seen[s][n] PROVE <<n, d>> \in I
    <3>1. PICK m \in sent[s] : m.node = n /\ m.id = d
      BY <1>1 DEF Base, Handled, Owed
    <3>2. QED
      BY <3>1
  <2>2. QED
    BY <2>1
<1>7. Cardinality(P) = Cardinality(sent[s])
  BY DEF Complete
<1> HIDE DEF P, I, f
<1>8. P = I
  BY <1>5, <1>6, <1>7, FS_Subset
<1>9. ASSUME NEW m \in sent[s] PROVE m.id \in seen[s][m.node]
  <2>1. <<m.node, m.id>> \in P
    BY <1>8 DEF I
  <2>2. PICK n \in Nodes(s) : <<m.node, m.id>> \in {n} \X seen[s][n]
    BY <2>1 DEF P
  <2>3. QED
    BY <2>2
<1>10. ASSUME NEW j \in DOMAIN MyRoute, MyRoute[j] = MyRoute[i], j > 1
       PROVE  Closed(MyRoute[j - 1])
  <2>1. j = i
    BY <1>1, <1>10, RouteSteps
  <2>2. QED
    BY <1>10, <2>1 DEF Complete
<1>11. QED
  BY <1>9, <1>10 DEF AllRead

\* A stage that has flushed takes nothing more.
LEMMA TakeKeeps ==
  ASSUME Base, NEW s \in Stages, Take(s)
  PROVE  /\ \A p \in flushed : p[1] # s
         /\ \A p \in flushed : \A c : Out(p[1], p[2], c)' = Out(p[1], p[2], c)
         /\ \A c : Flushed(c)' = Flushed(c)
         /\ input' = input /\ sent' = sent /\ flushed' = flushed
<1>1. PICK m \in sent[s] :
        /\ m.id \notin seen[s][m.node]
        /\ mem' = [mem EXCEPT ![s][m.node] = Merge(s, @, m.items)]
        /\ UNCHANGED <<input, sent, flushed, rows, taken, expected>>
  BY DEF Take
<1>2. input' = input /\ sent' = sent /\ flushed' = flushed
  BY <1>1
<1>3. \A p \in flushed : p[1] # s
  BY <1>1 DEF Base, Closings, AllRead
<1>4. \A t : t # s => mem'[t] = mem[t]
  BY <1>1
<1>5. \A p \in flushed : \A c : Out(p[1], p[2], c)' = Out(p[1], p[2], c)
  BY <1>3, <1>4 DEF Out
<1>6. \A c : Flushed(c)' = Flushed(c)
  BY <1>2, <1>5, Constant DEF Flushed
<1>7. QED
  BY <1>2, <1>3, <1>5, <1>6

LEMMA TakeBase ==
  ASSUME Base, NEW s \in Stages, Take(s)
  PROVE  Base'
<1>1. PICK m \in sent[s] :
        /\ m.id \notin seen[s][m.node]
        /\ seen' = [seen EXCEPT ![s][m.node] = @ \cup {m.id}]
        /\ mem' = [mem EXCEPT ![s][m.node] = Merge(s, @, m.items)]
        /\ UNCHANGED <<input, sent, flushed, rows, taken, expected>>
  BY DEF Take
<1>2. /\ \A p \in flushed : p[1] # s
      /\ \A c : Flushed(c)' = Flushed(c)
      /\ input' = input /\ sent' = sent /\ flushed' = flushed
  BY TakeKeeps
<1>3. /\ MyRoute' = MyRoute /\ HasJoin' = HasJoin /\ \A c : Source(c)' = Source(c)
  BY <1>2, Constant
<1>4. Shapes /\ Flows /\ Memories /\ Handled /\ Closings
  BY DEF Base
<1>5. s \in Receivers /\ Delivered(s)
  BY <1>4, Names, AllDelivered
<1>6. m.node \in Nodes(s) /\ IsFiniteSet(m.items) /\ \A x \in m.items : Carried(s, x)
  BY <1>5 DEF Delivered
<1>7. \A t \in Stages : \A n \in Nodes(t) :
        /\ seen'[t][n] = IF t = s /\ n = m.node THEN seen[t][n] \cup {m.id} ELSE seen[t][n]
        /\ mem'[t][n] = IF t = s /\ n = m.node THEN Merge(s, mem[t][n], m.items) ELSE mem[t][n]
  BY <1>1, <1>4, <1>6 DEF Shapes
<1>8. Shapes'
  <2>1. seen' = [t \in Stages |-> [n \in Nodes(t) |-> seen'[t][n]]]
    BY <1>1, <1>4, <1>6 DEF Shapes
  <2>2. mem' = [t \in Stages |-> [n \in Nodes(t) |-> mem'[t][n]]]
    BY <1>1, <1>4, <1>6 DEF Shapes
  <2>3. QED
    BY <1>1, <1>3, <1>4, <2>1, <2>2 DEF Shapes, Nodes
<1>9. Flows'
  <2>1. \A c \in Receivers : (c # "client" \/ ~HasJoin) => sent'[c] = Source(c)' \cup Flushed(c)'
    BY <1>2, <1>3, <1>4 DEF Flows
  <2>2. ASSUME HasJoin, NEW x \in sent["client"]
        PROVE  \E y \in sent[Joins[input.query]] : x = Relayed(y)'
    <3>1. PICK y \in sent[Joins[input.query]] : x = Relayed(y)
      BY <1>4, <2>2 DEF Flows
    <3>2. ASSUME input.query = "q3"
          PROVE  mem'["payment_format_reducer"] = mem["payment_format_reducer"]
      <4>1. Closed("payment_format_reducer")
        BY <1>4, <2>2, <3>2 DEF Flows
      <4>2. <<"payment_format_reducer", 0>> \in flushed
        BY <4>1, Names, ReplicasOf DEF Closed
      <4>3. s # "payment_format_reducer"
        BY <1>2, <4>2
      <4>4. QED
        BY <1>1, <4>3
    <3>3. Relayed(y)' = Relayed(y)
      BY <1>2, <2>2, <3>2, RelayedSame DEF HasJoin
    <3>4. QED
      BY <3>1, <3>3
  <2>3. input.query = "q3" /\ sent["client"] # {} => Closed("payment_format_reducer")'
    BY <1>2, <1>4 DEF Flows, Closed, Nodes
  <2>4. QED
    BY <1>2, <1>3, <2>1, <2>2, <2>3 DEF Flows
<1>10. Memories'
  <2>1. ASSUME NEW t \in Stages, NEW n \in Nodes(t)
        PROVE  IsFiniteSet(mem'[t][n]) /\ \A x \in mem'[t][n] : Kept(t, x)
    <3>1. IsFiniteSet(mem[t][n]) /\ \A x \in mem[t][n] : Kept(t, x)
      BY <1>4 DEF Memories
    <3>2. t = s => /\ IsFiniteSet(Merge(t, mem[t][n], m.items))
                   /\ \A x \in Merge(t, mem[t][n], m.items) : Kept(t, x)
      <4>1. CASE t = s
        <5>1. \A x \in m.items : Carried(t, x)
          BY <1>6, <4>1
        <5>2. QED
          BY <1>6, <3>1, <5>1, MergeTyped
      <4>2. QED
        BY <4>1
    <3>3. CASE t = s /\ n = m.node
      <4>1. mem'[t][n] = Merge(t, mem[t][n], m.items)
        BY <1>7, <3>3
      <4>2. QED
        BY <3>2, <3>3, <4>1
    <3>4. CASE ~(t = s /\ n = m.node)
      <4>1. mem'[t][n] = mem[t][n]
        BY <1>7, <3>4
      <4>2. QED
        BY <3>1, <4>1
    <3>5. QED
      BY <3>3, <3>4
  <2>2. QED
    BY <2>1 DEF Memories, Nodes
<1>11. Handled'
  <2>1. ASSUME NEW t \in Stages, NEW n \in Nodes(t), NEW d \in seen'[t][n]
        PROVE  d \in {x.id : x \in Owed(t, n)}
    <3>1. CASE d \in seen[t][n]
      BY <1>4, <3>1 DEF Handled
    <3>2. CASE t = s /\ n = m.node /\ d = m.id
      <4>1. m \in Owed(t, n)
        BY <3>2 DEF Owed
      <4>2. QED
        BY <3>2, <4>1
    <3>3. d \in seen[t][n] \/ (t = s /\ n = m.node /\ d = m.id)
      <4>1. CASE t = s /\ n = m.node
        <5>1. seen'[t][n] = seen[t][n] \cup {m.id}
          BY <1>7, <4>1
        <5>2. QED
          BY <2>1, <4>1, <5>1
      <4>2. CASE ~(t = s /\ n = m.node)
        <5>1. seen'[t][n] = seen[t][n]
          BY <1>7, <4>2
        <5>2. QED
          BY <2>1, <5>1
      <4>3. QED
        BY <4>1, <4>2
    <3>4. QED
      BY <3>1, <3>2, <3>3
  <2>2. \A t, n : Owed(t, n)' = Owed(t, n)
    BY <1>2 DEF Owed
  <2>3. QED
    BY <2>1, <2>2 DEF Handled, Nodes
<1>12. Closings'
  <2>1. ASSUME NEW p \in flushed PROVE AllRead(p[1])'
    <3>1. AllRead(p[1]) /\ p[1] # s
      BY <1>2, <1>4 DEF Closings
    <3>2. seen'[p[1]] = seen[p[1]]
      BY <1>1, <3>1
    <3>3. QED
      BY <1>2, <3>1, <3>2 DEF AllRead
  <2>2. \A t : Closed(t)' <=> Closed(t)
    BY <1>2 DEF Closed, Nodes
  <2>3. QED
    BY <1>2, <1>3, <1>4, <2>1, <2>2 DEF Closings
<1>13. QED
  BY <1>8, <1>9, <1>10, <1>11, <1>12 DEF Base

\* A flush adds its messages to what its consumer is sent, and nothing else.
LEMMA FlushSends ==
  ASSUME Base, NEW i \in DOMAIN MyRoute, NEW n \in Nodes(MyRoute[i]), Flush(i, n)
  PROVE  LET s == MyRoute[i]
             c == Consumer(i)
         IN  /\ s \in Stages /\ c \in Receivers
             /\ input' = input /\ mem' = mem /\ seen' = seen
             /\ flushed' = flushed \cup {<<s, n>>} /\ <<s, n>> \notin flushed
             /\ s = "payment_format_reducer" => sent' = sent
             /\ s # "payment_format_reducer" =>
                  /\ sent' = [sent EXCEPT ![c] = @ \cup Out(s, n, c)]
                  /\ sent'[c] = sent[c] \cup Out(s, n, c)
             /\ \A d \in Receivers :
                  d # c \/ s = "payment_format_reducer" => sent'[d] = sent[d]
             /\ HasJoin => sent'["client"] = sent["client"]
             /\ \A d \in Receivers :
                  Flushed(d)' = IF d = c /\ s # "payment_format_reducer"
                                THEN Flushed(d) \cup Out(s, n, c) ELSE Flushed(d)
<1> DEFINE s == MyRoute[i]
           c == Consumer(i)
<1>1. input.query \in Queries /\ s \in Stages /\ c \in Receivers
  BY InputTyped, RouteSteps DEF Base, Shapes
<1>2. /\ input' = input /\ mem' = mem /\ seen' = seen
      /\ flushed' = flushed \cup {<<s, n>>} /\ <<s, n>> \notin flushed
      /\ s = "payment_format_reducer" => sent' = sent
      /\ s # "payment_format_reducer" => sent' = [sent EXCEPT ![c] = @ \cup Out(s, n, c)]
  BY DEF Flush, Out
<1>3. sent = [d \in Receivers |-> sent[d]]
  BY DEF Base, Shapes
<1>4. s # "payment_format_reducer" => sent'[c] = sent[c] \cup Out(s, n, c)
  BY <1>1, <1>2, <1>3
<1>5. \A d \in Receivers : d # c \/ s = "payment_format_reducer" => sent'[d] = sent[d]
  BY <1>2, <1>3
<1>6. HasJoin => c # "client" \/ s = "payment_format_reducer"
  BY JoinNames, Routes DEF Base
<1>7. \A t, d : Feeds(t, d)' = Feeds(t, d)
  BY <1>2, Constant
<1>8. \A d : Feeds(s, d) <=> d = c /\ s # "payment_format_reducer"
  BY <1>1, RouteSteps DEF Feeds
<1>9. \A t, k, d : Out(t, k, d)' = Out(t, k, d)
  BY <1>2 DEF Out
<1> HIDE DEF s, c
<1>10. ASSUME NEW d \in Receivers
       PROVE  Flushed(d)' = IF d = c /\ s # "payment_format_reducer"
                            THEN Flushed(d) \cup Out(s, n, c) ELSE Flushed(d)
  <2>1. \A m : m \in Flushed(d)' <=>
                 \E p \in flushed \cup {<<s, n>>} : Feeds(p[1], d) /\ m \in Out(p[1], p[2], d)
    BY <1>2, <1>7, <1>9 DEF Flushed
  <2>2. \A m : m \in Flushed(d) <=> \E p \in flushed : Feeds(p[1], d) /\ m \in Out(p[1], p[2], d)
    BY DEF Flushed
  <2>3. \A m : m \in Flushed(d)' <=> m \in Flushed(d) \/ (Feeds(s, d) /\ m \in Out(s, n, d))
    <3> DEFINE q == <<s, n>>
    <3>1. q[1] = s /\ q[2] = n
      OBVIOUS
    <3> HIDE DEF q
    <3>2. \A m : m \in Flushed(d)' <=>
                   \/ \E p \in flushed : Feeds(p[1], d) /\ m \in Out(p[1], p[2], d)
                   \/ Feeds(q[1], d) /\ m \in Out(q[1], q[2], d)
      BY <2>1 DEF q
    <3>3. QED
      BY <2>2, <3>1, <3>2
  <2>4. CASE d = c /\ s # "payment_format_reducer"
    BY <1>8, <2>3, <2>4
  <2>5. CASE ~(d = c /\ s # "payment_format_reducer")
    BY <1>8, <2>3, <2>5
  <2>6. QED
    BY <2>4, <2>5
<1>11. HasJoin => sent'["client"] = sent["client"]
  BY <1>5, <1>6, Names
<1>12. QED
  BY <1>1, <1>2, <1>4, <1>5, <1>10, <1>11 DEF s, c

LEMMA FlushBase ==
  ASSUME Base, NEW i \in DOMAIN MyRoute, NEW n \in Nodes(MyRoute[i]), Flush(i, n)
  PROVE  Base'
<1> DEFINE s == MyRoute[i]
           c == Consumer(i)
<1>1. /\ s \in Stages /\ c \in Receivers
      /\ input' = input /\ mem' = mem /\ seen' = seen
      /\ flushed' = flushed \cup {<<s, n>>} /\ <<s, n>> \notin flushed
      /\ s = "payment_format_reducer" => sent' = sent
      /\ s # "payment_format_reducer" =>
           /\ sent' = [sent EXCEPT ![c] = @ \cup Out(s, n, c)]
           /\ sent'[c] = sent[c] \cup Out(s, n, c)
      /\ \A d \in Receivers : d # c \/ s = "payment_format_reducer" => sent'[d] = sent[d]
      /\ HasJoin => sent'["client"] = sent["client"]
      /\ \A d \in Receivers :
           Flushed(d)' = IF d = c /\ s # "payment_format_reducer"
                         THEN Flushed(d) \cup Out(s, n, c) ELSE Flushed(d)
  BY FlushSends
<1>2. /\ MyRoute' = MyRoute /\ HasJoin' = HasJoin /\ \A d : Source(d)' = Source(d)
  BY <1>1, Constant
<1>3. Shapes /\ Flows /\ Memories /\ Handled /\ Closings
  BY DEF Base
<1>4. AllRead(s) /\ \A j \in DOMAIN MyRoute : MyRoute[j] = s /\ j > 1 => Closed(MyRoute[j - 1])
  BY CompleteReads DEF Flush
<1>5. \A d \in Receivers : sent[d] \subseteq sent'[d]
  BY <1>1
<1>6. \A t : Closed(t) => Closed(t)'
  BY <1>1 DEF Closed, Nodes
<1>7. expected' = expected
  BY DEF Flush
<1>8. \A p \in flushed \cup {<<s, n>>} : \E j \in DOMAIN MyRoute : p[1] = MyRoute[j]
  BY <1>3 DEF Shapes
<1>9. ASSUME NEW p \in flushed \cup {<<s, n>>}
      PROVE  /\ p[1] \in Receivers /\ AllRead(p[1])
             /\ p[1] # c \/ s = "payment_format_reducer"
  <2>1. PICK j \in DOMAIN MyRoute : p[1] = MyRoute[j]
    BY <1>8
  <2>2. input.query \in Queries
    BY <1>3, InputTyped DEF Shapes
  <2>3. p[1] \in Receivers
    BY <2>1, <2>2, RouteSteps, Names
  <2>4. AllRead(p[1])
    BY <1>3, <1>4 DEF Closings
  <2>5. ASSUME p[1] = c PROVE FALSE
    <3>1. j = i + 1 /\ j - 1 = i /\ j > 1 /\ s # c
      <4>1. i \in Nat /\ j = i + 1
        BY <2>1, <2>2, <2>5, RouteSteps
      <4>2. s # c /\ i >= 1
        BY <2>2, <4>1, RouteSteps, Names, Routes
      <4>3. QED
        BY <4>1, <4>2
    <3>2. p \in flushed
      BY <2>5, <3>1
    <3>3. Closed(s)
      BY <1>3, <2>1, <3>1, <3>2 DEF Closings
    <3>4. QED
      BY <1>1, <3>3 DEF Closed
  <2>6. QED
    BY <2>3, <2>4, <2>5
<1> HIDE DEF s, c
<1>10. Shapes'
  <2>1. sent' = [d \in Receivers |-> sent'[d]]
    BY <1>1, <1>3 DEF Shapes
  <2>2. \A p \in flushed' : /\ p = <<p[1], p[2]>> /\ p[2] \in Nodes(p[1])
                            /\ \E j \in DOMAIN MyRoute : p[1] = MyRoute[j]
    BY <1>1, <1>3, <1>8 DEF Shapes, s
  <2>3. QED
    BY <1>1, <1>2, <1>3, <1>7, <2>1, <2>2 DEF Shapes, Nodes
<1>11. Flows'
  <2>1. ASSUME NEW d \in Receivers, d # "client" \/ ~HasJoin
        PROVE  sent'[d] = Source(d)' \cup Flushed(d)'
    <3>1. sent[d] = Source(d) \cup Flushed(d)
      BY <1>3, <2>1 DEF Flows
    <3>2. CASE d = c /\ s # "payment_format_reducer"
      BY <1>1, <1>2, <3>1, <3>2
    <3>3. CASE ~(d = c /\ s # "payment_format_reducer")
      BY <1>1, <1>2, <3>1, <3>3
    <3>4. QED
      BY <3>2, <3>3
  <2>2. ASSUME HasJoin, NEW x \in sent'["client"]
        PROVE  \E y \in sent'[Joins[input.query]] : x = Relayed(y)'
    <3>1. PICK y \in sent[Joins[input.query]] : x = Relayed(y)
      BY <1>1, <1>3, <2>2 DEF Flows
    <3>2. y \in sent'[Joins[input.query]]
      BY <1>3, <1>5, <2>2, JoinNames
    <3>3. Relayed(y)' = Relayed(y)
      BY <1>1, <2>2, RelayedSame DEF HasJoin
    <3>4. QED
      BY <3>1, <3>2, <3>3
  <2>3. input.query = "q3" /\ sent'["client"] # {} => Closed("payment_format_reducer")'
    BY <1>1, <1>3, <1>6, JoinNames DEF Flows
  <2>4. QED
    BY <1>1, <1>2, <2>1, <2>2, <2>3 DEF Flows
<1>12. Memories'
  BY <1>1, <1>3 DEF Memories, Nodes
<1>13. Handled'
  <2>1. \A t \in Stages : t \in Receivers
    BY Names
  <2>2. \A t \in Stages : \A k : Owed(t, k) \subseteq Owed(t, k)'
    BY <1>5, <2>1 DEF Owed
  <2>3. ASSUME NEW t \in Stages, NEW k \in Nodes(t), NEW d \in seen[t][k]
        PROVE  d \in {m.id : m \in Owed(t, k)'}
    <3>1. PICK m \in Owed(t, k) : m.id = d
      BY <1>3 DEF Handled
    <3>2. QED
      BY <2>2, <3>1
  <2>4. QED
    BY <1>1, <2>3 DEF Handled, Nodes
<1>14. Closings'
  <2>1. ASSUME NEW p \in flushed' PROVE AllRead(p[1])'
    <3>1. p[1] \in Receivers /\ AllRead(p[1]) /\ (p[1] # c \/ s = "payment_format_reducer")
      BY <1>1, <1>9
    <3>2. sent'[p[1]] = sent[p[1]]
      BY <1>1, <3>1
    <3>3. QED
      BY <1>1, <3>1, <3>2 DEF AllRead
  <2>2. ASSUME NEW p \in flushed', NEW j \in DOMAIN MyRoute, MyRoute[j] = p[1], j > 1
        PROVE  \A t : t = MyRoute[j - 1] => Closed(t)'
    <3>1. CASE p \in flushed
      BY <1>3, <1>6, <2>2, <3>1 DEF Closings
    <3>2. CASE p[1] = s
      BY <1>4, <1>6, <2>2, <3>2
    <3>3. QED
      BY <1>1, <3>1, <3>2
  <2>3. QED
    BY <1>2, <2>1, <2>2 DEF Closings, Closed, Nodes
<1>15. QED
  BY <1>10, <1>11, <1>12, <1>13, <1>14 DEF Base

LEMMA RelayBase ==
  ASSUME Base, Relay
  PROVE  Base'
<1>1. PICK m \in sent[Joins[input.query]] :
        sent' = [sent EXCEPT !["client"] = @ \cup {Relayed(m)}]
  BY DEF Relay
<1>2. /\ HasJoin
      /\ input.query = "q3" => Closed("payment_format_reducer")
      /\ UNCHANGED <<input, seen, mem, flushed, rows, taken, expected>>
  BY DEF Relay, HasJoin
<1>3. MyRoute' = MyRoute /\ HasJoin' = HasJoin /\ \A d : Source(d)' = Source(d)
  BY <1>2, Constant
<1>4. Shapes /\ Flows /\ Memories /\ Handled /\ Closings
  BY DEF Base
<1>5. /\ sent'["client"] = sent["client"] \cup {Relayed(m)}
      /\ \A d \in Receivers : d # "client" => sent'[d] = sent[d]
      /\ sent' = [d \in Receivers |-> sent'[d]]
  BY <1>1, <1>4, Names DEF Shapes
<1>6. \A t \in Stages : t \in Receivers /\ t # "client"
  BY Names
<1>7. \A t : Closed(t)' <=> Closed(t)
  BY <1>2 DEF Closed, Nodes
<1>8. Shapes'
  BY <1>2, <1>3, <1>4, <1>5 DEF Shapes, Nodes
<1>9. \A c : Flushed(c)' = Flushed(c)
  <2>1. \A t, k, d : Out(t, k, d)' = Out(t, k, d)
    BY <1>2 DEF Out
  <2>2. \A t, d : Feeds(t, d)' = Feeds(t, d)
    BY <1>2, Constant
  <2>3. QED
    BY <1>2, <2>1, <2>2 DEF Flushed
<1>10. Flows'
  <2>1. ASSUME NEW d \in Receivers, d # "client" \/ ~HasJoin
        PROVE  sent'[d] = Source(d)' \cup Flushed(d)'
    BY <1>2, <1>3, <1>4, <1>5, <1>9, <2>1 DEF Flows
  <2>2. \A y : Relayed(y)' = Relayed(y)
    BY <1>2, RelayedSame DEF HasJoin
  <2>3. ASSUME NEW x \in sent'["client"]
        PROVE  \E y \in sent'[Joins[input.query]] : x = Relayed(y)
    <3>1. sent'[Joins[input.query]] = sent[Joins[input.query]]
      BY <1>2, <1>4, <1>5, JoinNames
    <3>2. QED
      BY <1>2, <1>4, <1>5, <3>1 DEF Flows
  <2>4. QED
    BY <1>2, <1>3, <1>7, <2>1, <2>2, <2>3 DEF Flows
<1>11. Memories'
  BY <1>2, <1>4 DEF Memories, Nodes
<1>12. Handled'
  <2>1. \A t \in Stages : \A k : Owed(t, k)' = Owed(t, k)
    BY <1>5, <1>6 DEF Owed
  <2>2. QED
    BY <1>2, <1>4, <2>1 DEF Handled, Nodes
<1>13. Closings'
  <2>1. ASSUME NEW p \in flushed PROVE AllRead(p[1])'
    <3>1. AllRead(p[1]) /\ p[1] \in Stages
      BY <1>4, InputTyped, RouteSteps DEF Closings, Shapes
    <3>2. QED
      BY <1>2, <1>5, <1>6, <3>1 DEF AllRead
  <2>2. QED
    BY <1>2, <1>3, <1>4, <1>7, <2>1 DEF Closings
<1>14. QED
  BY <1>8, <1>10, <1>11, <1>12, <1>13 DEF Base

\* The client changes nothing that the stages have.
LEMMA SameBase ==
  ASSUME Base, UNCHANGED <<input, sent, seen, mem, flushed>>, expected' \in Nat \cup {None}
  PROVE  Base'
<1>1. /\ MyRoute' = MyRoute /\ HasJoin' = HasJoin /\ \A d : Source(d)' = Source(d)
      /\ \A t, d : Feeds(t, d)' = Feeds(t, d)
  BY Constant
<1>2. Shapes /\ Flows /\ Memories /\ Handled /\ Closings
  BY DEF Base
<1>3. \A c : Flushed(c)' = Flushed(c)
  <2>1. \A t, k, d : Out(t, k, d)' = Out(t, k, d)
    BY DEF Out
  <2>2. QED
    BY <1>1, <2>1 DEF Flushed
<1>4. \A t : Closed(t)' <=> Closed(t)
  BY DEF Closed, Nodes
<1>5. Shapes'
  BY <1>1, <1>2 DEF Shapes, Nodes
<1>6. Flows'
  <2>1. HasJoin => \A y : Relayed(y)' = Relayed(y)
    BY RelayedSame DEF HasJoin
  <2>2. QED
    BY <1>1, <1>2, <1>3, <1>4, <2>1 DEF Flows
<1>7. Memories' /\ Handled' /\ Closings'
  <2>1. \A t, k : Owed(t, k)' = Owed(t, k)
    BY DEF Owed
  <2>2. \A t : AllRead(t)' <=> AllRead(t)
    BY DEF AllRead
  <2>3. QED
    BY <1>1, <1>2, <1>4, <2>1, <2>2 DEF Memories, Handled, Closings, Nodes
<1>8. QED
  BY <1>5, <1>6, <1>7 DEF Base

LEMMA EndCountTyped ==
  ASSUME Base
  PROVE  EndCount(input.query) \in Nat
<1>1. /\ input.query \in Queries /\ Len(input.batches) \in Nat
  BY InputTyped DEF Base, Shapes
<1>2. IsFiniteSet(sent["bank_mapper"]) /\ IsFiniteSet(sent["client"])
  BY Names, AllDelivered DEF Base, Delivered
<1>3. Cardinality(sent["bank_mapper"]) \in Nat /\ Cardinality(sent["client"]) \in Nat
  BY <1>2, FS_CardinalityType
<1>4. QED
  BY <1>1, <1>3 DEF EndCount

LEMMA InitBase ==
  ASSUME Init
  PROVE  Base
<1>1. input.query \in Queries
  BY InputTyped DEF Init
<1>2. \A c : Flushed(c) = {}
  BY DEF Init, Flushed
<1>3. \A c \in Receivers : sent[c] = Source(c)
  BY DEF Init, Source
<1>4. \A s \in Stages : \A n \in Nodes(s) : seen[s][n] = {} /\ mem[s][n] = Initially(s)
  BY DEF Init, Nodes
<1>5. Shapes
  <2>1. sent = [c \in Receivers |-> sent[c]]
    BY DEF Init
  <2>2. /\ seen = [s \in Stages |-> [n \in Nodes(s) |-> seen[s][n]]]
        /\ mem = [s \in Stages |-> [n \in Nodes(s) |-> mem[s][n]]]
    BY DEF Init, Nodes
  <2>3. QED
    BY <2>1, <2>2 DEF Init, Shapes
<1>6. Flows
  <2>1. HasJoin => sent["client"] = {}
    <3>1. HasJoin => \A b \in DOMAIN input.batches :
                       SourceMessages(input.query, "client", b, input.batches[b]) = {}
      BY <1>5, JoinNames DEF SourceMessages
    <3>2. HasJoin => Source("client") = {}
      BY <3>1 DEF Source
    <3>3. QED
      BY <1>3, <3>2, Names
  <2>2. input.query = "q3" => HasJoin
    BY <1>5, JoinNames
  <2>3. QED
    BY <1>2, <1>3, <2>1, <2>2 DEF Flows
<1>7. Memories
  <2>1. ASSUME NEW s \in Stages
        PROVE  IsFiniteSet(Initially(s)) /\ \A x \in Initially(s) : Kept(s, x)
    <3>1. CASE s \in Counters
      <4>1. Initially(s) = {0}
        BY <3>1 DEF Initially
      <4>2. \A x : Kept(s, x)
        BY <3>1 DEF Counters, Kept
      <4>3. QED
        BY <4>1, <4>2, FS_Singleton
    <3>2. CASE s \notin Counters
      BY <3>2, FS_EmptySet DEF Initially
    <3>3. QED
      BY <3>1, <3>2
  <2>2. QED
    BY <1>4, <2>1 DEF Memories
<1>8. Handled /\ Closings
  BY <1>4 DEF Handled, Closings, Init
<1>9. QED
  BY <1>5, <1>6, <1>7, <1>8 DEF Base

LEMMA NextBase ==
  ASSUME Base, [Next]_vars
  PROVE  Base'
<1>1. ASSUME NEW s \in Stages, Take(s) PROVE Base'
  BY <1>1, TakeBase
<1>2. ASSUME NEW i \in DOMAIN MyRoute, NEW n \in Nodes(MyRoute[i]), Flush(i, n) PROVE Base'
  BY <1>2, FlushBase
<1>3. CASE Relay
  BY <1>3, RelayBase
<1>4. expected \in Nat \cup {None} /\ EndCount(input.query) \in Nat
  BY EndCountTyped DEF Base, Shapes
<1>5. CASE HandleQueryEnd
  <2>1. UNCHANGED <<input, sent, seen, mem, flushed>> /\ expected' \in Nat \cup {None}
    BY <1>4, <1>5 DEF HandleQueryEnd
  <2>2. QED
    BY <2>1, SameBase
<1>6. CASE HandleQueryResult
  <2>1. UNCHANGED <<input, sent, seen, mem, flushed>> /\ expected' \in Nat \cup {None}
    BY <1>4, <1>6 DEF HandleQueryResult
  <2>2. QED
    BY <2>1, SameBase
<1>7. CASE UNCHANGED vars
  <2>1. UNCHANGED <<input, sent, seen, mem, flushed>> /\ expected' \in Nat \cup {None}
    BY <1>4, <1>7 DEF vars
  <2>2. QED
    BY <2>1, SameBase
<1>8. QED
  BY <1>1, <1>2, <1>3, <1>5, <1>6, <1>7 DEF Next

\* What is sent stays sent.
LEMMA SentGrows ==
  ASSUME Base, [Next]_vars
  PROVE  input' = input /\ \A d \in Receivers : sent[d] \subseteq sent'[d]
<1>1. "client" \in Receivers /\ sent = [d \in Receivers |-> sent[d]]
  BY Names DEF Base, Shapes
<1>2. ASSUME NEW s \in Stages, Take(s)
      PROVE  input' = input /\ \A d \in Receivers : sent[d] \subseteq sent'[d]
  BY <1>2 DEF Take
<1>3. ASSUME NEW i \in DOMAIN MyRoute, NEW n \in Nodes(MyRoute[i]), Flush(i, n)
      PROVE  input' = input /\ \A d \in Receivers : sent[d] \subseteq sent'[d]
  <2> DEFINE s == MyRoute[i]
             c == Consumer(i)
  <2>1. /\ s = "payment_format_reducer" => sent' = sent
        /\ s # "payment_format_reducer" => sent'[c] = sent[c] \cup Out(s, n, c)
        /\ \A d \in Receivers : d # c \/ s = "payment_format_reducer" => sent'[d] = sent[d]
    BY <1>3, FlushSends
  <2>2. input' = input
    BY <1>3 DEF Flush
  <2> HIDE DEF s, c
  <2>3. QED
    BY <1>1, <2>1, <2>2
<1>4. CASE Relay
  <2>1. PICK m \in sent[Joins[input.query]] :
          sent' = [sent EXCEPT !["client"] = @ \cup {Relayed(m)}]
    BY <1>4 DEF Relay
  <2>2. QED
    BY <1>1, <1>4, <2>1 DEF Relay
<1>5. CASE HandleQueryEnd \/ HandleQueryResult \/ UNCHANGED vars
  BY <1>5 DEF HandleQueryEnd, HandleQueryResult, vars
<1>6. QED
  BY <1>2, <1>3, <1>4, <1>5 DEF Next

TakenWasSent == taken \subseteq {m.id : m \in sent["client"]}

LEMMA NextTaken ==
  ASSUME Base, TakenWasSent, [Next]_vars
  PROVE  TakenWasSent'
<1>1. sent["client"] \subseteq sent'["client"]
  BY Names, SentGrows
<1>2. taken' = taken \/ \E m \in sent["client"] : taken' = taken \cup {m.id}
  BY DEF Next, Take, Flush, Relay, HandleQueryEnd, HandleQueryResult, vars
<1>3. QED
  BY <1>1, <1>2 DEF TakenWasSent

LEMMA BaseIsInvariant == Spec => [](Base /\ TakenWasSent)
<1>1. Init => Base /\ TakenWasSent
  BY InitBase DEF Init, TakenWasSent
<1>2. Base /\ TakenWasSent /\ [Next]_vars => (Base /\ TakenWasSent)'
  BY NextBase, NextTaken
<1>3. QED
  BY <1>1, <1>2, PTL DEF Spec

\* Where the flush of each stage goes is a stage of the query, or its join.
LEMMA StagesOfTheQuery ==
  ASSUME Base, NEW c \in Receivers, c \notin MyStages(input.query)
  PROVE  sent[c] = {}
<1>1. input.query \in Queries
  BY InputTyped DEF Base, Shapes
<1>2. c # "client" /\ Source(c) = {}
  BY DEF MyStages, Source
<1>3. \A i \in DOMAIN MyRoute : MyRoute[i] # c
  BY DEF MyStages, MyRoute
<1>4. input.query = "q2" => c # "bank_mapper"
  BY Names DEF MyStages
<1>5. \A i \in DOMAIN MyRoute : Consumer(i) # c
  BY <1>1, <1>2, <1>3, <1>4, Names, Routes
<1>6. Flushed(c) = {}
  BY <1>5, FlushedNone
<1>7. QED
  BY <1>2, <1>6 DEF Base, Flows

LEMMA BaseTyped ==
  ASSUME Base, TakenWasSent
  PROVE  TypeOK
<1>1. Shapes /\ Handled
  BY DEF Base
<1>2. ASSUME NEW s \in Receivers, NEW m \in sent[s]
      PROVE  m.node \in Nodes(s) /\ s \in MyStages(input.query)
  BY AllDelivered, StagesOfTheQuery DEF Base, Delivered
<1>3. ASSUME NEW s \in Stages PROVE DOMAIN seen[s] = Nodes(s) /\ DOMAIN mem[s] = Nodes(s)
  BY <1>1 DEF Shapes
<1>4. ASSUME NEW s \in Stages, NEW n \in Nodes(s)
      PROVE  seen[s][n] \subseteq {m.id : m \in sent[s]}
  BY <1>1 DEF Handled, Owed
<1>5. ASSUME NEW p \in flushed PROVE p \in {x \in Stages \X Nat : x[2] \in Nodes(x[1])}
  <2>1. p = <<p[1], p[2]>> /\ p[2] \in Nodes(p[1]) /\ p[1] \in Stages
    BY <1>1, InputTyped, RouteSteps DEF Shapes
  <2>2. p[2] \in Nat
    BY <2>1, Names, ReplicasOf
  <2>3. QED
    BY <2>1, <2>2
<1>6. QED
  BY <1>1, <1>2, <1>3, <1>4, <1>5 DEF TypeOK, TakenWasSent, Shapes

-----------------------------------------------------------------------------
(* Contents is inductive *)

LEMMA ItemsFinite ==
  ASSUME Base, NEW s \in Receivers, NEW R, R \subseteq sent[s]
  PROVE  /\ IsFiniteSet(R) /\ IsFiniteSet(ItemsOf(R)) /\ \A x \in ItemsOf(R) : Carried(s, x)
<1> DEFINE F == {m.items : m \in R}
           f == [m \in R |-> m.items]
<1>1. Delivered(s)
  BY AllDelivered DEF Base
<1>2. IsFiniteSet(R)
  BY <1>1, FS_Subset DEF Delivered
<1>3. f \in Surjection(R, F)
  BY DEF Surjection
<1> HIDE DEF f
<1>4. IsFiniteSet(F)
  BY <1>2, <1>3, FS_Surjection
<1>5. \A T \in F : IsFiniteSet(T)
  BY <1>1 DEF Delivered
<1>6. IsFiniteSet(UNION F)
  BY <1>4, <1>5, FS_UNION
<1>7. \A x \in UNION F : Carried(s, x)
  BY <1>1 DEF Delivered
<1>8. QED
  BY <1>2, <1>6, <1>7 DEF ItemsOf

LEMMA ReadTyped ==
  ASSUME Base, NEW s \in Stages, NEW n \in Nodes(s)
  PROVE  /\ s \in Receivers /\ s # "client" /\ Read(s, n) \subseteq sent[s]
         /\ IsFiniteSet(ItemsOf(Read(s, n))) /\ \A x \in ItemsOf(Read(s, n)) : Carried(s, x)
<1>1. s \in Receivers /\ s # "client" /\ Read(s, n) \subseteq sent[s]
  BY Names DEF Read, Owed
<1>2. QED
  BY <1>1, ItemsFinite

\* A replica that takes m has read m and what it had read before.
LEMMA TakeReads ==
  ASSUME Base, NEW s \in Stages, NEW m \in sent[s], m.id \notin seen[s][m.node],
         sent' = sent, seen' = [seen EXCEPT ![s][m.node] = @ \cup {m.id}]
  PROVE  /\ m.node \in Nodes(s) /\ m \notin Read(s, m.node)
         /\ Read(s, m.node)' = Read(s, m.node) \cup {m}
         /\ ItemsOf(Read(s, m.node))' = ItemsOf(Read(s, m.node)) \cup m.items
         /\ \A t \in Stages : \A k \in Nodes(t) :
              ~(t = s /\ k = m.node) => Read(t, k)' = Read(t, k)
<1>1. s \in Receivers /\ s # "client"
  BY Names
<1>2. Delivered(s)
  BY <1>1, AllDelivered DEF Base
<1>3. m.node \in Nodes(s) /\ \A x \in sent[s] : x.node = m.node /\ x.id = m.id => x = m
  BY <1>1, <1>2 DEF Delivered
<1>4. seen = [t \in Stages |-> [k \in Nodes(t) |-> seen[t][k]]]
  BY DEF Base, Shapes
<1>5. /\ seen'[s][m.node] = seen[s][m.node] \cup {m.id}
      /\ \A t \in Stages : \A k \in Nodes(t) :
           ~(t = s /\ k = m.node) => seen'[t][k] = seen[t][k]
  BY <1>3, <1>4
<1>6. Read(s, m.node)' = Read(s, m.node) \cup {m}
  <2>1. \A x : x \in Read(s, m.node)' <=>
                 /\ x \in sent[s] /\ x.node = m.node
                 /\ x.id \in seen[s][m.node] \/ x.id = m.id
    BY <1>5 DEF Read, Owed
  <2>2. \A x : x \in Read(s, m.node) <=>
                 x \in sent[s] /\ x.node = m.node /\ x.id \in seen[s][m.node]
    BY DEF Read, Owed
  <2>3. QED
    BY <1>3, <2>1, <2>2
<1>7. m \notin Read(s, m.node)
  BY DEF Read
<1>8. ItemsOf(Read(s, m.node))' = ItemsOf(Read(s, m.node)) \cup m.items
  BY <1>6 DEF ItemsOf
<1>9. ASSUME NEW t \in Stages, NEW k \in Nodes(t), ~(t = s /\ k = m.node)
      PROVE  Read(t, k)' = Read(t, k)
  BY <1>5, <1>9 DEF Read, Owed
<1>10. QED
  BY <1>3, <1>6, <1>7, <1>8, <1>9

\* The best of two parts, each by its own best.
LEMMA BestOfUnion ==
  ASSUME NEW A, A \subseteq BankItems, IsFiniteSet(A),
         NEW B, B \subseteq BankItems, IsFiniteSet(B)
  PROVE  BestOfBanks(BestOfBanks(A) \cup BestOfBanks(B)) = BestOfBanks(A \cup B)
<1> DEFINE T == BestOfBanks(A) \cup BestOfBanks(B)
<1>1. T \subseteq A \cup B
  BY BestIn
<1>2. ASSUME NEW x \in A \cup B PROVE Covers(T, x)
  <2>1. Covers(BestOfBanks(A), x) \/ Covers(BestOfBanks(B), x)
    BY BestCovers
  <2>2. QED
    BY <2>1 DEF Covers
<1> HIDE DEF T
<1>3. A \cup B \subseteq BankItems
  OBVIOUS
<1>4. BestOfBanks(T) = BestOfBanks(A \cup B)
  BY <1>1, <1>2, <1>3, BestOfPart
<1>5. QED
  BY <1>4 DEF T

LEMMA CardinalityOfParts ==
  ASSUME NEW A, IsFiniteSet(A), NEW B, IsFiniteSet(B), A \cap B = {}
  PROVE  /\ Cardinality(A) \in Nat /\ Cardinality(B) \in Nat
         /\ Cardinality(A \cup B) = Cardinality(A) + Cardinality(B)
<1>1. Cardinality(A \cup B) = Cardinality(A) + Cardinality(B) - Cardinality(A \cap B)
  BY FS_Union
<1>2. Cardinality(A \cap B) = 0
  BY FS_EmptySet
<1>3. Cardinality(A) \in Nat /\ Cardinality(B) \in Nat
  BY FS_CardinalityType
<1>4. QED
  BY <1>1, <1>2, <1>3

LEMMA LowAmountsOfUnion ==
  ASSUME NEW A, IsFiniteSet(A), NEW B, IsFiniteSet(B), A \cap B = {}
  PROVE  /\ Cardinality(LowAmounts(A)) \in Nat /\ Cardinality(LowAmounts(B)) \in Nat
         /\ Cardinality(LowAmounts(A \cup B))
              = Cardinality(LowAmounts(A)) + Cardinality(LowAmounts(B))
<1>1. /\ LowAmounts(A) \subseteq A /\ LowAmounts(B) \subseteq B
      /\ LowAmounts(A \cup B) = LowAmounts(A) \cup LowAmounts(B)
  BY DEF LowAmounts, Payments
<1>2. IsFiniteSet(LowAmounts(A)) /\ IsFiniteSet(LowAmounts(B))
  BY <1>1, FS_Subset
<1>3. LowAmounts(A) \cap LowAmounts(B) = {}
  BY <1>1
<1>4. QED
  BY <1>1, <1>2, <1>3, CardinalityOfParts

\* No stage flushes to one that the front feeds.
LEMMA FrontStages ==
  ASSUME Base, NEW c \in {"bank_max_aggregator", "payment_format_aggregator",
                          "account_frequency_filter", "low_amount_aggregator",
                          "anomaly_filter"}
  PROVE  c \in Receivers /\ sent[c] = Source(c) /\ Flushed(c) = {}
<1>1. input.query \in Queries
  BY InputTyped DEF Base, Shapes
<1>2. \A i \in DOMAIN MyRoute : Consumer(i) # c
  BY <1>1, Names, Routes
<1>3. Flushed(c) = {}
  BY <1>2, FlushedNone
<1>4. c \in Receivers /\ c # "client"
  BY Names
<1>5. QED
  BY <1>3, <1>4 DEF Base, Flows

\* One message for each batch, with transactions of that batch.
LEMMA LowAmountMessages ==
  ASSUME Base, NEW m \in sent["low_amount_aggregator"], NEW x \in sent["low_amount_aggregator"],
         m # x
  PROVE  m.items \cap x.items = {}
<1> DEFINE c == "low_amount_aggregator"
           Of(b) == SourceMessages(input.query, c, b, input.batches[b])
<1>1. input \in Inputs /\ c \in Receivers /\ m \in Source(c) /\ x \in Source(c)
  BY FrontStages DEF Base, Shapes
<1>2. PICK b \in DOMAIN input.batches : m \in Of(b)
  BY <1>1, SourceAre
<1>3. PICK d \in DOMAIN input.batches : x \in Of(d)
  BY <1>1, SourceAre
<1>4. \A k : Of(k) = {Message(ShardOf(k, Replicas[c]), RootId(k), Payments(input.batches[k]))}
  BY DEF SourceMessages
<1> HIDE DEF Of
<1>5. /\ m = Message(ShardOf(b, Replicas[c]), RootId(b), Payments(input.batches[b]))
      /\ x = Message(ShardOf(d, Replicas[c]), RootId(d), Payments(input.batches[d]))
  BY <1>2, <1>3, <1>4
<1>6. b # d
  BY <1>5
<1>7. m.items \subseteq input.batches[b] /\ x.items \subseteq input.batches[d]
  BY <1>5, MessageFields DEF Payments
<1>8. input.batches[b] \cap input.batches[d] = {}
  BY <1>1, <1>6, InputTyped
<1>9. QED
  BY <1>7, <1>8

LEMMA LowAmountsDisjoint ==
  ASSUME Base, NEW R, R \subseteq sent["low_amount_aggregator"],
         NEW Q, Q \subseteq sent["low_amount_aggregator"], R \cap Q = {}
  PROVE  /\ IsFiniteSet(ItemsOf(R)) /\ IsFiniteSet(ItemsOf(Q))
         /\ ItemsOf(R \cup Q) = ItemsOf(R) \cup ItemsOf(Q)
         /\ Cardinality(LowAmounts(ItemsOf(R))) \in Nat
         /\ Cardinality(LowAmounts(ItemsOf(Q))) \in Nat
         /\ Cardinality(LowAmounts(ItemsOf(R \cup Q)))
              = Cardinality(LowAmounts(ItemsOf(R))) + Cardinality(LowAmounts(ItemsOf(Q)))
<1>1. IsFiniteSet(ItemsOf(R)) /\ IsFiniteSet(ItemsOf(Q))
  BY Names, ItemsFinite
<1>2. ItemsOf(R \cup Q) = ItemsOf(R) \cup ItemsOf(Q)
  BY DEF ItemsOf
<1>3. ItemsOf(R) \cap ItemsOf(Q) = {}
  <2>1. ASSUME NEW t \in ItemsOf(R), t \in ItemsOf(Q) PROVE FALSE
    <3>1. PICK m \in R : t \in m.items
      BY DEF ItemsOf
    <3>2. PICK x \in Q : t \in x.items
      BY <2>1 DEF ItemsOf
    <3>3. m # x
      OBVIOUS
    <3>4. m.items \cap x.items = {}
      BY <3>3, LowAmountMessages
    <3>5. QED
      BY <3>1, <3>2, <3>4
  <2>2. QED
    BY <2>1
<1>4. QED
  BY <1>1, <1>2, <1>3, LowAmountsOfUnion

\* A state of one item whose key is 0 is flushed in one message, to the first
\* replica.
LEMMA OneFlush ==
  ASSUME NEW s, NEW n, NEW x, FlushKey(s, x) = 0, NEW r \in Nat \ {0}
  PROVE  FlushSharded(s, n, {x}, r) = {Message(0, FlushId(n, 0), {x})}
<1>1. ShardOf(0, r) = 0 /\ 0 \div r = 0 /\ 0 % 1 = 0
  BY DEF ShardOf
<1>2. Shard(s, {x}, r, 0) = {x}
  BY <1>1 DEF Shard
<1>3. Buckets(s, {x}, r, 0) = 1
  <2>1. BatchSize \in Nat \ {0}
    BY StagesAssumption
  <2>2. Cardinality(Shard(s, {x}, r, 0)) = 1
    BY <1>2, FS_Singleton
  <2>3. (1 + BatchSize - 1) \div BatchSize = 1
    <3>1. 1 + BatchSize - 1 = BatchSize
      BY <2>1
    <3>2. BatchSize \div BatchSize = 1
      BY <2>1
    <3>3. QED
      BY <3>1, <3>2
  <2>4. Max({1, 1}) = 1
    BY DEF Max
  <2>5. QED
    BY <2>2, <2>3, <2>4 DEF Buckets
<1>4. Cell(s, {x}, r, 0, 0) = {x}
  BY <1>1, <1>2, <1>3 DEF Cell
<1>5. {ShardOf(FlushKey(s, i), r) : i \in {x}} = {0}
  BY <1>1
<1>6. \A m : m \in FlushSharded(s, n, {x}, r) <=> m = Message(0, FlushId(n, 0), {x})
  <2> TAKE m
  <2>1. m \in FlushSharded(s, n, {x}, r)
          <=> /\ \E b \in 0 .. 0 : m = Message(0, FlushId(n, b), Cell(s, {x}, r, 0, b))
              /\ m.items # {}
    BY <1>3, <1>5, FlushedAre
  <2>2. \A b \in 0 .. 0 : b = 0
    OBVIOUS
  <2>3. m = Message(0, FlushId(n, 0), {x}) => m.items # {}
    BY MessageFields
  <2>4. QED
    BY <1>4, <2>1, <2>2, <2>3
<1>7. QED
  BY <1>6

\* What the replicas of the low_amount_aggregator have sent.
LEMMA LowAmountCounts ==
  ASSUME Base, Contents
  PROVE  /\ \A k \in Nodes("low_amount_aggregator") :
              AllRead("low_amount_aggregator") =>
                mem["low_amount_aggregator"][k] =
                  {Cardinality(LowAmounts(ItemsOf(Owed("low_amount_aggregator", k))))}
         /\ \A x : x \in sent["low_amount_reducer"] <=>
              /\ input.query = "q5"
              /\ \E k \in Nodes("low_amount_aggregator") :
                   /\ <<"low_amount_aggregator", k>> \in flushed
                   /\ AllRead("low_amount_aggregator")
                   /\ x = Message(0, FlushId(k, 0),
                            {Cardinality(LowAmounts(ItemsOf(Owed("low_amount_aggregator", k))))})
<1> DEFINE a == "low_amount_aggregator"
           c == "low_amount_reducer"
           Count(k) == Cardinality(LowAmounts(ItemsOf(Owed(a, k))))
<1>1. ASSUME NEW k \in Nodes(a), AllRead(a)
      PROVE  mem[a][k] = {Count(k)}
  <2>1. Read(a, k) = Owed(a, k)
    BY <1>1 DEF Read, Owed, AllRead
  <2>2. QED
    BY <2>1 DEF Contents
<1>2. \A k \in Nodes(a) : <<a, k>> \in flushed => AllRead(a)
  <2>1. ASSUME NEW k \in Nodes(a), <<a, k>> \in flushed PROVE AllRead(a)
    <3> DEFINE p == <<a, k>>
    <3>1. AllRead(p[1])
      BY <2>1 DEF Base, Closings
    <3>2. QED
      BY <3>1
  <2>2. QED
    BY <2>1
<1>3. sent[c] = Flushed(c)
  <2>1. Source(c) = {}
    <3>1. \A b \in DOMAIN input.batches :
            SourceMessages(input.query, c, b, input.batches[b]) = {}
      BY DEF SourceMessages
    <3>2. QED
      BY <3>1 DEF Source
  <2>2. c \in Receivers /\ c # "client"
    BY Names
  <2>3. sent[c] = Source(c) \cup Flushed(c)
    BY <2>2 DEF Base, Flows
  <2>4. QED
    BY <2>1, <2>3
<1>4. input.query \in Queries /\ Shapes
  BY InputTyped DEF Base, Shapes
<1>5. CASE input.query # "q5"
  <2>1. \A i \in DOMAIN MyRoute : Consumer(i) # c
    BY <1>4, <1>5, Names, Routes
  <2>2. Flushed(c) = {}
    BY <2>1, FlushedNone
  <2>3. QED
    BY <1>1, <1>3, <1>5, <2>2
<1>6. CASE input.query = "q5"
  <2>1. 1 \in DOMAIN MyRoute /\ MyRoute[1] = a /\ Consumer(1) = c
    BY <1>6, Routes
  <2>2. \A x : x \in Flushed(c) <=>
                 \E k \in Nodes(a) : <<a, k>> \in flushed /\ x \in Out(a, k, c)
    BY <1>4, <2>1, FlushedOf
  <2>3. ASSUME NEW k \in Nodes(a), <<a, k>> \in flushed
        PROVE  Out(a, k, c) = {Message(0, FlushId(k, 0), {Count(k)})}
    <3>1. FlushData(a, mem[a][k]) = {Count(k)}
      BY <1>1, <1>2, <2>3 DEF FlushData
    <3> HIDE DEF Count
    <3>2. FlushKey(a, Count(k)) = 0
      BY KeyTyped
    <3>3. c \in Receivers
      BY Names
    <3>4. Replicas[c] \in Nat \ {0}
      BY <3>3, ReplicasOf
    <3>5. QED
      BY <3>1, <3>2, <3>4, OneFlush DEF Out
  <2> HIDE DEF Count
  <2>4. \A x : x \in sent[c] <=>
                 \E k \in Nodes(a) : /\ <<a, k>> \in flushed /\ AllRead(a)
                                     /\ x = Message(0, FlushId(k, 0), {Count(k)})
    <3> DEFINE M(k) == Message(0, FlushId(k, 0), {Count(k)})
               F(k) == <<a, k>> \in flushed
    <3>1. \A k \in Nodes(a) : F(k) => Out(a, k, c) = {M(k)}
      BY <2>3
    <3>2. \A k \in Nodes(a) : F(k) => AllRead(a)
      BY <1>2
    <3>3. \A x : x \in sent[c] <=> \E k \in Nodes(a) : F(k) /\ x \in Out(a, k, c)
      BY <1>3, <2>2
    <3> HIDE DEF M, F
    <3>4. \A x : x \in sent[c] <=> \E k \in Nodes(a) : F(k) /\ AllRead(a) /\ x = M(k)
      BY <3>1, <3>2, <3>3
    <3>5. QED
      BY <3>4 DEF M, F
  <2>5. QED
    BY <1>1, <1>6, <2>4 DEF Count
<1>7. QED
  BY <1>5, <1>6

\* The reducer adds the count of one replica: that of the messages it counted.
LEMMA TakeLowAmounts ==
  ASSUME Base, Contents, NEW m \in sent["low_amount_reducer"],
         m.id \notin seen["low_amount_reducer"][m.node],
         input' = input, sent' = sent,
         seen' = [seen EXCEPT !["low_amount_reducer"][m.node] = @ \cup {m.id}],
         mem' = [mem EXCEPT !["low_amount_reducer"][m.node] =
                              Merge("low_amount_reducer", @, m.items)]
  PROVE  /\ mem'["low_amount_reducer"][m.node] =
              {Cardinality(LowAmounts(ItemsOf(Added(m.node)')))}
         /\ \A n \in Nodes("low_amount_reducer") : n # m.node =>
              /\ mem'["low_amount_reducer"][n] = mem["low_amount_reducer"][n]
              /\ Added(n)' = Added(n)
<1> DEFINE a == "low_amount_aggregator"
           c == "low_amount_reducer"
           n == m.node
<1>1. PICK k \in Nodes(a) :
        /\ AllRead(a)
        /\ m = Message(0, FlushId(k, 0), {Cardinality(LowAmounts(ItemsOf(Owed(a, k))))})
  BY LowAmountCounts
<1>2. m.node = 0 /\ m.id = <<k, 0>>
      /\ m.items = {Cardinality(LowAmounts(ItemsOf(Owed(a, k))))}
  BY <1>1, MessageFields DEF FlushId
<1>3. /\ seen = [t \in Stages |-> [j \in Nodes(t) |-> seen[t][j]]]
      /\ mem = [t \in Stages |-> [j \in Nodes(t) |-> mem[t][j]]]
  BY DEF Base, Shapes
<1>4. c \in Stages /\ c \in Receivers /\ n \in Nodes(c)
  BY <1>2, Names, ReplicasOf
<1>5. /\ seen'[c][n] = seen[c][n] \cup {<<k, 0>>}
      /\ mem'[c][n] = Merge(c, mem[c][n], m.items)
      /\ \A j \in Nodes(c) : j # n => seen'[c][j] = seen[c][j] /\ mem'[c][j] = mem[c][j]
  BY <1>2, <1>3, <1>4
<1>6. Added(n)' = Added(n) \cup Owed(a, k)
  <2>1. \A x : x \in Added(n)' <=>
                 x \in sent[a] /\ <<x.node, 0>> \in seen[c][n] \cup {<<k, 0>>}
    BY <1>5 DEF Added
  <2>2. \A x : <<x.node, 0>> = <<k, 0>> <=> x.node = k
    OBVIOUS
  <2>3. QED
    BY <2>1, <2>2 DEF Added, Owed
<1>7. Added(n) \cap Owed(a, k) = {} /\ Added(n) \subseteq sent[a] /\ Owed(a, k) \subseteq sent[a]
  BY <1>2 DEF Added, Owed
<1> DEFINE A == Added(n)
           O == Owed(a, k)
           CountA == Cardinality(LowAmounts(ItemsOf(A)))
           CountO == Cardinality(LowAmounts(ItemsOf(O)))
<1>8. Cardinality(LowAmounts(ItemsOf(A \cup O))) = CountA + CountO
  BY <1>7, LowAmountsDisjoint
<1>9. mem[c][n] = {CountA}
  BY <1>4 DEF Contents
<1> DEFINE Plus(S, T) == {x + y : x \in S, y \in T}
<1>10. Merge(c, mem[c][n], m.items) = Plus(mem[c][n], m.items)
  BY DEF Merge
<1>11. mem'[c][n] = {CountA + CountO}
  <2>1. m.items = {CountO}
    BY <1>2
  <2> HIDE DEF CountA, CountO, c, n
  <2>2. Plus({CountA}, {CountO}) = {CountA + CountO}
    OBVIOUS
  <2> HIDE DEF Plus
  <2>3. mem'[c][n] = Plus({CountA}, {CountO})
    BY <1>5, <1>9, <1>10, <2>1
  <2>4. QED
    BY <2>2, <2>3
<1>12. mem'[c][n] = {Cardinality(LowAmounts(ItemsOf(Added(n)')))}
  BY <1>6, <1>8, <1>11
<1>13. ASSUME NEW j \in Nodes(c), j # n PROVE Added(j)' = Added(j)
  BY <1>5, <1>13 DEF Added
<1>14. QED
  BY <1>5, <1>12, <1>13

LEMMA BankItemsOfUnion ==
  ASSUME NEW A, NEW B
  PROVE  BankItemsOf(A \cup B) = BankItemsOf(A) \cup BankItemsOf(B)
BY DEF BankItemsOf

LEMMA TakeContents ==
  ASSUME Base, Contents, NEW s \in Stages, Take(s)
  PROVE  Contents'
<1>1. PICK m \in sent[s] :
        /\ m.id \notin seen[s][m.node]
        /\ seen' = [seen EXCEPT ![s][m.node] = @ \cup {m.id}]
        /\ mem' = [mem EXCEPT ![s][m.node] = Merge(s, @, m.items)]
        /\ UNCHANGED <<input, sent, flushed, rows, taken, expected>>
  BY DEF Take
<1> DEFINE n == m.node
           I == ItemsOf(Read(s, n))
<1>2. input' = input /\ sent' = sent
  BY <1>1
<1>3. /\ n \in Nodes(s) /\ n \notin {} /\ m \notin Read(s, n)
      /\ Read(s, n)' = Read(s, n) \cup {m}
      /\ ItemsOf(Read(s, n))' = I \cup m.items
      /\ \A t \in Stages : \A k \in Nodes(t) : ~(t = s /\ k = n) => Read(t, k)' = Read(t, k)
  BY <1>1, <1>2, TakeReads
<1>4. mem = [t \in Stages |-> [k \in Nodes(t) |-> mem[t][k]]]
  BY DEF Base, Shapes
<1>5. /\ mem'[s][n] = Merge(s, mem[s][n], m.items)
      /\ \A t \in Stages : \A k \in Nodes(t) : ~(t = s /\ k = n) => mem'[t][k] = mem[t][k]
  BY <1>1, <1>3, <1>4
<1>6. s \in Receivers /\ Read(s, n) \subseteq sent[s] /\ IsFiniteSet(I)
      /\ \A x \in I : Carried(s, x)
  BY <1>3, ReadTyped
<1>7. IsFiniteSet(m.items) /\ \A x \in m.items : Carried(s, x)
  BY <1>6, AllDelivered DEF Base, Delivered
<1> HIDE DEF n
<1>8. ASSUME NEW t \in Unions, NEW k \in Nodes(t)
      PROVE  mem'[t][k] = ItemsOf(Read(t, k)')
  <2>1. t \in Stages /\ mem[t][k] = ItemsOf(Read(t, k))
    BY Names DEF Contents, Unions
  <2>2. CASE t = s /\ k = n
    <3>1. Merge(s, mem[s][n], m.items) = mem[s][n] \cup m.items
      BY <2>2 DEF Merge, Unions
    <3>2. ItemsOf(Read(s, n)') = I \cup m.items
      BY <1>3 DEF ItemsOf
    <3>3. QED
      BY <1>5, <2>1, <2>2, <3>1, <3>2
  <2>3. CASE ~(t = s /\ k = n)
    <3>1. Read(t, k)' = Read(t, k) /\ mem'[t][k] = mem[t][k]
      BY <1>3, <1>5, <2>1, <2>3
    <3>2. QED
      BY <2>1, <3>1
  <2>4. QED
    BY <2>2, <2>3
<1>9. ASSUME NEW k \in Nodes("bank_max_aggregator")
      PROVE  mem'["bank_max_aggregator"][k] =
               BestOfBanks(BankItemsOf(ItemsOf(Read("bank_max_aggregator", k)')))
  <2> DEFINE t == "bank_max_aggregator"
  <2>1. t \in Stages /\ mem[t][k] = BestOfBanks(BankItemsOf(ItemsOf(Read(t, k))))
    BY Names DEF Contents
  <2>2. CASE t = s /\ k = n
    <3>1. mem'[s][n] = BestOfBanks(mem[s][n] \cup BankMaxima(m.items))
      BY <1>5, <2>2 DEF Merge
    <3>2. ItemsOf(Read(s, n)') = I \cup m.items
      BY <1>3 DEF ItemsOf
    <3>3. I \subseteq Transactions /\ m.items \subseteq Transactions
      BY <1>6, <1>7, <2>2 DEF Carried
    <3>4. /\ BankItemsOf(I) \subseteq BankItems /\ IsFiniteSet(BankItemsOf(I))
          /\ BankItemsOf(m.items) \subseteq BankItems /\ IsFiniteSet(BankItemsOf(m.items))
          /\ BankMaxima(m.items) = BestOfBanks(BankItemsOf(m.items))
      BY <1>6, <1>7, <3>3, BankMaximaTyped
    <3>5. mem[s][n] = BestOfBanks(BankItemsOf(I))
      BY <2>1, <2>2
    <3> HIDE DEF I
    <3>6. mem'[s][n] = BestOfBanks(BankItemsOf(I) \cup BankItemsOf(m.items))
      BY <3>1, <3>4, <3>5, BestOfUnion
    <3>7. QED
      BY <2>2, <3>2, <3>6, BankItemsOfUnion
  <2>3. CASE ~(t = s /\ k = n)
    <3>1. Read(t, k)' = Read(t, k) /\ mem'[t][k] = mem[t][k]
      BY <1>3, <1>5, <2>1, <2>3
    <3>2. QED
      BY <2>1, <3>1
  <2>4. QED
    BY <2>2, <2>3
<1>10. ASSUME NEW k \in Nodes("bank_max_reducer")
       PROVE  mem'["bank_max_reducer"][k] =
                BestOfBanks(ItemsOf(Read("bank_max_reducer", k)'))
  <2> DEFINE t == "bank_max_reducer"
  <2>1. t \in Stages /\ mem[t][k] = BestOfBanks(ItemsOf(Read(t, k)))
    BY Names DEF Contents
  <2>2. CASE t = s /\ k = n
    <3>1. mem'[s][n] = BestOfBanks(mem[s][n] \cup BestOfBanks(m.items))
      BY <1>5, <2>2 DEF Merge
    <3>2. ItemsOf(Read(s, n)') = I \cup m.items
      BY <1>3 DEF ItemsOf
    <3>3. I \subseteq BankItems /\ m.items \subseteq BankItems
      BY <1>6, <1>7, <2>2 DEF Carried, Kept
    <3>4. mem[s][n] = BestOfBanks(I)
      BY <2>1, <2>2
    <3> HIDE DEF I
    <3>5. mem'[s][n] = BestOfBanks(I \cup m.items)
      BY <1>6, <1>7, <3>1, <3>3, <3>4, BestOfUnion DEF I
    <3>6. QED
      BY <2>2, <3>2, <3>5
  <2>3. CASE ~(t = s /\ k = n)
    <3>1. Read(t, k)' = Read(t, k) /\ mem'[t][k] = mem[t][k]
      BY <1>3, <1>5, <2>1, <2>3
    <3>2. QED
      BY <2>1, <3>1
  <2>4. QED
    BY <2>2, <2>3
<1>11. ASSUME NEW k \in Nodes("low_amount_aggregator")
       PROVE  mem'["low_amount_aggregator"][k] =
                {Cardinality(LowAmounts(ItemsOf(Read("low_amount_aggregator", k)')))}
  <2> DEFINE t == "low_amount_aggregator"
             Count(R) == Cardinality(LowAmounts(ItemsOf(R)))
  <2>1. t \in Stages /\ mem[t][k] = {Count(Read(t, k))}
    BY Names DEF Contents
  <2>2. CASE t = s /\ k = n
    <3>1. mem'[s][n] = {x + Cardinality(LowAmounts(m.items)) : x \in mem[s][n]}
      BY <1>5, <2>2 DEF Merge
    <3>2. ItemsOf({m}) = m.items /\ Read(s, n) \cap {m} = {} /\ {m} \subseteq sent[s]
      BY <1>3 DEF ItemsOf
    <3> DEFINE R == Read(s, n)
               Q == {m}
    <3>3. Count(Read(s, n) \cup {m}) = Count(Read(s, n)) + Cardinality(LowAmounts(m.items))
      <4>1. R \subseteq sent[t] /\ Q \subseteq sent[t] /\ R \cap Q = {}
        BY <1>6, <2>2, <3>2
      <4> HIDE DEF R, Q
      <4>2. Count(R \cup Q) = Count(R) + Count(Q)
        BY <4>1, LowAmountsDisjoint
      <4>3. Count(Q) = Cardinality(LowAmounts(m.items))
        BY <3>2 DEF Q
      <4>4. QED
        BY <4>2, <4>3 DEF R, Q
    <3>4. mem[s][n] = {Count(Read(s, n))}
      BY <2>1, <2>2
    <3> HIDE DEF Count
    <3>5. mem'[s][n] = {Count(Read(s, n)) + Cardinality(LowAmounts(m.items))}
      BY <3>1, <3>4
    <3>6. mem'[s][n] = {Count(Read(s, n)')}
      BY <1>3, <3>3, <3>5
    <3>7. QED
      BY <2>2, <3>6 DEF Count
  <2>3. CASE ~(t = s /\ k = n)
    <3>1. Read(t, k)' = Read(t, k) /\ mem'[t][k] = mem[t][k]
      BY <1>3, <1>5, <2>1, <2>3
    <3>2. QED
      BY <2>1, <3>1
  <2>4. QED
    BY <2>2, <2>3
<1>12. ASSUME NEW k \in Nodes("low_amount_reducer")
       PROVE  mem'["low_amount_reducer"][k] =
                {Cardinality(LowAmounts(ItemsOf(Added(k)')))}
  <2> DEFINE t == "low_amount_reducer"
  <2>1. t \in Stages /\ mem[t][k] = {Cardinality(LowAmounts(ItemsOf(Added(k))))}
    BY Names DEF Contents
  <2>2. CASE t = s
    <3>1. /\ mem'[t][n] = {Cardinality(LowAmounts(ItemsOf(Added(n)')))}
          /\ \A j \in Nodes(t) : j # n => mem'[t][j] = mem[t][j] /\ Added(j)' = Added(j)
      BY <1>1, <1>2, <2>2, TakeLowAmounts DEF n
    <3>2. QED
      BY <2>1, <3>1
  <2>3. CASE t # s
    <3>1. mem'[t][k] = mem[t][k]
      BY <1>5, <2>1, <2>3
    <3>2. seen'[t] = seen[t]
      BY <1>1, <2>3
    <3>3. Added(k)' = Added(k)
      BY <1>2, <3>2 DEF Added
    <3>4. QED
      BY <2>1, <3>1, <3>3
  <2>4. QED
    BY <2>2, <2>3
<1>13. QED
  BY <1>8, <1>9, <1>10, <1>11, <1>12 DEF Contents, ItemsOf, Nodes

LEMMA Deliveries == Base => \A c \in Receivers : Delivered(c)
BY AllDelivered DEF Base

LEMMA LowAmountSource ==
  Base => sent["low_amount_aggregator"] = Source("low_amount_aggregator")
BY FrontStages

\* What is sent later has not been read.
LEMMA SameRead ==
  ASSUME Base, Base', input' = input, seen' = seen,
         \A c \in Receivers : sent[c] \subseteq sent'[c],
         NEW s \in Stages, NEW n \in Nodes(s)
  PROVE  Read(s, n)' = Read(s, n)
<1>1. s \in Receivers /\ s # "client"
  BY Names
<1>2. Delivered(s)'
  <2>1. (\A c \in Receivers : Delivered(c))'
    BY Deliveries, PTL
  <2>2. QED
    BY <1>1, <2>1
<1>3. ASSUME NEW x \in Read(s, n)' PROVE x \in Read(s, n)
  <2>1. x \in sent'[s] /\ x.node = n /\ x.id \in seen[s][n]
    BY <1>3 DEF Read, Owed
  <2>2. PICK y \in sent[s] : y.node = n /\ y.id = x.id
    BY <2>1 DEF Base, Handled, Owed
  <2>3. x = y
    BY <1>1, <1>2, <2>1, <2>2 DEF Delivered
  <2>4. QED
    BY <2>1, <2>2, <2>3 DEF Read, Owed
<1>4. Read(s, n) \subseteq Read(s, n)'
  BY <1>1 DEF Read, Owed
<1>5. QED
  BY <1>3, <1>4

LEMMA SameContents ==
  ASSUME Base, Base', Contents, input' = input, seen' = seen, mem' = mem,
         \A c \in Receivers : sent[c] \subseteq sent'[c]
  PROVE  Contents'
<1>1. ASSUME NEW s \in Stages, NEW n \in Nodes(s)
      PROVE  Read(s, n)' = Read(s, n)
  BY SameRead
<1>2. \A n : Added(n)' = Added(n)
  <2>1. sent["low_amount_aggregator"] = Source("low_amount_aggregator")
    BY LowAmountSource
  <2>2. (sent["low_amount_aggregator"] = Source("low_amount_aggregator"))'
    BY LowAmountSource, PTL
  <2>3. sent'["low_amount_aggregator"] = sent["low_amount_aggregator"]
    BY <2>1, <2>2, Constant
  <2>4. QED
    BY <2>3 DEF Added
<1>3. \A s \in Unions : \A n \in Nodes(s) : mem'[s][n] = ItemsOf(Read(s, n)')
  BY <1>1, Names DEF Contents, Unions
<1>4. \A n \in Nodes("bank_max_aggregator") :
        mem'["bank_max_aggregator"][n] =
          BestOfBanks(BankItemsOf(ItemsOf(Read("bank_max_aggregator", n)')))
  BY <1>1, Names DEF Contents
<1>5. \A n \in Nodes("bank_max_reducer") :
        mem'["bank_max_reducer"][n] = BestOfBanks(ItemsOf(Read("bank_max_reducer", n)'))
  BY <1>1, Names DEF Contents
<1>6. \A n \in Nodes("low_amount_aggregator") :
        mem'["low_amount_aggregator"][n] =
          {Cardinality(LowAmounts(ItemsOf(Read("low_amount_aggregator", n)')))}
  BY <1>1, Names DEF Contents
<1>7. \A n \in Nodes("low_amount_reducer") :
        mem'["low_amount_reducer"][n] = {Cardinality(LowAmounts(ItemsOf(Added(n)')))}
  BY <1>2 DEF Contents
<1>8. QED
  BY <1>3, <1>4, <1>5, <1>6, <1>7 DEF Contents, ItemsOf, Nodes

LEMMA InitContents ==
  ASSUME Init
  PROVE  Contents
<1>1. \A s \in Stages : \A n \in Nodes(s) : seen[s][n] = {} /\ mem[s][n] = Initially(s)
  BY DEF Init, Nodes
<1>2. \A s \in Stages : \A n \in Nodes(s) : ItemsOf(Read(s, n)) = {}
  BY <1>1 DEF Read, ItemsOf
<1>3. \A n \in Nodes("low_amount_reducer") : ItemsOf(Added(n)) = {}
  BY <1>1, Names DEF Added, ItemsOf
<1>4. BestOfBanks({}) = {} /\ BankItemsOf({}) = {} /\ LowAmounts({}) = {} /\ Cardinality({}) = 0
  BY FS_EmptySet DEF BestOfBanks, BankItemsOf, LowAmounts, Payments
<1>5. /\ \A s \in Unions \cup {"bank_max_aggregator", "bank_max_reducer"} :
           s \in Stages /\ Initially(s) = {}
      /\ "low_amount_aggregator" \in Stages /\ "low_amount_reducer" \in Stages
      /\ Initially("low_amount_aggregator") = {0} /\ Initially("low_amount_reducer") = {0}
  BY Names DEF Unions, Initially, Counters
<1>6. QED
  BY <1>1, <1>2, <1>3, <1>4, <1>5 DEF Contents

LEMMA NextContents ==
  ASSUME Base, Contents, [Next]_vars
  PROVE  Contents'
<1>1. ASSUME NEW s \in Stages, Take(s) PROVE Contents'
  BY <1>1, TakeContents
<1>2. ASSUME UNCHANGED <<seen, mem>> PROVE Contents'
  BY <1>2, NextBase, SentGrows, SameContents
<1>3. (\E s \in Stages : Take(s)) \/ UNCHANGED <<seen, mem>>
  BY DEF Next, Flush, Relay, HandleQueryEnd, HandleQueryResult, vars
<1>4. QED
  BY <1>1, <1>2, <1>3

-----------------------------------------------------------------------------
(* Client is inductive *)

\* The bank_max_reducer of an item is the one of its bank.
LEMMA BankShards ==
  ASSUME Base, NEW m \in sent["bank_max_reducer"], NEW y \in m.items
  PROVE  y \in BankItems /\ ShardOf(y.bank, Replicas["bank_max_reducer"]) = m.node
<1> DEFINE a == "bank_max_aggregator"
           c == "bank_max_reducer"
<1>1. c \in Receivers /\ c # "client" /\ Shapes /\ Memories /\ input \in Inputs
      /\ input.query \in Queries
  BY Names, InputTyped DEF Base, Shapes
<1>2. y \in BankItems
  BY <1>1, AllDelivered DEF Base, Delivered, Carried, Kept
<1>3. m \in Flushed(c)
  <2>1. \A b : SourceMessages(input.query, c, b, input.batches[b]) = {}
    BY DEF SourceMessages
  <2>2. Source(c) = {}
    BY <2>1 DEF Source
  <2>3. QED
    BY <1>1, <2>2 DEF Base, Flows
<1>4. input.query = "q2"
  <2>1. input.query # "q2" => \A i \in DOMAIN MyRoute : Consumer(i) # c
    BY <1>1, Names, Routes
  <2>2. QED
    BY <1>3, <2>1, FlushedNone
<1>5. 1 \in DOMAIN MyRoute /\ MyRoute[1] = a /\ Consumer(1) = c
  BY <1>4, Routes
<1>6. PICK n \in Nodes(a) : m \in Out(a, n, c)
  BY <1>1, <1>3, <1>5, FlushedOf
<1>7. FlushOf(1, n)
  BY <1>1, <1>5, FlushIs
<1>8. ShardOf(FlushKey(a, y), Replicas[c]) = m.node
  BY <1>5, <1>6, <1>7 DEF FlushOf
<1>9. QED
  BY <1>2, <1>8, KeyTyped

\* What one bank_max_reducer flushes is of the banks of its shard.
LEMMA MapperMessages ==
  ASSUME Base, Contents, NEW m \in sent["bank_mapper"]
  PROVE  /\ input.query = "q2"
         /\ \E n \in Nodes("bank_max_reducer") :
              /\ <<"bank_max_reducer", n>> \in flushed
              /\ m \in Out("bank_max_reducer", n, "bank_mapper")
              /\ m.id[1] = n /\ m.items # {} /\ m.items \subseteq mem["bank_max_reducer"][n]
              /\ \A y \in m.items : /\ y \in BankItems
                                    /\ ShardOf(y.bank, Replicas["bank_max_reducer"]) = n
                                    /\ ShardOf(y.bank, Replicas["bank_mapper"]) = m.node
<1> DEFINE a == "bank_max_reducer"
           c == "bank_mapper"
<1>1. c \in Receivers /\ c # "client" /\ Shapes /\ Memories /\ input \in Inputs
      /\ input.query \in Queries
  BY Names, InputTyped DEF Base, Shapes
<1>2. m \in Flushed(c)
  <2>1. \A b : SourceMessages(input.query, c, b, input.batches[b]) = {}
    BY DEF SourceMessages
  <2>2. Source(c) = {}
    BY <2>1 DEF Source
  <2>3. QED
    BY <1>1, <2>2 DEF Base, Flows
<1>3. input.query = "q2"
  <2>1. input.query # "q2" => \A i \in DOMAIN MyRoute : Consumer(i) # c
    BY <1>1, Names, Routes
  <2>2. QED
    BY <1>2, <2>1, FlushedNone
<1>4. 2 \in DOMAIN MyRoute /\ MyRoute[2] = a /\ Consumer(2) = c
  BY <1>3, Routes
<1>5. PICK n \in Nodes(a) : <<a, n>> \in flushed /\ m \in Out(a, n, c)
  BY <1>1, <1>2, <1>4, FlushedOf
<1>6. FlushOf(2, n)
  BY <1>1, <1>4, FlushIs
<1>7. FlushData(a, mem[a][n]) = mem[a][n]
  BY DEF FlushData
<1>8. /\ \E b \in Nat : m.id = FlushId(n, b)
      /\ m.items # {} /\ m.items \subseteq mem[a][n]
      /\ \A y \in m.items : ShardOf(FlushKey(a, y), Replicas[c]) = m.node
  BY <1>4, <1>5, <1>6, <1>7 DEF FlushOf
<1>9. m.id[1] = n
  BY <1>8, FlushIdOf
<1>10. ASSUME NEW y \in m.items
       PROVE  y \in BankItems /\ ShardOf(y.bank, Replicas[a]) = n
  <2>1. y \in ItemsOf(Read(a, n))
    BY <1>8, BestIn DEF Contents
  <2>2. PICK x \in sent[a] : x.node = n /\ y \in x.items
    BY <2>1 DEF ItemsOf, Read, Owed
  <2>3. QED
    BY <2>2, BankShards
<1>11. \A y \in m.items : ShardOf(y.bank, Replicas[c]) = m.node
  BY <1>8, <1>10, KeyTyped
<1>12. QED
  BY <1>3, <1>5, <1>8, <1>9, <1>10, <1>11

\* One message for each batch.
OneOfEach(c) ==
  \A m \in sent[c] : \E b \in DOMAIN input.batches :
    /\ m.id = RootId(b)
    /\ SourceMessages(input.query, c, b, input.batches[b]) = {m}

LEMMA OneForEachBatch ==
  ASSUME Base, NEW c,
         (input.query = "q1" /\ c = "client") \/ (input.query = "q3" /\ c = "anomaly_filter")
  PROVE  /\ c \in Receivers /\ sent[c] = Source(c) /\ OneOfEach(c)
         /\ \A b \in DOMAIN input.batches : \E m \in sent[c] :
              m.id = RootId(b) /\ SourceMessages(input.query, c, b, input.batches[b]) = {m}
<1> DEFINE Of(b) == SourceMessages(input.query, c, b, input.batches[b])
           It(b) == IF c = "client" THEN SmallAmounts(input.batches[b])
                    ELSE UsdOfPeriod(input.batches[b], 2)
           M(b) == Message(ShardOf(b, Replicas[c]), RootId(b), It(b))
<1>1. input.query \in Queries /\ c \in Receivers /\ (c # "client" \/ ~HasJoin)
  BY InputTyped, JoinNames, Names DEF Base, Shapes
<1>2. sent[c] = Source(c) \cup Flushed(c)
  BY <1>1 DEF Base, Flows
<1>3. \A i \in DOMAIN MyRoute : Consumer(i) # c
  BY Names, Routes
<1>4. Flushed(c) = {}
  BY <1>3, FlushedNone
<1>5. \A b : Of(b) = {M(b)}
  BY DEF SourceMessages
<1>6. c \in MyStages(input.query)
  BY Names DEF MyStages
<1> HIDE DEF Of
<1>7. \A m : m \in sent[c] <=> \E b \in DOMAIN input.batches : m \in Of(b)
  BY <1>2, <1>4, <1>6 DEF Source, Of
<1>8. \A b : M(b).id = RootId(b)
  BY MessageFields
<1> HIDE DEF M
<1>9. \A b \in DOMAIN input.batches : M(b) \in sent[c] /\ M(b).id = RootId(b) /\ Of(b) = {M(b)}
  BY <1>5, <1>7, <1>8
<1>10. \A m \in sent[c] : \E b \in DOMAIN input.batches : m = M(b)
  BY <1>5, <1>7
<1>11. OneOfEach(c)
  BY <1>9, <1>10 DEF OneOfEach, Of
<1>12. QED
  BY <1>1, <1>2, <1>4, <1>9, <1>11 DEF Of

LEMMA RootIdsDiffer ==
  ASSUME NEW b, NEW d, RootId(b) = RootId(d)
  PROVE  b = d
BY RootIdOf

\* The messages that a join relays have identifiers of their own.
LEMMA JoinIds ==
  ASSUME Base, Contents, TellsApart, HasJoin,
         NEW m \in sent[Joins[input.query]], NEW x \in sent[Joins[input.query]], m.id = x.id
  PROVE  m = x
<1>1. Shapes
  BY DEF Base
<1>2. CASE input.query = "q2"
  <2> DEFINE a == "bank_max_reducer"
             c == "bank_mapper"
  <2>1. m \in sent[c] /\ x \in sent[c]
    BY <1>1, <1>2, JoinNames
  <2>2. PICK n \in Nodes(a) :
          /\ m.id[1] = n /\ m.items # {}
          /\ \A y \in m.items : /\ y \in BankItems /\ ShardOf(y.bank, Replicas[a]) = n
                                /\ ShardOf(y.bank, Replicas[c]) = m.node
    BY <2>1, MapperMessages
  <2>3. PICK k \in Nodes(a) :
          /\ x.id[1] = k /\ x.items # {}
          /\ \A y \in x.items : /\ y \in BankItems /\ ShardOf(y.bank, Replicas[a]) = k
                                /\ ShardOf(y.bank, Replicas[c]) = x.node
    BY <2>1, MapperMessages
  <2>4. PICK y \in m.items : TRUE
    BY <2>2
  <2>5. PICK z \in x.items : TRUE
    BY <2>3
  <2>6. y.bank % Replicas[a] = z.bank % Replicas[a]
    BY <2>2, <2>3, <2>4, <2>5 DEF ShardOf
  <2>7. y.bank \in Nat /\ z.bank \in Nat
    BY <2>2, <2>3, <2>4, <2>5 DEF BankItems
  <2>8. m.node = x.node
    <3>1. y.bank % Replicas[c] = z.bank % Replicas[c]
      BY <1>2, <2>6, <2>7 DEF TellsApart, Matched
    <3>2. QED
      BY <2>2, <2>3, <2>4, <2>5, <3>1 DEF ShardOf
  <2>9. c \in Receivers /\ c # "client"
    BY Names
  <2>10. Delivered(c)
    BY <2>9, AllDelivered DEF Base
  <2>11. QED
    BY <2>1, <2>8, <2>9, <2>10 DEF Delivered
<1>3. CASE input.query = "q3"
  <2> DEFINE c == "anomaly_filter"
  <2>1. m \in sent[c] /\ x \in sent[c]
    BY <1>1, <1>3, JoinNames
  <2>2. OneOfEach(c)
    BY <1>3, OneForEachBatch
  <2>3. PICK b \in DOMAIN input.batches :
          m.id = RootId(b) /\ SourceMessages(input.query, c, b, input.batches[b]) = {m}
    BY <2>1, <2>2 DEF OneOfEach
  <2>4. PICK d \in DOMAIN input.batches :
          x.id = RootId(d) /\ SourceMessages(input.query, c, d, input.batches[d]) = {x}
    BY <2>1, <2>2 DEF OneOfEach
  <2>5. b = d
    BY <2>3, <2>4, RootIdsDiffer
  <2>6. QED
    BY <2>3, <2>4, <2>5
<1>4. QED
  BY <1>1, <1>2, <1>3, JoinNames

\* And so do those that the client gets.
LEMMA ClientIds ==
  Base /\ Contents /\ TellsApart =>
    \A m, x \in sent["client"] : m.id = x.id => m = x
<1> SUFFICES ASSUME Base, Contents, TellsApart, NEW m \in sent["client"],
                    NEW x \in sent["client"], m.id = x.id
             PROVE  m = x
  OBVIOUS
<1>1. "client" \in Receivers
  BY Names
<1>2. CASE ~HasJoin
  <2>1. Delivered("client")
    BY <1>1, AllDelivered DEF Base
  <2>2. m.node \in 0 .. 1 - 1 /\ x.node \in 0 .. 1 - 1
    BY <1>1, <2>1, ReplicasOf DEF Delivered
  <2>3. m.node = x.node
    BY <2>2
  <2>4. QED
    BY <1>2, <2>1, <2>3 DEF Delivered
<1>3. CASE HasJoin
  <2>1. PICK a \in sent[Joins[input.query]] : m = Relayed(a)
    BY <1>3 DEF Base, Flows
  <2>2. PICK b \in sent[Joins[input.query]] : x = Relayed(b)
    BY <1>3 DEF Base, Flows
  <2>3. a.id = b.id
    BY <2>1, <2>2, RelayedFields
  <2>4. a = b
    BY <1>3, <2>3, JoinIds
  <2>5. QED
    BY <2>1, <2>2, <2>4
<1>4. QED
  BY <1>2, <1>3

RowsOf(ms) == UNION {{[id |-> m.id, row |-> x] : x \in m.items} : m \in ms}

\* Once the QUERY_END may have been sent, its count is settled.
LEMMA EndCountSettled ==
  ASSUME Base, EndIsSent, [Next]_vars
  PROVE  EndIsSent' /\ EndCount(input.query)' = EndCount(input.query)
<1>1. input.query \in Queries /\ Shapes /\ sent = [c \in Receivers |-> sent[c]]
  BY InputTyped DEF Base, Shapes
<1>2. input' = input
  BY SentGrows
<1>3. flushed \subseteq flushed'
  BY DEF Next, Take, Flush, Relay, HandleQueryEnd, HandleQueryResult, vars
<1>4. MyRoute' = MyRoute /\ Last' = Last
  BY <1>2, Constant DEF Last
<1>5. EndIsSent'
  BY <1>2, <1>3, <1>4 DEF EndIsSent, Closed, Nodes
<1>6. CASE input.query \in {"q1", "q3"}
  BY <1>2, <1>5, <1>6 DEF EndCount
<1>7. CASE input.query \in {"q2", "q4", "q5"}
  <2>1. Closed(Last)
    BY <1>7 DEF EndIsSent
  <2>2. /\ input.query = "q2" => Last = MyRoute[2] /\ 2 \in DOMAIN MyRoute
        /\ input.query = "q4" => Last = MyRoute[4] /\ 4 \in DOMAIN MyRoute
        /\ input.query = "q5" => Last = MyRoute[2] /\ 2 \in DOMAIN MyRoute
    BY Routes DEF Last
  <2> DEFINE Same == /\ input.query = "q2" => sent'["bank_mapper"] = sent["bank_mapper"]
                     /\ input.query # "q2" => sent'["client"] = sent["client"]
  <2>3. ASSUME NEW i \in DOMAIN MyRoute, NEW n \in Nodes(MyRoute[i]), Flush(i, n)
        PROVE  Same
    <3>1. <<MyRoute[i], n>> \notin flushed
      BY <2>3 DEF Flush
    <3>2. MyRoute[i] # Last
      BY <2>1, <3>1 DEF Closed
    <3>3. /\ input.query = "q2" => Consumer(i) # "bank_mapper"
          /\ input.query # "q2" => Consumer(i) # "client"
      BY <1>7, <2>2, <3>2, Routes, Names
    <3>4. \A d \in Receivers : d # Consumer(i) => sent'[d] = sent[d]
      BY <2>3, FlushSends
    <3>5. QED
      BY <3>3, <3>4, Names
  <2>4. ASSUME Relay PROVE Same
    <3>1. input.query = "q2"
      BY <1>7, <2>4, Names DEF Relay
    <3>2. "bank_mapper" \in Receivers
      BY Names
    <3>3. sent'["bank_mapper"] = sent["bank_mapper"]
      BY <1>1, <2>4, <3>2 DEF Relay
    <3>4. QED
      BY <3>1, <3>3
  <2>5. ASSUME \/ \E s \in Stages : Take(s)
               \/ HandleQueryEnd \/ HandleQueryResult \/ UNCHANGED vars
        PROVE  Same
    BY <2>5 DEF Take, HandleQueryEnd, HandleQueryResult, vars
  <2>6. Same
    BY <2>3, <2>4, <2>5 DEF Next
  <2>7. QED
    BY <1>2, <1>5, <1>7, <2>6 DEF EndCount
<1>8. QED
  BY <1>1, <1>5, <1>6, <1>7, Names

LEMMA NextClient ==
  ASSUME Base, Contents, Client, [Next]_vars
  PROVE  Client'
<1>1. Base' /\ Contents' /\ input' = input /\ sent["client"] \subseteq sent'["client"]
  BY NextBase, NextContents, SentGrows, Names
<1>2. (taken \subseteq {m.id : m \in sent["client"]})'
  BY NextTaken DEF Client, TakenWasSent
<1>3. TellsApart' = TellsApart
  BY <1>1 DEF TellsApart, Matched
<1>4. ASSUME TellsApart
      PROVE  \A m, x \in sent'["client"] : m.id = x.id => m = x
  <2>1. (Base /\ Contents /\ TellsApart =>
           \A m, x \in sent["client"] : m.id = x.id => m = x)'
    BY ClientIds, PTL
  <2>2. QED
    BY <1>1, <1>3, <1>4, <2>1
<1>5. ASSUME TellsApart PROVE rows' = RowsOf(Counted')
  <2>1. rows = RowsOf(Counted)
    BY <1>5 DEF Client, RowsOf
  <2>2. CASE rows' = rows /\ taken' = taken
    <3>1. ASSUME NEW m \in sent'["client"], m.id \in taken PROVE m \in sent["client"]
      <4>1. PICK x \in sent["client"] : x.id = m.id
        BY <3>1 DEF Client
      <4>2. QED
        BY <1>1, <1>4, <1>5, <4>1
    <3>2. Counted' = Counted
      BY <1>1, <2>2, <3>1 DEF Counted
    <3>3. QED
      BY <2>1, <2>2, <3>2
  <2>3. CASE HandleQueryResult
    <3>1. PICK m \in sent["client"] :
            /\ taken' = taken \cup {m.id}
            /\ rows' = rows \cup {[id |-> m.id, row |-> r] : r \in m.items}
      BY <2>3 DEF HandleQueryResult
    <3>2. sent' = sent
      BY <2>3 DEF HandleQueryResult
    <3>3. Counted' = Counted \cup {m}
      BY <1>4, <1>5, <3>1, <3>2 DEF Counted
    <3>4. RowsOf(Counted \cup {m})
            = RowsOf(Counted) \cup {[id |-> m.id, row |-> r] : r \in m.items}
      BY DEF RowsOf
    <3>5. QED
      BY <2>1, <3>1, <3>3, <3>4
  <2>4. QED
    BY <2>2, <2>3 DEF Next, Take, Flush, Relay, HandleQueryEnd, vars
<1>6. ASSUME expected' # None PROVE EndIsSent' /\ expected' = EndCount(input.query)'
  <2>1. EndIsSent /\ expected' = EndCount(input.query)
    <3>1. CASE HandleQueryEnd
      BY <3>1 DEF HandleQueryEnd
    <3>2. CASE expected' = expected
      BY <1>6, <3>2 DEF Client
    <3>3. QED
      BY <3>1, <3>2 DEF Next, Take, Flush, Relay, HandleQueryResult, vars
  <2>2. QED
    BY <2>1, EndCountSettled
<1>7. QED
  BY <1>2, <1>3, <1>5, <1>6 DEF Client, RowsOf

LEMMA InductiveIsInvariant == Spec => []Inductive
<1>1. Init => Inductive
  <2>1. Init => rows = {} /\ taken = {} /\ expected = None
    BY DEF Init
  <2>2. Init => Client
    BY <2>1 DEF Client, Counted
  <2>3. QED
    BY <2>2, InitBase, InitContents DEF Inductive
<1>2. Inductive /\ [Next]_vars => Inductive'
  BY NextBase, NextContents, NextClient DEF Inductive
<1>3. QED
  BY <1>1, <1>2, PTL DEF Spec

-----------------------------------------------------------------------------
(* The count of the QUERY_END *)

Ids(ms) == {m.id : m \in ms}

LEMMA AsManyIds ==
  ASSUME NEW S, IsFiniteSet(S), \A m, x \in S : m.id = x.id => m = x
  PROVE  Cardinality(Ids(S)) = Cardinality(S) /\ IsFiniteSet(Ids(S))
<1> DEFINE f == [m \in S |-> m.id]
<1>1. f \in [S -> Ids(S)] /\ \A y \in Ids(S) : \E m \in S : f[m] = y
  BY DEF Ids
<1>2. \A m, x \in S : f[m] = f[x] => m = x
  OBVIOUS
<1> HIDE DEF f
<1>3. f \in Bijection(S, Ids(S))
  BY <1>1, <1>2 DEF Bijection, Injection, Surjection, IsInjective
<1>4. QED
  BY <1>3, FS_Bijection DEF ExistsBijection

\* As many as there are batches.
LEMMA RootIdsCount ==
  ASSUME input \in Inputs, NEW S, Ids(S) = {RootId(b) : b \in DOMAIN input.batches}
  PROVE  Cardinality(Ids(S)) = Len(input.batches) /\ IsFiniteSet(Ids(S))
<1> DEFINE D == DOMAIN input.batches
           R == {RootId(b) : b \in D}
           f == [b \in D |-> RootId(b)]
<1>1. /\ IsFiniteSet(D) /\ Len(input.batches) \in Nat /\ D = 1 .. Len(input.batches)
  BY InputTyped
<1>2. f \in [D -> R] /\ \A y \in R : \E b \in D : f[b] = y
  OBVIOUS
<1>3. \A b, d \in D : f[b] = f[d] => b = d
  BY RootIdsDiffer
<1> HIDE DEF f, D, R
<1>4. f \in Bijection(D, R)
  BY <1>2, <1>3 DEF Bijection, Injection, Surjection, IsInjective
<1>5. IsFiniteSet(R) /\ Cardinality(R) = Cardinality(D)
  BY <1>1, <1>4, FS_Bijection DEF ExistsBijection
<1>6. Cardinality(D) = Len(input.batches)
  <2>1. Cardinality(1 .. Len(input.batches)) =
          IF 1 > Len(input.batches) THEN 0 ELSE Len(input.batches) - 1 + 1
    BY <1>1, FS_Interval
  <2>2. QED
    BY <1>1, <2>1
<1>7. QED
  BY <1>5, <1>6 DEF D, R

\* The messages that the client will tell apart are those of the join.
LEMMA IdsToCome ==
  ASSUME Base
  PROVE  Ids(sent["client"]) \cup Ids(Pending)
           = IF HasJoin THEN Ids(sent[Joins[input.query]]) ELSE Ids(sent["client"])
<1>1. CASE ~HasJoin
  <2>1. Pending = {}
    BY <1>1 DEF Pending, HasJoin
  <2>2. Ids(Pending) = {}
    BY <2>1 DEF Ids
  <2>3. QED
    BY <1>1, <2>2
<1>2. CASE HasJoin
  <2> DEFINE J == sent[Joins[input.query]]
  <2>1. \A x \in sent["client"] : \E m \in J : x.id = m.id
    <3>1. \A x \in sent["client"] : \E m \in J : x = Relayed(m)
      BY <1>2 DEF Base, Flows
    <3>2. QED
      BY <3>1, RelayedFields
  <2>2. Pending \subseteq J
    BY <1>2 DEF Pending, HasJoin
  <2>3. ASSUME NEW m \in J
        PROVE  m \in Pending \/ \E x \in sent["client"] : x.id = m.id
    <3>1. CASE <<m.id, Joined(m)>> \in {<<x.id, x.items>> : x \in sent["client"]}
      BY <3>1
    <3>2. CASE <<m.id, Joined(m)>> \notin {<<x.id, x.items>> : x \in sent["client"]}
      BY <1>2, <3>2 DEF Pending, HasJoin
    <3>3. QED
      BY <3>1, <3>2
  <2>4. Ids(sent["client"]) \cup Ids(Pending) = Ids(J)
    <3> HIDE DEF J
    <3>1. QED
      BY <2>1, <2>2, <2>3 DEF Ids
  <2>5. QED
    BY <1>2, <2>4
<1>3. QED
  BY <1>1, <1>2

LEMMA CountsMatch ==
  Inductive /\ TellsApart =>
    /\ IsFiniteSet(Ids(sent["client"]) \cup Ids(Pending))
    /\ EndCount(input.query) = Cardinality(Ids(sent["client"]) \cup Ids(Pending))
<1> SUFFICES ASSUME Inductive, TellsApart
             PROVE  /\ IsFiniteSet(Ids(sent["client"]) \cup Ids(Pending))
                    /\ EndCount(input.query) = Cardinality(Ids(sent["client"]) \cup Ids(Pending))
  OBVIOUS
<1>1. Base /\ Contents /\ Shapes /\ input \in Inputs /\ input.query \in Queries
  BY InputTyped DEF Inductive, Base, Shapes
<1>2. ASSUME NEW c, (input.query = "q1" /\ c = "client")
                    \/ (input.query = "q3" /\ c = "anomaly_filter")
      PROVE  Cardinality(Ids(sent[c])) = Len(input.batches) /\ IsFiniteSet(Ids(sent[c]))
  <2>1. /\ \A m \in sent[c] : \E b \in DOMAIN input.batches : m.id = RootId(b)
        /\ \A b \in DOMAIN input.batches : \E m \in sent[c] : m.id = RootId(b)
    BY <1>1, <1>2, OneForEachBatch DEF OneOfEach
  <2>2. Ids(sent[c]) = {RootId(b) : b \in DOMAIN input.batches}
    BY <2>1 DEF Ids
  <2>3. QED
    BY <1>1, <2>2, RootIdsCount
<1>3. IsFiniteSet(sent["client"]) /\ IsFiniteSet(sent["bank_mapper"])
  BY <1>1, Names, AllDelivered DEF Base, Delivered
<1>4. CASE input.query = "q1"
  <2>1. Ids(sent["client"]) \cup Ids(Pending) = Ids(sent["client"])
    BY <1>1, <1>4, IdsToCome, JoinNames
  <2>2. QED
    BY <1>2, <1>4, <2>1 DEF EndCount
<1>5. CASE input.query = "q3"
  <2>1. Ids(sent["client"]) \cup Ids(Pending) = Ids(sent["anomaly_filter"])
    BY <1>1, <1>5, IdsToCome, JoinNames
  <2>2. QED
    BY <1>2, <1>5, <2>1 DEF EndCount
<1>6. CASE input.query = "q2"
  <2>1. Ids(sent["client"]) \cup Ids(Pending) = Ids(sent["bank_mapper"])
    BY <1>1, <1>6, IdsToCome, JoinNames
  <2>2. \A m, x \in sent["bank_mapper"] : m.id = x.id => m = x
    BY <1>1, <1>6, JoinIds, JoinNames
  <2>3. EndCount(input.query) = Cardinality(sent["bank_mapper"])
    BY <1>6 DEF EndCount
  <2>4. QED
    BY <1>3, <2>1, <2>2, <2>3, AsManyIds
<1>7. CASE input.query \in {"q4", "q5"}
  <2>1. Ids(sent["client"]) \cup Ids(Pending) = Ids(sent["client"])
    BY <1>1, <1>7, IdsToCome, JoinNames
  <2>2. \A m, x \in sent["client"] : m.id = x.id => m = x
    BY <1>1, ClientIds
  <2>3. EndCount(input.query) = Cardinality(sent["client"])
    BY <1>7 DEF EndCount
  <2>4. QED
    BY <1>3, <2>1, <2>2, <2>3, AsManyIds
<1>8. QED
  BY <1>1, <1>4, <1>5, <1>6, <1>7, Names

-----------------------------------------------------------------------------
(* The rows *)

\* What it takes for the client's rows to be the reference: every message
\* brings rows of the reference, no two the same one, and once the QUERY_END
\* may be sent and all is relayed the messages bring them all.
Answers ==
  /\ \A m \in sent["client"] : m.items \subseteq ExpectedRows
  /\ \A m, x \in sent["client"] : \A y \in m.items : y \in x.items => m.id = x.id
  /\ EndIsSent /\ (HasJoin => \A m \in sent[Joins[input.query]] : Relayed(m) \in sent["client"])
       => ExpectedRows \subseteq ItemsOf(sent["client"])

LEMMA RowsFollow ==
  Inductive /\ TellsApart /\ Answers => RowsAreTheReference
<1> SUFFICES ASSUME Inductive, TellsApart, Answers PROVE RowsAreTheReference
  OBVIOUS
<1> DEFINE C == sent["client"]
<1>1. /\ Base /\ Contents /\ taken \subseteq Ids(C) /\ rows = RowsOf(Counted)
      /\ expected # None => EndIsSent /\ expected = EndCount(input.query)
  BY DEF Inductive, Client, RowsOf, Ids
<1>2. \A r : r \in rows <=> \E m \in C : /\ m.id \in taken
                                         /\ \E y \in m.items : r = [id |-> m.id, row |-> y]
  BY <1>1 DEF RowsOf, Counted
<1>3. ASSUME NEW r \in rows
      PROVE  \E m \in C : r.id = m.id /\ r.row \in m.items
  <2>1. PICK m \in C : \E y \in m.items : r = [id |-> m.id, row |-> y]
    BY <1>2
  <2>2. PICK y \in m.items : r = [id |-> m.id, row |-> y]
    BY <2>1
  <2>3. r.id = m.id /\ r.row = y
    BY <2>2
  <2>4. QED
    BY <2>3
<1>4. {r.row : r \in rows} \subseteq ExpectedRows
  BY <1>3 DEF Answers
<1>5. ASSUME NEW r \in rows, NEW x \in rows, r.row = x.row PROVE r.id = x.id
  <2>1. PICK m \in C : r.id = m.id /\ r.row \in m.items
    BY <1>3
  <2>2. PICK w \in C : x.id = w.id /\ x.row \in w.items
    BY <1>3
  <2>3. QED
    BY <1>5, <2>1, <2>2 DEF Answers
<1>6. ASSUME Finalized PROVE ExpectedRows \subseteq {r.row : r \in rows}
  <2> DEFINE U == Ids(C) \cup Ids(Pending)
  <2>1. /\ IsFiniteSet(U) /\ taken \subseteq U /\ Cardinality(taken) >= Cardinality(U)
        /\ EndIsSent
    BY <1>1, <1>6, CountsMatch DEF Finalized
  <2>2. taken = U
    <3> HIDE DEF U
    <3>1. IsFiniteSet(taken) /\ Cardinality(taken) <= Cardinality(U)
      BY <2>1, FS_Subset
    <3>2. Cardinality(taken) \in Nat /\ Cardinality(U) \in Nat
      BY <2>1, <3>1, FS_CardinalityType
    <3>3. Cardinality(U) = Cardinality(taken)
      BY <2>1, <3>1, <3>2
    <3>4. QED
      BY <2>1, <3>3, FS_Subset
  <2>3. ASSUME HasJoin, NEW m \in sent[Joins[input.query]] PROVE Relayed(m) \in C
    <3>1. m.id \in U
      BY <1>1, <2>3, IdsToCome DEF Ids
    <3>2. PICK x \in C : x.id = m.id
      BY <1>1, <2>2, <3>1 DEF Ids
    <3>3. PICK w \in sent[Joins[input.query]] : x = Relayed(w)
      BY <1>1, <2>3 DEF Base, Flows
    <3>4. w = m
      BY <1>1, <2>3, <3>2, <3>3, RelayedFields, JoinIds
    <3>5. QED
      BY <3>2, <3>3, <3>4
  <2>4. ExpectedRows \subseteq ItemsOf(C)
    BY <2>1, <2>3 DEF Answers
  <2>5. ASSUME NEW y \in ItemsOf(C) PROVE y \in {r.row : r \in rows}
    <3>1. PICK m \in C : y \in m.items
      BY DEF ItemsOf
    <3>2. m.id \in taken
      BY <2>2 DEF Ids
    <3> DEFINE r == [id |-> m.id, row |-> y]
    <3>3. r \in rows /\ r.row = y
      BY <1>2, <3>1, <3>2
    <3>4. QED
      BY <3>3
  <2>6. QED
    BY <2>4, <2>5
<1>7. QED
  BY <1>4, <1>5, <1>6 DEF RowsAreTheReference

\* Query 1: the front sends each batch's small amounts.
LEMMA Answers1 ==
  ASSUME Inductive, input.query = "q1"
  PROVE  Answers
<1> DEFINE c == "client"
           Of(b) == SourceMessages(input.query, c, b, input.batches[b])
           Small(b) == SmallAmounts(input.batches[b])
<1>1. Base /\ input \in Inputs
  BY DEF Inductive, Base, Shapes
<1>2. /\ \A m \in sent[c] : \E b \in DOMAIN input.batches : m.id = RootId(b) /\ Of(b) = {m}
      /\ \A b \in DOMAIN input.batches : \E m \in sent[c] : m.id = RootId(b) /\ Of(b) = {m}
  BY <1>1, OneForEachBatch DEF OneOfEach
<1>3. \A b : \A m : Of(b) = {m} => m.items = Small(b)
  <2>1. \A b : Of(b) = {Message(ShardOf(b, Replicas[c]), RootId(b), Small(b))}
    BY DEF SourceMessages
  <2>2. QED
    BY <2>1, MessageFields
<1> HIDE DEF Of
<1>4. /\ \A m \in sent[c] : \E b \in DOMAIN input.batches : m.id = RootId(b) /\ m.items = Small(b)
      /\ \A b \in DOMAIN input.batches : \E m \in sent[c] : m.items = Small(b)
  BY <1>2, <1>3
<1>5. ExpectedRows = {t \in All : IsUsd(t) /\ t.amount < AmountThreshold}
  BY DEF ExpectedRows
<1>6. \A t : t \in ExpectedRows <=> \E b \in DOMAIN input.batches : t \in Small(b)
  BY <1>5 DEF All, SmallAmounts
<1>7. ASSUME NEW b \in DOMAIN input.batches, NEW d \in DOMAIN input.batches,
             NEW t \in Small(b), t \in Small(d)
      PROVE  b = d
  <2>1. t \in input.batches[b] /\ t \in input.batches[d]
    BY <1>7 DEF SmallAmounts
  <2>2. QED
    BY <1>1, <2>1, InputTyped
<1> HIDE DEF Small
<1>8. \A m \in sent[c] : m.items \subseteq ExpectedRows
  BY <1>4, <1>6
<1>9. \A m, x \in sent[c] : \A y \in m.items : y \in x.items => m.id = x.id
  <2>1. ASSUME NEW m \in sent[c], NEW x \in sent[c], NEW y \in m.items, y \in x.items
        PROVE  m.id = x.id
    <3>1. PICK b \in DOMAIN input.batches : m.id = RootId(b) /\ m.items = Small(b)
      BY <1>4
    <3>2. PICK d \in DOMAIN input.batches : x.id = RootId(d) /\ x.items = Small(d)
      BY <1>4
    <3>3. b = d
      BY <1>7, <2>1, <3>1, <3>2
    <3>4. QED
      BY <3>1, <3>2, <3>3
  <2>2. QED
    BY <2>1
<1>10. ExpectedRows \subseteq ItemsOf(sent[c])
  BY <1>4, <1>6 DEF ItemsOf
<1>11. QED
  BY <1>8, <1>9, <1>10 DEF Answers

\* What the replicas of s flush together.
AllOf(s) == UNION {FlushData(s, mem[s][n]) : n \in Nodes(s)}

\* Once s is closed, a replica of its consumer gets the items of its shard.
LEMMA OwedItems ==
  ASSUME Base, NEW i \in DOMAIN MyRoute, MyRoute[i] # "payment_format_reducer",
         Consumer(i) # "client" \/ ~HasJoin, Source(Consumer(i)) = {}
  PROVE  LET s == MyRoute[i]
             c == Consumer(i)
         IN  /\ \A m : m \in sent[c] <=>
                  \E n \in Nodes(s) : <<s, n>> \in flushed /\ m \in Out(s, n, c)
             /\ \A n \in Nodes(s) : FlushOf(i, n)
             /\ Closed(s) => \A k : ItemsOf(Owed(c, k)) =
                  {x \in AllOf(s) : ShardOf(FlushKey(s, x), Replicas[c]) = k}
<1> DEFINE s == MyRoute[i]
           c == Consumer(i)
<1>1. Shapes /\ Flows /\ Memories /\ input \in Inputs /\ input.query \in Queries
  BY InputTyped DEF Base, Shapes
<1>2. c \in Receivers
  BY <1>1, RouteSteps
<1>3. sent[c] = Flushed(c)
  BY <1>1, <1>2 DEF Flows
<1>4. \A m : m \in sent[c] <=> \E n \in Nodes(s) : <<s, n>> \in flushed /\ m \in Out(s, n, c)
  BY <1>1, <1>3, FlushedOf
<1>5. \A n \in Nodes(s) : FlushOf(i, n)
  BY <1>1, FlushIs
<1>6. ASSUME NEW n \in Nodes(s)
      PROVE  /\ \A m \in Out(s, n, c) : m.items \subseteq FlushData(s, mem[s][n])
             /\ \A m \in Out(s, n, c) : \A y \in m.items :
                  ShardOf(FlushKey(s, y), Replicas[c]) = m.node
             /\ \A x \in FlushData(s, mem[s][n]) : \E m \in Out(s, n, c) : x \in m.items
  BY <1>5 DEF FlushOf
<1> HIDE DEF s, c
<1>7. ASSUME Closed(s), NEW k
      PROVE  ItemsOf(Owed(c, k)) = {x \in AllOf(s) : ShardOf(FlushKey(s, x), Replicas[c]) = k}
  <2>1. ASSUME NEW x \in ItemsOf(Owed(c, k))
        PROVE  x \in AllOf(s) /\ ShardOf(FlushKey(s, x), Replicas[c]) = k
    <3>1. PICK m \in sent[c] : m.node = k /\ x \in m.items
      BY DEF ItemsOf, Owed
    <3>2. PICK n \in Nodes(s) : m \in Out(s, n, c)
      BY <1>4
    <3>3. x \in FlushData(s, mem[s][n]) /\ ShardOf(FlushKey(s, x), Replicas[c]) = k
      BY <1>6, <3>1, <3>2
    <3>4. QED
      BY <3>3 DEF AllOf
  <2>2. ASSUME NEW x \in AllOf(s), ShardOf(FlushKey(s, x), Replicas[c]) = k
        PROVE  x \in ItemsOf(Owed(c, k))
    <3>1. PICK n \in Nodes(s) : x \in FlushData(s, mem[s][n])
      BY DEF AllOf
    <3>2. PICK m \in Out(s, n, c) : x \in m.items
      BY <1>6, <3>1
    <3>3. m \in sent[c] /\ m.node = k
      BY <1>4, <1>6, <1>7, <2>2, <3>2 DEF Closed
    <3>4. QED
      BY <3>2, <3>3 DEF ItemsOf, Owed
  <2>3. QED
    BY <2>1, <2>2
<1>8. QED
  BY <1>4, <1>5, <1>7 DEF s, c

\* A replica that has flushed had read all that its stage was sent, and the
\* stage before was closed.
LEMMA FlushedHasRead ==
  ASSUME Base, NEW s, NEW n, <<s, n>> \in flushed
  PROVE  /\ AllRead(s)
         /\ \A i \in DOMAIN MyRoute : MyRoute[i] = s /\ i > 1 => Closed(MyRoute[i - 1])
<1> DEFINE p == <<s, n>>
<1>1. p[1] = s
  OBVIOUS
<1>2. p \in flushed
  OBVIOUS
<1> HIDE DEF p
<1>3. QED
  BY <1>1, <1>2 DEF Base, Closings

LEMMA ClosedHasRead ==
  ASSUME Base, NEW s \in Stages, Closed(s)
  PROVE  /\ AllRead(s)
         /\ \A i \in DOMAIN MyRoute : MyRoute[i] = s /\ i > 1 => Closed(MyRoute[i - 1])
<1>1. s \in Receivers
  BY Names
<1>2. 0 \in Nodes(s)
  BY <1>1, ReplicasOf
<1>3. <<s, 0>> \in flushed
  BY <1>2 DEF Closed
<1>4. QED
  BY <1>3, FlushedHasRead

LEMMA AllReadMem ==
  ASSUME Contents, NEW s \in Unions, NEW n \in Nodes(s), AllRead(s)
  PROVE  mem[s][n] = ItemsOf(Owed(s, n))
<1>1. Read(s, n) = Owed(s, n)
  BY DEF Read, Owed, AllRead
<1>2. QED
  BY <1>1 DEF Contents

-----------------------------------------------------------------------------
(* Query 4 *)

Transfers == UsdOfPeriod(All, 1)

\* _shard_of of an account at stage s, and of the ends of a path.
AccountShard(s) == [a \in Nat |-> ShardOf(a, Replicas[s])]
EndsShard(s)    == [p \in Nat \X Nat |-> ShardOf(p[1] + 2 * p[2], Replicas[s])]

LEMMA TransfersTyped ==
  ASSUME input \in Inputs
  PROVE  /\ All \subseteq Transactions /\ IsFiniteSet(All)
         /\ Transfers \subseteq Transactions /\ IsFiniteSet(Transfers)
<1> DEFINE D == DOMAIN input.batches
           F == {input.batches[b] : b \in D}
           f == [b \in D |-> input.batches[b]]
<1>1. IsFiniteSet(D) /\ \A T \in F : IsFiniteSet(T) /\ T \subseteq Transactions
  BY InputTyped
<1>2. f \in Surjection(D, F)
  BY DEF Surjection
<1>3. All = UNION F
  BY DEF All
<1> HIDE DEF f, F
<1>4. IsFiniteSet(F)
  BY <1>1, <1>2, FS_Surjection
<1>5. IsFiniteSet(All) /\ All \subseteq Transactions
  BY <1>1, <1>3, <1>4, FS_UNION
<1>6. QED
  BY <1>5, FS_Subset DEF Transfers, UsdOfPeriod

\* BidirectionalSharder: each replica is owed the edges of its accounts.
LEMMA EdgesOwed ==
  ASSUME Base, input.query = "q4", NEW k
  PROVE  ItemsOf(Owed("account_frequency_filter", k)) =
           {e \in BothDirections(Transfers) :
              ShardOf(e.account, Replicas["account_frequency_filter"]) = k}
<1> DEFINE c == "account_frequency_filter"
           r == Replicas[c]
           D == DOMAIN input.batches
           E(b) == BothDirections(UsdOfPeriod(input.batches[b], 1))
           Of(b) == EdgeMessages(b, input.batches[b])
           M(b, j) == Message(j, RootId(b), {e \in E(b) : ShardOf(e.account, r) = j})
<1>1. sent[c] = Source(c) /\ c \in MyStages(input.query)
  BY FrontStages, Routes DEF MyStages, MyRoute
<1>2. \A b : SourceMessages(input.query, c, b, input.batches[b]) = Of(b)
  BY DEF SourceMessages
<1>3. \A m : m \in sent[c] <=> \E b \in D : m \in Of(b)
  BY <1>1, <1>2 DEF Source
<1>4. \A b : \A m : m \in Of(b) <=>
        \E j \in {ShardOf(e.account, r) : e \in E(b)} : m = M(b, j)
  BY DEF EdgeMessages
<1>5. \A e : e \in BothDirections(Transfers) <=> \E b \in D : e \in E(b)
  <2>1. ASSUME NEW e \in BothDirections(Transfers) PROVE \E b \in D : e \in E(b)
    <3>1. PICK t \in Transfers : e = Sent(t) \/ e = Got(t)
      BY InBothDirections
    <3>2. PICK b \in D : t \in UsdOfPeriod(input.batches[b], 1)
      BY DEF Transfers, All, UsdOfPeriod
    <3>3. QED
      BY <3>1, <3>2, InBothDirections
  <2>2. ASSUME NEW b \in D, NEW e \in E(b) PROVE e \in BothDirections(Transfers)
    <3>1. PICK t \in UsdOfPeriod(input.batches[b], 1) : e = Sent(t) \/ e = Got(t)
      BY InBothDirections
    <3>2. t \in Transfers
      BY DEF Transfers, All, UsdOfPeriod
    <3>3. QED
      BY <3>1, <3>2, InBothDirections
  <2>3. QED
    BY <2>1, <2>2
<1>6. \A b, j : M(b, j).node = j /\ M(b, j).items = {e \in E(b) : ShardOf(e.account, r) = j}
  BY MessageFields
<1> HIDE DEF M, Of, E, D, r
<1>7. ASSUME NEW e
      PROVE  e \in ItemsOf(Owed(c, k)) <=> \E b \in D : e \in E(b) /\ ShardOf(e.account, r) = k
  <2>1. ASSUME NEW b \in D, e \in E(b), ShardOf(e.account, r) = k
        PROVE  e \in ItemsOf(Owed(c, k))
    <3>1. M(b, k) \in Of(b)
      BY <1>4, <2>1
    <3>2. M(b, k) \in Owed(c, k) /\ e \in M(b, k).items
      BY <1>3, <1>6, <2>1, <3>1 DEF Owed
    <3>3. QED
      BY <3>2 DEF ItemsOf
  <2>2. ASSUME e \in ItemsOf(Owed(c, k))
        PROVE  \E b \in D : e \in E(b) /\ ShardOf(e.account, r) = k
    <3>1. PICK m \in sent[c] : m.node = k /\ e \in m.items
      BY <2>2 DEF ItemsOf, Owed
    <3>2. PICK b \in D : m \in Of(b)
      BY <1>3, <3>1
    <3>3. PICK j : m = M(b, j)
      BY <1>4, <3>2
    <3>4. QED
      BY <1>6, <3>1, <3>3
  <2>3. QED
    BY <2>1, <2>2
<1>8. QED
  BY <1>5, <1>7 DEF r

LEMMA NotFromTheFront ==
  ASSUME NEW c \in {"path_mapper", "path_frequency_filter", "duplicate_account_filter",
                    "bank_max_reducer", "bank_mapper", "low_amount_reducer"}
  PROVE  Source(c) = {}
<1>1. \A b : SourceMessages(input.query, c, b, input.batches[b]) = {}
  BY DEF SourceMessages
<1>2. QED
  BY <1>1 DEF Source

\* What a stage that is not fed by the front holds when it has read all.
LEMMA MemOfShard ==
  ASSUME Inductive, input.query = "q4", NEW i \in {1, 2, 3}, Closed(MyRoute[i]),
         AllRead(MyRoute[i + 1]), NEW k \in Nodes(MyRoute[i + 1])
  PROVE  mem[MyRoute[i + 1]][k] =
           {x \in AllOf(MyRoute[i]) :
              ShardOf(FlushKey(MyRoute[i], x), Replicas[MyRoute[i + 1]]) = k}
<1> DEFINE s == MyRoute[i]
           c == MyRoute[i + 1]
<1>1. /\ i \in DOMAIN MyRoute /\ s # "payment_format_reducer" /\ Consumer(i) = c
      /\ c \in {"path_mapper", "path_frequency_filter", "duplicate_account_filter"}
  BY Routes
<1>2. Base /\ Contents
  BY DEF Inductive
<1>3. ItemsOf(Owed(c, k)) = {x \in AllOf(s) : ShardOf(FlushKey(s, x), Replicas[c]) = k}
  BY <1>1, <1>2, NotFromTheFront, OwedItems
<1>4. c \in Unions
  BY <1>1 DEF Unions
<1>5. mem[c][k] = ItemsOf(Owed(c, k))
  BY <1>2, <1>4, AllReadMem
<1>6. QED
  BY <1>3, <1>5

\* Each closed stage of query 4 has flushed what one replica would have.
LEMMA Query4Stages ==
  ASSUME Inductive, input.query = "q4"
  PROVE  /\ Closed("account_frequency_filter") =>
              AllOf("account_frequency_filter") = FrequentEdges(BothDirections(Transfers))
         /\ Closed("path_mapper") =>
              AllOf("path_mapper") = Paths(FrequentEdges(BothDirections(Transfers)))
         /\ Closed("path_frequency_filter") =>
              AllOf("path_frequency_filter") = ExpectedAccounts(Transfers)
<1> DEFINE aff == "account_frequency_filter"
           pm  == "path_mapper"
           pff == "path_frequency_filter"
           E == BothDirections(Transfers)
           F == FrequentEdges(E)
           P == Paths(F)
<1>1. Base /\ Contents /\ input \in Inputs
  BY DEF Inductive, Base, Shapes
<1>2. /\ MyRoute[1] = aff /\ MyRoute[2] = pm /\ MyRoute[3] = pff
      /\ 1 \in DOMAIN MyRoute /\ 2 \in DOMAIN MyRoute /\ 3 \in DOMAIN MyRoute
  BY Routes
<1>3. /\ aff \in Stages /\ pm \in Stages /\ pff \in Stages
      /\ aff \in Receivers /\ pm \in Receivers /\ pff \in Receivers
  BY Names
<1>4. /\ E \subseteq EdgeItems /\ F \subseteq EdgeItems /\ P \subseteq PathItems
  <2>1. E \subseteq EdgeItems /\ IsFiniteSet(E)
    BY <1>1, TransfersTyped, EdgesTyped
  <2>2. F \subseteq EdgeItems /\ IsFiniteSet(F)
    BY <2>1, FrequentEdgesTyped
  <2>3. QED
    BY <2>1, <2>2, PathsTyped
<1>5. /\ \A e \in EdgeItems : e.account \in Nat
      /\ \A p \in PathItems : p.from \in Nat /\ p.to \in Nat
  BY DEF EdgeItems, PathItems
<1>6. ASSUME NEW s \in Receivers, NEW D, D \subseteq EdgeItems
      PROVE  /\ \A e \in D : /\ AccountShard(s)[e.account] \in Nodes(s)
                             /\ AccountShard(s)[e.account] = ShardOf(e.account, Replicas[s])
             /\ \A k : EdgesOf(D, AccountShard(s), k)
                         = {e \in D : ShardOf(e.account, Replicas[s]) = k}
  <2>1. \A e \in D : AccountShard(s)[e.account] = ShardOf(e.account, Replicas[s])
    BY <1>5, <1>6 DEF AccountShard
  <2>2. \A e \in D : ShardOf(e.account, Replicas[s]) \in Nodes(s)
    BY <1>5, <1>6, ReplicasOf, ShardInRange
  <2>3. QED
    BY <2>1, <2>2 DEF EdgesOf
<1> HIDE DEF E, F, P
<1>7. ASSUME Closed(aff) PROVE AllOf(aff) = F
  <2>1. AllRead(aff)
    BY <1>1, <1>3, <1>7, ClosedHasRead
  <2>2. ASSUME NEW k \in Nodes(aff) PROVE mem[aff][k] = EdgesOf(E, AccountShard(aff), k)
    <3>1. mem[aff][k] = ItemsOf(Owed(aff, k))
      BY <1>1, <2>1, AllReadMem DEF Unions
    <3>2. ItemsOf(Owed(aff, k)) = {e \in E : ShardOf(e.account, Replicas[aff]) = k}
      BY <1>1, EdgesOwed DEF E
    <3>3. EdgesOf(E, AccountShard(aff), k) = {e \in E : ShardOf(e.account, Replicas[aff]) = k}
      BY <1>3, <1>4, <1>6
    <3>4. QED
      BY <3>1, <3>2, <3>3
  <2>3. AllOf(aff) = ShardedEdges(E, AccountShard(aff), Nodes(aff))
    <3>1. \A k : FlushData(aff, mem[aff][k]) = FrequentEdges(mem[aff][k])
      BY DEF FlushData
    <3>2. QED
      BY <2>2, <3>1 DEF AllOf, ShardedEdges
  <2>4. QED
    BY <1>3, <1>4, <1>6, <2>3, FrequentEdgesAreSharded DEF F
<1>8. ASSUME Closed(pm) PROVE AllOf(pm) = P
  <2>1. AllRead(pm) /\ Closed(aff)
    BY <1>1, <1>2, <1>3, <1>8, ClosedHasRead
  <2>2. ASSUME NEW k \in Nodes(pm) PROVE mem[pm][k] = EdgesOf(F, AccountShard(pm), k)
    <3>1. mem[pm][k] = {x \in AllOf(aff) : ShardOf(FlushKey(aff, x), Replicas[pm]) = k}
      BY <1>2, <2>1, MemOfShard
    <3>2. AllOf(aff) = F /\ \A x \in F : FlushKey(aff, x) = x.account
      BY <1>4, <1>7, <2>1, KeyTyped
    <3>3. mem[pm][k] = {x \in F : ShardOf(x.account, Replicas[pm]) = k}
      BY <3>1, <3>2
    <3>4. QED
      BY <1>3, <1>4, <1>6, <3>3
  <2>3. AllOf(pm) = ShardedPaths(F, AccountShard(pm), Nodes(pm))
    <3>1. \A k : FlushData(pm, mem[pm][k]) = Paths(mem[pm][k])
      BY DEF FlushData
    <3>2. QED
      BY <2>2, <3>1 DEF AllOf, ShardedPaths
  <2>4. QED
    BY <1>3, <1>4, <1>6, <2>3, PathsAreSharded DEF P
<1>9. ASSUME Closed(pff) PROVE AllOf(pff) = FrequentEnds(P)
  <2>1. AllRead(pff) /\ Closed(pm)
    BY <1>1, <1>2, <1>3, <1>9, ClosedHasRead
  <2> DEFINE f == EndsShard(pff)
  <2>2. \A p \in P : f[<<p.from, p.to>>] = ShardOf(p.from + 2 * p.to, Replicas[pff])
    <3>1. ASSUME NEW p \in P
          PROVE  f[<<p.from, p.to>>] = ShardOf(p.from + 2 * p.to, Replicas[pff])
      <4> DEFINE e == <<p.from, p.to>>
      <4>1. e \in Nat \X Nat /\ e[1] = p.from /\ e[2] = p.to
        BY <1>4, <1>5
      <4> HIDE DEF e
      <4>2. f[e] = ShardOf(e[1] + 2 * e[2], Replicas[pff])
        BY <4>1 DEF EndsShard
      <4>3. QED
        BY <4>1, <4>2 DEF e
    <3>2. QED
      BY <3>1
  <2>3. \A p \in P : f[<<p.from, p.to>>] \in Nodes(pff)
    <3>1. \A p \in P : p.from + 2 * p.to \in Nat
      BY <1>4, <1>5
    <3> HIDE DEF f
    <3>2. Replicas[pff] \in Nat \ {0} /\ Nodes(pff) = 0 .. Replicas[pff] - 1
      BY <1>3, ReplicasOf
    <3>3. \A p \in P : ShardOf(p.from + 2 * p.to, Replicas[pff]) \in Nodes(pff)
      BY <3>1, <3>2, ShardInRange
    <3>4. QED
      BY <2>2, <3>3
  <2> HIDE DEF f
  <2>4. ASSUME NEW k \in Nodes(pff) PROVE mem[pff][k] = PathsOf(P, f, k)
    <3>1. mem[pff][k] = {x \in AllOf(pm) : ShardOf(FlushKey(pm, x), Replicas[pff]) = k}
      BY <1>2, <2>1, MemOfShard
    <3>2. AllOf(pm) = P /\ \A x \in P : FlushKey(pm, x) = x.from + 2 * x.to
      BY <1>4, <1>8, <2>1, KeyTyped
    <3>3. QED
      BY <2>2, <3>1, <3>2 DEF PathsOf
  <2>5. AllOf(pff) = ShardedEnds(P, f, Nodes(pff))
    <3>1. \A k : FlushData(pff, mem[pff][k]) = FrequentEnds(mem[pff][k])
      BY DEF FlushData
    <3>2. QED
      BY <2>4, <3>1 DEF AllOf, ShardedEnds
  <2>6. QED
    BY <2>3, <2>5, FrequentEndsAreSharded
<1>10. FrequentEnds(P) = ExpectedAccounts(Transfers)
  BY <1>1, TransfersTyped, AnswerIsExpected DEF Answer, P, F, E
<1>11. QED
  BY <1>7, <1>8, <1>9, <1>10 DEF E, F, P

\* Query 4: each account once, from the replica of its shard.
LEMMA Answers4 ==
  ASSUME Inductive, input.query = "q4"
  PROVE  Answers
<1> DEFINE s == "duplicate_account_filter"
           c == "client"
           X == ExpectedAccounts(Transfers)
           r == Replicas[s]
<1>1. Base /\ Contents /\ Shapes /\ input \in Inputs /\ ~HasJoin
  BY JoinNames DEF Inductive, Base, Shapes
<1>2. /\ 4 \in DOMAIN MyRoute /\ MyRoute[4] = s /\ Consumer(4) = c /\ Last = s
      /\ MyRoute[3] = "path_frequency_filter"
  BY Routes DEF Last
<1>3. Source(c) = {}
  <2>1. \A b : SourceMessages(input.query, c, b, input.batches[b]) = {}
    BY DEF SourceMessages
  <2>2. QED
    BY <2>1 DEF Source
<1>4. /\ \A m : m \in sent[c] <=>
           \E n \in Nodes(s) : <<s, n>> \in flushed /\ m \in Out(s, n, c)
      /\ \A n \in Nodes(s) : FlushOf(4, n)
      /\ Closed(s) => \A k : ItemsOf(Owed(c, k)) =
           {x \in AllOf(s) : ShardOf(FlushKey(s, x), Replicas[c]) = k}
  BY <1>1, <1>2, <1>3, OwedItems
<1>5. \A n : FlushData(s, mem[s][n]) = mem[s][n]
  BY DEF FlushData
<1>6. s \in Stages /\ s \in Receivers /\ c \in Receivers
  BY Names
<1> HIDE DEF X
<1>7. ASSUME NEW n \in Nodes(s), <<s, n>> \in flushed
      PROVE  \A k \in Nodes(s) : mem[s][k] = {x \in X : ShardOf(x, r) = k}
  <2>1. AllRead(s) /\ Closed("path_frequency_filter")
    BY <1>1, <1>2, <1>7, FlushedHasRead
  <2>2. ASSUME NEW k \in Nodes(s)
        PROVE  mem[s][k] = {x \in X : ShardOf(x, r) = k}
    <3>1. mem[s][k] = {x \in AllOf("path_frequency_filter") :
                         ShardOf(FlushKey("path_frequency_filter", x), r) = k}
      <4>1. MyRoute[3 + 1] = s
        BY <1>2
      <4>2. QED
        BY <1>2, <2>1, <4>1, MemOfShard
    <3>2. /\ AllOf("path_frequency_filter") = X
          /\ \A x \in X : FlushKey("path_frequency_filter", x) = x
      BY <2>1, Query4Stages, KeyTyped DEF X
    <3>3. QED
      BY <3>1, <3>2
  <2>3. QED
    BY <2>2
<1>8. ASSUME NEW m \in sent[c]
      PROVE  \E n \in Nodes(s) : /\ m \in Out(s, n, c)
                                 /\ \A x \in m.items : x \in X /\ ShardOf(x, r) = n
  <2>1. PICK n \in Nodes(s) : <<s, n>> \in flushed /\ m \in Out(s, n, c)
    BY <1>4
  <2>2. m.items \subseteq mem[s][n]
    BY <1>2, <1>4, <1>5, <2>1 DEF FlushOf
  <2>3. QED
    BY <1>7, <2>1, <2>2
<1>9. ExpectedRows = X
  BY DEF ExpectedRows, X, Transfers
<1>10. \A m \in sent[c] : m.items \subseteq ExpectedRows
  BY <1>8, <1>9
<1>11. ASSUME NEW m \in sent[c], NEW x \in sent[c], NEW y \in m.items, y \in x.items
       PROVE  m.id = x.id
  <2>1. PICK n \in Nodes(s) : m \in Out(s, n, c) /\ ShardOf(y, r) = n
    BY <1>8
  <2>2. PICK k \in Nodes(s) : x \in Out(s, k, c) /\ ShardOf(y, r) = k
    BY <1>8, <1>11
  <2>3. n = k /\ FlushOf(4, n)
    BY <1>4, <2>1, <2>2
  <2>4. m = x
    BY <1>2, <1>11, <2>1, <2>2, <2>3 DEF FlushOf
  <2>5. QED
    BY <2>4
<1>12. ASSUME EndIsSent, NEW x \in ExpectedRows PROVE x \in ItemsOf(sent[c])
  <2>1. Closed(s)
    BY <1>2, <1>12 DEF EndIsSent
  <2>2. x \in Nat
    <3>1. \A p : p \in Transfers => p.from \in Nat /\ p.to \in Nat
      BY <1>1, TransfersTyped, TransactionFields
    <3>2. PICK e \in Scatters(Transfers) \X {t.to : t \in Transfers} : x \in {e[1], e[2]}
      BY <1>9, <1>12 DEF X, ExpectedAccounts
    <3>3. e[1] \in {t.from : t \in Transfers} /\ e[2] \in {t.to : t \in Transfers}
      BY <3>2 DEF Scatters
    <3>4. QED
      BY <3>1, <3>2, <3>3
  <2> DEFINE n == ShardOf(x, r)
  <2>3. n \in Nodes(s) /\ <<s, n>> \in flushed
    BY <1>6, <2>1, <2>2, ReplicasOf, ShardInRange DEF Closed
  <2>4. x \in FlushData(s, mem[s][n])
    <3>1. mem[s][n] = {y \in X : ShardOf(y, r) = n}
      BY <1>7, <2>3
    <3>2. QED
      BY <1>5, <1>9, <3>1
  <2> HIDE DEF n
  <2>5. PICK m \in Out(s, n, c) : x \in m.items
    BY <1>2, <1>4, <2>3, <2>4 DEF FlushOf
  <2>6. m \in sent[c]
    BY <1>4, <2>3
  <2>7. QED
    BY <2>5, <2>6 DEF ItemsOf
<1>13. QED
  BY <1>10, <1>11, <1>12 DEF Answers

-----------------------------------------------------------------------------
(* Query 5 *)

\* The low amounts of what the front sends are those of the whole input.
LEMMA LowAmountItems ==
  ASSUME Base, input.query = "q5"
  PROVE  LowAmounts(ItemsOf(sent["low_amount_aggregator"])) = LowAmounts(All)
<1> DEFINE a == "low_amount_aggregator"
           Of(b) == SourceMessages(input.query, a, b, input.batches[b])
<1>1. sent[a] = Source(a)
  BY LowAmountSource
<1>2. a \in MyStages(input.query)
  <2>1. 1 \in DOMAIN MyRoute /\ MyRoute[1] = a
    BY Routes
  <2>2. QED
    BY <2>1 DEF MyStages, MyRoute
<1>3. \A b : Of(b) = {Message(ShardOf(b, Replicas[a]), RootId(b), Payments(input.batches[b]))}
  BY DEF SourceMessages
<1>4. sent[a] = UNION {Of(b) : b \in DOMAIN input.batches}
  BY <1>1, <1>2 DEF Source
<1> HIDE DEF Of
<1>5. \A m : m \in sent[a] <=> \E b \in DOMAIN input.batches : m \in Of(b)
  BY <1>4
<1>6. \A t : t \in ItemsOf(sent[a])
               <=> \E b \in DOMAIN input.batches : t \in Payments(input.batches[b])
  <2>1. ASSUME NEW t \in ItemsOf(sent[a])
        PROVE  \E b \in DOMAIN input.batches : t \in Payments(input.batches[b])
    <3>1. PICK m \in sent[a] : t \in m.items
      BY DEF ItemsOf
    <3>2. PICK b \in DOMAIN input.batches : m \in Of(b)
      BY <1>5
    <3>3. m.items = Payments(input.batches[b])
      BY <1>3, <3>2, MessageFields
    <3>4. QED
      BY <3>1, <3>3
  <2>2. ASSUME NEW b \in DOMAIN input.batches, NEW t \in Payments(input.batches[b])
        PROVE  t \in ItemsOf(sent[a])
    <3> DEFINE m == Message(ShardOf(b, Replicas[a]), RootId(b), Payments(input.batches[b]))
    <3>1. m \in sent[a] /\ m.items = Payments(input.batches[b])
      BY <1>3, <1>5, MessageFields
    <3> HIDE DEF m
    <3>2. QED
      BY <3>1 DEF ItemsOf
  <2>3. QED
    BY <2>1, <2>2
<1>7. \A t : t \in Payments(ItemsOf(sent[a])) <=> t \in Payments(All)
  BY <1>6 DEF Payments, All
<1>8. QED
  BY <1>7 DEF LowAmounts

\* The one replica of the reducer has added every count when it flushes.
LEMMA LowAmountTotal ==
  ASSUME Inductive, input.query = "q5", Replicas["low_amount_reducer"] = 1,
         <<"low_amount_reducer", 0>> \in flushed
  PROVE  mem["low_amount_reducer"][0] = {Cardinality(LowAmounts(All))}
<1> DEFINE a == "low_amount_aggregator"
           c == "low_amount_reducer"
           Count(k) == Cardinality(LowAmounts(ItemsOf(Owed(a, k))))
<1>1. Base /\ Contents
  BY DEF Inductive
<1>2. /\ 2 \in DOMAIN MyRoute /\ MyRoute[2] = c /\ MyRoute[1] = a
      /\ a \in Stages /\ a \in Receivers /\ c \in Receivers
  BY Routes, Names
<1>3. AllRead(c) /\ Closed(a)
  <2>1. /\ AllRead(c)
        /\ \A i \in DOMAIN MyRoute : MyRoute[i] = c /\ i > 1 => Closed(MyRoute[i - 1])
    BY <1>1, FlushedHasRead
  <2>2. QED
    BY <1>2, <2>1
<1>4. AllRead(a)
  BY <1>1, <1>2, <1>3, ClosedHasRead
<1>5. 0 \in Nodes(c)
  BY <1>2, ReplicasOf
<1> HIDE DEF Count
<1>6. ASSUME NEW m \in sent[a] PROVE <<m.node, 0>> \in seen[c][0]
  <2> DEFINE x == Message(0, FlushId(m.node, 0), {Count(m.node)})
  <2>1. m.node \in Nodes(a)
    BY <1>1, <1>2, Deliveries DEF Delivered
  <2>2. <<a, m.node>> \in flushed
    BY <1>3, <2>1 DEF Closed
  <2>3. x \in sent[c]
    BY <1>1, <1>4, <2>1, <2>2, LowAmountCounts DEF Count
  <2>4. x.node = 0 /\ x.id = FlushId(m.node, 0)
    BY MessageFields
  <2> HIDE DEF x
  <2>5. FlushId(m.node, 0) \in seen[c][0]
    BY <1>3, <2>3, <2>4 DEF AllRead
  <2>6. QED
    BY <2>5 DEF FlushId
<1>7. Added(0) = sent[a]
  BY <1>6 DEF Added
<1>8. mem[c][0] = {Cardinality(LowAmounts(ItemsOf(Added(0))))}
  BY <1>1, <1>5 DEF Contents
<1>9. QED
  BY <1>1, <1>7, <1>8, LowAmountItems

\* Query 5: one row, the number of low amounts.  With more than one replica of
\* the reducer each would flush a row of its own, most of them zero.
LEMMA Answers5 ==
  ASSUME Inductive, input.query = "q5", Replicas["low_amount_reducer"] = 1
  PROVE  Answers
<1> DEFINE s == "low_amount_reducer"
           c == "client"
           N == Cardinality(LowAmounts(All))
           x == Message(0, FlushId(0, 0), {N})
<1>1. Base /\ Shapes /\ ~HasJoin
  BY JoinNames DEF Inductive, Base
<1>2. /\ 2 \in DOMAIN MyRoute /\ MyRoute[2] = s /\ Consumer(2) = c /\ Last = s
      /\ s \in Receivers /\ c \in Receivers
  BY Routes, Names DEF Last
<1>3. Nodes(s) = {0}
  <2>1. Nodes(s) = 0 .. 0
    BY <1>2, ReplicasOf
  <2>2. QED
    BY <2>1
<1>4. Source(c) = {}
  <2>1. \A b : SourceMessages(input.query, c, b, input.batches[b]) = {}
    BY DEF SourceMessages
  <2>2. QED
    BY <2>1 DEF Source
<1>5. \A m : m \in sent[c] <=> <<s, 0>> \in flushed /\ m \in Out(s, 0, c)
  <2>1. \A m : m \in sent[c] <=> \E n \in Nodes(s) : <<s, n>> \in flushed /\ m \in Out(s, n, c)
    BY <1>1, <1>2, <1>4, OwedItems
  <2>2. QED
    BY <1>3, <2>1
<1> HIDE DEF N
<1>6. <<s, 0>> \in flushed => Out(s, 0, c) = {x}
  <2> SUFFICES ASSUME <<s, 0>> \in flushed PROVE Out(s, 0, c) = {x}
    OBVIOUS
  <2>1. FlushData(s, mem[s][0]) = {N}
    <3>1. mem[s][0] = {N}
      BY LowAmountTotal DEF N
    <3>2. QED
      BY <3>1 DEF FlushData
  <2>2. FlushKey(s, N) = 0
    BY KeyTyped
  <2>3. Replicas[c] \in Nat \ {0}
    BY <1>2, ReplicasOf
  <2>4. FlushSharded(s, 0, {N}, Replicas[c]) = {x}
    BY <2>2, <2>3, OneFlush
  <2>5. QED
    BY <2>1, <2>4 DEF Out
<1>7. x.items = {N} /\ ExpectedRows = {N}
  BY MessageFields DEF ExpectedRows, N
<1> HIDE DEF x
<1>8. \A m \in sent[c] : m = x
  BY <1>5, <1>6
<1>9. /\ \A m \in sent[c] : m.items \subseteq ExpectedRows
      /\ \A m, y \in sent[c] : \A z \in m.items : z \in y.items => m.id = y.id
  BY <1>7, <1>8
<1>10. ASSUME EndIsSent PROVE ExpectedRows \subseteq ItemsOf(sent[c])
  <2>1. <<s, 0>> \in flushed
    BY <1>2, <1>3, <1>10 DEF EndIsSent, Closed
  <2>2. x \in sent[c]
    BY <1>5, <1>6, <2>1
  <2>3. QED
    BY <1>7, <2>2 DEF ItemsOf
<1>11. QED
  BY <1>9, <1>10 DEF Answers

-----------------------------------------------------------------------------
(* Query 2 *)

\* Each bank of a transaction in dollars has one line, its id written without
\* leading zeros, and no other bank has its name.
Named ==
  /\ \A a \in Accounts : a.bank.number \in Nat /\ a.bank.zeros = 0
  /\ \A a, b \in Accounts : a.bank.number = b.bank.number \/ a.name = b.name => a = b
  /\ \A t \in All : IsUsd(t) => \E a \in Accounts : a.bank.number = t.bank.number

Dollars == {t \in All : IsUsd(t)}

Item(t) == [bank |-> t.bank.number, account |-> t.from, amount |-> t.amount]

\* The items of the banks that hash to k of r replicas.
BankShard(S, r, k) == {x \in S : ShardOf(x.bank, r) = k}

\* The best of each bank in a shard: all that the shard needs are items that
\* cover the others.
LEMMA BestOfShard ==
  ASSUME NEW S, S \subseteq BankItems, NEW T, T \subseteq S, \A x \in S : Covers(T, x),
         NEW r, NEW k
  PROVE  BestOfBanks(BankShard(T, r, k)) = BankShard(BestOfBanks(S), r, k)
<1> DEFINE A == BankShard(S, r, k)
           B == BankShard(T, r, k)
<1>1. A \subseteq BankItems /\ B \subseteq A
  BY DEF BankShard
<1>2. ASSUME NEW x \in A PROVE Covers(B, x)
  <2>1. PICK y \in T : y.bank = x.bank /\ (y = x \/ Beats(y, x))
    BY <1>2 DEF Covers, BankShard
  <2>2. y \in B
    BY <1>2, <2>1 DEF BankShard
  <2>3. QED
    BY <2>1, <2>2 DEF Covers
<1>3. BestOfBanks(A) = BankShard(BestOfBanks(S), r, k)
  <2>1. \A x \in A : \A y : y \in A /\ y.bank = x.bank <=> y \in S /\ y.bank = x.bank
    BY DEF BankShard
  <2>2. \A x : x \in BestOfBanks(A) <=>
                 x \in A /\ ~ \E y \in S : y.bank = x.bank /\ Beats(y, x)
    BY <2>1 DEF BestOfBanks
  <2>3. \A x : x \in BestOfBanks(S) <=>
                 x \in S /\ ~ \E y \in S : y.bank = x.bank /\ Beats(y, x)
    BY DEF BestOfBanks
  <2>4. QED
    BY <2>2, <2>3 DEF BankShard
<1> HIDE DEF A, B
<1>4. BestOfBanks(B) = BestOfBanks(A)
  BY <1>1, <1>2, BestOfPart
<1>5. QED
  BY <1>3, <1>4 DEF B

\* The front sends the aggregators the transactions in dollars.
LEMMA DollarsOwed ==
  ASSUME Base, input.query = "q2"
  PROVE  ItemsOf(sent["bank_max_aggregator"]) = Dollars
<1> DEFINE a == "bank_max_aggregator"
           Of(b) == SourceMessages(input.query, a, b, input.batches[b])
           D(b) == {t \in input.batches[b] : IsUsd(t)}
<1>1. sent[a] = Source(a)
  BY FrontStages
<1>2. a \in MyStages(input.query)
  <2>1. 1 \in DOMAIN MyRoute /\ MyRoute[1] = a
    BY Routes
  <2>2. QED
    BY <2>1 DEF MyStages, MyRoute
<1>3. \A b : Of(b) = {Message(ShardOf(b, Replicas[a]), RootId(b), D(b))}
  BY DEF SourceMessages
<1>4. sent[a] = UNION {Of(b) : b \in DOMAIN input.batches}
  BY <1>1, <1>2 DEF Source
<1> HIDE DEF Of, D
<1>5. \A m : m \in sent[a] <=> \E b \in DOMAIN input.batches : m \in Of(b)
  BY <1>4
<1>6. \A t : t \in ItemsOf(sent[a]) <=> \E b \in DOMAIN input.batches : t \in D(b)
  <2>1. ASSUME NEW t \in ItemsOf(sent[a])
        PROVE  \E b \in DOMAIN input.batches : t \in D(b)
    <3>1. PICK m \in sent[a] : t \in m.items
      BY DEF ItemsOf
    <3>2. PICK b \in DOMAIN input.batches : m \in Of(b)
      BY <1>5
    <3>3. m.items = D(b)
      BY <1>3, <3>2, MessageFields
    <3>4. QED
      BY <3>1, <3>3
  <2>2. ASSUME NEW b \in DOMAIN input.batches, NEW t \in D(b) PROVE t \in ItemsOf(sent[a])
    <3> DEFINE m == Message(ShardOf(b, Replicas[a]), RootId(b), D(b))
    <3>1. m \in sent[a] /\ m.items = D(b)
      BY <1>3, <1>5, MessageFields
    <3> HIDE DEF m
    <3>2. QED
      BY <3>1 DEF ItemsOf
  <2>3. QED
    BY <2>1, <2>2
<1>7. \A t : t \in Dollars <=> \E b \in DOMAIN input.batches : t \in D(b)
  BY DEF Dollars, All, D
<1>8. QED
  BY <1>6, <1>7

\* What the aggregators flush together covers every item of the input.
LEMMA AggregatorsCover ==
  ASSUME Inductive, input.query = "q2", Closed("bank_max_aggregator")
  PROVE  LET S == BankItemsOf(Dollars)
             T == AllOf("bank_max_aggregator")
         IN  /\ S \subseteq BankItems /\ IsFiniteSet(S) /\ T \subseteq S
             /\ \A x \in S : Covers(T, x)
<1> DEFINE a == "bank_max_aggregator"
           S == BankItemsOf(Dollars)
           T == AllOf(a)
           Of(n) == BankItemsOf(ItemsOf(Owed(a, n)))
<1>1. Base /\ Contents /\ input \in Inputs
  BY DEF Inductive, Base, Shapes
<1>2. a \in Stages /\ a \in Receivers /\ AllRead(a)
  BY <1>1, Names, ClosedHasRead
<1>3. S \subseteq BankItems /\ IsFiniteSet(S)
  <2>1. All \subseteq Transactions /\ IsFiniteSet(All)
    BY <1>1, TransfersTyped
  <2>2. Dollars \subseteq Transactions /\ IsFiniteSet(Dollars)
    BY <2>1, FS_Subset DEF Dollars
  <2>3. QED
    BY <2>2, BankMaximaTyped
<1>4. ItemsOf(sent[a]) = Dollars
  BY <1>1, DollarsOwed
<1>5. \A n \in Nodes(a) : Of(n) \subseteq S /\ Of(n) \subseteq BankItems /\ IsFiniteSet(Of(n))
  <2>1. \A n : Of(n) \subseteq S
    BY <1>4 DEF BankItemsOf, ItemsOf, Owed
  <2>2. QED
    BY <1>3, <2>1, FS_Subset
<1>6. ASSUME NEW n \in Nodes(a) PROVE FlushData(a, mem[a][n]) = BestOfBanks(Of(n))
  <2>1. Read(a, n) = Owed(a, n)
    BY <1>2 DEF Read, Owed, AllRead
  <2>2. mem[a][n] = BestOfBanks(Of(n))
    BY <1>1, <2>1 DEF Contents
  <2>3. QED
    BY <2>2 DEF FlushData
<1>7. ASSUME NEW x \in S PROVE \E n \in Nodes(a) : x \in Of(n)
  <2>1. PICK t \in Dollars : x = Item(t)
    BY DEF BankItemsOf, Item
  <2>2. PICK m \in sent[a] : t \in m.items
    BY <1>4 DEF ItemsOf
  <2>3. m.node \in Nodes(a)
    BY <1>1, <1>2, Deliveries DEF Delivered
  <2>4. t \in ItemsOf(Owed(a, m.node))
    BY <2>2 DEF ItemsOf, Owed
  <2>5. x \in Of(m.node)
    BY <2>1, <2>4 DEF BankItemsOf, Item
  <2>6. QED
    BY <2>3, <2>5
<1> HIDE DEF S, Of
<1>8. T = UNION {BestOfBanks(Of(n)) : n \in Nodes(a)}
  BY <1>6 DEF AllOf
<1>9. T \subseteq S
  BY <1>5, <1>8, BestIn
<1>10. ASSUME NEW x \in S PROVE Covers(T, x)
  <2>1. PICK n \in Nodes(a) : x \in Of(n)
    BY <1>7
  <2>2. Covers(BestOfBanks(Of(n)), x)
    BY <1>5, <2>1, BestCovers
  <2>3. BestOfBanks(Of(n)) \subseteq T
    BY <1>8
  <2>4. QED
    BY <2>2, <2>3 DEF Covers
<1>11. QED
  BY <1>3, <1>9, <1>10 DEF S

\* A replica of the reducer that may flush has the best of the banks of its
\* shard, of the whole input.
LEMMA ReducerHasBest ==
  ASSUME Inductive, input.query = "q2",
         NEW n \in Nodes("bank_max_reducer"), <<"bank_max_reducer", n>> \in flushed
  PROVE  mem["bank_max_reducer"][n] =
           BankShard(BestOfBanks(BankItemsOf(Dollars)), Replicas["bank_max_reducer"], n)
<1> DEFINE a == "bank_max_aggregator"
           s == "bank_max_reducer"
           r == Replicas[s]
           S == BankItemsOf(Dollars)
           T == AllOf(a)
<1>1. Base /\ Contents /\ Shapes /\ input \in Inputs
  BY DEF Inductive, Base, Shapes
<1>2. /\ 1 \in DOMAIN MyRoute /\ 2 \in DOMAIN MyRoute
      /\ MyRoute[1] = a /\ MyRoute[2] = s /\ Consumer(1) = s
  BY Routes
<1>3. AllRead(s) /\ Closed(a)
  <2>1. /\ AllRead(s)
        /\ \A i \in DOMAIN MyRoute : MyRoute[i] = s /\ i > 1 => Closed(MyRoute[i - 1])
    BY <1>1, FlushedHasRead
  <2>2. QED
    BY <1>2, <2>1
<1>4. /\ S \subseteq BankItems /\ T \subseteq S /\ \A x \in S : Covers(T, x)
  BY <1>3, AggregatorsCover
<1>5. ItemsOf(Owed(s, n)) = {x \in T : ShardOf(FlushKey(a, x), r) = n}
  <2>1. Source(s) = {}
    BY NotFromTheFront
  <2>2. QED
    BY <1>1, <1>2, <1>3, <2>1, OwedItems
<1>6. ItemsOf(Owed(s, n)) = BankShard(T, r, n)
  <2>1. \A x \in T : FlushKey(a, x) = x.bank
    BY <1>4, KeyTyped
  <2>2. QED
    BY <1>5, <2>1 DEF BankShard
<1>7. mem[s][n] = BestOfBanks(ItemsOf(Owed(s, n)))
  <2>1. Read(s, n) = Owed(s, n)
    BY <1>3 DEF Read, Owed, AllRead
  <2>2. QED
    BY <1>1, <2>1 DEF Contents
<1> HIDE DEF S, T, r
<1>8. BestOfBanks(BankShard(T, r, n)) = BankShard(BestOfBanks(S), r, n)
  BY <1>4, BestOfShard
<1>9. QED
  BY <1>6, <1>7, <1>8 DEF S, r

\* The reference's largest transactions of each bank are the best items.
LEMMA LargestAreBest ==
  ASSUME input \in Inputs, NEW t \in Dollars
  PROVE  Item(t) \in BestOfBanks(BankItemsOf(Dollars))
           <=> \A u \in {x \in Dollars : x.bank.number = t.bank.number} :
                 u.amount < t.amount \/ (u.amount = t.amount /\ u.from >= t.from)
<1>1. \A u \in Dollars : u.amount \in Nat /\ u.from \in Nat
  <2>1. Dollars \subseteq Transactions
    BY TransfersTyped DEF Dollars
  <2>2. QED
    BY <2>1, TransactionFields
<1>2. \A u : /\ Item(u).bank = u.bank.number /\ Item(u).account = u.from
             /\ Item(u).amount = u.amount
  BY DEF Item
<1>3. \A y : y \in BankItemsOf(Dollars) <=> \E u \in Dollars : y = Item(u)
  BY DEF BankItemsOf, Item
<1>4. Item(t) \in BestOfBanks(BankItemsOf(Dollars))
        <=> \A u \in Dollars : u.bank.number = t.bank.number => ~Beats(Item(u), Item(t))
  BY <1>2, <1>3 DEF BestOfBanks
<1>5. ASSUME NEW u \in Dollars
      PROVE  ~Beats(Item(u), Item(t))
               <=> u.amount < t.amount \/ (u.amount = t.amount /\ u.from >= t.from)
  <2>1. Beats(Item(u), Item(t))
          <=> u.amount > t.amount \/ (u.amount = t.amount /\ u.from < t.from)
    BY <1>2 DEF Beats
  <2>2. u.amount \in Nat /\ u.from \in Nat /\ t.amount \in Nat /\ t.from \in Nat
    BY <1>1
  <2>3. QED
    BY <2>1, <2>2
<1>6. QED
  BY <1>4, <1>5

\* What a row of query 2 is.
LEMMA BankRows ==
  ASSUME input \in Inputs, input.query = "q2", NEW x
  PROVE  x \in ExpectedRows <=>
           \E a \in Accounts : \E y \in BestOfBanks(BankItemsOf(Dollars)) :
             /\ a.bank.number = y.bank
             /\ x = [name |-> a.name, account |-> y.account, amount |-> y.amount]
<1> DEFINE Largest(t) ==
             \A u \in {z \in Dollars : z.bank.number = t.bank.number} :
               \/ u.amount < t.amount
               \/ u.amount = t.amount /\ u.from >= t.from
           Row(a, t) == [name |-> a.name, account |-> t.from, amount |-> t.amount]
           W == BestOfBanks(BankItemsOf(Dollars))
<1>1. ExpectedRows =
        UNION {{Row(a, t) : t \in {z \in Dollars : z.bank.number = a.bank.number /\ Largest(z)}} :
                 a \in Accounts}
  BY DEF ExpectedRows, ExpectedBankMaxima, Dollars
<1>2. \A t \in Dollars : Item(t) \in W <=> Largest(t)
  BY LargestAreBest
<1>3. \A y \in W : \E t \in Dollars : y = Item(t)
  BY BestIn DEF BankItemsOf, Item
<1>4. \A t : /\ Item(t).bank = t.bank.number /\ Item(t).account = t.from
             /\ Item(t).amount = t.amount
  BY DEF Item
<1> HIDE DEF Largest, W
<1>5. x \in ExpectedRows <=>
        \E a \in Accounts : \E t \in Dollars :
          t.bank.number = a.bank.number /\ Largest(t) /\ x = Row(a, t)
  BY <1>1
<1>6. ASSUME NEW a \in Accounts
      PROVE  (\E t \in Dollars : t.bank.number = a.bank.number /\ Largest(t) /\ x = Row(a, t))
             <=> \E y \in W : /\ a.bank.number = y.bank
                              /\ x = [name |-> a.name, account |-> y.account,
                                      amount |-> y.amount]
  <2>1. ASSUME NEW t \in Dollars, t.bank.number = a.bank.number, Largest(t), x = Row(a, t)
        PROVE  /\ Item(t) \in W /\ a.bank.number = Item(t).bank
               /\ x = [name |-> a.name, account |-> Item(t).account,
                       amount |-> Item(t).amount]
    BY <1>2, <1>4, <2>1
  <2>2. ASSUME NEW y \in W, a.bank.number = y.bank,
               x = [name |-> a.name, account |-> y.account, amount |-> y.amount]
        PROVE  \E t \in Dollars : t.bank.number = a.bank.number /\ Largest(t) /\ x = Row(a, t)
    <3>1. PICK t \in Dollars : y = Item(t)
      BY <1>3
    <3>2. t.bank.number = a.bank.number /\ Largest(t) /\ x = Row(a, t)
      BY <1>2, <1>4, <2>2, <3>1
    <3>3. QED
      BY <3>2
  <2>3. QED
    BY <2>1, <2>2
<1>7. QED
  BY <1>5, <1>6 DEF W

\* The mapper of a bank's shard knows the bank's name.
LEMMA NameKnown ==
  ASSUME Named, NEW a \in Accounts, NEW n,
         ShardOf(a.bank.number, Replicas["bank_mapper"]) = n
  PROVE  NameOf(n, a.bank.number) = a.name
<1>1. a.bank.number \in Nat /\ a.bank.zeros = 0
  BY DEF Named
<1>2. a.bank.number + 10 * a.bank.zeros = a.bank.number
  BY <1>1
<1>3. a \in NamesOf(n)
  BY <1>2 DEF NamesOf
<1>4. \A b \in NamesOf(n) : b.bank.number = a.bank.number => b = a
  BY DEF Named, NamesOf
<1>5. (CHOOSE b \in NamesOf(n) : b.bank.number = a.bank.number) = a
  BY <1>3, <1>4
<1>6. QED
  BY <1>3, <1>5 DEF NameOf

\* Query 2: one row for each best item, under the name of its bank.
LEMMA Answers2 ==
  ASSUME Inductive, input.query = "q2", Named
  PROVE  Answers
<1> DEFINE s == "bank_max_reducer"
           c == "bank_mapper"
           W == BestOfBanks(BankItemsOf(Dollars))
           Row(a, y) == [name |-> a.name, account |-> y.account, amount |-> y.amount]
<1>1. Base /\ Contents /\ Shapes /\ Flows /\ input \in Inputs /\ HasJoin
      /\ Joins[input.query] = c
  BY JoinNames DEF Inductive, Base, Shapes
<1>2. /\ 2 \in DOMAIN MyRoute /\ MyRoute[2] = s /\ Consumer(2) = c /\ Last = s
      /\ s \in Receivers /\ c \in Receivers
  BY Routes, Names DEF Last
<1>3. \A n \in Nodes(s) : FlushOf(2, n)
  BY <1>1, <1>2, RouteSteps, InputTyped, FlushIs DEF Base
<1>4. \A n \in Nodes(s) : <<s, n>> \in flushed =>
        mem[s][n] = {x \in W : ShardOf(x.bank, Replicas[s]) = n}
  BY ReducerHasBest DEF BankShard
<1>5. \A y \in W : /\ y \in BankItems
                   /\ \E a \in Accounts : a.bank.number = y.bank
  <2>1. BankItemsOf(Dollars) \subseteq BankItems
    <3>1. Dollars \subseteq Transactions /\ IsFiniteSet(Dollars)
      BY <1>1, TransfersTyped, FS_Subset DEF Dollars
    <3>2. QED
      BY <3>1, BankMaximaTyped
  <2>2. \A y \in W : \E t \in Dollars : y = Item(t)
    BY BestIn DEF BankItemsOf, Item
  <2>3. \A t \in Dollars : \E a \in Accounts : a.bank.number = t.bank.number
    BY DEF Named, Dollars
  <2>4. \A t : Item(t).bank = t.bank.number
    BY DEF Item
  <2>5. W \subseteq BankItems
    BY <2>1, BestIn
  <2> HIDE DEF W
  <2>6. QED
    BY <2>2, <2>3, <2>4, <2>5
<1>6. \A x : x \in ExpectedRows <=>
        \E a \in Accounts : \E y \in W : a.bank.number = y.bank /\ x = Row(a, y)
  BY <1>1, BankRows
<1> HIDE DEF W
<1>7. ASSUME NEW m \in sent[c]
      PROVE  \E n \in Nodes(s) :
               /\ <<s, n>> \in flushed /\ m \in Out(s, n, c) /\ m.items \subseteq W
               /\ \A y \in m.items : /\ ShardOf(y.bank, Replicas[s]) = n
                                     /\ ShardOf(y.bank, Replicas[c]) = m.node
  <2>1. PICK n \in Nodes(s) :
               /\ <<s, n>> \in flushed /\ m \in Out(s, n, c) /\ m.items \subseteq mem[s][n]
               /\ \A y \in m.items : /\ ShardOf(y.bank, Replicas[s]) = n
                                     /\ ShardOf(y.bank, Replicas[c]) = m.node
    BY <1>1, MapperMessages
  <2>2. QED
    BY <1>4, <2>1
<1>8. ASSUME NEW m \in sent[c], NEW y \in m.items, NEW a \in Accounts, a.bank.number = y.bank
      PROVE  NameOf(m.node, y.bank) = a.name
  <2>1. ShardOf(a.bank.number, Replicas[c]) = m.node
    BY <1>7, <1>8
  <2>2. QED
    BY <1>8, <2>1, NameKnown
<1>9. \A m : Joined(m) = {[name |-> NameOf(m.node, y.bank), account |-> y.account,
                           amount |-> y.amount] : y \in m.items}
  BY DEF Joined
<1>10. ASSUME NEW m \in sent[c], NEW x
       PROVE  x \in Joined(m) <=> \E a \in Accounts : \E y \in m.items :
                                    a.bank.number = y.bank /\ x = Row(a, y)
  <2>1. \A y \in m.items : \E a \in Accounts : a.bank.number = y.bank
    BY <1>5, <1>7
  <2>2. \A y \in m.items : \A a \in Accounts : a.bank.number = y.bank =>
          [name |-> NameOf(m.node, y.bank), account |-> y.account, amount |-> y.amount]
            = Row(a, y)
    BY <1>8
  <2>3. x \in Joined(m) <=>
          \E y \in m.items :
            x = [name |-> NameOf(m.node, y.bank), account |-> y.account, amount |-> y.amount]
    BY <1>9
  <2> HIDE DEF Row
  <2>4. QED
    BY <2>1, <2>2, <2>3
<1>11. \A x \in sent["client"] :
         \E m \in sent[c] : x.id = m.id /\ x.items = Joined(m)
  BY <1>1, RelayedFields DEF Flows
<1>12. \A x \in sent["client"] : x.items \subseteq ExpectedRows
  <2>1. \A m \in sent[c] : m.items \subseteq W
    BY <1>7
  <2>2. \A m \in sent[c] : Joined(m) \subseteq ExpectedRows
    BY <1>6, <1>10, <2>1
  <2>3. QED
    BY <1>11, <2>2
<1>13. ASSUME NEW m \in sent[c], NEW x \in sent[c], NEW z \in Joined(m), z \in Joined(x)
       PROVE  m = x
  <2>1. PICK a \in Accounts : \E y \in m.items : a.bank.number = y.bank /\ z = Row(a, y)
    BY <1>10
  <2>2. PICK y \in m.items : a.bank.number = y.bank /\ z = Row(a, y)
    BY <2>1
  <2>3. PICK b \in Accounts : \E w \in x.items : b.bank.number = w.bank /\ z = Row(b, w)
    BY <1>10, <1>13
  <2>4. PICK w \in x.items : b.bank.number = w.bank /\ z = Row(b, w)
    BY <2>3
  <2>5. a.name = b.name /\ y.account = w.account /\ y.amount = w.amount
    <3>1. z.name = a.name /\ z.account = y.account /\ z.amount = y.amount
      BY <2>2
    <3>2. z.name = b.name /\ z.account = w.account /\ z.amount = w.amount
      BY <2>4
    <3>3. QED
      BY <3>1, <3>2
  <2>6. y.bank = w.bank
    <3>1. a = b
      BY <2>5 DEF Named
    <3>2. QED
      BY <2>2, <2>4, <3>1
  <2>7. y \in BankItems /\ w \in BankItems
    BY <1>5, <1>7
  <2>8. y = w
    BY <2>5, <2>6, <2>7 DEF BankItems
  <2>9. PICK n \in Nodes(s) : m \in Out(s, n, c) /\ ShardOf(y.bank, Replicas[s]) = n
    BY <1>7
  <2>10. PICK k \in Nodes(s) : x \in Out(s, k, c) /\ ShardOf(w.bank, Replicas[s]) = k
    BY <1>7
  <2>11. n = k
    BY <2>8, <2>9, <2>10
  <2>12. FlushOf(2, n) /\ m \in Out(s, n, c) /\ x \in Out(s, n, c) /\ y \in x.items
    BY <1>3, <2>8, <2>9, <2>10, <2>11
  <2>13. QED
    BY <1>2, <2>12 DEF FlushOf
<1>14. \A x, z \in sent["client"] : \A y \in x.items : y \in z.items => x.id = z.id
  BY <1>11, <1>13
<1>15. ASSUME EndIsSent, \A m \in sent[c] : Relayed(m) \in sent["client"],
              NEW x \in ExpectedRows
       PROVE  x \in ItemsOf(sent["client"])
  <2>1. PICK a \in Accounts : \E y \in W : a.bank.number = y.bank /\ x = Row(a, y)
    BY <1>6, <1>15
  <2>2. PICK y \in W : a.bank.number = y.bank /\ x = Row(a, y)
    BY <2>1
  <2> DEFINE n == ShardOf(y.bank, Replicas[s])
  <2>3. n \in Nodes(s)
    <3>1. y.bank \in Nat
      BY <1>5 DEF BankItems
    <3>2. QED
      BY <1>2, <3>1, ReplicasOf, ShardInRange
  <2>4. <<s, n>> \in flushed
    BY <1>1, <1>2, <1>15, <2>3 DEF EndIsSent, Closed
  <2>5. y \in mem[s][n]
    BY <1>4, <2>3, <2>4
  <2> HIDE DEF n
  <2>6. y \in FlushData(s, mem[s][n])
    BY <2>5 DEF FlushData
  <2>7. PICK m \in Out(s, n, c) : y \in m.items
    BY <1>2, <1>3, <2>3, <2>6 DEF FlushOf
  <2>8. m \in sent[c]
    BY <1>1, <1>2, <2>3, <2>4, NotFromTheFront, FlushedOf DEF Flows
  <2>9. x \in Joined(m)
    BY <1>10, <2>2, <2>7, <2>8
  <2>10. Relayed(m) \in sent["client"] /\ Relayed(m).items = Joined(m)
    BY <1>15, <2>8, RelayedFields
  <2>11. QED
    BY <2>9, <2>10 DEF ItemsOf
<1>16. QED
  BY <1>1, <1>12, <1>14, <1>15 DEF Answers

-----------------------------------------------------------------------------
(* Sums over sets: MapThenSumSet takes the elements in the order that CHOOSE *)
(* gives, and the order does not matter.                                     *)

\* Induction on the naturals, for a set of them.
LEMMA NatSet ==
  ASSUME NEW A, 0 \in A, \A n \in Nat : n \in A => n + 1 \in A
  PROVE  Nat \subseteq A
<1> DEFINE D == Nat \ A
           Less == OpToRel(<, Nat)
<1>1. SUFFICES ASSUME D # {} PROVE FALSE
  OBVIOUS
<1>2. PICK n \in D : \A k \in D : ~(<<k, n>> \in Less)
  <2>1. D \subseteq Nat
    OBVIOUS
  <2>2. \E n \in D : \A k \in D : ~(<<k, n>> \in Less)
    BY <1>1, <2>1, NatLessThanWellFounded, WFMin
  <2>3. QED
    BY <2>2
<1> HIDE DEF Less
<1>3. n \in Nat /\ n \notin A /\ n # 0
  BY <1>2
<1> DEFINE k == n - 1
<1>4. k \in Nat /\ k < n /\ k + 1 = n
  BY <1>3
<1> HIDE DEF k
<1>5. k \notin D
  BY <1>2, <1>3, <1>4 DEF OpToRel, Less
<1>6. k + 1 \in A
  BY <1>4, <1>5
<1>7. QED
  BY <1>3, <1>4, <1>6

\* Induction on the subsets of a finite set.
LEMMA SubsetInduction ==
  ASSUME NEW S, IsFiniteSet(S), NEW A, {} \in A,
         \A T \in SUBSET S : T # {} /\ (\A x \in T : T \ {x} \in A) => T \in A
  PROVE  SUBSET S \subseteq A
<1> DEFINE N == {n \in Nat : \A T \in SUBSET S : Cardinality(T) = n => T \in A}
<1>1. \A T \in SUBSET S : /\ IsFiniteSet(T) /\ Cardinality(T) \in Nat
                          /\ Cardinality(T) = 0 => T = {}
                          /\ \A x \in T : Cardinality(T \ {x}) = Cardinality(T) - 1
  <2>1. ASSUME NEW T \in SUBSET S
        PROVE  /\ IsFiniteSet(T) /\ Cardinality(T) \in Nat
               /\ Cardinality(T) = 0 => T = {}
               /\ \A x \in T : Cardinality(T \ {x}) = Cardinality(T) - 1
    BY FS_Subset, FS_CardinalityType, FS_EmptySet, FS_RemoveElement
  <2>2. QED
    BY <2>1
<1>2. 0 \in N
  BY <1>1
<1>3. ASSUME NEW n \in Nat, n \in N PROVE n + 1 \in N
  <2>1. ASSUME NEW T \in SUBSET S, Cardinality(T) = n + 1 PROVE T \in A
    <3>1. \A x \in T : T \ {x} \in A
      <4>1. ASSUME NEW x \in T PROVE T \ {x} \in A
        <5>1. Cardinality(T \ {x}) = n
          BY <1>1, <2>1
        <5>2. QED
          BY <1>3, <5>1
      <4>2. QED
        BY <4>1
    <3>2. T # {}
      <4>1. Cardinality({}) = 0 /\ n + 1 # 0
        BY FS_EmptySet
      <4>2. QED
        BY <2>1, <4>1
    <3>3. QED
      BY <3>1, <3>2
  <2>2. QED
    BY <2>1
<1> HIDE DEF N
<1>4. Nat \subseteq N
  BY <1>2, <1>3, NatSet
<1>5. QED
  BY <1>1, <1>4 DEF N

Pick(s) == CHOOSE x \in s : TRUE

\* h sums g up over the subsets of S, in the order of Pick.
Adds(h, S, g) ==
  h = [s \in SUBSET S |-> IF s = {} THEN 0 ELSE g[Pick(s)] + h[s \ {Pick(s)}]]

LEMMA PickIn ==
  ASSUME NEW s, s # {}
  PROVE  Pick(s) \in s
BY DEF Pick

LEMMA AddsAt ==
  ASSUME NEW S, NEW g, NEW h, Adds(h, S, g)
  PROVE  /\ h[{}] = 0
         /\ \A s \in SUBSET S : s # {} => h[s] = g[Pick(s)] + h[s \ {Pick(s)}]
<1> DEFINE b == [s \in SUBSET S |-> IF s = {} THEN 0 ELSE g[Pick(s)] + h[s \ {Pick(s)}]]
<1>1. h = b
  BY DEF Adds
<1>2. \A s \in SUBSET S : b[s] = IF s = {} THEN 0 ELSE g[Pick(s)] + h[s \ {Pick(s)}]
  OBVIOUS
<1>3. {} \in SUBSET S
  OBVIOUS
<1> HIDE DEF b
<1>4. QED
  BY <1>1, <1>2, <1>3

\* There is such a function, found one cardinality after the other.
LEMMA AddsExists ==
  ASSUME NEW S, IsFiniteSet(S), NEW g
  PROVE  \E h : Adds(h, S, g)
<1> DEFINE Body(h, s) == IF s = {} THEN 0 ELSE g[Pick(s)] + h[s \ {Pick(s)}]
           Next_(h) == [s \in SUBSET S |-> Body(h, s)]
           UpTo(n, h) == \A s \in SUBSET S : Cardinality(s) <= n => h[s] = Body(h, s)
           N == {n \in Nat : \E h : UpTo(n, h)}
<1>1. \A s \in SUBSET S : /\ Cardinality(s) \in Nat
                          /\ s # {} => /\ s \ {Pick(s)} \in SUBSET S
                                       /\ Cardinality(s \ {Pick(s)}) = Cardinality(s) - 1
                          /\ Cardinality(s) <= Cardinality(S)
  <2>1. ASSUME NEW s \in SUBSET S
        PROVE  /\ Cardinality(s) \in Nat /\ Cardinality(s) <= Cardinality(S)
               /\ s # {} => Cardinality(s \ {Pick(s)}) = Cardinality(s) - 1
    <3>1. IsFiniteSet(s) /\ Cardinality(s) <= Cardinality(S)
      BY FS_Subset
    <3>2. Cardinality(s) \in Nat
      BY <3>1, FS_CardinalityType
    <3>3. s # {} => Cardinality(s \ {Pick(s)}) = Cardinality(s) - 1
      BY <3>1, PickIn, FS_RemoveElement
    <3>4. QED
      BY <3>1, <3>2, <3>3
  <2>2. QED
    BY <2>1
<1>2. \A h : \A s \in SUBSET S : Next_(h)[s] = Body(h, s)
  OBVIOUS
<1>3. ASSUME NEW n \in Nat, NEW h, UpTo(n, h)
      PROVE  \A s \in SUBSET S : Cardinality(s) <= n + 1 => Next_(h)[s] = Body(Next_(h), s)
  <2>1. ASSUME NEW s \in SUBSET S, Cardinality(s) <= n + 1, s # {}
        PROVE  Next_(h)[s \ {Pick(s)}] = h[s \ {Pick(s)}]
    <3> DEFINE u == s \ {Pick(s)}
    <3>1. u \in SUBSET S /\ Cardinality(u) <= n
      BY <1>1, <2>1
    <3> HIDE DEF u
    <3>2. h[u] = Body(h, u)
      BY <1>3, <3>1
    <3>3. Next_(h)[u] = Body(h, u)
      BY <1>2, <3>1
    <3>4. Next_(h)[u] = h[u]
      BY <3>2, <3>3
    <3>5. QED
      BY <3>4 DEF u
  <2> HIDE DEF Next_
  <2>2. QED
    BY <1>2, <2>1
<1>4. 0 \in N
  <2> DEFINE h == [s \in SUBSET S |-> 0]
  <2>1. \A s \in SUBSET S : Cardinality(s) <= 0 => s = {}
    <3>1. ASSUME NEW s \in SUBSET S, Cardinality(s) <= 0 PROVE s = {}
      <4>1. IsFiniteSet(s)
        BY FS_Subset
      <4>2. Cardinality(s) \in Nat
        BY <1>1
      <4>3. Cardinality(s) = 0
        BY <3>1, <4>2
      <4>4. QED
        BY <4>1, <4>3, FS_EmptySet
    <3>2. QED
      BY <3>1
  <2>2. UpTo(0, h)
    BY <2>1
  <2>3. QED
    BY <2>2
<1>5. ASSUME NEW n \in Nat, n \in N PROVE n + 1 \in N
  <2>1. PICK h : UpTo(n, h)
    BY <1>5
  <2>2. UpTo(n + 1, Next_(h))
    BY <1>3, <2>1
  <2> HIDE DEF UpTo, Next_
  <2>3. QED
    BY <2>2
<1>6. Cardinality(S) \in N
  <2>1. Cardinality(S) \in Nat
    BY FS_CardinalityType
  <2> HIDE DEF N
  <2>2. QED
    BY <1>4, <1>5, <2>1, NatSet
<1>7. PICK h : UpTo(Cardinality(S), h)
  BY <1>6
<1>8. \A s \in SUBSET S : h[s] = Body(h, s)
  BY <1>1, <1>7
<1>9. ASSUME NEW s \in SUBSET S PROVE Body(Next_(h), s) = Body(h, s)
  <2>1. s # {} => Next_(h)[s \ {Pick(s)}] = h[s \ {Pick(s)}]
    <3> DEFINE u == s \ {Pick(s)}
    <3>1. u \in SUBSET S
      OBVIOUS
    <3> HIDE DEF u
    <3>2. Next_(h)[u] = h[u]
      BY <1>2, <1>8, <3>1
    <3>3. QED
      BY <3>2 DEF u
  <2> HIDE DEF Next_
  <2>2. QED
    BY <2>1
<1>10. Next_(h) = [s \in SUBSET S |-> Body(Next_(h), s)]
  BY <1>9
<1>11. QED
  BY <1>10 DEF Adds

LEMMA AddsTyped ==
  ASSUME NEW S, IsFiniteSet(S), NEW g, \A x \in S : g[x] \in Nat, NEW h, Adds(h, S, g)
  PROVE  \A T \in SUBSET S : h[T] \in Nat
<1> DEFINE A == {T \in SUBSET S : h[T] \in Nat}
<1>1. h[{}] = 0 /\ \A s \in SUBSET S : s # {} => h[s] = g[Pick(s)] + h[s \ {Pick(s)}]
  BY AddsAt
<1>2. {} \in A
  BY <1>1
<1>3. ASSUME NEW T \in SUBSET S, T # {}, \A x \in T : T \ {x} \in A
      PROVE  T \in A
  <2>1. Pick(T) \in T
    BY <1>3, PickIn
  <2>2. g[Pick(T)] \in Nat /\ h[T \ {Pick(T)}] \in Nat
    BY <1>3, <2>1
  <2>3. h[T] = g[Pick(T)] + h[T \ {Pick(T)}]
    BY <1>1, <1>3
  <2>4. h[T] \in Nat
    BY <2>2, <2>3
  <2>5. QED
    BY <2>4
<1> HIDE DEF A
<1>4. SUBSET S \subseteq A
  BY <1>2, <1>3, SubsetInduction
<1>5. QED
  BY <1>4 DEF A

\* Any element may be the first to be added.
LEMMA AddsInAnyOrder ==
  ASSUME NEW S, IsFiniteSet(S), NEW g, \A x \in S : g[x] \in Nat, NEW h, Adds(h, S, g)
  PROVE  \A T \in SUBSET S : \A x \in T : h[T] = g[x] + h[T \ {x}]
<1> DEFINE A == {T \in SUBSET S : \A x \in T : h[T] = g[x] + h[T \ {x}]}
<1>1. \A s \in SUBSET S : s # {} => h[s] = g[Pick(s)] + h[s \ {Pick(s)}]
  BY AddsAt
<1>2. {} \in A
  OBVIOUS
<1>3. ASSUME NEW T \in SUBSET S, T # {}, \A x \in T : T \ {x} \in A
      PROVE  T \in A
  <2> DEFINE p == Pick(T)
  <2>1. p \in T /\ h[T] = g[p] + h[T \ {p}]
    BY <1>1, <1>3, PickIn
  <2>2. \A x \in T : \A y \in T \ {x} : h[T \ {x}] = g[y] + h[(T \ {x}) \ {y}]
    BY <1>3
  <2> HIDE DEF p
  <2>3. ASSUME NEW x \in T, x # p PROVE h[T] = g[x] + h[T \ {x}]
    <3> DEFINE u == h[(T \ {x}) \ {p}]
    <3>1. (T \ {p}) \ {x} = (T \ {x}) \ {p}
      OBVIOUS
    <3>2. h[T \ {p}] = g[x] + u /\ h[T \ {x}] = g[p] + u
      BY <2>1, <2>2, <2>3, <3>1
    <3>3. u \in Nat /\ g[x] \in Nat /\ g[p] \in Nat
      <4>1. (T \ {x}) \ {p} \in SUBSET S
        OBVIOUS
      <4>2. QED
        BY <2>1, <4>1, AddsTyped
    <3> HIDE DEF u
    <3>4. QED
      BY <2>1, <3>2, <3>3
  <2>4. QED
    BY <2>1, <2>3
<1> HIDE DEF A
<1>4. SUBSET S \subseteq A
  BY <1>2, <1>3, SubsetInduction
<1>5. QED
  BY <1>4 DEF A

LEMMA AddsUnique ==
  ASSUME NEW S, NEW R, R \subseteq S, IsFiniteSet(R), NEW g, NEW f, \A x \in R : f[x] = g[x],
         NEW h, Adds(h, S, g), NEW k, Adds(k, R, f)
  PROVE  k[R] = h[R]
<1> DEFINE A == {T \in SUBSET R : k[T] = h[T]}
<1>1. /\ h[{}] = 0 /\ k[{}] = 0
      /\ \A s \in SUBSET R : s # {} =>
           h[s] = g[Pick(s)] + h[s \ {Pick(s)}] /\ k[s] = f[Pick(s)] + k[s \ {Pick(s)}]
  <2>1. SUBSET R \subseteq SUBSET S
    OBVIOUS
  <2>2. QED
    BY <2>1, AddsAt
<1>2. {} \in A
  BY <1>1
<1>3. ASSUME NEW T \in SUBSET R, T # {}, \A x \in T : T \ {x} \in A
      PROVE  T \in A
  <2>1. Pick(T) \in T
    BY <1>3, PickIn
  <2>2. k[T \ {Pick(T)}] = h[T \ {Pick(T)}] /\ f[Pick(T)] = g[Pick(T)]
    BY <1>3, <2>1
  <2>3. QED
    BY <1>1, <1>3, <2>2
<1> HIDE DEF A
<1>4. R \in A
  BY <1>2, <1>3, SubsetInduction
<1>5. QED
  BY <1>4 DEF A

LEMMA AddsParts ==
  ASSUME NEW S, IsFiniteSet(S), NEW g, \A x \in S : g[x] \in Nat, NEW h, Adds(h, S, g),
         NEW Q, Q \subseteq S, NEW R, R \subseteq S, Q \cap R = {}
  PROVE  h[Q \cup R] = h[Q] + h[R]
<1> DEFINE A == {T \in SUBSET R : h[Q \cup T] = h[Q] + h[T]}
<1>1. \A T \in SUBSET S : h[T] \in Nat /\ \A x \in T : h[T] = g[x] + h[T \ {x}]
  BY AddsInAnyOrder, AddsTyped
<1>2. IsFiniteSet(R)
  BY FS_Subset
<1>3. {} \in A
  <2>1. Q \cup {} = Q /\ h[{}] = 0 /\ h[Q] \in Nat
    BY <1>1, AddsAt
  <2>2. h[Q \cup {}] = h[Q] + h[{}]
    BY <2>1
  <2>3. QED
    BY <2>2
<1>4. ASSUME NEW T \in SUBSET R, T # {}, \A x \in T : T \ {x} \in A
      PROVE  T \in A
  <2>1. PICK x \in T : TRUE
    BY <1>4
  <2>2. x \in S /\ T \in SUBSET S /\ Q \cup T \in SUBSET S
    OBVIOUS
  <2>3. (Q \cup T) \ {x} = Q \cup (T \ {x})
    OBVIOUS
  <2>4. h[Q \cup T] = g[x] + h[Q \cup (T \ {x})] /\ h[T] = g[x] + h[T \ {x}]
    BY <1>1, <2>2, <2>3
  <2>5. h[Q \cup (T \ {x})] = h[Q] + h[T \ {x}]
    BY <1>4, <2>1
  <2>6. g[x] \in Nat /\ h[Q] \in Nat /\ h[T \ {x}] \in Nat
    BY <1>1, <2>2
  <2>7. h[Q \cup T] = h[Q] + h[T]
    BY <2>4, <2>5, <2>6
  <2>8. QED
    BY <2>7
<1> HIDE DEF A
<1>5. R \in A
  BY <1>2, <1>3, <1>4, SubsetInduction
<1>6. QED
  BY <1>5 DEF A

\* The sum of a field, and the number of elements as a sum of ones.
FieldSum(S, f) == Sum(S, LAMBDA x : x[f])
OneSum(S)      == Sum(S, LAMBDA x : 1)

LEMMA FieldSumAdds ==
  ASSUME NEW S, IsFiniteSet(S), NEW f
  PROVE  \E h : Adds(h, S, [x \in S |-> x[f]]) /\ FieldSum(S, f) = h[S]
<1> DEFINE g == [x \in S |-> x[f]]
           iter[s \in SUBSET S] ==
             IF s = {} THEN 0 ELSE LET x == CHOOSE x \in s : TRUE IN x[f] + iter[s \ {x}]
           Body(h) == [s \in SUBSET S |->
                         IF s = {} THEN 0 ELSE LET x == CHOOSE x \in s : TRUE
                                               IN  x[f] + h[s \ {x}]]
<1>1. FieldSum(S, f) = iter[S]
  BY DEF FieldSum, Sum, MapThenSumSet, MapThenFoldSet
<1>2. \A k : Adds(k, S, g) <=> k = Body(k)
  <2>1. \A s \in SUBSET S : s # {} => g[Pick(s)] = Pick(s)[f]
    BY PickIn
  <2> HIDE DEF g
  <2>2. QED
    BY <2>1 DEF Adds, Pick
<1>3. PICK h : h = Body(h)
  <2>1. \E h : Adds(h, S, g)
    BY AddsExists
  <2> HIDE DEF g, Body
  <2>2. QED
    BY <1>2, <2>1
<1>4. iter = CHOOSE k : k = Body(k)
  OBVIOUS
<1> HIDE DEF iter, Body
<1>5. iter = Body(iter)
  BY <1>3, <1>4
<1>6. QED
  BY <1>1, <1>2, <1>5

LEMMA OneSumAdds ==
  ASSUME NEW S, IsFiniteSet(S)
  PROVE  \E h : Adds(h, S, [x \in S |-> 1]) /\ OneSum(S) = h[S]
<1> DEFINE g == [x \in S |-> 1]
           iter[s \in SUBSET S] ==
             IF s = {} THEN 0 ELSE LET x == CHOOSE x \in s : TRUE IN 1 + iter[s \ {x}]
           Body(h) == [s \in SUBSET S |->
                         IF s = {} THEN 0 ELSE LET x == CHOOSE x \in s : TRUE
                                               IN  1 + h[s \ {x}]]
<1>1. OneSum(S) = iter[S]
  BY DEF OneSum, Sum, MapThenSumSet, MapThenFoldSet
<1>2. \A k : Adds(k, S, g) <=> k = Body(k)
  <2>1. \A s \in SUBSET S : s # {} => g[Pick(s)] = 1
    BY PickIn
  <2> HIDE DEF g
  <2>2. QED
    BY <2>1 DEF Adds, Pick
<1>3. PICK h : h = Body(h)
  <2>1. \E h : Adds(h, S, g)
    BY AddsExists
  <2> HIDE DEF g, Body
  <2>2. QED
    BY <1>2, <2>1
<1>4. iter = CHOOSE k : k = Body(k)
  OBVIOUS
<1> HIDE DEF iter, Body
<1>5. iter = Body(iter)
  BY <1>3, <1>4
<1>6. QED
  BY <1>1, <1>2, <1>5

\* A sum of naturals is the sum of the sums of two parts.
LEMMA FieldSums ==
  ASSUME NEW S, IsFiniteSet(S), NEW f, \A x \in S : x[f] \in Nat
  PROVE  /\ FieldSum(S, f) \in Nat /\ FieldSum({}, f) = 0
         /\ \A x \in S : FieldSum({x}, f) = x[f]
         /\ \A Q, R \in SUBSET S :
              Q \cap R = {} => FieldSum(Q \cup R, f) = FieldSum(Q, f) + FieldSum(R, f)
<1> DEFINE g == [x \in S |-> x[f]]
<1>1. PICK h : Adds(h, S, g)
  BY AddsExists
<1>2. \A x \in S : g[x] = x[f]
  OBVIOUS
<1>3. ASSUME NEW T \in SUBSET S PROVE FieldSum(T, f) = h[T]
  <2> DEFINE d == [x \in T |-> x[f]]
  <2>1. IsFiniteSet(T)
    BY FS_Subset
  <2>2. PICK k : Adds(k, T, d) /\ FieldSum(T, f) = k[T]
    BY <2>1, FieldSumAdds
  <2>3. \A x \in T : d[x] = g[x]
    OBVIOUS
  <2> HIDE DEF d, g
  <2>4. k[T] = h[T]
    BY <1>1, <2>1, <2>2, <2>3, AddsUnique
  <2>5. QED
    BY <2>2, <2>4
<1> HIDE DEF g
<1>4. \A T \in SUBSET S : h[T] \in Nat /\ \A x \in T : h[T] = g[x] + h[T \ {x}]
  BY <1>1, <1>2, AddsInAnyOrder, AddsTyped
<1>5. h[{}] = 0
  BY <1>1, AddsAt
<1>6. ASSUME NEW x \in S PROVE h[{x}] = x[f]
  <2>1. {x} \in SUBSET S /\ x \in {x} /\ {x} \ {x} = {}
    OBVIOUS
  <2>2. h[{x}] = g[x] + 0
    BY <1>4, <1>5, <2>1
  <2>3. QED
    BY <1>2, <2>2
<1>7. \A Q, R \in SUBSET S : Q \cap R = {} => h[Q \cup R] = h[Q] + h[R]
  BY <1>1, <1>2, AddsParts
<1>8. \A Q, R \in SUBSET S : Q \cup R \in SUBSET S
  OBVIOUS
<1>9. {} \in SUBSET S /\ S \in SUBSET S /\ \A x \in S : {x} \in SUBSET S
  OBVIOUS
<1>10. FieldSum(S, f) \in Nat /\ FieldSum({}, f) = 0
  BY <1>3, <1>4, <1>5, <1>9
<1>11. \A x \in S : FieldSum({x}, f) = x[f]
  BY <1>3, <1>6, <1>9
<1>12. ASSUME NEW Q \in SUBSET S, NEW R \in SUBSET S, Q \cap R = {}
       PROVE  FieldSum(Q \cup R, f) = FieldSum(Q, f) + FieldSum(R, f)
  BY <1>3, <1>7, <1>8, <1>12
<1>13. QED
  BY <1>10, <1>11, <1>12

LEMMA OneSums ==
  ASSUME NEW S, IsFiniteSet(S)
  PROVE  OneSum(S) = Cardinality(S)
<1> DEFINE g == [x \in S |-> 1]
<1>1. PICK h : Adds(h, S, g) /\ OneSum(S) = h[S]
  BY OneSumAdds
<1>2. \A x \in S : g[x] = 1
  OBVIOUS
<1> HIDE DEF g
<1> DEFINE A == {T \in SUBSET S : h[T] = Cardinality(T)}
<1>3. {} \in A
  BY <1>1, AddsAt, FS_EmptySet
<1>4. ASSUME NEW T \in SUBSET S, T # {}, \A x \in T : T \ {x} \in A
      PROVE  T \in A
  <2>1. Pick(T) \in T /\ h[T] = 1 + h[T \ {Pick(T)}]
    BY <1>1, <1>2, <1>4, AddsAt, PickIn
  <2>2. IsFiniteSet(T)
    BY FS_Subset
  <2>3. Cardinality(T) \in Nat /\ Cardinality(T \ {Pick(T)}) = Cardinality(T) - 1
    BY <2>1, <2>2, FS_CardinalityType, FS_RemoveElement
  <2>4. h[T \ {Pick(T)}] = Cardinality(T \ {Pick(T)})
    BY <1>4, <2>1
  <2>5. QED
    BY <2>1, <2>3, <2>4
<1> HIDE DEF A
<1>5. S \in A
  BY <1>3, <1>4, SubsetInduction
<1>6. QED
  BY <1>1, <1>5 DEF A

-----------------------------------------------------------------------------
(* Totals and counts by format *)

OfFormat(D, f) == {t \in D : t.format = f}

TotalOf(D, f) == [format |-> f, total |-> FieldSum(OfFormat(D, f), "amount"),
                  count |-> Cardinality(OfFormat(D, f))]

\* What a replica that has been given the transactions D has.
TotalsIn(D) == {TotalOf(D, f) : f \in {t.format : t \in D}}

\* Transactions, as far as their sums depend on it.
Amounts(D) == IsFiniteSet(D) /\ \A t \in D : t.amount \in Nat

LEMMA AmountsOfPart ==
  ASSUME NEW D, Amounts(D), NEW Q, Q \subseteq D
  PROVE  Amounts(Q)
BY FS_Subset DEF Amounts

LEMMA FormatSums ==
  ASSUME NEW D, Amounts(D), NEW f
  PROVE  /\ FieldSum(OfFormat(D, f), "amount") \in Nat
         /\ Cardinality(OfFormat(D, f)) \in Nat
         /\ OfFormat(D, f) = {} => /\ FieldSum(OfFormat(D, f), "amount") = 0
                                   /\ Cardinality(OfFormat(D, f)) = 0
<1>1. Amounts(OfFormat(D, f))
  BY AmountsOfPart DEF OfFormat
<1>2. \A t \in OfFormat(D, f) : t["amount"] \in Nat
  BY <1>1 DEF Amounts
<1>3. FieldSum(OfFormat(D, f), "amount") \in Nat /\ FieldSum({}, "amount") = 0
  BY <1>1, <1>2, FieldSums DEF Amounts
<1>4. Cardinality(OfFormat(D, f)) \in Nat /\ Cardinality({}) = 0
  BY <1>1, FS_CardinalityType, FS_EmptySet DEF Amounts
<1>5. QED
  BY <1>3, <1>4

LEMMA FormatParts ==
  ASSUME NEW D, NEW E, Amounts(D \cup E), D \cap E = {}, NEW f
  PROVE  /\ FieldSum(OfFormat(D \cup E, f), "amount")
              = FieldSum(OfFormat(D, f), "amount") + FieldSum(OfFormat(E, f), "amount")
         /\ Cardinality(OfFormat(D \cup E, f))
              = Cardinality(OfFormat(D, f)) + Cardinality(OfFormat(E, f))
<1> DEFINE Q == OfFormat(D, f)
           R == OfFormat(E, f)
           S == OfFormat(D \cup E, f)
<1>1. S = Q \cup R /\ Q \cap R = {} /\ Q \in SUBSET S /\ R \in SUBSET S
  BY DEF OfFormat
<1>2. Amounts(S)
  BY AmountsOfPart DEF OfFormat
<1> HIDE DEF Q, R, S
<1>3. \A t \in S : t["amount"] \in Nat
  BY <1>2 DEF Amounts
<1>4. FieldSum(Q \cup R, "amount") = FieldSum(Q, "amount") + FieldSum(R, "amount")
  BY <1>1, <1>2, <1>3, FieldSums DEF Amounts
<1>5. Cardinality(Q \cup R) = Cardinality(Q) + Cardinality(R)
  BY <1>1, <1>2, FS_Subset, CardinalityOfParts DEF Amounts
<1>6. QED
  BY <1>1, <1>4, <1>5 DEF Q, R, S

LEMMA TotalOfFields ==
  ASSUME NEW D, NEW f
  PROVE  /\ TotalOf(D, f).format = f
         /\ TotalOf(D, f).total = FieldSum(OfFormat(D, f), "amount")
         /\ TotalOf(D, f).count = Cardinality(OfFormat(D, f))
BY DEF TotalOf

LEMMA TotalsLookup ==
  ASSUME NEW D, NEW f
  PROVE  {x \in TotalsIn(D) : x.format = f}
           = IF OfFormat(D, f) = {} THEN {} ELSE {TotalOf(D, f)}
<1>1. \A x : x \in TotalsIn(D) <=> \E e \in {t.format : t \in D} : x = TotalOf(D, e)
  BY DEF TotalsIn
<1>2. f \in {t.format : t \in D} <=> OfFormat(D, f) # {}
  BY DEF OfFormat
<1>3. \A e : TotalOf(D, e).format = e
  BY TotalOfFields
<1>4. \A x : x \in TotalsIn(D) /\ x.format = f
               <=> f \in {t.format : t \in D} /\ x = TotalOf(D, f)
  BY <1>1, <1>3
<1>5. QED
  BY <1>2, <1>4

LEMMA FormatsOf ==
  ASSUME NEW D
  PROVE  \A f : (\E x \in TotalsIn(D) : x.format = f) <=> \E t \in D : t.format = f
<1> SUFFICES ASSUME NEW f
             PROVE  (\E x \in TotalsIn(D) : x.format = f) <=> \E t \in D : t.format = f
  OBVIOUS
<1>1. (\E x \in TotalsIn(D) : x.format = f) <=> {x \in TotalsIn(D) : x.format = f} # {}
  OBVIOUS
<1>2. (\E t \in D : t.format = f) <=> OfFormat(D, f) # {}
  BY DEF OfFormat
<1>3. QED
  BY <1>1, <1>2, TotalsLookup

\* The sums that AddTotals takes over one state are of one item, or of none.
LEMMA LookupSums ==
  ASSUME NEW D, Amounts(D), NEW f
  PROVE  /\ FieldSum({x \in TotalsIn(D) : x.format = f}, "total")
              = FieldSum(OfFormat(D, f), "amount")
         /\ FieldSum({x \in TotalsIn(D) : x.format = f}, "count")
              = Cardinality(OfFormat(D, f))
<1> DEFINE x == TotalOf(D, f)
<1>1. /\ x["total"] = FieldSum(OfFormat(D, f), "amount") /\ x["total"] \in Nat
      /\ x["count"] = Cardinality(OfFormat(D, f)) /\ x["count"] \in Nat
  BY TotalOfFields, FormatSums
<1> HIDE DEF x
<1>2. IsFiniteSet({x})
  BY FS_Singleton
<1>3. /\ FieldSum({x}, "total") = x["total"] /\ FieldSum({}, "total") = 0
      /\ FieldSum({x}, "count") = x["count"] /\ FieldSum({}, "count") = 0
  BY <1>1, <1>2, FieldSums
<1>4. CASE OfFormat(D, f) = {}
  BY <1>3, <1>4, TotalsLookup, FormatSums
<1>5. CASE OfFormat(D, f) # {}
  BY <1>1, <1>3, <1>5, TotalsLookup DEF x
<1>6. QED
  BY <1>4, <1>5

LEMMA BatchTotalsAre ==
  ASSUME NEW D, Amounts(D)
  PROVE  BatchTotals(D) = TotalsIn(D)
<1> DEFINE Row(f) == [format |-> f, total |-> FieldSum({i \in D : i.format = f}, "amount"),
                      count |-> OneSum({i \in D : i.format = f})]
<1>1. BatchTotals(D) = {Row(f) : f \in {i.format : i \in D}}
  BY DEF BatchTotals, TotalsOf, FieldSum, OneSum, Sum, MapThenSumSet, MapThenFoldSet
<1>2. \A f : OneSum({i \in D : i.format = f}) = Cardinality({i \in D : i.format = f})
  <2>1. \A f : IsFiniteSet({i \in D : i.format = f})
    BY FS_Subset DEF Amounts
  <2>2. QED
    BY <2>1, OneSums
<1>3. \A f : Row(f) = TotalOf(D, f)
  BY <1>2 DEF TotalOf, OfFormat
<1> HIDE DEF Row
<1>4. QED
  BY <1>1, <1>3 DEF TotalsIn

\* _apply_delta of disjoint parts.
LEMMA AddTotalsOfParts ==
  ASSUME NEW D, NEW E, Amounts(D \cup E), D \cap E = {}
  PROVE  AddTotals(TotalsIn(D), TotalsIn(E)) = TotalsIn(D \cup E)
<1> DEFINE a == TotalsIn(D)
           b == TotalsIn(E)
           Row(f) ==
             [format |-> f,
              total |-> FieldSum({x \in a : x.format = f}, "total")
                          + FieldSum({x \in b : x.format = f}, "total"),
              count |-> FieldSum({x \in a : x.format = f}, "count")
                          + FieldSum({x \in b : x.format = f}, "count")]
<1>1. AddTotals(a, b) = {Row(f) : f \in {x.format : x \in a \cup b}}
  BY DEF AddTotals, FieldSum, Sum, MapThenSumSet, MapThenFoldSet
<1>2. Amounts(D) /\ Amounts(E)
  BY AmountsOfPart
<1>3. \A f : Row(f) = TotalOf(D \cup E, f)
  <2>1. ASSUME NEW f PROVE Row(f) = TotalOf(D \cup E, f)
    BY <1>2, LookupSums, FormatParts DEF TotalOf
  <2>2. QED
    BY <2>1
<1>4. {x.format : x \in a \cup b} = {t.format : t \in D \cup E}
  <2>1. /\ \A f : (\E x \in a : x.format = f) <=> \E t \in D : t.format = f
        /\ \A f : (\E x \in b : x.format = f) <=> \E t \in E : t.format = f
    BY FormatsOf
  <2> HIDE DEF a, b
  <2>2. \A f : f \in {x.format : x \in a \cup b} <=>
                 (\E x \in a : x.format = f) \/ (\E x \in b : x.format = f)
    OBVIOUS
  <2>3. \A f : f \in {t.format : t \in D \cup E} <=>
                 (\E t \in D : t.format = f) \/ (\E t \in E : t.format = f)
    OBVIOUS
  <2>4. QED
    BY <2>1, <2>2, <2>3
<1> HIDE DEF Row, a, b
<1>5. QED
  BY <1>1, <1>3, <1>4 DEF TotalsIn, a, b

\* Part of a state, as a message carries it, is the state of the transactions
\* of its formats.
LEMMA PartOfTotals ==
  ASSUME NEW D, NEW I, I \subseteq TotalsIn(D)
  PROVE  I = TotalsIn({t \in D : \E x \in I : x.format = t.format})
<1> DEFINE E == {t \in D : \E x \in I : x.format = t.format}
<1>1. \A x \in I : \E t \in D : x = TotalOf(D, t.format)
  BY DEF TotalsIn
<1>2. \A f : TotalOf(D, f).format = f
  BY TotalOfFields
<1>3. \A t \in E : TotalOf(E, t.format) = TotalOf(D, t.format)
  <2>1. \A t \in E : OfFormat(E, t.format) = OfFormat(D, t.format)
    BY DEF OfFormat
  <2>2. QED
    BY <2>1 DEF TotalOf
<1>4. ASSUME NEW x \in I PROVE x \in TotalsIn(E)
  <2>1. PICK t \in D : x = TotalOf(D, t.format)
    BY <1>1
  <2>2. x.format = t.format
    BY <1>2, <2>1
  <2>3. t \in E
    BY <2>2
  <2> HIDE DEF E
  <2>4. x = TotalOf(E, t.format)
    BY <1>3, <2>1, <2>3
  <2>5. QED
    BY <2>3, <2>4 DEF TotalsIn
<1>5. ASSUME NEW x \in TotalsIn(E) PROVE x \in I
  <2>1. PICK t \in E : x = TotalOf(E, t.format)
    BY DEF TotalsIn
  <2>2. PICK y \in I : y.format = t.format
    OBVIOUS
  <2>3. PICK u \in D : y = TotalOf(D, u.format)
    BY <1>1
  <2>4. u.format = t.format
    BY <1>2, <2>2, <2>3
  <2>5. x = y
    BY <1>3, <2>1, <2>3, <2>4
  <2>6. QED
    BY <2>5
<1> HIDE DEF E
<1>6. QED
  BY <1>4, <1>5 DEF E

-----------------------------------------------------------------------------
(* What the stages of query 3 accumulate *)

\* The transactions that a message to the payment_format_reducer stands for,
\* and those of all that a replica of it has handled.
Payers(m) ==
  {t \in ItemsOf(Owed("payment_format_aggregator", m.id[1])) :
     \E x \in m.items : x.format = t.format}

PaidIn(n) == UNION {Payers(m) : m \in Read("payment_format_reducer", n)}

\* Contents of the two stages: each of their states is that of the
\* transactions it stands for.
Totals ==
  /\ \A n \in Nodes("payment_format_aggregator") :
       mem["payment_format_aggregator"][n]
         = TotalsIn(ItemsOf(Read("payment_format_aggregator", n)))
  /\ \A n \in Nodes("payment_format_reducer") :
       mem["payment_format_reducer"][n] = TotalsIn(PaidIn(n))

\* One message for each batch, with transactions of that batch.
LEMMA PaymentMessages ==
  ASSUME Base
  PROVE  /\ Amounts(ItemsOf(sent["payment_format_aggregator"]))
         /\ \A m, x \in sent["payment_format_aggregator"] :
              m # x => m.items \cap x.items = {}
<1> DEFINE c == "payment_format_aggregator"
           D(b) == UsdOfPeriod(input.batches[b], 1)
           M(b) == Message(ShardOf(b, Replicas[c]), RootId(b), D(b))
           Of(b) == SourceMessages(input.query, c, b, input.batches[b])
<1>1. input \in Inputs /\ c \in Receivers /\ sent[c] = Source(c)
  BY FrontStages DEF Base, Shapes
<1>2. \A m \in sent[c] : \E b \in DOMAIN input.batches : m \in Of(b)
  BY <1>1, SourceAre
<1>3. \A b : Of(b) = {M(b)}
  BY DEF SourceMessages
<1> HIDE DEF Of
<1>4. \A m \in sent[c] : \E b \in DOMAIN input.batches : m = M(b)
  BY <1>2, <1>3
<1>5. \A b : M(b).items \subseteq input.batches[b]
  BY MessageFields DEF UsdOfPeriod
<1> HIDE DEF M
<1>6. ASSUME NEW m \in sent[c], NEW x \in sent[c], m # x PROVE m.items \cap x.items = {}
  <2>1. PICK b \in DOMAIN input.batches : m = M(b)
    BY <1>4
  <2>2. PICK d \in DOMAIN input.batches : x = M(d)
    BY <1>4
  <2>3. b # d
    BY <1>6, <2>1, <2>2
  <2>4. input.batches[b] \cap input.batches[d] = {}
    BY <1>1, <2>3, InputTyped
  <2>5. QED
    BY <1>5, <2>1, <2>2, <2>4
<1>7. ASSUME NEW t \in ItemsOf(sent[c]) PROVE t.amount \in Nat
  <2>1. PICK m \in sent[c] : t \in m.items
    BY DEF ItemsOf
  <2>2. PICK b \in DOMAIN input.batches : m = M(b)
    BY <1>4
  <2>3. t \in Transactions
    BY <1>1, <1>5, <2>1, <2>2, InputTyped
  <2>4. QED
    BY <2>3, TransactionFields
<1>8. IsFiniteSet(ItemsOf(sent[c]))
  BY <1>1, ItemsFinite
<1>9. QED
  BY <1>6, <1>7, <1>8 DEF Amounts

\* The same of the messages of one replica, and of those it has handled.
LEMMA PaymentsOwed ==
  ASSUME Base, NEW R, R \subseteq sent["payment_format_aggregator"]
  PROVE  Amounts(ItemsOf(R))
<1>1. ItemsOf(R) \subseteq ItemsOf(sent["payment_format_aggregator"])
  BY DEF ItemsOf
<1>2. QED
  BY <1>1, PaymentMessages, AmountsOfPart

\* The shard of a format, at the reducer.
FormatShard(f) == ShardOf(IF f = "wire" THEN 0 ELSE 1, Replicas["payment_format_reducer"])

LEMMA ReducerMessages ==
  ASSUME Base, Totals
  PROVE  /\ \A m \in sent["payment_format_reducer"] :
              /\ input.query = "q3"
              /\ m.id[1] \in Nodes("payment_format_aggregator")
              /\ <<"payment_format_aggregator", m.id[1]>> \in flushed
              /\ m.items = TotalsIn(Payers(m)) /\ Amounts(Payers(m))
              /\ \A t \in Payers(m) : FormatShard(t.format) = m.node
         /\ \A m, x \in sent["payment_format_reducer"] :
              m # x => Payers(m) \cap Payers(x) = {}
<1> DEFINE a == "payment_format_aggregator"
           c == "payment_format_reducer"
           D(n) == ItemsOf(Owed(a, n))
<1>1. input \in Inputs /\ input.query \in Queries /\ Shapes /\ Flows
  BY InputTyped DEF Base, Shapes
<1>2. ASSUME NEW m \in sent[c] PROVE input.query = "q3"
  <2>1. Source(c) = {}
    <3>1. \A b : SourceMessages(input.query, c, b, input.batches[b]) = {}
      BY DEF SourceMessages
    <3>2. QED
      BY <3>1 DEF Source
  <2>2. c \in Receivers /\ c # "client"
    BY Names
  <2>3. m \in Flushed(c)
    BY <1>1, <2>1, <2>2 DEF Flows
  <2>4. \E i \in DOMAIN MyRoute : Consumer(i) = c
    BY <2>3, FlushedNone
  <2>5. QED
    BY <1>1, <2>4, Names, Routes
<1>3. ASSUME input.query = "q3"
      PROVE  /\ 1 \in DOMAIN MyRoute /\ MyRoute[1] = a /\ Consumer(1) = c
             /\ \A m : m \in sent[c] <=>
                  \E n \in Nodes(a) : <<a, n>> \in flushed /\ m \in Out(a, n, c)
             /\ \A n \in Nodes(a) : FlushOf(1, n)
  <2>1. 1 \in DOMAIN MyRoute /\ MyRoute[1] = a /\ Consumer(1) = c
    BY <1>3, Routes
  <2>2. Source(c) = {}
    <3>1. \A b : SourceMessages(input.query, c, b, input.batches[b]) = {}
      BY DEF SourceMessages
    <3>2. QED
      BY <3>1 DEF Source
  <2>3. QED
    BY <2>1, <2>2, OwedItems
<1>4. ASSUME NEW n \in Nodes(a), <<a, n>> \in flushed
      PROVE  FlushData(a, mem[a][n]) = TotalsIn(D(n))
  <2>1. AllRead(a)
    BY <1>4, FlushedHasRead
  <2>2. Read(a, n) = Owed(a, n)
    BY <2>1 DEF Read, Owed, AllRead
  <2>3. mem[a][n] = TotalsIn(D(n))
    BY <2>2 DEF Totals
  <2>4. QED
    BY <2>3 DEF FlushData
<1>5. \A n : Amounts(D(n))
  <2>1. \A n : Owed(a, n) \subseteq sent[a]
    BY DEF Owed
  <2>2. QED
    BY <2>1, PaymentsOwed
<1>6. ASSUME NEW m \in sent[c]
      PROVE  \E n \in Nodes(a) :
               /\ <<a, n>> \in flushed /\ m \in Out(a, n, c) /\ m.id[1] = n
               /\ m.items \subseteq TotalsIn(D(n))
               /\ \A x \in m.items : ShardOf(FlushKey(a, x), Replicas[c]) = m.node
  <2>1. input.query = "q3"
    BY <1>2, <1>6
  <2>2. PICK n \in Nodes(a) : <<a, n>> \in flushed /\ m \in Out(a, n, c)
    BY <1>3, <1>6, <2>1
  <2>3. /\ \E b \in Nat : m.id = FlushId(n, b)
        /\ m.items \subseteq FlushData(a, mem[a][n])
        /\ \A x \in m.items : ShardOf(FlushKey(a, x), Replicas[c]) = m.node
    BY <1>3, <2>1, <2>2 DEF FlushOf
  <2>4. m.id[1] = n
    BY <2>3, FlushIdOf
  <2>5. QED
    BY <1>4, <2>2, <2>3, <2>4
<1>7. \A x : FlushKey(a, x) = IF x.format = "wire" THEN 0 ELSE 1
  BY DEF FlushKey
<1>8. \A m : \A t : t \in Payers(m) <=> t \in D(m.id[1]) /\ \E x \in m.items : x.format = t.format
  BY DEF Payers
<1> HIDE DEF D
<1>9. ASSUME NEW m \in sent[c]
      PROVE  /\ input.query = "q3" /\ m.id[1] \in Nodes(a) /\ <<a, m.id[1]>> \in flushed
             /\ m.items = TotalsIn(Payers(m)) /\ Amounts(Payers(m))
             /\ \A t \in Payers(m) : FormatShard(t.format) = m.node
  <2>1. PICK n \in Nodes(a) :
               /\ <<a, n>> \in flushed /\ m \in Out(a, n, c) /\ m.id[1] = n
               /\ m.items \subseteq TotalsIn(D(n))
               /\ \A x \in m.items : ShardOf(FlushKey(a, x), Replicas[c]) = m.node
    BY <1>6
  <2>2. Payers(m) = {t \in D(n) : \E x \in m.items : x.format = t.format}
    BY <1>8, <2>1
  <2>3. m.items = TotalsIn(Payers(m))
    BY <2>1, <2>2, PartOfTotals
  <2>4. Amounts(Payers(m))
    BY <1>5, <2>2, AmountsOfPart
  <2>5. ASSUME NEW t \in Payers(m) PROVE FormatShard(t.format) = m.node
    <3>1. PICK x \in m.items : x.format = t.format
      BY <2>2
    <3>2. ShardOf(FlushKey(a, x), Replicas[c]) = m.node
      BY <2>1
    <3>3. QED
      BY <1>7, <3>1, <3>2 DEF FormatShard
  <2>6. QED
    BY <1>2, <2>1, <2>3, <2>4, <2>5
<1>10. ASSUME NEW m \in sent[c], NEW x \in sent[c], NEW t \in Payers(m), t \in Payers(x)
       PROVE  m = x
  <2>1. PICK n \in Nodes(a) : m \in Out(a, n, c) /\ m.id[1] = n /\ m.items \subseteq TotalsIn(D(n))
    BY <1>6
  <2>2. PICK k \in Nodes(a) : x \in Out(a, k, c) /\ x.id[1] = k /\ x.items \subseteq TotalsIn(D(k))
    BY <1>6
  <2>3. n = k
    <3>1. t \in D(n) /\ t \in D(k)
      BY <1>8, <1>10, <2>1, <2>2
    <3>2. PICK y \in sent[a] : y.node = n /\ t \in y.items
      BY <3>1 DEF D, ItemsOf, Owed
    <3>3. PICK z \in sent[a] : z.node = k /\ t \in z.items
      BY <3>1 DEF D, ItemsOf, Owed
    <3>4. y = z
      BY <3>2, <3>3, PaymentMessages
    <3>5. QED
      BY <3>2, <3>3, <3>4
  <2>4. PICK y \in m.items : y.format = t.format
    BY <1>8
  <2>5. PICK z \in x.items : z.format = t.format
    BY <1>8, <1>10
  <2>6. y = z
    <3>1. y \in TotalsIn(D(n)) /\ z \in TotalsIn(D(n))
      BY <2>1, <2>2, <2>3, <2>4, <2>5
    <3>2. \A w \in TotalsIn(D(n)) : w = TotalOf(D(n), w.format)
      BY TotalOfFields DEF TotalsIn
    <3>3. QED
      BY <2>4, <2>5, <3>1, <3>2
  <2>7. input.query = "q3"
    BY <1>2, <1>10
  <2>8. FlushOf(1, n) /\ MyRoute[1] = a /\ Consumer(1) = c /\ x \in Out(a, n, c)
    BY <1>3, <2>2, <2>3, <2>7
  <2>9. QED
    BY <2>1, <2>4, <2>5, <2>6, <2>8 DEF FlushOf
<1>11. QED
  BY <1>9, <1>10

LEMMA TakeTotals ==
  ASSUME Base, Totals, NEW s \in Stages, Take(s)
  PROVE  Totals'
<1> DEFINE a == "payment_format_aggregator"
           c == "payment_format_reducer"
<1>1. PICK m \in sent[s] :
        /\ m.id \notin seen[s][m.node]
        /\ seen' = [seen EXCEPT ![s][m.node] = @ \cup {m.id}]
        /\ mem' = [mem EXCEPT ![s][m.node] = Merge(s, @, m.items)]
        /\ UNCHANGED <<input, sent, flushed, rows, taken, expected>>
  BY DEF Take
<1> DEFINE n == m.node
<1>2. input' = input /\ sent' = sent
  BY <1>1
<1>3. /\ n \in Nodes(s) /\ m \notin Read(s, n)
      /\ Read(s, n)' = Read(s, n) \cup {m}
      /\ ItemsOf(Read(s, n))' = ItemsOf(Read(s, n)) \cup m.items
      /\ \A t \in Stages : \A k \in Nodes(t) : ~(t = s /\ k = n) => Read(t, k)' = Read(t, k)
  BY <1>1, <1>2, TakeReads
<1>4. mem = [t \in Stages |-> [k \in Nodes(t) |-> mem[t][k]]]
  BY DEF Base, Shapes
<1>5. /\ mem'[s][n] = Merge(s, mem[s][n], m.items)
      /\ \A t \in Stages : \A k \in Nodes(t) : ~(t = s /\ k = n) => mem'[t][k] = mem[t][k]
  BY <1>1, <1>3, <1>4
<1>6. a \in Stages /\ c \in Stages
  BY Names
<1>7. \A x : Payers(x)' = Payers(x)
  BY <1>2 DEF Payers, Owed, ItemsOf
<1> HIDE DEF n
<1>8. ASSUME NEW k \in Nodes(a)
      PROVE  mem'[a][k] = TotalsIn(ItemsOf(Read(a, k)'))
  <2>1. mem[a][k] = TotalsIn(ItemsOf(Read(a, k)))
    BY DEF Totals
  <2>2. CASE a = s /\ k = n
    <3> DEFINE D == ItemsOf(Read(a, n))
    <3>1. m.items \cap D = {} /\ Amounts(D \cup m.items)
      <4>1. Read(a, n) \subseteq sent[a] /\ m \in sent[a]
        BY <2>2 DEF Read, Owed
      <4>2. \A x \in Read(a, n) : x # m
        BY <1>3, <2>2
      <4>3. \A x \in Read(a, n) : m.items \cap x.items = {}
        BY <4>1, <4>2, PaymentMessages
      <4>4. D \cup m.items \subseteq ItemsOf(sent[a])
        BY <4>1 DEF ItemsOf
      <4>5. Amounts(D \cup m.items)
        BY <4>4, PaymentMessages, AmountsOfPart
      <4>6. QED
        BY <4>3, <4>5 DEF ItemsOf
    <3>2. mem'[a][n] = AddTotals(TotalsIn(D), BatchTotals(m.items))
      BY <1>5, <2>1, <2>2 DEF Merge
    <3>3. ItemsOf(Read(a, n)') = D \cup m.items
      BY <1>3, <2>2 DEF ItemsOf
    <3> HIDE DEF D
    <3>4. Amounts(m.items)
      BY <3>1, AmountsOfPart
    <3>5. mem'[a][n] = TotalsIn(D \cup m.items)
      BY <3>1, <3>2, <3>4, BatchTotalsAre, AddTotalsOfParts
    <3>6. QED
      BY <2>2, <3>3, <3>5
  <2>3. CASE ~(a = s /\ k = n)
    BY <1>3, <1>5, <1>6, <2>1, <2>3
  <2>4. QED
    BY <2>2, <2>3
<1>9. ASSUME NEW k \in Nodes(c)
      PROVE  mem'[c][k] = TotalsIn(UNION {Payers(x) : x \in Read(c, k)'})
  <2>1. mem[c][k] = TotalsIn(PaidIn(k))
    BY DEF Totals
  <2>2. CASE c = s /\ k = n
    <3> DEFINE D == PaidIn(n)
               E == Payers(m)
    <3>1. m \in sent[c] /\ Read(c, n) \subseteq sent[c]
      BY <2>2 DEF Read, Owed
    <3>2. m.items = TotalsIn(E)
      BY <3>1, ReducerMessages
    <3>3. D \cap E = {}
      <4>1. \A x \in Read(c, n) : x # m
        BY <1>3, <2>2
      <4>2. \A x \in Read(c, n) : Payers(x) \cap E = {}
        BY <3>1, <4>1, ReducerMessages
      <4>3. QED
        BY <4>2 DEF PaidIn
    <3>4. Amounts(D \cup E)
      <4>1. \A x : Payers(x) \subseteq ItemsOf(sent[a])
        BY DEF Payers, ItemsOf, Owed
      <4>2. D \cup E \subseteq ItemsOf(sent[a])
        BY <4>1 DEF PaidIn
      <4>3. QED
        BY <4>2, PaymentMessages, AmountsOfPart
    <3>5. mem'[c][n] = AddTotals(TotalsIn(D), m.items)
      BY <1>5, <2>1, <2>2 DEF Merge
    <3>6. UNION {Payers(x) : x \in Read(c, n)'} = D \cup E
      BY <1>3, <2>2 DEF PaidIn
    <3> HIDE DEF D, E
    <3>7. mem'[c][n] = TotalsIn(D \cup E)
      BY <3>2, <3>3, <3>4, <3>5, AddTotalsOfParts
    <3>8. QED
      BY <2>2, <3>6, <3>7
  <2>3. CASE ~(c = s /\ k = n)
    BY <1>3, <1>5, <1>6, <2>1, <2>3 DEF PaidIn
  <2>4. QED
    BY <2>2, <2>3
<1>10. QED
  BY <1>7, <1>8, <1>9 DEF Totals, PaidIn, ItemsOf, Nodes

LEMMA PaymentSource ==
  Base => sent["payment_format_aggregator"] = Source("payment_format_aggregator")
  BY FrontStages

LEMMA SameTotals ==
  ASSUME Base, Base', Totals, input' = input, seen' = seen, mem' = mem,
         \A c \in Receivers : sent[c] \subseteq sent'[c]
  PROVE  Totals'
<1> DEFINE a == "payment_format_aggregator"
           c == "payment_format_reducer"
<1>1. \A s \in Stages : \A n \in Nodes(s) : Read(s, n)' = Read(s, n)
  BY SameRead
<1>2. sent'["payment_format_aggregator"] = sent["payment_format_aggregator"]
  <2>1. sent["payment_format_aggregator"] = Source("payment_format_aggregator")
    BY PaymentSource
  <2>2. (sent["payment_format_aggregator"] = Source("payment_format_aggregator"))'
    BY PaymentSource, PTL
  <2>3. QED
    BY <2>1, <2>2, Constant
<1>3. \A x : Payers(x)' = Payers(x)
  BY <1>2 DEF Payers, Owed, ItemsOf
<1>4. a \in Stages /\ c \in Stages
  BY Names
<1>5. \A n \in Nodes(a) : mem'[a][n] = TotalsIn(ItemsOf(Read(a, n)'))
  BY <1>1, <1>4 DEF Totals
<1>6. \A n \in Nodes(c) : mem'[c][n] = TotalsIn(UNION {Payers(x) : x \in Read(c, n)'})
  BY <1>1, <1>4 DEF Totals, PaidIn
<1>7. QED
  BY <1>3, <1>5, <1>6 DEF Totals, PaidIn, ItemsOf, Nodes

LEMMA InitTotals ==
  ASSUME Init
  PROVE  Totals
<1> DEFINE a == "payment_format_aggregator"
           c == "payment_format_reducer"
<1>1. \A s \in {a, c} : \A n \in Nodes(s) : seen[s][n] = {} /\ mem[s][n] = Initially(s)
  BY Names DEF Init, Nodes
<1>2. \A s \in {a, c} : \A n \in Nodes(s) : Read(s, n) = {} /\ mem[s][n] = {}
  BY <1>1 DEF Read, Initially, Counters
<1>3. TotalsIn({}) = {}
  BY DEF TotalsIn
<1>4. ItemsOf({}) = {} /\ \A n \in Nodes(c) : PaidIn(n) = {}
  BY <1>2 DEF ItemsOf, PaidIn
<1>5. QED
  BY <1>2, <1>3, <1>4 DEF Totals

LEMMA NextTotals ==
  ASSUME Base, Totals, [Next]_vars
  PROVE  Totals'
<1>1. ASSUME NEW s \in Stages, Take(s) PROVE Totals'
  BY <1>1, TakeTotals
<1>2. ASSUME UNCHANGED <<seen, mem>> PROVE Totals'
  BY <1>2, NextBase, SentGrows, SameTotals
<1>3. (\E s \in Stages : Take(s)) \/ UNCHANGED <<seen, mem>>
  BY DEF Next, Flush, Relay, HandleQueryEnd, HandleQueryResult, vars
<1>4. QED
  BY <1>1, <1>2, <1>3

LEMMA TotalsIsInvariant == Spec => [](Inductive /\ Totals)
<1>1. Init => Totals
  BY InitTotals
<1>2. Inductive /\ Totals /\ [Next]_vars => Totals'
  BY NextTotals DEF Inductive
<1>3. QED
  BY <1>1, <1>2, InductiveIsInvariant, PTL DEF Spec

\* The front sends the aggregators the transfers in dollars of the first period.
LEMMA TransfersOwed ==
  ASSUME Base, input.query = "q3"
  PROVE  ItemsOf(sent["payment_format_aggregator"]) = Transfers
<1> DEFINE a == "payment_format_aggregator"
           Of(b) == SourceMessages(input.query, a, b, input.batches[b])
           D(b) == UsdOfPeriod(input.batches[b], 1)
<1>1. sent[a] = Source(a)
  BY PaymentSource
<1>2. a \in MyStages(input.query)
  <2>1. 1 \in DOMAIN MyRoute /\ MyRoute[1] = a
    BY Routes
  <2>2. QED
    BY <2>1 DEF MyStages, MyRoute
<1>3. \A b : Of(b) = {Message(ShardOf(b, Replicas[a]), RootId(b), D(b))}
  BY DEF SourceMessages
<1>4. sent[a] = UNION {Of(b) : b \in DOMAIN input.batches}
  BY <1>1, <1>2 DEF Source
<1> HIDE DEF Of, D
<1>5. \A m : m \in sent[a] <=> \E b \in DOMAIN input.batches : m \in Of(b)
  BY <1>4
<1>6. \A t : t \in ItemsOf(sent[a]) <=> \E b \in DOMAIN input.batches : t \in D(b)
  <2>1. ASSUME NEW t \in ItemsOf(sent[a])
        PROVE  \E b \in DOMAIN input.batches : t \in D(b)
    <3>1. PICK m \in sent[a] : t \in m.items
      BY DEF ItemsOf
    <3>2. PICK b \in DOMAIN input.batches : m \in Of(b)
      BY <1>5
    <3>3. m.items = D(b)
      BY <1>3, <3>2, MessageFields
    <3>4. QED
      BY <3>1, <3>3
  <2>2. ASSUME NEW b \in DOMAIN input.batches, NEW t \in D(b) PROVE t \in ItemsOf(sent[a])
    <3> DEFINE m == Message(ShardOf(b, Replicas[a]), RootId(b), D(b))
    <3>1. m \in sent[a] /\ m.items = D(b)
      BY <1>3, <1>5, MessageFields
    <3> HIDE DEF m
    <3>2. QED
      BY <3>1 DEF ItemsOf
  <2>3. QED
    BY <2>1, <2>2
<1>7. \A t : t \in Transfers <=> \E b \in DOMAIN input.batches : t \in D(b)
  BY DEF Transfers, UsdOfPeriod, All, D
<1>8. QED
  BY <1>6, <1>7

-----------------------------------------------------------------------------
(* Query 3 *)

\* When its stage is closed, a replica of the reducer has been given all the
\* transfers of its formats.
LEMMA PaidInFormats ==
  ASSUME Base, Totals, input.query = "q3", Closed("payment_format_reducer"),
         NEW n \in Nodes("payment_format_reducer")
  PROVE  PaidIn(n) = {t \in Transfers : FormatShard(t.format) = n}
<1> DEFINE a == "payment_format_aggregator"
           c == "payment_format_reducer"
<1>1. /\ 1 \in DOMAIN MyRoute /\ MyRoute[1] = a /\ Consumer(1) = c
      /\ 2 \in DOMAIN MyRoute /\ MyRoute[2] = c
      /\ a \in Stages /\ a \in Receivers /\ c \in Stages /\ c \in Receivers
  BY Routes, Names
<1>2. AllRead(c) /\ Closed(a)
  <2>1. /\ AllRead(c)
        /\ \A i \in DOMAIN MyRoute : MyRoute[i] = c /\ i > 1 => Closed(MyRoute[i - 1])
    BY <1>1, ClosedHasRead
  <2>2. QED
    BY <1>1, <2>1
<1>3. AllRead(a)
  BY <1>1, <1>2, ClosedHasRead
<1>4. ItemsOf(sent[a]) = Transfers
  BY TransfersOwed
<1>5. \A m : m \in Read(c, n) <=> m \in sent[c] /\ m.node = n
  BY <1>2 DEF Read, Owed, AllRead
<1>6. \A m : Payers(m) \subseteq ItemsOf(sent[a])
  BY DEF Payers, ItemsOf, Owed
<1>7. ASSUME NEW t \in PaidIn(n)
      PROVE  t \in Transfers /\ FormatShard(t.format) = n
  <2>1. PICK m \in Read(c, n) : t \in Payers(m)
    BY <1>7 DEF PaidIn
  <2>2. QED
    BY <1>4, <1>5, <1>6, <2>1, ReducerMessages
<1>8. ASSUME NEW t \in Transfers, FormatShard(t.format) = n
      PROVE  t \in PaidIn(n)
  <2>1. PICK w \in sent[a] : t \in w.items
    BY <1>4, <1>8 DEF ItemsOf
  <2> DEFINE k == w.node
             D == ItemsOf(Owed(a, k))
             x == TotalOf(D, t.format)
  <2>2. k \in Nodes(a)
    BY <1>1, Deliveries DEF Delivered
  <2>3. t \in D
    BY <2>1 DEF ItemsOf, Owed
  <2>4. mem[a][k] = TotalsIn(D)
    <3>1. Read(a, k) = Owed(a, k)
      BY <1>3 DEF Read, Owed, AllRead
    <3>2. mem[a][k] = TotalsIn(ItemsOf(Read(a, k)))
      BY <2>2 DEF Totals
    <3>3. QED
      BY <3>1, <3>2
  <2> HIDE DEF D
  <2>5. x \in FlushData(a, mem[a][k]) /\ x.format = t.format
    BY <2>3, <2>4, TotalOfFields DEF FlushData, TotalsIn
  <2>6. /\ \A m : m \in sent[c] <=>
             \E j \in Nodes(a) : <<a, j>> \in flushed /\ m \in Out(a, j, c)
        /\ FlushOf(1, k)
    <3>1. Source(c) = {}
      <4>1. \A b : SourceMessages(input.query, c, b, input.batches[b]) = {}
        BY DEF SourceMessages
      <4>2. QED
        BY <4>1 DEF Source
    <3>2. QED
      BY <1>1, <2>2, <3>1, OwedItems
  <2> HIDE DEF x, k
  <2>7. PICK m \in Out(a, k, c) : x \in m.items
    BY <1>1, <2>5, <2>6 DEF FlushOf
  <2>8. /\ \E b \in Nat : m.id = FlushId(k, b)
        /\ ShardOf(FlushKey(a, x), Replicas[c]) = m.node
    BY <1>1, <2>6, <2>7 DEF FlushOf
  <2>9. m.id[1] = k
    BY <2>8 DEF FlushId
  <2>10. m.node = n
    <3>1. FlushKey(a, x) = IF x.format = "wire" THEN 0 ELSE 1
      BY DEF FlushKey
    <3>2. QED
      BY <1>8, <2>5, <2>8, <3>1 DEF FormatShard
  <2>11. m \in Read(c, n)
    BY <1>2, <1>5, <2>2, <2>6, <2>7, <2>10 DEF Closed
  <2>12. t \in Payers(m)
    BY <2>3, <2>5, <2>7, <2>9 DEF Payers, D
  <2>13. QED
    BY <2>11, <2>12 DEF PaidIn
<1>9. QED
  BY <1>7, <1>8

\* The averages of all the replicas are those of the whole input.
LEMMA AveragesAre ==
  ASSUME Base, Totals, input.query = "q3", Closed("payment_format_reducer")
  PROVE  Averages = TotalsIn(Transfers)
<1> DEFINE c == "payment_format_reducer"
           P(n) == {t \in Transfers : FormatShard(t.format) = n}
<1>1. \A n \in Nodes(c) : mem[c][n] = TotalsIn(P(n))
  BY PaidInFormats DEF Totals
<1>2. \A n : \A t \in P(n) : OfFormat(P(n), t.format) = OfFormat(Transfers, t.format)
  BY DEF OfFormat
<1>3. \A n : \A t \in P(n) : TotalOf(P(n), t.format) = TotalOf(Transfers, t.format)
  BY <1>2 DEF TotalOf
<1>4. \A f : FormatShard(f) \in Nodes(c)
  BY Names, ReplicasOf, ShardInRange DEF FormatShard
<1>5. \A t : \A n : t \in P(n) <=> t \in Transfers /\ FormatShard(t.format) = n
  OBVIOUS
<1> HIDE DEF P
<1>6. \A x : x \in Averages <=> \E n \in Nodes(c) : x \in mem[c][n]
  BY DEF Averages
<1>7. ASSUME NEW x \in Averages PROVE x \in TotalsIn(Transfers)
  <2>1. PICK n \in Nodes(c) : x \in TotalsIn(P(n))
    BY <1>1, <1>6
  <2>2. PICK t \in P(n) : x = TotalOf(P(n), t.format)
    BY <2>1 DEF TotalsIn
  <2>3. x = TotalOf(Transfers, t.format) /\ t \in Transfers
    BY <1>3, <1>5, <2>2
  <2>4. QED
    BY <2>3 DEF TotalsIn
<1>8. ASSUME NEW x \in TotalsIn(Transfers) PROVE x \in Averages
  <2>1. PICK t \in Transfers : x = TotalOf(Transfers, t.format)
    BY DEF TotalsIn
  <2> DEFINE n == FormatShard(t.format)
  <2>2. n \in Nodes(c) /\ t \in P(n)
    BY <1>4, <1>5
  <2> HIDE DEF n
  <2>3. x = TotalOf(P(n), t.format)
    BY <1>3, <2>1, <2>2
  <2>4. x \in TotalsIn(P(n))
    BY <2>2, <2>3 DEF TotalsIn
  <2>5. QED
    BY <1>1, <1>6, <2>2, <2>4
<1>9. QED
  BY <1>7, <1>8

\* _is_anomalous, with those averages, is the test of build_expected.py; of a
\* format without a transfer there is no average, and there it finds no sum.
LEMMA AnomalousIs ==
  ASSUME NEW t, t.amount \in Nat, NEW D, Amounts(D)
  PROVE  IsAnomalous(t, TotalsIn(D)) <=>
           AnomalyRatio * t.amount * Cardinality(OfFormat(D, t.format))
             < FieldSum(OfFormat(D, t.format), "amount")
<1> DEFINE f == t.format
           N == Cardinality(OfFormat(D, f))
           T == FieldSum(OfFormat(D, f), "amount")
           x == TotalOf(D, f)
<1>1. /\ T \in Nat /\ N \in Nat
      /\ OfFormat(D, f) = {} => T = 0 /\ N = 0
  BY FormatSums
<1>2. x.total = T /\ x.count = N
  BY TotalOfFields
<1>3. \A avg : avg \in TotalsIn(D) /\ avg.format = f <=> OfFormat(D, f) # {} /\ avg = x
  <2>1. {y \in TotalsIn(D) : y.format = f} = IF OfFormat(D, f) = {} THEN {} ELSE {x}
    BY TotalsLookup
  <2> HIDE DEF x
  <2>2. QED
    BY <2>1
<1> HIDE DEF x, T, N
<1>4. IsAnomalous(t, TotalsIn(D)) <=>
        OfFormat(D, f) # {} /\ T > 0 /\ AnomalyRatio * t.amount * N < T
  BY <1>2, <1>3 DEF IsAnomalous
<1>5. AnomalyRatio * t.amount * N \in Nat
  BY <1>1 DEF AnomalyRatio
<1>6. AnomalyRatio * t.amount * N < T => OfFormat(D, f) # {} /\ T > 0
  <2> DEFINE L == AnomalyRatio * t.amount * N
  <2> HIDE DEF L
  <2>1. L \in Nat
    BY <1>5 DEF L
  <2>2. L < T => T > 0
    BY <1>1, <2>1
  <2>3. QED
    BY <1>1, <2>2 DEF L
<1>7. QED
  BY <1>4, <1>6 DEF T, N

\* Query 3: each batch of the second period is relayed with its anomalies.
LEMMA Answers3 ==
  ASSUME Inductive, Totals, input.query = "q3"
  PROVE  Answers
<1> DEFINE c == "anomaly_filter"
           Of(b) == SourceMessages(input.query, c, b, input.batches[b])
           Later(b) == UsdOfPeriod(input.batches[b], 2)
           Odd(t) == IsAnomalous(t, TotalsIn(Transfers))
<1>1. Base /\ Flows /\ input \in Inputs /\ HasJoin /\ Joins[input.query] = c
  BY JoinNames DEF Inductive, Base, Shapes
<1>2. /\ \A m \in sent[c] : \E b \in DOMAIN input.batches : m.id = RootId(b) /\ Of(b) = {m}
      /\ \A b \in DOMAIN input.batches : \E m \in sent[c] : m.id = RootId(b) /\ Of(b) = {m}
  <2>1. /\ OneOfEach(c)
        /\ \A b \in DOMAIN input.batches : \E m \in sent[c] :
             m.id = RootId(b) /\ SourceMessages(input.query, c, b, input.batches[b]) = {m}
    BY <1>1, OneForEachBatch
  <2>2. QED
    BY <2>1 DEF OneOfEach
<1>3. \A b : \A m : Of(b) = {m} => m.items = Later(b)
  <2>1. \A b : Of(b) = {Message(ShardOf(b, Replicas[c]), RootId(b), Later(b))}
    BY DEF SourceMessages
  <2>2. QED
    BY <2>1, MessageFields
<1> HIDE DEF Of
<1>4. /\ \A m \in sent[c] : \E b \in DOMAIN input.batches : m.id = RootId(b) /\ m.items = Later(b)
      /\ \A b \in DOMAIN input.batches : \E m \in sent[c] : m.items = Later(b)
  BY <1>2, <1>3
<1>5. Amounts(Transfers) /\ \A t \in All : t.amount \in Nat
  <2>1. \A t \in Transactions : t.amount \in Nat
    BY DEF Transactions
  <2>2. QED
    BY <1>1, <2>1, TransfersTyped DEF Amounts
<1>6. \A t : t \in ExpectedRows <=> \E b \in DOMAIN input.batches : t \in Later(b) /\ Odd(t)
  <2> DEFINE Same(t) == OfFormat(Transfers, t.format)
             Test(t) == AnomalyRatio * t.amount * Cardinality(Same(t))
                          < FieldSum(Same(t), "amount")
  <2>1. ExpectedRows = {t \in UsdOfPeriod(All, 2) : Test(t)}
    BY DEF ExpectedRows, ExpectedAnomalies, OfFormat, Transfers,
           FieldSum, Sum, MapThenSumSet, MapThenFoldSet
  <2>2. \A t \in All : Odd(t) <=> Test(t)
    BY <1>5, AnomalousIs
  <2> HIDE DEF Odd, Test
  <2>3. \A t : t \in UsdOfPeriod(All, 2) <=> \E b \in DOMAIN input.batches : t \in Later(b)
    BY DEF UsdOfPeriod, All
  <2>4. UsdOfPeriod(All, 2) \subseteq All
    BY DEF UsdOfPeriod
  <2> HIDE DEF Later
  <2>5. QED
    BY <2>1, <2>2, <2>3, <2>4
<1>7. ASSUME NEW b \in DOMAIN input.batches, NEW d \in DOMAIN input.batches,
             NEW t \in Later(b), t \in Later(d)
      PROVE  b = d
  <2>1. t \in input.batches[b] /\ t \in input.batches[d]
    BY <1>7 DEF UsdOfPeriod
  <2>2. QED
    BY <1>1, <2>1, InputTyped
<1> HIDE DEF Odd, Later
<1>8. ASSUME NEW x \in sent["client"]
      PROVE  \E b \in DOMAIN input.batches :
               x.id = RootId(b) /\ \A t : t \in x.items <=> t \in Later(b) /\ Odd(t)
  <2>1. PICK m \in sent[c] : x = Relayed(m)
    BY <1>1 DEF Flows
  <2>2. PICK b \in DOMAIN input.batches : m.id = RootId(b) /\ m.items = Later(b)
    BY <1>4
  <2>3. Averages = TotalsIn(Transfers)
    BY <1>1, AveragesAre DEF Flows
  <2>4. x.items = {t \in m.items : Odd(t)}
    BY <2>1, <2>3, RelayedFields DEF Joined, Odd
  <2>5. x.id = RootId(b)
    BY <2>1, <2>2, RelayedFields
  <2>6. QED
    BY <2>2, <2>4, <2>5
<1>9. \A x \in sent["client"] : x.items \subseteq ExpectedRows
  BY <1>6, <1>8
<1>10. ASSUME NEW x \in sent["client"], NEW y \in sent["client"],
              NEW t \in x.items, t \in y.items
       PROVE  x.id = y.id
  <2>1. PICK b \in DOMAIN input.batches : x.id = RootId(b) /\ t \in Later(b)
    BY <1>8
  <2>2. PICK d \in DOMAIN input.batches : y.id = RootId(d) /\ t \in Later(d)
    BY <1>8, <1>10
  <2>3. QED
    BY <1>7, <2>1, <2>2
<1>11. ASSUME \A m \in sent[c] : Relayed(m) \in sent["client"], NEW t \in ExpectedRows
       PROVE  t \in ItemsOf(sent["client"])
  <2>1. PICK b \in DOMAIN input.batches : t \in Later(b) /\ Odd(t)
    BY <1>6
  <2>2. PICK m \in sent[c] : m.items = Later(b)
    BY <1>4
  <2>3. Relayed(m) \in sent["client"]
    BY <1>11
  <2>4. Averages = TotalsIn(Transfers)
    BY <1>1, <2>3, AveragesAre DEF Flows
  <2>5. Relayed(m).items = {u \in m.items : Odd(u)}
    BY <2>4, RelayedFields DEF Joined, Odd
  <2>6. t \in Relayed(m).items
    BY <2>1, <2>2, <2>5
  <2>7. QED
    BY <2>3, <2>6 DEF ItemsOf
<1>12. QED
  BY <1>1, <1>9, <1>10, <1>11 DEF Answers

-----------------------------------------------------------------------------
(* Theorems *)

\* Every message is for a replica of a stage of the query, only what was sent
\* is handled or counted, and only replicas that a stage has flush.
THEOREM TypeCorrect == Spec => []TypeOK
<1>1. Base /\ TakenWasSent => TypeOK
  BY BaseTyped
<1>2. QED
  BY <1>1, BaseIsInvariant, PTL

\* The count that the QUERY_END announces is the number of result messages
\* that the client will ever tell apart, of every query; of query 2, when all
\* that one bank_max_reducer flushes goes to one bank_mapper.
THEOREM EndCountsResultsHolds == Spec => [](TellsApart => EndCountsResults)
<1>1. Inductive => (TellsApart => EndCountsResults)
  BY CountsMatch DEF EndCountsResults, Ids, Inductive, Client
<1>2. QED
  BY <1>1, InductiveIsInvariant, PTL

\* What the rows depend on: of query 2, that the shards of the reducers and of
\* the mappers match and that the accounts file names each bank in one way; of
\* query 5, that one reducer adds the counts, as compose_generator.py deploys.
Decided ==
  \/ input.query \in {"q1", "q3", "q4"}
  \/ input.query = "q2" /\ Matched /\ Named
  \/ input.query = "q5" /\ Replicas["low_amount_reducer"] = 1

\* The client never writes a row that build_expected.py does not have, nor one
\* row twice, and has them all when it finalizes the query: for every input,
\* number of replicas, size of a flushed batch and order of arrival.
THEOREM RowsAreTheReferenceHolds == Spec => [](Decided => RowsAreTheReference)
<1>1. Inductive /\ Totals => (Decided => RowsAreTheReference)
  <2> SUFFICES ASSUME Inductive, Totals, Decided PROVE RowsAreTheReference
    OBVIOUS
  <2>1. TellsApart
    BY DEF TellsApart, Decided
  <2>2. Answers
    BY Answers1, Answers2, Answers3, Answers4, Answers5 DEF Decided
  <2>3. QED
    BY <2>1, <2>2, RowsFollow
<1>2. QED
  BY <1>1, TotalsIsInvariant, PTL
=============================================================================
