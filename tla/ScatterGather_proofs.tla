------------------------ MODULE ScatterGather_proofs ------------------------
(***************************************************************************)
(* Theorems about query 4 for every finite set of transfers, every         *)
(* MIN_REQUIRED_ACCOUNTS and every way to shard the edges and the paths:   *)
(* what the stages compute, each replica from its own share, is what       *)
(* build_expected.py computes from the whole input.                        *)
(***************************************************************************)
EXTENDS ScatterGather, FiniteSetTheorems, TLAPS

\* What the stages make of the transfers when each is one replica.
Answer(transfers) == FrequentEnds(Paths(FrequentEdges(BothDirections(transfers))))

ReceivedFrom(transfers, account) == {t.from : t \in {x \in transfers : x.to = account}}

-----------------------------------------------------------------------------
(* What each stage hands on, in terms of the transfers *)

\* A transfer as its sender's edge, and as its receiver's.
Sent(t) == Edge(t.from, t.to, TRUE)
Got(t)  == Edge(t.to, t.from, FALSE)

LEMMA EdgeFields ==
  ASSUME NEW t
  PROVE  /\ Sent(t).account = t.from /\ Sent(t).other = t.to /\ Sent(t).isSender = TRUE
         /\ Got(t).account = t.to /\ Got(t).other = t.from /\ Got(t).isSender = FALSE
         /\ Reversed(Sent(t)) = Got(t) /\ Reversed(Got(t)) = Sent(t)
BY DEF Sent, Got, Edge, Reversed

LEMMA InBothDirections ==
  ASSUME NEW T
  PROVE  /\ \A t \in T : Sent(t) \in BothDirections(T) /\ Got(t) \in BothDirections(T)
         /\ \A e \in BothDirections(T) : \E t \in T : e = Sent(t) \/ e = Got(t)
BY DEF BothDirections, Sent, Got

\* The other ends of an account's edges are those it sent to, or got from.
LEMMA OthersOfBothDirections ==
  ASSUME NEW T, NEW a
  PROVE  /\ Others(BothDirections(T), a, TRUE) = SentTo(T, a)
         /\ Others(BothDirections(T), a, FALSE) = ReceivedFrom(T, a)
<1> DEFINE E == BothDirections(T)
<1>1. \A x : x \in Others(E, a, TRUE) <=> x \in SentTo(T, a)
  <2> TAKE x
  <2>1. ASSUME NEW e \in E, e.account = a, e.isSender = TRUE, e.other = x
        PROVE  x \in SentTo(T, a)
    <3>1. PICK t \in T : e = Sent(t) \/ e = Got(t)
      BY InBothDirections
    <3>2. e = Sent(t)
      BY <2>1, <3>1, EdgeFields
    <3>3. QED
      BY <2>1, <3>2, EdgeFields DEF SentTo
  <2>2. ASSUME x \in SentTo(T, a)
        PROVE  \E e \in E : e.account = a /\ e.isSender = TRUE /\ e.other = x
    <3>1. PICK t \in T : t.from = a /\ t.to = x
      BY <2>2 DEF SentTo
    <3>2. Sent(t) \in E
      BY InBothDirections
    <3>3. QED
      BY <3>1, <3>2, EdgeFields
  <2> HIDE DEF E
  <2>3. QED
    BY <2>1, <2>2 DEF Others
<1>2. \A x : x \in Others(E, a, FALSE) <=> x \in ReceivedFrom(T, a)
  <2> TAKE x
  <2>1. ASSUME NEW e \in E, e.account = a, e.isSender = FALSE, e.other = x
        PROVE  x \in ReceivedFrom(T, a)
    <3>1. PICK t \in T : e = Sent(t) \/ e = Got(t)
      BY InBothDirections
    <3>2. e = Got(t)
      BY <2>1, <3>1, EdgeFields
    <3>3. QED
      BY <2>1, <3>2, EdgeFields DEF ReceivedFrom
  <2>2. ASSUME x \in ReceivedFrom(T, a)
        PROVE  \E e \in E : e.account = a /\ e.isSender = FALSE /\ e.other = x
    <3>1. PICK t \in T : t.to = a /\ t.from = x
      BY <2>2 DEF ReceivedFrom
    <3>2. Got(t) \in E
      BY InBothDirections
    <3>3. QED
      BY <3>1, <3>2, EdgeFields
  <2> HIDE DEF E
  <2>3. QED
    BY <2>1, <2>2 DEF Others
<1> HIDE DEF E
<1>3. Others(E, a, TRUE) = SentTo(T, a) /\ Others(E, a, FALSE) = ReceivedFrom(T, a)
  BY <1>1, <1>2
<1>4. QED
  BY <1>3 DEF E

\* An edge that AccountFrequencyFilter hands on: a transfer whose sender sent
\* to enough accounts, or whose receiver got from enough.
LEMMA FrequentEdgesOfTransfers ==
  ASSUME NEW T, NEW m, NEW x
  PROVE  /\ x \in Others(FrequentEdges(BothDirections(T)), m, FALSE)
              <=> /\ \E t \in T : t.from = x /\ t.to = m
                  /\ Cardinality(SentTo(T, x)) >= MinRequired
         /\ x \in Others(FrequentEdges(BothDirections(T)), m, TRUE)
              <=> /\ \E t \in T : t.from = m /\ t.to = x
                  /\ Cardinality(ReceivedFrom(T, x)) >= MinRequired
<1> DEFINE E == BothDirections(T)
           F == FrequentEdges(E)
           SentToMany(a) == Cardinality(SentTo(T, a)) >= MinRequired
           GotFromMany(a) == Cardinality(ReceivedFrom(T, a)) >= MinRequired
<1>1. ASSUME NEW f \in F
      PROVE  \E t \in T : \/ f = Got(t) /\ SentToMany(t.from)
                          \/ f = Sent(t) /\ GotFromMany(t.to)
  <2>1. PICK e \in E : /\ f = Reversed(e)
                       /\ Cardinality(Others(E, e.account, e.isSender)) >= MinRequired
    BY DEF FrequentEdges
  <2>2. PICK t \in T : e = Sent(t) \/ e = Got(t)
    BY InBothDirections
  <2>3. CASE e = Sent(t)
    <3>1. f = Got(t) /\ Others(E, e.account, e.isSender) = SentTo(T, t.from)
      BY <2>1, <2>3, EdgeFields, OthersOfBothDirections
    <3>2. QED
      BY <2>1, <3>1
  <2>4. CASE e = Got(t)
    <3>1. f = Sent(t) /\ Others(E, e.account, e.isSender) = ReceivedFrom(T, t.to)
      BY <2>1, <2>4, EdgeFields, OthersOfBothDirections
    <3>2. QED
      BY <2>1, <3>1
  <2>5. QED
    BY <2>2, <2>3, <2>4
<1>2. ASSUME NEW t \in T
      PROVE  /\ SentToMany(t.from) => Got(t) \in F
             /\ GotFromMany(t.to) => Sent(t) \in F
  <2>1. Sent(t) \in E /\ Got(t) \in E
    BY InBothDirections
  <2>2. \A e \in E : Cardinality(Others(E, e.account, e.isSender)) >= MinRequired
                       => Reversed(e) \in F
    BY DEF FrequentEdges
  <2>3. /\ Others(E, Sent(t).account, Sent(t).isSender) = SentTo(T, t.from)
        /\ Others(E, Got(t).account, Got(t).isSender) = ReceivedFrom(T, t.to)
    BY EdgeFields, OthersOfBothDirections
  <2> HIDE DEF E, F
  <2>4. QED
    BY <2>1, <2>2, <2>3, EdgeFields
<1> HIDE DEF F, SentToMany, GotFromMany
<1>3. x \in Others(F, m, FALSE)
        <=> \E t \in T : t.from = x /\ t.to = m /\ SentToMany(x)
  <2>1. ASSUME x \in Others(F, m, FALSE)
        PROVE  \E t \in T : t.from = x /\ t.to = m /\ SentToMany(x)
    <3>1. PICK f \in F : f.account = m /\ f.isSender = FALSE /\ f.other = x
      BY <2>1 DEF Others
    <3>2. PICK t \in T : \/ f = Got(t) /\ SentToMany(t.from)
                         \/ f = Sent(t) /\ GotFromMany(t.to)
      BY <1>1
    <3>3. QED
      BY <3>1, <3>2, EdgeFields
  <2>2. ASSUME NEW t \in T, t.from = x, t.to = m, SentToMany(x)
        PROVE  x \in Others(F, m, FALSE)
    <3>1. Got(t) \in F
      BY <1>2, <2>2
    <3>2. QED
      BY <2>2, <3>1, EdgeFields DEF Others
  <2>3. QED
    BY <2>1, <2>2
<1>4. x \in Others(F, m, TRUE)
        <=> \E t \in T : t.from = m /\ t.to = x /\ GotFromMany(x)
  <2>1. ASSUME x \in Others(F, m, TRUE)
        PROVE  \E t \in T : t.from = m /\ t.to = x /\ GotFromMany(x)
    <3>1. PICK f \in F : f.account = m /\ f.isSender = TRUE /\ f.other = x
      BY <2>1 DEF Others
    <3>2. PICK t \in T : \/ f = Got(t) /\ SentToMany(t.from)
                         \/ f = Sent(t) /\ GotFromMany(t.to)
      BY <1>1
    <3>3. QED
      BY <3>1, <3>2, EdgeFields
  <2>2. ASSUME NEW t \in T, t.from = m, t.to = x, GotFromMany(x)
        PROVE  x \in Others(F, m, TRUE)
    <3>1. Sent(t) \in F
      BY <1>2, <2>2
    <3>2. QED
      BY <2>2, <3>1, EdgeFields DEF Others
  <2>3. QED
    BY <2>1, <2>2
<1>5. QED
  BY <1>3, <1>4 DEF F, SentToMany, GotFromMany

-----------------------------------------------------------------------------
(* The answer *)

\* Account p sent to m, which sent to q.
Through(T, p, q) == {m \in SentTo(T, p) : q \in SentTo(T, m)}

\* The accounts between two ends, on the paths that PathMapper makes.
Mids(T, p, q) ==
  {y.mid : y \in {z \in Paths(FrequentEdges(BothDirections(T))) : z.from = p /\ z.to = q}}

\* The accounts an account exchanged transfers with are finitely many.
LEMMA NeighboursFinite ==
  ASSUME NEW T, IsFiniteSet(T), NEW a
  PROVE  IsFiniteSet(SentTo(T, a)) /\ IsFiniteSet(ReceivedFrom(T, a))
<1> DEFINE S == {x \in T : x.from = a}
           R == {x \in T : x.to = a}
           f == [t \in S |-> t.to]
           g == [t \in R |-> t.from]
<1>1. IsFiniteSet(S) /\ IsFiniteSet(R)
  BY FS_Subset
<1>2. f \in Surjection(S, SentTo(T, a)) /\ g \in Surjection(R, ReceivedFrom(T, a))
  BY DEF Surjection, SentTo, ReceivedFrom
<1> HIDE DEF S, R, f, g
<1>3. QED
  BY <1>1, <1>2, FS_Surjection

\* Paths lead through the accounts between their ends, if those ends sent to
\* and got from enough accounts; there is none from an account to itself.
LEMMA MidsAreThrough ==
  ASSUME NEW T, NEW p, NEW q, NEW m
  PROVE  m \in Mids(T, p, q)
           <=> /\ p # q /\ m \in Through(T, p, q)
               /\ Cardinality(SentTo(T, p)) >= MinRequired
               /\ Cardinality(ReceivedFrom(T, q)) >= MinRequired
<1> DEFINE E == FrequentEdges(BothDirections(T))
<1>1. m \in Mids(T, p, q)
        <=> /\ p # q
            /\ p \in Others(E, m, FALSE) /\ q \in Others(E, m, TRUE)
  <2>1. \A x : x \in Paths(E)
          <=> /\ x.from # x.to
              /\ \E k \in {e.account : e \in E} :
                   x \in [from : Others(E, k, FALSE), mid : {k}, to : Others(E, k, TRUE)]
    BY DEF Paths
  <2>2. p \in Others(E, m, FALSE) => m \in {e.account : e \in E}
    BY DEF Others
  <2>3. ASSUME m \in Mids(T, p, q)
        PROVE  p # q /\ p \in Others(E, m, FALSE) /\ q \in Others(E, m, TRUE)
    BY <2>1, <2>3 DEF Mids
  <2>4. ASSUME p # q, p \in Others(E, m, FALSE), q \in Others(E, m, TRUE)
        PROVE  m \in Mids(T, p, q)
    <3> DEFINE x == [from |-> p, mid |-> m, to |-> q]
    <3>1. x \in Paths(E)
      BY <2>1, <2>2, <2>4
    <3>2. QED
      BY <3>1 DEF Mids
  <2>5. QED
    BY <2>3, <2>4
<1>2. \A x : /\ x \in Others(E, m, FALSE)
                  <=> /\ \E t \in T : t.from = x /\ t.to = m
                      /\ Cardinality(SentTo(T, x)) >= MinRequired
             /\ x \in Others(E, m, TRUE)
                  <=> /\ \E t \in T : t.from = m /\ t.to = x
                      /\ Cardinality(ReceivedFrom(T, x)) >= MinRequired
  BY FrequentEdgesOfTransfers
<1>3. m \in Through(T, p, q)
        <=> /\ \E t \in T : t.from = p /\ t.to = m
            /\ \E t \in T : t.from = m /\ t.to = q
  BY DEF Through, SentTo
<1> HIDE DEF E
<1>4. QED
  BY <1>1, <1>2, <1>3

\* Two ends with enough accounts in between have, by that, sent to and got
\* from enough: the filter in front of the paths loses no answer.
LEMMA EnoughMids ==
  ASSUME NEW T, IsFiniteSet(T), NEW p, NEW q
  PROVE  Cardinality(Mids(T, p, q)) >= MinRequired
           <=> p # q /\ Cardinality(Through(T, p, q)) >= MinRequired
<1>1. /\ Through(T, p, q) \subseteq SentTo(T, p)
      /\ Through(T, p, q) \subseteq ReceivedFrom(T, q)
  BY DEF Through, SentTo, ReceivedFrom
<1>2. IsFiniteSet(SentTo(T, p)) /\ IsFiniteSet(ReceivedFrom(T, q))
  BY NeighboursFinite
<1>3. /\ IsFiniteSet(Through(T, p, q))
      /\ Cardinality(Through(T, p, q)) <= Cardinality(SentTo(T, p))
      /\ Cardinality(Through(T, p, q)) <= Cardinality(ReceivedFrom(T, q))
  BY <1>1, <1>2, FS_Subset
<1>4. /\ Cardinality(Through(T, p, q)) \in Nat /\ Cardinality(SentTo(T, p)) \in Nat
      /\ Cardinality(ReceivedFrom(T, q)) \in Nat /\ MinRequired \in Nat \ {0}
  BY <1>2, <1>3, FS_CardinalityType, MinRequiredAssumption
<1>5. CASE /\ p # q /\ Cardinality(SentTo(T, p)) >= MinRequired
           /\ Cardinality(ReceivedFrom(T, q)) >= MinRequired
  <2>1. \A m : m \in Mids(T, p, q) <=> m \in Through(T, p, q)
    BY <1>5, MidsAreThrough
  <2>2. Mids(T, p, q) = Through(T, p, q)
    BY <2>1
  <2>3. QED
    BY <1>5, <2>2
<1>6. CASE ~ (/\ p # q /\ Cardinality(SentTo(T, p)) >= MinRequired
              /\ Cardinality(ReceivedFrom(T, q)) >= MinRequired)
  <2>1. Mids(T, p, q) = {}
    BY <1>6, MidsAreThrough
  <2>2. Cardinality(Mids(T, p, q)) = 0
    BY <2>1, FS_EmptySet
  <2>3. QED
    BY <1>3, <1>4, <1>6, <2>2
<1>7. QED
  BY <1>5, <1>6

\* The pipeline of query 4 answers what _build_query_4 answers.
THEOREM AnswerIsExpected ==
  ASSUME NEW T, IsFiniteSet(T)
  PROVE  Answer(T) = ExpectedAccounts(T)
<1> DEFINE P == Paths(FrequentEdges(BothDirections(T)))
           Ends(p, q) == p # q /\ Cardinality(Through(T, p, q)) >= MinRequired
<1>1. \A p, q : Cardinality(Mids(T, p, q)) >= MinRequired <=> Ends(p, q)
  BY EnoughMids
<1>2. MinRequired \in Nat \ {0} /\ Cardinality({}) = 0
  BY MinRequiredAssumption, FS_EmptySet
<1>3. \A a : a \in Answer(T) <=> \E p, q : a \in {p, q} /\ Ends(p, q)
  <2>1. \A a : a \in Answer(T)
          <=> \E x \in P : a \in {x.from, x.to}
                           /\ Cardinality(Mids(T, x.from, x.to)) >= MinRequired
    BY DEF Answer, FrequentEnds, Mids
  <2>2. \A p, q : Ends(p, q) => \E x \in P : x.from = p /\ x.to = q
    <3> SUFFICES ASSUME NEW p, NEW q, Ends(p, q)
                 PROVE  \E x \in P : x.from = p /\ x.to = q
      OBVIOUS
    <3>1. Mids(T, p, q) # {}
      BY <1>1, <1>2
    <3>2. QED
      BY <3>1 DEF Mids
  <2> HIDE DEF P, Ends
  <2>3. QED
    BY <1>1, <2>1, <2>2
<1>4. \A a : a \in ExpectedAccounts(T) <=> \E p, q : a \in {p, q} /\ Ends(p, q)
  <2>1. \A p, q : Between(T, p, q) = Through(T, p, q)
    BY DEF Between, Through
  <2>2. \A a : a \in ExpectedAccounts(T)
          <=> \E e \in Scatters(T) \X {t.to : t \in T} :
                a \in {e[1], e[2]} /\ Ends(e[1], e[2])
    BY <2>1 DEF ExpectedAccounts
  <2>3. ASSUME NEW p, NEW q, Ends(p, q)
        PROVE  p \in Scatters(T) /\ q \in {t.to : t \in T}
    <3>1. Through(T, p, q) # {}
      BY <1>2, <2>3
    <3>2. p \in {t.from : t \in T} /\ q \in {t.to : t \in T}
      BY <3>1 DEF Through, SentTo
    <3>3. Through(T, p, q) \in SUBSET SentTo(T, p) /\ IsFiniteSet(SentTo(T, p))
      BY NeighboursFinite DEF Through
    <3>4. /\ Cardinality(Through(T, p, q)) <= Cardinality(SentTo(T, p))
          /\ Cardinality(SentTo(T, p)) \in Nat /\ Cardinality(Through(T, p, q)) \in Nat
      BY <3>3, FS_Subset, FS_CardinalityType
    <3>5. Cardinality(SentTo(T, p)) >= MinRequired
      BY <1>2, <2>3, <3>4
    <3>6. QED
      BY <3>2, <3>5 DEF Scatters
  <2> HIDE DEF Ends
  <2>4. ASSUME NEW a, NEW p, NEW q, a \in {p, q}, Ends(p, q)
        PROVE  a \in ExpectedAccounts(T)
    <3>1. <<p, q>> \in Scatters(T) \X {t.to : t \in T}
      BY <2>3, <2>4
    <3>2. QED
      BY <2>2, <2>4, <3>1
  <2>5. QED
    BY <2>2, <2>4
<1> HIDE DEF Ends
<1>5. QED
  BY <1>3, <1>4

-----------------------------------------------------------------------------
(* The replicas: _flush_sharded gives each of them the edges of some accounts, *)
(* or the paths between some ends, and never a part of what belongs together.  *)

EdgesOf(edges, shardOf, k) == {e \in edges : shardOf[e.account] = k}
PathsOf(paths, shardOf, k) == {p \in paths : shardOf[<<p.from, p.to>>] = k}

\* What the replicas K of a stage make together of what they got.
ShardedEdges(edges, f, K) == UNION {FrequentEdges(EdgesOf(edges, f, k)) : k \in K}
ShardedPaths(edges, f, K) == UNION {Paths(EdgesOf(edges, f, k)) : k \in K}
ShardedEnds(paths, f, K)  == UNION {FrequentEnds(PathsOf(paths, f, k)) : k \in K}

\* A replica sees all the other ends of the accounts that are its own.
LEMMA OthersOfAShard ==
  ASSUME NEW E, NEW f, NEW a, NEW b
  PROVE  Others(EdgesOf(E, f, f[a]), a, b) = Others(E, a, b)
<1>1. {x \in EdgesOf(E, f, f[a]) : x.account = a /\ x.isSender = b}
        = {x \in E : x.account = a /\ x.isSender = b}
  BY DEF EdgesOf
<1>2. QED
  BY <1>1 DEF Others

LEMMA EndsOfAShard ==
  ASSUME NEW E, NEW f, NEW a
  PROVE  /\ Others(EdgesOf(E, f, f[a]), a, TRUE) = Others(E, a, TRUE)
         /\ Others(EdgesOf(E, f, f[a]), a, FALSE) = Others(E, a, FALSE)
BY DEF Others, EdgesOf

\* The replicas of AccountFrequencyFilter hand on what one would.
LEMMA FrequentEdgesAreSharded ==
  ASSUME NEW E, NEW K, NEW f, \A e \in E : f[e.account] \in K
  PROVE  ShardedEdges(E, f, K) = FrequentEdges(E)
<1> DEFINE Frequent(D, e) == Cardinality(Others(D, e.account, e.isSender)) >= MinRequired
<1>1. \A D, x : x \in FrequentEdges(D) <=> \E e \in D : x = Reversed(e) /\ Frequent(D, e)
  BY DEF FrequentEdges
<1>2. \A e, k : e \in EdgesOf(E, f, k) <=> e \in E /\ f[e.account] = k
  BY DEF EdgesOf
<1>3. ASSUME NEW e
      PROVE  Frequent(EdgesOf(E, f, f[e.account]), e) <=> Frequent(E, e)
  <2> DEFINE a == e.account
             b == e.isSender
  <2> HIDE DEF a, b
  <2>1. Others(EdgesOf(E, f, f[a]), a, b) = Others(E, a, b)
    BY OthersOfAShard
  <2>2. QED
    BY <2>1 DEF a, b
<1> HIDE DEF Frequent
<1>4. ASSUME NEW x
      PROVE  x \in FrequentEdges(E) <=> \E k \in K : x \in FrequentEdges(EdgesOf(E, f, k))
  BY <1>1, <1>2, <1>3
<1>5. QED
  BY <1>4 DEF ShardedEdges

\* The replicas of PathMapper make the paths that one would.
LEMMA PathsAreSharded ==
  ASSUME NEW E, NEW K, NEW f, \A e \in E : f[e.account] \in K
  PROVE  ShardedPaths(E, f, K) = Paths(E)
<1> DEFINE Cross(D, mid) ==
             [from : Others(D, mid, FALSE), mid : {mid}, to : Others(D, mid, TRUE)]
<1>1. \A D, x : x \in Paths(D)
        <=> x.from # x.to /\ \E e \in D : x \in Cross(D, e.account)
  BY DEF Paths
<1>2. \A e, k : e \in EdgesOf(E, f, k) <=> e \in E /\ f[e.account] = k
  BY DEF EdgesOf
<1>3. ASSUME NEW a
      PROVE  Cross(EdgesOf(E, f, f[a]), a) = Cross(E, a)
  BY EndsOfAShard
<1> HIDE DEF Cross
<1>4. ASSUME NEW x
      PROVE  x \in Paths(E) <=> \E k \in K : x \in Paths(EdgesOf(E, f, k))
  BY <1>1, <1>2, <1>3
<1>5. QED
  BY <1>4 DEF ShardedPaths

\* The replicas of PathFrequencyFilter find the ends that one would.
LEMMA FrequentEndsAreSharded ==
  ASSUME NEW P, NEW K, NEW f, \A p \in P : f[<<p.from, p.to>>] \in K
  PROVE  ShardedEnds(P, f, K) = FrequentEnds(P)
<1> DEFINE MidsOf(D, x) == {y.mid : y \in {z \in D : z.from = x.from /\ z.to = x.to}}
           Frequent(D, x) == Cardinality(MidsOf(D, x)) >= MinRequired
<1>1. \A D, a : a \in FrequentEnds(D) <=> \E x \in D : a \in {x.from, x.to} /\ Frequent(D, x)
  BY DEF FrequentEnds
<1>2. \A x, k : x \in PathsOf(P, f, k) <=> x \in P /\ f[<<x.from, x.to>>] = k
  BY DEF PathsOf
<1>3. ASSUME NEW x
      PROVE  Frequent(PathsOf(P, f, f[<<x.from, x.to>>]), x) <=> Frequent(P, x)
  <2>1. {z \in PathsOf(P, f, f[<<x.from, x.to>>]) : z.from = x.from /\ z.to = x.to}
          = {z \in P : z.from = x.from /\ z.to = x.to}
    BY DEF PathsOf
  <2>2. QED
    BY <2>1
<1> HIDE DEF Frequent
<1>4. ASSUME NEW a
      PROVE  a \in FrequentEnds(P) <=> \E k \in K : a \in FrequentEnds(PathsOf(P, f, k))
  <2>1. ASSUME NEW x \in P, a \in {x.from, x.to}, Frequent(P, x)
        PROVE  \E k \in K : a \in FrequentEnds(PathsOf(P, f, k))
    <3> DEFINE k == f[<<x.from, x.to>>]
    <3>1. k \in K /\ x \in PathsOf(P, f, k) /\ Frequent(PathsOf(P, f, k), x)
      BY <1>2, <1>3, <2>1
    <3>2. QED
      BY <1>1, <2>1, <3>1
  <2>2. ASSUME NEW k \in K, NEW x \in PathsOf(P, f, k), a \in {x.from, x.to},
               Frequent(PathsOf(P, f, k), x)
        PROVE  a \in FrequentEnds(P)
    <3>1. x \in P /\ f[<<x.from, x.to>>] = k
      BY <1>2
    <3>2. Frequent(P, x)
      BY <1>3, <2>2, <3>1
    <3>3. QED
      BY <1>1, <2>2, <3>1, <3>2
  <2>3. QED
    BY <1>1, <2>1, <2>2
<1>5. QED
  BY <1>4 DEF ShardedEnds

AccountsOf(T) == {t.from : t \in T} \cup {t.to : t \in T}

\* However the three stages are sharded, each by its own number of replicas,
\* they answer together what _build_query_4 answers.
THEOREM ShardedAnswerIsExpected ==
  ASSUME NEW T, IsFiniteSet(T), NEW K1, NEW K2, NEW K3,
         NEW shard1 \in [AccountsOf(T) -> K1], NEW shard2 \in [AccountsOf(T) -> K2],
         NEW shard3 \in [AccountsOf(T) \X AccountsOf(T) -> K3]
  PROVE  LET E == BothDirections(T)
             F == ShardedEdges(E, shard1, K1)
             P == ShardedPaths(F, shard2, K2)
         IN  ShardedEnds(P, shard3, K3) = ExpectedAccounts(T)
<1> DEFINE E == BothDirections(T)
           F == FrequentEdges(E)
           P == Paths(F)
<1>1. ASSUME NEW e \in E
      PROVE  e.account \in AccountsOf(T) /\ e.other \in AccountsOf(T)
  <2>1. PICK t \in T : e = Sent(t) \/ e = Got(t)
    BY InBothDirections
  <2>2. QED
    BY <2>1, EdgeFields DEF AccountsOf
<1>2. \A e \in F : e.account \in AccountsOf(T) /\ e.other \in AccountsOf(T)
  <2>1. \A e \in F : \E x \in E : e = Reversed(x)
    BY DEF FrequentEdges
  <2>2. \A x : Reversed(x).account = x.other /\ Reversed(x).other = x.account
    BY DEF Reversed, Edge
  <2> HIDE DEF E, F
  <2>3. QED
    BY <1>1, <2>1, <2>2
<1>3. \A p \in P : p.from \in AccountsOf(T) /\ p.to \in AccountsOf(T)
  <2> SUFFICES ASSUME NEW p \in P
               PROVE  p.from \in AccountsOf(T) /\ p.to \in AccountsOf(T)
    OBVIOUS
  <2>1. PICK m : p \in [from : Others(F, m, FALSE), mid : {m}, to : Others(F, m, TRUE)]
    BY DEF Paths
  <2>2. p.from \in Others(F, m, FALSE) /\ p.to \in Others(F, m, TRUE)
    BY <2>1
  <2>3. (\E e \in F : e.other = p.from) /\ (\E e \in F : e.other = p.to)
    BY <2>2 DEF Others
  <2> HIDE DEF F
  <2>4. QED
    BY <1>2, <2>3
<1> HIDE DEF E, F, P
<1>4. ShardedEdges(E, shard1, K1) = F
  BY <1>1, FrequentEdgesAreSharded DEF F
<1>5. ShardedPaths(F, shard2, K2) = P
  BY <1>2, PathsAreSharded DEF P
<1>6. ShardedEnds(P, shard3, K3) = ExpectedAccounts(T)
  <2>1. \A p \in P : shard3[<<p.from, p.to>>] \in K3
    BY <1>3
  <2>2. ShardedEnds(P, shard3, K3) = FrequentEnds(P)
    BY <2>1, FrequentEndsAreSharded
  <2>3. QED
    BY <2>2, AnswerIsExpected DEF Answer, E, F, P
<1>7. QED
  BY <1>4, <1>5, <1>6 DEF E
=============================================================================
