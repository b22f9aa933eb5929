------------------------ MODULE StatefulRing_proofs ------------------------
(***************************************************************************)
(* Theorems about StatefulRing for every ring size, every stream and every *)
(* number of crashes.  The types hold wherever a node crashes; the rest    *)
(* holds as long as no node crashes between the sending of a count token   *)
(* and the append that records it (HarmlessCrashes), which is where the    *)
(* code does lose reports.                                                 *)
(*                                                                         *)
(* The invariant says of each node what its memory adds to its log         *)
(* (NodeOK), and of the ring one of two things.  While the nodes are asked *)
(* (Counting) at most one token is live and it carries the sum of what was *)
(* reported.  Once a flush token exists (Elected) the stream is complete,  *)
(* every flush token is a function of the coordinator and of its place on  *)
(* the lap, and a handler that a crash repeats sends what it sent before.  *)
(***************************************************************************)
EXTENDS StatefulRing_types

HarmlessCrashes == CrashPoints \cap {"eof", "count"} = {}

-----------------------------------------------------------------------------
(* Each node *)

Taken(n) == disk[n].main \cap Data

\* All that the record r counts has been reported.
Reported(r) == r.partial = r.processed /\ r.partialSent = r.sent

FlushLogged(n) == \E id \in disk[n].control : id[1] = "flush"

\* The handler that runs is the one for the delivery at the head.
HandlerOK(n) ==
  /\ \A i \in DOMAIN mainq[n] : mainq[n][i] \in Stream(n)
  /\ disk[n].main \subseteq Stream(n)
  /\ step[n] = "data" => Head(mainq[n]) \in Data
  /\ step[n] \in {"eof", "eof_logged"} => Head(mainq[n]) = Eof
  /\ step[n] \in {"count", "elect"} => Head(ctlq[n]).phase = "count"
  /\ step[n] \in {"flush", "passed"} => Head(ctlq[n]).phase = "flush"

\* What the log says of the messages it holds.
LogOK(n) ==
  LET r == disk[n]
  IN /\ r.processed = Cardinality(Taken(n))
     /\ r.partial <= r.processed /\ r.partialSent <= r.sent
     /\ r.partial = r.processed => r.partialSent = r.sent
     /\ eager => r.buffer = {} /\ r.sent = Cardinality(Taken(n) \cap Results)
     /\ ~eager /\ ~FlushLogged(n) =>
          r.sent = 0 /\ r.partialSent = 0 /\ r.buffer = Taken(n) \cap Results

\* What the memory of a node that runs adds to its log.
MemoryOK(n) ==
  LET r == disk[n]
      m == mem[n]
  IN /\ m.main = r.main /\ m.control = r.control
     /\ m.processed = IF step[n] = "data" THEN r.processed + 1 ELSE r.processed
     /\ m.partial = IF step[n] \in {"eof", "count", "elect"} THEN m.processed
                                                             ELSE r.partial
     /\ m.sent = IF step[n] = "data" /\ eager THEN r.sent + Cardinality(Added(n))
                 ELSE IF step[n] \in {"flush", "passed"}
                 THEN r.sent + Cardinality(r.buffer) ELSE r.sent
     /\ m.partialSent = IF step[n] \in {"eof", "count", "elect", "passed"} THEN m.sent
                                                                 ELSE r.partialSent
     /\ eager => m.buffer = {}
     /\ step[n] \in {"flush", "passed"} => m.buffer = {} /\ ~FlushLogged(n)
     /\ step[n] = "data" /\ ~eager => m.buffer = r.buffer \cup Added(n) \/ FlushLogged(n)
     /\ step[n] \in {"free", "eof", "eof_logged", "count", "elect"} =>
          m.buffer = r.buffer \/ FlushLogged(n)

NodeOK(n) ==
  HandlerOK(n) /\ LogOK(n) /\ (step[n] # "down" => MemoryOK(n))

\* Results reach downstream when they are sent, and no others do.
OutOK ==
  /\ out \subseteq Results
  /\ eager => \A n \in Nodes : Taken(n) \cap Results \subseteq out
  /\ \A n \in Nodes : eager /\ step[n] = "data" => Added(n) \subseteq out

-----------------------------------------------------------------------------
(* The EOF *)

FirstId == <<"count", 0>>

\* The first token is with the node that follows node 0, or was handled there.
Issued ==
  \/ FirstId \in disk[NextNode(0)].control
  \/ \E i \in DOMAIN ctlq[NextNode(0)] : TokenId(ctlq[NextNode(0)][i]) = FirstId

Unstarted ==
  /\ step[0] \notin {"eof", "eof_logged"}
  /\ \A n \in Nodes : /\ ctlq[n] = <<>> /\ disk[n].control = {}
                      /\ disk[n].partial = 0 /\ disk[n].partialSent = 0

\* The EOF may be handled once more, and there is nothing new to report then.
Repeatable ==
  /\ Issued
  /\ mainq[0] # <<>> /\ Head(mainq[0]) = Eof
  /\ step[0] = "eof" \/ Reported(disk[0])

StartOK == Eof \in disk[0].main \/ Unstarted \/ Repeatable

-----------------------------------------------------------------------------
(* The tokens *)

\* The token was not handled yet, nor is it being forwarded.
Live(n, i) ==
  /\ i \in DOMAIN ctlq[n]
  /\ TokenId(ctlq[n][i]) \notin disk[n].control
  /\ step[n] = "count" => TokenId(ctlq[n][i]) # TokenId(Head(ctlq[n]))

First(n, i) == \A j \in DOMAIN ctlq[n] :
                 j < i => TokenId(ctlq[n][j]) # TokenId(ctlq[n][i])

\* The record by which a node will go on.
Rec(n) == IF step[n] = "down" THEN disk[n] ELSE mem[n]

Reports     == [n \in Nodes |-> Rec(n).partial]
SentReports == [n \in Nodes |-> Rec(n).partialSent]

TotalReported     == SumOver(Reports)
TotalSentReported == SumOver(SentReports)

Flushing ==
  \E n \in Nodes : FlushLogged(n) \/ \E i \in DOMAIN ctlq[n] : ctlq[n][i].phase = "flush"

Counting ==
  /\ finals = {}
  /\ \A n, m \in Nodes : \A i \in DOMAIN ctlq[n] : \A j \in DOMAIN ctlq[m] :
       Live(n, i) /\ Live(m, j) => n = m /\ TokenId(ctlq[n][i]) = TokenId(ctlq[m][j])
  /\ \A n \in Nodes : \A i \in DOMAIN ctlq[n] :
       Live(n, i) /\ First(n, i) =>
         ctlq[n][i].total = TotalReported /\ ctlq[n][i].sent = TotalSentReported
  /\ \A n \in Nodes : step[n] # "elect"

\* The hops from the coordinator c to n on the flush lap, which ends at c.
Place(c, n) == IF n > c THEN n - c - 1 ELSE n - c - 1 + N

\* The results of the nodes that a flush token has passed when it is at n.
Before(c, n) == {r \in Results : Place(c, ShardOf[r]) < Place(c, n)}

SentBefore(c, n) == IF eager THEN Cardinality(Results) ELSE Cardinality(Before(c, n))

LapToken(c, n) == [phase |-> "flush", seq |-> Place(c, n), total |-> Expected,
                   sent |-> SentBefore(c, n), coordinator |-> c]

\* The coordinator has not logged the token by which it was elected, and will
\* come to the same decision by it.
Pending(c) ==
  /\ ctlq[c] # <<>> /\ step[c] # "count"
  /\ step[c] = "eof" => Reported(disk[c])
  /\ Head(ctlq[c]).phase = "count" /\ TokenId(Head(ctlq[c])) \notin disk[c].control
  /\ Head(ctlq[c]).total + (disk[c].processed - disk[c].partial) = Expected
  /\ Head(ctlq[c]).sent + (disk[c].sent - disk[c].partialSent)
       = IF eager THEN Cardinality(Results) ELSE 0

Elected(c) ==
  /\ AllProcessed
  /\ \A n \in Nodes : \A i \in DOMAIN ctlq[n] :
       IF ctlq[n][i].phase = "flush"
       THEN ctlq[n][i] = LapToken(c, n) /\ (~eager => Before(c, n) \subseteq out)
       ELSE Live(n, i) =>
              n = c /\ Pending(c) /\ TokenId(ctlq[n][i]) = TokenId(Head(ctlq[n]))
  /\ \A n \in Nodes :
       /\ \A id \in disk[n].control : id[1] = "flush" => id[2] = Place(c, n)
       /\ step[n] \in {"count", "eof"} \/ Reported(disk[n]) \/ (n = c /\ Pending(c))
       /\ step[n] = "elect" => n = c
       /\ ~eager /\ step[n] \in {"flush", "passed"} => Taken(n) \cap Results \subseteq out
  /\ finals \subseteq {Cardinality(Results)}
  /\ finals # {} => out = Results

RingOK == IF Flushing THEN \E c \in Nodes : Elected(c) ELSE Counting

Inductive ==
  (\A n \in Nodes : NodeOK(n)) /\ OutOK /\ StartOK /\ RingOK

-----------------------------------------------------------------------------
(* Sums over the nodes *)

Pairs(f) == UNION {{n} \X (1 .. f[n]) : n \in Nodes}

Counts == [Nodes -> Nat]

LEMMA PairsMember ==
  ASSUME NEW f
  PROVE  /\ \A n, k : <<n, k>> \in Pairs(f) <=> n \in Nodes /\ k \in 1 .. f[n]
         /\ \A p \in Pairs(f) : p = <<p[1], p[2]>> /\ p[1] \in Nodes /\ p[2] \in 1 .. f[p[1]]
BY DEF Pairs

LEMMA PairsFinite ==
  ASSUME NEW f \in Counts
  PROVE  IsFiniteSet(Pairs(f)) /\ SumOver(f) \in Nat /\ SumOver(f) = Cardinality(Pairs(f))
<1> DEFINE S == {{n} \X (1 .. f[n]) : n \in Nodes}
           g == [n \in Nodes |-> {n} \X (1 .. f[n])]
<1>1. g \in Surjection(Nodes, S)
  BY DEF Surjection
<1>2. IsFiniteSet(S)
  BY <1>1, RingNodes, FS_Surjection
<1>3. ASSUME NEW n \in Nodes PROVE IsFiniteSet({n} \X (1 .. f[n]))
  <2>1. f[n] \in Int
    BY DEF Counts
  <2>2. IsFiniteSet(1 .. f[n])
    BY <2>1, FS_Interval
  <2>3. IsFiniteSet({n})
    BY FS_Singleton
  <2>4. QED
    BY <2>2, <2>3, FS_Product
<1>4. IsFiniteSet(UNION S)
  BY <1>2, <1>3, FS_UNION
<1>5. QED
  BY <1>4, FS_CardinalityType DEF Pairs, SumOver

\* A node's number grows, and the sum by as much.
LEMMA SumRaise ==
  ASSUME NEW f \in Counts, NEW n \in Nodes, NEW k \in Nat, f[n] <= k,
         NEW g \in Counts, g = [f EXCEPT ![n] = k]
  PROVE  SumOver(g) = SumOver(f) + (k - f[n])
<1> DEFINE New == {n} \X (f[n] + 1 .. k)
<1>1. f[n] \in Nat
  BY DEF Counts
<1>2. Pairs(g) = Pairs(f) \cup New
  <2>1. ASSUME NEW p \in Pairs(g) PROVE p \in Pairs(f) \cup New
    <3>1. p = <<p[1], p[2]>> /\ p[1] \in Nodes /\ p[2] \in 1 .. g[p[1]]
      BY PairsMember
    <3>2. CASE p[1] = n
      <4>1. p[2] \in 1 .. k
        BY <3>1, <3>2 DEF Counts
      <4>2. p[2] \in 1 .. f[n] \/ p[2] \in f[n] + 1 .. k
        BY <1>1, <4>1
      <4>3. QED
        BY <3>1, <3>2, <4>2, PairsMember
    <3>3. CASE p[1] # n
      <4>1. p[2] \in 1 .. f[p[1]]
        BY <3>1, <3>3 DEF Counts
      <4>2. QED
        BY <3>1, <4>1, PairsMember
    <3>4. QED
      BY <3>2, <3>3
  <2>2. ASSUME NEW p \in Pairs(f) PROVE p \in Pairs(g)
    <3>1. p = <<p[1], p[2]>> /\ p[1] \in Nodes /\ p[2] \in 1 .. f[p[1]]
      BY PairsMember
    <3>2. p[2] \in 1 .. g[p[1]]
      BY <1>1, <3>1 DEF Counts
    <3>3. <<p[1], p[2]>> \in Pairs(g)
      BY <3>1, <3>2, PairsMember
    <3>4. QED
      BY <3>1, <3>3
  <2>3. ASSUME NEW p \in New PROVE p \in Pairs(g)
    <3>1. p = <<p[1], p[2]>> /\ p[1] = n /\ p[2] \in 1 .. k
      BY <1>1
    <3>2. g[n] = k
      BY DEF Counts
    <3>3. <<n, p[2]>> \in Pairs(g)
      BY <3>1, <3>2, PairsMember
    <3>4. QED
      BY <3>1, <3>3
  <2>4. QED
    BY <2>1, <2>2, <2>3
<1>3. Pairs(f) \cap New = {}
  <2>1. ASSUME NEW p \in Pairs(f), p \in New PROVE FALSE
    <3>1. p[1] = n /\ p[2] \in 1 .. f[p[1]] /\ p[2] \in f[n] + 1 .. k
      BY <2>1, PairsMember
    <3>2. QED
      BY <1>1, <3>1
  <2>2. QED
    BY <2>1
<1>4. IsFiniteSet(New) /\ Cardinality(New) = k - f[n]
  <2>0. f[n] + 1 \in Int /\ k \in Int
    BY <1>1
  <2>1. /\ IsFiniteSet(f[n] + 1 .. k)
        /\ Cardinality(f[n] + 1 .. k) = IF f[n] + 1 > k THEN 0 ELSE k - (f[n] + 1) + 1
    BY <2>0, FS_Interval
  <2>2. Cardinality(f[n] + 1 .. k) = k - f[n]
    BY <1>1, <2>1
  <2>3. IsFiniteSet({n}) /\ Cardinality({n}) = 1
    BY FS_Singleton
  <2>4. /\ IsFiniteSet(New)
        /\ Cardinality(New) = Cardinality({n}) * Cardinality(f[n] + 1 .. k)
    BY <2>1, <2>3, FS_Product
  <2>5. QED
    BY <1>1, <2>2, <2>3, <2>4
<1>5. Cardinality(Pairs(f) \cap New) = 0
  BY <1>3, FS_EmptySet
<1>6. /\ SumOver(f) = Cardinality(Pairs(f)) /\ SumOver(g) = Cardinality(Pairs(g))
      /\ IsFiniteSet(Pairs(f)) /\ SumOver(f) \in Nat
  BY PairsFinite
<1>7. Cardinality(Pairs(g))
        = Cardinality(Pairs(f)) + Cardinality(New) - Cardinality(Pairs(f) \cap New)
  BY <1>2, <1>4, <1>6, FS_Union
<1>8. QED
  BY <1>1, <1>4, <1>5, <1>6, <1>7

LEMMA SumZero ==
  ASSUME NEW f \in Counts, \A n \in Nodes : f[n] = 0
  PROVE  SumOver(f) = 0
<1>1. Pairs(f) = {}
  <2>1. ASSUME NEW p \in Pairs(f) PROVE FALSE
    BY PairsMember
  <2>2. QED
    BY <2>1
<1>2. QED
  BY <1>1, FS_EmptySet, PairsFinite

\* The sizes of disjoint sets, one for each node, add up to the size of their
\* union.
Disjoint(A) == \A n, m \in Nodes : n # m => A[n] \cap A[m] = {}

LEMMA SumOfSizes ==
  ASSUME NEW D, IsFiniteSet(D), NEW A \in [Nodes -> SUBSET D], Disjoint(A),
         NEW f \in Counts, \A n \in Nodes : f[n] = Cardinality(A[n])
  PROVE  SumOver(f) = Cardinality(UNION {A[n] : n \in Nodes})
<1> DEFINE U == UNION {A[n] : n \in Nodes}
           b == [n \in Nodes |-> CHOOSE g : g \in Bijection(1 .. f[n], A[n])]
           h == [p \in Pairs(f) |-> b[p[1]][p[2]]]
<1>1. ASSUME NEW n \in Nodes PROVE b[n] \in Bijection(1 .. f[n], A[n])
  <2>1. IsFiniteSet(A[n])
    BY FS_Subset
  <2>2. \E g : g \in Bijection(1 .. f[n], A[n])
    BY <2>1, FS_CardinalityType DEF ExistsBijection
  <2>3. QED
    BY <2>2
<1>2. ASSUME NEW n \in Nodes
      PROVE  /\ \A k \in 1 .. f[n] : b[n][k] \in A[n]
             /\ \A k, l \in 1 .. f[n] : b[n][k] = b[n][l] => k = l
             /\ \A a \in A[n] : \E k \in 1 .. f[n] : b[n][k] = a
  <2>1. /\ b[n] \in [1 .. f[n] -> A[n]] /\ IsInjective(b[n])
        /\ \A a \in A[n] : \E k \in 1 .. f[n] : b[n][k] = a
    BY <1>1 DEF Bijection, Injection, Surjection
  <2>2. \A k \in 1 .. f[n] : b[n][k] \in A[n]
    BY <2>1
  <2>3. \A k, l \in 1 .. f[n] : b[n][k] = b[n][l] => k = l
    BY <2>1 DEF IsInjective
  <2>4. QED
    BY <2>1, <2>2, <2>3
<1> HIDE DEF b
<1>3. ASSUME NEW p \in Pairs(f)
      PROVE  p = <<p[1], p[2]>> /\ p[1] \in Nodes /\ p[2] \in 1 .. f[p[1]]
             /\ h[p] = b[p[1]][p[2]] /\ h[p] \in A[p[1]] /\ h[p] \in U
  BY <1>2, PairsMember
<1>4. ASSUME NEW p \in Pairs(f), NEW q \in Pairs(f), h[p] = h[q] PROVE p = q
  <2>1. p[1] = q[1]
    BY <1>3, <1>4 DEF Disjoint
  <2>2. p[2] = q[2]
    BY <1>2, <1>3, <1>4, <2>1
  <2>3. QED
    BY <1>3, <2>1, <2>2
<1>5. ASSUME NEW a \in U PROVE \E p \in Pairs(f) : h[p] = a
  <2>1. PICK n \in Nodes : a \in A[n]
    OBVIOUS
  <2>2. PICK k \in 1 .. f[n] : b[n][k] = a
    BY <1>2, <2>1
  <2>3. <<n, k>> \in Pairs(f)
    BY <2>2, PairsMember
  <2>4. h[<<n, k>>] = b[n][k]
    BY <2>3
  <2>5. QED
    BY <2>2, <2>3, <2>4
<1>6. h \in [Pairs(f) -> U]
  BY <1>3
<1> HIDE DEF h
<1>7. h \in Bijection(Pairs(f), U)
  BY <1>4, <1>5, <1>6 DEF Bijection, Injection, IsInjective, Surjection
<1>8. QED
  BY <1>7, PairsFinite, FS_Bijection DEF ExistsBijection

\* Numbers that are at most the sizes of disjoint parts of D, and that add up
\* to the size of D, are these sizes, and the parts make up D.
LEMMA SumBound ==
  ASSUME NEW D, IsFiniteSet(D), NEW A \in [Nodes -> SUBSET D], Disjoint(A),
         NEW f \in Counts, \A n \in Nodes : f[n] <= Cardinality(A[n]),
         SumOver(f) >= Cardinality(D)
  PROVE  /\ \A d \in D : \E n \in Nodes : d \in A[n]
         /\ \A n \in Nodes : f[n] = Cardinality(A[n])
         /\ SumOver(f) = Cardinality(D)
<1> DEFINE U == UNION {A[n] : n \in Nodes}
           s == [n \in Nodes |-> Cardinality(A[n])]
<1>1. s \in Counts
  BY FS_Subset, FS_CardinalityType DEF Counts
<1>2. SumOver(s) = Cardinality(U)
  BY <1>1, SumOfSizes
<1>3. U \in SUBSET D
  OBVIOUS
<1>4. Cardinality(U) <= Cardinality(D) /\ (Cardinality(D) = Cardinality(U) => D = U)
  BY <1>3, FS_Subset
<1>5. Pairs(f) \in SUBSET Pairs(s)
  <2>1. ASSUME NEW p \in Pairs(f) PROVE p \in Pairs(s)
    <3>1. p = <<p[1], p[2]>> /\ p[1] \in Nodes /\ p[2] \in 1 .. f[p[1]]
      BY PairsMember
    <3>2. p[2] \in 1 .. s[p[1]]
      BY <1>1, <3>1 DEF Counts
    <3>3. QED
      BY <3>1, <3>2, PairsMember
  <2>2. QED
    BY <2>1
<1>6. /\ Cardinality(Pairs(f)) <= Cardinality(Pairs(s))
      /\ Cardinality(Pairs(s)) = Cardinality(Pairs(f)) => Pairs(s) = Pairs(f)
  BY <1>1, <1>5, PairsFinite, FS_Subset
<1>7. /\ SumOver(f) = Cardinality(Pairs(f)) /\ SumOver(s) = Cardinality(Pairs(s))
      /\ SumOver(f) \in Nat /\ SumOver(s) \in Nat /\ Cardinality(D) \in Nat
  BY <1>1, PairsFinite, FS_CardinalityType
<1>8. SumOver(f) = Cardinality(D) /\ D = U /\ Pairs(s) = Pairs(f)
  BY <1>2, <1>4, <1>6, <1>7
<1>9. ASSUME NEW n \in Nodes, f[n] # s[n] PROVE FALSE
  <2>1. f[n] \in Nat /\ s[n] \in Nat /\ f[n] < s[n]
    BY <1>1, <1>9 DEF Counts
  <2>2. <<n, s[n]>> \in Pairs(s)
    BY <2>1, PairsMember
  <2>3. s[n] \in 1 .. f[n]
    BY <1>8, <2>2, PairsMember
  <2>4. QED
    BY <2>1, <2>3
<1>10. QED
  BY <1>8, <1>9

-----------------------------------------------------------------------------
(* The flush lap *)

LEMMA PlaceOf ==
  ASSUME NEW c \in Nodes, NEW n \in Nodes
  PROVE  /\ Place(c, n) \in 0 .. N - 1
         /\ Place(c, NextNode(c)) = 0 /\ Place(c, c) = N - 1
         /\ n # c => Place(c, NextNode(n)) = Place(c, n) + 1
         /\ \A m \in Nodes : Place(c, m) = Place(c, n) => m = n
<1>1. /\ N \in Nat \ {0} /\ \A m \in Nodes : m \in Nat /\ m < N
      /\ \A m \in Nodes : NextNode(m) = IF m = N - 1 THEN 0 ELSE m + 1
  BY RingNodes
<1>2. Place(c, n) \in 0 .. N - 1 /\ Place(c, c) = N - 1
  BY <1>1 DEF Place
<1>3. Place(c, NextNode(c)) = 0
  BY <1>1 DEF Place
<1>4. n # c => Place(c, NextNode(n)) = Place(c, n) + 1
  BY <1>1 DEF Place
<1>5. ASSUME NEW m \in Nodes, Place(c, m) = Place(c, n) PROVE m = n
  BY <1>1, <1>5 DEF Place
<1>6. QED
  BY <1>2, <1>3, <1>4, <1>5

\* The results that node n has when the stream is complete.
ResultsAt(n) == {r \in Results : ShardOf[r] = n}

LEMMA BeforeNext ==
  ASSUME NEW c \in Nodes, NEW n \in Nodes
  PROVE  /\ Before(c, NextNode(c)) = {}
         /\ Before(c, n) \cap ResultsAt(n) = {}
         /\ n # c => Before(c, NextNode(n)) = Before(c, n) \cup ResultsAt(n)
         /\ Before(c, c) \cup ResultsAt(c) = Results
<1>1. \A m \in Nodes : /\ Place(c, m) \in 0 .. N - 1
                       /\ Place(c, m) = Place(c, n) => m = n
                       /\ Place(c, m) = Place(c, c) => m = c
  BY PlaceOf
<1>2. /\ Place(c, NextNode(c)) = 0 /\ Place(c, c) = N - 1
      /\ n # c => Place(c, NextNode(n)) = Place(c, n) + 1
  BY PlaceOf
<1>3. \A r \in Results : ShardOf[r] \in Nodes
  BY ParametersAssumption
<1>4. Before(c, NextNode(c)) = {}
  <2>1. ASSUME NEW r \in Results PROVE ~(Place(c, ShardOf[r]) < 0)
    BY <1>1, <1>3
  <2>2. QED
    BY <1>2, <2>1 DEF Before
<1>5. Before(c, n) \cap ResultsAt(n) = {}
  BY <1>1 DEF Before, ResultsAt
<1>6. ASSUME n # c PROVE Before(c, NextNode(n)) = Before(c, n) \cup ResultsAt(n)
  <2>1. ASSUME NEW r \in Results
        PROVE  Place(c, ShardOf[r]) < Place(c, NextNode(n))
                 <=> Place(c, ShardOf[r]) < Place(c, n) \/ ShardOf[r] = n
    <3>1. Place(c, ShardOf[r]) \in Int /\ Place(c, n) \in Int
      BY <1>1, <1>3
    <3>2. Place(c, ShardOf[r]) = Place(c, n) <=> ShardOf[r] = n
      BY <1>1, <1>3
    <3>3. QED
      BY <1>2, <1>6, <3>1, <3>2
  <2>2. QED
    BY <2>1 DEF Before, ResultsAt
<1>7. Before(c, c) \cup ResultsAt(c) = Results
  <2>1. ASSUME NEW r \in Results
        PROVE  Place(c, ShardOf[r]) < Place(c, c) \/ ShardOf[r] = c
    BY <1>1, <1>2, <1>3
  <2>2. QED
    BY <2>1 DEF Before, ResultsAt
<1>8. QED
  BY <1>4, <1>5, <1>6, <1>7

\* The count that a flush token takes from one node of the lap to the next.
LEMMA SentNext ==
  ASSUME NEW c \in Nodes, NEW n \in Nodes, ~eager
  PROVE  /\ SentBefore(c, NextNode(c)) = 0
         /\ n # c => SentBefore(c, NextNode(n))
                       = SentBefore(c, n) + Cardinality(ResultsAt(n))
         /\ SentBefore(c, c) + Cardinality(ResultsAt(c)) = Cardinality(Results)
<1>1. \A m \in Nodes : IsFiniteSet(Before(c, m)) /\ IsFiniteSet(ResultsAt(m))
  <2>1. \A m \in Nodes : Before(c, m) \in SUBSET Results /\ ResultsAt(m) \in SUBSET Results
    BY DEF Before, ResultsAt
  <2>2. QED
    BY <2>1, ExpectedTyped, FS_Subset
<1>2. \A m \in Nodes : Before(c, m) \cap ResultsAt(m) = {}
  BY BeforeNext
<1>3. ASSUME NEW m \in Nodes
      PROVE  Cardinality(Before(c, m) \cup ResultsAt(m))
               = Cardinality(Before(c, m)) + Cardinality(ResultsAt(m))
  <2>1. /\ Cardinality(Before(c, m)) \in Nat /\ Cardinality(ResultsAt(m)) \in Nat
        /\ Cardinality(Before(c, m) \cap ResultsAt(m)) = 0
    BY <1>1, <1>2, FS_CardinalityType, FS_EmptySet
  <2>2. Cardinality(Before(c, m) \cup ResultsAt(m))
          = Cardinality(Before(c, m)) + Cardinality(ResultsAt(m))
            - Cardinality(Before(c, m) \cap ResultsAt(m))
    BY <1>1, FS_Union
  <2>3. QED
    BY <2>1, <2>2
<1>4. Before(c, NextNode(c)) = {} /\ Before(c, c) \cup ResultsAt(c) = Results
      /\ (n # c => Before(c, NextNode(n)) = Before(c, n) \cup ResultsAt(n))
  BY BeforeNext
<1>5. Cardinality({}) = 0
  BY FS_EmptySet
<1>6. QED
  BY <1>3, <1>4, <1>5 DEF SentBefore

-----------------------------------------------------------------------------
(* The streams of the nodes *)

NodesOK == \A n \in Nodes : NodeOK(n)

DataOf(n) == {d \in Data : ShardOf[d] = n}

LEMMA TakenTyped ==
  ASSUME NodesOK, NEW n \in Nodes
  PROVE  /\ Taken(n) \subseteq DataOf(n) /\ DataOf(n) \subseteq Data
         /\ IsFiniteSet(Taken(n)) /\ Cardinality(Taken(n)) \in Nat
         /\ IsFiniteSet(Taken(n) \cap Results) /\ Cardinality(Taken(n) \cap Results) \in Nat
         /\ Cardinality(Taken(n)) = disk[n].processed
<1>1. Taken(n) \subseteq DataOf(n)
  BY ParametersAssumption DEF NodesOK, NodeOK, HandlerOK, Stream, Taken, DataOf
<1>2. Taken(n) \in SUBSET Data /\ Taken(n) \cap Results \in SUBSET Data
  BY DEF Taken
<1>3. IsFiniteSet(Taken(n)) /\ IsFiniteSet(Taken(n) \cap Results)
  BY <1>2, FS_Subset, ParametersAssumption
<1>4. Cardinality(Taken(n)) = disk[n].processed
  BY DEF NodesOK, NodeOK, LogOK
<1>5. QED
  BY <1>1, <1>3, <1>4, FS_CardinalityType DEF DataOf

\* When the stream is complete each node has all that is routed to it.
LEMMA CompleteStreams ==
  ASSUME NodesOK, AllProcessed, NEW n \in Nodes
  PROVE  Taken(n) = DataOf(n) /\ Taken(n) \cap Results = ResultsAt(n)
<1>1. ASSUME NEW d \in DataOf(n) PROVE d \in Taken(n)
  <2>1. PICK m \in Nodes : d \in disk[m].main
    BY DEF AllProcessed, DataOf
  <2>2. d \in DataOf(m)
    BY <2>1, TakenTyped DEF Taken, DataOf
  <2>3. m = n
    BY <2>2 DEF DataOf
  <2>4. QED
    BY <2>1, <2>3 DEF Taken, DataOf
<1>2. Taken(n) = DataOf(n)
  BY <1>1, TakenTyped
<1>3. QED
  BY <1>2, ParametersAssumption DEF DataOf, ResultsAt

\* Then no node has a message left to handle.
LEMMA CompleteHeads ==
  ASSUME Typed, NodesOK, AllProcessed, NEW n \in Nodes, mainq[n] # <<>>,
         step[n] # "down", Head(mainq[n]) \notin mem[n].main
  PROVE  Head(mainq[n]) = Eof
<1>1. Head(mainq[n]) = mainq[n][1] /\ 1 \in DOMAIN mainq[n]
  BY HeadTyped DEF Typed, TypeOK
<1>2. Head(mainq[n]) \in Stream(n) /\ mem[n].main = disk[n].main
  BY <1>1 DEF NodesOK, NodeOK, HandlerOK, MemoryOK
<1>3. Head(mainq[n]) \notin DataOf(n)
  BY <1>2, CompleteStreams DEF Taken
<1>4. QED
  BY <1>2, <1>3 DEF Stream, DataOf

-----------------------------------------------------------------------------
(* Each node: the steps *)

LEMMA NodeFrame ==
  ASSUME NEW m \in Nodes, Typed, NodeOK(m), UNCHANGED eager,
         mem'[m] = mem[m], disk'[m] = disk[m], step'[m] = step[m], mainq'[m] = mainq[m],
         ctlq[m] # <<>> => ctlq'[m] # <<>> /\ Head(ctlq'[m]) = Head(ctlq[m])
  PROVE  NodeOK(m)'
<1>1. step[m] \in {"count", "elect", "flush", "passed"} =>
        ctlq[m] # <<>> /\ Head(ctlq'[m]) = Head(ctlq[m])
  BY DEF Typed, Handling, ControlSteps
<1>2. HandlerOK(m)'
  BY <1>1 DEF NodeOK, HandlerOK
<1>3. LogOK(m)'
  BY DEF NodeOK, LogOK, Taken, FlushLogged
<1>4. step'[m] # "down" => MemoryOK(m)'
  BY DEF NodeOK, MemoryOK, FlushLogged, Added
<1>5. QED
  BY <1>2, <1>3, <1>4 DEF NodeOK

LEMMA NodeTyped ==
  ASSUME Typed, NEW n \in Nodes
  PROVE  /\ disk[n] \in Records /\ mem[n] \in Records
         /\ mainq[n] \in Seq(Data \cup {Eof}) /\ ctlq[n] \in Seq(Tokens)
         /\ disk[n].processed \in Nat /\ disk[n].partial \in Nat
         /\ disk[n].sent \in Nat /\ disk[n].partialSent \in Nat
         /\ mem[n].processed \in Nat /\ mem[n].partial \in Nat
         /\ mem[n].sent \in Nat /\ mem[n].partialSent \in Nat
         /\ disk[n].buffer \subseteq Data /\ mem[n].buffer \subseteq Data
         /\ disk[n].main \subseteq Data \cup {Eof}
<1>1. disk[n] \in Records /\ mem[n] \in Records
      /\ mainq[n] \in Seq(Data \cup {Eof}) /\ ctlq[n] \in Seq(Tokens)
  BY DEF Typed, TypeOK
<1>2. QED
  BY <1>1, RecordTyped

\* What a node that handles nothing has in memory.
LEMMA AtRest ==
  ASSUME NEW n \in Nodes, NodeOK(n), step[n] = "free"
  PROVE  /\ mem[n].main = disk[n].main /\ mem[n].control = disk[n].control
         /\ mem[n].processed = disk[n].processed /\ mem[n].partial = disk[n].partial
         /\ mem[n].sent = disk[n].sent /\ mem[n].partialSent = disk[n].partialSent
         /\ eager => mem[n].buffer = {}
         /\ mem[n].buffer = disk[n].buffer \/ FlushLogged(n)
BY DEF NodeOK, MemoryOK

LEMMA NodeBufferData ==
  ASSUME Typed, NEW n \in Nodes, NodeOK(n), BufferData(n)
  PROVE  NodeOK(n)'
<1>1. /\ ~eager /\ step[n] = "free" /\ step'[n] = "data"
      /\ Head(mainq[n]) \in Data
      /\ UNCHANGED <<eager, mainq, ctlq, disk>>
  BY BufferDataEffect
<1>2. mem'[n] = Record(mem[n].main, mem[n].control,
              mem[n].buffer \cup Added(n), mem[n].processed + 1,
              mem[n].partial, mem[n].sent, mem[n].partialSent)
  BY BufferDataEffect
<1>3. /\ mem'[n].main = mem[n].main /\ mem'[n].control = mem[n].control
      /\ mem'[n].buffer = mem[n].buffer \cup Added(n)
      /\ mem'[n].processed = mem[n].processed + 1 /\ mem'[n].partial = mem[n].partial
      /\ mem'[n].sent = mem[n].sent /\ mem'[n].partialSent = mem[n].partialSent
  BY <1>2, RecordFields
<1>4. HandlerOK(n)'
  BY <1>1 DEF NodeOK, HandlerOK
<1>5. LogOK(n)'
  BY <1>1 DEF NodeOK, LogOK, Taken, FlushLogged
<1>6. MemoryOK(n)'
  BY <1>1, <1>3, AtRest DEF MemoryOK, FlushLogged, Added
<1>7. QED
  BY <1>4, <1>5, <1>6 DEF NodeOK

LEMMA NodeForwardData ==
  ASSUME Typed, NEW n \in Nodes, NodeOK(n), ForwardData(n)
  PROVE  NodeOK(n)'
<1>1. /\ eager /\ step[n] = "free" /\ step'[n] = "data"
      /\ Head(mainq[n]) \in Data
      /\ UNCHANGED <<eager, mainq, ctlq, disk>>
  BY ForwardDataEffect
<1>2. mem'[n] = Record(mem[n].main, mem[n].control, mem[n].buffer,
              mem[n].processed + 1, mem[n].partial,
              mem[n].sent + Cardinality(Added(n)), mem[n].partialSent)
  BY ForwardDataEffect
<1>3. /\ mem'[n].main = mem[n].main /\ mem'[n].control = mem[n].control
      /\ mem'[n].buffer = mem[n].buffer
      /\ mem'[n].processed = mem[n].processed + 1 /\ mem'[n].partial = mem[n].partial
      /\ mem'[n].sent = mem[n].sent + Cardinality(Added(n))
      /\ mem'[n].partialSent = mem[n].partialSent
  BY <1>2, RecordFields
<1>4. HandlerOK(n)'
  BY <1>1 DEF NodeOK, HandlerOK
<1>5. LogOK(n)'
  BY <1>1 DEF NodeOK, LogOK, Taken, FlushLogged
<1>6. MemoryOK(n)'
  BY <1>1, <1>3, AtRest DEF MemoryOK, FlushLogged, Added
<1>7. QED
  BY <1>4, <1>5, <1>6 DEF NodeOK

LEMMA NodeHandleEof ==
  ASSUME Typed, NEW n \in Nodes, NodeOK(n), HandleEof(n)
  PROVE  NodeOK(n)'
<1>1. /\ step[n] = "free" /\ step'[n] = "eof" /\ Head(mainq[n]) = Eof
      /\ UNCHANGED <<eager, mainq, disk>>
  BY HandleEofEffect
<1>2. mem'[n] = Record(mem[n].main, mem[n].control, mem[n].buffer,
              mem[n].processed, mem[n].processed, mem[n].sent, mem[n].sent)
  BY HandleEofEffect
<1>3. /\ mem'[n].main = mem[n].main /\ mem'[n].control = mem[n].control
      /\ mem'[n].buffer = mem[n].buffer
      /\ mem'[n].processed = mem[n].processed /\ mem'[n].partial = mem[n].processed
      /\ mem'[n].sent = mem[n].sent /\ mem'[n].partialSent = mem[n].sent
  BY <1>2, RecordFields
<1>4. HandlerOK(n)'
  BY <1>1 DEF NodeOK, HandlerOK
<1>5. LogOK(n)'
  BY <1>1 DEF NodeOK, LogOK, Taken, FlushLogged
<1>6. MemoryOK(n)'
  BY <1>1, <1>3, AtRest DEF MemoryOK, FlushLogged
<1>7. QED
  BY <1>4, <1>5, <1>6 DEF NodeOK

LEMMA NodeLogRingStart ==
  ASSUME Typed, NEW n \in Nodes, NodeOK(n), LogRingStart(n)
  PROVE  /\ NodeOK(n)' /\ Reported(disk'[n])
         /\ disk'[n].main = disk[n].main /\ disk'[n].control = disk[n].control
         /\ disk'[n].processed = disk[n].processed /\ disk'[n].sent = disk[n].sent
<1>1. /\ step[n] = "eof" /\ step'[n] = "eof_logged"
      /\ UNCHANGED <<eager, mainq, ctlq, mem>>
  BY LogRingStartEffect
<1>2. disk'[n] = Record(disk[n].main, disk[n].control, disk[n].buffer,
              disk[n].processed, mem[n].partial, mem[n].sent, mem[n].partialSent)
  BY LogRingStartEffect
<1>3. /\ disk'[n].main = disk[n].main /\ disk'[n].control = disk[n].control
      /\ disk'[n].buffer = disk[n].buffer
      /\ disk'[n].processed = disk[n].processed /\ disk'[n].partial = mem[n].partial
      /\ disk'[n].sent = mem[n].sent /\ disk'[n].partialSent = mem[n].partialSent
  BY <1>2, RecordFields
<1>4. HandlerOK(n)'
  BY <1>1, <1>3 DEF NodeOK, HandlerOK
<1>5. /\ mem[n].partial = disk[n].processed /\ mem[n].sent = disk[n].sent
      /\ mem[n].partialSent = disk[n].sent /\ mem[n].processed = disk[n].processed
  BY <1>1 DEF NodeOK, MemoryOK
<1>6. LogOK(n)'
  BY <1>1, <1>3, <1>5, NodeTyped DEF NodeOK, LogOK, Taken, FlushLogged
<1>7. MemoryOK(n)'
  BY <1>1, <1>3, <1>5 DEF NodeOK, MemoryOK, FlushLogged
<1>8. QED
  BY <1>3, <1>4, <1>5, <1>6, <1>7 DEF NodeOK, Reported

\* The message that a node logs is new to its log.
LEMMA TakenGrows ==
  ASSUME Typed, NEW n \in Nodes, NodeOK(n), LogMain(n)
  PROVE  LET m == Head(mainq[n])
         IN /\ m \in Stream(n) /\ m \notin disk[n].main
            /\ step[n] = "data" => m \in Data /\ m # Eof /\ Added(n) \subseteq Data
            /\ step[n] = "eof_logged" => m = Eof /\ Added(n) = {}
            /\ step[n] \in {"data", "eof_logged"}
            /\ Cardinality(Taken(n) \cup ({m} \cap Data))
                 = IF m = Eof THEN disk[n].processed ELSE disk[n].processed + 1
            /\ Cardinality((Taken(n) \cap Results) \cup Added(n))
                 = Cardinality(Taken(n) \cap Results) + Cardinality(Added(n))
<1>1. /\ step[n] \in {"data", "eof_logged"} /\ mainq[n] # <<>>
      /\ Head(mainq[n]) \notin mem[n].main
  BY LogMainEffect
<1>2. PICK m : m = Head(mainq[n])
  OBVIOUS
<1>3. m = mainq[n][1] /\ 1 \in DOMAIN mainq[n]
  BY <1>1, <1>2, NodeTyped, HeadTyped
<1>4. /\ m \in Stream(n) /\ m \notin disk[n].main
      /\ step[n] = "data" => m \in Data
      /\ step[n] = "eof_logged" => m = Eof
  BY <1>1, <1>2, <1>3 DEF NodeOK, HandlerOK, MemoryOK
<1>5. Eof \notin Data /\ Eof \notin Results
  BY ParametersAssumption
<1>6. /\ Added(n) = {m} \cap Results /\ Added(n) \subseteq Data
  BY <1>2, AddedTyped DEF Added
<1>7. IsFiniteSet(Taken(n)) /\ IsFiniteSet(Taken(n) \cap Results) /\ IsFiniteSet(Added(n))
      /\ Cardinality(Taken(n)) = disk[n].processed
  <2>1. Taken(n) \in SUBSET Data /\ Taken(n) \cap Results \in SUBSET Data
        /\ Added(n) \in SUBSET Data
    BY <1>6 DEF Taken
  <2>2. QED
    BY <2>1, FS_Subset, ParametersAssumption DEF NodeOK, LogOK
<1>8. Cardinality(Taken(n) \cup ({m} \cap Data))
        = IF m = Eof THEN disk[n].processed ELSE disk[n].processed + 1
  <2>1. CASE m = Eof
    <3>1. Taken(n) \cup ({m} \cap Data) = Taken(n)
      BY <1>5, <2>1
    <3>2. QED
      BY <1>7, <2>1, <3>1
  <2>2. CASE m # Eof
    <3>1. m \in Data /\ m \notin Taken(n)
      BY <1>4, <2>2 DEF Stream, Taken
    <3>2. Taken(n) \cup ({m} \cap Data) = Taken(n) \cup {m}
      BY <3>1
    <3>3. Cardinality(Taken(n) \cup {m}) = Cardinality(Taken(n)) + 1
      BY <1>7, <3>1, FS_AddElement
    <3>4. QED
      BY <1>7, <2>2, <3>2, <3>3
  <2>3. QED
    BY <2>1, <2>2
<1>9. Cardinality((Taken(n) \cap Results) \cup Added(n))
        = Cardinality(Taken(n) \cap Results) + Cardinality(Added(n))
  <2>1. (Taken(n) \cap Results) \cap Added(n) = {}
    BY <1>4, <1>6 DEF Taken
  <2>2. Cardinality((Taken(n) \cap Results) \cap Added(n)) = 0
    BY <2>1, FS_EmptySet
  <2>3. Cardinality((Taken(n) \cap Results) \cup Added(n))
          = Cardinality(Taken(n) \cap Results) + Cardinality(Added(n))
            - Cardinality((Taken(n) \cap Results) \cap Added(n))
    BY <1>7, FS_Union
  <2>4. Cardinality(Taken(n) \cap Results) \in Nat /\ Cardinality(Added(n)) \in Nat
    BY <1>7, FS_CardinalityType
  <2>5. QED
    BY <2>2, <2>3, <2>4
<1>10. QED
  BY <1>1, <1>2, <1>4, <1>5, <1>6, <1>8, <1>9

LEMMA NodeLogMain ==
  ASSUME Typed, NEW n \in Nodes, NodeOK(n), LogMain(n)
  PROVE  /\ NodeOK(n)'
         /\ disk'[n].main = disk[n].main \cup {Head(mainq[n])}
         /\ disk'[n].control = disk[n].control
         /\ disk'[n].partial = disk[n].partial
         /\ disk'[n].partialSent = disk[n].partialSent
         /\ mem'[n].partial = mem[n].partial /\ mem'[n].partialSent = mem[n].partialSent
         /\ step[n] = "eof_logged" =>
              disk'[n].processed = disk[n].processed /\ disk'[n].sent = disk[n].sent
         /\ Taken(n)' = Taken(n) \cup ({Head(mainq[n])} \cap Data)
<1>1. /\ step[n] \in {"data", "eof_logged"} /\ step'[n] = "free"
      /\ mainq[n] # <<>>
      /\ UNCHANGED <<eager, mainq, ctlq>>
  BY LogMainEffect
<1>2. mem'[n] = Record(mem[n].main \cup {Head(mainq[n])}, mem[n].control,
              mem[n].buffer, mem[n].processed, mem[n].partial, mem[n].sent,
              mem[n].partialSent)
  BY LogMainEffect
<1>3. disk'[n] = Record(disk[n].main \cup {Head(mainq[n])}, disk[n].control,
              IF eager THEN disk[n].buffer ELSE disk[n].buffer \cup Added(n),
              IF Head(mainq[n]) = Eof THEN disk[n].processed ELSE disk[n].processed + 1,
              disk[n].partial,
              IF eager THEN disk[n].sent + Cardinality(Added(n)) ELSE disk[n].sent,
              disk[n].partialSent)
  BY LogMainEffect
<1>4. /\ mem'[n].main = mem[n].main \cup {Head(mainq[n])}
      /\ mem'[n].control = mem[n].control /\ mem'[n].buffer = mem[n].buffer
      /\ mem'[n].processed = mem[n].processed /\ mem'[n].partial = mem[n].partial
      /\ mem'[n].sent = mem[n].sent /\ mem'[n].partialSent = mem[n].partialSent
  BY <1>2, RecordFields
<1>5. /\ disk'[n].main = disk[n].main \cup {Head(mainq[n])}
      /\ disk'[n].control = disk[n].control
      /\ disk'[n].buffer = IF eager THEN disk[n].buffer ELSE disk[n].buffer \cup Added(n)
      /\ disk'[n].processed = IF Head(mainq[n]) = Eof THEN disk[n].processed
                                                    ELSE disk[n].processed + 1
      /\ disk'[n].partial = disk[n].partial
      /\ disk'[n].sent = IF eager THEN disk[n].sent + Cardinality(Added(n)) ELSE disk[n].sent
      /\ disk'[n].partialSent = disk[n].partialSent
  BY <1>3, RecordFields
<1>6. PICK m : m = Head(mainq[n])
  OBVIOUS
<1>7. /\ m \in Stream(n) /\ m \notin disk[n].main
      /\ step[n] = "data" => m \in Data /\ m # Eof /\ Added(n) \subseteq Data
      /\ step[n] = "eof_logged" => m = Eof /\ Added(n) = {}
      /\ Cardinality(Taken(n) \cup ({m} \cap Data))
           = IF m = Eof THEN disk[n].processed ELSE disk[n].processed + 1
      /\ Cardinality((Taken(n) \cap Results) \cup Added(n))
           = Cardinality(Taken(n) \cap Results) + Cardinality(Added(n))
  BY <1>6, TakenGrows
<1>8. /\ Taken(n)' = Taken(n) \cup ({m} \cap Data)
      /\ Taken(n)' \cap Results = (Taken(n) \cap Results) \cup Added(n)
  BY <1>5, <1>6, ParametersAssumption DEF Taken, Added
<1>9. FlushLogged(n)' = FlushLogged(n)
  BY <1>5 DEF FlushLogged
<1>10. HandlerOK(n)'
  BY <1>1, <1>5, <1>6, <1>7 DEF NodeOK, HandlerOK
<1>11. LogOK(n)
  BY DEF NodeOK
<1>12. step[n] = "eof_logged" =>
         /\ Cardinality(Added(n)) = 0
         /\ disk'[n].processed = disk[n].processed /\ disk'[n].sent = disk[n].sent
  <2> SUFFICES ASSUME step[n] = "eof_logged"
               PROVE  /\ Cardinality(Added(n)) = 0
                      /\ disk'[n].processed = disk[n].processed
                      /\ disk'[n].sent = disk[n].sent
    OBVIOUS
  <2>1. m = Eof /\ Added(n) = {}
    BY <1>7
  <2>2. Cardinality(Added(n)) = 0
    BY <2>1, FS_EmptySet
  <2>3. QED
    BY <1>5, <1>6, <2>1, <2>2, NodeTyped
<1>13. LogOK(n)'
  <2>1. disk'[n].processed = Cardinality(Taken(n)')
    BY <1>5, <1>6, <1>7, <1>8
  <2>2. disk'[n].partial <= disk'[n].processed
    BY <1>5, <1>11, NodeTyped DEF LogOK
  <2>3. disk'[n].partialSent <= disk'[n].sent
    BY <1>5, <1>11, NodeTyped, AddedTyped DEF LogOK
  <2>4. disk'[n].partial = disk'[n].processed => disk'[n].partialSent = disk'[n].sent
    <3>1. CASE step[n] = "data"
      <4>1. disk'[n].processed = disk[n].processed + 1
        BY <1>5, <1>6, <1>7, <3>1
      <4>2. QED
        BY <1>5, <1>11, <4>1, NodeTyped DEF LogOK
    <3>2. CASE step[n] = "eof_logged"
      BY <1>5, <1>11, <1>12, <3>2 DEF LogOK
    <3>3. QED
      BY <1>1, <3>1, <3>2
  <2>5. eager => disk'[n].buffer = {} /\ disk'[n].sent = Cardinality(Taken(n)' \cap Results)
    BY <1>5, <1>7, <1>8, <1>11 DEF LogOK
  <2>6. ~eager /\ ~FlushLogged(n) =>
          /\ disk'[n].sent = 0 /\ disk'[n].partialSent = 0
          /\ disk'[n].buffer = Taken(n)' \cap Results
    BY <1>5, <1>8, <1>11 DEF LogOK
  <2>7. QED
    BY <1>1, <1>9, <2>1, <2>2, <2>3, <2>4, <2>5, <2>6 DEF LogOK
<1>14. MemoryOK(n)'
  <2>1. MemoryOK(n)
    BY <1>1 DEF NodeOK
  <2>2. mem'[n].main = disk'[n].main /\ mem'[n].control = disk'[n].control
    BY <1>4, <1>5, <2>1 DEF MemoryOK
  <2>3. mem'[n].processed = disk'[n].processed /\ mem'[n].partial = disk'[n].partial
        /\ mem'[n].partialSent = disk'[n].partialSent
    BY <1>1, <1>4, <1>5, <1>6, <1>7, <2>1 DEF MemoryOK
  <2>4. mem'[n].sent = disk'[n].sent
    <3>1. CASE step[n] = "data"
      BY <1>4, <1>5, <2>1, <3>1 DEF MemoryOK
    <3>2. CASE step[n] = "eof_logged"
      BY <1>4, <1>12, <2>1, <3>2 DEF MemoryOK
    <3>3. QED
      BY <1>1, <3>1, <3>2
  <2>5. eager => mem'[n].buffer = {}
    BY <1>4, <2>1 DEF MemoryOK
  <2>6. mem'[n].buffer = disk'[n].buffer \/ FlushLogged(n)
    <3>1. CASE eager
      BY <1>5, <1>11, <2>5, <3>1 DEF LogOK
    <3>2. CASE ~eager /\ step[n] = "data"
      BY <1>4, <1>5, <2>1, <3>2 DEF MemoryOK
    <3>3. CASE ~eager /\ step[n] = "eof_logged"
      BY <1>4, <1>5, <1>7, <2>1, <3>3 DEF MemoryOK
    <3>4. QED
      BY <1>1, <3>1, <3>2, <3>3
  <2>7. QED
    BY <1>1, <1>9, <2>2, <2>3, <2>4, <2>5, <2>6 DEF MemoryOK
<1>15. QED
  BY <1>4, <1>5, <1>6, <1>8, <1>10, <1>12, <1>13, <1>14 DEF NodeOK

LEMMA NodeAckMain ==
  ASSUME Typed, NEW n \in Nodes, NodeOK(n), AckMain(n)
  PROVE  NodeOK(n)'
<1>1. /\ step[n] # "down" /\ mainq[n] # <<>> /\ Head(mainq[n]) \in mem[n].main
      /\ mainq'[n] = Tail(mainq[n])
      /\ UNCHANGED <<eager, ctlq, step, mem, disk>>
  BY AckMainEffect
<1>2. step[n] \notin {"data", "eof", "eof_logged"}
  BY <1>1 DEF Typed, Handling, MainSteps
<1>3. \A i \in DOMAIN mainq'[n] : mainq'[n][i] \in Stream(n)
  <2>1. \A i \in DOMAIN Tail(mainq[n]) :
          i + 1 \in DOMAIN mainq[n] /\ Tail(mainq[n])[i] = mainq[n][i + 1]
    BY <1>1, NodeTyped, TailTyped
  <2>2. QED
    BY <1>1, <2>1 DEF NodeOK, HandlerOK
<1>4. HandlerOK(n)'
  BY <1>1, <1>2, <1>3 DEF NodeOK, HandlerOK
<1>5. LogOK(n)'
  BY <1>1 DEF NodeOK, LogOK, Taken, FlushLogged
<1>6. MemoryOK(n)'
  BY <1>1, <1>2 DEF NodeOK, MemoryOK, FlushLogged
<1>7. QED
  BY <1>4, <1>5, <1>6 DEF NodeOK

LEMMA NodeCountToken ==
  ASSUME Typed, NEW n \in Nodes, NodeOK(n), CountToken(n)
  PROVE  NodeOK(n)' /\ mem'[n].partial = mem[n].processed /\ mem'[n].partialSent = mem[n].sent
<1>1. /\ step[n] = "free" /\ step'[n] \in {"count", "elect"}
      /\ ctlq[n] # <<>> /\ Head(ctlq[n]).phase = "count"
      /\ UNCHANGED <<eager, mainq, disk>>
  BY CountTokenEffect
<1>2. mem'[n] = Record(mem[n].main, mem[n].control, mem[n].buffer,
              mem[n].processed, mem[n].processed, mem[n].sent, mem[n].sent)
  BY CountTokenEffect
<1>3. /\ mem'[n].main = mem[n].main /\ mem'[n].control = mem[n].control
      /\ mem'[n].buffer = mem[n].buffer
      /\ mem'[n].processed = mem[n].processed /\ mem'[n].partial = mem[n].processed
      /\ mem'[n].sent = mem[n].sent /\ mem'[n].partialSent = mem[n].sent
  BY <1>2, RecordFields
<1>4. PICK t \in Tokens : SendToken(n, t)
  BY CountTokenEffect
<1>5. Head(ctlq'[n]) = Head(ctlq[n])
  BY <1>1, <1>4, SendTyped DEF Typed
<1>6. HandlerOK(n)'
  BY <1>1, <1>5 DEF NodeOK, HandlerOK
<1>7. LogOK(n)'
  BY <1>1 DEF NodeOK, LogOK, Taken, FlushLogged
<1>8. MemoryOK(n)'
  BY <1>1, <1>3, AtRest DEF MemoryOK, FlushLogged
<1>9. QED
  BY <1>3, <1>6, <1>7, <1>8 DEF NodeOK

LEMMA NodeFlushToken ==
  ASSUME Typed, NEW n \in Nodes, NodeOK(n), FlushToken(n), ~FlushLogged(n)
  PROVE  NodeOK(n)' /\ mem[n].buffer = disk[n].buffer
<1>1. /\ step[n] = "free" /\ step'[n] = "flush" /\ Head(ctlq[n]).phase = "flush"
      /\ UNCHANGED <<eager, mainq, ctlq, disk>>
  BY FlushTokenEffect
<1>2. mem'[n] = Record(mem[n].main, mem[n].control, {}, mem[n].processed,
              mem[n].partial, mem[n].sent + Cardinality(mem[n].buffer),
              mem[n].partialSent)
  BY FlushTokenEffect
<1>3. /\ mem'[n].main = mem[n].main /\ mem'[n].control = mem[n].control
      /\ mem'[n].buffer = {}
      /\ mem'[n].processed = mem[n].processed /\ mem'[n].partial = mem[n].partial
      /\ mem'[n].sent = mem[n].sent + Cardinality(mem[n].buffer)
      /\ mem'[n].partialSent = mem[n].partialSent
  BY <1>2, RecordFields
<1>4. mem[n].buffer = disk[n].buffer
  BY <1>1, AtRest
<1>5. HandlerOK(n)'
  BY <1>1 DEF NodeOK, HandlerOK
<1>6. LogOK(n)'
  BY <1>1 DEF NodeOK, LogOK, Taken, FlushLogged
<1>7. MemoryOK(n)'
  BY <1>1, <1>3, <1>4, AtRest DEF MemoryOK, FlushLogged
<1>8. QED
  BY <1>4, <1>5, <1>6, <1>7 DEF NodeOK

LEMMA NodePassFlush ==
  ASSUME Typed, NEW n \in Nodes, NodeOK(n), PassFlush(n)
  PROVE  NodeOK(n)'
<1>1. /\ step[n] = "flush" /\ step'[n] = "passed" /\ ctlq[n] # <<>>
      /\ UNCHANGED <<eager, mainq, disk>>
  BY PassFlushEffect
<1>2. mem'[n] = Record(mem[n].main, mem[n].control, mem[n].buffer,
              mem[n].processed, mem[n].partial, mem[n].sent, mem[n].sent)
  BY PassFlushEffect
<1>3. /\ mem'[n].main = mem[n].main /\ mem'[n].control = mem[n].control
      /\ mem'[n].buffer = mem[n].buffer
      /\ mem'[n].processed = mem[n].processed /\ mem'[n].partial = mem[n].partial
      /\ mem'[n].sent = mem[n].sent /\ mem'[n].partialSent = mem[n].sent
  BY <1>2, RecordFields
<1>4. Head(ctlq'[n]) = Head(ctlq[n])
  BY <1>1, PassFlushEffect, SendTyped DEF Typed
<1>5. HandlerOK(n)'
  BY <1>1, <1>4 DEF NodeOK, HandlerOK
<1>6. LogOK(n)'
  BY <1>1 DEF NodeOK, LogOK, Taken, FlushLogged
<1>7. MemoryOK(n)'
  BY <1>1, <1>3 DEF NodeOK, MemoryOK, FlushLogged
<1>8. QED
  BY <1>5, <1>6, <1>7 DEF NodeOK

\* Logging the token logs what was reported with it.
LEMMA NodeLogControl ==
  ASSUME Typed, NEW n \in Nodes, NodeOK(n), LogControl(n)
  PROVE  /\ NodeOK(n)'
         /\ disk'[n].main = disk[n].main
         /\ disk'[n].control = disk[n].control \cup {TokenId(Head(ctlq[n]))}
         /\ disk'[n].processed = disk[n].processed
         /\ disk'[n].partial = mem[n].partial /\ disk'[n].partialSent = mem[n].partialSent
         /\ mem'[n].partial = mem[n].partial /\ mem'[n].partialSent = mem[n].partialSent
         /\ disk'[n].sent = disk'[n].partialSent
         /\ step[n] \in {"count", "elect"} => disk'[n].partial = disk'[n].processed
         /\ step[n] = "passed" => disk'[n].partial = disk[n].partial
<1>1. /\ step[n] \in {"count", "elect", "passed"} /\ step'[n] = "free"
      /\ UNCHANGED <<eager, mainq, ctlq>>
  BY LogControlEffect
<1>2. PICK id : id = TokenId(Head(ctlq[n]))
  OBVIOUS
<1>3. mem'[n] = Record(mem[n].main, mem[n].control \cup {id},
              mem[n].buffer, mem[n].processed, mem[n].partial, mem[n].sent,
              mem[n].partialSent)
  BY <1>2, LogControlEffect
<1>4. PICK kept \in {disk[n].buffer, mem[n].buffer} :
        disk'[n] = Record(disk[n].main, disk[n].control \cup {id}, kept,
                disk[n].processed, mem[n].partial, mem[n].sent, mem[n].partialSent)
  BY <1>2, LogControlEffect
<1>5. /\ mem'[n].main = mem[n].main /\ mem'[n].control = mem[n].control \cup {id}
      /\ mem'[n].buffer = mem[n].buffer
      /\ mem'[n].processed = mem[n].processed /\ mem'[n].partial = mem[n].partial
      /\ mem'[n].sent = mem[n].sent /\ mem'[n].partialSent = mem[n].partialSent
  BY <1>3, RecordFields
<1>6. /\ disk'[n].main = disk[n].main /\ disk'[n].control = disk[n].control \cup {id}
      /\ disk'[n].buffer = kept
      /\ disk'[n].processed = disk[n].processed /\ disk'[n].partial = mem[n].partial
      /\ disk'[n].sent = mem[n].sent /\ disk'[n].partialSent = mem[n].partialSent
  BY <1>4, RecordFields
<1>7. LogOK(n) /\ MemoryOK(n) /\ HandlerOK(n)
  BY <1>1 DEF NodeOK
<1>8. mem[n].partialSent = mem[n].sent
  BY <1>1, <1>7 DEF MemoryOK
<1>9. /\ step[n] \in {"count", "elect"} =>
           mem[n].partial = disk[n].processed /\ mem[n].sent = disk[n].sent
      /\ step[n] = "passed" =>
           /\ mem[n].partial = disk[n].partial /\ mem[n].buffer = {}
           /\ mem[n].sent = disk[n].sent + Cardinality(disk[n].buffer)
  BY <1>1, <1>7 DEF MemoryOK
<1>10. /\ step[n] = "passed" => id[1] = "flush"
       /\ FlushLogged(n) => FlushLogged(n)'
       /\ id[1] = "flush" => FlushLogged(n)'
  BY <1>1, <1>2, <1>6, <1>7 DEF HandlerOK, TokenId, FlushLogged
<1>11. /\ eager => kept = {} /\ mem[n].sent = disk[n].sent
       /\ kept = mem[n].buffer \/ FlushLogged(n)'
       /\ ~FlushLogged(n)' => kept = disk[n].buffer /\ mem[n].sent = disk[n].sent
  <2>1. eager => kept = {} /\ disk[n].buffer = {}
    BY <1>4, <1>7 DEF LogOK, MemoryOK
  <2>2. eager => Cardinality(disk[n].buffer) = 0
    BY <2>1, FS_EmptySet
  <2>3. eager => mem[n].sent = disk[n].sent
    BY <1>1, <1>9, <2>2, NodeTyped
  <2>4. step[n] \in {"count", "elect"} => mem[n].buffer = disk[n].buffer \/ FlushLogged(n)
    BY <1>7 DEF MemoryOK
  <2>5. QED
    BY <1>1, <1>4, <1>9, <1>10, <2>1, <2>3, <2>4
<1>12. HandlerOK(n)'
  BY <1>1, <1>6, <1>7 DEF HandlerOK
<1>13. Taken(n)' = Taken(n)
  BY <1>6 DEF Taken
<1>14. LogOK(n)'
  <2>1. disk'[n].processed = Cardinality(Taken(n)')
    BY <1>6, <1>7, <1>13 DEF LogOK
  <2>2. disk'[n].partial <= disk'[n].processed
    BY <1>1, <1>6, <1>7, <1>9, NodeTyped DEF LogOK
  <2>3. disk'[n].partialSent <= disk'[n].sent /\ disk'[n].partialSent = disk'[n].sent
    BY <1>6, <1>8, NodeTyped
  <2>4. eager => disk'[n].buffer = {} /\ disk'[n].sent = Cardinality(Taken(n)' \cap Results)
    BY <1>6, <1>7, <1>11, <1>13 DEF LogOK
  <2>5. ~eager /\ ~FlushLogged(n)' =>
          /\ disk'[n].sent = 0 /\ disk'[n].partialSent = 0
          /\ disk'[n].buffer = Taken(n)' \cap Results
    BY <1>6, <1>7, <1>8, <1>10, <1>11, <1>13 DEF LogOK
  <2>6. QED
    BY <1>1, <2>1, <2>2, <2>3, <2>4, <2>5 DEF LogOK
<1>15. MemoryOK(n)'
  <2>1. /\ mem'[n].main = disk'[n].main /\ mem'[n].control = disk'[n].control
        /\ mem'[n].processed = disk'[n].processed /\ mem'[n].partial = disk'[n].partial
        /\ mem'[n].sent = disk'[n].sent /\ mem'[n].partialSent = disk'[n].partialSent
        /\ eager => mem'[n].buffer = {}
    BY <1>1, <1>5, <1>6, <1>7 DEF MemoryOK
  <2>2. mem'[n].buffer = disk'[n].buffer \/ FlushLogged(n)'
    BY <1>5, <1>6, <1>11
  <2>3. QED
    BY <1>1, <2>1, <2>2 DEF MemoryOK
<1>16. QED
  BY <1>2, <1>5, <1>6, <1>8, <1>9, <1>12, <1>14, <1>15 DEF NodeOK

LEMMA NodeAckControl ==
  ASSUME Typed, NEW n \in Nodes, NodeOK(n), AckControl(n)
  PROVE  NodeOK(n)' /\ step[n] \notin ControlSteps
<1>1. /\ step[n] # "down" /\ ctlq[n] # <<>> /\ TokenId(Head(ctlq[n])) \in mem[n].control
      /\ UNCHANGED <<eager, mainq, step, mem, disk>>
  BY AckControlEffect
<1>2. step[n] \notin ControlSteps
  BY <1>1 DEF Typed, Handling
<1>3. HandlerOK(n)'
  BY <1>1, <1>2 DEF NodeOK, HandlerOK, ControlSteps
<1>4. LogOK(n)'
  BY <1>1 DEF NodeOK, LogOK, Taken, FlushLogged
<1>5. MemoryOK(n)'
  BY <1>1 DEF NodeOK, MemoryOK, FlushLogged, Added
<1>6. QED
  BY <1>2, <1>3, <1>4, <1>5 DEF NodeOK

LEMMA NodeCrash ==
  ASSUME Typed, NEW n \in Nodes, NodeOK(n), Crash(n)
  PROVE  NodeOK(n)'
<1>1. step'[n] = "down" /\ UNCHANGED <<eager, mainq, ctlq, disk>>
  BY CrashEffect
<1>2. HandlerOK(n)'
  BY <1>1 DEF NodeOK, HandlerOK
<1>3. LogOK(n)'
  BY <1>1 DEF NodeOK, LogOK, Taken, FlushLogged
<1>4. QED
  BY <1>1, <1>2, <1>3 DEF NodeOK

LEMMA NodeRestart ==
  ASSUME Typed, NEW n \in Nodes, NodeOK(n), Restart(n)
  PROVE  NodeOK(n)'
<1>1. step'[n] = "free" /\ mem'[n] = disk[n] /\ UNCHANGED <<eager, mainq, ctlq, disk>>
  BY RestartEffect
<1>2. HandlerOK(n)'
  BY <1>1 DEF NodeOK, HandlerOK
<1>3. LogOK(n)'
  BY <1>1 DEF NodeOK, LogOK, Taken, FlushLogged
<1>4. MemoryOK(n)'
  BY <1>1 DEF NodeOK, LogOK, MemoryOK, FlushLogged
<1>5. QED
  BY <1>2, <1>3, <1>4 DEF NodeOK

\* The actions that change no control queue but by sending to the next one.
Sends(n) == HandleEof(n) \/ CountToken(n) \/ PassFlush(n)
Stays(n) == \/ BufferData(n) \/ ForwardData(n) \/ LogRingStart(n) \/ LogMain(n)
            \/ FlushToken(n) \/ LogControl(n) \/ Crash(n) \/ Restart(n)

\* An event of node n, whatever it is.
Event(n) == Sends(n) \/ Stays(n) \/ AckMain(n) \/ AckControl(n)

LEMMA NextIsEvent == Next <=> \E n \in Nodes : Event(n)
BY DEF Next, Main, Control, Finish, Event, Sends, Stays

LEMMA EventTyped == ASSUME Typed, NEW n \in Nodes, Event(n) PROVE Typed'
BY TypedStep, NextIsEvent

LEMMA EventEffect ==
  ASSUME Typed, NEW n \in Nodes
  PROVE  /\ Event(n) => UNCHANGED eager
         /\ Stays(n) => OnlyAt(n) /\ UNCHANGED <<mainq, ctlq, finals>>
         /\ Sends(n) => OnlyAt(n) /\ UNCHANGED <<mainq, disk, out>>
         /\ Sends(n) => UNCHANGED ctlq \/ \E t \in Tokens : SendToken(n, t)
<1>1. Stays(n) => UNCHANGED <<eager, mainq, ctlq, finals>>
  BY DEF Stays, BufferData, ForwardData, LogRingStart, LogMain, FlushToken, LogControl,
         Crash, Restart
<1>2. Sends(n) => UNCHANGED <<eager, mainq, disk, out>>
  BY DEF Sends, HandleEof, CountToken, PassFlush
<1>3. AckMain(n) \/ AckControl(n) => UNCHANGED eager
  BY DEF AckMain, AckControl
<1>4. Stays(n) => OnlyAt(n)
  <2>1. BufferData(n) \/ ForwardData(n) \/ LogRingStart(n) \/ LogMain(n) => OnlyAt(n)
    BY BufferDataEffect, ForwardDataEffect, LogRingStartEffect, LogMainEffect
  <2>2. FlushToken(n) \/ LogControl(n) \/ Crash(n) \/ Restart(n) => OnlyAt(n)
    BY FlushTokenEffect, LogControlEffect, CrashEffect, RestartEffect
  <2>3. QED
    BY <2>1, <2>2 DEF Stays
<1>5. Sends(n) => OnlyAt(n)
  BY HandleEofEffect, CountTokenEffect, PassFlushEffect DEF Sends
<1>6. Sends(n) => UNCHANGED ctlq \/ \E t \in Tokens : SendToken(n, t)
  BY HandleEofEffect, CountTokenEffect, PassFlushEffect DEF Sends
<1>7. QED
  BY <1>1, <1>2, <1>3, <1>4, <1>5, <1>6 DEF Event

\* No event but the ack of node n changes the delivery that n has at hand.
LEMMA HeadsStay ==
  ASSUME Typed, NEW n \in Nodes, Stays(n) \/ Sends(n)
  PROVE  \A m \in Nodes : ctlq[m] # <<>> =>
           ctlq'[m] # <<>> /\ Head(ctlq'[m]) = Head(ctlq[m])
<1>1. CASE UNCHANGED ctlq
  BY <1>1
<1>2. CASE \E t \in Tokens : SendToken(n, t)
  BY <1>2, SendTyped DEF Typed
<1>3. QED
  BY <1>1, <1>2, EventEffect

LEMMA FlushNotLogged ==
  ASSUME Typed, NEW n \in Nodes, NodeOK(n), RingOK, FlushToken(n)
  PROVE  ~FlushLogged(n) /\ Flushing
<1> SUFFICES ASSUME FlushLogged(n) \/ ~Flushing PROVE FALSE
  OBVIOUS
<1>1. /\ step[n] = "free" /\ ctlq[n] # <<>> /\ Head(ctlq[n]).phase = "flush"
      /\ TokenId(Head(ctlq[n])) \notin mem[n].control
  BY FlushTokenEffect
<1>2. Head(ctlq[n]) = ctlq[n][1] /\ 1 \in DOMAIN ctlq[n]
  BY <1>1, NodeTyped, HeadTyped
<1>3. Flushing
  BY <1>1, <1>2 DEF Flushing
<1>4. PICK c \in Nodes : Elected(c)
  BY <1>3 DEF RingOK
<1>5. Head(ctlq[n]) = LapToken(c, n)
  BY <1>1, <1>2, <1>4 DEF Elected
<1>6. TokenId(Head(ctlq[n])) = <<"flush", Place(c, n)>>
  BY <1>5 DEF TokenId, LapToken
<1>7. PICK id \in disk[n].control : id[1] = "flush"
  BY <1>3 DEF FlushLogged
<1>8. id[2] = Place(c, n) /\ id \in TokenIds
  BY <1>4, <1>7, NodeTyped DEF Elected, Records
<1>9. id = <<"flush", Place(c, n)>>
  BY <1>7, <1>8 DEF TokenIds
<1>10. id \in mem[n].control
  BY <1>1, <1>7, AtRest
<1>11. QED
  BY <1>1, <1>6, <1>9, <1>10

LEMMA NodesStep ==
  ASSUME Typed, NodesOK, RingOK, NEW n \in Nodes, Event(n)
  PROVE  NodesOK'
<1>1. NodeOK(n) /\ UNCHANGED eager
  BY EventEffect DEF NodesOK
<1>2. NodeOK(n)'
  <2>1. CASE BufferData(n) \/ ForwardData(n) \/ HandleEof(n) \/ LogRingStart(n)
    BY <1>1, <2>1, NodeBufferData, NodeForwardData, NodeHandleEof, NodeLogRingStart
  <2>2. CASE LogMain(n) \/ AckMain(n) \/ CountToken(n) \/ PassFlush(n)
    BY <1>1, <2>2, NodeLogMain, NodeAckMain, NodeCountToken, NodePassFlush
  <2>3. CASE FlushToken(n)
    BY <1>1, <2>3, FlushNotLogged, NodeFlushToken
  <2>4. CASE LogControl(n) \/ AckControl(n) \/ Crash(n) \/ Restart(n)
    BY <1>1, <2>4, NodeLogControl, NodeAckControl, NodeCrash, NodeRestart
  <2>5. QED
    BY <2>1, <2>2, <2>3, <2>4 DEF Event, Sends, Stays
<1>3. ASSUME NEW m \in Nodes \ {n} PROVE NodeOK(m)'
  <2>1. NodeOK(m)
    BY DEF NodesOK
  <2>2. CASE Stays(n) \/ Sends(n)
    <3>1. mem'[m] = mem[m] /\ disk'[m] = disk[m] /\ step'[m] = step[m] /\ mainq'[m] = mainq[m]
      BY <2>2, EventEffect DEF OnlyAt
    <3>2. QED
      BY <1>1, <2>1, <2>2, <3>1, HeadsStay, NodeFrame
  <2>3. CASE AckMain(n)
    BY <1>1, <2>1, <2>3, AckMainEffect, NodeFrame
  <2>4. CASE AckControl(n)
    BY <1>1, <2>1, <2>4, AckControlEffect, NodeFrame
  <2>5. QED
    BY <2>2, <2>3, <2>4 DEF Event
<1>4. QED
  BY <1>2, <1>3 DEF NodesOK

-----------------------------------------------------------------------------
(* The results *)

LEMMA OutGrows ==
  ASSUME Typed, NodesOK, OutOK, RingOK, NEW n \in Nodes, Event(n)
  PROVE  out \subseteq out' /\ out' \subseteq Results
<1>1. CASE ForwardData(n)
  <2>1. out' = out \cup Added(n)
    BY <1>1, ForwardDataEffect
  <2>2. QED
    BY <2>1, AddedTyped DEF OutOK
<1>2. CASE FlushToken(n)
  <2>1. out' = out \cup mem[n].buffer
    BY <1>2, FlushTokenEffect
  <2>2. NodeOK(n) /\ ~FlushLogged(n)
    BY <1>2, FlushNotLogged DEF NodesOK
  <2>3. mem[n].buffer = disk[n].buffer
    BY <1>2, <2>2, NodeFlushToken
  <2>4. disk[n].buffer \subseteq Results
    BY <2>2 DEF NodeOK, LogOK
  <2>5. QED
    BY <2>1, <2>3, <2>4 DEF OutOK
<1>3. CASE ~ForwardData(n) /\ ~FlushToken(n)
  <2>1. UNCHANGED out
    BY <1>3 DEF Event, Sends, Stays, HandleEof, CountToken, PassFlush, BufferData,
                LogRingStart, LogMain, LogControl, Crash, Restart, AckMain, AckControl
  <2>2. QED
    BY <2>1 DEF OutOK
<1>4. QED
  BY <1>1, <1>2, <1>3

LEMMA OutStep ==
  ASSUME Typed, NodesOK, OutOK, RingOK, NEW n \in Nodes, Event(n)
  PROVE  OutOK'
<1>1. out \subseteq out' /\ out' \subseteq Results /\ UNCHANGED eager
  BY OutGrows, EventEffect
<1>2. ASSUME eager, NEW m \in Nodes
      PROVE  /\ Taken(m)' \cap Results \subseteq out'
             /\ step'[m] = "data" => Added(m)' \subseteq out'
  <2>1. /\ Taken(m) \cap Results \subseteq out
        /\ step[m] = "data" => Added(m) \subseteq out
    BY <1>2 DEF OutOK
  <2>2. CASE m # n
    <3>1. disk'[m] = disk[m] /\ step'[m] = step[m] /\ mainq'[m] = mainq[m]
      BY <2>2, EventEffect, AckMainEffect, AckControlEffect DEF OnlyAt, Event
    <3>2. QED
      BY <1>1, <2>1, <3>1 DEF Taken, Added
  <2>3. CASE m = n /\ LogMain(n)
    <3>1. /\ Taken(n)' = Taken(n) \cup ({Head(mainq[n])} \cap Data)
          /\ NodeOK(n)
      BY <2>3, NodeLogMain DEF NodesOK
    <3>2. step'[n] = "free"
      BY <2>3, LogMainEffect
    <3>3. {Head(mainq[n])} \cap Data \cap Results \subseteq out
      <4>1. CASE step[n] = "data"
        BY <2>1, <2>3, <4>1 DEF Added
      <4>2. CASE step[n] = "eof_logged"
        <5>1. Head(mainq[n]) = Eof
          BY <4>2 DEF NodesOK, NodeOK, HandlerOK
        <5>2. QED
          BY <5>1, ParametersAssumption
      <4>3. QED
        BY <2>3, <4>1, <4>2, LogMainEffect
    <3>4. QED
      BY <1>1, <2>1, <2>3, <3>1, <3>2, <3>3
  <2>4. CASE m = n /\ ForwardData(n)
    <3>1. out' = out \cup Added(n) /\ UNCHANGED <<disk, mainq>>
      BY <2>4, ForwardDataEffect
    <3>2. QED
      BY <1>1, <2>1, <2>4, <3>1 DEF Taken, Added
  <2>5. CASE m = n /\ ~LogMain(n) /\ ~ForwardData(n)
    <3>1. Taken(n)' = Taken(n)
      <4>1. CASE LogRingStart(n)
        BY <4>1, NodeLogRingStart DEF NodesOK, Taken
      <4>2. CASE LogControl(n)
        BY <4>2, NodeLogControl DEF NodesOK, Taken
      <4>3. CASE ~LogRingStart(n) /\ ~LogControl(n)
        <5>1. UNCHANGED disk
          BY <2>5, <4>3 DEF Event, Sends, Stays, HandleEof, CountToken, PassFlush,
             BufferData, FlushToken, Crash, Restart, AckMain, AckControl
        <5>2. QED
          BY <5>1 DEF Taken
      <4>4. QED
        BY <4>1, <4>2, <4>3
    <3>2. step'[n] = "data" => step[n] = "data" /\ mainq'[n] = mainq[n]
      <4>1. CASE BufferData(n)
        BY <1>2, <4>1, BufferDataEffect
      <4>2. CASE AckMain(n)
        BY <4>2, AckMainEffect DEF Typed, Handling, MainSteps
      <4>3. CASE AckControl(n)
        BY <4>3, AckControlEffect
      <4>4. CASE Sends(n)
        BY <4>4, HandleEofEffect, CountTokenEffect, PassFlushEffect DEF Sends
      <4>5. CASE LogRingStart(n) \/ FlushToken(n) \/ LogControl(n) \/ Crash(n) \/ Restart(n)
        BY <4>5, LogRingStartEffect, FlushTokenEffect, LogControlEffect, CrashEffect,
           RestartEffect
      <4>6. QED
        BY <2>5, <4>1, <4>2, <4>3, <4>4, <4>5 DEF Event, Stays
    <3>3. QED
      BY <1>1, <2>1, <2>5, <3>1, <3>2 DEF Added
  <2>6. QED
    BY <2>2, <2>3, <2>4, <2>5
<1>3. QED
  BY <1>1, <1>2 DEF OutOK

-----------------------------------------------------------------------------
(* The EOF: the steps *)

LEMMA LogGrows ==
  ASSUME Typed, NodesOK, NEW n \in Nodes, Event(n), NEW m \in Nodes
  PROVE  disk[m].main \subseteq disk'[m].main /\ disk[m].control \subseteq disk'[m].control
<1>1. CASE LogRingStart(n) \/ LogMain(n) \/ LogControl(n)
  <2>1. m = n \/ disk'[m] = disk[m]
    BY <1>1, EventEffect DEF Stays, OnlyAt
  <2>2. CASE m = n
    <3>1. CASE LogRingStart(n)
      BY <2>2, <3>1, NodeLogRingStart DEF NodesOK
    <3>2. CASE LogMain(n)
      BY <2>2, <3>2, NodeLogMain DEF NodesOK
    <3>3. CASE LogControl(n)
      BY <2>2, <3>3, NodeLogControl DEF NodesOK
    <3>4. QED
      BY <1>1, <3>1, <3>2, <3>3
  <2>3. QED
    BY <2>1, <2>2
<1>2. CASE ~(LogRingStart(n) \/ LogMain(n) \/ LogControl(n))
  <2>1. UNCHANGED disk
    BY <1>2 DEF Event, Sends, Stays, HandleEof, CountToken, PassFlush, BufferData,
       ForwardData, FlushToken, Crash, Restart, AckMain, AckControl
  <2>2. QED
    BY <2>1
<1>3. QED
  BY <1>1, <1>2

\* A token stays in its queue until it is in the log of its node.
LEMMA TokenStays ==
  ASSUME Typed, NodesOK, NEW n \in Nodes, Event(n), NEW m \in Nodes,
         NEW i \in DOMAIN ctlq[m]
  PROVE  \/ \E j \in DOMAIN ctlq'[m] : ctlq'[m][j] = ctlq[m][i]
         \/ TokenId(ctlq[m][i]) \in disk[m].control
<1>1. CASE Stays(n) \/ Sends(n)
  <2>1. CASE UNCHANGED ctlq
    BY <2>1
  <2>2. CASE \E t \in Tokens : SendToken(n, t)
    <3>1. PICK t \in Tokens : SendToken(n, t)
      BY <2>2
    <3>2. ctlq'[m] = Append(ctlq[m], t) \/ ctlq'[m] = ctlq[m]
      BY <3>1, SendTyped DEF Typed
    <3>3. i \in DOMAIN Append(ctlq[m], t) /\ Append(ctlq[m], t)[i] = ctlq[m][i]
      BY NodeTyped, AppendTyped
    <3>4. QED
      BY <3>2, <3>3
  <2>3. QED
    BY <1>1, <2>1, <2>2, EventEffect
<1>2. CASE AckMain(n)
  BY <1>2, AckMainEffect
<1>3. CASE AckControl(n)
  <2>1. /\ step[n] # "down" /\ ctlq[n] # <<>> /\ TokenId(Head(ctlq[n])) \in mem[n].control
        /\ ctlq'[n] = Tail(ctlq[n]) /\ (m # n => ctlq'[m] = ctlq[m])
    BY <1>3, AckControlEffect
  <2>2. mem[n].control = disk[n].control
    BY <2>1 DEF NodesOK, NodeOK, MemoryOK
  <2>3. CASE m # n
    BY <2>1, <2>3
  <2>4. CASE m = n /\ i = 1
    BY <2>1, <2>2, <2>4, NodeTyped, HeadTyped
  <2>5. CASE m = n /\ i # 1
    <3>1. i - 1 \in DOMAIN Tail(ctlq[n]) /\ Tail(ctlq[n])[i - 1] = ctlq[n][i]
      BY <2>1, <2>5, NodeTyped, TailTyped
    <3>2. QED
      BY <2>1, <2>5, <3>1
  <2>6. QED
    BY <2>3, <2>4, <2>5
<1>4. QED
  BY <1>1, <1>2, <1>3 DEF Event

LEMMA IssuedStays ==
  ASSUME Typed, NodesOK, NEW n \in Nodes, Event(n), Issued
  PROVE  Issued'
<1>0. NextNode(0) \in Nodes
  BY RingNodes
<1>1. CASE FirstId \in disk[NextNode(0)].control
  <2>1. FirstId \in disk'[NextNode(0)].control
    BY <1>0, <1>1, LogGrows
  <2>2. QED
    BY <2>1 DEF Issued
<1>2. CASE \E i \in DOMAIN ctlq[NextNode(0)] : TokenId(ctlq[NextNode(0)][i]) = FirstId
  <2>1. PICK i \in DOMAIN ctlq[NextNode(0)] : TokenId(ctlq[NextNode(0)][i]) = FirstId
    BY <1>2
  <2>2. CASE TokenId(ctlq[NextNode(0)][i]) \in disk[NextNode(0)].control
    <3>1. FirstId \in disk'[NextNode(0)].control
      BY <1>0, <2>1, <2>2, LogGrows
    <3>2. QED
      BY <3>1 DEF Issued
  <2>3. CASE \E j \in DOMAIN ctlq'[NextNode(0)] :
               ctlq'[NextNode(0)][j] = ctlq[NextNode(0)][i]
    BY <2>1, <2>3 DEF Issued, TokenId
  <2>4. QED
    BY <1>0, <2>2, <2>3, TokenStays
<1>3. QED
  BY <1>1, <1>2 DEF Issued

\* The EOF is in the queue of node 0 only.
LEMMA EofAtNodeZero ==
  ASSUME Typed, NodesOK, NEW n \in Nodes,
         HandleEof(n) \/ step[n] \in {"eof", "eof_logged"}
  PROVE  n = 0 /\ mainq[n] # <<>> /\ Head(mainq[n]) = Eof /\ Eof \notin disk[n].main
<1>1. mainq[n] # <<>> /\ Head(mainq[n]) = Eof /\ Eof \notin mem[n].main /\ step[n] # "down"
  <2>1. CASE HandleEof(n)
    BY <2>1, HandleEofEffect
  <2>2. CASE step[n] \in {"eof", "eof_logged"}
    BY <2>2 DEF Typed, Handling, MainSteps, NodesOK, NodeOK, HandlerOK
  <2>3. QED
    BY <2>1, <2>2
<1>2. Head(mainq[n]) = mainq[n][1] /\ 1 \in DOMAIN mainq[n]
  BY <1>1, NodeTyped, HeadTyped
<1>3. Eof \in Stream(n) /\ mem[n].main = disk[n].main
  BY <1>1, <1>2 DEF NodesOK, NodeOK, HandlerOK, MemoryOK
<1>4. QED
  BY <1>1, <1>3, ParametersAssumption DEF Stream

LEMMA UnstartedStep ==
  ASSUME Typed, NodesOK, Unstarted, NEW n \in Nodes, Event(n), ~HandleEof(n)
  PROVE  Unstarted'
<1>0. 0 \in Nodes
  BY RingNodes
<1>1. step[n] \notin ControlSteps /\ ctlq[n] = <<>>
  BY DEF Unstarted, Typed, Handling
<1>2. ~CountToken(n) /\ ~FlushToken(n) /\ ~AckControl(n) /\ ~PassFlush(n) /\ ~LogControl(n)
  BY <1>1, CountTokenEffect, FlushTokenEffect, AckControlEffect, PassFlushEffect,
     LogControlEffect
<1>3. ~LogRingStart(n)
  <2>1. SUFFICES ASSUME LogRingStart(n) PROVE FALSE
    OBVIOUS
  <2>2. step[n] = "eof"
    BY <2>1, LogRingStartEffect
  <2>3. n = 0
    BY <2>2, EofAtNodeZero
  <2>4. QED
    BY <2>2, <2>3 DEF Unstarted
<1>4. UNCHANGED ctlq
  BY <1>2, EventEffect, AckMainEffect DEF Event, Sends
<1>5. /\ step'[n] \notin {"eof", "eof_logged"} \/ step'[n] = step[n]
      /\ \A m \in Nodes \ {n} : step'[m] = step[m] /\ disk'[m] = disk[m]
  <2>1. CASE AckMain(n)
    BY <2>1, AckMainEffect
  <2>2. CASE Stays(n)
    <3>1. \A m \in Nodes \ {n} : step'[m] = step[m] /\ disk'[m] = disk[m]
      BY <2>2, EventEffect DEF OnlyAt
    <3>2. step'[n] \notin {"eof", "eof_logged"}
      BY <1>2, <1>3, <2>2, BufferDataEffect, ForwardDataEffect, LogMainEffect,
         CrashEffect, RestartEffect DEF Stays
    <3>3. QED
      BY <3>1, <3>2
  <2>3. QED
    BY <1>2, <2>1, <2>2 DEF Event, Sends
<1>6. /\ disk'[n].control = disk[n].control /\ disk'[n].partial = disk[n].partial
      /\ disk'[n].partialSent = disk[n].partialSent
  <2>1. CASE LogMain(n)
    BY <2>1, NodeLogMain DEF NodesOK
  <2>2. CASE ~LogMain(n)
    <3>1. UNCHANGED disk
      BY <1>2, <1>3, <2>2 DEF Event, Sends, Stays, BufferData, ForwardData, Crash, Restart,
         AckMain
    <3>2. QED
      BY <3>1
  <2>3. QED
    BY <2>1, <2>2
<1>7. step'[0] \notin {"eof", "eof_logged"}
  BY <1>0, <1>5 DEF Unstarted
<1>8. QED
  BY <1>4, <1>5, <1>6, <1>7 DEF Unstarted

LEMMA RepeatableStep ==
  ASSUME Typed, NodesOK, Repeatable, HarmlessCrashes, NEW n \in Nodes, Event(n),
         Eof \notin disk'[0].main
  PROVE  Repeatable'
<1>0. 0 \in Nodes
  BY RingNodes
<1>1. Issued'
  BY IssuedStays DEF Repeatable
<1>2. Eof \notin disk[0].main
  BY <1>0, LogGrows
<1>3. ~LogMain(0)
  <2>1. LogMain(0) => Eof \in disk'[0].main
    BY <1>0, NodeLogMain DEF NodesOK, Repeatable
  <2>2. QED
    BY <2>1
<1>4. ~AckMain(0)
  <2>1. SUFFICES ASSUME AckMain(0) PROVE FALSE
    OBVIOUS
  <2>2. step[0] # "down" /\ Head(mainq[0]) \in mem[0].main
    BY <1>0, <2>1, AckMainEffect
  <2>3. QED
    BY <1>0, <1>2, <2>2 DEF NodesOK, NodeOK, MemoryOK, Repeatable
<1>5. mainq'[0] = mainq[0]
  BY <1>0, <1>4, EventEffect, AckMainEffect, AckControlEffect DEF Event
<1>6. CASE n # 0
  <2>1. disk'[0] = disk[0] /\ step'[0] = step[0]
    BY <1>0, <1>6, EventEffect, AckMainEffect, AckControlEffect DEF Event, OnlyAt
  <2>2. QED
    BY <1>1, <1>5, <2>1 DEF Repeatable, Reported
<1>7. CASE n = 0
  <2>1. CASE LogRingStart(0)
    <3>1. Reported(disk'[0])
      BY <1>0, <2>1, NodeLogRingStart DEF NodesOK
    <3>2. QED
      BY <1>1, <1>5, <3>1 DEF Repeatable, Reported
  <2>2. CASE LogControl(0)
    <3>1. /\ disk'[0].processed = disk[0].processed
          /\ disk'[0].sent = disk'[0].partialSent
          /\ step[0] \in {"count", "elect"} => disk'[0].partial = disk'[0].processed
          /\ step[0] = "passed" => disk'[0].partial = disk[0].partial
      BY <1>0, <2>2, NodeLogControl DEF NodesOK
    <3>2. step[0] \in {"count", "elect", "passed"}
      BY <1>0, <2>2, LogControlEffect
    <3>3. disk[0].partial = disk[0].processed
      BY <3>2 DEF Repeatable, Reported
    <3>4. Reported(disk'[0])
      BY <3>1, <3>2, <3>3 DEF Reported
    <3>5. QED
      BY <1>1, <1>5, <3>4 DEF Repeatable, Reported
  <2>3. CASE ~LogRingStart(0) /\ ~LogControl(0)
    <3>1. UNCHANGED disk
      BY <1>3, <1>7, <2>3 DEF Event, Sends, Stays, HandleEof, CountToken, PassFlush,
         BufferData, ForwardData, FlushToken, Crash, Restart, AckMain, AckControl
    <3>2. step[0] = "eof" => step'[0] = "eof"
      <4>1. CASE Stays(0)
        BY <1>0, <1>3, <2>3, <4>1, BufferDataEffect, ForwardDataEffect, FlushTokenEffect,
           CrashEffect, RestartEffect DEF Stays, HarmlessCrashes
      <4>2. CASE Sends(0)
        BY <1>0, <4>2, HandleEofEffect, CountTokenEffect, PassFlushEffect DEF Sends
      <4>3. CASE AckMain(0) \/ AckControl(0)
        BY <1>0, <4>3, AckMainEffect, AckControlEffect
      <4>4. QED
        BY <1>7, <4>1, <4>2, <4>3 DEF Event
    <3>3. QED
      BY <1>1, <1>5, <3>1, <3>2 DEF Repeatable, Reported
  <2>4. QED
    BY <2>1, <2>2, <2>3
<1>8. QED
  BY <1>6, <1>7

LEMMA StartStep ==
  ASSUME Typed, NodesOK, StartOK, HarmlessCrashes, NEW n \in Nodes, Event(n)
  PROVE  StartOK'
<1>0. 0 \in Nodes /\ NextNode(0) \in Nodes
  BY RingNodes
<1>1. CASE Eof \in disk[0].main
  <2>1. Eof \in disk'[0].main
    BY <1>0, <1>1, LogGrows
  <2>2. QED
    BY <2>1 DEF StartOK
<1>2. CASE Unstarted /\ ~HandleEof(n)
  BY <1>2, UnstartedStep DEF StartOK
<1>3. CASE HandleEof(n)
  <2>1. n = 0
    BY <1>3, EofAtNodeZero
  <2>2. /\ step'[0] = "eof" /\ mainq[0] # <<>> /\ Head(mainq[0]) = Eof /\ UNCHANGED mainq
        /\ StartToken(0) \in Tokens /\ SendToken(0, StartToken(0))
    BY <1>0, <1>3, <2>1, HandleEofEffect
  <2>3. ctlq'[NextNode(0)] = Append(ctlq[NextNode(0)], StartToken(0))
    BY <1>0, <2>2, SendTyped DEF Typed
  <2>4. \E i \in DOMAIN ctlq'[NextNode(0)] : ctlq'[NextNode(0)][i] = StartToken(0)
    BY <1>0, <2>2, <2>3, NodeTyped, AppendTyped
  <2>5. StartToken(0).phase = "count" /\ StartToken(0).seq = 0
    BY DEF StartToken
  <2>6. Issued'
    BY <2>4, <2>5 DEF Issued, TokenId, FirstId
  <2>7. QED
    BY <2>2, <2>6 DEF StartOK, Repeatable
<1>4. CASE Repeatable
  BY <1>4, RepeatableStep DEF StartOK
<1>5. QED
  BY <1>1, <1>2, <1>3, <1>4 DEF StartOK

-----------------------------------------------------------------------------
(* While the nodes are asked *)

LEMMA ReportsTyped ==
  ASSUME Typed
  PROVE  Reports \in Counts /\ SentReports \in Counts
<1>1. \A n \in Nodes : Rec(n).partial \in Nat /\ Rec(n).partialSent \in Nat
  BY NodeTyped DEF Rec
<1>2. QED
  BY <1>1 DEF Reports, SentReports, Counts

\* A token is live for a node when the node may yet handle it.
LEMMA LiveStays ==
  ASSUME NEW m \in Nodes, UNCHANGED ctlq,
         disk[m].control \subseteq disk'[m].control,
         step[m] = "count" =>
           step'[m] = "count" \/ TokenId(Head(ctlq[m])) \in disk'[m].control,
         NEW i \in DOMAIN ctlq[m], Live(m, i)'
  PROVE  Live(m, i)
BY DEF Live, TokenId

\* A step that neither sends, acks nor reports anything.
LEMMA CountingFrame ==
  ASSUME Counting, ~Flushing, UNCHANGED <<ctlq, finals>>,
         \A m \in Nodes :
           /\ disk[m].control \subseteq disk'[m].control
           /\ step[m] = "count" =>
                step'[m] = "count" \/ TokenId(Head(ctlq[m])) \in disk'[m].control
           /\ ~FlushLogged(m)' /\ step'[m] # "elect"
           /\ Rec(m)'.partial = Rec(m).partial /\ Rec(m)'.partialSent = Rec(m).partialSent
  PROVE  Counting' /\ ~Flushing'
<1>1. \A m \in Nodes : \A i \in DOMAIN ctlq[m] : Live(m, i)' => Live(m, i)
  BY LiveStays
<1>2. Reports' = Reports /\ SentReports' = SentReports
  BY DEF Reports, SentReports
<1>3. TotalReported' = TotalReported /\ TotalSentReported' = TotalSentReported
  BY <1>2 DEF TotalReported, TotalSentReported, SumOver
<1>4. \A m, k \in Nodes : \A i \in DOMAIN ctlq'[m] : \A j \in DOMAIN ctlq'[k] :
        Live(m, i)' /\ Live(k, j)' => m = k /\ TokenId(ctlq'[m][i]) = TokenId(ctlq'[k][j])
  BY <1>1 DEF Counting
<1>5. \A m \in Nodes : \A i \in DOMAIN ctlq'[m] :
        Live(m, i)' /\ First(m, i)' =>
          ctlq'[m][i].total = TotalReported' /\ ctlq'[m][i].sent = TotalSentReported'
  <2>1. ASSUME NEW m \in Nodes, NEW i \in DOMAIN ctlq[m], First(m, i)' PROVE First(m, i)
    BY <2>1 DEF First, TokenId
  <2>2. QED
    BY <1>1, <1>3, <2>1 DEF Counting
<1>6. Counting'
  BY <1>4, <1>5 DEF Counting, TokenId
<1>7. ~Flushing'
  BY DEF Flushing
<1>8. QED
  BY <1>6, <1>7

\* The phases of the tokens that are handled while there is no flush token.
LEMMA CountingHeads ==
  ASSUME Typed, NodesOK, ~Flushing, Counting, NEW m \in Nodes
  PROVE  /\ step[m] \notin {"elect", "flush", "passed"} /\ ~FlushLogged(m)
         /\ ctlq[m] # <<>> => Head(ctlq[m]).phase = "count"
<1>1. step[m] # "elect" /\ ~FlushLogged(m)
  BY DEF Counting, Flushing
<1>2. ASSUME ctlq[m] # <<>> PROVE Head(ctlq[m]).phase = "count"
  <2>1. Head(ctlq[m]) = ctlq[m][1] /\ 1 \in DOMAIN ctlq[m] /\ Head(ctlq[m]) \in Tokens
    BY <1>2, NodeTyped, HeadTyped
  <2>2. Head(ctlq[m]).phase # "flush"
    BY <2>1 DEF Flushing
  <2>3. QED
    BY <2>1, <2>2 DEF Tokens
<1>3. step[m] \notin {"flush", "passed"}
  <2>1. SUFFICES ASSUME step[m] \in {"flush", "passed"} PROVE FALSE
    OBVIOUS
  <2>2. ctlq[m] # <<>> /\ Head(ctlq[m]).phase = "flush"
    BY <2>1 DEF Typed, Handling, ControlSteps, NodesOK, NodeOK, HandlerOK
  <2>3. QED
    BY <1>2, <2>2
<1>4. QED
  BY <1>1, <1>2, <1>3

LEMMA CountingStays ==
  ASSUME Typed, NodesOK, ~Flushing, Counting, HarmlessCrashes,
         NEW n \in Nodes, Stays(n) \/ AckMain(n)
  PROVE  Counting' /\ ~Flushing'
<1>0. /\ step[n] \notin {"elect", "flush", "passed"} /\ ~FlushLogged(n) /\ NodeOK(n)
      /\ UNCHANGED <<ctlq, finals>>
  BY CountingHeads, EventEffect, AckMainEffect DEF NodesOK
<1>1. ASSUME NEW m \in Nodes, m # n \/ AckMain(n)
      PROVE  /\ disk[m].control \subseteq disk'[m].control
             /\ step[m] = "count" =>
                  step'[m] = "count" \/ TokenId(Head(ctlq[m])) \in disk'[m].control
             /\ ~FlushLogged(m)' /\ step'[m] # "elect"
             /\ Rec(m)'.partial = Rec(m).partial /\ Rec(m)'.partialSent = Rec(m).partialSent
  <2>1. disk'[m] = disk[m] /\ step'[m] = step[m] /\ mem'[m] = mem[m]
    BY <1>1, EventEffect, AckMainEffect DEF OnlyAt
  <2>2. ~FlushLogged(m) /\ step[m] # "elect"
    BY CountingHeads
  <2>3. QED
    BY <2>1, <2>2 DEF FlushLogged, Rec
<1> DEFINE Kept ==
      /\ disk[n].control \subseteq disk'[n].control
      /\ step[n] = "count" =>
           step'[n] = "count" \/ TokenId(Head(ctlq[n])) \in disk'[n].control
      /\ ~FlushLogged(n)' /\ step'[n] # "elect"
      /\ Rec(n)'.partial = Rec(n).partial /\ Rec(n)'.partialSent = Rec(n).partialSent
<1>2. CASE BufferData(n) \/ ForwardData(n)
  <2>1. step[n] = "free" /\ step'[n] = "data" /\ UNCHANGED disk
    BY <1>2, BufferDataEffect, ForwardDataEffect
  <2>2. mem'[n].partial = mem[n].partial /\ mem'[n].partialSent = mem[n].partialSent
    <3>1. CASE BufferData(n)
      <4>1. mem'[n] = Record(mem[n].main, mem[n].control,
              mem[n].buffer \cup Added(n), mem[n].processed + 1,
              mem[n].partial, mem[n].sent, mem[n].partialSent)
        BY <3>1, BufferDataEffect
      <4>2. QED
        BY <4>1, RecordFields
    <3>2. CASE ForwardData(n)
      <4>1. mem'[n] = Record(mem[n].main, mem[n].control, mem[n].buffer,
              mem[n].processed + 1, mem[n].partial,
              mem[n].sent + Cardinality(Added(n)), mem[n].partialSent)
        BY <3>2, ForwardDataEffect
      <4>2. QED
        BY <4>1, RecordFields
    <3>3. QED
      BY <1>2, <3>1, <3>2
  <2>3. Kept
    BY <1>0, <2>1, <2>2 DEF FlushLogged, Rec
  <2>4. QED
    BY <1>0, <1>1, <2>3, CountingFrame
<1>3. CASE LogRingStart(n)
  <2>1. /\ step[n] = "eof" /\ step'[n] = "eof_logged" /\ UNCHANGED mem
        /\ disk'[n].control = disk[n].control
    BY <1>0, <1>3, LogRingStartEffect, NodeLogRingStart
  <2>2. Kept
    BY <1>0, <2>1 DEF FlushLogged, Rec
  <2>3. QED
    BY <1>0, <1>1, <2>2, CountingFrame
<1>4. CASE LogMain(n)
  <2>1. /\ step[n] \in {"data", "eof_logged"} /\ step'[n] = "free"
        /\ disk'[n].control = disk[n].control
        /\ mem'[n].partial = mem[n].partial /\ mem'[n].partialSent = mem[n].partialSent
    BY <1>0, <1>4, LogMainEffect, NodeLogMain
  <2>2. Kept
    BY <1>0, <2>1 DEF FlushLogged, Rec
  <2>3. QED
    BY <1>0, <1>1, <2>2, CountingFrame
<1>5. CASE FlushToken(n)
  BY <1>0, <1>5, CountingHeads, FlushTokenEffect
<1>6. CASE LogControl(n)
  <2>1. /\ step[n] = "count" /\ step'[n] = "free"
        /\ disk'[n].control = disk[n].control \cup {TokenId(Head(ctlq[n]))}
        /\ mem'[n].partial = mem[n].partial /\ mem'[n].partialSent = mem[n].partialSent
    BY <1>0, <1>6, LogControlEffect, NodeLogControl
  <2>2. Head(ctlq[n]).phase = "count"
    BY <1>0, <2>1 DEF NodeOK, HandlerOK
  <2>3. Kept
    BY <1>0, <2>1, <2>2 DEF FlushLogged, Rec, TokenId
  <2>4. QED
    BY <1>0, <1>1, <2>3, CountingFrame
<1>7. CASE Crash(n)
  <2>1. step[n] \in CrashPoints /\ step'[n] = "down" /\ UNCHANGED disk
    BY <1>7, CrashEffect
  <2>2. step[n] \notin {"eof", "count", "elect", "passed", "down"}
    BY <1>0, <2>1, CrashAssumption DEF HarmlessCrashes
  <2>3. mem[n].partial = disk[n].partial /\ mem[n].partialSent = disk[n].partialSent
    BY <1>0, <2>2 DEF NodeOK, MemoryOK
  <2>4. Kept
    BY <1>0, <2>1, <2>2, <2>3 DEF FlushLogged, Rec
  <2>5. QED
    BY <1>0, <1>1, <2>4, CountingFrame
<1>8. CASE Restart(n)
  <2>1. step[n] = "down" /\ step'[n] = "free" /\ mem'[n] = disk[n] /\ UNCHANGED disk
    BY <1>8, RestartEffect
  <2>2. Kept
    BY <1>0, <2>1 DEF FlushLogged, Rec
  <2>3. QED
    BY <1>0, <1>1, <2>2, CountingFrame
<1>9. CASE AckMain(n)
  BY <1>0, <1>1, <1>9, CountingFrame
<1>10. QED
  BY <1>2, <1>3, <1>4, <1>5, <1>6, <1>7, <1>8, <1>9 DEF Stays

\* What is left of a queue after an ack is what was behind its head.
LEMMA LiveAfterAck ==
  ASSUME Typed, NodesOK, NEW n \in Nodes, AckControl(n),
         NEW m \in Nodes, NEW i \in DOMAIN ctlq'[m]
  PROVE  \E j \in DOMAIN ctlq[m] :
           /\ ctlq'[m][i] = ctlq[m][j]
           /\ Live(m, i)' => Live(m, j)
           /\ Live(m, i)' /\ First(m, i)' => First(m, j)
<1>1. /\ step[n] # "down" /\ ctlq[n] # <<>> /\ TokenId(Head(ctlq[n])) \in mem[n].control
      /\ ctlq'[n] = Tail(ctlq[n]) /\ \A k \in Nodes \ {n} : ctlq'[k] = ctlq[k]
      /\ UNCHANGED <<step, disk>>
  BY AckControlEffect
<1>2. step[n] # "count" /\ TokenId(Head(ctlq[n])) \in disk[n].control
  BY <1>1 DEF Typed, Handling, ControlSteps, NodesOK, NodeOK, MemoryOK
<1>3. CASE m # n
  BY <1>1, <1>3 DEF Live, First, TokenId
<1>4. CASE m = n
  <2>1. i \in DOMAIN Tail(ctlq[n])
    BY <1>1, <1>4
  <2>2. i \in Nat \ {0} /\ i + 1 \in DOMAIN ctlq[n] /\ ctlq'[n][i] = ctlq[n][i + 1]
    BY <1>1, <2>1, NodeTyped, TailTyped
  <2>3. Live(n, i)' => Live(n, i + 1)
    BY <1>1, <1>2, <2>2 DEF Live, TokenId
  <2>4. ASSUME Live(n, i)', First(n, i)' PROVE First(n, i + 1)
    <3>1. SUFFICES ASSUME NEW k \in DOMAIN ctlq[n], k < i + 1
                   PROVE  TokenId(ctlq[n][k]) # TokenId(ctlq[n][i + 1])
      BY DEF First
    <3>2. TokenId(ctlq[n][i + 1]) \notin disk[n].control
      BY <2>3, <2>4 DEF Live
    <3>3. CASE k = 1
      BY <1>1, <1>2, <3>2, <3>3, NodeTyped, HeadTyped
    <3>4. CASE k # 1
      <4>1. /\ k - 1 \in DOMAIN Tail(ctlq[n]) /\ Tail(ctlq[n])[k - 1] = ctlq[n][k]
        BY <1>1, <3>4, NodeTyped, TailTyped
      <4>2. k - 1 < i /\ k - 1 \in DOMAIN ctlq'[n] /\ ctlq'[n][k - 1] = ctlq[n][k]
        <5>1. k - 1 \in Nat
          BY <1>1, <4>1, NodeTyped, TailTyped
        <5>2. ctlq[n] \in Seq(Tokens)
          BY NodeTyped
        <5>3. k \in Nat
          BY <5>2, LenProperties
        <5>4. QED
          BY <1>1, <2>2, <3>1, <4>1, <5>3
      <4>3. TokenId(ctlq'[n][k - 1]) # TokenId(ctlq'[n][i])
        BY <2>4, <4>2 DEF First, TokenId
      <4>4. QED
        BY <2>2, <4>2, <4>3
    <3>5. QED
      BY <3>3, <3>4
  <2>5. QED
    BY <1>4, <2>2, <2>3, <2>4
<1>5. QED
  BY <1>3, <1>4

LEMMA CountingAck ==
  ASSUME Typed, NodesOK, ~Flushing, Counting, NEW n \in Nodes, AckControl(n)
  PROVE  Counting' /\ ~Flushing'
<1>1. UNCHANGED <<eager, mainq, step, mem, disk, out, finals>>
  BY AckControlEffect
<1>2. Reports' = Reports /\ SentReports' = SentReports
  BY <1>1 DEF Reports, SentReports, Rec
<1>3. TotalReported' = TotalReported /\ TotalSentReported' = TotalSentReported
  BY <1>2 DEF TotalReported, TotalSentReported, SumOver
<1>4. \A m \in Nodes : \A i \in DOMAIN ctlq'[m] : \E j \in DOMAIN ctlq[m] :
        /\ ctlq'[m][i] = ctlq[m][j]
        /\ Live(m, i)' => Live(m, j)
        /\ Live(m, i)' /\ First(m, i)' => First(m, j)
  BY LiveAfterAck
<1>5. ASSUME NEW m \in Nodes, NEW k \in Nodes, NEW i \in DOMAIN ctlq'[m],
             NEW j \in DOMAIN ctlq'[k], Live(m, i)', Live(k, j)'
      PROVE  m = k /\ TokenId(ctlq'[m][i]) = TokenId(ctlq'[k][j])
  <2>1. PICK x \in DOMAIN ctlq[m] : ctlq'[m][i] = ctlq[m][x] /\ Live(m, x)
    BY <1>4, <1>5
  <2>2. PICK y \in DOMAIN ctlq[k] : ctlq'[k][j] = ctlq[k][y] /\ Live(k, y)
    BY <1>4, <1>5
  <2>3. QED
    BY <2>1, <2>2 DEF Counting
<1>6. ASSUME NEW m \in Nodes, NEW i \in DOMAIN ctlq'[m], Live(m, i)', First(m, i)'
      PROVE  ctlq'[m][i].total = TotalReported' /\ ctlq'[m][i].sent = TotalSentReported'
  <2>1. PICK x \in DOMAIN ctlq[m] :
          ctlq'[m][i] = ctlq[m][x] /\ Live(m, x) /\ First(m, x)
    BY <1>4, <1>6
  <2>2. QED
    BY <1>3, <2>1 DEF Counting
<1>7. Counting'
  BY <1>1, <1>5, <1>6 DEF Counting, TokenId
<1>8. ~Flushing'
  <2>1. \A m \in Nodes : ~FlushLogged(m)'
    BY <1>1 DEF Flushing, FlushLogged
  <2>2. \A m \in Nodes : \A i \in DOMAIN ctlq'[m] : ctlq'[m][i].phase # "flush"
    BY <1>4 DEF Flushing
  <2>3. QED
    BY <2>1, <2>2 DEF Flushing
<1>9. QED
  BY <1>7, <1>8

\* After a token is sent, a queue holds what it held, and the token is last.
LEMMA AfterSend ==
  ASSUME Typed, NEW n \in Nodes, NEW t \in Tokens, SendToken(n, t), NEW m \in Nodes
  PROVE  /\ \A i \in DOMAIN ctlq[m] : i \in DOMAIN ctlq'[m] /\ ctlq'[m][i] = ctlq[m][i]
         /\ \A i \in DOMAIN ctlq'[m] :
              \/ i \in DOMAIN ctlq[m]
              \/ /\ m = NextNode(n) /\ ctlq'[m][i] = t
                 /\ \A j \in DOMAIN ctlq[m] : j < i
<1>1. ctlq'[m] = IF m = NextNode(n) THEN Append(ctlq[m], t) ELSE ctlq[m]
  BY SendTyped DEF Typed
<1>2. ctlq[m] \in Seq(Tokens)
  BY NodeTyped
<1>3. /\ DOMAIN Append(ctlq[m], t) = DOMAIN ctlq[m] \cup {Len(ctlq[m]) + 1}
      /\ \A i \in DOMAIN ctlq[m] :
           Append(ctlq[m], t)[i] = ctlq[m][i] /\ i < Len(ctlq[m]) + 1
      /\ Append(ctlq[m], t)[Len(ctlq[m]) + 1] = t
  BY <1>2, AppendTyped
<1>4. CASE m = NextNode(n)
  BY <1>1, <1>3, <1>4
<1>5. CASE m # NextNode(n)
  BY <1>1, <1>5
<1>6. QED
  BY <1>4, <1>5

\* A node that was not forwarding a token and starts to do something else
\* keeps its live tokens.
LEMMA LiveAfterSend ==
  ASSUME Typed, NEW n \in Nodes, NEW t \in Tokens, SendToken(n, t), UNCHANGED disk,
         OnlyAt(n), step[n] # "count", NEW m \in Nodes, NEW i \in DOMAIN ctlq[m]
  PROVE  /\ Live(m, i)' => Live(m, i)
         /\ First(m, i)' => First(m, i)
<1>1. /\ i \in DOMAIN ctlq'[m] /\ ctlq'[m][i] = ctlq[m][i]
      /\ \A j \in DOMAIN ctlq[m] : j \in DOMAIN ctlq'[m] /\ ctlq'[m][j] = ctlq[m][j]
  BY AfterSend
<1>2. step[m] = "count" =>
        step'[m] = "count" /\ ctlq[m] # <<>> /\ Head(ctlq'[m]) = Head(ctlq[m])
  BY SendTyped DEF Typed, Handling, ControlSteps, OnlyAt
<1>3. Live(m, i)' => Live(m, i)
  BY <1>1, <1>2 DEF Live, TokenId
<1>4. First(m, i)' => First(m, i)
  BY <1>1 DEF First, TokenId
<1>5. QED
  BY <1>3, <1>4

\* What the node that handles the EOF has not reported yet.
LEMMA EofReports ==
  ASSUME Typed, NodesOK, StartOK, NEW n \in Nodes, HandleEof(n)
  PROVE  /\ n = 0 /\ step[0] = "free" /\ Eof \notin disk[0].main
         /\ Unstarted \/ (Issued /\ Reported(disk[0]))
<1>1. n = 0 /\ Eof \notin disk[0].main /\ step[0] = "free"
  BY EofAtNodeZero, HandleEofEffect
<1>2. QED
  BY <1>1 DEF StartOK, Repeatable

LEMMA UnstartedReports ==
  ASSUME Typed, NodesOK, Unstarted, NEW m \in Nodes
  PROVE  Rec(m).partial = 0 /\ Rec(m).partialSent = 0 /\ DOMAIN ctlq[m] = {}
<1>1. ctlq[m] = <<>> /\ disk[m].partial = 0 /\ disk[m].partialSent = 0
  BY DEF Unstarted
<1>2. step[m] \notin ControlSteps
  BY <1>1 DEF Typed, Handling
<1>3. step[m] # "eof"
  BY EofAtNodeZero DEF Unstarted
<1>4. step[m] # "down" =>
        mem[m].partial = disk[m].partial /\ mem[m].partialSent = disk[m].partialSent
  BY <1>2, <1>3 DEF NodesOK, NodeOK, MemoryOK, ControlSteps
<1>5. QED
  BY <1>1, <1>4 DEF Rec

\* The sums grow by what node n reports.
LEMMA ReportsRaised ==
  ASSUME Typed, Typed', NodesOK, NEW n \in Nodes, OnlyAt(n), step[n] = "free", step'[n] # "down",
         mem'[n].partial = mem[n].processed, mem'[n].partialSent = mem[n].sent
  PROVE  /\ TotalReported' = TotalReported + NewlyProcessed(n)
         /\ TotalSentReported' = TotalSentReported + NewlySent(n)
<1>1. /\ Reports \in Counts /\ SentReports \in Counts
      /\ Reports' \in Counts /\ SentReports' \in Counts
  <2>1. Reports \in Counts /\ SentReports \in Counts
    BY ReportsTyped
  <2>2. \A m \in Nodes : mem'[m] \in Records /\ disk'[m] \in Records
    BY DEF Typed, TypeOK
  <2>3. \A m \in Nodes : Rec(m)' \in Records
    BY <2>2 DEF Rec
  <2>4. \A m \in Nodes : Rec(m)'.partial \in Nat /\ Rec(m)'.partialSent \in Nat
    BY <2>3 DEF Records
  <2>5. QED
    BY <2>1, <2>4 DEF Reports, SentReports, Counts
<1>2. /\ Reports[n] = mem[n].partial /\ SentReports[n] = mem[n].partialSent
  BY DEF Reports, SentReports, Rec
<1>3. /\ mem[n].partial <= mem[n].processed /\ mem[n].partialSent <= mem[n].sent
  BY AtRest DEF NodesOK, NodeOK, LogOK
<1>4. \A m \in Nodes \ {n} : Rec(m)' = Rec(m)
  BY DEF OnlyAt, Rec
<1>5. Rec(n)' = mem'[n]
  BY DEF Rec
<1>6. /\ Reports' = [Reports EXCEPT ![n] = mem[n].processed]
      /\ SentReports' = [SentReports EXCEPT ![n] = mem[n].sent]
  BY <1>4, <1>5 DEF Reports, SentReports
<1>7. mem[n].processed \in Nat /\ mem[n].sent \in Nat
  BY NodeTyped
<1>8. SumOver(Reports') = SumOver(Reports) + (mem[n].processed - Reports[n])
  <2>1. PICK f, g, k : f = Reports /\ g = Reports' /\ k = mem[n].processed
    OBVIOUS
  <2>2. f \in Counts /\ g \in Counts /\ k \in Nat /\ f[n] <= k /\ g = [f EXCEPT ![n] = k]
    BY <1>1, <1>2, <1>3, <1>6, <1>7, <2>1
  <2>3. SumOver(g) = SumOver(f) + (k - f[n])
    BY <2>2, SumRaise
  <2>4. QED
    BY <2>1, <2>3
<1>9. SumOver(SentReports') = SumOver(SentReports) + (mem[n].sent - SentReports[n])
  <2>1. PICK f, g, k : f = SentReports /\ g = SentReports' /\ k = mem[n].sent
    OBVIOUS
  <2>2. f \in Counts /\ g \in Counts /\ k \in Nat /\ f[n] <= k /\ g = [f EXCEPT ![n] = k]
    BY <1>1, <1>2, <1>3, <1>6, <1>7, <2>1
  <2>3. SumOver(g) = SumOver(f) + (k - f[n])
    BY <2>2, SumRaise
  <2>4. QED
    BY <2>1, <2>3
<1>10. TotalReported' = SumOver(Reports') /\ TotalSentReported' = SumOver(SentReports')
  BY DEF TotalReported, TotalSentReported, SumOver
<1>11. QED
  BY <1>2, <1>8, <1>9, <1>10 DEF TotalReported, TotalSentReported, NewlyProcessed, NewlySent

LEMMA CountingEofFirst ==
  ASSUME Typed, Typed', NodesOK, ~Flushing, Counting, Unstarted, NEW n \in Nodes, HandleEof(n)
  PROVE  Counting'
<1>1. /\ OnlyAt(n) /\ step[n] = "free" /\ step'[n] = "eof"
      /\ StartToken(n) \in Tokens /\ SendToken(n, StartToken(n))
      /\ UNCHANGED <<disk, finals>>
  BY HandleEofEffect
<1>2. mem'[n].partial = mem[n].processed /\ mem'[n].partialSent = mem[n].sent
  <2>1. mem'[n] = Record(mem[n].main, mem[n].control, mem[n].buffer,
              mem[n].processed, mem[n].processed, mem[n].sent, mem[n].sent)
    BY HandleEofEffect
  <2>2. QED
    BY <2>1, RecordFields
<1>3. /\ TotalReported' = TotalReported + NewlyProcessed(n)
      /\ TotalSentReported' = TotalSentReported + NewlySent(n)
  BY <1>1, <1>2, ReportsRaised
<1>4. TotalReported = 0 /\ TotalSentReported = 0
  <2>1. \A m \in Nodes : Reports[m] = 0 /\ SentReports[m] = 0
    BY UnstartedReports DEF Reports, SentReports
  <2>2. QED
    BY <2>1, ReportsTyped, SumZero DEF TotalReported, TotalSentReported
<1>5. \A m \in Nodes : \A i \in DOMAIN ctlq'[m] :
        m = NextNode(n) /\ ctlq'[m][i] = StartToken(n)
  BY <1>1, AfterSend, UnstartedReports
<1>6. StartToken(n).total = NewlyProcessed(n) /\ StartToken(n).sent = NewlySent(n)
  BY DEF StartToken
<1>7. NewlyProcessed(n) \in Int /\ NewlySent(n) \in Int
  BY NodeTyped DEF NewlyProcessed, NewlySent
<1>8. finals' = {} /\ \A m \in Nodes : step'[m] # "elect"
  BY <1>1 DEF Counting, OnlyAt
<1>9. \A m \in Nodes : \A i \in DOMAIN ctlq'[m] :
        ctlq'[m][i].total = TotalReported' /\ ctlq'[m][i].sent = TotalSentReported'
  BY <1>3, <1>4, <1>5, <1>6, <1>7
<1>10. QED
  BY <1>5, <1>8, <1>9 DEF Counting, TokenId

LEMMA CountingEofAgain ==
  ASSUME Typed, Typed', NodesOK, ~Flushing, Counting, Issued, Reported(disk[0]),
         HandleEof(0)
  PROVE  Counting'
<1>0. 0 \in Nodes /\ NextNode(0) \in Nodes
  BY RingNodes
<1>1. /\ OnlyAt(0) /\ step[0] = "free" /\ step'[0] = "eof"
      /\ StartToken(0) \in Tokens /\ SendToken(0, StartToken(0))
      /\ UNCHANGED <<disk, finals>>
  BY <1>0, HandleEofEffect
<1>2. mem'[0].partial = mem[0].processed /\ mem'[0].partialSent = mem[0].sent
  <2>1. mem'[0] = Record(mem[0].main, mem[0].control, mem[0].buffer,
              mem[0].processed, mem[0].processed, mem[0].sent, mem[0].sent)
    BY <1>0, HandleEofEffect
  <2>2. QED
    BY <2>1, RecordFields
<1>3. mem[0].partial = mem[0].processed /\ mem[0].partialSent = mem[0].sent
  BY <1>0, <1>1, AtRest DEF NodesOK, Reported
<1>4. Reports' = Reports /\ SentReports' = SentReports
  <2>1. \A m \in Nodes : Rec(m)'.partial = Rec(m).partial
                         /\ Rec(m)'.partialSent = Rec(m).partialSent
    BY <1>1, <1>2, <1>3 DEF Rec, OnlyAt
  <2>2. QED
    BY <2>1 DEF Reports, SentReports
<1>5. TotalReported' = TotalReported /\ TotalSentReported' = TotalSentReported
  BY <1>4 DEF TotalReported, TotalSentReported, SumOver
<1>6. TokenId(StartToken(0)) = FirstId
  BY DEF TokenId, StartToken, FirstId
<1>7. ASSUME NEW m \in Nodes, NEW i \in DOMAIN ctlq'[m], Live(m, i)'
      PROVE  /\ \E j \in DOMAIN ctlq[m] : Live(m, j) /\ TokenId(ctlq[m][j]) = TokenId(ctlq'[m][i])
             /\ First(m, i)' => i \in DOMAIN ctlq[m] /\ Live(m, i) /\ First(m, i)
                                /\ ctlq'[m][i] = ctlq[m][i]
  <2>1. CASE i \in DOMAIN ctlq[m]
    <3>1. Live(m, i) /\ (First(m, i)' => First(m, i)) /\ ctlq'[m][i] = ctlq[m][i]
      BY <1>0, <1>1, <1>7, <2>1, LiveAfterSend, AfterSend
    <3>2. QED
      BY <2>1, <3>1
  <2>2. CASE i \notin DOMAIN ctlq[m]
    <3>1. /\ m = NextNode(0) /\ ctlq'[m][i] = StartToken(0)
          /\ \A j \in DOMAIN ctlq[m] : j < i
      BY <1>0, <1>1, <2>2, AfterSend
    <3>2. FirstId \notin disk[NextNode(0)].control
      BY <1>1, <1>6, <1>7, <3>1 DEF Live, TokenId
    <3>3. PICK j \in DOMAIN ctlq[m] : TokenId(ctlq[m][j]) = FirstId
      BY <3>1, <3>2 DEF Issued
    <3>4. j \in DOMAIN ctlq'[m] /\ ctlq'[m][j] = ctlq[m][j] /\ j < i
      BY <1>0, <1>1, <3>1, <3>3, AfterSend
    <3>5. Live(m, j)'
      BY <1>6, <1>7, <3>1, <3>3, <3>4 DEF Live, TokenId
    <3>6. Live(m, j)
      BY <1>0, <1>1, <3>3, <3>5, LiveAfterSend
    <3>7. ~First(m, i)'
      BY <1>6, <3>1, <3>3, <3>4 DEF First, TokenId
    <3>8. QED
      BY <1>6, <3>1, <3>3, <3>6, <3>7
  <2>3. QED
    BY <2>1, <2>2
<1>8. ASSUME NEW m \in Nodes, NEW k \in Nodes, NEW i \in DOMAIN ctlq'[m],
             NEW j \in DOMAIN ctlq'[k], Live(m, i)', Live(k, j)'
      PROVE  m = k /\ TokenId(ctlq'[m][i]) = TokenId(ctlq'[k][j])
  <2>1. PICK x \in DOMAIN ctlq[m] :
          Live(m, x) /\ TokenId(ctlq[m][x]) = TokenId(ctlq'[m][i])
    BY <1>7, <1>8
  <2>2. PICK y \in DOMAIN ctlq[k] :
          Live(k, y) /\ TokenId(ctlq[k][y]) = TokenId(ctlq'[k][j])
    BY <1>7, <1>8
  <2>3. QED
    BY <2>1, <2>2 DEF Counting
<1>9. \A m \in Nodes : \A i \in DOMAIN ctlq'[m] :
        Live(m, i)' /\ First(m, i)' =>
          ctlq'[m][i].total = TotalReported' /\ ctlq'[m][i].sent = TotalSentReported'
  BY <1>5, <1>7 DEF Counting
<1>10. finals' = {} /\ \A m \in Nodes : step'[m] # "elect"
  BY <1>1 DEF Counting, OnlyAt
<1>11. QED
  BY <1>8, <1>9, <1>10 DEF Counting, TokenId

\* The token that a node takes is the live one.
LEMMA TakenTokenLive ==
  ASSUME Typed, NodesOK, NEW n \in Nodes, CountToken(n)
  PROVE  /\ step[n] = "free" /\ 1 \in DOMAIN ctlq[n] /\ ctlq[n][1] = Head(ctlq[n])
         /\ Live(n, 1) /\ First(n, 1) /\ Head(ctlq[n]) \in Tokens
         /\ Head(ctlq[n]).phase = "count"
<1>1. /\ step[n] = "free" /\ ctlq[n] # <<>> /\ TokenId(Head(ctlq[n])) \notin mem[n].control
      /\ Head(ctlq[n]) \in Tokens /\ Head(ctlq[n]).phase = "count"
  BY CountTokenEffect
<1>2. 1 \in DOMAIN ctlq[n] /\ ctlq[n][1] = Head(ctlq[n]) /\ ctlq[n] \in Seq(Tokens)
  BY <1>1, NodeTyped, HeadTyped
<1>3. Live(n, 1)
  BY <1>1, <1>2, AtRest DEF NodesOK, Live
<1>4. First(n, 1)
  <2>1. \A j \in DOMAIN ctlq[n] : ~(j < 1)
    BY <1>2, LenProperties
  <2>2. QED
    BY <2>1 DEF First
<1>5. QED
  BY <1>1, <1>2, <1>3, <1>4

LEMMA CountTokenReports ==
  ASSUME Typed, NEW n \in Nodes, CountToken(n), NodeOK(n)
  PROVE  /\ OnlyAt(n) /\ step[n] = "free" /\ step'[n] \in {"count", "elect"}
         /\ mem'[n].partial = mem[n].processed /\ mem'[n].partialSent = mem[n].sent
         /\ NewlyProcessed(n) \in Int /\ NewlySent(n) \in Int
         /\ UNCHANGED <<eager, mainq, disk, out, finals>>
<1>1. /\ OnlyAt(n) /\ step[n] = "free" /\ step'[n] \in {"count", "elect"}
      /\ UNCHANGED <<eager, mainq, disk, out, finals>>
  BY CountTokenEffect
<1>2. QED
  BY <1>1, NodeCountToken, NodeTyped DEF NewlyProcessed, NewlySent

LEMMA CountingForward ==
  ASSUME Typed, Typed', NodesOK, ~Flushing, Counting,
         NEW n \in Nodes, CountToken(n), ~Accounted(n, Head(ctlq[n]))
  PROVE  Counting' /\ ~Flushing'
<1>1. PICK t : t = Head(ctlq[n])
  OBVIOUS
<1>2. /\ step[n] = "free" /\ 1 \in DOMAIN ctlq[n] /\ ctlq[n][1] = t
      /\ Live(n, 1) /\ First(n, 1) /\ t \in Tokens
  BY <1>1, TakenTokenLive
<1>3. /\ OnlyAt(n) /\ NewlyProcessed(n) \in Int /\ NewlySent(n) \in Int
      /\ mem'[n].partial = mem[n].processed /\ mem'[n].partialSent = mem[n].sent
      /\ UNCHANGED <<disk, finals>>
  BY CountTokenReports DEF NodesOK
<1>4. step'[n] = "count" /\ NextHop(n, t) \in Tokens /\ SendToken(n, NextHop(n, t))
  BY <1>1, CountTokenEffect
<1>5. /\ TotalReported' = TotalReported + NewlyProcessed(n)
      /\ TotalSentReported' = TotalSentReported + NewlySent(n)
  BY <1>2, <1>3, <1>4, ReportsRaised
<1>6. t.total = TotalReported /\ t.sent = TotalSentReported
  BY <1>2 DEF Counting
<1>7. Head(ctlq'[n]) = t
  <2>1. ctlq[n] # <<>>
    BY CountTokenEffect
  <2>2. QED
    BY <1>1, <1>4, <2>1, SendTyped DEF Typed
<1>8. ASSUME NEW m \in Nodes, NEW i \in DOMAIN ctlq'[m], Live(m, i)'
      PROVE  m = NextNode(n) /\ ctlq'[m][i] = NextHop(n, t)
  <2>1. CASE i \in DOMAIN ctlq[m]
    <3>1. Live(m, i) /\ ctlq'[m][i] = ctlq[m][i]
      BY <1>2, <1>3, <1>4, <1>8, <2>1, LiveAfterSend, AfterSend
    <3>2. m = n /\ TokenId(ctlq[m][i]) = TokenId(t)
      BY <1>2, <2>1, <3>1 DEF Counting
    <3>3. TokenId(ctlq'[m][i]) # TokenId(t)
      BY <1>4, <1>7, <1>8, <3>2 DEF Live, TokenId
    <3>4. QED
      BY <3>1, <3>2, <3>3
  <2>2. CASE i \notin DOMAIN ctlq[m]
    BY <1>4, <2>2, AfterSend
  <2>3. QED
    BY <2>1, <2>2
<1>9. NextHop(n, t).total = TotalReported' /\ NextHop(n, t).sent = TotalSentReported'
  BY <1>5, <1>6 DEF NextHop
<1>10. finals' = {} /\ \A m \in Nodes : step'[m] # "elect"
  BY <1>3, <1>4 DEF Counting, OnlyAt
<1>11. Counting'
  BY <1>8, <1>9, <1>10 DEF Counting, TokenId
<1>12. ~Flushing'
  <2>1. \A m \in Nodes : ~FlushLogged(m)'
    BY <1>3 DEF Flushing, FlushLogged
  <2>2. NextHop(n, t).phase = "count"
    BY DEF NextHop
  <2>3. \A m \in Nodes : \A i \in DOMAIN ctlq'[m] : ctlq'[m][i].phase # "flush"
    BY <1>4, <2>2, AfterSend DEF Flushing
  <2>4. QED
    BY <2>1, <2>3 DEF Flushing
<1>13. QED
  BY <1>11, <1>12

\* No node has reported more than its log holds, and what is left to report
\* is in the log or with the handler that runs.
LEMMA ReportsBounded ==
  ASSUME Typed, NodesOK, ~Flushing, Counting, NEW m \in Nodes
  PROVE  /\ Rec(m).partial <= Cardinality(Taken(m))
         /\ Rec(m).partial = Cardinality(Taken(m)) =>
              /\ step[m] \in {"count", "eof"} \/ Reported(disk[m])
              /\ eager => Rec(m).partialSent = Cardinality(Taken(m) \cap Results)
         /\ ~eager => Rec(m).partialSent = 0
<1>1. /\ step[m] \notin {"elect", "flush", "passed"} /\ ~FlushLogged(m)
      /\ LogOK(m) /\ (step[m] # "down" => MemoryOK(m))
      /\ Cardinality(Taken(m)) = disk[m].processed
  BY CountingHeads, TakenTyped DEF NodesOK, NodeOK
<1>2. CASE step[m] \in {"count", "eof"}
  <2>1. Rec(m).partial = disk[m].processed /\ Rec(m).partialSent = disk[m].sent
    BY <1>1, <1>2 DEF MemoryOK, Rec
  <2>2. QED
    BY <1>1, <1>2, <2>1, NodeTyped DEF LogOK
<1>3. CASE step[m] \notin {"count", "eof"}
  <2>1. Rec(m).partial = disk[m].partial /\ Rec(m).partialSent = disk[m].partialSent
    BY <1>1, <1>3 DEF MemoryOK, Rec
  <2>2. QED
    BY <1>1, <2>1 DEF LogOK, Reported
<1>4. QED
  BY <1>2, <1>3

LEMMA DisjointStreams ==
  ASSUME NodesOK, NEW S,
         NEW A \in [Nodes -> SUBSET Data], \A n \in Nodes : A[n] = Taken(n) \cap S
  PROVE  Disjoint(A)
<1>1. ASSUME NEW n \in Nodes, NEW m \in Nodes, NEW d \in A[n], d \in A[m] PROVE n = m
  <2>1. d \in DataOf(n) /\ d \in DataOf(m)
    BY <1>1, TakenTyped
  <2>2. QED
    BY <2>1 DEF DataOf
<1>2. QED
  BY <1>1 DEF Disjoint

\* The node that accounts for all messages is right: the stream is complete,
\* and every node has reported all it has.
LEMMA CompleteAtElection ==
  ASSUME Typed, NodesOK, ~Flushing, Counting,
         NEW n \in Nodes, CountToken(n), Accounted(n, Head(ctlq[n]))
  PROVE  /\ AllProcessed /\ Head(ctlq[n]).total + NewlyProcessed(n) = Expected
         /\ \A m \in Nodes \ {n} : step[m] \in {"count", "eof"} \/ Reported(disk[m])
         /\ Head(ctlq[n]).sent + NewlySent(n) = IF eager THEN Cardinality(Results) ELSE 0
<1>1. PICK t : t = Head(ctlq[n])
  OBVIOUS
<1>2. /\ step[n] = "free" /\ t \in Tokens
      /\ t.total = TotalReported /\ t.sent = TotalSentReported
  BY <1>1, TakenTokenLive DEF Counting
<1>3. PICK f, g : /\ f = [Reports EXCEPT ![n] = mem[n].processed]
                  /\ g = [SentReports EXCEPT ![n] = mem[n].sent]
  OBVIOUS
<1>4. /\ mem[n].processed = disk[n].processed /\ mem[n].partial = disk[n].partial
      /\ mem[n].sent = disk[n].sent /\ mem[n].partialSent = disk[n].partialSent
      /\ mem[n].partial <= mem[n].processed /\ mem[n].partialSent <= mem[n].sent
  BY <1>2, AtRest DEF NodesOK, NodeOK, LogOK
<1>5. mem[n].processed \in Nat /\ mem[n].sent \in Nat
  BY NodeTyped
<1>6. Reports \in Counts /\ SentReports \in Counts /\ f \in Counts /\ g \in Counts
      /\ Reports[n] = mem[n].partial /\ SentReports[n] = mem[n].partialSent
  <2>1. Reports \in Counts /\ SentReports \in Counts
    BY ReportsTyped
  <2>2. QED
    BY <1>2, <1>3, <1>5, <2>1 DEF Counts, Reports, SentReports, Rec
<1>7. SumOver(f) = t.total + NewlyProcessed(n) /\ SumOver(g) = t.sent + NewlySent(n)
  <2>1. PICK F, G, k, l : /\ F = Reports /\ G = SentReports
                          /\ k = mem[n].processed /\ l = mem[n].sent
    OBVIOUS
  <2>2. SumOver(f) = SumOver(F) + (k - F[n])
    <3>1. /\ F \in Counts /\ k \in Nat /\ F[n] <= k /\ f \in Counts
          /\ f = [F EXCEPT ![n] = k]
      BY <1>3, <1>4, <1>5, <1>6, <2>1
    <3>2. QED
      BY <3>1, SumRaise
  <2>3. SumOver(g) = SumOver(G) + (l - G[n])
    <3>1. /\ G \in Counts /\ l \in Nat /\ G[n] <= l /\ g \in Counts
          /\ g = [G EXCEPT ![n] = l]
      BY <1>3, <1>4, <1>5, <1>6, <2>1
    <3>2. QED
      BY <3>1, SumRaise
  <2>4. QED
    BY <1>2, <1>6, <2>1, <2>2, <2>3
       DEF TotalReported, TotalSentReported, NewlyProcessed, NewlySent
<1>8. PICK A : A = [m \in Nodes |-> Taken(m)]
  OBVIOUS
<1>9. A \in [Nodes -> SUBSET Data] /\ \A m \in Nodes : A[m] = Taken(m) \cap Data
  BY <1>8 DEF Taken
<1>10. Disjoint(A)
  BY <1>9, DisjointStreams
<1>11. \A m \in Nodes : f[m] <= Cardinality(A[m])
  <2>1. ASSUME NEW m \in Nodes \ {n} PROVE f[m] <= Cardinality(A[m])
    <3>1. f[m] = Rec(m).partial
      BY <1>3 DEF Reports
    <3>2. QED
      BY <1>8, <3>1, ReportsBounded
  <2>2. f[n] = disk[n].processed
    BY <1>3, <1>4, <1>6 DEF Counts
  <2>3. f[n] <= Cardinality(A[n])
    <3>1. Cardinality(Taken(n)) = disk[n].processed /\ disk[n].processed \in Nat
      BY TakenTyped, NodeTyped
    <3>2. A[n] = Taken(n)
      BY <1>8
    <3>3. QED
      BY <2>2, <3>1, <3>2
  <2>4. QED
    BY <2>1, <2>3
<1>12. SumOver(f) >= Cardinality(Data)
  BY <1>1, <1>7 DEF Accounted, Expected
<1>13. IsFiniteSet(Data)
  BY ParametersAssumption
<1>14. /\ \A d \in Data : \E m \in Nodes : d \in A[m]
       /\ \A m \in Nodes : f[m] = Cardinality(A[m])
       /\ SumOver(f) = Cardinality(Data)
  BY <1>6, <1>9, <1>10, <1>11, <1>12, <1>13, SumBound
<1>15. AllProcessed
  BY <1>8, <1>14 DEF AllProcessed, Taken
<1>16. \A m \in Nodes \ {n} : Rec(m).partial = Cardinality(Taken(m))
  BY <1>3, <1>8, <1>14 DEF Reports
<1>17. SumOver(g) = IF eager THEN Cardinality(Results) ELSE 0
  <2>1. CASE ~eager
    <3>1. \A m \in Nodes : Rec(m).partialSent = 0
      BY <2>1, ReportsBounded
    <3>2. mem[n].sent = 0
      BY <1>4, <2>1, CountingHeads DEF NodesOK, NodeOK, LogOK
    <3>3. \A m \in Nodes : g[m] = 0
      BY <1>3, <3>1, <3>2 DEF SentReports
    <3>4. QED
      BY <1>6, <2>1, <3>3, SumZero
  <2>2. CASE eager
    <3>1. \A m \in Nodes \ {n} : Rec(m).partialSent = Cardinality(Taken(m) \cap Results)
      BY <1>16, <2>2, ReportsBounded
    <3>2. mem[n].sent = Cardinality(Taken(n) \cap Results)
      BY <1>4, <2>2 DEF NodesOK, NodeOK, LogOK
    <3>3. PICK B : B = [m \in Nodes |-> Taken(m) \cap Results]
      OBVIOUS
    <3>4. /\ B \in [Nodes -> SUBSET Data]
          /\ \A m \in Nodes : B[m] = Taken(m) \cap Results
      BY <3>3 DEF Taken
    <3>5. \A m \in Nodes : g[m] = Cardinality(B[m])
      BY <1>3, <3>1, <3>2, <3>4 DEF SentReports
    <3>6. Disjoint(B)
      BY <3>4, DisjointStreams
    <3>7. SumOver(g) = Cardinality(UNION {B[m] : m \in Nodes})
      BY <1>6, <1>13, <3>4, <3>5, <3>6, SumOfSizes
    <3>8. UNION {B[m] : m \in Nodes} = Results
      <4>1. \A r \in Results : \E m \in Nodes : r \in B[m]
        BY <1>8, <1>14, <3>4, ParametersAssumption
      <4>2. QED
        BY <3>4, <4>1
    <3>9. QED
      BY <2>2, <3>7, <3>8
  <2>3. QED
    BY <2>1, <2>2
<1>18. \A m \in Nodes \ {n} : step[m] \in {"count", "eof"} \/ Reported(disk[m])
  BY <1>16, ReportsBounded
<1>19. QED
  BY <1>1, <1>7, <1>14, <1>15, <1>17, <1>18 DEF Expected

\* The first flush token is the one for the first place of the lap.
LEMMA FirstOfLap ==
  ASSUME NEW n \in Nodes, NEW t,
         t.total + NewlyProcessed(n) = Expected,
         t.sent + NewlySent(n) = IF eager THEN Cardinality(Results) ELSE 0
  PROVE  FirstFlush(n, t) = LapToken(n, NextNode(n)) /\ Before(n, NextNode(n)) = {}
<1>1. Place(n, NextNode(n)) = 0
  BY PlaceOf
<1>2. SentBefore(n, NextNode(n)) = IF eager THEN Cardinality(Results) ELSE 0
  BY SentNext DEF SentBefore
<1>3. Before(n, NextNode(n)) = {}
  BY BeforeNext
<1>4. FirstFlush(n, t) = LapToken(n, NextNode(n))
  BY <1>1, <1>2 DEF FirstFlush, LapToken
<1>5. QED
  BY <1>3, <1>4

LEMMA CountingElects ==
  ASSUME Typed, Typed', NodesOK, ~Flushing, Counting,
         NEW n \in Nodes, CountToken(n), Accounted(n, Head(ctlq[n]))
  PROVE  Elected(n)' /\ Flushing'
<1>1. PICK t : t = Head(ctlq[n])
  OBVIOUS
<1>2. /\ step[n] = "free" /\ 1 \in DOMAIN ctlq[n] /\ ctlq[n][1] = t
      /\ Live(n, 1) /\ First(n, 1) /\ t \in Tokens /\ t.phase = "count"
  BY <1>1, TakenTokenLive
<1>3. /\ OnlyAt(n) /\ UNCHANGED <<eager, disk, out, finals>>
  BY CountTokenReports DEF NodesOK
<1>4. /\ step'[n] = "elect" /\ FirstFlush(n, t) \in Tokens /\ SendToken(n, FirstFlush(n, t))
      /\ ctlq[n] # <<>>
  BY <1>1, CountTokenEffect
<1>5. /\ AllProcessed /\ t.total + NewlyProcessed(n) = Expected
      /\ \A m \in Nodes \ {n} : step[m] \in {"count", "eof"} \/ Reported(disk[m])
      /\ t.sent + NewlySent(n) = IF eager THEN Cardinality(Results) ELSE 0
  BY <1>1, CompleteAtElection
<1>6. FirstFlush(n, t) = LapToken(n, NextNode(n)) /\ Before(n, NextNode(n)) = {}
  BY <1>5, FirstOfLap
<1>7. ctlq'[n] # <<>> /\ Head(ctlq'[n]) = t
  BY <1>1, <1>4, SendTyped DEF Typed
<1>8. /\ NewlyProcessed(n) = disk[n].processed - disk[n].partial
      /\ NewlySent(n) = disk[n].sent - disk[n].partialSent
  BY <1>2, AtRest DEF NodesOK, NewlyProcessed, NewlySent
<1>9. Pending(n)'
  <2>1. TokenId(t) \notin disk[n].control
    BY <1>2 DEF Live
  <2>2. QED
    BY <1>2, <1>3, <1>4, <1>5, <1>7, <1>8, <2>1 DEF Pending, TokenId
<1>10. ASSUME NEW m \in Nodes, NEW i \in DOMAIN ctlq'[m]
       PROVE  IF ctlq'[m][i].phase = "flush"
              THEN ctlq'[m][i] = LapToken(n, m)' /\ (~eager' => Before(n, m)' \subseteq out')
              ELSE Live(m, i)' => m = n /\ TokenId(ctlq'[m][i]) = TokenId(t)
  <2>1. CASE i \in DOMAIN ctlq[m]
    <3>1. ctlq'[m][i] = ctlq[m][i] /\ ctlq[m][i].phase # "flush"
          /\ (Live(m, i)' => Live(m, i))
      BY <1>2, <1>3, <1>4, <2>1, LiveAfterSend, AfterSend DEF Flushing
    <3>2. Live(m, i)' => m = n /\ TokenId(ctlq[m][i]) = TokenId(t)
      BY <1>2, <2>1, <3>1 DEF Counting
    <3>3. QED
      BY <3>1, <3>2
  <2>2. CASE i \notin DOMAIN ctlq[m]
    <3>1. m = NextNode(n) /\ ctlq'[m][i] = FirstFlush(n, t)
      BY <1>4, <2>2, AfterSend
    <3>2. ctlq'[m][i] = LapToken(n, m)' /\ Before(n, m)' = {}
      BY <1>3, <1>6, <3>1 DEF LapToken, Before, Place, SentBefore, Expected
    <3>3. ctlq'[m][i].phase = "flush"
      BY <3>1 DEF FirstFlush
    <3>4. QED
      BY <3>2, <3>3
  <2>3. QED
    BY <2>1, <2>2
<1>11. ASSUME NEW m \in Nodes
       PROVE  /\ \A id \in disk'[m].control : id[1] # "flush"
              /\ step'[m] \in {"count", "eof"} \/ Reported(disk'[m]) \/ m = n
              /\ step'[m] = "elect" => m = n
              /\ step'[m] \notin {"flush", "passed"}
  <2>1. ~FlushLogged(m) /\ step[m] \notin {"elect", "flush", "passed"}
    BY CountingHeads
  <2>2. QED
    BY <1>3, <1>4, <1>5, <2>1 DEF FlushLogged, OnlyAt
<1>12. finals' = {} /\ AllProcessed'
  BY <1>3, <1>5 DEF Counting, AllProcessed
<1>13. Elected(n)'
  BY <1>7, <1>9, <1>10, <1>11, <1>12 DEF Elected, TokenId, Reported
<1>14. Flushing'
  <2>1. \E i \in DOMAIN ctlq'[NextNode(n)] : ctlq'[NextNode(n)][i] = FirstFlush(n, t)
    <3>1. ctlq'[NextNode(n)] = Append(ctlq[NextNode(n)], FirstFlush(n, t))
      BY <1>4, RingNodes, SendTyped DEF Typed
    <3>2. QED
      BY <1>4, <3>1, RingNodes, NodeTyped, AppendTyped
  <2>2. FirstFlush(n, t).phase = "flush"
    BY DEF FirstFlush
  <2>3. QED
    BY <2>1, <2>2, RingNodes DEF Flushing
<1>15. QED
  BY <1>13, <1>14

LEMMA CountingStep ==
  ASSUME Typed, NodesOK, StartOK, HarmlessCrashes, ~Flushing, Counting,
         NEW n \in Nodes, Event(n)
  PROVE  RingOK'
<1>0. Typed'
  BY EventTyped
<1>1. CASE Stays(n) \/ AckMain(n)
  BY <1>1, CountingStays DEF RingOK
<1>2. CASE AckControl(n)
  BY <1>2, CountingAck DEF RingOK
<1>3. CASE HandleEof(n)
  <2>1. n = 0 /\ (Unstarted \/ (Issued /\ Reported(disk[0])))
    BY <1>3, EofReports
  <2>2. Counting'
    BY <1>0, <1>3, <2>1, CountingEofFirst, CountingEofAgain
  <2>3. ~Flushing'
    <3>1. /\ StartToken(n) \in Tokens /\ SendToken(n, StartToken(n)) /\ UNCHANGED disk
      BY <1>3, HandleEofEffect
    <3>2. StartToken(n).phase = "count"
      BY DEF StartToken
    <3>3. \A m \in Nodes : \A i \in DOMAIN ctlq'[m] : ctlq'[m][i].phase # "flush"
      BY <3>1, <3>2, AfterSend DEF Flushing
    <3>4. \A m \in Nodes : ~FlushLogged(m)'
      BY <3>1 DEF Flushing, FlushLogged
    <3>5. QED
      BY <3>3, <3>4 DEF Flushing
  <2>4. QED
    BY <2>2, <2>3 DEF RingOK
<1>4. CASE CountToken(n)
  <2>1. CASE Accounted(n, Head(ctlq[n]))
    BY <1>0, <1>4, <2>1, CountingElects DEF RingOK
  <2>2. CASE ~Accounted(n, Head(ctlq[n]))
    BY <1>0, <1>4, <2>2, CountingForward DEF RingOK
  <2>3. QED
    BY <2>1, <2>2
<1>5. CASE PassFlush(n)
  BY <1>5, CountingHeads, PassFlushEffect
<1>6. QED
  BY <1>1, <1>2, <1>3, <1>4, <1>5 DEF Event, Sends

-----------------------------------------------------------------------------
(* The flush lap: the steps *)

LEMMA FlushingStays ==
  ASSUME Typed, NodesOK, Flushing, NEW n \in Nodes, Event(n)
  PROVE  Flushing'
<1>1. PICK m \in Nodes :
        FlushLogged(m) \/ \E i \in DOMAIN ctlq[m] : ctlq[m][i].phase = "flush"
  BY DEF Flushing
<1>2. CASE FlushLogged(m)
  <2>1. FlushLogged(m)'
    BY <1>2, LogGrows DEF FlushLogged
  <2>2. QED
    BY <2>1 DEF Flushing
<1>3. CASE \E i \in DOMAIN ctlq[m] : ctlq[m][i].phase = "flush"
  <2>1. PICK i \in DOMAIN ctlq[m] : ctlq[m][i].phase = "flush"
    BY <1>3
  <2>2. CASE \E j \in DOMAIN ctlq'[m] : ctlq'[m][j] = ctlq[m][i]
    BY <2>1, <2>2 DEF Flushing
  <2>3. CASE TokenId(ctlq[m][i]) \in disk[m].control
    <3>1. TokenId(ctlq[m][i]) \in disk'[m].control /\ TokenId(ctlq[m][i])[1] = "flush"
      BY <2>1, <2>3, LogGrows DEF TokenId
    <3>2. FlushLogged(m)'
      BY <3>1 DEF FlushLogged
    <3>3. QED
      BY <3>2 DEF Flushing
  <2>4. QED
    BY <2>2, <2>3, TokenStays
<1>4. QED
  BY <1>1, <1>2, <1>3

\* A step of the coordinator that leaves its log alone keeps its decision.
LEMMA PendingStays ==
  ASSUME NEW c \in Nodes, Pending(c), UNCHANGED eager,
         disk'[c] = disk[c], step'[c] # "count", step'[c] = "eof" => Reported(disk[c]),
         ctlq'[c] # <<>>, Head(ctlq'[c]) = Head(ctlq[c])
  PROVE  Pending(c)'
BY DEF Pending, TokenId, Reported, Expected

\* The terms of the lap that no step changes.
LEMMA LapSame ==
  ASSUME UNCHANGED eager, NEW c, NEW n
  PROVE  /\ LapToken(c, n)' = LapToken(c, n) /\ Before(c, n)' = Before(c, n)
         /\ Place(c, n)' = Place(c, n)
BY DEF LapToken, Before, Place, SentBefore, Expected

\* A step of node n that neither sends nor acks a token.
LEMMA ElectedFrame ==
  ASSUME Typed, NodesOK, NEW c \in Nodes, Elected(c), NEW n \in Nodes,
         UNCHANGED <<eager, ctlq>>, OnlyAt(n),
         disk[n].main \subseteq disk'[n].main, disk[n].control \subseteq disk'[n].control,
         step[n] = "count" =>
           step'[n] = "count" \/ TokenId(Head(ctlq[n])) \in disk'[n].control,
         \A id \in disk'[n].control : id[1] = "flush" => id[2] = Place(c, n),
         step'[n] \in {"count", "eof"} \/ Reported(disk'[n]) \/ (n = c /\ Pending(c)'),
         step'[n] = "elect" => n = c,
         ~eager /\ step'[n] \in {"flush", "passed"} => Taken(n)' \cap Results \subseteq out',
         n = c /\ Pending(c) =>
           Pending(c)' \/ \A i \in DOMAIN ctlq[c] :
                            ctlq[c][i].phase # "flush" /\ Live(c, i) => ~Live(c, i)',
         out \subseteq out', out' \subseteq Results,
         finals' \subseteq {Cardinality(Results)}, finals' # {} => out' = Results
  PROVE  Elected(c)'
<1>1. \A m \in Nodes : /\ disk[m].main \subseteq disk'[m].main
                       /\ disk[m].control \subseteq disk'[m].control
                       /\ step[m] = "count" =>
                            step'[m] = "count" \/ TokenId(Head(ctlq[m])) \in disk'[m].control
  BY DEF OnlyAt
<1>2. AllProcessed'
  BY <1>1 DEF Elected, AllProcessed
<1>3. c # n /\ Pending(c) => Pending(c)'
  <2>1. SUFFICES ASSUME c # n, Pending(c) PROVE Pending(c)'
    OBVIOUS
  <2>2. disk'[c] = disk[c] /\ step'[c] = step[c]
    BY <2>1 DEF OnlyAt
  <2>3. QED
    BY <2>1, <2>2, PendingStays DEF Pending
<1>4. ASSUME NEW m \in Nodes, NEW i \in DOMAIN ctlq'[m]
      PROVE  IF ctlq'[m][i].phase = "flush"
             THEN ctlq'[m][i] = LapToken(c, m)' /\ (~eager' => Before(c, m)' \subseteq out')
             ELSE Live(m, i)' => m = c /\ Pending(c)'
                                 /\ TokenId(ctlq'[m][i]) = TokenId(Head(ctlq'[c]))
  <2>1. CASE ctlq[m][i].phase = "flush"
    BY <2>1, LapSame DEF Elected
  <2>2. CASE ctlq[m][i].phase # "flush"
    <3>1. SUFFICES ASSUME Live(m, i)'
                   PROVE  m = c /\ Pending(c)'
                          /\ TokenId(ctlq'[m][i]) = TokenId(Head(ctlq'[c]))
      BY <2>2
    <3>2. Live(m, i)
      BY <1>1, <3>1, LiveStays
    <3>3. m = c /\ Pending(c) /\ TokenId(ctlq[m][i]) = TokenId(Head(ctlq[c]))
      BY <2>2, <3>2 DEF Elected
    <3>4. QED
      BY <1>3, <2>2, <3>1, <3>2, <3>3
  <2>3. QED
    BY <2>1, <2>2
<1>5. ASSUME NEW m \in Nodes
      PROVE  /\ \A id \in disk'[m].control : id[1] = "flush" => id[2] = Place(c, m)'
             /\ step'[m] \in {"count", "eof"} \/ Reported(disk'[m]) \/ (m = c /\ Pending(c)')
             /\ step'[m] = "elect" => m = c
             /\ ~eager' /\ step'[m] \in {"flush", "passed"} =>
                  Taken(m)' \cap Results \subseteq out'
  <2>1. CASE m = n
    BY <2>1, LapSame
  <2>2. CASE m # n
    <3>1. disk'[m] = disk[m] /\ step'[m] = step[m]
      BY <2>2 DEF OnlyAt
    <3>2. Taken(m)' = Taken(m)
      BY <3>1 DEF Taken
    <3>3. \A id \in disk'[m].control : id[1] = "flush" => id[2] = Place(c, m)'
      BY <3>1, LapSame DEF Elected
    <3>4. step'[m] \in {"count", "eof"} \/ Reported(disk'[m]) \/ (m = c /\ Pending(c)')
      BY <1>3, <2>2, <3>1 DEF Elected
    <3>5. QED
      BY <3>1, <3>2, <3>3, <3>4 DEF Elected
  <2>3. QED
    BY <2>1, <2>2
<1>6. QED
  BY <1>2, <1>4, <1>5 DEF Elected, TokenId, Reported

\* A step of node n that sends the token t.
LEMMA ElectedSend ==
  ASSUME Typed, NodesOK, NEW c \in Nodes, Elected(c), NEW n \in Nodes,
         NEW t \in Tokens, SendToken(n, t), OnlyAt(n),
         UNCHANGED <<eager, disk, out, finals>>, step[n] \notin {"count", "eof"},
         IF t.phase = "flush"
         THEN t = LapToken(c, NextNode(n)) /\ (~eager => Before(c, NextNode(n)) \subseteq out)
         ELSE \A i \in DOMAIN ctlq'[NextNode(n)] :
                ctlq'[NextNode(n)][i] = t /\ Live(NextNode(n), i)' =>
                  NextNode(n) = c /\ Pending(c) /\ TokenId(t) = TokenId(Head(ctlq[c])),
         step'[n] # "count", step'[n] = "eof" => Reported(disk[n]),
         step'[n] = "elect" => n = c,
         ~eager /\ step'[n] \in {"flush", "passed"} => Taken(n) \cap Results \subseteq out
  PROVE  Elected(c)'
<1>1. AllProcessed'
  BY DEF Elected, AllProcessed
<1>2. Pending(c) => Pending(c)' /\ Head(ctlq'[c]) = Head(ctlq[c])
  <2>1. SUFFICES ASSUME Pending(c) PROVE Pending(c)' /\ Head(ctlq'[c]) = Head(ctlq[c])
    OBVIOUS
  <2>2. ctlq[c] # <<>> /\ step[c] # "count" /\ (step[c] = "eof" => Reported(disk[c]))
    BY <2>1 DEF Pending
  <2>3. ctlq'[c] # <<>> /\ Head(ctlq'[c]) = Head(ctlq[c])
    BY <2>2, SendTyped DEF Typed
  <2>4. step'[c] # "count" /\ (step'[c] = "eof" => Reported(disk[c]))
    BY <2>2 DEF OnlyAt
  <2>5. QED
    BY <2>1, <2>3, <2>4, PendingStays
<1>3. ASSUME NEW m \in Nodes, NEW i \in DOMAIN ctlq'[m]
      PROVE  IF ctlq'[m][i].phase = "flush"
             THEN ctlq'[m][i] = LapToken(c, m)' /\ (~eager' => Before(c, m)' \subseteq out')
             ELSE Live(m, i)' => m = c /\ Pending(c)'
                                 /\ TokenId(ctlq'[m][i]) = TokenId(Head(ctlq'[c]))
  <2>1. CASE i \in DOMAIN ctlq[m]
    <3>1. ctlq'[m][i] = ctlq[m][i] /\ (Live(m, i)' => Live(m, i))
      BY <2>1, LiveAfterSend, AfterSend
    <3>2. CASE ctlq[m][i].phase = "flush"
      BY <2>1, <3>1, <3>2, LapSame DEF Elected
    <3>3. CASE ctlq[m][i].phase # "flush"
      BY <1>2, <2>1, <3>1, <3>3 DEF Elected
    <3>4. QED
      BY <3>2, <3>3
  <2>2. CASE i \notin DOMAIN ctlq[m]
    <3>1. m = NextNode(n) /\ ctlq'[m][i] = t
      BY <2>2, AfterSend
    <3>2. CASE t.phase = "flush"
      BY <3>1, <3>2, LapSame
    <3>3. CASE t.phase # "flush"
      BY <1>2, <3>1, <3>3
    <3>4. QED
      BY <3>2, <3>3
  <2>3. QED
    BY <2>1, <2>2
<1>4. ASSUME NEW m \in Nodes
      PROVE  /\ \A id \in disk'[m].control : id[1] = "flush" => id[2] = Place(c, m)'
             /\ step'[m] \in {"count", "eof"} \/ Reported(disk'[m]) \/ (m = c /\ Pending(c)')
             /\ step'[m] = "elect" => m = c
             /\ ~eager' /\ step'[m] \in {"flush", "passed"} =>
                  Taken(m)' \cap Results \subseteq out'
  <2>1. Taken(m)' = Taken(m) /\ disk'[m] = disk[m]
    BY DEF Taken
  <2>2. \A id \in disk'[m].control : id[1] = "flush" => id[2] = Place(c, m)'
    BY <2>1, LapSame DEF Elected
  <2>3. CASE m # n
    <3>1. step'[m] = step[m]
      BY <2>3 DEF OnlyAt
    <3>2. QED
      BY <1>2, <2>1, <2>2, <3>1 DEF Elected
  <2>4. CASE m = n
    <3>1. step'[n] = "eof" \/ Reported(disk[n]) \/ (n = c /\ Pending(c))
      BY DEF Elected
    <3>2. QED
      BY <1>2, <2>1, <2>2, <2>4, <3>1
  <2>5. QED
    BY <2>3, <2>4
<1>5. finals' \subseteq {Cardinality(Results)} /\ (finals' # {} => out' = Results)
  BY DEF Elected
<1>6. QED
  BY <1>1, <1>3, <1>4, <1>5 DEF Elected, TokenId, Reported

\* What the handler of a flush token knows of its node.
LEMMA FlushHandler ==
  ASSUME Typed, NodesOK, NEW c \in Nodes, Elected(c), NEW n \in Nodes,
         ctlq[n] # <<>>, Head(ctlq[n]).phase = "flush"
  PROVE  /\ Head(ctlq[n]) = LapToken(c, n) /\ ~(n = c /\ Pending(c))
         /\ ~eager => Before(c, n) \subseteq out
         /\ TokenId(Head(ctlq[n])) = <<"flush", Place(c, n)>>
<1>1. Head(ctlq[n]) = ctlq[n][1] /\ 1 \in DOMAIN ctlq[n]
  BY NodeTyped, HeadTyped
<1>2. Head(ctlq[n]) = LapToken(c, n) /\ (~eager => Before(c, n) \subseteq out)
  BY <1>1 DEF Elected
<1>3. ~(n = c /\ Pending(c))
  BY DEF Pending
<1>4. TokenId(Head(ctlq[n])) = <<"flush", Place(c, n)>>
  BY <1>2 DEF TokenId, LapToken
<1>5. QED
  BY <1>2, <1>3, <1>4

LEMMA ElectedMain ==
  ASSUME Typed, NodesOK, OutOK, NEW c \in Nodes, Elected(c), NEW n \in Nodes,
         LogRingStart(n) \/ LogMain(n)
  PROVE  Elected(c)'
<1>1. /\ OnlyAt(n) /\ UNCHANGED <<eager, ctlq, out, finals>> /\ NodeOK(n)
      /\ step[n] # "count"
      /\ step'[n] \notin {"count", "eof", "elect", "flush", "passed"}
  BY LogRingStartEffect, LogMainEffect DEF NodesOK
<1>2. step[n] \in {"eof", "eof_logged"}
  <2>1. CASE LogRingStart(n)
    BY <2>1, LogRingStartEffect
  <2>2. CASE LogMain(n)
    <3>1. /\ step[n] \in {"data", "eof_logged"} /\ mainq[n] # <<>>
          /\ Head(mainq[n]) \notin mem[n].main
      BY <2>2, LogMainEffect
    <3>2. Head(mainq[n]) = Eof
      BY <3>1, CompleteHeads DEF Elected
    <3>3. QED
      BY <3>1, <3>2, ParametersAssumption DEF NodesOK, NodeOK, HandlerOK
  <2>3. QED
    BY <2>1, <2>2
<1>3. /\ disk[n].main \subseteq disk'[n].main /\ disk'[n].control = disk[n].control
      /\ disk'[n].processed = disk[n].processed /\ disk'[n].sent = disk[n].sent
      /\ \/ step[n] = "eof" /\ Reported(disk'[n])
         \/ /\ step[n] = "eof_logged" /\ disk'[n].partial = disk[n].partial
            /\ disk'[n].partialSent = disk[n].partialSent
  <2>1. CASE LogRingStart(n)
    BY <1>1, <2>1, NodeLogRingStart, LogRingStartEffect
  <2>2. CASE LogMain(n)
    <3>1. step[n] = "eof_logged"
      BY <1>2, <2>2, LogMainEffect
    <3>2. QED
      BY <1>1, <2>2, <3>1, NodeLogMain
  <2>3. QED
    BY <2>1, <2>2
<1>4. n = c /\ Pending(c) => Pending(c)'
  <2>1. SUFFICES ASSUME n = c, Pending(c) PROVE Pending(c)'
    OBVIOUS
  <2>2. step[n] = "eof" => Reported(disk[n])
    BY <2>1 DEF Pending
  <2>3. disk'[n].partial = disk[n].partial /\ disk'[n].partialSent = disk[n].partialSent
    BY <1>3, <2>2 DEF Reported
  <2>4. QED
    BY <1>1, <1>3, <2>1, <2>3 DEF Pending, TokenId, Expected
<1>5. Reported(disk'[n]) \/ (n = c /\ Pending(c)')
  BY <1>3, <1>4 DEF Elected, Reported
<1>6. \A id \in disk'[n].control : id[1] = "flush" => id[2] = Place(c, n)
  BY <1>3 DEF Elected
<1>7. QED
  BY <1>1, <1>3, <1>4, <1>5, <1>6, ElectedFrame DEF Elected, OutOK

LEMMA ElectedFlush ==
  ASSUME Typed, NodesOK, OutOK, RingOK, NEW c \in Nodes, Elected(c), NEW n \in Nodes,
         FlushToken(n)
  PROVE  Elected(c)'
<1>1. /\ OnlyAt(n) /\ step[n] = "free" /\ step'[n] = "flush" /\ ctlq[n] # <<>>
      /\ Head(ctlq[n]).phase = "flush" /\ out' = out \cup mem[n].buffer
      /\ UNCHANGED <<eager, ctlq, disk, finals>>
  BY FlushTokenEffect
<1>2. ~FlushLogged(n) /\ mem[n].buffer = disk[n].buffer
  BY FlushNotLogged, NodeFlushToken DEF NodesOK
<1>3. ~(n = c /\ Pending(c))
  BY <1>1, FlushHandler
<1>4. Reported(disk[n])
  BY <1>1, <1>3 DEF Elected
<1>5. ~eager => Taken(n) \cap Results \subseteq out'
  BY <1>1, <1>2 DEF NodesOK, NodeOK, LogOK
<1>6. out \subseteq out' /\ out' \subseteq Results
  BY OutGrows DEF Event, Stays
<1>7. finals' \subseteq {Cardinality(Results)} /\ (finals' # {} => out' = Results)
  BY <1>1, <1>6 DEF Elected
<1>8. \A id \in disk'[n].control : id[1] = "flush" => id[2] = Place(c, n)
  BY <1>1 DEF Elected
<1>9. Taken(n)' = Taken(n)
  BY <1>1 DEF Taken
<1>10. /\ step[n] # "count" /\ step'[n] # "elect"
       /\ disk[n].main \subseteq disk'[n].main /\ disk[n].control \subseteq disk'[n].control
       /\ Reported(disk'[n])
  BY <1>1, <1>4
<1>11. QED
  BY <1>1, <1>3, <1>5, <1>6, <1>7, <1>8, <1>9, <1>10, ElectedFrame

LEMMA ElectedLogControl ==
  ASSUME Typed, NodesOK, OutOK, NEW c \in Nodes, Elected(c), NEW n \in Nodes, LogControl(n)
  PROVE  Elected(c)'
<1>1. /\ OnlyAt(n) /\ step[n] \in {"count", "elect", "passed"} /\ step'[n] = "free"
      /\ ctlq[n] # <<>> /\ UNCHANGED <<eager, ctlq, out, finals>>
  BY LogControlEffect
<1>2. /\ disk'[n].main = disk[n].main
      /\ disk'[n].control = disk[n].control \cup {TokenId(Head(ctlq[n]))}
      /\ disk'[n].processed = disk[n].processed
      /\ disk'[n].sent = disk'[n].partialSent
      /\ step[n] \in {"count", "elect"} => disk'[n].partial = disk'[n].processed
      /\ step[n] = "passed" => disk'[n].partial = disk[n].partial
  BY NodeLogControl DEF NodesOK
<1>3. /\ step[n] \in {"count", "elect"} => Head(ctlq[n]).phase = "count"
      /\ step[n] = "passed" => Head(ctlq[n]).phase = "flush"
  BY DEF NodesOK, NodeOK, HandlerOK
<1>4. \A id \in disk'[n].control : id[1] = "flush" => id[2] = Place(c, n)
  <2>1. ASSUME TokenId(Head(ctlq[n]))[1] = "flush"
        PROVE  TokenId(Head(ctlq[n]))[2] = Place(c, n)
    <3>1. Head(ctlq[n]).phase = "flush"
      BY <2>1 DEF TokenId
    <3>2. QED
      BY <1>1, <3>1, FlushHandler
  <2>2. QED
    BY <1>2, <2>1 DEF Elected
<1>5. Reported(disk'[n])
  <2>1. CASE step[n] \in {"count", "elect"}
    BY <1>2, <2>1 DEF Reported
  <2>2. CASE step[n] = "passed"
    <3>1. Reported(disk[n])
      BY <1>1, <1>3, <2>2, FlushHandler DEF Elected
    <3>2. QED
      BY <1>2, <2>2, <3>1 DEF Reported
  <2>3. QED
    BY <1>1, <2>1, <2>2
<1>6. n = c /\ Pending(c) =>
        \A i \in DOMAIN ctlq[c] :
          ctlq[c][i].phase # "flush" /\ Live(c, i) => ~Live(c, i)'
  <2>1. SUFFICES ASSUME n = c, Pending(c), NEW i \in DOMAIN ctlq[c],
                        ctlq[c][i].phase # "flush", Live(c, i), Live(c, i)'
                 PROVE  FALSE
    OBVIOUS
  <2>2. TokenId(ctlq[c][i]) # TokenId(Head(ctlq[c]))
    BY <1>1, <1>2, <2>1 DEF Live, TokenId
  <2>3. QED
    BY <2>1, <2>2 DEF Elected
<1>7. QED
  BY <1>1, <1>2, <1>4, <1>5, <1>6, ElectedFrame DEF Elected, OutOK

\* What a node adds to the count of the flush token.
LEMMA FlushAdds ==
  ASSUME Typed, NodesOK, NEW c \in Nodes, Elected(c), NEW n \in Nodes, PassFlush(n)
  PROVE  /\ Reported(disk[n]) /\ Head(ctlq[n]) = LapToken(c, n)
         /\ NewlySent(n) = IF eager THEN 0 ELSE Cardinality(ResultsAt(n))
         /\ ~eager => Before(c, n) \cup ResultsAt(n) \subseteq out
         /\ eager => Results \subseteq UNION {Taken(m) : m \in Nodes}
<1>1. step[n] = "flush" /\ ctlq[n] # <<>>
  BY PassFlushEffect
<1>2. Head(ctlq[n]).phase = "flush" /\ LogOK(n) /\ MemoryOK(n)
  BY <1>1 DEF NodesOK, NodeOK, HandlerOK
<1>3. /\ Head(ctlq[n]) = LapToken(c, n) /\ ~(n = c /\ Pending(c))
      /\ ~eager => Before(c, n) \subseteq out
  BY <1>1, <1>2, FlushHandler
<1>4. Reported(disk[n])
  BY <1>1, <1>3 DEF Elected
<1>5. Taken(n) \cap Results = ResultsAt(n)
  BY CompleteStreams DEF Elected
<1>6. NewlySent(n) = Cardinality(disk[n].buffer)
  <2>1. /\ mem[n].sent = disk[n].sent + Cardinality(disk[n].buffer)
        /\ mem[n].partialSent = disk[n].sent
    BY <1>1, <1>2, <1>4 DEF MemoryOK, Reported
  <2>2. disk[n].sent \in Nat /\ Cardinality(disk[n].buffer) \in Nat
    <3>1. disk[n].buffer \in SUBSET Data /\ disk[n].sent \in Nat
      BY NodeTyped
    <3>2. QED
      BY <3>1, FS_Subset, FS_CardinalityType, ParametersAssumption
  <2>3. QED
    BY <2>1, <2>2 DEF NewlySent
<1>7. CASE eager
  <2>1. Cardinality({}) = 0
    BY FS_EmptySet
  <2>2. disk[n].buffer = {}
    BY <1>2, <1>7 DEF LogOK
  <2>3. Results \subseteq UNION {Taken(m) : m \in Nodes}
    <3>1. ASSUME NEW r \in Results PROVE \E m \in Nodes : r \in Taken(m)
      BY ParametersAssumption DEF Elected, AllProcessed, Taken
    <3>2. QED
      BY <3>1
  <2>4. NewlySent(n) = 0
    BY <1>6, <2>1, <2>2
  <2>5. QED
    BY <1>3, <1>4, <1>7, <2>3, <2>4
<1>8. CASE ~eager
  <2>1. disk[n].buffer = ResultsAt(n)
    BY <1>1, <1>2, <1>5, <1>8 DEF LogOK, MemoryOK
  <2>2. ResultsAt(n) \subseteq out
    BY <1>1, <1>5, <1>8 DEF Elected
  <2>3. QED
    BY <1>3, <1>4, <1>6, <1>8, <2>1, <2>2
<1>9. QED
  BY <1>7, <1>8

LEMMA ElectedPass ==
  ASSUME Typed, NodesOK, OutOK, NEW c \in Nodes, Elected(c), NEW n \in Nodes, PassFlush(n)
  PROVE  Elected(c)'
<1>1. /\ OnlyAt(n) /\ step[n] = "flush" /\ step'[n] = "passed" /\ ctlq[n] # <<>>
      /\ UNCHANGED <<eager, mainq, disk, out>>
  BY PassFlushEffect
<1>2. /\ Reported(disk[n]) /\ Head(ctlq[n]) = LapToken(c, n)
      /\ NewlySent(n) = IF eager THEN 0 ELSE Cardinality(ResultsAt(n))
      /\ ~eager => Before(c, n) \cup ResultsAt(n) \subseteq out
      /\ eager => Results \subseteq UNION {Taken(m) : m \in Nodes}
  BY FlushAdds
<1>3. Head(ctlq[n]).coordinator = c /\ Head(ctlq[n]).sent = SentBefore(c, n)
  BY <1>2 DEF LapToken
<1>4. SentBefore(c, n) \in Int /\ Cardinality(ResultsAt(n)) \in Int
  <2>1. ResultsAt(n) \in SUBSET Results
    BY DEF ResultsAt
  <2>2. Cardinality(ResultsAt(n)) \in Int
    BY <2>1, ExpectedTyped, FS_Subset, FS_CardinalityType
  <2>3. Head(ctlq[n]) \in Tokens
    BY PassFlushEffect
  <2>4. SentBefore(c, n) \in Int
    BY <1>3, <2>3 DEF Tokens
  <2>5. QED
    BY <2>2, <2>4
<1>5. ~eager => Taken(n) \cap Results \subseteq out
  BY <1>1 DEF Elected
<1>6. CASE n # c
  <2>1. /\ NextFlush(n) \in Tokens /\ SendToken(n, NextFlush(n)) /\ UNCHANGED finals
    BY <1>3, <1>6, PassFlushEffect
  <2>2. SentAfter(n) = SentBefore(c, NextNode(n))
    <3>1. CASE eager
      BY <1>2, <1>3, <1>4, <3>1, ExpectedTyped DEF SentAfter, SentBefore
    <3>2. CASE ~eager
      BY <1>2, <1>3, <1>6, <3>2, SentNext DEF SentAfter
    <3>3. QED
      BY <3>1, <3>2
  <2>3. Place(c, NextNode(n)) = Place(c, n) + 1
    BY <1>6, PlaceOf
  <2>4. NextFlush(n) = LapToken(c, NextNode(n))
    BY <1>2, <2>2, <2>3 DEF NextFlush, LapToken
  <2>5. ~eager => Before(c, NextNode(n)) \subseteq out
    BY <1>2, <1>6, BeforeNext
  <2>6. NextFlush(n).phase = "flush"
    BY <2>4 DEF LapToken
  <2>7. step[n] \notin {"count", "eof"} /\ step'[n] \notin {"count", "eof", "elect"}
    BY <1>1
  <2>8. QED
    BY <1>1, <1>5, <2>1, <2>4, <2>5, <2>6, <2>7, ElectedSend
<1>7. CASE n = c
  <2>1. finals' = finals \cup {SentAfter(n)} /\ UNCHANGED ctlq
    BY <1>3, <1>7, PassFlushEffect
  <2>2. SentAfter(n) = Cardinality(Results)
    <3>1. CASE eager
      BY <1>2, <1>3, <1>4, <3>1, ExpectedTyped DEF SentAfter, SentBefore
    <3>2. CASE ~eager
      BY <1>2, <1>3, <1>7, <3>2, SentNext DEF SentAfter
    <3>3. QED
      BY <3>1, <3>2
  <2>3. out = Results
    <3>1. out \subseteq Results
      BY DEF OutOK
    <3>2. CASE eager
      <4>1. \A m \in Nodes : Taken(m) \cap Results \subseteq out
        BY <3>2 DEF OutOK
      <4>2. QED
        BY <1>2, <3>1, <3>2, <4>1
    <3>3. CASE ~eager
      BY <1>2, <1>7, <3>1, <3>3, BeforeNext
    <3>4. QED
      BY <3>2, <3>3
  <2>4. /\ finals' \subseteq {Cardinality(Results)} /\ (finals' # {} => out' = Results)
    BY <1>1, <2>1, <2>2, <2>3 DEF Elected
  <2>5. \A id \in disk'[n].control : id[1] = "flush" => id[2] = Place(c, n)
    BY <1>1 DEF Elected
  <2>6. Taken(n)' = Taken(n)
    BY <1>1 DEF Taken
  <2>7. Pending(c) => Pending(c)'
    BY <1>1, <1>7, <2>1, PendingStays
  <2>8. /\ step[n] # "count" /\ step'[n] # "elect"
        /\ disk[n].main \subseteq disk'[n].main /\ disk[n].control \subseteq disk'[n].control
        /\ Reported(disk'[n]) /\ out \subseteq out' /\ out' \subseteq Results
        /\ ~eager => Taken(n)' \cap Results \subseteq out'
    BY <1>1, <1>2, <1>5, <2>3, <2>6
  <2>9. QED
    BY <1>1, <2>1, <2>4, <2>5, <2>7, <2>8, ElectedFrame
<1>8. QED
  BY <1>6, <1>7

\* A repeated EOF sends the first token again: nobody counts it but the
\* coordinator, if it was elected by that token.
LEMMA ElectedEof ==
  ASSUME Typed, NodesOK, StartOK, Flushing, NEW c \in Nodes, Elected(c),
         NEW n \in Nodes, HandleEof(n)
  PROVE  Elected(c)'
<1>1. /\ OnlyAt(n) /\ step[n] = "free" /\ step'[n] = "eof"
      /\ StartToken(n) \in Tokens /\ SendToken(n, StartToken(n))
      /\ UNCHANGED <<eager, disk, out, finals>>
  BY HandleEofEffect
<1>2. n = 0 /\ Issued /\ Reported(disk[n])
  <2>1. ~Unstarted
    <3>1. SUFFICES ASSUME Unstarted PROVE FALSE
      OBVIOUS
    <3>2. \A m \in Nodes : ~FlushLogged(m) /\ DOMAIN ctlq[m] = {}
      BY <3>1, UnstartedReports DEF Unstarted, FlushLogged
    <3>3. QED
      BY <3>2 DEF Flushing
  <2>2. QED
    BY <2>1, EofReports
<1>3. TokenId(StartToken(n)) = FirstId /\ StartToken(n).phase = "count"
  BY DEF TokenId, StartToken, FirstId
<1>4. PICK m \in Nodes : m = NextNode(n)
  BY RingNodes
<1>5. ASSUME NEW i \in DOMAIN ctlq'[m], ctlq'[m][i] = StartToken(n), Live(m, i)'
      PROVE  m = c /\ Pending(c) /\ FirstId = TokenId(Head(ctlq[c]))
  <2>1. FirstId \notin disk[m].control
    BY <1>1, <1>3, <1>5 DEF Live, TokenId
  <2>2. PICK j \in DOMAIN ctlq[m] : TokenId(ctlq[m][j]) = FirstId
    BY <1>2, <1>4, <2>1 DEF Issued
  <2>3. j \in DOMAIN ctlq'[m] /\ ctlq'[m][j] = ctlq[m][j]
    BY <1>1, <2>2, AfterSend
  <2>4. Live(m, j)'
    BY <1>3, <1>5, <2>2, <2>3 DEF Live, TokenId
  <2>5. Live(m, j)
    BY <1>1, <2>2, <2>4, LiveAfterSend
  <2>6. ctlq[m][j].phase # "flush"
    BY <2>2 DEF TokenId, FirstId
  <2>7. QED
    BY <2>2, <2>5, <2>6 DEF Elected
<1>6. /\ step[n] \notin {"count", "eof"} /\ step'[n] \notin {"count", "elect", "flush", "passed"}
  BY <1>1
<1>7. QED
  BY <1>1, <1>2, <1>3, <1>4, <1>5, <1>6, ElectedSend

\* A token that is taken now is the one by which c was elected: c decides
\* the same again.
LEMMA ElectedCount ==
  ASSUME Typed, NodesOK, NEW c \in Nodes, Elected(c), NEW n \in Nodes, CountToken(n)
  PROVE  Elected(c)'
<1>1. PICK t : t = Head(ctlq[n])
  OBVIOUS
<1>2. /\ step[n] = "free" /\ 1 \in DOMAIN ctlq[n] /\ ctlq[n][1] = t
      /\ Live(n, 1) /\ t \in Tokens /\ t.phase = "count"
  BY <1>1, TakenTokenLive
<1>3. n = c /\ Pending(c)
  BY <1>2 DEF Elected
<1>4. /\ t.total + (disk[n].processed - disk[n].partial) = Expected
      /\ t.sent + (disk[n].sent - disk[n].partialSent)
           = IF eager THEN Cardinality(Results) ELSE 0
  BY <1>1, <1>3 DEF Pending
<1>5. /\ NewlyProcessed(n) = disk[n].processed - disk[n].partial
      /\ NewlySent(n) = disk[n].sent - disk[n].partialSent
  BY <1>2, AtRest DEF NodesOK, NewlyProcessed, NewlySent
<1>6. FirstFlush(n, t) = LapToken(n, NextNode(n)) /\ Before(n, NextNode(n)) = {}
  BY <1>4, <1>5, FirstOfLap
<1>7. Accounted(n, t)
  BY <1>4, <1>5, ExpectedTyped DEF Accounted
<1>8. step'[n] = "elect" /\ FirstFlush(n, t) \in Tokens /\ SendToken(n, FirstFlush(n, t))
  BY <1>1, <1>7, CountTokenEffect
<1>9. OnlyAt(n) /\ UNCHANGED <<eager, disk, out, finals>>
  BY CountTokenReports DEF NodesOK
<1>10. FirstFlush(n, t).phase = "flush"
  BY DEF FirstFlush
<1>11. /\ step[n] \notin {"count", "eof"}
       /\ step'[n] \notin {"count", "eof", "flush", "passed"}
  BY <1>2, <1>8
<1>12. Before(c, NextNode(n)) \subseteq out
  BY <1>3, <1>6
<1>13. QED
  BY <1>3, <1>6, <1>8, <1>9, <1>10, <1>11, <1>12, ElectedSend

LEMMA ElectedAck ==
  ASSUME Typed, NodesOK, NEW c \in Nodes, Elected(c), NEW n \in Nodes, AckControl(n)
  PROVE  Elected(c)'
<1>1. /\ step[n] # "down" /\ ctlq[n] # <<>> /\ TokenId(Head(ctlq[n])) \in mem[n].control
      /\ \A m \in Nodes \ {n} : ctlq'[m] = ctlq[m]
      /\ UNCHANGED <<eager, mainq, step, mem, disk, out, finals>>
  BY AckControlEffect
<1>2. ~(n = c /\ Pending(c))
  BY <1>1 DEF NodesOK, NodeOK, MemoryOK, Pending
<1>3. Pending(c) => Pending(c)' /\ Head(ctlq'[c]) = Head(ctlq[c])
  <2>1. SUFFICES ASSUME Pending(c) PROVE Pending(c)' /\ Head(ctlq'[c]) = Head(ctlq[c])
    OBVIOUS
  <2>2. ctlq'[c] = ctlq[c] /\ disk'[c] = disk[c] /\ step'[c] = step[c] /\ UNCHANGED eager
    BY <1>1, <1>2, <2>1
  <2>3. QED
    BY <2>1, <2>2, PendingStays DEF Pending
<1>4. ASSUME NEW m \in Nodes, NEW i \in DOMAIN ctlq'[m]
      PROVE  IF ctlq'[m][i].phase = "flush"
             THEN ctlq'[m][i] = LapToken(c, m)' /\ (~eager' => Before(c, m)' \subseteq out')
             ELSE Live(m, i)' => m = c /\ Pending(c)'
                                 /\ TokenId(ctlq'[m][i]) = TokenId(Head(ctlq'[c]))
  <2>1. PICK j \in DOMAIN ctlq[m] : /\ ctlq'[m][i] = ctlq[m][j]
                                    /\ Live(m, i)' => Live(m, j)
    BY LiveAfterAck
  <2>2. CASE ctlq[m][j].phase = "flush"
    BY <1>1, <2>1, <2>2, LapSame DEF Elected
  <2>3. CASE ctlq[m][j].phase # "flush"
    BY <1>3, <2>1, <2>3 DEF Elected
  <2>4. QED
    BY <2>2, <2>3
<1>5. ASSUME NEW m \in Nodes
      PROVE  /\ \A id \in disk'[m].control : id[1] = "flush" => id[2] = Place(c, m)'
             /\ step'[m] \in {"count", "eof"} \/ Reported(disk'[m]) \/ (m = c /\ Pending(c)')
             /\ step'[m] = "elect" => m = c
             /\ ~eager' /\ step'[m] \in {"flush", "passed"} =>
                  Taken(m)' \cap Results \subseteq out'
  <2>1. disk'[m] = disk[m] /\ step'[m] = step[m] /\ Taken(m)' = Taken(m)
    BY <1>1 DEF Taken
  <2>2. \A id \in disk'[m].control : id[1] = "flush" => id[2] = Place(c, m)'
    BY <1>1, <2>1, LapSame DEF Elected
  <2>3. step'[m] \in {"count", "eof"} \/ Reported(disk'[m]) \/ (m = c /\ Pending(c)')
    BY <1>3, <2>1 DEF Elected
  <2>4. QED
    BY <1>1, <2>1, <2>2, <2>3 DEF Elected
<1>6. AllProcessed' /\ finals' \subseteq {Cardinality(Results)} /\ (finals' # {} => out' = Results)
  BY <1>1 DEF Elected, AllProcessed
<1>7. QED
  BY <1>4, <1>5, <1>6 DEF Elected, TokenId, Reported

LEMMA ElectedIdle ==
  ASSUME Typed, NodesOK, OutOK, HarmlessCrashes, NEW c \in Nodes, Elected(c),
         NEW n \in Nodes, AckMain(n) \/ Crash(n) \/ Restart(n)
  PROVE  Elected(c)'
<1>1. /\ OnlyAt(n) /\ UNCHANGED <<eager, ctlq, disk, out, finals>>
      /\ \/ step'[n] = step[n]
         \/ step[n] \notin {"count", "eof"} /\ step'[n] \in {"down", "free"}
  <2>1. CASE AckMain(n)
    BY <2>1, AckMainEffect DEF OnlyAt
  <2>2. CASE Crash(n)
    <3>1. step[n] \notin {"count", "eof"}
      BY <2>2, CrashEffect DEF HarmlessCrashes
    <3>2. QED
      BY <2>2, <3>1, CrashEffect
  <2>3. CASE Restart(n)
    BY <2>3, RestartEffect
  <2>4. QED
    BY <2>1, <2>2, <2>3
<1>2. /\ disk[n].main \subseteq disk'[n].main /\ disk[n].control \subseteq disk'[n].control
      /\ out \subseteq out' /\ out' \subseteq Results /\ Taken(n)' = Taken(n)
  BY <1>1 DEF OutOK, Taken
<1>3. step[n] = "count" => step'[n] = "count"
  BY <1>1
<1>4. \A id \in disk'[n].control : id[1] = "flush" => id[2] = Place(c, n)
  BY <1>1 DEF Elected
<1>5. n = c /\ Pending(c) => Pending(c)'
  <2>1. SUFFICES ASSUME n = c, Pending(c) PROVE Pending(c)'
    OBVIOUS
  <2>2. /\ step'[c] # "count" /\ (step'[c] = "eof" => Reported(disk[c]))
        /\ ctlq[c] # <<>>
    BY <1>1, <2>1 DEF Pending
  <2>3. QED
    BY <1>1, <2>1, <2>2, PendingStays
<1>6. /\ step'[n] \in {"count", "eof"} \/ Reported(disk'[n]) \/ (n = c /\ Pending(c)')
      /\ step'[n] = "elect" => n = c
      /\ ~eager /\ step'[n] \in {"flush", "passed"} => Taken(n)' \cap Results \subseteq out'
  BY <1>1, <1>2, <1>5 DEF Elected
<1>7. finals' \subseteq {Cardinality(Results)} /\ (finals' # {} => out' = Results)
  BY <1>1 DEF Elected
<1>8. QED
  BY <1>1, <1>2, <1>3, <1>4, <1>5, <1>6, <1>7, ElectedFrame

LEMMA ElectedStep ==
  ASSUME Typed, NodesOK, OutOK, StartOK, HarmlessCrashes, Flushing, RingOK,
         NEW n \in Nodes, Event(n)
  PROVE  RingOK'
<1>1. PICK c \in Nodes : Elected(c)
  BY DEF RingOK
<1>2. Elected(c)'
  <2>1. CASE HandleEof(n) \/ CountToken(n) \/ PassFlush(n)
    BY <1>1, <2>1, ElectedEof, ElectedCount, ElectedPass
  <2>2. CASE LogRingStart(n) \/ LogMain(n)
    BY <1>1, <2>2, ElectedMain
  <2>3. CASE FlushToken(n)
    BY <1>1, <2>3, ElectedFlush
  <2>4. CASE LogControl(n)
    BY <1>1, <2>4, ElectedLogControl
  <2>5. CASE AckControl(n)
    BY <1>1, <2>5, ElectedAck
  <2>6. CASE AckMain(n) \/ Crash(n) \/ Restart(n)
    BY <1>1, <2>6, ElectedIdle
  <2>7. CASE BufferData(n) \/ ForwardData(n)
    <3>1. /\ mainq[n] # <<>> /\ step[n] = "free" /\ Head(mainq[n]) \in Data
          /\ Head(mainq[n]) \notin mem[n].main
      BY <2>7, BufferDataEffect, ForwardDataEffect
    <3>2. Head(mainq[n]) = Eof
      BY <1>1, <3>1, CompleteHeads DEF Elected
    <3>3. QED
      BY <3>1, <3>2, ParametersAssumption
  <2>8. QED
    BY <2>1, <2>2, <2>3, <2>4, <2>5, <2>6, <2>7 DEF Event, Sends, Stays
<1>3. Flushing'
  BY FlushingStays
<1>4. QED
  BY <1>2, <1>3 DEF RingOK

-----------------------------------------------------------------------------
(* The invariant *)

LEMMA NodeInit == ASSUME Init, NEW n \in Nodes PROVE NodeOK(n)
<1>1. /\ mainq[n] \in SetToSeqs(Stream(n)) /\ step[n] = "free"
      /\ mem[n] = Blank /\ disk[n] = Blank
  BY DEF Init
<1>2. /\ Blank.main = {} /\ Blank.control = {} /\ Blank.buffer = {} /\ Blank.processed = 0
      /\ Blank.partial = 0 /\ Blank.sent = 0 /\ Blank.partialSent = 0
  BY DEF Blank
<1>3. HandlerOK(n)
  <2>1. \A i \in DOMAIN mainq[n] : mainq[n][i] \in Stream(n)
    BY <1>1, OrderedStream
  <2>2. QED
    BY <1>1, <1>2, <2>1 DEF HandlerOK
<1>4. LogOK(n)
  <2>1. Taken(n) = {} /\ Cardinality({}) = 0
    BY <1>1, <1>2, FS_EmptySet DEF Taken
  <2>2. Taken(n) \cap Results = {}
    BY <2>1
  <2>3. Cardinality(Taken(n)) = 0 /\ Cardinality(Taken(n) \cap Results) = 0
    BY <2>1, <2>2
  <2>4. QED
    BY <1>1, <1>2, <2>2, <2>3 DEF LogOK
<1>5. MemoryOK(n)
  BY <1>1, <1>2 DEF MemoryOK
<1>6. QED
  BY <1>3, <1>4, <1>5 DEF NodeOK

LEMMA Initial == Init => Inductive
<1> SUFFICES ASSUME Init PROVE Inductive
  OBVIOUS
<1>1. \A n \in Nodes : /\ step[n] = "free" /\ ctlq[n] = <<>> /\ disk[n].control = {}
                       /\ disk[n].partial = 0 /\ disk[n].partialSent = 0 /\ disk[n].main = {}
  BY DEF Init, Blank
<1>2. \A n \in Nodes : NodeOK(n)
  BY NodeInit
<1>3. OutOK
  BY <1>1 DEF Init, OutOK, Taken
<1>4. StartOK
  BY <1>1, RingNodes DEF StartOK, Unstarted
<1>5. ~Flushing
  <2>1. \A n \in Nodes : DOMAIN ctlq[n] = {}
    BY <1>1
  <2>2. QED
    BY <1>1, <2>1 DEF Flushing, FlushLogged
<1>6. Counting
  <2>1. \A n \in Nodes : DOMAIN ctlq[n] = {}
    BY <1>1
  <2>2. finals = {}
    BY DEF Init
  <2>3. QED
    BY <1>1, <2>1, <2>2 DEF Counting
<1>7. QED
  BY <1>2, <1>3, <1>4, <1>5, <1>6 DEF Inductive, RingOK

LEMMA StepInductive ==
  ASSUME HarmlessCrashes, Typed, Inductive, [Next]_vars
  PROVE  Inductive'
<1>1. NodesOK /\ OutOK /\ StartOK /\ RingOK
  BY DEF Inductive, NodesOK
<1>2. CASE Next
  <2>1. PICK n \in Nodes : Event(n)
    BY <1>2, NextIsEvent
  <2>2. NodesOK'
    BY <1>1, <2>1, NodesStep
  <2>3. OutOK'
    BY <1>1, <2>1, OutStep
  <2>4. StartOK'
    BY <1>1, <2>1, StartStep
  <2>5. RingOK'
    <3>1. CASE Flushing
      BY <1>1, <2>1, <3>1, ElectedStep
    <3>2. CASE ~Flushing
      BY <1>1, <2>1, <3>2, CountingStep DEF RingOK
    <3>3. QED
      BY <3>1, <3>2
  <2>6. QED
    BY <2>2, <2>3, <2>4, <2>5 DEF Inductive, NodesOK
<1>3. CASE UNCHANGED vars
  <2>1. UNCHANGED <<eager, mainq, ctlq, step, mem, disk, out, finals>>
    BY <1>3 DEF vars
  <2>2. NodesOK'
    BY <1>1, <2>1, NodeFrame DEF NodesOK
  <2>3. OutOK' /\ StartOK'
    <3>1. OutOK'
      BY <1>1, <2>1 DEF OutOK, Taken, Added
    <3>2. Issued' = Issued /\ Unstarted' = Unstarted
      BY <2>1 DEF Issued, Unstarted, TokenId
    <3>3. QED
      BY <1>1, <2>1, <3>1, <3>2 DEF StartOK, Repeatable, Reported
  <2>4. RingOK'
    <3>1. Flushing' = Flushing
      BY <2>1 DEF Flushing, FlushLogged
    <3>2. \A n \in Nodes : \A i \in DOMAIN ctlq[n] : Live(n, i)' = Live(n, i)
      BY <2>1 DEF Live, TokenId
    <3>3. ASSUME Counting PROVE Counting'
      <4>1. TotalReported' = TotalReported /\ TotalSentReported' = TotalSentReported
        BY <2>1 DEF TotalReported, TotalSentReported, SumOver, Reports, SentReports, Rec
      <4>2. \A n \in Nodes : \A i \in DOMAIN ctlq[n] : First(n, i)' = First(n, i)
        BY <2>1 DEF First, TokenId
      <4>3. QED
        BY <2>1, <3>2, <3>3, <4>1, <4>2 DEF Counting, TokenId
    <3>4. ASSUME NEW c \in Nodes, Elected(c) PROVE Elected(c)'
      <4>1. Pending(c)' = Pending(c)
        BY <2>1 DEF Pending, TokenId, Reported, Expected
      <4>2. \A n \in Nodes : /\ LapToken(c, n)' = LapToken(c, n)
                             /\ Before(c, n)' = Before(c, n) /\ Place(c, n)' = Place(c, n)
        BY <2>1, LapSame
      <4>3. QED
        BY <2>1, <3>2, <3>4, <4>1, <4>2 DEF Elected, TokenId, Reported, AllProcessed, Taken
    <3>5. QED
      BY <1>1, <3>1, <3>3, <3>4 DEF RingOK
  <2>5. QED
    BY <2>2, <2>3, <2>4 DEF Inductive, NodesOK
<1>4. QED
  BY <1>2, <1>3

\* Whatever the order of the messages, the handlers and the harmless crashes.
THEOREM InductiveInvariant == ASSUME HarmlessCrashes PROVE Spec => []Inductive
<1>1. Typed /\ Inductive /\ [Next]_vars => Inductive'
  BY StepInductive
<1>2. QED
  BY <1>1, Initial, TypedInvariant, PTL DEF Spec

-----------------------------------------------------------------------------
(* Safety *)

\* Results and the EOF leave the stage only when no message is missing.
THEOREM FlushOnlyWhenCompleteHolds ==
  ASSUME HarmlessCrashes PROVE Spec => []FlushOnlyWhenComplete
<1>1. Typed /\ Inductive => FlushOnlyWhenComplete
  <2>1. SUFFICES ASSUME Typed, Inductive,
                        (\E t \in AllTokens : t.coordinator # None) \/ finals # {}
                 PROVE  AllProcessed
    BY DEF FlushOnlyWhenComplete
  <2>2. Flushing
    <3>1. CASE finals # {}
      BY <2>1, <3>1 DEF Inductive, RingOK, Counting
    <3>2. CASE \E t \in AllTokens : t.coordinator # None
      <4>1. PICK n \in Nodes : \E i \in DOMAIN ctlq[n] : ctlq[n][i].coordinator # None
        BY <3>2 DEF AllTokens
      <4>2. \E i \in DOMAIN ctlq[n] : ctlq[n][i].phase = "flush"
        BY <2>1, <4>1 DEF Typed, Phased
      <4>3. QED
        BY <4>2 DEF Flushing
    <3>3. QED
      BY <2>1, <3>1, <3>2
  <2>3. QED
    BY <2>1, <2>2 DEF Inductive, RingOK, Elected
<1>2. QED
  BY <1>1, InductiveInvariant, TypedInvariant, PTL

\* The EOF of the stage announces all its results, and they are downstream.
THEOREM FinalCountsResultsHolds ==
  ASSUME HarmlessCrashes PROVE Spec => []FinalCountsResults
<1>1. Inductive => FinalCountsResults
  <2>1. SUFFICES ASSUME Inductive, NEW k \in finals
                 PROVE  k = Cardinality(out) /\ out = Results
    BY DEF FinalCountsResults
  <2>2. Flushing
    BY <2>1 DEF Inductive, RingOK, Counting
  <2>3. PICK c \in Nodes : Elected(c)
    BY <2>1, <2>2 DEF Inductive, RingOK
  <2>4. out = Results /\ k \in {Cardinality(Results)}
    BY <2>1, <2>3 DEF Elected
  <2>5. QED
    BY <2>4
<1>2. QED
  BY <1>1, InductiveInvariant, PTL

\* When all nodes have reported what they have, the sum is the whole stream.
LEMMA SumWhenComplete ==
  ASSUME Typed, NodesOK, AllProcessed, NEW f \in Counts,
         \A n \in Nodes : f[n] = disk[n].processed
  PROVE  SumOver(f) = Expected
<1>1. PICK A : A = [n \in Nodes |-> Taken(n)]
  OBVIOUS
<1>2. A \in [Nodes -> SUBSET Data] /\ \A n \in Nodes : A[n] = Taken(n) \cap Data
  BY <1>1 DEF Taken
<1>3. Disjoint(A)
  BY <1>2, DisjointStreams
<1>4. \A n \in Nodes : f[n] = Cardinality(A[n])
  <2>1. ASSUME NEW n \in Nodes PROVE f[n] = Cardinality(A[n])
    <3>1. A[n] = Taken(n)
      BY <1>1
    <3>2. QED
      BY <3>1, TakenTyped
  <2>2. QED
    BY <2>1
<1>5. IsFiniteSet(Data)
  BY ParametersAssumption
<1>6. SumOver(f) = Cardinality(UNION {A[n] : n \in Nodes})
  BY <1>2, <1>3, <1>4, <1>5, SumOfSizes
<1>7. UNION {A[n] : n \in Nodes} = Data
  BY <1>1, <1>2 DEF AllProcessed, Taken
<1>8. QED
  BY <1>6, <1>7 DEF Expected

\* A state in which one token is left to be handled, and no handler runs.
LEMMA LoneToken ==
  ASSUME Typed, NodesOK, RingOK, NEW n \in Nodes, NEW i \in DOMAIN ctlq[n],
         \A m \in Nodes : step[m] = "free",
         Live(n, i),
         \A m \in Nodes : \A j \in DOMAIN ctlq[m] : Live(m, j) =>
           TokenId(ctlq[m][j]) = TokenId(ctlq[n][i]) /\ m = n /\ j >= i
  PROVE  ctlq[n][i].total = SumOver(Reports)
<1>1. PICK t, f : t = ctlq[n][i] /\ f = Reports
  OBVIOUS
<1>2. /\ f \in Counts /\ \A m \in Nodes : f[m] = disk[m].partial
      /\ ctlq[n] \in Seq(Tokens) /\ t \in Tokens
  <2>1. \A m \in Nodes : mem[m].partial = disk[m].partial
    BY AtRest DEF NodesOK
  <2>2. f \in Counts
    BY <1>1, ReportsTyped
  <2>3. \A m \in Nodes : f[m] = disk[m].partial
    BY <1>1, <2>1 DEF Reports, Rec
  <2>4. ctlq[n] \in Seq(Tokens)
    BY NodeTyped
  <2>5. t \in Tokens
    BY <1>1, <2>4, ElementOfSeq, LenProperties
  <2>6. QED
    BY <2>2, <2>3, <2>4, <2>5
<1>3. CASE ~Flushing
  <2>1. First(n, i)
    <3>1. SUFFICES ASSUME NEW j \in DOMAIN ctlq[n], j < i, TokenId(ctlq[n][j]) = TokenId(ctlq[n][i])
                   PROVE  FALSE
      BY DEF First
    <3>2. Live(n, j)
      BY <3>1 DEF Live
    <3>3. j \in Int /\ i \in Int
      BY <1>2, LenProperties
    <3>4. QED
      BY <3>1, <3>2, <3>3
  <2>2. QED
    BY <1>3, <2>1 DEF RingOK, Counting, TotalReported
<1>4. CASE Flushing
  <2>1. PICK c \in Nodes : Elected(c)
    BY <1>4 DEF RingOK
  <2>2. AllProcessed /\ \A m \in Nodes : Reported(disk[m]) \/ (m = c /\ Pending(c))
    BY <2>1 DEF Elected
  <2>3. Pending(c) => Live(c, 1) /\ 1 \in DOMAIN ctlq[c] /\ Head(ctlq[c]) = ctlq[c][1]
    <3>1. SUFFICES ASSUME Pending(c)
                   PROVE  Live(c, 1) /\ 1 \in DOMAIN ctlq[c] /\ Head(ctlq[c]) = ctlq[c][1]
      OBVIOUS
    <3>2. Head(ctlq[c]) = ctlq[c][1] /\ 1 \in DOMAIN ctlq[c]
      BY <3>1, NodeTyped, HeadTyped DEF Pending
    <3>3. QED
      BY <3>1, <3>2 DEF Pending, Live
  <2>4. CASE ~Pending(c)
    <3>1. t.phase = "flush"
      BY <1>1, <2>1, <2>4 DEF Elected
    <3>2. t = LapToken(c, n)
      BY <1>1, <2>1, <3>1 DEF Elected
    <3>3. \A m \in Nodes : f[m] = disk[m].processed
      BY <1>2, <2>2, <2>4 DEF Reported
    <3>4. SumOver(f) = Expected
      BY <1>2, <2>2, <3>3, SumWhenComplete
    <3>5. QED
      BY <1>1, <3>2, <3>4 DEF LapToken
  <2>5. CASE Pending(c)
    <3>1. /\ n = c /\ TokenId(ctlq[c][1]) = TokenId(t) /\ 1 >= i
      BY <1>1, <2>3, <2>5
    <3>2. i \in Nat \ {0}
      BY <1>2, LenProperties
    <3>3. i = 1 /\ t = Head(ctlq[c])
      BY <1>1, <2>3, <2>5, <3>1, <3>2
    <3>4. t.total + (disk[c].processed - disk[c].partial) = Expected
      BY <2>5, <3>3 DEF Pending
    <3>5. PICK k, g : k = disk[c].processed /\ g = [f EXCEPT ![c] = k]
      OBVIOUS
    <3>6. k \in Nat /\ f[c] <= k /\ g \in Counts
      <4>1. k \in Nat /\ disk[c].partial <= k
        BY <3>5, NodeTyped DEF NodesOK, NodeOK, LogOK
      <4>2. QED
        BY <1>2, <3>5, <4>1 DEF Counts
    <3>7. \A m \in Nodes : g[m] = disk[m].processed
      BY <1>2, <2>2, <3>5 DEF Reported, Counts
    <3>8. SumOver(g) = Expected
      BY <2>2, <3>6, <3>7, SumWhenComplete
    <3>9. SumOver(g) = SumOver(f) + (k - f[c])
      BY <1>2, <3>5, <3>6, SumRaise
    <3>10. t.total \in Int /\ SumOver(f) \in Int /\ disk[c].partial \in Int
      BY <1>2, PairsFinite, NodeTyped DEF Tokens
    <3>11. f[c] = disk[c].partial /\ k = disk[c].processed /\ k \in Int
      BY <1>2, <3>5, <3>6
    <3>12. t.total = SumOver(f)
      BY <3>4, <3>8, <3>9, <3>10, <3>11
    <3>13. QED
      BY <1>1, <3>12
  <2>6. QED
    BY <2>4, <2>5
<1>5. QED
  BY <1>3, <1>4

\* However often a token is sent again or taken again, it carries each report
\* once.
THEOREM TokenCarriesReportsHolds ==
  ASSUME HarmlessCrashes PROVE Spec => []TokenCarriesReports
<1>1. Typed /\ Inductive => TokenCarriesReports
  <2>1. SUFFICES ASSUME Typed, Inductive, NEW u \in Unseen,
                        \A n \in Nodes : step[n] = "free",
                        \A v \in Unseen :
                          /\ TokenId(ctlq[v[1]][v[2]]) = TokenId(ctlq[u[1]][u[2]])
                          /\ v[1] = u[1] /\ v[2] >= u[2]
                 PROVE  ctlq[u[1]][u[2]].total = SumOver([n \in Nodes |-> mem[n].partial])
    BY DEF TokenCarriesReports
  <2>2. NodesOK /\ RingOK
    BY <2>1 DEF Inductive, NodesOK
  <2>3. \A n \in Nodes : mem[n].control = disk[n].control
    BY <2>1, <2>2, AtRest DEF NodesOK
  <2>4. \A n \in Nodes : \A i \in DOMAIN ctlq[n] : Live(n, i) <=> <<n, i>> \in Unseen
    BY <2>1, <2>3 DEF Live, Unseen
  <2>5. u[1] \in Nodes /\ u[2] \in DOMAIN ctlq[u[1]] /\ u = <<u[1], u[2]>>
    BY DEF Unseen
  <2>6. PICK n \in Nodes : n = u[1]
    BY <2>5
  <2>7. PICK i \in DOMAIN ctlq[n] : i = u[2]
    BY <2>5, <2>6
  <2>8. Live(n, i)
    BY <2>4, <2>5, <2>6, <2>7
  <2>9. \A m \in Nodes : \A j \in DOMAIN ctlq[m] : Live(m, j) =>
          TokenId(ctlq[m][j]) = TokenId(ctlq[n][i]) /\ m = n /\ j >= i
    <3>1. SUFFICES ASSUME NEW m \in Nodes, NEW j \in DOMAIN ctlq[m], Live(m, j)
                   PROVE  TokenId(ctlq[m][j]) = TokenId(ctlq[n][i]) /\ m = n /\ j >= i
      OBVIOUS
    <3>2. PICK v \in Unseen : v = <<m, j>>
      BY <2>4, <3>1
    <3>3. v[1] = m /\ v[2] = j
      BY <3>2
    <3>4. QED
      BY <2>1, <2>6, <2>7, <3>3
  <2>10. ctlq[n][i].total = SumOver(Reports)
    BY <2>1, <2>2, <2>8, <2>9, LoneToken
  <2>11. Reports = [m \in Nodes |-> mem[m].partial]
    BY <2>1 DEF Reports, Rec
  <2>12. QED
    BY <2>6, <2>7, <2>10, <2>11
<1>2. QED
  BY <1>1, InductiveInvariant, TypedInvariant, PTL

-----------------------------------------------------------------------------
(* Refinement *)

\* The messages of the stream that some node has logged.
AllTaken == UNION {disk[n].main \cap Data : n \in Nodes}

\* An EOF of the stage is sent at the end of it.
LEMMA ClosedStage ==
  Inductive /\ finals # {} =>
    finals = {Cardinality(Results)} /\ out = Results /\ AllTaken = Data
<1> SUFFICES ASSUME Inductive, finals # {}
             PROVE  finals = {Cardinality(Results)} /\ out = Results /\ AllTaken = Data
  OBVIOUS
<1>1. Flushing
  BY DEF Inductive, RingOK, Counting
<1>2. PICK c \in Nodes : Elected(c)
  BY <1>1 DEF Inductive, RingOK
<1>3. finals \subseteq {Cardinality(Results)} /\ out = Results /\ AllProcessed
  BY <1>2 DEF Elected
<1>4. QED
  BY <1>3 DEF AllProcessed, AllTaken

\* Only the record of a message changes which messages are taken.
LEMMA TakenFrame ==
  ASSUME Typed, NodesOK, NEW n \in Nodes, Event(n), ~LogMain(n)
  PROVE  AllTaken' = AllTaken
<1>1. \A m \in Nodes : disk'[m].main = disk[m].main
  <2>1. CASE LogRingStart(n) \/ LogControl(n)
    BY <2>1, NodeLogRingStart, NodeLogControl, EventEffect DEF NodesOK, Stays, OnlyAt
  <2>2. CASE ~LogRingStart(n) /\ ~LogControl(n)
    <3>1. UNCHANGED disk
      BY <2>2 DEF Event, Sends, Stays, HandleEof, CountToken, PassFlush, BufferData,
         ForwardData, FlushToken, Crash, Restart, AckMain, AckControl
    <3>2. QED
      BY <3>1
  <2>3. QED
    BY <2>1, <2>2
<1>2. QED
  BY <1>1 DEF AllTaken

\* The record of a message takes it, once.
LEMMA TakeOne ==
  ASSUME Typed, NodesOK, NEW n \in Nodes, LogMain(n)
  PROVE  [Stage!Next]_(Stage!vars)
<1>1. /\ mainq[n] # <<>> /\ Head(mainq[n]) \notin mem[n].main /\ step[n] # "down"
      /\ UNCHANGED <<eager, out, finals>>
  BY LogMainEffect
<1>2. PICK d : d = Head(mainq[n])
  OBVIOUS
<1>3. d \in Stream(n) /\ d \notin disk[n].main
  <2>1. d = mainq[n][1] /\ 1 \in DOMAIN mainq[n]
    BY <1>1, <1>2, NodeTyped, HeadTyped
  <2>2. QED
    BY <1>1, <1>2, <2>1 DEF NodesOK, NodeOK, HandlerOK, MemoryOK
<1>4. \A m \in Nodes : disk'[m].main = IF m = n THEN disk[m].main \cup {d} ELSE disk[m].main
  <2>1. disk'[n].main = disk[n].main \cup {d}
    BY <1>2, NodeLogMain DEF NodesOK
  <2>2. \A m \in Nodes \ {n} : disk'[m] = disk[m]
    BY LogMainEffect DEF OnlyAt
  <2>3. QED
    BY <2>1, <2>2
<1>5. AllTaken' = AllTaken \cup ({d} \cap Data)
  <2>1. ASSUME NEW x PROVE x \in AllTaken' <=> x \in AllTaken \cup ({d} \cap Data)
    <3>1. x \in AllTaken' <=> x \in Data /\ \E m \in Nodes : x \in disk'[m].main
      BY DEF AllTaken
    <3>2. x \in AllTaken <=> x \in Data /\ \E m \in Nodes : x \in disk[m].main
      BY DEF AllTaken
    <3>3. QED
      BY <1>4, <3>1, <3>2
  <2>2. QED
    BY <2>1
<1>6. CASE d \in Data
  <2>1. d \notin AllTaken
    <3>1. SUFFICES ASSUME NEW m \in Nodes, d \in Taken(m) PROVE FALSE
      BY DEF AllTaken, Taken
    <3>2. d \in DataOf(m)
      BY <3>1, TakenTyped
    <3>3. m = n
      BY <1>3, <1>6, <3>2, ParametersAssumption DEF DataOf, Stream
    <3>4. QED
      BY <1>3, <3>1, <3>3 DEF Taken
  <2>2. AllTaken' = AllTaken \cup {d}
    BY <1>5, <1>6
  <2>3. Stage!Take(d)
    BY <1>1, <2>1, <2>2 DEF Stage!Take, AllTaken
  <2>4. QED
    BY <1>1, <1>6, <2>3 DEF Stage!Next
<1>7. CASE d \notin Data
  <2>1. AllTaken' = AllTaken
    BY <1>5, <1>7
  <2>2. QED
    BY <1>1, <2>1 DEF Stage!vars, AllTaken
<1>8. QED
  BY <1>6, <1>7

\* A step that sends results sends new ones before the end, or none.
LEMMA EmitSome ==
  ASSUME Inductive, AllTaken' = AllTaken, UNCHANGED <<eager, finals>>,
         out \subseteq out', out' \subseteq Results, eager \/ AllTaken = Data
  PROVE  [Stage!Next]_(Stage!vars)
<1>1. CASE out' = out
  BY <1>1 DEF Stage!vars, AllTaken
<1>2. CASE out' # out
  <2>1. finals = {}
    BY <1>2, ClosedStage
  <2>2. PICK S : S = out' \ out
    OBVIOUS
  <2>3. S \in SUBSET Results /\ S \subseteq Results \ out /\ S # {} /\ out' = out \cup S
    BY <1>2, <2>2
  <2>4. Stage!Emit(S)
    BY <2>1, <2>3 DEF Stage!Emit, AllTaken
  <2>5. QED
    BY <2>3, <2>4 DEF Stage!Next
<1>3. QED
  BY <1>1, <1>2

LEMMA StageStep ==
  ASSUME HarmlessCrashes, Typed, Inductive, [Next]_vars
  PROVE  [Stage!Next]_(Stage!vars)
<1>1. NodesOK /\ OutOK /\ RingOK
  BY DEF Inductive, NodesOK
<1>2. CASE UNCHANGED vars
  BY <1>2 DEF vars, Stage!vars
<1>3. CASE Next
  <2>1. PICK n \in Nodes : Event(n)
    BY <1>3, NextIsEvent
  <2>2. CASE LogMain(n)
    BY <1>1, <2>2, TakeOne
  <2>3. CASE ForwardData(n) \/ FlushToken(n)
    <3>1. AllTaken' = AllTaken
      <4>1. ~LogMain(n)
        BY <2>3, LogMainEffect, ForwardDataEffect, FlushTokenEffect
      <4>2. QED
        BY <1>1, <2>1, <4>1, TakenFrame
    <3>2. out \subseteq out' /\ out' \subseteq Results
      BY <1>1, <2>1, OutGrows
    <3>3. UNCHANGED <<eager, finals>>
      BY <2>3, ForwardDataEffect, FlushTokenEffect
    <3>4. eager \/ AllTaken = Data
      <4>1. CASE ForwardData(n)
        BY <4>1, ForwardDataEffect
      <4>2. CASE FlushToken(n)
        <5>1. Flushing
          BY <1>1, <4>2, FlushNotLogged DEF NodesOK
        <5>2. AllProcessed
          BY <1>1, <5>1 DEF RingOK, Elected
        <5>3. QED
          BY <5>2 DEF AllProcessed, AllTaken
      <4>3. QED
        BY <2>3, <4>1, <4>2
    <3>5. QED
      BY <3>1, <3>2, <3>3, <3>4, EmitSome
  <2>4. CASE PassFlush(n)
    <3>1. Inductive'
      BY StepInductive
    <3>2. UNCHANGED <<eager, out>> /\ ~LogMain(n)
      BY <2>4, PassFlushEffect, LogMainEffect
    <3>3. AllTaken' = AllTaken
      BY <1>1, <2>1, <3>2, TakenFrame
    <3>4. CASE finals' = finals
      BY <3>2, <3>3, <3>4 DEF Stage!vars, AllTaken
    <3>5. CASE finals' # finals
      <4>1. finals' # {}
        BY <2>4, <3>5, PassFlushEffect
      <4>2. finals' = {Cardinality(Results)} /\ out' = Results /\ AllTaken' = Data
        <5>1. (Inductive /\ finals # {} =>
                 finals = {Cardinality(Results)} /\ out = Results /\ AllTaken = Data)'
          BY ClosedStage, PTL
        <5>2. QED
          BY <3>1, <4>1, <5>1
      <4>3. Stage!Cardinality(Results) = Cardinality(Results)
        BY DEF Cardinality, Stage!Cardinality
      <4>4. Stage!Announce
        BY <3>2, <3>3, <4>2, <4>3 DEF Stage!Announce, AllTaken
      <4>5. QED
        BY <3>2, <4>4 DEF Stage!Next
    <3>6. QED
      BY <3>4, <3>5
  <2>5. CASE ~(LogMain(n) \/ ForwardData(n) \/ FlushToken(n) \/ PassFlush(n))
    <3>1. AllTaken' = AllTaken
      BY <1>1, <2>1, <2>5, TakenFrame
    <3>2. UNCHANGED <<eager, out, finals>>
      BY <2>1, <2>5 DEF Event, Sends, Stays, HandleEof, CountToken, BufferData,
         LogRingStart, LogControl, Crash, Restart, AckMain, AckControl
    <3>3. QED
      BY <3>1, <3>2 DEF Stage!vars, AllTaken
  <2>6. QED
    BY <2>2, <2>3, <2>4, <2>5
<1>4. QED
  BY <1>2, <1>3

\* Seen from outside the ring is one stage: it takes each message once, sends
\* each result once, and its EOF comes last, with the number of results.
THEOREM Refinement == ASSUME HarmlessCrashes PROVE Spec => Stage!Spec
<1>1. Init => Stage!Init
  <2>1. SUFFICES ASSUME Init PROVE Stage!Init
    OBVIOUS
  <2>2. \A n \in Nodes : disk[n].main = {}
    BY <2>1 DEF Init, Blank
  <2>3. QED
    BY <2>1, <2>2, ParametersAssumption DEF Init, Stage!Init
<1>2. Typed /\ Inductive /\ [Next]_vars => [Stage!Next]_(Stage!vars)
  BY StageStep
<1>3. QED
  BY <1>1, <1>2, InductiveInvariant, TypedInvariant, PTL DEF Spec, Stage!Spec
=============================================================================
