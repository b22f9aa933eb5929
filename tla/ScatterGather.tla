--------------------------- MODULE ScatterGather ---------------------------
(***************************************************************************)
(* Query 4 as pure functions of the transfers: what each of its stages     *)
(* makes of the messages it holds when it flushes, and the answer that     *)
(* build_expected.py computes from the whole input at once.                *)
(*                                                                         *)
(* An account is a number; it stands for the pair of the bank's text and   *)
(* the account, which neither side normalises here.                        *)
(***************************************************************************)
EXTENDS Naturals, FiniteSets

CONSTANT MinRequired  \* MIN_REQUIRED_ACCOUNTS

ASSUME MinRequiredAssumption == MinRequired \in Nat \ {0}

\* An account as seen from one of its transfers: the other end of it, and
\* whether the account is the one that sent.
Edge(account, other, isSender) ==
  [account |-> account, other |-> other, isSender |-> isSender]

\* _create_edges_by_shard: each transfer, seen from both of its ends.
BothDirections(transfers) ==
  {Edge(t.from, t.to, TRUE) : t \in transfers} \cup
  {Edge(t.to, t.from, FALSE) : t \in transfers}

Others(edges, account, isSender) ==
  {e.other : e \in {x \in edges : x.account = account /\ x.isSender = isSender}}

\* The same transfer, seen from its other end.
Reversed(e) == Edge(e.other, e.account, ~e.isSender)

\* AccountFrequencyFilter: the transfers of the accounts that sent to, or
\* received from, enough others; each is handed to the other end.
FrequentEdges(edges) ==
  {Reversed(e) : e \in {x \in edges :
     Cardinality(Others(edges, x.account, x.isSender)) >= MinRequired}}

PathsWithCycles(edges) ==  \* mutant: the two ends may be one account
  UNION {[from : Others(edges, mid, FALSE), mid : {mid},
          to : Others(edges, mid, TRUE)] : mid \in {e.account : e \in edges}}

\* PathMapper: who sent to an account, then the account, then who got from it.
Paths(edges) ==
  {p \in UNION {[from : Others(edges, mid, FALSE), mid : {mid},
                 to : Others(edges, mid, TRUE)] : mid \in {e.account : e \in edges}} :
     p.from # p.to}

\* PathFrequencyFilter: the ends with enough accounts in between.
FrequentEnds(paths) ==
  UNION {{p.from, p.to} : p \in {x \in paths :
    Cardinality({y.mid : y \in {z \in paths : z.from = x.from /\ z.to = x.to}})
      >= MinRequired}}

-----------------------------------------------------------------------------
(* _build_query_4 *)

SentTo(transfers, account) == {t.to : t \in {x \in transfers : x.from = account}}

Scatters(transfers) ==
  {a \in {t.from : t \in transfers} :
     Cardinality(SentTo(transfers, a)) >= MinRequired}

\* The accounts between the scatter source a and the destination b.
Between(transfers, a, b) ==
  {m \in SentTo(transfers, a) : b \in SentTo(transfers, m)}

ExpectedAccounts(transfers) ==
  UNION {{ends[1], ends[2]} : ends \in
    {p \in Scatters(transfers) \X {t.to : t \in transfers} :
       /\ p[1] # p[2]
       /\ Cardinality(Between(transfers, p[1], p[2])) >= MinRequired}}
=============================================================================
