----------------------------- MODULE MCQueries -----------------------------
(* Instances of Queries for model checking. *)
EXTENDS Queries, TLC

Bank(number, zeros) == [number |-> number, zeros |-> zeros]

Tx(n, bank, from, to, amount, currency, period, format) ==
  [n |-> n, bank |-> bank, from |-> from, to |-> to, amount |-> amount,
   currency |-> currency, period |-> period, format |-> format]

\* Each way to cut a set of transactions into two batches.
InTwo(q, txs) ==
  {[query |-> q, batches |-> <<S, txs \ S>>] : S \in SUBSET txs}

\* 50.00 and 49.99 dollars, and 1 euro.
Q1Txs == {Tx(1, Bank(1, 0), 1, 2, 5000, "usd", 1, "ach"),
          Tx(2, Bank(1, 0), 1, 2, 4999, "usd", 0, "ach"),
          Tx(3, Bank(1, 0), 1, 2, 100, "euro", 1, "ach")}

\* A tie in bank 1, written with and without a leading zero; bank 2; bank 3.
Q2Txs == {Tx(1, Bank(1, 0), 2, 9, 700, "usd", 1, "ach"),
          Tx(2, Bank(1, 1), 1, 9, 700, "usd", 2, "ach"),
          Tx(3, Bank(2, 0), 3, 9, 300, "usd", 0, "ach"),
          Tx(4, Bank(3, 1), 4, 9, 100, "usd", 1, "ach"),
          Tx(5, Bank(2, 0), 3, 9, 900, "euro", 1, "ach")}

MCAccounts == {[bank |-> Bank(b[1], 0), name |-> b[2]] :
                 b \in {<<1, "north">>, <<2, "south">>, <<3, "east">>}}

\* An average of 300.00 dollars for wire and one of 1.00 for ach; none for cash.
Q3Txs == {Tx(1, Bank(1, 0), 1, 2, 20000, "usd", 1, "wire"),
          Tx(2, Bank(1, 0), 1, 2, 40000, "usd", 1, "wire"),
          Tx(3, Bank(1, 0), 1, 2, 100, "usd", 1, "ach"),
          Tx(4, Bank(1, 0), 1, 2, 299, "usd", 2, "wire"),
          Tx(5, Bank(1, 0), 1, 2, 300, "usd", 2, "wire"),
          Tx(6, Bank(1, 0), 1, 2, 2, "usd", 2, "ach"),
          Tx(7, Bank(1, 0), 1, 2, 1, "usd", 2, "cash")}

Transfer(e) == Tx(e[1] * 10 + e[2], Bank(1, 0), e[1], e[2], 100, "usd", 1, "ach")

\* From 1 to 4 through 2 and 3; transfers that add a cycle, a transfer to
\* oneself and a second destination; and inputs without an answer.
Scatter == {<<1, 2>>, <<1, 3>>, <<2, 4>>, <<3, 4>>}
More    == {<<4, 1>>, <<1, 1>>, <<2, 1>>, <<3, 1>>}

Q4Inputs ==
  {[query |-> "q4", batches |-> <<{Transfer(e) : e \in Scatter \ {<<3, 4>>}},
                                  {Transfer(e) : e \in S \cup {<<3, 4>>}}>>] :
     S \in SUBSET More}
  \cup {[query |-> "q4", batches |-> <<{Transfer(e) : e \in S}, {}>>] :
           S \in {Scatter \ {<<1, 3>>}, {<<1, 2>>, <<1, 3>>, <<2, 1>>, <<3, 1>>}}}

\* 100 yen, 1 euro, 1.00 and 0.99 dollars.
Q5Txs == {Tx(1, Bank(1, 0), 1, 2, 10000, "yen", 1, "ach"),
          Tx(2, Bank(1, 0), 1, 2, 100, "euro", 1, "wire"),
          Tx(3, Bank(1, 0), 1, 2, 100, "usd", 1, "ach"),
          Tx(4, Bank(1, 0), 1, 2, 99, "usd", 1, "wire"),
          Tx(5, Bank(1, 0), 1, 2, 99, "usd", 1, "cash"),
          Tx(6, Bank(1, 0), 1, 2, 99, "usd", 2, "ach")}

MCInputs == InTwo("q1", Q1Txs) \cup InTwo("q2", Q2Txs) \cup InTwo("q3", Q3Txs)
              \cup Q4Inputs \cup InTwo("q5", Q5Txs)

Q2Inputs == InTwo("q2", Q2Txs)

MCRates == [euro |-> 90, yen |-> 14000]

\* Two replicas of each stage, but one low_amount_reducer, as compose does.
TwoOfEach == [s \in Receivers |-> IF s \in {"client", "low_amount_reducer"} THEN 1 ELSE 2]

\* One bank_max_reducer for two bank_mappers.
OneReducer == [TwoOfEach EXCEPT !["bank_max_reducer"] = 1]
=============================================================================
