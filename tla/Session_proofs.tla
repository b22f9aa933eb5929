--------------------------- MODULE Session_proofs ---------------------------
(***************************************************************************)
(* Theorems about Session for every number of batches, results, sessions,  *)
(* faults and repeats.  The invariant has three parts beside the types:    *)
(* what is on the way between the client and its handlers (InFlight), who  *)
(* holds an answer that the broker gave out (Custody), and what the client *)
(* has counted (Books).                                                    *)
(***************************************************************************)
EXTENDS Session, FiniteSetTheorems, SequenceTheorems, TLAPS

IsBatch(m)     == m.type = "batch"
IsResultAck(m) == m.type = "result_ack"
IsAck(m)       == m.type = "ack"
IsAnswer(m)    == m.type = "answer"

\* A session that was not opened yet has left no trace.
Untouched(s) ==
  /\ conn[s] = "none" /\ handler[s] = "none"
  /\ up[s] = <<>> /\ down[s] = <<>> /\ pend[s] = <<>>

FreshSessions == \A s \in Sessions : s > cur => Untouched(s)

\* No handler is sent a message after the one that is pending.
NothingAhead ==
  \A s \in Sessions : \A i \in DOMAIN up[s] : IsBatch(up[s][i]) => up[s][i].ref <= pos

\* At most one batch or ack is on the way in a session, that of the pending
\* message, and the ack comes from a pipeline that has taken it.
OneInFlight(s) ==
  /\ \A i \in DOMAIN up[s] :
       IsBatch(up[s][i]) =>
         /\ awaiting /\ up[s][i].ref = pos
         /\ \A j \in DOMAIN up[s] : IsBatch(up[s][j]) => j = i
         /\ \A j \in DOMAIN down[s] : ~IsAck(down[s][j])
  /\ \A i \in DOMAIN down[s] :
       IsAck(down[s][i]) =>
         /\ awaiting /\ MessagesToSend[pos] \in taken
         /\ \A j \in DOMAIN down[s] : IsAck(down[s][j]) => j = i

InFlight ==
  /\ FreshSessions /\ NothingAhead
  /\ awaiting => pos <= Total
  /\ client = "active" => cur \in Sessions /\ OneInFlight(cur)

\* What a delivery id stands for is with the client, or was acked before.
Settled(s, d) == d \in DOMAIN pend[s] /\ (pend[s][d] = Acked \/ Got(pend[s][d]))

\* While a handler runs, the answers on their way are in its pending acks
\* under their delivery ids, and an ack on its way is for one the client has.
CustodyOf(s) ==
  /\ handler[s] \in {"none", "queued"} =>
       /\ \A i \in DOMAIN up[s] : ~IsResultAck(up[s][i])
       /\ \A i \in DOMAIN down[s] : ~IsAnswer(down[s][i])
  /\ s \notin Holding => pend[s] = <<>>
  /\ handler[s] = "running" =>
       /\ \A i \in DOMAIN up[s] : IsResultAck(up[s][i]) => Settled(s, up[s][i].ref)
       /\ \A i \in DOMAIN down[s] :
            IsAnswer(down[s][i]) =>
              /\ down[s][i].delivery_id \in DOMAIN pend[s]
              /\ pend[s][down[s][i].delivery_id] \in {down[s][i].of, Acked}
  /\ handler[s] = "deaf" => Reaped
  /\ s \in Holding => bound \/ Reaped

\* The queue is there for whoever gives an answer to it, until the reaper
\* deletes it.
Custody ==
  /\ \A s \in Sessions : CustodyOf(s)
  /\ taken # {} => bound \/ Reaped
  /\ reaper \in {"transaction", "account", "deleted"} => Reaped

\* What is on the way to the client was published.
Published ==
  /\ \A a \in Answers : rq[a] > 0 => a \in emitted
  /\ \A s \in Sessions :
       /\ \A d \in DOMAIN pend[s] : pend[s][d] \in emitted \cup {Acked}
       /\ \A i \in DOMAIN down[s] : IsAnswer(down[s][i]) => down[s][i].of \in emitted
  /\ \A e \in emitted \cap Ends : e.id = "cleanup" => Reaped

\* Each result is in the files once and counted once.
Counted ==
  /\ \A r \in Results : written[r] = IF r \in seen THEN 1 ELSE 0
  /\ \A q \in Queries : received[q] = Cardinality(seen \cap ResultsOf(q))

\* Each query is reported as ended on the count of an end, and the counts of
\* cleanups come after the reaper has given the client up.
Books ==
  /\ Counted /\ Published
  /\ \A q \in Queries : Reaped \/ expected[q] \subseteq {Cardinality(ResultsOf(q))}
  /\ \A q \in finalized : Reaped \/ ResultsOf(q) \subseteq seen

Inductive ==
  TypeOK /\ InFlight /\ PipelineHasPrefix /\ Custody /\ NoAnswerLost /\ Books

-----------------------------------------------------------------------------
(* Sequences, counts and the client's messages *)

LEMMA TailElements ==
  ASSUME NEW S, NEW q \in Seq(S), q # <<>>
  PROVE  /\ Head(q) \in S /\ Tail(q) \in Seq(S)
         /\ 1 \in DOMAIN q /\ Head(q) = q[1]
         /\ \A i \in DOMAIN Tail(q) :
              i \in Nat \ {0} /\ i + 1 \in DOMAIN q /\ Tail(q)[i] = q[i + 1]
<1>1. DOMAIN q = 1 .. Len(q) /\ Len(q) \in Nat \ {0}
  BY LenProperties, EmptySeq
<1>2. /\ Head(q) \in S /\ Tail(q) \in Seq(S) /\ Len(Tail(q)) = Len(q) - 1
      /\ \A i \in 1 .. Len(Tail(q)) : Tail(q)[i] = q[i + 1]
  BY HeadTailProperties
<1>3. DOMAIN Tail(q) = 1 .. Len(q) - 1
  BY <1>2, LenProperties
<1>4. QED
  BY <1>1, <1>2, <1>3

LEMMA AppendElements ==
  ASSUME NEW S, NEW q \in Seq(S), NEW m \in S
  PROVE  /\ Append(q, m) \in Seq(S)
         /\ DOMAIN q \subseteq DOMAIN Append(q, m)
         /\ Len(q) + 1 \in DOMAIN Append(q, m) /\ Len(q) + 1 \notin DOMAIN q
         /\ Append(q, m)[Len(q) + 1] = m
         /\ \A i \in DOMAIN q : Append(q, m)[i] = q[i]
         /\ \A i \in DOMAIN Append(q, m) : i \in DOMAIN q \/ i = Len(q) + 1
<1>1. DOMAIN q = 1 .. Len(q) /\ Len(q) \in Nat
  BY LenProperties
<1>2. Append(q, m) \in Seq(S) /\ Len(Append(q, m)) = Len(q) + 1
  OBVIOUS
<1>3. DOMAIN Append(q, m) = 1 .. Len(q) + 1
  BY <1>2, LenProperties
<1>4. /\ Append(q, m)[Len(q) + 1] = m
      /\ \A i \in 1 .. Len(q) : Append(q, m)[i] = q[i]
  OBVIOUS
<1>5. QED
  BY <1>1, <1>2, <1>3, <1>4

\* What the client has to send is a finite sequence with an EOF in it.
LEMMA MessagesType ==
  /\ MessagesToSend \in Seq(Roots) /\ Total \in Nat \ {0}
  /\ \A i \in 1 .. Total : MessagesToSend[i] \in Roots
  /\ Roots # {}
<1> DEFINE S == [key : {"transaction", "account"}, id : Int]
           T == Batches("transaction", Transactions) \o EofOf("transaction")
           A == Batches("account", Accounts)
<1>1. /\ Batches("transaction", Transactions) \in Seq(S)
      /\ Batches("account", Accounts) \in Seq(S)
  BY ParametersAssumption DEF Batches
<1>2. EofOf("transaction") \in Seq(S) /\ EofOf("account") \in Seq(S)
  BY DEF EofOf
<1>3. T \in Seq(S)
  BY <1>1, <1>2, ConcatProperties
<1>4. T \o A \in Seq(S)
  BY <1>1, <1>3, ConcatProperties
<1>5. /\ T \o A \o EofOf("account") \in Seq(S)
      /\ Len(T \o A \o EofOf("account")) = Len(T \o A) + Len(EofOf("account"))
  BY <1>2, <1>4, ConcatProperties
<1>6. Len(EofOf("account")) = 1 /\ Len(T \o A) \in Nat
  BY <1>4, LenProperties DEF EofOf
<1>7. MessagesToSend = T \o A \o EofOf("account")
  BY DEF MessagesToSend
<1> HIDE DEF S, T, A
<1>8. MessagesToSend \in Seq(S) /\ Total \in Nat \ {0}
  BY <1>5, <1>6, <1>7 DEF Total
<1>9. DOMAIN MessagesToSend = 1 .. Total
  BY <1>8, LenProperties DEF Total
<1>10. \A i \in 1 .. Total : MessagesToSend[i] \in Roots
  BY DEF Roots
<1>11. MessagesToSend \in Seq(Roots)
  BY <1>8, <1>9, <1>10 DEF Total
<1>12. QED
  BY <1>8, <1>10, <1>11

LEMMA ResultsFinite ==
  ASSUME NEW q, NEW S \in SUBSET Results
  PROVE  /\ IsFiniteSet(S \cap ResultsOf(q)) /\ IsFiniteSet(ResultsOf(q))
         /\ Cardinality(S \cap ResultsOf(q)) \in Nat /\ Cardinality(ResultsOf(q)) \in Nat
<1>1. IsFiniteSet(ResultsOf(q)) /\ IsFiniteSet(S \cap ResultsOf(q))
  BY ParametersAssumption, FS_Subset DEF ResultsOf
<1>2. QED
  BY <1>1, FS_CardinalityType

LEMMA AnnouncesType ==
  ASSUME NEW e \in Ends
  PROVE  Announces(e) \in Int /\ e.query \in Queries
<1>1. Cardinality(ResultsOf(e.query)) \in Nat
  BY ResultsFinite
<1>2. QED
  BY <1>1 DEF Announces, Ends

\* What is given back is a number, and not none of what a handler holds.
LEMMA GivenBackType ==
  ASSUME pend \in [Sessions -> Seq(Answers \cup {Acked})],
         NEW a, NEW ended \in SUBSET Sessions
  PROVE  /\ GivenBack(a, ended) \in Nat
         /\ \A s \in ended : Unacked(s, a) # {} => GivenBack(a, ended) > 0
<1> DEFINE Copies(s) == {s} \X Unacked(s, a)
           C == [s \in ended |-> Copies(s)]
           All == UNION {Copies(s) : s \in ended}
<1>1. IsFiniteSet(ended)
  <2>1. 1 \in Int /\ MaxFaults + 1 \in Int
    BY ParametersAssumption
  <2>2. IsFiniteSet(Sessions)
    BY <2>1, FS_Interval DEF Sessions
  <2>3. QED
    BY <2>2, FS_Subset
<1>2. ASSUME NEW s \in ended
      PROVE  IsFiniteSet(Copies(s))
  <2>1. DOMAIN pend[s] = 1 .. Len(pend[s]) /\ Len(pend[s]) \in Int /\ 1 \in Int
    BY LenProperties
  <2>2. IsFiniteSet(DOMAIN pend[s])
    BY <2>1, FS_Interval
  <2>3. IsFiniteSet(Unacked(s, a))
    BY <2>2, FS_Subset DEF Unacked
  <2>4. IsFiniteSet({s})
    BY FS_Singleton
  <2>5. QED
    BY <2>3, <2>4, FS_Product
<1>3. C \in Surjection(ended, {Copies(s) : s \in ended})
  BY DEF Surjection
<1>4. IsFiniteSet({Copies(s) : s \in ended})
  BY <1>1, <1>3, FS_Surjection
<1>5. IsFiniteSet(All)
  BY <1>2, <1>4, FS_UNION
<1>6. GivenBack(a, ended) = Cardinality(All)
  BY DEF GivenBack
<1>7. ASSUME NEW s \in ended, Unacked(s, a) # {}
      PROVE  All # {}
  <2>1. PICK d : d \in Unacked(s, a)
    BY <1>7
  <2>2. <<s, d>> \in Copies(s)
    BY <2>1
  <2>3. QED
    BY <2>2
<1> HIDE DEF All
<1>8. Cardinality(All) \in Nat /\ (All # {} => Cardinality(All) # 0)
  BY <1>5, FS_CardinalityType, FS_EmptySet
<1>9. QED
  BY <1>6, <1>7, <1>8

-----------------------------------------------------------------------------
(* Types *)

LEMMA TypeInit == Init => TypeOK
<1> SUFFICES ASSUME Init PROVE TypeOK
  OBVIOUS
<1>1. 1 \in 1 .. Total + 1
  BY MessagesType
<1>2. 0 \in 0 .. MaxFaults + 1
  BY ParametersAssumption
<1>3. /\ <<>> \in Seq(UpMsgs) /\ <<>> \in Seq(DownMsgs)
      /\ <<>> \in Seq(Answers \cup {Acked})
  BY EmptySeq
<1>4. QED
  BY <1>1, <1>2, <1>3 DEF Init, TypeOK

\* The session of a client that is in one.
LEMMA CurrentSession ==
  ASSUME TypeOK, InFlight, client = "active"
  PROVE  cur \in Sessions
BY DEF InFlight

\* Head of what is up or down, by its kind.
LEMMA UpHead ==
  ASSUME TypeOK, NEW s \in Sessions, up[s] # <<>>
  PROVE  /\ Head(up[s]) \in UpMsgs
         /\ Head(up[s]).type = "batch" =>
              Head(up[s]).ref \in 1 .. Total /\ MessagesToSend[Head(up[s]).ref] \in Roots
         /\ Tail(up[s]) \in Seq(UpMsgs)
<1>1. up[s] \in Seq(UpMsgs)
  BY DEF TypeOK
<1>2. Head(up[s]) \in UpMsgs /\ Tail(up[s]) \in Seq(UpMsgs)
  BY <1>1, TailElements
<1>3. Head(up[s]).type = "batch" => Head(up[s]).ref \in 1 .. Total
  BY <1>2 DEF UpMsgs
<1>4. QED
  BY <1>2, <1>3, MessagesType

LEMMA DownHead ==
  ASSUME TypeOK, NEW s \in Sessions, down[s] # <<>>
  PROVE  /\ Tail(down[s]) \in Seq(DownMsgs)
         /\ Head(down[s]).type = "answer" =>
              Head(down[s]).of \in Answers /\ Head(down[s]).delivery_id \in Nat \ {0}
<1>1. down[s] \in Seq(DownMsgs)
  BY DEF TypeOK
<1>2. Head(down[s]) \in DownMsgs /\ Tail(down[s]) \in Seq(DownMsgs)
  BY <1>1, TailElements
<1>3. QED
  BY <1>2 DEF DownMsgs

LEMMA TypeTakeResult ==
  ASSUME TypeOK, NEW r \in Results, TakeResult(r)
  PROVE  /\ seen' \subseteq Results /\ written' \in [Results -> Nat]
         /\ received' \in [Queries -> Nat]
<1>1. r.query \in Queries
  BY DEF Queries
<1>2. CASE r \in seen
  BY <1>2 DEF TakeResult, TypeOK
<1>3. CASE r \notin seen
  <2>1. /\ seen' = seen \cup {r} /\ written' = [written EXCEPT ![r] = @ + 1]
        /\ received' = [received EXCEPT ![r.query] = @ + 1]
    BY <1>3 DEF TakeResult
  <2>2. written[r] \in Nat /\ received[r.query] \in Nat
    BY <1>1 DEF TypeOK
  <2>3. QED
    BY <1>1, <2>1, <2>2 DEF TypeOK
<1>4. QED
  BY <1>2, <1>3

\* The acks and answers that the client takes.
LEMMA TypeClientReceive ==
  ASSUME TypeOK, InFlight, ClientReceive
  PROVE  TypeOK'
<1>1. cur \in Sessions /\ client = "active" /\ down[cur] # <<>>
  BY CurrentSession DEF ClientReceive
<1> DEFINE m == Head(down[cur])
<1>2. /\ Tail(down[cur]) \in Seq(DownMsgs)
      /\ m.type = "answer" => m.of \in Answers /\ m.delivery_id \in Nat \ {0}
  BY <1>1, DownHead
<1>3. down' \in [Sessions -> Seq(DownMsgs)]
  BY <1>2 DEF ClientReceive, TypeOK
<1>4. /\ UNCHANGED <<client, cur, conn, handler, pend>>
      /\ UNCHANGED <<gateway, entry, expired, reaper, rq, bound, taken, emitted,
                     cleaned, repeats, faults>>
  BY DEF ClientReceive, gvars, bvars, pvars
<1>5. CASE m.type = "ack" /\ HandleAck
  <2>1. /\ awaiting' = FALSE /\ pos' \in 1 .. Total + 1
        /\ UNCHANGED <<seen, written, received, expected, finalized, up>>
    BY <1>5, MessagesType DEF HandleAck, TypeOK, InFlight
  <2>2. QED
    BY <1>3, <1>4, <2>1 DEF TypeOK
<1>6. CASE m.type = "answer"
  <2>1. up' \in [Sessions -> Seq(UpMsgs)]
    <3>1. [type |-> "result_ack", ref |-> m.delivery_id] \in UpMsgs
      BY <1>2, <1>6 DEF UpMsgs
    <3>2. Append(up[cur], [type |-> "result_ack", ref |-> m.delivery_id]) \in Seq(UpMsgs)
      BY <1>1, <3>1, AppendElements DEF TypeOK
    <3>3. AckResult(m.delivery_id) => up' \in [Sessions -> Seq(UpMsgs)]
      BY <3>2 DEF AckResult, TypeOK
    <3>4. QED
      BY <1>6, <3>3 DEF ClientReceive, HandleQueryResult, HandleQueryEnd
  <2>2. CASE m.of \in Results /\ HandleQueryResult(m)
    <3>1. m.of.query \in Queries
      BY <2>2 DEF Queries
    <3>2. seen' \subseteq Results /\ written' \in [Results -> Nat]
          /\ received' \in [Queries -> Nat]
      BY <2>2, TypeTakeResult DEF HandleQueryResult
    <3>3. finalized' \subseteq Queries
      BY <2>2, <3>1 DEF HandleQueryResult, MaybeFinalize, TypeOK
    <3>4. UNCHANGED <<pos, awaiting, expected>>
      BY <2>2 DEF HandleQueryResult
    <3>5. QED
      BY <1>3, <1>4, <2>1, <3>2, <3>3, <3>4 DEF TypeOK
  <2>3. CASE m.of \in Ends /\ HandleQueryEnd(m)
    <3>1. m.of.query \in Queries /\ Announces(m.of) \in Int
      BY <2>3, AnnouncesType
    <3>2. expected' \in [Queries -> SUBSET Int] /\ finalized' \subseteq Queries
      BY <2>3, <3>1 DEF HandleQueryEnd, MaybeFinalize, TypeOK
    <3>3. UNCHANGED <<pos, awaiting, seen, written, received>>
      BY <2>3 DEF HandleQueryEnd
    <3>4. QED
      BY <1>3, <1>4, <2>1, <3>2, <3>3 DEF TypeOK
  <2>4. QED
    BY <1>6, <2>2, <2>3 DEF ClientReceive
<1>7. QED
  BY <1>5, <1>6 DEF ClientReceive

LEMMA TypeHandlerReceive ==
  ASSUME TypeOK, NEW s \in Sessions, HandlerReceive(s)
  PROVE  TypeOK'
<1> DEFINE m == Head(up[s])
<1>1. /\ Tail(up[s]) \in Seq(UpMsgs)
      /\ m.type = "batch" => MessagesToSend[m.ref] \in Roots
  BY UpHead DEF HandlerReceive
<1>2. up' \in [Sessions -> Seq(UpMsgs)]
  BY <1>1 DEF HandlerReceive, TypeOK
<1>3. /\ UNCHANGED <<client, cur, pos, awaiting, seen, written, received, expected,
                     finalized, conn, handler>>
      /\ UNCHANGED <<gateway, entry, reaper, rq, bound, emitted, cleaned, repeats, faults>>
      /\ expired' = FALSE
  BY DEF HandlerReceive, Touch, cvars, bvars
<1>4. CASE m.type = "batch" /\ ForwardBatch(s, m)
  <2>1. [type |-> "ack"] \in DownMsgs
    BY DEF DownMsgs
  <2>2. Append(down[s], [type |-> "ack"]) \in Seq(DownMsgs)
    BY <2>1, AppendElements DEF TypeOK
  <2>3. down' \in [Sessions -> Seq(DownMsgs)]
    BY <1>4, <2>2 DEF ForwardBatch, TypeOK
  <2>4. taken' \subseteq Roots /\ pend' = pend
    BY <1>1, <1>4 DEF ForwardBatch, TypeOK
  <2>5. QED
    BY <1>2, <1>3, <2>3, <2>4 DEF TypeOK
<1>5. CASE OnResultAck(s, m)
  <2> DEFINE q == pend[s]
  <2>1. q \in Seq(Answers \cup {Acked})
    BY DEF TypeOK
  <2>2. [q EXCEPT ![m.ref] = Acked] \in Seq(Answers \cup {Acked})
    <3>1. DOMAIN q = 1 .. Len(q)
      BY <2>1, LenProperties
    <3>2. CASE m.ref \in DOMAIN q
      BY <2>1, <3>1, <3>2, ExceptSeq
    <3>3. CASE m.ref \notin DOMAIN q
      <4>1. [q EXCEPT ![m.ref] = Acked] = q
        BY <2>1, <3>3
      <4>2. QED
        BY <2>1, <4>1
    <3>4. QED
      BY <3>2, <3>3
  <2>3. pend' = [pend EXCEPT ![s] = [q EXCEPT ![m.ref] = Acked]]
    BY <1>5 DEF OnResultAck, TypeOK
  <2>4. pend' \in [Sessions -> Seq(Answers \cup {Acked})] /\ UNCHANGED <<taken, down>>
    BY <1>5, <2>2, <2>3 DEF OnResultAck, TypeOK
  <2>5. QED
    BY <1>2, <1>3, <2>4 DEF TypeOK
<1>6. QED
  BY <1>4, <1>5 DEF HandlerReceive

LEMMA TypeRequeue ==
  ASSUME TypeOK, NEW ended \in SUBSET Sessions, Requeue(ended)
  PROVE  rq' \in [Answers -> Nat]
<1>1. \A a : GivenBack(a, ended) \in Nat
  BY GivenBackType DEF TypeOK
<1>2. QED
  BY <1>1 DEF Requeue, TypeOK

LEMMA TypeStep == TypeOK /\ InFlight /\ [Next]_vars => TypeOK'
<1> SUFFICES ASSUME TypeOK, InFlight, [Next]_vars PROVE TypeOK'
  OBVIOUS
<1> USE DEF cvars, svars, gvars, bvars, pvars
<1>1. CASE UNCHANGED vars
  BY <1>1 DEF TypeOK, vars
<1>2. CASE Connect
  <2>1. cur' \in 0 .. MaxFaults + 1
    BY <1>2, ParametersAssumption DEF Connect, Sessions
  <2>2. QED
    BY <1>2, <2>1 DEF Connect, TypeOK
<1>3. CASE ClientSend
  <2>1. cur \in Sessions /\ pos \in 1 .. Total
    BY <1>3, CurrentSession, MessagesType DEF ClientSend, TypeOK
  <2>2. [type |-> "batch", ref |-> pos] \in UpMsgs
    BY <2>1 DEF UpMsgs
  <2>3. Append(up[cur], [type |-> "batch", ref |-> pos]) \in Seq(UpMsgs)
    BY <2>1, <2>2, AppendElements DEF TypeOK
  <2>4. up' \in [Sessions -> Seq(UpMsgs)]
    BY <1>3, <2>3 DEF ClientSend, TypeOK
  <2>5. QED
    BY <1>3, <2>4 DEF ClientSend, TypeOK
<1>4. CASE ClientReceive
  BY <1>4, TypeClientReceive
<1>5. ASSUME NEW next \in {"idle", "done", "dead"}, LeaveSession(next)
      PROVE  TypeOK'
  <2>1. <<>> \in Seq(DownMsgs)
    BY EmptySeq
  <2>2. QED
    BY <1>5, <2>1 DEF LeaveSession, KeepPending, TypeOK
<1>6. CASE \E s \in Sessions : Break(s)
  BY <1>6 DEF Break, TypeOK
<1>7. CASE \E s \in Sessions : StartHandler(s)
  BY <1>7 DEF StartHandler, RegistryConnect, TypeOK
<1>8. ASSUME NEW s \in Sessions, HandlerReceive(s)
      PROVE  TypeOK'
  BY <1>8, TypeHandlerReceive
<1>9. ASSUME NEW s \in Sessions, HandlerEnd(s)
      PROVE  TypeOK'
  <2>1. <<>> \in Seq(UpMsgs)
    BY EmptySeq
  <2>2. QED
    BY <1>9, <2>1 DEF HandlerEnd, RegistryDisconnect, TypeOK
<1>10. ASSUME NEW s \in Sessions, HandlerClosed(s)
       PROVE  TypeOK'
  <2>1. <<>> \in Seq(Answers \cup {Acked})
    BY EmptySeq
  <2>2. rq' \in [Answers -> Nat]
    BY <1>10, TypeRequeue DEF HandlerClosed
  <2>3. QED
    BY <1>10, <2>1, <2>2 DEF HandlerClosed, TypeOK
<1>11. ASSUME NEW s \in Sessions, NEW a \in Answers, Deliver(s, a)
       PROVE  TypeOK'
  <2>1. pend[s] \in Seq(Answers \cup {Acked}) /\ Len(pend[s]) \in Nat
    BY LenProperties DEF TypeOK
  <2>2. Append(pend[s], a) \in Seq(Answers \cup {Acked})
    BY <2>1, AppendElements
  <2>3. [type |-> "answer", of |-> a, delivery_id |-> DeliveryId(s)] \in DownMsgs
    BY <2>1 DEF DownMsgs, DeliveryId
  <2>4. Append(down[s], [type |-> "answer", of |-> a, delivery_id |-> DeliveryId(s)])
          \in Seq(DownMsgs)
    BY <2>3, AppendElements DEF TypeOK
  <2>5. down' \in [Sessions -> Seq(DownMsgs)]
    BY <1>11, <2>4 DEF Deliver, TypeOK
  <2>6. pend' \in [Sessions -> Seq(Answers \cup {Acked})]
    BY <1>11, <2>2 DEF Deliver, TypeOK
  <2>7. rq' \in [Answers -> Nat]
    BY <1>11 DEF Deliver, TypeOK
  <2>8. QED
    BY <1>11, <2>5, <2>6, <2>7 DEF Deliver, TypeOK
<1>12. CASE PipelineStep \/ \E a \in Answers : Repeat(a)
  <2>1. /\ \A r \in Results : r \in Answers
        /\ \A q \in Queries : \A i \in {"end", "cleanup"} : [query |-> q, id |-> i] \in Answers
    BY DEF Answers, Ends
  <2>2. \E a \in Answers : Publish(a)
    BY <1>12, <2>1 DEF PipelineStep, EmitResult, EmitEnd, EmitCleanupEnd, Repeat
  <2>3. rq' \in [Answers -> Nat]
    BY <2>2 DEF Publish, TypeOK
  <2>4. emitted' \subseteq Answers /\ repeats' \in Nat
    <3>1. CASE \E r \in Results : EmitResult(r)
      BY <2>1, <3>1 DEF EmitResult, TypeOK
    <3>2. CASE \E q \in Queries : EmitEnd(q)
      BY <2>1, <3>2 DEF EmitEnd, TypeOK
    <3>3. CASE \E q \in Queries : EmitCleanupEnd(q)
      BY <2>1, <3>3 DEF EmitCleanupEnd, TypeOK
    <3>4. CASE \E a \in Answers : Repeat(a)
      BY <3>4 DEF Repeat, TypeOK
    <3>5. QED
      BY <1>12, <3>1, <3>2, <3>3, <3>4 DEF PipelineStep
  <2>5. UNCHANGED <<cvars, svars, gvars, bound, taken, cleaned, faults>>
    BY <1>12 DEF PipelineStep, EmitResult, EmitEnd, EmitCleanupEnd, Repeat
  <2>6. QED
    BY <2>3, <2>4, <2>5 DEF TypeOK
<1>13. CASE Expire \/ Scan \/ RemoveEntry \/ GatewayRestart
  BY <1>13 DEF Expire, Scan, RemoveEntry, GatewayRestart, Load, TypeOK
<1>14. CASE ForwardCleanup("found", "transaction") \/ ForwardCleanup("transaction", "account")
  BY <1>14 DEF ForwardCleanup, TypeOK
<1>15. CASE DeleteQueue
  <2>1. ASSUME NEW s \in Sessions
        PROVE  [d \in DOMAIN pend[s] |-> Acked] \in Seq(Answers \cup {Acked})
    <3>1. DOMAIN pend[s] = 1 .. Len(pend[s]) /\ Len(pend[s]) \in Nat
      BY LenProperties DEF TypeOK
    <3>2. QED
      BY <3>1
  <2>2. pend' \in [Sessions -> Seq(Answers \cup {Acked})]
    BY <1>15, <2>1 DEF DeleteQueue
  <2>3. QED
    BY <1>15, <2>2 DEF DeleteQueue, TypeOK
<1>16. CASE GatewayCrash
  <2>1. <<>> \in Seq(Answers \cup {Acked}) /\ <<>> \in Seq(UpMsgs)
    BY EmptySeq
  <2>2. rq' \in [Answers -> Nat]
    BY <1>16, TypeRequeue DEF GatewayCrash, Holding
  <2>3. QED
    BY <1>16, <2>1, <2>2 DEF GatewayCrash, TypeOK
<1>17. QED
  BY <1>1, <1>2, <1>3, <1>4, <1>5, <1>6, <1>7, <1>8, <1>9, <1>10, <1>11, <1>12,
     <1>13, <1>14, <1>15, <1>16
  DEF Next, ClientSteps, ClientFinish, ClientAbort, ClientDies, HandlerStep,
      DeliverSome, ReaperStep

-----------------------------------------------------------------------------
(* Batches and acks on their way *)

\* The actions that leave batches, acks and what was taken as they are.
LEMMA LinkUnchanged ==
  ASSUME InFlight, UNCHANGED <<client, cur, pos, awaiting, up, down, taken>>
  PROVE  /\ NothingAhead'
         /\ (awaiting => pos <= Total)'
         /\ (client = "active" => cur \in Sessions /\ OneInFlight(cur))'
BY DEF InFlight, NothingAhead, OneInFlight

\* A session that something happens in was opened.
LEMMA Opened ==
  ASSUME TypeOK, FreshSessions, NEW s \in Sessions,
         conn[s] # "none" \/ handler[s] # "none"
  PROVE  s <= cur
BY ParametersAssumption DEF FreshSessions, Untouched, Sessions, TypeOK

\* What happens in sessions that were opened leaves the others untouched.
LEMMA FreshStep ==
  ASSUME FreshSessions, cur' = cur,
         \A s \in Sessions : s > cur =>
           /\ conn'[s] = conn[s] /\ handler'[s] = handler[s] /\ up'[s] = up[s]
           /\ down'[s] = down[s] /\ pend'[s] = pend[s]
  PROVE  FreshSessions'
BY DEF FreshSessions, Untouched

LEMMA InFlightInit == Init => InFlight /\ PipelineHasPrefix
<1> SUFFICES ASSUME Init PROVE InFlight /\ PipelineHasPrefix
  OBVIOUS
<1>1. FreshSessions /\ NothingAhead /\ client # "active" /\ ~awaiting
  BY DEF Init, FreshSessions, Untouched, NothingAhead
<1>2. taken = {MessagesToSend[i] : i \in 1 .. pos - 1}
  BY DEF Init
<1>3. QED
  BY <1>1, <1>2 DEF InFlight, PipelineHasPrefix

LEMMA InFlightConnect ==
  ASSUME TypeOK, InFlight, Connect
  PROVE  InFlight'
<1>1. /\ cur' = cur + 1 /\ cur' \in Sessions /\ cur \in Int
      /\ UNCHANGED <<pos, up, down, pend>> /\ ~awaiting'
      /\ \A s \in Sessions : s # cur' => conn'[s] = conn[s] /\ handler'[s] = handler[s]
  BY DEF Connect, TypeOK
<1>2. Untouched(cur')
  BY <1>1 DEF InFlight, FreshSessions
<1>3. FreshSessions'
  BY <1>1, ParametersAssumption DEF InFlight, FreshSessions, Untouched, Sessions
<1>4. NothingAhead'
  BY <1>1 DEF InFlight, NothingAhead
<1>5. up'[cur'] = <<>> /\ down'[cur'] = <<>>
  BY <1>1, <1>2 DEF Untouched
<1>6. OneInFlight(cur)'
  BY <1>5 DEF OneInFlight
<1>7. QED
  BY <1>1, <1>3, <1>4, <1>6 DEF InFlight

LEMMA InFlightClientSend ==
  ASSUME TypeOK, InFlight, ClientSend
  PROVE  InFlight'
<1> DEFINE m == [type |-> "batch", ref |-> pos]
<1>1. /\ cur \in Sessions /\ client = "active" /\ ~awaiting /\ awaiting'
      /\ pos \in 1 .. Total /\ conn[cur] = "open"
      /\ up' = [up EXCEPT ![cur] = Append(@, m)]
      /\ UNCHANGED <<client, cur, pos, conn, down, handler, pend, taken>>
  BY MessagesType DEF ClientSend, TypeOK, InFlight, pvars
<1>2. up[cur] \in Seq(UpMsgs) /\ m \in UpMsgs
  BY <1>1 DEF TypeOK, UpMsgs
<1>3. /\ up'[cur] = Append(up[cur], m)
      /\ \A s \in Sessions : s # cur => up'[s] = up[s]
  BY <1>1 DEF TypeOK
<1>4. /\ DOMAIN up[cur] \subseteq DOMAIN up'[cur]
      /\ up'[cur][Len(up[cur]) + 1] = m
      /\ \A i \in DOMAIN up[cur] : up'[cur][i] = up[cur][i]
      /\ \A i \in DOMAIN up'[cur] : i \in DOMAIN up[cur] \/ i = Len(up[cur]) + 1
  BY <1>2, <1>3, AppendElements
<1>5. m.ref = pos /\ IsBatch(m)
  BY DEF IsBatch
<1> HIDE DEF m
<1>6. /\ \A i \in DOMAIN up[cur] : ~IsBatch(up[cur][i])
      /\ \A i \in DOMAIN down[cur] : ~IsAck(down[cur][i])
  BY <1>1 DEF InFlight, OneInFlight
<1>7. OneInFlight(cur)'
  BY <1>1, <1>4, <1>5, <1>6 DEF OneInFlight, IsBatch, IsAck
<1>8. NothingAhead'
  <2> SUFFICES ASSUME NEW s \in Sessions, NEW i \in DOMAIN up'[s], IsBatch(up'[s][i])
               PROVE  up'[s][i].ref <= pos'
    BY DEF NothingAhead, IsBatch
  <2>1. CASE s # cur
    BY <1>1, <1>3, <2>1 DEF InFlight, NothingAhead
  <2>2. CASE s = cur
    BY <1>1, <1>4, <1>5, <1>6, <2>2
  <2>3. QED
    BY <2>1, <2>2
<1>9. FreshSessions'
  <2>1. FreshSessions
    BY DEF InFlight
  <2>2. QED
    BY <1>1, <1>3, <2>1, FreshStep, ParametersAssumption DEF Sessions
<1>10. QED
  BY <1>1, <1>7, <1>8, <1>9 DEF InFlight

LEMMA InFlightClientReceive ==
  ASSUME TypeOK, InFlight, PipelineHasPrefix, ClientReceive
  PROVE  InFlight' /\ PipelineHasPrefix'
<1>1. /\ cur \in Sessions /\ client = "active" /\ down[cur] # <<>> /\ OneInFlight(cur)
      /\ down' = [down EXCEPT ![cur] = Tail(@)]
      /\ UNCHANGED <<client, cur, conn, handler, pend, taken>>
  BY DEF ClientReceive, InFlight, pvars
<1> DEFINE m == Head(down[cur])
<1>2. down[cur] \in Seq(DownMsgs)
  BY <1>1 DEF TypeOK
<1>3. /\ 1 \in DOMAIN down[cur] /\ m = down[cur][1]
      /\ \A i \in DOMAIN down'[cur] :
           i \in Nat \ {0} /\ i + 1 \in DOMAIN down[cur] /\ down'[cur][i] = down[cur][i + 1]
      /\ \A s \in Sessions : s # cur => down'[s] = down[s]
  BY <1>1, <1>2, TailElements DEF TypeOK
<1>4. (m.type = "ack" /\ HandleAck) \/ (m.type = "answer" /\ AckResult(m.delivery_id)
         /\ UNCHANGED <<pos, awaiting>>)
  BY DEF ClientReceive, HandleQueryResult, HandleQueryEnd
<1> HIDE DEF m
<1>5. CASE m.type = "ack" /\ HandleAck
  <2>1. /\ awaiting /\ MessagesToSend[pos] \in taken
        /\ \A j \in DOMAIN down[cur] : IsAck(down[cur][j]) => j = 1
        /\ \A i \in DOMAIN up[cur] : ~IsBatch(up[cur][i])
    BY <1>1, <1>3, <1>5 DEF OneInFlight, IsAck
  <2>2. pos' = pos + 1 /\ ~awaiting' /\ UNCHANGED up /\ pos \in Nat \ {0}
    BY <1>5, <2>1, MessagesType DEF HandleAck, TypeOK
  <2>3. \A i \in DOMAIN down'[cur] : ~IsAck(down'[cur][i])
    BY <1>3, <2>1 DEF IsAck
  <2>4. OneInFlight(cur)'
    BY <1>1, <2>1, <2>2, <2>3 DEF OneInFlight, IsAck, IsBatch
  <2>5. NothingAhead'
    <3>1. \A s \in Sessions : \A i \in DOMAIN up[s] :
            IsBatch(up[s][i]) => up[s][i].ref \in Int /\ up[s][i].ref <= pos
      <4>1. ASSUME NEW s \in Sessions, NEW i \in DOMAIN up[s], IsBatch(up[s][i])
            PROVE  up[s][i].ref \in Int
        <5>1. up[s][i] \in UpMsgs
          BY ElementOfSeq, LenProperties DEF TypeOK
        <5>2. QED
          BY <4>1, <5>1, MessagesType DEF UpMsgs, IsBatch
      <4>2. QED
        BY <4>1 DEF InFlight, NothingAhead
    <3>2. QED
      BY <2>2, <3>1 DEF NothingAhead, IsBatch
  <2>6. PipelineHasPrefix'
    <3>1. PICK k \in {pos - 1, pos} : taken = {MessagesToSend[i] : i \in 1 .. k}
      BY DEF PipelineHasPrefix
    <3>2. taken = {MessagesToSend[i] : i \in 1 .. pos}
      BY <2>1, <2>2, <3>1
    <3>3. pos' - 1 = pos
      BY <2>2
    <3>4. QED
      BY <1>1, <3>2, <3>3 DEF PipelineHasPrefix
  <2>7. FreshSessions'
    <3>1. FreshSessions
      BY DEF InFlight
    <3>2. QED
      BY <1>1, <1>3, <2>2, <3>1, FreshStep, ParametersAssumption DEF Sessions
  <2>8. QED
    BY <1>1, <2>2, <2>4, <2>5, <2>6, <2>7 DEF InFlight
<1>6. CASE m.type = "answer" /\ AckResult(m.delivery_id) /\ UNCHANGED <<pos, awaiting>>
  <2> DEFINE r == [type |-> "result_ack", ref |-> m.delivery_id]
  <2>1. /\ \A s \in Sessions : s # cur => up'[s] = up[s]
        /\ up'[cur] = up[cur] \/ up'[cur] = Append(up[cur], r)
    BY <1>1, <1>6 DEF AckResult, TypeOK
  <2>2. r \in UpMsgs /\ up[cur] \in Seq(UpMsgs) /\ ~IsBatch(r)
    BY <1>1, <1>6, DownHead DEF m, UpMsgs, TypeOK, IsBatch
  <2> HIDE DEF r
  <2>3. \A i \in DOMAIN up'[cur] :
          IsBatch(up'[cur][i]) => i \in DOMAIN up[cur] /\ up'[cur][i] = up[cur][i]
    BY <2>1, <2>2, AppendElements
  <2>4. OneInFlight(cur)'
    BY <1>1, <1>3, <1>6, <2>3 DEF OneInFlight, IsAck, IsBatch
  <2>5. NothingAhead'
    <3> SUFFICES ASSUME NEW s \in Sessions, NEW i \in DOMAIN up'[s], IsBatch(up'[s][i])
                 PROVE  up'[s][i].ref <= pos'
      BY DEF NothingAhead, IsBatch
    <3>1. i \in DOMAIN up[s] /\ up'[s][i] = up[s][i]
      BY <2>1, <2>3
    <3>2. QED
      BY <1>6, <3>1 DEF InFlight, NothingAhead
  <2>6. FreshSessions'
    <3>1. FreshSessions
      BY DEF InFlight
    <3>2. QED
      BY <1>1, <1>3, <2>1, <3>1, FreshStep, ParametersAssumption DEF Sessions
  <2>7. QED
    BY <1>1, <1>6, <2>4, <2>5, <2>6 DEF InFlight, PipelineHasPrefix
<1>7. QED
  BY <1>4, <1>5, <1>6

LEMMA InFlightHandlerReceive ==
  ASSUME TypeOK, InFlight, PipelineHasPrefix, NEW s \in Sessions, HandlerReceive(s)
  PROVE  InFlight' /\ PipelineHasPrefix'
<1> DEFINE m == Head(up[s])
<1>1. /\ up[s] # <<>> /\ up' = [up EXCEPT ![s] = Tail(@)] /\ handler[s] # "none"
      /\ UNCHANGED <<client, cur, pos, awaiting, conn, handler>>
  BY DEF HandlerReceive, cvars
<1>2. up[s] \in Seq(UpMsgs) /\ down[s] \in Seq(DownMsgs)
  BY DEF TypeOK
<1>3. /\ 1 \in DOMAIN up[s] /\ m = up[s][1]
      /\ \A i \in DOMAIN up'[s] :
           i \in Nat \ {0} /\ i + 1 \in DOMAIN up[s] /\ up'[s][i] = up[s][i + 1]
      /\ \A z \in Sessions : z # s => up'[z] = up[z]
  BY <1>1, <1>2, TailElements DEF TypeOK
<1>4. (m.type = "batch" /\ ForwardBatch(s, m)) \/ (m.type = "result_ack" /\ OnResultAck(s, m))
  BY DEF HandlerReceive
<1>5. m.type = "batch" => m.ref \in 1 .. Total /\ m.ref <= pos /\ pos \in Nat \ {0}
  BY <1>1, <1>3, UpHead, MessagesType DEF InFlight, NothingAhead, IsBatch, TypeOK
<1> HIDE DEF m
<1>6. NothingAhead'
  <2> SUFFICES ASSUME NEW z \in Sessions, NEW i \in DOMAIN up'[z], IsBatch(up'[z][i])
               PROVE  up'[z][i].ref <= pos'
    BY DEF NothingAhead, IsBatch
  <2>1. CASE z = s
    BY <1>1, <1>3, <2>1 DEF InFlight, NothingAhead
  <2>2. CASE z # s
    BY <1>1, <1>3, <2>2 DEF InFlight, NothingAhead
  <2>3. QED
    BY <2>1, <2>2
<1>7. FreshSessions'
  <2>1. /\ \A z \in Sessions : z # s => down'[z] = down[z] /\ pend'[z] = pend[z]
        /\ FreshSessions
    BY <1>4 DEF ForwardBatch, OnResultAck, TypeOK, InFlight
  <2>2. s <= cur
    BY <1>1, <2>1, Opened
  <2>3. QED
    BY <1>1, <1>3, <2>1, <2>2, FreshStep, ParametersAssumption DEF Sessions, TypeOK
<1>8. CASE m.type = "result_ack" /\ OnResultAck(s, m)
  <2>1. UNCHANGED <<taken, down>>
    BY <1>8 DEF OnResultAck
  <2>2. client = "active" => OneInFlight(cur)'
    <3> SUFFICES ASSUME client = "active" PROVE OneInFlight(cur)'
      OBVIOUS
    <3>1. OneInFlight(cur) /\ cur \in Sessions
      BY DEF InFlight
    <3>2. CASE s = cur
      BY <1>1, <1>3, <2>1, <3>1, <3>2 DEF OneInFlight, IsBatch, IsAck
    <3>3. CASE s # cur
      BY <1>1, <1>3, <2>1, <3>1, <3>3 DEF OneInFlight, IsBatch, IsAck
    <3>4. QED
      BY <3>2, <3>3
  <2>3. QED
    BY <1>1, <1>6, <1>7, <2>1, <2>2 DEF InFlight, PipelineHasPrefix
<1>9. CASE m.type = "batch" /\ ForwardBatch(s, m)
  <2> DEFINE ack == [type |-> "ack"]
  <2>1. /\ taken' = taken \cup {MessagesToSend[m.ref]}
        /\ down'[s] = down[s] \/ down'[s] = Append(down[s], ack)
        /\ \A z \in Sessions : z # s => down'[z] = down[z]
    BY <1>9 DEF ForwardBatch, TypeOK
  <2>2. ack \in DownMsgs /\ IsAck(ack)
    BY DEF DownMsgs, IsAck
  <2> HIDE DEF ack
  <2>3. \A i \in DOMAIN down'[s] :
          \/ i \in DOMAIN down[s] /\ down'[s][i] = down[s][i]
          \/ i = Len(down[s]) + 1
    BY <1>2, <2>1, <2>2, AppendElements
  <2>4. PipelineHasPrefix'
    <3>1. PICK k \in {pos - 1, pos} : taken = {MessagesToSend[i] : i \in 1 .. k}
      BY DEF PipelineHasPrefix
    <3>2. CASE m.ref <= k
      <4>1. taken' = taken
        BY <1>5, <1>9, <2>1, <3>1, <3>2
      <4>2. QED
        BY <1>1, <3>1, <4>1 DEF PipelineHasPrefix
    <3>3. CASE ~(m.ref <= k)
      <4>1. m.ref = pos /\ k = pos - 1
        BY <1>5, <1>9, <3>3
      <4>2. taken' = {MessagesToSend[i] : i \in 1 .. pos}
        BY <1>5, <1>9, <2>1, <3>1, <4>1
      <4>3. QED
        BY <1>1, <4>2 DEF PipelineHasPrefix
    <3>4. QED
      BY <3>2, <3>3
  <2>5. client = "active" => OneInFlight(cur)'
    <3> SUFFICES ASSUME client = "active" PROVE OneInFlight(cur)'
      OBVIOUS
    <3>1. OneInFlight(cur) /\ cur \in Sessions
      BY DEF InFlight
    <3>2. CASE s = cur
      <4>1. /\ awaiting /\ m.ref = pos
            /\ \A j \in DOMAIN up[s] : IsBatch(up[s][j]) => j = 1
            /\ \A j \in DOMAIN down[s] : ~IsAck(down[s][j])
        BY <1>3, <1>9, <3>1, <3>2 DEF OneInFlight, IsBatch
      <4>2. \A i \in DOMAIN up'[s] : ~IsBatch(up'[s][i])
        BY <1>3, <4>1 DEF IsBatch
      <4>3. \A i \in DOMAIN down'[s] : IsAck(down'[s][i]) => i = Len(down[s]) + 1
        BY <2>3, <4>1
      <4>4. MessagesToSend[pos] \in taken'
        BY <2>1, <4>1
      <4>5. QED
        BY <1>1, <3>2, <4>1, <4>2, <4>3, <4>4 DEF OneInFlight, IsBatch, IsAck
    <3>3. CASE s # cur
      BY <1>1, <1>3, <2>1, <3>1, <3>3 DEF OneInFlight, IsBatch, IsAck
    <3>4. QED
      BY <3>2, <3>3
  <2>6. QED
    BY <1>1, <1>6, <1>7, <2>4, <2>5 DEF InFlight
<1>10. QED
  BY <1>4, <1>8, <1>9

\* What empties the buffers of opened sessions loses batches and acks only.
LEMMA InFlightDropped ==
  ASSUME TypeOK, InFlight, FreshSessions',
         UNCHANGED <<client, cur, pos, awaiting, down, taken>>,
         \A s \in Sessions : up'[s] \in {up[s], <<>>}
  PROVE  InFlight'
<1>1. \A s \in Sessions : \A i \in DOMAIN up'[s] :
        i \in DOMAIN up[s] /\ up'[s][i] = up[s][i]
  OBVIOUS
<1>2. NothingAhead'
  BY <1>1 DEF InFlight, NothingAhead, IsBatch
<1>3. client = "active" => OneInFlight(cur)'
  BY <1>1 DEF InFlight, OneInFlight, IsBatch, IsAck
<1>4. QED
  BY <1>2, <1>3 DEF InFlight

\* Batches and acks stay as InFlight says, and the pipeline has a prefix.
LEMMA InFlightStep ==
  TypeOK /\ InFlight /\ PipelineHasPrefix /\ [Next]_vars
    => InFlight' /\ PipelineHasPrefix'
<1> SUFFICES ASSUME TypeOK, InFlight, PipelineHasPrefix, [Next]_vars
             PROVE  InFlight' /\ PipelineHasPrefix'
  OBVIOUS
<1> USE DEF cvars, svars, gvars, bvars, pvars
<1>1. FreshSessions /\ cur \in Int /\ \A s \in Sessions : s \in Int
  BY ParametersAssumption DEF InFlight, TypeOK, Sessions
<1>2. ASSUME UNCHANGED <<client, cur, pos, awaiting, up, down, taken>>, FreshSessions'
      PROVE  InFlight' /\ PipelineHasPrefix'
  BY <1>2, LinkUnchanged DEF InFlight, PipelineHasPrefix
<1>3. CASE UNCHANGED vars
  BY <1>1, <1>2, <1>3, FreshStep DEF vars
<1>4. CASE Connect
  BY <1>4, InFlightConnect DEF Connect, PipelineHasPrefix
<1>5. CASE ClientSend
  BY <1>5, InFlightClientSend DEF ClientSend, PipelineHasPrefix
<1>6. CASE ClientReceive
  BY <1>6, InFlightClientReceive
<1>7. ASSUME NEW next \in {"idle", "done", "dead"}, LeaveSession(next), client = "active"
      PROVE  InFlight' /\ PipelineHasPrefix'
  <2>1. /\ cur \in Sessions /\ client' # "active"
        /\ conn' = [conn EXCEPT ![cur] = "broken"] /\ down' = [down EXCEPT ![cur] = <<>>]
        /\ UNCHANGED <<cur, pos, awaiting, up, handler, pend, taken>>
    BY <1>7 DEF LeaveSession, KeepPending, InFlight
  <2>2. FreshSessions'
    BY <1>1, <2>1, FreshStep DEF TypeOK
  <2>3. QED
    BY <2>1, <2>2 DEF InFlight, NothingAhead, PipelineHasPrefix
<1>8. ASSUME NEW s \in Sessions, Break(s)
      PROVE  InFlight' /\ PipelineHasPrefix'
  <2>1. s <= cur
    BY <1>1, <1>8, Opened DEF Break
  <2>2. FreshSessions'
    BY <1>1, <1>8, <2>1, FreshStep DEF Break, TypeOK
  <2>3. QED
    BY <1>2, <1>8, <2>2 DEF Break
<1>9. ASSUME NEW s \in Sessions, StartHandler(s)
      PROVE  InFlight' /\ PipelineHasPrefix'
  <2>1. s <= cur
    BY <1>1, <1>9, Opened DEF StartHandler
  <2>2. FreshSessions'
    BY <1>1, <1>9, <2>1, FreshStep DEF StartHandler, TypeOK
  <2>3. QED
    BY <1>2, <1>9, <2>2 DEF StartHandler
<1>10. ASSUME NEW s \in Sessions, HandlerReceive(s)
       PROVE  InFlight' /\ PipelineHasPrefix'
  BY <1>10, InFlightHandlerReceive
<1>11. ASSUME NEW s \in Sessions, HandlerEnd(s)
       PROVE  InFlight' /\ PipelineHasPrefix'
  <2>1. s <= cur
    BY <1>1, <1>11, Opened DEF HandlerEnd
  <2>2. FreshSessions'
    BY <1>1, <1>11, <2>1, FreshStep DEF HandlerEnd, TypeOK
  <2>3. \A z \in Sessions : up'[z] \in {up[z], <<>>}
    BY <1>11 DEF HandlerEnd, TypeOK
  <2>4. QED
    BY <1>11, <2>2, <2>3, InFlightDropped DEF HandlerEnd, PipelineHasPrefix
<1>12. ASSUME NEW s \in Sessions, HandlerClosed(s)
       PROVE  InFlight' /\ PipelineHasPrefix'
  <2>1. s <= cur
    BY <1>1, <1>12, Opened DEF HandlerClosed
  <2>2. FreshSessions'
    BY <1>1, <1>12, <2>1, FreshStep DEF HandlerClosed, TypeOK
  <2>3. QED
    BY <1>2, <1>12, <2>2 DEF HandlerClosed
<1>13. ASSUME NEW s \in Sessions, NEW a \in Answers, Deliver(s, a)
       PROVE  InFlight' /\ PipelineHasPrefix'
  <2> DEFINE m == [type |-> "answer", of |-> a, delivery_id |-> DeliveryId(s)]
  <2>1. s <= cur
    BY <1>1, <1>13, Opened DEF Deliver
  <2>2. /\ \A z \in Sessions : z # s => down'[z] = down[z] /\ pend'[z] = pend[z]
        /\ down'[s] = down[s] \/ down'[s] = Append(down[s], m)
        /\ UNCHANGED <<client, cur, pos, awaiting, up, conn, handler, taken>>
    BY <1>13 DEF Deliver, TypeOK
  <2>3. FreshSessions'
    BY <1>1, <2>1, <2>2, FreshStep
  <2>4. down[s] \in Seq(DownMsgs) /\ m \in DownMsgs /\ ~IsAck(m)
    BY LenProperties DEF DownMsgs, DeliveryId, IsAck, TypeOK
  <2> HIDE DEF m
  <2>5. \A i \in DOMAIN down'[s] :
          IsAck(down'[s][i]) => i \in DOMAIN down[s] /\ down'[s][i] = down[s][i]
    BY <2>2, <2>4, AppendElements
  <2>6. client = "active" => OneInFlight(cur)'
    <3>1. CASE s = cur
      BY <2>2, <2>5, <3>1 DEF InFlight, OneInFlight, IsAck, IsBatch
    <3>2. CASE s # cur
      BY <2>2, <3>2 DEF InFlight, OneInFlight, IsAck, IsBatch
    <3>3. QED
      BY <3>1, <3>2
  <2>7. QED
    BY <2>2, <2>3, <2>6 DEF InFlight, NothingAhead, PipelineHasPrefix
<1>14. CASE PipelineStep \/ \E a \in Answers : Repeat(a)
  <2>1. UNCHANGED <<cvars, svars, taken>>
    BY <1>14 DEF PipelineStep, EmitResult, EmitEnd, EmitCleanupEnd, Repeat
  <2>2. QED
    BY <1>1, <1>2, <2>1, FreshStep
<1>15. CASE Expire \/ Scan \/ RemoveEntry \/ GatewayRestart
            \/ (\E f, k \in {"found", "transaction", "account"} : ForwardCleanup(f, k))
  <2>1. UNCHANGED <<cvars, svars, taken>>
    BY <1>15 DEF Expire, Scan, RemoveEntry, GatewayRestart, ForwardCleanup
  <2>2. QED
    BY <1>1, <1>2, <2>1, FreshStep
<1>16. CASE DeleteQueue
  <2>1. FreshSessions'
    <3> SUFFICES ASSUME NEW s \in Sessions, s > cur' PROVE Untouched(s)'
      BY DEF FreshSessions
    <3>1. Untouched(s) /\ UNCHANGED <<conn, up, down>>
      BY <1>1, <1>16 DEF FreshSessions, DeleteQueue
    <3>2. handler'[s] = "none" /\ pend'[s] = [d \in DOMAIN <<>> |-> Acked]
      BY <1>16, <3>1 DEF DeleteQueue, Untouched
    <3>3. pend'[s] = <<>>
      BY <3>2
    <3>4. QED
      BY <3>1, <3>2, <3>3 DEF Untouched
  <2>2. QED
    BY <1>2, <1>16, <2>1 DEF DeleteQueue
<1>17. CASE GatewayCrash
  <2>1. FreshSessions'
    BY <1>1, <1>17 DEF FreshSessions, Untouched, GatewayCrash
  <2>2. QED
    BY <1>17, <2>1, InFlightDropped DEF GatewayCrash, PipelineHasPrefix
<1>18. QED
  BY <1>3, <1>4, <1>5, <1>6, <1>7, <1>8, <1>9, <1>10, <1>11, <1>12, <1>13, <1>14,
     <1>15, <1>16, <1>17
  DEF Next, ClientSteps, ClientFinish, ClientAbort, ClientDies, HandlerStep,
      DeliverSome, ReaperStep

-----------------------------------------------------------------------------
(* Who holds an answer *)

LEMMA CustodyInit == Init => Custody
<1> SUFFICES ASSUME Init PROVE Custody
  OBVIOUS
<1>1. \A s \in Sessions : s \notin Holding
  BY DEF Init, Holding
<1>2. \A s \in Sessions : CustodyOf(s)
  BY <1>1 DEF Init, CustodyOf
<1>3. QED
  BY <1>2 DEF Init, Custody

LEMMA NoAnswerLostInit == Init => NoAnswerLost
BY DEF Init, NoAnswerLost

LEMMA WrittenStays ==
  ASSUME TypeOK, InFlight, NEW r \in Results, TakeResult(r)
  PROVE  /\ written'[r] > 0 \/ r \in seen
         /\ \A x \in Results : written[x] > 0 => written'[x] > 0
<1>1. written \in [Results -> Nat]
  BY DEF TypeOK
<1>2. CASE r \in seen
  BY <1>2 DEF TakeResult
<1>3. CASE r \notin seen
  <2>1. written' = [written EXCEPT ![r] = @ + 1]
    BY <1>3 DEF TakeResult
  <2>2. QED
    BY <1>1, <2>1
<1>4. QED
  BY <1>2, <1>3

\* What a client has it keeps, and so does what was reaped.
LEMMA Monotone ==
  ASSUME TypeOK, InFlight, Custody, [Next]_vars
  PROVE  /\ Reaped => Reaped'
         /\ bound \/ Reaped => bound' \/ Reaped'
         /\ \A a \in Answers : Got(a) => Got(a)'
<1> USE DEF cvars, svars, gvars, bvars, pvars
<1>1. Reaped => Reaped'
  <2>1. cleaned \subseteq cleaned'
    BY DEF vars, Next, Connect, ClientSteps, ClientSend, ClientReceive, ClientFinish,
       ClientAbort, ClientDies, LeaveSession, Break, HandlerStep, StartHandler,
       HandlerReceive, HandlerEnd, HandlerClosed, DeliverSome, Deliver, PipelineStep,
       EmitResult, EmitEnd, EmitCleanupEnd, Repeat, Expire, ReaperStep, Scan,
       ForwardCleanup, DeleteQueue, RemoveEntry, GatewayCrash, GatewayRestart
  <2>2. QED
    BY <2>1 DEF Reaped
<1>2. bound \/ Reaped => bound' \/ Reaped'
  <2>1. CASE DeleteQueue
    BY <1>1, <2>1 DEF DeleteQueue, Custody
  <2>2. CASE ~DeleteQueue
    <3>1. bound => bound'
      BY <2>2 DEF vars, Next, Connect, ClientSteps, ClientSend, ClientReceive, ClientFinish,
         ClientAbort, ClientDies, LeaveSession, Break, HandlerStep, StartHandler,
         HandlerReceive, HandlerEnd, HandlerClosed, DeliverSome, Deliver, PipelineStep,
         EmitResult, EmitEnd, EmitCleanupEnd, Repeat, Expire, ReaperStep, Scan,
         ForwardCleanup, RemoveEntry, GatewayCrash, GatewayRestart
    <3>2. QED
      BY <1>1, <3>1
  <2>3. QED
    BY <2>1, <2>2
<1>3. ASSUME NEW a \in Answers, Got(a)
      PROVE  Got(a)'
  <2>1. CASE ClientReceive
    <3>1. PICK m : \/ HandleAck
                   \/ m.of \in Results /\ HandleQueryResult(m)
                   \/ m.of \in Ends /\ HandleQueryEnd(m)
      BY <2>1 DEF ClientReceive
    <3>2. CASE HandleAck
      BY <1>3, <3>2 DEF HandleAck, Got
    <3>3. CASE m.of \in Results /\ HandleQueryResult(m)
      BY <1>3, <3>3, WrittenStays DEF HandleQueryResult, Got
    <3>4. CASE m.of \in Ends /\ HandleQueryEnd(m)
      <4>1. /\ UNCHANGED written
            /\ expected' = [expected EXCEPT ![m.of.query] = {Announces(m.of)}]
        BY <3>4 DEF HandleQueryEnd
      <4>2. \A q \in Queries : expected[q] # {} => expected'[q] # {}
        BY <4>1 DEF TypeOK
      <4>3. a \notin Results => a.query \in Queries
        BY AnnouncesType DEF Answers
      <4>4. QED
        BY <1>3, <4>1, <4>2, <4>3 DEF Got
    <3>5. QED
      BY <3>1, <3>2, <3>3, <3>4
  <2>2. CASE ~ClientReceive
    <3>1. UNCHANGED <<written, expected>>
      BY <2>2 DEF vars, Next, Connect, ClientSteps, ClientSend, ClientFinish,
         ClientAbort, ClientDies, LeaveSession, Break, HandlerStep, StartHandler,
         HandlerReceive, HandlerEnd, HandlerClosed, DeliverSome, Deliver, PipelineStep,
         EmitResult, EmitEnd, EmitCleanupEnd, Repeat, Expire, ReaperStep, Scan,
         ForwardCleanup, DeleteQueue, RemoveEntry, GatewayCrash, GatewayRestart
    <3>2. QED
      BY <1>3, <3>1 DEF Got
  <2>3. QED
    BY <2>1, <2>2
<1>4. QED
  BY <1>1, <1>2, <1>3

\* A session that a step leaves as it is.
LEMMA CustodyKept ==
  ASSUME TypeOK, InFlight, Custody, [Next]_vars, NEW s \in Sessions,
         handler'[s] = handler[s], up'[s] = up[s], down'[s] = down[s], pend'[s] = pend[s]
  PROVE  CustodyOf(s)'
<1>1. CustodyOf(s)
  BY DEF Custody
<1>2. \A d : Settled(s, d) => Settled(s, d)'
  <2>1. \A d \in DOMAIN pend[s] : pend[s][d] \in Answers \cup {Acked}
    BY ElementOfSeq, LenProperties DEF TypeOK
  <2>2. QED
    BY <2>1, Monotone DEF Settled
<1>3. s \in Holding <=> s \in Holding'
  BY DEF Holding
<1>4. QED
  BY <1>1, <1>2, <1>3, Monotone DEF CustodyOf, IsResultAck, IsAnswer

LEMMA CustodyClientReceive ==
  ASSUME TypeOK, InFlight, Books, Custody, ClientReceive
  PROVE  CustodyOf(cur)'
<1>0. PICK m : m = Head(down[cur])
  OBVIOUS
<1> DEFINE r == [type |-> "result_ack", ref |-> m.delivery_id]
<1>1. /\ cur \in Sessions /\ client = "active" /\ down[cur] # <<>>
      /\ down' = [down EXCEPT ![cur] = Tail(@)]
      /\ UNCHANGED <<client, cur, conn, handler, pend, bound, cleaned>>
  BY DEF ClientReceive, InFlight, pvars, bvars
<1>2. down[cur] \in Seq(DownMsgs) /\ up[cur] \in Seq(UpMsgs)
  BY <1>1 DEF TypeOK
<1>3. /\ 1 \in DOMAIN down[cur] /\ m = down[cur][1]
      /\ \A i \in DOMAIN down'[cur] :
           i + 1 \in DOMAIN down[cur] /\ down'[cur][i] = down[cur][i + 1]
  BY <1>0, <1>1, <1>2, TailElements DEF TypeOK
<1>4. CustodyOf(cur) /\ cur \in Int
  BY <1>1, ParametersAssumption DEF Custody, Sessions
<1>5. [Next]_vars
  BY DEF Next, ClientSteps
<1>6. \A d : Settled(cur, d) => Settled(cur, d)'
  <2>1. \A d \in DOMAIN pend[cur] : pend[cur][d] \in Answers \cup {Acked}
    BY <1>1, ElementOfSeq, LenProperties DEF TypeOK
  <2>2. QED
    BY <1>1, <1>5, <2>1, Monotone DEF Settled
<1>7. m.type = "answer" => Got(m.of)'
  <2> SUFFICES ASSUME m.type = "answer" PROVE Got(m.of)'
    OBVIOUS
  <2>1. CASE m.of \in Results /\ HandleQueryResult(m)
    <3>1. TakeResult(m.of)
      BY <2>1 DEF HandleQueryResult
    <3>2. written'[m.of] > 0
      <4>1. m.of \in seen => written[m.of] > 0
        BY <2>1 DEF Books, Counted
      <4>2. QED
        BY <2>1, <3>1, <4>1, WrittenStays
    <3>3. QED
      BY <2>1, <3>2 DEF Got
  <2>2. CASE m.of \in Ends /\ HandleQueryEnd(m)
    <3>1. m.of.query \in Queries /\ m.of \notin Results
      BY <2>2, AnnouncesType, MessagesAssumption
    <3>2. expected'[m.of.query] # {}
      BY <2>2, <3>1 DEF HandleQueryEnd, TypeOK
    <3>3. QED
      BY <3>1, <3>2 DEF Got
  <2>3. QED
    BY <1>0, <2>1, <2>2 DEF ClientReceive
<1>8. up'[cur] = up[cur] \/ (m.type = "answer" /\ up'[cur] = Append(up[cur], r))
  BY <1>0, <1>1 DEF ClientReceive, HandleAck, HandleQueryResult, HandleQueryEnd, AckResult, TypeOK
<1>9. m.type = "answer" => r \in UpMsgs
  BY <1>0, <1>1, DownHead DEF UpMsgs
<1>10. ASSUME NEW i \in DOMAIN up'[cur], IsResultAck(up'[cur][i])
       PROVE  \/ i \in DOMAIN up[cur] /\ up'[cur][i] = up[cur][i]
              \/ m.type = "answer" /\ up'[cur][i].ref = m.delivery_id
  BY <1>2, <1>8, <1>9, AppendElements
<1>11. handler[cur] \in {"none", "queued"} => m.type # "answer"
  BY <1>3, <1>4 DEF CustodyOf, IsAnswer
<1>12. handler[cur] = "running" /\ m.type = "answer" => Settled(cur, m.delivery_id)'
  <2> SUFFICES ASSUME handler[cur] = "running", m.type = "answer"
               PROVE  Settled(cur, m.delivery_id)'
    OBVIOUS
  <2>1. m.delivery_id \in DOMAIN pend[cur] /\ pend[cur][m.delivery_id] \in {m.of, Acked}
    BY <1>3, <1>4 DEF CustodyOf, IsAnswer
  <2>2. QED
    BY <1>1, <1>7, <2>1 DEF Settled
<1>13. Holding' = Holding /\ (bound \/ Reaped => bound' \/ Reaped') /\ (Reaped => Reaped')
  BY <1>1 DEF Holding, Reaped
<1>14. QED
  BY <1>1, <1>3, <1>4, <1>6, <1>10, <1>11, <1>12, <1>13
  DEF CustodyOf, IsResultAck, IsAnswer

LEMMA CustodyHandlerReceive ==
  ASSUME TypeOK, InFlight, Custody, NoAnswerLost, NEW s \in Sessions, HandlerReceive(s)
  PROVE  CustodyOf(s)' /\ NoAnswerLost'
<1> DEFINE m == Head(up[s])
           ack == [type |-> "ack"]
<1>1. /\ up[s] # <<>> /\ up' = [up EXCEPT ![s] = Tail(@)]
      /\ handler[s] \in {"running", "deaf"} /\ s \in Holding
      /\ UNCHANGED <<handler, rq, bound, emitted, cleaned, written, expected>>
  BY DEF HandlerReceive, Holding, cvars, bvars
<1>2. /\ up[s] \in Seq(UpMsgs) /\ down[s] \in Seq(DownMsgs)
      /\ pend \in [Sessions -> Seq(Answers \cup {Acked})]
  BY DEF TypeOK
<1>3. /\ 1 \in DOMAIN up[s] /\ m = up[s][1]
      /\ \A i \in DOMAIN up'[s] : i + 1 \in DOMAIN up[s] /\ up'[s][i] = up[s][i + 1]
  BY <1>1, <1>2, TailElements DEF TypeOK
<1>4. CustodyOf(s) /\ \A a : Got(a)' <=> Got(a)
  BY <1>1 DEF Custody, Got
<1>5. Holding' = Holding /\ (Reaped' <=> Reaped)
  BY <1>1 DEF Holding, Reaped
<1>6. (m.type = "batch" /\ ForwardBatch(s, m))
        \/ (m.type = "result_ack" /\ handler[s] = "running" /\ OnResultAck(s, m))
  BY DEF HandlerReceive
<1> HIDE DEF m
<1>7. CASE m.type = "batch" /\ ForwardBatch(s, m)
  <2>1. pend' = pend /\ (down'[s] = down[s] \/ down'[s] = Append(down[s], ack))
    BY <1>7 DEF ForwardBatch, TypeOK
  <2>2. ack \in DownMsgs /\ ~IsAnswer(ack)
    BY DEF DownMsgs, IsAnswer
  <2> HIDE DEF ack
  <2>3. \A i \in DOMAIN down'[s] :
          IsAnswer(down'[s][i]) => i \in DOMAIN down[s] /\ down'[s][i] = down[s][i]
    BY <1>2, <2>1, <2>2, AppendElements
  <2>4. CustodyOf(s)'
    BY <1>1, <1>3, <1>4, <1>5, <2>1, <2>3 DEF CustodyOf, Settled, IsResultAck, IsAnswer
  <2>5. NoAnswerLost'
    BY <1>1, <1>4, <1>5, <2>1 DEF NoAnswerLost, Held, Unacked
  <2>6. QED
    BY <2>4, <2>5
<1>8. CASE m.type = "result_ack" /\ handler[s] = "running" /\ OnResultAck(s, m)
  <2>1. Settled(s, m.ref) /\ down' = down
    BY <1>3, <1>4, <1>8 DEF CustodyOf, IsResultAck, OnResultAck
  <2>2. /\ pend'[s] = [pend[s] EXCEPT ![m.ref] = Acked]
        /\ \A z \in Sessions : z # s => pend'[z] = pend[z]
    BY <1>2, <1>8 DEF OnResultAck
  <2>3. /\ DOMAIN pend'[s] = DOMAIN pend[s] /\ pend'[s][m.ref] = Acked
        /\ \A d \in DOMAIN pend[s] : d # m.ref => pend'[s][d] = pend[s][d]
    <3>1. pend[s] \in Seq(Answers \cup {Acked}) /\ m.ref \in DOMAIN pend[s]
      BY <1>2, <2>1 DEF Settled
    <3>2. QED
      BY <2>2, <3>1
  <2>4. \A d : Settled(s, d) => Settled(s, d)'
    BY <1>4, <2>3 DEF Settled
  <2>5. \A d \in DOMAIN pend[s] : pend'[s][d] \in {pend[s][d], Acked}
    BY <2>3
  <2>6. CustodyOf(s)'
    BY <1>1, <1>3, <1>4, <1>5, <2>1, <2>3, <2>4, <2>5
    DEF CustodyOf, IsResultAck, IsAnswer
  <2>7. NoAnswerLost'
    <3> SUFFICES ASSUME NEW a \in emitted, Held(a), ~Got(a)
                 PROVE  Held(a)'
      BY <1>1, <1>4, <1>5 DEF NoAnswerLost
    <3>1. PICK z \in Sessions, d \in Nat : d \in DOMAIN pend[z] /\ pend[z][d] = a
      <4>1. \A z \in Sessions : DOMAIN pend[z] \subseteq Nat
        BY <1>2, LenProperties
      <4>2. QED
        BY <4>1 DEF Held, Unacked
    <3>2. a # Acked
      BY MessagesAssumption DEF TypeOK
    <3>3. CASE z = s
      <4>1. d # m.ref
        BY <2>1, <3>1, <3>2, <3>3 DEF Settled
      <4>2. d \in DOMAIN pend'[s] /\ pend'[s][d] = a
        BY <2>3, <3>1, <3>3, <4>1
      <4>3. QED
        BY <4>2 DEF Held, Unacked
    <3>4. CASE z # s
      BY <2>2, <3>1, <3>4 DEF Held, Unacked
    <3>5. QED
      BY <3>3, <3>4
  <2>8. QED
    BY <2>6, <2>7
<1>9. QED
  BY <1>6, <1>7, <1>8

\* The pipeline has taken something, or the reaper cleans up, only while the
\* results queue is there or after the cleanup has begun.
LEMMA CustodyOfQueue ==
  ASSUME TypeOK, InFlight, Custody, [Next]_vars
  PROVE  /\ (taken # {} => bound \/ Reaped)'
         /\ (reaper \in {"transaction", "account", "deleted"} => Reaped)'
<1> USE DEF cvars, svars, gvars, bvars, pvars
<1>1. taken' # {} => bound' \/ Reaped'
  <2>1. CASE \E s \in Sessions : HandlerReceive(s)
    BY <2>1, Monotone DEF Custody, CustodyOf, HandlerReceive, Holding
  <2>2. CASE ~\E s \in Sessions : HandlerReceive(s)
    <3>1. taken' = taken
      BY <2>2 DEF vars, Next, Connect, ClientSteps, ClientSend, ClientReceive, ClientFinish,
         ClientAbort, ClientDies, LeaveSession, Break, HandlerStep, StartHandler,
         HandlerEnd, HandlerClosed, DeliverSome, Deliver, PipelineStep,
         EmitResult, EmitEnd, EmitCleanupEnd, Repeat, Expire, ReaperStep, Scan,
         ForwardCleanup, DeleteQueue, RemoveEntry, GatewayCrash, GatewayRestart
    <3>2. QED
      BY <3>1, Monotone DEF Custody
  <2>3. QED
    BY <2>1, <2>2
<1>2. reaper' \in {"transaction", "account", "deleted"} => Reaped'
  <2>1. CASE \E f, k \in {"found", "transaction", "account"} : ForwardCleanup(f, k)
    BY <2>1 DEF ForwardCleanup, Reaped
  <2>2. CASE DeleteQueue
    BY <2>2 DEF DeleteQueue, Custody, Reaped
  <2>3. CASE ~DeleteQueue /\ ~\E f, k \in {"found", "transaction", "account"} : ForwardCleanup(f, k)
    <3>1. reaper' \in {reaper, "found", "waiting"}
      BY <2>3 DEF vars, Next, Connect, ClientSteps, ClientSend, ClientReceive, ClientFinish,
         ClientAbort, ClientDies, LeaveSession, Break, HandlerStep, StartHandler,
         HandlerReceive, HandlerEnd, HandlerClosed, DeliverSome, Deliver, PipelineStep,
         EmitResult, EmitEnd, EmitCleanupEnd, Repeat, Expire, ReaperStep, Scan,
         RemoveEntry, GatewayCrash, GatewayRestart
    <3>2. QED
      BY <3>1, Monotone DEF Custody
  <2>4. QED
    BY <2>1, <2>2, <2>3
<1>3. QED
  BY <1>1, <1>2

\* The handlers' steps, the deletion of the queue and the crash, each for the
\* sessions that it changes.
LEMMA CustodySessionStep ==
  ASSUME TypeOK, InFlight, Books, Custody, NoAnswerLost, [Next]_vars, NEW z \in Sessions
  PROVE  CustodyOf(z)'
<1> USE DEF cvars, svars, gvars, bvars, pvars
<1>1. /\ CustodyOf(z) /\ z \in Int /\ cur \in Int
      /\ \A d : d \in DOMAIN pend[z] => pend[z][d] \in Answers \cup {Acked}
  BY ParametersAssumption, ElementOfSeq, LenProperties DEF Custody, Sessions, TypeOK
<1>2. ASSUME handler'[z] = handler[z], up'[z] = up[z], down'[z] = down[z], pend'[z] = pend[z]
      PROVE  CustodyOf(z)'
  BY <1>2, CustodyKept
<1>3. (Reaped => Reaped') /\ (bound \/ Reaped => bound' \/ Reaped')
  BY Monotone
<1>4. CASE UNCHANGED svars
  BY <1>2, <1>4
<1>5. CASE Connect
  <2>1. CASE z = cur'
    <3>1. Untouched(z) /\ UNCHANGED <<up, down, pend>> /\ handler'[z] = "queued"
      BY <1>1, <1>5, <2>1 DEF Connect, InFlight, FreshSessions, TypeOK
    <3>2. z \notin Holding'
      BY <3>1 DEF Holding
    <3>3. QED
      BY <3>1, <3>2 DEF CustodyOf, Untouched
  <2>2. CASE z # cur'
    BY <1>2, <1>5, <2>2 DEF Connect, TypeOK
  <2>3. QED
    BY <2>1, <2>2
<1>6. CASE ClientSend
  <2>1. CASE z = cur
    <3> DEFINE m == [type |-> "batch", ref |-> pos]
    <3>1. UNCHANGED <<handler, down, pend, bound, cleaned, written, expected>>
          /\ up'[z] = Append(up[z], m)
      BY <1>6, <2>1 DEF ClientSend, TypeOK
    <3>2. up[z] \in Seq(UpMsgs) /\ m \in UpMsgs /\ ~IsResultAck(m)
      BY <1>6, MessagesType DEF ClientSend, TypeOK, UpMsgs, IsResultAck, InFlight
    <3> HIDE DEF m
    <3>3. \A i \in DOMAIN up'[z] :
            IsResultAck(up'[z][i]) => i \in DOMAIN up[z] /\ up'[z][i] = up[z][i]
      BY <3>1, <3>2, AppendElements
    <3>4. Holding' = Holding /\ (\A d : Settled(z, d) => Settled(z, d)') /\ (Reaped' <=> Reaped)
      BY <3>1 DEF Holding, Settled, Got, Reaped
    <3>5. QED
      BY <1>1, <3>1, <3>3, <3>4 DEF CustodyOf, IsResultAck, IsAnswer
  <2>2. CASE z # cur
    BY <1>2, <1>6, <2>2 DEF ClientSend, TypeOK
  <2>3. QED
    BY <2>1, <2>2
<1>7. CASE ClientReceive
  <2>1. CASE z = cur
    <3>1. CustodyOf(cur)' /\ cur' = cur
      BY <1>7, CustodyClientReceive DEF ClientReceive
    <3>2. QED
      BY <2>1, <3>1
  <2>2. CASE z # cur
    <3>1. up'[z] = up[z]
      BY <1>7, <2>2 DEF ClientReceive, HandleAck, HandleQueryResult, HandleQueryEnd,
         AckResult, TypeOK
    <3>2. QED
      BY <1>2, <1>7, <2>2, <3>1 DEF ClientReceive, TypeOK
  <2>3. QED
    BY <2>1, <2>2
<1>8. ASSUME NEW next \in {"idle", "done", "dead"}, LeaveSession(next)
      PROVE  CustodyOf(z)'
  <2>1. UNCHANGED <<handler, up, pend, bound, cleaned, written, expected>>
        /\ down'[z] \in {down[z], <<>>}
    BY <1>8 DEF LeaveSession, TypeOK
  <2>2. Holding' = Holding /\ (\A d : Settled(z, d) => Settled(z, d)') /\ (Reaped' <=> Reaped)
    BY <2>1 DEF Holding, Settled, Got, Reaped
  <2>3. \A i \in DOMAIN down'[z] : i \in DOMAIN down[z] /\ down'[z][i] = down[z][i]
    BY <2>1
  <2>4. QED
    BY <1>1, <2>1, <2>2, <2>3 DEF CustodyOf, IsResultAck, IsAnswer
<1>9. CASE \E s \in Sessions : Break(s)
  BY <1>2, <1>9 DEF Break
<1>10. ASSUME NEW s \in Sessions, StartHandler(s)
       PROVE  CustodyOf(z)'
  <2>1. CASE z = s
    <3>1. /\ handler[z] = "queued" /\ handler'[z] = "running" /\ bound'
          /\ UNCHANGED <<up, down, pend>>
      BY <1>10, <2>1 DEF StartHandler, TypeOK
    <3>2. z \in Holding'
      BY <3>1 DEF Holding
    <3>3. QED
      BY <1>1, <3>1, <3>2 DEF CustodyOf, IsResultAck, IsAnswer
  <2>2. CASE z # s
    BY <1>2, <1>10, <2>2 DEF StartHandler, TypeOK
  <2>3. QED
    BY <2>1, <2>2
<1>11. ASSUME NEW s \in Sessions, HandlerReceive(s)
       PROVE  CustodyOf(z)'
  <2>1. CASE z = s
    BY <1>11, <2>1, CustodyHandlerReceive
  <2>2. CASE z # s
    BY <1>2, <1>11, <2>2 DEF HandlerReceive, ForwardBatch, OnResultAck, TypeOK
  <2>3. QED
    BY <2>1, <2>2
<1>12. ASSUME NEW s \in Sessions, HandlerEnd(s)
       PROVE  CustodyOf(z)'
  <2>1. CASE z = s
    <3>1. /\ z \in Holding /\ handler'[z] = "closing" /\ up'[z] = <<>>
          /\ UNCHANGED <<down, pend>>
      BY <1>12, <2>1 DEF HandlerEnd, Holding, TypeOK
    <3>2. z \in Holding'
      BY <3>1 DEF Holding
    <3>3. QED
      BY <1>1, <1>3, <3>1, <3>2 DEF CustodyOf
  <2>2. CASE z # s
    BY <1>2, <1>12, <2>2 DEF HandlerEnd, TypeOK
  <2>3. QED
    BY <2>1, <2>2
<1>13. ASSUME NEW s \in Sessions, HandlerClosed(s)
       PROVE  CustodyOf(z)'
  <2>1. CASE z = s
    <3>1. handler'[z] = "over" /\ pend'[z] = <<>>
      BY <1>13, <2>1 DEF HandlerClosed, TypeOK
    <3>2. z \notin Holding'
      BY <3>1 DEF Holding
    <3>3. QED
      BY <3>1, <3>2 DEF CustodyOf
  <2>2. CASE z # s
    BY <1>2, <1>13, <2>2 DEF HandlerClosed, TypeOK
  <2>3. QED
    BY <2>1, <2>2
<1>14. ASSUME NEW s \in Sessions, NEW a \in Answers, Deliver(s, a)
       PROVE  CustodyOf(z)'
  <2>1. CASE z = s
    <3> DEFINE m == [type |-> "answer", of |-> a, delivery_id |-> Len(pend[z]) + 1]
    <3>1. /\ handler[z] = "running" /\ pend'[z] = Append(pend[z], a)
          /\ down'[z] = down[z] \/ down'[z] = Append(down[z], m)
          /\ UNCHANGED <<handler, up, bound, cleaned, written, expected>>
      BY <1>14, <2>1 DEF Deliver, DeliveryId, TypeOK
    <3>2. pend[z] \in Seq(Answers \cup {Acked}) /\ down[z] \in Seq(DownMsgs)
      BY DEF TypeOK
    <3>3. m \in DownMsgs
      BY <3>2, LenProperties DEF DownMsgs
    <3>4. /\ DOMAIN pend[z] \subseteq DOMAIN pend'[z]
          /\ Len(pend[z]) + 1 \in DOMAIN pend'[z] /\ pend'[z][Len(pend[z]) + 1] = a
          /\ \A d \in DOMAIN pend[z] : pend'[z][d] = pend[z][d]
      BY <3>1, <3>2, AppendElements
    <3>5. \A i \in DOMAIN down'[z] :
            \/ i \in DOMAIN down[z] /\ down'[z][i] = down[z][i]
            \/ down'[z][i] = m
      BY <3>1, <3>2, <3>3, AppendElements
    <3>6. /\ Holding' = Holding /\ z \in Holding /\ (Reaped' <=> Reaped)
          /\ \A d : Settled(z, d) => Settled(z, d)'
      BY <3>1, <3>4 DEF Holding, Reaped, Settled, Got
    <3>7. m.of = a /\ m.delivery_id = Len(pend[z]) + 1
      OBVIOUS
    <3> HIDE DEF m
    <3>8. QED
      BY <1>1, <3>1, <3>4, <3>5, <3>6, <3>7 DEF CustodyOf, IsResultAck, IsAnswer
  <2>2. CASE z # s
    BY <1>2, <1>14, <2>2 DEF Deliver, TypeOK
  <2>3. QED
    BY <2>1, <2>2
<1>15. CASE DeleteQueue
  <2>1. Reaped'
    BY <1>3, <1>15 DEF DeleteQueue, Custody
  <2>2. handler'[z] # "running" /\ UNCHANGED <<up, down>>
        /\ (handler'[z] = handler[z] \/ (handler[z] = "running" /\ handler'[z] = "deaf"))
        /\ pend'[z] = [d \in DOMAIN pend[z] |-> Acked]
    BY <1>15 DEF DeleteQueue
  <2>3. z \notin Holding' => pend'[z] = <<>>
    <3> SUFFICES ASSUME z \notin Holding' PROVE pend'[z] = <<>>
      OBVIOUS
    <3>1. pend[z] = <<>>
      BY <1>1, <2>2 DEF Holding, CustodyOf
    <3>2. pend'[z] = [d \in DOMAIN <<>> |-> Acked]
      BY <2>2, <3>1
    <3>3. QED
      BY <3>2
  <2>4. handler'[z] \in {"none", "queued"} => handler'[z] = handler[z]
    BY <2>2
  <2>5. QED
    BY <1>1, <2>1, <2>2, <2>3, <2>4 DEF CustodyOf, IsResultAck, IsAnswer
<1>16. CASE GatewayCrash
  <2>1. /\ handler'[z] = IF handler[z] = "none" THEN "none" ELSE "over"
        /\ up'[z] = <<>> /\ pend'[z] = <<>> /\ UNCHANGED down
    BY <1>16 DEF GatewayCrash
  <2>2. z \notin Holding'
    BY <2>1 DEF Holding
  <2>3. QED
    BY <1>1, <2>1, <2>2 DEF CustodyOf, IsAnswer, IsResultAck
<1>17. QED
  BY <1>4, <1>5, <1>6, <1>7, <1>8, <1>9, <1>10, <1>11, <1>12, <1>13, <1>14, <1>15, <1>16
  DEF vars, Next, ClientSteps, ClientFinish, ClientAbort, ClientDies, HandlerStep,
      DeliverSome, ReaperStep, PipelineStep, EmitResult, EmitEnd, EmitCleanupEnd,
      Repeat, Expire, Scan, ForwardCleanup, RemoveEntry, GatewayRestart

\* Closing consumers gives back what they held unacked.
LEMMA GivenBackIsThere ==
  ASSUME TypeOK, InFlight, Custody, NEW ended \in SUBSET Sessions, Requeue(ended),
         NEW a \in Answers
  PROVE  /\ rq[a] > 0 => rq'[a] > 0
         /\ \A s \in ended : s \in Holding /\ Unacked(s, a) # {} => Reaped \/ rq'[a] > 0
<1>1. rq \in [Answers -> Nat] /\ pend \in [Sessions -> Seq(Answers \cup {Acked})]
  BY DEF TypeOK
<1>2. /\ GivenBack(a, ended) \in Nat
      /\ \A s \in ended : Unacked(s, a) # {} => GivenBack(a, ended) > 0
  BY <1>1, GivenBackType
<1>3. rq'[a] = IF bound THEN rq[a] + GivenBack(a, ended) ELSE rq[a]
  BY DEF Requeue
<1>4. \A s \in ended : s \in Holding => bound \/ Reaped
  BY DEF Custody, CustodyOf
<1>5. QED
  BY <1>1, <1>2, <1>3, <1>4

\* No step loses an answer.
LEMMA NoAnswerLostStep ==
  ASSUME TypeOK, InFlight, Custody, NoAnswerLost, [Next]_vars
  PROVE  NoAnswerLost'
<1> USE DEF cvars, svars, gvars, bvars, pvars
<1>1. /\ rq \in [Answers -> Nat] /\ emitted \subseteq Answers
      /\ pend \in [Sessions -> Seq(Answers \cup {Acked})]
  BY DEF TypeOK
<1>2. ASSUME UNCHANGED emitted,
             \A a \in emitted : rq[a] > 0 \/ Held(a)
               => Reaped' \/ Got(a)' \/ rq'[a] > 0 \/ Held(a)'
      PROVE  NoAnswerLost'
  <2> SUFFICES ASSUME NEW a \in emitted
               PROVE  Reaped' \/ Got(a)' \/ rq'[a] > 0 \/ Held(a)'
    BY <1>2 DEF NoAnswerLost
  <2>1. Reaped \/ Got(a) \/ rq[a] > 0 \/ Held(a)
    BY DEF NoAnswerLost
  <2>2. QED
    BY <1>1, <1>2, <2>1, Monotone
<1>3. CASE UNCHANGED <<emitted, rq, pend>>
  BY <1>2, <1>3 DEF Held, Unacked
<1>4. ASSUME NEW s \in Sessions, HandlerReceive(s)
      PROVE  NoAnswerLost'
  BY <1>4, CustodyHandlerReceive
<1>5. ASSUME NEW s \in Sessions, HandlerClosed(s)
      PROVE  NoAnswerLost'
  <2>1. /\ UNCHANGED <<emitted, cleaned>> /\ Requeue({s}) /\ s \in Holding
        /\ \A z \in Sessions : z # s => pend'[z] = pend[z]
    BY <1>1, <1>5 DEF HandlerClosed, Holding
  <2>2. ASSUME NEW a \in emitted, rq[a] > 0 \/ Held(a)
        PROVE  Reaped' \/ Got(a)' \/ rq'[a] > 0 \/ Held(a)'
    <3>1. a \in Answers /\ {s} \in SUBSET Sessions
      BY <1>1
    <3>2. CASE rq[a] > 0 \/ Unacked(s, a) # {}
      BY <2>1, <3>1, <3>2, GivenBackIsThere DEF Reaped
    <3>3. CASE \E z \in Sessions : z # s /\ Unacked(z, a) # {}
      BY <2>1, <3>3 DEF Held, Unacked
    <3>4. QED
      BY <2>2, <3>2, <3>3 DEF Held
  <2>3. QED
    BY <1>2, <2>1, <2>2
<1>6. ASSUME NEW s \in Sessions, NEW b \in Answers, Deliver(s, b)
      PROVE  NoAnswerLost'
  <2>1. /\ UNCHANGED emitted /\ rq' = [rq EXCEPT ![b] = @ - 1]
        /\ pend'[s] = Append(pend[s], b)
        /\ \A z \in Sessions : z # s => pend'[z] = pend[z]
    BY <1>1, <1>6 DEF Deliver
  <2>2. /\ \A d \in DOMAIN pend[s] : d \in DOMAIN pend'[s] /\ pend'[s][d] = pend[s][d]
        /\ \E d \in DOMAIN pend'[s] : pend'[s][d] = b
    <3>1. pend[s] \in Seq(Answers \cup {Acked}) /\ b \in Answers \cup {Acked}
      BY <1>1
    <3>2. QED
      BY <2>1, <3>1, AppendElements
  <2>3. Held(b)'
    BY <2>2 DEF Held, Unacked
  <2>4. ASSUME NEW a \in emitted, rq[a] > 0 \/ Held(a)
        PROVE  rq'[a] > 0 \/ Held(a)'
    <3>1. CASE Held(a)
      <4>1. PICK z \in Sessions : Unacked(z, a) # {}
        BY <3>1 DEF Held
      <4>2. Unacked(z, a)' # {}
        BY <2>1, <2>2, <4>1 DEF Unacked
      <4>3. QED
        BY <4>2 DEF Held
    <3>2. CASE rq[a] > 0
      BY <1>1, <2>1, <2>3, <3>2
    <3>3. QED
      BY <2>4, <3>1, <3>2
  <2>5. QED
    BY <1>2, <2>1, <2>4
<1>7. CASE PipelineStep \/ \E a \in Answers : Repeat(a)
  <2>1. /\ UNCHANGED <<pend, bound, written, expected, cleaned>>
        /\ \A a : (Reaped' <=> Reaped) /\ (Got(a)' <=> Got(a)) /\ (Held(a)' <=> Held(a))
    BY <1>7 DEF PipelineStep, EmitResult, EmitEnd, EmitCleanupEnd, Repeat, Reaped, Got,
       Held, Unacked
  <2>2. PICK e \in Answers : Publish(e) /\ emitted' \subseteq emitted \cup {e}
    <3>1. /\ \A r \in Results : r \in Answers
          /\ \A q \in Queries : \A i \in {"end", "cleanup"} : [query |-> q, id |-> i] \in Answers
      BY DEF Answers, Ends
    <3>2. QED
      BY <1>7, <3>1 DEF PipelineStep, EmitResult, EmitEnd, EmitCleanupEnd, Repeat
  <2>3. \A a \in Answers : rq[a] > 0 => rq'[a] > 0
    BY <1>1, <2>2 DEF Publish
  <2>4. emitted' # emitted => Reaped \/ rq'[e] > 0
    <3> SUFFICES ASSUME emitted' # emitted, ~Reaped PROVE rq'[e] > 0
      OBVIOUS
    <3>1. taken # {}
      BY <1>7, MessagesType DEF PipelineStep, EmitResult, EmitEnd, EmitCleanupEnd, Repeat, Reaped
    <3>2. bound
      BY <3>1 DEF Custody
    <3>3. QED
      BY <1>1, <2>2, <3>2 DEF Publish
  <2>5. ASSUME NEW a \in emitted'
        PROVE  Reaped' \/ Got(a)' \/ rq'[a] > 0 \/ Held(a)'
    <3>1. CASE a \in emitted
      BY <1>1, <2>1, <2>3, <3>1 DEF NoAnswerLost
    <3>2. CASE a \notin emitted
      BY <2>1, <2>2, <2>4, <2>5, <3>2
    <3>3. QED
      BY <3>1, <3>2
  <2>6. QED
    BY <2>5 DEF NoAnswerLost
<1>8. CASE DeleteQueue
  BY <1>8, Monotone DEF DeleteQueue, Custody, NoAnswerLost
<1>9. CASE GatewayCrash
  <2>1. UNCHANGED <<emitted, cleaned>> /\ Requeue(Holding) /\ Holding \in SUBSET Sessions
    BY <1>9 DEF GatewayCrash, Holding
  <2>2. ASSUME NEW a \in emitted, rq[a] > 0 \/ Held(a)
        PROVE  Reaped' \/ rq'[a] > 0
    <3>1. \A s \in Sessions : Unacked(s, a) # {} => s \in Holding
      BY DEF Custody, CustodyOf, Unacked
    <3>2. QED
      BY <1>1, <2>1, <2>2, <3>1, GivenBackIsThere DEF Held, Reaped
  <2>3. QED
    BY <1>2, <2>1, <2>2
<1>10. QED
  BY <1>3, <1>4, <1>5, <1>6, <1>7, <1>8, <1>9
  DEF vars, Next, Connect, ClientSteps, ClientSend, ClientReceive, ClientFinish,
      ClientAbort, ClientDies, LeaveSession, Break, HandlerStep, StartHandler,
      HandlerEnd, DeliverSome, PipelineStep, Expire, ReaperStep, Scan,
      ForwardCleanup, RemoveEntry, GatewayRestart

-----------------------------------------------------------------------------
(* What the client has counted *)

LEMMA BooksInit == Init => Books
<1> SUFFICES ASSUME Init PROVE Books
  OBVIOUS
<1>1. \A q \in Queries : Cardinality({} \cap ResultsOf(q)) = 0
  BY FS_EmptySet
<1>2. Counted
  BY <1>1 DEF Init, Counted
<1>3. Published
  BY DEF Init, Published
<1>4. QED
  BY <1>2, <1>3 DEF Init, Books

\* An answer is given back only if a handler held it.
LEMMA GivenBackWasHeld ==
  ASSUME NEW a, NEW ended \in SUBSET Sessions, \A s \in ended : Unacked(s, a) = {}
  PROVE  GivenBack(a, ended) = 0
<1>1. UNION {{s} \X Unacked(s, a) : s \in ended} = {}
  OBVIOUS
<1>2. QED
  BY <1>1, FS_EmptySet DEF GivenBack

LEMMA PublishedRequeue ==
  ASSUME TypeOK, Published, NEW ended \in SUBSET Sessions, Requeue(ended),
         NEW a \in Answers, rq'[a] > 0
  PROVE  a \in emitted
<1>1. rq[a] \in Nat /\ rq'[a] = IF bound THEN rq[a] + GivenBack(a, ended) ELSE rq[a]
  BY DEF Requeue, TypeOK
<1>2. CASE rq[a] > 0
  BY <1>2 DEF Published
<1>3. CASE ~(rq[a] > 0)
  <2>1. GivenBack(a, ended) # 0
    BY <1>1, <1>3
  <2>2. PICK s \in ended : Unacked(s, a) # {}
    BY <2>1, GivenBackWasHeld
  <2>3. QED
    BY <2>2, MessagesAssumption DEF Published, Unacked
<1>4. QED
  BY <1>2, <1>3

LEMMA PublishedStep ==
  ASSUME TypeOK, InFlight, Custody, Published, [Next]_vars
  PROVE  Published'
<1> USE DEF cvars, svars, gvars, bvars, pvars
<1>1. /\ rq \in [Answers -> Nat] /\ emitted \subseteq Answers
      /\ pend \in [Sessions -> Seq(Answers \cup {Acked})]
      /\ down \in [Sessions -> Seq(DownMsgs)]
      /\ Reaped => Reaped'
  BY Monotone DEF TypeOK
<1>2. CASE UNCHANGED <<rq, pend, down, emitted>>
  BY <1>1, <1>2 DEF Published, IsAnswer
<1>3. CASE ClientReceive
  <2>1. /\ cur \in Sessions /\ down[cur] # <<>> /\ down' = [down EXCEPT ![cur] = Tail(@)]
        /\ UNCHANGED <<rq, pend, emitted>>
    BY <1>3, CurrentSession DEF ClientReceive
  <2>2. \A i \in DOMAIN down'[cur] :
          i + 1 \in DOMAIN down[cur] /\ down'[cur][i] = down[cur][i + 1]
    BY <1>1, <2>1, TailElements
  <2>3. ASSUME NEW s \in Sessions, NEW i \in DOMAIN down'[s], IsAnswer(down'[s][i])
        PROVE  down'[s][i].of \in emitted
    <3>1. CASE s = cur
      BY <2>2, <2>3, <3>1 DEF Published, IsAnswer
    <3>2. CASE s # cur
      BY <1>1, <2>1, <2>3, <3>2 DEF Published, IsAnswer
    <3>3. QED
      BY <3>1, <3>2
  <2>4. QED
    BY <1>1, <2>1, <2>3 DEF Published, IsAnswer
<1>4. ASSUME NEW next \in {"idle", "done", "dead"}, LeaveSession(next)
      PROVE  Published'
  <2>1. UNCHANGED <<rq, pend, emitted>> /\ \A s \in Sessions : down'[s] \in {down[s], <<>>}
    BY <1>1, <1>4 DEF LeaveSession
  <2>2. \A s \in Sessions : \A i \in DOMAIN down'[s] :
          i \in DOMAIN down[s] /\ down'[s][i] = down[s][i]
    BY <2>1
  <2>3. QED
    BY <1>1, <2>1, <2>2 DEF Published, IsAnswer
<1>5. ASSUME NEW s \in Sessions, HandlerReceive(s)
      PROVE  Published'
  <2>1. PICK m : ForwardBatch(s, m) \/ OnResultAck(s, m)
    BY <1>5 DEF HandlerReceive
  <2>2. UNCHANGED <<rq, emitted>>
    BY <1>5 DEF HandlerReceive
  <2>3. CASE ForwardBatch(s, m)
    <3> DEFINE ack == [type |-> "ack"]
    <3>1. pend' = pend /\ ack \in DownMsgs /\ ~IsAnswer(ack)
      BY <2>3 DEF ForwardBatch, DownMsgs, IsAnswer
    <3>2. \A z \in Sessions : \/ down'[z] = down[z]
                              \/ down'[z] = Append(down[z], ack)
      BY <1>1, <2>3 DEF ForwardBatch
    <3> HIDE DEF ack
    <3>3. ASSUME NEW z \in Sessions, NEW i \in DOMAIN down'[z], IsAnswer(down'[z][i])
          PROVE  i \in DOMAIN down[z] /\ down'[z][i] = down[z][i]
      <4>1. CASE down'[z] = down[z]
        BY <3>3, <4>1
      <4>2. CASE down'[z] = Append(down[z], ack)
        <5>1. down[z] \in Seq(DownMsgs)
          BY <1>1
        <5>2. QED
          BY <3>1, <3>3, <4>2, <5>1, AppendElements
      <4>3. QED
        BY <3>2, <4>1, <4>2
    <3>4. QED
      BY <1>1, <2>2, <3>1, <3>3 DEF Published, IsAnswer
  <2>4. CASE OnResultAck(s, m)
    <3>1. /\ pend' = [pend EXCEPT ![s][m.ref] = Acked] /\ down' = down
      BY <2>4 DEF OnResultAck
    <3>2. ASSUME NEW z \in Sessions, NEW d \in DOMAIN pend'[z]
          PROVE  pend'[z][d] \in emitted \cup {Acked}
      <4>1. d \in DOMAIN pend[z] /\ pend'[z][d] \in {pend[z][d], Acked}
        BY <1>1, <3>1, <3>2
      <4>2. QED
        BY <4>1 DEF Published
    <3>3. QED
      BY <1>1, <2>2, <3>1, <3>2 DEF Published, IsAnswer
  <2>5. QED
    BY <2>1, <2>3, <2>4
<1>6. CASE GatewayCrash \/ \E s \in Sessions : HandlerClosed(s)
  <2>1. PICK ended \in SUBSET Sessions : Requeue(ended)
    BY <1>6 DEF GatewayCrash, HandlerClosed, Holding
  <2>2. /\ UNCHANGED <<emitted, down>>
        /\ \A z \in Sessions : pend'[z] \in {pend[z], <<>>}
    BY <1>1, <1>6 DEF GatewayCrash, HandlerClosed
  <2>3. \A a \in Answers : rq'[a] > 0 => a \in emitted
    BY <2>1, PublishedRequeue
  <2>4. \A z \in Sessions : \A d \in DOMAIN pend'[z] :
          d \in DOMAIN pend[z] /\ pend'[z][d] = pend[z][d]
    BY <2>2
  <2>5. QED
    BY <1>1, <2>2, <2>3, <2>4 DEF Published, IsAnswer
<1>7. ASSUME NEW s \in Sessions, NEW b \in Answers, Deliver(s, b)
      PROVE  Published'
  <2> DEFINE m == [type |-> "answer", of |-> b, delivery_id |-> DeliveryId(s)]
  <2>1. /\ UNCHANGED emitted /\ b \in emitted
        /\ \A a \in Answers : rq'[a] > 0 => rq[a] > 0
    BY <1>1, <1>7 DEF Deliver, Published
  <2>2. m \in DownMsgs /\ m.of = b
    BY <1>1, LenProperties DEF DownMsgs, DeliveryId
  <2>3. \A z \in Sessions : /\ \/ down'[z] = down[z]
                               \/ down'[z] = Append(down[z], m)
                            /\ \/ pend'[z] = pend[z]
                               \/ pend'[z] = Append(pend[z], b)
    BY <1>1, <1>7 DEF Deliver
  <2> HIDE DEF m
  <2>4. ASSUME NEW z \in Sessions, NEW i \in DOMAIN down'[z], IsAnswer(down'[z][i])
        PROVE  down'[z][i].of \in emitted
    <3>1. (i \in DOMAIN down[z] /\ down'[z][i] = down[z][i]) \/ down'[z][i] = m
      <4>1. down[z] \in Seq(DownMsgs)
        BY <1>1
      <4>2. CASE down'[z] = down[z]
        BY <2>4, <4>2
      <4>3. CASE down'[z] = Append(down[z], m)
        BY <2>2, <2>4, <4>1, <4>3, AppendElements
      <4>4. QED
        BY <2>3, <4>2, <4>3
    <3>2. QED
      BY <2>1, <2>2, <2>4, <3>1 DEF Published, IsAnswer
  <2>5. ASSUME NEW z \in Sessions, NEW d \in DOMAIN pend'[z]
        PROVE  pend'[z][d] \in emitted \cup {Acked}
    <3>1. (d \in DOMAIN pend[z] /\ pend'[z][d] = pend[z][d]) \/ pend'[z][d] = b
      <4>1. pend[z] \in Seq(Answers \cup {Acked}) /\ b \in Answers \cup {Acked}
        BY <1>1
      <4>2. CASE pend'[z] = pend[z]
        BY <2>5, <4>2
      <4>3. CASE pend'[z] = Append(pend[z], b)
        BY <2>5, <4>1, <4>3, AppendElements
      <4>4. QED
        BY <2>3, <4>2, <4>3
    <3>2. QED
      BY <2>1, <3>1 DEF Published
  <2>6. QED
    BY <1>1, <2>1, <2>4, <2>5 DEF Published, IsAnswer
<1>8. CASE PipelineStep \/ \E a \in Answers : Repeat(a)
  <2>1. UNCHANGED <<pend, down, cleaned>>
    BY <1>8 DEF PipelineStep, EmitResult, EmitEnd, EmitCleanupEnd, Repeat
  <2>2. PICK e \in Answers : Publish(e) /\ emitted' = emitted \cup {e}
                             /\ (e \in Ends /\ e.id = "cleanup" => e \in emitted \/ Reaped)
    <3>1. /\ \A r \in Results : r \in Answers /\ r \notin Ends
          /\ \A q \in Queries : \A i \in {"end", "cleanup"} : [query |-> q, id |-> i] \in Answers
      BY MessagesAssumption DEF Answers, Ends
    <3>2. CASE \E r \in Results : EmitResult(r)
      BY <3>1, <3>2 DEF EmitResult
    <3>3. CASE \E q \in Queries : EmitEnd(q)
      BY <3>1, <3>3 DEF EmitEnd
    <3>4. CASE \E q \in Queries : EmitCleanupEnd(q)
      BY <3>1, <3>4 DEF EmitCleanupEnd, Reaped
    <3>5. CASE \E a \in Answers : Repeat(a)
      BY <3>5 DEF Repeat
    <3>6. QED
      BY <1>8, <3>2, <3>3, <3>4, <3>5 DEF PipelineStep
  <2>3. \A a \in Answers : rq'[a] > 0 => a \in emitted'
    BY <1>1, <2>2 DEF Publish, Published
  <2>4. \A x \in emitted' \cap Ends : x.id = "cleanup" => Reaped'
    BY <1>1, <2>2 DEF Published
  <2>5. QED
    BY <2>1, <2>2, <2>3, <2>4 DEF Published, IsAnswer
<1>9. CASE DeleteQueue
  <2>1. /\ UNCHANGED <<down, emitted>> /\ \A a \in Answers : rq'[a] = 0
        /\ \A s \in Sessions : pend'[s] = [d \in DOMAIN pend[s] |-> Acked]
    BY <1>9 DEF DeleteQueue
  <2>2. \A s \in Sessions : \A d \in DOMAIN pend'[s] : pend'[s][d] = Acked
    BY <2>1
  <2>3. QED
    BY <1>1, <2>1, <2>2 DEF Published, IsAnswer
<1>10. QED
  BY <1>2, <1>3, <1>4, <1>5, <1>6, <1>7, <1>8, <1>9
  DEF vars, Next, Connect, ClientSteps, ClientSend, ClientFinish, ClientAbort,
      ClientDies, Break, HandlerStep, StartHandler, HandlerEnd, DeliverSome,
      PipelineStep, Expire, ReaperStep, Scan, ForwardCleanup, RemoveEntry, GatewayRestart

\* A query that is counted to the end has all its results.
LEMMA AllCounted ==
  ASSUME NEW q, NEW S \in SUBSET Results,
         Cardinality(S \cap ResultsOf(q)) >= Cardinality(ResultsOf(q))
  PROVE  ResultsOf(q) \subseteq S
<1>1. /\ IsFiniteSet(ResultsOf(q)) /\ S \cap ResultsOf(q) \in SUBSET ResultsOf(q)
      /\ Cardinality(S \cap ResultsOf(q)) \in Nat /\ Cardinality(ResultsOf(q)) \in Nat
  BY ResultsFinite
<1>2. Cardinality(S \cap ResultsOf(q)) = Cardinality(ResultsOf(q))
  BY <1>1, FS_Subset
<1>3. QED
  BY <1>1, <1>2, FS_Subset

LEMMA CountedTake ==
  ASSUME TypeOK, Counted, NEW r \in Results, TakeResult(r)
  PROVE  Counted'
<1>1. CASE r \in seen
  BY <1>1 DEF TakeResult, Counted
<1>2. CASE r \notin seen
  <2>1. /\ seen' = seen \cup {r} /\ written' = [written EXCEPT ![r] = @ + 1]
        /\ received' = [received EXCEPT ![r.query] = @ + 1]
        /\ r.query \in Queries /\ seen \in SUBSET Results
    BY <1>2 DEF TakeResult, Queries, TypeOK
  <2>2. \A x \in Results : written'[x] = IF x \in seen' THEN 1 ELSE 0
    BY <1>2, <2>1 DEF Counted, TypeOK
  <2>3. ASSUME NEW q \in Queries
        PROVE  received'[q] = Cardinality(seen' \cap ResultsOf(q))
    <3>1. CASE q = r.query
      <4>1. seen' \cap ResultsOf(q) = (seen \cap ResultsOf(q)) \cup {r}
        BY <2>1, <3>1 DEF ResultsOf
      <4>2. IsFiniteSet(seen \cap ResultsOf(q)) /\ r \notin seen \cap ResultsOf(q)
        BY <1>2, <2>1, ResultsFinite
      <4>3. Cardinality(seen' \cap ResultsOf(q)) = Cardinality(seen \cap ResultsOf(q)) + 1
        BY <4>1, <4>2, FS_AddElement
      <4>4. QED
        BY <2>1, <3>1, <4>3 DEF Counted, TypeOK
    <3>2. CASE q # r.query
      <4>1. seen' \cap ResultsOf(q) = seen \cap ResultsOf(q)
        BY <2>1, <3>2 DEF ResultsOf
      <4>2. QED
        BY <2>1, <3>2, <4>1 DEF Counted, TypeOK
    <3>3. QED
      BY <3>1, <3>2
  <2>4. QED
    BY <2>2, <2>3 DEF Counted
<1>3. QED
  BY <1>1, <1>2

\* A result that the client takes, and what it makes of the count of its query.
LEMMA TakeStep ==
  ASSUME TypeOK, Books, NEW m, m.of \in Results, HandleQueryResult(m)
  PROVE  /\ Counted' /\ UNCHANGED expected
         /\ seen \subseteq seen' /\ finalized' \subseteq finalized \cup {m.of.query}
         /\ Reaped \/ m.of.query \notin finalized' \ finalized
              \/ ResultsOf(m.of.query) \subseteq seen'
<1> DEFINE q == m.of.query
<1>1. Counted' /\ UNCHANGED expected /\ TakeResult(m.of) /\ q \in Queries
  BY CountedTake DEF Books, HandleQueryResult, Queries
<1>2. seen \subseteq seen' /\ seen' \in SUBSET Results
  BY <1>1, TypeTakeResult DEF TakeResult
<1>3. finalized' \subseteq finalized \cup {q}
  BY DEF HandleQueryResult, MaybeFinalize
<1>4. ASSUME ~Reaped, q \in finalized' \ finalized
      PROVE  ResultsOf(q) \subseteq seen'
  <2>1. PICK n \in expected[q] : received'[q] >= n
    BY <1>4 DEF HandleQueryResult, MaybeFinalize
  <2>2. n = Cardinality(ResultsOf(q))
    BY <1>1, <1>4, <2>1 DEF Books
  <2>3. received'[q] = Cardinality(seen' \cap ResultsOf(q))
    BY <1>1 DEF Counted
  <2>4. QED
    BY <1>2, <2>1, <2>2, <2>3, AllCounted
<1>5. QED
  BY <1>1, <1>2, <1>3, <1>4

\* An end that the client takes.
LEMMA EndStep ==
  ASSUME TypeOK, Books, NEW m, m.of \in Ends, m.of \in emitted, HandleQueryEnd(m)
  PROVE  /\ UNCHANGED <<seen, written, received>>
         /\ \A q \in Queries : Reaped \/ expected'[q] \subseteq {Cardinality(ResultsOf(q))}
         /\ finalized' \subseteq finalized \cup {m.of.query}
         /\ Reaped \/ m.of.query \notin finalized' \ finalized
              \/ ResultsOf(m.of.query) \subseteq seen
<1> DEFINE q == m.of.query
<1>1. /\ UNCHANGED <<seen, written, received>> /\ q \in Queries /\ seen \in SUBSET Results
      /\ expected' = [expected EXCEPT ![q] = {Announces(m.of)}]
  BY AnnouncesType DEF HandleQueryEnd, TypeOK
<1>2. ~Reaped => Announces(m.of) = Cardinality(ResultsOf(q))
  BY DEF Books, Published, Announces
<1>3. \A x \in Queries : Reaped \/ expected'[x] \subseteq {Cardinality(ResultsOf(x))}
  BY <1>1, <1>2 DEF Books, TypeOK
<1>4. finalized' \subseteq finalized \cup {q}
  BY DEF HandleQueryEnd, MaybeFinalize
<1>5. ASSUME ~Reaped, q \in finalized' \ finalized
      PROVE  ResultsOf(q) \subseteq seen
  <2>1. PICK n \in expected'[q] : received[q] >= n
    BY <1>5 DEF HandleQueryEnd, MaybeFinalize
  <2>2. n = Cardinality(ResultsOf(q))
    BY <1>1, <1>3, <1>5, <2>1
  <2>3. received[q] = Cardinality(seen \cap ResultsOf(q))
    BY <1>1 DEF Books, Counted
  <2>4. QED
    BY <1>1, <2>1, <2>2, <2>3, AllCounted
<1>6. QED
  BY <1>1, <1>3, <1>4, <1>5

\* What the client receives, one of three.
LEMMA ReceiveCases ==
  ASSUME TypeOK, InFlight, Books, ClientReceive
  PROVE  /\ UNCHANGED <<client, cleaned>>
         /\ \/ UNCHANGED <<seen, written, received, expected, finalized>>
            \/ \E m : m.of \in Results /\ HandleQueryResult(m)
            \/ \E m : m.of \in Ends /\ m.of \in emitted /\ HandleQueryEnd(m)
<1>1. cur \in Sessions /\ down[cur] # <<>> /\ down[cur] \in Seq(DownMsgs)
  BY CurrentSession DEF ClientReceive, TypeOK
<1>2. 1 \in DOMAIN down[cur] /\ Head(down[cur]) = down[cur][1]
  BY <1>1, TailElements
<1>3. Head(down[cur]).type = "answer" => Head(down[cur]).of \in emitted
  BY <1>1, <1>2 DEF Books, Published, IsAnswer
<1>4. QED
  BY <1>3 DEF ClientReceive, HandleAck, pvars

LEMMA BooksStep ==
  ASSUME TypeOK, InFlight, Custody, Books, [Next]_vars
  PROVE  Books'
<1> USE DEF cvars, svars, gvars, bvars, pvars
<1>1. Published' /\ (Reaped => Reaped')
  BY PublishedStep, Monotone DEF Books
<1>2. CASE UNCHANGED <<seen, written, received, expected, finalized>>
  BY <1>1, <1>2 DEF Books, Counted
<1>3. CASE ClientReceive
  <2>1. ASSUME NEW m, m.of \in Results, HandleQueryResult(m)
        PROVE  Books'
    BY <1>1, <2>1, TakeStep DEF Books
  <2>2. ASSUME NEW m, m.of \in Ends, m.of \in emitted, HandleQueryEnd(m)
        PROVE  Books'
    BY <1>1, <2>2, EndStep DEF Books, Counted
  <2>3. QED
    BY <1>2, <1>3, <2>1, <2>2, ReceiveCases
<1>4. QED
  BY <1>2, <1>3
  DEF vars, Next, Connect, ClientSteps, ClientSend, ClientFinish,
      ClientAbort, ClientDies, LeaveSession, Break, HandlerStep, StartHandler,
      HandlerReceive, HandlerEnd, HandlerClosed, DeliverSome, Deliver, PipelineStep,
      EmitResult, EmitEnd, EmitCleanupEnd, Repeat, Expire, ReaperStep, Scan,
      ForwardCleanup, DeleteQueue, RemoveEntry, GatewayCrash, GatewayRestart

-----------------------------------------------------------------------------
(* Theorems *)

\* The inductive invariant holds throughout, whatever breaks and crashes.
THEOREM InductiveInvariant == Spec => []Inductive
<1>1. Init => Inductive
  BY TypeInit, InFlightInit, CustodyInit, NoAnswerLostInit, BooksInit DEF Inductive
<1>2. Inductive /\ [Next]_vars => Inductive'
  <2> SUFFICES ASSUME Inductive, [Next]_vars PROVE Inductive'
    OBVIOUS
  <2>1. TypeOK /\ InFlight /\ PipelineHasPrefix /\ Custody /\ NoAnswerLost /\ Books
    BY DEF Inductive
  <2>2. TypeOK' /\ InFlight' /\ PipelineHasPrefix'
    BY <2>1, TypeStep, InFlightStep
  <2>3. Custody'
    BY <2>1, CustodySessionStep, CustodyOfQueue DEF Custody
  <2>4. NoAnswerLost' /\ Books'
    BY <2>1, NoAnswerLostStep, BooksStep
  <2>5. QED
    BY <2>2, <2>3, <2>4 DEF Inductive
<1>3. QED
  BY <1>1, <1>2, PTL DEF Spec

\* Every variable keeps its type.
THEOREM TypeCorrect == Spec => []TypeOK
<1>1. Inductive => TypeOK
  BY DEF Inductive
<1>2. QED
  BY <1>1, InductiveInvariant, PTL

\* However often sessions break between the forwarding of a batch and its
\* ack, the pipeline takes the client's messages in order, without a gap.
THEOREM PipelineHasPrefixHolds == Spec => []PipelineHasPrefix
<1>1. Inductive => PipelineHasPrefix
  BY DEF Inductive
<1>2. QED
  BY <1>1, InductiveInvariant, PTL

\* An answer that was published is in the files, in the broker or with a
\* handler that gives it back, until the reaper cleans up.
THEOREM NoAnswerLostHolds == Spec => []NoAnswerLost
<1>1. Inductive => NoAnswerLost
  BY DEF Inductive
<1>2. QED
  BY <1>1, InductiveInvariant, PTL

\* The client's view of its answers is that of QueryAnswers: each result is
\* written once, and a query ends with all of them or after a cleanup.
THEOREM Refinement == Spec => Promise!Spec
<1>1. Init => Promise!Init
  BY DEF Init, Promise!Init, Reaped
<1>2. Inductive /\ [Next]_vars => [Promise!Next]_(Promise!vars)
  <2> SUFFICES ASSUME Inductive, [Next]_vars PROVE [Promise!Next]_(Promise!vars)
    OBVIOUS
  <2> DEFINE GivenUp == Reaped \/ client = "dead"
  <2>1. TypeOK /\ InFlight /\ Custody /\ Books /\ (Reaped => Reaped')
    BY Monotone DEF Inductive
  <2>2. \A q : Promise!ResultsOf(q) = ResultsOf(q)
    BY DEF Promise!ResultsOf, ResultsOf
  <2>3. \A q \in finalized : GivenUp \/ \A x \in ResultsOf(q) : written[x] = 1
    BY <2>1 DEF Books, Counted, ResultsOf
  <2>4. CASE ClientReceive
    <3>1. GivenUp' = GivenUp
      BY <2>1, <2>4, ReceiveCases DEF Reaped
    <3>2. ASSUME NEW m, m.of \in Results, HandleQueryResult(m)
          PROVE  [Promise!Next]_(Promise!vars)
      <4>1. /\ Counted' /\ seen \subseteq seen' /\ finalized' \subseteq finalized \cup {m.of.query}
            /\ Reaped \/ m.of.query \notin finalized' \ finalized
                 \/ ResultsOf(m.of.query) \subseteq seen'
        BY <2>1, <3>2, TakeStep
      <4>2. CASE m.of \in seen
        <5>1. UNCHANGED <<written, finalized>>
          BY <3>2, <4>2 DEF HandleQueryResult, TakeResult
        <5>2. QED
          BY <3>1, <5>1 DEF Promise!vars
      <4>3. CASE m.of \notin seen
        <5>1. written[m.of] = 0 /\ written' = [written EXCEPT ![m.of] = 1]
          BY <2>1, <3>2, <4>3 DEF HandleQueryResult, TakeResult, Books, Counted, TypeOK
        <5>2. finalized' \in {finalized, finalized \cup {m.of.query}}
          BY <3>2, <4>3 DEF HandleQueryResult, MaybeFinalize
        <5>3. GivenUp \/ \A q \in finalized' : \A x \in ResultsOf(q) : written'[x] = 1
          BY <2>1, <4>1 DEF Books, Counted, ResultsOf
        <5>4. Promise!Write(m.of)
          BY <2>2, <3>1, <5>1, <5>2, <5>3 DEF Promise!Write
        <5>5. QED
          BY <3>2, <5>4 DEF Promise!Next, Promise!Serve
      <4>4. QED
        BY <4>2, <4>3
    <3>3. ASSUME NEW m, m.of \in Ends, m.of \in emitted, HandleQueryEnd(m)
          PROVE  [Promise!Next]_(Promise!vars)
      <4> DEFINE q == m.of.query
      <4>1. /\ UNCHANGED <<seen, written>> /\ finalized' \subseteq finalized \cup {q}
            /\ Reaped \/ q \notin finalized' \ finalized \/ ResultsOf(q) \subseteq seen
            /\ q \in Queries
        BY <2>1, <3>3, EndStep, AnnouncesType
      <4>2. CASE q \notin finalized' \ finalized
        <5>1. finalized' = finalized
          BY <3>3, <4>1, <4>2 DEF HandleQueryEnd, MaybeFinalize
        <5>2. QED
          BY <3>1, <4>1, <5>1 DEF Promise!vars
      <4>3. CASE q \in finalized' \ finalized
        <5>1. finalized' = finalized \cup {q}
          BY <3>3, <4>1, <4>3 DEF HandleQueryEnd, MaybeFinalize
        <5>2. (\A x \in ResultsOf(q) : written[x] = 1) \/ GivenUp
          BY <2>1, <4>1, <4>3 DEF Books, Counted, ResultsOf
        <5>3. Promise!End(q)
          BY <2>2, <3>1, <4>1, <4>3, <5>1, <5>2 DEF Promise!End, Promise!Complete
        <5>4. q \in Promise!Queries
          BY <4>1 DEF Queries, Promise!Queries
        <5>5. QED
          BY <5>3, <5>4 DEF Promise!Next, Promise!Serve
      <4>4. QED
        BY <4>2, <4>3
    <3>4. CASE UNCHANGED <<seen, written, received, expected, finalized>>
      BY <3>1, <3>4 DEF Promise!vars
    <3>5. QED
      BY <2>1, <2>4, <3>2, <3>3, <3>4, ReceiveCases
  <2>5. CASE ~ClientReceive
    <3>1. UNCHANGED <<written, finalized>>
      BY <2>5 DEF vars, cvars, svars, Next, Connect, ClientSteps, ClientSend, ClientFinish,
         ClientAbort, ClientDies, LeaveSession, Break, HandlerStep, StartHandler,
         HandlerReceive, HandlerEnd, HandlerClosed, DeliverSome, Deliver, PipelineStep,
         EmitResult, EmitEnd, EmitCleanupEnd, Repeat, Expire, ReaperStep, Scan,
         ForwardCleanup, DeleteQueue, RemoveEntry, GatewayCrash, GatewayRestart
    <3>2. client = "dead" => client' = "dead"
      BY <2>5 DEF vars, cvars, svars, Next, Connect, ClientSteps, ClientSend, ClientFinish,
         ClientAbort, ClientDies, LeaveSession, Break, HandlerStep, StartHandler,
         HandlerReceive, HandlerEnd, HandlerClosed, DeliverSome, Deliver, PipelineStep,
         EmitResult, EmitEnd, EmitCleanupEnd, Repeat, Expire, ReaperStep, Scan,
         ForwardCleanup, DeleteQueue, RemoveEntry, GatewayCrash, GatewayRestart
    <3>3. GivenUp => GivenUp'
      BY <2>1, <3>2
    <3>4. CASE GivenUp' = GivenUp
      BY <3>1, <3>4 DEF Promise!vars
    <3>5. CASE ~GivenUp /\ GivenUp'
      BY <3>1, <3>5 DEF Promise!Next, Promise!GiveUp
    <3>6. QED
      BY <3>3, <3>4, <3>5
  <2>6. QED
    BY <2>4, <2>5
<1>3. QED
  BY <1>1, <1>2, InductiveInvariant, PTL DEF Spec, Promise!Spec
=============================================================================
