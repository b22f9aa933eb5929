------------------------- MODULE StatefulRing_types -------------------------
(***************************************************************************)
(* Type correctness of StatefulRing, wherever the nodes crash, and what    *)
(* each action does to a well-typed state: the lemmas on which the proof   *)
(* of the safety invariants, StatefulRing_proofs, rests.                   *)
(***************************************************************************)
EXTENDS StatefulRing, FiniteSetTheorems, SequenceTheorems, TLAPS

-----------------------------------------------------------------------------
(* The invariant *)

MainSteps    == {"data", "eof", "eof_logged"}
ControlSteps == {"count", "elect", "flush", "passed"}

\* A running handler has its delivery, which is new to the node, at the head
\* of the queue.
Handling(n) ==
  /\ step[n] \in MainSteps => mainq[n] # <<>> /\ Head(mainq[n]) \notin mem[n].main
  /\ step[n] \in ControlSteps =>
       ctlq[n] # <<>> /\ TokenId(Head(ctlq[n])) \notin mem[n].control

\* A token has a coordinator on the flush lap, and only there.
Phased(t) == t.phase = "flush" <=> t.coordinator # None

Typed ==
  /\ TypeOK
  /\ \A n \in Nodes : Handling(n) /\ \A i \in DOMAIN ctlq[n] : Phased(ctlq[n][i])

\* The result, if any, of the delivery at the head of the main queue.
Added(n) == {Head(mainq[n])} \cap Results

Record(main, control, buffer, processed, partial, sent, partialSent) ==
  [main |-> main, control |-> control, buffer |-> buffer, processed |-> processed,
   partial |-> partial, sent |-> sent, partialSent |-> partialSent]

\* A step of node n changes no other node, but for the queue it sends to.
OnlyAt(n) ==
  \A m \in Nodes \ {n} : mem'[m] = mem[m] /\ disk'[m] = disk[m]
                         /\ step'[m] = step[m] /\ mainq'[m] = mainq[m]

-----------------------------------------------------------------------------
(* The initial state *)

LEMMA RecordFields ==
  ASSUME NEW r, NEW a, NEW b, NEW c, NEW d, NEW e, NEW f, NEW g,
         r = Record(a, b, c, d, e, f, g)
  PROVE  /\ r.main = a /\ r.control = b /\ r.buffer = c /\ r.processed = d
         /\ r.partial = e /\ r.sent = f /\ r.partialSent = g
BY DEF Record

LEMMA RingNodes ==
  /\ 0 \in Nodes /\ N \in Nat \ {0} /\ IsFiniteSet(Nodes)
  /\ \A n \in Nodes : /\ n \in Nat /\ n < N /\ NextNode(n) \in Nodes
                      /\ NextNode(n) = IF n = N - 1 THEN 0 ELSE n + 1
<1>1. N \in Nat \ {0}
  BY ParametersAssumption
<1>2. IsFiniteSet(Nodes)
  BY <1>1, FS_Interval DEF Nodes
<1>3. ASSUME NEW n \in Nodes
      PROVE  n \in Nat /\ n < N /\ NextNode(n) = (IF n = N - 1 THEN 0 ELSE n + 1)
  BY <1>1 DEF NextNode, Nodes
<1>4. \A n \in Nodes : NextNode(n) \in Nodes
  BY <1>1, <1>3 DEF Nodes
<1>5. QED
  BY <1>1, <1>2, <1>3, <1>4 DEF Nodes

LEMMA BlankRecord == Blank \in Records
  BY DEF Blank, Records

\* An order of a stream is a sequence of it.
LEMMA OrderedStream ==
  ASSUME NEW n \in Nodes, NEW q \in SetToSeqs(Stream(n))
  PROVE  /\ q \in Seq(Data \cup {Eof})
         /\ \A i \in DOMAIN q : q[i] \in Stream(n)
<1>1. Stream(n) \subseteq Data \cup {Eof} /\ IsFiniteSet(Stream(n))
  <2>1. IsFiniteSet({d \in Data : ShardOf[d] = n})
    BY FS_Subset, ParametersAssumption
  <2>2. IsFiniteSet({Eof}) /\ IsFiniteSet({})
    BY FS_Singleton, FS_EmptySet
  <2>3. QED
    BY <2>1, <2>2, FS_Union DEF Stream
<1>2. q \in [1 .. Cardinality(Stream(n)) -> Stream(n)]
  BY DEF SetToSeqs
<1>3. Cardinality(Stream(n)) \in Nat
  BY <1>1, FS_CardinalityType
<1>4. q \in Seq(Stream(n))
  BY <1>2, <1>3, SeqDef
<1>5. QED
  BY <1>1, <1>2, <1>4, SeqMonotonic

LEMMA TypedInit == Init => Typed
<1> SUFFICES ASSUME Init PROVE Typed
  OBVIOUS
<1>1. mainq \in [Nodes -> Seq(Data \cup {Eof})]
  BY OrderedStream DEF Init
<1>2. <<>> \in Seq(Tokens)
  BY EmptySeq
<1>3. TypeOK
  BY <1>1, <1>2, BlankRecord, ParametersAssumption DEF Init, TypeOK, Steps
<1>4. \A n \in Nodes : Handling(n)
  BY DEF Init, Handling, MainSteps, ControlSteps
<1>5. \A n \in Nodes : DOMAIN ctlq[n] = {}
  BY DEF Init
<1>6. QED
  BY <1>3, <1>4, <1>5 DEF Typed

-----------------------------------------------------------------------------
(* Queues *)

LEMMA HeadTyped ==
  ASSUME NEW S, NEW q \in Seq(S), q # <<>>
  PROVE  Head(q) \in S /\ Tail(q) \in Seq(S) /\ Head(q) = q[1] /\ 1 \in DOMAIN q
<1>1. Len(q) \in Nat \ {0} /\ DOMAIN q = 1 .. Len(q)
  BY EmptySeq, LenProperties
<1>2. QED
  BY <1>1, HeadTailProperties

LEMMA AppendTyped ==
  ASSUME NEW S, NEW q \in Seq(S), NEW e \in S
  PROVE  /\ Append(q, e) \in Seq(S) /\ Append(q, e) # <<>>
         /\ q # <<>> => Head(Append(q, e)) = Head(q)
         /\ DOMAIN Append(q, e) = DOMAIN q \cup {Len(q) + 1}
         /\ \A i \in DOMAIN q : Append(q, e)[i] = q[i] /\ i < Len(q) + 1
         /\ Append(q, e)[Len(q) + 1] = e
         /\ Len(q) \in Nat /\ Len(q) + 1 \notin DOMAIN q /\ DOMAIN q \subseteq Nat
<1>1. /\ Append(q, e) \in Seq(S) /\ Append(q, e) # <<>>
      /\ Len(Append(q, e)) = Len(q) + 1
      /\ \A i \in 1 .. Len(q) : Append(q, e)[i] = q[i]
      /\ Append(q, e)[Len(q) + 1] = e
  BY AppendProperties
<1>2. DOMAIN q = 1 .. Len(q) /\ Len(q) \in Nat
  BY LenProperties
<1>3. DOMAIN Append(q, e) = 1 .. Len(q) + 1
  BY <1>1, LenProperties
<1>4. q # <<>> => Head(Append(q, e)) = Head(q)
  BY <1>1, <1>2, HeadTyped
<1>5. QED
  BY <1>1, <1>2, <1>3, <1>4

LEMMA TailTyped ==
  ASSUME NEW S, NEW q \in Seq(S), q # <<>>
  PROVE  /\ Tail(q) \in Seq(S)
         /\ \A i \in DOMAIN Tail(q) :
              i \in Nat \ {0} /\ i + 1 \in DOMAIN q /\ Tail(q)[i] = q[i + 1]
         /\ \A i \in DOMAIN q : i = 1 \/ (i - 1 \in DOMAIN Tail(q) /\ Tail(q)[i - 1] = q[i])
<1>1. Len(q) \in Nat \ {0} /\ DOMAIN q = 1 .. Len(q)
  BY EmptySeq, LenProperties
<1>2. /\ Tail(q) \in Seq(S) /\ Len(Tail(q)) = Len(q) - 1
      /\ \A i \in 1 .. Len(Tail(q)) : Tail(q)[i] = q[i + 1]
  BY HeadTailProperties
<1>3. DOMAIN Tail(q) = 1 .. Len(q) - 1
  BY <1>2, LenProperties
<1>4. QED
  BY <1>1, <1>2, <1>3

\* Sending a token changes one queue, and no head but that of an empty one.
LEMMA SendTyped ==
  ASSUME TypeOK, NEW n \in Nodes, NEW t \in Tokens, SendToken(n, t)
  PROVE  /\ ctlq' \in [Nodes -> Seq(Tokens)]
         /\ \A m \in Nodes :
              ctlq'[m] = IF m = NextNode(n) THEN Append(ctlq[m], t) ELSE ctlq[m]
         /\ \A m \in Nodes : ctlq[m] # <<>> =>
              ctlq'[m] # <<>> /\ Head(ctlq'[m]) = Head(ctlq[m])
<1>1. NextNode(n) \in Nodes /\ ctlq \in [Nodes -> Seq(Tokens)]
  BY RingNodes DEF TypeOK
<1>2. Append(ctlq[NextNode(n)], t) \in Seq(Tokens)
  BY <1>1, AppendTyped
<1>3. ctlq' = [ctlq EXCEPT ![NextNode(n)] = Append(@, t)]
  BY DEF SendToken
<1>4. \A m \in Nodes : ctlq[m] # <<>> =>
        Append(ctlq[m], t) # <<>> /\ Head(Append(ctlq[m], t)) = Head(ctlq[m])
  BY <1>1, AppendTyped
<1>5. QED
  BY <1>1, <1>2, <1>3, <1>4

-----------------------------------------------------------------------------
(* The steps *)

\* A node keeps its delivery while its queue keeps its head.
LEMMA HandlingStays ==
  ASSUME NEW m \in Nodes, Handling(m),
         step'[m] = step[m], mem'[m] = mem[m],
         step[m] \in MainSteps => mainq'[m] = mainq[m],
         ctlq[m] # <<>> => ctlq'[m] # <<>> /\ Head(ctlq'[m]) = Head(ctlq[m])
  PROVE  Handling(m)'
BY DEF Handling, MainSteps, ControlSteps, TokenId

\* What a record is whose fields are known.
LEMMA RecordTyped ==
  ASSUME NEW r \in Records
  PROVE  /\ r = Record(r.main, r.control, r.buffer, r.processed, r.partial,
                       r.sent, r.partialSent)
         /\ r.main \in SUBSET (Data \cup {Eof}) /\ r.control \in SUBSET TokenIds
         /\ r.buffer \in SUBSET Data /\ r.processed \in Nat /\ r.partial \in Nat
         /\ r.sent \in Nat /\ r.partialSent \in Nat
BY DEF Records, Record

LEMMA BufferDataEffect ==
  ASSUME Typed, NEW n \in Nodes, BufferData(n)
  PROVE  /\ TypeOK' /\ OnlyAt(n)
         /\ ~eager /\ step[n] = "free" /\ step'[n] = "data"
         /\ mainq[n] # <<>> /\ Head(mainq[n]) \in Data /\ Head(mainq[n]) \notin mem[n].main
         /\ mem'[n] = Record(mem[n].main, mem[n].control,
              mem[n].buffer \cup Added(n), mem[n].processed + 1,
              mem[n].partial, mem[n].sent, mem[n].partialSent)
         /\ UNCHANGED <<eager, mainq, ctlq, disk, out, finals, crashes>>
<1>0. TypeOK /\ mem \in [Nodes -> Records] /\ mem[n] \in Records /\ step \in [Nodes -> Steps]
  BY DEF Typed, TypeOK
<1>1. PICK d \in Data :
        /\ ~eager /\ step[n] = "free" /\ mainq[n] # <<>>
        /\ d = Head(mainq[n]) /\ d \notin mem[n].main
        /\ mem' = [mem EXCEPT ![n].processed = @ + 1,
                              ![n].buffer = @ \cup ({d} \cap Results)]
  BY DEF BufferData, TakesMain
<1>2. /\ step' = [step EXCEPT ![n] = "data"]
      /\ UNCHANGED <<eager, mainq, ctlq, disk, out, finals, crashes>>
  BY DEF BufferData
<1>3. mem'[n] = Record(mem[n].main, mem[n].control, mem[n].buffer \cup Added(n),
                       mem[n].processed + 1, mem[n].partial, mem[n].sent,
                       mem[n].partialSent)
  BY <1>0, <1>1 DEF Records, Record, Added
<1>4. mem'[n] \in Records
  BY <1>0, <1>1, <1>3, ParametersAssumption DEF Records, Record, Added
<1>5. mem' \in [Nodes -> Records] /\ \A m \in Nodes \ {n} : mem'[m] = mem[m]
  BY <1>0, <1>1, <1>4
<1>6. /\ step' \in [Nodes -> Steps] /\ step'[n] = "data"
      /\ \A m \in Nodes \ {n} : step'[m] = step[m]
  BY <1>0, <1>2 DEF Steps
<1>7. QED
  BY <1>0, <1>1, <1>2, <1>3, <1>5, <1>6 DEF TypeOK, OnlyAt

LEMMA AddedTyped ==
  ASSUME NEW n \in Nodes
  PROVE  /\ Added(n) \subseteq Results /\ Added(n) \subseteq Data
         /\ Cardinality(Added(n)) \in Nat
<1>1. IsFiniteSet({Head(mainq[n])})
  BY FS_Singleton
<1>2. QED
  BY <1>1, FS_Subset, FS_CardinalityType, ParametersAssumption DEF Added

LEMMA ForwardDataEffect ==
  ASSUME Typed, NEW n \in Nodes, ForwardData(n)
  PROVE  /\ TypeOK' /\ OnlyAt(n)
         /\ eager /\ step[n] = "free" /\ step'[n] = "data"
         /\ mainq[n] # <<>> /\ Head(mainq[n]) \in Data /\ Head(mainq[n]) \notin mem[n].main
         /\ mem'[n] = Record(mem[n].main, mem[n].control, mem[n].buffer,
              mem[n].processed + 1, mem[n].partial,
              mem[n].sent + Cardinality(Added(n)), mem[n].partialSent)
         /\ out' = out \cup Added(n)
         /\ UNCHANGED <<eager, mainq, ctlq, disk, finals, crashes>>
<1>0. TypeOK /\ mem \in [Nodes -> Records] /\ mem[n] \in Records /\ step \in [Nodes -> Steps]
  BY DEF Typed, TypeOK
<1>1. PICK d \in Data :
        /\ eager /\ step[n] = "free" /\ mainq[n] # <<>>
        /\ d = Head(mainq[n]) /\ d \notin mem[n].main
        /\ mem' = [mem EXCEPT ![n].processed = @ + 1,
                              ![n].sent = @ + Cardinality({d} \cap Results)]
        /\ out' = out \cup ({d} \cap Results)
  BY DEF ForwardData, TakesMain
<1>2. /\ step' = [step EXCEPT ![n] = "data"]
      /\ UNCHANGED <<eager, mainq, ctlq, disk, finals, crashes>>
  BY DEF ForwardData
<1>3. mem'[n] = Record(mem[n].main, mem[n].control, mem[n].buffer,
                       mem[n].processed + 1, mem[n].partial,
                       mem[n].sent + Cardinality(Added(n)), mem[n].partialSent)
  BY <1>0, <1>1 DEF Records, Record, Added
<1>4. mem'[n] \in Records
  BY <1>0, <1>3, AddedTyped DEF Records, Record
<1>5. mem' \in [Nodes -> Records] /\ \A m \in Nodes \ {n} : mem'[m] = mem[m]
  BY <1>0, <1>1, <1>4
<1>6. /\ step' \in [Nodes -> Steps] /\ step'[n] = "data"
      /\ \A m \in Nodes \ {n} : step'[m] = step[m]
  BY <1>0, <1>2 DEF Steps
<1>7. out' = out \cup Added(n)
  BY <1>1 DEF Added
<1>8. QED
  BY <1>0, <1>1, <1>2, <1>3, <1>5, <1>6, <1>7, AddedTyped DEF TypeOK, OnlyAt

\* The token that node n starts.
StartToken(n) == [phase |-> "count", seq |-> 0, coordinator |-> None,
                  total |-> NewlyProcessed(n), sent |-> NewlySent(n)]

LEMMA HandleEofEffect ==
  ASSUME Typed, NEW n \in Nodes, HandleEof(n)
  PROVE  /\ TypeOK' /\ OnlyAt(n)
         /\ step[n] = "free" /\ step'[n] = "eof"
         /\ mainq[n] # <<>> /\ Head(mainq[n]) = Eof /\ Eof \notin mem[n].main
         /\ mem'[n] = Record(mem[n].main, mem[n].control, mem[n].buffer,
              mem[n].processed, mem[n].processed, mem[n].sent, mem[n].sent)
         /\ StartToken(n) \in Tokens /\ SendToken(n, StartToken(n))
         /\ UNCHANGED <<eager, mainq, disk, out, finals, crashes>>
<1>0. TypeOK /\ mem \in [Nodes -> Records] /\ mem[n] \in Records /\ step \in [Nodes -> Steps]
  BY DEF Typed, TypeOK
<1>1. /\ step[n] = "free" /\ mainq[n] # <<>> /\ Head(mainq[n]) = Eof /\ Eof \notin mem[n].main
      /\ mem' = [mem EXCEPT ![n].partial = mem[n].processed,
                            ![n].partialSent = mem[n].sent]
      /\ SendToken(n, StartToken(n))
      /\ step' = [step EXCEPT ![n] = "eof"]
      /\ UNCHANGED <<eager, mainq, disk, out, finals, crashes>>
  BY DEF HandleEof, TakesMain, StartToken
<1>2. mem'[n] = Record(mem[n].main, mem[n].control, mem[n].buffer,
                       mem[n].processed, mem[n].processed, mem[n].sent, mem[n].sent)
  BY <1>0, <1>1 DEF Records, Record
<1>3. mem'[n] \in Records
  BY <1>0, <1>2 DEF Records, Record
<1>4. mem' \in [Nodes -> Records] /\ \A m \in Nodes \ {n} : mem'[m] = mem[m]
  BY <1>0, <1>1, <1>3
<1>5. /\ step' \in [Nodes -> Steps] /\ step'[n] = "eof"
      /\ \A m \in Nodes \ {n} : step'[m] = step[m]
  BY <1>0, <1>1 DEF Steps
<1>6. StartToken(n) \in Tokens
  BY <1>0 DEF StartToken, Tokens, NewlyProcessed, NewlySent, Records
<1>7. ctlq' \in [Nodes -> Seq(Tokens)]
  BY <1>0, <1>1, <1>6, SendTyped
<1>8. QED
  BY <1>0, <1>1, <1>2, <1>4, <1>5, <1>6, <1>7 DEF TypeOK, OnlyAt

LEMMA LogRingStartEffect ==
  ASSUME Typed, NEW n \in Nodes, LogRingStart(n)
  PROVE  /\ TypeOK' /\ OnlyAt(n)
         /\ step[n] = "eof" /\ step'[n] = "eof_logged"
         /\ disk'[n] = Record(disk[n].main, disk[n].control, disk[n].buffer,
              disk[n].processed, mem[n].partial, mem[n].sent, mem[n].partialSent)
         /\ UNCHANGED <<eager, mainq, ctlq, mem, out, finals, crashes>>
<1>0. /\ TypeOK /\ disk \in [Nodes -> Records] /\ disk[n] \in Records
      /\ mem[n] \in Records /\ step \in [Nodes -> Steps]
  BY DEF Typed, TypeOK
<1>1. /\ step[n] = "eof"
      /\ disk' = [disk EXCEPT ![n] = RingStart(disk[n], mem[n])]
      /\ step' = [step EXCEPT ![n] = "eof_logged"]
      /\ UNCHANGED <<eager, mainq, ctlq, mem, out, finals, crashes>>
  BY DEF LogRingStart
<1>2. disk'[n] = RingStart(disk[n], mem[n]) /\ disk' = [disk EXCEPT ![n] = disk'[n]]
  BY <1>0, <1>1
<1>3. disk'[n] = Record(disk[n].main, disk[n].control, disk[n].buffer,
                        disk[n].processed, mem[n].partial, mem[n].sent,
                        mem[n].partialSent)
  BY <1>0, <1>2 DEF Records, Record, RingStart, WithRing
<1>4. disk'[n] \in Records
  BY <1>0, <1>3 DEF Records, Record
<1>5. disk' \in [Nodes -> Records] /\ \A m \in Nodes \ {n} : disk'[m] = disk[m]
  BY <1>0, <1>2, <1>4
<1>6. /\ step' \in [Nodes -> Steps] /\ step'[n] = "eof_logged"
      /\ \A m \in Nodes \ {n} : step'[m] = step[m]
  BY <1>0, <1>1 DEF Steps
<1>7. QED
  BY <1>0, <1>1, <1>3, <1>5, <1>6 DEF TypeOK, OnlyAt

LEMMA LogMainEffect ==
  ASSUME Typed, NEW n \in Nodes, LogMain(n)
  PROVE  /\ TypeOK' /\ OnlyAt(n)
         /\ step[n] \in {"data", "eof_logged"} /\ step'[n] = "free"
         /\ mainq[n] # <<>> /\ Head(mainq[n]) \notin mem[n].main
         /\ mem'[n] = Record(mem[n].main \cup {Head(mainq[n])}, mem[n].control,
              mem[n].buffer, mem[n].processed, mem[n].partial, mem[n].sent,
              mem[n].partialSent)
         /\ disk'[n] = Record(disk[n].main \cup {Head(mainq[n])}, disk[n].control,
              IF eager THEN disk[n].buffer ELSE disk[n].buffer \cup Added(n),
              IF Head(mainq[n]) = Eof THEN disk[n].processed ELSE disk[n].processed + 1,
              disk[n].partial,
              IF eager THEN disk[n].sent + Cardinality(Added(n)) ELSE disk[n].sent,
              disk[n].partialSent)
         /\ UNCHANGED <<eager, mainq, ctlq, out, finals, crashes>>
<1>0. /\ TypeOK /\ disk \in [Nodes -> Records] /\ disk[n] \in Records
      /\ mem \in [Nodes -> Records] /\ mem[n] \in Records /\ step \in [Nodes -> Steps]
      /\ mainq[n] \in Seq(Data \cup {Eof}) /\ Handling(n)
  BY DEF Typed, TypeOK
<1>1. /\ step[n] \in {"data", "eof_logged"} /\ step' = [step EXCEPT ![n] = "free"]
      /\ UNCHANGED <<eager, mainq, ctlq, out, finals, crashes>>
  BY DEF LogMain
<1>2. PICK m : m = Head(mainq[n])
  OBVIOUS
<1>3. mainq[n] # <<>> /\ m \notin mem[n].main /\ m \in Data \cup {Eof}
  <2>1. mainq[n] # <<>> /\ m \notin mem[n].main
    BY <1>0, <1>1, <1>2 DEF Handling, MainSteps
  <2>2. QED
    BY <1>0, <1>2, <2>1, HeadTyped
<1>4. /\ mem' = [mem EXCEPT ![n].main = @ \cup {m}]
      /\ disk' = [disk EXCEPT
           ![n].main      = @ \cup {m},
           ![n].processed = IF m = Eof THEN @ ELSE @ + 1,
           ![n].buffer    = IF eager THEN @ ELSE @ \cup Added(n),
           ![n].sent      = IF eager THEN @ + Cardinality(Added(n)) ELSE @]
  BY <1>2 DEF LogMain, Added
<1>5. mem'[n] = Record(mem[n].main \cup {m}, mem[n].control, mem[n].buffer,
                 mem[n].processed, mem[n].partial, mem[n].sent, mem[n].partialSent)
  BY <1>0, <1>4 DEF Records, Record
<1>6. disk'[n] = Record(disk[n].main \cup {m}, disk[n].control,
              IF eager THEN disk[n].buffer ELSE disk[n].buffer \cup Added(n),
              IF m = Eof THEN disk[n].processed ELSE disk[n].processed + 1,
              disk[n].partial,
              IF eager THEN disk[n].sent + Cardinality(Added(n)) ELSE disk[n].sent,
              disk[n].partialSent)
  BY <1>0, <1>4 DEF Records, Record
<1>7. mem'[n] \in Records /\ disk'[n] \in Records
  BY <1>0, <1>3, <1>5, <1>6, AddedTyped DEF Records, Record
<1>8. /\ mem' \in [Nodes -> Records] /\ \A k \in Nodes \ {n} : mem'[k] = mem[k]
      /\ disk' \in [Nodes -> Records] /\ \A k \in Nodes \ {n} : disk'[k] = disk[k]
  BY <1>0, <1>4, <1>7
<1>9. /\ step' \in [Nodes -> Steps] /\ step'[n] = "free"
      /\ \A k \in Nodes \ {n} : step'[k] = step[k]
  BY <1>0, <1>1 DEF Steps
<1>10. QED
  BY <1>0, <1>1, <1>2, <1>3, <1>5, <1>6, <1>8, <1>9 DEF TypeOK, OnlyAt

LEMMA AckMainEffect ==
  ASSUME Typed, NEW n \in Nodes, AckMain(n)
  PROVE  /\ TypeOK'
         /\ step[n] # "down" /\ mainq[n] # <<>> /\ Head(mainq[n]) \in mem[n].main
         /\ mainq'[n] = Tail(mainq[n]) /\ \A m \in Nodes \ {n} : mainq'[m] = mainq[m]
         /\ UNCHANGED <<eager, ctlq, step, mem, disk, out, finals, crashes>>
<1>0. /\ TypeOK /\ mainq \in [Nodes -> Seq(Data \cup {Eof})]
  BY DEF Typed, TypeOK
<1>1. /\ step[n] # "down" /\ mainq[n] # <<>> /\ Head(mainq[n]) \in mem[n].main
      /\ mainq' = [mainq EXCEPT ![n] = Tail(mainq[n])]
      /\ UNCHANGED <<eager, ctlq, step, mem, disk, out, finals, crashes>>
  BY DEF AckMain, Up
<1>2. Tail(mainq[n]) \in Seq(Data \cup {Eof})
  BY <1>0, <1>1, HeadTyped
<1>3. QED
  BY <1>0, <1>1, <1>2 DEF TypeOK

LEMMA ExpectedTyped == Expected \in Nat /\ IsFiniteSet(Results) /\ Cardinality(Results) \in Nat
<1>1. IsFiniteSet(Data) /\ IsFiniteSet(Results)
  BY FS_Subset, ParametersAssumption
<1>2. QED
  BY <1>1, FS_CardinalityType DEF Expected

\* What node n makes of the count token t: the next hop, or the first flush
\* token if all messages are accounted for.
Accounted(n, t) == t.total + NewlyProcessed(n) >= Expected

NextHop(n, t) ==
  [phase |-> "count", seq |-> t.seq + 1, total |-> t.total + NewlyProcessed(n),
   sent |-> t.sent + NewlySent(n), coordinator |-> None]

FirstFlush(n, t) ==
  [phase |-> "flush", seq |-> 0, total |-> t.total + NewlyProcessed(n),
   sent |-> t.sent + NewlySent(n), coordinator |-> n]

LEMMA NodeIsSome == \A n \in Nodes : n # None
<1>1. \A n \in Nodes : n >= 0
  BY RingNodes
<1>2. ~(None >= 0)
  BY DEF None
<1>3. QED
  BY <1>1, <1>2

LEMMA CountTokenEffect ==
  ASSUME Typed, NEW n \in Nodes, CountToken(n)
  PROVE  /\ TypeOK' /\ OnlyAt(n)
         /\ step[n] = "free" /\ ctlq[n] # <<>>
         /\ TokenId(Head(ctlq[n])) \notin mem[n].control
         /\ Head(ctlq[n]) \in Tokens /\ Head(ctlq[n]).phase = "count"
         /\ IF Accounted(n, Head(ctlq[n]))
            THEN /\ step'[n] = "elect"
                 /\ FirstFlush(n, Head(ctlq[n])) \in Tokens
                 /\ SendToken(n, FirstFlush(n, Head(ctlq[n])))
            ELSE /\ step'[n] = "count"
                 /\ NextHop(n, Head(ctlq[n])) \in Tokens
                 /\ SendToken(n, NextHop(n, Head(ctlq[n])))
         /\ mem'[n] = Record(mem[n].main, mem[n].control, mem[n].buffer,
              mem[n].processed, mem[n].processed, mem[n].sent, mem[n].sent)
         /\ UNCHANGED <<eager, mainq, disk, out, finals, crashes>>
<1>0. /\ TypeOK /\ mem \in [Nodes -> Records] /\ mem[n] \in Records
      /\ step \in [Nodes -> Steps] /\ ctlq \in [Nodes -> Seq(Tokens)] /\ n # None
  <2>1. n # None
    BY NodeIsSome
  <2>2. QED
    BY <2>1 DEF Typed, TypeOK
<1>1. PICK t : t = Head(ctlq[n])
  OBVIOUS
<1>2. /\ ctlq[n] # <<>> /\ step[n] = "free" /\ TokenId(t) \notin mem[n].control
      /\ t.coordinator = None
      /\ LET u == Updated(n, t)
             elected == u.coordinator = n
         IN /\ SendToken(n, IF elected
                            THEN [u EXCEPT !.phase = "flush", !.seq = 0]
                            ELSE [u EXCEPT !.seq = u.seq + 1])
            /\ step' = [step EXCEPT ![n] = IF elected THEN "elect" ELSE "count"]
      /\ mem' = [mem EXCEPT ![n].partial = mem[n].processed,
                            ![n].partialSent = mem[n].sent]
      /\ UNCHANGED <<eager, mainq, disk, out, finals, crashes>>
  BY <1>1 DEF CountToken, TakesToken
<1>3. t \in Tokens /\ t.phase = "count"
  <2>1. t \in Tokens /\ t = ctlq[n][1] /\ 1 \in DOMAIN ctlq[n]
    BY <1>0, <1>1, <1>2, HeadTyped
  <2>2. QED
    BY <1>2, <2>1 DEF Typed, Phased, Tokens
<1>4. PICK u : u = Updated(n, t)
  OBVIOUS
<1>5. u = [phase |-> t.phase, seq |-> t.seq, total |-> t.total + NewlyProcessed(n),
           sent |-> t.sent + NewlySent(n),
           coordinator |-> IF Accounted(n, t) THEN n ELSE None]
  BY <1>3, <1>4 DEF Updated, Report, Accounted, Tokens
<1>6. u.coordinator = n <=> Accounted(n, t)
  BY <1>0, <1>5
<1>7. NewlyProcessed(n) \in Int /\ NewlySent(n) \in Int
  BY <1>0 DEF NewlyProcessed, NewlySent, Records
<1>8. mem'[n] = Record(mem[n].main, mem[n].control, mem[n].buffer,
                       mem[n].processed, mem[n].processed, mem[n].sent, mem[n].sent)
  BY <1>0, <1>2 DEF Records, Record
<1>9. mem'[n] \in Records
  BY <1>0, <1>8 DEF Records, Record
<1>10. mem' \in [Nodes -> Records] /\ \A m \in Nodes \ {n} : mem'[m] = mem[m]
  BY <1>0, <1>2, <1>9
<1>11. /\ ctlq' \in [Nodes -> Seq(Tokens)] /\ step' \in [Nodes -> Steps]
       /\ \A m \in Nodes \ {n} : step'[m] = step[m]
       /\ IF Accounted(n, t)
          THEN /\ step'[n] = "elect"
               /\ FirstFlush(n, t) \in Tokens /\ SendToken(n, FirstFlush(n, t))
          ELSE /\ step'[n] = "count"
               /\ NextHop(n, t) \in Tokens /\ SendToken(n, NextHop(n, t))
  <2>1. CASE Accounted(n, t)
    <3>1. PICK v : v = [u EXCEPT !.phase = "flush", !.seq = 0]
      OBVIOUS
    <3>2. v = FirstFlush(n, t)
      BY <1>5, <2>1, <3>1 DEF FirstFlush
    <3>3. SendToken(n, v) /\ step' = [step EXCEPT ![n] = "elect"]
      BY <1>2, <1>4, <1>6, <2>1, <3>1
    <3>4. v \in Tokens
      BY <1>3, <1>7, <3>2 DEF FirstFlush, Tokens
    <3>5. ctlq' \in [Nodes -> Seq(Tokens)]
      BY <1>0, <3>3, <3>4, SendTyped
    <3>6. /\ step' \in [Nodes -> Steps] /\ step'[n] = "elect"
          /\ \A m \in Nodes \ {n} : step'[m] = step[m]
      BY <1>0, <3>3 DEF Steps
    <3>7. QED
      BY <2>1, <3>2, <3>3, <3>4, <3>5, <3>6
  <2>2. CASE ~Accounted(n, t)
    <3>1. PICK v : v = [u EXCEPT !.seq = u.seq + 1]
      OBVIOUS
    <3>2. v = NextHop(n, t)
      BY <1>3, <1>5, <2>2, <3>1 DEF NextHop
    <3>3. SendToken(n, v) /\ step' = [step EXCEPT ![n] = "count"]
      BY <1>2, <1>4, <1>6, <2>2, <3>1
    <3>4. v \in Tokens
      BY <1>3, <1>7, <3>2 DEF NextHop, Tokens
    <3>5. ctlq' \in [Nodes -> Seq(Tokens)]
      BY <1>0, <3>3, <3>4, SendTyped
    <3>6. /\ step' \in [Nodes -> Steps] /\ step'[n] = "count"
          /\ \A m \in Nodes \ {n} : step'[m] = step[m]
      BY <1>0, <3>3 DEF Steps
    <3>7. QED
      BY <2>2, <3>2, <3>3, <3>4, <3>5, <3>6
  <2>3. QED
    BY <2>1, <2>2
<1>12. QED
  BY <1>0, <1>1, <1>2, <1>3, <1>8, <1>10, <1>11 DEF TypeOK, OnlyAt

LEMMA FlushTokenEffect ==
  ASSUME Typed, NEW n \in Nodes, FlushToken(n)
  PROVE  /\ TypeOK' /\ OnlyAt(n)
         /\ step[n] = "free" /\ step'[n] = "flush" /\ ctlq[n] # <<>>
         /\ TokenId(Head(ctlq[n])) \notin mem[n].control
         /\ Head(ctlq[n]) \in Tokens /\ Head(ctlq[n]).phase = "flush"
         /\ mem'[n] = Record(mem[n].main, mem[n].control, {}, mem[n].processed,
              mem[n].partial, mem[n].sent + Cardinality(mem[n].buffer),
              mem[n].partialSent)
         /\ out' = out \cup mem[n].buffer
         /\ UNCHANGED <<eager, mainq, ctlq, disk, finals, crashes>>
<1>0. /\ TypeOK /\ mem \in [Nodes -> Records] /\ mem[n] \in Records
      /\ step \in [Nodes -> Steps]
  BY DEF Typed, TypeOK
<1>1. PICK t : t = Head(ctlq[n])
  OBVIOUS
<1>2. /\ ctlq[n] # <<>> /\ step[n] = "free" /\ TokenId(t) \notin mem[n].control
      /\ t.coordinator # None
      /\ out' = out \cup mem[n].buffer
      /\ mem' = [mem EXCEPT ![n].buffer = {},
                            ![n].sent = @ + Cardinality(mem[n].buffer)]
      /\ step' = [step EXCEPT ![n] = "flush"]
      /\ UNCHANGED <<eager, mainq, ctlq, disk, finals, crashes>>
  BY <1>1 DEF FlushToken, TakesToken, Flushed
<1>3. mem'[n] = Record(mem[n].main, mem[n].control, {}, mem[n].processed,
              mem[n].partial, mem[n].sent + Cardinality(mem[n].buffer),
              mem[n].partialSent)
  BY <1>0, <1>2 DEF Records, Record
<1>4. Cardinality(mem[n].buffer) \in Nat
  <2>1. mem[n].buffer \in SUBSET Data
    BY <1>0 DEF Records
  <2>2. QED
    BY <2>1, FS_Subset, FS_CardinalityType, ParametersAssumption
<1>5. mem'[n] \in Records
  BY <1>0, <1>3, <1>4 DEF Records, Record
<1>6. mem' \in [Nodes -> Records] /\ \A m \in Nodes \ {n} : mem'[m] = mem[m]
  BY <1>0, <1>2, <1>5
<1>7. /\ step' \in [Nodes -> Steps] /\ step'[n] = "flush"
      /\ \A m \in Nodes \ {n} : step'[m] = step[m]
  BY <1>0, <1>2 DEF Steps
<1>8. mem[n].buffer \subseteq Data
  BY <1>0 DEF Records
<1>9. t \in Tokens /\ t.phase = "flush"
  <2>1. t \in Tokens /\ t = ctlq[n][1] /\ 1 \in DOMAIN ctlq[n]
    BY <1>1, <1>2, HeadTyped DEF Typed, TypeOK
  <2>2. QED
    BY <1>2, <2>1 DEF Typed, Phased
<1>10. QED
  BY <1>0, <1>1, <1>2, <1>3, <1>6, <1>7, <1>8, <1>9 DEF TypeOK, OnlyAt

\* The count with which a flush token leaves node n.
SentAfter(n) == Head(ctlq[n]).sent + NewlySent(n)

NextFlush(n) ==
  [phase |-> Head(ctlq[n]).phase, seq |-> Head(ctlq[n]).seq + 1,
   total |-> Head(ctlq[n]).total, sent |-> SentAfter(n),
   coordinator |-> Head(ctlq[n]).coordinator]

LEMMA PassFlushEffect ==
  ASSUME Typed, NEW n \in Nodes, PassFlush(n)
  PROVE  /\ TypeOK' /\ OnlyAt(n)
         /\ step[n] = "flush" /\ step'[n] = "passed" /\ ctlq[n] # <<>>
         /\ Head(ctlq[n]) \in Tokens
         /\ IF Head(ctlq[n]).coordinator = n
            THEN finals' = finals \cup {SentAfter(n)} /\ UNCHANGED ctlq
            ELSE /\ NextFlush(n) \in Tokens /\ SendToken(n, NextFlush(n))
                 /\ UNCHANGED finals
         /\ mem'[n] = Record(mem[n].main, mem[n].control, mem[n].buffer,
              mem[n].processed, mem[n].partial, mem[n].sent, mem[n].sent)
         /\ UNCHANGED <<eager, mainq, disk, out, crashes>>
<1>0. /\ TypeOK /\ mem \in [Nodes -> Records] /\ mem[n] \in Records
      /\ step \in [Nodes -> Steps] /\ ctlq \in [Nodes -> Seq(Tokens)] /\ Handling(n)
  BY DEF Typed, TypeOK
<1>1. PICK t : t = Head(ctlq[n])
  OBVIOUS
<1>2. /\ step[n] = "flush" /\ step' = [step EXCEPT ![n] = "passed"]
      /\ mem' = [mem EXCEPT ![n].partialSent = mem[n].sent]
      /\ UNCHANGED <<eager, mainq, disk, out, crashes>>
  BY DEF PassFlush
<1>3. ctlq[n] # <<>> /\ t \in Tokens
  BY <1>0, <1>1, <1>2, HeadTyped DEF Handling, ControlSteps
<1>4. PICK sent : sent = SentAfter(n)
  OBVIOUS
<1>5. IF t.coordinator = n
      THEN finals' = finals \cup {sent} /\ UNCHANGED ctlq
      ELSE /\ SendToken(n, [t EXCEPT !.seq = t.seq + 1, !.sent = sent])
           /\ UNCHANGED finals
  BY <1>1, <1>4 DEF PassFlush, CountedAfterFlush, SentAfter
<1>6. sent \in Int
  BY <1>0, <1>1, <1>3, <1>4 DEF SentAfter, NewlySent, Records, Tokens
<1>7. IF t.coordinator = n
      THEN finals' = finals \cup {sent} /\ UNCHANGED ctlq
      ELSE NextFlush(n) \in Tokens /\ SendToken(n, NextFlush(n)) /\ UNCHANGED finals
  <2>1. PICK v : v = [t EXCEPT !.seq = t.seq + 1, !.sent = sent]
    OBVIOUS
  <2>2. v = NextFlush(n)
    BY <1>1, <1>3, <1>4, <2>1 DEF NextFlush, Tokens
  <2>3. v \in Tokens
    BY <1>1, <1>3, <1>4, <1>6, <2>2 DEF NextFlush, Tokens
  <2>4. QED
    BY <1>5, <2>1, <2>2, <2>3
<1>8. finals' \subseteq Int /\ ctlq' \in [Nodes -> Seq(Tokens)]
  BY <1>0, <1>6, <1>7, SendTyped DEF TypeOK
<1>9. mem'[n] = Record(mem[n].main, mem[n].control, mem[n].buffer,
              mem[n].processed, mem[n].partial, mem[n].sent, mem[n].sent)
  BY <1>0, <1>2 DEF Records, Record
<1>10. mem'[n] \in Records
  BY <1>0, <1>9 DEF Records, Record
<1>11. mem' \in [Nodes -> Records] /\ \A m \in Nodes \ {n} : mem'[m] = mem[m]
  BY <1>0, <1>2, <1>10
<1>12. /\ step' \in [Nodes -> Steps] /\ step'[n] = "passed"
       /\ \A m \in Nodes \ {n} : step'[m] = step[m]
  BY <1>0, <1>2 DEF Steps
<1>13. QED
  BY <1>0, <1>1, <1>2, <1>3, <1>4, <1>7, <1>8, <1>9, <1>11, <1>12 DEF TypeOK, OnlyAt

LEMMA LogControlEffect ==
  ASSUME Typed, NEW n \in Nodes, LogControl(n)
  PROVE  /\ TypeOK' /\ OnlyAt(n)
         /\ step[n] \in {"count", "elect", "passed"} /\ step'[n] = "free"
         /\ ctlq[n] # <<>> /\ Head(ctlq[n]) \in Tokens
         /\ mem'[n] = Record(mem[n].main, mem[n].control \cup {TokenId(Head(ctlq[n]))},
              mem[n].buffer, mem[n].processed, mem[n].partial, mem[n].sent,
              mem[n].partialSent)
         /\ \E kept \in {disk[n].buffer, mem[n].buffer} :
              disk'[n] = Record(disk[n].main,
                disk[n].control \cup {TokenId(Head(ctlq[n]))}, kept,
                disk[n].processed, mem[n].partial, mem[n].sent, mem[n].partialSent)
         /\ UNCHANGED <<eager, mainq, ctlq, out, finals, crashes>>
<1>0. /\ TypeOK /\ mem \in [Nodes -> Records] /\ mem[n] \in Records
      /\ disk \in [Nodes -> Records] /\ disk[n] \in Records
      /\ step \in [Nodes -> Steps] /\ ctlq \in [Nodes -> Seq(Tokens)] /\ Handling(n)
  BY DEF Typed, TypeOK
<1>1. PICK id : id = TokenId(Head(ctlq[n]))
  OBVIOUS
<1>2. /\ step[n] \in {"count", "elect", "passed"} /\ step' = [step EXCEPT ![n] = "free"]
      /\ mem' = [mem EXCEPT ![n].control = @ \cup {id}]
      /\ UNCHANGED <<eager, mainq, ctlq, out, finals, crashes>>
  BY <1>1 DEF LogControl
<1>3. ctlq[n] # <<>> /\ Head(ctlq[n]) \in Tokens
  BY <1>0, <1>2, HeadTyped DEF Handling, ControlSteps
<1>4. id \in TokenIds
  BY <1>1, <1>3 DEF TokenId, TokenIds, Tokens
<1>5. PICK ring : ring = WithRing(disk[n], mem[n])
  OBVIOUS
<1>6. PICK kept \in {disk[n].buffer, mem[n].buffer} :
         disk' = [disk EXCEPT
           ![n] = [ring EXCEPT !.control = @ \cup {id}, !.buffer = kept]]
  BY <1>1, <1>5 DEF LogControl
<1>7. ring = Record(disk[n].main, disk[n].control, disk[n].buffer, disk[n].processed,
                    mem[n].partial, mem[n].sent, mem[n].partialSent)
  BY <1>0, <1>5 DEF WithRing, Records, Record
<1>8. disk'[n] = [ring EXCEPT !.control = ring.control \cup {id}, !.buffer = kept]
      /\ disk' = [disk EXCEPT ![n] = disk'[n]]
  BY <1>0, <1>6
<1>9. disk'[n] = Record(disk[n].main, disk[n].control \cup {id}, kept,
                disk[n].processed, mem[n].partial, mem[n].sent, mem[n].partialSent)
  BY <1>7, <1>8 DEF Record
<1>10. disk'[n] \in Records
  BY <1>0, <1>4, <1>9 DEF Records, Record
<1>11. mem'[n] = Record(mem[n].main, mem[n].control \cup {id}, mem[n].buffer,
                mem[n].processed, mem[n].partial, mem[n].sent, mem[n].partialSent)
  BY <1>0, <1>2 DEF Records, Record
<1>12. mem'[n] \in Records
  BY <1>0, <1>4, <1>11 DEF Records, Record
<1>13. /\ mem' \in [Nodes -> Records] /\ \A m \in Nodes \ {n} : mem'[m] = mem[m]
       /\ disk' \in [Nodes -> Records] /\ \A m \in Nodes \ {n} : disk'[m] = disk[m]
  BY <1>0, <1>2, <1>8, <1>10, <1>12
<1>14. /\ step' \in [Nodes -> Steps] /\ step'[n] = "free"
       /\ \A m \in Nodes \ {n} : step'[m] = step[m]
  BY <1>0, <1>2 DEF Steps
<1>15. QED
  BY <1>0, <1>1, <1>2, <1>3, <1>9, <1>11, <1>13, <1>14 DEF TypeOK, OnlyAt

LEMMA AckControlEffect ==
  ASSUME Typed, NEW n \in Nodes, AckControl(n)
  PROVE  /\ TypeOK'
         /\ step[n] # "down" /\ ctlq[n] # <<>>
         /\ TokenId(Head(ctlq[n])) \in mem[n].control
         /\ ctlq'[n] = Tail(ctlq[n]) /\ \A m \in Nodes \ {n} : ctlq'[m] = ctlq[m]
         /\ UNCHANGED <<eager, mainq, step, mem, disk, out, finals, crashes>>
<1>0. /\ TypeOK /\ ctlq \in [Nodes -> Seq(Tokens)]
  BY DEF Typed, TypeOK
<1>1. /\ step[n] # "down" /\ ctlq[n] # <<>> /\ TokenId(Head(ctlq[n])) \in mem[n].control
      /\ ctlq' = [ctlq EXCEPT ![n] = Tail(ctlq[n])]
      /\ UNCHANGED <<eager, mainq, step, mem, disk, out, finals, crashes>>
  BY DEF AckControl, Up
<1>2. Tail(ctlq[n]) \in Seq(Tokens)
  BY <1>0, <1>1, HeadTyped
<1>3. QED
  BY <1>0, <1>1, <1>2 DEF TypeOK

LEMMA CrashEffect ==
  ASSUME Typed, NEW n \in Nodes, Crash(n)
  PROVE  /\ TypeOK' /\ OnlyAt(n)
         /\ step[n] \in CrashPoints /\ step'[n] = "down" /\ mem'[n] = Blank
         /\ UNCHANGED <<eager, mainq, ctlq, disk, out, finals>>
<1>0. /\ TypeOK /\ mem \in [Nodes -> Records] /\ step \in [Nodes -> Steps]
  BY DEF Typed, TypeOK
<1>1. /\ step[n] \in CrashPoints /\ crashes' = crashes + 1
      /\ step' = [step EXCEPT ![n] = "down"] /\ mem' = [mem EXCEPT ![n] = Blank]
      /\ UNCHANGED <<eager, mainq, ctlq, disk, out, finals>>
  BY DEF Crash
<1>2. /\ mem' \in [Nodes -> Records] /\ mem'[n] = Blank
      /\ \A m \in Nodes \ {n} : mem'[m] = mem[m]
      /\ step' \in [Nodes -> Steps] /\ step'[n] = "down"
      /\ \A m \in Nodes \ {n} : step'[m] = step[m]
  BY <1>0, <1>1, BlankRecord DEF Steps
<1>3. QED
  BY <1>0, <1>1, <1>2 DEF TypeOK, OnlyAt

LEMMA RestartEffect ==
  ASSUME Typed, NEW n \in Nodes, Restart(n)
  PROVE  /\ TypeOK' /\ OnlyAt(n)
         /\ step[n] = "down" /\ step'[n] = "free" /\ mem'[n] = disk[n]
         /\ UNCHANGED <<eager, mainq, ctlq, disk, out, finals, crashes>>
<1>0. /\ TypeOK /\ mem \in [Nodes -> Records] /\ disk[n] \in Records
      /\ step \in [Nodes -> Steps]
  BY DEF Typed, TypeOK
<1>1. /\ step[n] = "down" /\ step' = [step EXCEPT ![n] = "free"]
      /\ mem' = [mem EXCEPT ![n] = disk[n]]
      /\ UNCHANGED <<eager, mainq, ctlq, disk, out, finals, crashes>>
  BY DEF Restart
<1>2. /\ mem' \in [Nodes -> Records] /\ mem'[n] = disk[n]
      /\ \A m \in Nodes \ {n} : mem'[m] = mem[m]
      /\ step' \in [Nodes -> Steps] /\ step'[n] = "free"
      /\ \A m \in Nodes \ {n} : step'[m] = step[m]
  BY <1>0, <1>1 DEF Steps
<1>3. QED
  BY <1>0, <1>1, <1>2 DEF TypeOK, OnlyAt

\* A node of which no handler runs has nothing to have at hand.
LEMMA NotHandling ==
  ASSUME NEW m \in Nodes, step'[m] \notin MainSteps \cup ControlSteps
  PROVE  Handling(m)'
BY DEF Handling

LEMMA OthersHandling ==
  ASSUME Typed, NEW n \in Nodes, OnlyAt(n), Handling(n)',
         \A m \in Nodes : ctlq[m] # <<>> => ctlq'[m] # <<>> /\ Head(ctlq'[m]) = Head(ctlq[m])
  PROVE  \A m \in Nodes : Handling(m)'
<1>1. ASSUME NEW m \in Nodes \ {n} PROVE Handling(m)'
  BY <1>1, HandlingStays DEF Typed, OnlyAt
<1>2. QED
  BY <1>1

\* A step that leaves the control queues alone keeps the types by keeping
\* the deliveries at hand.
LEMMA TypedSame ==
  ASSUME Typed, TypeOK', NEW n \in Nodes, OnlyAt(n), Handling(n)', UNCHANGED ctlq
  PROVE  Typed'
<1>1. \A m \in Nodes : Handling(m)'
  BY OthersHandling
<1>2. QED
  BY <1>1 DEF Typed, Phased

LEMMA TypedSent ==
  ASSUME Typed, TypeOK', NEW n \in Nodes, OnlyAt(n), Handling(n)',
         NEW t \in Tokens, Phased(t), SendToken(n, t)
  PROVE  Typed'
<1>1. /\ \A m \in Nodes :
           ctlq'[m] = IF m = NextNode(n) THEN Append(ctlq[m], t) ELSE ctlq[m]
      /\ \A m \in Nodes : ctlq[m] # <<>> =>
           ctlq'[m] # <<>> /\ Head(ctlq'[m]) = Head(ctlq[m])
  BY SendTyped DEF Typed
<1>2. \A m \in Nodes : Handling(m)'
  BY <1>1, OthersHandling
<1>3. ASSUME NEW m \in Nodes, NEW i \in DOMAIN ctlq'[m] PROVE Phased(ctlq'[m][i])
  <2>1. ctlq[m] \in Seq(Tokens) /\ \A j \in DOMAIN ctlq[m] : Phased(ctlq[m][j])
    BY DEF Typed, TypeOK
  <2>2. CASE ctlq'[m] = ctlq[m]
    BY <2>1, <2>2, <1>3
  <2>3. CASE ctlq'[m] = Append(ctlq[m], t)
    <3>1. i \in DOMAIN ctlq[m] \/ i = Len(ctlq[m]) + 1
      BY <1>3, <2>1, <2>3, AppendTyped
    <3>2. (ctlq'[m][i] = ctlq[m][i] /\ i \in DOMAIN ctlq[m]) \/ ctlq'[m][i] = t
      BY <2>1, <2>3, <3>1, AppendTyped
    <3>3. QED
      BY <2>1, <3>2
  <2>4. QED
    BY <1>1, <2>2, <2>3
<1>4. QED
  BY <1>2, <1>3 DEF Typed

LEMMA TypedMain ==
  ASSUME Typed, NEW n \in Nodes,
         Main(n) \/ LogRingStart(n) \/ LogMain(n) \/ AckMain(n)
  PROVE  Typed'
<1>1. CASE BufferData(n)
  <2>1. Handling(n)'
    <3>1. /\ step'[n] \in {"data", "eof"} /\ mainq' = mainq /\ mainq[n] # <<>>
          /\ Head(mainq[n]) \notin mem[n].main
      BY <1>1, BufferDataEffect
    <3>2. mem'[n] = Record(mem[n].main, mem[n].control, mem[n].buffer \cup Added(n),
            mem[n].processed + 1, mem[n].partial, mem[n].sent, mem[n].partialSent)
      BY <1>1, BufferDataEffect
    <3>3. mem'[n].main = mem[n].main
      BY <3>2, RecordFields
    <3>4. QED
      BY <3>1, <3>3 DEF Handling, ControlSteps
  <2>2. QED
    BY <1>1, <2>1, BufferDataEffect, TypedSame
<1>2. CASE ForwardData(n)
  <2>1. Handling(n)'
    <3>1. /\ step'[n] \in {"data", "eof"} /\ mainq' = mainq /\ mainq[n] # <<>>
          /\ Head(mainq[n]) \notin mem[n].main /\ mem'[n].main = mem[n].main
      BY <1>2, ForwardDataEffect, RecordFields
    <3>2. QED
      BY <3>1 DEF Handling, ControlSteps
  <2>2. QED
    BY <1>2, <2>1, ForwardDataEffect, TypedSame
<1>3. CASE HandleEof(n)
  <2>1. Handling(n)'
    <3>1. /\ step'[n] \in {"data", "eof"} /\ mainq' = mainq /\ mainq[n] # <<>>
          /\ Head(mainq[n]) \notin mem[n].main /\ mem'[n].main = mem[n].main
      BY <1>3, HandleEofEffect, RecordFields
    <3>2. QED
      BY <3>1 DEF Handling, ControlSteps
  <2>2. Phased(StartToken(n))
    BY DEF StartToken, Phased
  <2>3. QED
    BY <1>3, <2>1, <2>2, HandleEofEffect, TypedSent
<1>4. CASE LogRingStart(n)
  <2>1. Handling(n)'
    BY <1>4, LogRingStartEffect DEF Typed, Handling, MainSteps, ControlSteps
  <2>2. QED
    BY <1>4, <2>1, LogRingStartEffect, TypedSame
<1>5. CASE LogMain(n)
  <2>1. Handling(n)'
    BY <1>5, LogMainEffect, NotHandling DEF MainSteps, ControlSteps
  <2>2. QED
    BY <1>5, <2>1, LogMainEffect, TypedSame
<1>6. CASE AckMain(n)
  <2>1. TypeOK'
    BY <1>6, AckMainEffect
  <2>2. ASSUME NEW m \in Nodes PROVE Handling(m)'
    <3>1. Handling(m)
      BY DEF Typed
    <3>2. step[m] \in MainSteps => mainq'[m] = mainq[m]
      BY <1>6, <3>1, AckMainEffect DEF Handling
    <3>3. QED
      BY <1>6, <3>1, <3>2, AckMainEffect, HandlingStays
  <2>3. QED
    BY <1>6, <2>1, <2>2, AckMainEffect DEF Typed, Phased
<1>7. QED
  BY <1>1, <1>2, <1>3, <1>4, <1>5, <1>6 DEF Main

LEMMA TypedControl ==
  ASSUME Typed, NEW n \in Nodes,
         Control(n) \/ PassFlush(n) \/ LogControl(n) \/ AckControl(n)
  PROVE  Typed'
<1>1. CASE CountToken(n)
  <2>1. PICK t \in Tokens : SendToken(n, t) /\ Phased(t)
    <3>1. Phased(FirstFlush(n, Head(ctlq[n])))
      BY NodeIsSome DEF FirstFlush, Phased
    <3>2. Phased(NextHop(n, Head(ctlq[n])))
      BY DEF NextHop, Phased
    <3>3. QED
      BY <1>1, <3>1, <3>2, CountTokenEffect
  <2>2. ctlq'[n] # <<>> /\ Head(ctlq'[n]) = Head(ctlq[n])
    BY <1>1, <2>1, CountTokenEffect, SendTyped DEF Typed
  <2>3. Handling(n)'
    <3>1. /\ step'[n] \in {"count", "elect"} /\ mem'[n].control = mem[n].control
          /\ TokenId(Head(ctlq[n])) \notin mem[n].control
      BY <1>1, CountTokenEffect, RecordFields
    <3>2. QED
      BY <2>2, <3>1 DEF Handling, MainSteps, TokenId
  <2>4. QED
    BY <1>1, <2>1, <2>3, CountTokenEffect, TypedSent
<1>2. CASE FlushToken(n)
  <2>1. Handling(n)'
    <3>1. /\ step'[n] = "flush" /\ mem'[n].control = mem[n].control
          /\ ctlq' = ctlq /\ ctlq[n] # <<>>
          /\ TokenId(Head(ctlq[n])) \notin mem[n].control
      BY <1>2, FlushTokenEffect, RecordFields
    <3>2. QED
      BY <3>1 DEF Handling, MainSteps, TokenId
  <2>2. QED
    BY <1>2, <2>1, FlushTokenEffect, TypedSame
<1>3. CASE PassFlush(n)
  <2>1. ctlq'[n] # <<>> /\ Head(ctlq'[n]) = Head(ctlq[n])
    BY <1>3, PassFlushEffect, SendTyped DEF Typed
  <2>2. Handling(n)'
    <3>1. /\ step[n] = "flush" /\ step'[n] = "passed" /\ mem'[n].control = mem[n].control
      BY <1>3, PassFlushEffect, RecordFields
    <3>2. TokenId(Head(ctlq[n])) \notin mem[n].control
      BY <3>1 DEF Typed, Handling, ControlSteps
    <3>3. QED
      BY <2>1, <3>1, <3>2 DEF Handling, MainSteps, TokenId
  <2>3. CASE Head(ctlq[n]).coordinator = n
    BY <1>3, <2>2, <2>3, PassFlushEffect, TypedSame
  <2>4. CASE Head(ctlq[n]).coordinator # n
    <3>1. Head(ctlq[n]) = ctlq[n][1] /\ 1 \in DOMAIN ctlq[n]
      BY <1>3, PassFlushEffect, HeadTyped DEF Typed, TypeOK
    <3>2. Phased(NextFlush(n))
      BY <3>1 DEF Typed, NextFlush, Phased
    <3>3. QED
      BY <1>3, <2>2, <2>4, <3>2, PassFlushEffect, TypedSent
  <2>5. QED
    BY <2>3, <2>4
<1>4. CASE LogControl(n)
  <2>1. Handling(n)'
    BY <1>4, LogControlEffect, NotHandling DEF MainSteps, ControlSteps
  <2>2. QED
    BY <1>4, <2>1, LogControlEffect, TypedSame
<1>5. CASE AckControl(n)
  <2>1. TypeOK'
    BY <1>5, AckControlEffect
  <2>2. ASSUME NEW m \in Nodes PROVE Handling(m)'
    <3>1. Handling(m)
      BY DEF Typed
    <3>2. CASE m # n
      BY <1>5, <3>1, <3>2, AckControlEffect, HandlingStays
    <3>3. CASE m = n
      BY <1>5, <3>1, <3>3, AckControlEffect DEF Handling, ControlSteps
    <3>4. QED
      BY <3>2, <3>3
  <2>3. ASSUME NEW m \in Nodes, NEW i \in DOMAIN ctlq'[m] PROVE Phased(ctlq'[m][i])
    <3>1. ctlq[n] \in Seq(Tokens) /\ \A k \in Nodes : \A j \in DOMAIN ctlq[k] : Phased(ctlq[k][j])
      BY DEF Typed, TypeOK
    <3>2. CASE m # n
      BY <1>5, <2>3, <3>1, <3>2, AckControlEffect
    <3>3. CASE m = n
      <4>1. i + 1 \in DOMAIN ctlq[n] /\ ctlq'[m][i] = ctlq[n][i + 1]
        <5>1. ctlq[n] # <<>> /\ ctlq'[n] = Tail(ctlq[n])
          BY <1>5, AckControlEffect
        <5>2. i \in DOMAIN Tail(ctlq[n])
          BY <2>3, <3>3, <5>1
        <5>3. QED
          BY <3>1, <3>3, <5>1, <5>2, TailTyped
      <4>2. QED
        BY <3>1, <4>1
    <3>4. QED
      BY <3>2, <3>3
  <2>4. QED
    BY <2>1, <2>2, <2>3 DEF Typed
<1>6. QED
  BY <1>1, <1>2, <1>3, <1>4, <1>5 DEF Control

THEOREM TypedStep == Typed /\ [Next]_vars => Typed'
<1> SUFFICES ASSUME Typed, [Next]_vars PROVE Typed'
  OBVIOUS
<1>1. CASE UNCHANGED vars
  BY <1>1 DEF vars, Typed, TypeOK, Handling, Phased, TokenId
<1>2. CASE Next
  <2>1. PICK n \in Nodes :
          Main(n) \/ Control(n) \/ Finish(n) \/ AckMain(n) \/ AckControl(n) \/ Crash(n)
    BY <1>2 DEF Next
  <2>2. CASE Crash(n)
    <3>1. Handling(n)'
      BY <2>2, CrashEffect, NotHandling DEF MainSteps, ControlSteps
    <3>2. QED
      BY <2>2, <3>1, CrashEffect, TypedSame
  <2>3. CASE Restart(n)
    <3>1. Handling(n)'
      BY <2>3, RestartEffect, NotHandling DEF MainSteps, ControlSteps
    <3>2. QED
      BY <2>3, <3>1, RestartEffect, TypedSame
  <2>4. QED
    BY <2>1, <2>2, <2>3, TypedMain, TypedControl DEF Finish
<1>3. QED
  BY <1>1, <1>2

THEOREM TypedInvariant == Spec => []Typed
<1>1. QED
  BY TypedInit, TypedStep, PTL DEF Spec

\* The types hold wherever the nodes crash.
THEOREM TypeCorrect == Spec => []TypeOK
<1>1. Typed => TypeOK
  BY DEF Typed
<1>2. QED
  BY TypedInvariant, <1>1, PTL
=============================================================================
