------------------------ MODULE DurableWorker_proofs ------------------------
(***************************************************************************)
(* Theorems about DurableWorker for every set of messages, every threshold *)
(* of compaction and every bound on sends and crashes.  The invariant is   *)
(* DurableWorker!Inductive; the lemmas on Replay carry all the reasoning   *)
(* about the file, so that the steps of the worker only see what replaying *)
(* it yields.                                                              *)
(***************************************************************************)
EXTENDS DurableWorker, FiniteSetTheorems, TLAPS

\* The positions of a line in the file are finitely many.
LEMMA PositionsFinite ==
  ASSUME NEW m, NEW t \in Seq(Mids \cup {Garbled})
  PROVE  /\ IsFiniteSet(Positions(m, t))
         /\ Cardinality(Positions(m, t)) \in Nat
         /\ Cardinality(Positions(m, t)) = 0 <=> Positions(m, t) = {}
<1>1. Len(t) \in Nat /\ 1 \in Int /\ Len(t) \in Int
  OBVIOUS
<1>2. IsFiniteSet(1..Len(t))
  BY <1>1, FS_Interval
<1>3. IsFiniteSet(Positions(m, t))
  BY <1>2, FS_Subset DEF Positions
<1>4. QED
  BY <1>3, FS_CardinalityType, FS_EmptySet

\* Appending a line adds one position to that line and none to the others.
LEMMA PositionsAppend ==
  ASSUME NEW m, NEW t \in Seq(Mids \cup {Garbled}), NEW r \in Mids \cup {Garbled}
  PROVE  /\ m # r => Positions(m, Append(t, r)) = Positions(m, t)
         /\ m = r => /\ Positions(m, Append(t, r)) # {}
                     /\ Cardinality(Positions(m, Append(t, r)))
                          = Cardinality(Positions(m, t)) + 1
<1> DEFINE n == Len(t) + 1
<1>1. n \in Nat /\ n \notin Positions(m, t)
  BY DEF Positions
<1>2. Append(t, r)[n] = r /\ \A i \in 1..Len(t) : Append(t, r)[i] = t[i]
  OBVIOUS
<1>3. Len(Append(t, r)) = n
  OBVIOUS
<1>4. 1..n = (1..Len(t)) \cup {n}
  OBVIOUS
<1>5. CASE m # r
  BY <1>2, <1>3, <1>4, <1>5 DEF Positions
<1>6. CASE m = r
  <2>1. Positions(m, Append(t, r)) = Positions(m, t) \cup {n}
    BY <1>2, <1>3, <1>4, <1>6 DEF Positions
  <2>2. IsFiniteSet(Positions(m, t))
    BY PositionsFinite
  <2>3. Cardinality(Positions(m, t) \cup {n}) = Cardinality(Positions(m, t)) + 1
    BY <1>1, <2>2, FS_AddElement
  <2>4. QED
    BY <2>1, <2>3, <1>6
<1>7. QED
  BY <1>5, <1>6

\* Replaying a file yields a state.
LEMMA ReplayType ==
  ASSUME NEW b \in State, NEW t \in Seq(Mids \cup {Garbled})
  PROVE  Replay(b, t) \in State
<1>1. \A m \in Mids : Cardinality(Positions(m, t)) \in Nat
  BY PositionsFinite
<1>2. b.seen \in SUBSET Mids /\ b.applied \in [Mids -> Nat]
  BY DEF State
<1>3. \A m \in Mids : b.applied[m] + Cardinality(Positions(m, t)) \in Nat
  BY <1>1, <1>2
<1>4. QED
  BY <1>2, <1>3 DEF Replay, State

\* A file that holds a snapshot alone replays to that snapshot.
LEMMA ReplaySnapshot ==
  ASSUME NEW b \in State
  PROVE  Replay(b, <<>>) = b
<1>1. \A m : Positions(m, <<>>) = {}
  BY DEF Positions
<1>2. \A m \in Mids : Cardinality(Positions(m, <<>>)) = 0
  BY <1>1, FS_EmptySet
<1>3. {m \in Mids : Positions(m, <<>>) # {}} = {}
  BY <1>1
<1>4. b.seen \cup {} = b.seen /\ b.applied \in [Mids -> Nat]
  BY DEF State
<1>5. [m \in Mids |-> b.applied[m] + Cardinality(Positions(m, <<>>))] = b.applied
  BY <1>2, <1>4
<1>6. b = [seen |-> b.seen, applied |-> b.applied]
  BY DEF State
<1>7. Replay(b, <<>>) = [seen |-> b.seen, applied |-> b.applied]
  BY <1>3, <1>4, <1>5 DEF Replay
<1>8. QED
  BY <1>6, <1>7

\* A record appended to the file adds its identifier and its delta.
LEMMA ReplayAppend ==
  ASSUME NEW b \in State, NEW t \in Seq(Mids \cup {Garbled}), NEW r \in Mids
  PROVE  Replay(b, Append(t, r)) =
           [seen    |-> Replay(b, t).seen \cup {r},
            applied |-> [Replay(b, t).applied EXCEPT ![r] = @ + 1]]
<1> DEFINE u == Append(t, r)
<1>1. \A m \in Mids : m # r => Positions(m, u) = Positions(m, t)
  BY PositionsAppend
<1>2. /\ Positions(r, u) # {}
      /\ Cardinality(Positions(r, u)) = Cardinality(Positions(r, t)) + 1
  BY PositionsAppend
<1>3. /\ b.applied \in [Mids -> Nat]
      /\ \A m \in Mids : Cardinality(Positions(m, t)) \in Nat
  BY PositionsFinite DEF State
<1>4. {m \in Mids : Positions(m, u) # {}}
        = {m \in Mids : Positions(m, t) # {}} \cup {r}
  BY <1>1, <1>2
<1>5. [m \in Mids |-> b.applied[m] + Cardinality(Positions(m, u))]
        = [[m \in Mids |-> b.applied[m] + Cardinality(Positions(m, t))]
             EXCEPT ![r] = @ + 1]
  <2> DEFINE old == [m \in Mids |-> b.applied[m] + Cardinality(Positions(m, t))]
             new == [m \in Mids |-> b.applied[m] + Cardinality(Positions(m, u))]
  <2>1. new[r] = old[r] + 1
    BY <1>2, <1>3
  <2>2. \A m \in Mids : m # r => new[m] = old[m]
    BY <1>1
  <2>3. new = [m \in Mids |-> new[m]] /\ old = [m \in Mids |-> old[m]]
    OBVIOUS
  <2> HIDE DEF old, new
  <2>4. new = [old EXCEPT ![r] = @ + 1]
    BY <2>1, <2>2, <2>3
  <2>5. QED
    BY <2>4 DEF old, new
<1>6. QED
  BY <1>4, <1>5 DEF Replay

-----------------------------------------------------------------------------
(* Type correctness and the inductive invariant *)

\* The initial state satisfies the invariant.
LEMMA InductiveInit == Init => Inductive
<1> SUFFICES ASSUME Init PROVE Inductive
  OBVIOUS
<1>1. NoRecords \in State
  BY DEF NoRecords, State
<1>2. Durable = NoRecords
  BY <1>1, ReplaySnapshot DEF Init, Durable
<1>3. TypeOK
  <2>1. <<>> \in Seq(Mids \cup {Garbled})
    OBVIOUS
  <2>2. base \in State /\ tail \in Seq(Mids \cup {Garbled})
    BY <1>1, <2>1 DEF Init
  <2>3. QED
    BY <2>2 DEF Init, TypeOK, PCs
<1>4. Parses(tail)
  BY DEF Init, Parses, Positions
<1>5. cur = NoMid /\ NoMid \notin Mids
  BY MidsAssumption DEF Init
<1>6. QED
  BY <1>2, <1>3, <1>4, <1>5 DEF Init, Inductive, InMemory, NoRecords

\* Every step preserves the invariant.
LEMMA InductiveStep == Inductive /\ [Next]_vars => Inductive'
<1> SUFFICES ASSUME Inductive, [Next]_vars PROVE Inductive'
  OBVIOUS
<1> USE MidsAssumption, BoundsAssumption
<1>1. /\ base \in State /\ tail \in Seq(Mids \cup {Garbled})
      /\ Durable \in State
      /\ Durable.seen \in SUBSET Mids /\ Durable.applied \in [Mids -> Nat]
  <2>1. base \in State /\ tail \in Seq(Mids \cup {Garbled})
    BY DEF Inductive, TypeOK
  <2>2. Durable \in State
    BY <2>1, ReplayType DEF Durable
  <2>3. QED
    BY <2>1, <2>2 DEF State
<1>2. ASSUME base' = base, tail' = tail
      PROVE  Durable' = Durable /\ Parses(tail)'
  BY <1>2 DEF Durable, Parses, Replay, Inductive
<1>3. CASE UNCHANGED vars
  BY <1>2, <1>3 DEF vars, Inductive, TypeOK, InMemory
<1>4. ASSUME NEW m \in Mids, Publish(m) PROVE Inductive'
  BY <1>2, <1>4 DEF Publish, Inductive, TypeOK, InMemory, disk, memory
<1>5. CASE Start
  BY <1>2, <1>5 DEF Start, Inductive, TypeOK, InMemory, PCs, disk, memory, broker
<1>6. CASE Load
  <2>1. Durable' = Durable /\ Parses(tail)'
    BY <1>2, <1>6 DEF Load
  <2>2. TypeOK'
    BY <1>1, <1>6 DEF Load, TornAfterLoad, Inductive, TypeOK, PCs, broker
  <2>3. InMemory' = Durable
    BY <1>1, <1>6 DEF Load, InMemory, State
  <2>4. QED
    BY <2>1, <2>2, <2>3, <1>6 DEF Load, TornAfterLoad, Inductive, broker
<1>7. ASSUME NEW m \in Mids, DropDuplicate(m) PROVE Inductive'
  BY <1>2, <1>7 DEF DropDuplicate, IsNew, Acked, Inductive, TypeOK, InMemory, disk, memory
<1>8. ASSUME NEW m \in Mids, HandleMessage(m) PROVE Inductive'
  <2>1. Durable' = Durable /\ Parses(tail)'
    BY <1>2, <1>8 DEF HandleMessage, disk
  <2>2. TypeOK'
    BY <1>8 DEF HandleMessage, IsNew, Inductive, TypeOK, PCs, disk
  <2>3. seen = Durable.seen /\ applied = Durable.applied
    BY <1>8 DEF HandleMessage, IsNew, Inductive, InMemory
  <2>4. /\ cur' = m /\ m \notin seen /\ out'[m] > 0
        /\ \A k \in Mids : out[k] > 0 => out'[k] > 0
    BY <1>8 DEF HandleMessage, IsNew, Inductive, TypeOK
  <2>5. QED
    BY <1>8, <2>1, <2>2, <2>3, <2>4 DEF HandleMessage, IsNew, Inductive, disk
<1>9. CASE AppendRecord
  <2>1. /\ pc = "handled" /\ handle # "unlinked" /\ torn = FALSE /\ cur \in Mids
        /\ base' = base /\ tail' = Append(tail, cur)
    BY <1>9 DEF AppendRecord, StoreAppend, Inductive, TypeOK
  <2>2. Durable' = [seen    |-> Durable.seen \cup {cur},
                    applied |-> [Durable.applied EXCEPT ![cur] = @ + 1]]
    BY <1>1, <2>1, ReplayAppend DEF Durable
  <2>3. Parses(tail)'
    <3>1. Positions(Garbled, tail') = Positions(Garbled, tail)
      BY <1>1, <2>1, PositionsAppend
    <3>2. QED
      BY <3>1 DEF Parses, Inductive
  <2>4. TypeOK'
    <3>1. tail' \in Seq(Mids \cup {Garbled}) /\ base' \in State
      BY <1>1, <2>1
    <3>2. seen' \in SUBSET Mids
      BY <1>9, <2>1 DEF AppendRecord, Inductive, TypeOK
    <3>3. torn' \in BOOLEAN /\ handle' \in {"closed", "open", "unlinked"}
      BY <1>9, <2>1 DEF AppendRecord, StoreAppend
    <3>4. QED
      BY <1>9, <3>1, <3>2, <3>3 DEF AppendRecord, Inductive, TypeOK, PCs, broker
  <2>5. InMemory' = Durable'
    BY <1>9, <2>1, <2>2 DEF AppendRecord, InMemory, Inductive
  <2>6. torn' = FALSE /\ handle' # "unlinked"
    BY <1>9, <2>1 DEF AppendRecord, StoreAppend
  <2>7. \A m \in Mids :
          /\ Durable'.applied[m] = IF m \in Durable'.seen THEN 1 ELSE 0
          /\ m \in Durable'.seen => sent'[m] > 0 /\ out'[m] > 0
          /\ queue'[m] > 0 => sent'[m] > 0
          /\ sent'[m] > 0 /\ queue'[m] = 0 => m \in Durable'.seen
    BY <1>1, <1>9, <2>1, <2>2 DEF AppendRecord, Inductive, broker
  <2>8. QED
    BY <1>9, <2>1, <2>3, <2>4, <2>5, <2>6, <2>7
    DEF AppendRecord, Inductive, broker
<1>10. CASE NoteAppend
  BY <1>2, <1>10 DEF NoteAppend, Inductive, TypeOK, InMemory, PCs, disk, memory, broker
<1>11. CASE CompactReplace
  <2>1. base' = InMemory /\ InMemory \in State /\ tail' = <<>>
    BY <1>11 DEF CompactReplace, Snapshot, InMemory, State, Inductive, TypeOK
  <2>2. Durable' = Durable
    BY <1>11, <2>1, ReplaySnapshot DEF CompactReplace, Durable, Inductive
  <2>3. Parses(tail)'
    BY <2>1 DEF Parses, Positions
  <2>4. InMemory' = InMemory
    BY <1>11 DEF CompactReplace, InMemory, memory
  <2>5. TypeOK'
    <3>1. tail' \in Seq(Mids \cup {Garbled}) /\ base' \in State
      <4>1. <<>> \in Seq(Mids \cup {Garbled})
        OBVIOUS
      <4>2. QED
        BY <2>1, <4>1
    <3>2. QED
      BY <1>11, <3>1 DEF CompactReplace, Inductive, TypeOK, PCs, broker, memory
  <2>6. QED
    BY <1>11, <2>2, <2>3, <2>4, <2>5 DEF CompactReplace, Inductive, broker, memory
<1>12. CASE CompactClose
  BY <1>2, <1>12 DEF CompactClose, HandleAfterCompact, Inductive, TypeOK, InMemory, PCs, disk, memory, broker
<1>13. CASE Ack
  BY <1>2, <1>13 DEF Ack, Acked, Inductive, TypeOK, InMemory, PCs, disk, memory
<1>14. CASE Crash
  BY <1>2, <1>14 DEF Crash, Die, Inductive, TypeOK, InMemory, NoRecords, PCs, disk, broker
<1>15. CASE CrashInAppend
  BY <1>2, <1>15 DEF CrashInAppend, Die, Inductive, TypeOK, InMemory, NoRecords, PCs, broker
<1>16. QED
  BY <1>3, <1>4, <1>5, <1>6, <1>7, <1>8, <1>9, <1>10, <1>11, <1>12, <1>13,
     <1>14, <1>15 DEF Next, Step, Receive

\* The inductive invariant holds throughout: what relates the memory, the
\* file and the broker at every step of the handler, crashes included.
THEOREM InductiveInvariant == Spec => []Inductive
<1>1. Init => Inductive
  BY InductiveInit
<1>2. Inductive /\ [Next]_vars => Inductive'
  BY InductiveStep
<1>3. QED
  BY <1>1, <1>2, PTL DEF Spec

\* Every variable keeps its type.
THEOREM TypeCorrect == Spec => []TypeOK
<1>1. Inductive => TypeOK
  BY DEF Inductive
<1>2. QED
  BY <1>1, InductiveInvariant, PTL

-----------------------------------------------------------------------------
(* Safety *)

\* No delta is in the state twice: not in memory while a handler runs, not
\* in the file whose record was written just before a crash.
THEOREM AppliedAtMostOnceHolds == Spec => []AppliedAtMostOnce
<1>1. Inductive => AppliedAtMostOnce
  <2> SUFFICES ASSUME Inductive, NEW m \in Mids
               PROVE  applied[m] <= 1 /\ Durable.applied[m] <= 1
    BY DEF AppliedAtMostOnce
  <2>1. Durable.applied[m] = IF m \in Durable.seen THEN 1 ELSE 0
    BY DEF Inductive
  <2>2. Durable \in State /\ Durable.applied \in [Mids -> Nat]
    BY ReplayType DEF Inductive, TypeOK, Durable, State
  <2>3. CASE pc \in {"down", "loading"}
    <3>1. applied = [k \in Mids |-> 0]
      BY <2>3 DEF Inductive, InMemory, NoRecords
    <3>2. QED
      BY <2>1, <3>1
  <2>4. CASE pc \in {"idle", "note", "compact", "replaced", "ack"}
    <3>1. applied = Durable.applied
      BY <2>4 DEF Inductive, InMemory
    <3>2. QED
      BY <2>1, <3>1
  <2>5. CASE pc = "handled"
    <3>1. /\ cur \in Mids /\ cur \notin Durable.seen
          /\ applied = [Durable.applied EXCEPT ![cur] = @ + 1]
      BY <2>5 DEF Inductive
    <3>2. CASE m = cur
      BY <2>1, <2>2, <3>1, <3>2
    <3>3. CASE m # cur
      BY <2>1, <2>2, <3>1, <3>3
    <3>4. QED
      BY <3>2, <3>3
  <2>6. pc \in PCs
    BY DEF Inductive, TypeOK
  <2>7. QED
    BY <2>3, <2>4, <2>5, <2>6 DEF PCs
<1>2. QED
  BY <1>1, InductiveInvariant, PTL

\* Between two messages a crash loses nothing: the file replays to memory.
THEOREM FileIsMemoryHolds == Spec => []FileIsMemory
<1>1. Inductive => FileIsMemory
  BY DEF Inductive, FileIsMemory
<1>2. QED
  BY <1>1, InductiveInvariant, PTL

\* A message leaves the broker only when the file holds it and its delta.
THEOREM AckedIsDurableHolds == Spec => []AckedIsDurable
<1>1. Inductive => AckedIsDurable
  BY DEF Inductive, AckedIsDurable
<1>2. QED
  BY <1>1, InductiveInvariant, PTL

\* A torn record is cut off before anything is written after it.
THEOREM FileParsesHolds == Spec => []FileParses
<1>1. Inductive => FileParses
  BY DEF Inductive, FileParses
<1>2. QED
  BY <1>1, InductiveInvariant, PTL

-----------------------------------------------------------------------------
(* Refinement *)

\* A step leaves what the file replays to as it is, or adds the one message
\* in hand, which upstream sent and the file did not hold.
LEMMA DurableStep ==
  Inductive /\ [Next]_vars =>
    \/ Durable' = Durable
    \/ /\ cur \in Mids /\ cur \notin Durable.seen /\ sent[cur] > 0
       /\ Durable' = [seen    |-> Durable.seen \cup {cur},
                      applied |-> [Durable.applied EXCEPT ![cur] = @ + 1]]
       /\ sent' = sent
<1> SUFFICES ASSUME Inductive, [Next]_vars, Durable' # Durable
             PROVE  /\ cur \in Mids /\ cur \notin Durable.seen /\ sent[cur] > 0
                    /\ Durable' = [seen    |-> Durable.seen \cup {cur},
                                   applied |-> [Durable.applied EXCEPT ![cur] = @ + 1]]
                    /\ sent' = sent
  OBVIOUS
<1>1. base \in State /\ tail \in Seq(Mids \cup {Garbled})
  BY DEF Inductive, TypeOK
<1>2. ~(base' = base /\ tail' = tail)
  BY DEF Durable, Replay
<1>3. ~CompactReplace
  <2> SUFFICES ASSUME CompactReplace PROVE FALSE
    OBVIOUS
  <2>1. base' = InMemory /\ InMemory \in State /\ tail' = <<>> /\ pc = "compact"
    BY DEF CompactReplace, Snapshot, InMemory, State, Inductive, TypeOK
  <2>2. QED
    BY <2>1, ReplaySnapshot DEF Durable, Inductive
<1>4. AppendRecord
  BY <1>2, <1>3 DEF Next, Step, Receive, vars, disk, Publish, Start, Load,
     DropDuplicate, HandleMessage, NoteAppend, CompactClose, Ack, Crash, CrashInAppend
<1>5. /\ pc = "handled" /\ cur \in Mids /\ cur \notin Durable.seen
      /\ torn = FALSE /\ handle # "unlinked" /\ queue[cur] > 0
  BY <1>4 DEF AppendRecord, Inductive, TypeOK
<1>6. base' = base /\ tail' = Append(tail, cur) /\ sent' = sent
  BY <1>4, <1>5 DEF AppendRecord, StoreAppend, broker
<1>7. sent[cur] > 0
  BY <1>5 DEF Inductive
<1>8. QED
  BY <1>1, <1>5, <1>6, <1>7, ReplayAppend DEF Durable

\* Nothing recorded in the file is ever lost to a compaction or a crash.
THEOREM FileNeverForgetsHolds == Spec => FileNeverForgets
<1>1. Inductive /\ [Next]_vars => [Durable.seen \subseteq Durable'.seen]_vars
  BY DurableStep
<1>2. QED
  BY <1>1, InductiveInvariant, PTL DEF Spec, FileNeverForgets

\* The worker implements the abstract specification: every step of it is a
\* submission, one indivisible effect, or invisible.
THEOREM Refinement == Spec => Promise!Spec
<1>1. Init => Promise!Init
  <2> SUFFICES ASSUME Init PROVE Promise!Init
    OBVIOUS
  <2>1. Durable = NoRecords
    <3>1. NoRecords \in State
      BY DEF NoRecords, State
    <3>2. QED
      BY <3>1, ReplaySnapshot DEF Init, Durable
  <2>2. {m \in Mids : sent[m] > 0} = {}
    BY DEF Init
  <2>3. QED
    BY <2>1, <2>2 DEF Promise!Init, NoRecords
<1>2. Inductive /\ [Next]_vars => [Promise!Next]_(Promise!vars)
  <2> SUFFICES ASSUME Inductive, [Next]_vars PROVE [Promise!Next]_(Promise!vars)
    OBVIOUS
  <2>1. sent \in [Mids -> Nat]
    BY DEF Inductive, TypeOK
  <2>2. CASE Durable' = Durable
    <3>1. CASE sent' = sent
      BY <2>2, <3>1 DEF Promise!vars
    <3>2. CASE \E m \in Mids : Publish(m)
      <4>1. PICK m \in Mids : Publish(m)
        BY <3>2
      <4>2. {k \in Mids : sent'[k] > 0} = {k \in Mids : sent[k] > 0} \cup {m}
        BY <2>1, <4>1 DEF Publish
      <4>3. Promise!Submit(m)
        BY <2>2, <4>2 DEF Promise!Submit
      <4>4. QED
        BY <4>3 DEF Promise!Next
    <3>3. QED
      BY <3>1, <3>2 DEF Next, Step, Receive, vars, broker, Start, Load,
         DropDuplicate, HandleMessage, AppendRecord, NoteAppend, CompactReplace,
         CompactClose, Ack, Crash, CrashInAppend, Die
  <2>3. CASE Durable' # Durable
    <3>1. /\ cur \in Mids /\ cur \notin Durable.seen /\ sent[cur] > 0
          /\ Durable' = [seen    |-> Durable.seen \cup {cur},
                         applied |-> [Durable.applied EXCEPT ![cur] = @ + 1]]
          /\ sent' = sent
      BY <2>3, DurableStep
    <3>2. Promise!Commit(cur)
      BY <3>1 DEF Promise!Commit
    <3>3. QED
      BY <3>1, <3>2 DEF Promise!Next
  <2>4. QED
    BY <2>2, <2>3
<1>3. QED
  BY <1>1, <1>2, InductiveInvariant, PTL DEF Spec, Promise!Spec
=============================================================================
