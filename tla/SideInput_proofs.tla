-------------------------- MODULE SideInput_proofs --------------------------
(***************************************************************************)
(* Theorems about SideInput for every set of main batches, every finite    *)
(* table and every number of crashes.  The invariant has three parts       *)
(* beside the types: what a record says of the table (Tables), which of    *)
(* the two threads is where (Threads), and what the spill file holds       *)
(* (Spilled).  A second one, which rests on it, says what a line that does *)
(* not parse leaves behind (Stuck).                                        *)
(***************************************************************************)
EXTENDS SideInput, FiniteSetTheorems, SequenceTheorems, TLAPS

Inputs == Side \cup {SideEof}

\* The table, the counter and the expected count of a record are what its
\* side messages make of them.
CountsItsTable(r) ==
  /\ r.table = r.side \ {SideEof}
  /\ r.received = Cardinality(r.table)
  /\ r.expected = IF SideEof \in r.side THEN Cardinality(Side) ELSE None

\* The side message in hand is not in the log before it was appended.
Unlogged == IF side.at = "log" THEN {side.msg} ELSE {}

\* A worker that runs has its log in memory, but for that message.
Tables ==
  /\ CountsItsTable(mem) /\ CountsItsTable(disk)
  /\ ready <=> mem.side = Inputs
  /\ side.at # "off" => mem.main = disk.main /\ mem.side = disk.side \cup Unlogged
  /\ side.at = "off" => mem = Blank

\* Where each thread may be while the other is where it is.
Threads ==
  /\ main.at \in {"emit", "log"} <=> main.msg \in Batches
  /\ main.at = "emit" => ready
  /\ side.at = "off" => main.at = "off" /\ side = SideOff
  /\ main.at = "off" => side.at \in {"off", "drain", "draining"}
  /\ side.at = "log" => main.at = "idle" /\ side.msg \notin disk.side
  /\ side.at \in {"log", "ack"} => side.msg \in Inputs /\ (side.fresh <=> ready)
  /\ side.at \in {"drain", "draining", "dead"} => ready
  /\ side.at # "draining" => side.line = 1

\* The batches that are in the log, or will be when the handler has ended.
Handled == disk.main \cup (IF main.at = "log" THEN {main.msg} ELSE {})

\* Those of them that are neither emitted nor anywhere in the file.
Gone == Handled \ (Emitted \cup Range(spill))

\* A line without its newline is one of a batch nobody took for handled: the
\* line that is glued to it takes only one batch away, its own.
Spilled ==
  /\ IsFiniteSet(disk.main)
  /\ ~ended => spill # <<>> /\ spill[Len(spill)] \notin Handled \ Emitted
  /\ Cardinality(Gone) + (IF ended THEN 0 ELSE 1) <= torn
  /\ side.at = "draining" =>
       \A i \in 1 .. Len(spill) : i < side.line => spill[i] \in Emitted

Inductive ==
  TypeOK /\ Tables /\ Threads /\ Spilled /\ JoinedWithFullTable /\ NoStragglers

-----------------------------------------------------------------------------
(* Records and lines *)

\* The record is complete when every side message is in it.
LEMMA CompleteRecord ==
  ASSUME NEW r \in Records, CountsItsTable(r)
  PROVE  /\ IsFiniteSet(r.table)
         /\ Complete(r) <=> r.side = Inputs
         /\ r.side = Inputs => r.table = Side
<1>1. r.table \in SUBSET Side /\ r.side \in SUBSET Inputs
  BY DEF Records, Inputs
<1>2. IsFiniteSet(r.table) /\ Cardinality(r.table) <= Cardinality(Side)
      /\ (Cardinality(r.table) = Cardinality(Side) => r.table = Side)
  BY <1>1, FS_Subset, InputsAssumption
<1>3. Cardinality(r.table) \in Nat /\ Cardinality(Side) \in Nat
  BY <1>2, FS_CardinalityType, InputsAssumption
<1>4. Complete(r) <=> SideEof \in r.side /\ r.table = Side
  BY <1>2, <1>3, InputsAssumption DEF CountsItsTable, Complete
<1>5. SideEof \in r.side /\ r.table = Side <=> r.side = Inputs
  BY <1>1, InputsAssumption DEF CountsItsTable, Inputs
<1>6. QED
  BY <1>2, <1>4, <1>5

\* What a side message that is new to a record does to it.
LEMMA WithSideCounts ==
  ASSUME NEW r \in Records, CountsItsTable(r), NEW s \in Inputs, s \notin r.side
  PROVE  /\ WithSide(r, s) \in Records /\ CountsItsTable(WithSide(r, s))
         /\ WithSide(r, s).side = r.side \cup {s} /\ WithSide(r, s).main = r.main
<1>1. Cardinality(Side) \in Nat
  BY FS_CardinalityType, InputsAssumption
<1>2. CASE s = SideEof
  BY <1>1, <1>2 DEF WithSide, CountsItsTable, Records, Inputs
<1>3. CASE s # SideEof
  <2>1. s \in Side
    BY <1>3 DEF Inputs
  <2>2. IsFiniteSet(r.table) /\ s \notin r.table
    BY CompleteRecord DEF CountsItsTable
  <2>3. Cardinality(r.table \cup {s}) = r.received + 1
    BY <2>2, FS_AddElement DEF CountsItsTable
  <2>4. /\ WithSide(r, s).side = r.side \cup {s}
        /\ WithSide(r, s).table = r.table \cup {s}
        /\ WithSide(r, s).received = r.received + 1
        /\ WithSide(r, s).expected = r.expected /\ WithSide(r, s).main = r.main
    BY <1>3 DEF WithSide, Records
  <2>5. WithSide(r, s) \in Records
    <3>1. WithSide(r, s) = [r EXCEPT !.side = r.side \cup {s},
                              !.table = r.table \cup {s}, !.received = r.received + 1]
      BY <1>3 DEF WithSide
    <3>2. r.received + 1 \in Nat /\ r.side \cup {s} \in SUBSET Inputs
          /\ r.table \cup {s} \in SUBSET Side
      BY <2>1 DEF Records, Inputs
    <3>3. QED
      BY <3>1, <3>2 DEF Records, Inputs
  <2>6. r.table \cup {s} = (r.side \cup {s}) \ {SideEof}
    BY <1>3 DEF CountsItsTable
  <2>7. QED
    BY <1>3, <2>3, <2>4, <2>5, <2>6 DEF CountsItsTable
<1>4. QED
  BY <1>2, <1>3

LEMMA BlankRecord == Blank \in Records /\ CountsItsTable(Blank) /\ Blank.side # Inputs
<1>1. Cardinality({}) = 0
  BY FS_EmptySet
<1>2. {} = {} \ {SideEof}
  OBVIOUS
<1>3. QED
  BY <1>1, <1>2 DEF Blank, Records, CountsItsTable, Inputs

\* The lines a write leaves: the new one, and the old ones but for the one it
\* was glued to.
LEMMA WrittenLines ==
  ASSUME NEW b \in Batches, spill \in Seq(Batches \cup {Garbled}),
         ended \in BOOLEAN, ~ended => spill # <<>>
  PROVE  /\ Written(b) \in Seq(Batches \cup {Garbled})
         /\ Len(Written(b)) >= Len(spill)
         /\ ended => Range(Written(b)) = Range(spill) \cup {b}
         /\ ~ended => /\ Range(spill) \ {spill[Len(spill)]} \subseteq Range(Written(b))
                      /\ Written(b) # <<>> /\ Written(b)[Len(Written(b))] = Garbled
<1>1. Len(spill) \in Nat /\ DOMAIN spill = 1 .. Len(spill)
  BY LenProperties
<1>2. CASE ended
  <2>1. /\ Written(b) \in Seq(Batches \cup {Garbled})
        /\ Len(Written(b)) = Len(spill) + 1
        /\ \A i \in 1 .. Len(spill) : Written(b)[i] = spill[i]
        /\ Written(b)[Len(spill) + 1] = b
    BY <1>2, AppendProperties DEF Written
  <2>2. DOMAIN Written(b) = 1 .. Len(spill) + 1
    BY <2>1, LenProperties
  <2>3. Range(Written(b)) = Range(spill) \cup {b}
    BY <1>1, <2>1, <2>2 DEF Range
  <2>4. QED
    BY <1>1, <1>2, <2>1, <2>3
<1>3. CASE ~ended
  <2>1. Len(spill) > 0
    BY <1>1, <1>3, EmptySeq
  <2>2. Written(b) = [i \in 1 .. Len(spill) |->
                        IF i = Len(spill) THEN Garbled ELSE spill[i]]
    BY <1>1, <1>3 DEF Written
  <2>3. Written(b) \in Seq(Batches \cup {Garbled}) /\ Len(Written(b)) = Len(spill)
    <3>1. \A i \in 1 .. Len(spill) : Written(b)[i] \in Batches \cup {Garbled}
      BY <2>2, ElementOfSeq
    <3>2. Written(b) \in [1 .. Len(spill) -> Batches \cup {Garbled}]
      BY <2>2, <3>1
    <3>3. Written(b) \in Seq(Batches \cup {Garbled})
      BY <1>1, <3>2, SeqDef
    <3>4. Len(Written(b)) \in Nat /\ 1 .. Len(Written(b)) = 1 .. Len(spill)
      BY <3>3, <2>2, LenProperties
    <3>5. Len(Written(b)) = Len(spill)
      <4>1. Len(spill) \in 1 .. Len(Written(b))
        BY <1>1, <2>1, <3>4
      <4>2. Len(Written(b)) \in 1 .. Len(spill)
        BY <3>4, <4>1
      <4>3. QED
        BY <1>1, <3>4, <4>1, <4>2
    <3>6. QED
      BY <3>3, <3>5
  <2>4. DOMAIN Written(b) = 1 .. Len(spill)
    BY <2>2
  <2>5. \A i \in 1 .. Len(spill) :
          spill[i] # spill[Len(spill)] => Written(b)[i] = spill[i]
    BY <2>2
  <2>6. Range(spill) \ {spill[Len(spill)]} \subseteq Range(Written(b))
    BY <1>1, <2>4, <2>5 DEF Range
  <2>7. Written(b)[Len(spill)] = Garbled /\ Written(b) # <<>>
    <3>1. Written(b)[Len(spill)] = Garbled
      <4>1. \A i \in 1 .. Len(spill) : i = Len(spill) => Written(b)[i] = Garbled
        BY <2>2
      <4>2. Len(spill) \in 1 .. Len(spill)
        BY <1>1, <2>1
      <4>3. QED
        BY <4>1, <4>2
    <3>2. Len(<<>>) = 0
      BY EmptySeq
    <3>3. QED
      BY <2>1, <2>3, <3>1, <3>2
  <2>8. QED
    BY <1>1, <1>3, <2>3, <2>6, <2>7
<1>4. QED
  BY <1>2, <1>3

-----------------------------------------------------------------------------
(* The initial state, and the steps that leave the spill file alone *)

THEOREM Initial == Init => Inductive
<1> SUFFICES ASSUME Init PROVE Inductive
  OBVIOUS
<1>1. TypeOK
  <2>1. Len(<<>>) = 0 /\ <<>> \in Seq(Batches \cup {Garbled})
    BY EmptySeq
  <2>2. side \in [at : {"off", "idle", "log", "ack", "drain", "draining", "dead"},
                  msg : Side \cup {SideEof, None}, fresh : BOOLEAN,
                  line : 1 .. Len(spill) + 1]
    BY <2>1 DEF Init, SideOff
  <2>3. QED
    BY <2>1, <2>2, BlankRecord DEF Init, TypeOK, MainOff
<1>2. Tables
  BY BlankRecord DEF Init, Tables, SideOff
<1>3. Threads
  BY InputsAssumption DEF Init, Threads, SideOff, MainOff
<1>4. Spilled
  <2>1. Gone = {}
    BY DEF Init, Gone, Handled, Blank, MainOff
  <2>2. QED
    BY <2>1, FS_EmptySet DEF Init, Spilled, SideOff, Blank
<1>5. QED
  BY <1>1, <1>2, <1>3, <1>4 DEF Init, Inductive, JoinedWithFullTable, NoStragglers

LEMMA GoneIsFinite == ASSUME TypeOK, Spilled PROVE IsFiniteSet(Gone)
<1>1. IsFiniteSet({main.msg}) /\ IsFiniteSet({})
  BY FS_Singleton, FS_EmptySet
<1>2. IsFiniteSet(Handled)
  BY <1>1, FS_Union DEF Handled, Spilled
<1>3. QED
  BY <1>2, FS_Difference DEF Gone

\* While the spill file stays as it is and what is newly handled is emitted,
\* nothing is lost.
LEMMA LinesStay ==
  ASSUME Spilled, UNCHANGED <<spill, ended, torn>>, out \subseteq out',
         TypeOK, IsFiniteSet(disk.main)', Handled' \subseteq Handled \cup Emitted',
         side'.at = "draining" =>
           \A i \in 1 .. Len(spill) : i < side'.line => spill[i] \in Emitted'
  PROVE  Spilled'
<1>1. Emitted \subseteq Emitted'
  BY DEF Emitted
<1>2. Gone' \subseteq Gone
  BY <1>1 DEF Gone
<1>3. IsFiniteSet(Gone)
  BY GoneIsFinite
<1>4. Cardinality(Gone') <= Cardinality(Gone) /\ Cardinality(Gone') \in Nat
      /\ Cardinality(Gone) \in Nat
  BY <1>2, <1>3, FS_Subset, FS_CardinalityType
<1>5. torn \in Nat
  BY DEF TypeOK
<1>6. Cardinality(Gone') + (IF ended THEN 0 ELSE 1) <= torn
  BY <1>4, <1>5 DEF Spilled
<1>7. ~ended => spill # <<>> /\ spill[Len(spill)] \notin Handled' \ Emitted'
  BY <1>1 DEF Spilled
<1>8. QED
  BY <1>6, <1>7 DEF Spilled

\* A restart finds in the log what was in memory but for a message in hand.
LEMMA StartStep == ASSUME Inductive, Start PROVE Inductive'
<1>0. TypeOK /\ Tables /\ Threads /\ Spilled /\ JoinedWithFullTable /\ NoStragglers
  BY DEF Inductive
<1>1. disk \in Records /\ (Complete(disk) <=> disk.side = Inputs)
  BY <1>0, CompleteRecord DEF TypeOK, Tables
<1>2. /\ mem' = disk /\ disk' = disk /\ ready' \in BOOLEAN
      /\ ready' <=> disk.side = Inputs
      /\ main = MainOff /\ side = SideOff
      /\ UNCHANGED <<mainq, sideq, spill, ended, out, crashes, torn>>
  <2>1. ready' = Complete(disk) /\ Complete(disk) \in BOOLEAN
    BY DEF Start, Complete
  <2>2. QED
    BY <1>1, <2>1 DEF Start, Snapshot
<1>3. \/ ready' /\ side' = [SideOff EXCEPT !.at = "drain"] /\ main' = main
      \/ ~ready' /\ side' = SideIdle /\ main' = MainIdle
  BY <1>1, <1>2 DEF Start, DrainAtStart
<1>4. \E at \in {"drain", "idle"} :
         side' = [at |-> at, msg |-> None, fresh |-> FALSE, line |-> 1]
  BY <1>3 DEF SideOff, SideIdle
<1>5. TypeOK'
  <2>1. Len(spill) \in Nat
    BY <1>0, LenProperties DEF TypeOK
  <2>2. side' \in [at : {"off", "idle", "log", "ack", "drain", "draining", "dead"},
                   msg : Side \cup {SideEof, None}, fresh : BOOLEAN,
                   line : 1 .. Len(spill) + 1]
    BY <1>4, <2>1
  <2>3. QED
    BY <1>0, <1>1, <1>2, <1>3, <2>2 DEF TypeOK, MainIdle
<1>6. Tables'
  BY <1>0, <1>2, <1>4 DEF Tables, Unlogged
<1>7. Threads'
  BY <1>0, <1>2, <1>3, <1>4, InputsAssumption
     DEF Threads, MainOff, MainIdle, SideIdle, SideOff
<1>8. Spilled'
  <2>1. Handled' = Handled /\ IsFiniteSet(disk.main)'
    BY <1>0, <1>2, <1>3 DEF Handled, MainOff, MainIdle, Spilled
  <2>2. QED
    BY <1>0, <1>2, <1>4, <2>1, LinesStay
<1>9. JoinedWithFullTable' /\ NoStragglers'
  BY <1>0, <1>2, <1>3 DEF JoinedWithFullTable, NoStragglers, SideOff
<1>10. QED
  BY <1>5, <1>6, <1>7, <1>8, <1>9 DEF Inductive

-----------------------------------------------------------------------------
(* The main thread *)

\* The type of the side thread's state, which the lines of the file bound.
SideAt == {"off", "idle", "log", "ack", "drain", "draining", "dead"}

LEMMA LongerFile ==
  ASSUME TypeOK, UNCHANGED side, Len(spill') >= Len(spill), Len(spill') \in Nat
  PROVE  side' \in [at : SideAt, msg : Side \cup {SideEof, None}, fresh : BOOLEAN,
                    line : 1 .. Len(spill') + 1]
<1>1. Len(spill) \in Nat
  BY LenProperties DEF TypeOK
<1>2. side \in [at : SideAt, msg : Side \cup {SideEof, None}, fresh : BOOLEAN,
                line : 1 .. Len(spill) + 1]
  BY DEF TypeOK, SideAt
<1>3. 1 .. Len(spill) + 1 \subseteq 1 .. Len(spill') + 1
  BY <1>1
<1>4. QED
  BY <1>2, <1>3

\* A batch that is spilled takes at most itself away, and only when the line
\* before it had no newline.
LEMMA SpillBatchStep ==
  ASSUME Inductive, NEW b \in Batches, SpillBatch(b) PROVE Inductive'
<1>0. TypeOK /\ Tables /\ Threads /\ Spilled /\ JoinedWithFullTable /\ NoStragglers
  BY DEF Inductive
<1>1. /\ main.at = "idle" /\ side.at \notin {"log", "draining"} /\ ~ready
      /\ spill' = Written(b) /\ ended' = TRUE /\ main' = [at |-> "log", msg |-> b]
      /\ UNCHANGED <<mainq, sideq, mem, ready, disk, side, out, crashes, torn>>
  BY DEF SpillBatch, TakesBatch
<1>2. /\ Written(b) \in Seq(Batches \cup {Garbled})
      /\ Len(Written(b)) >= Len(spill)
      /\ ended => Range(Written(b)) = Range(spill) \cup {b}
      /\ ~ended => Range(spill) \ {spill[Len(spill)]} \subseteq Range(Written(b))
  BY <1>0, WrittenLines DEF TypeOK, Spilled
<1>3. TypeOK'
  <2>1. Len(spill') \in Nat
    BY <1>1, <1>2, LenProperties
  <2>2. side' \in [at : SideAt, msg : Side \cup {SideEof, None}, fresh : BOOLEAN,
                   line : 1 .. Len(spill') + 1]
    BY <1>0, <1>1, <1>2, <2>1, LongerFile
  <2>3. QED
    BY <1>0, <1>1, <1>2, <2>2 DEF TypeOK, SideAt
<1>4. Tables'
  BY <1>0, <1>1 DEF Tables, Unlogged
<1>5. Threads'
  BY <1>0, <1>1 DEF Threads
<1>6. Spilled'
  <2>1. Handled = disk.main /\ Handled' = disk.main \cup {b} /\ Emitted' = Emitted
    BY <1>1 DEF Handled, Emitted
  <2>2. IsFiniteSet(Gone) /\ Cardinality(Gone) \in Nat
    BY <1>0, GoneIsFinite, FS_CardinalityType
  <2>3. torn \in Nat
    BY <1>0 DEF TypeOK
  <2>4. CASE ended
    <3>1. Gone' \subseteq Gone
      BY <1>1, <1>2, <2>1, <2>4 DEF Gone
    <3>2. Cardinality(Gone') <= Cardinality(Gone) /\ Cardinality(Gone') \in Nat
      BY <2>2, <3>1, FS_Subset, FS_CardinalityType
    <3>3. QED
      BY <1>0, <1>1, <2>2, <2>3, <2>4, <3>2 DEF Spilled
  <2>5. CASE ~ended
    <3>1. spill[Len(spill)] \notin Handled \ Emitted
      BY <1>0, <2>5 DEF Spilled
    <3>2. Gone' \subseteq Gone \cup {b}
      BY <1>1, <1>2, <2>1, <2>5, <3>1 DEF Gone
    <3>3. IsFiniteSet(Gone \cup {b}) /\ Cardinality(Gone \cup {b}) <= Cardinality(Gone) + 1
          /\ Cardinality(Gone \cup {b}) \in Nat
      BY <2>2, FS_AddElement, FS_CardinalityType
    <3>4. Cardinality(Gone') <= Cardinality(Gone) + 1 /\ Cardinality(Gone') \in Nat
      BY <2>2, <3>2, <3>3, FS_Subset, FS_CardinalityType
    <3>5. QED
      BY <1>0, <1>1, <2>2, <2>3, <2>5, <3>4 DEF Spilled
  <2>6. QED
    BY <1>0, <2>4, <2>5 DEF TypeOK
<1>7. JoinedWithFullTable' /\ NoStragglers'
  BY <1>0, <1>1 DEF JoinedWithFullTable, NoStragglers
<1>8. QED
  BY <1>3, <1>4, <1>5, <1>6, <1>7 DEF Inductive

LEMMA ReadReadyStep ==
  ASSUME Inductive, NEW b \in Batches, ReadReady(b) PROVE Inductive'
<1>0. TypeOK /\ Tables /\ Threads /\ Spilled /\ JoinedWithFullTable /\ NoStragglers
  BY DEF Inductive
<1>1. /\ main.at = "idle" /\ side.at \notin {"log", "draining"} /\ ready
      /\ main' = [at |-> "emit", msg |-> b]
      /\ UNCHANGED <<mainq, sideq, mem, ready, disk, spill, ended, side, out, crashes, torn>>
  BY DEF ReadReady, TakesBatch
<1>2. TypeOK'
  BY <1>0, <1>1 DEF TypeOK
<1>3. Tables'
  BY <1>0, <1>1 DEF Tables, Unlogged
<1>4. Threads'
  BY <1>0, <1>1 DEF Threads
<1>5. Spilled'
  <2>1. Handled' = Handled /\ IsFiniteSet(disk.main)'
    BY <1>0, <1>1 DEF Handled, Spilled
  <2>2. QED
    BY <1>0, <1>1, <2>1, LinesStay DEF Spilled
<1>6. JoinedWithFullTable' /\ NoStragglers'
  BY <1>0, <1>1 DEF JoinedWithFullTable, NoStragglers
<1>7. QED
  BY <1>2, <1>3, <1>4, <1>5, <1>6 DEF Inductive

\* The table a running worker joins with is full once it is ready.
LEMMA ReadyTable == ASSUME TypeOK, Tables, ready PROVE mem.table = Side
  BY CompleteRecord DEF TypeOK, Tables

LEMMA EmitBatchStep == ASSUME Inductive, EmitBatch PROVE Inductive'
<1>0. TypeOK /\ Tables /\ Threads /\ Spilled /\ JoinedWithFullTable /\ NoStragglers
  BY DEF Inductive
<1>1. /\ main.at = "emit" /\ ready /\ main.msg \in Batches /\ side.at # "log"
      /\ out' = out \cup {Joined(main.msg)}
      /\ main' = [main EXCEPT !.at = "log"]
      /\ UNCHANGED <<mainq, sideq, mem, ready, disk, spill, ended, side, crashes, torn>>
  BY <1>0 DEF EmitBatch, Threads
<1>2. Joined(main.msg) = [batch |-> main.msg, table |-> Side]
  BY <1>0, <1>1, ReadyTable DEF Joined
<1>3. main' = [at |-> "log", msg |-> main.msg]
  BY <1>0, <1>1 DEF TypeOK
<1>4. TypeOK'
  BY <1>0, <1>1, <1>2, <1>3 DEF TypeOK
<1>5. Tables'
  BY <1>0, <1>1 DEF Tables, Unlogged
<1>6. Threads'
  BY <1>0, <1>1, <1>3 DEF Threads
<1>7. Spilled'
  <2>1. Handled' \subseteq Handled \cup {main.msg} /\ IsFiniteSet(disk.main)'
    BY <1>0, <1>1, <1>3 DEF Handled, Spilled
  <2>2. main.msg \in Emitted' /\ Emitted \subseteq Emitted'
    BY <1>1, <1>2 DEF Emitted
  <2>3. QED
    BY <1>0, <1>1, <2>1, <2>2, LinesStay DEF Spilled
<1>8. JoinedWithFullTable' /\ NoStragglers'
  BY <1>0, <1>1, <1>2 DEF JoinedWithFullTable, NoStragglers
<1>9. QED
  BY <1>4, <1>5, <1>6, <1>7, <1>8 DEF Inductive

LEMMA LogMainStep == ASSUME Inductive, LogMain PROVE Inductive'
<1>0. TypeOK /\ Tables /\ Threads /\ Spilled /\ JoinedWithFullTable /\ NoStragglers
  BY DEF Inductive
<1>1. /\ main.at = "log" /\ main.msg \in Batches /\ main' = MainIdle
      /\ side.at \notin {"off", "log"}
      /\ mem' = [mem EXCEPT !.main = @ \cup {main.msg}]
      /\ disk' \in {[disk EXCEPT !.main = @ \cup {main.msg}], mem'}
      /\ UNCHANGED <<mainq, sideq, ready, spill, ended, side, out, crashes, torn>>
  BY <1>0 DEF LogMain, Threads, Snapshot
<1>2. /\ mem.main = disk.main /\ mem.side = disk.side
      /\ mem \in Records /\ disk \in Records
  BY <1>0, <1>1 DEF Tables, Unlogged, TypeOK
<1>3. /\ mem'.main = mem.main \cup {main.msg} /\ mem'.side = mem.side
      /\ mem'.table = mem.table /\ mem'.received = mem.received
      /\ mem'.expected = mem.expected /\ mem' \in Records
  BY <1>1, <1>2 DEF Records
<1>4. /\ disk'.main = disk.main \cup {main.msg} /\ disk'.side = disk.side
      /\ disk' \in Records
      /\ \/ disk'.table = disk.table /\ disk'.received = disk.received
            /\ disk'.expected = disk.expected
         \/ disk' = mem'
  BY <1>1, <1>2, <1>3 DEF Records
<1>5. TypeOK'
  BY <1>0, <1>1, <1>3, <1>4 DEF TypeOK, MainIdle
<1>6. Tables'
  <2>1. CountsItsTable(mem')
    BY <1>0, <1>3 DEF Tables, CountsItsTable
  <2>2. CountsItsTable(disk')
    BY <1>0, <1>4, <2>1 DEF Tables, CountsItsTable
  <2>3. QED
    BY <1>0, <1>1, <1>2, <1>3, <1>4, <2>1, <2>2 DEF Tables, Unlogged
<1>7. Threads'
  BY <1>0, <1>1, <1>4, InputsAssumption DEF Threads, MainIdle
<1>8. Spilled'
  <2>1. Handled' = Handled
    BY <1>1, <1>4 DEF Handled, MainIdle
  <2>2. IsFiniteSet(disk.main)'
    BY <1>0, <1>4, FS_AddElement DEF Spilled
  <2>3. QED
    BY <1>0, <1>1, <2>1, <2>2, LinesStay DEF Spilled, Emitted
<1>9. JoinedWithFullTable' /\ NoStragglers'
  BY <1>0, <1>1 DEF JoinedWithFullTable, NoStragglers
<1>10. QED
  BY <1>5, <1>6, <1>7, <1>8, <1>9 DEF Inductive

LEMMA AckMainStep ==
  ASSUME Inductive, NEW b \in Batches, AckMain(b) PROVE Inductive'
<1>0. TypeOK /\ Tables /\ Threads /\ Spilled /\ JoinedWithFullTable /\ NoStragglers
  BY DEF Inductive
<1>1. /\ mainq' \subseteq mainq
      /\ UNCHANGED <<sideq, mem, ready, disk, spill, ended, main, side, out, crashes, torn>>
  BY DEF AckMain
<1>2. TypeOK' /\ Tables' /\ Threads' /\ JoinedWithFullTable' /\ NoStragglers'
  BY <1>0, <1>1 DEF TypeOK, Tables, Unlogged, Threads, JoinedWithFullTable, NoStragglers
<1>3. Spilled'
  <2>1. Handled' = Handled /\ IsFiniteSet(disk.main)'
    BY <1>0, <1>1 DEF Handled, Spilled
  <2>2. QED
    BY <1>0, <1>1, <2>1, LinesStay DEF Spilled, Emitted
<1>4. QED
  BY <1>2, <1>3 DEF Inductive

-----------------------------------------------------------------------------
(* The side thread *)

LEMMA ApplySideStep ==
  ASSUME Inductive, NEW s \in Inputs, ApplySide(s) PROVE Inductive'
<1>0. TypeOK /\ Tables /\ Threads /\ Spilled /\ JoinedWithFullTable /\ NoStragglers
  BY DEF Inductive
<1>1. /\ side.at = "idle" /\ main.at = "idle" /\ s \notin mem.side
      /\ mem' = WithSide(mem, s) /\ ready' = (ready \/ Complete(mem'))
      /\ side' = [SideOff EXCEPT !.at = "log", !.msg = s, !.fresh = ready' /\ ~ready]
      /\ UNCHANGED <<mainq, sideq, disk, spill, ended, main, out, crashes, torn>>
  BY DEF ApplySide
<1>2. /\ mem \in Records /\ CountsItsTable(mem)
      /\ mem.main = disk.main /\ mem.side = disk.side
  BY <1>0, <1>1 DEF TypeOK, Tables, Unlogged
<1>3. /\ mem' \in Records /\ CountsItsTable(mem')
      /\ mem'.side = mem.side \cup {s} /\ mem'.main = mem.main
  BY <1>1, <1>2, WithSideCounts
<1>4. Complete(mem') <=> mem'.side = Inputs
  BY <1>3, CompleteRecord
<1>5. ~ready
  BY <1>0, <1>1 DEF Tables
<1>6. ready' \in BOOLEAN /\ (ready' <=> mem'.side = Inputs)
  <2>1. Complete(mem') \in BOOLEAN
    BY DEF Complete
  <2>2. ready' = Complete(mem')
    BY <1>0, <1>1, <1>5, <2>1 DEF TypeOK
  <2>3. QED
    BY <1>4, <2>1, <2>2
<1>7. \E fresh \in BOOLEAN :
        /\ side' = [at |-> "log", msg |-> s, fresh |-> fresh, line |-> 1]
        /\ fresh <=> ready'
  <2>1. side' = [at |-> "log", msg |-> s, fresh |-> (ready' /\ ~ready), line |-> 1]
    BY <1>1 DEF SideOff
  <2>2. (ready' /\ ~ready) \in BOOLEAN /\ ((ready' /\ ~ready) <=> ready')
    BY <1>5
  <2>3. QED
    BY <2>1, <2>2
<1>8. TypeOK'
  <2>1. Len(spill) \in Nat
    BY <1>0, LenProperties DEF TypeOK
  <2>2. side' \in [at : SideAt, msg : Side \cup {SideEof, None}, fresh : BOOLEAN,
                   line : 1 .. Len(spill) + 1]
    BY <1>7, <2>1 DEF SideAt, Inputs
  <2>3. QED
    BY <1>0, <1>1, <1>3, <1>6, <2>2 DEF TypeOK, SideAt
<1>9. Tables'
  BY <1>0, <1>1, <1>2, <1>3, <1>6, <1>7 DEF Tables, Unlogged
<1>10. Threads'
  BY <1>0, <1>1, <1>2, <1>7 DEF Threads
<1>11. Spilled'
  <2>1. Handled' = Handled /\ IsFiniteSet(disk.main)'
    BY <1>0, <1>1 DEF Handled, Spilled
  <2>2. QED
    BY <1>0, <1>1, <1>7, <2>1, LinesStay
<1>12. JoinedWithFullTable' /\ NoStragglers'
  BY <1>0, <1>1, <1>7 DEF JoinedWithFullTable, NoStragglers
<1>13. QED
  BY <1>8, <1>9, <1>10, <1>11, <1>12 DEF Inductive

LEMMA LogSideStep == ASSUME Inductive, LogSide PROVE Inductive'
<1>0. TypeOK /\ Tables /\ Threads /\ Spilled /\ JoinedWithFullTable /\ NoStragglers
  BY DEF Inductive
<1>1. /\ side.at = "log" /\ side.msg \in Inputs /\ side.msg \notin disk.side
      /\ disk' = WithSide(disk, side.msg) /\ side' = [side EXCEPT !.at = "ack"]
      /\ UNCHANGED <<mainq, sideq, mem, ready, spill, ended, main, out, crashes, torn>>
  BY <1>0 DEF LogSide, Threads
<1>2. side' = [at |-> "ack", msg |-> side.msg, fresh |-> side.fresh, line |-> 1]
  BY <1>0, <1>1 DEF TypeOK, Threads
<1>3. /\ disk' \in Records /\ CountsItsTable(disk')
      /\ disk'.side = disk.side \cup {side.msg} /\ disk'.main = disk.main
  BY <1>0, <1>1, WithSideCounts DEF TypeOK, Tables
<1>4. TypeOK'
  BY <1>0, <1>1, <1>3 DEF TypeOK
<1>5. Tables'
  BY <1>0, <1>1, <1>2, <1>3 DEF Tables, Unlogged
<1>6. Threads'
  BY <1>0, <1>1, <1>2 DEF Threads
<1>7. Spilled'
  <2>1. Handled' = Handled /\ IsFiniteSet(disk.main)'
    BY <1>0, <1>1, <1>3 DEF Handled, Spilled
  <2>2. QED
    BY <1>0, <1>1, <1>2, <2>1, LinesStay
<1>8. JoinedWithFullTable' /\ NoStragglers'
  BY <1>0, <1>1, <1>2 DEF JoinedWithFullTable, NoStragglers
<1>9. QED
  BY <1>4, <1>5, <1>6, <1>7, <1>8 DEF Inductive

LEMMA AckSideStep == ASSUME Inductive, AckSide PROVE Inductive'
<1>0. TypeOK /\ Tables /\ Threads /\ Spilled /\ JoinedWithFullTable /\ NoStragglers
  BY DEF Inductive
<1>1. /\ side.at = "ack" /\ sideq' \subseteq sideq /\ (side.fresh <=> ready)
      /\ UNCHANGED <<mainq, mem, ready, disk, spill, ended, main, out, crashes, torn>>
  BY <1>0 DEF AckSide, Threads
<1>2. \E at \in {"drain", "idle"} :
        /\ side' = [at |-> at, msg |-> None, fresh |-> FALSE, line |-> 1]
        /\ at = "drain" <=> ready
  BY <1>1 DEF AckSide, SideOff, SideIdle
<1>3. TypeOK'
  <2>1. Len(spill) \in Nat
    BY <1>0, LenProperties DEF TypeOK
  <2>2. side' \in [at : SideAt, msg : Side \cup {SideEof, None}, fresh : BOOLEAN,
                   line : 1 .. Len(spill) + 1]
    BY <1>2, <2>1 DEF SideAt
  <2>3. QED
    BY <1>0, <1>1, <2>2 DEF TypeOK, SideAt
<1>4. Tables'
  BY <1>0, <1>1, <1>2 DEF Tables, Unlogged
<1>5. Threads'
  BY <1>0, <1>1, <1>2 DEF Threads
<1>6. Spilled'
  <2>1. Handled' = Handled /\ IsFiniteSet(disk.main)'
    BY <1>0, <1>1 DEF Handled, Spilled
  <2>2. QED
    BY <1>0, <1>1, <1>2, <2>1, LinesStay
<1>7. JoinedWithFullTable' /\ NoStragglers'
  BY <1>0, <1>1, <1>2 DEF JoinedWithFullTable, NoStragglers
<1>8. QED
  BY <1>3, <1>4, <1>5, <1>6, <1>7 DEF Inductive

LEMMA DropSideStep ==
  ASSUME Inductive, NEW s \in Inputs, DropSide(s) PROVE Inductive'
<1>0. TypeOK /\ Tables /\ Threads /\ Spilled /\ JoinedWithFullTable /\ NoStragglers
  BY DEF Inductive
<1>1. /\ sideq' \subseteq sideq
      /\ UNCHANGED <<mainq, mem, ready, disk, spill, ended, main, side, out, crashes, torn>>
  BY DEF DropSide
<1>2. TypeOK' /\ Tables' /\ Threads' /\ JoinedWithFullTable' /\ NoStragglers'
  BY <1>0, <1>1 DEF TypeOK, Tables, Unlogged, Threads, JoinedWithFullTable, NoStragglers
<1>3. Spilled'
  <2>1. Handled' = Handled /\ IsFiniteSet(disk.main)'
    BY <1>0, <1>1 DEF Handled, Spilled
  <2>2. QED
    BY <1>0, <1>1, <2>1, LinesStay DEF Spilled, Emitted
<1>4. QED
  BY <1>2, <1>3 DEF Inductive

-----------------------------------------------------------------------------
(* The drain *)

LEMMA BeginDrainStep == ASSUME Inductive, BeginDrain PROVE Inductive'
<1>0. TypeOK /\ Tables /\ Threads /\ Spilled /\ JoinedWithFullTable /\ NoStragglers
  BY DEF Inductive
<1>1. /\ side.at = "drain" /\ side' = [side EXCEPT !.at = "draining"]
      /\ UNCHANGED <<mainq, sideq, mem, ready, disk, spill, ended, main, out, crashes, torn>>
  BY DEF BeginDrain
<1>2. side' = [at |-> "draining", msg |-> side.msg, fresh |-> side.fresh, line |-> 1]
  BY <1>0, <1>1 DEF TypeOK, Threads
<1>3. TypeOK'
  BY <1>0, <1>1 DEF TypeOK
<1>4. Tables'
  BY <1>0, <1>1, <1>2 DEF Tables, Unlogged
<1>5. Threads'
  BY <1>0, <1>1, <1>2 DEF Threads
<1>6. Spilled'
  <2>1. Handled' = Handled /\ IsFiniteSet(disk.main)'
    BY <1>0, <1>1 DEF Handled, Spilled
  <2>2. \A i \in 1 .. Len(spill) : ~(i < side'.line)
    BY <1>2
  <2>3. QED
    BY <1>0, <1>1, <2>1, <2>2, LinesStay
<1>7. JoinedWithFullTable' /\ NoStragglers'
  BY <1>0, <1>1, <1>2 DEF JoinedWithFullTable, NoStragglers
<1>8. QED
  BY <1>3, <1>4, <1>5, <1>6, <1>7 DEF Inductive

LEMMA DrainLineStep == ASSUME Inductive, DrainLine PROVE Inductive'
<1>0. TypeOK /\ Tables /\ Threads /\ Spilled /\ JoinedWithFullTable /\ NoStragglers
  BY DEF Inductive
<1>1. /\ side.at = "draining" /\ side.line <= Len(spill) /\ spill[side.line] # Garbled
      /\ ready /\ out' = out \cup {Joined(spill[side.line])}
      /\ side' = [side EXCEPT !.line = @ + 1]
      /\ UNCHANGED <<mainq, sideq, mem, ready, disk, spill, ended, main, crashes, torn>>
  BY <1>0 DEF DrainLine, Threads
<1>2. /\ Len(spill) \in Nat /\ side.line \in 1 .. Len(spill)
      /\ spill[side.line] \in Batches
  <2>1. Len(spill) \in Nat /\ side.line \in 1 .. Len(spill) + 1
    BY <1>0, LenProperties DEF TypeOK
  <2>2. side.line \in 1 .. Len(spill)
    BY <1>1, <2>1
  <2>3. QED
    BY <1>0, <1>1, <2>1, <2>2, ElementOfSeq DEF TypeOK
<1>3. Joined(spill[side.line]) = [batch |-> spill[side.line], table |-> Side]
  BY <1>0, <1>1, ReadyTable DEF Joined
<1>4. side' = [at |-> "draining", msg |-> side.msg, fresh |-> side.fresh,
               line |-> side.line + 1]
  BY <1>0, <1>1 DEF TypeOK
<1>5. TypeOK'
  <2>1. side' \in [at : SideAt, msg : Side \cup {SideEof, None}, fresh : BOOLEAN,
                   line : 1 .. Len(spill) + 1]
    BY <1>0, <1>2, <1>4 DEF TypeOK, SideAt
  <2>2. QED
    BY <1>0, <1>1, <1>2, <1>3, <2>1 DEF TypeOK, SideAt
<1>6. Tables'
  BY <1>0, <1>1, <1>4 DEF Tables, Unlogged
<1>7. Threads'
  BY <1>0, <1>1, <1>4 DEF Threads
<1>8. Spilled'
  <2>1. Handled' = Handled /\ IsFiniteSet(disk.main)'
    BY <1>0, <1>1 DEF Handled, Spilled
  <2>2. spill[side.line] \in Emitted' /\ Emitted \subseteq Emitted'
    BY <1>1, <1>3 DEF Emitted
  <2>3. \A i \in 1 .. Len(spill) : i < side.line + 1 => i = side.line \/ i < side.line
    BY <1>2
  <2>4. \A i \in 1 .. Len(spill) : i < side'.line => spill[i] \in Emitted'
    BY <1>0, <1>1, <1>4, <2>2, <2>3 DEF Spilled
  <2>5. QED
    BY <1>0, <1>1, <2>1, <2>4, LinesStay
<1>9. JoinedWithFullTable' /\ NoStragglers'
  BY <1>0, <1>1, <1>3, <1>4 DEF JoinedWithFullTable, NoStragglers
<1>10. QED
  BY <1>5, <1>6, <1>7, <1>8, <1>9 DEF Inductive

\* The file is removed when each of its lines has been emitted.
LEMMA EndDrainStep == ASSUME Inductive, EndDrain PROVE Inductive'
<1>0. TypeOK /\ Tables /\ Threads /\ Spilled /\ JoinedWithFullTable /\ NoStragglers
  BY DEF Inductive
<1>1. /\ side.at = "draining" /\ side.line > Len(spill)
      /\ spill' = <<>> /\ ended' = TRUE /\ side' = SideIdle
      /\ UNCHANGED <<mainq, sideq, mem, ready, disk, out, crashes, torn>>
      /\ main' = main \/ (main = MainOff /\ main' = MainIdle)
  BY DEF EndDrain, Drained
<1>2. /\ side' = [at |-> "idle", msg |-> None, fresh |-> FALSE, line |-> 1]
      /\ Len(<<>>) = 0 /\ <<>> \in Seq(Batches \cup {Garbled})
  <2>1. side' = [at |-> "idle", msg |-> None, fresh |-> FALSE, line |-> 1]
    BY <1>1 DEF SideIdle, SideOff
  <2>2. QED
    BY <2>1, EmptySeq
<1>3. main.at = "off" => main = MainOff
  BY <1>0 DEF Threads, TypeOK, MainOff
<1>4. main' \in [at : {"off", "idle", "emit", "log"}, msg : Batches \cup {None}]
  BY <1>0, <1>1 DEF TypeOK, MainIdle
<1>5. TypeOK'
  <2>1. side' \in [at : SideAt, msg : Side \cup {SideEof, None}, fresh : BOOLEAN,
                   line : 1 .. Len(spill') + 1]
    BY <1>1, <1>2 DEF SideAt
  <2>2. QED
    BY <1>0, <1>1, <1>2, <1>4, <2>1 DEF TypeOK, SideAt
<1>6. Tables'
  BY <1>0, <1>1, <1>2 DEF Tables, Unlogged
<1>7. Threads'
  <2>1. CASE main' = main /\ main.at # "off"
    BY <1>0, <1>1, <1>2, <2>1 DEF Threads
  <2>2. CASE main = MainOff /\ main' = MainIdle
    BY <1>0, <1>1, <1>2, <2>2 DEF Threads, MainOff, MainIdle
  <2>3. main.at = "off" => main' = MainIdle
    BY <1>1, <1>3 DEF EndDrain
  <2>4. QED
    BY <1>1, <1>3, <2>1, <2>2, <2>3
<1>8. Spilled'
  <2>1. Handled' = Handled /\ Emitted' = Emitted
    BY <1>1 DEF Handled, Emitted, MainOff, MainIdle
  <2>2. Len(spill) \in Nat /\ DOMAIN spill = 1 .. Len(spill) /\ side.line \in Nat
    BY <1>0, LenProperties DEF TypeOK
  <2>3. Range(spill) \subseteq Emitted
    <3>1. \A i \in 1 .. Len(spill) : i < side.line
      BY <1>1, <2>2
    <3>2. QED
      BY <1>0, <1>1, <2>2, <3>1 DEF Spilled, Range
  <2>4. Gone' \subseteq Gone
    BY <2>1, <2>3 DEF Gone
  <2>5. IsFiniteSet(Gone) /\ Cardinality(Gone) \in Nat
    BY <1>0, GoneIsFinite, FS_CardinalityType
  <2>6. Cardinality(Gone') <= Cardinality(Gone) /\ Cardinality(Gone') \in Nat
    BY <2>4, <2>5, FS_Subset, FS_CardinalityType
  <2>7. torn \in Nat
    BY <1>0 DEF TypeOK
  <2>8. QED
    BY <1>0, <1>1, <1>2, <2>5, <2>6, <2>7 DEF Spilled
<1>9. JoinedWithFullTable' /\ NoStragglers'
  BY <1>0, <1>1 DEF JoinedWithFullTable, NoStragglers
<1>10. QED
  BY <1>5, <1>6, <1>7, <1>8, <1>9 DEF Inductive

\* What the worker's memory and its main thread make of an end of the process.
LEMMA Stopped ==
  ASSUME Inductive, main' = MainOff, side' = SideOff, mem' = Blank, ready' = FALSE,
         UNCHANGED <<mainq, sideq, disk, out>>,
         crashes' \in Nat, torn' \in Nat, ended' \in BOOLEAN,
         spill' \in Seq(Batches \cup {Garbled})
  PROVE  /\ TypeOK' /\ Tables' /\ Threads'
         /\ JoinedWithFullTable' /\ NoStragglers'
         /\ Handled' = disk.main /\ Emitted' = Emitted
<1>0. TypeOK /\ Tables /\ Threads /\ Spilled /\ JoinedWithFullTable /\ NoStragglers
  BY DEF Inductive
<1>1. SideOff = [at |-> "off", msg |-> None, fresh |-> FALSE, line |-> 1]
  BY DEF SideOff
<1>2. TypeOK'
  <2>1. Len(spill') \in Nat
    BY LenProperties
  <2>2. side' \in [at : SideAt, msg : Side \cup {SideEof, None}, fresh : BOOLEAN,
                   line : 1 .. Len(spill') + 1]
    BY <1>1, <2>1 DEF SideAt
  <2>3. QED
    BY <1>0, <2>2, BlankRecord DEF TypeOK, SideAt, MainOff
<1>3. Tables'
  BY <1>0, <1>1, BlankRecord DEF Tables
<1>4. Threads'
  BY <1>1, InputsAssumption DEF Threads, MainOff
<1>5. QED
  BY <1>0, <1>1, <1>2, <1>3, <1>4
     DEF JoinedWithFullTable, NoStragglers, Handled, Emitted, MainOff

LEMMA FailDrainStep == ASSUME Inductive, FailDrain PROVE Inductive'
<1>0. TypeOK /\ Tables /\ Threads /\ Spilled /\ JoinedWithFullTable /\ NoStragglers
  BY DEF Inductive
<1>1. side.at = "draining"
      /\ UNCHANGED <<mainq, sideq, disk, spill, ended, main, out, crashes, torn>>
  BY DEF FailDrain
<1>2. CASE main = MainOff
  <2>1. main' = MainOff /\ side' = SideOff /\ mem' = Blank /\ ready' = FALSE
    BY <1>1, <1>2 DEF FailDrain
  <2>2. /\ TypeOK' /\ Tables' /\ Threads' /\ JoinedWithFullTable' /\ NoStragglers'
        /\ Handled' = disk.main
    BY <1>0, <1>1, <2>1, Stopped DEF TypeOK
  <2>3. Spilled'
    BY <1>0, <1>1, <2>1, <2>2, LinesStay DEF Spilled, Handled, SideOff
  <2>4. QED
    BY <2>2, <2>3 DEF Inductive
<1>3. CASE main # MainOff
  <2>1. /\ side' = [at |-> "dead", msg |-> None, fresh |-> FALSE, line |-> 1]
        /\ ready /\ UNCHANGED <<mem, ready>>
    BY <1>0, <1>1, <1>3 DEF FailDrain, SideOff, Threads
  <2>2. main.at # "off"
    BY <1>0, <1>3 DEF Threads, TypeOK, MainOff
  <2>3. TypeOK'
    <3>1. Len(spill) \in Nat
      BY <1>0, LenProperties DEF TypeOK
    <3>2. side' \in [at : SideAt, msg : Side \cup {SideEof, None}, fresh : BOOLEAN,
                     line : 1 .. Len(spill) + 1]
      BY <2>1, <3>1 DEF SideAt
    <3>3. QED
      BY <1>0, <1>1, <2>1, <3>2 DEF TypeOK, SideAt
  <2>4. Tables'
    BY <1>0, <1>1, <2>1 DEF Tables, Unlogged
  <2>5. Threads'
    BY <1>0, <1>1, <2>1, <2>2 DEF Threads
  <2>6. Spilled'
    <3>1. Handled' = Handled /\ IsFiniteSet(disk.main)'
      BY <1>0, <1>1 DEF Handled, Spilled
    <3>2. QED
      BY <1>0, <1>1, <2>1, <3>1, LinesStay
  <2>7. JoinedWithFullTable' /\ NoStragglers'
    BY <1>0, <1>1, <2>1 DEF JoinedWithFullTable, NoStragglers
  <2>8. QED
    BY <2>3, <2>4, <2>5, <2>6, <2>7 DEF Inductive
<1>4. QED
  BY <1>2, <1>3

-----------------------------------------------------------------------------
(* Crashes *)

LEMMA CrashStep == ASSUME Inductive, Crash PROVE Inductive'
<1>0. TypeOK /\ Spilled
  BY DEF Inductive
<1>1. /\ main' = MainOff /\ side' = SideOff /\ mem' = Blank /\ ready' = FALSE
      /\ UNCHANGED <<mainq, sideq, disk, out, spill, ended, torn>>
      /\ crashes' \in Nat /\ torn' \in Nat /\ ended' \in BOOLEAN
      /\ spill' \in Seq(Batches \cup {Garbled})
  BY <1>0 DEF Crash, Die, TypeOK
<1>2. /\ TypeOK' /\ Tables' /\ Threads' /\ JoinedWithFullTable' /\ NoStragglers'
      /\ Handled' = disk.main
  BY <1>1, Stopped
<1>3. Spilled'
  BY <1>0, <1>1, <1>2, LinesStay DEF Spilled, Handled, SideOff
<1>4. QED
  BY <1>2, <1>3 DEF Inductive

\* What the torn write leaves at the end of the file belongs to a batch that
\* is not in the log, and pays for the one that will be glued to it.
LEMMA CrashInSpillStep ==
  ASSUME Inductive, NEW b \in Batches, CrashInSpill(b) PROVE Inductive'
<1>0. TypeOK /\ Tables /\ Threads /\ Spilled
  BY DEF Inductive
<1>1. /\ main' = MainOff /\ side' = SideOff /\ mem' = Blank /\ ready' = FALSE
      /\ UNCHANGED <<mainq, sideq, disk, out>>
      /\ torn' = torn + 1 /\ ended' = FALSE /\ crashes' = crashes + 1
      /\ main.at = "idle" /\ b \notin mem.main
  BY DEF CrashInSpill, Die, TakesBatch
<1>2. b \notin disk.main
  BY <1>0, <1>1 DEF Tables, Threads
<1>3. /\ spill' \in Seq(Batches \cup {Garbled}) /\ spill' # <<>>
      /\ spill'[Len(spill')] \in {b, Garbled}
      /\ ended => Range(spill) \subseteq Range(spill')
      /\ ~ended => Range(spill) \ {spill[Len(spill)]} \subseteq Range(spill')
  <2>1. CASE ended
    <3>1. PICK text \in {b, Garbled} : spill' = Append(spill, text)
      BY <2>1 DEF CrashInSpill
    <3>2. /\ spill' \in Seq(Batches \cup {Garbled}) /\ spill' # <<>>
          /\ Len(spill') = Len(spill) + 1 /\ spill'[Len(spill) + 1] = text
          /\ \A i \in 1 .. Len(spill) : spill'[i] = spill[i]
      BY <1>0, <3>1, AppendProperties DEF TypeOK
    <3>3. /\ DOMAIN spill = 1 .. Len(spill) /\ Len(spill) \in Nat
          /\ DOMAIN spill' = 1 .. Len(spill) + 1
      BY <1>0, <3>2, LenProperties DEF TypeOK
    <3>4. Range(spill) \subseteq Range(spill')
      BY <3>2, <3>3 DEF Range
    <3>5. QED
      BY <2>1, <3>2, <3>4
  <2>2. CASE ~ended
    <3>1. spill' = Written(b)
      BY <2>2 DEF CrashInSpill
    <3>2. QED
      BY <1>0, <2>2, <3>1, WrittenLines DEF TypeOK, Spilled
  <2>3. QED
    BY <1>0, <2>1, <2>2 DEF TypeOK
<1>4. crashes' \in Nat /\ torn' \in Nat /\ torn \in Nat
  BY <1>0, <1>1 DEF TypeOK
<1>5. /\ TypeOK' /\ Tables' /\ Threads' /\ JoinedWithFullTable' /\ NoStragglers'
      /\ Handled' = disk.main /\ Emitted' = Emitted
  BY <1>1, <1>3, <1>4, Stopped
<1>6. Spilled'
  <2>1. Handled = disk.main
    BY <1>1 DEF Handled
  <2>2. Gone' \subseteq Gone
    BY <1>0, <1>3, <1>5, <2>1 DEF Gone, Spilled, TypeOK
  <2>3. IsFiniteSet(Gone) /\ Cardinality(Gone) \in Nat
    BY <1>0, GoneIsFinite, FS_CardinalityType
  <2>4. Cardinality(Gone') <= Cardinality(Gone) /\ Cardinality(Gone') \in Nat
    BY <2>2, <2>3, FS_Subset, FS_CardinalityType
  <2>5. Cardinality(Gone') + 1 <= torn'
    BY <1>0, <1>1, <1>4, <2>3, <2>4 DEF Spilled
  <2>6. Garbled \notin disk.main
    BY <1>0, InputsAssumption DEF TypeOK, Records
  <2>7. spill'[Len(spill')] \notin disk.main
    BY <1>2, <1>3, <2>6
  <2>8. QED
    BY <1>0, <1>1, <1>3, <1>5, <2>5, <2>7 DEF Spilled, SideOff
<1>7. QED
  BY <1>5, <1>6 DEF Inductive

-----------------------------------------------------------------------------
(* The theorems *)

\* Every step of the worker, a crash in the middle of a write included, keeps
\* the invariant.
THEOREM StepInductive == Inductive /\ [Next]_vars => Inductive'
<1> SUFFICES ASSUME Inductive, [Next]_vars PROVE Inductive'
  OBVIOUS
<1>1. CASE Start
  BY <1>1, StartStep
<1>2. CASE Handle
  BY <1>2, SpillBatchStep, ReadReadyStep DEF Handle
<1>3. CASE ApplyAny
  BY <1>3, ApplySideStep, DropSideStep DEF ApplyAny, Inputs
<1>4. CASE Running
  BY <1>4, EmitBatchStep, LogMainStep, AckMainStep DEF Running
<1>5. CASE Finishing
  BY <1>5, LogSideStep, AckSideStep, BeginDrainStep, DrainLineStep, EndDrainStep,
     FailDrainStep DEF Finishing
<1>6. CASE Crash
  BY <1>6, CrashStep
<1>7. CASE \E b \in Batches : CrashInSpill(b)
  BY <1>7, CrashInSpillStep
<1>8. CASE UNCHANGED vars
  <2>1. Gone' = Gone /\ Handled' = Handled /\ Emitted' = Emitted
    BY <1>8 DEF vars, Gone, Handled, Emitted
  <2>2. QED
    BY <1>8, <2>1 DEF vars, Inductive, TypeOK, Tables, Unlogged, Threads, Spilled,
      JoinedWithFullTable, NoStragglers
<1>9. QED
  BY <1>1, <1>2, <1>3, <1>4, <1>5, <1>6, <1>7, <1>8 DEF Next

THEOREM InductiveInvariant == Spec => []Inductive
<1>1. QED
  BY Initial, StepInductive, PTL DEF Spec

THEOREM TypeCorrect == Spec => []TypeOK
<1>1. Inductive => TypeOK
  BY DEF Inductive
<1>2. QED
  BY InductiveInvariant, <1>1, PTL

\* Every batch that BankMapper or AnomalyFilter emits was joined with the
\* whole table, whatever the order of the threads, the restarts and the
\* compactions.
THEOREM JoinedWithFullTableHolds == Spec => []JoinedWithFullTable
<1>1. Inductive => JoinedWithFullTable
  BY DEF Inductive
<1>2. QED
  BY InductiveInvariant, <1>1, PTL

\* No batch stays in the spill file behind the drain: the readiness a main
\* handler reads under the lock of the flow is not stale when it spills.
THEOREM NoStragglersHolds == Spec => []NoStragglers
<1>1. Inductive => NoStragglers
  BY DEF Inductive
<1>2. QED
  BY InductiveInvariant, <1>1, PTL

-----------------------------------------------------------------------------
(* What a torn write costs *)

\* The file holds a line that does not parse only after a torn write, and a
\* batch is gone only while such a line is there: no drain removes it.
Stuck ==
  /\ Garbled \in Range(spill) => torn > 0
  /\ Gone # {} => Garbled \in Range(spill)

\* A step that leaves the file alone and emits what it newly handles.
LEMMA FileStays ==
  ASSUME Stuck, UNCHANGED <<spill, torn>>, out \subseteq out',
         Handled' \subseteq Handled \cup Emitted'
  PROVE  Stuck'
<1>1. Emitted \subseteq Emitted'
  BY DEF Emitted
<1>2. Gone' \subseteq Gone
  BY <1>1 DEF Gone
<1>3. QED
  BY <1>2 DEF Stuck

\* A step that leaves the file alone hands no batch over that is not emitted.
LEMMA HandsOver ==
  ASSUME Inductive,
         \/ Start \/ ApplyAny \/ Running \/ Crash \/ FailDrain \/ LogSide
         \/ AckSide \/ BeginDrain \/ DrainLine
         \/ \E b \in Batches : ReadReady(b)
  PROVE  /\ UNCHANGED <<spill, torn>> /\ out \subseteq out'
         /\ Handled' \subseteq Handled \cup Emitted'
<1>1. CASE Start
  BY <1>1 DEF Start, Snapshot, Handled, MainOff, MainIdle
<1>2. CASE ApplyAny
  <2>1. UNCHANGED <<disk, main, spill, out, torn>>
    BY <1>2, Zenon DEF ApplyAny, ApplySide, DropSide
  <2>2. QED
    BY <2>1 DEF Handled
<1>3. CASE EmitBatch
  <2>1. out' = out \cup {Joined(main.msg)} /\ UNCHANGED <<disk, spill, torn>>
        /\ main.at = "emit" /\ main'.msg = main.msg
    BY <1>3 DEF EmitBatch, Inductive, TypeOK
  <2>2. Joined(main.msg) \in out' /\ Joined(main.msg).batch = main.msg
    BY <2>1 DEF Joined
  <2>3. main.msg \in Emitted'
    BY <2>2 DEF Emitted
  <2>4. QED
    BY <2>1, <2>3 DEF Handled
<1>4. CASE LogMain
  <2>1. disk \in Records /\ mem \in Records /\ (side.at # "off" => mem.main = disk.main)
        /\ side.at # "off"
    BY <1>4 DEF Inductive, TypeOK, Tables, Threads, LogMain
  <2>2. disk'.main = disk.main \cup {main.msg}
    BY <1>4, <2>1 DEF LogMain, Snapshot, Records
  <2>3. QED
    BY <1>4, <2>2 DEF LogMain, Handled, MainIdle
<1>5. CASE \E b \in Batches : AckMain(b)
  BY <1>5 DEF AckMain, Handled
<1>6. CASE Crash
  BY <1>6 DEF Crash, Die, Handled, MainOff
<1>7. CASE FailDrain \/ AckSide \/ BeginDrain \/ DrainLine
  BY <1>7 DEF FailDrain, AckSide, BeginDrain, DrainLine, Handled
<1>8. CASE LogSide
  <2>1. disk'.main = disk.main
    BY <1>8 DEF LogSide, WithSide, Inductive, TypeOK, Records
  <2>2. QED
    BY <1>8, <2>1 DEF LogSide, Handled
<1>9. CASE \E b \in Batches : ReadReady(b)
  BY <1>9 DEF ReadReady, TakesBatch, Handled
<1>10. QED
  BY <1>1, <1>2, <1>3, <1>4, <1>5, <1>6, <1>7, <1>8, <1>9 DEF Running

\* A drain that comes to the end of the file has emitted each of its lines.
LEMMA DrainedFile ==
  ASSUME Inductive, EndDrain
  PROVE  Range(spill) \subseteq Emitted /\ Garbled \notin Range(spill)
<1>1. TypeOK /\ Spilled
  BY DEF Inductive
<1>2. Len(spill) \in Nat /\ DOMAIN spill = 1 .. Len(spill) /\ side.line \in Nat
  BY <1>1, LenProperties DEF TypeOK
<1>3. \A i \in 1 .. Len(spill) : i < side.line
  BY <1>2 DEF EndDrain
<1>4. Range(spill) \subseteq Emitted
  BY <1>1, <1>2, <1>3 DEF Spilled, Range, EndDrain
<1>5. Emitted \subseteq Batches /\ Garbled \notin Batches
  BY <1>1, InputsAssumption DEF TypeOK, Emitted
<1>6. QED
  BY <1>4, <1>5

\* What a write makes of a file whose last line has no newline, and of one
\* that ends with a whole line.
LEMMA GluedLine ==
  ASSUME NEW b \in Batches, spill \in Seq(Batches \cup {Garbled}), ~ended,
         spill # <<>>, spill' = Written(b)
  PROVE  Garbled \in Range(spill')
<1>1. /\ Len(spill) \in Nat /\ Len(spill) > 0
      /\ DOMAIN spill = 1 .. Len(spill)
  BY LenProperties, EmptySeq
<1>2. spill' = [spill EXCEPT ![Len(spill)] = Garbled]
  BY DEF Written
<1>3. Len(spill) \in DOMAIN spill' /\ spill'[Len(spill)] = Garbled
  BY <1>1, <1>2
<1>4. QED
  BY <1>3 DEF Range

LEMMA LongerRange ==
  ASSUME spill \in Seq(Batches \cup {Garbled}), NEW text \in Batches \cup {Garbled},
         spill' = Append(spill, text)
  PROVE  Range(spill) \subseteq Range(spill')
<1>1. /\ DOMAIN spill = 1 .. Len(spill) /\ Len(spill) \in Nat
      /\ spill' \in Seq(Batches \cup {Garbled}) /\ Len(spill') = Len(spill) + 1
      /\ \A i \in 1 .. Len(spill) : spill'[i] = spill[i]
  BY AppendProperties, LenProperties
<1>2. DOMAIN spill' = 1 .. Len(spill) + 1
  BY <1>1, LenProperties
<1>3. QED
  BY <1>1, <1>2 DEF Range

LEMMA TornIsPaid == ASSUME TypeOK, Spilled, ~ended PROVE torn > 0
<1>1. Cardinality(Gone) \in Nat /\ torn \in Nat
  BY GoneIsFinite, FS_CardinalityType DEF TypeOK
<1>2. QED
  BY <1>1 DEF Spilled

\* A line that is glued to another leaves a garbled one, which is paid for by
\* the torn write before it; a new line only adds to the file.
LEMMA StuckStep == ASSUME Inductive, Stuck, [Next]_vars PROVE Stuck'
<1>0. TypeOK /\ Tables /\ Threads /\ Spilled
  BY DEF Inductive
<1>1. CASE Start \/ ApplyAny \/ Running \/ Crash \/ FailDrain \/ LogSide
           \/ AckSide \/ BeginDrain \/ DrainLine
           \/ \E b \in Batches : ReadReady(b)
  BY <1>1, HandsOver, FileStays
<1>2. CASE \E b \in Batches : SpillBatch(b)
  <2>1. PICK b \in Batches : SpillBatch(b)
    BY <1>2
  <2>2. /\ main.at = "idle" /\ main' = [at |-> "log", msg |-> b]
        /\ spill' = Written(b) /\ UNCHANGED <<disk, out, torn>>
    BY <2>1 DEF SpillBatch, TakesBatch
  <2>3. Handled' = Handled \cup {b} /\ Emitted' = Emitted
    BY <2>2 DEF Handled, Emitted
  <2>4. CASE ended
    <3>1. Range(spill') = Range(spill) \cup {b} /\ b # Garbled
      BY <1>0, <2>2, <2>4, WrittenLines, InputsAssumption DEF TypeOK
    <3>2. Gone' \subseteq Gone
      BY <2>3, <3>1 DEF Gone
    <3>3. QED
      BY <2>2, <3>1, <3>2 DEF Stuck
  <2>5. CASE ~ended
    <3>1. Garbled \in Range(spill')
      BY <1>0, <2>2, <2>5, GluedLine DEF TypeOK, Spilled
    <3>2. torn > 0
      BY <1>0, <2>5, TornIsPaid
    <3>3. QED
      BY <2>2, <3>1, <3>2 DEF Stuck
  <2>6. QED
    BY <1>0, <2>4, <2>5 DEF TypeOK
<1>3. CASE EndDrain
  <2>1. Range(spill) \subseteq Emitted /\ Garbled \notin Range(spill)
    BY <1>3, DrainedFile
  <2>2. Handled' = Handled /\ Emitted' = Emitted
    BY <1>3 DEF EndDrain, Handled, Emitted, MainOff, MainIdle
  <2>3. Gone' \subseteq Gone
    BY <2>1, <2>2 DEF Gone
  <2>4. Range(spill') = {}
    BY <1>3 DEF EndDrain, Range
  <2>5. QED
    BY <2>1, <2>3, <2>4 DEF Stuck
<1>4. CASE \E b \in Batches : CrashInSpill(b)
  <2>1. PICK b \in Batches : CrashInSpill(b)
    BY <1>4
  <2>2. /\ main.at = "idle" /\ main' = MainOff /\ torn' = torn + 1
        /\ UNCHANGED <<disk, out>>
    BY <2>1 DEF CrashInSpill, TakesBatch, Die
  <2>3. Handled' = Handled /\ Emitted' = Emitted
    BY <2>2 DEF Handled, Emitted, MainOff
  <2>4. torn' > 0
    BY <1>0, <2>2 DEF TypeOK
  <2>5. CASE ended
    <3>1. Range(spill) \subseteq Range(spill')
      BY <1>0, <2>1, <2>5, LongerRange DEF CrashInSpill, TypeOK
    <3>2. Gone' \subseteq Gone
      BY <2>3, <3>1 DEF Gone
    <3>3. QED
      BY <2>4, <3>1, <3>2 DEF Stuck
  <2>6. CASE ~ended
    <3>1. Garbled \in Range(spill')
      BY <1>0, <2>1, <2>6, GluedLine DEF CrashInSpill, TypeOK, Spilled
    <3>2. QED
      BY <2>4, <3>1 DEF Stuck
  <2>7. QED
    BY <1>0, <2>5, <2>6 DEF TypeOK
<1>5. CASE UNCHANGED vars
  BY <1>5, FileStays DEF vars, Handled
<1>6. QED
  BY <1>1, <1>2, <1>3, <1>4, <1>5 DEF Next, Handle, Finishing

THEOREM StuckInvariant == Spec => []Stuck
<1>1. Init => Stuck
  <2> SUFFICES ASSUME Init PROVE Stuck
    OBVIOUS
  <2>1. Range(spill) = {} /\ Handled = {}
    BY DEF Init, Range, Handled, Blank, MainOff
  <2>2. QED
    BY <2>1 DEF Stuck, Gone
<1>2. Inductive /\ Stuck /\ [Next]_vars => Stuck'
  BY StuckStep
<1>3. QED
  BY InductiveInvariant, <1>1, <1>2, PTL DEF Spec

\* What is lost beyond the lines behind the first that does not parse is gone,
\* and without such a line a drain gets to every one.
LEMMA LostIsGone ==
  ASSUME TypeOK
  PROVE  /\ Lost \ Behind \subseteq Gone
         /\ Garbled \notin Range(spill) => Lost \subseteq Gone
<1>1. Range(spill) \subseteq Readable \cup Behind
  BY DEF Range, Readable, Behind
<1>2. ASSUME Garbled \notin Range(spill) PROVE Range(spill) \subseteq Readable
  <2>1. \A i \in DOMAIN spill : i \in Reachable
    <3> SUFFICES ASSUME NEW i \in DOMAIN spill PROVE i \in Reachable
      OBVIOUS
    <3>1. DOMAIN spill = 1 .. Len(spill) /\ Len(spill) \in Nat
      BY LenProperties DEF TypeOK
    <3>2. \A j \in 1 .. i : j \in DOMAIN spill
      BY <3>1
    <3>3. \A j \in 1 .. i : spill[j] # Garbled
      BY <1>2, <3>2 DEF Range
    <3>4. QED
      BY <3>3 DEF Reachable
  <2>2. QED
    BY <2>1 DEF Range, Readable
<1>3. QED
  BY <1>1, <1>2 DEF Lost, Gone, Handled

\* A kill inside BatchSpill.write is the only thing that loses batches, and
\* only while the line it garbled is in the file: one that is glued to a torn
\* line for each such kill, and those that are spilled behind the line.
THEOREM LosesFromTornWriteOnHolds == Spec => []LosesFromTornWriteOn
<1>1. Inductive /\ Stuck => LosesFromTornWriteOn
  <2> SUFFICES ASSUME Inductive, Stuck PROVE LosesFromTornWriteOn
    OBVIOUS
  <2>1. TypeOK /\ Spilled
    BY DEF Inductive
  <2>2. Lost # {} => Garbled \in Range(spill)
    BY <2>1, LostIsGone DEF Stuck
  <2>3. IsFiniteSet(Gone) /\ Cardinality(Gone) \in Nat
    BY <2>1, GoneIsFinite, FS_CardinalityType
  <2>4. /\ Cardinality(Lost \ Behind) <= Cardinality(Gone)
        /\ Cardinality(Lost \ Behind) \in Nat
    BY <2>1, <2>3, LostIsGone, FS_Subset, FS_CardinalityType
  <2>5. torn \in Nat /\ Cardinality(Gone) <= torn
    BY <2>1, <2>3 DEF TypeOK, Spilled
  <2>6. QED
    BY <2>2, <2>3, <2>4, <2>5 DEF LosesFromTornWriteOn, Stuck
<1>2. QED
  BY InductiveInvariant, StuckInvariant, <1>1, PTL

\* The defect that loses batches is in that write alone: as long as no crash
\* has cut one short, nothing that is in the log is lost.
THEOREM NothingLostWithoutTornWrite == Spec => [](torn = 0 => NothingLost)
<1>1. LosesFromTornWriteOn => (torn = 0 => NothingLost)
  BY DEF LosesFromTornWriteOn, Lost, NothingLost
<1>2. QED
  BY LosesFromTornWriteOnHolds, <1>1, PTL

-----------------------------------------------------------------------------
(* What was safe stays so *)

\* The lines a drain gets to are still there when the file grows, or when its
\* last line is garbled, but for that line.
LEMMA PrefixStays ==
  ASSUME TypeOK, NEW k \in Nat, k <= Len(spill),
         \A i \in 1 .. k : i \in DOMAIN spill' /\ spill'[i] = spill[i]
  PROVE  {spill[i] : i \in {n \in Reachable : n <= k}} \subseteq Readable'
<1> SUFFICES ASSUME NEW i \in Reachable, i <= k PROVE spill[i] \in Readable'
  OBVIOUS
<1>1. DOMAIN spill = 1 .. Len(spill) /\ Len(spill) \in Nat
  BY LenProperties DEF TypeOK
<1>2. i \in 1 .. k /\ \A j \in 1 .. i : spill[j] # Garbled /\ j \in 1 .. k
  BY <1>1 DEF Reachable
<1>3. i \in Reachable'
  BY <1>2 DEF Reachable
<1>4. spill[i] = spill'[i]
  BY <1>2
<1>5. QED
  BY <1>3, <1>4 DEF Readable

LEMMA LastLine ==
  ASSUME NEW n \in Nat
  PROVE  \A i \in 1 .. n : i \in 1 .. n + 1 /\ (i = n \/ i \in 1 .. n - 1)
  OBVIOUS

LEMMA LineBeforeTheLast ==
  ASSUME NEW n \in Nat, NEW i \in 1 .. n - 1 PROVE i \in 1 .. n /\ i # n
  OBVIOUS

\* A write to the spill file, whole or cut short.
LEMMA WriteKeeps ==
  ASSUME TypeOK, Spilled, out' = out, NEW text \in Batches \cup {Garbled},
         \/ ended /\ spill' = Append(spill, text)
         \/ ~ended /\ spill' = [spill EXCEPT ![Len(spill)] = Garbled]
  PROVE  disk.main \cap (Emitted \cup Readable) \subseteq (Emitted \cup Readable)'
<1>1. /\ spill \in Seq(Batches \cup {Garbled}) /\ Len(spill) \in Nat
      /\ DOMAIN spill = 1 .. Len(spill)
  BY LenProperties DEF TypeOK
<1>2. Emitted' = Emitted /\ Reachable \subseteq 1 .. Len(spill)
  BY <1>1 DEF Emitted, Reachable
<1>3. CASE ended
  <2>1. /\ spill' \in Seq(Batches \cup {Garbled}) /\ Len(spill') = Len(spill) + 1
        /\ \A i \in 1 .. Len(spill) : spill'[i] = spill[i]
    BY <1>1, <1>3, AppendProperties
  <2>2. DOMAIN spill' = 1 .. Len(spill) + 1
    BY <1>1, <2>1, LenProperties
  <2>3. {spill[i] : i \in {n \in Reachable : n <= Len(spill)}} \subseteq Readable'
    <3>1. \A i \in 1 .. Len(spill) : i \in DOMAIN spill' /\ spill'[i] = spill[i]
      BY <1>1, <2>1, <2>2, LastLine
    <3>2. Len(spill) <= Len(spill)
      BY <1>1
    <3>3. QED
      BY <1>1, <3>1, <3>2, PrefixStays
  <2>4. Readable \subseteq Readable'
    BY <1>1, <1>2, <2>3 DEF Readable
  <2>5. QED
    BY <1>2, <2>4
<1>4. CASE ~ended
  <2>1. spill # <<>> /\ spill[Len(spill)] \notin disk.main \ Emitted
    BY <1>4 DEF Spilled, Handled
  <2>2. Len(spill) > 0
    BY <1>1, <2>1, EmptySeq
  <2>3. spill' = [spill EXCEPT ![Len(spill)] = Garbled]
    BY <1>4
  <2>4. \A i \in 1 .. Len(spill) - 1 : i \in DOMAIN spill' /\ spill'[i] = spill[i]
    <3> SUFFICES ASSUME NEW i \in 1 .. Len(spill) - 1
                 PROVE  i \in DOMAIN spill' /\ spill'[i] = spill[i]
      OBVIOUS
    <3>1. i \in 1 .. Len(spill) /\ i # Len(spill)
      BY <1>1, LineBeforeTheLast
    <3>2. QED
      BY <1>1, <2>3, <3>1
  <2>5. {spill[i] : i \in {n \in Reachable : n <= Len(spill) - 1}} \subseteq Readable'
    BY <1>1, <2>2, <2>4, PrefixStays
  <2>6. \A i \in Reachable : i = Len(spill) \/ i <= Len(spill) - 1
    <3> SUFFICES ASSUME NEW i \in Reachable PROVE i = Len(spill) \/ i <= Len(spill) - 1
      OBVIOUS
    <3>1. i \in 1 .. Len(spill)
      BY <1>2
    <3>2. i = Len(spill) \/ i \in 1 .. Len(spill) - 1
      BY <1>1, <3>1, LastLine, Zenon
    <3>3. QED
      BY <3>2
  <2>7. Readable \subseteq Readable' \cup {spill[Len(spill)]}
    BY <2>5, <2>6 DEF Readable
  <2>8. QED
    BY <1>2, <2>1, <2>7
<1>5. QED
  BY <1>3, <1>4

\* A logged batch that is emitted or that a drain can still read stays so: a
\* torn write costs nothing that was safe before it, and no later write, drain
\* or restart does.
THEOREM SafeStaysSafeHolds == Spec => SafeStaysSafe
<1>1. ASSUME Inductive, [Next]_vars
      PROVE  disk.main \cap (Emitted \cup Readable) \subseteq (Emitted \cup Readable)'
  <2>0. TypeOK /\ Spilled
    BY <1>1 DEF Inductive
  <2>1. ASSUME UNCHANGED spill, out \subseteq out'
        PROVE  Emitted \cup Readable \subseteq (Emitted \cup Readable)'
    BY <2>1 DEF Emitted, Readable, Reachable
  <2>2. CASE Start \/ ApplyAny \/ Running \/ Crash \/ FailDrain \/ LogSide
             \/ AckSide \/ BeginDrain \/ DrainLine
             \/ \E b \in Batches : ReadReady(b)
    BY <1>1, <2>1, <2>2, HandsOver
  <2>3. CASE \E b \in Batches : SpillBatch(b)
    BY <2>0, <2>3, WriteKeeps DEF SpillBatch, Written, TypeOK
  <2>4. CASE \E b \in Batches : CrashInSpill(b)
    <3>1. PICK b \in Batches : CrashInSpill(b)
      BY <2>4
    <3>2. out' = out
      BY <3>1 DEF CrashInSpill, Die
    <3>3. CASE ended
      <4>1. PICK text \in {b, Garbled} : spill' = Append(spill, text)
        BY <3>1, <3>3 DEF CrashInSpill
      <4>2. QED
        BY <2>0, <3>2, <3>3, <4>1, WriteKeeps
    <3>4. CASE ~ended
      BY <2>0, <3>1, <3>2, <3>4, WriteKeeps DEF CrashInSpill, Written
    <3>5. QED
      BY <2>0, <3>3, <3>4 DEF TypeOK
  <2>5. CASE EndDrain
    <3>1. Range(spill) \subseteq Emitted /\ Readable \subseteq Range(spill)
      BY <1>1, <2>5, DrainedFile DEF Readable, Reachable, Range
    <3>2. Emitted' = Emitted
      BY <2>5 DEF EndDrain, Emitted
    <3>3. QED
      BY <3>1, <3>2
  <2>6. CASE UNCHANGED vars
    BY <2>1, <2>6 DEF vars
  <2>7. QED
    BY <1>1, <2>2, <2>3, <2>4, <2>5, <2>6 DEF Next, Handle, Finishing
<1>2. Inductive /\ [Next]_vars =>
        [disk.main \cap (Emitted \cup Readable) \subseteq (Emitted \cup Readable)']_vars
  BY <1>1
<1>3. QED
  BY InductiveInvariant, <1>2, PTL DEF Spec, SafeStaysSafe
=============================================================================
