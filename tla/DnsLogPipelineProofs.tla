------------------------ MODULE DnsLogPipelineProofs ------------------------
(***************************************************************************)
(* Proofs about DnsLogPipeline, for any number of overlapping runs, any    *)
(* ring, stream and batch sizes and any number of faults.                  *)
(***************************************************************************)
EXTENDS MCDnsLogPipeline, FiniteSetTheorems, TLAPS

-----------------------------------------------------------------------------
(* The inductive invariant.                                                *)

\* The ring holds the ringCount newest entries, oldest first from the tail on.
RingInv ==
  /\ ringCount <= logged
  /\ ringHead = Slot(ringTail, ringCount)
  /\ \A i \in 0 .. ringCount - 1 : ring[Slot(ringTail, i)] = logged - ringCount + 1 + i

\* Everything produced so far is numbered below the next entry.
Numbered ==
  /\ Queued \cup flushing \cup stream \subseteq 1 .. logged
  /\ cursorKey <= logged
  /\ \A d \in Drains : /\ cursor[d] <= logged /\ last[d] <= logged
                       /\ batch[d] \subseteq 1 .. logged

\* Entries move through ring, flush and stream in the order they were produced,
\* and no cursor has reached an entry that is not in the stream yet.
Fifo ==
  /\ \A e \in flushing, f \in Queued : e < f
  /\ \A e \in stream, f \in flushing \cup Queued : e < f
  /\ \A f \in flushing \cup Queued :
        /\ cursorKey < f
        /\ \A d \in Drains : cursor[d] < f /\ last[d] < f

\* What a run has behind its own cursor, and what it holds in its hands.
RunBehindTable ==
  \A d \in Drains : \A e \in 1 .. logged :
    /\ e <= cursor[d] => e \in Settled
    /\ pc[d] \in {"insert", "single"} /\ e <= last[d]
         => e \in Settled \cup batch[d]

IInv == TypeOK /\ RingInv /\ Numbered /\ Fifo /\ NothingVanishes /\ CursorBehindTable /\ RunBehindTable

-----------------------------------------------------------------------------
\* Taking the k oldest elements of a finite set takes every element older than
\* one that is taken: the slice that flushToRedis sends is a prefix.
LEMMA FirstOfIsPrefix ==
  ASSUME NEW S, IsFiniteSet(S), S \subseteq Nat, NEW k \in Nat,
         NEW e \in FirstOf(S, k), NEW f \in S, f <= e
  PROVE  f \in FirstOf(S, k)
<1> DEFINE Below(x) == { g \in S : g <= x }
<1>0. e \in Nat /\ f \in Nat
  BY DEF FirstOf
<1>1. Below(f) \subseteq Below(e)
  <2> SUFFICES ASSUME NEW g \in S, g <= f PROVE g <= e
    OBVIOUS
  <2>1. g \in Nat
    OBVIOUS
  <2> QED BY <1>0, <2>1
<1>2. IsFiniteSet(Below(e)) /\ IsFiniteSet(Below(f))
  BY FS_Subset
<1>3. Cardinality(Below(f)) <= Cardinality(Below(e))
  BY <1>1, <1>2, FS_Subset
<1>4. Cardinality(Below(e)) \in Nat /\ Cardinality(Below(f)) \in Nat
  BY <1>2, FS_CardinalityType
<1>5. Cardinality(Below(e)) <= k
  BY DEF FirstOf
<1>6. Cardinality(Below(f)) <= k
  BY <1>3, <1>4, <1>5
<1> QED BY <1>6 DEF FirstOf

LEMMA EntriesFinite ==
  ASSUME NEW S \in SUBSET Entry
  PROVE  IsFiniteSet(S) /\ S \subseteq Nat
<1>1. IsFiniteSet(Entry)
  BY FS_Interval, PipelineAssumption DEF Entry
<1>2. IsFiniteSet(S)
  BY <1>1, FS_Subset
<1>3. Entry \subseteq Nat
  BY PipelineAssumption DEF Entry
<1> QED BY <1>2, <1>3

\* Rows are only ever added, so what is stored stays stored.
LEMMA AddCopiesStores ==
  ASSUME copies \in [Entry -> 0 .. MaxCopies], NEW S \in SUBSET Entry
  PROVE  /\ AddCopies(S) \in [Entry -> 0 .. MaxCopies]
         /\ \A e \in Entry : copies[e] > 0 => AddCopies(S)[e] > 0
         /\ \A e \in S : AddCopies(S)[e] > 0
BY DEF AddCopies, MaxCopies

-----------------------------------------------------------------------------
(* The ring.                                                               *)

\* What the remainder of logger.js comes to within one turn of the ring.
LEMMA SlotIs ==
  ASSUME NEW s \in Slots, NEW i \in 0 .. RingSize
  PROVE  /\ Slot(s, i) = IF s + i < RingSize THEN s + i ELSE s + i - RingSize
         /\ Slot(s, i) \in Slots
<1>1. RingSize \in Nat \ {0} /\ s \in Nat /\ i \in Nat /\ s < RingSize /\ i <= RingSize
  BY PipelineAssumption DEF Slots
<1>2. CASE s + i < RingSize
  <2>1. (s + i) % RingSize = s + i
    BY <1>1, <1>2
  <2> QED
    BY <1>1, <1>2, <2>1 DEF Slot, Slots
<1>3. CASE s + i >= RingSize
  <2>1. (s + i) % RingSize = s + i - RingSize
    BY <1>1, <1>3
  <2> QED
    BY <1>1, <1>3, <2>1 DEF Slot, Slots
<1> QED
  BY <1>1, <1>2, <1>3

\* What is in the ring was logged.
LEMMA QueuedLogged ==
  ASSUME TypeOK, RingInv
  PROVE  Queued \subseteq 1 .. logged /\ Queued \subseteq Entry
<1>1. logged \in Nat /\ ringCount \in Nat /\ ringCount <= logged /\ logged <= MaxEntry /\ MaxEntry \in Nat
  BY PipelineAssumption DEF TypeOK, RingInv
<1>2. \A i \in 0 .. ringCount - 1 : logged - ringCount + 1 + i \in 1 .. logged
  BY <1>1
<1>3. Queued \subseteq 1 .. logged
  BY <1>2 DEF Queued, RingInv
<1> QED
  BY <1>1, <1>3 DEF Entry

\* An untouched ring.
LEMMA RingSame ==
  ASSUME UNCHANGED <<logged, ringVars>>
  PROVE  Queued' = Queued /\ (RingInv => RingInv')
BY DEF Queued, RingInv, ringVars

\* enqueue overwrites the slot of the entry it drops and no other, and drops the
\* one that is RING_SIZE older than the new one.
LEMMA EnqueueRing ==
  ASSUME TypeOK, RingInv, Enqueue
  PROVE  /\ RingInv' /\ ring' \in [Slots -> Entry \cup {NoEntry}]
         /\ ringHead' \in Slots /\ ringTail' \in Slots /\ ringCount' \in 0 .. RingSize
         /\ Queued' \subseteq Queued \cup {logged'}
         /\ Queued \subseteq Queued' \cup lostRing'
         /\ logged' \in Queued'
         /\ lostRing \subseteq lostRing'
         /\ \A e \in lostRing' \ lostRing : e \in 1 .. logged /\ e + RingSize <= logged'
<1>1. /\ RingSize \in Nat \ {0} /\ logged \in Nat /\ ringCount \in 0 .. RingSize
      /\ ringHead \in Slots /\ ringTail \in Slots /\ ring \in [Slots -> Entry \cup {NoEntry}]
      /\ logged' = logged + 1 /\ logged' \in Entry
      /\ ring' = [ring EXCEPT ![ringHead] = logged'] /\ ringHead' = Slot(ringHead, 1)
  BY PipelineAssumption DEF TypeOK, Enqueue, PutAtHead, Entry
<1>2. /\ ringCount <= logged /\ ringHead = Slot(ringTail, ringCount)
      /\ \A i \in 0 .. ringCount - 1 : ring[Slot(ringTail, i)] = logged - ringCount + 1 + i
  BY DEF RingInv
<1>3. 1 \in 0 .. RingSize
  BY <1>1
<1>4. \A i \in 0 .. RingSize : Slot(ringTail, i) = IF ringTail + i < RingSize THEN ringTail + i ELSE ringTail + i - RingSize
  BY <1>1, SlotIs
<1>5. /\ Slot(ringHead, 1) = IF ringHead + 1 < RingSize THEN ringHead + 1 ELSE ringHead + 1 - RingSize
      /\ Slot(ringHead, 1) \in Slots /\ Slot(ringTail, 1) \in Slots
  BY <1>1, <1>3, SlotIs
<1>6. ringTail \in Nat /\ ringTail < RingSize /\ ringHead \in Nat /\ ringHead < RingSize
  BY <1>1 DEF Slots
<1>7. CASE ~Full
  <2>1. ringCount' = ringCount + 1 /\ ringTail' = ringTail /\ lostRing' = lostRing /\ ringCount < RingSize
    BY <1>1, <1>7 DEF Enqueue, Full
  <2>2. ringHead' = Slot(ringTail', ringCount')
    BY <1>1, <1>2, <1>4, <1>5, <1>6, <2>1
  <2>3. ASSUME NEW i \in 0 .. ringCount
        PROVE  ring'[Slot(ringTail, i)] = logged' - ringCount' + 1 + i
    <3>1. i \in 0 .. RingSize /\ Slot(ringTail, i) \in Slots
      BY <1>1, <2>1, SlotIs
    <3>2. CASE i = ringCount
      BY <1>1, <1>2, <2>1, <3>1, <3>2
    <3>3. CASE i # ringCount
      <4>1. i \in 0 .. ringCount - 1
        BY <1>1, <3>3
      <4>2. Slot(ringTail, i) # ringHead
        BY <1>1, <1>2, <1>4, <1>6, <2>1, <3>1, <4>1
      <4>3. ring'[Slot(ringTail, i)] = logged - ringCount + 1 + i
        BY <1>1, <1>2, <3>1, <4>1, <4>2
      <4> QED
        BY <1>1, <2>1, <4>3
    <3> QED
      BY <3>2, <3>3
  <2>4. RingInv'
    BY <1>1, <1>2, <2>1, <2>2, <2>3 DEF RingInv
  <2>5. \A i \in 0 .. ringCount - 1 : ring'[Slot(ringTail, i)] = ring[Slot(ringTail, i)]
    BY <1>1, <1>2, <2>1, <2>3
  <2>6. ring'[Slot(ringTail, ringCount)] = logged'
    BY <1>1, <2>1, <2>3
  <2>7. 0 .. ringCount' - 1 = (0 .. ringCount - 1) \cup {ringCount}
    BY <1>1, <2>1
  <2>8. Queued' = Queued \cup {logged'}
    BY <2>1, <2>5, <2>6, <2>7 DEF Queued
  <2> QED
    BY <1>1, <1>5, <2>1, <2>4, <2>8
<1>8. CASE Full
  <2>1. /\ ringCount' = ringCount /\ ringTail' = Slot(ringTail, 1) /\ lostRing' = lostRing \cup {ring[ringTail]}
        /\ ringCount = RingSize
    BY <1>1, <1>8 DEF Enqueue, Full
  <2>2. ringHead = ringTail /\ Slot(ringTail, 0) = ringTail
    BY <1>1, <1>2, <1>4, <1>6, <2>1
  <2>3. /\ \A i \in 0 .. RingSize : Slot(ringTail', i) = IF ringTail' + i < RingSize
                                                         THEN ringTail' + i ELSE ringTail' + i - RingSize
        /\ \A i \in 0 .. RingSize : Slot(ringTail', i) \in Slots
    BY <1>5, <2>1, SlotIs
  <2>4. ringTail' = IF ringTail + 1 < RingSize THEN ringTail + 1 ELSE ringTail + 1 - RingSize
    BY <1>3, <1>4, <2>1
  <2>5. ringHead' = Slot(ringTail', ringCount')
    BY <1>1, <1>5, <1>6, <2>1, <2>2, <2>3, <2>4
  <2>6. ASSUME NEW i \in 0 .. ringCount - 1
        PROVE  /\ i < RingSize - 1 => Slot(ringTail', i) = Slot(ringTail, i + 1) /\ Slot(ringTail', i) # ringTail
               /\ i = RingSize - 1 => Slot(ringTail', i) = ringTail
    <3>1. i \in 0 .. RingSize /\ i + 1 \in 0 .. RingSize
      BY <1>1, <2>1
    <3>2. Slot(ringTail, i + 1) = IF ringTail + (i + 1) < RingSize THEN ringTail + (i + 1)
                                  ELSE ringTail + (i + 1) - RingSize
      BY <1>4, <3>1
    <3>3. Slot(ringTail', i) = IF ringTail' + i < RingSize THEN ringTail' + i ELSE ringTail' + i - RingSize
      BY <2>3, <3>1
    <3> QED
      BY <1>1, <1>6, <2>4, <3>1, <3>2, <3>3
  <2>7. ASSUME NEW i \in 0 .. ringCount - 1
        PROVE  ring'[Slot(ringTail', i)] = logged' - ringCount' + 1 + i
    <3>1. i \in 0 .. RingSize /\ Slot(ringTail', i) \in Slots
      BY <1>1, <2>1, <2>3
    <3>2. CASE i = RingSize - 1
      BY <1>1, <2>1, <2>2, <2>6, <3>1, <3>2
    <3>3. CASE i < RingSize - 1
      <4>1. i + 1 \in 0 .. ringCount - 1
        BY <1>1, <2>1, <3>3
      <4>2. ring[Slot(ringTail, i + 1)] = logged - ringCount + 1 + (i + 1)
        BY <1>2, <4>1
      <4>3. ring'[Slot(ringTail', i)] = ring[Slot(ringTail, i + 1)]
        BY <1>1, <2>2, <2>6, <3>1, <3>3
      <4> QED
        BY <1>1, <2>1, <4>2, <4>3
    <3> QED
      BY <1>1, <2>1, <3>2, <3>3
  <2>8. RingInv'
    BY <1>1, <1>2, <2>1, <2>5, <2>7 DEF RingInv
  <2>9. ring[ringTail] = logged - ringCount + 1
    BY <1>1, <1>2, <2>1, <2>2
  <2>10. \A i \in 0 .. ringCount - 1 : logged' - ringCount' + 1 + i \in Queued'
    BY <2>1, <2>7 DEF Queued
  <2>11. logged' \in Queued'
    <3>1. ringCount - 1 \in 0 .. ringCount - 1 /\ logged' - ringCount' + 1 + (ringCount - 1) = logged'
      BY <1>1, <2>1
    <3> QED
      BY <2>10, <3>1
  <2>12. \A i \in 1 .. ringCount - 1 : logged - ringCount + 1 + i \in Queued'
    <3> SUFFICES ASSUME NEW i \in 1 .. ringCount - 1 PROVE logged - ringCount + 1 + i \in Queued'
      OBVIOUS
    <3>1. i - 1 \in 0 .. ringCount - 1 /\ logged' - ringCount' + 1 + (i - 1) = logged - ringCount + 1 + i
      BY <1>1, <2>1
    <3> QED
      BY <2>10, <3>1
  <2>13. Queued \subseteq Queued' \cup lostRing'
    <3> SUFFICES ASSUME NEW i \in 0 .. ringCount - 1 PROVE ring[Slot(ringTail, i)] \in Queued' \cup lostRing'
      BY DEF Queued
    <3>1. CASE i = 0
      BY <2>1, <2>2, <3>1
    <3>2. CASE i # 0
      <4>1. i \in 1 .. ringCount - 1
        BY <1>1, <3>2
      <4> QED
        BY <1>2, <2>12, <4>1
    <3> QED
      BY <3>1, <3>2
  <2>14. Queued' \subseteq Queued \cup {logged'}
    <3> SUFFICES ASSUME NEW i \in 0 .. ringCount - 1 PROVE ring'[Slot(ringTail', i)] \in Queued \cup {logged'}
      BY <2>1 DEF Queued
    <3>1. ring'[Slot(ringTail', i)] = logged' - ringCount' + 1 + i
      BY <2>7
    <3>2. CASE i = ringCount - 1
      BY <1>1, <2>1, <3>1, <3>2
    <3>3. CASE i # ringCount - 1
      <4>1. i + 1 \in 0 .. ringCount - 1
        BY <1>1, <3>3
      <4>2. logged - ringCount + 1 + (i + 1) \in Queued
        BY <1>2, <4>1 DEF Queued
      <4>3. logged - ringCount + 1 + (i + 1) = logged' - ringCount' + 1 + i
        BY <1>1, <2>1
      <4> QED
        BY <3>1, <4>2, <4>3
    <3> QED
      BY <3>2, <3>3
  <2>15. ring[ringTail] \in 1 .. logged /\ ring[ringTail] + RingSize <= logged'
    BY <1>1, <1>2, <2>1, <2>9
  <2> QED
    BY <1>1, <1>5, <2>1, <2>8, <2>11, <2>13, <2>14, <2>15
<1> QED
  BY <1>7, <1>8

\* dequeueAll takes all of it.
LEMMA FlushRing ==
  ASSUME TypeOK, RingInv, FlushStart
  PROVE  /\ RingInv' /\ ring' \in [Slots -> Entry \cup {NoEntry}]
         /\ ringHead' \in Slots /\ ringTail' \in Slots /\ ringCount' = 0
         /\ flushing' = Queued /\ Queued' = {}
<1>1. /\ RingSize \in Nat \ {0} /\ logged \in Nat /\ logged' = logged /\ ringCount \in 0 .. RingSize
      /\ ringHead \in Slots /\ ringTail \in Slots /\ ring \in [Slots -> Entry \cup {NoEntry}]
      /\ ringHead' = ringHead /\ ringTail' = Slot(ringTail, ringCount) /\ ringCount' = 0 /\ flushing' = Queued
      /\ ringHead = Slot(ringTail, ringCount)
  BY PipelineAssumption DEF TypeOK, RingInv, FlushStart, DequeueAll
<1>2. ring' \in [Slots -> Entry \cup {NoEntry}]
  <2>1. PICK T : ring' = [s \in Slots |-> IF s \in T THEN NoEntry ELSE ring[s]]
    BY DEF FlushStart, DequeueAll
  <2> QED
    BY <1>1, <2>1
<1>3. 0 .. ringCount' - 1 = {}
  BY <1>1
<1>4. Slot(ringTail', 0) = ringHead'
  <2>1. 0 \in 0 .. RingSize /\ ringTail' \in Nat /\ ringTail' < RingSize
    BY <1>1 DEF Slots
  <2> QED
    BY <1>1, <2>1, SlotIs
<1> QED
  BY <1>1, <1>2, <1>3, <1>4 DEF RingInv, Queued

\* A new process starts with an empty ring.
LEMMA FreshRing ==
  /\ 0 \in Slots /\ Slot(0, 0) = 0 /\ 0 .. 0 - 1 = {}
  /\ EmptyRing \in [Slots -> Entry \cup {NoEntry}]
<1>1. 0 \in Slots /\ 0 \in 0 .. RingSize /\ RingSize \in Nat \ {0}
  BY PipelineAssumption DEF Slots
<1>2. Slot(0, 0) = 0
  BY <1>1, SlotIs
<1> QED
  BY <1>1, <1>2 DEF EmptyRing

-----------------------------------------------------------------------------
\* Initially nothing has been logged.
LEMMA InitIInv == Init => IInv
<1> SUFFICES ASSUME Init PROVE IInv
  OBVIOUS
<1>1. RingInv /\ Queued = {} /\ ring \in [Slots -> Entry \cup {NoEntry}] /\ 0 \in Slots
  BY FreshRing DEF Init, RingInv, Queued
<1>2. TypeOK
  BY <1>1, PipelineAssumption DEF Init, TypeOK, Entry, MaxCopies, Lost
<1> QED
  BY <1>1, <1>2, PipelineAssumption
     DEF Init, IInv, Numbered, Fifo, NothingVanishes, CursorBehindTable, RunBehindTable, Entry

-----------------------------------------------------------------------------
LEMMA TypeStep ==
  ASSUME TypeOK, RingInv, [Next]_vars
  PROVE  TypeOK'
<1> USE PipelineAssumption DEF TypeOK, Lost
<1>1. CASE Enqueue
  <2>1. logged' \in 0 .. MaxEntry /\ logged' \in Entry
    BY <1>1 DEF Enqueue, Entry
  <2>2. /\ ring' \in [Slots -> Entry \cup {NoEntry}]
        /\ ringHead' \in Slots /\ ringTail' \in Slots /\ ringCount' \in 0 .. RingSize
        /\ lostRing' \subseteq Entry
    <3>1. 1 .. logged \subseteq Entry
      BY <2>1, <1>1 DEF Enqueue, Entry
    <3> QED
      BY <1>1, <3>1, EnqueueRing
  <2> QED BY <1>1, <2>1, <2>2 DEF Enqueue, locals, tableVars
<1>2. CASE FlushStart
  <2>1. /\ ring' \in [Slots -> Entry \cup {NoEntry}]
        /\ ringHead' \in Slots /\ ringTail' \in Slots /\ ringCount' \in 0 .. RingSize
        /\ flushing' \subseteq Entry
    BY <1>2, FlushRing, QueuedLogged
  <2> QED
    BY <1>2, <2>1 DEF FlushStart, locals, tableVars
<1>3. ASSUME NEW S \in SUBSET Entry, Append(S)
      PROVE  stream' \subseteq Entry /\ lostCap' \subseteq Entry
  BY <1>3 DEF Append
<1>4. \A k : FirstOf(flushing, k) \in SUBSET Entry
  BY DEF FirstOf
<1>5. CASE FlushChunk
  BY <1>3, <1>4, <1>5 DEF FlushChunk, ringVars, locals, tableVars
<1>6. CASE FlushFail
  BY <1>3, <1>4, <1>6 DEF FlushFail, Fault, ringVars, locals, tableVars
<1>7. CASE EngineRestart
  <2>1. Queued \subseteq Entry
    BY QueuedLogged
  <2>2. ring' \in [Slots -> Entry \cup {NoEntry}] /\ 0 \in Slots
    BY <1>7 DEF EngineRestart, EmptyRing, Slots
  <2> QED
    BY <1>7, <2>1, <2>2 DEF EngineRestart, Fault, locals, tableVars
<1>8. ASSUME NEW d \in Drains, Progress(d) \/ ForwardFails(d) \/ DrainFails(d)
      PROVE  TypeOK'
  <2> USE DEF engineVars, ringVars, locals, tableVars, Fault
  <2>1. CASE StartDrain(d)
    BY <2>1 DEF StartDrain
  <2>2. CASE ReadNothing(d)
    BY <2>2 DEF ReadNothing
  <2>3. CASE ReadBatch(d)
    <3>1. PICK l \in Entry, B \in SUBSET Entry, fl \in BOOLEAN :
            /\ batch' = [batch EXCEPT ![d] = B]
            /\ last' = [last EXCEPT ![d] = l]
            /\ full' = [full EXCEPT ![d] = fl]
      BY <2>3 DEF ReadBatch, Unread
    <3>2. l \in 0 .. MaxEntry
      BY DEF Entry
    <3> QED BY <2>3, <3>1, <3>2 DEF ReadBatch
  <2>4. CASE InsertBulk(d)
    BY <2>4, AddCopiesStores DEF InsertBulk, Inserted
  <2>5. CASE DropOnly(d)
    BY <2>5, AddCopiesStores DEF DropOnly, BulkFails, Inserted
  <2>6. CASE FallBack(d)
    BY <2>6, AddCopiesStores DEF FallBack, BulkFails
  <2>7. CASE InsertSingle(d)
    BY <2>7, AddCopiesStores DEF InsertSingle, Inserted, Oldest
  <2>8. CASE Forward(d)
    BY <2>8, AddCopiesStores DEF Forward, RemoteInsert, Inserted
  <2>9. CASE Trim(d)
    BY <2>9 DEF Trim
  <2>10. CASE SaveCursor(d)
    BY <2>10 DEF SaveCursor, EndRun
  <2>11. CASE ForwardFails(d)
    BY <2>11, AddCopiesStores DEF ForwardFails, EndRun
  <2>12. CASE DrainFails(d)
    BY <2>12 DEF DrainFails, EndRun
  <2> QED BY <1>8, <2>1, <2>2, <2>3, <2>4, <2>5, <2>6, <2>7, <2>8, <2>9, <2>10, <2>11, <2>12
          DEF Progress
<1>9. CASE UNCHANGED vars
  BY <1>9 DEF vars, engineVars, ringVars, locals, tableVars
<1> QED BY <1>1, <1>2, <1>5, <1>6, <1>7, <1>8, <1>9 DEF Next

-----------------------------------------------------------------------------
\* No action takes back a stored row or a recorded loss.
LEMMA SettledGrows ==
  ASSUME TypeOK, RingInv, [Next]_vars
  PROVE  /\ Stored \subseteq Stored'
         /\ Lost \subseteq Lost'
         /\ Settled \subseteq Settled'
<1> USE DEF Stored, Lost
<1>1. TypeOK'
  BY TypeStep
<1>2. CASE UNCHANGED vars
  BY <1>2 DEF vars, engineVars, ringVars, tableVars, Settled
<1>3. CASE Enqueue \/ FlushStart \/ FlushChunk \/ FlushFail \/ EngineRestart
  BY <1>3 DEF Enqueue, FlushStart, FlushChunk, FlushFail, EngineRestart, Append,
              tableVars, Settled
<1>4. ASSUME NEW d \in Drains, Progress(d) \/ ForwardFails(d) \/ DrainFails(d)
      PROVE  /\ \A e \in Entry : copies[e] > 0 => copies'[e] > 0
             /\ Lost \subseteq Lost'
  <2>1. \A S \in SUBSET Entry : \A e \in Entry : copies[e] > 0 => AddCopies(S)[e] > 0
    BY AddCopiesStores DEF TypeOK
  <2>2. batch[d] \in SUBSET Entry
    BY DEF TypeOK
  <2>3. CASE StartDrain(d) \/ ReadNothing(d) \/ ReadBatch(d) \/ Trim(d) \/ SaveCursor(d) \/ DrainFails(d)
    BY <2>3 DEF StartDrain, ReadNothing, ReadBatch, Trim, SaveCursor, DrainFails,
                engineVars, ringVars, tableVars
  <2>4. CASE InsertBulk(d) \/ DropOnly(d) \/ FallBack(d)
    BY <2>1, <2>2, <2>4 DEF InsertBulk, DropOnly, FallBack, BulkFails, Inserted, engineVars, ringVars
  <2>5. CASE InsertSingle(d)
    BY <2>1, <2>2, <2>5 DEF InsertSingle, Oldest, Inserted, engineVars, ringVars
  <2>6. CASE Forward(d) \/ ForwardFails(d)
    BY <2>1, <2>2, <2>6 DEF Forward, ForwardFails, RemoteInsert, Inserted, engineVars, ringVars
  <2> QED BY <1>4, <2>3, <2>4, <2>5, <2>6 DEF Progress
<1> QED BY <1>2, <1>3, <1>4 DEF Next, Settled

\* What one chunk of the flush leaves behind is younger than all it takes.
LEMMA ChunkIsPrefix ==
  ASSUME TypeOK, NEW k \in Nat
  PROVE  /\ FirstOf(flushing, k) \subseteq flushing
         /\ \A e \in FirstOf(flushing, k), f \in flushing \ FirstOf(flushing, k) : e < f
<1>1. FirstOf(flushing, k) \subseteq flushing
  BY DEF FirstOf
<1>2. IsFiniteSet(flushing) /\ flushing \subseteq Nat
  BY EntriesFinite DEF TypeOK
<1>3. SUFFICES ASSUME NEW e \in FirstOf(flushing, k),
                      NEW f \in flushing \ FirstOf(flushing, k), ~(e < f)
               PROVE  FALSE
  BY <1>1
<1>4. e \in Nat /\ f \in Nat
  BY <1>1, <1>2
<1>5. f <= e
  BY <1>3, <1>4
<1> QED BY <1>2, <1>5, FirstOfIsPrefix

\* The engine's side: entries enter the stream in order, so no cursor is passed.
LEMMA EngineStep ==
  ASSUME IInv, TypeOK', Settled \subseteq Settled',
         Enqueue \/ FlushStart \/ FlushChunk \/ FlushFail \/ EngineRestart
  PROVE  IInv'
<1> DEFINE InFlight == Queued \cup flushing \cup stream
<1> USE PipelineAssumption
<1>1. /\ UNCHANGED <<pc, cursor, batch, last, full, cursorKey>>
      /\ logged \in Nat /\ logged' \in Nat
      /\ logged' = logged \/ logged' = logged + 1
  BY DEF Enqueue, FlushStart, FlushChunk, FlushFail, EngineRestart, locals, IInv, TypeOK
<1>0. Queued \subseteq 1 .. logged /\ Queued \subseteq Entry /\ TypeOK /\ RingInv
  BY QueuedLogged DEF IInv
<1>2. /\ Queued \subseteq Nat /\ flushing \subseteq Nat /\ stream \subseteq Nat
      /\ cursorKey \in Nat
      /\ \A d \in Drains : cursor[d] \in Nat /\ last[d] \in Nat
  BY <1>0 DEF IInv, TypeOK, Entry
<1>3. RingInv' /\ Numbered' /\ Fifo' /\ \A e \in 1 .. logged' : e \in InFlight' \cup Settled'
  <2>1. CASE Enqueue
    <3>1. /\ logged' = logged + 1
          /\ Queued' \subseteq Queued \cup {logged'}
          /\ Queued \subseteq Queued' \cup lostRing'
          /\ logged' \in Queued' /\ RingInv'
          /\ UNCHANGED <<flushing, stream>>
      BY <1>0, <2>1, EnqueueRing DEF Enqueue
    <3>2. Numbered'
      <4>1. 1 .. logged \subseteq 1 .. logged' /\ logged' \in 1 .. logged'
        BY <1>1, <3>1
      <4>2. Queued \cup flushing \cup stream \subseteq 1 .. logged
        BY DEF IInv, Numbered
      <4>3. Queued' \cup flushing' \cup stream' \subseteq 1 .. logged'
        BY <3>1, <4>1, <4>2
      <4>4. cursorKey' <= logged'
        BY <1>1, <1>2, <3>1 DEF IInv, Numbered
      <4>5. ASSUME NEW d \in Drains
            PROVE  cursor'[d] <= logged' /\ last'[d] <= logged' /\ batch'[d] \subseteq 1 .. logged'
        <5>1. cursor[d] <= logged /\ last[d] <= logged /\ batch[d] \subseteq 1 .. logged
          BY <4>5 DEF IInv, Numbered
        <5> QED BY <1>1, <1>2, <3>1, <4>1, <4>5, <5>1
      <4> QED BY <4>3, <4>4, <4>5 DEF Numbered
    <3>3. Fifo'
      BY <1>1, <1>2, <3>1 DEF IInv, Numbered, Fifo
    <3>4. \A e \in 1 .. logged' : e \in InFlight' \cup Settled'
      BY <1>1, <3>1 DEF IInv, NothingVanishes, Settled, Lost
    <3> QED BY <3>1, <3>2, <3>3, <3>4
  <2>2. CASE FlushStart
    <3>1. RingInv' /\ flushing' = Queued /\ Queued' = {}
      BY <1>0, <2>2, FlushRing
    <3> QED
      BY <1>1, <1>2, <2>2, <3>1 DEF FlushStart, IInv, Numbered, Fifo, NothingVanishes
  <2>3. ASSUME NEW k \in Nat, NEW rest \in SUBSET (flushing \ FirstOf(flushing, k)),
               Append(FirstOf(flushing, k)), flushing' = rest,
               flushing \subseteq FirstOf(flushing, k) \cup rest \cup lostFlush',
               UNCHANGED <<logged, ringVars>>
        PROVE  RingInv' /\ Numbered' /\ Fifo' /\ \A e \in 1 .. logged' : e \in InFlight' \cup Settled'
    <3> DEFINE chunk == FirstOf(flushing, k)
    <3>0. RingInv' /\ Queued' = Queued
      BY <1>0, <2>3, RingSame
    <3>1. chunk \subseteq flushing /\ \A e \in chunk, f \in rest : e < f
      BY ChunkIsPrefix, <2>3 DEF IInv
    <3>2. stream' \subseteq stream \cup chunk /\ stream \cup chunk \subseteq stream' \cup lostCap'
      BY <2>3 DEF Append
    <3>3. Numbered'
      BY <1>1, <2>3, <3>0, <3>1, <3>2 DEF IInv, Numbered
    <3>4. Fifo'
      BY <1>1, <1>2, <2>3, <3>0, <3>1, <3>2 DEF IInv, Fifo
    <3>5. \A e \in 1 .. logged' : e \in InFlight' \cup Settled'
      BY <2>3, <3>0, <3>1, <3>2 DEF IInv, NothingVanishes, Settled, Lost
    <3> QED BY <3>0, <3>3, <3>4, <3>5
  <2>4. CASE FlushChunk
    BY <2>3, <2>4 DEF FlushChunk, ringVars
  <2>5. CASE FlushFail
    <3>1. PICK k \in 0 .. FlushBatch,
               rest \in { {}, flushing \ FirstOf(flushing, FlushBatch) } :
            /\ Append(FirstOf(flushing, k))
            /\ flushing' = rest
            /\ lostFlush' = lostFlush \cup ((flushing \ FirstOf(flushing, k)) \ rest)
            /\ UNCHANGED <<logged, ringVars>>
      BY <2>5 DEF FlushFail, ringVars
    <3>2. k \in Nat
      OBVIOUS
    <3>3. FirstOf(flushing, k) \subseteq FirstOf(flushing, FlushBatch)
      <4> SUFFICES ASSUME NEW e \in flushing, Cardinality({ f \in flushing : f <= e }) <= k
                   PROVE  Cardinality({ f \in flushing : f <= e }) <= FlushBatch
        BY DEF FirstOf
      <4>1. IsFiniteSet({ f \in flushing : f <= e })
        BY EntriesFinite, FS_Subset DEF IInv, TypeOK
      <4>2. Cardinality({ f \in flushing : f <= e }) \in Nat
        BY <4>1, FS_CardinalityType
      <4> QED BY <4>2
    <3> QED BY <2>3, <3>1, <3>2, <3>3
  <2>6. CASE EngineRestart
    <3>1. RingInv' /\ Queued' = {}
      <4>1. logged' \in Nat
        BY <1>1
      <4> QED
        BY <2>6, <4>1, FreshRing DEF EngineRestart, RingInv, Queued
    <3> QED
      BY <1>1, <1>2, <2>6, <3>1 DEF EngineRestart, IInv, Numbered, Fifo, NothingVanishes, Settled, Lost
  <2> QED BY <2>1, <2>2, <2>4, <2>5, <2>6
<1>4. NothingVanishes'
  BY <1>3 DEF NothingVanishes
<1>5. \A e \in 1 .. logged' : e \in 1 .. logged \/ (e = logged + 1 /\ e = logged')
  BY <1>1
<1>6. CursorBehindTable' /\ RunBehindTable'
  BY <1>1, <1>2, <1>5 DEF IInv, Numbered, CursorBehindTable, RunBehindTable
<1> QED BY <1>3, <1>4, <1>6 DEF IInv

\* A run of drainDnsLog touches nothing of another.
LEMMA RunsApart ==
  ASSUME TypeOK, NEW d \in Drains, Progress(d) \/ ForwardFails(d) \/ DrainFails(d)
  PROVE  \A r \in Drains \ {d} : UNCHANGED <<pc[r], cursor[r], last[r], batch[r]>>
<1>0. /\ pc = [r \in Drains |-> pc[r]] /\ cursor = [r \in Drains |-> cursor[r]]
      /\ last = [r \in Drains |-> last[r]] /\ batch = [r \in Drains |-> batch[r]]
  BY DEF TypeOK
<1>1. CASE StartDrain(d) \/ ReadNothing(d) \/ ReadBatch(d)
  BY <1>0, <1>1 DEF StartDrain, ReadNothing, ReadBatch, EndRun, locals
<1>2. CASE InsertBulk(d) \/ DropOnly(d) \/ FallBack(d) \/ InsertSingle(d)
  BY <1>0, <1>2 DEF InsertBulk, DropOnly, FallBack, InsertSingle, Inserted, EndRun, locals
<1>3. CASE Forward(d) \/ Trim(d) \/ SaveCursor(d) \/ ForwardFails(d) \/ DrainFails(d)
  BY <1>0, <1>3 DEF Forward, Trim, SaveCursor, ForwardFails, DrainFails, Inserted, EndRun, locals
<1> QED BY <1>1, <1>2, <1>3 DEF Progress

\* The drain's side. What every action of a run has to establish for itself is
\* how its own locals relate to the table; the other runs are not disturbed.
LEMMA DrainStep ==
  ASSUME IInv, TypeOK', Settled \subseteq Settled', NEW d \in Drains,
         Progress(d) \/ ForwardFails(d) \/ DrainFails(d)
  PROVE  IInv'
<1> USE PipelineAssumption
<1>0. UNCHANGED engineVars /\ (Trim(d) \/ UNCHANGED stream)
  BY DEF Progress, StartDrain, ReadNothing, ReadBatch, InsertBulk, DropOnly, FallBack,
         InsertSingle, Forward, Trim, SaveCursor, ForwardFails, DrainFails, Inserted
<1>1. /\ UNCHANGED <<logged, flushing>> /\ Queued' = Queued /\ RingInv'
      /\ logged \in Nat
      /\ stream' \subseteq stream
  BY <1>0, RingSame DEF Trim, engineVars, IInv, TypeOK
<1>2. /\ Queued \subseteq Nat /\ flushing \subseteq Nat /\ stream \subseteq Nat
      /\ cursorKey \in Nat /\ cursorKey' \in Nat
      /\ \A r \in Drains : cursor[r] \in Nat /\ last[r] \in Nat
      /\ \A r \in Drains : cursor'[r] \in Nat /\ last'[r] \in Nat
  <2>1. Queued \subseteq Entry
    BY QueuedLogged DEF IInv
  <2> QED
    BY <2>1 DEF IInv, TypeOK, Entry
<1>3. \A r \in Drains \ {d} : UNCHANGED <<pc[r], cursor[r], last[r], batch[r]>>
  BY RunsApart DEF IInv
\* Reached(x): x is a position that some entry of the stream has already had.
<1> DEFINE Reached(x) == x <= logged /\ \A f \in Queued \cup flushing : x < f
           Behind(x)  == \A e \in 1 .. logged : e <= x => e \in Settled'
<1>4. /\ Reached(cursorKey') /\ Behind(cursorKey')
      /\ Reached(cursor'[d]) /\ Behind(cursor'[d])
      /\ Reached(last'[d])
      /\ pc'[d] \in {"insert", "single"} =>
           \A e \in 1 .. logged : e <= last'[d] => e \in Settled' \cup batch'[d]
      /\ \A e \in stream : e \in stream' \cup Settled'
  <2>0. /\ Reached(0) /\ Behind(0)
        /\ Reached(cursorKey) /\ Behind(cursorKey)
        /\ Reached(cursor[d]) /\ Behind(cursor[d])
        /\ Reached(last[d])
        /\ pc[d] \in {"insert", "single"} =>
             \A e \in 1 .. logged : e <= last[d] => e \in Settled' \cup batch[d]
    BY <1>1, <1>2 DEF IInv, Numbered, Fifo, CursorBehindTable, RunBehindTable
  <2> USE DEF locals
  <2>1. CASE StartDrain(d)
    BY <2>0, <2>1 DEF StartDrain, IInv, TypeOK
  <2>2. CASE ReadNothing(d)
    BY <2>0, <2>2 DEF ReadNothing, IInv, TypeOK
  <2>3. CASE ReadBatch(d)
    <3>1. PICK l \in Unread(cursor[d]) :
            /\ batch' = [batch EXCEPT ![d] = { e \in Unread(cursor[d]) : e <= l }]
            /\ last' = [last EXCEPT ![d] = l]
      BY <2>3 DEF ReadBatch
    <3>2. /\ last'[d] = l /\ l \in stream
          /\ batch'[d] = { e \in stream : e > cursor[d] /\ e <= l }
      BY <3>1 DEF Unread, IInv, TypeOK
    <3>3. Reached(l)
      <4>1. l \in 1 .. logged
        BY <3>2 DEF IInv, Numbered
      <4>2. \A f \in Queued \cup flushing : l < f
        BY <3>2 DEF IInv, Fifo
      <4> QED BY <1>1, <4>1, <4>2
    <3>4. ASSUME NEW e \in 1 .. logged, e <= l
          PROVE  e \in Settled' \cup batch'[d]
      <4>1. CASE e \in Queued \cup flushing
        <5>1. l < e
          BY <3>3, <4>1
        <5>2. l \in Nat /\ e \in Nat
          BY <1>2, <3>2
        <5> QED BY <3>4, <5>1, <5>2
      <4>2. CASE e \in stream
        <5>1. e \in Nat /\ cursor[d] \in Nat
          BY <1>2, <4>2
        <5>2. CASE e <= cursor[d]
          <6>1. Behind(cursor[d])
            BY <2>0
          <6> QED BY <6>1, <5>2
        <5>3. CASE e > cursor[d]
          BY <3>2, <3>4, <4>2, <5>3
        <5> QED BY <5>1, <5>2, <5>3
      <4>3. CASE e \in Settled
        BY <4>3
      <4> QED BY <4>1, <4>2, <4>3 DEF IInv, NothingVanishes
    <3>5. UNCHANGED <<stream, cursorKey, cursor>>
      BY <2>3 DEF ReadBatch
    <3> QED BY <2>0, <3>2, <3>3, <3>4, <3>5
  <2>4. ASSUME Inserted(d), batch[d] \subseteq Settled', pc[d] \in {"insert", "single"}
        PROVE  /\ Reached(cursorKey') /\ Behind(cursorKey')
               /\ Reached(cursor'[d]) /\ Behind(cursor'[d])
               /\ Reached(last'[d])
               /\ pc'[d] \notin {"insert", "single"}
               /\ stream' = stream
    BY <2>0, <2>4 DEF Inserted, IInv, TypeOK
  <2>5. batch[d] \subseteq Entry
    BY DEF IInv, TypeOK
  <2>6. copies \in [Entry -> 0 .. MaxCopies]
    BY DEF IInv, TypeOK
  <2>7. CASE InsertBulk(d)
    <3>1. batch[d] \subseteq Settled'
      BY <2>5, <2>6, <2>7, AddCopiesStores DEF InsertBulk, Settled, Stored
    <3> QED BY <2>4, <2>7, <3>1 DEF InsertBulk
  <2>8. CASE DropOnly(d)
    <3>1. batch[d] \subseteq Settled'
      BY <2>8 DEF DropOnly, Settled, Lost
    <3> QED BY <2>4, <2>8, <3>1 DEF DropOnly, BulkFails
  <2>9. CASE FallBack(d)
    BY <2>0, <2>9 DEF FallBack, BulkFails
  <2>10. CASE InsertSingle(d)
    <3>1. PICK e \in batch[d] :
            /\ \/ e \notin malformed /\ copies' = AddCopies({e})
               \/ lostInsert' = lostInsert \cup {e}
            /\ IF batch[d] = {e}
               THEN Inserted(d)
               ELSE /\ batch' = [batch EXCEPT ![d] = @ \ {e}]
                    /\ UNCHANGED <<stream, cursorKey, pc, cursor, last>>
      BY <2>10 DEF InsertSingle, Oldest
    <3>2. e \in Settled'
      BY <2>5, <2>6, <3>1, AddCopiesStores DEF Settled, Stored, Lost
    <3>3. CASE batch[d] = {e}
      BY <2>4, <2>10, <3>1, <3>2, <3>3 DEF InsertSingle
    <3>4. CASE batch[d] # {e}
      <4>1. batch'[d] = batch[d] \ {e}
        BY <3>1, <3>4 DEF IInv, TypeOK
      <4> QED BY <2>0, <2>10, <3>1, <3>2, <3>4, <4>1 DEF InsertSingle
    <3> QED BY <3>3, <3>4
  <2>11. CASE Forward(d)
    <3>1. batch[d] \subseteq Settled'
      <4>1. PICK dropped \in SUBSET batch[d] :
              /\ copies' = AddCopies(batch[d] \ dropped)
              /\ lostInsert' = lostInsert \cup dropped
        BY <2>11 DEF Forward, RemoteInsert
      <4> QED BY <2>5, <2>6, <4>1, AddCopiesStores DEF Settled, Stored, Lost
    <3> QED BY <2>4, <2>11, <3>1 DEF Forward
  <2>12. CASE Trim(d)
    <3>1. \A e \in stream : e \in stream' \/ e <= cursor[d]
      BY <1>2, <2>12 DEF Trim
    <3>2. \A e \in stream : e \in stream' \cup Settled'
      BY <2>0, <3>1 DEF IInv, Numbered
    <3> QED BY <2>0, <2>12, <3>2 DEF Trim, IInv, TypeOK
  <2>13. ASSUME EndRun(d)
         PROVE  cursor'[d] = 0 /\ last'[d] = 0 /\ pc'[d] = "idle"
    BY <2>13 DEF EndRun, IInv, TypeOK
  <2>14. CASE SaveCursor(d)
    BY <2>0, <2>13, <2>14 DEF SaveCursor
  <2>15. CASE ForwardFails(d) \/ DrainFails(d)
    BY <2>0, <2>13, <2>15 DEF ForwardFails, DrainFails
  <2> QED BY <2>1, <2>2, <2>3, <2>7, <2>8, <2>9, <2>10, <2>11, <2>12, <2>14, <2>15
          DEF Progress
<1>5. batch'[d] \subseteq batch[d] \cup stream
  <2>1. CASE ReadBatch(d)
    BY <2>1 DEF ReadBatch, Unread, IInv, TypeOK
  <2>2. CASE InsertSingle(d)
    BY <2>2 DEF InsertSingle, Inserted, IInv, TypeOK
  <2>3. CASE \/ StartDrain(d) \/ ReadNothing(d) \/ FallBack(d) \/ Trim(d)
             \/ EndRun(d) \/ Inserted(d)
    BY <2>3 DEF StartDrain, ReadNothing, FallBack, Trim, EndRun, Inserted, locals, IInv, TypeOK
  <2> QED BY <2>1, <2>2, <2>3 DEF Progress, InsertBulk, DropOnly, Forward, SaveCursor,
                                  ForwardFails, DrainFails
<1>6. \A r \in Drains : batch'[r] \subseteq 1 .. logged
  BY <1>3, <1>5 DEF IInv, Numbered
<1>7. Numbered' /\ Fifo'
  BY <1>1, <1>2, <1>3, <1>4, <1>6 DEF IInv, Numbered, Fifo
<1>8. NothingVanishes' /\ CursorBehindTable'
  BY <1>1, <1>4 DEF IInv, NothingVanishes, CursorBehindTable
<1>9. RunBehindTable'
  BY <1>1, <1>2, <1>3, <1>4 DEF IInv, RunBehindTable
<1> QED BY <1>1, <1>7, <1>8, <1>9 DEF IInv

LEMMA IInvStep == IInv /\ [Next]_vars => IInv'
<1> SUFFICES ASSUME IInv, [Next]_vars PROVE IInv'
  OBVIOUS
<1>1. TypeOK' /\ Settled \subseteq Settled'
  BY TypeStep, SettledGrows DEF IInv
<1>2. CASE Enqueue \/ FlushStart \/ FlushChunk \/ FlushFail \/ EngineRestart
  BY <1>1, <1>2, EngineStep
<1>3. CASE \E d \in Drains : Progress(d) \/ ForwardFails(d) \/ DrainFails(d)
  BY <1>1, <1>3, DrainStep
<1>4. CASE UNCHANGED vars
  <2>1. Queued' = Queued /\ (RingInv => RingInv')
    BY <1>4, RingSame DEF vars, engineVars
  <2> QED
    BY <1>1, <1>4, <2>1 DEF vars, engineVars, locals, tableVars, IInv, Numbered, Fifo,
       NothingVanishes, CursorBehindTable, RunBehindTable, Settled, Stored, Lost
<1> QED BY <1>2, <1>3, <1>4 DEF Next

\* Every state of the pipeline satisfies the inductive invariant.
THEOREM Invariance == Spec => []IInv
BY InitIInv, IInvStep, PTL DEF Spec

\* The variables of the pipeline always hold values of their types.
THEOREM TypeCorrect == Spec => []TypeOK
BY Invariance, PTL DEF IInv

\* However many drains overlap and wherever one of them dies, no query-log entry
\* loses its last trace before it is stored or given up (drainDnsLog, logger.js).
THEOREM NoEntryVanishes == Spec => []NothingVanishes
BY Invariance, PTL DEF IInv

\* The cursor that drainDnsLog persists never covers an unsettled entry.
THEOREM CursorIsSafe == Spec => []CursorBehindTable
BY Invariance, PTL DEF IInv

\* Redis trims an entry from the stream only when STREAM_MAX newer ones are in it.
LEMMA CapOverruns ==
  ASSUME TypeOK, NEW S \in SUBSET (1 .. logged), NEW e \in S \ LastOf(S, StreamMax)
  PROVE  Abstract!Overrun(e, logged)
<1> DEFINE Newer == { f \in S : f >= e }
<1>1. logged \in Nat /\ e \in 1 .. logged /\ StreamMax \in Nat
  BY PipelineAssumption DEF TypeOK
<1>2. Newer \subseteq e .. logged
  <2> SUFFICES ASSUME NEW f \in S, f >= e PROVE f \in e .. logged
    OBVIOUS
  <2>1. f \in 1 .. logged
    OBVIOUS
  <2> QED
    BY <1>1, <2>1
<1>3. IsFiniteSet(e .. logged) /\ Cardinality(e .. logged) = logged - e + 1
  BY <1>1, FS_Interval
<1>4. Cardinality(Newer) <= logged - e + 1 /\ Cardinality(Newer) \in Nat
  <2>1. IsFiniteSet(Newer) /\ Cardinality(Newer) <= Cardinality(e .. logged)
    BY <1>2, <1>3, FS_Subset
  <2> QED
    BY <1>3, <2>1, FS_CardinalityType
<1>5. ~(Cardinality(Newer) <= StreamMax)
  BY DEF LastOf
<1> QED
  BY <1>1, <1>4, <1>5 DEF Abstract!Overrun

\* A chunk that reaches the stream pushes out only entries it overruns.
LEMMA AppendOverruns ==
  ASSUME TypeOK, NEW S \in SUBSET (1 .. logged), stream \subseteq 1 .. logged, Append(S)
  PROVE  /\ lostCap \subseteq lostCap'
         /\ \A e \in lostCap' \ lostCap : e \in 1 .. logged /\ Abstract!Overrun(e, logged)
<1>1. PICK capped \in { {}, (stream \cup S) \ LastOf(stream \cup S, StreamMax) } : lostCap' = lostCap \cup capped
  BY DEF Append
<1>2. stream \cup S \in SUBSET (1 .. logged)
  OBVIOUS
<1>3. \A e \in capped : e \in 1 .. logged /\ Abstract!Overrun(e, logged)
  BY <1>1, <1>2, CapOverruns
<1> QED
  BY <1>1, <1>3

\* What a step other than logQuery stores and gives up: without a fault only what
\* Postgres rejects or what is overrun.
Honest ==
  /\ UNCHANGED <<logged, malformed>>
  /\ Stored' \ Stored \subseteq (1 .. logged) \ malformed
  /\ Lost' \ Lost \subseteq 1 .. logged
  /\ \/ faults' = faults + 1
     \/ /\ faults' = faults
        /\ \A e \in Lost' \ Lost : e \in malformed \/ Abstract!Overrun(e, logged)

LEMMA EngineHonest ==
  ASSUME IInv, FlushStart \/ FlushChunk \/ FlushFail \/ EngineRestart
  PROVE  Honest
<1>1. /\ Queued \cup flushing \cup stream \subseteq 1 .. logged /\ TypeOK
  BY DEF IInv, Numbered
<1>2. UNCHANGED <<logged, malformed, copies, lostRing, lostInsert>>
  BY DEF FlushStart, FlushChunk, FlushFail, EngineRestart, tableVars
<1>3. Stored' = Stored
  BY <1>2 DEF Stored
<1>4. CASE FlushStart
  BY <1>2, <1>3, <1>4 DEF FlushStart, Honest, Lost
<1>5. ASSUME NEW k \in Nat, Append(FirstOf(flushing, k))
      PROVE  /\ lostCap \subseteq lostCap'
             /\ \A e \in lostCap' \ lostCap : e \in 1 .. logged /\ Abstract!Overrun(e, logged)
  <2>1. FirstOf(flushing, k) \in SUBSET (1 .. logged)
    BY <1>1 DEF FirstOf
  <2> QED
    BY <1>1, <1>5, <2>1, AppendOverruns
<1>6. CASE FlushChunk
  <2>1. FlushBatch \in Nat
    BY PipelineAssumption
  <2>2. \A e \in lostCap' \ lostCap : e \in 1 .. logged /\ Abstract!Overrun(e, logged)
    BY <1>5, <1>6, <2>1 DEF FlushChunk
  <2> QED
    BY <1>2, <1>3, <1>6, <2>2 DEF FlushChunk, Honest, Lost
<1>7. CASE FlushFail
  <2>1. PICK k \in 0 .. FlushBatch : Append(FirstOf(flushing, k)) /\ lostFlush' \subseteq lostFlush \cup flushing
    BY <1>7 DEF FlushFail
  <2>2. k \in Nat
    OBVIOUS
  <2>3. \A e \in lostCap' \ lostCap : e \in 1 .. logged
    BY <1>5, <2>1, <2>2
  <2> QED
    BY <1>1, <1>2, <1>3, <1>7, <2>1, <2>3 DEF FlushFail, Fault, Honest, Lost
<1>8. CASE EngineRestart
  BY <1>1, <1>2, <1>3, <1>8 DEF EngineRestart, Fault, Honest, Lost
<1> QED
  BY <1>4, <1>6, <1>7, <1>8

LEMMA DrainHonest ==
  ASSUME IInv, NEW d \in Drains, Progress(d) \/ ForwardFails(d) \/ DrainFails(d)
  PROVE  Honest
<1>1. batch[d] \subseteq 1 .. logged /\ batch[d] \subseteq Entry
  BY DEF IInv, Numbered, TypeOK
<1>2. UNCHANGED <<logged, malformed, lostRing, lostFlush, lostCap>>
  BY DEF Progress, StartDrain, ReadNothing, ReadBatch, InsertBulk, DropOnly, FallBack, BulkFails,
     InsertSingle, Forward, Trim, SaveCursor, ForwardFails, DrainFails, Inserted, engineVars
<1>3. ASSUME NEW S \in SUBSET (batch[d] \ malformed), copies' = AddCopies(S) \/ UNCHANGED copies
      PROVE  Stored' \ Stored \subseteq (1 .. logged) \ malformed
  BY <1>1, <1>3 DEF Stored, AddCopies
<1>4. CASE UNCHANGED <<copies, lostInsert>> /\ (UNCHANGED faults \/ Fault)
  BY <1>2, <1>4 DEF Honest, Stored, Lost, Fault
<1>5. CASE StartDrain(d) \/ ReadNothing(d) \/ ReadBatch(d) \/ Trim(d) \/ SaveCursor(d) \/ DrainFails(d)
  BY <1>4, <1>5 DEF StartDrain, ReadNothing, ReadBatch, Trim, SaveCursor, DrainFails, tableVars
<1>6. CASE InsertBulk(d)
  <2>1. batch[d] \in SUBSET (batch[d] \ malformed) /\ copies' = AddCopies(batch[d])
    BY <1>6 DEF InsertBulk
  <2>2. Stored' \ Stored \subseteq (1 .. logged) \ malformed
    BY <1>3, <2>1
  <2> QED
    BY <1>2, <1>6, <2>2 DEF InsertBulk, Honest, Lost
<1>7. ASSUME BulkFails(d)
      PROVE  /\ Stored' \ Stored \subseteq (1 .. logged) \ malformed
             /\ \/ batch[d] \cap malformed # {} /\ UNCHANGED faults
                \/ Fault
  <2>1. \/ UNCHANGED copies
        \/ batch[d] \in SUBSET (batch[d] \ malformed) /\ copies' = AddCopies(batch[d])
    BY <1>7 DEF BulkFails
  <2>2. {} \in SUBSET (batch[d] \ malformed)
    OBVIOUS
  <2> QED
    BY <1>3, <1>7, <2>1, <2>2 DEF BulkFails
<1>8. CASE FallBack(d)
  BY <1>2, <1>7, <1>8 DEF FallBack, Honest, Lost, Fault
<1>9. CASE DropOnly(d)
  <2>1. PICK e : batch[d] = {e}
    <3>1. IsFiniteSet(batch[d])
      BY <1>1, EntriesFinite
    <3>2. \E e : batch[d] = {e}
      BY <1>9, <3>1, FS_Singleton DEF DropOnly
    <3> QED
      BY <3>2
  <2>2. /\ Stored' \ Stored \subseteq (1 .. logged) \ malformed
        /\ \/ e \in malformed /\ UNCHANGED faults
           \/ Fault
    BY <1>7, <1>9, <2>1 DEF DropOnly
  <2>3. lostInsert' = lostInsert \cup {e}
    BY <1>9, <2>1 DEF DropOnly
  <2> QED
    BY <1>1, <1>2, <2>1, <2>2, <2>3 DEF Honest, Lost, Fault
<1>10. CASE InsertSingle(d)
  <2>1. PICK e \in batch[d] :
          \/ e \notin malformed /\ copies' = AddCopies({e}) /\ UNCHANGED <<lostInsert, faults>>
          \/ /\ IF e \in malformed THEN UNCHANGED faults ELSE Fault
             /\ lostInsert' = lostInsert \cup {e}
             /\ copies' \in { copies, AddCopies({e} \ malformed) }
    BY <1>10 DEF InsertSingle, Oldest
  <2>2. {e} \ malformed \in SUBSET (batch[d] \ malformed)
    OBVIOUS
  <2>3. copies' = AddCopies({e} \ malformed) \/ UNCHANGED copies
    <3>1. e \notin malformed => {e} \ malformed = {e}
      OBVIOUS
    <3> QED
      BY <2>1, <3>1
  <2>4. Stored' \ Stored \subseteq (1 .. logged) \ malformed
    BY <1>3, <2>2, <2>3
  <2> QED
    BY <1>1, <1>2, <2>1, <2>4 DEF Honest, Lost, Fault
<1>11. CASE Forward(d)
  <2>1. PICK dropped \in SUBSET batch[d] :
          /\ batch[d] \cap malformed \subseteq dropped
          /\ faults' = IF dropped \subseteq malformed THEN faults ELSE faults + 1
          /\ copies' = AddCopies(batch[d] \ dropped)
          /\ lostInsert' = lostInsert \cup dropped
    BY <1>11 DEF Forward, RemoteInsert
  <2>2. batch[d] \ dropped \in SUBSET (batch[d] \ malformed)
    BY <2>1
  <2>3. Stored' \ Stored \subseteq (1 .. logged) \ malformed
    BY <1>3, <2>1, <2>2
  <2> QED
    BY <1>1, <1>2, <2>1, <2>3 DEF Honest, Lost
<1>12. CASE ForwardFails(d)
  <2>1. PICK done \in SUBSET (batch[d] \ malformed) : copies' = AddCopies(done)
    BY <1>12 DEF ForwardFails
  <2>2. Stored' \ Stored \subseteq (1 .. logged) \ malformed
    BY <1>3, <2>1
  <2> QED
    BY <1>2, <1>12, <2>2 DEF ForwardFails, Fault, Honest, Lost
<1> QED
  BY <1>5, <1>6, <1>8, <1>9, <1>10, <1>11, <1>12 DEF Progress

\* The pipeline implements DurableLog: wherever head and tail of the ring stand, however
\* chunks, trims and overlapping runs fall, an entry is given up without a fault only if
\* Postgres rejects it or RING_SIZE, or STREAM_MAX, newer entries were logged; a rejected
\* one is never stored; what is stored or given up stays so.
THEOREM Refinement == Spec => ImplementsDurableLog
<1>1. Init => Abstract!Init
  BY DEF Init, Abstract!Init, Stored, Lost, Entry
<1>2. IInv /\ [Next]_vars => [Abstract!Next]_Abstract!vars
  <2> SUFFICES ASSUME IInv, [Next]_vars PROVE [Abstract!Next]_Abstract!vars
    OBVIOUS
  <2> DEFINE K == Stored' \ Stored
             L == Lost' \ Lost
  <2>1. Stored' = Stored \cup K /\ Lost' = Lost \cup L
    BY SettledGrows DEF IInv
  <2>2. CASE Honest
    <3>1. K \in SUBSET (1 .. logged) /\ L \in SUBSET (1 .. logged) /\ Abstract!Store(K)
      BY <2>1, <2>2 DEF Honest, Abstract!Store
    <3>2. CASE faults' = faults + 1
      BY <2>1, <2>2, <3>1, <3>2 DEF Honest, Abstract!Next, Abstract!Mishap
    <3>3. CASE UNCHANGED faults /\ \A e \in L : e \in malformed \/ Abstract!Overrun(e, logged)
      <4>1. L \in SUBSET { e \in 1 .. logged : e \in malformed \/ Abstract!Overrun(e, logged) }
        BY <3>1, <3>3
      <4> QED
        BY <2>1, <2>2, <3>1, <3>3, <4>1 DEF Honest, Abstract!Next, Abstract!Settle
    <3> QED
      BY <2>2, <3>2, <3>3 DEF Honest
  <2>3. CASE Enqueue
    <3>1. /\ UNCHANGED <<copies, faults, lostFlush, lostCap, lostInsert>> /\ Stored' = Stored
          /\ logged < MaxEntry /\ logged' = logged + 1
          /\ malformed' \in { malformed, malformed \cup {logged'} }
      BY <2>3 DEF Enqueue, tableVars, Stored
    <3>2. \A e \in lostRing' \ lostRing : e \in 1 .. logged /\ e + RingSize <= logged'
      BY <2>3, EnqueueRing DEF IInv
    <3>3. L \in SUBSET { e \in 1 .. logged : Abstract!Overrun(e, logged') }
      BY <3>1, <3>2 DEF Lost, Abstract!Overrun
    <3> QED
      BY <2>1, <3>1, <3>3 DEF Abstract!Next, Abstract!Log
  <2>4. CASE UNCHANGED vars
    BY <2>4 DEF vars, engineVars, tableVars, Stored, Lost, Abstract!vars
  <2>5. CASE FlushStart \/ FlushChunk \/ FlushFail \/ EngineRestart
    BY <2>2, <2>5, EngineHonest
  <2>6. CASE \E d \in Drains : Progress(d) \/ ForwardFails(d) \/ DrainFails(d)
    BY <2>2, <2>6, DrainHonest
  <2> QED BY <2>3, <2>4, <2>5, <2>6 DEF Next
<1> QED BY <1>1, <1>2, Invariance, PTL DEF Spec, ImplementsDurableLog, Abstract!Spec

-----------------------------------------------------------------------------
(* An entry is stored once. No step says so: that a run reads none of what *)
(* is stored already comes from the cursor, which the run before it saved, *)
(* and which lies above everything that is stored.                         *)

\* What run d has stored lies below its cursor; between reading a batch and moving the
\* cursor, below the last entry read, and is not in what it has still to insert.
ReadOnce(d) ==
  /\ pc[d] = "idle" => last[d] = 0
  /\ pc[d] \in {"read", "trim", "save"} =>
       /\ \A e \in Stored : e <= cursor[d]
       /\ last[d] = 0 => cursor[d] = cursorKey
  /\ pc[d] \in {"insert", "single"} =>
       /\ last[d] > 0
       /\ \A e \in Stored : e <= last[d]
       /\ \A e \in batch[d] : e <= last[d] /\ copies[e] = 0

OnceInv ==
  faults = 0 /\ ~overlapped =>
    /\ ~Overlap
    /\ \A e \in Entry : copies[e] <= 1
    /\ (\A d \in Drains : pc[d] = "idle") => \A e \in Stored : e <= cursorKey
    /\ \A d \in Drains : ReadOnce(d)

\* No run, and nothing stored, at first.
LEMMA OnceAtFirst == OverlapInit => OnceInv
BY DEF OverlapInit, Init, OnceInv, Overlap, ReadOnce, Stored

\* A fault is never taken back.
LEMMA FaultsCount ==
  ASSUME TypeOK, Next, faults' = 0
  PROVE  faults = 0 /\ ~Fault
<1>1. ~Fault
  BY DEF Fault, TypeOK
<1>2. faults \in Nat
  BY PipelineAssumption DEF TypeOK
<1>3. CASE Enqueue \/ FlushStart \/ FlushChunk \/ FlushFail \/ EngineRestart
  BY <1>1, <1>3 DEF Enqueue, FlushStart, FlushChunk, FlushFail, EngineRestart
<1>4. ASSUME NEW d \in Drains, Progress(d) \/ ForwardFails(d) \/ DrainFails(d) PROVE faults = 0
  <2>1. CASE StartDrain(d) \/ ReadNothing(d) \/ ReadBatch(d) \/ Trim(d) \/ SaveCursor(d)
    BY <1>1, <2>1 DEF StartDrain, ReadNothing, ReadBatch, Trim, SaveCursor
  <2>2. CASE InsertBulk(d) \/ DropOnly(d) \/ FallBack(d)
    BY <1>1, <2>2 DEF InsertBulk, DropOnly, FallBack, BulkFails
  <2>3. CASE InsertSingle(d)
    BY <1>1, <2>3 DEF InsertSingle
  <2>4. CASE Forward(d)
    <3>1. faults' = faults \/ faults' = faults + 1
      BY <2>4 DEF Forward, RemoteInsert
    <3> QED
      BY <1>2, <3>1
  <2>5. CASE ForwardFails(d) \/ DrainFails(d)
    BY <1>1, <2>5 DEF ForwardFails, DrainFails
  <2> QED
    BY <1>4, <2>1, <2>2, <2>3, <2>4, <2>5 DEF Progress
<1> QED
  BY <1>1, <1>3, <1>4 DEF Next

\* One more row for entries that have none.
LEMMA FirstCopies ==
  ASSUME TypeOK, NEW S \in SUBSET Entry,
         \A e \in Entry : copies[e] <= 1, \A e \in S : copies[e] = 0
  PROVE  /\ \A e \in Entry : AddCopies(S)[e] <= 1
         /\ \A e \in Entry \ S : AddCopies(S)[e] = copies[e]
BY DEF TypeOK, AddCopies, MaxCopies

\* What run d, alone and undisturbed, makes of the table and of its cursor.
LEMMA LonelyRun ==
  ASSUME TypeOK, TypeOK', NEW d \in Drains, Progress(d), ~Fault, faults' = 0, ReadOnce(d),
         \A e \in Entry : copies[e] <= 1,
         pc[d] = "idle" => \A e \in Stored : e <= cursorKey
  PROVE  /\ \A e \in Entry : copies'[e] <= 1
         /\ pc'[d] = "idle" => \A e \in Stored' : e <= cursorKey'
         /\ ReadOnce(d)'
<1> DEFINE Goal == /\ \A e \in Entry : copies'[e] <= 1
                   /\ pc'[d] = "idle" => \A e \in Stored' : e <= cursorKey'
                   /\ ReadOnce(d)'
<1> USE PipelineAssumption DEF locals, tableVars
<1>0. /\ batch[d] \subseteq Entry /\ copies \in [Entry -> 0 .. MaxCopies]
      /\ last[d] \in Nat /\ cursor[d] \in Nat /\ cursorKey \in Nat /\ stream \subseteq Entry
      /\ Entry \subseteq Nat
  <2>1. Entry \subseteq Nat /\ 0 .. MaxEntry \subseteq Nat
    BY DEF Entry
  <2> QED
    BY <2>1 DEF TypeOK
<1>1. CASE StartDrain(d)
  <2>1. pc'[d] = "read" /\ cursor'[d] = cursorKey /\ last'[d] = last[d]
    BY <1>1 DEF StartDrain, TypeOK
  <2>2. UNCHANGED <<copies, cursorKey>> /\ Stored' = Stored /\ pc[d] = "idle"
    BY <1>1 DEF StartDrain, Stored
  <2> QED
    BY <2>1, <2>2 DEF ReadOnce
<1>2. CASE ReadNothing(d)
  <2>1. pc[d] = "read" /\ pc'[d] = "save" /\ UNCHANGED <<cursor, last, copies, cursorKey>> /\ Stored' = Stored
    BY <1>2 DEF ReadNothing, TypeOK, Stored
  <2> QED
    BY <2>1 DEF ReadOnce
<1>3. CASE ReadBatch(d)
  <2>1. PICK l \in Unread(cursor[d]) :
          /\ batch' = [batch EXCEPT ![d] = {e \in Unread(cursor[d]) : e <= l}]
          /\ last' = [last EXCEPT ![d] = l]
    BY <1>3 DEF ReadBatch
  <2>2. /\ pc[d] = "read" /\ pc'[d] = "insert" /\ last'[d] = l
        /\ batch'[d] = {e \in stream : e > cursor[d] /\ e <= l}
        /\ UNCHANGED copies /\ Stored' = Stored /\ l \in Nat /\ l > cursor[d]
    BY <1>0, <1>3, <2>1 DEF ReadBatch, TypeOK, Stored, Unread
  <2>3. \A e \in Stored : e <= cursor[d] /\ e \in Nat
    BY <1>0, <2>2 DEF ReadOnce, Stored
  <2>4. \A e \in batch'[d] : e \in Entry /\ copies[e] = 0
    <3> SUFFICES ASSUME NEW e \in batch'[d] PROVE e \in Entry /\ copies[e] = 0
      OBVIOUS
    <3>1. e \in Entry /\ e \in Nat /\ e > cursor[d]
      BY <1>0, <2>2
    <3>2. e \notin Stored
      BY <1>0, <2>3, <3>1
    <3>3. copies[e] \in 0 .. MaxCopies
      BY <1>0, <3>1
    <3> QED
      BY <3>1, <3>2, <3>3 DEF Stored, MaxCopies
  <2>5. \A e \in Stored' : e <= last'[d]
    BY <1>0, <2>2, <2>3
  <2>6. \A e \in batch'[d] : e <= last'[d] /\ copies'[e] = 0
    BY <2>2, <2>4
  <2>7. last'[d] > 0
    BY <1>0, <2>2
  <2> QED
    BY <2>2, <2>5, <2>6, <2>7 DEF ReadOnce
<1>4. ASSUME pc[d] \in {"insert", "single"}, Inserted(d),
             \A e \in Stored' : e \in Stored \cup batch[d], \A e \in Entry : copies'[e] <= 1
      PROVE  Goal
  <2>1. pc'[d] = "trim" /\ cursor'[d] = last[d] /\ last'[d] = last[d]
    BY <1>4 DEF Inserted, TypeOK
  <2>2. \A e \in Stored' : e <= last[d]
    BY <1>4 DEF ReadOnce
  <2> QED
    BY <1>0, <1>4, <2>1, <2>2 DEF ReadOnce
<1>5. ASSUME NEW S \in SUBSET batch[d], pc[d] \in {"insert", "single"}, copies' = AddCopies(S)
      PROVE  /\ \A e \in Entry : copies'[e] <= 1
             /\ \A e \in Entry \ S : copies'[e] = copies[e]
             /\ \A e \in Stored' : e \in Stored \cup S
  <2>1. S \subseteq Entry /\ \A e \in S : copies[e] = 0
    BY <1>0, <1>5 DEF ReadOnce
  <2>2. /\ \A e \in Entry : copies'[e] <= 1
        /\ \A e \in Entry \ S : copies'[e] = copies[e]
    BY <1>5, <2>1, FirstCopies
  <2> QED
    BY <2>2 DEF Stored
<1>6. ASSUME UNCHANGED copies
      PROVE  Stored' = Stored /\ \A e \in Entry : copies'[e] <= 1
  BY <1>6 DEF Stored
<1>7. CASE InsertBulk(d)
  BY <1>4, <1>5, <1>7 DEF InsertBulk
<1>8. CASE DropOnly(d)
  <2>1. pc[d] = "insert" /\ UNCHANGED copies /\ Inserted(d)
    BY <1>8 DEF DropOnly, BulkFails
  <2> QED
    BY <1>4, <1>6, <2>1
<1>9. CASE FallBack(d)
  <2>1. pc[d] = "insert" /\ pc'[d] = "single" /\ UNCHANGED <<copies, last, batch>>
    BY <1>9 DEF FallBack, BulkFails, TypeOK
  <2> QED
    BY <1>6, <2>1 DEF ReadOnce
<1>10. CASE InsertSingle(d)
  <2>1. PICK e \in Oldest(batch[d]) :
          /\ \/ copies' = AddCopies({e}) \/ copies' \in {copies, AddCopies({e} \ malformed)}
          /\ IF batch[d] = {e}
             THEN Inserted(d)
             ELSE /\ batch' = [batch EXCEPT ![d] = @ \ {e}]
                  /\ UNCHANGED <<pc, last>>
    BY <1>10 DEF InsertSingle
  <2>2. pc[d] = "single" /\ e \in batch[d]
    BY <1>10, <2>1 DEF InsertSingle, Oldest
  <2>3. /\ \A f \in Entry : copies'[f] <= 1
        /\ \A f \in Entry \ {e} : copies'[f] = copies[f]
        /\ \A f \in Stored' : f \in Stored \cup {e}
    <3>1. CASE \E S \in SUBSET {e} : copies' = AddCopies(S)
      <4>1. PICK S \in SUBSET {e} : copies' = AddCopies(S)
        BY <3>1
      <4>2. S \in SUBSET batch[d]
        BY <2>2
      <4> QED
        BY <1>5, <2>2, <4>1, <4>2
    <3>2. CASE UNCHANGED copies
      BY <1>6, <3>2
    <3> QED
      BY <2>1, <3>1, <3>2
  <2>4. CASE batch[d] = {e}
    BY <1>4, <2>1, <2>2, <2>3, <2>4
  <2>5. CASE batch[d] # {e}
    <3>1. batch'[d] = batch[d] \ {e} /\ pc'[d] = "single" /\ last'[d] = last[d]
      BY <2>1, <2>2, <2>5 DEF TypeOK
    <3>2. \A f \in Stored' : f <= last[d]
      BY <2>2, <2>3 DEF ReadOnce
    <3>3. \A f \in batch'[d] : f <= last[d] /\ copies'[f] = 0
      BY <1>0, <2>2, <2>3, <3>1 DEF ReadOnce
    <3>4. ReadOnce(d)'
      BY <2>2, <3>1, <3>2, <3>3 DEF ReadOnce
    <3> QED
      BY <2>3, <3>1, <3>4
  <2> QED
    BY <2>4, <2>5
<1>11. CASE Forward(d)
  <2>1. PICK dropped \in SUBSET batch[d] : copies' = AddCopies(batch[d] \ dropped)
    BY <1>11 DEF Forward, RemoteInsert
  <2>2. pc[d] = "insert" /\ Inserted(d)
    BY <1>11 DEF Forward
  <2>3. /\ \A e \in Entry : copies'[e] <= 1
        /\ \A e \in Stored' : e \in Stored \cup (batch[d] \ dropped)
    BY <1>5, <2>1, <2>2
  <2> QED
    BY <1>4, <2>2, <2>3
<1>12. CASE Trim(d)
  <2>1. pc[d] = "trim" /\ pc'[d] \in {"read", "save"} /\ UNCHANGED <<copies, cursor, last, cursorKey>>
    BY <1>12 DEF Trim, TypeOK
  <2> QED
    BY <1>6, <2>1 DEF ReadOnce
<1>13. CASE SaveCursor(d)
  <2>1. pc[d] = "save" /\ pc'[d] = "idle" /\ last'[d] = 0 /\ UNCHANGED copies
    BY <1>13 DEF SaveCursor, EndRun, TypeOK
  <2>2. cursorKey' = cursor[d]
    BY <1>0, <1>13, <2>1 DEF SaveCursor, ReadOnce
  <2>3. \A e \in Stored' : e <= cursorKey'
    BY <1>6, <2>1, <2>2 DEF ReadOnce
  <2> QED
    BY <1>6, <2>1, <2>3 DEF ReadOnce
<1> QED
  BY <1>1, <1>2, <1>3, <1>7, <1>8, <1>9, <1>10, <1>11, <1>12, <1>13 DEF Progress

\* As long as nothing fails and no run meets another, the invariant stands.
LEMMA OnceKept ==
  ASSUME TypeOK, TypeOK', OnceInv, Next, overlapped' = (overlapped \/ Overlap')
  PROVE  OnceInv'
<1> SUFFICES ASSUME faults' = 0, ~overlapped'
             PROVE  OnceInv'
  BY DEF OnceInv
<1>1. faults = 0 /\ ~Fault /\ ~overlapped /\ ~Overlap' /\ ~Overlap
  BY FaultsCount DEF OnceInv
<1>2. /\ \A e \in Entry : copies[e] <= 1
      /\ (\A d \in Drains : pc[d] = "idle") => \A e \in Stored : e <= cursorKey
      /\ \A d \in Drains : ReadOnce(d)
  BY <1>1 DEF OnceInv
<1>3. CASE Enqueue \/ FlushStart \/ FlushChunk \/ FlushFail \/ EngineRestart
  <2>1. UNCHANGED <<pc, cursor, batch, last, cursorKey, copies>>
    BY <1>3 DEF Enqueue, FlushStart, FlushChunk, FlushFail, EngineRestart, locals, tableVars
  <2>2. Stored' = Stored
    BY <2>1 DEF Stored
  <2>3. \A d \in Drains : ReadOnce(d)'
    BY <1>2, <2>1, <2>2 DEF ReadOnce
  <2> QED
    BY <1>1, <1>2, <2>1, <2>2, <2>3 DEF OnceInv
<1>4. ASSUME NEW d \in Drains, ForwardFails(d) \/ DrainFails(d) PROVE FALSE
  BY <1>1, <1>4 DEF ForwardFails, DrainFails
<1>5. ASSUME NEW d \in Drains, Progress(d) PROVE OnceInv'
  <2>1. \A c \in Drains \ {d} : UNCHANGED <<pc[c], cursor[c], last[c], batch[c]>>
    BY <1>5, RunsApart
  <2>2. pc[d] # "idle" \/ pc'[d] # "idle"
    BY <1>5 DEF Progress, StartDrain, ReadNothing, ReadBatch, InsertBulk, DropOnly, FallBack, BulkFails,
       InsertSingle, Forward, Trim, SaveCursor, TypeOK
  <2>3. \A c \in Drains \ {d} : pc[c] = "idle" /\ pc'[c] = "idle"
    BY <1>1, <2>1, <2>2 DEF Overlap
  <2>4. pc[d] = "idle" => \A e \in Stored : e <= cursorKey
    BY <1>2, <2>3
  <2>5. /\ \A e \in Entry : copies'[e] <= 1
        /\ pc'[d] = "idle" => \A e \in Stored' : e <= cursorKey'
        /\ ReadOnce(d)'
    BY <1>1, <1>2, <1>5, <2>4, LonelyRun
  <2>6. \A c \in Drains \ {d} : ReadOnce(c)'
    BY <1>2, <2>1, <2>3 DEF ReadOnce
  <2> QED
    BY <1>1, <2>5, <2>6 DEF OnceInv
<1> QED
  BY <1>3, <1>4, <1>5 DEF Next

\* Without a fault and without runs that overlap drainDnsLog stores no entry twice:
\* batches of any size meet without a gap or an overlap, the inclusive bound of XTRIM
\* MINID and the exclusive one of XREAD included.
THEOREM StoredOnce == OverlapSpec => []ExactlyOnce
<1>1. OverlapInit => IInv /\ OnceInv
  BY InitIInv, OnceAtFirst DEF OverlapInit
<1>2. ASSUME IInv, OnceInv, [Next /\ overlapped' = (overlapped \/ Overlap')]_<<vars, overlapped>>
      PROVE  IInv' /\ OnceInv'
  <2>1. IInv' /\ TypeOK /\ TypeOK'
    <3>1. [Next]_vars
      BY <1>2
    <3> QED
      BY <1>2, <3>1, IInvStep DEF IInv
  <2>2. CASE Next /\ overlapped' = (overlapped \/ Overlap')
    BY <1>2, <2>1, <2>2, OnceKept
  <2>3. CASE UNCHANGED <<vars, overlapped>>
    <3>1. UNCHANGED <<pc, cursor, batch, last, cursorKey, copies, faults, overlapped>>
      BY <2>3 DEF vars, locals, tableVars
    <3>2. Stored' = Stored /\ (Overlap' <=> Overlap) /\ \A d \in Drains : ReadOnce(d) => ReadOnce(d)'
      BY <3>1 DEF Stored, Overlap, ReadOnce
    <3> QED
      BY <1>2, <2>1, <3>1, <3>2 DEF OnceInv
  <2> QED
    BY <1>2, <2>1, <2>2, <2>3
<1>3. OnceInv => ExactlyOnce
  BY DEF OnceInv, ExactlyOnce
<1> QED
  BY <1>1, <1>2, <1>3, PTL DEF OverlapSpec
=============================================================================
