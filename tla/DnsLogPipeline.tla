--------------------------- MODULE DnsLogPipeline ---------------------------
(***************************************************************************)
(* The DNS query log from the resolver to the dns_logs table:              *)
(*   resolver -> in-process ring (dns-engine/src/logger.js)                *)
(*            -> Redis stream classguard:dns-log                           *)
(*            -> drainDnsLog, one cron tick every 5 s                      *)
(*               (backend/src/services/scheduler.js)                       *)
(*            -> INSERT into dns_logs, or the primary's bulk route when    *)
(*               this node's Postgres is a read-only standby.              *)
(*                                                                         *)
(* Entries are numbered in the order the resolver produced them; XADD '*'  *)
(* keeps that order, so the number also stands for the stream id.          *)
(***************************************************************************)
EXTENDS Naturals, FiniteSets

CONSTANTS
  Drains,        \* runs of drainDnsLog that may be alive at the same time
  MaxEntry,      \* bound: entries logged
  RingSize,      \* RING_SIZE of logger.js
  FlushBatch,    \* DRAIN_BATCH of logger.js
  StreamMax,     \* STREAM_MAX of logger.js
  DrainBatch,    \* DRAIN_BATCH of scheduler.js
  MaxFaults      \* bound: crashes, Redis, network and database errors together

ASSUME PipelineAssumption ==
  /\ MaxEntry \in Nat /\ MaxFaults \in Nat
  /\ {RingSize, FlushBatch, StreamMax, DrainBatch} \subseteq Nat \ {0}

VARIABLES
  logged,      \* number of calls of logQuery
  malformed,   \* entries Postgres will reject (bad inet, bad uuid)
  ring,        \* logger.js ring buffer: its slots, NoEntry where one is empty
  ringHead,    \* slot the next entry goes to
  ringTail,    \* slot of the oldest entry
  ringCount,
  flushing,    \* items of the flushToRedis in progress (drainRunning = TRUE)
  stream,      \* entries in the Redis stream
  cursorKey,   \* classguard:dns-log:cursor
  pc,          \* where each run of drainDnsLog is, and its locals:
  cursor,      \*   everything up to it was dealt with by this or an earlier run
  batch,       \*   records still to insert
  last,        \*   id of the last entry read; 0 while total = 0
  full,        \*   entries.length = DRAIN_BATCH
  standby,     \* pg_is_in_recovery() of this node
  copies,      \* rows of dns_logs per entry
  lostRing, lostFlush, lostCap, lostInsert,   \* why an entry was given up
  faults

ringVars   == <<ring, ringHead, ringTail, ringCount>>
engineVars == <<logged, malformed, ringVars, flushing, lostRing, lostFlush, lostCap>>
locals     == <<cursor, batch, last, full>>
tableVars  == <<copies, lostInsert>>
vars       == <<engineVars, stream, cursorKey, pc, locals, standby, tableVars, faults>>

Entry   == 1 .. MaxEntry
NoEntry == 0
Slots   == 0 .. RingSize - 1

\* The slot i places after slot s.
Slot(s, i) == (s + i) % RingSize

\* What dequeueAll would take out of the ring: the ringCount slots from the tail on.
Queued == { ring[Slot(ringTail, i)] : i \in 0 .. ringCount - 1 }

\* Bound: MaxCopies rows of one entry stand for that many or more.
MaxCopies == 2

\* The oldest element of S, as a set with at most one element.
Oldest(S) == { e \in S : \A f \in S : e <= f }

\* The k oldest elements of S: one pass of the loop over items.slice(i, i + k).
FirstOf(S, k) == { e \in S : Cardinality({ f \in S : f <= e }) <= k }

\* The k newest elements of S: what MAXLEN k leaves.
LastOf(S, k) == { e \in S : Cardinality({ f \in S : f >= e }) <= k }

Stored == { e \in Entry : copies[e] > 0 }
Lost   == lostRing \cup lostFlush \cup lostCap \cup lostInsert

TypeOK ==
  /\ logged \in 0 .. MaxEntry
  /\ malformed \subseteq Entry
  /\ ring \in [Slots -> Entry \cup {NoEntry}]
  /\ ringHead \in Slots /\ ringTail \in Slots
  /\ ringCount \in 0 .. RingSize
  /\ flushing \subseteq Entry
  /\ stream \subseteq Entry
  /\ cursorKey \in 0 .. MaxEntry
  /\ pc \in [Drains -> {"idle", "read", "insert", "single", "trim", "save"}]
  /\ cursor \in [Drains -> 0 .. MaxEntry]
  /\ batch \in [Drains -> SUBSET Entry]
  /\ last \in [Drains -> 0 .. MaxEntry]
  /\ full \in [Drains -> BOOLEAN]
  /\ standby \in BOOLEAN
  /\ copies \in [Entry -> 0 .. MaxCopies]
  /\ Lost \subseteq Entry
  /\ faults \in 0 .. MaxFaults

EmptyRing == [s \in Slots |-> NoEntry]

Init ==
  /\ logged = 0 /\ malformed = {} /\ flushing = {}
  /\ ring = EmptyRing /\ ringHead = 0 /\ ringTail = 0 /\ ringCount = 0
  /\ stream = {} /\ cursorKey = 0
  /\ pc = [d \in Drains |-> "idle"]
  /\ cursor = [d \in Drains |-> 0]
  /\ batch = [d \in Drains |-> {}]
  /\ last = [d \in Drains |-> 0]
  /\ full = [d \in Drains |-> FALSE]
  /\ standby \in BOOLEAN
  /\ copies = [e \in Entry |-> 0]
  /\ lostRing = {} /\ lostFlush = {} /\ lostCap = {} /\ lostInsert = {}
  /\ faults = 0

Fault == faults < MaxFaults /\ faults' = faults + 1

-----------------------------------------------------------------------------
(* dns-engine/src/logger.js                                                *)

\* The rest of enqueue, once there is room: the entry goes to the head.
PutAtHead ==
  /\ ring' = [ring EXCEPT ![ringHead] = logged']
  /\ ringHead' = Slot(ringHead, 1)

\* Mutant: the ring counts as full one entry early.
NearlyFull == ringCount + 1 >= RingSize

Full == ringCount >= RingSize

\* logQuery: enqueue drops the oldest entry of a full ring by moving the tail
\* past it, and overwrites whatever is at the head.
Enqueue ==
  /\ logged < MaxEntry
  /\ logged' = logged + 1
  /\ malformed' \in { malformed, malformed \cup {logged'} }
  /\ IF Full
     THEN /\ ringTail' = Slot(ringTail, 1)
          /\ lostRing' = lostRing \cup {ring[ringTail]}
          /\ UNCHANGED ringCount
     ELSE /\ ringCount' = ringCount + 1
          /\ UNCHANGED <<ringTail, lostRing>>
  /\ PutAtHead
  /\ UNCHANGED <<flushing, stream, cursorKey, pc, locals, standby, tableVars,
                 lostFlush, lostCap, faults>>

\* dequeueAll: every slot from the tail to the head is emptied.
DequeueAll ==
  LET taken == { Slot(ringTail, i) : i \in 0 .. ringCount - 1 }
  IN /\ flushing' = Queued
     /\ ring' = [s \in Slots |-> IF s \in taken THEN NoEntry ELSE ring[s]]
     /\ ringTail' = Slot(ringTail, ringCount)
     /\ ringCount' = 0
     /\ UNCHANGED ringHead

\* Mutant: a flush waits for a full batch instead of the timer.
FlushStartWhenFull ==
  /\ flushing = {} /\ ringCount >= FlushBatch
  /\ DequeueAll
  /\ UNCHANGED <<logged, malformed, stream, cursorKey, pc, locals, standby,
                 tableVars, lostRing, lostFlush, lostCap, faults>>

\* flushToRedis takes everything out of the ring before the first await.
FlushStart ==
  /\ flushing = {} /\ ringCount > 0
  /\ DequeueAll
  /\ UNCHANGED <<logged, malformed, stream, cursorKey, pc, locals, standby,
                 tableVars, lostRing, lostFlush, lostCap, faults>>

\* XADD MAXLEN ~ : the cap is approximate, Redis may trim to it or not yet.
Append(S) ==
  \E capped \in { {}, (stream \cup S) \ LastOf(stream \cup S, StreamMax) } :
     /\ stream' = (stream \cup S) \ capped
     /\ lostCap' = lostCap \cup capped

FlushChunk ==
  /\ flushing # {}
  /\ Append(FirstOf(flushing, FlushBatch))
  /\ flushing' = flushing \ FirstOf(flushing, FlushBatch)
  /\ UNCHANGED <<logged, malformed, ringVars, cursorKey, pc, locals, standby, tableVars,
                 lostRing, lostFlush, faults>>

\* Redis goes away during a pipeline: some commands of the chunk were applied,
\* the others are forgotten, and the loop goes on with the next chunk or, if
\* exec() threw, ends in the empty catch with every item still to send.
FlushFail ==
  /\ flushing # {}
  /\ Fault
  /\ \E k \in 0 .. FlushBatch, rest \in { {}, flushing \ FirstOf(flushing, FlushBatch) } :
        /\ Append(FirstOf(flushing, k))
        /\ flushing' = rest
        /\ lostFlush' = lostFlush \cup ((flushing \ FirstOf(flushing, k)) \ rest)
  /\ UNCHANGED <<logged, malformed, ringVars, cursorKey, pc, locals, standby, tableVars, lostRing>>

\* The DNS engine restarts: the ring and the flush in progress were only in memory.
EngineRestart ==
  /\ Queued \cup flushing # {}
  /\ Fault
  /\ ring' = EmptyRing /\ ringHead' = 0 /\ ringTail' = 0 /\ ringCount' = 0
  /\ flushing' = {}
  /\ lostFlush' = lostFlush \cup Queued \cup flushing
  /\ UNCHANGED <<logged, malformed, stream, cursorKey, pc, locals, standby, tableVars,
                 lostRing, lostCap>>

-----------------------------------------------------------------------------
(* backend/src/services/scheduler.js: drainDnsLog                          *)

\* A run is over, by return or by throw: its locals are gone.
EndRun(d) ==
  /\ pc' = [pc EXCEPT ![d] = "idle"]
  /\ cursor' = [cursor EXCEPT ![d] = 0]
  /\ batch' = [batch EXCEPT ![d] = {}]
  /\ last' = [last EXCEPT ![d] = 0]
  /\ full' = [full EXCEPT ![d] = FALSE]

\* The cron tick. Nothing stops a tick while an earlier run is still going.
StartDrain(d) ==
  /\ pc[d] = "idle"
  /\ pc' = [pc EXCEPT ![d] = "read"]
  /\ cursor' = [cursor EXCEPT ![d] = cursorKey]
  /\ UNCHANGED <<engineVars, stream, cursorKey, batch, last, full, standby, tableVars, faults>>

\* Mutant: the cursor is read inclusively, as XRANGE would.
UnreadInclusive(c) == { e \in stream : e >= c }

Unread(c) == { e \in stream : e > c }

\* XREAD COUNT DrainBatch > cursor; an empty reply leaves the loop.
ReadNothing(d) ==
  /\ pc[d] = "read"
  /\ Unread(cursor[d]) = {}
  /\ pc' = [pc EXCEPT ![d] = "save"]
  /\ UNCHANGED <<engineVars, stream, cursorKey, locals, standby, tableVars, faults>>

ReadBatch(d) ==
  /\ pc[d] = "read"
  /\ \E l \in Unread(cursor[d]) :
        LET B == { e \in Unread(cursor[d]) : e <= l }
        IN /\ Cardinality(B) <= DrainBatch
           /\ Cardinality(B) = DrainBatch \/ B = Unread(cursor[d])
           /\ batch' = [batch EXCEPT ![d] = B]
           /\ last' = [last EXCEPT ![d] = l]
           /\ full' = [full EXCEPT ![d] = (Cardinality(B) = DrainBatch)]
  /\ pc' = [pc EXCEPT ![d] = "insert"]
  /\ UNCHANGED <<engineVars, stream, cursorKey, cursor, standby, tableVars, faults>>

AddCopies(S) ==
  [e \in Entry |-> IF e \in S /\ copies[e] < MaxCopies THEN copies[e] + 1 ELSE copies[e]]

\* await insertOrForwardDnsLogs(records) resolved.
Inserted(d) ==
  /\ pc' = [pc EXCEPT ![d] = "trim"]
  /\ cursor' = [cursor EXCEPT ![d] = last[d]]
  /\ batch' = [batch EXCEPT ![d] = {}]
  /\ UNCHANGED <<engineVars, stream, cursorKey, last, full, standby>>

\* insertDnsLogBatch, one unnest() statement for the whole batch.
InsertBulk(d) ==
  /\ pc[d] = "insert" /\ ~standby
  /\ batch[d] \cap malformed = {}
  /\ copies' = AddCopies(batch[d])
  /\ Inserted(d)
  /\ UNCHANGED <<lostInsert, faults>>

\* The statement fails, for a malformed record or because the database did
\* (it may even have committed before the connection broke).
BulkFails(d) ==
  /\ pc[d] = "insert" /\ ~standby
  /\ \/ batch[d] \cap malformed # {} /\ UNCHANGED <<copies, faults>>
     \/ Fault /\ copies' \in { copies, IF batch[d] \cap malformed = {}
                                       THEN AddCopies(batch[d]) ELSE copies }

\* A batch of one is dropped on the spot ...
DropOnly(d) ==
  /\ BulkFails(d)
  /\ Cardinality(batch[d]) = 1
  /\ lostInsert' = lostInsert \cup batch[d]
  /\ Inserted(d)

\* ... a longer one falls back to single inserts.
FallBack(d) ==
  /\ BulkFails(d)
  /\ Cardinality(batch[d]) # 1
  /\ pc' = [pc EXCEPT ![d] = "single"]
  /\ UNCHANGED <<engineVars, stream, cursorKey, locals, standby, lostInsert>>

\* One record of the fallback: stored, or dropped and logged as malformed
\* whatever the reason the INSERT failed.
InsertSingle(d) ==
  /\ pc[d] = "single"
  /\ \E e \in Oldest(batch[d]) :
        /\ \/ e \notin malformed /\ copies' = AddCopies({e}) /\ UNCHANGED <<lostInsert, faults>>
           \/ /\ IF e \in malformed THEN UNCHANGED faults ELSE Fault
              /\ lostInsert' = lostInsert \cup {e}
              /\ copies' \in { copies, AddCopies({e} \ malformed) }
        /\ IF batch[d] = {e}
           THEN Inserted(d)
           ELSE /\ batch' = [batch EXCEPT ![d] = @ \ {e}]
                /\ UNCHANGED <<engineVars, stream, cursorKey, pc, cursor, last, full, standby>>

\* What insertDnsLogBatch on the primary makes of a forwarded batch: every
\* record it can take is stored, the others are dropped there. Dropping a good
\* one needs a database error on the primary.
RemoteInsert(records) ==
  \E dropped \in SUBSET records :
     /\ records \cap malformed \subseteq dropped
     /\ dropped \subseteq malformed \/ faults < MaxFaults
     /\ faults' = IF dropped \subseteq malformed THEN faults ELSE faults + 1
     /\ copies' = AddCopies(records \ dropped)
     /\ lostInsert' = lostInsert \cup dropped

\* insertOrForwardDnsLogs on a standby: the primary answers within 8 s.
Forward(d) ==
  /\ pc[d] = "insert" /\ standby
  /\ RemoteInsert(batch[d])
  /\ Inserted(d)

\* Mutant: a failed request is caught and the run goes on as if it had succeeded.
ForwardFailsQuietly(d) ==
  /\ pc[d] = "insert" /\ standby
  /\ Fault
  /\ Inserted(d)
  /\ UNCHANGED tableVars

\* The request times out or fails: axios throws and the run ends without moving
\* the cursor, however far the primary got with the batch: one statement for all
\* of it, or one by one.
ForwardFails(d) ==
  /\ pc[d] = "insert" /\ standby
  /\ Fault
  /\ \E done \in SUBSET (batch[d] \ malformed) : copies' = AddCopies(done)
  /\ EndRun(d)
  /\ UNCHANGED <<engineVars, stream, cursorKey, standby, lostInsert>>

\* Mutant: the whole stream is dropped, not what lies before the cursor.
TrimAll(d) ==
  /\ pc[d] = "trim"
  /\ stream' = {}
  /\ pc' = [pc EXCEPT ![d] = IF full[d] THEN "read" ELSE "save"]
  /\ UNCHANGED <<engineVars, cursorKey, locals, standby, tableVars, faults>>

\* XTRIM MINID cursor, whose failure is ignored; a short batch ends the loop.
Trim(d) ==
  /\ pc[d] = "trim"
  /\ \/ stream' = { e \in stream : e >= cursor[d] } /\ UNCHANGED faults
     \/ Fault /\ UNCHANGED stream
  /\ pc' = [pc EXCEPT ![d] = IF full[d] THEN "read" ELSE "save"]
  /\ UNCHANGED <<engineVars, cursorKey, locals, standby, tableVars>>

\* Mutant: the id to read next is saved instead of the last one read.
SaveNextCursor(d) ==
  /\ pc[d] = "save"
  /\ cursorKey' = IF last[d] > 0 THEN cursor[d] + 1 ELSE cursorKey
  /\ EndRun(d)
  /\ UNCHANGED <<engineVars, stream, standby, tableVars, faults>>

\* `if (total > 0) redis.set(CURSOR_KEY, cursor)`
SaveCursor(d) ==
  /\ pc[d] = "save"
  /\ cursorKey' = IF last[d] > 0 THEN cursor[d] ELSE cursorKey
  /\ EndRun(d)
  /\ UNCHANGED <<engineVars, stream, standby, tableVars, faults>>

\* Redis or the pg_is_in_recovery query throws, or the API process restarts:
\* the run ends where it is, with its cursor unsaved.
DrainFails(d) ==
  /\ pc[d] # "idle"
  /\ Fault
  /\ EndRun(d)
  /\ UNCHANGED <<engineVars, stream, cursorKey, standby, tableVars>>

-----------------------------------------------------------------------------
Progress(d) ==
  \/ StartDrain(d) \/ ReadNothing(d) \/ ReadBatch(d)
  \/ InsertBulk(d) \/ DropOnly(d) \/ FallBack(d) \/ InsertSingle(d) \/ Forward(d)
  \/ Trim(d) \/ SaveCursor(d)

Next ==
  \/ Enqueue \/ FlushStart \/ FlushChunk \/ FlushFail \/ EngineRestart
  \/ \E d \in Drains : Progress(d) \/ ForwardFails(d) \/ DrainFails(d)

Spec == Init /\ [][Next]_vars

\* The 200 ms timer, the 5 s cron and the awaits of a run all keep going.
Fairness ==
  /\ WF_vars(FlushStart)
  /\ WF_vars(FlushChunk)
  /\ \A d \in Drains : WF_vars(Progress(d))

FairSpec == Spec /\ Fairness

-----------------------------------------------------------------------------
Settled == Stored \cup Lost

\* No entry logQuery accepted disappears silently. Until it is stored, or
\* given up for a reason the code decides on, it is still in the ring, in the
\* flush in progress or in the stream: a run that dies, a failed forward, an
\* XTRIM by an overlapping run never removes the last trace of it.
NothingVanishes ==
  \A e \in 1 .. logged :
     e \in Queued \cup flushing \cup stream \cup Settled

\* The persisted cursor of drainDnsLog never runs ahead of the table: whatever
\* overlapping runs save and in whatever order, every entry at or below it has
\* been stored or given up, so skipping it is safe.
CursorBehindTable == \A e \in 1 .. logged : e <= cursorKey => e \in Settled

\* scheduler.js on the one-at-a-time fallback of drainDnsLog: "every good record
\* still lands; only the actually-malformed one(s) get dropped".
OnlyMalformedDropped == lostInsert \subseteq malformed

\* Every logged entry is eventually stored or given up: the ring is flushed and
\* the drain always catches up again after a bounded number of faults.
EventuallySettled == \A e \in Entry : (logged >= e) ~> (e \in Settled)

\* The pipeline implements the durable log: as long as nothing fails an entry is
\* given up only if Postgres rejects it or if at least RING_SIZE, or STREAM_MAX,
\* entries were logged after it; a rejected entry is never stored; and nothing
\* stored or given up is taken back. Wherever head and tail of the ring are, and
\* however the flushes fall between two entries, no slot is given away too early.
Abstract == INSTANCE DurableLog WITH kept <- Stored, lost <- Lost, mishaps <- faults

ImplementsDurableLog == Abstract!Spec

=============================================================================
