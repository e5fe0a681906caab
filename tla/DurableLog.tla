----------------------------- MODULE DurableLog -----------------------------
(***************************************************************************)
(* What the query-log pipeline promises, without slots, batches, cursors   *)
(* or cron ticks: an entry that is logged stays pending until it is stored *)
(* or given up, and neither is ever taken back. While nothing fails, only  *)
(* two things cost an entry: Postgres does not take it, or so many newer   *)
(* ones came that a buffer of the promised size could not hold it.         *)
(***************************************************************************)
EXTENDS Naturals

CONSTANTS
  MaxEntry,    \* bound on the number of entries ever logged
  RingSize,    \* entries the process holds
  StreamMax    \* entries the stream holds

VARIABLES
  logged,      \* the entries 1..logged have been produced
  malformed,   \* the ones Postgres rejects
  kept,        \* entries in the table
  lost,        \* entries given up
  mishaps      \* crashes and failures of Redis, the network or the database

vars == <<logged, malformed, kept, lost, mishaps>>

Init ==
  /\ logged = 0
  /\ malformed = {}
  /\ kept = {}
  /\ lost = {}
  /\ mishaps = 0

\* At n entries logged, e has a ring or a stream full of newer ones after it.
Overrun(e, n) == e + RingSize <= n \/ e + StreamMax <= n

\* Making room for the new entry may cost the one it overruns.
Log ==
  /\ logged < MaxEntry
  /\ logged' = logged + 1
  /\ malformed' \in { malformed, malformed \cup {logged'} }
  /\ \E L \in SUBSET { e \in 1 .. logged : Overrun(e, logged') } : lost' = lost \cup L
  /\ UNCHANGED <<kept, mishaps>>

\* A late or repeated delivery may still store an entry that another path
\* gave up, so `kept` is not required to be disjoint from `lost`.
Store(K) ==
  /\ K \subseteq (1 .. logged) \ malformed
  /\ kept' = kept \cup K

Settle ==
  /\ \E K \in SUBSET (1 .. logged) : Store(K)
  /\ \E L \in SUBSET { e \in 1 .. logged : e \in malformed \/ Overrun(e, logged) } :
        lost' = lost \cup L
  /\ UNCHANGED <<logged, malformed, mishaps>>

\* Something fails, and that may cost any entry.
Mishap ==
  /\ mishaps' = mishaps + 1
  /\ \E K \in SUBSET (1 .. logged) : Store(K)
  /\ \E L \in SUBSET (1 .. logged) : lost' = lost \cup L
  /\ UNCHANGED <<logged, malformed>>

Next == Log \/ Settle \/ Mishap

Spec == Init /\ [][Next]_vars

=============================================================================
