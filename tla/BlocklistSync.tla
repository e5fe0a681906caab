---------------------------- MODULE BlocklistSync ----------------------------
(***************************************************************************)
(* Keeping a node's block lists in its Redis                               *)
(* (backend/src/services/blocklistSync.js, routes/blocklists.js and the    *)
(* two cron jobs of services/scheduler.js).                                *)
(*                                                                         *)
(* Each source has a set of its own and the DNS engine reads the union of  *)
(* the active ones, the master set. A sync fills a temporary key and       *)
(* renames it, then stores the union again. The nightly sync, the          *)
(* reconciliation every ten minutes and what admins start all run in one   *)
(* process and interleave at every await; nothing keeps two of them apart  *)
(* but that a reconciliation does not start while one runs.                *)
(*                                                                         *)
(* A set in Redis that has no member does not exist: {} is a missing key.  *)
(* External: Redis (one command is atomic), the sources' web servers.      *)
(***************************************************************************)
EXTENDS Naturals, FiniteSets

CONSTANTS
  Sources,
  Sites,
  Versions,     \* Versions[s]: the lists the source's URL serves over time
  Initially,    \* Initially[s]: the list it serves first
  InUse,        \* the sources that are active and synced at first
  nightly,      \* the task of syncAll
  reconcile,    \* the task of reconcileRedis
  Requests,     \* bound: the syncs and removals admins have under way at once
  NoSource,
  MaxEvents     \* bound: what admins do, lists that change, failures, restarts

ASSUME ListsAreSites == Versions \in [Sources -> SUBSET SUBSET Sites]
ASSUME FirstListIsAVersion == Initially \in [Sources -> SUBSET Sites]
                              /\ \A s \in Sources : Initially[s] \in Versions[s]
ASSUME NoSourceIsNone == NoSource \notin Sources
ASSUME TasksDiffer == nightly # reconcile /\ {nightly, reconcile} \cap Requests = {}
ASSUME EventsAreNat == MaxEvents \in Nat

Loops == {nightly, reconcile}
Tasks == Loops \cup Requests

VARIABLES
  status,      \* blocklist_sources: the row of a source
  feed,        \* the list the source's URL serves
  key,         \* classguard:blocklist:<id>
  tmp,         \* classguard:blocklist:<id>:tmp
  master,      \* classguard:blocklist
  task,        \* task[t]: where a run of blocklistSync.js is
  disturbed,   \* history: while a run was filling the source's temporary key, another
               \* run began to, or Redis lost its data
  steady,      \* history: the source has been active, and Redis kept its data, all along
  events

blocklistVars == <<status, feed, key, tmp, master, task, disturbed, steady, events>>

Resting == [step |-> "idle", source |-> NoSource, rest |-> {}, todo |-> {}, active |-> {}]
Storing == {"add", "rename", "drop", "dropTmp"}
Task == [step : {"idle", "next", "clear", "remove", "rebuild", "union"} \cup Storing,
         source : Sources \cup {NoSource}, rest : SUBSET Sites,
         todo : SUBSET Sources, active : SUBSET Sources]

\* The tables, the keys and the runs keep their shape.
BlocklistTypeOK ==
  /\ status \in [Sources -> {"absent", "inactive", "active", "deleted"}]
  /\ feed \in [Sources -> SUBSET Sites]
  /\ \A s \in Sources : feed[s] \in Versions[s]
  /\ key \in [Sources -> SUBSET Sites]
  /\ tmp \in [Sources -> SUBSET Sites]
  /\ master \subseteq Sites
  /\ task \in [Tasks -> Task]
  /\ disturbed \in [Sources -> BOOLEAN]
  /\ steady \in [Sources -> BOOLEAN]
  /\ events \in 0 .. MaxEvents

Active == {s \in Sources : status[s] = "active"}
Union(sources) == UNION {key[s] : s \in sources}

\* Some sources are in use and synced, the others are still to be added.
BlocklistInit ==
  /\ status = [s \in Sources |-> IF s \in InUse THEN "active" ELSE "absent"]
  /\ feed = Initially
  /\ key = [s \in Sources |-> IF status[s] = "active" THEN feed[s] ELSE {}]
  /\ tmp = [s \in Sources |-> {}]
  /\ master = Union(Active)
  /\ task = [t \in Tasks |-> Resting]
  /\ disturbed = [s \in Sources |-> FALSE]
  /\ steady = [s \in Sources |-> status[s] = "active"]
  /\ events = 0

Event == events < MaxEvents /\ events' = events + 1
Become(t, record) == task' = [task EXCEPT ![t] = record]

\* A source is synced, well or not, and a loop goes on to its next one; else the run
\* is over.
Finish(t) ==
  Become(t, IF t \in Loops /\ task[t].source # NoSource
            THEN [Resting EXCEPT !.step = "next", !.todo = task[t].todo]
            ELSE Resting)

-----------------------------------------------------------------------------
(* routes/blocklists.js                                                    *)

\* POST /blocklists: a new source is inactive.
AddSource(s) ==
  /\ status[s] = "absent"
  /\ status' = [status EXCEPT ![s] = "inactive"]
  /\ UNCHANGED <<feed, key, tmp, master, task, disturbed, steady, events>>

\* PUT /blocklists/:id with is_active: the row and nothing else.
SetActive(s, active) ==
  /\ Event /\ status[s] = IF active THEN "inactive" ELSE "active"
  /\ status' = [status EXCEPT ![s] = IF active THEN "active" ELSE "inactive"]
  /\ steady' = [steady EXCEPT ![s] = FALSE]
  /\ UNCHANGED <<feed, key, tmp, master, task, disturbed>>

\* DELETE /blocklists/:id: the row, then removeSource.
DeleteSource(t, s) ==
  /\ Event /\ task[t] = Resting /\ status[s] \in {"active", "inactive"}
  /\ status' = [status EXCEPT ![s] = "deleted"]
  /\ steady' = [steady EXCEPT ![s] = FALSE]
  /\ Become(t, [Resting EXCEPT !.step = "remove", !.source = s])
  /\ UNCHANGED <<feed, key, tmp, master, disturbed>>

\* removeSource drops the source's set and rebuilds the master set.
RemoveKey(t) ==
  /\ task[t].step = "remove"
  /\ key' = [key EXCEPT ![task[t].source] = {}]
  /\ Become(t, [task[t] EXCEPT !.step = "rebuild"])
  /\ UNCHANGED <<status, feed, tmp, master, disturbed, steady, events>>

\* syncSource reads the row and fetches the list.
Fetch(t, s, todo) ==
  Become(t, [Resting EXCEPT !.step = "clear", !.source = s, !.rest = feed[s], !.todo = todo])

\* POST /blocklists/:id/sync answers before the sync is over.
SyncNow(t, s) ==
  /\ Event /\ task[t] = Resting /\ status[s] \in {"active", "inactive"}
  /\ Fetch(t, s, {})
  /\ UNCHANGED <<status, feed, key, tmp, master, disturbed, steady>>

-----------------------------------------------------------------------------
(* The two loops.                                                          *)

\* syncAll or reconcileRedis begins: the active sources of now.
StartLoop(t) ==
  /\ task[t] = Resting
  /\ Become(t, [Resting EXCEPT !.step = "next", !.todo = Active])
  /\ UNCHANGED <<status, feed, key, tmp, master, disturbed, steady, events>>

\* The next source: reconcileRedis passes over one whose set exists, and
\* syncSource throws when the row is gone.
NextSource(t, s) ==
  /\ task[t].step = "next" /\ s \in task[t].todo
  /\ IF (t = reconcile /\ key[s] # {}) \/ status[s] = "deleted"
     THEN Become(t, [task[t] EXCEPT !.todo = @ \ {s}])
     ELSE Fetch(t, s, task[t].todo \ {s})
  /\ UNCHANGED <<status, feed, key, tmp, master, disturbed, steady, events>>

\* Mutant: reconcileRedis ends without rebuilding the master set.
LoopEndsOnly(t) ==
  /\ task[t].step = "next" /\ task[t].todo = {}
  /\ Become(t, Resting)
  /\ UNCHANGED <<status, feed, key, tmp, master, disturbed, steady, events>>

\* No source is left: reconcileRedis rebuilds the master set, syncAll does not.
LoopEnds(t) ==
  /\ task[t].step = "next" /\ task[t].todo = {}
  /\ Become(t, IF t = reconcile THEN [Resting EXCEPT !.step = "rebuild"] ELSE Resting)
  /\ UNCHANGED <<status, feed, key, tmp, master, disturbed, steady, events>>

-----------------------------------------------------------------------------
(* storeInRedis                                                            *)

Filling(s) == {t \in Tasks : task[t].source = s /\ task[t].step \in Storing}

\* DEL tmp
ClearTmp(t) ==
  LET s == task[t].source
  IN /\ task[t].step = "clear"
     /\ tmp' = [tmp EXCEPT ![s] = {}]
     /\ disturbed' = [disturbed EXCEPT ![s] = @ \/ Filling(s) # {}]
     /\ Become(t, [task[t] EXCEPT !.step = IF task[t].rest = {} THEN "drop" ELSE "add"])
     /\ UNCHANGED <<status, feed, key, master, steady, events>>

\* Mutant: the batches go to the source's set itself.
AddBatchInPlace(t, d) ==
  LET s == task[t].source
  IN /\ task[t].step = "add" /\ d \in task[t].rest
     /\ tmp' = [tmp EXCEPT ![s] = @ \cup {d}]
     /\ key' = [key EXCEPT ![s] = tmp'[s]]
     /\ Become(t, [task[t] EXCEPT !.rest = @ \ {d},
                                  !.step = IF task[t].rest = {d} THEN "rename" ELSE "add"])
     /\ UNCHANGED <<status, feed, master, disturbed, steady, events>>

\* SADD tmp: a batch, here of one site.
AddBatch(t, d) ==
  LET s == task[t].source
  IN /\ task[t].step = "add" /\ d \in task[t].rest
     /\ tmp' = [tmp EXCEPT ![s] = @ \cup {d}]
     /\ Become(t, [task[t] EXCEPT !.rest = @ \ {d},
                                  !.step = IF task[t].rest = {d} THEN "rename" ELSE "add"])
     /\ UNCHANGED <<status, feed, key, master, disturbed, steady, events>>

\* RENAME tmp key. (The UPDATE of the statistics that follows changes nothing here.)
Rename(t) ==
  LET s == task[t].source
  IN /\ task[t].step = "rename" /\ tmp[s] # {}
     /\ key' = [key EXCEPT ![s] = tmp[s]]
     /\ tmp' = [tmp EXCEPT ![s] = {}]
     /\ Become(t, [task[t] EXCEPT !.step = "rebuild"])
     /\ UNCHANGED <<status, feed, master, disturbed, steady, events>>

\* Another run has renamed the temporary key: no such key.
RenameFails(t) ==
  /\ task[t].step = "rename" /\ tmp[task[t].source] = {}
  /\ Finish(t)
  /\ UNCHANGED <<status, feed, key, tmp, master, disturbed, steady, events>>

\* An empty list: DEL key, then DEL tmp.
DropKey(t) ==
  /\ task[t].step = "drop"
  /\ key' = [key EXCEPT ![task[t].source] = {}]
  /\ Become(t, [task[t] EXCEPT !.step = "dropTmp"])
  /\ UNCHANGED <<status, feed, tmp, master, disturbed, steady, events>>

DropTmp(t) ==
  /\ task[t].step = "dropTmp"
  /\ tmp' = [tmp EXCEPT ![task[t].source] = {}]
  /\ Become(t, [task[t] EXCEPT !.step = "rebuild"])
  /\ UNCHANGED <<status, feed, key, master, disturbed, steady, events>>

-----------------------------------------------------------------------------
(* rebuildMasterList                                                       *)

ReadActive(t) ==
  /\ task[t].step = "rebuild"
  /\ Become(t, [task[t] EXCEPT !.step = "union", !.active = Active])
  /\ UNCHANGED <<status, feed, key, tmp, master, disturbed, steady, events>>

\* Mutant: only the source that was synced goes into the master set.
StoreOwnOnly(t) ==
  /\ task[t].step = "union"
  /\ master' = Union(IF task[t].source = NoSource THEN task[t].active ELSE {task[t].source})
  /\ Finish(t)
  /\ UNCHANGED <<status, feed, key, tmp, disturbed, steady, events>>

\* Mutant: the names of the sources' keys are stored, not what is in them.
StoreNames(t) ==
  /\ task[t].step = "union"
  /\ master' = task[t].active
  /\ Finish(t)
  /\ UNCHANGED <<status, feed, key, tmp, disturbed, steady, events>>

\* SUNIONSTORE of the sets of the sources read before, or DEL without any.
StoreUnion(t) ==
  /\ task[t].step = "union"
  /\ master' = Union(task[t].active)
  /\ Finish(t)
  /\ UNCHANGED <<status, feed, key, tmp, disturbed, steady, events>>

-----------------------------------------------------------------------------
(* The world.                                                              *)

FeedChanges(s) ==
  /\ Event
  /\ \E list \in Versions[s] \ {feed[s]} : feed' = [feed EXCEPT ![s] = list]
  /\ UNCHANGED <<status, key, tmp, master, task, disturbed, steady>>

\* The fetch, a statement or a Redis command fails. The loops catch what syncSource
\* throws; a SELECT, an EXISTS or the last rebuild of their own ends them.
Fails(t) ==
  /\ Event /\ task[t] # Resting
  /\ Finish(t)
  /\ UNCHANGED <<status, feed, key, tmp, master, disturbed, steady>>

ProcessRestarts ==
  /\ Event
  /\ task' = [t \in Tasks |-> Resting]
  /\ UNCHANGED <<status, feed, key, tmp, master, disturbed, steady>>

\* Redis comes back without its data, as on a standby that was just installed.
RedisLosesData ==
  /\ Event
  /\ key' = [s \in Sources |-> {}]
  /\ tmp' = [s \in Sources |-> {}]
  /\ master' = {}
  /\ steady' = [s \in Sources |-> FALSE]
  /\ disturbed' = [s \in Sources |-> disturbed[s] \/ Filling(s) # {}]
  /\ UNCHANGED <<status, feed, task>>

TaskStep(t) ==
  \/ \E s \in Sources : NextSource(t, s)
  \/ LoopEnds(t) \/ RemoveKey(t) \/ ClearTmp(t)
  \/ \E d \in Sites : AddBatch(t, d)
  \/ Rename(t) \/ RenameFails(t) \/ DropKey(t) \/ DropTmp(t)
  \/ ReadActive(t) \/ StoreUnion(t)

BlocklistNext ==
  \/ \E s \in Sources : \/ AddSource(s) \/ FeedChanges(s)
                        \/ \E active \in BOOLEAN : SetActive(s, active)
                        \/ \E t \in Requests : DeleteSource(t, s) \/ SyncNow(t, s)
  \/ \E t \in Loops : StartLoop(t)
  \/ \E t \in Tasks : TaskStep(t) \/ Fails(t)
  \/ ProcessRestarts \/ RedisLosesData

BlocklistSpec == BlocklistInit /\ [][BlocklistNext]_blocklistVars

\* Node runs the continuation of every await, and cron starts the loops again and
\* again. A run that renames is not overtaken for ever in the instant between its
\* last SADD and its RENAME: the other loop starts at other times of the day.
LoopStep(t) == TaskStep(t) \/ (t \in Loops /\ StartLoop(t))
BlocklistFairness ==
  /\ \A t \in Tasks : WF_blocklistVars(LoopStep(t))
  /\ \A t \in Loops : SF_blocklistVars(Rename(t))

-----------------------------------------------------------------------------
(* What must hold.                                                         *)

\* "Atomic replace using a temp key": a source's set is a list its URL served, never
\* a part of one or two mixed, unless a run was disturbed while it filled the
\* temporary key.
ListIsWhole ==
  \A s \in Sources : ~disturbed[s] /\ key[s] # {} => key[s] \in Versions[s]

\* A site that every list of a source names stays blocked at every instant while the
\* source is active, through every sync, rebuild, failure and restart, of this source
\* or of another, unless a run was disturbed while it filled the temporary key.
StaysBlocked ==
  \A s \in Sources : steady[s] /\ ~disturbed[s] =>
    \A d \in Sites : (\A list \in Versions[s] : d \in list) => d \in master

\* Once admins, lists and failures leave it alone, a node blocks exactly what the
\* active sources list: whatever the runs mixed up is repaired by the two loops.
ListsSettle ==
  <>[](/\ \A s \in Active : key[s] = feed[s]
       /\ master = Union(Active))

\* The comment on storeInRedis, without the exception.
AlwaysWhole == \A s \in Sources : key[s] # {} => key[s] \in Versions[s]
=============================================================================
