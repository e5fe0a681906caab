---------------------------- MODULE NodeJobsProofs ----------------------------
(***************************************************************************)
(* The block lists and the scheduled updates of a node, for any sources,   *)
(* lists, nodes, plans and number of syncs and mishaps.                    *)
(***************************************************************************)
EXTENDS MCNodeJobs, TLAPS

-----------------------------------------------------------------------------
(* Block lists: a source's set is a whole list and what it always lists    *)
(* stays blocked.                                                          *)
(*                                                                         *)
(* Why a RENAME puts a whole list in place was settled several steps       *)
(* before: the temporary key and what the run has still to add make up the *)
(* list it fetched, as long as nobody else fills that key; and the union   *)
(* a run stores is of sources it read before, the steady ones among them.  *)

\* What run t has under way, if nobody disturbs it.
TaskInv(t) ==
  /\ task[t].step \in Storing \cup {"clear", "remove"} => task[t].source \in Sources
  /\ task[t].step = "clear" => task[t].rest \in Versions[task[t].source]
  /\ task[t].step = "remove" => status[task[t].source] = "deleted"
  /\ task[t].step = "union" => \A s \in Sources : steady[s] => s \in task[t].active
  /\ task[t].step \in Storing /\ ~disturbed[task[t].source] =>
       /\ task[t].step = "add" => tmp[task[t].source] \cup task[t].rest \in Versions[task[t].source]
       /\ task[t].step = "rename" => tmp[task[t].source] \in Versions[task[t].source]
       /\ task[t].step = "drop" => {} \in Versions[task[t].source]

\* Some sites are in every list of s.
AlwaysListed(s) == {d \in Sites : \A list \in Versions[s] : d \in list}

OneFills(s) == \A t, u \in Filling(s) : t = u

SourceInv(s) ==
  /\ steady[s] => status[s] = "active"
  /\ ~disturbed[s] =>
       /\ OneFills(s)
       /\ key[s] # {} => key[s] \in Versions[s]
       /\ steady[s] => key[s] \in Versions[s] /\ AlwaysListed(s) \subseteq master

BlocklistInv ==
  /\ BlocklistTypeOK
  /\ \A t \in Tasks : TaskInv(t)
  /\ \A s \in Sources : SourceInv(s)

-----------------------------------------------------------------------------
\* The records a run goes through.
LEMMA TaskRecords ==
  /\ Resting \in Task /\ Resting.step = "idle"
  /\ \A r \in Task :
       /\ \A step \in {"rebuild", "dropTmp", "rename", "add", "drop"} : [r EXCEPT !.step = step] \in Task
       /\ \A todo \in SUBSET Sources : [r EXCEPT !.todo = todo] \in Task
       /\ \A active \in SUBSET Sources : [r EXCEPT !.step = "union", !.active = active] \in Task
       /\ \A rest \in SUBSET Sites : /\ [r EXCEPT !.rest = rest, !.step = "rename"] \in Task
                                     /\ [r EXCEPT !.rest = rest, !.step = "add"] \in Task
<1>1. Resting \in Task /\ Resting.step = "idle"
  BY DEF Resting, Task, Storing
<1>2. ASSUME NEW r \in Task, NEW step \in {"rebuild", "dropTmp", "rename", "add", "drop"}
      PROVE  [r EXCEPT !.step = step] \in Task
  BY DEF Task, Storing
<1>3. ASSUME NEW r \in Task, NEW todo \in SUBSET Sources PROVE [r EXCEPT !.todo = todo] \in Task
  BY DEF Task
<1>4. ASSUME NEW r \in Task, NEW active \in SUBSET Sources
      PROVE  [r EXCEPT !.step = "union", !.active = active] \in Task
  BY DEF Task
<1>5. ASSUME NEW r \in Task, NEW rest \in SUBSET Sites
      PROVE  [r EXCEPT !.rest = rest, !.step = "rename"] \in Task /\ [r EXCEPT !.rest = rest, !.step = "add"] \in Task
  BY DEF Task, Storing
<1> QED
  BY <1>1, <1>2, <1>3, <1>4, <1>5

\* Where a sync goes when it is over.
LEMMA AfterFinish ==
  ASSUME BlocklistTypeOK, NEW t \in Tasks, Finish(t)
  PROVE  \E r \in Task : Become(t, r) /\ r.step \in {"idle", "next"}
<1>1. task[t].todo \in SUBSET Sources
  BY DEF BlocklistTypeOK, Task
<1>2. [Resting EXCEPT !.step = "next", !.todo = task[t].todo] \in Task
  BY <1>1 DEF Resting, Task
<1>3. [Resting EXCEPT !.step = "next", !.todo = task[t].todo].step = "next"
  BY DEF Resting
<1> QED
  BY <1>2, <1>3, TaskRecords DEF Finish

LEMMA EventType == ASSUME BlocklistTypeOK, Event PROVE events' \in 0 .. MaxEvents
BY EventsAreNat DEF BlocklistTypeOK, Event

\* Fetching s leaves the run with a list that the URL served.
LEMMA Fetched ==
  ASSUME BlocklistTypeOK, NEW t \in Tasks, NEW s \in Sources, NEW todo \in SUBSET Sources, Fetch(t, s, todo)
  PROVE  \E r \in Task : Become(t, r) /\ r.step = "clear" /\ r.source = s /\ r.rest \in Versions[s]
<1> DEFINE r == [Resting EXCEPT !.step = "clear", !.source = s, !.rest = feed[s], !.todo = todo]
<1>1. feed[s] \in Versions[s] /\ feed[s] \in SUBSET Sites
  BY DEF BlocklistTypeOK
<1>2. r \in Task /\ r.step = "clear" /\ r.source = s /\ r.rest = feed[s]
  BY <1>1 DEF Resting, Task
<1> QED
  BY <1>1, <1>2 DEF Fetch

LEMMA BlocklistInitEstablishes == BlocklistInit => BlocklistInv
<1> SUFFICES ASSUME BlocklistInit PROVE BlocklistInv
  OBVIOUS
<1>1. /\ feed \in [Sources -> SUBSET Sites]
      /\ \A s \in Sources : feed[s] \in Versions[s] /\ feed[s] \in SUBSET Sites
  BY FirstListIsAVersion DEF BlocklistInit
<1>2. \A s \in Sources : key[s] = IF status[s] = "active" THEN feed[s] ELSE {}
  BY DEF BlocklistInit
<1>3. key \in [Sources -> SUBSET Sites]
  BY <1>1 DEF BlocklistInit
<1>4. master = UNION {key[s] : s \in Active} /\ Active \subseteq Sources
  BY DEF BlocklistInit, Union, Active
<1>5. master \subseteq Sites
  BY <1>3, <1>4
<1>6. BlocklistTypeOK
  <2>1. task \in [Tasks -> Task]
    BY TaskRecords DEF BlocklistInit
  <2>2. events \in 0 .. MaxEvents
    BY EventsAreNat DEF BlocklistInit
  <2>3. steady \in [Sources -> BOOLEAN] /\ disturbed \in [Sources -> BOOLEAN]
    BY DEF BlocklistInit
  <2>4. status \in [Sources -> {"absent", "inactive", "active", "deleted"}] /\ tmp \in [Sources -> SUBSET Sites]
    BY DEF BlocklistInit
  <2> QED
    BY <1>1, <1>3, <1>5, <2>1, <2>2, <2>3, <2>4 DEF BlocklistTypeOK
<1>7. \A t \in Tasks : task[t].step = "idle"
  BY TaskRecords DEF BlocklistInit
<1>8. \A t \in Tasks : TaskInv(t)
  BY <1>7 DEF TaskInv, Storing
<1>9. ASSUME NEW s \in Sources PROVE SourceInv(s)
  <2>1. steady[s] => status[s] = "active"
    BY DEF BlocklistInit
  <2>2. OneFills(s)
    BY <1>7 DEF OneFills, Filling, Storing
  <2>3. steady[s] => AlwaysListed(s) \subseteq master
    BY <1>1, <1>2, <1>4, <2>1 DEF AlwaysListed, Active
  <2> QED
    BY <1>1, <1>2, <2>1, <2>2, <2>3 DEF SourceInv
<1> QED
  BY <1>6, <1>8, <1>9 DEF BlocklistInv

-----------------------------------------------------------------------------
(* What one run may change without harm.                                   *)

\* A run that fills nothing next: the others, and what they fill, stay as they are.
LEMMA LeavingKeeps ==
  ASSUME BlocklistInv, NEW t \in Tasks, NEW r \in Task, Become(t, r),
         UNCHANGED <<status, feed, tmp, disturbed, steady>>, events' \in 0 .. MaxEvents,
         r.step \notin Storing \cup {"remove"},
         r.step = "clear" => r.source \in Sources /\ r.rest \in Versions[r.source],
         r.step = "union" => r.active = Active,
         key' \in [Sources -> SUBSET Sites],
         \A s \in Sources : key'[s] = key[s] \/ (key'[s] = {} /\ ~steady[s]),
         master' \in SUBSET Sites,
         \A s \in Sources : steady[s] /\ ~disturbed[s] => AlwaysListed(s) \subseteq master'
  PROVE  BlocklistInv'
<1>1. BlocklistTypeOK
  BY DEF BlocklistInv
<1>2. task' \in [Tasks -> Task] /\ task'[t] = r /\ \A u \in Tasks \ {t} : task'[u] = task[u]
  BY <1>1 DEF Become, BlocklistTypeOK
<1>3. BlocklistTypeOK'
  BY <1>1, <1>2 DEF BlocklistTypeOK
<1>4. TaskInv(t)'
  <2>1. \A s \in Sources : steady[s] => s \in Active
    BY DEF BlocklistInv, SourceInv, Active
  <2> QED
    BY <1>2, <2>1 DEF TaskInv
<1>5. ASSUME NEW u \in Tasks \ {t} PROVE TaskInv(u)'
  <2>1. TaskInv(u) /\ task'[u] = task[u]
    BY <1>2 DEF BlocklistInv
  <2> QED
    BY <2>1 DEF TaskInv
<1>6. ASSUME NEW s \in Sources PROVE SourceInv(s)'
  <2>1. SourceInv(s)
    BY DEF BlocklistInv
  <2>2. Filling(s)' \subseteq Filling(s)
    BY <1>2 DEF Filling
  <2>3. OneFills(s) => OneFills(s)'
    BY <2>2 DEF OneFills
  <2>4. AlwaysListed(s)' = AlwaysListed(s)
    BY DEF AlwaysListed
  <2> QED
    BY <2>1, <2>3, <2>4 DEF SourceInv
<1> QED
  BY <1>3, <1>4, <1>5, <1>6 DEF BlocklistInv

\* A run that fills the set of s goes on, and whoever else does was disturbed.
LEMMA FillingKeeps ==
  ASSUME BlocklistInv, NEW t \in Tasks, NEW s \in Sources, NEW r \in Task, Become(t, r),
         UNCHANGED <<status, feed, master, steady, events>>,
         task[t].source = s, r.source = s,
         r.step \in Storing \cup {"rebuild"},
         key' \in [Sources -> SUBSET Sites], tmp' \in [Sources -> SUBSET Sites],
         disturbed' \in [Sources -> BOOLEAN],
         \A o \in Sources \ {s} : key'[o] = key[o] /\ tmp'[o] = tmp[o] /\ disturbed'[o] = disturbed[o],
         disturbed[s] => disturbed'[s],
         ~disturbed'[s] => /\ Filling(s) \subseteq {t}
                           /\ r.step = "add" => tmp'[s] \cup r.rest \in Versions[s]
                           /\ r.step = "rename" => tmp'[s] \in Versions[s]
                           /\ r.step = "drop" => {} \in Versions[s]
                           /\ key'[s] = key[s] \/ key'[s] \in Versions[s]
  PROVE  BlocklistInv'
<1>1. BlocklistTypeOK
  BY DEF BlocklistInv
<1>2. task' \in [Tasks -> Task] /\ task'[t] = r /\ \A u \in Tasks \ {t} : task'[u] = task[u]
  BY <1>1 DEF Become, BlocklistTypeOK
<1>3. BlocklistTypeOK'
  BY <1>1, <1>2 DEF BlocklistTypeOK
<1>4. TaskInv(t)'
  BY <1>2 DEF TaskInv, Storing
<1>5. ASSUME NEW u \in Tasks \ {t} PROVE TaskInv(u)'
  <2>1. TaskInv(u) /\ task'[u] = task[u]
    BY <1>2 DEF BlocklistInv
  <2>2. CASE task[u].source = s
    <3>1. task[u].step \in Storing => disturbed'[s]
      BY <2>2 DEF Filling
    <3> QED
      BY <2>1, <2>2, <3>1 DEF TaskInv, Storing
  <2>3. CASE task[u].source # s
    <3>1. task[u].source \in Sources \ {s} =>
            tmp'[task[u].source] = tmp[task[u].source] /\ disturbed'[task[u].source] = disturbed[task[u].source]
      OBVIOUS
    <3> QED
      BY <2>1, <2>3, <3>1 DEF TaskInv
  <2> QED
    BY <2>2, <2>3
<1>6. ASSUME NEW o \in Sources PROVE SourceInv(o)'
  <2>1. SourceInv(o) /\ AlwaysListed(o)' = AlwaysListed(o)
    BY DEF BlocklistInv, AlwaysListed
  <2>2. CASE o = s
    <3>1. ~disturbed'[s] => OneFills(s)'
      <4>1. ~disturbed'[s] => Filling(s)' \subseteq {t}
        BY <1>2 DEF Filling
      <4> QED
        BY <4>1 DEF OneFills
    <3> QED
      BY <2>1, <2>2, <3>1 DEF SourceInv
  <2>3. CASE o # s
    <3>1. Filling(o)' \subseteq Filling(o)
      BY <1>2, <2>3 DEF Filling
    <3>2. OneFills(o) => OneFills(o)'
      BY <3>1 DEF OneFills
    <3> QED
      BY <2>1, <2>3, <3>2 DEF SourceInv
  <2> QED
    BY <2>2, <2>3
<1> QED
  BY <1>3, <1>4, <1>5, <1>6 DEF BlocklistInv

-----------------------------------------------------------------------------
(* The steps of a run.                                                     *)

\* A source's list is in the union of any sources it is one of.
LEMMA UnionHolds ==
  ASSUME BlocklistInv, NEW sources \in SUBSET Sources
  PROVE  /\ Union(sources) \in SUBSET Sites
         /\ \A s \in sources : steady[s] /\ ~disturbed[s] => AlwaysListed(s) \subseteq Union(sources)
<1>1. \A s \in Sources : key[s] \in SUBSET Sites
  BY DEF BlocklistInv, BlocklistTypeOK
<1>2. ASSUME NEW s \in sources, steady[s], ~disturbed[s], NEW d \in AlwaysListed(s)
      PROVE  d \in Union(sources)
  <2>1. key[s] \in Versions[s]
    BY <1>2 DEF BlocklistInv, SourceInv
  <2>2. d \in key[s]
    BY <1>2, <2>1 DEF AlwaysListed
  <2> QED
    BY <1>2, <2>2 DEF Union
<1> QED
  BY <1>1, <1>2 DEF Union

\* What LeavingKeeps asks of the keys of a run that changes none.
LEMMA NothingStored ==
  ASSUME BlocklistInv, key' = key, master' = master
  PROVE  /\ key' \in [Sources -> SUBSET Sites] /\ master' \in SUBSET Sites
         /\ \A s \in Sources : key'[s] = key[s]
         /\ \A s \in Sources : steady[s] /\ ~disturbed[s] => AlwaysListed(s) \subseteq master'
BY DEF BlocklistInv, BlocklistTypeOK, SourceInv

LEMMA LoopStepsKeep ==
  ASSUME BlocklistInv, NEW t \in Tasks,
         \/ t \in Loops /\ StartLoop(t)
         \/ \E s \in Sources : NextSource(t, s) \/ (t \in Requests /\ SyncNow(t, s))
         \/ LoopEnds(t) \/ RenameFails(t) \/ Fails(t)
  PROVE  BlocklistInv'
<1>1. BlocklistTypeOK /\ task[t] \in Task /\ Resting \in Task /\ task[t].todo \in SUBSET Sources
  BY TaskRecords DEF BlocklistInv, BlocklistTypeOK, Task
<1>2. UNCHANGED <<status, feed, key, tmp, master, disturbed, steady>> /\ events' \in 0 .. MaxEvents
  BY <1>1, EventType DEF StartLoop, NextSource, SyncNow, LoopEnds, RenameFails, Fails, BlocklistTypeOK
<1>3. \E r \in Task : /\ Become(t, r) /\ r.step \in {"idle", "next", "rebuild", "clear"}
                      /\ r.step = "clear" => r.source \in Sources /\ r.rest \in Versions[r.source]
  <2>1. CASE StartLoop(t)
    <3>1. [Resting EXCEPT !.step = "next", !.todo = Active] \in Task
      BY DEF Resting, Task, Active
    <3>2. [Resting EXCEPT !.step = "next", !.todo = Active].step = "next"
      BY DEF Resting
    <3> QED
      BY <2>1, <3>1, <3>2 DEF StartLoop
  <2>2. ASSUME NEW s \in Sources, NextSource(t, s)
        PROVE  \E r \in Task : /\ Become(t, r) /\ r.step \in {"idle", "next", "rebuild", "clear"}
                               /\ r.step = "clear" => r.source \in Sources /\ r.rest \in Versions[r.source]
    <3>1. (task[t].todo \ {s}) \in SUBSET Sources
      BY <1>1
    <3>2. [task[t] EXCEPT !.todo = task[t].todo \ {s}] \in Task
      BY <1>1, <3>1, TaskRecords
    <3>3. [task[t] EXCEPT !.todo = task[t].todo \ {s}].step = "next"
      BY <1>1, <2>2 DEF NextSource, Task
    <3>4. CASE Fetch(t, s, task[t].todo \ {s})
      BY <1>1, <3>1, <3>4, Fetched
    <3> QED
      BY <2>2, <3>2, <3>3, <3>4 DEF NextSource
  <2>3. ASSUME NEW s \in Sources, SyncNow(t, s)
        PROVE  \E r \in Task : /\ Become(t, r) /\ r.step \in {"idle", "next", "rebuild", "clear"}
                               /\ r.step = "clear" => r.source \in Sources /\ r.rest \in Versions[r.source]
    BY <1>1, <2>3, Fetched DEF SyncNow
  <2>4. CASE LoopEnds(t)
    <3>1. [Resting EXCEPT !.step = "rebuild"] \in Task
      BY <1>1, TaskRecords
    <3>2. [Resting EXCEPT !.step = "rebuild"].step = "rebuild"
      BY DEF Resting
    <3> QED
      BY <2>4, <1>1, <3>1, <3>2, TaskRecords DEF LoopEnds
  <2>5. CASE RenameFails(t) \/ Fails(t)
    BY <1>1, <2>5, AfterFinish DEF RenameFails, Fails
  <2> QED
    BY <2>1, <2>2, <2>3, <2>4, <2>5
<1>4. PICK r \in Task : /\ Become(t, r) /\ r.step \in {"idle", "next", "rebuild", "clear"}
                        /\ r.step = "clear" => r.source \in Sources /\ r.rest \in Versions[r.source]
  BY <1>3
<1>5. r.step \notin Storing \cup {"remove"} /\ r.step # "union"
  BY <1>4 DEF Storing
<1> QED
  BY <1>2, <1>4, <1>5, NothingStored, LeavingKeeps

\* The sources of the union are those active when they are read.
LEMMA ReadActiveKeeps == ASSUME BlocklistInv, NEW t \in Tasks, ReadActive(t) PROVE BlocklistInv'
<1> DEFINE r == [task[t] EXCEPT !.step = "union", !.active = Active]
<1>1. task[t] \in Task /\ Active \in SUBSET Sources /\ events' \in 0 .. MaxEvents
  BY DEF BlocklistInv, BlocklistTypeOK, Active, ReadActive
<1>2. r \in Task
  BY <1>1, TaskRecords
<1>3. r.step = "union" /\ r.active = Active
  BY <1>1 DEF Task
<1>4. Become(t, r) /\ UNCHANGED <<status, feed, key, tmp, master, disturbed, steady>>
  BY DEF ReadActive
<1>5. r.step \notin Storing \cup {"remove", "clear"}
  BY <1>3 DEF Storing
<1> HIDE DEF r
<1> QED
  BY <1>1, <1>2, <1>3, <1>4, <1>5, NothingStored, LeavingKeeps

\* The union of what was read holds every steady source.
LEMMA StoreUnionKeeps == ASSUME BlocklistInv, NEW t \in Tasks, StoreUnion(t) PROVE BlocklistInv'
<1>1. BlocklistTypeOK /\ task[t] \in Task /\ task[t].active \in SUBSET Sources /\ task[t].step = "union"
  BY DEF BlocklistInv, BlocklistTypeOK, Task, StoreUnion
<1>2. \A s \in Sources : steady[s] => s \in task[t].active
  BY <1>1 DEF BlocklistInv, TaskInv
<1>3. master' = Union(task[t].active) /\ UNCHANGED <<status, feed, key, tmp, disturbed, steady, events>>
  BY DEF StoreUnion
<1>4. /\ master' \in SUBSET Sites
      /\ \A s \in Sources : steady[s] /\ ~disturbed[s] => AlwaysListed(s) \subseteq master'
  BY <1>1, <1>2, <1>3, UnionHolds
<1>5. PICK r \in Task : Become(t, r) /\ r.step \in {"idle", "next"}
  BY <1>1, AfterFinish, TaskRecords DEF StoreUnion
<1>6. key' \in [Sources -> SUBSET Sites] /\ events' \in 0 .. MaxEvents
  BY <1>1, <1>3 DEF BlocklistTypeOK
<1>7. r.step \notin Storing \cup {"remove", "clear", "union"}
  BY <1>5 DEF Storing
<1> QED
  BY <1>3, <1>4, <1>5, <1>6, <1>7, LeavingKeeps

\* A set is dropped for good only when its source was deleted.
LEMMA RemoveKeyKeeps == ASSUME BlocklistInv, NEW t \in Tasks, RemoveKey(t) PROVE BlocklistInv'
<1> DEFINE r == [task[t] EXCEPT !.step = "rebuild"]
<1>1. BlocklistTypeOK /\ task[t] \in Task /\ task[t].step = "remove"
  BY DEF BlocklistInv, BlocklistTypeOK, RemoveKey
<1>2. PICK s \in Sources : task[t].source = s /\ ~steady[s]
  BY <1>1 DEF BlocklistInv, TaskInv, SourceInv
<1>3. r \in Task
  BY <1>1, TaskRecords
<1>4. r.step = "rebuild"
  BY <1>1 DEF Task
<1>5. Become(t, r) /\ UNCHANGED <<status, feed, tmp, master, disturbed, steady, events>>
  BY DEF RemoveKey
<1>6. /\ key' = [key EXCEPT ![s] = {}] /\ key' \in [Sources -> SUBSET Sites]
      /\ \A o \in Sources : key'[o] = key[o] \/ (key'[o] = {} /\ ~steady[o])
  BY <1>1, <1>2 DEF RemoveKey, BlocklistTypeOK
<1>7. /\ master' \in SUBSET Sites /\ events' \in 0 .. MaxEvents
      /\ \A o \in Sources : steady[o] /\ ~disturbed[o] => AlwaysListed(o) \subseteq master'
  BY <1>1, <1>5 DEF BlocklistInv, BlocklistTypeOK, SourceInv
<1>8. r.step \notin Storing \cup {"remove", "clear", "union"}
  BY <1>4 DEF Storing
<1> HIDE DEF r
<1> QED
  BY <1>3, <1>5, <1>6, <1>7, <1>8, LeavingKeeps

-----------------------------------------------------------------------------
(* storeInRedis                                                            *)

\* Who fills a key that nobody disturbed fills it alone.
LEMMA FillsAlone ==
  ASSUME BlocklistInv, NEW t \in Tasks, task[t].step \in Storing
  PROVE  /\ task[t].source \in Sources /\ task[t] \in Task
         /\ ~disturbed[task[t].source] => Filling(task[t].source) \subseteq {t}
         /\ ~disturbed[task[t].source] =>
              /\ task[t].step = "add" => tmp[task[t].source] \cup task[t].rest \in Versions[task[t].source]
              /\ task[t].step = "rename" => tmp[task[t].source] \in Versions[task[t].source]
              /\ task[t].step = "drop" => {} \in Versions[task[t].source]
<1>1. TaskInv(t) /\ task[t] \in Task
  BY DEF BlocklistInv, BlocklistTypeOK
<1>2. task[t].source \in Sources
  BY <1>1 DEF TaskInv
<1>3. t \in Filling(task[t].source)
  BY DEF Filling
<1>4. ~disturbed[task[t].source] => OneFills(task[t].source)
  BY <1>2 DEF BlocklistInv, SourceInv
<1> QED
  BY <1>1, <1>2, <1>3, <1>4 DEF TaskInv, OneFills

LEMMA ClearTmpKeeps == ASSUME BlocklistInv, NEW t \in Tasks, ClearTmp(t) PROVE BlocklistInv'
<1>1. BlocklistTypeOK /\ task[t] \in Task /\ task[t].step = "clear"
  BY DEF BlocklistInv, BlocklistTypeOK, ClearTmp
<1>2. PICK s \in Sources : task[t].source = s /\ task[t].rest \in Versions[s]
  BY <1>1 DEF BlocklistInv, TaskInv
<1> DEFINE r == [task[t] EXCEPT !.step = IF task[t].rest = {} THEN "drop" ELSE "add"]
<1>3. r \in Task
  BY <1>1, TaskRecords
<1>4. /\ r.source = s /\ r.rest = task[t].rest
      /\ r.step = IF task[t].rest = {} THEN "drop" ELSE "add"
  BY <1>1, <1>2 DEF Task
<1>5. Become(t, r) /\ UNCHANGED <<status, feed, key, master, steady, events>>
  BY DEF ClearTmp
<1>6. /\ tmp' = [tmp EXCEPT ![s] = {}]
      /\ disturbed' = [disturbed EXCEPT ![s] = disturbed[s] \/ Filling(s) # {}]
  BY <1>1, <1>2 DEF ClearTmp
<1>7. /\ tmp' \in [Sources -> SUBSET Sites] /\ key' \in [Sources -> SUBSET Sites]
      /\ tmp'[s] = {} /\ \A o \in Sources \ {s} : tmp'[o] = tmp[o]
  BY <1>1, <1>5, <1>6 DEF BlocklistTypeOK
<1>8. /\ disturbed' \in [Sources -> BOOLEAN]
      /\ disturbed'[s] <=> disturbed[s] \/ Filling(s) # {}
      /\ \A o \in Sources \ {s} : disturbed'[o] = disturbed[o]
  BY <1>1, <1>6 DEF BlocklistTypeOK
<1>9. r.step \in Storing \cup {"rebuild"} /\ r.step # "rename"
  BY <1>4 DEF Storing
<1> HIDE DEF r
<1>10. ~disturbed'[s] => /\ Filling(s) \subseteq {t}
                         /\ r.step = "add" => tmp'[s] \cup r.rest \in Versions[s]
                         /\ r.step = "drop" => {} \in Versions[s]
  <2>1. tmp'[s] \cup r.rest = task[t].rest
    BY <1>4, <1>7
  <2>2. r.step = "drop" => task[t].rest = {}
    BY <1>4
  <2>3. ~disturbed'[s] => Filling(s) = {}
    BY <1>8
  <2> QED
    BY <1>2, <2>1, <2>2, <2>3
<1> QED
  BY <1>2, <1>3, <1>4, <1>5, <1>7, <1>8, <1>9, <1>10, FillingKeeps

LEMMA AddBatchKeeps ==
  ASSUME BlocklistInv, NEW t \in Tasks, NEW d \in Sites, AddBatch(t, d) PROVE BlocklistInv'
<1>1. BlocklistTypeOK /\ task[t].step = "add" /\ d \in task[t].rest
  BY DEF BlocklistInv, AddBatch
<1>2. task[t].step \in Storing
  BY <1>1 DEF Storing
<1>3. PICK s \in Sources : task[t].source = s /\ task[t] \in Task
  BY <1>2, FillsAlone
<1>4. ~disturbed[s] => Filling(s) \subseteq {t} /\ tmp[s] \cup task[t].rest \in Versions[s]
  BY <1>1, <1>2, <1>3, FillsAlone
<1> DEFINE r == [task[t] EXCEPT !.rest = task[t].rest \ {d},
                                !.step = IF task[t].rest = {d} THEN "rename" ELSE "add"]
<1>5. (task[t].rest \ {d}) \in SUBSET Sites
  BY <1>3 DEF Task
<1>6. r \in Task
  BY <1>3, <1>5, TaskRecords
<1>7. /\ r.source = s /\ r.rest = task[t].rest \ {d}
      /\ r.step = IF task[t].rest = {d} THEN "rename" ELSE "add"
  BY <1>3 DEF Task
<1>8. Become(t, r) /\ UNCHANGED <<status, feed, key, master, disturbed, steady, events>>
  BY DEF AddBatch
<1>9. tmp' = [tmp EXCEPT ![s] = tmp[s] \cup {d}]
  BY <1>3 DEF AddBatch
<1>10. /\ tmp' \in [Sources -> SUBSET Sites] /\ tmp'[s] = tmp[s] \cup {d}
       /\ \A o \in Sources \ {s} : tmp'[o] = tmp[o]
       /\ key' \in [Sources -> SUBSET Sites] /\ disturbed' \in [Sources -> BOOLEAN]
  BY <1>1, <1>8, <1>9 DEF BlocklistTypeOK
<1>11. r.step \in Storing \cup {"rebuild"} /\ r.step # "drop"
  BY <1>7 DEF Storing
<1>12. tmp'[s] \cup r.rest = tmp[s] \cup task[t].rest /\ (r.step = "rename" => tmp'[s] = tmp[s] \cup task[t].rest)
  BY <1>1, <1>7, <1>10
<1> HIDE DEF r
<1> QED
  BY <1>3, <1>4, <1>6, <1>7, <1>8, <1>10, <1>11, <1>12, FillingKeeps

LEMMA RenameKeeps == ASSUME BlocklistInv, NEW t \in Tasks, Rename(t) PROVE BlocklistInv'
<1> DEFINE r == [task[t] EXCEPT !.step = "rebuild"]
<1>1. BlocklistTypeOK /\ task[t].step = "rename"
  BY DEF BlocklistInv, Rename
<1>2. task[t].step \in Storing
  BY <1>1 DEF Storing
<1>3. PICK s \in Sources : task[t].source = s /\ task[t] \in Task
  BY <1>2, FillsAlone
<1>4. ~disturbed[s] => Filling(s) \subseteq {t} /\ tmp[s] \in Versions[s]
  BY <1>1, <1>2, <1>3, FillsAlone
<1>5. r \in Task
  BY <1>3, TaskRecords
<1>6. r.source = s /\ r.step = "rebuild"
  BY <1>3 DEF Task
<1>7. Become(t, r) /\ UNCHANGED <<status, feed, master, disturbed, steady, events>>
  BY DEF Rename
<1>8. key' = [key EXCEPT ![s] = tmp[s]] /\ tmp' = [tmp EXCEPT ![s] = {}]
  BY <1>3 DEF Rename
<1>9. /\ tmp' \in [Sources -> SUBSET Sites] /\ key' \in [Sources -> SUBSET Sites]
      /\ key'[s] = tmp[s] /\ \A o \in Sources \ {s} : tmp'[o] = tmp[o] /\ key'[o] = key[o]
      /\ disturbed' \in [Sources -> BOOLEAN]
  BY <1>1, <1>7, <1>8 DEF BlocklistTypeOK
<1> HIDE DEF r
<1> QED
  BY <1>3, <1>4, <1>5, <1>6, <1>7, <1>9, FillingKeeps

LEMMA DropsKeep == ASSUME BlocklistInv, NEW t \in Tasks, DropKey(t) \/ DropTmp(t) PROVE BlocklistInv'
<1> DEFINE r == [task[t] EXCEPT !.step = IF task[t].step = "drop" THEN "dropTmp" ELSE "rebuild"]
<1>1. BlocklistTypeOK /\ task[t].step \in {"drop", "dropTmp"}
  BY DEF BlocklistInv, DropKey, DropTmp
<1>2. task[t].step \in Storing
  BY <1>1 DEF Storing
<1>3. PICK s \in Sources : task[t].source = s /\ task[t] \in Task
  BY <1>2, FillsAlone
<1>4. ~disturbed[s] => Filling(s) \subseteq {t} /\ (task[t].step = "drop" => {} \in Versions[s])
  BY <1>1, <1>2, <1>3, FillsAlone
<1>5. r \in Task
  BY <1>3, TaskRecords
<1>6. r.source = s /\ r.step \in {"dropTmp", "rebuild"}
  BY <1>3 DEF Task
<1>7. Become(t, r) /\ UNCHANGED <<status, feed, master, disturbed, steady, events>>
  BY DEF DropKey, DropTmp
<1>8. /\ key' = key \/ (task[t].step = "drop" /\ key' = [key EXCEPT ![s] = {}])
      /\ tmp' = tmp \/ tmp' = [tmp EXCEPT ![s] = {}]
  BY <1>3 DEF DropKey, DropTmp
<1>9. /\ tmp' \in [Sources -> SUBSET Sites] /\ \A o \in Sources \ {s} : tmp'[o] = tmp[o]
      /\ disturbed' \in [Sources -> BOOLEAN]
  BY <1>1, <1>7, <1>8 DEF BlocklistTypeOK
<1>10. /\ key' \in [Sources -> SUBSET Sites] /\ \A o \in Sources \ {s} : key'[o] = key[o]
       /\ key'[s] = key[s] \/ (task[t].step = "drop" /\ key'[s] = {})
  BY <1>1, <1>8 DEF BlocklistTypeOK
<1>11. r.step \in Storing \cup {"rebuild"} /\ r.step \notin {"add", "rename", "drop"}
  BY <1>6 DEF Storing
<1> HIDE DEF r
<1> QED
  BY <1>3, <1>4, <1>5, <1>6, <1>7, <1>9, <1>10, <1>11, FillingKeeps

LEMMA TaskStepsKeep == ASSUME BlocklistInv, NEW t \in Tasks, TaskStep(t) PROVE BlocklistInv'
BY LoopStepsKeep, RemoveKeyKeeps, ClearTmpKeeps, AddBatchKeeps, RenameKeeps, DropsKeep, ReadActiveKeeps,
  StoreUnionKeeps DEF TaskStep

-----------------------------------------------------------------------------
(* Admins, lists and failures.                                             *)

\* A row that changes, and a list that does, disturb no run: a source that changes
\* is not a steady one, and what it listed once it may still list.
LEMMA RowChangeKeeps ==
  ASSUME BlocklistInv, UNCHANGED <<key, tmp, master, task, disturbed>>, events' \in 0 .. MaxEvents,
         feed' \in [Sources -> SUBSET Sites], \A s \in Sources : feed'[s] \in Versions[s],
         status' \in [Sources -> {"absent", "inactive", "active", "deleted"}],
         steady' \in [Sources -> BOOLEAN],
         \A s \in Sources : /\ status[s] = "deleted" => status'[s] = "deleted"
                            /\ steady'[s] => steady[s] /\ status'[s] = status[s]
  PROVE  BlocklistInv'
<1>1. BlocklistTypeOK'
  BY DEF BlocklistInv, BlocklistTypeOK
<1>2. ASSUME NEW t \in Tasks PROVE TaskInv(t)'
  <2>1. TaskInv(t)
    BY DEF BlocklistInv
  <2> QED
    BY <2>1 DEF TaskInv, Storing
<1>3. ASSUME NEW s \in Sources PROVE SourceInv(s)'
  <2>1. SourceInv(s) /\ (OneFills(s) <=> OneFills(s)') /\ AlwaysListed(s)' = AlwaysListed(s)
    BY DEF BlocklistInv, OneFills, Filling, AlwaysListed
  <2> QED
    BY <2>1 DEF SourceInv
<1> QED
  BY <1>1, <1>2, <1>3 DEF BlocklistInv

LEMMA AddSourceKeeps == ASSUME BlocklistInv, NEW s \in Sources, AddSource(s) PROVE BlocklistInv'
<1>1. BlocklistTypeOK /\ \A o \in Sources : steady[o] => status[o] = "active"
  BY DEF BlocklistInv, SourceInv
<1>2. /\ status' \in [Sources -> {"absent", "inactive", "active", "deleted"}]
      /\ \A o \in Sources : status'[o] = IF o = s THEN "inactive" ELSE status[o]
      /\ status[s] = "absent"
  BY <1>1 DEF AddSource, BlocklistTypeOK
<1> QED
  BY <1>1, <1>2, RowChangeKeeps DEF AddSource, BlocklistTypeOK

LEMMA SetActiveKeeps ==
  ASSUME BlocklistInv, NEW s \in Sources, NEW active \in BOOLEAN, SetActive(s, active) PROVE BlocklistInv'
<1>1. BlocklistTypeOK /\ events' \in 0 .. MaxEvents
  BY EventType DEF BlocklistInv, SetActive
<1>2. /\ status' \in [Sources -> {"absent", "inactive", "active", "deleted"}]
      /\ steady' \in [Sources -> BOOLEAN]
      /\ \A o \in Sources \ {s} : status'[o] = status[o] /\ steady'[o] = steady[o]
      /\ ~steady'[s] /\ status[s] # "deleted"
  BY <1>1 DEF SetActive, BlocklistTypeOK
<1> QED
  BY <1>1, <1>2, RowChangeKeeps DEF SetActive, BlocklistTypeOK

LEMMA FeedChangesKeeps == ASSUME BlocklistInv, NEW s \in Sources, FeedChanges(s) PROVE BlocklistInv'
<1>1. BlocklistTypeOK /\ events' \in 0 .. MaxEvents
  BY EventType DEF BlocklistInv, FeedChanges
<1>2. PICK list \in Versions[s] : feed' = [feed EXCEPT ![s] = list]
  BY DEF FeedChanges
<1>3. list \in SUBSET Sites
  BY <1>2, ListsAreSites
<1>4. feed' \in [Sources -> SUBSET Sites] /\ \A o \in Sources : feed'[o] \in Versions[o]
  BY <1>1, <1>2, <1>3 DEF BlocklistTypeOK
<1> QED
  BY <1>1, <1>4, RowChangeKeeps DEF FeedChanges, BlocklistTypeOK

\* DELETE also begins a run, of a source that stays deleted.
LEMMA DeleteSourceKeeps ==
  ASSUME BlocklistInv, NEW t \in Requests, NEW s \in Sources, DeleteSource(t, s) PROVE BlocklistInv'
<1> DEFINE r == [Resting EXCEPT !.step = "remove", !.source = s]
<1>1. BlocklistTypeOK /\ events' \in 0 .. MaxEvents /\ t \in Tasks
  BY EventType DEF BlocklistInv, DeleteSource, Tasks
<1>2. r \in Task /\ r.step = "remove" /\ r.source = s
  BY DEF Resting, Task
<1>3. task' \in [Tasks -> Task] /\ task'[t] = r /\ \A u \in Tasks \ {t} : task'[u] = task[u]
  BY <1>1, <1>2 DEF DeleteSource, Become, BlocklistTypeOK
<1>4. /\ status' \in [Sources -> {"absent", "inactive", "active", "deleted"}]
      /\ steady' \in [Sources -> BOOLEAN] /\ status'[s] = "deleted" /\ ~steady'[s]
      /\ \A o \in Sources \ {s} : status'[o] = status[o] /\ steady'[o] = steady[o]
      /\ UNCHANGED <<feed, key, tmp, master, disturbed>>
  BY <1>1 DEF DeleteSource, BlocklistTypeOK
<1> HIDE DEF r
<1>5. BlocklistTypeOK'
  BY <1>1, <1>3, <1>4 DEF BlocklistTypeOK
<1>6. TaskInv(t)'
  BY <1>2, <1>3, <1>4 DEF TaskInv, Storing
<1>7. ASSUME NEW u \in Tasks \ {t} PROVE TaskInv(u)'
  <2>1. TaskInv(u) /\ task'[u] = task[u]
    BY <1>3 DEF BlocklistInv
  <2>2. \A o \in Sources : /\ status[o] = "deleted" => status'[o] = "deleted"
                           /\ steady'[o] => steady[o]
    BY <1>4
  <2> QED
    BY <1>4, <2>1, <2>2 DEF TaskInv, Storing
<1>8. ASSUME NEW o \in Sources PROVE SourceInv(o)'
  <2>1. SourceInv(o) /\ AlwaysListed(o)' = AlwaysListed(o)
    BY DEF BlocklistInv, AlwaysListed
  <2>2. Filling(o)' \subseteq Filling(o)
    BY <1>2, <1>3 DEF Filling, Storing
  <2>3. OneFills(o) => OneFills(o)'
    BY <2>2 DEF OneFills
  <2> QED
    BY <1>4, <2>1, <2>3 DEF SourceInv
<1> QED
  BY <1>5, <1>6, <1>7, <1>8 DEF BlocklistInv

LEMMA RestartKeeps == ASSUME BlocklistInv, ProcessRestarts PROVE BlocklistInv'
<1>1. BlocklistTypeOK /\ events' \in 0 .. MaxEvents
  BY EventType DEF BlocklistInv, ProcessRestarts
<1>2. /\ task' \in [Tasks -> Task] /\ \A t \in Tasks : task'[t].step = "idle"
      /\ UNCHANGED <<status, feed, key, tmp, master, disturbed, steady>>
  BY TaskRecords DEF ProcessRestarts
<1>3. BlocklistTypeOK'
  BY <1>1, <1>2 DEF BlocklistTypeOK
<1>4. \A t \in Tasks : TaskInv(t)'
  BY <1>2 DEF TaskInv, Storing
<1>5. ASSUME NEW s \in Sources PROVE SourceInv(s)'
  <2>1. SourceInv(s) /\ AlwaysListed(s)' = AlwaysListed(s)
    BY DEF BlocklistInv, AlwaysListed
  <2>2. OneFills(s)'
    BY <1>2 DEF OneFills, Filling, Storing
  <2> QED
    BY <1>2, <2>1, <2>2 DEF SourceInv
<1> QED
  BY <1>3, <1>4, <1>5 DEF BlocklistInv

\* Redis without data: nothing is steady, and who was filling a key is disturbed.
LEMMA DataLossKeeps == ASSUME BlocklistInv, RedisLosesData PROVE BlocklistInv'
<1>1. BlocklistTypeOK /\ events' \in 0 .. MaxEvents
  BY EventType DEF BlocklistInv, RedisLosesData
<1>2. /\ \A s \in Sources : key'[s] = {} /\ ~steady'[s] /\ (disturbed'[s] <=> disturbed[s] \/ Filling(s) # {})
      /\ key' \in [Sources -> SUBSET Sites] /\ tmp' \in [Sources -> SUBSET Sites] /\ master' \in SUBSET Sites
      /\ steady' \in [Sources -> BOOLEAN] /\ UNCHANGED <<status, feed, task>>
  BY DEF RedisLosesData
<1>3. disturbed' \in [Sources -> BOOLEAN]
  BY <1>1 DEF RedisLosesData, BlocklistTypeOK
<1>4. BlocklistTypeOK'
  BY <1>1, <1>2, <1>3 DEF BlocklistTypeOK
<1>5. ASSUME NEW t \in Tasks PROVE TaskInv(t)'
  <2>1. TaskInv(t)
    BY DEF BlocklistInv
  <2>2. task[t].step \in Storing => task[t].source \in Sources /\ disturbed'[task[t].source]
    BY <1>2, <2>1 DEF TaskInv, Filling
  <2> QED
    BY <1>2, <2>1, <2>2 DEF TaskInv
<1>6. ASSUME NEW s \in Sources PROVE SourceInv(s)'
  <2>1. SourceInv(s)
    BY DEF BlocklistInv
  <2>2. ~disturbed'[s] => OneFills(s)'
    BY <1>2 DEF OneFills, Filling
  <2> QED
    BY <1>2, <2>2 DEF SourceInv
<1> QED
  BY <1>4, <1>5, <1>6 DEF BlocklistInv

LEMMA BlocklistInvKept == BlocklistInv /\ [BlocklistNext]_blocklistVars => BlocklistInv'
<1> SUFFICES ASSUME BlocklistInv, [BlocklistNext]_blocklistVars PROVE BlocklistInv'
  OBVIOUS
<1>1. CASE UNCHANGED blocklistVars
  <2>1. BlocklistTypeOK /\ \A s \in Sources : steady[s] => steady[s]
    BY DEF BlocklistInv
  <2> QED
    BY <1>1, <2>1, RowChangeKeeps DEF blocklistVars, BlocklistTypeOK
<1>2. CASE BlocklistNext
  <2>1. Loops \subseteq Tasks /\ Requests \subseteq Tasks
    BY DEF Tasks
  <2>2. ASSUME NEW t \in Loops, StartLoop(t) PROVE BlocklistInv'
    BY <2>1, <2>2, LoopStepsKeep
  <2>3. ASSUME NEW t \in Requests, NEW s \in Sources, SyncNow(t, s) PROVE BlocklistInv'
    BY <2>1, <2>3, LoopStepsKeep
  <2>4. ASSUME NEW t \in Tasks, TaskStep(t) \/ Fails(t) PROVE BlocklistInv'
    BY <2>4, TaskStepsKeep, LoopStepsKeep
  <2> QED
    BY <1>2, <2>2, <2>3, <2>4, AddSourceKeeps, SetActiveKeeps, FeedChangesKeeps, DeleteSourceKeeps,
      RestartKeeps, DataLossKeeps DEF BlocklistNext
<1> QED
  BY <1>1, <1>2

-----------------------------------------------------------------------------
\* The inductive invariant holds in every state of every run.
THEOREM BlocklistInvariance == BlocklistSpec => []BlocklistInv
BY BlocklistInitEstablishes, BlocklistInvKept, PTL DEF BlocklistSpec

\* The tables, the keys and the runs keep their shape.
THEOREM BlocklistTypeCorrect == BlocklistSpec => []BlocklistTypeOK
<1>1. BlocklistInv => BlocklistTypeOK
  BY DEF BlocklistInv
<1> QED
  BY <1>1, BlocklistInvariance, PTL

\* storeInRedis replaces a source's set by a whole list, unless another run fills
\* the same temporary key meanwhile or Redis loses it.
THEOREM ListsAreWhole == BlocklistSpec => []ListIsWhole
<1>1. BlocklistInv => ListIsWhole
  BY DEF BlocklistInv, SourceInv, ListIsWhole
<1> QED
  BY <1>1, BlocklistInvariance, PTL

\* What a source in use always lists is in the master set at every instant, through
\* every sync, rebuild, failure and restart.
THEOREM ListedSitesStayBlocked == BlocklistSpec => []StaysBlocked
<1>1. BlocklistInv => StaysBlocked
  BY DEF BlocklistInv, SourceInv, StaysBlocked, AlwaysListed
<1> QED
  BY <1>1, BlocklistInvariance, PTL

-----------------------------------------------------------------------------
(* Scheduled updates: what the table says of an update is what happened on *)
(* the node.                                                               *)
(*                                                                         *)
(* CompletedWasInstalled speaks of the moment of the report only, and what *)
(* makes it true happened before: the run began under the plan that is     *)
(* still open, or the plan was made while the run was under way.           *)
(* NotBeforeItsTime in turn needs to know that a row nobody waited for is  *)
(* a plan made over a run.                                                 *)

RowType == [status : {"none", "pending", "in_progress"}, plan : Plans \cup {NoPlan}, due : BOOLEAN]
Outcomes == {"none", "open", "replaced", "cancelled", "completed", "failed"}
Watches == [step : {"idle", "announce", "install", "running", "report"},
            plan : Plans \cup {NoPlan}, result : {"none", "completed", "failed"}]

\* An active row has a plan.
Named(n) == Scheduled(n) => row[n].plan \in Plans

\* The plan that is still open is the one the active row names.
OpenIsActive(n) == \A p \in Plans : outcome[n][p] = "open" => row[n].plan = p

\* A run of install.sh began under the open plan, unless that came later.
RunKnowsPlan(n) ==
  watch[n].step = "running" =>
    \A p \in Plans : outcome[n][p] = "open" => watch[n].plan = p \/ p \in late[n]

\* A success about to be reported is one of the open plan.
ReportIsTrue(n) ==
  watch[n].step = "report" /\ watch[n].result = "completed" =>
    \A p \in Plans : outcome[n][p] = "open" => p \in installed[n] \cup late[n]

\* A row that is handled, or was, before it is due has a plan made over a run.
DueOrLate(n) ==
  /\ Scheduled(n) /\ ~row[n].due
  /\ row[n].status = "in_progress" \/ watch[n].step \in {"announce", "install"}
  => row[n].plan \in late[n]

Completed(n) == \A p \in Plans : outcome[n][p] = "completed" => p \in installed[n] \cup late[n]
Early(n) == early[n] \subseteq late[n]

NodeInv(n) ==
  /\ Named(n) /\ OpenIsActive(n) /\ RunKnowsPlan(n) /\ ReportIsTrue(n)
  /\ DueOrLate(n) /\ Completed(n) /\ Early(n)

UpdateInv == UpdateTypeOK /\ \A n \in UpdateNodes : NodeInv(n)

-----------------------------------------------------------------------------
\* What the type invariant says of one node.
LEMMA TypesOfNode ==
  ASSUME UpdateTypeOK, NEW n \in UpdateNodes
  PROVE  /\ row[n] \in RowType /\ outcome[n] \in [Plans -> Outcomes] /\ watch[n] \in Watches
         /\ installed[n] \in SUBSET Plans /\ late[n] \in SUBSET Plans /\ early[n] \in SUBSET Plans
BY DEF UpdateTypeOK, RowType, Outcomes, Watches

\* Changing a field keeps a row a row, and a watcher a watcher.
LEMMA FieldsKept ==
  /\ \A r \in RowType : [r EXCEPT !.due = TRUE] \in RowType /\ [r EXCEPT !.status = "in_progress"] \in RowType
  /\ \A w \in Watches :
       /\ \A step \in {"announce", "install"} : [w EXCEPT !.step = step] \in Watches
       /\ \A p \in Plans \cup {NoPlan} : [w EXCEPT !.step = "running", !.plan = p] \in Watches
       /\ \A result \in {"completed", "failed"} :
            [w EXCEPT !.step = "report", !.result = result] \in Watches
  /\ Sleeping \in Watches /\ NoRow \in RowType
BY DEF RowType, Watches, Sleeping, NoRow

\* A mishap stays within its bound.
LEMMA MishapType == ASSUME UpdateTypeOK, Mishap PROVE mishaps' \in 0 .. MaxMishaps
BY MishapsAreNat DEF UpdateTypeOK, Mishap

LEMMA UpdateInitEstablishes == UpdateInit => UpdateInv
<1> SUFFICES ASSUME UpdateInit PROVE UpdateInv
  OBVIOUS
<1>1. UpdateTypeOK
  BY MishapsAreNat DEF UpdateInit, UpdateTypeOK, NoRow, Sleeping
<1>2. ASSUME NEW n \in UpdateNodes PROVE NodeInv(n)
  BY <1>2 DEF UpdateInit, NoRow, Sleeping, NodeInv, Named, OpenIsActive, RunKnowsPlan, ReportIsTrue,
    DueOrLate, Completed, Early, Scheduled
<1> QED
  BY <1>1, <1>2 DEF UpdateInv

-----------------------------------------------------------------------------
(* The types.                                                              *)

\* The row of n ends: the types of the table.
LEMMA CloseType ==
  ASSUME UpdateTypeOK, NEW n \in UpdateNodes,
         NEW result \in {"none", "cancelled", "completed", "failed"}, Close(n, result)
  PROVE  /\ row' \in [UpdateNodes -> RowType]
         /\ outcome' \in [UpdateNodes -> [Plans -> Outcomes]]
BY DEF UpdateTypeOK, Close, NoRow, RowType, Outcomes

LEMMA InsertType ==
  ASSUME UpdateTypeOK, NEW n \in UpdateNodes, NEW p \in Plans, InsertSchedule(n, p)
  PROVE  UpdateTypeOK'
<1>1. row' \in [UpdateNodes -> RowType]
  <2>1. [status |-> IF Scheduled(n) THEN row[n].status ELSE "pending", plan |-> p, due |-> FALSE] \in RowType
    BY TypesOfNode DEF RowType
  <2> QED
    BY <2>1 DEF InsertSchedule, UpdateTypeOK, RowType
<1>2. outcome' \in [UpdateNodes -> [Plans -> Outcomes]]
  BY DEF InsertSchedule, UpdateTypeOK, Outcomes
<1>3. inserting' \in [Plans -> SUBSET UpdateNodes]
  BY DEF InsertSchedule, UpdateTypeOK
<1>4. late' \in [UpdateNodes -> SUBSET Plans]
  BY DEF InsertSchedule, UpdateTypeOK
<1> QED
  BY <1>1, <1>2, <1>3, <1>4 DEF InsertSchedule, UpdateTypeOK, RowType, Outcomes

LEMMA UpdateTypeKept == UpdateInv /\ [UpdateNext]_updateVars => UpdateTypeOK'
<1> SUFFICES ASSUME UpdateInv, UpdateTypeOK, [UpdateNext]_updateVars PROVE UpdateTypeOK'
  BY DEF UpdateInv
<1>1. CASE UNCHANGED updateVars
  BY <1>1 DEF updateVars, UpdateTypeOK
<1>2. ASSUME NEW p \in Plans, InsertFails(p) PROVE UpdateTypeOK'
  BY <1>2, MishapType DEF InsertFails, UpdateTypeOK
<1>3. ASSUME NEW n \in UpdateNodes, NEW p \in Plans, InsertSchedule(n, p) PROVE UpdateTypeOK'
  BY <1>3, InsertType
<1>4. ASSUME NEW n \in UpdateNodes, Cancel(n) PROVE UpdateTypeOK'
  BY <1>4, CloseType, MishapType DEF Cancel, UpdateTypeOK, RowType, Outcomes
<1>5. ASSUME NEW n \in UpdateNodes, TimeComes(n) PROVE UpdateTypeOK'
  <2>1. row' = [row EXCEPT ![n] = [row[n] EXCEPT !.due = TRUE]]
    BY <1>5 DEF TimeComes
  <2>2. row' \in [UpdateNodes -> RowType]
    BY <2>1, TypesOfNode, FieldsKept DEF UpdateTypeOK, RowType
  <2> QED
    BY <1>5, <2>2 DEF TimeComes, UpdateTypeOK, RowType
<1>6. ASSUME NEW n \in UpdateNodes, Wake(n) PROVE UpdateTypeOK'
  BY <1>6 DEF Wake, Step, UpdateTypeOK
<1>7. ASSUME NEW n \in UpdateNodes, Announce(n) PROVE UpdateTypeOK'
  <2>1. row' = row \/ row' = [row EXCEPT ![n] = [row[n] EXCEPT !.status = "in_progress"]]
    BY <1>7 DEF Announce, UpdateTypeOK
  <2>2. [row[n] EXCEPT !.status = "in_progress"] \in RowType
    BY TypesOfNode, FieldsKept
  <2>3. row' \in [UpdateNodes -> RowType]
    BY <2>1, <2>2 DEF UpdateTypeOK, RowType
  <2>4. watch' = [watch EXCEPT ![n] = [watch[n] EXCEPT !.step = "install"]]
    BY <1>7 DEF Announce, Step
  <2>5. [watch[n] EXCEPT !.step = "install"] \in Watches
    BY TypesOfNode, FieldsKept
  <2>6. watch' \in [UpdateNodes -> Watches]
    BY <2>4, <2>5 DEF UpdateTypeOK, Watches
  <2> QED
    BY <1>7, <2>3, <2>6 DEF Announce, UpdateTypeOK, RowType, Watches
<1>8. ASSUME NEW n \in UpdateNodes, AnnounceLost(n) PROVE UpdateTypeOK'
  <2>1. watch' = [watch EXCEPT ![n] = [watch[n] EXCEPT !.step = "install"]]
    BY <1>8 DEF AnnounceLost, Step
  <2>2. [watch[n] EXCEPT !.step = "install"] \in Watches
    BY TypesOfNode, FieldsKept
  <2>3. watch' \in [UpdateNodes -> Watches]
    BY <2>1, <2>2 DEF UpdateTypeOK, Watches
  <2> QED
    BY <1>8, <2>3, MishapType DEF AnnounceLost, UpdateTypeOK, Watches
<1>9. ASSUME NEW n \in UpdateNodes, Install(n) PROVE UpdateTypeOK'
  <2>1. row[n].plan \in Plans \cup {NoPlan} /\ (Scheduled(n) => row[n].plan \in Plans)
    BY TypesOfNode DEF RowType, UpdateInv, NodeInv, Named
  <2>2. watch' = [watch EXCEPT ![n] = [watch[n] EXCEPT !.step = "running", !.plan = row[n].plan]]
    BY <1>9 DEF Install, UpdateTypeOK
  <2>3. watch' \in [UpdateNodes -> Watches]
    <3>1. [watch[n] EXCEPT !.step = "running", !.plan = row[n].plan] \in Watches
      BY <2>1, TypesOfNode, FieldsKept
    <3> QED
      BY <2>2, <3>1 DEF UpdateTypeOK, Watches
  <2>4. early' \in [UpdateNodes -> SUBSET Plans]
    BY <1>9, <2>1 DEF Install, UpdateTypeOK
  <2> QED
    BY <1>9, <2>3, <2>4 DEF Install, UpdateTypeOK, Watches
<1>10. ASSUME NEW n \in UpdateNodes, InstallSucceeds(n) PROVE UpdateTypeOK'
  <2>1. watch' = [watch EXCEPT ![n] = [watch[n] EXCEPT !.step = "report", !.result = "completed"]]
    BY <1>10 DEF InstallSucceeds, UpdateTypeOK
  <2>2. watch' \in [UpdateNodes -> Watches]
    BY <2>1, TypesOfNode, FieldsKept DEF UpdateTypeOK, Watches
  <2>3. installed' \in [UpdateNodes -> SUBSET Plans]
    <3>1. watch[n].plan \in Plans \cup {NoPlan}
      BY TypesOfNode DEF Watches
    <3> QED
      BY <1>10, <3>1 DEF InstallSucceeds, UpdateTypeOK
  <2> QED
    BY <1>10, <2>2, <2>3 DEF InstallSucceeds, UpdateTypeOK, Watches
<1>11. ASSUME NEW n \in UpdateNodes, InstallFails(n) PROVE UpdateTypeOK'
  <2>1. watch' = [watch EXCEPT ![n] = [watch[n] EXCEPT !.step = "report", !.result = "failed"]]
    BY <1>11 DEF InstallFails, UpdateTypeOK
  <2>2. watch' \in [UpdateNodes -> Watches]
    BY <2>1, TypesOfNode, FieldsKept DEF UpdateTypeOK, Watches
  <2> QED
    BY <1>11, <2>2, MishapType DEF InstallFails, UpdateTypeOK, Watches
<1>12. ASSUME NEW n \in UpdateNodes, Report(n) \/ ReportUnanswered(n) PROVE UpdateTypeOK'
  <2>1. watch[n].result \in {"none", "cancelled", "completed", "failed"}
    BY TypesOfNode DEF Watches
  <2>2. row' \in [UpdateNodes -> RowType] /\ outcome' \in [UpdateNodes -> [Plans -> Outcomes]]
    BY <1>12, <2>1, CloseType DEF Report, ReportUnanswered
  <2>3. watch' \in [UpdateNodes -> Watches]
    <3>1. watch' = watch \/ watch' = [watch EXCEPT ![n] = Sleeping]
      BY <1>12 DEF Report, ReportUnanswered
    <3>2. Sleeping \in Watches
      BY FieldsKept
    <3> QED
      BY <3>1, <3>2 DEF UpdateTypeOK, Watches
  <2>4. mishaps' \in 0 .. MaxMishaps
    BY <1>12, MishapType DEF Report, ReportUnanswered, UpdateTypeOK
  <2> QED
    BY <1>12, <2>2, <2>3, <2>4 DEF Report, ReportUnanswered, UpdateTypeOK, RowType, Outcomes, Watches
<1>13. ASSUME NEW n \in UpdateNodes, RunDies(n) PROVE UpdateTypeOK'
  BY <1>13, MishapType DEF RunDies, Sleeping, UpdateTypeOK
<1> QED
  BY <1>1, <1>2, <1>3, <1>4, <1>5, <1>6, <1>7, <1>8, <1>9, <1>10, <1>11, <1>12, <1>13
    DEF UpdateNext, WatcherStep
-----------------------------------------------------------------------------
(* The invariant of a node, step by step.                                  *)

\* Whatever happens at one node leaves the others' state alone.
LEMMA ElsewhereKept ==
  ASSUME UpdateInv, NEW n \in UpdateNodes,
         row'[n] = row[n], outcome'[n] = outcome[n], watch'[n] = watch[n],
         installed'[n] = installed[n], late'[n] = late[n], early'[n] = early[n]
  PROVE  NodeInv(n)'
<1>1. NodeInv(n)
  BY DEF UpdateInv
<1> QED
  BY <1>1 DEF NodeInv, Named, OpenIsActive, RunKnowsPlan, ReportIsTrue, DueOrLate, Completed, Early, Scheduled

\* A new plan is late exactly when a run is there to pick it up.
LEMMA InsertKeeps ==
  ASSUME UpdateInv, NEW n \in UpdateNodes, NEW p \in Plans, InsertSchedule(n, p)
  PROVE  NodeInv(n)'
<1> USE DEF NodeInv
<1>1. NodeInv(n) /\ UpdateTypeOK
  BY DEF UpdateInv
<1>2. /\ row'[n].plan = p /\ ~row'[n].due
      /\ row'[n].status = "in_progress" => row[n].status = "in_progress"
      /\ \A q \in Plans : outcome'[n][q] = IF q = p THEN "open"
                                         ELSE IF outcome[n][q] = "open" THEN "replaced" ELSE outcome[n][q]
      /\ late[n] \subseteq late'[n]
      /\ watch[n].step # "idle" \/ row[n].status = "in_progress" => p \in late'[n]
      /\ watch'[n] = watch[n] /\ installed'[n] = installed[n] /\ early'[n] = early[n]
  BY <1>1 DEF InsertSchedule, UpdateTypeOK, Sleeping, Scheduled
<1>3. Named(n)' /\ OpenIsActive(n)' /\ Early(n)'
  BY <1>1, <1>2 DEF Named, OpenIsActive, Early, Scheduled
<1>4. RunKnowsPlan(n)' /\ ReportIsTrue(n)'
  BY <1>2 DEF RunKnowsPlan, ReportIsTrue
<1>5. DueOrLate(n)'
  BY <1>2 DEF DueOrLate, Scheduled
<1>6. Completed(n)'
  BY <1>1, <1>2 DEF Completed
<1> QED
  BY <1>3, <1>4, <1>5, <1>6

\* When the row ends no plan is open, and one that ends as completed was installed
\* or came late.
LEMMA CloseKeeps ==
  ASSUME UpdateInv, NEW n \in UpdateNodes, NEW result \in {"none", "cancelled", "completed", "failed"},
         Close(n, result),
         result = "completed" => watch[n].step = "report" /\ watch[n].result = "completed",
         late' = late, installed' = installed, early' = early
  PROVE  NodeInv(n)'
<1> USE DEF NodeInv
<1>1. NodeInv(n) /\ UpdateTypeOK
  BY DEF UpdateInv
<1>2. /\ row'[n] = NoRow
      /\ \A q \in Plans : outcome'[n][q] = IF outcome[n][q] = "open" THEN result ELSE outcome[n][q]
  BY <1>1 DEF Close, UpdateTypeOK
<1>3. \A q \in Plans : outcome'[n][q] # "open"
  BY <1>2
<1>4. Completed(n)'
  BY <1>1, <1>2 DEF Completed, ReportIsTrue
<1> QED
  BY <1>1, <1>2, <1>3, <1>4 DEF Named, OpenIsActive, RunKnowsPlan, ReportIsTrue, DueOrLate, Early, Scheduled, NoRow

\* install.sh begins under the plan that is open.
LEMMA InstallKeeps ==
  ASSUME UpdateInv, NEW n \in UpdateNodes, Install(n)
  PROVE  NodeInv(n)'
<1> USE DEF NodeInv
<1>1. NodeInv(n) /\ UpdateTypeOK
  BY DEF UpdateInv
<1>2. /\ watch[n].step = "install"
      /\ watch'[n].step = "running" /\ watch'[n].plan = row[n].plan
      /\ row' = row /\ outcome' = outcome /\ installed' = installed /\ late' = late
  BY <1>1 DEF Install, UpdateTypeOK
<1>3. early'[n] = IF Scheduled(n) /\ ~row[n].due THEN early[n] \cup {row[n].plan} ELSE early[n]
  BY <1>1 DEF Install, UpdateTypeOK
<1>4. RunKnowsPlan(n)' /\ ReportIsTrue(n)' /\ DueOrLate(n)'
  BY <1>1, <1>2 DEF OpenIsActive, RunKnowsPlan, ReportIsTrue, DueOrLate, Scheduled
<1>5. Early(n)'
  BY <1>1, <1>2, <1>3 DEF Early, DueOrLate
<1> QED
  BY <1>1, <1>2, <1>4, <1>5 DEF Named, OpenIsActive, Completed, Scheduled

\* What it ends with is what it began with.
LEMMA SuccessKeeps ==
  ASSUME UpdateInv, NEW n \in UpdateNodes, InstallSucceeds(n)
  PROVE  NodeInv(n)'
<1> USE DEF NodeInv
<1>1. NodeInv(n) /\ UpdateTypeOK
  BY DEF UpdateInv
<1>2. /\ watch[n].step = "running" /\ watch'[n].step = "report"
      /\ row' = row /\ outcome' = outcome /\ early' = early /\ late' = late
      /\ installed'[n] = installed[n] \cup ({watch[n].plan} \ {NoPlan})
  BY <1>1 DEF InstallSucceeds, UpdateTypeOK
<1>3. ReportIsTrue(n)'
  BY <1>1, <1>2, NoPlanIsNone DEF RunKnowsPlan, ReportIsTrue
<1> QED
  BY <1>1, <1>2, <1>3 DEF Named, OpenIsActive, RunKnowsPlan, DueOrLate, Completed, Early, Scheduled

\* A step at n that neither installs nor closes: no run begins, no success is
\* reported, the row keeps its plan.
LEMMA QuietKeeps ==
  ASSUME UpdateInv, NEW n \in UpdateNodes,
         outcome' = outcome, installed' = installed, late' = late, early' = early,
         row'[n].plan = row[n].plan, Scheduled(n)' <=> Scheduled(n),
         watch'[n] = watch[n] \/ watch'[n].step \in {"idle", "announce", "install"}
           \/ (watch'[n].step = "report" /\ watch'[n].result = "failed"),
         Scheduled(n)' /\ ~row'[n].due
           /\ (row'[n].status = "in_progress" \/ watch'[n].step \in {"announce", "install"}) =>
              /\ ~row[n].due
              /\ row[n].status = "in_progress" \/ watch[n].step \in {"announce", "install"}
  PROVE  NodeInv(n)'
<1> USE DEF NodeInv
<1>1. NodeInv(n)
  BY DEF UpdateInv
<1>2. RunKnowsPlan(n)' /\ ReportIsTrue(n)'
  BY <1>1 DEF RunKnowsPlan, ReportIsTrue
<1>3. DueOrLate(n)'
  BY <1>1 DEF DueOrLate
<1> QED
  BY <1>1, <1>2, <1>3 DEF Named, OpenIsActive, Completed, Early

\* Every step keeps the invariant of every node.
LEMMA NodeInvKept ==
  ASSUME UpdateInv, UpdateNext, NEW n \in UpdateNodes
  PROVE  NodeInv(n)'
<1> USE DEF Scheduled
<1>1. UpdateTypeOK /\ row[n] \in RowType /\ watch[n] \in Watches
  BY TypesOfNode DEF UpdateInv
<1>2. ASSUME NEW p \in Plans, InsertFails(p) PROVE NodeInv(n)'
  BY <1>2, ElsewhereKept DEF InsertFails
<1>3. ASSUME NEW m \in UpdateNodes, m # n,
             (\E p \in Plans : InsertSchedule(m, p)) \/ Cancel(m) \/ TimeComes(m) \/ WatcherStep(m)
               \/ AnnounceLost(m) \/ InstallFails(m) \/ ReportUnanswered(m) \/ RunDies(m)
      PROVE  NodeInv(n)'
  <2>1. /\ row'[n] = row[n] /\ outcome'[n] = outcome[n] /\ watch'[n] = watch[n]
        /\ installed'[n] = installed[n] /\ late'[n] = late[n] /\ early'[n] = early[n]
    BY <1>1, <1>3 DEF UpdateTypeOK, InsertSchedule, Cancel, TimeComes, WatcherStep, Wake, Announce, Install,
      InstallSucceeds, Report, AnnounceLost, InstallFails, ReportUnanswered, RunDies, Close, Step
  <2> QED
    BY <2>1, ElsewhereKept
<1>4. ASSUME NEW p \in Plans, InsertSchedule(n, p) PROVE NodeInv(n)'
  BY <1>4, InsertKeeps
<1>5. CASE Cancel(n)
  BY <1>5, CloseKeeps DEF Cancel
<1>6. CASE TimeComes(n)
  <2>1. row'[n] = [row[n] EXCEPT !.due = TRUE]
    BY <1>1, <1>6 DEF TimeComes, UpdateTypeOK
  <2>2. row'[n].due /\ row'[n].plan = row[n].plan /\ row'[n].status = row[n].status
    BY <1>1, <2>1 DEF RowType
  <2> QED
    BY <1>6, <2>2, QuietKeeps DEF TimeComes
<1>7. CASE Wake(n)
  <2>1. watch'[n].step = "announce" /\ row' = row
    BY <1>1, <1>7 DEF Wake, Step, UpdateTypeOK
  <2> QED
    BY <1>7, <2>1, QuietKeeps DEF Wake
<1>8. CASE Announce(n)
  <2>1. watch'[n].step = "install"
    BY <1>1, <1>8 DEF Announce, Step, UpdateTypeOK
  <2>2. /\ row'[n].due = row[n].due /\ row'[n].plan = row[n].plan
        /\ row'[n].status = IF Scheduled(n) THEN "in_progress" ELSE row[n].status
    BY <1>1, <1>8 DEF Announce, UpdateTypeOK
  <2> QED
    BY <1>8, <2>1, <2>2, QuietKeeps DEF Announce
<1>9. CASE AnnounceLost(n)
  <2>1. watch'[n].step = "install" /\ row' = row
    BY <1>1, <1>9 DEF AnnounceLost, Step, UpdateTypeOK
  <2> QED
    BY <1>9, <2>1, QuietKeeps DEF AnnounceLost
<1>10. CASE InstallFails(n)
  <2>1. watch'[n].step = "report" /\ watch'[n].result = "failed" /\ row' = row
    BY <1>1, <1>10 DEF InstallFails, UpdateTypeOK
  <2> QED
    BY <1>10, <2>1, QuietKeeps DEF InstallFails
<1>11. CASE RunDies(n)
  <2>1. watch'[n].step = "idle" /\ row' = row
    BY <1>1, <1>11 DEF RunDies, Sleeping, UpdateTypeOK
  <2> QED
    BY <1>11, <2>1, QuietKeeps DEF RunDies
<1>12. CASE Report(n) \/ ReportUnanswered(n)
  <2>1. watch[n].result \in {"none", "cancelled", "completed", "failed"}
    BY <1>1 DEF Watches
  <2> QED
    BY <1>12, <2>1, CloseKeeps DEF Report, ReportUnanswered
<1> QED
  BY <1>2, <1>3, <1>4, <1>5, <1>6, <1>7, <1>8, <1>9, <1>10, <1>11, <1>12, InstallKeeps, SuccessKeeps
    DEF UpdateNext, WatcherStep

LEMMA UpdateInvKept == UpdateInv /\ [UpdateNext]_updateVars => UpdateInv'
<1> SUFFICES ASSUME UpdateInv, [UpdateNext]_updateVars PROVE UpdateInv'
  OBVIOUS
<1>1. UpdateTypeOK'
  BY UpdateTypeKept
<1>2. CASE UNCHANGED updateVars
  BY <1>1, <1>2, ElsewhereKept DEF updateVars, UpdateInv
<1>3. CASE UpdateNext
  BY <1>1, <1>3, NodeInvKept DEF UpdateInv
<1> QED
  BY <1>2, <1>3

-----------------------------------------------------------------------------
\* The inductive invariant holds in every state of every run.
THEOREM UpdateInvariance == UpdateSpec => []UpdateInv
BY UpdateInitEstablishes, UpdateInvKept, PTL DEF UpdateSpec

\* The table and the watchers keep their shape (update_schedule and
\* update-watcher.sh), whatever the number of nodes, plans and mishaps.
THEOREM UpdateTypeCorrect == UpdateSpec => []UpdateTypeOK
<1>1. UpdateInv => UpdateTypeOK
  BY DEF UpdateInv
<1> QED
  BY <1>1, UpdateInvariance, PTL

\* A plan recorded as completed was installed on the node, unless it was made
\* over a run that was under way (POST /update-complete closes the active row).
THEOREM CompletedPlansWereInstalled == UpdateSpec => []CompletedWasInstalled
<1>1. UpdateInv => CompletedWasInstalled
  BY DEF UpdateInv, NodeInv, Completed, CompletedWasInstalled
<1> QED
  BY <1>1, UpdateInvariance, PTL

\* No update begins before its time, unless its plan was made over a run that was
\* under way or had died (GET /update-status hands an in_progress row out at once).
THEOREM UpdatesWaitForTheirTime == UpdateSpec => []NotBeforeItsTime
<1>1. UpdateInv => NotBeforeItsTime
  BY DEF UpdateInv, NodeInv, Early, NotBeforeItsTime
<1> QED
  BY <1>1, UpdateInvariance, PTL

-----------------------------------------------------------------------------
(* The composition.                                                        *)

\* A step of the composition is one of each part, or leaves the part alone.
LEMMA NodeJobsSteps ==
  NodeJobsSpec => BlocklistSpec /\ UpdateSpec
<1>1. NodeJobsInit => BlocklistInit /\ UpdateInit
  BY DEF NodeJobsInit
<1>2. ASSUME [/\ \/ part = "blocklists" /\ BlocklistNext /\ UNCHANGED updateVars
                 \/ part = "updates" /\ UpdateNext /\ UNCHANGED blocklistVars
              /\ UNCHANGED part]_jobVars
      PROVE  [BlocklistNext]_blocklistVars /\ [UpdateNext]_updateVars
  BY <1>2 DEF jobVars
<1> QED
  BY <1>1, <1>2, PTL DEF NodeJobsSpec, BlocklistSpec, UpdateSpec

\* What the run checks of both jobs at once.
THEOREM NodeJobsTypeCorrect == NodeJobsSpec => []NodeJobsTypeOK
BY NodeJobsSteps, BlocklistTypeCorrect, UpdateTypeCorrect, PTL DEF NodeJobsTypeOK
===============================================================================
