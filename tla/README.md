# ClassGuard in TLA+

ClassGuard filters the web for a school district: a DNS engine answers every
query of every device by the policy in force for the student behind it, teachers
start sessions, tests and penalties that change that policy at once, and an API
on one or more nodes keeps it all in Postgres and Redis. This directory is a
verification project for the parts of it where several actors meet: modules that
follow the code action by action, configurations that check them with TLC, and
proofs for every size of the system.

The source is in `src/`; line numbers are those of this commit. `PROJECT.json` names, for every
definition, the lines it stands for.

## 1. Inventory

### Processes and stores

| Process | Runs | State of its own |
|---|---|---|
| `dns-engine` | `resolveQuery` per query, a 200 ms flush timer | ring of log entries, in memory |
| `backend` (API) | route handlers, sockets, cron jobs of `scheduler.js`, the 30 s heartbeat of `ha.js` | `autoPromoteCandidateSince`, `config.node.role`, in memory |
| `chrome-extension` | service worker: policy sync, lock tab, activity events | `chrome.storage.local`, module variables lost with the worker |
| host timer | `update-watcher.sh`, once a minute | `.env` |
| Postgres | one per node; a standby's is a read-only copy | all tables |
| Redis | one per node | cached policies, blocklists, log and event streams, overrides |
| keepalived | one per node | who holds the floating IP |

Processes talk over HTTP (engine to API, API to API between nodes, host script to
local API), through Redis keys (policy cache, streams), through Postgres
rows and replication, and through an in-process event bus that a socket layer
forwards to browsers. A route handler is a chain of awaits: everything between two
of them can interleave with every other handler, cron job and node.

### Components

| Component | State | Operations | What is hard | What makes it correct |
|---|---|---|---|---|
| DNS query log (`logger.js`, `scheduler.js:drainDnsLog`, `routes/dns.js`) | ring, flush, Redis stream, cursor, `dns_logs` | log, flush, read, insert, fall back, forward, trim, save | overlapping cron runs, crashes at each await, approximate MAXLEN, exclusive and inclusive bounds, a standby's forward | nothing disappears without a reason, the cursor stays behind the table, no entry twice without cause |
| Effective policy and its cache (`policyResolver.js`, `policyCache.js`, the routes that write) | restriction and assignment tables, `student:policy:*` keys | six reads and a SET; commit and DEL, or commit alone | reads that straddle a commit, DEL against SET, a second cache write by the engine, crashes between commit and DEL | a restriction takes effect and is lifted, stale copies are explained and bounded in time |
| DNS query decision (`resolver.js` and its lookups) | none across queries | one query: zones, eight lookups, policy, layers, forward, log | reads at three instants while the world moves, any subset of lookups failing, the order of layers | the answer is that of some instant, restrictions hold, the log agrees |
| High availability (`ha.js`, `keepalived.js`, `update-watcher.sh`) | `nodes` rows on each node, recovery, `.env`, container role, pending and split-brain flags | heartbeat, vote, promote, relay, probe, restart | partitions, lost relays, stale replicas, crashes between the steps of a promotion and of the script | at most the promotions the design allows, a promotion completes, split brain is seen |
| Lesson sessions, bell schedule (`classes.js`, `scheduler.js`) | `lesson_sessions`, `class_members` | start, edit, end, auto-start, auto-end | SELECT then INSERT across a cron and a route, loops cut short | one active session per class; an end frees everybody |
| Screen locks (`extension.js`, `classpulse.js`, `sockets/index.js`, `screenLock.js`, `service-worker.js`) | ClassPulse session and its students, `cg_locked` on the device, a mirror in Redis | lock, unlock, join, end | messages nobody sends again, a lock that awaits a URL, handlers that change a row and tell the students an await later | nobody stays locked, the focus lock reaches who joined, the mirror tells the truth |
| Penalty box and unblock requests (`penaltyBox.js`, `unblockRequests.js`, `penaltyGrants.js`) | `penalty_box`, `unblock_requests` | place, release, expire, ask, approve, deny | an upsert that meets an expired row; read, approve and grant in separate statements | a grant belongs to one penalty; an approval has its effect |
| Override codes (`overrideCodes.js`) | `override_codes`, Redis overrides | create, redeem | check then mark, mark then SET | a code is redeemed once |
| Lockdown extension (`lockdownGuard.js`, `service-worker.js`, `rules.js`) | lock tab, cached policy, network rules | sync, engage, correct, disengage | three stores written one after the other, overlapping syncs, tab and window events against awaits, tabs and rules Chrome refuses, worker restarts, offline | one lock tab and no other; a test that ended lets go; the device follows the server |
| Blocklists (`blocklistSync.js`, `blocklists.js`) | one Redis set per source, the union | add, switch, sync, rebuild, remove | a shared temporary key, read then union, four kinds of runs in one process | a set is a list that was served; what is listed stays blocked; the union is that of the active sources in the end |
| Update schedule (`ha.js`, `update-watcher.sh`) | `update_schedule` | schedule, claim, install, report, cancel | a row reused while the script runs, lost reports, reboots | done means installed, nothing early, no schedule is stuck |
| DHCP and IPAM (`dhcpReservations.js`, `dhcpKeaSync.js`, `dhcpIpamSync.js`, `dhcpLeaseIpamSync.js`, `windowsDhcpImport.js`, `routes/dhcp.js`, `routes/ipam.js`) | `dhcp_subnets`, `dhcp_reservations`, `ipam_subnets`, `ip_addresses`, Kea's running configuration and leases | reserve, release, import, switch, delete; push to Kea; write to IPAM; take over leases; edit an address | three stores told one after the other, by handlers that overlap; a job that writes by ids it read earlier; a Kea that forgets | IPAM tells the reservations, keeps what admins typed, and both Kea and IPAM settle |
| Others | | | | listed in `PROJECT.json` with the reason they are left out |

## 2. Modules

| Module | What it is |
|---|---|
| `DnsLogPipeline` | the query log from `logQuery` to `dns_logs` |
| `DurableLog` | what that pipeline promises, without its machinery |
| `MCDnsLogPipeline` | symmetry, and the history variable `ExactlyOnce` needs |
| `DnsLogPipelineProofs` | the inductive invariants of the pipeline, and what follows from them |
| `PolicyCache` | tables, cached copies, writers and readers of a student's policy |
| `MCPolicyCache` | symmetry and two bounded initial states |
| `DnsDecision` | one DNS query through all layers in a changing world |
| `MCDnsDecision` | the situations and outages a run looks at |
| `HaPromotion` | promotion, quorum, split brain, update-watcher, links and hosts |
| `MCHaPromotion` | symmetry of the standbys |
| `Classroom` | lessons of a class, ClassPulse's focus lock, the screens teachers lock |
| `Grants` | penalty box, unblock requests, override codes |
| `MCTeaching` | those two together for TLC |
| `BlocklistSync` | the block lists in a node's Redis |
| `UpdateSchedule` | scheduled updates: the primary's table and every node's watcher |
| `MCNodeJobs` | those two together for TLC |
| `DhcpIpam` | one DHCP scope, its reservations, and what Kea and IPAM make of them |
| `MCCluster` | the long run of `HaPromotion` and of `DhcpIpam`, for TLC |
| `PolicyCacheProofs`, `DnsDecisionProofs` | an inductive invariant of each of these modules, and what follows from it |
| `TeachingProofs` | the same for `Grants` and `Classroom` |
| `NodeJobsProofs` | the same for `BlocklistSync` and `UpdateSchedule` |
| `ClusterProofs` | the same for `HaPromotion` and `DhcpIpam` |
| `LockdownGuard` | a lockdown test on a student's device |
| `MCLockdownGuard` | the three parts of a test TLC looks at |
| `LockdownGuardProofs` | its inductive invariant and two theorems |

`DnsLogPipeline` implements `DurableLog`; the others stand alone and meet in the
data they abstract: what `PolicyCache` caches is what `DnsDecision` reads as
`student`, `floor` and `subnet`, and what `DnsDecision` logs enters
`DnsLogPipeline` as an entry. A node's role, the subject of `HaPromotion`, is
`standby` in `DnsLogPipeline`. `Classroom`, `Grants` and `LockdownGuard` start from the same
route handlers as `PolicyCache`, and look at the other half of them: `PolicyCache` at
the rows and the invalidation, they at what the rows mean and at the messages that follow.
`BlocklistSync` fills the sets whose answers `DnsDecision` takes from `listed`.

### DnsLogPipeline

Entries are numbered as the resolver produces them; since `XADD *` keeps the
order, the number stands for the stream id too. The ring is the array of `logger.js` with its
`ringHead`, `ringTail` and `ringCount`: `Enqueue` is `logQuery`, which moves the tail past the oldest
entry of a full ring and overwrites the slot at the head; `DequeueAll` walks from the tail; `FlushStart`, `FlushChunk` and `FlushFail`
are `flushToRedis`, whose items live in a local variable once the ring was
emptied; `Append` is `XADD MAXLEN ~`, which may trim or not. A member of `Drains` is one run of
`drainDnsLog`: `pc` says which await it is at, `cursor`, `batch`, `last`, `full` are its locals.
Nothing in the code keeps two cron ticks apart, so `StartDrain` has no guard on the other
runs. `InsertBulk`, `DropOnly`, `FallBack`, `InsertSingle` are the
unnest statement and its one-at-a-time fallback; `Forward` and `ForwardFails` are a standby's
POST to the primary, which may store any part of a batch before it fails: its fallback inserts one entry at a time.
`EngineRestart`, `DrainFails` and the failures inside the other actions share one budget,
`MaxFaults`. `lostRing`, `lostFlush`, `lostCap`, `lostInsert` are history: why the code gave an entry up.
Bounds: `MaxEntry`, `MaxFaults`, and two rows of an entry stand for two or more.

`DurableLog` is what an operator may rely on. It knows no ring, chunk, stream or cursor, but counts `mishaps`. Without
one (`Log`, `Settle`) an entry is given up for two reasons only: Postgres does not take it, or as many newer entries came as the
ring (`RingSize`) or the stream (`StreamMax`) promises to hold (`Overrun`); a malformed entry is never stored. A `Mishap` may
cost any entry. Neither is taken back. So a ring that gives a slot away one entry early (the mutant), a chunk edge that
skips an entry, a cap or a trim that goes too far, or a fallback that drops a good entry while the database is well breaks it.

### PolicyCache

The variables are the tables `resolvePolicy` reads, the Redis copies, and the locals of running
calls. A writer's action is its commit: the tables change and `todo` (keys to delete) or `reading`
(whom to look up first) say what its handler does next, in `LookUp` and `Invalidate`. A
resolver's actions are the six reads in the order of the code, then `Store`; a call by the DNS engine
stores again (`EngineStore`), and may time out at any point while the API goes on. Every commit happens
at an instant of its own, and `Tick` moves the clock over expiry times; a
call takes at most `MaxFill`, which is an assumption about the deployment (the code has no bound
on a slow query, and with a call that sleeps for an hour no bound on stale data exists).
`restrictedAt`, `touchedAt` and `abandoned` are history variables for the properties.

Not every writer deletes copies. `Enrol` is one enrolment of a roster sync (`googleClassroom.js:157`, `oneRoster.js:234`, started by
`routes/roster.js`), which puts a student into a class and calls no `invalidatePolicy`: in a class with a lesson the student is
restricted by it from then on and no copy goes, so the student joins `abandoned`, as those whose writer died. `Inherit` may delete nothing either, and
`EditCategoryRule` deletes the wrong key; neither changes a restriction. What such writers leave behind is bounded by `BoundedStaleness` alone: until the
copies expire, at most `POLICY_TTL` and two calls later.

### DnsDecision

`world` is what the lookups of a query would return now; `Change` replaces one
aspect of it at any moment of the query. `ReadZones`, `ReadAll`, `ReadPolicy`, `Decide`, then
`Resolved`, `Unresolvable` or `ForwardThrows` follow the awaits of `resolveQuery`. The eight
lookups are one step because they are pipelined in one round trip; those in an outage
take the fallback of the code, each its own. `Decision` is the chain of early returns
in its order, `Ordinary` the part of it for a student in no restriction, `Screen` the checks of the lists at its end. The properties compare it with `Verdict`, which is stated by what each layer
is for and not by the order.

### HaPromotion

Each node has a host, a Postgres with its own copy of the `nodes` table
(`rows[n]`), an API process whose role is that of its container, and the host script.
`RecordOwn` is what a node does to its own row: a local UPDATE, or a relay to the
primary it knows of, forgotten if it fails. The awaits of `promoteThisNode` are
steps of `pc`, so a host or process may stop between any two of them;
`RecoveryEnds` is Postgres finishing `pg_promote()` in its own time.
`Answers` and `ReachableByQuorum` are the vote and its count. A check of the
quorum is one action: its calls take at most three seconds and are repeated every
thirty, so what matters is that it may be wrong a moment later, and it may. The
watcher has three steps and can stop between them. Auto-promotion is taken as switched on.
keepalived is external: it may hand the address to any node that no reachable
node holds it on, and tells the local API once per transition. `is_active` and
the tie-break by `last_seen` are left out: with two rows naming a primary, either may be returned.

### Classroom

One class, its lessons, one ClassPulse session and its students. A job is a handler or a
cron run: `StartLesson` is the UPDATE of the transaction and its snapshot, `CommitLesson` the INSERT
and COMMIT; `AutoStart` is the SELECT of `autoStartLessons`, `InsertAutoLesson` what its loop does for this
class; `EndLesson` and `EndScheduledLessons` are the UPDATEs, `ReleaseClass` the loop over the roster
that follows. `Join`, `InsertJoined`, `GreetJoined` are the three parts of joining. `Send` is the one relay of
`sockets/index.js`: the message to the room and the mirror in Redis, an un-awaited write that may be lost for any of the students (`screenLock.js`, a `Fault`). On the device, `Receive`
is the handler of a message up to its first await, and `ArmLock` the rest of `lockScreen` after it
asked for the server's URL. `JobStops` is a statement that throws or a
process that stops. `owed`, `excuse` and `raced` are history: when a release was decided on, what may have
gone wrong since the last message to a student, and whether two starts overlapped.
The 12 hours after which the mirror expires are left out.

### Grants

Rows of three tables and the handlers in flight. A handler is cut at every await:
`AskForSite` then `RecordAsk`; `Approve` or `ApproveLinked` then `Grant`; `FindCode`, `MarkUsed`, `OpenDomain`.
`ReuseBox` is the upsert that meets a row which is still there, and `span` counts the
restrictions such a row has served, which the table itself does not. A code made for a request has no
target student; this is a bound, as nothing reads both.

### BlocklistSync

`task[t]` is a run of `blocklistSync.js`: `syncAll`, `reconcileRedis`, a manual sync or a removal; all go through
`ClearTmp`, `AddBatch`, `Rename` or `DropKey` and `DropTmp` (`storeInRedis`), then `ReadActive` and `StoreUnion`
(`rebuildMasterList`). A batch is one site. `Fails` is any exception: of a sync, which `syncAll` and
`reconcileRedis` catch and go on; of a SELECT, an EXISTS or the last rebuild of a loop's own, which ends it. And `RenameFails` is the RENAME of a temporary key that another run renamed
already. Nothing keeps runs of one source apart except that a reconciliation waits for the last one.
`disturbed` and `steady` are history: another run began to fill the temporary key, and the source has been
active all along. A deleted source whose sync is in flight leaves its set behind; no active source reads it.

### UpdateSchedule

A plan is one call of `doScheduleUpdate`: `InsertSchedule` per node, any of which may fail. `Wake` to `Report` are the
lines of `update-watcher.sh`, and `RunDies` may happen at each of them; systemd runs one script at a time. A
row has the plan it was last set to, so what a report closes may not be what was installed: `late` records the plans
made over a run that was under way, `installed` and `early` what the installs were.

### LockdownGuard

The device keeps a cached policy (`cached`), network rules (`rules`) and the lock
(`lock`). `sync[y]` is a run of `syncPolicy` or `releaseExpiredCachedLockdown`: `Fetch`, `FetchFails` or `ReleaseCached`,
`StorePolicy`, `ReadRules` and `UpdateRules` (`enforcePolicy`, which reads the installed rules and
replaces them an await later, so two runs may collide on a rule id, and Chrome may refuse for a reason of its own: `UpdateRejected`), `ApplyLockdownState` and what it
leads to. `rules` is the set of policies whose rules are installed; all rules of a lockdown have the same ids.
`Throw` is the catch of `syncPolicy`: the cached policy, once. Tab and window events are delivered in order and handled by `heard[h]`.
`WorkerStops` loses all runs, listeners and `suppressNextTabCreated`, and keeps the storage.

A tab has a window (`home`), which goes with its last tab. `tabs.create` opens a tab in a window there is; when none is open
Chrome may reject it (`EngageFails`, `ReopenFails`: `setState` does not run and `suppressNextTabCreated` stays set) or open a window for it, which costs a `Happen`.
Such a window, and any window the student opens, is one `handleWindowCreated` hears of and closes while a lock is on (`HandleWindowCreated`,
`CloseWindow`). Chrome OS could open, and the guard close, a window of its own for ever; `MaxHappens` excludes that, and so `DeviceFollowsServer` speaks of the time after.
`handleTabActivated` and `handleFocusChanged` move the focus and nothing else; a tab the student drags to another window is not modelled.

After the sweep the lock tab is the only one. If the student closes it, its window goes too, `tabs.create` may find no window,
and from then on every window the student opens is closed at once, until the test is over: such a device has no tab at all. `windowless` is the
history of that, and `OneTab` says what the device has then.

`astray` is history too, for what `OneTab` excepts: the worker was stopped; the closing of a tab was heard before the lock on that
tab was stored (the listener compares it with the lock it finds, and lets it pass); a run stored the lock while a listener was about to put
a tab of its own in its place; or a listener stored its tab when the lock was no longer the one it had read, or while somebody else had another tab for it. Each
of them does leave the device with no tab or with two: without any one of them TLC finds a device at rest that breaks `OneTab`
(for the last ones it takes two listeners, two tests of which the first runs out, and up to four things that happen).

### DhcpIpam

The variables are the row of one scope, its reservations, the IPAM subnet that covers the pool (or none), the row of IPAM for each address, Kea's leases
and what its running configuration serves. An admin's request is its first statement (`CreateReservation`,
`UpdateReservation`, `ImportReservation`, `DeleteReservation`, `SwitchScope`, `DeleteScope`) and then, in `clerk[t]`, the awaits that follow:
`ReadScope`, `ReadReservations`, `ApplySubnets` (`dhcpKeaSync.run`), `FindSubnet` and `AddSubnet` (`syncSubnetToIpam`), `LookUp` and `MarkReserved` (`syncReservationToIpam`),
`SaveReservation` (the UPDATE of a PUT, which writes back the address its SELECT has read), `RemoveFromIpam` and `DropReservation` (`deleteReservation`). Each may fail alone: `PushFails`,
`CoverFails` and `SyncFails` are caught
and logged, and the handler goes on. A member of `Pushes` is the cron job or the button, which only pushes. The pages of IPAM change the
scope too: `/ipam/subnets` without any push (`SwitchScopeInIpam`, `DeleteScopeInIpam`), and `syncDhcpScope` of an IPAM subnet as that and a push nobody awaits, which is one of `Pushes`.

A run of `dhcpLeaseIpamSync` takes the leases, then for each of them a SELECT (`LookUpLease`); for an address without a row a second one, of the IPAM
subnet (`MatchSubnet`), which passes over a lease that no subnet covers; and an INSERT or UPDATE some awaits
later; then `SelectStale` and one `Sweep` per row it found. `CoverPool` and `UncoverPool` are the admin who makes and deletes that
subnet: the rows of its addresses stay, without a subnet, and an INSERT that refers to it fails, with the whole run. Rows have ids, because handlers and runs write by id: a
row deleted and made again is another. `AddAddress`, `EditAddress` and `DeleteAddress` are the admin on the page of IPAM;
`placed` is that the row has a subnet, which that page looks by.

An import (`windowsDhcpImport.js:212`) moves a reservation to another address, and tells IPAM of the new one only: the row of the old one stays
reserved. A PUT that has read the reservation before moves it back. The model imports one reservation at a time: the real import is a loop over
several, in one transaction and then one `syncReservationToIpam` each.

`typed` and `blurred` are history. An address is blurred when one of these has happened to it, and each of them does
break the agreement of IPAM with the reservations (without any one of them TLC finds the disagreement, within three events): a statement of the IPAM half fails or the
process stops during a request for it (nothing repeats it); the scope is deleted with its reservations, or a reservation is moved away (nobody tells IPAM);
the row of a reservation is deleted by hand, or by the lease job, under a handler that has looked it up; a lease run, or
the deletion of the same reservation, was between its read and its write when the reservation was marked; the row was edited under a lease
run about to delete it.

## 3. Runs

All bounds are in the `.cfg` files. `CHECK_DEADLOCK FALSE` stands only where the
bounds let everything stop (clock at its end, writes used up, a cluster at rest).

| Run | Shows | Bounds, and why they are enough |
|---|---|---|
| `dns_log` | no entry vanishes, the cursor is safe, nothing is stored twice without fault or overlap, every entry is settled in the end, and the pipeline implements `DurableLog` | three entries, ring, batches and stream of two: ring overflow, a full and a short batch, and a cap that bites all occur; two overlapping runs; one fault. The safety properties but `ExactlyOnce` are proved for every size |
| `policy` | a wrong cached restriction always has one of five stated causes; whatever goes wrong, a copy is right again `TTL` and two calls after the last change | one student (students do not interact except through one class and its lookup). Part "policies": one commit, the API and the engine caching the same key side by side until all copies have expired. Part "restrictions": more commits of all kinds against one call, with one crash |
| `policy_category` | violation: see Findings | |
| `dns_answers` | an answer is that of one instant; restrictions hold; the log | all combinations of two sets of situations chosen so that every layer meets every other; two events per query, since reads happen at three instants |
| `dns_closed` | violation: see Findings | |
| `ha_safety` | own table, no second promotion | three nodes, the least with a quorum; two faults; grace 0, the weakest guard a promotion can have (one heartbeat decides), so longer ones allow less |
| `cluster` | promotions complete, split brain is detected; IPAM tells the reservations and keeps typed rows, Kea and IPAM settle | a behaviour is about one of the two, which share nothing. Roles: two nodes, three faults, role edits by hand. DHCP: two addresses, so that a reservation can move, one of them reserved at first and the other leased; two reservations and two requests, so that a request meets its successor and its undoing; one push and one lease run beside them; two events, of any kind (admin, lease, failure, restart). The safety properties are proved for every size |
| `ha_failover` | violation: see Findings | two nodes, one fault: the primary's host dies |
| `teaching` | one session; nobody stays locked; the focus lock reaches who joined; the mirror is true; a grant is in its box, an approval has its effect, a code opens once | one of four parts per behaviour, which share nothing: two lessons and two jobs; the screen of one student (students meet only in the roster), one message under way, one fault; two penalty rows and requests with two handlers; one code, two addresses |
| `node_jobs` | a set is a list that was served, what is listed stays blocked, lists settle; done means installed, nothing early, every schedule ends | block lists: two sources, one that changes and one that is emptied, both loops and one request; updates: two plans and two mishaps, of any kind |
| `lockdown` | one tab, a finished test lets go, the device follows the server | one student. Part "tabs": one test, three tabs opened and closed in one window or several, three times at any moment; "tests": two tests on and off the network, with and without a token, two things that happen; "overlap": one test, two runs that overlap, and one thing that happens |
| `lockdown_offline` | violation: see Findings | |

### Fairness

* `DnsLogPipeline`: the 200 ms timer, the 5 s cron and the awaits of a running
  drain are weakly fair; faults and new entries are not. Timers and awaits of a live process
  keep going; the number of faults is bounded, so a run of the system eventually has none.
* `HaPromotion`: the heartbeat interval, the await chain of a promotion with
  Postgres leaving recovery, the host timer and replication are weakly fair on a
  host that is up. Nothing is assumed of hosts, links and keepalived: the liveness properties speak of behaviours in which those settle (`<>[]`).
* `BlocklistSync`: every run goes on, and the two loops start again and again (cron). A loop that can rename again
  and again does so (strong fairness): the other loop could delete the temporary key between the last SADD and
  the RENAME only once per turn of its own, at other times of the day.
* `UpdateSchedule`: systemd starts the watcher every minute and the script runs on; `scheduled_at` is reached. Mishaps
  are bounded: the reports that are lost are finitely many.
* `LockdownGuard`: the alarm starts a sync every minute, awaits of a worker that runs continue, cron expires sessions every
  minute, sign-in is tried with every alarm. Nothing is assumed of the network, the student and Chrome: a device that stays offline must still be
  released (`FinishedTestLetsGo`), and one that is on the network from some point on follows the server.
* `DhcpIpam`: a request, a push and a lease run go on, and cron starts a push every ten and a lease run every two
  minutes. What admins do, leases, failures and restarts are bounded, so `DhcpSettles` speaks of the time after. It leaves out a lease whose address has no row while no IPAM
  subnet covers it: the job passes it over (`dhcpLeaseIpamSync.js:52`), and only a subnet made later brings it in.
* The other modules check safety only. `BoundedStaleness` puts a time on what would be a liveness property.

## 4. Findings

| Run | What the code does | What is said of it |
|---|---|---|
| `policy_category` | the category-rule route deletes a key without location that nothing ever writes (`categories.js:262`) | "Invalidate Redis policy cache for all users on this policy" |
| `dns_closed` | a pipelined check whose single command failed counts as "not listed" (`blocklistLoader.js:35`) | "Fails CLOSED" |
| `ha_failover` | a standby believes its VRRP state only as replicated from the primary, so when the primary's host dies the row never says MASTER (`ha.js:294`, `ha.js:1144`) | "A standby now auto-promotes itself once it has held VRRP MASTER *and* independently confirmed the old primary is unreachable" |
| `lockdown_offline` | `releaseExpiredCachedLockdown` stores the released policy before it changes the rules; if the worker stops in between, the next call returns early (`service-worker.js:194`), and without token and network the rules of the finished test stay | "a finished student must never stay locked waiting for the network" (`lockdownGuard.js:29`) |

Met while modelling, without a run:

* `insertDnsLogBatch` drops a batch of one whatever made its INSERT fail (`scheduler.js:95`), where the comment above says
  that only malformed records are dropped (`OnlyMalformedDropped`).
* In the penalty box the allow rules of the ordinary policy stay open (`policyResolver.js:239`), where the comment at
  line 97 calls the box's own sites the one exception (`OnlyOwnSitesOpen`).
* An auto-start that selected its classes before a teacher's start committed opens a second session (`scheduler.js:391`), where the comment at
  341 says that a manual start always wins (`ManualStartWins`). `OneSession` says that this overlap is the only way.
* Placing a student whose expired row was not released yet keeps the sites of the last restriction (`penaltyBox.js:77`),
  where migration 102 says a later one starts with an empty list (`SitesAreForThisRestriction`).
* Two redemptions of one code that overlap both succeed (`overrideCodes.js:146`); the page calls a code single-use (`SingleUse`).
* Two syncs of one source can mix their lists in the shared temporary key (`blocklistSync.js:95`), where the heading says
  "atomic replace" (`AlwaysWhole`).
* In a monitor-only session `resolver.js:114` takes the session id from the
  network floor, which has none, so queries are logged without it.
* The simulator (`policies.js:71`) takes the network floor for an unidentified device where the
  resolver prefers the subnet policy.
* A promotion that is cut short after `pg_promote()` is not resumed: a retry is refused because the node is
  writable (`ha.js:603`), and nothing sets the pending flag. `CutShort` names this state and the
  liveness properties exclude it.
* `isPrimaryReachableByQuorum` counts a majority of those who answered and the asking node,
  where the comment above it (`ha.js:201`) speaks of a majority of the others.
* `PUT /reservations/:id` takes the pool from `dhcp_reservations`, which has none (`dhcp.js:229`), so every request that names an
  address is refused and the branch for an address that changed (`dhcp.js:256`) is never taken.
* A change of DHCP options is not pushed when it is made, only by the next cron run.
* An import that moves a reservation leaves its old address reserved in IPAM for it (`windowsDhcpImport.js:212`); only the DELETE of the reservation frees it.
* Deleting a scope leaves its addresses reserved in IPAM, with no reservation (`dhcp.js:155`); the lease job takes them for
  reserved and never heals it, where `dhcpLeaseIpamSync.js:8` says that a reservation exists.
* A row the lease job made and that is then reserved keeps `lease_managed`, where migration 036 says "never": once
  un-reserved and leased, it is deleted with its lease, where `dhcpIpamSync.js:66` says that the address stays documented.
* A roster sync enrols a student in a class with a running lesson and leaves the cached policy (`googleClassroom.js:157`, `oneRoster.js:234`), where
  `POST /classes/:id/members` deletes it (`classes.js:162`): the lesson's restriction comes up to a minute late.
* With a lock on, closing the only window leaves the device without any: `tabs.create` needs one (`lockdownGuard.js:201`), and the next window the student
  opens is removed as an escape (`lockdownGuard.js:172`) until the test is over.
* An address first seen through a reservation gets no `ipam_subnet_id` (`dhcpIpamSync.js:45`), so the page of its subnet does not
  show it and offers it as free (`ipam.js:1164`).
* `PATCH /addresses/:id` (`ipam.js:309`) edits a row without clearing `lease_managed`, where `dhcpLeaseIpamSync.js:15` says that
  `routes/ipam.js` clears it the moment an admin edits a row.

The names in parentheses are definitions of the modules that state what the comment says; no run checks them, since
the properties that the runs check already say where the code departs from them.

## 5. Proofs

TLAPS checks these for every value of the constants, under the named assumptions of
the modules (`PipelineAssumption`; `PolicyAssumption`; `DecisionAssumption`; `OriginalIsNode`, `GraceIsNat`, `RelabelsAreRoles`, `FaultsAreNat`; and those of
`Grants`, `Classroom`, `BlocklistSync`, `UpdateSchedule`, `DhcpIpam`, `LockdownGuard`): the bounds of the runs play no part.

**DnsLogPipelineProofs.** `TypeCorrect`, `NoEntryVanishes`, `CursorIsSafe`, `Refinement`, `StoredOnce`.
That the cursor is behind the table does not survive a step by itself: a run
saves a cursor it advanced several awaits ago, while other runs trimmed and
saved. The invariant adds what makes it so:
`Numbered` (nothing is known of an entry that was not logged), `Fifo` (ring, flush and stream hold
consecutive ages, and no cursor has passed an entry that has yet to enter the
stream), `RunBehindTable` (a run's own cursor is behind the table, and what lies between it and the last id it read is settled or
in its hands). `Fifo` is what makes an exclusive read safe: an entry cannot appear in the
stream behind a cursor. The lemmas on `FirstOf`, `LastOf` and `Oldest` say that
chunks are prefixes. The refinement maps each step to `Log`, `Settle`, `Mishap` or a
stutter. `RingInv` says that the slots from the tail on hold the `ringCount` newest entries: it makes the entry a full ring
drops the oldest one, and `RING_SIZE` newer ones overrun it; `CapOverruns` says the same of the cap of the stream. `Honest` collects what
every step owes the abstraction: without a fault it gives up nothing but what Postgres rejects and what is overrun. `StoredOnce` is about `OverlapSpec`, which remembers whether two runs overlapped. While neither that nor a fault has happened (`OnceInv`),
what a run has in hand has not been stored, and the ids at rest in the stream that have been are those its cursor, or the saved one, has passed:
XREAD excludes them, whatever XTRIM has left.

**PolicyCacheProofs.** `PolicyInvariance`, `PolicyTypeCorrect`, `InvalidationsAreNotLost`, `FreshInvariance`,
`CopiesAreFreshInTime`. A stale copy may be written long
after the change it misses, by a call that read the tables before it; so the invariant is about the calls in flight. `ReadsHold`: what a call has
read so far is what the tables say, if the student's restriction has not changed since the call began. `CopiesHold`: so is what is cached, measured from
the instant it was read from, and this is what lets an engine's call cache once more what it found cached. `LooksUpFirst`: a
writer that still asks whom its target concerns has nobody yet. `CommitKeeps` is the key lemma: a commit that touches the restriction of
nobody but those whose copies it is about to delete, or who are in `abandoned`, keeps all of it; every route and cron job is then an instance, the category rules
included, because rules are no part of a restriction. A roster sync (`Enrol`) deletes no copies, so it puts the student into `abandoned` until a later job deletes
the student's copies: the theorem says nothing of them meanwhile, and what they may see is bounded by `CopiesAreFreshInTime` alone.

`BoundedStaleness` needs instants. A copy of what the tables said before the student was last touched (changed, or deleted from Redis)
is written by a call that began before the touch, so at most `MaxFill` after it (`CallFresh`, on the calls on the chain); or by
an engine's call that found such a copy, and that began before the copy was there, since no call begins while one is live
(`CallFresh` on the calls that ask the backend or carry its answer home, `PairFresh` on two of them). The copy the second call found has to
be live until it is over, or a third could begin and find what the second stores: this is where `TTL > MaxFill` of `PolicyAssumption` is used, and the only place.
So the last stale copy is written two calls after the touch and gone a `TTL` later (`CopyFresh`). `StoreFresh` is the key lemma.

**DnsDecisionProofs.** `DecisionInvariance`, `DecisionTypeCorrect`, `AnswersAreOfOneInstant`, `RestrictionsHold`,
`LogIsTruthful`. A query reads at three instants, and the world changes between them. `ReadsFitEach` says which situation of the query's lifetime
each part of what it read comes from, `ReadsFit` that a single one accounts for all of it while the world changed at most once: what was read before the
change and what was read after it differ in one aspect, and an aspect is read at one instant. `DecisionIsVerdict` relates the
order of the early returns to what each layer is for.

**ClusterProofs, promotion.** `Invariance`, `TypeCorrect`, `OwnTable`, `NoneIsPromotedTwice`. That a node running as primary is
the only primary of its own table goes back to an UPDATE several steps and a
restart earlier. `EnvFollows` says that a container never has a role its `.env` has not, and that
`.env` is a standby's until the promotion has recorded its flag; `OthersDemoted` that from the second
UPDATE on nobody else is primary in the table, and that no relay from another
node can undo it; `Registered` that the process put its role into its row when it started. `StartApiRows` is the key lemma:
a relay never makes a row of somebody else's table a primary, since only a node in recovery relays
its role and such a node is a standby.

`NoneIsPromotedTwice` assumes at most three nodes, as its property does (see below). A standby's countdown asks for the primary its own table
names. `OriginalInv`: the original is never a standby; `CopyInv`: while Postgres is in recovery the table is a copy and names
the original and nobody else. A standby that was promoted before and acts as primary names itself (`OwnTable`), reaches itself, and so votes
for itself. `OneVoteDecides` is where three nodes are used: one vote for the primary is enough, and so is what
the standby sees by itself when the third node is silent.

**TeachingProofs, grants.** `GrantsInvariance`, `GrantsTypeCorrect`, `GrantsStayInTheirBox`, `ApprovalsTakeEffect`,
`CodesOpenOnce`, `ReleasedBoxesAreFinal`. A handler acts on what it read statements ago. The invariant says
what stays true of that: `CallsNameRealRows` (the row a handler is about to write exists, and the request it is
about to grant was approved), `RequestsNameRealBoxes`, and for codes that the handlers
between SELECT and UPDATE of one code are at most one until two overlapped (`CodeInv`).

**NodeJobsProofs, block lists.** `BlocklistInvariance`, `BlocklistTypeCorrect`, `ListsAreWhole`, `ListedSitesStayBlocked`. `TaskInv`: the
temporary key and what the run has still to add make up the list it fetched, as long as nobody else fills
that key; and a run about to store the union has read every source that has been active all along. `SourceInv` adds
that such a source's set is never empty between two syncs.

**NodeJobsProofs, updates.** `UpdateInvariance`, `UpdateTypeCorrect`, `CompletedPlansWereInstalled`,
`UpdatesWaitForTheirTime`. A report closes whatever row is open; that it is the right one was decided when the script began.
`RunKnowsPlan` and `ReportIsTrue` carry that through the run, `DueOrLate` says that a row handled before it is due
got a new plan over a run.

**TeachingProofs, class.** `ClassInvariance`, `ClassTypeCorrect`, `ClassHasOneSession`, `ScreensInvariance`, `NobodyStaysLocked`, `FocusLockReachesAll`,
`MirrorIsTruthful`. `OneStart`: as long as no two starts
overlapped, what the one that is under way saw at its beginning is all there is. For the screens (`ScreensInv`) the last message on the
wire decides: `MirrorFollows` says that it, or the device when the wire is empty, is what the mirror shows; `ReleaseDue` that a
student to be released has a release as the last message, or a job that still has to send it, or an excuse; `LockDue` the
same for a student who joined a session with its focus lock on.

**ClusterProofs, DHCP.** `DhcpInvariance`, `ReservationsAreTold`, `TypedRowsAreKept`. `ReservedTellsReservation` speaks of
reservations nobody is working on; what makes it true is what handlers and runs know before that. `ClerkInv`: a handler about to
write still knows the row and works for the address of its reservation, and one about to delete has left no link. `RunInv`: what a lease run has still to write to is not
reserved, and not typed in where it is to be deleted. `RowInv`: a row has an id of its own, and its link is the reservation of its
address. Each holds but for blurred addresses, and each blur is used: an import that moves a reservation, or a PUT that moves it back, blurs the address it leaves. `RowChanges` is the key lemma: what a step that
writes one row owes to the handlers and runs that have read it; `GoneKeepsInv` does the same for reservations that go.

**LockdownGuardProofs.** `LockdownTypeCorrect`, `HeldToOneTab`. `OneTab` speaks of a device at rest; the invariant says, at every moment, who is
going to make it true. A lock's tab is open, or the news that it was closed is on its way, or a run or a listener is about to
store or remove the lock, or the guard has found that no window was left to open it in (`LockKnown`), and then it stays closed (`ShutStays`); every other open tab has its creation still to be heard, a listener about to
close it or to store it, or a sweep to come (`OthersAccounted`). What a listener writes back was read before, so `SeenStands`
says when that is still the lock, and `SeenAccounted` that the tab it replaces will be closed if it is open after all. `suppressNextTabCreated` makes the
guard take the next tab for its own: `PinAwaited`, `KeptAwaited` and `LockAwaited` say that while it is set the guard's own tab is still to be announced. `InOrder`
says that of a tab that is announced and no longer open the closing is announced later. Each holds unless `astray`.

The type invariants of the modules that share a run (`TeachingTypeOK`, `NodeJobsTypeOK`, `ClusterTypeOK`) are those of their modules
together, and proved of the specification that joins them (`TeachingTypeCorrect`, `NodeJobsTypeCorrect`, `ClusterTypeCorrect`); that of `DnsDecision` and of
`HaPromotion` with three nodes is only proved.

**Only model-checked.** Every safety property of the passing runs, invariants and action properties, has its theorem. Liveness
(`EventuallySettled`, `SplitBrainDetected`, `PromotionCompletes`, `ListsSettle`,
`EveryScheduleEnds`, `FinishedTestLetsGo`, `DeviceFollowsServer`, `DhcpSettles`) needs ENABLED and fairness, which are out of the prover's reach.
`NoSecondPromotion` holds for up to three nodes, and so does its theorem: with more, a majority may outvote the one that
still reaches the primary.

## 6. Plan

Done: the log pipeline, the policy cache, the decision, promotion, the school day (`Classroom`, `Grants`), the
jobs of a node (`BlocklistSync`, `UpdateSchedule`), the test on a device (`LockdownGuard`), a DHCP scope (`DhcpIpam`), and the proofs above.

Left, in this order:

1. The caches that belong to no student (network floor, subnets, allowlist) as an extension of `PolicyCache`.
2. The resolution of a student's bell schedule, and its effect on `AutoStart`.
3. `LockdownGuard` with tabs dragged from window to window, and an abstract policy source taken from `PolicyCache`.

## 7. Not modelled

* Payloads: names, addresses, packets, e-mail, wording; a domain is "the name of the query",
  a policy is what it says about that name.
* Authentication and roles: every modelled handler is reached by a caller who may.
* Of the extension: overrides, keyword and video rules, focus and tabs dragged from window to window. Of ClassPulse: questions, answers and
  reports, which are records that do not interact.
* Of DHCP and IPAM: options, DHCPv6 and DNS auto-registration, which write other tables. Discovery (`ipamSync.js`, ping scans, phones,
  integrations), NAT pairs and nested subnets, the import from phpIPAM, a Windows import of several reservations that is under way
  in one transaction, and PATCH of an address do write rows of the modelled tables and are left out.
* `configBackup.js`, whose restore is meant for a fresh server.
* RADIUS, directory imports, backups, reports, the frontend: see `PROJECT.json`, each with its
  reason. The frontend alone is about half of the source; it shows what the routes answer and decides nothing.
* Joining and leaving a cluster, and two originals; re-cloning a demoted primary is manual.
* The expiry of the lock mirror after twelve hours, and the simulator of `policies.js`.
* A tab-event stream with the same code shape as the query log is not modelled a second time.
