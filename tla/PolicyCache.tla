---------------------------- MODULE PolicyCache ----------------------------
(***************************************************************************)
(* A student's effective policy: the tables it is read from, the routes    *)
(* and cron jobs that change them, and the cached copy in Redis that every *)
(* DNS query uses (backend/src/services/policyResolver.js and its callers, *)
(* dns-engine/src/policyCache.js getPolicy).                               *)
(*                                                                         *)
(* resolvePolicy reads the layers one query at a time and caches what it   *)
(* put together; a writer commits first and deletes the cached copies      *)
(* afterwards. Nothing orders the two, so the module asks which stale      *)
(* copies can be left behind, and for how long.                            *)
(***************************************************************************)
EXTENDS Naturals, FiniteSets

CONSTANTS
  Students, Classes, Policies,
  Locations,     \* LOCATIONS of policyResolver.js
  AnyLocation,           \* the location 'any'
  Nothing,       \* no policy, no class: an empty row set
  Writers,       \* route handlers and cron jobs running at the same time
  Resolvers,     \* calls of resolvePolicy / getPolicy running at the same time
  TTL,           \* POLICY_TTL, in clock units
  MaxFill,       \* assumed bound: clock units one call may take
  Layers,        \* bound: the kinds of write a run looks at
  MaxTime,       \* bound: clock
  MaxWrites,     \* bound: commits
  MaxCrashes     \* bound: writers that die, or lose Redis, after their commit

ASSUME PolicyAssumption ==
  /\ AnyLocation \in Locations
  /\ Nothing \notin Policies \cup Classes
  /\ Policies \cap Classes = {}
  /\ {TTL, MaxFill, MaxTime, MaxWrites, MaxCrashes} \subseteq Nat
  /\ TTL > MaxFill

VARIABLES
  now,          \* the clock; every commit happens at an instant of its own
  writes,       \* commits so far; also the source of fresh row ids
  lockdown,     \* id of the student's active lockdown_sessions row, or 0
  boxed,        \* the student has a penalty_box row with released_at IS NULL
  boxUntil,     \* its expires_at; MaxTime + 1 stands for NULL
  boxSites,     \* its allowed_domains, as the last write that extended them
  lesson,       \* per class: id (0: none), sites and mode of the active session
  members,      \* class_members, per student
  assigned,     \* policy assigned to the student, per location
  inherited,    \* policy the student gets from group, OU or district default
  rules,        \* content of each policy, as the last write to it
  cached, cachedFrom, expires,      \* Redis: value, instant it was read from, EX
  reading, todo,                    \* writers: targets to look up, keys to delete
  pc, key, engine, opened, from, partial,   \* resolvers and their locals
  restrictedAt, \* history: last instant a restriction on the student changed
  touchedAt,    \* history: last instant anything about the student changed or
                \* was deleted from Redis
  abandoned,    \* history: students whose restriction changed and whose copies nobody
                \* will delete: the writer died, or has no invalidation
  crashes

dbVars       == <<lockdown, boxed, boxUntil, boxSites, lesson, members,
                  assigned, inherited, rules>>
redisVars    == <<cached, cachedFrom, expires>>
writerVars   == <<reading, todo>>
resolverVars == <<pc, key, engine, opened, from, partial>>
clockVars    == <<now, writes, restrictedAt, touchedAt>>
faultVars    == <<abandoned, crashes>>
vars == <<clockVars, dbVars, redisVars, writerVars, resolverVars, faultVars>>

Keys  == Students \X Locations
Modes == {"focus", "monitor"}
Lesson == [id : Nat, sites : Nat, mode : Modes]

\* A resolved policy: what each read of the chain found.
Value == [lockdown : Nat, box : SUBSET Nat, lesson : SUBSET Lesson,
          base : (Policies \cup {Nothing}) \X Nat]

Blank    == [lockdown |-> 0, box |-> {}, lesson |-> {}, base |-> <<Nothing, 0>>]
NoLesson == [id |-> 0, sites |-> 0, mode |-> "monitor"]

-----------------------------------------------------------------------------
(* The reads of resolvePolicy.                                             *)

\* released_at IS NULL AND (expires_at IS NULL OR expires_at > NOW())
BoxRows(s) == IF boxed[s] /\ boxUntil[s] > now THEN {boxSites[s]} ELSE {}

\* Latest started active session of any of the student's classes.
LessonRows(s) ==
  { lesson[c] : c \in { d \in members[s] :
      lesson[d].id > 0 /\ \A e \in members[s] : lesson[e].id <= lesson[d].id } }

\* ORDER BY (location = $2) DESC: the location's own assignment, else 'any'.
AssignedRow(s, l) ==
  IF assigned[<<s, l>>] # Nothing THEN assigned[<<s, l>>] ELSE assigned[<<s, AnyLocation>>]

BaseRow(s, l) == IF AssignedRow(s, l) # Nothing THEN AssignedRow(s, l) ELSE inherited[s]

Content(p) == IF p = Nothing THEN <<p, 0>> ELSE <<p, rules[p]>>

\* What the tables say now, all read in one instant.
Effective(s, l) ==
  [lockdown |-> lockdown[s],
   box      |-> IF lockdown[s] = 0 THEN BoxRows(s) ELSE {},
   lesson   |-> LessonRows(s),
   base     |-> Content(BaseRow(s, l))]

\* The precedence of resolvePolicy.
Mode(v) ==
  CASE v.lockdown # 0 -> "lockdown"
    [] v.lockdown = 0 /\ v.box # {} -> "penalty_box"
    [] v.lockdown = 0 /\ v.box = {} /\ (\E x \in v.lesson : x.mode = "focus") -> "lesson"
    [] OTHER -> "standard"

-----------------------------------------------------------------------------
TypeOK ==
  /\ now \in 0 .. MaxTime /\ writes \in 0 .. MaxWrites
  /\ lockdown \in [Students -> Nat]
  /\ boxed \in [Students -> BOOLEAN]
  /\ boxUntil \in [Students -> Nat] /\ boxSites \in [Students -> Nat]
  /\ lesson \in [Classes -> Lesson]
  /\ members \in [Students -> SUBSET Classes]
  /\ assigned \in [Keys -> Policies \cup {Nothing}]
  /\ inherited \in [Students -> Policies \cup {Nothing}]
  /\ rules \in [Policies -> Nat]
  /\ cached \in [Keys -> Value]
  /\ cachedFrom \in [Keys -> Nat] /\ expires \in [Keys -> Nat]
  /\ reading \in [Writers -> Classes \cup Policies \cup {Nothing}]
  /\ todo \in [Writers -> SUBSET Students]
  /\ pc \in [Resolvers -> {"idle", "backend", "lockdown", "penalty", "lesson",
                           "assigned", "inherited", "rules", "store", "reply"}]
  /\ key \in [Resolvers -> Keys \cup {<<Nothing, AnyLocation>>}]
  /\ \A r \in Resolvers : pc[r] # "idle" => key[r] \in Keys
  /\ engine \in [Resolvers -> BOOLEAN]
  /\ opened \in [Resolvers -> Nat] /\ from \in [Resolvers -> Nat]
  /\ partial \in [Resolvers -> Value]
  /\ restrictedAt \in [Students -> Nat] /\ touchedAt \in [Students -> Nat]
  /\ abandoned \subseteq Students /\ crashes \in 0 .. MaxCrashes

Init ==
  /\ now = 0 /\ writes = 0
  /\ lockdown = [s \in Students |-> 0]
  /\ boxed = [s \in Students |-> FALSE]
  /\ boxUntil = [s \in Students |-> 0] /\ boxSites = [s \in Students |-> 0]
  /\ lesson = [c \in Classes |-> NoLesson]
  /\ members \in [Students -> SUBSET Classes]
  /\ assigned \in [Keys -> Policies \cup {Nothing}]
  /\ inherited \in [Students -> Policies \cup {Nothing}]
  /\ rules = [p \in Policies |-> 0]
  /\ cached = [k \in Keys |-> Blank]
  /\ cachedFrom = [k \in Keys |-> 0] /\ expires = [k \in Keys |-> 0]
  /\ reading = [w \in Writers |-> Nothing] /\ todo = [w \in Writers |-> {}]
  /\ pc = [r \in Resolvers |-> "idle"]
  /\ key = [r \in Resolvers |-> <<Nothing, AnyLocation>>] /\ engine = [r \in Resolvers |-> FALSE]
  /\ opened = [r \in Resolvers |-> 0] /\ from = [r \in Resolvers |-> 0]
  /\ partial = [r \in Resolvers |-> Blank]
  /\ restrictedAt = [s \in Students |-> 0] /\ touchedAt = [s \in Students |-> 0]
  /\ abandoned = {} /\ crashes = 0

-----------------------------------------------------------------------------
(* Time.                                                                   *)

\* The clock moves; no call outlives MaxFill. A restriction whose expires_at is
\* reached ends by itself: the read of penalty_box compares with NOW().
Advance(changed, touched) ==
  /\ now < MaxTime
  /\ \A r \in Resolvers : pc[r] # "idle" => now < opened[r] + MaxFill
  /\ now' = now + 1
  /\ LET lapsed == { s \in Students : boxed[s] /\ boxUntil[s] = now + 1 }
     IN /\ restrictedAt' = [s \in Students |->
             IF s \in changed \cup lapsed THEN now + 1 ELSE restrictedAt[s]]
        /\ touchedAt' = [s \in Students |->
             IF s \in changed \cup lapsed \cup touched THEN now + 1 ELSE touchedAt[s]]

Tick ==
  /\ Advance({}, {})
  /\ UNCHANGED <<writes, dbVars, redisVars, writerVars, resolverVars, faultVars>>

-----------------------------------------------------------------------------
(* The writers: one commit each, then the keys to look up or to delete.    *)

Free(w) == reading[w] = Nothing /\ todo[w] = {}

Id == writes + 1

\* A commit of kind `layer` by w that changes what the students of `changed`
\* are restricted to, and the policy of those of `touched`.
Commit(w, layer, changed, touched) ==
  /\ layer \in Layers
  /\ Free(w)
  /\ writes < MaxWrites
  /\ writes' = writes + 1
  /\ Advance(changed, touched)
  /\ UNCHANGED <<redisVars, resolverVars, crashes>>

\* ... followed by invalidatePolicy for each of S
ThenInvalidate(w, S) == todo' = [todo EXCEPT ![w] = S] /\ UNCHANGED <<reading, abandoned>>

\* ... followed by invalidatePoliciesForClass / bustPolicyCache, which first ask
\* the tables whom the target concerns
ThenLookUp(w, target) ==
  reading' = [reading EXCEPT ![w] = target] /\ UNCHANGED <<todo, abandoned>>

\* ... followed by no invalidation, though the restrictions of S are others now
ThenNothing(S) == abandoned' = abandoned \cup S /\ UNCHANGED writerVars

\* POST /lockdown: closes and opens each student's session in one transaction.
StartLockdown(w, S) ==
  /\ Commit(w, "lockdown", S, S)
  /\ lockdown' = [s \in Students |-> IF s \in S THEN Id ELSE lockdown[s]]
  /\ ThenInvalidate(w, S)
  /\ UNCHANGED <<boxed, boxUntil, boxSites, lesson, members, assigned, inherited, rules>>

\* DELETE /lockdown/:id, and expireLockdownSessions for all that are due.
EndLockdown(w, S) ==
  /\ \A s \in S : lockdown[s] # 0
  /\ Commit(w, "lockdown", S, S)
  /\ lockdown' = [s \in Students |-> IF s \in S THEN 0 ELSE lockdown[s]]
  /\ ThenInvalidate(w, S)
  /\ UNCHANGED <<boxed, boxUntil, boxSites, lesson, members, assigned, inherited, rules>>

\* POST /penalty-box: the upsert keeps the open row, its allowed_domains included.
Place(w, s, until) ==
  /\ Commit(w, "penalty", {s}, {s})
  /\ boxed' = [boxed EXCEPT ![s] = TRUE]
  /\ boxUntil' = [boxUntil EXCEPT ![s] = until]
  /\ boxSites' = [boxSites EXCEPT ![s] = IF boxed[s] THEN @ ELSE 0]
  /\ ThenInvalidate(w, {s})
  /\ UNCHANGED <<lockdown, lesson, members, assigned, inherited, rules>>

\* Mutant: an approved site is recorded and the cached copies are left alone.
GrantUnnoticed(w, s) ==
  /\ boxed[s]
  /\ Commit(w, "penalty", {s}, {s})
  /\ boxSites' = [boxSites EXCEPT ![s] = Id]
  /\ ThenNothing({})
  /\ UNCHANGED <<lockdown, boxed, boxUntil, lesson, members, assigned, inherited, rules>>

\* grantApprovedPenaltyRequest
Grant(w, s) ==
  /\ boxed[s]
  /\ Commit(w, "penalty", {s}, {s})
  /\ boxSites' = [boxSites EXCEPT ![s] = Id]
  /\ ThenInvalidate(w, {s})
  /\ UNCHANGED <<lockdown, boxed, boxUntil, lesson, members, assigned, inherited, rules>>

\* DELETE /penalty-box/:studentId, and expirePenaltyBox for every lapsed row.
Unbox(w, S) ==
  /\ Commit(w, "penalty", S, S)
  /\ boxed' = [s \in Students |-> boxed[s] /\ s \notin S]
  /\ ThenInvalidate(w, S)
  /\ UNCHANGED <<lockdown, boxUntil, boxSites, lesson, members, assigned, inherited, rules>>

Release(w, s) == boxed[s] /\ Unbox(w, {s})

ExpireBoxes(w) ==
  LET due == { s \in Students : boxed[s] /\ boxUntil[s] < now }
  IN due # {} /\ Unbox(w, due)

MembersOf(c) == { s \in Students : c \in members[s] }

SetLesson(w, c, l) ==
  /\ Commit(w, "lesson", MembersOf(c), MembersOf(c))
  /\ lesson' = [lesson EXCEPT ![c] = l]
  /\ ThenLookUp(w, c)
  /\ UNCHANGED <<lockdown, boxed, boxUntil, boxSites, members, assigned, inherited, rules>>

\* POST /classes/:id/lessons, in one transaction with the end of the open one.
StartLesson(w, c, mode) == SetLesson(w, c, [id |-> Id, sites |-> 0, mode |-> mode])

\* PATCH /classes/:id/lessons/:lessonId
EditLesson(w, c, mode) ==
  lesson[c].id > 0 /\ SetLesson(w, c, [id |-> lesson[c].id, sites |-> Id, mode |-> mode])

\* DELETE /classes/:id/lessons/:lessonId, endScheduledLessons
EndLesson(w, c) == lesson[c].id > 0 /\ SetLesson(w, c, NoLesson)

\* POST and DELETE /classes/:id/members
SetMembers(w, s, C) ==
  /\ Commit(w, "members", {s}, {s})
  /\ members' = [members EXCEPT ![s] = C]
  /\ ThenInvalidate(w, {s})
  /\ UNCHANGED <<lockdown, boxed, boxUntil, boxSites, lesson, assigned, inherited, rules>>

Join(w, s, c)  == SetMembers(w, s, members[s] \cup {c})
Leave(w, s, c) == SetMembers(w, s, members[s] \ {c})

\* One enrolment of syncClassroom or syncOneRoster: INSERT ... ON CONFLICT, which
\* removes nobody and deletes nothing from Redis. In a class that has a lesson the
\* student is restricted from then on.
Enrol(w, s, c) ==
  LET restricted == IF lesson[c].id > 0 THEN {s} ELSE {}
  IN /\ c \notin members[s]
     /\ Commit(w, "members", restricted, restricted)
     /\ members' = [members EXCEPT ![s] = @ \cup {c}]
     /\ ThenNothing(restricted)
     /\ UNCHANGED <<lockdown, boxed, boxUntil, boxSites, lesson, assigned, inherited, rules>>

\* Student assignments: POST and DELETE of routes/assignments.js invalidate the
\* student, those of routes/policies.js bust the students the policy has now.
Assign(w, s, l, p) ==
  /\ Commit(w, "assign", {}, {s})
  /\ assigned' = [assigned EXCEPT ![<<s, l>>] = p]
  /\ ThenInvalidate(w, {s}) \/ (p # Nothing /\ ThenLookUp(w, p))
                           \/ (p = Nothing /\ assigned[<<s, l>>] # Nothing
                                           /\ ThenLookUp(w, assigned[<<s, l>>]))
  /\ UNCHANGED <<lockdown, boxed, boxUntil, boxSites, lesson, members, inherited, rules>>

\* Group, OU and default assignments: filter groups invalidate their members,
\* routes/policies.js busts direct students, routes/assignments.js does nothing.
Inherit(w, s, p) ==
  /\ Commit(w, "inherit", {}, {s})
  /\ inherited' = [inherited EXCEPT ![s] = p]
  /\ ThenInvalidate(w, {s}) \/ (p # Nothing /\ ThenLookUp(w, p)) \/ ThenNothing({})
  /\ UNCHANGED <<lockdown, boxed, boxUntil, boxSites, lesson, members, assigned, rules>>

SetRules(w, layer, p) ==
  /\ Commit(w, layer, {}, Students)
  /\ rules' = [rules EXCEPT ![p] = Id]
  /\ UNCHANGED <<lockdown, boxed, boxUntil, boxSites, lesson, members, assigned, inherited>>

\* PATCH /policies/:id and its rule, url-rule, import and video routes.
EditRules(w, p) == SetRules(w, "rules", p) /\ ThenLookUp(w, p)

\* PUT /categories/policy-rules deletes student:policy:<id>, the key without a
\* location that nothing has ever written; the blocklist routes delete nothing.
EditCategoryRule(w, p) == SetRules(w, "category", p) /\ ThenNothing({})

\* The SELECT of invalidatePoliciesForClass or of bustPolicyCache.
Concerned(target) ==
  IF target \in Classes
  THEN MembersOf(target)
  ELSE { s \in Students : \E l \in Locations : assigned[<<s, l>>] = target }

LookUp(w) ==
  /\ reading[w] # Nothing
  /\ reading' = [reading EXCEPT ![w] = Nothing]
  /\ todo' = [todo EXCEPT ![w] = Concerned(reading[w])]
  /\ UNCHANGED <<clockVars, dbVars, redisVars, resolverVars, faultVars>>

\* DEL of the keys of one student for every location.
Invalidate(w) ==
  \E s \in todo[w] :
    /\ cached' = [k \in Keys |-> IF k[1] = s THEN Blank ELSE cached[k]]
    /\ cachedFrom' = [k \in Keys |-> IF k[1] = s THEN 0 ELSE cachedFrom[k]]
    /\ expires' = [k \in Keys |-> IF k[1] = s THEN 0 ELSE expires[k]]
    /\ todo' = [todo EXCEPT ![w] = @ \ {s}]
    /\ touchedAt' = [touchedAt EXCEPT ![s] = now]
    /\ abandoned' = abandoned \ {s}
    /\ UNCHANGED <<now, writes, restrictedAt, dbVars, reading, resolverVars, crashes>>

\* The process restarts, or Redis fails the DEL: nothing retries it.
WriterDies(w) ==
  /\ ~Free(w)
  /\ crashes < MaxCrashes
  /\ crashes' = crashes + 1
  /\ abandoned' = abandoned \cup todo[w]
                     \cup (IF reading[w] = Nothing THEN {} ELSE Concerned(reading[w]))
  /\ reading' = [reading EXCEPT ![w] = Nothing]
  /\ todo' = [todo EXCEPT ![w] = {}]
  /\ UNCHANGED <<clockVars, dbVars, redisVars, resolverVars>>

-----------------------------------------------------------------------------
(* The readers.                                                            *)

Live(k) == expires[k] > now

KeepRest == UNCHANGED <<clockVars, dbVars, writerVars, faultVars>>

\* GET misses: resolvePolicy, called by the API itself, starts on the chain ...
Request(r, k) ==
  /\ pc[r] = "idle" /\ ~Live(k)
  /\ pc' = [pc EXCEPT ![r] = "lockdown"]
  /\ key' = [key EXCEPT ![r] = k]
  /\ opened' = [opened EXCEPT ![r] = now]
  /\ from' = [from EXCEPT ![r] = now]
  /\ KeepRest /\ UNCHANGED <<redisVars, engine, partial>>

\* ... and getPolicy of the DNS engine asks the backend.
EngineRequest(r, k) ==
  /\ pc[r] = "idle" /\ ~Live(k)
  /\ pc' = [pc EXCEPT ![r] = "backend"]
  /\ key' = [key EXCEPT ![r] = k]
  /\ engine' = [engine EXCEPT ![r] = TRUE]
  /\ opened' = [opened EXCEPT ![r] = now]
  /\ KeepRest /\ UNCHANGED <<redisVars, from, partial>>

\* The backend's own GET: a copy cached in the meantime is the answer.
BackendHit(r) ==
  /\ pc[r] = "backend" /\ Live(key[r])
  /\ pc' = [pc EXCEPT ![r] = "reply"]
  /\ partial' = [partial EXCEPT ![r] = cached[key[r]]]
  /\ from' = [from EXCEPT ![r] = cachedFrom[key[r]]]
  /\ KeepRest /\ UNCHANGED <<redisVars, key, engine, opened>>

BackendMiss(r) ==
  /\ pc[r] = "backend" /\ ~Live(key[r])
  /\ pc' = [pc EXCEPT ![r] = "lockdown"]
  /\ from' = [from EXCEPT ![r] = now]
  /\ KeepRest /\ UNCHANGED <<redisVars, key, engine, opened, partial>>

\* One query of the chain: put what it found in the local result, go on at `next`.
Read(r, at, value, next) ==
  /\ pc[r] = at
  /\ partial' = [partial EXCEPT ![r] = value]
  /\ pc' = [pc EXCEPT ![r] = next]
  /\ KeepRest /\ UNCHANGED <<redisVars, key, engine, opened, from>>

ReadLockdown(r) ==
  Read(r, "lockdown", [Blank EXCEPT !.lockdown = lockdown[key[r][1]]],
       IF lockdown[key[r][1]] # 0 THEN "lesson" ELSE "penalty")

ReadPenalty(r) ==
  Read(r, "penalty", [partial[r] EXCEPT !.box = BoxRows(key[r][1])], "lesson")

ReadLesson(r) ==
  Read(r, "lesson", [partial[r] EXCEPT !.lesson = LessonRows(key[r][1])], "assigned")

ReadAssigned(r) ==
  LET p == AssignedRow(key[r][1], key[r][2])
  IN Read(r, "assigned", [partial[r] EXCEPT !.base = <<p, 0>>],
          IF p = Nothing THEN "inherited" ELSE "rules")

ReadInherited(r) ==
  Read(r, "inherited", [partial[r] EXCEPT !.base = <<inherited[key[r][1]], 0>>], "rules")

\* buildResolvedPolicy
ReadRules(r) ==
  Read(r, "rules", [partial[r] EXCEPT !.base = Content(partial[r].base[1])], "store")

\* Mutant: the locals are gone, but the call goes on where it was.
DoneAndStays(r) ==
  /\ key' = [key EXCEPT ![r] = <<Nothing, AnyLocation>>]
  /\ engine' = [engine EXCEPT ![r] = FALSE]
  /\ opened' = [opened EXCEPT ![r] = 0]
  /\ from' = [from EXCEPT ![r] = 0]
  /\ partial' = [partial EXCEPT ![r] = Blank]
  /\ UNCHANGED pc

\* The call is over.
Done(r) ==
  /\ pc' = [pc EXCEPT ![r] = "idle"]
  /\ key' = [key EXCEPT ![r] = <<Nothing, AnyLocation>>]
  /\ engine' = [engine EXCEPT ![r] = FALSE]
  /\ opened' = [opened EXCEPT ![r] = 0]
  /\ from' = [from EXCEPT ![r] = 0]
  /\ partial' = [partial EXCEPT ![r] = Blank]

\* Mutant: the copy is kept twice as long.
SetCacheLong(r) ==
  /\ cached' = [cached EXCEPT ![key[r]] = partial[r]]
  /\ cachedFrom' = [cachedFrom EXCEPT ![key[r]] = from[r]]
  /\ expires' = [expires EXCEPT ![key[r]] = now + 2 * TTL]

\* SET ... EX POLICY_TTL
SetCache(r) ==
  /\ cached' = [cached EXCEPT ![key[r]] = partial[r]]
  /\ cachedFrom' = [cachedFrom EXCEPT ![key[r]] = from[r]]
  /\ expires' = [expires EXCEPT ![key[r]] = now + TTL]

\* The end of resolvePolicy; an engine's call still has its answer to carry home.
Store(r) ==
  /\ pc[r] = "store"
  /\ SetCache(r)
  /\ IF engine[r]
     THEN pc' = [pc EXCEPT ![r] = "reply"] /\ UNCHANGED <<key, engine, opened, from, partial>>
     ELSE Done(r)
  /\ KeepRest

\* The engine caches the answer a second time.
EngineStore(r) ==
  /\ pc[r] = "reply"
  /\ SetCache(r)
  /\ Done(r)
  /\ KeepRest

\* The engine's 2 s timeout: it answers with DEFAULT_POLICY, which it does not
\* cache; the backend, once asked, still finishes and caches its result.
EngineTimesOut(r) ==
  /\ engine[r]
  /\ IF pc[r] \in {"backend", "reply"}
     THEN Done(r)
     ELSE engine' = [engine EXCEPT ![r] = FALSE] /\ UNCHANGED <<pc, key, opened, from, partial>>
  /\ KeepRest /\ UNCHANGED redisVars

\* A query or Redis throws.
Abort(r) ==
  /\ pc[r] # "idle"
  /\ Done(r)
  /\ KeepRest /\ UNCHANGED redisVars

-----------------------------------------------------------------------------
Write(w) ==
  \/ \E S \in SUBSET Students \ {{}} : StartLockdown(w, S) \/ EndLockdown(w, S)
  \/ \E s \in Students :
       \/ \E until \in {now + 2, MaxTime + 1} : Place(w, s, until)
       \/ Grant(w, s) \/ Release(w, s)
       \/ \E c \in Classes : Join(w, s, c) \/ Leave(w, s, c) \/ Enrol(w, s, c)
       \/ \E p \in Policies \cup {Nothing} :
            Inherit(w, s, p) \/ \E l \in Locations : Assign(w, s, l, p)
  \/ ExpireBoxes(w)
  \/ \E c \in Classes :
       EndLesson(w, c) \/ \E mode \in Modes : StartLesson(w, c, mode) \/ EditLesson(w, c, mode)
  \/ \E p \in Policies : EditRules(w, p) \/ EditCategoryRule(w, p)

Fill(r) ==
  \/ BackendHit(r) \/ BackendMiss(r)
  \/ ReadLockdown(r) \/ ReadPenalty(r) \/ ReadLesson(r)
  \/ ReadAssigned(r) \/ ReadInherited(r) \/ ReadRules(r)
  \/ Store(r) \/ EngineStore(r)

Next ==
  \/ Tick
  \/ \E w \in Writers : Write(w) \/ LookUp(w) \/ Invalidate(w) \/ WriterDies(w)
  \/ \E r \in Resolvers :
       \/ \E k \in Keys : Request(r, k) \/ EngineRequest(r, k)
       \/ Fill(r) \/ EngineTimesOut(r) \/ Abort(r)

Spec == Init /\ [][Next]_vars

-----------------------------------------------------------------------------
(* Properties.                                                             *)

Restriction(v) == <<v.lockdown, v.box, v.lesson>>

\* Some writer has committed and not yet come to the student's keys.
Pending(s) ==
  \E w \in Writers :
    \/ s \in todo[w]
    \/ reading[w] \in Classes /\ reading[w] \in members[s]

\* The restriction ran out by itself and expirePenaltyBox has not been by.
LapsedBox(s) == boxed[s] /\ boxUntil[s] <= now

\* The copy was being put together while the restriction changed.
Raced(k) ==
  /\ cachedFrom[k] < restrictedAt[k[1]]
  /\ restrictedAt[k[1]] <= expires[k] - TTL

\* Every route and cron job that restricts or frees a student, roster syncs apart,
\* also reaches the cached copies, whichever of them overlap: a live copy with the
\* wrong restriction is about to be deleted, waits for the penalty-box cron, was
\* left by a writer that died or by a roster sync into a class with a lesson, or
\* was written by a call that overlapped the change.
NoLostInvalidation ==
  \A s \in Students : \A l \in Locations :
    LET k == <<s, l>> IN
    Live(k) /\ Restriction(cached[k]) # Restriction(Effective(s, l))
      => Pending(s) \/ LapsedBox(s) \/ s \in abandoned \/ Raced(k)

\* No copy outlives the 60 s promise by more than the calls that wrote it: when
\* nothing has touched the student for POLICY_TTL and two calls, what is cached
\* is what the tables say, category rules, OU policies, dead writers and the
\* engine's second SET included.
BoundedStaleness ==
  \A s \in Students : \A l \in Locations :
    Live(<<s, l>>) /\ now > touchedAt[s] + TTL + 2 * MaxFill
      => cached[<<s, l>>] = Effective(s, l)

\* routes/categories.js on the keys it deletes: "Invalidate Redis policy cache for
\* all users on this policy" - a student the policy is assigned to keeps no copy
\* with the old rules once the request is over.
CategoryRuleReachesUsers ==
  \A s \in Students : \A l \in Locations :
    LET k == <<s, l>> IN
    /\ Live(k)
    /\ AssignedRow(s, l) # Nothing
    /\ \A w \in Writers : Free(w)
    /\ cachedFrom[k] >= touchedAt[s] \/ touchedAt[s] > expires[k] - TTL
    => cached[k].base = Content(AssignedRow(s, l))
=============================================================================
