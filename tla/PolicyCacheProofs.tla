-------------------------- MODULE PolicyCacheProofs --------------------------
(***************************************************************************)
(* NoLostInvalidation and BoundedStaleness for any number of students,     *)
(* classes, policies, writers and calls of resolvePolicy, every POLICY_TTL *)
(* and every bound MaxFill below it on the length of a call.               *)
(*                                                                         *)
(* A stale copy may be written long after the change it misses, by a call  *)
(* that read the tables before it. So the argument is about the calls in   *)
(* flight: as long as the student's restriction has not changed since the  *)
(* call began, what it has read so far is still what the tables say, and   *)
(* so is what it caches, and what an engine's call finds there and caches  *)
(* once more. What did change is some writer's to delete, or abandoned.    *)
(***************************************************************************)
EXTENDS PolicyCache, TLAPS

\* What the tables restrict s to, in the order of the chain.
Box(s) == IF lockdown[s] = 0 THEN BoxRows(s) ELSE {}
Restrictions(s) == <<lockdown[s], Box(s), LessonRows(s)>>

\* Nothing was read, found or restricted in the future.
Past ==
  /\ \A s \in Students : restrictedAt[s] <= now
  /\ \A r \in Resolvers : from[r] <= now
  /\ \A k \in Keys : cachedFrom[k] <= now

\* A writer that still looks its targets up has none yet.
LooksUpFirst == \A w \in Writers : reading[w] # Nothing => todo[w] = {}

\* What a call has read so far is what the tables say, unless the restriction
\* changed since the call began.
CallHolds(r) ==
  \A s \in Students :
    key[r][1] = s /\ restrictedAt[s] <= from[r] =>
      /\ pc[r] = "penalty" => lockdown[s] = 0 /\ partial[r].lockdown = 0
      /\ pc[r] \in {"lesson", "assigned", "inherited", "rules", "store", "reply"} =>
           partial[r].lockdown = lockdown[s] /\ partial[r].box = Box(s)
      /\ pc[r] \in {"assigned", "inherited", "rules", "store", "reply"} =>
           partial[r].lesson = LessonRows(s)

ReadsHold == \A r \in Resolvers : CallHolds(r)

\* So is a copy.
CopiesHold ==
  \A s \in Students : \A l \in Locations :
    restrictedAt[s] <= cachedFrom[<<s, l>>] /\ Live(<<s, l>>) =>
      Restriction(cached[<<s, l>>]) = Restrictions(s)

\* Who will put right, or has given up, what changed after the copy was made.
Excused(s) == Pending(s) \/ LapsedBox(s) \/ s \in abandoned

NoStrayCopy ==
  \A s \in Students : \A l \in Locations :
    Live(<<s, l>>) /\ Restriction(cached[<<s, l>>]) # Restrictions(s) =>
      Excused(s) \/ Raced(<<s, l>>)

PolicyInv == TypeOK /\ Past /\ LooksUpFirst /\ ReadsHold /\ CopiesHold /\ NoStrayCopy

-----------------------------------------------------------------------------
(* Types.                                                                  *)

DbType ==
  /\ lockdown \in [Students -> Nat]
  /\ boxed \in [Students -> BOOLEAN]
  /\ boxUntil \in [Students -> Nat] /\ boxSites \in [Students -> Nat]
  /\ lesson \in [Classes -> Lesson]
  /\ members \in [Students -> SUBSET Classes]
  /\ assigned \in [Keys -> Policies \cup {Nothing}]
  /\ inherited \in [Students -> Policies \cup {Nothing}]
  /\ rules \in [Policies -> Nat]

RedisType ==
  /\ cached \in [Keys -> Value]
  /\ cachedFrom \in [Keys -> Nat] /\ expires \in [Keys -> Nat]

WriterType ==
  /\ reading \in [Writers -> Classes \cup Policies \cup {Nothing}]
  /\ todo \in [Writers -> SUBSET Students]

ResolverType ==
  /\ pc \in [Resolvers -> {"idle", "backend", "lockdown", "penalty", "lesson",
                           "assigned", "inherited", "rules", "store", "reply"}]
  /\ key \in [Resolvers -> Keys \cup {<<Nothing, AnyLocation>>}]
  /\ \A r \in Resolvers : pc[r] # "idle" => key[r] \in Keys
  /\ engine \in [Resolvers -> BOOLEAN]
  /\ opened \in [Resolvers -> Nat] /\ from \in [Resolvers -> Nat]
  /\ partial \in [Resolvers -> Value]

ClockType ==
  /\ now \in 0 .. MaxTime /\ writes \in 0 .. MaxWrites
  /\ restrictedAt \in [Students -> Nat] /\ touchedAt \in [Students -> Nat]

FaultType == abandoned \subseteq Students /\ crashes \in 0 .. MaxCrashes

\* The type invariant, part by part.
LEMMA TypeInParts ==
  TypeOK <=> DbType /\ RedisType /\ WriterType /\ ResolverType /\ ClockType /\ FaultType
BY DEF TypeOK, DbType, RedisType, WriterType, ResolverType, ClockType, FaultType

LEMMA TypeAfter ==
  DbType' /\ RedisType' /\ WriterType' /\ ResolverType' /\ ClockType' /\ FaultType' => TypeOK'
BY DEF TypeOK, DbType, RedisType, WriterType, ResolverType, ClockType, FaultType

LEMMA BoundsAreNat == TTL \in Nat /\ MaxFill \in Nat /\ MaxTime \in Nat /\ MaxWrites \in Nat /\ MaxCrashes \in Nat
BY PolicyAssumption

\* The parts of a step that leaves the variables of a group alone.
LEMMA UnchangedParts ==
  /\ DbType /\ UNCHANGED dbVars => DbType'
  /\ RedisType /\ UNCHANGED redisVars => RedisType'
  /\ WriterType /\ UNCHANGED writerVars => WriterType'
  /\ ResolverType /\ UNCHANGED resolverVars => ResolverType'
  /\ ClockType /\ UNCHANGED clockVars => ClockType'
  /\ FaultType /\ UNCHANGED faultVars => FaultType'
BY DEF DbType, RedisType, WriterType, ResolverType, ClockType, FaultType,
  dbVars, redisVars, writerVars, resolverVars, clockVars, faultVars

LEMMA AdvanceType ==
  ASSUME ClockType, NEW changed, NEW touched, Advance(changed, touched),
         writes' \in 0 .. MaxWrites
  PROVE  ClockType'
<1>1. now' \in 0 .. MaxTime /\ now + 1 \in Nat
  BY BoundsAreNat DEF ClockType, Advance
<1>2. restrictedAt' \in [Students -> Nat] /\ touchedAt' \in [Students -> Nat]
  BY <1>1 DEF ClockType, Advance
<1> QED
  BY <1>1, <1>2 DEF ClockType

\* The rows the chain finds are values a policy can have.
LEMMA RowsAreValues ==
  ASSUME DbType, NEW s \in Students
  PROVE  /\ BoxRows(s) \in SUBSET Nat /\ LessonRows(s) \in SUBSET Lesson
         /\ lockdown[s] \in Nat
         /\ \A l \in Locations : AssignedRow(s, l) \in Policies \cup {Nothing}
         /\ inherited[s] \in Policies \cup {Nothing}
         /\ \A p \in Policies \cup {Nothing} : Content(p) \in (Policies \cup {Nothing}) \X Nat
<1>1. BoxRows(s) \in SUBSET Nat
  BY DEF DbType, BoxRows
<1>2. LessonRows(s) \in SUBSET Lesson
  BY DEF DbType, LessonRows
<1>3. \A l \in Locations : AssignedRow(s, l) \in Policies \cup {Nothing}
  BY PolicyAssumption DEF DbType, AssignedRow, Keys
<1>4. \A p \in Policies \cup {Nothing} : Content(p) \in (Policies \cup {Nothing}) \X Nat
  BY DEF DbType, Content
<1> QED
  BY <1>1, <1>2, <1>3, <1>4 DEF DbType

-----------------------------------------------------------------------------
(* What the tables restrict a student to.                                  *)

LEMMA RestrictionOfEffective ==
  ASSUME NEW s, NEW l
  PROVE  Restriction(Effective(s, l)) = Restrictions(s)
BY DEF Restriction, Effective, Restrictions, Box

\* The sessions of other classes do not matter.
LEMMA SameLessons ==
  ASSUME NEW s, members'[s] = members[s], \A c \in members[s] : lesson'[c] = lesson[c]
  PROVE  LessonRows(s)' = LessonRows(s)
BY DEF LessonRows

\* When nobody changes what s is restricted to, only expires_at can.
LEMMA RestrictionsKept ==
  ASSUME PolicyInv, NEW changed, NEW touched, Advance(changed, touched),
         NEW s \in Students, s \notin changed,
         lockdown'[s] = lockdown[s], boxed'[s] = boxed[s], boxUntil'[s] = boxUntil[s],
         boxSites'[s] = boxSites[s], LessonRows(s)' = LessonRows(s)
  PROVE  \/ LapsedBox(s)' /\ restrictedAt'[s] = now + 1
         \/ /\ restrictedAt'[s] = restrictedAt[s] /\ (LapsedBox(s) => LapsedBox(s)')
            /\ Box(s)' = Box(s) /\ Restrictions(s)' = Restrictions(s)
<1>1. now \in Nat /\ now' = now + 1 /\ boxUntil[s] \in Nat /\ boxed[s] \in BOOLEAN
  BY BoundsAreNat DEF PolicyInv, TypeOK, Advance
<1>2. restrictedAt'[s] = IF boxed[s] /\ boxUntil[s] = now + 1 THEN now + 1 ELSE restrictedAt[s]
  BY DEF Advance
<1>3. CASE boxed[s] /\ boxUntil[s] = now + 1
  BY <1>1, <1>2, <1>3 DEF LapsedBox
<1>4. CASE ~(boxed[s] /\ boxUntil[s] = now + 1)
  <2>1. boxed[s] => (boxUntil[s] > now + 1 <=> boxUntil[s] > now)
    BY <1>1, <1>4
  <2>2. BoxRows(s)' = BoxRows(s)
    BY <1>1, <2>1 DEF BoxRows
  <2>3. Box(s)' = Box(s)
    BY <2>2 DEF Box
  <2>4. LapsedBox(s) => LapsedBox(s)'
    BY <1>1 DEF LapsedBox
  <2> QED
    BY <1>2, <1>4, <2>3, <2>4 DEF Restrictions
<1> QED
  BY <1>3, <1>4

-----------------------------------------------------------------------------
(* The writers.                                                            *)

\* What follows a commit concerns its own writer only, and a writer that is to
\* look its targets up has none.
WriterMoved(w) ==
  /\ WriterType' /\ LooksUpFirst'
  /\ abandoned \subseteq abandoned' /\ abandoned' \subseteq Students
  /\ \A v \in Writers \ {w} : reading'[v] = reading[v] /\ todo'[v] = todo[v]

LEMMA MovesOn ==
  ASSUME PolicyInv, NEW w \in Writers, Free(w)
  PROVE  /\ \A S \in SUBSET Students :
              ThenInvalidate(w, S) => WriterMoved(w) /\ todo'[w] = S
         /\ \A target \in Classes \cup Policies \cup {Nothing} :
              ThenLookUp(w, target) => WriterMoved(w) /\ reading'[w] = target
         /\ \A S \in SUBSET Students :
              ThenNothing(S) => WriterMoved(w) /\ S \subseteq abandoned'
<1>1. /\ WriterType /\ LooksUpFirst /\ reading[w] = Nothing /\ todo[w] = {}
      /\ abandoned \subseteq Students
  BY TypeInParts DEF PolicyInv, Free, FaultType
<1>2. ASSUME NEW S \in SUBSET Students, ThenInvalidate(w, S)
      PROVE  WriterMoved(w) /\ todo'[w] = S
  BY <1>1, <1>2 DEF ThenInvalidate, WriterMoved, WriterType, LooksUpFirst
<1>3. ASSUME NEW target \in Classes \cup Policies \cup {Nothing}, ThenLookUp(w, target)
      PROVE  WriterMoved(w) /\ reading'[w] = target
  BY <1>1, <1>3 DEF ThenLookUp, WriterMoved, WriterType, LooksUpFirst
<1>4. ASSUME NEW S \in SUBSET Students, ThenNothing(S)
      PROVE  WriterMoved(w) /\ S \subseteq abandoned'
  BY <1>1, <1>4 DEF ThenNothing, WriterMoved, WriterType, LooksUpFirst, writerVars
<1> QED
  BY <1>2, <1>3, <1>4

\* The clock moves on, a commit changes the restrictions of some students and
\* somebody is about to delete their copies, or nobody ever is: the others are as
\* they were.
LEMMA AdvanceKeeps ==
  ASSUME PolicyInv, NEW changed \in SUBSET Students, NEW touched, Advance(changed, touched),
         UNCHANGED <<redisVars, resolverVars>>, abandoned \subseteq abandoned',
         \A s \in Students \ changed :
           /\ lockdown'[s] = lockdown[s] /\ boxed'[s] = boxed[s] /\ boxUntil'[s] = boxUntil[s]
           /\ boxSites'[s] = boxSites[s] /\ LessonRows(s)' = LessonRows(s)
           /\ Pending(s) => Pending(s)',
         \A s \in changed : Pending(s)' \/ s \in abandoned'
  PROVE  Past' /\ ReadsHold' /\ CopiesHold' /\ NoStrayCopy'
<1>1. /\ now \in Nat /\ now' = now + 1 /\ restrictedAt \in [Students -> Nat]
      /\ from \in [Resolvers -> Nat] /\ cachedFrom \in [Keys -> Nat] /\ expires \in [Keys -> Nat]
  BY BoundsAreNat DEF PolicyInv, TypeOK, Advance
<1>2. Past /\ ReadsHold /\ CopiesHold /\ NoStrayCopy
  BY DEF PolicyInv
<1>3. \A s \in Students :
        \/ restrictedAt'[s] = now + 1 /\ (Pending(s)' \/ LapsedBox(s)' \/ s \in abandoned')
        \/ /\ s \notin changed /\ restrictedAt'[s] = restrictedAt[s]
           /\ (LapsedBox(s) => LapsedBox(s)') /\ (Pending(s) => Pending(s)')
           /\ lockdown'[s] = lockdown[s] /\ Box(s)' = Box(s) /\ LessonRows(s)' = LessonRows(s)
           /\ Restrictions(s)' = Restrictions(s)
  <2> SUFFICES ASSUME NEW s \in Students
               PROVE  \/ restrictedAt'[s] = now + 1 /\ (Pending(s)' \/ LapsedBox(s)' \/ s \in abandoned')
                      \/ /\ s \notin changed /\ restrictedAt'[s] = restrictedAt[s]
                         /\ (LapsedBox(s) => LapsedBox(s)') /\ (Pending(s) => Pending(s)')
                         /\ lockdown'[s] = lockdown[s] /\ Box(s)' = Box(s)
                         /\ LessonRows(s)' = LessonRows(s)
                         /\ Restrictions(s)' = Restrictions(s)
    OBVIOUS
  <2>1. CASE s \in changed
    <3>1. restrictedAt'[s] = now + 1
      BY <2>1 DEF Advance
    <3> QED
      BY <2>1, <3>1
  <2>2. CASE s \notin changed
    BY <2>2, RestrictionsKept
  <2> QED
    BY <2>1, <2>2
<1>4. /\ cached' = cached /\ cachedFrom' = cachedFrom /\ expires' = expires
      /\ pc' = pc /\ key' = key /\ from' = from /\ partial' = partial
  BY DEF redisVars, resolverVars
<1>5. Past'
  <2>1. \A s \in Students : restrictedAt'[s] <= now'
    BY <1>1, <1>2, <1>3 DEF Past
  <2>2. \A r \in Resolvers : from'[r] <= now'
    BY <1>1, <1>2, <1>4 DEF Past
  <2>3. \A k \in Keys : cachedFrom'[k] <= now'
    BY <1>1, <1>2, <1>4 DEF Past
  <2> QED
    BY <2>1, <2>2, <2>3 DEF Past
<1>6. ReadsHold'
  <2>1. \A r \in Resolvers : \A s \in Students :
          restrictedAt'[s] <= from[r] => restrictedAt'[s] # now + 1
    BY <1>1, <1>2 DEF Past
  <2> QED
    BY <1>2, <1>3, <1>4, <2>1 DEF ReadsHold, CallHolds
<1>7. \A k \in Keys : Live(k)' => Live(k)
  BY <1>1, <1>4 DEF Live
<1>8. CopiesHold'
  <2>1. \A s \in Students : \A l \in Locations :
          restrictedAt'[s] <= cachedFrom[<<s, l>>] => restrictedAt'[s] # now + 1
    BY <1>1, <1>2 DEF Past, Keys
  <2>2. \A s \in Students : \A l \in Locations : Live(<<s, l>>)' => Live(<<s, l>>)
    BY <1>7 DEF Keys
  <2> QED
    BY <1>2, <1>3, <1>4, <2>1, <2>2 DEF CopiesHold, Restriction
<1>9. NoStrayCopy'
  <2> SUFFICES ASSUME NEW s \in Students, NEW l \in Locations, Live(<<s, l>>)',
                      Restriction(cached[<<s, l>>]) # Restrictions(s)'
               PROVE  Excused(s)' \/ Raced(<<s, l>>)'
    BY <1>4 DEF NoStrayCopy, Restriction
  <2>1. CASE Pending(s)' \/ LapsedBox(s)' \/ s \in abandoned'
    BY <2>1 DEF Excused
  <2>2. CASE ~(Pending(s)' \/ LapsedBox(s)' \/ s \in abandoned')
    <3>1. /\ restrictedAt'[s] = restrictedAt[s] /\ Restrictions(s)' = Restrictions(s)
          /\ ~Pending(s) /\ ~LapsedBox(s)
      BY <1>3, <2>2
    <3>2. Live(<<s, l>>)
      BY <1>7 DEF Keys
    <3>3. s \in abandoned \/ Raced(<<s, l>>)
      BY <1>2, <3>1, <3>2 DEF NoStrayCopy, Excused
    <3>4. Raced(<<s, l>>) => Raced(<<s, l>>)'
      BY <1>4, <3>1 DEF Raced
    <3> QED
      BY <1>4, <3>3, <3>4 DEF Excused
  <2> QED
    BY <2>1, <2>2
<1> QED
  BY <1>5, <1>6, <1>8, <1>9

LEMMA CommitKeeps ==
  ASSUME PolicyInv, NEW w \in Writers, NEW layer, NEW changed \in SUBSET Students, NEW touched,
         Commit(w, layer, changed, touched), DbType', WriterMoved(w),
         \A s \in Students \ changed :
           /\ lockdown'[s] = lockdown[s] /\ boxed'[s] = boxed[s] /\ boxUntil'[s] = boxUntil[s]
           /\ boxSites'[s] = boxSites[s] /\ LessonRows(s)' = LessonRows(s)
           /\ members[s] \subseteq members'[s],
         \A s \in changed : Pending(s)' \/ s \in abandoned'
  PROVE  PolicyInv'
<1>1. TypeOK'
  <2>1. DbType /\ RedisType /\ WriterType /\ ResolverType /\ ClockType /\ FaultType
    BY TypeInParts DEF PolicyInv
  <2>2. writes' \in 0 .. MaxWrites
    BY <2>1, BoundsAreNat DEF ClockType, Commit
  <2>3. ClockType'
    BY <2>1, <2>2, AdvanceType DEF Commit
  <2>4. RedisType' /\ ResolverType' /\ FaultType'
    BY <2>1, UnchangedParts DEF Commit, WriterMoved, FaultType
  <2> QED
    BY <2>3, <2>4, TypeAfter DEF WriterMoved
<1>2. \A s \in Students \ changed : Pending(s) => Pending(s)'
  <2>1. reading[w] = Nothing /\ todo[w] = {} /\ Nothing \notin Classes
    BY PolicyAssumption DEF Commit, Free
  <2>2. \A v \in Writers \ {w} : reading'[v] = reading[v] /\ todo'[v] = todo[v]
    BY DEF WriterMoved
  <2> QED
    BY <2>1, <2>2 DEF Pending
<1>3. Past' /\ ReadsHold' /\ CopiesHold' /\ NoStrayCopy'
  BY <1>2, AdvanceKeeps DEF Commit, WriterMoved
<1> QED
  BY <1>1, <1>3 DEF PolicyInv, WriterMoved

\* The routes and the cron jobs, one by one.
LEMMA LockdownKeeps ==
  ASSUME PolicyInv, NEW w \in Writers, NEW S \in SUBSET Students,
         StartLockdown(w, S) \/ EndLockdown(w, S)
  PROVE  PolicyInv'
<1>1. /\ Commit(w, "lockdown", S, S) /\ ThenInvalidate(w, S)
      /\ lockdown' = [s \in Students |-> IF s \in S THEN Id ELSE lockdown[s]]
           \/ lockdown' = [s \in Students |-> IF s \in S THEN 0 ELSE lockdown[s]]
      /\ UNCHANGED <<boxed, boxUntil, boxSites, lesson, members, assigned, inherited, rules>>
  BY DEF StartLockdown, EndLockdown
<1>2. WriterMoved(w) /\ todo'[w] = S
  BY <1>1, MovesOn DEF Commit
<1>3. DbType'
  <2>1. Id \in Nat
    BY DEF PolicyInv, TypeOK, Id
  <2> QED
    BY <1>1, <2>1 DEF DbType, PolicyInv, TypeOK
<1>4. \A s \in Students : LessonRows(s)' = LessonRows(s)
  BY <1>1, SameLessons
<1>5. \A s \in S : Pending(s)'
  BY <1>2 DEF Pending
<1>6. \A s \in Students \ S : lockdown'[s] = lockdown[s]
  BY <1>1
<1> QED
  BY <1>1, <1>2, <1>3, <1>4, <1>5, <1>6, CommitKeeps

LEMMA BoxKeeps ==
  ASSUME PolicyInv, NEW w \in Writers, NEW s \in Students, NEW until \in Nat,
         Place(w, s, until) \/ Grant(w, s)
  PROVE  PolicyInv'
<1>1. /\ Commit(w, "penalty", {s}, {s}) /\ ThenInvalidate(w, {s})
      /\ UNCHANGED <<lockdown, lesson, members, assigned, inherited, rules>>
  BY DEF Place, Grant
<1>2. WriterMoved(w) /\ todo'[w] = {s}
  BY <1>1, MovesOn DEF Commit
<1>3. Id \in Nat /\ 0 \in Nat
  BY DEF PolicyInv, TypeOK, Id
<1>4. /\ boxed' \in [Students -> BOOLEAN] /\ boxUntil' \in [Students -> Nat]
      /\ boxSites' \in [Students -> Nat]
      /\ \A t \in Students \ {s} : boxed'[t] = boxed[t] /\ boxUntil'[t] = boxUntil[t]
                                   /\ boxSites'[t] = boxSites[t]
  <2>1. boxed \in [Students -> BOOLEAN] /\ boxUntil \in [Students -> Nat] /\ boxSites \in [Students -> Nat]
    BY DEF PolicyInv, TypeOK
  <2>2. CASE Place(w, s, until)
    <3>1. boxed' \in [Students -> BOOLEAN] /\ \A t \in Students \ {s} : boxed'[t] = boxed[t]
      BY <2>1, <2>2 DEF Place
    <3>2. boxUntil' \in [Students -> Nat] /\ \A t \in Students \ {s} : boxUntil'[t] = boxUntil[t]
      BY <2>1, <2>2 DEF Place
    <3>3. boxSites' \in [Students -> Nat] /\ \A t \in Students \ {s} : boxSites'[t] = boxSites[t]
      BY <2>1, <2>2 DEF Place
    <3> QED
      BY <3>1, <3>2, <3>3
  <2>3. CASE Grant(w, s)
    <3>1. boxSites' \in [Students -> Nat] /\ \A t \in Students \ {s} : boxSites'[t] = boxSites[t]
      BY <1>3, <2>1, <2>3 DEF Grant
    <3>2. boxed' = boxed /\ boxUntil' = boxUntil
      BY <2>3 DEF Grant
    <3> QED
      BY <2>1, <3>1, <3>2
  <2> QED
    BY <2>2, <2>3
<1>5. DbType'
  BY <1>1, <1>4 DEF DbType, PolicyInv, TypeOK
<1>6. \A t \in Students : LessonRows(t)' = LessonRows(t)
  BY <1>1, SameLessons
<1>7. Pending(s)'
  BY <1>2 DEF Pending
<1> QED
  BY <1>1, <1>2, <1>4, <1>5, <1>6, <1>7, CommitKeeps

LEMMA UnboxKeeps ==
  ASSUME PolicyInv, NEW w \in Writers, NEW S \in SUBSET Students, Unbox(w, S)
  PROVE  PolicyInv'
<1>1. /\ Commit(w, "penalty", S, S) /\ ThenInvalidate(w, S)
      /\ boxed' = [s \in Students |-> boxed[s] /\ s \notin S]
      /\ UNCHANGED <<lockdown, boxUntil, boxSites, lesson, members, assigned, inherited, rules>>
  BY DEF Unbox
<1>2. WriterMoved(w) /\ todo'[w] = S
  BY <1>1, MovesOn DEF Commit
<1>3. boxed' \in [Students -> BOOLEAN] /\ \A s \in Students \ S : boxed'[s] = boxed[s]
  BY <1>1 DEF PolicyInv, TypeOK
<1>4. DbType'
  BY <1>1, <1>3 DEF DbType, PolicyInv, TypeOK
<1>5. \A s \in Students : LessonRows(s)' = LessonRows(s)
  BY <1>1, SameLessons
<1>6. \A s \in S : Pending(s)'
  BY <1>2 DEF Pending
<1> QED
  BY <1>1, <1>2, <1>3, <1>4, <1>5, <1>6, CommitKeeps

LEMMA LessonKeeps ==
  ASSUME PolicyInv, NEW w \in Writers, NEW c \in Classes, NEW l \in Lesson, SetLesson(w, c, l)
  PROVE  PolicyInv'
<1> DEFINE S == MembersOf(c)
<1>1. /\ Commit(w, "lesson", S, S) /\ ThenLookUp(w, c) /\ lesson' = [lesson EXCEPT ![c] = l]
      /\ UNCHANGED <<lockdown, boxed, boxUntil, boxSites, members, assigned, inherited, rules>>
      /\ S \in SUBSET Students
  BY DEF SetLesson, MembersOf
<1>2. WriterMoved(w) /\ reading'[w] = c
  BY <1>1, MovesOn DEF Commit
<1>3. DbType'
  BY <1>1 DEF DbType, PolicyInv, TypeOK
<1>4. \A s \in Students \ S : LessonRows(s)' = LessonRows(s)
  <2> SUFFICES ASSUME NEW s \in Students \ S PROVE LessonRows(s)' = LessonRows(s)
    OBVIOUS
  <2>1. c \notin members[s]
    BY DEF MembersOf
  <2>2. \A d \in members[s] : d \in Classes /\ lesson'[d] = lesson[d]
    BY <1>1, <2>1 DEF PolicyInv, TypeOK
  <2> QED
    BY <1>1, <2>2, SameLessons
<1>5. \A s \in S : Pending(s)'
  BY <1>1, <1>2 DEF Pending, MembersOf
<1> HIDE DEF S
<1> QED
  BY <1>1, <1>2, <1>3, <1>4, <1>5, CommitKeeps

LEMMA MembersKeeps ==
  ASSUME PolicyInv, NEW w \in Writers, NEW s \in Students, NEW C \in SUBSET Classes,
         SetMembers(w, s, C)
  PROVE  PolicyInv'
<1>1. /\ Commit(w, "members", {s}, {s}) /\ ThenInvalidate(w, {s})
      /\ members' = [members EXCEPT ![s] = C]
      /\ UNCHANGED <<lockdown, boxed, boxUntil, boxSites, lesson, assigned, inherited, rules>>
  BY DEF SetMembers
<1>2. WriterMoved(w) /\ todo'[w] = {s}
  BY <1>1, MovesOn DEF Commit
<1>3. DbType' /\ \A t \in Students \ {s} : members'[t] = members[t]
  BY <1>1 DEF DbType, PolicyInv, TypeOK
<1>4. \A t \in Students \ {s} : LessonRows(t)' = LessonRows(t)
  BY <1>1, <1>3, SameLessons
<1>5. Pending(s)'
  BY <1>2 DEF Pending
<1> QED
  BY <1>1, <1>2, <1>3, <1>4, <1>5, CommitKeeps

\* A roster sync moves a student into a class: without a lesson there, the student
\* is as free as before.
LEMMA EnrolKeeps ==
  ASSUME PolicyInv, NEW w \in Writers, NEW s \in Students, NEW c \in Classes, Enrol(w, s, c)
  PROVE  PolicyInv'
<1> DEFINE S == IF lesson[c].id > 0 THEN {s} ELSE {}
<1>1. /\ Commit(w, "members", S, S) /\ ThenNothing(S) /\ S \in SUBSET Students
      /\ members' = [members EXCEPT ![s] = @ \cup {c}]
      /\ UNCHANGED <<lockdown, boxed, boxUntil, boxSites, lesson, assigned, inherited, rules>>
  BY DEF Enrol
<1>2. WriterMoved(w) /\ S \subseteq abandoned'
  BY <1>1, MovesOn DEF Commit
<1>3. /\ DbType' /\ \A t \in Students \ {s} : members'[t] = members[t]
      /\ members'[s] = members[s] \cup {c}
  BY <1>1 DEF DbType, PolicyInv, TypeOK
<1>4. \A t \in Students \ S : LessonRows(t)' = LessonRows(t)
  <2>1. \A t \in Students \ {s} : LessonRows(t)' = LessonRows(t)
    BY <1>1, <1>3, SameLessons
  <2>2. CASE ~(lesson[c].id > 0)
    <3>1. lesson[c].id = 0 /\ \A d \in members[s] : lesson[d].id \in Nat
      BY <2>2 DEF PolicyInv, TypeOK, Lesson
    <3> DEFINE Latest(C) == { d \in C : lesson[d].id > 0 /\ \A e \in C : lesson[e].id <= lesson[d].id }
    <3>2. Latest(members[s] \cup {c}) = Latest(members[s])
      BY <2>2, <3>1
    <3>3. LessonRows(s)' = { lesson[d] : d \in Latest(members[s] \cup {c}) }
      BY <1>1, <1>3 DEF LessonRows
    <3>4. LessonRows(s) = { lesson[d] : d \in Latest(members[s]) }
      BY DEF LessonRows
    <3> QED
      BY <2>1, <3>2, <3>3, <3>4
  <2> QED
    BY <2>1, <2>2
<1>5. \A t \in Students : members[t] \subseteq members'[t]
  BY <1>3
<1> HIDE DEF S
<1> QED
  BY <1>1, <1>2, <1>3, <1>4, <1>5, CommitKeeps

\* Assignments and rules do not restrict anybody: their writers may forget a
\* student, or all of them.
LEMMA PolicyWriteKeeps ==
  ASSUME PolicyInv, NEW w \in Writers, NEW layer, NEW touched, Commit(w, layer, {}, touched),
         WriterMoved(w), DbType',
         UNCHANGED <<lockdown, boxed, boxUntil, boxSites, lesson, members>>
  PROVE  PolicyInv'
<1>1. \A s \in Students : LessonRows(s)' = LessonRows(s)
  BY SameLessons
<1> QED
  BY <1>1, CommitKeeps

LEMMA AssignKeeps ==
  ASSUME PolicyInv, NEW w \in Writers, NEW s \in Students, NEW l \in Locations,
         NEW p \in Policies \cup {Nothing}, Assign(w, s, l, p)
  PROVE  PolicyInv'
<1>1. assigned[<<s, l>>] \in Policies \cup {Nothing} /\ {s} \in SUBSET Students
  BY DEF PolicyInv, TypeOK, Keys
<1>2. WriterMoved(w)
  BY <1>1, MovesOn DEF Assign, Commit
<1>3. DbType'
  BY DEF Assign, DbType, PolicyInv, TypeOK
<1> QED
  BY <1>2, <1>3, PolicyWriteKeeps DEF Assign

LEMMA InheritKeeps ==
  ASSUME PolicyInv, NEW w \in Writers, NEW s \in Students,
         NEW p \in Policies \cup {Nothing}, Inherit(w, s, p)
  PROVE  PolicyInv'
<1>1. WriterMoved(w)
  BY MovesOn DEF Inherit, Commit
<1>2. DbType'
  BY DEF Inherit, DbType, PolicyInv, TypeOK
<1> QED
  BY <1>1, <1>2, PolicyWriteKeeps DEF Inherit

LEMMA RulesKeep ==
  ASSUME PolicyInv, NEW w \in Writers, NEW p \in Policies,
         EditRules(w, p) \/ EditCategoryRule(w, p)
  PROVE  PolicyInv'
<1>1. PICK layer \in {"rules", "category"} :
        SetRules(w, layer, p) /\ (ThenLookUp(w, p) \/ ThenNothing({}))
  BY DEF EditRules, EditCategoryRule
<1>2. WriterMoved(w)
  BY <1>1, MovesOn DEF SetRules, Commit
<1>3. Id \in Nat
  BY DEF PolicyInv, TypeOK, Id
<1>4. DbType'
  BY <1>1, <1>3 DEF SetRules, DbType, PolicyInv, TypeOK
<1> QED
  BY <1>1, <1>2, <1>4, PolicyWriteKeeps DEF SetRules

LEMMA WriteKeeps ==
  ASSUME PolicyInv, NEW w \in Writers, Write(w)
  PROVE  PolicyInv'
<1>0. now \in Nat /\ MaxTime \in Nat /\ Id \in Nat /\ 0 \in Nat
  BY BoundsAreNat DEF PolicyInv, TypeOK, Id
<1>1. CASE \E S \in SUBSET Students \ {{}} : StartLockdown(w, S) \/ EndLockdown(w, S)
  BY <1>1, LockdownKeeps
<1>2. CASE \E s \in Students : \E until \in {now + 2, MaxTime + 1} : Place(w, s, until)
  BY <1>0, <1>2, BoxKeeps
<1>3. CASE \E s \in Students : Grant(w, s)
  BY <1>0, <1>3, BoxKeeps
<1>4. CASE \E s \in Students : Release(w, s)
  BY <1>4, UnboxKeeps DEF Release
<1>5. CASE \E s \in Students : \E c \in Classes : Join(w, s, c) \/ Leave(w, s, c)
  <2>1. PICK s \in Students, c \in Classes :
          SetMembers(w, s, members[s] \cup {c}) \/ SetMembers(w, s, members[s] \ {c})
    BY <1>5 DEF Join, Leave
  <2>2. members[s] \cup {c} \in SUBSET Classes /\ members[s] \ {c} \in SUBSET Classes
    BY DEF PolicyInv, TypeOK
  <2> QED
    BY <2>1, <2>2, MembersKeeps
<1>12. CASE \E s \in Students : \E c \in Classes : Enrol(w, s, c)
  BY <1>12, EnrolKeeps
<1>6. CASE \E s \in Students : \E p \in Policies \cup {Nothing} : Inherit(w, s, p)
  BY <1>6, InheritKeeps
<1>7. CASE \E s \in Students : \E p \in Policies \cup {Nothing} : \E l \in Locations :
             Assign(w, s, l, p)
  BY <1>7, AssignKeeps
<1>8. CASE ExpireBoxes(w)
  BY <1>8, UnboxKeeps DEF ExpireBoxes
<1>9. CASE \E c \in Classes : EndLesson(w, c)
  <2>1. NoLesson \in Lesson
    BY DEF NoLesson, Lesson, Modes
  <2> QED
    BY <1>9, <2>1, LessonKeeps DEF EndLesson
<1>10. CASE \E c \in Classes : \E mode \in Modes : StartLesson(w, c, mode) \/ EditLesson(w, c, mode)
  <2>1. PICK c \in Classes, mode \in Modes : StartLesson(w, c, mode) \/ EditLesson(w, c, mode)
    BY <1>10
  <2>2. lesson[c].id \in Nat
    BY DEF PolicyInv, TypeOK, Lesson
  <2>3. /\ [id |-> Id, sites |-> 0, mode |-> mode] \in Lesson
        /\ [id |-> lesson[c].id, sites |-> Id, mode |-> mode] \in Lesson
    BY <1>0, <2>2 DEF Lesson
  <2> QED
    BY <2>1, <2>3, LessonKeeps DEF StartLesson, EditLesson
<1>11. CASE \E p \in Policies : EditRules(w, p) \/ EditCategoryRule(w, p)
  BY <1>11, RulesKeep
<1> QED
  BY <1>1, <1>2, <1>3, <1>4, <1>5, <1>6, <1>7, <1>8, <1>9, <1>10, <1>11, <1>12 DEF Write

LEMMA TickKeeps ==
  ASSUME PolicyInv, Tick
  PROVE  PolicyInv'
<1>1. /\ Advance({}, {}) /\ UNCHANGED <<redisVars, resolverVars, faultVars>>
      /\ UNCHANGED writes /\ UNCHANGED dbVars /\ UNCHANGED writerVars
  BY DEF Tick
<1>2. TypeOK'
  <2>1. DbType /\ RedisType /\ WriterType /\ ResolverType /\ ClockType /\ FaultType
    BY TypeInParts DEF PolicyInv
  <2>2. ClockType'
    BY <1>1, <2>1, AdvanceType DEF ClockType
  <2> QED
    BY <1>1, <2>1, <2>2, UnchangedParts, TypeAfter
<1>3. LooksUpFirst'
  BY <1>1 DEF PolicyInv, LooksUpFirst, writerVars
<1>4. \A s \in Students : LessonRows(s)' = LessonRows(s)
  BY <1>1, SameLessons DEF dbVars
<1>5. \A s \in Students : Pending(s) => Pending(s)'
  BY <1>1 DEF Pending, writerVars, dbVars
<1>6. Past' /\ ReadsHold' /\ CopiesHold' /\ NoStrayCopy'
  BY <1>1, <1>4, <1>5, AdvanceKeeps DEF dbVars, faultVars
<1> QED
  BY <1>2, <1>3, <1>6 DEF PolicyInv

\* Nothing the restriction or the clock consists of moves.
Still == UNCHANGED <<clockVars, dbVars, abandoned>>

LEMMA StillRows ==
  ASSUME Still
  PROVE  /\ \A s : BoxRows(s)' = BoxRows(s) /\ Box(s)' = Box(s)
         /\ \A s : LessonRows(s)' = LessonRows(s) /\ Restrictions(s)' = Restrictions(s)
         /\ \A s : LapsedBox(s)' = LapsedBox(s)
<1>1. UNCHANGED <<now, lockdown, boxed, boxUntil, boxSites, lesson, members>>
  BY DEF Still, clockVars, dbVars
<1>2. \A s : BoxRows(s)' = BoxRows(s) /\ LessonRows(s)' = LessonRows(s)
  BY <1>1 DEF BoxRows, LessonRows
<1> QED
  BY <1>1, <1>2 DEF Box, Restrictions, LapsedBox

-----------------------------------------------------------------------------
(* The writers after their commit.                                         *)

LEMMA LookUpKeeps ==
  ASSUME PolicyInv, NEW w \in Writers, LookUp(w)
  PROVE  PolicyInv'
<1>1. /\ reading[w] # Nothing /\ todo[w] = {}
      /\ reading' = [reading EXCEPT ![w] = Nothing]
      /\ todo' = [todo EXCEPT ![w] = Concerned(reading[w])]
      /\ UNCHANGED <<clockVars, dbVars, redisVars, resolverVars, faultVars>>
      /\ WriterType /\ LooksUpFirst
  BY TypeInParts DEF LookUp, PolicyInv, LooksUpFirst
<1>2. Concerned(reading[w]) \in SUBSET Students
  BY DEF Concerned, MembersOf
<1>3. WriterType' /\ LooksUpFirst'
  BY <1>1, <1>2 DEF WriterType, LooksUpFirst
<1>4. \A s \in Students : Pending(s) => Pending(s)'
  <2> SUFFICES ASSUME NEW s \in Students, NEW v \in Writers,
                      s \in todo[v] \/ (reading[v] \in Classes /\ reading[v] \in members[s])
               PROVE  Pending(s)'
    BY DEF Pending
  <2>1. members' = members
    BY <1>1 DEF dbVars
  <2>2. CASE v = w
    <3>1. reading[w] \in Classes /\ reading[w] \in members[s]
      BY <1>1, <2>2
    <3>2. s \in Concerned(reading[w])
      BY <3>1 DEF Concerned, MembersOf
    <3>3. todo'[w] = Concerned(reading[w])
      BY <1>1 DEF WriterType
    <3> QED
      BY <3>2, <3>3 DEF Pending
  <2>3. CASE v # w
    <3>1. todo'[v] = todo[v] /\ reading'[v] = reading[v]
      BY <1>1, <2>3 DEF WriterType
    <3> QED
      BY <2>1, <3>1 DEF Pending
  <2> QED
    BY <2>2, <2>3
<1>5. TypeOK'
  BY <1>1, <1>3, TypeInParts, TypeAfter, UnchangedParts DEF PolicyInv
<1>6. Still
  BY <1>1 DEF Still, faultVars
<1>7. UNCHANGED <<now, restrictedAt, cached, cachedFrom, expires, pc, key, from, partial, abandoned>>
  BY <1>1 DEF clockVars, redisVars, resolverVars, faultVars
<1>8. Past'
  BY <1>7 DEF PolicyInv, Past
<1>9. ReadsHold'
  BY <1>6, <1>7, StillRows DEF PolicyInv, ReadsHold, CallHolds, Still, dbVars
<1>10. CopiesHold'
  BY <1>6, <1>7, StillRows DEF PolicyInv, CopiesHold, Live, Restriction
<1>11. NoStrayCopy'
  BY <1>4, <1>6, <1>7, StillRows DEF PolicyInv, NoStrayCopy, Live, Restriction, Excused, Raced
<1> QED
  BY <1>3, <1>5, <1>8, <1>9, <1>10, <1>11 DEF PolicyInv

LEMMA WriterDiesKeeps ==
  ASSUME PolicyInv, NEW w \in Writers, WriterDies(w)
  PROVE  PolicyInv'
<1>1. /\ crashes < MaxCrashes /\ crashes' = crashes + 1
      /\ abandoned' = abandoned \cup todo[w]
                         \cup (IF reading[w] = Nothing THEN {} ELSE Concerned(reading[w]))
      /\ reading' = [reading EXCEPT ![w] = Nothing] /\ todo' = [todo EXCEPT ![w] = {}]
      /\ UNCHANGED <<clockVars, dbVars, redisVars, resolverVars>>
      /\ WriterType /\ LooksUpFirst /\ FaultType
  BY TypeInParts DEF WriterDies, PolicyInv
<1>2. Concerned(reading[w]) \in SUBSET Students
  BY DEF Concerned, MembersOf
<1>3. WriterType' /\ LooksUpFirst' /\ FaultType'
  <2>1. crashes' \in 0 .. MaxCrashes
    BY <1>1, BoundsAreNat DEF FaultType
  <2>2. abandoned' \subseteq Students
    BY <1>1, <1>2 DEF WriterType, FaultType
  <2> QED
    BY <1>1, <2>1, <2>2 DEF WriterType, LooksUpFirst, FaultType
<1>4. \A s \in Students : Pending(s) => Pending(s)' \/ s \in abandoned'
  <2> SUFFICES ASSUME NEW s \in Students, NEW v \in Writers,
                      s \in todo[v] \/ (reading[v] \in Classes /\ reading[v] \in members[s])
               PROVE  Pending(s)' \/ s \in abandoned'
    BY DEF Pending
  <2>1. members' = members /\ Nothing \notin Classes
    BY <1>1, PolicyAssumption DEF dbVars
  <2>2. CASE v = w
    <3>1. reading[w] \in Classes /\ reading[w] \in members[s] => s \in Concerned(reading[w])
      BY DEF Concerned, MembersOf
    <3> QED
      BY <1>1, <2>1, <2>2, <3>1
  <2>3. CASE v # w
    <3>1. todo'[v] = todo[v] /\ reading'[v] = reading[v]
      BY <1>1, <2>3 DEF WriterType
    <3> QED
      BY <2>1, <3>1 DEF Pending
  <2> QED
    BY <2>2, <2>3
<1>5. TypeOK'
  BY <1>1, <1>3, TypeInParts, TypeAfter, UnchangedParts DEF PolicyInv
<1>6. UNCHANGED <<now, restrictedAt, cached, cachedFrom, expires, pc, key, from, partial>>
  BY <1>1 DEF clockVars, redisVars, resolverVars
<1>7. UNCHANGED <<lockdown, boxed, boxUntil, boxSites, lesson, members>>
  BY <1>1 DEF dbVars
<1>8. \A s : /\ Box(s)' = Box(s) /\ LessonRows(s)' = LessonRows(s)
             /\ Restrictions(s)' = Restrictions(s) /\ LapsedBox(s)' = LapsedBox(s)
  <2>1. \A s : BoxRows(s)' = BoxRows(s) /\ LessonRows(s)' = LessonRows(s)
    BY <1>6, <1>7 DEF BoxRows, LessonRows
  <2> QED
    BY <1>6, <1>7, <2>1 DEF Box, Restrictions, LapsedBox
<1>9. Past'
  BY <1>6 DEF PolicyInv, Past
<1>10. ReadsHold'
  BY <1>6, <1>7, <1>8 DEF PolicyInv, ReadsHold, CallHolds
<1>11. CopiesHold'
  BY <1>6, <1>8 DEF PolicyInv, CopiesHold, Live, Restriction
<1>12. NoStrayCopy'
  BY <1>1, <1>4, <1>6, <1>8 DEF PolicyInv, NoStrayCopy, Live, Restriction, Excused, Raced
<1> QED
  BY <1>3, <1>5, <1>9, <1>10, <1>11, <1>12 DEF PolicyInv

\* Its keys deleted, the student has no copy to be stale.
LEMMA InvalidateKeeps ==
  ASSUME PolicyInv, NEW w \in Writers, Invalidate(w)
  PROVE  PolicyInv'
<1>1. PICK s \in todo[w] :
        /\ cached' = [k \in Keys |-> IF k[1] = s THEN Blank ELSE cached[k]]
        /\ cachedFrom' = [k \in Keys |-> IF k[1] = s THEN 0 ELSE cachedFrom[k]]
        /\ expires' = [k \in Keys |-> IF k[1] = s THEN 0 ELSE expires[k]]
        /\ todo' = [todo EXCEPT ![w] = @ \ {s}]
        /\ touchedAt' = [touchedAt EXCEPT ![s] = now]
        /\ abandoned' = abandoned \ {s}
        /\ UNCHANGED <<now, writes, restrictedAt, dbVars, reading, resolverVars, crashes>>
  BY DEF Invalidate
<1>2. DbType /\ RedisType /\ WriterType /\ ResolverType /\ ClockType /\ FaultType
  BY TypeInParts DEF PolicyInv
<1>3. s \in Students /\ now \in Nat
  BY <1>1, <1>2, BoundsAreNat DEF WriterType, ClockType
<1>4. WriterType' /\ LooksUpFirst'
  BY <1>1, <1>2 DEF WriterType, PolicyInv, LooksUpFirst
<1>5. TypeOK'
  <2>1. Blank \in Value
    BY DEF Blank, Value
  <2>2. RedisType'
    BY <1>1, <1>2, <2>1 DEF RedisType
  <2>3. ClockType' /\ FaultType'
    BY <1>1, <1>2, <1>3 DEF ClockType, FaultType
  <2> QED
    BY <1>1, <1>2, <1>4, <2>2, <2>3, UnchangedParts, TypeAfter
<1>6. UNCHANGED <<now, restrictedAt, pc, key, from, partial>>
      /\ UNCHANGED <<lockdown, boxed, boxUntil, boxSites, lesson, members>>
  BY <1>1 DEF dbVars, resolverVars
<1>7. \A t : /\ Box(t)' = Box(t) /\ LessonRows(t)' = LessonRows(t)
             /\ Restrictions(t)' = Restrictions(t) /\ LapsedBox(t)' = LapsedBox(t)
  <2>1. \A t : BoxRows(t)' = BoxRows(t) /\ LessonRows(t)' = LessonRows(t)
    BY <1>6 DEF BoxRows, LessonRows
  <2> QED
    BY <1>6, <2>1 DEF Box, Restrictions, LapsedBox
<1>8. \A t \in Students : t # s /\ Excused(t) => Excused(t)'
  <2> SUFFICES ASSUME NEW t \in Students, t # s, Excused(t) PROVE Excused(t)'
    OBVIOUS
  <2>1. Pending(t) => Pending(t)'
    BY <1>1, <1>2, <1>6 DEF Pending, WriterType
  <2> QED
    BY <1>1, <1>7, <2>1 DEF Excused
<1>9. \A t \in Students : \A l \in Locations :
        /\ t = s => ~Live(<<t, l>>)'
        /\ t # s => /\ cached'[<<t, l>>] = cached[<<t, l>>]
                    /\ cachedFrom'[<<t, l>>] = cachedFrom[<<t, l>>]
                    /\ expires'[<<t, l>>] = expires[<<t, l>>]
  <2> SUFFICES ASSUME NEW t \in Students, NEW l \in Locations
               PROVE  /\ t = s => ~Live(<<t, l>>)'
                      /\ t # s => /\ cached'[<<t, l>>] = cached[<<t, l>>]
                                  /\ cachedFrom'[<<t, l>>] = cachedFrom[<<t, l>>]
                                  /\ expires'[<<t, l>>] = expires[<<t, l>>]
    OBVIOUS
  <2>1. <<t, l>> \in Keys /\ <<t, l>>[1] = t
    BY DEF Keys
  <2>2. t = s => expires'[<<t, l>>] = 0
    BY <1>1, <2>1
  <2> QED
    BY <1>1, <1>3, <1>6, <2>1, <2>2 DEF Live
<1>10. Past'
  <2>1. \A k \in Keys : cachedFrom'[k] <= now
    BY <1>1, <1>3 DEF PolicyInv, Past
  <2> QED
    BY <1>6, <2>1 DEF PolicyInv, Past
<1>11. ReadsHold'
  BY <1>6, <1>7 DEF PolicyInv, ReadsHold, CallHolds
<1>12. CopiesHold'
  BY <1>6, <1>7, <1>9 DEF PolicyInv, CopiesHold, Live, Restriction
<1>13. NoStrayCopy'
  BY <1>6, <1>7, <1>8, <1>9 DEF PolicyInv, NoStrayCopy, Live, Restriction, Raced
<1> QED
  BY <1>4, <1>5, <1>10, <1>11, <1>12, <1>13 DEF PolicyInv

-----------------------------------------------------------------------------
(* The calls.                                                              *)

\* A step of one call, which leaves Redis alone.
Moved(r) ==
  /\ ResolverType' /\ from'[r] <= now
  /\ \A q \in Resolvers \ {r} : pc'[q] = pc[q] /\ key'[q] = key[q] /\ from'[q] = from[q]
                                /\ partial'[q] = partial[q]

LEMMA OthersHold ==
  ASSUME PolicyInv, NEW r \in Resolvers, KeepRest, Moved(r), CallHolds(r)'
  PROVE  ReadsHold' /\ \A q \in Resolvers : from'[q] <= now'
<1>1. Still /\ UNCHANGED <<now, restrictedAt, lockdown>>
  BY DEF KeepRest, Still, faultVars, clockVars, dbVars
<1>2. \A q \in Resolvers \ {r} : CallHolds(q)'
  <2> SUFFICES ASSUME NEW q \in Resolvers \ {r} PROVE CallHolds(q)'
    OBVIOUS
  <2>1. CallHolds(q)
    BY DEF PolicyInv, ReadsHold
  <2> QED
    BY <1>1, <2>1, StillRows DEF CallHolds, Moved
<1> QED
  BY <1>1, <1>2 DEF ReadsHold, PolicyInv, Past, Moved

LEMMA CallKeeps ==
  ASSUME PolicyInv, NEW r \in Resolvers, KeepRest, UNCHANGED redisVars, Moved(r), CallHolds(r)'
  PROVE  PolicyInv'
<1>1. /\ Still /\ UNCHANGED <<now, restrictedAt, cached, cachedFrom, expires, abandoned>>
      /\ UNCHANGED <<reading, todo, members>>
  BY DEF KeepRest, Still, faultVars, clockVars, dbVars, redisVars, writerVars
<1>2. TypeOK'
  BY TypeInParts, TypeAfter, UnchangedParts DEF PolicyInv, KeepRest, Moved
<1>3. ReadsHold' /\ \A q \in Resolvers : from'[q] <= now'
  BY OthersHold
<1>4. Past' /\ LooksUpFirst'
  BY <1>1, <1>3 DEF PolicyInv, Past, LooksUpFirst
<1>5. CopiesHold'
  BY <1>1, StillRows DEF PolicyInv, CopiesHold, Live, Restriction
<1>6. \A s : Pending(s)' = Pending(s)
  BY <1>1 DEF Pending
<1>7. NoStrayCopy'
  BY <1>1, <1>6, StillRows DEF PolicyInv, NoStrayCopy, Live, Restriction, Excused, Raced
<1> QED
  BY <1>2, <1>3, <1>4, <1>5, <1>7 DEF PolicyInv

\* A copy just made says what the tables say, or the call that made it overlapped
\* the change it misses.
LEMMA StoringKeeps ==
  ASSUME PolicyInv, NEW r \in Resolvers, pc[r] \in {"store", "reply"}, KeepRest, SetCache(r),
         Moved(r), CallHolds(r)'
  PROVE  PolicyInv'
<1>1. /\ Still /\ UNCHANGED <<now, restrictedAt, abandoned>>
      /\ UNCHANGED <<reading, todo, members>>
  BY DEF KeepRest, Still, faultVars, clockVars, dbVars, writerVars
<1>2. DbType /\ RedisType /\ WriterType /\ ResolverType /\ ClockType /\ FaultType
  BY TypeInParts DEF PolicyInv
<1>3. /\ key[r] \in Keys /\ from[r] \in Nat /\ from[r] <= now /\ partial[r] \in Value
      /\ now \in Nat /\ TTL \in Nat
  BY <1>2, BoundsAreNat DEF ResolverType, ClockType, PolicyInv, Past
<1>4. TypeOK'
  <2>1. RedisType'
    BY <1>2, <1>3 DEF RedisType, SetCache
  <2> QED
    BY <1>2, <2>1, UnchangedParts, TypeAfter DEF KeepRest, Moved
<1>5. ReadsHold' /\ \A q \in Resolvers : from'[q] <= now'
  BY OthersHold
<1>6. Past' /\ LooksUpFirst'
  <2>1. \A k \in Keys : cachedFrom'[k] <= now
    BY <1>2, <1>3 DEF SetCache, RedisType, PolicyInv, Past
  <2> QED
    BY <1>1, <1>5, <2>1 DEF PolicyInv, Past, LooksUpFirst
<1>7. PICK s \in Students, l \in Locations : key[r] = <<s, l>>
  BY <1>3 DEF Keys
<1>8. /\ cached'[<<s, l>>] = partial[r] /\ cachedFrom'[<<s, l>>] = from[r]
      /\ expires'[<<s, l>>] = now + TTL
  BY <1>2, <1>3, <1>7 DEF SetCache, RedisType
<1>9. \A t \in Students : \A m \in Locations : <<t, m>> # <<s, l>> =>
        /\ cached'[<<t, m>>] = cached[<<t, m>>] /\ cachedFrom'[<<t, m>>] = cachedFrom[<<t, m>>]
        /\ expires'[<<t, m>>] = expires[<<t, m>>]
  BY <1>2, <1>7 DEF SetCache, RedisType, Keys
<1>10. restrictedAt[s] <= from[r] => Restriction(partial[r]) = Restrictions(s)
  <2>1. CallHolds(r) /\ key[r][1] = s
    BY <1>7 DEF PolicyInv, ReadsHold
  <2> QED
    BY <2>1 DEF CallHolds, Restriction, Restrictions
<1>11. \A t : Pending(t)' = Pending(t)
  BY <1>1 DEF Pending
<1>12. CopiesHold'
  <2> SUFFICES ASSUME NEW t \in Students, NEW m \in Locations,
                      restrictedAt[t] <= cachedFrom'[<<t, m>>], Live(<<t, m>>)'
               PROVE  Restriction(cached'[<<t, m>>]) = Restrictions(t)'
    BY <1>1 DEF CopiesHold, Restriction
  <2>1. CASE <<t, m>> = <<s, l>>
    <3>1. t = s
      BY <2>1
    <3> QED
      BY <1>1, <1>8, <1>10, <2>1, <3>1, StillRows
  <2>2. CASE <<t, m>> # <<s, l>>
    <3>1. Live(<<t, m>>)
      BY <1>1, <1>9, <2>2 DEF Live
    <3>2. Restriction(cached[<<t, m>>]) = Restrictions(t)
      BY <1>9, <2>2, <3>1 DEF PolicyInv, CopiesHold
    <3> QED
      BY <1>1, <1>9, <2>2, <3>2, StillRows
  <2> QED
    BY <2>1, <2>2
<1>13. NoStrayCopy'
  <2> SUFFICES ASSUME NEW t \in Students, NEW m \in Locations, Live(<<t, m>>)',
                      Restriction(cached'[<<t, m>>]) # Restrictions(t)'
               PROVE  Excused(t)' \/ Raced(<<t, m>>)'
    BY DEF NoStrayCopy, Restriction
  <2>1. CASE <<t, m>> = <<s, l>>
    <3>1. t = s
      BY <2>1
    <3>2. ~(restrictedAt[s] <= from[r])
      BY <1>1, <1>8, <1>10, <2>1, <3>1, StillRows
    <3>3. restrictedAt[s] \in Nat /\ restrictedAt[s] <= now
      BY <1>2 DEF ClockType, PolicyInv, Past
    <3>4. from[r] < restrictedAt[s] /\ restrictedAt[s] <= (now + TTL) - TTL
      BY <1>3, <3>2, <3>3
    <3>5. <<s, l>>[1] = s
      OBVIOUS
    <3> QED
      BY <1>1, <1>8, <2>1, <3>4, <3>5 DEF Raced
  <2>2. CASE <<t, m>> # <<s, l>>
    <3>1. Live(<<t, m>>)
      BY <1>1, <1>9, <2>2 DEF Live
    <3>2. Excused(t) \/ Raced(<<t, m>>)
      BY <1>1, <1>9, <2>2, <3>1, StillRows DEF PolicyInv, NoStrayCopy
    <3>3. Raced(<<t, m>>) => Raced(<<t, m>>)'
      BY <1>1, <1>9, <2>2 DEF Raced
    <3>4. Excused(t) => Excused(t)'
      BY <1>1, <1>11, StillRows DEF Excused
    <3> QED
      BY <3>2, <3>3, <3>4
  <2> QED
    BY <2>1, <2>2
<1> QED
  BY <1>4, <1>5, <1>6, <1>12, <1>13 DEF PolicyInv

\* The beginning and the end of a call, which has then read nothing yet or no more.
LEMMA EdgeKeeps ==
  ASSUME PolicyInv, NEW r \in Resolvers,
         \/ \E k \in Keys : Request(r, k) \/ EngineRequest(r, k)
         \/ BackendMiss(r) \/ EngineTimesOut(r) \/ Abort(r)
  PROVE  PolicyInv'
<1>1. ResolverType /\ now \in Nat /\ \A q \in Resolvers : from[q] <= now
  BY TypeInParts DEF PolicyInv, ClockType, Past
<1>2. Blank \in Value
  BY DEF Blank, Value
<1>3. ASSUME NEW k \in Keys, Request(r, k) PROVE PolicyInv'
  <2>1. Moved(r)
    BY <1>1, <1>3 DEF Request, Moved, ResolverType
  <2>2. CallHolds(r)'
    <3>1. pc'[r] = "lockdown"
      BY <1>1, <1>3 DEF Request, ResolverType
    <3> QED
      BY <3>1 DEF CallHolds
  <2> QED
    BY <1>3, <2>1, <2>2, CallKeeps DEF Request
<1>4. ASSUME NEW k \in Keys, EngineRequest(r, k) PROVE PolicyInv'
  <2>1. Moved(r)
    BY <1>1, <1>4 DEF EngineRequest, Moved, ResolverType
  <2>2. CallHolds(r)'
    <3>1. pc'[r] = "backend"
      BY <1>1, <1>4 DEF EngineRequest, ResolverType
    <3> QED
      BY <3>1 DEF CallHolds
  <2> QED
    BY <1>4, <2>1, <2>2, CallKeeps DEF EngineRequest
<1>5. CASE BackendMiss(r)
  <2>1. Moved(r)
    BY <1>1, <1>5 DEF BackendMiss, Moved, ResolverType
  <2>2. CallHolds(r)'
    <3>1. pc'[r] = "lockdown"
      BY <1>1, <1>5 DEF BackendMiss, ResolverType
    <3> QED
      BY <3>1 DEF CallHolds
  <2> QED
    BY <1>5, <2>1, <2>2, CallKeeps DEF BackendMiss
<1>6. Done(r) => Moved(r) /\ CallHolds(r)'
  <2> SUFFICES ASSUME Done(r) PROVE Moved(r) /\ CallHolds(r)'
    OBVIOUS
  <2>1. Moved(r)
    BY <1>1, <1>2 DEF Done, Moved, ResolverType
  <2>2. pc'[r] = "idle"
    BY <1>1 DEF Done, ResolverType
  <2> QED
    BY <2>1, <2>2 DEF CallHolds
<1>7. CASE EngineTimesOut(r)
  <2>1. CASE Done(r)
    BY <1>6, <1>7, <2>1, CallKeeps DEF EngineTimesOut
  <2>2. CASE engine' = [engine EXCEPT ![r] = FALSE] /\ UNCHANGED <<pc, key, opened, from, partial>>
    <3>1. Moved(r)
      BY <1>1, <2>2 DEF Moved, ResolverType
    <3>2. KeepRest /\ UNCHANGED <<restrictedAt, pc, key, from, partial>>
      BY <1>7, <2>2 DEF EngineTimesOut, KeepRest, clockVars
    <3>3. Still /\ UNCHANGED lockdown
      BY <3>2 DEF KeepRest, Still, faultVars, dbVars
    <3>4. CallHolds(r)'
      BY <3>2, <3>3, StillRows DEF CallHolds, PolicyInv, ReadsHold
    <3> QED
      BY <1>7, <3>1, <3>4, CallKeeps DEF EngineTimesOut
  <2> QED
    BY <1>7, <2>1, <2>2 DEF EngineTimesOut
<1>8. CASE Abort(r)
  BY <1>6, <1>8, CallKeeps DEF Abort
<1> QED
  BY <1>3, <1>4, <1>5, <1>7, <1>8

LEMMA StoreKeeps ==
  ASSUME PolicyInv, NEW r \in Resolvers, EngineStore(r) \/ Store(r)
  PROVE  PolicyInv'
<1>1. ResolverType /\ now \in Nat /\ \A q \in Resolvers : from[q] <= now
  BY TypeInParts DEF PolicyInv, ClockType, Past
<1>2. Blank \in Value
  BY DEF Blank, Value
<1>3. /\ pc[r] \in {"store", "reply"} /\ SetCache(r) /\ KeepRest
      /\ \/ Done(r)
         \/ /\ pc[r] = "store" /\ pc' = [pc EXCEPT ![r] = "reply"]
            /\ UNCHANGED <<key, engine, opened, from, partial>>
  BY DEF EngineStore, Store
<1>4. CASE Done(r)
  <2>1. Moved(r)
    BY <1>1, <1>2, <1>4 DEF Done, Moved, ResolverType
  <2>2. pc'[r] = "idle"
    BY <1>1, <1>4 DEF Done, ResolverType
  <2>3. CallHolds(r)'
    BY <2>2 DEF CallHolds
  <2> QED
    BY <1>3, <2>1, <2>3, StoringKeeps
<1>5. CASE /\ pc[r] = "store" /\ pc' = [pc EXCEPT ![r] = "reply"]
           /\ UNCHANGED <<key, engine, opened, from, partial>>
  <2>1. Moved(r)
    BY <1>1, <1>5 DEF Moved, ResolverType
  <2>2. Still /\ UNCHANGED <<lockdown, restrictedAt>>
    BY <1>3 DEF KeepRest, Still, faultVars, dbVars, clockVars
  <2>3. pc'[r] = "reply"
    BY <1>1, <1>5 DEF ResolverType
  <2>4. CallHolds(r)
    BY DEF PolicyInv, ReadsHold
  <2>5. CallHolds(r)'
    BY <1>5, <2>2, <2>3, <2>4, StillRows DEF CallHolds
  <2> QED
    BY <1>3, <2>1, <2>5, StoringKeeps
<1> QED
  BY <1>3, <1>4, <1>5

\* A copy still holds when nothing has changed since the tables were read for it.
LEMMA BackendHitKeeps ==
  ASSUME PolicyInv, NEW r \in Resolvers, BackendHit(r)
  PROVE  PolicyInv'
<1>1. ResolverType /\ RedisType /\ now \in Nat /\ \A k \in Keys : cachedFrom[k] <= now
  BY TypeInParts DEF PolicyInv, ClockType, Past
<1>2. key[r] \in Keys /\ cached[key[r]] \in Value /\ cachedFrom[key[r]] \in Nat
  BY <1>1 DEF BackendHit, ResolverType, RedisType
<1>3. /\ pc'[r] = "reply" /\ key'[r] = key[r] /\ from'[r] = cachedFrom[key[r]]
      /\ partial'[r] = cached[key[r]]
  BY <1>1 DEF BackendHit, ResolverType
<1>4. Moved(r)
  BY <1>1, <1>2 DEF BackendHit, Moved, ResolverType
<1>5. PICK s \in Students, l \in Locations : key[r] = <<s, l>>
  BY <1>2 DEF Keys
<1>6. Still /\ UNCHANGED <<lockdown, restrictedAt>>
  BY DEF BackendHit, KeepRest, Still, faultVars, dbVars, clockVars
<1>7. CallHolds(r)'
  <2> SUFFICES ASSUME restrictedAt[s] <= cachedFrom[<<s, l>>]
               PROVE  /\ cached[<<s, l>>].lockdown = lockdown[s]
                      /\ cached[<<s, l>>].box = Box(s)
                      /\ cached[<<s, l>>].lesson = LessonRows(s)
    BY <1>3, <1>5, <1>6, StillRows DEF CallHolds
  <2>1. Live(<<s, l>>)
    BY <1>5 DEF BackendHit
  <2> QED
    BY <2>1 DEF PolicyInv, CopiesHold, Restriction, Restrictions
<1> QED
  BY <1>4, <1>7, CallKeeps DEF BackendHit

-----------------------------------------------------------------------------
(* The chain.                                                              *)

\* One query of it, whatever it finds.
LEMMA ReadMoves ==
  ASSUME PolicyInv, NEW r \in Resolvers, NEW at, NEW value \in Value,
         NEW next \in {"penalty", "lesson", "assigned", "inherited", "rules", "store"},
         at # "idle", Read(r, at, value, next)
  PROVE  /\ Moved(r) /\ Still /\ UNCHANGED <<lockdown, restrictedAt>> /\ key[r] \in Keys
         /\ key'[r] = key[r] /\ from'[r] = from[r] /\ partial'[r] = value /\ pc'[r] = next
<1>1. ResolverType /\ \A q \in Resolvers : from[q] <= now
  BY TypeInParts DEF PolicyInv, Past
<1>2. Still /\ UNCHANGED <<lockdown, restrictedAt>>
  BY DEF Read, KeepRest, Still, faultVars, dbVars, clockVars
<1>3. key[r] \in Keys
  BY <1>1 DEF Read, ResolverType
<1>4. Moved(r)
  BY <1>1, <1>3 DEF Read, Moved, ResolverType
<1> QED
  BY <1>1, <1>2, <1>3, <1>4 DEF Read, ResolverType

LEMMA ReadKeeps ==
  ASSUME PolicyInv, NEW r \in Resolvers,
         \/ ReadLockdown(r) \/ ReadPenalty(r) \/ ReadLesson(r)
         \/ ReadAssigned(r) \/ ReadInherited(r) \/ ReadRules(r)
  PROVE  PolicyInv'
<1>1. DbType /\ ResolverType
  BY TypeInParts DEF PolicyInv
<1>2. pc[r] # "idle" /\ key[r] \in Keys /\ partial[r] \in Value
  BY <1>1 DEF ResolverType, ReadLockdown, ReadPenalty, ReadLesson, ReadAssigned,
    ReadInherited, ReadRules, Read
<1>3. PICK s \in Students, l \in Locations : key[r] = <<s, l>>
  BY <1>2 DEF Keys
<1>4. key[r][1] = s /\ key[r][2] = l
  BY <1>3
<1>5. /\ BoxRows(s) \in SUBSET Nat /\ LessonRows(s) \in SUBSET Lesson /\ lockdown[s] \in Nat
      /\ AssignedRow(s, l) \in Policies \cup {Nothing} /\ inherited[s] \in Policies \cup {Nothing}
      /\ \A p \in Policies \cup {Nothing} : Content(p) \in (Policies \cup {Nothing}) \X Nat
  BY <1>1, RowsAreValues
<1>6. CallHolds(r)
  BY DEF PolicyInv, ReadsHold
<1>7. CASE ReadLockdown(r)
  <2> DEFINE v == [Blank EXCEPT !.lockdown = lockdown[s]]
             n == IF lockdown[s] # 0 THEN "lesson" ELSE "penalty"
  <2>1. Read(r, "lockdown", v, n)
    BY <1>4, <1>7 DEF ReadLockdown
  <2>2. v \in Value /\ v.lockdown = lockdown[s] /\ v.box = {}
    BY <1>5 DEF Blank, Value
  <2>3. n \in {"lesson", "penalty"} /\ (n = "penalty" <=> lockdown[s] = 0)
    OBVIOUS
  <2>4. KeepRest /\ UNCHANGED redisVars
    BY <2>1 DEF Read
  <2> HIDE DEF v, n
  <2>5. /\ Moved(r) /\ Still /\ UNCHANGED <<lockdown, restrictedAt>>
        /\ key'[r] = key[r] /\ from'[r] = from[r] /\ partial'[r] = v /\ pc'[r] = n
    BY <2>1, <2>2, <2>3, ReadMoves
  <2>6. n = "lesson" => Box(s) = {}
    BY <2>3 DEF Box
  <2>7. CallHolds(r)'
    BY <1>4, <2>2, <2>3, <2>5, <2>6, StillRows DEF CallHolds
  <2> QED
    BY <2>4, <2>5, <2>7, CallKeeps
<1>8. CASE ReadPenalty(r)
  <2> DEFINE v == [partial[r] EXCEPT !.box = BoxRows(s)]
  <2>1. Read(r, "penalty", v, "lesson")
    BY <1>4, <1>8 DEF ReadPenalty
  <2>2. v \in Value /\ v.lockdown = partial[r].lockdown /\ v.box = BoxRows(s)
    BY <1>2, <1>5 DEF Value
  <2>3. KeepRest /\ UNCHANGED redisVars /\ pc[r] = "penalty"
    BY <2>1 DEF Read
  <2> HIDE DEF v
  <2>4. /\ Moved(r) /\ Still /\ UNCHANGED <<lockdown, restrictedAt>>
        /\ key'[r] = key[r] /\ from'[r] = from[r] /\ partial'[r] = v /\ pc'[r] = "lesson"
    BY <2>1, <2>2, ReadMoves
  <2>5. restrictedAt[s] <= from[r] => v.lockdown = lockdown[s] /\ v.box = Box(s)
    BY <1>4, <1>6, <2>2, <2>3 DEF CallHolds, Box
  <2>6. CallHolds(r)'
    BY <1>4, <2>4, <2>5, StillRows DEF CallHolds
  <2> QED
    BY <2>3, <2>4, <2>6, CallKeeps
<1>9. CASE ReadLesson(r)
  <2> DEFINE v == [partial[r] EXCEPT !.lesson = LessonRows(s)]
  <2>1. Read(r, "lesson", v, "assigned")
    BY <1>4, <1>9 DEF ReadLesson
  <2>2. v \in Value /\ v.lockdown = partial[r].lockdown /\ v.box = partial[r].box
        /\ v.lesson = LessonRows(s)
    BY <1>2, <1>5 DEF Value
  <2>3. KeepRest /\ UNCHANGED redisVars /\ pc[r] = "lesson"
    BY <2>1 DEF Read
  <2> HIDE DEF v
  <2>4. /\ Moved(r) /\ Still /\ UNCHANGED <<lockdown, restrictedAt>>
        /\ key'[r] = key[r] /\ from'[r] = from[r] /\ partial'[r] = v /\ pc'[r] = "assigned"
    BY <2>1, <2>2, ReadMoves
  <2>5. restrictedAt[s] <= from[r] => v.lockdown = lockdown[s] /\ v.box = Box(s)
    BY <1>4, <1>6, <2>2, <2>3 DEF CallHolds
  <2>6. CallHolds(r)'
    BY <1>4, <2>2, <2>4, <2>5, StillRows DEF CallHolds
  <2> QED
    BY <2>3, <2>4, <2>6, CallKeeps
<1>10. CASE ReadAssigned(r) \/ ReadInherited(r) \/ ReadRules(r)
  <2>1. PICK at \in {"assigned", "inherited", "rules"}, next \in {"inherited", "rules", "store"},
             b \in (Policies \cup {Nothing}) \X Nat :
          Read(r, at, [partial[r] EXCEPT !.base = b], next)
    <3>1. ASSUME ReadAssigned(r)
          PROVE  Read(r, "assigned", [partial[r] EXCEPT !.base = <<AssignedRow(s, l), 0>>],
                      IF AssignedRow(s, l) = Nothing THEN "inherited" ELSE "rules")
      BY <1>4, <3>1 DEF ReadAssigned
    <3>2. ASSUME ReadInherited(r)
          PROVE  Read(r, "inherited", [partial[r] EXCEPT !.base = <<inherited[s], 0>>], "rules")
      BY <1>4, <3>2 DEF ReadInherited
    <3>3. ASSUME ReadRules(r)
          PROVE  Read(r, "rules", [partial[r] EXCEPT !.base = Content(partial[r].base[1])], "store")
      BY <3>3 DEF ReadRules
    <3>4. /\ <<AssignedRow(s, l), 0>> \in (Policies \cup {Nothing}) \X Nat
          /\ <<inherited[s], 0>> \in (Policies \cup {Nothing}) \X Nat
          /\ Content(partial[r].base[1]) \in (Policies \cup {Nothing}) \X Nat
      BY <1>2, <1>5 DEF Value
    <3> QED
      BY <1>10, <3>1, <3>2, <3>3, <3>4
  <2> DEFINE v == [partial[r] EXCEPT !.base = b]
  <2>2. v \in Value /\ v.lockdown = partial[r].lockdown /\ v.box = partial[r].box
        /\ v.lesson = partial[r].lesson
    BY <1>2 DEF Value
  <2>3. KeepRest /\ UNCHANGED redisVars /\ pc[r] = at
    BY <2>1 DEF Read
  <2>4. Read(r, at, v, next)
    BY <2>1
  <2> HIDE DEF v
  <2>5. /\ Moved(r) /\ Still /\ UNCHANGED <<lockdown, restrictedAt>>
        /\ key'[r] = key[r] /\ from'[r] = from[r] /\ partial'[r] = v /\ pc'[r] = next
    BY <2>2, <2>4, ReadMoves
  <2>6. restrictedAt[s] <= from[r] =>
          v.lockdown = lockdown[s] /\ v.box = Box(s) /\ v.lesson = LessonRows(s)
    BY <1>4, <1>6, <2>2, <2>3 DEF CallHolds
  <2>7. CallHolds(r)'
    BY <1>4, <2>5, <2>6, StillRows DEF CallHolds
  <2> QED
    BY <2>3, <2>5, <2>7, CallKeeps
<1> QED
  BY <1>7, <1>8, <1>9, <1>10

-----------------------------------------------------------------------------
(* The specification.                                                      *)

LEMMA PolicyInit == Init => PolicyInv
<1> SUFFICES ASSUME Init PROVE PolicyInv
  OBVIOUS
<1>1. Blank \in Value /\ NoLesson \in Lesson
  BY DEF Blank, Value, NoLesson, Lesson, Modes
<1>2. now \in 0 .. MaxTime /\ writes \in 0 .. MaxWrites /\ crashes \in 0 .. MaxCrashes
  BY BoundsAreNat DEF Init
<1>3. DbType
  BY <1>1 DEF Init, DbType
<1>4. RedisType /\ WriterType
  BY <1>1 DEF Init, RedisType, WriterType
<1>5. ResolverType
  BY <1>1 DEF Init, ResolverType
<1>6. ClockType /\ FaultType
  BY <1>2 DEF Init, ClockType, FaultType
<1>7. TypeOK
  BY <1>3, <1>4, <1>5, <1>6, TypeInParts
<1>8. Past /\ LooksUpFirst
  BY DEF Init, Past, LooksUpFirst
<1>9. ReadsHold
  BY DEF Init, ReadsHold, CallHolds
<1>10. \A s \in Students : \A l \in Locations : ~Live(<<s, l>>)
  BY DEF Init, Live, Keys
<1>11. CopiesHold /\ NoStrayCopy
  BY <1>10 DEF CopiesHold, NoStrayCopy
<1> QED
  BY <1>7, <1>8, <1>9, <1>11 DEF PolicyInv

LEMMA PolicyStutter == PolicyInv /\ UNCHANGED vars => PolicyInv'
<1> SUFFICES ASSUME PolicyInv, UNCHANGED vars PROVE PolicyInv'
  OBVIOUS
<1>1. UNCHANGED clockVars /\ UNCHANGED dbVars /\ UNCHANGED redisVars
      /\ UNCHANGED writerVars /\ UNCHANGED resolverVars /\ UNCHANGED faultVars
  BY DEF vars
<1>2. TypeOK'
  BY <1>1, TypeInParts, TypeAfter, UnchangedParts DEF PolicyInv
<1>3. Still /\ UNCHANGED <<now, restrictedAt, lockdown, members, cached, cachedFrom, expires,
                           reading, todo, pc, key, from, partial, abandoned>>
  BY <1>1 DEF Still, clockVars, dbVars, redisVars, writerVars, resolverVars, faultVars
<1>4. Past' /\ LooksUpFirst'
  BY <1>3 DEF PolicyInv, Past, LooksUpFirst
<1>5. ReadsHold'
  BY <1>3, StillRows DEF PolicyInv, ReadsHold, CallHolds
<1>6. CopiesHold'
  BY <1>3, StillRows DEF PolicyInv, CopiesHold, Live, Restriction
<1>7. \A s : Pending(s)' = Pending(s)
  BY <1>3 DEF Pending
<1>8. NoStrayCopy'
  BY <1>3, <1>7, StillRows DEF PolicyInv, NoStrayCopy, Live, Restriction, Excused, Raced
<1> QED
  BY <1>2, <1>4, <1>5, <1>6, <1>8 DEF PolicyInv

\* Every route, cron job and call keeps PolicyInv, whatever they interleave with.
THEOREM PolicyInvariance == Spec => []PolicyInv
<1>1. ASSUME PolicyInv, Next PROVE PolicyInv'
  <2>1. CASE Tick
    BY <1>1, <2>1, TickKeeps
  <2>2. CASE \E w \in Writers : Write(w) \/ LookUp(w) \/ Invalidate(w) \/ WriterDies(w)
    BY <1>1, <2>2, WriteKeeps, LookUpKeeps, InvalidateKeeps, WriterDiesKeeps
  <2>3. CASE \E r \in Resolvers : \/ \E k \in Keys : Request(r, k) \/ EngineRequest(r, k)
                                  \/ Fill(r) \/ EngineTimesOut(r) \/ Abort(r)
    BY <1>1, <2>3, EdgeKeeps, StoreKeeps, BackendHitKeeps, ReadKeeps DEF Fill
  <2> QED
    BY <1>1, <2>1, <2>2, <2>3 DEF Next
<1> QED
  BY <1>1, PolicyInit, PolicyStutter, PTL DEF Spec

\* Tables, copies, writers and calls keep their types.
THEOREM PolicyTypeCorrect == Spec => []TypeOK
<1>1. PolicyInv => TypeOK
  BY DEF PolicyInv
<1> QED
  BY <1>1, PolicyInvariance, PTL

\* A live copy with a restriction the tables do not have is about to be deleted,
\* waits for the penalty-box cron, was left by a writer that died, or was written
\* by a call of resolvePolicy that overlapped the change.
THEOREM InvalidationsAreNotLost == Spec => []NoLostInvalidation
<1>1. PolicyInv => NoLostInvalidation
  BY RestrictionOfEffective DEF PolicyInv, NoStrayCopy, NoLostInvalidation, Excused
<1> QED
  BY <1>1, PolicyInvariance, PTL

-----------------------------------------------------------------------------
(* How long a copy can be wrong.                                           *)
(*                                                                         *)
(* A copy made of what the tables said before the last touch is written by *)
(* a call that began before it, at most MaxFill later - or by an engine's  *)
(* call that found such a copy, and that began before the copy was there,  *)
(* at most MaxFill after that. No third call follows: none can begin while *)
(* the copy is live, and TTL > MaxFill keeps it live until the second is   *)
(* over.                                                                   *)

Chain == {"lockdown", "penalty", "lesson", "assigned", "inherited", "rules", "store"}

\* What a call read of the policy, and when it can have begun.
CallFresh(r) ==
  /\ pc[r] # "idle" => opened[r] <= now /\ now <= opened[r] + MaxFill
  /\ pc[r] \in Chain => opened[r] <= from[r]
  /\ \A s \in Students : \A l \in Locations : key[r] = <<s, l>> =>
       /\ touchedAt[s] <= from[r] =>
            /\ pc[r] = "inherited" => AssignedRow(s, l) = Nothing
            /\ pc[r] = "rules" => partial[r].base[1] = BaseRow(s, l)
            /\ pc[r] \in {"store", "reply"} => partial[r].base = Content(BaseRow(s, l))
       /\ pc[r] = "reply" /\ from[r] < touchedAt[s] => opened[r] <= touchedAt[s] + MaxFill
       /\ pc[r] = "reply" /\ from[r] < touchedAt[s] /\ touchedAt[s] < opened[r] =>
            expires[<<s, l>>] >= opened[r] + TTL
       /\ pc[r] = "backend" /\ Live(<<s, l>>) =>
            /\ cachedFrom[<<s, l>>] < touchedAt[s] => opened[r] <= touchedAt[s] + MaxFill
            /\ touchedAt[s] < opened[r] => expires[<<s, l>>] >= opened[r] + TTL

\* While q carries home a stale copy it found, nobody new has come for one.
PairFresh(q, r) ==
  \A s \in Students : \A l \in Locations :
    /\ pc[q] = "reply" /\ key[q] = <<s, l>> /\ pc[r] = "backend" /\ key[r] = <<s, l>>
    /\ from[q] < touchedAt[s] /\ touchedAt[s] < opened[q]
    => opened[r] <= touchedAt[s] + MaxFill

CopyFresh(s, l) ==
  LET k == <<s, l>> IN
  /\ expires[k] <= now + TTL
  /\ Live(k) /\ touchedAt[s] <= cachedFrom[k] => cached[k].base = Content(BaseRow(s, l))
  /\ Live(k) /\ cachedFrom[k] < touchedAt[s] => expires[k] <= touchedAt[s] + TTL + 2 * MaxFill

TouchedLast(s) == restrictedAt[s] <= touchedAt[s] /\ touchedAt[s] <= now

FreshInv ==
  /\ PolicyInv
  /\ \A s \in Students : TouchedLast(s) /\ \A l \in Locations : CopyFresh(s, l)
  /\ \A r \in Resolvers : CallFresh(r) /\ \A q \in Resolvers : PairFresh(q, r)

\* The instants are numbers.
LEMMA Instants ==
  ASSUME TypeOK
  PROVE  /\ now \in Nat /\ TTL \in Nat /\ MaxFill \in Nat /\ TTL > MaxFill
         /\ \A s \in Students : restrictedAt[s] \in Nat /\ touchedAt[s] \in Nat
         /\ \A r \in Resolvers : from[r] \in Nat /\ opened[r] \in Nat
         /\ \A s \in Students : \A l \in Locations :
              cachedFrom[<<s, l>>] \in Nat /\ expires[<<s, l>>] \in Nat
<1>1. now \in Nat /\ TTL \in Nat /\ MaxFill \in Nat /\ TTL > MaxFill
  BY PolicyAssumption DEF TypeOK
<1>2. \A s \in Students : \A l \in Locations :
        cachedFrom[<<s, l>>] \in Nat /\ expires[<<s, l>>] \in Nat
  BY DEF TypeOK, Keys
<1> QED
  BY <1>1, <1>2 DEF TypeOK

\* The student's policy and its rules are as they were.
BaseKept(s) ==
  \A l \in Locations : /\ AssignedRow(s, l)' = AssignedRow(s, l) /\ BaseRow(s, l)' = BaseRow(s, l)
                       /\ Content(BaseRow(s, l))' = Content(BaseRow(s, l))

LEMMA SameBase ==
  ASSUME NEW s, \A l \in Locations : assigned'[<<s, l>>] = assigned[<<s, l>>],
         inherited'[s] = inherited[s], rules' = rules
  PROVE  BaseKept(s)
<1>1. AnyLocation \in Locations
  BY PolicyAssumption
<1>2. \A l \in Locations : AssignedRow(s, l)' = AssignedRow(s, l)
  BY <1>1 DEF AssignedRow
<1>3. \A l \in Locations : BaseRow(s, l)' = BaseRow(s, l)
  BY <1>2 DEF BaseRow
<1> QED
  BY <1>2, <1>3 DEF BaseKept, Content

\* A commit, or the clock: who is touched has no fresh copy and no fresh read.
LEMMA AdvanceFresh ==
  ASSUME FreshInv, PolicyInv', NEW changed, NEW touched, Advance(changed, touched),
         UNCHANGED <<redisVars, resolverVars>>,
         \A s \in Students \ (changed \cup touched) : BaseKept(s)
  PROVE  FreshInv'
<1>1. /\ now \in Nat /\ TTL \in Nat /\ MaxFill \in Nat /\ TTL > MaxFill
      /\ \A s \in Students : restrictedAt[s] \in Nat /\ touchedAt[s] \in Nat
      /\ \A r \in Resolvers : from[r] \in Nat /\ opened[r] \in Nat
      /\ \A s \in Students : \A l \in Locations :
           cachedFrom[<<s, l>>] \in Nat /\ expires[<<s, l>>] \in Nat
  BY Instants DEF FreshInv, PolicyInv
<1>2. /\ now' = now + 1 /\ cached' = cached /\ cachedFrom' = cachedFrom /\ expires' = expires
      /\ pc' = pc /\ key' = key /\ from' = from /\ opened' = opened /\ partial' = partial
  BY DEF Advance, redisVars, resolverVars
<1>3. \A r \in Resolvers : pc[r] # "idle" => now < opened[r] + MaxFill
  BY DEF Advance
<1>4. \A r \in Resolvers : from[r] <= now
  BY DEF FreshInv, PolicyInv, Past
<1>5. \A s \in Students : \A l \in Locations : cachedFrom[<<s, l>>] <= now
  BY DEF FreshInv, PolicyInv, Past, Keys
<1>6. \A s \in Students : \/ touchedAt'[s] = now + 1
                          \/ touchedAt'[s] = touchedAt[s] /\ BaseKept(s)
  BY DEF Advance
<1>7. \A s \in Students : TouchedLast(s)'
  <2>1. \A s \in Students : \/ touchedAt'[s] = now + 1 /\ restrictedAt'[s] \in {now + 1, restrictedAt[s]}
                            \/ touchedAt'[s] = touchedAt[s] /\ restrictedAt'[s] = restrictedAt[s]
    BY DEF Advance
  <2>2. \A s \in Students : restrictedAt[s] <= touchedAt[s] /\ touchedAt[s] <= now
    BY DEF FreshInv, TouchedLast
  <2> QED
    BY <1>1, <1>2, <2>1, <2>2 DEF TouchedLast
<1>8. \A s \in Students : \A l \in Locations : CopyFresh(s, l)'
  <2> SUFFICES ASSUME NEW s \in Students, NEW l \in Locations PROVE CopyFresh(s, l)'
    OBVIOUS
  <2>1. CopyFresh(s, l)
    BY DEF FreshInv
  <2>2. Live(<<s, l>>)' => Live(<<s, l>>)
    BY <1>1, <1>2 DEF Live
  <2>3. CASE touchedAt'[s] = now + 1
    BY <1>1, <1>2, <1>5, <2>1, <2>3 DEF CopyFresh
  <2>4. CASE touchedAt'[s] = touchedAt[s] /\ BaseKept(s)
    BY <1>1, <1>2, <2>1, <2>2, <2>4 DEF CopyFresh, BaseKept
  <2> QED
    BY <1>6, <2>3, <2>4
<1>9. \A r \in Resolvers : CallFresh(r)'
  <2> SUFFICES ASSUME NEW r \in Resolvers PROVE CallFresh(r)'
    OBVIOUS
  <2>1. CallFresh(r)
    BY DEF FreshInv
  <2>2. /\ pc[r] # "idle" => opened[r] <= now' /\ now' <= opened[r] + MaxFill
        /\ pc[r] \in Chain => opened[r] <= from[r]
        /\ pc[r] \in {"backend", "reply"} => opened[r] <= now
    BY <1>1, <1>2, <1>3, <2>1 DEF CallFresh
  <2>3. ASSUME NEW s \in Students, NEW l \in Locations, key[r] = <<s, l>>
        PROVE  /\ touchedAt'[s] <= from[r] =>
                    /\ pc[r] = "inherited" => AssignedRow(s, l)' = Nothing
                    /\ pc[r] = "rules" => partial[r].base[1] = BaseRow(s, l)'
                    /\ pc[r] \in {"store", "reply"} => partial[r].base = Content(BaseRow(s, l))'
               /\ pc[r] = "reply" /\ from[r] < touchedAt'[s] => opened[r] <= touchedAt'[s] + MaxFill
               /\ pc[r] = "reply" /\ from[r] < touchedAt'[s] /\ touchedAt'[s] < opened[r] =>
                    expires[<<s, l>>] >= opened[r] + TTL
               /\ pc[r] = "backend" /\ Live(<<s, l>>)' =>
                    /\ cachedFrom[<<s, l>>] < touchedAt'[s] => opened[r] <= touchedAt'[s] + MaxFill
                    /\ touchedAt'[s] < opened[r] => expires[<<s, l>>] >= opened[r] + TTL
    <3>1. CASE touchedAt'[s] = now + 1
      BY <1>1, <1>4, <2>2, <3>1
    <3>2. CASE touchedAt'[s] = touchedAt[s] /\ BaseKept(s)
      <4>1. Live(<<s, l>>)' => Live(<<s, l>>)
        BY <1>1, <1>2 DEF Live
      <4> QED
        BY <2>1, <2>3, <3>2, <4>1 DEF CallFresh, BaseKept
    <3> QED
      BY <1>6, <3>1, <3>2
  <2> QED
    BY <1>2, <2>2, <2>3 DEF CallFresh
<1>10. \A q, r \in Resolvers : PairFresh(q, r)'
  <2> SUFFICES ASSUME NEW q \in Resolvers, NEW r \in Resolvers, NEW s \in Students,
                      NEW l \in Locations,
                      pc[q] = "reply", key[q] = <<s, l>>, pc[r] = "backend", key[r] = <<s, l>>,
                      from[q] < touchedAt'[s], touchedAt'[s] < opened[q]
               PROVE  opened[r] <= touchedAt'[s] + MaxFill
    BY <1>2 DEF PairFresh
  <2>1. opened[q] <= now
    BY DEF FreshInv, CallFresh
  <2>2. touchedAt'[s] = touchedAt[s]
    BY <1>1, <1>6, <2>1
  <2> QED
    BY <2>2 DEF FreshInv, PairFresh
<1> QED
  BY <1>7, <1>8, <1>9, <1>10 DEF FreshInv

LEMMA CommitFresh ==
  ASSUME FreshInv, PolicyInv', NEW w \in Writers, NEW layer, NEW changed, NEW touched,
         Commit(w, layer, changed, touched),
         \A s \in Students \ (changed \cup touched) : BaseKept(s)
  PROVE  FreshInv'
BY AdvanceFresh DEF Commit

\* A writer that leaves assignments and rules alone.
LEMMA RestrictFresh ==
  ASSUME FreshInv, PolicyInv', NEW w \in Writers, NEW layer, NEW S,
         Commit(w, layer, S, S), UNCHANGED <<assigned, inherited, rules>>
  PROVE  FreshInv'
<1>1. \A s \in Students : BaseKept(s)
  BY SameBase
<1> QED
  BY <1>1, CommitFresh

LEMMA WriteFresh ==
  ASSUME FreshInv, NEW w \in Writers, Write(w)
  PROVE  FreshInv'
<1>0. PolicyInv'
  BY WriteKeeps DEF FreshInv
<1>1. CASE \E S \in SUBSET Students \ {{}} : StartLockdown(w, S) \/ EndLockdown(w, S)
  BY <1>0, <1>1, RestrictFresh DEF StartLockdown, EndLockdown
<1>2. CASE \E s \in Students : \E until \in {now + 2, MaxTime + 1} : Place(w, s, until)
  BY <1>0, <1>2, RestrictFresh DEF Place
<1>3. CASE \E s \in Students : Grant(w, s)
  BY <1>0, <1>3, RestrictFresh DEF Grant
<1>4. CASE (\E s \in Students : Release(w, s)) \/ ExpireBoxes(w)
  BY <1>0, <1>4, RestrictFresh DEF Release, ExpireBoxes, Unbox
<1>5. CASE \E s \in Students : \E c \in Classes : Join(w, s, c) \/ Leave(w, s, c)
  BY <1>0, <1>5, RestrictFresh DEF Join, Leave, SetMembers
<1>10. CASE \E s \in Students : \E c \in Classes : Enrol(w, s, c)
  BY <1>0, <1>10, RestrictFresh DEF Enrol
<1>6. CASE \E c \in Classes : EndLesson(w, c) \/ \E mode \in Modes : StartLesson(w, c, mode) \/ EditLesson(w, c, mode)
  BY <1>0, <1>6, RestrictFresh DEF EndLesson, StartLesson, EditLesson, SetLesson
<1>7. CASE \E s \in Students : \E p \in Policies \cup {Nothing} : Inherit(w, s, p)
  <2>1. PICK s \in Students, p \in Policies \cup {Nothing} : Inherit(w, s, p)
    BY <1>7
  <2>2. \A t \in Students \ {s} : inherited'[t] = inherited[t]
    BY <2>1 DEF Inherit, FreshInv, PolicyInv, TypeOK
  <2>3. \A t \in Students \ {s} : BaseKept(t)
    BY <2>1, <2>2, SameBase DEF Inherit
  <2> QED
    BY <1>0, <2>1, <2>3, CommitFresh DEF Inherit
<1>8. CASE \E s \in Students : \E p \in Policies \cup {Nothing} : \E l \in Locations :
             Assign(w, s, l, p)
  <2>1. PICK s \in Students, p \in Policies \cup {Nothing}, l \in Locations : Assign(w, s, l, p)
    BY <1>8
  <2>2. \A t \in Students \ {s} : \A m \in Locations : assigned'[<<t, m>>] = assigned[<<t, m>>]
    BY <2>1 DEF Assign, FreshInv, PolicyInv, TypeOK, Keys
  <2>3. \A t \in Students \ {s} : BaseKept(t)
    BY <2>1, <2>2, SameBase DEF Assign
  <2> QED
    BY <1>0, <2>1, <2>3, CommitFresh DEF Assign
<1>9. CASE \E p \in Policies : EditRules(w, p) \/ EditCategoryRule(w, p)
  <2>1. PICK p \in Policies, layer \in {"rules", "category"} : Commit(w, layer, {}, Students)
    BY <1>9 DEF EditRules, EditCategoryRule, SetRules
  <2> QED
    BY <1>0, <2>1, CommitFresh
<1> QED
  BY <1>1, <1>2, <1>3, <1>4, <1>5, <1>6, <1>7, <1>8, <1>9, <1>10 DEF Write

LEMMA TickFresh == FreshInv /\ Tick => FreshInv'
<1> SUFFICES ASSUME FreshInv, Tick PROVE FreshInv'
  OBVIOUS
<1>1. PolicyInv'
  BY TickKeeps DEF FreshInv
<1>2. \A s \in Students : BaseKept(s)
  BY SameBase DEF Tick, dbVars
<1> QED
  BY <1>1, <1>2, AdvanceFresh DEF Tick

\* The policies stay, and with them what is fresh.
LEMMA BaseStays ==
  ASSUME UNCHANGED dbVars
  PROVE  \A s \in Students : BaseKept(s)
BY SameBase DEF dbVars

\* Nothing that FreshInv looks at moves.
LEMMA UnmovedFresh ==
  ASSUME FreshInv, PolicyInv', UNCHANGED <<clockVars, dbVars, redisVars>>,
         UNCHANGED <<pc, key, opened, from, partial>>
  PROVE  FreshInv'
<1>1. UNCHANGED <<now, restrictedAt, touchedAt, cached, cachedFrom, expires>>
  BY DEF clockVars, redisVars
<1>2. \A s \in Students : BaseKept(s)
  BY BaseStays
<1>3. \A s \in Students : TouchedLast(s)'
  BY <1>1 DEF FreshInv, TouchedLast
<1>4. \A s \in Students : \A l \in Locations : CopyFresh(s, l)'
  BY <1>1, <1>2 DEF FreshInv, CopyFresh, BaseKept, Live
<1>5. \A r \in Resolvers : CallFresh(r)'
  BY <1>1, <1>2 DEF FreshInv, CallFresh, BaseKept, Live
<1>6. \A q, r \in Resolvers : PairFresh(q, r)'
  BY <1>1 DEF FreshInv, PairFresh
<1> QED
  BY <1>3, <1>4, <1>5, <1>6 DEF FreshInv

\* The student whose keys are deleted counts as touched, and has no copy.
LEMMA InvalidateFresh ==
  ASSUME FreshInv, NEW w \in Writers, Invalidate(w)
  PROVE  FreshInv'
<1>0. PolicyInv'
  BY InvalidateKeeps DEF FreshInv
<1>1. PICK s \in todo[w] :
        /\ cached' = [k \in Keys |-> IF k[1] = s THEN Blank ELSE cached[k]]
        /\ cachedFrom' = [k \in Keys |-> IF k[1] = s THEN 0 ELSE cachedFrom[k]]
        /\ expires' = [k \in Keys |-> IF k[1] = s THEN 0 ELSE expires[k]]
        /\ touchedAt' = [touchedAt EXCEPT ![s] = now]
        /\ UNCHANGED <<now, restrictedAt, dbVars, resolverVars>>
  BY DEF Invalidate
<1>2. /\ now \in Nat /\ TTL \in Nat /\ MaxFill \in Nat /\ TTL > MaxFill
      /\ \A t \in Students : restrictedAt[t] \in Nat /\ touchedAt[t] \in Nat
      /\ \A r \in Resolvers : from[r] \in Nat /\ opened[r] \in Nat
      /\ \A t \in Students : \A l \in Locations :
           cachedFrom[<<t, l>>] \in Nat /\ expires[<<t, l>>] \in Nat
  BY Instants DEF FreshInv, PolicyInv
<1>3. /\ pc' = pc /\ key' = key /\ from' = from /\ opened' = opened /\ partial' = partial
      /\ now' = now /\ restrictedAt' = restrictedAt
  BY <1>1 DEF resolverVars
<1>4. touchedAt'[s] = now /\ \A t \in Students : t # s => touchedAt'[t] = touchedAt[t]
  BY <1>1 DEF FreshInv, PolicyInv, TypeOK
<1>5. \A t \in Students : BaseKept(t)
  BY <1>1, BaseStays
<1>6. \A t \in Students : \A l \in Locations :
        /\ t = s => expires'[<<t, l>>] = 0
        /\ t # s => /\ cached'[<<t, l>>] = cached[<<t, l>>]
                    /\ cachedFrom'[<<t, l>>] = cachedFrom[<<t, l>>]
                    /\ expires'[<<t, l>>] = expires[<<t, l>>]
  <2> SUFFICES ASSUME NEW t \in Students, NEW l \in Locations
               PROVE  /\ t = s => expires'[<<t, l>>] = 0
                      /\ t # s => /\ cached'[<<t, l>>] = cached[<<t, l>>]
                                  /\ cachedFrom'[<<t, l>>] = cachedFrom[<<t, l>>]
                                  /\ expires'[<<t, l>>] = expires[<<t, l>>]
    OBVIOUS
  <2>1. <<t, l>> \in Keys /\ <<t, l>>[1] = t
    BY DEF Keys
  <2> QED
    BY <1>1, <2>1
<1>7. \A t \in Students : TouchedLast(t)'
  <2>1. \A t \in Students : restrictedAt[t] <= now
    BY <1>2 DEF FreshInv, PolicyInv, Past
  <2> QED
    BY <1>2, <1>3, <1>4, <2>1 DEF FreshInv, TouchedLast
<1>8. \A t \in Students : \A l \in Locations : CopyFresh(t, l)'
  <2> SUFFICES ASSUME NEW t \in Students, NEW l \in Locations PROVE CopyFresh(t, l)'
    OBVIOUS
  <2>1. CASE t = s
    BY <1>2, <1>3, <1>6, <2>1 DEF CopyFresh, Live
  <2>2. CASE t # s
    BY <1>3, <1>4, <1>5, <1>6, <2>2 DEF FreshInv, CopyFresh, Live, BaseKept
  <2> QED
    BY <2>1, <2>2
<1>9. \A r \in Resolvers : CallFresh(r)'
  <2> SUFFICES ASSUME NEW r \in Resolvers PROVE CallFresh(r)'
    OBVIOUS
  <2>1. CallFresh(r) /\ from[r] <= now
    BY DEF FreshInv, PolicyInv, Past
  <2>2. /\ pc[r] # "idle" => opened[r] <= now /\ now <= opened[r] + MaxFill
        /\ pc[r] \in Chain => opened[r] <= from[r]
    BY <2>1 DEF CallFresh
  <2>3. ASSUME NEW t \in Students, NEW l \in Locations, key[r] = <<t, l>>
        PROVE  /\ touchedAt'[t] <= from[r] =>
                    /\ pc[r] = "inherited" => AssignedRow(t, l)' = Nothing
                    /\ pc[r] = "rules" => partial[r].base[1] = BaseRow(t, l)'
                    /\ pc[r] \in {"store", "reply"} => partial[r].base = Content(BaseRow(t, l))'
               /\ pc[r] = "reply" /\ from[r] < touchedAt'[t] => opened[r] <= touchedAt'[t] + MaxFill
               /\ pc[r] = "reply" /\ from[r] < touchedAt'[t] /\ touchedAt'[t] < opened[r] =>
                    expires'[<<t, l>>] >= opened[r] + TTL
               /\ pc[r] = "backend" /\ Live(<<t, l>>)' =>
                    /\ cachedFrom'[<<t, l>>] < touchedAt'[t] => opened[r] <= touchedAt'[t] + MaxFill
                    /\ touchedAt'[t] < opened[r] => expires'[<<t, l>>] >= opened[r] + TTL
    <3>1. CASE t = s
      <4>1. ~Live(<<t, l>>)' /\ touchedAt'[t] = now
        BY <1>2, <1>3, <1>4, <1>6, <3>1 DEF Live
      <4>2. touchedAt[t] <= now
        BY DEF FreshInv, TouchedLast
      <4>3. now <= from[r] => touchedAt[t] <= from[r]
        BY <1>2, <4>2
      <4>4. now <= from[r] =>
              /\ pc[r] = "inherited" => AssignedRow(t, l)' = Nothing
              /\ pc[r] = "rules" => partial[r].base[1] = BaseRow(t, l)'
              /\ pc[r] \in {"store", "reply"} => partial[r].base = Content(BaseRow(t, l))'
        BY <1>5, <2>1, <2>3, <4>3 DEF CallFresh, BaseKept
      <4>5. pc[r] = "reply" => opened[r] <= now + MaxFill /\ ~(now < opened[r])
        BY <1>2, <2>2
      <4> QED
        BY <4>1, <4>4, <4>5
    <3>2. CASE t # s
      <4>1. Live(<<t, l>>)' => Live(<<t, l>>)
        BY <1>3, <1>6, <3>2 DEF Live
      <4> QED
        BY <1>4, <1>5, <1>6, <2>1, <2>3, <3>2, <4>1 DEF CallFresh, BaseKept
    <3> QED
      BY <3>1, <3>2
  <2> QED
    BY <1>3, <2>2, <2>3 DEF CallFresh
<1>10. \A q, r \in Resolvers : PairFresh(q, r)'
  <2> SUFFICES ASSUME NEW q \in Resolvers, NEW r \in Resolvers, NEW t \in Students,
                      NEW l \in Locations,
                      pc[q] = "reply", key[q] = <<t, l>>, pc[r] = "backend", key[r] = <<t, l>>,
                      from[q] < touchedAt'[t], touchedAt'[t] < opened[q]
               PROVE  opened[r] <= touchedAt'[t] + MaxFill
    BY <1>3 DEF PairFresh
  <2>1. opened[q] <= now
    BY DEF FreshInv, CallFresh
  <2>2. touchedAt'[t] = touchedAt[t]
    BY <1>2, <1>4, <2>1
  <2> QED
    BY <2>2 DEF FreshInv, PairFresh
<1> QED
  BY <1>0, <1>7, <1>8, <1>9, <1>10 DEF FreshInv

-----------------------------------------------------------------------------
(* The calls, once more.                                                   *)

\* The other calls are where they were.
AloneMoved(r) ==
  \A q \in Resolvers \ {r} :
    pc'[q] = pc[q] /\ key'[q] = key[q] /\ opened'[q] = opened[q] /\ from'[q] = from[q]
    /\ partial'[q] = partial[q]

LEMMA CallStepFresh ==
  ASSUME FreshInv, PolicyInv', NEW r \in Resolvers, KeepRest, UNCHANGED redisVars, AloneMoved(r),
         CallFresh(r)',
         \A q \in Resolvers : PairFresh(q, r)' /\ PairFresh(r, q)'
  PROVE  FreshInv'
<1>1. UNCHANGED <<now, restrictedAt, touchedAt, cached, cachedFrom, expires>>
  BY DEF KeepRest, clockVars, redisVars
<1>2. \A s \in Students : BaseKept(s)
  BY BaseStays DEF KeepRest
<1>3. \A s \in Students : TouchedLast(s)'
  BY <1>1 DEF FreshInv, TouchedLast
<1>4. \A s \in Students : \A l \in Locations : CopyFresh(s, l)'
  BY <1>1, <1>2 DEF FreshInv, CopyFresh, BaseKept, Live
<1>5. \A q \in Resolvers \ {r} : CallFresh(q)'
  BY <1>1, <1>2 DEF FreshInv, CallFresh, BaseKept, Live, AloneMoved
<1>6. \A p, q \in Resolvers \ {r} : PairFresh(p, q)'
  BY <1>1 DEF FreshInv, PairFresh, AloneMoved
<1> QED
  BY <1>3, <1>4, <1>5, <1>6 DEF FreshInv

\* A call that neither asks the backend nor carries an answer home is alone.
LEMMA NoPair ==
  ASSUME NEW r \in Resolvers, pc'[r] \notin {"backend", "reply"}
  PROVE  \A q \in Resolvers : PairFresh(q, r)' /\ PairFresh(r, q)'
BY DEF PairFresh

\* A call that begins finds no live copy: nobody on his way home has a stale one.
LEMMA BeginFresh ==
  ASSUME FreshInv, PolicyInv', NEW r \in Resolvers, NEW k \in Keys,
         Request(r, k) \/ EngineRequest(r, k)
  PROVE  FreshInv'
<1>1. ResolverType /\ RedisType
  BY TypeInParts DEF FreshInv, PolicyInv
<1>2. /\ now \in Nat /\ TTL \in Nat /\ MaxFill \in Nat /\ TTL > MaxFill
      /\ \A s \in Students : touchedAt[s] \in Nat
      /\ \A q \in Resolvers : from[q] \in Nat /\ opened[q] \in Nat
      /\ \A s \in Students : \A l \in Locations : expires[<<s, l>>] \in Nat
  BY Instants DEF FreshInv, PolicyInv
<1>3. now' = now /\ touchedAt' = touchedAt /\ expires' = expires /\ KeepRest /\ UNCHANGED redisVars
  BY DEF Request, EngineRequest, KeepRest, clockVars, redisVars
<1>4. ~Live(k) /\ ~Live(k)'
  BY <1>3 DEF Request, EngineRequest, Live
<1>5. AloneMoved(r) /\ key'[r] = k /\ opened'[r] = now
  BY <1>1 DEF Request, EngineRequest, AloneMoved, ResolverType
<1>6. pc'[r] = "backend" \/ (pc'[r] = "lockdown" /\ from'[r] = now)
  BY <1>1 DEF Request, EngineRequest, ResolverType
<1>7. CallFresh(r)'
  <2>1. opened'[r] <= now' /\ now' <= opened'[r] + MaxFill
    BY <1>2, <1>3, <1>5
  <2>2. pc'[r] \in Chain => opened'[r] <= from'[r]
    BY <1>2, <1>5, <1>6 DEF Chain
  <2>3. \A s \in Students : \A l \in Locations : key'[r] = <<s, l>> => ~Live(<<s, l>>)'
    BY <1>4, <1>5
  <2> QED
    BY <1>6, <2>1, <2>2, <2>3 DEF CallFresh
<1>8. \A q \in Resolvers : PairFresh(r, q)'
  BY <1>6 DEF PairFresh
<1>9. \A q \in Resolvers : PairFresh(q, r)'
  <2> SUFFICES ASSUME NEW q \in Resolvers, NEW s \in Students, NEW l \in Locations,
                      pc'[q] = "reply", key'[q] = <<s, l>>, key'[r] = <<s, l>>,
                      from'[q] < touchedAt[s], touchedAt[s] < opened'[q]
               PROVE  FALSE
    BY <1>3 DEF PairFresh
  <2>1. q # r
    BY <1>6
  <2>2. expires[<<s, l>>] >= opened[q] + TTL /\ now <= opened[q] + MaxFill
    BY <1>5, <2>1 DEF AloneMoved, FreshInv, CallFresh
  <2>3. ~(expires[<<s, l>>] > now)
    BY <1>4, <1>5 DEF Live
  <2> QED
    BY <1>2, <2>2, <2>3
<1> QED
  BY <1>3, <1>5, <1>7, <1>8, <1>9, CallStepFresh

LEMMA BackendMissFresh ==
  ASSUME FreshInv, PolicyInv', NEW r \in Resolvers, BackendMiss(r)
  PROVE  FreshInv'
<1>1. ResolverType
  BY TypeInParts DEF FreshInv, PolicyInv
<1>2. now' = now /\ KeepRest /\ UNCHANGED redisVars
  BY DEF BackendMiss, KeepRest, clockVars
<1>3. /\ AloneMoved(r) /\ pc[r] = "backend" /\ pc'[r] = "lockdown" /\ opened'[r] = opened[r]
      /\ from'[r] = now
  BY <1>1 DEF BackendMiss, AloneMoved, ResolverType
<1>4. CallFresh(r)'
  BY <1>2, <1>3 DEF FreshInv, CallFresh
<1> QED
  BY <1>2, <1>3, <1>4, NoPair, CallStepFresh

\* What an engine's call finds may be stale: then it began before the copy was there.
LEMMA BackendHitFresh ==
  ASSUME FreshInv, PolicyInv', NEW r \in Resolvers, BackendHit(r)
  PROVE  FreshInv'
<1>1. ResolverType
  BY TypeInParts DEF FreshInv, PolicyInv
<1>2. now' = now /\ touchedAt' = touchedAt /\ expires' = expires /\ KeepRest /\ UNCHANGED redisVars
  BY DEF BackendHit, KeepRest, clockVars, redisVars
<1>3. /\ AloneMoved(r) /\ pc[r] = "backend" /\ pc'[r] = "reply" /\ opened'[r] = opened[r]
      /\ key'[r] = key[r] /\ from'[r] = cachedFrom[key[r]] /\ partial'[r] = cached[key[r]]
      /\ Live(key[r])
  BY <1>1 DEF BackendHit, AloneMoved, ResolverType
<1>4. \A s \in Students : BaseKept(s)
  BY <1>2, BaseStays DEF KeepRest
<1>5. CallFresh(r)'
  <2>1. ASSUME NEW s \in Students, NEW l \in Locations, key[r] = <<s, l>>,
               touchedAt[s] <= cachedFrom[<<s, l>>]
        PROVE  cached[<<s, l>>].base = Content(BaseRow(s, l))'
    BY <1>3, <1>4, <2>1 DEF FreshInv, CopyFresh, BaseKept
  <2>2. ASSUME NEW s \in Students, NEW l \in Locations, key[r] = <<s, l>>
        PROVE  /\ cachedFrom[<<s, l>>] < touchedAt[s] => opened[r] <= touchedAt[s] + MaxFill
               /\ touchedAt[s] < opened[r] => expires[<<s, l>>] >= opened[r] + TTL
    BY <1>3, <2>2 DEF FreshInv, CallFresh
  <2>3. opened[r] <= now /\ now <= opened[r] + MaxFill
    BY <1>3 DEF FreshInv, CallFresh
  <2> QED
    BY <1>2, <1>3, <2>1, <2>2, <2>3 DEF CallFresh, Chain
<1>6. \A q \in Resolvers : PairFresh(q, r)'
  BY <1>3 DEF PairFresh
<1>7. \A q \in Resolvers : PairFresh(r, q)'
  <2> SUFFICES ASSUME NEW q \in Resolvers, NEW s \in Students, NEW l \in Locations,
                      key'[r] = <<s, l>>, pc'[q] = "backend", key'[q] = <<s, l>>,
                      from'[r] < touchedAt[s]
               PROVE  opened'[q] <= touchedAt[s] + MaxFill
    BY <1>2 DEF PairFresh
  <2>1. q # r
    BY <1>3
  <2>2. pc[q] = "backend" /\ key[q] = <<s, l>> /\ opened'[q] = opened[q]
    BY <1>3, <2>1 DEF AloneMoved
  <2>3. cachedFrom[<<s, l>>] < touchedAt[s] /\ Live(<<s, l>>)
    BY <1>3
  <2> QED
    BY <2>2, <2>3 DEF FreshInv, CallFresh
<1> QED
  BY <1>2, <1>3, <1>5, <1>6, <1>7, CallStepFresh

\* What a call has read of the policy is what the tables say, unless somebody
\* touched the student since.
LEMMA ReadFresh ==
  ASSUME FreshInv, PolicyInv', NEW r \in Resolvers,
         \/ ReadLockdown(r) \/ ReadPenalty(r) \/ ReadLesson(r)
         \/ ReadAssigned(r) \/ ReadInherited(r) \/ ReadRules(r)
  PROVE  FreshInv'
<1>1. DbType /\ ResolverType
  BY TypeInParts DEF FreshInv, PolicyInv
<1>0. PICK at \in Chain \ {"store"}, next \in Chain \ {"lockdown"} : \E v : Read(r, at, v, next)
  BY DEF ReadLockdown, ReadPenalty, ReadLesson, ReadAssigned, ReadInherited, ReadRules, Read, Chain
<1>2. PICK v : Read(r, at, v, next)
  BY <1>0
<1>3. KeepRest /\ UNCHANGED redisVars /\ now' = now /\ touchedAt' = touchedAt /\ expires' = expires
  BY <1>2 DEF Read, KeepRest, clockVars, redisVars
<1>4. /\ AloneMoved(r) /\ pc[r] \in Chain \ {"store"} /\ pc'[r] = next /\ opened'[r] = opened[r]
      /\ from'[r] = from[r] /\ key'[r] = key[r] /\ partial'[r] = v
  BY <1>1, <1>2 DEF Read, AloneMoved, ResolverType, Chain
<1>5. \A s \in Students : BaseKept(s)
  BY <1>3, BaseStays DEF KeepRest
<1>6. partial[r] \in Value
  BY <1>1 DEF ResolverType
<1>7. ASSUME NEW s \in Students, NEW l \in Locations, key[r] = <<s, l>>, touchedAt[s] <= from[r]
      PROVE  /\ pc'[r] = "inherited" => AssignedRow(s, l) = Nothing
             /\ pc'[r] = "rules" => v.base[1] = BaseRow(s, l)
             /\ pc'[r] = "store" => v.base = Content(BaseRow(s, l))
  <2>1. key[r][1] = s /\ key[r][2] = l
    BY <1>7
  <2>2. CallFresh(r)
    BY DEF FreshInv
  <2>3. CASE ReadLockdown(r) \/ ReadPenalty(r) \/ ReadLesson(r)
    <3>1. pc'[r] \in {"penalty", "lesson", "assigned"}
      BY <1>1, <2>3 DEF ReadLockdown, ReadPenalty, ReadLesson, Read, ResolverType
    <3> QED
      BY <3>1
  <2>4. CASE ReadAssigned(r)
    <3>1. /\ partial'[r] = [partial[r] EXCEPT !.base = <<AssignedRow(s, l), 0>>]
          /\ pc'[r] = IF AssignedRow(s, l) = Nothing THEN "inherited" ELSE "rules"
      BY <1>1, <2>1, <2>4 DEF ReadAssigned, Read, ResolverType
    <3>2. v.base = <<AssignedRow(s, l), 0>>
      BY <1>4, <1>6, <3>1 DEF Value
    <3> QED
      BY <3>1, <3>2 DEF BaseRow
  <2>5. CASE ReadInherited(r)
    <3>1. /\ partial'[r] = [partial[r] EXCEPT !.base = <<inherited[s], 0>>]
          /\ pc'[r] = "rules" /\ pc[r] = "inherited"
      BY <1>1, <2>1, <2>5 DEF ReadInherited, Read, ResolverType
    <3>2. v.base = <<inherited[s], 0>>
      BY <1>4, <1>6, <3>1 DEF Value
    <3>3. AssignedRow(s, l) = Nothing
      BY <1>7, <2>2, <3>1 DEF CallFresh
    <3> QED
      BY <3>1, <3>2, <3>3 DEF BaseRow
  <2>6. CASE ReadRules(r)
    <3>1. /\ partial'[r] = [partial[r] EXCEPT !.base = Content(partial[r].base[1])]
          /\ pc'[r] = "store" /\ pc[r] = "rules"
      BY <1>1, <2>6 DEF ReadRules, Read, ResolverType
    <3>2. v.base = Content(partial[r].base[1])
      BY <1>4, <1>6, <3>1 DEF Value
    <3>3. partial[r].base[1] = BaseRow(s, l)
      BY <1>7, <2>2, <3>1 DEF CallFresh
    <3> QED
      BY <3>1, <3>2, <3>3
  <2> QED
    BY <2>3, <2>4, <2>5, <2>6
<1>8. CallFresh(r)'
  <2>1. opened[r] <= now /\ now <= opened[r] + MaxFill /\ opened[r] <= from[r]
    BY <1>4 DEF FreshInv, CallFresh, Chain
  <2>2. pc'[r] \notin {"reply", "backend", "idle"}
    BY <1>2, <1>4 DEF Chain
  <2> QED
    BY <1>3, <1>4, <1>5, <1>7, <2>1, <2>2 DEF CallFresh, BaseKept
<1>9. pc'[r] \notin {"backend", "reply"}
  BY <1>2, <1>4 DEF Chain
<1> QED
  BY <1>3, <1>4, <1>8, <1>9, NoPair, CallStepFresh

LEMMA DoneMoves ==
  ASSUME FreshInv, NEW r \in Resolvers, Done(r)
  PROVE  AloneMoved(r) /\ pc'[r] = "idle" /\ CallFresh(r)'
<1>1. ResolverType
  BY TypeInParts DEF FreshInv, PolicyInv
<1>2. AloneMoved(r) /\ pc'[r] = "idle"
  BY <1>1 DEF Done, AloneMoved, ResolverType
<1> QED
  BY <1>2 DEF CallFresh, Chain

LEMMA EndFresh ==
  ASSUME FreshInv, PolicyInv', NEW r \in Resolvers, EngineTimesOut(r) \/ Abort(r)
  PROVE  FreshInv'
<1>1. KeepRest /\ UNCHANGED redisVars
  BY DEF EngineTimesOut, Abort
<1>2. CASE Done(r)
  <2>1. AloneMoved(r) /\ pc'[r] = "idle" /\ CallFresh(r)'
    BY <1>2, DoneMoves
  <2> QED
    BY <1>1, <2>1, NoPair, CallStepFresh
<1>3. CASE UNCHANGED <<pc, key, opened, from, partial>>
  BY <1>1, <1>3, UnmovedFresh DEF KeepRest
<1> QED
  BY <1>2, <1>3 DEF EngineTimesOut, Abort

\* The heart of it. Whoever stores a copy read before the last touch began at most
\* MaxFill after the touch; whoever finds that copy began before it was there.
LEMMA StoreFresh ==
  ASSUME FreshInv, PolicyInv', NEW r \in Resolvers, Store(r) \/ EngineStore(r)
  PROVE  FreshInv'
<1>1. ResolverType /\ RedisType
  BY TypeInParts DEF FreshInv, PolicyInv
<1>2. /\ now \in Nat /\ TTL \in Nat /\ MaxFill \in Nat /\ TTL > MaxFill
      /\ \A t \in Students : restrictedAt[t] \in Nat /\ touchedAt[t] \in Nat
      /\ \A q \in Resolvers : from[q] \in Nat /\ opened[q] \in Nat
      /\ \A t \in Students : \A m \in Locations :
           cachedFrom[<<t, m>>] \in Nat /\ expires[<<t, m>>] \in Nat
  BY Instants DEF FreshInv, PolicyInv
<1>3. /\ pc[r] \in {"store", "reply"} /\ SetCache(r) /\ KeepRest
      /\ \/ Done(r)
         \/ /\ pc[r] = "store" /\ pc' = [pc EXCEPT ![r] = "reply"]
            /\ UNCHANGED <<key, engine, opened, from, partial>>
  BY DEF EngineStore, Store
<1>4. now' = now /\ restrictedAt' = restrictedAt /\ touchedAt' = touchedAt
  BY <1>3 DEF KeepRest, clockVars
<1>5. \A t \in Students : BaseKept(t)
  BY <1>3, BaseStays DEF KeepRest
<1>6. PICK s \in Students, l \in Locations : key[r] = <<s, l>>
  BY <1>1, <1>3 DEF ResolverType, Keys
<1>7. /\ cached'[<<s, l>>] = partial[r] /\ cachedFrom'[<<s, l>>] = from[r]
      /\ expires'[<<s, l>>] = now + TTL
  BY <1>1, <1>3, <1>6 DEF SetCache, RedisType, Keys
<1>8. \A t \in Students : \A m \in Locations : <<t, m>> # <<s, l>> =>
        /\ cached'[<<t, m>>] = cached[<<t, m>>] /\ cachedFrom'[<<t, m>>] = cachedFrom[<<t, m>>]
        /\ expires'[<<t, m>>] = expires[<<t, m>>]
  BY <1>1, <1>3, <1>6 DEF SetCache, RedisType, Keys
<1>9. /\ AloneMoved(r)
      /\ \/ pc'[r] = "idle" /\ CallFresh(r)'
         \/ /\ pc[r] = "store" /\ pc'[r] = "reply" /\ key'[r] = key[r] /\ opened'[r] = opened[r]
            /\ from'[r] = from[r] /\ partial'[r] = partial[r]
  <2>1. CASE Done(r)
    BY <2>1, DoneMoves
  <2>2. CASE /\ pc[r] = "store" /\ pc' = [pc EXCEPT ![r] = "reply"]
             /\ UNCHANGED <<key, engine, opened, from, partial>>
    BY <1>1, <2>2 DEF AloneMoved, ResolverType
  <2> QED
    BY <1>3, <2>1, <2>2
<1>10. /\ opened[r] <= now /\ now <= opened[r] + MaxFill
       /\ pc[r] = "store" => opened[r] <= from[r]
       /\ from[r] < touchedAt[s] => opened[r] <= touchedAt[s] + MaxFill
       /\ touchedAt[s] <= from[r] => partial[r].base = Content(BaseRow(s, l))
  <2>1. /\ opened[r] <= now /\ now <= opened[r] + MaxFill
        /\ pc[r] = "store" => opened[r] <= from[r]
    BY <1>3 DEF FreshInv, CallFresh, Chain
  <2>2. touchedAt[s] <= from[r] => partial[r].base = Content(BaseRow(s, l))
    BY <1>3, <1>6 DEF FreshInv, CallFresh
  <2>3. from[r] < touchedAt[s] => opened[r] <= touchedAt[s] + MaxFill
    <3>1. CASE pc[r] = "store"
      BY <1>2, <2>1, <3>1
    <3>2. CASE pc[r] = "reply"
      BY <1>6, <3>2 DEF FreshInv, CallFresh
    <3> QED
      BY <1>3, <3>1, <3>2
  <2> QED
    BY <1>3, <2>1, <2>2, <2>3
<1>11. \A t \in Students : TouchedLast(t)'
  BY <1>4 DEF FreshInv, TouchedLast
<1>12. \A t \in Students : \A m \in Locations : CopyFresh(t, m)'
  <2> SUFFICES ASSUME NEW t \in Students, NEW m \in Locations PROVE CopyFresh(t, m)'
    OBVIOUS
  <2>1. CASE <<t, m>> = <<s, l>>
    <3>1. t = s /\ m = l
      BY <2>1
    <3>2. from[r] < touchedAt[s] => now + TTL <= touchedAt[s] + TTL + 2 * MaxFill
      BY <1>2, <1>10
    <3>3. expires'[<<s, l>>] <= now + TTL
      BY <1>2, <1>7
    <3>4. touchedAt[s] <= from[r] => partial[r].base = Content(BaseRow(s, l))'
      BY <1>5, <1>10 DEF BaseKept
    <3> QED
      BY <1>4, <1>7, <3>1, <3>2, <3>3, <3>4 DEF CopyFresh
  <2>2. CASE <<t, m>> # <<s, l>>
    BY <1>4, <1>5, <1>8, <2>2 DEF FreshInv, CopyFresh, Live, BaseKept
  <2> QED
    BY <2>1, <2>2
<1>13. ASSUME NEW q \in Resolvers \ {r} PROVE CallFresh(q)'
  <2>1. CallFresh(q)
    BY DEF FreshInv
  <2>2. /\ pc'[q] = pc[q] /\ key'[q] = key[q] /\ opened'[q] = opened[q] /\ from'[q] = from[q]
        /\ partial'[q] = partial[q]
    BY <1>9 DEF AloneMoved
  <2>3. /\ pc[q] # "idle" => opened[q] <= now /\ now <= opened[q] + MaxFill
        /\ pc[q] \in Chain => opened[q] <= from[q]
    BY <2>1 DEF CallFresh
  <2>4. ASSUME NEW t \in Students, NEW m \in Locations, key[q] = <<t, m>>
        PROVE  /\ touchedAt[t] <= from[q] =>
                    /\ pc[q] = "inherited" => AssignedRow(t, m)' = Nothing
                    /\ pc[q] = "rules" => partial[q].base[1] = BaseRow(t, m)'
                    /\ pc[q] \in {"store", "reply"} => partial[q].base = Content(BaseRow(t, m))'
               /\ pc[q] = "reply" /\ from[q] < touchedAt[t] => opened[q] <= touchedAt[t] + MaxFill
               /\ pc[q] = "reply" /\ from[q] < touchedAt[t] /\ touchedAt[t] < opened[q] =>
                    expires'[<<t, m>>] >= opened[q] + TTL
               /\ pc[q] = "backend" /\ Live(<<t, m>>)' =>
                    /\ cachedFrom'[<<t, m>>] < touchedAt[t] => opened[q] <= touchedAt[t] + MaxFill
                    /\ touchedAt[t] < opened[q] => expires'[<<t, m>>] >= opened[q] + TTL
    <3>1. /\ touchedAt[t] <= from[q] =>
               /\ pc[q] = "inherited" => AssignedRow(t, m)' = Nothing
               /\ pc[q] = "rules" => partial[q].base[1] = BaseRow(t, m)'
               /\ pc[q] \in {"store", "reply"} => partial[q].base = Content(BaseRow(t, m))'
          /\ pc[q] = "reply" /\ from[q] < touchedAt[t] => opened[q] <= touchedAt[t] + MaxFill
      <4>1. /\ AssignedRow(t, m)' = AssignedRow(t, m) /\ BaseRow(t, m)' = BaseRow(t, m)
            /\ Content(BaseRow(t, m))' = Content(BaseRow(t, m))
        BY <1>5 DEF BaseKept
      <4> QED
        BY <2>1, <2>4, <4>1 DEF CallFresh
    <3>2. CASE <<t, m>> = <<s, l>>
      <4>1. t = s /\ m = l
        BY <3>2
      <4>2. pc[q] # "idle" => expires'[<<s, l>>] >= opened[q] + TTL
        BY <1>2, <1>7, <2>3
      <4>3. pc[q] = "backend" /\ from[r] < touchedAt[s] => opened[q] <= touchedAt[s] + MaxFill
        <5> SUFFICES ASSUME pc[q] = "backend", from[r] < touchedAt[s]
                     PROVE  opened[q] <= touchedAt[s] + MaxFill
          OBVIOUS
        <5>1. CASE opened[r] <= touchedAt[s]
          BY <1>2, <1>10, <2>3, <5>1
        <5>2. CASE touchedAt[s] < opened[r]
          <6>1. pc[r] = "reply"
            BY <1>2, <1>3, <1>10, <5>2
          <6> QED
            BY <1>6, <2>4, <4>1, <5>2, <6>1 DEF FreshInv, PairFresh
        <5> QED
          BY <1>2, <5>1, <5>2
      <4> QED
        BY <1>7, <3>1, <4>1, <4>2, <4>3
    <3>3. CASE <<t, m>> # <<s, l>>
      <4>1. expires'[<<t, m>>] = expires[<<t, m>>] /\ cachedFrom'[<<t, m>>] = cachedFrom[<<t, m>>]
        BY <1>8, <3>3
      <4>2. Live(<<t, m>>)' => Live(<<t, m>>)
        BY <1>4, <4>1 DEF Live
      <4> QED
        BY <2>1, <2>4, <3>1, <4>1, <4>2 DEF CallFresh
    <3> QED
      BY <3>2, <3>3
  <2> QED
    BY <1>4, <2>2, <2>3, <2>4 DEF CallFresh
<1>14. CallFresh(r)'
  <2>1. CASE pc[r] = "store" /\ pc'[r] = "reply" /\ key'[r] = key[r] /\ opened'[r] = opened[r]
             /\ from'[r] = from[r] /\ partial'[r] = partial[r]
    <3>1. ASSUME NEW t \in Students, NEW m \in Locations, key[r] = <<t, m>>
          PROVE  /\ touchedAt[t] <= from[r] => partial[r].base = Content(BaseRow(t, m))'
                 /\ from[r] < touchedAt[t] =>
                      opened[r] <= touchedAt[t] + MaxFill /\ ~(touchedAt[t] < opened[r])
      <4>1. t = s /\ m = l
        BY <1>6, <3>1
      <4> QED
        BY <1>2, <1>5, <1>10, <2>1, <4>1 DEF BaseKept
    <3> QED
      BY <1>4, <1>10, <2>1, <3>1 DEF CallFresh, Chain
  <2> QED
    BY <1>9, <2>1
<1>15. \A q \in Resolvers : PairFresh(q, r)' /\ PairFresh(r, q)'
  <2> SUFFICES ASSUME NEW q \in Resolvers PROVE PairFresh(q, r)' /\ PairFresh(r, q)'
    OBVIOUS
  <2>1. PairFresh(q, r)'
    BY <1>9 DEF PairFresh
  <2>2. CASE pc'[r] = "idle"
    BY <2>1, <2>2 DEF PairFresh
  <2>3. CASE pc[r] = "store" /\ key'[r] = key[r] /\ opened'[r] = opened[r] /\ from'[r] = from[r]
    <3>1. \A t \in Students : ~(from[r] < touchedAt[t] /\ touchedAt[t] < opened[r])
      BY <1>2, <1>10, <2>3
    <3> QED
      BY <1>4, <2>1, <2>3, <3>1 DEF PairFresh
  <2> QED
    BY <1>9, <2>2, <2>3
<1>16. \A p, q \in Resolvers \ {r} : PairFresh(p, q)'
  BY <1>4, <1>9 DEF FreshInv, PairFresh, AloneMoved
<1> QED
  BY <1>11, <1>12, <1>13, <1>14, <1>15, <1>16 DEF FreshInv

LEMMA FreshInit == Init => FreshInv
<1> SUFFICES ASSUME Init PROVE FreshInv
  OBVIOUS
<1>1. PolicyInv /\ now = 0 /\ TTL \in Nat
  BY PolicyInit, BoundsAreNat DEF Init
<1>2. \A s \in Students : TouchedLast(s)
  BY DEF Init, TouchedLast
<1>3. \A s \in Students : \A l \in Locations : CopyFresh(s, l)
  <2> SUFFICES ASSUME NEW s \in Students, NEW l \in Locations PROVE CopyFresh(s, l)
    OBVIOUS
  <2>1. expires[<<s, l>>] = 0
    BY DEF Init, Keys
  <2> QED
    BY <1>1, <2>1 DEF CopyFresh, Live
<1>4. \A r \in Resolvers : CallFresh(r) /\ \A q \in Resolvers : PairFresh(q, r)
  BY DEF Init, CallFresh, PairFresh, Chain
<1> QED
  BY <1>1, <1>2, <1>3, <1>4 DEF FreshInv

LEMMA FreshStep ==
  ASSUME FreshInv, [Next]_vars
  PROVE  FreshInv'
<1>1. PolicyInv
  BY DEF FreshInv
<1>2. CASE UNCHANGED vars
  <2>1. PolicyInv'
    BY <1>1, <1>2, PolicyStutter
  <2> QED
    BY <1>2, <2>1, UnmovedFresh DEF vars, resolverVars
<1>3. CASE Tick
  BY <1>3, TickFresh
<1>4. CASE \E w \in Writers : Write(w)
  BY <1>4, WriteFresh
<1>5. CASE \E w \in Writers : LookUp(w)
  <2>1. PolicyInv'
    BY <1>1, <1>5, LookUpKeeps
  <2> QED
    BY <1>5, <2>1, UnmovedFresh DEF LookUp, resolverVars
<1>6. CASE \E w \in Writers : Invalidate(w)
  BY <1>6, InvalidateFresh
<1>7. CASE \E w \in Writers : WriterDies(w)
  <2>1. PolicyInv'
    BY <1>1, <1>7, WriterDiesKeeps
  <2> QED
    BY <1>7, <2>1, UnmovedFresh DEF WriterDies, resolverVars
<1>8. CASE \E r \in Resolvers : \/ \E k \in Keys : Request(r, k) \/ EngineRequest(r, k)
                                \/ EngineTimesOut(r) \/ Abort(r) \/ BackendMiss(r)
  <2>1. PolicyInv'
    BY <1>1, <1>8, EdgeKeeps
  <2> QED
    BY <1>8, <2>1, BeginFresh, EndFresh, BackendMissFresh
<1>9. CASE \E r \in Resolvers : BackendHit(r)
  BY <1>1, <1>9, BackendHitKeeps, BackendHitFresh
<1>10. CASE \E r \in Resolvers : Store(r) \/ EngineStore(r)
  BY <1>1, <1>10, StoreKeeps, StoreFresh
<1>11. CASE \E r \in Resolvers : \/ ReadLockdown(r) \/ ReadPenalty(r) \/ ReadLesson(r)
                                 \/ ReadAssigned(r) \/ ReadInherited(r) \/ ReadRules(r)
  BY <1>1, <1>11, ReadKeeps, ReadFresh
<1> QED
  BY <1>2, <1>3, <1>4, <1>5, <1>6, <1>7, <1>8, <1>9, <1>10, <1>11 DEF Next, Fill

\* No schedule of writers, crashes and calls leaves a copy that is stale for more
\* than two calls and a POLICY_TTL.
THEOREM FreshInvariance == Spec => []FreshInv
BY FreshInit, FreshStep, PTL DEF Spec

\* When nobody has touched a student for POLICY_TTL and two calls, whatever is
\* cached for the student is what the tables say.
THEOREM CopiesAreFreshInTime == Spec => []BoundedStaleness
<1>1. FreshInv => BoundedStaleness
  <2> SUFFICES ASSUME FreshInv, NEW s \in Students, NEW l \in Locations, Live(<<s, l>>),
                      now > touchedAt[s] + TTL + 2 * MaxFill
               PROVE  cached[<<s, l>>] = Effective(s, l)
    BY DEF BoundedStaleness
  <2>1. /\ now \in Nat /\ TTL \in Nat /\ MaxFill \in Nat
        /\ restrictedAt[s] \in Nat /\ touchedAt[s] \in Nat
        /\ cachedFrom[<<s, l>>] \in Nat /\ expires[<<s, l>>] \in Nat
    BY Instants DEF FreshInv, PolicyInv
  <2>2. CopyFresh(s, l) /\ restrictedAt[s] <= touchedAt[s]
    BY DEF FreshInv, TouchedLast
  <2>3. touchedAt[s] <= cachedFrom[<<s, l>>]
    BY <2>1, <2>2 DEF CopyFresh, Live
  <2>4. cached[<<s, l>>].base = Content(BaseRow(s, l))
    BY <2>2, <2>3 DEF CopyFresh
  <2>5. Restriction(cached[<<s, l>>]) = Restrictions(s)
    BY <2>1, <2>2, <2>3 DEF FreshInv, PolicyInv, CopiesHold
  <2>6. cached[<<s, l>>] \in Value
    BY DEF FreshInv, PolicyInv, TypeOK, Keys
  <2>7. /\ cached[<<s, l>>].lockdown = lockdown[s] /\ cached[<<s, l>>].box = Box(s)
        /\ cached[<<s, l>>].lesson = LessonRows(s)
    BY <2>5 DEF Restriction, Restrictions
  <2> QED
    BY <2>4, <2>6, <2>7 DEF Effective, Value, Box
<1> QED
  BY <1>1, FreshInvariance, PTL
=============================================================================
