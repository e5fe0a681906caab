------------------------- MODULE LockdownGuardProofs -------------------------
(***************************************************************************)
(* A lockdown test on a student's device, for any number of tests, tabs,   *)
(* runs of syncPolicy and listeners at once: what the device keeps has its *)
(* shape, and a device at rest with a lock on has the lock tab open and no *)
(* other, or none if no window was left to open it in.                     *)
(***************************************************************************)
EXTENDS LockdownGuard, FiniteSetTheorems, SequenceTheorems, TLAPS

-----------------------------------------------------------------------------
(* The news of tabs.                                                       *)

\* An event is still to be delivered.
Coming(kind, t) == \E i \in 1 .. Len(news) : news[i] = <<kind, t>>

NewsOK == news \in Seq(TabEvent)

\* A tab of which the opening has still to be told is open, or its closing is told later.
InOrder ==
  \A i \in 1 .. Len(news) : news[i][1] = "created" =>
     \/ news[i][2] \in tabs
     \/ \E j \in (i + 1) .. Len(news) : news[j] = <<"removed", news[i][2]>>

\* A finite set as a sequence has the elements of the set and no others.
LEMMA SetAsSeq ==
  ASSUME NEW S, IsFiniteSet(S)
  PROVE  /\ SetToSeq(S) \in Seq(S)
         /\ \A x \in S : \E i \in 1 .. Len(SetToSeq(S)) : SetToSeq(S)[i] = x
<1> DEFINE n == Cardinality(S)
           f == SetToSeq(S)
<1>1. n \in Nat /\ ExistsBijection(1 .. n, S)
  BY FS_CardinalityType
<1>2. \E g \in [1 .. n -> S] : IsInjective(g)
  BY <1>1 DEF ExistsBijection, Bijection, Injection
<1>3. f \in [1 .. n -> S] /\ IsInjective(f)
  BY <1>2 DEF SetToSeq
<1>4. Cardinality(1 .. n) = Cardinality(S)
  BY <1>1, FS_Interval
<1>5. f \in Surjection(1 .. n, S)
  <2>1. f \in Injection(1 .. n, S)
    BY <1>3 DEF Injection
  <2> QED BY <2>1, <1>4, FS_Injection
<1>6. f \in Seq(S) /\ Len(f) = n
  BY <1>1, <1>3
<1> QED BY <1>5, <1>6 DEF Surjection

\* More news: what it says is told after what there was, and the order is kept if it tells
\* of every tab that is closed, and of no opening of a tab that is not open.
LEMMA AddedNews ==
  ASSUME NewsOK, NEW s \in Seq(TabEvent), news' = news \o s
  PROVE  /\ NewsOK'
         /\ \A k, u : Coming(k, u)' <=> Coming(k, u) \/ \E i \in 1 .. Len(s) : s[i] = <<k, u>>
         /\ /\ InOrder
            /\ \A u \in tabs : u \in tabs' \/ \E i \in 1 .. Len(s) : s[i] = <<"removed", u>>
            /\ \A i \in 1 .. Len(s) : s[i][1] = "created" => s[i][2] \in tabs'
            => InOrder'
<1>1. /\ news' \in Seq(TabEvent) /\ Len(news) \in Nat /\ Len(s) \in Nat
      /\ Len(news') = Len(news) + Len(s)
      /\ \A i \in 1 .. Len(news') : news'[i] = IF i <= Len(news) THEN news[i] ELSE s[i - Len(news)]
  BY ConcatProperties, LenProperties DEF NewsOK
<1>2. \A i \in 1 .. Len(news) : i \in 1 .. Len(news') /\ news'[i] = news[i]
  BY <1>1
<1>3. ASSUME NEW j \in 1 .. Len(s)
      PROVE  /\ Len(news) + j \in 1 .. Len(news') /\ news'[Len(news) + j] = s[j]
             /\ \A i \in 1 .. Len(news) : Len(news) + j \in (i + 1) .. Len(news')
  <2>1. /\ Len(news) + j \in 1 .. Len(news') /\ ~(Len(news) + j <= Len(news))
        /\ Len(news) + j - Len(news) = j
    BY <1>1
  <2>2. news'[Len(news) + j] = s[j]
    BY <2>1, <1>1
  <2> QED BY <2>1, <2>2, <1>1
<1>4. ASSUME NEW i \in 1 .. Len(news'), ~(i <= Len(news))
      PROVE  i - Len(news) \in 1 .. Len(s) /\ news'[i] = s[i - Len(news)]
  BY <1>1, <1>4
<1>5. ASSUME NEW k, NEW u
      PROVE  Coming(k, u)' <=> Coming(k, u) \/ \E i \in 1 .. Len(s) : s[i] = <<k, u>>
  <2>1. Coming(k, u) => Coming(k, u)'
    BY <1>2 DEF Coming
  <2>2. ASSUME NEW i \in 1 .. Len(s), s[i] = <<k, u>> PROVE Coming(k, u)'
    BY <2>2, <1>3 DEF Coming
  <2>3. ASSUME Coming(k, u)', ~Coming(k, u) PROVE \E i \in 1 .. Len(s) : s[i] = <<k, u>>
    <3>1. PICK i \in 1 .. Len(news') : news'[i] = <<k, u>>
      BY <2>3 DEF Coming
    <3>2. ~(i <= Len(news))
      BY <3>1, <2>3, <1>1 DEF Coming
    <3> QED BY <3>1, <3>2, <1>4
  <2> QED BY <2>1, <2>2, <2>3
<1>6. ASSUME InOrder,
             \A u \in tabs : u \in tabs' \/ \E i \in 1 .. Len(s) : s[i] = <<"removed", u>>,
             \A i \in 1 .. Len(s) : s[i][1] = "created" => s[i][2] \in tabs'
      PROVE  InOrder'
  <2> SUFFICES ASSUME NEW i \in 1 .. Len(news'), news'[i][1] = "created"
               PROVE  \/ news'[i][2] \in tabs'
                      \/ \E j \in (i + 1) .. Len(news') : news'[j] = <<"removed", news'[i][2]>>
    BY DEF InOrder
  <2>1. CASE ~(i <= Len(news))
    BY <2>1, <1>4, <1>6
  <2>2. CASE i <= Len(news)
    <3>1. i \in 1 .. Len(news) /\ news'[i] = news[i]
      BY <2>2, <1>1, <1>2
    <3>2. \/ news[i][2] \in tabs
          \/ \E j \in (i + 1) .. Len(news) : news[j] = <<"removed", news[i][2]>>
      BY <3>1, <1>6 DEF InOrder
    <3>3. CASE \E j \in (i + 1) .. Len(news) : news[j] = <<"removed", news[i][2]>>
      <4>1. PICK j \in (i + 1) .. Len(news) : news[j] = <<"removed", news[i][2]>>
        BY <3>3
      <4>2. j \in 1 .. Len(news) /\ j \in (i + 1) .. Len(news')
        BY <3>1, <1>1
      <4> QED BY <3>1, <4>1, <4>2, <1>2
    <3>4. CASE \E j \in 1 .. Len(s) : s[j] = <<"removed", news[i][2]>>
      BY <3>1, <3>4, <1>3
    <3> QED BY <3>1, <3>2, <3>3, <3>4, <1>6
  <2> QED BY <2>1, <2>2
<1> QED BY <1>1, <1>5, <1>6 DEF NewsOK

\* A tab opened, with a window of its own or without, is news of that tab, told last.
LEMMA OpenedNews ==
  ASSUME NewsOK, NEW t \in Tabs, Opened(t)
  PROVE  /\ NewsOK'
         /\ \A u : Coming("created", u)' <=> Coming("created", u) \/ u = t
         /\ \A u : Coming("removed", u)' <=> Coming("removed", u)
         /\ InOrder => InOrder'
<1> DEFINE w == <<"window", t>>
           c == <<"created", t>>
<1>1. w \in TabEvent /\ c \in TabEvent
  BY DEF TabEvent
<1>2. tabs' = tabs \cup {t}
  BY DEF Opened
<1>3. ASSUME NEW s \in Seq(TabEvent), news' = news \o s,
             \A i \in 1 .. Len(s) : s[i] \in {w, c},
             \E i \in 1 .. Len(s) : s[i] = c
      PROVE  /\ NewsOK'
             /\ \A u : Coming("created", u)' <=> Coming("created", u) \/ u = t
             /\ \A u : Coming("removed", u)' <=> Coming("removed", u)
             /\ InOrder => InOrder'
  <2>1. /\ NewsOK'
        /\ \A k, u : Coming(k, u)' <=> Coming(k, u) \/ \E i \in 1 .. Len(s) : s[i] = <<k, u>>
    BY <1>3, AddedNews
  <2>2. \A u : (\E i \in 1 .. Len(s) : s[i] = <<"created", u>>) <=> u = t
    BY <1>3
  <2>3. ASSUME NEW u, NEW i \in 1 .. Len(s), s[i] = <<"removed", u>> PROVE FALSE
    <3>1. s[i][1] = "removed"
      BY <2>3
    <3>2. s[i][1] \in {"window", "created"}
      BY <1>3
    <3> QED BY <3>1, <3>2
  <2>4. \A i \in 1 .. Len(s) : s[i][2] = t
    BY <1>3
  <2>5. InOrder => InOrder'
    BY <2>4, <1>2, <1>3, AddedNews
  <2> QED BY <2>1, <2>2, <2>3, <2>5
<1>4. CASE news' = Append(news, c)
  <2>1. <<c>> \in Seq(TabEvent) /\ Len(<<c>>) = 1 /\ <<c>>[1] = c
    BY <1>1
  <2>2. Append(news, c) = news \o <<c>>
    BY <1>1, AppendIsConcat DEF NewsOK
  <2> DEFINE s == <<c>>
  <2> HIDE DEF c, w
  <2>3. s \in Seq(TabEvent) /\ news' = news \o s
    BY <1>4, <2>1, <2>2
  <2>4. /\ \A i \in 1 .. Len(s) : i = 1
        /\ 1 \in 1 .. Len(s) /\ s[1] = c
    BY <2>1
  <2> HIDE DEF s
  <2> QED BY <1>3, <2>3, <2>4
<1>5. CASE news' = news \o <<w, c>>
  <2>1. <<w, c>> \in Seq(TabEvent) /\ Len(<<w, c>>) = 2 /\ <<w, c>>[1] = w /\ <<w, c>>[2] = c
    BY <1>1
  <2> DEFINE s == <<w, c>>
  <2> HIDE DEF c, w
  <2>2. s \in Seq(TabEvent) /\ news' = news \o s
    BY <1>5, <2>1
  <2>3. /\ \A i \in 1 .. Len(s) : i \in {1, 2}
        /\ 2 \in 1 .. Len(s) /\ s[1] = w /\ s[2] = c
    BY <2>1
  <2> HIDE DEF s
  <2> QED BY <1>3, <2>2, <2>3
<1> QED BY <1>4, <1>5 DEF Opened

\* Tabs closed are news of those tabs, told last.
LEMMA GoneNews ==
  ASSUME NewsOK, IsFiniteSet(tabs), tabs \subseteq Tabs, NEW some, Gone(some)
  PROVE  /\ NewsOK'
         /\ \A k, u : Coming(k, u)' <=> Coming(k, u) \/ (k = "removed" /\ u \in tabs \cap some)
         /\ InOrder => InOrder'
<1> DEFINE S == tabs \cap some
           told == {<<"removed", t>> : t \in S}
           s == SetToSeq(told)
<1>1. IsFiniteSet(told)
  <2>1. IsFiniteSet(S)
    BY FS_Intersection
  <2>2. [t \in S |-> <<"removed", t>>] \in Surjection(S, told)
    BY DEF Surjection
  <2> QED BY <2>1, <2>2, FS_Surjection
<1>2. /\ s \in Seq(told)
      /\ \A x \in told : \E i \in 1 .. Len(s) : s[i] = x
  BY <1>1, SetAsSeq
<1>3. told \subseteq TabEvent
  BY DEF TabEvent
<1>4. s \in Seq(TabEvent)
  BY <1>2, <1>3, SeqMonotonic
<1>5. tabs' = tabs \ some /\ news' = news \o s
  BY DEF Gone
<1>6. \A x \in told : \E t \in S : x = <<"removed", t>>
  OBVIOUS
<1>7. \A t \in S : <<"removed", t>> \in told
  OBVIOUS
<1> HIDE DEF told, s
<1>8. \A i \in 1 .. Len(s) : s[i] \in told
  BY <1>2, ElementOfSeq
<1>9. /\ NewsOK'
      /\ \A k, u : Coming(k, u)' <=> Coming(k, u) \/ \E i \in 1 .. Len(s) : s[i] = <<k, u>>
  BY <1>4, <1>5, AddedNews
<1>10. \A k, u : (\E i \in 1 .. Len(s) : s[i] = <<k, u>>) <=> (k = "removed" /\ u \in S)
  <2>1. ASSUME NEW k, NEW u, NEW i \in 1 .. Len(s), s[i] = <<k, u>>
        PROVE  k = "removed" /\ u \in S
    BY <2>1, <1>6, <1>8
  <2>2. ASSUME NEW u \in S PROVE \E i \in 1 .. Len(s) : s[i] = <<"removed", u>>
    BY <1>2, <1>7
  <2> QED BY <2>1, <2>2
<1>11. \A i \in 1 .. Len(s) : s[i][1] # "created"
  BY <1>6, <1>8
<1>12. \A u \in tabs : u \in tabs' \/ \E i \in 1 .. Len(s) : s[i] = <<"removed", u>>
  BY <1>5, <1>10
<1>13. InOrder => InOrder'
  BY <1>4, <1>5, <1>11, <1>12, AddedNews
<1> QED BY <1>9, <1>10, <1>13

\* A listener takes the first of the news: no other news is lost, and of a tab that was
\* created and is not open any more the closing is still to be told.
LEMMA HeardNews ==
  ASSUME NewsOK, news # <<>>, NEW kind, NEW t, Head(news) = <<kind, t>>,
         news' = Tail(news), UNCHANGED tabs
  PROVE  /\ NewsOK' /\ Coming(kind, t) /\ t \in Tabs
         /\ \A k, u : Coming(k, u)' => Coming(k, u)
         /\ \A k, u : Coming(k, u) => Coming(k, u)' \/ (k = kind /\ u = t)
         /\ InOrder => InOrder'
         /\ InOrder /\ kind = "created" => t \in tabs \/ Coming("removed", t)'
<1>1. /\ news \in Seq(TabEvent) /\ Len(news) \in Nat \ {0}
  BY EmptySeq DEF NewsOK
<1>2. /\ news' \in Seq(TabEvent) /\ Len(news') = Len(news) - 1
      /\ \A i \in 1 .. Len(news') : news'[i] = news[i + 1]
      /\ Head(news) \in TabEvent
  BY <1>1, HeadTailProperties
<1>3. 1 \in 1 .. Len(news) /\ news[1] = <<kind, t>>
  BY <1>1
<1>4. \A j \in 2 .. Len(news) : j - 1 \in 1 .. Len(news') /\ news'[j - 1] = news[j]
  BY <1>1, <1>2
<1>5. Coming(kind, t)
  BY <1>3 DEF Coming
<1>6. t \in Tabs
  BY <1>2 DEF TabEvent
<1>7. ASSUME NEW k, NEW u, Coming(k, u)' PROVE Coming(k, u)
  <2>1. PICK i \in 1 .. Len(news') : news'[i] = <<k, u>>
    BY <1>7 DEF Coming
  <2>2. i + 1 \in 1 .. Len(news) /\ news[i + 1] = <<k, u>>
    BY <2>1, <1>1, <1>2
  <2> QED BY <2>2 DEF Coming
<1>8. ASSUME NEW k, NEW u, Coming(k, u), ~(k = kind /\ u = t) PROVE Coming(k, u)'
  <2>1. PICK i \in 1 .. Len(news) : news[i] = <<k, u>>
    BY <1>8 DEF Coming
  <2>2. i \in 2 .. Len(news)
    BY <2>1, <1>8, <1>3, <1>1
  <2> QED BY <2>1, <2>2, <1>4 DEF Coming
<1>9. ASSUME InOrder PROVE InOrder'
  <2> SUFFICES ASSUME NEW i \in 1 .. Len(news'), news'[i][1] = "created"
               PROVE  \/ news'[i][2] \in tabs'
                      \/ \E j \in (i + 1) .. Len(news') : news'[j] = <<"removed", news'[i][2]>>
    BY DEF InOrder
  <2>1. i + 1 \in 1 .. Len(news) /\ news'[i] = news[i + 1]
    BY <1>1, <1>2
  <2>2. \/ news[i + 1][2] \in tabs
        \/ \E j \in (i + 1 + 1) .. Len(news) : news[j] = <<"removed", news[i + 1][2]>>
    BY <2>1, <1>9 DEF InOrder
  <2>3. CASE \E j \in (i + 1 + 1) .. Len(news) : news[j] = <<"removed", news[i + 1][2]>>
    <3>1. PICK j \in (i + 1 + 1) .. Len(news) : news[j] = <<"removed", news[i + 1][2]>>
      BY <2>3
    <3>2. j \in 2 .. Len(news) /\ j - 1 \in (i + 1) .. Len(news')
      BY <1>1, <1>2
    <3> QED BY <2>1, <3>1, <3>2, <1>4
  <2> QED BY <2>1, <2>2, <2>3
<1>10. ASSUME InOrder, kind = "created", t \notin tabs PROVE Coming("removed", t)'
  <2>1. news[1][1] = "created" /\ news[1][2] = t
    BY <1>10, <1>3
  <2>2. PICK j \in (1 + 1) .. Len(news) : news[j] = <<"removed", t>>
    BY <1>10, <1>3, <2>1 DEF InOrder
  <2>3. j \in 2 .. Len(news)
    OBVIOUS
  <2> QED BY <2>2, <2>3, <1>4 DEF Coming
<1> QED BY <1>2, <1>5, <1>6, <1>7, <1>8, <1>9, <1>10 DEF NewsOK

-----------------------------------------------------------------------------
(* What the device keeps has its shape.                                    *)

Runs == [step : {"idle", "store", "enforce", "update", "apply", "forget",
                 "disengage", "engage", "pin", "sweep"},
         policy : Policies, existing : SUBSET Policies, last : BOOLEAN,
         tab : Tabs \cup {NoTab}]
Hearings == [step : {"idle", "forget", "close", "remove", "reopen", "keep"},
             tab : Tabs \cup {NoTab}, seen : Lock]

\* A run that puts a lock on has a test for it, and a tab once it has chosen one.
RunOK(run) ==
  /\ run \in Runs
  /\ run.step \in {"engage", "pin", "sweep"} => run.policy \in Sessions
  /\ run.step \in {"pin", "sweep"} => run.tab \in Tabs

\* A listener has a tab, and one that replaces the lock tab has read a lock.
HearingOK(hearing) ==
  /\ hearing \in Hearings
  /\ hearing.step # "idle" => hearing.tab \in Tabs
  /\ hearing.step \in {"reopen", "keep"} => hearing.seen.session \in Sessions

ServerOK == session \in [Sessions -> [status : {"free", "active", "over"},
                                      clock : {"open", "running", "past"}]]
PolicyOK == cached \in Policies /\ rules \subseteq Policies
LockOK == lock \in Lock /\ (lock = NoLock \/ (lock.session \in Sessions /\ lock.tab \in Tabs))
SyncOK == sync \in [Syncs -> Runs] /\ \A y \in Syncs : RunOK(sync[y])
HeardOK == heard \in [Listeners -> Hearings] /\ \A h \in Listeners : HearingOK(heard[h])
FlagsOK == /\ suppress \in BOOLEAN /\ online \in BOOLEAN /\ signedIn \in BOOLEAN
           /\ astray \in BOOLEAN /\ windowless \in BOOLEAN /\ happens \in 0 .. MaxHappens

\* A tab of which the closing has still to be told is closed, and so is the tab that a
\* listener replaces.
ClosedStay ==
  /\ \A t \in Tabs : Coming("removed", t) => t \notin tabs
  /\ \A h \in Listeners : heard[h].step = "reopen" => heard[h].seen.tab \notin tabs
TabsOK == tabs \subseteq Tabs /\ IsFiniteSet(tabs) /\ home \in [Tabs -> Tabs] /\ NewsOK /\ InOrder /\ ClosedStay

DeviceInv == ServerOK /\ PolicyOK /\ LockOK /\ SyncOK /\ HeardOK /\ FlagsOK /\ TabsOK

LEMMA DeviceHasType == DeviceInv => LockdownTypeOK
BY DEF DeviceInv, ServerOK, PolicyOK, LockOK, SyncOK, HeardOK, FlagsOK, TabsOK, NewsOK,
       LockdownTypeOK, Runs, Hearings

\* One run moves on, one listener does, or one of each: the others are as they were.
LEMMA RunMoves ==
  ASSUME SyncOK, NEW y \in Syncs, NEW run, RunOK(run), sync' = [sync EXCEPT ![y] = run]
  PROVE  SyncOK'
BY DEF SyncOK, RunOK

LEMMA ListenerMoves ==
  ASSUME HeardOK, NEW h \in Listeners, NEW hearing, HearingOK(hearing),
         heard' = [heard EXCEPT ![h] = hearing]
  PROVE  HeardOK'
BY DEF HeardOK, HearingOK

LEMMA WaitingOK == RunOK(Waiting)
BY DEF RunOK, Waiting, Runs, Policies

LEMMA QuietOK == HearingOK(Quiet)
BY DEF HearingOK, Quiet, Hearings, Lock, NoLock, Policies

\* A run that has a policy.
LEMMA WithOK ==
  ASSUME SyncOK, NEW y \in Syncs, NEW step \in {"store", "enforce"}, NEW policy \in Policies,
         NEW last \in BOOLEAN, With(y, step, policy, last)
  PROVE  SyncOK'
<1> DEFINE run == [Waiting EXCEPT !.step = step, !.policy = policy, !.last = last]
<1>1. RunOK(run)
  BY WaitingOK DEF RunOK, Waiting, Runs
<1>2. sync' = [sync EXCEPT ![y] = run]
  BY DEF With
<1> QED BY <1>1, <1>2, RunMoves

\* A run that goes on to a step it may take.
LEMMA GoOK ==
  ASSUME SyncOK, NEW y \in Syncs, NEW step, Go(y, step),
         \/ step \in {"store", "enforce", "update", "apply", "forget", "disengage"}
         \/ step = "engage" /\ sync[y].policy \in Sessions
         \/ step = "sweep" /\ sync[y].policy \in Sessions /\ sync[y].tab \in Tabs
  PROVE  SyncOK'
<1> DEFINE run == [sync[y] EXCEPT !.step = step]
<1>1. RunOK(run)
  BY DEF RunOK, SyncOK, Runs
<1>2. sync' = [sync EXCEPT ![y] = run]
  BY DEF Go
<1> QED BY <1>1, <1>2, RunMoves

\* A listener that has read the lock.
LEMMA HearOK ==
  ASSUME HeardOK, LockOK, lock # NoLock, NEW h \in Listeners, NEW t \in Tabs,
         NEW step \in {"forget", "close", "remove", "reopen", "keep"}, Hear(h, step, t)
  PROVE  HeardOK'
<1> DEFINE hearing == [step |-> step, tab |-> t, seen |-> lock]
<1>1. HearingOK(hearing)
  BY DEF HearingOK, Hearings, LockOK
<1>2. heard' = [heard EXCEPT ![h] = hearing]
  BY DEF Hear
<1> QED BY <1>1, <1>2, ListenerMoves

LEMMA DeviceInit == LockdownInit => DeviceInv
<1> SUFFICES ASSUME LockdownInit PROVE DeviceInv
  OBVIOUS
<1> USE DEF LockdownInit
<1>1. ServerOK /\ PolicyOK
  BY DEF ServerOK, PolicyOK, Policies
<1>0. FlagsOK
  <2>1. happens \in 0 .. MaxHappens
    BY HappensAreNat
  <2> QED BY <2>1 DEF FlagsOK
<1>2. LockOK
  BY DEF LockOK, NoLock, Lock, Policies
<1>3. SyncOK
  BY WaitingOK DEF SyncOK, RunOK
<1>4. HeardOK
  BY QuietOK DEF HeardOK, HearingOK
<1>5. tabs \subseteq Tabs /\ IsFiniteSet(tabs) /\ home \in [Tabs -> Tabs]
  BY FS_Singleton
<1>6. Len(news) = 0 /\ NewsOK
  BY EmptySeq DEF NewsOK
<1>7. InOrder /\ ClosedStay
  BY <1>6 DEF InOrder, ClosedStay, Coming, Quiet
<1> QED BY <1>0, <1>1, <1>2, <1>3, <1>4, <1>5, <1>6, <1>7 DEF DeviceInv, TabsOK

\* Steps that leave tabs and listeners alone.
LEMMA TabsLeft ==
  ASSUME TabsOK, UNCHANGED <<openVars, heard>>
  PROVE  TabsOK'
<1> USE DEF openVars
<1>1. NewsOK' /\ InOrder'
  BY DEF TabsOK, NewsOK, InOrder
<1>2. ClosedStay'
  BY DEF TabsOK, ClosedStay, Coming
<1> QED BY <1>1, <1>2 DEF TabsOK

\* A tab is opened to which nothing refers: it is none of those that have been closed.
LEMMA TabsOpened ==
  ASSUME TabsOK, HeardOK, NEW t \in Tabs, ~Referred(t), Opened(t),
         \A k \in Listeners : heard'[k].step = "reopen" =>
            heard[k].step = "reopen" /\ heard'[k].seen = heard[k].seen
  PROVE  TabsOK'
<1>1. /\ NewsOK' /\ InOrder'
      /\ \A u : Coming("removed", u)' => Coming("removed", u)
  BY OpenedNews DEF TabsOK
<1>2. tabs' = tabs \cup {t}
  BY DEF Opened
<1>3. tabs' \subseteq Tabs /\ IsFiniteSet(tabs') /\ home' \in [Tabs -> Tabs]
  <2>1. \E u \in Tabs : home' = [home EXCEPT ![t] = u]
    <3>1. CASE home' = [home EXCEPT ![t] = t]
      BY <3>1
    <3>2. ASSUME NEW u \in tabs, home' = [home EXCEPT ![t] = home[u]]
          PROVE  \E v \in Tabs : home' = [home EXCEPT ![t] = v]
      <4>1. home[u] \in Tabs
        BY DEF TabsOK
      <4> QED BY <3>2, <4>1
    <3> QED BY <3>1, <3>2 DEF Opened
  <2> QED BY <2>1, <1>2, FS_AddElement DEF TabsOK
<1>4. ~Coming("removed", t)
  <2>1. ASSUME NEW i \in 1 .. Len(news), news[i] = <<"removed", t>> PROVE FALSE
    <3>1. i \in DOMAIN news
      BY LenProperties DEF TabsOK, NewsOK
    <3> QED BY <2>1, <3>1 DEF Referred
  <2> QED BY <2>1 DEF Coming
<1>5. \A k \in Listeners : heard[k].seen.tab # t
  BY DEF Referred
<1>6. ClosedStay'
  BY <1>1, <1>2, <1>4, <1>5 DEF ClosedStay, TabsOK
<1> QED BY <1>1, <1>3, <1>6 DEF TabsOK

\* Tabs are closed.
LEMMA TabsGone ==
  ASSUME TabsOK, NEW some, Gone(some),
         \A k \in Listeners : heard'[k].step = "reopen" =>
            heard[k].step = "reopen" /\ heard'[k].seen = heard[k].seen
  PROVE  TabsOK'
<1>1. /\ NewsOK' /\ InOrder'
      /\ \A u : Coming("removed", u)' => Coming("removed", u) \/ u \in tabs \cap some
  BY GoneNews DEF TabsOK
<1>2. tabs' = tabs \ some
  BY DEF Gone
<1>3. tabs' \subseteq Tabs /\ IsFiniteSet(tabs') /\ home' \in [Tabs -> Tabs]
  BY <1>2, FS_Subset DEF TabsOK, Gone
<1>4. ClosedStay'
  BY <1>1, <1>2 DEF ClosedStay, TabsOK
<1> QED BY <1>1, <1>3, <1>4 DEF TabsOK

LEMMA DeviceKept == DeviceInv /\ [LockdownNext]_lockdownVars => DeviceInv'
<1> SUFFICES ASSUME DeviceInv, LockdownNext PROVE DeviceInv'
  <2>1. ASSUME DeviceInv, UNCHANGED lockdownVars PROVE DeviceInv'
    <3>1. UNCHANGED <<session, cached, rules, lock, openVars, suppress, sync, heard,
                      online, signedIn, astray, windowless, happens>>
      BY <2>1 DEF lockdownVars, policyVars, tabVars, netVars, historyVars
    <3>2. TabsOK'
      BY <2>1, <3>1, TabsLeft DEF DeviceInv
    <3> QED BY <2>1, <3>1, <3>2 DEF DeviceInv, ServerOK, PolicyOK, LockOK, SyncOK, HeardOK, FlagsOK
  <2> QED BY <2>1
<1> USE DEF DeviceInv, policyVars, tabVars, netVars, historyVars
<1>1. ASSUME ServerSteps PROVE DeviceInv'
  <2>1. ServerOK'
    BY <1>1 DEF ServerSteps, StartLockdown, EndLockdown, TestEnds, expireLockdownSessions, ServerOK
  <2>2. UNCHANGED <<cached, rules, lock, openVars, suppress, sync, heard, online, signedIn,
                    astray, windowless, happens>>
    BY <1>1 DEF ServerSteps, StartLockdown, EndLockdown, TestEnds, expireLockdownSessions
  <2>3. TabsOK'
    BY <2>2, TabsLeft
  <2> QED BY <2>1, <2>2, <2>3 DEF PolicyOK, LockOK, SyncOK, HeardOK, FlagsOK
<1>2. ASSUME NetSteps PROVE DeviceInv'
  <2>1. FlagsOK'
    <3>1. happens' \in 0 .. MaxHappens /\ UNCHANGED <<suppress, astray, windowless>>
      BY <1>2, HappensAreNat DEF NetSteps, GoOffline, GoOnline, TokenExpires, SignIn, Happen, FlagsOK
    <3>2. online' \in BOOLEAN
      BY <1>2 DEF NetSteps, GoOffline, GoOnline, TokenExpires, SignIn, FlagsOK
    <3>3. signedIn' \in BOOLEAN
      BY <1>2 DEF NetSteps, GoOffline, GoOnline, TokenExpires, SignIn, FlagsOK
    <3> QED BY <3>1, <3>2, <3>3 DEF FlagsOK
  <2>2. UNCHANGED <<session, cached, rules, lock, openVars, sync, heard>>
    BY <1>2 DEF NetSteps, GoOffline, GoOnline, TokenExpires, SignIn
  <2>3. TabsOK'
    BY <2>2, TabsLeft
  <2> QED BY <2>1, <2>2, <2>3 DEF PolicyOK, LockOK, SyncOK, HeardOK, ServerOK
<1>3. ASSUME NEW t \in Tabs, OpenTab(t) PROVE DeviceInv'
  <2> USE <1>3 DEF OpenTab
  <2>1. TabsOK'
    BY TabsOpened
  <2>2. FlagsOK'
    BY HappensAreNat DEF Happen, FlagsOK
  <2>3. UNCHANGED <<session, cached, rules, lock, sync, heard>>
    OBVIOUS
  <2> QED BY <2>1, <2>2, <2>3 DEF PolicyOK, LockOK, SyncOK, HeardOK, ServerOK
<1>4. ASSUME NEW t \in Tabs, CloseTab(t) PROVE DeviceInv'
  <2> USE <1>4 DEF CloseTab
  <2>1. TabsOK'
    BY TabsGone
  <2>2. FlagsOK'
    BY HappensAreNat DEF Happen, FlagsOK
  <2>3. UNCHANGED <<session, cached, rules, lock, sync, heard>>
    OBVIOUS
  <2> QED BY <2>1, <2>2, <2>3 DEF PolicyOK, LockOK, SyncOK, HeardOK, ServerOK
<1>5. ASSUME WorkerStops PROVE DeviceInv'
  <2> USE <1>5 DEF WorkerStops
  <2>1. SyncOK'
    BY WaitingOK DEF SyncOK, RunOK
  <2>2. HeardOK'
    BY QuietOK DEF HeardOK, HearingOK
  <2>3. FlagsOK'
    <3>1. happens' \in 0 .. MaxHappens /\ UNCHANGED <<online, signedIn, windowless>>
      BY HappensAreNat DEF Happen, FlagsOK
    <3>2. suppress' \in BOOLEAN
      OBVIOUS
    <3>3. astray' \in BOOLEAN
      OBVIOUS
    <3> QED BY <3>1, <3>2, <3>3 DEF FlagsOK
  <2>4. TabsOK'
    <3>1. UNCHANGED <<tabs, home, news>>
      BY DEF openVars
    <3>2. NewsOK' /\ InOrder'
      BY <3>1 DEF TabsOK, NewsOK, InOrder
    <3>3. ClosedStay'
      BY <3>1 DEF TabsOK, ClosedStay, Coming, Quiet
    <3> QED BY <3>1, <3>2, <3>3 DEF TabsOK
  <2>5. UNCHANGED <<session, cached, rules, lock>>
    OBVIOUS
  <2> QED BY <2>1, <2>2, <2>3, <2>4, <2>5 DEF PolicyOK, LockOK, ServerOK
<1>6. ASSUME NEW y \in Syncs, SyncStep(y) PROVE DeviceInv'
  <2>1. ServerOK'
    BY <1>6 DEF SyncStep, Fetch, FetchFails, ReleaseCached, StorePolicy, ReadRules, UpdateRules,
       UpdateRejected, ApplyLockdownState, Forget, Disengage, Engage, EngageFails, Throw, With, Go, Pin, Sweep, ServerOK
  <2>2. HeardOK'
    BY <1>6 DEF SyncStep, Fetch, FetchFails, ReleaseCached, StorePolicy, ReadRules, UpdateRules,
       UpdateRejected, ApplyLockdownState, Forget, Disengage, Engage, EngageFails, Throw, With, Go, Pin, Sweep, HeardOK
  <2>3. FlagsOK'
    <3>1. UNCHANGED <<online, signedIn>>
      BY <1>6 DEF SyncStep, Fetch, FetchFails, ReleaseCached, StorePolicy, ReadRules, UpdateRules,
         UpdateRejected, ApplyLockdownState, Forget, Disengage, Engage, EngageFails, Pin, Sweep
    <3>2. suppress' \in BOOLEAN
      BY <1>6 DEF SyncStep, Fetch, FetchFails, ReleaseCached, StorePolicy, ReadRules, UpdateRules,
         UpdateRejected, ApplyLockdownState, Forget, Disengage, Engage, EngageFails, Pin, Sweep, FlagsOK
    <3>3. astray' \in BOOLEAN /\ windowless' \in BOOLEAN
      BY <1>6 DEF SyncStep, Fetch, FetchFails, ReleaseCached, StorePolicy, ReadRules, UpdateRules,
         UpdateRejected, ApplyLockdownState, Forget, Disengage, Engage, EngageFails, Pin, Sweep, FlagsOK
    <3>4. happens' \in 0 .. MaxHappens
      <4>1. Happen => happens' \in 0 .. MaxHappens
        BY HappensAreNat DEF Happen, FlagsOK
      <4>2. Happen \/ UNCHANGED happens
        BY <1>6 DEF SyncStep, Fetch, FetchFails, ReleaseCached, StorePolicy, ReadRules, UpdateRules,
         UpdateRejected, ApplyLockdownState, Forget, Disengage, Engage, EngageFails, Pin, Sweep, Created
      <4> QED BY <4>1, <4>2 DEF FlagsOK
    <3> QED BY <3>1, <3>2, <3>3, <3>4 DEF FlagsOK
  <2>4. PolicyOK'
    <3>1. sync[y].policy \in Policies
      BY DEF SyncOK, Runs
    <3> QED
      BY <1>6, <3>1 DEF SyncStep, Fetch, FetchFails, ReleaseCached, StorePolicy, ReadRules, UpdateRules,
         UpdateRejected, ApplyLockdownState, Forget, Disengage, Engage, EngageFails, Throw, With, Go, Pin, Sweep, PolicyOK, Left
  <2>5. LockOK'
    <3>1. NoLock \in Lock
      BY DEF NoLock, Lock, Policies
    <3>2. ASSUME Pin(y) PROVE LockOK'
      <4>1. sync[y].policy \in Sessions /\ sync[y].tab \in Tabs
        BY <3>2 DEF Pin, Pinning, SyncOK, RunOK
      <4> QED BY <3>2, <4>1 DEF Pin, LockOK, Lock, Policies
    <3>3. ASSUME Forget(y) \/ Disengage(y) PROVE LockOK'
      BY <3>1, <3>3 DEF Forget, Disengage, LockOK
    <3>4. ASSUME ~Pin(y), ~Forget(y), ~Disengage(y) PROVE UNCHANGED lock
      BY <1>6, <3>4 DEF SyncStep, Fetch, FetchFails, ReleaseCached, StorePolicy, ReadRules, UpdateRules,
         UpdateRejected, ApplyLockdownState, Engage, EngageFails, Sweep
    <3> QED BY <3>2, <3>3, <3>4 DEF LockOK
  <2>6. SyncOK' /\ TabsOK'
    <3>1. CASE Fetch(y) \/ FetchFails(y) \/ ReleaseCached(y)
      <4>1. Effective \in Policies /\ Unexpired(cached) \in Policies /\ Standard \in Policies
        BY DEF Effective, Unexpired, Policies, PolicyOK
      <4>2. SyncOK'
        BY <3>1, <4>1, WithOK DEF Fetch, FetchFails, ReleaseCached
      <4>3. UNCHANGED <<openVars, heard>>
        BY <3>1 DEF Fetch, FetchFails, ReleaseCached
      <4> QED BY <4>2, <4>3, TabsLeft
    <3>2. CASE StorePolicy(y)
      BY <3>2, GoOK, TabsLeft DEF StorePolicy
    <3>3. CASE ReadRules(y)
      <4> DEFINE run == [sync[y] EXCEPT !.step = "update", !.existing = rules]
      <4>1. RunOK(run)
        BY DEF RunOK, SyncOK, Runs, PolicyOK
      <4>2. sync' = [sync EXCEPT ![y] = run] /\ UNCHANGED <<openVars, heard>>
        BY <3>3 DEF ReadRules
      <4> QED BY <4>1, <4>2, RunMoves, TabsLeft
    <3>4. CASE UpdateRules(y)
      <4> DEFINE run == [sync[y] EXCEPT !.step = "apply", !.existing = {}]
      <4>1. RunOK(run)
        BY DEF RunOK, SyncOK, Runs
      <4>2. sync' = [sync EXCEPT ![y] = run] /\ UNCHANGED <<openVars, heard>>
        BY <3>4 DEF UpdateRules
      <4> QED BY <4>1, <4>2, RunMoves, TabsLeft
    <3>5. CASE UpdateRejected(y) \/ EngageFails(y)
      <4>1. Unexpired(cached) \in Policies
        BY DEF Unexpired, Policies, PolicyOK
      <4>2. Throw(y) /\ UNCHANGED <<openVars, heard>>
        BY <3>5 DEF UpdateRejected, EngageFails
      <4>3. SyncOK'
        BY <4>1, <4>2, WithOK, WaitingOK, RunMoves DEF Throw
      <4> QED BY <4>2, <4>3, TabsLeft
    <3>6. CASE ApplyLockdownState(y)
      <4>1. UNCHANGED <<openVars, heard>>
        BY <3>6 DEF ApplyLockdownState
      <4>2. \/ Go(y, "forget") \/ Go(y, "disengage")
            \/ Go(y, "engage") /\ sync[y].policy \in Sessions
            \/ sync' = [sync EXCEPT ![y] = Waiting]
        BY <3>6 DEF ApplyLockdownState, Wants
      <4> QED BY <4>1, <4>2, GoOK, WaitingOK, RunMoves, TabsLeft
    <3>7. CASE Forget(y)
      <4>1. UNCHANGED <<openVars, heard>>
        BY <3>7 DEF Forget
      <4>2. \/ Go(y, "engage") /\ sync[y].policy \in Sessions
            \/ sync' = [sync EXCEPT ![y] = Waiting]
        BY <3>7 DEF Forget, Wants
      <4> QED BY <4>1, <4>2, GoOK, WaitingOK, RunMoves, TabsLeft
    <3>8. CASE Disengage(y)
      <4>1. UNCHANGED <<openVars, heard>> /\ sync' = [sync EXCEPT ![y] = Waiting]
        BY <3>8 DEF Disengage
      <4> QED BY <4>1, WaitingOK, RunMoves, TabsLeft
    <3>9. ASSUME NEW t \in Tabs, Engage(y, t) PROVE SyncOK' /\ TabsOK'
      <4> DEFINE run == [sync[y] EXCEPT !.step = "pin", !.tab = t]
      <4>1. sync[y].policy \in Sessions
        BY <3>9 DEF Engage, SyncOK, RunOK
      <4>2. RunOK(run)
        BY <4>1 DEF RunOK, SyncOK, Runs
      <4>3. SyncOK'
        BY <3>9, <4>2, RunMoves DEF Engage
      <4>4. UNCHANGED heard
        BY <3>9 DEF Engage
      <4>5. CASE UNCHANGED openVars
        BY <4>3, <4>4, <4>5, TabsLeft
      <4>6. CASE ~Referred(t) /\ Opened(t)
        BY <4>3, <4>4, <4>6, TabsOpened
      <4> QED BY <3>9, <4>5, <4>6 DEF Engage, Created
    <3>10. CASE Pin(y)
      <4>1. sync[y].policy \in Sessions /\ sync[y].tab \in Tabs
        BY <3>10 DEF Pin, Pinning, SyncOK, RunOK
      <4>2. UNCHANGED <<openVars, heard>> /\ Go(y, "sweep")
        BY <3>10 DEF Pin
      <4> QED BY <4>1, <4>2, GoOK, TabsLeft
    <3>11. CASE Sweep(y)
      <4>1. UNCHANGED heard /\ sync' = [sync EXCEPT ![y] = Waiting] /\ Gone(tabs \ {sync[y].tab})
        BY <3>11 DEF Sweep
      <4> QED BY <4>1, WaitingOK, RunMoves, TabsGone
    <3> QED BY <1>6, <3>1, <3>2, <3>3, <3>4, <3>5, <3>6, <3>7, <3>8, <3>9, <3>10, <3>11 DEF SyncStep
  <2> QED BY <2>1, <2>2, <2>3, <2>4, <2>5, <2>6
<1>7. ASSUME NEW h \in Listeners, ListenerStep(h) PROVE DeviceInv'
  <2>1. ServerOK' /\ PolicyOK' /\ SyncOK'
    BY <1>7 DEF ListenerStep, HandleTabCreated, HandleLockTabRemoved, HandleWindowCreated, Reopen, ReopenFails, ForgetLock,
         CloseWindow, RemoveTab,
       KeepTab, ServerOK, PolicyOK, SyncOK
  <2>2. FlagsOK'
    <3>1. UNCHANGED <<online, signedIn>>
      BY <1>7 DEF ListenerStep, HandleTabCreated, HandleLockTabRemoved, HandleWindowCreated, Reopen,
         ReopenFails, ForgetLock, CloseWindow, RemoveTab, KeepTab
    <3>2. suppress' \in BOOLEAN
      BY <1>7 DEF ListenerStep, HandleTabCreated, HandleLockTabRemoved, HandleWindowCreated, Reopen,
         ReopenFails, ForgetLock, CloseWindow, RemoveTab, KeepTab, FlagsOK
    <3>3. astray' \in BOOLEAN /\ windowless' \in BOOLEAN
      BY <1>7 DEF ListenerStep, HandleTabCreated, HandleLockTabRemoved, HandleWindowCreated, Reopen,
         ReopenFails, ForgetLock, CloseWindow, RemoveTab, KeepTab, FlagsOK
    <3>4. happens' \in 0 .. MaxHappens
      <4>1. Happen => happens' \in 0 .. MaxHappens
        BY HappensAreNat DEF Happen, FlagsOK
      <4>2. Happen \/ UNCHANGED happens
        BY <1>7 DEF ListenerStep, HandleTabCreated, HandleLockTabRemoved, HandleWindowCreated, Reopen,
         ReopenFails, ForgetLock, CloseWindow, RemoveTab, KeepTab, Created
      <4> QED BY <4>1, <4>2 DEF FlagsOK
    <3> QED BY <3>1, <3>2, <3>3, <3>4 DEF FlagsOK
  <2>3. LockOK'
    <3>1. NoLock \in Lock
      BY DEF NoLock, Lock, Policies
    <3>2. ASSUME KeepTab(h) PROVE LockOK'
      <4>1. heard[h].step = "keep" /\ lock' = Kept(h)
        BY <3>2 DEF KeepTab
      <4>2. heard[h].seen \in Lock /\ heard[h].seen.session \in Sessions /\ heard[h].tab \in Tabs
        BY <4>1 DEF HeardOK, HearingOK, Hearings
      <4> QED BY <4>1, <4>2 DEF Kept, LockOK, Lock
    <3>3. ASSUME ~KeepTab(h) PROVE lock' \in {lock, NoLock}
      BY <1>7, <3>3 DEF ListenerStep, HandleTabCreated, HandleLockTabRemoved, HandleWindowCreated, Reopen, ReopenFails, ForgetLock,
         CloseWindow, RemoveTab
    <3> QED BY <3>1, <3>2, <3>3 DEF LockOK
  <2>4. ASSUME heard' = [heard EXCEPT ![h] = Quiet]
        PROVE  /\ HeardOK'
               /\ \A k \in Listeners : heard'[k].step = "reopen" =>
                    heard[k].step = "reopen" /\ heard'[k].seen = heard[k].seen
    <3>1. HeardOK'
      BY <2>4, QuietOK, ListenerMoves
    <3>2. heard'[h] = Quiet /\ \A k \in Listeners \ {h} : heard'[k] = heard[k]
      BY <2>4 DEF HeardOK
    <3> QED BY <3>1, <3>2 DEF Quiet
  <2>5. HeardOK' /\ TabsOK'
    <3>1. ASSUME NEW t \in Tabs, HandleTabCreated(h, t) PROVE HeardOK' /\ TabsOK'
      <4>1. /\ news # <<>> /\ Head(news) = <<"created", t>> /\ news' = Tail(news)
            /\ UNCHANGED <<tabs, home>>
            /\ \/ UNCHANGED heard
               \/ lock # NoLock /\ (Hear(h, "forget", t) \/ Hear(h, "keep", t) \/ Hear(h, "remove", t))
        BY <3>1 DEF HandleTabCreated
      <4>2. HeardOK'
        <5>1. CASE UNCHANGED heard
          BY <5>1 DEF HeardOK
        <5> QED BY <4>1, <5>1, HearOK
      <4>3. NewsOK' /\ InOrder' /\ \A u : Coming("removed", u)' => Coming("removed", u)
        BY <4>1, HeardNews DEF TabsOK
      <4>4. \A k \in Listeners : heard'[k].step = "reopen" => heard'[k] = heard[k]
        BY <4>1 DEF Hear, HeardOK
      <4>5. ClosedStay'
        BY <4>1, <4>3, <4>4 DEF TabsOK, ClosedStay
      <4> QED BY <4>1, <4>2, <4>3, <4>5 DEF TabsOK
    <3>2. ASSUME NEW t \in Tabs, HandleLockTabRemoved(h, t) PROVE HeardOK' /\ TabsOK'
      <4>1. /\ news # <<>> /\ Head(news) = <<"removed", t>> /\ news' = Tail(news)
            /\ UNCHANGED <<tabs, home>>
            /\ \/ UNCHANGED heard
               \/ lock # NoLock /\ Hear(h, "forget", t)
               \/ lock # NoLock /\ lock.tab = t /\ Hear(h, "reopen", t)
        BY <3>2 DEF HandleLockTabRemoved
      <4>2. HeardOK'
        <5>1. CASE UNCHANGED heard
          BY <5>1 DEF HeardOK
        <5> QED BY <4>1, <5>1, HearOK
      <4>3. /\ NewsOK' /\ InOrder' /\ Coming("removed", t)
            /\ \A u : Coming("removed", u)' => Coming("removed", u)
        BY <4>1, HeardNews DEF TabsOK
      <4>4. \A k \in Listeners : heard'[k].step = "reopen" =>
               heard'[k] = heard[k] \/ heard'[k].seen.tab = t
        BY <4>1 DEF Hear, HeardOK
      <4>5. t \notin tabs
        BY <4>3 DEF TabsOK, ClosedStay
      <4>6. ClosedStay'
        BY <4>1, <4>3, <4>4, <4>5 DEF TabsOK, ClosedStay
      <4> QED BY <4>1, <4>2, <4>3, <4>6 DEF TabsOK
    <3>6. ASSUME NEW t \in Tabs, HandleWindowCreated(h, t) PROVE HeardOK' /\ TabsOK'
      <4>1. /\ news # <<>> /\ Head(news) = <<"window", t>> /\ news' = Tail(news)
            /\ UNCHANGED <<tabs, home>>
            /\ \/ UNCHANGED heard
               \/ lock # NoLock /\ (Hear(h, "forget", t) \/ Hear(h, "close", t))
        BY <3>6 DEF HandleWindowCreated
      <4>2. HeardOK'
        <5>1. CASE UNCHANGED heard
          BY <5>1 DEF HeardOK
        <5> QED BY <4>1, <5>1, HearOK
      <4>3. NewsOK' /\ InOrder' /\ \A u : Coming("removed", u)' => Coming("removed", u)
        BY <4>1, HeardNews DEF TabsOK
      <4>4. \A k \in Listeners : heard'[k].step = "reopen" => heard'[k] = heard[k]
        BY <4>1 DEF Hear, HeardOK
      <4>5. ClosedStay'
        BY <4>1, <4>3, <4>4 DEF TabsOK, ClosedStay
      <4> QED BY <4>1, <4>2, <4>3, <4>5 DEF TabsOK
    <3>3. ASSUME NEW t \in Tabs, Reopen(h, t) PROVE HeardOK' /\ TabsOK'
      <4> DEFINE hearing == [heard[h] EXCEPT !.step = "keep", !.tab = t]
      <4>1. HearingOK(hearing)
        BY <3>3 DEF Reopen, HearingOK, HeardOK, Hearings
      <4>2. heard' = [heard EXCEPT ![h] = hearing] /\ ~Referred(t) /\ Opened(t)
        BY <3>3 DEF Reopen, Created
      <4>3. HeardOK'
        BY <4>1, <4>2, ListenerMoves
      <4>4. \A k \in Listeners : heard'[k].step = "reopen" => heard'[k] = heard[k]
        BY <4>2 DEF HeardOK, Hearings
      <4> QED BY <4>2, <4>3, <4>4, TabsOpened
    <3>4. ASSUME RemoveTab(h) \/ CloseWindow(h) PROVE HeardOK' /\ TabsOK'
      <4>1. heard' = [heard EXCEPT ![h] = Quiet] /\ \E some : Gone(some)
        BY <3>4 DEF RemoveTab, CloseWindow
      <4> QED BY <2>4, <4>1, TabsGone
    <3>5. ASSUME ForgetLock(h) \/ KeepTab(h) \/ ReopenFails(h) PROVE HeardOK' /\ TabsOK'
      <4>1. UNCHANGED <<tabs, home, news>> /\ heard' = [heard EXCEPT ![h] = Quiet]
        BY <3>5 DEF ForgetLock, KeepTab, ReopenFails, openVars
      <4>2. NewsOK' /\ InOrder' /\ \A u : Coming("removed", u)' => Coming("removed", u)
        BY <4>1 DEF TabsOK, NewsOK, InOrder, Coming
      <4>3. ClosedStay'
        BY <2>4, <4>1, <4>2 DEF TabsOK, ClosedStay
      <4> QED BY <2>4, <4>1, <4>2, <4>3 DEF TabsOK
    <3> QED BY <1>7, <3>1, <3>2, <3>3, <3>4, <3>5, <3>6 DEF ListenerStep
  <2> QED BY <2>1, <2>2, <2>3, <2>5
<1> QED BY <1>1, <1>2, <1>3, <1>4, <1>5, <1>6, <1>7 DEF LockdownNext, WorkerSteps, TabSteps

LEMMA DeviceAlways == LockdownSpec => []DeviceInv
BY DeviceInit, DeviceKept, PTL DEF LockdownSpec

\* The table of lockdowns, what a device keeps and what its runs and listeners carry keep
\* their shape: a lock names a test and a tab, never a policy of another mode.
THEOREM LockdownTypeCorrect == LockdownSpec => []LockdownTypeOK
BY DeviceAlways, DeviceHasType, PTL

-----------------------------------------------------------------------------
(* The device is held to one tab.                                          *)

SomePinning == \E y \in Syncs : Pinning(y)
SomeReplacing == \E h \in Listeners : Replacing(h)

\* A run or a listener is about to take the lock off.
Unlocking ==
  \/ \E h \in Listeners : heard[h].step = "forget"
  \/ \E y \in Syncs : sync[y].step \in {"forget", "disengage"}

\* A tab is open, or the news that it was closed is still to be heard.
Known(t) == t \in tabs \/ Coming("removed", t)

\* Somebody is going to close the tab, or to hear that it was opened.
Accounted(t) ==
  \/ Coming("created", t)
  \/ \E h \in Listeners : heard[h].step = "remove" /\ heard[h].tab = t
  \/ \E y \in Syncs : sync[y].step = "sweep" /\ sync[y].tab # t

\* The tab that is to be stored has not been lost sight of ...
PinKnown == \A y \in Syncs : Pinning(y) => Known(sync[y].tab)
KeptKnown == \A h \in Listeners : heard[h].step = "keep" => Known(heard[h].tab)

\* ... and the lock is the one that was read, or it is off, or another listener has put
\* the same tab in its place.
SeenStands ==
  \A h \in Listeners : Replacing(h) =>
     lock \in {heard[h].seen, NoLock} \/ (heard[h].step = "keep" /\ lock = Kept(h))

\* While the next tab is taken for the guard's own, the guard's own is still to come.
PinAwaited ==
  suppress => \A y \in Syncs : Pinning(y) /\ sync[y].tab \in tabs =>
                 Coming("created", sync[y].tab) \/ SomeReplacing
KeptAwaited ==
  suppress => \A h \in Listeners : heard[h].step = "keep" /\ heard[h].tab \in tabs =>
                 Coming("created", heard[h].tab) \/ SomePinning \/ OtherReplaces(h)
LockAwaited ==
  suppress /\ lock # NoLock /\ lock.tab \in tabs =>
     Coming("created", lock.tab) \/ SomePinning \/ SomeReplacing \/ Unlocking

\* A lock tab that is open and is being replaced is going to be closed.
SeenAccounted ==
  \A h \in Listeners :
     heard[h].step = "keep" /\ lock = heard[h].seen /\ lock.tab \in tabs /\ lock.tab # heard[h].tab =>
        Accounted(lock.tab) \/ SomePinning \/ OtherReplaces(h) \/ Unlocking

\* The lock tab is open, or somebody will find that it is not, or has found it when no
\* window was left to open another in; then it stays closed ...
LockKnown ==
  lock # NoLock => Known(lock.tab) \/ SomePinning \/ SomeReplacing \/ Unlocking \/ windowless
ShutStays == windowless /\ lock # NoLock => lock.tab \notin tabs

\* ... and every other open tab is going to be closed, or to be the lock tab.
OthersAccounted ==
  lock # NoLock => \A t \in tabs \ {lock.tab} :
     \/ Accounted(t) \/ SomePinning \/ Unlocking
     \/ \E h \in Listeners : heard[h].step = "keep" /\ heard[h].tab = t

Guarded == PinKnown /\ KeptKnown /\ SeenStands /\ PinAwaited /\ KeptAwaited /\ LockAwaited
           /\ SeenAccounted /\ LockKnown /\ ShutStays /\ OthersAccounted
GuardInv == astray \/ Guarded

\* At rest nothing is pinned, replaced, taken off or still to come.
LEMMA AtRestOneTab == DeviceInv /\ GuardInv => OneTab
<1> SUFFICES ASSUME DeviceInv, GuardInv, ~Busy, news = <<>>, lock # NoLock, ~astray
             PROVE  tabs = IF windowless THEN {} ELSE {lock.tab}
  BY DEF OneTab
<1>1. \A k, u : ~Coming(k, u)
  <2>1. Len(news) = 0
    OBVIOUS
  <2> QED BY <2>1 DEF Coming
<1>2. (\A y \in Syncs : sync[y].step = "idle") /\ (\A h \in Listeners : heard[h].step = "idle")
  BY DEF Busy, Waiting, Quiet
<1>3. ~SomePinning /\ ~SomeReplacing /\ ~Unlocking /\ \A t : ~Accounted(t)
  BY <1>1, <1>2 DEF SomePinning, SomeReplacing, Unlocking, Accounted, Pinning, Replacing
<1>4. ~windowless => lock.tab \in tabs
  BY <1>1, <1>3 DEF GuardInv, Guarded, LockKnown, Known
<1>5. windowless => lock.tab \notin tabs
  BY DEF GuardInv, Guarded, ShutStays
<1>6. \A t \in tabs : t = lock.tab
  BY <1>2, <1>3 DEF GuardInv, Guarded, OthersAccounted
<1>7. CASE windowless
  BY <1>5, <1>6, <1>7
<1>8. CASE ~windowless
  BY <1>4, <1>6, <1>8
<1> QED BY <1>7, <1>8

\* Steps that leave the lock, and whoever is about to store it, alone: nothing gets out of
\* sight, and a tab is only closed, or left to somebody.
LEMMA StaysGuarded ==
  ASSUME Guarded, UNCHANGED <<lock, suppress, windowless>>, tabs' \subseteq tabs,
         \A u : Known(u) => Known(u)',
         \A u : Coming("created", u) => Coming("created", u)',
         \A u \in tabs' : Accounted(u) => Accounted(u)',
         Unlocking => Unlocking',
         \A y \in Syncs : Pinning(y)' <=> Pinning(y),
         \A y \in Syncs : Pinning(y) => sync'[y] = sync[y],
         \A h \in Listeners : Replacing(h)' <=> Replacing(h),
         \A h \in Listeners : Replacing(h) => heard'[h] = heard[h]
  PROVE  Guarded'
<1> USE DEF Guarded
<1>1. (SomePinning' <=> SomePinning) /\ (SomeReplacing' <=> SomeReplacing)
  BY DEF SomePinning, SomeReplacing
<1>2. \A h \in Listeners : Replacing(h) /\ OtherReplaces(h) => OtherReplaces(h)'
  BY DEF OtherReplaces
<1>3. \A h \in Listeners : (heard'[h].step = "keep" <=> heard[h].step = "keep")
                           /\ (heard[h].step = "keep" => Replacing(h))
                           /\ (heard[h].step = "keep" => heard'[h] = heard[h])
  BY DEF Replacing
<1>4. PinKnown'
  BY DEF PinKnown
<1>5. KeptKnown'
  BY <1>3 DEF KeptKnown
<1>6. SeenStands'
  BY <1>3 DEF SeenStands, Kept
<1>7. PinAwaited'
  BY <1>1 DEF PinAwaited
<1>8. KeptAwaited'
  BY <1>1, <1>2, <1>3 DEF KeptAwaited
<1>9. LockAwaited'
  BY <1>1 DEF LockAwaited
<1>10. SeenAccounted'
  BY <1>1, <1>2, <1>3 DEF SeenAccounted
<1>11. LockKnown' /\ ShutStays'
  BY <1>1 DEF LockKnown, ShutStays
<1>12. OthersAccounted'
  BY <1>1, <1>3 DEF OthersAccounted
<1> QED BY <1>4, <1>5, <1>6, <1>7, <1>8, <1>9, <1>10, <1>11, <1>12

\* The lock is taken off: what was said of it is void, and the others go on as they were.
LEMMA UnlockedGuarded ==
  ASSUME Guarded, HeardOK, lock' = NoLock, UNCHANGED <<suppress, tabs, news>>,
         \A y \in Syncs : Pinning(y)' <=> Pinning(y),
         \A y \in Syncs : Pinning(y) => sync'[y] = sync[y],
         \A h \in Listeners : Replacing(h)' <=> Replacing(h),
         \A h \in Listeners : Replacing(h) => heard'[h] = heard[h]
  PROVE  Guarded'
<1> USE DEF Guarded
<1>1. (SomePinning' <=> SomePinning) /\ (SomeReplacing' <=> SomeReplacing)
  BY DEF SomePinning, SomeReplacing
<1>2. \A h \in Listeners : Replacing(h) /\ OtherReplaces(h) => OtherReplaces(h)'
  BY DEF OtherReplaces
<1>3. \A h \in Listeners : (heard'[h].step = "keep" <=> heard[h].step = "keep")
                           /\ (heard[h].step = "keep" => Replacing(h))
                           /\ (heard[h].step = "keep" => heard'[h] = heard[h])
  BY DEF Replacing
<1>4. (\A k, u : Coming(k, u)' <=> Coming(k, u)) /\ (\A u : Known(u)' <=> Known(u))
  BY DEF Coming, Known
<1>5. \A h \in Listeners : Replacing(h) => heard[h].seen # NoLock
  BY StandardIsNoTest DEF Replacing, HeardOK, HearingOK, NoLock
<1>6. PinKnown' /\ KeptKnown'
  BY <1>3, <1>4 DEF PinKnown, KeptKnown
<1>7. SeenStands'
  BY DEF SeenStands
<1>8. PinAwaited' /\ KeptAwaited'
  BY <1>1, <1>2, <1>3, <1>4 DEF PinAwaited, KeptAwaited
<1>9. SeenAccounted'
  BY <1>3, <1>5 DEF SeenAccounted, Replacing
<1>10. LockAwaited' /\ LockKnown' /\ ShutStays' /\ OthersAccounted'
  BY DEF LockAwaited, LockKnown, ShutStays, OthersAccounted
<1> QED BY <1>6, <1>7, <1>8, <1>9, <1>10

\* Nothing refers to a tab that is new.
LEMMA NewTab ==
  ASSUME NewsOK, NEW t, ~Referred(t)
  PROVE  /\ t \notin tabs /\ lock.tab # t /\ \A k : ~Coming(k, t)
         /\ \A y \in Syncs : sync[y].tab # t
         /\ \A h \in Listeners : heard[h].tab # t /\ heard[h].seen.tab # t
<1>1. ASSUME NEW k, NEW i \in 1 .. Len(news), news[i] = <<k, t>> PROVE FALSE
  <2>1. i \in DOMAIN news
    BY LenProperties DEF NewsOK
  <2> QED BY <1>1, <2>1 DEF Referred
<1> QED BY <1>1 DEF Referred, Coming

\* The student opens a tab: its creation is news.
LEMMA OpenTabGuarded ==
  ASSUME DeviceInv, Guarded, NEW t \in Tabs, OpenTab(t)
  PROVE  Guarded'
<1> USE DEF Guarded
<1>1. /\ tabs' = tabs \cup {t} /\ UNCHANGED <<lock, suppress, sync, heard, windowless>>
      /\ Opened(t) /\ ~Referred(t)
  BY DEF OpenTab, Opened, historyVars
<1>2. /\ \A u : Coming("created", u)' <=> Coming("created", u) \/ u = t
      /\ \A u : Coming("removed", u)' <=> Coming("removed", u)
  BY <1>1, OpenedNews DEF DeviceInv, TabsOK
<1>3. /\ t \notin tabs /\ lock.tab # t
      /\ \A y \in Syncs : sync[y].tab # t
      /\ \A h \in Listeners : heard[h].tab # t
  BY <1>1, NewTab DEF DeviceInv, TabsOK
<1>4. \A u : Known(u) => Known(u)'
  BY <1>1, <1>2 DEF Known
<1>5. (\A u : Accounted(u) => Accounted(u)') /\ Accounted(t)'
  BY <1>1, <1>2 DEF Accounted
<1>6. /\ SomePinning' <=> SomePinning
      /\ SomeReplacing' <=> SomeReplacing
      /\ Unlocking' <=> Unlocking
      /\ \A h \in Listeners : OtherReplaces(h)' <=> OtherReplaces(h)
      /\ \A y \in Syncs : Pinning(y)' <=> Pinning(y)
  BY <1>1 DEF SomePinning, SomeReplacing, Unlocking, OtherReplaces, Pinning, Replacing
<1>7. PinKnown' /\ KeptKnown'
  BY <1>1, <1>4, <1>6 DEF PinKnown, KeptKnown
<1>8. SeenStands'
  BY <1>1 DEF SeenStands, Replacing, Kept
<1>9. PinAwaited' /\ KeptAwaited'
  BY <1>1, <1>2, <1>3, <1>6 DEF PinAwaited, KeptAwaited
<1>10. LockAwaited'
  BY <1>1, <1>2, <1>3, <1>6 DEF LockAwaited
<1>11. SeenAccounted'
  BY <1>1, <1>3, <1>5, <1>6 DEF SeenAccounted
<1>12. LockKnown' /\ ShutStays' /\ OthersAccounted'
  BY <1>1, <1>3, <1>4, <1>5, <1>6 DEF LockKnown, ShutStays, OthersAccounted
<1> QED BY <1>7, <1>8, <1>9, <1>10, <1>11, <1>12

\* A run chooses the tab: until it has stored it, it answers for everything else.
LEMMA EngageGuarded ==
  ASSUME DeviceInv, Guarded, NEW y \in Syncs, NEW t \in Tabs, Engage(y, t)
  PROVE  Guarded'
<1> USE DEF Guarded
<1>1. /\ UNCHANGED <<lock, heard, windowless>> /\ suppress' = (tabs = {})
      /\ sync' = [sync EXCEPT ![y].step = "pin", ![y].tab = t]
      /\ \/ t \in tabs /\ UNCHANGED <<tabs, news>>
         \/ tabs = {} /\ ~Referred(t) /\ Opened(t)
  BY DEF Engage, Created, openVars, historyVars
<1>2. /\ sync'[y].step = "pin" /\ sync'[y].tab = t
      /\ \A z \in Syncs \ {y} : sync'[z] = sync[z]
  BY <1>1 DEF DeviceInv, SyncOK, Runs
<1>3. SomePinning'
  BY <1>2 DEF SomePinning, Pinning
<1>4. /\ t \in tabs' /\ (suppress' => tabs' = {t} /\ Coming("created", t)')
      /\ \A u : Known(u) => Known(u)'
  <2>1. CASE t \in tabs /\ UNCHANGED <<tabs, news>>
    BY <1>1, <2>1 DEF Known, Coming
  <2>2. CASE tabs = {} /\ ~Referred(t) /\ Opened(t)
    <3>1. /\ \A u : Coming("created", u)' <=> Coming("created", u) \/ u = t
          /\ \A u : Coming("removed", u)' <=> Coming("removed", u)
      BY <2>2, OpenedNews DEF DeviceInv, TabsOK
    <3> QED BY <2>2, <3>1 DEF Known, Opened
  <2> QED BY <1>1, <2>1, <2>2
<1>5. PinKnown'
  BY <1>2, <1>4 DEF PinKnown, Pinning, Known
<1>6. KeptKnown'
  BY <1>1, <1>4 DEF KeptKnown
<1>7. SeenStands'
  BY <1>1 DEF SeenStands, Replacing, Kept
<1>8. PinAwaited'
  BY <1>4 DEF PinAwaited
<1>9. ShutStays'
  <2>1. CASE t \in tabs /\ UNCHANGED <<tabs, news>>
    BY <2>1, <1>1 DEF ShutStays
  <2>2. CASE ~Referred(t) /\ Opened(t)
    <3>1. lock.tab # t /\ tabs' = tabs \cup {t}
      BY <2>2, NewTab DEF DeviceInv, TabsOK, Opened
    <3> QED BY <3>1, <1>1 DEF ShutStays
  <2> QED BY <1>1, <2>1, <2>2
<1> QED
  BY <1>3, <1>5, <1>6, <1>7, <1>8, <1>9
  DEF KeptAwaited, LockAwaited, SeenAccounted, LockKnown, OthersAccounted

\* A run stores the lock, no listener replacing one: its sweep answers for the other tabs.
LEMMA PinGuarded ==
  ASSUME DeviceInv, Guarded, NEW y \in Syncs, Pin(y), ~astray'
  PROVE  Guarded'
<1> USE DEF Guarded
<1>1. /\ Pinning(y) /\ lock' = [session |-> sync[y].policy, tab |-> sync[y].tab]
      /\ sync' = [sync EXCEPT ![y].step = "sweep"]
      /\ UNCHANGED <<tabs, news, suppress, heard>> /\ windowless' = FALSE
      /\ \A h \in Listeners : ~Replacing(h)
  BY DEF Pin, Go, tabVars, openVars
<1>2. /\ sync'[y].step = "sweep" /\ sync'[y].tab = sync[y].tab
      /\ \A z \in Syncs \ {y} : sync'[z] = sync[z]
      /\ lock'.tab = sync[y].tab
  BY <1>1 DEF DeviceInv, SyncOK, Runs
<1>3. \A z \in Syncs : Pinning(z)' => Pinning(z) /\ sync'[z] = sync[z]
  BY <1>2 DEF Pinning
<1>4. (\A k, u : Coming(k, u)' <=> Coming(k, u)) /\ (\A u : Known(u)' <=> Known(u))
  BY <1>1 DEF Coming, Known
<1>5. ~SomeReplacing /\ \A h \in Listeners : heard'[h].step \notin {"reopen", "keep"}
  BY <1>1 DEF SomeReplacing, Replacing
<1>6. PinKnown'
  BY <1>3, <1>4 DEF PinKnown
<1>7. KeptKnown' /\ SeenStands' /\ KeptAwaited' /\ SeenAccounted'
  BY <1>5 DEF KeptKnown, SeenStands, KeptAwaited, SeenAccounted, Replacing
<1>8. PinAwaited'
  BY <1>1, <1>3, <1>4, <1>5 DEF PinAwaited
<1>9. LockAwaited'
  BY <1>1, <1>2, <1>4, <1>5 DEF LockAwaited, PinAwaited
<1>10. LockKnown' /\ ShutStays'
  BY <1>1, <1>2, <1>4 DEF LockKnown, PinKnown, ShutStays
<1>11. OthersAccounted'
  BY <1>2 DEF OthersAccounted, Accounted
<1> QED BY <1>6, <1>7, <1>8, <1>9, <1>10, <1>11

\* The tab of a listener at rest is nobody's: what it takes up is added to what there is.
LEMMA TakesUp ==
  ASSUME HeardOK, NEW h \in Listeners, heard[h] = Quiet, UNCHANGED sync,
         \A k \in Listeners \ {h} : heard'[k] = heard[k]
  PROVE  /\ SomePinning' <=> SomePinning
         /\ SomeReplacing => SomeReplacing'
         /\ Unlocking => Unlocking'
         /\ ~Replacing(h) /\ heard[h].step = "idle"
         /\ \A k \in Listeners \ {h} : OtherReplaces(k) => OtherReplaces(k)'
         /\ \A u : Accounted(u) => Accounted(u)' \/ Coming("created", u)
<1>1. heard[h].step = "idle" /\ ~Replacing(h)
  BY DEF Quiet, Replacing
<1>2. SomePinning' <=> SomePinning
  BY DEF SomePinning, Pinning
<1>3. SomeReplacing => SomeReplacing'
  BY <1>1 DEF SomeReplacing, Replacing
<1>4. Unlocking => Unlocking'
  BY <1>1 DEF Unlocking
<1>5. \A k \in Listeners \ {h} : OtherReplaces(k) => OtherReplaces(k)'
  BY <1>1 DEF OtherReplaces, Replacing
<1>6. \A u : Accounted(u) => Accounted(u)' \/ Coming("created", u)
  BY <1>1 DEF Accounted
<1> QED BY <1>1, <1>2, <1>3, <1>4, <1>5, <1>6

\* A listener hears that a tab was opened: from then on it answers for that tab.
LEMMA CreatedGuarded ==
  ASSUME DeviceInv, Guarded, NEW h \in Listeners, NEW t \in Tabs, HandleTabCreated(h, t)
  PROVE  Guarded'
<1> USE DEF Guarded
<1>1. /\ heard[h] = Quiet /\ news # <<>> /\ Head(news) = <<"created", t>> /\ news' = Tail(news)
      /\ suppress' = FALSE /\ UNCHANGED <<lock, tabs, sync, windowless>>
      /\ IF lock = NoLock THEN UNCHANGED heard
         ELSE \/ Hear(h, "forget", t)
              \/ suppress /\ Hear(h, "keep", t)
              \/ Hear(h, "remove", t)
  BY DEF HandleTabCreated, historyVars
<1>2. /\ \A k \in Listeners \ {h} : heard'[k] = heard[k]
      /\ \/ lock = NoLock /\ heard'[h] = heard[h]
         \/ lock # NoLock /\ heard'[h] = [step |-> "forget", tab |-> t, seen |-> lock]
         \/ lock # NoLock /\ suppress /\ heard'[h] = [step |-> "keep", tab |-> t, seen |-> lock]
         \/ lock # NoLock /\ heard'[h] = [step |-> "remove", tab |-> t, seen |-> lock]
  BY <1>1 DEF Hear, DeviceInv, HeardOK
<1>3. /\ \A u : Coming("removed", u) => Coming("removed", u)'
      /\ \A u : Coming("created", u) => Coming("created", u)' \/ u = t
      /\ t \in tabs \/ Coming("removed", t)'
  BY <1>1, HeardNews DEF DeviceInv, TabsOK
<1>4. (\A u : Known(u) => Known(u)') /\ Known(t)'
  BY <1>1, <1>3 DEF Known
<1>5. /\ SomePinning' <=> SomePinning
      /\ SomeReplacing => SomeReplacing'
      /\ Unlocking => Unlocking'
      /\ ~Replacing(h) /\ heard[h].step = "idle"
      /\ \A k \in Listeners \ {h} : OtherReplaces(k) => OtherReplaces(k)'
      /\ \A u : Accounted(u) => Accounted(u)' \/ Coming("created", u)
  BY <1>1, <1>2, TakesUp DEF DeviceInv
<1>6. \A u : Accounted(u) => Accounted(u)' \/ u = t
  BY <1>3, <1>5 DEF Accounted
<1>7. PinKnown'
  BY <1>1, <1>4 DEF PinKnown, Pinning
<1>8. KeptKnown'
  BY <1>2, <1>4, <1>5 DEF KeptKnown
<1>9. SeenStands'
  <2> SUFFICES ASSUME NEW k \in Listeners, Replacing(k)'
               PROVE  \/ lock' \in {heard'[k].seen, NoLock}
                      \/ heard'[k].step = "keep" /\ lock' = Kept(k)'
    BY DEF SeenStands
  <2>1. CASE k = h
    BY <1>1, <1>2, <1>5, <2>1 DEF Replacing
  <2>2. CASE k # h
    BY <1>1, <1>2, <2>2 DEF SeenStands, Replacing, Kept
  <2> QED BY <2>1, <2>2
<1>10. PinAwaited' /\ KeptAwaited' /\ LockAwaited'
  BY <1>1 DEF PinAwaited, KeptAwaited, LockAwaited
<1>11. SeenAccounted'
  <2> SUFFICES ASSUME NEW k \in Listeners, heard'[k].step = "keep", lock = heard'[k].seen,
                      lock.tab \in tabs, lock.tab # heard'[k].tab,
                      ~SomePinning, ~OtherReplaces(k)', ~Unlocking'
               PROVE  Accounted(lock.tab)'
    BY <1>1, <1>5 DEF SeenAccounted
  <2>1. CASE k # h
    <3>1. heard[k].step = "keep" /\ lock = heard[k].seen /\ lock.tab # heard[k].tab
      BY <1>2, <2>1
    <3>2. Accounted(lock.tab)
      BY <3>1, <2>1, <1>5 DEF SeenAccounted
    <3>3. CASE lock.tab = t
      <4>1. CASE lock = NoLock
        BY <3>3, <4>1, NoTabIsNone DEF NoLock
      <4>2. CASE heard'[h].step = "forget"
        BY <4>2 DEF Unlocking
      <4>3. CASE heard'[h].step = "keep" /\ heard'[h].tab = t
        BY <4>3, <3>1, <3>3, <2>1, <1>2 DEF OtherReplaces, Replacing
      <4>4. CASE heard'[h].step = "remove" /\ heard'[h].tab = t
        BY <4>4, <3>3, <1>1 DEF Accounted
      <4>5. CASE lock # NoLock
        <5>1. heard'[h].tab = t /\ heard'[h].step \in {"forget", "keep", "remove"}
          BY <4>5, <1>2
        <5> QED BY <5>1, <4>2, <4>3, <4>4
      <4> QED BY <4>1, <4>5
    <3> QED BY <3>2, <3>3, <1>1, <1>6
  <2>2. CASE k = h
    <3>1. suppress /\ lock # NoLock /\ heard'[h].tab = t /\ lock.tab # t
      BY <2>2, <1>2, <1>5
    <3>2. ASSUME NEW m \in Listeners, Replacing(m)
          PROVE  m # h /\ heard[m].step = "keep" /\ heard[m].tab = t /\ heard'[m] = heard[m]
      BY <3>1, <3>2, <2>2, <1>2, <1>5 DEF OtherReplaces, Replacing
    <3>3. ASSUME NEW m \in Listeners, Replacing(m) PROVE Accounted(lock.tab)
      <4>1. lock = heard[m].seen
        BY <3>1, <3>2, <3>3 DEF SeenStands, Kept, DeviceInv, HeardOK, Hearings, Lock
      <4>2. ~OtherReplaces(m)
        BY <3>2, <3>3 DEF OtherReplaces
      <4> QED BY <3>1, <3>2, <3>3, <4>1, <4>2, <1>5 DEF SeenAccounted
    <3>4. CASE SomeReplacing
      BY <3>1, <3>3, <3>4, <1>1, <1>6 DEF SomeReplacing
    <3>5. CASE ~SomeReplacing
      <4>1. Coming("created", lock.tab)
        BY <3>1, <3>5, <1>5 DEF LockAwaited
      <4> QED BY <3>1, <4>1, <1>1, <1>3 DEF Accounted
    <3> QED BY <3>4, <3>5
  <2> QED BY <2>1, <2>2
<1>12. LockKnown' /\ ShutStays'
  BY <1>1, <1>4, <1>5 DEF LockKnown, ShutStays
<1>13. OthersAccounted'
  <2> SUFFICES ASSUME lock # NoLock, NEW u \in tabs \ {lock.tab}
               PROVE  \/ Accounted(u)' \/ SomePinning' \/ Unlocking'
                      \/ \E k \in Listeners : heard'[k].step = "keep" /\ heard'[k].tab = u
    BY <1>1 DEF OthersAccounted
  <2>1. CASE u = t
    BY <2>1, <1>2 DEF Accounted, Unlocking
  <2>2. CASE u # t
    BY <2>2, <1>2, <1>5, <1>6 DEF OthersAccounted
  <2> QED BY <2>1, <2>2
<1> QED BY <1>7, <1>8, <1>9, <1>10, <1>11, <1>12, <1>13

\* A listener hears that a tab was closed: if it is the lock tab, it acts on it.
LEMMA RemovedGuarded ==
  ASSUME DeviceInv, Guarded, NEW h \in Listeners, NEW t \in Tabs, HandleLockTabRemoved(h, t), ~astray'
  PROVE  Guarded'
<1> USE DEF Guarded
<1>1. /\ heard[h] = Quiet /\ news # <<>> /\ Head(news) = <<"removed", t>> /\ news' = Tail(news)
      /\ UNCHANGED <<lock, tabs, suppress, sync, windowless>>
      /\ \/ UNCHANGED heard /\ (lock = NoLock \/ lock.tab # t)
         \/ lock # NoLock /\ (Hear(h, "forget", t) \/ Hear(h, "reopen", t))
      /\ \A y \in Syncs : Pinning(y) => sync[y].tab # t
      /\ \A k \in Listeners : heard[k].step = "keep" => heard[k].tab # t
  BY DEF HandleLockTabRemoved
<1>2. /\ \A k \in Listeners \ {h} : heard'[k] = heard[k]
      /\ \/ (lock = NoLock \/ lock.tab # t) /\ heard'[h] = heard[h]
         \/ lock # NoLock /\ heard'[h] = [step |-> "forget", tab |-> t, seen |-> lock]
         \/ lock # NoLock /\ heard'[h] = [step |-> "reopen", tab |-> t, seen |-> lock]
  BY <1>1 DEF Hear, DeviceInv, HeardOK
<1>3. /\ \A u : Coming("removed", u) => Coming("removed", u)' \/ u = t
      /\ \A u : Coming("created", u) => Coming("created", u)'
  BY <1>1, HeardNews DEF DeviceInv, TabsOK
<1>4. \A u : Known(u) => Known(u)' \/ u = t
  BY <1>1, <1>3 DEF Known
<1>5. /\ SomePinning' <=> SomePinning
      /\ SomeReplacing => SomeReplacing'
      /\ Unlocking => Unlocking'
      /\ ~Replacing(h) /\ heard[h].step = "idle"
      /\ \A k \in Listeners \ {h} : OtherReplaces(k) => OtherReplaces(k)'
      /\ \A u : Accounted(u) => Accounted(u)' \/ Coming("created", u)
  BY <1>1, <1>2, TakesUp DEF DeviceInv
<1>6. \A u : Accounted(u) => Accounted(u)'
  BY <1>3, <1>5 DEF Accounted
<1>7. \A k \in Listeners : heard'[k].step = "keep" =>
         k # h /\ heard[k].step = "keep" /\ heard'[k] = heard[k]
  BY <1>2, <1>5
<1>8. PinKnown'
  BY <1>1, <1>4 DEF PinKnown, Pinning
<1>9. KeptKnown'
  BY <1>1, <1>4, <1>7 DEF KeptKnown
<1>10. SeenStands'
  <2> SUFFICES ASSUME NEW k \in Listeners, Replacing(k)'
               PROVE  \/ lock' \in {heard'[k].seen, NoLock}
                      \/ heard'[k].step = "keep" /\ lock' = Kept(k)'
    BY DEF SeenStands
  <2>1. CASE k = h
    BY <1>1, <1>2, <1>5, <2>1 DEF Replacing
  <2>2. CASE k # h
    BY <1>1, <1>2, <2>2 DEF SeenStands, Replacing, Kept
  <2> QED BY <2>1, <2>2
<1>11. PinAwaited'
  BY <1>1, <1>3, <1>5 DEF PinAwaited, Pinning
<1>12. KeptAwaited'
  BY <1>1, <1>3, <1>5, <1>7 DEF KeptAwaited
<1>13. LockAwaited'
  BY <1>1, <1>3, <1>5 DEF LockAwaited
<1>14. SeenAccounted'
  BY <1>1, <1>5, <1>6, <1>7 DEF SeenAccounted
<1>15. LockKnown'
  <2>1. CASE lock = NoLock \/ lock.tab # t
    BY <2>1, <1>1, <1>4, <1>5 DEF LockKnown
  <2>2. CASE heard'[h].step \in {"forget", "reopen"}
    BY <2>2, <1>1 DEF LockKnown, Unlocking, SomeReplacing, Replacing
  <2> QED BY <2>1, <2>2, <1>2
<1>16. OthersAccounted' /\ ShutStays'
  BY <1>1, <1>2, <1>5, <1>6 DEF OthersAccounted, ShutStays
<1> QED BY <1>8, <1>9, <1>10, <1>11, <1>12, <1>13, <1>14, <1>15, <1>16

\* A listener opens a tab in place of the lock tab, which is closed.
LEMMA ReopenGuarded ==
  ASSUME DeviceInv, Guarded, NEW h \in Listeners, NEW t \in Tabs, Reopen(h, t)
  PROVE  Guarded'
<1> USE DEF Guarded
<1>1. /\ heard[h].step = "reopen" /\ ~Referred(t) /\ suppress' = TRUE /\ Opened(t)
      /\ tabs' = tabs \cup {t} /\ UNCHANGED <<lock, sync, windowless>>
  BY DEF Reopen, Created, Opened, historyVars
<1>2. /\ heard'[h] = [heard[h] EXCEPT !.step = "keep", !.tab = t]
      /\ \A k \in Listeners \ {h} : heard'[k] = heard[k]
  BY DEF Reopen, DeviceInv, HeardOK
<1>3. heard'[h].step = "keep" /\ heard'[h].tab = t /\ heard'[h].seen = heard[h].seen
  BY <1>2 DEF DeviceInv, HeardOK, Hearings
<1>4. /\ \A u : Coming("created", u)' <=> Coming("created", u) \/ u = t
      /\ \A u : Coming("removed", u)' <=> Coming("removed", u)
  BY <1>1, OpenedNews DEF DeviceInv, TabsOK
<1>5. /\ t \notin tabs /\ lock.tab # t
      /\ \A k \in Listeners : heard[k].tab # t
  BY <1>1, NewTab DEF DeviceInv, TabsOK
<1>6. \A u : Known(u) => Known(u)'
  BY <1>1, <1>4 DEF Known
<1>7. Replacing(h) /\ Replacing(h)' /\ SomeReplacing'
  BY <1>1, <1>3 DEF Replacing, SomeReplacing
<1>8. /\ SomePinning' <=> SomePinning
      /\ Unlocking => Unlocking'
      /\ \A u : Accounted(u) => Accounted(u)'
  BY <1>1, <1>2, <1>4 DEF SomePinning, Pinning, Unlocking, Accounted
<1>9. ASSUME NEW k \in Listeners \ {h} PROVE OtherReplaces(k)'
  <2>1. h \in Listeners \ {k} /\ heard'[h].tab # heard'[k].tab
    BY <1>2, <1>3, <1>5
  <2> QED BY <2>1, <1>3 DEF OtherReplaces, Replacing
<1>10. PinKnown'
  BY <1>1, <1>6 DEF PinKnown, Pinning
<1>11. KeptKnown'
  <2>1. Known(t)'
    BY <1>1 DEF Known
  <2> QED BY <2>1, <1>2, <1>3, <1>6 DEF KeptKnown
<1>12. SeenStands'
  <2> SUFFICES ASSUME NEW k \in Listeners, Replacing(k)'
               PROVE  \/ lock' \in {heard'[k].seen, NoLock}
                      \/ heard'[k].step = "keep" /\ lock' = Kept(k)'
    BY DEF SeenStands
  <2>1. CASE k = h
    BY <1>1, <1>3, <1>7, <2>1 DEF SeenStands
  <2>2. CASE k # h
    BY <1>1, <1>2, <2>2 DEF SeenStands, Replacing, Kept
  <2> QED BY <2>1, <2>2
<1>13. PinAwaited' /\ LockAwaited' /\ LockKnown' /\ ShutStays'
  BY <1>1, <1>5, <1>7 DEF PinAwaited, LockAwaited, LockKnown, ShutStays
<1>14. KeptAwaited'
  BY <1>3, <1>4, <1>9 DEF KeptAwaited
<1>15. SeenAccounted'
  <2>1. heard[h].seen.tab \notin tabs
    BY <1>1 DEF DeviceInv, TabsOK, ClosedStay
  <2>2. lock = heard'[h].seen => lock.tab \notin tabs'
    BY <2>1, <1>1, <1>3, <1>5
  <2> QED BY <2>2, <1>1, <1>9 DEF SeenAccounted
<1>16. OthersAccounted'
  <2> SUFFICES ASSUME lock # NoLock, NEW u \in tabs' \ {lock.tab}
               PROVE  \/ Accounted(u)' \/ SomePinning' \/ Unlocking'
                      \/ \E k \in Listeners : heard'[k].step = "keep" /\ heard'[k].tab = u
    BY <1>1 DEF OthersAccounted
  <2>1. CASE u = t
    BY <2>1, <1>3
  <2>2. CASE u \in tabs
    BY <2>2, <1>1, <1>2, <1>8 DEF OthersAccounted
  <2> QED BY <2>1, <2>2, <1>1
<1> QED BY <1>10, <1>11, <1>12, <1>13, <1>14, <1>15, <1>16

\* A listener stores its tab, nobody having another: what it had read of the lock stands.
LEMMA KeepGuarded ==
  ASSUME DeviceInv, Guarded, NEW h \in Listeners, KeepTab(h), ~astray'
  PROVE  Guarded'
<1> USE DEF Guarded
<1> DEFINE t == heard[h].tab
<1>1. /\ heard[h].step = "keep" /\ lock' = Kept(h) /\ UNCHANGED <<tabs, news, suppress, sync>>
      /\ lock \in {heard[h].seen, Kept(h)} /\ ~OtherReplaces(h) /\ windowless' = FALSE
      /\ \A y \in Syncs : ~Pinning(y)
  BY DEF KeepTab, tabVars, openVars
<1>2. heard'[h].step = "idle" /\ \A k \in Listeners \ {h} : heard'[k] = heard[k]
  BY DEF KeepTab, Quiet, DeviceInv, HeardOK
<1>3. lock'.tab = t /\ lock'.session = heard[h].seen.session /\ lock.session = heard[h].seen.session
      /\ heard[h].seen.session \in Sessions /\ lock' # NoLock /\ lock # NoLock
  BY <1>1, StandardIsNoTest DEF Kept, DeviceInv, HeardOK, HearingOK, Hearings, Lock, NoLock
<1>4. ASSUME NEW k \in Listeners, Replacing(k)'
      PROVE  k # h /\ heard'[k] = heard[k] /\ Replacing(k) /\ heard[k].step = "keep" /\ heard[k].tab = t
  BY <1>1, <1>2, <1>4 DEF Replacing, OtherReplaces
<1>5. (\A k, u : Coming(k, u)' <=> Coming(k, u)) /\ (\A u : Known(u)' <=> Known(u))
  BY <1>1 DEF Coming, Known
<1>6. ~SomePinning /\ \A y \in Syncs : ~Pinning(y)'
  BY <1>1 DEF SomePinning, Pinning
<1>7. (Unlocking => Unlocking') /\ (\A u : Accounted(u) => Accounted(u)')
  BY <1>1, <1>2, <1>5 DEF Unlocking, Accounted
<1>8. PinKnown' /\ PinAwaited'
  BY <1>6 DEF PinKnown, PinAwaited
<1>9. \A k \in Listeners : heard'[k].step = "keep" => Replacing(k)'
  BY DEF Replacing
<1>10. KeptKnown'
  BY <1>4, <1>5, <1>9 DEF KeptKnown
<1>11. SeenStands'
  <2> SUFFICES ASSUME NEW k \in Listeners, Replacing(k)'
               PROVE  heard'[k].step = "keep" /\ lock' = Kept(k)'
    BY DEF SeenStands
  <2>1. heard'[k] = heard[k] /\ heard[k].step = "keep" /\ heard[k].tab = t /\ Replacing(k)
    BY <1>4
  <2>2. heard[k].seen.session = lock.session
    BY <2>1, <1>3 DEF SeenStands, Kept, DeviceInv, HeardOK, Hearings, Lock
  <2>3. Kept(k) = Kept(h)
    BY <2>1, <2>2, <1>3 DEF Kept, DeviceInv, HeardOK, Hearings, Lock
  <2> QED BY <2>1, <2>3, <1>1 DEF Kept
<1>12. suppress /\ t \in tabs => Coming("created", t)
  BY <1>1, <1>6 DEF KeptAwaited
<1>13. KeptAwaited' /\ LockAwaited'
  BY <1>1, <1>3, <1>4, <1>5, <1>9, <1>12 DEF KeptAwaited, LockAwaited
<1>14. SeenAccounted'
  BY <1>3, <1>4, <1>9 DEF SeenAccounted
<1>15. LockKnown' /\ ShutStays'
  BY <1>1, <1>3, <1>5 DEF LockKnown, KeptKnown, ShutStays
<1>16. OthersAccounted'
  <2> SUFFICES ASSUME NEW u \in tabs \ {t} PROVE Accounted(u) \/ Unlocking
    BY <1>1, <1>3, <1>7 DEF OthersAccounted
  <2>1. \A k \in Listeners : heard[k].step = "keep" => heard[k].tab # u
    BY <1>1 DEF OtherReplaces, Replacing
  <2>2. CASE u # lock.tab
    BY <2>1, <2>2, <1>3, <1>6 DEF OthersAccounted
  <2>3. CASE u = lock.tab
    <3>1. lock = heard[h].seen
      BY <2>3, <1>1, <1>3
    <3> QED BY <3>1, <2>3, <1>1, <1>6 DEF SeenAccounted
  <2> QED BY <2>2, <2>3
<1> QED BY <1>8, <1>10, <1>11, <1>13, <1>14, <1>15, <1>16

LEMMA GuardInit == LockdownInit => GuardInv
<1> SUFFICES ASSUME LockdownInit PROVE Guarded
  BY DEF GuardInv
<1>1. lock = NoLock /\ suppress = FALSE
  BY DEF LockdownInit
<1>2. \A y \in Syncs : ~Pinning(y)
  BY DEF LockdownInit, Waiting, Pinning
<1>3. \A h \in Listeners : ~Replacing(h) /\ heard[h].step # "keep"
  BY DEF LockdownInit, Quiet, Replacing
<1> QED BY <1>1, <1>2, <1>3 DEF Guarded, PinKnown, KeptKnown, SeenStands, PinAwaited, KeptAwaited,
           LockAwaited, SeenAccounted, LockKnown, ShutStays, OthersAccounted

\* Whoever closes tabs closes those it answered for.
LEMMA GoneGuarded ==
  ASSUME DeviceInv, Guarded, NEW some, Gone(some), UNCHANGED <<lock, suppress, windowless>>,
         \A y \in Syncs : Pinning(y)' <=> Pinning(y),
         \A y \in Syncs : Pinning(y) => sync'[y] = sync[y],
         \A h \in Listeners : Replacing(h)' <=> Replacing(h),
         \A h \in Listeners : Replacing(h) => heard'[h] = heard[h],
         Unlocking => Unlocking',
         \A y \in Syncs : sync[y].step = "sweep" =>
            sync'[y] = sync[y] \/ \A u \in tabs \ some : sync[y].tab = u,
         \A h \in Listeners : heard[h].step = "remove" =>
            heard'[h] = heard[h] \/ heard[h].tab \in some
  PROVE  Guarded'
<1>1. \A k, u : Coming(k, u)' <=> Coming(k, u) \/ (k = "removed" /\ u \in tabs \cap some)
  BY GoneNews DEF DeviceInv, TabsOK
<1>2. tabs' = tabs \ some
  BY DEF Gone
<1>3. \A u : Known(u) => Known(u)'
  BY <1>1, <1>2 DEF Known
<1>4. \A u : Coming("created", u) => Coming("created", u)'
  BY <1>1
<1>5. ASSUME NEW u \in tabs', Accounted(u) PROVE Accounted(u)'
  <2>1. CASE Coming("created", u)
    BY <2>1, <1>4 DEF Accounted
  <2>2. CASE \E h \in Listeners : heard[h].step = "remove" /\ heard[h].tab = u
    BY <2>2, <1>2 DEF Accounted
  <2>3. CASE \E y \in Syncs : sync[y].step = "sweep" /\ sync[y].tab # u
    BY <2>3, <1>2 DEF Accounted
  <2> QED BY <1>5, <2>1, <2>2, <2>3 DEF Accounted
<1> QED BY <1>2, <1>3, <1>4, <1>5, StaysGuarded

\* One run goes on to a step at which it has no tab, from one at which it has none and
\* takes no lock off.
LEMMA RunGuarded ==
  ASSUME DeviceInv, Guarded, NEW y \in Syncs,
         sync[y].step \notin {"forget", "disengage", "pin", "sweep"},
         sync'[y].step \notin {"pin", "sweep"},
         \A z \in Syncs \ {y} : sync'[z] = sync[z],
         UNCHANGED <<lock, tabs, news, suppress, heard, windowless>>
  PROVE  Guarded'
<1>1. /\ \A z \in Syncs : Pinning(z)' <=> Pinning(z)
      /\ \A z \in Syncs : Pinning(z) => sync'[z] = sync[z]
      /\ \A h \in Listeners : Replacing(h)' <=> Replacing(h)
  BY DEF Pinning, Replacing
<1>2. (\A k, u : Coming(k, u)' <=> Coming(k, u)) /\ (\A u : Known(u)' <=> Known(u))
  BY DEF Coming, Known
<1>3. Unlocking => Unlocking'
  BY DEF Unlocking
<1>4. \A u : Accounted(u) => Accounted(u)'
  BY <1>2 DEF Accounted
<1> QED BY <1>1, <1>2, <1>3, <1>4, StaysGuarded

\* No tab is open, and whoever wanted to open one has given up.
LEMMA NoneGuarded ==
  ASSUME Guarded, tabs = {}, UNCHANGED <<lock, tabs, news>>,
         \A y \in Syncs : Pinning(y)' <=> Pinning(y),
         \A y \in Syncs : Pinning(y) => sync'[y] = sync[y],
         \A h \in Listeners : Replacing(h)' => Replacing(h) /\ heard'[h] = heard[h],
         windowless' \/ (UNCHANGED <<heard, windowless>> /\ (Unlocking => Unlocking'))
  PROVE  Guarded'
<1> USE DEF Guarded
<1>1. \A u : Known(u)' <=> Known(u)
  BY DEF Known, Coming
<1>2. \A h \in Listeners : heard'[h].step = "keep" => Replacing(h)'
  BY DEF Replacing
<1>3. PinKnown' /\ KeptKnown'
  BY <1>1, <1>2 DEF PinKnown, KeptKnown
<1>4. SeenStands'
  BY DEF SeenStands, Kept
<1>5. LockKnown'
  BY <1>1 DEF LockKnown, SomePinning, SomeReplacing, Replacing
<1> QED
  BY <1>3, <1>4, <1>5
  DEF PinAwaited, KeptAwaited, LockAwaited, SeenAccounted, ShutStays, OthersAccounted

\* A listener hears of a new window: the tabs are told of apart.
LEMMA WindowGuarded ==
  ASSUME DeviceInv, Guarded, NEW h \in Listeners, NEW t \in Tabs, HandleWindowCreated(h, t)
  PROVE  Guarded'
<1>1. /\ heard[h] = Quiet /\ news # <<>> /\ Head(news) = <<"window", t>> /\ news' = Tail(news)
      /\ UNCHANGED <<lock, tabs, suppress, sync, windowless>>
      /\ UNCHANGED heard \/ Hear(h, "forget", t) \/ Hear(h, "close", t)
  BY DEF HandleWindowCreated, historyVars
<1>2. /\ \A k \in Listeners \ {h} : heard'[k] = heard[k]
      /\ heard'[h].step \in {"idle", "forget", "close"}
  BY <1>1 DEF Hear, Quiet, DeviceInv, HeardOK
<1>3. /\ \A u : Coming("removed", u) => Coming("removed", u)'
      /\ \A u : Coming("created", u) => Coming("created", u)'
  BY <1>1, HeardNews DEF DeviceInv, TabsOK
<1>4. \A u : Known(u) => Known(u)'
  BY <1>1, <1>3 DEF Known
<1>5. \A u : Accounted(u) => Accounted(u)' \/ Coming("created", u)
  BY <1>1, <1>2, TakesUp DEF DeviceInv
<1>6. \A u : Accounted(u) => Accounted(u)'
  BY <1>3, <1>5 DEF Accounted
<1>7. /\ \A y \in Syncs : Pinning(y)' <=> Pinning(y)
      /\ \A k \in Listeners : Replacing(k)' <=> Replacing(k)
      /\ \A k \in Listeners : Replacing(k) => heard'[k] = heard[k]
  <2>1. ~Replacing(h) /\ ~Replacing(h)'
    BY <1>1, <1>2 DEF Replacing, Quiet
  <2> QED BY <2>1, <1>1, <1>2 DEF Pinning, Replacing
<1>8. Unlocking => Unlocking'
  <2>1. heard[h].step # "forget"
    BY <1>1 DEF Quiet
  <2> QED BY <2>1, <1>1, <1>2 DEF Unlocking
<1> QED BY <1>1, <1>3, <1>4, <1>6, <1>7, <1>8, StaysGuarded

LEMMA GuardKept == DeviceInv /\ GuardInv /\ [LockdownNext]_lockdownVars => GuardInv'
<1> SUFFICES ASSUME DeviceInv, Guarded, [LockdownNext]_lockdownVars, ~astray' PROVE Guarded'
  <2>1. ASSUME astray, [LockdownNext]_lockdownVars PROVE astray'
    <3>1. CASE UNCHANGED lockdownVars
      BY <2>1, <3>1 DEF lockdownVars, historyVars
    <3>2. CASE ServerSteps \/ TabSteps \/ NetSteps \/ WorkerStops
      BY <2>1, <3>2 DEF ServerSteps, StartLockdown, EndLockdown, TestEnds, expireLockdownSessions,
         TabSteps, OpenTab, CloseTab, NetSteps, GoOffline, GoOnline, TokenExpires, SignIn, WorkerStops,
         historyVars
    <3>3. CASE \E y \in Syncs : SyncStep(y)
      BY <2>1, <3>3 DEF SyncStep, Fetch, FetchFails, ReleaseCached, StorePolicy, ReadRules, UpdateRules,
         UpdateRejected, ApplyLockdownState, Forget, Disengage, Engage, EngageFails, Pin, Sweep,
         historyVars
    <3>4. CASE \E h \in Listeners : ListenerStep(h)
      BY <2>1, <3>4 DEF ListenerStep, HandleTabCreated, HandleLockTabRemoved, HandleWindowCreated,
         Reopen, ReopenFails, ForgetLock, CloseWindow, RemoveTab, KeepTab, historyVars
    <3> QED BY <2>1, <3>1, <3>2, <3>3, <3>4 DEF LockdownNext, WorkerSteps
  <2> QED BY <2>1 DEF GuardInv
<1> USE DEF policyVars, openVars, tabVars, netVars, historyVars
<1>1. ASSUME UNCHANGED <<lock, tabs, news, suppress, sync, heard, windowless>> PROVE Guarded'
  <2>1. /\ \A y \in Syncs : Pinning(y)' <=> Pinning(y)
        /\ \A h \in Listeners : Replacing(h)' <=> Replacing(h)
        /\ \A u : Coming("created", u)' <=> Coming("created", u)
        /\ \A u : Known(u)' <=> Known(u)
        /\ \A u : Accounted(u)' <=> Accounted(u)
        /\ Unlocking' <=> Unlocking
    BY <1>1 DEF Pinning, Replacing, Coming, Known, Accounted, Unlocking
  <2> QED BY <1>1, <2>1, StaysGuarded
<1>2. CASE UNCHANGED lockdownVars
  BY <1>1, <1>2 DEF lockdownVars
<1>3. CASE ServerSteps
  BY <1>1, <1>3 DEF ServerSteps, StartLockdown, EndLockdown, TestEnds, expireLockdownSessions
<1>4. CASE NetSteps
  BY <1>1, <1>4 DEF NetSteps, GoOffline, GoOnline, TokenExpires, SignIn
<1>5. CASE WorkerStops
  BY <1>5 DEF WorkerStops
<1>6. ASSUME NEW t \in Tabs, OpenTab(t) PROVE Guarded'
  BY <1>6, OpenTabGuarded
<1>7. ASSUME NEW t \in Tabs, CloseTab(t) PROVE Guarded'
  <2>1. Gone({t}) /\ UNCHANGED <<lock, suppress, sync, heard, windowless>>
    BY <1>7 DEF CloseTab
  <2>2. /\ \A y \in Syncs : Pinning(y)' <=> Pinning(y)
        /\ \A h \in Listeners : Replacing(h)' <=> Replacing(h)
        /\ Unlocking => Unlocking'
    BY <2>1 DEF Pinning, Replacing, Unlocking
  <2> QED BY <2>1, <2>2, GoneGuarded
<1>8. ASSUME NEW y \in Syncs, SyncStep(y) PROVE Guarded'
  <2> DEFINE Before == {"idle", "store", "enforce", "update", "apply"}
             After == {"idle", "store", "enforce", "update", "apply", "forget", "disengage", "engage"}
  <2>1. ASSUME NEW run, sync' = [sync EXCEPT ![y] = run]
        PROVE  sync'[y] = run /\ \A z \in Syncs \ {y} : sync'[z] = sync[z]
    BY <2>1 DEF DeviceInv, SyncOK
  <2>2. ASSUME NEW step, Go(y, step)
        PROVE  sync'[y].step = step /\ \A z \in Syncs \ {y} : sync'[z] = sync[z]
    BY <2>2 DEF Go, DeviceInv, SyncOK, Runs
  <2>3. ASSUME NEW step, NEW policy, NEW last, With(y, step, policy, last)
        PROVE  sync'[y].step = step /\ \A z \in Syncs \ {y} : sync'[z] = sync[z]
    BY <2>3 DEF With, Waiting, DeviceInv, SyncOK
  <2>4. CASE \/ Fetch(y) \/ FetchFails(y) \/ ReleaseCached(y) \/ StorePolicy(y) \/ ReadRules(y)
             \/ UpdateRules(y) \/ UpdateRejected(y) \/ ApplyLockdownState(y)
    <3>1. UNCHANGED <<lock, tabs, news, suppress, heard, windowless>>
      BY <2>4 DEF Fetch, FetchFails, ReleaseCached, StorePolicy, ReadRules, UpdateRules,
         UpdateRejected, ApplyLockdownState
    <3>2. sync[y].step \in Before
      <4>1. CASE Fetch(y) \/ FetchFails(y) \/ ReleaseCached(y)
        <5>1. sync[y] = Waiting
          BY <4>1 DEF Fetch, FetchFails, ReleaseCached
        <5> QED BY <5>1 DEF Waiting
      <4>2. CASE \/ StorePolicy(y) \/ ReadRules(y) \/ UpdateRules(y) \/ UpdateRejected(y)
                 \/ ApplyLockdownState(y)
        BY <4>2 DEF StorePolicy, ReadRules, UpdateRules, UpdateRejected, ApplyLockdownState
      <4> QED BY <2>4, <4>1, <4>2
    <3>3. sync'[y].step \in After /\ \A z \in Syncs \ {y} : sync'[z] = sync[z]
      <4>1. CASE Fetch(y) \/ FetchFails(y) \/ ReleaseCached(y)
        BY <4>1, <2>3 DEF Fetch, FetchFails, ReleaseCached
      <4>2. CASE StorePolicy(y)
        BY <4>2, <2>2 DEF StorePolicy
      <4>3. CASE ReadRules(y) \/ UpdateRules(y)
        BY <4>3 DEF ReadRules, UpdateRules, DeviceInv, SyncOK, Runs
      <4>4. CASE UpdateRejected(y)
        <5>1. \/ sync' = [sync EXCEPT ![y] = Waiting]
              \/ With(y, "enforce", Unexpired(cached), TRUE)
          BY <4>4 DEF UpdateRejected, Throw
        <5>2. Waiting.step = "idle"
          BY DEF Waiting
        <5> QED BY <5>1, <5>2, <2>1, <2>3
      <4>5. CASE ApplyLockdownState(y)
        BY <4>5, <2>1, <2>2 DEF ApplyLockdownState, Waiting
      <4> QED BY <2>4, <4>1, <4>2, <4>3, <4>4, <4>5
    <3> QED BY <3>1, <3>2, <3>3, RunGuarded
  <2>5. CASE Forget(y) \/ Disengage(y)
    <3>1. /\ lock' = NoLock /\ UNCHANGED <<suppress, tabs, news, heard>>
          /\ sync[y].step \in {"forget", "disengage"}
      BY <2>5 DEF Forget, Disengage
    <3>2. sync'[y].step \in {"engage", "idle"} /\ \A z \in Syncs \ {y} : sync'[z] = sync[z]
      BY <2>5, <2>1, <2>2 DEF Forget, Disengage, Waiting
    <3>3. /\ \A z \in Syncs : Pinning(z)' <=> Pinning(z)
          /\ \A z \in Syncs : Pinning(z) => sync'[z] = sync[z]
          /\ \A h \in Listeners : Replacing(h)' <=> Replacing(h)
      BY <3>1, <3>2 DEF Pinning, Replacing
    <3> QED BY <3>1, <3>3, UnlockedGuarded DEF DeviceInv
  <2>6. ASSUME NEW t \in Tabs, Engage(y, t) PROVE Guarded'
    BY <2>6, EngageGuarded
  <2>7. CASE Pin(y)
    BY <2>7, PinGuarded
  <2>9. CASE EngageFails(y)
    <3>1. /\ tabs = {} /\ UNCHANGED <<lock, tabs, news, heard, windowless>> /\ sync[y].step = "engage"
          /\ \/ sync' = [sync EXCEPT ![y] = Waiting]
             \/ With(y, "enforce", Unexpired(cached), TRUE)
      BY <2>9 DEF EngageFails, Throw
    <3>2. sync'[y].step \in {"idle", "enforce"} /\ \A z \in Syncs \ {y} : sync'[z] = sync[z]
      <4>1. Waiting.step = "idle"
        BY DEF Waiting
      <4> QED BY <3>1, <4>1, <2>1, <2>3
    <3>3. /\ \A z \in Syncs : Pinning(z)' <=> Pinning(z)
          /\ \A z \in Syncs : Pinning(z) => sync'[z] = sync[z]
          /\ \A h \in Listeners : Replacing(h)' => Replacing(h) /\ heard'[h] = heard[h]
          /\ Unlocking => Unlocking'
      BY <3>1, <3>2 DEF Pinning, Replacing, Unlocking
    <3> QED BY <3>1, <3>3, NoneGuarded
  <2>8. CASE Sweep(y)
    <3>1. /\ sync[y].step = "sweep" /\ Gone(tabs \ {sync[y].tab})
          /\ UNCHANGED <<lock, suppress, heard, windowless>>
          /\ sync' = [sync EXCEPT ![y] = Waiting]
      BY <2>8 DEF Sweep
    <3>2. sync'[y].step = "idle" /\ \A z \in Syncs \ {y} : sync'[z] = sync[z]
      BY <3>1, <2>1 DEF Waiting
    <3>3. /\ \A z \in Syncs : Pinning(z)' <=> Pinning(z)
          /\ \A z \in Syncs : Pinning(z) => sync'[z] = sync[z]
          /\ \A h \in Listeners : Replacing(h)' <=> Replacing(h)
          /\ Unlocking => Unlocking'
      BY <3>1, <3>2 DEF Pinning, Replacing, Unlocking
    <3>4. \A z \in Syncs : sync[z].step = "sweep" =>
             sync'[z] = sync[z] \/ \A u \in tabs \ (tabs \ {sync[y].tab}) : sync[z].tab = u
      BY <3>2
    <3> QED BY <3>1, <3>3, <3>4, GoneGuarded
  <2> QED BY <1>8, <2>4, <2>5, <2>6, <2>7, <2>8, <2>9 DEF SyncStep
<1>9. ASSUME NEW h \in Listeners, ListenerStep(h) PROVE Guarded'
  <2>1. ASSUME heard' = [heard EXCEPT ![h] = Quiet]
        PROVE  heard'[h].step = "idle" /\ \A k \in Listeners \ {h} : heard'[k] = heard[k]
    BY <2>1 DEF Quiet, DeviceInv, HeardOK
  <2>2. ASSUME NEW t \in Tabs, HandleTabCreated(h, t) PROVE Guarded'
    BY <2>2, CreatedGuarded
  <2>3. ASSUME NEW t \in Tabs, HandleLockTabRemoved(h, t) PROVE Guarded'
    BY <2>3, RemovedGuarded
  <2>4. ASSUME NEW t \in Tabs, Reopen(h, t) PROVE Guarded'
    BY <2>4, ReopenGuarded
  <2>5. CASE KeepTab(h)
    BY <2>5, KeepGuarded
  <2>6. CASE ForgetLock(h)
    <3>1. /\ lock' = NoLock /\ UNCHANGED <<suppress, tabs, news, sync>> /\ heard[h].step = "forget"
          /\ heard' = [heard EXCEPT ![h] = Quiet]
      BY <2>6 DEF ForgetLock
    <3>2. heard'[h].step = "idle" /\ \A k \in Listeners \ {h} : heard'[k] = heard[k]
      BY <3>1, <2>1
    <3>3. /\ \A z \in Syncs : Pinning(z)' <=> Pinning(z)
          /\ \A k \in Listeners : Replacing(k)' <=> Replacing(k)
          /\ \A k \in Listeners : Replacing(k) => heard'[k] = heard[k]
      BY <3>1, <3>2 DEF Pinning, Replacing
    <3> QED BY <3>1, <3>3, UnlockedGuarded DEF DeviceInv
  <2>8. ASSUME NEW t \in Tabs, HandleWindowCreated(h, t) PROVE Guarded'
    BY <2>8, WindowGuarded
  <2>9. CASE ReopenFails(h)
    <3>1. /\ tabs = {} /\ UNCHANGED <<lock, tabs, news, sync>> /\ windowless'
          /\ heard' = [heard EXCEPT ![h] = Quiet]
      BY <2>9 DEF ReopenFails
    <3>2. heard'[h].step = "idle" /\ \A k \in Listeners \ {h} : heard'[k] = heard[k]
      BY <3>1, <2>1
    <3>3. /\ \A z \in Syncs : Pinning(z)' <=> Pinning(z)
          /\ \A k \in Listeners : Replacing(k)' => Replacing(k) /\ heard'[k] = heard[k]
      BY <3>1, <3>2 DEF Pinning, Replacing
    <3> QED BY <3>1, <3>3, NoneGuarded
  <2>10. CASE CloseWindow(h)
    <3> DEFINE some == {t \in tabs : home[t] = heard[h].tab}
    <3>1. /\ Gone(some) /\ UNCHANGED <<lock, suppress, sync, windowless>> /\ heard[h].step = "close"
          /\ heard' = [heard EXCEPT ![h] = Quiet]
      BY <2>10 DEF CloseWindow
    <3>2. heard'[h].step = "idle" /\ \A k \in Listeners \ {h} : heard'[k] = heard[k]
      BY <3>1, <2>1
    <3>3. /\ \A z \in Syncs : Pinning(z)' <=> Pinning(z)
          /\ \A k \in Listeners : Replacing(k)' <=> Replacing(k)
          /\ \A k \in Listeners : Replacing(k) => heard'[k] = heard[k]
          /\ Unlocking => Unlocking'
      BY <3>1, <3>2 DEF Pinning, Replacing, Unlocking
    <3>4. \A k \in Listeners : heard[k].step = "remove" => heard'[k] = heard[k] \/ heard[k].tab \in some
      BY <3>1, <3>2
    <3> HIDE DEF some
    <3> QED BY <3>1, <3>3, <3>4, GoneGuarded
  <2>7. CASE RemoveTab(h)
    <3>1. /\ Gone({heard[h].tab}) /\ UNCHANGED <<lock, suppress, sync, windowless>>
          /\ heard[h].step = "remove"
          /\ heard' = [heard EXCEPT ![h] = Quiet]
      BY <2>7 DEF RemoveTab
    <3>2. heard'[h].step = "idle" /\ \A k \in Listeners \ {h} : heard'[k] = heard[k]
      BY <3>1, <2>1
    <3>3. /\ \A z \in Syncs : Pinning(z)' <=> Pinning(z)
          /\ \A k \in Listeners : Replacing(k)' <=> Replacing(k)
          /\ \A k \in Listeners : Replacing(k) => heard'[k] = heard[k]
          /\ Unlocking => Unlocking'
      BY <3>1, <3>2 DEF Pinning, Replacing, Unlocking
    <3>4. \A k \in Listeners : heard[k].step = "remove" =>
             heard'[k] = heard[k] \/ heard[k].tab \in {heard[h].tab}
      BY <3>2
    <3> QED BY <3>1, <3>3, <3>4, GoneGuarded
  <2> QED BY <1>9, <2>2, <2>3, <2>4, <2>5, <2>6, <2>7, <2>8, <2>9, <2>10 DEF ListenerStep
<1> QED BY <1>2, <1>3, <1>4, <1>5, <1>6, <1>7, <1>8, <1>9 DEF LockdownNext, WorkerSteps, TabSteps

\* A device at rest with a lock on has the lock tab open and no other, however many runs
\* of syncPolicy and tab listeners overlapped and whatever the student opened and closed,
\* and no tab at all where the only window was closed and Chrome opened no other; the
\* exceptions are those that `astray` records.
THEOREM HeldToOneTab == LockdownSpec => []OneTab
<1>1. LockdownInit => DeviceInv /\ GuardInv
  BY DeviceInit, GuardInit
<1>2. DeviceInv /\ GuardInv /\ [LockdownNext]_lockdownVars => DeviceInv' /\ GuardInv'
  BY DeviceKept, GuardKept
<1>3. DeviceInv /\ GuardInv => OneTab
  BY AtRestOneTab
<1> QED BY <1>1, <1>2, <1>3, PTL DEF LockdownSpec
=============================================================================
