---------------------------- MODULE LockdownGuard ----------------------------
(***************************************************************************)
(* A lockdown test on a student's device: how the extension learns of it,  *)
(* holds the student to one tab and lets go (backend/src/routes/           *)
(* lockdown.js and services/scheduler.js; chrome-extension/src/background/ *)
(* service-worker.js, lib/rules.js and lib/lockdownGuard.js).              *)
(*                                                                         *)
(* The device keeps three things that should agree: the cached policy, the *)
(* network rules and the lock. A run of syncPolicy writes them one after   *)
(* the other; the minute's alarm, a push and the popup each start one, and *)
(* their awaits interleave with one another and with the tab listeners.    *)
(* Chrome may stop the worker at any await.                                *)
(*                                                                         *)
(* Which policy the server has in its cache is PolicyCache's subject: here *)
(* it answers by its tables. One clock. A tab stays in its window, and a   *)
(* window goes with its last tab; nothing is modelled of which tab or      *)
(* window is in front.                                                     *)
(* External: Chrome's tabs, storage and declarativeNetRequest.             *)
(***************************************************************************)
EXTENDS Naturals, SequencesExt

CONSTANTS
  Sessions,     \* bound: the rows lockdown_sessions can have for the student
  Tabs,         \* bound: the tabs that exist or are still referred to at once
  Syncs,        \* bound: the runs of syncPolicy at once
  Listeners,    \* bound: the tab events being handled at once
  Standard,     \* a policy of any mode but lockdown
  NoTab,
  MaxHappens    \* bound: what the student, the network and Chrome do

ASSUME StandardIsNoTest == Standard \notin Sessions
ASSUME NoTabIsNone == NoTab \notin Tabs
ASSUME HappensAreNat == MaxHappens \in Nat

VARIABLES
  session,     \* lockdown_sessions
  cached,      \* cg_policy in chrome.storage.local
  rules,       \* the policies the declarativeNetRequest rules were built from
  lock,        \* cg_lockdown in chrome.storage.local
  tabs,        \* the open tabs
  home,        \* home[t]: the window of an open tab, by the tab it opened with
  news,        \* tab and window events still to be delivered, in order
  suppress,    \* suppressNextTabCreated
  sync,        \* sync[y]: where a run of syncPolicy is
  heard,       \* heard[h]: where the handling of a tab event is
  online,
  signedIn,    \* cg_jwt is there and not about to expire
  astray,      \* history: the guard may have lost sight of its tab
  windowless,  \* history: Chrome opened no tab for the lock, as no window was open
  happens

policyVars == <<cached, rules>>
openVars == <<tabs, home, news>>
tabVars == <<openVars, suppress>>
netVars == <<online, signedIn>>
historyVars == <<astray, windowless>>
lockdownVars == <<session, policyVars, lock, tabVars, sync, heard, netVars, historyVars, happens>>

Policies == Sessions \cup {Standard}
NoLock == [session |-> Standard, tab |-> NoTab]
Lock == [session : Policies, tab : Tabs \cup {NoTab}]
TabEvent == {"window", "created", "removed"} \X Tabs
Waiting == [step |-> "idle", policy |-> Standard, existing |-> {}, last |-> FALSE, tab |-> NoTab]
Quiet == [step |-> "idle", tab |-> NoTab, seen |-> NoLock]

\* The table, what the device keeps and the runs keep their shape.
LockdownTypeOK ==
  /\ session \in [Sessions -> [status : {"free", "active", "over"},
                               clock : {"open", "running", "past"}]]
  /\ cached \in Policies /\ rules \subseteq Policies
  /\ lock \in Lock /\ (lock = NoLock \/ (lock.session \in Sessions /\ lock.tab \in Tabs))
  /\ tabs \subseteq Tabs /\ home \in [Tabs -> Tabs] /\ news \in Seq(TabEvent)
  /\ suppress \in BOOLEAN
  /\ sync \in [Syncs -> [step : {"idle", "store", "enforce", "update", "apply", "forget",
                                 "disengage", "engage", "pin", "sweep"},
                         policy : Policies, existing : SUBSET Policies, last : BOOLEAN,
                         tab : Tabs \cup {NoTab}]]
  /\ heard \in [Listeners -> [step : {"idle", "forget", "close", "remove", "reopen", "keep"},
                              tab : Tabs \cup {NoTab}, seen : Lock]]
  /\ online \in BOOLEAN /\ signedIn \in BOOLEAN /\ astray \in BOOLEAN
  /\ windowless \in BOOLEAN
  /\ happens \in 0 .. MaxHappens

LockdownInit ==
  /\ session = [l \in Sessions |-> [status |-> "free", clock |-> "open"]]
  /\ cached = Standard /\ rules = {Standard}
  /\ lock = NoLock
  /\ \E t \in Tabs : tabs = {t}
  /\ home = [t \in Tabs |-> t]
  /\ news = <<>> /\ suppress = FALSE
  /\ sync = [y \in Syncs |-> Waiting]
  /\ heard = [h \in Listeners |-> Quiet]
  /\ online = TRUE /\ signedIn = TRUE
  /\ astray = FALSE /\ windowless = FALSE
  /\ happens = 0

Happen == happens < MaxHappens /\ happens' = happens + 1
Past(policy) == policy \in Sessions /\ session[policy].clock = "past"

-----------------------------------------------------------------------------
(* The server.                                                             *)

\* What resolvePolicy finds: the active session, its end time reached or not.
Effective ==
  IF \E l \in Sessions : session[l].status = "active"
  THEN CHOOSE l \in Sessions : session[l].status = "active"
  ELSE Standard

\* POST /lockdown: one transaction ends the active session and opens the next.
StartLockdown(l, clock) ==
  /\ session[l].status = "free"
  /\ session' = [k \in Sessions |->
       IF k = l THEN [status |-> "active", clock |-> clock]
       ELSE IF session[k].status = "active" THEN [session[k] EXCEPT !.status = "over"]
       ELSE session[k]]
  /\ UNCHANGED <<policyVars, lock, tabVars, sync, heard, netVars, historyVars, happens>>

\* DELETE /lockdown/:id
EndLockdown(l) ==
  /\ session[l].status = "active"
  /\ session' = [session EXCEPT ![l].status = "over"]
  /\ UNCHANGED <<policyVars, lock, tabVars, sync, heard, netVars, historyVars, happens>>

\* ends_at is reached.
TestEnds(l) ==
  /\ session[l].status # "free" /\ session[l].clock = "running"
  /\ session' = [session EXCEPT ![l].clock = "past"]
  /\ UNCHANGED <<policyVars, lock, tabVars, sync, heard, netVars, historyVars, happens>>

\* expireLockdownSessions, every minute.
expireLockdownSessions ==
  /\ \E l \in Sessions : session[l].status = "active" /\ Past(l)
  /\ session' = [l \in Sessions |->
       IF session[l].status = "active" /\ Past(l) THEN [session[l] EXCEPT !.status = "over"]
       ELSE session[l]]
  /\ UNCHANGED <<policyVars, lock, tabVars, sync, heard, netVars, historyVars, happens>>

-----------------------------------------------------------------------------
(* syncPolicy.                                                             *)

Go(y, step) == sync' = [sync EXCEPT ![y].step = step]

\* A run has a policy to work with; `last`: if this throws, the run is over.
With(y, step, policy, last) ==
  sync' = [sync EXCEPT ![y] = [Waiting EXCEPT !.step = step, !.policy = policy, !.last = last]]

\* dropExpiredLockdown
Unexpired(policy) == IF Past(policy) THEN Standard ELSE policy

\* The server answers.
Fetch(y) ==
  /\ sync[y] = Waiting /\ online /\ signedIn
  /\ With(y, "store", Effective, FALSE)
  /\ UNCHANGED <<session, policyVars, lock, tabVars, heard, netVars, historyVars, happens>>

\* Mutant: without an answer the cached policy is applied as it is.
FetchFailsAsCached(y) ==
  /\ sync[y] = Waiting /\ ~online /\ signedIn
  /\ With(y, "enforce", cached, TRUE)
  /\ UNCHANGED <<session, policyVars, lock, tabVars, heard, netVars, historyVars, happens>>

\* It does not: the cached policy, unless its test is over.
FetchFails(y) ==
  /\ sync[y] = Waiting /\ ~online /\ signedIn
  /\ With(y, "enforce", Unexpired(cached), TRUE)
  /\ UNCHANGED <<session, policyVars, lock, tabVars, heard, netVars, historyVars, happens>>

\* releaseExpiredCachedLockdown, without a JWT.
ReleaseCached(y) ==
  /\ sync[y] = Waiting /\ ~signedIn /\ Past(cached)
  /\ With(y, "store", Standard, TRUE)
  /\ UNCHANGED <<session, policyVars, lock, tabVars, heard, netVars, historyVars, happens>>

\* The answer, or the released policy, goes into the cache.
StorePolicy(y) ==
  /\ sync[y].step = "store"
  /\ cached' = sync[y].policy
  /\ Go(y, "enforce")
  /\ UNCHANGED <<session, rules, lock, tabVars, heard, netVars, historyVars, happens>>

\* enforcePolicy reads which rules are installed ...
ReadRules(y) ==
  /\ sync[y].step = "enforce"
  /\ sync' = [sync EXCEPT ![y].step = "update", ![y].existing = rules]
  /\ UNCHANGED <<session, policyVars, lock, tabVars, heard, netVars, historyVars, happens>>

\* What another run has installed since. All lockdown rules have the same ids.
Left(y) ==
  rules \ (sync[y].existing \cup IF sync[y].existing \cap Sessions = {} THEN {} ELSE Sessions)

\* ... and replaces those by the policy's, in one call.
UpdateRules(y) ==
  /\ sync[y].step = "update"
  /\ sync[y].policy \in Sessions => Left(y) \cap Sessions = {}
  /\ rules' = Left(y) \cup {sync[y].policy}
  /\ sync' = [sync EXCEPT ![y].step = "apply", ![y].existing = {}]
  /\ UNCHANGED <<session, cached, lock, tabVars, heard, netVars, historyVars, happens>>

\* Something throws: syncPolicy turns to the cached policy, once.
Throw(y) ==
  IF sync[y].last THEN sync' = [sync EXCEPT ![y] = Waiting]
  ELSE With(y, "enforce", Unexpired(cached), TRUE)

\* The call throws, and its retry: an id is taken, as the ids of the other modes depend
\* on the policy, or Chrome refuses the rules for a reason of its own.
UpdateRejected(y) ==
  /\ sync[y].step = "update"
  /\ Happen \/ (Left(y) # {} /\ UNCHANGED happens)
  /\ Throw(y)
  /\ UNCHANGED <<session, policyVars, lock, tabVars, heard, netVars, historyVars>>

Wants(policy) == policy \in Sessions /\ ~Past(policy)

\* Mutant: a run that knows of no test is not the one to take a lock off.
ApplyEngageOnly(y) ==
  LET policy == sync[y].policy
  IN /\ sync[y].step = "apply"
     /\ IF Past(lock.session) THEN Go(y, "forget")
        ELSE IF Wants(policy) /\ lock.session # policy THEN Go(y, "engage")
        ELSE sync' = [sync EXCEPT ![y] = Waiting]
     /\ UNCHANGED <<session, policyVars, lock, tabVars, heard, netVars, historyVars, happens>>

\* applyLockdownState reads the lock; getState forgets one whose test is over.
ApplyLockdownState(y) ==
  LET policy == sync[y].policy
  IN /\ sync[y].step = "apply"
     /\ IF Past(lock.session) THEN Go(y, "forget")
        ELSE IF Wants(policy) /\ lock.session # policy THEN Go(y, "engage")
        ELSE IF ~Wants(policy) /\ lock # NoLock THEN Go(y, "disengage")
        ELSE sync' = [sync EXCEPT ![y] = Waiting]
     /\ UNCHANGED <<session, policyVars, lock, tabVars, heard, netVars, historyVars, happens>>

\* setState(null), in getState.
Forget(y) ==
  /\ sync[y].step = "forget"
  /\ lock' = NoLock
  /\ IF Wants(sync[y].policy) THEN Go(y, "engage") ELSE sync' = [sync EXCEPT ![y] = Waiting]
  /\ UNCHANGED <<session, policyVars, tabVars, heard, netVars, historyVars, happens>>

\* disengageLockdown
Disengage(y) ==
  /\ sync[y].step = "disengage"
  /\ lock' = NoLock
  /\ sync' = [sync EXCEPT ![y] = Waiting]
  /\ UNCHANGED <<session, policyVars, tabVars, heard, netVars, historyVars, happens>>

Referred(t) ==
  \/ t \in tabs \cup {home[u] : u \in tabs} \cup {lock.tab}
  \/ \E i \in DOMAIN news : news[i][2] = t
  \/ \E y \in Syncs : sync[y].tab = t
  \/ \E h \in Listeners : t \in {heard[h].tab, heard[h].seen.tab}

\* A tab is opened in a window there is, or with a window of its own.
Opened(t) ==
  /\ tabs' = tabs \cup {t}
  /\ \/ /\ \E u \in tabs : home' = [home EXCEPT ![t] = home[u]]
        /\ news' = Append(news, <<"created", t>>)
     \/ /\ home' = [home EXCEPT ![t] = t]
        /\ news' = news \o <<<<"window", t>>, <<"created", t>>>>

\* tabs.create: in a window there is, or, if there is none, in one Chrome opens for it.
Created(t) ==
  /\ ~Referred(t) /\ Opened(t)
  /\ IF tabs = {} THEN Happen ELSE home'[t] # t /\ UNCHANGED happens

\* Some tabs are closed, each window with its last one.
Gone(some) ==
  /\ tabs' = tabs \ some
  /\ home' = [t \in Tabs |-> IF t \in some THEN t ELSE home[t]]
  /\ news' = news \o SetToSeq({<<"removed", t>> : t \in tabs \cap some})

\* History: a run, or a listener, has a tab for the lock and has not stored it yet.
Pinning(y) == sync[y].step = "pin"
Replacing(h) == heard[h].step \in {"reopen", "keep"}

\* engageLockdown: the active tab becomes the lock tab, or a new one ...
Engage(y, t) ==
  /\ sync[y].step = "engage"
  /\ \/ t \in tabs /\ UNCHANGED <<openVars, happens>>
     \/ tabs = {} /\ Created(t)
  /\ suppress' = (tabs = {})
  /\ sync' = [sync EXCEPT ![y].step = "pin", ![y].tab = t]
  /\ UNCHANGED <<session, policyVars, lock, heard, netVars, historyVars>>

\* No window is open and Chrome opens none for it.
EngageFails(y) ==
  /\ sync[y].step = "engage" /\ tabs = {}
  /\ suppress' = TRUE
  /\ Throw(y)
  /\ UNCHANGED <<session, policyVars, lock, openVars, heard, netVars, historyVars, happens>>

\* ... the lock is stored (astray: a listener has another tab for it) ...
Pin(y) ==
  /\ Pinning(y)
  /\ lock' = [session |-> sync[y].policy, tab |-> sync[y].tab]
  /\ Go(y, "sweep")
  /\ astray' = (astray \/ \E h \in Listeners : Replacing(h))
  /\ windowless' = FALSE
  /\ UNCHANGED <<session, policyVars, tabVars, heard, netVars, happens>>

\* Mutant: the other tabs are left open.
SweepNothing(y) ==
  /\ sync[y].step = "sweep"
  /\ sync' = [sync EXCEPT ![y] = Waiting]
  /\ UNCHANGED <<session, policyVars, lock, tabVars, heard, netVars, historyVars, happens>>

\* ... and every other tab is closed.
Sweep(y) ==
  /\ sync[y].step = "sweep"
  /\ Gone(tabs \ {sync[y].tab})
  /\ sync' = [sync EXCEPT ![y] = Waiting]
  /\ UNCHANGED <<session, policyVars, lock, suppress, heard, netVars, historyVars, happens>>

-----------------------------------------------------------------------------
(* The tab listeners.                                                      *)

Hear(h, step, t) == heard' = [heard EXCEPT ![h] = [step |-> step, tab |-> t, seen |-> lock]]

\* Mutant: the guard's own tab is stored without looking whether a lock is on.
HandleTabCreatedUnchecked(h, t) ==
  /\ heard[h] = Quiet /\ news # <<>> /\ Head(news) = <<"created", t>>
  /\ news' = Tail(news)
  /\ suppress' = FALSE
  /\ IF suppress THEN Hear(h, "keep", t)
     ELSE IF lock = NoLock THEN UNCHANGED heard
     ELSE Hear(h, IF Past(lock.session) THEN "forget" ELSE "remove", t)
  /\ UNCHANGED <<session, policyVars, lock, tabs, home, sync, netVars, historyVars, happens>>

\* handleWindowCreated: a new window goes while a lock is on, whoever opened it.
HandleWindowCreated(h, t) ==
  /\ heard[h] = Quiet /\ news # <<>> /\ Head(news) = <<"window", t>>
  /\ news' = Tail(news)
  /\ IF lock = NoLock THEN UNCHANGED heard
     ELSE Hear(h, IF Past(lock.session) THEN "forget" ELSE "close", t)
  /\ UNCHANGED <<session, policyVars, lock, tabs, home, suppress, sync, netVars, historyVars, happens>>

\* handleTabCreated: the guard's own tab, or one to be removed while a lock is on.
HandleTabCreated(h, t) ==
  /\ heard[h] = Quiet /\ news # <<>> /\ Head(news) = <<"created", t>>
  /\ news' = Tail(news)
  /\ suppress' = FALSE
  /\ IF lock = NoLock THEN UNCHANGED heard
     ELSE Hear(h, IF Past(lock.session) THEN "forget" ELSE IF suppress THEN "keep" ELSE "remove", t)
  /\ UNCHANGED <<session, policyVars, lock, tabs, home, sync, netVars, historyVars, happens>>

\* handleLockTabRemoved (astray: the lock on that tab has still to be stored)
HandleLockTabRemoved(h, t) ==
  /\ heard[h] = Quiet /\ news # <<>> /\ Head(news) = <<"removed", t>>
  /\ news' = Tail(news)
  /\ IF lock = NoLock \/ (lock.tab # t /\ ~Past(lock.session)) THEN UNCHANGED heard
     ELSE Hear(h, IF Past(lock.session) THEN "forget" ELSE "reopen", t)
  /\ astray' = (\/ astray
                \/ \E y \in Syncs : Pinning(y) /\ sync[y].tab = t
                \/ \E k \in Listeners : heard[k].step = "keep" /\ heard[k].tab = t)
  /\ UNCHANGED <<session, policyVars, lock, tabs, home, suppress, sync, netVars, windowless, happens>>

ForgetLock(h) ==
  /\ heard[h].step = "forget"
  /\ lock' = NoLock
  /\ heard' = [heard EXCEPT ![h] = Quiet]
  /\ UNCHANGED <<session, policyVars, tabVars, sync, netVars, historyVars, happens>>

CloseWindow(h) ==
  /\ heard[h].step = "close"
  /\ Gone({t \in tabs : home[t] = heard[h].tab})
  /\ heard' = [heard EXCEPT ![h] = Quiet]
  /\ UNCHANGED <<session, policyVars, lock, suppress, sync, netVars, historyVars, happens>>

RemoveTab(h) ==
  /\ heard[h].step = "remove"
  /\ Gone({heard[h].tab})
  /\ heard' = [heard EXCEPT ![h] = Quiet]
  /\ UNCHANGED <<session, policyVars, lock, suppress, sync, netVars, historyVars, happens>>

\* The lock tab was closed: a new one ...
Reopen(h, t) ==
  /\ heard[h].step = "reopen"
  /\ suppress' = TRUE
  /\ Created(t)
  /\ heard' = [heard EXCEPT ![h].step = "keep", ![h].tab = t]
  /\ UNCHANGED <<session, policyVars, lock, sync, netVars, historyVars>>

\* ... or none, if it was the only one: its window has gone with it.
ReopenFails(h) ==
  /\ heard[h].step = "reopen" /\ tabs = {}
  /\ suppress' = TRUE
  /\ windowless' = TRUE
  /\ heard' = [heard EXCEPT ![h] = Quiet]
  /\ UNCHANGED <<session, policyVars, lock, openVars, sync, netVars, astray, happens>>

Kept(h) == [heard[h].seen EXCEPT !.tab = heard[h].tab]

\* History: another listener has, or will have, another tab for the lock.
OtherReplaces(h) ==
  \E k \in Listeners \ {h} : Replacing(k) /\ (heard[k].step = "reopen" \/ heard[k].tab # heard[h].tab)

\* ... and the lock as it was read, with that tab (astray: it is no longer what was
\* read, or somebody else has another tab for it).
KeepTab(h) ==
  /\ heard[h].step = "keep"
  /\ lock' = Kept(h)
  /\ heard' = [heard EXCEPT ![h] = Quiet]
  /\ astray' = (\/ astray \/ lock \notin {heard[h].seen, Kept(h)}
                \/ \E y \in Syncs : Pinning(y)
                \/ OtherReplaces(h))
  /\ windowless' = FALSE
  /\ UNCHANGED <<session, policyVars, tabVars, sync, netVars, happens>>

-----------------------------------------------------------------------------
(* The student, the network and Chrome.                                    *)

Busy == (\E y \in Syncs : sync[y] # Waiting) \/ (\E h \in Listeners : heard[h] # Quiet)

OpenTab(t) ==
  /\ Happen /\ ~Referred(t)
  /\ Opened(t)
  /\ UNCHANGED <<session, policyVars, lock, suppress, sync, heard, netVars, historyVars>>

CloseTab(t) ==
  /\ Happen /\ t \in tabs
  /\ Gone({t})
  /\ UNCHANGED <<session, policyVars, lock, suppress, sync, heard, netVars, historyVars>>

\* Chrome stops the worker: what it was doing and suppressNextTabCreated are lost.
WorkerStops ==
  /\ Happen /\ (Busy \/ suppress)
  /\ sync' = [y \in Syncs |-> Waiting]
  /\ heard' = [h \in Listeners |-> Quiet]
  /\ suppress' = FALSE
  /\ astray' = TRUE
  /\ UNCHANGED <<session, policyVars, lock, openVars, netVars, windowless>>

GoOffline ==
  /\ Happen /\ online
  /\ online' = FALSE
  /\ UNCHANGED <<session, policyVars, lock, tabVars, sync, heard, signedIn, historyVars>>

GoOnline ==
  /\ ~online
  /\ online' = TRUE
  /\ UNCHANGED <<session, policyVars, lock, tabVars, sync, heard, signedIn, historyVars, happens>>

\* getStoredJWT clears a token that is about to expire.
TokenExpires ==
  /\ Happen /\ signedIn
  /\ signedIn' = FALSE
  /\ UNCHANGED <<session, policyVars, lock, tabVars, sync, heard, online, historyVars>>

\* authenticate
SignIn ==
  /\ ~signedIn /\ online
  /\ signedIn' = TRUE
  /\ UNCHANGED <<session, policyVars, lock, tabVars, sync, heard, online, historyVars, happens>>

-----------------------------------------------------------------------------
SyncStep(y) ==
  \/ Fetch(y) \/ FetchFails(y) \/ ReleaseCached(y) \/ StorePolicy(y)
  \/ ReadRules(y) \/ UpdateRules(y) \/ UpdateRejected(y)
  \/ ApplyLockdownState(y) \/ Forget(y) \/ Disengage(y)
  \/ \E t \in Tabs : Engage(y, t)
  \/ EngageFails(y) \/ Pin(y) \/ Sweep(y)

ListenerStep(h) ==
  \/ \E t \in Tabs : \/ HandleWindowCreated(h, t) \/ HandleTabCreated(h, t)
                     \/ HandleLockTabRemoved(h, t) \/ Reopen(h, t)
  \/ ForgetLock(h) \/ CloseWindow(h) \/ RemoveTab(h) \/ ReopenFails(h) \/ KeepTab(h)

ServerSteps ==
  \/ \E l \in Sessions : \/ \E clock \in {"open", "running"} : StartLockdown(l, clock)
                         \/ EndLockdown(l) \/ TestEnds(l)
  \/ expireLockdownSessions

WorkerSteps ==
  \/ \E y \in Syncs : SyncStep(y)
  \/ \E h \in Listeners : ListenerStep(h)
  \/ WorkerStops

TabSteps == \E t \in Tabs : OpenTab(t) \/ CloseTab(t)
NetSteps == GoOffline \/ GoOnline \/ TokenExpires \/ SignIn

LockdownNext == ServerSteps \/ WorkerSteps \/ TabSteps \/ NetSteps

LockdownSpec == LockdownInit /\ [][LockdownNext]_lockdownVars

\* The alarm starts a run every minute, the worker runs on, cron runs every minute.
\* The network owes nothing.
LockdownFairness ==
  /\ \A y \in Syncs : WF_lockdownVars(SyncStep(y))
  /\ \A h \in Listeners : WF_lockdownVars(ListenerStep(h))
  /\ WF_lockdownVars(expireLockdownSessions) /\ WF_lockdownVars(SignIn)

-----------------------------------------------------------------------------
(* What must hold.                                                         *)

\* "Collapses the student to one tab": a device that is at rest with a lock on has the
\* lock tab open and no other, whatever the student opened and closed and however runs
\* and listeners overlapped, unless the worker stopped half way, the news that the tab
\* was closed came before the lock on it was stored, or a listener put a tab of its own
\* in its place while somebody else had another, or the lock it had read was gone. After
\* the only window was closed, and Chrome opened no other, the device has no tab at all:
\* a window the student opens is taken for an escape.
OneTab ==
  (~Busy /\ news = <<>> /\ lock # NoLock /\ ~astray) =>
     tabs = IF windowless THEN {} ELSE {lock.tab}

Free(l) == l \notin rules /\ lock.session # l

\* A test that is over lets go of the device, rules and lock, on the network or off it,
\* signed in or not. The exception is a device without a token whose cached policy no
\* longer names the test: nothing looks at its rules again before it has signed in.
FinishedTestLetsGo ==
  \A l \in Sessions : Past(l) ~> (Free(l) \/ (~signedIn /\ cached # l))

\* Runs that finish out of order, locks written back from a stale reading, a worker that
\* stops: in the end a device on the network is held to what the server has in force.
\* Only a lock cannot be put on, or moved to the next test, while no window is open.
DeviceFollowsServer ==
  <>[](online => /\ rules = {Effective}
                 /\ lock.session = Effective \/ (tabs = {} /\ Effective # Standard))

\* "A finished student must never stay locked waiting for the network."
NeverLockedOffline ==
  \A l \in Sessions : Past(l) ~> Free(l)
=============================================================================
