----------------------------- MODULE DnsDecision -----------------------------
(***************************************************************************)
(* One DNS query in the engine: resolveQuery of dns-engine/src/resolver.js *)
(* with the lookups of policyCache.js, blocklistLoader.js and              *)
(* categoryLookup.js it awaits.                                            *)
(*                                                                         *)
(* The query reads what it needs at three instants (zones, then eight      *)
(* lookups, then the student's policy) while sessions start and end,       *)
(* overrides are granted, dry run is switched and devices change hands.    *)
(* `world` is what those lookups would return now, for the name, record    *)
(* type and source address of the query.                                   *)
(***************************************************************************)
EXTENDS Naturals, Sequences, FiniteSets

CONSTANTS
  Worlds,        \* bound: the situations a run looks at
  NoPolicy,      \* no subnet assignment covers the source address
  Outages,       \* bound: sets of lookups that may fail together
  MaxEvents      \* bound: changes of the world and failures during one query

Modes == {"standard", "open", "lesson", "penalty_box", "lockdown"}

\* A resolved policy, as far as the name is concerned. Its resolvedAllowDomains
\* are the session's or restriction's own sites and the policy's allow rules; its
\* deny rules are no business of the resolver.
Policy == [mode : Modes,
           sites : BOOLEAN,      \* on allowed_domains of the session or restriction
           allows : BOOLEAN,     \* matched by an allow rule of the policy
           blocks : BOOLEAN,     \* in one of its blockedCategories
           denyAll : BOOLEAN]    \* defaultAction = 'block'

World == [zone : {"none", "local", "forward"},
          device : BOOLEAN,      \* device:<ip> names a student
          student : Policy,      \* that student's effective policy
          floor : Policy, subnet : Policy \cup {NoPolicy},
          global : BOOLEAN,      \* on the global allowlist
          override : BOOLEAN,    \* an override code is in force for it
          dryRun : BOOLEAN,
          listed : BOOLEAN]      \* in classguard:blocklist

Lookups == {"device", "subnet", "floor", "dryRun", "global", "override",
            "listed", "category"}

ASSUME DecisionAssumption ==
  /\ NoPolicy \notin Policy
  /\ Worlds \subseteq World /\ Worlds # {}
  /\ Outages \subseteq SUBSET Lookups
  /\ MaxEvents \in Nat

VARIABLES
  world,
  pc,        \* idle, zones, lookups, policy, decide, forward, done
  got,       \* results of the lookups
  quiet,     \* the query is forwarded by dryRunForward, which does not log
  answer,
  log,       \* logQuery calls of this query
  held,      \* history: the worlds there have been since the query came in
  changes, faults

vars == <<world, pc, got, quiet, answer, log, held, changes, faults>>

\* DEFAULT_POLICY of policyCache.js
DefaultPolicy ==
  [mode |-> "standard", sites |-> FALSE, allows |-> FALSE, blocks |-> FALSE, denyAll |-> FALSE]

Nothing == [device |-> FALSE, student |-> DefaultPolicy, floor |-> DefaultPolicy,
            subnet |-> NoPolicy, global |-> FALSE, override |-> FALSE,
            dryRun |-> FALSE, listed |-> "no", category |-> "no"]

Pending == [action |-> "none", reason |-> "none"]

Checks  == {"yes", "no", "unknown"}
Reasons == {"none", "penalty_box", "lesson_mode", "default_deny",
            "safety_check_unavailable", "blocklist", "category", "unresolvable"}
Actions == {"none", "allowed", "blocked", "dry_run_blocked", "local", "servfail"}

TypeOK ==
  /\ world \in Worlds
  /\ pc \in {"idle", "zones", "lookups", "policy", "decide", "forward", "done"}
  /\ got \in [device : BOOLEAN, student : Policy, floor : Policy,
              subnet : Policy \cup {NoPolicy}, global : BOOLEAN,
              override : BOOLEAN, dryRun : BOOLEAN, listed : Checks, category : Checks]
  /\ quiet \in BOOLEAN
  /\ answer \in [action : Actions, reason : Reasons]
  /\ \A i \in DOMAIN log :
       log[i] \in [action : Actions, reason : Reasons]
  /\ held \subseteq Worlds
  /\ changes \in Nat /\ faults \in Nat /\ changes + faults <= MaxEvents

Init ==
  /\ world \in Worlds
  /\ pc = "idle" /\ got = Nothing /\ quiet = FALSE
  /\ answer = Pending /\ log = <<>>
  /\ held = {} /\ changes = 0 /\ faults = 0

Fault == changes + faults < MaxEvents /\ faults' = faults + 1

-----------------------------------------------------------------------------
(* The world moves: one thing at a time, whatever the query is doing.      *)

Aspects == {"zone", "device", "student", "floor", "subnet", "global",
            "override", "dryRun", "listed"}

Values == [f \in Aspects |-> { w[f] : w \in Worlds }]

Change ==
  /\ pc \notin {"idle", "done"}
  /\ changes + faults < MaxEvents
  /\ changes' = changes + 1
  /\ \E f \in Aspects : \E v \in Values[f] \ {world[f]} :
       world' = [world EXCEPT ![f] = v]
  /\ world' \in Worlds
  /\ held' = held \cup {world'}
  /\ UNCHANGED <<pc, got, quiet, answer, log, faults>>

-----------------------------------------------------------------------------
(* The query.                                                              *)

Start ==
  /\ pc \in {"idle", "done"}
  /\ pc' = "zones"
  /\ got' = Nothing /\ quiet' = FALSE
  /\ answer' = Pending /\ log' = <<>>
  /\ held' = {world} /\ changes' = 0 /\ faults' = 0
  /\ UNCHANGED world

Answer(action, reason) ==
  /\ pc' = "done"
  /\ answer' = [action |-> action, reason |-> reason]

\* The policy the lookups put in force. A student's own policy counts at DNS
\* level only while it is a lesson or a penalty box.
Restricts(p) == p.mode \in {"lesson", "penalty_box"}

\* Mutant: only a penalty box counts at DNS level.
InForcePenaltyOnly(g) ==
  IF g.device
  THEN IF g.student.mode = "penalty_box" THEN g.student ELSE g.floor
  ELSE IF g.subnet # NoPolicy THEN g.subnet ELSE g.floor

InForce(g) ==
  IF g.device
  THEN IF Restricts(g.student) THEN g.student ELSE g.floor
  ELSE IF g.subnet # NoPolicy THEN g.subnet ELSE g.floor

LogQuery(action, reason) == log' = Append(log, [action |-> action, reason |-> reason])

\* Steps 0 and 1. A failed read of the zones counts as no zone.
ReadZones ==
  /\ pc = "zones"
  /\ \/ /\ world.zone = "local"
        /\ LogQuery("local", "none") /\ Answer("allowed", "none") /\ UNCHANGED faults
     \/ /\ world.zone = "forward"
        /\ Answer("allowed", "none") /\ UNCHANGED <<log, faults>>
     \/ /\ pc' = "lookups"
        /\ IF world.zone = "none" THEN UNCHANGED faults ELSE Fault
        /\ UNCHANGED <<answer, log>>
  /\ UNCHANGED <<world, got, quiet, held, changes>>

\* The lookups of one Promise.all, sent in one pipelined round trip; those in
\* `lost` fail and leave their fallback. The two safety checks fail visibly
\* when exec() rejects; an error of a single command counts as no hit.
Result(lost, unchecked) ==
  [device   |-> world.device /\ "device" \notin lost,
   student  |-> DefaultPolicy,
   floor    |-> IF "floor" \in lost THEN DefaultPolicy ELSE world.floor,
   subnet   |-> IF "subnet" \in lost THEN NoPolicy ELSE world.subnet,
   global   |-> world.global /\ "global" \notin lost,
   override |-> world.override /\ "override" \notin lost,
   dryRun   |-> world.dryRun /\ "dryRun" \notin lost,
   listed   |-> IF "listed" \in lost THEN unchecked
                ELSE IF world.listed THEN "yes" ELSE "no",
   category |-> IF "category" \in lost THEN unchecked ELSE "yes"]

ReadAll ==
  /\ pc = "lookups"
  /\ \/ got' = Result({}, "no") /\ UNCHANGED faults
     \/ Fault /\ \E lost \in Outages, unchecked \in {"unknown", "no"} :
                   got' = Result(lost, unchecked)
  /\ pc' = IF got'.device THEN "policy" ELSE "decide"
  /\ UNCHANGED <<world, quiet, answer, log, held, changes>>

\* getPolicy of an identified student; with Redis or the backend out of reach
\* it is null or DEFAULT_POLICY, which come to the same.
ReadPolicy ==
  /\ pc = "policy"
  /\ \/ got' = [got EXCEPT !.student = world.student] /\ UNCHANGED faults
     \/ Fault /\ UNCHANGED got
  /\ pc' = "decide"
  /\ UNCHANGED <<world, quiet, answer, log, held, changes>>

\* Steps 7 and 7.5: the block list and the categories. "none" lets the query through.
Screen(g, p) ==
  IF g.listed = "unknown" THEN "safety_check_unavailable"
  ELSE IF g.listed = "yes" THEN "blocklist"
  ELSE IF g.category = "unknown" THEN "safety_check_unavailable"
  ELSE IF g.category = "yes" /\ p.blocks THEN "category"
  ELSE "none"

\* Mutant: default-deny comes before the override.
OrdinaryDenyFirst(g, p) ==
  IF p.mode = "standard" /\ p.denyAll THEN "default_deny"
  ELSE IF p.mode = "standard" /\ g.override THEN "none"
  ELSE Screen(g, p)

\* Steps 6.5 and 6.8: override codes and default-deny.
Ordinary(g, p) ==
  IF p.mode = "standard" /\ g.override THEN "none"
  ELSE IF p.mode = "standard" /\ p.denyAll THEN "default_deny"
  ELSE Screen(g, p)

\* Steps 4 to 7.5 in the order of the code; the first that applies decides.
Decision(g) ==
  LET p == InForce(g) IN
  IF g.global \/ p.sites \/ p.allows THEN "none"
  ELSE IF p.mode = "penalty_box" THEN "penalty_box"
  ELSE IF p.mode = "lesson" THEN "lesson_mode"
  ELSE IF p.mode = "open" THEN "none"
  ELSE Ordinary(g, p)

\* Under dry run what would be blocked is logged and forwarded.
Decide ==
  /\ pc = "decide"
  /\ LET reason == Decision(got)
     IN \/ /\ reason = "none"
           /\ pc' = "forward" /\ UNCHANGED <<quiet, answer, log>>
        \/ /\ reason # "none" /\ got.dryRun
           /\ pc' = "forward" /\ quiet' = TRUE
           /\ LogQuery("dry_run_blocked", reason) /\ UNCHANGED answer
        \/ /\ reason # "none" /\ ~got.dryRun
           /\ LogQuery("blocked", reason)
           /\ Answer("blocked", reason) /\ UNCHANGED quiet
  /\ UNCHANGED <<world, got, held, changes, faults>>

\* Mutant: a dry-run query is forwarded by forwardAndLog.
ResolvedAndLogged ==
  /\ pc = "forward"
  /\ LogQuery("allowed", "none")
  /\ Answer(IF quiet THEN "dry_run_blocked" ELSE "allowed", "none")
  /\ UNCHANGED <<world, got, quiet, held, changes, faults>>

\* forwardToUpstream found answers in its cache or upstream ...
Resolved ==
  /\ pc = "forward"
  /\ IF quiet
     THEN Answer("dry_run_blocked", "none") /\ UNCHANGED log
     ELSE LogQuery("allowed", "none") /\ Answer("allowed", "none")
  /\ UNCHANGED <<world, got, quiet, held, changes, faults>>

\* ... the name does not exist, no upstream answers, or caching the answer fails ...
Unresolvable ==
  /\ pc = "forward"
  /\ IF quiet
     THEN Answer("dry_run_blocked", "none") /\ UNCHANGED log
     ELSE /\ LogQuery("blocked", "unresolvable")
          /\ Answer("blocked", "unresolvable")
  /\ UNCHANGED <<world, got, quiet, held, changes, faults>>

\* ... or the cache lookup throws, and the server's handler sends SERVFAIL.
ForwardThrows ==
  /\ pc = "forward"
  /\ Fault
  /\ Answer("servfail", "none")
  /\ UNCHANGED <<world, got, quiet, log, held, changes>>

Next ==
  \/ Change
  \/ Start \/ ReadZones \/ ReadAll \/ ReadPolicy \/ Decide
  \/ Resolved \/ Unresolvable \/ ForwardThrows

Spec == Init /\ [][Next]_vars

-----------------------------------------------------------------------------
(* What the answer should be.                                              *)

\* The verdict on a world that stands still, by what each layer is for.
Opened(w) ==
  LET p == InForce(w) IN
    \/ w.global \/ p.sites \/ p.allows \/ p.mode = "open"
    \/ p.mode = "standard" /\ w.override

Filtered(w) ==
  LET p == InForce(w) IN
    \/ Restricts(p) \/ p.blocks \/ w.listed
    \/ p.mode = "standard" /\ p.denyAll

Verdict(w) ==
  IF w.zone # "none" \/ Opened(w) \/ ~Filtered(w) THEN "allowed"
  ELSE IF w.dryRun THEN "dry_run_blocked" ELSE "blocked"

Answered == pc = "done" /\ answer.action # "servfail" /\ answer.reason # "unresolvable"

\* Although resolveQuery reads the world at three instants, one change during
\* the query never yields an answer that no instant would have given: a session
\* that starts between the device lookup and getPolicy, a device that changes
\* hands, a dry run that ends, decide it either as before or as after.
OneInstant ==
  Answered /\ changes <= 1 /\ faults = 0
    => \E w \in held : answer.action = Verdict(w)

\* resolver.js on lesson and penalty_box: a restriction in force throughout the
\* query is not lifted by override codes, by an open or permissive floor or
\* subnet policy, or by whatever else changes meanwhile; only a listed site, the
\* global allowlist, an infrastructure zone or dry run lets the name through.
RestrictionHolds ==
  /\ Answered /\ faults = 0
  /\ \A w \in held : w.device /\ Restricts(w.student)
  /\ answer.action # "blocked"
  => \E w \in held :
       w.zone # "none" \/ w.global \/ w.student.sites \/ w.student.allows \/ w.dryRun

\* The log tells what the client got: each answer has exactly one entry with the
\* same action, infrastructure zones and SERVFAIL aside, and a query that ends
\* in SERVFAIL has at most the dry-run entry written before it was forwarded.
LogTellsTheAnswer ==
  pc = "done" =>
    \/ Len(log) = 1 /\ log[1].action = answer.action
    \/ Len(log) = 1 /\ log[1].action = "local" /\ answer.action = "allowed"
    \/ log = <<>> /\ answer.action = "allowed" /\ \E w \in held : w.zone = "forward"
    \/ answer.action = "servfail" /\ (log = <<>> \/ log[1].action = "dry_run_blocked")

\* resolver.js on the safety checks: "Fails CLOSED: if Redis can't be reached to
\* check the blocklist, we cannot verify safety, so the query is blocked" - a
\* listed name is not allowed because the lookup of the list failed.
FailsClosed ==
  /\ Answered /\ changes = 0
  /\ world.listed /\ Decision([got EXCEPT !.listed = "yes"]) # "none"
  => answer.action # "allowed"

\* policyResolver.js on the penalty box: "Its own allowed sites (approved "Allow
\* site..." requests) are the one exception to the block."
OnlyOwnSitesOpen ==
  /\ Answered /\ changes = 0 /\ faults = 0
  /\ world.device /\ world.student.mode = "penalty_box"
  /\ world.zone = "none" /\ ~world.global /\ ~world.dryRun
  => (answer.action = "allowed" => world.student.sites)
=============================================================================
