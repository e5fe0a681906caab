-------------------------- MODULE DnsDecisionProofs --------------------------
(***************************************************************************)
(* What the answer to a query says about the world it was asked in, for    *)
(* any situations, outages and number of changes during the query.         *)
(*                                                                         *)
(* The query reads at three instants, so what it holds need not be true of *)
(* any. The invariant names, for what has been read so far, a situation    *)
(* there has been that it is true of: one for the answer as a whole while  *)
(* at most one thing changed, and one per instant however much changed.    *)
(***************************************************************************)
EXTENDS DnsDecision, TLAPS

Entry == [action : Actions, reason : Reasons]

\* What the lookups of ReadAll found is true of w.
Fits(g, w) ==
  /\ g.device = w.device /\ g.floor = w.floor /\ g.subnet = w.subnet /\ g.global = w.global
  /\ g.override = w.override /\ g.dryRun = w.dryRun
  /\ g.listed = (IF w.listed THEN "yes" ELSE "no") /\ g.category = "yes"

\* So is the policy the student was found to have.
FitsAll(g, w) == Fits(g, w) /\ (g.device => g.student = w.student)

\* The situations there have been, up to the first change.
HeldIsHistory ==
  pc # "idle" =>
    /\ world \in held
    /\ changes = 0 => held = {world}
    /\ changes = 1 => \E w \in Worlds, f \in Aspects :
                        held = {w, world} /\ \E v : world = [w EXCEPT ![f] = v]

\* What was read is true of one situation.
ReadsFit ==
  faults = 0 /\ changes <= 1 =>
    /\ pc = "lookups" => \E w \in held : w.zone = "none"
    /\ pc = "policy" => \E w \in held : w.zone = "none" /\ Fits(got, w)
    /\ pc \in {"decide", "forward"} => \E w \in held : w.zone = "none" /\ FitsAll(got, w)

\* What was read in one instant is true of one situation.
ReadsFitEach ==
  faults = 0 =>
    /\ pc \in {"policy", "decide", "forward"} => \E w \in held : Fits(got, w)
    /\ pc \in {"decide", "forward"} /\ got.device => \E w \in held : got.student = w.student

\* What is about to be forwarded was let through, or would have been blocked and
\* has its entry in the log.
Forwarded ==
  /\ pc \notin {"forward", "done"} => ~quiet /\ log = <<>>
  /\ pc = "forward" =>
       \/ ~quiet /\ Decision(got) = "none" /\ log = <<>>
       \/ /\ quiet /\ Decision(got) # "none" /\ got.dryRun
          /\ \E r \in Reasons : log = <<[action |-> "dry_run_blocked", reason |-> r]>>
  /\ log = <<>> \/ \E e \in Entry : log = <<e>>

Answers == OneInstant /\ RestrictionHolds /\ LogTellsTheAnswer

DecisionInv == TypeOK /\ HeldIsHistory /\ ReadsFit /\ ReadsFitEach /\ Forwarded /\ Answers

-----------------------------------------------------------------------------
\* A change leaves the other aspects of a situation alone.
LEMMA OneAspect ==
  ASSUME NEW w \in World, NEW f \in Aspects, NEW v
  PROVE  LET x == [w EXCEPT ![f] = v] IN
         /\ f # "zone" => x.zone = w.zone
         /\ f # "device" => x.device = w.device
         /\ f # "student" => x.student = w.student
         /\ f # "floor" => x.floor = w.floor
         /\ f # "subnet" => x.subnet = w.subnet
         /\ f # "global" => x.global = w.global
         /\ f # "override" => x.override = w.override
         /\ f # "dryRun" => x.dryRun = w.dryRun
         /\ f # "listed" => x.listed = w.listed
BY DEF World, Aspects

LEMMA PolicyFields ==
  ASSUME NEW p \in Policy
  PROVE  /\ p.mode \in Modes /\ p.sites \in BOOLEAN /\ p.allows \in BOOLEAN
         /\ p.blocks \in BOOLEAN /\ p.denyAll \in BOOLEAN
BY DEF Policy

LEMMA WorldFields ==
  ASSUME NEW w \in World
  PROVE  /\ w.zone \in {"none", "local", "forward"} /\ w.device \in BOOLEAN
         /\ w.student \in Policy /\ w.floor \in Policy /\ w.subnet \in Policy \cup {NoPolicy}
         /\ w.global \in BOOLEAN /\ w.override \in BOOLEAN /\ w.dryRun \in BOOLEAN
         /\ w.listed \in BOOLEAN
BY DEF World

Got == [device : BOOLEAN, student : Policy, floor : Policy,
        subnet : Policy \cup {NoPolicy}, global : BOOLEAN,
        override : BOOLEAN, dryRun : BOOLEAN, listed : Checks, category : Checks]

LEMMA GotFields ==
  ASSUME NEW g \in Got
  PROVE  /\ g.device \in BOOLEAN /\ g.student \in Policy /\ g.floor \in Policy
         /\ g.subnet \in Policy \cup {NoPolicy} /\ g.global \in BOOLEAN /\ g.override \in BOOLEAN
         /\ g.dryRun \in BOOLEAN /\ g.listed \in Checks /\ g.category \in Checks
         /\ InForce(g) \in Policy
<1>1. /\ g.device \in BOOLEAN /\ g.student \in Policy /\ g.floor \in Policy
      /\ g.subnet \in Policy \cup {NoPolicy} /\ g.global \in BOOLEAN /\ g.override \in BOOLEAN
      /\ g.dryRun \in BOOLEAN /\ g.listed \in Checks /\ g.category \in Checks
  BY DEF Got
<1> QED
  BY <1>1 DEF InForce

LEMMA DefaultIsPolicy == DefaultPolicy \in Policy /\ Nothing \in Got
BY DEF DefaultPolicy, Policy, Modes, Nothing, Got, Checks

LEMMA DecisionIsReason ==
  ASSUME NEW g \in Got
  PROVE  /\ Decision(g) \in {"none", "penalty_box", "lesson_mode", "default_deny",
                             "safety_check_unavailable", "blocklist", "category"}
BY DEF Decision, Ordinary, Screen

\* The order of the layers comes to what each is for.
LEMMA DecisionIsVerdict ==
  ASSUME NEW g \in Got, NEW w \in World, FitsAll(g, w)
  PROVE  Decision(g) = "none" <=> Opened(w) \/ ~Filtered(w)
<1>1. InForce(g) = InForce(w)
  BY WorldFields DEF FitsAll, Fits, InForce
<1> DEFINE p == InForce(w)
<1>2. p \in Policy
  BY WorldFields DEF InForce
<1>3. p.mode \in Modes /\ p.sites \in BOOLEAN /\ p.allows \in BOOLEAN
      /\ p.blocks \in BOOLEAN /\ p.denyAll \in BOOLEAN
  BY <1>2, PolicyFields
<1>4. /\ g.global = w.global /\ g.override = w.override
      /\ g.listed = (IF w.listed THEN "yes" ELSE "no") /\ g.category = "yes"
  BY DEF FitsAll, Fits
<1>5. Screen(g, p) = "none" <=> ~w.listed /\ ~p.blocks
  BY <1>4, <1>3, WorldFields DEF Screen
<1>6. Ordinary(g, p) = "none" <=>
        \/ p.mode = "standard" /\ w.override
        \/ ~(p.mode = "standard" /\ p.denyAll) /\ ~w.listed /\ ~p.blocks
  BY <1>3, <1>4, <1>5, WorldFields DEF Ordinary
<1>7. Decision(g) = "none" <=>
        \/ w.global \/ p.sites \/ p.allows
        \/ p.mode = "open"
        \/ p.mode \notin {"penalty_box", "lesson"} /\ Ordinary(g, p) = "none"
  BY <1>1, <1>3, <1>4, WorldFields DEF Decision
<1> HIDE DEF p
<1>8. Opened(w) <=> w.global \/ p.sites \/ p.allows \/ p.mode = "open"
                    \/ (p.mode = "standard" /\ w.override)
  BY DEF Opened, p
<1>9. Filtered(w) <=> p.mode \in {"lesson", "penalty_box"} \/ p.blocks \/ w.listed
                      \/ (p.mode = "standard" /\ p.denyAll)
  BY DEF Filtered, Restricts, p
<1> QED
  BY <1>3, <1>6, <1>7, <1>8, <1>9, WorldFields

\* In a lesson or a penalty box only the allow lists let a name through.
LEMMA RestrictedDecision ==
  ASSUME NEW g \in Got, g.device, Restricts(g.student), Decision(g) = "none"
  PROVE  g.global \/ g.student.sites \/ g.student.allows
BY DEF Decision, InForce, Restricts

-----------------------------------------------------------------------------
(* The steps.                                                              *)

LEMMA NoAnswerYet ==
  ASSUME pc' # "done"
  PROVE  Answers'
BY DEF Answers, OneInstant, RestrictionHolds, Answered, LogTellsTheAnswer

\* The types, in the form the steps use them.
LEMMA Types ==
  ASSUME TypeOK
  PROVE  /\ world \in Worlds /\ world \in World /\ held \subseteq Worlds /\ held \subseteq World
         /\ got \in Got /\ quiet \in BOOLEAN
         /\ answer \in Entry /\ changes \in Nat /\ faults \in Nat /\ MaxEvents \in Nat
         /\ changes + faults <= MaxEvents
BY DecisionAssumption DEF TypeOK, Got, Entry

\* A log of at most one entry has the type.
LEMMA TypesAfter ==
  ASSUME world' \in Worlds,
         pc' \in {"idle", "zones", "lookups", "policy", "decide", "forward", "done"},
         got' \in Got, quiet' \in BOOLEAN, answer' \in Entry, held' \subseteq Worlds,
         changes' \in Nat, faults' \in Nat, changes' + faults' <= MaxEvents,
         log' = <<>> \/ \E e \in Entry : log' = <<e>>
  PROVE  TypeOK'
<1>1. \A i \in DOMAIN log' : log'[i] \in Entry
  OBVIOUS
<1> QED
  BY <1>1 DEF TypeOK, Got, Entry

LEMMA ChangeKeeps ==
  ASSUME DecisionInv, Change
  PROVE  DecisionInv'
<1>1. /\ world \in World /\ world \in Worlds /\ held \subseteq Worlds /\ changes \in Nat
      /\ faults \in Nat /\ MaxEvents \in Nat /\ got \in Got /\ quiet \in BOOLEAN /\ answer \in Entry
  BY Types DEF DecisionInv
<1>2. PICK f \in Aspects : \E v : world' = [world EXCEPT ![f] = v]
  BY DEF Change
<1>3. /\ pc \notin {"idle", "done"} /\ changes + faults < MaxEvents /\ changes' = changes + 1
      /\ world' \in Worlds /\ held' = held \cup {world'}
      /\ UNCHANGED <<pc, got, quiet, answer, log, faults>>
  BY DEF Change
<1>4. Forwarded'
  BY <1>3 DEF DecisionInv, Forwarded
<1>5. TypeOK'
  BY <1>1, <1>3, TypesAfter DEF DecisionInv, TypeOK, Forwarded
<1>6. HeldIsHistory'
  <2>1. changes' # 0 /\ world' \in held'
    BY <1>1, <1>3
  <2>2. ASSUME changes' = 1 PROVE held' = {world, world'}
    <3>1. changes = 0
      BY <1>1, <1>3, <2>2
    <3>2. held = {world}
      BY <1>3, <3>1 DEF DecisionInv, HeldIsHistory
    <3> QED
      BY <1>3, <3>2
  <2> QED
    BY <1>1, <1>2, <2>1, <2>2 DEF HeldIsHistory
<1>7. ReadsFit'
  <2>1. changes' <= 1 => changes <= 1
    BY <1>1, <1>3
  <2> QED
    BY <1>3, <2>1 DEF DecisionInv, ReadsFit
<1>8. ReadsFitEach'
  BY <1>3 DEF DecisionInv, ReadsFitEach
<1>9. Answers'
  BY <1>3, NoAnswerYet
<1> QED
  BY <1>4, <1>5, <1>6, <1>7, <1>8, <1>9 DEF DecisionInv

LEMMA StartKeeps ==
  ASSUME DecisionInv, Start
  PROVE  DecisionInv'
<1>1. world \in Worlds /\ MaxEvents \in Nat
  BY Types DEF DecisionInv
<1>2. /\ pc' = "zones" /\ got' = Nothing /\ quiet' = FALSE /\ answer' = Pending /\ log' = <<>>
      /\ held' = {world} /\ changes' = 0 /\ faults' = 0 /\ world' = world
  BY DEF Start
<1>3. Pending \in Entry
  BY DEF Pending, Entry, Actions, Reasons
<1>4. TypeOK'
  <2>1. got' \in Got /\ answer' \in Entry /\ held' \subseteq Worlds /\ world' \in Worlds
    BY <1>1, <1>2, <1>3, DefaultIsPolicy
  <2>2. changes' \in Nat /\ faults' \in Nat /\ changes' + faults' <= MaxEvents
    BY <1>1, <1>2
  <2> QED
    BY <1>2, <2>1, <2>2, TypesAfter
<1>5. HeldIsHistory' /\ ReadsFit' /\ ReadsFitEach' /\ Forwarded'
  BY <1>2 DEF HeldIsHistory, ReadsFit, ReadsFitEach, Forwarded
<1>6. Answers'
  BY <1>2, NoAnswerYet
<1> QED
  BY <1>4, <1>5, <1>6 DEF DecisionInv

\* An infrastructure zone answers by itself.
LEMMA ReadZonesKeeps ==
  ASSUME DecisionInv, ReadZones
  PROVE  DecisionInv'
<1>1. /\ world \in World /\ world \in Worlds /\ held \subseteq Worlds /\ changes \in Nat
      /\ faults \in Nat /\ MaxEvents \in Nat /\ got \in Got /\ quiet \in BOOLEAN /\ answer \in Entry
      /\ changes + faults <= MaxEvents
  BY Types DEF DecisionInv
<1>2. /\ pc = "zones" /\ log = <<>> /\ ~quiet /\ world \in held
      /\ UNCHANGED <<world, got, quiet, held, changes>>
  BY DEF ReadZones, DecisionInv, Forwarded, HeldIsHistory
<1>3. HeldIsHistory'
  BY <1>2 DEF HeldIsHistory, DecisionInv
<1>4. ASSUME world.zone # "none", Answer("allowed", "none"), UNCHANGED faults,
             \/ log' = <<[action |-> "local", reason |-> "none"]>>
             \/ log' = <<>> /\ world.zone = "forward"
      PROVE  DecisionInv'
  <2>1. pc' = "done" /\ answer' = [action |-> "allowed", reason |-> "none"]
    BY <1>4 DEF Answer
  <2>2. answer' \in Entry /\ [action |-> "local", reason |-> "none"] \in Entry
    BY <2>1 DEF Entry, Actions, Reasons
  <2>3. TypeOK'
    BY <1>1, <1>2, <1>4, <2>1, <2>2, TypesAfter
  <2>4. ReadsFit' /\ ReadsFitEach'
    BY <2>1 DEF ReadsFit, ReadsFitEach
  <2>5. Forwarded'
    BY <1>4, <2>1, <2>2 DEF Forwarded
  <2>6. OneInstant'
    BY <1>2, <1>4, <2>1 DEF OneInstant, Answered, Verdict
  <2>7. RestrictionHolds'
    BY <1>2, <1>4 DEF RestrictionHolds
  <2>9. LogTellsTheAnswer'
    <3>1. CASE log' = <<[action |-> "local", reason |-> "none"]>>
      BY <2>1, <3>1 DEF LogTellsTheAnswer
    <3>2. CASE log' = <<>> /\ world.zone = "forward"
      BY <1>2, <2>1, <3>2 DEF LogTellsTheAnswer
    <3> QED
      BY <1>4, <3>1, <3>2
  <2> QED
    BY <1>3, <2>3, <2>4, <2>5, <2>6, <2>7, <2>9 DEF DecisionInv, Answers
<1>5. CASE /\ world.zone = "local"
           /\ LogQuery("local", "none") /\ Answer("allowed", "none") /\ UNCHANGED faults
  <2>1. log' = <<[action |-> "local", reason |-> "none"]>>
    BY <1>2, <1>5 DEF LogQuery
  <2> QED
    BY <1>4, <1>5, <2>1
<1>6. CASE /\ world.zone = "forward"
           /\ Answer("allowed", "none") /\ UNCHANGED <<log, faults>>
  BY <1>2, <1>4, <1>6
<1>7. CASE /\ pc' = "lookups"
           /\ IF world.zone = "none" THEN UNCHANGED faults ELSE Fault
           /\ UNCHANGED <<answer, log>>
  <2>1. /\ faults' \in Nat /\ changes + faults' <= MaxEvents
        /\ faults' = 0 => world.zone = "none"
    BY <1>1, <1>7 DEF Fault
  <2>2. TypeOK'
    BY <1>1, <1>2, <1>7, <2>1, TypesAfter
  <2>3. ReadsFit' /\ ReadsFitEach'
    BY <1>2, <1>7, <2>1 DEF ReadsFit, ReadsFitEach
  <2>4. Forwarded'
    BY <1>2, <1>7 DEF Forwarded
  <2>5. Answers'
    BY <1>7, NoAnswerYet
  <2> QED
    BY <1>3, <2>2, <2>3, <2>4, <2>5 DEF DecisionInv
<1> QED
  BY <1>5, <1>6, <1>7 DEF ReadZones

\* The lookups fit the situation of their instant, and the one the zones were
\* read in too, unless what has changed since is not the zone.
LEMMA ReadAllKeeps ==
  ASSUME DecisionInv, ReadAll
  PROVE  DecisionInv'
<1>1. /\ world \in World /\ world \in Worlds /\ held \subseteq Worlds /\ changes \in Nat
      /\ faults \in Nat /\ MaxEvents \in Nat /\ quiet \in BOOLEAN /\ answer \in Entry
      /\ changes + faults <= MaxEvents
  BY Types DEF DecisionInv
<1>2. /\ pc = "lookups" /\ log = <<>> /\ ~quiet /\ world \in held
      /\ pc' = IF got'.device THEN "policy" ELSE "decide"
      /\ UNCHANGED <<world, quiet, answer, log, held, changes>>
  BY DEF ReadAll, DecisionInv, Forwarded, HeldIsHistory
<1>3. HeldIsHistory'
  BY <1>2 DEF HeldIsHistory, DecisionInv
<1>4. /\ faults' \in Nat /\ changes + faults' <= MaxEvents
      /\ faults' = 0 => faults = 0 /\ got' = Result({}, "no")
      /\ \E lost \in SUBSET Lookups, unchecked \in {"unknown", "no"} : got' = Result(lost, unchecked)
  BY <1>1, DecisionAssumption DEF ReadAll, Fault
<1>5. got' \in Got
  <2>1. PICK lost \in SUBSET Lookups, unchecked \in {"unknown", "no"} : got' = Result(lost, unchecked)
    BY <1>4
  <2> QED
    BY <1>1, <2>1, WorldFields, DefaultIsPolicy DEF Result, Got, Checks
<1>6. TypeOK'
  BY <1>1, <1>2, <1>4, <1>5, TypesAfter
<1>7. faults' = 0 => Fits(got', world)
  BY <1>1, <1>4, WorldFields DEF Result, Fits
<1>8. ReadsFitEach'
  BY <1>2, <1>7 DEF ReadsFitEach
<1>9. faults' = 0 /\ changes <= 1 => \E w \in held : w.zone = "none" /\ Fits(got', w)
  <2> SUFFICES ASSUME faults' = 0, changes <= 1
               PROVE  \E w \in held : w.zone = "none" /\ Fits(got', w)
    OBVIOUS
  <2>1. PICK w \in held : w.zone = "none"
    BY <1>2, <1>4 DEF DecisionInv, ReadsFit
  <2>2. CASE w = world
    BY <1>7, <2>1, <2>2
  <2>3. CASE w # world
    <3>1. changes = 1
      BY <1>1, <1>2, <2>3 DEF DecisionInv, HeldIsHistory
    <3>2. PICK u \in Worlds, f \in Aspects :
                 held = {u, world} /\ \E v : world = [u EXCEPT ![f] = v]
      BY <1>2, <3>1 DEF DecisionInv, HeldIsHistory
    <3>3. u = w /\ u \in World
      BY <2>3, <3>2, DecisionAssumption
    <3>4. CASE f # "zone"
      BY <1>2, <1>7, <2>1, <3>2, <3>3, <3>4, OneAspect
    <3>5. CASE f = "zone"
      <4>1. /\ world.device = u.device /\ world.floor = u.floor /\ world.subnet = u.subnet
            /\ world.global = u.global /\ world.override = u.override
            /\ world.dryRun = u.dryRun /\ world.listed = u.listed
        BY <3>2, <3>3, <3>5, OneAspect
      <4>2. Fits(got', u)
        BY <1>7, <4>1 DEF Fits
      <4> QED
        BY <2>1, <3>3, <4>2
    <3> QED
      BY <3>4, <3>5
  <2> QED
    BY <2>2, <2>3
<1>10. ReadsFit'
  BY <1>2, <1>9 DEF ReadsFit, FitsAll
<1>11. Forwarded'
  BY <1>2 DEF Forwarded
<1>12. Answers'
  BY <1>2, NoAnswerYet
<1> QED
  BY <1>3, <1>6, <1>8, <1>10, <1>11, <1>12 DEF DecisionInv

\* The policy fits the situation the lookups fitted, or nothing but the policy has
\* changed since and what they found is still so.
LEMMA ReadPolicyKeeps ==
  ASSUME DecisionInv, ReadPolicy
  PROVE  DecisionInv'
<1>1. /\ world \in World /\ world \in Worlds /\ held \subseteq Worlds /\ changes \in Nat
      /\ faults \in Nat /\ MaxEvents \in Nat /\ quiet \in BOOLEAN /\ answer \in Entry
      /\ changes + faults <= MaxEvents /\ got \in Got
  BY Types DEF DecisionInv
<1>2. /\ pc = "policy" /\ pc' = "decide" /\ log = <<>> /\ ~quiet /\ world \in held
      /\ UNCHANGED <<world, quiet, answer, log, held, changes>>
  BY DEF ReadPolicy, DecisionInv, Forwarded, HeldIsHistory
<1>3. HeldIsHistory'
  BY <1>2 DEF HeldIsHistory, DecisionInv
<1>4. /\ faults' \in Nat /\ changes + faults' <= MaxEvents
      /\ faults' = 0 => faults = 0 /\ got' = [got EXCEPT !.student = world.student]
      /\ got' = [got EXCEPT !.student = world.student] \/ got' = got
  BY <1>1 DEF ReadPolicy, Fault
<1>5. got' \in Got
  BY <1>1, <1>4, WorldFields DEF Got
<1>6. TypeOK'
  BY <1>1, <1>2, <1>4, <1>5, TypesAfter
<1>7. ASSUME faults' = 0
      PROVE  got'.student = world.student /\ \A w : Fits(got, w) => Fits(got', w)
  BY <1>1, <1>4, <1>7 DEF Got, Fits
<1>8. ReadsFitEach'
  BY <1>2, <1>4, <1>7 DEF DecisionInv, ReadsFitEach
<1>9. ASSUME faults' = 0, changes <= 1
      PROVE  \E w \in held : w.zone = "none" /\ FitsAll(got', w)
  <2>1. PICK w \in held : w.zone = "none" /\ Fits(got', w)
    BY <1>2, <1>4, <1>7, <1>9 DEF DecisionInv, ReadsFit
  <2>2. CASE w.student = world.student
    BY <1>7, <1>9, <2>1, <2>2 DEF FitsAll
  <2>3. CASE w.student # world.student
    <3>1. changes = 1
      BY <1>1, <1>2, <1>9, <2>3 DEF DecisionInv, HeldIsHistory
    <3>2. PICK u \in Worlds, f \in Aspects :
                 held = {u, world} /\ \E v : world = [u EXCEPT ![f] = v]
      BY <1>2, <3>1 DEF DecisionInv, HeldIsHistory
    <3>3. u = w /\ u \in World
      BY <2>3, <3>2, DecisionAssumption
    <3>4. f = "student"
      BY <2>3, <3>2, <3>3, OneAspect
    <3>5. /\ world.device = u.device /\ world.floor = u.floor /\ world.subnet = u.subnet
          /\ world.global = u.global /\ world.override = u.override
          /\ world.dryRun = u.dryRun /\ world.listed = u.listed /\ world.zone = u.zone
      BY <3>2, <3>3, <3>4, OneAspect
    <3>6. Fits(got', world)
      BY <2>1, <3>3, <3>5 DEF Fits
    <3> QED
      BY <1>2, <1>7, <1>9, <2>1, <3>3, <3>5, <3>6 DEF FitsAll
  <2> QED
    BY <2>2, <2>3
<1>10. ReadsFit'
  BY <1>2, <1>9 DEF ReadsFit
<1>11. Forwarded'
  BY <1>2 DEF Forwarded
<1>12. Answers'
  BY <1>2, NoAnswerYet
<1> QED
  BY <1>3, <1>6, <1>8, <1>10, <1>11, <1>12 DEF DecisionInv

\* A step of the query that reads nothing.
QueryMoves == UNCHANGED <<world, got, held, changes>>

LEMMA HistoryKept ==
  ASSUME DecisionInv, pc # "idle", QueryMoves
  PROVE  HeldIsHistory'
BY DEF DecisionInv, HeldIsHistory, QueryMoves

\* What is blocked is blocked in the situation the reads fit.
LEMMA DecideKeeps ==
  ASSUME DecisionInv, Decide
  PROVE  DecisionInv'
<1>1. /\ world \in Worlds /\ held \subseteq Worlds /\ held \subseteq World /\ changes \in Nat
      /\ faults \in Nat /\ MaxEvents \in Nat /\ got \in Got /\ quiet \in BOOLEAN /\ answer \in Entry
      /\ changes + faults <= MaxEvents
  BY Types DEF DecisionInv
<1>2. /\ pc = "decide" /\ log = <<>> /\ ~quiet /\ QueryMoves /\ UNCHANGED faults
  BY DEF Decide, DecisionInv, Forwarded, QueryMoves
<1>3. HeldIsHistory'
  BY <1>2, HistoryKept
<1>4. Decision(got) \in Reasons
  BY <1>1, DecisionIsReason DEF Reasons
<1>5. CASE /\ pc' = "forward"
           /\ \/ Decision(got) = "none" /\ UNCHANGED <<quiet, answer, log>>
              \/ /\ Decision(got) # "none" /\ got.dryRun /\ quiet' = TRUE /\ UNCHANGED answer
                 /\ log' = <<[action |-> "dry_run_blocked", reason |-> Decision(got)]>>
  <2>1. [action |-> "dry_run_blocked", reason |-> Decision(got)] \in Entry
    BY <1>4 DEF Entry, Actions
  <2>2. log' = <<>> \/ \E e \in Entry : log' = <<e>>
    BY <1>2, <1>5, <2>1
  <2>3. quiet' \in BOOLEAN /\ answer' \in Entry
    BY <1>1, <1>5
  <2>4. TypeOK'
    BY <1>1, <1>2, <1>5, <2>2, <2>3, TypesAfter DEF QueryMoves
  <2>5. ReadsFit' /\ ReadsFitEach'
    BY <1>2, <1>5 DEF DecisionInv, ReadsFit, ReadsFitEach, QueryMoves
  <2>6. Forwarded'
    <3>1. got' = got /\ pc' = "forward"
      BY <1>2, <1>5 DEF QueryMoves
    <3>2. CASE Decision(got) = "none" /\ UNCHANGED <<quiet, answer, log>>
      BY <1>2, <3>1, <3>2 DEF Forwarded
    <3>3. CASE /\ Decision(got) # "none" /\ got.dryRun /\ quiet' = TRUE
               /\ log' = <<[action |-> "dry_run_blocked", reason |-> Decision(got)]>>
      BY <1>4, <2>2, <3>1, <3>3 DEF Forwarded
    <3> QED
      BY <1>5, <3>2, <3>3
  <2>7. Answers'
    BY <1>5, NoAnswerYet
  <2> QED
    BY <1>3, <2>4, <2>5, <2>6, <2>7 DEF DecisionInv
<1>6. CASE /\ pc' = "done" /\ Decision(got) # "none" /\ ~got.dryRun /\ UNCHANGED quiet
           /\ answer' = [action |-> "blocked", reason |-> Decision(got)]
           /\ log' = <<[action |-> "blocked", reason |-> Decision(got)]>>
  <2>1. [action |-> "blocked", reason |-> Decision(got)] \in Entry
    BY <1>4 DEF Entry, Actions
  <2>2. log' = <<>> \/ \E e \in Entry : log' = <<e>>
    BY <1>6, <2>1
  <2>3. TypeOK'
    BY <1>1, <1>2, <1>6, <2>1, <2>2, TypesAfter DEF QueryMoves
  <2>4. ReadsFit' /\ ReadsFitEach' /\ Forwarded'
    BY <1>6, <2>2 DEF ReadsFit, ReadsFitEach, Forwarded
  <2>5. ASSUME changes <= 1, faults = 0
        PROVE  \E w \in held : Verdict(w) = "blocked"
    <3>1. PICK w \in held : w.zone = "none" /\ FitsAll(got, w)
      BY <1>2, <2>5 DEF DecisionInv, ReadsFit
    <3>2. w \in World /\ w.dryRun = got.dryRun
      BY <1>1, <3>1 DEF FitsAll, Fits
    <3>3. ~(Opened(w) \/ ~Filtered(w))
      BY <1>1, <1>6, <3>1, <3>2, DecisionIsVerdict
    <3> QED
      BY <1>6, <3>1, <3>2, <3>3 DEF Verdict
  <2>6. OneInstant'
    BY <1>2, <1>6, <2>5 DEF OneInstant, Answered, QueryMoves, Verdict, Opened, Filtered, InForce
  <2>7. RestrictionHolds'
    BY <1>2, <1>6 DEF RestrictionHolds, QueryMoves
  <2>8. LogTellsTheAnswer'
    BY <1>6 DEF LogTellsTheAnswer
  <2> QED
    BY <1>3, <2>3, <2>4, <2>6, <2>7, <2>8 DEF DecisionInv, Answers
<1>7. \/ /\ pc' = "forward"
         /\ \/ Decision(got) = "none" /\ UNCHANGED <<quiet, answer, log>>
            \/ /\ Decision(got) # "none" /\ got.dryRun /\ quiet' = TRUE /\ UNCHANGED answer
               /\ log' = <<[action |-> "dry_run_blocked", reason |-> Decision(got)]>>
      \/ /\ pc' = "done" /\ Decision(got) # "none" /\ ~got.dryRun /\ UNCHANGED quiet
         /\ answer' = [action |-> "blocked", reason |-> Decision(got)]
         /\ log' = <<[action |-> "blocked", reason |-> Decision(got)]>>
  BY <1>2 DEF Decide, LogQuery, Answer
<1> QED
  BY <1>5, <1>6, <1>7

\* How an answer that was forwarded ends: let through, or noted as a dry run.
LEMMA ForwardedAnswer ==
  ASSUME DecisionInv, pc = "forward", pc' = "done", QueryMoves, UNCHANGED <<quiet, faults>>,
         \/ quiet /\ answer' = [action |-> "dry_run_blocked", reason |-> "none"] /\ log' = log
         \/ /\ ~quiet /\ log' = <<answer'>>
            /\ answer' \in {[action |-> "allowed", reason |-> "none"],
                            [action |-> "blocked", reason |-> "unresolvable"]}
  PROVE  DecisionInv'
<1>1. /\ world \in Worlds /\ held \subseteq Worlds /\ held \subseteq World /\ changes \in Nat
      /\ faults \in Nat /\ MaxEvents \in Nat /\ got \in Got /\ quiet \in BOOLEAN
      /\ changes + faults <= MaxEvents
  BY Types DEF DecisionInv
<1>2. /\ ~quiet => Decision(got) = "none" /\ log = <<>>
      /\ quiet => /\ Decision(got) # "none" /\ got.dryRun
                  /\ \E r \in Reasons : log = <<[action |-> "dry_run_blocked", reason |-> r]>>
  BY DEF DecisionInv, Forwarded
<1>3. answer' \in Entry
  BY DEF Entry, Actions, Reasons
<1>4. log' = <<>> \/ \E e \in Entry : log' = <<e>>
  <2>1. \A r \in Reasons : [action |-> "dry_run_blocked", reason |-> r] \in Entry
    BY DEF Entry, Actions
  <2> QED
    BY <1>1, <1>2, <1>3, <2>1
<1>5. HeldIsHistory'
  BY HistoryKept
<1>6. TypeOK'
  BY <1>1, <1>3, <1>4, TypesAfter DEF QueryMoves
<1>7. ReadsFit' /\ ReadsFitEach' /\ Forwarded'
  BY <1>4 DEF ReadsFit, ReadsFitEach, Forwarded
<1>8. ASSUME changes <= 1, faults = 0, answer'.reason # "unresolvable"
      PROVE  \E w \in held : answer'.action = Verdict(w)
  <2>1. PICK w \in held : w.zone = "none" /\ FitsAll(got, w)
    BY <1>8 DEF DecisionInv, ReadsFit
  <2>2. w \in World /\ w.dryRun = got.dryRun
    BY <1>1, <2>1 DEF FitsAll, Fits
  <2>3. Decision(got) = "none" <=> Opened(w) \/ ~Filtered(w)
    BY <1>1, <2>1, <2>2, DecisionIsVerdict
  <2> QED
    BY <1>1, <1>2, <1>8, <2>1, <2>2, <2>3 DEF Verdict
<1>9. OneInstant'
  <2>1. held' = held /\ changes' = changes
    BY DEF QueryMoves
  <2>2. \A w : Verdict(w)' = Verdict(w)
    BY DEF Verdict, Opened, Filtered, InForce
  <2> QED
    BY <1>8, <2>1, <2>2 DEF OneInstant, Answered
<1>10. RestrictionHolds'
  <2> SUFFICES ASSUME faults = 0, \A w \in held : w.device /\ Restricts(w.student),
                      answer'.action # "blocked"
               PROVE  \E w \in held : \/ w.zone # "none" \/ w.global \/ w.student.sites
                                      \/ w.student.allows \/ w.dryRun
    BY DEF RestrictionHolds, QueryMoves, Restricts
  <2>1. PICK u \in held : Fits(got, u)
    BY DEF DecisionInv, ReadsFitEach
  <2>2. got.device
    BY <2>1 DEF Fits
  <2>3. PICK v \in held : got.student = v.student
    BY <2>2 DEF DecisionInv, ReadsFitEach
  <2>4. CASE quiet
    BY <1>2, <2>1, <2>4 DEF Fits
  <2>5. CASE ~quiet
    <3>1. got.global \/ got.student.sites \/ got.student.allows
      BY <1>1, <1>2, <2>2, <2>3, <2>5, RestrictedDecision
    <3> QED
      BY <2>1, <2>3, <3>1 DEF Fits
  <2> QED
    BY <1>1, <2>4, <2>5
<1>12. LogTellsTheAnswer'
  <2>1. CASE quiet
    BY <1>2, <2>1 DEF LogTellsTheAnswer
  <2>2. CASE ~quiet
    BY <2>2 DEF LogTellsTheAnswer
  <2> QED
    BY <1>1, <2>1, <2>2
<1> QED
  BY <1>5, <1>6, <1>7, <1>9, <1>10, <1>12 DEF DecisionInv, Answers

LEMMA ForwardKeeps ==
  ASSUME DecisionInv, Resolved \/ Unresolvable
  PROVE  DecisionInv'
<1>1. /\ pc = "forward" /\ pc' = "done" /\ QueryMoves /\ UNCHANGED <<quiet, faults>>
      /\ quiet \in BOOLEAN
  BY DEF Resolved, Unresolvable, Answer, QueryMoves, DecisionInv, TypeOK
<1>2. ~quiet => log = <<>>
  BY <1>1 DEF DecisionInv, Forwarded
<1>3. \/ quiet /\ answer' = [action |-> "dry_run_blocked", reason |-> "none"] /\ log' = log
      \/ /\ ~quiet /\ log' = <<answer'>>
         /\ answer' \in {[action |-> "allowed", reason |-> "none"],
                         [action |-> "blocked", reason |-> "unresolvable"]}
  <2> DEFINE allowed == [action |-> "allowed", reason |-> "none"]
             blocked == [action |-> "blocked", reason |-> "unresolvable"]
  <2>1. CASE quiet
    BY <2>1 DEF Resolved, Unresolvable, Answer
  <2>2. CASE ~quiet /\ Resolved
    <3>1. log' = Append(log, allowed) /\ answer' = allowed
      BY <2>2 DEF Resolved, Answer, LogQuery
    <3> QED
      BY <1>2, <2>2, <3>1
  <2>3. CASE ~quiet /\ Unresolvable
    <3>1. log' = Append(log, blocked) /\ answer' = blocked
      BY <2>3 DEF Unresolvable, Answer, LogQuery
    <3> QED
      BY <1>2, <2>3, <3>1
  <2> QED
    BY <1>1, <2>1, <2>2, <2>3
<1> QED
  BY <1>1, <1>3, ForwardedAnswer

LEMMA ForwardThrowsKeeps ==
  ASSUME DecisionInv, ForwardThrows
  PROVE  DecisionInv'
<1>1. /\ world \in Worlds /\ held \subseteq Worlds /\ changes \in Nat
      /\ faults \in Nat /\ MaxEvents \in Nat /\ got \in Got /\ quiet \in BOOLEAN
  BY Types DEF DecisionInv
<1>2. /\ pc = "forward" /\ pc' = "done" /\ QueryMoves /\ UNCHANGED <<quiet, log>>
      /\ changes + faults < MaxEvents /\ faults' = faults + 1
      /\ answer' = [action |-> "servfail", reason |-> "none"]
  BY DEF ForwardThrows, Fault, Answer, QueryMoves
<1>3. /\ log = <<>> \/ \E r \in Reasons : log = <<[action |-> "dry_run_blocked", reason |-> r]>>
      /\ log = <<>> \/ \E e \in Entry : log = <<e>>
  BY <1>2 DEF DecisionInv, Forwarded
<1>4. answer' \in Entry /\ faults' \in Nat /\ changes + faults' <= MaxEvents
  BY <1>1, <1>2 DEF Entry, Actions, Reasons
<1>5. TypeOK'
  BY <1>1, <1>2, <1>3, <1>4, TypesAfter DEF QueryMoves
<1>6. HeldIsHistory'
  BY <1>2, HistoryKept
<1>7. ReadsFit' /\ ReadsFitEach' /\ Forwarded'
  BY <1>2, <1>3 DEF ReadsFit, ReadsFitEach, Forwarded
<1>8. OneInstant' /\ RestrictionHolds'
  BY <1>2 DEF OneInstant, RestrictionHolds, Answered
<1>9. LogTellsTheAnswer'
  BY <1>2, <1>3 DEF LogTellsTheAnswer
<1> QED
  BY <1>5, <1>6, <1>7, <1>8, <1>9 DEF DecisionInv, Answers

LEMMA DecisionInit == Init => DecisionInv
<1> SUFFICES ASSUME Init PROVE DecisionInv
  OBVIOUS
<1>1. Pending \in Entry /\ Nothing \in Got /\ MaxEvents \in Nat
  BY DefaultIsPolicy, DecisionAssumption DEF Pending, Entry, Actions, Reasons
<1>2. TypeOK
  <2>1. changes \in Nat /\ faults \in Nat /\ changes + faults <= MaxEvents
    BY <1>1 DEF Init
  <2>2. \A i \in DOMAIN log : log[i] \in Entry
    BY DEF Init
  <2>3. got \in Got /\ answer \in Entry
    BY <1>1 DEF Init
  <2>4. /\ world \in Worlds /\ held \subseteq Worlds /\ quiet \in BOOLEAN
        /\ pc \in {"idle", "zones", "lookups", "policy", "decide", "forward", "done"}
    BY DEF Init
  <2> QED
    BY <2>1, <2>2, <2>3, <2>4 DEF TypeOK, Got, Entry
<1>3. HeldIsHistory /\ ReadsFit /\ ReadsFitEach /\ Forwarded
  BY DEF Init, HeldIsHistory, ReadsFit, ReadsFitEach, Forwarded
<1>4. Answers
  BY DEF Init, Answers, OneInstant, RestrictionHolds, Answered,
    LogTellsTheAnswer
<1> QED
  BY <1>2, <1>3, <1>4 DEF DecisionInv

LEMMA DecisionStutter == DecisionInv /\ UNCHANGED vars => DecisionInv'
BY DEF vars, DecisionInv, TypeOK, HeldIsHistory, ReadsFit, ReadsFitEach, Forwarded, Answers,
  OneInstant, RestrictionHolds, Answered, LogTellsTheAnswer

\* resolveQuery keeps DecisionInv, and so does whatever changes while it awaits.
THEOREM DecisionInvariance == Spec => []DecisionInv
<1>1. DecisionInv /\ Next => DecisionInv'
  BY ChangeKeeps, StartKeeps, ReadZonesKeeps, ReadAllKeeps, ReadPolicyKeeps, DecideKeeps,
    ForwardKeeps, ForwardThrowsKeeps DEF Next
<1> QED
  BY <1>1, DecisionInit, DecisionStutter, PTL DEF Spec

\* What the query holds, answers and logs keeps its shape.
THEOREM DecisionTypeCorrect == Spec => []TypeOK
<1>1. DecisionInv => TypeOK
  BY DEF DecisionInv
<1> QED
  BY <1>1, DecisionInvariance, PTL

\* One change during resolveQuery, of whatever kind and at whatever await, never
\* yields an answer that no instant would have given.
THEOREM AnswersAreOfOneInstant == Spec => []OneInstant
<1>1. DecisionInv => OneInstant
  BY DEF DecisionInv, Answers
<1> QED
  BY <1>1, DecisionInvariance, PTL

\* A lesson or penalty box in force throughout resolveQuery is not lifted by
\* overrides, by floor or subnet policies, or by any number of changes.
THEOREM RestrictionsHold == Spec => []RestrictionHolds
<1>1. DecisionInv => RestrictionHolds
  BY DEF DecisionInv, Answers
<1> QED
  BY <1>1, DecisionInvariance, PTL

\* Infrastructure zones and SERVFAIL aside, every answer has its one entry in the log
\* (logQuery), and the entry says the same.
THEOREM LogIsTruthful == Spec => []LogTellsTheAnswer
<1>1. DecisionInv => LogTellsTheAnswer
  BY DEF DecisionInv, Answers
<1> QED
  BY <1>1, DecisionInvariance, PTL
=============================================================================
