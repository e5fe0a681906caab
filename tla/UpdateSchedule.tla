--------------------------- MODULE UpdateSchedule ---------------------------
(***************************************************************************)
(* Scheduled updates of the cluster: the admin's calls in                  *)
(* backend/src/routes/ha.js and, on every node,                            *)
(* infrastructure/update-watcher/update-watcher.sh.                        *)
(*                                                                         *)
(* The primary's table has one active row per node. Once a minute a node's *)
(* watcher asks for its row, and when the row is due, or was left          *)
(* in_progress by a run that died, it runs install.sh and reports the      *)
(* outcome - to whatever row is active by then. A plan is one admin's      *)
(* scheduling of one version for every node.                               *)
(*                                                                         *)
(* External: install.sh, systemd (one run of the watcher at a time),       *)
(* Postgres (one statement is atomic; one active row per node).            *)
(***************************************************************************)
EXTENDS Naturals, FiniteSets

CONSTANTS
  UpdateNodes,
  Plans,        \* bound: the schedules admins make
  NoPlan,
  MaxMishaps    \* bound: calls that are lost, failed installs, reboots, cancellations

ASSUME NoPlanIsNone == NoPlan \notin Plans
ASSUME MishapsAreNat == MaxMishaps \in Nat

VARIABLES
  row,         \* row[n]: n's active row of update_schedule
  outcome,     \* outcome[n][p]: what became of plan p on n
  inserting,   \* inserting[p]: the nodes doScheduleUpdate has still to insert
  watch,       \* watch[n]: where n's update-watcher.sh is
  installed,   \* history: the plans an install that began under them succeeded for
  late,        \* history: the plans made while a run of the watcher was under way
               \* or the active row in_progress
  early,       \* history: the plans an install began under before they were due
  mishaps

updateVars == <<row, outcome, inserting, watch, installed, late, early, mishaps>>

NoRow == [status |-> "none", plan |-> NoPlan, due |-> FALSE]
Sleeping == [step |-> "idle", plan |-> NoPlan, result |-> "none"]

\* The table and the watchers keep their shape.
UpdateTypeOK ==
  /\ row \in [UpdateNodes -> [status : {"none", "pending", "in_progress"},
                              plan : Plans \cup {NoPlan}, due : BOOLEAN]]
  /\ outcome \in [UpdateNodes -> [Plans -> {"none", "open", "replaced", "cancelled",
                                            "completed", "failed"}]]
  /\ inserting \in [Plans -> SUBSET UpdateNodes]
  /\ watch \in [UpdateNodes -> [step : {"idle", "announce", "install", "running", "report"},
                                plan : Plans \cup {NoPlan},
                                result : {"none", "completed", "failed"}]]
  /\ installed \in [UpdateNodes -> SUBSET Plans]
  /\ late \in [UpdateNodes -> SUBSET Plans]
  /\ early \in [UpdateNodes -> SUBSET Plans]
  /\ mishaps \in 0 .. MaxMishaps

UpdateInit ==
  /\ row = [n \in UpdateNodes |-> NoRow]
  /\ outcome = [n \in UpdateNodes |-> [p \in Plans |-> "none"]]
  /\ inserting = [p \in Plans |-> UpdateNodes]
  /\ watch = [n \in UpdateNodes |-> Sleeping]
  /\ installed = [n \in UpdateNodes |-> {}]
  /\ late = [n \in UpdateNodes |-> {}]
  /\ early = [n \in UpdateNodes |-> {}]
  /\ mishaps = 0

Mishap == mishaps < MaxMishaps /\ mishaps' = mishaps + 1
Scheduled(n) == row[n].status # "none"

-----------------------------------------------------------------------------
(* On the primary.                                                         *)

\* doScheduleUpdate, one INSERT per node: a node with an active row gets that one
\* changed, its status stays.
InsertSchedule(n, p) ==
  /\ n \in inserting[p]
  /\ inserting' = [inserting EXCEPT ![p] = @ \ {n}]
  /\ row' = [row EXCEPT ![n] = [status |-> IF Scheduled(n) THEN @.status ELSE "pending",
                                plan |-> p, due |-> FALSE]]
  /\ outcome' = [outcome EXCEPT ![n] =
                   [q \in Plans |-> IF q = p THEN "open"
                                    ELSE IF @[q] = "open" THEN "replaced" ELSE @[q]]]
  /\ late' = [late EXCEPT ![n] =
                IF watch[n] # Sleeping \/ row[n].status = "in_progress" THEN @ \cup {p} ELSE @]
  /\ UNCHANGED <<watch, installed, early, mishaps>>

\* One of its INSERTs fails: the nodes after it are not scheduled.
InsertFails(p) ==
  /\ Mishap /\ inserting[p] # {}
  /\ inserting' = [inserting EXCEPT ![p] = {}]
  /\ UNCHANGED <<row, outcome, watch, installed, late, early>>

\* The active row of n ends.
Close(n, result) ==
  /\ row' = [row EXCEPT ![n] = NoRow]
  /\ outcome' = [outcome EXCEPT ![n] =
                   [q \in Plans |-> IF @[q] = "open" THEN result ELSE @[q]]]

\* doCancelSchedule, in_progress or not.
Cancel(n) ==
  /\ Mishap /\ Scheduled(n)
  /\ Close(n, "cancelled")
  /\ UNCHANGED <<inserting, watch, installed, late, early>>

\* scheduled_at is reached.
TimeComes(n) ==
  /\ Scheduled(n) /\ ~row[n].due
  /\ row' = [row EXCEPT ![n].due = TRUE]
  /\ UNCHANGED <<outcome, inserting, watch, installed, late, early, mishaps>>

-----------------------------------------------------------------------------
(* update-watcher.sh                                                       *)

Step(n, step) == watch' = [watch EXCEPT ![n].step = step]

\* Mutant: an in_progress row is somebody else's business.
WakeWhenPending(n) ==
  /\ watch[n].step = "idle"
  /\ row[n].status = "pending" /\ row[n].due
  /\ Step(n, "announce")
  /\ UNCHANGED <<row, outcome, inserting, installed, late, early, mishaps>>

\* Mutant: scheduled_at is not looked at.
WakeAnyTime(n) ==
  /\ watch[n].step = "idle"
  /\ Scheduled(n)
  /\ Step(n, "announce")
  /\ UNCHANGED <<row, outcome, inserting, installed, late, early, mishaps>>

\* GET /update-status: a pending row that is due, or an in_progress row, which can
\* only be the trace of a run that died. scheduled_at is not looked at then.
Wake(n) ==
  /\ watch[n].step = "idle"
  /\ (row[n].status = "pending" /\ row[n].due) \/ row[n].status = "in_progress"
  /\ Step(n, "announce")
  /\ UNCHANGED <<row, outcome, inserting, installed, late, early, mishaps>>

\* POST /update-complete with in_progress: the active row, if there still is one.
Announce(n) ==
  /\ watch[n].step = "announce"
  /\ row' = [row EXCEPT ![n].status = IF Scheduled(n) THEN "in_progress" ELSE @]
  /\ Step(n, "install")
  /\ UNCHANGED <<outcome, inserting, installed, late, early, mishaps>>

\* ... which may fail: "|| true".
AnnounceLost(n) ==
  /\ Mishap /\ watch[n].step = "announce"
  /\ Step(n, "install")
  /\ UNCHANGED <<row, outcome, inserting, installed, late, early>>

\* install.sh begins.
Install(n) ==
  LET p == row[n].plan
  IN /\ watch[n].step = "install"
     /\ watch' = [watch EXCEPT ![n].step = "running", ![n].plan = p]
     /\ early' = [early EXCEPT ![n] = IF Scheduled(n) /\ ~row[n].due THEN @ \cup {p} ELSE @]
     /\ UNCHANGED <<row, outcome, inserting, installed, late, mishaps>>

InstallSucceeds(n) ==
  /\ watch[n].step = "running"
  /\ watch' = [watch EXCEPT ![n].step = "report", ![n].result = "completed"]
  /\ installed' = [installed EXCEPT ![n] = @ \cup ({watch[n].plan} \ {NoPlan})]
  /\ UNCHANGED <<row, outcome, inserting, late, early, mishaps>>

InstallFails(n) ==
  /\ Mishap /\ watch[n].step = "running"
  /\ watch' = [watch EXCEPT ![n].step = "report", ![n].result = "failed"]
  /\ UNCHANGED <<row, outcome, inserting, installed, late, early>>

\* Mutant: a row that was cancelled is completed as well.
ReportToAllRows(n) ==
  /\ watch[n].step = "report"
  /\ row' = [row EXCEPT ![n] = NoRow]
  /\ outcome' = [outcome EXCEPT ![n] =
                   [q \in Plans |-> IF @[q] \in {"open", "cancelled"} THEN watch[n].result ELSE @[q]]]
  /\ watch' = [watch EXCEPT ![n] = Sleeping]
  /\ UNCHANGED <<inserting, installed, late, early, mishaps>>

\* POST /update-complete with the outcome, to the row that is active by now.
Report(n) ==
  /\ watch[n].step = "report"
  /\ Close(n, watch[n].result)
  /\ watch' = [watch EXCEPT ![n] = Sleeping]
  /\ UNCHANGED <<inserting, installed, late, early, mishaps>>

\* It was made and the answer lost: the script tries again.
ReportUnanswered(n) ==
  /\ Mishap /\ watch[n].step = "report"
  /\ Close(n, watch[n].result)
  /\ UNCHANGED <<inserting, watch, installed, late, early>>

\* The run ends without a report: the tries are used up, or the host reboots.
RunDies(n) ==
  /\ Mishap /\ watch[n] # Sleeping
  /\ watch' = [watch EXCEPT ![n] = Sleeping]
  /\ UNCHANGED <<row, outcome, inserting, installed, late, early>>

WatcherStep(n) ==
  Wake(n) \/ Announce(n) \/ Install(n) \/ InstallSucceeds(n) \/ Report(n)

UpdateNext ==
  \/ \E p \in Plans : InsertFails(p) \/ \E n \in UpdateNodes : InsertSchedule(n, p)
  \/ \E n \in UpdateNodes :
       \/ Cancel(n) \/ TimeComes(n) \/ WatcherStep(n)
       \/ AnnounceLost(n) \/ InstallFails(n) \/ ReportUnanswered(n) \/ RunDies(n)

UpdateSpec == UpdateInit /\ [][UpdateNext]_updateVars

\* systemd starts the script every minute and it runs on; time passes.
UpdateFairness ==
  \A n \in UpdateNodes : WF_updateVars(WatcherStep(n)) /\ WF_updateVars(TimeComes(n))

-----------------------------------------------------------------------------
(* What must hold.                                                         *)

\* A plan that is recorded as completed on a node was installed there: an install
\* that began while it was the node's plan succeeded. The exception is a plan made
\* over a run that was under way, which that run's report closes.
CompletedWasInstalled ==
  \A n \in UpdateNodes : \A p \in Plans :
    outcome[n][p] = "completed" => p \in installed[n] \cup late[n]

\* No update begins before its time, except for a plan made over a run that was
\* under way or had died: it takes over in_progress, and is started at once.
NotBeforeItsTime == \A n \in UpdateNodes : early[n] \subseteq late[n]

\* "Without this, a crashed run left the row stuck at in_progress forever, blocking
\* every future update": a schedule ends, whatever died on the way.
EveryScheduleEnds ==
  \A n \in UpdateNodes : Scheduled(n) ~> ~Scheduled(n)
=============================================================================
