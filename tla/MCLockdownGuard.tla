--------------------------- MODULE MCLockdownGuard ---------------------------
(***************************************************************************)
(* One student for TLC, in three parts: what the student does with the     *)
(* tabs during a test; several tests, on and off the network, one run of   *)
(* syncPolicy at a time; one test, runs that overlap and no sign-out.      *)
(***************************************************************************)
EXTENDS LockdownGuard, TLC

CONSTANTS FirstTest, FirstSync, FirstTab, HappensInTests

VARIABLE part

OneTest == \A l \in Sessions \ {FirstTest} : session'[l].status = "free"
OpenEnded == \A l \in Sessions : session'[l].clock = "open"
OneRun == \A y \in Syncs \ {FirstSync} : sync'[y] = Waiting

InPart ==
  /\ part = "tabs" => OneTest /\ OpenEnded /\ OneRun
  /\ part = "tests" => OneRun /\ happens' <= HappensInTests
  /\ part = "overlap" => OneTest /\ signedIn' /\ happens' <= 1
  /\ UNCHANGED part

\* Which tab is open at first makes no difference.
MCLockdownInit == LockdownInit /\ tabs = {FirstTab} /\ part \in {"tabs", "tests", "overlap"}

MCLockdownSpec ==
  /\ MCLockdownInit
  /\ [][/\ \/ ServerSteps \/ WorkerSteps
           \/ part = "tabs" /\ TabSteps
           \/ part # "tabs" /\ NetSteps
        /\ InPart]_<<lockdownVars, part>>

\* LockdownFairness for the runs the part has.
FairLockdownSpec ==
  /\ MCLockdownSpec
  /\ \A y \in Syncs : WF_<<lockdownVars, part>>(SyncStep(y) /\ InPart)
  /\ \A h \in Listeners : WF_lockdownVars(ListenerStep(h))
  /\ WF_lockdownVars(expireLockdownSessions) /\ WF_lockdownVars(SignIn)
=============================================================================
