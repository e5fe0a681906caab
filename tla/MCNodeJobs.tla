----------------------------- MODULE MCNodeJobs -----------------------------
(***************************************************************************)
(* The background jobs of a node, for TLC. A behaviour is about one of     *)
(* two, which share nothing: its block lists or the scheduled updates.     *)
(***************************************************************************)
EXTENDS BlocklistSync, UpdateSchedule, TLC

CONSTANTS s1, s2, d1, d2

VARIABLE part

jobVars == <<blocklistVars, updateVars, part>>

\* Two sources: one loses a site and wins it back, of one the list is emptied.
ListVersions == s1 :> {{d1, d2}, {d1}} @@ s2 :> {{d2}, {}}
FirstLists == s1 :> {d1, d2} @@ s2 :> {d2}

NodeJobsInit == BlocklistInit /\ UpdateInit /\ part \in {"blocklists", "updates"}

NodeJobsSpec ==
  /\ NodeJobsInit
  /\ [][/\ \/ part = "blocklists" /\ BlocklistNext /\ UNCHANGED updateVars
           \/ part = "updates" /\ UpdateNext /\ UNCHANGED blocklistVars
        /\ UNCHANGED part]_jobVars

\* BlocklistFairness for the behaviours about block lists. (UpdateFairness asks
\* nothing of them: no watcher can take a step before there is a schedule.)
FairNodeJobsSpec ==
  /\ NodeJobsSpec
  /\ \A t \in Tasks : WF_blocklistVars(part = "blocklists" /\ LoopStep(t))
  /\ \A t \in Loops : SF_blocklistVars(part = "blocklists" /\ Rename(t))
  /\ UpdateFairness

\* Every table, key and run keeps its shape.
NodeJobsTypeOK == BlocklistTypeOK /\ UpdateTypeOK
=============================================================================
