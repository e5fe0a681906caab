----------------------------- MODULE MCTeaching -----------------------------
(***************************************************************************)
(* What teachers, students and the two cron jobs do during a school day,   *)
(* for TLC. A behaviour is about one of four things, which share nothing   *)
(* but the process they run in: the lessons of a class (several of them,   *)
(* no screen locked); its screens (one lesson, started by its teacher, and *)
(* ClassPulse); the sites of restricted students; the override codes.      *)
(***************************************************************************)
EXTENDS Classroom, Grants, TLC

VARIABLE part

teachingVars == <<classVars, grantVars, part>>

\* Rows and handlers that differ only in name. The instance calls lessons and rows of
\* penalty_box, and jobs and handlers, by the same names: no behaviour has both.
Symmetry ==
  Permutations(Handlers) \cup Permutations(Boxes) \cup Permutations(Requests)
    \cup Permutations(Addresses)

OneTeachersLesson ==
  /\ Cardinality({l \in Lessons : lessons'[l].status # "free"}) <= 1
  /\ \A j \in Jobs : jobs'[j].step # "autoStart"

TeachingInit ==
  ClassInit /\ GrantsInit /\ part \in {"lessons", "screens", "sites", "codes"}

TeachingSpec ==
  /\ TeachingInit
  /\ [][/\ \/ /\ UNCHANGED grantVars
              /\ \/ part = "lessons" /\ (LessonSteps \/ \E s \in Pupils : Receive(s))
                 \/ part = "screens" /\ ClassNext /\ OneTeachersLesson
           \/ /\ UNCHANGED classVars
              /\ \/ part = "sites" /\ SiteSteps
                 \/ part = "codes" /\ CodeSteps
        /\ UNCHANGED part]_teachingVars

\* Every table, message and handler keeps its shape.
TeachingTypeOK == ClassTypeOK /\ GrantsTypeOK
=============================================================================
