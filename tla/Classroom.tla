------------------------------ MODULE Classroom ------------------------------
(***************************************************************************)
(* Lessons of one class, the focus lock of a ClassPulse session, and the   *)
(* screens that teachers lock (backend/src/routes/classes.js,              *)
(* classpulse.js and extension.js, services/scheduler.js, sockets/index.js,*)
(* services/screenLock.js; chrome-extension/src/background/                *)
(* service-worker.js).                                                     *)
(*                                                                         *)
(* A lock is a message to the student's room of the socket server: a       *)
(* device that is not connected misses it, and nothing sends it again. The *)
(* lock itself is a value in the device's storage. What the server knows   *)
(* of it is a mirror, written along with the message. Every handler that   *)
(* locks or releases first changes a row and then, an await or two later,  *)
(* tells the students: between the two others do the same.                 *)
(*                                                                         *)
(* Which filtering a lesson puts in force is PolicyCache's subject.        *)
(* External: socket.io, chrome.storage, Postgres (READ COMMITTED).         *)
(***************************************************************************)
EXTENDS Naturals, FiniteSets, Sequences

CONSTANTS
  Pupils,
  Lessons,      \* bound: the rows lesson_sessions can have
  Jobs,         \* bound: handlers and cron jobs in flight at once
  MaxWire,      \* bound: the messages under way to a device
  MaxFaults     \* bound: disconnections, jobs and writes that fail, students that leave

ASSUME WireIsPositive == MaxWire \in Nat \ {0}
ASSUME ClassroomFaultsAreNat == MaxFaults \in Nat

VARIABLES
  lessons,     \* lesson_sessions of the class
  pulse,       \* the ClassPulse session of the class
  roster,      \* class_members
  joined,      \* classpulse_session_students
  jobs,        \* jobs[j]: what handler j has read and is about to do
  online,      \* the devices whose socket is connected
  wire,        \* wire[s]: messages under way to s
  arming,      \* lock messages a device is handling: lockScreen awaits the server's URL
  device,      \* device[s]: cg_locked in chrome.storage.local
  mirror,      \* mirror[s]: teacher:screen_locked:<id> in Redis
  owed,        \* history: a release was decided on and no lock since
  excuse,      \* history: what may have left the screen of s wrong since the last message
  raced,       \* history: two starts of a lesson overlapped
  faults

lessonVars == <<lessons, raced>>
pulseVars == <<pulse, joined>>
deviceVars == <<arming, device>>
sentVars == <<wire, mirror, excuse, owed>>
classVars == <<lessonVars, pulseVars, roster, jobs, online, deviceVars, sentVars, faults>>

Messages == {"teacher", "pulse", "release"}
Reasons == {"missed", "unwritten", "dropped", "stopped", "late", "overtaken", "slipped", "freed"}
NoJob == [step |-> "idle"]
Job == {NoJob}
  \cup [step : {"start"}, seen : SUBSET Lessons]       \* POST lessons, in its transaction
  \cup [step : {"autoStart"}]                          \* autoStartLessons, after its SELECT
  \cup [step : {"endClass", "engage", "release"}]      \* about to tell the students
  \cup [step : {"join", "greet"}, student : Pupils, locked : BOOLEAN]

\* The tables, the jobs and the devices keep their shape.
ClassTypeOK ==
  /\ lessons \in [Lessons -> [status : {"free", "active", "ended"}, auto : BOOLEAN, due : BOOLEAN]]
  /\ pulse \in [status : {"none", "active", "ended"}, locked : BOOLEAN]
  /\ roster \subseteq Pupils /\ joined \subseteq Pupils /\ online \subseteq Pupils
  /\ jobs \in [Jobs -> Job]
  /\ \A s \in Pupils : wire[s] \in Seq(Messages) /\ Len(wire[s]) <= MaxWire
  /\ arming \subseteq Pupils
  /\ device \in [Pupils -> {"none", "teacher", "pulse"}]
  /\ mirror \in [Pupils -> BOOLEAN]
  /\ owed \subseteq Pupils
  /\ excuse \in [Pupils -> SUBSET Reasons]
  /\ raced \in BOOLEAN
  /\ faults \in 0 .. MaxFaults

ClassInit ==
  /\ lessons = [l \in Lessons |-> [status |-> "free", auto |-> FALSE, due |-> FALSE]]
  /\ pulse = [status |-> "none", locked |-> FALSE]
  /\ roster = Pupils /\ joined = {} /\ online = Pupils
  /\ jobs = [j \in Jobs |-> NoJob]
  /\ wire = [s \in Pupils |-> <<>>]
  /\ arming = {}
  /\ device = [s \in Pupils |-> "none"]
  /\ mirror = [s \in Pupils |-> FALSE]
  /\ owed = {}
  /\ excuse = [s \in Pupils |-> {}]
  /\ raced = FALSE
  /\ faults = 0

Fault == faults < MaxFaults /\ faults' = faults + 1
Do(j, job) == jobs' = [jobs EXCEPT ![j] = job]
Open == {l \in Lessons : lessons[l].status = "active"}
Focus == pulse.status = "active" /\ pulse.locked
Blame(students, reason) ==
  excuse' = [s \in Pupils |-> excuse[s] \cup IF s \in students THEN {reason} ELSE {}]

-----------------------------------------------------------------------------
(* sockets/index.js: the one path every lock and unlock takes.             *)

\* The message to each student's room, and the mirror, which nobody waits for and Redis
\* may fail to write. Histories: what was wrong with the messages before it no longer
\* counts; a device that is not connected has missed it; a lock after its session was
\* released is late; a release while the focus lock is on sets a student free.
Send(students, message) ==
  \E unwritten \in SUBSET students :
    /\ IF unwritten = {} THEN UNCHANGED faults ELSE Fault
    /\ \A s \in students : Len(wire[s]) < MaxWire
    /\ wire' = [s \in Pupils |-> IF s \in students \cap online THEN Append(wire[s], message)
                                   ELSE wire[s]]
    /\ mirror' = [s \in Pupils |-> IF s \in students \ unwritten THEN message # "release"
                                     ELSE mirror[s]]
    /\ excuse' = [s \in Pupils |->
         IF s \notin students THEN excuse[s]
         ELSE (IF s \notin online THEN {"missed"} ELSE {})
                \cup (IF s \in unwritten THEN {"unwritten"} ELSE {})
                \cup (IF message = "pulse" /\ ~Focus THEN {"late"} ELSE {})
                \cup (IF message = "release" /\ Focus THEN {"freed"} ELSE {})]
    /\ owed' = IF message = "teacher" \/ (message = "pulse" /\ Focus) THEN owed \ students
               ELSE owed

-----------------------------------------------------------------------------
(* Lessons.                                                                *)

Starting == {j \in Jobs : jobs[j].step \in {"start", "autoStart"}}

\* POST /classes/:id/lessons: its transaction closes the sessions it sees ...
StartLesson(j) ==
  /\ jobs[j] = NoJob
  /\ raced' = (raced \/ Starting # {})
  /\ Do(j, [step |-> "start", seen |-> Open])
  /\ UNCHANGED <<lessons, pulseVars, roster, online, deviceVars, sentVars, faults>>

\* Mutant: the new session is opened beside the old one.
CommitBeside(j, l) ==
  /\ jobs[j].step = "start" /\ lessons[l].status = "free"
  /\ lessons' = [lessons EXCEPT ![l].status = "active"]
  /\ Do(j, NoJob)
  /\ UNCHANGED <<raced, pulseVars, roster, online, deviceVars, sentVars, faults>>

\* ... and opens its own: no other transaction sees either before the COMMIT.
CommitLesson(j, l) ==
  /\ jobs[j].step = "start" /\ lessons[l].status = "free"
  /\ lessons' = [k \in Lessons |->
       IF k = l THEN [status |-> "active", auto |-> FALSE, due |-> FALSE]
       ELSE IF k \in jobs[j].seen THEN [lessons[k] EXCEPT !.status = "ended"] ELSE lessons[k]]
  /\ Do(j, NoJob)
  /\ UNCHANGED <<raced, pulseVars, roster, online, deviceVars, sentVars, faults>>

\* autoStartLessons at the start of the period: the class has no active session ...
AutoStart(j) ==
  /\ jobs[j] = NoJob /\ Open = {}
  /\ raced' = (raced \/ Starting # {})
  /\ Do(j, [step |-> "autoStart"])
  /\ UNCHANGED <<lessons, pulseVars, roster, online, deviceVars, sentVars, faults>>

\* ... and, when the job comes to this class, a monitor session is inserted.
InsertAutoLesson(j, l) ==
  /\ jobs[j].step = "autoStart" /\ lessons[l].status = "free"
  /\ lessons' = [lessons EXCEPT ![l] = [status |-> "active", auto |-> TRUE, due |-> FALSE]]
  /\ Do(j, NoJob)
  /\ UNCHANGED <<raced, pulseVars, roster, online, deviceVars, sentVars, faults>>

\* ends_at of an auto-started session is reached.
PeriodEnds(l) ==
  /\ lessons[l].auto /\ ~lessons[l].due
  /\ lessons' = [lessons EXCEPT ![l].due = TRUE]
  /\ UNCHANGED <<raced, pulseVars, roster, jobs, online, deviceVars, sentVars, faults>>

\* The students of the class, and those a removal has taken out of it, are to be
\* released.
OweClass ==
  owed' = owed \cup roster \cup {s \in Pupils : "dropped" \in excuse[s]}

\* DELETE /classes/:id/lessons/:lessonId, of a session that may have ended before.
EndLesson(j, l) ==
  /\ jobs[j] = NoJob /\ lessons[l].status # "free"
  /\ IF lessons[l].status = "active" THEN OweClass ELSE UNCHANGED owed
  /\ lessons' = [lessons EXCEPT ![l].status = "ended"]
  /\ Do(j, [step |-> "endClass"])
  /\ UNCHANGED <<raced, pulseVars, roster, online, deviceVars, wire, mirror, excuse, faults>>

\* endScheduledLessons, every minute.
EndScheduledLessons(j) ==
  LET over == {l \in Open : lessons[l].due}
  IN /\ jobs[j] = NoJob /\ over # {}
     /\ OweClass
     /\ lessons' = [l \in Lessons |-> IF l \in over THEN [lessons[l] EXCEPT !.status = "ended"]
                                      ELSE lessons[l]]
     /\ Do(j, [step |-> "endClass"])
     /\ UNCHANGED <<raced, pulseVars, roster, online, deviceVars, wire, mirror, excuse, faults>>

\* What follows both: the roster is read and every student in it released.
ReleaseClass(j) ==
  /\ jobs[j].step = "endClass"
  /\ Send(roster, "release")
  /\ Do(j, NoJob)
  /\ UNCHANGED <<lessonVars, pulseVars, roster, online, deviceVars>>

-----------------------------------------------------------------------------
(* ClassPulse.                                                             *)

\* POST /classpulse/sessions/start
StartPulse(locked) ==
  /\ pulse.status = "none"
  /\ pulse' = [status |-> "active", locked |-> locked]
  /\ UNCHANGED <<lessonVars, joined, roster, jobs, online, deviceVars, sentVars, faults>>

\* POST /classpulse/join/:code reads the session, with its lock ...
Join(j, s) ==
  /\ jobs[j] = NoJob /\ pulse.status = "active"
  /\ Do(j, [step |-> "join", student |-> s, locked |-> pulse.locked])
  /\ UNCHANGED <<lessonVars, pulseVars, roster, online, deviceVars, sentVars, faults>>

\* ... inserts the student (who slips in if the lock was engaged meanwhile) ...
InsertJoined(j) ==
  LET s == jobs[j].student
  IN /\ jobs[j].step = "join"
     /\ joined' = joined \cup {s}
     /\ IF Focus /\ ~jobs[j].locked THEN Blame({s}, "slipped") ELSE UNCHANGED excuse
     /\ Do(j, IF jobs[j].locked THEN [jobs[j] EXCEPT !.step = "greet"] ELSE NoJob)
     /\ UNCHANGED <<lessonVars, pulse, roster, online, deviceVars, wire, mirror, owed, faults>>

\* Mutant: a student who comes late is not locked.
GreetOnly(j) ==
  /\ jobs[j].step = "greet"
  /\ Do(j, NoJob)
  /\ UNCHANGED <<lessonVars, pulseVars, roster, online, deviceVars, sentVars, faults>>

\* ... and locks the late joiner if the session was locked when it was read.
GreetJoined(j) ==
  /\ jobs[j].step = "greet"
  /\ Send({jobs[j].student}, "pulse")
  /\ Do(j, NoJob)
  /\ UNCHANGED <<lessonVars, pulseVars, roster, online, deviceVars>>

\* POST /classpulse/sessions/:id/lock
LockPulse(j) ==
  /\ jobs[j] = NoJob /\ pulse.status = "active"
  /\ pulse' = [pulse EXCEPT !.locked = TRUE]
  /\ Do(j, [step |-> "engage"])
  /\ UNCHANGED <<lessonVars, joined, roster, online, deviceVars, sentVars, faults>>

\* Those it reaches: who has joined, and the class.
EngageLock(j) ==
  /\ jobs[j].step = "engage"
  /\ Send(joined \cup roster, "pulse")
  /\ Do(j, NoJob)
  /\ UNCHANGED <<lessonVars, pulseVars, roster, online, deviceVars>>

OwePulse ==
  owed' = owed \cup joined \cup roster \cup {s \in Pupils : "dropped" \in excuse[s]}

\* POST /classpulse/sessions/:id/unlock
UnlockPulse(j) ==
  /\ jobs[j] = NoJob /\ pulse.status = "active"
  /\ pulse' = [pulse EXCEPT !.locked = FALSE]
  /\ OwePulse
  /\ Do(j, [step |-> "release"])
  /\ UNCHANGED <<lessonVars, joined, roster, online, deviceVars, wire, mirror, excuse, faults>>

\* POST /classpulse/sessions/:id/end: a release if the lock is on.
EndPulse(j) ==
  /\ jobs[j] = NoJob /\ pulse.status = "active"
  /\ pulse' = [pulse EXCEPT !.status = "ended"]
  /\ IF pulse.locked THEN OwePulse /\ Do(j, [step |-> "release"]) ELSE UNCHANGED <<owed, jobs>>
  /\ UNCHANGED <<lessonVars, joined, roster, online, deviceVars, wire, mirror, excuse, faults>>

\* Mutant: only who has joined is released.
ReleaseJoined(j) ==
  /\ jobs[j].step = "release"
  /\ Send(joined, "release")
  /\ Do(j, NoJob)
  /\ UNCHANGED <<lessonVars, pulseVars, roster, online, deviceVars>>

\* What follows both, to all whom the lock may have reached.
ReleasePulse(j) ==
  /\ jobs[j].step = "release"
  /\ Send(joined \cup roster, "release")
  /\ Do(j, NoJob)
  /\ UNCHANGED <<lessonVars, pulseVars, roster, online, deviceVars>>

-----------------------------------------------------------------------------
(* One student.                                                            *)

\* POST /extension/lock-request for a student of the teacher's class.
TeacherLocks(s) ==
  /\ s \in roster
  /\ Send({s}, "teacher")
  /\ UNCHANGED <<lessonVars, pulseVars, roster, jobs, online, deviceVars>>

\* POST /extension/unlock-request
TeacherUnlocks(s) ==
  /\ s \in roster
  /\ Send({s}, "release")
  /\ UNCHANGED <<lessonVars, pulseVars, roster, jobs, online, deviceVars>>

\* DELETE /classes/:id/members/:userId
RemoveMember(s) ==
  /\ Fault /\ s \in roster
  /\ roster' = roster \ {s}
  /\ Blame({s}, "dropped")
  /\ UNCHANGED <<lessonVars, pulseVars, jobs, online, deviceVars, wire, mirror, owed>>

\* POST /classes/:id/members
AddMember(s) ==
  /\ roster' = roster \cup {s}
  /\ UNCHANGED <<lessonVars, pulseVars, jobs, online, deviceVars, sentVars, faults>>

-----------------------------------------------------------------------------
(* service-worker.js on the device of s.                                   *)

\* Mutant: a lock stays until the next one: unlockScreen does not touch the storage.
ReceiveAndKeep(s) ==
  LET message == Head(wire[s])
  IN /\ wire[s] # <<>>
     /\ wire' = [wire EXCEPT ![s] = Tail(@)]
     /\ device' = [device EXCEPT ![s] = IF message = "teacher" THEN "teacher" ELSE @]
     /\ arming' = IF message = "pulse" THEN arming \cup {s} ELSE arming
     /\ IF message # "pulse" /\ s \in arming THEN Blame({s}, "overtaken") ELSE UNCHANGED excuse
     /\ UNCHANGED <<lessonVars, pulseVars, roster, jobs, online, mirror, owed, faults>>

\* Mutant: a release is stored like a lock.
ReceiveAndStore(s) ==
  LET message == Head(wire[s])
  IN /\ wire[s] # <<>>
     /\ wire' = [wire EXCEPT ![s] = Tail(@)]
     /\ device' = [device EXCEPT ![s] = IF message = "pulse" THEN @ ELSE message]
     /\ arming' = IF message = "pulse" THEN arming \cup {s} ELSE arming
     /\ IF message # "pulse" /\ s \in arming THEN Blame({s}, "overtaken") ELSE UNCHANGED excuse
     /\ UNCHANGED <<lessonVars, pulseVars, roster, jobs, online, mirror, owed, faults>>

\* lock:engage and lock:release. A teacher's lock and a release are in the storage at
\* once; a lock to a session page first asks for the server's URL, and what arrives
\* meanwhile overtakes it.
Receive(s) ==
  LET message == Head(wire[s])
  IN /\ wire[s] # <<>>
     /\ wire' = [wire EXCEPT ![s] = Tail(@)]
     /\ device' = [device EXCEPT ![s] = CASE message = "teacher" -> "teacher"
                                          [] message = "release" -> "none"
                                          [] message = "pulse" -> @]
     /\ arming' = IF message = "pulse" THEN arming \cup {s} ELSE arming
     /\ IF message # "pulse" /\ s \in arming THEN Blame({s}, "overtaken") ELSE UNCHANGED excuse
     /\ UNCHANGED <<lessonVars, pulseVars, roster, jobs, online, mirror, owed, faults>>

\* The URL is known: lockScreen writes cg_locked.
ArmLock(s) ==
  /\ s \in arming
  /\ arming' = arming \ {s}
  /\ device' = [device EXCEPT ![s] = "pulse"]
  /\ UNCHANGED <<lessonVars, pulseVars, roster, jobs, online, sentVars, faults>>

\* The worker is suspended, or the network is lost: what was under way is lost with it.
Disconnect(s) ==
  /\ Fault /\ s \in online
  /\ online' = online \ {s}
  /\ wire' = [wire EXCEPT ![s] = <<>>]
  /\ arming' = arming \ {s}
  /\ IF wire[s] # <<>> \/ s \in arming THEN Blame({s}, "missed") ELSE UNCHANGED excuse
  /\ UNCHANGED <<lessonVars, pulseVars, roster, jobs, device, mirror, owed>>

\* It connects again. Nobody tells it what it missed.
Connect(s) ==
  /\ s \notin online
  /\ online' = online \cup {s}
  /\ UNCHANGED <<lessonVars, pulseVars, roster, jobs, deviceVars, sentVars, faults>>

\* A statement fails, or the process stops: the students are not told.
JobStops(j) ==
  /\ Fault /\ jobs[j] # NoJob
  /\ Do(j, NoJob)
  /\ IF jobs[j].step \in {"start", "autoStart"} THEN UNCHANGED excuse
     ELSE Blame(Pupils, "stopped")
  /\ UNCHANGED <<lessonVars, pulseVars, roster, online, deviceVars, wire, mirror, owed>>

-----------------------------------------------------------------------------
LessonSteps ==
  \E j \in Jobs :
    \/ StartLesson(j) \/ AutoStart(j) \/ EndScheduledLessons(j) \/ ReleaseClass(j)
    \/ \E l \in Lessons : \/ CommitLesson(j, l) \/ InsertAutoLesson(j, l)
                          \/ PeriodEnds(l) \/ EndLesson(j, l)

PulseSteps ==
  \/ \E locked \in BOOLEAN : StartPulse(locked)
  \/ \E j \in Jobs : \/ LockPulse(j) \/ UnlockPulse(j) \/ EndPulse(j)
                     \/ InsertJoined(j) \/ GreetJoined(j) \/ EngageLock(j) \/ ReleasePulse(j)
                     \/ \E s \in Pupils : Join(j, s)

StudentSteps ==
  \E s \in Pupils :
    \/ TeacherLocks(s) \/ TeacherUnlocks(s) \/ RemoveMember(s) \/ AddMember(s)
    \/ Receive(s) \/ ArmLock(s) \/ Disconnect(s) \/ Connect(s)

ClassNext ==
  \/ LessonSteps \/ PulseSteps \/ StudentSteps
  \/ \E j \in Jobs : JobStops(j)

ClassSpec == ClassInit /\ [][ClassNext]_classVars

-----------------------------------------------------------------------------
(* What must hold.                                                         *)

\* Nothing is under way to s.
Settled(s) ==
  wire[s] = <<>> /\ s \notin arming /\ \A j \in Jobs : jobs[j].step \in {"idle", "start", "autoStart"}

\* A class has one session at a time unless two starts overlapped: the UPDATE and the
\* INSERT of a teacher's start, the SELECT and the INSERT of the bell schedule's.
OneSession == Cardinality(Open) <= 1 \/ raced

\* "Don't leave a student locked out of their own browser": once it was decided to
\* release a student - the lesson or the session ended, the lock was lifted - and all
\* is said, the screen is free, unless one of five things happened since the last
\* message that was meant for it: the device missed that message, the student was taken
\* off the roster, a handler stopped half way, it was a lock sent after the release it
\* had not seen, or overtaken by the release on the device.
NoForgottenLock ==
  \A s \in Pupils :
    (Settled(s) /\ s \in owed /\ device[s] # "none") =>
      excuse[s] \cap {"missed", "dropped", "stopped", "late", "overtaken"} # {}

\* Who has joined a session whose focus lock is on is locked, early or late, unless the
\* device missed it, the handler stopped, the student slipped in while the lock was
\* being engaged, or another release set the student free.
FocusLockReaches ==
  \A s \in joined :
    (Settled(s) /\ Focus /\ device[s] = "none") =>
      excuse[s] \cap {"missed", "stopped", "slipped", "freed"} # {}

\* What a class page shows of a screen is what the device has, unless the device
\* missed the last message or handled the last two out of order, or Redis failed to
\* take the last write.
MirrorTruthful ==
  \A s \in Pupils :
    Settled(s) /\ excuse[s] \cap {"missed", "overtaken", "unwritten"} = {} =>
      mirror[s] = (device[s] # "none")

\* "Manual start always wins ... never double-started": the bell schedule has no
\* session open beside a teacher's.
ManualStartWins ==
  ~ \E k, l \in Open : lessons[k].auto /\ ~lessons[l].auto
=============================================================================
